---------------------------- MODULE ConfigBuild ----------------------------
(***************************************************************************)
(* The outbounds of a configuration (configs/generate.cpp): chains of hops *)
(* that run in sing-box and in Xray by turns, for a profile that is        *)
(* started, for the pool of an auto selector and for a batch of tests.     *)
(*                                                                         *)
(* Two cores carry one chain.  Where it changes from one to the other, a   *)
(* SOCKS bridge leads from an outbound of one to an inbound of the other,  *)
(* whose rule leads on; both sides are put together from lists that grow   *)
(* in different functions.  An outbound reaches the next one by its tag.   *)
(*                                                                         *)
(* A profile is known by its kind.  What a protocol puts into its outbound *)
(* is left out, and so are the endpoints of a routing profile (auxiliary   *)
(* chains, sing-box only), whole sing-box configurations (nothing is built *)
(* for them), rules that name outbounds, DNS and inbounds other than       *)
(* bridges.  A port that MkManyPorts (external) deals was not dealt before *)
(* in this build, or is 0 where none could be had.                         *)
(***************************************************************************)
EXTENDS Naturals, FiniteSets, Sequences, SequencesExt

CONSTANTS Sing, Xray,    \* profiles that run in sing-box, in Xray
          Full, Extra,   \* opaque Xray configurations, extra cores
          Warp, Bridge,  \* hops that are no profile of the user
          Ent, NoHop,    \* the chain or selector that is started; no hop
          Items,         \* what is started or tested, stored order
          Ends,          \* landing and front proxies of the group, or NoHop
          Routes,        \* outbounds of the rules of the routing profile
          Pools          \* members of an auto selector

Kinds == Sing \cup Xray \cup Full \cup Extra
Wrappers == {"wrapper"} \X (Nat \ {0})    \* the chains of the rules, by their place
IsItem(i) ==
    /\ i \in [chain : BOOLEAN, list : Seq(Kinds)]
    /\ i.list # <<>>
    /\ ~i.chain => Len(i.list) = 1
ASSUME ConfigAssumption ==
    /\ Ends \subseteq Kinds \cup {NoHop}
    /\ \A i \in Items : IsItem(i)
    /\ Routes \subseteq Seq([chain : BOOLEAN, list : Seq(Kinds)])
    /\ \A r \in Routes : \A i \in DOMAIN r : IsItem(r[i])
    /\ Pools \subseteq Seq(Kinds)
    /\ Warp # Bridge /\ Ent \notin {Warp, Bridge}
    /\ {Warp, Bridge, Ent, NoHop} \cap Kinds = {}
    /\ Kinds \cap Wrappers = {} /\ Warp \notin Wrappers
    /\ Sing \cap Xray = {} /\ Full \cap (Xray \cup Extra) = {}

VARIABLES
    job,      \* what is to be built
    at, k,    \* the function at work, and how far its loop is
    ctx,      \* BuildContext, as far as chains go
    suffix,   \* routeSuffix, or suffix of the test candidates
    outboundMap,  \* tags by which the rules name the chains of Routes
    planned,  \* members of the pool that are built
    ports, portIdx,  \* ports dealt for all members or candidates, how many are taken
    rules,    \* inbounds of the bridges with their rules, per core
    asked     \* history: the chains built, with the tag that names each
confVars == <<job, at, k, ctx, suffix, outboundMap, planned, ports, portIdx, rules, asked>>

\* The first n values of f together.
Total(f, n) == LET sum[i \in 0..n] == IF i = 0 THEN 0 ELSE sum[i - 1] + f[i] IN sum[n]

-----------------------------------------------------------------------------
(* A chain.                                                                *)

\* Tags: the prefix and the index of a hop, or a name of its own.
Proxy == <<"proxy">>
WarpBypass == <<"warp-bypass">>
NoTag == <<>>
HopTag(prefix, i) == Append(prefix, i)

IsXray(p) == p \in Xray
IsSing(p) == p \notin Xray
Where(hops, S) == {i \in DOMAIN hops : hops[i] \in S}

\* The hops at which a chain changes from one core to the other; it begins in
\* sing-box.
Transitions(hops) == {i \in DOMAIN hops : IsXray(hops[i]) # (i > 1 /\ IsXray(hops[i - 1]))}
SingToXray(hops) == \E i \in Transitions(hops) : IsXray(hops[i])
XrayToSing(hops) == \E i \in Transitions(hops) : IsSing(hops[i])

ChainScanError(hops) ==
    \/ Cardinality(Where(hops, Extra)) > 1
    \/ Cardinality(Where(hops, Full)) > 1
    \/ Where(hops, Full) # {} /\ Where(hops, Extra \cup Xray) # {}
    \/ \E i \in Where(hops, Extra \cup Full) : i # Len(hops)
    \/ Cardinality(Transitions(hops)) > 2

\* The first hop may be the proxy, the second one what warp wraps.
TagOf(req, i) ==
    CASE req.warpWrap /\ i = 2     -> WarpBypass
      [] req.includeProxy /\ i = 1 -> Proxy
      [] OTHER                     -> HopTag(req.prefix, req.startSuffix + i - 1)

Outbound(tag, hop, port, detour) == [tag |-> tag, hop |-> hop, port |-> port, detour |-> detour]

\* Hops as pairs <<hop, port>>: a bridge and an opaque config are dialed at a port.
SingboxChain(req, ents) ==
    [i \in DOMAIN ents |->
        Outbound(TagOf(req, i), ents[i][1], ents[i][2],
                 IF req.warpWrap /\ i = 1 THEN WarpBypass
                 ELSE IF i < Len(ents) /\ req.link THEN HopTag(req.prefix, req.startSuffix + i)
                 ELSE NoTag)]

\* bridge is the port that leads back to sing-box, or 0.
XrayChain(req, ents, bridge) ==
    LET next(i) == HopTag(req.prefix, req.startSuffix + i)
    IN  [i \in DOMAIN ents |->
            Outbound(TagOf([req EXCEPT !.warpWrap = FALSE], i), ents[i], 0,
                     IF bridge # 0 \/ (i < Len(ents) /\ req.link) THEN next(i) ELSE NoTag)]
        \o IF bridge = 0 THEN <<>> ELSE <<Outbound(next(Len(ents)), Bridge, bridge, NoTag)>>

\* The first hop from a place on that runs in Xray, or does not.
Turn(hops, from, xray) ==
    CHOOSE i \in from..Len(hops) + 1 : /\ i > Len(hops) \/ (IsXray(hops[i]) <=> xray)
                                       /\ \A j \in from..i - 1 : IsXray(hops[j]) <=> ~xray

\* The three parts of a chain: before the first Xray hop, in Xray, and after it. No chain
\* that changes cores more than twice gets here, so there are no more.
FirstXray(hops) == Turn(hops, 1, TRUE)
FirstBack(hops) == Turn(hops, FirstXray(hops), FALSE)
Leading(hops) == SubSeq(hops, 1, FirstXray(hops) - 1)
InXray(hops) == SubSeq(hops, FirstXray(hops), FirstBack(hops) - 1)
Tailing(hops) == SubSeq(hops, FirstBack(hops), Len(hops))

NoPorts == [singToXray |-> 0, xrayToSing |-> 0, full |-> 0]
Opaque(hops) == hops # <<>> /\ Last(hops) \in Full

\* What was not dealt for the chain it asks for itself: ok says whether it gets it.
Dealt(n, ok) == IF ok THEN ctx.dealt + n ELSE 0
PortsOf(hops, given, ok) ==
    [singToXray |-> IF given.singToXray # 0 THEN given.singToXray ELSE Dealt(1, ok),
     xrayToSing |-> IF given.xrayToSing # 0 THEN given.xrayToSing
                    ELSE Dealt(IF given.singToXray # 0 THEN 1 ELSE 2, ok),
     full       |-> IF given.full # 0 THEN given.full ELSE Dealt(1, ok)]

ChainError(hops, p) ==
    \/ ChainScanError(hops)
    \/ Opaque(hops) /\ p.full = 0
    \/ SingToXray(hops) /\ p.singToXray = 0
    \/ XrayToSing(hops) /\ p.xrayToSing = 0

\* Mutant: the first hop of the proxy is taken to have the tag of its index.
IngressTag_ByIndex(req) == HopTag(req.prefix, req.startSuffix)
IngressTag(req) == IF req.includeProxy THEN Proxy ELSE HopTag(req.prefix, req.startSuffix)

LeadingEnts(hops, p) ==
    [i \in DOMAIN Leading(hops) |->
        <<Leading(hops)[i], IF Leading(hops)[i] \in Full THEN p.full ELSE 0>>]
    \o IF SingToXray(hops) THEN <<<<Bridge, p.singToXray>>>> ELSE <<>>

\* Mutant: the bridge takes no index of its own.
TailingStart_NoBridge(req, p) == req.startSuffix + Len(Leading(req.hops))
TailingStart(req, p) == req.startSuffix + Len(LeadingEnts(req.hops, p))

\* buildOutboundChain, once nothing is wrong with the hops and the ports.
BuildOutboundChain(req, p) ==
    LET hops == req.hops
        tail == [req EXCEPT !.includeProxy = FALSE, !.warpWrap = FALSE,
                            !.startSuffix = TailingStart(req, p)]
        tailEnts == [i \in DOMAIN Tailing(hops) |-> <<Tailing(hops)[i], 0>>]
        back == IF XrayToSing(hops) THEN p.xrayToSing ELSE 0
        tailTag == HopTag(req.prefix, TailingStart(req, p))
        inXray == InXray(hops) # <<>>
        tails == tailEnts # <<>>
    IN  [ctx EXCEPT
            !.outbounds = @ \o SingboxChain(req, LeadingEnts(hops, p)) \o SingboxChain(tail, tailEnts),
            !.xrayOutbounds = IF inXray THEN @ \o XrayChain(req, InXray(hops), back) ELSE @,
            !.singToXray = IF SingToXray(hops) THEN Append(@, p.singToXray) ELSE @,
            !.xrayToSing = IF XrayToSing(hops) THEN Append(@, p.xrayToSing) ELSE @,
            !.xrayIngress = IF inXray THEN Append(@, IngressTag(req)) ELSE @,
            !.singIngress = IF tails THEN Append(@, tailTag) ELSE @,
            !.xrayConfig = IF Opaque(hops) THEN p.full ELSE @,
            !.chainGroups = Append(@, [watch |-> IF tails THEN tailTag ELSE IngressTag(req),
                                       profiles |-> hops \o req.credit]),
            !.dealt = @ + 2]

\* The one slot of an opaque config is emptied where each gets an instance of its own.
\* Mutant: the next one overwrites it.
Drained_Not(c) == c
Drained(c) == [c EXCEPT !.fulls = Append(@, c.xrayConfig), !.xrayConfig = 0]

-----------------------------------------------------------------------------
(* The parts of a build.                                                   *)

Jobs ==
    [purpose : {"connect"}, items : {<<i>> : i \in Items}, landing : Ends, front : Ends,
     warp : BOOLEAN, routes : Routes]
    \cup [purpose : {"selector"}, items : Pools, landing : Ends, front : Ends,
          warp : BOOLEAN, routes : Routes]
    \cup [purpose : {"test"}, items : {<<i, j>> : i \in Items, j \in Items} \ {<<i, i>> : i \in Items},
          landing : Ends, front : Ends, warp : {FALSE}, routes : {<<>>}]

ConfInit ==
    /\ job \in Jobs
    /\ at = IF job.purpose = "test" THEN "prepare" ELSE "prerequisites"
    /\ ctx = [outbounds |-> <<>>, xrayOutbounds |-> <<>>, singToXray |-> <<>>, xrayToSing |-> <<>>,
              singIngress |-> <<>>, xrayIngress |-> <<>>, xrayConfig |-> 0, merged |-> FALSE,
              fulls |-> <<>>, chainGroups |-> <<>>, dealt |-> 0]
    /\ k = 1 /\ suffix = 0 /\ portIdx = 0
    /\ outboundMap = <<>> /\ planned = <<>> /\ ports = <<>> /\ asked = <<>>
    /\ rules = [sing |-> {}, xray |-> {}]

\* Around the hops of a profile go the landing and the front proxy of its group. Stored
\* from the entry to the exit, hops are built from the exit to the entry.
End(p) == IF p = NoHop THEN <<>> ELSE <<p>>
WithEnds(hops) == End(job.landing) \o hops \o End(job.front)
UnwrapChain(item) == Reverse(item.list)

Request(hops, prefix, start, credit) ==
    [hops |-> hops, prefix |-> prefix, startSuffix |-> start, credit |-> credit,
     includeProxy |-> FALSE, link |-> TRUE, warpWrap |-> FALSE]

\* One chain of the build; name is the tag under which it is known outside.
Builds(req, given, drain, name, next) ==
    \E ok \in BOOLEAN :
        LET p == PortsOf(req.hops, given, ok)
            c == BuildOutboundChain(req, p)
        IN  IF ChainError(req.hops, p)
            THEN at' = "failed" /\ UNCHANGED <<ctx, asked>>
            ELSE /\ at' = next
                 /\ ctx' = IF drain THEN Drained(c) ELSE c
                 /\ asked' = Append(asked, [tag |-> name, hops |-> req.hops,
                                            credit |-> req.credit, drained |-> drain])

\* calculatePrerequisites: what the rules may name, and by which tag.
Lengths(items, n) == Total([i \in DOMAIN items |-> Len(items[i].list)], n)
Prerequisites ==
    /\ at = "prerequisites"
    /\ at' = IF \E i \in DOMAIN job.routes : Where(job.routes[i].list, Full \cup Extra) # {}
             THEN "failed"
             ELSE IF job.purpose = "connect" THEN "main" ELSE "plan"
    /\ outboundMap' = [i \in DOMAIN job.routes |->
                          HopTag(<<"route">>, Lengths(job.routes, i - 1))]
    /\ UNCHANGED <<job, k, ctx, suffix, planned, ports, portIdx, rules, asked>>

BuildMain ==
    /\ at = "main"
    /\ LET item == job.items[1]
           hops == (IF job.warp THEN <<Warp>> ELSE <<>>) \o WithEnds(UnwrapChain(item))
           req == [Request(hops, <<"config">>, 0, IF item.chain THEN <<Ent>> ELSE <<>>)
                      EXCEPT !.includeProxy = TRUE, !.warpWrap = job.warp]
       IN  Builds(req, NoPorts, FALSE, Proxy, "routes")
    /\ UNCHANGED <<job, k, suffix, outboundMap, planned, ports, portIdx, rules>>

\* eligibleMembers, as far as it is about chains.
FitsChain(p) ==
    /\ p \notin Extra
    /\ IF p \in Full THEN job.front = NoHop /\ job.landing \notin Xray \cup Full \cup Extra
       ELSE Cardinality(Transitions(WithEnds(<<p>>))) <= 2

\* bridgesFor, with the number of ports it stands for.
BridgesFor(hops) ==
    [singToXray |-> SingToXray(hops), xrayToSing |-> XrayToSing(hops),
     full |-> Where(hops, Full) # {}]
Count(b) ==
    (IF b.singToXray THEN 1 ELSE 0) + (IF b.xrayToSing THEN 1 ELSE 0) + IF b.full THEN 1 ELSE 0

MkManyPorts(n) ==
    \E got \in SUBSET (1..n) : /\ ports' = [i \in 1..n |-> Dealt(i, i \in got)]
                               /\ portIdx' = 0

\* The members that fit and the core accepts, in their order, and the ports for all of
\* them at once.
PlanPool ==
    /\ at = "plan" /\ at' = "members"
    /\ \E kept \in SUBSET {i \in DOMAIN job.items : FitsChain(job.items[i])} :
       \E order \in [1..Cardinality(kept) -> kept] :
        LET members == [n \in DOMAIN order |-> job.items[order[n]]]
            bridges == [n \in DOMAIN order |-> Count(BridgesFor(WithEnds(<<members[n]>>)))]
            count == Total(bridges, Cardinality(kept))
        IN  /\ \A n \in DOMAIN order : \A m \in 1..n - 1 : order[m] < order[n]
            /\ planned' = members
            /\ MkManyPorts(count)
            /\ ctx' = [ctx EXCEPT !.dealt = @ + count]
    /\ UNCHANGED <<job, k, suffix, outboundMap, rules, asked>>

\* The next ports of those dealt, one for each bridge.
Take(b) ==
    LET nth(n) == ports[portIdx + n]
        first == IF b.singToXray THEN 1 ELSE 0
        second == first + IF b.xrayToSing THEN 1 ELSE 0
    IN  [singToXray |-> IF b.singToXray THEN nth(1) ELSE 0,
         xrayToSing |-> IF b.xrayToSing THEN nth(first + 1) ELSE 0,
         full |-> IF b.full THEN nth(second + 1) ELSE 0]

\* Mutant: all members get the same ports.
PortsAfter_Same(b) == portIdx
PortsAfter(b) == portIdx + Count(b)

BuildMember ==
    /\ at = "members" /\ k <= Len(planned)
    /\ LET hops == WithEnds(<<planned[k]>>)
           b == BridgesFor(hops)
           prefix == <<"pool", k>>
       IN  /\ Builds(Request(hops, prefix, 0, <<Ent>>), Take(b), b.full, HopTag(prefix, 0), "members")
           /\ portIdx' = PortsAfter(b)
    /\ k' = k + 1
    /\ UNCHANGED <<job, suffix, outboundMap, planned, ports, rules>>

\* The selector's own outbound, with warp in front of it if that is on: then all groups
\* become one.
FinishPool ==
    /\ at = "members" /\ k > Len(planned)
    /\ IF planned = <<>> THEN at' = "failed" /\ UNCHANGED <<ctx, k>>
       ELSE /\ at' = "routes" /\ k' = 1
            /\ ctx' = IF ~job.warp
                      THEN [ctx EXCEPT !.outbounds = Append(@, Outbound(Proxy, Ent, 0, NoTag))]
                      ELSE [ctx EXCEPT
                               !.outbounds = @ \o <<Outbound(WarpBypass, Ent, 0, NoTag),
                                                    Outbound(Proxy, Warp, 0, WarpBypass)>>,
                               !.chainGroups = <<[watch |-> Proxy,
                                                  profiles |-> FlattenSeq([g \in DOMAIN @ |-> @[g].profiles])]>>]
    /\ UNCHANGED <<job, suffix, outboundMap, planned, ports, portIdx, rules, asked>>

\* Mutant: the next chain starts after a single hop.
SuffixAfter_One(item) == suffix + 1
SuffixAfter(item) == suffix + Len(item.list)

BuildRoute ==
    /\ at = "routes" /\ k <= Len(job.routes)
    /\ LET item == job.routes[k]
           req == [Request(UnwrapChain(item), <<"route">>, suffix,
                           IF item.chain THEN <<<<"wrapper", k>>>> ELSE <<>>)
                      EXCEPT !.link = Len(item.list) > 1]
       IN  /\ Builds(req, NoPorts, FALSE, outboundMap[k], "routes")
           /\ suffix' = SuffixAfter(item)
    /\ k' = k + 1
    /\ UNCHANGED <<job, outboundMap, planned, ports, portIdx, rules>>

\* buildXrayConfig: whatever the slot held gets the inbounds and outbounds of the chains.
XrayRules == {[port |-> ctx.singToXray[i], to |-> ctx.xrayIngress[i]] : i \in DOMAIN ctx.xrayIngress}
XrayMismatch == ctx.xrayOutbounds # <<>> /\ Len(ctx.xrayIngress) # Len(ctx.singToXray)
MergeXrayConfig == ctx' = [ctx EXCEPT !.merged = (ctx.xrayOutbounds # <<>>)]

\* The rest of buildOutboundsSection, buildRouteSection and buildXrayConfig.
BridgeMismatch == Len(ctx.xrayToSing) # Len(ctx.singIngress)
SingRules == {[port |-> ctx.xrayToSing[i], to |-> ctx.singIngress[i]] : i \in DOMAIN ctx.xrayToSing}
FinishConfig ==
    /\ at = "routes" /\ k > Len(job.routes)
    /\ IF BridgeMismatch \/ XrayMismatch THEN at' = "failed" /\ UNCHANGED <<ctx, rules>>
       ELSE /\ at' = "built"
            /\ rules' = [sing |-> SingRules, xray |-> XrayRules]
            /\ MergeXrayConfig
    /\ UNCHANGED <<job, k, suffix, outboundMap, planned, ports, portIdx, asked>>

-----------------------------------------------------------------------------
(* Tests.                                                                  *)

\* What bridges a candidate is given ports for: those of its own hops, if it is no chain.
Presumed(item) ==
    [singToXray |-> item.chain \/ IsXray(item.list[1]), xrayToSing |-> item.chain, full |-> FALSE]
PrepareTest ==
    /\ at = "prepare" /\ at' = "candidates"
    /\ LET count == Total([i \in DOMAIN job.items |-> Count(Presumed(job.items[i]))], Len(job.items))
       IN  MkManyPorts(count) /\ ctx' = [ctx EXCEPT !.dealt = @ + count]
    /\ suffix' = 1
    /\ UNCHANGED <<job, k, outboundMap, planned, rules, asked>>

\* classifyTestCandidate; the core rejects any other candidate or not.
Skipped(item) == IF item.chain THEN Where(item.list, Full \cup Extra) # {} ELSE item.list[1] \in Extra
SkipCandidate ==
    /\ at = "candidates" /\ k <= Len(job.items)
    /\ k' = k + 1
    /\ UNCHANGED <<job, at, ctx, suffix, outboundMap, planned, ports, portIdx, rules, asked>>

TestFullConfig ==
    /\ at = "candidates" /\ k <= Len(job.items)
    /\ LET item == job.items[k]
           prefix == <<"xrayfull", k>>
       IN  /\ ~Skipped(item) /\ Opaque(item.list)
           /\ Builds(Request(item.list, prefix, 0, <<>>), NoPorts, TRUE, HopTag(prefix, 0), "candidates")
    /\ k' = k + 1
    /\ UNCHANGED <<job, suffix, outboundMap, planned, ports, portIdx, rules>>

TestChain ==
    /\ at = "candidates" /\ k <= Len(job.items)
    /\ LET item == job.items[k]
           prefix == <<"proxy", suffix>>
       IN  /\ ~Skipped(item) /\ ~Opaque(item.list)
           /\ Builds(Request(WithEnds(UnwrapChain(item)), prefix, 0, <<>>), Take(Presumed(item)),
                     FALSE, HopTag(prefix, 0), "candidates")
           /\ portIdx' = PortsAfter(Presumed(item))
    /\ k' = k + 1 /\ suffix' = suffix + 1
    /\ UNCHANGED <<job, outboundMap, planned, ports, rules>>

\* A test box has the inbounds of the bridges and no rule for any.
FinishTest ==
    /\ at = "candidates" /\ k > Len(job.items)
    /\ IF XrayMismatch THEN at' = "failed" /\ UNCHANGED <<ctx, rules>>
       ELSE /\ at' = "built"
            /\ rules' = [sing |-> {}, xray |-> XrayRules]
            /\ MergeXrayConfig
    /\ UNCHANGED <<job, k, suffix, outboundMap, planned, ports, portIdx, asked>>

ConfNext == \/ Prerequisites \/ BuildMain
            \/ PlanPool \/ BuildMember \/ FinishPool
            \/ BuildRoute \/ FinishConfig
            \/ PrepareTest \/ SkipCandidate \/ TestFullConfig \/ TestChain \/ FinishTest

ConfSpec == ConfInit /\ [][ConfNext]_confVars

-----------------------------------------------------------------------------
(* Where a connection goes.                                                *)

OutboundsOf(core) == IF core = "sing" THEN ctx.outbounds ELSE ctx.xrayOutbounds
Other(core) == IF core = "sing" THEN "xray" ELSE "sing"
Served == (ToSet(ctx.fulls) \cup IF ctx.merged THEN {} ELSE {ctx.xrayConfig}) \ {0}

\* A set of places stands for one of them: it is empty where a tag or a port does not
\* name exactly one thing.
OutPlaces == ({"sing"} \X DOMAIN ctx.outbounds) \cup ({"xray"} \X DOMAIN ctx.xrayOutbounds)
OutAt(place) == OutboundsOf(place[1])[place[2]]
TheOnly(S) == {e \in S : S = {e}}
Named(core, tag) == TheOnly({p \in OutPlaces : p[1] = core /\ OutAt(p).tag = tag})

\* Where a connection comes out that has come to a place: behind a bridge it is in the
\* other core.
Across(p) ==
    UNION {Named(Other(p[1]), r.to) : r \in TheOnly({r \in rules[Other(p[1])] : r.port = OutAt(p).port})}
Landing(S) == UNION {IF OutAt(p).hop = Bridge THEN Across(p) ELSE {p} : p \in S}
Onward(S) == UNION {Named(p[1], OutAt(p).detour) : p \in {q \in S : OutAt(q).detour # NoTag}}

\* The places a connection enters that is sent to the tag of a chain, one for each hop.
Entered(c) ==
    LET entered[n \in 1..Len(c.hops)] ==
            IF n = 1 THEN Named("sing", c.tag) ELSE Onward(Landing(entered[n - 1]))
    IN  entered
Passed(c) == UNION {Entered(c)[n] \cup Landing(Entered(c)[n]) : n \in DOMAIN c.hops}

\* One outbound, in the core the hop runs in; an opaque config has its own instance.
Carries(S, hop) ==
    \E p \in S : /\ OutAt(p).hop = hop /\ (p[1] = "xray") = IsXray(hop)
                 /\ hop \in Full => OutAt(p).port \in Served

\* The box of a test has no rule for the way back into sing-box.
NoWayBack(c) == job.purpose = "test" /\ XrayToSing(c.hops)

\* An opaque config was put into the one slot, and another chain of the build uses it too.
SlotShared(c) ==
    /\ Opaque(c.hops) /\ ~c.drained
    /\ \E d \in ToSet(asked) \ {c} : Where(d.hops, Full \cup Xray) # {}

\* The tag by which a chain is known leads through its hops, each once and in its own
\* core, in the order in which they were asked for, and no further, whatever else is
\* built beside it (buildOutboundChain).
FollowsHops ==
    at = "built" => \A c \in ToSet(asked) :
        \/ NoWayBack(c) \/ SlotShared(c)
        \/ LET carrier == [n \in DOMAIN c.hops |-> Landing(Entered(c)[n])]
           IN  /\ \A n \in DOMAIN c.hops : Carries(carrier[n], c.hops[n])
               /\ \A p \in carrier[Len(c.hops)] : OutAt(p).detour = NoTag

\* How often bytes of a chain are credited to p.
Watching(c) == {g \in DOMAIN ctx.chainGroups : \E p \in Passed(c) : OutAt(p).tag = ctx.chainGroups[g].watch}
Times(c, p) ==
    Cardinality(UNION {{<<g, i>> : i \in Where(ctx.chainGroups[g].profiles, {p})} : g \in Watching(c)})

\* Bytes of a chain are credited once to each of its profiles and to nothing else, unless
\* a profile is in it twice or a selector sits behind warp (buildAutoSelectorGroup gives
\* up the members' groups for a single one then).
CreditedOnce ==
    at = "built" /\ job.purpose # "test" => \A c \in ToSet(asked) :
        LET own == ToSet(c.hops) \cup ToSet(c.credit)
            all == UNION {ToSet(d.hops) \cup ToSet(d.credit) : d \in ToSet(asked)}
        IN  \/ ~IsInjective(c.hops)
            \/ job.purpose = "selector" /\ job.warp
            \/ \A p \in all : Times(c, p) = IF p \in own THEN 1 ELSE 0
=============================================================================
