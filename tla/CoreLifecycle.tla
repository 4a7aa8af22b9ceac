--------------------------- MODULE CoreLifecycle ---------------------------
(***************************************************************************)
(* The core's Start and Stop requests, core/internal/rpc/lifecycle.go,     *)
(* with the instance pointers of state.go and the sidecars of xray.go.     *)
(*                                                                         *)
(* lifecycleMu makes the two requests mutually exclusive, so one program   *)
(* counter stands for whichever request holds it.  A profile is up to five *)
(* kinds of resource (box, extra process, Xray instance or gate, gates of  *)
(* opaque full configs), each of which can fail to start; the module       *)
(* relates the pointers the core keeps to the resources that really run.   *)
(* A reader (a poll, a test, the interface monitor) may look at a pointer  *)
(* between any two steps.                                                  *)
(***************************************************************************)
EXTENDS Integers, FiniteSets

CONSTANTS
    Cfgs,       \* the LoadConfigReqs a client sends
    MaxStarts,  \* bound on the number of Start requests that get to run
    MaxFull     \* bound on the opaque full configs of a profile

\* extra: NeedExtraProcess; xray: how the sidecar starts; full: number of full
\* configs; tun: what TunIpv4Cidr holds on darwin; mark: autoRedirectMarkFor.
CfgType == [extra : BOOLEAN, xray : {"no", "eager", "lazy"}, full : 0..MaxFull,
            tun : {"no", "ok", "bad"}, mark : Nat]

ASSUME LifecycleAssumption ==
    /\ MaxStarts \in Nat /\ MaxFull \in Nat
    /\ Cfgs \subseteq CfgType

VARIABLES
    at,                \* the request that holds lifecycleMu; "free": nobody
    gen,               \* Start requests so far; names what they started
    cfg,               \* the config of each
    opened,            \* startXrayFullGates: outcome of each StartGate so far
    boxInstance, extraProcess, xrayInstance, xrayGate,  \* pointers, 0 is nil
    xrayFullGates,     \* set of gates
    needUnsetDNS, autoRedirectMark,
    running,           \* resources that really run
    closing,           \* taken out of the slots, Close not yet returned
    sysDNS,            \* the system resolver: "own", "tun", or "stuck" at it
    overlapped         \* history: a Start was sent while a box was published

reqVars == <<gen, cfg, overlapped>>
boxVars == <<boxInstance, autoRedirectMark>>
xrayVars == <<xrayInstance, xrayGate, xrayFullGates>>
dnsVars == <<needUnsetDNS, sysDNS>>
vars == <<at, reqVars, opened, boxVars, xrayVars, extraProcess, dnsVars,
          running, closing>>

Nil == 0
Box(g) == <<"box", g, 0>>
Proc(g) == <<"proc", g, 0>>
Xray(g) == <<"xray", g, 0>>
Gate(g) == <<"gate", g, 0>>
Full(g, i) == <<"full", g, i>>

Gens == 1..MaxStarts
Resources == {"box", "proc", "xray", "gate", "full"} \X Gens \X (0..MaxFull)
NoCfg == [extra |-> FALSE, xray |-> "no", full |-> 0, tun |-> "no", mark |-> 0]

Init ==
    /\ at = "free" /\ gen = 0
    /\ cfg = [g \in Gens |-> NoCfg]
    /\ opened = {}
    /\ boxInstance = Nil /\ extraProcess = Nil
    /\ xrayInstance = Nil /\ xrayGate = Nil /\ xrayFullGates = {}
    /\ needUnsetDNS = FALSE /\ autoRedirectMark = 0
    /\ running = {} /\ closing = {}
    /\ sysDNS = "own" /\ overlapped = FALSE

Goto(p, q) == at = p /\ at' = q

-----------------------------------------------------------------------------
(* Start.                                                                  *)

\* The deferred function of a failed Start, after which the lock is released.
Failed ==
    /\ boxInstance' = Nil
    /\ autoRedirectMark' = 0

\* "instance already started", through the same deferred function.
StartAlready ==
    /\ at = "free" /\ boxInstance # Nil
    /\ Failed
    /\ overlapped' = TRUE
    /\ UNCHANGED <<at, gen, cfg, opened, xrayVars, extraProcess, dnsVars,
                   running, closing>>

Start(c) ==
    /\ boxInstance = Nil
    /\ gen < MaxStarts
    /\ Goto("free", "extra")
    /\ gen' = gen + 1
    /\ cfg' = [cfg EXCEPT ![gen + 1] = c]
    /\ UNCHANGED <<overlapped, opened, boxVars, xrayVars, extraProcess, dnsVars,
                   running, closing>>

\* Mutant: the mark of the new profile is not stored.
StartExtra_NoMark ==
    /\ Goto("extra", "xray")
    /\ IF cfg[gen].extra
       THEN /\ extraProcess' = gen
            /\ running' = running \cup {Proc(gen)}
       ELSE UNCHANGED <<extraProcess, running>>
    /\ UNCHANGED <<reqVars, opened, boxVars, xrayVars, dnsVars, closing>>

\* The extra process runs, or none is asked for; then the mark is stored.
StartExtra ==
    /\ Goto("extra", "xray")
    /\ IF cfg[gen].extra
       THEN /\ extraProcess' = gen
            /\ running' = running \cup {Proc(gen)}
       ELSE UNCHANGED <<extraProcess, running>>
    /\ autoRedirectMark' = cfg[gen].mark
    /\ UNCHANGED <<reqVars, opened, boxInstance, xrayVars, dnsVars, closing>>

\* Its arguments or its config are refused, or the pointer is already set when
\* the process itself cannot be started.
StartExtraFail ==
    /\ Goto("extra", "free")
    /\ cfg[gen].extra
    /\ extraProcess' \in {extraProcess, gen}
    /\ Failed
    /\ UNCHANGED <<reqVars, opened, xrayVars, dnsVars, running, closing>>

StartXray ==
    /\ Goto("xray", "full")
    /\ \/ /\ cfg[gen].xray = "no"
          /\ UNCHANGED <<xrayInstance, xrayGate, running>>
       \/ /\ cfg[gen].xray = "eager"
          /\ xrayInstance' = gen /\ xrayGate' = Nil
          /\ running' = running \cup {Xray(gen)}
       \/ /\ cfg[gen].xray = "lazy"
          /\ xrayInstance' = Nil /\ xrayGate' = gen
          /\ running' = running \cup {Gate(gen)}
    /\ opened' = {}
    /\ UNCHANGED <<reqVars, boxVars, xrayFullGates, extraProcess, dnsVars,
                   closing>>

StartXrayFail ==
    /\ Goto("xray", "free")
    /\ cfg[gen].xray # "no"
    /\ Failed
    /\ UNCHANGED <<reqVars, opened, xrayVars, extraProcess, dnsVars, running,
                   closing>>

\* startXrayFullGates: the first config alone, then the others in any order;
\* opened holds <<i, whether StartGate succeeded>>.
OpenFullGate(i) ==
    /\ at = "full" /\ i <= cfg[gen].full
    /\ \A ok \in BOOLEAN : <<i, ok>> \notin opened
    /\ i = 1 \/ <<1, TRUE>> \in opened
    /\ \/ /\ opened' = opened \cup {<<i, TRUE>>}
          /\ running' = running \cup {Full(gen, i)}
       \/ /\ opened' = opened \cup {<<i, FALSE>>}
          /\ UNCHANGED running
    /\ UNCHANGED <<at, reqVars, boxVars, xrayVars, extraProcess, dnsVars,
                   closing>>

OpenedFull == {Full(gen, i) : i \in {j \in 1..MaxFull : <<j, TRUE>> \in opened}}

StartFull ==
    /\ Goto("full", "box")
    /\ \A i \in 1..cfg[gen].full : <<i, TRUE>> \in opened
    /\ xrayFullGates' = IF cfg[gen].full > 0 THEN OpenedFull ELSE xrayFullGates
    /\ UNCHANGED <<reqVars, opened, boxVars, xrayInstance, xrayGate,
                   extraProcess, dnsVars, running, closing>>

\* Whatever the slots of the Xray sidecars hold.
Sidecars ==
    {Xray(g) : g \in {xrayInstance} \ {Nil}}
        \cup {Gate(g) : g \in {xrayGate} \ {Nil}} \cup xrayFullGates

\* closeXray, its critical section: the slots are cleared first.
ClearXray ==
    /\ xrayInstance' = Nil /\ xrayGate' = Nil /\ xrayFullGates' = {}

\* Mutant: a failed fan-out leaves the gates it opened.
StartFullFail_NoUnwind ==
    /\ Goto("full", "fail")
    /\ \E i \in 1..cfg[gen].full : <<i, FALSE>> \in opened
    /\ <<1, TRUE>> \in opened =>
        \A i \in 1..cfg[gen].full : \E ok \in BOOLEAN : <<i, ok>> \in opened
    /\ ClearXray
    /\ closing' = Sidecars
    /\ UNCHANGED <<reqVars, opened, boxVars, extraProcess, dnsVars, running>>

\* Some StartGate failed: unwind closes the others, then closeXray.
StartFullFail ==
    /\ Goto("full", "fail")
    /\ \E i \in 1..cfg[gen].full : <<i, FALSE>> \in opened
    /\ <<1, TRUE>> \in opened =>
        \A i \in 1..cfg[gen].full : \E ok \in BOOLEAN : <<i, ok>> \in opened
    /\ ClearXray
    /\ running' = running \ OpenedFull
    /\ closing' = Sidecars
    /\ UNCHANGED <<reqVars, opened, boxVars, extraProcess, dnsVars>>

\* boxmain.Create succeeds and the box is published.
StartBox ==
    /\ Goto("box", "dns")
    /\ running' = running \cup {Box(gen)}
    /\ boxInstance' = gen
    /\ UNCHANGED <<reqVars, opened, autoRedirectMark, xrayVars, extraProcess,
                   dnsVars, closing>>

\* The process a pointer names, if the pointer is set.
ProcOf(g) == {Proc(h) : h \in {g} \ {Nil}}

\* boxmain.Create fails: the extra process is stopped, then closeXray.
StartBoxFail ==
    /\ Goto("box", "fail")
    /\ running' = running \ ProcOf(extraProcess)
    /\ extraProcess' = Nil
    /\ ClearXray
    /\ closing' = Sidecars
    /\ UNCHANGED <<reqVars, opened, boxVars, dnsVars>>

\* closeXray, the closes; then the deferred function.
StartFail ==
    /\ Goto("fail", "free")
    /\ running' = running \ closing
    /\ closing' = {}
    /\ Failed
    /\ UNCHANGED <<reqVars, opened, xrayVars, extraProcess, dnsVars>>

\* No Tun address to publish, or the system resolver is pointed at it (a failure
\* to do so is only logged).
StartDone ==
    /\ Goto("dns", "free")
    /\ \/ cfg[gen].tun = "no" /\ UNCHANGED dnsVars
       \/ /\ cfg[gen].tun = "ok"
          /\ sysDNS' \in {sysDNS, "tun"}
          /\ needUnsetDNS' = TRUE
    /\ UNCHANGED <<reqVars, opened, boxVars, xrayVars, extraProcess, running,
                   closing>>

\* stopAllCores on an invalid address: the box is closed while still published.
StopAllCores ==
    /\ Goto("dns", "stopall")
    /\ cfg[gen].tun = "bad"
    /\ closing' = {Box(boxInstance)}
    /\ UNCHANGED <<reqVars, opened, boxVars, xrayVars, extraProcess, dnsVars,
                   running>>

StopAllRest ==
    /\ Goto("stopall", "fail")
    /\ running' = (running \ closing) \ ProcOf(extraProcess)
    /\ boxInstance' = Nil
    /\ extraProcess' = Nil
    /\ ClearXray
    /\ closing' = Sidecars
    /\ UNCHANGED <<reqVars, opened, autoRedirectMark, dnsVars>>

-----------------------------------------------------------------------------
(* Stop.                                                                   *)

\* Mutant: the box is closed before it is unpublished.
Stop_CloseFirst ==
    /\ Goto("free", "stop")
    /\ boxInstance # Nil
    /\ needUnsetDNS' = FALSE
    /\ sysDNS' \in IF needUnsetDNS /\ sysDNS # "own" THEN {"own", "stuck"}
                                                     ELSE {sysDNS}
    /\ closing' = {Box(boxInstance)}
    /\ UNCHANGED <<reqVars, opened, boxVars, xrayVars, extraProcess, running>>

\* Mutant: the system resolver is left at the Tun.
Stop_KeepsDNS ==
    /\ Goto("free", "stop")
    /\ boxInstance # Nil
    /\ closing' = {Box(boxInstance)}
    /\ boxInstance' = Nil
    /\ UNCHANGED <<reqVars, opened, autoRedirectMark, xrayVars, extraProcess,
                   dnsVars, running>>

\* The resolver is reset (a failure is only logged) and the box unpublished
\* before it is closed.  With no box published Stop does nothing.
Stop ==
    /\ Goto("free", "stop")
    /\ boxInstance # Nil
    /\ needUnsetDNS' = FALSE
    /\ sysDNS' \in IF needUnsetDNS /\ sysDNS # "own" THEN {"own", "stuck"}
                                                     ELSE {sysDNS}
    /\ closing' = {Box(boxInstance)}
    /\ boxInstance' = Nil
    /\ UNCHANGED <<reqVars, opened, autoRedirectMark, xrayVars, extraProcess,
                   running>>

\* CloseWithTimeout blocks until the box is down; the process; closeXray.
StopRest ==
    /\ Goto("stop", "mark")
    /\ running' = (running \ closing) \ ProcOf(extraProcess)
    /\ extraProcess' = Nil
    /\ ClearXray
    /\ closing' = Sidecars
    /\ UNCHANGED <<reqVars, opened, boxVars, dnsVars>>

StopMark ==
    /\ Goto("mark", "free")
    /\ running' = running \ closing
    /\ closing' = {}
    /\ autoRedirectMark' = 0
    /\ UNCHANGED <<reqVars, opened, boxInstance, xrayVars, extraProcess,
                   dnsVars>>

-----------------------------------------------------------------------------
\* The extra process ends by itself; its waiter only reports it.
ProcessExits ==
    /\ \E g \in Gens : /\ Proc(g) \in running
                       /\ running' = running \ {Proc(g)}
    /\ UNCHANGED <<at, reqVars, opened, boxVars, xrayVars, extraProcess,
                   dnsVars, closing>>

Next ==
    \/ \E c \in Cfgs : Start(c)
    \/ StartAlready \/ StartExtra \/ StartExtraFail \/ StartXray
    \/ StartXrayFail \/ \E i \in 1..MaxFull : OpenFullGate(i)
    \/ StartFull \/ StartFullFail \/ StartBox \/ StartBoxFail \/ StartFail
    \/ StartDone \/ StopAllCores \/ StopAllRest
    \/ Stop \/ StopRest \/ StopMark
    \/ ProcessExits

Spec == Init /\ [][Next]_vars

-----------------------------------------------------------------------------
(* Properties.                                                             *)

Points == {"free", "extra", "xray", "full", "box", "dns", "fail", "stopall",
           "stop", "mark"}

\* The pointers, flags and resources keep their types (state.go).
TypeOK ==
    /\ at \in Points
    /\ gen \in 0..MaxStarts
    /\ cfg \in [Gens -> CfgType]
    /\ opened \subseteq (1..MaxFull) \X BOOLEAN
    /\ {boxInstance, extraProcess, xrayInstance, xrayGate} \subseteq 0..gen
    /\ xrayFullGates \subseteq Resources
    /\ needUnsetDNS \in BOOLEAN /\ autoRedirectMark \in Nat
    /\ running \subseteq Resources /\ closing \subseteq Resources
    /\ sysDNS \in {"own", "tun", "stuck"} /\ overlapped \in BOOLEAN

\* The boxes, Xray instances and gates that run.  The extra process is not one
\* of them: a Start that fails between it and the box leaves it behind.
Proxies == {r \in running : r[1] # "proc"}

\* Between requests, everything that proxies belongs to the one published
\* profile and is reachable from the slots Stop closes: whichever step of a
\* Start failed, nothing is left that a later Stop would miss.
RunningIsPublished ==
    at = "free" /\ ~overlapped =>
        Proxies = {Box(g) : g \in {boxInstance} \ {Nil}} \cup Sidecars

\* With no box published, nothing proxies any more and nothing of the profile
\* outlives it in the system: no exemption mark, no resolver at the Tun.
StoppedIsClean ==
    at = "free" /\ boxInstance = Nil =>
        /\ autoRedirectMark = 0
        /\ ~overlapped => Proxies = {} /\ ~needUnsetDNS /\ sysDNS # "tun"

\* lifecycle.go:197 and xray.go:42: a pointer a reader picks up at any moment
\* names a running box, instance or gate that nobody is closing; only the
\* stopAllCores of a Start breaks the order for the box.
PublishedIsAlive ==
    /\ boxInstance # Nil /\ at # "stopall" =>
           Box(boxInstance) \in running \ closing
    /\ Sidecars \subseteq running \ closing

\* The exemption mark instances prepared now will carry is the one of the
\* published box, also when a Start was refused in between.
MarkIsPublished ==
    at = "free" /\ boxInstance # Nil => autoRedirectMark = cfg[boxInstance].mark

-----------------------------------------------------------------------------
(* The strengthening under which the properties are inductive.             *)

\* What the slots hold and the program counter says, on every path.
SlotInv ==
    /\ at # "free" => gen > 0
    /\ at \in {"dns", "stopall"} => boxInstance = gen
    /\ at \in {"extra", "xray", "full", "box", "fail", "stop", "mark"} =>
           boxInstance = Nil
    /\ at \in {"free", "extra", "xray", "full", "box", "dns"} => closing = {}
    /\ at \in {"stop", "stopall"} => \E g \in Gens : closing = {Box(g)}
    /\ at \in {"fail", "mark"} => Sidecars = {}
    /\ at = "full" => OpenedFull \subseteq running
    /\ \A r \in xrayFullGates : r[1] = "full"
    /\ boxInstance # Nil => Box(boxInstance) \in running

\* Unless a Start was sent over it, every proxy that runs is named by a slot,
\* being closed, or just opened by the fan-out.
Boxes == {Box(g) : g \in {boxInstance} \ {Nil}}
Opening == IF at = "full" THEN OpenedFull ELSE {}
ExactInv == Proxies = Boxes \cup Sidecars \cup closing \cup Opening
RestInv ==
    /\ at \in {"free", "extra", "xray"} /\ boxInstance = Nil => Sidecars = {}
    /\ at = "full" =>
        /\ xrayFullGates = {}
        /\ \A i \in 1..MaxFull : <<i, TRUE>> \in opened => i <= cfg[gen].full
    /\ at = "stopall" => closing = Boxes
    /\ sysDNS = "tun" => needUnsetDNS
    /\ boxInstance = Nil \/ at \in {"dns", "stopall"} => ~needUnsetDNS

\* The mark is stored before the box it belongs to is published.
MarkInv ==
    /\ at \in {"xray", "full", "box", "dns", "stopall"} =>
           autoRedirectMark = cfg[gen].mark
    /\ at = "free" => autoRedirectMark = IF boxInstance = Nil THEN 0
                                         ELSE cfg[boxInstance].mark
IInv ==
    /\ TypeOK /\ SlotInv /\ PublishedIsAlive /\ MarkInv
    /\ ~overlapped => ExactInv /\ RestInv
=============================================================================
