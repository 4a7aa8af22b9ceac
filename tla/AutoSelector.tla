---------------------------- MODULE AutoSelector ----------------------------
(***************************************************************************)
(* A profile that picks among the members of a group: the plan that ranks  *)
(* them and builds the best (AutoSelectorPlan.cpp), the box that probes    *)
(* those, the thread that polls their health, stores it and asks for a     *)
(* rebuild once all are dead (AutoSelectorMonitor.cpp), and the main       *)
(* window, which ranks again on a worker and restarts the profile          *)
(* (mainwindow_autoselector.cpp).                                          *)
(* One latency stands for all, so working members keep the group's order;  *)
(* a tick is the grace period of an exhausted pool.  The group is fixed,   *)
(* and the selector is the only profile started.                           *)
(***************************************************************************)
EXTENDS Integers, Sequences, FiniteSets

CONSTANTS Group,        \* the members, in the order of the group's list
          Working,      \* those whose servers answer at first
          Limit,        \* buildLimit
          Exclude,      \* excludeUnavailable
          Trust,        \* resultValidityMins > 0
          BackoffMin, BackoffMax,
          Nil,
          MaxFlips      \* bound: changes of the servers and of the network

Members == {Group[i] : i \in DOMAIN Group}
Grace == 1

ASSUME AutoSelectorAssumption ==
    /\ Working \subseteq Members /\ Limit \in 1..Len(Group)
    /\ Exclude \in BOOLEAN /\ Trust \in BOOLEAN
    /\ BackoffMin \in Nat \ {0} /\ BackoffMax \in Nat /\ BackoffMax >= BackoffMin
    /\ Nil \notin Members /\ MaxFlips \in Nat

VARIABLES up, net,      \* the servers that answer; the machine is on a network
          poolBox, state, \* the members of the running box, what its probes found
          latency,      \* of each member: 0 unmeasured, 1 measured, -1 failed
          fresh,        \* the members whose latency is within the trust window
          pool,         \* selector->pool
          lastBuilt,    \* selector->lastBuilt
          tags,         \* the monitor's tagToProfile, None unless active
          view,         \* its view
          exhausted,    \* time since exhaustedSince, None for 0
          backoff, wait, \* rebuildBackoffSecs, and what is left of it since lastRebuildRequest
          quiet,        \* history: time since this build was seen with hope
          pollPc, next, \* the poll thread: "asleep", "answered" or "fired", and the status it holds
          signal,       \* poolExhausted is queued to the UI thread
          rank,         \* the ranking worker and the call it posts
          ranked,       \* auto_selector_ranked
          starting, plan, \* the worker of profile_start and the config it starts
          stopping, running,
          flips
worldVars == <<up, net, flips>>
boxVars == <<poolBox, state>>
healthVars == <<latency, fresh>>
planVars == <<pool, lastBuilt>>
buildVars == <<tags, view, exhausted, quiet>>
requestVars == <<backoff, wait>>
pollVars == <<pollPc, next>>
rankVars == <<rank, ranked>>
runVars == <<starting, plan, stopping, running>>
monitorVars == <<buildVars, requestVars>>
windowVars == <<planVars, rankVars, runVars>>
selectorVars == <<worldVars, boxVars, healthVars, monitorVars, pollVars, signal, windowVars>>

SelectorInit ==
    /\ up = Working /\ net = TRUE /\ flips = 0
    /\ poolBox = Nil /\ state = <<>>
    /\ latency = [m \in Members |-> 0] /\ fresh = {}
    /\ pool = <<>> /\ lastBuilt = {}
    /\ tags = Nil /\ view = Nil /\ exhausted = Nil /\ quiet = 0
    /\ backoff = 0 /\ wait = 0
    /\ pollPc = "asleep" /\ next = Nil /\ signal = FALSE
    /\ rank = Nil /\ ranked = FALSE
    /\ starting = "no" /\ plan = <<>> /\ stopping = FALSE /\ running = FALSE

-----------------------------------------------------------------------------
(* The plan.                                                               *)

effectiveLatency(m) == IF Trust /\ m \in fresh THEN latency[m] ELSE 0

\* eligibleMembers: only a fresh failure excludes, and never everybody.
Unavailable == {m \in Members : Exclude /\ effectiveLatency(m) < 0}
eligibleMembers ==
    IF Unavailable = Members THEN Group ELSE SelectSeq(Group, LAMBDA m : m \notin Unavailable)

\* std::stable_sort by byLatency: measured, then unmeasured, then failed.
SortedByLatency(s) == SelectSeq(s, LAMBDA m : effectiveLatency(m) > 0)
                      \o SelectSeq(s, LAMBDA m : effectiveLatency(m) = 0)
                      \o SelectSeq(s, LAMBDA m : effectiveLatency(m) < 0)

Among(s) == {s[i] : i \in DOMAIN s}
orderMembers ==
    LET placed == SelectSeq(pool, LAMBDA m : m \in Among(eligibleMembers))
    IN placed \o SortedByLatency(SelectSeq(eligibleMembers, LAMBDA m : m \notin Among(placed)))

PlanBuild == SubSeq(orderMembers, 1, IF Len(orderMembers) < Limit THEN Len(orderMembers) ELSE Limit)
NeedsRanking == /\ Len(orderMembers) > Limit
                /\ \E m \in Among(PlanBuild) : effectiveLatency(m) = 0

UnmeasuredCandidates(stale) ==
    {m \in Among(eligibleMembers) : m \in stale \/ effectiveLatency(m) = 0}

-----------------------------------------------------------------------------
(* The world, the box and the clock.                                       *)

Flip == /\ flips < MaxFlips /\ flips' = flips + 1
        /\ \/ \E m \in Members : up' = (up \ {m}) \cup ({m} \ up) /\ UNCHANGED net
           \/ net' = ~net /\ UNCHANGED up
        /\ UNCHANGED <<boxVars, healthVars, monitorVars, pollVars, signal, windowVars>>

Probed(m) == IF net /\ m \in up THEN "ok" ELSE "dead"
Probe(i) == /\ poolBox # Nil /\ i \in DOMAIN poolBox
            /\ state' = [state EXCEPT ![i] = Probed(poolBox[i])]
            /\ UNCHANGED <<poolBox, worldVars, healthVars, monitorVars, pollVars, signal, windowVars>>

AtRest == ~running /\ ~stopping /\ starting = "no" /\ rank = Nil

\* A result leaves the trust window, which is longer than a ranking pass.  Only a
\* start and a ranking look, so it does so when one of them is due.
Expire(m) == /\ m \in fresh /\ (AtRest \/ (signal /\ rank = Nil))
             /\ fresh' = fresh \ {m}
             /\ UNCHANGED <<latency, worldVars, boxVars, monitorVars, pollVars, signal, windowVars>>

Older(t, max) == IF t = Nil \/ t = max THEN t ELSE t + 1
GracePasses == /\ exhausted' = Older(exhausted, Grace) /\ quiet' = Older(quiet, Grace)
        /\ wait' = (IF wait = 0 THEN 0 ELSE wait - 1)
        /\ UNCHANGED <<worldVars, boxVars, healthVars, tags, view, backoff,
                       pollVars, signal, windowVars>>

-----------------------------------------------------------------------------
(* The monitor.                                                            *)

\* PersistHealth: untested members and results that did not change are skipped.
Verdict(e) == IF e.st = "ok" THEN 1 ELSE -1
Judged(v) == {e \in Among(v.at) : e.id # Nil /\ e.st # "untested" /\ latency[e.id] # Verdict(e)}
PersistHealth(v) ==
    IF v.susp THEN UNCHANGED healthVars
    ELSE LET changed == {e.id : e \in Judged(v)}
             entry(m) == CHOOSE e \in Judged(v) : e.id = m
         IN /\ latency' = [m \in Members |-> IF m \in changed THEN Verdict(entry(m)) ELSE latency[m]]
            /\ fresh' = fresh \cup changed

\* Clear, on profile_stop.
Clear == /\ IF tags = Nil THEN UNCHANGED healthVars ELSE PersistHealth(view)
         /\ tags' = Nil /\ view' = Nil /\ exhausted' = Nil /\ UNCHANGED quiet

NewView == [at |-> <<>>, susp |-> FALSE]

SetBuild(infos) == /\ tags' = infos /\ view' = NewView /\ exhausted' = Nil /\ quiet' = 0

\* Loop looks at `active`, then QueryAutoSelectors answers for the box of that
\* moment.  A query that fails changes nothing, as one that was not made.
Query == /\ pollPc = "asleep" /\ tags # Nil /\ poolBox # Nil
         /\ \E susp \in BOOLEAN :
              /\ susp => ~net
              /\ next' = [at |-> [i \in DOMAIN poolBox |-> [id |-> Nil, st |-> state[i]]],
                          susp |-> susp]
         /\ pollPc' = "answered"
         /\ UNCHANGED <<worldVars, boxVars, healthVars, monitorVars, signal, windowVars>>

Asleep == /\ pollPc = "answered" /\ tags = Nil
          /\ pollPc' = "asleep" /\ next' = Nil
          /\ UNCHANGED <<worldVars, boxVars, healthVars, monitorVars, signal, windowVars>>

Hopeful(e) == e.st \in {"ok", "untested"}
EverythingDead == ~next.susp /\ next.at # <<>> /\ \A e \in Among(next.at) : ~Hopeful(e)
Doubled == IF backoff = 0 THEN BackoffMin
           ELSE IF 2 * backoff < BackoffMax THEN 2 * backoff ELSE BackoffMax

\* Mutant: one status with hope does not start the grace period again.
ExhaustedSince_Kept == IF ~EverythingDead \/ exhausted # Nil THEN exhausted ELSE 0
\* Mutant: every dead status starts it again.
ExhaustedSince_Again == IF ~EverythingDead THEN Nil ELSE 0
ExhaustedSince == IF ~EverythingDead THEN Nil ELSE IF exhausted = Nil THEN 0 ELSE exhausted

Fires == ExhaustedSince # Nil /\ ExhaustedSince >= Grace /\ wait = 0

\* Two critical sections with nothing but computation in between.  The group tag
\* of every build is the same, so the status may be that of another build; its
\* members are known by their position.  Then the health is stored, every
\* kHealthPersistSecs.
Judge ==
    /\ pollPc = "answered" /\ tags # Nil
    /\ pollPc' = (IF Fires THEN "fired" ELSE "asleep") /\ next' = Nil
    /\ exhausted' = (IF Fires THEN Nil ELSE ExhaustedSince)
    /\ IF \E e \in Among(next.at) : Hopeful(e) THEN backoff' = 0 /\ wait' = 0
       ELSE IF Fires THEN backoff' = Doubled /\ wait' = Doubled
       ELSE UNCHANGED requestVars
    /\ quiet' = (IF EverythingDead THEN quiet ELSE 0)
    /\ LET mapped == [next EXCEPT !.at = [i \in DOMAIN @ |->
                         [@[i] EXCEPT !.id = IF i \in DOMAIN tags THEN tags[i] ELSE Nil]]]
       IN view' = mapped /\ (PersistHealth(mapped) \/ UNCHANGED healthVars)
    /\ UNCHANGED <<tags, worldVars, boxVars, signal, windowVars>>

\* A rebuild is not asked for when the core knows that there is no default
\* interface (it may also not answer).
Report ==
    /\ pollPc = "fired" /\ pollPc' = "asleep"
    /\ signal' = TRUE \/ (~net /\ UNCHANGED signal)
    /\ UNCHANGED <<next, worldVars, boxVars, healthVars, monitorVars, windowVars>>

poll == Query \/ Asleep \/ Judge \/ Report

-----------------------------------------------------------------------------
(* The main window: profile_start, profile_stop and the ranking worker.    *)

\* profile_start: `flag` is what it finds in auto_selector_ranked, `worker` the
\* ranking worker that goes on meanwhile.
ProfileStart(flag, worker) ==
    \/ /\ ~flag /\ NeedsRanking /\ worker = Nil
       /\ ranked' = TRUE /\ rank' = <<"start", "measure">> /\ UNCHANGED runVars
    \/ /\ flag \/ ~NeedsRanking
       /\ ranked' = FALSE /\ rank' = worker
       /\ IF starting # "no" \/ stopping THEN UNCHANGED runVars
          ELSE starting' = "stop" /\ plan' = PlanBuild /\ UNCHANGED <<stopping, running>>

\* Bound: the user starts the profile once, and may stop it for good.
ClickStart == /\ AtRest /\ lastBuilt = {}
              /\ ProfileStart(ranked, rank)
              /\ UNCHANGED <<planVars, worldVars, boxVars, healthVars, monitorVars, pollVars, signal>>

\* on_auto_selector_exhausted; one ranking worker at a time.
OnExhausted == /\ signal /\ signal' = FALSE /\ rank = Nil
               /\ rank' = (IF running THEN <<"exhausted", "measure">> ELSE Nil)
               /\ UNCHANGED <<ranked, planVars, runVars, worldVars, boxVars, healthVars,
                              monitorVars, pollVars>>

RankGoto(from, to) == rank # Nil /\ rank[2] = from /\ rank' = <<rank[1], to>>

Stale == IF rank[1] = "exhausted" THEN lastBuilt ELSE {}

\* Mutant: SetLatency does not stamp the result.
Measure_Unstamped(needed) ==
    /\ latency' = [m \in Members |-> IF m \notin needed THEN latency[m]
                                     ELSE IF net /\ m \in up THEN 1 ELSE -1]
    /\ UNCHANGED fresh
Measure(needed) ==
    /\ latency' = [m \in Members |-> IF m \notin needed THEN latency[m]
                                     ELSE IF net /\ m \in up THEN 1 ELSE -1]
    /\ fresh' = fresh \cup needed

Rerank == pool' = SortedByLatency(eligibleMembers)'

\* rank_auto_selector: measure, then rank; nothing is measured when the user runs
\* a sweep meanwhile or stops this one (bound: in the ranking of a start only).
Rank == /\ RankGoto("measure", "post")
        /\ Measure(UnmeasuredCandidates(Stale)) /\ Rerank
        /\ UNCHANGED <<ranked, lastBuilt, runVars, worldVars, boxVars, monitorVars, pollVars,
                       signal>>

RankUnmeasured == /\ RankGoto("measure", "post")
                  /\ rank[1] = "start"
                  /\ UNCHANGED healthVars /\ Rerank
                  /\ UNCHANGED <<ranked, lastBuilt, runVars, worldVars, boxVars, monitorVars, pollVars,
                                 signal>>

\* Back on the UI thread: the start that asked for the ranking is tried again
\* with auto_selector_ranked reset; an exhausted pool is only rebuilt if it runs.
Post == /\ rank # Nil /\ rank[2] = "post"
        /\ IF rank[1] = "start" THEN ProfileStart(FALSE, Nil)
           ELSE IF running THEN ProfileStart(ranked, Nil)
           ELSE rank' = Nil /\ UNCHANGED <<ranked, runVars>>
        /\ UNCHANGED <<planVars, worldVars, boxVars, healthVars, monitorVars, pollVars,
                       signal>>

StopClears == /\ stopping' = TRUE /\ Clear
             /\ UNCHANGED requestVars

ClickStop == /\ running /\ ~stopping /\ StopClears
             /\ UNCHANGED <<starting, plan, running, planVars, rankVars, worldVars, boxVars, pollVars,
                            signal>>

StopDone == /\ stopping /\ stopping' = FALSE /\ running' = FALSE
            /\ poolBox' = Nil /\ state' = <<>>
            /\ UNCHANGED <<starting, plan, planVars, rankVars, worldVars, healthVars, monitorVars,
                           pollVars, signal>>

StartStops == /\ starting = "stop" /\ starting' = "wait"
              /\ IF running /\ ~stopping THEN StopClears
                 ELSE UNCHANGED <<stopping, healthVars, monitorVars>>
              /\ UNCHANGED <<plan, running, planVars, rankVars, worldVars, boxVars, pollVars,
                             signal>>

\* Start of the core, which may refuse, and what follows on the worker: the box
\* is not polled before SetBuild.
StartPlan == /\ starting = "wait" /\ ~stopping /\ starting' = "no" /\ plan' = <<>>
            /\ \/ /\ poolBox' = plan /\ state' = [i \in DOMAIN plan |-> "untested"]
                  /\ SetBuild(plan) /\ lastBuilt' = Among(plan) /\ running' = TRUE
                  /\ UNCHANGED requestVars
               \/ UNCHANGED <<boxVars, monitorVars, lastBuilt, running>>
            /\ UNCHANGED <<stopping, pool, rankVars, worldVars, healthVars, pollVars, signal>>

MainWindow == OnExhausted \/ Rank \/ Post \/ StopDone \/ StartStops \/ StartPlan
User == ClickStart \/ ClickStop \/ RankUnmeasured \/ Flip

SelectorNext == \/ User \/ MainWindow \/ poll \/ GracePasses
        \/ \E i \in 1..Limit : Probe(i)
        \/ \E m \in Members : Expire(m)
SelectorSpec == SelectorInit /\ [][SelectorNext]_selectorVars

\* Threads, posted calls and timers run; nothing is assumed of the user, the
\* servers and the network.
FairSpec ==
    /\ SelectorSpec
    /\ WF_selectorVars(OnExhausted \/ Rank \/ Post) /\ SF_selectorVars(Rank)
    /\ WF_selectorVars(StartStops \/ StartPlan \/ StopDone)
    /\ WF_selectorVars(poll) /\ WF_selectorVars(GracePasses)
    /\ \A i \in 1..Limit : WF_selectorVars(Probe(i))
    /\ \A m \in Members : SF_selectorVars(Expire(m))

-----------------------------------------------------------------------------
(* Properties.                                                             *)

\* The request for a rebuild (poolExhausted) comes after a grace period in which
\* no status of this very build had a member that worked or was still untested,
\* and none was taken while the network was down.
RebuildIsEarned == [][pollPc' = "fired" /\ pollPc # "fired" => quiet' >= Grace]_selectorVars

\* Ranking ends: the start behind it is made or refused, also when the user's
\* sweeps keep it from measuring now and then.
RankingEnds == rank # Nil ~> rank = Nil

\* A running selector does not stay on a dead pool while the network is up and a
\* member outside the pool works: that member is found and built.
LeavesDeadPool ==
    []<>(\/ ~running \/ ~net \/ up = {}
         \/ \E m \in Among(poolBox) : m \in up)
=============================================================================
