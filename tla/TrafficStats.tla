---------------------------- MODULE TrafficStats ----------------------------
(***************************************************************************)
(* Where the bytes of a profile go: the counters of the core, which a      *)
(* query empties (stats.go); TrafficLooper, whose thread and the worker of *)
(* profile_stop query it under loop_mutex; TrafficStatsManager, which      *)
(* collects deltas by minute and writes rows without its lock; and the     *)
(* statistics database, where old minutes are rolled up into hours.        *)
(* A byte is <<p, i>>, the i-th that p carried.  The clock is the minute.  *)
(* A speed test adds its own bytes meanwhile (TestRunner::creditTraffic).  *)
(***************************************************************************)
EXTENDS Naturals, FiniteSets

CONSTANTS Profiles,
          MaxBytes,     \* bound: bytes in all
          MaxMinute,    \* bound: the clock stops there
          Window,       \* minutes before a row is rolled up (48 h)
          None

Threads == {"loop", "stop", "test"}     \* the looper's, profile_stop's, a speed test's

ASSUME TrafficAssumption ==
    /\ MaxBytes \in Nat /\ MaxMinute \in Nat \ {0} /\ Window \in Nat
    /\ None \notin Profiles \cup Threads

VARIABLES box,          \* whose box the core runs
          core,         \* bytes in its counters
          counted,      \* history: every byte that was counted
          tested,       \* history: those that a speed test counted
          lost,         \* history: bytes nobody will ever count
          clock,
          groups,       \* TrafficLooper::groups: the profile they watch
          dirty,        \* its group.dirty
          enabled,      \* loop_enabled
          mutex,        \* loop_mutex
          pc, ans,      \* of each thread: its step, the answer it holds
          adding,       \* the deltas it calls AddConfigDelta with
          hand,         \* the rows it drained and has not written yet
          accum,        \* configAccum, its entries with the minute they were counted in
          bucket,       \* currentBucket
          minutes,      \* rows of config_traffic_minute
          hours,        \* rows of config_traffic_hour
          saving,       \* of each thread: the profile PersistTraffic took
          total, saved, \* traffic_uplink of each profile, in memory and in its row
          late          \* history: the loop updated after a stop had disabled it
coreVars == <<box, core>>
byteVars == <<counted, tested, lost>>
loopVars == <<groups, dirty, enabled, mutex, late>>
addVars == <<ans, adding>>
accVars == <<hand, accum, bucket>>
rowVars == <<minutes, hours>>
totVars == <<total, saved>>
dataVars == <<addVars, accVars, rowVars, totVars>>
vars == <<coreVars, byteVars, clock, loopVars, pc, saving, dataVars>>

Init == /\ box = None /\ core = {} /\ counted = {} /\ tested = {} /\ lost = {} /\ clock = 1
        /\ groups = None /\ dirty = FALSE /\ enabled = FALSE /\ mutex = None /\ late = FALSE
        /\ pc = [t \in Threads |-> "rest"] /\ ans = [t \in Threads |-> {}]
        /\ adding = [t \in Threads |-> {}] /\ hand = [t \in Threads |-> {}]
        /\ accum = {} /\ bucket = 0 /\ minutes = {} /\ hours = {}
        /\ total = [p \in Profiles |-> {}] /\ saved = total
        /\ saving = [t \in Threads |-> None]

Step(t, from, to) == pc[t] = from /\ pc' = [pc EXCEPT ![t] = to]
Carried(p) == {b \in counted : b[1] = p}
NextByte(p) == <<p, Cardinality(Carried(p)) + 1>>
More == Cardinality(counted) < MaxBytes

-----------------------------------------------------------------------------
(* The clock, the core, and starting a profile.                            *)

Tick == /\ clock < MaxMinute /\ clock' = clock + 1
        /\ UNCHANGED <<coreVars, byteVars, loopVars, pc, saving, dataVars>>

Carry == /\ box # None /\ More
         /\ core' = core \cup {NextByte(box)} /\ counted' = counted \cup {NextByte(box)}
         /\ UNCHANGED <<box, tested, lost, clock, loopVars, pc, saving, dataVars>>

StartBox(p) == /\ box = None /\ Step("stop", "rest", "start") /\ box' = p
               /\ UNCHANGED <<core, byteVars, clock, loopVars, saving, dataVars>>

\* Once Start has answered: SetChainGroups, which takes no lock, then loop_enabled.
SetChainGroups ==
    /\ Step("stop", "start", "rest")
    /\ groups' = box /\ dirty' = FALSE /\ enabled' = TRUE
    /\ UNCHANGED <<coreVars, byteVars, clock, mutex, late, saving, dataVars>>

-----------------------------------------------------------------------------
(* UpdateAll under loop_mutex, by the loop each second and by profile_stop.*)

Wake == /\ enabled /\ Step("loop", "rest", "lock")
        /\ UNCHANGED <<coreVars, byteVars, clock, loopVars, saving, dataVars>>

StopBegin == /\ box # None /\ Step("stop", "rest", "lock")
             /\ enabled' = FALSE
             /\ UNCHANGED <<coreVars, byteVars, clock, groups, dirty, mutex, late, saving, dataVars>>

Lock(t) == /\ mutex = None /\ mutex' = t /\ Step(t, "lock", "query")
           /\ late' = (late \/ (t = "loop" /\ ~enabled))
           /\ UNCHANGED <<coreVars, byteVars, clock, groups, dirty, enabled, saving, dataVars>>

\* QueryStats empties the counters.  An answer that does not arrive in time, or comes
\* within a millisecond of the last one, takes its bytes with it.
QueryStats(t) ==
    /\ Step(t, "query", "credit") /\ core' = {}
    /\ \/ ans' = [ans EXCEPT ![t] = core] /\ UNCHANGED lost
       \/ ans' = [ans EXCEPT ![t] = {}] /\ lost' = lost \cup core
    /\ UNCHANGED <<box, counted, tested, clock, loopVars, saving, adding, accVars, rowVars, totVars>>

Deltas(S, p) == {[byte |-> b, to |-> p, at |-> clock] : b \in S}

\* The profile of the group is credited; AddConfigDelta reads the clock first.
Credit(t) ==
    /\ Step(t, "credit", "add")
    /\ adding' = [adding EXCEPT ![t] = Deltas(ans[t], groups)]
    /\ total' = [total EXCEPT ![groups] = @ \cup ans[t]]
    /\ dirty' = (dirty \/ ans[t] # {})
    /\ ans' = [ans EXCEPT ![t] = {}]
    /\ UNCHANGED <<coreVars, byteVars, clock, groups, enabled, mutex, late, saving, accVars, rowVars, saved>>

\* A speed test credits what it moved through a profile.
CreditTest(p) ==
    /\ More /\ Step("test", "rest", "add")
    /\ counted' = counted \cup {NextByte(p)} /\ tested' = tested \cup {NextByte(p)}
    /\ adding' = [adding EXCEPT !["test"] = Deltas({NextByte(p)}, p)]
    /\ UNCHANGED <<coreVars, lost, clock, loopVars, saving, ans, accVars, rowVars, totVars>>

-----------------------------------------------------------------------------
(* TrafficStatsManager.                                                    *)

\* Mutant: the rows are stamped with the minute that begins.
drainLocked_New(b) == {[byte |-> e.byte, to |-> e.to, at |-> e.at, min |-> clock] : e \in accum}

\* drainLocked: everything collected becomes rows of one minute.
drainLocked(b) == {[byte |-> e.byte, to |-> e.to, at |-> e.at, min |-> b] : e \in accum}

\* Mutant: what is drained is not cleared.
AddConfigDelta_Kept(t) ==
    /\ Step(t, "add", "write") /\ adding' = [adding EXCEPT ![t] = {}]
    /\ accum' = accum \cup adding[t] /\ bucket' = clock
    /\ hand' = [hand EXCEPT ![t] = IF bucket \in {0, clock} THEN {} ELSE drainLocked(bucket)]
    /\ UNCHANGED <<coreVars, byteVars, clock, loopVars, saving, ans, rowVars, totVars>>

\* Under its own lock the minute that ended is drained, then the delta collected.  The
\* minute was read before that lock, so the current one may also move back.
AddConfigDelta(t) ==
    /\ Step(t, "add", "write") /\ adding' = [adding EXCEPT ![t] = {}]
    /\ \/ adding[t] = {} /\ UNCHANGED accVars
       \/ \E now \in {e.at : e \in adding[t]} :
             /\ bucket' = now
             /\ IF bucket \in {0, now}
                THEN accum' = accum \cup adding[t] /\ UNCHANGED hand
                ELSE accum' = adding[t] /\ hand' = [hand EXCEPT ![t] = drainLocked(bucket)]
    /\ UNCHANGED <<coreVars, byteVars, clock, loopVars, saving, ans, rowVars, totVars>>

AfterWrite(t) == CASE pc[t] = "last" -> "halt" [] t = "test" -> "rest" [] OTHER -> "unlock"

\* writeRows, outside the lock: added to what the rows have, or refused as a whole.
WriteRows(t) ==
    /\ pc[t] \in {"write", "last"} /\ Step(t, pc[t], AfterWrite(t))
    /\ hand' = [hand EXCEPT ![t] = {}]
    /\ \/ minutes' = minutes \cup hand[t] /\ UNCHANGED lost
       \/ hand[t] # {} /\ lost' = lost \cup {r.byte : r \in hand[t]} /\ UNCHANGED minutes
    /\ UNCHANGED <<coreVars, counted, tested, clock, loopVars, saving, addVars, accum, bucket, hours, totVars>>

\* runRollupOnce: one transaction, whatever rows of old minutes arrive later.
Rollup == LET old == {r \in minutes : r.min + Window < clock} IN
    /\ old # {} /\ hours' = hours \cup old /\ minutes' = minutes \ old
    /\ UNCHANGED <<coreVars, byteVars, clock, loopVars, pc, saving, addVars, accVars, totVars>>

-----------------------------------------------------------------------------
(* PersistTraffic, and the rest of profile_stop.                           *)

Unlock(t) == /\ Step(t, "unlock", "persist") /\ mutex' = None
             /\ UNCHANGED <<coreVars, byteVars, clock, groups, dirty, enabled, late, saving, dataVars>>

AfterSave(t) == IF t = "stop" THEN "flush" ELSE "rest"

\* Under loop_mutex the dirty profile is taken; the loop does so every tenth time.
TakeDirty(t) ==
    /\ mutex = None /\ dirty' = FALSE
    /\ Step(t, "persist", IF dirty THEN "save" ELSE AfterSave(t))
    /\ saving' = IF dirty THEN [saving EXCEPT ![t] = groups] ELSE saving
    /\ UNCHANGED <<coreVars, byteVars, clock, groups, enabled, mutex, late, dataVars>>
NotYet == /\ Step("loop", "persist", "rest")
          /\ UNCHANGED <<coreVars, byteVars, clock, loopVars, saving, dataVars>>

\* SaveTrafficBatch, without it: the row gets the total of this moment.
SaveTotal(t) ==
    /\ Step(t, "save", AfterSave(t))
    /\ saved' = [saved EXCEPT ![saving[t]] = total[saving[t]]]
    /\ saving' = [saving EXCEPT ![t] = None]
    /\ UNCHANGED <<coreVars, byteVars, clock, loopVars, addVars, accVars, rowVars, total>>

\* Mutant: a minute that is not over is left collected.
Flush_Ended ==
    /\ Step("stop", "flush", "last")
    /\ IF bucket = clock THEN UNCHANGED <<accum, hand>>
       ELSE accum' = {} /\ hand' = [hand EXCEPT !["stop"] = drainLocked(bucket)]
    /\ UNCHANGED <<coreVars, byteVars, clock, loopVars, saving, addVars, bucket, rowVars, totVars>>

\* The stop writes the minute it interrupts.
Flush == /\ Step("stop", "flush", "last")
         /\ accum' = {} /\ hand' = [hand EXCEPT !["stop"] = drainLocked(bucket)]
         /\ UNCHANGED <<coreVars, byteVars, clock, loopVars, saving, addVars, bucket, rowVars, totVars>>

\* The box goes, with what it counted since the last query.
StopBox == /\ Step("stop", "halt", "rest") /\ box' = None
           /\ core' = {} /\ lost' = lost \cup core
           /\ UNCHANGED <<counted, tested, clock, loopVars, saving, dataVars>>

Next == \/ Tick \/ Carry \/ SetChainGroups \/ Wake \/ StopBegin \/ Flush \/ Rollup \/ NotYet \/ StopBox
        \/ \E p \in Profiles : StartBox(p) \/ CreditTest(p)
        \/ \E t \in {"loop", "stop"} : Lock(t) \/ QueryStats(t) \/ Credit(t) \/ Unlock(t)
                                       \/ TakeDirty(t) \/ SaveTotal(t)
        \/ \E t \in Threads : AddConfigDelta(t) \/ WriteRows(t)

Spec == Init /\ [][Next]_vars

-----------------------------------------------------------------------------
\* Where a byte may be on its way from the counters of the core to the statistics.
Places == {core, lost} \cup {ans[t] : t \in Threads}
Entries == (UNION {adding[t] \cup hand[t] : t \in Threads}) \cup accum \cup minutes \cup hours
Held == [t \in Threads |-> Cardinality(ans[t]) + Cardinality(adding[t]) + Cardinality(hand[t])]

\* Every byte that was counted is at exactly one place: it is in the core, lost with an
\* answer, a row or a box, or it is an entry of one stage of the statistics.
CountedOnce ==
    /\ (UNION Places) \cup {e.byte : e \in Entries} = counted
    /\ Cardinality(core) + Cardinality(lost) + Held["loop"] + Held["stop"] + Held["test"]
       + Cardinality(accum) + Cardinality(minutes) + Cardinality(hours) = Cardinality(counted)

\* A byte ends in the row of the minute it was counted in, though the current minute
\* may be moved back by a delta that waited for the lock, and of the profile whose box
\* carried it, as long as the loop did not get loop_mutex after a stop had disabled it.
OwnRow ==
    /\ \A r \in (UNION {hand[t] : t \in Threads}) \cup minutes \cup hours : r.min = r.at
    /\ ~late => \A e \in Entries : e.to = e.byte[1]

\* When profile_stop goes on to stop the box, what the run counted is in the database:
\* nothing of it is still collected, and every total is saved or just being saved by
\* the loop.
StopSavesAll ==
    pc["stop"] = "halt" /\ ~late
        => /\ \A e \in accum : e.byte \in tested
           /\ pc["loop"] = "save" \/ saved = total
=============================================================================
