------------------------- MODULE ConfigStats_proofs -------------------------
(***************************************************************************)
(* Theorems of the two components under src/src/stats and of the           *)
(* configuration that decides whom they credit.                            *)
(* TrafficStats, for any profiles, bytes, minutes and roll-up window: a    *)
(* byte is at one place, ends in the row of its minute and its profile,    *)
(* and a stop has saved everything before the box goes.                    *)
(* AutoSelector, for any group, limit, back-off and number of changes: the *)
(* request for a rebuild is earned by the build it is about.               *)
(* ConfigBuild, for any profiles, chains, routes, pools and proxies of the *)
(* group: a chain of a configuration leads through its hops, and its bytes *)
(* are credited once.                                                      *)
(***************************************************************************)
EXTENDS TrafficStats, AutoSelector, ConfigBuild,
        FiniteSetTheorems, SequenceTheorems, WellFoundedInduction, TLAPS

-----------------------------------------------------------------------------
(* TrafficStats and AutoSelector.                                          *)

Steps == {"rest", "start", "lock", "query", "credit", "add", "write",
          "unlock", "persist", "save", "flush", "last", "halt"}
Updaters == {"loop", "stop"}
Locked == {"query", "credit", "add", "write", "unlock"}

TypeOK ==
    /\ box \in Profiles \cup {None} /\ groups \in Profiles \cup {None}
    /\ clock \in Nat \ {0} /\ {enabled, dirty, late} \subseteq BOOLEAN
    /\ core \subseteq counted /\ ans \in [Threads -> SUBSET counted]
    /\ total \in [Profiles -> SUBSET counted] /\ saved \in [Profiles -> SUBSET counted]
    /\ DOMAIN adding = Threads /\ DOMAIN hand = Threads
    /\ saving \in [Threads -> Profiles \cup {None}]
    /\ pc \in [Threads -> Steps]
    /\ pc["test"] \in {"rest", "add", "write"}
    /\ pc["loop"] \notin {"start", "flush", "last", "halt"}

\* The section of UpdateAll is entered by one thread at a time.
MutexInv == \A t \in Updaters : pc[t] \in Locked => mutex = t

\* The groups watch the box, as soon as its start has set them; its counters are its
\* own.  The loop is enabled while no stop is under way.
BoxInv ==
    /\ box = None => core = {} /\ pc["stop"] = "rest"
    /\ box # None /\ pc["stop"] # "start" => groups = box
    /\ \A b \in core : b[1] = box
    /\ enabled => box # None /\ pc["stop"] = "rest"

\* A loop that is in the section holds up a stop, so the box is still there.
LoopInv == ~late /\ pc["loop"] \in Locked => box # None /\ pc["stop"] \in {"rest", "lock"}

\* An answer is credited to the profile it was counted for.
AnsInv ==
    /\ \A t \in Threads : ans[t] # {} => t \in Updaters /\ pc[t] = "credit"
    /\ ~late => \A t \in Threads : \A b \in ans[t] : b[1] = groups

Own(S) == \A e \in S : e.to = e.byte[1]
EntryInv == ~late => /\ \A t \in Threads : Own(adding[t]) /\ Own(hand[t])
                     /\ Own(accum) /\ Own(minutes) /\ Own(hours)

\* The deltas of a call are of one minute, and so is everything collected.
Timely(S) == \A r \in S : r.min = r.at
MinuteInv ==
    /\ \A t \in Threads : \A e \in adding[t] :
           e.at \in Nat \ {0} /\ \A o \in adding[t] : o.at = e.at
    /\ \A e \in accum : e.at = bucket /\ bucket # 0
    /\ \A t \in Threads : Timely(hand[t])
    /\ Timely(minutes) /\ Timely(hours)

\* Until the next start has set the groups, a stop that saved leaves nothing to save.
Saved == box = None \/ pc["stop"] \in {"save", "flush", "last", "halt", "start"}

SaveInv ==
    ~late => /\ Saved => ~dirty
             /\ \A p \in Profiles : saved[p] # total[p] =>
                    \/ dirty /\ groups = p
                    \/ \E t \in Updaters : pc[t] = "save" /\ saving[t] = p

\* After the flush only a speed test can collect.
FlushInv ==
    /\ \A e \in adding["test"] : e.byte \in tested
    /\ ~late /\ pc["stop"] \in {"last", "halt"} => \A e \in accum : e.byte \in tested

IInv == /\ TypeOK /\ MutexInv /\ BoxInv /\ LoopInv /\ AnsInv
        /\ EntryInv /\ MinuteInv /\ SaveInv /\ FlushInv

\* The invariant holds initially.
LEMMA InitInv == Init => IInv
<1> SUFFICES ASSUME Init PROVE IInv
    OBVIOUS
<1> USE TrafficAssumption DEF Init, Threads, Steps, Updaters, Locked, Own, Timely, Saved
<1>1. TypeOK
  <2>1. pc \in [Threads -> Steps] /\ pc["test"] = "rest" /\ pc["loop"] = "rest"
      OBVIOUS
  <2>2. {enabled, dirty, late} \subseteq BOOLEAN
      OBVIOUS
  <2>3. total \in [Profiles -> SUBSET counted] /\ saved = total
      OBVIOUS
  <2>4. saving \in [Threads -> Profiles \cup {None}]
      OBVIOUS
  <2>5. ans \in [Threads -> SUBSET counted] /\ DOMAIN adding = Threads /\ DOMAIN hand = Threads
      OBVIOUS
  <2>6. /\ box \in Profiles \cup {None} /\ groups \in Profiles \cup {None} 
        /\ clock \in Nat \ {0} /\ core \subseteq counted
      OBVIOUS
  <2> QED
      BY <2>1, <2>2, <2>3, <2>4, <2>5, <2>6 DEF TypeOK
<1>2. MutexInv
    BY DEF MutexInv
<1>3. BoxInv
    BY DEF BoxInv
<1>4. LoopInv
    BY DEF LoopInv
<1>5. AnsInv
    BY DEF AnsInv
<1>6. EntryInv
    BY DEF EntryInv
<1>7. MinuteInv
    BY DEF MinuteInv
<1>8. SaveInv
    BY DEF SaveInv
<1>9. FlushInv
    BY DEF FlushInv
<1> QED
    BY <1>1, <1>2, <1>3, <1>4, <1>5, <1>6, <1>7, <1>8, <1>9 DEF IInv

\* Values keep their types; no thread leaves the steps of its own program.
LEMMA TypeOKStep ==
    ASSUME TypeOK, AnsInv, [Next]_vars
    PROVE  TypeOK'
<1> USE TrafficAssumption DEF TypeOK, AnsInv, Steps,
        Threads, Updaters, Step, vars, coreVars, byteVars, loopVars, addVars, accVars,
        rowVars, totVars, dataVars
<1>1. CASE Tick
    BY <1>1 DEF Tick
<1>2. CASE Carry
    BY <1>2 DEF Carry, NextByte
<1>3. CASE SetChainGroups
    BY <1>3 DEF SetChainGroups
<1>4. CASE Wake
    BY <1>4 DEF Wake
<1>5. CASE StopBegin
    BY <1>5 DEF StopBegin
<1>6. CASE Flush
    BY <1>6 DEF Flush, drainLocked
<1>7. CASE NotYet
    BY <1>7 DEF NotYet
<1>8. CASE StopBox
    BY <1>8 DEF StopBox
<1>9. CASE Rollup
    BY <1>9 DEF Rollup
<1>10. ASSUME NEW p \in Profiles, StartBox(p) PROVE TypeOK'
    BY <1>10 DEF StartBox
<1>11. ASSUME NEW p \in Profiles, CreditTest(p) PROVE TypeOK'
    BY <1>11 DEF CreditTest, Deltas, NextByte
<1>12. ASSUME NEW t \in Updaters, Lock(t) PROVE TypeOK'
    BY <1>12 DEF Lock
<1>13. ASSUME NEW t \in Updaters, QueryStats(t) PROVE TypeOK'
    BY <1>13 DEF QueryStats
<1>14. ASSUME NEW t \in Updaters, Credit(t) PROVE TypeOK'
    BY <1>14 DEF Credit, Deltas
<1>15. ASSUME NEW t \in Updaters, Unlock(t) PROVE TypeOK'
    BY <1>15 DEF Unlock
<1>16. ASSUME NEW t \in Updaters, TakeDirty(t) PROVE TypeOK'
    BY <1>16 DEF TakeDirty, AfterSave
<1>17. ASSUME NEW t \in Updaters, SaveTotal(t) PROVE TypeOK'
    BY <1>17 DEF SaveTotal, AfterSave
<1>18. ASSUME NEW t \in Threads, AddConfigDelta(t) PROVE TypeOK'
    BY <1>18 DEF AddConfigDelta, drainLocked
<1>19. ASSUME NEW t \in Threads, WriteRows(t) PROVE TypeOK'
    BY <1>19 DEF WriteRows, AfterWrite
<1>20. CASE UNCHANGED vars
    BY <1>20
<1> QED
    BY <1>1, <1>2, <1>3, <1>4, <1>5, <1>6, <1>7, <1>8, <1>9, <1>10, <1>11, <1>12,
       <1>13, <1>14, <1>15, <1>16, <1>17, <1>18, <1>19, <1>20 DEF Next

\* Only the thread with loop_mutex enters the section.
LEMMA MutexInvStep ==
    ASSUME MutexInv, TypeOK, [Next]_vars
    PROVE  MutexInv'
<1> USE TrafficAssumption DEF MutexInv, TypeOK, Steps, Locked,
        Threads, Updaters, Step, vars, coreVars, byteVars, loopVars, addVars, accVars,
        rowVars, totVars, dataVars
<1>1. CASE SetChainGroups
    BY <1>1 DEF SetChainGroups
<1>2. CASE Wake
    BY <1>2 DEF Wake
<1>3. CASE StopBegin
    BY <1>3 DEF StopBegin
<1>4. CASE Flush
    BY <1>4 DEF Flush, drainLocked
<1>5. CASE NotYet
    BY <1>5 DEF NotYet
<1>6. CASE StopBox
    BY <1>6 DEF StopBox
<1>7. CASE Tick \/ Carry \/ Rollup
    BY <1>7 DEF Tick, Carry, Rollup
<1>8. ASSUME NEW p \in Profiles, StartBox(p) PROVE MutexInv'
    BY <1>8 DEF StartBox
<1>9. ASSUME NEW p \in Profiles, CreditTest(p) PROVE MutexInv'
    BY <1>9 DEF CreditTest, Deltas, NextByte
<1>10. ASSUME NEW t \in Updaters, Lock(t) PROVE MutexInv'
    BY <1>10 DEF Lock
<1>11. ASSUME NEW t \in Updaters, QueryStats(t) PROVE MutexInv'
    BY <1>11 DEF QueryStats
<1>12. ASSUME NEW t \in Updaters, Credit(t) PROVE MutexInv'
    BY <1>12 DEF Credit, Deltas
<1>13. ASSUME NEW t \in Updaters, Unlock(t) PROVE MutexInv'
    BY <1>13 DEF Unlock
<1>14. ASSUME NEW t \in Updaters, TakeDirty(t) PROVE MutexInv'
    BY <1>14 DEF TakeDirty, AfterSave
<1>15. ASSUME NEW t \in Updaters, SaveTotal(t) PROVE MutexInv'
    BY <1>15 DEF SaveTotal, AfterSave
<1>16. ASSUME NEW t \in Threads, AddConfigDelta(t) PROVE MutexInv'
    BY <1>16 DEF AddConfigDelta, drainLocked
<1>17. ASSUME NEW t \in Threads, WriteRows(t) PROVE MutexInv'
    BY <1>17 DEF WriteRows, AfterWrite
<1>18. CASE UNCHANGED vars
    BY <1>18
<1> QED
    BY <1>1, <1>2, <1>3, <1>4, <1>5, <1>6, <1>7, <1>8, <1>9, <1>10, <1>11, <1>12,
       <1>13, <1>14, <1>15, <1>16, <1>17, <1>18 DEF Next

\* The groups change only between the start of a box and the loop being enabled.
LEMMA BoxInvStep ==
    ASSUME BoxInv, TypeOK, [Next]_vars
    PROVE  BoxInv'
<1> USE TrafficAssumption DEF BoxInv, TypeOK, Steps,
        Threads, Updaters, Step, vars, coreVars, byteVars, loopVars, addVars, accVars,
        rowVars, totVars, dataVars
<1>1. CASE Carry
    BY <1>1 DEF Carry, NextByte
<1>2. CASE SetChainGroups
    BY <1>2 DEF SetChainGroups
<1>3. CASE Wake
    BY <1>3 DEF Wake
<1>4. CASE StopBegin
    BY <1>4 DEF StopBegin
<1>5. CASE Flush
    BY <1>5 DEF Flush, drainLocked
<1>6. CASE NotYet
    BY <1>6 DEF NotYet
<1>7. CASE StopBox
    BY <1>7 DEF StopBox
<1>8. CASE Tick \/ Rollup
    BY <1>8 DEF Tick, Rollup
<1>9. ASSUME NEW p \in Profiles, StartBox(p) PROVE BoxInv'
    BY <1>9 DEF StartBox
<1>10. ASSUME NEW p \in Profiles, CreditTest(p) PROVE BoxInv'
    BY <1>10 DEF CreditTest, Deltas, NextByte
<1>11. ASSUME NEW t \in Updaters, Lock(t) PROVE BoxInv'
    BY <1>11 DEF Lock
<1>12. ASSUME NEW t \in Updaters, QueryStats(t) PROVE BoxInv'
    BY <1>12 DEF QueryStats
<1>13. ASSUME NEW t \in Updaters, Credit(t) PROVE BoxInv'
    BY <1>13 DEF Credit, Deltas
<1>14. ASSUME NEW t \in Updaters, Unlock(t) PROVE BoxInv'
    BY <1>14 DEF Unlock
<1>15. ASSUME NEW t \in Updaters, TakeDirty(t) PROVE BoxInv'
    BY <1>15 DEF TakeDirty, AfterSave
<1>16. ASSUME NEW t \in Updaters, SaveTotal(t) PROVE BoxInv'
    BY <1>16 DEF SaveTotal, AfterSave
<1>17. ASSUME NEW t \in Threads, AddConfigDelta(t) PROVE BoxInv'
    BY <1>17 DEF AddConfigDelta, drainLocked
<1>18. ASSUME NEW t \in Threads, WriteRows(t) PROVE BoxInv'
    BY <1>18 DEF WriteRows, AfterWrite
<1>19. CASE UNCHANGED vars
    BY <1>19
<1> QED
    BY <1>1, <1>2, <1>3, <1>4, <1>5, <1>6, <1>7, <1>8, <1>9, <1>10, <1>11, <1>12,
       <1>13, <1>14, <1>15, <1>16, <1>17, <1>18, <1>19 DEF Next

\* A loop that gets the lock while it is enabled finds a box, and a stop then waits.
LEMMA LoopInvStep ==
    ASSUME LoopInv, TypeOK, MutexInv, BoxInv, [Next]_vars
    PROVE  LoopInv'
<1> USE TrafficAssumption DEF LoopInv, TypeOK, MutexInv, BoxInv, Locked,
        Threads, Updaters, Step, vars, coreVars, byteVars, loopVars, addVars, accVars,
        rowVars, totVars, dataVars
<1>1. CASE SetChainGroups
    BY <1>1 DEF SetChainGroups
<1>2. CASE Wake
    BY <1>2 DEF Wake
<1>3. CASE StopBegin
    BY <1>3 DEF StopBegin
<1>4. CASE Flush
    BY <1>4 DEF Flush, drainLocked
<1>5. CASE NotYet
    BY <1>5 DEF NotYet
<1>6. CASE StopBox
    BY <1>6 DEF StopBox
<1>7. CASE Tick \/ Carry \/ Rollup
    BY <1>7 DEF Tick, Carry, Rollup
<1>8. ASSUME NEW p \in Profiles, StartBox(p) PROVE LoopInv'
    BY <1>8 DEF StartBox
<1>9. ASSUME NEW p \in Profiles, CreditTest(p) PROVE LoopInv'
    BY <1>9 DEF CreditTest, Deltas, NextByte
<1>10. ASSUME NEW t \in Updaters, Lock(t) PROVE LoopInv'
    BY <1>10 DEF Lock
<1>11. ASSUME NEW t \in Updaters, QueryStats(t) PROVE LoopInv'
    BY <1>11 DEF QueryStats
<1>12. ASSUME NEW t \in Updaters, Credit(t) PROVE LoopInv'
    BY <1>12 DEF Credit, Deltas
<1>13. ASSUME NEW t \in Updaters, Unlock(t) PROVE LoopInv'
    BY <1>13 DEF Unlock
<1>14. ASSUME NEW t \in Updaters, TakeDirty(t) PROVE LoopInv'
    BY <1>14 DEF TakeDirty, AfterSave
<1>15. ASSUME NEW t \in Updaters, SaveTotal(t) PROVE LoopInv'
    BY <1>15 DEF SaveTotal, AfterSave
<1>16. ASSUME NEW t \in Threads, AddConfigDelta(t) PROVE LoopInv'
    BY <1>16 DEF AddConfigDelta, drainLocked
<1>17. ASSUME NEW t \in Threads, WriteRows(t) PROVE LoopInv'
    BY <1>17 DEF WriteRows, AfterWrite
<1>18. CASE UNCHANGED vars
    BY <1>18
<1> QED
    BY <1>1, <1>2, <1>3, <1>4, <1>5, <1>6, <1>7, <1>8, <1>9, <1>10, <1>11, <1>12,
       <1>13, <1>14, <1>15, <1>16, <1>17, <1>18 DEF Next

\* What a query took from the box belongs to the profile of the groups.
LEMMA AnsInvStep ==
    ASSUME AnsInv, TypeOK, BoxInv, LoopInv, [Next]_vars
    PROVE  AnsInv'
<1> USE TrafficAssumption DEF AnsInv, TypeOK, BoxInv, LoopInv, Locked,
        Threads, Updaters, Step, vars, coreVars, byteVars, loopVars, addVars, accVars,
        rowVars, totVars, dataVars
<1>1. CASE SetChainGroups
    BY <1>1 DEF SetChainGroups
<1>2. CASE Wake
    BY <1>2 DEF Wake
<1>3. CASE StopBegin
    BY <1>3 DEF StopBegin
<1>4. CASE Flush
    BY <1>4 DEF Flush, drainLocked
<1>5. CASE NotYet
    BY <1>5 DEF NotYet
<1>6. CASE StopBox
    BY <1>6 DEF StopBox
<1>7. CASE Tick \/ Carry \/ Rollup
    BY <1>7 DEF Tick, Carry, Rollup
<1>8. ASSUME NEW p \in Profiles, StartBox(p) PROVE AnsInv'
    BY <1>8 DEF StartBox
<1>9. ASSUME NEW p \in Profiles, CreditTest(p) PROVE AnsInv'
    BY <1>9 DEF CreditTest, Deltas, NextByte
<1>10. ASSUME NEW t \in Updaters, Lock(t) PROVE AnsInv'
    BY <1>10 DEF Lock
<1>11. ASSUME NEW t \in Updaters, QueryStats(t) PROVE AnsInv'
    BY <1>11 DEF QueryStats
<1>12. ASSUME NEW t \in Updaters, Credit(t) PROVE AnsInv'
    BY <1>12 DEF Credit, Deltas
<1>13. ASSUME NEW t \in Updaters, Unlock(t) PROVE AnsInv'
    BY <1>13 DEF Unlock
<1>14. ASSUME NEW t \in Updaters, TakeDirty(t) PROVE AnsInv'
    BY <1>14 DEF TakeDirty, AfterSave
<1>15. ASSUME NEW t \in Updaters, SaveTotal(t) PROVE AnsInv'
    BY <1>15 DEF SaveTotal, AfterSave
<1>16. ASSUME NEW t \in Threads, AddConfigDelta(t) PROVE AnsInv'
    BY <1>16 DEF AddConfigDelta, drainLocked
<1>17. ASSUME NEW t \in Threads, WriteRows(t) PROVE AnsInv'
    BY <1>17 DEF WriteRows, AfterWrite
<1>18. CASE UNCHANGED vars
    BY <1>18
<1> QED
    BY <1>1, <1>2, <1>3, <1>4, <1>5, <1>6, <1>7, <1>8, <1>9, <1>10, <1>11, <1>12,
       <1>13, <1>14, <1>15, <1>16, <1>17, <1>18 DEF Next

\* An entry keeps the profile that Credit gave it.
LEMMA EntryInvStep ==
    ASSUME EntryInv, TypeOK, AnsInv, [Next]_vars
    PROVE  EntryInv'
<1> USE TrafficAssumption DEF EntryInv, TypeOK, AnsInv, Own,
        Threads, Updaters, Step, vars, coreVars, byteVars, loopVars, addVars, accVars,
        rowVars, totVars, dataVars
<1>1. CASE Flush
    BY <1>1 DEF Flush, drainLocked
<1>2. CASE Rollup
    BY <1>2 DEF Rollup
<1>3. CASE Tick \/ Carry \/ SetChainGroups \/ Wake \/ StopBegin \/ NotYet \/ StopBox
    BY <1>3 DEF Tick, Carry, SetChainGroups, Wake, StopBegin, NotYet, StopBox
<1>4. ASSUME NEW p \in Profiles, CreditTest(p) PROVE EntryInv'
    BY <1>4 DEF CreditTest, Deltas, NextByte
<1>5. ASSUME NEW p \in Profiles, StartBox(p) PROVE EntryInv'
    BY <1>5 DEF StartBox
<1>6. ASSUME NEW t \in Updaters, Lock(t) PROVE EntryInv'
    BY <1>6 DEF Lock
<1>7. ASSUME NEW t \in Updaters, Credit(t) PROVE EntryInv'
    BY <1>7 DEF Credit, Deltas
<1>8. ASSUME NEW t \in Updaters, QueryStats(t) \/ Unlock(t) \/ TakeDirty(t) \/ SaveTotal(t)
       PROVE EntryInv'
    BY <1>8 DEF QueryStats, Unlock, TakeDirty, SaveTotal
<1>9. ASSUME NEW t \in Threads, AddConfigDelta(t) PROVE EntryInv'
    BY <1>9 DEF AddConfigDelta, drainLocked
<1>10. ASSUME NEW t \in Threads, WriteRows(t) PROVE EntryInv'
    BY <1>10 DEF WriteRows, AfterWrite
<1>11. CASE UNCHANGED vars
    BY <1>11
<1> QED
    BY <1>1, <1>2, <1>3, <1>4, <1>5, <1>6, <1>7, <1>8, <1>9, <1>10, <1>11 DEF Next

\* What is drained was all counted in the minute of the bucket.
LEMMA MinuteInvStep ==
    ASSUME MinuteInv, TypeOK, [Next]_vars
    PROVE  MinuteInv'
<1> USE TrafficAssumption DEF MinuteInv, TypeOK, Timely,
        Threads, Updaters, Step, vars, coreVars, byteVars, loopVars, addVars, accVars,
        rowVars, totVars, dataVars
<1>1. CASE Flush
    BY <1>1 DEF Flush, drainLocked
<1>2. CASE Rollup
    BY <1>2 DEF Rollup
<1>3. CASE Tick \/ Carry \/ SetChainGroups \/ Wake \/ StopBegin \/ NotYet \/ StopBox
    BY <1>3 DEF Tick, Carry, SetChainGroups, Wake, StopBegin, NotYet, StopBox
<1>4. ASSUME NEW p \in Profiles, CreditTest(p) PROVE MinuteInv'
    BY <1>4 DEF CreditTest, Deltas, NextByte
<1>5. ASSUME NEW p \in Profiles, StartBox(p) PROVE MinuteInv'
    BY <1>5 DEF StartBox
<1>6. ASSUME NEW t \in Updaters, Credit(t) PROVE MinuteInv'
    BY <1>6 DEF Credit, Deltas
<1>7. ASSUME NEW t \in Updaters, Lock(t) \/ QueryStats(t) \/ Unlock(t) \/ TakeDirty(t) \/ SaveTotal(t)
       PROVE MinuteInv'
    BY <1>7 DEF Lock, QueryStats, Unlock, TakeDirty, SaveTotal
<1>8. ASSUME NEW t \in Threads, AddConfigDelta(t) PROVE MinuteInv'
    BY <1>8 DEF AddConfigDelta, drainLocked
<1>9. ASSUME NEW t \in Threads, WriteRows(t) PROVE MinuteInv'
    BY <1>9 DEF WriteRows, AfterWrite
<1>10. CASE UNCHANGED vars
    BY <1>10
<1> QED
    BY <1>1, <1>2, <1>3, <1>4, <1>5, <1>6, <1>7, <1>8, <1>9, <1>10 DEF Next

\* A total that is ahead of its row is dirty, or a thread is about to save it.
LEMMA SaveInvStep ==
    ASSUME SaveInv, TypeOK, BoxInv, LoopInv, AnsInv, [Next]_vars
    PROVE  SaveInv'
<1> USE TrafficAssumption DEF SaveInv, TypeOK, BoxInv, LoopInv, AnsInv, Saved, Locked,
        Threads, Updaters, Step, vars, coreVars, byteVars, loopVars, addVars, accVars,
        rowVars, totVars, dataVars
<1>1. CASE SetChainGroups
    BY <1>1 DEF SetChainGroups
<1>2. CASE Wake
    BY <1>2 DEF Wake
<1>3. CASE StopBegin
    BY <1>3 DEF StopBegin
<1>4. CASE Flush
    BY <1>4 DEF Flush, drainLocked
<1>5. CASE NotYet
    BY <1>5 DEF NotYet
<1>6. CASE StopBox
    BY <1>6 DEF StopBox
<1>7. CASE Tick \/ Carry \/ Rollup
    BY <1>7 DEF Tick, Carry, Rollup
<1>8. ASSUME NEW p \in Profiles, StartBox(p) PROVE SaveInv'
    BY <1>8 DEF StartBox
<1>9. ASSUME NEW p \in Profiles, CreditTest(p) PROVE SaveInv'
    BY <1>9 DEF CreditTest, Deltas, NextByte
<1>10. ASSUME NEW t \in Updaters, Lock(t) PROVE SaveInv'
    BY <1>10 DEF Lock
<1>11. ASSUME NEW t \in Updaters, QueryStats(t) PROVE SaveInv'
    BY <1>11 DEF QueryStats
<1>12. ASSUME NEW t \in Updaters, Credit(t) PROVE SaveInv'
  <2> SUFFICES ASSUME ~late' PROVE SaveInv'
      OBVIOUS
  <2>1. ~late /\ box # None /\ pc["stop"] \in {"rest", "lock", "credit"}
      BY <1>12 DEF Credit
  <2>2. ~Saved'
      BY <1>12, <2>1 DEF Credit
  <2>3. \A p \in Profiles : saved'[p] # total'[p] => saved[p] # total[p] \/ (dirty' /\ groups' = p)
      BY <1>12 DEF Credit
  <2>4. (dirty => dirty') /\ groups' = groups /\ saving' = saving
      BY <1>12 DEF Credit
  <2>5. \A u \in Updaters : pc[u] = "save" => pc'[u] = "save"
      BY <1>12 DEF Credit
  <2> QED
      BY <2>1, <2>2, <2>3, <2>4, <2>5
<1>13. ASSUME NEW t \in Updaters, Unlock(t) PROVE SaveInv'
    BY <1>13 DEF Unlock
<1>14. ASSUME NEW t \in Updaters, TakeDirty(t) PROVE SaveInv'
    BY <1>14 DEF TakeDirty, AfterSave
<1>15. ASSUME NEW t \in Updaters, SaveTotal(t) PROVE SaveInv'
    BY <1>15 DEF SaveTotal, AfterSave
<1>16. ASSUME NEW t \in Threads, AddConfigDelta(t) PROVE SaveInv'
    BY <1>16 DEF AddConfigDelta, drainLocked
<1>17. ASSUME NEW t \in Threads, WriteRows(t) PROVE SaveInv'
    BY <1>17 DEF WriteRows, AfterWrite
<1>18. CASE UNCHANGED vars
    BY <1>18
<1> QED
    BY <1>1, <1>2, <1>3, <1>4, <1>5, <1>6, <1>7, <1>8, <1>9, <1>10, <1>11, <1>12,
       <1>13, <1>14, <1>15, <1>16, <1>17, <1>18 DEF Next

\* Past the flush no thread but a speed test has a delta to collect.
LEMMA FlushInvStep ==
    ASSUME FlushInv, TypeOK, LoopInv, [Next]_vars
    PROVE  FlushInv'
<1> USE TrafficAssumption DEF FlushInv, TypeOK, LoopInv, Locked,
        Threads, Updaters, Step, vars, coreVars, byteVars, loopVars, addVars, accVars,
        rowVars, totVars, dataVars
<1>1. CASE SetChainGroups
    BY <1>1 DEF SetChainGroups
<1>2. CASE Wake
    BY <1>2 DEF Wake
<1>3. CASE StopBegin
    BY <1>3 DEF StopBegin
<1>4. CASE Flush
    BY <1>4 DEF Flush, drainLocked
<1>5. CASE NotYet
    BY <1>5 DEF NotYet
<1>6. CASE StopBox
    BY <1>6 DEF StopBox
<1>7. CASE Tick \/ Carry \/ Rollup
    BY <1>7 DEF Tick, Carry, Rollup
<1>8. ASSUME NEW p \in Profiles, StartBox(p) PROVE FlushInv'
    BY <1>8 DEF StartBox
<1>9. ASSUME NEW p \in Profiles, CreditTest(p) PROVE FlushInv'
    BY <1>9 DEF CreditTest, Deltas, NextByte
<1>10. ASSUME NEW t \in Updaters, Lock(t) PROVE FlushInv'
    BY <1>10 DEF Lock
<1>11. ASSUME NEW t \in Updaters, QueryStats(t) PROVE FlushInv'
    BY <1>11 DEF QueryStats
<1>12. ASSUME NEW t \in Updaters, Credit(t) PROVE FlushInv'
    BY <1>12 DEF Credit, Deltas
<1>13. ASSUME NEW t \in Updaters, Unlock(t) PROVE FlushInv'
    BY <1>13 DEF Unlock
<1>14. ASSUME NEW t \in Updaters, TakeDirty(t) PROVE FlushInv'
    BY <1>14 DEF TakeDirty, AfterSave
<1>15. ASSUME NEW t \in Updaters, SaveTotal(t) PROVE FlushInv'
    BY <1>15 DEF SaveTotal, AfterSave
<1>16. ASSUME NEW t \in Threads, AddConfigDelta(t) PROVE FlushInv'
    BY <1>16 DEF AddConfigDelta, drainLocked
<1>17. ASSUME NEW t \in Threads, WriteRows(t) PROVE FlushInv'
    BY <1>17 DEF WriteRows, AfterWrite
<1>18. CASE UNCHANGED vars
    BY <1>18
<1> QED
    BY <1>1, <1>2, <1>3, <1>4, <1>5, <1>6, <1>7, <1>8, <1>9, <1>10, <1>11, <1>12,
       <1>13, <1>14, <1>15, <1>16, <1>17, <1>18 DEF Next

\* No step disturbs any part of the invariant.
LEMMA NextInv == IInv /\ [Next]_vars => IInv'
BY TypeOKStep, MutexInvStep, BoxInvStep, LoopInvStep, AnsInvStep,
   EntryInvStep, MinuteInvStep, SaveInvStep, FlushInvStep
   DEF IInv

\* The minutes, the deltas and the totals fit together in every state.
THEOREM TrafficInvariant == Spec => []IInv
BY InitInv, NextInv, PTL DEF Spec

\* A byte ends in the row of the minute it was counted in and of the profile whose
\* box carried it, however the clock, the looper, a stop and a speed test interleave.
THEOREM TrafficOwnRow == Spec => []OwnRow
<1>1. IInv => OwnRow
  <2> SUFFICES ASSUME IInv PROVE OwnRow
      OBVIOUS
  <2>1. ASSUME NEW r \in (UNION {hand[t] : t \in Threads}) \cup minutes \cup hours
        PROVE  r.min = r.at
    <3>1. CASE r \in minutes \cup hours
        BY <2>1, <3>1 DEF IInv, MinuteInv, Timely
    <3>2. CASE \E t \in Threads : r \in hand[t]
        BY <2>1, <3>2 DEF IInv, MinuteInv, Timely
    <3>3. r \in UNION {hand[t] : t \in Threads} => \E t \in Threads : r \in hand[t]
        BY Zenon
    <3> QED
        BY <2>1, <3>1, <3>2, <3>3
  <2>2. ASSUME ~late, NEW e \in Entries PROVE e.to = e.byte[1]
    <3>1. CASE e \in accum \cup minutes \cup hours
        BY <2>2, <3>1 DEF IInv, EntryInv, Own
    <3>2. CASE \E t \in Threads : e \in adding[t] \cup hand[t]
        BY <2>2, <3>2 DEF IInv, EntryInv, Own
    <3>3. e \in UNION {adding[t] \cup hand[t] : t \in Threads}
             => \E t \in Threads : e \in adding[t] \cup hand[t]
        BY Zenon
    <3>4. \/ e \in UNION {adding[t] \cup hand[t] : t \in Threads}
          \/ e \in accum \cup minutes \cup hours
        BY <2>2, Zenon DEF Entries
    <3> QED
        BY <3>1, <3>2, <3>3, <3>4, Zenon
  <2> QED
      BY <2>1, <2>2 DEF OwnRow
<1> QED
    BY <1>1, TrafficInvariant, PTL

\* When a stop goes on to the box, what the run counted has been written and saved, or
\* the loop is just saving it.
THEOREM TrafficStopSaves == Spec => []StopSavesAll
<1>1. IInv => StopSavesAll
  <2> SUFFICES ASSUME IInv, pc["stop"] = "halt", ~late, pc["loop"] # "save"
               PROVE  (\A e \in accum : e.byte \in tested) /\ saved = total
      BY DEF IInv, FlushInv, StopSavesAll
  <2>1. \A e \in accum : e.byte \in tested
      BY DEF IInv, FlushInv
  <2>2. \A p \in Profiles : saved[p] = total[p]
      BY DEF IInv, SaveInv, Saved, Updaters
  <2>3. saved = total
      BY <2>2 DEF IInv, TypeOK
  <2> QED
      BY <2>1, <2>3
<1> QED
    BY <1>1, TrafficInvariant, PTL

-----------------------------------------------------------------------------
(* Where every byte is.                                                    *)

\* The spots a byte may be at, and the bytes at each.
Stages == {"ans", "adding", "hand"}
Shared == {"core", "lost", "accum", "minutes", "hours"}
Spots == (Stages \X Threads) \cup (Shared \X {None})
Bytes(S) == {e.byte : e \in S}
At == [q \in Spots |-> CASE q[1] = "core" -> core
                         [] q[1] = "lost" -> lost
                         [] q[1] = "accum" -> Bytes(accum)
                         [] q[1] = "minutes" -> Bytes(minutes)
                         [] q[1] = "hours" -> Bytes(hours)
                         [] q[1] = "ans" -> ans[q[2]]
                         [] q[1] = "adding" -> Bytes(adding[q[2]])
                         [] OTHER -> Bytes(hand[q[2]])]

\* Every member of S is in exactly one f[q].
Partition(f, S) ==
    /\ \A q \in Spots : f[q] \subseteq S
    /\ \A b \in S : \E q \in Spots : b \in f[q]
    /\ \A j, q \in Spots : j # q => f[j] \cap f[q] = {}

\* Some of what was at j is now at q.
Moved(f, g, j, q) ==
    /\ j \in Spots /\ q \in Spots /\ j # q
    /\ \A i \in Spots \ {j, q} : g[i] = f[i]
    /\ \E S \in SUBSET f[j] : g[j] = f[j] \ S /\ g[q] = f[q] \cup S

LEMMA MoveKeeps ==
    ASSUME NEW f, NEW g, NEW S, NEW j, NEW q, Partition(f, S), Moved(f, g, j, q)
    PROVE  Partition(g, S)
<1> USE DEF Partition, Moved
<1>1. PICK T \in SUBSET f[j] : g[j] = f[j] \ T /\ g[q] = f[q] \cup T
    OBVIOUS
<1>2. \A i \in Spots : g[i] \subseteq S
    BY <1>1
<1>3. ASSUME NEW b \in S PROVE \E i \in Spots : b \in g[i]
    BY <1>1
<1>4. ASSUME NEW i \in Spots, NEW h \in Spots, i # h PROVE g[i] \cap g[h] = {}
    BY <1>1, <1>4
<1> QED
    BY <1>2, <1>3, <1>4

LEMMA AddKeeps ==
    ASSUME NEW f, NEW g, NEW S, NEW b, NEW q \in Spots, Partition(f, S), b \notin S,
           g[q] = f[q] \cup {b}, \A i \in Spots \ {q} : g[i] = f[i]
    PROVE  Partition(g, S \cup {b})
<1> USE DEF Partition
<1>2. \A i \in Spots : g[i] \subseteq S \cup {b}
    OBVIOUS
<1>3. ASSUME NEW c \in S \cup {b} PROVE \E i \in Spots : c \in g[i]
    OBVIOUS
<1>4. ASSUME NEW i \in Spots, NEW h \in Spots, i # h PROVE g[i] \cap g[h] = {}
    BY <1>4
<1> QED
    BY <1>2, <1>3, <1>4

\* The bytes at each spot, by name.
LEMMA AtValues ==
    /\ At[<<"core", None>>] = core /\ At[<<"lost", None>>] = lost
    /\ At[<<"accum", None>>] = Bytes(accum) /\ At[<<"minutes", None>>] = Bytes(minutes)
    /\ At[<<"hours", None>>] = Bytes(hours)
    /\ \A t \in Threads : /\ At[<<"ans", t>>] = ans[t]
                          /\ At[<<"adding", t>>] = Bytes(adding[t])
                          /\ At[<<"hand", t>>] = Bytes(hand[t])
BY DEF At, Spots, Stages, Shared

\* Distinct entries of a stage stand for distinct bytes.
OneEach(S) == \A e, f \in S : e.byte = f.byte => e = f

EntriesInv ==
    /\ \A t \in Threads : OneEach(adding[t]) /\ OneEach(hand[t])
    /\ OneEach(accum) /\ OneEach(minutes) /\ OneEach(hours)

\* A thread holds deltas and rows only at the steps that pass them on.
IdleInv ==
    \A t \in Threads : /\ adding[t] # {} => pc[t] = "add"
                       /\ hand[t] # {} => pc[t] \in {"write", "last"}

\* The bytes of a profile are numbered from one on.
NumberInv ==
    /\ IsFiniteSet(counted)
    /\ \A b \in counted : b = <<b[1], b[2]>> /\ b[2] \in 1..Cardinality(Carried(b[1]))

PlaceInv == Partition(At, counted)

\* A number that was not given yet.
LEMMA NextByteFresh ==
    ASSUME NumberInv, NEW p
    PROVE  /\ NextByte(p) \notin counted
           /\ IsFiniteSet(Carried(p)) /\ Cardinality(Carried(p)) \in Nat
<1>1. IsFiniteSet(Carried(p)) /\ Cardinality(Carried(p)) \in Nat
    BY FS_Subset, FS_CardinalityType DEF NumberInv, Carried
<1>2. NextByte(p)[1] = p /\ NextByte(p)[2] = Cardinality(Carried(p)) + 1
    BY DEF NextByte
<1>3. NextByte(p) \in counted => NextByte(p)[2] \in 1..Cardinality(Carried(p))
    BY <1>2 DEF NumberInv
<1> QED
    BY <1>1, <1>2, <1>3

LEMMA NumberAdd ==
    ASSUME NumberInv, NEW p, counted' = counted \cup {NextByte(p)}
    PROVE  NumberInv'
<1>1. IsFiniteSet(counted')
    BY FS_AddElement DEF NumberInv
<1>2. Carried(p)' = Carried(p) \cup {NextByte(p)} /\ NextByte(p) \notin Carried(p)
    BY NextByteFresh DEF Carried, NextByte
<1>3. Cardinality(Carried(p)') = Cardinality(Carried(p)) + 1
    BY <1>2, NextByteFresh, FS_AddElement
<1>4. ASSUME NEW b \in counted'
      PROVE  b = <<b[1], b[2]>> /\ b[2] \in 1..Cardinality(Carried(b[1])')
  <2>1. CASE b[1] # p
    <3>1. Carried(b[1])' = Carried(b[1]) /\ b \in counted
        BY <2>1 DEF Carried, NextByte
    <3> QED
        BY <3>1 DEF NumberInv
  <2>2. CASE b \in counted /\ b[1] = p
      BY <2>2, <1>3, NextByteFresh DEF NumberInv
  <2>3. CASE b = NextByte(p)
      BY <2>3, <1>3, NextByteFresh DEF NextByte
  <2> QED
      BY <2>1, <2>2, <2>3
<1> QED
    BY <1>1, <1>4 DEF NumberInv, Carried

LEMMA AtValuesNext ==
    /\ At'[<<"core", None>>] = core' /\ At'[<<"lost", None>>] = lost'
    /\ At'[<<"accum", None>>] = Bytes(accum') /\ At'[<<"minutes", None>>] = Bytes(minutes')
    /\ At'[<<"hours", None>>] = Bytes(hours')
    /\ \A t \in Threads : /\ At'[<<"ans", t>>] = ans'[t]
                          /\ At'[<<"adding", t>>] = Bytes(adding'[t])
                          /\ At'[<<"hand", t>>] = Bytes(hand'[t])
BY DEF At, Spots, Stages, Shared

LEMMA SpotsAre ==
    /\ \A n \in Shared : <<n, None>> \in Spots
    /\ \A n \in Stages : \A t \in Threads : <<n, t>> \in Spots
    /\ \A q \in Spots : \/ \E n \in Shared : q = <<n, None>>
                        \/ \E n \in Stages : \E t \in Threads : q = <<n, t>>
BY DEF Spots

\* The types of what the spots are made of.
Shapes ==
    /\ DOMAIN adding = Threads /\ DOMAIN hand = Threads /\ DOMAIN ans = Threads /\ DOMAIN pc = Threads

\* The deltas of some bytes are of those bytes, and so are the rows of what is drained.
LEMMA SameBytes ==
    /\ \A S, p : Bytes(Deltas(S, p)) = S
    /\ \A b : Bytes(drainLocked(b)) = Bytes(accum)
    /\ Bytes({}) = {}
<1>1. ASSUME NEW S, NEW p PROVE Bytes(Deltas(S, p)) = S
  <2>1. \A b \in S : [byte |-> b, to |-> p, at |-> clock].byte = b
      OBVIOUS
  <2> QED
      BY <2>1 DEF Bytes, Deltas
<1>2. ASSUME NEW b PROVE Bytes(drainLocked(b)) = Bytes(accum)
  <2>1. \A e \in accum : [byte |-> e.byte, to |-> e.to, at |-> e.at, min |-> b].byte = e.byte
      OBVIOUS
  <2>2. Bytes(drainLocked(b)) = {[byte |-> e.byte, to |-> e.to, at |-> e.at, min |-> b].byte : e \in accum}
      BY Zenon DEF Bytes, drainLocked
  <2> QED
      BY <2>1, <2>2 DEF Bytes
<1>3. Bytes({}) = {}
    BY DEF Bytes
<1> QED
    BY <1>1, <1>2, <1>3

LEMMA PlaceStep ==
    ASSUME PlaceInv, NumberInv, EntriesInv, IdleInv, Shapes, [Next]_vars,
           \A t \in Threads : ans[t] # {} => t # "test" /\ pc[t] = "credit"
    PROVE  PlaceInv'
<1> USE TrafficAssumption, AtValues, AtValuesNext, SpotsAre DEF Threads, Step, Stages, Shared,
        vars, coreVars, byteVars, loopVars, addVars, accVars, rowVars, totVars, dataVars
<1> DEFINE Same(K) == \A i \in Spots \ K : At'[i] = At[i]
<1> HIDE DEF Same
<1>1. CASE Carry
  <2>1. Same({<<"core", None>>})
      BY <1>1 DEF Carry, Same
  <2>2. At'[<<"core", None>>] = At[<<"core", None>>] \cup {NextByte(box)}
      BY <1>1 DEF Carry, Bytes, IdleInv, Shapes
  <2> QED
      BY <1>1, <2>1, <2>2, AddKeeps, NextByteFresh DEF Carry, PlaceInv, Same
<1>2. ASSUME NEW p \in Profiles, CreditTest(p) PROVE PlaceInv'
  <2>1. Same({<<"adding", "test">>})
      BY <1>2 DEF CreditTest, Same, Deltas
  <2>2. At'[<<"adding", "test">>] = At[<<"adding", "test">>] \cup {NextByte(p)}
    <3>1. adding'["test"] = Deltas({NextByte(p)}, p) /\ adding["test"] = {}
        BY <1>2 DEF CreditTest, IdleInv, Shapes
    <3>2. Bytes(adding'["test"]) = {NextByte(p)} /\ Bytes(adding["test"]) = {}
        BY <3>1, SameBytes
    <3> QED
        BY <3>2
  <2> QED
      BY <1>2, <2>1, <2>2, AddKeeps, NextByteFresh DEF CreditTest, PlaceInv, Same
<1>3. CASE StopBox
  <2>1. Same({<<"core", None>>, <<"lost", None>>})
      BY <1>3 DEF StopBox, Same
  <2>2. /\ At'[<<"core", None>>] = At[<<"core", None>>] \ core
        /\ At'[<<"lost", None>>] = At[<<"lost", None>>] \cup core
      BY <1>3 DEF StopBox, Bytes, IdleInv, Shapes
  <2>3. core \subseteq At[<<"core", None>>] /\ <<"core", None>> # <<"lost", None>>
      BY <1>3 DEF StopBox, Bytes
  <2>4. Moved(At, At', <<"core", None>>, <<"lost", None>>)
      BY <2>1, <2>2, <2>3 DEF Moved, Same
  <2> QED
      BY <1>3, <2>4, MoveKeeps DEF StopBox, PlaceInv
<1>4. ASSUME NEW t \in {"loop", "stop"}, QueryStats(t), lost' = lost, ans' = [ans EXCEPT ![t] = core]
      PROVE  PlaceInv'
  <2>1. Same({<<"core", None>>, <<"ans", t>>})
      BY <1>4 DEF QueryStats, Same
  <2>2. /\ At'[<<"core", None>>] = At[<<"core", None>>] \ core
        /\ At'[<<"ans", t>>] = At[<<"ans", t>>] \cup core
      BY <1>4 DEF QueryStats, Bytes, IdleInv, Shapes
  <2>3. core \subseteq At[<<"core", None>>] /\ <<"core", None>> # <<"ans", t>>
      BY <1>4 DEF QueryStats, Bytes
  <2>4. Moved(At, At', <<"core", None>>, <<"ans", t>>)
      BY <2>1, <2>2, <2>3 DEF Moved, Same
  <2> QED
      BY <1>4, <2>4, MoveKeeps DEF QueryStats, PlaceInv
<1>5. ASSUME NEW t \in {"loop", "stop"}, QueryStats(t), lost' = lost \cup core, ans' = [ans EXCEPT ![t] = {}]
      PROVE  PlaceInv'
  <2>1. Same({<<"core", None>>, <<"lost", None>>})
      BY <1>5 DEF QueryStats, Same, Shapes
  <2>2. /\ At'[<<"core", None>>] = At[<<"core", None>>] \ core
        /\ At'[<<"lost", None>>] = At[<<"lost", None>>] \cup core
      BY <1>5 DEF QueryStats, Bytes, IdleInv, Shapes
  <2>3. core \subseteq At[<<"core", None>>] /\ <<"core", None>> # <<"lost", None>>
      BY <1>5 DEF QueryStats, Bytes
  <2>4. Moved(At, At', <<"core", None>>, <<"lost", None>>)
      BY <2>1, <2>2, <2>3 DEF Moved, Same
  <2> QED
      BY <1>5, <2>4, MoveKeeps DEF QueryStats, PlaceInv
<1>6. ASSUME NEW t \in {"loop", "stop"}, Credit(t) PROVE PlaceInv'
  <2>1. Same({<<"ans", t>>, <<"adding", t>>})
      BY <1>6 DEF Credit, Same, Deltas
  <2>2. /\ At'[<<"ans", t>>] = At[<<"ans", t>>] \ ans[t]
        /\ At'[<<"adding", t>>] = At[<<"adding", t>>] \cup ans[t]
      BY <1>6, SameBytes DEF Credit, IdleInv, Shapes, Bytes
  <2>3. ans[t] \subseteq At[<<"ans", t>>] /\ <<"ans", t>> # <<"adding", t>>
      BY <1>6 DEF Credit, Bytes, Deltas
  <2>4. Moved(At, At', <<"ans", t>>, <<"adding", t>>)
      BY <2>1, <2>2, <2>3 DEF Moved, Same
  <2> QED
      BY <1>6, <2>4, MoveKeeps DEF Credit, PlaceInv
<1>7. ASSUME NEW t \in Threads, WriteRows(t), lost' = lost, minutes' = minutes \cup hand[t]
      PROVE  PlaceInv'
  <2>1. Same({<<"hand", t>>, <<"minutes", None>>})
      BY <1>7 DEF WriteRows, Same
  <2>2. /\ At'[<<"hand", t>>] = At[<<"hand", t>>] \ Bytes(hand[t])
        /\ At'[<<"minutes", None>>] = At[<<"minutes", None>>] \cup Bytes(hand[t])
      BY <1>7 DEF WriteRows, Bytes, IdleInv, Shapes
  <2>3. Bytes(hand[t]) \subseteq At[<<"hand", t>>] /\ <<"hand", t>> # <<"minutes", None>>
      BY <1>7 DEF WriteRows, Bytes
  <2>4. Moved(At, At', <<"hand", t>>, <<"minutes", None>>)
      BY <2>1, <2>2, <2>3 DEF Moved, Same
  <2> QED
      BY <1>7, <2>4, MoveKeeps DEF WriteRows, PlaceInv
<1>8. ASSUME NEW t \in Threads, WriteRows(t), minutes' = minutes, lost' = lost \cup {r.byte : r \in hand[t]}
      PROVE  PlaceInv'
  <2>1. Same({<<"hand", t>>, <<"lost", None>>})
      BY <1>8 DEF WriteRows, Same
  <2>2. /\ At'[<<"hand", t>>] = At[<<"hand", t>>] \ Bytes(hand[t])
        /\ At'[<<"lost", None>>] = At[<<"lost", None>>] \cup Bytes(hand[t])
      BY <1>8 DEF WriteRows, Bytes, IdleInv, Shapes
  <2>3. Bytes(hand[t]) \subseteq At[<<"hand", t>>] /\ <<"hand", t>> # <<"lost", None>>
      BY <1>8 DEF WriteRows, Bytes
  <2>4. Moved(At, At', <<"hand", t>>, <<"lost", None>>)
      BY <2>1, <2>2, <2>3 DEF Moved, Same
  <2> QED
      BY <1>8, <2>4, MoveKeeps DEF WriteRows, PlaceInv
<1>9. CASE Flush
  <2>1. Same({<<"accum", None>>, <<"hand", "stop">>})
      BY <1>9 DEF Flush, Same, drainLocked
  <2>2. /\ At'[<<"accum", None>>] = At[<<"accum", None>>] \ Bytes(accum)
        /\ At'[<<"hand", "stop">>] = At[<<"hand", "stop">>] \cup Bytes(accum)
    <3>1. accum' = {} /\ hand'["stop"] = drainLocked(bucket) /\ hand["stop"] = {}
        BY <1>9 DEF Flush, IdleInv, Shapes
    <3>2. Bytes(hand'["stop"]) = Bytes(accum) /\ Bytes(hand["stop"]) = {} /\ Bytes(accum') = {}
        BY <3>1, SameBytes
    <3> QED
        BY <3>2
  <2>3. Bytes(accum) \subseteq At[<<"accum", None>>] /\ <<"accum", None>> # <<"hand", "stop">>
      BY <1>9 DEF Flush, Bytes, drainLocked
  <2>4. Moved(At, At', <<"accum", None>>, <<"hand", "stop">>)
      BY <2>1, <2>2, <2>3 DEF Moved, Same
  <2> QED
      BY <1>9, <2>4, MoveKeeps DEF Flush, PlaceInv
<1>10. CASE Rollup
  <2> DEFINE old == {r \in minutes : r.min + Window < clock}
  <2> HIDE DEF old
  <2>0. old \subseteq minutes /\ minutes' = minutes \ old /\ hours' = hours \cup old
      BY <1>10 DEF Rollup, old
  <2>1. Same({<<"minutes", None>>, <<"hours", None>>})
      BY <1>10 DEF Rollup, Same
  <2>2. At'[<<"minutes", None>>] = At[<<"minutes", None>>] \ Bytes(old)
      BY <2>0 DEF Bytes, EntriesInv, OneEach
  <2>3. /\ At'[<<"hours", None>>] = At[<<"hours", None>>] \cup Bytes(old)
        /\ Bytes(old) \subseteq At[<<"minutes", None>>]
      BY <2>0 DEF Bytes
  <2>4. Moved(At, At', <<"minutes", None>>, <<"hours", None>>)
      BY <2>1, <2>2, <2>3 DEF Moved, Same
  <2> QED
      BY <1>10, <2>4, MoveKeeps DEF Rollup, PlaceInv
<1>11. ASSUME NEW t \in Threads, AddConfigDelta(t), adding[t] # {}, hand' = hand, accum' = accum \cup adding[t]
      PROVE  PlaceInv'
  <2>1. Same({<<"adding", t>>, <<"accum", None>>})
      BY <1>11 DEF AddConfigDelta, Same
  <2>2. /\ At'[<<"adding", t>>] = At[<<"adding", t>>] \ Bytes(adding[t])
        /\ At'[<<"accum", None>>] = At[<<"accum", None>>] \cup Bytes(adding[t])
      BY <1>11 DEF AddConfigDelta, Bytes, IdleInv, Shapes
  <2>3. Bytes(adding[t]) \subseteq At[<<"adding", t>>] /\ <<"adding", t>> # <<"accum", None>>
      BY <1>11 DEF AddConfigDelta, Bytes
  <2>4. Moved(At, At', <<"adding", t>>, <<"accum", None>>)
      BY <2>1, <2>2, <2>3 DEF Moved, Same
  <2> QED
      BY <1>11, <2>4, MoveKeeps DEF AddConfigDelta, PlaceInv
<1>12. ASSUME NEW t \in Threads, AddConfigDelta(t), adding[t] # {}, accum' = adding[t],
             hand' = [hand EXCEPT ![t] = drainLocked(bucket)]
      PROVE  PlaceInv'
  <2> DEFINE mid == [At EXCEPT ![<<"accum", None>>] = {}, ![<<"hand", t>>] = Bytes(accum)]
  <2>1. Same({<<"accum", None>>, <<"hand", t>>, <<"adding", t>>})
      BY <1>12 DEF AddConfigDelta, Same
  <2>2. /\ At'[<<"adding", t>>] = {}
        /\ At'[<<"accum", None>>] = Bytes(adding[t])
        /\ At'[<<"hand", t>>] = Bytes(accum)
    <3>1. adding'[t] = {} /\ accum' = adding[t] /\ hand'[t] = drainLocked(bucket)
        BY <1>12 DEF AddConfigDelta, Shapes
    <3>2. Bytes(adding'[t]) = {} /\ Bytes(hand'[t]) = Bytes(accum)
        BY <3>1, SameBytes
    <3> QED
        BY <3>1, <3>2
  <2>3. At[<<"hand", t>>] = {}
      BY <1>12 DEF AddConfigDelta, IdleInv, Bytes
  <2>4. At = [q \in Spots |-> At[q]]
      BY DEF At
  <2>5. Moved(At, mid, <<"accum", None>>, <<"hand", t>>)
      BY <2>3, <2>4 DEF Moved
  <2>6. /\ \A i \in Spots \ {<<"adding", t>>, <<"accum", None>>} : At'[i] = mid[i]
        /\ mid[<<"accum", None>>] = {} /\ mid[<<"adding", t>>] = Bytes(adding[t])
      BY <2>1, <2>2, <2>4 DEF Same
  <2>8. Moved(mid, At', <<"adding", t>>, <<"accum", None>>)
    <3>1. <<"adding", t>> # <<"accum", None>> /\ Bytes(adding[t]) \subseteq mid[<<"adding", t>>]
        BY <2>6
    <3> HIDE DEF mid
    <3>2. /\ At'[<<"adding", t>>] = mid[<<"adding", t>>] \ Bytes(adding[t])
          /\ At'[<<"accum", None>>] = mid[<<"accum", None>>] \cup Bytes(adding[t])
        BY <2>2, <2>6
    <3> QED
        BY <2>6, <3>1, <3>2 DEF Moved
  <2>7. Partition(At', counted)
      BY <2>5, <2>8, MoveKeeps DEF PlaceInv
  <2> QED
      BY <1>12, <2>7 DEF AddConfigDelta, PlaceInv
<1>13. ASSUME UNCHANGED <<core, counted, lost, accum, minutes, hours, ans, adding, hand>>
       PROVE PlaceInv'
    BY <1>13 DEF PlaceInv, At
<1>14. CASE \/ Tick \/ SetChainGroups \/ Wake \/ StopBegin \/ NotYet \/ UNCHANGED vars
         \/ \E p \in Profiles : StartBox(p)
         \/ \E t \in {"loop", "stop"} : Lock(t) \/ Unlock(t) \/ TakeDirty(t) \/ SaveTotal(t)
    BY <1>13, <1>14 DEF Tick, SetChainGroups, Wake, StopBegin, NotYet, StartBox, Lock, Unlock,
       TakeDirty, SaveTotal
<1>15. ASSUME NEW t \in {"loop", "stop"}, QueryStats(t) PROVE PlaceInv'
    BY <1>15, <1>4, <1>5 DEF QueryStats
<1>16. ASSUME NEW t \in Threads, WriteRows(t) PROVE PlaceInv'
    BY <1>16, <1>7, <1>8 DEF WriteRows
<1>17. ASSUME NEW t \in Threads, AddConfigDelta(t) PROVE PlaceInv'
  <2>1. CASE adding[t] = {}
    <3>1. (\A u \in Threads : adding'[u] = adding[u]) /\ UNCHANGED accVars
        BY <1>17, <2>1 DEF AddConfigDelta, Shapes
    <3>2. Same({})
        BY <1>17, <3>1 DEF AddConfigDelta, Same
    <3>3. At = [q \in Spots |-> At[q]] /\ At' = [q \in Spots |-> At'[q]]
        BY DEF At
    <3>4. At' = At
        BY <3>2, <3>3 DEF Same
    <3> QED
        BY <1>17, <3>4 DEF AddConfigDelta, PlaceInv
  <2>2. CASE adding[t] # {}
      BY <1>17, <2>2, <1>11, <1>12 DEF AddConfigDelta
  <2> QED
      BY <2>1, <2>2
<1>18. ASSUME NEW p \in Profiles, StartBox(p) \/ CreditTest(p) PROVE PlaceInv'
    BY <1>18, <1>14, <1>2
<1>19. ASSUME NEW t \in {"loop", "stop"},
              Lock(t) \/ QueryStats(t) \/ Credit(t) \/ Unlock(t) \/ TakeDirty(t) \/ SaveTotal(t)
       PROVE PlaceInv'
  <2>1. CASE Lock(t) \/ Unlock(t) \/ TakeDirty(t) \/ SaveTotal(t)
      BY <2>1, <1>13 DEF Lock, Unlock, TakeDirty, SaveTotal
  <2>2. CASE QueryStats(t)
      BY <2>2, <1>15
  <2>3. CASE Credit(t)
      BY <2>3, <1>6
  <2> QED
      BY <1>19, <2>1, <2>2, <2>3
<1>20. ASSUME NEW t \in Threads, AddConfigDelta(t) \/ WriteRows(t) PROVE PlaceInv'
    BY <1>20, <1>16, <1>17
<1> QED
    BY <1>1, <1>3, <1>9, <1>10, <1>14, <1>18, <1>19, <1>20, Zenon DEF Next

\* A stage has one entry for each byte: what is merged into it was elsewhere.
LEMMA EntriesStep ==
    ASSUME EntriesInv, PlaceInv, IdleInv, Shapes, [Next]_vars
    PROVE  EntriesInv'
<1> USE TrafficAssumption, AtValues, SpotsAre DEF EntriesInv, OneEach, Threads, Step, Stages,
        Shared, Shapes,
        vars, coreVars, byteVars, loopVars, addVars, accVars, rowVars, totVars, dataVars
<1>a. /\ \A t \in Threads : Bytes(hand[t]) \cap Bytes(minutes) = {} /\ Bytes(adding[t]) \cap Bytes(accum) = {}
      /\ Bytes(minutes) \cap Bytes(hours) = {}
    BY DEF PlaceInv, Partition
<1>1. CASE Flush
    BY <1>1 DEF Flush, drainLocked
<1>2. CASE Rollup
    BY <1>2, <1>a DEF Rollup, Bytes
<1>3. CASE \/ Tick \/ Carry \/ SetChainGroups \/ Wake \/ StopBegin \/ NotYet \/ StopBox \/ UNCHANGED vars
    BY <1>3 DEF Tick, Carry, SetChainGroups, Wake, StopBegin, NotYet, StopBox
<1>4. ASSUME NEW p \in Profiles, StartBox(p) PROVE EntriesInv'
    BY <1>4 DEF StartBox
<1>5. ASSUME NEW p \in Profiles, CreditTest(p) PROVE EntriesInv'
    BY <1>5 DEF CreditTest, Deltas
<1>6. ASSUME NEW t \in {"loop", "stop"},
             Lock(t) \/ QueryStats(t) \/ Unlock(t) \/ TakeDirty(t) \/ SaveTotal(t)
      PROVE  EntriesInv'
    BY <1>6 DEF Lock, QueryStats, Unlock, TakeDirty, SaveTotal
<1>7. ASSUME NEW t \in {"loop", "stop"}, Credit(t) PROVE EntriesInv'
    BY <1>7 DEF Credit, Deltas
<1>8. ASSUME NEW t \in Threads, AddConfigDelta(t) PROVE EntriesInv'
  <2>1. \A u \in Threads : adding'[u] = IF u = t THEN {} ELSE adding[u]
      BY <1>8 DEF AddConfigDelta
  <2>2. OneEach(drainLocked(bucket))
      BY DEF drainLocked
  <2>3. OneEach(accum') /\ minutes' = minutes /\ hours' = hours
    <3>1. /\ accum' \in {accum, adding[t], accum \cup adding[t]}
          /\ minutes' = minutes
          /\ hours' = hours
        BY <1>8 DEF AddConfigDelta
    <3>2. ASSUME NEW e \in adding[t], NEW f \in accum PROVE e.byte # f.byte
      <4>1. e.byte \in Bytes(adding[t]) /\ f.byte \in Bytes(accum)
          BY Zenon DEF Bytes
      <4>2. Bytes(adding[t]) \cap Bytes(accum) = {}
          BY <1>a
      <4> QED
          BY <4>1, <4>2, Zenon
    <3>3. OneEach(accum \cup adding[t]) /\ OneEach(accum) /\ OneEach(adding[t])
        BY <3>2
    <3> HIDE DEF OneEach
    <3> QED
        BY <3>1, <3>3
  <2>4. \A u \in Threads : hand'[u] \in {hand[u], drainLocked(bucket)}
      BY <1>8 DEF AddConfigDelta
  <2> HIDE DEF OneEach
  <2>5. \A u \in Threads : OneEach(adding'[u]) /\ OneEach(hand'[u])
      BY <2>1, <2>2, <2>4 DEF OneEach
  <2> QED
      BY <2>3, <2>5
<1>9. ASSUME NEW t \in Threads, WriteRows(t) PROVE EntriesInv'
  <2>1. \A u \in Threads : hand'[u] = IF u = t THEN {} ELSE hand[u]
      BY <1>9 DEF WriteRows
  <2>2. /\ minutes' \in {minutes, minutes \cup hand[t]}
        /\ adding' = adding /\ accum' = accum /\ hours' = hours
      BY <1>9 DEF WriteRows
  <2>3. ASSUME NEW e \in hand[t], NEW f \in minutes PROVE e.byte # f.byte
    <3>1. e.byte \in Bytes(hand[t]) /\ f.byte \in Bytes(minutes)
        BY Zenon DEF Bytes
    <3>2. Bytes(hand[t]) \cap Bytes(minutes) = {}
        BY <1>a
    <3> QED
        BY <3>1, <3>2, Zenon
  <2>4. OneEach(minutes \cup hand[t]) /\ OneEach({})
      BY <2>3
  <2> HIDE DEF OneEach
  <2> QED
      BY <2>1, <2>2, <2>4
<1> QED
    BY <1>1, <1>2, <1>3, <1>4, <1>5, <1>6, <1>7, <1>8, <1>9, Zenon DEF Next

\* A thread passes on all it holds in one step.
LEMMA IdleStep ==
    ASSUME IdleInv, Shapes, [Next]_vars
    PROVE  IdleInv'
<1> USE TrafficAssumption DEF IdleInv, Threads, Step, Shapes,
        vars, coreVars, byteVars, loopVars, addVars, accVars, rowVars, totVars, dataVars
<1>1. CASE Flush
    BY <1>1 DEF Flush
<1>2. CASE Rollup
    BY <1>2 DEF Rollup
<1>3. CASE \/ Tick \/ Carry \/ SetChainGroups \/ Wake \/ StopBegin \/ NotYet \/ StopBox \/ UNCHANGED vars
    BY <1>3 DEF Tick, Carry, SetChainGroups, Wake, StopBegin, NotYet, StopBox
<1>4. ASSUME NEW p \in Profiles, StartBox(p) PROVE IdleInv'
    BY <1>4 DEF StartBox
<1>5. ASSUME NEW p \in Profiles, CreditTest(p) PROVE IdleInv'
    BY <1>5 DEF CreditTest
<1>6. ASSUME NEW t \in {"loop", "stop"},
             Lock(t) \/ QueryStats(t) \/ Unlock(t) \/ TakeDirty(t) \/ SaveTotal(t)
      PROVE  IdleInv'
    BY <1>6 DEF Lock, QueryStats, Unlock, TakeDirty, SaveTotal
<1>7. ASSUME NEW t \in {"loop", "stop"}, Credit(t) PROVE IdleInv'
    BY <1>7 DEF Credit
<1>8. ASSUME NEW t \in Threads, AddConfigDelta(t) PROVE IdleInv'
    BY <1>8 DEF AddConfigDelta
<1>9. ASSUME NEW t \in Threads, WriteRows(t) PROVE IdleInv'
    BY <1>9 DEF WriteRows, AfterWrite
<1> QED
    BY <1>1, <1>2, <1>3, <1>4, <1>5, <1>6, <1>7, <1>8, <1>9, Zenon DEF Next

\* Bytes are counted one at a time.
LEMMA NumberStep ==
    ASSUME NumberInv, [Next]_vars
    PROVE  NumberInv'
<1> USE DEF vars, coreVars, byteVars, loopVars, addVars, accVars, rowVars, totVars, dataVars
<1>1. CASE Carry
    BY <1>1, NumberAdd DEF Carry
<1>2. ASSUME NEW p \in Profiles, CreditTest(p) PROVE NumberInv'
    BY <1>2, NumberAdd DEF CreditTest
<1>3. ASSUME counted' = counted PROVE NumberInv'
    BY <1>3 DEF NumberInv, Carried
<1>4. CASE \/ Tick \/ SetChainGroups \/ Wake \/ StopBegin \/ Flush \/ Rollup \/ NotYet \/ StopBox
           \/ UNCHANGED vars
    BY <1>4, <1>3 DEF Tick, SetChainGroups, Wake, StopBegin, Flush, Rollup, NotYet, StopBox
<1>5. ASSUME NEW p \in Profiles, StartBox(p) PROVE NumberInv'
    BY <1>5, <1>3 DEF StartBox
<1>6. ASSUME NEW t, \/ Lock(t) \/ QueryStats(t) \/ Credit(t) \/ Unlock(t) \/ TakeDirty(t) \/ SaveTotal(t)
                    \/ AddConfigDelta(t) \/ WriteRows(t)
      PROVE  NumberInv'
    BY <1>6, <1>3 DEF Lock, QueryStats, Credit, Unlock, TakeDirty, SaveTotal, AddConfigDelta,
       WriteRows
<1> QED
    BY <1>1, <1>2, <1>4, <1>5, <1>6, Zenon DEF Next

-----------------------------------------------------------------------------
(* What the partition says in numbers.                                     *)

LEMMA DisjointSum ==
    ASSUME NEW S, NEW T, IsFiniteSet(S), IsFiniteSet(T), S \cap T = {}
    PROVE  /\ IsFiniteSet(S \cup T)
           /\ Cardinality(S \cup T) = Cardinality(S) + Cardinality(T)
           /\ Cardinality(S) \in Nat /\ Cardinality(T) \in Nat
BY FS_Union, FS_EmptySet, FS_CardinalityType

LEMMA OneEachCount ==
    ASSUME NEW S, OneEach(S), IsFiniteSet(Bytes(S))
    PROVE  Cardinality(S) = Cardinality(Bytes(S))
<1> DEFINE f == [e \in S |-> e.byte]
<1>1. f \in Injection(S, Bytes(S)) /\ f \in Surjection(S, Bytes(S))
    BY DEF OneEach, Bytes, Injection, Surjection, IsInjective
<1> QED
    BY <1>1, FS_Injection

LEMMA CountedOnceFrom ==
    ASSUME PlaceInv, NumberInv, EntriesInv
    PROVE  CountedOnce
<1> DEFINE H(t) == (ans[t] \cup Bytes(adding[t])) \cup Bytes(hand[t])
<1>a. /\ <<"core", None>> \in Spots /\ <<"lost", None>> \in Spots /\ <<"accum", None>> \in Spots
      /\ <<"minutes", None>> \in Spots /\ <<"hours", None>> \in Spots
    BY SpotsAre DEF Shared
<1>b. ASSUME NEW t \in Threads
      PROVE  <<"ans", t>> \in Spots /\ <<"adding", t>> \in Spots /\ <<"hand", t>> \in Spots
    BY SpotsAre DEF Stages
<1>c. /\ \A q \in Spots : At[q] \subseteq counted
      /\ \A b \in counted : \E q \in Spots : b \in At[q]
      /\ \A j, q \in Spots : j # q => At[j] \cap At[q] = {}
    BY DEF PlaceInv, Partition
<1>1. /\ core \subseteq counted /\ lost \subseteq counted
      /\ Bytes(accum) \subseteq counted /\ Bytes(minutes) \subseteq counted /\ Bytes(hours) \subseteq counted
      /\ \A t \in Threads : ans[t] \subseteq counted /\ Bytes(adding[t]) \subseteq counted
                            /\ Bytes(hand[t]) \subseteq counted
  <2>1. At[<<"core", None>>] \subseteq counted /\ At[<<"lost", None>>] \subseteq counted
        /\ At[<<"accum", None>>] \subseteq counted /\ At[<<"minutes", None>>] \subseteq counted
        /\ At[<<"hours", None>>] \subseteq counted
      BY <1>a, <1>c
  <2>2. ASSUME NEW t \in Threads
        PROVE  ans[t] \subseteq counted /\ Bytes(adding[t]) \subseteq counted /\ Bytes(hand[t]) \subseteq counted
    <3>1. At[<<"ans", t>>] \subseteq counted /\ At[<<"adding", t>>] \subseteq counted
          /\ At[<<"hand", t>>] \subseteq counted
        BY <1>b, <1>c
    <3> QED
        BY <3>1, AtValues
  <2> QED
      BY <2>1, <2>2, AtValues
<1>2. ASSUME NEW b \in counted
      PROVE  \/ b \in core \/ b \in lost \/ b \in Bytes(accum) \/ b \in Bytes(minutes)
             \/ b \in Bytes(hours) \/ \E t \in Threads : b \in H(t)
  <2>1. PICK q \in Spots : b \in At[q]
      BY <1>c
  <2>2. CASE \E n \in Shared : q = <<n, None>>
      BY <2>1, <2>2, AtValues DEF Shared
  <2>3. ASSUME NEW n \in Stages, NEW t \in Threads, q = <<n, t>> PROVE b \in H(t)
    <3>1. n = "ans" \/ n = "adding" \/ n = "hand"
        BY DEF Stages
    <3> QED
        BY <2>1, <2>3, <3>1, AtValues
  <2> QED
      BY <2>2, <2>3, SpotsAre
<1>3. /\ core \cap lost = {}
      /\ \A t \in Threads : (core \cup lost) \cap H(t) = {}
      /\ \A t, u \in Threads : t # u => H(t) \cap H(u) = {}
      /\ \A t \in Threads : /\ ans[t] \cap Bytes(adding[t]) = {}
                            /\ (ans[t] \cup Bytes(adding[t])) \cap Bytes(hand[t]) = {}
      /\ (core \cup lost) \cap (Bytes(accum) \cup Bytes(minutes) \cup Bytes(hours)) = {}
      /\ \A t \in Threads : H(t) \cap (Bytes(accum) \cup Bytes(minutes) \cup Bytes(hours)) = {}
      /\ Bytes(accum) \cap Bytes(minutes) = {}
      /\ (Bytes(accum) \cup Bytes(minutes)) \cap Bytes(hours) = {}
  <2>1. /\ core \cap lost = {}
        /\ (core \cup lost) \cap (Bytes(accum) \cup Bytes(minutes) \cup Bytes(hours)) = {}
        /\ Bytes(accum) \cap Bytes(minutes) = {}
        /\ (Bytes(accum) \cup Bytes(minutes)) \cap Bytes(hours) = {}
      BY <1>a, <1>c, AtValues
  <2>2. ASSUME NEW t \in Threads
        PROVE  /\ ans[t] \cap Bytes(adding[t]) = {} /\ ans[t] \cap Bytes(hand[t]) = {}
               /\ Bytes(adding[t]) \cap Bytes(hand[t]) = {}
    <3>1. /\ At[<<"ans", t>>] \cap At[<<"adding", t>>] = {}
          /\ At[<<"ans", t>>] \cap At[<<"hand", t>>] = {}
          /\ At[<<"adding", t>>] \cap At[<<"hand", t>>] = {}
        BY <1>b, <1>c
    <3> QED
        BY <3>1, AtValues
  <2>3. ASSUME NEW t \in Threads, NEW n \in Stages, NEW m \in Shared
        PROVE  At[<<n, t>>] \cap At[<<m, None>>] = {}
      BY <1>c, SpotsAre DEF Stages, Shared
  <2>4. ASSUME NEW t \in Threads, NEW u \in Threads, t # u, NEW n \in Stages, NEW m \in Stages
        PROVE  At[<<n, t>>] \cap At[<<m, u>>] = {}
      BY <2>4, <1>c, SpotsAre
  <2>5. ASSUME NEW t \in Threads
        PROVE  H(t) = At[<<"ans", t>>] \cup At[<<"adding", t>>] \cup At[<<"hand", t>>]
      BY AtValues
  <2>6. ASSUME NEW t \in Threads, NEW m \in Shared PROVE H(t) \cap At[<<m, None>>] = {}
    <3>1. /\ /\ At[<<"ans", t>>] \cap At[<<m, None>>] = {}
          /\ At[<<"adding", t>>] \cap At[<<m, None>>] = {}
          /\ At[<<"hand", t>>] \cap At[<<m, None>>] = {}
        BY <2>3 DEF Stages
    <3> HIDE DEF H
    <3> QED
        BY <3>1, <2>5
  <2>7. ASSUME NEW t \in Threads, NEW u \in Threads, t # u PROVE H(t) \cap H(u) = {}
    <3>1. \A n \in Stages : \A m \in Stages : At[<<n, t>>] \cap At[<<m, u>>] = {}
        BY <2>4, <2>7
    <3> HIDE DEF H
    <3> QED
        BY <3>1, <2>5 DEF Stages
  <2>8. ASSUME NEW t \in Threads
        PROVE  /\ (core \cup lost) \cap H(t) = {}
               /\ H(t) \cap (Bytes(accum) \cup Bytes(minutes) \cup Bytes(hours)) = {}
    <3> HIDE DEF H
    <3>1. /\ H(t) \cap core = {} /\ H(t) \cap lost = {} /\ H(t) \cap Bytes(accum) = {}
          /\ H(t) \cap Bytes(minutes) = {} /\ H(t) \cap Bytes(hours) = {}
        BY <2>6, AtValues DEF Shared
    <3> QED
        BY <3>1
  <2> QED
      BY <2>1, <2>2, <2>7, <2>8
<1>4. ASSUME NEW S, S \subseteq counted PROVE IsFiniteSet(S) /\ Cardinality(S) \in Nat
    BY <1>4, FS_Subset, FS_CardinalityType DEF NumberInv
<1>5. \A t \in Threads : Cardinality(H(t)) = Held[t] /\ Held[t] \in Nat /\ H(t) \subseteq counted
  <2> SUFFICES ASSUME NEW t \in Threads
               PROVE Cardinality(H(t)) = Held[t] /\ Held[t] \in Nat /\ H(t) \subseteq counted
      OBVIOUS
  <2>1. Cardinality(adding[t]) = Cardinality(Bytes(adding[t]))
        /\ Cardinality(hand[t]) = Cardinality(Bytes(hand[t]))
      BY <1>1, <1>4, OneEachCount DEF EntriesInv
  <2>2. Cardinality(ans[t] \cup Bytes(adding[t])) = Cardinality(ans[t]) + Cardinality(Bytes(adding[t]))
      BY <1>1, <1>3, <1>4, DisjointSum
  <2>3. Cardinality(H(t)) = Cardinality(ans[t] \cup Bytes(adding[t])) + Cardinality(Bytes(hand[t]))
      BY <1>1, <1>3, <1>4, DisjointSum
  <2>4. /\ Cardinality(ans[t]) \in Nat
        /\ Cardinality(Bytes(adding[t])) \in Nat
        /\ Cardinality(Bytes(hand[t])) \in Nat
      BY <1>1, <1>4
  <2> QED
      BY <1>1, <2>1, <2>2, <2>3, <2>4 DEF Held
<1> DEFINE Old == core \cup lost
           Way == (H("loop") \cup H("stop")) \cup H("test")
           New == (Bytes(accum) \cup Bytes(minutes)) \cup Bytes(hours)
<1>6. Cardinality(Old) = Cardinality(core) + Cardinality(lost)
    BY <1>1, <1>3, <1>4, DisjointSum
<1>7. Cardinality(Way) = Held["loop"] + Held["stop"] + Held["test"]
  <2>0. {"loop", "stop", "test"} \subseteq Threads
      BY DEF Threads
  <2> HIDE DEF H
  <2>1. Cardinality(H("loop") \cup H("stop")) = Cardinality(H("loop")) + Cardinality(H("stop"))
      BY <2>0, <1>3, <1>4, <1>5, DisjointSum
  <2>2. Cardinality(Way) = Cardinality(H("loop") \cup H("stop")) + Cardinality(H("test"))
    <3>1. /\ (H("loop") \cup H("stop")) \cap H("test") = {}
          /\ (H("loop") \cup H("stop")) \subseteq counted
        BY <2>0, <1>3, <1>5
    <3> QED
        BY <2>0, <3>1, <1>4, <1>5, DisjointSum
  <2> QED
      BY <2>0, <2>1, <2>2, <1>5
<1>8. Cardinality(New) = Cardinality(accum) + Cardinality(minutes) + Cardinality(hours)
  <2>1. /\ Cardinality(accum) = Cardinality(Bytes(accum))
        /\ Cardinality(minutes) = Cardinality(Bytes(minutes))
        /\ Cardinality(hours) = Cardinality(Bytes(hours))
      BY <1>1, <1>4, OneEachCount DEF EntriesInv
  <2>2. Cardinality(Bytes(accum) \cup Bytes(minutes)) = Cardinality(Bytes(accum)) + Cardinality(Bytes(minutes))
      BY <1>1, <1>3, <1>4, DisjointSum
  <2>3. Cardinality(New) = Cardinality(Bytes(accum) \cup Bytes(minutes)) + Cardinality(Bytes(hours))
      BY <1>1, <1>3, <1>4, DisjointSum
  <2> QED
      BY <2>1, <2>2, <2>3
<1>9. counted = (Old \cup Way) \cup New
    BY <1>1, <1>2, <1>5 DEF Threads
<1>10. Old \cap Way = {} /\ (Old \cup Way) \cap New = {}
    BY <1>3 DEF Threads
<1>11. Cardinality(counted) = Cardinality(Old) + Cardinality(Way) + Cardinality(New)
  <2> HIDE DEF Old, Way, New
  <2>1. Old \subseteq counted /\ Way \subseteq counted /\ New \subseteq counted
      BY <1>9
  <2>2. Cardinality(Old \cup Way) = Cardinality(Old) + Cardinality(Way)
      BY <2>1, <1>4, <1>10, DisjointSum
  <2>3. Cardinality((Old \cup Way) \cup New) = Cardinality(Old \cup Way) + Cardinality(New)
    <3>1. (Old \cup Way) \subseteq counted
        BY <2>1
    <3> QED
        BY <2>1, <3>1, <1>4, <1>10, DisjointSum
  <2> QED
      BY <1>9, <2>2, <2>3
<1>12. (UNION Places) \cup {e.byte : e \in Entries} = counted
  <2>1. UNION Places = Old \cup UNION {ans[t] : t \in Threads}
      BY Zenon DEF Places
  <2>2. ASSUME NEW t \in Threads
        PROVE Bytes(adding[t] \cup hand[t]) \subseteq {e.byte : e \in Entries}
      BY Zenon DEF Entries, Bytes
  <2>3. New \subseteq {e.byte : e \in Entries}
      BY Zenon DEF Entries, Bytes
  <2>4. ASSUME NEW e \in Entries PROVE e.byte \in counted
    <3>1. \/ e \in UNION {adding[t] \cup hand[t] : t \in Threads}
          \/ e \in accum \/ e \in minutes \/ e \in hours
        BY Zenon DEF Entries
    <3>2. e \in UNION {adding[t] \cup hand[t] : t \in Threads}
             => \E t \in Threads : e \in adding[t] \/ e \in hand[t]
        BY Zenon
    <3> QED
        BY <3>1, <3>2, <1>1 DEF Bytes
  <2>5. ASSUME NEW t \in Threads PROVE H(t) \subseteq (UNION Places) \cup {e.byte : e \in Entries}
    <3>1. /\ Bytes(adding[t]) \subseteq {e.byte : e \in Entries}
          /\ Bytes(hand[t]) \subseteq {e.byte : e \in Entries}
        BY <2>2 DEF Bytes
    <3>2. ans[t] \subseteq UNION Places
        BY <2>1, Zenon
    <3> QED
        BY <3>1, <3>2
  <2>6. UNION Places \subseteq counted /\ Old \subseteq UNION Places
    <3>1. UNION {ans[t] : t \in Threads} \subseteq counted
        BY <1>1, Zenon
    <3> QED
        BY <3>1, <2>1, <1>1
  <2> QED
      BY <1>9, <2>3, <2>4, <2>5, <2>6 DEF Threads
<1>13. /\ Cardinality(core) \in Nat /\ Cardinality(lost) \in Nat /\ Cardinality(accum) \in Nat
       /\ Cardinality(minutes) \in Nat /\ Cardinality(hours) \in Nat
       /\ Held["loop"] \in Nat /\ Held["stop"] \in Nat /\ Held["test"] \in Nat
  <2>1. /\ Cardinality(accum) = Cardinality(Bytes(accum))
        /\ Cardinality(minutes) = Cardinality(Bytes(minutes))
        /\ Cardinality(hours) = Cardinality(Bytes(hours))
      BY <1>1, <1>4, OneEachCount DEF EntriesInv
  <2> QED
      BY <2>1, <1>1, <1>4, <1>5 DEF Threads
<1> HIDE DEF Old, Way, New
<1> QED
    BY <1>6, <1>7, <1>8, <1>11, <1>12, <1>13 DEF CountedOnce

CountInv == PlaceInv /\ NumberInv /\ EntriesInv /\ IdleInv

\* At first nothing was counted.
LEMMA InitCount == Init => CountInv
<1> SUFFICES ASSUME Init PROVE CountInv
    OBVIOUS
<1> USE DEF Init
<1>1. PlaceInv
  <2>1. \A q \in Spots : At[q] = {}
    <3>1. \A t \in Threads : adding[t] = {} /\ hand[t] = {} /\ ans[t] = {}
        OBVIOUS
    <3>2. \A n \in Shared : At[<<n, None>>] = {}
        BY AtValues, SameBytes DEF Shared
    <3>3. \A n \in Stages : \A t \in Threads : At[<<n, t>>] = {}
        BY <3>1, AtValues, SameBytes DEF Stages
    <3> QED
        BY <3>2, <3>3, SpotsAre
  <2> QED
      BY <2>1 DEF PlaceInv, Partition
<1>2. NumberInv
    BY FS_EmptySet DEF NumberInv
<1>3. EntriesInv /\ IdleInv
    BY DEF EntriesInv, IdleInv, OneEach
<1> QED
    BY <1>1, <1>2, <1>3 DEF CountInv

LEMMA NextCount == IInv /\ CountInv /\ [Next]_vars => CountInv'
<1> SUFFICES ASSUME IInv, CountInv, [Next]_vars PROVE CountInv'
    OBVIOUS
<1>1. Shapes
    BY DEF IInv, TypeOK, Shapes
<1>2. \A t \in Threads : ans[t] # {} => t # "test" /\ pc[t] = "credit"
    BY DEF IInv, AnsInv, Updaters
<1> QED
    BY <1>1, <1>2, PlaceStep, NumberStep, EntriesStep, IdleStep DEF CountInv

\* Every byte that was counted is at exactly one place, and the places hold as many
\* entries as there are bytes: nothing is lost but what a failed query, a refused row or
\* a box took with it, and nothing is credited twice.
THEOREM TrafficCountedOnce == Spec => []CountedOnce
<1>1. CountInv => CountedOnce
    BY CountedOnceFrom DEF CountInv
<1>2. Spec => []CountInv
    BY TrafficInvariant, InitCount, NextCount, PTL DEF Spec
<1> QED
    BY <1>1, <1>2, PTL

-----------------------------------------------------------------------------
(* The monitor of the auto selector.                                       *)

\* The monitor has counted no time without hope that the build did not have.
TimeInv == /\ quiet \in 0..Grace
           /\ exhausted # Nil => exhausted \in 0..quiet

LEMMA InitTime == SelectorInit => TimeInv
BY DEF SelectorInit, TimeInv, Grace

\* The steps that leave the clock of the monitor alone.
LEMMA OtherTime ==
    ASSUME TimeInv, UNCHANGED <<exhausted, quiet>>
    PROVE  TimeInv'
BY DEF TimeInv, Grace

\* A tick that the monitor counts, the build counts as well.
LEMMA GraceTime == TimeInv /\ GracePasses => TimeInv'
BY DEF TimeInv, GracePasses, Older, Grace

\* A status with hope starts both anew, one without it neither.
LEMMA JudgeTime ==
    ASSUME TimeInv, Judge
    PROVE  TimeInv' /\ (pollPc' = "fired" => quiet' >= Grace)
<1>1. quiet' = IF EverythingDead THEN quiet ELSE 0
    BY DEF Judge
<1>2. exhausted' = IF Fires THEN Nil ELSE ExhaustedSince
    BY DEF Judge
<1>3. pollPc' = IF Fires THEN "fired" ELSE "asleep"
    BY DEF Judge
<1>4. CASE EverythingDead
  <2>1. ExhaustedSince = IF exhausted = Nil THEN 0 ELSE exhausted
    BY <1>4 DEF ExhaustedSince
  <2>2. Fires => quiet >= Grace
    BY <2>1 DEF Fires, TimeInv, Grace
  <2> QED
    BY <1>1, <1>2, <1>3, <1>4, <2>1, <2>2 DEF TimeInv, Grace
<1>5. CASE ~EverythingDead
  <2>1. ExhaustedSince = Nil /\ ~Fires
    BY <1>5 DEF ExhaustedSince, Fires
  <2> QED
    BY <1>1, <1>2, <1>3, <1>5, <2>1 DEF TimeInv, Grace
<1> QED
    BY <1>4, <1>5

\* A stop, and a start that stops the selector first, forget the exhaustion.
LEMMA StopTime == TimeInv /\ (ClickStop \/ StartStops) => TimeInv'
<1> SUFFICES ASSUME TimeInv, ClickStop \/ StartStops PROVE TimeInv'
    OBVIOUS
<1>1. CASE StopClears
    BY <1>1 DEF TimeInv, StopClears, Clear, Grace
<1>2. CASE UNCHANGED monitorVars
    BY <1>2, OtherTime DEF monitorVars, buildVars
<1> QED
    BY <1>1, <1>2 DEF ClickStop, StartStops

\* A build that starts has been exhausted for no time.
LEMMA StartTime == TimeInv /\ StartPlan => TimeInv'
<1> SUFFICES ASSUME TimeInv, StartPlan PROVE TimeInv'
    OBVIOUS
<1>1. CASE SetBuild(plan)
    BY <1>1 DEF TimeInv, SetBuild, Grace
<1>2. CASE UNCHANGED monitorVars
    BY <1>2, OtherTime DEF monitorVars, buildVars
<1> QED
    BY <1>1, <1>2 DEF StartPlan

\* Steps that the monitor does not notice, or in which it only reads, sleeps or
\* reports; none of them gets the poll thread to "fired".
Unnoticed == UNCHANGED monitorVars /\ (pollPc' = "fired" => pollPc = "fired")

LEMMA TimeCases ==
    ASSUME SelectorNext
    PROVE  \/ Unnoticed \/ GracePasses \/ Judge
           \/ ClickStop \/ StartStops \/ StartPlan
<1> USE DEF Unnoticed, monitorVars, pollVars
<1>1. CASE User
    BY <1>1 DEF User, ClickStart, RankUnmeasured, Flip
<1>2. CASE MainWindow
    BY <1>2 DEF MainWindow, OnExhausted, Rank, Post,
                StopDone
<1>3. CASE poll
    BY <1>3 DEF poll, Query, Asleep, Report
<1>4. CASE \E i \in 1..Limit : Probe(i)
    BY <1>4 DEF Probe
<1>5. CASE \E m \in Members : Expire(m)
    BY <1>5 DEF Expire
<1> QED
    BY <1>1, <1>2, <1>3, <1>4, <1>5 DEF SelectorNext

\* No other step asks for a rebuild.
LEMMA OthersDoNotFire ==
    ASSUME \/ Unnoticed \/ GracePasses
           \/ ClickStop \/ StartStops \/ StartPlan,
           pollPc' = "fired"
    PROVE  pollPc = "fired"
BY DEF Unnoticed, GracePasses, ClickStop, StartStops, StartPlan,
       pollVars

LEMMA NextTime == TimeInv /\ [SelectorNext]_selectorVars => TimeInv'
<1> SUFFICES ASSUME TimeInv, [SelectorNext]_selectorVars PROVE TimeInv'
    OBVIOUS
<1>1. CASE Unnoticed
    BY <1>1, OtherTime DEF Unnoticed, monitorVars, buildVars
<1>2. CASE UNCHANGED selectorVars
    BY <1>2, OtherTime DEF selectorVars, monitorVars, buildVars
<1> QED
    BY <1>1, <1>2, TimeCases, GraceTime, JudgeTime, StopTime, StartTime

\* The monitor's clock never runs ahead of the build's.
THEOREM MonitorClock == SelectorSpec => []TimeInv
BY InitTime, NextTime, PTL DEF SelectorSpec

\* A rebuild is asked for only by a build that has been without hope for the
\* whole grace period, whatever builds, stops and statuses came before.
THEOREM RebuildEarned == SelectorSpec => RebuildIsEarned
<1>1. TimeInv /\ [SelectorNext]_selectorVars
        => (pollPc' = "fired" /\ pollPc # "fired" => quiet' >= Grace)
  <2> SUFFICES ASSUME TimeInv, [SelectorNext]_selectorVars,
                      pollPc' = "fired", pollPc # "fired"
               PROVE  quiet' >= Grace
      OBVIOUS
  <2>1. ~UNCHANGED selectorVars
      BY DEF selectorVars, pollVars
  <2>2. Judge
      BY <2>1, TimeCases, OthersDoNotFire
  <2> QED
      BY <2>2, JudgeTime
<1>2. TimeInv /\ [SelectorNext]_selectorVars
        => [pollPc' = "fired" /\ pollPc # "fired" => quiet' >= Grace]_selectorVars
    BY <1>1
<1> QED
    BY <1>2, MonitorClock, PTL DEF SelectorSpec, RebuildIsEarned


-----------------------------------------------------------------------------
(* Induction, recursive functions and sums. *)

\* A set of naturals has a least member.
LEMMA LeastMember ==
    ASSUME NEW T, T \subseteq Nat, T # {}
    PROVE  \E m \in T : \A n \in T : ~ (n < m)
<1> DEFINE R == {ss \in Nat \X Nat : ss[1] < ss[2]}
<1>1. IsWellFoundedOn(R, Nat)
  BY NatLessThanWellFounded DEF OpToRel
<1> HIDE DEF R
<1>2. \E x \in T : \A y \in T : ~ (<<y, x>> \in R)
  BY <1>1, WFMin
<1> QED
  BY <1>2 DEF R

\* Induction over the naturals, with a set for the formula.
LEMMA SetInduction ==
    ASSUME NEW T, 0 \in T, \A n \in Nat : n \in T => n + 1 \in T
    PROVE  Nat \subseteq T
<1> DEFINE B == {n \in Nat : n \notin T}
<1> SUFFICES ASSUME B # {} PROVE FALSE
  OBVIOUS
<1> HIDE DEF B
<1>1. PICK m \in B : \A n \in B : ~ (n < m)
  BY LeastMember DEF B
<1>2. m \in Nat /\ m # 0
  BY DEF B
<1>3. m - 1 \in Nat /\ m - 1 < m /\ (m - 1) + 1 = m
  BY <1>2
<1>4. m - 1 \in T
  BY <1>1, <1>3 DEF B
<1> QED
  BY <1>3, <1>4, <1>1 DEF B

\* A function on 0 .. N that is given by its first value and by how each value
\* comes from the one before.
Unfolds(f, N, B, b, G) ==
    f \in [0 .. N -> B] /\ f[0] = b /\ \A n \in 1 .. N : f[n] = G[n][f[n - 1]]

\* There is one if no step leaves the set.
LEMMA Recursion ==
    ASSUME NEW N \in Nat, NEW B, NEW b \in B, NEW G \in [1 .. N -> [B -> B]]
    PROVE  \E f : Unfolds(f, N, B, b, G)
<1> DEFINE Upon(l, f) == f[0] = b /\ \A n \in 1 .. l : f[n] = G[n][f[n - 1]]
           T == {n \in Nat : n <= N => \E f \in [0 .. n -> B] : Upon(n, f)}
<1>1. 0 \in T
  <2>1. Upon(0, [n \in 0 .. 0 |-> b]) /\ [n \in 0 .. 0 |-> b] \in [0 .. 0 -> B]
    OBVIOUS
  <2> QED
    BY <2>1
<1>2. ASSUME NEW l \in Nat, l \in T, l + 1 <= N
      PROVE \E g \in [0 .. l + 1 -> B] : Upon(l + 1, g)
  <2>1. PICK f \in [0 .. l -> B] : Upon(l, f)
    BY <1>2
  <2> DEFINE g == [n \in 0 .. l + 1 |-> IF n = l + 1 THEN G[l + 1][f[l]] ELSE f[n]]
  <2>2. G[l + 1][f[l]] \in B
    <3>1. l + 1 \in 1 .. N /\ f[l] \in B
      BY <1>2
    <3> QED
      BY <3>1
  <2>3. g \in [0 .. l + 1 -> B]
    BY <2>2
  <2>4. g[0] = b
    BY <2>1
  <2>5. ASSUME NEW n \in 1 .. l + 1 PROVE g[n] = G[n][g[n - 1]]
    <3>1. n - 1 \in 0 .. l /\ g[n - 1] = f[n - 1]
      OBVIOUS
    <3>2. CASE n = l + 1
      <4>1. n - 1 = l /\ g[n] = G[l + 1][f[l]]
        BY <3>2
      <4> QED
        BY <3>1, <3>2, <4>1
    <3>3. CASE n # l + 1
      <4>1. n \in 1 .. l /\ g[n] = f[n]
        BY <3>3
      <4> QED
        BY <2>1, <3>1, <4>1
    <3> QED
      BY <3>2, <3>3
  <2> QED
    BY <2>3, <2>4, <2>5
<1> HIDE DEF Upon
<1>3. \A n \in Nat : n \in T => n + 1 \in T
  BY <1>2
<1> HIDE DEF T
<1>4. N \in T
  BY <1>1, <1>3, SetInduction
<1> QED
  BY <1>4 DEF T, Upon, Unfolds

Adding(f, n) == [i \in 1 .. n |-> [v \in Nat |-> v + f[i]]]
Counts(f, n) == \A i \in 1 .. n : f[i] \in Nat

\* Total is the last of the sums.
LEMMA TotalUnfolds ==
    ASSUME NEW f, NEW n \in Nat, Counts(f, n)
    PROVE  \E s : Unfolds(s, n, Nat, 0, Adding(f, n)) /\ Total(f, n) = s[n]
<1> DEFINE sum[i \in 0 .. n] == IF i = 0 THEN 0 ELSE sum[i - 1] + f[i]
           Is(s) == s = [i \in 0 .. n |-> IF i = 0 THEN 0 ELSE s[i - 1] + f[i]]
<1>1. Adding(f, n) \in [1 .. n -> [Nat -> Nat]]
  BY DEF Adding, Counts
<1>2. PICK s : Unfolds(s, n, Nat, 0, Adding(f, n))
  <2> DEFINE B == Nat
             G == Adding(f, n)
  <2>1. 0 \in B /\ G \in [1 .. n -> [B -> B]]
    BY <1>1
  <2> HIDE DEF B, G
  <2>2. \E s : Unfolds(s, n, B, 0, G)
    BY <2>1, Recursion
  <2> QED
    BY <2>2 DEF B, G
<1>3. Is(s)
  <2>1. \A i \in 1 .. n : Adding(f, n)[i][s[i - 1]] = s[i - 1] + f[i]
    BY <1>2 DEF Adding, Unfolds
  <2>2. s = [i \in 0 .. n |-> s[i]]
    BY <1>2 DEF Unfolds
  <2>3. \A i \in 0 .. n : s[i] = IF i = 0 THEN 0 ELSE s[i - 1] + f[i]
    BY <1>2, <2>1 DEF Unfolds
  <2> QED
    BY <2>2, <2>3
<1>4. sum = CHOOSE s_1 : Is(s_1)
  BY DEF sum
<1> HIDE DEF sum
<1>5. Is(sum)
  <2> HIDE DEF Is
  <2> QED
    BY <1>3, <1>4
<1>6. Unfolds(sum, n, Nat, 0, Adding(f, n))
  <2>1. sum[0] = 0 /\ \A i \in 1 .. n : sum[i] = sum[i - 1] + f[i]
    BY <1>5
  <2> DEFINE T == {i \in Nat : i <= n => sum[i] \in Nat}
  <2>2. 0 \in T
    BY <2>1
  <2>3. ASSUME NEW i \in Nat, i \in T PROVE i + 1 \in T
    <3>1. CASE i + 1 <= n
      <4>1. i + 1 \in 1 .. n /\ (i + 1) - 1 = i
        BY <3>1
      <4>2. sum[i + 1] = sum[i] + f[i + 1] /\ f[i + 1] \in Nat /\ sum[i] \in Nat
        BY <2>1, <2>3, <4>1 DEF Counts
      <4> QED
        BY <4>2
    <3> QED
      BY <3>1
  <2> HIDE DEF T
  <2>4. \A i \in 0 .. n : sum[i] \in Nat
    <3>1. Nat \subseteq T
      BY <2>2, <2>3, SetInduction
    <3> QED
      BY <3>1 DEF T
  <2>5. sum \in [0 .. n -> Nat]
    BY <1>5, <2>4
  <2>6. \A i \in 1 .. n : Adding(f, n)[i][sum[i - 1]] = sum[i - 1] + f[i]
    BY <2>4 DEF Adding
  <2> QED
    BY <2>1, <2>5, <2>6 DEF Unfolds
<1>7. Total(f, n) = sum[n]
  BY DEF Total, sum
<1> QED
  BY <1>6, <1>7

\* Two ways to sum agree as far as both go.
LEMMA SumsAgree ==
    ASSUME NEW f, NEW n \in Nat, NEW m \in 0 .. n, Counts(f, n), NEW s, NEW t,
           Unfolds(s, n, Nat, 0, Adding(f, n)), Unfolds(t, m, Nat, 0, Adding(f, m))
    PROVE  t[m] = s[m]
<1> DEFINE T == {i \in Nat : i <= m => t[i] = s[i]}
<1>1. 0 \in T
  BY DEF Unfolds
<1>2. ASSUME NEW i \in Nat, i \in T PROVE i + 1 \in T
  <2>1. CASE i + 1 <= m
    <3>1. i + 1 \in 1 .. m /\ i + 1 \in 1 .. n /\ (i + 1) - 1 = i /\ i \in 0 .. m
      BY <2>1
    <3>2. s[i + 1] = s[i] + f[i + 1] /\ t[i + 1] = t[i] + f[i + 1]
      <4>1. s[i] \in Nat /\ t[i] \in Nat
        BY <3>1 DEF Unfolds
      <4>2. Adding(f, n)[i + 1][s[i]] = s[i] + f[i + 1] /\ Adding(f, m)[i + 1][t[i]] = t[i] + f[i + 1]
        BY <3>1, <4>1 DEF Adding
      <4> QED
        BY <3>1, <4>2 DEF Unfolds
    <3> QED
      BY <3>2, <1>2, <3>1
  <2> QED
    BY <2>1
<1> HIDE DEF T
<1>3. Nat \subseteq T
  BY <1>1, <1>2, SetInduction
<1> QED
  BY <1>3 DEF T

\* What Total is.
LEMMA TotalIs ==
    ASSUME NEW f, NEW n \in Nat, Counts(f, n)
    PROVE  /\ Total(f, 0) = 0
           /\ \A i \in 0 .. n : Total(f, i) \in Nat
           /\ \A i \in 1 .. n : Total(f, i) = Total(f, i - 1) + f[i]
<1>1. PICK s : Unfolds(s, n, Nat, 0, Adding(f, n))
  BY TotalUnfolds
<1>2. ASSUME NEW i \in 0 .. n PROVE Total(f, i) = s[i]
  <2>1. Counts(f, i) /\ i \in Nat
    BY DEF Counts
  <2>2. PICK t : Unfolds(t, i, Nat, 0, Adding(f, i)) /\ Total(f, i) = t[i]
    BY <2>1, TotalUnfolds
  <2> QED
    BY <1>1, <2>2, SumsAgree
<1>3. ASSUME NEW i \in 1 .. n PROVE s[i] = s[i - 1] + f[i]
  <2>1. s[i - 1] \in Nat /\ s[i] = Adding(f, n)[i][s[i - 1]]
    BY <1>1 DEF Unfolds
  <2> QED
    BY <2>1 DEF Adding
<1> QED
  BY <1>1, <1>2, <1>3 DEF Unfolds

\* A longer sum is no smaller.
LEMMA TotalGrows ==
    ASSUME NEW f, NEW n \in Nat, Counts(f, n), NEW i \in 0 .. n
    PROVE  Total(f, i) <= Total(f, n)
<1> DEFINE T == {j \in Nat : j <= n /\ i <= j => Total(f, i) <= Total(f, j)}
<1>1. 0 \in T
  BY TotalIs
<1>2. ASSUME NEW j \in Nat, j \in T PROVE j + 1 \in T
  <2>1. CASE j + 1 <= n /\ i <= j
    <3>1. j + 1 \in 1 .. n /\ j \in 0 .. n /\ (j + 1) - 1 = j /\ f[j + 1] \in Nat
      BY <2>1 DEF Counts
    <3>2. Total(f, j + 1) = Total(f, j) + f[j + 1] /\ Total(f, j) \in Nat /\ Total(f, i) \in Nat
      BY <3>1, TotalIs
    <3> HIDE DEF T
    <3>3. Total(f, i) <= Total(f, j)
      BY <1>2, <2>1, <3>1 DEF T
    <3> QED
      BY <3>2, <3>3, <3>1 DEF T
  <2>2. CASE i = j + 1
    BY <2>2, TotalIs
  <2> QED
    BY <2>1, <2>2
<1> HIDE DEF T
<1>3. Nat \subseteq T
  BY <1>1, <1>2, SetInduction
<1> QED
  BY <1>3 DEF T


-----------------------------------------------------------------------------
(* Tags and the parts of a chain. *)

Words == {"proxy", "warp-bypass", "config", "route", "pool", "xrayfull"} \cup Nat
TagNames == Seq(Words)
TagPrefixes == Seq(Words) \ {<<>>}
Hops == Kinds \cup {Warp}
Credits == Hops \cup {Ent} \cup Wrappers
Outs == [tag : TagNames, hop : Hops \cup {Bridge, Ent}, port : Nat, detour : TagNames]

\* The tag of a hop tells its prefix and its index, and is no name of its own.
LEMMA HopTagIs ==
    ASSUME NEW p \in TagPrefixes, NEW i \in Nat
    PROVE  /\ HopTag(p, i) \in TagNames
           /\ HopTag(p, i) \notin {NoTag, Proxy, WarpBypass}
           /\ \A q \in TagPrefixes, j \in Nat : HopTag(p, i) = HopTag(q, j) => p = q /\ i = j
<1>1. p \in Seq(Words) /\ i \in Words /\ Len(p) \in Nat \ {0}
  BY EmptySeq DEF TagPrefixes, Words
<1>2. /\ HopTag(p, i) \in Seq(Words) /\ Len(HopTag(p, i)) = Len(p) + 1
      /\ HopTag(p, i)[Len(p) + 1] = i /\ \A n \in 1 .. Len(p) : HopTag(p, i)[n] = p[n]
  BY <1>1 DEF HopTag
<1>3. Len(NoTag) = 0 /\ Len(Proxy) = 1 /\ Len(WarpBypass) = 1
  BY DEF NoTag, Proxy, WarpBypass
<1>4. ASSUME NEW q \in TagPrefixes, NEW j \in Nat, HopTag(p, i) = HopTag(q, j)
      PROVE  p = q /\ i = j
  <2>1. q \in Seq(Words) /\ j \in Words /\ Len(q) \in Nat
    BY LenProperties DEF TagPrefixes, Words
  <2>2. /\ Len(HopTag(q, j)) = Len(q) + 1 /\ HopTag(q, j)[Len(q) + 1] = j
        /\ \A n \in 1 .. Len(q) : HopTag(q, j)[n] = q[n]
    BY <2>1 DEF HopTag
  <2>3. Len(p) = Len(q)
    BY <1>1, <1>2, <2>1, <2>2, <1>4
  <2>4. \A n \in 1 .. Len(p) : p[n] = q[n]
    BY <1>2, <2>2, <2>3, <1>4
  <2>5. p = q
    BY <1>1, <2>1, <2>3, <2>4, SeqEqual
  <2> QED
    BY <1>2, <2>2, <2>3, <2>5, <1>4
<1> QED
  BY <1>1, <1>2, <1>3, <1>4 DEF TagNames

\* The tags with a name of their own differ.
LEMMA OwnNames ==
    /\ NoTag \in TagNames /\ Proxy \in TagNames /\ WarpBypass \in TagNames
    /\ Proxy # NoTag /\ WarpBypass # NoTag /\ Proxy # WarpBypass
<1>1. "proxy" \in Words /\ "warp-bypass" \in Words
  BY DEF Words
<1>2. Len(NoTag) = 0 /\ Len(Proxy) = 1 /\ Len(WarpBypass) = 1 /\ Proxy[1] # WarpBypass[1]
  BY DEF NoTag, Proxy, WarpBypass
<1> QED
  BY <1>1, <1>2 DEF NoTag, Proxy, WarpBypass, TagNames

\* The prefixes of the chains of a build differ.
LEMMA PrefixesAre ==
    /\ <<"config">> \in TagPrefixes /\ <<"route">> \in TagPrefixes /\ <<"config">> # <<"route">>
    /\ \A i \in Nat : /\ <<"pool", i>> \in TagPrefixes /\ <<"proxy", i>> \in TagPrefixes
                      /\ <<"xrayfull", i>> \in TagPrefixes
                      /\ {<<"pool", i>>, <<"proxy", i>>, <<"xrayfull", i>>} \cap {<<"config">>, <<"route">>} = {}
    /\ \A i, j \in Nat : /\ <<"pool", i>> = <<"pool", j>> => i = j
                         /\ <<"proxy", i>> = <<"proxy", j>> => i = j
                         /\ <<"xrayfull", i>> = <<"xrayfull", j>> => i = j
                         /\ <<"pool", i>> # <<"proxy", j>> /\ <<"pool", i>> # <<"xrayfull", j>>
                         /\ <<"proxy", i>> # <<"xrayfull", j>>
<1>1. /\ "config" \in Words /\ "route" \in Words /\ "pool" \in Words /\ "proxy" \in Words
      /\ "xrayfull" \in Words /\ Nat \subseteq Words
  BY DEF Words
<1>2. ASSUME NEW x \in Words PROVE <<x>> \in TagPrefixes
  <2>1. <<x>> \in Seq(Words) /\ Len(<<x>>) = 1 /\ Len(<<>>) = 0
    OBVIOUS
  <2> QED
    BY <2>1 DEF TagPrefixes
<1>3. ASSUME NEW x \in Words, NEW y \in Words PROVE <<x, y>> \in TagPrefixes
  <2>1. <<x, y>> \in Seq(Words) /\ Len(<<x, y>>) = 2 /\ Len(<<>>) = 0
    OBVIOUS
  <2> QED
    BY <2>1 DEF TagPrefixes
<1>4. ASSUME NEW x, NEW y, NEW v PROVE <<x, y>> # <<v>>
  <2>1. Len(<<x, y>>) = 2 /\ Len(<<v>>) = 1
    OBVIOUS
  <2> QED
    BY <2>1
<1>5. ASSUME NEW i \in Nat, NEW j \in Nat
      PROVE  /\ <<"pool", i>> = <<"pool", j>> => i = j
             /\ <<"proxy", i>> = <<"proxy", j>> => i = j
             /\ <<"xrayfull", i>> = <<"xrayfull", j>> => i = j
             /\ <<"pool", i>> # <<"proxy", j>> /\ <<"pool", i>> # <<"xrayfull", j>>
             /\ <<"proxy", i>> # <<"xrayfull", j>>
  OBVIOUS
<1>6. ASSUME NEW i \in Nat
      PROVE  {<<"pool", i>>, <<"proxy", i>>, <<"xrayfull", i>>} \cap {<<"config">>, <<"route">>} = {}
  BY <1>4
<1>7. <<"config">> # <<"route">>
  OBVIOUS
<1> QED
  BY <1>1, <1>2, <1>3, <1>5, <1>6, <1>7

\* Where a chain turns next.
LEMMA TurnIs ==
    ASSUME NEW S, NEW hops \in Seq(S), NEW from \in 1 .. Len(hops) + 1, NEW xray \in BOOLEAN
    PROVE  LET i == Turn(hops, from, xray)
           IN  /\ i \in from .. Len(hops) + 1
               /\ i <= Len(hops) => (IsXray(hops[i]) <=> xray)
               /\ \A j \in from .. i - 1 : IsXray(hops[j]) <=> ~xray
<1> DEFINE Here(i) == i > Len(hops) \/ (IsXray(hops[i]) <=> xray)
           T == {i \in from .. Len(hops) + 1 : Here(i)}
           Is(i) == Here(i) /\ \A j \in from .. i - 1 : IsXray(hops[j]) <=> ~xray
<1>1. Len(hops) \in Nat
  BY LenProperties
<1>2. Len(hops) + 1 \in T /\ T \subseteq Nat
  BY <1>1
<1>3. PICK i \in T : \A j \in T : ~ (j < i)
  <2> HIDE DEF T
  <2> QED
    BY <1>2, LeastMember
<1>4. \A j \in from .. i - 1 : j \in from .. Len(hops) + 1 /\ j < i /\ j \notin T
  BY <1>1, <1>3
<1>5. Is(i) /\ i \in from .. Len(hops) + 1
  BY <1>3, <1>4
<1>6. Turn(hops, from, xray) = CHOOSE i_1 \in from .. Len(hops) + 1 : Is(i_1)
  BY DEF Turn
<1> HIDE DEF Is
<1>7. Is(Turn(hops, from, xray)) /\ Turn(hops, from, xray) \in from .. Len(hops) + 1
  BY <1>5, <1>6
<1> USE DEF Is
<1> QED
  BY <1>1, <1>7

\* Three different members are three.
LEMMA ThreeMembers ==
    ASSUME NEW x, NEW y, NEW z, x # y, x # z, y # z
    PROVE  Cardinality({x, y, z}) = 3
<1> DEFINE one == {x}
           two == one \cup {y}
<1>1. IsFiniteSet(one) /\ Cardinality(one) = 1
  BY FS_Singleton
<1>2. y \notin one /\ z \notin two /\ {x, y, z} = two \cup {z}
  OBVIOUS
<1>3. IsFiniteSet(two) /\ Cardinality(two) = 2
  <2> HIDE DEF one
  <2> QED
    BY <1>1, <1>2, FS_AddElement
<1> HIDE DEF two
<1> QED
  BY <1>2, <1>3, FS_AddElement

\* A chain that passes the scan is in sing-box before its first Xray hop, in Xray from there
\* to the next sing-box hop, and in sing-box after it.
Parts(hops) ==
    LET a == FirstXray(hops)
        z == FirstBack(hops)
    IN  /\ a \in 1 .. Len(hops) + 1 /\ z \in a .. Len(hops) + 1
        /\ a <= Len(hops) => a < z
        /\ \A i \in 1 .. a - 1 : ~IsXray(hops[i])
        /\ \A i \in a .. z - 1 : IsXray(hops[i])
        /\ \A i \in z .. Len(hops) : ~IsXray(hops[i])
        /\ SingToXray(hops) <=> a <= Len(hops)
        /\ XrayToSing(hops) <=> z <= Len(hops)

\* A chain that changes cores at most twice has three parts.
LEMMA PartsAre ==
    ASSUME NEW S, NEW hops \in Seq(S), Cardinality(Transitions(hops)) <= 2
    PROVE  Parts(hops)
<1> DEFINE a == FirstXray(hops)
           z == FirstBack(hops)
           L == Len(hops)
<1>1. L \in Nat /\ DOMAIN hops = 1 .. L
  BY LenProperties
<1>2. /\ a \in 1 .. L + 1
      /\ a <= L => IsXray(hops[a])
      /\ \A j \in 1 .. a - 1 : ~IsXray(hops[j])
  <2>1. 1 \in 1 .. L + 1 /\ TRUE \in BOOLEAN
    BY <1>1
  <2>2. LET i == Turn(hops, 1, TRUE)
        IN  /\ i \in 1 .. Len(hops) + 1
            /\ i <= Len(hops) => (IsXray(hops[i]) <=> TRUE)
            /\ \A j \in 1 .. i - 1 : IsXray(hops[j]) <=> ~TRUE
    BY <2>1, TurnIs
  <2> QED
    BY <2>2 DEF FirstXray, IsXray
<1>3. /\ z \in a .. L + 1
      /\ z <= L => ~IsXray(hops[z])
      /\ \A j \in a .. z - 1 : IsXray(hops[j])
  <2>1. a \in 1 .. L + 1 /\ FALSE \in BOOLEAN
    BY <1>2
  <2>2. LET i == Turn(hops, FirstXray(hops), FALSE)
        IN  /\ i \in FirstXray(hops) .. Len(hops) + 1
            /\ i <= Len(hops) => (IsXray(hops[i]) <=> FALSE)
            /\ \A j \in FirstXray(hops) .. i - 1 : IsXray(hops[j]) <=> ~FALSE
    BY <2>1, TurnIs
  <2> QED
    BY <2>2 DEF FirstBack, IsXray
<1> HIDE DEF a, z, L
<1>4. a <= L => a < z
  BY <1>1, <1>2, <1>3
<1>5. \A i \in 1 .. L : i \in Transitions(hops) <=> (IsXray(hops[i]) # (i > 1 /\ IsXray(hops[i - 1])))
  BY <1>1 DEF Transitions
<1>6. Transitions(hops) \subseteq 1 .. L /\ IsFiniteSet(Transitions(hops))
  <2>1. Transitions(hops) \subseteq 1 .. L
    BY <1>1 DEF Transitions
  <2>2. IsFiniteSet(1 .. L)
    BY <1>1, FS_Interval
  <2> QED
    BY <2>1, <2>2, FS_Subset
<1>7. a <= L => a \in Transitions(hops)
  <2> SUFFICES ASSUME a <= L PROVE a \in Transitions(hops)
    OBVIOUS
  <2>1. a \in 1 .. L /\ IsXray(hops[a]) /\ (a > 1 => ~IsXray(hops[a - 1]))
    BY <1>1, <1>2
  <2> QED
    BY <1>5, <2>1 DEF IsXray
<1>8. z <= L => z \in Transitions(hops) /\ a < z
  <2> SUFFICES ASSUME z <= L PROVE z \in Transitions(hops) /\ a < z
    OBVIOUS
  <2>1. z \in 1 .. L /\ ~IsXray(hops[z]) /\ z > 1 /\ IsXray(hops[z - 1]) /\ a < z
    BY <1>1, <1>2, <1>3, <1>4
  <2> QED
    BY <1>5, <2>1 DEF IsXray
<1>9. ASSUME NEW w \in z .. L, IsXray(hops[w]) PROVE FALSE
  <2> DEFINE T == {i \in z .. L : IsXray(hops[i])}
  <2>1. w \in T /\ T \subseteq Nat
    BY <1>1, <1>2, <1>3, <1>9
  <2>2. PICK m \in T : \A i \in T : ~ (i < m)
    <3> HIDE DEF T
    <3> QED
      BY <2>1, LeastMember
  <2>3. m \in z .. L /\ IsXray(hops[m]) /\ z <= L
    BY <1>1, <1>2, <1>3
  <2>4. m # z
    BY <2>3, <1>3
  <2>5. m - 1 \in z .. L /\ m - 1 < m /\ m - 1 \notin T
    BY <2>2, <2>3, <2>4, <1>1, <1>2, <1>3
  <2>6. ~IsXray(hops[m - 1]) /\ m \in 1 .. L
    BY <2>5, <2>3, <1>1, <1>2, <1>3
  <2>7. m \in Transitions(hops)
    BY <1>5, <2>3, <2>6 DEF IsXray
  <2>8. {a, z, m} \subseteq Transitions(hops) /\ a # z /\ z # m /\ a # m
    BY <1>7, <1>8, <2>3, <2>4, <2>7, <1>1, <1>2, <1>3
  <2>9. Cardinality({a, z, m}) = 3
    BY <2>8, ThreeMembers
  <2>10. Cardinality({a, z, m}) <= Cardinality(Transitions(hops)) /\ Cardinality(Transitions(hops)) \in Nat
    BY <2>8, <1>6, FS_Subset, FS_CardinalityType
  <2> QED
    BY <2>9, <2>10
<1>10. SingToXray(hops) <=> a <= L
  <2>1. ASSUME NEW i \in Transitions(hops), IsXray(hops[i]), ~ (a <= L) PROVE FALSE
    <3>1. i \in 1 .. L /\ i \in 1 .. a - 1
      BY <1>1, <1>2, <1>6, <2>1
    <3> QED
      BY <3>1, <1>2, <2>1
  <2> QED
    BY <2>1, <1>2, <1>7 DEF SingToXray
<1>11. XrayToSing(hops) <=> z <= L
  <2>1. ASSUME NEW i \in Transitions(hops), ~IsXray(hops[i]), ~ (z <= L) PROVE FALSE
    <3>1. i \in 1 .. L /\ i > 1 /\ IsXray(hops[i - 1])
      BY <1>5, <1>6, <2>1 DEF IsXray
    <3>2. i \in 1 .. a - 1 /\ i - 1 \in 1 .. a - 1
      BY <3>1, <2>1, <1>1, <1>2, <1>3
    <3> QED
      BY <3>1, <3>2, <1>2
  <2>2. z <= L => z \in Transitions(hops) /\ IsSing(hops[z])
    BY <1>8, <1>3 DEF IsSing, IsXray
  <2>3. \A i \in Transitions(hops) : IsSing(hops[i]) <=> ~IsXray(hops[i])
    BY DEF IsSing, IsXray
  <2> QED
    BY <2>1, <2>2, <2>3 DEF XrayToSing
<1> QED
  BY <1>2, <1>3, <1>4, <1>9, <1>10, <1>11 DEF Parts, a, z, L


-----------------------------------------------------------------------------
(* What buildOutboundChain puts into the lists. *)

Requests == [hops : Seq(Hops), prefix : TagPrefixes, startSuffix : Nat, credit : Seq(Credits),
             includeProxy : BOOLEAN, link : BOOLEAN, warpWrap : BOOLEAN]
IsRequest(req) ==
    /\ req \in Requests /\ req.hops # <<>>
    /\ req.link \/ Len(req.hops) = 1
    /\ req.warpWrap => req.includeProxy /\ Len(req.hops) >= 2 /\ ~IsXray(req.hops[1])
PortRecords == [singToXray : Nat, xrayToSing : Nat, full : Nat]
Ents == (Hops \cup {Bridge}) \X Nat

\* The record's parts.
LEMMA OutboundIs ==
    ASSUME NEW tag, NEW hop, NEW port, NEW detour, NEW o, o = Outbound(tag, hop, port, detour),
           tag \in TagNames, hop \in Hops \cup {Bridge, Ent}, port \in Nat, detour \in TagNames
    PROVE  o \in Outs /\ o.tag = tag /\ o.hop = hop /\ o.port = port /\ o.detour = detour
<1> HIDE DEF TagNames, Hops
<1> QED
  BY DEF Outbound, Outs

\* The tag of the hop with an index, and that in sing-box, where warp may wrap the second one.
PlainTag(req, i) ==
    IF req.includeProxy /\ i = 1 THEN Proxy ELSE HopTag(req.prefix, req.startSuffix + i - 1)
WrappedTag(req, i) == IF req.warpWrap /\ i = 2 THEN WarpBypass ELSE PlainTag(req, i)

\* The tag of a hop, with and without what warp wraps.
LEMMA TagOfIs ==
    ASSUME NEW req \in Requests, NEW i \in Nat, i # 0
    PROVE  /\ TagOf(req, i) = WrappedTag(req, i)
           /\ TagOf([req EXCEPT !.warpWrap = FALSE], i) = PlainTag(req, i)
           /\ PlainTag(req, i) \in TagNames /\ PlainTag(req, i) # NoTag
           /\ WrappedTag(req, i) \in TagNames /\ WrappedTag(req, i) # NoTag
<1>1. req.prefix \in TagPrefixes /\ req.startSuffix + i - 1 \in Nat
  BY DEF Requests
<1>2. HopTag(req.prefix, req.startSuffix + i - 1) \in TagNames \ {NoTag}
  BY <1>1, HopTagIs
<1>3. TagOf(req, i) = WrappedTag(req, i)
  BY DEF TagOf, WrappedTag, PlainTag
<1>4. TagOf([req EXCEPT !.warpWrap = FALSE], i) = PlainTag(req, i)
  BY DEF TagOf, PlainTag, Requests
<1>5. PlainTag(req, i) \in TagNames /\ PlainTag(req, i) # NoTag
  BY <1>2, OwnNames DEF PlainTag
<1> QED
  BY <1>3, <1>4, <1>5, OwnNames DEF WrappedTag

\* A chain is known by the tag of its first hop.
LEMMA IngressTagIs ==
    ASSUME NEW req \in Requests
    PROVE  /\ IngressTag(req) = PlainTag(req, 1) /\ IngressTag(req) = WrappedTag(req, 1)
           /\ IngressTag(req) \in TagNames /\ IngressTag(req) # NoTag
<1>1. req.startSuffix \in Nat /\ req.startSuffix + 1 - 1 = req.startSuffix
  BY DEF Requests
<1>2. IngressTag(req) = PlainTag(req, 1) /\ IngressTag(req) = WrappedTag(req, 1)
  BY <1>1 DEF IngressTag, PlainTag, WrappedTag
<1>3. 1 \in Nat /\ 1 # 0
  OBVIOUS
<1>4. PlainTag(req, 1) \in TagNames /\ PlainTag(req, 1) # NoTag
  BY <1>3, TagOfIs
<1> QED
  BY <1>2, <1>4

\* The hops before Xray, with the bridge.
LEMMA LeadingIs ==
    ASSUME NEW hops \in Seq(Hops), Parts(hops), NEW p \in PortRecords
    PROVE  LET a == FirstXray(hops)
               ents == LeadingEnts(hops, p)
           IN  /\ ents \in Seq(Ents)
               /\ Len(ents) = IF a <= Len(hops) THEN a ELSE a - 1
               /\ \A i \in 1 .. a - 1 : /\ ents[i][1] = hops[i]
                                        /\ hops[i] \in Full => ents[i][2] = p.full
               /\ a <= Len(hops) => ents[a][1] = Bridge /\ ents[a][2] = p.singToXray
<1> DEFINE a == FirstXray(hops)
           own == [i \in DOMAIN Leading(hops) |->
                      <<Leading(hops)[i], IF Leading(hops)[i] \in Full THEN p.full ELSE 0>>]
           rest == IF SingToXray(hops) THEN <<<<Bridge, p.singToXray>>>> ELSE <<>>
<1>1. Len(hops) \in Nat /\ a \in 1 .. Len(hops) + 1 /\ a - 1 \in Nat /\ a \in Nat
  BY LenProperties DEF Parts
<1>2. (SingToXray(hops) <=> a <= Len(hops))
  BY DEF Parts
<1>3. \A i \in 1 .. a - 1 : hops[i] \in Hops
  BY <1>1, ElementOfSeq
<1> HIDE DEF a
<1>4. /\ Leading(hops) \in Seq(Hops) /\ Len(Leading(hops)) = a - 1
      /\ \A i \in 1 .. a - 1 : Leading(hops)[i] = hops[i]
  <2>1. /\ SubSeq(hops, 1, a - 1) \in Seq(Hops)
        /\ Len(SubSeq(hops, 1, a - 1)) = IF 1 <= a - 1 THEN (a - 1) - 1 + 1 ELSE 0
        /\ \A i \in 1 .. (a - 1) - 1 + 1 : SubSeq(hops, 1, a - 1)[i] = hops[1 + i - 1]
    BY <1>1, <1>3, SubSeqProperties
  <2> QED
    BY <2>1, <1>1 DEF Leading, a
<1>5. DOMAIN Leading(hops) = 1 .. a - 1
  BY <1>4, LenProperties
<1>6. p.full \in Nat /\ p.singToXray \in Nat
  BY DEF PortRecords
<1>7. \A i \in 1 .. a - 1 : /\ own[i] \in Ents /\ own[i][1] = hops[i]
                            /\ hops[i] \in Full => own[i][2] = p.full
  BY <1>3, <1>4, <1>5, <1>6 DEF Ents
<1>8. own \in Seq(Ents) /\ Len(own) = a - 1
  <2>1. own = [i \in 1 .. a - 1 |-> own[i]]
    BY <1>5
  <2>2. \A i \in 1 .. a - 1 : own[i] \in Ents
    BY <1>7
  <2> HIDE DEF own, Ents
  <2> QED
    BY <2>1, <2>2, <1>1
<1>9. rest \in Seq(Ents) /\ Len(rest) = (IF a <= Len(hops) THEN 1 ELSE 0)
      /\ (a <= Len(hops) => rest[1] = <<Bridge, p.singToXray>>)
  <2>1. <<Bridge, p.singToXray>> \in Ents
    BY <1>6 DEF Ents
  <2> HIDE DEF Ents
  <2> QED
    BY <2>1, <1>2
<1>10. LeadingEnts(hops, p) = own \o rest
  BY DEF LeadingEnts
<1> HIDE DEF own, rest
<1>11. /\ own \o rest \in Seq(Ents) /\ Len(own \o rest) = Len(own) + Len(rest)
       /\ \A i \in 1 .. Len(own) + Len(rest) :
             (own \o rest)[i] = IF i <= Len(own) THEN own[i] ELSE rest[i - Len(own)]
  BY <1>8, <1>9, ConcatProperties
<1>12. \A i \in 1 .. a - 1 : (own \o rest)[i] = own[i]
  BY <1>1, <1>8, <1>9, <1>11
<1>13. a <= Len(hops) => (own \o rest)[a] = <<Bridge, p.singToXray>>
  BY <1>1, <1>8, <1>9, <1>11
<1> DEFINE s == own \o rest
<1>14. s \in Seq(Ents) /\ Len(s) = IF a <= Len(hops) THEN a ELSE a - 1
  BY <1>1, <1>8, <1>9, <1>11
<1>15. LeadingEnts(hops, p) = s /\ (\A i \in 1 .. a - 1 : s[i] = own[i])
       /\ (a <= Len(hops) => s[a] = <<Bridge, p.singToXray>>)
  BY <1>10, <1>12, <1>13
<1>16. <<Bridge, p.singToXray>>[1] = Bridge /\ <<Bridge, p.singToXray>>[2] = p.singToXray
  OBVIOUS
<1> HIDE DEF s
<1> QED
  BY <1>7, <1>14, <1>15, <1>16 DEF a

\* The outbounds of a part in sing-box.
LEMMA SingboxChainIs ==
    ASSUME NEW req \in Requests, NEW ents \in Seq(Ents)
    PROVE  LET s == SingboxChain(req, ents)
           IN  /\ s \in Seq(Outs) /\ Len(s) = Len(ents)
               /\ \A i \in 1 .. Len(ents) :
                     /\ s[i].tag = WrappedTag(req, i)
                     /\ s[i].hop = ents[i][1] /\ s[i].port = ents[i][2]
                     /\ s[i].detour = IF req.warpWrap /\ i = 1 THEN WarpBypass
                                      ELSE IF i < Len(ents) /\ req.link
                                           THEN HopTag(req.prefix, req.startSuffix + i) ELSE NoTag
<1> DEFINE s == SingboxChain(req, ents)
           detour(i) == IF req.warpWrap /\ i = 1 THEN WarpBypass
                        ELSE IF i < Len(ents) /\ req.link
                             THEN HopTag(req.prefix, req.startSuffix + i) ELSE NoTag
<1>1. Len(ents) \in Nat /\ DOMAIN ents = 1 .. Len(ents)
  BY LenProperties
<1>2. ASSUME NEW i \in 1 .. Len(ents)
      PROVE  s[i] = Outbound(WrappedTag(req, i), ents[i][1], ents[i][2], detour(i))
  <2>1. i \in Nat /\ i # 0
    BY <1>1
  <2>3. TagOf(req, i) = WrappedTag(req, i)
    BY <2>1, TagOfIs
  <2> QED
    BY <1>1, <2>3 DEF SingboxChain
<1>3. ASSUME NEW i \in 1 .. Len(ents)
      PROVE  /\ WrappedTag(req, i) \in TagNames /\ ents[i][1] \in Hops \cup {Bridge, Ent}
             /\ ents[i][2] \in Nat /\ detour(i) \in TagNames
  <2>1. ents[i] \in Ents
    BY ElementOfSeq
  <2>2. req.prefix \in TagPrefixes /\ req.startSuffix + i \in Nat /\ req.warpWrap \in BOOLEAN /\ i \in Nat \ {0}
    BY <1>1 DEF Requests
  <2>3. HopTag(req.prefix, req.startSuffix + i) \in TagNames
    BY <2>2, HopTagIs
  <2>4. WrappedTag(req, i) \in TagNames
    BY <2>2, TagOfIs
  <2> QED
    BY <2>1, <2>3, <2>4, OwnNames DEF Ents
<1>4. DOMAIN s = 1 .. Len(ents) /\ s = [i \in 1 .. Len(ents) |-> s[i]]
  BY <1>1 DEF SingboxChain
<1> HIDE DEF s, detour
<1>5. ASSUME NEW i \in 1 .. Len(ents)
      PROVE  /\ s[i] \in Outs /\ s[i].tag = WrappedTag(req, i) /\ s[i].hop = ents[i][1]
             /\ s[i].port = ents[i][2] /\ s[i].detour = detour(i)
  BY <1>2, <1>3, OutboundIs
<1>6. s \in Seq(Outs) /\ Len(s) = Len(ents)
  BY <1>1, <1>4, <1>5
<1> QED
  BY <1>5, <1>6 DEF s, detour

\* Those of the part in Xray, with the bridge that leads back.
LEMMA XrayChainIs ==
    ASSUME NEW req \in Requests, NEW ents \in Seq(Hops), NEW bridge \in Nat
    PROVE  LET s == XrayChain(req, ents, bridge)
               L == Len(ents)
           IN  /\ s \in Seq(Outs) /\ Len(s) = IF bridge = 0 THEN L ELSE L + 1
               /\ \A i \in 1 .. L :
                     /\ s[i].tag = PlainTag(req, i) /\ s[i].hop = ents[i]
                     /\ s[i].detour = IF bridge # 0 \/ (i < L /\ req.link)
                                      THEN HopTag(req.prefix, req.startSuffix + i) ELSE NoTag
               /\ bridge # 0 => /\ s[L + 1].tag = HopTag(req.prefix, req.startSuffix + L)
                                /\ s[L + 1].hop = Bridge /\ s[L + 1].port = bridge
<1> DEFINE L == Len(ents)
           after(i) == HopTag(req.prefix, req.startSuffix + i)
           detour(i) == IF bridge # 0 \/ (i < L /\ req.link) THEN after(i) ELSE NoTag
           own == [i \in DOMAIN ents |->
                      Outbound(TagOf([req EXCEPT !.warpWrap = FALSE], i), ents[i], 0, detour(i))]
           rest == IF bridge = 0 THEN <<>> ELSE <<Outbound(after(L), Bridge, bridge, NoTag)>>
<1>1. L \in Nat /\ DOMAIN ents = 1 .. L
  BY LenProperties
<1>2. \A i \in Nat : after(i) \in TagNames
  <2>1. req.prefix \in TagPrefixes /\ \A i \in Nat : req.startSuffix + i \in Nat
    BY DEF Requests
  <2> QED
    BY <2>1, HopTagIs
<1>3. ASSUME NEW i \in 1 .. L
      PROVE  /\ own[i] \in Outs /\ own[i].tag = PlainTag(req, i) /\ own[i].hop = ents[i]
             /\ own[i].detour = detour(i)
  <2>1. own[i] = Outbound(PlainTag(req, i), ents[i], 0, detour(i))
    <3>1. i \in Nat /\ i # 0
      BY <1>1
    <3> QED
      BY <1>1, <3>1, TagOfIs
  <2>2. PlainTag(req, i) \in TagNames /\ ents[i] \in Hops /\ detour(i) \in TagNames /\ 0 \in Nat
    <3>1. i \in Nat /\ i # 0 /\ ents[i] \in Hops
      BY <1>1, ElementOfSeq
    <3>2. detour(i) \in TagNames
      BY <1>2, <3>1, OwnNames
    <3> HIDE DEF detour
    <3>3. PlainTag(req, i) \in TagNames
      BY <3>1, TagOfIs
    <3> QED
      BY <3>1, <3>2, <3>3
  <2>3. ents[i] \in Hops \cup {Bridge, Ent}
    BY <2>2
  <2> HIDE DEF own, detour
  <2> QED
    BY <2>1, <2>2, <2>3, OutboundIs
<1>4. own \in Seq(Outs) /\ Len(own) = L
  <2>1. own = [i \in 1 .. L |-> own[i]]
    BY <1>1
  <2>2. \A i \in 1 .. L : own[i] \in Outs
    BY <1>3
  <2> HIDE DEF own, Outs
  <2> QED
    BY <2>1, <2>2, <1>1
<1>5. /\ rest \in Seq(Outs) /\ Len(rest) = (IF bridge = 0 THEN 0 ELSE 1)
      /\ bridge # 0 => rest[1].tag = after(L) /\ rest[1].hop = Bridge /\ rest[1].port = bridge
  <2> DEFINE o == Outbound(after(L), Bridge, bridge, NoTag)
  <2>1. o \in Outs /\ o.tag = after(L) /\ o.hop = Bridge /\ o.port = bridge
    <3>1. after(L) \in TagNames /\ NoTag \in TagNames /\ Bridge \in Hops \cup {Bridge, Ent}
      BY <1>1, <1>2, OwnNames
    <3> HIDE DEF after
    <3> QED
      BY <3>1, OutboundIs
  <2> HIDE DEF o, after
  <2>2. rest = IF bridge = 0 THEN <<>> ELSE <<o>>
    BY DEF o, after
  <2> HIDE DEF rest
  <2> QED
    BY <2>1, <2>2
<1>6. XrayChain(req, ents, bridge) = own \o rest
  BY DEF XrayChain
<1> HIDE DEF own, rest, detour, after
<1>7. /\ own \o rest \in Seq(Outs) /\ Len(own \o rest) = Len(own) + Len(rest)
      /\ \A i \in 1 .. Len(own) + Len(rest) :
            (own \o rest)[i] = IF i <= Len(own) THEN own[i] ELSE rest[i - Len(own)]
  BY <1>4, <1>5, ConcatProperties
<1>8. \A i \in 1 .. L : (own \o rest)[i] = own[i]
  BY <1>1, <1>4, <1>5, <1>7
<1>9. bridge # 0 => (own \o rest)[L + 1] = rest[1]
  BY <1>1, <1>4, <1>5, <1>7
<1> DEFINE s == own \o rest
<1>10. s \in Seq(Outs) /\ Len(s) = IF bridge = 0 THEN L ELSE L + 1
  BY <1>1, <1>4, <1>5, <1>7
<1>11. XrayChain(req, ents, bridge) = s /\ (\A i \in 1 .. L : s[i] = own[i])
       /\ (bridge # 0 => s[L + 1].tag = after(L) /\ s[L + 1].hop = Bridge /\ s[L + 1].port = bridge)
  BY <1>5, <1>6, <1>8, <1>9
<1> HIDE DEF s
<1> QED
  BY <1>3, <1>10, <1>11 DEF detour, after


\* The hops in Xray, and those after them.
LEMMA InXrayIs ==
    ASSUME NEW hops \in Seq(Hops), Parts(hops)
    PROVE  LET a == FirstXray(hops)
               z == FirstBack(hops)
           IN  /\ InXray(hops) \in Seq(Hops) /\ Len(InXray(hops)) = z - a
               /\ \A i \in 1 .. z - a : InXray(hops)[i] = hops[a + i - 1]
               /\ Tailing(hops) \in Seq(Hops) /\ Len(Tailing(hops)) = Len(hops) - z + 1
               /\ \A i \in 1 .. Len(hops) - z + 1 : Tailing(hops)[i] = hops[z + i - 1]
<1> DEFINE a == FirstXray(hops)
           z == FirstBack(hops)
           L == Len(hops)
<1>1. L \in Nat /\ a \in 1 .. L + 1 /\ z \in a .. L + 1 /\ a \in Nat /\ z \in Nat
  BY LenProperties DEF Parts
<1>2. \A i \in 1 .. L : hops[i] \in Hops
  BY <1>1, ElementOfSeq
<1> HIDE DEF a, z, L
<1>3. /\ SubSeq(hops, a, z - 1) \in Seq(Hops)
      /\ Len(SubSeq(hops, a, z - 1)) = IF a <= z - 1 THEN (z - 1) - a + 1 ELSE 0
      /\ \A i \in 1 .. (z - 1) - a + 1 : SubSeq(hops, a, z - 1)[i] = hops[a + i - 1]
  <2>1. a \in Int /\ z - 1 \in Int /\ \A i \in a .. z - 1 : hops[i] \in Hops
    BY <1>1, <1>2
  <2> QED
    BY <2>1, SubSeqProperties
<1>4. /\ SubSeq(hops, z, L) \in Seq(Hops)
      /\ Len(SubSeq(hops, z, L)) = IF z <= L THEN L - z + 1 ELSE 0
      /\ \A i \in 1 .. L - z + 1 : SubSeq(hops, z, L)[i] = hops[z + i - 1]
  <2>1. z \in Int /\ L \in Int /\ \A i \in z .. L : hops[i] \in Hops
    BY <1>1, <1>2
  <2> QED
    BY <2>1, SubSeqProperties
<1>5. /\ InXray(hops) \in Seq(Hops) /\ Len(InXray(hops)) = z - a
      /\ \A i \in 1 .. z - a : InXray(hops)[i] = hops[a + i - 1]
  <2>1. InXray(hops) = SubSeq(hops, a, z - 1)
    BY DEF InXray, a, z
  <2> QED
    BY <1>1, <1>3, <2>1
<1>6. /\ Tailing(hops) \in Seq(Hops) /\ Len(Tailing(hops)) = L - z + 1
      /\ \A i \in 1 .. L - z + 1 : Tailing(hops)[i] = hops[z + i - 1]
  <2>1. Tailing(hops) = SubSeq(hops, z, L)
    BY DEF Tailing, z, L
  <2> QED
    BY <1>1, <1>4, <2>1
<1> QED
  BY <1>5, <1>6 DEF a, z, L

\* The pieces of a chain, in the order of the chain.
TailEnts(hops) == [i \in DOMAIN Tailing(hops) |-> <<Tailing(hops)[i], 0>>]
TailRequest(req, p) ==
    [req EXCEPT !.includeProxy = FALSE, !.warpWrap = FALSE, !.startSuffix = TailingStart(req, p)]
Back(hops, p) == IF XrayToSing(hops) THEN p.xrayToSing ELSE 0
LeadOuts(req, p) == SingboxChain(req, LeadingEnts(req.hops, p))
XrayOuts(req, p) == XrayChain(req, InXray(req.hops), Back(req.hops, p))
TailOuts(req, p) == SingboxChain(TailRequest(req, p), TailEnts(req.hops))
LeadLen(hops) == IF FirstXray(hops) <= Len(hops) THEN FirstXray(hops) ELSE FirstXray(hops) - 1
TagAt(req, i) == HopTag(req.prefix, req.startSuffix + i)

LeadIs(req, p, s) ==
    LET hops == req.hops
        a == FirstXray(hops)
    IN  /\ s \in Seq(Outs) /\ Len(s) = LeadLen(hops)
        /\ \A i \in 1 .. LeadLen(hops) :
              /\ s[i].tag = WrappedTag(req, i)
              /\ s[i].detour = IF req.warpWrap /\ i = 1 THEN WarpBypass
                               ELSE IF i < LeadLen(hops) /\ req.link THEN TagAt(req, i) ELSE NoTag
        /\ \A i \in 1 .. a - 1 : s[i].hop = hops[i] /\ (hops[i] \in Full => s[i].port = p.full)
        /\ a <= Len(hops) => s[a].hop = Bridge /\ s[a].port = p.singToXray
CrossIs(req, p, s) ==
    LET hops == req.hops
        a == FirstXray(hops)
        z == FirstBack(hops)
    IN  /\ s \in Seq(Outs) /\ Len(s) = (z - a) + IF z <= Len(hops) THEN 1 ELSE 0
        /\ \A i \in 1 .. z - a :
              /\ s[i].tag = PlainTag(req, i) /\ s[i].hop = hops[a + i - 1]
              /\ s[i].detour = IF z <= Len(hops) \/ (i < z - a /\ req.link) THEN TagAt(req, i) ELSE NoTag
        /\ z <= Len(hops) => /\ s[z - a + 1].tag = TagAt(req, z - a)
                             /\ s[z - a + 1].hop = Bridge /\ s[z - a + 1].port = p.xrayToSing
TailIs(req, s) ==
    LET hops == req.hops
        z == FirstBack(hops)
        n == Len(hops) - z + 1
    IN  /\ s \in Seq(Outs) /\ Len(s) = n
        /\ \A i \in 1 .. n :
              /\ s[i].tag = TagAt(req, LeadLen(hops) + i - 1) /\ s[i].hop = hops[z + i - 1]
              /\ s[i].detour = IF i < n /\ req.link THEN TagAt(req, LeadLen(hops) + i) ELSE NoTag

\* What is built of the hops before Xray is that.
LEMMA LeadOutsAre ==
    ASSUME NEW req \in Requests, NEW p \in PortRecords, Parts(req.hops)
    PROVE  LeadIs(req, p, LeadOuts(req, p)) /\ Len(LeadingEnts(req.hops, p)) = LeadLen(req.hops)
<1> DEFINE hops == req.hops
           a == FirstXray(hops)
           ents == LeadingEnts(hops, p)
           s == LeadOuts(req, p)
<1>1. hops \in Seq(Hops)
  BY DEF Requests
<1>2. /\ ents \in Seq(Ents) /\ Len(ents) = LeadLen(hops)
      /\ \A i \in 1 .. a - 1 : /\ ents[i][1] = hops[i]
                               /\ hops[i] \in Full => ents[i][2] = p.full
      /\ a <= Len(hops) => ents[a][1] = Bridge /\ ents[a][2] = p.singToXray
  BY <1>1, LeadingIs DEF LeadLen
<1>3. /\ s \in Seq(Outs) /\ Len(s) = Len(ents)
      /\ \A i \in 1 .. Len(ents) :
            /\ s[i].tag = WrappedTag(req, i)
            /\ s[i].hop = ents[i][1] /\ s[i].port = ents[i][2]
            /\ s[i].detour = IF req.warpWrap /\ i = 1 THEN WarpBypass
                             ELSE IF i < Len(ents) /\ req.link
                                  THEN HopTag(req.prefix, req.startSuffix + i) ELSE NoTag
  BY <1>2, SingboxChainIs DEF LeadOuts
<1>4. a \in Nat /\ Len(hops) \in Nat /\ a \in 1 .. Len(hops) + 1
  BY <1>1, LenProperties DEF Parts
<1> HIDE DEF ents, s
<1>5. \A i \in 1 .. a - 1 : i \in 1 .. Len(ents)
  BY <1>2, <1>4 DEF LeadLen
<1>6. a <= Len(hops) => a \in 1 .. Len(ents)
  BY <1>2, <1>4 DEF LeadLen
<1>7. LeadIs(req, p, s)
  BY <1>2, <1>3, <1>5, <1>6 DEF LeadIs, TagAt
<1> QED
  BY <1>2, <1>7 DEF ents, s

\* What is built of the hops in Xray is that.
LEMMA XrayOutsAre ==
    ASSUME NEW req \in Requests, NEW p \in PortRecords, Parts(req.hops), ~ChainError(req.hops, p)
    PROVE  CrossIs(req, p, XrayOuts(req, p))
<1> DEFINE hops == req.hops
           a == FirstXray(hops)
           z == FirstBack(hops)
           b == Back(hops, p)
           s == XrayOuts(req, p)
<1>1. hops \in Seq(Hops)
  BY DEF Requests
<1>2. /\ InXray(hops) \in Seq(Hops) /\ Len(InXray(hops)) = z - a
      /\ \A i \in 1 .. z - a : InXray(hops)[i] = hops[a + i - 1]
  BY <1>1, InXrayIs
<1>3. b \in Nat /\ (b = 0 <=> ~ (z <= Len(hops))) /\ (z <= Len(hops) => b = p.xrayToSing)
  BY DEF Back, Parts, ChainError, PortRecords
<1> HIDE DEF b
<1>4. /\ s \in Seq(Outs) /\ Len(s) = (IF b = 0 THEN z - a ELSE z - a + 1)
      /\ \A i \in 1 .. z - a :
            /\ s[i].tag = PlainTag(req, i) /\ s[i].hop = InXray(hops)[i]
            /\ s[i].detour = IF b # 0 \/ (i < z - a /\ req.link)
                             THEN HopTag(req.prefix, req.startSuffix + i) ELSE NoTag
      /\ b # 0 => /\ s[z - a + 1].tag = HopTag(req.prefix, req.startSuffix + (z - a))
                  /\ s[z - a + 1].hop = Bridge /\ s[z - a + 1].port = b
  <2> DEFINE S == XrayChain(req, InXray(hops), b)
             n == Len(InXray(hops))
  <2>1. /\ S \in Seq(Outs) /\ Len(S) = IF b = 0 THEN n ELSE n + 1
        /\ \A i \in 1 .. n :
              /\ S[i].tag = PlainTag(req, i) /\ S[i].hop = InXray(hops)[i]
              /\ S[i].detour = IF b # 0 \/ (i < n /\ req.link)
                               THEN HopTag(req.prefix, req.startSuffix + i) ELSE NoTag
        /\ b # 0 => /\ S[n + 1].tag = HopTag(req.prefix, req.startSuffix + n)
                    /\ S[n + 1].hop = Bridge /\ S[n + 1].port = b
    BY <1>2, <1>3, XrayChainIs
  <2>2. s = S /\ n = z - a
    BY <1>2 DEF XrayOuts, b
  <2> HIDE DEF S, n
  <2> QED
    BY <2>1, <2>2
<1>5. z - a \in Int
  BY <1>1, LenProperties DEF Parts
<1> HIDE DEF s
<1>6. CrossIs(req, p, s)
  BY <1>2, <1>3, <1>4, <1>5 DEF CrossIs, TagAt
<1> QED
  BY <1>6 DEF s

\* What is built of the hops after Xray is that.
LEMMA TailOutsAre ==
    ASSUME NEW req \in Requests, NEW p \in PortRecords, Parts(req.hops)
    PROVE  TailIs(req, TailOuts(req, p)) /\ Len(TailEnts(req.hops)) = Len(req.hops) - FirstBack(req.hops) + 1
<1> DEFINE hops == req.hops
           z == FirstBack(hops)
           n == Len(hops) - z + 1
           T == Tailing(hops)
           ents == TailEnts(hops)
           tail == TailRequest(req, p)
           s == TailOuts(req, p)
<1>1. hops \in Seq(Hops) /\ z \in Nat /\ Len(hops) \in Nat /\ n \in Nat
  BY LenProperties DEF Requests, Parts
<1>2. T \in Seq(Hops) /\ Len(T) = n /\ \A i \in 1 .. n : T[i] = hops[z + i - 1]
  BY <1>1, InXrayIs
<1>3. DOMAIN T = 1 .. n
  BY <1>2, LenProperties
<1>4. ents = [i \in 1 .. n |-> <<T[i], 0>>]
  BY <1>3 DEF TailEnts
<1> HIDE DEF ents, n, T
<1>5. ents \in Seq(Ents) /\ Len(ents) = n /\ \A i \in 1 .. n : ents[i][1] = T[i]
  <2>1. \A i \in 1 .. n : T[i] \in Hops
    BY <1>2, ElementOfSeq
  <2>2. \A i \in 1 .. n : <<T[i], 0>> \in Ents
    BY <2>1 DEF Ents
  <2> HIDE DEF Ents
  <2> QED
    BY <1>1, <1>4, <2>2
<1>6. TailingStart(req, p) = req.startSuffix + LeadLen(hops) /\ LeadLen(hops) \in Nat
      /\ req.startSuffix \in Nat
  <2>1. TailingStart(req, p) = req.startSuffix + LeadLen(hops)
    BY LeadOutsAre DEF TailingStart
  <2>2. LeadLen(hops) \in Nat
    BY <1>1 DEF LeadLen, Parts
  <2>3. req.startSuffix \in Nat
    BY DEF Requests
  <2> QED
    BY <2>1, <2>2, <2>3
<1>7. /\ tail \in Requests /\ tail.includeProxy = FALSE /\ tail.warpWrap = FALSE
      /\ tail.startSuffix = req.startSuffix + LeadLen(hops) /\ tail.prefix = req.prefix
      /\ tail.link = req.link
  <2>1. TailingStart(req, p) \in Nat
    BY <1>6
  <2> HIDE DEF hops
  <2> QED
    BY <1>6, <2>1 DEF TailRequest, Requests
<1> HIDE DEF tail, hops
<1>8. /\ s \in Seq(Outs) /\ Len(s) = Len(ents)
      /\ \A i \in 1 .. Len(ents) :
            /\ s[i].tag = WrappedTag(tail, i)
            /\ s[i].hop = ents[i][1]
            /\ s[i].detour = IF tail.warpWrap /\ i = 1 THEN WarpBypass
                             ELSE IF i < Len(ents) /\ tail.link
                                  THEN HopTag(tail.prefix, tail.startSuffix + i) ELSE NoTag
  BY <1>5, <1>7, SingboxChainIs DEF TailOuts, tail, hops, ents
<1> HIDE DEF s
<1>9. ASSUME NEW i \in 1 .. n
      PROVE  /\ s[i].tag = TagAt(req, LeadLen(hops) + i - 1) /\ s[i].hop = hops[z + i - 1]
             /\ s[i].detour = IF i < n /\ req.link THEN TagAt(req, LeadLen(hops) + i) ELSE NoTag
  <2>1. tail.startSuffix + i - 1 = req.startSuffix + (LeadLen(hops) + i - 1)
        /\ tail.startSuffix + i = req.startSuffix + (LeadLen(hops) + i)
    BY <1>1, <1>6, <1>7
  <2>2. WrappedTag(tail, i) = TagAt(req, LeadLen(hops) + i - 1)
    BY <1>7, <2>1 DEF WrappedTag, PlainTag, TagAt
  <2>3. s[i].detour = IF i < n /\ req.link THEN TagAt(req, LeadLen(hops) + i) ELSE NoTag
    BY <1>5, <1>7, <1>8, <2>1 DEF TagAt
  <2> QED
    BY <1>2, <1>5, <1>8, <2>2, <2>3
<1>10. TailIs(req, s)
  BY <1>5, <1>8, <1>9 DEF TailIs, n, hops
<1> QED
  BY <1>5, <1>10 DEF ents, s, n, hops


\* A context is the record of its fields.
IsCtx(x) ==
    x = [outbounds |-> x.outbounds, xrayOutbounds |-> x.xrayOutbounds, singToXray |-> x.singToXray,
         xrayToSing |-> x.xrayToSing, singIngress |-> x.singIngress, xrayIngress |-> x.xrayIngress,
         xrayConfig |-> x.xrayConfig, merged |-> x.merged, fulls |-> x.fulls,
         chainGroups |-> x.chainGroups, dealt |-> x.dealt]

\* What becomes of the lists.
WatchTag(req) ==
    IF FirstBack(req.hops) <= Len(req.hops) THEN TagAt(req, LeadLen(req.hops)) ELSE IngressTag(req)
BuiltFrom(x, y, req, p) ==
    LET hops == req.hops
        crosses == FirstXray(hops) <= Len(hops)
        returns == FirstBack(hops) <= Len(hops)
    IN  /\ y.outbounds = (x.outbounds \o LeadOuts(req, p)) \o TailOuts(req, p)
        /\ y.xrayOutbounds = IF crosses THEN x.xrayOutbounds \o XrayOuts(req, p) ELSE x.xrayOutbounds
        /\ y.singToXray = IF crosses THEN Append(x.singToXray, p.singToXray) ELSE x.singToXray
        /\ y.xrayIngress = IF crosses THEN Append(x.xrayIngress, IngressTag(req)) ELSE x.xrayIngress
        /\ y.xrayToSing = IF returns THEN Append(x.xrayToSing, p.xrayToSing) ELSE x.xrayToSing
        /\ y.singIngress = IF returns THEN Append(x.singIngress, TagAt(req, LeadLen(hops))) ELSE x.singIngress
        /\ y.chainGroups = Append(x.chainGroups, [watch |-> WatchTag(req), profiles |-> hops \o req.credit])
        /\ y.dealt = x.dealt + 2
        /\ y.merged = x.merged
ConfigFrom(x, y, req, p, drain) ==
    LET config == IF Opaque(req.hops) THEN p.full ELSE x.xrayConfig
    IN  IF drain THEN y.fulls = Append(x.fulls, config) /\ y.xrayConfig = 0
                 ELSE y.fulls = x.fulls /\ y.xrayConfig = config
\* What buildOutboundChain leaves in every field.
LEMMA BuildIs ==
    ASSUME NEW req, NEW p, IsCtx(ctx)
    PROVE  LET c == BuildOutboundChain(req, p)
               hops == req.hops
               inXray == InXray(hops) # <<>>
               tails == TailEnts(hops) # <<>>
               tailTag == HopTag(req.prefix, TailingStart(req, p))
           IN  /\ IsCtx(c)
               /\ c.outbounds = (ctx.outbounds \o LeadOuts(req, p)) \o TailOuts(req, p)
               /\ c.xrayOutbounds = IF inXray THEN ctx.xrayOutbounds \o XrayOuts(req, p) ELSE ctx.xrayOutbounds
               /\ c.singToXray = IF SingToXray(hops) THEN Append(ctx.singToXray, p.singToXray) ELSE ctx.singToXray
               /\ c.xrayToSing = IF XrayToSing(hops) THEN Append(ctx.xrayToSing, p.xrayToSing) ELSE ctx.xrayToSing
               /\ c.xrayIngress = IF inXray THEN Append(ctx.xrayIngress, IngressTag(req)) ELSE ctx.xrayIngress
               /\ c.singIngress = IF tails THEN Append(ctx.singIngress, tailTag) ELSE ctx.singIngress
               /\ c.xrayConfig = IF Opaque(hops) THEN p.full ELSE ctx.xrayConfig
               /\ c.chainGroups = Append(ctx.chainGroups,
                                         [watch |-> IF tails THEN tailTag ELSE IngressTag(req),
                                          profiles |-> hops \o req.credit])
               /\ c.dealt = ctx.dealt + 2 /\ c.merged = ctx.merged /\ c.fulls = ctx.fulls
<1> DEFINE hops == req.hops
           inXray == InXray(hops) # <<>>
           tails == TailEnts(hops) # <<>>
           tailTag == HopTag(req.prefix, TailingStart(req, p))
           v1 == (ctx.outbounds \o LeadOuts(req, p)) \o TailOuts(req, p)
           v2 == IF inXray THEN ctx.xrayOutbounds \o XrayOuts(req, p) ELSE ctx.xrayOutbounds
           v3 == IF SingToXray(hops) THEN Append(ctx.singToXray, p.singToXray) ELSE ctx.singToXray
           v4 == IF XrayToSing(hops) THEN Append(ctx.xrayToSing, p.xrayToSing) ELSE ctx.xrayToSing
           v5 == IF inXray THEN Append(ctx.xrayIngress, IngressTag(req)) ELSE ctx.xrayIngress
           v6 == IF tails THEN Append(ctx.singIngress, tailTag) ELSE ctx.singIngress
           v7 == IF Opaque(hops) THEN p.full ELSE ctx.xrayConfig
           v8 == Append(ctx.chainGroups, [watch |-> IF tails THEN tailTag ELSE IngressTag(req),
                                          profiles |-> hops \o req.credit])
           v9 == ctx.dealt + 2
           c == BuildOutboundChain(req, p)
<1>1. c = [ctx EXCEPT !.outbounds = v1, !.xrayOutbounds = v2, !.singToXray = v3, !.xrayToSing = v4,
                      !.xrayIngress = v5, !.singIngress = v6, !.xrayConfig = v7,
                      !.chainGroups = v8, !.dealt = v9]
  BY DEF BuildOutboundChain, LeadOuts, TailOuts, XrayOuts, TailEnts, TailRequest, Back
<1> HIDE DEF v1, v2, v3, v4, v5, v6, v7, v8, v9, c
<1>2. /\ IsCtx(c) /\ c.outbounds = v1 /\ c.xrayOutbounds = v2 /\ c.singToXray = v3
      /\ c.xrayToSing = v4 /\ c.xrayIngress = v5 /\ c.singIngress = v6 /\ c.xrayConfig = v7
      /\ c.chainGroups = v8 /\ c.dealt = v9 /\ c.merged = ctx.merged /\ c.fulls = ctx.fulls
  <2>1. ctx = [outbounds |-> ctx.outbounds, xrayOutbounds |-> ctx.xrayOutbounds, singToXray |-> ctx.singToXray,
               xrayToSing |-> ctx.xrayToSing, singIngress |-> ctx.singIngress, xrayIngress |-> ctx.xrayIngress,
               xrayConfig |-> ctx.xrayConfig, merged |-> ctx.merged, fulls |-> ctx.fulls,
               chainGroups |-> ctx.chainGroups, dealt |-> ctx.dealt]
    BY DEF IsCtx
  <2>2. c = [outbounds |-> v1, xrayOutbounds |-> v2, singToXray |-> v3, xrayToSing |-> v4,
             singIngress |-> v6, xrayIngress |-> v5, xrayConfig |-> v7, merged |-> ctx.merged,
             fulls |-> ctx.fulls, chainGroups |-> v8, dealt |-> v9]
    BY <1>1, <2>1
  <2> QED
    BY <2>2 DEF IsCtx
<1> QED
  BY <1>2 DEF v1, v2, v3, v4, v5, v6, v7, v8, v9, c

\* What buildOutboundChain leaves of the context, drained or not.
LEMMA BuiltIs ==
    ASSUME NEW req \in Requests, NEW p \in PortRecords, Parts(req.hops), IsCtx(ctx),
           NEW drain \in BOOLEAN, NEW y,
           y = IF drain THEN Drained(BuildOutboundChain(req, p)) ELSE BuildOutboundChain(req, p)
    PROVE  IsCtx(y) /\ BuiltFrom(ctx, y, req, p) /\ ConfigFrom(ctx, y, req, p, drain)
<1> DEFINE hops == req.hops
           a == FirstXray(hops)
           z == FirstBack(hops)
           c == BuildOutboundChain(req, p)
<1>1. hops \in Seq(Hops) /\ a \in Nat /\ z \in Nat /\ Len(hops) \in Nat /\ z >= a
      /\ a <= Len(hops) + 1 /\ z <= Len(hops) + 1 /\ (a <= Len(hops) => a < z)
  BY LenProperties DEF Requests, Parts
<1>2. (SingToXray(hops) <=> a <= Len(hops)) /\ (XrayToSing(hops) <=> z <= Len(hops))
  BY DEF Parts
<1>3. (InXray(hops) # <<>>) <=> a <= Len(hops)
  <2>1. InXray(hops) \in Seq(Hops) /\ Len(InXray(hops)) = z - a
    BY <1>1, InXrayIs
  <2>2. InXray(hops) # <<>> <=> Len(InXray(hops)) # 0
    BY <2>1, EmptySeq
  <2> QED
    BY <1>1, <2>1, <2>2
<1>4. (TailEnts(hops) # <<>>) <=> z <= Len(hops)
  <2>1. Len(TailEnts(hops)) = Len(hops) - z + 1
    BY TailOutsAre
  <2>2. Tailing(hops) \in Seq(Hops) /\ Len(Tailing(hops)) = Len(hops) - z + 1
    BY <1>1, InXrayIs
  <2>3. DOMAIN Tailing(hops) = 1 .. Len(hops) - z + 1
    BY <2>2, LenProperties
  <2>4. TailEnts(hops) = [i \in 1 .. Len(hops) - z + 1 |-> <<Tailing(hops)[i], 0>>]
    BY <2>3 DEF TailEnts
  <2>5. DOMAIN TailEnts(hops) = 1 .. Len(hops) - z + 1 /\ DOMAIN <<>> = {}
    BY <2>4
  <2>6. z <= Len(hops) => 1 \in 1 .. Len(hops) - z + 1
    BY <1>1
  <2>7. ~ (z <= Len(hops)) => 1 .. Len(hops) - z + 1 = {}
    BY <1>1
  <2>8. ~ (z <= Len(hops)) => TailEnts(hops) = <<>>
    BY <2>4, <2>7
  <2> QED
    BY <2>5, <2>6, <2>8
<1>5. HopTag(req.prefix, TailingStart(req, p)) = TagAt(req, LeadLen(hops))
  BY LeadOutsAre DEF TailingStart, TagAt
<1>6. /\ IsCtx(c) /\ c.fulls = ctx.fulls /\ c.xrayConfig = IF Opaque(hops) THEN p.full ELSE ctx.xrayConfig
  BY BuildIs
<1>8. BuiltFrom(ctx, c, req, p)
  <2> HIDE DEF c
  <2>1. /\ c.outbounds = (ctx.outbounds \o LeadOuts(req, p)) \o TailOuts(req, p)
        /\ c.xrayOutbounds = IF InXray(hops) # <<>> THEN ctx.xrayOutbounds \o XrayOuts(req, p) ELSE ctx.xrayOutbounds
        /\ c.singToXray = IF SingToXray(hops) THEN Append(ctx.singToXray, p.singToXray) ELSE ctx.singToXray
        /\ c.xrayToSing = IF XrayToSing(hops) THEN Append(ctx.xrayToSing, p.xrayToSing) ELSE ctx.xrayToSing
        /\ c.xrayIngress = IF InXray(hops) # <<>> THEN Append(ctx.xrayIngress, IngressTag(req)) ELSE ctx.xrayIngress
        /\ c.singIngress = IF TailEnts(hops) # <<>> THEN Append(ctx.singIngress, HopTag(req.prefix, TailingStart(req, p)))
                           ELSE ctx.singIngress
        /\ c.chainGroups = Append(ctx.chainGroups,
                               [watch |-> IF TailEnts(hops) # <<>> THEN HopTag(req.prefix, TailingStart(req, p))
                                          ELSE IngressTag(req),
                                profiles |-> hops \o req.credit])
        /\ c.dealt = ctx.dealt + 2 /\ c.merged = ctx.merged
    BY BuildIs DEF c
  <2> QED
    BY <2>1, <1>2, <1>3, <1>4, <1>5 DEF BuiltFrom, WatchTag
<1> HIDE DEF c
<1>9. CASE drain
  <2>1. y = [c EXCEPT !.fulls = Append(@, c.xrayConfig), !.xrayConfig = 0]
    BY <1>9 DEF c, Drained
  <2>2. /\ y.fulls = Append(c.fulls, c.xrayConfig) /\ y.xrayConfig = 0
        /\ y.outbounds = c.outbounds /\ y.xrayOutbounds = c.xrayOutbounds
        /\ y.singToXray = c.singToXray /\ y.xrayToSing = c.xrayToSing
        /\ y.singIngress = c.singIngress /\ y.xrayIngress = c.xrayIngress
        /\ y.chainGroups = c.chainGroups /\ y.dealt = c.dealt /\ y.merged = c.merged /\ IsCtx(y)
    BY <1>6, <2>1 DEF IsCtx
  <2> QED
    BY <1>6, <1>8, <1>9, <2>2 DEF BuiltFrom, ConfigFrom
<1>10. CASE ~drain
  <2>1. y = c
    BY <1>10 DEF c
  <2> QED
    BY <1>6, <1>8, <1>10, <2>1 DEF ConfigFrom
<1> QED
  BY <1>9, <1>10


-----------------------------------------------------------------------------
(* The way of a connection through a chain. *)

Runs(hop) == IF IsXray(hop) THEN "xray" ELSE "sing"
From(hops, n) == IF n = 1 THEN "sing" ELSE Runs(hops[n - 1])
In(x, side) == IF side = "sing" THEN ToSet(x.outbounds) ELSE ToSet(x.xrayOutbounds)

\* A bridge leads from a port to what its rule names in the other core.
Joins(x, side, port, tag) ==
    IF side = "sing"
    THEN \E i \in DOMAIN x.xrayIngress : x.singToXray[i] = port /\ x.xrayIngress[i] = tag
    ELSE \E i \in DOMAIN x.singIngress : x.xrayToSing[i] = port /\ x.singIngress[i] = tag

\* Where the connection enters a hop is the hop, or a bridge to it.
PassesHop(x, hops, w, n) ==
    /\ w.leave[n] \in In(x, Runs(hops[n])) /\ w.leave[n].hop = hops[n]
    /\ w.enter[n] \in In(x, From(hops, n))
    /\ \/ w.enter[n] = w.leave[n] /\ From(hops, n) = Runs(hops[n])
       \/ /\ w.enter[n].hop = Bridge /\ From(hops, n) # Runs(hops[n])
          /\ Joins(x, From(hops, n), w.enter[n].port, w.leave[n].tag)
    /\ w.enter[n].tag \in w.tags /\ w.leave[n].tag \in w.tags
IsWalk(x, hops, tag, w) ==
    /\ w.enter \in [1 .. Len(hops) -> Outs] /\ w.leave \in [1 .. Len(hops) -> Outs]
    /\ w.enter[1].tag = tag /\ w.leave[Len(hops)].detour = NoTag
    /\ \A n \in 1 .. Len(hops) : PassesHop(x, hops, w, n)
    /\ \A n \in 2 .. Len(hops) : w.leave[n - 1].detour = w.enter[n].tag /\ w.enter[n].tag # NoTag

\* The tags of a chain.
Block(req) ==
    {TagAt(req, i) : i \in 0 .. Len(req.hops) - 1}
    \cup (IF req.includeProxy THEN {Proxy, WarpBypass} ELSE {})

\* Every outbound of a chain has a tag of its block.
LEMMA BlockTags ==
    ASSUME NEW req, IsRequest(req)
    PROVE  /\ \A i \in 1 .. Len(req.hops) : WrappedTag(req, i) \in Block(req) /\ PlainTag(req, i) \in Block(req)
           /\ \A i \in 0 .. Len(req.hops) - 1 : TagAt(req, i) \in Block(req)
           /\ \A i \in Nat : TagAt(req, i) # NoTag /\ TagAt(req, i) \in TagNames
           /\ Block(req) \subseteq TagNames
<1>1. /\ req \in Requests /\ req.startSuffix \in Nat /\ req.prefix \in TagPrefixes /\ Len(req.hops) \in Nat
      /\ req.includeProxy \in BOOLEAN /\ req.warpWrap \in BOOLEAN
      /\ req.warpWrap => req.includeProxy
  BY LenProperties DEF IsRequest, Requests
<1>2. \A i \in 0 .. Len(req.hops) - 1 : TagAt(req, i) \in Block(req)
  BY DEF Block
<1>3. ASSUME NEW i \in Nat PROVE TagAt(req, i) # NoTag /\ TagAt(req, i) \in TagNames
  <2>1. req.startSuffix + i \in Nat
    BY <1>1
  <2> QED
    BY <1>1, <2>1, HopTagIs DEF TagAt
<1>4. ASSUME NEW i \in 1 .. Len(req.hops)
      PROVE  WrappedTag(req, i) \in Block(req) /\ PlainTag(req, i) \in Block(req)
  <2>1. i - 1 \in 0 .. Len(req.hops) - 1 /\ req.startSuffix + i - 1 = req.startSuffix + (i - 1)
    BY <1>1
  <2>2. HopTag(req.prefix, req.startSuffix + i - 1) \in Block(req)
    BY <1>2, <2>1 DEF TagAt
  <2>3. req.includeProxy => Proxy \in Block(req) /\ WarpBypass \in Block(req)
    BY DEF Block
  <2> QED
    BY <1>1, <2>2, <2>3 DEF WrappedTag, PlainTag
<1>5. Block(req) \subseteq TagNames
  <2>1. \A i \in 0 .. Len(req.hops) - 1 : TagAt(req, i) \in TagNames
    BY <1>1, <1>3
  <2> QED
    BY <2>1, OwnNames DEF Block
<1> QED
  BY <1>2, <1>3, <1>4, <1>5

\* The walk that buildOutboundChain lays.
NewWalk(req, s, x, t) ==
    LET a == FirstXray(req.hops)
        z == FirstBack(req.hops)
        L == Len(req.hops)
        leave == [n \in 1 .. L |-> IF n < a THEN s[n] ELSE IF n < z THEN x[n - a + 1] ELSE t[n - z + 1]]
    IN  [leave |-> leave,
         enter |-> [n \in 1 .. L |-> IF n = a THEN s[a] ELSE IF n = z THEN x[z - a + 1] ELSE leave[n]],
         tags  |-> Block(req)]

\* The pieces of a chain make a walk where the rules of its bridges lead on.
LEMMA NewWalkIs ==
    ASSUME NEW req, IsRequest(req), Parts(req.hops), NEW p \in PortRecords,
           NEW s, LeadIs(req, p, s), NEW x, CrossIs(req, p, x), NEW t, TailIs(req, t), NEW y,
           ToSet(s) \subseteq In(y, "sing"), ToSet(x) \subseteq In(y, "xray"), ToSet(t) \subseteq In(y, "sing"),
           FirstXray(req.hops) <= Len(req.hops) => Joins(y, "sing", p.singToXray, IngressTag(req)),
           FirstBack(req.hops) <= Len(req.hops)
              => Joins(y, "xray", p.xrayToSing, TagAt(req, LeadLen(req.hops)))
    PROVE  IsWalk(y, req.hops, IngressTag(req), NewWalk(req, s, x, t))
<1> DEFINE hops == req.hops
           a == FirstXray(hops)
           z == FirstBack(hops)
           L == Len(hops)
           w == NewWalk(req, s, x, t)
<1>1. /\ L \in Nat /\ a \in Nat /\ z \in Nat /\ 1 <= a /\ a <= L + 1 /\ a <= z /\ z <= L + 1
      /\ (a <= L => a < z) /\ L >= 1
      /\ \A i \in 1 .. a - 1 : ~IsXray(hops[i])
      /\ \A i \in a .. z - 1 : IsXray(hops[i])
      /\ \A i \in z .. L : ~IsXray(hops[i])
  <2>1. hops \in Seq(Hops) /\ hops # <<>>
    BY DEF IsRequest, Requests
  <2>2. L \in Nat /\ L # 0
    BY <2>1, LenProperties, EmptySeq
  <2> QED
    BY <2>2 DEF Parts
<1>2. /\ req \in Requests /\ req.link \in BOOLEAN /\ req.warpWrap \in BOOLEAN /\ req.startSuffix \in Nat
      /\ L # 1 => req.link
      /\ req.warpWrap => L >= 2 /\ a >= 2
  <2>1. req.warpWrap => ~IsXray(hops[1]) /\ L >= 2
    BY DEF IsRequest
  <2>2. req.warpWrap => a # 1
    BY <1>1, <2>1 DEF Parts
  <2> QED
    BY <1>1, <2>1, <2>2 DEF IsRequest, Requests
<1>3. LeadLen(hops) = IF a <= L THEN a ELSE a - 1
  BY DEF LeadLen
<1>4. /\ \A n \in 1 .. LeadLen(hops) : s[n] \in Outs /\ s[n] \in In(y, "sing") /\ s[n].tag = WrappedTag(req, n)
      /\ \A n \in 1 .. LeadLen(hops) : s[n].detour = IF req.warpWrap /\ n = 1 THEN WarpBypass
                               ELSE IF n < LeadLen(hops) /\ req.link THEN TagAt(req, n) ELSE NoTag
      /\ \A n \in 1 .. a - 1 : s[n].hop = hops[n]
      /\ a <= L => s[a].hop = Bridge /\ s[a].port = p.singToXray
  <2>1. s \in Seq(Outs) /\ Len(s) = LeadLen(hops)
    BY DEF LeadIs
  <2>2. \A n \in 1 .. LeadLen(hops) : s[n] \in Outs /\ s[n] \in ToSet(s)
    BY <2>1, LenProperties, ElementOfSeq DEF ToSet
  <2> QED
    BY <2>2 DEF LeadIs
<1>5. /\ \A n \in 1 .. z - a : x[n] \in Outs /\ x[n] \in In(y, "xray") /\ x[n].tag = PlainTag(req, n)
                               /\ x[n].hop = hops[a + n - 1]
      /\ \A n \in 1 .. z - a : x[n].detour = IF z <= L \/ (n < z - a /\ req.link) THEN TagAt(req, n) ELSE NoTag
      /\ z <= L => /\ x[z - a + 1].tag = TagAt(req, z - a) /\ x[z - a + 1].hop = Bridge
                   /\ x[z - a + 1].port = p.xrayToSing
                   /\ x[z - a + 1] \in Outs /\ x[z - a + 1] \in In(y, "xray")
  <2>1. x \in Seq(Outs) /\ Len(x) = (z - a) + IF z <= L THEN 1 ELSE 0
    BY DEF CrossIs
  <2>2. \A n \in 1 .. Len(x) : x[n] \in Outs /\ x[n] \in ToSet(x)
    BY <2>1, LenProperties, ElementOfSeq DEF ToSet
  <2>3. \A n \in 1 .. z - a : n \in 1 .. Len(x)
    BY <1>1, <2>1
  <2>4. z <= L => z - a + 1 \in 1 .. Len(x)
    BY <1>1, <2>1
  <2> QED
    BY <2>2, <2>3, <2>4 DEF CrossIs
<1>6. \A n \in 1 .. L - z + 1 :
         /\ t[n] \in Outs /\ t[n] \in In(y, "sing") /\ t[n].tag = TagAt(req, LeadLen(hops) + n - 1)
         /\ t[n].hop = hops[z + n - 1]
         /\ t[n].detour = IF n < L - z + 1 /\ req.link THEN TagAt(req, LeadLen(hops) + n) ELSE NoTag
  <2>1. t \in Seq(Outs) /\ Len(t) = L - z + 1
    BY DEF TailIs
  <2>2. \A n \in 1 .. Len(t) : t[n] \in Outs /\ t[n] \in ToSet(t)
    BY <2>1, LenProperties, ElementOfSeq DEF ToSet
  <2> QED
    BY <2>1, <2>2 DEF TailIs
<1>7. /\ \A n \in 1 .. L : WrappedTag(req, n) \in Block(req) /\ PlainTag(req, n) \in Block(req)
      /\ \A n \in 0 .. L - 1 : TagAt(req, n) \in Block(req)
      /\ \A n \in Nat : TagAt(req, n) # NoTag
  BY BlockTags
<1> HIDE DEF a, z, L
<1>8. ASSUME NEW n \in 1 .. L
      PROVE  /\ w.leave[n] = IF n < a THEN s[n] ELSE IF n < z THEN x[n - a + 1] ELSE t[n - z + 1]
             /\ w.enter[n] = IF n = a THEN s[a] ELSE IF n = z THEN x[z - a + 1] ELSE w.leave[n]
  BY DEF NewWalk, a, z, L
<1>9. /\ w.tags = Block(req) /\ DOMAIN w.leave = 1 .. L /\ DOMAIN w.enter = 1 .. L
      /\ w.leave = [n \in 1 .. L |-> w.leave[n]] /\ w.enter = [n \in 1 .. L |-> w.enter[n]]
  BY DEF NewWalk, L
<1> HIDE DEF w, hops
<1>10. ASSUME NEW n \in 1 .. L
       PROVE  /\ w.leave[n] \in Outs /\ w.enter[n] \in Outs
              /\ w.leave[n] \in In(y, Runs(hops[n])) /\ w.leave[n].hop = hops[n]
              /\ w.leave[n].tag \in Block(req)
  <2>1. CASE n < a
    <3>1. n \in 1 .. a - 1 /\ n \in 1 .. LeadLen(hops) /\ n # a /\ (n = z => FALSE) /\ n < z
      BY <1>1, <1>3, <2>1
    <3> QED
      BY <1>1, <1>4, <1>7, <1>8, <2>1, <3>1 DEF Runs
  <2>2. CASE n >= a /\ n < z
    <3>1. n - a + 1 \in 1 .. z - a /\ a + (n - a + 1) - 1 = n /\ n \in a .. z - 1 /\ ~ (n < a)
          /\ a \in 1 .. LeadLen(hops) /\ a <= L /\ n # z /\ n - a + 1 \in 1 .. L
      BY <1>1, <1>3, <2>2
    <3>2. IsXray(hops[n]) /\ w.leave[n] = x[n - a + 1]
      BY <1>1, <1>8, <2>2, <3>1
    <3>3. w.enter[n] = s[a] \/ w.enter[n] = w.leave[n]
      BY <1>8, <3>1
    <3> QED
      BY <1>4, <1>5, <1>7, <3>1, <3>2, <3>3 DEF Runs
  <2>3. CASE n >= z
    <3>1. n - z + 1 \in 1 .. L - z + 1 /\ z + (n - z + 1) - 1 = n /\ n \in z .. L /\ ~ (n < a) /\ ~ (n < z)
          /\ z <= L /\ a <= L /\ n # a
      BY <1>1, <2>3
    <3>2. ~IsXray(hops[n]) /\ w.leave[n] = t[n - z + 1]
      BY <1>1, <1>8, <3>1
    <3>3. w.enter[n] = x[z - a + 1] \/ w.enter[n] = w.leave[n]
      BY <1>8, <3>1
    <3>4. LeadLen(hops) + (n - z + 1) - 1 \in 0 .. L - 1
      BY <1>1, <1>3, <3>1
    <3> QED
      BY <1>5, <1>6, <1>7, <3>1, <3>2, <3>3, <3>4 DEF Runs
  <2> QED
    BY <1>1, <2>1, <2>2, <2>3
<1>11. ASSUME NEW n \in 1 .. L
       PROVE  /\ w.enter[n] \in In(y, From(hops, n)) /\ w.enter[n].tag \in Block(req)
              /\ \/ w.enter[n] = w.leave[n] /\ From(hops, n) = Runs(hops[n])
                 \/ /\ w.enter[n].hop = Bridge /\ From(hops, n) # Runs(hops[n])
                    /\ Joins(y, From(hops, n), w.enter[n].port, w.leave[n].tag)
  <2>1. CASE n = a
    <3>1. a \in 1 .. LeadLen(hops) /\ a <= L /\ a \in a .. z - 1 /\ ~ (n < a) /\ n < z /\ n - a + 1 = 1
          /\ (n # 1 => n - 1 \in 1 .. a - 1) /\ 1 \in 1 .. z - a
      BY <1>1, <1>3, <2>1
    <3>2. Runs(hops[n]) = "xray" /\ From(hops, n) = "sing"
      BY <1>1, <2>1, <3>1 DEF Runs, From
    <3>3. w.enter[n] = s[a] /\ w.leave[n] = x[1]
      BY <1>8, <2>1, <3>1
    <3>4. x[1].tag = IngressTag(req)
      BY <1>2, <1>5, <3>1, IngressTagIs
    <3>5. Joins(y, "sing", s[a].port, x[1].tag)
      BY <1>4, <3>1, <3>4 DEF a, L, hops
    <3> QED
      BY <1>4, <1>7, <2>1, <3>1, <3>2, <3>3, <3>5
  <2>2. CASE n = z
    <3>1. z <= L /\ a <= L /\ n # a /\ ~ (n < a) /\ ~ (n < z) /\ n - z + 1 = 1 /\ 1 \in 1 .. L - z + 1
          /\ z \in z .. L /\ z - 1 \in a .. z - 1 /\ n # 1 /\ z - a \in 0 .. L - 1
          /\ LeadLen(hops) + 1 - 1 = LeadLen(hops)
      BY <1>1, <1>3, <2>2
    <3>2. Runs(hops[n]) = "sing" /\ From(hops, n) = "xray"
      BY <1>1, <2>2, <3>1 DEF Runs, From
    <3>3. w.enter[n] = x[z - a + 1] /\ w.leave[n] = t[1]
      BY <1>8, <2>2, <3>1
    <3>4. t[1].tag = TagAt(req, LeadLen(hops))
      BY <1>6, <3>1
    <3>5. Joins(y, "xray", x[z - a + 1].port, t[1].tag)
      BY <1>5, <3>1, <3>4 DEF z, L, hops
    <3> QED
      BY <1>5, <1>7, <3>1, <3>2, <3>3, <3>5
  <2>3. CASE n # a /\ n # z
    <3>1. w.enter[n] = w.leave[n]
      BY <1>8, <2>3
    <3>2. From(hops, n) = Runs(hops[n])
      <4>1. CASE n < a
        <5>1. n \in 1 .. a - 1 /\ (n # 1 => n - 1 \in 1 .. a - 1)
          BY <1>1, <4>1
        <5> QED
          BY <1>1, <5>1 DEF Runs, From
      <4>2. CASE a < n /\ n < z
        <5>1. n \in a .. z - 1 /\ n - 1 \in a .. z - 1 /\ n # 1
          BY <1>1, <4>2
        <5> QED
          BY <1>1, <5>1 DEF Runs, From
      <4>3. CASE z < n
        <5>1. n \in z .. L /\ n - 1 \in z .. L /\ n # 1
          BY <1>1, <4>3
        <5> QED
          BY <1>1, <5>1 DEF Runs, From
      <4> QED
        BY <1>1, <2>3, <4>1, <4>2, <4>3
    <3> QED
      BY <1>10, <3>1, <3>2
  <2> QED
    BY <2>1, <2>2, <2>3
<1>12. ASSUME NEW n \in 2 .. L
       PROVE  w.leave[n - 1].detour = w.enter[n].tag /\ w.enter[n].tag # NoTag
  <2>1. n - 1 \in 1 .. L /\ n \in 1 .. L /\ req.link /\ n \in Nat /\ n - 1 \in Nat
    BY <1>1, <1>2
  <2>2. CASE n - 1 < a
    <3>1. n \in 1 .. LeadLen(hops) /\ n - 1 \in 1 .. LeadLen(hops) /\ n - 1 < LeadLen(hops) /\ n # z /\ n <= a
          /\ (n # a => n < a)
      BY <1>1, <1>3, <2>1, <2>2
    <3>2. w.leave[n - 1] = s[n - 1] /\ w.enter[n] = s[n]
      BY <1>8, <2>1, <2>2, <3>1
    <3>3. s[n - 1].detour = IF req.warpWrap /\ n - 1 = 1 THEN WarpBypass ELSE TagAt(req, n - 1)
      BY <1>4, <2>1, <3>1
    <3>4. req.startSuffix + n - 1 = req.startSuffix + (n - 1) /\ n # 1 /\ (n = 2 <=> n - 1 = 1)
      BY <1>2, <2>1
    <3>5. WrappedTag(req, n) = IF req.warpWrap /\ n = 2 THEN WarpBypass ELSE TagAt(req, n - 1)
      BY <3>4 DEF WrappedTag, PlainTag, TagAt
    <3>6. TagAt(req, n - 1) # NoTag /\ WarpBypass # NoTag
      BY <1>7, <2>1, OwnNames
    <3> QED
      BY <1>4, <3>1, <3>2, <3>3, <3>4, <3>5, <3>6
  <2>3. CASE n - 1 >= a /\ n - 1 < z
    <3> DEFINE m == (n - 1) - a + 1
    <3>1. m \in 1 .. z - a /\ m \in Nat /\ (z <= L \/ m < z - a) /\ ~ (n - 1 < a) /\ n # a
      BY <1>1, <2>1, <2>3
    <3>2. w.leave[n - 1] = x[m] /\ x[m].detour = TagAt(req, m)
      BY <1>5, <1>8, <2>1, <2>3, <3>1
    <3>3. CASE n = z
      <4>1. m = z - a /\ z <= L
        BY <1>1, <2>1, <3>3
      <4>2. w.enter[n] = x[z - a + 1]
        BY <1>8, <2>1, <3>1, <3>3
      <4> HIDE DEF m
      <4> QED
        BY <1>5, <1>7, <3>1, <3>2, <4>1, <4>2
    <3>4. CASE n # z
      <4>1. n < z /\ ~ (n < a) /\ n - a + 1 = m + 1 /\ m + 1 \in 1 .. z - a /\ m + 1 # 1
            /\ req.startSuffix + (m + 1) - 1 = req.startSuffix + m
        BY <1>1, <1>2, <2>1, <2>3, <3>4
      <4> HIDE DEF m
      <4>2. w.enter[n] = x[m + 1]
        BY <1>8, <2>1, <3>1, <3>4, <4>1
      <4>3. PlainTag(req, m + 1) = TagAt(req, m)
        BY <4>1 DEF PlainTag, TagAt
      <4> QED
        BY <1>5, <1>7, <3>1, <3>2, <4>1, <4>2, <4>3
    <3> QED
      BY <3>3, <3>4
  <2>4. CASE n - 1 >= z
    <3> DEFINE m == (n - 1) - z + 1
    <3>1. /\ m \in 1 .. L - z + 1 /\ m < L - z + 1 /\ m + 1 \in 1 .. L - z + 1 /\ m + 1 = n - z + 1
          /\ ~ (n - 1 < a) /\ ~ (n - 1 < z) /\ n # a /\ n # z /\ ~ (n < a) /\ ~ (n < z)
          /\ LeadLen(hops) + (m + 1) - 1 = LeadLen(hops) + m /\ LeadLen(hops) + m \in Nat
      BY <1>1, <1>3, <2>1, <2>4
    <3>2. w.leave[n - 1] = t[m]
      BY <1>8, <2>1, <3>1
    <3> HIDE DEF m
    <3>3. w.enter[n] = t[m + 1]
      BY <1>8, <2>1, <3>1
    <3>4. t[m].detour = TagAt(req, LeadLen(hops) + m) /\ t[m + 1].tag = TagAt(req, LeadLen(hops) + m)
      BY <1>6, <2>1, <3>1
    <3> QED
      BY <1>7, <3>1, <3>2, <3>3, <3>4
  <2> QED
    BY <1>1, <2>1, <2>2, <2>3, <2>4
<1>13. w.leave[L].detour = NoTag
  <2>0. L \in 1 .. L
    BY <1>1
  <2>1. CASE L < a
    <3>1. LeadLen(hops) = L /\ L \in 1 .. LeadLen(hops) /\ ~ (req.warpWrap /\ L = 1) /\ ~ (L < LeadLen(hops))
      BY <1>1, <1>2, <1>3, <2>1
    <3>2. w.leave[L] = s[L]
      BY <1>8, <2>0, <2>1
    <3> QED
      BY <1>4, <3>1, <3>2
  <2>2. CASE L >= a /\ L < z
    <3>1. L - a + 1 = z - a /\ z - a \in 1 .. z - a /\ ~ (z <= L) /\ ~ (L < a) /\ ~ (z - a < z - a)
      BY <1>1, <2>2
    <3>2. w.leave[L] = x[z - a]
      BY <1>8, <2>0, <2>2, <3>1
    <3> QED
      BY <1>5, <3>1, <3>2
  <2>3. CASE L >= z
    <3>1. L - z + 1 \in 1 .. L - z + 1 /\ ~ (L - z + 1 < L - z + 1) /\ ~ (L < a) /\ ~ (L < z)
      BY <1>1, <2>3
    <3>2. w.leave[L] = t[L - z + 1]
      BY <1>8, <2>0, <3>1
    <3> QED
      BY <1>6, <3>1, <3>2
  <2> QED
    BY <1>1, <2>1, <2>2, <2>3
<1>14. w.enter[1].tag = IngressTag(req)
  <2>1. 1 \in 1 .. L /\ 1 \in 1 .. LeadLen(hops) /\ (1 # a => 1 < a /\ 1 # z)
    BY <1>1, <1>3
  <2>2. w.enter[1] = s[1]
    BY <1>8, <2>1
  <2> QED
    BY <1>2, <1>4, <2>1, <2>2, IngressTagIs
<1>15. w.leave \in [1 .. L -> Outs] /\ w.enter \in [1 .. L -> Outs]
  BY <1>9, <1>10
<1>16. \A n \in 1 .. L : PassesHop(y, hops, w, n)
  BY <1>9, <1>10, <1>11 DEF PassesHop
<1>17. IsWalk(y, hops, IngressTag(req), w)
  BY <1>12, <1>13, <1>14, <1>15, <1>16 DEF IsWalk, L
<1> QED
  BY <1>17 DEF w, hops


-----------------------------------------------------------------------------
(* The lists name each of their things once. *)

TagsOf(s) == {s[i].tag : i \in DOMAIN s}
OneTagEach(s) == \A i, j \in DOMAIN s : s[i].tag = s[j].tag => i = j
EachOnce(s) == \A i, j \in DOMAIN s : s[i] = s[j] => i = j

\* Lists put together, with different tags, have each tag once.
LEMMA Concats ==
    ASSUME NEW S, NEW s \in Seq(S), NEW t \in Seq(S)
    PROVE  /\ ToSet(s \o t) = ToSet(s) \cup ToSet(t) /\ TagsOf(s \o t) = TagsOf(s) \cup TagsOf(t)
           /\ OneTagEach(s) /\ OneTagEach(t) /\ TagsOf(s) \cap TagsOf(t) = {} => OneTagEach(s \o t)
<1> DEFINE m == Len(s)
           n == Len(t)
           u == s \o t
<1>1. m \in Nat /\ n \in Nat /\ DOMAIN s = 1 .. m /\ DOMAIN t = 1 .. n
  BY LenProperties
<1>2. u \in Seq(S) /\ Len(u) = m + n /\ \A i \in 1 .. m + n : u[i] = IF i <= m THEN s[i] ELSE t[i - m]
  BY ConcatProperties
<1>3. DOMAIN u = 1 .. m + n
  BY <1>2, LenProperties
<1> HIDE DEF m, n, u
<1>4. ASSUME NEW i \in 1 .. m PROVE i \in DOMAIN u /\ u[i] = s[i]
  BY <1>1, <1>2, <1>3
<1>5. ASSUME NEW i \in 1 .. n PROVE i + m \in DOMAIN u /\ u[i + m] = t[i]
  <2>1. i + m \in 1 .. m + n /\ ~ (i + m <= m) /\ (i + m) - m = i
    BY <1>1
  <2> QED
    BY <1>2, <1>3, <2>1
<1>6. ASSUME NEW i \in DOMAIN u
      PROVE  (i <= m /\ i \in 1 .. m /\ u[i] = s[i]) \/ (i > m /\ i - m \in 1 .. n /\ u[i] = t[i - m])
  BY <1>1, <1>2, <1>3
<1>7. ToSet(u) = ToSet(s) \cup ToSet(t)
  <2>1. ToSet(u) \subseteq ToSet(s) \cup ToSet(t)
    BY <1>1, <1>6 DEF ToSet
  <2>2. ToSet(s) \cup ToSet(t) \subseteq ToSet(u)
    BY <1>1, <1>4, <1>5 DEF ToSet
  <2> QED
    BY <2>1, <2>2
<1>8. TagsOf(u) = TagsOf(s) \cup TagsOf(t)
  <2>1. TagsOf(u) \subseteq TagsOf(s) \cup TagsOf(t)
    BY <1>1, <1>6 DEF TagsOf
  <2>2. TagsOf(s) \cup TagsOf(t) \subseteq TagsOf(u)
    BY <1>1, <1>4, <1>5 DEF TagsOf
  <2> QED
    BY <2>1, <2>2
<1>9. ASSUME OneTagEach(s), OneTagEach(t), TagsOf(s) \cap TagsOf(t) = {} PROVE OneTagEach(u)
  <2> SUFFICES ASSUME NEW i \in DOMAIN u, NEW j \in DOMAIN u, u[i].tag = u[j].tag PROVE i = j
    BY DEF OneTagEach
  <2>1. \A g \in 1 .. m, h \in 1 .. n : s[g].tag # t[h].tag
    BY <1>1, <1>9 DEF TagsOf
  <2>2. CASE i <= m /\ j <= m
    <3>1. i \in 1 .. m /\ j \in 1 .. m /\ s[i].tag = s[j].tag
      BY <1>1, <1>3, <1>6, <2>2
    <3> QED
      BY <1>1, <1>9, <3>1 DEF OneTagEach
  <2>3. CASE i > m /\ j > m
    <3>1. i - m \in 1 .. n /\ j - m \in 1 .. n /\ t[i - m].tag = t[j - m].tag
      BY <1>1, <1>3, <1>6, <2>3
    <3>2. i - m = j - m
      BY <1>1, <1>9, <3>1 DEF OneTagEach
    <3> QED
      BY <1>1, <1>3, <3>2
  <2>4. CASE i <= m /\ j > m
    BY <1>1, <1>3, <1>6, <2>1, <2>4
  <2>5. CASE i > m /\ j <= m
    BY <1>1, <1>3, <1>6, <2>1, <2>5
  <2> QED
    BY <1>1, <1>3, <2>2, <2>3, <2>4, <2>5
<1> QED
  BY <1>7, <1>8, <1>9 DEF u

\* A list with one more entry.
LEMMA Appends ==
    ASSUME NEW S, NEW s \in Seq(S), NEW v \in S
    PROVE  /\ Append(s, v) \in Seq(S) /\ Len(Append(s, v)) = Len(s) + 1
           /\ DOMAIN Append(s, v) = DOMAIN s \cup {Len(s) + 1}
           /\ \A i \in DOMAIN s : Append(s, v)[i] = s[i]
           /\ Append(s, v)[Len(s) + 1] = v
           /\ ToSet(Append(s, v)) = ToSet(s) \cup {v}
           /\ EachOnce(s) /\ v \notin ToSet(s) => EachOnce(Append(s, v))
<1> DEFINE m == Len(s)
           u == Append(s, v)
<1>1. m \in Nat /\ DOMAIN s = 1 .. m
  BY LenProperties
<1>2. u \in Seq(S) /\ Len(u) = m + 1 /\ u[m + 1] = v /\ \A i \in 1 .. m : u[i] = s[i]
  BY AppendProperties
<1>3. DOMAIN u = 1 .. m + 1
  BY <1>2, LenProperties
<1> HIDE DEF m, u
<1>4. DOMAIN u = DOMAIN s \cup {m + 1} /\ m + 1 \notin DOMAIN s
  BY <1>1, <1>3
<1>5. ToSet(u) = ToSet(s) \cup {v}
  <2>1. ToSet(u) \subseteq ToSet(s) \cup {v}
    BY <1>1, <1>2, <1>4 DEF ToSet
  <2>2. ToSet(s) \subseteq ToSet(u) /\ v \in ToSet(u)
    BY <1>1, <1>2, <1>4 DEF ToSet
  <2> QED
    BY <2>1, <2>2
<1>6. EachOnce(s) /\ v \notin ToSet(s) => EachOnce(u)
  BY <1>1, <1>2, <1>4 DEF EachOnce, ToSet
<1> QED
  BY <1>1, <1>2, <1>4, <1>5, <1>6 DEF m, u

\* The tags of one chain differ.
LEMMA TagsDiffer ==
    ASSUME NEW req \in Requests
    PROVE  /\ \A i, j \in Nat : TagAt(req, i) = TagAt(req, j) => i = j
           /\ \A i, j \in Nat \ {0} : /\ WrappedTag(req, i) = WrappedTag(req, j) => i = j
                                      /\ PlainTag(req, i) = PlainTag(req, j) => i = j
           /\ \A i \in Nat \ {0}, j \in Nat :
                 j >= i => WrappedTag(req, i) # TagAt(req, j) /\ PlainTag(req, i) # TagAt(req, j)
<1>1. req.prefix \in TagPrefixes /\ req.startSuffix \in Nat
  BY DEF Requests
<1>2. ASSUME NEW i \in Nat
      PROVE  TagAt(req, i) \notin {Proxy, WarpBypass} /\ \A j \in Nat : TagAt(req, i) = TagAt(req, j) => i = j
  <2>1. req.startSuffix + i \in Nat
    BY <1>1
  <2>2. TagAt(req, i) \notin {Proxy, WarpBypass}
    BY <1>1, <2>1, HopTagIs DEF TagAt
  <2>3. ASSUME NEW j \in Nat, TagAt(req, i) = TagAt(req, j) PROVE i = j
    <3>1. req.startSuffix + j \in Nat
      BY <1>1
    <3>2. req.startSuffix + i = req.startSuffix + j
      BY <1>1, <2>1, <2>3, <3>1, HopTagIs DEF TagAt
    <3> QED
      BY <1>1, <3>2
  <2> QED
    BY <2>2, <2>3
<1>3. ASSUME NEW i \in Nat \ {0}
      PROVE  /\ PlainTag(req, i) = TagAt(req, i - 1) \/ (i = 1 /\ PlainTag(req, i) = Proxy)
             /\ \/ WrappedTag(req, i) = TagAt(req, i - 1)
                \/ i = 1 /\ WrappedTag(req, i) = Proxy
                \/ i = 2 /\ WrappedTag(req, i) = WarpBypass
             /\ i - 1 \in Nat
  <2>1. req.startSuffix + i - 1 = req.startSuffix + (i - 1)
    BY <1>1
  <2> QED
    BY <2>1 DEF PlainTag, WrappedTag, TagAt
<1>4. ASSUME NEW i \in Nat \ {0}, NEW j \in Nat \ {0}
      PROVE  /\ WrappedTag(req, i) = WrappedTag(req, j) => i = j
             /\ PlainTag(req, i) = PlainTag(req, j) => i = j
  <2>1. TagAt(req, i - 1) = TagAt(req, j - 1) => i = j
    <3>1. i - 1 \in Nat /\ j - 1 \in Nat /\ (i - 1 = j - 1 => i = j)
      OBVIOUS
    <3> QED
      BY <1>2, <3>1
  <2>2. TagAt(req, i - 1) \notin {Proxy, WarpBypass} /\ TagAt(req, j - 1) \notin {Proxy, WarpBypass}
    BY <1>2, <1>3
  <2> QED
    BY <1>3, <2>1, <2>2, OwnNames
<1>5. ASSUME NEW i \in Nat \ {0}, NEW j \in Nat, j >= i
      PROVE  WrappedTag(req, i) # TagAt(req, j) /\ PlainTag(req, i) # TagAt(req, j)
  <2>1. TagAt(req, j) \notin {Proxy, WarpBypass} /\ i - 1 \in Nat /\ j # i - 1
    BY <1>2, <1>5
  <2>2. TagAt(req, j) # TagAt(req, i - 1)
    BY <1>2, <2>1
  <2> QED
    BY <1>3, <2>1, <2>2
<1> QED
  BY <1>2, <1>4, <1>5

\* The pieces of a chain have tags of its block, each once.
LEMMA PieceTags ==
    ASSUME NEW req, IsRequest(req), Parts(req.hops), NEW p \in PortRecords,
           NEW s, LeadIs(req, p, s), NEW x, CrossIs(req, p, x), NEW t, TailIs(req, t)
    PROVE  /\ TagsOf(s) \subseteq Block(req) /\ TagsOf(x) \subseteq Block(req) /\ TagsOf(t) \subseteq Block(req)
           /\ OneTagEach(s) /\ OneTagEach(x) /\ OneTagEach(t) /\ TagsOf(s) \cap TagsOf(t) = {}
<1> DEFINE hops == req.hops
           a == FirstXray(hops)
           z == FirstBack(hops)
           L == Len(hops)
           l == LeadLen(hops)
<1>1. /\ L \in Nat /\ a \in Nat /\ z \in Nat /\ 1 <= a /\ a <= L + 1 /\ a <= z /\ z <= L + 1
      /\ (a <= L => a < z) /\ l \in Nat /\ l <= L /\ (z <= L => l = a) /\ (z > L => a > L \/ l = a)
      /\ req \in Requests
  <2>1. hops \in Seq(Hops)
    BY DEF IsRequest, Requests
  <2>2. L \in Nat
    BY <2>1, LenProperties
  <2> QED
    BY <2>2 DEF Parts, LeadLen, IsRequest
<1>2. DOMAIN s = 1 .. l /\ \A i \in 1 .. l : s[i].tag = WrappedTag(req, i)
  <2>1. s \in Seq(Outs) /\ Len(s) = l
    BY DEF LeadIs
  <2> QED
    BY <2>1, LenProperties DEF LeadIs
<1>3. /\ DOMAIN x = 1 .. (z - a) + (IF z <= L THEN 1 ELSE 0)
      /\ \A i \in 1 .. z - a : x[i].tag = PlainTag(req, i)
      /\ z <= L => x[z - a + 1].tag = TagAt(req, z - a)
  <2>1. x \in Seq(Outs) /\ Len(x) = (z - a) + IF z <= L THEN 1 ELSE 0
    BY DEF CrossIs
  <2> QED
    BY <2>1, LenProperties DEF CrossIs
<1>4. DOMAIN t = 1 .. L - z + 1 /\ \A i \in 1 .. L - z + 1 : t[i].tag = TagAt(req, l + i - 1)
  <2>1. t \in Seq(Outs) /\ Len(t) = L - z + 1
    BY DEF TailIs
  <2> QED
    BY <2>1, LenProperties DEF TailIs
<1>5. /\ \A i \in 1 .. L : WrappedTag(req, i) \in Block(req) /\ PlainTag(req, i) \in Block(req)
      /\ \A i \in 0 .. L - 1 : TagAt(req, i) \in Block(req)
  BY BlockTags
<1>6. /\ \A i, j \in Nat : TagAt(req, i) = TagAt(req, j) => i = j
      /\ \A i, j \in Nat \ {0} : /\ WrappedTag(req, i) = WrappedTag(req, j) => i = j
                                 /\ PlainTag(req, i) = PlainTag(req, j) => i = j
      /\ \A i \in Nat \ {0}, j \in Nat :
            j >= i => WrappedTag(req, i) # TagAt(req, j) /\ PlainTag(req, i) # TagAt(req, j)
  BY <1>1, TagsDiffer
<1> HIDE DEF hops, a, z, L, l
<1>7. TagsOf(s) \subseteq Block(req) /\ OneTagEach(s)
  <2>1. \A i \in 1 .. l : i \in 1 .. L /\ i \in Nat \ {0}
    BY <1>1
  <2>2. TagsOf(s) \subseteq Block(req)
    BY <1>2, <1>5, <2>1 DEF TagsOf
  <2> QED
    BY <1>2, <1>6, <2>1, <2>2 DEF OneTagEach
<1>8. TagsOf(t) \subseteq Block(req) /\ OneTagEach(t)
  <2>1. ASSUME NEW i \in 1 .. L - z + 1 PROVE l + i - 1 \in 0 .. L - 1 /\ l + i - 1 \in Nat
    BY <1>1
  <2>2. TagsOf(t) \subseteq Block(req)
    BY <1>4, <1>5, <2>1 DEF TagsOf
  <2>3. ASSUME NEW i \in 1 .. L - z + 1, NEW j \in 1 .. L - z + 1, t[i].tag = t[j].tag PROVE i = j
    <3>1. l + i - 1 = l + j - 1
      BY <1>4, <1>6, <2>1, <2>3
    <3> QED
      BY <1>1, <3>1
  <2> QED
    BY <1>4, <2>2, <2>3 DEF OneTagEach
<1>9. TagsOf(x) \subseteq Block(req) /\ OneTagEach(x)
  <2>1. ASSUME NEW i \in DOMAIN x
        PROVE  \/ i \in 1 .. z - a /\ i \in 1 .. L /\ i \in Nat \ {0} /\ x[i].tag = PlainTag(req, i)
               \/ /\ i = z - a + 1 /\ z <= L /\ z - a \in 0 .. L - 1 /\ z - a \in Nat
                  /\ x[i].tag = TagAt(req, z - a)
    BY <1>1, <1>3
  <2>2. TagsOf(x) \subseteq Block(req)
    BY <1>5, <2>1 DEF TagsOf
  <2>3. ASSUME NEW i \in DOMAIN x, NEW j \in DOMAIN x, x[i].tag = x[j].tag PROVE i = j
    <3>1. CASE i \in 1 .. z - a /\ j \in 1 .. z - a
      <4>1. i \in Nat \ {0} /\ j \in Nat \ {0} /\ PlainTag(req, i) = PlainTag(req, j)
        BY <1>1, <1>3, <2>3, <3>1
      <4> QED
        BY <1>6, <4>1
    <3>2. CASE i \in 1 .. z - a /\ j \notin 1 .. z - a
      <4>1. i \in Nat \ {0} /\ z - a \in Nat /\ z - a >= i /\ PlainTag(req, i) = TagAt(req, z - a)
        BY <1>1, <2>1, <2>3, <3>2
      <4> QED
        BY <1>6, <4>1
    <3>3. CASE i \notin 1 .. z - a /\ j \in 1 .. z - a
      <4>1. j \in Nat \ {0} /\ z - a \in Nat /\ z - a >= j /\ PlainTag(req, j) = TagAt(req, z - a)
        BY <1>1, <2>1, <2>3, <3>3
      <4> QED
        BY <1>6, <4>1
    <3>4. CASE i \notin 1 .. z - a /\ j \notin 1 .. z - a
      BY <2>1, <3>4
    <3> QED
      BY <3>1, <3>2, <3>3, <3>4
  <2> QED
    BY <2>2, <2>3 DEF OneTagEach
<1>10. TagsOf(s) \cap TagsOf(t) = {}
  <2>1. ASSUME NEW i \in 1 .. l, NEW j \in 1 .. L - z + 1 PROVE s[i].tag # t[j].tag
    <3>1. i \in Nat \ {0} /\ l + j - 1 \in Nat /\ l + j - 1 >= i
      BY <1>1
    <3> QED
      BY <1>2, <1>4, <1>6, <3>1
  <2> QED
    BY <1>2, <1>4, <2>1 DEF TagsOf
<1> QED
  BY <1>7, <1>8, <1>9, <1>10


OutLists(x) ==
    /\ x.outbounds \in Seq(Outs) /\ x.xrayOutbounds \in Seq(Outs)
    /\ OneTagEach(x.outbounds) /\ OneTagEach(x.xrayOutbounds)
BridgeLists(x) ==
    /\ x.singToXray \in Seq(Nat) /\ x.xrayToSing \in Seq(Nat)
    /\ x.singIngress \in Seq(TagNames) /\ x.xrayIngress \in Seq(TagNames)
    /\ Len(x.singToXray) = Len(x.xrayIngress) /\ Len(x.xrayToSing) = Len(x.singIngress)
    /\ EachOnce(x.singToXray) /\ EachOnce(x.xrayToSing)
Lists(x) ==
    /\ IsCtx(x) /\ OutLists(x) /\ BridgeLists(x)
    /\ x.fulls \in Seq(Nat) /\ x.xrayConfig \in Nat /\ x.dealt \in Nat
ListTags(x) == TagsOf(x.outbounds) \cup TagsOf(x.xrayOutbounds)
ListPorts(x) == ToSet(x.singToXray) \cup ToSet(x.xrayToSing)

\* The ports a chain takes for its bridges.
TakenPorts(hops, p) ==
    (IF FirstXray(hops) <= Len(hops) THEN {p.singToXray} ELSE {})
    \cup (IF FirstBack(hops) <= Len(hops) THEN {p.xrayToSing} ELSE {})

Extends(x, y) ==
    /\ In(x, "sing") \subseteq In(y, "sing") /\ In(x, "xray") \subseteq In(y, "xray")
    /\ \A port, tag : /\ Joins(x, "sing", port, tag) => Joins(y, "sing", port, tag)
                      /\ Joins(x, "xray", port, tag) => Joins(y, "xray", port, tag)

\* A chain with tags of its own leaves each tag once.
LEMMA OutListsGrow ==
    ASSUME NEW x, NEW y, NEW req, IsRequest(req), Parts(req.hops), NEW p \in PortRecords,
           ~ChainError(req.hops, p), BuiltFrom(x, y, req, p), OutLists(x),
           Block(req) \cap ListTags(x) = {}
    PROVE  /\ OutLists(y) /\ ListTags(y) \subseteq ListTags(x) \cup Block(req)
           /\ ToSet(x.outbounds) \subseteq ToSet(y.outbounds)
           /\ ToSet(x.xrayOutbounds) \subseteq ToSet(y.xrayOutbounds)
           /\ ToSet(LeadOuts(req, p)) \cup ToSet(TailOuts(req, p)) \subseteq ToSet(y.outbounds)
           /\ ToSet(XrayOuts(req, p)) \subseteq ToSet(y.xrayOutbounds)
<1> DEFINE s == LeadOuts(req, p)
           t == TailOuts(req, p)
           c == XrayOuts(req, p)
           a == FirstXray(req.hops)
           z == FirstBack(req.hops)
           L == Len(req.hops)
<1>1. req \in Requests
  BY DEF IsRequest
<1>2. LeadIs(req, p, s) /\ TailIs(req, t) /\ CrossIs(req, p, c)
  BY <1>1, LeadOutsAre, TailOutsAre, XrayOutsAre
<1>3. s \in Seq(Outs) /\ t \in Seq(Outs) /\ c \in Seq(Outs)
  BY <1>2 DEF LeadIs, TailIs, CrossIs
<1>4. /\ y.outbounds = (x.outbounds \o s) \o t
      /\ y.xrayOutbounds = IF a <= L THEN x.xrayOutbounds \o c ELSE x.xrayOutbounds
  BY DEF BuiltFrom
<1>5. ~ (a <= L) => ToSet(c) = {} /\ TagsOf(c) = {}
  <2> SUFFICES ASSUME ~ (a <= L) PROVE ToSet(c) = {} /\ TagsOf(c) = {}
    OBVIOUS
  <2>1. Len(c) = (z - a) + (IF z <= L THEN 1 ELSE 0)
    BY <1>2 DEF CrossIs
  <2>2. req.hops \in Seq(Hops) /\ L \in Nat
    BY <1>1, LenProperties DEF Requests
  <2>3. z - a = 0 /\ ~ (z <= L)
    BY <2>2 DEF Parts
  <2>4. DOMAIN c = 1 .. 0
    BY <1>3, <2>1, <2>3, LenProperties
  <2> QED
    BY <2>4 DEF ToSet, TagsOf
<1>6. /\ TagsOf(s) \subseteq Block(req) /\ TagsOf(c) \subseteq Block(req) /\ TagsOf(t) \subseteq Block(req)
      /\ OneTagEach(s) /\ OneTagEach(c) /\ OneTagEach(t) /\ TagsOf(s) \cap TagsOf(t) = {}
  BY <1>2, PieceTags
<1>7. x.outbounds \in Seq(Outs) /\ x.xrayOutbounds \in Seq(Outs) /\ OneTagEach(x.outbounds) /\ OneTagEach(x.xrayOutbounds)
      /\ TagsOf(x.outbounds) \cap Block(req) = {} /\ TagsOf(x.xrayOutbounds) \cap Block(req) = {}
  BY DEF OutLists, ListTags
<1> HIDE DEF s, t, c, a, z, L
<1> DEFINE u == x.outbounds \o s
<1>8. u \in Seq(Outs) /\ OneTagEach(u) /\ ToSet(u) = ToSet(x.outbounds) \cup ToSet(s)
      /\ TagsOf(u) = TagsOf(x.outbounds) \cup TagsOf(s)
  <2>1. u \in Seq(Outs)
    BY <1>3, <1>7, ConcatProperties
  <2>2. TagsOf(x.outbounds) \cap TagsOf(s) = {}
    BY <1>6, <1>7
  <2> QED
    BY <1>3, <1>6, <1>7, <2>1, <2>2, Concats
<1> HIDE DEF u
<1>9. /\ u \o t \in Seq(Outs) /\ OneTagEach(u \o t) /\ ToSet(u \o t) = ToSet(u) \cup ToSet(t)
      /\ TagsOf(u \o t) = TagsOf(u) \cup TagsOf(t)
  <2>1. u \o t \in Seq(Outs)
    BY <1>3, <1>8, ConcatProperties
  <2>2. TagsOf(u) \cap TagsOf(t) = {}
    BY <1>6, <1>7, <1>8
  <2> QED
    BY <1>3, <1>6, <1>8, <2>1, <2>2, Concats
<1>10. y.outbounds = u \o t
  BY <1>4 DEF u
<1>11. /\ y.xrayOutbounds \in Seq(Outs) /\ OneTagEach(y.xrayOutbounds)
       /\ ToSet(y.xrayOutbounds) = ToSet(x.xrayOutbounds) \cup ToSet(c)
       /\ TagsOf(y.xrayOutbounds) = TagsOf(x.xrayOutbounds) \cup TagsOf(c)
  <2>1. CASE a <= L
    <3>1. x.xrayOutbounds \o c \in Seq(Outs)
      BY <1>3, <1>7, ConcatProperties
    <3>2. TagsOf(x.xrayOutbounds) \cap TagsOf(c) = {}
      BY <1>6, <1>7
    <3>3. y.xrayOutbounds = x.xrayOutbounds \o c
      BY <1>4, <2>1
    <3> QED
      BY <1>3, <1>6, <1>7, <3>1, <3>2, <3>3, Concats
  <2>2. CASE ~ (a <= L)
    BY <1>4, <1>5, <1>7, <2>2
  <2> QED
    BY <2>1, <2>2
<1>12. OutLists(y)
  BY <1>9, <1>10, <1>11 DEF OutLists
<1>13. ListTags(y) \subseteq ListTags(x) \cup Block(req)
  BY <1>6, <1>8, <1>9, <1>10, <1>11 DEF ListTags
<1> QED
  BY <1>8, <1>9, <1>10, <1>11, <1>12, <1>13 DEF s, t, c

\* A chain with ports of its own leaves each port once, and its bridges lead on.
LEMMA BridgeListsGrow ==
    ASSUME NEW x, NEW y, NEW req, IsRequest(req), Parts(req.hops), NEW p \in PortRecords,
           BuiltFrom(x, y, req, p), BridgeLists(x),
           TakenPorts(req.hops, p) \cap ListPorts(x) = {}
    PROVE  /\ BridgeLists(y) /\ ListPorts(y) \subseteq ListPorts(x) \cup TakenPorts(req.hops, p)
           /\ \A port, tag : /\ Joins(x, "sing", port, tag) => Joins(y, "sing", port, tag)
                             /\ Joins(x, "xray", port, tag) => Joins(y, "xray", port, tag)
           /\ FirstXray(req.hops) <= Len(req.hops) => Joins(y, "sing", p.singToXray, IngressTag(req))
           /\ FirstBack(req.hops) <= Len(req.hops)
                 => Joins(y, "xray", p.xrayToSing, TagAt(req, LeadLen(req.hops)))
<1> DEFINE crosses == FirstXray(req.hops) <= Len(req.hops)
           returns == FirstBack(req.hops) <= Len(req.hops)
           i1 == IngressTag(req)
           i2 == TagAt(req, LeadLen(req.hops))
<1>1. req \in Requests /\ p.singToXray \in Nat /\ p.xrayToSing \in Nat
  BY DEF IsRequest, PortRecords
<1>2. i1 \in TagNames /\ i2 \in TagNames
  <2>1. i1 \in TagNames
    BY <1>1, IngressTagIs
  <2>2. LeadLen(req.hops) \in Nat
    <3>1. req.hops \in Seq(Hops) /\ Len(req.hops) \in Nat
      BY <1>1, LenProperties DEF Requests
    <3> QED
      BY <3>1 DEF LeadLen, Parts
  <2> QED
    BY <2>1, <2>2, BlockTags
<1>3. /\ y.singToXray = IF crosses THEN Append(x.singToXray, p.singToXray) ELSE x.singToXray
      /\ y.xrayIngress = IF crosses THEN Append(x.xrayIngress, i1) ELSE x.xrayIngress
      /\ y.xrayToSing = IF returns THEN Append(x.xrayToSing, p.xrayToSing) ELSE x.xrayToSing
      /\ y.singIngress = IF returns THEN Append(x.singIngress, i2) ELSE x.singIngress
  BY DEF BuiltFrom
<1>4. /\ crosses => p.singToXray \notin ToSet(x.singToXray) /\ p.singToXray \in TakenPorts(req.hops, p)
      /\ returns => p.xrayToSing \notin ToSet(x.xrayToSing) /\ p.xrayToSing \in TakenPorts(req.hops, p)
  BY DEF TakenPorts, ListPorts
<1>5. /\ x.singToXray \in Seq(Nat) /\ x.xrayToSing \in Seq(Nat)
      /\ x.singIngress \in Seq(TagNames) /\ x.xrayIngress \in Seq(TagNames)
      /\ Len(x.singToXray) = Len(x.xrayIngress) /\ Len(x.xrayToSing) = Len(x.singIngress)
      /\ EachOnce(x.singToXray) /\ EachOnce(x.xrayToSing)
  BY DEF BridgeLists
<1> HIDE DEF crosses, returns, i1, i2
<1>6. /\ y.singToXray \in Seq(Nat) /\ y.xrayIngress \in Seq(TagNames) /\ EachOnce(y.singToXray)
      /\ Len(y.singToXray) = Len(y.xrayIngress)
      /\ ToSet(y.singToXray) \subseteq ToSet(x.singToXray) \cup TakenPorts(req.hops, p)
      /\ \A port, tag : Joins(x, "sing", port, tag) => Joins(y, "sing", port, tag)
      /\ crosses => Joins(y, "sing", p.singToXray, i1)
  <2>1. CASE crosses
    <3> DEFINE f == y.singToXray
               g == y.xrayIngress
               n == Len(x.singToXray) + 1
    <3>1. /\ f \in Seq(Nat) /\ Len(f) = n /\ (\A i \in DOMAIN x.singToXray : f[i] = x.singToXray[i])
          /\ f[n] = p.singToXray /\ ToSet(f) = ToSet(x.singToXray) \cup {p.singToXray} /\ EachOnce(f)
      <4>1. f = Append(x.singToXray, p.singToXray)
        BY <1>3, <2>1
      <4> HIDE DEF f
      <4> QED
        BY <1>1, <1>4, <1>5, <2>1, <4>1, Appends
    <3>2. /\ g \in Seq(TagNames) /\ Len(g) = n /\ DOMAIN g = DOMAIN x.xrayIngress \cup {n}
          /\ (\A i \in DOMAIN x.xrayIngress : g[i] = x.xrayIngress[i]) /\ g[n] = i1
      <4>1. g = Append(x.xrayIngress, i1)
        BY <1>3, <2>1
      <4> HIDE DEF g
      <4> QED
        BY <1>2, <1>5, <4>1, Appends
    <3>3. DOMAIN x.singToXray = DOMAIN x.xrayIngress
      BY <1>5, LenProperties
    <3> HIDE DEF n
    <3>4. \A port, tag : Joins(x, "sing", port, tag) => Joins(y, "sing", port, tag)
      BY <3>1, <3>2, <3>3 DEF Joins
    <3>5. Joins(y, "sing", p.singToXray, i1)
      BY <3>1, <3>2 DEF Joins
    <3> QED
      BY <1>4, <2>1, <3>1, <3>2, <3>4, <3>5
  <2>2. CASE ~crosses
    BY <1>3, <1>5, <2>2 DEF Joins
  <2> QED
    BY <2>1, <2>2
<1>7. /\ y.xrayToSing \in Seq(Nat) /\ y.singIngress \in Seq(TagNames) /\ EachOnce(y.xrayToSing)
      /\ Len(y.xrayToSing) = Len(y.singIngress)
      /\ ToSet(y.xrayToSing) \subseteq ToSet(x.xrayToSing) \cup TakenPorts(req.hops, p)
      /\ \A port, tag : Joins(x, "xray", port, tag) => Joins(y, "xray", port, tag)
      /\ returns => Joins(y, "xray", p.xrayToSing, i2)
  <2>1. CASE returns
    <3> DEFINE f == y.xrayToSing
               g == y.singIngress
               n == Len(x.xrayToSing) + 1
    <3>1. /\ f \in Seq(Nat) /\ Len(f) = n /\ (\A i \in DOMAIN x.xrayToSing : f[i] = x.xrayToSing[i])
          /\ f[n] = p.xrayToSing /\ ToSet(f) = ToSet(x.xrayToSing) \cup {p.xrayToSing} /\ EachOnce(f)
      <4>1. f = Append(x.xrayToSing, p.xrayToSing)
        BY <1>3, <2>1
      <4> HIDE DEF f
      <4> QED
        BY <1>1, <1>4, <1>5, <2>1, <4>1, Appends
    <3>2. /\ g \in Seq(TagNames) /\ Len(g) = n /\ DOMAIN g = DOMAIN x.singIngress \cup {n}
          /\ (\A i \in DOMAIN x.singIngress : g[i] = x.singIngress[i]) /\ g[n] = i2
      <4>1. g = Append(x.singIngress, i2)
        BY <1>3, <2>1
      <4> HIDE DEF g
      <4> QED
        BY <1>2, <1>5, <4>1, Appends
    <3>3. DOMAIN x.xrayToSing = DOMAIN x.singIngress
      BY <1>5, LenProperties
    <3> HIDE DEF n
    <3>4. \A port, tag : Joins(x, "xray", port, tag) => Joins(y, "xray", port, tag)
      BY <3>1, <3>2, <3>3 DEF Joins
    <3>5. Joins(y, "xray", p.xrayToSing, i2)
      BY <3>1, <3>2 DEF Joins
    <3> QED
      BY <1>4, <2>1, <3>1, <3>2, <3>4, <3>5
  <2>2. CASE ~returns
    BY <1>3, <1>5, <2>2 DEF Joins
  <2> QED
    BY <2>1, <2>2
<1>8. BridgeLists(y) /\ ListPorts(y) \subseteq ListPorts(x) \cup TakenPorts(req.hops, p)
  BY <1>6, <1>7 DEF BridgeLists, ListPorts
<1> QED
  BY <1>6, <1>7, <1>8 DEF crosses, returns, i1, i2

\* A walk stays one when the lists grow.
LEMMA WalkStays ==
    ASSUME NEW x, NEW y, Extends(x, y), NEW hops, NEW tag, NEW w, IsWalk(x, hops, tag, w)
    PROVE  IsWalk(y, hops, tag, w)
<1>1. \A c : In(x, c) \subseteq In(y, c) /\ \A port, t : Joins(x, c, port, t) => Joins(y, c, port, t)
  <2> SUFFICES ASSUME NEW c
               PROVE  In(x, c) \subseteq In(y, c) /\ \A port, t : Joins(x, c, port, t) => Joins(y, c, port, t)
    OBVIOUS
  <2>1. CASE c = "sing"
    BY <2>1 DEF Extends
  <2>2. CASE c # "sing"
    <3>1. In(x, c) = In(x, "xray") /\ In(y, c) = In(y, "xray")
      BY <2>2 DEF In
    <3>2. \A port, t : (Joins(x, c, port, t) <=> Joins(x, "xray", port, t))
                       /\ (Joins(y, c, port, t) <=> Joins(y, "xray", port, t))
      BY <2>2 DEF Joins
    <3> QED
      BY <3>1, <3>2 DEF Extends
  <2> QED
    BY <2>1, <2>2
<1>2. \A n \in 1 .. Len(hops) : PassesHop(x, hops, w, n) => PassesHop(y, hops, w, n)
  BY <1>1 DEF PassesHop
<1> QED
  BY <1>2 DEF IsWalk


-----------------------------------------------------------------------------
(* All chains of a build. *)

Asked == [tag : TagNames, hops : Seq(Hops), credit : Seq(Credits), drained : BOOLEAN]
Scanned(c) ==
    /\ c.hops # <<>> /\ ~ChainScanError(c.hops)
    /\ c.drained => Opaque(c.hops)
    /\ c.credit = <<>> \/ \E p \in Credits \ Hops : c.credit = <<p>>

\* An opaque configuration has an instance of its own, or the slot as long as no other
\* chain uses it.
HasInstance(x, a, j, w) ==
    LET port == w.leave[Len(a[j].hops)].port
    IN  Opaque(a[j].hops) =>
           /\ port # 0
           /\ IF a[j].drained THEN port \in ToSet(x.fulls)
              ELSE port = x.xrayConfig \/ \E i \in DOMAIN a : i # j /\ Where(a[i].hops, Full \cup Xray) # {}

\* The group of a chain has its profiles and watches a tag on its way.
GroupRecords == [watch : TagNames, profiles : Seq(Credits)]
Ungrouped == job.purpose = "selector" /\ job.warp
Credited(g, c, w) ==
    /\ g.profiles = c.hops \o c.credit
    /\ \E n \in 1 .. Len(c.hops) : g.watch \in {w.enter[n].tag, w.leave[n].tag}
Groups(x, a, W) ==
    /\ x.chainGroups \in Seq(GroupRecords) /\ Len(x.chainGroups) = Len(a)
    /\ \A j \in DOMAIN a : Credited(x.chainGroups[j], a[j], W[j])

Chains(x, a, T, W) ==
    /\ \A j \in DOMAIN a : /\ IsWalk(x, a[j].hops, a[j].tag, W[j]) /\ W[j].tags \subseteq T
                           /\ HasInstance(x, a, j, W[j])
    /\ \A i, j \in DOMAIN a : i # j => W[i].tags \cap W[j].tags = {}
    /\ Ungrouped \/ Groups(x, a, W)

\* What holds of a context and the chains built in it, where tags of T and ports of U
\* are taken.
Good(x, a, T, U) ==
    /\ Lists(x) /\ ListTags(x) \subseteq T /\ ListPorts(x) \subseteq U
    /\ a \in Seq(Asked) /\ \A j \in DOMAIN a : Scanned(a[j])
    /\ x.xrayOutbounds # <<>> => \E j \in DOMAIN a : Where(a[j].hops, Xray) # {}
    /\ \E W : Chains(x, a, T, W)

\* More may be taken than is.
LEMMA GoodGrows ==
    ASSUME NEW x, NEW a, NEW T, NEW U, NEW T2, NEW U2, Good(x, a, T, U), T \subseteq T2, U \subseteq U2
    PROVE  Good(x, a, T2, U2)
<1>1. \A W : Chains(x, a, T, W) => Chains(x, a, T2, W)
  BY DEF Chains
<1> QED
  BY <1>1 DEF Good

\* What the scan of a chain leaves.
LEMMA ScanLeaves ==
    ASSUME NEW hops \in Seq(Hops), ~ChainScanError(hops)
    PROVE  /\ Parts(hops)
           /\ Where(hops, Full) # {} => Opaque(hops) /\ \A i \in 1 .. Len(hops) : ~IsXray(hops[i])
           /\ Opaque(hops) => Where(hops, Full) # {}
           /\ \A i \in 1 .. Len(hops) : hops[i] \in Full => i = Len(hops)
<1>1. Len(hops) \in Nat /\ DOMAIN hops = 1 .. Len(hops)
  BY LenProperties
<1>2. Cardinality(Transitions(hops)) <= 2
  <2>1. Transitions(hops) \subseteq 1 .. Len(hops) /\ IsFiniteSet(1 .. Len(hops))
    BY <1>1, FS_Interval DEF Transitions
  <2>2. Cardinality(Transitions(hops)) \in Nat
    BY <2>1, FS_Subset, FS_CardinalityType
  <2> QED
    BY <2>2 DEF ChainScanError
<1>3. Parts(hops)
  BY <1>2, PartsAre
<1>4. \A i \in Where(hops, Extra \cup Full) : i = Len(hops)
  BY DEF ChainScanError
<1>5. \A i \in 1 .. Len(hops) : hops[i] \in Full => i = Len(hops)
  BY <1>1, <1>4 DEF Where
<1>6. ASSUME Where(hops, Full) # {}
      PROVE  Opaque(hops) /\ \A i \in 1 .. Len(hops) : ~IsXray(hops[i])
  <2>1. PICK i \in 1 .. Len(hops) : hops[i] \in Full
    BY <1>1, <1>6 DEF Where
  <2>2. hops # <<>> /\ Last(hops) \in Full
    <3>0. i = Len(hops)
      BY <1>5, <2>1
    <3>1. i = Len(hops) /\ Len(hops) # 0
      BY <1>1, <2>1, <3>0
    <3>2. Len(<<>>) = 0
      OBVIOUS
    <3> QED
      BY <2>1, <3>1, <3>2 DEF Last
  <2>3. Where(hops, Extra \cup Xray) = {}
    BY <1>6 DEF ChainScanError
  <2> QED
    BY <1>1, <2>2, <2>3 DEF Opaque, Where, IsXray
<1>7. Opaque(hops) => Where(hops, Full) # {}
  <2> SUFFICES ASSUME Opaque(hops) PROVE Where(hops, Full) # {}
    OBVIOUS
  <2>1. hops # <<>> /\ hops[Len(hops)] \in Full
    BY DEF Opaque, Last
  <2>2. Len(hops) # 0
    BY <2>1, EmptySeq
  <2>3. Len(hops) \in DOMAIN hops
    BY <1>1, <2>2
  <2> QED
    BY <2>1, <2>3 DEF Where
<1> QED
  BY <1>3, <1>5, <1>6, <1>7

\* The chain that is added.
LEMMA NewChainIs ==
    ASSUME NEW req, IsRequest(req), NEW p \in PortRecords, ~ChainError(req.hops, p), NEW y,
           ToSet(LeadOuts(req, p)) \cup ToSet(TailOuts(req, p)) \subseteq ToSet(y.outbounds),
           ToSet(XrayOuts(req, p)) \subseteq ToSet(y.xrayOutbounds),
           FirstXray(req.hops) <= Len(req.hops) => Joins(y, "sing", p.singToXray, IngressTag(req)),
           FirstBack(req.hops) <= Len(req.hops)
              => Joins(y, "xray", p.xrayToSing, TagAt(req, LeadLen(req.hops)))
    PROVE  \E w : /\ IsWalk(y, req.hops, IngressTag(req), w) /\ w.tags = Block(req)
                  /\ Opaque(req.hops) => w.leave[Len(req.hops)].port = p.full /\ p.full # 0
                  /\ \E n \in 1 .. Len(req.hops) : WatchTag(req) \in {w.enter[n].tag, w.leave[n].tag}
                  /\ WatchTag(req) \in TagNames
<1> DEFINE hops == req.hops
           a == FirstXray(hops)
           z == FirstBack(hops)
           L == Len(hops)
           s == LeadOuts(req, p)
           x == XrayOuts(req, p)
           t == TailOuts(req, p)
           w == NewWalk(req, s, x, t)
<1>1. req \in Requests /\ hops \in Seq(Hops) /\ hops # <<>> /\ L \in Nat /\ L # 0 /\ ~ChainScanError(hops)
  <2>1. req \in Requests /\ hops \in Seq(Hops) /\ hops # <<>>
    BY DEF IsRequest, Requests
  <2> QED
    BY <2>1, LenProperties, EmptySeq DEF ChainError
<1>2. Parts(hops)
  BY <1>1, ScanLeaves
<1>3. LeadIs(req, p, s) /\ CrossIs(req, p, x) /\ TailIs(req, t)
  BY <1>1, <1>2, LeadOutsAre, XrayOutsAre, TailOutsAre
<1>4. IsWalk(y, hops, IngressTag(req), w)
  <2>1. ToSet(s) \subseteq In(y, "sing") /\ ToSet(x) \subseteq In(y, "xray") /\ ToSet(t) \subseteq In(y, "sing")
    BY DEF In
  <2> HIDE DEF s, x, t
  <2> QED
    BY <1>2, <1>3, <2>1, NewWalkIs
<1>5. w.tags = Block(req)
  BY DEF NewWalk
<1>6. a \in Nat /\ z \in Nat /\ 1 <= a /\ a <= z
  BY <1>1, <1>2 DEF Parts
<1> HIDE DEF s, x, t
<1>7. Opaque(hops) => w.leave[L].port = p.full /\ p.full # 0
  <2> SUFFICES ASSUME Opaque(hops) PROVE w.leave[L].port = p.full /\ p.full # 0
    OBVIOUS
  <2>1. hops[L] \in Full /\ \A i \in 1 .. L : ~IsXray(hops[i])
    BY <1>1, ScanLeaves DEF Opaque, Last
  <2>2. a = L + 1
    <3>1. a <= L => a < z /\ a \in a .. z - 1 /\ a \in 1 .. L
      BY <1>1, <1>2, <1>6 DEF Parts
    <3>2. ~ (a <= L)
      BY <1>2, <2>1, <3>1 DEF Parts
    <3> QED
      BY <1>1, <1>2, <1>6, <3>2 DEF Parts
  <2>3. L \in 1 .. a - 1 /\ L \in 1 .. L /\ L < a
    BY <1>1, <2>2
  <2>4. w.leave[L] = s[L]
    BY <2>3 DEF NewWalk
  <2>5. s[L].port = p.full
    BY <1>3, <2>1, <2>3 DEF LeadIs
  <2> QED
    BY <2>4, <2>5 DEF ChainError
<1>8. \E n \in 1 .. L : WatchTag(req) \in {w.enter[n].tag, w.leave[n].tag}
  <2>1. CASE z <= L
    <3>1. z \in 1 .. L /\ ~ (z < a) /\ ~ (z < z) /\ z - z + 1 = 1 /\ 1 \in 1 .. L - z + 1
          /\ LeadLen(hops) \in Nat /\ LeadLen(hops) + 1 - 1 = LeadLen(hops)
      BY <1>1, <1>6, <2>1 DEF LeadLen
    <3>2. w.leave[z] = t[1]
      BY <3>1 DEF NewWalk
    <3>3. t[1].tag = TagAt(req, LeadLen(hops))
      BY <1>3, <3>1 DEF TailIs
    <3> QED
      BY <2>1, <3>1, <3>2, <3>3 DEF WatchTag
  <2>2. CASE ~ (z <= L)
    <3>1. WatchTag(req) = w.enter[1].tag /\ 1 \in 1 .. L
      BY <1>1, <1>4, <2>2 DEF WatchTag, IsWalk
    <3> QED
      BY <3>1
  <2> QED
    BY <2>1, <2>2
<1>9. WatchTag(req) \in TagNames
  <2>1. LeadLen(hops) \in Nat
    BY <1>1, <1>6 DEF LeadLen
  <2>2. TagAt(req, LeadLen(hops)) \in TagNames
    BY <2>1, BlockTags
  <2>3. IngressTag(req) \in TagNames
    BY <1>1, IngressTagIs
  <2> QED
    BY <2>2, <2>3 DEF WatchTag
<1> HIDE DEF w
<1> QED
  BY <1>4, <1>5, <1>7, <1>8, <1>9


\* A chain more leaves all of this as it is.
LEMMA BuildKeeps ==
    ASSUME NEW req, IsRequest(req), NEW p \in PortRecords, ~ChainError(req.hops, p),
           req.credit = <<>> \/ \E h \in Credits \ Hops : req.credit = <<h>>,
           NEW drain \in BOOLEAN, drain => Where(req.hops, Full) # {},
           NEW x, NEW y, IsCtx(y), BuiltFrom(x, y, req, p), ConfigFrom(x, y, req, p, drain),
           NEW a, NEW T, NEW U, Good(x, a, T, U), Block(req) \cap T = {},
           TakenPorts(req.hops, p) \cap U = {}, NEW b,
           b = Append(a, [tag |-> IngressTag(req), hops |-> req.hops, credit |-> req.credit, drained |-> drain])
    PROVE  Good(y, b, T \cup Block(req), U \cup TakenPorts(req.hops, p))
<1> DEFINE hops == req.hops
           L == Len(hops)
           m == Len(a) + 1
           new == [tag |-> IngressTag(req), hops |-> hops, credit |-> req.credit, drained |-> drain]
           B == Block(req)
           P == TakenPorts(hops, p)
<1>1. req \in Requests /\ hops \in Seq(Hops) /\ hops # <<>> /\ ~ChainScanError(hops) /\ req.credit \in Seq(Credits)
  BY DEF IsRequest, Requests, ChainError
<1>2. /\ Parts(hops)
      /\ Where(hops, Full) # {} <=> Opaque(hops)
  BY <1>1, ScanLeaves
<1>3. new \in Asked /\ Scanned(new)
  <2>1. IngressTag(req) \in TagNames
    BY <1>1, IngressTagIs
  <2>2. new \in Asked
    BY <1>1, <2>1 DEF Asked
  <2>3. Scanned(new)
    BY <1>1, <1>2 DEF Scanned
  <2> QED
    BY <2>2, <2>3
<1> HIDE DEF new
<1>4. a \in Seq(Asked) /\ b = Append(a, new)
  BY DEF Good, new
<1>5. /\ b \in Seq(Asked) /\ Len(b) = m /\ DOMAIN b = DOMAIN a \cup {m} /\ b[m] = new /\ m \notin DOMAIN a
      /\ \A j \in DOMAIN a : b[j] = a[j]
  <2>1. m \notin DOMAIN a
    BY <1>4, LenProperties
  <2> QED
    BY <1>3, <1>4, <2>1, Appends
<1>6. new.hops = hops /\ new.tag = IngressTag(req) /\ new.credit = req.credit /\ new.drained = drain
  BY DEF new
<1>7. Lists(x) /\ ListTags(x) \subseteq T /\ ListPorts(x) \subseteq U /\ OutLists(x) /\ BridgeLists(x)
      /\ x.fulls \in Seq(Nat) /\ x.xrayConfig \in Nat /\ x.dealt \in Nat
  BY DEF Good, Lists
<1>8. /\ OutLists(y) /\ ListTags(y) \subseteq ListTags(x) \cup B
      /\ ToSet(x.outbounds) \subseteq ToSet(y.outbounds)
      /\ ToSet(x.xrayOutbounds) \subseteq ToSet(y.xrayOutbounds)
      /\ ToSet(LeadOuts(req, p)) \cup ToSet(TailOuts(req, p)) \subseteq ToSet(y.outbounds)
      /\ ToSet(XrayOuts(req, p)) \subseteq ToSet(y.xrayOutbounds)
  <2>1. B \cap ListTags(x) = {}
    BY <1>7
  <2> QED
    BY <1>2, <1>7, <2>1, OutListsGrow
<1>9. /\ BridgeLists(y) /\ ListPorts(y) \subseteq ListPorts(x) \cup P
      /\ \A port, tag : /\ Joins(x, "sing", port, tag) => Joins(y, "sing", port, tag)
                        /\ Joins(x, "xray", port, tag) => Joins(y, "xray", port, tag)
      /\ FirstXray(hops) <= L => Joins(y, "sing", p.singToXray, IngressTag(req))
      /\ FirstBack(hops) <= L => Joins(y, "xray", p.xrayToSing, TagAt(req, LeadLen(hops)))
  <2>1. P \cap ListPorts(x) = {}
    BY <1>7
  <2> QED
    BY <1>2, <1>7, <2>1, BridgeListsGrow
<1>10. PICK w : /\ IsWalk(y, hops, IngressTag(req), w) /\ w.tags = B
                /\ Opaque(hops) => w.leave[L].port = p.full /\ p.full # 0
                /\ \E n \in 1 .. L : WatchTag(req) \in {w.enter[n].tag, w.leave[n].tag}
                /\ WatchTag(req) \in TagNames
  BY <1>8, <1>9, NewChainIs
<1>11. PICK W : Chains(x, a, T, W)
  BY DEF Good
<1>12. Extends(x, y)
  BY <1>8, <1>9 DEF Extends, In
<1>13. /\ p.full \in Nat /\ y.dealt = x.dealt + 2
       /\ y.chainGroups = Append(x.chainGroups, [watch |-> WatchTag(req), profiles |-> hops \o req.credit])
  BY DEF PortRecords, BuiltFrom
<1>14. /\ y.fulls \in Seq(Nat) /\ y.xrayConfig \in Nat /\ ToSet(x.fulls) \subseteq ToSet(y.fulls)
       /\ ~Opaque(hops) => y.xrayConfig = x.xrayConfig
       /\ Opaque(hops) => IF drain THEN p.full \in ToSet(y.fulls) ELSE y.xrayConfig = p.full
  <2> DEFINE config == IF Opaque(hops) THEN p.full ELSE x.xrayConfig
  <2>1. IF drain THEN y.fulls = Append(x.fulls, config) /\ y.xrayConfig = 0
                 ELSE y.fulls = x.fulls /\ y.xrayConfig = config
    BY DEF ConfigFrom
  <2>2. config \in Nat /\ (Opaque(hops) => config = p.full) /\ (~Opaque(hops) => config = x.xrayConfig)
    BY <1>7, <1>13
  <2> HIDE DEF config
  <2>3. CASE drain
    <3>1. Append(x.fulls, config) \in Seq(Nat) /\ ToSet(Append(x.fulls, config)) = ToSet(x.fulls) \cup {config}
      <4>1. x.fulls \in Seq(Nat) /\ config \in Nat
        BY <1>7, <2>2
      <4> QED
        BY <4>1, Appends
    <3>2. y.fulls = Append(x.fulls, config) /\ y.xrayConfig = 0 /\ Opaque(hops) /\ config = p.full
      BY <1>2, <2>1, <2>2, <2>3
    <3> HIDE DEF hops
    <3> QED
      BY <2>3, <3>1, <3>2
  <2>4. CASE ~drain
    BY <1>7, <2>1, <2>2, <2>4
  <2> QED
    BY <2>3, <2>4
<1>15. Lists(y) /\ ListTags(y) \subseteq T \cup B /\ ListPorts(y) \subseteq U \cup P
  <2>1. y.dealt \in Nat
    BY <1>7, <1>13
  <2> QED
    BY <1>7, <1>8, <1>9, <1>14, <2>1 DEF Lists
<1>16. \A j \in DOMAIN b : Scanned(b[j])
  BY <1>3, <1>5 DEF Good
<1>17. y.xrayOutbounds # <<>> => \E j \in DOMAIN b : Where(b[j].hops, Xray) # {}
  <2>1. CASE FirstXray(hops) <= L
    <3>1. L \in Nat /\ DOMAIN hops = 1 .. L
      BY <1>1, LenProperties
    <3>2. FirstXray(hops) \in DOMAIN hops /\ IsXray(hops[FirstXray(hops)])
      BY <1>2, <2>1, <3>1 DEF Parts
    <3>3. Where(b[m].hops, Xray) # {}
      BY <1>5, <1>6, <3>2 DEF Where, IsXray
    <3> QED
      BY <1>5, <3>3
  <2>2. CASE ~ (FirstXray(hops) <= L)
    <3>1. y.xrayOutbounds = x.xrayOutbounds
      BY <2>2 DEF BuiltFrom
    <3>2. x.xrayOutbounds # <<>> => \E j \in DOMAIN a : Where(a[j].hops, Xray) # {}
      BY DEF Good
    <3> QED
      BY <1>5, <3>1, <3>2
  <2> QED
    BY <2>1, <2>2
<1> DEFINE V == [j \in DOMAIN b |-> IF j = m THEN w ELSE W[j]]
<1>18. V[m] = w /\ \A j \in DOMAIN a : V[j] = W[j]
  BY <1>5
<1> HIDE DEF V, m, B, P, hops, L
<1>19. ASSUME NEW j \in DOMAIN b
       PROVE  /\ IsWalk(y, b[j].hops, b[j].tag, V[j]) /\ V[j].tags \subseteq T \cup B
              /\ HasInstance(y, b, j, V[j])
  <2>1. CASE j = m
    <3>1. b[j].hops = hops /\ b[j].tag = IngressTag(req) /\ b[j].drained = drain /\ V[j] = w
      BY <1>5, <1>6, <1>18, <2>1
    <3>2. HasInstance(y, b, j, V[j])
      BY <1>10, <1>14, <3>1 DEF HasInstance, L
    <3> QED
      BY <1>10, <3>1, <3>2
  <2>2. CASE j \in DOMAIN a
    <3>1. b[j] = a[j] /\ V[j] = W[j] /\ j # m
      BY <1>5, <1>18, <2>2
    <3>2. IsWalk(y, a[j].hops, a[j].tag, W[j])
      <4>1. IsWalk(x, a[j].hops, a[j].tag, W[j])
        BY <1>11, <2>2 DEF Chains
      <4> QED
        BY <1>12, <4>1, WalkStays
    <3>3. HasInstance(y, b, j, W[j])
      <4> SUFFICES ASSUME Opaque(a[j].hops)
                   PROVE  LET port == W[j].leave[Len(a[j].hops)].port
                          IN  /\ port # 0
                              /\ IF a[j].drained THEN port \in ToSet(y.fulls)
                                 ELSE \/ port = y.xrayConfig
                                      \/ \E i \in DOMAIN b : i # j /\ Where(b[i].hops, Full \cup Xray) # {}
        BY <3>1 DEF HasInstance
      <4>1. LET port == W[j].leave[Len(a[j].hops)].port
            IN  /\ port # 0
                /\ IF a[j].drained THEN port \in ToSet(x.fulls)
                   ELSE \/ port = x.xrayConfig
                        \/ \E i \in DOMAIN a : i # j /\ Where(a[i].hops, Full \cup Xray) # {}
        BY <1>11, <2>2 DEF Chains, HasInstance
      <4>2. (\E i \in DOMAIN a : i # j /\ Where(a[i].hops, Full \cup Xray) # {})
            => \E i \in DOMAIN b : i # j /\ Where(b[i].hops, Full \cup Xray) # {}
        BY <1>5
      <4>3. Opaque(hops) => \E i \in DOMAIN b : i # j /\ Where(b[i].hops, Full \cup Xray) # {}
        <5>1. Opaque(hops) => Where(b[m].hops, Full \cup Xray) # {}
          BY <1>2, <1>5, <1>6 DEF Where, hops
        <5> QED
          BY <1>5, <3>1, <5>1
      <4> QED
        BY <1>14, <4>1, <4>2, <4>3
    <3> QED
      BY <1>11, <2>2, <3>1, <3>2, <3>3 DEF Chains
  <2> QED
    BY <1>5, <2>1, <2>2
<1>20. ASSUME NEW i \in DOMAIN b, NEW j \in DOMAIN b, i # j PROVE V[i].tags \cap V[j].tags = {}
  <2>1. \A g \in DOMAIN a : V[g].tags \subseteq T /\ V[g].tags \cap B = {}
    BY <1>11, <1>18 DEF Chains, B
  <2>2. V[m].tags = B
    BY <1>10, <1>18
  <2>3. CASE i \in DOMAIN a /\ j \in DOMAIN a
    BY <1>11, <1>18, <1>20, <2>3 DEF Chains
  <2> QED
    BY <1>5, <1>20, <2>1, <2>2, <2>3
<1>21. Ungrouped \/ Groups(y, b, V)
  <2> SUFFICES ASSUME ~Ungrouped PROVE Groups(y, b, V)
    OBVIOUS
  <2>1. Groups(x, a, W)
    BY <1>11 DEF Chains
  <2> DEFINE g == [watch |-> WatchTag(req), profiles |-> hops \o req.credit]
  <2>2. g \in GroupRecords
    <3>1. hops \in Seq(Credits)
      BY <1>1, SeqMonotonic DEF Credits
    <3>2. hops \o req.credit \in Seq(Credits)
      BY <1>1, <3>1, ConcatProperties DEF hops
    <3> QED
      BY <1>10, <3>2 DEF GroupRecords
  <2>3. Credited(g, b[m], V[m])
    BY <1>5, <1>6, <1>10, <1>18 DEF Credited, hops, L
  <2> HIDE DEF g
  <2>4. x.chainGroups \in Seq(GroupRecords) /\ Len(x.chainGroups) = Len(a) /\ y.chainGroups = Append(x.chainGroups, g)
    BY <1>13, <2>1 DEF Groups, g, hops
  <2>5. /\ y.chainGroups \in Seq(GroupRecords) /\ Len(y.chainGroups) = m /\ y.chainGroups[m] = g
        /\ \A j \in DOMAIN x.chainGroups : y.chainGroups[j] = x.chainGroups[j]
    BY <2>2, <2>4, Appends DEF m
  <2>6. DOMAIN x.chainGroups = DOMAIN a
    BY <1>4, <2>4, LenProperties
  <2>7. \A j \in DOMAIN a : Credited(y.chainGroups[j], b[j], V[j])
    BY <1>5, <1>18, <2>1, <2>5, <2>6 DEF Groups
  <2> QED
    BY <1>5, <2>3, <2>5, <2>7 DEF Groups
<1>22. Chains(y, b, T \cup B, V)
  BY <1>19, <1>20, <1>21 DEF Chains
<1>23. \E W2 : Chains(y, b, T \cup B, W2)
  BY <1>22
<1>24. Good(y, b, T \cup B, U \cup P)
  BY <1>5, <1>15, <1>16, <1>17, <1>23 DEF Good
<1> QED
  BY <1>24 DEF B, P, hops


\* The ports a chain is given, as far as there are any: those given, or fresh ones.
LEMMA PortsAreFresh ==
    ASSUME NEW hops, NEW given \in PortRecords, NEW ok \in BOOLEAN, ctx.dealt \in Nat, NEW p,
           p = PortsOf(hops, given, ok)
    PROVE  /\ p \in PortRecords
           /\ p.singToXray \in {0, given.singToXray, ctx.dealt + 1, ctx.dealt + 2}
           /\ p.xrayToSing \in {0, given.xrayToSing, ctx.dealt + 1, ctx.dealt + 2}
<1>1. given.singToXray \in Nat /\ given.xrayToSing \in Nat /\ given.full \in Nat
  BY DEF PortRecords
<1>2. Dealt(1, ok) \in {0, ctx.dealt + 1} /\ Dealt(2, ok) \in {0, ctx.dealt + 2}
  BY DEF Dealt
<1>3. /\ p.singToXray \in {given.singToXray, Dealt(1, ok)}
      /\ p.xrayToSing \in {given.xrayToSing, Dealt(1, ok), Dealt(2, ok)}
      /\ p.full \in {given.full, Dealt(1, ok)}
      /\ p = [singToXray |-> p.singToXray, xrayToSing |-> p.xrayToSing, full |-> p.full]
  BY DEF PortsOf
<1>4. p.singToXray \in Nat /\ p.xrayToSing \in Nat /\ p.full \in Nat
  BY <1>1, <1>2, <1>3
<1>5. p \in PortRecords
  BY <1>3, <1>4 DEF PortRecords
<1> QED
  BY <1>2, <1>3, <1>5

FreshPorts(given) == {given.singToXray, given.xrayToSing, ctx.dealt + 1, ctx.dealt + 2} \ {0}
GoodCredit(credit) == credit = <<>> \/ \E h \in Credits \ Hops : credit = <<h>>

\* A chain is added to the good ones, drained or not.
LEMMA BuildsKeep ==
    ASSUME NEW req, IsRequest(req), GoodCredit(req.credit), NEW given \in PortRecords,
           NEW drain \in BOOLEAN, drain => Where(req.hops, Full) # {}, NEW name, NEW after,
           name = IngressTag(req), NEW T, NEW U, Good(ctx, asked, T, U),
           Block(req) \cap T = {}, FreshPorts(given) \cap U = {},
           Builds(req, given, drain, name, after), at' # "failed"
    PROVE  /\ Good(ctx', asked', T \cup Block(req), U \cup FreshPorts(given))
           /\ at' = after /\ ctx'.dealt = ctx.dealt + 2 /\ ctx'.merged = ctx.merged
<1>1. IsCtx(ctx) /\ ctx.dealt \in Nat /\ req \in Requests
  BY DEF Good, Lists, IsRequest
<1>2. PICK ok \in BOOLEAN :
         LET p == PortsOf(req.hops, given, ok)
             c == BuildOutboundChain(req, p)
         IN  /\ ~ChainError(req.hops, p) /\ at' = after
             /\ ctx' = IF drain THEN Drained(c) ELSE c
             /\ asked' = Append(asked, [tag |-> name, hops |-> req.hops, credit |-> req.credit, drained |-> drain])
  BY DEF Builds
<1> DEFINE p == PortsOf(req.hops, given, ok)
<1>3. /\ p \in PortRecords
      /\ p.singToXray \in {0, given.singToXray, ctx.dealt + 1, ctx.dealt + 2}
      /\ p.xrayToSing \in {0, given.xrayToSing, ctx.dealt + 1, ctx.dealt + 2}
  BY <1>1, PortsAreFresh
<1>4. /\ ~ChainError(req.hops, p) /\ at' = after
      /\ ctx' = IF drain THEN Drained(BuildOutboundChain(req, p)) ELSE BuildOutboundChain(req, p)
      /\ asked' = Append(asked, [tag |-> IngressTag(req), hops |-> req.hops, credit |-> req.credit,
                                 drained |-> drain])
  BY <1>2
<1> HIDE DEF p
<1>5. Parts(req.hops)
  BY <1>1, <1>4, ScanLeaves DEF Requests, ChainError
<1>6. IsCtx(ctx') /\ BuiltFrom(ctx, ctx', req, p) /\ ConfigFrom(ctx, ctx', req, p, drain)
  BY <1>1, <1>3, <1>4, <1>5, BuiltIs
<1>7. TakenPorts(req.hops, p) \subseteq FreshPorts(given)
  <2>1. FirstXray(req.hops) <= Len(req.hops) => p.singToXray # 0
    BY <1>4, <1>5 DEF ChainError, Parts
  <2>2. FirstBack(req.hops) <= Len(req.hops) => p.xrayToSing # 0
    BY <1>4, <1>5 DEF ChainError, Parts
  <2> QED
    BY <1>3, <2>1, <2>2 DEF TakenPorts, FreshPorts
<1>8. Good(ctx', asked', T \cup Block(req), U \cup TakenPorts(req.hops, p))
  <2>1. TakenPorts(req.hops, p) \cap U = {}
    BY <1>7
  <2>2. req.credit = <<>> \/ \E h \in Credits \ Hops : req.credit = <<h>>
    BY DEF GoodCredit
  <2> QED
    BY <1>3, <1>4, <1>6, <2>1, <2>2, BuildKeeps
<1>9. Good(ctx', asked', T \cup Block(req), U \cup FreshPorts(given))
  <2>1. U \cup TakenPorts(req.hops, p) \subseteq U \cup FreshPorts(given)
    BY <1>7
  <2>2. T \cup Block(req) \subseteq T \cup Block(req)
    OBVIOUS
  <2> QED
    BY <1>8, <2>1, <2>2, GoodGrows
<1> QED
  BY <1>4, <1>6, <1>9 DEF BuiltFrom


-----------------------------------------------------------------------------
(* Tags and ports that are taken, by how far the build is. *)

Reserved(own, pairs) == own \cup {HopTag(q[1], q[2]) : q \in pairs}
Beside == at \in {"routes", "built"}
OwnNow == IF Beside THEN {Proxy, WarpBypass} ELSE {}
PoolNow == IF at = "members" THEN 0 .. k - 1 ELSE IF Beside THEN Nat ELSE {}
FullNow == IF at = "candidates" THEN 0 .. k - 1 ELSE IF at = "built" THEN Nat ELSE {}
PairsNow ==
    (IF Beside THEN {<<"config">>} \X Nat ELSE {})
    \cup ({<<"route">>} \X (0 .. suffix - 1))
    \cup ({<<"pool", j>> : j \in PoolNow} \X Nat)
    \cup ({<<"proxy", j>> : j \in 0 .. suffix - 1} \X Nat)
    \cup ({<<"xrayfull", j>> : j \in FullNow} \X Nat)
Taken == Reserved(OwnNow, PairsNow)

PortsOK ==
    /\ ports \in Seq(Nat) /\ \A i \in DOMAIN ports : ports[i] \in {0, i}
    /\ portIdx \in Nat /\ portIdx <= Len(ports) /\ Len(ports) <= ctx.dealt
Spent == (1 .. portIdx) \cup (Len(ports) + 1 .. ctx.dealt)
ChainsOK == Good(ctx, asked, Taken, Spent) /\ PortsOK

\* The tags of a chain are free if its prefix and indices are.
LEMMA ReservedApart ==
    ASSUME NEW req, IsRequest(req), NEW own, own \subseteq {Proxy, WarpBypass},
           NEW pairs, pairs \subseteq TagPrefixes \X Nat,
           req.includeProxy => own = {},
           \A i \in 0 .. Len(req.hops) - 1 : <<req.prefix, req.startSuffix + i>> \notin pairs
    PROVE  Block(req) \cap Reserved(own, pairs) = {}
<1>1. req.prefix \in TagPrefixes /\ req.startSuffix \in Nat /\ Len(req.hops) \in Nat
  BY LenProperties DEF IsRequest, Requests
<1>2. ASSUME NEW q \in pairs
      PROVE  /\ HopTag(q[1], q[2]) \notin {Proxy, WarpBypass}
             /\ \A i \in 0 .. Len(req.hops) - 1 : HopTag(q[1], q[2]) # TagAt(req, i)
  <2>1. q = <<q[1], q[2]>> /\ q[1] \in TagPrefixes /\ q[2] \in Nat
    OBVIOUS
  <2>2. HopTag(q[1], q[2]) \notin {Proxy, WarpBypass}
    BY <2>1, HopTagIs
  <2>3. ASSUME NEW i \in 0 .. Len(req.hops) - 1, HopTag(q[1], q[2]) = TagAt(req, i) PROVE FALSE
    <3>1. req.startSuffix + i \in Nat
      BY <1>1
    <3>2. q[1] = req.prefix /\ q[2] = req.startSuffix + i
      BY <1>1, <2>1, <2>3, <3>1, HopTagIs DEF TagAt
    <3> QED
      BY <2>1, <3>2
  <2> QED
    BY <2>2, <2>3
<1>3. ASSUME NEW i \in 0 .. Len(req.hops) - 1 PROVE TagAt(req, i) \notin {Proxy, WarpBypass}
  <2>1. req.startSuffix + i \in Nat
    BY <1>1
  <2> QED
    BY <1>1, <2>1, HopTagIs DEF TagAt
<1> QED
  BY <1>2, <1>3 DEF Block, Reserved

\* The prefixes of what is taken are prefixes.
LEMMA PairsAre == ASSUME suffix \in Nat, k \in Nat PROVE PairsNow \subseteq TagPrefixes \X Nat /\ PoolNow \subseteq Nat /\ FullNow \subseteq Nat
<1>1. PoolNow \subseteq Nat /\ FullNow \subseteq Nat /\ 0 .. suffix - 1 \subseteq Nat
  BY DEF PoolNow, FullNow
<1>2. {<<"pool", j>> : j \in PoolNow} \subseteq TagPrefixes /\ {<<"proxy", j>> : j \in 0 .. suffix - 1} \subseteq TagPrefixes
      /\ {<<"xrayfull", j>> : j \in FullNow} \subseteq TagPrefixes
  <2>1. \A j \in Nat : /\ <<"pool", j>> \in TagPrefixes /\ <<"proxy", j>> \in TagPrefixes
                       /\ <<"xrayfull", j>> \in TagPrefixes
    BY PrefixesAre
  <2> QED
    BY <1>1, <2>1
<1>3. {<<"config">>} \subseteq TagPrefixes /\ {<<"route">>} \subseteq TagPrefixes
  BY PrefixesAre
<1> HIDE DEF PoolNow, FullNow
<1>4. PairsNow \subseteq TagPrefixes \X Nat
  BY <1>1, <1>2, <1>3 DEF PairsNow
<1> QED
  BY <1>1, <1>4

\* The same of the next state, put the other way round.
LEMMA GoodPrime ==
    ASSUME job' = job, Good(ctx', asked', Taken', Spent')
    PROVE  Good(ctx, asked, Taken, Spent)'
<1> HIDE DEF Taken, Spent
<1>1. Ungrouped' <=> Ungrouped
  BY DEF Ungrouped
<1>2. \A W : Chains(ctx', asked', Taken', W) => Chains(ctx, asked, Taken, W)'
  BY <1>1 DEF Chains
<1> QED
  BY <1>2 DEF Good

\* A chain is built with tags of its own and ports of its own.
LEMMA ChainBuilt ==
    ASSUME ChainsOK, suffix \in Nat, k \in Nat,
           NEW req, IsRequest(req), GoodCredit(req.credit), NEW given \in PortRecords,
           NEW drain \in BOOLEAN, drain => Where(req.hops, Full) # {}, NEW name, NEW after,
           name = IngressTag(req), Builds(req, given, drain, name, after), at' # "failed",
           job' = job, ports' = ports, portIdx' \in portIdx .. Len(ports),
           given.singToXray \in {0} \cup (portIdx + 1 .. portIdx'),
           given.xrayToSing \in {0} \cup (portIdx + 1 .. portIdx'),
           PairsNow \subseteq PairsNow', OwnNow \subseteq OwnNow',
           \A i \in 0 .. Len(req.hops) - 1 : <<req.prefix, req.startSuffix + i>> \in PairsNow' \ PairsNow,
           req.includeProxy => OwnNow = {} /\ OwnNow' = {Proxy, WarpBypass}
    PROVE  ChainsOK' /\ at' = after /\ ctx'.merged = ctx.merged
<1>1. /\ ports \in Seq(Nat) /\ portIdx \in Nat /\ portIdx <= Len(ports) /\ Len(ports) <= ctx.dealt
      /\ Len(ports) \in Nat /\ ctx.dealt \in Nat /\ portIdx' \in Nat
  <2>1. ctx.dealt \in Nat /\ ports \in Seq(Nat)
    BY DEF ChainsOK, Good, Lists, PortsOK
  <2>2. Len(ports) \in Nat
    BY <2>1, LenProperties
  <2> QED
    BY <2>1, <2>2 DEF ChainsOK, PortsOK
<1>2. Block(req) \cap Taken = {}
  <2>1. OwnNow \subseteq {Proxy, WarpBypass}
    BY DEF OwnNow
  <2>2. PairsNow \subseteq TagPrefixes \X Nat
    BY PairsAre
  <2> QED
    BY <2>1, <2>2, ReservedApart DEF Taken
<1>3. FreshPorts(given) \cap Spent = {}
  <2>1. ASSUME NEW q \in portIdx + 1 .. portIdx' PROVE q \notin Spent
    BY <1>1, <2>1 DEF Spent
  <2>2. ctx.dealt + 1 \notin Spent /\ ctx.dealt + 2 \notin Spent
    BY <1>1 DEF Spent
  <2> QED
    BY <2>1, <2>2 DEF FreshPorts
<1>4. /\ Good(ctx', asked', Taken \cup Block(req), Spent \cup FreshPorts(given))
      /\ at' = after /\ ctx'.dealt = ctx.dealt + 2 /\ ctx'.merged = ctx.merged
  <2>1. Good(ctx, asked, Taken, Spent)
    BY DEF ChainsOK
  <2> HIDE DEF Taken, Spent
  <2> QED
    BY <1>2, <1>3, <2>1, BuildsKeep
<1>5. Taken \cup Block(req) \subseteq Taken'
  <2>1. Taken \subseteq Taken'
    BY DEF Taken, Reserved
  <2>2. ASSUME NEW i \in 0 .. Len(req.hops) - 1 PROVE TagAt(req, i) \in Taken'
    <3> DEFINE q == <<req.prefix, req.startSuffix + i>>
    <3>1. q \in PairsNow' /\ TagAt(req, i) = HopTag(q[1], q[2])
      BY DEF TagAt
    <3> HIDE DEF q
    <3> QED
      BY <3>1 DEF Taken, Reserved
  <2>3. req.includeProxy => {Proxy, WarpBypass} \subseteq Taken'
    BY DEF Taken, Reserved
  <2> QED
    BY <2>1, <2>2, <2>3 DEF Block
<1>6. Spent \cup FreshPorts(given) \subseteq Spent'
  <2>1. ctx'.dealt = ctx.dealt + 2 /\ Len(ports') = Len(ports)
    BY <1>4
  <2>2. Spent \subseteq Spent'
    BY <1>1, <2>1 DEF Spent
  <2>3. FreshPorts(given) \subseteq Spent'
    BY <1>1, <2>1 DEF Spent, FreshPorts
  <2> QED
    BY <2>2, <2>3
<1>7. Good(ctx', asked', Taken', Spent')
  BY <1>4, <1>5, <1>6, GoodGrows
<1>8. Good(ctx, asked, Taken, Spent)'
  BY <1>7, GoodPrime
<1>9. PortsOK'
  <2>1. Len(ports) <= ctx'.dealt
    BY <1>1, <1>4
  <2> QED
    BY <1>1, <2>1 DEF PortsOK, ChainsOK
<1> QED
  BY <1>4, <1>8, <1>9 DEF ChainsOK


-----------------------------------------------------------------------------
(* What the parts of a build ask for. *)

\* A request as it comes from Request.
LEMMA PlainRequest ==
    ASSUME NEW hops \in Seq(Hops), hops # <<>>, NEW prefix \in TagPrefixes, NEW start \in Nat,
           NEW credit \in Seq(Credits), NEW q, q = Request(hops, prefix, start, credit)
    PROVE  /\ IsRequest(q) /\ q.hops = hops /\ q.prefix = prefix /\ q.startSuffix = start
           /\ q.credit = credit /\ ~q.includeProxy /\ IngressTag(q) = HopTag(prefix, start)
           /\ q \in Requests /\ q.link /\ ~q.warpWrap
<1>1. /\ q \in Requests /\ q.hops = hops /\ q.prefix = prefix /\ q.startSuffix = start
      /\ q.credit = credit /\ q.includeProxy = FALSE /\ q.link = TRUE /\ q.warpWrap = FALSE
  BY DEF Request, Requests
<1>2. IsRequest(q) /\ IngressTag(q) = HopTag(prefix, start)
  BY <1>1 DEF IsRequest, IngressTag
<1> QED
  BY <1>1, <1>2

\* Whom a chain credits besides its hops is no hop.
LEMMA CreditsAre ==
    /\ GoodCredit(<<>>) /\ <<>> \in Seq(Credits)
    /\ GoodCredit(<<Ent>>) /\ <<Ent>> \in Seq(Credits)
    /\ \A i \in Nat \ {0} : GoodCredit(<<<<"wrapper", i>>>>) /\ <<<<"wrapper", i>>>> \in Seq(Credits)
<1>1. Ent \in Credits \ Hops
  BY ConfigAssumption DEF Credits, Hops
<1>2. ASSUME NEW i \in Nat \ {0} PROVE <<"wrapper", i>> \in Credits \ Hops
  <2>1. <<"wrapper", i>> \in Wrappers
    BY DEF Wrappers
  <2> QED
    BY <2>1, ConfigAssumption DEF Credits, Hops
<1>3. ASSUME NEW h \in Credits \ Hops PROVE GoodCredit(<<h>>) /\ <<h>> \in Seq(Credits)
  <2>1. GoodCredit(<<h>>)
    BY DEF GoodCredit
  <2> QED
    BY <2>1
<1>4. GoodCredit(<<>>) /\ <<>> \in Seq(Credits)
  BY DEF GoodCredit
<1> QED
  BY <1>1, <1>2, <1>3, <1>4

ItemRecords == [chain : BOOLEAN, list : Seq(Kinds)]
JobIs ==
    /\ job.purpose \in {"connect", "selector", "test"}
    /\ job.landing \in Kinds \cup {NoHop} /\ job.front \in Kinds \cup {NoHop} /\ job.warp \in BOOLEAN
    /\ job.routes \in Seq(ItemRecords) /\ \A i \in DOMAIN job.routes : IsItem(job.routes[i])
    /\ job.purpose = "connect" => IsItem(job.items[1])
    /\ job.purpose = "selector" => job.items \in Seq(Kinds)
    /\ job.purpose = "test" => /\ DOMAIN job.items = 1 .. 2 /\ Len(job.items) = 2
                               /\ \A i \in 1 .. 2 : IsItem(job.items[i])

\* The types of what is to be built.
LEMMA JobTyped == ASSUME job \in Jobs PROVE JobIs
<1>1. CASE job \in [purpose : {"connect"}, items : {<<i>> : i \in Items}, landing : Ends, front : Ends,
                    warp : BOOLEAN, routes : Routes]
  <2>1. job.purpose = "connect" /\ job.items \in {<<i>> : i \in Items} /\ job.landing \in Ends /\ job.front \in Ends
        /\ job.warp \in BOOLEAN /\ job.routes \in Routes
    BY <1>1
  <2>2. IsItem(job.items[1])
    BY <2>1, ConfigAssumption
  <2> QED
    BY <2>1, <2>2, ConfigAssumption DEF JobIs, ItemRecords
<1>2. CASE job \in [purpose : {"selector"}, items : Pools, landing : Ends, front : Ends,
                    warp : BOOLEAN, routes : Routes]
  <2>1. job.purpose = "selector" /\ job.items \in Pools /\ job.landing \in Ends /\ job.front \in Ends
        /\ job.warp \in BOOLEAN /\ job.routes \in Routes
    BY <1>2
  <2> QED
    BY <2>1, ConfigAssumption DEF JobIs, ItemRecords
<1> DEFINE pairs == {<<i, j>> : i \in Items, j \in Items} \ {<<i, i>> : i \in Items}
<1>3. CASE job \in [purpose : {"test"}, items : pairs, landing : Ends, front : Ends,
                    warp : {FALSE}, routes : {<<>>}]
  <2>1. job.purpose = "test" /\ job.items \in {<<i, j>> : i \in Items, j \in Items} /\ job.landing \in Ends
        /\ job.front \in Ends /\ job.warp \in BOOLEAN /\ job.routes = <<>>
    <3>1. pairs \subseteq {<<i, j>> : i \in Items, j \in Items}
      OBVIOUS
    <3> HIDE DEF pairs
    <3>2. job.purpose = "test" /\ job.items \in pairs /\ job.landing \in Ends /\ job.front \in Ends
          /\ job.warp \in {FALSE} /\ job.routes \in {<<>>}
      BY <1>3
    <3>3. job.warp \in BOOLEAN
      BY <3>2
    <3> DEFINE all == {<<i, j>> : i \in Items, j \in Items}
    <3>4. job.items \in all
      <4> HIDE DEF all
      <4>1. pairs \subseteq all
        BY <3>1 DEF all
      <4> QED
        BY <3>2, <4>1
    <3> HIDE DEF all
    <3>5. all = {<<i, j>> : i \in Items, j \in Items}
      BY DEF all
    <3>6. job.routes = <<>>
      BY <3>2
    <3> QED
      BY <3>2, <3>3, <3>4, <3>5, <3>6
  <2>2. PICK i \in Items, j \in Items : job.items = <<i, j>>
    BY <2>1
  <2>3. DOMAIN job.items = 1 .. 2 /\ Len(job.items) = 2 /\ job.items[1] = i /\ job.items[2] = j
    BY <2>2
  <2>4. \A n \in 1 .. 2 : n = 1 \/ n = 2
    OBVIOUS
  <2>5. \A n \in 1 .. 2 : IsItem(job.items[n])
    BY <2>3, <2>4, ConfigAssumption
  <2>6. <<>> \in Seq(ItemRecords) /\ DOMAIN <<>> = {}
    OBVIOUS
  <2> QED
    BY <2>1, <2>3, <2>5, <2>6, ConfigAssumption DEF JobIs
<1> HIDE DEF pairs
<1> DEFINE one == [purpose : {"connect"}, items : {<<i>> : i \in Items}, landing : Ends, front : Ends,
                   warp : BOOLEAN, routes : Routes]
           two == [purpose : {"selector"}, items : Pools, landing : Ends, front : Ends,
                   warp : BOOLEAN, routes : Routes]
           three == [purpose : {"test"}, items : pairs, landing : Ends, front : Ends,
                     warp : {FALSE}, routes : {<<>>}]
<1>4. (job \in one => JobIs) /\ (job \in two => JobIs) /\ (job \in three => JobIs)
  BY <1>1, <1>2, <1>3
<1>5. Jobs = one \cup two \cup three
  BY DEF Jobs, pairs
<1> HIDE DEF one, two, three
<1> QED
  BY <1>4, <1>5

\* The hops of a profile, reversed and with the ends of its group.
LEMMA UnwrapIs ==
    ASSUME NEW item, IsItem(item)
    PROVE  /\ UnwrapChain(item) \in Seq(Kinds) /\ UnwrapChain(item) # <<>>
           /\ Len(UnwrapChain(item)) = Len(item.list) /\ Len(item.list) \in Nat \ {0}
           /\ item.list \in Seq(Kinds) /\ item.list # <<>> /\ item.chain \in BOOLEAN
<1> DEFINE s == item.list
           r == Reverse(s)
<1>1. s \in Seq(Kinds) /\ s # <<>> /\ item.chain \in BOOLEAN
  BY DEF IsItem
<1> HIDE DEF s
<1>2. Len(s) \in Nat \ {0}
  BY <1>1, LenProperties, EmptySeq
<1>3. r = [i \in 1 .. Len(s) |-> r[i]] /\ \A i \in 1 .. Len(s) : r[i] = s[(Len(s) - i) + 1]
  BY DEF Reverse
<1> HIDE DEF r
<1>4. \A i \in 1 .. Len(s) : r[i] \in Kinds
  <2>1. \A i \in 1 .. Len(s) : (Len(s) - i) + 1 \in 1 .. Len(s)
    BY <1>2
  <2> QED
    BY <1>1, <1>3, <2>1, ElementOfSeq
<1>5. r \in Seq(Kinds) /\ Len(r) = Len(s)
  BY <1>2, <1>3, <1>4
<1>6. r # <<>>
  BY <1>2, <1>5, EmptySeq
<1> QED
  BY <1>1, <1>2, <1>5, <1>6 DEF UnwrapChain, r, s

\* The ends of the group are hops too.
LEMMA WithEndsIs ==
    ASSUME JobIs, NEW hops \in Seq(Kinds), hops # <<>>
    PROVE  WithEnds(hops) \in Seq(Kinds) /\ WithEnds(hops) # <<>>
<1>1. End(job.landing) \in Seq(Kinds) /\ End(job.front) \in Seq(Kinds)
  BY DEF End, JobIs
<1> DEFINE l == End(job.landing)
           f == End(job.front)
<1>2. Len(hops) \in Nat \ {0}
  BY LenProperties, EmptySeq
<1> HIDE DEF l, f
<1>3. l \o hops \in Seq(Kinds) /\ Len(l \o hops) = Len(l) + Len(hops) /\ Len(l) \in Nat /\ Len(f) \in Nat
  BY <1>1, ConcatProperties, LenProperties DEF l, f
<1>4. (l \o hops) \o f \in Seq(Kinds) /\ Len((l \o hops) \o f) = Len(l \o hops) + Len(f)
  <2>1. f \in Seq(Kinds)
    BY <1>1 DEF f
  <2> QED
    BY <1>3, <2>1, ConcatProperties
<1>5. WithEnds(hops) = (l \o hops) \o f
  BY DEF WithEnds, l, f
<1>6. Len((l \o hops) \o f) # 0
  BY <1>2, <1>3, <1>4
<1> QED
  BY <1>4, <1>5, <1>6, EmptySeq

\* The ports for the bridges of one chain are the next ones.
Bridges == [singToXray : BOOLEAN, xrayToSing : BOOLEAN, full : BOOLEAN]

\* They are within the ports that were dealt.
LEMMA TakeIs ==
    ASSUME NEW b \in Bridges, PortsOK, Len(ports) \in Nat, portIdx + Count(b) <= Len(ports)
    PROVE  /\ Take(b) \in PortRecords /\ Count(b) \in Nat
           /\ Take(b).singToXray \in {0} \cup (portIdx + 1 .. portIdx + Count(b))
           /\ Take(b).xrayToSing \in {0} \cup (portIdx + 1 .. portIdx + Count(b))
           /\ PortsAfter(b) = portIdx + Count(b) /\ PortsAfter(b) \in portIdx .. Len(ports)
<1> DEFINE first == IF b.singToXray THEN 1 ELSE 0
           second == first + IF b.xrayToSing THEN 1 ELSE 0
<1>1. b.singToXray \in BOOLEAN /\ b.xrayToSing \in BOOLEAN /\ b.full \in BOOLEAN
  BY DEF Bridges
<1>2. Count(b) = second + IF b.full THEN 1 ELSE 0
  BY <1>1 DEF Count
<1>3. first \in {0, 1} /\ second \in {0, 1, 2} /\ Count(b) \in Nat /\ second <= Count(b) /\ first <= second
  BY <1>1, <1>2
<1>4. portIdx \in Nat /\ portIdx <= Len(ports) /\ DOMAIN ports = 1 .. Len(ports)
  BY LenProperties DEF PortsOK
<1>5. ASSUME NEW n \in 1 .. Count(b) PROVE ports[portIdx + n] \in {0, portIdx + n} /\ portIdx + n \in portIdx + 1 .. portIdx + Count(b)
  <2>1. portIdx + n \in 1 .. Len(ports) /\ portIdx + n \in portIdx + 1 .. portIdx + Count(b)
    BY <1>3, <1>4
  <2> QED
    BY <1>4, <2>1 DEF PortsOK
<1>6. /\ b.singToXray => 1 \in 1 .. Count(b)
      /\ b.xrayToSing => first + 1 \in 1 .. Count(b)
      /\ b.full => second + 1 \in 1 .. Count(b)
  BY <1>1, <1>2, <1>3
<1>7. Take(b) = [singToXray |-> IF b.singToXray THEN ports[portIdx + 1] ELSE 0,
                 xrayToSing |-> IF b.xrayToSing THEN ports[portIdx + (first + 1)] ELSE 0,
                 full |-> IF b.full THEN ports[portIdx + (second + 1)] ELSE 0]
  BY DEF Take
<1> HIDE DEF first, second
<1>8. /\ Take(b).singToXray \in {0} \cup (portIdx + 1 .. portIdx + Count(b))
      /\ Take(b).xrayToSing \in {0} \cup (portIdx + 1 .. portIdx + Count(b))
      /\ Take(b).full \in {0} \cup (portIdx + 1 .. portIdx + Count(b))
  BY <1>5, <1>6, <1>7
<1>9. Take(b) \in PortRecords
  <2>1. {0} \cup (portIdx + 1 .. portIdx + Count(b)) \subseteq Nat
    BY <1>3, <1>4
  <2>2. Take(b) = [singToXray |-> Take(b).singToXray, xrayToSing |-> Take(b).xrayToSing, full |-> Take(b).full]
    BY <1>7
  <2> QED
    BY <1>8, <2>1, <2>2 DEF PortRecords
<1> QED
  BY <1>3, <1>4, <1>8, <1>9 DEF PortsAfter


-----------------------------------------------------------------------------
(* The stages of a build. *)

PoolNeeds == [n \in DOMAIN planned |-> Count(BridgesFor(WithEnds(<<planned[n]>>)))]
TestNeeds == [i \in DOMAIN job.items |-> Count(Presumed(job.items[i]))]
RouteMap == [i \in DOMAIN job.routes |-> HopTag(<<"route">>, Lengths(job.routes, i - 1))]

AtStart == at \in {"prerequisites", "main", "plan", "prepare"}
StageOK ==
    /\ k \in Nat \ {0} /\ suffix \in Nat
    /\ at \in {"prerequisites", "main", "plan", "members", "routes"} => job.purpose # "test"
    /\ at \in {"prepare", "candidates"} => job.purpose = "test"
    /\ at = "main" => job.purpose = "connect"
    /\ at \in {"plan", "members"} => job.purpose = "selector"
    /\ AtStart => k = 1 /\ suffix = 0 /\ ports = <<>> /\ portIdx = 0 /\ ctx.dealt = 0
    /\ at = "members" => /\ suffix = 0 /\ planned \in Seq(Kinds) /\ k <= Len(planned) + 1
                         /\ portIdx <= Total(PoolNeeds, k - 1)
                         /\ Len(ports) = Total(PoolNeeds, Len(planned))
    /\ at = "candidates" => /\ k <= 3 /\ portIdx <= Total(TestNeeds, k - 1)
                            /\ Len(ports) = Total(TestNeeds, 2)
    /\ at = "routes" => k <= Len(job.routes) + 1 /\ suffix = Lengths(job.routes, k - 1)
    /\ at \in {"main", "plan", "members", "routes"} => outboundMap = RouteMap
    /\ at = "built" => /\ rules = [sing |-> IF job.purpose = "test" THEN {} ELSE SingRules, xray |-> XrayRules]
                       /\ ctx.merged = (ctx.xrayOutbounds # <<>>)

ConfigInv == job \in Jobs /\ (at # "failed" => StageOK /\ ChainsOK)

\* The chains do not mind what else is written into the context.
LEMMA GoodMoves ==
    ASSUME NEW x, NEW y, NEW a, NEW T, NEW U, NEW T2, NEW U2, Good(x, a, T, U), IsCtx(y),
           y.xrayOutbounds = x.xrayOutbounds, y.singToXray = x.singToXray, y.xrayToSing = x.xrayToSing,
           y.singIngress = x.singIngress, y.xrayIngress = x.xrayIngress, y.xrayConfig = x.xrayConfig,
           y.fulls = x.fulls, y.outbounds \in Seq(Outs), OneTagEach(y.outbounds),
           TagsOf(y.outbounds) \subseteq T2, ToSet(x.outbounds) \subseteq ToSet(y.outbounds),
           Ungrouped \/ y.chainGroups = x.chainGroups, y.dealt \in Nat, T \subseteq T2, U \subseteq U2
    PROVE  Good(y, a, T2, U2)
<1>1. Extends(x, y)
  <2>1. In(x, "sing") \subseteq In(y, "sing") /\ In(x, "xray") \subseteq In(y, "xray")
    BY DEF In
  <2>2. \A port, tag : /\ Joins(x, "sing", port, tag) => Joins(y, "sing", port, tag)
                       /\ Joins(x, "xray", port, tag) => Joins(y, "xray", port, tag)
    BY DEF Joins
  <2> QED
    BY <2>1, <2>2 DEF Extends
<1>2. ASSUME NEW W, Chains(x, a, T, W) PROVE Chains(y, a, T2, W)
  <2>1. ASSUME NEW j \in DOMAIN a
        PROVE  /\ IsWalk(y, a[j].hops, a[j].tag, W[j]) /\ W[j].tags \subseteq T2
               /\ HasInstance(y, a, j, W[j])
    <3>1. IsWalk(x, a[j].hops, a[j].tag, W[j]) /\ W[j].tags \subseteq T /\ HasInstance(x, a, j, W[j])
      BY <1>2 DEF Chains
    <3>2. IsWalk(y, a[j].hops, a[j].tag, W[j])
      BY <1>1, <3>1, WalkStays
    <3>3. HasInstance(y, a, j, W[j])
      BY <3>1 DEF HasInstance
    <3> QED
      BY <3>1, <3>2, <3>3
  <2>2. Ungrouped \/ Groups(y, a, W)
    BY <1>2 DEF Chains, Groups
  <2> QED
    BY <1>2, <2>1, <2>2 DEF Chains
<1>3. Lists(y) /\ ListTags(y) \subseteq T2 /\ ListPorts(y) \subseteq U2
  BY DEF Good, Lists, OutLists, BridgeLists, ListTags, ListPorts
<1>4. \E W : Chains(y, a, T2, W)
  BY <1>2 DEF Good
<1> QED
  BY <1>3, <1>4 DEF Good

\* Where only the count of ports or the mark of Xray changes, or nothing does.
LEMMA ChainsStay ==
    ASSUME Good(ctx, asked, Taken, Spent), job' = job, asked' = asked,
           NEW d \in Nat, NEW m, ctx' = [ctx EXCEPT !.dealt = d, !.merged = m],
           Taken \subseteq Taken', Spent \subseteq Spent'
    PROVE  Good(ctx, asked, Taken, Spent)' /\ ctx'.dealt = d /\ ctx'.merged = m
           /\ ctx'.xrayOutbounds = ctx.xrayOutbounds /\ SingRules' = SingRules /\ XrayRules' = XrayRules
<1> HIDE DEF Taken, Spent
<1>1. IsCtx(ctx) /\ ctx.outbounds \in Seq(Outs) /\ OneTagEach(ctx.outbounds) /\ TagsOf(ctx.outbounds) \subseteq Taken
  BY DEF Good, Lists, OutLists, ListTags
<1>2. ctx' = [outbounds |-> ctx.outbounds, xrayOutbounds |-> ctx.xrayOutbounds, singToXray |-> ctx.singToXray,
              xrayToSing |-> ctx.xrayToSing, singIngress |-> ctx.singIngress, xrayIngress |-> ctx.xrayIngress,
              xrayConfig |-> ctx.xrayConfig, merged |-> m, fulls |-> ctx.fulls,
              chainGroups |-> ctx.chainGroups, dealt |-> d]
  <2>1. ctx = [outbounds |-> ctx.outbounds, xrayOutbounds |-> ctx.xrayOutbounds, singToXray |-> ctx.singToXray,
              xrayToSing |-> ctx.xrayToSing, singIngress |-> ctx.singIngress, xrayIngress |-> ctx.xrayIngress,
              xrayConfig |-> ctx.xrayConfig, merged |-> ctx.merged, fulls |-> ctx.fulls,
              chainGroups |-> ctx.chainGroups, dealt |-> ctx.dealt]
    BY <1>1 DEF IsCtx
  <2> QED
    BY <2>1
<1>3. /\ IsCtx(ctx') /\ ctx'.outbounds = ctx.outbounds /\ ctx'.xrayOutbounds = ctx.xrayOutbounds
      /\ ctx'.singToXray = ctx.singToXray /\ ctx'.xrayToSing = ctx.xrayToSing
      /\ ctx'.singIngress = ctx.singIngress /\ ctx'.xrayIngress = ctx.xrayIngress
      /\ ctx'.xrayConfig = ctx.xrayConfig /\ ctx'.merged = m /\ ctx'.fulls = ctx.fulls
      /\ ctx'.chainGroups = ctx.chainGroups /\ ctx'.dealt = d
  BY <1>2 DEF IsCtx
<1>4. Good(ctx', asked', Taken', Spent')
  <2>1. /\ ctx'.outbounds \in Seq(Outs) /\ OneTagEach(ctx'.outbounds) /\ TagsOf(ctx'.outbounds) \subseteq Taken'
        /\ ToSet(ctx.outbounds) \subseteq ToSet(ctx'.outbounds) /\ ctx'.dealt \in Nat
    BY <1>1, <1>3
  <2> DEFINE y == ctx'
             T2 == Taken'
             U2 == Spent'
  <2>2. /\ IsCtx(y) /\ y.xrayOutbounds = ctx.xrayOutbounds
        /\ y.singToXray = ctx.singToXray /\ y.xrayToSing = ctx.xrayToSing
        /\ y.singIngress = ctx.singIngress /\ y.xrayIngress = ctx.xrayIngress
        /\ y.xrayConfig = ctx.xrayConfig /\ y.fulls = ctx.fulls
        /\ y.chainGroups = ctx.chainGroups
    BY <1>3
  <2>3. /\ y.outbounds \in Seq(Outs) /\ OneTagEach(y.outbounds) /\ TagsOf(y.outbounds) \subseteq T2
        /\ ToSet(ctx.outbounds) \subseteq ToSet(y.outbounds) /\ y.dealt \in Nat
        /\ Taken \subseteq T2 /\ Spent \subseteq U2
    BY <2>1
  <2> HIDE DEF y, T2, U2
  <2>4. Good(y, asked, T2, U2)
    BY <2>2, <2>3, GoodMoves
  <2> QED
    BY <2>4 DEF y, T2, U2
<1>5. SingRules' = SingRules /\ XrayRules' = XrayRules
  BY <1>3 DEF SingRules, XrayRules
<1> QED
  BY <1>3, <1>4, <1>5, GoodPrime

\* What was taken stays taken.
LEMMA TakenGrows ==
    ASSUME PairsNow \subseteq PairsNow', OwnNow \subseteq OwnNow'
    PROVE  Taken \subseteq Taken'
BY DEF Taken, Reserved

\* Before the first chain.
LEMMA InitConfig == ConfInit => ConfigInv
<1> SUFFICES ASSUME ConfInit PROVE ConfigInv
  OBVIOUS
<1>1. job \in Jobs /\ at \in {"prepare", "prerequisites"} /\ (at = "prepare" <=> job.purpose = "test")
  BY DEF ConfInit
<1>2. StageOK
  <2>1. AtStart /\ ctx.dealt = 0
    BY <1>1 DEF AtStart, ConfInit
  <2>2. /\ k = 1 /\ suffix = 0 /\ portIdx = 0 /\ ports = <<>>
    BY DEF ConfInit
  <2> QED
    BY <1>1, <2>1, <2>2 DEF StageOK
<1>3. PortsOK
  <2>1. ports = <<>> /\ portIdx = 0 /\ ctx.dealt = 0
    BY DEF ConfInit
  <2>2. <<>> \in Seq(Nat) /\ DOMAIN <<>> = {} /\ Len(<<>>) = 0
    OBVIOUS
  <2> QED
    BY <2>1, <2>2 DEF PortsOK
<1>4. Good(ctx, asked, Taken, Spent)
  <2>1. /\ ctx.outbounds = <<>> /\ ctx.xrayOutbounds = <<>> /\ ctx.singToXray = <<>> /\ ctx.xrayToSing = <<>>
        /\ ctx.singIngress = <<>> /\ ctx.xrayIngress = <<>> /\ ctx.xrayConfig = 0 /\ ctx.fulls = <<>>
        /\ ctx.chainGroups = <<>> /\ ctx.dealt = 0 /\ asked = <<>> /\ IsCtx(ctx)
    BY DEF ConfInit, IsCtx
  <2>2. \A S : <<>> \in Seq(S) /\ DOMAIN <<>> = {} /\ Len(<<>>) = 0
    OBVIOUS
  <2>3. OutLists(ctx) /\ BridgeLists(ctx) /\ ListTags(ctx) = {} /\ ListPorts(ctx) = {}
    BY <2>1, <2>2 DEF OutLists, BridgeLists, ListTags, ListPorts, TagsOf, ToSet, OneTagEach, EachOnce
  <2>4. Chains(ctx, asked, Taken, <<>>)
    <3>1. Groups(ctx, asked, <<>>)
      BY <2>1, <2>2 DEF Groups
    <3> QED
      BY <2>1, <2>2, <3>1 DEF Chains
  <2>5. Lists(ctx)
    BY <2>1, <2>2, <2>3 DEF Lists
  <2> QED
    BY <2>1, <2>2, <2>3, <2>4, <2>5 DEF Good
<1> QED
  BY <1>1, <1>2, <1>3, <1>4 DEF ConfigInv, ChainsOK


-----------------------------------------------------------------------------
(* Every step keeps the stages. *)

\* What holds unless the build failed.
LEMMA Going ==
    ASSUME ConfigInv, at # "failed"
    PROVE  /\ JobIs /\ StageOK /\ ChainsOK /\ Good(ctx, asked, Taken, Spent) /\ PortsOK
           /\ ports \in Seq(Nat) /\ Len(ports) \in Nat /\ portIdx \in Nat /\ portIdx <= Len(ports)
           /\ ctx.dealt \in Nat /\ k \in Nat \ {0} /\ suffix \in Nat
<1>1. JobIs /\ StageOK /\ ChainsOK
  BY JobTyped DEF ConfigInv
<1>2. Good(ctx, asked, Taken, Spent) /\ PortsOK
  BY <1>1 DEF ChainsOK
<1>3. ports \in Seq(Nat) /\ portIdx \in Nat /\ portIdx <= Len(ports)
  BY <1>2 DEF PortsOK
<1>4. ctx.dealt \in Nat
  BY <1>2 DEF Good, Lists
<1> QED
  BY <1>1, <1>2, <1>3, <1>4, LenProperties DEF StageOK

\* Where no chain is built, the chains stay.
LEMMA ChainsSame ==
    ASSUME ChainsOK, job' = job, ctx' = ctx, asked' = asked, ports' = ports, portIdx' = portIdx,
           PairsNow \subseteq PairsNow', OwnNow \subseteq OwnNow'
    PROVE  ChainsOK'
<1>1. Good(ctx, asked, Taken, Spent) /\ PortsOK
  BY DEF ChainsOK
<1>2. Taken \subseteq Taken' /\ Spent \subseteq Spent'
  BY TakenGrows DEF Spent
<1>3. Good(ctx, asked, Taken', Spent')
  <2> HIDE DEF Taken, Spent
  <2> DEFINE T2 == Taken'
             U2 == Spent'
  <2>1. Taken \subseteq T2 /\ Spent \subseteq U2
    BY <1>2
  <2> HIDE DEF T2, U2
  <2>2. Good(ctx, asked, T2, U2)
    BY <1>1, <2>1, GoodGrows
  <2> QED
    BY <2>2 DEF T2, U2
<1>4. Good(ctx, asked, Taken, Spent)'
  BY <1>3, GoodPrime
<1>5. PortsOK'
  BY <1>1 DEF PortsOK
<1> QED
  BY <1>4, <1>5 DEF ChainsOK

\* calculatePrerequisites only names.
LEMMA PrerequisitesKeeps == ASSUME ConfigInv, Prerequisites PROVE ConfigInv'
<1>1. at = "prerequisites" /\ at' \in {"failed", "main", "plan"} /\ job' = job
  BY DEF Prerequisites
<1>2. JobIs /\ StageOK /\ ChainsOK /\ job \in Jobs
  BY <1>1, Going DEF ConfigInv
<1> SUFFICES ASSUME at' # "failed" PROVE StageOK' /\ ChainsOK'
  BY <1>1, <1>2 DEF ConfigInv
<1>3. ChainsOK'
  <2>1. PairsNow' = PairsNow /\ OwnNow' = OwnNow
    BY <1>1 DEF Prerequisites, PairsNow, OwnNow, PoolNow, FullNow, Beside
  <2> QED
    BY <1>2, <2>1, ChainsSame DEF Prerequisites
<1>4. StageOK'
  <2>1. /\ job.purpose # "test" /\ k = 1 /\ suffix = 0 /\ ports = <<>> /\ portIdx = 0 /\ ctx.dealt = 0
    BY <1>1, <1>2 DEF StageOK, AtStart
  <2>2. at' = "main" => job.purpose = "connect"
    BY <1>1 DEF Prerequisites
  <2>3. at' = "plan" => job.purpose = "selector"
    BY <1>1, <1>2, <2>1 DEF Prerequisites, JobIs
  <2>4. outboundMap' = RouteMap'
    BY DEF Prerequisites, RouteMap
  <2>5. k' = k /\ suffix' = suffix /\ ports' = ports /\ portIdx' = portIdx /\ ctx' = ctx
    BY DEF Prerequisites
  <2> QED
    BY <1>1, <2>1, <2>2, <2>3, <2>4, <2>5 DEF StageOK, AtStart
<1> QED
  BY <1>3, <1>4

\* What is to be summed is numbers.
LEMMA CountIs == ASSUME NEW b \in Bridges PROVE Count(b) \in Nat
BY DEF Count, Bridges

\* The bridges that are presumed of a candidate.
LEMMA PresumedIs == ASSUME NEW item, IsItem(item) PROVE Presumed(item) \in Bridges
BY DEF Presumed, Bridges, IsXray, IsItem

\* The bridges that a member needs.
LEMMA BridgesForIs == ASSUME NEW hops PROVE BridgesFor(hops) \in Bridges
BY DEF BridgesFor, Bridges, SingToXray, XrayToSing

\* The ports of the candidates, summed.
LEMMA TestSums ==
    ASSUME JobIs, job.purpose = "test"
    PROVE  /\ Counts(TestNeeds, 2)
           /\ \A i \in 0 .. 2 : Total(TestNeeds, i) \in Nat /\ Total(TestNeeds, i) <= Total(TestNeeds, 2)
           /\ \A i \in 1 .. 2 : /\ Total(TestNeeds, i) = Total(TestNeeds, i - 1) + Count(Presumed(job.items[i]))
                                /\ Count(Presumed(job.items[i])) \in Nat
<1>1. \A i \in 1 .. 2 : TestNeeds[i] = Count(Presumed(job.items[i])) /\ Count(Presumed(job.items[i])) \in Nat
  BY PresumedIs, CountIs DEF TestNeeds, JobIs
<1>2. Counts(TestNeeds, 2)
  BY <1>1 DEF Counts
<1> HIDE DEF TestNeeds
<1> QED
  BY <1>1, <1>2, TotalIs, TotalGrows

\* A candidate that is skipped leaves its ports unused.
LEMMA SkipKeeps == ASSUME ConfigInv, SkipCandidate PROVE ConfigInv'
<1>1. at = "candidates" /\ at' = at /\ job' = job /\ k <= Len(job.items) /\ k' = k + 1
  BY DEF SkipCandidate
<1>2. JobIs /\ StageOK /\ ChainsOK /\ job \in Jobs /\ k \in Nat \ {0} /\ suffix \in Nat /\ portIdx \in Nat
  BY <1>1, Going DEF ConfigInv
<1>3. job.purpose = "test" /\ k \in 1 .. 2
  <2>1. job.purpose = "test"
    BY <1>1, <1>2 DEF StageOK
  <2>2. Len(job.items) = 2
    BY <1>2, <2>1 DEF JobIs
  <2> QED
    BY <1>1, <1>2, <2>1, <2>2
<1>4. ChainsOK'
  <2>1. PairsNow \subseteq PairsNow' /\ OwnNow' = OwnNow
    <3>1. FullNow \subseteq FullNow' /\ PoolNow' = PoolNow /\ Beside' = Beside /\ suffix' = suffix
      BY <1>1, <1>2 DEF SkipCandidate, FullNow, PoolNow, Beside
    <3> HIDE DEF FullNow, PoolNow, Beside
    <3>2. {<<"xrayfull", j>> : j \in FullNow} \X Nat \subseteq {<<"xrayfull", j>> : j \in FullNow'} \X Nat
      BY <3>1
    <3> QED
      BY <3>1, <3>2 DEF PairsNow, OwnNow
  <2> QED
    BY <1>2, <2>1, ChainsSame DEF SkipCandidate
<1>5. StageOK'
  <2>1. TestNeeds' = TestNeeds
    BY <1>1 DEF TestNeeds
  <2>2. portIdx <= Total(TestNeeds, k) /\ Len(ports) = Total(TestNeeds, 2)
    <3>1. portIdx <= Total(TestNeeds, k - 1) /\ Len(ports) = Total(TestNeeds, 2)
      BY <1>1, <1>2 DEF StageOK
    <3>2. Total(TestNeeds, k - 1) \in Nat /\ Total(TestNeeds, k) = Total(TestNeeds, k - 1) + Count(Presumed(job.items[k]))
          /\ Count(Presumed(job.items[k])) \in Nat
      BY <1>2, <1>3, TestSums
    <3> QED
      BY <1>2, <3>1, <3>2
  <2>3. k' \in Nat \ {0} /\ k' <= 3 /\ k' - 1 = k /\ suffix' = suffix /\ ports' = ports /\ portIdx' = portIdx
    BY <1>1, <1>3 DEF SkipCandidate
  <2> QED
    BY <1>1, <1>2, <1>3, <2>1, <2>2, <2>3 DEF StageOK, AtStart
<1> QED
  BY <1>1, <1>2, <1>4, <1>5 DEF ConfigInv



\* Where no ports are given, there are none.
LEMMA NoSpareIs == NoPorts \in PortRecords /\ NoPorts.singToXray = 0 /\ NoPorts.xrayToSing = 0
BY DEF NoPorts, PortRecords

\* The chain of the profile has the prefix of the configuration, the proxy and what warp wraps.
LEMMA MainKeeps == ASSUME ConfigInv, BuildMain PROVE ConfigInv'
<1> SUFFICES ASSUME at' # "failed" PROVE StageOK' /\ ChainsOK' /\ job \in Jobs /\ job' = job
  BY DEF ConfigInv, BuildMain
<1>1. at = "main" /\ job' = job /\ k' = k /\ suffix' = suffix /\ outboundMap' = outboundMap
      /\ planned' = planned /\ ports' = ports /\ portIdx' = portIdx
  BY DEF BuildMain
<1>2. JobIs /\ StageOK /\ ChainsOK /\ job \in Jobs
  BY <1>1, Going DEF ConfigInv
<1>3. job.purpose = "connect" /\ k = 1 /\ suffix = 0 /\ ports = <<>> /\ portIdx = 0 /\ outboundMap = RouteMap
  BY <1>1, <1>2 DEF StageOK, AtStart
<1> DEFINE item == job.items[1]
           ends == WithEnds(UnwrapChain(item))
           warp == job.warp
           front == IF warp THEN <<Warp>> ELSE <<>>
           hops == front \o ends
           credit == IF item.chain THEN <<Ent>> ELSE <<>>
           req == [Request(hops, <<"config">>, 0, credit) EXCEPT !.includeProxy = TRUE, !.warpWrap = warp]
           drain == FALSE
<1>4. Builds(req, NoPorts, drain, Proxy, "routes")
  BY DEF BuildMain
<1>5. IsItem(item) /\ ends \in Seq(Kinds) /\ ends # <<>>
  BY <1>2, <1>3, UnwrapIs, WithEndsIs DEF JobIs
<1>6. warp \in BOOLEAN /\ (warp => ~IsXray(Warp)) /\ Warp \in Hops /\ Kinds \subseteq Hops
  BY <1>2, ConfigAssumption DEF JobIs, Hops, IsXray, Kinds
<1>7. hops \in Seq(Hops) /\ hops # <<>> /\ (warp => Len(hops) >= 2 /\ ~IsXray(hops[1]))
  <2>1. ends \in Seq(Hops) /\ Len(ends) \in Nat \ {0}
    BY <1>5, <1>6, EmptySeq, LenProperties
  <2>2. front \in Seq(Hops) /\ Len(front) \in Nat /\ (warp => Len(front) = 1 /\ front[1] = Warp)
    BY <1>6
  <2> HIDE DEF ends, front
  <2>3. hops \in Seq(Hops) /\ Len(hops) = Len(front) + Len(ends) /\ \A i \in 1 .. Len(front) : hops[i] = front[i]
    BY <2>1, <2>2, ConcatProperties
  <2> HIDE DEF hops
  <2>4. Len(hops) # 0 /\ (warp => Len(hops) >= 2 /\ hops[1] = Warp)
    BY <2>1, <2>2, <2>3
  <2> QED
    BY <1>6, <2>3, <2>4, EmptySeq
<1>8. GoodCredit(credit) /\ credit \in Seq(Credits)
  BY CreditsAre
<1> HIDE DEF hops, credit, warp
<1>9. /\ IsRequest(req) /\ req.hops = hops /\ req.prefix = <<"config">> /\ req.startSuffix = 0
      /\ req.credit = credit /\ IngressTag(req) = Proxy
  <2> DEFINE prefix == <<"config">>
             start == 0
             base == Request(hops, prefix, start, credit)
  <2>1. req = [base EXCEPT !.includeProxy = TRUE, !.warpWrap = warp]
    BY DEF req, prefix, start, base
  <2>2. prefix \in TagPrefixes /\ start \in Nat
    BY PrefixesAre
  <2> HIDE DEF req, prefix, start
  <2>3. base \in Requests /\ base.hops = hops /\ base.prefix = prefix /\ base.startSuffix = start
        /\ base.credit = credit /\ base.link
    <3>1. base = Request(hops, prefix, start, credit)
      BY DEF base
    <3> HIDE DEF base
    <3> QED
      BY <1>7, <1>8, <2>2, <3>1, PlainRequest
  <2> HIDE DEF base
  <2>4. /\ req \in Requests /\ req.hops = hops /\ req.prefix = prefix /\ req.startSuffix = start
        /\ req.credit = credit /\ req.includeProxy /\ req.link /\ req.warpWrap = warp
    BY <1>6, <2>1, <2>3 DEF Requests
  <2>5. IsRequest(req) /\ IngressTag(req) = Proxy
    BY <1>7, <2>4 DEF IsRequest, IngressTag
  <2> QED
    BY <2>4, <2>5 DEF prefix, start
<1> HIDE DEF req, drain
<1>10. at' = "routes" /\ ChainsOK'
  <2>1. at' = "routes"
    BY <1>4 DEF Builds
  <2>2. PairsNow = {} /\ OwnNow = {} /\ OwnNow' = {Proxy, WarpBypass}
    BY <1>1, <1>3, <2>1 DEF PairsNow, OwnNow, PoolNow, FullNow, Beside
  <2>3. \A i \in Nat : <<<<"config">>, i>> \in PairsNow'
    BY <2>1 DEF PairsNow, Beside
  <2>4. \A i \in 0 .. Len(req.hops) - 1 : <<req.prefix, req.startSuffix + i>> \in PairsNow' \ PairsNow
    <3>1. \A i \in 0 .. Len(req.hops) - 1 : i \in Nat /\ 0 + i = i
      BY <1>7, <1>9, LenProperties
    <3> QED
      BY <1>9, <2>2, <2>3, <3>1
  <2>5. portIdx' \in portIdx .. Len(ports)
    BY <1>1, <1>3
  <2>6. drain \in BOOLEAN /\ (drain => Where(req.hops, Full) # {})
    BY DEF drain
  <2>7. PairsNow \subseteq PairsNow' /\ OwnNow \subseteq OwnNow'
    BY <2>2
  <2>8. suffix \in Nat /\ k \in Nat /\ GoodCredit(req.credit)
    BY <1>3, <1>8, <1>9
  <2> HIDE DEF PairsNow, OwnNow, ChainsOK
  <2> QED
    BY <1>1, <1>2, <1>4, <1>9, <2>1, <2>2, <2>4, <2>5, <2>6, <2>7, <2>8, NoSpareIs, ChainBuilt
<1>11. StageOK'
  <2>1. suffix' = Lengths(job'.routes, k' - 1)
    <3> DEFINE f == [i \in DOMAIN job.routes |-> Len(job.routes[i].list)]
    <3>1. Counts(f, 0)
      BY DEF Counts
    <3>2. Total(f, 0) = 0
      <4> HIDE DEF f
      <4> QED
        BY <3>1, TotalIs
    <3>3. Lengths(job.routes, 0) = 0
      BY <3>2 DEF Lengths
    <3> QED
      BY <1>1, <1>3, <3>3
  <2>2. outboundMap' = RouteMap'
    BY <1>1, <1>3 DEF RouteMap
  <2>3. k' <= Len(job'.routes) + 1
    BY <1>1, <1>2, <1>3, LenProperties DEF JobIs
  <2> QED
    BY <1>1, <1>3, <1>10, <2>1, <2>2, <2>3 DEF StageOK, AtStart
<1> QED
  BY <1>1, <1>2, <1>10, <1>11


\* The ports for all members or candidates are dealt before the first chain.
LEMMA PortsDealt ==
    ASSUME ChainsOK, ctx.dealt = 0, ports = <<>>, portIdx = 0, NEW n \in Nat, MkManyPorts(n),
           ctx' = [ctx EXCEPT !.dealt = @ + n], job' = job, asked' = asked,
           PairsNow \subseteq PairsNow', OwnNow \subseteq OwnNow'
    PROVE  ChainsOK' /\ Len(ports') = n /\ portIdx' = 0
<1>1. PICK got \in SUBSET (1 .. n) : ports' = [i \in 1 .. n |-> Dealt(i, i \in got)] /\ portIdx' = 0
  BY DEF MkManyPorts
<1>2. \A i \in 1 .. n : Dealt(i, i \in got) \in {0, i}
  BY DEF Dealt
<1>3. ports' \in Seq(Nat) /\ Len(ports') = n /\ DOMAIN ports' = 1 .. n /\ \A i \in 1 .. n : ports'[i] \in {0, i}
  <2>1. ports' \in [1 .. n -> Nat]
    BY <1>1, <1>2
  <2> QED
    BY <1>1, <1>2, <2>1
<1>4. IsCtx(ctx) /\ Good(ctx, asked, Taken, Spent)
  BY DEF ChainsOK, Good, Lists, OutLists
<1>5. ctx' = [ctx EXCEPT !.dealt = n, !.merged = ctx.merged]
  <2>1. ctx = [outbounds |-> ctx.outbounds, xrayOutbounds |-> ctx.xrayOutbounds, singToXray |-> ctx.singToXray,
              xrayToSing |-> ctx.xrayToSing, singIngress |-> ctx.singIngress, xrayIngress |-> ctx.xrayIngress,
              xrayConfig |-> ctx.xrayConfig, merged |-> ctx.merged, fulls |-> ctx.fulls,
              chainGroups |-> ctx.chainGroups, dealt |-> ctx.dealt]
    BY <1>4 DEF IsCtx
  <2>2. ctx.dealt + n = n
    OBVIOUS
  <2> QED
    BY <2>1, <2>2
<1>6. Taken \subseteq Taken' /\ Spent \subseteq Spent'
  <2>1. Spent = {}
    <3>1. Len(<<>>) = 0
      OBVIOUS
    <3> QED
      BY <3>1 DEF Spent
  <2> QED
    BY <2>1, TakenGrows
<1> DEFINE m == ctx.merged
<1>7. Good(ctx, asked, Taken, Spent)' /\ ctx'.dealt = n
  <2>1. ctx' = [ctx EXCEPT !.dealt = n, !.merged = m]
    BY <1>5
  <2> HIDE DEF Taken, Spent, m
  <2> QED
    BY <1>4, <1>6, <2>1, ChainsStay
<1>8. PortsOK'
  BY <1>1, <1>3, <1>7 DEF PortsOK
<1> QED
  BY <1>1, <1>3, <1>7, <1>8 DEF ChainsOK

\* As many ports are dealt as the members of the pool need.
LEMMA PlanKeeps == ASSUME ConfigInv, PlanPool PROVE ConfigInv'
<1>1. at = "plan" /\ at' = "members" /\ job' = job /\ k' = k /\ suffix' = suffix
      /\ outboundMap' = outboundMap /\ asked' = asked
  BY DEF PlanPool
<1>2. JobIs /\ StageOK /\ ChainsOK /\ job \in Jobs
  BY <1>1, Going DEF ConfigInv
<1>3. /\ job.purpose = "selector" /\ k = 1 /\ suffix = 0 /\ ports = <<>> /\ portIdx = 0 /\ outboundMap = RouteMap
      /\ ctx.dealt = 0
  BY <1>1, <1>2 DEF StageOK, AtStart
<1>4. job.items \in Seq(Kinds) /\ DOMAIN job.items = 1 .. Len(job.items) /\ Len(job.items) \in Nat
  BY <1>2, <1>3, LenProperties DEF JobIs
<1> DEFINE bridges(m) == [n \in DOMAIN m |-> Count(BridgesFor(WithEnds(<<m[n]>>)))]
<1>5. PICK kept \in SUBSET {i \in DOMAIN job.items : FitsChain(job.items[i])} :
        \E order \in [1 .. Cardinality(kept) -> kept] :
            LET members == [n \in DOMAIN order |-> job.items[order[n]]]
                count == Total(bridges(members), Cardinality(kept))
            IN  planned' = members /\ MkManyPorts(count) /\ ctx' = [ctx EXCEPT !.dealt = @ + count]
  <2>1. \E kept \in SUBSET {i \in DOMAIN job.items : FitsChain(job.items[i])} :
        \E order \in [1 .. Cardinality(kept) -> kept] :
            LET members == [n \in DOMAIN order |-> job.items[order[n]]]
                needs == [n \in DOMAIN order |-> Count(BridgesFor(WithEnds(<<members[n]>>)))]
                count == Total(needs, Cardinality(kept))
            IN  planned' = members /\ MkManyPorts(count) /\ ctx' = [ctx EXCEPT !.dealt = @ + count]
    BY Zenon DEF PlanPool
  <2> QED
    BY <2>1
<1> DEFINE size == Cardinality(kept)
<1>6. size \in Nat /\ kept \subseteq 1 .. Len(job.items)
  <2>1. kept \subseteq 1 .. Len(job.items) /\ IsFiniteSet(1 .. Len(job.items))
    BY <1>4, FS_Interval
  <2> QED
    BY <2>1, FS_Subset, FS_CardinalityType
<1>7. PICK order \in [1 .. size -> kept] :
         /\ planned' = [n \in DOMAIN order |-> job.items[order[n]]]
         /\ MkManyPorts(Total(bridges(planned'), size))
         /\ ctx' = [ctx EXCEPT !.dealt = @ + Total(bridges(planned'), size)]
  BY <1>5
<1> DEFINE needs == bridges(planned')
           count == Total(needs, size)
<1> HIDE DEF size
<1>8. planned' \in Seq(Kinds) /\ Len(planned') = size /\ DOMAIN planned' = 1 .. size
  <2>1. DOMAIN order = 1 .. size /\ \A n \in 1 .. size : job.items[order[n]] \in Kinds
    <3>1. \A n \in 1 .. size : order[n] \in 1 .. Len(job.items)
      BY <1>6, <1>7
    <3> QED
      BY <1>4, <1>7, <3>1, ElementOfSeq
  <2>2. planned' \in [1 .. size -> Kinds]
    BY <1>7, <2>1
  <2> QED
    BY <1>6, <2>2
<1>9. Counts(needs, size)
  BY <1>8, BridgesForIs, CountIs DEF Counts
<1>10. count \in Nat /\ Total(needs, 0) = 0
  <2> HIDE DEF needs
  <2> QED
    BY <1>6, <1>9, TotalIs
<1>11. PoolNeeds' = needs
  BY <1>1 DEF PoolNeeds, WithEnds
<1>12. MkManyPorts(count) /\ ctx' = [ctx EXCEPT !.dealt = @ + count]
  BY <1>7
<1> HIDE DEF needs, count
<1>13. ChainsOK' /\ Len(ports') = count /\ portIdx' = 0
  <2>1. PairsNow = {} /\ OwnNow = {}
    BY <1>1, <1>3 DEF PairsNow, OwnNow, PoolNow, FullNow, Beside
  <2>2. PairsNow \subseteq PairsNow' /\ OwnNow \subseteq OwnNow'
    BY <2>1
  <2> HIDE DEF PairsNow, OwnNow, ChainsOK
  <2> QED
    BY <1>1, <1>2, <1>3, <1>10, <1>12, <2>2, PortsDealt
<1>14. StageOK'
  <2>1. outboundMap' = RouteMap'
    BY <1>1, <1>3 DEF RouteMap
  <2>2. k' <= Len(planned') + 1
    BY <1>1, <1>3, <1>6, <1>8
  <2>3. portIdx' <= Total(PoolNeeds', k' - 1) /\ Len(ports') = Total(PoolNeeds', Len(planned'))
    <3>1. k' - 1 = 0 /\ Len(planned') = size /\ 0 <= 0
      BY <1>1, <1>3, <1>8
    <3> QED
      BY <1>10, <1>11, <1>13, <3>1 DEF count
  <2> QED
    BY <1>1, <1>3, <1>8, <2>1, <2>2, <2>3 DEF StageOK, AtStart
<1> QED
  BY <1>1, <1>2, <1>13, <1>14 DEF ConfigInv

\* As many ports are dealt as the candidates may need.
LEMMA PrepareKeeps == ASSUME ConfigInv, PrepareTest PROVE ConfigInv'
<1> DEFINE needs == TestNeeds
           count == Total(needs, 2)
<1>1. at = "prepare" /\ at' = "candidates" /\ job' = job /\ k' = k /\ suffix' = 1
      /\ outboundMap' = outboundMap /\ planned' = planned /\ asked' = asked
  BY DEF PrepareTest
<1>2. JobIs /\ StageOK /\ ChainsOK /\ job \in Jobs
  BY <1>1, Going DEF ConfigInv
<1>3. /\ job.purpose = "test" /\ k = 1 /\ suffix = 0 /\ ports = <<>> /\ portIdx = 0 /\ ctx.dealt = 0
  BY <1>1, <1>2 DEF StageOK, AtStart
<1>4. Len(job.items) = 2
  BY <1>2, <1>3 DEF JobIs
<1>5. MkManyPorts(count) /\ ctx' = [ctx EXCEPT !.dealt = @ + count]
  BY <1>4 DEF PrepareTest, TestNeeds
<1>6. count \in Nat /\ Total(needs, 0) \in Nat
  BY <1>2, <1>3, TestSums
<1>7. needs' = needs
  BY <1>1 DEF TestNeeds
<1> HIDE DEF needs, count
<1>8. ChainsOK' /\ Len(ports') = count /\ portIdx' = 0
  <2>1. PairsNow = {} /\ OwnNow = {}
    BY <1>1, <1>3 DEF PairsNow, OwnNow, PoolNow, FullNow, Beside
  <2>2. PairsNow \subseteq PairsNow' /\ OwnNow \subseteq OwnNow'
    BY <2>1
  <2> HIDE DEF PairsNow, OwnNow, ChainsOK
  <2> QED
    BY <1>1, <1>2, <1>3, <1>5, <1>6, <2>2, PortsDealt
<1>9. StageOK'
  <2>1. portIdx' <= Total(TestNeeds', k' - 1) /\ Len(ports') = Total(TestNeeds', 2)
    <3>1. k' - 1 = 0 /\ portIdx' <= Total(needs, 0)
      BY <1>1, <1>3, <1>6, <1>8
    <3> QED
      BY <1>7, <1>8, <3>1 DEF count, needs
  <2> QED
    BY <1>1, <1>3, <2>1 DEF StageOK, AtStart
<1> QED
  BY <1>1, <1>2, <1>8, <1>9 DEF ConfigInv



\* The ports of the members, summed.
LEMMA PoolSums ==
    ASSUME planned \in Seq(Kinds)
    PROVE  /\ Len(planned) \in Nat
           /\ \A i \in 0 .. Len(planned) : Total(PoolNeeds, i) \in Nat /\ Total(PoolNeeds, i) <= Total(PoolNeeds, Len(planned))
           /\ \A i \in 1 .. Len(planned) :
                 /\ Total(PoolNeeds, i) = Total(PoolNeeds, i - 1) + Count(BridgesFor(WithEnds(<<planned[i]>>)))
                 /\ Count(BridgesFor(WithEnds(<<planned[i]>>))) \in Nat
<1>1. Len(planned) \in Nat /\ DOMAIN planned = 1 .. Len(planned)
  BY LenProperties
<1>2. \A i \in 1 .. Len(planned) : /\ PoolNeeds[i] = Count(BridgesFor(WithEnds(<<planned[i]>>)))
                                   /\ Count(BridgesFor(WithEnds(<<planned[i]>>))) \in Nat
  BY <1>1, BridgesForIs, CountIs DEF PoolNeeds
<1>3. Counts(PoolNeeds, Len(planned))
  BY <1>2 DEF Counts
<1> HIDE DEF PoolNeeds
<1> QED
  BY <1>1, <1>2, <1>3, TotalIs, TotalGrows

\* A member has a prefix of its own and the next ports.
LEMMA MemberKeeps == ASSUME ConfigInv, BuildMember PROVE ConfigInv'
<1> SUFFICES ASSUME at' # "failed" PROVE StageOK' /\ ChainsOK' /\ job \in Jobs /\ job' = job
  BY DEF ConfigInv, BuildMember
<1>1. at = "members" /\ job' = job /\ k' = k + 1 /\ suffix' = suffix /\ outboundMap' = outboundMap
      /\ planned' = planned /\ ports' = ports /\ k <= Len(planned)
  BY DEF BuildMember
<1>2. /\ JobIs /\ StageOK /\ ChainsOK /\ job \in Jobs /\ PortsOK /\ Len(ports) \in Nat /\ portIdx \in Nat
      /\ k \in Nat \ {0}
  BY <1>1, Going DEF ConfigInv
<1>3. /\ job.purpose = "selector" /\ suffix = 0 /\ outboundMap = RouteMap /\ planned \in Seq(Kinds)
      /\ portIdx <= Total(PoolNeeds, k - 1) /\ Len(ports) = Total(PoolNeeds, Len(planned))
  BY <1>1, <1>2 DEF StageOK
<1> DEFINE hops == WithEnds(<<planned[k]>>)
           b == BridgesFor(hops)
           prefix == <<"pool", k>>
           start == 0
           credit == <<Ent>>
           req == Request(hops, prefix, start, credit)
           given == Take(b)
           name == HopTag(prefix, start)
           drain == b.full
<1>4. Builds(req, given, drain, name, "members") /\ portIdx' = PortsAfter(b)
  BY DEF BuildMember
<1>5. k \in 1 .. Len(planned) /\ Len(planned) \in Nat
  BY <1>1, <1>2, <1>3, LenProperties
<1>6. hops \in Seq(Hops) /\ hops # <<>>
  <2> DEFINE own == <<planned[k]>>
  <2>1. planned[k] \in Kinds
    BY <1>3, <1>5, ElementOfSeq
  <2>2. own \in Seq(Kinds) /\ Len(own) = 1 /\ Len(<<>>) = 0
    BY <2>1
  <2>3. hops = WithEnds(own)
    OBVIOUS
  <2> HIDE DEF own, hops
  <2> own # <<>>
    BY <2>2
  <2>4. hops \in Seq(Kinds) /\ hops # <<>>
    BY <1>2, <2>2, <2>3, WithEndsIs
  <2> QED
    BY <2>4 DEF Hops
<1>7. prefix \in TagPrefixes /\ start \in Nat /\ GoodCredit(credit) /\ credit \in Seq(Credits)
  BY <1>2, PrefixesAre, CreditsAre
<1>8. drain \in BOOLEAN /\ (drain => Where(hops, Full) # {}) /\ b \in Bridges
  BY BridgesForIs DEF BridgesFor
<1>9. /\ Count(b) \in Nat /\ Total(PoolNeeds, k - 1) \in Nat
      /\ Total(PoolNeeds, k) = Total(PoolNeeds, k - 1) + Count(b) /\ Total(PoolNeeds, k) <= Len(ports)
  <2>1. k - 1 \in 0 .. Len(planned) /\ k \in 0 .. Len(planned)
    BY <1>5
  <2> QED
    BY <1>3, <1>5, <2>1, PoolSums
<1>10. portIdx + Count(b) <= Total(PoolNeeds, k) /\ portIdx + Count(b) <= Len(ports)
  BY <1>2, <1>3, <1>9
<1> HIDE DEF hops, b
<1>11. /\ given \in PortRecords /\ portIdx' = portIdx + Count(b) /\ portIdx' \in portIdx .. Len(ports)
       /\ given.singToXray \in {0} \cup (portIdx + 1 .. portIdx')
       /\ given.xrayToSing \in {0} \cup (portIdx + 1 .. portIdx')
  BY <1>2, <1>4, <1>8, <1>10, TakeIs
<1>12. prefix = <<"pool", k>> /\ start = 0
  OBVIOUS
<1> HIDE DEF given, name, prefix, start, credit
<1>13. /\ IsRequest(req) /\ req.hops = hops /\ req.prefix = prefix /\ req.startSuffix = start
       /\ req.credit = credit /\ ~req.includeProxy /\ IngressTag(req) = name
  <2>1. req = Request(hops, prefix, start, credit)
    OBVIOUS
  <2> HIDE DEF req
  <2> QED
    BY <1>6, <1>7, <2>1, PlainRequest DEF name
<1> HIDE DEF req, drain
<1>14. at' = "members" /\ ChainsOK'
  <2>1. at' = "members"
    BY <1>4 DEF Builds
  <2>2. PoolNow = 0 .. k - 1 /\ PoolNow' = 0 .. k /\ FullNow = {} /\ FullNow' = {} /\ ~Beside /\ ~Beside'
    <3>1. k' - 1 = k
      BY <1>1, <1>2
    <3> QED
      BY <1>1, <2>1, <3>1 DEF PoolNow, FullNow, Beside
  <2>3. 0 .. k - 1 \subseteq 0 .. k /\ k \in 0 .. k /\ k \notin 0 .. k - 1 /\ 0 .. suffix - 1 = {}
    BY <1>2, <1>3
  <2> HIDE DEF PoolNow, FullNow, Beside
  <2>4. PairsNow = {<<"pool", j>> : j \in 0 .. k - 1} \X Nat
    BY <2>2, <2>3 DEF PairsNow
  <2>5. PairsNow' = {<<"pool", j>> : j \in 0 .. k} \X Nat
    BY <1>1, <2>2, <2>3 DEF PairsNow
  <2>6. prefix \in {<<"pool", j>> : j \in 0 .. k} /\ prefix \notin {<<"pool", j>> : j \in 0 .. k - 1}
    BY <2>3, <1>12
  <2>7. \A i \in Nat : <<prefix, i>> \in PairsNow' \ PairsNow
    BY <2>4, <2>5, <2>6
  <2>8. \A i \in 0 .. Len(req.hops) - 1 : <<req.prefix, req.startSuffix + i>> \in PairsNow' \ PairsNow
    <3>1. \A i \in 0 .. Len(req.hops) - 1 : i \in Nat /\ 0 + i = i
      BY <1>6, <1>13, LenProperties
    <3> QED
      BY <1>12, <1>13, <2>7, <3>1
  <2>9. PairsNow \subseteq PairsNow'
    BY <2>3, <2>4, <2>5
  <2>10. OwnNow \subseteq OwnNow'
    BY <2>2 DEF OwnNow
  <2>11. suffix \in Nat /\ k \in Nat /\ GoodCredit(req.credit)
    BY <1>2, <1>3, <1>7, <1>13
  <2>12. drain => Where(req.hops, Full) # {}
    BY <1>8, <1>13
  <2>13. drain \in BOOLEAN
    BY <1>8
  <2> HIDE DEF PairsNow, OwnNow, ChainsOK
  <2> QED
    BY <1>1, <1>2, <1>4, <1>11, <1>13, <2>1, <2>8, <2>9, <2>10, <2>11, <2>12, <2>13, ChainBuilt
<1>15. StageOK'
  <2>1. outboundMap' = RouteMap'
    BY <1>1, <1>3 DEF RouteMap
  <2>2. PoolNeeds' = PoolNeeds
    BY <1>1 DEF PoolNeeds, WithEnds
  <2>3. k' \in Nat \ {0} /\ k' - 1 = k /\ k' <= Len(planned) + 1
    BY <1>1, <1>2, <1>5
  <2> QED
    BY <1>1, <1>3, <1>10, <1>11, <1>14, <2>1, <2>2, <2>3 DEF StageOK, AtStart
<1> QED
  BY <1>1, <1>2, <1>14, <1>15



\* No items have no hops.
LEMMA LengthsStart == ASSUME NEW items PROVE Lengths(items, 0) = 0
<1> DEFINE f == [i \in DOMAIN items |-> Len(items[i].list)]
<1>1. Counts(f, 0)
  BY DEF Counts
<1>2. Lengths(items, 0) = Total(f, 0)
  BY DEF Lengths
<1> HIDE DEF f
<1> QED
  BY <1>1, <1>2, TotalIs

\* What a selector has for the outbounds of its own.
LEMMA OwnOuts ==
    ASSUME NEW s \in Seq(Outs), OneTagEach(s), TagsOf(s) \cap {Proxy, WarpBypass} = {}, NEW t,
           \/ t = Append(s, Outbound(Proxy, Ent, 0, NoTag))
           \/ t = s \o <<Outbound(WarpBypass, Ent, 0, NoTag), Outbound(Proxy, Warp, 0, WarpBypass)>>
    PROVE  /\ t \in Seq(Outs) /\ OneTagEach(t) /\ TagsOf(t) \subseteq TagsOf(s) \cup {Proxy, WarpBypass}
           /\ ToSet(s) \subseteq ToSet(t)
<1> DEFINE u == Outbound(Proxy, Ent, 0, NoTag)
           v == Outbound(WarpBypass, Ent, 0, NoTag)
           w == Outbound(Proxy, Warp, 0, WarpBypass)
<1>1. /\ u \in Outs /\ u.tag = Proxy
      /\ v \in Outs /\ v.tag = WarpBypass
      /\ w \in Outs /\ w.tag = Proxy
  BY OwnNames DEF Outbound, Outs, Hops
<1> HIDE DEF u, v, w
<1>2. PICK r : t = s \o r /\ (r = <<u>> \/ r = <<v, w>>)
  <2>1. Append(s, u) = s \o <<u>>
    BY <1>1, AppendIsConcat
  <2> QED
    BY <2>1 DEF u, v, w
<1>3. r \in Seq(Outs) /\ TagsOf(r) \subseteq {Proxy, WarpBypass} /\ OneTagEach(r)
  <2>1. CASE r = <<u>>
    <3>1. DOMAIN r = {1} /\ r[1] = u
      BY <2>1
    <3> QED
      BY <1>1, <2>1, <3>1 DEF TagsOf, OneTagEach
  <2>2. CASE r = <<v, w>>
    <3>1. DOMAIN r = {1, 2} /\ r[1] = v /\ r[2] = w /\ Proxy # WarpBypass
      BY <2>2, OwnNames
    <3> QED
      BY <1>1, <2>2, <3>1 DEF TagsOf, OneTagEach
  <2> QED
    BY <1>2, <2>1, <2>2
<1>4. TagsOf(s) \cap TagsOf(r) = {}
  BY <1>3
<1> QED
  BY <1>2, <1>3, <1>4, Concats, ConcatProperties

\* The names that the selector takes are free.
LEMMA PoolKeeps == ASSUME ConfigInv, FinishPool PROVE ConfigInv'
<1> SUFFICES ASSUME at' # "failed" PROVE StageOK' /\ ChainsOK' /\ job \in Jobs /\ job' = job
  BY DEF ConfigInv, FinishPool
<1>1. /\ at = "members" /\ job' = job /\ suffix' = suffix /\ outboundMap' = outboundMap
      /\ planned' = planned /\ ports' = ports /\ portIdx' = portIdx /\ asked' = asked
      /\ at' = "routes" /\ k' = 1
  BY DEF FinishPool
<1>2. /\ JobIs /\ StageOK /\ ChainsOK /\ job \in Jobs /\ Good(ctx, asked, Taken, Spent) /\ PortsOK /\ k \in Nat \ {0}
  BY <1>1, Going DEF ConfigInv
<1>3. job.purpose = "selector" /\ suffix = 0 /\ outboundMap = RouteMap
  BY <1>1, <1>2 DEF StageOK
<1>4. /\ IsCtx(ctx) /\ ctx.outbounds \in Seq(Outs) /\ OneTagEach(ctx.outbounds) /\ TagsOf(ctx.outbounds) \subseteq Taken
      /\ ctx.dealt \in Nat
  BY <1>2 DEF Good, Lists, OutLists, ListTags
<1>5. \/ /\ ctx' = [ctx EXCEPT !.outbounds = ctx'.outbounds]
         /\ ctx'.outbounds = Append(ctx.outbounds, Outbound(Proxy, Ent, 0, NoTag))
      \/ /\ ctx' = [ctx EXCEPT !.outbounds = ctx'.outbounds, !.chainGroups = ctx'.chainGroups]
         /\ ctx'.outbounds = ctx.outbounds \o <<Outbound(WarpBypass, Ent, 0, NoTag),
                                                Outbound(Proxy, Warp, 0, WarpBypass)>>
         /\ job.warp
  <2>1. ctx = [outbounds |-> ctx.outbounds, xrayOutbounds |-> ctx.xrayOutbounds, singToXray |-> ctx.singToXray,
              xrayToSing |-> ctx.xrayToSing, singIngress |-> ctx.singIngress, xrayIngress |-> ctx.xrayIngress,
              xrayConfig |-> ctx.xrayConfig, merged |-> ctx.merged, fulls |-> ctx.fulls,
              chainGroups |-> ctx.chainGroups, dealt |-> ctx.dealt]
    BY <1>4 DEF IsCtx
  <2>2. \A v, g : /\ [ctx EXCEPT !.outbounds = v].outbounds = v
                  /\ [ctx EXCEPT !.outbounds = v, !.chainGroups = g].outbounds = v
                  /\ [ctx EXCEPT !.outbounds = v, !.chainGroups = g].chainGroups = g
    BY <2>1
  <2> DEFINE one == Append(ctx.outbounds, Outbound(Proxy, Ent, 0, NoTag))
             two == ctx.outbounds \o <<Outbound(WarpBypass, Ent, 0, NoTag), Outbound(Proxy, Warp, 0, WarpBypass)>>
             all == <<[watch |-> Proxy,
                       profiles |-> FlattenSeq([g \in DOMAIN ctx.chainGroups |-> ctx.chainGroups[g].profiles])]>>
  <2>3. ctx' = IF ~job.warp THEN [ctx EXCEPT !.outbounds = one]
               ELSE [ctx EXCEPT !.outbounds = two, !.chainGroups = all]
    BY DEF FinishPool
  <2> HIDE DEF one, two, all
  <2>4. \/ ctx' = [ctx EXCEPT !.outbounds = one]
        \/ job.warp /\ ctx' = [ctx EXCEPT !.outbounds = two, !.chainGroups = all]
    BY <2>3
  <2>5. CASE ctx' = [ctx EXCEPT !.outbounds = one]
    <3>1. ctx'.outbounds = one
      BY <2>2, <2>5
    <3> QED
      BY <2>5, <3>1 DEF one
  <2>6. CASE job.warp /\ ctx' = [ctx EXCEPT !.outbounds = two, !.chainGroups = all]
    <3>1. ctx'.outbounds = two /\ ctx'.chainGroups = all
      BY <2>2, <2>6
    <3> QED
      BY <2>6, <3>1 DEF two
  <2> QED
    BY <2>4, <2>5, <2>6
<1>6. /\ IsCtx(ctx') /\ ctx'.xrayOutbounds = ctx.xrayOutbounds
      /\ ctx'.singToXray = ctx.singToXray /\ ctx'.xrayToSing = ctx.xrayToSing
      /\ ctx'.singIngress = ctx.singIngress /\ ctx'.xrayIngress = ctx.xrayIngress
      /\ ctx'.xrayConfig = ctx.xrayConfig /\ ctx'.fulls = ctx.fulls /\ ctx'.dealt = ctx.dealt
      /\ Ungrouped \/ ctx'.chainGroups = ctx.chainGroups
  <2>1. ctx = [outbounds |-> ctx.outbounds, xrayOutbounds |-> ctx.xrayOutbounds, singToXray |-> ctx.singToXray,
              xrayToSing |-> ctx.xrayToSing, singIngress |-> ctx.singIngress, xrayIngress |-> ctx.xrayIngress,
              xrayConfig |-> ctx.xrayConfig, merged |-> ctx.merged, fulls |-> ctx.fulls,
              chainGroups |-> ctx.chainGroups, dealt |-> ctx.dealt]
    BY <1>4 DEF IsCtx
  <2>2. CASE ctx' = [ctx EXCEPT !.outbounds = ctx'.outbounds]
    BY <2>1, <2>2 DEF IsCtx
  <2>3. CASE /\ ctx' = [ctx EXCEPT !.outbounds = ctx'.outbounds, !.chainGroups = ctx'.chainGroups]
             /\ job.warp
    <3>1. Ungrouped
      BY <1>3, <2>3 DEF Ungrouped
    <3>2. ctx' = [outbounds |-> ctx'.outbounds, xrayOutbounds |-> ctx.xrayOutbounds, singToXray |-> ctx.singToXray,
              xrayToSing |-> ctx.xrayToSing, singIngress |-> ctx.singIngress, xrayIngress |-> ctx.xrayIngress,
              xrayConfig |-> ctx.xrayConfig, merged |-> ctx.merged, fulls |-> ctx.fulls,
              chainGroups |-> ctx'.chainGroups, dealt |-> ctx.dealt]
      <4> DEFINE v == ctx'.outbounds
                 g == ctx'.chainGroups
      <4>1. ctx' = [ctx EXCEPT !.outbounds = v, !.chainGroups = g]
        BY <2>3
      <4> HIDE DEF v, g
      <4>2. ctx' = [outbounds |-> v, xrayOutbounds |-> ctx.xrayOutbounds, singToXray |-> ctx.singToXray,
              xrayToSing |-> ctx.xrayToSing, singIngress |-> ctx.singIngress, xrayIngress |-> ctx.xrayIngress,
              xrayConfig |-> ctx.xrayConfig, merged |-> ctx.merged, fulls |-> ctx.fulls,
              chainGroups |-> g, dealt |-> ctx.dealt]
        BY <2>1, <4>1
      <4> QED
        BY <4>2 DEF v, g
    <3> QED
      BY <3>1, <3>2 DEF IsCtx
  <2> QED
    BY <1>5, <2>2, <2>3
<1>7. TagsOf(ctx.outbounds) \cap {Proxy, WarpBypass} = {}
  <2>1. OwnNow = {} /\ PairsNow \subseteq TagPrefixes \X Nat
    <3>1. k \in Nat /\ suffix \in Nat
      BY <1>2, <1>3
    <3> QED
      BY <1>1, <3>1, PairsAre DEF OwnNow, Beside
  <2>2. ASSUME NEW q \in PairsNow PROVE HopTag(q[1], q[2]) \notin {Proxy, WarpBypass}
    <3>1. q[1] \in TagPrefixes /\ q[2] \in Nat
      BY <2>1
    <3> QED
      BY <3>1, HopTagIs
  <2>3. Taken \cap {Proxy, WarpBypass} = {}
    BY <2>1, <2>2 DEF Taken, Reserved
  <2> QED
    BY <1>4, <2>3
<1>8. /\ ctx'.outbounds \in Seq(Outs) /\ OneTagEach(ctx'.outbounds)
      /\ TagsOf(ctx'.outbounds) \subseteq TagsOf(ctx.outbounds) \cup {Proxy, WarpBypass}
      /\ ToSet(ctx.outbounds) \subseteq ToSet(ctx'.outbounds)
  <2> DEFINE t == ctx'.outbounds
  <2>1. \/ t = Append(ctx.outbounds, Outbound(Proxy, Ent, 0, NoTag))
        \/ t = ctx.outbounds \o <<Outbound(WarpBypass, Ent, 0, NoTag), Outbound(Proxy, Warp, 0, WarpBypass)>>
    BY <1>5
  <2> HIDE DEF t
  <2>2. /\ t \in Seq(Outs) /\ OneTagEach(t)
        /\ TagsOf(t) \subseteq TagsOf(ctx.outbounds) \cup {Proxy, WarpBypass}
        /\ ToSet(ctx.outbounds) \subseteq ToSet(t)
    BY <1>4, <1>7, <2>1, OwnOuts
  <2> QED
    BY <2>2 DEF t
<1>9. Taken \subseteq Taken' /\ {Proxy, WarpBypass} \subseteq Taken' /\ Spent' = Spent
  <2>1. OwnNow = {} /\ OwnNow' = {Proxy, WarpBypass}
    BY <1>1 DEF OwnNow, Beside
  <2>2. PairsNow \subseteq PairsNow'
    <3>1. PoolNow \subseteq PoolNow' /\ FullNow = {} /\ FullNow' = {} /\ ~Beside
      <4>1. 0 .. k - 1 \subseteq Nat
        BY <1>2
      <4> QED
        BY <1>1, <4>1 DEF PoolNow, FullNow, Beside
    <3> HIDE DEF PoolNow, FullNow, Beside
    <3> QED
      BY <1>1, <3>1 DEF PairsNow
  <2> HIDE DEF PairsNow, OwnNow
  <2>3. Taken \subseteq Taken' /\ {Proxy, WarpBypass} \subseteq Taken'
    BY <2>1, <2>2 DEF Taken, Reserved
  <2>4. Spent' = Spent
    BY <1>1, <1>6 DEF Spent
  <2> QED
    BY <2>3, <2>4
<1>10. ChainsOK'
  <2> DEFINE y == ctx'
             T2 == Taken'
             U2 == Spent'
  <2>1. /\ IsCtx(y) /\ y.xrayOutbounds = ctx.xrayOutbounds
        /\ y.singToXray = ctx.singToXray /\ y.xrayToSing = ctx.xrayToSing
        /\ y.singIngress = ctx.singIngress /\ y.xrayIngress = ctx.xrayIngress
        /\ y.xrayConfig = ctx.xrayConfig /\ y.fulls = ctx.fulls /\ y.dealt \in Nat
        /\ Ungrouped \/ y.chainGroups = ctx.chainGroups
    BY <1>4, <1>6
  <2>2. /\ y.outbounds \in Seq(Outs) /\ OneTagEach(y.outbounds) /\ ToSet(ctx.outbounds) \subseteq ToSet(y.outbounds)
    BY <1>8
  <2>3. TagsOf(y.outbounds) \subseteq T2
    BY <1>4, <1>8, <1>9
  <2>4. Taken \subseteq T2 /\ Spent \subseteq U2
    BY <1>9
  <2> HIDE DEF y, T2, U2
  <2>5. Good(y, asked, T2, U2)
    BY <1>2, <2>1, <2>2, <2>3, <2>4, GoodMoves
  <2>6. Good(ctx', asked', Taken', Spent')
    BY <1>1, <2>5 DEF y, T2, U2
  <2>7. Good(ctx, asked, Taken, Spent)'
    BY <1>1, <2>6, GoodPrime
  <2>8. PortsOK'
    BY <1>1, <1>2, <1>6 DEF PortsOK
  <2> QED
    BY <2>7, <2>8 DEF ChainsOK
<1>11. StageOK'
  <2>1. outboundMap' = RouteMap' /\ suffix' = Lengths(job'.routes, k' - 1)
    <3>1. k' - 1 = 0
      BY <1>1
    <3> QED
      BY <1>1, <1>3, <3>1, LengthsStart DEF RouteMap
  <2>2. k' <= Len(job'.routes) + 1
    BY <1>1, <1>2, LenProperties DEF JobIs
  <2> QED
    BY <1>1, <1>3, <2>1, <2>2 DEF StageOK, AtStart
<1> QED
  BY <1>1, <1>2, <1>10, <1>11



\* One more item has its hops.
LEMMA LengthsGrow ==
    ASSUME NEW items \in Seq(ItemRecords), \A i \in DOMAIN items : IsItem(items[i]), NEW i \in 1 .. Len(items)
    PROVE  Lengths(items, i) = Lengths(items, i - 1) + Len(items[i].list)
<1> DEFINE f == [j \in DOMAIN items |-> Len(items[j].list)]
           n == Len(items)
<1>1. n \in Nat /\ DOMAIN items = 1 .. n
  BY LenProperties
<1>2. \A j \in 1 .. n : f[j] = Len(items[j].list) /\ f[j] \in Nat
  BY <1>1, UnwrapIs
<1>3. Counts(f, n)
  BY <1>2 DEF Counts
<1>4. \A j : Lengths(items, j) = Total(f, j)
  BY DEF Lengths
<1>5. i \in 1 .. n
  OBVIOUS
<1> HIDE DEF f, n
<1> QED
  BY <1>1, <1>2, <1>3, <1>4, <1>5, TotalIs

\* The chains of the rules have indices of their own, those that calculatePrerequisites named.
LEMMA RouteKeeps == ASSUME ConfigInv, BuildRoute PROVE ConfigInv'
<1> SUFFICES ASSUME at' # "failed" PROVE StageOK' /\ ChainsOK' /\ job \in Jobs /\ job' = job
  BY DEF ConfigInv, BuildRoute
<1>1. at = "routes" /\ job' = job /\ k' = k + 1 /\ outboundMap' = outboundMap
      /\ planned' = planned /\ ports' = ports /\ portIdx' = portIdx /\ k <= Len(job.routes)
  BY DEF BuildRoute
<1>2. /\ JobIs /\ StageOK /\ ChainsOK /\ job \in Jobs /\ PortsOK /\ Len(ports) \in Nat /\ portIdx \in Nat
      /\ k \in Nat \ {0} /\ suffix \in Nat /\ portIdx <= Len(ports)
  BY <1>1, Going DEF ConfigInv
<1>3. job.purpose # "test" /\ outboundMap = RouteMap /\ suffix = Lengths(job.routes, k - 1)
  BY <1>1, <1>2 DEF StageOK
<1> DEFINE item == job.routes[k]
           hops == UnwrapChain(item)
           link == Len(item.list) > 1
           prefix == <<"route">>
           start == suffix
           credit == IF item.chain THEN <<<<"wrapper", k>>>> ELSE <<>>
           base == Request(hops, prefix, start, credit)
           req == [base EXCEPT !.link = link]
           name == outboundMap[k]
           drain == FALSE
<1>4. Builds(req, NoPorts, drain, name, "routes") /\ suffix' = suffix + Len(item.list)
  BY DEF BuildRoute, SuffixAfter
<1>5. k \in 1 .. Len(job.routes) /\ Len(job.routes) \in Nat /\ DOMAIN job.routes = 1 .. Len(job.routes)
  BY <1>1, <1>2, LenProperties DEF JobIs
<1>6. IsItem(item)
  BY <1>2, <1>5 DEF JobIs
<1>7. /\ hops \in Seq(Hops) /\ hops # <<>> /\ Len(hops) = Len(item.list) /\ Len(hops) \in Nat \ {0}
  <2> HIDE DEF item
  <2>1. hops \in Seq(Kinds) /\ hops # <<>> /\ Len(hops) = Len(item.list) /\ Len(hops) \in Nat \ {0}
    BY <1>6, UnwrapIs
  <2> HIDE DEF hops
  <2> QED
    BY <2>1 DEF Hops
<1>8. prefix \in TagPrefixes /\ start \in Nat /\ GoodCredit(credit) /\ credit \in Seq(Credits)
  BY <1>2, PrefixesAre, CreditsAre
<1>9. name = HopTag(prefix, start)
  BY <1>3, <1>5 DEF RouteMap
<1>10. link \in BOOLEAN /\ (link \/ Len(hops) = 1)
  <2>1. link \in BOOLEAN
    OBVIOUS
  <2> HIDE DEF item, hops
  <2>2. link \/ Len(hops) = 1
    <3>1. \A n \in Nat \ {0} : n > 1 \/ n = 1
      OBVIOUS
    <3>2. Len(hops) > 1 \/ Len(hops) = 1
      BY <1>7, <3>1
    <3>3. Len(hops) > 1 => link
      BY <1>7
    <3> QED
      BY <3>2, <3>3
  <2> QED
    BY <2>1, <2>2
<1>11. suffix' = suffix + Len(hops) /\ prefix = <<"route">> /\ start = suffix
  BY <1>4, <1>7
<1>12. base \in Requests /\ base.hops = hops /\ base.prefix = prefix /\ base.startSuffix = start
       /\ base.credit = credit /\ ~base.includeProxy /\ ~base.warpWrap
  <2>1. base = Request(hops, prefix, start, credit)
    OBVIOUS
  <2> HIDE DEF base, hops, prefix, start, credit
  <2> QED
    BY <1>7, <1>8, <2>1, PlainRequest
<1> HIDE DEF base, hops, link, prefix, start, credit, name
<1>13. /\ req \in Requests /\ req.hops = hops /\ req.prefix = prefix /\ req.startSuffix = start
       /\ req.credit = credit /\ ~req.includeProxy /\ req.link = link /\ ~req.warpWrap
  BY <1>10, <1>12 DEF Requests
<1> HIDE DEF req, drain
<1>14. IsRequest(req) /\ IngressTag(req) = name
  BY <1>7, <1>9, <1>10, <1>13 DEF IsRequest, IngressTag
<1>15. at' = "routes" /\ ChainsOK'
  <2>1. at' = "routes"
    BY <1>4 DEF Builds
  <2>2. PoolNow' = PoolNow /\ PoolNow = Nat /\ FullNow = {} /\ FullNow' = {} /\ Beside /\ Beside'
    BY <1>1, <2>1 DEF PoolNow, FullNow, Beside
  <2>3. 0 .. suffix - 1 \subseteq 0 .. suffix' - 1
    BY <1>2, <1>7, <1>11
  <2> HIDE DEF PoolNow, FullNow, Beside
  <2>4. PairsNow \subseteq PairsNow'
    BY <2>2, <2>3 DEF PairsNow
  <2>5. OwnNow \subseteq OwnNow'
    BY <2>2 DEF OwnNow
  <2>6. ASSUME NEW i \in 0 .. Len(hops) - 1 PROVE <<prefix, start + i>> \in PairsNow' \ PairsNow
    <3>1. start + i \in 0 .. suffix' - 1 /\ start + i \notin 0 .. suffix - 1
      BY <1>2, <1>7, <1>11
    <3>2. <<prefix, start + i>> \in PairsNow'
      BY <1>11, <3>1 DEF PairsNow
    <3>3. prefix # <<"config">> /\ \A j \in Nat : prefix # <<"pool", j>> /\ prefix # <<"proxy", j>>
      <4> DEFINE r == <<"route">>
                 c == <<"config">>
      <4>1. c # r
        BY PrefixesAre
      <4>2. ASSUME NEW j \in Nat PROVE r # <<"pool", j>> /\ r # <<"proxy", j>>
        <5> DEFINE v == <<"pool", j>>
                   w == <<"proxy", j>>
        <5>1. {v, w} \cap {c, r} = {}
          BY PrefixesAre
        <5> HIDE DEF v, w, c, r
        <5>2. r # v /\ r # w
          BY <5>1
        <5> QED
          BY <5>2 DEF v, w
      <4>3. prefix = r
        BY <1>11
      <4> QED
        BY <4>1, <4>2, <4>3
    <3>4. <<prefix, start + i>> \notin PairsNow
      <4>1. <<prefix, start + i>> \notin {<<"config">>} \X Nat
        BY <3>3
      <4>2. <<prefix, start + i>> \notin {<<"route">>} \X (0 .. suffix - 1)
        BY <3>1
      <4>3. <<prefix, start + i>> \notin {<<"pool", j>> : j \in PoolNow} \X Nat
        BY <2>2, <3>3
      <4>4. <<prefix, start + i>> \notin {<<"proxy", j>> : j \in 0 .. suffix - 1} \X Nat
        BY <3>3
      <4> QED
        BY <2>2, <4>1, <4>2, <4>3, <4>4 DEF PairsNow
    <3> QED
      BY <3>2, <3>4
  <2>7. \A i \in 0 .. Len(req.hops) - 1 : <<req.prefix, req.startSuffix + i>> \in PairsNow' \ PairsNow
    BY <1>13, <2>6
  <2>8. portIdx' \in portIdx .. Len(ports)
    BY <1>1, <1>2
  <2>9. drain \in BOOLEAN /\ (drain => Where(req.hops, Full) # {})
    BY DEF drain
  <2>10. suffix \in Nat /\ k \in Nat /\ GoodCredit(req.credit)
    BY <1>2, <1>8, <1>13
  <2> HIDE DEF PairsNow, OwnNow, ChainsOK
  <2> QED
    BY <1>1, <1>2, <1>4, <1>13, <1>14, <2>1, <2>4, <2>5, <2>7, <2>8, <2>9, <2>10, NoSpareIs, ChainBuilt
<1>16. StageOK'
  <2>1. outboundMap' = RouteMap'
    BY <1>1, <1>3 DEF RouteMap
  <2>2. suffix' = Lengths(job'.routes, k' - 1) /\ suffix' \in Nat
    <3>1. Lengths(job.routes, k) = Lengths(job.routes, k - 1) + Len(item.list)
      <4>1. job.routes \in Seq(ItemRecords) /\ \A i \in DOMAIN job.routes : IsItem(job.routes[i])
        BY <1>2 DEF JobIs
      <4> QED
        BY <1>5, <4>1, LengthsGrow
    <3>2. k' - 1 = k
      BY <1>1, <1>2
    <3>3. suffix' \in Nat
      BY <1>2, <1>7, <1>11
    <3> QED
      BY <1>1, <1>3, <1>4, <3>1, <3>2, <3>3
  <2>3. k' <= Len(job'.routes) + 1 /\ k' \in Nat \ {0}
    BY <1>1, <1>5
  <2> QED
    BY <1>1, <1>3, <1>15, <2>1, <2>2, <2>3 DEF StageOK, AtStart
<1> QED
  BY <1>1, <1>2, <1>15, <1>16


\* Only what Xray is merged into changes at the end.
LEMMA Merges ==
    ASSUME ChainsOK, MergeXrayConfig, job' = job, asked' = asked, ports' = ports, portIdx' = portIdx,
           PairsNow \subseteq PairsNow', OwnNow \subseteq OwnNow'
    PROVE  /\ ChainsOK' /\ SingRules' = SingRules /\ XrayRules' = XrayRules
           /\ ctx'.merged = (ctx'.xrayOutbounds # <<>>)
<1>1. IsCtx(ctx) /\ Good(ctx, asked, Taken, Spent) /\ ctx.dealt \in Nat /\ PortsOK
  BY DEF ChainsOK, Good, Lists, OutLists
<1>2. ctx = [outbounds |-> ctx.outbounds, xrayOutbounds |-> ctx.xrayOutbounds, singToXray |-> ctx.singToXray,
              xrayToSing |-> ctx.xrayToSing, singIngress |-> ctx.singIngress, xrayIngress |-> ctx.xrayIngress,
              xrayConfig |-> ctx.xrayConfig, merged |-> ctx.merged, fulls |-> ctx.fulls,
              chainGroups |-> ctx.chainGroups, dealt |-> ctx.dealt]
  BY <1>1 DEF IsCtx
<1> DEFINE m == (ctx.xrayOutbounds # <<>>)
           d == ctx.dealt
<1>3. ctx' = [ctx EXCEPT !.merged = m]
  BY DEF MergeXrayConfig
<1> HIDE DEF m
<1>4. ctx' = [ctx EXCEPT !.dealt = d, !.merged = m]
  BY <1>2, <1>3
<1>5. ctx'.dealt = d /\ ctx'.merged = m /\ ctx'.xrayOutbounds = ctx.xrayOutbounds
  BY <1>2, <1>4
<1>6. Taken \subseteq Taken' /\ Spent \subseteq Spent'
  BY <1>5, TakenGrows DEF Spent
<1> HIDE DEF d
<1>7. Good(ctx, asked, Taken, Spent)' /\ SingRules' = SingRules /\ XrayRules' = XrayRules
  <2>1. d \in Nat
    BY <1>1 DEF d
  <2> HIDE DEF Taken, Spent, SingRules, XrayRules
  <2> QED
    BY <1>1, <1>4, <1>6, <2>1, ChainsStay
<1>8. PortsOK'
  BY <1>1, <1>5 DEF PortsOK, d
<1> QED
  BY <1>5, <1>7, <1>8 DEF ChainsOK, m

\* The rules are those of the bridges.
LEMMA FinishKeeps == ASSUME ConfigInv, FinishConfig PROVE ConfigInv'
<1> SUFFICES ASSUME at' # "failed" PROVE StageOK' /\ ChainsOK' /\ job \in Jobs /\ job' = job
  BY DEF ConfigInv, FinishConfig
<1>1. /\ at = "routes" /\ at' = "built" /\ job' = job /\ k' = k /\ suffix' = suffix
      /\ ports' = ports /\ portIdx' = portIdx /\ asked' = asked
      /\ MergeXrayConfig /\ rules' = [sing |-> SingRules, xray |-> XrayRules]
  BY DEF FinishConfig
<1>2. /\ JobIs /\ StageOK /\ ChainsOK /\ job \in Jobs /\ k \in Nat \ {0} /\ suffix \in Nat
  BY <1>1, Going DEF ConfigInv
<1>3. job.purpose # "test"
  BY <1>1, <1>2 DEF StageOK
<1>4. PairsNow \subseteq PairsNow' /\ OwnNow \subseteq OwnNow'
  <2>1. PoolNow' = PoolNow /\ FullNow = {} /\ Beside /\ Beside'
    BY <1>1 DEF PoolNow, FullNow, Beside
  <2> HIDE DEF PoolNow, FullNow, Beside
  <2> QED
    BY <1>1, <2>1 DEF PairsNow, OwnNow
<1>5. /\ ChainsOK' /\ SingRules' = SingRules /\ XrayRules' = XrayRules
      /\ ctx'.merged = (ctx'.xrayOutbounds # <<>>)
  <2> HIDE DEF ChainsOK, PairsNow, OwnNow, SingRules, XrayRules
  <2> QED
    BY <1>1, <1>2, <1>4, Merges
<1>6. StageOK'
  BY <1>1, <1>2, <1>3, <1>5 DEF StageOK, AtStart
<1> QED
  BY <1>1, <1>2, <1>5, <1>6

\* A test has the rules of Xray only.
LEMMA FinishTestKeeps == ASSUME ConfigInv, FinishTest PROVE ConfigInv'
<1> SUFFICES ASSUME at' # "failed" PROVE StageOK' /\ ChainsOK' /\ job \in Jobs /\ job' = job
  BY DEF ConfigInv, FinishTest
<1>1. /\ at = "candidates" /\ at' = "built" /\ job' = job /\ k' = k /\ suffix' = suffix
      /\ ports' = ports /\ portIdx' = portIdx /\ asked' = asked
      /\ MergeXrayConfig /\ rules' = [sing |-> {}, xray |-> XrayRules]
  BY DEF FinishTest
<1>2. /\ JobIs /\ StageOK /\ ChainsOK /\ job \in Jobs /\ k \in Nat \ {0} /\ suffix \in Nat
  BY <1>1, Going DEF ConfigInv
<1>3. job.purpose = "test"
  BY <1>1, <1>2 DEF StageOK
<1>4. PairsNow \subseteq PairsNow' /\ OwnNow \subseteq OwnNow'
  <2>1. PoolNow = {} /\ FullNow \subseteq FullNow' /\ ~Beside
    <3>1. 0 .. k - 1 \subseteq Nat
      BY <1>2
    <3> QED
      BY <1>1, <3>1 DEF PoolNow, FullNow, Beside
  <2> HIDE DEF PoolNow, FullNow, Beside
  <2> QED
    BY <1>1, <2>1 DEF PairsNow, OwnNow
<1>5. /\ ChainsOK' /\ SingRules' = SingRules /\ XrayRules' = XrayRules
      /\ ctx'.merged = (ctx'.xrayOutbounds # <<>>)
  <2> HIDE DEF ChainsOK, PairsNow, OwnNow, SingRules, XrayRules
  <2> QED
    BY <1>1, <1>2, <1>4, Merges
<1>6. StageOK'
  BY <1>1, <1>2, <1>3, <1>5 DEF StageOK, AtStart
<1> QED
  BY <1>1, <1>2, <1>5, <1>6

\* An opaque configuration has a prefix of its own.
LEMMA FullKeeps == ASSUME ConfigInv, TestFullConfig PROVE ConfigInv'
<1> SUFFICES ASSUME at' # "failed" PROVE StageOK' /\ ChainsOK' /\ job \in Jobs /\ job' = job
  BY DEF ConfigInv, TestFullConfig
<1>1. at = "candidates" /\ job' = job /\ k' = k + 1 /\ suffix' = suffix /\ outboundMap' = outboundMap
      /\ planned' = planned /\ ports' = ports /\ portIdx' = portIdx /\ k <= Len(job.items)
      /\ Opaque(job.items[k].list)
  BY DEF TestFullConfig
<1>2. /\ JobIs /\ StageOK /\ ChainsOK /\ job \in Jobs /\ PortsOK /\ Len(ports) \in Nat /\ portIdx \in Nat
      /\ k \in Nat \ {0} /\ suffix \in Nat /\ portIdx <= Len(ports)
  BY <1>1, Going DEF ConfigInv
<1>3. job.purpose = "test"
  BY <1>1, <1>2 DEF StageOK
<1>4. Len(job.items) = 2 /\ \A i \in 1 .. 2 : IsItem(job.items[i])
  BY <1>2, <1>3 DEF JobIs
<1>5. k \in 1 .. 2 /\ IsItem(job.items[k])
  <2>1. k \in 1 .. 2
    BY <1>1, <1>2, <1>4
  <2> QED
    BY <1>4, <2>1
<1> DEFINE hops == job.items[k].list
           prefix == <<"xrayfull", k>>
           start == 0
           credit == <<>>
           req == Request(hops, prefix, start, credit)
           name == HopTag(prefix, start)
           drain == TRUE
<1>6. Builds(req, NoPorts, drain, name, "candidates")
  BY DEF TestFullConfig
<1>7. hops \in Seq(Hops) /\ hops # <<>> /\ Len(hops) \in Nat \ {0} /\ Where(hops, Full) # {}
  <2>1. hops \in Seq(Kinds) /\ hops # <<>> /\ Len(hops) \in Nat \ {0}
    BY <1>5, UnwrapIs
  <2>2. Opaque(hops)
    BY <1>1
  <2> HIDE DEF hops
  <2>3. Len(hops) \in DOMAIN hops /\ hops[Len(hops)] \in Full
    BY <2>1, <2>2 DEF Opaque, Last
  <2>4. Where(hops, Full) # {}
    BY <2>3 DEF Where
  <2> QED
    BY <2>1, <2>4 DEF Hops
<1>8. prefix \in TagPrefixes /\ start \in Nat /\ GoodCredit(credit) /\ credit \in Seq(Credits)
  BY <1>2, PrefixesAre, CreditsAre
<1>9. prefix = <<"xrayfull", k>> /\ start = 0
  OBVIOUS
<1> HIDE DEF hops, prefix, start, credit, name
<1>10. /\ IsRequest(req) /\ req.hops = hops /\ req.prefix = prefix /\ req.startSuffix = start
       /\ req.credit = credit /\ ~req.includeProxy /\ IngressTag(req) = name
  <2>1. req = Request(hops, prefix, start, credit)
    OBVIOUS
  <2> HIDE DEF req
  <2> QED
    BY <1>7, <1>8, <2>1, PlainRequest DEF name
<1> HIDE DEF req, drain
<1>11. at' = "candidates" /\ ChainsOK'
  <2>1. at' = "candidates"
    BY <1>6 DEF Builds
  <2>2. PoolNow' = {} /\ PoolNow = {} /\ FullNow = 0 .. k - 1 /\ FullNow' = 0 .. k /\ ~Beside /\ ~Beside'
    <3>1. k' - 1 = k
      BY <1>1, <1>2
    <3> QED
      BY <1>1, <2>1, <3>1 DEF PoolNow, FullNow, Beside
  <2>3. 0 .. k - 1 \subseteq 0 .. k /\ k \in 0 .. k /\ k \notin 0 .. k - 1
    BY <1>2
  <2> HIDE DEF PoolNow, FullNow, Beside
  <2>4. PairsNow \subseteq PairsNow'
    BY <1>1, <2>2, <2>3 DEF PairsNow
  <2>5. OwnNow \subseteq OwnNow'
    BY <2>2 DEF OwnNow
  <2>6. ASSUME NEW i \in Nat PROVE <<prefix, i>> \in PairsNow' \ PairsNow
    <3>1. <<prefix, i>> \in PairsNow'
      BY <1>9, <2>2, <2>3 DEF PairsNow
    <3>2. prefix # <<"route">> /\ (\A j \in Nat : prefix # <<"proxy", j>>) /\ \A j \in 0 .. k - 1 : prefix # <<"xrayfull", j>>
      <4> DEFINE r == <<"route">>
                 c == <<"config">>
                 x == <<"xrayfull", k>>
      <4>1. x # r
        <5> DEFINE v == <<"pool", k>>
                   w == <<"proxy", k>>
        <5>1. {v, w, x} \cap {c, r} = {}
          BY <1>2, PrefixesAre
        <5> HIDE DEF v, w, x, c, r
        <5> QED
          BY <5>1
      <4>2. \A j \in Nat : x # <<"proxy", j>>
        BY <1>2, PrefixesAre
      <4>3. \A j \in 0 .. k - 1 : x # <<"xrayfull", j>>
        <5>1. \A j \in Nat : x = <<"xrayfull", j>> => j = k
          BY <1>2, PrefixesAre
        <5>2. \A j \in 0 .. k - 1 : j \in Nat /\ j # k
          BY <1>2
        <5> QED
          BY <5>1, <5>2
      <4> QED
        BY <1>9, <4>1, <4>2, <4>3
    <3>3. <<prefix, i>> \notin PairsNow
      <4>1. <<prefix, i>> \notin {<<"route">>} \X (0 .. suffix - 1)
        BY <3>2
      <4>2. <<prefix, i>> \notin {<<"xrayfull", j>> : j \in 0 .. k - 1} \X Nat
        BY <3>2
      <4>3. <<prefix, i>> \notin {<<"proxy", j>> : j \in 0 .. suffix - 1} \X Nat
        BY <3>2
      <4> QED
        BY <2>2, <4>1, <4>2, <4>3 DEF PairsNow
    <3> QED
      BY <3>1, <3>3
  <2>7. \A i \in 0 .. Len(req.hops) - 1 : <<req.prefix, req.startSuffix + i>> \in PairsNow' \ PairsNow
    <3>1. \A i \in 0 .. Len(hops) - 1 : i \in Nat /\ 0 + i = i
      BY <1>7
    <3> QED
      BY <1>9, <1>10, <2>6, <3>1
  <2>8. portIdx' \in portIdx .. Len(ports)
    BY <1>1, <1>2
  <2>9. drain \in BOOLEAN /\ (drain => Where(req.hops, Full) # {})
    BY <1>7, <1>10 DEF drain
  <2>10. suffix \in Nat /\ k \in Nat /\ GoodCredit(req.credit)
    BY <1>2, <1>8, <1>10
  <2> HIDE DEF PairsNow, OwnNow, ChainsOK
  <2> QED
    BY <1>1, <1>2, <1>6, <1>10, <2>1, <2>4, <2>5, <2>7, <2>8, <2>9, <2>10, NoSpareIs, ChainBuilt
<1>12. StageOK'
  <2>1. TestNeeds' = TestNeeds
    BY <1>1 DEF TestNeeds
  <2>2. portIdx <= Total(TestNeeds, k) /\ Len(ports) = Total(TestNeeds, 2)
    <3>1. portIdx <= Total(TestNeeds, k - 1) /\ Len(ports) = Total(TestNeeds, 2)
      BY <1>1, <1>2 DEF StageOK
    <3>2. Total(TestNeeds, k - 1) \in Nat /\ Total(TestNeeds, k) = Total(TestNeeds, k - 1) + Count(Presumed(job.items[k]))
          /\ Count(Presumed(job.items[k])) \in Nat
      BY <1>2, <1>3, <1>5, TestSums
    <3> QED
      BY <1>2, <3>1, <3>2
  <2>3. k' \in Nat \ {0} /\ k' <= 3 /\ k' - 1 = k
    BY <1>1, <1>5
  <2> QED
    BY <1>1, <1>2, <1>3, <1>11, <2>1, <2>2, <2>3 DEF StageOK, AtStart
<1> QED
  BY <1>1, <1>2, <1>11, <1>12



\* A candidate has a prefix of its own and the next ports.
LEMMA TestChainKeeps == ASSUME ConfigInv, TestChain PROVE ConfigInv'
<1> SUFFICES ASSUME at' # "failed" PROVE StageOK' /\ ChainsOK' /\ job \in Jobs /\ job' = job
  BY DEF ConfigInv, TestChain
<1>1. at = "candidates" /\ job' = job /\ k' = k + 1 /\ suffix' = suffix + 1 /\ outboundMap' = outboundMap
      /\ planned' = planned /\ ports' = ports /\ k <= Len(job.items)
  BY DEF TestChain
<1>2. /\ JobIs /\ StageOK /\ ChainsOK /\ job \in Jobs /\ PortsOK /\ Len(ports) \in Nat /\ portIdx \in Nat
      /\ k \in Nat \ {0} /\ suffix \in Nat
  BY <1>1, Going DEF ConfigInv
<1>3. /\ job.purpose = "test" /\ portIdx <= Total(TestNeeds, k - 1) /\ Len(ports) = Total(TestNeeds, 2)
  BY <1>1, <1>2 DEF StageOK
<1>4. Len(job.items) = 2 /\ \A i \in 1 .. 2 : IsItem(job.items[i])
  BY <1>2, <1>3 DEF JobIs
<1>5. k \in 1 .. 2 /\ IsItem(job.items[k])
  <2>1. k \in 1 .. 2
    BY <1>1, <1>2, <1>4
  <2> QED
    BY <1>4, <2>1
<1> DEFINE item == job.items[k]
           own == UnwrapChain(item)
           hops == WithEnds(own)
           b == Presumed(item)
           prefix == <<"proxy", suffix>>
           start == 0
           credit == <<>>
           req == Request(hops, prefix, start, credit)
           given == Take(b)
           name == HopTag(prefix, start)
           drain == FALSE
<1>6. Builds(req, given, drain, name, "candidates") /\ portIdx' = PortsAfter(b)
  BY DEF TestChain
<1>7. hops \in Seq(Hops) /\ hops # <<>>
  <2> HIDE DEF item
  <2>1. own \in Seq(Kinds) /\ own # <<>>
    BY <1>5, UnwrapIs DEF item
  <2> HIDE DEF own
  <2>2. hops \in Seq(Kinds) /\ hops # <<>>
    BY <1>2, <2>1, WithEndsIs
  <2> HIDE DEF hops
  <2> QED
    BY <2>2 DEF Hops
<1>8. prefix \in TagPrefixes /\ start \in Nat /\ GoodCredit(credit) /\ credit \in Seq(Credits)
  BY <1>2, PrefixesAre, CreditsAre
<1>9. b \in Bridges
  BY <1>5, PresumedIs
<1>10. /\ Count(b) \in Nat /\ Total(TestNeeds, k - 1) \in Nat
       /\ Total(TestNeeds, k) = Total(TestNeeds, k - 1) + Count(b) /\ Total(TestNeeds, k) <= Len(ports)
  <2>1. k - 1 \in 0 .. 2 /\ k \in 0 .. 2
    BY <1>5
  <2> QED
    BY <1>2, <1>3, <1>5, <2>1, TestSums
<1>11. portIdx + Count(b) <= Total(TestNeeds, k) /\ portIdx + Count(b) <= Len(ports)
  BY <1>2, <1>3, <1>10
<1> HIDE DEF item, own, hops, b
<1>12. /\ given \in PortRecords /\ portIdx' = portIdx + Count(b) /\ portIdx' \in portIdx .. Len(ports)
       /\ given.singToXray \in {0} \cup (portIdx + 1 .. portIdx')
       /\ given.xrayToSing \in {0} \cup (portIdx + 1 .. portIdx')
  BY <1>2, <1>6, <1>9, <1>11, TakeIs
<1>13. prefix = <<"proxy", suffix>> /\ start = 0
  OBVIOUS
<1> HIDE DEF given, name, prefix, start, credit
<1>14. /\ IsRequest(req) /\ req.hops = hops /\ req.prefix = prefix /\ req.startSuffix = start
       /\ req.credit = credit /\ ~req.includeProxy /\ IngressTag(req) = name
  <2>1. req = Request(hops, prefix, start, credit)
    OBVIOUS
  <2> HIDE DEF req
  <2> QED
    BY <1>7, <1>8, <2>1, PlainRequest DEF name
<1> HIDE DEF req, drain
<1>15. at' = "candidates" /\ ChainsOK'
  <2>1. at' = "candidates"
    BY <1>6 DEF Builds
  <2>2. PoolNow' = {} /\ PoolNow = {} /\ FullNow = 0 .. k - 1 /\ FullNow' = 0 .. k /\ ~Beside /\ ~Beside'
    <3>1. k' - 1 = k
      BY <1>1, <1>2
    <3> QED
      BY <1>1, <2>1, <3>1 DEF PoolNow, FullNow, Beside
  <2>3. 0 .. k - 1 \subseteq 0 .. k /\ suffix' - 1 = suffix /\ 0 .. suffix - 1 \subseteq 0 .. suffix
        /\ suffix \in 0 .. suffix /\ suffix \notin 0 .. suffix - 1
    BY <1>1, <1>2
  <2> HIDE DEF PoolNow, FullNow, Beside
  <2>4. PairsNow \subseteq PairsNow'
    <3>1. {<<"xrayfull", j>> : j \in 0 .. k - 1} \X Nat \subseteq {<<"xrayfull", j>> : j \in 0 .. k} \X Nat
      BY <2>3
    <3>2. {<<"proxy", j>> : j \in 0 .. suffix - 1} \X Nat \subseteq {<<"proxy", j>> : j \in 0 .. suffix' - 1} \X Nat
      BY <2>3
    <3>3. {<<"route">>} \X (0 .. suffix - 1) \subseteq {<<"route">>} \X (0 .. suffix' - 1)
      BY <2>3
    <3> QED
      BY <2>2, <3>1, <3>2, <3>3 DEF PairsNow
  <2>5. OwnNow \subseteq OwnNow'
    BY <2>2 DEF OwnNow
  <2>6. ASSUME NEW i \in Nat PROVE <<prefix, i>> \in PairsNow' \ PairsNow
    <3>1. <<prefix, i>> \in PairsNow'
      BY <1>13, <2>2, <2>3 DEF PairsNow
    <3>2. prefix # <<"route">> /\ (\A j \in Nat : prefix # <<"xrayfull", j>>) /\ \A j \in 0 .. suffix - 1 : prefix # <<"proxy", j>>
      <4> DEFINE r == <<"route">>
                 c == <<"config">>
                 w == <<"proxy", suffix>>
      <4>1. w # r
        <5> DEFINE v == <<"pool", suffix>>
                   x == <<"xrayfull", suffix>>
        <5>1. {v, w, x} \cap {c, r} = {}
          BY <1>2, PrefixesAre
        <5> HIDE DEF v, w, x, c, r
        <5> QED
          BY <5>1
      <4>2. \A j \in Nat : w # <<"xrayfull", j>>
        BY <1>2, PrefixesAre
      <4>3. \A j \in 0 .. suffix - 1 : w # <<"proxy", j>>
        <5>1. \A j \in Nat : w = <<"proxy", j>> => j = suffix
          BY <1>2, PrefixesAre
        <5>2. \A j \in 0 .. suffix - 1 : j \in Nat /\ j # suffix
          BY <1>2
        <5> QED
          BY <5>1, <5>2
      <4> QED
        BY <1>13, <4>1, <4>2, <4>3
    <3>3. <<prefix, i>> \notin PairsNow
      <4>1. <<prefix, i>> \notin {<<"route">>} \X (0 .. suffix - 1)
        BY <3>2
      <4>2. <<prefix, i>> \notin {<<"xrayfull", j>> : j \in 0 .. k - 1} \X Nat
        <5>1. \A j \in 0 .. k - 1 : j \in Nat
          BY <1>2
        <5> QED
          BY <3>2, <5>1
      <4>3. <<prefix, i>> \notin {<<"proxy", j>> : j \in 0 .. suffix - 1} \X Nat
        BY <3>2
      <4> QED
        BY <2>2, <4>1, <4>2, <4>3 DEF PairsNow
    <3> QED
      BY <3>1, <3>3
  <2>7. \A i \in 0 .. Len(req.hops) - 1 : <<req.prefix, req.startSuffix + i>> \in PairsNow' \ PairsNow
    <3>1. \A i \in 0 .. Len(hops) - 1 : i \in Nat /\ 0 + i = i
      BY <1>7, LenProperties
    <3> QED
      BY <1>13, <1>14, <2>6, <3>1
  <2>8. drain \in BOOLEAN /\ (drain => Where(req.hops, Full) # {})
    BY DEF drain
  <2>9. suffix \in Nat /\ k \in Nat /\ GoodCredit(req.credit)
    BY <1>2, <1>8, <1>14
  <2> HIDE DEF PairsNow, OwnNow, ChainsOK
  <2> QED
    BY <1>1, <1>2, <1>6, <1>12, <1>14, <2>1, <2>4, <2>5, <2>7, <2>8, <2>9, ChainBuilt
<1>16. StageOK'
  <2>1. TestNeeds' = TestNeeds
    BY <1>1 DEF TestNeeds
  <2>2. k' \in Nat \ {0} /\ k' <= 3 /\ k' - 1 = k /\ suffix' \in Nat
    BY <1>1, <1>2, <1>5
  <2> QED
    BY <1>1, <1>3, <1>11, <1>12, <1>15, <2>1, <2>2 DEF StageOK, AtStart
<1> QED
  BY <1>1, <1>2, <1>15, <1>16

\* A step of others changes nothing.
LEMMA StutterKeeps == ASSUME ConfigInv, UNCHANGED confVars PROVE ConfigInv'
<1>1. /\ job' = job /\ at' = at /\ k' = k /\ ctx' = ctx /\ suffix' = suffix /\ outboundMap' = outboundMap
      /\ planned' = planned /\ ports' = ports /\ portIdx' = portIdx /\ rules' = rules /\ asked' = asked
  BY DEF confVars
<1> SUFFICES ASSUME at # "failed" PROVE StageOK' /\ ChainsOK'
  BY <1>1 DEF ConfigInv
<1>2. StageOK /\ ChainsOK
  BY DEF ConfigInv
<1>3. ChainsOK'
  <2>1. PairsNow' = PairsNow /\ OwnNow' = OwnNow
    BY <1>1 DEF PairsNow, OwnNow, PoolNow, FullNow, Beside
  <2> QED
    BY <1>1, <1>2, <2>1, ChainsSame
<1>4. StageOK'
  <2>1. /\ PoolNeeds' = PoolNeeds /\ TestNeeds' = TestNeeds /\ RouteMap' = RouteMap /\ AtStart' = AtStart
        /\ SingRules' = SingRules /\ XrayRules' = XrayRules
    BY <1>1 DEF PoolNeeds, TestNeeds, RouteMap, AtStart, SingRules, XrayRules, WithEnds
  <2> QED
    BY <1>1, <1>2, <2>1 DEF StageOK
<1> QED
  BY <1>3, <1>4

\* The chains of a build stay apart, in every core, by their tags and by the ports of
\* their bridges, and each can be walked from its tag to its last hop, whichever parts
\* of the build come one after the other (buildOutboundChain and its callers).
THEOREM ConfigInvariant == ConfSpec => []ConfigInv
<1>1. ConfInit => ConfigInv
  BY InitConfig
<1>2. ConfigInv /\ [ConfNext]_confVars => ConfigInv'
  <2> SUFFICES ASSUME ConfigInv, [ConfNext]_confVars PROVE ConfigInv'
    OBVIOUS
  <2>1. CASE Prerequisites
    BY <2>1, PrerequisitesKeeps
  <2>2. CASE BuildMain
    BY <2>2, MainKeeps
  <2>3. CASE PlanPool
    BY <2>3, PlanKeeps
  <2>4. CASE BuildMember
    BY <2>4, MemberKeeps
  <2>5. CASE FinishPool
    BY <2>5, PoolKeeps
  <2>6. CASE BuildRoute
    BY <2>6, RouteKeeps
  <2>7. CASE FinishConfig
    BY <2>7, FinishKeeps
  <2>8. CASE PrepareTest
    BY <2>8, PrepareKeeps
  <2>9. CASE SkipCandidate
    BY <2>9, SkipKeeps
  <2>10. CASE TestFullConfig
    BY <2>10, FullKeeps
  <2>11. CASE TestChain
    BY <2>11, TestChainKeeps
  <2>12. CASE FinishTest
    BY <2>12, FinishTestKeeps
  <2>13. CASE UNCHANGED confVars
    BY <2>13, StutterKeeps
  <2> QED
    BY <2>1, <2>2, <2>3, <2>4, <2>5, <2>6, <2>7, <2>8, <2>9, <2>10, <2>11, <2>12, <2>13 DEF ConfNext
<1> QED
  BY <1>1, <1>2, PTL DEF ConfSpec


-----------------------------------------------------------------------------
(* A connection follows the walk of its chain. *)

RulesSet == rules = [sing |-> IF job.purpose = "test" THEN {} ELSE SingRules, xray |-> XrayRules]

\* A tag of an outbound names its place.
LEMMA NamedIs ==
    ASSUME OutLists(ctx), NEW side \in {"sing", "xray"}, NEW o \in In(ctx, side)
    PROVE  \E q : q[1] = side /\ OutAt(q) = o /\ Named(side, o.tag) = {q}
<1> DEFINE s == OutboundsOf(side)
           S == {p \in OutPlaces : p[1] = side /\ OutAt(p).tag = o.tag}
<1>1. /\ ToSet(s) = In(ctx, side) /\ OneTagEach(s)
      /\ \A p : p \in OutPlaces /\ p[1] = side <=> \E i \in DOMAIN s : p = <<side, i>>
  <2>1. "sing" # "xray"
    OBVIOUS
  <2>2. CASE side = "sing"
    <3>1. s = ctx.outbounds
      BY <2>2 DEF OutboundsOf
    <3>2. \A p : p \in OutPlaces /\ p[1] = side <=> \E i \in DOMAIN s : p = <<side, i>>
      BY <2>1, <2>2, <3>1 DEF OutPlaces
    <3> QED
      BY <2>2, <3>1, <3>2 DEF In, OutLists
  <2>3. CASE side = "xray"
    <3>1. s = ctx.xrayOutbounds
      BY <2>3 DEF OutboundsOf
    <3>2. \A p : p \in OutPlaces /\ p[1] = side <=> \E i \in DOMAIN s : p = <<side, i>>
      BY <2>1, <2>3, <3>1 DEF OutPlaces
    <3> QED
      BY <2>3, <3>1, <3>2 DEF In, OutLists
  <2> QED
    BY <2>2, <2>3
<1>2. \A i : OutAt(<<side, i>>) = s[i]
  BY DEF OutAt
<1> HIDE DEF s
<1>3. PICK i \in DOMAIN s : s[i] = o
  BY <1>1 DEF ToSet
<1> DEFINE q == <<side, i>>
<1>4. q \in OutPlaces /\ q[1] = side /\ OutAt(q) = o
  BY <1>1, <1>2, <1>3
<1>5. ASSUME NEW p \in S PROVE p = q
  <2>1. PICK j \in DOMAIN s : p = <<side, j>>
    BY <1>1, <1>5
  <2>2. s[j].tag = s[i].tag
    BY <1>2, <1>3, <1>5, <2>1
  <2> QED
    BY <1>1, <2>1, <2>2 DEF OneTagEach
<1>6. S = {q}
  BY <1>4, <1>5
<1>7. Named(side, o.tag) = TheOnly(S)
  BY DEF Named
<1> HIDE DEF S, q
<1>8. TheOnly(S) = {q}
  BY <1>6 DEF TheOnly
<1> QED
  BY <1>4, <1>7, <1>8

\* A bridge leads where its rule says.
LEMMA AcrossIs ==
    ASSUME BridgeLists(ctx), RulesSet, NEW q, q[1] \in {"sing", "xray"}, q[1] = "xray" => job.purpose # "test",
           NEW tag, Joins(ctx, q[1], OutAt(q).port, tag)
    PROVE  Across(q) = Named(Other(q[1]), tag)
<1> DEFINE port == OutAt(q).port
           R == rules[Other(q[1])]
           S == {r \in R : r.port = port}
           e == [port |-> port, to |-> tag]
<1>1. S = {e}
  <2>1. CASE q[1] = "sing"
    <3>1. R = XrayRules /\ Joins(ctx, "sing", port, tag)
      <4>1. Other(q[1]) = "xray" /\ rules["xray"] = XrayRules
        BY <2>1 DEF Other, RulesSet
      <4> QED
        BY <2>1, <4>1
    <3>2. PICK i \in DOMAIN ctx.xrayIngress : ctx.singToXray[i] = port /\ ctx.xrayIngress[i] = tag
      BY <3>1 DEF Joins
    <3>3. DOMAIN ctx.xrayIngress = DOMAIN ctx.singToXray /\ EachOnce(ctx.singToXray)
      BY LenProperties DEF BridgeLists
    <3> HIDE DEF port, R
    <3>4. e \in S
      BY <3>1, <3>2 DEF XrayRules
    <3>5. ASSUME NEW r \in S PROVE r = e
      <4>1. r.port = port /\ r \in XrayRules
        BY <3>1
      <4>2. PICK j \in DOMAIN ctx.xrayIngress : r = [port |-> ctx.singToXray[j], to |-> ctx.xrayIngress[j]]
        BY <4>1 DEF XrayRules
      <4>3. j = i
        BY <3>2, <3>3, <4>1, <4>2 DEF EachOnce
      <4> QED
        BY <3>2, <4>2, <4>3
    <3> QED
      BY <3>4, <3>5
  <2>2. CASE q[1] = "xray"
    <3>1. R = SingRules /\ Joins(ctx, "xray", port, tag)
      <4>1. Other(q[1]) = "sing" /\ rules["sing"] = SingRules
        BY <2>2 DEF Other, RulesSet
      <4> QED
        BY <2>2, <4>1
    <3>2. PICK i \in DOMAIN ctx.singIngress : ctx.xrayToSing[i] = port /\ ctx.singIngress[i] = tag
      BY <3>1 DEF Joins
    <3>3. DOMAIN ctx.singIngress = DOMAIN ctx.xrayToSing /\ EachOnce(ctx.xrayToSing)
      BY LenProperties DEF BridgeLists
    <3> HIDE DEF port, R
    <3>4. e \in S
      BY <3>1, <3>2, <3>3 DEF SingRules
    <3>5. ASSUME NEW r \in S PROVE r = e
      <4>1. r.port = port /\ r \in SingRules
        BY <3>1
      <4>2. PICK j \in DOMAIN ctx.xrayToSing : r = [port |-> ctx.xrayToSing[j], to |-> ctx.singIngress[j]]
        BY <4>1 DEF SingRules
      <4>3. j = i
        BY <3>2, <3>3, <4>1, <4>2 DEF EachOnce
      <4> QED
        BY <3>2, <4>2, <4>3
    <3> QED
      BY <3>4, <3>5
  <2> QED
    BY <2>1, <2>2
<1>2. Across(q) = UNION {Named(Other(q[1]), r.to) : r \in TheOnly(S)}
  BY DEF Across
<1> HIDE DEF S
<1>3. TheOnly(S) = {e}
  BY <1>1 DEF TheOnly
<1>4. e.to = tag
  OBVIOUS
<1> HIDE DEF e
<1> QED
  BY <1>2, <1>3, <1>4

\* Where a connection comes out that enters a hop of a walk.
LEMMA LandsAt ==
    ASSUME OutLists(ctx), BridgeLists(ctx), RulesSet, NEW hops \in Seq(Hops), NEW w, NEW n \in 1 .. Len(hops),
           PassesHop(ctx, hops, w, n), job.purpose = "test" => ~XrayToSing(hops),
           NEW q, q[1] = From(hops, n), OutAt(q) = w.enter[n]
    PROVE  \E e : Landing({q}) = {e} /\ e[1] = Runs(hops[n]) /\ OutAt(e) = w.leave[n]
<1>1. Landing({q}) = IF OutAt(q).hop = Bridge THEN Across(q) ELSE {q}
  BY DEF Landing
<1>2. Len(hops) \in Nat /\ DOMAIN hops = 1 .. Len(hops)
  BY LenProperties
<1>3. hops[n] # Bridge
  <2>1. hops[n] \in Hops
    BY <1>2, ElementOfSeq
  <2> QED
    BY <2>1, ConfigAssumption DEF Hops
<1>4. From(hops, n) \in {"sing", "xray"} /\ Runs(hops[n]) \in {"sing", "xray"}
  BY DEF From, Runs
<1>5. CASE w.enter[n] = w.leave[n] /\ From(hops, n) = Runs(hops[n])
  <2>1. OutAt(q).hop = hops[n] /\ OutAt(q) = w.leave[n] /\ q[1] = Runs(hops[n])
    BY <1>5 DEF PassesHop
  <2> QED
    BY <1>1, <1>3, <2>1
<1>6. CASE /\ w.enter[n].hop = Bridge /\ From(hops, n) # Runs(hops[n])
           /\ Joins(ctx, From(hops, n), w.enter[n].port, w.leave[n].tag)
  <2>1. From(hops, n) = "xray" => job.purpose # "test"
    <3> SUFFICES ASSUME From(hops, n) = "xray" PROVE XrayToSing(hops)
      OBVIOUS
    <3>1. n # 1 /\ Runs(hops[n - 1]) = "xray" /\ Runs(hops[n]) = "sing"
      BY <1>4, <1>6 DEF From
    <3>2. n > 1 /\ IsXray(hops[n - 1]) /\ ~IsXray(hops[n]) /\ n \in DOMAIN hops
      BY <1>2, <3>1 DEF Runs
    <3>3. n \in Transitions(hops)
      BY <3>2 DEF Transitions
    <3>4. IsSing(hops[n])
      BY <3>2 DEF IsSing, IsXray
    <3> QED
      BY <3>3, <3>4 DEF XrayToSing
  <2>2. Other(From(hops, n)) = Runs(hops[n])
    BY <1>4, <1>6 DEF Other
  <2>3. Landing({q}) = Across(q)
    BY <1>1, <1>6
  <2> DEFINE tag == w.leave[n].tag
             side == Runs(hops[n])
  <2>4. Across(q) = Named(side, tag)
    <3>1. Joins(ctx, q[1], OutAt(q).port, tag)
      BY <1>6
    <3> HIDE DEF tag, side
    <3>2. Across(q) = Named(Other(q[1]), tag)
      BY <1>4, <2>1, <3>1, AcrossIs
    <3> QED
      BY <2>2, <3>2 DEF side
  <2>5. w.leave[n] \in In(ctx, side) /\ side \in {"sing", "xray"}
    BY <1>4 DEF PassesHop
  <2> HIDE DEF side
  <2>6. PICK e : e[1] = side /\ OutAt(e) = w.leave[n] /\ Named(side, w.leave[n].tag) = {e}
    BY <2>5, NamedIs
  <2> QED
    BY <2>3, <2>4, <2>6 DEF side
<1> QED
  BY <1>5, <1>6 DEF PassesHop

\* The places of a walk.
Reaches(S, side, o) == \E q : S = {q} /\ q[1] = side /\ OutAt(q) = o

\* From the tag of a chain the connection enters and leaves where its walk does.
LEMMA EnteredIs ==
    ASSUME OutLists(ctx), BridgeLists(ctx), RulesSet, NEW c, c.hops \in Seq(Hops), c.hops # <<>>, ~NoWayBack(c),
           NEW w, IsWalk(ctx, c.hops, c.tag, w)
    PROVE  \A n \in 1 .. Len(c.hops) :
              /\ Reaches(Entered(c)[n], From(c.hops, n), w.enter[n])
              /\ Reaches(Landing(Entered(c)[n]), Runs(c.hops[n]), w.leave[n])
<1> DEFINE hops == c.hops
           L == Len(hops)
           Is(e) == e = [n \in 1 .. L |-> IF n = 1 THEN Named("sing", c.tag) ELSE Onward(Landing(e[n - 1]))]
           way == [n \in 1 .. L |-> Named(From(hops, n), w.enter[n].tag)]
<1>1. L \in Nat \ {0}
  BY LenProperties, EmptySeq
<1>2. job.purpose = "test" => ~XrayToSing(hops)
  BY DEF NoWayBack
<1>3. ASSUME NEW n \in 1 .. L, NEW S, S = Named(From(hops, n), w.enter[n].tag)
      PROVE  Reaches(S, From(hops, n), w.enter[n]) /\ Reaches(Landing(S), Runs(hops[n]), w.leave[n])
  <2>1. PassesHop(ctx, hops, w, n)
    BY DEF IsWalk
  <2>2. From(hops, n) \in {"sing", "xray"} /\ w.enter[n] \in In(ctx, From(hops, n))
    BY <2>1 DEF PassesHop, From, Runs
  <2>3. PICK q : q[1] = From(hops, n) /\ OutAt(q) = w.enter[n] /\ Named(From(hops, n), w.enter[n].tag) = {q}
    BY <2>2, NamedIs
  <2>4. \E e : Landing({q}) = {e} /\ e[1] = Runs(hops[n]) /\ OutAt(e) = w.leave[n]
    BY <1>2, <2>1, <2>3, LandsAt
  <2> QED
    BY <1>3, <2>3, <2>4 DEF Reaches
<1>4. Is(way)
  <2>1. ASSUME NEW n \in 1 .. L
        PROVE way[n] = IF n = 1 THEN Named("sing", c.tag) ELSE Onward(Landing(way[n - 1]))
    <3>1. CASE n = 1
      BY <3>1 DEF From, IsWalk
    <3>2. CASE n # 1
      <4>1. n - 1 \in 1 .. L /\ n \in 2 .. L
        BY <1>1, <3>2
      <4> DEFINE S == way[n - 1]
      <4>2. S = Named(From(hops, n - 1), w.enter[n - 1].tag)
        BY <4>1
      <4>3. way[n] = Named(From(hops, n), w.enter[n].tag)
        OBVIOUS
      <4> HIDE DEF S, way
      <4> DEFINE m == n - 1
      <4>4. m \in 1 .. L /\ S = Named(From(hops, m), w.enter[m].tag)
        BY <4>1, <4>2
      <4> HIDE DEF m
      <4>5. Reaches(Landing(S), Runs(hops[m]), w.leave[m])
        BY <1>3, <4>4
      <4>6. PICK q : Landing(S) = {q} /\ q[1] = Runs(hops[n - 1]) /\ OutAt(q) = w.leave[n - 1]
        BY <4>5 DEF Reaches, m
      <4>7. OutAt(q).detour = w.enter[n].tag /\ OutAt(q).detour # NoTag
        BY <4>1, <4>6 DEF IsWalk
      <4>8. {r \in {q} : OutAt(r).detour # NoTag} = {q}
        BY <4>7
      <4>9. Onward({q}) = Named(q[1], OutAt(q).detour)
        BY <4>8 DEF Onward
      <4>10. q[1] = From(hops, n)
        BY <3>2, <4>6 DEF From
      <4>11. Onward(Landing(S)) = way[n]
        BY <4>3, <4>6, <4>7, <4>9, <4>10
      <4> QED
        BY <3>2, <4>11 DEF S
    <3> QED
      BY <3>1, <3>2
  <2> HIDE DEF way
  <2>2. way = [n \in 1 .. L |-> way[n]]
    BY DEF way
  <2> QED
    BY <2>1, <2>2
<1> DEFINE entered[n \in 1 .. L] == IF n = 1 THEN Named("sing", c.tag) ELSE Onward(Landing(entered[n - 1]))
<1>5. entered = CHOOSE e : Is(e)
  BY DEF entered
<1>6. Entered(c) = entered
  BY DEF Entered, entered
<1> HIDE DEF entered, way
<1>7. Is(entered)
  <2> HIDE DEF Is
  <2> QED
    BY <1>4, <1>5
<1>8. \A n \in 1 .. L : entered[n] = way[n]
  <2> DEFINE T == {n \in Nat : n + 1 <= L => entered[n + 1] = way[n + 1]}
  <2>1. 0 \in T
    BY <1>1, <1>4, <1>7
  <2>2. ASSUME NEW n \in Nat, n \in T PROVE n + 1 \in T
    <3>1. CASE n + 2 <= L
      <4>1. n + 2 \in 1 .. L /\ n + 2 # 1 /\ (n + 2) - 1 = n + 1 /\ n + 1 <= L /\ (n + 1) + 1 = n + 2
        BY <1>1, <3>1
      <4>2. entered[n + 1] = way[n + 1]
        BY <2>2, <4>1
      <4>3. entered[n + 2] = Onward(Landing(entered[n + 1])) /\ way[n + 2] = Onward(Landing(way[n + 1]))
        BY <1>4, <1>7, <4>1
      <4> QED
        BY <4>1, <4>2, <4>3
    <3>2. CASE ~ (n + 2 <= L)
      BY <1>1, <3>2
    <3> QED
      BY <3>1, <3>2
  <2> HIDE DEF T
  <2>3. Nat \subseteq T
    BY <2>1, <2>2, SetInduction
  <2>4. ASSUME NEW n \in 1 .. L PROVE entered[n] = way[n]
    <3>1. n - 1 \in T /\ (n - 1) + 1 = n /\ n <= L
      BY <1>1, <2>3
    <3> QED
      BY <3>1 DEF T
  <2> QED
    BY <2>4
<1>9. ASSUME NEW n \in 1 .. L
      PROVE  Reaches(entered[n], From(hops, n), w.enter[n]) /\ Reaches(Landing(entered[n]), Runs(hops[n]), w.leave[n])
  <2>1. entered[n] = Named(From(hops, n), w.enter[n].tag)
    BY <1>8 DEF way
  <2> QED
    BY <1>3, <2>1
<1> QED
  BY <1>6, <1>9


\* Where all chains are built.
LEMMA AtEnd ==
    ASSUME ConfigInv, at = "built"
    PROVE  /\ OutLists(ctx) /\ BridgeLists(ctx) /\ RulesSet /\ Good(ctx, asked, Taken, Spent)
           /\ ctx.merged <=> ctx.xrayOutbounds # <<>>
<1>1. StageOK /\ Good(ctx, asked, Taken, Spent)
  BY Going
<1>2. OutLists(ctx) /\ BridgeLists(ctx)
  BY <1>1 DEF Good, Lists
<1>3. RulesSet /\ (ctx.merged <=> ctx.xrayOutbounds # <<>>)
  BY <1>1 DEF StageOK, RulesSet
<1> QED
  BY <1>1, <1>2, <1>3

\* A chain that was asked for, with its walk; no other has its tag.
LEMMA AskedIs ==
    ASSUME Good(ctx, asked, Taken, Spent), NEW W, Chains(ctx, asked, Taken, W), NEW j \in DOMAIN asked
    PROVE  /\ asked[j].hops \in Seq(Hops) /\ asked[j].hops # <<>> /\ ~ChainScanError(asked[j].hops)
           /\ asked[j].credit \in Seq(Credits) /\ Len(asked[j].hops) \in Nat \ {0}
           /\ IsWalk(ctx, asked[j].hops, asked[j].tag, W[j]) /\ HasInstance(ctx, asked, j, W[j])
           /\ \A i \in DOMAIN asked : i # j => asked[i].tag # asked[j].tag /\ asked[i] # asked[j]
           /\ \A n \in 1 .. Len(asked[j].hops) : W[j].enter[n].tag \in W[j].tags /\ W[j].leave[n].tag \in W[j].tags
<1>1. asked[j] \in Asked /\ Scanned(asked[j])
  BY ElementOfSeq DEF Good
<1>2. asked[j].hops \in Seq(Hops) /\ asked[j].hops # <<>> /\ ~ChainScanError(asked[j].hops) /\ asked[j].credit \in Seq(Credits)
  BY <1>1 DEF Asked, Scanned
<1>3. Len(asked[j].hops) \in Nat \ {0}
  BY <1>2, LenProperties, EmptySeq
<1>4. ASSUME NEW i \in DOMAIN asked
      PROVE  IsWalk(ctx, asked[i].hops, asked[i].tag, W[i]) /\ HasInstance(ctx, asked, i, W[i])
  BY DEF Chains
<1>5. ASSUME NEW i \in DOMAIN asked, NEW n \in 1 .. Len(asked[i].hops)
      PROVE  W[i].enter[n].tag \in W[i].tags /\ W[i].leave[n].tag \in W[i].tags
  BY <1>4 DEF IsWalk, PassesHop
<1>6. ASSUME NEW i \in DOMAIN asked PROVE asked[i].tag \in W[i].tags
  <2>1. asked[i] \in Asked /\ Scanned(asked[i])
    BY ElementOfSeq DEF Good
  <2>2. asked[i].hops \in Seq(Hops) /\ asked[i].hops # <<>>
    BY <2>1 DEF Asked, Scanned
  <2>3. Len(asked[i].hops) \in Nat \ {0}
    BY <2>2, LenProperties, EmptySeq
  <2>4. 1 \in 1 .. Len(asked[i].hops)
    BY <2>3
  <2>5. W[i].enter[1].tag = asked[i].tag
    BY <1>4 DEF IsWalk
  <2> QED
    BY <1>5, <2>4, <2>5
<1>7. ASSUME NEW i \in DOMAIN asked, i # j PROVE asked[i].tag # asked[j].tag
  <2>1. W[i].tags \cap W[j].tags = {}
    BY <1>7 DEF Chains
  <2> QED
    BY <1>6, <2>1
<1> QED
  BY <1>2, <1>3, <1>4, <1>5, <1>7

\* What the invariant says of every chain at the end.
LEMMA HopsFollowed == ASSUME ConfigInv PROVE FollowsHops
<1> SUFFICES ASSUME at = "built", NEW c \in ToSet(asked), ~NoWayBack(c), ~SlotShared(c)
             PROVE  LET carrier == [n \in DOMAIN c.hops |-> Landing(Entered(c)[n])]
                    IN  /\ \A n \in DOMAIN c.hops : Carries(carrier[n], c.hops[n])
                        /\ \A p \in carrier[Len(c.hops)] : OutAt(p).detour = NoTag
  BY DEF FollowsHops
<1>1. /\ OutLists(ctx) /\ BridgeLists(ctx) /\ RulesSet /\ Good(ctx, asked, Taken, Spent)
      /\ ctx.merged <=> ctx.xrayOutbounds # <<>>
  BY AtEnd
<1>2. PICK W : Chains(ctx, asked, Taken, W)
  <2> HIDE DEF Taken, Spent
  <2> QED
    BY <1>1 DEF Good
<1>3. PICK j \in DOMAIN asked : c = asked[j]
  BY DEF ToSet
<1> DEFINE hops == c.hops
           L == Len(hops)
           w == W[j]
<1> HIDE DEF Taken, Spent
<1>4. /\ hops \in Seq(Hops) /\ hops # <<>> /\ ~ChainScanError(hops) /\ L \in Nat \ {0}
      /\ IsWalk(ctx, hops, c.tag, w) /\ HasInstance(ctx, asked, j, w)
      /\ \A i \in DOMAIN asked : i # j => asked[i] # c
  BY <1>1, <1>2, <1>3, AskedIs
<1>5. DOMAIN hops = 1 .. L
  BY <1>4, LenProperties
<1>6. ASSUME NEW n \in 1 .. L PROVE Reaches(Landing(Entered(c)[n]), Runs(hops[n]), w.leave[n])
  BY <1>1, <1>4, EnteredIs
<1>7. ASSUME Opaque(hops) PROVE w.leave[L].port \in Served
  <2> DEFINE port == w.leave[L].port
  <2>1. \A i \in DOMAIN asked : i # j => asked[i] \in ToSet(asked) \ {c}
    BY <1>4 DEF ToSet
  <2>2. /\ port # 0
        /\ IF c.drained THEN port \in ToSet(ctx.fulls)
           ELSE port = ctx.xrayConfig \/ \E i \in DOMAIN asked : i # j /\ Where(asked[i].hops, Full \cup Xray) # {}
    BY <1>3, <1>4, <1>7 DEF HasInstance
  <2> HIDE DEF port
  <2>3. CASE c.drained
    BY <2>2, <2>3 DEF Served, port
  <2>4. CASE ~c.drained
    <3>1. \A i \in DOMAIN asked : i # j => Where(asked[i].hops, Full \cup Xray) = {}
      BY <1>7, <2>1, <2>4 DEF SlotShared
    <3>2. port = ctx.xrayConfig
      BY <2>2, <2>4, <3>1
    <3>3. ~ctx.merged
      <4> SUFFICES ASSUME ctx.merged PROVE FALSE
        OBVIOUS
      <4>1. PICK i \in DOMAIN asked : Where(asked[i].hops, Xray) # {}
        BY <1>1 DEF Good
      <4>2. Where(asked[i].hops, Full \cup Xray) # {}
        BY <4>1 DEF Where
      <4>3. i = j
        BY <3>1, <4>2
      <4>4. Where(hops, Xray) # {}
        BY <1>3, <4>1, <4>3
      <4>5. \A m \in 1 .. L : ~IsXray(hops[m])
        BY <1>4, <1>7, ScanLeaves
      <4> QED
        BY <1>5, <4>4, <4>5 DEF Where, IsXray
    <3> QED
      BY <2>2, <3>2, <3>3 DEF Served, port
  <2> QED
    BY <2>3, <2>4
<1>8. ASSUME NEW n \in 1 .. L PROVE Carries(Landing(Entered(c)[n]), hops[n])
  <2>1. PICK q : Landing(Entered(c)[n]) = {q} /\ q[1] = Runs(hops[n]) /\ OutAt(q) = w.leave[n]
    BY <1>6 DEF Reaches
  <2>2. OutAt(q).hop = hops[n]
    BY <1>4, <2>1 DEF IsWalk, PassesHop
  <2>3. q[1] = "xray" <=> IsXray(hops[n])
    BY <2>1 DEF Runs
  <2>4. ASSUME hops[n] \in Full PROVE OutAt(q).port \in Served
    <3>1. n = L
      BY <1>4, <2>4, ScanLeaves
    <3>2. Opaque(hops)
      BY <1>4, <2>4, <3>1 DEF Opaque, Last
    <3> QED
      BY <1>7, <2>1, <3>1, <3>2
  <2>5. (q[1] = "xray") = IsXray(hops[n])
    BY <2>3 DEF IsXray
  <2> DEFINE S == Landing(Entered(c)[n])
             h == hops[n]
             Here(p) == OutAt(p).hop = h /\ (p[1] = "xray") = IsXray(h) /\ (h \in Full => OutAt(p).port \in Served)
  <2>6. q \in S /\ Here(q)
    BY <2>1, <2>2, <2>4, <2>5
  <2>7. Carries(S, h) <=> \E p \in S : Here(p)
    BY DEF Carries
  <2> HIDE DEF S, h, Here
  <2>8. Carries(S, h)
    BY <2>6, <2>7
  <2> QED
    BY <2>8 DEF S, h
<1>9. ASSUME NEW p \in Landing(Entered(c)[L]) PROVE OutAt(p).detour = NoTag
  <2>1. L \in 1 .. L
    BY <1>4
  <2>2. PICK q : Landing(Entered(c)[L]) = {q} /\ q[1] = Runs(hops[L]) /\ OutAt(q) = w.leave[L]
    BY <1>6, <2>1 DEF Reaches
  <2>3. w.leave[L].detour = NoTag
    BY <1>4 DEF IsWalk
  <2> QED
    BY <1>9, <2>2, <2>3
<1>10. L \in DOMAIN hops
  BY <1>4, <1>5
<1> QED
  BY <1>5, <1>8, <1>9, <1>10

\* The tag by which a chain is known leads through its hops, each once and in its own
\* core, in the order in which they were asked for, and no further, whatever else is
\* built beside it (buildOutboundChain).
THEOREM ConfigFollowsHops == ConfSpec => []FollowsHops
<1>1. ConfigInv => FollowsHops
  BY HopsFollowed
<1> QED
  BY <1>1, ConfigInvariant, PTL


-----------------------------------------------------------------------------
(* Whom the bytes of a chain are credited to. *)

\* In the profiles of a chain each is once.
LEMMA OnceEach ==
    ASSUME NEW hops \in Seq(Hops), IsInjective(hops), NEW credit \in Seq(Credits),
           credit = <<>> \/ \E x \in Credits \ Hops : credit = <<x>>
    PROVE  /\ ToSet(hops \o credit) = ToSet(hops) \cup ToSet(credit)
           /\ \A i, j \in DOMAIN (hops \o credit) : (hops \o credit)[i] = (hops \o credit)[j] => i = j
<1> DEFINE s == hops \o credit
           m == Len(hops)
<1>1. hops \in Seq(Credits) /\ m \in Nat /\ DOMAIN hops = 1 .. m
  BY LenProperties DEF Credits
<1>2. Len(credit) \in Nat /\ DOMAIN credit = 1 .. Len(credit)
  BY LenProperties
<1>3. /\ s \in Seq(Credits) /\ DOMAIN s = 1 .. m + Len(credit)
      /\ \A i \in 1 .. m + Len(credit) : s[i] = IF i <= m THEN hops[i] ELSE credit[i - m]
  BY <1>1, ConcatProperties, LenProperties
<1>4. ToSet(s) = ToSet(hops) \cup ToSet(credit)
  BY <1>1, Concats
<1>5. \A i \in 1 .. m : hops[i] \in Hops
  BY ElementOfSeq
<1>6. \A i, j \in 1 .. m : hops[i] = hops[j] => i = j
  BY <1>1 DEF IsInjective
<1> HIDE DEF s, m
<1>7. ASSUME NEW i \in DOMAIN s, NEW j \in DOMAIN s, s[i] = s[j] PROVE i = j
  <2>1. CASE credit = <<>>
    <3>1. Len(credit) = 0
      BY <2>1
    <3>2. i \in 1 .. m /\ j \in 1 .. m
      BY <1>1, <1>3, <3>1
    <3> QED
      BY <1>2, <1>3, <1>6, <1>7, <3>1, <3>2
  <2>2. CASE \E x \in Credits \ Hops : credit = <<x>>
    <3>1. PICK x \in Credits \ Hops : credit = <<x>>
      BY <2>2
    <3>2. Len(credit) = 1 /\ credit[1] = x
      BY <3>1
    <3>3. (i \in 1 .. m \/ i = m + 1) /\ (j \in 1 .. m \/ j = m + 1)
      BY <1>1, <1>3, <3>2
    <3>4. \A n \in 1 .. m : s[n] = hops[n] /\ s[n] # x
      <4>1. \A n \in 1 .. m : n \in 1 .. m + Len(credit) /\ n <= m
        BY <1>1, <3>2
      <4> QED
        BY <1>3, <1>5, <3>1, <4>1
    <3>5. s[m + 1] = x
      <4>1. m + 1 \in 1 .. m + Len(credit) /\ ~(m + 1 <= m) /\ (m + 1) - m = 1
        BY <1>1, <3>2
      <4> QED
        BY <1>3, <3>2, <4>1
    <3> QED
      BY <1>6, <1>7, <3>3, <3>4, <3>5
  <2> QED
    BY <2>1, <2>2
<1> QED
  BY <1>4, <1>7 DEF s

\* Only the group of a chain watches a tag on its way.
LEMMA WatchesItself ==
    ASSUME OutLists(ctx), BridgeLists(ctx), RulesSet, Good(ctx, asked, Taken, Spent), job.purpose # "test",
           NEW W, Chains(ctx, asked, Taken, W), Groups(ctx, asked, W), NEW j \in DOMAIN asked
    PROVE  Watching(asked[j]) = {j}
<1> DEFINE c == asked[j]
           hops == c.hops
           L == Len(hops)
           w == W[j]
<1>1. /\ hops \in Seq(Hops) /\ hops # <<>> /\ L \in Nat \ {0} /\ IsWalk(ctx, hops, c.tag, w)
      /\ \A n \in 1 .. L : w.enter[n].tag \in w.tags /\ w.leave[n].tag \in w.tags
  <2> HIDE DEF Taken, Spent
  <2> QED
    BY AskedIs
<1>2. DOMAIN hops = 1 .. L
  BY <1>1, LenProperties
<1>3. ~NoWayBack(c)
  BY DEF NoWayBack
<1>4. \A n \in 1 .. L : /\ Reaches(Entered(c)[n], From(hops, n), w.enter[n])
                        /\ Reaches(Landing(Entered(c)[n]), Runs(hops[n]), w.leave[n])
  <2> HIDE DEF Taken, Spent
  <2> QED
    BY <1>1, <1>3, EnteredIs
<1>5. \A p \in Passed(c) : OutAt(p).tag \in w.tags
  <2> SUFFICES ASSUME NEW n \in 1 .. L, NEW p \in Entered(c)[n] \cup Landing(Entered(c)[n])
               PROVE OutAt(p).tag \in w.tags
    BY <1>2 DEF Passed
  <2>1. OutAt(p) \in {w.enter[n], w.leave[n]}
    BY <1>4 DEF Reaches
  <2> QED
    BY <1>1, <2>1
<1>6. \A n \in 1 .. L : \A t \in {w.enter[n].tag, w.leave[n].tag} : \E p \in Passed(c) : OutAt(p).tag = t
  <2> SUFFICES ASSUME NEW n \in 1 .. L, NEW t \in {w.enter[n].tag, w.leave[n].tag}
               PROVE \E p \in Passed(c) : OutAt(p).tag = t
    OBVIOUS
  <2>1. \E p \in Entered(c)[n] \cup Landing(Entered(c)[n]) : OutAt(p).tag = t
    BY <1>4 DEF Reaches
  <2>2. Entered(c)[n] \cup Landing(Entered(c)[n]) \subseteq Passed(c)
    BY <1>2 DEF Passed
  <2> QED
    BY <2>1, <2>2
<1>7. DOMAIN ctx.chainGroups = DOMAIN asked
  <2>1. ctx.chainGroups \in Seq(GroupRecords) /\ asked \in Seq(Asked) /\ Len(ctx.chainGroups) = Len(asked)
    BY DEF Groups, Good
  <2> QED
    BY <2>1, LenProperties
<1>8. ASSUME NEW g \in DOMAIN asked
      PROVE  \E n \in 1 .. Len(asked[g].hops) : ctx.chainGroups[g].watch \in {W[g].enter[n].tag, W[g].leave[n].tag}
  BY DEF Groups, Credited
<1>9. ASSUME NEW g \in DOMAIN asked PROVE ctx.chainGroups[g].watch \in W[g].tags
  <2>1. \A n \in 1 .. Len(asked[g].hops) : W[g].enter[n].tag \in W[g].tags /\ W[g].leave[n].tag \in W[g].tags
    <3> HIDE DEF Taken, Spent
    <3> QED
      BY AskedIs
  <2> QED
    BY <1>8, <2>1
<1>10. ASSUME NEW g \in DOMAIN asked, NEW p \in Passed(c), OutAt(p).tag = ctx.chainGroups[g].watch PROVE g = j
  <2>1. ctx.chainGroups[g].watch \in W[g].tags \cap w.tags
    BY <1>5, <1>9, <1>10
  <2> QED
    BY <2>1 DEF Chains
<1>11. \E p \in Passed(c) : OutAt(p).tag = ctx.chainGroups[j].watch
  BY <1>6, <1>8
<1> QED
  BY <1>7, <1>10, <1>11 DEF Watching

\* What the invariant says of the groups at the end.
LEMMA OnceCredited == ASSUME ConfigInv PROVE CreditedOnce
<1> SUFFICES ASSUME at = "built", job.purpose # "test", NEW c \in ToSet(asked), IsInjective(c.hops),
                    ~(job.purpose = "selector" /\ job.warp), NEW p
             PROVE  Times(c, p) = IF p \in ToSet(c.hops) \cup ToSet(c.credit) THEN 1 ELSE 0
  BY DEF CreditedOnce
<1>1. /\ OutLists(ctx) /\ BridgeLists(ctx) /\ RulesSet /\ Good(ctx, asked, Taken, Spent)
  BY AtEnd
<1> HIDE DEF Taken, Spent
<1>2. PICK W : Chains(ctx, asked, Taken, W)
  BY <1>1 DEF Good
<1>3. Groups(ctx, asked, W)
  BY <1>2 DEF Chains, Ungrouped
<1>4. PICK j \in DOMAIN asked : c = asked[j]
  BY DEF ToSet
<1>5. Watching(c) = {j}
  BY <1>1, <1>2, <1>3, <1>4, WatchesItself
<1> DEFINE s == c.hops \o c.credit
           here == {<<j, i>> : i \in Where(s, {p})}
<1>6. ctx.chainGroups[j].profiles = s
  BY <1>3, <1>4 DEF Groups, Credited
<1>7. /\ ToSet(s) = ToSet(c.hops) \cup ToSet(c.credit)
      /\ \A i, n \in DOMAIN s : s[i] = s[n] => i = n
  <2>1. c.hops \in Seq(Hops) /\ c.credit \in Seq(Credits)
    BY <1>1, <1>2, <1>4, AskedIs
  <2>2. c.credit = <<>> \/ \E x \in Credits \ Hops : c.credit = <<x>>
    BY <1>1, <1>4 DEF Good, Scanned
  <2> QED
    BY <2>1, <2>2, OnceEach
<1>8. Times(c, p) = Cardinality(here)
  <2>1. UNION {{<<g, i>> : i \in Where(ctx.chainGroups[g].profiles, {p})} : g \in {j}} = here
    BY <1>6
  <2> QED
    BY <1>5, <2>1 DEF Times
<1> HIDE DEF s
<1>9. CASE p \in ToSet(s)
  <2>1. PICK i \in DOMAIN s : s[i] = p
    BY <1>9 DEF ToSet
  <2>2. Where(s, {p}) = {i}
    BY <1>7, <2>1 DEF Where
  <2>3. here = {<<j, i>>}
    BY <2>2
  <2> QED
    BY <1>7, <1>8, <1>9, <2>3, FS_Singleton
<1>10. CASE p \notin ToSet(s)
  <2>1. Where(s, {p}) = {}
    BY <1>10 DEF Where, ToSet
  <2>2. here = {}
    BY <2>1
  <2> QED
    BY <1>7, <1>8, <1>10, <2>2, FS_EmptySet
<1> QED
  BY <1>9, <1>10

\* Bytes of a chain are credited once to each of its profiles and to nothing else, unless
\* a profile is in it twice or a selector sits behind warp (chainGroups).
THEOREM ConfigCreditedOnce == ConfSpec => []CreditedOnce
<1>1. ConfigInv => CreditedOnce
  BY OnceCredited
<1> QED
  BY <1>1, ConfigInvariant, PTL
=============================================================================
