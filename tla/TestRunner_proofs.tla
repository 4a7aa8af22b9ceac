------------------------- MODULE TestRunner_proofs -------------------------
(***************************************************************************)
(* Theorems of TestRunner, for any callers, sweeps and number of stops: a  *)
(* profile shows what was measured for it as long as every call waits for  *)
(* its answer, and a stop ends the sweep it is meant for.                  *)
(***************************************************************************)
EXTENDS TestRunner, TLAPS

Busy == {"start", "loop", "wait"}
PollerType == [pc : {"none", "sleep", "query", "got", "ended"}, gen : Nat,
               got : SUBSET Probes, stop : BOOLEAN]

\* The types of the poll threads, and of the rest.
Shape == poller \in [Probes -> PollerType]
Typed ==
    /\ session \in Callers \cup {None} /\ sessionGen \in Nat
    /\ stopRequested \in BOOLEAN
    /\ worker \in [Callers -> {"idle", "over", "refused"} \cup Busy]
    /\ probe \in [Probes -> {"none", "queued", "calling", "done"}]
    /\ test \in [Probes -> {"none", "sent", "published", "answered", "failed"}]
    /\ buffer \subseteq Probes
    /\ shown \in [Probes -> {None} \cup Probes \X {"poll", "final"}]
    /\ stops \in 0..MaxStops /\ heard \subseteq Callers /\ givenUp \in BOOLEAN

\* The sweep is within its batches until it ends.
BatchInv ==
    /\ batch \in [Callers -> Nat]
    /\ \A c \in Callers : /\ batch[c] \in 1..(Batches(c) + 1)
                          /\ worker[c] = "wait" => batch[c] <= Batches(c)

\* Who holds session_ is the one sweep that is past tryLock.
OwnerInv == \A c \in Callers : worker[c] \in Busy <=> session = c

\* A probe that is under way is of the batch its worker waits for; each begins once;
\* and only a test that has not answered has a result in the buffer.
ThreadInv ==
    /\ \A x \in Probes : probe[x] # "none" =>
           \/ x[2] < batch[x[1]]
           \/ x[2] = batch[x[1]] /\ worker[x[1]] = "wait"
    /\ \A x \in Probes : probe[x] \in {"none", "queued"} => test[x] = "none"
    /\ \A x \in Probes : probe[x] \in {"queued", "calling"} =>
           worker[x[1]] = "wait" /\ batch[x[1]] = x[2]
    /\ \A x \in buffer : test[x] = "published"

\* A poll thread of the current generation is of the batch that is waited for.
Fresh(x) == poller[x].pc # "none" /\ poller[x].gen = sessionGen
GenInv ==
    /\ \A x \in Probes : poller[x].pc # "none" => poller[x].gen <= sessionGen
    /\ \A x \in Probes : \A c \in Callers :
           Fresh(x) /\ worker[c] = "wait" => x[1] = c /\ x[2] = batch[c]

\* While a sweep runs, the flag is set just if it was stopped since it began.
HeardInv == \A c \in Callers :
    /\ c \in heard => worker[c] \in {"loop", "wait", "over"}
    /\ worker[c] \in {"loop", "wait"} => (stopRequested <=> c \in heard)

\* If no call is given up, a test at work has its caller.
CallInv == ~givenUp => \A x \in Probes :
    test[x] \in {"sent", "published"} => probe[x] = "calling"

\* What a poll thread of the current generation holds for its tag is its own.
GotInv == ~givenUp => \A x \in Probes : \A y \in poller[x].got :
    Fresh(x) /\ y[3] = x[3] => y = x

IInv == /\ Shape /\ Typed /\ BatchInv /\ OwnerInv /\ ThreadInv /\ GenInv
        /\ HeardInv /\ CallInv /\ GotInv /\ MeasuredUnlessGivenUp

\* A probe is its caller, the number of its batch and its tag.
LEMMA ProbeIs ==
    ASSUME NEW x \in Probes
    PROVE  /\ x = <<x[1], x[2], x[3]>> /\ x[1] \in Callers /\ x[2] \in 1..Batches(x[1])
<1>1. PICK c \in Callers :
         x \in UNION {{<<c, i, t>> : t \in Sweeps[c][i]} : i \in 1..Batches(c)}
    BY Zenon DEF Probes
<1>2. PICK i \in 1..Batches(c) : x \in {<<c, i, t>> : t \in Sweeps[c][i]}
    BY <1>1, Zenon
<1>3. PICK t \in Sweeps[c][i] : x = <<c, i, t>>
    BY <1>2
<1> QED
    BY <1>3

\* The invariant holds initially.
LEMMA InitInv == Init => IInv
<1> SUFFICES ASSUME Init PROVE IInv
    OBVIOUS
<1> USE RunnerAssumption DEF Init
<1>1. Shape
    BY DEF Shape, PollerType, NoPoller
<1>2. Typed
  <2>1. /\ session \in Callers \cup {None} /\ sessionGen \in Nat /\ stopRequested \in BOOLEAN
        /\ heard \subseteq Callers /\ givenUp \in BOOLEAN
      OBVIOUS
  <2>2. /\ worker \in [Callers -> {"idle", "over", "refused"} \cup Busy]
        /\ buffer \subseteq Probes
      OBVIOUS
  <2>3. /\ probe \in [Probes -> {"none", "queued", "calling", "done"}]
        /\ test \in [Probes -> {"none", "sent", "published", "answered", "failed"}]
        /\ shown \in [Probes -> {None} \cup Probes \X {"poll", "final"}]
      OBVIOUS
  <2>4. stops \in 0..MaxStops
      BY RunnerAssumption
  <2> QED
      BY <2>1, <2>2, <2>3, <2>4 DEF Typed
<1>3. BatchInv
    BY DEF BatchInv, Batches
<1>4. OwnerInv
    BY DEF OwnerInv, Busy
<1>5. ThreadInv
    BY DEF ThreadInv
<1>6. GenInv
    BY DEF GenInv, NoPoller, Fresh
<1>7. HeardInv
    BY DEF HeardInv
<1>8. CallInv
    BY DEF CallInv
<1>9. GotInv
    BY DEF GotInv, NoPoller, Fresh
<1>10. MeasuredUnlessGivenUp
    BY DEF MeasuredUnlessGivenUp, AppliedToMeasured
<1> QED
    BY <1>1, <1>2, <1>3, <1>4, <1>5, <1>6, <1>7, <1>8, <1>9, <1>10 DEF IInv

\* What the steps of a poll thread and its owner do to its record.
LEMMA PollerUpdate ==
    ASSUME NEW p \in PollerType, NEW g \in SUBSET Probes,
           NEW to \in {"sleep", "query", "ended"}
    PROVE  /\ [p EXCEPT !.stop = TRUE, !.pc = IF @ = "sleep" THEN "ended" ELSE @] \in PollerType
           /\ [p EXCEPT !.pc = to] \in PollerType
           /\ [p EXCEPT !.pc = "got", !.got = g] \in PollerType
           /\ [p EXCEPT !.pc = to, !.got = {}] \in PollerType
           /\ \A n \in Nat : [NoPoller EXCEPT !.pc = "sleep", !.gen = n] \in PollerType
<1>1. [p EXCEPT !.stop = TRUE, !.pc = IF @ = "sleep" THEN "ended" ELSE @] \in PollerType
    BY DEF PollerType
<1>2. [p EXCEPT !.pc = to] \in PollerType
    BY DEF PollerType
<1>3. [p EXCEPT !.pc = "got", !.got = g] \in PollerType
    BY DEF PollerType
<1>4. [p EXCEPT !.pc = to, !.got = {}] \in PollerType
    BY DEF PollerType
<1>5. \A n \in Nat : [NoPoller EXCEPT !.pc = "sleep", !.gen = n] \in PollerType
    BY DEF PollerType, NoPoller
<1> QED
    BY <1>1, <1>2, <1>3, <1>4, <1>5

\* A poll thread keeps its type.
LEMMA ShapeStep ==
    ASSUME Shape, Typed, [Next]_vars
    PROVE  Shape'
<1>1. ASSUME NEW x \in Probes, NEW p \in PollerType, poller' = [poller EXCEPT ![x] = p]
      PROVE  Shape'
    BY <1>1 DEF Shape
<1>2. ASSUME NEW x \in Probes PROVE poller[x] \in PollerType
    BY DEF Shape
<1>3. ASSUME NEW x \in Probes, RunProbe(x) PROVE Shape'
  <2>1. [NoPoller EXCEPT !.pc = "sleep", !.gen = sessionGen] \in PollerType
      BY <1>2, <1>3, PollerUpdate DEF Typed
  <2>2. poller' = [poller EXCEPT ![x] = [NoPoller EXCEPT !.pc = "sleep", !.gen = sessionGen]]
      BY <1>3 DEF RunProbe, Call
  <2> QED
      BY <1>1, <1>3, <2>1, <2>2
<1>4. ASSUME NEW x \in Probes, Answered(x) \/ Refused(x) \/ GiveUp(x) PROVE Shape'
  <2> DEFINE told == [poller[x] EXCEPT !.stop = TRUE,
                                       !.pc = IF @ = "sleep" THEN "ended" ELSE @]
  <2>1. told \in PollerType
      BY <1>2, <1>4, PollerUpdate
  <2>2. poller' = [poller EXCEPT ![x] = told]
      BY <1>4 DEF Answered, Refused, GiveUp, StopPoller
  <2> QED
      BY <1>1, <1>4, <2>1, <2>2
<1>5. ASSUME NEW x \in Probes, Query(x) PROVE Shape'
  <2>1. [poller[x] EXCEPT !.pc = "query"] \in PollerType
      BY <1>2, <1>5, PollerUpdate
  <2> QED
      BY <1>1, <1>5, <2>1 DEF Query, Poll
<1>6. ASSUME NEW x \in Probes, CoreQuery(x) PROVE Shape'
  <2> DEFINE mine == {y \in buffer : Kind[y[1]] = Kind[x[1]]}
  <2>1. mine \in SUBSET Probes
      BY DEF Typed
  <2>2. [poller[x] EXCEPT !.pc = "got", !.got = mine] \in PollerType
      BY <1>2, <1>6, <2>1, PollerUpdate
  <2> QED
      BY <1>1, <1>6, <2>2 DEF CoreQuery
<1>7. ASSUME NEW x \in Probes, PollDone(x) PROVE Shape'
  <2>1. Rest(x) \in {"sleep", "ended"}
      BY DEF Rest
  <2>2. [poller[x] EXCEPT !.pc = Rest(x), !.got = {}] \in PollerType
      BY <1>2, <1>7, <2>1, PollerUpdate
  <2> QED
      BY <1>1, <1>7, <2>2 DEF PollDone, Again
<1>8. CASE UNCHANGED poller
    BY <1>8 DEF Shape
<1>9. ASSUME NEW x \in Probes, ProbeAborted(x) \/ Core(x) PROVE UNCHANGED poller
    BY <1>9 DEF ProbeAborted, Core, Publish, Answer, Fail
<1>10. ASSUME NEW c \in Callers, RunTestsBusy(c) \/ RunTests(c) \/ Sweep(c)
       PROVE  UNCHANGED poller
    BY <1>10 DEF RunTestsBusy, RunTests, Sweep, Begin, RunBatch, SkipBatch, BatchDone,
                 EndSession
<1>11. Stop \/ UNCHANGED vars => UNCHANGED poller
    BY DEF Stop, vars
<1> QED
    BY <1>3, <1>4, <1>5, <1>6, <1>7, <1>8, <1>9, <1>10, <1>11
       DEF Next, PoolThread, PollThread

\* The other variables keep theirs.
LEMMA TypedStep ==
    ASSUME Typed, Shape, [Next]_vars
    PROVE  Typed'
<1> USE RunnerAssumption DEF Typed, Shape, PollerType, Busy, Worker, Probe, Poll,
        vars, guiVars, coreVars, history
<1>1. ASSUME NEW c \in Callers, RunTestsBusy(c) PROVE Typed'
    BY <1>1 DEF RunTestsBusy
<1>2. ASSUME NEW c \in Callers, RunTests(c) PROVE Typed'
    BY <1>2 DEF RunTests
<1>3. ASSUME NEW c \in Callers, Begin(c) PROVE Typed'
    BY <1>3 DEF Begin
<1>4. ASSUME NEW c \in Callers, RunBatch(c) PROVE Typed'
    BY <1>4 DEF RunBatch, Current
<1>5. ASSUME NEW c \in Callers, SkipBatch(c) PROVE Typed'
    BY <1>5 DEF SkipBatch
<1>6. ASSUME NEW c \in Callers, BatchDone(c) PROVE Typed'
    BY <1>6 DEF BatchDone, Current
<1>7. ASSUME NEW c \in Callers, EndSession(c) PROVE Typed'
    BY <1>7 DEF EndSession
<1>8. ASSUME NEW x \in Probes, ProbeAborted(x) PROVE Typed'
    BY <1>8 DEF ProbeAborted
<1>9. ASSUME NEW x \in Probes, RunProbe(x) PROVE Typed'
    BY <1>9 DEF RunProbe, Call, NoPoller
<1>10. ASSUME NEW x \in Probes, Answered(x) PROVE Typed'
    BY <1>10 DEF Answered, StopPoller
<1>11. ASSUME NEW x \in Probes, Refused(x) PROVE Typed'
    BY <1>11 DEF Refused, StopPoller
<1>12. ASSUME NEW x \in Probes, GiveUp(x) PROVE Typed'
    BY <1>12 DEF GiveUp, StopPoller
<1>13. ASSUME NEW x \in Probes, CoreQuery(x) PROVE Typed'
    BY <1>13 DEF CoreQuery
<1>14. ASSUME NEW x \in Probes, PollDone(x) PROVE Typed'
  <2>1. shown' = shown \/ \E y \in poller[x].got : shown' = [shown EXCEPT ![x] = <<y, "poll">>]
      BY <1>14 DEF PollDone, Apply
  <2>2. poller[x].got \subseteq Probes
      OBVIOUS
  <2>3. shown' \in [Probes -> {None} \cup Probes \X {"poll", "final"}]
      BY <2>1, <2>2
  <2> QED
      BY <1>14, <2>3 DEF PollDone
<1>15. ASSUME NEW x \in Probes, Publish(x) PROVE Typed'
    BY <1>15 DEF Publish
<1>16. ASSUME NEW x \in Probes, Answer(x) PROVE Typed'
    BY <1>16 DEF Answer
<1>17. ASSUME NEW x \in Probes, Fail(x) PROVE Typed'
    BY <1>17 DEF Fail
<1>18. ASSUME NEW x \in Probes, Query(x) PROVE Typed'
    BY <1>18 DEF Query
<1>19. CASE Stop \/ UNCHANGED vars
  <2>1. CASE Stop
      BY <2>1 DEF Stop
  <2>2. CASE UNCHANGED vars
      BY <2>2
  <2> QED
      BY <1>19, <2>1, <2>2
<1> QED
    BY <1>1, <1>2, <1>3, <1>4, <1>5, <1>6, <1>7, <1>8, <1>9, <1>10, <1>11, <1>12, <1>13,
       <1>14, <1>15, <1>16, <1>17, <1>18, <1>19 DEF Next, Sweep, PoolThread, PollThread,
       Core

\* A worker goes through its batches one by one.
LEMMA BatchInvStep ==
    ASSUME BatchInv, Typed, [Next]_vars
    PROVE  BatchInv'
<1> USE RunnerAssumption DEF BatchInv, Typed, Busy, Worker, Probe, Poll,
        vars, guiVars, coreVars, history
<1>1. ASSUME NEW c \in Callers, RunTestsBusy(c) PROVE BatchInv'
    BY <1>1 DEF RunTestsBusy
<1>2. ASSUME NEW c \in Callers, RunTests(c) PROVE BatchInv'
    BY <1>2 DEF RunTests
<1>3. ASSUME NEW c \in Callers, Begin(c) PROVE BatchInv'
    BY <1>3 DEF Begin
<1>4. ASSUME NEW c \in Callers, RunBatch(c) PROVE BatchInv'
    BY <1>4 DEF RunBatch, Current
<1>5. ASSUME NEW c \in Callers, SkipBatch(c) PROVE BatchInv'
  <2>1. Batches(c) \in Nat /\ batch[c] \in 1..Batches(c)
      BY <1>5 DEF SkipBatch, Batches
  <2>2. batch' = [batch EXCEPT ![c] = @ + 1] /\ worker' = [worker EXCEPT ![c] = "loop"]
      BY <1>5 DEF SkipBatch
  <2> QED
      BY <2>1, <2>2
<1>6. ASSUME NEW c \in Callers, BatchDone(c) PROVE BatchInv'
  <2>1. Batches(c) \in Nat /\ batch[c] \in 1..Batches(c)
      BY <1>6 DEF BatchDone, Batches
  <2>2. batch' = [batch EXCEPT ![c] = @ + 1] /\ worker' = [worker EXCEPT ![c] = "loop"]
      BY <1>6 DEF BatchDone
  <2> QED
      BY <2>1, <2>2
<1>7. ASSUME NEW c \in Callers, EndSession(c) PROVE BatchInv'
    BY <1>7 DEF EndSession
<1>8. ASSUME NEW x \in Probes, PoolThread(x) \/ GiveUp(x) \/ PollThread(x) \/ Core(x)
      PROVE  BatchInv'
    BY <1>8 DEF PoolThread, ProbeAborted, RunProbe, Answered, Refused, GiveUp, PollThread,
       Query, CoreQuery, PollDone, Core, Publish, Answer, Fail
<1>9. CASE Stop \/ UNCHANGED vars
    BY <1>9 DEF Stop
<1> QED
    BY <1>1, <1>2, <1>3, <1>4, <1>5, <1>6, <1>7, <1>8, <1>9 DEF Next, Sweep, PoolThread,
       PollThread, Core

\* session_ is taken and given back with the sweep.
LEMMA OwnerInvStep ==
    ASSUME OwnerInv, Typed, [Next]_vars
    PROVE  OwnerInv'
<1> USE RunnerAssumption DEF OwnerInv, Typed, Busy, Worker, Probe, Poll,
        vars, guiVars, coreVars, history
<1>1. ASSUME NEW c \in Callers, RunTestsBusy(c) PROVE OwnerInv'
    BY <1>1 DEF RunTestsBusy
<1>2. ASSUME NEW c \in Callers, RunTests(c) PROVE OwnerInv'
    BY <1>2 DEF RunTests
<1>3. ASSUME NEW c \in Callers, Begin(c) PROVE OwnerInv'
    BY <1>3 DEF Begin
<1>4. ASSUME NEW c \in Callers, RunBatch(c) PROVE OwnerInv'
    BY <1>4 DEF RunBatch, Current
<1>5. ASSUME NEW c \in Callers, SkipBatch(c) PROVE OwnerInv'
    BY <1>5 DEF SkipBatch
<1>6. ASSUME NEW c \in Callers, BatchDone(c) PROVE OwnerInv'
    BY <1>6 DEF BatchDone, Current
<1>7. ASSUME NEW c \in Callers, EndSession(c) PROVE OwnerInv'
    BY <1>7 DEF EndSession
<1>8. ASSUME NEW x \in Probes, PoolThread(x) \/ GiveUp(x) \/ PollThread(x) \/ Core(x)
      PROVE  OwnerInv'
    BY <1>8 DEF PoolThread, ProbeAborted, RunProbe, Answered, Refused, GiveUp, PollThread,
       Query, CoreQuery, PollDone, Core, Publish, Answer, Fail
<1>9. CASE Stop \/ UNCHANGED vars
    BY <1>9 DEF Stop
<1> QED
    BY <1>1, <1>2, <1>3, <1>4, <1>5, <1>6, <1>7, <1>8, <1>9 DEF Next, Sweep, PoolThread,
       PollThread, Core

\* A batch is over when all of its probes are.
LEMMA ThreadInvStep ==
    ASSUME ThreadInv, Typed, OwnerInv, BatchInv, [Next]_vars
    PROVE  ThreadInv'
<1> USE RunnerAssumption DEF ThreadInv, Typed, OwnerInv, BatchInv, Busy, Worker, Probe,
        Poll,
        vars, guiVars, coreVars, history
<1>1. ASSUME NEW c \in Callers, RunTestsBusy(c) PROVE ThreadInv'
    BY <1>1 DEF RunTestsBusy
<1>2. ASSUME NEW c \in Callers, RunTests(c) PROVE ThreadInv'
    BY <1>2 DEF RunTests
<1>3. ASSUME NEW c \in Callers, Begin(c) PROVE ThreadInv'
    BY <1>3 DEF Begin
<1>4. ASSUME NEW c \in Callers, RunBatch(c) PROVE ThreadInv'
  <2>1. worker[c] = "loop" /\ batch' = batch /\ test' = test /\ buffer' = buffer
      BY <1>4 DEF RunBatch
  <2>2. \A x \in Probes : probe'[x] = IF x[1] = c /\ x[2] = batch[c] THEN "queued" ELSE probe[x]
      BY <1>4 DEF RunBatch, Current
  <2>3. \A d \in Callers : worker'[d] = IF d = c THEN "wait" ELSE worker[d]
      BY <1>4 DEF RunBatch
  <2>4. \A x \in Probes : x[1] \in Callers /\ x[2] \in Nat /\ batch[x[1]] \in Nat
      BY ProbeIs
  <2> QED
      BY <2>1, <2>2, <2>3, <2>4
<1>5. ASSUME NEW c \in Callers, SkipBatch(c) PROVE ThreadInv'
    BY <1>5, ProbeIs DEF SkipBatch
<1>6. ASSUME NEW c \in Callers, BatchDone(c) PROVE ThreadInv'
    BY <1>6, ProbeIs DEF BatchDone, Current
<1>7. ASSUME NEW c \in Callers, EndSession(c) PROVE ThreadInv'
    BY <1>7 DEF EndSession
<1>8. ASSUME NEW x \in Probes, ProbeAborted(x) PROVE ThreadInv'
    BY <1>8 DEF ProbeAborted
<1>9. ASSUME NEW x \in Probes, RunProbe(x) PROVE ThreadInv'
    BY <1>9 DEF RunProbe, Call, NoPoller
<1>10. ASSUME NEW x \in Probes, Answered(x) PROVE ThreadInv'
    BY <1>10 DEF Answered, StopPoller
<1>11. ASSUME NEW x \in Probes, Refused(x) PROVE ThreadInv'
    BY <1>11 DEF Refused, StopPoller
<1>12. ASSUME NEW x \in Probes, GiveUp(x) PROVE ThreadInv'
    BY <1>12 DEF GiveUp, StopPoller
<1>13. ASSUME NEW x \in Probes, CoreQuery(x) PROVE ThreadInv'
    BY <1>13 DEF CoreQuery
<1>14. ASSUME NEW x \in Probes, Publish(x) PROVE ThreadInv'
    BY <1>14 DEF Publish
<1>15. ASSUME NEW x \in Probes, Answer(x) PROVE ThreadInv'
    BY <1>15 DEF Answer
<1>16. ASSUME NEW x \in Probes, Fail(x) PROVE ThreadInv'
    BY <1>16 DEF Fail
<1>17. ASSUME NEW x \in Probes, Query(x) \/ PollDone(x) PROVE ThreadInv'
    BY <1>17 DEF Query, PollDone
<1>18. CASE Stop \/ UNCHANGED vars
    BY <1>18 DEF Stop
<1> QED
    BY <1>1, <1>2, <1>3, <1>4, <1>5, <1>6, <1>7, <1>8, <1>9, <1>10, <1>11, <1>12, <1>13,
       <1>14, <1>15, <1>16, <1>17, <1>18 DEF Next, Sweep, PoolThread, PollThread, Core

\* A batch that begins makes every poll thread stale.
LEMMA GenInvStep ==
    ASSUME GenInv, Shape, Typed, OwnerInv, ThreadInv, [Next]_vars
    PROVE  GenInv'
<1> USE RunnerAssumption DEF GenInv, Shape, Typed, OwnerInv, ThreadInv, PollerType, Busy,
        Fresh, Worker, Probe, Poll,
        vars, guiVars, coreVars, history
<1>1. ASSUME NEW c \in Callers, RunTestsBusy(c) PROVE GenInv'
    BY <1>1 DEF RunTestsBusy
<1>2. ASSUME NEW c \in Callers, RunTests(c) PROVE GenInv'
    BY <1>2 DEF RunTests
<1>3. ASSUME NEW c \in Callers, Begin(c) PROVE GenInv'
    BY <1>3 DEF Begin
<1>4. ASSUME NEW c \in Callers, RunBatch(c) PROVE GenInv'
    BY <1>4 DEF RunBatch, Current
<1>5. ASSUME NEW c \in Callers, SkipBatch(c) PROVE GenInv'
    BY <1>5 DEF SkipBatch
<1>6. ASSUME NEW c \in Callers, BatchDone(c) PROVE GenInv'
    BY <1>6 DEF BatchDone, Current
<1>7. ASSUME NEW c \in Callers, EndSession(c) PROVE GenInv'
    BY <1>7 DEF EndSession
<1>8. ASSUME NEW x \in Probes, RunProbe(x) PROVE GenInv'
    BY <1>8, ProbeIs DEF RunProbe, Call, NoPoller
<1>9. ASSUME NEW x \in Probes, Answered(x) PROVE GenInv'
    BY <1>9 DEF Answered, StopPoller
<1>10. ASSUME NEW x \in Probes, Refused(x) PROVE GenInv'
    BY <1>10 DEF Refused, StopPoller
<1>11. ASSUME NEW x \in Probes, GiveUp(x) PROVE GenInv'
    BY <1>11 DEF GiveUp, StopPoller
<1>12. ASSUME NEW x \in Probes, Query(x) PROVE GenInv'
    BY <1>12 DEF Query, StaleGen
<1>13. ASSUME NEW x \in Probes, CoreQuery(x) PROVE GenInv'
  <2>1. /\ poller'[x].gen = poller[x].gen /\ poller[x].pc # "none"
        /\ \A y \in Probes : y # x => poller'[y] = poller[y]
      BY <1>13 DEF CoreQuery
  <2> QED
      BY <1>13, <2>1 DEF CoreQuery
<1>14. ASSUME NEW x \in Probes, PollDone(x) PROVE GenInv'
    BY <1>14 DEF PollDone, Again, Apply, StaleGen, Rest
<1>15. ASSUME NEW x \in Probes, ProbeAborted(x) \/ Publish(x) \/ Answer(x) \/ Fail(x)
       PROVE  GenInv'
    BY <1>15 DEF ProbeAborted, Publish, Answer, Fail
<1>16. CASE Stop \/ UNCHANGED vars
    BY <1>16 DEF Stop
<1> QED
    BY <1>1, <1>2, <1>3, <1>4, <1>5, <1>6, <1>7, <1>8, <1>9, <1>10, <1>11, <1>12, <1>13,
       <1>14, <1>15, <1>16 DEF Next, Sweep, PoolThread, PollThread, Core

\* The flag is reset by the sweep that begins, and set by a stop only.
LEMMA HeardInvStep ==
    ASSUME HeardInv, Typed, OwnerInv, [Next]_vars
    PROVE  HeardInv'
<1> USE RunnerAssumption DEF HeardInv, Typed, OwnerInv, Busy, Worker, Probe, Poll,
        vars, guiVars, coreVars, history
<1>1. ASSUME NEW c \in Callers, RunTestsBusy(c) PROVE HeardInv'
    BY <1>1 DEF RunTestsBusy
<1>2. ASSUME NEW c \in Callers, RunTests(c) PROVE HeardInv'
    BY <1>2 DEF RunTests
<1>3. ASSUME NEW c \in Callers, Begin(c) PROVE HeardInv'
    BY <1>3 DEF Begin
<1>4. ASSUME NEW c \in Callers, RunBatch(c) PROVE HeardInv'
    BY <1>4 DEF RunBatch, Current
<1>5. ASSUME NEW c \in Callers, SkipBatch(c) PROVE HeardInv'
    BY <1>5 DEF SkipBatch
<1>6. ASSUME NEW c \in Callers, BatchDone(c) PROVE HeardInv'
    BY <1>6 DEF BatchDone, Current
<1>7. ASSUME NEW c \in Callers, EndSession(c) PROVE HeardInv'
    BY <1>7 DEF EndSession
<1>8. ASSUME NEW x \in Probes, PoolThread(x) \/ GiveUp(x) \/ PollThread(x) \/ Core(x)
      PROVE  HeardInv'
    BY <1>8 DEF PoolThread, ProbeAborted, RunProbe, Answered, Refused, GiveUp, PollThread,
       Query, CoreQuery, PollDone, Core, Publish, Answer, Fail
<1>9. CASE Stop \/ UNCHANGED vars
    BY <1>9 DEF Stop
<1> QED
    BY <1>1, <1>2, <1>3, <1>4, <1>5, <1>6, <1>7, <1>8, <1>9 DEF Next, Sweep, PoolThread,
       PollThread, Core

\* A call ends with its test, unless it is given up.
LEMMA CallInvStep ==
    ASSUME CallInv, Typed, ThreadInv, [Next]_vars
    PROVE  CallInv'
<1> USE RunnerAssumption DEF CallInv, Typed, ThreadInv, Worker, Probe, Poll,
        vars, guiVars, coreVars, history
<1>1. ASSUME NEW c \in Callers, RunBatch(c) PROVE CallInv'
    BY <1>1 DEF RunBatch, Current
<1>2. ASSUME NEW c \in Callers, RunTestsBusy(c) \/ RunTests(c) \/ Begin(c) \/ SkipBatch(c)
             \/ BatchDone(c) \/ EndSession(c)
      PROVE  CallInv'
    BY <1>2 DEF RunTestsBusy, RunTests, Begin, SkipBatch, BatchDone, EndSession
<1>3. ASSUME NEW x \in Probes, ProbeAborted(x) PROVE CallInv'
    BY <1>3 DEF ProbeAborted
<1>4. ASSUME NEW x \in Probes, RunProbe(x) PROVE CallInv'
    BY <1>4 DEF RunProbe, Call, NoPoller
<1>5. ASSUME NEW x \in Probes, Answered(x) PROVE CallInv'
    BY <1>5 DEF Answered, StopPoller
<1>6. ASSUME NEW x \in Probes, Refused(x) PROVE CallInv'
    BY <1>6 DEF Refused, StopPoller
<1>7. ASSUME NEW x \in Probes, GiveUp(x) PROVE CallInv'
    BY <1>7 DEF GiveUp, StopPoller
<1>8. ASSUME NEW x \in Probes, Publish(x) PROVE CallInv'
    BY <1>8 DEF Publish
<1>9. ASSUME NEW x \in Probes, Answer(x) PROVE CallInv'
    BY <1>9 DEF Answer
<1>10. ASSUME NEW x \in Probes, Fail(x) PROVE CallInv'
    BY <1>10 DEF Fail
<1>11. ASSUME NEW x \in Probes, Query(x) \/ CoreQuery(x) \/ PollDone(x) PROVE CallInv'
    BY <1>11 DEF Query, CoreQuery, PollDone
<1>12. CASE Stop \/ UNCHANGED vars
    BY <1>12 DEF Stop
<1> QED
    BY <1>1, <1>2, <1>3, <1>4, <1>5, <1>6, <1>7, <1>8, <1>9, <1>10, <1>11, <1>12 DEF Next,
       Sweep, PoolThread, PollThread, Core

\* What the core hands out is of the batch that is waited for.
LEMMA GotInvStep ==
    ASSUME GotInv, Shape, Typed, ThreadInv, GenInv, CallInv, [Next]_vars
    PROVE  GotInv'
<1> USE RunnerAssumption DEF GotInv, Shape, Typed, ThreadInv, GenInv, CallInv, PollerType,
        Fresh, Worker, Probe, Poll,
        vars, guiVars, coreVars, history
<1>1. ASSUME NEW c \in Callers, RunTests(c) PROVE GotInv'
    BY <1>1 DEF RunTests
<1>2. ASSUME NEW c \in Callers, RunBatch(c) PROVE GotInv'
    BY <1>2 DEF RunBatch, Current
<1>3. ASSUME NEW c \in Callers, SkipBatch(c) PROVE GotInv'
    BY <1>3 DEF SkipBatch
<1>4. ASSUME NEW c \in Callers, RunTestsBusy(c) \/ Begin(c) \/ BatchDone(c)
             \/ EndSession(c)
      PROVE  GotInv'
    BY <1>4 DEF RunTestsBusy, Begin, BatchDone, EndSession
<1>5. ASSUME NEW x \in Probes, RunProbe(x) PROVE GotInv'
    BY <1>5 DEF RunProbe, Call, NoPoller
<1>6. ASSUME NEW x \in Probes, Answered(x) PROVE GotInv'
    BY <1>6 DEF Answered, StopPoller
<1>7. ASSUME NEW x \in Probes, Refused(x) PROVE GotInv'
    BY <1>7 DEF Refused, StopPoller
<1>8. ASSUME NEW x \in Probes, GiveUp(x) PROVE GotInv'
    BY <1>8 DEF GiveUp, StopPoller
<1>9. ASSUME NEW x \in Probes, Query(x) PROVE GotInv'
    BY <1>9 DEF Query, StaleGen
<1>10. ASSUME NEW x \in Probes, CoreQuery(x) PROVE GotInv'
  <2>1. /\ poller'[x].gen = poller[x].gen /\ poller'[x].got \subseteq buffer
        /\ poller[x].pc # "none" /\ \A y \in Probes : y # x => poller'[y] = poller[y]
      BY <1>10 DEF CoreQuery
  <2>2. sessionGen' = sessionGen /\ givenUp' = givenUp
      BY <1>10 DEF CoreQuery
  <2>3. ASSUME ~givenUp, Fresh(x), NEW y \in buffer, y[3] = x[3] PROVE y = x
    <3>1. probe[y] = "calling" /\ y[1] \in Callers
        BY <2>3, ProbeIs
    <3>2. worker[y[1]] = "wait" /\ batch[y[1]] = y[2]
        BY <3>1
    <3>3. x[1] = y[1] /\ x[2] = y[2]
        BY <2>3, <3>1, <3>2
    <3>4. x = <<x[1], x[2], x[3]>> /\ y = <<y[1], y[2], y[3]>>
        BY ProbeIs
    <3> QED
        BY <2>3, <3>3, <3>4
  <2> QED
      BY <2>1, <2>2, <2>3
<1>11. ASSUME NEW x \in Probes, PollDone(x) PROVE GotInv'
    BY <1>11 DEF PollDone, Again, Apply, StaleGen, Rest
<1>12. ASSUME NEW x \in Probes, ProbeAborted(x) \/ Publish(x) \/ Answer(x) \/ Fail(x)
       PROVE  GotInv'
    BY <1>12 DEF ProbeAborted, Publish, Answer, Fail
<1>13. CASE Stop \/ UNCHANGED vars
    BY <1>13 DEF Stop
<1> QED
    BY <1>1, <1>2, <1>3, <1>4, <1>5, <1>6, <1>7, <1>8, <1>9, <1>10, <1>11, <1>12, <1>13
       DEF Next, Sweep, PoolThread, PollThread, Core

\* Only what is fresh is applied.
LEMMA MeasuredUnlessGivenUpStep ==
    ASSUME MeasuredUnlessGivenUp, Shape, Typed, GotInv, [Next]_vars
    PROVE  MeasuredUnlessGivenUp'
<1> USE RunnerAssumption DEF MeasuredUnlessGivenUp, Shape, Typed, GotInv,
        AppliedToMeasured, PollerType, Fresh, Worker, Probe, Poll,
        vars, guiVars, coreVars, history
<1>1. ASSUME NEW c \in Callers, RunTestsBusy(c) \/ RunTests(c) \/ Sweep(c)
      PROVE  MeasuredUnlessGivenUp'
    BY <1>1 DEF RunTestsBusy, RunTests, Sweep, Begin, RunBatch, SkipBatch, BatchDone,
       EndSession
<1>2. ASSUME NEW x \in Probes, Answered(x) PROVE MeasuredUnlessGivenUp'
    BY <1>2 DEF Answered, StopPoller
<1>3. ASSUME NEW x \in Probes, GiveUp(x) PROVE MeasuredUnlessGivenUp'
    BY <1>3 DEF GiveUp, StopPoller
<1>4. ASSUME NEW x \in Probes, PollDone(x) PROVE MeasuredUnlessGivenUp'
    BY <1>4 DEF PollDone, Again, Apply, StaleGen, Rest
<1>5. ASSUME NEW x \in Probes, ProbeAborted(x) \/ RunProbe(x) \/ Refused(x) \/ Query(x)
             \/ CoreQuery(x) \/ Publish(x) \/ Answer(x) \/ Fail(x)
      PROVE  MeasuredUnlessGivenUp'
    BY <1>5 DEF ProbeAborted, RunProbe, Refused, Query, CoreQuery, Publish, Answer, Fail
<1>6. CASE Stop \/ UNCHANGED vars
    BY <1>6 DEF Stop
<1> QED
    BY <1>1, <1>2, <1>3, <1>4, <1>5, <1>6 DEF Next, Sweep, PoolThread, PollThread, Core

-----------------------------------------------------------------------------
\* No step disturbs any part of the invariant.
LEMMA NextInv == IInv /\ [Next]_vars => IInv'
BY ShapeStep, TypedStep, BatchInvStep, OwnerInvStep, ThreadInvStep, GenInvStep,
   HeardInvStep, CallInvStep, GotInvStep, MeasuredUnlessGivenUpStep
   DEF IInv

\* The sweep, its threads and the tests of the core fit together in every state.
THEOREM RunnerInvariant == Spec => []IInv
BY InitInv, NextInv, PTL DEF Spec

\* Type correctness, with one sweep at a time past tryLock.
THEOREM RunnerTyped == Spec => []TypeOK
<1>1. IInv => TypeOK
    BY DEF IInv, Shape, Typed, BatchInv, OwnerInv, TypeOK, PollerType, Busy
<1> QED
    BY <1>1, RunnerInvariant, PTL

\* A profile shows what was measured for it, unless a call was given up: for any
\* sweeps over any tags, however many poll threads of earlier batches are still there.
THEOREM RunnerMeasured == Spec => []MeasuredUnlessGivenUp
<1>1. IInv => MeasuredUnlessGivenUp
    BY DEF IInv
<1> QED
    BY <1>1, RunnerInvariant, PTL

\* A sweep that was stopped sends nothing more, and one that nobody stopped goes
\* through all of its batches.
THEOREM RunnerStopped == Spec => StopEndsItsSweep
<1> DEFINE
      Silent == \A x \in Probes : x[1] \in heard /\ test[x] = "none" => test'[x] = "none"
      Whole == \A c \in Callers :
                   worker[c] # "over" /\ worker'[c] = "over" /\ c \notin heard'
                       => batch'[c] > Batches(c)
<1>1. IInv /\ [Next]_vars => Silent
  <2> SUFFICES ASSUME IInv, [Next]_vars, NEW y \in Probes, y[1] \in heard, test[y] = "none"
               PROVE  test'[y] = "none"
      OBVIOUS
  <2>1. ASSUME NEW x \in Probes, RunProbe(x) PROVE test'[y] = "none"
    <3>1. ~stopRequested /\ worker[x[1]] = "wait" /\ x[1] \in Callers
        BY <2>1, ProbeIs DEF RunProbe, Probe, IInv, ThreadInv
    <3>2. x # y
        BY <3>1 DEF IInv, HeardInv
    <3> QED
        BY <2>1, <3>2 DEF RunProbe, Call, IInv, Typed
  <2>2. ASSUME NEW x \in Probes, Core(x) PROVE test'[y] = "none"
      BY <2>2 DEF Core, Publish, Answer, Fail, IInv, Typed
  <2>3. ASSUME NEW x \in Probes,
               ProbeAborted(x) \/ Answered(x) \/ Refused(x) \/ GiveUp(x) \/ PollThread(x)
        PROVE  UNCHANGED test
      BY <2>3 DEF ProbeAborted, Answered, Refused, GiveUp, PollThread, Query, CoreQuery,
                  PollDone, coreVars
  <2>4. ASSUME NEW c \in Callers, RunTestsBusy(c) \/ RunTests(c) \/ Sweep(c)
        PROVE  UNCHANGED test
      BY <2>4 DEF RunTestsBusy, RunTests, Sweep, Begin, RunBatch, SkipBatch, BatchDone,
                  EndSession, coreVars
  <2>5. Stop \/ UNCHANGED vars => UNCHANGED test
      BY DEF Stop, vars, coreVars
  <2> QED
      BY <2>1, <2>2, <2>3, <2>4, <2>5 DEF Next, PoolThread
<1>2. IInv /\ [Next]_vars => Whole
  <2> SUFFICES ASSUME IInv, [Next]_vars, NEW d \in Callers,
                      worker[d] # "over", worker'[d] = "over", d \notin heard'
               PROVE  batch'[d] > Batches(d)
      OBVIOUS
  <2>1. ASSUME NEW c \in Callers, EndSession(c) PROVE batch'[d] > Batches(d)
    <3>1. c = d /\ worker[c] = "loop" /\ UNCHANGED <<batch, heard, stopRequested>>
        BY <2>1 DEF EndSession, Worker, history, IInv, Typed
    <3>2. ~stopRequested
        BY <3>1 DEF IInv, HeardInv
    <3> QED
        BY <2>1, <3>1, <3>2 DEF EndSession
  <2>2. ASSUME NEW c \in Callers,
               \/ RunTestsBusy(c) \/ RunTests(c) \/ Begin(c) \/ RunBatch(c)
               \/ SkipBatch(c) \/ BatchDone(c)
        PROVE  FALSE
      BY <2>2 DEF RunTestsBusy, RunTests, Begin, RunBatch, SkipBatch, BatchDone, Worker,
                  IInv, Typed
  <2>3. ASSUME NEW x \in Probes, PoolThread(x) \/ GiveUp(x) \/ PollThread(x) \/ Core(x)
        PROVE  FALSE
      BY <2>3 DEF PoolThread, ProbeAborted, RunProbe, Answered, Refused, GiveUp,
         PollThread,
                  Query, CoreQuery, PollDone, Core, Publish, Answer, Fail, guiVars
  <2>4. ~(Stop \/ UNCHANGED vars)
      BY DEF Stop, vars, guiVars
  <2> QED
      BY <2>1, <2>2, <2>3, <2>4 DEF Next, Sweep
<1>3. IInv /\ [Next]_vars => [Silent /\ Whole]_vars
    BY <1>1, <1>2
<1> QED
    BY <1>3, RunnerInvariant, PTL DEF Spec, StopEndsItsSweep
=============================================================================
