----------------------------- MODULE TestRunner -----------------------------
(***************************************************************************)
(* The window's side of the batched tests: TestRunner::runLatencyGroup,    *)
(* the probes it runs and their ResultPollers (TestRunner.cpp), against    *)
(* the tests and the result buffers of the core (ProbeBatch has those in   *)
(* detail).                                                                *)
(*                                                                         *)
(* One caller at a time holds session_ and walks through its batches.  A   *)
(* batch runs the probes of its targets concurrently; each is one call     *)
(* that answers when the core is done, and a thread that polls the core's  *)
(* buffer for what is there already.  That thread is told to stop, and     *)
(* not joined.  Every batch numbers its outbound tags from one again.      *)
(***************************************************************************)
EXTENDS Integers, Sequences, FiniteSets

CONSTANTS
    Callers,     \* callers of runUrlTests and runUdpTests, once each
    Tags,        \* outbound tags, each standing for a box that bears it
    FullTags,    \* those of full configs, whose boxes have no map of tags
    Sweeps,      \* of each caller: its slices of kTestBatchSize profiles, each as
                 \* the boxes it is tested in, with one profile per box
    Kind,        \* of each caller: what it tests, "url" or "udp"
    MaxStops,    \* bound on stop()
    None

ASSUME RunnerAssumption ==
    /\ Sweeps \in [Callers -> Seq(SUBSET Tags)] /\ MaxStops \in Nat
    /\ Kind \in [Callers -> {"url", "udp"}]
    /\ FullTags \subseteq Tags /\ None \notin Callers

\* What is tested: a box of a slice of a sweep.  The third component is the tag,
\* which is all the core knows of it.
Batches(c) == Len(Sweeps[c])
Probes == UNION {UNION {{<<c, i, t>> : t \in Sweeps[c][i]} : i \in 1..Batches(c)} :
                    c \in Callers}

VARIABLES
    session,        \* who holds session_
    sessionGen,     \* sessionGen_
    stopRequested,  \* stopRequested_
    worker,         \* of each caller: where the sweep is
    batch,          \* of each caller: the slice it is at
    probe,          \* of each probe: where its pool thread is
    poller,         \* of each probe: its poll thread, the generation and the
                    \* results that thread holds, and stop_
    test,           \* of each probe: where the core is with its request
    buffer,         \* the core's result buffers, one per kind
    shown,          \* of each profile: whose result it shows, and who set it
    stops,          \* number of stop() so far
    heard,          \* history: the sweeps stopped since they began
    givenUp         \* history: a call was given up on before its answer

guiVars == <<session, sessionGen, stopRequested, worker, batch>>
coreVars == <<test, buffer>>
history == <<stops, heard, givenUp>>
vars == <<guiVars, probe, poller, coreVars, shown, history>>

NoPoller == [pc |-> "none", gen |-> 0, got |-> {}, stop |-> FALSE]

Init ==
    /\ session = None /\ sessionGen = 0 /\ stopRequested = FALSE
    /\ worker = [c \in Callers |-> "idle"]
    /\ batch = [c \in Callers |-> 1]
    /\ probe = [x \in Probes |-> "none"]
    /\ poller = [x \in Probes |-> NoPoller]
    /\ test = [x \in Probes |-> "none"]
    /\ buffer = {} /\ shown = [x \in Probes |-> None]
    /\ stops = 0 /\ heard = {} /\ givenUp = FALSE

Worker(c, from, to) == worker[c] = from /\ worker' = [worker EXCEPT ![c] = to]
Current(c) == {x \in Probes : x[1] = c /\ x[2] = batch[c]}

-----------------------------------------------------------------------------
(* runLatencyGroup.                                                        *)

\* tryLock fails: finish() at once.
RunTestsBusy(c) ==
    /\ session # None /\ Worker(c, "idle", "refused")
    /\ UNCHANGED <<session, sessionGen, stopRequested, batch, probe,
                   poller, coreVars, shown, history>>

RunTests(c) ==
    /\ session = None /\ session' = c
    /\ sessionGen' = sessionGen + 1
    /\ Worker(c, "idle", "start")
    /\ UNCHANGED <<stopRequested, batch, probe, poller, coreVars, shown,
                   history>>

\* Mutant: a stop of an earlier sweep is left standing.
Begin_NoReset(c) ==
    /\ Worker(c, "start", "loop")
    /\ UNCHANGED <<session, sessionGen, stopRequested, batch, probe,
                   poller, coreVars, shown, history>>

\* The worker thread has started: stopRequested_.store(false).
Begin(c) ==
    /\ Worker(c, "start", "loop")
    /\ stopRequested' = FALSE
    /\ UNCHANGED <<session, sessionGen, batch, probe, poller, coreVars,
                   shown, history>>

\* A generation per batch, then one pool thread per target.
RunBatch(c) ==
    /\ Worker(c, "loop", "wait")
    /\ batch[c] <= Batches(c) /\ ~stopRequested
    /\ sessionGen' = sessionGen + 1
    /\ probe' = [x \in Probes |->
                    IF x \in Current(c) THEN "queued" ELSE probe[x]]
    /\ UNCHANGED <<session, stopRequested, batch, poller, coreVars,
                   shown, history>>

\* BuildTestConfig fails, or leaves nothing to test.
SkipBatch(c) ==
    /\ Worker(c, "loop", "loop")
    /\ batch[c] <= Batches(c) /\ ~stopRequested
    /\ sessionGen' = sessionGen + 1
    /\ batch' = [batch EXCEPT ![c] = @ + 1]
    /\ UNCHANGED <<session, stopRequested, probe, poller, coreVars,
                   shown, history>>

\* batchDone.acquire(testCount).
BatchDone(c) ==
    /\ Worker(c, "wait", "loop")
    /\ \A x \in Current(c) : probe[x] = "done"
    /\ batch' = [batch EXCEPT ![c] = @ + 1]
    /\ UNCHANGED <<session, sessionGen, stopRequested, probe, poller,
                   coreVars, shown, history>>

\* The loop ends, session_ is unlocked, and finish() called.
EndSession(c) ==
    /\ Worker(c, "loop", "over")
    /\ batch[c] > Batches(c) \/ stopRequested
    /\ session' = None
    /\ UNCHANGED <<sessionGen, stopRequested, batch, probe, poller,
                   coreVars, shown, history>>

\* stop(): the flag.  What StopTests does in the core is to end tests early.
Stop ==
    /\ stops < MaxStops /\ stops' = stops + 1
    /\ stopRequested' = TRUE
    /\ heard' = heard \cup {c \in Callers : worker[c] \in {"loop", "wait"}}
    /\ UNCHANGED <<session, sessionGen, worker, batch, probe, poller,
                   coreVars, shown, givenUp>>

-----------------------------------------------------------------------------
(* runUrlProbe, runUdpProbe.                                               *)

Probe(x, from, to) == probe[x] = from /\ probe' = [probe EXCEPT ![x] = to]

\* Mutant: the thread returns without its QSemaphoreReleaser.
ProbeAborted_NoRelease(x) ==
    /\ stopRequested /\ Probe(x, "queued", "none")
    /\ UNCHANGED <<guiVars, poller, coreVars, shown, history>>

ProbeAborted(x) ==
    /\ stopRequested /\ Probe(x, "queued", "done")
    /\ UNCHANGED <<guiVars, poller, coreVars, shown, history>>

\* Starting the poll thread and sending the request.
Call(x) ==
    /\ poller' = [poller EXCEPT ![x] =
                     [NoPoller EXCEPT !.pc = "sleep", !.gen = sessionGen']]
    /\ test' = [test EXCEPT ![x] = "sent"]

RunProbe(x) ==
    /\ ~stopRequested /\ Probe(x, "queued", "calling")
    /\ sessionGen' = sessionGen /\ Call(x)
    /\ UNCHANGED <<session, stopRequested, worker, batch, buffer, shown,
                   history>>

\* ~ResultPoller: the thread is told, not joined.
StopPoller(x) ==
    poller' = [poller EXCEPT ![x].stop = TRUE,
                             ![x].pc = IF @ = "sleep" THEN "ended" ELSE @]

\* The results of the answer are applied, with the verdicts on VPN endpoints.  A
\* poll that gets in between the two is one that came before both.
Answered(x) ==
    /\ test[x] = "answered" /\ Probe(x, "calling", "done")
    /\ StopPoller(x)
    /\ shown' = [shown EXCEPT ![x] = <<x, "final">>]
    /\ UNCHANGED <<guiVars, coreVars, history>>

\* The core could not build the test's box.
Refused(x) ==
    /\ test[x] = "failed" /\ Probe(x, "calling", "done")
    /\ StopPoller(x)
    /\ UNCHANGED <<guiVars, coreVars, shown, history>>

\* The call ends at its timeout with the core still at work.  Test and IPTest are
\* given a timeout that covers the worst case of the batch, UDPTest has that of
\* the channel.
GiveUp(x) ==
    /\ Kind[x[1]] = "udp" /\ test[x] \in {"sent", "published"}
    /\ Probe(x, "calling", "done")
    /\ StopPoller(x)
    /\ givenUp' = TRUE
    /\ UNCHANGED <<guiVars, coreVars, shown, stops, heard>>

-----------------------------------------------------------------------------
(* ResultPoller.                                                           *)

Poll(x, from, to) ==
    poller[x].pc = from /\ poller' = [poller EXCEPT ![x].pc = to]
Rest(x) == IF poller[x].stop THEN "ended" ELSE "sleep"
StaleGen(x) == poller[x].gen # sessionGen

\* Awake, not stopped, and its batch is not over: the query is sent.
Query(x) ==
    /\ ~StaleGen(x)
    /\ Poll(x, "sleep", "query")
    /\ UNCHANGED <<guiVars, probe, coreVars, shown, history>>

\* The core drains the buffer of the kind.  Finding nothing there changes nothing,
\* and an answer that does not arrive is one that is never looked at.
CoreQuery(x) ==
    /\ poller[x].pc = "query"
    /\ LET mine == {y \in buffer : Kind[y[1]] = Kind[x[1]]} IN
       /\ mine # {}
       /\ poller' = [poller EXCEPT ![x].pc = "got", ![x].got = mine]
       /\ buffer' = buffer \ mine
    /\ UNCHANGED <<guiVars, probe, test, shown, history>>

\* What bears the box's tag is applied to its profile: tag2entID of the box holds
\* no other, and that of a full config holds none.
Apply(x) ==
    \/ \E y \in poller[x].got : /\ y[3] = x[3] /\ x[3] \notin FullTags
                               /\ shown' = [shown EXCEPT ![x] = <<y, "poll">>]
    \/ /\ x[3] \in FullTags \/ \A y \in poller[x].got : y[3] # x[3]
       /\ UNCHANGED shown
Again(x) == poller' = [poller EXCEPT ![x].pc = Rest(x), ![x].got = {}]

\* Mutant: the generation is not tested again.
PollDone_NoCheck(x) ==
    /\ poller[x].pc = "got" /\ Again(x)
    /\ Apply(x)
    /\ UNCHANGED <<guiVars, probe, coreVars, history>>

\* The second test of the generation.  What passes it is applied to the profiles
\* of the poller's own batch.
PollDone(x) ==
    /\ poller[x].pc = "got" /\ Again(x)
    /\ IF StaleGen(x) THEN UNCHANGED shown ELSE Apply(x)
    /\ UNCHANGED <<guiVars, probe, coreVars, history>>

-----------------------------------------------------------------------------
(* The core: a test publishes its result, takes it out of the buffer again *)
(* and answers, whether or not anybody still waits.                        *)

Publish(x) ==
    /\ test[x] = "sent" /\ test' = [test EXCEPT ![x] = "published"]
    /\ buffer' = buffer \cup {x}
    /\ UNCHANGED <<guiVars, probe, poller, shown, history>>

Answer(x) ==
    /\ test[x] = "published" /\ test' = [test EXCEPT ![x] = "answered"]
    /\ buffer' = buffer \ {x}
    /\ UNCHANGED <<guiVars, probe, poller, shown, history>>

Fail(x) ==
    /\ test[x] = "sent" /\ test' = [test EXCEPT ![x] = "failed"]
    /\ UNCHANGED <<guiVars, probe, poller, buffer, shown, history>>

-----------------------------------------------------------------------------
Sweep(c) == Begin(c) \/ RunBatch(c) \/ SkipBatch(c) \/ BatchDone(c)
                \/ EndSession(c)
PoolThread(x) == ProbeAborted(x) \/ RunProbe(x) \/ Answered(x) \/ Refused(x)
PollThread(x) == Query(x) \/ CoreQuery(x) \/ PollDone(x)
Core(x) == Publish(x) \/ Answer(x) \/ Fail(x)

Next ==
    \/ \E c \in Callers : RunTestsBusy(c) \/ RunTests(c) \/ Sweep(c)
    \/ Stop
    \/ \E x \in Probes : PoolThread(x) \/ GiveUp(x) \/ PollThread(x) \/ Core(x)

Spec == Init /\ [][Next]_vars

\* The threads of a sweep run on, and the core's tests end (TestsEnd of ProbeBatch).
FairSpec ==
    Spec /\ WF_vars(\/ \E c \in Callers : Sweep(c)
                    \/ \E x \in Probes : PoolThread(x) \/ Core(x))

-----------------------------------------------------------------------------
(* Properties.                                                             *)

\* The threads of the window and the requests in the core keep their types, and
\* one sweep at a time is past tryLock.
TypeOK ==
    /\ session \in Callers \cup {None} /\ sessionGen \in Nat
    /\ \A c \in Callers : worker[c] \in {"start", "loop", "wait"} <=> session = c
    /\ stopRequested \in BOOLEAN
    /\ worker \in [Callers -> {"idle", "start", "loop", "wait", "over", "refused"}]
    /\ \A c \in Callers : batch[c] \in 1..(Batches(c) + 1)
    /\ probe \in [Probes -> {"none", "queued", "calling", "done"}]
    /\ poller \in [Probes ->
          [pc : {"none", "sleep", "query", "got", "ended"}, gen : Nat,
           got : SUBSET Probes, stop : BOOLEAN]]
    /\ test \in [Probes -> {"none", "sent", "published", "answered", "failed"}]
    /\ buffer \subseteq Probes
    /\ shown \in [Probes -> {None} \cup Probes \X {"poll", "final"}]
    /\ stops \in 0..MaxStops /\ heard \subseteq Callers /\ givenUp \in BOOLEAN

\* A profile never shows what was measured for another one.
AppliedToMeasured == \A x \in Probes : shown[x] # None => shown[x][1] = x

\* The two tests of the generation are enough for that as long as every call
\* waits for its answer: the core then has left the buffers before the next
\* batch, whose tags repeat, begins.
MeasuredUnlessGivenUp == ~givenUp => AppliedToMeasured

\* A stop is for the sweep under way and no other: a sweep that was told to stop
\* sends no further request to the core, and one that nobody stopped since it
\* began goes through all of its batches, whatever was stopped before.
StopEndsItsSweep ==
    [][/\ \A x \in Probes : x[1] \in heard /\ test[x] = "none" => test'[x] = "none"
       /\ \A c \in Callers : worker[c] # "over" /\ worker'[c] = "over" /\ c \notin heard'
                               => batch'[c] > Batches(c)]_vars

\* onFinished fires on every exit path, so a caller may block on it.
CallerResumes == \A c \in Callers : (worker[c] # "idle") ~> (worker[c] \in {"over", "refused"})
=============================================================================
