----------------------------- MODULE ProbeBatch -----------------------------
(***************************************************************************)
(* The core's batched tests: prepareTestEnv (rpc/testenv.go), the Test     *)
(* handlers (rpc/urltest.go) and runBatch, testSession and resultBuffer    *)
(* (probe/probe.go).                                                       *)
(*                                                                         *)
(* Several Test requests run at once; each builds an environment, takes    *)
(* the session's context, and probes its tags with at most Limit[r]        *)
(* goroutines.  Results are published to one buffer that a poll drains,    *)
(* whoever published them.  StopTest cancels the session's context and     *)
(* puts a fresh one in its place.                                          *)
(***************************************************************************)
EXTENDS Integers, FiniteSets, Sequences

CONSTANTS
    Requests,   \* the Test requests
    Tags,       \* number of outbound tags of each
    Limit,      \* of each request: normalizeConcurrency
    MaxStops    \* bound on StopTest

ASSUME ProbeAssumption ==
    /\ Tags \in Nat \ {0} /\ Limit \in [Requests -> Nat \ {0}] /\ MaxStops \in Nat

VARIABLES
    session,    \* testSession.ctx: those before it are cancelled
    buffer,     \* resultBuffer.results: whose, and of which tag
    polled,     \* history: how often a poll handed each result out
    \* of each request: where it is, what prepareTestEnv has to unwind (oldest
    \* first), the context it holds, the tag runBatch is at, how far the
    \* goroutine of each tag is, the tags with a stored result, and (history)
    \* those started although the context was cancelled
    req

vars == <<session, buffer, polled, req>>

TagSet == 1..Tags
Results == Requests \X TagSet
Ended == {"done", "aborted"}
Stages == <<"xray", "full", "box">>

Cancelled(r) == req[r].testCtx < session
Working(r) == {t \in TagSet : req[r].probe[t] \in {"running", "stored", "published"}}

Init ==
    /\ session = 0 /\ buffer = {}
    /\ polled = [x \in Results |-> 0]
    /\ req = [r \in Requests |->
                 [pc |-> "idle", env |-> <<>>, testCtx |-> 0, next |-> 1,
                  probe |-> [t \in TagSet |-> "none"], resMap |-> {}]]

At(r, pc) == req[r].pc = pc
Shared == UNCHANGED <<session, buffer, polled>>

-----------------------------------------------------------------------------
(* prepareTestEnv.                                                         *)

\* A test of the running instance owns nothing.
PrepareCurrent(r) ==
    /\ At(r, "idle")
    /\ req' = [req EXCEPT ![r].pc = "prepared"]
    /\ Shared

Prepare(r) ==
    /\ At(r, "idle")
    /\ req' = [req EXCEPT ![r].pc = "prepare"]
    /\ Shared

\* The next sidecar, or the box, is up and will have to be closed.
PrepareStage(r) ==
    /\ At(r, "prepare")
    /\ LET env == Append(req[r].env, Stages[Len(req[r].env) + 1]) IN
       req' = [req EXCEPT ![r].env = env,
                          ![r].pc = IF env = Stages THEN "prepared" ELSE @]
    /\ Shared

\* Mutant: what had been started is left running.
PrepareFails_NoUnwind(r) ==
    /\ At(r, "prepare")
    /\ req' = [req EXCEPT ![r].pc = "failed"]
    /\ Shared

PrepareFails(r) ==
    /\ At(r, "prepare")
    /\ req' = [req EXCEPT ![r].pc = "failed", ![r].env = <<>>]
    /\ Shared

-----------------------------------------------------------------------------
(* runBatch.                                                               *)

\* The context is held from here on, not read again.
Begin(r) ==
    /\ At(r, "prepared")
    /\ req' = [req EXCEPT ![r].pc = "select", ![r].testCtx = session]
    /\ Shared

AtTag(r) == At(r, "select") /\ req[r].next <= Tags

\* Mutant: the loop goes on without wg.Done().
Abort_NotDone(r) ==
    /\ AtTag(r) /\ Cancelled(r)
    /\ LET t == req[r].next IN
       req' = [req EXCEPT ![r].resMap = @ \cup {t}, ![r].next = t + 1]
    /\ Shared

\* case <-ctx.Done(): stored, and not published.
Abort(r) ==
    /\ AtTag(r) /\ Cancelled(r)
    /\ LET t == req[r].next IN
       req' = [req EXCEPT ![r].probe[t] = "aborted",
                          ![r].resMap = @ \cup {t}, ![r].next = t + 1]
    /\ Shared

\* default: the sleep, then the wait for the limiter.
Select(r) ==
    /\ AtTag(r) /\ ~Cancelled(r)
    /\ req' = [req EXCEPT ![r].pc = "limiter"]
    /\ Shared

Started(r, t) ==
    req' = [req EXCEPT ![r].pc = "select", ![r].probe[t] = "running",
                       ![r].next = t + 1]

\* limiter <- struct{}{}, and the goroutine is started whatever happened to the
\* context meanwhile.
Spawn(r) ==
    /\ At(r, "limiter") /\ Cardinality(Working(r)) < Limit[r]
    /\ Started(r, req[r].next)
    /\ Shared

\* The probe ran, or its outbound is gone; either way there is a result.
Store(r, t) ==
    /\ req[r].probe[t] = "running"
    /\ req' = [req EXCEPT ![r].probe[t] = "stored", ![r].resMap = @ \cup {t}]
    /\ Shared

Publish(r, t) ==
    /\ req[r].probe[t] = "stored"
    /\ req' = [req EXCEPT ![r].probe[t] = "published"]
    /\ buffer' = buffer \cup {<<r, t>>}
    /\ UNCHANGED <<session, polled>>

\* The deferred <-limiter and wg.Done().
Finish(r, t) ==
    /\ req[r].probe[t] = "published"
    /\ req' = [req EXCEPT ![r].probe[t] = "done"]
    /\ Shared

\* wg.Wait().
Wait(r) ==
    /\ At(r, "select") /\ req[r].next > Tags
    /\ \A t \in TagSet : req[r].probe[t] \in Ended
    /\ req' = [req EXCEPT ![r].pc = "reclaim"]
    /\ Shared

\* Mutant: the whole buffer is cleared, a sibling's results with it.
Reclaim_Clears(r) ==
    /\ At(r, "reclaim")
    /\ req' = [req EXCEPT ![r].pc = "answer"]
    /\ buffer' = {}
    /\ UNCHANGED <<session, polled>>

\* Its own results are taken out of the buffer, the others are kept.
Reclaim(r) ==
    /\ At(r, "reclaim")
    /\ req' = [req EXCEPT ![r].pc = "answer"]
    /\ buffer' = {x \in buffer : x[1] # r}
    /\ UNCHANGED <<session, polled>>

\* The deferred env.close(), and the answer.
Answer(r) ==
    /\ At(r, "answer")
    /\ req' = [req EXCEPT ![r].pc = "done", ![r].env = <<>>]
    /\ Shared

-----------------------------------------------------------------------------
(* The other requests.                                                     *)

\* cancelAndRearm.
StopTest ==
    /\ session < MaxStops
    /\ session' = session + 1
    /\ UNCHANGED <<buffer, polled, req>>

HandOut == polled' = [x \in Results |-> IF x \in buffer /\ polled[x] < 2
                                        THEN polled[x] + 1 ELSE polled[x]]

\* Drains the buffer.
QueryURLTest ==
    /\ buffer # {}
    /\ HandOut
    /\ buffer' = {}
    /\ UNCHANGED <<session, req>>

Request(r) ==
    \/ PrepareStage(r) \/ PrepareFails(r)
    \/ Begin(r) \/ Abort(r) \/ Select(r) \/ Spawn(r)
    \/ Wait(r) \/ Reclaim(r) \/ Answer(r)

Goroutine(r, t) == Store(r, t) \/ Publish(r, t) \/ Finish(r, t)

Next ==
    \/ \E r \in Requests : \/ PrepareCurrent(r) \/ Prepare(r) \/ Request(r)
                           \/ \E t \in TagSet : Goroutine(r, t)
    \/ StopTest \/ QueryURLTest

Spec == Init /\ [][Next]_vars

\* Some goroutine that can go on does; a probe ends because every stage of it has
\* a timeout.
FairSpec ==
    Spec /\ WF_vars(\E r \in Requests : \/ Request(r)
                                       \/ \E t \in TagSet : Goroutine(r, t))

-----------------------------------------------------------------------------
(* Properties.                                                             *)

\* The sessions, the result buffer and the probe state keep their types.
TypeOK ==
    /\ session \in 0..MaxStops
    /\ buffer \subseteq Results
    /\ polled \in [Results -> 0..2]
    /\ req \in [Requests ->
          [pc : {"idle", "prepare", "prepared", "failed", "select", "limiter",
                 "reclaim", "answer", "done"},
           env : {SubSeq(Stages, 1, n) : n \in 0..Len(Stages)},
           testCtx : 0..session, next : 1..(Tags + 1),
           probe : [TagSet ->
                      {"none", "running", "stored", "published"} \cup Ended],
           resMap : SUBSET TagSet]]
    /\ \A r \in Requests : Cardinality(Working(r)) <= Limit[r]

\* "One result per tag", "handed to the GUI exactly once": when runBatch returns
\* every tag has the result of its own probe or of its abort.  Until its own
\* request takes it back, what a probe published waits in the buffer or was handed
\* out, whatever siblings reclaim meanwhile, and no poll returns it again later.
\* A request that has answered leaves nothing in the buffer, where the next test,
\* whose tags repeat its own, would take it for its own result.
ResultsAccounted ==
    /\ \A r \in Requests :
         req[r].pc \in {"reclaim", "answer", "done"} => req[r].resMap = TagSet
    /\ \A x \in Results : polled[x] <= 1
    /\ \A r \in Requests : req[r].pc \in {"select", "limiter", "reclaim"} =>
         \A t \in TagSet : req[r].probe[t] \in {"published", "done"} =>
             (<<r, t>> \in buffer <=> polled[<<r, t>>] = 0)
    /\ \A x \in buffer : req[x[1]].pc \notin {"answer", "done"}

\* Whatever prepareTestEnv started is closed again, whichever stage failed and
\* whenever the test was stopped.
EnvIsUnwound == \A r \in Requests : req[r].pc \in {"failed", "done"} => req[r].env = <<>>

\* Every test comes to an end, stopped or not.
TestsEnd == \A r \in Requests :
                (req[r].pc # "idle") ~> (req[r].pc \in {"failed", "done"})
=============================================================================
