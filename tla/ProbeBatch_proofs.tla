------------------------- MODULE ProbeBatch_proofs -------------------------
(***************************************************************************)
(* Theorems of ProbeBatch, for any requests, number of tags, limits and    *)
(* stops: types, one result per tag handed out once, and an environment    *)
(* that is unwound.                                                        *)
(***************************************************************************)
EXTENDS ProbeBatch, FiniteSetTheorems, SequenceTheorems, TLAPS

Pcs == {"idle", "prepare", "prepared", "failed", "select", "limiter",
        "reclaim", "answer", "done"}
Probing == {"select", "limiter"}
Over == {"reclaim", "answer", "done"}
Sent == {"published", "done"}
Envs == {SubSeq(Stages, 1, n) : n \in 0..Len(Stages)}

\* The type of a request, and the types of the rest.
Types == [pc : Pcs, env : Envs, testCtx : Int, next : 1..(Tags + 1),
          probe : [TagSet -> {"none", "running", "stored", "published"} \cup Ended],
          resMap : SUBSET TagSet]
Shape == req \in [Requests -> Types]
Typed == /\ session \in 0..MaxStops
         /\ buffer \subseteq Results /\ polled \in [Results -> 0..2]
         /\ \A r \in Requests : req[r].testCtx \in 0..session

\* The limiter has a place for each goroutine that works.
LimitInv == \A r \in Requests : Cardinality(Working(r)) <= Limit[r]

\* What is unwound, and that a stage is left while the environment is prepared.
EnvInv == \A r \in Requests :
    /\ req[r].pc \in {"failed", "done"} => req[r].env = <<>>
    /\ req[r].pc \in {"idle", "prepare"} => req[r].env # Stages

\* The loop is at the first tag without a goroutine; past wg.Wait none is at work.
LoopOK(r) ==
    /\ req[r].pc \notin Probing \cup Over => \A t \in TagSet : req[r].probe[t] = "none"
    /\ req[r].pc = "limiter" => req[r].next <= Tags
    /\ req[r].pc \in Probing => \A t \in TagSet : t >= req[r].next => req[r].probe[t] = "none"
    /\ req[r].pc \in Over => \A t \in TagSet : req[r].probe[t] \in Ended
LoopInv == \A r \in Requests : LoopOK(r)

\* A goroutine that is past its probe has stored its result.
StoredOK(r) == \A t \in TagSet :
    req[r].probe[t] \in {"stored", "published"} \cup Ended => t \in req[r].resMap
StoredInv == \A r \in Requests : StoredOK(r)

\* A result is in the buffer or handed out only after its goroutine published it,
\* never both, and one that was handed out is not seen again.
BufferOK(r, t) ==
    /\ polled[<<r, t>>] <= 1
    /\ <<r, t>> \in buffer => /\ polled[<<r, t>>] = 0 /\ req[r].probe[t] \in Sent
                             /\ req[r].pc \in Probing \cup {"reclaim"}
    /\ req[r].probe[t] \notin Sent => polled[<<r, t>>] = 0
    /\ req[r].pc \in Probing \cup {"reclaim"} /\ req[r].probe[t] \in Sent =>
           <<r, t>> \in buffer \/ polled[<<r, t>>] = 1
BufferInv == \A r \in Requests : \A t \in TagSet : BufferOK(r, t)

IInv == Shape /\ Typed /\ LimitInv /\ EnvInv /\ LoopInv /\ StoredInv /\ BufferInv

\* The invariant holds initially.
LEMMA InitInv == Init => IInv
<1> SUFFICES ASSUME Init PROVE IInv
    OBVIOUS
<1> USE ProbeAssumption DEF Init, TagSet, Results, Ended
<1>1. Shape
    BY DEF Shape, Types, Pcs, Envs, Stages
<1>2. Typed
    BY DEF Typed
<1>3. LimitInv
  <2> SUFFICES ASSUME NEW r \in Requests PROVE Cardinality(Working(r)) <= Limit[r]
      BY DEF LimitInv
  <2>1. Working(r) = {}
      BY DEF Working
  <2>2. Cardinality(Working(r)) = 0
      BY <2>1, FS_EmptySet
  <2> QED
      BY <2>2
<1>4. EnvInv
    BY DEF EnvInv, Stages
<1>5. LoopInv
    BY DEF LoopInv, LoopOK, Probing, Over
<1>6. StoredInv
    BY DEF StoredInv, StoredOK
<1>7. BufferInv
    BY DEF BufferInv, BufferOK, Probing, Sent
<1> QED
    BY <1>1, <1>2, <1>3, <1>4, <1>5, <1>6, <1>7 DEF IInv

-----------------------------------------------------------------------------
(* What each step does to the record of its request.                       *)

Others(r) == \A u \in Requests : u # r => req'[u] = req[u]

\* Steps that leave the goroutines alone.
Control(r) == \/ PrepareCurrent(r) \/ Prepare(r) \/ PrepareStage(r) \/ PrepareFails(r)
              \/ Begin(r) \/ Select(r) \/ Wait(r) \/ Reclaim(r) \/ Answer(r)

\* They change neither another request nor the goroutines and results of this one.
LEMMA ControlEffect ==
    ASSUME Shape, NEW r \in Requests, Control(r)
    PROVE  /\ Others(r)
           /\ req'[r].probe = req[r].probe /\ req'[r].next = req[r].next
           /\ req'[r].resMap = req[r].resMap
<1> USE DEF Shape, Types, Others
<1>1. CASE PrepareCurrent(r)
    BY <1>1 DEF PrepareCurrent
<1>2. CASE Prepare(r)
    BY <1>2 DEF Prepare
<1>3. CASE PrepareStage(r)
    BY <1>3 DEF PrepareStage
<1>4. CASE PrepareFails(r)
    BY <1>4 DEF PrepareFails
<1>5. CASE Begin(r)
    BY <1>5 DEF Begin
<1>6. CASE Select(r)
    BY <1>6 DEF Select
<1>7. CASE Wait(r)
    BY <1>7 DEF Wait
<1>8. CASE Reclaim(r)
    BY <1>8 DEF Reclaim
<1>9. CASE Answer(r)
    BY <1>9 DEF Answer
<1> QED
    BY <1>1, <1>2, <1>3, <1>4, <1>5, <1>6, <1>7, <1>8, <1>9 DEF Control

\* Where a request goes.
LEMMA PcEffect ==
    ASSUME Shape, NEW r \in Requests
    PROVE  /\ PrepareCurrent(r) => req[r].pc = "idle" /\ req'[r].pc = "prepared"
           /\ Prepare(r) => req[r].pc = "idle" /\ req'[r].pc = "prepare"
           /\ PrepareStage(r) => /\ req[r].pc = "prepare"
                                 /\ req'[r].pc \in {"prepare", "prepared"}
           /\ PrepareFails(r) => req[r].pc = "prepare" /\ req'[r].pc = "failed"
           /\ Begin(r) => req[r].pc = "prepared" /\ req'[r].pc = "select"
           /\ Select(r) => /\ req[r].pc = "select" /\ req'[r].pc = "limiter"
                           /\ req[r].next <= Tags
           /\ Wait(r) => /\ req[r].pc = "select" /\ req'[r].pc = "reclaim"
                         /\ \A t \in TagSet : req[r].probe[t] \in Ended
           /\ Reclaim(r) => req[r].pc = "reclaim" /\ req'[r].pc = "answer"
           /\ Answer(r) => req[r].pc = "answer" /\ req'[r].pc = "done"
<1> USE DEF Shape, Types, At
<1>1. PrepareCurrent(r) => req[r].pc = "idle" /\ req'[r].pc = "prepared"
    BY DEF PrepareCurrent
<1>2. Prepare(r) => req[r].pc = "idle" /\ req'[r].pc = "prepare"
    BY DEF Prepare
<1>3. PrepareStage(r) => req[r].pc = "prepare" /\ req'[r].pc \in {"prepare", "prepared"}
    BY DEF PrepareStage
<1>4. PrepareFails(r) => req[r].pc = "prepare" /\ req'[r].pc = "failed"
    BY DEF PrepareFails
<1>5. Begin(r) => req[r].pc = "prepared" /\ req'[r].pc = "select"
    BY DEF Begin
<1>6. Select(r) => /\ req[r].pc = "select" /\ req'[r].pc = "limiter"
                           /\ req[r].next <= Tags
    BY DEF Select, AtTag
<1>7. Wait(r) => /\ req[r].pc = "select" /\ req'[r].pc = "reclaim"
                         /\ \A t \in TagSet : req[r].probe[t] \in Ended
    BY DEF Wait
<1>8. Reclaim(r) => req[r].pc = "reclaim" /\ req'[r].pc = "answer"
    BY DEF Reclaim
<1>9. Answer(r) => req[r].pc = "answer" /\ req'[r].pc = "done"
    BY DEF Answer
<1> QED
    BY <1>1, <1>2, <1>3, <1>4, <1>5, <1>6, <1>7, <1>8, <1>9

\* The loop passes a tag, with a goroutine or without one.
LEMMA LoopEffect ==
    ASSUME Shape, NEW r \in Requests, Abort(r) \/ Spawn(r)
    PROVE  /\ Others(r) /\ req[r].pc \in Probing /\ req'[r].pc = "select"
           /\ req'[r].next = req[r].next + 1
           /\ \/ /\ Abort(r) /\ req[r].next <= Tags
                 /\ req'[r].probe = [req[r].probe EXCEPT ![req[r].next] = "aborted"]
                 /\ req'[r].resMap = req[r].resMap \cup {req[r].next}
              \/ /\ Spawn(r) /\ req[r].pc = "limiter"
                 /\ req'[r].probe = [req[r].probe EXCEPT ![req[r].next] = "running"]
                 /\ req'[r].resMap = req[r].resMap
<1> USE DEF Shape, Types, At, Others, Probing
<1>1. CASE Abort(r)
    BY <1>1 DEF Abort, AtTag
<1>2. CASE Spawn(r)
    BY <1>2 DEF Spawn, Started
<1> QED
    BY <1>1, <1>2

\* A goroutine goes one stage further.
LEMMA GoroutineEffect ==
    ASSUME Shape, NEW r \in Requests, NEW t \in TagSet, Goroutine(r, t)
    PROVE  /\ Others(r) /\ req'[r].pc = req[r].pc /\ req'[r].next = req[r].next
           /\ \/ /\ Store(r, t) /\ req[r].probe[t] = "running"
                 /\ req'[r].probe = [req[r].probe EXCEPT ![t] = "stored"]
                 /\ req'[r].resMap = req[r].resMap \cup {t}
              \/ /\ Publish(r, t) /\ req[r].probe[t] = "stored"
                 /\ req'[r].probe = [req[r].probe EXCEPT ![t] = "published"]
                 /\ req'[r].resMap = req[r].resMap
              \/ /\ Finish(r, t) /\ req[r].probe[t] = "published"
                 /\ req'[r].probe = [req[r].probe EXCEPT ![t] = "done"]
                 /\ req'[r].resMap = req[r].resMap
<1> USE DEF Shape, Types, Others
<1>1. CASE Store(r, t)
    BY <1>1 DEF Store
<1>2. CASE Publish(r, t)
    BY <1>2 DEF Publish
<1>3. CASE Finish(r, t)
    BY <1>3 DEF Finish
<1> QED
    BY <1>1, <1>2, <1>3 DEF Goroutine

\* The kinds of steps.
LEMMA NextCases ==
    ASSUME [Next]_vars
    PROVE  \/ \E r \in Requests : \/ Control(r) \/ Abort(r) \/ Spawn(r)
                                  \/ \E t \in TagSet : Goroutine(r, t)
           \/ StopTest \/ QueryURLTest \/ UNCHANGED vars
BY DEF Next, Request, Control

\* The fields of a request.
LEMMA Fields ==
    ASSUME Shape, NEW r \in Requests
    PROVE  /\ req[r].next \in 1..(Tags + 1) /\ req[r].resMap \subseteq TagSet
           /\ req[r].probe \in [TagSet -> {"none", "running", "stored", "published"} \cup Ended]
           /\ req[r].pc \in Pcs
BY DEF Shape, Types

-----------------------------------------------------------------------------
(* Each conjunct is kept.                                                  *)

\* A request keeps its type.
LEMMA ShapeStep ==
    ASSUME Shape, Typed, EnvInv, LoopInv, [Next]_vars
    PROVE  Shape'
<1> USE DEF Shape
<1>1. ASSUME NEW r \in Requests, Control(r) PROVE Shape'
  <2> USE DEF Types
  <2>1. CASE PrepareCurrent(r)
      BY <2>1 DEF PrepareCurrent, Pcs
  <2>2. CASE Prepare(r)
      BY <2>2 DEF Prepare, Pcs
  <2>3. CASE PrepareStage(r)
    <3>1. req[r].env \in Envs /\ req[r].env # Stages
        BY <2>3 DEF PrepareStage, At, EnvInv
    <3>2. Append(req[r].env, Stages[Len(req[r].env) + 1]) \in Envs
      <4>0. Len(Stages) = 3 /\ Stages \in Seq({"xray", "full", "box"})
          BY DEF Stages
      <4>1. Len(Stages) = 3 /\ SubSeq(Stages, 1, 3) = Stages
          BY <4>0, SubSeqFull
      <4>2. PICK n \in 0..3 : req[r].env = SubSeq(Stages, 1, n)
          BY <3>1, <4>1 DEF Envs
      <4>3. n \in 0..2 /\ Len(req[r].env) = n
          BY <3>1, <4>1, <4>2
      <4>4. Append(SubSeq(Stages, 1, n), Stages[n + 1]) = SubSeq(Stages, 1, n + 1)
          BY <4>1, <4>3
      <4> QED
          BY <4>1, <4>2, <4>3, <4>4 DEF Envs
    <3> DEFINE env == Append(req[r].env, Stages[Len(req[r].env) + 1])
    <3>3. [req[r] EXCEPT !.env = env,
                         !.pc = IF env = Stages THEN "prepared" ELSE @] \in Types
        BY <3>2 DEF Pcs
    <3> QED
        BY <2>3, <3>3 DEF PrepareStage
  <2>4. CASE PrepareFails(r)
    <3>1. <<>> \in Envs
        BY DEF Envs, Stages
    <3>2. [req[r] EXCEPT !.pc = "failed", !.env = <<>>] \in Types
        BY <3>1 DEF Pcs
    <3> QED
        BY <2>4, <3>2 DEF PrepareFails
  <2>5. CASE Begin(r)
    <3>1. session \in Int /\ "select" \in Pcs
        BY ProbeAssumption DEF Pcs, Typed
    <3>2. [req[r] EXCEPT !.pc = "select", !.testCtx = session] \in Types
        BY <3>1
    <3> QED
        BY <2>5, <3>2 DEF Begin
  <2>6. CASE Select(r)
      BY <2>6 DEF Select, Pcs
  <2>7. CASE Wait(r)
      BY <2>7 DEF Wait, Pcs
  <2>8. CASE Reclaim(r)
      BY <2>8 DEF Reclaim, Pcs
  <2>9. CASE Answer(r)
    <3>1. <<>> \in Envs
        BY DEF Envs, Stages
    <3>2. [req[r] EXCEPT !.pc = "done", !.env = <<>>] \in Types
        BY <3>1 DEF Pcs
    <3> QED
        BY <2>9, <3>2 DEF Answer
  <2> QED
      BY <1>1, <2>1, <2>2, <2>3, <2>4, <2>5, <2>6, <2>7, <2>8, <2>9 DEF Control
<1>2. ASSUME NEW r \in Requests, Abort(r) PROVE Shape'
  <2>1. req[r].next \in TagSet
      BY <1>2, Fields, ProbeAssumption DEF Abort, AtTag, TagSet
  <2>2. req[r].next + 1 \in 1..(Tags + 1)
      BY <2>1, ProbeAssumption DEF TagSet
  <2>3. [req[r] EXCEPT !.probe = [@ EXCEPT ![req[r].next] = "aborted"],
                       !.resMap = @ \cup {req[r].next}, !.next = req[r].next + 1] \in Types
      BY <2>1, <2>2 DEF Types, Ended
  <2> QED
      BY <1>2, <2>3 DEF Abort
<1>3. ASSUME NEW r \in Requests, Spawn(r) PROVE Shape'
  <2>1. req[r].next \in TagSet
      BY <1>3, Fields, ProbeAssumption DEF Spawn, At, LoopInv, LoopOK, TagSet
  <2>2. req[r].next + 1 \in 1..(Tags + 1)
      BY <2>1, ProbeAssumption DEF TagSet
  <2>3. [req[r] EXCEPT !.pc = "select", !.probe = [@ EXCEPT ![req[r].next] = "running"],
                       !.next = req[r].next + 1] \in Types
      BY <2>1, <2>2 DEF Types, Pcs
  <2> QED
      BY <1>3, <2>3 DEF Spawn, Started
<1>4. ASSUME NEW r \in Requests, NEW t \in TagSet, Goroutine(r, t) PROVE Shape'
  <2> USE DEF Types
  <2>1. CASE Store(r, t)
      BY <2>1 DEF Store
  <2>2. CASE Publish(r, t)
      BY <2>2 DEF Publish
  <2>3. CASE Finish(r, t)
      BY <2>3 DEF Finish, Ended
  <2> QED
      BY <1>4, <2>1, <2>2, <2>3 DEF Goroutine
<1>5. CASE StopTest \/ QueryURLTest \/ UNCHANGED vars
    BY <1>5 DEF StopTest, QueryURLTest, vars
<1> QED
    BY <1>1, <1>2, <1>3, <1>4, <1>5, NextCases

\* The context a request holds is one that was current.
LEMMA TypedStep ==
    ASSUME Shape, Typed, [Next]_vars
    PROVE  Typed'
<1> USE ProbeAssumption DEF Typed
<1>1. ASSUME NEW r \in Requests, Control(r) PROVE Typed'
  <2>1. session' = session /\ polled' = polled /\ buffer' \subseteq buffer
      BY <1>1 DEF Control, PrepareCurrent, Prepare, PrepareStage, PrepareFails, Begin,
                  Select, Wait, Reclaim, Answer, Shared
  <2>2. req'[r].testCtx \in {session, req[r].testCtx}
    <3> USE DEF Shape, Types
    <3>1. CASE PrepareCurrent(r)
        BY <3>1 DEF PrepareCurrent
    <3>2. CASE Prepare(r)
        BY <3>2 DEF Prepare
    <3>3. CASE PrepareStage(r)
        BY <3>3 DEF PrepareStage
    <3>4. CASE PrepareFails(r)
        BY <3>4 DEF PrepareFails
    <3>5. CASE Begin(r)
        BY <3>5 DEF Begin
    <3>6. CASE Select(r)
        BY <3>6 DEF Select
    <3>7. CASE Wait(r)
        BY <3>7 DEF Wait
    <3>8. CASE Reclaim(r)
        BY <3>8 DEF Reclaim
    <3>9. CASE Answer(r)
        BY <3>9 DEF Answer
    <3> QED
        BY <1>1, <3>1, <3>2, <3>3, <3>4, <3>5, <3>6, <3>7, <3>8, <3>9 DEF Control
  <2> QED
      BY <1>1, <2>1, <2>2, ControlEffect DEF Others
<1>2. ASSUME NEW r \in Requests, Abort(r) \/ Spawn(r) PROVE Typed'
  <2>1. req'[r].testCtx = req[r].testCtx
      BY <1>2 DEF Abort, Spawn, Started, Shape, Types
  <2> QED
      BY <1>2, <2>1, LoopEffect DEF Others, Abort, Spawn, Shared
<1>3. ASSUME NEW r \in Requests, NEW t \in TagSet, Goroutine(r, t) PROVE Typed'
  <2>1. req'[r].testCtx = req[r].testCtx
      BY <1>3 DEF Goroutine, Store, Publish, Finish, Shape, Types
  <2>2. session' = session /\ polled' = polled /\ buffer' \subseteq buffer \cup {<<r, t>>}
      BY <1>3 DEF Goroutine, Store, Publish, Finish, Shared
  <2>3. Others(r)
      BY <1>3, GoroutineEffect
  <2> QED
      BY <1>3, <2>1, <2>2, <2>3 DEF Others, Results
<1>4. CASE StopTest
    BY <1>4 DEF StopTest
<1>5. CASE QueryURLTest
    BY <1>5 DEF QueryURLTest, HandOut
<1>6. CASE UNCHANGED vars
    BY <1>6 DEF vars
<1> QED
    BY <1>1, <1>2, <1>3, <1>4, <1>5, <1>6, NextCases

\* A goroutine is only started when the limiter has a place, and works until it is done.
LEMMA LimitStep ==
    ASSUME Shape, LoopInv, LimitInv, [Next]_vars
    PROVE  LimitInv'
<1> SUFFICES ASSUME NEW u \in Requests PROVE Cardinality(Working(u)') <= Limit[u]
    BY DEF LimitInv
<1>1. IsFiniteSet(Working(u)) /\ Cardinality(Working(u)) \in Nat
  <2>1. IsFiniteSet(TagSet)
      BY FS_Interval, ProbeAssumption DEF TagSet
  <2> QED
      BY <2>1, FS_Subset, FS_CardinalityType DEF Working
<1>2. CASE Working(u)' \subseteq Working(u)
    BY <1>1, <1>2, FS_Subset, FS_CardinalityType, ProbeAssumption DEF LimitInv
<1>3. ASSUME NEW r \in Requests, Control(r) PROVE Working(u)' = Working(u)
    BY <1>3, ControlEffect DEF Others, Working
<1>4. ASSUME NEW r \in Requests, Abort(r) PROVE Working(u)' \subseteq Working(u)
  <2>1. Others(r) /\ req'[r].probe = [req[r].probe EXCEPT ![req[r].next] = "aborted"]
      BY <1>4 DEF Abort, Shape, Types, Others
  <2>2. req[r].probe \in [TagSet -> {"none", "running", "stored", "published"} \cup Ended]
      BY Fields
  <2> QED
      BY <2>1, <2>2 DEF Others, Working
<1>5. ASSUME NEW r \in Requests, Spawn(r), r # u PROVE Working(u)' = Working(u)
    BY <1>5, LoopEffect DEF Others, Working
<1>6. CASE Spawn(u)
  <2>1. Cardinality(Working(u)) < Limit[u]
      BY <1>6 DEF Spawn
  <2>2. Working(u)' \subseteq Working(u) \cup {req[u].next}
    <3>1. req'[u].probe = [req[u].probe EXCEPT ![req[u].next] = "running"]
        BY <1>6 DEF Spawn, Started, Shape, Types
    <3>2. req[u].probe \in [TagSet -> {"none", "running", "stored", "published"} \cup Ended]
        BY Fields
    <3> QED
        BY <3>1, <3>2 DEF Working
  <2>3. IsFiniteSet(Working(u) \cup {req[u].next})
        /\ Cardinality(Working(u) \cup {req[u].next}) <= Cardinality(Working(u)) + 1
      BY <1>1, FS_AddElement
  <2>4. /\ Cardinality(Working(u)') <= Cardinality(Working(u) \cup {req[u].next})
        /\ Cardinality(Working(u)') \in Nat
        /\ Cardinality(Working(u) \cup {req[u].next}) \in Nat
      BY <2>2, <2>3, FS_Subset, FS_CardinalityType
  <2> QED
      BY <1>1, <2>1, <2>3, <2>4, ProbeAssumption
<1>7. ASSUME NEW r \in Requests, NEW t \in TagSet, Goroutine(r, t)
      PROVE  Working(u)' \subseteq Working(u)
  <2>1. req[r].probe \in [TagSet -> {"none", "running", "stored", "published"} \cup Ended]
      BY Fields
  <2>2. /\ Others(r) /\ req[r].probe[t] \in {"running", "stored", "published"}
        /\ \E to \in {"stored", "published", "done"} :
               req'[r].probe = [req[r].probe EXCEPT ![t] = to]
      BY <1>7, GoroutineEffect
  <2> QED
      BY <2>1, <2>2 DEF Others, Working
<1>8. StopTest \/ QueryURLTest \/ UNCHANGED vars => Working(u)' = Working(u)
    BY DEF StopTest, QueryURLTest, vars, Working
<1> QED
    BY <1>2, <1>3, <1>4, <1>5, <1>6, <1>7, <1>8, NextCases

\* What was started is unwound by the step that ends the request.
LEMMA EnvStep ==
    ASSUME Shape, EnvInv, [Next]_vars
    PROVE  EnvInv'
<1> USE DEF EnvInv
<1>1. ASSUME NEW r \in Requests, Control(r) PROVE EnvInv'
  <2>1. /\ req'[r].pc \in {"failed", "done"} => req'[r].env = <<>>
        /\ req'[r].pc \in {"idle", "prepare"} => req'[r].env # Stages
    <3> USE DEF Shape, Types, At
    <3>1. CASE PrepareCurrent(r)
        BY <3>1 DEF PrepareCurrent
    <3>2. CASE Prepare(r)
        BY <3>2 DEF Prepare
    <3>3. CASE PrepareStage(r)
        BY <3>3 DEF PrepareStage
    <3>4. CASE PrepareFails(r)
        BY <3>4 DEF PrepareFails
    <3>5. CASE Begin(r)
        BY <3>5 DEF Begin
    <3>6. CASE Select(r)
        BY <3>6 DEF Select
    <3>7. CASE Wait(r)
        BY <3>7 DEF Wait
    <3>8. CASE Reclaim(r)
        BY <3>8 DEF Reclaim
    <3>9. CASE Answer(r)
        BY <3>9 DEF Answer
    <3> QED
        BY <1>1, <3>1, <3>2, <3>3, <3>4, <3>5, <3>6, <3>7, <3>8, <3>9 DEF Control
  <2> QED
      BY <1>1, <2>1, ControlEffect DEF Others
<1>2. ASSUME NEW r \in Requests, Abort(r) \/ Spawn(r) PROVE EnvInv'
    BY <1>2, LoopEffect DEF Others, Probing
<1>3. ASSUME NEW r \in Requests, NEW t \in TagSet, Goroutine(r, t) PROVE EnvInv'
  <2>1. req'[r].env = req[r].env
      BY <1>3 DEF Goroutine, Store, Publish, Finish, Shape, Types
  <2>2. Others(r) /\ req'[r].pc = req[r].pc
      BY <1>3, GoroutineEffect
  <2> QED
      BY <2>1, <2>2 DEF Others
<1>4. CASE StopTest \/ QueryURLTest \/ UNCHANGED vars
    BY <1>4 DEF StopTest, QueryURLTest, vars
<1> QED
    BY <1>1, <1>2, <1>3, <1>4, NextCases

\* The loop goes forward, and past wg.Wait nothing starts a goroutine.
LEMMA LoopStep ==
    ASSUME Shape, LoopInv, [Next]_vars
    PROVE  LoopInv'
<1>1. ASSUME NEW r \in Requests, Others(r), LoopOK(r)' PROVE LoopInv'
    BY <1>1 DEF Others, LoopInv, LoopOK
<1>2. ASSUME NEW r \in Requests, Control(r) PROVE LoopOK(r)'
  <2>1. /\ req'[r].probe = req[r].probe /\ req'[r].next = req[r].next
      BY <1>2, ControlEffect
  <2> QED
      BY <1>2, <2>1, PcEffect DEF Control, LoopInv, LoopOK, Probing, Over
<1>3. ASSUME NEW r \in Requests, Abort(r) \/ Spawn(r) PROVE LoopOK(r)'
  <2>1. PICK to \in {"aborted", "running"} :
            req'[r].probe = [req[r].probe EXCEPT ![req[r].next] = to]
      BY <1>3, LoopEffect
  <2>2. req[r].pc \in Probing /\ req'[r].pc = "select" /\ req'[r].next = req[r].next + 1
      BY <1>3, LoopEffect
  <2>3. /\ req[r].probe \in [TagSet -> {"none", "running", "stored", "published"} \cup Ended]
        /\ req[r].next \in 1..(Tags + 1)
      BY Fields
  <2> QED
      BY <2>1, <2>2, <2>3, ProbeAssumption DEF LoopInv, LoopOK, Probing, Over, TagSet
<1>4. ASSUME NEW r \in Requests, NEW t \in TagSet, Goroutine(r, t) PROVE LoopOK(r)'
  <2>1. PICK to \in {"stored", "published", "done"} :
            req'[r].probe = [req[r].probe EXCEPT ![t] = to]
      BY <1>4, GoroutineEffect
  <2>2. /\ req[r].probe[t] \in {"running", "stored", "published"}
        /\ req'[r].pc = req[r].pc /\ req'[r].next = req[r].next
      BY <1>4, GoroutineEffect
  <2>3. /\ req[r].probe \in [TagSet -> {"none", "running", "stored", "published"} \cup Ended]
        /\ req[r].next \in 1..(Tags + 1)
      BY Fields
  <2>4. req[r].pc \in Probing
      BY <2>2 DEF LoopInv, LoopOK, Ended
  <2> QED
      BY <2>1, <2>2, <2>3, <2>4 DEF LoopInv, LoopOK, Probing, Over
<1>5. CASE StopTest \/ QueryURLTest \/ UNCHANGED vars
    BY <1>5 DEF StopTest, QueryURLTest, vars, LoopInv, LoopOK
<1> QED
    BY <1>1, <1>2, <1>3, <1>4, <1>5, NextCases, ControlEffect, LoopEffect, GoroutineEffect

\* No tag ends without a result of its probe or its abort.
LEMMA StoredStep ==
    ASSUME Shape, StoredInv, [Next]_vars
    PROVE  StoredInv'
<1>1. ASSUME NEW r \in Requests, Others(r), StoredOK(r)' PROVE StoredInv'
    BY <1>1 DEF Others, StoredInv, StoredOK
<1>2. ASSUME NEW r \in Requests, Control(r) PROVE StoredOK(r)'
    BY <1>2, ControlEffect DEF StoredInv, StoredOK
<1>3. ASSUME NEW r \in Requests, Abort(r) \/ Spawn(r) PROVE StoredOK(r)'
  <2>1. req[r].probe \in [TagSet -> {"none", "running", "stored", "published"} \cup Ended]
      BY Fields
  <2>2. \/ /\ req'[r].probe = [req[r].probe EXCEPT ![req[r].next] = "aborted"]
           /\ req'[r].resMap = req[r].resMap \cup {req[r].next}
        \/ /\ req'[r].probe = [req[r].probe EXCEPT ![req[r].next] = "running"]
           /\ req'[r].resMap = req[r].resMap
      BY <1>3, LoopEffect
  <2> QED
      BY <2>1, <2>2 DEF StoredInv, StoredOK, Ended
<1>4. ASSUME NEW r \in Requests, NEW t \in TagSet, Goroutine(r, t) PROVE StoredOK(r)'
  <2>1. req[r].probe \in [TagSet -> {"none", "running", "stored", "published"} \cup Ended]
      BY Fields
  <2>2. PICK to \in {"stored", "published", "done"} :
            req'[r].probe = [req[r].probe EXCEPT ![t] = to]
      BY <1>4, GoroutineEffect
  <2>3. \/ req'[r].resMap = req[r].resMap \cup {t}
        \/ req[r].probe[t] \in {"stored", "published"} /\ req'[r].resMap = req[r].resMap
      BY <1>4, GoroutineEffect
  <2> QED
      BY <2>1, <2>2, <2>3 DEF StoredInv, StoredOK
<1>5. CASE StopTest \/ QueryURLTest \/ UNCHANGED vars
    BY <1>5 DEF StopTest, QueryURLTest, vars, StoredInv, StoredOK
<1> QED
    BY <1>1, <1>2, <1>3, <1>4, <1>5, NextCases, ControlEffect, LoopEffect, GoroutineEffect

\* A result goes into the buffer once; a poll or its own request takes it out.
LEMMA BufferStep ==
    ASSUME Shape, Typed, LoopInv, BufferInv, [Next]_vars
    PROVE  BufferInv'
<1>1. ASSUME NEW r \in Requests, Others(r), \A t \in TagSet : BufferOK(r, t)',
             polled' = polled,
             \A u \in Requests : \A t \in TagSet :
                 u # r => (<<u, t>> \in buffer' <=> <<u, t>> \in buffer)
      PROVE  BufferInv'
    BY <1>1 DEF Others, BufferInv, BufferOK
<1>2. ASSUME NEW r \in Requests, Control(r), ~Reclaim(r) PROVE BufferInv'
  <2>1. buffer' = buffer /\ polled' = polled
      BY <1>2 DEF Control, PrepareCurrent, Prepare, PrepareStage, PrepareFails, Begin,
                  Select, Wait, Answer, Shared
  <2>2. /\ req'[r].pc \in Probing \cup {"reclaim"}
               => req[r].pc \in Probing \cup {"prepared"}
        /\ req[r].pc \in Probing \cup {"reclaim"} => req'[r].pc \in Probing \cup {"reclaim"}
      BY <1>2, PcEffect DEF Control, Probing
  <2>3. req[r].pc = "prepared" => \A t \in TagSet : req[r].probe[t] \notin Sent
      BY DEF LoopInv, LoopOK, Probing, Over, Sent
  <2>4. Others(r) /\ req'[r].probe = req[r].probe
      BY <1>2, ControlEffect
  <2>5. ASSUME NEW t \in TagSet PROVE BufferOK(r, t)'
      BY <2>1, <2>2, <2>3, <2>4 DEF BufferInv, BufferOK
  <2> QED
      BY <1>1, <2>1, <2>4, <2>5
<1>3. ASSUME NEW r \in Requests, Reclaim(r) PROVE BufferInv'
  <2>1. buffer' = {x \in buffer : x[1] # r} /\ polled' = polled
      BY <1>3 DEF Reclaim
  <2>2. req[r].pc = "reclaim" /\ req'[r].pc = "answer"
      BY <1>3, PcEffect
  <2>3. Others(r) /\ req'[r].probe = req[r].probe
      BY <1>3, ControlEffect DEF Control
  <2>4. ASSUME NEW t \in TagSet PROVE BufferOK(r, t)'
    <3>1. <<r, t>> \notin buffer' /\ BufferOK(r, t)
        BY <2>1 DEF BufferInv
    <3> QED
        BY <2>1, <2>2, <2>3, <3>1 DEF BufferOK, Probing
  <2> QED
      BY <1>1, <2>1, <2>3, <2>4
<1>4. ASSUME NEW r \in Requests, Abort(r) \/ Spawn(r) PROVE BufferInv'
  <2>1. buffer' = buffer /\ polled' = polled
      BY <1>4 DEF Abort, Spawn, Shared
  <2>2. req[r].probe \in [TagSet -> {"none", "running", "stored", "published"} \cup Ended]
        /\ req[r].next \in 1..(Tags + 1)
      BY Fields
  <2>3. PICK to \in {"aborted", "running"} :
            req'[r].probe = [req[r].probe EXCEPT ![req[r].next] = to]
      BY <1>4, LoopEffect
  <2>4. Others(r) /\ req[r].pc \in Probing /\ req'[r].pc = "select"
      BY <1>4, LoopEffect
  <2>5. req[r].next \in TagSet => req[r].probe[req[r].next] = "none"
      BY <2>2, <2>4 DEF LoopInv, LoopOK, TagSet
  <2>6. \A t \in TagSet : req'[r].probe[t] \in Sent <=> req[r].probe[t] \in Sent
      BY <2>2, <2>3, <2>5 DEF Sent
  <2>7. ASSUME NEW t \in TagSet PROVE BufferOK(r, t)'
      BY <2>1, <2>4, <2>6 DEF BufferInv, BufferOK, Probing
  <2> QED
      BY <1>1, <2>1, <2>4, <2>7
<1>5. ASSUME NEW r \in Requests, NEW t \in TagSet, Goroutine(r, t) PROVE BufferInv'
  <2>1. req[r].probe \in [TagSet -> {"none", "running", "stored", "published"} \cup Ended]
      BY Fields
  <2>2. Others(r) /\ req'[r].pc = req[r].pc
      BY <1>5, GoroutineEffect
  <2>3. CASE Publish(r, t)
    <3>1. buffer' = buffer \cup {<<r, t>>} /\ polled' = polled
        BY <2>3 DEF Publish
    <3>2. /\ req[r].probe[t] = "stored"
          /\ req'[r].probe = [req[r].probe EXCEPT ![t] = "published"]
        BY <2>3 DEF Publish, Shape, Types
    <3>3. req[r].pc \in Probing
        BY <3>2 DEF LoopInv, LoopOK, Ended
    <3>4. ASSUME NEW v \in TagSet PROVE BufferOK(r, v)'
      <4>1. CASE v = t
          BY <2>1, <2>2, <3>1, <3>2, <3>3, <4>1 DEF BufferInv, BufferOK, Sent
      <4>2. CASE v # t
          BY <2>1, <2>2, <3>1, <3>2, <4>2 DEF BufferInv, BufferOK
      <4> QED
          BY <4>1, <4>2
    <3> QED
        BY <1>1, <2>2, <3>1, <3>4
  <2>4. CASE Store(r, t) \/ Finish(r, t)
    <3>1. buffer' = buffer /\ polled' = polled
        BY <2>4 DEF Store, Finish, Shared
    <3>2. \/ /\ req[r].probe[t] = "running"
             /\ req'[r].probe = [req[r].probe EXCEPT ![t] = "stored"]
          \/ /\ req[r].probe[t] = "published"
             /\ req'[r].probe = [req[r].probe EXCEPT ![t] = "done"]
        BY <2>4 DEF Store, Finish, Shape, Types
    <3>3. \A v \in TagSet : req'[r].probe[v] \in Sent <=> req[r].probe[v] \in Sent
        BY <2>1, <3>2 DEF Sent
    <3>4. ASSUME NEW v \in TagSet PROVE BufferOK(r, v)'
        BY <2>2, <3>1, <3>3 DEF BufferInv, BufferOK
    <3> QED
        BY <1>1, <2>2, <3>1, <3>4
  <2> QED
      BY <1>5, <2>3, <2>4 DEF Goroutine
<1>6. CASE QueryURLTest
  <2>1. buffer' = {} /\ req' = req
      BY <1>6 DEF QueryURLTest
  <2>2. ASSUME NEW r \in Requests, NEW t \in TagSet PROVE BufferOK(r, t)'
    <3>1. polled[<<r, t>>] \in 0..2 /\ BufferOK(r, t)
        BY DEF Typed, Results, BufferInv
    <3>2. polled'[<<r, t>>] = IF <<r, t>> \in buffer /\ polled[<<r, t>>] < 2
                              THEN polled[<<r, t>>] + 1 ELSE polled[<<r, t>>]
        BY <1>6 DEF QueryURLTest, HandOut, Results
    <3> QED
        BY <2>1, <3>1, <3>2 DEF BufferOK
  <2> QED
      BY <2>2 DEF BufferInv
<1>7. CASE StopTest \/ UNCHANGED vars
    BY <1>7 DEF StopTest, vars, BufferInv, BufferOK
<1> QED
    BY <1>2, <1>3, <1>4, <1>5, <1>6, <1>7, NextCases

-----------------------------------------------------------------------------
\* No step disturbs any part of the invariant.
LEMMA NextInv == IInv /\ [Next]_vars => IInv'
BY ShapeStep, TypedStep, LimitStep, EnvStep, LoopStep, StoredStep, BufferStep DEF IInv

\* The requests, their goroutines and the buffer fit together in every state.
THEOREM ProbeInvariant == Spec => []IInv
BY InitInv, NextInv, PTL DEF Spec

\* Type correctness, with no more goroutines at work than the limiter has places.
THEOREM ProbeTyped == Spec => []TypeOK
<1>1. IInv => TypeOK
  <2> SUFFICES ASSUME IInv PROVE TypeOK
      OBVIOUS
  <2>1. req \in [Requests -> [pc : Pcs, env : Envs, testCtx : 0..session,
                              next : 1..(Tags + 1),
                              probe : [TagSet -> {"none", "running", "stored", "published"}
                                                     \cup Ended],
                              resMap : SUBSET TagSet]]
      BY DEF IInv, Shape, Typed, Types
  <2> QED
      BY <2>1 DEF IInv, Typed, LimitInv, TypeOK, Pcs, Envs
<1> QED
    BY <1>1, ProbeInvariant, PTL

\* Every tag has one result, which is handed out once or taken back by its request,
\* for any number of requests, tags and polls.
THEOREM ProbeAccounted == Spec => []ResultsAccounted
<1>1. IInv => ResultsAccounted
  <2> SUFFICES ASSUME IInv PROVE ResultsAccounted
      OBVIOUS
  <2>1. ASSUME NEW r \in Requests, req[r].pc \in Over PROVE req[r].resMap = TagSet
    <3>1. req[r].resMap \subseteq TagSet
        BY Fields DEF IInv
    <3>2. \A t \in TagSet : req[r].probe[t] \in Ended => t \in req[r].resMap
        BY DEF IInv, StoredInv, StoredOK
    <3> QED
        BY <2>1, <3>1, <3>2 DEF IInv, LoopInv, LoopOK
  <2>2. \A x \in Results : polled[x] <= 1
      BY DEF IInv, BufferInv, BufferOK, Results
  <2>3. ASSUME NEW r \in Requests, req[r].pc \in Probing \cup {"reclaim"},
               NEW t \in TagSet, req[r].probe[t] \in Sent
        PROVE  <<r, t>> \in buffer <=> polled[<<r, t>>] = 0
      BY <2>3 DEF IInv, BufferInv, BufferOK
  <2>4. ASSUME NEW x \in buffer PROVE req[x[1]].pc \notin {"answer", "done"}
      BY DEF IInv, Typed, BufferInv, BufferOK, Results, Probing
  <2> QED
      BY <2>1, <2>2, <2>3, <2>4 DEF ResultsAccounted, Over, Probing, Sent
<1> QED
    BY <1>1, ProbeInvariant, PTL

\* Nothing that prepareTestEnv started is left behind.
THEOREM ProbeUnwound == Spec => []EnvIsUnwound
<1>1. IInv => EnvIsUnwound
    BY DEF IInv, EnvInv, EnvIsUnwound
<1> QED
    BY <1>1, ProbeInvariant, PTL
=============================================================================
