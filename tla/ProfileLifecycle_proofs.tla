------------------------ MODULE ProfileLifecycle_proofs ------------------------
(***************************************************************************)
(* Proofs about ProfileLifecycle, for any profiles, any number of clicks,  *)
(* deaths of the core, lost calls and launches that fail, with and without *)
(* the guard, the system proxy and HOTP codes.  IInv is inductive: it ties *)
(* what the core runs, what the window shows, who holds the filter and the *)
(* system proxy to the steps the two workers are at.                       *)
(***************************************************************************)
EXTENDS ProfileLifecycle, SequenceTheorems, TLAPS

USE DEF procVars, guiVars, muVars, dsVars, proxyVars, counters, calls, shared,
        process, stopping, restarts

StartSteps == {"idle", "guard", "enable", "enabled", "check", "stopCheck", "stopLock",
               "await", "send", "answer", "commit", "undo", "publish", "proxy",
               "release", "disabled", "unlock"}
StopSteps == {"idle", "send", "answer", "proxy", "forget", "clear", "unlock"}

\* TypeOK in parts, and what it follows from.
Tasks == [do : {"Start", "RestartCore"}, id : Ids]
GuiTypes ==
    /\ running \in Ids /\ started_id \in Ids /\ start_profile_when_core_is_up \in Ids
    /\ ui \in [pc : {"idle", "accepted", "started"}, id : Ids]
    /\ tasks \in Seq(Tasks) /\ timers \in Nat
FlagTypes ==
    /\ core_running \in BOOLEAN /\ mu_starting \in BOOLEAN /\ mu_stopping \in BOOLEAN
    /\ restartTimer \in BOOLEAN /\ abandoned \in BOOLEAN /\ failed_to_start \in BOOLEAN
    /\ sysProxy \in BOOLEAN /\ exitPending \in BOOLEAN /\ connected \in BOOLEAN
    /\ lost \in BOOLEAN /\ startedHere \in BOOLEAN /\ armed \in BOOLEAN
WorkerTypes ==
    /\ start \in [pc : StartSteps, id : Ids, guarded : BOOLEAN]
    /\ stop \in [pc : StopSteps, crash : BOOLEAN, manual : BOOLEAN, by : Nat]
CoreTypes ==
    /\ leftBy \in {"nothing", "overtaken start", "failed stop"}
    /\ proc \in {"up", "down"} /\ box \in Ids /\ orphans \subseteq Profiles
    /\ holders \in Nat /\ requests \subseteq Requests
    /\ answer \in [Workers -> Done \cup {"none", "waiting"}]

\* A worker holds its mutex from its first step to its last, and knows its profile.
MutexInv ==
    /\ mu_starting <=> start.pc # "idle"
    /\ mu_stopping <=> stop.pc # "idle"
    /\ start.pc # "idle" => start.id # None
    /\ start.pc \in {"enabled", "disabled"} => start.guarded
    /\ stop.pc = "answer" => ~stop.crash
    /\ ui.pc = "started" => ui.id # None

\* The call a worker is in at the moment, and nobody else's, may be answered.
Calling == start.pc \in {"enabled", "answer", "undo", "disabled"}
AskedByStart(r) ==
    \/ start.pc = "enabled" /\ r.op = "Enable" /\ r.id = None
    \/ start.pc = "answer" /\ r.op = "Start" /\ r.id = start.id
    \/ start.pc = "undo" /\ r.op = "Stop" /\ r.id = None
    \/ start.pc = "disabled" /\ r.op = "Disable" /\ r.id = None
AskedByStop(r) == stop.pc = "answer" /\ r.op = "Stop" /\ r.id = None

CallInv ==
    /\ answer["start"] # "none" <=> Calling
    /\ answer["stop"] # "none" <=> stop.pc = "answer"
    /\ \A r \in requests :
           IF r.live
           THEN /\ answer[r.from] = "waiting"
                /\ r.from = "start" => AskedByStart(r)
                /\ r.from = "stop" => AskedByStop(r)
           ELSE lost

\* A process that nobody is connected to was asked nothing and did nothing.
AloneInv ==
    /\ proc = "down" => ~connected
    /\ ~connected => /\ requests = {} /\ box = None /\ orphans = {} /\ holders = 0
                     /\ ~startedHere /\ ~armed

\* A start goes on only once nothing runs, a stop on request only while something does
\* or the start that asked for it waits.
Underway == stop.pc \in {"send", "answer", "proxy", "forget", "clear"}
Before == {"guard", "enable", "enabled", "check", "stopCheck", "stopLock", "await"}
TurnInv ==
    /\ start.pc \in {"send", "answer", "commit", "undo", "publish"} => running = None
    /\ start.pc = "await" => running = None \/ Underway
    /\ Underway /\ ~stop.crash => running # None \/ start.pc = "await"
    /\ stop.pc = "unlock" => running = None \/ start.pc \notin Before

\* Started, but not shown yet.
Shown == \/ start.pc = "answer" /\ answer["start"] = "ok"
         \/ start.pc \in {"commit", "publish"}
Undoing == start.pc = "undo" /\ Awaited("start") # {}

\* What runs is what the window shows or is about to show or to stop.
BoxInv == ~lost /\ box # None => \/ box = running
                                 \/ box = start.id /\ (Shown \/ Undoing)

\* A stop on request that was answered leaves nothing running.
Stopped == \/ stop.pc \in {"proxy", "forget", "clear"}
           \/ stop.pc = "answer" /\ Awaited("stop") = {}
StopInv == ~lost /\ ~stop.crash /\ Stopped => box = None

\* What is shown, or about to be, runs in the process that was asked to start it.
MatchInv ==
    startedHere /\ ~lost
        => /\ Shown => box = start.id
           /\ running # None => \/ box = running
                                \/ ~stop.crash /\ stop.pc \in {"answer", "proxy", "forget", "clear"}

OrphanInv == orphans # {} => lost

\* One transition holds the filter, from its acknowledged Enable to its Disable.
Gap == {"check", "stopCheck", "stopLock", "await", "send", "answer", "commit",
        "undo", "publish", "proxy", "release"}
HolderInv ==
    /\ armed => start.pc \in Gap \cup {"enabled"}
    /\ ~lost => /\ holders \in {0, 1}
                /\ armed => holders = 1
                /\ holders = 1 => /\ start.guarded
                                  /\ \/ start.pc \in Gap
                                     \/ start.pc = "enabled" /\ Awaited("start") = {}
                                     \/ start.pc = "disabled" /\ Awaited("start") # {}

\* The system proxy without a cause belongs to what is shown.
ProxyInv ==
    /\ sysProxy => SystemProxy
    /\ sysProxy /\ leftBy = "nothing" => running # None /\ stop.pc \notin {"forget", "clear"}

\* A frame of DS_cores waits for the stop it started, which is still under way.
Frames == [do : {"Exited", "RestartCore", "Restart"},
           pc : {"check", "lock", "wait", "stopped", "kill"}]
Waiting(s, stops, by) ==
    /\ \A i \in DOMAIN s : s[i].pc = "wait" <=> (stops /\ by = i)
    /\ by # 0 => stops /\ by \in DOMAIN s
WaitInv == cores \in Seq(Frames) /\ Waiting(cores, mu_stopping, stop.by)

IInv == /\ TypeOK /\ WaitInv /\ MutexInv /\ CallInv /\ AloneInv /\ TurnInv /\ BoxInv
        /\ StopInv /\ MatchInv /\ OrphanInv /\ HolderInv /\ ProxyInv

-----------------------------------------------------------------------------
(* What the operators do.                                                  *)

\* The types the steps of the workers and of the core need.
LEMMA Shape ==
    ASSUME TypeOK
    PROVE  /\ start \in [pc : StartSteps, id : Ids, guarded : BOOLEAN]
           /\ stop \in [pc : StopSteps, crash : BOOLEAN, manual : BOOLEAN, by : 0..Depth]
           /\ ui \in [pc : {"idle", "accepted", "started"}, id : Ids]
           /\ mu_starting \in BOOLEAN /\ mu_stopping \in BOOLEAN /\ sysProxy \in BOOLEAN
           /\ connected \in BOOLEAN /\ lost \in BOOLEAN /\ startedHere \in BOOLEAN
           /\ armed \in BOOLEAN /\ proc \in {"up", "down"}
           /\ running \in Ids /\ box \in Ids /\ holders \in Nat
           /\ requests \subseteq Requests
           /\ answer \in [Workers -> Done \cup {"none", "waiting"}]
BY DEF TypeOK, StartSteps, StopSteps

\* What DS_cores does to its frames keeps them waiting for their own stop.
LEMMA PushWaits ==
    ASSUME NEW s \in Seq(Frames), NEW f \in Frames, f.pc # "wait", NEW stops, NEW by,
           Waiting(s, stops, by)
    PROVE  Append(s, f) \in Seq(Frames) /\ Waiting(Append(s, f), stops, by)
<1>1. /\ Append(s, f) \in Seq(Frames) /\ DOMAIN s = 1..Len(s) /\ Len(s) \in Nat
      /\ DOMAIN Append(s, f) = 1..(Len(s) + 1)
      /\ \A i \in 1..Len(s) : Append(s, f)[i] = s[i]
      /\ Append(s, f)[Len(s) + 1] = f
  BY AppendProperties
<1>2. \A i \in 1..(Len(s) + 1) : i \in 1..Len(s) \/ i = Len(s) + 1
  BY <1>1
<1> QED
  BY <1>1, <1>2 DEF Waiting

\* A frame that returns leaves the others waiting for theirs.
LEMMA PopWaits ==
    ASSUME NEW s \in Seq(Frames), Len(s) > 0, s[Len(s)].pc # "wait", NEW stops, NEW by,
           Waiting(s, stops, by)
    PROVE  /\ SubSeq(s, 1, Len(s) - 1) \in Seq(Frames)
           /\ Waiting(SubSeq(s, 1, Len(s) - 1), stops, by)
<1> DEFINE p == SubSeq(s, 1, Len(s) - 1)
<1>1. DOMAIN s = 1..Len(s) /\ Len(s) \in Nat
  BY LenProperties
<1>2. /\ p \in Seq(Frames) /\ Len(p) = Len(s) - 1
      /\ \A i \in 1..(Len(s) - 1) : p[i] = s[i]
  BY <1>1, SubSeqProperties
<1>3. DOMAIN p = 1..(Len(s) - 1)
  BY <1>2, LenProperties
<1>4. by = Len(s) => by = 0
  BY <1>1 DEF Waiting
<1> HIDE DEF p
<1>5. Waiting(p, stops, by)
  BY <1>1, <1>2, <1>3, <1>4 DEF Waiting
<1> QED
  BY <1>2, <1>5 DEF p

\* A frame that goes on is still a frame, and the only one that changed.
GoesOn(s, n, pc, t) ==
    /\ t \in Seq(Frames) /\ DOMAIN t = DOMAIN s /\ t[n].pc = pc
    /\ \A i \in DOMAIN s \ {n} : t[i] = s[i]

\* Moving one frame on leaves the rest of the stack.
LEMMA FrameGoesOn ==
    ASSUME NEW s \in Seq(Frames), NEW n \in DOMAIN s, NEW pc \in {"lock", "wait", "stopped"}
    PROVE  GoesOn(s, n, pc, [s EXCEPT ![n].pc = pc])
<1>1. s[n] \in Frames
  BY LenProperties, ElementOfSeq
<1>2. [s[n] EXCEPT !.pc = pc] \in Frames /\ [s[n] EXCEPT !.pc = pc].pc = pc
  BY <1>1 DEF Frames
<1>3. n \in 1..Len(s)
  BY LenProperties
<1>4. [s EXCEPT ![n].pc = pc] \in Seq(Frames)
  BY <1>2, <1>3, ExceptSeq
<1> QED
  BY <1>2, <1>4 DEF GoesOn

\* The frame on top may go on to any step but waiting.
LEMMA TopWaits ==
    ASSUME NEW s \in Seq(Frames), Len(s) > 0, s[Len(s)].pc # "wait", NEW stops, NEW by,
           Waiting(s, stops, by), NEW pc \in {"lock", "wait", "stopped"}, pc # "wait"
    PROVE  /\ [s EXCEPT ![Len(s)].pc = pc] \in Seq(Frames)
           /\ Waiting([s EXCEPT ![Len(s)].pc = pc], stops, by)
<1> DEFINE t == [s EXCEPT ![Len(s)].pc = pc]
<1>1. Len(s) \in DOMAIN s
  BY LenProperties
<1>2. GoesOn(s, Len(s), pc, t)
  BY <1>1, FrameGoesOn
<1> HIDE DEF t
<1>3. Waiting(t, stops, by)
  BY <1>1, <1>2 DEF Waiting, GoesOn
<1> QED
  BY <1>2, <1>3 DEF t, GoesOn

\* The frame that starts a stop is the one that waits for it.
LEMMA StartWaits ==
    ASSUME NEW s \in Seq(Frames), Len(s) > 0, NEW by, Waiting(s, FALSE, by)
    PROVE  /\ [s EXCEPT ![Len(s)].pc = "wait"] \in Seq(Frames)
           /\ Waiting([s EXCEPT ![Len(s)].pc = "wait"], TRUE, Len(s))
<1> DEFINE t == [s EXCEPT ![Len(s)].pc = "wait"]
<1>1. Len(s) \in DOMAIN s
  BY LenProperties
<1>2. GoesOn(s, Len(s), "wait", t)
  BY <1>1, FrameGoesOn
<1> HIDE DEF t
<1>3. Waiting(t, TRUE, Len(s))
  BY <1>1, <1>2 DEF Waiting, GoesOn
<1> QED
  BY <1>2, <1>3 DEF t, GoesOn

\* The end of the stop wakes the frame that started it, and no other.
LEMMA OneIsWoken ==
    ASSUME NEW s \in Seq(Frames), NEW by, by # 0, Waiting(s, TRUE, by)
    PROVE  /\ [s EXCEPT ![by].pc = "stopped"] \in Seq(Frames)
           /\ Waiting([s EXCEPT ![by].pc = "stopped"], FALSE, 0)
<1> DEFINE t == [s EXCEPT ![by].pc = "stopped"]
<1>1. by \in DOMAIN s
  BY DEF Waiting
<1>2. GoesOn(s, by, "stopped", t)
  BY <1>1, FrameGoesOn
<1> HIDE DEF t
<1>3. Waiting(t, FALSE, 0)
  BY <1>1, <1>2 DEF Waiting, GoesOn
<1> QED
  BY <1>2, <1>3 DEF t, GoesOn

\* A request for a start changes no more than the tasks, or its worker sets out.
Clicked ==
    /\ UNCHANGED <<procVars, exitPending, guiVars, mu_stopping, stop, cores, timers,
                   restartTimer, abandoned, failed_to_start, proxyVars, answer>>
    /\ ui' = ui \/ ui' = IdleUi
    /\ tasks' = tasks \/ \E t \in Tasks : tasks' = Append(tasks, t)
    /\ \/ UNCHANGED <<mu_starting, start>>
       \/ /\ start.pc = "idle" /\ stop.pc = "idle" /\ mu_starting' = TRUE
          /\ \E id \in Profiles : start' = [pc |-> "guard", id |-> id, guarded |-> FALSE]

\* What a click or the event core_started does to the state: it spawns a start, or nothing.
LEMMA Clicks ==
    ASSUME TypeOK, MutexInv, (\E id \in Profiles : UserStarts(id)) \/ CoreStarted
    PROVE  Clicked
<1>1. PICK id \in Profiles :
            /\ ProfileStart(id)
            /\ UNCHANGED <<procVars, exitPending, guiVars, mu_stopping, stop, cores, timers,
                          restartTimer, abandoned, failed_to_start, proxyVars, answer>>
            /\ ui' = ui \/ ui' = IdleUi
  <2>1. CASE \E id \in Profiles : UserStarts(id)
    BY <2>1, Zenon DEF UserStarts
  <2>2. CASE CoreStarted
    <3>1. ui.id \in Profiles
      BY <2>2, Shape DEF CoreStarted, MutexInv, Ids
    <3> QED
      BY <2>2, <3>1, Zenon DEF CoreStarted
  <2> QED
    BY <2>1, <2>2
<1>2. \/ UNCHANGED <<mu_starting, start>>
      \/ /\ ~mu_starting /\ ~mu_stopping /\ mu_starting' = TRUE
         /\ start' = [pc |-> "guard", id |-> id, guarded |-> FALSE]
  BY <1>1, Zenon DEF ProfileStart, IdleStart
<1>3. ~mu_starting /\ ~mu_stopping => start.pc = "idle" /\ stop.pc = "idle"
  BY DEF MutexInv
<1>4. tasks' = tasks \/ \E t \in Tasks : tasks' = Append(tasks, t)
  <2>1. [do |-> "Start", id |-> id] \in Tasks
    BY DEF Tasks, Ids
  <2> QED
    BY <1>1, <2>1, Zenon DEF ProfileStart
<1> QED
  BY <1>1, <1>2, <1>3, <1>4, Zenon DEF Clicked

\* The step that switches the system proxy on leaves the core and the channel alone.
LEMMA ProxyEffect ==
    ASSUME StartProxy
    PROVE  /\ start.pc = "proxy" /\ start' = [start EXCEPT !.pc = "release"]
           /\ UNCHANGED <<procVars, calls, muVars, guiVars, stop, ui, cores>>
BY Zenon DEF StartProxy, StartGoto

\* The answer to Stop lets profile_stop go on, whether or not it went well.
LEMMA AnswerEffect ==
    ASSUME StopAnswer
    PROVE  /\ stop.pc = "answer"
           /\ stop' = [stop EXCEPT !.pc = IF answer["stop"] = "ok" THEN "proxy" ELSE "forget"]
           /\ answer["stop"] \in Done /\ answer' = [answer EXCEPT !["stop"] = "none"]
           /\ UNCHANGED <<procVars, muVars, guiVars, start, ui, cores, sysProxy>>
BY Zenon DEF StopAnswer, StopGoto, Answered

\* A worker awaits the answer to one call.
LEMMA OneCall ==
    ASSUME TypeOK, CallInv, NEW r \in requests, NEW s \in requests,
           r.live, s.live, r.from = s.from
    PROVE  r = s
<1>1. r \in Requests /\ s \in Requests
  BY DEF TypeOK
<1>2. r.op = s.op /\ r.id = s.id
  BY <1>1 DEF CallInv, AskedByStart, AskedByStop, Requests, Workers
<1> QED
  BY <1>1, <1>2 DEF Requests

\* Who awaits a call has no answer yet.
LEMMA Awaits ==
    ASSUME CallInv, NEW w, Awaited(w) # {}
    PROVE  answer[w] = "waiting"
BY DEF CallInv, Awaited

\* Whether a worker awaits a call depends on the calls alone.
LEMMA AwaitedSame == ASSUME NEW w, requests' = requests PROVE Awaited(w)' = Awaited(w)
BY DEF Awaited

\* A call is awaited once it is sent, and fails at once without a connection.
LEMMA SendEffect ==
    ASSUME TypeOK, AloneInv, NEW w \in Workers, NEW op, NEW id, Send(w, op, id)
    PROVE  /\ answer'[w] = IF connected THEN "waiting" ELSE "failed"
           /\ answer' \in [Workers -> Done \cup {"none", "waiting"}]
           /\ connected => Awaited(w)' # {}
           /\ ~connected => Awaited(w)' = {}
           /\ \A v \in Workers \ {w} :
                  Awaited(v)' = Awaited(v) /\ answer'[v] = answer[v]
<1>1. CASE connected
  <2> DEFINE q == [op |-> op, id |-> id, from |-> w, live |-> TRUE]
  <2>1. requests' = requests \cup {q} /\ answer' = [answer EXCEPT ![w] = "waiting"]
    BY <1>1 DEF Send
  <2>2. q \in Awaited(w)'
    BY <2>1 DEF Awaited
  <2>3. \A v \in Workers \ {w} : Awaited(v)' = Awaited(v)
    BY <2>1 DEF Awaited
  <2> QED
    BY <1>1, <2>1, <2>2, <2>3, Shape DEF Done
<1>2. CASE ~connected
  <2>1. requests' = requests /\ answer' = [answer EXCEPT ![w] = "failed"]
    BY <1>2 DEF Send
  <2>2. \A v \in Workers : Awaited(v)' = Awaited(v)
    BY <2>1 DEF Awaited
  <2>3. Awaited(w) = {}
    BY <1>2 DEF AloneInv, Awaited
  <2> QED
    BY <1>2, <2>1, <2>2, <2>3, Shape DEF Done
<1> QED
  BY <1>1, <1>2

\* The answer to a call that is awaited, and to one that is not.
LEMMA ReplyEffect ==
    ASSUME TypeOK, CallInv, NEW r \in requests, NEW result, Replies(r, result)
    PROVE  /\ r \in Requests /\ requests' = requests \ {r}
           /\ ~r.live => /\ lost /\ answer' = answer
                         /\ \A w \in Workers : Awaited(w)' = Awaited(w)
           /\ r.live => /\ r.from \in Workers /\ answer[r.from] = "waiting"
                        /\ answer' = [answer EXCEPT ![r.from] = result]
                        /\ Awaited(r.from) # {} /\ Awaited(r.from)' = {}
                        /\ \A w \in Workers \ {r.from} : Awaited(w)' = Awaited(w)
                        /\ r.from = "start" => AskedByStart(r)
                        /\ r.from = "stop" => AskedByStop(r)
           /\ UNCHANGED <<proc, connected, exitPending, lost, guiVars, muVars, start, stop,
                          ui,
                          dsVars, proxyVars, counters>>
<1>1. /\ requests' = requests \ {r} /\ r \in Requests
      /\ answer' = IF r.live THEN [answer EXCEPT ![r.from] = result] ELSE answer
  BY DEF Replies, TypeOK
<1>2. CASE ~r.live
  BY <1>1, <1>2 DEF Awaited, CallInv, Replies
<1>3. CASE r.live
  <2>1. /\ answer[r.from] = "waiting" /\ r.from \in Workers
        /\ r.from = "start" => AskedByStart(r)
        /\ r.from = "stop" => AskedByStop(r)
    BY <1>1, <1>3 DEF CallInv, Requests
  <2>2. r \in Awaited(r.from)
    BY <1>3 DEF Awaited
  <2>3. Awaited(r.from)' = {}
    BY <1>1, <1>3, OneCall DEF Awaited
  <2>4. \A w \in Workers \ {r.from} : Awaited(w)' = Awaited(w)
    BY <1>1 DEF Awaited
  <2> QED
    BY <1>1, <1>3, <2>1, <2>2, <2>3, <2>4 DEF Replies
<1> QED
  BY <1>2, <1>3

\* The calls a process executes that nobody gave up on.
OnlyStartAnswered ==
    /\ answer["start"] = "waiting" /\ answer'["start"] # "waiting"
    /\ Awaited("start") # {} /\ Awaited("start")' = {}
    /\ answer'["stop"] = answer["stop"] /\ Awaited("stop")' = Awaited("stop")

OnlyStopAnswered ==
    /\ answer["stop"] = "waiting" /\ answer'["stop"] # "waiting"
    /\ Awaited("stop") # {} /\ Awaited("stop")' = {}
    /\ answer'["start"] = answer["start"] /\ Awaited("start")' = Awaited("start")

\* The answer to a call that is awaited goes to the worker that asked for just that.
LEMMA Answers ==
    ASSUME TypeOK, CallInv, NEW r \in requests, NEW result, Replies(r, result),
           result # "waiting", r.live
    PROVE  /\ answer'[r.from] = result
           /\ r.from = "start" => OnlyStartAnswered /\ AskedByStart(r)
           /\ r.from = "stop" => OnlyStopAnswered /\ AskedByStop(r)
           /\ r.from \in {"start", "stop"}
<1>1. r.from \in {"start", "stop"}
  BY ReplyEffect DEF Workers
<1>2. CASE r.from = "start"
  BY <1>2, ReplyEffect, Shape DEF OnlyStartAnswered, Workers
<1>3. CASE r.from = "stop"
  BY <1>3, ReplyEffect, Shape DEF OnlyStopAnswered, Workers
<1> QED
  BY <1>1, <1>2, <1>3

\* Only profile_start asks for a Start.
LEMMA StartServed ==
    ASSUME TypeOK, CallInv, NEW r \in requests, ExecStart(r)
    PROVE  /\ UNCHANGED <<lost, start, stop, running, holders, armed, proc, connected>>
           /\ \/ lost
              \/ /\ start.pc = "answer" /\ OnlyStartAnswered
                 /\ \/ box = None /\ box' = start.id /\ startedHere'
                       /\ answer'["start"] = "ok"
                    \/ box' = None /\ UNCHANGED startedHere
                       /\ answer'["start"] = "error"
<1>1. PICK result \in {"ok", "error"} : 
         /\ Replies(r, result)
         /\ result = "ok" => box = None /\ box' = r.id /\ startedHere'
         /\ result = "error" => box' = None /\ UNCHANGED startedHere
  BY Zenon DEF ExecStart
<1>2. UNCHANGED <<lost, start, stop, running, holders, armed, proc, connected>>
  BY <1>1, Zenon DEF ExecStart, Replies
<1>3. CASE ~r.live
  BY <1>1, <1>2, <1>3, ReplyEffect
<1>4. CASE r.live
  <2>1. r.op = "Start" /\ result # "waiting"
    BY <1>1 DEF ExecStart
  <2>2. r.from = "start" /\ start.pc = "answer" /\ r.id = start.id /\ OnlyStartAnswered
    BY <1>1, <1>4, <2>1, Answers DEF AskedByStart, AskedByStop
  <2> QED
    BY <1>1, <1>2, <1>4, <2>1, <2>2, Answers
<1> QED
  BY <1>3, <1>4

\* A Stop leaves the core empty, whoever asked for it.
LEMMA StopServed ==
    ASSUME TypeOK, CallInv, NEW r \in requests, ExecStop(r)
    PROVE  /\ UNCHANGED <<lost, start, stop, running, holders, armed, proc, connected,
                          startedHere>>
           /\ box' = None
           /\ \/ lost
              \/ start.pc = "undo" /\ OnlyStartAnswered
              \/ stop.pc = "answer" /\ OnlyStopAnswered
<1>1. Replies(r, "ok") /\ r.op = "Stop"
  BY DEF ExecStop
<1>2. /\ UNCHANGED <<lost, start, stop, running, holders, armed, proc, connected,
                     startedHere>>
      /\ box' = None
  BY Zenon DEF ExecStop, Replies
<1>3. CASE ~r.live
  BY <1>1, <1>2, <1>3, ReplyEffect
<1>4. CASE r.live
  BY <1>1, <1>2, <1>4, Answers DEF AskedByStart, AskedByStop
<1> QED
  BY <1>3, <1>4

\* Only profile_start asks for the filter.
LEMMA EnableServed ==
    ASSUME TypeOK, CallInv, NEW r \in requests, Enable(r)
    PROVE  /\ UNCHANGED <<lost, start, stop, running, box, proc, connected, startedHere>>
           /\ \/ UNCHANGED <<holders, armed>>
              \/ holders' = holders + 1 /\ (armed' => armed \/ start.pc = "enabled")
           /\ lost \/ (start.pc = "enabled" /\ OnlyStartAnswered)
<1>1. PICK result \in {"ok", "error"} : 
         /\ Replies(r, result)
         /\ \/ UNCHANGED <<holders, armed>>
            \/ holders' = holders + 1 /\ armed' = (armed \/ r.live)
  BY Zenon DEF Enable
<1>2. UNCHANGED <<lost, start, stop, running, box, proc, connected, startedHere>>
  BY <1>1, Zenon DEF Enable, Replies
<1>3. CASE ~r.live
  BY <1>1, <1>2, <1>3, ReplyEffect
<1>4. CASE r.live
  <2>1. r.op = "Enable" /\ result # "waiting"
    BY <1>1 DEF Enable
  <2>2. start.pc = "enabled" /\ OnlyStartAnswered
    BY <1>1, <1>4, <2>1, Answers DEF AskedByStart, AskedByStop
  <2> QED
    BY <1>1, <1>2, <2>2
<1> QED
  BY <1>3, <1>4

\* Only profile_start gives the filter back, one holder at a time.
LEMMA DisableServed ==
    ASSUME TypeOK, CallInv, NEW r \in requests, Disable(r)
    PROVE  /\ UNCHANGED <<lost, start, stop, running, box, armed, proc, connected,
                          startedHere>>
           /\ holders' = IF holders = 0 THEN 0 ELSE holders - 1
           /\ lost \/ (start.pc = "disabled" /\ OnlyStartAnswered)
<1>1. Replies(r, "ok") /\ r.op = "Disable"
  BY DEF Disable
<1>2. /\ UNCHANGED <<lost, start, stop, running, box, armed, proc, connected, startedHere>>
      /\ holders' = IF holders = 0 THEN 0 ELSE holders - 1
  BY Zenon DEF Disable, Replies
<1>3. CASE ~r.live
  BY <1>1, <1>2, <1>3, ReplyEffect
<1>4. CASE r.live
  BY <1>1, <1>2, <1>4, Answers DEF AskedByStart, AskedByStop
<1> QED
  BY <1>3, <1>4

\* A new call is the only one its worker awaits.
LEMMA StartAsks ==
    ASSUME TypeOK, CallInv, NEW op, NEW id, Send("start", op, id), answer["start"] = "none"
    PROVE  /\ answer'["start"] \in {"waiting", "failed"} /\ answer'["stop"] = answer["stop"]
           /\ \A s \in requests' :
                  IF s.live THEN /\ answer'[s.from] = "waiting"
                                 /\ s.from = "start" => s.op = op /\ s.id = id
                                 /\ s.from = "stop" => AskedByStop(s)
                            ELSE lost
<1>1. \A s \in requests : s.live => s.from = "stop"
  BY Shape DEF CallInv, Requests, Workers
<1>2. /\ answer'["start"] \in {"waiting", "failed"} /\ answer'["stop"] = answer["stop"]
      /\ requests' # requests => answer'["start"] = "waiting"
  BY Shape DEF Send, Workers
<1>3. \A s \in requests' :
          s \in requests \/ s = [op |-> op, id |-> id, from |-> "start", live |-> TRUE]
  BY DEF Send
<1> QED
  BY <1>1, <1>2, <1>3 DEF CallInv

\* The same of a call of profile_stop.
LEMMA StopAsks ==
    ASSUME TypeOK, CallInv, NEW op, NEW id, Send("stop", op, id), answer["stop"] = "none"
    PROVE  /\ answer'["stop"] \in {"waiting", "failed"} /\ answer'["start"] = answer["start"]
           /\ \A s \in requests' :
                  IF s.live THEN /\ answer'[s.from] = "waiting"
                                 /\ s.from = "stop" => s.op = op /\ s.id = id
                                 /\ s.from = "start" => AskedByStart(s)
                            ELSE lost
<1>1. \A s \in requests : s.live => s.from = "start"
  BY Shape DEF CallInv, Requests, Workers
<1>2. /\ answer'["stop"] \in {"waiting", "failed"} /\ answer'["start"] = answer["start"]
      /\ requests' # requests => answer'["stop"] = "waiting"
  BY Shape DEF Send, Workers
<1>3. \A s \in requests' :
          s \in requests \/ s = [op |-> op, id |-> id, from |-> "stop", live |-> TRUE]
  BY DEF Send
<1> QED
  BY <1>1, <1>2, <1>3 DEF CallInv

\* An answer leaves the calls of the others.
LEMMA AnswerKeepsCalls ==
    ASSUME TypeOK, CallInv, NEW r \in requests, NEW result, Replies(r, result),
           result # "none"
    PROVE  CallInv'
<1>1. /\ UNCHANGED <<start, stop, lost>> /\ requests' = requests \ {r} /\ r \in Requests
      /\ answer' = IF r.live THEN [answer EXCEPT ![r.from] = result] ELSE answer
  BY ReplyEffect
<1>2. \A s \in requests' : s.live => answer'[s.from] = answer[s.from]
  BY <1>1, OneCall, Shape DEF Requests
<1>3. \A w \in Workers : answer'[w] # "none" <=> answer[w] # "none"
  BY <1>1, ReplyEffect, Shape
<1> QED
  BY <1>1, <1>2, <1>3 DEF CallInv, AskedByStart, AskedByStop, Calling, Workers

\* So does a call that is given up on: it becomes one that nobody awaits.
LEMMA LostCallKeepsCalls ==
    ASSUME TypeOK, CallInv, NEW w \in Workers, CallTimesOut(w)
    PROVE  CallInv'
<1>1. /\ UNCHANGED <<start, stop>> /\ lost' = TRUE
      /\ answer' = [answer EXCEPT ![w] = "failed"]
  BY DEF CallTimesOut
<1>2. PICK r \in Awaited(w) : requests' = (requests \ {r}) \cup {[r EXCEPT !.live = FALSE]}
  BY DEF CallTimesOut
<1>3. r \in requests /\ r.from = w /\ r.live /\ answer[w] = "waiting"
  BY Awaits DEF Awaited
<1>4. ~[r EXCEPT !.live = FALSE].live
  BY <1>3, Shape DEF Requests
<1>5. \A s \in requests' : s.live => s \in requests /\ s # r
  BY <1>2, <1>4
<1>6. \A s \in requests' : s.live => answer'[s.from] = answer[s.from]
  BY <1>1, <1>3, <1>5, OneCall, Shape DEF Requests
<1>7. \A v \in Workers : answer'[v] # "none" <=> answer[v] # "none"
  BY <1>1, <1>3, Shape
<1> QED
  BY <1>1, <1>5, <1>6, <1>7 DEF CallInv, AskedByStart, AskedByStop, Calling, Workers

\* What is sent is a request, and what is answered an answer.
LEMMA SendTypes ==
    ASSUME TypeOK, NEW w \in Workers, NEW op \in {"Start", "Stop", "Enable", "Disable"},
           NEW id \in Ids, Send(w, op, id)
    PROVE  /\ requests' \subseteq Requests
           /\ answer' \in [Workers -> Done \cup {"none", "waiting"}]
<1>1. [op |-> op, id |-> id, from |-> w, live |-> TRUE] \in Requests
  BY DEF Requests
<1> DEFINE q == [op |-> op, id |-> id, from |-> w, live |-> TRUE]
<1>2. requests' = requests \/ requests' = requests \cup {q}
  BY DEF Send
<1>3. answer' = [answer EXCEPT ![w] = "waiting"] \/ answer' = [answer EXCEPT ![w] = "failed"]
  BY DEF Send
<1>4. requests \subseteq Requests /\ q \in Requests
  BY <1>1, Shape
<1> HIDE DEF q
<1>5. requests' \subseteq Requests
  BY <1>2, <1>4
<1> QED
  BY <1>3, <1>5, Shape DEF Done

\* The types after an answer.
LEMMA ReplyTypes ==
    ASSUME TypeOK, NEW r \in requests, NEW result \in {"ok", "error"}, Replies(r, result)
    PROVE  /\ requests' \subseteq Requests /\ proc' = proc /\ leftBy' = leftBy
           /\ answer' \in [Workers -> Done \cup {"none", "waiting"}]
BY Shape DEF Replies, Done

-----------------------------------------------------------------------------
(* Every step keeps the invariant, one part at a time.                     *)

\* What the window and DS_cores keep of the profiles.
LEMMA GuiTypesStep ==
    ASSUME GuiTypes, TypeOK, MutexInv, [Next]_vars
    PROVE  GuiTypes'
<1>1. UNCHANGED <<running, started_id, start_profile_when_core_is_up, ui, tasks,
                  timers>> => GuiTypes'
    BY DEF GuiTypes, Tasks, Ids
<1>2. CASE (\E manual \in BOOLEAN : UserStops(manual))
    BY <1>1, <1>2 DEF UserStops
<1>3. CASE \/ StartGuard \/ StartEnable \/ StartEnabled \/ StartCheck \/ StartStopCheck
           \/ StartStopLock \/ StartAwait \/ StartSend \/ StartAnswer \/ StartCommitFails
           \/ StartUndone \/ StartProxy \/ StartRelease \/ StartReleased \/ StartUnlock
    BY <1>1, <1>3 DEF StartGuard, StartEnable, StartGoto, StartEnabled, StartCheck,
       StartStopCheck, StartStopLock, StartAwait, StartSend, StartAnswer, StartCommitFails,
       StartUndone, StartProxy, StartRelease, StartReleased, StartUnlock
<1>4. CASE StopSend \/ StopAnswer \/ StopProxy \/ StopUnlock
    BY <1>1, <1>4 DEF StopSend, StopGoto, StopAnswer, StopProxy, StopUnlock
<1>5. CASE ExitSeen \/ DsStopCheck \/ DsStopLock \/ ExitTooOften \/ KillCore \/ Restart
    BY <1>1, <1>5 DEF ExitSeen, DsStep, DsStopCheck, DsStopLock, ExitTooOften, KillCore,
       Restart
<1>6. CASE \/ (\E r \in requests : ExecStart(r)) \/ (\E r \in requests : ExecStop(r))
           \/ (\E r \in requests : Enable(r)) \/ (\E r \in requests : Disable(r))
           \/ (\E w \in Workers : CallFails(w)) \/ (\E w \in Workers : CallTimesOut(w))
           \/ CoreDies
    BY <1>1, <1>6 DEF ExecStart, Replies, ExecStop, Enable, Disable, CallFails,
       CallTimesOut, CoreDies
<1>7. CASE UNCHANGED vars
    BY <1>1, <1>7 DEF vars
<1> USE ProfileAssumption DEF GuiTypes, Tasks, Ids, MutexInv
<1>8. CASE (\E id \in Profiles : UserStarts(id)) \/ CoreStarted
  <2>1. Clicked
    BY <1>8, Clicks
  <2> HIDE DEF Tasks
  <2>2. tasks' = tasks \/ \E t \in Tasks : tasks' = Append(tasks, t)
    BY <2>1 DEF Clicked
  <2>4. tasks' \in Seq(Tasks)
    BY <2>2, AppendProperties
  <2>3. UNCHANGED <<guiVars, timers>> /\ (ui' = ui \/ ui' = IdleUi)
    BY <2>1 DEF Clicked
  <2> QED
    BY <2>3, <2>4 DEF IdleUi
<1>9. CASE RestartCore
    BY <1>9 DEF RestartCore
<1>10. CASE CoreConnects
    BY <1>10 DEF CoreConnects
<1>11. CASE CoreAccepted
    BY <1>11, Shape DEF CoreAccepted, IdleUi
<1>12. CASE StartCommit
    BY <1>12, Shape DEF StartCommit, StartGoto
<1>13. CASE StartPublish
    BY <1>13, Shape DEF StartPublish, StartGoto
<1>14. CASE StopForget
    BY <1>14 DEF StopForget, StopGoto
<1>15. CASE StopClear
    BY <1>15 DEF StopClear, StopGoto
<1>16. CASE RunTask
  <2>1. /\ tasks # <<>> /\ tasks' = Tail(tasks)
        /\ \/ start_profile_when_core_is_up' = Head(tasks).id
           \/ UNCHANGED start_profile_when_core_is_up
        /\ UNCHANGED <<running, started_id, ui, timers>>
    BY <1>16 DEF RunTask, DsStep
  <2>2. Head(tasks) \in Tasks /\ Tail(tasks) \in Seq(Tasks)
    BY <2>1, HeadTailProperties
  <2> QED
    BY <2>1, <2>2
<1>17. CASE TimerFires
    BY <1>17 DEF TimerFires, DsStep
<1>18. CASE ExitRestarts
    BY <1>18 DEF ExitRestarts, DsStep
<1> QED
    BY Zenon, <1>2, <1>3, <1>4, <1>5, <1>6, <1>7, <1>8, <1>9, <1>10, <1>11, <1>12, <1>13,
       <1>14, <1>15, <1>16, <1>17, <1>18 DEF Next, User, Ui, StartWorker, StopWorker,
       DSCores, Serve, Calls

\* The flags.
LEMMA FlagTypesStep ==
    ASSUME FlagTypes, TypeOK, MutexInv, [Next]_vars
    PROVE  FlagTypes'
<1>1. UNCHANGED <<core_running, mu_starting, mu_stopping, restartTimer, abandoned,
                  failed_to_start, sysProxy, exitPending, connected, lost, startedHere,
                  armed>> => FlagTypes'
    BY DEF FlagTypes
<1>2. CASE RestartCore
    BY <1>1, <1>2 DEF RestartCore
<1>3. CASE \/ StartGuard \/ StartEnable \/ StartEnabled \/ StartCheck \/ StartStopCheck
           \/ StartAwait \/ StartSend \/ StartAnswer \/ StartCommit \/ StartCommitFails
           \/ StartUndone \/ StartPublish \/ StartReleased
    BY <1>1, <1>3 DEF StartGuard, StartEnable, StartGoto, StartEnabled, StartCheck,
       StartStopCheck, StartAwait, StartSend, StartAnswer, StartCommit, StartCommitFails,
       StartUndone, StartPublish, StartReleased
<1>4. CASE StopSend \/ StopAnswer \/ StopForget
    BY <1>1, <1>4 DEF StopSend, StopGoto, StopAnswer, StopForget
<1>5. CASE RunTask \/ TimerFires \/ DsStopCheck
    BY <1>1, <1>5 DEF RunTask, DsStep, TimerFires, DsStopCheck
<1>6. CASE \/ (\E r \in requests : ExecStop(r)) \/ (\E r \in requests : Disable(r))
           \/ (\E w \in Workers : CallFails(w))
    BY <1>1, <1>6 DEF ExecStop, Replies, Disable, CallFails
<1>7. CASE UNCHANGED vars
    BY <1>1, <1>7 DEF vars
<1> USE ProfileAssumption DEF FlagTypes, MutexInv
<1>8. CASE (\E id \in Profiles : UserStarts(id)) \/ CoreStarted
  <2>1. Clicked
    BY <1>8, Clicks
  <2>2. /\ UNCHANGED <<procVars, exitPending, guiVars, mu_stopping, restartTimer, abandoned,
                       failed_to_start, sysProxy>>
        /\ mu_starting' = mu_starting \/ mu_starting' = TRUE
    BY <2>1 DEF Clicked
  <2> QED
    BY <2>2
<1>9. ASSUME NEW manual \in BOOLEAN, UserStops(manual) PROVE FlagTypes'
    BY <1>9, Shape DEF UserStops, SpawnStop
<1>10. CASE CoreConnects
    BY <1>10 DEF CoreConnects
<1>11. CASE CoreAccepted
    BY <1>11 DEF CoreAccepted
<1>12. CASE StartStopLock
    BY <1>12, Shape DEF StartStopLock, StartGoto, SpawnStop, IdleStart
<1>13. CASE StartProxy
  <2>1. /\ UNCHANGED <<procVars, exitPending, guiVars, muVars, restartTimer, abandoned,
                       failed_to_start>>
        /\ sysProxy' = (sysProxy \/ SystemProxy)
    BY <1>13, Zenon DEF StartProxy, StartGoto
  <2> QED
    BY <2>1
<1>14. CASE StartRelease
    BY <1>14 DEF StartRelease, StartGoto
<1>15. CASE StartUnlock
    BY <1>15 DEF StartUnlock, StartGoto, IdleStart
<1>16. CASE StopProxy
    BY <1>16 DEF StopProxy, StopGoto
<1>17. CASE StopClear
    BY <1>17 DEF StopClear, StopGoto
<1>18. CASE StopUnlock
    BY <1>18 DEF StopUnlock, StopGoto, IdleStop
<1>19. CASE ExitSeen
    BY <1>19 DEF ExitSeen, DsStep
<1>20. CASE DsStopLock
  <2>1. UNCHANGED <<procVars, exitPending, guiVars, mu_starting, restartTimer, abandoned,
                    failed_to_start, sysProxy>>
    BY <1>20 DEF DsStopLock, DsStep
  <2>2. mu_stopping' = mu_stopping \/ mu_stopping' = TRUE
    BY <1>20 DEF DsStopLock, SpawnStop
  <2> QED
    BY <2>1, <2>2
<1>21. CASE ExitRestarts
    BY <1>21 DEF ExitRestarts, DsStep
<1>22. CASE ExitTooOften
    BY <1>22 DEF ExitTooOften, DsStep
<1>23. CASE KillCore
    BY <1>23 DEF KillCore, Dies, DsStep
<1>24. CASE Restart
    BY <1>24 DEF Restart, Dies, DsStep
<1>25. ASSUME NEW r \in requests, ExecStart(r) PROVE FlagTypes'
  <2>1. /\ UNCHANGED <<proc, connected, exitPending, lost, guiVars, muVars, restartTimer,
                       abandoned, failed_to_start, sysProxy>>
        /\ UNCHANGED armed
    BY <1>25, Zenon DEF ExecStart, Replies
  <2>2. startedHere' \in BOOLEAN
    BY <1>25 DEF ExecStart
  <2> QED
    BY <2>1, <2>2
<1>26. ASSUME NEW r \in requests, Enable(r) PROVE FlagTypes'
  <2>1. /\ UNCHANGED <<proc, connected, exitPending, lost, guiVars, muVars, restartTimer,
                       abandoned, failed_to_start, sysProxy>>
        /\ UNCHANGED startedHere
    BY <1>26, Zenon DEF Enable, Replies
  <2>2. armed' \in BOOLEAN
    BY <1>26, Shape DEF Enable, Requests
  <2> QED
    BY <2>1, <2>2
<1>27. ASSUME NEW w \in Workers, CallTimesOut(w) PROVE FlagTypes'
    BY <1>27 DEF CallTimesOut
<1>28. CASE CoreDies
    BY <1>28 DEF CoreDies, Dies
<1> QED
    BY Zenon, <1>2, <1>3, <1>4, <1>5, <1>6, <1>7, <1>8, <1>9, <1>10, <1>11, <1>12, <1>13,
       <1>14, <1>15, <1>16, <1>17, <1>18, <1>19, <1>20, <1>21, <1>22, <1>23, <1>24, <1>25,
       <1>26, <1>27, <1>28 DEF Next, User, Ui, StartWorker, StopWorker, DSCores, Serve,
       Calls

\* The two workers.
LEMMA WorkerTypesStep ==
    ASSUME WorkerTypes, TypeOK, MutexInv, WaitInv, [Next]_vars
    PROVE  WorkerTypes'
<1>1. UNCHANGED <<start, stop>> => WorkerTypes'
    BY DEF WorkerTypes, StartSteps, StopSteps, Ids
<1>2. CASE RestartCore \/ CoreConnects \/ CoreAccepted
    BY <1>1, <1>2 DEF RestartCore, CoreConnects, CoreAccepted
<1>3. CASE \/ RunTask \/ TimerFires \/ ExitSeen \/ DsStopCheck \/ ExitRestarts \/ ExitTooOften
           \/ KillCore \/ Restart
    BY <1>1, <1>3 DEF RunTask, DsStep, TimerFires, ExitSeen, DsStopCheck, ExitRestarts,
       ExitTooOften, KillCore, Restart
<1>4. CASE \/ (\E r \in requests : ExecStart(r)) \/ (\E r \in requests : ExecStop(r))
           \/ (\E r \in requests : Enable(r)) \/ (\E r \in requests : Disable(r))
           \/ (\E w \in Workers : CallFails(w)) \/ (\E w \in Workers : CallTimesOut(w))
           \/ CoreDies
    BY <1>1, <1>4 DEF ExecStart, Replies, ExecStop, Enable, Disable, CallFails,
       CallTimesOut, CoreDies
<1>5. CASE UNCHANGED vars
    BY <1>1, <1>5 DEF vars
<1> USE ProfileAssumption DEF WorkerTypes, StartSteps, StopSteps, Ids, MutexInv
<1>6. CASE (\E id \in Profiles : UserStarts(id)) \/ CoreStarted
  <2>1. Clicked
    BY <1>6, Clicks
  <2>2. /\ stop' = stop
        /\ \/ start' = start
           \/ \E id \in Profiles : start' = [pc |-> "guard", id |-> id, guarded |-> FALSE]
    BY <2>1 DEF Clicked
  <2>3. \A id \in Profiles : [pc |-> "guard", id |-> id, guarded |-> FALSE]
                              \in [pc : StartSteps, id : Ids, guarded : BOOLEAN]
    OBVIOUS
  <2> QED
    BY <2>2, <2>3
<1>7. ASSUME NEW manual \in BOOLEAN, UserStops(manual) PROVE WorkerTypes'
    BY <1>7, Shape DEF UserStops, SpawnStop
<1>8. CASE StartGuard
    BY <1>8 DEF StartGuard
<1>9. CASE StartEnable
    BY <1>9 DEF StartEnable, StartGoto
<1>10. CASE StartEnabled
    BY <1>10 DEF StartEnabled, StartGoto
<1>11. CASE StartCheck
    BY <1>11 DEF StartCheck, StartGoto
<1>12. CASE StartStopCheck
    BY <1>12 DEF StartStopCheck, StartGoto
<1>13. CASE StartStopLock
  <2>1. \/ stop' = stop
        \/ stop' = [pc |-> "send", crash |-> FALSE, manual |-> TRUE, by |-> 0]
    BY <1>13 DEF StartStopLock, SpawnStop
  <2>2. start' = [start EXCEPT !.pc = "await"]
    BY <1>13 DEF StartStopLock, StartGoto
  <2>3. [pc |-> "send", crash |-> FALSE, manual |-> TRUE, by |-> 0]
            \in [pc : StopSteps, crash : BOOLEAN, manual : BOOLEAN, by : Nat]
    OBVIOUS
  <2>4. [start EXCEPT !.pc = "await"] \in [pc : StartSteps, id : Ids, guarded : BOOLEAN]
    OBVIOUS
  <2> QED
    BY <2>1, <2>2, <2>3, <2>4
<1>14. CASE StartAwait
    BY <1>14 DEF StartAwait, StartGoto
<1>15. CASE StartSend
    BY <1>15 DEF StartSend, StartGoto
<1>16. CASE StartAnswer
    BY <1>16 DEF StartAnswer, StartGoto
<1>17. CASE StartCommit
    BY <1>17 DEF StartCommit, StartGoto
<1>18. CASE StartCommitFails
    BY <1>18 DEF StartCommitFails, StartGoto
<1>19. CASE StartUndone
    BY <1>19 DEF StartUndone, StartGoto
<1>20. CASE StartPublish
    BY <1>20 DEF StartPublish, StartGoto
<1>21. CASE StartProxy
    BY <1>21, ProxyEffect
<1>22. CASE StartRelease
    BY <1>22 DEF StartRelease, StartGoto
<1>23. CASE StartReleased
    BY <1>23 DEF StartReleased, StartGoto
<1>24. CASE StartUnlock
    BY <1>24 DEF StartUnlock, StartGoto, IdleStart
<1>25. CASE StopSend
    BY <1>25 DEF StopSend, StopGoto
<1>26. CASE StopAnswer
    BY <1>26, AnswerEffect DEF Done
<1>27. CASE StopProxy
    BY <1>27 DEF StopProxy, StopGoto
<1>28. CASE StopForget
    BY <1>28 DEF StopForget, StopGoto
<1>29. CASE StopClear
    BY <1>29 DEF StopClear, StopGoto
<1>30. CASE StopUnlock
    BY <1>30 DEF StopUnlock, StopGoto, IdleStop
<1>31. CASE DsStopLock
  <2>1. Depth \in Nat /\ UNCHANGED start
    BY <1>31, LenProperties DEF DsStopLock, DsStep, Depth, WaitInv
  <2>2. \/ stop' = stop
        \/ \E manual \in BOOLEAN :
               stop' = [pc |-> "send", crash |-> TRUE, manual |-> manual, by |-> Depth]
    BY <1>31 DEF DsStopLock, SpawnStop
  <2>3. \A manual \in BOOLEAN :
            [pc |-> "send", crash |-> TRUE, manual |-> manual, by |-> Depth]
                \in [pc : StopSteps, crash : BOOLEAN, manual : BOOLEAN, by : Nat]
    BY <2>1
  <2> QED
    BY <2>1, <2>2, <2>3
<1> QED
    BY Zenon, <1>2, <1>3, <1>4, <1>5, <1>6, <1>7, <1>8, <1>9, <1>10, <1>11, <1>12, <1>13,
       <1>14, <1>15, <1>16, <1>17, <1>18, <1>19, <1>20, <1>21, <1>22, <1>23, <1>24, <1>25,
       <1>26, <1>27, <1>28, <1>29, <1>30, <1>31 DEF Next, User, Ui, StartWorker,
       StopWorker, DSCores, Serve, Calls

\* The core, the calls to it and what is said of the system proxy.
LEMMA CoreTypesStep ==
    ASSUME CoreTypes, TypeOK, [Next]_vars
    PROVE  CoreTypes'
<1>1. UNCHANGED <<leftBy, proc, box, orphans, holders, requests, answer>> => CoreTypes'
    BY DEF CoreTypes
<1>2. CASE \/ (\E id \in Profiles : UserStarts(id))
           \/ (\E manual \in BOOLEAN : UserStops(manual)) \/ RestartCore \/ CoreConnects
           \/ CoreAccepted \/ CoreStarted
    BY <1>1, <1>2 DEF UserStarts, UserStops, RestartCore, CoreConnects, CoreAccepted,
       CoreStarted
<1>3. CASE \/ StartGuard \/ StartCheck \/ StartStopCheck \/ StartStopLock \/ StartAwait
           \/ StartCommit \/ StartPublish \/ StartUnlock
    BY <1>1, <1>3 DEF StartGuard, StartCheck, StartGoto, StartStopCheck, StartStopLock,
       StartAwait, StartCommit, StartPublish, StartUnlock
<1>4. CASE StopForget \/ StopClear \/ StopUnlock
    BY <1>1, <1>4 DEF StopForget, StopGoto, StopClear, StopUnlock
<1>5. CASE \/ RunTask \/ TimerFires \/ ExitSeen \/ DsStopCheck \/ DsStopLock \/ ExitRestarts
           \/ ExitTooOften
    BY <1>1, <1>5 DEF RunTask, DsStep, TimerFires, ExitSeen, DsStopCheck, DsStopLock,
       ExitRestarts, ExitTooOften
<1>6. CASE UNCHANGED vars
    BY <1>1, <1>6 DEF vars
<1> USE ProfileAssumption DEF CoreTypes
<1>7. CASE StartEnable
  <2>1. /\ requests' \subseteq Requests
        /\ answer' \in [Workers -> Done \cup {"none", "waiting"}]
    BY <1>7, SendTypes, Shape DEF StartEnable, Ids, Workers
  <2> QED
    BY <1>7, <2>1 DEF StartEnable, StartGoto
<1>8. CASE StartEnabled
    BY <1>8, Shape DEF StartEnabled, StartGoto, Answered, IdleStart, Done, Ids, Requests,
       Workers, Done
<1>9. CASE StartSend
  <2>1. /\ requests' \subseteq Requests
        /\ answer' \in [Workers -> Done \cup {"none", "waiting"}]
    BY <1>9, SendTypes, Shape DEF StartSend, Ids, Workers
  <2> QED
    BY <1>9, <2>1 DEF StartSend, StartGoto
<1>10. CASE StartAnswer
    BY <1>10, Shape DEF StartAnswer, StartGoto, Answered, IdleStart, Done, Ids, Requests,
       Workers, Done
<1>11. CASE StartCommitFails
  <2>1. /\ requests' \subseteq Requests
        /\ answer' \in [Workers -> Done \cup {"none", "waiting"}]
    BY <1>11, SendTypes, Shape DEF StartCommitFails, Ids, Workers
  <2> QED
    BY <1>11, <2>1 DEF StartCommitFails, StartGoto
<1>12. CASE StartUndone
    BY <1>12, Shape DEF StartUndone, StartGoto, Answered, IdleStart, Done, Ids, Requests,
       Workers, Done
<1>13. CASE StartProxy
  <2>1. /\ UNCHANGED <<procVars, answer>>
        /\ leftBy' = leftBy \/ leftBy' = "overtaken start"
    BY <1>13, Zenon DEF StartProxy, StartGoto
  <2> QED
    BY <2>1
<1>14. CASE StartRelease
  <2>1. /\ requests' \subseteq Requests
        /\ answer' \in [Workers -> Done \cup {"none", "waiting"}]
    BY <1>14, SendTypes, Shape DEF StartRelease, Ids, Workers
  <2> QED
    BY <1>14, <2>1 DEF StartRelease, StartGoto
<1>15. CASE StartReleased
    BY <1>15, Shape DEF StartReleased, StartGoto, Answered, IdleStart, Done, Ids, Requests,
       Workers, Done
<1>16. CASE StopSend
  <2>1. /\ requests' \subseteq Requests
        /\ answer' \in [Workers -> Done \cup {"none", "waiting"}]
    BY <1>16, SendTypes, Shape DEF StopSend, Ids, Workers
  <2> QED
    BY <1>16, <2>1 DEF StopSend, StopGoto
<1>17. CASE StopAnswer
  <2>1. leftBy' = leftBy \/ leftBy' = "failed stop"
    BY <1>17 DEF StopAnswer
  <2> QED
    BY <1>17, <2>1, AnswerEffect
<1>18. CASE StopProxy
    BY <1>18 DEF StopProxy, StopGoto, Ids, Requests, Workers
<1>19. CASE KillCore
    BY <1>19 DEF KillCore, Dies, DsStep, Ids, Requests, Workers
<1>20. CASE Restart
    BY <1>20 DEF Restart, Dies, DsStep, Ids, Requests, Workers
<1>21. ASSUME NEW r \in requests, ExecStart(r) PROVE CoreTypes'
  <2>1. PICK result \in {"ok", "error"} : Replies(r, result)
    BY <1>21 DEF ExecStart
  <2>2. r.id \in Ids
    BY Shape DEF Requests
  <2>3. box' \in Ids /\ orphans' \subseteq Profiles /\ holders' = holders
    BY <1>21, <2>2 DEF ExecStart, Ids
  <2> QED
    BY <2>1, <2>3, ReplyTypes
<1>22. ASSUME NEW r \in requests, ExecStop(r) PROVE CoreTypes'
    BY <1>22, Shape DEF ExecStop, Replies, Ids, Requests, Workers, Done
<1>23. ASSUME NEW r \in requests, Enable(r) PROVE CoreTypes'
  <2>1. PICK result \in {"ok", "error"} : Replies(r, result)
    BY <1>23 DEF Enable
  <2>2. /\ holders' \in {holders, holders + 1}
        /\ UNCHANGED <<box, orphans>>
    BY <1>23, Zenon DEF Enable
  <2>3. holders' \in Nat
    <3>1. holders \in Nat
      OBVIOUS
    <3> HIDE DEF CoreTypes
    <3> QED
      BY <2>2, <3>1
  <2> QED
    BY <2>1, <2>2, <2>3, ReplyTypes
<1>24. ASSUME NEW r \in requests, Disable(r) PROVE CoreTypes'
  <2>1. Replies(r, "ok")
    BY <1>24 DEF Disable
  <2>2. /\ holders' = IF holders = 0 THEN 0 ELSE holders - 1
        /\ UNCHANGED <<box, orphans>>
    BY <1>24 DEF Disable
  <2>3. holders' \in Nat
    <3>1. holders \in Nat
      OBVIOUS
    <3> HIDE DEF CoreTypes
    <3> QED
      BY <2>2, <3>1
  <2> QED
    BY <2>1, <2>2, <2>3, ReplyTypes
<1>25. ASSUME NEW w \in Workers, CallFails(w) PROVE CoreTypes'
    BY <1>25, Shape DEF CallFails, Awaited, Ids, Requests, Workers, Done
<1>26. ASSUME NEW w \in Workers, CallTimesOut(w) PROVE CoreTypes'
    BY <1>26, Shape DEF CallTimesOut, Awaited, Ids, Requests, Workers, Done
<1>27. CASE CoreDies
    BY <1>27 DEF CoreDies, Dies, Ids, Requests, Workers
<1> QED
    BY Zenon, <1>2, <1>3, <1>4, <1>5, <1>6, <1>7, <1>8, <1>9, <1>10, <1>11, <1>12, <1>13,
       <1>14, <1>15, <1>16, <1>17, <1>18, <1>19, <1>20, <1>21, <1>22, <1>23, <1>24, <1>25,
       <1>26, <1>27 DEF Next, User, Ui, StartWorker, StopWorker, DSCores, Serve, Calls

\* DS_cores: only the frame that started the stop under way waits.
LEMMA WaitInvStep ==
    ASSUME WaitInv, TypeOK, MutexInv, [Next]_vars
    PROVE  WaitInv'
<1>1. UNCHANGED <<cores, mu_stopping, stop>> => WaitInv'
    BY DEF WaitInv
<1>2. CASE \/ (\E id \in Profiles : UserStarts(id)) \/ RestartCore \/ CoreConnects
           \/ CoreAccepted \/ CoreStarted
    BY <1>1, <1>2 DEF UserStarts, RestartCore, CoreConnects, CoreAccepted, CoreStarted
<1>3. CASE \/ StartGuard \/ StartEnable \/ StartEnabled \/ StartCheck \/ StartStopCheck
           \/ StartAwait \/ StartSend \/ StartAnswer \/ StartCommit \/ StartCommitFails
           \/ StartUndone \/ StartPublish \/ StartProxy \/ StartRelease \/ StartReleased
           \/ StartUnlock
    BY <1>1, <1>3 DEF StartGuard, StartEnable, StartGoto, StartEnabled, StartCheck,
       StartStopCheck, StartAwait, StartSend, StartAnswer, StartCommit, StartCommitFails,
       StartUndone, StartPublish, StartProxy, StartRelease, StartReleased, StartUnlock
<1>4. CASE \/ (\E r \in requests : ExecStart(r)) \/ (\E r \in requests : ExecStop(r))
           \/ (\E r \in requests : Enable(r)) \/ (\E r \in requests : Disable(r))
           \/ (\E w \in Workers : CallFails(w)) \/ (\E w \in Workers : CallTimesOut(w))
           \/ CoreDies
    BY <1>1, <1>4 DEF ExecStart, Replies, ExecStop, Enable, Disable, CallFails,
       CallTimesOut, CoreDies
<1>5. CASE UNCHANGED vars
    BY <1>1, <1>5 DEF vars
<1> USE ProfileAssumption DEF WaitInv, MutexInv
<1>6. ASSUME NEW manual \in BOOLEAN, UserStops(manual) PROVE WaitInv'
    BY <1>6, Shape DEF UserStops, SpawnStop, Waiting
<1>7. CASE StartStopLock
    BY <1>7, Shape DEF StartStopLock, StartGoto, SpawnStop, IdleStart, Waiting
<1>8. CASE StopSend
    BY <1>8 DEF StopSend, StopGoto, Waiting
<1>9. CASE StopAnswer
    BY <1>9, Shape, AnswerEffect DEF Waiting
<1>10. CASE StopProxy
    BY <1>10 DEF StopProxy, StopGoto, Waiting
<1>11. CASE StopForget
    BY <1>11 DEF StopForget, StopGoto, Waiting
<1>12. CASE StopClear
    BY <1>12 DEF StopClear, StopGoto, Waiting
<1>13. CASE StopUnlock
  <2>1. mu_stopping' = FALSE /\ stop'.by = 0 /\ mu_stopping = TRUE
    BY <1>13, Shape DEF StopUnlock, StopGoto, IdleStop
  <2>2. CASE stop.by = 0
    BY <1>13, <2>1, <2>2 DEF StopUnlock, WakeCaller, Waiting
  <2>3. CASE stop.by # 0
    BY <1>13, <2>1, <2>3, OneIsWoken DEF StopUnlock, WakeCaller
  <2> QED
    BY <2>2, <2>3
<1>14. CASE RunTask
  <2>1. PICK f \in Frames : f.pc # "wait" /\ cores' = Append(cores, f)
    BY <1>14 DEF RunTask, Frame, Frames
  <2> QED
    BY <1>14, <2>1, PushWaits DEF RunTask, DsStep
<1>15. CASE TimerFires
  <2>1. PICK f \in Frames : f.pc # "wait" /\ cores' = Append(cores, f)
    BY <1>15 DEF TimerFires, Frame, Frames
  <2> QED
    BY <1>15, <2>1, PushWaits DEF TimerFires, DsStep
<1>16. CASE ExitSeen
  <2>1. cores' = cores \/ \E f \in Frames : f.pc # "wait" /\ cores' = Append(cores, f)
    BY <1>16 DEF ExitSeen, Frame, Frames
  <2> QED
    BY <1>16, <2>1, PushWaits DEF ExitSeen, DsStep
<1>17. CASE DsStopCheck
  <2>1. PICK pc \in {"lock", "stopped"} : cores' = [cores EXCEPT ![Len(cores)].pc = pc]
    BY <1>17 DEF DsStopCheck, TopGoto, Depth
  <2> QED
    BY <1>17, <2>1, TopWaits DEF DsStopCheck, DsStep, Depth, Top
<1>18. CASE DsStopLock
  <2>1. CASE mu_stopping
    <3>1. /\ /\ cores' = [cores EXCEPT ![Len(cores)].pc = "stopped"]
          /\ UNCHANGED <<stop, mu_stopping>>
          /\ Len(cores) > 0 /\ cores[Len(cores)].pc = "lock"
      BY <1>18, <2>1 DEF DsStopLock, TopGoto, Depth, Top
    <3> QED
      BY <3>1, TopWaits
  <2>2. CASE ~mu_stopping
    <3>1. Waiting(cores, FALSE, stop.by)
      BY <2>2 DEF Waiting
    <3>2. /\ cores' = [cores EXCEPT ![Len(cores)].pc = "wait"] /\ Len(cores) > 0
          /\ mu_stopping' = TRUE /\ stop'.by = Len(cores)
      BY <1>18, <2>2 DEF DsStopLock, TopGoto, Depth, SpawnStop
    <3> QED
      BY <3>1, <3>2, StartWaits
  <2> QED
    BY <2>1, <2>2
<1>19. CASE ExitRestarts
  <2>1. /\ Len(cores) > 0 /\ cores[Len(cores)].pc # "wait"
        /\ UNCHANGED <<stop, mu_stopping>>
    BY <1>19 DEF ExitRestarts, TopAt, Frame, Top, Depth
  <2>2. cores' = SubSeq(cores, 1, Len(cores) - 1)
    BY <1>19 DEF ExitRestarts, Pop, Depth
  <2> QED
    BY <2>1, <2>2, PopWaits
<1>20. CASE ExitTooOften
  <2>1. /\ Len(cores) > 0 /\ cores[Len(cores)].pc # "wait"
        /\ UNCHANGED <<stop, mu_stopping>>
    BY <1>20 DEF ExitTooOften, TopAt, Frame, Top, Depth
  <2>2. cores' = SubSeq(cores, 1, Len(cores) - 1)
    BY <1>20 DEF ExitTooOften, Pop, Depth
  <2> QED
    BY <2>1, <2>2, PopWaits
<1>21. CASE KillCore
  <2>1. /\ Len(cores) > 0 /\ cores[Len(cores)].pc # "wait"
        /\ UNCHANGED <<stop, mu_stopping>>
    BY <1>21 DEF KillCore, TopAt, Frame, Top, Depth
  <2> DEFINE rest == SubSeq(cores, 1, Len(cores) - 1)
  <2>2. rest \in Seq(Frames) /\ Waiting(rest, mu_stopping, stop.by)
    BY <2>1, PopWaits
  <2>3. cores' = rest \/ \E f \in Frames : f.pc # "wait" /\ cores' = Append(rest, f)
    BY <1>21 DEF KillCore, Pop, Depth, Frame, Frames
  <2> HIDE DEF rest
  <2> QED
    BY <2>1, <2>2, <2>3, PushWaits
<1>22. CASE Restart
  <2>1. /\ Len(cores) > 0 /\ cores[Len(cores)].pc # "wait"
        /\ UNCHANGED <<stop, mu_stopping>>
    BY <1>22 DEF Restart, TopAt, Frame, Top, Depth
  <2>2. cores' = SubSeq(cores, 1, Len(cores) - 1)
    BY <1>22 DEF Restart, Pop, Depth
  <2> QED
    BY <2>1, <2>2, PopWaits
<1> QED
    BY Zenon, <1>2, <1>3, <1>4, <1>5, <1>6, <1>7, <1>8, <1>9, <1>10, <1>11, <1>12, <1>13,
       <1>14, <1>15, <1>16, <1>17, <1>18, <1>19, <1>20, <1>21, <1>22 DEF Next, User, Ui,
       StartWorker, StopWorker, DSCores, Serve, Calls

\* Every way into a worker takes its mutex, every way out of it gives it back.
LEMMA MutexInvStep ==
    ASSUME MutexInv, TypeOK, [Next]_vars
    PROVE  MutexInv'
<1>1. UNCHANGED <<mu_starting, mu_stopping, start, stop, ui>> => MutexInv'
    BY DEF MutexInv
<1>2. CASE RestartCore
    BY <1>1, <1>2 DEF RestartCore
<1>3. CASE \/ RunTask \/ TimerFires \/ ExitSeen \/ DsStopCheck \/ ExitRestarts \/ ExitTooOften
           \/ KillCore \/ Restart
    BY <1>1, <1>3 DEF RunTask, DsStep, TimerFires, ExitSeen, DsStopCheck, ExitRestarts,
       ExitTooOften, KillCore, Restart
<1>4. CASE \/ (\E r \in requests : ExecStart(r)) \/ (\E r \in requests : ExecStop(r))
           \/ (\E r \in requests : Enable(r)) \/ (\E r \in requests : Disable(r))
           \/ (\E w \in Workers : CallFails(w)) \/ (\E w \in Workers : CallTimesOut(w))
           \/ CoreDies
    BY <1>1, <1>4 DEF ExecStart, Replies, ExecStop, Enable, Disable, CallFails,
       CallTimesOut, CoreDies
<1>5. CASE UNCHANGED vars
    BY <1>1, <1>5 DEF vars
<1> USE ProfileAssumption DEF MutexInv
<1>6. CASE (\E id \in Profiles : UserStarts(id)) \/ CoreStarted
  <2>1. Clicked
    BY <1>6, Clicks
  <2> QED
    BY <2>1, Shape, AwaitedSame DEF Clicked, IdleUi
<1>7. ASSUME NEW manual \in BOOLEAN, UserStops(manual) PROVE MutexInv'
    BY <1>7, Shape DEF UserStops, SpawnStop
<1>8. CASE CoreConnects
    BY <1>8 DEF CoreConnects
<1>9. CASE CoreAccepted
    BY <1>9, Shape DEF CoreAccepted, IdleUi
<1>10. CASE StartGuard
    BY <1>10 DEF StartGuard
<1>11. CASE StartEnable
    BY <1>11 DEF StartEnable, StartGoto
<1>12. CASE StartEnabled
    BY <1>12 DEF StartEnabled, StartGoto
<1>13. CASE StartCheck
    BY <1>13 DEF StartCheck, StartGoto
<1>14. CASE StartStopCheck
    BY <1>14 DEF StartStopCheck, StartGoto
<1>15. CASE StartStopLock
    BY <1>15, Shape DEF StartStopLock, StartGoto, SpawnStop, IdleStart
<1>16. CASE StartAwait
    BY <1>16 DEF StartAwait, StartGoto
<1>17. CASE StartSend
    BY <1>17 DEF StartSend, StartGoto
<1>18. CASE StartAnswer
    BY <1>18 DEF StartAnswer, StartGoto
<1>19. CASE StartCommit
    BY <1>19 DEF StartCommit, StartGoto
<1>20. CASE StartCommitFails
    BY <1>20 DEF StartCommitFails, StartGoto
<1>21. CASE StartUndone
    BY <1>21 DEF StartUndone, StartGoto
<1>22. CASE StartPublish
    BY <1>22 DEF StartPublish, StartGoto
<1>23. CASE StartProxy
    BY <1>23, Shape, ProxyEffect
<1>24. CASE StartRelease
    BY <1>24 DEF StartRelease, StartGoto
<1>25. CASE StartReleased
    BY <1>25 DEF StartReleased, StartGoto
<1>26. CASE StartUnlock
    BY <1>26 DEF StartUnlock, StartGoto, IdleStart
<1>27. CASE StopSend
    BY <1>27 DEF StopSend, StopGoto
<1>28. CASE StopAnswer
    BY <1>28, Shape, AnswerEffect DEF Done
<1>29. CASE StopProxy
    BY <1>29 DEF StopProxy, StopGoto
<1>30. CASE StopForget
    BY <1>30 DEF StopForget, StopGoto
<1>31. CASE StopClear
    BY <1>31 DEF StopClear, StopGoto
<1>32. CASE StopUnlock
    BY <1>32 DEF StopUnlock, StopGoto, IdleStop
<1>33. CASE DsStopLock
    BY <1>33, Shape DEF DsStopLock, Depth, Top, TopGoto, SpawnStop, DsStep
<1> QED
    BY Zenon, <1>2, <1>3, <1>4, <1>5, <1>6, <1>7, <1>8, <1>9, <1>10, <1>11, <1>12, <1>13,
       <1>14, <1>15, <1>16, <1>17, <1>18, <1>19, <1>20, <1>21, <1>22, <1>23, <1>24, <1>25,
       <1>26, <1>27, <1>28, <1>29, <1>30, <1>31, <1>32, <1>33 DEF Next, User, Ui,
       StartWorker, StopWorker, DSCores, Serve, Calls

\* A worker makes its next call only when the last one was answered or given up on.
LEMMA CallInvStep ==
    ASSUME CallInv, TypeOK, MutexInv, AloneInv, [Next]_vars
    PROVE  CallInv'
<1>1. UNCHANGED <<answer, requests, start, stop, lost>> => CallInv'
    BY DEF CallInv, Calling, AskedByStart, AskedByStop
<1>2. CASE RestartCore \/ CoreConnects \/ CoreAccepted
    BY <1>1, <1>2 DEF RestartCore, CoreConnects, CoreAccepted
<1>3. CASE RunTask \/ TimerFires \/ ExitSeen \/ DsStopCheck \/ ExitRestarts \/ ExitTooOften
    BY <1>1, <1>3 DEF RunTask, DsStep, TimerFires, ExitSeen, DsStopCheck, ExitRestarts,
       ExitTooOften
<1>4. CASE UNCHANGED vars
    BY <1>1, <1>4 DEF vars
<1> USE ProfileAssumption DEF CallInv, Calling, AskedByStart, AskedByStop, MutexInv,
        AloneInv
<1>5. CASE (\E id \in Profiles : UserStarts(id)) \/ CoreStarted
  <2>1. Clicked
    BY <1>5, Clicks
  <2> QED
    BY <2>1, Shape, AwaitedSame DEF Clicked, IdleUi
<1>6. ASSUME NEW manual \in BOOLEAN, UserStops(manual) PROVE CallInv'
    BY <1>6, Shape DEF UserStops, SpawnStop
<1>7. CASE StartGuard
    BY <1>7 DEF StartGuard
<1>8. CASE StartEnable
  <2>1. answer["start"] = "none"
    BY <1>8, Shape DEF StartEnable, StartGoto, Workers
  <2>2. CASE start.guarded
    <3>1. Send("start", "Enable", None)
      BY <1>8, <2>2 DEF StartEnable
    <3> QED
      BY <1>8, <2>1, <2>2, <3>1, StartAsks, Shape DEF StartEnable, StartGoto
  <2>3. CASE ~start.guarded
    BY <1>8, <2>3, Shape DEF StartEnable, StartGoto
  <2> QED
    BY <2>2, <2>3
<1>9. CASE StartEnabled
    BY <1>9, Shape DEF StartEnabled, StartGoto, Answered, IdleStart, Done, Workers
<1>10. CASE StartCheck
    BY <1>10 DEF StartCheck, StartGoto
<1>11. CASE StartStopCheck
    BY <1>11 DEF StartStopCheck, StartGoto
<1>12. CASE StartStopLock
    BY <1>12, Shape DEF StartStopLock, StartGoto, SpawnStop, IdleStart
<1>13. CASE StartAwait
    BY <1>13 DEF StartAwait, StartGoto
<1>14. CASE StartSend
  <2>1. answer["start"] = "none"
    BY <1>14, Shape DEF StartSend, StartGoto, Workers
  <2>2. Send("start", "Start", start.id)
    BY <1>14 DEF StartSend
  <2> QED
    BY <1>14, <2>1, <2>2, StartAsks, Shape DEF StartSend, StartGoto
<1>15. CASE StartAnswer
    BY <1>15, Shape DEF StartAnswer, StartGoto, Answered, IdleStart, Done, Workers
<1>16. CASE StartCommit
    BY <1>16 DEF StartCommit, StartGoto
<1>17. CASE StartCommitFails
  <2>1. answer["start"] = "none"
    BY <1>17, Shape DEF StartCommitFails, StartGoto, Workers
  <2>2. Send("start", "Stop", None)
    BY <1>17 DEF StartCommitFails
  <2> QED
    BY <1>17, <2>1, <2>2, StartAsks, Shape DEF StartCommitFails, StartGoto
<1>18. CASE StartUndone
    BY <1>18, Shape DEF StartUndone, StartGoto, Answered, IdleStart, Done, Workers
<1>19. CASE StartPublish
    BY <1>19 DEF StartPublish, StartGoto
<1>20. CASE StartProxy
    BY <1>20, Shape, ProxyEffect
<1>21. CASE StartRelease
  <2>1. answer["start"] = "none"
    BY <1>21, Shape DEF StartRelease, StartGoto, Workers
  <2>2. CASE start.guarded
    <3>1. Send("start", "Disable", None)
      BY <1>21, <2>2 DEF StartRelease
    <3> QED
      BY <1>21, <2>1, <2>2, <3>1, StartAsks, Shape DEF StartRelease, StartGoto
  <2>3. CASE ~start.guarded
    BY <1>21, <2>3, Shape DEF StartRelease, StartGoto
  <2> QED
    BY <2>2, <2>3
<1>22. CASE StartReleased
    BY <1>22, Shape DEF StartReleased, StartGoto, Answered, IdleStart, Done, Workers
<1>23. CASE StartUnlock
    BY <1>23 DEF StartUnlock, StartGoto, IdleStart
<1>24. CASE StopSend
  <2>1. answer["stop"] = "none"
    BY <1>24, Shape DEF StopSend, StopGoto
  <2>2. CASE ~stop.crash
    <3>1. Send("stop", "Stop", None)
      BY <1>24, <2>2 DEF StopSend
    <3> QED
      BY <1>24, <2>1, <2>2, <3>1, StopAsks, Shape DEF StopSend, StopGoto
  <2>3. CASE stop.crash
    BY <1>24, <2>3, Shape DEF StopSend, StopGoto
  <2> QED
    BY <2>2, <2>3
<1>25. CASE StopAnswer
  <2>1. \A s \in requests : s.live => s.from = "start" /\ answer'[s.from] = answer[s.from]
    BY <1>25, AnswerEffect, Shape DEF Requests, Workers, Done
  <2>2. /\ answer'["stop"] = "none"
        /\ answer'["start"] = answer["start"]
        /\ stop'.pc # "answer"
    BY <1>25, AnswerEffect, Shape DEF Workers
  <2> QED
    BY <1>25, <2>1, <2>2, AnswerEffect
<1>26. CASE StopProxy
    BY <1>26 DEF StopProxy, StopGoto
<1>27. CASE StopForget
    BY <1>27 DEF StopForget, StopGoto
<1>28. CASE StopClear
    BY <1>28, Shape DEF StopClear, StopGoto
<1>29. CASE StopUnlock
    BY <1>29 DEF StopUnlock, StopGoto, IdleStop
<1>30. CASE DsStopLock
    BY <1>30, Shape DEF DsStopLock, Depth, Top, TopGoto, SpawnStop, DsStep
<1>31. CASE KillCore
    BY <1>31 DEF KillCore, Dies, DsStep
<1>32. CASE Restart
    BY <1>32 DEF Restart, Dies, DsStep
<1>33. ASSUME NEW r \in requests, ExecStart(r) PROVE CallInv'
    BY <1>33, AnswerKeepsCalls DEF ExecStart
<1>34. ASSUME NEW r \in requests, ExecStop(r) PROVE CallInv'
    BY <1>34, AnswerKeepsCalls DEF ExecStop
<1>35. ASSUME NEW r \in requests, Enable(r) PROVE CallInv'
    BY <1>35, AnswerKeepsCalls DEF Enable
<1>36. ASSUME NEW r \in requests, Disable(r) PROVE CallInv'
    BY <1>36, AnswerKeepsCalls DEF Disable
<1>37. ASSUME NEW w \in Workers, CallFails(w) PROVE CallInv'
    BY <1>37, Shape DEF CallFails, Awaited
<1>38. ASSUME NEW w \in Workers, CallTimesOut(w) PROVE CallInv'
    BY <1>38, LostCallKeepsCalls
<1>39. CASE CoreDies
    BY <1>39 DEF CoreDies, Dies
<1> QED
    BY Zenon, <1>2, <1>3, <1>4, <1>5, <1>6, <1>7, <1>8, <1>9, <1>10, <1>11, <1>12, <1>13,
       <1>14, <1>15, <1>16, <1>17, <1>18, <1>19, <1>20, <1>21, <1>22, <1>23, <1>24, <1>25,
       <1>26, <1>27, <1>28, <1>29, <1>30, <1>31, <1>32, <1>33, <1>34, <1>35, <1>36, <1>37,
       <1>38, <1>39 DEF Next, User, Ui, StartWorker, StopWorker, DSCores, Serve, Calls

\* A process that is connected anew has nothing of the one before it.
LEMMA AloneInvStep ==
    ASSUME AloneInv, TypeOK, [Next]_vars
    PROVE  AloneInv'
<1>1. UNCHANGED <<proc, connected, requests, box, orphans, holders, startedHere,
                  armed>> => AloneInv'
    BY DEF AloneInv
<1>2. CASE \/ (\E id \in Profiles : UserStarts(id))
           \/ (\E manual \in BOOLEAN : UserStops(manual)) \/ RestartCore \/ CoreAccepted
           \/ CoreStarted
    BY <1>1, <1>2 DEF UserStarts, UserStops, RestartCore, CoreAccepted, CoreStarted
<1>3. CASE \/ StartGuard \/ StartEnabled \/ StartCheck \/ StartStopCheck \/ StartStopLock
           \/ StartAwait \/ StartAnswer \/ StartCommit \/ StartUndone \/ StartPublish
           \/ StartProxy \/ StartReleased \/ StartUnlock
    BY <1>1, <1>3 DEF StartGuard, StartEnabled, StartGoto, StartCheck, StartStopCheck,
       StartStopLock, StartAwait, StartAnswer, StartCommit, StartUndone, StartPublish,
       StartProxy, StartReleased, StartUnlock
<1>4. CASE StopAnswer \/ StopProxy \/ StopForget \/ StopClear \/ StopUnlock
    BY <1>1, <1>4 DEF StopAnswer, StopGoto, StopProxy, StopForget, StopClear, StopUnlock
<1>5. CASE \/ RunTask \/ TimerFires \/ ExitSeen \/ DsStopCheck \/ DsStopLock \/ ExitRestarts
           \/ ExitTooOften
    BY <1>1, <1>5 DEF RunTask, DsStep, TimerFires, ExitSeen, DsStopCheck, DsStopLock,
       ExitRestarts, ExitTooOften
<1>6. CASE (\E w \in Workers : CallFails(w))
    BY <1>1, <1>6 DEF CallFails
<1>7. CASE UNCHANGED vars
    BY <1>1, <1>7 DEF vars
<1> USE ProfileAssumption DEF AloneInv
<1>8. CASE CoreConnects
    BY <1>8 DEF CoreConnects
<1>9. CASE StartEnable
    BY <1>9, Shape DEF StartEnable, StartGoto, Send, IdleStart
<1>10. CASE StartSend
    BY <1>10, Shape DEF StartSend, StartGoto, Send, IdleStart
<1>11. CASE StartCommitFails
    BY <1>11, Shape DEF StartCommitFails, StartGoto, Send, IdleStart
<1>12. CASE StartRelease
    BY <1>12, Shape DEF StartRelease, StartGoto, Send, IdleStart
<1>13. CASE StopSend
    BY <1>13, Shape DEF StopSend, StopGoto, Send, IdleStop
<1>14. CASE KillCore
    BY <1>14 DEF KillCore, Dies, DsStep
<1>15. CASE Restart
    BY <1>15 DEF Restart, Dies, DsStep
<1>16. ASSUME NEW r \in requests, ExecStart(r) PROVE AloneInv'
    BY <1>16 DEF ExecStart, Replies
<1>17. ASSUME NEW r \in requests, ExecStop(r) PROVE AloneInv'
    BY <1>17 DEF ExecStop, Replies
<1>18. ASSUME NEW r \in requests, Enable(r) PROVE AloneInv'
    BY <1>18 DEF Enable, Replies
<1>19. ASSUME NEW r \in requests, Disable(r) PROVE AloneInv'
    BY <1>19 DEF Disable, Replies
<1>20. ASSUME NEW w \in Workers, CallTimesOut(w) PROVE AloneInv'
    BY <1>20, Shape DEF CallTimesOut, Awaited
<1>21. CASE CoreDies
    BY <1>21 DEF CoreDies, Dies
<1> QED
    BY Zenon, <1>2, <1>3, <1>4, <1>5, <1>6, <1>7, <1>8, <1>9, <1>10, <1>11, <1>12, <1>13,
       <1>14, <1>15, <1>16, <1>17, <1>18, <1>19, <1>20, <1>21 DEF Next, User, Ui,
       StartWorker, StopWorker, DSCores, Serve, Calls

\* A start lets the stop it asked for go first, and a stop that came in between has cleared
\* running before it gives its mutex back.
LEMMA TurnInvStep ==
    ASSUME TurnInv, TypeOK, MutexInv, [Next]_vars
    PROVE  TurnInv'
<1>1. UNCHANGED <<running, start, stop>> => TurnInv'
    BY DEF TurnInv, Underway, Before, StopSteps
<1>2. CASE RestartCore \/ CoreConnects \/ CoreAccepted
    BY <1>1, <1>2 DEF RestartCore, CoreConnects, CoreAccepted
<1>3. CASE \/ RunTask \/ TimerFires \/ ExitSeen \/ DsStopCheck \/ ExitRestarts \/ ExitTooOften
           \/ KillCore \/ Restart
    BY <1>1, <1>3 DEF RunTask, DsStep, TimerFires, ExitSeen, DsStopCheck, ExitRestarts,
       ExitTooOften, KillCore, Restart
<1>4. CASE \/ (\E r \in requests : ExecStart(r)) \/ (\E r \in requests : ExecStop(r))
           \/ (\E r \in requests : Enable(r)) \/ (\E r \in requests : Disable(r))
           \/ (\E w \in Workers : CallFails(w)) \/ (\E w \in Workers : CallTimesOut(w))
           \/ CoreDies
    BY <1>1, <1>4 DEF ExecStart, Replies, ExecStop, Enable, Disable, CallFails,
       CallTimesOut, CoreDies
<1>5. CASE UNCHANGED vars
    BY <1>1, <1>5 DEF vars
<1> USE ProfileAssumption DEF TurnInv, Underway, Before, StopSteps, MutexInv
<1>6. CASE (\E id \in Profiles : UserStarts(id)) \/ CoreStarted
  <2>1. Clicked
    BY <1>6, Clicks
  <2> QED
    BY <2>1, Shape, AwaitedSame DEF Clicked, IdleUi
<1>7. ASSUME NEW manual \in BOOLEAN, UserStops(manual) PROVE TurnInv'
    BY <1>7, Shape DEF UserStops, SpawnStop
<1>8. CASE StartGuard
    BY <1>8 DEF StartGuard
<1>9. CASE StartEnable
    BY <1>9 DEF StartEnable, StartGoto
<1>10. CASE StartEnabled
    BY <1>10 DEF StartEnabled, StartGoto
<1>11. CASE StartCheck
    BY <1>11 DEF StartCheck, StartGoto
<1>12. CASE StartStopCheck
    BY <1>12 DEF StartStopCheck, StartGoto
<1>13. CASE StartStopLock
    BY <1>13, Shape DEF StartStopLock, StartGoto, SpawnStop, IdleStart
<1>14. CASE StartAwait
    BY <1>14 DEF StartAwait, StartGoto
<1>15. CASE StartSend
    BY <1>15 DEF StartSend, StartGoto
<1>16. CASE StartAnswer
    BY <1>16 DEF StartAnswer, StartGoto
<1>17. CASE StartCommit
    BY <1>17 DEF StartCommit, StartGoto
<1>18. CASE StartCommitFails
    BY <1>18 DEF StartCommitFails, StartGoto
<1>19. CASE StartUndone
    BY <1>19 DEF StartUndone, StartGoto
<1>20. CASE StartPublish
    BY <1>20 DEF StartPublish, StartGoto
<1>21. CASE StartProxy
    BY <1>21, Shape, ProxyEffect
<1>22. CASE StartRelease
    BY <1>22 DEF StartRelease, StartGoto
<1>23. CASE StartReleased
    BY <1>23 DEF StartReleased, StartGoto
<1>24. CASE StartUnlock
    BY <1>24 DEF StartUnlock, StartGoto, IdleStart
<1>25. CASE StopSend
    BY <1>25 DEF StopSend, StopGoto
<1>26. CASE StopAnswer
    BY <1>26, Shape, AnswerEffect DEF Done
<1>27. CASE StopProxy
    BY <1>27 DEF StopProxy, StopGoto
<1>28. CASE StopForget
    BY <1>28 DEF StopForget, StopGoto
<1>29. CASE StopClear
    BY <1>29 DEF StopClear, StopGoto
<1>30. CASE StopUnlock
    BY <1>30 DEF StopUnlock, StopGoto, IdleStop
<1>31. CASE DsStopLock
    BY <1>31, Shape DEF DsStopLock, Depth, Top, TopGoto, SpawnStop, DsStep
<1> QED
    BY Zenon, <1>2, <1>3, <1>4, <1>5, <1>6, <1>7, <1>8, <1>9, <1>10, <1>11, <1>12, <1>13,
       <1>14, <1>15, <1>16, <1>17, <1>18, <1>19, <1>20, <1>21, <1>22, <1>23, <1>24, <1>25,
       <1>26, <1>27, <1>28, <1>29, <1>30, <1>31 DEF Next, User, Ui, StartWorker,
       StopWorker, DSCores, Serve, Calls

\* What Start publishes belongs to the start that waits for it, and is shown, undone or
\* stopped.
LEMMA BoxInvStep ==
    ASSUME BoxInv, TypeOK, MutexInv, CallInv, AloneInv, TurnInv, StopInv, [Next]_vars
    PROVE  BoxInv'
<1>1. UNCHANGED <<lost, box, running, start, requests, answer>> => BoxInv'
    BY AwaitedSame DEF BoxInv, Shown, Undoing, Calling
<1>2. CASE \/ (\E manual \in BOOLEAN : UserStops(manual)) \/ RestartCore \/ CoreConnects
           \/ CoreAccepted
    BY <1>1, <1>2 DEF UserStops, RestartCore, CoreConnects, CoreAccepted
<1>3. CASE StopProxy \/ StopForget \/ StopUnlock
    BY <1>1, <1>3 DEF StopProxy, StopGoto, StopForget, StopUnlock
<1>4. CASE \/ RunTask \/ TimerFires \/ ExitSeen \/ DsStopCheck \/ DsStopLock \/ ExitRestarts
           \/ ExitTooOften
    BY <1>1, <1>4 DEF RunTask, DsStep, TimerFires, ExitSeen, DsStopCheck, DsStopLock,
       ExitRestarts, ExitTooOften
<1>5. CASE UNCHANGED vars
    BY <1>1, <1>5 DEF vars
<1> USE ProfileAssumption DEF BoxInv, Shown, Undoing, Calling, MutexInv, CallInv, AloneInv,
        TurnInv, StopInv
<1>6. CASE (\E id \in Profiles : UserStarts(id)) \/ CoreStarted
  <2>1. Clicked
    BY <1>6, Clicks
  <2> QED
    BY <2>1, Shape, AwaitedSame DEF Clicked, IdleUi
<1>7. CASE StartGuard
    BY <1>7 DEF StartGuard
<1>8. CASE StartEnable
    BY <1>8, SendEffect DEF StartEnable, StartGoto, IdleStart, Workers
<1>9. CASE StartEnabled
    BY <1>9 DEF StartEnabled, StartGoto
<1>10. CASE StartCheck
    BY <1>10 DEF StartCheck, StartGoto
<1>11. CASE StartStopCheck
    BY <1>11 DEF StartStopCheck, StartGoto
<1>12. CASE StartStopLock
    BY <1>12 DEF StartStopLock, StartGoto
<1>13. CASE StartAwait
    BY <1>13 DEF StartAwait, StartGoto
<1>14. CASE StartSend
    BY <1>14, SendEffect DEF StartSend, StartGoto, IdleStart, Workers
<1>15. CASE StartAnswer
    BY <1>15 DEF StartAnswer, StartGoto
<1>16. CASE StartCommit
    BY <1>16 DEF StartCommit, StartGoto
<1>17. CASE StartCommitFails
    BY <1>17, SendEffect DEF StartCommitFails, StartGoto, IdleStart, Workers
<1>18. CASE StartUndone
    BY <1>18, Shape, Awaits, AwaitedSame DEF StartUndone, StartGoto, Answered, IdleStart,
       Done
<1>19. CASE StartPublish
    BY <1>19 DEF StartPublish, StartGoto
<1>20. CASE StartProxy
    BY <1>20, ProxyEffect
<1>21. CASE StartRelease
    BY <1>21, SendEffect DEF StartRelease, StartGoto, IdleStart, Workers
<1>22. CASE StartReleased
    BY <1>22 DEF StartReleased, StartGoto
<1>23. CASE StartUnlock
    BY <1>23 DEF StartUnlock, StartGoto, IdleStart
<1>24. CASE StopSend
  <2>1. Awaited("start")' = Awaited("start") /\ answer'["start"] = answer["start"]
    BY <1>24, SendEffect, AwaitedSame DEF StopSend, Workers
  <2> QED
    BY <1>24, <2>1, Shape DEF StopSend, StopGoto, IdleStop
<1>25. CASE StopAnswer
  <2>1. Awaited("start")' = Awaited("start") /\ answer'["start"] = answer["start"]
    BY <1>25, AnswerEffect, AwaitedSame, Shape DEF Workers
  <2> QED
    BY <1>25, <2>1, Shape, AnswerEffect
<1>26. CASE StopClear
  <2>1. ~lost' => box = None
    BY <1>26, Shape DEF StopClear, StopGoto, StopInv, Stopped
  <2> QED
    BY <1>26, <2>1 DEF StopClear, StopGoto
<1>27. CASE KillCore
    BY <1>27 DEF KillCore, Dies, DsStep
<1>28. CASE Restart
    BY <1>28 DEF Restart, Dies, DsStep
<1>29. ASSUME NEW r \in requests, ExecStart(r) PROVE BoxInv'
    BY <1>29, StartServed DEF OnlyStartAnswered, OnlyStopAnswered
<1>30. ASSUME NEW r \in requests, ExecStop(r) PROVE BoxInv'
    BY <1>30, StopServed DEF OnlyStartAnswered, OnlyStopAnswered
<1>31. ASSUME NEW r \in requests, Enable(r) PROVE BoxInv'
    BY <1>31, EnableServed DEF OnlyStartAnswered, OnlyStopAnswered
<1>32. ASSUME NEW r \in requests, Disable(r) PROVE BoxInv'
    BY <1>32, DisableServed DEF OnlyStartAnswered, OnlyStopAnswered
<1>33. ASSUME NEW w \in Workers, CallFails(w) PROVE BoxInv'
    BY <1>33, Shape, Awaits, AwaitedSame DEF CallFails
<1>34. ASSUME NEW w \in Workers, CallTimesOut(w) PROVE BoxInv'
    BY <1>34 DEF CallTimesOut
<1>35. CASE CoreDies
    BY <1>35 DEF CoreDies, Dies
<1> QED
    BY Zenon, <1>2, <1>3, <1>4, <1>5, <1>6, <1>7, <1>8, <1>9, <1>10, <1>11, <1>12, <1>13,
       <1>14, <1>15, <1>16, <1>17, <1>18, <1>19, <1>20, <1>21, <1>22, <1>23, <1>24, <1>25,
       <1>26, <1>27, <1>28, <1>29, <1>30, <1>31, <1>32, <1>33, <1>34, <1>35 DEF Next, User,
       Ui, StartWorker, StopWorker, DSCores, Serve, Calls

\* While a stop on request is under way nothing is started.
LEMMA StopInvStep ==
    ASSUME StopInv, TypeOK, MutexInv, CallInv, AloneInv, TurnInv, BoxInv, [Next]_vars
    PROVE  StopInv'
<1>1. UNCHANGED <<lost, stop, requests, box, answer>> => StopInv'
    BY AwaitedSame DEF StopInv, Stopped, Underway
<1>2. CASE \/ (\E id \in Profiles : UserStarts(id)) \/ RestartCore \/ CoreConnects
           \/ CoreAccepted \/ CoreStarted
    BY <1>1, <1>2 DEF UserStarts, RestartCore, CoreConnects, CoreAccepted, CoreStarted
<1>3. CASE \/ StartGuard \/ StartCheck \/ StartStopCheck \/ StartAwait \/ StartCommit
           \/ StartPublish \/ StartProxy \/ StartUnlock
    BY <1>1, <1>3 DEF StartGuard, StartCheck, StartGoto, StartStopCheck, StartAwait,
       StartCommit, StartPublish, StartProxy, StartUnlock
<1>4. CASE RunTask \/ TimerFires \/ ExitSeen \/ DsStopCheck \/ ExitRestarts \/ ExitTooOften
    BY <1>1, <1>4 DEF RunTask, DsStep, TimerFires, ExitSeen, DsStopCheck, ExitRestarts,
       ExitTooOften
<1>5. CASE UNCHANGED vars
    BY <1>1, <1>5 DEF vars
<1> USE ProfileAssumption DEF StopInv, Stopped, Underway, MutexInv, CallInv, AloneInv,
        TurnInv, BoxInv
<1>6. ASSUME NEW manual \in BOOLEAN, UserStops(manual) PROVE StopInv'
    BY <1>6, Shape, Awaits, AwaitedSame DEF UserStops, SpawnStop
<1>7. CASE StartEnable
  <2>1. Awaited("stop")' = Awaited("stop") /\ answer'["stop"] = answer["stop"]
    BY <1>7, SendEffect, AwaitedSame DEF StartEnable, Workers
  <2> QED
    BY <1>7, <2>1, Shape DEF StartEnable, StartGoto
<1>8. CASE StartEnabled
    BY <1>8, Shape, Awaits, AwaitedSame DEF StartEnabled, StartGoto
<1>9. CASE StartStopLock
    BY <1>9, Shape, Awaits, AwaitedSame DEF StartStopLock, StartGoto, SpawnStop, IdleStart
<1>10. CASE StartSend
    BY <1>10, SendEffect DEF StartSend, StartGoto, IdleStart, Workers
<1>11. CASE StartAnswer
    BY <1>11 DEF StartAnswer, StartGoto
<1>12. CASE StartCommitFails
    BY <1>12, SendEffect DEF StartCommitFails, StartGoto, IdleStart, Workers
<1>13. CASE StartUndone
    BY <1>13 DEF StartUndone, StartGoto
<1>14. CASE StartRelease
  <2>1. Awaited("stop")' = Awaited("stop") /\ answer'["stop"] = answer["stop"]
    BY <1>14, SendEffect, AwaitedSame DEF StartRelease, Workers
  <2> QED
    BY <1>14, <2>1, Shape DEF StartRelease, StartGoto
<1>15. CASE StartReleased
    BY <1>15, Shape, Awaits, AwaitedSame DEF StartReleased, StartGoto
<1>16. CASE StopSend
    BY <1>16, SendEffect DEF StopSend, StopGoto, IdleStop, Workers
<1>17. CASE StopAnswer
    BY <1>17, Shape, Awaits, AwaitedSame, AnswerEffect DEF Done
<1>18. CASE StopProxy
    BY <1>18 DEF StopProxy, StopGoto
<1>19. CASE StopForget
    BY <1>19 DEF StopForget, StopGoto
<1>20. CASE StopClear
    BY <1>20 DEF StopClear, StopGoto
<1>21. CASE StopUnlock
    BY <1>21 DEF StopUnlock, StopGoto, IdleStop
<1>22. CASE DsStopLock
    BY <1>22, Shape, Awaits, AwaitedSame DEF DsStopLock, Depth, Top, TopGoto, SpawnStop,
       DsStep
<1>23. CASE KillCore
    BY <1>23 DEF KillCore, Dies, DsStep
<1>24. CASE Restart
    BY <1>24 DEF Restart, Dies, DsStep
<1>25. ASSUME NEW r \in requests, ExecStart(r) PROVE StopInv'
    BY <1>25, StartServed DEF OnlyStartAnswered, OnlyStopAnswered
<1>26. ASSUME NEW r \in requests, ExecStop(r) PROVE StopInv'
    BY <1>26, StopServed DEF OnlyStartAnswered, OnlyStopAnswered
<1>27. ASSUME NEW r \in requests, Enable(r) PROVE StopInv'
    BY <1>27, EnableServed DEF OnlyStartAnswered, OnlyStopAnswered
<1>28. ASSUME NEW r \in requests, Disable(r) PROVE StopInv'
    BY <1>28, DisableServed DEF OnlyStartAnswered, OnlyStopAnswered
<1>29. ASSUME NEW w \in Workers, CallFails(w) PROVE StopInv'
    BY <1>29, Shape, Awaits, AwaitedSame DEF CallFails
<1>30. ASSUME NEW w \in Workers, CallTimesOut(w) PROVE StopInv'
    BY <1>30 DEF CallTimesOut
<1>31. CASE CoreDies
    BY <1>31 DEF CoreDies, Dies
<1> QED
    BY Zenon, <1>2, <1>3, <1>4, <1>5, <1>6, <1>7, <1>8, <1>9, <1>10, <1>11, <1>12, <1>13,
       <1>14, <1>15, <1>16, <1>17, <1>18, <1>19, <1>20, <1>21, <1>22, <1>23, <1>24, <1>25,
       <1>26, <1>27, <1>28, <1>29, <1>30, <1>31 DEF Next, User, Ui, StartWorker,
       StopWorker, DSCores, Serve, Calls

\* What is shown stays what runs until a stop has asked for its end.
LEMMA MatchInvStep ==
    ASSUME MatchInv, TypeOK, MutexInv, CallInv, AloneInv, TurnInv, BoxInv, StopInv,
           [Next]_vars
    PROVE  MatchInv'
<1>1. UNCHANGED <<startedHere, lost, box, start, running, stop, answer>> => MatchInv'
    BY DEF MatchInv, Shown, Underway
<1>2. CASE RestartCore \/ CoreConnects \/ CoreAccepted
    BY <1>1, <1>2 DEF RestartCore, CoreConnects, CoreAccepted
<1>3. CASE RunTask \/ TimerFires \/ ExitSeen \/ DsStopCheck \/ ExitRestarts \/ ExitTooOften
    BY <1>1, <1>3 DEF RunTask, DsStep, TimerFires, ExitSeen, DsStopCheck, ExitRestarts,
       ExitTooOften
<1>4. CASE UNCHANGED vars
    BY <1>1, <1>4 DEF vars
<1> USE ProfileAssumption DEF MatchInv, Shown, Underway, MutexInv, CallInv, AloneInv,
        TurnInv, BoxInv, StopInv
<1>5. CASE (\E id \in Profiles : UserStarts(id)) \/ CoreStarted
  <2>1. Clicked
    BY <1>5, Clicks
  <2> QED
    BY <2>1, Shape, AwaitedSame DEF Clicked, IdleUi
<1>6. ASSUME NEW manual \in BOOLEAN, UserStops(manual) PROVE MatchInv'
    BY <1>6 DEF UserStops
<1>7. CASE StartGuard
    BY <1>7 DEF StartGuard
<1>8. CASE StartEnable
    BY <1>8, SendEffect DEF StartEnable, StartGoto, IdleStart, Workers
<1>9. CASE StartEnabled
    BY <1>9 DEF StartEnabled, StartGoto
<1>10. CASE StartCheck
    BY <1>10 DEF StartCheck, StartGoto
<1>11. CASE StartStopCheck
    BY <1>11 DEF StartStopCheck, StartGoto
<1>12. CASE StartStopLock
    BY <1>12, Shape DEF StartStopLock, StartGoto
<1>13. CASE StartAwait
    BY <1>13 DEF StartAwait, StartGoto
<1>14. CASE StartSend
    BY <1>14, SendEffect DEF StartSend, StartGoto, IdleStart, Workers
<1>15. CASE StartAnswer
    BY <1>15 DEF StartAnswer, StartGoto
<1>16. CASE StartCommit
    BY <1>16 DEF StartCommit, StartGoto
<1>17. CASE StartCommitFails
    BY <1>17, SendEffect DEF StartCommitFails, StartGoto, IdleStart, Workers
<1>18. CASE StartUndone
    BY <1>18 DEF StartUndone, StartGoto
<1>19. CASE StartPublish
    BY <1>19 DEF StartPublish, StartGoto
<1>20. CASE StartProxy
    BY <1>20, Shape, ProxyEffect
<1>21. CASE StartRelease
    BY <1>21, SendEffect DEF StartRelease, StartGoto, IdleStart, Workers
<1>22. CASE StartReleased
    BY <1>22 DEF StartReleased, StartGoto
<1>23. CASE StartUnlock
    BY <1>23 DEF StartUnlock, StartGoto, IdleStart
<1>24. CASE StopSend
    BY <1>24, SendEffect DEF StopSend, StopGoto, IdleStop, Workers
<1>25. CASE StopAnswer
    BY <1>25, Shape, AnswerEffect DEF Done
<1>26. CASE StopProxy
    BY <1>26 DEF StopProxy, StopGoto
<1>27. CASE StopForget
    BY <1>27 DEF StopForget, StopGoto
<1>28. CASE StopClear
    BY <1>28 DEF StopClear, StopGoto
<1>29. CASE StopUnlock
    BY <1>29 DEF StopUnlock, StopGoto, IdleStop
<1>30. CASE DsStopLock
    BY <1>30 DEF DsStopLock, DsStep
<1>31. CASE KillCore
    BY <1>31 DEF KillCore, Dies, DsStep
<1>32. CASE Restart
    BY <1>32 DEF Restart, Dies, DsStep
<1>33. ASSUME NEW r \in requests, ExecStart(r) PROVE MatchInv'
    BY <1>33, StartServed DEF OnlyStartAnswered, OnlyStopAnswered
<1>34. ASSUME NEW r \in requests, ExecStop(r) PROVE MatchInv'
    BY <1>34, StopServed DEF OnlyStartAnswered, OnlyStopAnswered
<1>35. ASSUME NEW r \in requests, Enable(r) PROVE MatchInv'
    BY <1>35, EnableServed DEF OnlyStartAnswered, OnlyStopAnswered
<1>36. ASSUME NEW r \in requests, Disable(r) PROVE MatchInv'
    BY <1>36, DisableServed DEF OnlyStartAnswered, OnlyStopAnswered
<1>37. ASSUME NEW w \in Workers, CallFails(w) PROVE MatchInv'
    BY <1>37 DEF CallFails
<1>38. ASSUME NEW w \in Workers, CallTimesOut(w) PROVE MatchInv'
    BY <1>38 DEF CallTimesOut
<1>39. CASE CoreDies
    BY <1>39 DEF CoreDies, Dies
<1> QED
    BY Zenon, <1>2, <1>3, <1>4, <1>5, <1>6, <1>7, <1>8, <1>9, <1>10, <1>11, <1>12, <1>13,
       <1>14, <1>15, <1>16, <1>17, <1>18, <1>19, <1>20, <1>21, <1>22, <1>23, <1>24, <1>25,
       <1>26, <1>27, <1>28, <1>29, <1>30, <1>31, <1>32, <1>33, <1>34, <1>35, <1>36, <1>37,
       <1>38, <1>39 DEF Next, User, Ui, StartWorker, StopWorker, DSCores, Serve, Calls

\* No Start that is awaited meets a published instance.
LEMMA OrphanInvStep ==
    ASSUME OrphanInv, TypeOK, CallInv, TurnInv, BoxInv, [Next]_vars
    PROVE  OrphanInv'
<1>1. UNCHANGED <<orphans, lost>> => OrphanInv'
    BY DEF OrphanInv, AskedByStart, Shown, Undoing, Calling
<1>2. CASE \/ (\E id \in Profiles : UserStarts(id))
           \/ (\E manual \in BOOLEAN : UserStops(manual)) \/ RestartCore \/ CoreConnects
           \/ CoreAccepted \/ CoreStarted
    BY <1>1, <1>2 DEF UserStarts, UserStops, RestartCore, CoreConnects, CoreAccepted,
       CoreStarted
<1>3. CASE \/ StartGuard \/ StartEnable \/ StartEnabled \/ StartCheck \/ StartStopCheck
           \/ StartStopLock \/ StartAwait \/ StartSend \/ StartAnswer \/ StartCommit
           \/ StartCommitFails \/ StartUndone \/ StartPublish \/ StartProxy \/ StartRelease
           \/ StartReleased \/ StartUnlock
    BY <1>1, <1>3 DEF StartGuard, StartEnable, StartGoto, StartEnabled, StartCheck,
       StartStopCheck, StartStopLock, StartAwait, StartSend, StartAnswer, StartCommit,
       StartCommitFails, StartUndone, StartPublish, StartProxy, StartRelease,
       StartReleased, StartUnlock
<1>4. CASE StopSend \/ StopAnswer \/ StopProxy \/ StopForget \/ StopUnlock
    BY <1>1, <1>4 DEF StopSend, StopGoto, StopAnswer, StopProxy, StopForget, StopUnlock
<1>5. CASE \/ RunTask \/ TimerFires \/ ExitSeen \/ DsStopCheck \/ DsStopLock \/ ExitRestarts
           \/ ExitTooOften
    BY <1>1, <1>5 DEF RunTask, DsStep, TimerFires, ExitSeen, DsStopCheck, DsStopLock,
       ExitRestarts, ExitTooOften
<1>6. CASE \/ (\E r \in requests : ExecStop(r)) \/ (\E r \in requests : Enable(r))
           \/ (\E r \in requests : Disable(r)) \/ (\E w \in Workers : CallFails(w))
    BY <1>1, <1>6 DEF ExecStop, Replies, Enable, Disable, CallFails
<1>7. CASE UNCHANGED vars
    BY <1>1, <1>7 DEF vars
<1> USE ProfileAssumption DEF OrphanInv, AskedByStart, Shown, Undoing, Calling, CallInv,
        TurnInv, BoxInv
<1>8. CASE StopClear
    BY <1>8 DEF StopClear, StopGoto
<1>9. CASE KillCore
    BY <1>9 DEF KillCore, Dies, DsStep
<1>10. CASE Restart
    BY <1>10 DEF Restart, Dies, DsStep
<1>11. ASSUME NEW r \in requests, ExecStart(r) PROVE OrphanInv'
  <2>1. ~lost => box = None
    BY <1>11, Shape, StartServed DEF OnlyStartAnswered
  <2> QED
    BY <2>1, <1>11, StartServed DEF ExecStart
<1>12. ASSUME NEW w \in Workers, CallTimesOut(w) PROVE OrphanInv'
    BY <1>12 DEF CallTimesOut
<1>13. CASE CoreDies
    BY <1>13 DEF CoreDies, Dies
<1> QED
    BY Zenon, <1>2, <1>3, <1>4, <1>5, <1>6, <1>7, <1>8, <1>9, <1>10, <1>11, <1>12, <1>13
       DEF Next, User, Ui, StartWorker, StopWorker, DSCores, Serve, Calls

\* The filter has no holder but the transition under way.
LEMMA HolderInvStep ==
    ASSUME HolderInv, TypeOK, MutexInv, CallInv, AloneInv, [Next]_vars
    PROVE  HolderInv'
<1>1. UNCHANGED <<armed, start, lost, holders, requests>> => HolderInv'
    BY AwaitedSame DEF HolderInv, Gap, AskedByStart, Calling
<1>2. CASE \/ (\E manual \in BOOLEAN : UserStops(manual)) \/ RestartCore \/ CoreConnects
           \/ CoreAccepted
    BY <1>1, <1>2 DEF UserStops, RestartCore, CoreConnects, CoreAccepted
<1>3. CASE StopAnswer \/ StopProxy \/ StopForget \/ StopUnlock
    BY <1>1, <1>3 DEF StopAnswer, StopGoto, StopProxy, StopForget, StopUnlock
<1>4. CASE \/ RunTask \/ TimerFires \/ ExitSeen \/ DsStopCheck \/ DsStopLock \/ ExitRestarts
           \/ ExitTooOften
    BY <1>1, <1>4 DEF RunTask, DsStep, TimerFires, ExitSeen, DsStopCheck, DsStopLock,
       ExitRestarts, ExitTooOften
<1>5. CASE (\E w \in Workers : CallFails(w))
    BY <1>1, <1>5 DEF CallFails
<1>6. CASE UNCHANGED vars
    BY <1>1, <1>6 DEF vars
<1> USE ProfileAssumption DEF HolderInv, Gap, AskedByStart, Calling, MutexInv, CallInv,
        AloneInv
<1>7. CASE (\E id \in Profiles : UserStarts(id)) \/ CoreStarted
  <2>1. Clicked
    BY <1>7, Clicks
  <2> QED
    BY <2>1, Shape, AwaitedSame DEF Clicked, IdleUi
<1>8. CASE StartGuard
    BY <1>8 DEF StartGuard
<1>9. CASE StartEnable
    BY <1>9, SendEffect DEF StartEnable, StartGoto, IdleStart, Workers
<1>10. CASE StartEnabled
    BY <1>10 DEF StartEnabled, StartGoto
<1>11. CASE StartCheck
    BY <1>11 DEF StartCheck, StartGoto
<1>12. CASE StartStopCheck
    BY <1>12 DEF StartStopCheck, StartGoto
<1>13. CASE StartStopLock
    BY <1>13 DEF StartStopLock, StartGoto
<1>14. CASE StartAwait
    BY <1>14 DEF StartAwait, StartGoto
<1>15. CASE StartSend
    BY <1>15, SendEffect DEF StartSend, StartGoto, IdleStart, Workers
<1>16. CASE StartAnswer
    BY <1>16 DEF StartAnswer, StartGoto
<1>17. CASE StartCommit
    BY <1>17 DEF StartCommit, StartGoto
<1>18. CASE StartCommitFails
    BY <1>18, SendEffect DEF StartCommitFails, StartGoto, IdleStart, Workers
<1>19. CASE StartUndone
    BY <1>19 DEF StartUndone, StartGoto
<1>20. CASE StartPublish
    BY <1>20 DEF StartPublish, StartGoto
<1>21. CASE StartProxy
    BY <1>21, Shape, ProxyEffect
<1>22. CASE StartRelease
    BY <1>22, SendEffect DEF StartRelease, StartGoto, IdleStart, Workers
<1>23. CASE StartReleased
    BY <1>23, Shape, Awaits, AwaitedSame DEF StartReleased, StartGoto, Answered, IdleStart,
       Done
<1>24. CASE StartUnlock
    BY <1>24 DEF StartUnlock, StartGoto, IdleStart
<1>25. CASE StopSend
  <2>1. Awaited("start")' = Awaited("start") /\ answer'["start"] = answer["start"]
    BY <1>25, SendEffect, AwaitedSame DEF StopSend, Workers
  <2> QED
    BY <1>25, <2>1, Shape DEF StopSend, StopGoto, IdleStop, StartSteps
<1>26. CASE StopClear
    BY <1>26, Shape, Awaits, AwaitedSame DEF StopClear, StopGoto
<1>27. CASE KillCore
    BY <1>27 DEF KillCore, Dies, DsStep
<1>28. CASE Restart
    BY <1>28 DEF Restart, Dies, DsStep
<1>29. ASSUME NEW r \in requests, ExecStart(r) PROVE HolderInv'
    BY <1>29, StartServed DEF OnlyStartAnswered, OnlyStopAnswered
<1>30. ASSUME NEW r \in requests, ExecStop(r) PROVE HolderInv'
    BY <1>30, StopServed DEF OnlyStartAnswered, OnlyStopAnswered
<1>31. ASSUME NEW r \in requests, Enable(r) PROVE HolderInv'
    BY <1>31, EnableServed DEF OnlyStartAnswered, OnlyStopAnswered
<1>32. ASSUME NEW r \in requests, Disable(r) PROVE HolderInv'
    BY <1>32, DisableServed DEF OnlyStartAnswered, OnlyStopAnswered
<1>33. ASSUME NEW w \in Workers, CallTimesOut(w) PROVE HolderInv'
    BY <1>33 DEF CallTimesOut
<1>34. CASE CoreDies
    BY <1>34 DEF CoreDies, Dies
<1> QED
    BY Zenon, <1>2, <1>3, <1>4, <1>5, <1>6, <1>7, <1>8, <1>9, <1>10, <1>11, <1>12, <1>13,
       <1>14, <1>15, <1>16, <1>17, <1>18, <1>19, <1>20, <1>21, <1>22, <1>23, <1>24, <1>25,
       <1>26, <1>27, <1>28, <1>29, <1>30, <1>31, <1>32, <1>33, <1>34 DEF Next, User, Ui,
       StartWorker, StopWorker, DSCores, Serve, Calls

\* The system proxy is switched on for what is shown, and off before that is forgotten.
LEMMA ProxyInvStep ==
    ASSUME ProxyInv, TypeOK, TurnInv, MutexInv, [Next]_vars
    PROVE  ProxyInv'
<1>1. UNCHANGED <<sysProxy, leftBy, running, stop>> => ProxyInv'
    BY DEF ProxyInv, Underway
<1>2. CASE \/ (\E id \in Profiles : UserStarts(id)) \/ RestartCore \/ CoreConnects
           \/ CoreAccepted \/ CoreStarted
    BY <1>1, <1>2 DEF UserStarts, RestartCore, CoreConnects, CoreAccepted, CoreStarted
<1>3. CASE \/ StartGuard \/ StartEnable \/ StartEnabled \/ StartCheck \/ StartStopCheck
           \/ StartAwait \/ StartSend \/ StartAnswer \/ StartCommit \/ StartCommitFails
           \/ StartUndone \/ StartRelease \/ StartReleased \/ StartUnlock
    BY <1>1, <1>3 DEF StartGuard, StartEnable, StartGoto, StartEnabled, StartCheck,
       StartStopCheck, StartAwait, StartSend, StartAnswer, StartCommit, StartCommitFails,
       StartUndone, StartRelease, StartReleased, StartUnlock
<1>4. CASE \/ RunTask \/ TimerFires \/ ExitSeen \/ DsStopCheck \/ ExitRestarts \/ ExitTooOften
           \/ KillCore \/ Restart
    BY <1>1, <1>4 DEF RunTask, DsStep, TimerFires, ExitSeen, DsStopCheck, ExitRestarts,
       ExitTooOften, KillCore, Restart
<1>5. CASE \/ (\E r \in requests : ExecStart(r)) \/ (\E r \in requests : ExecStop(r))
           \/ (\E r \in requests : Enable(r)) \/ (\E r \in requests : Disable(r))
           \/ (\E w \in Workers : CallFails(w)) \/ (\E w \in Workers : CallTimesOut(w))
           \/ CoreDies
    BY <1>1, <1>5 DEF ExecStart, Replies, ExecStop, Enable, Disable, CallFails,
       CallTimesOut, CoreDies
<1>6. CASE UNCHANGED vars
    BY <1>1, <1>6 DEF vars
<1> USE ProfileAssumption DEF ProxyInv, Underway, TurnInv, MutexInv
<1>7. ASSUME NEW manual \in BOOLEAN, UserStops(manual) PROVE ProxyInv'
    BY <1>7, Shape DEF UserStops, SpawnStop
<1>8. CASE StartStopLock
    BY <1>8, Shape DEF StartStopLock, StartGoto, SpawnStop, IdleStart
<1>9. CASE StartPublish
    BY <1>9 DEF StartPublish, StartGoto
<1>10. CASE StartProxy
  <2>1. (running # None /\ ~mu_stopping) \/ leftBy' = "overtaken start" \/ ~SystemProxy
    BY <1>10, Zenon DEF StartProxy
  <2>2. /\ sysProxy' => sysProxy \/ SystemProxy
        /\ ~SystemProxy => leftBy' = leftBy
        /\ UNCHANGED <<running, stop, mu_stopping>>
    BY <1>10, Zenon DEF StartProxy
  <2> QED
    BY <2>1, <2>2
<1>11. CASE StopSend
    BY <1>11 DEF StopSend, StopGoto
<1>12. CASE StopAnswer
  <2>1. /\ sysProxy => stop'.pc = "proxy" \/ leftBy' = "failed stop"
        /\ leftBy' = leftBy \/ leftBy' = "failed stop"
        /\ stop'.pc \in {"proxy", "forget"} /\ UNCHANGED <<sysProxy, running>>
    BY <1>12, AnswerEffect, Shape DEF StopAnswer
  <2> QED
    BY <2>1
<1>13. CASE StopProxy
    BY <1>13 DEF StopProxy, StopGoto
<1>14. CASE StopForget
    BY <1>14 DEF StopForget, StopGoto
<1>15. CASE StopClear
    BY <1>15 DEF StopClear, StopGoto
<1>16. CASE StopUnlock
    BY <1>16 DEF StopUnlock, StopGoto, IdleStop
<1>17. CASE DsStopLock
    BY <1>17, Shape DEF DsStopLock, Depth, Top, TopGoto, SpawnStop, DsStep
<1> QED
    BY Zenon, <1>2, <1>3, <1>4, <1>5, <1>6, <1>7, <1>8, <1>9, <1>10, <1>11, <1>12, <1>13,
       <1>14, <1>15, <1>16, <1>17 DEF Next, User, Ui, StartWorker, StopWorker, DSCores,
       Serve, Calls

-----------------------------------------------------------------------------
(* The theorems.                                                           *)

\* TypeOK is the conjunction of its parts.
LEMMA Parts ==
    TypeOK /\ WaitInv <=> GuiTypes /\ FlagTypes /\ WorkerTypes /\ CoreTypes /\ WaitInv
<1>1. TypeOK /\ WaitInv => GuiTypes /\ FlagTypes /\ WorkerTypes /\ CoreTypes
  <2> SUFFICES ASSUME TypeOK, WaitInv
               PROVE  GuiTypes /\ FlagTypes /\ WorkerTypes /\ CoreTypes
    OBVIOUS
  <2>1. Depth \in Nat
    BY LenProperties DEF WaitInv, Depth
  <2>2. stop.by \in Nat
    BY <2>1, Shape
  <2>3. GuiTypes /\ FlagTypes /\ CoreTypes
    BY DEF TypeOK, GuiTypes, FlagTypes, CoreTypes, Tasks
  <2> QED
    BY <2>2, <2>3, Shape DEF WorkerTypes
<1>2. GuiTypes /\ FlagTypes /\ WorkerTypes /\ CoreTypes /\ WaitInv => TypeOK
  <2> SUFFICES ASSUME GuiTypes, FlagTypes, WorkerTypes, CoreTypes, WaitInv
               PROVE  TypeOK
    OBVIOUS
  <2>1. stop.by \in 0..Depth
    BY LenProperties DEF WaitInv, Waiting, Depth, WorkerTypes
  <2>2. stop \in [pc : StopSteps, crash : BOOLEAN, manual : BOOLEAN, by : 0..Depth]
    BY <2>1 DEF WorkerTypes
  <2>3. {core_running, mu_starting, mu_stopping, restartTimer, abandoned,
         failed_to_start, sysProxy, exitPending, connected, lost,
         startedHere, armed} \subseteq BOOLEAN
    BY DEF FlagTypes
  <2>4. start \in [pc : StartSteps, id : Ids, guarded : BOOLEAN]
    BY DEF WorkerTypes
  <2>5. cores \in Seq(Frames) /\ tasks \in Seq(Tasks)
    BY DEF WaitInv, GuiTypes
  <2> QED
    BY <2>2, <2>3, <2>4, <2>5, Zenon
       DEF TypeOK, GuiTypes, CoreTypes, Frames, Tasks, StartSteps, StopSteps
<1> QED
  BY <1>1, <1>2

\* IInv holds in a window that was just opened.
LEMMA InitInv == Init => IInv
<1> SUFFICES ASSUME Init PROVE IInv
  OBVIOUS
<1> USE ProfileAssumption DEF Init, IdleStart, IdleStop, IdleUi
<1>1. GuiTypes /\ FlagTypes
  BY EmptySeq DEF GuiTypes, FlagTypes, Ids
<1>2. WorkerTypes
  BY DEF WorkerTypes, StartSteps, StopSteps, Ids
<1>3. CoreTypes
  BY DEF CoreTypes, Ids
<1>4. WaitInv
  BY EmptySeq DEF WaitInv, Waiting
<1>5. TypeOK
  BY <1>1, <1>2, <1>3, <1>4, Parts
<1>6. MutexInv /\ AloneInv /\ OrphanInv /\ ProxyInv
  BY DEF MutexInv, AloneInv, OrphanInv, ProxyInv
<1>7. CallInv
  BY DEF CallInv, Calling, Workers
<1>8. TurnInv /\ StopInv
  BY DEF TurnInv, Before, Underway, StopInv, Stopped
<1>9. BoxInv /\ MatchInv /\ HolderInv
  BY DEF BoxInv, MatchInv, HolderInv, Shown
<1> QED
  BY <1>4, <1>5, <1>6, <1>7, <1>8, <1>9 DEF IInv

\* Every step keeps IInv, part by part.
LEMMA NextInv == IInv /\ [Next]_vars => IInv'
<1> SUFFICES ASSUME IInv, [Next]_vars PROVE IInv'
  OBVIOUS
<1>1. /\ /\ TypeOK
      /\ WaitInv
      /\ MutexInv
      /\ CallInv
      /\ AloneInv
      /\ TurnInv
      /\ BoxInv
      /\ StopInv
      /\ MatchInv /\ OrphanInv /\ HolderInv /\ ProxyInv
      /\ GuiTypes /\ FlagTypes /\ WorkerTypes /\ CoreTypes
  BY Parts DEF IInv
<1>2. GuiTypes' /\ FlagTypes' /\ WorkerTypes' /\ CoreTypes' /\ WaitInv'
  BY <1>1, GuiTypesStep, FlagTypesStep, WorkerTypesStep, CoreTypesStep, WaitInvStep
<1>3. TypeOK'
  BY <1>2, Parts, PTL
<1>4. MutexInv' /\ CallInv' /\ AloneInv' /\ TurnInv'
  BY <1>1, MutexInvStep, CallInvStep, AloneInvStep, TurnInvStep
<1>5. BoxInv' /\ StopInv' /\ MatchInv' /\ OrphanInv'
  BY <1>1, BoxInvStep, StopInvStep, MatchInvStep, OrphanInvStep
<1>6. HolderInv' /\ ProxyInv'
  BY <1>1, HolderInvStep, ProxyInvStep
<1> QED
  BY <1>2, <1>3, <1>4, <1>5, <1>6 DEF IInv

\* Whatever the user, the core and the channel do, IInv holds in every state.
THEOREM ProfileInvariant == Spec => []IInv
BY InitInv, NextInv, PTL DEF Spec

\* The variables of profile_start, profile_stop, DS_cores and the core keep their types,
\* and a stop that was asked for by a frame of DS_cores knows one that exists.
THEOREM ProfileTypes == Spec => []TypeOK
<1>1. IInv => TypeOK
  BY DEF IInv
<1> QED
  BY <1>1, ProfileInvariant, PTL

\* A Start that is awaited finds no published instance, so that the core unpublishes none
\* without closing it: profile_start has waited for the stop of what ran before.
THEOREM ProfileStartFindsNoBox == Spec => []StartFindsNoBox
<1>1. IInv => StartFindsNoBox
  BY DEF IInv, OrphanInv, StartFindsNoBox
<1> QED
  BY <1>1, ProfileInvariant, PTL

\* When everything has come to rest, the window shows the profile the core runs.
THEOREM ProfileGuiMatchesCore == Spec => []GuiMatchesCore
<1>1. IInv => GuiMatchesCore
  <2> SUFFICES ASSUME IInv, AtRest, startedHere, ~lost PROVE running = box
    BY DEF GuiMatchesCore
  <2>1. box # None => box = running
    BY DEF IInv, BoxInv, Shown, Undoing, AtRest
  <2>2. running # None => box = running
    BY DEF IInv, MatchInv, AtRest
  <2> QED
    BY <2>1, <2>2
<1> QED
  BY <1>1, ProfileInvariant, PTL

\* The filter is up from the acknowledged Enable of a transition to its Disable, and gone
\* when no transition is under way, whichever way the last one ended.
THEOREM ProfileFilterCoversGap == Spec => []FilterCoversGap
<1>1. IInv => FilterCoversGap
  BY DEF IInv, HolderInv, Gap, FilterCoversGap, AtRest
<1> QED
  BY <1>1, ProfileInvariant, PTL

\* A system proxy that outlives the connection was left by a stop that failed, or switched
\* on by a start that a stop had overtaken.
THEOREM ProfileLeftProxyHasCause == Spec => []LeftProxyHasCause
<1>1. IInv => LeftProxyHasCause
  BY DEF IInv, ProxyInv, LeftProxyHasCause
<1> QED
  BY <1>1, ProfileInvariant, PTL

-----------------------------------------------------------------------------
(* Who can go on.                                                          *)

\* A frame that launches the core does nothing before; one that exits or kills does.
Kills(s) == \A i \in DOMAIN s : s[i].do = "Restart" <=> s[i].pc = "kill"
Relaunches(s) == \E i \in DOMAIN s : s[i].do # "RestartCore"

\* A core that is down is launched again by a frame that exited or launches, by a timer, or
\* once its exit is seen.
RestartsInv ==
    /\ Kills(cores)
    /\ proc = "down" => \/ exitPending \/ timers > 0 \/ Relaunches(cores)
                        \/ abandoned \/ failed_to_start

\* A new frame on top takes none away.
LEMMA PushRelaunches ==
    ASSUME NEW s \in Seq(Frames), NEW f \in Frames, f.do = "Restart" <=> f.pc = "kill", Kills(s)
    PROVE  /\ Kills(Append(s, f))
           /\ Relaunches(s) \/ f.do # "RestartCore" => Relaunches(Append(s, f))
<1>1. /\ DOMAIN s = 1..Len(s) /\ Len(s) \in Nat
      /\ DOMAIN Append(s, f) = 1..(Len(s) + 1)
      /\ \A i \in 1..Len(s) : Append(s, f)[i] = s[i]
      /\ Append(s, f)[Len(s) + 1] = f
  BY AppendProperties
<1>2. /\ \A i \in 1..(Len(s) + 1) : i \in 1..Len(s) \/ i = Len(s) + 1
      /\ Len(s) + 1 \in 1..(Len(s) + 1) /\ 1..Len(s) \subseteq 1..(Len(s) + 1)
  BY <1>1
<1> QED
  BY <1>1, <1>2 DEF Kills, Relaunches

\* The end of a RestartCore takes no frame away that launches.
LEMMA PopRelaunches ==
    ASSUME NEW s \in Seq(Frames), Len(s) > 0, Kills(s)
    PROVE  /\ SubSeq(s, 1, Len(s) - 1) \in Seq(Frames) /\ Kills(SubSeq(s, 1, Len(s) - 1))
           /\ s[Len(s)].do = "RestartCore" /\ Relaunches(s)
                 => Relaunches(SubSeq(s, 1, Len(s) - 1))
<1> DEFINE p == SubSeq(s, 1, Len(s) - 1)
<1>1. DOMAIN s = 1..Len(s) /\ Len(s) \in Nat
  BY LenProperties
<1>2. /\ p \in Seq(Frames) /\ Len(p) = Len(s) - 1
      /\ \A i \in 1..(Len(s) - 1) : p[i] = s[i]
  BY <1>1, SubSeqProperties
<1>3. DOMAIN p = 1..(Len(s) - 1)
  BY <1>2, LenProperties
<1> HIDE DEF p
<1>4. \A i \in DOMAIN s : i = Len(s) \/ (i \in DOMAIN p /\ p[i] = s[i])
  BY <1>1, <1>2, <1>3
<1>5. \A i \in DOMAIN p : i \in DOMAIN s /\ p[i] = s[i]
  BY <1>1, <1>2, <1>3
<1>6. Kills(p) /\ (s[Len(s)].do = "RestartCore" /\ Relaunches(s) => Relaunches(p))
  BY <1>4, <1>5 DEF Kills, Relaunches
<1> QED
  BY <1>2, <1>6 DEF p

\* A frame that goes on is for what it was.
LEMMA StepRelaunches ==
    ASSUME NEW s \in Seq(Frames), NEW n \in DOMAIN s, s[n].pc # "kill", Kills(s),
           NEW pc \in {"lock", "wait", "stopped"}
    PROVE  /\ Kills([s EXCEPT ![n].pc = pc])
           /\ Relaunches(s) => Relaunches([s EXCEPT ![n].pc = pc])
<1> DEFINE t == [s EXCEPT ![n].pc = pc]
<1>1. s[n] \in Frames
  BY LenProperties, ElementOfSeq
<1>2. [s[n] EXCEPT !.pc = pc].pc = pc /\ [s[n] EXCEPT !.pc = pc].do = s[n].do
  BY <1>1 DEF Frames
<1>3. t[n].pc = pc /\ t[n].do = s[n].do /\ DOMAIN t = DOMAIN s /\ \A i \in DOMAIN s \ {n} : t[i] = s[i]
  BY <1>2
<1> HIDE DEF t
<1>4. Kills(t) /\ (Relaunches(s) => Relaunches(t))
  BY <1>3 DEF Kills, Relaunches
<1> QED
  BY <1>4 DEF t

\* An exit, a kill and a failed launch each leave somebody who launches the core again.
LEMMA RestartsInvStep ==
    ASSUME RestartsInv, TypeOK, WaitInv, [Next]_vars
    PROVE  RestartsInv'
<1>1. UNCHANGED <<cores, proc, exitPending, timers, abandoned, failed_to_start>> => RestartsInv'
    BY DEF RestartsInv
<1>2. CASE \/ (\E id \in Profiles : UserStarts(id)) \/ (\E manual \in BOOLEAN : UserStops(manual))
           \/ RestartCore \/ CoreConnects \/ CoreAccepted \/ CoreStarted
    BY <1>1, <1>2 DEF UserStarts, UserStops, RestartCore, CoreConnects, CoreAccepted, CoreStarted
<1>3. CASE \/ StartGuard \/ StartEnable \/ StartEnabled \/ StartCheck \/ StartStopCheck
           \/ StartStopLock \/ StartAwait \/ StartSend \/ StartAnswer \/ StartCommit
           \/ StartCommitFails \/ StartUndone \/ StartPublish \/ StartRelease
           \/ StartReleased \/ StartUnlock
  <2>1. UNCHANGED <<cores, proc, exitPending, timers, abandoned, failed_to_start>>
    BY <1>3 DEF StartGuard, StartEnable, StartGoto, StartEnabled, StartCheck,
       StartStopCheck, StartStopLock, StartAwait, StartSend, StartAnswer, StartCommit,
       StartCommitFails, StartUndone, StartPublish, StartRelease, StartReleased,
       StartUnlock
  <2> QED
    BY <1>1, <2>1
<1>4. CASE StopSend \/ StopProxy \/ StopForget \/ StopClear
  <2>1. UNCHANGED <<cores, proc, exitPending, timers, abandoned, failed_to_start>>
    BY <1>4 DEF StopSend, StopGoto, StopProxy, StopForget, StopClear
  <2> QED
    BY <1>1, <2>1
<1>5. CASE \/ (\E r \in requests : ExecStart(r)) \/ (\E r \in requests : ExecStop(r))
           \/ (\E r \in requests : Enable(r)) \/ (\E r \in requests : Disable(r))
           \/ (\E w \in Workers : CallFails(w)) \/ (\E w \in Workers : CallTimesOut(w))
    BY <1>1, <1>5 DEF ExecStart, Replies, ExecStop, Enable, Disable, CallFails, CallTimesOut
<1>6. CASE StopAnswer
  <2>1. UNCHANGED <<cores, proc, exitPending, timers, abandoned, failed_to_start>>
    BY Zenon, <1>6 DEF StopAnswer, StopGoto
  <2> QED
    BY <1>1, <2>1
<1>7. CASE StartProxy
  <2>1. UNCHANGED <<cores, proc, exitPending, timers, abandoned, failed_to_start>>
    BY Zenon, <1>7 DEF StartProxy, StartGoto
  <2> QED
    BY <1>1, <2>1
<1>8. CASE UNCHANGED vars
    BY <1>1, <1>8 DEF vars
<1> USE DEF RestartsInv
<1>9. /\ cores \in Seq(Frames) /\ Depth = Len(cores) /\ Depth \in Nat
      /\ timers \in Nat /\ proc \in {"up", "down"}
  <2>1. cores \in Seq(Frames)
    BY DEF WaitInv
  <2>2. timers \in Nat
    BY Parts DEF GuiTypes
  <2> QED
    BY <2>1, <2>2, Shape, LenProperties DEF Depth
<1>10. Depth > 0 => Depth \in DOMAIN cores
    BY <1>9, LenProperties
<1>11. CASE CoreDies
    BY <1>11 DEF CoreDies
<1>12. CASE StopUnlock
  <2>1. UNCHANGED <<proc, exitPending, timers, abandoned, failed_to_start>>
    BY <1>12 DEF StopUnlock, StopGoto
  <2>2. CASE stop.by = 0
    BY <1>1, <1>12, <2>1, <2>2 DEF StopUnlock, WakeCaller
  <2>3. CASE stop.by # 0
    <3>1. stop.by \in DOMAIN cores /\ cores[stop.by].pc # "kill"
      BY <2>3 DEF WaitInv, Waiting
    <3>2. cores' = [cores EXCEPT ![stop.by].pc = "stopped"]
      BY <1>12, <2>3 DEF StopUnlock, WakeCaller
    <3> QED
      BY <1>9, <2>1, <3>1, <3>2, StepRelaunches
  <2> QED
    BY <2>2, <2>3
<1>13. CASE RunTask
  <2>1. PICK f \in Frames : (f.do = "Restart" <=> f.pc = "kill") /\ cores' = Append(cores, f)
    BY <1>13 DEF RunTask, Frame, Frames
  <2> QED
    BY <1>9, <1>13, <2>1, PushRelaunches DEF RunTask, DsStep
<1>14. CASE TimerFires
  <2>1. Frame("Restart", "kill") \in Frames /\ cores' = Append(cores, Frame("Restart", "kill"))
    BY <1>14 DEF TimerFires, Frame, Frames
  <2>2. Kills(cores') /\ Relaunches(cores')
    BY <1>9, <2>1, PushRelaunches DEF Frame
  <2> QED
    BY <2>2
<1>15. CASE ExitSeen
  <2>1. UNCHANGED <<proc, failed_to_start>>
    BY <1>15 DEF ExitSeen
  <2>2. CASE failed_to_start
    BY <1>15, <2>1, <2>2 DEF ExitSeen
  <2>3. CASE ~failed_to_start
    <3>1. Frame("Exited", "check") \in Frames /\ cores' = Append(cores, Frame("Exited", "check"))
      BY <1>15, <2>3 DEF ExitSeen, Frame, Frames
    <3>2. Kills(cores') /\ Relaunches(cores')
      BY <1>9, <3>1, PushRelaunches DEF Frame
    <3> QED
      BY <3>2
  <2> QED
    BY <2>2, <2>3
<1>16. CASE DsStopCheck
  <2>1. PICK pc \in {"lock", "stopped"} : cores' = [cores EXCEPT ![Depth].pc = pc]
    BY <1>16 DEF DsStopCheck, TopGoto
  <2>2. Depth > 0 /\ cores[Depth].pc # "kill"
    BY <1>16 DEF DsStopCheck, Top
  <2>3. Kills(cores') /\ (Relaunches(cores) => Relaunches(cores'))
    BY <1>9, <1>10, <2>1, <2>2, StepRelaunches
  <2> QED
    BY <1>16, <2>3 DEF DsStopCheck, DsStep
<1>17. CASE DsStopLock
  <2>1. PICK pc \in {"wait", "stopped"} : cores' = [cores EXCEPT ![Depth].pc = pc]
    BY <1>17 DEF DsStopLock, TopGoto
  <2>2. Depth > 0 /\ cores[Depth].pc # "kill"
    BY <1>17 DEF DsStopLock, Top
  <2>3. Kills(cores') /\ (Relaunches(cores) => Relaunches(cores'))
    BY <1>9, <1>10, <2>1, <2>2, StepRelaunches
  <2> QED
    BY <1>17, <2>3 DEF DsStopLock, DsStep
<1>18. CASE ExitRestarts
  <2>1. Len(cores) > 0 /\ cores' = SubSeq(cores, 1, Len(cores) - 1) /\ timers' > 0
    BY <1>9, <1>18 DEF ExitRestarts, TopAt, Pop, Depth
  <2> QED
    BY <1>9, <2>1, PopRelaunches
<1>19. CASE ExitTooOften
  <2>1. Len(cores) > 0 /\ cores' = SubSeq(cores, 1, Len(cores) - 1) /\ abandoned'
    BY <1>19 DEF ExitTooOften, TopAt, Pop, Depth
  <2> QED
    BY <1>9, <2>1, PopRelaunches
<1>20. CASE KillCore
  <2> DEFINE rest == SubSeq(cores, 1, Len(cores) - 1)
  <2>1. Len(cores) > 0 /\ cores[Len(cores)].do = "RestartCore"
    BY <1>20 DEF KillCore, TopAt, Top, Frame, Depth
  <2>2. /\ rest \in Seq(Frames) /\ Kills(rest)
        /\ Relaunches(cores) => Relaunches(rest)
    BY <1>9, <2>1, PopRelaunches
  <2>3. UNCHANGED <<timers, abandoned, failed_to_start>>
    BY <1>20 DEF KillCore
  <2>4. CASE (proc = "up" \/ exitPending) /\ ~failed_to_start
    <3>1. Frame("Exited", "check") \in Frames /\ cores' = Append(rest, Frame("Exited", "check"))
      BY <1>20, <2>4 DEF KillCore, Pop, Depth, Frame, Frames
    <3> HIDE DEF rest
    <3>2. Kills(cores') /\ Relaunches(cores')
      BY <2>2, <3>1, PushRelaunches DEF Frame
    <3> QED
      BY <3>2
  <2>5. CASE ~ ((proc = "up" \/ exitPending) /\ ~failed_to_start)
    <3>1. cores' = rest
      BY <1>20, <2>5 DEF KillCore, Pop, Depth
    <3>2. failed_to_start \/ (proc = "down" /\ ~exitPending)
      BY <1>9, <2>5
    <3> HIDE DEF rest
    <3> QED
      BY <2>2, <2>3, <3>1, <3>2
  <2> QED
    BY <2>4, <2>5
<1>21. CASE Restart
  <2>1. Len(cores) > 0 /\ cores' = SubSeq(cores, 1, Len(cores) - 1)
    BY <1>21 DEF Restart, TopAt, Pop, Depth
  <2>2. proc' = "down" => failed_to_start'
    BY <1>21 DEF Restart
  <2> QED
    BY <1>9, <2>1, <2>2, PopRelaunches
<1> QED
    BY Zenon, <1>2, <1>3, <1>4, <1>5, <1>6, <1>7, <1>8, <1>11, <1>12, <1>13, <1>14,
       <1>15, <1>16, <1>17, <1>18, <1>19, <1>20, <1>21 DEF Next, User, Ui, StartWorker,
       StopWorker, DSCores, Serve, Calls

\* The guards of the steps that NobodyIsStuck wants one of to be possible.
StopGoes == \/ stop.pc \in StopSteps \ {"idle", "answer"}
            \/ stop.pc = "answer" /\ answer["stop"] \in Done
StartGoes == \/ start.pc \in StartSteps \ {"idle", "enabled", "answer", "undo", "disabled", "await"}
             \/ Calling /\ answer["start"] \in Done
             \/ start.pc = "await" /\ ~mu_stopping
ServeGoes == \E r \in requests : r.op \in {"Start", "Stop", "Enable", "Disable"}
FrameGoes == \/ Pumping /\ (tasks # <<>> \/ timers > 0 \/ exitPending)
             \/ Depth > 0 /\ Top.pc \in {"check", "lock"}
             \/ TopAt("Exited", "stopped") \/ TopAt("RestartCore", "stopped")
             \/ TopAt("Restart", "kill")

\* NobodyIsStuck, with these guards in the place of ENABLED.
SomebodyGoes ==
    /\ mu_stopping => StopGoes \/ answer["stop"] = "waiting"
    /\ mu_starting => \/ StartGoes \/ answer["start"] = "waiting"
                      \/ start.pc = "await" /\ mu_stopping
    /\ \A w \in Workers : answer[w] = "waiting" => ServeGoes \/ Awaited(w) = {}
    /\ cores # <<>> => FrameGoes \/ mu_stopping
    /\ proc = "down" => \/ exitPending \/ timers > 0 \/ cores # <<>>
                        \/ abandoned \/ failed_to_start

\* Each worker is at a step that it can take, or waits for a call or for the other worker.
LEMMA GoesFromInv == IInv /\ RestartsInv => SomebodyGoes
<1> SUFFICES ASSUME IInv, RestartsInv PROVE SomebodyGoes
  OBVIOUS
<1>1. TypeOK /\ WaitInv /\ MutexInv /\ CallInv
  BY DEF IInv
<1>2. /\ start.pc \in StartSteps /\ stop.pc \in StopSteps /\ requests \subseteq Requests
      /\ \A w \in Workers : answer[w] \in Done \cup {"none", "waiting"}
  BY <1>1, Shape
<1>3. mu_stopping => StopGoes \/ answer["stop"] = "waiting"
  BY <1>1, <1>2 DEF MutexInv, CallInv, StopGoes, Workers
<1>4. mu_starting => \/ StartGoes \/ answer["start"] = "waiting"
                     \/ start.pc = "await" /\ mu_stopping
  BY <1>1, <1>2 DEF MutexInv, CallInv, StartGoes, Calling, Workers
<1>5. \A w \in Workers : answer[w] = "waiting" => ServeGoes \/ Awaited(w) = {}
  BY <1>2 DEF ServeGoes, Awaited, Requests
<1>6. cores # <<>> => FrameGoes \/ mu_stopping
  <2> SUFFICES ASSUME cores # <<>>, ~mu_stopping PROVE FrameGoes
    OBVIOUS
  <2>1. Depth \in DOMAIN cores /\ Depth > 0 /\ cores[Depth] \in Frames
    BY <1>1, LenProperties, EmptySeq, ElementOfSeq DEF WaitInv, Depth
  <2>2. Top.pc # "wait" /\ (Top.do = "Restart" <=> Top.pc = "kill")
    BY <1>1, <2>1 DEF WaitInv, Waiting, Top, RestartsInv, Kills
  <2>3. Top = Frame(Top.do, Top.pc)
    BY <2>1 DEF Top, Frames, Frame
  <2> QED
    BY <2>1, <2>2, <2>3 DEF FrameGoes, TopAt, Frames, Top
<1>7. proc = "down" => \/ exitPending \/ timers > 0 \/ cores # <<>>
                       \/ abandoned \/ failed_to_start
  BY EmptySeq DEF RestartsInv, Relaunches
<1> QED
  BY <1>3, <1>4, <1>5, <1>6, <1>7 DEF SomebodyGoes

\* Whoever holds a mutex of profile_start or profile_stop, waits for an answer or blocks
\* DS_cores is at a step that can be taken, or waits for somebody who is; and a core that is
\* down is launched again, unless it exited too often or could not be launched.
THEOREM ProfileSomebodyGoes == Spec => []SomebodyGoes
<1>1. Init => RestartsInv
  BY DEF Init, RestartsInv, Kills
<1>2. IInv /\ RestartsInv /\ [Next]_vars => RestartsInv'
  BY RestartsInvStep DEF IInv
<1> QED
  BY <1>1, <1>2, GoesFromInv, ProfileInvariant, PTL DEF Spec
=============================================================================
