-------------------------- MODULE ProfileLifecycle --------------------------
(***************************************************************************)
(* How the GUI starts and stops a profile, mainwindow_profile_lifecycle.cpp *)
(* and Process.cpp: the UI thread, the worker of profile_start, the worker *)
(* of profile_stop and DS_cores, the thread that owns the core process,    *)
(* against a core that executes Start, Stop and SetTransitionGuard.        *)
(*                                                                         *)
(* A call is what RpcCalls promises: executed at most once, in any order   *)
(* with other calls, and possibly after its caller gave up on it.  What    *)
(* Start and Stop do inside the core is CoreLifecycle; here each is one    *)
(* step on the published instance.                                         *)
(***************************************************************************)
EXTENDS Integers, Sequences

CONSTANTS
    Profiles,
    None,           \* nullptr, NoProfileId
    SpmodeVpn,      \* spmode_vpn: a restart is covered by the guard
    SystemProxy,    \* spmode_system_proxy
    Otp,            \* profiles with an HOTP code to commit after the start
    MaxClicks,      \* bound on what the user does
    MaxCrashes,     \* bound on the deaths of the core it did not ask for
    MaxLost,        \* bound on the calls that time out
    MaxSpawnErrors  \* bound on the launches that fail

ASSUME ProfileAssumption ==
    /\ None \notin Profiles /\ Otp \subseteq Profiles
    /\ SpmodeVpn \in BOOLEAN /\ SystemProxy \in BOOLEAN
    /\ {MaxClicks, MaxCrashes, MaxLost, MaxSpawnErrors} \subseteq Nat

VARIABLES
    running, started_id, core_running, start_profile_when_core_is_up,
    mu_starting, mu_stopping,
    start,          \* worker of profile_start
    stop,           \* worker of profile_stop
    ui,             \* newConnection on the UI thread, up to its profile_start
    cores,          \* what DS_cores is inside of, innermost last
    tasks,          \* functions posted to DS_cores
    timers,         \* setTimeout(Restart) not yet fired
    restartTimer,   \* coreRestartTimer is valid
    abandoned,      \* history: the last exit was not followed by a restart
    failed_to_start,
    sysProxy,       \* the system proxy points at the core
    leftBy,         \* history: what kept or made it so behind a stop's back
    proc,           \* the core process: "up" or "down"
    exitPending,    \* it died and DS_cores has not been told
    connected,      \* the channel leads to the living process
    box,            \* the core's published instance
    orphans,        \* instances unpublished without being closed
    holders,        \* killswitch: transitions that hold the filter up
    requests,       \* sent and not yet executed
    answer,         \* of the call each worker is in
    lost,           \* history: a call to this process was given up on, or its
                    \* profile was stopped without asking it
    startedHere,    \* history: this process is the last to have started one
    armed,          \* history: it acknowledged the guard of this transition
    clicks, crashes, losses, spawnErrors

procVars == <<proc, connected, box, orphans, holders, requests, lost,
              startedHere, armed>>
guiVars == <<running, started_id, core_running, start_profile_when_core_is_up>>
muVars == <<mu_starting, mu_stopping>>
dsVars == <<cores, tasks, timers, restartTimer, abandoned, failed_to_start>>
proxyVars == <<sysProxy, leftBy>>
counters == <<clicks, crashes, losses, spawnErrors>>
vars == <<procVars, exitPending, guiVars, muVars, start, stop, ui, dsVars,
          proxyVars, answer, counters>>

Ids == Profiles \cup {None}
Workers == {"start", "stop"}
Requests == [op : {"Start", "Stop", "Enable", "Disable"}, id : Ids,
             from : Workers, live : BOOLEAN]

IdleStart == [pc |-> "idle", id |-> None, guarded |-> FALSE]
IdleStop == [pc |-> "idle", crash |-> FALSE, manual |-> FALSE, by |-> 0]
IdleUi == [pc |-> "idle", id |-> None]

\* The window is up, the core was launched and has not connected yet; a
\* remembered profile may be waiting for it.
Init ==
    /\ running = None /\ started_id = None /\ core_running = FALSE
    /\ start_profile_when_core_is_up \in Ids
    /\ mu_starting = FALSE /\ mu_stopping = FALSE
    /\ start = IdleStart /\ stop = IdleStop /\ ui = IdleUi
    /\ cores = <<>> /\ tasks = <<>> /\ timers = 0
    /\ restartTimer = FALSE /\ abandoned = FALSE /\ failed_to_start = FALSE
    /\ sysProxy = FALSE /\ leftBy = "nothing"
    /\ proc = "up" /\ exitPending = FALSE /\ connected = FALSE
    /\ box = None /\ orphans = {} /\ holders = 0 /\ requests = {}
    /\ answer = [w \in Workers |-> "none"]
    /\ lost = FALSE /\ startedHere = FALSE /\ armed = FALSE
    /\ clicks = 0 /\ crashes = 0 /\ losses = 0 /\ spawnErrors = 0

-----------------------------------------------------------------------------
(* Calls to the core.                                                      *)

Done == {"ok", "error", "failed"}

\* Without a connection a call fails at once.
Send(w, op, id) ==
    IF connected
    THEN /\ requests' = requests \cup
                {[op |-> op, id |-> id, from |-> w, live |-> TRUE]}
         /\ answer' = [answer EXCEPT ![w] = "waiting"]
    ELSE /\ answer' = [answer EXCEPT ![w] = "failed"]
         /\ UNCHANGED requests

Answered(w) ==
    /\ answer[w] \in Done
    /\ answer' = [answer EXCEPT ![w] = "none"]

Awaited(w) == {r \in requests : r.from = w /\ r.live}

\* The connection went away under the call.
CallFails(w) ==
    /\ answer[w] = "waiting" /\ Awaited(w) = {}
    /\ answer' = [answer EXCEPT ![w] = "failed"]
    /\ UNCHANGED <<procVars, exitPending, guiVars, muVars, start, stop, ui,
                   dsVars, proxyVars, counters>>

\* No answer within kIOTimeoutMs.
CallTimesOut(w) ==
    /\ losses < MaxLost
    /\ \E r \in Awaited(w) :
           requests' = (requests \ {r}) \cup {[r EXCEPT !.live = FALSE]}
    /\ answer' = [answer EXCEPT ![w] = "failed"]
    /\ lost' = TRUE
    /\ losses' = losses + 1
    /\ UNCHANGED <<proc, connected, box, orphans, holders, startedHere, armed,
                   exitPending, guiVars, muVars, start, stop, ui, dsVars,
                   proxyVars, clicks, crashes, spawnErrors>>

\* The answer to r: nobody reads the one to a call that was given up on.
Replies(r, result) ==
    /\ requests' = requests \ {r}
    /\ answer' = IF r.live THEN [answer EXCEPT ![r.from] = result] ELSE answer
    /\ UNCHANGED <<proc, connected, exitPending, lost, guiVars, muVars, start,
                   stop, ui, dsVars, proxyVars, counters>>

ExecStart(r) ==
    /\ r.op = "Start"
    /\ \/ /\ box = None
          /\ box' = r.id /\ startedHere' = TRUE
          /\ Replies(r, "ok")
          /\ UNCHANGED orphans
       \/ /\ box = None
          /\ Replies(r, "error")
          /\ UNCHANGED <<box, orphans, startedHere>>
       \* "instance already started": the deferred function unpublishes it.
       \/ /\ box # None
          /\ box' = None
          /\ orphans' = orphans \cup {box}
          /\ Replies(r, "error")
          /\ UNCHANGED startedHere
    /\ UNCHANGED <<holders, armed>>

ExecStop(r) ==
    /\ r.op = "Stop"
    /\ box' = None
    /\ Replies(r, "ok")
    /\ UNCHANGED <<orphans, holders, startedHere, armed>>

\* Only the first holder has a firewall to arm, which may fail.
Enable(r) ==
    /\ r.op = "Enable"
    /\ \/ /\ holders' = holders + 1
          /\ armed' = (armed \/ r.live)
          /\ Replies(r, "ok")
       \/ holders = 0 /\ UNCHANGED <<holders, armed>> /\ Replies(r, "error")
    /\ UNCHANGED <<box, orphans, startedHere>>

Disable(r) ==
    /\ r.op = "Disable"
    /\ holders' = IF holders = 0 THEN 0 ELSE holders - 1
    /\ Replies(r, "ok")
    /\ UNCHANGED <<box, orphans, startedHere, armed>>

Serve == \E r \in requests :
            ExecStart(r) \/ ExecStop(r) \/ Enable(r) \/ Disable(r)

\* What goes down with the process; its firewall session is a dynamic one.
Dies ==
    /\ connected' = FALSE
    /\ box' = None /\ orphans' = {} /\ holders' = 0
    /\ requests' = {}
    /\ lost' = FALSE /\ startedHere' = FALSE /\ armed' = FALSE

CoreDies ==
    /\ proc = "up" /\ crashes < MaxCrashes
    /\ proc' = "down" /\ Dies
    /\ exitPending' = TRUE
    /\ crashes' = crashes + 1
    /\ UNCHANGED <<guiVars, muVars, start, stop, ui, dsVars, proxyVars, answer,
                   clicks, losses, spawnErrors>>

-----------------------------------------------------------------------------
(* UI thread.                                                              *)

SpawnStop(crash, manual, by) ==
    /\ mu_stopping' = TRUE
    /\ stop' = [pc |-> "send", crash |-> crash, manual |-> manual, by |-> by]

\* profile_start from its tryLocks on; what it does before them is local.
ProfileStart(id) ==
    \/ /\ mu_starting \/ mu_stopping
       /\ UNCHANGED <<mu_starting, start, tasks>>
    \/ /\ ~mu_starting /\ ~mu_stopping /\ ~core_running
       /\ tasks' = Append(tasks, [do |-> "Start", id |-> id])
       /\ UNCHANGED <<mu_starting, start>>
    \/ /\ ~mu_starting /\ ~mu_stopping /\ core_running
       /\ mu_starting' = TRUE
       /\ start' = [IdleStart EXCEPT !.pc = "guard", !.id = id]
       /\ UNCHANGED tasks

UserStarts(id) ==
    /\ ui.pc = "idle" /\ clicks < MaxClicks
    /\ ProfileStart(id)
    /\ clicks' = clicks + 1
    /\ UNCHANGED <<procVars, exitPending, guiVars, mu_stopping, stop, ui, cores,
                   timers, restartTimer, abandoned, failed_to_start, proxyVars,
                   answer, crashes, losses, spawnErrors>>

\* profile_stop from the menu (manual), or because the extra process exited
\* or the profile is deleted.
UserStops(manual) ==
    /\ ui.pc = "idle" /\ clicks < MaxClicks
    /\ running # None /\ ~mu_stopping
    /\ SpawnStop(FALSE, manual, 0)
    /\ clicks' = clicks + 1
    /\ UNCHANGED <<procVars, exitPending, guiVars, mu_starting, start, ui,
                   dsVars, proxyVars, answer, crashes, losses, spawnErrors>>

RestartCore ==
    /\ ui.pc = "idle" /\ clicks < MaxClicks
    /\ tasks' = Append(tasks, [do |-> "RestartCore", id |-> None])
    /\ clicks' = clicks + 1
    /\ UNCHANGED <<procVars, exitPending, guiVars, muVars, start, stop, ui,
                   cores, timers, restartTimer, abandoned, failed_to_start,
                   proxyVars, answer, crashes, losses, spawnErrors>>

\* newConnection: the waiting profile is taken under coreProcessMutex ...
CoreConnects ==
    /\ ui.pc = "idle" /\ proc = "up" /\ ~connected
    /\ ui' = [pc |-> "accepted", id |-> start_profile_when_core_is_up]
    /\ start_profile_when_core_is_up' = None
    /\ connected' = TRUE
    /\ UNCHANGED <<proc, box, orphans, holders, requests, lost, startedHere,
                   armed, exitPending, running, started_id, core_running, muVars, start, stop,
                   dsVars, proxyVars, answer, counters>>

\* ... the core counts as running ...
CoreAccepted ==
    /\ ui.pc = "accepted"
    /\ core_running' = TRUE
    /\ ui' = IF ui.id = None THEN IdleUi ELSE [ui EXCEPT !.pc = "started"]
    /\ UNCHANGED <<procVars, exitPending, running, started_id,
                   start_profile_when_core_is_up, muVars, start, stop, dsVars,
                   proxyVars, answer, counters>>

\* ... and CoreStarted starts the profile.
CoreStarted ==
    /\ ui.pc = "started"
    /\ ProfileStart(ui.id)
    /\ ui' = IdleUi
    /\ UNCHANGED <<procVars, exitPending, guiVars, mu_stopping, stop, cores,
                   timers, restartTimer, abandoned, failed_to_start, proxyVars,
                   answer, counters>>

-----------------------------------------------------------------------------
(* The worker of profile_start.                                            *)

calls == <<requests, answer>>
shared == <<running, started_id, muVars, stop, proxyVars, armed>>

\* Its program counter goes from p to q; what no step of it touches stays.
StartGoto(p, q) ==
    /\ start.pc = p
    /\ start' = IF q = "idle" THEN IdleStart ELSE [start EXCEPT !.pc = q]
    /\ UNCHANGED <<proc, connected, box, orphans, holders, lost, startedHere,
                   exitPending, core_running, start_profile_when_core_is_up, ui,
                   dsVars, counters>>

StartGuard ==
    /\ start.pc = "guard"
    /\ start' = [start EXCEPT !.guarded = SpmodeVpn /\ running # None,
                              !.pc = "enable"]
    /\ UNCHANGED <<procVars, exitPending, guiVars, muVars, stop, ui, dsVars,
                   proxyVars, answer, counters>>

StartEnable ==
    /\ StartGoto("enable", IF start.guarded THEN "enabled" ELSE "check")
    /\ IF start.guarded THEN Send("start", "Enable", None) ELSE UNCHANGED calls
    /\ UNCHANGED shared

\* A guard that could not be installed is only logged.
StartEnabled ==
    /\ StartGoto("enabled", "check")
    /\ Answered("start")
    /\ UNCHANGED <<requests, shared>>

StartCheck ==
    /\ StartGoto("check", IF running = None THEN "send" ELSE "stopCheck")
    /\ UNCHANGED <<calls, shared>>

\* profile_stop(false, false, true): first its test of running ...
StartStopCheck ==
    /\ StartGoto("stopCheck", IF running = None THEN "await" ELSE "stopLock")
    /\ UNCHANGED <<calls, shared>>

\* ... then its tryLock, which fails when somebody else is stopping already.
StartStopLock ==
    /\ StartGoto("stopLock", "await")
    /\ IF mu_stopping THEN UNCHANGED <<mu_stopping, stop>>
                      ELSE SpawnStop(FALSE, TRUE, 0)
    /\ UNCHANGED <<calls, running, started_id, mu_starting, proxyVars, armed>>

\* Mutant: the start does not wait for the stop it asked for.
StartAwait_NoWait ==
    /\ StartGoto("await", "send")
    /\ UNCHANGED <<calls, shared>>

\* mu_stopping.lock(); mu_stopping.unlock().
StartAwait ==
    /\ ~mu_stopping
    /\ StartGoto("await", "send")
    /\ UNCHANGED <<calls, shared>>

StartSend ==
    /\ StartGoto("send", "answer")
    /\ Send("start", "Start", start.id)
    /\ UNCHANGED shared

StartAnswer ==
    /\ StartGoto("answer", IF answer["start"] = "ok" THEN "commit" ELSE "release")
    /\ Answered("start")
    /\ UNCHANGED <<requests, shared>>

\* otpCodes->Commit(), then started_id is saved.
StartCommit ==
    /\ StartGoto("commit", "publish")
    /\ started_id' = start.id
    /\ UNCHANGED <<calls, running, muVars, stop, proxyVars, armed>>

\* Mutant: the code cannot be committed and the core is left running.
StartCommitFails_NoStop ==
    /\ start.id \in Otp
    /\ StartGoto("commit", "release")
    /\ UNCHANGED <<calls, shared>>

\* The code cannot be committed: the core is stopped again.
StartCommitFails ==
    /\ start.id \in Otp
    /\ StartGoto("commit", "undo")
    /\ Send("start", "Stop", None)
    /\ UNCHANGED shared

StartUndone ==
    /\ StartGoto("undo", "release")
    /\ Answered("start")
    /\ UNCHANGED <<requests, shared>>

\* From here on a stop finds something to stop.
StartPublish ==
    /\ StartGoto("publish", "proxy")
    /\ running' = start.id
    /\ UNCHANGED <<calls, started_id, muVars, stop, proxyVars, armed>>

StartProxy ==
    /\ StartGoto("proxy", "release")
    /\ sysProxy' = (sysProxy \/ SystemProxy)
    /\ leftBy' = IF SystemProxy /\ (mu_stopping \/ running = None)
                 THEN "overtaken start" ELSE leftBy
    /\ UNCHANGED <<calls, running, started_id, muVars, stop, armed>>

\* Mutant: a start that failed does not hand the guard back.
StartRelease_IfStarted ==
    LET release == start.guarded /\ running = start.id IN
    /\ StartGoto("release", IF release THEN "disabled" ELSE "unlock")
    /\ IF release THEN Send("start", "Disable", None) ELSE UNCHANGED calls
    /\ armed' = FALSE
    /\ UNCHANGED <<running, started_id, muVars, stop, proxyVars>>

\* Mutant: nobody waits for the guard to be handed back.
StartRelease_NoWait ==
    /\ StartGoto("release", "unlock")
    /\ requests' = IF start.guarded /\ connected
                   THEN requests \cup {[op |-> "Disable", id |-> None,
                                       from |-> "start", live |-> FALSE]}
                   ELSE requests
    /\ armed' = FALSE
    /\ UNCHANGED <<answer, running, started_id, muVars, stop, proxyVars>>

\* ~releaseGuard, on every way out.
StartRelease ==
    /\ StartGoto("release", IF start.guarded THEN "disabled" ELSE "unlock")
    /\ IF start.guarded THEN Send("start", "Disable", None) ELSE UNCHANGED calls
    /\ armed' = FALSE
    /\ UNCHANGED <<running, started_id, muVars, stop, proxyVars>>

StartReleased ==
    /\ StartGoto("disabled", "unlock")
    /\ Answered("start")
    /\ UNCHANGED <<requests, shared>>

\* ~unlockStarting.
StartUnlock ==
    /\ StartGoto("unlock", "idle")
    /\ mu_starting' = FALSE
    /\ UNCHANGED <<calls, running, started_id, mu_stopping, stop, proxyVars,
                   armed>>

StartWorker ==
    \/ StartGuard \/ StartEnable \/ StartEnabled \/ StartCheck \/ StartStopCheck
    \/ StartStopLock \/ StartAwait \/ StartSend \/ StartAnswer \/ StartCommit
    \/ StartCommitFails \/ StartUndone \/ StartPublish \/ StartProxy
    \/ StartRelease \/ StartReleased \/ StartUnlock

-----------------------------------------------------------------------------
(* The worker of profile_stop.                                             *)

StopGoto(p, q) ==
    /\ stop.pc = p
    /\ stop' = IF q = "idle" THEN IdleStop ELSE [stop EXCEPT !.pc = q]
    /\ UNCHANGED <<proc, connected, box, orphans, holders, startedHere, armed,
                   exitPending, core_running, start_profile_when_core_is_up,
                   mu_starting, start, ui, tasks, timers, restartTimer,
                   abandoned, failed_to_start, counters>>

\* A core that exited is not asked to stop.
StopSend ==
    /\ StopGoto("send", IF stop.crash THEN "proxy" ELSE "answer")
    /\ IF stop.crash THEN UNCHANGED calls ELSE Send("stop", "Stop", None)
    /\ UNCHANGED <<running, started_id, mu_stopping, cores, proxyVars, lost>>

\* A stop that fails leaves the system proxy alone, and goes on.
StopAnswer ==
    /\ StopGoto("answer", IF answer["stop"] = "ok" THEN "proxy" ELSE "forget")
    /\ leftBy' = IF answer["stop"] # "ok" /\ sysProxy THEN "failed stop"
                                                     ELSE leftBy
    /\ Answered("stop")
    /\ UNCHANGED <<requests, running, started_id, mu_stopping, cores, sysProxy,
                   lost>>

\* Mutant: only a stop that called the core clears the proxy.
StopProxy_NotOnCrash ==
    /\ StopGoto("proxy", "forget")
    /\ sysProxy' = (sysProxy /\ (stop.crash \/ ~SystemProxy))
    /\ leftBy' = IF stop.crash THEN leftBy ELSE "nothing"
    /\ UNCHANGED <<calls, running, started_id, mu_stopping, cores, lost>>

StopProxy ==
    /\ StopGoto("proxy", "forget")
    /\ sysProxy' = (sysProxy /\ ~SystemProxy)
    /\ leftBy' = "nothing"
    /\ UNCHANGED <<calls, running, started_id, mu_stopping, cores, lost>>

StopForget ==
    /\ StopGoto("forget", "clear")
    /\ started_id' = IF stop.manual THEN None ELSE started_id
    /\ UNCHANGED <<calls, running, mu_stopping, cores, proxyVars, lost>>

StopClear ==
    /\ StopGoto("clear", "unlock")
    /\ running' = None
    /\ lost' = (lost \/ (stop.crash /\ proc = "up"))
    /\ UNCHANGED <<calls, started_id, mu_stopping, cores, proxyVars>>

\* Mutant: nobody tells the event loop that the stop is over.
WakeCaller_Not == UNCHANGED cores

\* A blocked caller's event loop quits.
WakeCaller == cores' = IF stop.by = 0 THEN cores
                       ELSE [cores EXCEPT ![stop.by].pc = "stopped"]

\* Mutant: the UI part of the teardown returns early.
StopUnlock_Leaks ==
    /\ StopGoto("unlock", "idle")
    /\ WakeCaller
    /\ UNCHANGED <<calls, running, started_id, mu_stopping, proxyVars, lost>>

\* On the UI thread.
StopUnlock ==
    /\ StopGoto("unlock", "idle")
    /\ mu_stopping' = FALSE
    /\ WakeCaller
    /\ UNCHANGED <<calls, running, started_id, proxyVars, lost>>

StopWorker == \/ StopSend \/ StopAnswer \/ StopProxy
              \/ StopForget \/ StopClear \/ StopUnlock

-----------------------------------------------------------------------------
(* DS_cores.  While a profile_stop of its own blocks it, it pumps a nested *)
(* event loop, so that timers, posted tasks and exits still run, on top.   *)

Depth == Len(cores)
Top == cores[Depth]
Pumping == Depth > 0 => Top.pc = "wait"
Pop == SubSeq(cores, 1, Depth - 1)
Frame(do, pc) == [do |-> do, pc |-> pc]
TopAt(do, pc) == Depth > 0 /\ Top = Frame(do, pc)
TopGoto(pc) == cores' = [cores EXCEPT ![Depth].pc = pc]

process == <<procVars, exitPending, core_running, failed_to_start, spawnErrors>>
stopping == <<mu_stopping, stop>>
restarts == <<timers, restartTimer, abandoned, start_profile_when_core_is_up>>

\* What no step of DS_cores touches.
DsStep == UNCHANGED <<running, started_id, mu_starting, start, ui, proxyVars,
                      answer, clicks, crashes, losses>>

\* A start that found no core leaves its profile for the one it launches.
RunTask ==
    /\ Pumping /\ tasks # <<>>
    /\ tasks' = Tail(tasks)
    /\ LET t == Head(tasks) IN
       IF t.do = "Start"
       THEN /\ start_profile_when_core_is_up' = t.id
            /\ cores' = Append(cores, Frame("Restart", "kill"))
       ELSE /\ cores' = Append(cores, Frame("RestartCore", "check"))
            /\ UNCHANGED start_profile_when_core_is_up
    /\ UNCHANGED <<process, stopping, timers, restartTimer, abandoned>>
    /\ DsStep

TimerFires ==
    /\ Pumping /\ timers > 0
    /\ timers' = timers - 1
    /\ cores' = Append(cores, Frame("Restart", "kill"))
    /\ UNCHANGED <<process, stopping, tasks, restartTimer, abandoned,
                   start_profile_when_core_is_up>>
    /\ DsStep

\* stateChanged to NotRunning.
ExitSeen ==
    /\ Pumping /\ exitPending
    /\ exitPending' = FALSE
    /\ core_running' = FALSE
    /\ cores' = IF failed_to_start THEN cores
                ELSE Append(cores, Frame("Exited", "check"))
    /\ UNCHANGED <<procVars, failed_to_start, spawnErrors, stopping, tasks,
                   restarts>>
    /\ DsStep

\* profile_stop(true, true, manual): the test of running ...
DsStopCheck ==
    /\ Depth > 0 /\ Top.pc = "check"
    /\ TopGoto(IF running = None THEN "stopped" ELSE "lock")
    /\ UNCHANGED <<process, stopping, tasks, restarts>>
    /\ DsStep

\* ... and its tryLock.
DsStopLock ==
    /\ Depth > 0 /\ Top.pc = "lock"
    /\ IF mu_stopping
       THEN TopGoto("stopped") /\ UNCHANGED stopping
       ELSE TopGoto("wait") /\ SpawnStop(TRUE, Top.do = "RestartCore", Depth)
    /\ UNCHANGED <<process, tasks, restarts>>
    /\ DsStep

\* Mutant: the restart is forgotten after the profile was stopped.
ExitRestarts_NoTimer ==
    /\ TopAt("Exited", "stopped")
    /\ cores' = Pop
    /\ restartTimer' = TRUE
    /\ start_profile_when_core_is_up' = started_id
    /\ UNCHANGED <<process, stopping, tasks, timers, abandoned>>
    /\ DsStep

\* The core is launched again in 200 ms, with the profile that was started.
ExitRestarts ==
    /\ TopAt("Exited", "stopped")
    /\ cores' = Pop
    /\ restartTimer' = TRUE
    /\ start_profile_when_core_is_up' = started_id
    /\ timers' = timers + 1
    /\ UNCHANGED <<process, stopping, tasks, abandoned>>
    /\ DsStep

\* Less than ten seconds after the last exit: no automatic restart.
ExitTooOften ==
    /\ TopAt("Exited", "stopped") /\ restartTimer
    /\ cores' = Pop
    /\ restartTimer' = FALSE
    /\ abandoned' = TRUE
    /\ UNCHANGED <<process, stopping, tasks, timers,
                   start_profile_when_core_is_up>>
    /\ DsStep

\* RestartCore's Kill(): stateChanged comes out of waitForFinished, so the exit
\* is handled right here.
KillCore ==
    /\ TopAt("RestartCore", "stopped")
    /\ IF proc = "up" \/ exitPending
       THEN /\ core_running' = FALSE
            /\ cores' = IF failed_to_start THEN Pop
                        ELSE Append(Pop, Frame("Exited", "check"))
       ELSE cores' = Pop /\ UNCHANGED core_running
    /\ proc' = "down" /\ Dies
    /\ exitPending' = FALSE
    /\ UNCHANGED <<failed_to_start, spawnErrors, stopping, tasks, restarts>>
    /\ DsStep

\* Restart(): the exit of the old process is seen with restarting set, which
\* only clears core_running; then the new one is launched.
Restart ==
    /\ TopAt("Restart", "kill")
    /\ cores' = Pop
    /\ Dies
    /\ exitPending' = FALSE
    /\ abandoned' = FALSE
    /\ \/ /\ proc' = "up"
          /\ core_running' = (core_running /\ proc = "down" /\ ~exitPending)
          /\ UNCHANGED <<failed_to_start, spawnErrors>>
       \/ /\ spawnErrors < MaxSpawnErrors
          /\ proc' = "down"
          /\ core_running' = FALSE
          /\ failed_to_start' = TRUE
          /\ spawnErrors' = spawnErrors + 1
    /\ UNCHANGED <<stopping, tasks, timers, restartTimer,
                   start_profile_when_core_is_up>>
    /\ DsStep

DSCores == \/ RunTask \/ TimerFires \/ ExitSeen \/ DsStopCheck \/ DsStopLock
           \/ ExitRestarts \/ ExitTooOften \/ KillCore \/ Restart

-----------------------------------------------------------------------------
User == \/ \E id \in Profiles : UserStarts(id)
        \/ \E manual \in BOOLEAN : UserStops(manual)
        \/ RestartCore

Ui == CoreConnects \/ CoreAccepted \/ CoreStarted

Calls == \E w \in Workers : CallFails(w) \/ CallTimesOut(w)

Next == \/ User \/ Ui \/ StartWorker \/ StopWorker \/ DSCores
        \/ Serve \/ Calls \/ CoreDies

Spec == Init /\ [][Next]_vars

-----------------------------------------------------------------------------
(* Properties.                                                             *)

\* The variables keep their types; the count of guard holders never goes below
\* zero.
TypeOK ==
    /\ running \in Ids /\ started_id \in Ids
    /\ start_profile_when_core_is_up \in Ids
    /\ {core_running, mu_starting, mu_stopping, restartTimer, abandoned,
        failed_to_start, sysProxy, exitPending, connected, lost,
        startedHere, armed} \subseteq BOOLEAN
    /\ start \in [pc : {"idle", "guard", "enable", "enabled", "check",
                        "stopCheck", "stopLock", "await", "send", "answer",
                        "commit", "undo", "publish", "proxy", "release",
                        "disabled", "unlock"},
                  id : Ids, guarded : BOOLEAN]
    /\ stop \in [pc : {"idle", "send", "answer", "proxy", "forget", "clear",
                       "unlock"},
                 crash : BOOLEAN, manual : BOOLEAN, by : 0..Depth]
    /\ ui \in [pc : {"idle", "accepted", "started"}, id : Ids]
    /\ cores \in Seq([do : {"Exited", "RestartCore", "Restart"},
                      pc : {"check", "lock", "wait", "stopped", "kill"}])
    /\ tasks \in Seq([do : {"Start", "RestartCore"}, id : Ids])
    /\ timers \in Nat /\ holders \in Nat
    /\ leftBy \in {"nothing", "overtaken start", "failed stop"}
    /\ proc \in {"up", "down"}
    /\ box \in Ids /\ orphans \subseteq Profiles
    /\ requests \subseteq Requests
    /\ answer \in [Workers -> Done \cup {"none", "waiting"}]

\* Nobody is starting, stopping or restarting anything and the core is there.
AtRest ==
    /\ start.pc = "idle" /\ stop.pc = "idle" /\ ui.pc = "idle"
    /\ cores = <<>> /\ tasks = <<>> /\ timers = 0
    /\ connected /\ requests = {}

\* The window shows the profile the core runs: whenever everything has come to
\* rest, the process that acknowledged the last Start is still the one, and it
\* was neither given up on nor stopped unasked, running is what it published.
GuiMatchesCore == (AtRest /\ startedHere /\ ~lost) => running = box

\* profile_start never asks the core to start over a published instance (which
\* the core would unpublish without closing), unless a call to this process
\* was given up on or its profile was stopped as if it had exited.
StartFindsNoBox == orphans # {} => lost

\* From the acknowledged Enable to the Disable of a transition the filter is
\* up ("keeps the filter up until the last of them is done"), and releaseGuard
\* leaves none installed afterwards, whichever way the start ended; unless a
\* call to this process was given up on: holders are anonymous, so a Disable
\* executed late takes the holder of the next transition.
FilterCoversGap ==
    /\ armed /\ ~lost => holders > 0
    /\ AtRest /\ ~lost => holders = 0

\* The system proxy outlives the connection in two ways only: profile_stop
\* could not stop the core, or profile_start switched the proxy on after a
\* stop had already gone by.
LeftProxyHasCause ==
    (AtRest /\ running = None /\ sysProxy) => leftBy # "nothing"

\* Whoever is in the middle of something can go on, or waits for somebody who
\* can: the worker that holds a mutex of profile_start or profile_stop, the one
\* that waits for an answer, and DS_cores, which waits for a stop only.  A core
\* that exited will be launched again, unless it exits too often or cannot be.
NobodyIsStuck ==
    /\ mu_stopping => ENABLED StopWorker \/ answer["stop"] = "waiting"
    /\ mu_starting => \/ ENABLED StartWorker \/ answer["start"] = "waiting"
                      \/ start.pc = "await" /\ mu_stopping
    /\ \A w \in Workers : answer[w] = "waiting" => ENABLED (Serve \/ CallFails(w))
    /\ cores # <<>> => ENABLED DSCores \/ mu_stopping
    /\ proc = "down" => \/ exitPending \/ timers > 0 \/ cores # <<>>
                        \/ abandoned \/ failed_to_start
=============================================================================
