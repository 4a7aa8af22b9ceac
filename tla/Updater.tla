------------------------------- MODULE Updater -------------------------------
(***************************************************************************)
(* Updating Throned: the window downloads a package beside the program,    *)
(* hands over to the updater and quits; the updater waits for it to be     *)
(* gone, unpacks the package into a stage, replaces the installed files    *)
(* one by one and removes the package last.  Either process may die        *)
(* between any two steps, every file operation may fail, and the user may  *)
(* start Throned again on whatever is installed (never while the updater   *)
(* still runs: the one assumption about the user).                         *)
(* A file is the version it comes from; Torn is a file written in part.    *)
(***************************************************************************)
EXTENDS Naturals, Sequences

CONSTANTS Versions,     \* the releases, Base included
          Files,        \* every name a release may install
          Content,      \* Content[v]: the names release v packs
          Base,         \* the release installed at first
          MaxClicks,    \* bound: how many downloads the user asks for
          MaxRuns,      \* bound: how often the updater is started
          None, Torn

ASSUME ReleasesAssumption ==
    /\ Content \in [Versions -> SUBSET Files]
    /\ Base \in Versions /\ MaxClicks \in Nat /\ MaxRuns \in Nat
    /\ None \notin Versions /\ Torn \notin Versions /\ Torn # None

VARIABLES gui,          \* the process of the window: "off", "running", "exiting"
          widget,       \* UpdateStatusWidget: its state and the asset it names
          thread,       \* the download thread of each asset
          posted,       \* results posted to the UI thread
          clicks,
          package,      \* Throned.zip
          installed,    \* the files of the installation
          stage,        \* the files below .throned-update
          pc,           \* the step of updateWithProgress
          release,      \* the release in the archive it opened
          todo,         \* entries left of the loop it is in
          result,       \* how the last run of the updater ended
          before,       \* history: the installation when that run began to copy
          runs
dlVars == <<thread, posted, clicks>>
guiVars == <<gui, widget, dlVars>>
updVars == <<pc, release, todo, result, before, runs>>
vars == <<guiVars, package, installed, stage, updVars>>

Empty == [f \in Files |-> None]
Hidden == [state |-> "hidden", asset |-> None]
NoThreads == [v \in Versions |-> "none"]
Contents == [Files -> Versions \cup {None, Torn}]

Init == /\ gui = "running" /\ widget = Hidden /\ thread = NoThreads /\ posted = <<>> /\ clicks = 0
        /\ package = None /\ stage = Empty
        /\ installed = [f \in Files |-> IF f \in Content[Base] THEN Base ELSE None]
        /\ pc = "off" /\ release = None /\ todo = {} /\ result = "none"
        /\ before = Empty /\ runs = 0

-----------------------------------------------------------------------------
(* The window.                                                             *)

\* The user accepts the prompt, or presses Retry: a thread per click.
StartDownload(v) ==
    /\ gui = "running" /\ v # Base /\ thread[v] = "none"
    /\ clicks < MaxClicks /\ clicks' = clicks + 1
    /\ widget' = [state |-> "downloading", asset |-> v]
    /\ thread' = [thread EXCEPT ![v] = "started"]
    /\ UNCHANGED <<gui, posted, package, installed, stage, updVars>>

\* mu_download_update is held from the first byte until the result is posted.
Downloading == {v \in Versions : thread[v] \in {"loading", "saved", "failed"}}

\* Mutant: the download does not take the lock.
TryLockNone(v) ==
    /\ thread[v] = "started"
    /\ thread' = [thread EXCEPT ![v] = "loading"]
    /\ UNCHANGED <<gui, widget, posted, clicks, package, installed, stage, updVars>>

\* The thread takes mu_download_update, or gives up without a word.
TryLock(v) ==
    /\ thread[v] = "started"
    /\ thread' = [thread EXCEPT ![v] = IF Downloading = {} THEN "loading" ELSE "none"]
    /\ UNCHANGED <<gui, widget, posted, clicks, package, installed, stage, updVars>>

\* DownloadAsset: QSaveFile leaves the old package alone until the new one is whole.
SavePackage(v) ==
    /\ thread[v] = "loading"
    /\ \/ package' = v /\ thread' = [thread EXCEPT ![v] = "saved"]
       \/ package' = package /\ thread' = [thread EXCEPT ![v] = "failed"]
    /\ UNCHANGED <<gui, widget, posted, clicks, installed, stage, updVars>>

PostResult(v) ==
    /\ thread[v] \in {"saved", "failed"}
    /\ posted' = Append(posted, [asset |-> v, ok |-> thread[v] = "saved"])
    /\ thread' = [thread EXCEPT ![v] = "none"]
    /\ UNCHANGED <<gui, widget, clicks, package, installed, stage, updVars>>

\* showReady or showError on the UI thread.
ShowResult ==
    /\ gui = "running" /\ posted # <<>>
    /\ widget' = [state |-> IF Head(posted).ok THEN "ready" ELSE "error",
                  asset |-> Head(posted).asset]
    /\ posted' = Tail(posted)
    /\ UNCHANGED <<gui, thread, clicks, package, installed, stage, updVars>>

Dismiss ==
    /\ gui = "running" /\ widget.state \in {"ready", "error"}
    /\ widget' = Hidden
    /\ UNCHANGED <<gui, dlVars, package, installed, stage, updVars>>

\* "Restart now": the window prepares its exit, starts the updater and quits; on
\* Windows it stays when updater.old cannot be written, and the start may fail.
RestartNow ==
    /\ gui = "running" /\ widget.state = "ready" /\ pc = "off" /\ runs < MaxRuns
    /\ gui' = "exiting"
    /\ \/ pc' = "wait" /\ runs' = runs + 1 /\ result' = "none"
       \/ UNCHANGED <<pc, runs, result>>
    /\ UNCHANGED <<widget, dlVars, package, installed, stage, release, todo, before>>

\* The process ends (or is killed) with its threads.
GuiEnds ==
    /\ gui # "off" /\ gui' = "off"
    /\ widget' = Hidden /\ thread' = NoThreads /\ posted' = <<>>
    /\ UNCHANGED <<clicks, package, installed, stage, updVars>>

\* The user starts whatever is installed.
GuiStarts ==
    /\ gui = "off" /\ pc = "off" /\ gui' = "running"
    /\ UNCHANGED <<widget, dlVars, package, installed, stage, updVars>>

-----------------------------------------------------------------------------
(* The updater.                                                            *)

Goto(l) == pc' = l

\* The process ends, and its variables with it.
End == Goto("off") /\ release' = None /\ todo' = {} /\ before' = Empty

\* updateWithProgress returns an error: its defer runs, then failUpdate.
Fail == result' = "failed" /\ Goto("unstage")
\* ... and before the defer is registered.
FailEarly == result' = "failed" /\ End

\* RemoveAll: all of the stage, or what a locked file leaves of it.
RemoveStage == \E kept \in SUBSET Files :
    stage' = [f \in Files |-> IF f \in kept THEN stage[f] ELSE None]

\* waitForParent returns when the parent is gone, or fails after 30 s.
WaitParent ==
    /\ pc = "wait"
    /\ \/ gui = "off" /\ Goto("stat") /\ UNCHANGED <<result, release, todo, before>>
       \/ gui # "off" /\ FailEarly
    /\ UNCHANGED <<guiVars, package, installed, stage, runs>>

\* Mutant: entries are unpacked over whatever stage the last run left.
ClearStageKept ==
    /\ pc = "stat" /\ package # None /\ release' = package /\ todo' = Content[package]
    /\ Goto("extract")
    /\ UNCHANGED <<guiVars, package, installed, stage, result, before, runs>>

\* Stat, RemoveAll of what an earlier run left of the stage, zip.OpenReader.
ClearStage ==
    /\ pc = "stat"
    /\ \/ package # None /\ stage' = Empty /\ release' = package
          /\ todo' = Content[package] /\ Goto("extract") /\ UNCHANGED <<result, before>>
       \/ package # None /\ RemoveStage /\ FailEarly
       \/ package = None /\ FailEarly /\ UNCHANGED stage
    /\ UNCHANGED <<guiVars, package, installed, runs>>

\* One entry: opened with O_TRUNC and written in place.
Extract(f) ==
    /\ pc = "extract" /\ f \in todo
    /\ \/ stage' = [stage EXCEPT ![f] = release] /\ todo' = todo \ {f} /\ UNCHANGED <<pc, result>>
       \/ stage' = [stage EXCEPT ![f] = Torn] /\ Fail /\ UNCHANGED todo
    /\ UNCHANGED <<guiVars, package, installed, release, before, runs>>

\* The directory must be there; copyTreeWithProgress walks what the stage holds.
Staged == {f \in Files : stage[f] # None}
\* Mutant: the package is removed before the walk instead of after it.
ExtractedRemoving ==
    /\ pc = "extract" /\ todo = {}
    /\ todo' = Staged /\ before' = installed /\ Goto("copy") /\ package' = None
    /\ UNCHANGED <<guiVars, installed, stage, release, result, runs>>

Extracted ==
    /\ pc = "extract" /\ todo = {}
    /\ \/ Staged # {} /\ todo' = Staged /\ before' = installed /\ Goto("copy") /\ UNCHANGED result
       \/ Staged = {} /\ Fail /\ UNCHANGED <<todo, before>>
    /\ UNCHANGED <<guiVars, package, installed, stage, release, runs>>

\* One file of the walk: a temporary in the target's directory, then one rename.
Install(f) ==
    /\ pc = "copy" /\ f \in todo
    /\ \/ installed' = [installed EXCEPT ![f] = stage[f]] /\ todo' = todo \ {f}
          /\ UNCHANGED <<pc, result>>
       \/ Fail /\ UNCHANGED <<installed, todo>>
    /\ UNCHANGED <<guiVars, package, stage, release, before, runs>>

\* The package goes last, once the walk has ended.
RemovePackage ==
    /\ pc = "copy" /\ todo = {}
    /\ \/ package' = None /\ result' = "installed" /\ Goto("unstage")
       \/ Fail /\ UNCHANGED package
    /\ UNCHANGED <<guiVars, installed, stage, release, todo, before, runs>>

\* defer os.RemoveAll(stageName), whose error nobody reads.
Unstage ==
    /\ pc = "unstage" /\ RemoveStage
    /\ IF result = "installed" THEN Goto("restart") /\ UNCHANGED <<release, todo, before>> ELSE End
    /\ UNCHANGED <<guiVars, package, installed, result, runs>>

\* restartThroned; an early exit of Throned is reported, nothing is undone.
Restart ==
    /\ pc = "restart" /\ End /\ gui' \in {"running", "off"}
    /\ UNCHANGED <<widget, dlVars, package, installed, stage, result, runs>>

\* The updater is killed, or the machine goes down: an entry may be half extracted.
UpdaterDies ==
    /\ pc # "off" /\ End
    /\ result' = IF result = "installed" THEN result ELSE "died"
    /\ \/ UNCHANGED stage
       \/ \E f \in todo : pc = "extract" /\ stage' = [stage EXCEPT ![f] = Torn]
    /\ UNCHANGED <<guiVars, package, installed, runs>>

Next == \/ \E v \in Versions : StartDownload(v) \/ TryLock(v) \/ SavePackage(v) \/ PostResult(v)
        \/ ShowResult \/ Dismiss \/ RestartNow \/ GuiEnds \/ GuiStarts
        \/ WaitParent \/ ClearStage \/ Extracted \/ RemovePackage \/ Unstage \/ Restart
        \/ \E f \in Files : Extract(f) \/ Install(f)
        \/ UpdaterDies

Spec == Init /\ [][Next]_vars

-----------------------------------------------------------------------------
TypeOK ==
    /\ gui \in {"off", "running", "exiting"}
    /\ widget \in [state : {"hidden", "downloading", "ready", "error"}, asset : Versions \cup {None}]
    /\ thread \in [Versions -> {"none", "started", "loading", "saved", "failed"}]
    /\ posted \in Seq([asset : Versions, ok : BOOLEAN])
    /\ package \in Versions \cup {None} /\ release \in Versions \cup {None}
    /\ installed \in Contents /\ stage \in Contents /\ before \in Contents
    /\ pc \in {"off", "wait", "stat", "extract", "copy", "unstage", "restart"}
    /\ todo \in SUBSET Files /\ clicks \in 0..MaxClicks /\ result \in {"none", "failed", "died", "installed"}
    /\ runs \in 0..MaxRuns

Whole(v) == \A f \in Content[v] : installed[f] = v

\* Wherever the window and the updater fail or die, what is left can be repaired: no
\* installed file is torn, and either one release is installed whole or the package
\* of one is still there for another run.
Healable == /\ \A f \in Files : installed[f] # Torn
            /\ package = None => \E v \in Versions : Whole(v)

\* A run that reports success has installed every file of the release it opened and
\* touched no other file: nothing of an earlier, interrupted run comes with it.
InstalledAlone ==
    result = "installed" /\ pc # "off"
        => /\ release # None /\ Whole(release)
           /\ \A f \in Files \ Content[release] : installed[f] = before[f]

\* When the widget offers to restart into a release and no newer result is on its way,
\* the package on disk is that release, whichever downloads were started meanwhile.
ReadyIsOnDisk == widget.state = "ready" /\ posted = <<>> /\ gui = "running"
                 /\ (\A v \in Versions : thread[v] # "saved")
                    => package = widget.asset
=============================================================================
