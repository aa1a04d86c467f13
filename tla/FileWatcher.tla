---------------------------- MODULE FileWatcher ----------------------------
(***************************************************************************)
(* Hot reload: from a user saving the INI file to the registry holding     *)
(* what was saved.  Four actors: the init thread (reads the INI, installs  *)
(* the hooks, then creates the watcher), the watcher's thread, the loader  *)
(* calling stop(), and the outside world, that is an editor, other writers *)
(* in the same directory (the plugin's own log is one) and the kernel's    *)
(* change notification.                                                    *)
(*                                                                         *)
(* Abstracted: the content of the file is the number of the save it comes  *)
(* from, or Torn while a save is half done; a change record is what        *)
(* records_name_our_file can make of its name; what registry.reload does   *)
(* with the parsed file is module HookRegistry's subject.                  *)
(***************************************************************************)
EXTENDS Integers, Sequences, SequencesExt

CONSTANTS
    MaxSaves,   \* bound on the saves of our file
    MaxNoise,   \* bound on the writes to other files of the directory
    BufferCap,  \* change records the kernel's 4096-byte buffer can hold
    Faults      \* whether the calls into the kernel may fail

ASSUME BoundsAssumption ==
    /\ MaxSaves \in Nat /\ MaxNoise \in Nat /\ BufferCap \in Nat \ {0}
    /\ Faults \in BOOLEAN

Torn == -1          \* truncated, not yet written
Defaults == -2      \* nothing could be read: every key at its default
Content == {Torn, Defaults} \union 0 .. MaxSaves

\* A record names our file, another file, or has a name whose conversion
\* throws.
Record == {"ours", "other", "bad"}

VARIABLES
    disk,       \* what the file holds
    editor,     \* "rest", "truncated" or "written" (handle still open)
    saves,      \* saves begun so far
    noise,      \* writes to other files so far
    init,       \* the init thread: "read", "install", "create", then "done"
                \* or "aborted"
    ini,        \* the content init_game parsed
    loaded,     \* the content the registry was last given
    watcher,    \* the watcher's thread, see WatcherPC
    armed,      \* the kernel keeps records for the directory handle
    pending,    \* a ReadDirectoryChangesW is outstanding (event not signalled)
    notes,      \* records the kernel holds
    overflow,   \* the kernel has dropped records and will say so
    batch,      \* the records the last completed read delivered
    data,       \* the content the callback parsed
    stopping,   \* m_stopping
    requested,  \* stop requested on the thread's token, hence stop_event set
    missed,     \* history: a change of our file went by unnoticed since the
                \* registry last held the content of the file
    late        \* history: callbacks begun after stop() set m_stopping

outsideVars == <<disk, editor, saves, noise>>
initVars == <<init, ini>>
kernelVars == <<armed, pending, notes, overflow, batch>>
stopVars == <<stopping, requested>>
\* What a step of the watcher's thread leaves alone unless it says otherwise.
worldVars == <<outsideVars, initVars, loaded, kernelVars, data, stopVars,
               late>>
vars == <<outsideVars, initVars, loaded, watcher, kernelVars, data, stopVars,
          missed, late>>

WatcherPC == {"none", "open", "loop", "wait", "result", "scan", "debounce",
              "check", "callback", "reload", "done"}

TypeOK ==
    /\ disk \in Content
    /\ editor \in {"rest", "truncated", "written"}
    /\ saves \in 0 .. MaxSaves
    /\ noise \in 0 .. MaxNoise
    /\ init \in {"read", "install", "create", "done", "aborted"}
    /\ ini \in Content /\ loaded \in Content /\ data \in Content
    /\ watcher \in WatcherPC
    /\ armed \in BOOLEAN /\ pending \in BOOLEAN /\ overflow \in BOOLEAN
    /\ stopping \in BOOLEAN /\ requested \in BOOLEAN /\ missed \in BOOLEAN
    /\ notes \in Seq(Record) /\ batch \in Seq(Record)
    /\ Len(notes) <= BufferCap
    /\ pending => watcher \in {"wait", "done"}   \* one read at a time
    /\ late \in Nat

Init ==
    /\ disk = 0
    /\ editor = "rest"
    /\ saves = 0
    /\ noise = 0
    /\ init = "read"
    /\ ini = Defaults
    /\ loaded = Defaults
    /\ watcher = "none"
    /\ armed = FALSE
    /\ pending = FALSE
    /\ notes = <<>>
    /\ overflow = FALSE
    /\ batch = <<>>
    /\ data = Defaults
    /\ stopping = FALSE
    /\ requested = FALSE
    /\ missed = FALSE
    /\ late = 0

-----------------------------------------------------------------------------
(* The outside world.                                                      *)

\* The kernel notes a change for an armed handle; a full buffer loses what it
\* held and the new record.
Note(r) ==
    /\ IF ~armed \/ overflow
         THEN UNCHANGED <<notes, overflow>>
         ELSE IF Len(notes) < BufferCap
           THEN notes' = Append(notes, r) /\ UNCHANGED overflow
           ELSE notes' = <<>> /\ overflow' = TRUE
    /\ UNCHANGED <<armed, pending, batch>>

Dropped(r) == overflow \/ Len(notes) = BufferCap

\* Our file changes, and the change will reach the watcher or not.  Before the
\* init thread has read the file there is nothing to notice.
OurChange ==
    /\ Note("ours")
    /\ missed' = (missed \/ (init # "read" /\ (~armed \/ Dropped("ours"))))

Truncate ==
    /\ editor = "rest"
    /\ saves < MaxSaves
    /\ disk' = Torn
    /\ editor' = "truncated"
    /\ saves' = saves + 1
    /\ OurChange
    /\ UNCHANGED <<noise, initVars, loaded, watcher, data, stopVars,
                   late>>

Write ==
    /\ editor = "truncated"
    /\ disk' = saves
    /\ editor' = "written"
    /\ OurChange
    /\ UNCHANGED <<saves, noise, initVars, loaded, watcher, data, stopVars,
                   late>>

\* Closing the file is no last-write change.
Close ==
    /\ editor = "written"
    /\ editor' = "rest"
    /\ UNCHANGED <<disk, saves, noise, initVars, loaded, watcher, kernelVars,
                   data, stopVars, missed, late>>

\* An editor that writes a new file and renames it over ours changes the
\* content without a last-write change of our name.
Replace ==
    /\ editor = "rest"
    /\ saves < MaxSaves
    /\ disk' = saves + 1
    /\ saves' = saves + 1
    /\ Note("other")
    /\ missed' = (missed \/ init # "read")
    /\ UNCHANGED <<editor, noise, initVars, loaded, watcher, data, stopVars,
                   late>>

\* A write to another file; the full buffer may cost us one of our records.
OtherWrite ==
    /\ noise < MaxNoise
    /\ noise' = noise + 1
    /\ \E r \in {"other", "bad"} : Note(r)
    /\ missed' = (missed \/ (armed /\ Len(notes) = BufferCap
                             /\ Contains(notes, "ours")))
    /\ UNCHANGED <<disk, editor, saves, initVars, loaded, watcher, data,
                   stopVars, late>>

\* The outstanding read completes with what has accumulated; after an overflow
\* it completes with no bytes.
Complete ==
    /\ pending
    /\ notes # <<>> \/ overflow
    /\ batch' = notes
    /\ notes' = <<>>
    /\ overflow' = FALSE
    /\ pending' = FALSE
    /\ UNCHANGED <<armed, outsideVars, initVars, loaded, watcher, data,
                   stopVars, missed, late>>

-----------------------------------------------------------------------------
(* The init thread: init_game from the reading of the INI on.              *)

\* INIFile::read fails only while somebody holds the file open.
ReadIni ==
    /\ init = "read"
    /\ init' = "install"
    /\ \/ ini' = disk /\ UNCHANGED missed
       \/ /\ editor # "rest"
          /\ ini' = Defaults
          /\ missed' = (editor = "written")
    /\ UNCHANGED <<outsideVars, loaded, watcher, kernelVars, data, stopVars,
                   late>>

InstallAll ==
    /\ init = "install"
    /\ loaded' = ini
    /\ init' = "create"
    /\ missed' = (missed /\ ini # disk)
    /\ UNCHANGED <<outsideVars, ini, watcher, kernelVars, data, stopVars,
                   late>>

\* An exception from install_all: the watcher is never created.
InstallThrows ==
    /\ init = "install"
    /\ init' = "aborted"
    /\ missed' = TRUE
    /\ UNCHANGED <<outsideVars, ini, loaded, watcher, kernelVars, data,
                   stopVars, late>>

\* make_unique<FileWatcher>: the member thread starts at once.
CreateWatcher ==
    /\ init = "create"
    /\ init' = "done"
    /\ watcher' = "open"
    /\ UNCHANGED <<outsideVars, ini, loaded, kernelVars, data, stopVars,
                   missed, late>>

InitStep == ReadIni \/ InstallAll \/ InstallThrows \/ CreateWatcher

-----------------------------------------------------------------------------
(* FileWatcher::watch_loop.                                                *)

Goto(pc) == watcher' = pc

\* Leaving the loop for a failure: later changes go unnoticed.
GiveUp == Faults /\ Goto("done") /\ missed' = TRUE

OpenDirectory ==
    /\ watcher = "open"
    /\ (Goto("loop") /\ UNCHANGED missed) \/ GiveUp
    /\ UNCHANGED worldVars

\* Mutant: the directory is opened anew for every read.
IssueRead_Reopens ==
    /\ watcher = "loop"
    /\ ~requested
    /\ Goto("wait")
    /\ armed' = TRUE
    /\ pending' = TRUE
    /\ notes' = <<>>
    /\ overflow' = FALSE
    /\ UNCHANGED <<outsideVars, initVars, loaded, batch, data, stopVars,
                   missed, late>>

\* The loop condition and the call of ReadDirectoryChangesW; the first one
\* makes the kernel keep records.
IssueRead ==
    /\ watcher = "loop"
    /\ ~requested
    /\ \/ /\ Goto("wait")
          /\ armed' = TRUE
          /\ pending' = TRUE
          /\ UNCHANGED <<notes, overflow, batch, missed>>
       \/ GiveUp /\ UNCHANGED kernelVars
    /\ UNCHANGED <<outsideVars, initVars, loaded, data, stopVars, late>>

LeaveLoop ==
    /\ watcher = "loop"
    /\ requested
    /\ Goto("done")
    /\ UNCHANGED <<worldVars, missed>>

\* Mutant: the wait is for the read alone.
WaitReturns_ReadOnly ==
    /\ watcher = "wait"
    /\ ~pending
    /\ Goto("result")
    /\ UNCHANGED <<worldVars, missed>>

\* WaitForMultipleObjects reports the read's event before the stop event, or
\* fails.
WaitReturns ==
    /\ watcher = "wait"
    /\ \/ ~pending /\ Goto("result") /\ UNCHANGED missed
       \/ pending /\ requested /\ Goto("done") /\ UNCHANGED missed
       \/ GiveUp
    /\ UNCHANGED worldVars

\* Mutant: a result without bytes is taken for the end.
TakeResult_EmptyEnds ==
    /\ watcher = "result"
    /\ Goto(IF batch = <<>> THEN "done" ELSE "scan")
    /\ UNCHANGED <<worldVars, missed>>

\* A failed result is dropped with its records, a result without bytes too.
TakeResult ==
    /\ watcher = "result"
    /\ \/ Goto(IF batch = <<>> THEN "loop" ELSE "scan") /\ UNCHANGED missed
       \/ /\ Faults
          /\ Goto("loop")
          /\ missed' = (missed \/ Contains(batch, "ours"))
    /\ UNCHANGED worldVars

\* records_name_our_file: it looks for our name up to the first record whose
\* name cannot be converted.
NamesOurFile(records) ==
    \E k \in DOMAIN records :
        records[k] = "ours" /\ \A j \in 1 .. k : records[j] # "bad"

Scan ==
    /\ watcher = "scan"
    /\ Goto(IF NamesOurFile(batch) THEN "debounce" ELSE "loop")
    /\ missed' = (missed \/ (Contains(batch, "ours") /\ ~NamesOurFile(batch)))
    /\ UNCHANGED worldVars

\* 100 ms on the stop event: either it is set, or the time passes.
Debounce ==
    /\ watcher = "debounce"
    /\ Goto(IF requested THEN "done" ELSE "check")
    /\ UNCHANGED <<worldVars, missed>>

\* Mutant: m_stopping is not looked at again after the debounce.
CheckStopping_Skipped ==
    /\ watcher = "check"
    /\ Goto("callback")
    /\ UNCHANGED <<worldVars, missed>>

CheckStopping ==
    /\ watcher = "check"
    /\ Goto(IF stopping THEN "done" ELSE "callback")
    /\ UNCHANGED <<worldVars, missed>>

\* The callback of init_game reads the file; while somebody holds it open the
\* read may fail, and the callback gives up without a retry.
CallbackReads ==
    /\ watcher = "callback"
    /\ late' = IF stopping THEN late + 1 ELSE late
    /\ \/ data' = disk /\ Goto("reload") /\ UNCHANGED missed
       \/ /\ editor # "rest"
          /\ Goto("loop")
          /\ missed' = (missed \/ editor = "written")
          /\ UNCHANGED data
    /\ UNCHANGED <<outsideVars, initVars, loaded, kernelVars, stopVars>>

\* registry.reload(data), and back to the loop.
Reload ==
    /\ watcher = "reload"
    /\ loaded' = data
    /\ Goto("loop")
    /\ missed' = (missed /\ data # disk)
    /\ UNCHANGED <<outsideVars, initVars, kernelVars, data, stopVars, late>>

WatcherStep ==
    \/ OpenDirectory \/ IssueRead \/ LeaveLoop \/ WaitReturns \/ TakeResult
    \/ Scan \/ Debounce \/ CheckStopping \/ CallbackReads \/ Reload

-----------------------------------------------------------------------------
(* stop(), called by the loader on a watcher that has been created.        *)

SetStopping ==
    /\ init = "done"
    /\ ~stopping
    /\ stopping' = TRUE
    /\ UNCHANGED <<outsideVars, initVars, loaded, watcher, kernelVars, data,
                   requested, missed, late>>

RequestStop ==
    /\ stopping
    /\ ~requested
    /\ requested' = TRUE
    /\ UNCHANGED <<outsideVars, initVars, loaded, watcher, kernelVars, data,
                   stopping, missed, late>>

-----------------------------------------------------------------------------
EditorStep == Truncate \/ Write \/ Close \/ Replace \/ OtherWrite
Next == EditorStep \/ Complete \/ InitStep \/ WatcherStep
        \/ SetStopping \/ RequestStop

\* Threads run, an outstanding read completes, a save that has begun is
\* finished; nobody has to save or to stop.
Fairness ==
    /\ WF_vars(InitStep)
    /\ WF_vars(WatcherStep)
    /\ WF_vars(Complete)
    /\ WF_vars(Write \/ Close)
    /\ WF_vars(RequestStop)

Spec == Init /\ [][Next]_vars /\ Fairness

-----------------------------------------------------------------------------
(* Properties.                                                             *)

\* stop() promises that the loop stops invoking the callback as soon as
\* m_stopping is observed: a callback that has already passed the check may
\* still begin, a second one never does.
AtMostOneLateCallback == late <= 1

\* A watcher that waits with nothing to report is up to date: unless a change
\* went by unnoticed, the registry holds exactly what is on disk, through torn
\* reads, bursts and saves made while the callback was running.
WaitingMeansCurrent ==
    (/\ watcher = "wait" /\ pending
     /\ notes = <<>> /\ ~overflow
     /\ editor # "truncated"
     /\ ~missed)
        => loaded = disk

\* A noticed change is loaded in the end, or superseded by a later one that is,
\* or the watcher is told to stop or loses the change.
NoticedChangesLoad ==
    (init = "done" /\ loaded # disk /\ ~missed)
        ~> (loaded = disk \/ missed \/ stopping)

\* A requested stop ends the thread, wherever it is.
StopEndsLoop == requested ~> watcher = "done"

\* The READMEs: "edit the INI file while the game is running, changes apply
\* immediately".
EditsApply ==
    (init = "create" /\ loaded # disk) ~> (loaded = disk \/ stopping)
=============================================================================
