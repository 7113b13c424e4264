---------------------------- MODULE ConfigApply ----------------------------
(***************************************************************************)
(* How a configuration reaches the core: ApplyConfig and RollbackConfig of *)
(* mihomo/service.go with the file, its backup and the running core, and   *)
(* the connection check that judges the result while all of this goes on.  *)
(*                                                                         *)
(* applyMu serializes apply, start, stop, restart and the readings of the  *)
(* runtime; it does not cover the read of the backup by a rollback, the    *)
(* probe of a check, nor the supervisor, which brings a crashed core back  *)
(* two seconds later under a lock of its own.  The supervisor is taken     *)
(* from ProcessManager with its steps merged.  A process never has the pid *)
(* of an earlier one that is still remembered, and the core's verdict on a *)
(* content is always the same.                                             *)
(*                                                                         *)
(* Two others write the file and take no lock: RestoreDatabase of          *)
(* system/backup.go, and App.Run where the core's binary is missing.       *)
(***************************************************************************)
EXTENDS Naturals

CONSTANTS
    Contents,         \* contents of config.yaml
    Invalid,          \* those the core refuses to load
    ChildrenSurvive,  \* a core outlives the panel that started it
    MaxFaults,        \* failing writes, and files others put in place
    MaxEdits          \* changes of what the listener's clients are given

NoFile == "none"
Empty == "empty"

ASSUME ContentsAssumption == {NoFile, Empty} \cap Contents = {} /\ Invalid \subseteq Contents
ASSUME SurviveAssumption == ChildrenSurvive \in BOOLEAN
ASSUME BoundsAssumption == MaxFaults \in Nat /\ MaxEdits \in Nat

VARIABLES
    file, bak,   \* config.yaml and config.yaml.bak
    core,        \* the process and what the panel knows of it
    job,         \* the apply that holds applyMu
    rolled,      \* the backup a rollback has read
    result,      \* of the last apply
    torn,        \* an apply ended without restoring what it had to, or
                 \* somebody else wrote the file; no apply has succeeded since
    faults,
    client,      \* version of the client exported for a listener
    check,       \* the running connection check
    cache        \* the listener's entry in connectionResults

vars == <<file, bak, core, job, rolled, result, torn, faults, client, check, cache>>

applying == <<job, rolled, result, torn, faults>>
checking == <<client, check, cache>>

Valid(content) == content \in Contents \ Invalid
NoJob == [pc |-> "idle", content |-> NoFile, old |-> NoFile, was |-> FALSE, spoilt |-> FALSE]
NoCheck == [pc |-> "idle", pid |-> 0, content |-> NoFile, client |-> 0, met |-> TRUE]

Init ==
    /\ file \in {NoFile} \cup Contents /\ bak = NoFile
    /\ core = [run |-> NoFile, pid |-> 0, tie |-> "none", desired |-> FALSE, waiter |-> "none"]
    /\ job = NoJob /\ rolled = NoFile /\ result = "none"
    /\ torn = FALSE /\ faults = 0
    /\ client = 0 /\ check = NoCheck /\ cache = NoCheck

-----------------------------------------------------------------------------
(* The supervisor's operations, each under lifecycleMu. *)

\* A pid nobody remembers.
Pids == 1 .. 3
FreshPid == CHOOSE p \in Pids : p \notin {check.pid, cache.pid}

IsRunning(k) == k.run # NoFile /\ k.tie # "none"
Pid == IF IsRunning(core) THEN core.pid ELSE 0
LifecycleFree == core.waiter # "validated"

StopCore(k) ==
    [k EXCEPT !.run = IF IsRunning(k) THEN NoFile ELSE @,
              !.pid = IF IsRunning(k) THEN 0 ELSE @,
              !.tie = "none", !.desired = FALSE, !.waiter = "none"]

\* start: a core that runs already is adopted as it is; a content the core
\* refuses exits at once.
StartCore(k, content) ==
    CASE k.run # NoFile -> [k EXCEPT !.tie = "adopted", !.desired = TRUE, !.waiter = "none"]
      [] k.run = NoFile /\ content \in Invalid -> [k EXCEPT !.desired = FALSE, !.waiter = "none"]
      [] k.run = NoFile /\ Valid(content) ->
             [run |-> content, pid |-> FreshPid, tie |-> "child", desired |-> TRUE, waiter |-> "none"]
      [] OTHER -> k

RestartCore(k, content) ==
    LET stopped == IF IsRunning(k) THEN StopCore(k) ELSE k
    IN  IF Valid(content) THEN StartCore(stopped, content) ELSE stopped

\* The process exits by itself; its waiter sleeps two seconds.
Crash ==
    /\ core.run # NoFile
    /\ core' = [core EXCEPT !.run = NoFile, !.pid = 0, !.tie = "none",
                            !.waiter = IF core.desired /\ core.tie = "child" THEN "asleep" ELSE @]
    /\ UNCHANGED <<file, bak, applying, checking>>

\* "automatic restart blocked by config validation": it is not tried again.
WaiterWakes ==
    /\ core.waiter = "asleep"
    /\ core' = [core EXCEPT !.waiter = IF Valid(file) THEN "validated" ELSE "none"]
    /\ UNCHANGED <<file, bak, applying, checking>>

WaiterStarts ==
    /\ core.waiter = "validated"
    /\ core' = [StartCore(core, file) EXCEPT !.waiter = "none"]
    /\ UNCHANGED <<file, bak, applying, checking>>

\* The scan of start takes the validator of the running apply for a core: the
\* restart reports success, and nothing runs when the validator has exited.
WaiterAdoptsValidator ==
    /\ core.waiter = "validated" /\ job.pc = "asked"
    /\ core' = [core EXCEPT !.waiter = "none"]
    /\ UNCHANGED <<file, bak, applying, checking>>

-----------------------------------------------------------------------------
(* ApplyConfig. *)

Fault == faults < MaxFaults /\ faults' = faults + 1

Finish(outcome) == job' = NoJob /\ result' = outcome

\* Under applyMu: the old content is read; os.WriteFile truncates the backup
\* before it writes.
ApplyBegins(content) ==
    /\ job.pc = "idle"
    /\ job' = [pc |-> IF file = NoFile THEN "backed" ELSE "truncated", content |-> content,
               old |-> file, was |-> FALSE, spoilt |-> FALSE]
    /\ bak' = IF file = NoFile THEN bak ELSE Empty
    /\ result' = "none"
    /\ UNCHANGED <<file, core, torn, faults, checking>>

ApplyConfig(content) == ApplyBegins(content) /\ UNCHANGED rolled

\* RollbackConfig reads the backup before ApplyConfig takes applyMu.
RollbackReads ==
    /\ rolled = NoFile /\ bak # NoFile
    /\ rolled' = bak
    /\ UNCHANGED <<file, bak, core, job, result, torn, faults, checking>>

RollbackConfig ==
    /\ rolled # NoFile
    /\ ApplyBegins(rolled)
    /\ rolled' = NoFile

BackupWritten ==
    /\ job.pc = "truncated"
    /\ bak' = job.old
    /\ job' = [job EXCEPT !.pc = "backed"]
    /\ UNCHANGED <<file, core, rolled, result, torn, faults, checking>>

BackupFails ==
    /\ job.pc = "truncated" /\ Fault
    /\ Finish("failed")
    /\ UNCHANGED <<file, bak, core, rolled, torn, checking>>

\* Wrong on purpose: an empty content is written as well.
X_SaveConfig ==
    /\ job.pc = "backed"
    /\ file' = job.content
    /\ job' = [job EXCEPT !.pc = "saved"]
    /\ UNCHANGED <<bak, core, rolled, result, torn, faults, checking>>

\* SaveConfig replaces the file by a rename, or leaves it as it is.
SaveConfig ==
    /\ job.pc = "backed" /\ job.content # Empty
    /\ file' = job.content
    /\ job' = [job EXCEPT !.pc = "saved"]
    /\ UNCHANGED <<bak, core, rolled, result, torn, faults, checking>>

SaveConfigFails ==
    /\ job.pc = "backed"
    /\ \/ job.content = Empty /\ UNCHANGED faults
       \/ Fault
    /\ Finish("failed")
    /\ UNCHANGED <<file, bak, core, rolled, torn, checking>>

AskRunning ==
    /\ job.pc = "saved"
    /\ job' = [job EXCEPT !.pc = "asked", !.was = IsRunning(core)]
    /\ UNCHANGED <<file, bak, core, rolled, result, torn, faults, checking>>

\* The core judges what it finds on disk.
ValidatePasses ==
    /\ job.pc = "asked" /\ Valid(file)
    /\ job' = [job EXCEPT !.pc = "valid"]
    /\ UNCHANGED <<file, bak, core, rolled, result, torn, faults, checking>>

\* Wrong on purpose: the candidate stays where there was no file.
X_Restore ==
    \/ /\ file' = IF job.old = NoFile THEN file ELSE job.old
       /\ UNCHANGED <<torn, faults>>
    \/ /\ job.old # NoFile /\ Fault
       /\ torn' = TRUE
       /\ UNCHANGED file

\* The old content comes back, or the new file goes where there was none.
\* A failing restoration is not reported here.
Restore ==
    \/ /\ file' = job.old
       /\ UNCHANGED <<torn, faults>>
    \/ /\ job.old # NoFile /\ Fault
       /\ torn' = TRUE
       /\ UNCHANGED file

ValidateFails ==
    /\ job.pc = "asked" /\ ~Valid(file)
    /\ Restore
    /\ Finish("failed")
    /\ UNCHANGED <<bak, core, rolled, checking>>

\* "mihomo is already running" is a failure as well: the supervisor may have
\* been faster.
StartCandidate ==
    /\ job.pc = "valid" /\ ~job.was /\ LifecycleFree
    /\ core' = IF IsRunning(core) THEN core ELSE StartCore(core, file)
    /\ job' = [job EXCEPT !.pc = IF ~IsRunning(core) /\ IsRunning(core') THEN "waiting" ELSE "undo"]
    /\ UNCHANGED <<file, bak, rolled, result, torn, faults, checking>>

\* Wrong on purpose: a core that runs is not restarted.
X_RestartCandidate ==
    /\ job.pc = "valid" /\ job.was /\ LifecycleFree
    /\ core' = IF IsRunning(core) THEN core ELSE StartCore(core, file)
    /\ job' = [job EXCEPT !.pc = IF IsRunning(core') THEN "waiting" ELSE "undo"]
    /\ UNCHANGED <<file, bak, rolled, result, torn, faults, checking>>

RestartCandidate ==
    /\ job.pc = "valid" /\ job.was /\ LifecycleFree
    /\ core' = RestartCore(core, file)
    /\ job' = [job EXCEPT !.pc = IF IsRunning(core') THEN "waiting" ELSE "undo"]
    /\ UNCHANGED <<file, bak, rolled, result, torn, faults, checking>>

\* waitForListeners: every endpoint is bound, or the sockets cannot be read.
ListenersBound ==
    /\ job.pc = "waiting" /\ IsRunning(core)
    /\ Finish("ok")
    /\ torn' = job.spoilt
    /\ UNCHANGED <<file, bak, core, rolled, faults, checking>>

\* Wrong on purpose: the failure is reported and nothing is undone.
X_ListenerMissing ==
    /\ job.pc = "waiting"
    /\ Finish("failed")
    /\ UNCHANGED <<file, bak, core, rolled, torn, faults, checking>>

\* An endpoint is missing after three seconds, or the core has stopped.
ListenerMissing ==
    /\ job.pc = "waiting"
    /\ job' = [job EXCEPT !.pc = "undo"]
    /\ UNCHANGED <<file, bak, core, rolled, result, torn, faults, checking>>

UndoStart ==
    /\ job.pc = "undo" /\ ~job.was /\ LifecycleFree
    /\ core' = StopCore(core)
    /\ Restore
    /\ Finish("failed")
    /\ UNCHANGED <<bak, rolled, checking>>

\* Nothing is done where there was no file to go back to.
UndoRestart ==
    /\ job.pc = "undo" /\ job.was
    /\ \/ /\ job.old # NoFile
          /\ file' = job.old
          /\ job' = [job EXCEPT !.pc = "restored"]
          /\ UNCHANGED <<torn, faults, result>>
       \/ /\ job.old # NoFile /\ Fault
          /\ torn' = TRUE
          /\ Finish("failed")
          /\ UNCHANGED file
       \/ /\ job.old = NoFile
          /\ Finish("failed")
          /\ UNCHANGED <<file, torn, faults>>
    /\ UNCHANGED <<bak, core, rolled, checking>>

\* Wrong on purpose: the file is restored, the core is left with the candidate.
X_RestartOld ==
    /\ job.pc = "restored"
    /\ Finish("failed")
    /\ UNCHANGED <<file, bak, core, rolled, torn, faults, checking>>

RestartOld ==
    /\ job.pc = "restored" /\ LifecycleFree
    /\ core' = RestartCore(core, file)
    /\ Finish("failed")
    /\ UNCHANGED <<file, bak, rolled, torn, faults, checking>>

-----------------------------------------------------------------------------
(* The other writers of the file. *)

\* Another file is renamed over the one on disk; a running apply does not know.
Overwrite ==
    /\ Fault
    /\ file' \in Contents
    /\ job' = [job EXCEPT !.spoilt = job.pc # "idle"]
    /\ torn' = (torn \/ job.pc # "idle" \/ core.run # NoFile)
    /\ UNCHANGED <<bak, core, rolled, result, checking>>

\* An archive with a configuration is restored, at any time.
RestoreDatabase == Overwrite

\* App.Run found no binary: the panel has neither a core nor wants one, but its
\* enforcer may be applying already.
SaveWithoutBinary == core.tie = "none" /\ ~core.desired /\ core.waiter = "none" /\ Overwrite

-----------------------------------------------------------------------------
(* Requests of the administrator, and the end of the panel. *)

Request(k) ==
    /\ job.pc = "idle" /\ LifecycleFree
    /\ core' = k
    /\ UNCHANGED <<file, bak, applying, checking>>

StartMihomo == Valid(file) /\ ~IsRunning(core) /\ Request(StartCore(core, file))
StopMihomo == Request(StopCore(core))
RestartMihomo == Request(RestartCore(core, file))

PanelRestarts ==
    /\ core' = [core EXCEPT !.run = IF ChildrenSurvive THEN @ ELSE NoFile,
                            !.pid = IF ChildrenSurvive THEN @ ELSE 0,
                            !.tie = "none", !.desired = FALSE, !.waiter = "none"]
    /\ torn' = (torn \/ job.pc \notin {"idle", "truncated", "backed"})
    /\ job' = NoJob /\ rolled' = NoFile /\ result' = "none"
    /\ check' = NoCheck /\ cache' = NoCheck
    /\ UNCHANGED <<file, bak, faults, client>>

-----------------------------------------------------------------------------
(* The connection check. *)

\* A save of the listener's row, of the access profile or of a user.
EditClient ==
    /\ client < MaxEdits
    /\ client' = client + 1
    /\ UNCHANGED <<file, bak, core, applying, check, cache>>

\* One check at a time.
CheckBegins ==
    /\ check.pc = "idle"
    /\ check' = [NoCheck EXCEPT !.pc = "asked"]
    /\ UNCHANGED <<file, bak, core, applying, client, cache>>

\* Under applyMu: process, configuration and exported client.  A core that is
\* down is a result already; without a configuration there is none.
CheckSnapshots ==
    /\ check.pc = "asked" /\ job.pc = "idle"
    /\ check' = IF file = NoFile THEN NoCheck
                ELSE [check EXCEPT !.pc = IF Pid = 0 THEN "done" ELSE "probing",
                                   !.pid = Pid, !.content = file, !.client = client]
    /\ UNCHANGED <<file, bak, core, applying, client, cache>>

\* An isolated client dials whatever serves by then; no lock is held.
runClientCheck ==
    /\ check.pc = "probing"
    /\ check' = [check EXCEPT !.pc = "done", !.met = core.pid = check.pid]
    /\ UNCHANGED <<file, bak, core, applying, client, cache>>

\* The deadline, or the request went away.
CheckInterrupted ==
    /\ check.pc \in {"asked", "probing"}
    /\ check' = NoCheck
    /\ UNCHANGED <<file, bak, core, applying, client, cache>>

\* Wrong on purpose: the process is not compared again.
X_StillTrue(c) == file = c.content /\ client = c.client

StillTrue(c) == file = c.content /\ Pid = c.pid /\ client = c.client

\* Kept only for the unchanged process, configuration and client.
CheckEnds ==
    /\ check.pc = "done" /\ job.pc = "idle"
    /\ cache' = IF StillTrue(check) THEN check ELSE cache
    /\ check' = NoCheck
    /\ UNCHANGED <<file, bak, core, applying, client>>

\* cachedConnectionResult.
Served == cache.pc = "done" /\ StillTrue(cache)

\* ListenerRuntime drops an entry that no longer holds, or has expired.
ListenerRuntime ==
    /\ job.pc = "idle" /\ cache.pc = "done"
    /\ cache' = NoCheck
    /\ UNCHANGED <<file, bak, core, applying, client, check>>

Next ==
    \/ Crash \/ WaiterWakes \/ WaiterStarts \/ WaiterAdoptsValidator
    \/ \E c \in Contents : ApplyConfig(c)
    \/ RollbackReads \/ RollbackConfig
    \/ BackupWritten \/ BackupFails \/ SaveConfig \/ SaveConfigFails \/ AskRunning
    \/ ValidatePasses \/ ValidateFails \/ StartCandidate \/ RestartCandidate
    \/ ListenersBound \/ ListenerMissing \/ UndoStart \/ UndoRestart \/ RestartOld
    \/ RestoreDatabase \/ SaveWithoutBinary
    \/ StartMihomo \/ StopMihomo \/ RestartMihomo \/ PanelRestarts
    \/ EditClient
    \/ CheckBegins \/ CheckSnapshots \/ runClientCheck \/ CheckInterrupted
    \/ CheckEnds \/ ListenerRuntime

Spec == Init /\ [][Next]_vars

-----------------------------------------------------------------------------
(* Properties. *)

File == Contents \cup {NoFile}
Check == [pc : {"idle", "asked", "probing", "done"}, pid : {0} \cup Pids,
          content : File, client : 0 .. MaxEdits, met : BOOLEAN]

Core == [run : File, pid : {0} \cup Pids, tie : {"none", "child", "adopted"},
         desired : BOOLEAN, waiter : {"none", "asleep", "validated"}]
Job == [pc : {"idle", "truncated", "backed", "saved", "asked", "valid", "waiting", "undo",
              "restored"},
        content : File \cup {Empty}, old : File, was : BOOLEAN,
        spoilt : BOOLEAN]

TypeOK ==
    /\ file \in File /\ bak \in File \cup {Empty}
    /\ core \in Core /\ job \in Job
    /\ rolled \in File \cup {Empty} /\ result \in {"none", "ok", "failed"}
    /\ torn \in BOOLEAN /\ faults \in 0 .. MaxFaults
    /\ client \in 0 .. MaxEdits
    /\ check \in Check /\ cache \in Check

Finished(outcome) == job.pc # "idle" /\ job'.pc = "idle" /\ result' = outcome

\* Whenever no apply is going on, the panel's core runs the file on disk:
\* after failed applies, crashes in the middle of them and automatic restarts
\* that raced them, unless a restoration failed, the panel died half-way or a
\* restored backup replaced the file, and no apply has succeeded since.
RunsTheFile ==
    job.pc = "idle" /\ ~torn /\ core.run # NoFile /\ core.tie = "child" => core.run = file

\* service.go:137, "ApplyConfig validates and activates a candidate
\* configuration": an apply that reports success leaves a core that has loaded
\* it, or that crashed since; unless a restored backup took the candidate's
\* place on disk.
Activates == [][Finished("ok") /\ ~job.spoilt => core'.run \in {job.content, NoFile}]_vars

\* service.go:138: a failed apply leaves the file it found, and a core that was
\* running and still is runs that file; only a failing write excuses it, or a
\* file that came from elsewhere.
FailureRestores ==
    [][Finished("failed") /\ ~torn' =>
           /\ file' = job.old
           /\ job.was /\ core'.run # NoFile => core'.run = job.old]_vars

\* A cached check that is still shown judged the process that serves now, with
\* the configuration and the client of now (connection_check.go:141).
CacheTruthful ==
    job.pc = "idle" /\ Served =>
        /\ cache.met
        /\ Pid # 0 /\ core.tie = "child" /\ ~torn => core.run = cache.content

-----------------------------------------------------------------------------
(* An apply implements ConfigTransaction. *)
Transaction == INSTANCE ConfigTransaction WITH
    Content <- Contents \cup {Empty},
    None <- NoFile,
    running <- core.run,
    txn <- [open |-> job.pc # "idle", before |-> job.old, candidate |-> job.content,
             spoilt |-> job.spoilt],
    outcome <- result

\* service.go:137-138: whatever races an apply, it is a transaction on the file
\* and the core; the other writers of the file (system/backup.go:123-131,
\* app/app.go:98-99) spoil the one they meet and never pass for its success.
ImplementsTransaction == Transaction!Spec

-----------------------------------------------------------------------------
(* The inductive invariant behind them. *)

Child == core.run # NoFile /\ core.tie = "child"
Resting == job.pc \in {"idle", "truncated", "backed"}
Written == job.pc \in {"saved", "asked", "valid", "waiting", "undo"}

\* A core that outlives nobody is the panel's child.
CoreSane ==
    /\ core.run # NoFile => Valid(core.run)
    /\ core.waiter # "none" => core.run = NoFile
    /\ ~ChildrenSurvive /\ core.run # NoFile => core.tie = "child"

JobSane ==
    /\ Resting => ~job.was
    /\ job.spoilt => job.pc # "idle" /\ torn
    /\ job.pc \in {"truncated", "backed"} /\ ~job.spoilt => job.old = file
    /\ job.pc # "idle" => job.content # NoFile
    /\ Written => job.content \in Contents /\ (~job.spoilt => file = job.content)
    /\ job.pc = "restored" => job.was /\ job.old # NoFile /\ (~job.spoilt => file = job.old)

FileRuns ==
    /\ ~torn /\ Resting /\ Child => core.run = file
    /\ ~torn /\ ~Resting /\ Child => core.run \in {job.old, job.content}
    /\ job.pc = "waiting" /\ ~job.spoilt /\ Child => core.run = file

\* Where there is no file nothing runs, nor waits to be started.
NothingToRun ==
    ~torn /\ ~ChildrenSurvive =>
        /\ (Resting /\ file = NoFile) \/ (job.pc \in {"saved", "asked"} /\ job.old = NoFile)
               => core.run = NoFile /\ core.waiter = "none"
        /\ job.pc # "idle" /\ job.old = NoFile => ~job.was

\* A check that missed its process remembers one that is gone.
CheckTrue ==
    /\ check.pc = "asked" => check.met
    /\ check.pc = "probing" => check.pid # 0
    /\ check.pc = "done" /\ ~check.met => check.pid # 0 /\ core.pid # check.pid
    /\ cache.pc = "done" => cache.met

ApplyInv == TypeOK /\ CoreSane /\ JobSane /\ FileRuns /\ NothingToRun /\ CheckTrue
=============================================================================
