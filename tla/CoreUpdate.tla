------------------------------ MODULE CoreUpdate ------------------------------
(***************************************************************************)
(* The core updater (backend/internal/mihomo/core_update.go, core_store.go)*)
(* replaces the Mihomo executable by an official release, or by the one    *)
(* before, and must survive a crash of the panel at every step.            *)
(*                                                                         *)
(* An artifact is named by its checksum, so an executable, its version and *)
(* its file cores/mihomo-<sha256> are one element of Core.  binaryPath     *)
(* names such a file or the bundled executable.  A rename is atomic; what  *)
(* the panel keeps in memory is gone after a restart.                      *)
(*                                                                         *)
(* The process supervisor appears as ProcessManager proves it to be: a     *)
(* quiesce or a start takes effect or fails, a core that is wanted may     *)
(* crash, come back or fail to, and one that is not wanted stays down.     *)
(***************************************************************************)

CONSTANTS
    Core,          \* executables, by checksum
    None,          \* no executable recorded
    BundledPath,   \* the configured mihomo.binary
    StartFails,    \* a start of the supervisor may fail, an automatic one too
    FilesGetLost   \* files under cores/ may be removed from outside

ASSUME CoreUpdateAssumption ==
    /\ Core # {}
    /\ None \notin Core
    /\ BundledPath \notin Core \cup {None}
    /\ StartFails \in BOOLEAN
    /\ FilesGetLost \in BOOLEAN

VARIABLES
    bundled,    \* the executable the panel's image ships
    disk,       \* cores/: executables, selection.json, job.json
    selection,  \* coreUpdater.selection
    initErr,    \* coreUpdater.initErr: selection.json names a bad file
    job,        \* coreUpdater.job
    run,        \* the goroutine of performCoreUpdate
    binaryPath, \* ProcessManager.binaryPath
    core,       \* the supervised core
    tool,       \* a deployment tool holds update.lock
    proven,     \* history: executables that passed the checks they needed
    lost        \* history: files removed from outside

vars == <<bundled, disk, selection, initErr, job, run, binaryPath, core, tool,
          proven, lost>>

Path == Core \cup {BundledPath}

Executable(path) == IF path = BundledPath THEN bundled ELSE path
Readable(path) == path = BundledPath \/ path \in disk.files

NoSelection == [active |-> None, previous |-> None]
NoJob == [status |-> "none", version |-> None, rolledBack |-> FALSE]
NoRun == [pc |-> "idle", op |-> "none", cand |-> None, prev |-> None,
          was |-> FALSE, ok |-> FALSE, back |-> FALSE]

Running == job.status = "running"

Init ==
    /\ bundled \in Core
    /\ disk = [files |-> {}, sel |-> NoSelection, job |-> NoJob]
    /\ selection = NoSelection
    /\ initErr = FALSE
    /\ job = NoJob
    /\ run = NoRun
    /\ binaryPath = BundledPath
    /\ core = [up |-> FALSE, desired |-> FALSE, exec |-> BundledPath]
    /\ tool = FALSE
    /\ proven = {bundled}
    /\ lost = {}

At(pc) == run.pc = pc
Goto(pc) == run' = [run EXCEPT !.pc = pc]

\* performCoreUpdate returns (rolledBack, err).
Result(ok, back) == run' = [run EXCEPT !.pc = "finish", !.ok = ok, !.back = back]

\* publishBinary: copy to a temporary file, then rename.
Publish(c) ==
    /\ disk' = [disk EXCEPT !.files = @ \cup {c}]
    /\ lost' = lost \ {c}

(***************************************************************************)
(* Beginning a job                                                         *)
(***************************************************************************)

\* The job is on disk before the request is answered.
BeginCoreUpdate(op, version) ==
    /\ ~initErr
    /\ ~Running
    /\ op = "rollback" => selection.previous = version
    /\ ~tool
    /\ job' = [status |-> "running", version |-> version, rolledBack |-> FALSE]
    /\ disk' = [disk EXCEPT !.job = job']
    /\ run' = [NoRun EXCEPT !.pc = "fetch", !.op = op, !.cand = version]
    /\ UNCHANGED <<bundled, selection, initErr, binaryPath, core, tool, proven, lost>>

\* job.json cannot be written: the record of the last job is dropped.
BeginNotSaved ==
    /\ ~initErr
    /\ ~Running
    /\ ~tool
    /\ job # NoJob
    /\ job' = NoJob
    /\ UNCHANGED <<bundled, disk, selection, initErr, run, binaryPath, core,
                   tool, proven, lost>>

(***************************************************************************)
(* performCoreUpdate, before the switch                                    *)
(***************************************************************************)

downloadCore ==
    /\ At("fetch")
    /\ run.op = "install"
    /\ Publish(run.cand)
    /\ Goto("validate")
    /\ UNCHANGED <<bundled, selection, initErr, job, binaryPath, core, tool, proven>>

verifyPrevious ==
    /\ At("fetch")
    /\ run.op = "rollback"
    /\ run.cand \in disk.files
    /\ Goto("validate")
    /\ UNCHANGED <<bundled, disk, selection, initErr, job, binaryPath, core,
                   tool, proven, lost>>

\* Network, checksum or size; "previous core unavailable".
FetchFails ==
    /\ At("fetch")
    /\ run.op = "rollback" => run.cand \notin disk.files
    /\ Result(FALSE, FALSE)
    /\ UNCHANGED <<bundled, disk, selection, initErr, job, binaryPath, core,
                   tool, proven, lost>>

\* applyMu is held from here on.  The candidate reports its version and
\* accepts the current configuration; then the running core is looked at.
\* A candidate for a core that is down needs no further check.
CandidateValid ==
    /\ At("validate")
    /\ run.cand \in disk.files
    /\ proven' = IF core.up THEN proven ELSE proven \cup {run.cand}
    /\ run' = [run EXCEPT
                 !.was = core.up,
                 !.pc = IF core.up /\ run.op = "install" THEN "health" ELSE "backup"]
    /\ UNCHANGED <<bundled, disk, selection, initErr, job, binaryPath, core,
                   tool, lost>>

CandidateInvalid ==
    /\ At("validate")
    /\ Result(FALSE, FALSE)
    /\ UNCHANGED <<bundled, disk, selection, initErr, job, binaryPath, core,
                   tool, proven, lost>>

CurrentHealthy ==
    /\ At("health")
    /\ core.up
    /\ Goto("backup")
    /\ UNCHANGED <<bundled, disk, selection, initErr, job, binaryPath, core,
                   tool, proven, lost>>

CurrentUnhealthy ==
    /\ At("health")
    /\ Result(FALSE, FALSE)
    /\ UNCHANGED <<bundled, disk, selection, initErr, job, binaryPath, core,
                   tool, proven, lost>>

\* The executable in use is published; the first job also selects it.
Backup ==
    /\ At("backup")
    /\ Readable(binaryPath)
    /\ LET prev == Executable(binaryPath)
           sel == IF selection.active = None
                  THEN [active |-> prev, previous |-> None] ELSE selection
       IN  /\ disk' = [disk EXCEPT !.files = @ \cup {prev}, !.sel = sel]
           /\ selection' = sel
           /\ IF run.cand = prev
              THEN run' = [run EXCEPT !.prev = prev, !.pc = "finish", !.ok = TRUE]
              ELSE run' = [run EXCEPT !.prev = prev, !.pc = "quiesce"]
           /\ lost' = lost \ {prev}
    /\ UNCHANGED <<bundled, initErr, job, binaryPath, core, tool, proven>>

\* The old executable cannot be read or copied, or the selection not saved.
BackupFails ==
    /\ At("backup")
    /\ \/ UNCHANGED <<disk, lost>>
       \/ Readable(binaryPath) /\ Publish(Executable(binaryPath))
    /\ Result(FALSE, FALSE)
    /\ UNCHANGED <<bundled, selection, initErr, job, binaryPath, core, tool, proven>>

(***************************************************************************)
(* The switch                                                              *)
(***************************************************************************)

Stopped == [core EXCEPT !.up = FALSE, !.desired = FALSE]

\* Wrong on purpose: the path is changed under a running core.
Switch_NoQuiesce ==
    /\ At("quiesce")
    /\ binaryPath' = run.cand
    /\ Goto(IF run.was THEN "start" ELSE "commit")
    /\ UNCHANGED <<bundled, disk, selection, initErr, job, core, tool, proven,
                   lost>>

\* quiesce, then setBinaryPath.
Switch ==
    /\ At("quiesce")
    /\ core' = Stopped
    /\ binaryPath' = run.cand
    /\ Goto(IF run.was THEN "start" ELSE "commit")
    /\ UNCHANGED <<bundled, disk, selection, initErr, job, tool, proven, lost>>

\* The core dies between quiesce's two looks at it: "mihomo is not running".
SwitchNotStopped ==
    /\ At("quiesce")
    /\ core.up
    /\ core' = Stopped
    /\ Result(FALSE, FALSE)
    /\ UNCHANGED <<bundled, disk, selection, initErr, job, binaryPath, tool,
                   proven, lost>>

Started == [up |-> TRUE, desired |-> TRUE, exec |-> binaryPath]

\* Wrong on purpose: committed as soon as it has started.
StartCandidate_Unchecked ==
    /\ At("start")
    /\ Readable(binaryPath)
    /\ core' = Started
    /\ Goto("commit")
    /\ UNCHANGED <<bundled, disk, selection, initErr, job, binaryPath, tool,
                   proven, lost>>

StartCandidate ==
    /\ At("start")
    /\ Readable(binaryPath)
    /\ core' = Started
    /\ Goto("check")
    /\ UNCHANGED <<bundled, disk, selection, initErr, job, binaryPath, tool,
                   proven, lost>>

StartCandidateFails ==
    /\ At("start")
    /\ StartFails \/ ~Readable(binaryPath)
    /\ Goto("recover")
    /\ UNCHANGED <<bundled, disk, selection, initErr, job, binaryPath, core,
                   tool, proven, lost>>

checkUpdateReadiness ==
    /\ At("check")
    /\ core.up
    /\ proven' = proven \cup {run.cand}
    /\ Goto("commit")
    /\ UNCHANGED <<bundled, disk, selection, initErr, job, binaryPath, core,
                   tool, lost>>

NotReady ==
    /\ At("check")
    /\ Goto("recover")
    /\ UNCHANGED <<bundled, disk, selection, initErr, job, binaryPath, core,
                   tool, proven, lost>>

\* Wrong on purpose: the selection in memory is left as it was.
Commit_DiskOnly ==
    /\ At("commit")
    /\ disk' = [disk EXCEPT !.sel = [active |-> run.cand, previous |-> run.prev]]
    /\ Result(TRUE, FALSE)
    /\ UNCHANGED <<bundled, selection, initErr, job, binaryPath, core, tool,
                   proven, lost>>

\* saveSelection, then u.selection.  A core that was stopped is committed on
\* its validation alone.
Commit ==
    /\ At("commit")
    /\ LET next == [active |-> run.cand, previous |-> run.prev]
       IN  disk' = [disk EXCEPT !.sel = next] /\ selection' = next
    /\ Result(TRUE, FALSE)
    /\ UNCHANGED <<bundled, initErr, job, binaryPath, core, tool, proven, lost>>

CommitFails ==
    /\ At("commit")
    /\ Goto("recover")
    /\ UNCHANGED <<bundled, disk, selection, initErr, job, binaryPath, core,
                   tool, proven, lost>>

(***************************************************************************)
(* recoverOld                                                              *)
(***************************************************************************)

RecoverStop ==
    /\ At("recover")
    /\ core' = Stopped
    /\ binaryPath' = run.prev
    /\ IF run.was THEN Goto("restart") ELSE Result(FALSE, TRUE)
    /\ UNCHANGED <<bundled, disk, selection, initErr, job, tool, proven, lost>>

\* "could not stop candidate": the same race as SwitchNotStopped.
RecoverNotStopped ==
    /\ At("recover")
    /\ core.up
    /\ core' = Stopped
    /\ Result(FALSE, FALSE)
    /\ UNCHANGED <<bundled, disk, selection, initErr, job, binaryPath, tool,
                   proven, lost>>

RecoverStart ==
    /\ At("restart")
    /\ Readable(binaryPath)
    /\ core' = Started
    /\ Goto("recheck")
    /\ UNCHANGED <<bundled, disk, selection, initErr, job, binaryPath, tool,
                   proven, lost>>

\* Wrong on purpose: rolled_back although the old core does not start.
RecoverStartFails_RolledBack ==
    /\ At("restart")
    /\ StartFails \/ ~Readable(binaryPath)
    /\ Result(FALSE, TRUE)
    /\ UNCHANGED <<bundled, disk, selection, initErr, job, binaryPath, core,
                   tool, proven, lost>>

RecoverStartFails ==
    /\ At("restart")
    /\ StartFails \/ ~Readable(binaryPath)
    /\ Result(FALSE, FALSE)
    /\ UNCHANGED <<bundled, disk, selection, initErr, job, binaryPath, core,
                   tool, proven, lost>>

Recovered ==
    /\ At("recheck")
    /\ core.up
    /\ Result(FALSE, TRUE)
    /\ UNCHANGED <<bundled, disk, selection, initErr, job, binaryPath, core,
                   tool, proven, lost>>

NotRecovered ==
    /\ At("recheck")
    /\ Result(FALSE, FALSE)
    /\ UNCHANGED <<bundled, disk, selection, initErr, job, binaryPath, core,
                   tool, proven, lost>>

(***************************************************************************)
(* The end of a job                                                        *)
(***************************************************************************)

\* Wrong on purpose: the rollback copy is pruned.
Kept_ActiveOnly == {selection.active, binaryPath}

\* Wrong on purpose: only what this job handled is kept.
Kept_OfTheJob == {run.cand, run.prev}

\* pruneBinaries keeps the selection and the supervisor's executable.
Kept == {selection.active, selection.previous, binaryPath}

\* Saving the job record may fail; that is ignored.
finishCoreUpdate ==
    /\ At("finish")
    /\ LET status == IF run.ok THEN "succeeded" ELSE "failed"
       IN  /\ job' = [job EXCEPT !.status = status, !.rolledBack = run.back]
           /\ \E saved \in {job', disk.job} :
                 disk' = [disk EXCEPT !.job = saved,
                                      !.files = @ \cap Kept]
    /\ run' = NoRun
    /\ UNCHANGED <<bundled, selection, initErr, binaryPath, core, tool, proven, lost>>

(***************************************************************************)
(* Around the updater                                                      *)
(***************************************************************************)

\* StartMihomo and StopMihomo, which a running job turns away.
StartMihomo ==
    /\ ~Running /\ ~initErr
    /\ ~core.up /\ Readable(binaryPath)
    /\ core' = Started
    /\ UNCHANGED <<bundled, disk, selection, initErr, job, run, binaryPath,
                   tool, proven, lost>>

StopMihomo ==
    /\ ~Running /\ ~initErr
    /\ core.up
    /\ core' = Stopped
    /\ UNCHANGED <<bundled, disk, selection, initErr, job, run, binaryPath,
                   tool, proven, lost>>

\* A core crashes, and the supervisor brings a wanted one back.
Crash ==
    /\ core.up
    /\ core' = [core EXCEPT !.up = FALSE]
    /\ UNCHANGED <<bundled, disk, selection, initErr, job, run, binaryPath,
                   tool, proven, lost>>

AutoRestart ==
    /\ ~core.up /\ core.desired /\ Readable(binaryPath)
    /\ core' = Started
    /\ UNCHANGED <<bundled, disk, selection, initErr, job, run, binaryPath,
                   tool, proven, lost>>

\* "automatic restart failed: mihomo exited immediately": it is not wanted any
\* more.  Where the restart is blocked earlier nothing changes, nor is it tried
\* again.
AutoRestartFails ==
    /\ StartFails
    /\ ~core.up /\ core.desired /\ Readable(binaryPath)
    /\ core' = [core EXCEPT !.desired = FALSE, !.exec = binaryPath]
    /\ UNCHANGED <<bundled, disk, selection, initErr, job, run, binaryPath,
                   tool, proven, lost>>

\* flock(LOCK_EX) on update.lock, taken and left by a deployment tool.
DeploymentTool ==
    /\ ~Running
    /\ tool' = ~tool
    /\ UNCHANGED <<bundled, disk, selection, initErr, job, run, binaryPath,
                   core, proven, lost>>

\* An executable under cores/ is removed by somebody else.
Damage ==
    /\ FilesGetLost
    /\ \E c \in disk.files :
          /\ disk' = [disk EXCEPT !.files = @ \ {c}]
          /\ lost' = lost \cup {c}
    /\ UNCHANGED <<bundled, selection, initErr, job, run, binaryPath, core,
                   tool, proven>>

\* The panel dies with its core and starts again, perhaps from a new image:
\* initCoreUpdater and loadSelection.
PanelRestart ==
    /\ bundled' \in Core
    /\ proven' = proven \cup {bundled'}
    /\ core' = [up |-> FALSE, desired |-> FALSE, exec |-> BundledPath]
    /\ run' = NoRun
    /\ IF disk.sel.active = None
       THEN selection' = NoSelection /\ initErr' = FALSE /\ binaryPath' = BundledPath
       ELSE IF disk.sel.active \in disk.files
       THEN selection' = disk.sel /\ initErr' = FALSE /\ binaryPath' = disk.sel.active
       ELSE selection' = NoSelection /\ initErr' = TRUE /\ binaryPath' = BundledPath
    /\ job' = IF initErr' THEN NoJob
              ELSE [disk.job EXCEPT !.status = IF @ = "running" THEN "failed" ELSE @]
    /\ UNCHANGED <<disk, tool, lost>>

(***************************************************************************)
(* The specification                                                       *)
(***************************************************************************)

Prepare ==
    \/ downloadCore \/ verifyPrevious \/ FetchFails
    \/ CandidateValid \/ CandidateInvalid
    \/ CurrentHealthy \/ CurrentUnhealthy
    \/ Backup \/ BackupFails
SwitchStep ==
    \/ Switch \/ SwitchNotStopped
    \/ StartCandidate \/ StartCandidateFails
    \/ checkUpdateReadiness \/ NotReady
    \/ Commit \/ CommitFails
recoverOld ==
    \/ RecoverStop \/ RecoverNotStopped
    \/ RecoverStart \/ RecoverStartFails
    \/ Recovered \/ NotRecovered
performCoreUpdate == Prepare \/ SwitchStep \/ recoverOld
Environment ==
    \/ StartMihomo \/ StopMihomo \/ Crash \/ AutoRestart \/ AutoRestartFails
    \/ DeploymentTool \/ Damage \/ PanelRestart

Next ==
    \/ \E c \in Core : BeginCoreUpdate("install", c) \/ BeginCoreUpdate("rollback", c)
    \/ BeginNotSaved
    \/ performCoreUpdate
    \/ finishCoreUpdate
    \/ Environment

Spec == Init /\ [][Next]_vars

-----------------------------------------------------------------------------
PC == {"idle", "fetch", "validate", "health", "backup", "quiesce", "start",
       "check", "commit", "recover", "restart", "recheck", "finish"}
Status == {"none", "running", "succeeded", "failed"}
Maybe == Core \cup {None}
Selection == [active : Maybe, previous : Maybe]

Job == [status : Status, version : Maybe, rolledBack : BOOLEAN]

Disk == [files : SUBSET Core, sel : Selection, job : Job]
Run == [pc : PC, op : {"none", "install", "rollback"}, cand : Maybe, prev : Maybe,
        was : BOOLEAN, ok : BOOLEAN, back : BOOLEAN]
Supervised == [up : BOOLEAN, desired : BOOLEAN, exec : Path]

TypeOK ==
    /\ bundled \in Core
    /\ disk \in Disk
    /\ selection \in Selection
    /\ initErr \in BOOLEAN
    /\ job \in Job
    /\ run \in Run
    /\ binaryPath \in Path
    /\ core \in Supervised
    /\ tool \in BOOLEAN
    /\ proven \in SUBSET Core
    /\ lost \in SUBSET Core

OnDisk(c) == c \in disk.files \cup lost

\* Whatever job ends, fails or is cut short, the executables selection.json
\* names are there: pruning and publishing never lose one.
SelectionOnDisk ==
    \A c \in {disk.sel.active, disk.sel.previous} : c # None => OnDisk(c)

\* "A file that a running core may still be executing" is never pruned.
RunningOnDisk == core.up /\ core.exec # BundledPath => OnDisk(core.exec)

\* What a restart of the panel would select has passed its checks: "the
\* selected version is recorded only after successful validation and runtime
\* checks".
ActiveProven == disk.sel.active # None => disk.sel.active \in proven

\* A core is never swapped under a running process: what runs is what the
\* supervisor would start again.
RunsBinaryPath == core.up => core.exec = binaryPath

\* A job that reports rolled_back has put back the executable it found, and a
\* core that was running was started again from it: the candidate is not what
\* was started last.  It need not be up, nor wanted: it may have crashed since
\* and not have come back (process.go:539-551).
RolledBackTruthful ==
    [][At("finish") /\ ~At("finish")' /\ job'.rolledBack =>
          binaryPath = run.prev /\ (run.was => core.exec = run.prev)]_vars

\* "A failed switch restores the prior executable and running state."
FailedSwitchRestores ==
    At("finish") /\ ~run.ok /\ run.was /\ run.prev # None =>
        Executable(binaryPath) = run.prev /\ core.desired

-----------------------------------------------------------------------------
(***************************************************************************)
(* The inductive invariant behind the safety properties                    *)
(***************************************************************************)

\* A job has a goroutine.
RunShape == Running <=> run.pc # "idle"

\* Memory repeats what selection.json says; before the first selection the
\* supervisor uses the bundled executable.
MemoryTrue ==
    /\ ~initErr => selection = disk.sel
    /\ initErr => ~Running /\ ~core.up /\ ~core.desired
    /\ ~initErr /\ selection.active = None => binaryPath = BundledPath
    /\ disk.sel.active = None => disk.sel = NoSelection
    /\ bundled \in proven

\* The executables a job handles stay on disk until it has finished.
RunOnDisk ==
    /\ run.pc # "idle" => run.cand \in Core
    /\ run.pc \in {"validate", "health", "backup"} => OnDisk(run.cand)
    /\ run.pc \in {"quiesce", "start", "check", "commit", "recover", "restart",
                   "recheck"} =>
          /\ OnDisk(run.cand)
          /\ run.prev \in Core /\ OnDisk(run.prev)
          /\ selection.active # None
    /\ binaryPath # BundledPath => OnDisk(binaryPath)

\* What is about to be committed has passed its checks.
RunProven ==
    /\ At("health") => run.was
    /\ run.pc \in {"backup", "quiesce"} /\ ~run.was => run.cand \in proven
    /\ At("commit") => run.cand \in proven

\* What recoverOld reports is what it did.
RunBack ==
    /\ ~At("finish") => ~run.back
    /\ run.pc \in {"restart", "recheck"} => binaryPath = run.prev
    /\ At("recheck") => core.exec = run.prev
    /\ At("finish") /\ run.back =>
          binaryPath = run.prev /\ (run.was => core.exec = run.prev)
    /\ Running => disk.job.status = "running" /\ ~disk.job.rolledBack

UpdateInv ==
    /\ TypeOK
    /\ RunShape
    /\ MemoryTrue
    /\ RunOnDisk
    /\ RunProven
    /\ RunBack
    /\ SelectionOnDisk
    /\ RunsBinaryPath
    /\ ActiveProven
=============================================================================
