-------------------------- MODULE CoreUpdate_proofs --------------------------
(***************************************************************************)
(* The updater never loses a selected executable and never selects one     *)
(* that has not passed its checks, wherever the panel is cut off, for any  *)
(* set of executables.                                                     *)
(***************************************************************************)
EXTENDS CoreUpdate, TLAPS

USE CoreUpdateAssumption
    DEF TypeOK, Path, Maybe, Running, OnDisk, At, NoSelection, NoJob, NoRun

-----------------------------------------------------------------------------
(* Types of what several actions write *)

LEMMA ResultType ==
  ASSUME TypeOK, NEW ok \in BOOLEAN, NEW back \in BOOLEAN, Result(ok, back)
  PROVE  run' \in Run
  BY DEF Result, Run, PC

LEMMA StoppedType == TypeOK => Stopped \in Supervised
  BY DEF Stopped, Supervised

LEMMA StartedType == TypeOK => Started \in Supervised
  BY DEF Started, Supervised

-----------------------------------------------------------------------------
(* The inductive step, action by action *)

LEMMA BeginCoreUpdateInv ==
  ASSUME UpdateInv, NEW op \in {"install", "rollback"}, NEW c \in Core, BeginCoreUpdate(op, c)
  PROVE  UpdateInv'
  <1> USE DEF UpdateInv, BeginCoreUpdate
  <1>1. TypeOK'
    BY ZenonT(40) DEF RunOnDisk, MemoryTrue, Run, PC, Disk, Supervised, Job, Status, Selection
  <1>2. RunShape' /\ MemoryTrue'
    BY <1>1 DEF RunShape, MemoryTrue, RunOnDisk, Run, Disk, Supervised, Job
  <1>3. RunOnDisk'
    BY <1>1 DEF RunOnDisk, MemoryTrue, RunShape, Run, Disk
  <1>4. RunProven' /\ RunBack'
    BY <1>1 DEF RunProven, RunBack, RunShape, Run, Disk, Supervised, Job
  <1>5. SelectionOnDisk' /\ RunsBinaryPath' /\ ActiveProven'
    BY <1>1 DEF SelectionOnDisk, RunsBinaryPath, ActiveProven, MemoryTrue, RunOnDisk, RunProven, RunShape, Run, Disk, Supervised
  <1> QED BY <1>1, <1>2, <1>3, <1>4, <1>5

LEMMA BeginNotSavedInv ==
  ASSUME UpdateInv, BeginNotSaved
  PROVE  UpdateInv'
  <1> USE DEF UpdateInv, BeginNotSaved
  <1>1. TypeOK'
    BY DEF RunOnDisk, MemoryTrue, Run, PC, Disk, Supervised, Job, Status, Selection
  <1>2. RunShape' /\ MemoryTrue'
    BY <1>1 DEF RunShape, MemoryTrue, RunOnDisk, Run, Disk, Supervised, Job
  <1>3. RunOnDisk'
    BY <1>1 DEF RunOnDisk, MemoryTrue, RunShape, Run, Disk
  <1>4. RunProven' /\ RunBack'
    BY <1>1 DEF RunProven, RunBack, RunShape, Run, Disk, Supervised, Job
  <1>5. SelectionOnDisk' /\ RunsBinaryPath' /\ ActiveProven'
    BY <1>1 DEF SelectionOnDisk, RunsBinaryPath, ActiveProven, MemoryTrue, RunOnDisk, RunProven, RunShape, Run, Disk, Supervised
  <1> QED BY <1>1, <1>2, <1>3, <1>4, <1>5

LEMMA downloadCoreInv ==
  ASSUME UpdateInv, downloadCore
  PROVE  UpdateInv'
  <1> USE DEF UpdateInv, downloadCore, Publish, Goto
  <1>1. TypeOK'
    BY DEF RunOnDisk, MemoryTrue, Run, PC, Disk, Supervised, Job, Status, Selection
  <1>2. RunShape' /\ MemoryTrue'
    BY <1>1 DEF RunShape, MemoryTrue, RunOnDisk, Run, Disk, Supervised, Job
  <1>3. RunOnDisk'
    BY <1>1 DEF RunOnDisk, MemoryTrue, RunShape, Run, Disk
  <1>4. RunProven' /\ RunBack'
    BY <1>1 DEF RunProven, RunBack, RunShape, Run, Disk, Supervised, Job
  <1>5. SelectionOnDisk' /\ RunsBinaryPath' /\ ActiveProven'
    BY <1>1 DEF SelectionOnDisk, RunsBinaryPath, ActiveProven, MemoryTrue, RunOnDisk, RunProven, RunShape, Run, Disk, Supervised
  <1> QED BY <1>1, <1>2, <1>3, <1>4, <1>5

LEMMA verifyPreviousInv ==
  ASSUME UpdateInv, verifyPrevious
  PROVE  UpdateInv'
  <1> USE DEF UpdateInv, verifyPrevious, Goto
  <1>1. TypeOK'
    BY DEF RunOnDisk, MemoryTrue, Run, PC, Disk, Supervised, Job, Status, Selection
  <1>2. RunShape' /\ MemoryTrue'
    BY <1>1 DEF RunShape, MemoryTrue, RunOnDisk, Run, Disk, Supervised, Job
  <1>3. RunOnDisk'
    BY <1>1 DEF RunOnDisk, MemoryTrue, RunShape, Run, Disk
  <1>4. RunProven' /\ RunBack'
    BY <1>1 DEF RunProven, RunBack, RunShape, Run, Disk, Supervised, Job
  <1>5. SelectionOnDisk' /\ RunsBinaryPath' /\ ActiveProven'
    BY <1>1 DEF SelectionOnDisk, RunsBinaryPath, ActiveProven, MemoryTrue, RunOnDisk, RunProven, RunShape, Run, Disk, Supervised
  <1> QED BY <1>1, <1>2, <1>3, <1>4, <1>5

LEMMA FetchFailsInv ==
  ASSUME UpdateInv, FetchFails
  PROVE  UpdateInv'
  <1> USE DEF UpdateInv, FetchFails
  <1>1. TypeOK'
    BY ResultType
  <1>2. RunShape' /\ MemoryTrue'
    BY <1>1 DEF RunShape, MemoryTrue, RunOnDisk, Run, Disk, Supervised, Job, Result
  <1>3. RunOnDisk'
    BY <1>1 DEF RunOnDisk, MemoryTrue, RunShape, Run, Disk, Result
  <1>4. RunProven' /\ RunBack'
    BY <1>1 DEF RunProven, RunBack, RunShape, Run, Disk, Supervised, Job, Result
  <1>5. SelectionOnDisk' /\ RunsBinaryPath' /\ ActiveProven'
    BY <1>1 DEF SelectionOnDisk, RunsBinaryPath, ActiveProven, MemoryTrue, RunOnDisk, RunProven, RunShape, Run, Disk, Supervised, Result
  <1> QED BY <1>1, <1>2, <1>3, <1>4, <1>5

LEMMA CandidateValidInv ==
  ASSUME UpdateInv, CandidateValid
  PROVE  UpdateInv'
  <1> USE DEF UpdateInv, CandidateValid
  <1>1. TypeOK'
    <2>1. run' \in Run
      <3>1. CASE core.up /\ run.op = "install"
        BY <3>1 DEF Run, PC, Supervised
      <3>2. CASE ~(core.up /\ run.op = "install")
        BY <3>2 DEF Run, PC, Supervised
      <3> QED BY <3>1, <3>2
    <2>2. proven' \in SUBSET Core
      BY DEF RunOnDisk
    <2> QED BY <2>1, <2>2
  <1>2. RunShape' /\ MemoryTrue'
    BY <1>1 DEF RunShape, MemoryTrue, RunOnDisk, Run, Disk, Supervised, Job
  <1>3. RunOnDisk'
    BY <1>1 DEF RunOnDisk, MemoryTrue, RunShape, Run, Disk
  <1>4. RunProven' /\ RunBack'
    BY <1>1 DEF RunProven, RunBack, RunShape, Run, Disk, Supervised, Job
  <1>5. SelectionOnDisk' /\ RunsBinaryPath' /\ ActiveProven'
    BY <1>1 DEF SelectionOnDisk, RunsBinaryPath, ActiveProven, MemoryTrue, RunOnDisk, RunProven, RunShape, Run, Disk, Supervised
  <1> QED BY <1>1, <1>2, <1>3, <1>4, <1>5

LEMMA CandidateInvalidInv ==
  ASSUME UpdateInv, CandidateInvalid
  PROVE  UpdateInv'
  <1> USE DEF UpdateInv, CandidateInvalid
  <1>1. TypeOK'
    BY ResultType
  <1>2. RunShape' /\ MemoryTrue'
    BY <1>1 DEF RunShape, MemoryTrue, RunOnDisk, Run, Disk, Supervised, Job, Result
  <1>3. RunOnDisk'
    BY <1>1 DEF RunOnDisk, MemoryTrue, RunShape, Run, Disk, Result
  <1>4. RunProven' /\ RunBack'
    BY <1>1 DEF RunProven, RunBack, RunShape, Run, Disk, Supervised, Job, Result
  <1>5. SelectionOnDisk' /\ RunsBinaryPath' /\ ActiveProven'
    BY <1>1 DEF SelectionOnDisk, RunsBinaryPath, ActiveProven, MemoryTrue, RunOnDisk, RunProven, RunShape, Run, Disk, Supervised, Result
  <1> QED BY <1>1, <1>2, <1>3, <1>4, <1>5

LEMMA CurrentHealthyInv ==
  ASSUME UpdateInv, CurrentHealthy
  PROVE  UpdateInv'
  <1> USE DEF UpdateInv, CurrentHealthy, Goto
  <1>1. TypeOK'
    BY DEF RunOnDisk, MemoryTrue, Run, PC, Disk, Supervised, Job, Status, Selection
  <1>2. RunShape' /\ MemoryTrue'
    BY <1>1 DEF RunShape, MemoryTrue, RunOnDisk, Run, Disk, Supervised, Job
  <1>3. RunOnDisk'
    BY <1>1 DEF RunOnDisk, MemoryTrue, RunShape, Run, Disk
  <1>4. RunProven' /\ RunBack'
    BY <1>1 DEF RunProven, RunBack, RunShape, Run, Disk, Supervised, Job
  <1>5. SelectionOnDisk' /\ RunsBinaryPath' /\ ActiveProven'
    BY <1>1 DEF SelectionOnDisk, RunsBinaryPath, ActiveProven, MemoryTrue, RunOnDisk, RunProven, RunShape, Run, Disk, Supervised
  <1> QED BY <1>1, <1>2, <1>3, <1>4, <1>5

LEMMA CurrentUnhealthyInv ==
  ASSUME UpdateInv, CurrentUnhealthy
  PROVE  UpdateInv'
  <1> USE DEF UpdateInv, CurrentUnhealthy
  <1>1. TypeOK'
    BY ResultType
  <1>2. RunShape' /\ MemoryTrue'
    BY <1>1 DEF RunShape, MemoryTrue, RunOnDisk, Run, Disk, Supervised, Job, Result
  <1>3. RunOnDisk'
    BY <1>1 DEF RunOnDisk, MemoryTrue, RunShape, Run, Disk, Result
  <1>4. RunProven' /\ RunBack'
    BY <1>1 DEF RunProven, RunBack, RunShape, Run, Disk, Supervised, Job, Result
  <1>5. SelectionOnDisk' /\ RunsBinaryPath' /\ ActiveProven'
    BY <1>1 DEF SelectionOnDisk, RunsBinaryPath, ActiveProven, MemoryTrue, RunOnDisk, RunProven, RunShape, Run, Disk, Supervised, Result
  <1> QED BY <1>1, <1>2, <1>3, <1>4, <1>5

LEMMA BackupInv ==
  ASSUME UpdateInv, Backup
  PROVE  UpdateInv'
  <1> USE DEF UpdateInv, Backup, Executable, Readable
  <1>1. TypeOK'
    <2>1. Executable(binaryPath) \in Core
      BY DEF Run, PC, Disk, Job, Status, Selection, Supervised
    <2>2. run' \in Run
      <3>1. CASE run.cand = Executable(binaryPath)
        BY <2>1, <3>1, ZenonT(40) DEF Run, PC
      <3>2. CASE run.cand # Executable(binaryPath)
        BY <2>1, <3>2, ZenonT(40) DEF Run, PC
      <3> QED BY <3>1, <3>2
    <2>3. disk' \in Disk /\ selection' \in Selection
      BY <2>1 DEF Run, PC, Disk, Job, Status, Selection
    <2> QED BY <2>2, <2>3
  <1>a. /\ run'.pc \in {"finish", "quiesce"}
        /\ \A f \in {"cand", "was", "back"} : run'[f] = run[f]
    <2>1. CASE run.cand = Executable(binaryPath)
      BY <1>1, <2>1, ZenonT(40) DEF Run
    <2>2. CASE run.cand # Executable(binaryPath)
      BY <1>1, <2>2 DEF Run
    <2> QED BY <2>1, <2>2
  <1>b. disk'.job = disk.job /\ disk'.sel = selection'
    BY <1>1 DEF Disk
  <1>c. selection'.active = None => FALSE
    BY <1>1 DEF Selection
  <1>2. RunShape' /\ MemoryTrue'
    <2>1. RunShape'
      BY <1>a DEF RunShape
    <2>2. MemoryTrue'
      BY <1>a, <1>b, <1>c DEF MemoryTrue, RunShape
    <2> QED BY <2>1, <2>2
  <1>d. run'.pc = "quiesce" => run'.prev = Executable(binaryPath)
    <2>1. CASE run.cand = Executable(binaryPath)
      BY <2>1 DEF Run
    <2>2. CASE run.cand # Executable(binaryPath)
      BY <2>2 DEF Run
    <2> QED BY <2>1, <2>2
  <1>e. OnDisk(Executable(binaryPath))' /\ \A c \in Core : OnDisk(c) => OnDisk(c)'
    BY <1>1 DEF Disk
  <1>3. RunOnDisk'
    <2>1. run'.cand \in Core /\ OnDisk(run.cand)'
      BY <1>a, <1>e DEF RunOnDisk
    <2>2. binaryPath' # BundledPath => OnDisk(binaryPath)'
      BY <1>e DEF RunOnDisk
    <2> QED BY <1>a, <1>c, <1>d, <1>e, <2>1, <2>2 DEF RunOnDisk
  <1>4. RunProven' /\ RunBack'
    <2>1. RunProven'
      BY <1>a DEF RunProven
    <2>2. RunBack'
      BY <1>a, <1>b DEF RunBack
    <2> QED BY <2>1, <2>2
  <1>5. SelectionOnDisk' /\ RunsBinaryPath' /\ ActiveProven'
    BY <1>1 DEF SelectionOnDisk, RunsBinaryPath, ActiveProven, MemoryTrue, RunOnDisk, RunProven, RunShape, Run, Disk, Supervised
  <1> QED BY <1>1, <1>2, <1>3, <1>4, <1>5

LEMMA BackupFailsInv ==
  ASSUME UpdateInv, BackupFails
  PROVE  UpdateInv'
  <1> USE DEF UpdateInv, BackupFails, Executable, Readable, Publish
  <1>1. TypeOK'
    <2>1. run' \in Run
      BY ResultType
    <2>2. disk' \in Disk
      BY DEF Run, PC, Disk, Job, Status, Selection, Supervised
    <2> QED BY <2>1, <2>2
  <1>2. RunShape' /\ MemoryTrue'
    BY <1>1 DEF RunShape, MemoryTrue, RunOnDisk, Run, Disk, Supervised, Job, Result
  <1>3. RunOnDisk'
    BY <1>1 DEF RunOnDisk, MemoryTrue, RunShape, Run, Disk, Result
  <1>4. RunProven' /\ RunBack'
    BY <1>1 DEF RunProven, RunBack, RunShape, Run, Disk, Supervised, Job, Result
  <1>5. SelectionOnDisk' /\ RunsBinaryPath' /\ ActiveProven'
    BY <1>1 DEF SelectionOnDisk, RunsBinaryPath, ActiveProven, MemoryTrue, RunOnDisk, RunProven, RunShape, Run, Disk, Supervised, Result
  <1> QED BY <1>1, <1>2, <1>3, <1>4, <1>5

LEMMA SwitchInv ==
  ASSUME UpdateInv, Switch
  PROVE  UpdateInv'
  <1> USE DEF UpdateInv, Switch, Stopped, Goto
  <1>1. TypeOK'
    <2>1. core' \in Supervised
      BY StoppedType
    <2>2. binaryPath' \in Path
      BY DEF RunOnDisk, Run, PC
    <2>3. run' \in Run
      BY DEF Run, PC, Disk, Job, Status, Selection, Supervised
    <2> QED BY <2>1, <2>2, <2>3
  <1>2. RunShape' /\ MemoryTrue'
    BY <1>1 DEF RunShape, MemoryTrue, RunOnDisk, Run, Disk, Supervised, Job
  <1>3. RunOnDisk'
    BY <1>1 DEF RunOnDisk, MemoryTrue, RunShape, Run, Disk
  <1>4. RunProven' /\ RunBack'
    BY <1>1 DEF RunProven, RunBack, RunShape, Run, Disk, Supervised, Job
  <1>5. SelectionOnDisk' /\ RunsBinaryPath' /\ ActiveProven'
    BY <1>1 DEF SelectionOnDisk, RunsBinaryPath, ActiveProven, MemoryTrue, RunOnDisk, RunProven, RunShape, Run, Disk, Supervised
  <1> QED BY <1>1, <1>2, <1>3, <1>4, <1>5

LEMMA SwitchNotStoppedInv ==
  ASSUME UpdateInv, SwitchNotStopped
  PROVE  UpdateInv'
  <1> USE DEF UpdateInv, SwitchNotStopped, Stopped
  <1>1. TypeOK'
    BY ResultType, StoppedType
  <1>2. RunShape' /\ MemoryTrue'
    BY <1>1 DEF RunShape, MemoryTrue, RunOnDisk, Run, Disk, Supervised, Job, Result
  <1>3. RunOnDisk'
    BY <1>1 DEF RunOnDisk, MemoryTrue, RunShape, Run, Disk, Result
  <1>4. RunProven' /\ RunBack'
    BY <1>1 DEF RunProven, RunBack, RunShape, Run, Disk, Supervised, Job, Result
  <1>5. SelectionOnDisk' /\ RunsBinaryPath' /\ ActiveProven'
    BY <1>1 DEF SelectionOnDisk, RunsBinaryPath, ActiveProven, MemoryTrue, RunOnDisk, RunProven, RunShape, Run, Disk, Supervised, Result
  <1> QED BY <1>1, <1>2, <1>3, <1>4, <1>5

LEMMA StartCandidateInv ==
  ASSUME UpdateInv, StartCandidate
  PROVE  UpdateInv'
  <1> USE DEF UpdateInv, StartCandidate, Started, Goto, Readable
  <1>1. TypeOK'
    BY DEF RunOnDisk, MemoryTrue, Run, PC, Disk, Supervised, Job, Status, Selection
  <1>2. RunShape' /\ MemoryTrue'
    BY <1>1 DEF RunShape, MemoryTrue, RunOnDisk, Run, Disk, Supervised, Job
  <1>3. RunOnDisk'
    BY <1>1 DEF RunOnDisk, MemoryTrue, RunShape, Run, Disk
  <1>4. RunProven' /\ RunBack'
    BY <1>1 DEF RunProven, RunBack, RunShape, Run, Disk, Supervised, Job
  <1>5. SelectionOnDisk' /\ RunsBinaryPath' /\ ActiveProven'
    BY <1>1 DEF SelectionOnDisk, RunsBinaryPath, ActiveProven, MemoryTrue, RunOnDisk, RunProven, RunShape, Run, Disk, Supervised
  <1> QED BY <1>1, <1>2, <1>3, <1>4, <1>5

LEMMA StartCandidateFailsInv ==
  ASSUME UpdateInv, StartCandidateFails
  PROVE  UpdateInv'
  <1> USE DEF UpdateInv, StartCandidateFails, Goto
  <1>1. TypeOK'
    BY DEF RunOnDisk, MemoryTrue, Run, PC, Disk, Supervised, Job, Status, Selection
  <1>2. RunShape' /\ MemoryTrue'
    BY <1>1 DEF RunShape, MemoryTrue, RunOnDisk, Run, Disk, Supervised, Job
  <1>3. RunOnDisk'
    BY <1>1 DEF RunOnDisk, MemoryTrue, RunShape, Run, Disk
  <1>4. RunProven' /\ RunBack'
    BY <1>1 DEF RunProven, RunBack, RunShape, Run, Disk, Supervised, Job
  <1>5. SelectionOnDisk' /\ RunsBinaryPath' /\ ActiveProven'
    BY <1>1 DEF SelectionOnDisk, RunsBinaryPath, ActiveProven, MemoryTrue, RunOnDisk, RunProven, RunShape, Run, Disk, Supervised
  <1> QED BY <1>1, <1>2, <1>3, <1>4, <1>5

LEMMA checkUpdateReadinessInv ==
  ASSUME UpdateInv, checkUpdateReadiness
  PROVE  UpdateInv'
  <1> USE DEF UpdateInv, checkUpdateReadiness, Goto
  <1>1. TypeOK'
    BY DEF RunOnDisk, MemoryTrue, Run, PC, Disk, Supervised, Job, Status, Selection
  <1>2. RunShape' /\ MemoryTrue'
    BY <1>1 DEF RunShape, MemoryTrue, RunOnDisk, Run, Disk, Supervised, Job
  <1>3. RunOnDisk'
    BY <1>1 DEF RunOnDisk, MemoryTrue, RunShape, Run, Disk
  <1>4. RunProven' /\ RunBack'
    BY <1>1 DEF RunProven, RunBack, RunShape, Run, Disk, Supervised, Job
  <1>5. SelectionOnDisk' /\ RunsBinaryPath' /\ ActiveProven'
    BY <1>1 DEF SelectionOnDisk, RunsBinaryPath, ActiveProven, MemoryTrue, RunOnDisk, RunProven, RunShape, Run, Disk, Supervised
  <1> QED BY <1>1, <1>2, <1>3, <1>4, <1>5

LEMMA NotReadyInv ==
  ASSUME UpdateInv, NotReady
  PROVE  UpdateInv'
  <1> USE DEF UpdateInv, NotReady, Goto
  <1>1. TypeOK'
    BY DEF RunOnDisk, MemoryTrue, Run, PC, Disk, Supervised, Job, Status, Selection
  <1>2. RunShape' /\ MemoryTrue'
    BY <1>1 DEF RunShape, MemoryTrue, RunOnDisk, Run, Disk, Supervised, Job
  <1>3. RunOnDisk'
    BY <1>1 DEF RunOnDisk, MemoryTrue, RunShape, Run, Disk
  <1>4. RunProven' /\ RunBack'
    BY <1>1 DEF RunProven, RunBack, RunShape, Run, Disk, Supervised, Job
  <1>5. SelectionOnDisk' /\ RunsBinaryPath' /\ ActiveProven'
    BY <1>1 DEF SelectionOnDisk, RunsBinaryPath, ActiveProven, MemoryTrue, RunOnDisk, RunProven, RunShape, Run, Disk, Supervised
  <1> QED BY <1>1, <1>2, <1>3, <1>4, <1>5

LEMMA CommitInv ==
  ASSUME UpdateInv, Commit
  PROVE  UpdateInv'
  <1> USE DEF UpdateInv, Commit
  <1>1. TypeOK'
    <2>1. run' \in Run
      BY ResultType
    <2>2. disk' \in Disk /\ selection' \in Selection
      BY DEF RunOnDisk, Run, Disk, Selection
    <2> QED BY <2>1, <2>2
  <1>2. RunShape' /\ MemoryTrue'
    BY <1>1 DEF RunShape, MemoryTrue, RunOnDisk, Run, Disk, Supervised, Job, Result
  <1>3. RunOnDisk'
    BY <1>1 DEF RunOnDisk, MemoryTrue, RunShape, Run, Disk, Result
  <1>4. RunProven' /\ RunBack'
    BY <1>1 DEF RunProven, RunBack, RunShape, Run, Disk, Supervised, Job, Result
  <1>5. SelectionOnDisk' /\ RunsBinaryPath' /\ ActiveProven'
    BY <1>1 DEF SelectionOnDisk, RunsBinaryPath, ActiveProven, MemoryTrue, RunOnDisk, RunProven, RunShape, Run, Disk, Supervised, Result
  <1> QED BY <1>1, <1>2, <1>3, <1>4, <1>5

LEMMA CommitFailsInv ==
  ASSUME UpdateInv, CommitFails
  PROVE  UpdateInv'
  <1> USE DEF UpdateInv, CommitFails, Goto
  <1>1. TypeOK'
    BY DEF RunOnDisk, MemoryTrue, Run, PC, Disk, Supervised, Job, Status, Selection
  <1>2. RunShape' /\ MemoryTrue'
    BY <1>1 DEF RunShape, MemoryTrue, RunOnDisk, Run, Disk, Supervised, Job
  <1>3. RunOnDisk'
    BY <1>1 DEF RunOnDisk, MemoryTrue, RunShape, Run, Disk
  <1>4. RunProven' /\ RunBack'
    BY <1>1 DEF RunProven, RunBack, RunShape, Run, Disk, Supervised, Job
  <1>5. SelectionOnDisk' /\ RunsBinaryPath' /\ ActiveProven'
    BY <1>1 DEF SelectionOnDisk, RunsBinaryPath, ActiveProven, MemoryTrue, RunOnDisk, RunProven, RunShape, Run, Disk, Supervised
  <1> QED BY <1>1, <1>2, <1>3, <1>4, <1>5

LEMMA RecoverStopInv ==
  ASSUME UpdateInv, RecoverStop
  PROVE  UpdateInv'
  <1> USE DEF UpdateInv, RecoverStop, Stopped, Goto
  <1>1. TypeOK'
    <2>1. core' \in Supervised
      BY StoppedType
    <2>2. binaryPath' \in Path
      BY DEF RunOnDisk, Run, PC
    <2>3. run' \in Run
      <3>1. CASE run.was
        BY <3>1 DEF Run, PC
      <3>2. CASE ~run.was
        BY <3>2, ResultType
      <3> QED BY <3>1, <3>2
    <2> QED BY <2>1, <2>2, <2>3
  <1>2. RunShape' /\ MemoryTrue'
    <2>1. run'.pc # "idle" /\ run.pc # "idle"
      BY DEF Run, Result
    <2>2. UNCHANGED <<job, disk, selection, initErr, bundled, proven>>
      OBVIOUS
    <2>3. Running /\ ~initErr /\ selection.active # None
      BY <2>1 DEF RunShape, MemoryTrue, RunOnDisk
    <2>4. RunShape'
      BY <2>1, <2>2, <2>3 DEF RunShape, Running
    <2>5. MemoryTrue'
      BY <2>2, <2>3 DEF MemoryTrue
    <2> QED BY <2>4, <2>5
  <1>3. RunOnDisk'
    BY <1>1, ZenonT(40) DEF RunOnDisk, MemoryTrue, RunShape, Run, Disk, Result
  <1>4. RunProven' /\ RunBack'
    <2>1. CASE run.was
      BY <1>1, <2>1 DEF RunProven, RunBack, RunShape, Run, Disk, Supervised, Job
    <2>2. CASE ~run.was
      <3>1. run' = [run EXCEPT !.pc = "finish", !.ok = FALSE, !.back = TRUE]
        BY <2>2 DEF Result
      <3>2. /\ run'.pc = "finish" /\ ~run'.was
            /\ run'.prev = run.prev /\ binaryPath' = run.prev
        BY <2>2, <3>1 DEF Run
      <3>3. RunProven'
        BY <3>2 DEF RunProven
      <3>4. RunBack'
        BY <3>2 DEF RunBack
      <3> QED BY <3>3, <3>4
    <2> QED BY <2>1, <2>2
  <1>5. SelectionOnDisk' /\ RunsBinaryPath' /\ ActiveProven'
    BY <1>1 DEF SelectionOnDisk, RunsBinaryPath, ActiveProven, MemoryTrue, RunOnDisk, RunProven, RunShape, Run, Disk, Supervised, Result
  <1> QED BY <1>1, <1>2, <1>3, <1>4, <1>5

LEMMA RecoverNotStoppedInv ==
  ASSUME UpdateInv, RecoverNotStopped
  PROVE  UpdateInv'
  <1> USE DEF UpdateInv, RecoverNotStopped, Stopped
  <1>1. TypeOK'
    BY ResultType, StoppedType
  <1>2. RunShape' /\ MemoryTrue'
    BY <1>1 DEF RunShape, MemoryTrue, RunOnDisk, Run, Disk, Supervised, Job, Result
  <1>3. RunOnDisk'
    BY <1>1 DEF RunOnDisk, MemoryTrue, RunShape, Run, Disk, Result
  <1>4. RunProven' /\ RunBack'
    BY <1>1 DEF RunProven, RunBack, RunShape, Run, Disk, Supervised, Job, Result
  <1>5. SelectionOnDisk' /\ RunsBinaryPath' /\ ActiveProven'
    BY <1>1 DEF SelectionOnDisk, RunsBinaryPath, ActiveProven, MemoryTrue, RunOnDisk, RunProven, RunShape, Run, Disk, Supervised, Result
  <1> QED BY <1>1, <1>2, <1>3, <1>4, <1>5

LEMMA RecoverStartInv ==
  ASSUME UpdateInv, RecoverStart
  PROVE  UpdateInv'
  <1> USE DEF UpdateInv, RecoverStart, Started, Goto, Readable
  <1>1. TypeOK'
    BY DEF RunOnDisk, MemoryTrue, Run, PC, Disk, Supervised, Job, Status, Selection
  <1>2. RunShape' /\ MemoryTrue'
    BY <1>1 DEF RunShape, MemoryTrue, RunOnDisk, Run, Disk, Supervised, Job
  <1>3. RunOnDisk'
    BY <1>1 DEF RunOnDisk, MemoryTrue, RunShape, Run, Disk
  <1>4. RunProven' /\ RunBack'
    BY <1>1 DEF RunProven, RunBack, RunShape, Run, Disk, Supervised, Job
  <1>5. SelectionOnDisk' /\ RunsBinaryPath' /\ ActiveProven'
    BY <1>1 DEF SelectionOnDisk, RunsBinaryPath, ActiveProven, MemoryTrue, RunOnDisk, RunProven, RunShape, Run, Disk, Supervised
  <1> QED BY <1>1, <1>2, <1>3, <1>4, <1>5

LEMMA RecoverStartFailsInv ==
  ASSUME UpdateInv, RecoverStartFails
  PROVE  UpdateInv'
  <1> USE DEF UpdateInv, RecoverStartFails
  <1>1. TypeOK'
    BY ResultType
  <1>2. RunShape' /\ MemoryTrue'
    BY <1>1 DEF RunShape, MemoryTrue, RunOnDisk, Run, Disk, Supervised, Job, Result
  <1>3. RunOnDisk'
    BY <1>1 DEF RunOnDisk, MemoryTrue, RunShape, Run, Disk, Result
  <1>4. RunProven' /\ RunBack'
    BY <1>1 DEF RunProven, RunBack, RunShape, Run, Disk, Supervised, Job, Result
  <1>5. SelectionOnDisk' /\ RunsBinaryPath' /\ ActiveProven'
    BY <1>1 DEF SelectionOnDisk, RunsBinaryPath, ActiveProven, MemoryTrue, RunOnDisk, RunProven, RunShape, Run, Disk, Supervised, Result
  <1> QED BY <1>1, <1>2, <1>3, <1>4, <1>5

LEMMA RecoveredInv ==
  ASSUME UpdateInv, Recovered
  PROVE  UpdateInv'
  <1> USE DEF UpdateInv, Recovered
  <1>1. TypeOK'
    BY ResultType
  <1>2. RunShape' /\ MemoryTrue'
    BY <1>1 DEF RunShape, MemoryTrue, RunOnDisk, Run, Disk, Supervised, Job, Result
  <1>3. RunOnDisk'
    BY <1>1 DEF RunOnDisk, MemoryTrue, RunShape, Run, Disk, Result
  <1>4. RunProven' /\ RunBack'
    BY <1>1 DEF RunProven, RunBack, RunShape, Run, Disk, Supervised, Job, Result
  <1>5. SelectionOnDisk' /\ RunsBinaryPath' /\ ActiveProven'
    BY <1>1 DEF SelectionOnDisk, RunsBinaryPath, ActiveProven, MemoryTrue, RunOnDisk, RunProven, RunShape, Run, Disk, Supervised, Result
  <1> QED BY <1>1, <1>2, <1>3, <1>4, <1>5

LEMMA NotRecoveredInv ==
  ASSUME UpdateInv, NotRecovered
  PROVE  UpdateInv'
  <1> USE DEF UpdateInv, NotRecovered
  <1>1. TypeOK'
    BY ResultType
  <1>2. RunShape' /\ MemoryTrue'
    BY <1>1 DEF RunShape, MemoryTrue, RunOnDisk, Run, Disk, Supervised, Job, Result
  <1>3. RunOnDisk'
    BY <1>1 DEF RunOnDisk, MemoryTrue, RunShape, Run, Disk, Result
  <1>4. RunProven' /\ RunBack'
    BY <1>1 DEF RunProven, RunBack, RunShape, Run, Disk, Supervised, Job, Result
  <1>5. SelectionOnDisk' /\ RunsBinaryPath' /\ ActiveProven'
    BY <1>1 DEF SelectionOnDisk, RunsBinaryPath, ActiveProven, MemoryTrue, RunOnDisk, RunProven, RunShape, Run, Disk, Supervised, Result
  <1> QED BY <1>1, <1>2, <1>3, <1>4, <1>5

LEMMA finishCoreUpdateInv ==
  ASSUME UpdateInv, finishCoreUpdate
  PROVE  UpdateInv'
  <1> USE DEF UpdateInv, finishCoreUpdate, Kept
  <1>1. TypeOK'
    <2>1. job' \in Job
      BY DEF Run, Job, Status
    <2>2. PICK saved \in {job', disk.job} :
            disk' = [disk EXCEPT !.job = saved, !.files = @ \cap Kept]
      BY Zenon
    <2>3. saved \in Job
      BY <2>1, <2>2 DEF Disk
    <2>4. disk' \in Disk
      BY <2>2, <2>3 DEF Disk
    <2>5. run' \in Run
      BY DEF Run, PC
    <2> QED BY <2>1, <2>4, <2>5
  <1>2. RunShape' /\ MemoryTrue'
    BY <1>1 DEF RunShape, MemoryTrue, RunOnDisk, Run, Disk, Supervised, Job
  <1>3. RunOnDisk'
    BY <1>1 DEF RunOnDisk, MemoryTrue, RunShape, Run, Disk
  <1>4. RunProven' /\ RunBack'
    BY <1>1 DEF RunProven, RunBack, RunShape, Run, Disk, Supervised, Job
  <1>5. SelectionOnDisk' /\ RunsBinaryPath' /\ ActiveProven'
    BY <1>1 DEF SelectionOnDisk, RunsBinaryPath, ActiveProven, MemoryTrue, RunOnDisk, RunProven, RunShape, Run, Disk, Supervised
  <1> QED BY <1>1, <1>2, <1>3, <1>4, <1>5

LEMMA StartMihomoInv ==
  ASSUME UpdateInv, StartMihomo
  PROVE  UpdateInv'
  <1> USE DEF UpdateInv, StartMihomo, Started, Readable
  <1>1. TypeOK'
    BY DEF RunOnDisk, MemoryTrue, Run, PC, Disk, Supervised, Job, Status, Selection
  <1>2. RunShape' /\ MemoryTrue'
    BY <1>1 DEF RunShape, MemoryTrue, RunOnDisk, Run, Disk, Supervised, Job
  <1>3. RunOnDisk'
    BY <1>1 DEF RunOnDisk, MemoryTrue, RunShape, Run, Disk
  <1>4. RunProven' /\ RunBack'
    BY <1>1 DEF RunProven, RunBack, RunShape, Run, Disk, Supervised, Job
  <1>5. SelectionOnDisk' /\ RunsBinaryPath' /\ ActiveProven'
    BY <1>1 DEF SelectionOnDisk, RunsBinaryPath, ActiveProven, MemoryTrue, RunOnDisk, RunProven, RunShape, Run, Disk, Supervised
  <1> QED BY <1>1, <1>2, <1>3, <1>4, <1>5

LEMMA StopMihomoInv ==
  ASSUME UpdateInv, StopMihomo
  PROVE  UpdateInv'
  <1> USE DEF UpdateInv, StopMihomo, Stopped
  <1>1. TypeOK'
    BY StoppedType
  <1>2. RunShape' /\ MemoryTrue'
    BY <1>1 DEF RunShape, MemoryTrue, RunOnDisk, Run, Disk, Supervised, Job
  <1>3. RunOnDisk'
    BY <1>1 DEF RunOnDisk, MemoryTrue, RunShape, Run, Disk
  <1>4. RunProven' /\ RunBack'
    BY <1>1 DEF RunProven, RunBack, RunShape, Run, Disk, Supervised, Job
  <1>5. SelectionOnDisk' /\ RunsBinaryPath' /\ ActiveProven'
    BY <1>1 DEF SelectionOnDisk, RunsBinaryPath, ActiveProven, MemoryTrue, RunOnDisk, RunProven, RunShape, Run, Disk, Supervised
  <1> QED BY <1>1, <1>2, <1>3, <1>4, <1>5

LEMMA CrashInv ==
  ASSUME UpdateInv, Crash
  PROVE  UpdateInv'
  <1> USE DEF UpdateInv, Crash
  <1>1. TypeOK'
    <2>1. core' \in Supervised
      BY DEF Run, PC, Disk, Job, Status, Selection, Supervised
    <2> QED BY <2>1
  <1>2. RunShape' /\ MemoryTrue'
    BY <1>1 DEF RunShape, MemoryTrue, RunOnDisk, Run, Disk, Supervised, Job
  <1>3. RunOnDisk'
    BY <1>1 DEF RunOnDisk, MemoryTrue, RunShape, Run, Disk
  <1>4. RunProven' /\ RunBack'
    BY <1>1 DEF RunProven, RunBack, RunShape, Run, Disk, Supervised, Job
  <1>5. SelectionOnDisk' /\ RunsBinaryPath' /\ ActiveProven'
    BY <1>1 DEF SelectionOnDisk, RunsBinaryPath, ActiveProven, MemoryTrue, RunOnDisk, RunProven, RunShape, Run, Disk, Supervised
  <1> QED BY <1>1, <1>2, <1>3, <1>4, <1>5

LEMMA AutoRestartInv ==
  ASSUME UpdateInv, AutoRestart
  PROVE  UpdateInv'
  <1> USE DEF UpdateInv, AutoRestart, Started, Readable
  <1>1. TypeOK'
    BY DEF RunOnDisk, MemoryTrue, Run, PC, Disk, Supervised, Job, Status, Selection
  <1>2. RunShape' /\ MemoryTrue'
    BY <1>1 DEF RunShape, MemoryTrue, RunOnDisk, Run, Disk, Supervised, Job
  <1>3. RunOnDisk'
    BY <1>1 DEF RunOnDisk, MemoryTrue, RunShape, Run, Disk
  <1>4. RunProven' /\ RunBack'
    BY <1>1 DEF RunProven, RunBack, RunShape, Run, Disk, Supervised, Job
  <1>5. SelectionOnDisk' /\ RunsBinaryPath' /\ ActiveProven'
    BY <1>1 DEF SelectionOnDisk, RunsBinaryPath, ActiveProven, MemoryTrue, RunOnDisk, RunProven, RunShape, Run, Disk, Supervised
  <1> QED BY <1>1, <1>2, <1>3, <1>4, <1>5

LEMMA AutoRestartFailsInv ==
  ASSUME UpdateInv, AutoRestartFails
  PROVE  UpdateInv'
  <1> USE DEF UpdateInv, AutoRestartFails, Readable
  <1>1. TypeOK'
    <2>1. core' \in Supervised
      BY DEF Supervised
    <2> QED BY <2>1
  <1>2. RunShape' /\ MemoryTrue'
    BY <1>1 DEF RunShape, MemoryTrue, RunOnDisk, Run, Disk, Supervised, Job
  <1>3. RunOnDisk'
    BY <1>1 DEF RunOnDisk, MemoryTrue, RunShape, Run, Disk
  <1>4. RunProven' /\ RunBack'
    BY <1>1 DEF RunProven, RunBack, RunShape, Run, Disk, Supervised, Job
  <1>5. SelectionOnDisk' /\ RunsBinaryPath' /\ ActiveProven'
    BY <1>1 DEF SelectionOnDisk, RunsBinaryPath, ActiveProven, MemoryTrue, RunOnDisk, RunProven, RunShape, Run, Disk, Supervised
  <1> QED BY <1>1, <1>2, <1>3, <1>4, <1>5

LEMMA DeploymentToolInv ==
  ASSUME UpdateInv, DeploymentTool
  PROVE  UpdateInv'
  <1> USE DEF UpdateInv, DeploymentTool
  <1>1. TypeOK'
    BY DEF RunOnDisk, MemoryTrue, Run, PC, Disk, Supervised, Job, Status, Selection
  <1>2. RunShape' /\ MemoryTrue'
    BY <1>1 DEF RunShape, MemoryTrue, RunOnDisk, Run, Disk, Supervised, Job
  <1>3. RunOnDisk'
    BY <1>1 DEF RunOnDisk, MemoryTrue, RunShape, Run, Disk
  <1>4. RunProven' /\ RunBack'
    BY <1>1 DEF RunProven, RunBack, RunShape, Run, Disk, Supervised, Job
  <1>5. SelectionOnDisk' /\ RunsBinaryPath' /\ ActiveProven'
    BY <1>1 DEF SelectionOnDisk, RunsBinaryPath, ActiveProven, MemoryTrue, RunOnDisk, RunProven, RunShape, Run, Disk, Supervised
  <1> QED BY <1>1, <1>2, <1>3, <1>4, <1>5

LEMMA DamageInv ==
  ASSUME UpdateInv, Damage
  PROVE  UpdateInv'
  <1> USE DEF UpdateInv, Damage
  <1>1. TypeOK'
    BY DEF RunOnDisk, MemoryTrue, Run, PC, Disk, Supervised, Job, Status, Selection
  <1>2. RunShape' /\ MemoryTrue'
    BY <1>1 DEF RunShape, MemoryTrue, RunOnDisk, Run, Disk, Supervised, Job
  <1>3. RunOnDisk'
    BY <1>1 DEF RunOnDisk, MemoryTrue, RunShape, Run, Disk
  <1>4. RunProven' /\ RunBack'
    BY <1>1 DEF RunProven, RunBack, RunShape, Run, Disk, Supervised, Job
  <1>5. SelectionOnDisk' /\ RunsBinaryPath' /\ ActiveProven'
    BY <1>1 DEF SelectionOnDisk, RunsBinaryPath, ActiveProven, MemoryTrue, RunOnDisk, RunProven, RunShape, Run, Disk, Supervised
  <1> QED BY <1>1, <1>2, <1>3, <1>4, <1>5

LEMMA PanelRestartInv ==
  ASSUME UpdateInv, PanelRestart
  PROVE  UpdateInv'
  <1> USE DEF UpdateInv, PanelRestart
  <1>1. TypeOK'
    <2>1. job' \in Job
      BY DEF Run, PC, Disk, Job, Status, Selection, Supervised
    <2>2. selection' \in Selection /\ binaryPath' \in Path
      BY DEF Run, PC, Disk, Job, Status, Selection, Supervised
    <2>3. initErr' \in BOOLEAN /\ bundled' \in Core /\ proven' \in SUBSET Core
      OBVIOUS
    <2>4. run' \in Run /\ core' \in Supervised
      BY DEF Run, PC, Supervised
    <2> QED BY <2>1, <2>2, <2>3, <2>4
  <1>2. RunShape' /\ MemoryTrue'
    <2>1. CASE disk.sel.active = None
      BY <1>1, <2>1 DEF RunShape, MemoryTrue, RunOnDisk, RunBack, Run, Disk, Supervised, Job, Selection
    <2>2. CASE disk.sel.active # None /\ disk.sel.active \in disk.files
      BY <1>1, <2>2 DEF RunShape, MemoryTrue, RunOnDisk, RunBack, Run, Disk, Supervised, Job, Selection
    <2>3. CASE disk.sel.active # None /\ disk.sel.active \notin disk.files
      BY <1>1, <2>3 DEF RunShape, MemoryTrue, RunOnDisk, RunBack, Run, Disk, Supervised, Job, Selection
    <2> QED BY <2>1, <2>2, <2>3
  <1>3. RunOnDisk'
    BY <1>1 DEF RunOnDisk, MemoryTrue, RunShape, Run, Disk
  <1>4. RunProven' /\ RunBack'
    BY <1>1 DEF RunProven, RunBack, RunShape, Run, Disk, Supervised, Job
  <1>5. SelectionOnDisk' /\ RunsBinaryPath' /\ ActiveProven'
    BY <1>1 DEF SelectionOnDisk, RunsBinaryPath, ActiveProven, MemoryTrue, RunOnDisk, RunProven, RunShape, Run, Disk, Supervised
  <1> QED BY <1>1, <1>2, <1>3, <1>4, <1>5

-----------------------------------------------------------------------------
(* The invariant *)

LEMMA InitInv == Init => UpdateInv
  <1> SUFFICES ASSUME Init PROVE UpdateInv
    OBVIOUS
  <1> USE DEF Init
  <1>1. TypeOK
    BY DEF Disk, Selection, Job, Status, Run, PC, Supervised
  <1>2. RunShape /\ MemoryTrue
    BY DEF RunShape, MemoryTrue
  <1>3. RunOnDisk /\ RunProven /\ RunBack
    BY DEF RunOnDisk, RunProven, RunBack
  <1>4. SelectionOnDisk /\ RunsBinaryPath /\ ActiveProven
    BY DEF SelectionOnDisk, RunsBinaryPath, ActiveProven
  <1> QED BY <1>1, <1>2, <1>3, <1>4 DEF UpdateInv

LEMMA StutterInv ==
  ASSUME UpdateInv, UNCHANGED vars
  PROVE  UpdateInv'
  BY DEF UpdateInv, vars, RunShape, MemoryTrue, RunOnDisk, RunProven, RunBack,
         SelectionOnDisk, RunsBinaryPath, ActiveProven

LEMMA NextInv == UpdateInv /\ [Next]_vars => UpdateInv'
  <1> SUFFICES ASSUME UpdateInv, [Next]_vars PROVE UpdateInv'
    OBVIOUS
  <1>1. CASE \E c \in Core : BeginCoreUpdate("install", c) \/ BeginCoreUpdate("rollback", c)
    BY <1>1, BeginCoreUpdateInv
  <1>2. CASE BeginNotSaved
    BY <1>2, BeginNotSavedInv
  <1>3. CASE Prepare
    BY <1>3, downloadCoreInv, verifyPreviousInv, FetchFailsInv,
       CandidateValidInv, CandidateInvalidInv, CurrentHealthyInv,
       CurrentUnhealthyInv, BackupInv, BackupFailsInv DEF Prepare
  <1>4. CASE SwitchStep
    BY <1>4, SwitchInv, SwitchNotStoppedInv, StartCandidateInv,
       StartCandidateFailsInv, checkUpdateReadinessInv, NotReadyInv,
       CommitInv, CommitFailsInv DEF SwitchStep
  <1>5. CASE recoverOld
    BY <1>5, RecoverStopInv, RecoverNotStoppedInv, RecoverStartInv,
       RecoverStartFailsInv, RecoveredInv, NotRecoveredInv DEF recoverOld
  <1>6. CASE Environment
    BY <1>6, StartMihomoInv, StopMihomoInv, CrashInv, AutoRestartInv, AutoRestartFailsInv,
       DeploymentToolInv, DamageInv, PanelRestartInv DEF Environment
  <1>7. CASE finishCoreUpdate
    BY <1>7, finishCoreUpdateInv
  <1>8. CASE UNCHANGED vars
    BY <1>8, StutterInv
  <1> QED
    BY <1>1, <1>2, <1>3, <1>4, <1>5, <1>6, <1>7, <1>8 DEF Next, performCoreUpdate

(* UpdateInv holds in every reachable state, however jobs fail and wherever  *)
(* the panel is cut off.                                                     *)
THEOREM Invariance == Spec => []UpdateInv
  <1>1. UpdateInv /\ [Next]_vars => UpdateInv'
    BY NextInv
  <1> QED BY InitInv, <1>1, PTL DEF Spec

(* saveSelection and pruneBinaries never leave selection.json naming an      *)
(* executable that is gone.                                                  *)
THEOREM SelectionOnDiskHolds == Spec => []SelectionOnDisk
  <1>1. UpdateInv => SelectionOnDisk
    BY DEF UpdateInv
  <1> QED BY Invariance, <1>1, PTL

(* Memory and disk of the updater keep their types at every step of a job.   *)
THEOREM TypeCorrect == Spec => []TypeOK
  <1>1. UpdateInv => TypeOK
    BY DEF UpdateInv
  <1> QED BY Invariance, <1>1, PTL

(* setBinaryPath is only called while no core runs: what runs is what the    *)
(* supervisor would start again.                                             *)
THEOREM RunsBinaryPathHolds == Spec => []RunsBinaryPath
  <1>1. UpdateInv => RunsBinaryPath
    BY DEF UpdateInv
  <1> QED BY Invariance, <1>1, PTL

(* What the next start of the panel selects has passed its checks.           *)
THEOREM ActiveProvenHolds == Spec => []ActiveProven
  <1>1. UpdateInv => ActiveProven
    BY DEF UpdateInv
  <1> QED BY Invariance, <1>1, PTL

(* pruneBinaries never removes the file the running core executes.           *)
THEOREM RunningOnDiskHolds == Spec => []RunningOnDisk
  <1>1. UpdateInv => RunningOnDisk
    BY DEF UpdateInv, RunningOnDisk, RunsBinaryPath, RunOnDisk
  <1> QED BY Invariance, <1>1, PTL

(* rolled_back is reported only after the old executable is in place and, if *)
(* the core ran, has been started again, whatever became of it since.        *)
THEOREM RolledBackTruthfulHolds == Spec => RolledBackTruthful
  <1> DEFINE Truthful ==
        At("finish") /\ ~At("finish")' /\ job'.rolledBack =>
            binaryPath = run.prev /\ (run.was => core.exec = run.prev)
  <1>1. ASSUME UpdateInv, [Next]_vars PROVE [Truthful]_vars
    <2>1. CASE finishCoreUpdate
      BY <1>1, <2>1 DEF finishCoreUpdate, UpdateInv, RunBack, Job
    <2>2. CASE PanelRestart
      BY <1>1, <2>2 DEF PanelRestart, UpdateInv, RunBack, RunShape, Disk, Job
    <2>3. CASE ~finishCoreUpdate /\ ~PanelRestart
      <3>1. ~At("finish") \/ At("finish")'
        BY <1>1, <2>3 DEF Next, performCoreUpdate, Prepare, SwitchStep, recoverOld,
             Environment, BeginCoreUpdate, BeginNotSaved, downloadCore,
             verifyPrevious, FetchFails, CandidateValid, CandidateInvalid,
             CurrentHealthy, CurrentUnhealthy, Backup, BackupFails, Switch,
             SwitchNotStopped, StartCandidate, StartCandidateFails,
             checkUpdateReadiness, NotReady, Commit, CommitFails, RecoverStop,
             RecoverNotStopped, RecoverStart, RecoverStartFails, Recovered,
             NotRecovered, StartMihomo, StopMihomo, Crash, AutoRestart, AutoRestartFails,
             DeploymentTool, Damage, vars, UpdateInv, RunShape
      <3> QED BY <3>1
    <2> QED BY <2>1, <2>2, <2>3
  <1> QED BY Invariance, <1>1, PTL DEF Spec, RolledBackTruthful

=============================================================================
