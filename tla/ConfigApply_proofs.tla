------------------------- MODULE ConfigApply_proofs -------------------------
(***************************************************************************)
(* File, core and cached checks agree for any number of contents, failing  *)
(* writes and edits; and, where no core outlives its panel, a successful   *)
(* apply runs its content and a failed one restores what it found.         *)
(***************************************************************************)
EXTENDS ConfigApply, TLAPS

-----------------------------------------------------------------------------
(* The supervisor's operations. *)

LEMMA Contentful ==
  /\ NoFile \notin Contents /\ Empty \notin Contents /\ NoFile # Empty
  /\ ~Valid(NoFile) /\ ~Valid(Empty) /\ \A c : Valid(c) => c \in Contents /\ c \notin Invalid
  BY ContentsAssumption DEF Valid, NoFile, Empty

LEMMA PidIsFresh ==
  ASSUME TypeOK
  PROVE  FreshPid \in Pids /\ FreshPid # 0 /\ FreshPid \notin {check.pid, cache.pid}
  <1>1. \E p \in Pids : p \notin {check.pid, cache.pid}
    <2>1. 1 \in Pids /\ 2 \in Pids /\ 3 \in Pids
      BY DEF Pids
    <2> QED BY <2>1
  <1> QED BY <1>1 DEF FreshPid, Pids

\* What a stop, a start or a restart makes of the core.
Moved(k, content) ==
  /\ k \in Core
  /\ k.tie = "child" /\ k.run # NoFile =>
        \/ Child /\ k.run = core.run
        \/ Valid(content) /\ k.run = content
  /\ k.run # NoFile => k.run = core.run \/ (Valid(content) /\ k.run = content)
  /\ k.waiter # "none" => k.waiter = core.waiter /\ k.run = NoFile
  /\ k.pid \in {0, core.pid, FreshPid}
  /\ ~ChildrenSurvive /\ k.run # NoFile => k.tie = "child"

LEMMA StopMoves ==
  ASSUME TypeOK, CoreSane, NEW content
  PROVE  /\ Moved(StopCore(core), content)
         /\ StopCore(core).tie = "none" /\ StopCore(core).waiter = "none"
         /\ IsRunning(core) => StopCore(core).run = NoFile
         /\ ~IsRunning(core) => StopCore(core).run = core.run
  <1>1. core \in Core
    BY DEF TypeOK
  <1>2. StopCore(core) \in Core
    BY <1>1 DEF StopCore, Core, File
  <1> QED BY <1>1, <1>2 DEF Moved, StopCore, Core, CoreSane, IsRunning, Child

\* A core that is up is taken over; one that is down runs the content or stays
\* down.
LEMMA StartMoves ==
  ASSUME TypeOK, NEW k \in Core, NEW content \in File \cup {Empty}
  PROVE  LET s == StartCore(k, content)
         IN  /\ s \in Core
             /\ k.run # NoFile => /\ s.run = k.run /\ s.tie = "adopted" /\ s.pid = k.pid
                                  /\ s.waiter = "none"
             /\ k.run = NoFile /\ Valid(content) =>
                    s.run = content /\ s.tie = "child" /\ s.pid = FreshPid /\ s.waiter = "none"
             /\ k.run = NoFile /\ ~Valid(content) =>
                    s.run = NoFile /\ s.tie = k.tie /\ s.pid = k.pid /\ s.waiter \in {"none", k.waiter}
  <1>1. CASE k.run # NoFile
    BY <1>1 DEF StartCore, Core
  <1>2. CASE k.run = NoFile /\ content \in Invalid
    BY <1>2 DEF StartCore, Core, Valid
  <1>3. CASE k.run = NoFile /\ Valid(content)
    BY <1>3, PidIsFresh DEF StartCore, Core, Valid, File
  <1>4. CASE k.run = NoFile /\ content \notin Invalid /\ ~Valid(content)
    BY <1>4 DEF StartCore, Core
  <1> QED BY <1>1, <1>2, <1>3, <1>4

LEMMA StartMovesCore ==
  ASSUME TypeOK, CoreSane, NEW content \in File \cup {Empty},
         core.run = NoFile \/ ChildrenSurvive
  PROVE  Moved(StartCore(core, content), content)
  <1>1. core \in Core
    BY DEF TypeOK
  <1> QED BY <1>1, StartMoves DEF Moved, Child, CoreSane

LEMMA RestartMoves ==
  ASSUME TypeOK, CoreSane, NEW content \in File \cup {Empty}
  PROVE  LET s == RestartCore(core, content)
         IN  /\ Moved(s, content)
             /\ s.tie = "child" /\ s.run # NoFile => Valid(content) /\ s.run = content
             /\ s.run = NoFile => s.tie = "none" \/ ~IsRunning(core)
  <1> DEFINE stopped == IF IsRunning(core) THEN StopCore(core) ELSE core
  <1>1. /\ stopped \in Core
        /\ stopped.run # NoFile => ~IsRunning(core) /\ stopped = core /\ core.tie = "none"
        /\ stopped.pid \in {0, core.pid}
        /\ stopped.waiter # "none" => stopped = core
    <2>1. core \in Core
      BY DEF TypeOK
    <2> QED BY <2>1, StopMoves DEF IsRunning, StopCore, Moved, Core
  <1>2. RestartCore(core, content) = IF Valid(content) THEN StartCore(stopped, content) ELSE stopped
    BY DEF RestartCore
  <1>3. CASE Valid(content)
    <2>1. RestartCore(core, content) = StartCore(stopped, content)
      BY <1>2, <1>3
    <2> HIDE DEF stopped
    <2>2. CASE stopped.run # NoFile
      <3>1. /\ StartCore(stopped, content) \in Core
            /\ StartCore(stopped, content).run = core.run
            /\ StartCore(stopped, content).tie = "adopted"
            /\ StartCore(stopped, content).pid = stopped.pid
            /\ StartCore(stopped, content).waiter = "none"
        BY <1>1, <2>2, StartMoves
      <3> QED BY <1>1, <2>1, <2>2, <3>1 DEF Moved, CoreSane
    <2>3. CASE stopped.run = NoFile
      <3>1. /\ StartCore(stopped, content) \in Core
            /\ StartCore(stopped, content).run = content
            /\ StartCore(stopped, content).tie = "child"
            /\ StartCore(stopped, content).pid = FreshPid
            /\ StartCore(stopped, content).waiter = "none"
        BY <1>1, <1>3, <2>3, StartMoves
      <3> QED BY <1>3, <2>1, <3>1, Contentful DEF Moved
    <2> QED BY <2>2, <2>3
  <1>4. CASE ~Valid(content)
    BY <1>1, <1>2, <1>4, StopMoves DEF Moved, CoreSane, Child, IsRunning
  <1> QED BY <1>3, <1>4

\* What any step of the core keeps: only its conjuncts about the file are left.
LEMMA MovedKeeps ==
  ASSUME TypeOK, CoreSane, CheckTrue, NEW content, Moved(core', content),
         UNCHANGED checking
  PROVE  core' \in Core /\ CoreSane' /\ CheckTrue'
  <1>1. core' \in Core
    BY DEF Moved
  <1>2. CoreSane'
    BY DEF CoreSane, Moved
  <1>3. CheckTrue'
    <2>1. check' = check /\ cache' = cache
      BY DEF checking
    <2>2. core'.pid \in {0, core.pid, FreshPid} /\ FreshPid # check.pid
      BY PidIsFresh DEF Moved
    <2> QED BY <2>1, <2>2 DEF CheckTrue
  <1> QED BY <1>1, <1>2, <1>3

-----------------------------------------------------------------------------
(* Steps that leave the core alone. *)

LEMMA CoreUntouched ==
  ASSUME CoreSane, CheckTrue, core' = core, UNCHANGED checking
  PROVE  CoreSane' /\ CheckTrue'
  BY DEF CoreSane, CheckTrue, checking

LEMMA ApplyBeginsInv ==
  ASSUME ApplyInv, NEW content \in Contents \cup {Empty},
         ApplyBegins(content), rolled' \in File \cup {Empty}
  PROVE  ApplyInv'
  <1> USE DEF ApplyInv
  <1>1. /\ job.pc = "idle" /\ bak' \in {bak, Empty} /\ result' = "none"
        /\ UNCHANGED <<file, core, torn, faults, client, check, cache>>
        /\ job' = [pc |-> IF file = NoFile THEN "backed" ELSE "truncated",
                   content |-> content, old |-> file, was |-> FALSE, spoilt |-> FALSE]
    BY DEF ApplyBegins, checking
  <1>2. job' \in Job
    BY <1>1 DEF Job, TypeOK, File
  <1>3. TypeOK'
    BY <1>1, <1>2 DEF TypeOK
  <1>4. CoreSane' /\ CheckTrue'
    BY <1>1, CoreUntouched DEF checking
  <1>5. JobSane' /\ FileRuns' /\ NothingToRun'
    BY <1>1, Contentful DEF JobSane, FileRuns, NothingToRun, Resting, Written, Child
  <1> QED BY <1>3, <1>4, <1>5

LEMMA ApplyRequests ==
  ASSUME ApplyInv,
         \/ \E c \in Contents : ApplyConfig(c)
         \/ RollbackConfig \/ RollbackReads
  PROVE  ApplyInv'
  <1>1. ASSUME NEW c \in Contents, ApplyConfig(c)
        PROVE  ApplyInv'
    BY <1>1, ApplyBeginsInv DEF ApplyConfig, ApplyInv, TypeOK
  <1>2. CASE RollbackConfig
    BY <1>2, ApplyBeginsInv DEF RollbackConfig, ApplyInv, TypeOK, File
  <1>3. CASE RollbackReads
    <2>1. UNCHANGED <<file, bak, core, job, result, torn, faults, client, check, cache>>
          /\ rolled' = bak
      BY <1>3 DEF RollbackReads, checking
    <2> QED BY <2>1 DEF ApplyInv, TypeOK, CoreSane, JobSane, FileRuns, NothingToRun, CheckTrue,
                       Resting, Written, Child
  <1> QED BY <1>1, <1>2, <1>3

LEMMA JobSteps ==
  ASSUME TypeOK, NEW pc, job' = [job EXCEPT !.pc = pc]
  PROVE  /\ job'.pc = pc /\ job'.content = job.content /\ job'.old = job.old
         /\ job'.was = job.was /\ job'.spoilt = job.spoilt
  BY DEF TypeOK, Job

LEMMA JobFinishes ==
  ASSUME NEW outcome \in {"ok", "failed"}, Finish(outcome)
  PROVE  job' \in Job /\ job'.pc = "idle" /\ ~job'.was /\ ~job'.spoilt /\ result' = outcome
  BY DEF Finish, NoJob, Job, File

LEMMA FaultCounts ==
  ASSUME TypeOK, Fault
  PROVE  faults' \in 0 .. MaxFaults
  BY BoundsAssumption DEF Fault, TypeOK

LEMMA OverwriteInv ==
  ASSUME ApplyInv, Overwrite
  PROVE  ApplyInv'
  <1> USE DEF ApplyInv
  <1> DEFINE spoilt == job.pc # "idle"
  <1>1. /\ file' \in Contents /\ job' = [job EXCEPT !.spoilt = spoilt]
        /\ torn' = (torn \/ spoilt \/ core.run # NoFile) /\ faults' \in 0 .. MaxFaults
        /\ UNCHANGED <<bak, core, rolled, result, client, check, cache>>
    BY FaultCounts DEF Overwrite, checking
  <1>2. /\ job' \in Job /\ job'.pc = job.pc /\ job'.content = job.content
        /\ job'.old = job.old /\ job'.was = job.was /\ job'.spoilt = spoilt
    BY <1>1 DEF TypeOK, Job
  <1>3. TypeOK' /\ CoreSane' /\ CheckTrue'
    BY <1>1, <1>2, CoreUntouched DEF TypeOK, File, checking
  <1>4. JobSane'
    BY <1>1, <1>2 DEF JobSane, Resting, Written
  <1>5. FileRuns' /\ NothingToRun'
    BY <1>1, <1>2, Contentful DEF FileRuns, NothingToRun, Resting, Child
  <1> QED BY <1>3, <1>4, <1>5

\* The steps of an apply that touch neither the core nor the file.
LEMMA BackupWrittenInv ==
  ASSUME ApplyInv, BackupWritten
  PROVE  ApplyInv'
  <1> USE DEF ApplyInv
  <1>1. /\ job.pc = "truncated" /\ bak' = job.old /\ job' = [job EXCEPT !.pc = "backed"]
        /\ UNCHANGED <<file, core, rolled, result, torn, faults, client, check, cache>>
    BY DEF BackupWritten, checking
  <1>2. job' \in Job /\ job.old \in File
    BY <1>1 DEF TypeOK, Job
  <1>3. TypeOK' /\ CoreSane' /\ CheckTrue'
    BY <1>1, <1>2, CoreUntouched DEF TypeOK, checking
  <1>4. JobSane' /\ FileRuns' /\ NothingToRun'
    BY <1>1, JobSteps DEF JobSane, FileRuns, NothingToRun, Resting, Written, Child
  <1> QED BY <1>3, <1>4

LEMMA ApplyAborts ==
  ASSUME ApplyInv, BackupFails \/ SaveConfigFails
  PROVE  ApplyInv'
  <1> USE DEF ApplyInv
  <1>1. /\ job.pc \in {"truncated", "backed"} /\ Finish("failed")
        /\ UNCHANGED <<file, bak, core, rolled, torn, client, check, cache>>
        /\ faults' \in 0 .. MaxFaults
    BY FaultCounts DEF BackupFails, SaveConfigFails, checking, TypeOK
  <1>2. TypeOK' /\ CoreSane' /\ CheckTrue'
    BY <1>1, JobFinishes, CoreUntouched DEF TypeOK, checking
  <1>3. JobSane' /\ FileRuns' /\ NothingToRun'
    BY <1>1, JobFinishes DEF JobSane, FileRuns, NothingToRun, Resting, Written, Child
  <1> QED BY <1>2, <1>3

LEMMA SaveConfigInv ==
  ASSUME ApplyInv, SaveConfig
  PROVE  ApplyInv'
  <1> USE DEF ApplyInv
  <1>1. /\ job.pc = "backed" /\ job.content # Empty /\ file' = job.content
        /\ job' = [job EXCEPT !.pc = "saved"]
        /\ UNCHANGED <<bak, core, rolled, result, torn, faults, client, check, cache>>
    BY DEF SaveConfig, checking
  <1>2. job' \in Job /\ job.content \in Contents
    BY <1>1 DEF TypeOK, Job, JobSane, File
  <1>3. TypeOK' /\ CoreSane' /\ CheckTrue'
    BY <1>1, <1>2, CoreUntouched DEF TypeOK, File, checking
  <1>4. JobSane' /\ FileRuns' /\ NothingToRun'
    BY <1>1, <1>2, JobSteps DEF JobSane, FileRuns, NothingToRun, Resting, Written, Child
  <1> QED BY <1>3, <1>4

LEMMA AskRunningInv ==
  ASSUME ApplyInv, AskRunning
  PROVE  ApplyInv'
  <1> USE DEF ApplyInv
  <1>1. /\ job.pc = "saved" /\ job' = [job EXCEPT !.pc = "asked", !.was = IsRunning(core)]
        /\ UNCHANGED <<file, bak, core, rolled, result, torn, faults, client, check, cache>>
    BY DEF AskRunning, checking
  <1>2. job' \in Job /\ job'.pc = "asked" /\ job'.content = job.content /\ job'.old = job.old
        /\ job'.was = IsRunning(core) /\ job'.spoilt = job.spoilt
    BY <1>1 DEF TypeOK, Job, IsRunning
  <1>3. TypeOK' /\ CoreSane' /\ CheckTrue'
    BY <1>1, <1>2, CoreUntouched DEF TypeOK, checking
  <1>4. JobSane' /\ FileRuns' /\ NothingToRun'
    BY <1>1, <1>2 DEF JobSane, FileRuns, NothingToRun, Resting, Written, Child, IsRunning
  <1> QED BY <1>3, <1>4

LEMMA ValidatePassesInv ==
  ASSUME ApplyInv, ValidatePasses \/ ListenerMissing
  PROVE  ApplyInv'
  <1> USE DEF ApplyInv
  <1>1. PICK pc \in {"valid", "undo"} :
          /\ pc = "valid" => job.pc = "asked"
          /\ pc = "undo" => job.pc = "waiting"
          /\ job' = [job EXCEPT !.pc = pc]
          /\ UNCHANGED <<file, bak, core, rolled, result, torn, faults, client, check, cache>>
    BY DEF ValidatePasses, ListenerMissing, checking
  <1>2. job' \in Job
    BY <1>1 DEF TypeOK, Job
  <1>3. TypeOK' /\ CoreSane' /\ CheckTrue'
    BY <1>1, <1>2, CoreUntouched DEF TypeOK, checking
  <1>4. JobSane' /\ FileRuns' /\ NothingToRun'
    BY <1>1, JobSteps DEF JobSane, FileRuns, NothingToRun, Resting, Written, Child
  <1> QED BY <1>3, <1>4

LEMMA ListenersBoundInv ==
  ASSUME ApplyInv, ListenersBound
  PROVE  ApplyInv'
  <1> USE DEF ApplyInv
  <1>1. /\ job.pc = "waiting" /\ Finish("ok") /\ torn' = job.spoilt /\ torn' \in BOOLEAN
        /\ UNCHANGED <<file, bak, core, rolled, faults, client, check, cache>>
    BY DEF ListenersBound, checking, TypeOK, Job
  <1>2. TypeOK' /\ CoreSane' /\ CheckTrue'
    BY <1>1, JobFinishes, CoreUntouched DEF TypeOK, checking
  <1>3. ~job.spoilt => file \in Contents
    BY <1>1 DEF JobSane, Written
  <1>4. JobSane' /\ FileRuns' /\ NothingToRun'
    BY <1>1, <1>3, JobFinishes, Contentful
       DEF JobSane, FileRuns, NothingToRun, Resting, Written, Child
  <1> QED BY <1>2, <1>4

-----------------------------------------------------------------------------
(* Restorations, and steps of the core under an apply. *)

LEMMA RestoreEnds ==
  ASSUME TypeOK, Restore
  PROVE  /\ file' \in File \/ file' = file
         /\ torn' \in BOOLEAN /\ faults' \in 0 .. MaxFaults
         /\ ~torn' => file' = job.old /\ ~torn
  BY FaultCounts DEF Restore, TypeOK, Job

LEMMA ValidateFailsInv ==
  ASSUME ApplyInv, ValidateFails
  PROVE  ApplyInv'
  <1> USE DEF ApplyInv
  <1>1. /\ job.pc = "asked" /\ ~Valid(file) /\ Restore /\ Finish("failed")
        /\ UNCHANGED <<bak, core, rolled, client, check, cache>>
    BY DEF ValidateFails, checking
  <1>2. TypeOK' /\ CoreSane' /\ CheckTrue'
    BY <1>1, JobFinishes, RestoreEnds, CoreUntouched DEF TypeOK, checking
  <1>3. JobSane'
    BY <1>1, JobFinishes DEF JobSane, Resting, Written
  <1>4. ~torn' => file' = job.old /\ ~torn /\ file = job.content
    BY <1>1, RestoreEnds DEF JobSane, Written
  <1>5. FileRuns' /\ NothingToRun'
    BY <1>1, <1>4, JobFinishes DEF FileRuns, NothingToRun, CoreSane, Resting, Child
  <1> QED BY <1>2, <1>3, <1>5

LEMMA StartCandidateInv ==
  ASSUME ApplyInv, StartCandidate
  PROVE  ApplyInv'
  <1> USE DEF ApplyInv
  <1> DEFINE up == ~IsRunning(core) /\ IsRunning(core')
             pc == IF up THEN "waiting" ELSE "undo"
  <1>1. /\ job.pc = "valid" /\ ~job.was
        /\ core' = IF IsRunning(core) THEN core ELSE StartCore(core, file)
        /\ job' = [job EXCEPT !.pc = pc]
        /\ UNCHANGED <<file, bak, rolled, result, torn, faults, client, check, cache>>
    BY DEF StartCandidate, checking
  <1>2. Moved(core', file)
    <2>1. CASE IsRunning(core)
      BY <1>1, <2>1 DEF Moved, Child, CoreSane, TypeOK
    <2>2. CASE ~IsRunning(core)
      BY <1>1, <2>2, StartMovesCore DEF CoreSane, IsRunning, TypeOK
    <2> QED BY <2>1, <2>2
  <1>3. core' \in Core /\ CoreSane' /\ CheckTrue'
    BY <1>1, <1>2, MovedKeeps DEF checking
  <1>4. job' \in Job
    BY <1>1 DEF TypeOK, Job
  <1>5. TypeOK'
    BY <1>1, <1>3, <1>4 DEF TypeOK
  <1>6. /\ job'.pc = pc /\ job'.content = job.content /\ job'.old = job.old /\ job'.was = job.was
        /\ job'.spoilt = job.spoilt /\ (~job.spoilt => file = job.content)
    BY <1>1, JobSteps DEF JobSane, Written
  <1>7. JobSane' /\ NothingToRun'
    BY <1>1, <1>6 DEF JobSane, NothingToRun, Resting, Written
  <1>8. FileRuns'
    <2>1. up => ~Child
      BY DEF Child, IsRunning
    <2> HIDE DEF up
    <2> QED BY <1>1, <1>2, <1>6, <2>1 DEF FileRuns, JobSane, Resting, Child, Moved
  <1> QED BY <1>3, <1>5, <1>7, <1>8

LEMMA RestartCandidateInv ==
  ASSUME ApplyInv, RestartCandidate
  PROVE  ApplyInv'
  <1> USE DEF ApplyInv
  <1> DEFINE pc == IF IsRunning(core') THEN "waiting" ELSE "undo"
  <1>1. /\ job.pc = "valid" /\ job.was /\ core' = RestartCore(core, file)
        /\ job' = [job EXCEPT !.pc = pc]
        /\ UNCHANGED <<file, bak, rolled, result, torn, faults, client, check, cache>>
    BY DEF RestartCandidate, checking
  <1>2. Moved(core', file) /\ (core'.tie = "child" /\ core'.run # NoFile => core'.run = file)
    BY <1>1, RestartMoves DEF TypeOK
  <1>3. core' \in Core /\ CoreSane' /\ CheckTrue'
    BY <1>1, <1>2, MovedKeeps DEF checking
  <1>4. job' \in Job
    BY <1>1 DEF TypeOK, Job
  <1>5. TypeOK'
    BY <1>1, <1>3, <1>4 DEF TypeOK
  <1>6. /\ job'.pc = pc /\ job'.content = job.content /\ job'.old = job.old /\ job'.was = job.was
        /\ job'.spoilt = job.spoilt /\ (~job.spoilt => file = job.content)
    BY <1>1, JobSteps DEF JobSane, Written
  <1>7. pc \in {"waiting", "undo"}
    OBVIOUS
  <1> HIDE DEF pc
  <1>8. JobSane' /\ NothingToRun' /\ FileRuns'
    BY <1>1, <1>2, <1>6, <1>7 DEF JobSane, NothingToRun, FileRuns, Resting, Written, Child
  <1> QED BY <1>3, <1>5, <1>8

LEMMA UndoStartInv ==
  ASSUME ApplyInv, UndoStart
  PROVE  ApplyInv'
  <1> USE DEF ApplyInv
  <1>1. /\ core' = StopCore(core) /\ Restore /\ Finish("failed")
        /\ UNCHANGED <<bak, rolled, client, check, cache>>
    BY DEF UndoStart, checking
  <1>2. /\ Moved(core', file) /\ core'.tie = "none" /\ core'.waiter = "none"
        /\ IsRunning(core) => core'.run = NoFile
        /\ ~IsRunning(core) => core'.run = core.run
    BY <1>1, StopMoves
  <1>3. core' \in Core /\ CoreSane' /\ CheckTrue'
    BY <1>1, <1>2, MovedKeeps DEF checking
  <1>4. TypeOK'
    BY <1>1, <1>3, JobFinishes, RestoreEnds DEF TypeOK
  <1>5. JobSane' /\ FileRuns' /\ NothingToRun'
    BY <1>1, <1>2, JobFinishes
       DEF JobSane, FileRuns, NothingToRun, Resting, Written, Child, CoreSane, IsRunning
  <1> QED BY <1>3, <1>4, <1>5

LEMMA UndoRestartInv ==
  ASSUME ApplyInv, UndoRestart
  PROVE  ApplyInv'
  <1> USE DEF ApplyInv
  <1>1. job.pc = "undo" /\ job.was /\ UNCHANGED <<bak, core, rolled, client, check, cache>>
    BY DEF UndoRestart, checking
  <1>2. CoreSane' /\ CheckTrue'
    BY <1>1, CoreUntouched DEF checking
  <1>3. CASE /\ job.old # NoFile /\ file' = job.old /\ job' = [job EXCEPT !.pc = "restored"]
             /\ UNCHANGED <<torn, faults, result>>
    <2>1. job' \in Job /\ job.old \in File
      BY <1>3 DEF TypeOK, Job
    <2>2. TypeOK'
      BY <1>1, <1>3, <2>1 DEF TypeOK
    <2>3. JobSane' /\ FileRuns' /\ NothingToRun'
      BY <1>1, <1>3, JobSteps DEF JobSane, FileRuns, NothingToRun, Resting, Written, Child
    <2> QED BY <1>2, <2>2, <2>3
  <1>4. CASE Fault /\ torn' = TRUE /\ Finish("failed") /\ UNCHANGED file
    <2>1. TypeOK'
      BY <1>1, <1>4, JobFinishes, FaultCounts DEF TypeOK
    <2>2. JobSane' /\ FileRuns' /\ NothingToRun'
      BY <1>1, <1>4, JobFinishes DEF JobSane, FileRuns, NothingToRun, Resting, Written
    <2> QED BY <1>2, <2>1, <2>2
  <1>5. CASE job.old = NoFile /\ Finish("failed") /\ UNCHANGED <<file, torn, faults>>
    <2>1. TypeOK'
      BY <1>1, <1>5, JobFinishes DEF TypeOK
    <2>2. JobSane' /\ FileRuns' /\ NothingToRun'
      BY <1>1, <1>5, JobFinishes, Contentful
         DEF JobSane, FileRuns, NothingToRun, Resting, Written, Child
    <2> QED BY <1>2, <2>1, <2>2
  <1> QED BY <1>3, <1>4, <1>5 DEF UndoRestart

LEMMA RestartOldInv ==
  ASSUME ApplyInv, RestartOld
  PROVE  ApplyInv'
  <1> USE DEF ApplyInv
  <1>1. /\ job.pc = "restored" /\ core' = RestartCore(core, file) /\ Finish("failed")
        /\ UNCHANGED <<file, bak, rolled, torn, faults, client, check, cache>>
    BY DEF RestartOld, checking
  <1>2. Moved(core', file) /\ (core'.tie = "child" /\ core'.run # NoFile => core'.run = file)
    BY <1>1, RestartMoves DEF TypeOK
  <1>3. core' \in Core /\ CoreSane' /\ CheckTrue'
    BY <1>1, <1>2, MovedKeeps DEF checking
  <1>4. TypeOK'
    BY <1>1, <1>3, JobFinishes DEF TypeOK
  <1>5. JobSane' /\ FileRuns' /\ NothingToRun'
    BY <1>1, <1>2, JobFinishes DEF JobSane, FileRuns, NothingToRun, Resting, Written, Child
  <1> QED BY <1>3, <1>4, <1>5

-----------------------------------------------------------------------------
(* The supervisor and the requests. *)

\* What a step of the core alone has to respect.
LEMMA CoreStep ==
  ASSUME ApplyInv, core' \in Core, CoreSane', CheckTrue',
         UNCHANGED <<file, bak, applying, client>>, check' \in Check, cache' \in Check,
         Child' => (Child /\ core'.run = core.run) \/ core'.run = file,
         core'.run # NoFile => 
            core.run # NoFile \/ core.waiter # "none" \/ (job.pc = "idle" /\ Valid(file)),
         core'.waiter # "none" => core.waiter # "none" \/ core.run # NoFile
  PROVE  ApplyInv'
  <1> USE DEF ApplyInv, applying
  <1>1. TypeOK' /\ JobSane'
    BY DEF TypeOK, JobSane, Resting, Written
  <1>2. job' = job /\ file' = file /\ torn' = torn
    OBVIOUS
  <1>3. FileRuns'
    <2>1. Written \/ Resting \/ job.pc = "restored"
      BY DEF Written, Resting, TypeOK, Job
    <2> QED BY <1>2, <2>1 DEF FileRuns, JobSane, Resting, Written, Child
  <1>4. NothingToRun'
    <2>1. CASE Resting /\ file = NoFile
      BY <1>2, <2>1, Contentful DEF NothingToRun, Resting
    <2>2. CASE job.pc \in {"saved", "asked"} /\ job.old = NoFile
      BY <1>2, <2>2, Contentful DEF NothingToRun, Resting
    <2>3. CASE /\ ~(Resting /\ file = NoFile)
               /\ ~(job.pc \in {"saved", "asked"} /\ job.old = NoFile)
      BY <1>2, <2>3 DEF NothingToRun, Resting
    <2> QED BY <2>1, <2>2, <2>3
  <1> QED BY <1>1, <1>3, <1>4

LEMMA CrashInv ==
  ASSUME ApplyInv, Crash
  PROVE  ApplyInv'
  <1> USE DEF ApplyInv
  <1>1. /\ core.run # NoFile /\ UNCHANGED <<file, bak, applying, client, check, cache>>
        /\ core' = [core EXCEPT !.run = NoFile, !.pid = 0, !.tie = "none",
                            !.waiter = IF core.desired /\ core.tie = "child" THEN "asleep" ELSE @]
    BY DEF Crash, checking
  <1>2. core' \in Core /\ core'.run = NoFile /\ core'.pid = 0
    BY <1>1 DEF TypeOK, Core, File
  <1>3. CoreSane' /\ CheckTrue' /\ check' \in Check /\ cache' \in Check
    BY <1>1, <1>2 DEF CoreSane, CheckTrue, TypeOK
  <1> QED BY <1>1, <1>2, <1>3, CoreStep DEF Child

LEMMA WaiterInv ==
  ASSUME ApplyInv, WaiterWakes \/ WaiterStarts \/ WaiterAdoptsValidator
  PROVE  ApplyInv'
  <1> USE DEF ApplyInv
  <1>1. /\ core.run = NoFile /\ core.waiter # "none" /\ core \in Core /\ file \in File
        /\ UNCHANGED <<file, bak, applying, client, check, cache>>
    BY DEF WaiterWakes, WaiterStarts, WaiterAdoptsValidator, CoreSane, TypeOK, checking
  <1>2. CASE WaiterWakes \/ WaiterAdoptsValidator
    <2>1. PICK w \in {"validated", "none"} : core' = [core EXCEPT !.waiter = w]
      BY <1>2 DEF WaiterWakes, WaiterAdoptsValidator
    <2>2. core' \in Core /\ core'.run = NoFile /\ core'.pid = core.pid
      BY <1>1, <2>1 DEF Core
    <2>3. CoreSane' /\ CheckTrue' /\ check' \in Check /\ cache' \in Check
      BY <1>1, <2>2 DEF CoreSane, CheckTrue, TypeOK
    <2> QED BY <1>1, <2>2, <2>3, CoreStep DEF Child
  <1>3. CASE WaiterStarts
    <2> DEFINE s == StartCore(core, file)
    <2>1. core' = [s EXCEPT !.waiter = "none"]
      BY <1>3 DEF WaiterStarts
    <2>2. s \in Core /\ Moved(s, file)
      BY <1>1, StartMoves, StartMovesCore
    <2> HIDE DEF s
    <2>3. /\ core' \in Core /\ core'.run = s.run /\ core'.tie = s.tie /\ core'.pid = s.pid
          /\ core'.waiter = "none"
      BY <2>1, <2>2 DEF Core
    <2>4. Moved(core', file)
      BY <2>2, <2>3 DEF Moved
    <2>5. CoreSane' /\ CheckTrue' /\ check' \in Check /\ cache' \in Check
      BY <1>1, <2>4, MovedKeeps DEF TypeOK, checking
    <2> QED BY <1>1, <2>3, <2>4, <2>5, CoreStep DEF Moved, Child
  <1> QED BY <1>2, <1>3

LEMMA RequestInv ==
  ASSUME ApplyInv, StartMihomo \/ StopMihomo \/ RestartMihomo
  PROVE  ApplyInv'
  <1> USE DEF ApplyInv
  <1>1. /\ job.pc = "idle" /\ file \in File
        /\ UNCHANGED <<file, bak, applying, client, check, cache>>
    BY DEF StartMihomo, StopMihomo, RestartMihomo, Request, TypeOK, checking
  <1>2. Moved(core', file)
    <2>1. CASE StartMihomo
      <3>1. core.run = NoFile \/ ChildrenSurvive
        BY <2>1 DEF StartMihomo, CoreSane, IsRunning
      <3> QED BY <1>1, <2>1, <3>1, StartMovesCore DEF StartMihomo, Request
    <2>2. CASE StopMihomo
      BY <2>2, StopMoves DEF StopMihomo, Request
    <2>3. CASE RestartMihomo
      BY <1>1, <2>3, RestartMoves DEF RestartMihomo, Request
    <2> QED BY <2>1, <2>2, <2>3
  <1>3. core' \in Core /\ CoreSane' /\ CheckTrue' /\ check' \in Check /\ cache' \in Check
    BY <1>1, <1>2, MovedKeeps DEF TypeOK, checking
  <1> QED BY <1>1, <1>2, <1>3, CoreStep DEF Moved, Child

LEMMA PanelRestartsInv ==
  ASSUME ApplyInv, PanelRestarts
  PROVE  ApplyInv'
  <1> USE DEF ApplyInv
  <1>1. /\ core' = [core EXCEPT !.run = IF ChildrenSurvive THEN @ ELSE NoFile,
                                !.pid = IF ChildrenSurvive THEN @ ELSE 0,
                                !.tie = "none", !.desired = FALSE, !.waiter = "none"]
        /\ job' = NoJob /\ rolled' = NoFile /\ result' = "none"
        /\ check' = NoCheck /\ cache' = NoCheck /\ torn' \in BOOLEAN
        /\ UNCHANGED <<file, bak, faults, client>>
    BY DEF PanelRestarts, TypeOK
  <1>2. /\ core' \in Core /\ core'.tie = "none" /\ core'.waiter = "none"
        /\ core'.run = IF ChildrenSurvive THEN core.run ELSE NoFile
    BY <1>1 DEF TypeOK, Core, File
  <1>3. NoJob \in Job /\ NoCheck \in Check
    BY BoundsAssumption DEF NoJob, Job, NoCheck, Check, File
  <1>4. TypeOK'
    BY <1>1, <1>2, <1>3 DEF TypeOK, File
  <1>5. CoreSane' /\ JobSane' /\ FileRuns' /\ NothingToRun' /\ CheckTrue'
    BY <1>1, <1>2 DEF CoreSane, JobSane, FileRuns, NothingToRun, CheckTrue, NoJob, NoCheck,
                      Resting, Written, Child
  <1> QED BY <1>4, <1>5

-----------------------------------------------------------------------------
(* The connection check. *)

LEMMA CheckSteps ==
  ASSUME ApplyInv, UNCHANGED <<file, bak, core, applying>>,
         client' \in 0 .. MaxEdits, check' \in Check, cache' \in Check, CheckTrue'
  PROVE  ApplyInv'
  BY DEF ApplyInv, applying, TypeOK, CoreSane, JobSane, FileRuns, NothingToRun,
         Resting, Written, Child

LEMMA CheckInv ==
  ASSUME ApplyInv,
         \/ EditClient \/ CheckBegins \/ CheckSnapshots \/ runClientCheck
         \/ CheckInterrupted \/ CheckEnds \/ ListenerRuntime
  PROVE  ApplyInv'
  <1> USE DEF ApplyInv
  <1>1. /\ check \in Check /\ cache \in Check /\ client \in 0 .. MaxEdits /\ file \in File
        /\ Pid \in {0} \cup Pids /\ Pid \in {0, core.pid} /\ CheckTrue
    BY DEF TypeOK, Core, Pid
  <1>2. NoCheck \in Check /\ NoCheck.pc = "idle"
    BY BoundsAssumption DEF NoCheck, Check, File
  <1>3. CASE EditClient
    <2>1. client' \in 0 .. MaxEdits /\ UNCHANGED <<file, bak, core, applying, check, cache>>
      BY <1>1, <1>3, BoundsAssumption DEF EditClient
    <2> QED BY <1>1, <2>1, CheckSteps DEF CheckTrue
  <1>4. CASE CheckBegins
    <2>1. check' \in Check /\ check'.pc = "asked" /\ check'.met
      BY <1>2, <1>4 DEF CheckBegins, Check, NoCheck
    <2> QED BY <1>1, <1>4, <2>1, CheckSteps DEF CheckBegins, CheckTrue
  <1>5. CASE CheckSnapshots
    <2>1. CASE file = NoFile
      BY <1>1, <1>2, <1>5, <2>1, CheckSteps DEF CheckSnapshots, CheckTrue
    <2>2. CASE file # NoFile
      <3> DEFINE pc == IF Pid = 0 THEN "done" ELSE "probing"
      <3>1. check' = [check EXCEPT !.pc = pc, !.pid = Pid, !.content = file, !.client = client]
        BY <1>5, <2>2 DEF CheckSnapshots
      <3>2. pc \in {"done", "probing"} /\ (pc = "probing" => Pid # 0)
        OBVIOUS
      <3> HIDE DEF pc
      <3>3. check' \in Check /\ check'.pc = pc /\ check'.pid = Pid /\ check'.met = check.met
        BY <1>1, <3>1, <3>2 DEF Check
      <3>4. check.met
        BY <1>1, <1>5 DEF CheckSnapshots, CheckTrue
      <3> QED BY <1>1, <1>5, <3>2, <3>3, <3>4, CheckSteps DEF CheckSnapshots, CheckTrue
    <2> QED BY <2>1, <2>2
  <1>6. CASE runClientCheck
    <2> DEFINE met == core.pid = check.pid
    <2>1. check' = [check EXCEPT !.pc = "done", !.met = met] /\ met \in BOOLEAN
      BY <1>6 DEF runClientCheck
    <2>2. /\ check' \in Check /\ check'.pc = "done" /\ check'.pid = check.pid
          /\ ~check'.met => core.pid # check.pid
      BY <1>1, <2>1 DEF Check
    <2>3. check.pid # 0
      BY <1>1, <1>6 DEF runClientCheck, CheckTrue
    <2> QED BY <1>1, <1>6, <2>2, <2>3, CheckSteps DEF runClientCheck, CheckTrue
  <1>7. CASE CheckInterrupted
    BY <1>1, <1>2, <1>7, CheckSteps DEF CheckInterrupted, CheckTrue
  <1>8. CASE CheckEnds
    <2>1. check.pc = "done" /\ StillTrue(check) => check.met
      BY <1>1 DEF CheckTrue, StillTrue
    <2>2. cache' \in {check, cache} /\ (cache'.pc = "done" => cache'.met)
      BY <1>1, <1>8, <2>1 DEF CheckEnds, CheckTrue
    <2> QED BY <1>1, <1>2, <1>8, <2>2, CheckSteps DEF CheckEnds, CheckTrue
  <1>9. CASE ListenerRuntime
    BY <1>1, <1>2, <1>9, CheckSteps DEF ListenerRuntime, CheckTrue
  <1> QED BY <1>3, <1>4, <1>5, <1>6, <1>7, <1>8, <1>9

-----------------------------------------------------------------------------
(* The inductive invariant. *)

LEMMA InitInv ==
  ASSUME Init
  PROVE  ApplyInv
  <1>1. NoJob \in Job /\ NoCheck \in Check
    BY BoundsAssumption DEF NoJob, Job, NoCheck, Check, File
  <1>2. core \in Core
    BY DEF Init, Core, File
  <1>3. TypeOK
    <2>1. 0 \in 0 .. MaxFaults /\ 0 \in 0 .. MaxEdits
      BY BoundsAssumption
    <2>2. job \in Job /\ check \in Check /\ cache \in Check
      BY <1>1 DEF Init
    <2>3. file \in File /\ bak \in File /\ rolled \in File /\ result = "none"
      BY DEF Init, File
    <2> QED BY <1>2, <2>1, <2>2, <2>3 DEF Init, TypeOK
  <1>4. CoreSane /\ JobSane /\ FileRuns /\ NothingToRun /\ CheckTrue
    BY DEF Init, CoreSane, JobSane, FileRuns, NothingToRun, CheckTrue, NoJob, NoCheck,
           Resting, Written, Child
  <1> QED BY <1>3, <1>4 DEF ApplyInv

LEMMA NextInv ==
  ASSUME ApplyInv, [Next]_vars
  PROVE  ApplyInv'
  <1>1. CASE UNCHANGED vars
    BY <1>1 DEF vars, ApplyInv, TypeOK, CoreSane, JobSane, FileRuns, NothingToRun, CheckTrue,
               Resting, Written, Child
  <1>2. CASE Crash \/ WaiterWakes \/ WaiterStarts \/ WaiterAdoptsValidator
    BY <1>2, CrashInv, WaiterInv
  <1>3. CASE (\E c \in Contents : ApplyConfig(c)) \/ RollbackReads \/ RollbackConfig
    BY <1>3, ApplyRequests
  <1>4. CASE BackupWritten \/ BackupFails \/ SaveConfig \/ SaveConfigFails \/ AskRunning
    BY <1>4, BackupWrittenInv, ApplyAborts, SaveConfigInv, AskRunningInv
  <1>5. CASE ValidatePasses \/ ValidateFails \/ StartCandidate \/ RestartCandidate
    BY <1>5, ValidatePassesInv, ValidateFailsInv, StartCandidateInv, RestartCandidateInv
  <1>6. CASE ListenersBound \/ ListenerMissing \/ UndoStart \/ UndoRestart \/ RestartOld
    BY <1>6, ListenersBoundInv, ValidatePassesInv, UndoStartInv, UndoRestartInv, RestartOldInv
  <1>7. CASE StartMihomo \/ StopMihomo \/ RestartMihomo \/ PanelRestarts
             \/ RestoreDatabase \/ SaveWithoutBinary
    BY <1>7, RequestInv, PanelRestartsInv, OverwriteInv DEF RestoreDatabase, SaveWithoutBinary
  <1>8. CASE \/ EditClient \/ CheckBegins \/ CheckSnapshots \/ runClientCheck
             \/ CheckInterrupted \/ CheckEnds \/ ListenerRuntime
    BY <1>8, CheckInv
  <1> QED BY <1>1, <1>2, <1>3, <1>4, <1>5, <1>6, <1>7, <1>8 DEF Next

\* The invariant that relates the file, the apply in progress, the process and
\* the checks holds for any contents, failing writes and edits.
THEOREM ApplySafe == Spec => []ApplyInv
  <1>1. Init => ApplyInv
    BY InitInv
  <1>2. ApplyInv /\ [Next]_vars => ApplyInv'
    BY NextInv
  <1> QED BY <1>1, <1>2, PTL DEF Spec

-----------------------------------------------------------------------------
(* What the panel promises. *)

\* Between applies the panel's core runs the file on disk, for every
\* interleaving of ApplyConfig (service.go:139) with the supervisor, until a
\* restoration fails or a restored backup (system/backup.go:130) replaces the
\* file; and again after the next apply that succeeds.
THEOREM FileIsRun == Spec => []RunsTheFile
  <1>1. ApplyInv => RunsTheFile
    BY DEF ApplyInv, FileRuns, RunsTheFile, Resting, Child
  <1> QED BY <1>1, ApplySafe, PTL

\* A cached check that is still shown judged the process, the configuration
\* and the client of now (connection_check.go:141).
THEOREM ShownChecksHold == Spec => []CacheTruthful
  <1>1. ApplyInv => CacheTruthful
    BY DEF ApplyInv, CheckTrue, FileRuns, CacheTruthful, Served, StillTrue, Resting, Child,
           Pid, IsRunning
  <1> QED BY <1>1, ApplySafe, PTL

\* Only waitForListeners ends an apply well, and only it ends one well.
LEMMA WhoFinishes ==
  ASSUME ApplyInv, Next, NEW outcome \in {"ok", "failed"}, Finished(outcome)
  PROVE  IF outcome = "ok" THEN ListenersBound
         ELSE BackupFails \/ SaveConfigFails \/ ValidateFails \/ UndoStart \/ UndoRestart \/ RestartOld
  <1>1. /\ job.pc # "idle" /\ job'.pc = "idle" /\ result' = outcome /\ job \in Job
    BY DEF Finished, ApplyInv, TypeOK
  <1>2. ~(Crash \/ WaiterWakes \/ WaiterStarts \/ WaiterAdoptsValidator \/ RollbackReads)
    BY <1>1 DEF Crash, WaiterWakes, WaiterStarts, WaiterAdoptsValidator, RollbackReads, applying
  <1>3. ~((\E c \in Contents : ApplyConfig(c)) \/ RollbackConfig)
    BY <1>1 DEF ApplyConfig, RollbackConfig, ApplyBegins
  <1>4. ~(BackupWritten \/ SaveConfig \/ AskRunning \/ ValidatePasses \/ ListenerMissing)
    BY <1>1 DEF BackupWritten, SaveConfig, AskRunning, ValidatePasses, ListenerMissing, Job
  <1>5. ~(StartCandidate \/ RestartCandidate)
    <2>1. CASE StartCandidate
      <3>1. PICK pc \in {"waiting", "undo"} : job' = [job EXCEPT !.pc = pc]
        BY <2>1 DEF StartCandidate
      <3> QED BY <1>1, <3>1 DEF Job
    <2>2. CASE RestartCandidate
      <3>1. PICK pc \in {"waiting", "undo"} : job' = [job EXCEPT !.pc = pc]
        BY <2>2 DEF RestartCandidate
      <3> QED BY <1>1, <3>1 DEF Job
    <2> QED BY <2>1, <2>2
  <1>6. ~(StartMihomo \/ StopMihomo \/ RestartMihomo \/ PanelRestarts
            \/ RestoreDatabase \/ SaveWithoutBinary)
    BY <1>1 DEF StartMihomo, StopMihomo, RestartMihomo, Request, PanelRestarts, applying,
               RestoreDatabase, SaveWithoutBinary, Overwrite, Job
  <1>7. ~(EditClient \/ CheckBegins \/ CheckSnapshots \/ runClientCheck \/ CheckInterrupted
            \/ CheckEnds \/ ListenerRuntime)
    BY <1>1 DEF EditClient, CheckBegins, CheckSnapshots, runClientCheck, CheckInterrupted,
               CheckEnds, ListenerRuntime, applying
  <1>8. /\ ListenersBound => result' = "ok"
        /\ BackupFails \/ SaveConfigFails \/ ValidateFails \/ UndoStart \/ RestartOld
             => result' = "failed"
    BY DEF ListenersBound, BackupFails, SaveConfigFails, ValidateFails, UndoStart, RestartOld,
           Finish
  <1>9. UndoRestart => result' = "failed"
    BY <1>1 DEF UndoRestart, Finish, Job
  <1> QED BY <1>1, <1>2, <1>3, <1>4, <1>5, <1>6, <1>7, <1>8, <1>9 DEF Next

\* service.go:137: where no core outlives its panel, an apply that reports
\* success, and whose file nobody replaced, leaves a core that runs its content.
THEOREM SuccessIsActive ==
  ASSUME ChildrenSurvive = FALSE
  PROVE  Spec => Activates
  <1>1. ASSUME ApplyInv, [Next]_vars
        PROVE  [Finished("ok") /\ ~job.spoilt => core'.run \in {job.content, NoFile}]_vars
    <2>1. CASE UNCHANGED vars
      BY <2>1
    <2>2. ASSUME Next, Finished("ok"), ~job.spoilt
          PROVE  core'.run \in {job.content, NoFile}
      <3>1. job.pc = "waiting" /\ core' = core
        BY <1>1, <2>2, WhoFinishes DEF ListenersBound
      <3> QED BY <1>1, <2>2, <3>1 DEF ApplyInv, FileRuns, CoreSane, JobSane, Written, Child
    <2> QED BY <1>1, <2>1, <2>2
  <1> QED BY <1>1, ApplySafe, PTL DEF Spec, Activates

\* service.go:138: where no core outlives its panel, a failed apply leaves the
\* file it found, and a core that was running runs that file or is down.
THEOREM FailureIsUndone ==
  ASSUME ChildrenSurvive = FALSE
  PROVE  Spec => FailureRestores
  <1> DEFINE Restores == Finished("failed") /\ ~torn' =>
                           /\ file' = job.old
                           /\ job.was /\ core'.run # NoFile => core'.run = job.old
  <1>1. ASSUME ApplyInv, [Next]_vars
        PROVE  [Restores]_vars
    <2>1. CASE UNCHANGED vars
      BY <2>1
    <2>2. ASSUME Next, Finished("failed"), ~torn'
          PROVE  /\ file' = job.old
                 /\ job.was /\ core'.run # NoFile => core'.run = job.old
      <3> USE DEF ApplyInv
      <3>1. job'.pc = "idle" /\ job.pc # "idle"
        BY <2>2 DEF Finished
      <3>2. CASE BackupFails \/ SaveConfigFails
        BY <1>1, <2>2, <3>2 DEF BackupFails, SaveConfigFails, JobSane, Resting
      <3>3. CASE ValidateFails
        <4>1. file' = job.old /\ ~torn /\ core' = core /\ job.pc = "asked"
              /\ ~Valid(job.content)
          BY <1>1, <2>2, <3>3, RestoreEnds DEF ValidateFails, JobSane, Written
        <4> QED BY <1>1, <4>1 DEF FileRuns, CoreSane, Child, Resting
      <3>4. CASE UndoStart
        BY <1>1, <2>2, <3>4, RestoreEnds DEF UndoStart
      <3>5. CASE UndoRestart
        BY <1>1, <2>2, <3>1, <3>5 DEF UndoRestart, NothingToRun, TypeOK, Job
      <3>6. CASE RestartOld
        <4>1. /\ file' = file /\ job.old = file /\ core' = RestartCore(core, file)
              /\ Moved(core', file)
              /\ core'.tie = "child" /\ core'.run # NoFile => core'.run = file
          BY <1>1, <2>2, <3>6, RestartMoves DEF RestartOld, JobSane, TypeOK
        <4> QED BY <4>1 DEF Moved
      <3> QED BY <1>1, <2>2, <3>2, <3>3, <3>4, <3>5, <3>6, WhoFinishes
    <2> QED BY <1>1, <2>1, <2>2
  <1> QED BY <1>1, ApplySafe, PTL DEF Spec, FailureRestores

-----------------------------------------------------------------------------
(* An apply implements ConfigTransaction. *)

Open == [open |-> TRUE, before |-> job.old, candidate |-> job.content,
         spoilt |-> job.spoilt]
Shut == [open |-> FALSE, before |-> NoFile, candidate |-> NoFile, spoilt |-> FALSE]
Txn == [open |-> job.pc # "idle", before |-> job.old, candidate |-> job.content,
         spoilt |-> job.spoilt]

\* The transaction of an apply that goes on, and of one that has ended.
LEMMA OpenTxn == job.pc # "idle" => Txn = Open
  BY DEF Txn, Open

LEMMA EndedTxn ==
  ASSUME job' = NoJob
  PROVE  Txn' = Shut
  BY DEF Txn, Shut, NoJob

LEMMA KeptTxn ==
  ASSUME NEW pc, job' = [job EXCEPT !.pc = pc], TypeOK, job.pc # "idle", pc # "idle"
  PROVE  Txn' = Txn /\ Txn = Open
  <1>1. /\ job'.pc = pc /\ job'.old = job.old /\ job'.content = job.content
        /\ job'.spoilt = job.spoilt
    BY JobSteps
  <1> QED BY <1>1 DEF Txn, Open

\* Steps of the core under an apply or between two.
LEMMA CoreRefines ==
  ASSUME UNCHANGED <<file, result, torn>>, Txn' = Txn,
         \/ core'.run \in {core.run, NoFile}
         \/ file # NoFile /\ core'.run = file
  PROVE  [Transaction!Next]_(Transaction!vars)
  <1>1. CASE core'.run = core.run
    BY <1>1 DEF Transaction!vars, Txn
  <1>2. CASE core'.run = NoFile
    BY <1>2 DEF Transaction!Next, Transaction!Exit, Txn
  <1>3. CASE file # NoFile /\ core'.run = file
    BY <1>3 DEF Transaction!Next, Transaction!Launch, Txn
  <1> QED BY <1>1, <1>2, <1>3

LEMMA MoveRefines ==
  ASSUME UNCHANGED <<core, result, torn>>, Txn' = Txn, Txn = Open,
         file' \in {job.old, job.content}
  PROVE  [Transaction!Next]_(Transaction!vars)
  <1>1. Transaction!Move
    BY DEF Transaction!Move, Txn, Open
  <1> QED BY <1>1 DEF Transaction!Next

LEMMA FailureRefines ==
  ASSUME ApplyInv, job.pc # "idle", Finish("failed"),
         \/ /\ file' = job.old /\ core'.run \in {job.old, NoFile} /\ torn' = torn
         \/ /\ torn' = TRUE
            /\ file' \in {file, job.old} /\ core'.run \in {core.run, file', NoFile}
  PROVE  [Transaction!Next]_(Transaction!vars)
  <1>1. Txn = Open /\ Txn' = Shut /\ result' = "failed"
    BY OpenTxn, EndedTxn DEF Finish
  <1>2. Transaction!Close("failed")
    BY <1>1 DEF Transaction!Close, Transaction!Closed, Txn, Open, Shut
  <1>3. Txn.before = job.old
    BY DEF Txn
  <1>4. Transaction!Abort \/ Transaction!Tear
    BY <1>2, <1>3 DEF Transaction!Abort, Transaction!Tear, Txn
  <1> QED BY <1>4 DEF Transaction!Next

LEMMA BeginRefines ==
  ASSUME ApplyInv, NEW content \in Contents \cup {Empty}, ApplyBegins(content)
  PROVE  [Transaction!Next]_(Transaction!vars)
  <1>1. /\ job.pc = "idle" /\ result' = "none" /\ UNCHANGED <<file, core, torn>>
        /\ job'.pc # "idle" /\ job'.old = file /\ job'.content = content
        /\ ~job'.spoilt /\ job'.spoilt \in BOOLEAN
    BY DEF ApplyBegins
  <1>2. Transaction!Begin(content)
    BY <1>1 DEF Transaction!Begin
  <1> QED BY <1>2 DEF Transaction!Next

LEMMA CommitRefines ==
  ASSUME ApplyInv, ChildrenSurvive = FALSE, ListenersBound
  PROVE  [Transaction!Next]_(Transaction!vars)
  <1>1. /\ job.pc = "waiting" /\ IsRunning(core) /\ Finish("ok") /\ torn' = job.spoilt
        /\ UNCHANGED <<file, core>>
    BY DEF ListenersBound
  <1>2. ~job.spoilt => file = job.content /\ core.run = job.content
    BY <1>1 DEF ApplyInv, JobSane, FileRuns, CoreSane, Written, Child, IsRunning
  <1>3. Txn = Open /\ Txn' = Shut /\ result' = "ok"
    BY <1>1, OpenTxn, EndedTxn DEF Finish
  <1>4. Transaction!Close("ok")
    BY <1>3 DEF Transaction!Close, Transaction!Closed, Txn, Open, Shut
  <1>5. Transaction!Commit
    BY <1>1, <1>2, <1>4 DEF Transaction!Commit, Txn
  <1> QED BY <1>5 DEF Transaction!Next

LEMMA DieRefines ==
  ASSUME ApplyInv, ChildrenSurvive = FALSE, PanelRestarts
  PROVE  [Transaction!Next]_(Transaction!vars)
  <1>1. /\ core'.run = NoFile /\ job' = NoJob /\ result' = "none" /\ file' = file
        /\ torn' = (torn \/ job.pc \notin {"idle", "truncated", "backed"})
    BY DEF PanelRestarts, ApplyInv, TypeOK, Core
  <1>2. Txn' = Shut
    BY <1>1, EndedTxn
  <1>3. job.pc \in {"truncated", "backed"} => file = job.old \/ torn
    BY DEF ApplyInv, JobSane
  <1>4. torn \in BOOLEAN
    BY DEF ApplyInv, TypeOK
  <1>5. Transaction!Die
    BY <1>1, <1>2, <1>3, <1>4 DEF Transaction!Die, Transaction!Closed, Txn, Shut
  <1> QED BY <1>5 DEF Transaction!Next

\* The steps of an apply that move neither the file nor the core, and those
\* that move one of them.
LEMMA ApplyStepRefines ==
  ASSUME ApplyInv, ChildrenSurvive = FALSE,
         \/ BackupWritten \/ SaveConfig \/ AskRunning \/ ValidatePasses \/ ListenerMissing
         \/ StartCandidate \/ RestartCandidate
  PROVE  [Transaction!Next]_(Transaction!vars)
  <1> USE DEF ApplyInv
  <1>1. CASE BackupWritten \/ ValidatePasses \/ ListenerMissing
    <2>1. PICK pc \in {"backed", "valid", "undo"} : job' = [job EXCEPT !.pc = pc]
      BY <1>1 DEF BackupWritten, ValidatePasses, ListenerMissing
    <2>2. job.pc # "idle" /\ UNCHANGED <<file, core, result, torn>>
      BY <1>1 DEF BackupWritten, ValidatePasses, ListenerMissing
    <2> QED BY <2>1, <2>2, KeptTxn, CoreRefines
  <1>2. CASE AskRunning
    <2>1. /\ job.pc = "saved" /\ UNCHANGED <<file, core, result, torn>>
          /\ job' = [job EXCEPT !.pc = "asked", !.was = IsRunning(core)]
      BY <1>2 DEF AskRunning
    <2>2. Txn' = Txn
      BY <2>1 DEF Txn, TypeOK, Job
    <2> QED BY <2>1, <2>2, CoreRefines
  <1>3. CASE SaveConfig
    BY <1>3, KeptTxn, MoveRefines DEF SaveConfig
  <1>4. CASE StartCandidate \/ RestartCandidate
    <2>1. PICK pc \in {"waiting", "undo"} : job' = [job EXCEPT !.pc = pc]
      BY <1>4 DEF StartCandidate, RestartCandidate
    <2>2. job.pc # "idle" /\ UNCHANGED <<file, result, torn>> /\ file \in File
      BY <1>4 DEF StartCandidate, RestartCandidate, TypeOK
    <2>3. Txn' = Txn
      BY <2>1, <2>2, KeptTxn
    <2>4. Moved(core', file)
      <3>1. CASE StartCandidate /\ IsRunning(core)
        BY <3>1 DEF StartCandidate, Moved, Child, CoreSane, TypeOK
      <3>2. CASE StartCandidate /\ ~IsRunning(core)
        BY <2>2, <3>2, StartMovesCore DEF StartCandidate, CoreSane, IsRunning
      <3>3. CASE RestartCandidate
        BY <2>2, <3>3, RestartMoves DEF RestartCandidate
      <3> QED BY <1>4, <3>1, <3>2, <3>3
    <2> QED BY <2>2, <2>3, <2>4, CoreRefines, Contentful DEF Moved
  <1> QED BY <1>1, <1>2, <1>3, <1>4

\* Each way to fail undoes what was done, or tears it.
LEMMA FailingRefines ==
  ASSUME ApplyInv, ChildrenSurvive = FALSE,
         BackupFails \/ SaveConfigFails \/ ValidateFails \/ UndoStart \/ UndoRestart \/ RestartOld
  PROVE  [Transaction!Next]_(Transaction!vars)
  <1> USE DEF ApplyInv
  <1>0. torn \in BOOLEAN /\ (core.run # NoFile => Child)
    BY DEF TypeOK, CoreSane, Child
  <1>1. CASE BackupFails \/ SaveConfigFails
    <2>1. /\ job.pc \in {"truncated", "backed"} /\ Finish("failed")
          /\ UNCHANGED <<file, core, torn>>
      BY <1>1 DEF BackupFails, SaveConfigFails
    <2>2. ~torn => file = job.old /\ core.run \in {job.old, NoFile}
      BY <1>0, <2>1 DEF JobSane, FileRuns, Resting
    <2> QED BY <1>0, <2>1, <2>2, FailureRefines
  <1>2. CASE ValidateFails
    <2>1. /\ job.pc = "asked" /\ ~Valid(file) /\ Restore /\ Finish("failed")
          /\ core' = core /\ (~torn => file = job.content)
      BY <1>2 DEF ValidateFails, JobSane, Written
    <2>2. ~torn => core.run \in {job.old, NoFile}
      BY <1>0, <2>1 DEF FileRuns, CoreSane, Resting
    <2> QED BY <1>0, <2>1, <2>2, FailureRefines DEF Restore
  <1>3. CASE UndoStart
    <2>1. /\ job.pc = "undo" /\ Restore /\ Finish("failed") /\ core'.run = NoFile
      BY <1>0, <1>3, StopMoves DEF UndoStart, Child, IsRunning
    <2> QED BY <2>1, FailureRefines DEF Restore
  <1>4. CASE UndoRestart
    <2>1. job.pc = "undo" /\ job.was /\ core' = core
      BY <1>4 DEF UndoRestart
    <2>2. CASE /\ file' = job.old /\ job' = [job EXCEPT !.pc = "restored"]
               /\ UNCHANGED <<torn, result>>
      BY <2>1, <2>2, KeptTxn, MoveRefines
    <2>3. CASE torn' = TRUE /\ Finish("failed") /\ UNCHANGED file
      BY <2>1, <2>3, FailureRefines
    <2>4. CASE job.old = NoFile /\ Finish("failed") /\ UNCHANGED <<file, torn>>
      <3>1. torn' = TRUE
        BY <1>0, <2>1, <2>4 DEF NothingToRun
      <3> QED BY <2>1, <2>4, <3>1, FailureRefines
    <2> QED BY <1>4, <2>2, <2>3, <2>4 DEF UndoRestart
  <1>5. CASE RestartOld
    <2>1. /\ job.pc = "restored" /\ (~torn => file = job.old) /\ Finish("failed")
          /\ core' = RestartCore(core, file) /\ UNCHANGED <<file, torn>>
      BY <1>5 DEF RestartOld, JobSane
    <2>2. core'.run \in {file, NoFile}
      BY <1>0, <2>1, RestartMoves DEF Moved, TypeOK
    <2> QED BY <1>0, <2>1, <2>2, FailureRefines
  <1> QED BY <1>1, <1>2, <1>3, <1>4, <1>5

\* The supervisor and the administrator launch what the file says.
LEMMA OthersRefine ==
  ASSUME ApplyInv, ChildrenSurvive = FALSE,
         \/ Crash \/ WaiterWakes \/ WaiterStarts \/ WaiterAdoptsValidator
         \/ StartMihomo \/ StopMihomo \/ RestartMihomo
  PROVE  [Transaction!Next]_(Transaction!vars)
  <1> USE DEF ApplyInv
  <1>1. UNCHANGED <<file, job, result, torn>> /\ core \in Core /\ file \in File
    BY DEF Crash, WaiterWakes, WaiterStarts, WaiterAdoptsValidator, StartMihomo, StopMihomo,
           RestartMihomo, Request, applying, TypeOK
  <1>2. Txn' = Txn
    BY <1>1 DEF Txn
  <1>3. CASE Crash \/ WaiterWakes \/ WaiterAdoptsValidator
    <2>1. core'.run \in {core.run, NoFile}
      BY <1>1, <1>3 DEF Crash, WaiterWakes, WaiterAdoptsValidator, Core
    <2> QED BY <1>1, <1>2, <2>1, CoreRefines
  <1>4. CASE WaiterStarts
    <2>1. core.run = NoFile /\ core' = [StartCore(core, file) EXCEPT !.waiter = "none"]
      BY <1>4 DEF WaiterStarts, CoreSane
    <2>2. Moved(StartCore(core, file), file) /\ core'.run = StartCore(core, file).run
      BY <1>1, <2>1, StartMoves, StartMovesCore DEF Core
    <2> QED BY <1>1, <1>2, <2>2, CoreRefines, Contentful DEF Moved
  <1>5. CASE StartMihomo \/ StopMihomo \/ RestartMihomo
    <2>1. Moved(core', file)
      <3>1. CASE StartMihomo
        BY <1>1, <3>1, StartMovesCore DEF StartMihomo, Request, CoreSane, IsRunning
      <3>2. CASE StopMihomo
        BY <3>2, StopMoves DEF StopMihomo, Request
      <3>3. CASE RestartMihomo
        BY <1>1, <3>3, RestartMoves DEF RestartMihomo, Request
      <3> QED BY <1>5, <3>1, <3>2, <3>3
    <2> QED BY <1>1, <1>2, <2>1, CoreRefines, Contentful DEF Moved
  <1> QED BY <1>3, <1>4, <1>5

LEMMA OverwriteRefines ==
  ASSUME ApplyInv, Overwrite
  PROVE  [Transaction!Next]_(Transaction!vars)
  <1> DEFINE spoilt == job.pc # "idle"
  <1>1. /\ file' \in Contents /\ job' = [job EXCEPT !.spoilt = spoilt]
        /\ torn' = (torn \/ spoilt \/ core.run # NoFile) /\ UNCHANGED <<core, result>>
    BY DEF Overwrite
  <1>2. /\ job'.pc = job.pc /\ job'.content = job.content /\ job'.old = job.old
        /\ job'.spoilt = spoilt
    BY <1>1 DEF ApplyInv, TypeOK, Job
  <1>3. Txn' = [Txn EXCEPT !.spoilt = spoilt]
    BY <1>2 DEF Txn
  <1>4. Transaction!Overwrite
    BY <1>1, <1>3 DEF Transaction!Overwrite, Txn
  <1> QED BY <1>4 DEF Transaction!Next

LEMMA StepRefines ==
  ASSUME ApplyInv, ChildrenSurvive = FALSE, [Next]_vars
  PROVE  [Transaction!Next]_(Transaction!vars)
  <1>1. CASE UNCHANGED vars
    BY <1>1 DEF vars, Transaction!vars
  <1>2. CASE (\E c \in Contents : ApplyConfig(c)) \/ RollbackConfig
    <2>1. rolled \in File \cup {Empty}
      BY DEF ApplyInv, TypeOK
    <2> QED BY <1>2, <2>1, BeginRefines DEF ApplyConfig, RollbackConfig, File
  <1>3. CASE \/ RollbackReads
             \/ EditClient \/ CheckBegins \/ CheckSnapshots \/ runClientCheck
             \/ CheckInterrupted \/ CheckEnds \/ ListenerRuntime
    <2>1. UNCHANGED <<file, core, job, result, torn>>
      BY <1>3 DEF RollbackReads, EditClient, CheckBegins, CheckSnapshots, runClientCheck,
                  CheckInterrupted, CheckEnds, ListenerRuntime, applying
    <2> QED BY <2>1, CoreRefines DEF Txn
  <1>4. CASE \/ BackupWritten \/ SaveConfig \/ AskRunning \/ ValidatePasses \/ ListenerMissing
             \/ StartCandidate \/ RestartCandidate
    BY <1>4, ApplyStepRefines
  <1>5. CASE BackupFails \/ SaveConfigFails \/ ValidateFails \/ UndoStart \/ UndoRestart \/ RestartOld
    BY <1>5, FailingRefines
  <1>6. CASE \/ Crash \/ WaiterWakes \/ WaiterStarts \/ WaiterAdoptsValidator
             \/ StartMihomo \/ StopMihomo \/ RestartMihomo
    BY <1>6, OthersRefine
  <1>7. CASE ListenersBound \/ PanelRestarts \/ RestoreDatabase \/ SaveWithoutBinary
    BY <1>7, CommitRefines, DieRefines, OverwriteRefines DEF RestoreDatabase, SaveWithoutBinary
  <1> QED BY <1>1, <1>2, <1>3, <1>4, <1>5, <1>6, <1>7 DEF Next

\* service.go:137-138: where no core outlives its panel, every behaviour of
\* ApplyConfig with all that races it is one of the abstract transaction: it
\* commits in file and core, or leaves both as it found them, or is torn, or
\* was spoilt by another writer of the file.
THEOREM ApplyIsTransaction ==
  ASSUME ChildrenSurvive = FALSE
  PROVE  Spec => ImplementsTransaction
  <1>1. Init => Transaction!Init
    <2> SUFFICES ASSUME Init
                 PROVE  Transaction!Init
      OBVIOUS
    <2>1. Txn = Shut
      BY DEF Init, NoJob, Txn, Shut
    <2>2. /\ file \in {NoFile} \cup Contents /\ core.run = NoFile
          /\ result = "none" /\ torn = FALSE
      BY DEF Init
    <2> QED BY <2>1, <2>2 DEF Transaction!Init, Transaction!Closed, Txn, Shut
  <1>2. ApplyInv /\ [Next]_vars => [Transaction!Next]_(Transaction!vars)
    BY StepRefines
  <1> QED BY <1>1, <1>2, ApplySafe, PTL DEF Spec, ImplementsTransaction, Transaction!Spec

=============================================================================
