----------------------- MODULE ProcessManager_proofs -----------------------
(***************************************************************************)
(* Proofs about the process supervisor: types, the inductive invariant     *)
(* IInv, the safety properties it implies and the refinement of            *)
(* CoreLifecycle, for every number of pids and every set of binaries.      *)
(***************************************************************************)
EXTENDS ProcessManager, TLAPS

USE ProcessManagerAssumption DEF TypeOK, PMFields, Op, Ret, Pid, NoPid, At, Process

-----------------------------------------------------------------------------
(* Types *)

\* Leaving lifecycleMu keeps the types of what it writes.
LEMMA ReturnType ==
  ASSUME TypeOK, OpShape, NEW ok \in BOOLEAN, Return(ok)
  PROVE  op' \in Op /\ waiter' \in [Pid -> WaiterState] /\ ret' \in Ret
  <1>1. op' \in Op
    BY DEF Return, NoOp, OpKind, OpStep
  <1>2. CASE op.kind = "auto"
    BY <1>1, <1>2 DEF Return, WaiterState, OpShape
  <1>3. CASE op.kind # "auto"
    BY <1>1, <1>3 DEF Return
  <1> QED BY <1>2, <1>3

\* A process record keeps its type when its state, or its owner, changes.
LEMMA ProcUpdate ==
  ASSUME NEW r \in Proc, NEW s \in ProcState, NEW e \in BOOLEAN
  PROVE  /\ [r EXCEPT !.st = s] \in Proc
         /\ [r EXCEPT !.st = s, !.err = e] \in Proc
         /\ [r EXCEPT !.child = e, !.test = e, !.st = s] \in Proc
  BY DEF Proc

LEMMA TypeStart ==
  ASSUME TypeOK, OpShape, StartStep
  PROVE  TypeOK'
  <1>1. CASE StartRefused
    BY <1>1, ReturnType DEF StartRefused
  <1>2. CASE StartUnavailable
    BY <1>2, ReturnType DEF StartUnavailable
  <1>3. CASE StartChecked
    BY <1>3 DEF StartChecked, OpStep
  <1>4. CASE ScanProc
    BY <1>4 DEF ScanProc, OpStep, findExistingProcesses
  <1>5. CASE adoptExistingLocked
    <2>1. op' \in Op /\ waiter' \in [Pid -> WaiterState] /\ ret' \in Ret
      BY <1>5, ReturnType DEF adoptExistingLocked
    <2>2. pm' \in PMFields
      BY <1>5 DEF adoptExistingLocked
    <2>3. proc' \in [Pid -> Proc]
      <3>1. ASSUME NEW p \in Pid
            PROVE  [proc[p] EXCEPT !.st = "term"] \in Proc
        BY ProcUpdate DEF ProcState
      <3> QED BY <1>5, <3>1 DEF adoptExistingLocked
    <2> QED BY <1>5, <2>1, <2>2, <2>3 DEF adoptExistingLocked
  <1>6. CASE NothingToAdopt
    BY <1>6 DEF NothingToAdopt, Goto, OpStep
  <1>7. CASE Spawn
    <2>1. proc' \in [Pid -> Proc]
      BY <1>7 DEF Spawn, Proc, ProcState
    <2>2. op' \in Op
      BY <1>7 DEF Spawn, OpStep
    <2> QED BY <1>7, <2>1, <2>2 DEF Spawn
  <1>8. CASE SpawnFails
    BY <1>8, ReturnType DEF SpawnFails
  <1>9. CASE Publish
    BY <1>9 DEF Publish, Goto, OpStep, WaiterState
  <1>10. CASE Settled
    BY <1>10, ReturnType DEF Settled
  <1>11. CASE ExitedImmediately
    <2>1. pm' \in PMFields
      BY <1>11 DEF ExitedImmediately
    <2> QED BY <1>11, <2>1, ReturnType DEF ExitedImmediately
  <1> QED BY <1>1, <1>2, <1>3, <1>4, <1>5, <1>6, <1>7, <1>8, <1>9, <1>10, <1>11
          DEF StartStep

LEMMA TypeStop ==
  ASSUME TypeOK, OpShape, StopStep
  PROVE  TypeOK'
  <1>1. CASE StopNotRunning
    <2>1. pm' \in PMFields
      BY <1>1 DEF StopNotRunning
    <2> QED BY <1>1, <2>1, ReturnType DEF StopNotRunning
  <1>2. CASE StopSignal
    <2>1. pm.pid \in Pid
      BY <1>2 DEF StopSignal, isRunning
    <2>2. proc' \in [Pid -> Proc]
      BY <1>2, <2>1, ProcUpdate DEF StopSignal, ProcState
    <2>3. op' \in Op /\ pm' \in PMFields
      BY <1>2 DEF StopSignal, OpStep
    <2> QED BY <1>2, <2>1, <2>2, <2>3 DEF StopSignal
  <1>3. CASE StopObserved
    BY <1>3 DEF StopObserved, Goto, OpStep
  <1>4. CASE StopKill
    <2>1. op.pid \in Pid
      BY <1>4 DEF StopKill, processAlive
    <2>2. proc' \in [Pid -> Proc]
      <3>1. [proc[op.pid] EXCEPT !.st = "kill"] \in Proc
        BY <2>1, ProcUpdate DEF ProcState
      <3> QED BY <1>4, <2>1, <3>1 DEF StopKill
    <2>3. op' \in Op
      BY <1>4 DEF StopKill, Goto, OpStep
    <2> QED BY <1>4, <2>2, <2>3 DEF StopKill
  <1>5. CASE StopClear
    <2>1. pm' \in PMFields
      BY <1>5 DEF StopClear
    <2>2. CASE op.kind = "restart"
      <3>1. op' \in Op
        BY <1>5, <2>2, ZenonT(40) DEF StopClear, OpStep
      <3> QED BY <1>5, <2>1, <2>2, <3>1 DEF StopClear
    <2>3. CASE op.kind # "restart"
      BY <1>5, <2>1, <2>3, ReturnType DEF StopClear
    <2> QED BY <2>2, <2>3
  <1> QED BY <1>1, <1>2, <1>3, <1>4, <1>5 DEF StopStep

LEMMA TypeEntry ==
  ASSUME TypeOK, OpShape, EntryStep
  PROVE  TypeOK'
  <1>1. CASE EntryRunning \/ RestartEntryStopped \/ ValidateConfigPasses
             \/ AutoRestartWanted
    BY <1>1, ZenonT(40) DEF EntryRunning, RestartEntryStopped, ValidateConfigPasses,
                AutoRestartWanted, Goto, OpStep
  <1>2. CASE ValidateConfigFails \/ AutoRestartUnwanted
    BY <1>2, ReturnType DEF ValidateConfigFails, AutoRestartUnwanted
  <1>3. CASE QuiesceEntryStopped
    <2>1. pm' \in PMFields
      BY <1>3 DEF QuiesceEntryStopped
    <2> QED BY <1>3, <2>1, ReturnType DEF QuiesceEntryStopped
  <1> QED BY <1>1, <1>2, <1>3 DEF EntryStep

LEMMA TypeRequest ==
  ASSUME TypeOK, Request
  PROVE  TypeOK'
  <1>1. ASSUME NEW k \in OpKind, NEW s \in OpStep, Begin(k, s)
        PROVE  TypeOK'
    BY <1>1 DEF Begin, NoOp, NoRet, OpKind, OpStep
  <1> QED BY <1>1 DEF Request, Start, Stop, Restart, quiesce, OpKind, OpStep

LEMMA TypeWorld ==
  ASSUME TypeOK, NEW p \in Pid, waitProcess(p) \/ World(p)
  PROVE  TypeOK'
  <1>1. CASE WaitReturns(p)
    <2>1. proc' \in [Pid -> Proc]
      BY <1>1, ProcUpdate DEF WaitReturns, ProcState
    <2> QED BY <1>1, <2>1 DEF WaitReturns, WaiterState
  <1>2. CASE ExitVerdict(p)
    BY <1>2 DEF ExitVerdict, WaiterState
  <1>3. CASE BeginAutoRestart(p)
    BY <1>3 DEF BeginAutoRestart, NoOp, WaiterState, OpKind, OpStep
  <1>4. CASE Exit(p)
    <2>1. PICK e \in BOOLEAN : proc' = [proc EXCEPT
                    ![p].st = IF proc[p].child THEN "zombie" ELSE "gone",
                    ![p].err = e]
      BY <1>4 DEF Exit
    <2>2. [proc[p] EXCEPT !.st = IF proc[p].child THEN "zombie" ELSE "gone",
                          !.err = e] \in Proc
      BY ProcUpdate DEF ProcState
    <2>3. proc' \in [Pid -> Proc]
      BY <2>1, <2>2
    <2> QED BY <1>4, <2>3 DEF Exit
  <1>5. CASE Recycle(p)
    <2>1. proc' \in [Pid -> Proc]
      BY <1>5 DEF Recycle, Proc, ProcState
    <2> QED BY <1>5, <2>1 DEF Recycle, WaiterState
  <1>6. CASE ExternalStart(p)
    <2>1. proc' \in [Pid -> Proc]
      BY <1>6 DEF ExternalStart, Proc, ProcState
    <2> QED BY <1>6, <2>1 DEF ExternalStart
  <1>7. CASE ValidateConfig(p)
    <2>1. proc' \in [Pid -> Proc]
      BY <1>7 DEF ValidateConfig, Proc, ProcState
    <2> QED BY <1>7, <2>1 DEF ValidateConfig
  <1> QED BY <1>1, <1>2, <1>3, <1>4, <1>5, <1>6, <1>7 DEF waitProcess, World

LEMMA TypePanel ==
  ASSUME TypeOK, PanelRestart \/ \E b \in Binaries : setBinaryPath(b)
  PROVE  TypeOK'
  <1>1. CASE \E b \in Binaries : setBinaryPath(b)
    BY <1>1 DEF setBinaryPath
  <1>2. CASE PanelRestart
    <2>1. proc' \in [Pid -> Proc]
      <3>1. ASSUME NEW p \in Pid
            PROVE  [proc[p] EXCEPT !.child = FALSE, !.test = FALSE,
                      !.st = IF proc[p].st = "zombie" \/ ~OrphansSurvive
                             THEN "gone" ELSE proc[p].st] \in Proc
        <4>1. proc[p].st \in ProcState
          BY DEF Proc
        <4> QED BY <4>1, ProcUpdate DEF ProcState
      <3> QED BY <1>2, <3>1 DEF PanelRestart
    <2>2. pm' \in PMFields /\ op' \in Op /\ ret' \in Ret
      BY <1>2 DEF PanelRestart, FreshPM, NoOp, NoRet, OpKind, OpStep
    <2> QED BY <1>2, <2>1, <2>2 DEF PanelRestart, WaiterState
  <1> QED BY <1>1, <1>2

LEMMA TypeNext ==
  ASSUME TypeOK, OpShape, [Next]_vars
  PROVE  TypeOK'
  <1>1. CASE UNCHANGED vars
    BY <1>1 DEF vars
  <1> QED BY <1>1, TypeStart, TypeStop, TypeEntry, TypeRequest, TypeWorld,
             TypePanel DEF Next, OpNext

-----------------------------------------------------------------------------
(* The inductive invariant: one lemma per action, or per family of actions *)
(* that write the same state.                                              *)


\* A request takes lifecycleMu.
LEMMA BeginInv ==
  ASSUME IInv, TypeOK', NEW k \in OpKind, NEW s \in OpStep, Begin(k, s),
         <<k, s>> \in {<<"start", "check">>, <<"stop", "stopCheck">>,
                       <<"restart", "entry">>, <<"quiesce", "entry">>}
  PROVE  IInv'
  <1> USE DEF IInv, Proc, Begin, NoOp, NoRet
  <1>1. OpShape'
    BY DEF OpShape, isRunning
  <1>2. ChildTracked'
    BY DEF OpShape, ChildTracked, StopTracked, RestartTracked, Serving,
           isRunning, processAlive, DoneClosed
  <1>3. StopTracked' /\ RetShape'
    BY DEF OpShape, StopTracked, RestartTracked, RetShape, Halted, NoRet
  <1>4. RestartTracked'
    BY DEF OpShape, ChildTracked, RestartTracked
  <1>5. Supervised'
    BY DEF OpShape, ChildTracked, StopTracked, RestartTracked, Supervised
  <1> QED BY <1>1, <1>2, <1>3, <1>4, <1>5

\* An operation other than a stop returns and touches only its own waiter.
LEMMA ReturnInv ==
  ASSUME IInv, TypeOK', NEW ok \in BOOLEAN, Return(ok),
         UNCHANGED <<pm, proc, asked>>,
         op.kind \notin {"none", "stop", "quiesce"}, op.step # "publish",
         ok => op.step = "settle"
  PROVE  IInv'
  <1> USE DEF IInv, Proc, Return, NoOp
  <1>1. OpShape'
    BY DEF OpShape, isRunning
  <1>2. ChildTracked'
    BY DEF OpShape, ChildTracked, StopTracked, RestartTracked, Serving,
           isRunning, processAlive, DoneClosed
  <1>3. StopTracked' /\ RetShape'
    BY DEF OpShape, StopTracked, RestartTracked, RetShape, Halted, NoRet
  <1>4. RestartTracked'
    BY DEF OpShape, ChildTracked, RestartTracked
  <1>5. Supervised'
    BY DEF OpShape, ChildTracked, StopTracked, RestartTracked, Supervised
  <1> QED BY <1>1, <1>2, <1>3, <1>4, <1>5

\* The start passes its first checks.
LEMMA StartCheckedInv ==
  ASSUME IInv, TypeOK', StartChecked
  PROVE  IInv'
  <1> USE DEF IInv, Proc, StartChecked
  <1>1. OpShape'
    BY DEF OpShape, isRunning
  <1>2. ChildTracked'
    BY DEF OpShape, ChildTracked, StopTracked, RestartTracked, Serving,
           isRunning, processAlive, DoneClosed
  <1>3. StopTracked' /\ RetShape'
    BY DEF OpShape, StopTracked, RestartTracked, RetShape, Halted, NoRet
  <1>4. RestartTracked'
    BY DEF OpShape, ChildTracked, RestartTracked
  <1>5. Supervised'
    BY DEF OpShape, ChildTracked, StopTracked, RestartTracked, Supervised
  <1> QED BY <1>1, <1>2, <1>3, <1>4, <1>5

\* The scan changes nothing but its result.
LEMMA ScanProcInv ==
  ASSUME IInv, TypeOK', ScanProc
  PROVE  IInv'
  <1> USE DEF IInv, Proc, ScanProc, findExistingProcesses
  <1>1. OpShape'
    BY DEF OpShape, isRunning
  <1>2. ChildTracked'
    BY DEF OpShape, ChildTracked, StopTracked, RestartTracked, Serving,
           isRunning, processAlive, DoneClosed
  <1>3. StopTracked' /\ RetShape'
    BY DEF OpShape, StopTracked, RestartTracked, RetShape, Halted, NoRet
  <1>4. RestartTracked'
    BY DEF OpShape, ChildTracked, RestartTracked
  <1>5. Supervised'
    BY DEF OpShape, ChildTracked, StopTracked, RestartTracked, Supervised
  <1> QED BY <1>1, <1>2, <1>3, <1>4, <1>5

\* The stop sees the exit.
LEMMA StopObservedInv ==
  ASSUME IInv, TypeOK', StopObserved
  PROVE  IInv'
  <1> USE DEF IInv, Proc, StopObserved, Goto
  <1>1. OpShape'
    BY DEF OpShape, isRunning
  <1>2. ChildTracked'
    BY DEF OpShape, ChildTracked, StopTracked, RestartTracked, Serving,
           isRunning, processAlive, DoneClosed
  <1>3. StopTracked' /\ RetShape'
    BY DEF OpShape, StopTracked, RestartTracked, RetShape, Halted, NoRet
  <1>4. RestartTracked'
    BY DEF OpShape, ChildTracked, RestartTracked
  <1>5. Supervised'
    BY DEF OpShape, ChildTracked, StopTracked, RestartTracked, Supervised
  <1> QED BY <1>1, <1>2, <1>3, <1>4, <1>5

\* Restart and quiesce go on to stop.
LEMMA EntryRunningInv ==
  ASSUME IInv, TypeOK', EntryRunning
  PROVE  IInv'
  <1> USE DEF IInv, Proc, EntryRunning, Goto
  <1>1. OpShape'
    BY DEF OpShape, isRunning
  <1>2. ChildTracked'
    BY DEF OpShape, ChildTracked, StopTracked, RestartTracked, Serving,
           isRunning, processAlive, DoneClosed
  <1>3. StopTracked' /\ RetShape'
    BY DEF OpShape, StopTracked, RestartTracked, RetShape, Halted, NoRet
  <1>4. RestartTracked'
    BY DEF OpShape, ChildTracked, RestartTracked
  <1>5. Supervised'
    BY DEF OpShape, ChildTracked, StopTracked, RestartTracked, Supervised
  <1> QED BY <1>1, <1>2, <1>3, <1>4, <1>5

\* Restart finds nothing to stop.
LEMMA RestartEntryStoppedInv ==
  ASSUME IInv, TypeOK', RestartEntryStopped
  PROVE  IInv'
  <1> USE DEF IInv, Proc, RestartEntryStopped, Goto
  <1>1. OpShape'
    BY DEF OpShape, isRunning
  <1>2. ChildTracked'
    BY DEF OpShape, ChildTracked, StopTracked, RestartTracked, Serving,
           isRunning, processAlive, DoneClosed
  <1>3. StopTracked' /\ RetShape'
    BY DEF OpShape, StopTracked, RestartTracked, RetShape, Halted, NoRet
  <1>4. RestartTracked'
    BY DEF OpShape, ChildTracked, RestartTracked
  <1>5. Supervised'
    BY DEF OpShape, ChildTracked, StopTracked, RestartTracked, Supervised
  <1> QED BY <1>1, <1>2, <1>3, <1>4, <1>5

\* The configuration is valid.
LEMMA ValidateConfigPassesInv ==
  ASSUME IInv, TypeOK', ValidateConfigPasses
  PROVE  IInv'
  <1> USE DEF IInv, Proc, ValidateConfigPasses, Goto
  <1>1. OpShape'
    BY DEF OpShape, isRunning
  <1>2. ChildTracked'
    BY DEF OpShape, ChildTracked, StopTracked, RestartTracked, Serving,
           isRunning, processAlive, DoneClosed
  <1>3. StopTracked' /\ RetShape'
    BY DEF OpShape, StopTracked, RestartTracked, RetShape, Halted, NoRet
  <1>4. RestartTracked'
    BY DEF OpShape, ChildTracked, RestartTracked
  <1>5. Supervised'
    BY DEF OpShape, ChildTracked, StopTracked, RestartTracked, Supervised
  <1> QED BY <1>1, <1>2, <1>3, <1>4, <1>5

\* The automatic restart is still wanted.
LEMMA AutoRestartWantedInv ==
  ASSUME IInv, TypeOK', AutoRestartWanted
  PROVE  IInv'
  <1> USE DEF IInv, Proc, AutoRestartWanted, Wanted, Goto
  <1>1. OpShape'
    BY DEF OpShape, isRunning
  <1>2. ChildTracked'
    BY DEF OpShape, ChildTracked, StopTracked, RestartTracked, Serving,
           isRunning, processAlive, DoneClosed
  <1>3. StopTracked' /\ RetShape'
    BY DEF OpShape, StopTracked, RestartTracked, RetShape, Halted, NoRet
  <1>4. RestartTracked'
    BY DEF OpShape, ChildTracked, RestartTracked
  <1>5. Supervised'
    BY DEF OpShape, ChildTracked, StopTracked, RestartTracked, Supervised
  <1> QED BY <1>1, <1>2, <1>3, <1>4, <1>5

\* An outside core is adopted.
LEMMA adoptExistingLockedInv ==
  ASSUME IInv, TypeOK', adoptExistingLocked
  PROVE  IInv'
  <1> USE DEF IInv, Proc, adoptExistingLocked, Return, NoOp
  <1>1. OpShape'
    BY DEF OpShape, isRunning
  <1>2. ChildTracked'
    BY DEF OpShape, ChildTracked, StopTracked, RestartTracked, Serving,
           isRunning, processAlive, DoneClosed
  <1>3. StopTracked' /\ RetShape'
    BY DEF OpShape, StopTracked, RestartTracked, RetShape, Halted, NoRet
  <1>4. RestartTracked'
    BY DEF OpShape, ChildTracked, RestartTracked
  <1>5. Supervised'
    BY DEF OpShape, ChildTracked, StopTracked, RestartTracked, Supervised
  <1> QED BY <1>1, <1>2, <1>3, <1>4, <1>5

\* No core runs when start() is about to spawn one.
LEMMA NothingToAdoptInv ==
  ASSUME IInv, TypeOK', NothingToAdopt
  PROVE  IInv'
  <1> USE DEF IInv, Proc, NothingToAdopt, Goto
  <1>1. OpShape'
    BY DEF OpShape, isRunning
  <1>2. ChildTracked'
    BY DEF OpShape, ChildTracked, StopTracked, RestartTracked, Serving,
           isRunning, processAlive, DoneClosed
  <1>3. StopTracked' /\ RetShape'
    BY DEF OpShape, StopTracked, RestartTracked, RetShape, Halted, NoRet
  <1>4. RestartTracked'
    BY DEF OpShape, ChildTracked, RestartTracked
  <1>5. Supervised'
    BY DEF OpShape, ChildTracked, StopTracked, RestartTracked, Supervised
  <1> QED BY <1>1, <1>2, <1>3, <1>4, <1>5

\* The spawned child is the only one.
LEMMA SpawnInv ==
  ASSUME IInv, TypeOK', Spawn
  PROVE  IInv'
  <1> USE DEF IInv, Proc, Spawn
  <1>1. OpShape'
    BY DEF OpShape, isRunning
  <1>2. ChildTracked'
    <2>1. PICK q \in Pid :
             /\ proc[q].st = "free"
             /\ proc' = [proc EXCEPT ![q] = Process("up", TRUE, FALSE, op.bin)]
             /\ op' = [op EXCEPT !.step = "publish", !.pid = q]
      OBVIOUS
    <2>2. waiter[q] = "none"
      BY <2>1 DEF RestartTracked, WaiterState
    <2>3. \A p \in Pid : Serving(p)' => p = q
      BY <2>1 DEF ChildTracked, Serving
    <2> QED BY <2>1, <2>2, <2>3, SMTT(20) DEF ChildTracked
  <1>3. StopTracked' /\ RetShape'
    BY DEF OpShape, StopTracked, RestartTracked, RetShape, Halted, NoRet
  <1>4. RestartTracked'
    BY DEF OpShape, ChildTracked, RestartTracked
  <1>5. Supervised'
    BY DEF OpShape, ChildTracked, StopTracked, RestartTracked, Supervised
  <1> QED BY <1>1, <1>2, <1>3, <1>4, <1>5

\* The fields describe the spawned child and its waiter exists.
LEMMA PublishInv ==
  ASSUME IInv, TypeOK', Publish
  PROVE  IInv'
  <1> USE DEF IInv, Proc, Publish, Goto
  <1>1. OpShape'
    BY DEF OpShape, isRunning
  <1>2. ChildTracked'
    BY DEF OpShape, ChildTracked, StopTracked, RestartTracked, Serving,
           isRunning, processAlive, DoneClosed
  <1>3. StopTracked' /\ RetShape'
    BY DEF OpShape, StopTracked, RestartTracked, RetShape, Halted, NoRet
  <1>4. RestartTracked'
    BY DEF OpShape, ChildTracked, RestartTracked
  <1>5. Supervised'
    BY DEF OpShape, ChildTracked, StopTracked, RestartTracked, Supervised
  <1> QED BY <1>1, <1>2, <1>3, <1>4, <1>5

\* A start that failed at once leaves nothing wanted.
LEMMA ExitedImmediatelyInv ==
  ASSUME IInv, TypeOK', ExitedImmediately
  PROVE  IInv'
  <1> USE DEF IInv, Proc, ExitedImmediately, Return, NoOp
  <1>1. OpShape'
    BY DEF OpShape, isRunning
  <1>2. ChildTracked'
    BY DEF OpShape, ChildTracked, StopTracked, RestartTracked, Serving,
           isRunning, processAlive, DoneClosed
  <1>3. StopTracked' /\ RetShape'
    BY DEF OpShape, StopTracked, RestartTracked, RetShape, Halted, NoRet
  <1>4. RestartTracked'
    BY DEF OpShape, ChildTracked, RestartTracked
  <1>5. Supervised'
    BY DEF OpShape, ChildTracked, StopTracked, RestartTracked, Supervised
  <1> QED BY <1>1, <1>2, <1>3, <1>4, <1>5

\* A stop that finds nothing withdraws the wish.
LEMMA StopNotRunningInv ==
  ASSUME IInv, TypeOK', StopNotRunning
  PROVE  IInv'
  <1> USE DEF IInv, Proc, StopNotRunning, Return, NoOp
  <1>1. OpShape'
    BY DEF OpShape, isRunning
  <1>2. ChildTracked'
    BY DEF OpShape, ChildTracked, StopTracked, RestartTracked, Serving,
           isRunning, processAlive, DoneClosed
  <1>3. StopTracked' /\ RetShape'
    BY DEF OpShape, StopTracked, RestartTracked, RetShape, Halted, NoRet
  <1>4. RestartTracked'
    BY DEF OpShape, ChildTracked, RestartTracked
  <1>5. Supervised'
    BY DEF OpShape, ChildTracked, StopTracked, RestartTracked, Supervised
  <1> QED BY <1>1, <1>2, <1>3, <1>4, <1>5

\* A stop signals the core the fields describe.
LEMMA StopSignalInv ==
  ASSUME IInv, TypeOK', StopSignal
  PROVE  IInv'
  <1> USE DEF IInv, Proc, StopSignal
  <1>1. OpShape'
    BY DEF OpShape, isRunning
  <1>2. ChildTracked'
    BY DEF OpShape, ChildTracked, StopTracked, RestartTracked, Serving,
           isRunning, processAlive, DoneClosed
  <1>3. StopTracked' /\ RetShape'
    BY DEF OpShape, StopTracked, RestartTracked, RetShape, Halted, NoRet
  <1>4. RestartTracked'
    BY SMTT(20) DEF OpShape, ChildTracked, RestartTracked
  <1>5. Supervised'
    BY DEF OpShape, ChildTracked, StopTracked, RestartTracked, Supervised
  <1> QED BY <1>1, <1>2, <1>3, <1>4, <1>5

\* The stop escalates.
LEMMA StopKillInv ==
  ASSUME IInv, TypeOK', StopKill
  PROVE  IInv'
  <1> USE DEF IInv, Proc, StopKill, Goto
  <1>1. OpShape'
    BY DEF OpShape, isRunning
  <1>2. ChildTracked'
    BY DEF OpShape, ChildTracked, StopTracked, RestartTracked, Serving,
           isRunning, processAlive, DoneClosed
  <1>3. StopTracked' /\ RetShape'
    BY DEF OpShape, StopTracked, RestartTracked, RetShape, Halted, NoRet
  <1>4. RestartTracked'
    BY DEF OpShape, ChildTracked, RestartTracked
  <1>5. Supervised'
    BY DEF OpShape, ChildTracked, StopTracked, RestartTracked, Supervised
  <1> QED BY <1>1, <1>2, <1>3, <1>4, <1>5

\* A quiesce that finds nothing withdraws the wish.
LEMMA QuiesceEntryStoppedInv ==
  ASSUME IInv, TypeOK', QuiesceEntryStopped
  PROVE  IInv'
  <1> USE DEF IInv, Proc, QuiesceEntryStopped, Return, NoOp
  <1>1. OpShape'
    BY DEF OpShape, isRunning
  <1>2. ChildTracked'
    BY DEF OpShape, ChildTracked, StopTracked, RestartTracked, Serving,
           isRunning, processAlive, DoneClosed
  <1>3. StopTracked' /\ RetShape'
    BY DEF OpShape, StopTracked, RestartTracked, RetShape, Halted, NoRet
  <1>4. RestartTracked'
    BY DEF OpShape, ChildTracked, RestartTracked
  <1>5. Supervised'
    BY DEF OpShape, ChildTracked, StopTracked, RestartTracked, Supervised
  <1> QED BY <1>1, <1>2, <1>3, <1>4, <1>5

\* The child is reaped.
LEMMA WaitReturnsInv ==
  ASSUME IInv, TypeOK', NEW p \in Pid, WaitReturns(p)
  PROVE  IInv'
  <1> USE DEF IInv, Proc, WaitReturns
  <1>1. OpShape'
    BY DEF OpShape, isRunning
  <1>2. ChildTracked'
    <2>1. \A q \in Pid : Serving(q)' => Serving(q) /\ q # p
      BY DEF Serving
    <2>2. op.step = "publish" => op.pid # p
      BY DEF ChildTracked, OpShape
    <2> QED BY <2>1, <2>2 DEF ChildTracked, OpShape
  <1>3. StopTracked' /\ RetShape'
    BY DEF OpShape, StopTracked, RestartTracked, RetShape, Halted, NoRet
  <1>4. RestartTracked'
    BY DEF OpShape, ChildTracked, RestartTracked
  <1>5. Supervised'
    BY DEF OpShape, ChildTracked, StopTracked, RestartTracked, Supervised
  <1> QED BY <1>1, <1>2, <1>3, <1>4, <1>5

\* The waiter reaches its verdict.
LEMMA ExitVerdictInv ==
  ASSUME IInv, TypeOK', NEW p \in Pid, ExitVerdict(p)
  PROVE  IInv'
  <1> USE DEF IInv, Proc, ExitVerdict
  <1>1. OpShape'
    BY DEF OpShape, isRunning
  <1>2. ChildTracked'
    BY DEF OpShape, ChildTracked, StopTracked, RestartTracked, Serving,
           isRunning, processAlive, DoneClosed
  <1>3. StopTracked' /\ RetShape'
    BY DEF OpShape, StopTracked, RestartTracked, RetShape, Halted, NoRet
  <1>4. RestartTracked'
    BY DEF OpShape, ChildTracked, RestartTracked
  <1>5. Supervised'
    BY DEF OpShape, ChildTracked, StopTracked, RestartTracked, Supervised
  <1> QED BY <1>1, <1>2, <1>3, <1>4, <1>5

\* The waiter takes lifecycleMu.
LEMMA BeginAutoRestartInv ==
  ASSUME IInv, TypeOK', NEW p \in Pid, BeginAutoRestart(p)
  PROVE  IInv'
  <1> USE DEF IInv, Proc, BeginAutoRestart, NoOp
  <1>1. OpShape'
    BY DEF OpShape, isRunning
  <1>2. ChildTracked'
    BY DEF OpShape, ChildTracked, StopTracked, RestartTracked, Serving,
           isRunning, processAlive, DoneClosed
  <1>3. StopTracked' /\ RetShape'
    BY DEF OpShape, StopTracked, RestartTracked, RetShape, Halted, NoRet
  <1>4. RestartTracked'
    BY DEF OpShape, ChildTracked, RestartTracked
  <1>5. Supervised'
    BY DEF OpShape, ChildTracked, StopTracked, RestartTracked, Supervised
  <1> QED BY <1>1, <1>2, <1>3, <1>4, <1>5

\* The updater selects another executable.
LEMMA setBinaryPathInv ==
  ASSUME IInv, TypeOK', NEW b \in Binaries, setBinaryPath(b)
  PROVE  IInv'
  <1> USE DEF IInv, Proc, setBinaryPath
  <1>1. OpShape'
    BY DEF OpShape, isRunning
  <1>2. ChildTracked'
    BY DEF OpShape, ChildTracked, StopTracked, RestartTracked, Serving,
           isRunning, processAlive, DoneClosed
  <1>3. StopTracked' /\ RetShape'
    BY DEF OpShape, StopTracked, RestartTracked, RetShape, Halted, NoRet
  <1>4. RestartTracked'
    BY DEF OpShape, ChildTracked, RestartTracked
  <1>5. Supervised'
    BY DEF OpShape, ChildTracked, StopTracked, RestartTracked, Supervised
  <1> QED BY <1>1, <1>2, <1>3, <1>4, <1>5

\* A process dies.
LEMMA ExitInv ==
  ASSUME IInv, TypeOK', NEW p \in Pid, Exit(p)
  PROVE  IInv'
  <1> USE DEF IInv, Proc, Exit
  <1>1. OpShape'
    BY DEF OpShape, isRunning
  <1>2. ChildTracked'
    <2>1. \A q \in Pid : Serving(q)' => Serving(q)
      BY DEF Serving
    <2>2. op.step = "publish" => proc'[op.pid].child /\ proc'[op.pid].st \notin {"gone", "free"}
      BY DEF ChildTracked, OpShape
    <2> QED BY <2>1, <2>2 DEF ChildTracked, OpShape
  <1>3. StopTracked' /\ RetShape'
    BY DEF OpShape, StopTracked, RestartTracked, RetShape, Halted, NoRet
  <1>4. RestartTracked'
    BY DEF OpShape, ChildTracked, RestartTracked
  <1>5. Supervised'
    BY DEF OpShape, ChildTracked, StopTracked, RestartTracked, Supervised
  <1> QED BY <1>1, <1>2, <1>3, <1>4, <1>5

\* A pid nobody remembers is handed out again.
LEMMA RecycleInv ==
  ASSUME IInv, TypeOK', NEW p \in Pid, Recycle(p)
  PROVE  IInv'
  <1> USE DEF IInv, Proc, Recycle, Unreferenced
  <1>1. OpShape'
    BY DEF OpShape, isRunning
  <1>2. ChildTracked'
    BY DEF OpShape, ChildTracked, StopTracked, RestartTracked, Serving,
           isRunning, processAlive, DoneClosed
  <1>3. StopTracked' /\ RetShape'
    BY DEF OpShape, StopTracked, RestartTracked, RetShape, Halted, NoRet
  <1>4. RestartTracked'
    BY DEF OpShape, ChildTracked, RestartTracked
  <1>5. Supervised'
    BY DEF OpShape, ChildTracked, StopTracked, RestartTracked, Supervised
  <1> QED BY <1>1, <1>2, <1>3, <1>4, <1>5

\* An outside core appears.
LEMMA ExternalStartInv ==
  ASSUME IInv, TypeOK', NEW p \in Pid, ExternalStart(p)
  PROVE  IInv'
  <1> USE DEF IInv, Proc, ExternalStart
  <1>1. OpShape'
    BY DEF OpShape, isRunning
  <1>2. ChildTracked'
    BY DEF OpShape, ChildTracked, StopTracked, RestartTracked, Serving,
           isRunning, processAlive, DoneClosed
  <1>3. StopTracked' /\ RetShape'
    BY DEF OpShape, StopTracked, RestartTracked, RetShape, Halted, NoRet
  <1>4. RestartTracked'
    BY DEF OpShape, ChildTracked, RestartTracked
  <1>5. Supervised'
    BY DEF OpShape, ChildTracked, StopTracked, RestartTracked, Supervised
  <1> QED BY <1>1, <1>2, <1>3, <1>4, <1>5

\* A validator runs beside an automatic restart, or alone.
LEMMA ValidateConfigInv ==
  ASSUME IInv, TypeOK', NEW p \in Pid, ValidateConfig(p)
  PROVE  IInv'
  <1> USE DEF IInv, Proc, ValidateConfig
  <1>1. OpShape'
    BY DEF OpShape, isRunning
  <1>2. ChildTracked'
    BY DEF OpShape, ChildTracked, StopTracked, RestartTracked, Serving,
           isRunning, processAlive, DoneClosed
  <1>3. StopTracked' /\ RetShape'
    BY DEF OpShape, StopTracked, RestartTracked, RetShape, Halted, NoRet
  <1>4. RestartTracked'
    BY DEF OpShape, ChildTracked, RestartTracked
  <1>5. Supervised'
    BY DEF OpShape, ChildTracked, StopTracked, RestartTracked, Supervised
  <1> QED BY <1>1, <1>2, <1>3, <1>4, <1>5

\* The panel starts over.
LEMMA PanelRestartInv ==
  ASSUME IInv, TypeOK', PanelRestart
  PROVE  IInv'
  <1> USE DEF IInv, Proc, PanelRestart, FreshPM, NoOp, NoRet
  <1>1. OpShape'
    BY DEF OpShape, isRunning
  <1>2. ChildTracked'
    <2>1. \A q \in Pid : proc'[q].child = FALSE
      <3>1. ASSUME NEW q \in Pid, ~proc[q].child /\ ~proc[q].test
            PROVE  proc'[q].child = FALSE
        BY <3>1
      <3>2. ASSUME NEW q \in Pid, proc[q].child \/ proc[q].test
            PROVE  proc'[q].child = FALSE
        <4>1. proc'[q] = [proc[q] EXCEPT !.child = FALSE, !.test = FALSE,
                  !.st = IF proc[q].st = "zombie" \/ ~OrphansSurvive
                         THEN "gone" ELSE proc[q].st]
          BY <3>2
        <4> QED BY <4>1, ZenonT(40)
      <3> QED BY <3>1, <3>2
    <2>2. \A q \in Pid : ~Serving(q)'
      BY <2>1 DEF Serving
    <2> QED BY <2>2 DEF ChildTracked
  <1>3. StopTracked' /\ RetShape'
    BY DEF OpShape, StopTracked, RestartTracked, RetShape, Halted, NoRet
  <1>4. RestartTracked'
    BY DEF OpShape, ChildTracked, RestartTracked
  <1>5. Supervised'
    BY DEF OpShape, ChildTracked, StopTracked, RestartTracked, Supervised
  <1> QED BY <1>1, <1>2, <1>3, <1>4, <1>5

\* The stop clears the fields, and a restart goes on.
LEMMA StopClearInv ==
  ASSUME IInv, TypeOK', StopClear
  PROVE  IInv'
  <1> USE DEF IInv, Proc
  <1>1. \A p \in Pid : ~Serving(p)
    BY DEF StopClear, ChildTracked, StopTracked, Serving
  <1>2. ~pm.desired /\ pm.pid = op.pid /\ op.step = "stopClear" /\ op.kind # "auto"
    BY DEF StopClear, StopTracked, OpShape
  <1>3. /\ pm' = [pm EXCEPT !.pid = 0, !.cmd = 0, !.done = 0, !.external = FALSE]
        /\ UNCHANGED <<proc, asked>>
    BY <1>2 DEF StopClear
  <1>4. \A p \in Pid : ~Serving(p)'
    BY <1>1, <1>3 DEF Serving
  <1>5. ~pm.desired'
    BY <1>2, <1>3
  <1>6. CASE op.kind = "restart"
    <2>1. /\ op' = [op EXCEPT !.step = "validate", !.pid = 0, !.done = 0]
          /\ UNCHANGED <<waiter, ret>>
      BY <1>6 DEF StopClear
    <2> QED BY <1>2, <1>4, <1>5, <1>6, <2>1, <1>3
            DEF OpShape, ChildTracked, StopTracked, RestartTracked, RetShape,
                Halted, Supervised
  <1>7. CASE op.kind # "restart"
    <2>1. /\ op' = NoOp(pm.bin) /\ ret' = [kind |-> op.kind, ok |-> TRUE]
          /\ UNCHANGED waiter
      BY <1>2, <1>7 DEF StopClear, Return
    <2> QED BY <1>2, <1>4, <1>5, <1>7, <2>1, <1>3
            DEF OpShape, ChildTracked, StopTracked, RestartTracked, RetShape,
                Halted, Supervised, NoOp
  <1> QED BY <1>6, <1>7

-----------------------------------------------------------------------------
(* The invariant, and the safety properties it implies *)

LEMMA InitInv == Init => IInv
  <1> SUFFICES ASSUME Init
               PROVE  IInv
    OBVIOUS
  <1>1. TypeOK
    BY DEF Init, FreshPM, NoOp, NoRet, Proc, ProcState, WaiterState, OpKind, OpStep
  <1>2. PICK b \in Binaries :
          /\ pm = FreshPM(b)
          /\ proc = [p \in Pid |-> Process("free", FALSE, FALSE, b)]
          /\ waiter = [p \in Pid |-> "none"]
          /\ op = NoOp(b) /\ ret = NoRet
    BY DEF Init
  <1>3. \A p \in Pid : proc[p].st = "free" /\ waiter[p] = "none"
    BY <1>2
  <1>4. /\ pm.desired = FALSE /\ ret.kind = "none"
        /\ op.kind = "none" /\ op.step = "idle" /\ op.by = 0
    BY <1>2 DEF FreshPM, NoOp, NoRet
  <1>5. OpShape /\ StopTracked
    BY <1>4 DEF OpShape, StopTracked
  <1>6. ChildTracked
    BY <1>3, <1>4 DEF ChildTracked, Serving
  <1>7. RestartTracked
    BY <1>3, <1>4 DEF RestartTracked
  <1>8. RetShape /\ Supervised
    BY <1>4 DEF RetShape, Supervised, Halted
  <1> QED BY <1>1, <1>5, <1>6, <1>7, <1>8 DEF IInv

LEMMA NextInv == IInv /\ [Next]_vars => IInv'
  <1> SUFFICES ASSUME IInv, [Next]_vars
               PROVE  IInv'
    OBVIOUS
  <1>1. TypeOK'
    BY TypeNext DEF IInv
  <1>2. CASE Request
    BY <1>1, <1>2, BeginInv DEF Request, Start, Stop, Restart, quiesce, OpKind, OpStep
  <1>3. CASE StartStep
    <2>1. CASE StartRefused \/ StartUnavailable \/ SpawnFails \/ Settled
      BY <1>1, <2>1, ReturnInv DEF IInv, StartRefused, StartUnavailable,
         SpawnFails, Settled, OpShape
    <2> QED BY <1>1, <1>3, <2>1, StartCheckedInv, ScanProcInv,
               adoptExistingLockedInv, NothingToAdoptInv, SpawnInv, PublishInv,
               ExitedImmediatelyInv DEF StartStep
  <1>4. CASE StopStep
    BY <1>1, <1>4, StopNotRunningInv, StopSignalInv, StopObservedInv,
       StopKillInv, StopClearInv DEF StopStep
  <1>5. CASE EntryStep
    <2>1. CASE ValidateConfigFails \/ AutoRestartUnwanted
      BY <1>1, <2>1, ReturnInv DEF IInv, ValidateConfigFails,
         AutoRestartUnwanted, OpShape
    <2> QED BY <1>1, <1>5, <2>1, EntryRunningInv, RestartEntryStoppedInv,
               QuiesceEntryStoppedInv, ValidateConfigPassesInv,
               AutoRestartWantedInv DEF EntryStep
  <1>6. ASSUME NEW p \in Pid, waitProcess(p) \/ World(p)
        PROVE  IInv'
    BY <1>1, <1>6, WaitReturnsInv, ExitVerdictInv, BeginAutoRestartInv, ExitInv,
       RecycleInv, ExternalStartInv, ValidateConfigInv DEF waitProcess, World
  <1>7. ASSUME NEW b \in Binaries, setBinaryPath(b)
        PROVE  IInv'
    BY <1>1, <1>7, setBinaryPathInv
  <1>8. CASE PanelRestart
    BY <1>1, <1>8, PanelRestartInv
  <1>9. CASE UNCHANGED vars
    BY <1>9 DEF vars, IInv, OpShape, ChildTracked, StopTracked, RestartTracked,
                RetShape, Supervised, Serving, Halted
  <1> QED BY <1>2, <1>3, <1>4, <1>5, <1>6, <1>7, <1>8, <1>9 DEF Next, OpNext

\* The inductive invariant holds in every reachable state.
THEOREM Invariance == Spec => []IInv
  BY InitInv, NextInv, PTL DEF Spec

\* Every variable keeps its type.
THEOREM TypeCorrect == Spec => []TypeOK
  <1>1. IInv => TypeOK
    BY DEF IInv
  <1> QED BY <1>1, Invariance, PTL

\* The panel never has two unsignalled cores of its own, however crashes,
\* adoptions and automatic restarts fall between the steps of start and stop.
THEOREM SingleChildHolds == Spec => []SingleChild
  <1>1. IInv => SingleChild
    BY DEF IInv, ChildTracked, SingleChild
  <1> QED BY <1>1, Invariance, PTL

\* An automatic restart goes on only for a core that is wanted and that no
\* finished Stop or quiesce has withdrawn.
THEOREM NoRevivalHolds == Spec => []NoRevival
  <1>1. IInv => NoRevival
    BY DEF IInv, RestartTracked, RetShape, NoRevival
  <1> QED BY <1>1, Invariance, PTL

\* A wanted child always has a waiter that looks after it.
THEOREM SupervisedHolds == Spec => []Supervised
  <1>1. IInv => Supervised
    BY DEF IInv
  <1> QED BY <1>1, Invariance, PTL

\* setBinaryPath never falls between the scan and the spawn of one start().
THEOREM BinaryStableHolds == Spec => BinaryStable
  <1>1. ASSUME IInv, [Next]_vars, pm'.bin # pm.bin
        PROVE  ~(At("scan") \/ At("decide") \/ At("spawn") \/ At("publish"))
    <2>1. CASE \E b \in Binaries : setBinaryPath(b)
      <3>1. ret.kind = "quiesce" /\ ~pm.desired
        BY <1>1, <2>1 DEF setBinaryPath, IInv, RetShape, Halted
      <3>2. op.kind \in {"none", "auto"}
        BY <1>1, <3>1 DEF IInv, RetShape, NoRet
      <3>3. CASE op.kind = "none"
        BY <1>1, <3>3 DEF IInv, OpShape
      <3>4. CASE op.kind = "auto"
        BY <1>1, <3>1, <3>4 DEF IInv, OpShape, RestartTracked
      <3> QED BY <3>2, <3>3, <3>4
    <2>2. CASE Request
      BY <1>1, <2>2 DEF Request, Start, Stop, Restart, quiesce, Begin
    <2>3. CASE StartStep
      <3>1. pm \in PMFields
        BY <1>1 DEF IInv
      <3>2. CASE adoptExistingLocked
        BY <1>1, <3>1, <3>2 DEF adoptExistingLocked
      <3>3. CASE Publish \/ ExitedImmediately
        BY <1>1, <3>1, <3>3 DEF Publish, ExitedImmediately
      <3> QED BY <1>1, <2>3, <3>2, <3>3 DEF StartStep, StartRefused,
              StartUnavailable, StartChecked, ScanProc, NothingToAdopt, Spawn,
              SpawnFails, Settled
    <2>4. CASE StopStep
      <3>1. pm \in PMFields
        BY <1>1 DEF IInv
      <3> QED BY <1>1, <2>4, <3>1 DEF StopStep, StopNotRunning, StopSignal,
              StopObserved, StopKill, StopClear
    <2>5. CASE EntryStep
      <3>1. pm \in PMFields
        BY <1>1 DEF IInv
      <3> QED BY <1>1, <2>5, <3>1 DEF EntryStep, EntryRunning,
              RestartEntryStopped, QuiesceEntryStopped, ValidateConfigPasses,
              ValidateConfigFails, AutoRestartUnwanted, AutoRestartWanted
    <2>6. CASE \E p \in Pid : waitProcess(p) \/ World(p)
      BY <1>1, <2>6 DEF waitProcess, World, WaitReturns, ExitVerdict,
         BeginAutoRestart, Exit, Recycle, ExternalStart, ValidateConfig
    <2>7. CASE PanelRestart
      BY <1>1, <2>7 DEF PanelRestart, FreshPM
    <2>8. CASE UNCHANGED vars
      BY <1>1, <2>8 DEF vars
    <2> QED BY <1>1, <2>1, <2>2, <2>3, <2>4, <2>5, <2>6, <2>7, <2>8
            DEF Next, OpNext
  <1> QED BY <1>1, Invariance, PTL DEF Spec, BinaryStable

-----------------------------------------------------------------------------
(* A finished stop is final *)

\* Start-like steps that write neither the processes nor the fields.
LEMMA OrphanStart ==
  ASSUME FindsItsCores, StopInv, IInv', StartStep
  PROVE  OrphanTracked' /\ AskedDown'
  <1> USE DEF StopInv, IInv
  <1>1. CASE StartRefused \/ StartUnavailable \/ SpawnFails \/ Settled
    BY <1>1 DEF StartRefused, StartUnavailable, SpawnFails, Settled, Return, NoOp,
       OrphanTracked, AskedDown
  <1>2. CASE StartChecked
    BY <1>2 DEF StartChecked, OrphanTracked, AskedDown
  <1>3. CASE ScanProc
    <2>1. \A p \in Pid : proc[p].st = "up" /\ ~proc[p].child /\ ~proc[p].test =>
             p \in findExistingProcesses
      BY DEF OrphanTracked, FindsItsCores, findExistingProcesses, TypeOK, PMFields, Proc
    <2>2. \A p \in findExistingProcesses : p \in Pid /\ proc[p].st # "free"
      BY DEF findExistingProcesses
    <2>3. op'.seen = findExistingProcesses /\ op'.step = "decide"
      BY <1>3 DEF ScanProc, TypeOK, Op
    <2> QED BY <1>3, <2>1, <2>2, <2>3 DEF ScanProc, OrphanTracked, AskedDown
  <1>4. CASE adoptExistingLocked
    <2>1. PICK keep \in op.seen :
            /\ pm' = [pm EXCEPT !.pid = keep, !.desired = TRUE, !.external = TRUE]
            /\ proc' = [p \in Pid |->
                          IF p \in op.seen \ {keep} /\ proc[p].st = "up"
                          THEN [proc[p] EXCEPT !.st = "term"] ELSE proc[p]]
            /\ asked' = asked \cup (op.seen \ {keep})
      BY <1>4 DEF adoptExistingLocked
    <2>2. op'.step = "idle" /\ op'.seen = {} /\ pm'.done = pm.done
      BY <1>4, <2>1 DEF adoptExistingLocked, Return, NoOp, TypeOK, PMFields
    <2>3. ASSUME NEW p \in Pid
          PROVE  /\ proc'[p].child = proc[p].child /\ proc'[p].test = proc[p].test
                 /\ proc'[p].st = IF p \in op.seen \ {keep} /\ proc[p].st = "up"
                                  THEN "term" ELSE proc[p].st
      BY <2>1 DEF TypeOK, Proc
    <2>4. op.seen \subseteq Pid /\ asked \subseteq Pid
      BY DEF TypeOK, Op
    <2>5. OrphanTracked'
      BY <2>2, <2>3 DEF OrphanTracked
    <2>6. AskedDown'
      BY <2>1, <2>2, <2>3, <2>4 DEF AskedDown
    <2> QED BY <2>5, <2>6
  <1>5. CASE NothingToAdopt
    BY <1>5 DEF NothingToAdopt, At, Goto, OrphanTracked, AskedDown, TypeOK, Op
  <1>6. CASE Spawn
    <2>1. PICK q \in Pid :
            /\ proc[q].st = "free"
            /\ proc' = [proc EXCEPT ![q] = Process("up", TRUE, FALSE, op.bin)]
            /\ op' = [op EXCEPT !.step = "publish", !.pid = q]
      BY <1>6 DEF Spawn
    <2>2. /\ proc'[q].child = TRUE
          /\ \A p \in Pid : p # q => proc'[p] = proc[p]
      BY <2>1 DEF TypeOK
    <2>3. asked \subseteq Pid /\ op.seen \subseteq Pid /\ op'.seen = op.seen
      BY <2>1 DEF TypeOK, Op
    <2>4. \A p \in Pid : ~(proc[p].st = "up" /\ ~proc[p].child /\ ~proc[p].test)
      BY <1>6 DEF Spawn, At, OrphanTracked
    <2>5. OrphanTracked'
      BY <2>2, <2>4 DEF OrphanTracked
    <2>6. AskedDown'
      BY <1>6, <2>1, <2>2, <2>3 DEF Spawn, AskedDown
    <2> QED BY <2>5, <2>6
  <1>7. CASE Publish
    <2>1. /\ op'.step = "settle" /\ op'.seen = op.seen /\ UNCHANGED <<proc, asked>>
          /\ pm'.pid = op.pid /\ op.step = "publish"
      BY <1>7 DEF Publish, At, Goto, TypeOK, Op, PMFields
    <2>2. proc[op.pid].st # "free"
      BY <2>1 DEF ChildTracked
    <2>3. OrphanTracked'
      BY <2>1 DEF OrphanTracked
    <2>4. AskedDown'
      BY <2>1, <2>2 DEF AskedDown
    <2> QED BY <2>3, <2>4
  <1>8. CASE ExitedImmediately
    BY <1>8 DEF ExitedImmediately, Return, NoOp, At, OrphanTracked, AskedDown, TypeOK, PMFields
  <1> QED BY <1>1, <1>2, <1>3, <1>4, <1>5, <1>6, <1>7, <1>8 DEF StartStep

\* Stops and the other steps of an operation: what is signalled is not up.
LEMMA OrphanStop ==
  ASSUME StopInv, IInv', StopStep \/ EntryStep \/ Request
  PROVE  OrphanTracked' /\ AskedDown'
  <1> USE DEF StopInv, IInv
  <1>1. CASE StopNotRunning \/ StopClear \/ QuiesceEntryStopped
    <2>1. /\ UNCHANGED <<proc, asked>> /\ pm'.done \in {pm.done, NoPid}
          /\ pm'.pid \in {pm.pid, NoPid}
      BY <1>1 DEF StopNotRunning, StopClear, QuiesceEntryStopped, TypeOK, PMFields
    <2>2. op'.step \in {"idle", "validate"} /\ op'.seen \in {op.seen, {}}
      <3>1. op' = NoOp(pm'.bin) \/ op' = NoOp(pm.bin)
            \/ op' = [op EXCEPT !.step = "validate", !.pid = NoPid, !.done = NoPid]
        BY <1>1 DEF StopNotRunning, StopClear, QuiesceEntryStopped, Return
      <3>2. CASE op' = NoOp(pm'.bin) \/ op' = NoOp(pm.bin)
        BY <3>2 DEF NoOp
      <3>3. CASE op' = [op EXCEPT !.step = "validate", !.pid = NoPid, !.done = NoPid]
        BY <3>3 DEF TypeOK, Op
      <3> QED BY <3>1, <3>2, <3>3
    <2> QED BY <2>1, <2>2 DEF OrphanTracked, AskedDown
  <1>2. CASE StopObserved
    BY <1>2 DEF StopObserved, Goto, OrphanTracked, AskedDown, TypeOK, Op
  <1>3. CASE StopSignal
    <2>1. pm.pid \in Pid /\ proc[pm.pid].st \in {"up", "term", "kill", "zombie"}
      BY <1>3 DEF StopSignal, isRunning, processAlive, TypeOK, PMFields
    <2>2. ASSUME NEW p \in Pid
          PROVE  /\ proc'[p].child = proc[p].child /\ proc'[p].test = proc[p].test
                 /\ proc'[p].st = IF p = pm.pid /\ proc[p].st = "up"
                                  THEN "term" ELSE proc[p].st
      BY <1>3, <2>1 DEF StopSignal, TypeOK, Proc
    <2>3. /\ op'.step = "await" /\ op'.seen = op.seen
          /\ pm'.done = pm.done /\ pm'.pid = pm.pid
          /\ asked' = asked \cup {pm.pid}
      BY <1>3 DEF StopSignal, TypeOK, PMFields, Op
    <2>4. asked \subseteq Pid /\ op.seen \subseteq Pid
      BY DEF TypeOK, Op
    <2>5. OrphanTracked'
      BY <2>2, <2>3 DEF OrphanTracked
    <2>6. \A p \in Pid : proc'[p].st = "free" => proc[p].st = "free"
      BY <2>2
    <2>7. proc'[pm.pid].st \notin {"up", "free"}
      BY <2>1, <2>2
    <2>8. AskedDown'
      BY <2>1, <2>2, <2>3, <2>4, <2>6, <2>7 DEF AskedDown
    <2> QED BY <2>5, <2>8
  <1>4. CASE StopKill
    <2>1. op.pid \in Pid
      BY <1>4 DEF StopKill, processAlive, TypeOK, Op
    <2>2. ASSUME NEW p \in Pid
          PROVE  /\ proc'[p].child = proc[p].child /\ proc'[p].test = proc[p].test
                 /\ proc'[p].st # proc[p].st => proc'[p].st = "kill"
      BY <1>4, <2>1 DEF StopKill, TypeOK, Proc
    <2>3. /\ op'.step \in {"awaitKill", "stopClear"} /\ op'.seen = op.seen
          /\ UNCHANGED <<pm, asked>>
      BY <1>4 DEF StopKill, Goto, TypeOK, Op
    <2>4. asked \subseteq Pid /\ op.seen \subseteq Pid
      BY DEF TypeOK, Op
    <2> QED BY <2>2, <2>3, <2>4 DEF OrphanTracked, AskedDown
  <1>5. CASE EntryStep /\ ~QuiesceEntryStopped
    BY <1>5 DEF EntryStep, EntryRunning, RestartEntryStopped, ValidateConfigPasses,
       ValidateConfigFails, AutoRestartUnwanted, AutoRestartWanted, Return, NoOp,
       Goto, OrphanTracked, AskedDown, TypeOK, Op
  <1>6. CASE Request
    BY <1>6 DEF Request, Start, Stop, Restart, quiesce, Begin, NoOp, OrphanTracked,
       AskedDown, TypeOK, Op
  <1> QED BY <1>1, <1>2, <1>3, <1>4, <1>5, <1>6 DEF StopStep

LEMMA OrphanWorld ==
  ASSUME FindsItsCores, StopInv, IInv', NEW q \in Pid, waitProcess(q) \/ World(q)
  PROVE  OrphanTracked' /\ AskedDown'
  <1> USE DEF StopInv, IInv
  <1>1. asked \subseteq Pid /\ op.seen \subseteq Pid
    BY DEF TypeOK, Op
  <1>2. CASE ExitVerdict(q)
    BY <1>2 DEF ExitVerdict, OrphanTracked, AskedDown
  <1>3. CASE BeginAutoRestart(q)
    BY <1>3 DEF BeginAutoRestart, NoOp, OrphanTracked, AskedDown, TypeOK, Op
  <1>4. CASE WaitReturns(q) \/ Exit(q)
    <2>1. \A p \in Pid : p # q => proc'[p] = proc[p]
      BY <1>4 DEF WaitReturns, Exit, TypeOK
    <2>2. /\ proc'[q].child = proc[q].child /\ proc'[q].test = proc[q].test
          /\ proc'[q].st \in {"zombie", "gone"}
      <3>1. proc[q] \in Proc /\ proc \in [Pid -> Proc]
        BY DEF TypeOK
      <3>2. CASE WaitReturns(q)
        BY <3>1, <3>2 DEF WaitReturns, Proc
      <3>3. CASE Exit(q)
        BY <3>1, <3>3 DEF Exit, Proc
      <3> QED BY <1>4, <3>2, <3>3
    <2>3. UNCHANGED <<pm, op, asked>>
      BY <1>4 DEF WaitReturns, Exit
    <2>4. OrphanTracked'
      BY <2>1, <2>2, <2>3 DEF OrphanTracked
    <2>5. AskedDown'
      BY <1>1, <2>1, <2>2, <2>3 DEF AskedDown
    <2> QED BY <2>4, <2>5
  <1>5. CASE Recycle(q)
    <2>1. q \notin op.seen
      BY <1>5 DEF Recycle, Unreferenced
    <2>2. proc'[q].st = "free" /\ \A p \in Pid : p # q => proc'[p] = proc[p]
      BY <1>5 DEF Recycle, TypeOK
    <2>3. pm.pid # q /\ UNCHANGED <<pm, op>> /\ asked' = asked \ {q}
      BY <1>5 DEF Recycle, Unreferenced
    <2>4. OrphanTracked'
      BY <2>2, <2>3 DEF OrphanTracked
    <2>5. AskedDown'
      BY <1>1, <2>1, <2>2, <2>3 DEF AskedDown, TypeOK, PMFields
    <2> QED BY <2>4, <2>5
  <1>6. CASE ExternalStart(q)
    BY <1>6 DEF ExternalStart, FindsItsCores
  <1>7. CASE ValidateConfig(q)
    <2>1. /\ proc[q].st = "free" /\ proc'[q].st = "up" /\ proc'[q].test
          /\ \A p \in Pid : p # q => proc'[p] = proc[p]
          /\ UNCHANGED <<pm, op, asked>>
      BY <1>7 DEF ValidateConfig, TypeOK
    <2>2. OrphanTracked'
      BY <2>1 DEF OrphanTracked
    <2>3. AskedDown'
      BY <1>1, <2>1 DEF AskedDown, TypeOK, PMFields
    <2> QED BY <2>2, <2>3
  <1> QED BY <1>2, <1>3, <1>4, <1>5, <1>6, <1>7 DEF waitProcess, World

LEMMA OrphanPanel ==
  ASSUME StopInv, IInv', PanelRestart
  PROVE  OrphanTracked' /\ AskedDown'
  <1> USE DEF StopInv, IInv
  <1>1. ASSUME NEW p \in Pid
        PROVE  /\ proc'[p].st # proc[p].st => proc'[p].st = "gone"
               /\ proc'[p].st = "up" /\ (proc[p].child \/ proc[p].test) => OrphansSurvive
               /\ proc[p].child \/ proc[p].test \/ proc'[p] = proc[p]
    BY DEF PanelRestart, TypeOK, Proc
  <1>2. /\ pm'.done = NoPid /\ pm'.pid = NoPid
        /\ op'.step = "idle" /\ op'.seen = {} /\ asked' = asked
    BY DEF PanelRestart, FreshPM, NoOp
  <1>3. asked \subseteq Pid
    BY DEF TypeOK
  <1>4. AskedDown'
    BY <1>1, <1>2, <1>3 DEF AskedDown
  <1>5. OrphanTracked'
    BY <1>1, <1>2 DEF OrphanTracked
  <1> QED BY <1>4, <1>5

\* A step of an operation goes on or returns.
LEMMA ReturnKeepsKind ==
  ASSUME StopInv, OpNext
  PROVE  op'.kind \in {op.kind, "none"}
  <1>1. ASSUME NEW b, op' = NoOp(b)
        PROVE  op'.kind = "none"
    BY <1>1 DEF NoOp
  <1>2. ASSUME op' = op \/ (\E s : op' = [op EXCEPT !.step = s])
               \/ (\E s, v : op' = [op EXCEPT !.step = s, !.bin = v])
               \/ (\E s, v : op' = [op EXCEPT !.step = s, !.seen = v])
               \/ (\E s, v : op' = [op EXCEPT !.step = s, !.pid = v])
               \/ (\E s, v, w : op' = [op EXCEPT !.step = s, !.pid = v, !.done = w])
        PROVE  op'.kind = op.kind
    BY <1>2 DEF StopInv, IInv, TypeOK, Op
  <1>3. CASE StartStep
    BY <1>1, <1>2, <1>3 DEF StartStep, StartRefused, StartUnavailable, StartChecked,
       ScanProc, adoptExistingLocked, NothingToAdopt, Spawn, SpawnFails, Publish,
       Settled, ExitedImmediately, Return, Goto
  <1>4. CASE StopStep
    <2>1. CASE StopNotRunning \/ StopObserved \/ StopClear
      BY <1>1, <1>2, <2>1 DEF StopNotRunning, StopObserved, StopClear, Return, Goto
    <2>2. CASE StopSignal
      BY <1>2, <2>2 DEF StopSignal
    <2>3. CASE StopKill
      BY <1>2, <2>3 DEF StopKill, Goto
    <2> QED BY <1>4, <2>1, <2>2, <2>3 DEF StopStep
  <1>5. CASE EntryStep
    BY <1>1, <1>2, <1>5 DEF EntryStep, EntryRunning, RestartEntryStopped,
       QuiesceEntryStopped, ValidateConfigPasses, ValidateConfigFails,
       AutoRestartUnwanted, AutoRestartWanted, Return, Goto
  <1> QED BY <1>3, <1>4, <1>5 DEF OpNext

\* A step of an operation starts no validator and revives none.
LEMMA OpKeepsTests ==
  ASSUME StopInv, OpNext, NEW p \in Pid,
         proc'[p].test, proc'[p].st \in {"up", "term", "kill"}
  PROVE  proc[p].test /\ proc[p].st \in {"up", "term", "kill"}
  <1>1. proc \in [Pid -> Proc] /\ proc[p] \in Proc
    BY DEF StopInv, IInv, TypeOK
  <1>2. CASE adoptExistingLocked
    BY <1>1, <1>2 DEF adoptExistingLocked, Proc
  <1>3. CASE Spawn
    BY <1>1, <1>3 DEF Spawn, Proc
  <1>4. CASE StopSignal
    BY <1>1, <1>4 DEF StopSignal, Proc
  <1>5. CASE StopKill
    BY <1>1, <1>5 DEF StopKill, Proc
  <1>6. CASE UNCHANGED proc
    BY <1>6
  <1> QED BY <1>2, <1>3, <1>4, <1>5, <1>6 DEF OpNext, StartStep, StopStep, EntryStep,
       StartRefused, StartUnavailable, StartChecked, ScanProc, NothingToAdopt,
       SpawnFails, Publish, Settled, ExitedImmediately, StopNotRunning, StopObserved,
       StopClear, EntryRunning, RestartEntryStopped, QuiesceEntryStopped,
       ValidateConfigPasses, ValidateConfigFails, AutoRestartUnwanted, AutoRestartWanted

\* A step of an operation starts no validator, and no operation but an
\* automatic restart begins beside one.
LEMMA TestStep ==
  ASSUME StopInv, IInv', Next
  PROVE  TestAlone'
  <1> USE DEF StopInv, IInv, TestAlone
  <1>1. CASE Request
    <2>1. UNCHANGED proc /\ ~Validating
      BY <1>1 DEF Request, Start, Stop, Restart, quiesce, Begin
    <2> QED BY <2>1 DEF Validating
  <1>2. CASE OpNext
    <2>1. op'.kind \in {op.kind, "none"}
      BY <1>2, ReturnKeepsKind
    <2>2. ASSUME Validating'
          PROVE  Validating
      <3>1. PICK p \in Pid : proc'[p].test /\ proc'[p].st \in {"up", "term", "kill"}
        BY <2>2 DEF Validating
      <3>2. proc[p].test /\ proc[p].st \in {"up", "term", "kill"}
        BY <1>2, <3>1, OpKeepsTests
      <3> QED BY <3>2 DEF Validating
    <2> QED BY <2>1, <2>2
  <1>3. ASSUME NEW q \in Pid, waitProcess(q) \/ World(q)
        PROVE  TestAlone'
    <2>1. CASE ValidateConfig(q)
      BY <2>1 DEF ValidateConfig
    <2>2. CASE BeginAutoRestart(q)
      BY <2>2 DEF BeginAutoRestart, NoOp
    <2>3. CASE WaitReturns(q) \/ ExitVerdict(q) \/ Exit(q) \/ Recycle(q) \/ ExternalStart(q)
      <3>1. op' = op
        BY <2>3 DEF WaitReturns, ExitVerdict, Exit, Recycle, ExternalStart
      <3>2. ASSUME NEW p \in Pid, proc'[p].test, proc'[p].st \in {"up", "term", "kill"}
            PROVE  proc[p].test /\ proc[p].st \in {"up", "term", "kill"}
        <4>1. proc \in [Pid -> Proc] /\ proc[p] \in Proc /\ proc[q] \in Proc
          BY DEF TypeOK
        <4>2. CASE WaitReturns(q)
          BY <3>2, <4>1, <4>2 DEF WaitReturns, Proc
        <4>3. CASE Exit(q)
          BY <3>2, <4>1, <4>3 DEF Exit, Proc
        <4>4. CASE Recycle(q) \/ ExternalStart(q)
          BY <3>2, <4>1, <4>4 DEF Recycle, ExternalStart
        <4>5. CASE ExitVerdict(q)
          BY <3>2, <4>5 DEF ExitVerdict
        <4> QED BY <2>3, <4>2, <4>3, <4>4, <4>5
      <3> QED BY <3>1, <3>2 DEF Validating
    <2> QED BY <1>3, <2>1, <2>2, <2>3 DEF waitProcess, World
  <1>4. CASE PanelRestart
    BY <1>4 DEF PanelRestart, NoOp
  <1>5. CASE \E b \in Binaries : setBinaryPath(b)
    BY <1>5 DEF setBinaryPath, Validating
  <1> QED BY <1>1, <1>2, <1>3, <1>4, <1>5 DEF Next

\* What isRunning denies does not serve: the fields of a dead child cannot hide
\* a core that was taken over.
LEMMA NotRunningIsDown ==
  ASSUME StopInv, ~isRunning, op.step # "publish", pm.pid # NoPid,
         op.kind \notin {"none", "auto"}
  PROVE  proc[pm.pid].st # "up"
  <1> USE DEF StopInv, IInv
  <1> SUFFICES ASSUME proc[pm.pid].st = "up"
               PROVE  FALSE
    OBVIOUS
  <1>1. pm.pid \in Pid
    BY DEF TypeOK, PMFields
  <1>2. CASE proc[pm.pid].child
    BY <1>1, <1>2 DEF AskedDown, Serving, ChildTracked, isRunning, DoneClosed, processAlive
  <1>3. CASE ~proc[pm.pid].child
    <2>1. ~proc[pm.pid].test
      BY <1>1 DEF TestAlone, Validating
    <2> QED BY <1>1, <1>3, <2>1 DEF OrphanTracked, isRunning, DoneClosed, processAlive
  <1> QED BY <1>2, <1>3

\* A call that returns is remembered under its own name.
LEMMA ReturnsOwnKind ==
  ASSUME OpNext
  PROVE  op.kind # "none" /\ (ret' = ret \/ ret'.kind = op.kind)
  <1>1. CASE StartStep
    <2>1. op.kind # "none"
      BY <1>1 DEF StartStep, StartRefused, StartUnavailable, StartChecked, ScanProc,
         adoptExistingLocked, NothingToAdopt, Spawn, SpawnFails, Publish, Settled,
         ExitedImmediately, At
    <2>2. ret' = ret \/ Return(TRUE) \/ Return(FALSE)
      BY <1>1 DEF StartStep, StartRefused, StartUnavailable, StartChecked, ScanProc,
         adoptExistingLocked, NothingToAdopt, Spawn, SpawnFails, Publish, Settled,
         ExitedImmediately
    <2> QED BY <2>1, <2>2 DEF Return
  <1>2. CASE StopStep
    BY <1>2 DEF StopStep, StopNotRunning, StopSignal, StopObserved, StopKill,
       StopClear, Return, At
  <1>3. CASE EntryStep
    BY <1>3 DEF EntryStep, EntryRunning, RestartEntryStopped, QuiesceEntryStopped,
       ValidateConfigPasses, ValidateConfigFails, AutoRestartUnwanted,
       AutoRestartWanted, Return, At
  <1> QED BY <1>1, <1>2, <1>3 DEF OpNext

LEMMA HaltedStep ==
  ASSUME FindsItsCores, StopInv, IInv', Next
  PROVE  HaltedDown'
  <1> USE DEF StopInv, IInv
  <1> SUFFICES ASSUME Halted', pm'.pid # NoPid
               PROVE  proc'[pm'.pid].st # "up"
    BY DEF HaltedDown
  <1>1. CASE Request \/ PanelRestart
    <2>1. ret' = NoRet
      BY <1>1 DEF Request, Start, Stop, Restart, quiesce, Begin, PanelRestart
    <2> QED BY <2>1 DEF NoRet, Halted
  <1>2. CASE op.kind \in {"start", "restart"} /\ OpNext
    <2>1. ret.kind = "none"
      BY <1>2 DEF RetShape, NoRet
    <2> QED BY <1>2, <2>1, ReturnsOwnKind DEF Halted
  <1>3. CASE op.kind \in {"stop", "quiesce"} /\ OpNext
    <2>1. op.step \in {"entry", "stopCheck", "await", "awaitKill", "stopClear"}
      BY <1>3 DEF OpShape
    <2>2. CASE StopNotRunning \/ QuiesceEntryStopped
      <3>1. ~isRunning /\ pm'.pid = pm.pid /\ proc' = proc
        BY <2>2 DEF StopNotRunning, QuiesceEntryStopped, TypeOK, PMFields
      <3> QED BY <1>3, <2>1, <3>1, NotRunningIsDown
    <2>3. CASE StopClear
      BY <2>1, <2>3 DEF StopClear, StopTracked, At, TypeOK, PMFields
    <2>4. CASE StopSignal \/ StopObserved \/ StopKill \/ EntryRunning
      BY <1>3, <2>4 DEF StopSignal, StopObserved, StopKill, EntryRunning, RetShape, NoRet, Halted
    <2> QED BY <1>3, <2>1, <2>2, <2>3, <2>4 DEF OpNext, StartStep, StopStep, EntryStep,
            StartRefused, StartUnavailable, StartChecked, ScanProc,
            adoptExistingLocked, NothingToAdopt, Spawn, SpawnFails, Publish, Settled,
            ExitedImmediately, RestartEntryStopped, ValidateConfigPasses,
            ValidateConfigFails, AutoRestartUnwanted, AutoRestartWanted, At
  <1>4. CASE op.kind = "auto" /\ OpNext
    <2>1. CASE Halted
      <3>1. op.step = "wanted" /\ ~pm.desired
        BY <1>4, <2>1 DEF RetShape, RestartTracked
      <3>2. AutoRestartUnwanted
        BY <1>4, <3>1 DEF OpNext, StartStep, StopStep, EntryStep,
           StartRefused, StartUnavailable, StartChecked, ScanProc,
           adoptExistingLocked, NothingToAdopt, Spawn, SpawnFails, Publish, Settled,
           ExitedImmediately, StopNotRunning, StopSignal, StopObserved, StopKill,
           StopClear, EntryRunning, RestartEntryStopped, QuiesceEntryStopped,
           ValidateConfigPasses, ValidateConfigFails, AutoRestartWanted, Wanted, At
      <3> QED BY <2>1, <3>2 DEF AutoRestartUnwanted, HaltedDown
    <2>2. CASE ~Halted
      BY <1>4, <2>2, ReturnsOwnKind DEF Halted
    <2> QED BY <2>1, <2>2
  <1>5. ASSUME NEW q \in Pid, waitProcess(q) \/ World(q)
        PROVE  proc'[pm'.pid].st # "up"
    <2>1. HaltedDown /\ Halted /\ pm' = pm
      BY <1>5 DEF waitProcess, World, WaitReturns, ExitVerdict, BeginAutoRestart, Exit,
         Recycle, ExternalStart, ValidateConfig, FindsItsCores, Halted
    <2>2. ASSUME NEW p \in Pid, proc'[p].st # proc[p].st, ~ValidateConfig(q)
          PROVE  proc'[p].st # "up"
      <3>1. proc \in [Pid -> Proc] /\ proc[p] \in Proc /\ proc[q] \in Proc
        BY DEF TypeOK
      <3>2. CASE WaitReturns(q) \/ Recycle(q)
        <4>1. p # q => proc'[p] = proc[p]
          BY <3>1, <3>2 DEF WaitReturns, Recycle
        <4>2. proc'[q].st \in {"gone", "free"}
          BY <3>1, <3>2 DEF WaitReturns, Recycle, Proc
        <4> QED BY <2>2, <4>1, <4>2
      <3>3. CASE Exit(q)
        BY <2>2, <3>1, <3>3 DEF Exit, Proc
      <3>4. CASE ExitVerdict(q) \/ BeginAutoRestart(q) \/ ExternalStart(q)
        BY <2>2, <3>4 DEF ExitVerdict, BeginAutoRestart, ExternalStart, FindsItsCores
      <3> QED BY <1>5, <2>2, <3>2, <3>3, <3>4 DEF waitProcess, World
    <2>3. pm.pid \in Pid
      BY <2>1 DEF TypeOK, PMFields
    <2>4. CASE ValidateConfig(q)
      <3>1. pm.pid # q
        BY <2>1, <2>4 DEF ValidateConfig, AskedDown
      <3> QED BY <2>1, <2>3, <2>4, <3>1 DEF ValidateConfig, HaltedDown, TypeOK
    <2> QED BY <2>1, <2>2, <2>3, <2>4 DEF HaltedDown
  <1>6. ASSUME NEW b \in Binaries, setBinaryPath(b)
        PROVE  proc'[pm'.pid].st # "up"
    BY <1>6 DEF setBinaryPath, HaltedDown, Halted, TypeOK, PMFields
  <1>7. op.kind # "none" \/ ~OpNext
    BY ReturnsOwnKind
  <1>8. op.kind \in OpKind
    BY DEF TypeOK, Op
  <1> QED BY <1>1, <1>2, <1>3, <1>4, <1>5, <1>6, <1>7, <1>8 DEF Next, OpKind

LEMMA StopInvInit == Init => StopInv
  <1> SUFFICES ASSUME Init
               PROVE  OrphanTracked /\ AskedDown /\ TestAlone /\ HaltedDown
    BY InitInv DEF StopInv
  <1>1. /\ \A p \in Pid : proc[p].st = "free"
        /\ asked = {} /\ op.seen = {} /\ op.kind = "none" /\ ret = NoRet
        /\ pm.pid = NoPid
    BY DEF Init, NoOp, FreshPM
  <1> QED BY <1>1 DEF OrphanTracked, AskedDown, TestAlone, HaltedDown, Halted, NoRet

LEMMA StopInvStep ==
  ASSUME FindsItsCores, StopInv, [Next]_vars
  PROVE  StopInv'
  <1>1. IInv'
    BY NextInv DEF StopInv
  <1>2. CASE Next
    <2>1. HaltedDown' /\ TestAlone'
      BY <1>1, <1>2, HaltedStep, TestStep DEF StopInv
    <2>2. CASE OpNext \/ Request \/ PanelRestart
      BY <1>1, <2>1, <2>2, OrphanStart, OrphanStop, OrphanPanel DEF OpNext, StopInv
    <2>3. CASE \E p \in Pid : waitProcess(p) \/ World(p)
      BY <1>1, <2>1, <2>3, OrphanWorld DEF StopInv
    <2>4. CASE \E b \in Binaries : setBinaryPath(b)
      <3>1. /\ UNCHANGED <<proc, op, asked>>
            /\ pm'.done = pm.done /\ pm'.pid = pm.pid
        BY <2>4 DEF setBinaryPath, StopInv, IInv, TypeOK, PMFields
      <3> QED BY <1>1, <2>1, <3>1 DEF OrphanTracked, AskedDown, StopInv
    <2> QED BY <1>2, <2>2, <2>3, <2>4 DEF Next
  <1>3. CASE UNCHANGED vars
    BY <1>1, <1>3 DEF vars, StopInv, OrphanTracked, AskedDown, TestAlone, Validating,
       HaltedDown, Halted
  <1> QED BY <1>2, <1>3

\* Where only the panel starts cores and finds those that outlived it, nothing
\* that it took over serves after a Stop either.
THEOREM StopIsFinalHolds ==
  ASSUME FindsItsCores
  PROVE  Spec => []StopIsFinal
  <1>1. Init => StopInv
    BY StopInvInit
  <1>2. StopInv /\ [Next]_vars => StopInv'
    BY StopInvStep
  <1>3. StopInv => StopIsFinal
    BY DEF StopInv, IInv, RetShape, OpShape, ChildTracked, HaltedDown, StopIsFinal,
       Serving, Halted
  <1> QED BY <1>1, <1>2, <1>3, PTL DEF Spec

-----------------------------------------------------------------------------
(* The supervisor implements CoreLifecycle *)

\* A step that leaves who serves and the wish alone, and does not change hands
\* between an administrator and the supervisor, stutters or hands over.
LEMMA HandOver ==
  ASSUME \A p \in Pid : Serving(p)' = Serving(p),
         pm'.desired = pm.desired
  PROVE  [Lifecycle!Next]_(Lifecycle!vars)
  <1>1. {p \in Pid : Serving(p)}' = {p \in Pid : Serving(p)}
    OBVIOUS
  <1>2. (op.kind = "auto")' = (op.kind = "auto")
        \/ (op.kind = "auto")' = ~(op.kind = "auto")
    OBVIOUS
  <1> QED BY <1>1, <1>2 DEF Lifecycle!Next, Lifecycle!vars, Lifecycle!Supervise

\* A step after which nothing serves and no core is wanted withdraws.
LEMMA Withdraws ==
  ASSUME \A p \in Pid : ~Serving(p)', pm'.desired = FALSE,
         op'.kind = op.kind \/ op'.kind = "none"
  PROVE  [Lifecycle!Next]_(Lifecycle!vars)
  <1>1. {p \in Pid : Serving(p)}' = {}
    OBVIOUS
  <1>2. (op.kind = "auto")' \in {op.kind = "auto", FALSE}
    OBVIOUS
  <1> QED BY <1>1, <1>2 DEF Lifecycle!Next, Lifecycle!Withdraw

\* While the fields describe no running core, nothing serves, except between
\* the spawn and the publication of one start().
LEMMA NothingServes ==
  ASSUME IInv, ~isRunning, op.step # "publish"
  PROVE  \A p \in Pid : ~Serving(p)
  BY DEF IInv, ChildTracked, Serving, isRunning, DoneClosed, processAlive

LEMMA StartRefines ==
  ASSUME IInv, TypeOK', StartStep
  PROVE  [Lifecycle!Next]_(Lifecycle!vars)
  <1> USE DEF IInv
  <1>1. CASE StartRefused \/ StartUnavailable \/ StartChecked \/ ScanProc
             \/ NothingToAdopt \/ SpawnFails \/ Settled
    BY <1>1, HandOver DEF StartRefused, StartUnavailable, StartChecked, ScanProc,
       NothingToAdopt, SpawnFails, Settled, Serving
  <1>2. CASE adoptExistingLocked
    <2>1. \A p \in Pid : ~Serving(p)
      BY <1>2, NothingServes DEF adoptExistingLocked
    <2>2. \A p \in Pid : ~Serving(p)'
      <3>1. SUFFICES ASSUME NEW p \in Pid
                     PROVE  ~Serving(p)'
        OBVIOUS
      <3>2. asked \subseteq asked'
        BY <1>2 DEF adoptExistingLocked
      <3>3. proc'[p] = IF p \in op.seen \ {pm'.pid} /\ proc[p].st = "up"
                       THEN [proc[p] EXCEPT !.st = "term"] ELSE proc[p]
        BY <1>2 DEF adoptExistingLocked
      <3>4. proc[p] \in Proc
        OBVIOUS
      <3>5. CASE p \in op.seen \ {pm'.pid} /\ proc[p].st = "up"
        <4>1. proc'[p].st = "term"
          BY <3>3, <3>4, <3>5 DEF Proc
        <4> QED BY <4>1 DEF Serving
      <3>6. CASE ~(p \in op.seen \ {pm'.pid} /\ proc[p].st = "up")
        BY <2>1, <3>2, <3>3, <3>6 DEF Serving
      <3> QED BY <3>5, <3>6
    <2>3. pm'.desired = TRUE
      BY <1>2 DEF adoptExistingLocked
    <2>4. op'.kind = "none"
      BY <1>2 DEF adoptExistingLocked, Return, NoOp
    <2>5. op.kind = "auto" => pm.desired
      BY <1>2 DEF adoptExistingLocked, RestartTracked
    <2>6. {p \in Pid : Serving(p)}' = {p \in Pid : Serving(p)}
      BY <2>1, <2>2
    <2> QED BY <2>3, <2>4, <2>5, <2>6 DEF Lifecycle!Next, Lifecycle!Want
  <1>3. CASE Spawn
    <2>1. PICK q \in Pid :
            /\ proc' = [proc EXCEPT ![q] = Process("up", TRUE, FALSE, op.bin)]
            /\ op' = [op EXCEPT !.step = "publish", !.pid = q]
      BY <1>3 DEF Spawn
    <2>2. \A p \in Pid : ~Serving(p)
      BY <1>3 DEF Spawn, ChildTracked
    <2>3. \A p \in Pid : p # q => ~Serving(p)'
      BY <1>3, <2>1, <2>2 DEF Spawn, Serving
    <2>4. op.kind = "auto" => pm.desired
      BY <1>3 DEF Spawn, RestartTracked
    <2>5. op'.kind = op.kind /\ pm' = pm
      BY <1>3, <2>1 DEF Spawn
    <2>6. CASE Serving(q)'
      <3>1. {p \in Pid : Serving(p)} = {} /\ {p \in Pid : Serving(p)}' = {q}
        BY <2>2, <2>3, <2>6
      <3> QED BY <2>4, <2>5, <3>1 DEF Lifecycle!Next, Lifecycle!Launch
    <2>7. CASE ~Serving(q)'
      <3>1. \A p \in Pid : ~Serving(p)'
        BY <2>3, <2>7
      <3>2. \A p \in Pid : Serving(p)' = Serving(p)
        BY <2>2, <3>1 DEF Serving
      <3> QED BY <2>5, <3>2, HandOver
    <2> QED BY <2>6, <2>7
  <1>4. CASE Publish
    <2>1. {p \in Pid : Serving(p)}' = {p \in Pid : Serving(p)}
      BY <1>4 DEF Publish, Serving
    <2>2. pm'.desired = TRUE /\ op'.kind = op.kind
      BY <1>4 DEF Publish, Goto
    <2>3. op.kind = "auto" => pm.desired
      BY <1>4 DEF Publish, RestartTracked
    <2> QED BY <2>1, <2>2, <2>3 DEF Lifecycle!Next, Lifecycle!Want
  <1>5. CASE ExitedImmediately
    <2>1. pm.cmd = op.pid /\ pm'.desired = FALSE /\ op'.kind = "none"
      BY <1>5 DEF ExitedImmediately, ChildTracked, Return, NoOp
    <2>2. \A p \in Pid : ~Serving(p)'
      BY <1>5 DEF ExitedImmediately, ChildTracked, Serving, DoneClosed
    <2> QED BY <2>1, <2>2, Withdraws
  <1> QED BY <1>1, <1>2, <1>3, <1>4, <1>5 DEF StartStep

LEMMA StopRefines ==
  ASSUME IInv, TypeOK', StopStep
  PROVE  [Lifecycle!Next]_(Lifecycle!vars)
  <1> USE DEF IInv
  <1>1. CASE StopNotRunning
    <2>1. \A p \in Pid : ~Serving(p)'
      BY <1>1, NothingServes DEF StopNotRunning, Serving
    <2>2. pm'.desired = FALSE /\ op'.kind = "none"
      BY <1>1 DEF StopNotRunning, Return, NoOp
    <2> QED BY <2>1, <2>2, Withdraws
  <1>2. CASE StopSignal
    <2>1. pm.pid \in Pid
      BY <1>2 DEF StopSignal, isRunning
    <2>2. \A p \in Pid : Serving(p) => p = pm.pid
      BY <1>2 DEF StopSignal, ChildTracked
    <2>3. \A p \in Pid : p # pm.pid => proc'[p] = proc[p]
      BY <1>2, <2>1 DEF StopSignal
    <2>4. \A p \in Pid : ~Serving(p)'
      BY <1>2, <2>2, <2>3 DEF StopSignal, Serving
    <2>5. pm'.desired = FALSE /\ op'.kind = op.kind
      BY <1>2 DEF StopSignal
    <2> QED BY <2>4, <2>5, Withdraws
  <1>3. CASE StopObserved
    BY <1>3, HandOver DEF StopObserved, Goto, Serving
  <1>4. CASE StopKill
    <2>1. op.pid \in asked
      BY <1>4 DEF StopKill, StopTracked
    <2>2. \A p \in Pid : p # op.pid => proc'[p] = proc[p]
      BY <1>4 DEF StopKill
    <2>3. \A p \in Pid : Serving(p)' = Serving(p)
      BY <1>4, <2>1, <2>2 DEF StopKill, Serving
    <2> QED BY <1>4, <2>3, HandOver DEF StopKill
  <1>5. CASE StopClear
    <2>1. pm'.desired = pm.desired
      BY <1>5 DEF StopClear
    <2> QED BY <1>5, <2>1, HandOver DEF StopClear, Serving
  <1> QED BY <1>1, <1>2, <1>3, <1>4, <1>5 DEF StopStep

LEMMA EntryRefines ==
  ASSUME IInv, TypeOK', EntryStep
  PROVE  [Lifecycle!Next]_(Lifecycle!vars)
  <1> USE DEF IInv
  <1>1. CASE QuiesceEntryStopped
    <2>1. \A p \in Pid : ~Serving(p)'
      BY <1>1, NothingServes DEF QuiesceEntryStopped, Serving
    <2>2. pm'.desired = FALSE /\ op'.kind = "none"
      BY <1>1 DEF QuiesceEntryStopped, Return, NoOp
    <2> QED BY <2>1, <2>2, Withdraws
  <1>2. CASE ~QuiesceEntryStopped
    BY <1>2, HandOver DEF EntryStep, EntryRunning, RestartEntryStopped,
       ValidateConfigPasses, ValidateConfigFails, AutoRestartUnwanted,
       AutoRestartWanted, Serving
  <1> QED BY <1>1, <1>2

LEMMA WorldRefines ==
  ASSUME IInv, TypeOK', NEW p \in Pid, waitProcess(p) \/ World(p)
  PROVE  [Lifecycle!Next]_(Lifecycle!vars)
  <1> USE DEF IInv
  <1>1. CASE ExitVerdict(p) \/ BeginAutoRestart(p)
    BY <1>1, HandOver DEF ExitVerdict, BeginAutoRestart, Serving
  <1>2. CASE WaitReturns(p)
    <2>1. \A q \in Pid : q # p => proc'[q] = proc[q]
      BY <1>2 DEF WaitReturns
    <2>2. proc[p] \in Proc /\ proc'[p] = [proc[p] EXCEPT !.st = "gone"]
      BY <1>2 DEF WaitReturns
    <2>3. \A q \in Pid : Serving(q)' = Serving(q)
      BY <1>2, <2>1, <2>2 DEF WaitReturns, Serving, Proc
    <2> QED BY <1>2, <2>3, HandOver DEF WaitReturns
  <1>3. CASE Exit(p)
    <2>1. \A q \in Pid : q # p => proc'[q] = proc[q]
      BY <1>3 DEF Exit
    <2>2. proc'[p].st \in {"zombie", "gone"}
      BY <1>3 DEF Exit, Proc
    <2>3. {q \in Pid : Serving(q)}' = {q \in Pid : Serving(q)} \ {p}
      BY <1>3, <2>1, <2>2 DEF Exit, Serving
    <2> QED BY <1>3, <2>3 DEF Exit, Lifecycle!Next, Lifecycle!Exit
  <1>4. CASE Recycle(p)
    <2>1. \A q \in Pid : q # p => proc'[q] = proc[q]
      BY <1>4 DEF Recycle
    <2>2. proc'[p].st = "free" /\ proc[p].st = "gone"
      BY <1>4 DEF Recycle
    <2>3. \A q \in Pid : Serving(q)' = Serving(q)
      BY <1>4, <2>1, <2>2 DEF Recycle, Serving
    <2> QED BY <1>4, <2>3, HandOver DEF Recycle
  <1>5. CASE ExternalStart(p)
    <2>1. \A q \in Pid : q # p => proc'[q] = proc[q]
      BY <1>5 DEF ExternalStart
    <2>2. proc'[p].child = FALSE /\ proc[p].st = "free"
      BY <1>5 DEF ExternalStart
    <2>3. \A q \in Pid : Serving(q)' = Serving(q)
      BY <1>5, <2>1, <2>2 DEF ExternalStart, Serving
    <2> QED BY <1>5, <2>3, HandOver DEF ExternalStart
  <1>6. CASE ValidateConfig(p)
    <2>1. \A q \in Pid : q # p => proc'[q] = proc[q]
      BY <1>6 DEF ValidateConfig
    <2>2. proc'[p].child = FALSE /\ proc[p].st = "free"
      BY <1>6 DEF ValidateConfig
    <2>3. \A q \in Pid : Serving(q)' = Serving(q)
      BY <1>6, <2>1, <2>2 DEF ValidateConfig, Serving
    <2> QED BY <1>6, <2>3, HandOver DEF ValidateConfig
  <1> QED BY <1>1, <1>2, <1>3, <1>4, <1>5, <1>6 DEF waitProcess, World

LEMMA PanelRestartRefines ==
  ASSUME IInv, TypeOK', PanelRestart
  PROVE  [Lifecycle!Next]_(Lifecycle!vars)
  <1>1. \A p \in Pid : ~Serving(p)'
    <2> SUFFICES ASSUME NEW p \in Pid
                 PROVE  ~Serving(p)'
      OBVIOUS
    <2>1. proc[p] \in Proc
      BY DEF IInv
    <2>2. proc'[p].child = FALSE
      BY <2>1 DEF PanelRestart, Proc
    <2> QED BY <2>2 DEF Serving
  <1>2. pm'.desired = FALSE /\ op'.kind = "none"
    BY DEF PanelRestart, FreshPM, NoOp
  <1> QED BY <1>1, <1>2, Withdraws

LEMMA StepRefines ==
  ASSUME IInv, [Next]_vars
  PROVE  [Lifecycle!Next]_(Lifecycle!vars)
  <1>1. TypeOK'
    BY TypeNext DEF IInv
  <1>2. CASE Request \/ (\E b \in Binaries : setBinaryPath(b)) \/ UNCHANGED vars
    <2>1. pm'.desired = pm.desired /\ UNCHANGED <<proc, asked>>
      BY <1>2 DEF IInv, Request, Start, Stop, Restart, quiesce, Begin,
         setBinaryPath, vars
    <2> QED BY <2>1, HandOver DEF Serving
  <1>3. CASE \E p \in Pid : waitProcess(p) \/ World(p)
    BY <1>1, <1>3, WorldRefines
  <1> QED BY <1>1, <1>2, <1>3, StartRefines, StopRefines, EntryRefines,
          PanelRestartRefines DEF Next, OpNext

\* Every behaviour of the lock-by-lock supervisor is one of the abstract
\* lifecycle: at most one core, launched by the supervisor only while wanted,
\* none left serving when the wish is withdrawn.
THEOREM Implementation == Spec => ImplementsLifecycle
  <1>1. Init => Lifecycle!Init
    <2> SUFFICES ASSUME Init
                 PROVE  Lifecycle!Init
      OBVIOUS
    <2>1. pm.desired = FALSE /\ op.kind = "none" /\ \A p \in Pid : ~Serving(p)
      BY DEF Init, FreshPM, NoOp, Serving
    <2> QED BY <2>1 DEF Lifecycle!Init
  <1>2. IInv /\ [Next]_vars => [Lifecycle!Next]_(Lifecycle!vars)
    BY StepRefines
  <1> QED BY <1>1, <1>2, Invariance, PTL DEF Spec, ImplementsLifecycle, Lifecycle!Spec

-----------------------------------------------------------------------------
(* What a finished stop leaves, whatever the constants *)

\* Only start() makes a child serve.
LEMMA OnlySpawnServes ==
  ASSUME IInv, Next, ~Spawn, NEW p \in Pid, Serving(p)'
  PROVE  Serving(p)
  <1>1. proc \in [Pid -> Proc] /\ proc[p] \in Proc
    BY DEF IInv, TypeOK
  <1> USE DEF IInv, Serving
  <1>2. CASE Request \/ \E b \in Binaries : setBinaryPath(b)
    BY <1>2 DEF Request, Start, Stop, Restart, quiesce, Begin, setBinaryPath
  <1>3. CASE StartStep
    <2>1. asked \subseteq asked'
      BY <1>3 DEF StartStep, StartRefused, StartUnavailable, StartChecked, ScanProc,
         adoptExistingLocked, NothingToAdopt, Spawn, SpawnFails, Publish, Settled,
         ExitedImmediately
    <2>2. CASE adoptExistingLocked
      BY <1>1, <2>1, <2>2 DEF adoptExistingLocked, Proc
    <2>3. CASE ~adoptExistingLocked
      BY <1>3, <2>3 DEF StartStep, StartRefused, StartUnavailable, StartChecked,
         ScanProc, NothingToAdopt, SpawnFails, Publish, Settled, ExitedImmediately
    <2> QED BY <2>2, <2>3
  <1>4. CASE StopSignal
    BY <1>1, <1>4 DEF StopSignal, Proc
  <1>5. CASE StopKill
    BY <1>1, <1>5 DEF StopKill, Proc
  <1>6. CASE (StopStep /\ ~StopSignal /\ ~StopKill) \/ EntryStep
    BY <1>6 DEF StopStep, StopNotRunning, StopObserved, StopClear, EntryStep,
       EntryRunning, RestartEntryStopped, QuiesceEntryStopped, ValidateConfigPasses,
       ValidateConfigFails, AutoRestartUnwanted, AutoRestartWanted
  <1>7. ASSUME NEW q \in Pid, waitProcess(q) \/ World(q)
        PROVE  Serving(p)
    <2>1. CASE p # q
      <3>1. proc'[p] = proc[p]
        BY <1>1, <1>7, <2>1 DEF waitProcess, World, WaitReturns, ExitVerdict,
           BeginAutoRestart, Exit, Recycle, ExternalStart, ValidateConfig
      <3>2. asked' = asked \/ asked' = asked \ {q}
        BY <1>7 DEF waitProcess, World, WaitReturns, ExitVerdict, BeginAutoRestart,
           Exit, Recycle, ExternalStart, ValidateConfig
      <3> QED BY <2>1, <3>1, <3>2
    <2>2. CASE p = q
      <3>1. CASE WaitReturns(p) \/ Recycle(p)
        BY <1>1, <3>1 DEF WaitReturns, Recycle, Proc
      <3>2. CASE Exit(p)
        BY <1>1, <3>2 DEF Exit, Proc
      <3>3. CASE ExternalStart(p) \/ ValidateConfig(p)
        BY <1>1, <3>3 DEF ExternalStart, ValidateConfig, Proc
      <3>4. CASE ExitVerdict(p) \/ BeginAutoRestart(p)
        BY <3>4 DEF ExitVerdict, BeginAutoRestart
      <3> QED BY <1>7, <2>2, <3>1, <3>2, <3>3, <3>4 DEF waitProcess, World
    <2> QED BY <2>1, <2>2
  <1>8. CASE PanelRestart
    BY <1>1, <1>8 DEF PanelRestart, Proc
  <1> QED BY <1>2, <1>3, <1>4, <1>5, <1>6, <1>7, <1>8 DEF Next, OpNext

\* A serving child is wanted, from the moment its start() publishes it.
ServesOnDemand == \A p \in Pid : Serving(p) => pm.desired \/ op.step = "publish"

LEMMA ServesOnDemandStep ==
  ASSUME IInv, ServesOnDemand, [Next]_vars
  PROVE  ServesOnDemand'
  <1>1. [Lifecycle!Next]_(Lifecycle!vars)
    BY StepRefines
  <1>2. CASE Spawn
    BY <1>2 DEF Spawn, ServesOnDemand, IInv, TypeOK, Op
  <1>3. CASE UNCHANGED vars
    BY <1>3 DEF vars, ServesOnDemand, Serving
  <1>4. CASE Next /\ ~Spawn
    <2> SUFFICES ASSUME NEW p \in Pid, Serving(p)'
                 PROVE  pm'.desired \/ op'.step = "publish"
      BY DEF ServesOnDemand
    <2>1. Serving(p)
      BY <1>4, OnlySpawnServes
    <2>2. p \in {q \in Pid : Serving(q)} /\ p \in {q \in Pid : Serving(q)}'
      BY <2>1
    <2>3. pm.desired => pm'.desired
      BY <1>1, <2>2 DEF Lifecycle!Next, Lifecycle!vars, Lifecycle!Launch, Lifecycle!Exit,
         Lifecycle!Want, Lifecycle!Withdraw, Lifecycle!Supervise, Lifecycle!PanelRestart
    <2>4. CASE op.step = "publish"
      <3>1. CASE Publish
        BY <3>1 DEF Publish, IInv, TypeOK, PMFields
      <3>2. CASE OpNext /\ ~Publish
        BY <1>4, <2>4, <3>2 DEF OpNext, StartStep, StopStep, EntryStep, StartRefused,
           StartUnavailable, StartChecked, ScanProc, adoptExistingLocked,
           NothingToAdopt, SpawnFails, Settled, ExitedImmediately, StopNotRunning,
           StopSignal, StopObserved, StopKill, StopClear, EntryRunning,
           RestartEntryStopped, QuiesceEntryStopped, ValidateConfigPasses,
           ValidateConfigFails, AutoRestartUnwanted, AutoRestartWanted, At
      <3>3. CASE Request
        BY <2>4, <3>3 DEF Request, Start, Stop, Restart, quiesce, Begin, IInv, OpShape
      <3>4. CASE \E q \in Pid : waitProcess(q) \/ World(q)
        BY <2>4, <3>4 DEF waitProcess, World, WaitReturns, ExitVerdict,
           BeginAutoRestart, Exit, Recycle, ExternalStart, ValidateConfig, IInv, OpShape
      <3>5. CASE \E b \in Binaries : setBinaryPath(b)
        BY <2>4, <3>5 DEF setBinaryPath
      <3>6. CASE PanelRestart
        BY <3>6 DEF PanelRestart, Serving, IInv, TypeOK, Proc
      <3> QED BY <1>4, <3>1, <3>2, <3>3, <3>4, <3>5, <3>6 DEF Next
    <2> QED BY <2>1, <2>3, <2>4 DEF ServesOnDemand
  <1> QED BY <1>2, <1>3, <1>4

\* Whatever the executables, and whoever starts cores outside: once a Stop or a
\* quiesce has returned, no child of the panel serves until somebody starts one.
THEOREM StopEndsChildren ==
  Spec => [](Halted /\ op.kind = "none" => \A p \in Pid : ~Serving(p))
  <1>1. Init => ServesOnDemand
    BY DEF Init, ServesOnDemand, Serving
  <1>2. IInv /\ ServesOnDemand /\ [Next]_vars => ServesOnDemand'
    BY ServesOnDemandStep
  <1>3. IInv /\ ServesOnDemand =>
          (Halted /\ op.kind = "none" => \A p \in Pid : ~Serving(p))
    BY DEF IInv, RetShape, OpShape, ServesOnDemand
  <1> QED BY <1>1, <1>2, <1>3, Invariance, PTL DEF Spec
=============================================================================
