--------------------------- MODULE ProcessManager ---------------------------
(***************************************************************************)
(* The Mihomo process supervisor (backend/internal/mihomo/process.go).     *)
(*                                                                         *)
(* Two mutexes order everything.  lifecycleMu serialises Start, Stop,      *)
(* Restart, quiesce and the restart a crashed process schedules for        *)
(* itself: "op" is the operation that holds it, at the step it has         *)
(* reached.  pm.mu is released between those steps, so a process may die,  *)
(* its waiter may run and an outside process may appear between any two.   *)
(*                                                                         *)
(* A process is a pid.  The *exec.Cmd, the done channel and the pid of a   *)
(* child are one identity here: pm.cmd, pm.done and pm.pid hold the pid    *)
(* they came from, and a done channel is closed exactly when its process   *)
(* has been reaped ("gone").  A pid is handed out again (Recycle) only     *)
(* when nothing in the panel refers to it any more.                        *)
(*                                                                         *)
(* Log lines, start times, Status, GetVersion and Logs change none of the  *)
(* state kept here and are left out.                                       *)
(***************************************************************************)
EXTENDS Naturals

CONSTANTS
    MaxPid,         \* bound: process identities 1..MaxPid in use at a time
    Binaries,       \* executable paths setBinaryPath may select
    ManualStart,    \* an administrator may start a core outside the panel
    PanelRestarts,  \* the panel itself may die and come back
    OrphansSurvive  \* children outlive a dying panel (no KillMode=control-group)

ASSUME ProcessManagerAssumption ==
    /\ MaxPid \in Nat \ {0}
    /\ Binaries # {}
    /\ ManualStart \in BOOLEAN
    /\ PanelRestarts \in BOOLEAN
    /\ OrphansSurvive \in BOOLEAN

VARIABLES
    pm,      \* the ProcessManager fields
    proc,    \* the operating system's processes
    waiter,  \* waiter[p]: the waitProcess goroutine of child p
    op,      \* the operation holding lifecycleMu
    ret,     \* what the last finished call returned to its caller
    asked    \* history: processes the panel has asked to exit

vars == <<pm, proc, waiter, op, ret, asked>>

Pid == 1..MaxPid
NoPid == 0

ProcState == {"free", "up", "term", "kill", "zombie", "gone"}
WaiterState == {"none", "waiting", "reaped", "sleeping", "reviving", "gaveup"}
OpKind == {"none", "start", "stop", "restart", "quiesce", "auto"}
OpStep == {"idle", "entry", "wanted", "validate", "check", "scan", "decide",
           "spawn", "publish", "settle", "stopCheck", "await", "awaitKill",
           "stopClear"}

\* child: waitProcess reaps it; test: a "mihomo -t" run of ValidateConfig.
Process(st, child, test, b) ==
    [st |-> st, child |-> child, test |-> test, bin |-> b, err |-> FALSE]

NoOp(b) == [kind |-> "none", step |-> "idle", by |-> NoPid, pid |-> NoPid,
            done |-> NoPid, seen |-> {}, bin |-> b]
NoRet == [kind |-> "none", ok |-> TRUE]
\* Wrong on purpose: the constructor forgets the executable.
FreshPM_NoBinary(b) == [pid |-> NoPid, cmd |-> NoPid, done |-> NoPid,
                        desired |-> FALSE, external |-> FALSE, bin |-> NoPid]

FreshPM(b) == [pid |-> NoPid, cmd |-> NoPid, done |-> NoPid,
               desired |-> FALSE, external |-> FALSE, bin |-> b]

(***************************************************************************)
(* Reading the state                                                       *)
(***************************************************************************)

\* Signal 0 succeeds on anything the kernel still lists, a zombie included.
processAlive(p) ==
    p # NoPid /\ proc[p].st \in {"up", "term", "kill", "zombie"}

DoneClosed(d) == d # NoPid /\ proc[d].st = "gone"

isRunning == pm.pid # NoPid /\ ~DoneClosed(pm.done) /\ processAlive(pm.pid)

\* The /proc scan compares the executable, -d and -f: it finds the panel's
\* own validators too, and no zombie, whose exe cannot be read.
findExistingProcesses ==
    {p \in Pid : proc[p].st \in {"up", "term", "kill"} /\ proc[p].bin = pm.bin}

\* A validator that another goroutine started under applyMu is running.
Validating == \E p \in Pid : proc[p].test /\ proc[p].st \in {"up", "term", "kill"}

Unreferenced(p) ==
    /\ p \notin {pm.pid, pm.cmd, pm.done, op.by, op.pid, op.done} \cup op.seen
    /\ waiter[p] \in {"none", "gaveup"}

Init ==
    \E b \in Binaries :
        /\ pm = FreshPM(b)
        /\ proc = [p \in Pid |-> Process("free", FALSE, FALSE, b)]
        /\ waiter = [p \in Pid |-> "none"]
        /\ op = NoOp(b)
        /\ ret = NoRet
        /\ asked = {}

(***************************************************************************)
(* Entering and leaving lifecycleMu                                        *)
(***************************************************************************)

At(step) == op.kind # "none" /\ op.step = step
Goto(step) == op' = [op EXCEPT !.step = step]

\* Every caller of Start, Stop, Restart and quiesce holds applyMu, and so does
\* whoever runs a validator.
Begin(kind, step) ==
    /\ op.kind = "none"
    /\ ~Validating
    /\ op' = [NoOp(pm.bin) EXCEPT !.kind = kind, !.step = step]
    /\ ret' = NoRet
    /\ UNCHANGED <<pm, proc, waiter, asked>>

Start == Begin("start", "check")
Stop == Begin("stop", "stopCheck")
Restart == Begin("restart", "entry")
quiesce == Begin("quiesce", "entry")

\* The operation releases lifecycleMu.  A waitProcess goroutine that comes
\* back without a running process is not scheduled again.
Return(ok) ==
    /\ op' = NoOp(pm.bin)
    /\ IF op.kind = "auto"
       THEN /\ waiter' = [waiter EXCEPT ![op.by] = IF ok THEN "none" ELSE "gaveup"]
            /\ UNCHANGED ret
       ELSE /\ ret' = [kind |-> op.kind, ok |-> ok]
            /\ UNCHANGED waiter

(***************************************************************************)
(* start(): shared by Start, Restart and the automatic restart             *)
(***************************************************************************)

\* "mihomo is already running": both before the scan and after it.
StartRefused ==
    /\ At("check") \/ At("decide")
    /\ isRunning
    /\ Return(FALSE)
    /\ UNCHANGED <<pm, proc, asked>>

\* The binary or the configuration file cannot be used.
StartUnavailable ==
    /\ At("check")
    /\ ~isRunning
    /\ Return(FALSE)
    /\ UNCHANGED <<pm, proc, asked>>

StartChecked ==
    /\ At("check")
    /\ ~isRunning
    /\ op' = [op EXCEPT !.step = "scan", !.bin = pm.bin]
    /\ UNCHANGED <<pm, proc, waiter, ret, asked>>

\* The scan reads pm.binaryPath again and runs without pm.mu.
ScanProc ==
    /\ At("scan")
    /\ op' = [op EXCEPT !.step = "decide", !.seen = findExistingProcesses]
    /\ UNCHANGED <<pm, proc, waiter, ret, asked>>

\* Keep the lowest pid, terminate the others.  cmd and done stay as they are.
adoptExistingLocked ==
    /\ At("decide")
    /\ ~isRunning
    /\ \E keep \in op.seen :
          /\ \A p \in op.seen : keep <= p
          /\ pm' = [pm EXCEPT !.pid = keep, !.desired = TRUE, !.external = TRUE]
          /\ proc' = [p \in Pid |->
                        IF p \in op.seen \ {keep} /\ proc[p].st = "up"
                        THEN [proc[p] EXCEPT !.st = "term"] ELSE proc[p]]
          /\ asked' = asked \cup (op.seen \ {keep})
    /\ Return(TRUE)

NothingToAdopt ==
    /\ At("decide")
    /\ ~isRunning
    /\ op.seen = {}
    /\ Goto("spawn")
    /\ UNCHANGED <<pm, proc, waiter, ret, asked>>

\* Wrong on purpose: the process is launched before isRunning is asked.
Spawn_Unchecked ==
    /\ At("check")
    /\ \E p \in Pid :
          /\ proc[p].st = "free"
          /\ proc' = [proc EXCEPT ![p] = Process("up", TRUE, FALSE, op.bin)]
          /\ op' = [op EXCEPT !.step = "publish", !.pid = p]
    /\ UNCHANGED <<pm, waiter, ret, asked>>

Spawn ==
    /\ At("spawn")
    /\ \E p \in Pid :
          /\ proc[p].st = "free"
          /\ proc' = [proc EXCEPT ![p] = Process("up", TRUE, FALSE, op.bin)]
          /\ op' = [op EXCEPT !.step = "publish", !.pid = p]
    /\ UNCHANGED <<pm, waiter, ret, asked>>

SpawnFails ==
    /\ At("spawn")
    /\ Return(FALSE)
    /\ UNCHANGED <<pm, proc, asked>>

\* The fields are set under pm.mu, then the waiter is launched.
Publish ==
    /\ At("publish")
    /\ pm' = [pm EXCEPT !.pid = op.pid, !.cmd = op.pid, !.done = op.pid,
                        !.desired = TRUE, !.external = FALSE]
    /\ waiter' = [waiter EXCEPT ![op.pid] = "waiting"]
    /\ Goto("settle")
    /\ UNCHANGED <<proc, ret, asked>>

\* 500 ms without an exit: the start succeeded.
Settled ==
    /\ At("settle")
    /\ Return(TRUE)
    /\ UNCHANGED <<pm, proc, asked>>

\* Wrong on purpose: the 500 ms timer is taken for an exit.
ExitedImmediately_OnTimer ==
    /\ At("settle")
    /\ pm' = IF pm.cmd = op.pid
             THEN [pm EXCEPT !.pid = NoPid, !.cmd = NoPid, !.done = NoPid,
                             !.desired = FALSE]
             ELSE pm
    /\ Return(FALSE)
    /\ UNCHANGED <<proc, asked>>

\* "mihomo exited immediately": the restart loop is switched off too.
ExitedImmediately ==
    /\ At("settle")
    /\ DoneClosed(op.pid)
    /\ pm' = IF pm.cmd = op.pid
             THEN [pm EXCEPT !.pid = NoPid, !.cmd = NoPid, !.done = NoPid,
                             !.desired = FALSE]
             ELSE pm
    /\ Return(FALSE)
    /\ UNCHANGED <<proc, asked>>

(***************************************************************************)
(* stop(): shared by Stop, Restart and quiesce                             *)
(***************************************************************************)

\* Wrong on purpose: Stop of a core that is down keeps desired.
StopNotRunning_KeepsDesired ==
    /\ At("stopCheck")
    /\ ~isRunning
    /\ Return(FALSE)
    /\ UNCHANGED <<pm, proc, asked>>

StopNotRunning ==
    /\ At("stopCheck")
    /\ ~isRunning
    /\ pm' = [pm EXCEPT !.desired = FALSE]
    /\ Return(FALSE)
    /\ UNCHANGED <<proc, asked>>

\* desired is cleared under pm.mu; SIGTERM follows.  A process that dies
\* between the two is one that dies right after the signal.
StopSignal ==
    /\ At("stopCheck")
    /\ isRunning
    /\ pm' = [pm EXCEPT !.desired = FALSE]
    /\ proc' = IF proc[pm.pid].st = "up"
               THEN [proc EXCEPT ![pm.pid].st = "term"] ELSE proc
    /\ asked' = asked \cup {pm.pid}
    /\ op' = [op EXCEPT !.step = "await", !.pid = pm.pid, !.done = pm.done]
    /\ UNCHANGED <<waiter, ret>>

StopFinished == IF op.done # NoPid THEN DoneClosed(op.done)
                                   ELSE ~processAlive(op.pid)

StopObserved ==
    /\ At("await") \/ At("awaitKill")
    /\ StopFinished
    /\ Goto("stopClear")
    /\ UNCHANGED <<pm, proc, waiter, ret, asked>>

\* Five seconds are over.  For a child the exit is still awaited; for an
\* adopted process it is not.
StopKill ==
    /\ At("await")
    /\ processAlive(op.pid)
    /\ proc' = IF proc[op.pid].st \in {"up", "term"}
               THEN [proc EXCEPT ![op.pid].st = "kill"] ELSE proc
    /\ Goto(IF op.done # NoPid THEN "awaitKill" ELSE "stopClear")
    /\ UNCHANGED <<pm, waiter, ret, asked>>

StopClear ==
    /\ At("stopClear")
    /\ pm' = IF pm.pid = op.pid
             THEN [pm EXCEPT !.pid = NoPid, !.cmd = NoPid, !.done = NoPid,
                             !.external = FALSE]
             ELSE pm
    /\ IF op.kind = "restart"
       THEN /\ op' = [op EXCEPT !.step = "validate", !.pid = NoPid, !.done = NoPid]
            /\ UNCHANGED <<waiter, ret>>
       ELSE Return(TRUE)
    /\ UNCHANGED <<proc, asked>>

(***************************************************************************)
(* Restart and quiesce                                                     *)
(***************************************************************************)

EntryRunning ==
    /\ At("entry")
    /\ isRunning
    /\ Goto("stopCheck")
    /\ UNCHANGED <<pm, proc, waiter, ret, asked>>

RestartEntryStopped ==
    /\ At("entry")
    /\ op.kind = "restart"
    /\ ~isRunning
    /\ Goto("validate")
    /\ UNCHANGED <<pm, proc, waiter, ret, asked>>

\* Wrong on purpose: quiesce of a crashed core keeps desired.
QuiesceEntryStopped_KeepsDesired ==
    /\ At("entry")
    /\ op.kind = "quiesce"
    /\ ~isRunning
    /\ Return(TRUE)
    /\ UNCHANGED <<pm, proc, asked>>

QuiesceEntryStopped ==
    /\ At("entry")
    /\ op.kind = "quiesce"
    /\ ~isRunning
    /\ pm' = [pm EXCEPT !.desired = FALSE]
    /\ Return(TRUE)
    /\ UNCHANGED <<proc, asked>>

ValidateConfigPasses ==
    /\ At("validate")
    /\ Goto("check")
    /\ UNCHANGED <<pm, proc, waiter, ret, asked>>

ValidateConfigFails ==
    /\ At("validate")
    /\ Return(FALSE)
    /\ UNCHANGED <<pm, proc, asked>>

(***************************************************************************)
(* waitProcess: one goroutine per child                                    *)
(***************************************************************************)

\* cmd.Wait returns and done is closed.
WaitReturns(p) ==
    /\ waiter[p] = "waiting"
    /\ proc[p].st = "zombie"
    /\ proc' = [proc EXCEPT ![p].st = "gone"]
    /\ waiter' = [waiter EXCEPT ![p] = "reaped"]
    /\ UNCHANGED <<pm, op, ret, asked>>

\* Wrong on purpose: only a non-zero exit is restarted.
ExitVerdict_OnlyErrors(p) ==
    /\ waiter[p] = "reaped"
    /\ waiter' = [waiter EXCEPT ![p] =
                    IF proc[p].err /\ pm.desired /\ pm.cmd = p
                    THEN "sleeping" ELSE "none"]
    /\ UNCHANGED <<pm, proc, op, ret, asked>>

\* The exit verdict, in one pm.mu section.
ExitVerdict(p) ==
    /\ waiter[p] = "reaped"
    /\ waiter' = [waiter EXCEPT ![p] =
                    IF pm.desired /\ pm.cmd = p THEN "sleeping" ELSE "none"]
    /\ UNCHANGED <<pm, proc, op, ret, asked>>

\* Two seconds later the goroutine takes lifecycleMu, and never applyMu: a
\* validator may be running now or start at any step from here on.
BeginAutoRestart(p) ==
    /\ waiter[p] = "sleeping"
    /\ op.kind = "none"
    /\ op' = [NoOp(pm.bin) EXCEPT !.kind = "auto", !.step = "wanted", !.by = p]
    /\ waiter' = [waiter EXCEPT ![p] = "reviving"]
    /\ UNCHANGED <<pm, proc, ret, asked>>

\* Wrong on purpose: another child may have been started in the two seconds.
Wanted_AnyCommand == pm.desired

Wanted == pm.desired /\ pm.cmd = op.by

AutoRestartUnwanted ==
    /\ At("wanted")
    /\ ~Wanted \/ isRunning
    /\ Return(FALSE)
    /\ UNCHANGED <<pm, proc, asked>>

AutoRestartWanted ==
    /\ At("wanted")
    /\ Wanted
    /\ ~isRunning
    /\ Goto("validate")
    /\ UNCHANGED <<pm, proc, waiter, ret, asked>>

(***************************************************************************)
(* The updater's field write, and the world outside                        *)
(***************************************************************************)

\* Wrong on purpose: the path is written without a quiesce before it.
setBinaryPath_Anytime(b) ==
    /\ pm' = [pm EXCEPT !.bin = b]
    /\ UNCHANGED <<proc, waiter, op, ret, asked>>

\* performCoreUpdate calls setBinaryPath while it holds applyMu, after a
\* quiesce that succeeded and before its next call.  It takes pm.mu only.
setBinaryPath(b) ==
    /\ ret.kind = "quiesce" /\ ret.ok
    /\ ~Validating
    /\ pm' = [pm EXCEPT !.bin = b]
    /\ UNCHANGED <<proc, waiter, op, ret, asked>>

\* A process exits: by itself, or because of a signal.
Exit(p) ==
    /\ proc[p].st \in {"up", "term", "kill"}
    /\ \E e \in BOOLEAN :
          /\ proc[p].st = "kill" => e
          /\ proc' = [proc EXCEPT
                        ![p].st = IF proc[p].child THEN "zombie" ELSE "gone",
                        ![p].err = e]
    /\ UNCHANGED <<pm, waiter, op, ret, asked>>

Recycle(p) ==
    /\ proc[p].st = "gone"
    /\ Unreferenced(p)
    /\ proc' = [proc EXCEPT ![p] = Process("free", FALSE, FALSE, pm.bin)]
    /\ waiter' = [waiter EXCEPT ![p] = "none"]
    /\ asked' = asked \ {p}
    /\ UNCHANGED <<pm, op, ret>>

\* The same binary on the same configuration, started from a shell.
ExternalStart(p) ==
    /\ ManualStart
    /\ proc[p].st = "free"
    /\ proc' = [proc EXCEPT ![p] = Process("up", FALSE, FALSE, pm.bin)]
    /\ UNCHANGED <<pm, waiter, op, ret, asked>>

\* ApplyConfig, SaveConfig or StartMihomo validates the file on disk: a process
\* with the core's executable and arguments and -t.  They hold applyMu and not
\* lifecycleMu.
ValidateConfig(p) ==
    /\ op.kind \in {"none", "auto"}
    /\ ~Validating
    /\ proc[p].st = "free"
    /\ proc' = [proc EXCEPT ![p] = Process("up", FALSE, TRUE, pm.bin)]
    /\ UNCHANGED <<pm, waiter, op, ret, asked>>

\* The panel dies and starts again with an empty ProcessManager.  Its
\* children, validators among them, are reparented or die with the service's
\* control group.
PanelRestart ==
    /\ PanelRestarts
    /\ pm' = FreshPM(pm.bin)
    /\ op' = NoOp(pm.bin)
    /\ ret' = NoRet
    /\ waiter' = [p \in Pid |-> "none"]
    /\ proc' = [p \in Pid |->
                  IF ~proc[p].child /\ ~proc[p].test THEN proc[p]
                  ELSE [proc[p] EXCEPT
                          !.child = FALSE, !.test = FALSE,
                          !.st = IF proc[p].st = "zombie" \/ ~OrphansSurvive
                                 THEN "gone" ELSE proc[p].st]]
    /\ UNCHANGED asked

(***************************************************************************)
(* The specification                                                       *)
(***************************************************************************)

Request == Start \/ Stop \/ Restart \/ quiesce

StartStep ==
    \/ StartRefused \/ StartUnavailable \/ StartChecked \/ ScanProc
    \/ adoptExistingLocked \/ NothingToAdopt \/ Spawn \/ SpawnFails
    \/ Publish \/ Settled \/ ExitedImmediately
StopStep == StopNotRunning \/ StopSignal \/ StopObserved \/ StopKill \/ StopClear
EntryStep ==
    \/ EntryRunning \/ RestartEntryStopped \/ QuiesceEntryStopped
    \/ ValidateConfigPasses \/ ValidateConfigFails
    \/ AutoRestartUnwanted \/ AutoRestartWanted
OpNext == StartStep \/ StopStep \/ EntryStep

waitProcess(p) == WaitReturns(p) \/ ExitVerdict(p) \/ BeginAutoRestart(p)

World(p) == Exit(p) \/ Recycle(p) \/ ExternalStart(p) \/ ValidateConfig(p)

Next ==
    \/ Request
    \/ OpNext
    \/ \E p \in Pid : waitProcess(p) \/ World(p)
    \/ \E b \in Binaries : setBinaryPath(b)
    \/ PanelRestart

Spec == Init /\ [][Next]_vars

(***************************************************************************)
(* Fairness: goroutines run; lifecycleMu is starvation free, so a waiter   *)
(* that keeps finding it taken gets it in the end; a killed process dies.  *)
(* Requests, crashes and outside processes are never forced to happen.     *)
(***************************************************************************)
Fairness ==
    /\ WF_vars(OpNext)
    /\ \A p \in Pid :
          /\ WF_vars(WaitReturns(p))
          /\ WF_vars(ExitVerdict(p))
          /\ SF_vars(BeginAutoRestart(p))
          /\ WF_vars(proc[p].st = "kill" /\ Exit(p))

FairSpec == Spec /\ Fairness

-----------------------------------------------------------------------------
PMFields == [pid : Pid \cup {NoPid}, cmd : Pid \cup {NoPid},
             done : Pid \cup {NoPid}, desired : BOOLEAN,
             external : BOOLEAN, bin : Binaries]
Proc == [st : ProcState, child : BOOLEAN, test : BOOLEAN, bin : Binaries,
         err : BOOLEAN]
Op == [kind : OpKind, step : OpStep, by : Pid \cup {NoPid},
       pid : Pid \cup {NoPid}, done : Pid \cup {NoPid},
       seen : SUBSET Pid, bin : Binaries]
Ret == [kind : OpKind, ok : BOOLEAN]

TypeOK ==
    /\ pm \in PMFields
    /\ proc \in [Pid -> Proc]
    /\ waiter \in [Pid -> WaiterState]
    /\ op \in Op
    /\ ret \in Ret
    /\ asked \in SUBSET Pid

\* A live child the panel has not asked to exit.
Serving(p) == proc[p].st = "up" /\ proc[p].child /\ p \notin asked

\* The last finished call asked for the core to be down.
Halted == ret.kind \in {"stop", "quiesce"}

\* Whatever dies, is adopted or is restarted in between, the panel never has
\* two cores of its own running: start() re-checks under pm.mu after the scan
\* and stop() returns only when the child is reaped.
SingleChild ==
    \A p, q \in Pid : Serving(p) /\ Serving(q) => p = q

\* "A stopped/replaced process must not revive" (waitProcess): while an
\* automatic restart goes on, the core is wanted, the crashed command is still
\* the current one and no Stop or quiesce has finished since.
NoRevival ==
    op.kind = "auto" /\ op.step \notin {"wanted", "settle"} =>
        pm.desired /\ pm.cmd = op.by /\ ~Halted

\* After Stop or quiesce returned, with an error or not, no child serves and
\* no process the panel took over serves until somebody starts the core, where
\* the panel finds its cores again (FindsItsCores): with an executable replaced
\* while orphans survive, or a core started outside beside the fields of a dead
\* child, the part about the process it took over is false.
StopIsFinal ==
    Halted /\ op.kind = "none" =>
        /\ ~pm.desired
        /\ \A p \in Pid : Serving(p) => FALSE
        /\ pm.pid # NoPid => proc[pm.pid].st # "up"

\* A wanted child has a supervisor: its waiter has still to look at it, is
\* about to restart it, or has tried and failed.  No interleaving of a crash
\* with start(), stop() or another restart leaves it forgotten.
Supervised ==
    pm.desired /\ ~pm.external => pm.cmd # NoPid /\ waiter[pm.cmd] # "none"

\* The scan and the spawn of one start() use the same executable, although the
\* updater writes binaryPath without lifecycleMu and the comment in start()
\* takes the path to be immutable.
BinaryStable ==
    [][pm'.bin # pm.bin => ~(At("scan") \/ At("decide") \/ At("spawn")
                             \/ At("publish"))]_vars

\* A wanted child that is down comes back, is no longer wanted, its restart was
\* tried and failed, or a start took over a process its scan found.  That last
\* outcome need not be a core: an automatic restart that meets a validator of
\* ApplyConfig adopts it and reports success, and nobody restarts the core again.
RestartHappens ==
    (pm.desired /\ ~pm.external /\ ~isRunning) ~>
        \/ isRunning
        \/ ~pm.desired
        \/ pm.external
        \/ pm.cmd # NoPid /\ waiter[pm.cmd] = "gaveup"

-----------------------------------------------------------------------------
(***************************************************************************)
(* The inductive invariant behind SingleChild, NoRevival, Supervised and   *)
(* the refinement: each part says what one step of an operation relies on. *)
(***************************************************************************)

\* Which steps belong to which operation.
OpShape ==
    /\ op.kind = "none" <=> op.step = "idle"
    /\ op.kind = "auto" <=> op.by # NoPid
    /\ op.kind = "start" => op.step \in
          {"check", "scan", "decide", "spawn", "publish", "settle"}
    /\ op.kind = "auto" => op.step \in
          {"wanted", "validate", "check", "scan", "decide", "spawn", "publish", "settle"}
    /\ op.kind \in {"stop", "quiesce"} => op.step \in
          {"entry", "stopCheck", "await", "awaitKill", "stopClear"}
    /\ op.kind = "restart" => op.step # "wanted"
    /\ op.step \in {"publish", "settle", "await", "awaitKill", "stopClear"} =>
          op.pid # NoPid

\* A serving child is the one the fields describe, or start() is about to
\* publish it; start() spawns only when there is none.
ChildTracked ==
    /\ \A p \in Pid : Serving(p) =>
          \/ op.step = "publish" /\ op.pid = p
          \/ /\ op.step \notin {"spawn", "publish"}
             /\ pm.pid = p /\ pm.cmd = p /\ pm.done = p
    /\ op.step = "settle" => pm.cmd = op.pid /\ pm.pid = op.pid /\ pm.done = op.pid
    /\ op.step = "publish" =>
          /\ proc[op.pid].child /\ proc[op.pid].st \notin {"gone", "free"}
          /\ waiter[op.pid] = "none"

\* What stop() works on is still what the fields describe, and is signalled.
StopTracked ==
    op.step \in {"await", "awaitKill", "stopClear"} =>
        ~pm.desired /\ pm.pid = op.pid /\ op.pid \in asked

\* An automatic restart belongs to a dead child nobody else refers to, and a
\* waiter waits for a child that has not been reaped.
RestartTracked ==
    /\ op.kind = "auto" =>
          /\ proc[op.by].st = "gone"
          /\ op.step # "wanted" => pm.desired
          /\ op.step \notin {"wanted", "settle"} => pm.cmd = op.by
          /\ op.step \in {"publish", "settle"} => op.by # op.pid
    /\ \A p \in Pid : waiter[p] \in {"reaped", "sleeping", "reviving", "gaveup"} =>
          proc[p].st = "gone"
    /\ \A p \in Pid : waiter[p] = "waiting" =>
          proc[p].child /\ proc[p].st \notin {"gone", "free"}

\* ret is the last finished call, and a finished stop withdrew the wish.
RetShape ==
    /\ op.kind \notin {"none", "auto"} => ret = NoRet
    /\ Halted => ~pm.desired

IInv ==
    /\ TypeOK
    /\ OpShape
    /\ ChildTracked
    /\ StopTracked
    /\ RestartTracked
    /\ RetShape
    /\ Supervised

-----------------------------------------------------------------------------
(***************************************************************************)
(* What StopIsFinal needs besides: where a core that is not the panel's    *)
(* child may be.                                                           *)
(***************************************************************************)

\* While an orphan is up the panel remembers no dead child, and a start()
\* that has scanned has seen it.
OrphanTracked ==
    \A p \in Pid : proc[p].st = "up" /\ ~proc[p].child /\ ~proc[p].test =>
        /\ OrphansSurvive
        /\ pm.done = NoPid
        /\ op.step \notin {"spawn", "publish", "settle"}
        /\ op.step = "decide" => p \in op.seen

\* What was asked to exit is past running, and what the fields name or a scan
\* has seen keeps its pid.
AskedDown ==
    /\ \A p \in asked : proc[p].st \notin {"up", "free"}
    /\ \A p \in op.seen : proc[p].st # "free"
    /\ pm.pid # NoPid => proc[pm.pid].st # "free"

\* A validator runs only beside an automatic restart.
TestAlone == Validating => op.kind \in {"none", "auto"}

\* Until somebody starts the core, what the fields name does not serve.
HaltedDown == Halted /\ pm.pid # NoPid => proc[pm.pid].st # "up"

StopInv == IInv /\ OrphanTracked /\ AskedDown /\ TestAlone /\ HaltedDown

\* Only the panel starts cores, and one that outlives it is always found again:
\* children end with the service, or the executable is never replaced.
FindsItsCores ==
    /\ ~ManualStart
    /\ OrphansSurvive => \A a, b \in Binaries : a = b

-----------------------------------------------------------------------------
(* The supervisor implements CoreLifecycle. *)
Lifecycle == INSTANCE CoreLifecycle WITH
    Core <- Pid,
    live <- {p \in Pid : Serving(p)},
    wanted <- pm.desired,
    supervisor <- op.kind = "auto"

\* Every behaviour of the lock-by-lock supervisor is one of the abstract one.
ImplementsLifecycle == Lifecycle!Spec
=============================================================================
