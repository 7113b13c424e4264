----------------------------- MODULE ConfigRegen -----------------------------
(***************************************************************************)
(* How a committed change reaches the core: listener.Service, user.Service *)
(* and traffic.Enforcer regenerate Mihomo's configuration from the         *)
(* database, mihomo.Service applies it under applyMu, and a core update    *)
(* turns everybody away while its job runs.                                *)
(*                                                                         *)
(* A regeneration is a goroutine (a worker) that takes the steps of        *)
(*   SyncCredentials   "sync"     u.mu: queue behind a job, or go on       *)
(*   RegenerateConfig  "gen"      s.mu: snapshot of the database           *)
(*   ApplyConfig       "check"    first coreMutationAllowed                *)
(*                     "lock"     waits for applyMu                        *)
(*                     "recheck"  second coreMutationAllowed               *)
(*                     "apply"    file saved, core validated and restarted *)
(* Between any two of them others run.                                     *)
(*                                                                         *)
(* The database is three things the properties tell apart: how many user   *)
(* changes and how many listener changes are committed, and whether one    *)
(* watched user is blocked (disabled, expired or over quota).  A generated *)
(* configuration is the database it was generated from.                    *)
(***************************************************************************)
EXTENDS Naturals

CONSTANTS
    Worker,         \* regenerations that may be under way at a time
    MaxUser,        \* bound: user changes
    MaxListener,    \* bound: listener changes
    MaxUpdates,     \* bound: core updates
    ApplyFails,     \* generating, validating or restarting may fail
    PanelRestarts,  \* the panel may die and come back
    Backups         \* configurations in the archives an administrator may restore

Free == "free"           \* applyMu when nobody holds it
Updater == "updater"     \* applyMu when the update job holds it

ASSUME ConfigRegenAssumption ==
    /\ Free \notin Worker /\ Updater \notin Worker
    /\ MaxUser \in Nat
    /\ MaxListener \in Nat
    /\ MaxUpdates \in Nat
    /\ ApplyFails \in BOOLEAN
    /\ PanelRestarts \in BOOLEAN
    /\ Backups \subseteq [user : 0..MaxUser, listener : 0..MaxListener, blocked : BOOLEAN]

VARIABLES
    db,           \* what is committed
    live,         \* the configuration on disk
    credTimer,    \* user.Service: the debounce timer is armed
    listTimer,    \* listener.Service: the debounce timer is armed
    worker,       \* the regenerations under way
    applyMu,      \* who holds mihomo.Service.applyMu
    update,       \* the core update job ("none": no job is running)
    updates,      \* core updates begun so far
    pending,      \* coreUpdater.pendingCredentials is set
    lastBlocked,  \* Enforcer.lastBlocked
    tried         \* history: newest user change some regeneration has tried

vars == <<db, live, credTimer, listTimer, worker, applyMu, update, updates,
          pending, lastBlocked, tried>>

Source == {"none", "user", "listener", "enforcer", "finish", "boot"}
Busy == {"sync", "gen", "check", "lock", "recheck", "apply"}
UpdateState == {"none", "download", "switch", "finish"}

DB == [user : 0..MaxUser, listener : 0..MaxListener, blocked : BOOLEAN]

NoDB == [user |-> 0, listener |-> 0, blocked |-> FALSE]
Idle == [src |-> "none", pc |-> "idle", yaml |-> NoDB, snap |-> FALSE]

Running == update # "none"

\* The scheduler's one goroutine is inside CheckAndEnforce.
Enforcing == \E w \in Worker : worker[w].src = "enforcer"

Newer(a, b) == IF a > b THEN a ELSE b

Init ==
    /\ db = NoDB
    /\ live = NoDB
    /\ credTimer = FALSE
    /\ listTimer = FALSE
    /\ worker = [w \in Worker |-> Idle]
    /\ applyMu = Free
    /\ update = "none"
    /\ updates = 0
    /\ pending = FALSE
    /\ lastBlocked = FALSE
    /\ tried = 0

(***************************************************************************)
(* Committed changes                                                       *)
(***************************************************************************)

\* A user service call commits and calls notifyCredentialsChanged; it may
\* block the watched user or let it in again.
UserChange ==
    /\ db.user < MaxUser
    /\ \E b \in BOOLEAN :
          db' = [db EXCEPT !.user = db.user + 1, !.blocked = b]
    /\ credTimer' = TRUE
    /\ UNCHANGED <<live, listTimer, worker, applyMu, update, updates, pending,
                   lastBlocked, tried>>

\* Listener Create, Update, Delete commit and call scheduleConfigApply.
ListenerChange ==
    /\ db.listener < MaxListener
    /\ db' = [db EXCEPT !.listener = db.listener + 1]
    /\ listTimer' = TRUE
    /\ UNCHANGED <<live, credTimer, worker, applyMu, update, updates, pending,
                   lastBlocked, tried>>

\* The clock and the traffic counters block a user at any time.  The monthly
\* reset and the renewed cycle let it in again; they run in the goroutine of
\* the enforcer, before its check.  Nothing is scheduled.
UsageChange ==
    /\ db.blocked => ~Enforcing
    /\ db' = [db EXCEPT !.blocked = ~db.blocked]
    /\ UNCHANGED <<live, credTimer, listTimer, worker, applyMu, update, updates,
                   pending, lastBlocked, tried>>

(***************************************************************************)
(* Where regenerations come from                                           *)
(***************************************************************************)

Launch(w, src, pc) ==
    /\ worker[w].pc = "idle"
    /\ worker' = [worker EXCEPT ![w] = [Idle EXCEPT !.src = src, !.pc = pc]]

\* The timer of scheduleCredentialsSync fires and calls SyncCredentials.
scheduleCredentialsSync(w) ==
    /\ credTimer
    /\ credTimer' = FALSE
    /\ Launch(w, "user", "sync")
    /\ UNCHANGED <<db, live, listTimer, applyMu, update, updates, pending,
                   lastBlocked, tried>>

flushConfigApply(w) ==
    /\ listTimer
    /\ listTimer' = FALSE
    /\ Launch(w, "listener", "gen")
    /\ UNCHANGED <<db, live, credTimer, applyMu, update, updates, pending,
                   lastBlocked, tried>>

\* One goroutine ticks, so one check at a time; a tick that sees the set it
\* last enforced does nothing.
CheckAndEnforce(w) ==
    /\ ~Enforcing
    /\ worker[w].pc = "idle"
    /\ db.blocked # lastBlocked
    /\ worker' = [worker EXCEPT ![w] = [Idle EXCEPT
                    !.src = "enforcer", !.pc = "gen", !.snap = db.blocked]]
    /\ UNCHANGED <<db, live, credTimer, listTimer, applyMu, update, updates,
                   pending, lastBlocked, tried>>

(***************************************************************************)
(* SyncCredentials and RegenerateConfig                                    *)
(***************************************************************************)

Step(w, pc) == worker' = [worker EXCEPT ![w].pc = pc]
Done(w) == worker' = [worker EXCEPT ![w] = Idle]

\* Wrong on purpose: a running job turns the callback away and forgets it.
SyncQueues_Forgets(w) ==
    /\ worker[w].pc = "sync"
    /\ Running
    /\ Done(w)
    /\ UNCHANGED <<db, live, credTimer, listTimer, applyMu, update, updates,
                   pending, lastBlocked, tried>>

\* Under u.mu: a running job takes the callback over.
SyncQueues(w) ==
    /\ worker[w].pc = "sync"
    /\ Running
    /\ pending' = TRUE
    /\ Done(w)
    /\ UNCHANGED <<db, live, credTimer, listTimer, applyMu, update, updates,
                   lastBlocked, tried>>

SyncGoesOn(w) ==
    /\ worker[w].pc = "sync"
    /\ ~Running
    /\ Step(w, "gen")
    /\ UNCHANGED <<db, live, credTimer, listTimer, applyMu, update, updates,
                   pending, lastBlocked, tried>>

generateConfigYAML(w) ==
    /\ worker[w].pc = "gen"
    /\ worker' = [worker EXCEPT ![w].yaml = db, ![w].pc = "check"]
    /\ UNCHANGED <<db, live, credTimer, listTimer, applyMu, update, updates,
                   pending, lastBlocked, tried>>

\* Wrong on purpose: an attempt counts for the next change as well.
GenerateFails_OffByOne(w) ==
    /\ ApplyFails
    /\ worker[w].pc = "gen"
    /\ tried' = db.user + 1
    /\ Done(w)
    /\ UNCHANGED <<db, live, credTimer, listTimer, applyMu, update, updates,
                   pending, lastBlocked>>

GenerateFails(w) ==
    /\ ApplyFails
    /\ worker[w].pc = "gen"
    /\ tried' = db.user
    /\ Done(w)
    /\ UNCHANGED <<db, live, credTimer, listTimer, applyMu, update, updates,
                   pending, lastBlocked>>

(***************************************************************************)
(* ApplyConfig                                                             *)
(***************************************************************************)

\* Wrong on purpose: SyncCredentials without its loop.
TurnedAway_NoLoop(w) == Done(w)

\* ErrCoreUpdateBusy.  SyncCredentials starts over; a listener's flush logs a
\* warning and is gone; the enforcer keeps lastBlocked and finds the same
\* difference at its next tick.
TurnedAway(w) ==
    IF worker[w].src \in {"user", "finish"} THEN Step(w, "sync") ELSE Done(w)

ApplyBusy(w) ==
    /\ worker[w].pc = "check"
    /\ Running
    /\ TurnedAway(w)
    /\ UNCHANGED <<db, live, credTimer, listTimer, applyMu, update, updates,
                   pending, lastBlocked, tried>>

ApplyAllowed(w) ==
    /\ worker[w].pc = "check"
    /\ ~Running
    /\ Step(w, "lock")
    /\ UNCHANGED <<db, live, credTimer, listTimer, applyMu, update, updates,
                   pending, lastBlocked, tried>>

Acquire(w) ==
    /\ worker[w].pc = "lock"
    /\ applyMu = Free
    /\ applyMu' = w
    /\ Step(w, "recheck")
    /\ UNCHANGED <<db, live, credTimer, listTimer, update, updates, pending,
                   lastBlocked, tried>>

RecheckBusy(w) ==
    /\ worker[w].pc = "recheck"
    /\ Running
    /\ applyMu' = Free
    /\ TurnedAway(w)
    /\ UNCHANGED <<db, live, credTimer, listTimer, update, updates, pending,
                   lastBlocked, tried>>

RecheckAllowed(w) ==
    /\ worker[w].pc = "recheck"
    /\ ~Running
    /\ Step(w, "apply")
    /\ UNCHANGED <<db, live, credTimer, listTimer, applyMu, update, updates,
                   pending, lastBlocked, tried>>

ApplySucceeds(w) ==
    /\ worker[w].pc = "apply"
    /\ live' = worker[w].yaml
    /\ lastBlocked' = IF worker[w].src = "enforcer" THEN worker[w].snap
                                                    ELSE lastBlocked
    /\ tried' = Newer(tried, worker[w].yaml.user)
    /\ applyMu' = Free
    /\ Done(w)
    /\ UNCHANGED <<db, credTimer, listTimer, update, updates, pending>>

\* Validation or the restart fails and the old file is put back.  Nobody but
\* the enforcer tries again.
ApplyRestores(w) ==
    /\ ApplyFails
    /\ worker[w].pc = "apply"
    /\ tried' = Newer(tried, worker[w].yaml.user)
    /\ applyMu' = Free
    /\ Done(w)
    /\ UNCHANGED <<db, live, credTimer, listTimer, update, updates, pending,
                   lastBlocked>>

\* App.Run without a core binary saves what it generated and starts no core:
\* no lock, no question.
SaveWithoutBinary(w) ==
    /\ worker[w].src = "boot" /\ worker[w].pc = "check"
    /\ live' = worker[w].yaml
    /\ tried' = Newer(tried, worker[w].yaml.user)
    /\ Done(w)
    /\ UNCHANGED <<db, credTimer, listTimer, applyMu, update, updates, pending,
                   lastBlocked>>

(***************************************************************************)
(* The core update job                                                     *)
(***************************************************************************)

\* An HTTP request, so not before the panel has finished starting.
BeginCoreUpdate ==
    /\ ~Running
    /\ updates < MaxUpdates
    /\ \A w \in Worker : worker[w].src # "boot"
    /\ update' = "download"
    /\ updates' = updates + 1
    /\ UNCHANGED <<db, live, credTimer, listTimer, worker, applyMu, pending,
                   lastBlocked, tried>>

DownloadFails ==
    /\ update = "download"
    /\ update' = "finish"
    /\ UNCHANGED <<db, live, credTimer, listTimer, worker, applyMu, updates,
                   pending, lastBlocked, tried>>

\* Wrong on purpose: performCoreUpdate without applyMu.
SwitchBegins_Unlocked ==
    /\ update = "download"
    /\ applyMu' = Updater
    /\ update' = "switch"
    /\ UNCHANGED <<db, live, credTimer, listTimer, worker, updates, pending,
                   lastBlocked, tried>>

\* performCoreUpdate takes applyMu for the switch.
SwitchBegins ==
    /\ update = "download"
    /\ applyMu = Free
    /\ applyMu' = Updater
    /\ update' = "switch"
    /\ UNCHANGED <<db, live, credTimer, listTimer, worker, updates, pending,
                   lastBlocked, tried>>

\* The switch or its recovery ends; the configuration file is not touched.
SwitchEnds ==
    /\ update = "switch"
    /\ applyMu' = Free
    /\ update' = "finish"
    /\ UNCHANGED <<db, live, credTimer, listTimer, worker, updates, pending,
                   lastBlocked, tried>>

\* Wrong on purpose: the queued callback is left where it is.
finishCoreUpdate_LeavesPending ==
    /\ update = "finish"
    /\ update' = "none"
    /\ UNCHANGED <<db, live, credTimer, listTimer, worker, applyMu, updates,
                   pending, lastBlocked, tried>>

\* Under u.mu the job ends and the queued callback is taken; it then goes
\* through SyncCredentials again.
finishCoreUpdate ==
    /\ update = "finish"
    /\ update' = "none"
    /\ pending' = FALSE
    /\ IF pending THEN \E w \in Worker : Launch(w, "finish", "sync")
                  ELSE UNCHANGED worker
    /\ UNCHANGED <<db, live, credTimer, listTimer, applyMu, updates,
                   lastBlocked, tried>>

\* The panel dies; a configuration being applied may or may not be on disk.
\* The new panel starts with empty memory and regenerates in App.Run, while
\* its enforcer already ticks.
PanelRestart ==
    /\ PanelRestarts
    /\ live' \in {live} \cup {worker[w].yaml : w \in {v \in Worker : worker[v].pc = "apply"}}
    /\ credTimer' = FALSE
    /\ listTimer' = FALSE
    /\ \E w \in Worker :
          worker' = [v \in Worker |-> IF v # w THEN Idle
                       ELSE [Idle EXCEPT !.src = "boot", !.pc = "gen"]]
    /\ applyMu' = Free
    /\ update' = "none"
    /\ pending' = FALSE
    /\ lastBlocked' = FALSE
    /\ UNCHANGED <<db, updates, tried>>

\* The request that restores a backup renames the archive's configuration over
\* the live one, which takes no lock and asks for no running job; the database
\* it replaces as well stays open here until the panel starts again.
RestoreDatabase ==
    /\ live' \in Backups
    /\ UNCHANGED <<db, credTimer, listTimer, worker, applyMu, update, updates,
                   pending, lastBlocked, tried>>

(***************************************************************************)
(* The specification                                                       *)
(***************************************************************************)

Change == UserChange \/ ListenerChange \/ UsageChange
Trigger(w) ==
    scheduleCredentialsSync(w) \/ flushConfigApply(w) \/ CheckAndEnforce(w)
Regenerate(w) ==
    \/ SyncQueues(w) \/ SyncGoesOn(w) \/ generateConfigYAML(w) \/ GenerateFails(w)
ApplyConfig(w) ==
    \/ ApplyBusy(w) \/ ApplyAllowed(w) \/ Acquire(w) \/ RecheckBusy(w)
    \/ RecheckAllowed(w) \/ ApplySucceeds(w) \/ ApplyRestores(w)
    \/ SaveWithoutBinary(w)
CoreUpdate == DownloadFails \/ SwitchBegins \/ SwitchEnds \/ finishCoreUpdate

Next ==
    \/ Change
    \/ \E w \in Worker : Trigger(w) \/ Regenerate(w) \/ ApplyConfig(w)
    \/ BeginCoreUpdate
    \/ CoreUpdate
    \/ PanelRestart
    \/ RestoreDatabase

Spec == Init /\ [][Next]_vars

\* Timers fire, the enforcer ticks, goroutines run, a mutex is starvation
\* free, and an attempt that is made again and again does not always fail.
\* Changes, updates and restarts are never forced to happen, and the panel
\* does not restart for ever.
Fairness ==
    /\ WF_vars(\E w \in Worker : scheduleCredentialsSync(w))
    /\ WF_vars(\E w \in Worker : flushConfigApply(w))
    /\ WF_vars(\E w \in Worker : CheckAndEnforce(w))
    /\ \A w \in Worker :
          /\ WF_vars(Regenerate(w))
          /\ WF_vars(ApplyConfig(w))
          /\ SF_vars(Acquire(w))
          /\ SF_vars(ApplySucceeds(w))
    /\ WF_vars(DownloadFails \/ SwitchBegins)
    /\ WF_vars(SwitchEnds)
    /\ WF_vars(finishCoreUpdate)
    /\ <>[][~PanelRestart]_vars

FairSpec == Spec /\ Fairness

-----------------------------------------------------------------------------
WorkerState == [src : Source, pc : Busy \cup {"idle"}, yaml : DB,
                snap : BOOLEAN]

TypeOK ==
    /\ db \in DB
    /\ live \in DB
    /\ credTimer \in BOOLEAN
    /\ listTimer \in BOOLEAN
    /\ worker \in [Worker -> WorkerState]
    /\ applyMu \in Worker \cup {Free, Updater}
    /\ update \in UpdateState
    /\ updates \in 0..MaxUpdates
    /\ pending \in BOOLEAN
    /\ lastBlocked \in BOOLEAN
    /\ tried \in 0..MaxUser

\* A worker that will try the newest user change unless it is turned away,
\* and that starts over when it is.
Carries(w) ==
    /\ worker[w].src \in {"user", "finish", "boot"}
    /\ \/ worker[w].pc \in {"sync", "gen"}
       \/ worker[w].pc \in Busy /\ worker[w].yaml.user = db.user

\* "No wakeup is lost" (SyncCredentials): a committed user change that no
\* regeneration has tried yet has an armed timer, a goroutine on its way or
\* the queue of a job that is still running.
NoLostWakeup ==
    db.user > tried =>
        \/ credTimer
        \/ pending /\ Running
        \/ \E w \in Worker : Carries(w)

\* The file the update read before the switch is the one its recovery checks
\* against: while the job has applyMu no regeneration writes it, begun before,
\* queued or started with the panel.  Only the restoration of a backup, which
\* takes no lock, changes it then.
SwitchUndisturbed ==
    [][live' # live /\ update = "switch" => UNCHANGED <<worker, applyMu>>]_vars

\* Every committed user change is tried, however many updates come between and
\* wherever the panel dies.
EveryChangeTried ==
    \A n \in 1..MaxUser : (db.user >= n) ~> (tried >= n)

Quiet ==
    /\ ~credTimer /\ ~listTimer /\ ~Running
    /\ \A w \in Worker : worker[w].pc = "idle"

\* "Configuration mutations are rejected during an update": a listener change
\* is never committed and then left out of the configuration.
ListenerReconciled == Quiet => live.listener = db.listener

-----------------------------------------------------------------------------
(***************************************************************************)
(* The inductive invariant behind NoLostWakeup and SwitchUndisturbed       *)
(***************************************************************************)

\* applyMu has one holder, and the holder knows.
LockHeld ==
    /\ \A w \in Worker : worker[w].pc \in {"recheck", "apply"} <=> applyMu = w
    /\ applyMu = Updater <=> update = "switch"

\* A queued callback belongs to a running job, which will take it.
PendingQueued == pending => Running

\* The start-up regeneration is over before an update can begin, and it
\* never waits in SyncCredentials.
BootAlone ==
    \A w \in Worker : worker[w].src = "boot" =>
        ~Running /\ worker[w].pc # "sync"

RegenInv ==
    /\ TypeOK
    /\ LockHeld
    /\ PendingQueued
    /\ BootAlone
    /\ NoLostWakeup
=============================================================================
