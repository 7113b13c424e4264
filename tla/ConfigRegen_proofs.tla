------------------------ MODULE ConfigRegen_proofs ------------------------
(***************************************************************************)
(* No committed user change is forgotten, and the configuration is left    *)
(* alone during a switch, for any number of goroutines, changes and core   *)
(* updates.                                                                *)
(***************************************************************************)
EXTENDS ConfigRegen, TLAPS

USE ConfigRegenAssumption DEF TypeOK, DB, NoDB, Running, Free, Updater

-----------------------------------------------------------------------------
(* Types *)

\* What a worker record may become.
LEMMA WorkerUpdate ==
  ASSUME NEW r \in WorkerState, NEW s \in Busy \cup {"idle"}, NEW y \in DB
  PROVE  /\ [r EXCEPT !.pc = s] \in WorkerState
         /\ [r EXCEPT !.yaml = y, !.pc = s] \in WorkerState
  BY DEF WorkerState

LEMMA IdleType == Idle \in WorkerState
  <1>1. NoDB \in DB
    OBVIOUS
  <1> QED BY <1>1 DEF WorkerState, Idle, Source

\* A worker that has just been launched.
LEMMA LaunchType ==
  ASSUME NEW src \in Source, NEW s \in Busy, NEW b \in BOOLEAN
  PROVE  /\ [Idle EXCEPT !.src = src, !.pc = s] \in WorkerState
         /\ [Idle EXCEPT !.src = src, !.pc = s, !.snap = b] \in WorkerState
  <1> HIDE DEF DB, NoDB
  <1>1. NoDB \in DB
    BY DEF DB, NoDB
  <1> QED BY <1>1 DEF WorkerState, Idle

LEMMA TypeChange == TypeOK /\ Change => TypeOK'
  <1> SUFFICES ASSUME TypeOK, Change
               PROVE  TypeOK'
    OBVIOUS
  <1>1. CASE UserChange
    <2>1. db' \in DB
      <3>1. PICK b \in BOOLEAN :
              db' = [db EXCEPT !.user = db.user + 1, !.blocked = b]
        BY <1>1 DEF UserChange
      <3>2. db.user + 1 \in 0..MaxUser
        BY <1>1 DEF UserChange
      <3> QED BY <3>1, <3>2
    <2> QED BY <1>1, <2>1 DEF UserChange
  <1>2. CASE ListenerChange
    <2>1. db' \in DB
      BY <1>2 DEF ListenerChange
    <2> QED BY <1>2, <2>1 DEF ListenerChange
  <1>3. CASE UsageChange
    <2>1. db' \in DB
      BY <1>3 DEF UsageChange
    <2> QED BY <1>3, <2>1 DEF UsageChange
  <1> QED BY <1>1, <1>2, <1>3 DEF Change

LEMMA TypeTrigger ==
  ASSUME TypeOK, NEW w \in Worker, Trigger(w)
  PROVE  TypeOK'
  <1>1. worker' \in [Worker -> WorkerState]
    <2>1. CASE scheduleCredentialsSync(w)
      BY <2>1, LaunchType DEF scheduleCredentialsSync, Launch, Source, Busy
    <2>2. CASE flushConfigApply(w)
      BY <2>2, LaunchType DEF flushConfigApply, Launch, Source, Busy
    <2>3. CASE CheckAndEnforce(w)
      <3>1. [Idle EXCEPT !.src = "enforcer", !.pc = "gen", !.snap = db.blocked]
              \in WorkerState
        BY LaunchType DEF Source, Busy
      <3> QED BY <2>3, <3>1 DEF CheckAndEnforce
    <2> QED BY <2>1, <2>2, <2>3 DEF Trigger
  <1> QED BY <1>1 DEF Trigger, scheduleCredentialsSync, flushConfigApply,
          CheckAndEnforce

LEMMA TypeRegenerate ==
  ASSUME TypeOK, NEW w \in Worker, Regenerate(w)
  PROVE  TypeOK'
  <1>1. CASE SyncQueues(w) \/ GenerateFails(w)
    <2>1. worker' \in [Worker -> WorkerState]
      BY <1>1, IdleType DEF SyncQueues, GenerateFails, Done
    <2>2. db.user \in 0..MaxUser
      OBVIOUS
    <2> QED BY <1>1, <2>1, <2>2 DEF SyncQueues, GenerateFails
  <1>2. CASE SyncGoesOn(w)
    <2>1. [worker[w] EXCEPT !.pc = "gen"] \in WorkerState
      BY WorkerUpdate DEF Busy
    <2> QED BY <1>2, <2>1 DEF SyncGoesOn, Step
  <1>3. CASE generateConfigYAML(w)
    <2>1. [worker[w] EXCEPT !.yaml = db, !.pc = "check"] \in WorkerState
      BY WorkerUpdate DEF Busy
    <2> QED BY <1>3, <2>1 DEF generateConfigYAML
  <1> QED BY <1>1, <1>2, <1>3 DEF Regenerate

LEMMA TypeApply ==
  ASSUME TypeOK, NEW w \in Worker, ApplyConfig(w)
  PROVE  TypeOK'
  <1>0. \A pc \in {"sync", "lock", "recheck", "apply"} :
          [worker[w] EXCEPT !.pc = pc] \in WorkerState
    BY WorkerUpdate DEF Busy
  <1>1. CASE ApplyBusy(w) \/ RecheckBusy(w)
    BY <1>0, <1>1, IdleType DEF ApplyBusy, RecheckBusy, TurnedAway, Step, Done
  <1>2. CASE ApplyAllowed(w) \/ Acquire(w) \/ RecheckAllowed(w)
    <2>1. PICK pc \in {"lock", "recheck", "apply"} :
            worker' = [worker EXCEPT ![w] = [worker[w] EXCEPT !.pc = pc]]
      BY <1>2 DEF ApplyAllowed, Acquire, RecheckAllowed, Step
    <2>2. worker' \in [Worker -> WorkerState]
      BY <1>0, <2>1
    <2> QED BY <1>2, <2>2 DEF ApplyAllowed, Acquire, RecheckAllowed
  <1>3. CASE ApplySucceeds(w) \/ ApplyRestores(w) \/ SaveWithoutBinary(w)
    <2>1. worker[w].yaml \in DB /\ worker[w].snap \in BOOLEAN
      BY DEF WorkerState
    <2> QED BY <1>3, <2>1, IdleType DEF ApplySucceeds, ApplyRestores,
            SaveWithoutBinary, Newer, Done
  <1> QED BY <1>1, <1>2, <1>3 DEF ApplyConfig

LEMMA TypeUpdate ==
  ASSUME TypeOK, BeginCoreUpdate \/ CoreUpdate
  PROVE  TypeOK'
  <1>1. CASE BeginCoreUpdate
    BY <1>1 DEF BeginCoreUpdate, UpdateState
  <1>2. CASE DownloadFails \/ SwitchBegins \/ SwitchEnds
    BY <1>2 DEF DownloadFails, SwitchBegins, SwitchEnds, UpdateState
  <1>3. CASE finishCoreUpdate
    <2>1. worker' \in [Worker -> WorkerState]
      BY <1>3, LaunchType DEF finishCoreUpdate, Launch, Source, Busy
    <2> QED BY <1>3, <2>1 DEF finishCoreUpdate, UpdateState
  <1> QED BY <1>1, <1>2, <1>3 DEF CoreUpdate

LEMMA TypeRestart == TypeOK /\ PanelRestart => TypeOK'
  <1> SUFFICES ASSUME TypeOK, PanelRestart
               PROVE  TypeOK'
    OBVIOUS
  <1>1. live' \in DB
    BY DEF PanelRestart, WorkerState
  <1>2. worker' \in [Worker -> WorkerState]
    BY LaunchType, IdleType DEF PanelRestart, Source, Busy
  <1> QED BY <1>1, <1>2 DEF PanelRestart, UpdateState

LEMMA TypeRestore == TypeOK /\ RestoreDatabase => TypeOK'
  BY DEF RestoreDatabase

LEMMA TypeNext == TypeOK /\ [Next]_vars => TypeOK'
  <1>1. TypeOK /\ UNCHANGED vars => TypeOK'
    BY DEF vars
  <1> QED BY <1>1, TypeChange, TypeTrigger, TypeRegenerate, TypeApply, TypeUpdate,
          TypeRestart, TypeRestore DEF Next

-----------------------------------------------------------------------------
(* The inductive step, action group by action group *)

LEMMA ChangeInv ==
  ASSUME RegenInv, TypeOK', Change
  PROVE  RegenInv'
  BY DEF RegenInv, Change, UserChange, ListenerChange, UsageChange, LockHeld,
     PendingQueued, BootAlone, NoLostWakeup, Carries

\* A worker that leaves "sync" or "gen", or is launched, keeps a change alive.
LEMMA TriggerInv ==
  ASSUME RegenInv, TypeOK', NEW w \in Worker, Trigger(w)
  PROVE  RegenInv'
  <1> USE DEF RegenInv
  <1>1. worker[w] \in WorkerState /\ worker[w].pc = "idle"
    BY DEF Trigger, scheduleCredentialsSync, flushConfigApply, CheckAndEnforce,
       Launch
  <1>2. UNCHANGED <<db, live, applyMu, update, pending, tried>>
    BY DEF Trigger, scheduleCredentialsSync, flushConfigApply, CheckAndEnforce
  <1>3. /\ worker'[w].src \in {"user", "listener", "enforcer"}
        /\ worker'[w].pc \in {"sync", "gen"}
        /\ credTimer' # credTimer => worker'[w].src = "user"
    <2>1. CASE scheduleCredentialsSync(w)
      BY <2>1 DEF scheduleCredentialsSync, Launch, Idle
    <2>2. CASE flushConfigApply(w)
      BY <2>2 DEF flushConfigApply, Launch, Idle
    <2>3. CASE CheckAndEnforce(w)
      <3>1. worker'[w] = [Idle EXCEPT !.src = "enforcer", !.pc = "gen",
                                      !.snap = db.blocked]
        BY <2>3 DEF CheckAndEnforce
      <3>2. worker'[w].src = "enforcer" /\ worker'[w].pc = "gen"
        BY <3>1 DEF Idle
      <3> QED BY <2>3, <3>2 DEF CheckAndEnforce
    <2> QED BY <2>1, <2>2, <2>3 DEF Trigger
  <1>4. \A v \in Worker : v # w => worker'[v] = worker[v]
    BY DEF Trigger, scheduleCredentialsSync, flushConfigApply, CheckAndEnforce,
       Launch
  <1>5. LockHeld' /\ PendingQueued' /\ BootAlone'
    BY <1>1, <1>2, <1>3, <1>4 DEF LockHeld, PendingQueued, BootAlone
  <1>6. \A v \in Worker : Carries(v) => Carries(v)'
    BY <1>1, <1>2, <1>4 DEF Carries, Busy
  <1>7. worker'[w].src = "user" => Carries(w)'
    BY <1>3 DEF Carries
  <1>8. NoLostWakeup'
    BY <1>2, <1>3, <1>6, <1>7 DEF NoLostWakeup
  <1> QED BY <1>5, <1>8

\* A worker on its way goes on being on its way.
LEMMA RegenerateInv ==
  ASSUME RegenInv, TypeOK', NEW w \in Worker, Regenerate(w)
  PROVE  RegenInv'
  <1> USE DEF RegenInv
  <1>1. /\ worker[w] \in WorkerState /\ worker'[w] \in WorkerState
        /\ \A v \in Worker : v # w => worker'[v] = worker[v]
    BY DEF Regenerate, SyncQueues, SyncGoesOn, generateConfigYAML, GenerateFails,
       Step, Done
  <1>2. /\ UNCHANGED <<db, live, applyMu, update, credTimer>>
        /\ worker[w].pc \in {"sync", "gen"}
        /\ worker'[w].pc \in {"idle", "gen", "check"}
        /\ worker'[w].src \in {"none", worker[w].src}
        /\ worker'[w].src = "boot" => worker[w].src = "boot"
    BY <1>1 DEF Regenerate, SyncQueues, SyncGoesOn, generateConfigYAML,
       GenerateFails, Step, Done, Idle, WorkerState
  <1>3. LockHeld' /\ BootAlone'
    BY <1>1, <1>2 DEF LockHeld, BootAlone
  <1>4. PendingQueued'
    BY <1>2 DEF PendingQueued, Regenerate, SyncQueues, SyncGoesOn,
       generateConfigYAML, GenerateFails
  <1>5. \A v \in Worker : v # w => Carries(v)' = Carries(v)
    BY <1>1, <1>2 DEF Carries
  <1>6. NoLostWakeup'
    <2>1. CASE SyncQueues(w)
      BY <1>2, <2>1 DEF SyncQueues, NoLostWakeup
    <2>2. CASE GenerateFails(w)
      BY <1>2, <2>2 DEF GenerateFails, NoLostWakeup
    <2>3. CASE SyncGoesOn(w)
      <3>1. worker'[w] = [worker[w] EXCEPT !.pc = "gen"]
        BY <2>3 DEF SyncGoesOn, Step
      <3>2. Carries(w) => Carries(w)'
        BY <1>1, <3>1 DEF Carries, WorkerState
      <3> QED BY <1>2, <1>5, <2>3, <3>2 DEF SyncGoesOn, NoLostWakeup
    <2>4. CASE generateConfigYAML(w)
      <3>1. worker'[w] = [worker[w] EXCEPT !.yaml = db, !.pc = "check"]
        BY <2>4 DEF generateConfigYAML
      <3>2. Carries(w) => Carries(w)'
        BY <1>1, <1>2, <3>1 DEF Carries, WorkerState, Busy
      <3> QED BY <1>2, <1>5, <2>4, <3>2 DEF generateConfigYAML, NoLostWakeup
    <2> QED BY <2>1, <2>2, <2>3, <2>4 DEF Regenerate
  <1> QED BY <1>3, <1>4, <1>6

\* Whoever is turned away starts over; whoever applies has tried.
LEMMA ApplyInv ==
  ASSUME RegenInv, TypeOK', NEW w \in Worker, ApplyConfig(w)
  PROVE  RegenInv'
  <1> USE DEF RegenInv
  <1>1. /\ worker[w] \in WorkerState /\ worker'[w] \in WorkerState
        /\ \A v \in Worker : v # w => worker'[v] = worker[v]
    BY DEF ApplyConfig, ApplyBusy, ApplyAllowed, Acquire, RecheckBusy,
       RecheckAllowed, ApplySucceeds, ApplyRestores, SaveWithoutBinary, TurnedAway,
       Step, Done
  <1>2. UNCHANGED <<db, update, credTimer, pending>>
    BY DEF ApplyConfig, ApplyBusy, ApplyAllowed, Acquire, RecheckBusy,
       RecheckAllowed, ApplySucceeds, ApplyRestores, SaveWithoutBinary
  <1>3. \A v \in Worker : v # w => Carries(v)' = Carries(v)
    BY <1>1, <1>2 DEF Carries
  <1>4. PendingQueued'
    BY <1>2 DEF PendingQueued
  <1>5. CASE ApplyAllowed(w) \/ Acquire(w) \/ RecheckAllowed(w)
    <2>1. PICK pc \in {"lock", "recheck", "apply"} :
            worker'[w] = [worker[w] EXCEPT !.pc = pc]
      BY <1>5 DEF ApplyAllowed, Acquire, RecheckAllowed, Step
    <2>2. worker[w].pc \in Busy \ {"sync", "gen"} /\ worker'[w].pc = pc
          /\ worker'[w].src = worker[w].src /\ worker'[w].yaml = worker[w].yaml
      BY <1>1, <1>5, <2>1 DEF ApplyAllowed, Acquire, RecheckAllowed, WorkerState, Busy
    <2>3. Carries(w) => Carries(w)'
      BY <1>2, <2>2 DEF Carries, Busy
    <2>4. tried' = tried
      BY <1>5 DEF ApplyAllowed, Acquire, RecheckAllowed
    <2>5. NoLostWakeup' /\ BootAlone'
      BY <1>1, <1>2, <1>3, <2>2, <2>3, <2>4 DEF NoLostWakeup, BootAlone
    <2>6. LockHeld'
      BY <1>1, <1>2, <1>5, <2>2 DEF LockHeld, ApplyAllowed, Acquire,
         RecheckAllowed, Step, WorkerState
    <2> QED BY <1>4, <2>5, <2>6
  <1>6. CASE ApplyBusy(w) \/ RecheckBusy(w)
    <2>1. Running /\ worker[w].src # "boot" /\ tried' = tried
      BY <1>6 DEF ApplyBusy, RecheckBusy, BootAlone
    <2>2. CASE worker[w].src \in {"user", "finish"}
      <3>1. worker'[w].pc = "sync" /\ worker'[w].src = worker[w].src
        BY <1>1, <1>6, <2>2 DEF ApplyBusy, RecheckBusy, TurnedAway, Step, WorkerState
      <3>2. Carries(w)'
        BY <2>2, <3>1 DEF Carries
      <3>3. NoLostWakeup' /\ BootAlone'
        BY <1>1, <1>2, <2>1, <2>2, <3>1, <3>2 DEF NoLostWakeup, BootAlone
      <3>4. LockHeld'
        BY <1>1, <1>2, <1>6, <3>1 DEF LockHeld, ApplyBusy, RecheckBusy
      <3> QED BY <1>4, <3>3, <3>4
    <2>3. CASE worker[w].src \notin {"user", "finish"}
      <3>1. worker'[w].pc = "idle" /\ worker'[w].src = "none"
        BY <1>1, <1>6, <2>3 DEF ApplyBusy, RecheckBusy, TurnedAway, Done, Idle
      <3>2. ~Carries(w)
        BY <2>1, <2>3 DEF Carries
      <3>3. NoLostWakeup' /\ BootAlone'
        BY <1>1, <1>2, <1>3, <2>1, <3>1, <3>2 DEF NoLostWakeup, BootAlone
      <3>4. LockHeld'
        BY <1>1, <1>2, <1>6, <3>1 DEF LockHeld, ApplyBusy, RecheckBusy
      <3> QED BY <1>4, <3>3, <3>4
    <2> QED BY <2>2, <2>3
  <1>7. CASE ApplySucceeds(w) \/ ApplyRestores(w)
    <2>1. /\ worker[w].pc = "apply" /\ tried' = Newer(tried, worker[w].yaml.user)
          /\ worker'[w].pc = "idle" /\ worker'[w].src = "none" /\ applyMu' = Free
      BY <1>7 DEF ApplySucceeds, ApplyRestores, Done, Idle
    <2>2. tried' >= tried /\ tried' >= worker[w].yaml.user
      BY <1>1, <2>1 DEF Newer, WorkerState
    <2>3. Carries(w) => worker[w].yaml.user = db.user
      BY <2>1 DEF Carries
    <2>4. tried \in Nat /\ tried' \in Nat /\ db.user \in Nat
      OBVIOUS
    <2>5. NoLostWakeup'
      BY <1>2, <1>3, <2>2, <2>3, <2>4 DEF NoLostWakeup
    <2>6. LockHeld' /\ BootAlone'
      BY <1>1, <1>2, <2>1 DEF LockHeld, BootAlone
    <2> QED BY <1>4, <2>5, <2>6
  <1>8. CASE SaveWithoutBinary(w)
    <2>1. /\ worker[w].pc = "check" /\ tried' = Newer(tried, worker[w].yaml.user)
          /\ worker'[w].pc = "idle" /\ worker'[w].src = "none" /\ applyMu' = applyMu
      BY <1>8 DEF SaveWithoutBinary, Done, Idle
    <2>2. tried' >= tried /\ tried' >= worker[w].yaml.user
      BY <1>1, <2>1 DEF Newer, WorkerState
    <2>3. Carries(w) => worker[w].yaml.user = db.user
      BY <2>1 DEF Carries
    <2>4. tried \in Nat /\ tried' \in Nat /\ db.user \in Nat
      OBVIOUS
    <2>5. NoLostWakeup'
      BY <1>2, <1>3, <2>2, <2>3, <2>4 DEF NoLostWakeup
    <2>6. LockHeld' /\ BootAlone'
      BY <1>1, <1>2, <2>1 DEF LockHeld, BootAlone
    <2> QED BY <1>4, <2>5, <2>6
  <1> QED BY <1>5, <1>6, <1>7, <1>8 DEF ApplyConfig

LEMMA UpdateInv ==
  ASSUME RegenInv, TypeOK', BeginCoreUpdate \/ CoreUpdate
  PROVE  RegenInv'
  <1> USE DEF RegenInv
  <1>1. CASE BeginCoreUpdate \/ DownloadFails \/ SwitchEnds
    <2>1. UNCHANGED <<db, worker, credTimer, pending, tried>> /\ Running'
      BY <1>1 DEF BeginCoreUpdate, DownloadFails, SwitchEnds
    <2>2. NoLostWakeup' /\ PendingQueued'
      BY <1>1, <2>1 DEF NoLostWakeup, PendingQueued, Carries, DownloadFails,
         SwitchEnds, BeginCoreUpdate
    <2>3. BootAlone'
      BY <1>1, <2>1 DEF BootAlone, BeginCoreUpdate, DownloadFails, SwitchEnds
    <2>4. LockHeld'
      BY <1>1, <2>1 DEF LockHeld, BeginCoreUpdate, DownloadFails, SwitchEnds
    <2> QED BY <2>2, <2>3, <2>4
  <1>2. CASE SwitchBegins
    <2>1. \A w \in Worker : /\ worker'[w].pc = worker[w].pc
                            /\ worker'[w].src = worker[w].src
                            /\ worker'[w].yaml = worker[w].yaml
      BY <1>2 DEF SwitchBegins, WorkerState
    <2>2. UNCHANGED <<db, credTimer, pending, tried>> /\ Running /\ Running'
      BY <1>2 DEF SwitchBegins
    <2>3. NoLostWakeup' /\ PendingQueued' /\ BootAlone'
      BY <2>1, <2>2 DEF NoLostWakeup, PendingQueued, BootAlone, Carries
    <2>4. LockHeld'
      BY <1>2, <2>1 DEF LockHeld, SwitchBegins
    <2> QED BY <2>3, <2>4
  <1>3. CASE finishCoreUpdate
    <2>1. UNCHANGED <<db, credTimer, tried, applyMu>> /\ ~Running' /\ pending' = FALSE
          /\ update = "finish"
      BY <1>3 DEF finishCoreUpdate
    <2>2. CASE ~pending
      BY <1>3, <2>1, <2>2 DEF finishCoreUpdate, NoLostWakeup, PendingQueued,
         BootAlone, LockHeld, Carries
    <2>3. CASE pending
      <3>1. PICK w \in Worker : Launch(w, "finish", "sync")
        BY <1>3, <2>3 DEF finishCoreUpdate
      <3>2. /\ worker'[w].src = "finish" /\ worker'[w].pc = "sync"
            /\ worker[w].pc = "idle"
            /\ \A v \in Worker : v # w => worker'[v] = worker[v]
        BY <3>1 DEF Launch, Idle
      <3>3. Carries(w)'
        BY <3>2 DEF Carries
      <3>4. NoLostWakeup' /\ PendingQueued'
        BY <2>1, <3>3 DEF NoLostWakeup, PendingQueued
      <3>5. BootAlone' /\ LockHeld'
        BY <2>1, <3>2 DEF BootAlone, LockHeld
      <3> QED BY <3>4, <3>5
    <2> QED BY <2>2, <2>3
  <1> QED BY <1>1, <1>2, <1>3 DEF CoreUpdate

\* The start-up regeneration carries whatever the dead panel had forgotten.
LEMMA RestartInv ==
  ASSUME RegenInv, TypeOK', PanelRestart
  PROVE  RegenInv'
  <1>1. PICK w \in Worker :
          worker' = [v \in Worker |-> IF v # w THEN Idle
                       ELSE [Idle EXCEPT !.src = "boot", !.pc = "gen"]]
    BY DEF PanelRestart
  <1>2. /\ worker'[w].src = "boot" /\ worker'[w].pc = "gen"
        /\ \A v \in Worker : v # w => worker'[v].src = "none" /\ worker'[v].pc = "idle"
    BY <1>1 DEF Idle
  <1>3. applyMu' = Free /\ update' = "none" /\ pending' = FALSE
    BY DEF PanelRestart
  <1>4. NoLostWakeup'
    BY <1>2 DEF NoLostWakeup, Carries
  <1>5. LockHeld' /\ PendingQueued' /\ BootAlone'
    BY <1>2, <1>3 DEF LockHeld, PendingQueued, BootAlone
  <1> QED BY <1>4, <1>5 DEF RegenInv

\* A restored configuration disturbs none of them.
LEMMA RestoreInv ==
  ASSUME RegenInv, TypeOK', RestoreDatabase
  PROVE  RegenInv'
  BY DEF RegenInv, RestoreDatabase, LockHeld, PendingQueued, BootAlone, NoLostWakeup,
     Carries

-----------------------------------------------------------------------------
(* The theorems *)

LEMMA InitInv == Init => RegenInv
  <1> SUFFICES ASSUME Init
               PROVE  RegenInv
    OBVIOUS
  <1>1. TypeOK
    <2>1. NoDB \in DB /\ 0 \in 0..MaxUser /\ 0 \in 0..MaxUpdates
      OBVIOUS
    <2>2. worker \in [Worker -> WorkerState]
      BY IdleType DEF Init
    <2> QED BY <2>1, <2>2 DEF Init, UpdateState
  <1>2. \A w \in Worker : worker[w].src = "none" /\ worker[w].pc = "idle"
    BY DEF Init, Idle
  <1>3. LockHeld /\ PendingQueued /\ BootAlone /\ NoLostWakeup
    BY <1>2 DEF Init, LockHeld, PendingQueued, BootAlone, NoLostWakeup
  <1> QED BY <1>1, <1>3 DEF RegenInv

LEMMA NextInv == RegenInv /\ [Next]_vars => RegenInv'
  <1> SUFFICES ASSUME RegenInv, [Next]_vars
               PROVE  RegenInv'
    OBVIOUS
  <1>1. TypeOK'
    BY TypeNext DEF RegenInv
  <1>2. CASE UNCHANGED vars
    BY <1>2 DEF vars, RegenInv, LockHeld, PendingQueued, BootAlone, NoLostWakeup,
       Carries
  <1> QED BY <1>1, <1>2, ChangeInv, TriggerInv, RegenerateInv, ApplyInv, UpdateInv,
          RestartInv, RestoreInv DEF Next

THEOREM Invariance == Spec => []RegenInv
  BY InitInv, NextInv, PTL DEF Spec

\* A committed user change that nobody has tried yet is never forgotten, by a
\* busy update, a finishing update or a restart of the panel.
THEOREM NoLostWakeupHolds == Spec => []NoLostWakeup
  <1>1. RegenInv => NoLostWakeup
    BY DEF RegenInv
  <1> QED BY <1>1, Invariance, PTL

\* Timers, goroutines, queue and lock keep their types at every step.
THEOREM TypeCorrect == Spec => []TypeOK
  <1>1. RegenInv => TypeOK
    BY DEF RegenInv
  <1> QED BY <1>1, Invariance, PTL

\* Under a switching core update no regeneration writes the configuration file;
\* the restoration of a backup is all that can.
THEOREM SwitchUndisturbedHolds == Spec => SwitchUndisturbed
  <1>1. ASSUME RegenInv, [Next]_vars, live' # live, update = "switch"
        PROVE  UNCHANGED <<worker, applyMu>>
    <2>1. \A w \in Worker : worker[w].pc # "apply" /\ worker[w].src # "boot"
      BY <1>1 DEF RegenInv, LockHeld, BootAlone
    <2>2. ~(\E w \in Worker : ApplyConfig(w))
      BY <1>1, <2>1 DEF ApplyConfig, ApplyBusy, ApplyAllowed, Acquire, RecheckBusy,
         RecheckAllowed, ApplySucceeds, ApplyRestores, SaveWithoutBinary
    <2>3. ~PanelRestart
      BY <1>1, <2>1 DEF PanelRestart
    <2>4. RestoreDatabase
      BY <1>1, <2>2, <2>3 DEF Next, vars, Change, UserChange, ListenerChange,
         UsageChange, Trigger, scheduleCredentialsSync, flushConfigApply,
         CheckAndEnforce, Regenerate, SyncQueues, SyncGoesOn, generateConfigYAML,
         GenerateFails, BeginCoreUpdate, CoreUpdate, DownloadFails, SwitchBegins,
         SwitchEnds, finishCoreUpdate
    <2> QED BY <2>4 DEF RestoreDatabase
  <1> QED BY <1>1, Invariance, PTL DEF Spec, SwitchUndisturbed
=============================================================================
