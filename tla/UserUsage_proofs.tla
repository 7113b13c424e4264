--------------------------- MODULE UserUsage_proofs ---------------------------
(***************************************************************************)
(* Proofs about UserUsage: UsageInv is inductive, for any connections,     *)
(* limits and numbers of days, faults and requests.                        *)
(***************************************************************************)
EXTENDS UserUsage, FiniteSetTheorems, TLAPS

-----------------------------------------------------------------------------
(* Types *)

LEMMA ZeroType == Zero \in Bytes
  BY DEF Zero, Bytes

LEMMA NewRowType == NewRow \in Row
  BY ZeroType DEF NewRow, Row, When, Never

LEMMA Numbers ==
  /\ CycleDays \in Nat /\ RenewDays \in Nat /\ FirstDays \in Nat
  /\ 1 \in Day
  /\ Day \subseteq Nat
  /\ Never \in Nat
  <1>1. MaxDay \in Nat /\ 1 <= MaxDay
    BY UserUsageAssumption
  <1> QED BY <1>1, UserUsageAssumption DEF Day, Never

LEMMA IdleType ==
  /\ Idle \in TickState
  /\ \A s \in PC : [Idle EXCEPT !.pc = s] \in TickState
  /\ \A s \in PC, d \in Day : [Idle EXCEPT !.pc = s, !.day = d] \in TickState
  <1>1. Idle \in TickState
    BY ZeroType, Numbers DEF Idle, TickState, PC, When
  <1> QED BY <1>1 DEF TickState

\* A delta is a number of bytes: it never takes anything off a counter.
LEMMA DeltaType ==
  ASSUME TypeOK
  PROVE  \A c \in Conn : Delta(c) \in Nat /\ Met(c) \in Nat /\ Owed(c) \in Nat
  BY DEF TypeOK, TickState, Bytes, Delta, Met, Owed, At

LEMMA TouchedType == TypeOK => Touched \in Row
  <1> SUFFICES ASSUME TypeOK
               PROVE  Touched \in Row
    OBVIOUS
  <1>1. now \in When /\ now + FirstDays \in When
    BY Numbers DEF TypeOK, When
  <1>2. [row EXCEPT !.first = now,
                    !.expire = IF FirstDays > 0 THEN now + FirstDays ELSE @] \in Row
    BY <1>1 DEF TypeOK, Row
  <1> QED BY <1>2 DEF Touched, TypeOK

LEMMA TypeInit == Init => TypeOK
  <1> SUFFICES ASSUME Init
               PROVE  TypeOK
    OBVIOUS
  <1>1. Idle \in TickState
    BY IdleType DEF Day, PC
  <1>2. row \in Row
    BY NewRowType DEF Init, Row
  <1>3. edit \in [kind : {"none", "update", "extend"}, copy : Row]
    BY NewRowType DEF Init, NoEdit
  <1>4. row.cycleOn \in BOOLEAN
    BY <1>2 DEF Row
  <1> QED BY <1>1, <1>2, <1>3, <1>4, ZeroType, Numbers
          DEF Init, TypeOK, Never, Bytes

LEMMA TypeWorld == TypeOK /\ World => TypeOK'
  <1> SUFFICES ASSUME TypeOK, World
               PROVE  TypeOK'
    OBVIOUS
  <1>1. ASSUME NEW c \in Conn, Connect(c) \/ Carry(c) \/ Disconnect(c)
        PROVE  TypeOK'
    <2>1. conn' \in [Conn -> [st : {"new", "open", "closed"}, bytes : Nat]]
      BY <1>1 DEF Connect, Carry, Disconnect, TypeOK
    <2> QED BY <1>1, <2>1
            DEF Connect, Carry, Disconnect, TypeOK, Core, stored, history
  <1>2. CASE NextDay
    <2>1. now' \in Day
      BY <1>2, UserUsageAssumption DEF NextDay, TypeOK, Day
    <2> QED BY <1>2, <2>1 DEF NextDay, TypeOK, stored, history
  <1> QED BY <1>1, <1>2 DEF World

LEMMA TypeCollect == TypeOK /\ CollectOnce => TypeOK'
  <1> SUFFICES ASSUME TypeOK, CollectOnce
               PROVE  TypeOK'
    OBVIOUS
  <1>1. CASE Fetch
    <2>1. [c \in Conn |-> IF IsOpen(c) THEN conn[c].bytes ELSE 0] \in Bytes
      BY DEF TypeOK, Bytes, IsOpen
    <2>2. Opened \in SUBSET Conn
      BY DEF Opened
    <2>3. PICK known \in BOOLEAN :
            tick' = [Idle EXCEPT !.pc = "record", !.known = known, !.shown = Opened,
                       !.view = [c \in Conn |-> IF IsOpen(c) THEN conn[c].bytes ELSE 0]]
      BY <1>1 DEF Fetch
    <2>4. tick' \in TickState
      <3>1. "record" \in PC
        BY DEF PC
      <3>2. Idle \in TickState
        BY IdleType
      <3> QED BY <2>1, <2>2, <2>3, <3>1, <3>2 DEF TickState
    <2> QED BY <1>1, <2>4 DEF Fetch, TypeOK, stored, history
  <1>2. CASE NothingUsed
    BY <1>2 DEF NothingUsed, TypeOK, TickState, Goto, PC, stored, history
  <1>3. CASE CreateRecord
    <2>1. recorded' \in Bytes
      BY <1>3, DeltaType DEF CreateRecord, TypeOK, Bytes
    <2> QED BY <1>3, <2>1 DEF CreateRecord, TypeOK, TickState, Goto, PC, history
  <1>4. CASE AddSample
    <2>1. [c \in Conn |-> row.used[c] + Delta(c)] \in Bytes
      BY DeltaType DEF TypeOK, Row, Bytes
    <2>2. row' \in Row
      BY <1>4, <2>1 DEF AddSample, TypeOK, Row
    <2> QED BY <1>4, <2>2 DEF AddSample, TypeOK, TickState, Goto, PC, history
  <1>5. CASE SampleFails \/ TouchFails
    BY <1>5 DEF SampleFails, TouchFails, TypeOK, TickState, Goto, Fault, PC, stored, history
  <1>6. CASE TouchFirstUse
    <2>1. row' \in Row
      BY <1>6, TouchedType DEF TouchFirstUse, TypeOK
    <2> QED BY <1>6, <2>1 DEF TouchFirstUse, TypeOK, TickState, Goto, PC, history
  <1>7. CASE MarkOffline
    <2>1. Active \in BOOLEAN
      BY DEF Active, TypeOK
    <2>2. row' \in Row
      BY <1>7, <2>1 DEF MarkOffline, TypeOK, Row
    <2> QED BY <1>7, <2>2 DEF MarkOffline, TypeOK, TickState, Goto, PC, history
  <1>8. CASE MarkOfflineFails
    <2>1. excess' \in Bytes
      BY <1>8, DeltaType DEF MarkOfflineFails, TypeOK, Bytes
    <2>2. tick' \in TickState
      BY <1>8, IdleType DEF MarkOfflineFails, PC, Day
    <2> QED BY <1>8, <2>1, <2>2 DEF MarkOfflineFails, TypeOK, Fault, stored
  <1> QED BY <1>1, <1>2, <1>3, <1>4, <1>5, <1>6, <1>7, <1>8 DEF CollectOnce

LEMMA TypeRest ==
  TypeOK /\ (EnforceIPLimits \/ MaybeResetMonthlyTraffic \/ MaybeApplyUserCycles)
    => TypeOK'
  <1> SUFFICES ASSUME TypeOK,
                      EnforceIPLimits \/ MaybeResetMonthlyTraffic \/ MaybeApplyUserCycles
               PROVE  TypeOK'
    OBVIOUS
  <1>1. CASE EnforceIPLimits
    <2>1. conn' \in [Conn -> [st : {"new", "open", "closed"}, bytes : Nat]]
      BY <1>1 DEF EnforceIPLimits, TypeOK
    <2>2. tick' \in TickState
      BY <1>1, IdleType DEF EnforceIPLimits, PC
    <2>3. faults' \in Nat
      BY <1>1 DEF EnforceIPLimits, TypeOK, Fault
    <2> QED BY <1>1, <2>1, <2>2, <2>3
            DEF EnforceIPLimits, TypeOK, stored, history
  <1>2. CASE ClaimDay
    <2>1. tick' \in TickState
      BY <1>2, IdleType DEF ClaimDay, TypeOK, PC
    <2> QED BY <1>2, <2>1 DEF ClaimDay, TypeOK, history
  <1>3. CASE NoReset \/ ClaimFails
    BY <1>3 DEF NoReset, ClaimFails, TypeOK, TickState, Goto, Fault, PC, stored, history
  <1>4. CASE ResetMonthlyTraffic
    <2>1. tick' \in TickState
      BY <1>4, IdleType DEF ResetMonthlyTraffic, PC
    <2>2. row' \in Row
      BY <1>4, ZeroType DEF ResetMonthlyTraffic, TypeOK, Row
    <2>3. resets' \in [Day -> Nat]
      BY <1>4 DEF ResetMonthlyTraffic, TypeOK, TickState
    <2> QED BY <1>4, <2>1, <2>2, <2>3 DEF ResetMonthlyTraffic, TypeOK
  <1>5. CASE ResetFails \/ CyclesFail
    <2>1. tick' \in TickState
      BY <1>5, IdleType DEF ResetFails, CyclesFail, PC
    <2> QED BY <1>5, <2>1
            DEF ResetFails, CyclesFail, TypeOK, Fault, stored, history
  <1>6. CASE FindCycles
    BY <1>6 DEF FindCycles, TypeOK, TickState, Row, PC, stored, history
  <1>7. CASE ApplyUserCycles
    <2>1. tick' \in TickState
      BY <1>7, IdleType DEF ApplyUserCycles, PC
    <2>2. tick.day \in Day
      BY DEF TypeOK, TickState
    <2>3. tick.day \in Nat
      BY <2>2, Numbers
    <2>4. RenewDays \in Nat
      BY Numbers
    <2>5. tick.day \in When /\ tick.day + RenewDays \in When
      BY <2>3, <2>4 DEF When
    <2>6. row' \in Row
      BY <1>7, <2>5, ZeroType DEF ApplyUserCycles, TypeOK, Row
    <2> QED BY <1>7, <2>1, <2>6 DEF ApplyUserCycles, TypeOK, history
  <1> QED BY <1>1, <1>2, <1>3, <1>4, <1>5, <1>6, <1>7
          DEF MaybeResetMonthlyTraffic, MaybeApplyUserCycles

LEMMA TypeRequest == TypeOK /\ Request => TypeOK'
  <1> SUFFICES ASSUME TypeOK, Request
               PROVE  TypeOK'
    OBVIOUS
  <1>1. ASSUME NEW kind \in {"update", "extend"}, NEW copy \in Row, ReadUser(kind, copy)
        PROVE  TypeOK'
    BY <1>1 DEF ReadUser, TypeOK, stored, history
  <1>2. row \in Row /\ [NewRow EXCEPT !.expire = row.expire] \in Row
    BY NewRowType DEF TypeOK, Row
  <1>3. NoEdit \in [kind : {"none", "update", "extend"}, copy : Row]
    BY NewRowType DEF NoEdit
  <1>4. CASE SaveUser
    <2>1. row' \in Row
      BY <1>4 DEF SaveUser, TypeOK, Row
    <2> QED BY <1>4, <1>3, <2>1 DEF SaveUser, TypeOK, history
  <1>5. CASE SaveExpiry
    <2>1. row' \in Row
      BY <1>5, Numbers DEF SaveExpiry, TypeOK, Row, When
    <2> QED BY <1>5, <1>3, <2>1 DEF SaveExpiry, TypeOK, history
  <1>6. CASE ResetTraffic
    <2>1. row' \in Row
      BY <1>6, ZeroType DEF ResetTraffic, TypeOK, Row
    <2> QED BY <1>6, <2>1 DEF ResetTraffic, TypeOK, history
  <1>7. CASE PullSubscription
    BY <1>7, TouchedType DEF PullSubscription, TypeOK, history
  <1>8. ASSUME NEW enabled \in BOOLEAN, SetEnabled(enabled)
        PROVE  TypeOK'
    <2>1. row' \in Row
      BY <1>8 DEF SetEnabled, TypeOK, Row
    <2> QED BY <1>8, <2>1 DEF SetEnabled, TypeOK, history
  <1> QED BY <1>1, <1>2, <1>4, <1>5, <1>6, <1>7, <1>8 DEF Request

LEMMA TypeRestart == TypeOK /\ PanelRestart => TypeOK'
  <1> SUFFICES ASSUME TypeOK, PanelRestart
               PROVE  TypeOK'
    OBVIOUS
  <1>1. tick' \in TickState
    BY IdleType DEF PanelRestart, PC, Day
  <1>2. edit' \in [kind : {"none", "update", "extend"}, copy : Row]
    BY NewRowType DEF PanelRestart, NoEdit
  <1>3. excess' \in Bytes
    BY DeltaType DEF PanelRestart, TypeOK, Bytes
  <1> QED BY <1>1, <1>2, <1>3, ZeroType DEF PanelRestart, TypeOK, Fault, stored

LEMMA TypeStep == TypeOK /\ [Next]_vars => TypeOK'
  <1> SUFFICES ASSUME TypeOK, [Next]_vars
               PROVE  TypeOK'
    OBVIOUS
  <1>1. CASE Next
    BY <1>1, TypeWorld, TypeCollect, TypeRest, TypeRequest, TypeRestart
       DEF Next, Tick
  <1>2. CASE UNCHANGED vars
    BY <1>2 DEF TypeOK, vars, stored, history
  <1> QED BY <1>1, <1>2

-----------------------------------------------------------------------------
(* Samples and deltas *)

\* What is not shown has no delta; what is shown has none beyond its view.
LEMMA DeltaFacts ==
  ASSUME TypeOK, SampleTrue, NEW c \in Conn
  PROVE  /\ prevConn[c] \in Nat /\ tick.view[c] \in Nat /\ Delta(c) \in Nat
         /\ c \notin tick.shown => Delta(c) = 0
         /\ c \in tick.shown => prevConn[c] + Delta(c) <= tick.view[c]
  <1>1. prevConn[c] \in Nat /\ tick.view[c] \in Nat
    BY DEF TypeOK, TickState, Bytes
  <1> QED BY <1>1, DeltaType DEF Delta, SampleTrue

LEMMA GotoFacts ==
  ASSUME TypeOK, NEW pc \in PC, Goto(pc)
  PROVE  tick'.view = tick.view /\ tick'.shown = tick.shown /\ tick'.pc = pc
  BY DEF TypeOK, TickState, Goto

\* A step within a tick leaves the deltas as they are.
LEMMA SameDelta ==
  ASSUME TypeOK, NEW pc \in PC, Goto(pc), UNCHANGED prevConn
  PROVE  /\ \A c \in Conn : Delta(c)' = Delta(c)
         /\ tick'.view = tick.view /\ tick'.shown = tick.shown /\ tick'.pc = pc
  BY DEF TypeOK, TickState, Goto, Delta

\* Between two ticks nothing is seen and nothing is met.
LEMMA IdleFacts ==
  ASSUME NEW s \in PC
  PROVE  /\ Idle.shown = {} /\ Idle.view = Zero /\ Idle.pc = "idle"
         /\ [Idle EXCEPT !.pc = s].shown = {}
         /\ [Idle EXCEPT !.pc = s].view = Zero
         /\ [Idle EXCEPT !.pc = s].pc = s
  BY DEF Idle

\* Where the deltas count as met, and what that means one step later.
LEMMA MetFacts ==
  ASSUME TypeOK, NEW c \in Conn
  PROVE  /\ tick.pc \in {"count", "touch", "offline"} => Met(c) = Delta(c)
         /\ tick.pc \notin {"count", "touch", "offline"} => Met(c) = 0
         /\ tick.pc = "count" => Owed(c) = Delta(c)
         /\ tick.pc # "count" => Owed(c) = 0
  BY DEF Met, Owed, At

LEMMA SampleStep ==
  ASSUME UsageInv, Next
  PROVE  SampleTrue'
  <1> USE DEF UsageInv
  <1>0. \A c \in Conn : /\ conn[c].bytes \in Nat /\ prevConn[c] \in Nat
                        /\ tick.view[c] \in Nat
    BY DEF TypeOK, TickState, Bytes
  <1>1. ASSUME NEW d \in Conn, Connect(d) \/ Carry(d) \/ Disconnect(d)
        PROVE  SampleTrue'
    BY <1>0, <1>1 DEF Connect, Carry, Disconnect, Core, SampleTrue, TypeOK, IsOpen
  <1>2. CASE Fetch
    <2>1. tick'.view = [c \in Conn |-> IF IsOpen(c) THEN conn[c].bytes ELSE 0]
      BY <1>2 DEF Fetch, Idle
    <2>2. tick'.shown = Opened
      BY <1>2 DEF Fetch, Idle
    <2> QED BY <1>0, <1>2, <2>1, <2>2 DEF Fetch, SampleTrue, Opened, IsOpen
  <1>3. CASE NothingUsed \/ CreateRecord \/ AddSample \/ SampleFails \/ TouchFirstUse
             \/ TouchFails \/ NoReset \/ ClaimFails
    <2>1. PICK pc \in PC : Goto(pc)
      BY <1>3 DEF NothingUsed, CreateRecord, AddSample, SampleFails, TouchFirstUse,
                  TouchFails, NoReset, ClaimFails, PC
    <2>2. UNCHANGED <<conn, prevConn>>
      BY <1>3 DEF NothingUsed, CreateRecord, AddSample, SampleFails, TouchFirstUse,
                  TouchFails, NoReset, ClaimFails
    <2> QED BY <2>1, <2>2, SameDelta DEF SampleTrue
  <1>4. CASE MarkOffline
    <2>1. tick'.view = tick.view /\ tick'.shown = tick.shown
      BY <1>4, GotoFacts DEF MarkOffline, PC
    <2> QED BY <1>0, <1>4, <2>1 DEF MarkOffline, SampleTrue
  <1>5. CASE EnforceIPLimits
    <2>1. \A c \in Conn : /\ conn'[c].bytes = conn[c].bytes
                          /\ conn'[c].st = "new" => conn[c].st = "new"
      BY <1>5 DEF EnforceIPLimits, TypeOK
    <2>2. tick'.shown = {} /\ tick'.view = Zero
      BY <1>5, IdleFacts DEF EnforceIPLimits, PC
    <2> QED BY <1>0, <1>5, <2>1, <2>2 DEF EnforceIPLimits, SampleTrue, Zero
  <1>6. CASE MarkOfflineFails \/ ClaimDay \/ ResetMonthlyTraffic \/ ResetFails
             \/ ApplyUserCycles \/ CyclesFail
    <2>1. tick'.shown = {} /\ tick'.view = Zero
      <3>1. CASE ClaimDay
        BY <3>1 DEF ClaimDay, Idle
      <3>2. CASE MarkOfflineFails \/ ApplyUserCycles \/ CyclesFail
        BY <3>2 DEF MarkOfflineFails, ApplyUserCycles, CyclesFail, Idle
      <3>3. CASE ResetMonthlyTraffic \/ ResetFails
        BY <3>3, IdleFacts DEF ResetMonthlyTraffic, ResetFails, PC
      <3> QED BY <1>6, <3>1, <3>2, <3>3
    <2>2. UNCHANGED <<conn, prevConn>>
      BY <1>6 DEF MarkOfflineFails, ClaimDay, ResetMonthlyTraffic, ResetFails,
                  ApplyUserCycles, CyclesFail
    <2> QED BY <1>0, <2>1, <2>2 DEF SampleTrue, Zero
  <1>7. CASE FindCycles
    BY <1>7 DEF FindCycles, SampleTrue, TypeOK, TickState
  <1>8. CASE Request \/ NextDay
    BY <1>8 DEF Request, ReadUser, SaveUser, SaveExpiry, SetEnabled, ResetTraffic,
                PullSubscription, NextDay,
                SampleTrue
  <1>9. CASE PanelRestart
    BY <1>0, <1>9, IdleFacts DEF PanelRestart, SampleTrue, Zero, PC
  <1> QED BY <1>1, <1>2, <1>3, <1>4, <1>5, <1>6, <1>7, <1>8, <1>9
          DEF Next, Tick, CollectOnce, MaybeResetMonthlyTraffic, MaybeApplyUserCycles, World

LEMMA UnseenStep ==
  ASSUME UsageInv, Next
  PROVE  UnseenNew'
  <1> USE DEF UsageInv
  <1>0. \A c \in Conn : conn[c].bytes \in Nat /\ prevConn[c] \in Nat
    BY DEF TypeOK, Bytes
  <1>1. ASSUME NEW d \in Conn, Connect(d) \/ Carry(d) \/ Disconnect(d)
        PROVE  UnseenNew'
    BY <1>1 DEF Connect, Carry, Disconnect, Core, UnseenNew, Collecting, TypeOK, IsOpen
  <1>2. CASE Fetch
    <2>1. tick'.shown = Opened
      BY <1>2 DEF Fetch, Idle
    <2> QED BY <1>0, <1>2, <2>1 DEF Fetch, UnseenNew, SampleTrue, TypeOK, Opened, IsOpen
  <1>3. CASE NothingUsed \/ CreateRecord \/ AddSample \/ SampleFails \/ TouchFirstUse
             \/ TouchFails
    <2>1. PICK pc \in PC : Goto(pc)
      BY <1>3 DEF NothingUsed, CreateRecord, AddSample, SampleFails, TouchFirstUse,
                  TouchFails, PC
    <2>2. UNCHANGED <<conn, prevConn>> /\ Collecting
      BY <1>3 DEF NothingUsed, CreateRecord, AddSample, SampleFails, TouchFirstUse,
                  TouchFails, Collecting, At
    <2> QED BY <2>1, <2>2, SameDelta DEF UnseenNew
  <1>4. CASE Request \/ NextDay
    BY <1>4 DEF Request, ReadUser, SaveUser, SaveExpiry, SetEnabled, ResetTraffic,
                PullSubscription, NextDay,
                UnseenNew, Collecting
  <1>5. CASE MarkOffline \/ MarkOfflineFails \/ EnforceIPLimits \/ MaybeResetMonthlyTraffic
             \/ MaybeApplyUserCycles \/ PanelRestart
    <2>1. ~Collecting'
      <3>1. CASE MarkOffline \/ NoReset \/ ClaimFails
        BY <3>1, GotoFacts DEF MarkOffline, NoReset, ClaimFails, Collecting, PC
      <3>2. CASE MarkOfflineFails \/ ApplyUserCycles \/ CyclesFail \/ PanelRestart
        BY <3>2 DEF MarkOfflineFails, ApplyUserCycles, CyclesFail, PanelRestart, Idle,
                    Collecting
      <3>3. CASE EnforceIPLimits \/ ResetMonthlyTraffic \/ ResetFails
        BY <3>3, IdleFacts DEF EnforceIPLimits, ResetMonthlyTraffic, ResetFails, PC,
                    Collecting
      <3>4. CASE ClaimDay \/ FindCycles
        BY <3>4 DEF ClaimDay, FindCycles, Idle, Collecting, TypeOK, TickState
      <3> QED BY <1>5, <3>1, <3>2, <3>3, <3>4
              DEF MaybeResetMonthlyTraffic, MaybeApplyUserCycles
    <2> QED BY <2>1 DEF UnseenNew
  <1> QED BY <1>1, <1>2, <1>3, <1>4, <1>5 DEF Next, Tick, CollectOnce, World

\* Records: what a tick is about to remember is what it has recorded.
LEMMA RecordsStep ==
  ASSUME UsageInv, Next
  PROVE  RecordsTrue'
  <1> USE DEF UsageInv
  <1>0. \A c \in Conn : /\ conn[c].bytes \in Nat /\ recorded[c] \in Nat
                        /\ excess[c] \in Nat /\ Met(c) \in Nat
    BY DeltaType DEF TypeOK, Bytes
  <1>1. ASSUME NEW d \in Conn, Connect(d) \/ Carry(d) \/ Disconnect(d)
        PROVE  RecordsTrue'
    <2>1. \A c \in Conn : /\ conn'[c].bytes \in Nat
                          /\ conn[c].bytes <= conn'[c].bytes
                          /\ conn'[c].st # "closed" => conn[c].st # "closed"
      BY <1>1 DEF Connect, Carry, Disconnect, TypeOK, IsOpen
    <2>2. UNCHANGED <<tick, prevConn, recorded, excess>>
      BY <1>1 DEF Connect, Carry, Disconnect, Core, stored, history
    <2>3. \A c \in Conn : Met(c)' = Met(c)
      BY <2>2 DEF Met, Delta
    <2>4. ASSUME NEW c \in Conn
          PROVE  /\ recorded[c] <= conn'[c].bytes + excess[c]
                 /\ c \in tick.shown \/ conn'[c].st # "closed" =>
                       recorded[c] <= prevConn[c] + Met(c) + excess[c]
      <3>1. /\ recorded[c] <= conn[c].bytes + excess[c]
            /\ c \in tick.shown \/ conn[c].st # "closed" =>
                  recorded[c] <= prevConn[c] + Met(c) + excess[c]
        BY DEF RecordsTrue
      <3>2. recorded[c] <= conn'[c].bytes + excess[c]
        BY <1>0, <2>1, <3>1
      <3>3. conn'[c].st # "closed" => conn[c].st # "closed"
        BY <2>1
      <3> QED BY <3>1, <3>2, <3>3
    <2> QED BY <2>2, <2>3, <2>4 DEF RecordsTrue
  <1>2. CASE Fetch
    <2>1. tick'.shown = Opened /\ tick'.pc = "record" /\ tick.pc = "idle"
      BY <1>2 DEF Fetch, Idle, At
    <2>2. \A c \in Conn : Met(c) = 0 /\ Met(c)' = 0
      BY <2>1 DEF Met
    <2> QED BY <1>2, <2>1, <2>2
            DEF Fetch, RecordsTrue, TypeOK, Opened, IsOpen, stored, history
  <1>3. CASE CreateRecord
    <2>1. tick'.pc = "count" /\ tick.pc = "record" /\ tick'.shown = tick.shown
      BY <1>3, SameDelta DEF CreateRecord, PC, At
    <2>2. \A c \in Conn : Met(c) = 0 /\ Met(c)' = Delta(c)
      BY <1>3, <2>1, SameDelta DEF CreateRecord, Met, PC
    <2>3. UNCHANGED <<conn, prevConn, excess>>
      BY <1>3 DEF CreateRecord, history
    <2>4. \A c \in Conn : recorded'[c] = recorded[c] + Delta(c)
      BY <1>3 DEF CreateRecord
    <2>5. ASSUME NEW c \in Conn
          PROVE  /\ recorded'[c] <= conn[c].bytes + excess[c]
                 /\ c \in tick.shown \/ conn[c].st # "closed" =>
                       recorded'[c] <= prevConn[c] + Delta(c) + excess[c]
      <3>1. tick.view[c] <= conn[c].bytes
        BY DEF SampleTrue
      <3>2. /\ recorded[c] <= conn[c].bytes + excess[c]
            /\ c \in tick.shown \/ conn[c].st # "closed" =>
                  recorded[c] <= prevConn[c] + excess[c]
        BY <1>0, <2>2, DeltaFacts DEF RecordsTrue
      <3> QED BY <1>0, <2>4, <3>1, <3>2, DeltaFacts
    <2> QED BY <2>1, <2>2, <2>3, <2>5 DEF RecordsTrue
  <1>4. CASE NothingUsed \/ AddSample \/ SampleFails \/ TouchFirstUse \/ TouchFails
    <2>1. PICK pc \in {"touch", "offline"} : Goto(pc)
      BY <1>4 DEF NothingUsed, AddSample, SampleFails, TouchFirstUse, TouchFails
    <2>2. UNCHANGED <<conn, prevConn, recorded, excess>>
      BY <1>4 DEF NothingUsed, AddSample, SampleFails, TouchFirstUse, TouchFails,
                  stored, history
    <2>3. tick'.pc \in {"touch", "offline"} /\ tick'.shown = tick.shown
      BY <2>1, GotoFacts DEF PC
    <2>4. \A c \in Conn : Met(c)' = Delta(c)
      BY <2>1, <2>2, <2>3, SameDelta DEF Met, PC
    <2>5. \A c \in Conn : Met(c) <= Delta(c)
      BY DeltaType, MetFacts
    <2> QED BY <1>0, <2>2, <2>3, <2>4, <2>5, DeltaFacts DEF RecordsTrue
  <1>5. CASE MarkOffline
    <2>1. tick'.pc = "limit" /\ tick.pc = "offline" /\ tick'.shown = tick.shown
      BY <1>5, GotoFacts DEF MarkOffline, PC, At
    <2>2. \A c \in Conn : Met(c) = Delta(c) /\ Met(c)' = 0
      BY <2>1 DEF Met
    <2>3. UNCHANGED <<conn, recorded, excess>> /\ prevConn' = tick.view
      BY <1>5 DEF MarkOffline, history
    <2>4. ASSUME NEW c \in Conn, c \in tick.shown \/ conn[c].st # "closed"
          PROVE  recorded[c] <= tick.view[c] + excess[c]
      <3>1. recorded[c] <= prevConn[c] + Delta(c) + excess[c]
        BY <2>2, <2>4 DEF RecordsTrue
      <3>2. c \notin tick.shown => prevConn[c] = 0
        BY <2>1, <2>4 DEF UnseenNew, Collecting
      <3> QED BY <1>0, <3>1, <3>2, DeltaFacts
    <2>5. \A c \in Conn : recorded[c] <= conn[c].bytes + excess[c]
      BY DEF RecordsTrue
    <2>6. \A c \in Conn : tick.view[c] \in Nat
      BY DeltaFacts
    <2> QED BY <1>0, <2>1, <2>2, <2>3, <2>4, <2>5, <2>6 DEF RecordsTrue
  <1>6. CASE MarkOfflineFails
    <2>1. tick'.pc = "idle" /\ tick'.shown = {}
      BY <1>6 DEF MarkOfflineFails, Idle
    <2>2. \A c \in Conn : Met(c)' = 0 /\ excess'[c] = excess[c] + Met(c)
      BY <1>6, <2>1 DEF MarkOfflineFails, Met
    <2>3. UNCHANGED <<conn, recorded, prevConn>>
      BY <1>6 DEF MarkOfflineFails, stored
    <2> QED BY <1>0, <2>1, <2>2, <2>3, DeltaFacts DEF RecordsTrue
  <1>7. CASE EnforceIPLimits
    <2>1. tick'.pc = "claim" /\ tick.pc = "limit" /\ tick'.shown = {}
      BY <1>7, IdleFacts DEF EnforceIPLimits, PC, At
    <2>2. \A c \in Conn : Met(c) = 0 /\ Met(c)' = 0
      BY <2>1 DEF Met
    <2>3. \A c \in Conn : /\ conn'[c].bytes = conn[c].bytes
                          /\ conn'[c].st # "closed" => conn[c].st # "closed"
      BY <1>7 DEF EnforceIPLimits, TypeOK
    <2> QED BY <1>7, <2>1, <2>2, <2>3 DEF EnforceIPLimits, RecordsTrue, stored, history
  <1>8. CASE MaybeResetMonthlyTraffic \/ MaybeApplyUserCycles
    <2>1. tick'.shown \subseteq tick.shown
      <3>1. CASE NoReset \/ ClaimFails
        BY <3>1, GotoFacts DEF NoReset, ClaimFails, PC
      <3>2. CASE ResetMonthlyTraffic \/ ResetFails
        BY <3>2, IdleFacts DEF ResetMonthlyTraffic, ResetFails, PC
      <3>3. CASE ApplyUserCycles \/ CyclesFail
        BY <3>3 DEF ApplyUserCycles, CyclesFail, Idle
      <3>4. CASE ClaimDay
        BY <3>4 DEF ClaimDay, Idle
      <3>5. CASE FindCycles
        BY <3>5 DEF FindCycles, TypeOK, TickState
      <3> QED BY <1>8, <3>1, <3>2, <3>3, <3>4, <3>5
              DEF MaybeResetMonthlyTraffic, MaybeApplyUserCycles
    <2>2. /\ tick.pc \notin {"count", "touch", "offline"}
          /\ tick'.pc \notin {"count", "touch", "offline"}
      <3>1. CASE NoReset \/ ClaimFails
        BY <3>1, GotoFacts DEF NoReset, ClaimFails, PC, At
      <3>2. CASE ResetMonthlyTraffic \/ ResetFails
        BY <3>2, IdleFacts DEF ResetMonthlyTraffic, ResetFails, PC, At
      <3>3. CASE ApplyUserCycles \/ CyclesFail
        BY <3>3 DEF ApplyUserCycles, CyclesFail, Idle, At
      <3>4. CASE ClaimDay
        BY <3>4 DEF ClaimDay, Idle, At
      <3>5. CASE FindCycles
        BY <3>5 DEF FindCycles, TypeOK, TickState, At
      <3> QED BY <1>8, <3>1, <3>2, <3>3, <3>4, <3>5
              DEF MaybeResetMonthlyTraffic, MaybeApplyUserCycles
    <2>3. \A c \in Conn : Met(c) = 0 /\ Met(c)' = 0
      BY <2>2 DEF Met
    <2>4. UNCHANGED <<conn, prevConn, recorded, excess>>
      BY <1>8 DEF MaybeResetMonthlyTraffic, ClaimDay, NoReset, ClaimFails,
                  ResetMonthlyTraffic, ResetFails, MaybeApplyUserCycles, FindCycles,
                  ApplyUserCycles, CyclesFail, stored, history
    <2> QED BY <2>1, <2>3, <2>4 DEF RecordsTrue
  <1>9. CASE Request \/ NextDay
    <2>1. UNCHANGED <<conn, prevConn, recorded, excess, tick>>
      BY <1>9 DEF Request, ReadUser, SaveUser, SaveExpiry, SetEnabled, ResetTraffic,
                PullSubscription, NextDay,
                  stored, history
    <2>2. \A c \in Conn : Met(c)' = Met(c)
      BY <2>1 DEF Met, Delta
    <2> QED BY <2>1, <2>2 DEF RecordsTrue
  <1>10. CASE PanelRestart
    <2>1. tick'.pc = "idle" /\ tick'.shown = {}
      BY <1>10 DEF PanelRestart, Idle
    <2>2. \A c \in Conn : Met(c)' = 0 /\ prevConn'[c] = 0
                         /\ excess'[c] = excess[c] + prevConn[c] + Met(c)
      BY <1>10, <2>1 DEF PanelRestart, Met, Zero
    <2>3. UNCHANGED <<conn, recorded>>
      BY <1>10 DEF PanelRestart, stored
    <2> QED BY <1>0, <2>1, <2>2, <2>3, DeltaFacts DEF RecordsTrue
  <1> QED BY <1>1, <1>2, <1>3, <1>4, <1>5, <1>6, <1>7, <1>8, <1>9, <1>10
          DEF Next, Tick, CollectOnce, World

\* Counters and copies stay within the records; only CreateRecord adds to both.
LEMMA CoveredStep ==
  ASSUME UsageInv, Next
  PROVE  Covered'
  <1> USE DEF UsageInv
  <1>0. \A c \in Conn : /\ recorded[c] \in Nat /\ row.used[c] \in Nat
                        /\ edit.copy.used[c] \in Nat
                        /\ Delta(c) \in Nat /\ Owed(c) \in Nat
    BY DeltaType DEF TypeOK, Row, Bytes
  <1>1. \A c \in Conn : row.used[c] <= recorded[c] /\ edit.copy.used[c] <= recorded[c]
    BY <1>0 DEF Covered
  <1>2. CASE World
    <2>1. UNCHANGED <<row, recorded, edit, tick, prevConn>>
      BY <1>2 DEF World, Connect, Carry, Disconnect, NextDay, Core, stored
    <2> QED BY <2>1 DEF Covered, Owed, Delta, At
  <1>3. CASE CreateRecord
    <2>1. tick'.pc = "count"
      BY <1>3, SameDelta DEF CreateRecord, PC
    <2>2. \A c \in Conn : Owed(c)' = Delta(c)
      BY <1>3, <2>1, SameDelta DEF CreateRecord, PC, Owed, At
    <2>3. \A c \in Conn : recorded'[c] = recorded[c] + Delta(c)
      BY <1>3 DEF CreateRecord
    <2>4. UNCHANGED <<row, edit>>
      BY <1>3 DEF CreateRecord
    <2>5. ASSUME NEW c \in Conn
          PROVE  /\ row.used[c] + Delta(c) <= recorded[c] + Delta(c)
                 /\ edit.copy.used[c] + Delta(c) <= recorded[c] + Delta(c)
      BY <1>0, <1>1
    <2> QED BY <2>2, <2>3, <2>4, <2>5 DEF Covered
  <1>4. CASE AddSample
    <2>1. tick'.pc = "touch" /\ tick.pc = "count"
      BY <1>4, GotoFacts DEF AddSample, PC, At
    <2>2. \A c \in Conn : Owed(c) = Delta(c) /\ Owed(c)' = 0
      BY <2>1 DEF Owed, At
    <2>3. \A c \in Conn : row'.used[c] = row.used[c] + Delta(c)
      BY <1>4 DEF AddSample, TypeOK, Row
    <2>4. UNCHANGED <<recorded, edit>>
      BY <1>4 DEF AddSample
    <2> QED BY <1>0, <1>1, <2>2, <2>3, <2>4 DEF Covered
  <1>5. CASE Fetch \/ NothingUsed \/ SampleFails \/ TouchFirstUse \/ TouchFails
             \/ MarkOffline \/ MarkOfflineFails \/ EnforceIPLimits
             \/ MaybeResetMonthlyTraffic \/ MaybeApplyUserCycles
    <2>1. tick'.pc # "count"
      <3>1. CASE Fetch
        BY <3>1 DEF Fetch, Idle
      <3>2. CASE NothingUsed \/ SampleFails \/ TouchFirstUse \/ TouchFails \/ MarkOffline
                 \/ NoReset \/ ClaimFails
        BY <3>2, GotoFacts DEF NothingUsed, SampleFails, TouchFirstUse, TouchFails,
                               MarkOffline, NoReset, ClaimFails, PC
      <3>3. CASE MarkOfflineFails \/ ApplyUserCycles \/ CyclesFail
        BY <3>3 DEF MarkOfflineFails, ApplyUserCycles, CyclesFail, Idle
      <3>4. CASE EnforceIPLimits \/ ResetMonthlyTraffic \/ ResetFails
        BY <3>4, IdleFacts DEF EnforceIPLimits, ResetMonthlyTraffic, ResetFails, PC
      <3>5. CASE ClaimDay
        BY <3>5 DEF ClaimDay, Idle
      <3>6. CASE FindCycles
        BY <3>6 DEF FindCycles, TypeOK, TickState
      <3> QED BY <1>5, <3>1, <3>2, <3>3, <3>4, <3>5, <3>6
              DEF MaybeResetMonthlyTraffic, MaybeApplyUserCycles
    <2>2. \A c \in Conn : Owed(c)' = 0
      BY <2>1 DEF Owed, At
    <2>3. UNCHANGED <<recorded, edit>>
      BY <1>5 DEF Fetch, NothingUsed, SampleFails, TouchFirstUse, TouchFails, MarkOffline,
                  MarkOfflineFails, EnforceIPLimits, MaybeResetMonthlyTraffic, ClaimDay,
                  NoReset, ClaimFails, ResetMonthlyTraffic, ResetFails,
                  MaybeApplyUserCycles, FindCycles, ApplyUserCycles, CyclesFail, stored
    <2>4. row'.used = row.used \/ row'.used = Zero
      <3>1. CASE TouchFirstUse \/ MarkOffline
        BY <3>1 DEF TouchFirstUse, Touched, MarkOffline, TypeOK, Row
      <3>2. CASE ResetMonthlyTraffic \/ ApplyUserCycles
        BY <3>2 DEF ResetMonthlyTraffic, ApplyUserCycles, TypeOK, Row
      <3>3. CASE ~(TouchFirstUse \/ MarkOffline \/ ResetMonthlyTraffic \/ ApplyUserCycles)
        BY <1>5, <3>3
           DEF Fetch, NothingUsed, SampleFails, TouchFails, MarkOfflineFails,
               EnforceIPLimits, MaybeResetMonthlyTraffic, ClaimDay, NoReset, ClaimFails,
               ResetFails, MaybeApplyUserCycles, FindCycles, CyclesFail, stored
      <3> QED BY <3>1, <3>2, <3>3
    <2> QED BY <1>0, <1>1, <2>2, <2>3, <2>4 DEF Covered, Zero
  <1>6. CASE Request
    <2>1. UNCHANGED <<recorded, tick, prevConn>>
      BY <1>6 DEF Request, ReadUser, SaveUser, SaveExpiry, SetEnabled, ResetTraffic,
                  PullSubscription, stored
    <2>2. \A c \in Conn : Owed(c)' = Owed(c)
      BY <2>1 DEF Owed, Delta, At
    <2>3. /\ row'.used \in {row.used, edit.copy.used, Zero}
          /\ edit'.copy.used \in {row.used, edit.copy.used, Zero}
      <3>1. CASE ReadUser("update", row) \/ SaveExpiry \/ ResetTraffic
        BY <3>1 DEF ReadUser, SaveExpiry, ResetTraffic, stored, NoEdit, NewRow, TypeOK, Row
      <3>2. CASE ReadUser("extend", [NewRow EXCEPT !.expire = row.expire])
        BY <3>2 DEF ReadUser, stored, NewRow
      <3>3. CASE SaveUser
        BY <3>3 DEF SaveUser, NoEdit, NewRow, TypeOK, Row
      <3>4. CASE PullSubscription
        BY <3>4 DEF PullSubscription, Touched, TypeOK, Row
      <3>5. CASE \E enabled \in BOOLEAN : SetEnabled(enabled)
        BY <3>5 DEF SetEnabled, TypeOK, Row
      <3> QED BY <1>6, <3>1, <3>2, <3>3, <3>4, <3>5 DEF Request
    <2>4. \A c \in Conn : /\ row.used[c] + Owed(c) <= recorded[c]
                          /\ edit.copy.used[c] + Owed(c) <= recorded[c]
                          /\ Zero[c] + Owed(c) <= recorded[c]
      BY <1>0 DEF Covered, Zero
    <2> QED BY <2>1, <2>2, <2>3, <2>4 DEF Covered
  <1>7. CASE PanelRestart
    <2>1. tick'.pc = "idle" /\ edit'.copy.used = Zero /\ UNCHANGED <<row, recorded>>
      BY <1>7 DEF PanelRestart, Idle, NoEdit, NewRow, stored
    <2>2. \A c \in Conn : Owed(c)' = 0
      BY <2>1 DEF Owed, At
    <2> QED BY <1>0, <1>1, <2>1, <2>2 DEF Covered, Zero
  <1> QED BY <1>2, <1>3, <1>4, <1>5, <1>6, <1>7 DEF Next, Tick, CollectOnce

\* Days are claimed in their order, and each is reset by the tick that claimed it.
LEMMA DaysStep ==
  ASSUME UsageInv, Next
  PROVE  DaysClaimed' /\ MonthlyOnce'
  <1> USE DEF UsageInv
  <1>0. /\ now \in Nat /\ claimed \in Nat /\ claimed <= now
        /\ \A d \in Day : d \in Nat /\ resets[d] \in Nat
    BY Numbers DEF TypeOK, DaysClaimed
  <1>1. CASE ClaimDay
    <2>1. /\ now \in Day /\ claimed' = now /\ claimed # now /\ now' = now
          /\ resets' = resets
      BY <1>1 DEF ClaimDay, TypeOK, history
    <2>2. tick'.pc = "reset" /\ tick'.day = now
      BY <1>1 DEF ClaimDay, Idle
    <2>3. resets[now] = 0
      BY <1>0, <2>1 DEF DaysClaimed
    <2> QED BY <1>0, <2>1, <2>2, <2>3 DEF DaysClaimed, MonthlyOnce, At
  <1>2. CASE ResetMonthlyTraffic
    <2>1. tick.pc = "reset" /\ tick.day \in Day /\ tick'.pc = "cycles"
      BY <1>2, IdleFacts DEF ResetMonthlyTraffic, TypeOK, TickState, PC, At
    <2>2. /\ resets' = [resets EXCEPT ![tick.day] = @ + 1]
          /\ UNCHANGED <<now, claimed>>
      BY <1>2 DEF ResetMonthlyTraffic
    <2>3. tick.day = claimed /\ resets[tick.day] = 0
      BY <2>1 DEF DaysClaimed, At
    <2>4. \A d \in Day : resets'[d] = IF d = claimed THEN 1 ELSE resets[d]
      BY <2>1, <2>2, <2>3 DEF TypeOK
    <2> QED BY <1>0, <2>1, <2>2, <2>4 DEF DaysClaimed, MonthlyOnce, At
  <1>3. CASE World \/ Request
    <2>1. UNCHANGED <<claimed, resets, tick>> /\ now' \in Nat /\ now <= now'
      <3>1. CASE World
        BY <1>0, <3>1 DEF World, Connect, Carry, Disconnect, NextDay, Core, stored, history
      <3>2. CASE Request
        <4>1. UNCHANGED <<now, claimed, resets, tick>>
          BY <3>2 DEF Request, ReadUser, SaveUser, SaveExpiry, SetEnabled, ResetTraffic,
                      PullSubscription, stored, history
        <4> QED BY <1>0, <4>1
      <3> QED BY <1>3, <3>1, <3>2
    <2> QED BY <1>0, <2>1 DEF DaysClaimed, MonthlyOnce, At
  <1>4. CASE CollectOnce \/ EnforceIPLimits \/ NoReset \/ ClaimFails \/ ResetFails
             \/ MaybeApplyUserCycles \/ PanelRestart
    <2>1. UNCHANGED <<now, claimed, resets>>
      BY <1>4 DEF CollectOnce, Fetch, NothingUsed, CreateRecord, AddSample, SampleFails,
                  TouchFirstUse, TouchFails, MarkOffline, MarkOfflineFails,
                  EnforceIPLimits, NoReset, ClaimFails, ResetFails,
                  MaybeApplyUserCycles, FindCycles, ApplyUserCycles, CyclesFail,
                  PanelRestart, stored, history
    <2>2. tick'.pc # "reset"
      <3>1. CASE Fetch
        BY <3>1 DEF Fetch, Idle
      <3>2. CASE NothingUsed \/ CreateRecord \/ AddSample \/ SampleFails \/ TouchFirstUse
                 \/ TouchFails \/ MarkOffline \/ NoReset \/ ClaimFails
        BY <3>2, GotoFacts DEF NothingUsed, CreateRecord, AddSample, SampleFails,
                  TouchFirstUse, TouchFails, MarkOffline, NoReset, ClaimFails, PC
      <3>3. CASE MarkOfflineFails \/ ApplyUserCycles \/ CyclesFail \/ PanelRestart
        BY <3>3 DEF MarkOfflineFails, ApplyUserCycles, CyclesFail, PanelRestart, Idle
      <3>4. CASE EnforceIPLimits \/ ResetFails
        BY <3>4, IdleFacts DEF EnforceIPLimits, ResetFails, PC
      <3>5. CASE FindCycles
        BY <3>5 DEF FindCycles, TypeOK, TickState
      <3> QED BY <1>4, <3>1, <3>2, <3>3, <3>4, <3>5 DEF CollectOnce, MaybeApplyUserCycles
    <2> QED BY <2>1, <2>2 DEF DaysClaimed, MonthlyOnce, At
  <1> QED BY <1>1, <1>2, <1>3, <1>4 DEF Next, Tick, MaybeResetMonthlyTraffic

-----------------------------------------------------------------------------
(* The theorems *)

LEMMA InvInit == Init => UsageInv
  <1> SUFFICES ASSUME Init
               PROVE  UsageInv
    OBVIOUS
  <1>1. TypeOK
    BY TypeInit
  <1>2. tick.pc = "idle" /\ tick.shown = {} /\ tick.view = Zero
    BY DEF Init, Idle
  <1>3. row.used = Zero /\ edit.copy.used = Zero
    BY DEF Init, NewRow, NoEdit
  <1>4. \A c \in Conn : Owed(c) = 0 /\ Met(c) = 0
    BY <1>2 DEF Owed, Met, At
  <1>5. Covered
    BY <1>3, <1>4 DEF Init, Covered, Zero
  <1>6. SampleTrue
    BY <1>2 DEF Init, SampleTrue, Zero
  <1>7. UnseenNew
    BY <1>2 DEF UnseenNew, Collecting
  <1>8. RecordsTrue
    BY <1>4 DEF Init, RecordsTrue, Zero
  <1>9. DaysClaimed /\ MonthlyOnce
    BY <1>2, Numbers DEF Init, DaysClaimed, MonthlyOnce, Never, At
  <1> QED BY <1>1, <1>5, <1>6, <1>7, <1>8, <1>9 DEF UsageInv

LEMMA InvStep == UsageInv /\ [Next]_vars => UsageInv'
  <1> SUFFICES ASSUME UsageInv, [Next]_vars
               PROVE  UsageInv'
    OBVIOUS
  <1>1. CASE Next
    BY <1>1, TypeStep, CoveredStep, SampleStep, UnseenStep, RecordsStep, DaysStep
       DEF UsageInv
  <1>2. CASE UNCHANGED vars
    <2>1. TypeOK'
      BY TypeStep DEF UsageInv
    <2>2. \A c \in Conn : Delta(c)' = Delta(c)
      BY <1>2 DEF vars, Delta
    <2> QED BY <1>2, <2>1, <2>2
            DEF vars, stored, history, UsageInv, Covered, SampleTrue, UnseenNew, Collecting,
                RecordsTrue, DaysClaimed, MonthlyOnce, Owed, Met, At
  <1> QED BY <1>1, <1>2

\* Every reachable state satisfies the invariant (UserUsage as a whole).
THEOREM Invariance == Spec => []UsageInv
  <1> QED BY InvInit, InvStep, PTL DEF Spec

\* The state of the traffic accounting is well typed.
THEOREM TypeCorrect == Spec => []TypeOK
  <1>1. UsageInv => TypeOK
    BY DEF UsageInv
  <1> QED BY <1>1, Invariance, PTL

\* A user is charged for no byte twice, whatever is saved, reset or fails,
\* except those a failed or forgotten sample makes the collector meet again.
THEOREM NeverOverchargedHolds == Spec => []NeverOvercharged
  <1>1. UsageInv => NeverOvercharged
    <2> SUFFICES ASSUME UsageInv, NEW c \in Conn
                 PROVE  row.used[c] <= conn[c].bytes + excess[c]
      BY DEF NeverOvercharged
    <2>1. /\ conn[c].bytes \in Nat /\ recorded[c] \in Nat /\ excess[c] \in Nat
          /\ row.used[c] \in Nat /\ Owed(c) \in Nat
      BY DeltaType DEF UsageInv, TypeOK, Row, Bytes
    <2>2. row.used[c] + Owed(c) <= recorded[c]
      BY DEF UsageInv, Covered
    <2>3. recorded[c] <= conn[c].bytes + excess[c]
      BY DEF UsageInv, RecordsTrue
    <2> QED BY <2>1, <2>2, <2>3
  <1> QED BY <1>1, Invariance, PTL

\* AddSample's two statements: what is in the counters is in the history.
THEOREM ChargedIsRecordedHolds == Spec => []ChargedIsRecorded
  <1>1. UsageInv => ChargedIsRecorded
    <2> SUFFICES ASSUME UsageInv, NEW c \in Conn
                 PROVE  row.used[c] <= recorded[c]
      BY DEF ChargedIsRecorded
    <2>1. recorded[c] \in Nat /\ row.used[c] \in Nat /\ Owed(c) \in Nat
      BY DeltaType DEF UsageInv, TypeOK, Row, Bytes
    <2>2. row.used[c] + Owed(c) <= recorded[c]
      BY DEF UsageInv, Covered
    <2> QED BY <2>1, <2>2
  <1> QED BY <1>1, Invariance, PTL

\* MaybeResetMonthlyTraffic resets at most once a day.
THEOREM MonthlyOnceHolds == Spec => []MonthlyOnce
  <1>1. UsageInv => MonthlyOnce
    BY DEF UsageInv
  <1> QED BY <1>1, Invariance, PTL

-----------------------------------------------------------------------------
(* The limit of addresses *)

\* Sorting by connections, then by address, leaves no two addresses equal.
LEMMA SortOrder ==
  ASSUME TypeOK
  PROVE  /\ IsFiniteSet(Ips) /\ Ips \subseteq Nat
         /\ \A i, j \in Ips : i # j => Before(i, j) \/ Before(j, i)
         /\ \A i \in Ips : ~Before(i, i)
         /\ \A i, j, k \in Ips : Before(i, j) /\ Before(j, k) => Before(i, k)
         /\ \A i \in Ips : Connections(i) \in Nat
  <1>1. tick.shown \subseteq Conn /\ IsFiniteSet(tick.shown)
    <2>1. tick.shown \in SUBSET Conn
      BY DEF TypeOK, TickState
    <2> QED BY <2>1, FS_Subset, UserUsageAssumption
  <1>2. Ips \subseteq Nat
    BY <1>1, UserUsageAssumption DEF Ips
  <1>3. IsFiniteSet(Ips)
    <2> DEFINE f == [c \in tick.shown |-> IpOf[c]]
    <2>1. f \in Surjection(tick.shown, Ips)
      BY DEF Surjection, Ips
    <2> QED BY <1>1, <2>1, FS_Surjection
  <1>4. \A i \in Ips : Connections(i) \in Nat
    <2> TAKE i \in Ips
    <2>1. {c \in tick.shown : IpOf[c] = i} \in SUBSET tick.shown
      OBVIOUS
    <2>2. IsFiniteSet({c \in tick.shown : IpOf[c] = i})
      BY <1>1, <2>1, FS_Subset
    <2> QED BY <2>2, FS_CardinalityType DEF Connections
  <1> QED BY <1>2, <1>3, <1>4 DEF Before

\* The addresses that come before another one in that order.
Earlier(i) == {j \in Ips : Before(j, i)}

LEMMA EarlierGrows ==
  ASSUME TypeOK, NEW i \in Ips, NEW j \in Ips, Before(i, j)
  PROVE  /\ Cardinality(Earlier(i)) \in Nat /\ Cardinality(Earlier(j)) \in Nat
         /\ Cardinality(Earlier(i)) < Cardinality(Earlier(j))
  <1>1. IsFiniteSet(Earlier(j))
    BY SortOrder, FS_Subset, Earlier(j) \in SUBSET Ips DEF Earlier
  <1>2. Earlier(i) \in SUBSET Earlier(j)
    BY SortOrder DEF Earlier
  <1>3. i \in Earlier(j) /\ i \notin Earlier(i)
    BY SortOrder DEF Earlier
  <1>4. IsFiniteSet(Earlier(i)) /\ Cardinality(Earlier(i)) <= Cardinality(Earlier(j))
        /\ Cardinality(Earlier(i)) # Cardinality(Earlier(j))
    BY <1>1, <1>2, <1>3, FS_Subset
  <1>5. Cardinality(Earlier(i)) \in Nat /\ Cardinality(Earlier(j)) \in Nat
    BY <1>1, <1>4, FS_CardinalityType
  <1> QED BY <1>4, <1>5

\* Ranks of kept addresses are different numbers below the limit.
LEMMA KeptFits ==
  ASSUME TypeOK
  PROVE  IsFiniteSet(Kept) /\ Cardinality(Kept) <= IPLimit
  <1>1. IPLimit \in Nat
    BY UserUsageAssumption
  <1>2. \A i \in Ips : Cardinality(Earlier(i)) \in Nat
    <2> TAKE i \in Ips
    <2>1. Earlier(i) \in SUBSET Ips
      BY DEF Earlier
    <2> QED BY <2>1, SortOrder, FS_Subset, FS_CardinalityType
  <1> DEFINE rank == [i \in Kept |-> Cardinality(Earlier(i))]
  <1>3. \A i \in Kept : i \in Ips /\ Cardinality(Earlier(i)) < IPLimit
    BY DEF Kept, Earlier
  <1>4. rank \in [Kept -> 0 .. (IPLimit - 1)]
    BY <1>1, <1>2, <1>3
  <1>5. \A i, j \in Kept : rank[i] = rank[j] => i = j
    BY <1>3, EarlierGrows, SortOrder
  <1>6. rank \in Injection(Kept, 0 .. (IPLimit - 1))
    BY <1>4, <1>5 DEF Injection, IsInjective
  <1>7. IsFiniteSet(0 .. (IPLimit - 1)) /\ Cardinality(0 .. (IPLimit - 1)) = IPLimit
    BY <1>1, FS_Interval
  <1> HIDE DEF rank
  <1> QED BY <1>6, <1>7, FS_Injection

\* An address that is not kept has no more connections than one that is.
LEMMA KeptFirst ==
  ASSUME TypeOK, NEW i \in Kept, NEW j \in Ips \ Kept
  PROVE  i # j /\ Connections(j) <= Connections(i)
  <1>1. i \in Ips /\ Cardinality(Earlier(i)) < IPLimit
        /\ ~(Cardinality(Earlier(j)) < IPLimit)
    BY DEF Kept, Earlier
  <1>2. ~Before(j, i)
    <2> SUFFICES ASSUME Before(j, i)
                 PROVE  FALSE
      OBVIOUS
    <2> QED BY <1>1, EarlierGrows, UserUsageAssumption
  <1>3. Connections(i) \in Nat /\ Connections(j) \in Nat
    BY <1>1, SortOrder
  <1> QED BY <1>1, <1>2, <1>3 DEF Before

\* A user within the limit loses no address.
LEMMA KeptAll ==
  ASSUME TypeOK, Cardinality(Ips) <= IPLimit
  PROVE  Kept = Ips
  <1> SUFFICES ASSUME NEW i \in Ips
               PROVE  Cardinality(Earlier(i)) < IPLimit
    BY DEF Kept, Earlier
  <1>1. Earlier(i) \in SUBSET Ips /\ i \notin Earlier(i)
    BY SortOrder DEF Earlier
  <1>2. /\ Cardinality(Earlier(i)) <= Cardinality(Ips)
        /\ Cardinality(Ips) = Cardinality(Earlier(i)) => Ips = Earlier(i)
        /\ IsFiniteSet(Earlier(i))
    BY <1>1, SortOrder, FS_Subset
  <1>3. Cardinality(Earlier(i)) \in Nat /\ Cardinality(Ips) \in Nat
    BY <1>2, SortOrder, FS_CardinalityType
  <1> QED BY <1>1, <1>2, <1>3, UserUsageAssumption

\* Only EnforceIPLimits takes a tick from its limit to its claim.
LEMMA LimitStep ==
  ASSUME TypeOK, [Next]_vars, At("limit"), tick'.pc = "claim"
  PROVE  EnforceIPLimits
  <1>1. tick # tick'
    BY DEF At
  <1>2. CASE CollectOnce \/ MaybeResetMonthlyTraffic \/ MaybeApplyUserCycles
    BY <1>2 DEF CollectOnce, Fetch, NothingUsed, CreateRecord, AddSample, SampleFails,
       TouchFirstUse, TouchFails, MarkOffline, MarkOfflineFails, ClaimDay, NoReset,
       ClaimFails, ResetMonthlyTraffic, ResetFails, MaybeResetMonthlyTraffic,
       FindCycles, ApplyUserCycles, CyclesFail, MaybeApplyUserCycles, At
  <1>3. CASE Request
    BY <1>1, <1>3 DEF Request, ReadUser, SaveUser, SaveExpiry, SetEnabled,
       ResetTraffic, PullSubscription
  <1>4. CASE World
    BY <1>1, <1>4 DEF World, Connect, Carry, Disconnect, NextDay, Core
  <1>5. CASE PanelRestart
    BY <1>5 DEF PanelRestart, Idle
  <1>6. CASE UNCHANGED vars
    BY <1>1, <1>6 DEF vars
  <1> QED BY <1>2, <1>3, <1>4, <1>5, <1>6 DEF Next, Tick

\* For any connections, addresses and limit: when the closes of a tick succeed,
\* an enabled user keeps no more addresses than the limit, whole ones, and none
\* that goes had more connections than one that stays; and a user who is
\* disabled or within the limit loses no connection.
THEOREM IPLimitHolds == Spec => IPLimitEnforced
  <1>1. ASSUME TypeOK, [Next]_vars, At("limit"), tick'.pc = "claim", faults' = faults
        PROVE  LET Staying == {c \in tick.shown : conn'[c].st = "open"}
                   Cut == {c \in tick.shown : conn'[c] # conn[c]}
               IN  /\ Limited => Cardinality({IpOf[c] : c \in Staying}) <= IPLimit
                   /\ \A c \in Cut, d \in Staying :
                         /\ IpOf[c] # IpOf[d]
                         /\ Connections(IpOf[c]) <= Connections(IpOf[d])
                   /\ ~Limited \/ Cardinality(Ips) <= IPLimit => Cut = {}
    <2> DEFINE Staying == {c \in tick.shown : conn'[c].st = "open"}
               Cut == {c \in tick.shown : conn'[c] # conn[c]}
    <2>1. PICK failed \in SUBSET TooMany :
            /\ IF failed = {} THEN UNCHANGED faults ELSE Fault
            /\ conn' = [c \in Conn |->
                          IF c \in TooMany \ failed THEN [conn[c] EXCEPT !.st = "closed"]
                                                    ELSE conn[c]]
      BY <1>1, LimitStep DEF EnforceIPLimits
    <2>2. failed = {}
      BY <1>1, <2>1 DEF Fault, TypeOK
    <2>3. tick.shown \subseteq Conn
      BY <1>1 DEF TypeOK, TickState
    <2>4. Cut \subseteq TooMany
      BY <2>1, <2>3
    <2>5. \A c \in TooMany : conn'[c].st = "closed"
      BY <1>1, <2>1, <2>2, <2>3 DEF TypeOK, TooMany
    <2>6. Limited => TooMany = {c \in tick.shown : IpOf[c] \notin Kept}
      BY DEF TooMany
    <2>7. Staying \cap TooMany = {}
      BY <2>5
    <2>8. ASSUME Limited
          PROVE  Cardinality({IpOf[c] : c \in Staying}) <= IPLimit
      <3>1. IsFiniteSet(Kept) /\ Cardinality(Kept) \in Nat /\ Cardinality(Kept) <= IPLimit
        BY <1>1, KeptFits, FS_CardinalityType
      <3>2. {IpOf[c] : c \in Staying} \in SUBSET Kept
        BY <2>6, <2>7, <2>8
      <3>3. /\ IsFiniteSet({IpOf[c] : c \in Staying})
            /\ Cardinality({IpOf[c] : c \in Staying}) <= Cardinality(Kept)
        BY <3>1, <3>2, FS_Subset
      <3>4. Cardinality({IpOf[c] : c \in Staying}) \in Nat
        BY <3>3, FS_CardinalityType
      <3> QED BY <3>1, <3>3, <3>4, UserUsageAssumption
    <2>9. ASSUME NEW c \in Cut, NEW d \in Staying
          PROVE  IpOf[c] # IpOf[d] /\ Connections(IpOf[c]) <= Connections(IpOf[d])
      <3>1. Limited /\ c \in TooMany /\ d \notin TooMany
        BY <2>4, <2>7 DEF TooMany
      <3>2. /\ IpOf[c] \in Ips /\ IpOf[c] \notin Kept
            /\ IpOf[d] \in Ips /\ IpOf[d] \in Kept
        BY <2>6, <3>1 DEF Ips
      <3> QED BY <1>1, <3>2, KeptFirst
    <2>10. ASSUME ~Limited \/ Cardinality(Ips) <= IPLimit
           PROVE  Cut = {}
      <3>1. TooMany = {}
        BY <1>1, <2>10, KeptAll DEF Ips, TooMany
      <3> QED BY <2>4, <3>1
    <2> QED BY <2>8, <2>9, <2>10
  <1>2. TypeOK /\ [Next]_vars =>
          (At("limit") /\ tick'.pc = "claim" /\ faults' = faults =>
              LET Staying == {c \in tick.shown : conn'[c].st = "open"}
                  Cut == {c \in tick.shown : conn'[c] # conn[c]}
              IN  /\ Limited => Cardinality({IpOf[c] : c \in Staying}) <= IPLimit
                  /\ \A c \in Cut, d \in Staying :
                        /\ IpOf[c] # IpOf[d]
                        /\ Connections(IpOf[c]) <= Connections(IpOf[d])
                  /\ ~Limited \/ Cardinality(Ips) <= IPLimit => Cut = {})
    BY <1>1
  <1> QED BY <1>2, TypeCorrect, PTL DEF Spec, IPLimitEnforced
=============================================================================
