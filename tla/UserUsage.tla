------------------------------ MODULE UserUsage ------------------------------
(***************************************************************************)
(* The row of one proxy user and its writers: the traffic scheduler's tick *)
(* (backend/internal/traffic), which collects usage, closes connections,   *)
(* resets counters and renews cycles, and the administrator's requests     *)
(* (backend/internal/user), which read the row and save it, and the user's *)
(* subscription.  A statement of the database is an action; nothing holds  *)
(* a lock between two of them.                                             *)
(*                                                                         *)
(* A counter is kept as what each connection has contributed to it:        *)
(* row.used[c] is the part of traffic_used, upload_bytes and               *)
(* download_bytes that was counted for c.  Mihomo gives every connection   *)
(* an id of its own, so a connection that is closed does not come back.    *)
(* Time is a day; times are days, and Never is nil or the zero time.  The  *)
(* global snapshot, rates and the view of current connections serve the    *)
(* dashboard only.  The enforcer, which ends a tick, is in ConfigRegen.    *)
(***************************************************************************)
EXTENDS Integers, FiniteSets

CONSTANTS
    Conn,        \* connections of the user, over all time
    IpOf,        \* their source addresses, as the numbers that order them
    IPLimit,     \* ip_limit; 0 is unlimited
    MaxBytes,    \* bound: the bytes each connection may carry
    MaxDay,      \* bound: days 1..MaxDay
    ResetDays,   \* the days traffic_reset_day falls on
    CycleDays,   \* traffic_reset_days of a user with a cycle
    RenewDays,   \* expire_renew_days; 0 is off
    FirstDays,   \* expire_days_after_first; 0 is off
    MaxFaults,   \* bound: failing statements and panel restarts
    MaxEdits     \* bound: administrator's requests

ASSUME UserUsageAssumption ==
    /\ IsFiniteSet(Conn)
    /\ IpOf \in [Conn -> Nat]
    /\ MaxBytes \in [Conn -> Nat]
    /\ MaxDay \in Nat \ {0}
    /\ ResetDays \subseteq 1..MaxDay
    /\ CycleDays \in Nat \ {0}
    /\ {IPLimit, RenewDays, FirstDays, MaxFaults, MaxEdits} \subseteq Nat

VARIABLES
    now,       \* today
    conn,      \* the core's connections and their counters
    row,       \* the user's row
    recorded,  \* recorded[c]: bytes of c in the history of records
    claimed,   \* the setting traffic_reset_last
    prevConn,  \* the collector's last sample
    tick,      \* the scheduler's goroutine
    edit,      \* the administrator's request
    faults,    \* statements that have failed so far
    edits,     \* requests so far
    excess,    \* history: bytes the collector will have met twice
    resets     \* history: resets[d]: monthly resets done for day d

stored == <<row, recorded, claimed>>
history == <<excess, resets>>
vars == <<now, conn, stored, prevConn, tick, edit, faults, edits, history>>

Day == 1..MaxDay
Never == 0
Zero == [c \in Conn |-> 0]

Idle == [pc |-> "idle", known |-> FALSE, shown |-> {}, view |-> Zero,
         day |-> 1, on |-> FALSE, cycle |-> Never, expire |-> Never]
NewRow == [enabled |-> TRUE, used |-> Zero, online |-> FALSE, first |-> Never,
           expire |-> Never, cycleOn |-> FALSE, cycle |-> Never]
NoEdit == [kind |-> "none", copy |-> NewRow]

Init ==
    /\ now = 1
    /\ conn = [c \in Conn |-> [st |-> "new", bytes |-> 0]]
    /\ \E on \in BOOLEAN : row = [NewRow EXCEPT !.cycleOn = on]
    /\ recorded = Zero
    /\ claimed = Never
    /\ prevConn = Zero
    /\ tick = Idle
    /\ edit = NoEdit
    /\ faults = 0
    /\ edits = 0
    /\ excess = Zero
    /\ resets = [d \in Day |-> 0]

At(pc) == tick.pc = pc
Goto(pc) == tick' = [tick EXCEPT !.pc = pc]
Fault == faults < MaxFaults /\ faults' = faults + 1

(***************************************************************************)
(* The core                                                                *)
(***************************************************************************)

IsOpen(c) == conn[c].st = "open"
Opened == {c \in Conn : IsOpen(c)}
Core == UNCHANGED <<now, stored, prevConn, tick, edit, faults, edits, history>>

Connect(c) ==
    /\ conn[c].st = "new"
    /\ conn' = [conn EXCEPT ![c].st = "open"]
    /\ Core

Carry(c) ==
    /\ IsOpen(c)
    /\ conn[c].bytes < MaxBytes[c]
    /\ conn' = [conn EXCEPT ![c].bytes = @ + 1]
    /\ Core

Disconnect(c) ==
    /\ IsOpen(c)
    /\ conn' = [conn EXCEPT ![c].st = "closed"]
    /\ Core

NextDay ==
    /\ now < MaxDay
    /\ now' = now + 1
    /\ UNCHANGED <<conn, stored, prevConn, tick, edit, faults, edits, history>>

(***************************************************************************)
(* CollectOnce                                                             *)
(***************************************************************************)

\* Wrong on purpose: connections that are gone are not skipped.
Delta_Unclipped(c) == IF tick.known THEN tick.view[c] - prevConn[c] ELSE 0

\* The bytes since the last sample, or all of them if the counter went back.
Delta(c) ==
    IF c \notin tick.shown \/ ~tick.known THEN 0
    ELSE IF tick.view[c] < prevConn[c] THEN tick.view[c]
    ELSE tick.view[c] - prevConn[c]
Used == \E c \in Conn : Delta(c) > 0
Active == tick.known /\ tick.shown # {}

\* What a tick that is cut short has recorded and will not remember.
Met(c) == IF tick.pc \in {"count", "touch", "offline"} THEN Delta(c) ELSE 0

\* The connections are fetched; the user is attributed to them unless the
\* name the core reports is not in the table.  A fetch that fails ends the
\* tick and changes nothing.
Fetch ==
    /\ At("idle")
    /\ \E known \in BOOLEAN :
          tick' = [Idle EXCEPT !.pc = "record", !.known = known, !.shown = Opened,
                     !.view = [c \in Conn |-> IF IsOpen(c) THEN conn[c].bytes ELSE 0]]
    /\ UNCHANGED <<now, conn, stored, prevConn, edit, faults, edits, history>>

NothingUsed ==
    /\ At("record")
    /\ ~Used
    /\ Goto("touch")
    /\ UNCHANGED <<now, conn, stored, prevConn, edit, faults, edits, history>>

\* AddSample, first statement: the history record.
CreateRecord ==
    /\ At("record")
    /\ Used
    /\ recorded' = [c \in Conn |-> recorded[c] + Delta(c)]
    /\ Goto("count")
    /\ UNCHANGED <<now, conn, row, claimed, prevConn, edit, faults, edits, history>>

\* AddSample, second statement: the counters are incremented in place.
AddSample ==
    /\ At("count")
    /\ row' = [row EXCEPT !.used = [c \in Conn |-> @[c] + Delta(c)], !.online = TRUE]
    /\ Goto("touch")
    /\ UNCHANGED <<now, conn, recorded, claimed, prevConn, edit, faults, edits, history>>

\* Wrong on purpose: the counters are incremented without the record.
SampleFails_GoesOn ==
    /\ (At("record") /\ Used) \/ At("count")
    /\ Fault
    /\ Goto(IF At("record") THEN "count" ELSE "touch")
    /\ UNCHANGED <<now, conn, stored, prevConn, edit, edits, history>>

\* Wrong on purpose: AddSample is tried again from its first statement.
SampleFails_Retries ==
    /\ (At("record") /\ Used) \/ At("count")
    /\ Fault
    /\ Goto("record")
    /\ UNCHANGED <<now, conn, stored, prevConn, edit, edits, history>>

\* Either statement fails: the error is logged, the bytes are not counted.
SampleFails ==
    /\ (At("record") /\ Used) \/ At("count")
    /\ Fault
    /\ Goto("touch")
    /\ UNCHANGED <<now, conn, stored, prevConn, edit, edits, history>>

\* The update repeats the test of the read in its WHERE clause.
Touched ==
    IF row.first = Never
    THEN [row EXCEPT !.first = now,
                     !.expire = IF FirstDays > 0 THEN now + FirstDays ELSE @]
    ELSE row

TouchFirstUse ==
    /\ At("touch")
    /\ row' = IF Active THEN Touched ELSE row
    /\ Goto("offline")
    /\ UNCHANGED <<now, conn, recorded, claimed, prevConn, edit, faults, edits, history>>

TouchFails ==
    /\ At("touch")
    /\ Active
    /\ Fault
    /\ Goto("offline")
    /\ UNCHANGED <<now, conn, stored, prevConn, edit, edits, history>>

\* Wrong on purpose: only connections of the user are remembered.
MarkOffline_Attributed ==
    /\ At("offline")
    /\ row' = [row EXCEPT !.online = @ /\ Active]
    /\ prevConn' = IF tick.known THEN tick.view ELSE Zero
    /\ Goto("limit")
    /\ UNCHANGED <<now, conn, recorded, claimed, edit, faults, edits, history>>

\* Users without a connection go offline, and the sample becomes the last one.
MarkOffline ==
    /\ At("offline")
    /\ row' = [row EXCEPT !.online = @ /\ Active]
    /\ prevConn' = tick.view
    /\ Goto("limit")
    /\ UNCHANGED <<now, conn, recorded, claimed, edit, faults, edits, history>>

\* CollectOnce returns the error before it keeps the sample: the next tick
\* will meet the same bytes again.  The rest of the tick is left out.
MarkOfflineFails ==
    /\ At("offline")
    /\ Fault
    /\ excess' = [c \in Conn |-> excess[c] + Met(c)]
    /\ tick' = Idle
    /\ UNCHANGED <<now, conn, stored, prevConn, edit, edits, resets>>

(***************************************************************************)
(* EnforceIPLimits: the addresses with the most connections stay           *)
(***************************************************************************)

Ips == {IpOf[c] : c \in tick.shown}
Connections(ip) == Cardinality({c \in tick.shown : IpOf[c] = ip})

\* Wrong on purpose: only the addresses are compared.
Before_ByAddress(i, j) == i < j

Before(i, j) ==
    \/ Connections(i) > Connections(j)
    \/ Connections(i) = Connections(j) /\ i < j

Kept == {i \in Ips : Cardinality({j \in Ips : Before(j, i)}) < IPLimit}

\* The limit is enforced for the users the table has as enabled by now.
Limited == tick.known /\ row.enabled /\ IPLimit > 0
TooMany == IF Limited THEN {c \in tick.shown : IpOf[c] \notin Kept} ELSE {}

\* Every connection is closed by a call of its own, and any of them may fail.
EnforceIPLimits ==
    /\ At("limit")
    /\ \E failed \in SUBSET TooMany :
          /\ IF failed = {} THEN UNCHANGED faults ELSE Fault
          /\ conn' = [c \in Conn |->
                        IF c \in TooMany \ failed THEN [conn[c] EXCEPT !.st = "closed"]
                                                  ELSE conn[c]]
    /\ tick' = [Idle EXCEPT !.pc = "claim"]
    /\ UNCHANGED <<now, stored, prevConn, edit, edits, history>>

(***************************************************************************)
(* MaybeResetMonthlyTraffic                                                *)
(***************************************************************************)

\* The day is claimed in a transaction of its own, before the reset.
ClaimDay ==
    /\ At("claim")
    /\ now \in ResetDays
    /\ claimed # now
    /\ claimed' = now
    /\ tick' = [Idle EXCEPT !.pc = "reset", !.day = now]
    /\ UNCHANGED <<now, conn, row, recorded, prevConn, edit, faults, edits, history>>

NoReset ==
    /\ At("claim")
    /\ now \notin ResetDays \/ claimed = now
    /\ Goto("cycles")
    /\ UNCHANGED <<now, conn, stored, prevConn, edit, faults, edits, history>>

\* Wrong on purpose: the reset is done although the claim has failed.
ClaimFails_GoesOn ==
    /\ At("claim")
    /\ Fault
    /\ tick' = [Idle EXCEPT !.day = now,
                  !.pc = IF now \in ResetDays /\ claimed # now THEN "reset" ELSE "cycles"]
    /\ UNCHANGED <<now, conn, stored, prevConn, edit, edits, history>>

\* A query or the claim itself fails: "safer to skip a day than to reset twice".
ClaimFails ==
    /\ At("claim")
    /\ Fault
    /\ Goto("cycles")
    /\ UNCHANGED <<now, conn, stored, prevConn, edit, edits, history>>

ResetMonthlyTraffic ==
    /\ At("reset")
    /\ row' = [row EXCEPT !.used = Zero]
    /\ resets' = [resets EXCEPT ![tick.day] = @ + 1]
    /\ tick' = [Idle EXCEPT !.pc = "cycles"]
    /\ UNCHANGED <<now, conn, recorded, claimed, prevConn, edit, faults, edits,
                   excess>>

ResetFails ==
    /\ At("reset")
    /\ Fault
    /\ tick' = [Idle EXCEPT !.pc = "cycles"]
    /\ UNCHANGED <<now, conn, stored, prevConn, edit, edits, history>>

(***************************************************************************)
(* MaybeApplyUserCycles                                                    *)
(***************************************************************************)

\* The rows are read, then the time.
FindCycles ==
    /\ At("cycles")
    /\ tick' = [tick EXCEPT !.pc = "apply", !.day = now, !.on = row.cycleOn,
                            !.cycle = row.cycle, !.expire = row.expire]
    /\ UNCHANGED <<now, conn, stored, prevConn, edit, faults, edits, history>>

CycleBegins == tick.on /\ tick.cycle = Never
CycleEnds == tick.on /\ tick.cycle # Never /\ tick.day >= tick.cycle + CycleDays
Renews == RenewDays > 0 /\ tick.expire # Never /\ tick.expire < tick.day

\* What was read decides, and one statement writes it.
ApplyUserCycles ==
    /\ At("apply")
    /\ row' = [row EXCEPT
                 !.used = IF CycleEnds THEN Zero ELSE @,
                 !.cycle = IF CycleBegins \/ CycleEnds THEN tick.day ELSE @,
                 !.expire = IF Renews THEN tick.day + RenewDays ELSE @]
    /\ tick' = Idle
    /\ UNCHANGED <<now, conn, recorded, claimed, prevConn, edit, faults, edits,
                   history>>

\* The query or the update fails.
CyclesFail ==
    /\ At("cycles") \/ At("apply")
    /\ Fault
    /\ tick' = Idle
    /\ UNCHANGED <<now, conn, stored, prevConn, edit, edits, history>>

(***************************************************************************)
(* The requests of the administrator and of the user                       *)
(***************************************************************************)

ReadUser(kind, copy) ==
    /\ edit.kind = "none"
    /\ edits < MaxEdits
    /\ edits' = edits + 1
    /\ edit' = [kind |-> kind, copy |-> copy]
    /\ UNCHANGED <<now, conn, stored, prevConn, tick, faults, history>>

\* Update and BindTelegram save every column of the row they have read.
SaveUser ==
    /\ edit.kind = "update"
    /\ \E on, enabled \in BOOLEAN :
          row' = [edit.copy EXCEPT !.cycleOn = on, !.enabled = enabled]
    /\ edit' = NoEdit
    /\ UNCHANGED <<now, conn, recorded, claimed, prevConn, tick, faults, edits,
                   history>>

\* Batch extend-days writes the one column it has computed.
SaveExpiry ==
    /\ edit.kind = "extend"
    /\ row' = [row EXCEPT !.expire = 1 + IF edit.copy.expire > now
                                         THEN edit.copy.expire ELSE now]
    /\ edit' = NoEdit
    /\ UNCHANGED <<now, conn, recorded, claimed, prevConn, tick, faults, edits, history>>

\* Batch enable and disable write that column, of a row nobody has read.
SetEnabled(enabled) ==
    /\ edits < MaxEdits
    /\ edits' = edits + 1
    /\ row' = [row EXCEPT !.enabled = enabled]
    /\ UNCHANGED <<now, conn, recorded, claimed, prevConn, tick, edit, faults, history>>

\* ResetTraffic and batch reset-traffic write the counters only.
ResetTraffic ==
    /\ edits < MaxEdits
    /\ edits' = edits + 1
    /\ row' = [row EXCEPT !.used = Zero]
    /\ UNCHANGED <<now, conn, recorded, claimed, prevConn, tick, edit, faults, history>>

\* The user pulls the subscription; the first time is a first use.  A user who
\* is disabled or has expired is refused.
PullSubscription ==
    /\ row.enabled
    /\ row.first = Never
    /\ FirstDays > 0 \/ row.expire = Never \/ row.expire > now
    /\ row' = Touched
    /\ UNCHANGED <<now, conn, recorded, claimed, prevConn, tick, edit, faults, edits,
                   history>>

\* The panel dies: the collector forgets its sample, and meets the bytes of a
\* connection that survives once more.
PanelRestart ==
    /\ Fault
    /\ tick' = Idle
    /\ prevConn' = Zero
    /\ edit' = NoEdit
    /\ excess' = [c \in Conn |-> excess[c] + prevConn[c] + Met(c)]
    /\ UNCHANGED <<now, conn, stored, edits, resets>>

CollectOnce ==
    \/ Fetch \/ NothingUsed \/ CreateRecord \/ AddSample \/ SampleFails
    \/ TouchFirstUse \/ TouchFails \/ MarkOffline \/ MarkOfflineFails
MaybeResetMonthlyTraffic ==
    ClaimDay \/ NoReset \/ ClaimFails \/ ResetMonthlyTraffic \/ ResetFails
MaybeApplyUserCycles == FindCycles \/ ApplyUserCycles \/ CyclesFail
Tick ==
    \/ CollectOnce \/ EnforceIPLimits
    \/ MaybeResetMonthlyTraffic \/ MaybeApplyUserCycles
Request ==
    \/ ReadUser("update", row)
    \/ ReadUser("extend", [NewRow EXCEPT !.expire = row.expire])
    \/ \E enabled \in BOOLEAN : SetEnabled(enabled)
    \/ SaveUser \/ SaveExpiry \/ ResetTraffic \/ PullSubscription
World ==
    \/ \E c \in Conn : Connect(c) \/ Carry(c) \/ Disconnect(c)
    \/ NextDay

Next == Tick \/ Request \/ World \/ PanelRestart

Spec == Init /\ [][Next]_vars

-----------------------------------------------------------------------------
PC == {"idle", "record", "count", "touch", "offline", "limit", "claim",
       "reset", "cycles", "apply"}
When == Nat
Bytes == [Conn -> Nat]
Row == [enabled : BOOLEAN, used : Bytes, online : BOOLEAN, first : When,
        expire : When, cycleOn : BOOLEAN, cycle : When]
TickState == [pc : PC, known : BOOLEAN, shown : SUBSET Conn, view : Bytes,
              day : Day, on : BOOLEAN, cycle : When, expire : When]

TypeOK ==
    /\ now \in Day
    /\ conn \in [Conn -> [st : {"new", "open", "closed"}, bytes : Nat]]
    /\ row \in Row
    /\ recorded \in Bytes
    /\ claimed \in Day \cup {Never}
    /\ prevConn \in Bytes
    /\ tick \in TickState
    /\ edit \in [kind : {"none", "update", "extend"}, copy : Row]
    /\ faults \in Nat
    /\ edits \in Nat
    /\ excess \in Bytes
    /\ resets \in [Day -> Nat]

\* A user is never charged more than the connection carried, whatever is
\* saved, reset or fails in between; only the bytes of a tick that failed to
\* keep its sample, or that the panel forgot when it died, can count again.
NeverOvercharged ==
    \A c \in Conn : row.used[c] <= conn[c].bytes + excess[c]

\* Every byte in the counters is in the history of records.
ChargedIsRecorded == \A c \in Conn : row.used[c] <= recorded[c]

\* "Safer to skip a day than to reset twice": one monthly reset a day, even
\* if the panel dies in the middle of one.
MonthlyOnce == \A d \in Day : resets[d] <= 1

\* When every close succeeds: no more than ip_limit of the addresses a tick has
\* seen of an enabled user stay; an address goes with all its connections, and
\* none that stays has fewer of them; and a user within the limit, or one who
\* has been disabled since, loses no connection here.
IPLimitEnforced ==
    [][At("limit") /\ tick'.pc = "claim" /\ faults' = faults =>
          LET Staying == {c \in tick.shown : conn'[c].st = "open"}
              Cut == {c \in tick.shown : conn'[c] # conn[c]}
          IN /\ Limited => Cardinality({IpOf[c] : c \in Staying}) <= IPLimit
             /\ \A c \in Cut, d \in Staying :
                   /\ IpOf[c] # IpOf[d]
                   /\ Connections(IpOf[c]) <= Connections(IpOf[d])
             /\ ~Limited \/ Cardinality(Ips) <= IPLimit => Cut = {}]_vars

-----------------------------------------------------------------------------
(***************************************************************************)
(* The inductive invariant behind NeverOvercharged and MonthlyOnce         *)
(***************************************************************************)

\* Bytes that are in a record and about to be added to the counters.
Owed(c) == IF At("count") THEN Delta(c) ELSE 0

\* The counters, and a copy of them that may be saved, stay within the records.
Covered ==
    \A c \in Conn :
        /\ row.used[c] + Owed(c) <= recorded[c]
        /\ edit.copy.used[c] + Owed(c) <= recorded[c]

\* A sample was true once, and counters only grow.
SampleTrue ==
    \A c \in Conn :
        /\ conn[c].st = "new" => conn[c].bytes = 0
        /\ prevConn[c] <= conn[c].bytes
        /\ tick.view[c] <= conn[c].bytes
        /\ c \in tick.shown => prevConn[c] <= tick.view[c]

\* Before MarkOffline: a connection this tick has not seen is a new one.
Collecting == tick.pc \in {"record", "count", "touch", "offline"}
UnseenNew ==
    \A c \in Conn :
        Collecting /\ c \notin tick.shown /\ conn[c].st # "closed" => prevConn[c] = 0

\* The records hold what the last sample and this tick's delta stand for; of a
\* connection that was forgotten, no more than it had carried.
RecordsTrue ==
    \A c \in Conn :
        /\ recorded[c] <= conn[c].bytes + excess[c]
        /\ c \in tick.shown \/ conn[c].st # "closed" =>
              recorded[c] <= prevConn[c] + Met(c) + excess[c]

\* Resets happen on days that have been claimed, and days are claimed in order.
DaysClaimed ==
    /\ claimed <= now
    /\ \A d \in Day : resets[d] > 0 => d <= claimed
    /\ At("reset") => tick.day = claimed /\ resets[tick.day] = 0

\* What NeverOvercharged, ChargedIsRecorded and MonthlyOnce rest on: who may
\* still add which bytes, and which days are claimed.
UsageInv ==
    /\ TypeOK
    /\ Covered
    /\ SampleTrue
    /\ UnseenNew
    /\ RecordsTrue
    /\ DaysClaimed
    /\ MonthlyOnce
=============================================================================
