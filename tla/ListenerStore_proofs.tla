------------------------ MODULE ListenerStore_proofs ------------------------
(***************************************************************************)
(* Names and endpoints stay apart for any number of listeners, names,      *)
(* addresses and ports; what follows from it for the sockets and for the   *)
(* generator; and every replaced row is kept.                              *)
(***************************************************************************)
EXTENDS ListenerStore, TLAPS

-----------------------------------------------------------------------------
(* Ports and addresses. *)

LEMMA ConflictSymmetric ==
  ASSUME NEW r, NEW s, ~Conflict(r, s)
  PROVE  ~Conflict(s, r)
  <1>1. RangesMeet(s.ports, r.ports) => RangesMeet(r.ports, s.ports)
    BY Zenon DEF RangesMeet
  <1>2. listenerAddressesConflict(firstListenerAddress(s), firstListenerAddress(r))
        => listenerAddressesConflict(firstListenerAddress(r), firstListenerAddress(s))
    BY DEF listenerAddressesConflict
  <1> QED BY <1>1, <1>2 DEF Conflict, portsOverlap

\* Addresses the service compares stand for those of the core.
LEMMA ApartAddresses ==
  ASSUME NEW r, NEW s, ~Misread(r), ~Misread(s),
         ~listenerAddressesConflict(firstListenerAddress(r), firstListenerAddress(s))
  PROVE  /\ CoreAddress(r) # CoreAddress(s)
         /\ {CoreAddress(r), CoreAddress(s)} \cap {Wild4, Wild6} = {}
  <1>1. /\ firstListenerAddress(r) \notin {Wild4, Wild6}
        /\ firstListenerAddress(s) \notin {Wild4, Wild6}
        /\ firstListenerAddress(r) # firstListenerAddress(s)
    BY DEF listenerAddressesConflict
  <1>2. /\ firstListenerAddress(r) = CoreAddress(r)
        /\ firstListenerAddress(s) = CoreAddress(s)
    BY <1>1 DEF Misread
  <1> QED BY <1>1, <1>2

\* What the service keeps apart, two sockets can hold, and the generator accepts.
LEMMA ApartBinds ==
  ASSUME NEW r, NEW s, validPort(r.ports), validPort(s.ports), ~Conflict(r, s),
         ~Misread(r), ~Misread(s)
  PROVE  ~BindConflict(r, s) /\ ~GeneratorConflict(r, s)
  <1>1. CASE ~RangesMeet(r.ports, s.ports)
    BY <1>1 DEF BindConflict, GeneratorConflict
  <1>2. CASE RangesMeet(r.ports, s.ports)
    <2>1. ~listenerAddressesConflict(firstListenerAddress(r), firstListenerAddress(s))
      BY <1>2 DEF Conflict, portsOverlap
    <2>2. /\ CoreAddress(r) # CoreAddress(s)
          /\ {CoreAddress(r), CoreAddress(s)} \cap {Wild4, Wild6} = {}
      BY <2>1, ApartAddresses
    <2> QED BY <2>2 DEF BindConflict, GeneratorConflict
  <1> QED BY <1>1, <1>2

-----------------------------------------------------------------------------
(* Rows. *)

LEMMA MovedRow ==
  ASSUME NEW r \in Row, NEW q \in Specs
  PROVE  LET s == [r EXCEPT !.ports = q]
         IN  s \in Row /\ s.name = r.name /\ s.freed = r.freed /\ s.ports = q
  BY DEF Row

LEMMA DraftRow ==
  ASSUME NEW n \in Names, NEW p \in Specs, NEW l \in Address \cup {NoAddress},
         NEW b \in Address \cup {NoAddress}, NEW on \in BOOLEAN
  PROVE  Draft(n, p, l, b, on) \in Row /\ ~Draft(n, p, l, b, on).freed
  <1> DEFINE a == IF b # NoAddress THEN b ELSE IF l # NoAddress THEN l ELSE Wild4
  <1>1. a \in Address
    BY DEF Address
  <1>2. Draft(n, p, l, b, on) = [name |-> n, freed |-> FALSE, live |-> TRUE, ports |-> p,
                                 listen |-> l, bind |-> a, on |-> on]
    BY DEF Draft
  <1> HIDE DEF a
  <1>3. Draft(n, p, l, b, on) \in Row
    BY <1>1, <1>2 DEF Row
  <1> QED BY <1>2, <1>3

LEMMA DraftsAreRows ==
  ASSUME NEW r \in Drafts
  PROVE  r \in Row /\ ~r.freed
  BY DraftsAssumption, DraftRow

\* Reclaiming a name touches only tombstones of that name.
LEMMA ReclaimedRows ==
  ASSUME TypeOK, NEW r
  PROVE  /\ Reclaimed(r) \in [Ids -> Row \cup {NoRow}]
         /\ \A k \in Ids : Reclaimed(r)[k] \in {rows[k], NoRow}
         /\ \A k \in Live : Reclaimed(r)[k] = rows[k]
         /\ \A k \in Ids \ Live : ~r.freed /\ k \in Holders(r.name) => Reclaimed(r)[k] = NoRow
  <1>1. Reclaimed(r) = [i \in Ids |-> IF i \in Holders(r.name) \ Live /\ ~r.freed
                                      THEN NoRow ELSE rows[i]]
    BY DEF Reclaimed
  <1>2. \A k \in Ids : rows[k] \in Row \cup {NoRow}
    BY DEF TypeOK
  <1>3. Live \subseteq Ids
    BY DEF Live
  <1> HIDE DEF Live, Holders
  <1> QED BY <1>1, <1>2, <1>3

\* A row put where the checks have allowed it.
LEMMA PutRow ==
  ASSUME StoreInv, Idle, NEW i \in Ids, NEW r \in Row, validPort(r.ports),
         NameFree(r, {i}), EndpointFree(r, {i}),
         rows' = [Reclaimed(r) EXCEPT ![i] = r],
         history' \in [Ids -> SUBSET Row], UNCHANGED <<job, torn>>
  PROVE  StoreInv'
  <1> USE DEF StoreInv
  <1>1. /\ rows' \in [Ids -> Row \cup {NoRow}] /\ rows'[i] = r
        /\ \A k \in Ids \ {i} : rows'[k] \in {rows[k], NoRow}
        /\ \A k \in Live \ {i} : rows'[k] = rows[k]
        /\ \A k \in Ids \ {i} : ~r.freed /\ k \in Holders(r.name) => rows'[k] = NoRow
    BY ReclaimedRows DEF NameFree
  <1>2. TypeOK'
    BY <1>1 DEF TypeOK
  <1>3. NamesUnique'
    <2> SUFFICES ASSUME NEW j \in Ids, NEW k \in Ids, j # k,
                        rows'[j] # NoRow, rows'[k] # NoRow, ~rows'[j].freed, ~rows'[k].freed
                 PROVE  rows'[j].name # rows'[k].name
      BY DEF NamesUnique
    <2>1. CASE j # i /\ k # i
      BY <2>1, <1>1 DEF NamesUnique
    <2>2. CASE j = i
      BY <2>2, <1>1 DEF Holders
    <2>3. CASE k = i
      BY <2>3, <1>1 DEF Holders
    <2> QED BY <2>1, <2>2, <2>3
  <1>4. Checked' \subseteq Live \cup {i} /\ Live = Checked /\ Live' \subseteq Live \cup {i}
    BY <1>1 DEF Checked, Live, Idle
  <1>5. NoConflict'
    <2> SUFFICES ASSUME ~torn, NEW j \in Checked', NEW k \in Checked', j # k
                 PROVE  ~Conflict(rows'[j], rows'[k])
      BY DEF NoConflict
    <2>1. CASE j # i /\ k # i
      BY <2>1, <1>1, <1>4 DEF NoConflict
    <2>2. CASE j = i
      BY <2>2, <1>1, <1>4 DEF EndpointFree
    <2>3. CASE k = i
      <3>1. ~Conflict(rows'[k], rows'[j])
        BY <2>3, <1>1, <1>4 DEF EndpointFree
      <3> QED BY <3>1, ConflictSymmetric
    <2> QED BY <2>1, <2>2, <2>3
  <1>6. PortsValid'
    BY <1>1, <1>4 DEF PortsValid
  <1>7. JobSane'
    BY DEF JobSane, Idle
  <1> QED BY <1>2, <1>3, <1>5, <1>6, <1>7

\* A refused request may reclaim its name.
LEMMA RefusedRow ==
  ASSUME StoreInv, Idle, NEW r, Refused(r)
  PROVE  StoreInv'
  <1> USE DEF StoreInv
  <1>1. /\ rows' \in [Ids -> Row \cup {NoRow}]
        /\ \A k \in Ids : rows'[k] \in {rows[k], NoRow}
        /\ \A k \in Live : rows'[k] = rows[k]
    BY ReclaimedRows DEF Refused
  <1>2. TypeOK'
    BY <1>1 DEF TypeOK, Refused
  <1>3. NamesUnique'
    BY <1>1 DEF NamesUnique
  <1>4. Live' = Live /\ Checked' = Checked
    BY <1>1 DEF Live, Checked, Refused
  <1>5. NoConflict' /\ PortsValid'
    BY <1>1, <1>4 DEF NoConflict, PortsValid, Checked, Refused
  <1>6. JobSane'
    BY DEF JobSane, Idle, Refused
  <1> QED BY <1>2, <1>3, <1>5, <1>6

-----------------------------------------------------------------------------
(* Every step. *)

LEMMA HistoryType ==
  ASSUME TypeOK, NEW i \in Ids, NEW r \in Row, SaveVersion(i, r)
  PROVE  history' \in [Ids -> SUBSET Row]
  BY DEF TypeOK, SaveVersion

LEMMA InsertedInv ==
  ASSUME StoreInv, Idle, NEW i \in Ids, NEW r \in Row, validPort(r.ports),
         NameFree(r, {}), EndpointFree(r, {}), Inserted(i, r)
  PROVE  StoreInv'
  <1>1. NameFree(r, {i}) /\ EndpointFree(r, {i})
    BY DEF NameFree, EndpointFree
  <1>2. history' \in [Ids -> SUBSET Row]
    BY HistoryType DEF Inserted, StoreInv
  <1> QED BY <1>1, <1>2, PutRow DEF Inserted

LEMMA ReplacedInv ==
  ASSUME StoreInv, Idle, NEW i \in Live, NEW r \in Row, validPort(r.ports),
         ensureEndpointAvailable(r, {i}), Replaced(i, r)
  PROVE  StoreInv'
  <1>1. i \in Ids /\ rows[i] \in Row
    BY DEF Live, StoreInv, TypeOK
  <1>2. history' \in [Ids -> SUBSET Row]
    BY <1>1, HistoryType DEF Replaced, StoreInv
  <1> QED BY <1>1, <1>2, PutRow DEF Replaced, ensureEndpointAvailable

LEMMA CreateInv ==
  ASSUME StoreInv, NEW i \in Ids, NEW r \in Row, Create(i, r)
  PROVE  StoreInv'
  <1>1. Idle /\ NameFree(r, {})
    BY DEF Create
  <1>2. CASE validPort(r.ports) /\ EndpointFree(r, {}) /\ Inserted(i, r)
    BY <1>1, <1>2, InsertedInv
  <1>3. ASSUME NEW p \in FreePorts, Inserted(i, [r EXCEPT !.ports = << <<p, p>> >>])
        PROVE  StoreInv'
    <2> DEFINE q == << <<p, p>> >>
               s == [r EXCEPT !.ports = q]
    <2>1. p \in AutoPorts /\ \A k \in Live : ~portsOverlap(q, rows[k].ports)
      BY DEF FreePorts
    <2>2. q \in Specs /\ validPort(q)
      BY <2>1, PortsAssumption DEF validPort
    <2>3. Inserted(i, s)
      BY <1>3
    <2> HIDE DEF q
    <2>4. s \in Row /\ s.name = r.name /\ s.freed = r.freed /\ s.ports = q
      BY <2>2, MovedRow
    <2> HIDE DEF s
    <2>5. NameFree(s, {}) /\ EndpointFree(s, {})
      BY <1>1, <2>1, <2>4 DEF NameFree, EndpointFree, Conflict
    <2> QED BY <1>1, <2>2, <2>3, <2>4, <2>5, InsertedInv
  <1>4. CASE Refused(r)
    BY <1>1, <1>4, RefusedRow
  <1> QED BY <1>2, <1>3, <1>4 DEF Create

LEMMA InsertInv ==
  ASSUME StoreInv, NEW i \in Ids, NEW r \in Row, Insert(i, r)
  PROVE  StoreInv'
  <1>1. CASE ensureEndpointAvailable(r, {})
    BY <1>1, InsertedInv DEF Insert, ensureEndpointAvailable
  <1>2. CASE ~ensureEndpointAvailable(r, {})
    BY <1>2, RefusedRow DEF Insert
  <1> QED BY <1>1, <1>2

LEMMA CloneInv ==
  ASSUME StoreInv, NEW i \in Ids, NEW source \in Ids, NEW n \in Names, NEW p \in Specs,
         Clone(i, source, n, p)
  PROVE  StoreInv'
  <1>1. rows[source] \in Row
    BY DEF Clone, StoreInv, TypeOK, Live
  <1>2. [rows[source] EXCEPT !.name = n, !.freed = FALSE, !.ports = p] \in Row
    BY <1>1 DEF Row
  <1> QED BY <1>2, InsertInv DEF Clone

LEMMA UpdateInv ==
  ASSUME StoreInv, NEW i \in Ids, NEW r \in Row, Update(i, r)
  PROVE  StoreInv'
  <1>1. CASE ensureEndpointAvailable(r, {i})
    BY <1>1, ReplacedInv DEF Update
  <1>2. CASE ~ensureEndpointAvailable(r, {i})
    BY <1>2, RefusedRow DEF Update
  <1> QED BY <1>1, <1>2

LEMMA RollbackInv ==
  ASSUME StoreInv, NEW i \in Ids, NEW r \in history[i], RollbackVersion(i, r)
  PROVE  StoreInv'
  <1>1. r \in Row
    BY DEF StoreInv, TypeOK
  <1>2. CASE i \in Live /\ ensureEndpointAvailable(r, {i})
    BY <1>1, <1>2, ReplacedInv DEF RollbackVersion
  <1>3. CASE ~(i \in Live /\ ensureEndpointAvailable(r, {i}))
    BY <1>3, RefusedRow DEF RollbackVersion
  <1> QED BY <1>2, <1>3

LEMMA SwitchInv ==
  ASSUME StoreInv, NEW ids \in SUBSET Ids, NEW on \in BOOLEAN, BatchSetEnabled(ids, on)
  PROVE  StoreInv'
  <1> USE DEF StoreInv
  <1>1. ids \subseteq Live /\ UNCHANGED <<job, torn>> /\ Idle
    BY DEF BatchSetEnabled
  <1>2. rows' \in [Ids -> Row \cup {NoRow}]
        /\ \A k \in Ids : rows'[k] = rows[k] \/ (k \in ids /\ rows'[k] = [rows[k] EXCEPT !.on = on])
    <2>1. \A k \in ids : rows[k] \in Row /\ [rows[k] EXCEPT !.on = on] \in Row
      <3>1. \A k \in ids : rows[k] \in Row
        BY <1>1 DEF TypeOK, Live
      <3> QED BY <3>1 DEF Row
    <2> QED BY <2>1 DEF BatchSetEnabled, TypeOK
  <1>3. \A k \in Ids : /\ (rows'[k] = NoRow) <=> (rows[k] = NoRow)
                       /\ rows[k] # NoRow =>
                            /\ rows'[k].name = rows[k].name /\ rows'[k].freed = rows[k].freed
                            /\ rows'[k].live = rows[k].live /\ rows'[k].ports = rows[k].ports
                            /\ rows'[k].listen = rows[k].listen /\ rows'[k].bind = rows[k].bind
    <2> SUFFICES ASSUME NEW k \in Ids, k \in ids, rows'[k] = [rows[k] EXCEPT !.on = on]
                 PROVE  /\ rows'[k] # NoRow /\ rows[k] # NoRow
                        /\ rows'[k].name = rows[k].name /\ rows'[k].freed = rows[k].freed
                        /\ rows'[k].live = rows[k].live /\ rows'[k].ports = rows[k].ports
                        /\ rows'[k].listen = rows[k].listen /\ rows'[k].bind = rows[k].bind
      BY <1>2
    <2>1. rows[k] \in Row
      BY <1>1 DEF TypeOK, Live
    <2>2. [rows[k] EXCEPT !.on = on] \in Row
      BY <2>1 DEF Row
    <2> QED BY <2>1, <2>2, NoRowAssumption DEF Row
  <1>4. TypeOK'
    BY <1>1, <1>2 DEF TypeOK, BatchSetEnabled, Live
  <1>5. Live' = Live /\ Checked' = Checked
    BY <1>1, <1>3 DEF Live, Checked
  <1>6. NamesUnique'
    BY <1>3 DEF NamesUnique
  <1>7. NoConflict'
    <2>1. \A j, k \in Live : Conflict(rows'[j], rows'[k]) <=> Conflict(rows[j], rows[k])
      BY <1>3 DEF Live, Conflict, firstListenerAddress
    <2> QED BY <1>1, <1>5, <2>1 DEF NoConflict, Checked
  <1>8. PortsValid'
    BY <1>3, <1>5 DEF PortsValid, Live
  <1>9. JobSane'
    BY <1>1 DEF JobSane, Idle
  <1> QED BY <1>4, <1>6, <1>7, <1>8, <1>9

LEMMA BatchCreateInv ==
  ASSUME StoreInv, NEW i \in Ids, NEW j \in Ids, NEW r \in Drafts, NEW s \in Drafts,
         BatchCreate(i, r, j, s)
  PROVE  StoreInv'
  <1> USE DEF StoreInv
  <1>1. CASE ~(r.name # s.name /\ Holders(s.name) = {})
    BY <1>1, RefusedRow DEF BatchCreate
  <1>2. CASE r.name # s.name /\ Holders(s.name) = {}
    <2>1. /\ r \in Row /\ ~r.freed /\ s \in Row /\ ~s.freed
          /\ validPort(r.ports) /\ validPort(s.ports) /\ NameFree(r, {}) /\ Idle
          /\ UNCHANGED <<history, torn>>
          /\ job' = [pc |-> "batch", ids |-> {i, j}, was |-> FALSE]
      BY <1>2, DraftsAreRows DEF BatchCreate, NoJob
    <2>2. i \in Fresh /\ j \in Fresh \ {i} /\ i # j
      BY DEF BatchCreate, NextOf
    <2>3. rows' = [Reclaimed(r) EXCEPT ![i] = r, ![j] = s]
      BY <1>2 DEF BatchCreate
    <2>4. /\ rows' \in [Ids -> Row \cup {NoRow}] /\ rows'[i] = r /\ rows'[j] = s
          /\ \A k \in Ids \ {i, j} : rows'[k] \in {rows[k], NoRow}
          /\ \A k \in Live \ {i, j} : rows'[k] = rows[k]
          /\ \A k \in Ids \ {i, j} : k \in Holders(r.name) => rows'[k] = NoRow
      <3>1. /\ Reclaimed(r) \in [Ids -> Row \cup {NoRow}]
            /\ \A k \in Ids : Reclaimed(r)[k] \in {rows[k], NoRow}
            /\ \A k \in Live : Reclaimed(r)[k] = rows[k]
            /\ \A k \in Ids \ Live : k \in Holders(r.name) => Reclaimed(r)[k] = NoRow
        BY <2>1, ReclaimedRows
      <3>2. \A k \in Holders(r.name) : k \notin Live
        BY <2>1 DEF NameFree
      <3>3. Live \subseteq Ids
        BY DEF Live
      <3> HIDE DEF Live, Holders
      <3> QED BY <2>1, <2>2, <2>3, <3>1, <3>2, <3>3
    <2>5. TypeOK'
      BY <2>1, <2>4 DEF TypeOK
    <2>6. NamesUnique'
      <3> SUFFICES ASSUME NEW k \in Ids, NEW l \in Ids, k # l,
                          rows'[k] # NoRow, rows'[l] # NoRow, ~rows'[k].freed, ~rows'[l].freed
                   PROVE  rows'[k].name # rows'[l].name
        BY DEF NamesUnique
      <3>1. \A k1 \in Ids \ {i, j} : rows'[k1] # NoRow /\ ~rows'[k1].freed
              => rows'[k1].name # r.name /\ rows'[k1].name # s.name
        BY <1>2, <2>4 DEF Holders
      <3>2. CASE k \notin {i, j} /\ l \notin {i, j}
        BY <3>2, <2>4 DEF NamesUnique
      <3>3. CASE k \in {i, j} /\ l \notin {i, j}
        BY <3>3, <3>1, <2>4
      <3>4. CASE k \notin {i, j} /\ l \in {i, j}
        BY <3>4, <3>1, <2>4
      <3>5. CASE k \in {i, j} /\ l \in {i, j}
        BY <3>5, <1>2, <2>4
      <3> QED BY <3>2, <3>3, <3>4, <3>5
    <2>7. Live' \subseteq Live \cup {i, j} /\ Checked' \subseteq Live \ {i, j} /\ Checked = Live
      BY <2>1, <2>4 DEF Live, Checked, Idle
    <2>8. NoConflict'
      BY <2>1, <2>4, <2>7 DEF NoConflict
    <2>9. PortsValid'
      BY <2>1, <2>4, <2>7 DEF PortsValid
    <2>10. JobSane'
      <3>1. r.live /\ s.live
        BY DraftsAssumption DEF Draft
      <3>2. r # NoRow /\ s # NoRow
        BY <2>1, NoRowAssumption
      <3> QED BY <2>1, <2>4, <3>1, <3>2 DEF JobSane, Live
    <2> QED BY <2>5, <2>6, <2>8, <2>9, <2>10
  <1> QED BY <1>1, <1>2

LEMMA BatchCheckedInv ==
  ASSUME StoreInv, BatchChecked
  PROVE  StoreInv'
  <1> USE DEF StoreInv
  <1>1. /\ rows' = rows /\ torn' = torn /\ job.pc = "batch" /\ job.ids \subseteq Live
        /\ job' = [pc |-> "idle", ids |-> {}, was |-> FALSE]
    BY DEF BatchChecked, NoJob, JobSane
  <1>2. TypeOK'
    <2>1. \A k \in job.ids : rows[k] \in Row
      BY <1>1 DEF Live, TypeOK
    <2> QED BY <1>1, <2>1 DEF TypeOK, BatchChecked
  <1>3. NamesUnique' /\ PortsValid' /\ JobSane'
    BY <1>1 DEF NamesUnique, PortsValid, JobSane, Live
  <1>4. NoConflict'
    <2> SUFFICES ASSUME ~torn, NEW j \in Live, NEW k \in Live, j # k
                 PROVE  ~Conflict(rows[j], rows[k])
      BY <1>1 DEF NoConflict, Checked, Live
    <2>1. CASE j \in job.ids
      BY <2>1 DEF BatchChecked, BatchAvailable, ensureEndpointAvailable, EndpointFree
    <2>2. CASE k \in job.ids
      <3>1. ~Conflict(rows[k], rows[j])
        BY <2>2 DEF BatchChecked, BatchAvailable, ensureEndpointAvailable, EndpointFree
      <3> QED BY <3>1, ConflictSymmetric
    <2>3. CASE j \notin job.ids /\ k \notin job.ids
      BY <1>1, <2>3 DEF NoConflict, Checked
    <2> QED BY <2>1, <2>2, <2>3
  <1> QED BY <1>2, <1>3, <1>4

LEMMA BatchUndoneInv ==
  ASSUME StoreInv, NEW left \in SUBSET Ids, BatchUndone(left)
  PROVE  StoreInv'
  <1> USE DEF StoreInv
  <1>1. /\ job.pc = "batch" /\ job.ids \subseteq Live /\ left \subseteq job.ids
        /\ job' = [pc |-> "idle", ids |-> {}, was |-> FALSE] /\ history' = history
        /\ torn' \in BOOLEAN /\ (~torn' => ~torn /\ left = {})
    BY DEF BatchUndone, NoJob, JobSane, TypeOK
  <1>2. /\ rows' \in [Ids -> Row \cup {NoRow}]
        /\ \A k \in Ids \ (job.ids \ left) : rows'[k] = rows[k]
        /\ \A k \in job.ids \ left : /\ rows[k] \in Row /\ rows'[k] \in Row
                                     /\ rows'[k] = [rows[k] EXCEPT !.live = FALSE]
                                     /\ rows'[k].name = rows[k].name
                                     /\ rows'[k].freed = rows[k].freed /\ ~rows'[k].live
    <2>1. \A k \in job.ids : rows[k] \in Row
      BY <1>1 DEF TypeOK, Live
    <2>2. ASSUME NEW r \in Row
          PROVE  LET s == [r EXCEPT !.live = FALSE]
                 IN  s \in Row /\ s.name = r.name /\ s.freed = r.freed /\ ~s.live
      BY DEF Row
    <2>3. rows' = [k \in Ids |-> IF k \in job.ids \ left THEN [rows[k] EXCEPT !.live = FALSE]
                                 ELSE rows[k]]
      BY DEF BatchUndone
    <2>4. job.ids \subseteq Ids
      BY DEF TypeOK
    <2> QED BY <2>1, <2>2, <2>3, <2>4 DEF TypeOK
  <1>3. TypeOK'
    BY <1>1, <1>2 DEF TypeOK
  <1>4. NamesUnique'
    <2>1. \A k \in Ids : rows'[k] # NoRow =>
            rows[k] # NoRow /\ rows'[k].name = rows[k].name /\ rows'[k].freed = rows[k].freed
      BY <1>2, NoRowAssumption
    <2> QED BY <2>1 DEF NamesUnique
  <1>5. Live' = Live \ (job.ids \ left)
    BY <1>2 DEF Live
  <1>6. NoConflict'
    <2> SUFFICES ASSUME ~torn'
                 PROVE  \A j, k \in Checked' : j # k => ~Conflict(rows'[j], rows'[k])
      BY DEF NoConflict
    <2>1. Checked' = Checked /\ Checked = Live \ job.ids
      BY <1>1, <1>5 DEF Checked
    <2>2. \A k \in Checked : k \in Ids \ job.ids
      BY <2>1 DEF Live
    <2> QED BY <1>1, <1>2, <2>1, <2>2 DEF NoConflict
  <1>7. PortsValid'
    BY <1>2, <1>5 DEF PortsValid, Live
  <1>8. JobSane'
    BY <1>1 DEF JobSane
  <1> QED BY <1>3, <1>4, <1>6, <1>7, <1>8

\* One row gets a mark: its name is freed or comes back, or it is deleted.
LEMMA MarkRow ==
  ASSUME TypeOK, NEW i \in Live, NEW b \in BOOLEAN
  PROVE  /\ i \in Ids /\ rows[i] \in Row
         /\ LET s == [rows[i] EXCEPT !.freed = b]
            IN  /\ s \in Row /\ s # NoRow /\ s.name = rows[i].name /\ s.freed = b
                /\ s.live /\ s.ports = rows[i].ports /\ s.listen = rows[i].listen
                /\ s.bind = rows[i].bind
         /\ LET s == [rows[i] EXCEPT !.live = FALSE]
            IN  /\ s \in Row /\ s # NoRow /\ s.name = rows[i].name
                /\ s.freed = rows[i].freed /\ ~s.live
  <1>1. i \in Ids /\ rows[i] \in Row /\ rows[i].live
    BY DEF Live, TypeOK
  <1>2. [rows[i] EXCEPT !.freed = b] \in Row /\ [rows[i] EXCEPT !.live = FALSE] \in Row
    BY <1>1 DEF Row
  <1> QED BY <1>1, <1>2, NoRowAssumption DEF Row

\* What a mark on the name leaves alone.
LEMMA MarkKeeps ==
  ASSUME StoreInv, job.pc # "batch", job'.pc # "batch", NEW i \in Live, NEW b \in BOOLEAN,
         rows' = [rows EXCEPT ![i] = [rows[i] EXCEPT !.freed = b]], torn' = torn
  PROVE  NoConflict' /\ PortsValid'
  <1> DEFINE s == [rows[i] EXCEPT !.freed = b]
  <1>1. /\ i \in Ids /\ s # NoRow /\ s.live /\ s.ports = rows[i].ports
        /\ s.listen = rows[i].listen /\ s.bind = rows[i].bind
    BY MarkRow DEF StoreInv
  <1>2. rows'[i] = s /\ \A k \in Ids \ {i} : rows'[k] = rows[k]
    BY <1>1 DEF StoreInv, TypeOK
  <1> HIDE DEF s
  <1>3. Live' = Live
    BY <1>1, <1>2 DEF Live
  <1>4. \A k \in Live : /\ rows'[k].ports = rows[k].ports /\ rows'[k].listen = rows[k].listen
                        /\ rows'[k].bind = rows[k].bind
    BY <1>1, <1>2 DEF Live
  <1>5. \A j, k \in Live : Conflict(rows'[j], rows'[k]) <=> Conflict(rows[j], rows[k])
    BY <1>4 DEF Conflict, firstListenerAddress
  <1>6. Checked' = Live /\ Checked = Live
    BY <1>3 DEF Checked
  <1> QED BY <1>3, <1>4, <1>5, <1>6 DEF StoreInv, NoConflict, PortsValid

LEMMA DeleteInv ==
  ASSUME StoreInv, NEW i \in Live, Delete(i)
  PROVE  StoreInv'
  <1> DEFINE s == [rows[i] EXCEPT !.freed = TRUE]
  <1>1. /\ i \in Ids /\ rows[i] \in Row /\ s \in Row /\ s # NoRow
        /\ s.name = rows[i].name /\ s.freed /\ s.live /\ rows[i].freed \in BOOLEAN
    <2>1. rows[i].freed \in BOOLEAN
      BY MarkRow DEF StoreInv, Row
    <2> QED BY <2>1, MarkRow DEF StoreInv
  <1>2. /\ rows' = [rows EXCEPT ![i] = s] /\ torn' = torn /\ job.pc = "idle"
        /\ job' = [pc |-> "freed", ids |-> {i}, was |-> rows[i].freed]
    <2>1. [rows EXCEPT ![i].freed = TRUE] = [rows EXCEPT ![i] = s]
      OBVIOUS
    <2> QED BY <2>1 DEF Delete, Idle
  <1>3. NoConflict' /\ PortsValid'
    BY <1>2, MarkKeeps
  <1>4. rows'[i] = s /\ \A k \in Ids \ {i} : rows'[k] = rows[k]
    BY <1>1, <1>2 DEF StoreInv, TypeOK
  <1>5. history' \in [Ids -> SUBSET Row]
    BY <1>1, HistoryType DEF StoreInv, Delete
  <1> HIDE DEF s
  <1>6. TypeOK'
    BY <1>1, <1>2, <1>5 DEF StoreInv, TypeOK
  <1>7. NamesUnique'
    BY <1>1, <1>4 DEF StoreInv, NamesUnique
  <1>8. JobSane'
    <2>1. i \in Live'
      BY <1>1, <1>4 DEF Live
    <2>2. rows[i].freed \/ \A j \in Ids \ {i} :
            rows'[j] # NoRow /\ ~rows'[j].freed => rows'[j].name # rows'[i].name
      <3>1. rows[i] # NoRow
        BY <1>1, NoRowAssumption
      <3> QED BY <3>1, <1>1, <1>4 DEF StoreInv, NamesUnique
    <2> QED BY <1>1, <1>2, <1>4, <2>1, <2>2 DEF JobSane
  <1> QED BY <1>3, <1>6, <1>7, <1>8 DEF StoreInv

\* The row under deletion.
LEMMA Deleted ==
  ASSUME StoreInv, job.pc = "freed"
  PROVE  \E i \in Live :
           /\ job.ids = {i} /\ rows[i].freed
           /\ job.was \/ \A j \in Ids \ {i} :
                  rows[j] # NoRow /\ ~rows[j].freed => rows[j].name # rows[i].name
  BY DEF StoreInv, JobSane

LEMMA DeleteRowInv ==
  ASSUME StoreInv, DeleteRow
  PROVE  StoreInv'
  <1>1. /\ job.pc = "freed" /\ torn' = torn /\ history' = history
        /\ job' = [pc |-> "idle", ids |-> {}, was |-> FALSE]
    BY DEF DeleteRow, NoJob
  <1>2. PICK i \in Live : job.ids = {i} /\ rows[i].freed
    BY <1>1, Deleted
  <1> DEFINE s == [rows[i] EXCEPT !.live = FALSE]
  <1>3. /\ i \in Ids /\ s \in Row /\ s # NoRow /\ s.freed /\ ~s.live
    BY <1>2, MarkRow DEF StoreInv
  <1>4. rows' = [rows EXCEPT ![i] = s]
    BY <1>2 DEF DeleteRow, StoreInv, TypeOK
  <1>5. rows'[i] = s /\ \A k \in Ids \ {i} : rows'[k] = rows[k]
    BY <1>3, <1>4 DEF StoreInv, TypeOK
  <1> HIDE DEF s
  <1>6. TypeOK'
    BY <1>1, <1>3, <1>4 DEF StoreInv, TypeOK
  <1>7. NamesUnique'
    BY <1>3, <1>5 DEF StoreInv, NamesUnique
  <1>8. Live' = Live \ {i}
    BY <1>3, <1>5 DEF Live
  <1>9. \A k \in Live \ {i} : rows'[k] = rows[k]
    BY <1>5 DEF Live
  <1>10. Checked' = Live \ {i} /\ Checked = Live
    BY <1>1, <1>8 DEF Checked
  <1>11. NoConflict' /\ PortsValid' /\ JobSane'
    BY <1>1, <1>8, <1>9, <1>10 DEF StoreInv, NoConflict, PortsValid, JobSane
  <1> QED BY <1>6, <1>7, <1>11 DEF StoreInv

LEMMA DeleteFailsInv ==
  ASSUME StoreInv, DeleteFails
  PROVE  StoreInv'
  <1>1. /\ job.pc = "freed" /\ torn' = torn /\ history' = history
        /\ job' = [pc |-> "idle", ids |-> {}, was |-> FALSE] /\ job.was \in BOOLEAN
    BY DEF DeleteFails, NoJob, StoreInv, TypeOK
  <1>2. PICK i \in Live :
          /\ job.ids = {i}
          /\ job.was \/ \A j \in Ids \ {i} :
                 rows[j] # NoRow /\ ~rows[j].freed => rows[j].name # rows[i].name
    BY <1>1, Deleted
  <1> DEFINE s == [rows[i] EXCEPT !.freed = job.was]
  <1>3. /\ i \in Ids /\ s \in Row /\ s # NoRow /\ s.freed = job.was /\ s.name = rows[i].name
    BY <1>1, <1>2, MarkRow DEF StoreInv
  <1>4. rows' = [rows EXCEPT ![i] = s]
    BY <1>2 DEF DeleteFails, StoreInv, TypeOK
  <1>5. NoConflict' /\ PortsValid'
    BY <1>1, <1>4, MarkKeeps
  <1>6. rows'[i] = s /\ \A k \in Ids \ {i} : rows'[k] = rows[k]
    BY <1>3, <1>4 DEF StoreInv, TypeOK
  <1> HIDE DEF s
  <1>7. TypeOK'
    BY <1>1, <1>3, <1>4 DEF StoreInv, TypeOK
  <1>8. NamesUnique'
    BY <1>2, <1>3, <1>6 DEF StoreInv, NamesUnique
  <1>9. JobSane'
    BY <1>1 DEF JobSane
  <1> QED BY <1>5, <1>7, <1>8, <1>9 DEF StoreInv

LEMMA RestartInv ==
  ASSUME StoreInv, PanelRestarts
  PROVE  StoreInv'
  <1>1. /\ UNCHANGED <<rows, history>> /\ job' = [pc |-> "idle", ids |-> {}, was |-> FALSE]
        /\ torn' = (torn \/ (job.pc = "batch" /\ ~BatchAvailable))
    BY DEF PanelRestarts, NoJob
  <1>2. TypeOK' /\ NamesUnique' /\ PortsValid' /\ JobSane'
    <2>1. torn' \in BOOLEAN
      BY <1>1 DEF StoreInv, TypeOK
    <2> QED BY <1>1, <2>1 DEF StoreInv, TypeOK, NamesUnique, PortsValid, JobSane, Live
  <1>3. NoConflict'
    <2> SUFFICES ASSUME ~torn', NEW j \in Live, NEW k \in Live, j # k
                 PROVE  ~Conflict(rows[j], rows[k])
      BY <1>1 DEF NoConflict, Checked, Live
    <2>1. CASE job.pc # "batch"
      BY <1>1, <2>1 DEF StoreInv, NoConflict, Checked
    <2>2. CASE job.pc = "batch" /\ j \in job.ids
      BY <1>1, <2>2 DEF BatchAvailable, ensureEndpointAvailable, EndpointFree
    <2>3. CASE job.pc = "batch" /\ k \in job.ids
      <3>1. ~Conflict(rows[k], rows[j])
        BY <1>1, <2>3 DEF BatchAvailable, ensureEndpointAvailable, EndpointFree
      <3> QED BY <3>1, ConflictSymmetric
    <2>4. CASE j \notin job.ids /\ k \notin job.ids
      BY <1>1, <2>4 DEF StoreInv, NoConflict, Checked
    <2> QED BY <2>1, <2>2, <2>3, <2>4
  <1> QED BY <1>2, <1>3 DEF StoreInv

LEMMA InitInv == Init => StoreInv
  <1> SUFFICES ASSUME Init PROVE StoreInv
    OBVIOUS
  <1>1. TypeOK /\ Live = {}
    BY DEF Init, TypeOK, NoJob, Live
  <1> QED BY <1>1 DEF Init, StoreInv, NamesUnique, NoConflict, Checked, PortsValid, JobSane, NoJob

LEMMA NextInv == StoreInv /\ [Next]_vars => StoreInv'
  <1> SUFFICES ASSUME StoreInv, [Next]_vars PROVE StoreInv'
    OBVIOUS
  <1>1. ASSUME NEW i \in Ids, NEW r \in Drafts, Create(i, r) \/ Update(i, r)
        PROVE  StoreInv'
    BY <1>1, DraftsAreRows, CreateInv, UpdateInv
  <1>2. ASSUME NEW i \in Ids, NEW n \in Names, QuickCreate(i, n)
        PROVE  StoreInv'
    <2>1. Draft(n, <<>>, NoAddress, Wild4, TRUE) \in Row
      BY PortsAssumption, DraftRow DEF Address
    <2> QED BY <1>2, <2>1, CreateInv DEF QuickCreate
  <1>3. ASSUME NEW i \in Ids, NEW j \in Ids, NEW n \in Names, NEW p \in Specs, Clone(i, j, n, p)
        PROVE  StoreInv'
    BY <1>3, CloneInv
  <1>4. ASSUME NEW i \in Ids, NEW n \in Names, NEW p \in Specs, InstantiateTemplate(i, n, p)
        PROVE  StoreInv'
    <2>1. Draft(n, p, NoAddress, Wild4, TRUE) \in Row
      BY DraftRow DEF Address
    <2> QED BY <1>4, <2>1, InsertInv DEF InstantiateTemplate
  <1>5. ASSUME NEW i \in Ids, NEW r \in history[i], RollbackVersion(i, r)
        PROVE  StoreInv'
    BY <1>5, RollbackInv
  <1>6. ASSUME NEW ids \in SUBSET Ids,
               BatchUndone(ids) \/ BatchSetEnabled(ids, TRUE) \/ BatchSetEnabled(ids, FALSE)
        PROVE  StoreInv'
    BY <1>6, BatchUndoneInv, SwitchInv
  <1>7. ASSUME NEW i \in Ids, NEW j \in Ids, NEW r \in Drafts, NEW s \in Drafts,
               BatchCreate(i, r, j, s)
        PROVE  StoreInv'
    BY <1>7, BatchCreateInv
  <1>8. CASE BatchChecked
    BY <1>8, BatchCheckedInv
  <1>9. ASSUME NEW i \in Ids, Delete(i)
        PROVE  StoreInv'
    BY <1>9, DeleteInv DEF Delete
  <1>10. CASE DeleteRow
    BY <1>10, DeleteRowInv
  <1>11. CASE DeleteFails
    BY <1>11, DeleteFailsInv
  <1>12. CASE PanelRestarts
    BY <1>12, RestartInv
  <1>13. CASE UNCHANGED vars
    BY <1>13 DEF vars, StoreInv, TypeOK, NamesUnique, NoConflict, Checked, PortsValid, JobSane, Live
  <1> QED BY <1>1, <1>2, <1>3, <1>4, <1>5, <1>6, <1>7, <1>8, <1>9, <1>10, <1>11, <1>12, <1>13
          DEF Next

\* Names stay unique among all rows, tombstones included, and endpoints among
\* the live ones, switched off or on, through every request of the listeners
\* API (service.go:244-297, p2.go:34-197).
THEOREM StoreSafe == Spec => []StoreInv
  BY InitInv, NextInv, PTL DEF Spec

LEMMA StoreBinds == StoreInv => ConfigurationBinds
  <1> SUFFICES ASSUME StoreInv, Idle, ~torn, NEW i \in On, NEW j \in On, i # j,
                      ~Misread(rows[i]), ~Misread(rows[j])
               PROVE  ~BindConflict(rows[i], rows[j]) /\ ~GeneratorConflict(rows[i], rows[j])
    BY DEF ConfigurationBinds
  <1>1. i \in Live /\ j \in Live /\ validPort(rows[i].ports) /\ validPort(rows[j].ports)
    BY DEF On, StoreInv, PortsValid
  <1>2. ~Conflict(rows[i], rows[j])
    BY <1>1 DEF StoreInv, NoConflict, Checked, Idle
  <1> QED BY <1>1, <1>2, ApartBinds

\* What the service admits, the core can bind and the generator accepts
\* (generator.go:82-129), but for rows whose other address field the service
\* has compared: one row does not stop the generation of all.
THEOREM StoreGenerates == Spec => []ConfigurationBinds
  BY StoreSafe, StoreBinds, PTL

LEMMA StoreKeeps ==
  ASSUME StoreInv, [Next]_vars
  PROVE  [\A i \in Live : ~rows[i].freed /\ job.pc # "batch" /\ rows'[i] # rows[i]
            => rows[i] \in history'[i]]_vars
  <1> SUFFICES ASSUME Next, NEW i \in Live, ~rows[i].freed, job.pc # "batch", rows'[i] # rows[i]
               PROVE  rows[i] \in history'[i]
    BY DEF vars
  <1>1. /\ i \in Ids /\ rows[i] # NoRow /\ TypeOK
        /\ \A r : Reclaimed(r)[i] = rows[i] /\ Reclaimed(r) \in [Ids -> Row \cup {NoRow}]
    BY ReclaimedRows, NoRowAssumption DEF Live, StoreInv
  <1>2. ASSUME NEW j \in Ids, NEW r, SaveVersion(j, rows[j]), i = j
        PROVE  rows[i] \in history'[i]
    BY <1>1, <1>2 DEF SaveVersion, TypeOK
  <1>3. ASSUME NEW r, Refused(r)
        PROVE  FALSE
    BY <1>1, <1>3 DEF Refused
  <1>4. ASSUME NEW j \in Fresh, NEW r, Inserted(j, r)
        PROVE  FALSE
    BY <1>1, <1>4 DEF Inserted, Fresh
  <1>5. ASSUME NEW j \in Ids, NEW r, Replaced(j, r)
        PROVE  rows[i] \in history'[i]
    BY <1>1, <1>2, <1>5 DEF Replaced
  <1>6. ASSUME NEW j \in Ids, NEW r, Create(j, r) \/ Insert(j, r)
        PROVE  FALSE
    BY <1>3, <1>4, <1>6 DEF Create, Insert, NextOf
  <1>7. ASSUME NEW j \in Ids, NEW r, Update(j, r) \/ RollbackVersion(j, r)
        PROVE  rows[i] \in history'[i]
    BY <1>3, <1>5, <1>7 DEF Update, RollbackVersion
  <1>8. ASSUME NEW ids, NEW on, BatchSetEnabled(ids, on)
        PROVE  rows[i] \in history'[i]
    BY <1>1, <1>8 DEF BatchSetEnabled
  <1>9. ASSUME NEW j \in Ids, NEW k \in Ids, NEW r, NEW s, BatchCreate(j, r, k, s)
        PROVE  FALSE
    <2>1. j # i /\ k # i
      BY <1>1, <1>9 DEF BatchCreate, NextOf, Fresh
    <2> QED BY <1>1, <1>3, <1>9, <2>1 DEF BatchCreate
  <1>10. ASSUME NEW j \in Ids, Delete(j)
         PROVE  rows[i] \in history'[i]
    BY <1>1, <1>2, <1>10 DEF Delete
  <1>11. CASE DeleteRow \/ DeleteFails
    <2>1. i \notin job.ids
      BY <1>11, Deleted DEF DeleteRow, DeleteFails
    <2> QED BY <1>1, <1>11, <2>1 DEF DeleteRow, DeleteFails
  <1>12. CASE BatchChecked \/ (\E ids \in SUBSET Ids : BatchUndone(ids)) \/ PanelRestarts
    BY <1>12 DEF BatchChecked, BatchUndone, PanelRestarts
  <1> QED BY <1>6, <1>7, <1>8, <1>9, <1>10, <1>11, <1>12
          DEF Next, QuickCreate, Clone, InstantiateTemplate

\* No request overwrites or deletes a row that is not among its versions
\* (p2.go:14, SaveVersion before every change).
THEOREM NothingIsLost == Spec => NothingLost
  BY StoreSafe, StoreKeeps, PTL DEF Spec, NothingLost
=============================================================================
