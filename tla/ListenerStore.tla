--------------------------- MODULE ListenerStore ---------------------------
(***************************************************************************)
(* The listeners table: what listener/service.go, p2.go and quick.go do to *)
(* names, endpoints and versions, and whether the configuration generated  *)
(* from the enabled rows can be bound.                                     *)
(*                                                                         *)
(* One mutex serializes all mutations, so an action is a whole request,    *)
(* except where a request writes several times: a batch is committed       *)
(* before its endpoints are checked, and a delete is three statements.     *)
(* The panel may die in between.  Protocol settings are left out: a draft  *)
(* here has passed that validation.                                        *)
(***************************************************************************)
EXTENDS Integers, Sequences, FiniteSets

CONSTANTS
    Ids,        \* listener ids
    Names,      \* names an administrator gives; none has the form of a freed one
    Specs,      \* port fields: sequences of ranges <<first, last>>
    MaxPort,    \* 65535
    AutoPorts,  \* 10000 to 60000
    Four, Six,  \* specific addresses of the two families
    Drafts,     \* rows an administrator asks for
    MaxVersions, \* snapshots kept before a request
    NoRow       \* an unused id

Wild4 == "0.0.0.0"
Wild6 == "::"
NoAddress == ""

Address == Four \cup Six \cup {Wild4, Wild6}

ASSUME PortsAssumption ==
    /\ MaxPort \in Nat /\ AutoPorts \subseteq 1 .. MaxPort
    /\ Specs \subseteq Seq(Int \X Int) /\ <<>> \in Specs /\ \A p \in AutoPorts : << <<p, p>> >> \in Specs
ASSUME AddressAssumption ==
    /\ NoAddress \notin Address /\ Four \cap Six = {}
    /\ {Wild4, Wild6} \cap (Four \cup Six) = {}
ASSUME IdsAssumption == Ids \subseteq Nat
ASSUME VersionsAssumption == MaxVersions \in Nat

VARIABLES
    rows,     \* the table, tombstones of deleted rows included
    history,  \* the snapshots of each listener
    job,      \* the request that is between two statements
    torn      \* a batch ended without its check or its undoing

vars == <<rows, history, job, torn>>

Row == [name : Names, freed : BOOLEAN, live : BOOLEAN, ports : Specs,
        listen : Address \cup {NoAddress}, bind : Address, on : BOOLEAN]

ASSUME NoRowAssumption == NoRow \notin Row

\* A draft as ValidateNode leaves it: an interface is always named.
Draft(name, ports, listen, bind, on) ==
    [name |-> name, freed |-> FALSE, live |-> TRUE, ports |-> ports, listen |-> listen,
     bind |-> IF bind # NoAddress THEN bind ELSE IF listen # NoAddress THEN listen ELSE Wild4,
     on |-> on]

ASSUME DraftsAssumption ==
    \A r \in Drafts :
        \E name \in Names, ports \in Specs, listen \in Address \cup {NoAddress},
           bind \in Address \cup {NoAddress}, on \in BOOLEAN :
               r = Draft(name, ports, listen, bind, on)

NoJob == [pc |-> "idle", ids |-> {}, was |-> FALSE]

Init ==
    /\ rows = [i \in Ids |-> NoRow] /\ history = [i \in Ids |-> {}]
    /\ job = NoJob /\ torn = FALSE

-----------------------------------------------------------------------------
(* Ports and addresses, as three places of the code read them. *)

validPort(spec) ==
    spec # <<>> /\ \A k \in DOMAIN spec : 1 <= spec[k][1] /\ spec[k][1] <= spec[k][2] /\ spec[k][2] <= MaxPort

RangesMeet(a, b) ==
    \E j \in DOMAIN a, k \in DOMAIN b : a[j][1] <= b[k][2] /\ b[k][1] <= a[j][2]

\* The service's: a field it cannot parse overlaps nothing.
portsOverlap(a, b) == validPort(a) /\ validPort(b) /\ RangesMeet(a, b)

firstListenerAddress(r) == IF r.listen # NoAddress THEN r.listen ELSE r.bind

listenerAddressesConflict(a, b) == ({a, b} \cap {Wild4, Wild6} # {}) \/ a = b

\* Wrong on purpose: only equal ports are compared.
X_Conflict(r, s) == r.ports = s.ports
                    /\ listenerAddressesConflict(firstListenerAddress(r), firstListenerAddress(s))

Conflict(r, s) == portsOverlap(r.ports, s.ports)
                  /\ listenerAddressesConflict(firstListenerAddress(r), firstListenerAddress(s))

\* The generator's function of the same name reads the interface first, which a
\* row always has, and what it reads becomes the core's listen.
CoreAddress(r) == r.bind

SameFamily(a, b) == (a \in Four \cup {Wild4}) = (b \in Four \cup {Wild4})

\* The generator's: families are kept apart.
GeneratorConflict(r, s) ==
    LET a == CoreAddress(r)  b == CoreAddress(s)
    IN  /\ RangesMeet(r.ports, s.ports)
        /\ a = b \/ (SameFamily(a, b) /\ ({a, b} \cap {Wild4, Wild6} # {}))

\* What the sockets do: an IPv6 wildcard takes the IPv4 port as well.
BindConflict(r, s) ==
    LET a == CoreAddress(r)  b == CoreAddress(s)
    IN  /\ RangesMeet(r.ports, s.ports)
        /\ a = b \/ Wild6 \in {a, b} \/ (SameFamily(a, b) /\ Wild4 \in {a, b})

-----------------------------------------------------------------------------
(* The checks every mutation goes through. *)

Live == {i \in Ids : rows[i] # NoRow /\ rows[i].live}

Fresh == {i \in Ids : rows[i] = NoRow /\ history[i] = {}}

NextOf(S) == {i \in S : \A k \in S : i <= k}

Holders(name) == {i \in Ids : rows[i] # NoRow /\ ~rows[i].freed /\ rows[i].name = name}

\* A tombstone that still holds the name is deleted for good, even when the
\* request is refused afterwards.
Reclaimed(r) == [i \in Ids |-> IF i \in Holders(r.name) \ Live /\ ~r.freed THEN NoRow ELSE rows[i]]

NameFree(r, self) == r.freed \/ Holders(r.name) \cap Live \subseteq self

EndpointFree(r, self) == \A i \in Live \ self : ~Conflict(r, rows[i])

\* Wrong on purpose: rows that are switched off are not looked at.
X_ensureEndpointAvailable(r, self) ==
    NameFree(r, self) /\ \A i \in Live \ self : rows[i].on => ~Conflict(r, rows[i])

ensureEndpointAvailable(r, self) == NameFree(r, self) /\ EndpointFree(r, self)

\* Ports no live row uses on any address.
FreePorts == {p \in AutoPorts : \A i \in Live : ~portsOverlap(<< <<p, p>> >>, rows[i].ports)}

MaySave == Cardinality(UNION {{i} \X history[i] : i \in Ids}) < MaxVersions

SaveVersion(i, r) == history' = [history EXCEPT ![i] = @ \cup {r}]

Idle == job.pc = "idle"

-----------------------------------------------------------------------------
(* Creation. *)

Refused(r) ==
    /\ rows' = Reclaimed(r)
    /\ UNCHANGED <<history, job, torn>>

Inserted(i, r) ==
    /\ rows' = [Reclaimed(r) EXCEPT ![i] = r]
    /\ SaveVersion(i, r)
    /\ UNCHANGED <<job, torn>>

\* A conflict that is not one of names moves the listener to a free port, or
\* is reported when none is found; so does a request without a port.
Create(i, r) ==
    /\ Idle /\ MaySave /\ i \in NextOf(Fresh) /\ NameFree(r, {})
    /\ \/ validPort(r.ports) /\ EndpointFree(r, {}) /\ Inserted(i, r)
       \/ /\ r.ports = <<>> \/ (validPort(r.ports) /\ ~EndpointFree(r, {}))
          /\ \E p \in FreePorts : Inserted(i, [r EXCEPT !.ports = << <<p, p>> >>])
       \/ validPort(r.ports) /\ ~EndpointFree(r, {}) /\ Refused(r)

\* QuickCreate: every interface, any port.
QuickCreate(i, name) == Create(i, Draft(name, <<>>, NoAddress, Wild4, TRUE))

Insert(i, r) ==
    /\ Idle /\ MaySave /\ i \in NextOf(Fresh) /\ validPort(r.ports)
    /\ NameFree(r, {})
    /\ IF ensureEndpointAvailable(r, {}) THEN Inserted(i, r) ELSE Refused(r)

\* The copy keeps addresses and the switch of its source.
Clone(i, source, name, ports) ==
    /\ source \in Live
    /\ Insert(i, [rows[source] EXCEPT !.name = name, !.freed = FALSE, !.ports = ports])

InstantiateTemplate(i, name, ports) == Insert(i, Draft(name, ports, NoAddress, Wild4, TRUE))

-----------------------------------------------------------------------------
(* Changes of a row. *)

Replaced(i, r) ==
    /\ SaveVersion(i, rows[i])
    /\ rows' = [Reclaimed(r) EXCEPT ![i] = r]
    /\ UNCHANGED <<job, torn>>

Update(i, r) ==
    /\ Idle /\ i \in Live /\ MaySave /\ validPort(r.ports) /\ NameFree(r, {i})
    /\ IF ensureEndpointAvailable(r, {i}) THEN Replaced(i, r) ELSE Refused(r)

\* Wrong on purpose: the replaced row is not kept.
X_RollbackVersion(i, r) ==
    /\ Idle /\ r \in history[i] /\ validPort(r.ports) /\ NameFree(r, {i}) /\ MaySave
    /\ IF i \in Live /\ ensureEndpointAvailable(r, {i})
       THEN rows' = [Reclaimed(r) EXCEPT ![i] = r] /\ UNCHANGED <<history, job, torn>>
       ELSE Refused(r)

\* A deleted listener has no row to keep a version of, and stays deleted.
RollbackVersion(i, r) ==
    /\ Idle /\ r \in history[i] /\ validPort(r.ports) /\ NameFree(r, {i}) /\ MaySave
    /\ IF i \in Live /\ ensureEndpointAvailable(r, {i}) THEN Replaced(i, r) ELSE Refused(r)

BatchSetEnabled(ids, on) ==
    /\ Idle /\ ids # {} /\ ids \subseteq Live /\ MaySave
    /\ on => \A i \in ids : ensureEndpointAvailable(rows[i], {i})
    /\ history' = [i \in Ids |-> IF i \in ids THEN history[i] \cup {rows[i]} ELSE history[i]]
    /\ rows' = [i \in Ids |-> IF i \in ids THEN [rows[i] EXCEPT !.on = on] ELSE rows[i]]
    /\ UNCHANGED <<job, torn>>

-----------------------------------------------------------------------------
(* A batch is one transaction; the endpoints are compared after it, against
   all live rows, those of the batch among them. *)

\* Names are checked beside the open transaction, in which a tombstone of the
\* second name cannot be deleted.
BatchCreate(i, r, j, s) ==
    /\ Idle /\ MaySave /\ i \in NextOf(Fresh) /\ j \in NextOf(Fresh \ {i})
    /\ validPort(r.ports) /\ validPort(s.ports) /\ NameFree(r, {})
    /\ IF r.name # s.name /\ Holders(s.name) = {}
       THEN /\ rows' = [Reclaimed(r) EXCEPT ![i] = r, ![j] = s]
            /\ job' = [NoJob EXCEPT !.pc = "batch", !.ids = {i, j}]
            /\ UNCHANGED <<history, torn>>
       ELSE Refused(r)

BatchAvailable == \A i \in job.ids : ensureEndpointAvailable(rows[i], {i})

BatchChecked ==
    /\ job.pc = "batch" /\ BatchAvailable
    /\ history' = [i \in Ids |-> IF i \in job.ids THEN history[i] \cup {rows[i]} ELSE history[i]]
    /\ job' = NoJob
    /\ UNCHANGED <<rows, torn>>

\* The rows are deleted softly, with their names; the first that cannot be
\* deleted ends it.
BatchUndone(left) ==
    /\ job.pc = "batch" /\ ~BatchAvailable
    /\ left \subseteq job.ids /\ \A i \in left, k \in job.ids \ left : k < i
    /\ rows' = [i \in Ids |-> IF i \in job.ids \ left THEN [rows[i] EXCEPT !.live = FALSE] ELSE rows[i]]
    /\ job' = NoJob
    /\ torn' = (torn \/ left # {})
    /\ UNCHANGED history

-----------------------------------------------------------------------------
(* A delete frees the name, removes the bindings, which are not part of this
   model, and then the row. *)

Delete(i) ==
    /\ Idle /\ i \in Live /\ MaySave
    /\ SaveVersion(i, rows[i])
    /\ rows' = [rows EXCEPT ![i].freed = TRUE]
    /\ job' = [pc |-> "freed", ids |-> {i}, was |-> rows[i].freed]
    /\ UNCHANGED torn

DeleteRow ==
    /\ job.pc = "freed"
    /\ rows' = [i \in Ids |-> IF i \in job.ids THEN [rows[i] EXCEPT !.live = FALSE] ELSE rows[i]]
    /\ job' = NoJob
    /\ UNCHANGED <<history, torn>>

\* One of the two statements fails: the name comes back.
DeleteFails ==
    /\ job.pc = "freed"
    /\ rows' = [i \in Ids |-> IF i \in job.ids THEN [rows[i] EXCEPT !.freed = job.was] ELSE rows[i]]
    /\ job' = NoJob
    /\ UNCHANGED <<history, torn>>

PanelRestarts ==
    /\ job' = NoJob
    /\ torn' = (torn \/ (job.pc = "batch" /\ ~BatchAvailable))
    /\ UNCHANGED <<rows, history>>

-----------------------------------------------------------------------------
Next ==
    \/ \E i \in Ids, r \in Drafts : Create(i, r) \/ Update(i, r)
    \/ \E i \in Ids, n \in Names : QuickCreate(i, n)
    \/ \E i, j \in Ids, n \in Names, p \in Specs : Clone(i, j, n, p)
    \/ \E i \in Ids, n \in Names, p \in Specs : InstantiateTemplate(i, n, p)
    \/ \E i \in Ids : \E r \in history[i] : RollbackVersion(i, r)
    \/ \E ids \in SUBSET Ids : \/ BatchUndone(ids)
                                \/ BatchSetEnabled(ids, TRUE) \/ BatchSetEnabled(ids, FALSE)
    \/ \E i, j \in Ids, r, s \in Drafts : BatchCreate(i, r, j, s)
    \/ BatchChecked
    \/ \E i \in Ids : Delete(i)
    \/ DeleteRow \/ DeleteFails \/ PanelRestarts

Spec == Init /\ [][Next]_vars

-----------------------------------------------------------------------------
(* Properties. *)

TypeOK ==
    /\ rows \in [Ids -> Row \cup {NoRow}] /\ history \in [Ids -> SUBSET Row]
    /\ torn \in BOOLEAN
    /\ job \in [pc : {"idle", "batch", "freed"}, ids : SUBSET Ids, was : BOOLEAN]

\* What the unique index would refuse never comes up: tombstones count.
NamesUnique ==
    \A i, j \in Ids : i # j /\ rows[i] # NoRow /\ rows[j] # NoRow /\ ~rows[i].freed /\ ~rows[j].freed
                      => rows[i].name # rows[j].name

\* Rows of a batch that is not checked yet are the only ones that may conflict.
Checked == Live \ (IF job.pc = "batch" THEN job.ids ELSE {})

NoConflict == ~torn => \A i, j \in Checked : i # j => ~Conflict(rows[i], rows[j])

PortsValid == \A i \in Live : validPort(rows[i].ports)

\* Nobody takes a freed name while the delete may still give it back.
JobSane ==
    /\ job.pc = "idle" => job.ids = {}
    /\ job.pc = "batch" => job.ids \subseteq Live
    /\ job.pc = "freed" =>
           \E i \in Live :
               /\ job.ids = {i} /\ rows[i].freed
               /\ job.was \/ \A j \in Ids \ {i} :
                      rows[j] # NoRow /\ ~rows[j].freed => rows[j].name # rows[i].name

\* The endpoints and names of the listeners stay apart, those switched off
\* included, whatever is created, cloned, rolled back, batched, deleted, half
\* deleted or interrupted (service.go:278); only a batch that died unchecked
\* breaks it.
StoreInv == TypeOK /\ NamesUnique /\ NoConflict /\ PortsValid /\ JobSane

On == {i \in Live : rows[i].on}

\* The service compares another specific address than the one the core binds.
Misread(r) == firstListenerAddress(r) \notin {CoreAddress(r), Wild4, Wild6}

\* Between requests the core can bind what is switched on, and one row does not
\* stop the generation of all: no two listeners conflict for the sockets or for
\* validateListenerEndpoints.  Rows whose two address fields make the service
\* compare the wrong one are excepted: the service lets such a row pass beside
\* one that the generator refuses, or that the core cannot bind.
ConfigurationBinds ==
    Idle /\ ~torn =>
        \A i, j \in On :
            i # j /\ ~Misread(rows[i]) /\ ~Misread(rows[j]) =>
                /\ ~BindConflict(rows[i], rows[j])
                /\ ~GeneratorConflict(rows[i], rows[j])

\* Whatever a request replaces can be rolled back to: a row that a request
\* changes or deletes is among the versions when the request has begun.
NothingLost ==
    [][\A i \in Live : ~rows[i].freed /\ job.pc # "batch" /\ rows'[i] # rows[i]
          => rows[i] \in history'[i]]_vars
=============================================================================
