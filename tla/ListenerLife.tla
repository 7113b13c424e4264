---------------------------- MODULE ListenerLife ----------------------------
(***************************************************************************)
(* One listener from its creation on: saves, bindings of users, the        *)
(* certificate pair on disk, regenerations of the core's configuration,    *)
(* panel restarts, and what every exporter hands out in the meantime.      *)
(*                                                                         *)
(* A regeneration reads the row first and writes the sanitized form back   *)
(* later.  The listener service holds its lock meanwhile; a regeneration   *)
(* that the configuration routes ask for holds none, so saves fall into    *)
(* the gap.  That the core has loaded what was generated is the business   *)
(* of ConfigRegen and ConfigApply.                                         *)
(***************************************************************************)
EXTENDS MuiShares

CONSTANTS
    Forms,       \* configurations an administrator may submit
    None,        \* no row, no listener in the core, no regeneration
    MaxChanges   \* saves, bindings and blockings in a run

\* A pair the panel has yet to mint is in no form.
ASSUME FormsAssumption ==
    Forms \subseteq Configs /\ \A form \in Forms : form.cert \notin Pairs
ASSUME NoneAssumption == None \notin Configs \cup Layers
ASSUME MaxChangesAssumption == MaxChanges \in Nat

VARIABLES
    row,      \* the stored configuration, or None
    disk,     \* the pair certstore keeps for the listener
    minted,   \* pairs minted so far
    grant,    \* what each user is to the listener
    core,     \* the listener as last generated, or None
    job,      \* the row a running regeneration has read, or None
    synced,   \* nothing has changed since the regeneration's reads
    refused,  \* the last quick create was refused
    changes   \* bounded

vars == <<row, disk, minted, grant, core, job, synced, refused, changes>>

Grants == {"unbound", "active", "blocked", "broken"}

TypeOK ==
    /\ row \in Configs \cup {None}
    /\ disk \in {"none", "own"} \cup Pairs
    /\ minted \subseteq Pairs
    /\ grant \in [Users -> Grants]
    /\ core \in Layers \cup {None}
    /\ job \in Configs \cup {None}
    /\ synced \in BOOLEAN /\ refused \in BOOLEAN
    /\ changes \in 0 .. MaxChanges

Init ==
    /\ row = None /\ disk = "none" /\ minted = {}
    /\ grant = [u \in Users |-> "unbound"]
    /\ core = None /\ job = None
    /\ synced = TRUE /\ refused = FALSE /\ changes = 0

-----------------------------------------------------------------------------
Exists == row # None
\* GenerateSelfSigned never returns the same pair twice.
MayMint == minted # Pairs
Fresh == CHOOSE pair \in Pairs : pair \notin minted
Record(cert) == minted' = minted \cup ({cert} \cap Pairs)
Change == changes < MaxChanges /\ changes' = changes + 1

\* Create: without an id there is no pair on disk to look for, or to save.
Create(form) ==
    LET c == AutofillListenerDefaults(form, "none", Fresh)
    IN  /\ ~Exists /\ MayMint /\ Change
        /\ ~AutofillRefuses(form) /\ ValidateModel(c)
        /\ row' = c
        /\ Record(c.cert)
        /\ synced' = FALSE /\ refused' = FALSE
        /\ UNCHANGED <<disk, grant, core, job>>

\* SeedQuickConfig.  All that a quick create is given is the protocol.
SeedQuickConfig(proto) ==
    LET seeded == proto \in StreamProtocols
    IN  [proto |-> proto, auth |-> "none", cert |-> "none",
         reality |-> IF seeded THEN "full" ELSE "none", wrap |-> "none",
         fill |-> "on", mirror |-> "none",
         layer |-> IF seeded THEN "reality" ELSE "unset",
         insecure |-> FALSE, flag |-> FALSE, flow |-> proto = "vless",
         net |-> "tcp", plugin |-> "none"]

QuickCreate(proto) == Create(SeedQuickConfig(proto))

QuickCreateRefused(proto) ==
    LET c == AutofillListenerDefaults(SeedQuickConfig(proto), "none", Fresh)
    IN  /\ ~Exists /\ MayMint /\ ~refused
        /\ ~ValidateModel(c)
        /\ refused' = TRUE
        /\ UNCHANGED <<row, disk, minted, grant, core, job, synced, changes>>

\* Update: the autofill writes the pair to disk before the row is validated,
\* and a row that is refused leaves it there.
Update(form) ==
    LET c == AutofillListenerDefaults(form, disk, Fresh)
    IN  /\ Exists /\ MayMint /\ Change
        /\ ~AutofillRefuses(form)
        /\ disk' = IF CompletePair(c.cert) THEN c.cert ELSE disk
        /\ Record(c.cert)
        /\ row' = IF ValidateModel(c) THEN c ELSE row
        /\ synced' = (synced /\ ~ValidateModel(c))
        /\ UNCHANGED <<grant, core, job, refused>>

\* The form that edits a listener carries its pair, or has it emptied.
Edited(form) == {form, [form EXCEPT !.cert = row.cert]}

SetGrant(u, g) ==
    /\ Exists
    /\ grant' = [grant EXCEPT ![u] = g]
    /\ synced' = FALSE
    /\ UNCHANGED <<row, disk, minted, core, job, refused>>

Bind(u) == grant[u] = "unbound" /\ Change /\ SetGrant(u, "active")
Unbind(u) == grant[u] # "unbound" /\ Change /\ SetGrant(u, "unbound")
\* Disabled, expired or over quota, and back; what leads back is not counted.
Block(u) == grant[u] = "active" /\ Change /\ SetGrant(u, "blocked")
Unblock(u) == grant[u] = "blocked" /\ SetGrant(u, "active") /\ UNCHANGED changes
\* The credential key was rotated: the stored password no longer decrypts,
\* until it is reset.
RotateKey == \E u \in Users : grant[u] = "active" /\ Change /\ SetGrant(u, "broken")
ResetPassword(u) == grant[u] = "broken" /\ SetGrant(u, "active") /\ UNCHANGED changes

\* GenerateFinalConfig loads the listeners ...
RegenerateReads ==
    /\ Exists /\ job = None /\ ~synced
    /\ job' = row /\ synced' = TRUE
    /\ UNCHANGED <<row, disk, minted, grant, core, refused, changes>>

\* ... then the credentials; generateListeners restores or mints the pair,
\* writes back what it changed, mirrors the pair to disk and compiles.  A
\* listener that cannot be compiled is skipped.
RegenerateWrites ==
    LET c == Regenerated(job, disk, Fresh)
        creds == ActiveCredentials(row, grant)
    IN  /\ job # None /\ MayMint
        /\ row' = IF c # job THEN c ELSE row
        /\ disk' = IF CompletePair(c.cert) THEN c.cert ELSE disk
        /\ Record(c.cert)
        /\ core' = IF CompileRefuses(c, creds) THEN None ELSE Compile(c, creds)
        /\ job' = None
        /\ UNCHANGED <<grant, synced, refused, changes>>

\* The panel process ends: a running regeneration is gone; start-up hydrates
\* the rows and generates the configuration again.
PanelRestarts ==
    /\ Exists
    /\ row' = Hydrated(row, disk)
    /\ disk' = IF CompletePair(row.cert) /\ row.proto \in CertProtocols THEN row.cert ELSE disk
    /\ job' = None /\ synced' = FALSE
    /\ UNCHANGED <<minted, grant, core, refused, changes>>

Next ==
    \/ \E form \in Forms : Create(form)
    \/ \E p \in Protocols : QuickCreate(p) \/ QuickCreateRefused(p)
    \/ \E form \in Forms : Exists /\ \E f \in Edited(form) : Update(f)
    \/ \E u \in Users : \/ Bind(u) \/ Unbind(u) \/ Block(u) \/ Unblock(u)
                        \/ ResetPassword(u)
    \/ RotateKey
    \/ RegenerateReads \/ RegenerateWrites
    \/ PanelRestarts

Spec == Init /\ [][Next]_vars

-----------------------------------------------------------------------------
(* Properties. *)

\* The core runs what the row and the users now say.
Settled == synced /\ job = None /\ core # None

\* Who may fetch a subscription: bound and active.  A password that does not
\* decrypt is no part of being active.
Subscribers == {u \in Users : grant[u] \in {"active", "broken"}}

\* Exceptions, each a known limit of the exporters.
\* The subscription prefers the configuration's Shadowsocks password, the
\* core is given the bound user's.
OwnPasswordOverridden == row.proto = "shadowsocks" /\ BoundUsers(grant) # {}
\* The v3 form of shadow-tls keeps its password where the client form has
\* none to read.
NoClientPassword == row.wrap = "shadow-tls-v3" /\ row.proto \notin {"shadowsocks", "snell"}
\* A client's Shadowsocks or Snell proxy has room for one plugin or wrapper.
PluginAndWrapper == row.plugin # "none" /\ Wrapped(row)
\* Behind a reverse proxy (allow-insecure) the core itself speaks no TLS.
TLSByProxy == row.insecure

\* Once the core is up to date, every proxy a subscription holds for this
\* listener is one the core accepts, and there is one:
\* credential, transport, security layer and the client's trust in the
\* certificate agree (converter/client.go against protocol/compile.go).
\* sing-box drops what it has no field for; what it does express is accepted.
SubscriptionConnects ==
    Settled /\ ~OwnPasswordOverridden /\ ~NoClientPassword /\ ~PluginAndWrapper
            /\ ~TLSByProxy =>
        \A u \in Subscribers :
            LET offers == ListenerToProxies(row, SubscriptionCredentials(row, grant, u))
            IN  /\ offers # {}
                /\ \A o \in offers : Accepts(core, o)
                /\ ~Wrapped(row) /\ row.mirror = "none" =>
                       \A o \in GenerateUserSingboxSubscription(row, grant, u) :
                           Accepts(core, o)

\* The registry's shares take a bound user's password for the psk or the key.
KeyTakenFromUser == row.proto \in {"snell", "sudoku"} /\ BoundUsers(grant) # {}

\* The links have no place for wrappers, tlsmirror, a Shadowsocks plugin and
\* some transports.
LinkExpressible ==
    /\ ~Wrapped(row) /\ row.mirror = "none" /\ ~TLSByProxy
    /\ row.plugin = "none" /\ row.net \in {"tcp", "ws", "grpc", "xhttp"}

\* Within what a link can express, the base64 subscription's links are accepted,
\* and so is every link and every YAML of ExportNodeURI, whichever of its three
\* tiers answered, except where a scheme cannot ask for an unverified
\* certificate (VMess, TrustTunnel).
LinksConnect ==
    Settled /\ LinkExpressible =>
        /\ \A u \in Subscribers :
               \A o \in GenerateUserBase64Subscription(row, grant, u) :
                   (PanelSigned(row) /\ o.kind \in {"vmess", "trusttunnel"}) \/ Accepts(core, o)
        /\ LET export == ExportNodeURI(row, ActiveCredentials(row, grant))
           IN  KeyTakenFromUser \/
               /\ \A o \in export.uris :
                      (PanelSigned(row) /\ o.kind \in {"vmess", "trusttunnel"}) \/ Accepts(core, o)
               /\ \A o \in export.yamls : Accepts(core, o)

\* A listener whose protocol needs TLS never reaches the core bare: the pair is
\* minted or restored, or a complete wrapper takes its place, through every
\* edit, restart and regeneration (autofill.go:583, tls_ensure.go:15).
NeverBare ==
    core # None /\ core.kind \in {MihomoType(p) : p \in CertProtocols} /\ ~core.insecure =>
        core.cert # "none" \/ core.reality \/ core.wrap # "none" \/ core.mirror

\* Clients that trusted a certificate keep being shown it: while the core
\* presents a pair, no other one is minted (autofill.go:86, generator.go:227).
NoRotationUnderClients ==
    [][minted' # minted => core = None \/ core.cert = "none"]_vars

\* quick.go:113 says of QuickCreate that it "builds a fully working listener
\* from name + protocol only": it is never refused.
QuickCreateWorks == ~refused

-----------------------------------------------------------------------------
(***************************************************************************)
(* The inductive invariant behind them.                                    *)
(***************************************************************************)

RowsShaped ==
    /\ row # None => Shaped(row)
    /\ job # None => Shaped(job)
    /\ row = None => core = None /\ job = None /\ disk = "none"

\* A pair of the panel's in use is one it has minted.
PairsMinted ==
    /\ row # None => {row.cert} \cap Pairs \subseteq minted
    /\ job # None => {job.cert} \cap Pairs \subseteq minted
    /\ {disk} \cap Pairs \subseteq minted

\* The pair the core presents has its like on disk.
PairKept == core # None /\ core.cert # "none" => disk # "none"

\* With no change in between, the regeneration works on the row as it is, and
\* leaves the core with what the row and the users then say.
UpToDate ==
    /\ synced /\ job # None => row = job
    /\ Settled =>
          LET creds == ActiveCredentials(row, grant)
          IN  /\ row # None /\ Secured(row)
              /\ ~CompileRefuses(row, creds) /\ core = Compile(row, creds)

LifeInv ==
    /\ TypeOK
    /\ RowsShaped
    /\ PairsMinted
    /\ PairKept
    /\ UpToDate
    /\ NeverBare
=============================================================================
