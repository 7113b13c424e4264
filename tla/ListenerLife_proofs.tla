------------------------- MODULE ListenerLife_proofs -------------------------
(***************************************************************************)
(* Proofs about ListenerLife.  The invariant LifeInv says of a listener    *)
(* that its row is shaped whatever was saved, restored or written back,    *)
(* that a pair shown to clients is on disk, and that an up-to-date core    *)
(* runs the secured row; what a regeneration makes of one row comes from   *)
(* ListenerConfig_proofs.                                                  *)
(***************************************************************************)
EXTENDS ListenerLife, ListenerConfig_proofs

LEMMA NoneIsNoRow == \A x \in Configs \cup Layers : x # None
  BY NoneAssumption

LEMMA FreshPair ==
  ASSUME minted \subseteq Pairs, MayMint
  PROVE  Fresh \in Pairs /\ Fresh \notin minted
  BY DEF Fresh, MayMint

LEMMA SeedTyped ==
  ASSUME NEW p \in Protocols
  PROVE  SeedQuickConfig(p) \in Configs /\ SeedQuickConfig(p).cert = "none"
  BY DEF SeedQuickConfig, Configs, Transports

\* An edited form brings no pair that was not minted.
LEMMA EditedTyped ==
  ASSUME TypeOK, PairsMinted, Exists, NEW form \in Forms, NEW f \in Edited(form)
  PROVE  f \in Configs /\ {f.cert} \cap Pairs \subseteq minted
  <1>1. row \in Configs /\ form \in Configs /\ form.cert \notin Pairs
        /\ {row.cert} \cap Pairs \subseteq minted
    BY FormsAssumption DEF TypeOK, Exists, PairsMinted
  <1>2. CASE f = form
    BY <1>1, <1>2
  <1>3. CASE f = [form EXCEPT !.cert = row.cert]
    <2>1. row.cert \in {"none", "half", "own"} \cup Pairs
      BY <1>1 DEF Configs
    <2>2. f \in Configs /\ f.cert = row.cert
      BY <1>1, <1>3, <2>1 DEF Configs
    <2> QED BY <1>1, <2>2
  <1> QED BY <1>2, <1>3 DEF Edited

\* Credentials depend on the protocol and on what the configuration carries.
LEMMA SameCredentials ==
  ASSUME NEW c, NEW d, Shaped(c), Shaped(d), c.proto = d.proto, NEW g
  PROVE  ActiveCredentials(c, g) = ActiveCredentials(d, g)
  <1>1. c \in Configs /\ d \in Configs /\ c.auth = d.auth /\ c.auth # "none"
    BY DEF Shaped
  <1>2. ASSUME NEW x, x = c \/ x = d
        PROVE  /\ EnsureListenerCredentials(x).proto = c.proto
               /\ EnsureListenerCredentials(x).auth = c.auth
    <2>1. x \in Configs /\ x.proto = c.proto /\ x.auth = c.auth
          /\ (x.proto = "tuic-v4" => x.auth = "token")
      BY <1>1, <1>2 DEF Shaped
    <2> QED BY <1>1, <2>1 DEF EnsureListenerCredentials, Configs
  <1>3. ConfigCredentials(EnsureListenerCredentials(c)) =
            ConfigCredentials(EnsureListenerCredentials(d))
    <2>1. /\ EnsureListenerCredentials(c).proto = EnsureListenerCredentials(d).proto
          /\ EnsureListenerCredentials(c).auth = EnsureListenerCredentials(d).auth
      BY <1>2
    <2> QED BY <2>1 DEF ConfigCredentials
  <1> QED BY <1>3 DEF ActiveCredentials

LEMMA InitLife == Init => LifeInv
  <1> SUFFICES ASSUME Init PROVE LifeInv
    OBVIOUS
  <1>1. TypeOK
    <2>1. grant \in [Users -> Grants]
      BY DEF Init, Grants
    <2>2. changes \in 0 .. MaxChanges
      BY MaxChangesAssumption DEF Init
    <2>3. /\ row = None /\ disk = "none" /\ minted = {} /\ core = None /\ job = None
          /\ synced = TRUE /\ refused = FALSE
      BY DEF Init
    <2> QED BY <2>1, <2>2, <2>3 DEF TypeOK
  <1>2. RowsShaped /\ PairsMinted
    BY PairNames DEF Init, RowsShaped, PairsMinted
  <1>3. PairKept /\ UpToDate /\ NeverBare
    BY DEF Init, PairKept, UpToDate, NeverBare, Settled
  <1> QED BY <1>1, <1>2, <1>3 DEF LifeInv

-----------------------------------------------------------------------------
(* One lemma for each action. *)

LEMMA CreateStep ==
  ASSUME LifeInv, NEW form \in Configs, {form.cert} \cap Pairs \subseteq minted, Create(form)
  PROVE  LifeInv' /\ core = None
  <1> DEFINE c == AutofillListenerDefaults(form, "none", Fresh)
  <1>1. /\ row = None /\ core = None /\ job = None /\ disk = "none"
    BY DEF LifeInv, RowsShaped, Create, Exists
  <1>2. Fresh \in Pairs
    BY FreshPair DEF Create, LifeInv, TypeOK
  <1>3. Shaped(c)
    BY <1>2, SavedIsShaped DEF Create, Disks
  <1>4. c \in Configs /\ c # None
    BY <1>3, NoneIsNoRow DEF Shaped
  <1>5. /\ row' = c /\ minted' = minted \cup ({c.cert} \cap Pairs) /\ synced' = FALSE
        /\ refused' = FALSE /\ changes' = changes + 1 /\ changes < MaxChanges
        /\ disk' = disk /\ grant' = grant /\ core' = core /\ job' = job
    BY DEF Create, Record, Change
  <1> HIDE DEF c
  <1>6. TypeOK'
    <2>1. changes' \in 0 .. MaxChanges
      BY <1>5, MaxChangesAssumption DEF LifeInv, TypeOK
    <2> QED BY <1>1, <1>4, <1>5, <2>1 DEF LifeInv, TypeOK
  <1>7. RowsShaped' /\ PairsMinted'
    BY <1>1, <1>3, <1>4, <1>5, PairNames DEF LifeInv, RowsShaped, PairsMinted
  <1>8. PairKept' /\ UpToDate' /\ NeverBare'
    BY <1>1, <1>5 DEF PairKept, UpToDate, NeverBare, Settled
  <1> QED BY <1>1, <1>6, <1>7, <1>8 DEF LifeInv

LEMMA RefusedStep ==
  ASSUME LifeInv, NEW p \in Protocols, QuickCreateRefused(p)
  PROVE  LifeInv' /\ minted' = minted
  <1>1. /\ refused' = TRUE
        /\ UNCHANGED <<row, disk, minted, grant, core, job, synced, changes>>
    BY DEF QuickCreateRefused
  <1> QED BY <1>1 DEF LifeInv, TypeOK, RowsShaped, PairsMinted, PairKept, UpToDate,
                      NeverBare, Settled

LEMMA UpdateStep ==
  ASSUME LifeInv, NEW f \in Configs, {f.cert} \cap Pairs \subseteq minted, Update(f)
  PROVE  LifeInv' /\ (minted' # minted => core = None \/ core.cert = "none")
  <1> DEFINE c == AutofillListenerDefaults(f, disk, Fresh)
             valid == ValidateModel(c)
  <1>1. Fresh \in Pairs /\ disk \in Disks
    BY FreshPair DEF Update, LifeInv, TypeOK, Disks
  <1>2. /\ c \in Configs
        /\ \/ c.cert = "none"
           \/ CompletePair(f.cert) /\ c.cert = f.cert
           \/ ~CompletePair(f.cert) /\ disk # "none" /\ c.cert = disk
           \/ ~CompletePair(f.cert) /\ disk = "none" /\ c.cert = Fresh
    BY <1>1, AutofillFields
  <1>3. valid => Shaped(c)
    BY <1>1, SavedIsShaped DEF Update
  <1>4. /\ row # None
        /\ disk' = IF CompletePair(c.cert) THEN c.cert ELSE disk
        /\ minted' = minted \cup ({c.cert} \cap Pairs)
        /\ row' = IF valid THEN c ELSE row
        /\ synced' = (synced /\ ~valid)
        /\ changes' = changes + 1 /\ changes < MaxChanges
        /\ UNCHANGED <<grant, core, job, refused>>
    BY DEF Update, Record, Change, Exists
  <1> HIDE DEF c, valid
  <1>5. c # None /\ row \in Configs
    BY <1>2, <1>4, NoneIsNoRow DEF LifeInv, TypeOK
  <1>6. TypeOK'
    <2>1. disk' \in {"none", "own"} \cup Pairs
      BY <1>1, <1>4 DEF CompletePair, Disks
    <2> QED BY <1>2, <1>4, <1>5, <2>1, MaxChangesAssumption DEF LifeInv, TypeOK
  <1>7. RowsShaped'
    BY <1>3, <1>4, <1>5 DEF LifeInv, RowsShaped
  <1>8. PairsMinted'
    <2>1. {disk'} \cap Pairs \subseteq minted'
      BY <1>4 DEF LifeInv, PairsMinted
    <2>2. {row'.cert} \cap Pairs \subseteq minted'
      BY <1>4 DEF LifeInv, PairsMinted
    <2> QED BY <1>4, <2>1, <2>2 DEF LifeInv, PairsMinted
  <1>9. PairKept'
    BY <1>4, PairNames DEF LifeInv, PairKept
  <1>10. UpToDate'
    <2>1. CASE valid
      BY <1>4, <2>1 DEF UpToDate, Settled
    <2>2. CASE ~valid
      BY <1>4, <2>2 DEF LifeInv, UpToDate, Settled
    <2> QED BY <2>1, <2>2
  <1>11. NeverBare'
    BY <1>4 DEF LifeInv, NeverBare
  <1>12. minted' # minted => core = None \/ core.cert = "none"
    <2>1. disk = "none" => core = None \/ core.cert = "none"
      BY DEF LifeInv, PairKept
    <2>2. disk # "none" => {disk} \cap Pairs \subseteq minted
      BY DEF LifeInv, PairsMinted
    <2> QED BY <1>2, <1>4, <2>1, <2>2, PairNames
  <1> QED BY <1>6, <1>7, <1>8, <1>9, <1>10, <1>11, <1>12 DEF LifeInv

\* Whatever changes what users are to the listener makes the core stale.
LEMMA GrantStep ==
  ASSUME LifeInv, NEW u \in Users, NEW g \in Grants, SetGrant(u, g),
         changes' \in 0 .. MaxChanges
  PROVE  LifeInv' /\ minted' = minted
  <1>1. /\ grant' = [grant EXCEPT ![u] = g] /\ synced' = FALSE
        /\ UNCHANGED <<row, disk, minted, core, job, refused>>
    BY DEF SetGrant
  <1>2. TypeOK'
    BY <1>1 DEF LifeInv, TypeOK
  <1> QED BY <1>1, <1>2 DEF LifeInv, RowsShaped, PairsMinted, PairKept, UpToDate,
                            NeverBare, Settled

LEMMA UserStep ==
  ASSUME LifeInv, NEW u \in Users,
         \/ Bind(u) \/ Unbind(u) \/ Block(u) \/ Unblock(u) \/ ResetPassword(u)
         \/ grant[u] = "active" /\ Change /\ SetGrant(u, "broken")
  PROVE  LifeInv' /\ minted' = minted
  <1>1. PICK g \in Grants : SetGrant(u, g)
    BY DEF Bind, Unbind, Block, Unblock, ResetPassword, Grants
  <1>2. changes' \in 0 .. MaxChanges
    <2>1. changes' = changes \/ (changes < MaxChanges /\ changes' = changes + 1)
      BY DEF Bind, Unbind, Block, Unblock, ResetPassword, Change
    <2> QED BY <2>1, MaxChangesAssumption DEF LifeInv, TypeOK
  <1> QED BY <1>1, <1>2, GrantStep

LEMMA ReadsStep ==
  ASSUME LifeInv, RegenerateReads
  PROVE  LifeInv' /\ minted' = minted
  <1>1. /\ row # None /\ job = None /\ job' = row /\ synced' = TRUE
        /\ UNCHANGED <<row, disk, minted, grant, core, refused, changes>>
    BY DEF RegenerateReads, Exists
  <1> QED BY <1>1 DEF LifeInv, TypeOK, RowsShaped, PairsMinted, PairKept, UpToDate,
                      NeverBare, Settled

LEMMA WritesStep ==
  ASSUME LifeInv, RegenerateWrites
  PROVE  LifeInv' /\ (minted' # minted => core = None \/ core.cert = "none")
  <1> DEFINE c == Regenerated(job, disk, Fresh)
             creds == ActiveCredentials(row, grant)
  <1>1. Fresh \in Pairs /\ disk \in Disks
    BY FreshPair DEF RegenerateWrites, LifeInv, TypeOK, Disks
  <1>2. /\ job # None
        /\ row' = IF c # job THEN c ELSE row
        /\ disk' = IF CompletePair(c.cert) THEN c.cert ELSE disk
        /\ minted' = minted \cup ({c.cert} \cap Pairs)
        /\ core' = IF CompileRefuses(c, creds) THEN None ELSE Compile(c, creds)
        /\ job' = None
        /\ UNCHANGED <<grant, synced, refused, changes>>
    BY DEF RegenerateWrites, Record
  <1>3. Shaped(job) /\ row # None
    BY <1>2 DEF LifeInv, RowsShaped
  <1>4. /\ Secured(c) /\ c.proto = job.proto
        /\ \/ c.cert = "none"
           \/ CompletePair(job.cert) /\ c.cert = job.cert
           \/ ~CompletePair(job.cert) /\ disk # "none" /\ c.cert = disk
           \/ ~CompletePair(job.cert) /\ disk = "none" /\ c.cert = Fresh
    BY <1>1, <1>3, RegenerationSecures
  <1> HIDE DEF c
  <1>5. row \in Configs /\ Shaped(row)
    BY <1>3 DEF LifeInv, TypeOK, RowsShaped
  <1>6. c \in Configs /\ Shaped(c) /\ c # None /\ c.cert # "half"
    BY <1>4, NoneIsNoRow DEF Secured, Shaped
  <1>7. creds \in SUBSET (Users \cup {"config"})
    BY <1>5, CredentialTypes
  <1>8. Compile(c, creds) \in Layers /\ Compile(c, creds) # None
    BY <1>4, <1>7, CompileTyped, NoneIsNoRow
  <1>9. TypeOK'
    <2>1. disk' \in {"none", "own"} \cup Pairs
      BY <1>1, <1>2 DEF CompletePair, Disks
    <2> HIDE DEF creds
    <2> QED BY <1>2, <1>5, <1>6, <1>8, <2>1 DEF LifeInv, TypeOK
  <1>10. RowsShaped'
    BY <1>2, <1>3, <1>5, <1>6 DEF RowsShaped
  <1>11. PairsMinted'
    BY <1>2 DEF LifeInv, PairsMinted
  <1>12. PairKept'
    <2>1. Compile(c, creds).cert = c.cert
      BY DEF Compile
    <2>2. c.cert # "none" => CompletePair(c.cert)
      BY <1>6, PairNames DEF Configs
    <2> HIDE DEF creds
    <2> QED BY <1>2, <2>1, <2>2 DEF PairKept
  <1>13. UpToDate'
    <2> SUFFICES ASSUME Settled'
                 PROVE  /\ row' # None /\ Secured(row')
                        /\ ~CompileRefuses(row', ActiveCredentials(row', grant'))
                        /\ core' = Compile(row', ActiveCredentials(row', grant'))
      BY <1>2 DEF UpToDate
    <2>1. synced /\ row = job
      BY <1>2 DEF Settled, LifeInv, UpToDate
    <2>2. row' = c
      BY <1>2, <2>1
    <2>3. ActiveCredentials(row', grant') = creds
      BY <1>2, <1>4, <1>5, <1>6, <2>1, <2>2, SameCredentials
    <2> HIDE DEF creds
    <2> QED BY <1>2, <1>4, <1>6, <2>2, <2>3 DEF Settled
  <1>14. NeverBare'
    <2> HIDE DEF creds
    <2> SUFFICES ASSUME core' # None,
                        core'.kind \in {MihomoType(p) : p \in CertProtocols}, ~core'.insecure
                 PROVE  core'.cert # "none" \/ core'.reality \/ core'.wrap # "none"
                        \/ core'.mirror
      BY DEF NeverBare
    <2>1. core' = Compile(c, creds)
      BY <1>2
    <2> QED BY <1>4, <2>1, CompiledNotBare
  <1>15. minted' # minted => core = None \/ core.cert = "none"
    <2>1. disk = "none" => core = None \/ core.cert = "none"
      BY DEF LifeInv, PairKept
    <2>2. {disk} \cap Pairs \subseteq minted /\ {job.cert} \cap Pairs \subseteq minted
      BY <1>2 DEF LifeInv, PairsMinted
    <2> QED BY <1>2, <1>4, <2>1, <2>2, PairNames
  <1> QED BY <1>9, <1>10, <1>11, <1>12, <1>13, <1>14, <1>15 DEF LifeInv

LEMMA RestartsStep ==
  ASSUME LifeInv, PanelRestarts
  PROVE  LifeInv' /\ minted' = minted
  <1> DEFINE h == Hydrated(row, disk)
  <1>1. /\ row # None /\ row' = h
        /\ disk' = IF CompletePair(row.cert) /\ row.proto \in CertProtocols
                   THEN row.cert ELSE disk
        /\ job' = None /\ synced' = FALSE
        /\ UNCHANGED <<minted, grant, core, refused, changes>>
    BY DEF PanelRestarts, Exists
  <1>2. Shaped(row) /\ disk \in Disks
    BY <1>1 DEF LifeInv, RowsShaped, TypeOK, Disks
  <1>3. Shaped(h) /\ h.cert \in {row.cert, disk}
    BY <1>2, HydratedFields
  <1> HIDE DEF h
  <1>4. h \in Configs /\ h # None
    BY <1>3, NoneIsNoRow DEF Shaped
  <1>5. TypeOK'
    <2>1. disk' \in {"none", "own"} \cup Pairs
      BY <1>1, <1>2 DEF CompletePair, Disks
    <2> QED BY <1>1, <1>4, <2>1 DEF LifeInv, TypeOK
  <1>6. RowsShaped'
    BY <1>1, <1>3, <1>4 DEF RowsShaped
  <1>7. PairsMinted'
    BY <1>1, <1>3 DEF LifeInv, PairsMinted
  <1>8. PairKept'
    BY <1>1, PairNames DEF LifeInv, PairKept
  <1>9. UpToDate' /\ NeverBare'
    BY <1>1 DEF LifeInv, UpToDate, NeverBare, Settled
  <1> QED BY <1>1, <1>5, <1>6, <1>7, <1>8, <1>9 DEF LifeInv

LEMMA LifeStep ==
  ASSUME LifeInv, [Next]_vars
  PROVE  LifeInv' /\ (minted' # minted => core = None \/ core.cert = "none")
  <1>1. ASSUME NEW form \in Forms, Create(form)
        PROVE  LifeInv' /\ core = None
    BY <1>1, CreateStep, FormsAssumption
  <1>2. ASSUME NEW p \in Protocols, QuickCreate(p)
        PROVE  LifeInv' /\ core = None
    BY <1>2, CreateStep, SeedTyped, PairNames DEF QuickCreate
  <1>3. ASSUME NEW p \in Protocols, QuickCreateRefused(p)
        PROVE  LifeInv' /\ minted' = minted
    BY <1>3, RefusedStep
  <1>4. ASSUME NEW form \in Forms, Exists, NEW f \in Edited(form), Update(f)
        PROVE  LifeInv' /\ (minted' # minted => core = None \/ core.cert = "none")
    BY <1>4, EditedTyped, UpdateStep DEF LifeInv
  <1>5. ASSUME NEW u \in Users,
               Bind(u) \/ Unbind(u) \/ Block(u) \/ Unblock(u) \/ ResetPassword(u)
        PROVE  LifeInv' /\ minted' = minted
    BY <1>5, UserStep
  <1>6. ASSUME RotateKey
        PROVE  LifeInv' /\ minted' = minted
    BY <1>6, UserStep DEF RotateKey
  <1>7. ASSUME RegenerateReads
        PROVE  LifeInv' /\ minted' = minted
    BY <1>7, ReadsStep
  <1>8. ASSUME RegenerateWrites
        PROVE  LifeInv' /\ (minted' # minted => core = None \/ core.cert = "none")
    BY <1>8, WritesStep
  <1>9. ASSUME PanelRestarts
        PROVE  LifeInv' /\ minted' = minted
    BY <1>9, RestartsStep
  <1>10. CASE UNCHANGED vars
    BY <1>10 DEF vars, LifeInv, TypeOK, RowsShaped, PairsMinted, PairKept, UpToDate,
                 NeverBare, Settled
  <1> QED BY <1>1, <1>2, <1>3, <1>4, <1>5, <1>6, <1>7, <1>8, <1>9, <1>10 DEF Next

-----------------------------------------------------------------------------
\* LifeInv holds in every reachable state: types, shaped rows, pairs on disk,
\* and a settled core that runs what row and users say.
THEOREM LifeInvHolds == Spec => []LifeInv
  <1>1. LifeInv /\ [Next]_vars => LifeInv'
    BY LifeStep
  <1> QED BY InitLife, <1>1, PTL DEF Spec

\* No listener of a protocol that needs TLS reaches the core bare, through any
\* sequence of saves, restarts and regenerations of any forms.
THEOREM NeverBareHolds == Spec => []NeverBare
  <1>1. LifeInv => NeverBare
    BY DEF LifeInv
  <1> QED BY LifeInvHolds, <1>1, PTL

\* While the core presents a pair, no other one is minted.
THEOREM NoRotationHolds == Spec => NoRotationUnderClients
  <1>1. LifeInv /\ [Next]_vars => [minted' # minted => core = None \/ core.cert = "none"]_vars
    BY LifeStep
  <1> QED BY LifeInvHolds, <1>1, PTL DEF Spec, NoRotationUnderClients

-----------------------------------------------------------------------------
(***************************************************************************)
(* What the exporters hand out.  A secured row and what was compiled from  *)
(* it decide everything, so these are facts about one configuration, for   *)
(* any combination of its settings.                                        *)
(***************************************************************************)

\* A row that every exporter has the words for.
Expressible(c) ==
    /\ Secured(c) /\ ~c.insecure /\ ~Wrapped(c) /\ c.mirror = "none" /\ c.plugin = "none"
    /\ c.net \in {"tcp", "ws", "grpc", "xhttp"}

\* The offer says of the listener what there is to say, trust apart.
Describes(o, c, cred) ==
    /\ o.kind = MihomoType(c.proto) /\ o.cred = cred
    /\ o.tls = (c.proto \in CertProtocols)
    /\ o.reality = (c.reality = "full") /\ o.wrap = "none" /\ o.mirror = FALSE
    /\ o.net = c.net /\ o.flow = c.flow /\ o.plugin = "none"

\* The client does not ask for a signature a pair of the panel's cannot have.
Trusts(o, c) == c.cert \in Pairs /\ c.reality # "full" => o.skip

LEMMA ExpressibleFields ==
  ASSUME NEW c, Expressible(c)
  PROVE  /\ c.proto \in Protocols
         /\ c.reality = "none" \/ (c.reality = "full" /\ c.proto \in StreamProtocols)
         /\ c.cert = "none" \/ (CompletePair(c.cert) /\ c.proto \in CertProtocols)
         /\ c.proto \in CertProtocols => c.cert # "none" \/ c.reality = "full"
         /\ c.net \in {"tcp", "ws", "grpc", "xhttp"}
         /\ c.net = "xhttp" => c.proto = "vless"
         /\ c.proto \notin StreamProtocols => c.net = "tcp"
         /\ c.flow \in BOOLEAN /\ (c.proto # "vless" => c.flow = FALSE)
         /\ c.flag \in BOOLEAN
         /\ c.wrap = "none" /\ c.mirror = "none" /\ c.plugin = "none" /\ c.fill = "on"
         /\ c.auth = IF c.proto = "tuic-v4" THEN "token" ELSE "users"
  <1>1. /\ c \in Configs /\ SchemaAdmits(c) /\ c.cert # "half" /\ c.reality # "bare"
        /\ c.auth = IF c.proto = "tuic-v4" THEN "token" ELSE "users"
        /\ c.fill = "on"
    BY DEF Expressible, Secured, Shaped
  <1>2. c.cert = "none" \/ (CompletePair(c.cert) /\ c.proto \in CertProtocols)
    BY <1>1, PairNames DEF Configs, SchemaAdmits
  <1>3. c.reality = "none" \/ (c.reality = "full" /\ c.proto \in StreamProtocols)
    BY <1>1 DEF Configs, SchemaAdmits
  <1>4. c.proto \in CertProtocols => c.cert # "none" \/ c.reality = "full"
    BY PairNames DEF Expressible, Secured
  <1>5. /\ c.net = "xhttp" => c.proto = "vless"
        /\ c.proto \notin StreamProtocols => c.net = "tcp"
    BY <1>1 DEF SchemaAdmits, TransportsOf, StreamProtocols
  <1>6. /\ c.proto \in Protocols /\ c.flow \in BOOLEAN /\ c.flag \in BOOLEAN
        /\ (c.proto # "vless" => c.flow = FALSE)
    BY <1>1 DEF Configs, SchemaAdmits
  <1> QED BY <1>1, <1>2, <1>3, <1>4, <1>5, <1>6 DEF Expressible, Wrapped

\* An offer that describes a listener and trusts its pair is accepted by the
\* core the listener was compiled for.
LEMMA DescribedIsAccepted ==
  ASSUME NEW c, Expressible(c), NEW creds, NEW cred \in CompiledCredentials(c, creds),
         NEW o, Describes(o, c, cred), Trusts(o, c)
  PROVE  Accepts(Compile(c, creds), o)
  <1> DEFINE l == Compile(c, creds)
  <1>1. /\ l.kind = MihomoType(c.proto) /\ l.cert = c.cert /\ l.reality = (c.reality = "full")
        /\ l.wrap = c.wrap /\ l.mirror = (c.mirror = "full")
        /\ l.flow = c.flow /\ l.net = c.net /\ l.plugin = c.plugin
        /\ l.creds = CompiledCredentials(c, creds)
    BY DEF Compile
  <1> HIDE DEF l
  <1>2. /\ c.proto \in Protocols
        /\ c.reality = "none" \/ (c.reality = "full" /\ c.proto \in StreamProtocols)
        /\ c.cert = "none" \/ c.proto \in CertProtocols
        /\ c.proto \in CertProtocols => c.cert # "none" \/ c.reality = "full"
        /\ c.wrap = "none" /\ c.mirror = "none" /\ c.plugin = "none"
    BY ExpressibleFields
  <1>3. (CoreTLS(l) \/ l.kind \in ImpliedTLS) <=> c.proto \in CertProtocols
    <2>1. l.kind \in ImpliedTLS => c.proto \in CertProtocols
      BY <1>1, <1>2 DEF MihomoType, ImpliedTLS, CertProtocols, Protocols
    <2>2. CoreTLS(l) <=> c.cert # "none" \/ c.reality = "full"
      BY <1>1, <1>2 DEF CoreTLS
    <2>3. c.reality = "full" => c.proto \in CertProtocols
      BY <1>2 DEF StreamProtocols, CertProtocols
    <2> QED BY <1>2, <2>1, <2>2, <2>3
  <1>4. LayersAgree(l, o)
    <2>1. o.tls = (CoreTLS(l) \/ l.kind \in ImpliedTLS)
      BY <1>3 DEF Describes
    <2>2. o.reality = l.reality /\ o.wrap = l.wrap /\ o.mirror = l.mirror
      BY <1>1, <1>2 DEF Describes
    <2>3. l.cert \in Pairs /\ ~l.reality => o.skip
      BY <1>1 DEF Trusts
    <2> QED BY <2>1, <2>2, <2>3 DEF LayersAgree
  <1> QED BY <1>1, <1>2, <1>4 DEF Accepts, Describes, l

-----------------------------------------------------------------------------
(* The URI builders of the base64 subscription (node/). *)

LEMMA NodeURIDescribes ==
  ASSUME NEW c, Expressible(c), NEW cred
  PROVE  /\ Describes(NodeURI(c, cred), c, cred)
         /\ c.proto \notin {"vmess", "trusttunnel"} => Trusts(NodeURI(c, cred), c)
         /\ NodeURI(c, cred).kind = MihomoType(c.proto)
  <1> DEFINE o == NodeURI(c, cred)
  <1> USE ExpressibleFields
  <1>1. CASE c.proto = "vless"
    <2>1. o = VLESSURI(c, cred)
      BY <1>1 DEF NodeURI
    <2> HIDE DEF o
    <2>2. /\ o.kind = "vless" /\ o.cred = cred /\ o.tls = (TLSParams(c) \/ RealityPublicKey(c))
          /\ o.reality = RealityPublicKey(c) /\ o.wrap = "none" /\ o.mirror = FALSE
          /\ o.skip = SkipCertVerify(c) /\ o.net = TransportParams(c) /\ o.flow = c.flow
          /\ o.plugin = "none"
      BY <2>1 DEF VLESSURI, Offer
    <2>3. TransportParams(c) = c.net
      BY DEF TransportParams
    <2>4. (TLSParams(c) \/ RealityPublicKey(c)) = TRUE
      BY <1>1 DEF TLSParams, RealityPublicKey, CertProtocols
    <2> QED BY <1>1, <2>2, <2>3, <2>4
            DEF o, Describes, Trusts, RealityPublicKey, SkipCertVerify, PanelSigned,
                MihomoType, CertProtocols
  <1>2. CASE c.proto = "vmess"
    <2>1. o = VMessURI(c, cred)
      BY <1>2 DEF NodeURI
    <2> HIDE DEF o
    <2>2. /\ o.kind = "vmess" /\ o.cred = cred /\ o.tls = (TLSParams(c) \/ RealityPublicKey(c))
          /\ o.reality = RealityPublicKey(c) /\ o.wrap = "none" /\ o.mirror = FALSE
          /\ o.net = (IF c.net \in {"ws", "grpc"} THEN c.net ELSE "tcp") /\ o.flow = FALSE
          /\ o.plugin = "none"
      BY <2>1 DEF VMessURI, Offer
    <2>3. o.net = c.net
      BY <1>2, <2>2
    <2>4. (TLSParams(c) \/ RealityPublicKey(c)) = TRUE
      BY <1>2 DEF TLSParams, RealityPublicKey, CertProtocols
    <2> QED BY <1>2, <2>2, <2>3, <2>4
            DEF o, Describes, RealityPublicKey, MihomoType, CertProtocols
  <1>3. CASE c.proto = "trojan"
    <2>1. o = TrojanURI(c, cred)
      BY <1>3 DEF NodeURI
    <2> HIDE DEF o
    <2>2. /\ o.kind = "trojan" /\ o.cred = cred /\ o.tls = TRUE
          /\ o.reality = RealityPublicKey(c) /\ o.wrap = "none" /\ o.mirror = FALSE
          /\ o.skip = SkipCertVerify(c) /\ o.net = TransportParams(c) /\ o.flow = FALSE
          /\ o.plugin = "none"
      BY <2>1 DEF TrojanURI, Offer, ImpliedTLS
    <2>3. TransportParams(c) = c.net
      BY DEF TransportParams
    <2> QED BY <1>3, <2>2, <2>3
            DEF o, Describes, Trusts, RealityPublicKey, SkipCertVerify, PanelSigned,
                MihomoType, CertProtocols
  <1>4. CASE c.proto \in {"hysteria2", "tuic", "tuic-v4", "tuic-v5", "anytls"}
    <2>1. o = [Offer(MihomoType(c.proto), cred) EXCEPT !.skip = SkipCertVerify(c)]
      BY <1>4 DEF NodeURI, Hysteria2URI, TUICURI, AnyTLSURI, MihomoType
    <2>2. MihomoType(c.proto) \in ImpliedTLS
      BY <1>4 DEF MihomoType, ImpliedTLS
    <2> HIDE DEF o
    <2>3. /\ o.kind = MihomoType(c.proto) /\ o.cred = cred /\ o.tls = TRUE
          /\ o.reality = FALSE /\ o.wrap = "none" /\ o.mirror = FALSE
          /\ o.skip = SkipCertVerify(c) /\ o.net = "tcp" /\ o.flow = FALSE /\ o.plugin = "none"
      BY <2>1, <2>2 DEF Offer
    <2> QED BY <1>4, <2>3 DEF o, Describes, Trusts, SkipCertVerify, PanelSigned,
                              CertProtocols, StreamProtocols
  <1>5. CASE c.proto = "trusttunnel"
    <2>1. o = Offer("trusttunnel", cred)
      BY <1>5 DEF NodeURI, TrustTunnelURI
    <2> HIDE DEF o
    <2>2. /\ o.kind = "trusttunnel" /\ o.cred = cred /\ o.tls = TRUE
          /\ o.reality = FALSE /\ o.wrap = "none" /\ o.mirror = FALSE
          /\ o.net = "tcp" /\ o.flow = FALSE /\ o.plugin = "none"
      BY <2>1 DEF Offer, ImpliedTLS
    <2> QED BY <1>5, <2>2 DEF o, Describes, MihomoType, CertProtocols, StreamProtocols
  <1>6. CASE c.proto \in {"shadowsocks", "snell", "shadowquic", "mieru", "sudoku"}
    <2>1. o = Offer(c.proto, cred) \/ o = [Offer(c.proto, cred) EXCEPT !.plugin = "none"]
      BY <1>6 DEF NodeURI, ShadowsocksURI, SnellURI, ShadowQUICURI, MieruURI, SudokuURI
    <2> HIDE DEF o
    <2>2. /\ o.kind = c.proto /\ o.cred = cred /\ o.tls = (c.proto \in ImpliedTLS)
          /\ o.reality = FALSE /\ o.wrap = "none" /\ o.mirror = FALSE
          /\ o.net = "tcp" /\ o.flow = FALSE /\ o.plugin = "none"
      BY <2>1 DEF Offer
    <2>3. c.proto \notin ImpliedTLS /\ c.proto \notin CertProtocols
          /\ c.proto \notin StreamProtocols /\ MihomoType(c.proto) = c.proto
      BY <1>6 DEF ImpliedTLS, CertProtocols, StreamProtocols, MihomoType
    <2>4. c.cert = "none" /\ c.cert \notin Pairs
      BY <2>3, PairNames
    <2>5. c.reality = "none" /\ c.net = "tcp" /\ c.flow = FALSE
      BY <1>6, <2>3
    <2>6. Describes(o, c, cred)
      <3>1. (c.proto \in CertProtocols) = FALSE
        BY <2>3
      <3>2. (c.proto \in ImpliedTLS) = FALSE
        BY <2>3
      <3>3. (c.reality = "full") = FALSE
        BY <2>5
      <3>4. o.tls = FALSE
        BY <2>2, <3>2
      <3> QED BY <2>2, <2>3, <2>5, <3>1, <3>3, <3>4 DEF Describes
    <2>7. Trusts(o, c) /\ o.kind = MihomoType(c.proto)
      BY <2>2, <2>3, <2>4 DEF Trusts
    <2> QED BY <2>6, <2>7 DEF o
  <1>7. c.proto \in Protocols
    OBVIOUS
  <1> QED BY <1>1, <1>2, <1>3, <1>4, <1>5, <1>6, <1>7 DEF Protocols, Describes

LEMMA SubscriptionFields ==
  ASSUME NEW c, NEW g, NEW u
  PROVE  /\ SubscriptionCredentials(c, g, u) \subseteq ActiveCredentials(c, g)
         /\ SubscriptionCredentials(c, g, u) = {} => ActiveCredentials(c, g) = {}
  BY DEF SubscriptionCredentials

\* Whom a link is made out to, the core knows.
LEMMA LinkUsersKnown ==
  ASSUME NEW c, Expressible(c), NEW creds, NEW some \in SUBSET creds,
         some = {} => creds = {}
  PROVE  /\ URIUsers(c, some) \subseteq CompiledCredentials(c, creds)
         /\ OwnCredentials(c) = {"config"}
  <1>1. /\ c.proto \in Protocols
        /\ c.auth = IF c.proto = "tuic-v4" THEN "token" ELSE "users"
    BY ExpressibleFields
  <1>2. OwnCredentials(c) = {"config"}
    BY <1>1 DEF OwnCredentials
  <1>3. CASE c.proto \in {"snell", "sudoku"}
    BY <1>2, <1>3 DEF URIUsers, CompiledCredentials
  <1>4. CASE c.proto = "tuic-v4"
    BY <1>1, <1>2, <1>4 DEF URIUsers, CompiledCredentials, CompileTUIC
  <1>5. CASE c.proto \in {"tuic", "tuic-v5"}
    BY <1>1, <1>2, <1>5 DEF URIUsers, UsersOrOwn, CompiledCredentials, CompileTUIC, UsersAndOwn
  <1>6. CASE c.proto = "shadowsocks"
    BY <1>1, <1>2, <1>6 DEF URIUsers, UsersOrOwn, CompiledCredentials, CompileShadowsocks
  <1>7. CASE c.proto \notin {"snell", "sudoku", "tuic", "tuic-v4", "tuic-v5", "shadowsocks"}
    BY <1>2, <1>7 DEF URIUsers, UsersOrOwn, CompiledCredentials
  <1> QED BY <1>2, <1>3, <1>4, <1>5, <1>6, <1>7

\* Every link of the base64 subscription is accepted, where the scheme has the
\* words.
LEMMA ClientURIsAccepted ==
  ASSUME NEW c, Expressible(c), NEW creds, NEW some \in SUBSET creds,
         some = {} => creds = {}, NEW o \in ClientURIs(c, some)
  PROVE  (PanelSigned(c) /\ o.kind \in {"vmess", "trusttunnel"})
            \/ Accepts(Compile(c, creds), o)
  <1> DEFINE used == URIUsers(c, some)
  <1>1. used \subseteq CompiledCredentials(c, creds)
    BY LinkUsersKnown
  <1>2. PICK cred \in used : o = NodeURI(c, cred)
    <2>1. used # {} => FirstCredential(used) \in used
      BY DEF FirstCredential
    <2> HIDE DEF used
    <2> QED BY <2>1 DEF ClientURIs, used
  <1> HIDE DEF used
  <1>3. /\ Describes(o, c, cred) /\ o.kind = MihomoType(c.proto)
        /\ c.proto \notin {"vmess", "trusttunnel"} => Trusts(o, c)
    BY <1>2, NodeURIDescribes
  <1>4. CASE Trusts(o, c)
    BY <1>1, <1>2, <1>3, <1>4, DescribedIsAccepted
  <1>5. CASE ~Trusts(o, c)
    BY <1>3, <1>5 DEF Trusts, PanelSigned, MihomoType
  <1> QED BY <1>4, <1>5

-----------------------------------------------------------------------------
(* The m-ui port and the share registry. *)

LEMMA MuiDescribes ==
  ASSUME NEW c, Expressible(c), c.proto \in MuiProtocols, NEW cred
  PROVE  /\ Describes(MuiURI(c, cred), c, cred) /\ Describes(MuiClientYAML(c, cred), c, cred)
         /\ c.proto # "vmess" => Trusts(MuiURI(c, cred), c)
         /\ Trusts(MuiClientYAML(c, cred), c)
  <1>0. /\ c.reality = "none" \/ (c.reality = "full" /\ c.proto \in StreamProtocols)
        /\ c.cert = "none" \/ (CompletePair(c.cert) /\ c.proto \in CertProtocols)
        /\ c.proto \in CertProtocols => c.cert # "none" \/ c.reality = "full"
        /\ c.net \in {"tcp", "ws", "grpc", "xhttp"}
        /\ c.proto \notin StreamProtocols => c.net = "tcp"
        /\ c.flow \in BOOLEAN /\ (c.proto # "vless" => c.flow = FALSE)
        /\ c.flag \in BOOLEAN
        /\ c.wrap = "none" /\ c.mirror = "none" /\ c.plugin = "none" /\ c.fill = "on"
    BY ExpressibleFields
  <1>1. /\ DecodeStream(c).net = c.net /\ DecodeStream(c).flow = c.flow
        /\ RealityNode(c) = (c.reality = "full")
        /\ c.cert \in Pairs /\ c.reality # "full" => DecodeStream(c).security = "tls"
        /\ c.proto \in CertProtocols => DecodeStream(c).security # "none"
    BY <1>0, PairNames DEF DecodeStream, DecodeHandler, DecodeSecurity, RealityNode
  <1>2. CASE c.proto = "vless"
    <2>1. /\ MuiURI(c, cred) = MuiVLESSURI(c, cred)
          /\ MuiClientYAML(c, cred) = CompileVLESSClient(c, cred)
      BY <1>2 DEF MuiURI, MuiClientYAML
    <2>2. (DecodeStream(c).security # "none") = TRUE /\ (c.proto \in CertProtocols) = TRUE
      BY <1>1, <1>2 DEF CertProtocols
    <2>3. Describes(MuiVLESSURI(c, cred), c, cred)
      BY <1>0, <1>1, <1>2, <2>2 DEF MuiVLESSURI, Offer, Describes, MihomoType
    <2>4. Describes(CompileVLESSClient(c, cred), c, cred)
      BY <1>0, <1>1, <1>2, <2>2 DEF CompileVLESSClient, Offer, Describes, MihomoType
    <2>5. Trusts(MuiVLESSURI(c, cred), c) /\ Trusts(CompileVLESSClient(c, cred), c)
      BY <1>1 DEF MuiVLESSURI, CompileVLESSClient, Offer, Trusts, AllowInsecure, PanelSigned
    <2> QED BY <2>1, <2>3, <2>4, <2>5
  <1>3. CASE c.proto = "vmess"
    <2>1. /\ MuiURI(c, cred) = MuiVMessURI(c, cred)
          /\ MuiClientYAML(c, cred) = CompileClassicClient(c, cred)
      BY <1>3 DEF MuiURI, MuiClientYAML
    <2>2. (DecodeStream(c).security # "none") = TRUE /\ (c.proto \in CertProtocols) = TRUE
      BY <1>1, <1>3 DEF CertProtocols
    <2>3. Describes(MuiVMessURI(c, cred), c, cred)
      BY <1>0, <1>1, <1>3, <2>2 DEF MuiVMessURI, Offer, Describes, MihomoType
    <2>4. Describes(CompileClassicClient(c, cred), c, cred)
      BY <1>0, <1>1, <1>3, <2>2 DEF CompileClassicClient, ApplyClassicClientSecurity, Offer,
                                    Describes, MihomoType
    <2>5. Trusts(CompileClassicClient(c, cred), c)
      BY <1>1 DEF CompileClassicClient, ApplyClassicClientSecurity, Offer, Trusts,
                  AllowInsecure, PanelSigned
    <2> QED BY <1>3, <2>1, <2>3, <2>4, <2>5
  <1>4. CASE c.proto = "trojan"
    <2>1. /\ MuiURI(c, cred) = MuiTrojanURI(c, cred)
          /\ MuiClientYAML(c, cred) = CompileClassicClient(c, cred)
      BY <1>4 DEF MuiURI, MuiClientYAML
    <2>2. (c.proto \in CertProtocols) = TRUE /\ ("trojan" \in ImpliedTLS) = TRUE
          /\ (DecodeStream(c).security # "none") = TRUE
      BY <1>1, <1>4 DEF CertProtocols, ImpliedTLS
    <2>3. Describes(MuiTrojanURI(c, cred), c, cred)
      BY <1>0, <1>1, <1>4, <2>2 DEF MuiTrojanURI, ApplySecurityQuery, Offer, Describes, MihomoType
    <2>4. Describes(CompileClassicClient(c, cred), c, cred)
      BY <1>0, <1>1, <1>4, <2>2 DEF CompileClassicClient, ApplyClassicClientSecurity, Offer,
                                    Describes, MihomoType
    <2>5. Trusts(MuiTrojanURI(c, cred), c) /\ Trusts(CompileClassicClient(c, cred), c)
      BY <1>1 DEF MuiTrojanURI, ApplySecurityQuery, CompileClassicClient,
                  ApplyClassicClientSecurity, Offer, Trusts, AllowInsecure, PanelSigned
    <2> QED BY <2>1, <2>3, <2>4, <2>5
  <1>5. CASE c.proto = "shadowsocks"
    <2>1. /\ MuiURI(c, cred) = MuiShadowsocks(c, cred)
          /\ MuiClientYAML(c, cred) = MuiShadowsocks(c, cred)
      BY <1>5 DEF MuiURI, MuiClientYAML
    <2>2. ShadowsocksPlugin(c).plugin = "none" /\ ShadowsocksPlugin(c).wrap = "none"
      BY <1>0 DEF ShadowsocksPlugin, DecodeKCPTun, DecodeSSSecurity
    <2>3. /\ (c.proto \in CertProtocols) = FALSE /\ ("shadowsocks" \in ImpliedTLS) = FALSE
          /\ (c.reality = "full") = FALSE /\ c.net = "tcp" /\ c.cert \notin Pairs
      BY <1>0, <1>5, PairNames DEF CertProtocols, ImpliedTLS, StreamProtocols
    <2>4. Describes(MuiShadowsocks(c, cred), c, cred)
      BY <1>0, <1>5, <2>2, <2>3 DEF MuiShadowsocks, Offer, Describes, MihomoType
    <2>5. Trusts(MuiShadowsocks(c, cred), c)
      BY <2>3 DEF Trusts
    <2> QED BY <2>1, <2>4, <2>5
  <1>6. CASE c.proto = "hysteria2"
    <2>1. /\ MuiURI(c, cred) = MuiHysteria2(c, cred)
          /\ MuiClientYAML(c, cred) = MuiHysteria2(c, cred)
      BY <1>6 DEF MuiURI, MuiClientYAML
    <2>2. /\ (c.proto \in CertProtocols) = TRUE /\ ("hysteria2" \in ImpliedTLS) = TRUE
          /\ (c.reality = "full") = FALSE /\ c.net = "tcp"
      BY <1>0, <1>6 DEF CertProtocols, ImpliedTLS, StreamProtocols
    <2>3. Describes(MuiHysteria2(c, cred), c, cred)
      BY <1>0, <1>6, <2>2 DEF MuiHysteria2, Offer, Describes, MihomoType
    <2>4. Trusts(MuiHysteria2(c, cred), c)
      BY DEF MuiHysteria2, Offer, Trusts, AllowInsecure, PanelSigned
    <2> QED BY <2>1, <2>3, <2>4
  <1> QED BY <1>2, <1>3, <1>4, <1>5, <1>6 DEF MuiProtocols

\* The registry answers where the port has no share: for the protocols the
\* port does not know, and for a Hysteria2 listener nobody is bound to.
RegistryOnly == {"snell", "anytls", "shadowquic", "mieru", "trusttunnel", "tuic",
                 "tuic-v4", "tuic-v5", "sudoku"}

LEMMA RegistryDescribes ==
  ASSUME NEW c, Expressible(c), c.proto \in RegistryOnly \cup {"hysteria2"}, NEW cred
  PROVE  LET o == RegistryShare(c, cred)
         IN  /\ Describes(o, c, o.cred) /\ Trusts(o, c)
             /\ o.cred = IF c.proto = "tuic-v4" THEN "config" ELSE cred
  <1> DEFINE o == RegistryShare(c, cred)
  <1>0. /\ c.reality = "none" /\ c.net = "tcp" /\ c.flow = FALSE
        /\ c.cert = "none" \/ (CompletePair(c.cert) /\ c.proto \in CertProtocols)
        /\ c.wrap = "none" /\ c.mirror = "none" /\ c.plugin = "none"
        /\ c.auth = IF c.proto = "tuic-v4" THEN "token" ELSE "users"
    BY ExpressibleFields DEF RegistryOnly, StreamProtocols
  <1>1. CASE c.proto \in {"snell", "shadowquic", "mieru", "sudoku"}
    <2>1. o = Offer(c.proto, cred)
      BY <1>1 DEF RegistryShare, GenericShare, ShadowQUICShare, MieruShare
    <2>2. /\ (c.proto \in CertProtocols) = FALSE /\ (c.proto \in ImpliedTLS) = FALSE
          /\ (c.reality = "full") = FALSE /\ MihomoType(c.proto) = c.proto
          /\ c.cert \notin Pairs
      BY <1>0, <1>1, PairNames DEF CertProtocols, ImpliedTLS, MihomoType
    <2> HIDE DEF o
    <2>3. /\ o.kind = c.proto /\ o.cred = cred /\ o.tls = (c.proto \in ImpliedTLS)
          /\ o.reality = FALSE /\ o.wrap = "none" /\ o.mirror = FALSE
          /\ o.net = "tcp" /\ o.flow = FALSE /\ o.plugin = "none"
      BY <2>1 DEF Offer
    <2>4. o.tls = FALSE
      BY <2>2, <2>3
    <2> QED BY <1>0, <1>1, <2>2, <2>3, <2>4 DEF o, Describes, Trusts
  <1>2. CASE c.proto \in {"anytls", "trusttunnel", "hysteria2"}
    <2>1. /\ (c.proto \in CertProtocols) = TRUE /\ c.proto \in ImpliedTLS
          /\ (c.reality = "full") = FALSE /\ MihomoType(c.proto) = c.proto
      BY <1>0, <1>2 DEF CertProtocols, ImpliedTLS, MihomoType
    <2>2. o = [Offer(c.proto, cred) EXCEPT !.skip = o.skip] /\ (c.cert \in Pairs => o.skip)
      BY <1>2 DEF RegistryShare, AnyTLSShare, TrustTunnelShare, Hysteria2Share, Offer,
                  SkipCertVerify, PanelSigned
    <2> HIDE DEF o
    <2>3. /\ o.kind = c.proto /\ o.cred = cred /\ o.tls = (c.proto \in ImpliedTLS)
          /\ o.reality = FALSE /\ o.wrap = "none" /\ o.mirror = FALSE
          /\ o.net = "tcp" /\ o.flow = FALSE /\ o.plugin = "none"
      BY <2>2 DEF Offer
    <2>4. o.tls = TRUE
      BY <2>1, <2>3
    <2> QED BY <1>0, <1>2, <2>1, <2>2, <2>3, <2>4 DEF o, Describes, Trusts
  <1>3. CASE c.proto \in {"tuic", "tuic-v4", "tuic-v5"}
    <2> DEFINE who == IF c.proto = "tuic-v4" THEN "config" ELSE cred
    <2>1. o = [Offer("tuic", who) EXCEPT !.skip = DecideSkipCertVerify(c)]
      BY <1>0, <1>3 DEF RegistryShare, TUICShare
    <2>2. /\ (c.proto \in CertProtocols) = TRUE /\ "tuic" \in ImpliedTLS
          /\ (c.reality = "full") = FALSE /\ MihomoType(c.proto) = "tuic"
      BY <1>0, <1>3 DEF CertProtocols, ImpliedTLS, MihomoType
    <2> HIDE DEF o, who
    <2>3. /\ o.kind = "tuic" /\ o.cred = who /\ o.tls = ("tuic" \in ImpliedTLS)
          /\ o.reality = FALSE /\ o.wrap = "none" /\ o.mirror = FALSE
          /\ o.net = "tcp" /\ o.flow = FALSE /\ o.plugin = "none"
          /\ o.skip = DecideSkipCertVerify(c)
      BY <2>1 DEF Offer
    <2>4. o.tls = TRUE /\ (c.cert \in Pairs => o.skip)
      BY <2>2, <2>3, PairNames DEF DecideSkipCertVerify
    <2> QED BY <1>0, <1>3, <2>2, <2>3, <2>4 DEF o, who, Describes, Trusts
  <1> QED BY <1>1, <1>2, <1>3 DEF RegistryOnly

\* Whom a registry share is made out to, the core knows; the users' passwords
\* are no psk and no key.
LEMMA ShareUsersKnown ==
  ASSUME NEW c, Expressible(c), c.proto \in RegistryOnly \cup {"hysteria2"}, NEW creds,
         c.proto \in {"snell", "sudoku"} => creds = {},
         NEW cred \in ShareUsers(c, creds)
  PROVE  (IF c.proto = "tuic-v4" THEN "config" ELSE cred) \in CompiledCredentials(c, creds)
  <1>1. OwnCredentials(c) = {"config"}
        /\ c.auth = IF c.proto = "tuic-v4" THEN "token" ELSE "users"
    BY ExpressibleFields DEF OwnCredentials
  <1>2. CASE c.proto \in {"snell", "sudoku"}
    BY <1>1, <1>2 DEF ShareUsers, CompiledCredentials
  <1>3. CASE c.proto \in {"tuic", "tuic-v4", "tuic-v5"}
    <2>1. CompiledCredentials(c, creds) = CompileTUIC(c, creds)
      BY <1>3 DEF CompiledCredentials
    <2> QED BY <1>1, <1>3, <2>1 DEF ShareUsers, CompileTUIC, UsersAndOwn
  <1>4. CASE c.proto \in {"anytls", "shadowquic", "mieru", "trusttunnel", "hysteria2"}
    BY <1>1, <1>4 DEF ShareUsers, CompiledCredentials, UsersOrOwn
  <1> QED BY <1>2, <1>3, <1>4 DEF RegistryOnly

LEMMA MuiTierAnswers ==
  ASSUME NEW c, Expressible(c), NEW creds,
         c.proto \in MuiProtocols, c.proto = "hysteria2" => creds # {}
  PROVE  LET export == ExportNodeURI(c, creds)
         IN  /\ \A o \in export.uris :
                    (PanelSigned(c) /\ o.kind \in {"vmess", "trusttunnel"})
                       \/ Accepts(Compile(c, creds), o)
             /\ \A o \in export.yamls : Accepts(Compile(c, creds), o)
  <1>1. OwnCredentials(c) = {"config"} /\ c.proto # "tuic-v4"
    BY ExpressibleFields DEF OwnCredentials, MuiProtocols
  <1>2. /\ ListenerToNode(c, creds) # {}
        /\ ListenerToNode(c, creds) \subseteq CompiledCredentials(c, creds)
    BY <1>1 DEF ListenerToNode, CompiledCredentials, UsersOrOwn, CompileShadowsocks, MuiProtocols
  <1>3. /\ MuiTier(c, creds).uris = {MuiURI(c, cred) : cred \in ListenerToNode(c, creds)}
        /\ MuiTier(c, creds).yamls = {MuiClientYAML(c, cred) : cred \in ListenerToNode(c, creds)}
    <2> DEFINE share(cred) == [uri |-> MuiURI(c, cred), yaml |-> MuiClientYAML(c, cred)]
    <2>1. MuiShares(c, creds) = {share(cred) : cred \in ListenerToNode(c, creds)}
      BY DEF MuiShares
    <2>2. \A cred : share(cred).uri = MuiURI(c, cred) /\ share(cred).yaml = MuiClientYAML(c, cred)
      OBVIOUS
    <2>3. /\ MuiTier(c, creds).uris = {s.uri : s \in MuiShares(c, creds)}
          /\ MuiTier(c, creds).yamls = {s.yaml : s \in MuiShares(c, creds)}
      BY DEF MuiTier
    <2> HIDE DEF share
    <2> QED BY <2>1, <2>2, <2>3
  <1>4. MuiTier(c, creds).yamls # {}
    BY <1>2, <1>3
  <1>5. ExportNodeURI(c, creds) = MuiTier(c, creds)
    BY <1>4 DEF ExportNodeURI, EmptyTier
  <1>6. ASSUME NEW cred \in ListenerToNode(c, creds)
        PROVE  /\ (PanelSigned(c) /\ MuiURI(c, cred).kind \in {"vmess", "trusttunnel"})
                     \/ Accepts(Compile(c, creds), MuiURI(c, cred))
               /\ Accepts(Compile(c, creds), MuiClientYAML(c, cred))
    <2>1. cred \in CompiledCredentials(c, creds)
      BY <1>2
    <2>2. /\ Describes(MuiURI(c, cred), c, cred) /\ Describes(MuiClientYAML(c, cred), c, cred)
          /\ c.proto # "vmess" => Trusts(MuiURI(c, cred), c)
          /\ Trusts(MuiClientYAML(c, cred), c)
      BY MuiDescribes
    <2>3. Accepts(Compile(c, creds), MuiClientYAML(c, cred))
      BY <2>1, <2>2, DescribedIsAccepted
    <2>4. CASE Trusts(MuiURI(c, cred), c)
      BY <2>1, <2>2, <2>3, <2>4, DescribedIsAccepted
    <2>5. CASE ~Trusts(MuiURI(c, cred), c)
      BY <2>2, <2>3, <2>5 DEF Trusts, PanelSigned, Describes, MihomoType
    <2> QED BY <2>4, <2>5
  <1> QED BY <1>3, <1>5, <1>6

LEMMA RegistryTierAnswers ==
  ASSUME NEW c, Expressible(c), NEW creds,
         c.proto \in RegistryOnly \/ (c.proto = "hysteria2" /\ creds = {}),
         c.proto \in {"snell", "sudoku"} => creds = {}
  PROVE  LET export == ExportNodeURI(c, creds)
         IN  \A o \in export.uris \cup export.yamls : Accepts(Compile(c, creds), o)
  <1>1. OwnCredentials(c) = {"config"} /\ c.reality = "none"
    BY ExpressibleFields DEF OwnCredentials, RegistryOnly, StreamProtocols
  <1>2. MuiTier(c, creds).uris = {} /\ MuiTier(c, creds).yamls = {}
    BY DEF MuiTier, MuiShares, ListenerToNode, RegistryOnly, MuiProtocols
  <1>3. /\ ShareUsers(c, creds) # {}
        /\ RegistryShares(c, creds) = {RegistryShare(c, cred) : cred \in ShareUsers(c, creds)}
    BY <1>1 DEF ShareUsers, RegistryShares, RealityShareable
  <1>4. c.proto \in RegistryWithYAML /\ c.proto # "vless"
    BY DEF RegistryWithYAML, RegistryOnly, Protocols
  <1>5. /\ RegistryTier(c, creds).yamls = RegistryShares(c, creds)
        /\ RegistryTier(c, creds).uris \subseteq RegistryShares(c, creds)
    BY <1>4 DEF RegistryTier
  <1>6. ExportNodeURI(c, creds) = RegistryTier(c, creds)
    BY <1>2, <1>3, <1>5 DEF ExportNodeURI, EmptyTier
  <1>7. ASSUME NEW cred \in ShareUsers(c, creds)
        PROVE  Accepts(Compile(c, creds), RegistryShare(c, cred))
    BY RegistryDescribes, ShareUsersKnown, DescribedIsAccepted
  <1> QED BY <1>3, <1>5, <1>6, <1>7

\* Within what a link can express, every link and every YAML is accepted, for
\* every protocol, every combination of settings and every set of users.
THEOREM LinksConnectHolds == Spec => []LinksConnect
  <1>1. ASSUME LifeInv
        PROVE  LinksConnect
    <2> DEFINE creds == ActiveCredentials(row, grant)
               o1(u) == SubscriptionCredentials(row, grant, u)
    <2> SUFFICES ASSUME Settled, LinkExpressible
                 PROVE  /\ \A u \in Subscribers : \A o \in ClientURIs(row, o1(u)) :
                               (PanelSigned(row) /\ o.kind \in {"vmess", "trusttunnel"})
                                  \/ Accepts(core, o)
                        /\ LET export == ExportNodeURI(row, creds)
                           IN  KeyTakenFromUser \/
                               /\ \A o \in export.uris :
                                      (PanelSigned(row) /\ o.kind \in {"vmess", "trusttunnel"})
                                         \/ Accepts(core, o)
                               /\ \A o \in export.yamls : Accepts(core, o)
      BY DEF LinksConnect, GenerateUserBase64Subscription
    <2>1. Expressible(row) /\ core = Compile(row, creds)
      BY <1>1 DEF LifeInv, UpToDate, LinkExpressible, TLSByProxy, Expressible
    <2>2. ASSUME NEW u \in Subscribers, NEW o \in ClientURIs(row, o1(u))
          PROVE  (PanelSigned(row) /\ o.kind \in {"vmess", "trusttunnel"}) \/ Accepts(core, o)
      <3>1. o1(u) \in SUBSET creds /\ (o1(u) = {} => creds = {})
        BY SubscriptionFields
      <3> HIDE DEF creds, o1
      <3> QED BY <2>1, <2>2, <3>1, ClientURIsAccepted
    <2>3. ASSUME ~KeyTakenFromUser
          PROVE  LET export == ExportNodeURI(row, creds)
                 IN  /\ \A o \in export.uris :
                            (PanelSigned(row) /\ o.kind \in {"vmess", "trusttunnel"})
                               \/ Accepts(core, o)
                     /\ \A o \in export.yamls : Accepts(core, o)
      <3>1. row.proto \in {"snell", "sudoku"} => creds = {}
        <4>1. ASSUME row.proto \in {"snell", "sudoku"}
              PROVE  creds = {}
          <5>1. BoundUsers(grant) = {}
            BY <2>3, <4>1 DEF KeyTakenFromUser
          <5>2. EnsureListenerCredentials(row) = row
            BY <4>1 DEF EnsureListenerCredentials
          <5> QED BY <4>1, <5>1, <5>2 DEF ActiveCredentials, ConfigCredentials
        <4> QED BY <4>1
      <3>2. row.proto \in Protocols
        BY <2>1, ExpressibleFields
      <3> HIDE DEF creds
      <3>3. CASE row.proto \in MuiProtocols /\ (row.proto = "hysteria2" => creds # {})
        BY <2>1, <3>3, MuiTierAnswers
      <3>4. CASE row.proto \in RegistryOnly \/ (row.proto = "hysteria2" /\ creds = {})
        BY <2>1, <3>1, <3>4, RegistryTierAnswers
      <3> QED BY <3>2, <3>3, <3>4 DEF Protocols, MuiProtocols, RegistryOnly
    <2> QED BY <2>2, <2>3
  <1> QED BY LifeInvHolds, <1>1, PTL

-----------------------------------------------------------------------------
(* The Mihomo subscription and its sing-box translation. *)

\* A row a client's proxy can be made for: no reverse proxy in front, no
\* password the client form has no place for, no plugin beside a wrapper.
Subscribable(c) ==
    /\ Secured(c) /\ ~c.insecure /\ c.proto # "shadowsocks"
    /\ c.wrap = "shadow-tls-v3" => c.proto = "snell"
    /\ c.plugin # "none" => ~Wrapped(c)

\* The layers applyClientWrappers writes, and the rest.
LEMMA WrappedRecord ==
  ASSUME NEW k, NEW cred, NEW t, NEW s, NEW n, NEW f, NEW r, NEW tt, NEW w, NEW m,
         NEW v, v = [kind |-> k, cred |-> cred, tls |-> t, reality |-> FALSE, wrap |-> "none",
                     mirror |-> FALSE, skip |-> s, net |-> n, flow |-> f, plugin |-> "none"],
         NEW o, o = [v EXCEPT !.reality = r, !.tls = tt, !.wrap = w, !.mirror = m]
  PROVE  o = [kind |-> k, cred |-> cred, tls |-> tt, reality |-> r, wrap |-> w,
              mirror |-> m, skip |-> s, net |-> n, flow |-> f, plugin |-> "none"]
  OBVIOUS

LEMMA SubscribableFields ==
  ASSUME NEW c, Subscribable(c)
  PROVE  /\ c.proto \in Protocols /\ c.proto # "shadowsocks"
         /\ c.reality = "none" \/ (c.reality = "full" /\ c.proto \in StreamProtocols)
         /\ c.cert = "none" \/ c.proto \in CertProtocols
         /\ c.wrap = "none" \/ (c.proto \in WrapProtocols /\ c.plugin = "none")
         /\ c.wrap = "shadow-tls-v3" => c.proto = "snell"
         /\ c.mirror = "none" \/ (c.mirror = "full" /\ c.proto = "vmess")
         /\ c.proto \in CertProtocols =>
               c.cert # "none" \/ c.reality = "full" \/ c.wrap # "none" \/ c.mirror = "full"
         /\ c.proto \notin StreamProtocols => c.net = "tcp"
         /\ c.flow \in BOOLEAN /\ (c.proto # "vless" => c.flow = FALSE)
         /\ c.plugin = "none" \/ c.proto = "snell"
         /\ c.fill = "on"
         /\ c.auth = IF c.proto = "tuic-v4" THEN "token" ELSE "users"
  <1>1. /\ c \in Configs /\ SchemaAdmits(c) /\ c.cert # "half" /\ c.reality # "bare"
        /\ c.mirror # "part" /\ c.fill = "on"
        /\ c.auth = IF c.proto = "tuic-v4" THEN "token" ELSE "users"
    BY DEF Subscribable, Secured, Shaped
  <1>2. /\ c.reality = "none" \/ (c.reality = "full" /\ c.proto \in StreamProtocols)
        /\ c.cert = "none" \/ c.proto \in CertProtocols
        /\ c.mirror = "none" \/ (c.mirror = "full" /\ c.proto = "vmess")
    BY <1>1 DEF Configs, SchemaAdmits
  <1>3. /\ c.wrap = "none" \/ (c.proto \in WrapProtocols /\ c.plugin = "none")
        /\ c.wrap = "shadow-tls-v3" => c.proto = "snell"
    BY <1>1 DEF Subscribable, SchemaAdmits, Wrapped
  <1>4. c.proto \in CertProtocols =>
           c.cert # "none" \/ c.reality = "full" \/ c.wrap # "none" \/ c.mirror = "full"
    BY PairNames DEF Subscribable, Secured, Wrapped
  <1>5. c.proto \notin StreamProtocols => c.net = "tcp"
    BY <1>1 DEF SchemaAdmits, TransportsOf, StreamProtocols
  <1>6. /\ c.proto \in Protocols /\ c.proto # "shadowsocks" /\ c.flow \in BOOLEAN
        /\ (c.proto # "vless" => c.flow = FALSE)
        /\ c.plugin = "none" \/ c.proto = "snell"
    BY <1>1 DEF Subscribable, Configs, SchemaAdmits
  <1> QED BY <1>1, <1>2, <1>3, <1>4, <1>5, <1>6

\* What the client dials with is what the listener was compiled with.
LEMMA ProxyFields ==
  ASSUME NEW c, Subscribable(c), NEW cred
  PROVE  LET o == Proxy(c, cred)
         IN  /\ o = [kind |-> MihomoType(c.proto), cred |-> cred, tls |-> o.tls,
                     reality |-> c.reality = "full", wrap |-> c.wrap,
                     mirror |-> c.mirror = "full", skip |-> o.skip, net |-> c.net,
                     flow |-> c.flow, plugin |-> c.plugin]
             /\ c.mirror = "none" =>
                   o.tls = (c.cert # "none" \/ c.reality = "full" \/ c.wrap # "none"
                            \/ MihomoType(c.proto) \in ImpliedTLS)
             /\ c.cert \in Pairs => o.skip
  <1> DEFINE o == Proxy(c, cred)
             tls == c.cert # "none" \/ c.reality = "full" \/ c.wrap # "none"
  <1>0. /\ c.proto \in Protocols /\ c.proto # "shadowsocks"
        /\ c.reality = "none" \/ (c.reality = "full" /\ c.proto \in StreamProtocols)
        /\ c.cert = "none" \/ c.proto \in CertProtocols
        /\ c.wrap = "none" \/ (c.proto \in WrapProtocols /\ c.plugin = "none")
        /\ c.wrap = "shadow-tls-v3" => c.proto = "snell"
        /\ c.mirror = "none" \/ (c.mirror = "full" /\ c.proto = "vmess")
        /\ c.proto \in CertProtocols =>
              c.cert # "none" \/ c.reality = "full" \/ c.wrap # "none" \/ c.mirror = "full"
        /\ c.proto \notin StreamProtocols => c.net = "tcp"
        /\ c.flow \in BOOLEAN /\ (c.proto # "vless" => c.flow = FALSE)
        /\ c.plugin = "none" \/ c.proto = "snell"
        /\ c.fill = "on"
    BY SubscribableFields
  <1>1. CopyClientTLS(c) <=> tls
    BY <1>0 DEF CopyClientTLS, EnabledWrapper, Wrapped
  <1>2. c.proto = "vless" => tls
    BY <1>0 DEF CertProtocols
  <1> HIDE DEF tls
  <1>3. CASE c.proto \in {"vless", "vmess", "trojan", "anytls"}
    <2> DEFINE b == [Offer(c.proto, cred) EXCEPT !.tls = @ \/ CopyClientTLS(c),
                         !.skip = SkipCertVerify(c), !.net = c.net]
               v == IF c.proto = "vless" THEN [b EXCEPT !.flow = c.flow, !.tls = @ \/ c.flow]
                    ELSE b
    <2>1. o = ApplyClientWrappers(v, c)
      BY <1>3 DEF Proxy, VLESSProxy, StreamProxy, BaseProxy, CopyTransport, MihomoType
    <2>2. b = [kind |-> c.proto, cred |-> cred, tls |-> c.proto \in ImpliedTLS \/ CopyClientTLS(c),
               reality |-> FALSE, wrap |-> "none", mirror |-> FALSE,
               skip |-> SkipCertVerify(c), net |-> c.net, flow |-> FALSE, plugin |-> "none"]
      <3> DEFINE t == c.proto \in ImpliedTLS \/ CopyClientTLS(c)
                 s == SkipCertVerify(c)
      <3>1. Offer(c.proto, cred).tls = (c.proto \in ImpliedTLS)
        BY DEF Offer
      <3>2. b = [Offer(c.proto, cred) EXCEPT !.tls = t, !.skip = s, !.net = c.net]
        BY <3>1
      <3> HIDE DEF t, s, b
      <3>3. b = [kind |-> c.proto, cred |-> cred, tls |-> t, reality |-> FALSE,
                 wrap |-> "none", mirror |-> FALSE, skip |-> s, net |-> c.net,
                 flow |-> FALSE, plugin |-> "none"]
        BY <3>2 DEF Offer
      <3> QED BY <3>3 DEF t, s
    <2> HIDE DEF b
    <2>3. v = [kind |-> c.proto, cred |-> cred, tls |-> v.tls,
               reality |-> FALSE, wrap |-> "none", mirror |-> FALSE,
               skip |-> SkipCertVerify(c), net |-> c.net, flow |-> c.flow, plugin |-> "none"]
      BY <1>0, <2>2
    <2>4. v.tls <=> (c.proto \in ImpliedTLS \/ CopyClientTLS(c) \/ (c.proto = "vless" /\ c.flow))
      BY <1>0, <2>2
    <2>5. WrapperClientOptions(c) = c.wrap
      BY <1>0, <1>3 DEF WrapperClientOptions
    <2> HIDE DEF v
    <2>6. o = [kind |-> c.proto, cred |-> cred, tls |-> v.tls \/ c.reality = "full",
               reality |-> c.reality = "full", wrap |-> c.wrap, mirror |-> c.mirror # "none",
               skip |-> SkipCertVerify(c), net |-> c.net, flow |-> c.flow, plugin |-> "none"]
      <3> DEFINE t == v.tls
                 s == SkipCertVerify(c)
                 r == c.reality = "full"
                 tt == v.tls \/ c.reality = "full"
                 m == c.mirror # "none"
      <3>1. o = [v EXCEPT !.reality = r, !.tls = tt, !.wrap = c.wrap, !.mirror = m]
        BY <2>1, <2>5 DEF ApplyClientWrappers, RealityClientOptions, TLSMirrorClientOptions
      <3>2. v = [kind |-> c.proto, cred |-> cred, tls |-> t,
                 reality |-> FALSE, wrap |-> "none", mirror |-> FALSE,
                 skip |-> s, net |-> c.net, flow |-> c.flow, plugin |-> "none"]
        BY <2>3
      <3> HIDE DEF t, s, r, tt, m, o
      <3>3. o = [kind |-> c.proto, cred |-> cred, tls |-> tt, reality |-> r, wrap |-> c.wrap,
                 mirror |-> m, skip |-> s, net |-> c.net, flow |-> c.flow, plugin |-> "none"]
        BY <3>1, <3>2, WrappedRecord
      <3> QED BY <3>3 DEF s, r, tt, m
    <2> HIDE DEF o
    <2>7. /\ o.tls = (v.tls \/ c.reality = "full") /\ o.skip = (c.cert \in Pairs)
      BY <2>6 DEF SkipCertVerify, PanelSigned
    <2>8. MihomoType(c.proto) = c.proto /\ c.plugin = "none"
          /\ (c.mirror # "none") = (c.mirror = "full")
      BY <1>0, <1>3 DEF MihomoType
    <2>9. (v.tls \/ c.reality = "full") = (tls \/ c.proto \in ImpliedTLS)
      BY <1>0, <1>1, <1>2, <2>4 DEF tls
    <2>10. c.mirror = "none" => o.tls = (tls \/ MihomoType(c.proto) \in ImpliedTLS)
      BY <2>7, <2>8, <2>9
    <2>11. c.cert \in Pairs => o.skip
      BY <2>7
    <2>12. o = [kind |-> MihomoType(c.proto), cred |-> cred, tls |-> o.tls,
                reality |-> c.reality = "full", wrap |-> c.wrap, mirror |-> c.mirror = "full",
                skip |-> o.skip, net |-> c.net, flow |-> c.flow, plugin |-> c.plugin]
      BY <2>6, <2>7, <2>8 DEF SkipCertVerify, PanelSigned
    <2> QED BY <2>10, <2>11, <2>12 DEF o, tls
  <1>4. CASE c.proto = "snell"
    <2>1. o = [BaseProxy(c, cred) EXCEPT !.plugin = c.plugin, !.wrap = SnellWrapper(c)]
      BY <1>4 DEF Proxy, SnellProxy
    <2>2. SnellWrapper(c) = c.wrap
      BY <1>0 DEF SnellWrapper, EnabledWrapper, Wrapped
    <2>3. MihomoType(c.proto) = "snell" /\ c.net = "tcp" /\ "snell" \notin ImpliedTLS
          /\ c.cert = "none" /\ c.reality = "none" /\ c.mirror = "none" /\ c.flow = FALSE
      BY <1>0, <1>4 DEF MihomoType, StreamProtocols, ImpliedTLS, CertProtocols
    <2>4. o = [kind |-> "snell", cred |-> cred, tls |-> FALSE \/ CopyClientTLS(c),
               reality |-> FALSE, wrap |-> c.wrap, mirror |-> FALSE,
               skip |-> SkipCertVerify(c), net |-> "tcp", flow |-> FALSE, plugin |-> c.plugin]
      BY <2>1, <2>2, <2>3 DEF BaseProxy, Offer, CopyTransport
    <2> HIDE DEF o
    <2>5. o.tls = CopyClientTLS(c) /\ o.skip = SkipCertVerify(c)
      BY <2>4 DEF CopyClientTLS
    <2>6. (c.reality = "full") = FALSE /\ (c.mirror = "full") = FALSE /\ c.cert \notin Pairs
      BY <2>3, PairNames
    <2>7. CopyClientTLS(c) = (tls \/ MihomoType(c.proto) \in ImpliedTLS)
      BY <1>1, <2>3 DEF CopyClientTLS, tls
    <2> QED BY <2>3, <2>4, <2>5, <2>6, <2>7 DEF o, tls
  <1>5. CASE c.proto \in {"hysteria2", "tuic", "tuic-v4", "tuic-v5", "trusttunnel"}
    <2> DEFINE k == MihomoType(c.proto)
    <2>1. k \in ImpliedTLS
      BY <1>5 DEF MihomoType, ImpliedTLS
    <2>2. /\ c.net = "tcp" /\ c.reality = "none" /\ c.wrap = "none" /\ c.mirror = "none"
          /\ c.flow = FALSE /\ c.plugin = "none"
      BY <1>0, <1>5 DEF StreamProtocols, WrapProtocols
    <2>3. /\ o = [kind |-> k, cred |-> cred, tls |-> o.tls, reality |-> FALSE, wrap |-> "none",
                  mirror |-> FALSE, skip |-> o.skip, net |-> "tcp", flow |-> FALSE,
                  plugin |-> "none"]
          /\ o.tls = TRUE /\ (c.cert \in Pairs => o.skip)
      <3>1. CASE c.proto = "trusttunnel"
        <4>1. o = BaseProxy(c, cred)
          BY <3>1 DEF Proxy
        <4> HIDE DEF o, k
        <4>2. o = [kind |-> k, cred |-> cred, tls |-> k \in ImpliedTLS \/ CopyClientTLS(c),
                   reality |-> FALSE, wrap |-> "none", mirror |-> FALSE,
                   skip |-> SkipCertVerify(c), net |-> "tcp", flow |-> FALSE,
                   plugin |-> "none"]
          BY <2>2, <4>1 DEF BaseProxy, Offer, CopyTransport, k
        <4> QED BY <2>1, <4>2 DEF SkipCertVerify, PanelSigned
      <3>2. CASE c.proto # "trusttunnel"
        <4>1. o = [Offer(k, cred) EXCEPT !.skip = DecideSkipCertVerify(c)]
          BY <1>5, <3>2 DEF Proxy, Hysteria2Proxy, TUICProxy, MihomoType
        <4> HIDE DEF o, k
        <4>2. o = [kind |-> k, cred |-> cred, tls |-> k \in ImpliedTLS, reality |-> FALSE,
                   wrap |-> "none", mirror |-> FALSE, skip |-> DecideSkipCertVerify(c),
                   net |-> "tcp", flow |-> FALSE, plugin |-> "none"]
          BY <4>1 DEF Offer
        <4> QED BY <2>1, <4>2, PairNames DEF DecideSkipCertVerify
      <3> QED BY <3>1, <3>2
    <2>4. (c.reality = "full") = FALSE /\ (c.mirror = "full") = FALSE
      BY <2>2
    <2> HIDE DEF o, k
    <2> QED BY <2>1, <2>2, <2>3, <2>4 DEF o, k, tls
  <1>6. CASE c.proto \in {"shadowquic", "mieru", "sudoku"}
    <2>1. o = Offer(c.proto, cred)
      BY <1>6 DEF Proxy, PlainProxy
    <2>2. /\ c.net = "tcp" /\ c.reality = "none" /\ c.wrap = "none" /\ c.mirror = "none"
          /\ c.flow = FALSE /\ c.plugin = "none" /\ c.cert = "none" /\ c.cert \notin Pairs
          /\ MihomoType(c.proto) = c.proto /\ (c.proto \in ImpliedTLS) = FALSE
          /\ (c.reality = "full") = FALSE /\ (c.mirror = "full") = FALSE
      BY <1>0, <1>6, PairNames
         DEF StreamProtocols, WrapProtocols, CertProtocols, MihomoType, ImpliedTLS
    <2>3. o = [kind |-> c.proto, cred |-> cred, tls |-> c.proto \in ImpliedTLS, reality |-> FALSE,
               wrap |-> "none", mirror |-> FALSE, skip |-> FALSE, net |-> "tcp",
               flow |-> FALSE, plugin |-> "none"]
      BY <2>1 DEF Offer
    <2> HIDE DEF o
    <2>4. o.tls = (c.proto \in ImpliedTLS) /\ o.skip = FALSE
      BY <2>3
    <2>5. o.tls = FALSE
      BY <2>2, <2>4
    <2> QED BY <2>2, <2>3, <2>4, <2>5 DEF o, tls
  <1> QED BY <1>0, <1>3, <1>4, <1>5, <1>6 DEF Protocols

LEMMA ProxyAccepted ==
  ASSUME NEW c, Subscribable(c), NEW creds, NEW cred \in CompiledCredentials(c, creds)
  PROVE  LET o == Proxy(c, cred)
         IN  /\ Accepts(Compile(c, creds), o)
             /\ ~Wrapped(c) /\ c.mirror = "none" =>
                   Accepts(Compile(c, creds), MihomoProxyToSingbox(o))
  <1> DEFINE l == Compile(c, creds)
             o == Proxy(c, cred)
             x == MihomoProxyToSingbox(o)
             tls == c.cert # "none" \/ c.reality = "full" \/ c.wrap # "none"
  <1>1. /\ l.kind = MihomoType(c.proto) /\ l.cert = c.cert /\ l.reality = (c.reality = "full")
        /\ l.wrap = c.wrap /\ l.mirror = (c.mirror = "full")
        /\ l.flow = c.flow /\ l.net = c.net /\ l.plugin = c.plugin
        /\ l.creds = CompiledCredentials(c, creds)
    BY DEF Compile
  <1>2. /\ o = [kind |-> MihomoType(c.proto), cred |-> cred, tls |-> o.tls,
                reality |-> c.reality = "full", wrap |-> c.wrap,
                mirror |-> c.mirror = "full", skip |-> o.skip, net |-> c.net,
                flow |-> c.flow, plugin |-> c.plugin]
        /\ c.mirror = "none" => o.tls = (tls \/ MihomoType(c.proto) \in ImpliedTLS)
        /\ c.cert \in Pairs => o.skip
    BY ProxyFields
  <1>3. c.mirror = "none" \/ c.mirror = "full"
    BY SubscribableFields
  <1> HIDE DEF l, o
  <1>4. (CoreTLS(l) \/ l.kind \in ImpliedTLS) = (tls \/ MihomoType(c.proto) \in ImpliedTLS)
    BY <1>1 DEF CoreTLS
  <1> HIDE DEF tls
  <1>5. /\ o.kind = l.kind /\ o.cred = cred /\ o.reality = l.reality /\ o.wrap = l.wrap
        /\ o.mirror = l.mirror /\ o.net = l.net /\ o.flow = l.flow /\ o.plugin = l.plugin
    BY <1>1, <1>2
  <1>6. ~l.mirror => o.tls = (CoreTLS(l) \/ l.kind \in ImpliedTLS)
    BY <1>1, <1>2, <1>3, <1>4
  <1>7. Accepts(l, o)
    BY <1>1, <1>2, <1>5, <1>6 DEF Accepts, LayersAgree
  <1>8. ASSUME ~Wrapped(c), c.mirror = "none"
        PROVE  Accepts(l, x)
    <2>1. c.wrap = "none" /\ l.wrap = "none" /\ (c.mirror = "full") = FALSE /\ ~l.mirror
      BY <1>1, <1>8 DEF Wrapped
    <2>2. NeedsSingboxTLS(o) = (CoreTLS(l) \/ l.kind \in ImpliedTLS)
      <3>1. l.reality => CoreTLS(l)
        BY DEF CoreTLS
      <3> QED BY <1>5, <1>6, <2>1, <3>1 DEF NeedsSingboxTLS
    <2>3. x.wrap = "none"
      BY <1>2, <2>1 DEF MihomoProxyToSingbox
    <2>4. /\ x.kind = o.kind /\ x.cred = o.cred /\ x.reality = o.reality
          /\ x.mirror = FALSE /\ x.tls = NeedsSingboxTLS(o) /\ x.skip = o.skip
          /\ x.net = o.net /\ x.flow = o.flow /\ x.plugin = o.plugin
      BY <1>2 DEF MihomoProxyToSingbox
    <2>5. x.mirror = l.mirror
      BY <1>1, <2>1, <2>4
    <2> HIDE DEF x
    <2> QED BY <1>1, <1>2, <1>5, <2>1, <2>2, <2>3, <2>4, <2>5 DEF Accepts, LayersAgree
  <1> QED BY <1>7, <1>8 DEF l, o

\* Whom a subscription's proxy is made out to, the core knows.
LEMMA ExportUsersKnown ==
  ASSUME NEW c, Subscribable(c), NEW creds, NEW some \in SUBSET creds,
         some = {} => creds = {}
  PROVE  /\ ExportCredentials(c, some) # {}
         /\ ExportCredentials(c, some) \subseteq CompiledCredentials(c, creds)
  <1>1. /\ c.proto \in Protocols /\ c.proto # "shadowsocks"
        /\ c.auth = IF c.proto = "tuic-v4" THEN "token" ELSE "users"
    BY SubscribableFields
  <1>2. OwnCredentials(c) = {"config"}
    BY <1>1 DEF OwnCredentials
  <1>3. CASE c.proto \in {"snell", "sudoku", "tuic-v4"}
    <2>1. ExportCredentials(c, some) = {"config"}
      BY <1>2, <1>3 DEF ExportCredentials
    <2>2. CompiledCredentials(c, creds) = {"config"}
      BY <1>3 DEF CompiledCredentials, CompileTUIC
    <2> QED BY <2>1, <2>2
  <1>4. CASE c.proto \notin {"snell", "sudoku", "tuic-v4"}
    <2>1. ExportCredentials(c, some) = IF some = {} THEN {"config"} ELSE some
      BY <1>1, <1>2, <1>4 DEF ExportCredentials
    <2>2. CASE c.proto \in {"tuic", "tuic-v5"}
      <3>1. CompiledCredentials(c, creds) = creds \cup {"config"}
        BY <1>1, <2>2 DEF CompiledCredentials, CompileTUIC, UsersAndOwn
      <3> QED BY <2>1, <3>1
    <2>3. CASE c.proto \notin {"tuic", "tuic-v5"}
      <3>1. CompiledCredentials(c, creds) = IF creds = {} THEN {"config"} ELSE creds
        BY <1>1, <1>2, <1>4, <2>3 DEF CompiledCredentials, UsersOrOwn
      <3> QED BY <2>1, <3>1
    <2> QED BY <2>2, <2>3
  <1> QED BY <1>3, <1>4

\* Once the core is up to date, a subscription holds a proxy for this listener,
\* and the core accepts every one it holds, Mihomo and sing-box: for every
\* protocol, every combination of settings and every set of users.
THEOREM SubscriptionConnectsHolds == Spec => []SubscriptionConnects
  <1>1. ASSUME LifeInv
        PROVE  SubscriptionConnects
    <2> SUFFICES ASSUME Settled, ~OwnPasswordOverridden, ~NoClientPassword,
                        ~PluginAndWrapper, ~TLSByProxy, NEW u \in Subscribers
                 PROVE  LET some == SubscriptionCredentials(row, grant, u)
                            offers == ListenerToProxies(row, some)
                        IN  /\ offers # {}
                            /\ \A o \in offers : Accepts(core, o)
                            /\ ~Wrapped(row) /\ row.mirror = "none" =>
                                  \A o \in GenerateUserSingboxSubscription(row, grant, u) :
                                      Accepts(core, o)
      BY DEF SubscriptionConnects
    <2> DEFINE creds == ActiveCredentials(row, grant)
               some == SubscriptionCredentials(row, grant, u)
    <2>1. Secured(row) /\ core = Compile(row, creds)
      BY <1>1 DEF LifeInv, UpToDate
    <2>2. row.proto # "shadowsocks"
      <3>1. u \in BoundUsers(grant)
        BY DEF Subscribers, BoundUsers
      <3> QED BY <3>1 DEF OwnPasswordOverridden
    <2>3. Subscribable(row)
      BY <2>1, <2>2 DEF Subscribable, NoClientPassword, PluginAndWrapper, TLSByProxy
    <2>4. some \in SUBSET creds /\ (some = {} => creds = {})
      BY SubscriptionFields
    <2>5. ListenerToProxies(row, some) = {Proxy(row, cred) : cred \in ExportCredentials(row, some)}
      BY <2>2 DEF ListenerToProxies
    <2>6. GenerateUserSingboxSubscription(row, grant, u) \subseteq
            {MihomoProxyToSingbox(o) : o \in ListenerToProxies(row, some)}
      BY DEF GenerateUserSingboxSubscription
    <2> HIDE DEF creds, some
    <2>7. /\ ExportCredentials(row, some) # {}
          /\ ExportCredentials(row, some) \subseteq CompiledCredentials(row, creds)
      BY <2>3, <2>4, ExportUsersKnown
    <2>8. \A cred \in ExportCredentials(row, some) :
            /\ Accepts(core, Proxy(row, cred))
            /\ ~Wrapped(row) /\ row.mirror = "none" =>
                  Accepts(core, MihomoProxyToSingbox(Proxy(row, cred)))
      BY <2>1, <2>3, <2>7, ProxyAccepted
    <2> QED BY <2>5, <2>6, <2>7, <2>8 DEF some
  <1> QED BY LifeInvHolds, <1>1, PTL
=============================================================================
