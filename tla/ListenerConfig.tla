--------------------------- MODULE ListenerConfig ---------------------------
(***************************************************************************)
(* One listener's stored configuration and everything the panel does to it *)
(* on the way from the form to the core: AutofillListenerDefaults and      *)
(* ValidateModel on a save, generateListeners on a regeneration, the       *)
(* certificate pair kept on disk, and the protocol compilers.              *)
(*                                                                         *)
(* A configuration is a record over small sets.  `auth' says which         *)
(* credentials it carries, `cert' which certificate pair (one the panel    *)
(* minted, or "own", the operator's), `wrap' and                           *)
(* `fill' its shadow-tls / res-tls / jls block and how far it is filled in *)
(* ("part": switched on, required fields empty; "off": complete, switched  *)
(* off), `flag' is Listener.TLS, `layer' the form's security_layer.        *)
(***************************************************************************)
EXTENDS Naturals, FiniteSets

CONSTANTS
    Users,      \* proxy users
    Pairs       \* certificate pairs the panel may mint in a run

ASSUME UsersAssumption == IsFiniteSet(Users) /\ "config" \notin Users
ASSUME PairsAssumption == {"none", "half", "own"} \cap Pairs = {}

Protocols == {"vless", "vmess", "trojan", "shadowsocks", "snell", "hysteria2",
              "tuic", "tuic-v4", "tuic-v5", "anytls", "trusttunnel",
              "shadowquic", "mieru", "sudoku"}
Wrappers == {"shadow-tls", "shadow-tls-v3", "res-tls", "jls"}
Transports == {"tcp", "ws", "grpc", "xhttp", "mkcp", "mekya"}

Configs == [proto : Protocols,
            auth : {"none", "unnamed", "users", "token"},
            cert : {"none", "half", "own"} \cup Pairs,
            reality : {"none", "bare", "full"},
            wrap : Wrappers \cup {"none"}, fill : {"part", "off", "on"},
            mirror : {"none", "part", "full"},
            layer : {"unset", "none", "tls", "reality"},
            insecure : BOOLEAN, flag : BOOLEAN, flow : BOOLEAN,
            net : Transports, plugin : {"none", "obfs", "obfs-part", "kcptun"}]

CompletePair(cert) == cert \in {"own"} \cup Pairs
Wrapped(c) == c.wrap # "none"

-----------------------------------------------------------------------------
(* What each protocol's schema admits. *)

CertProtocols == {"vmess", "vless", "trojan", "hysteria2", "tuic", "tuic-v4",
                  "tuic-v5", "anytls", "trusttunnel"}
WrapProtocols == {"shadowsocks", "snell", "vmess", "vless", "trojan", "anytls"}
StreamProtocols == {"vless", "vmess", "trojan"}

TransportsOf(proto) ==
    CASE proto = "vless"  -> {"tcp", "ws", "grpc", "xhttp"}
      [] proto = "vmess"  -> {"tcp", "ws", "grpc", "mkcp", "mekya"}
      [] proto = "trojan" -> {"tcp", "ws", "grpc"}
      [] OTHER            -> {"tcp"}

\* ValidateListenerConfig: a field outside the protocol's schema is an error.
SchemaAdmits(c) ==
    /\ c.cert # "none"    => c.proto \in CertProtocols
    /\ c.reality # "none" => c.proto \in StreamProtocols
    /\ Wrapped(c)         => c.proto \in WrapProtocols
    /\ c.mirror # "none"  => c.proto = "vmess"
    /\ c.insecure         => c.proto \in {"vless", "trojan", "anytls"}
    /\ c.flow             => c.proto = "vless"
    /\ c.net \in TransportsOf(c.proto)
    /\ c.plugin \in {"obfs", "obfs-part"} => c.proto \in {"shadowsocks", "snell"}
    /\ c.plugin = "kcptun" => c.proto = "shadowsocks"
    /\ c.auth = "token"   => c.proto \in {"tuic", "tuic-v4"}
    /\ c.proto = "tuic-v4" => c.auth \in {"none", "token"}

-----------------------------------------------------------------------------
(* AutofillListenerDefaults: every save goes through it. *)

NeedsReality(c) == c.reality # "none" \/ c.layer = "reality"

\* A REALITY listener without a destination cannot be filled in.
AutofillRefuses(c) == NeedsReality(c) /\ c.reality # "full"

AutofillAuth(proto, auth) ==
    CASE proto \in {"vless", "vmess"} ->
             IF auth = "none" THEN "unnamed" ELSE auth
      [] proto = "tuic-v4" -> "token"
      [] OTHER -> "users"

\* protocolNeedsServerCertificate, called before the incomplete blocks go.
AutofillNeedsCertificate(c) ==
    /\ c.reality = "none"
    /\ ~(c.layer = "none" /\ c.proto \in StreamProtocols)
    /\ c.layer # "reality"
    /\ ~(c.insecure /\ c.proto \in StreamProtocols \cup {"anytls"})
    /\ c.wrap = "jls" => c.fill = "part"
    /\ c.wrap \in {"shadow-tls", "shadow-tls-v3"} => c.fill = "off"
    /\ c.wrap = "res-tls" => c.fill = "part"
    /\ c.mirror = "none"
    /\ c.proto \in CertProtocols

\* Wrong on purpose: the pair on disk is not looked for.
X_RestorePair(c, disk) == c

\* A listener that has an id takes the pair on disk before one is minted.
RestorePair(c, disk) ==
    IF ~CompletePair(c.cert) /\ disk # "none" THEN [c EXCEPT !.cert = disk] ELSE c

\* ensureServerTLSCertificate: half a pair counts as none; `fresh' is the
\* pair a mint would produce.
EnsureServerCertificate(c, fresh) ==
    CASE CompletePair(c.cert) -> c
      [] ~CompletePair(c.cert) /\ AutofillNeedsCertificate([c EXCEPT !.cert = "none"]) ->
             [c EXCEPT !.cert = fresh, !.insecure = FALSE]
      [] OTHER -> [c EXCEPT !.cert = "none"]

\* sanitizeServerConfig.  The REALITY branch runs first; `enable' is not read.
SanitizeReality(c) ==
    IF c.reality = "none" THEN c
    ELSE [c EXCEPT !.cert = "none", !.wrap = "none", !.fill = "on",
                   !.mirror = "none", !.insecure = FALSE]

SanitizeServerConfig(c) ==
    LET r == SanitizeReality(c)
        dropWrap == r.fill = "part"
    IN  [r EXCEPT !.layer  = "unset",
                  !.wrap   = IF dropWrap THEN "none" ELSE @,
                  !.fill   = IF dropWrap THEN "on" ELSE @,
                  !.mirror = IF @ = "part" THEN "none" ELSE @,
                  !.plugin = IF @ = "obfs-part" /\ r.proto = "snell" THEN "none" ELSE @,
                  !.insecure = @ /\ ~CompletePair(r.cert)]

AutofillListenerDefaults(c, disk, fresh) ==
    SanitizeServerConfig(
        EnsureServerCertificate(
            RestorePair([c EXCEPT !.auth = AutofillAuth(c.proto, @)], disk), fresh))

-----------------------------------------------------------------------------
(* ValidateModel: the schema, then node.ValidateNode. *)

\* validateUserRow: a row without a user name is refused.
UserRowsValid(c) == c.proto \in StreamProtocols => c.auth = "users"

ServerTLSModesValid(c) ==
    c.proto \in StreamProtocols =>
        /\ c.cert # "half"
        /\ CompletePair(c.cert) => c.reality = "none" /\ c.mirror = "none"

\* validateAnyTLS: exactly one enabled mode, or none with allow-insecure.
AnyTLSValid(c) ==
    LET wrapOn == Wrapped(c) /\ c.fill # "off"
        paired == CompletePair(c.cert)
    IN  c.proto = "anytls" =>
            /\ c.cert # "half"
            /\ ~(wrapOn /\ paired)
            /\ wrapOn \/ paired \/ c.insecure

ProtocolValid(c) ==
    /\ c.proto \in {"hysteria2", "trusttunnel"} => CompletePair(c.cert)
    /\ c.proto = "tuic-v4" => c.auth = "token"
    /\ c.proto = "tuic-v5" => c.auth = "users"
    /\ AnyTLSValid(c)
    /\ ServerTLSModesValid(c)
    /\ UserRowsValid(c)

ListenerSupportsTLS(proto) ==
    proto \in {"vmess", "vless", "trojan", "anytls", "mieru", "trusttunnel"}

ValidateModel(c) ==
    /\ SchemaAdmits(c)
    /\ ProtocolValid(c)
    /\ c.flag => ListenerSupportsTLS(c.proto)

\* EnsureListenerCredentials, as a regeneration calls it for a listener
\* nobody is bound to.
EnsureListenerCredentials(c) ==
    IF c.proto \in {"shadowsocks", "snell", "sudoku", "trusttunnel"} THEN c
    ELSE IF c.proto = "tuic-v4" THEN [c EXCEPT !.auth = "token"]
    ELSE IF c.auth = "none" THEN [c EXCEPT !.auth = "users"]
    ELSE c

-----------------------------------------------------------------------------
(* generateListeners: what one listener becomes on a regeneration. *)

\* sanitizeIncompleteTLSWrappers: here a block must also be switched on.
SanitizeIncompleteWrappers(c) ==
    LET keep == Wrapped(c) /\ c.fill = "on"
    IN  [c EXCEPT !.wrap   = IF keep THEN @ ELSE "none",
                  !.fill   = IF keep THEN @ ELSE "on",
                  !.mirror = IF @ = "part" THEN "none" ELSE @,
                  !.plugin = IF @ = "obfs-part" /\ c.proto = "snell" THEN "none" ELSE @]

\* Stale pairs of a protocol without the field go before anything reads them.
StripUnsupportedCertificate(c) ==
    IF c.proto \in CertProtocols THEN c
    ELSE [c EXCEPT !.cert = "none", !.insecure = FALSE]

\* listenerProtocolNeedsCert, on a configuration already sanitized.
ListenerProtocolNeedsCert(c) ==
    /\ c.reality = "none"
    /\ ~(c.insecure /\ c.proto \in StreamProtocols \cup {"anytls"})
    /\ ~(c.layer = "none" /\ c.proto \in StreamProtocols)
    /\ c.layer # "reality"
    /\ ~Wrapped(c)
    /\ c.mirror = "none"
    /\ c.proto \in CertProtocols

\* Wrong on purpose: a listener that lost its pair is left without one.
X_EnsureListenerTLSMaterial(c, fresh) ==
    IF c.proto \in CertProtocols /\ ~CompletePair(c.cert) THEN [c EXCEPT !.cert = "none"] ELSE c

EnsureListenerTLSMaterial(c, fresh) ==
    CASE c.proto \notin CertProtocols -> c
      [] c.proto \in CertProtocols /\ CompletePair(c.cert) -> [c EXCEPT !.insecure = FALSE]
      [] c.proto \in CertProtocols /\ ~CompletePair(c.cert)
            /\ ListenerProtocolNeedsCert([c EXCEPT !.cert = "none"]) ->
             [c EXCEPT !.cert = fresh, !.insecure = FALSE]
      [] OTHER -> [c EXCEPT !.cert = "none"]

\* Wrong on purpose: a pair goes into a protocol that has no field for it.
X_RestoreSupportedPair(c, disk) == RestorePair(c, disk)

RestoreSupportedPair(c, disk) ==
    IF c.proto \in CertProtocols THEN RestorePair(c, disk) ELSE c

\* The configuration that is written back to the row and handed to Compile.
Regenerated(c, disk, fresh) ==
    EnsureListenerTLSMaterial(
        RestoreSupportedPair(
            StripUnsupportedCertificate(SanitizeIncompleteWrappers(c)), disk), fresh)

\* HydrateListenersFromDisk, at start-up: a missing pair comes from disk.
Hydrated(c, disk) == RestoreSupportedPair(c, disk)

-----------------------------------------------------------------------------
(* Credentials.  "config" stands for what the configuration itself holds:  *)
(* its own user, its TUIC token, its password, psk or key.                 *)

BoundUsers(grant) == {u \in Users : grant[u] # "unbound"}

ConfigCredentials(c) ==
    IF c.proto \in {"shadowsocks", "snell", "sudoku"} \/ c.auth = "none" THEN {}
    ELSE {"config"}

\* activeCredentialsByListener: bound users that are active and whose
\* password decrypts; an unbound listener answers with its own credentials.
ActiveCredentials(c, grant) ==
    IF BoundUsers(grant) # {} THEN {u \in Users : grant[u] = "active"}
    ELSE ConfigCredentials(EnsureListenerCredentials(c))

-----------------------------------------------------------------------------
(* The compilers: the listener as the core runs it. *)

OwnCredentials(c) == IF c.auth = "none" THEN {} ELSE {"config"}

\* asUsersArray, asUsersMap: the panel's credentials, else the file's own.
UsersOrOwn(c, creds) == IF creds # {} THEN creds ELSE OwnCredentials(c)
\* asUsersMapUUID: both.
UsersAndOwn(c, creds) == creds \cup (IF c.auth = "users" THEN {"config"} ELSE {})

CompileShadowsocks(creds) == IF creds = {} THEN {"config"} ELSE creds

CompileTUIC(c, creds) ==
    IF c.proto = "tuic-v4" \/ (c.proto = "tuic" /\ c.auth = "token") THEN {"config"}
    ELSE UsersAndOwn(c, creds)

CompiledCredentials(c, creds) ==
    CASE c.proto = "shadowsocks"                    -> CompileShadowsocks(creds)
      [] c.proto \in {"snell", "sudoku"}            -> {"config"}
      [] c.proto \in {"tuic", "tuic-v4", "tuic-v5"} -> CompileTUIC(c, creds)
      [] OTHER                                      -> UsersOrOwn(c, creds)

\* A Shadowsocks listener has one password: two bound users are an error.
CompileRefuses(c, creds) == c.proto = "shadowsocks" /\ Cardinality(creds) > 1

Layers == [kind : Protocols, cert : {"none", "own"} \cup Pairs, reality : BOOLEAN,
           wrap : Wrappers \cup {"none"}, mirror : BOOLEAN,
           insecure : BOOLEAN, flow : BOOLEAN, net : Transports,
           plugin : {"none", "obfs", "obfs-part", "kcptun"},
           creds : SUBSET (Users \cup {"config"})]

\* The type a compiled listener has in the core's file.
MihomoType(proto) == IF proto \in {"tuic-v4", "tuic-v5"} THEN "tuic" ELSE proto

\* baseMap and copyConfigPassthrough: security and transport pass unchanged.
Compile(c, creds) ==
    [kind |-> MihomoType(c.proto), cert |-> c.cert, reality |-> c.reality = "full",
     wrap |-> c.wrap, mirror |-> c.mirror = "full",
     insecure |-> c.insecure, flow |-> c.flow, net |-> c.net,
     plugin |-> c.plugin, creds |-> CompiledCredentials(c, creds)]

-----------------------------------------------------------------------------
(* What the stages of a configuration's way have established. *)

\* What autofill and validation leave of a form, and start-up and the
\* regeneration keep.
Shaped(c) ==
    /\ c \in Configs /\ SchemaAdmits(c)
    /\ c.auth = IF c.proto = "tuic-v4" THEN "token" ELSE "users"
    /\ c.layer = "unset"
    /\ c.cert # "half" /\ c.reality # "bare" /\ c.mirror # "part" /\ c.fill # "part"
    /\ c.proto = "snell" => c.plugin # "obfs-part"

\* What the regeneration hands to the compiler: a protocol that needs TLS has
\* a pair, or says how it does without.
Secured(c) ==
    /\ Shaped(c) /\ c.fill = "on"
    /\ c.proto \in CertProtocols =>
          IF CompletePair(c.cert) THEN ~c.insecure
          ELSE c.insecure \/ c.reality = "full" \/ Wrapped(c) \/ c.mirror = "full"
=============================================================================
