----------------------------- MODULE ShareLinks -----------------------------
(***************************************************************************)
(* The other three exporters of a listener: the share registry of          *)
(* protocol/, the URI builders of node/, the port of m-ui under mui/, and  *)
(* the handler ExportNodeURI that tries them in turn.                      *)
(*                                                                         *)
(* Each is a separate translation of the same stored configuration, so     *)
(* each reads security, transport and credentials again by its own rules.  *)
(***************************************************************************)
EXTENDS ClientExport

-----------------------------------------------------------------------------
(* protocol/: the registry. *)

\* DecodeNodeModel: the given users, else what the configuration holds.
ShareUsers(c, creds) == IF creds # {} THEN creds ELSE OwnCredentials(c)

DecodeTransport(c) == IF c.net \in {"ws", "grpc", "xhttp"} THEN c.net ELSE "tcp"
DecodeReality(c) == c.reality # "none"

\* skip-cert-verify comes with every type; TLS is switched on by the row's flag.
StreamShare(c, cred) ==
    [Offer(c.proto, cred) EXCEPT !.net = DecodeTransport(c), !.skip = SkipCertVerify(c),
                                 !.reality = DecodeReality(c)]

TrojanShare(c, cred) == StreamShare(c, cred)

VLESSShare(c, cred) ==
    [StreamShare(c, cred) EXCEPT !.tls = DecodeReality(c) \/ c.flag, !.flow = c.flow]

\* The YAML of the same share reads the same fields once more.
VLESSShareYAML(c, cred) ==
    [Offer("vless", cred) EXCEPT !.flow = c.flow, !.skip = SkipCertVerify(c),
                                 !.net = DecodeTransport(c), !.reality = DecodeReality(c),
                                 !.tls = DecodeReality(c) \/ c.flag]

\* skip-cert-verify alone is reason enough to speak TLS.
VMessShare(c, cred) ==
    [StreamShare(c, cred) EXCEPT !.tls = DecodeReality(c) \/ c.flag \/ SkipCertVerify(c)]

\* No plugin and no wrapper.
ShadowsocksShare(c, cred) == Offer("shadowsocks", cred)

Hysteria2Share(c, cred) == [Offer("hysteria2", cred) EXCEPT !.skip = SkipCertVerify(c)]

\* Snell and Sudoku: a user's password is taken for the psk or the key.
GenericShare(c, cred) == Offer(c.proto, cred)

AnyTLSShare(c, cred) == [Offer("anytls", cred) EXCEPT !.skip = TRUE]
ShadowQUICShare(c, cred) == Offer("shadowquic", cred)
MieruShare(c, cred) == Offer("mieru", cred)
TrustTunnelShare(c, cred) == [Offer("trusttunnel", cred) EXCEPT !.skip = TRUE]

\* A v4 listener's token is the configuration's, whoever asks.
TUICShare(c, cred) ==
    LET v4 == c.proto = "tuic-v4" \/ (c.proto = "tuic" /\ c.auth = "token")
    IN  [Offer("tuic", IF v4 THEN "config" ELSE cred)
            EXCEPT !.skip = DecideSkipCertVerify(c)]

RegistryShare(c, cred) ==
    CASE c.proto = "trojan"                        -> TrojanShare(c, cred)
      [] c.proto = "vless"                         -> VLESSShare(c, cred)
      [] c.proto = "vmess"                         -> VMessShare(c, cred)
      [] c.proto = "shadowsocks"                   -> ShadowsocksShare(c, cred)
      [] c.proto = "hysteria2"                     -> Hysteria2Share(c, cred)
      [] c.proto \in {"snell", "sudoku"}           -> GenericShare(c, cred)
      [] c.proto = "anytls"                        -> AnyTLSShare(c, cred)
      [] c.proto = "shadowquic"                    -> ShadowQUICShare(c, cred)
      [] c.proto = "mieru"                         -> MieruShare(c, cred)
      [] c.proto = "trusttunnel"                   -> TrustTunnelShare(c, cred)
      [] c.proto \in {"tuic", "tuic-v4", "tuic-v5"} -> TUICShare(c, cred)

\* realityPublicKeyFromSpec: a REALITY share needs a key pair.
RealityShareable(c) == c.reality # "bare"

\* ExportShares and BuildShares.
RegistryShares(c, creds) ==
    IF RealityShareable(c) THEN {RegistryShare(c, cred) : cred \in ShareUsers(c, creds)}
    ELSE {}

-----------------------------------------------------------------------------
(* node/: the URI builders of the base64 subscription. *)

\* ClientURIsWithCredentials: which users the configuration is given.
URIUsers(c, creds) ==
    CASE c.proto \in {"snell", "sudoku"} -> {"config"}
      [] c.proto = "tuic-v4" \/ (c.proto = "tuic" /\ c.auth = "token") -> OwnCredentials(c)
      [] OTHER -> UsersOrOwn(c, creds)

\* Shadowsocks takes the first credential for the one password.
FirstCredential(creds) == CHOOSE cred \in creds : TRUE

TLSParams(c) == c.flag \/ c.cert # "none"
TransportParams(c) == IF c.net \in {"ws", "grpc", "xhttp"} THEN c.net ELSE "tcp"
RealityPublicKey(c) == c.reality = "full"

ShadowsocksURI(c, cred) == Offer("shadowsocks", cred)

VLESSURI(c, cred) ==
    [Offer("vless", cred) EXCEPT !.tls = TLSParams(c) \/ RealityPublicKey(c),
        !.reality = RealityPublicKey(c), !.skip = SkipCertVerify(c),
        !.flow = c.flow, !.net = TransportParams(c)]

\* The v2rayN form has no place for an unverified certificate, a flow or mKCP.
VMessURI(c, cred) ==
    [Offer("vmess", cred) EXCEPT !.tls = TLSParams(c) \/ RealityPublicKey(c),
        !.reality = RealityPublicKey(c),
        !.net = IF c.net \in {"ws", "grpc"} THEN c.net ELSE "tcp"]

TrojanURI(c, cred) ==
    [Offer("trojan", cred) EXCEPT !.reality = RealityPublicKey(c),
        !.skip = SkipCertVerify(c), !.net = TransportParams(c)]

Hysteria2URI(c, cred) == [Offer("hysteria2", cred) EXCEPT !.skip = SkipCertVerify(c)]
TUICURI(c, cred) == [Offer("tuic", cred) EXCEPT !.skip = SkipCertVerify(c)]
AnyTLSURI(c, cred) == [Offer("anytls", cred) EXCEPT !.skip = SkipCertVerify(c)]
SnellURI(c, cred) == [Offer("snell", cred) EXCEPT !.plugin = c.plugin]
ShadowQUICURI(c, cred) == Offer("shadowquic", cred)
MieruURI(c, cred) == Offer("mieru", cred)
SudokuURI(c, cred) == Offer("sudoku", cred)
TrustTunnelURI(c, cred) == Offer("trusttunnel", cred)

NodeURI(c, cred) ==
    CASE c.proto = "shadowsocks" -> ShadowsocksURI(c, cred)
      [] c.proto = "vless"       -> VLESSURI(c, cred)
      [] c.proto = "vmess"       -> VMessURI(c, cred)
      [] c.proto = "trojan"      -> TrojanURI(c, cred)
      [] c.proto = "hysteria2"   -> Hysteria2URI(c, cred)
      [] c.proto \in {"tuic", "tuic-v4", "tuic-v5"} -> TUICURI(c, cred)
      [] c.proto = "anytls"      -> AnyTLSURI(c, cred)
      [] c.proto = "snell"       -> SnellURI(c, cred)
      [] c.proto = "shadowquic"  -> ShadowQUICURI(c, cred)
      [] c.proto = "mieru"       -> MieruURI(c, cred)
      [] c.proto = "sudoku"      -> SudokuURI(c, cred)
      [] c.proto = "trusttunnel" -> TrustTunnelURI(c, cred)

ClientURIs(c, creds) ==
    LET used == URIUsers(c, creds)
    IN  CASE c.reality = "bare" \/ used = {} -> {}
          [] c.proto = "shadowsocks" /\ used # {} -> {NodeURI(c, FirstCredential(used))}
          [] OTHER -> {NodeURI(c, cred) : cred \in used}

\* GenerateUserBase64Subscription
GenerateUserBase64Subscription(c, grant, u) ==
    ClientURIs(c, SubscriptionCredentials(c, grant, u))
=============================================================================
