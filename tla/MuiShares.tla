------------------------------ MODULE MuiShares ------------------------------
(***************************************************************************)
(* The m-ui port (mui/bridge.go, mui/protocol) and node/api.go's           *)
(* ExportNodeURI, which tries m-ui, then the registry, then the URI        *)
(* builders, and fills in a missing client YAML from the converter.        *)
(***************************************************************************)
EXTENDS ShareLinks

MuiProtocols == {"vless", "vmess", "trojan", "shadowsocks", "hysteria2"}

\* ListenerToNode: the panel's users, else a users array, else a Shadowsocks
\* password.  Hysteria2 keeps its users in a map, which is not read.
ListenerToNode(c, creds) ==
    CASE creds # {}               -> creds
      [] creds = {} /\ c.proto = "hysteria2" -> {}
      [] OTHER                    -> OwnCredentials(c)

\* decodeHandler: mekya has no handler and becomes raw TCP.
DecodeHandler(c) == IF c.net = "mekya" THEN "tcp" ELSE c.net

\* decodeSecurity: REALITY, else TLS by flag or certificate; a wrapper block
\* is not looked at.
DecodeSecurity(c) ==
    CASE c.reality # "none"                        -> "reality"
      [] c.reality = "none" /\ (c.flag \/ c.cert # "none") -> "tls"
      [] OTHER                                     -> "none"

\* decodeSSSecurity reads `enable', as decodeKCPTunConfig does; simple-obfs
\* is not decoded at all.
DecodeSSSecurity(c) == IF c.fill = "off" THEN "none" ELSE c.wrap
DecodeKCPTun(c) == IF c.plugin = "kcptun" THEN "kcptun" ELSE "none"

\* kcptun goes before a wrapper.
ShadowsocksPlugin(c) ==
    IF DecodeKCPTun(c) # "none" THEN [plugin |-> "kcptun", wrap |-> "none"]
    ELSE [plugin |-> "none", wrap |-> DecodeSSSecurity(c)]

\* decodeVLESS, decodeVMess, decodeTrojan
DecodeStream(c) == [net |-> DecodeHandler(c), security |-> DecodeSecurity(c), flow |-> c.flow]

\* ensureRealityPublicKey: derived from the private key where none is stored.
RealityNode(c) == DecodeStream(c).security = "reality"

-----------------------------------------------------------------------------
(* mui/protocol: a URI and a client YAML per user. *)

AllowInsecure(c) == PanelSigned(c)

\* Wrong on purpose: the link never asks for an unverified certificate.
X_MuiVLESSURI(c, cred) ==
    [Offer("vless", cred) EXCEPT !.net = DecodeStream(c).net, !.flow = DecodeStream(c).flow,
        !.reality = RealityNode(c), !.tls = DecodeStream(c).security # "none"]

\* The URI asks for an unverified certificate in the TLS case only.
MuiVLESSURI(c, cred) ==
    [Offer("vless", cred) EXCEPT !.net = DecodeStream(c).net, !.flow = DecodeStream(c).flow,
        !.reality = RealityNode(c), !.tls = DecodeStream(c).security # "none",
        !.skip = DecodeStream(c).security = "tls" /\ AllowInsecure(c)]

\* compileVLESSClient
CompileVLESSClient(c, cred) ==
    [Offer("vless", cred) EXCEPT !.net = DecodeStream(c).net, !.flow = DecodeStream(c).flow,
        !.reality = RealityNode(c), !.tls = DecodeStream(c).security # "none",
        !.skip = AllowInsecure(c)]

MuiVMessURI(c, cred) ==
    [Offer("vmess", cred) EXCEPT !.net = DecodeStream(c).net,
        !.reality = RealityNode(c), !.tls = DecodeStream(c).security # "none"]

ApplySecurityQuery(o, c) ==
    [o EXCEPT !.reality = RealityNode(c),
              !.skip = DecodeStream(c).security = "tls" /\ AllowInsecure(c)]

MuiTrojanURI(c, cred) ==
    ApplySecurityQuery([Offer("trojan", cred) EXCEPT !.net = DecodeStream(c).net], c)

\* A security of any kind switches TLS on.
ApplyClassicClientSecurity(o, c) ==
    [o EXCEPT !.tls = @ \/ DecodeStream(c).security # "none", !.reality = RealityNode(c)]

\* Trojan's own `tls' key is always dropped: its client opens TLS anyway.
CompileClassicClient(c, cred) ==
    ApplyClassicClientSecurity(
        [Offer(c.proto, cred) EXCEPT !.net = DecodeStream(c).net, !.skip = AllowInsecure(c),
                                     !.mirror = c.mirror # "none"], c)

\* One plugin, in the URI and in the YAML.
MuiShadowsocks(c, cred) ==
    [Offer("shadowsocks", cred) EXCEPT !.plugin = ShadowsocksPlugin(c).plugin,
                                       !.wrap = ShadowsocksPlugin(c).wrap]

MuiHysteria2(c, cred) == [Offer("hysteria2", cred) EXCEPT !.skip = AllowInsecure(c)]

MuiURI(c, cred) ==
    CASE c.proto = "vless"       -> MuiVLESSURI(c, cred)
      [] c.proto = "vmess"       -> MuiVMessURI(c, cred)
      [] c.proto = "trojan"      -> MuiTrojanURI(c, cred)
      [] c.proto = "shadowsocks" -> MuiShadowsocks(c, cred)
      [] c.proto = "hysteria2"   -> MuiHysteria2(c, cred)

MuiClientYAML(c, cred) ==
    CASE c.proto = "vless"               -> CompileVLESSClient(c, cred)
      [] c.proto \in {"vmess", "trojan"} -> CompileClassicClient(c, cred)
      [] c.proto = "shadowsocks"         -> MuiShadowsocks(c, cred)
      [] c.proto = "hysteria2"           -> MuiHysteria2(c, cred)

\* BuildShares: the protocols of the port, nothing for the others.
MuiShares(c, creds) ==
    IF c.proto \in MuiProtocols
    THEN {[uri |-> MuiURI(c, cred), yaml |-> MuiClientYAML(c, cred)] : cred \in ListenerToNode(c, creds)}
    ELSE {}

-----------------------------------------------------------------------------
(* ExportNodeURI.  The client YAML is that of the first share that has one; *)
(* here it is any of them.                                                  *)

\* Types whose registry share has a URI, and whose share has a client YAML.
RegistryWithURI == {"trojan", "vless", "shadowsocks", "hysteria2", "tuic", "tuic-v4", "tuic-v5"}
RegistryWithYAML == Protocols \ {"trojan", "shadowsocks"}

RegistryTier(c, creds) ==
    [uris  |-> IF c.proto \in RegistryWithURI THEN RegistryShares(c, creds) ELSE {},
     yamls |-> IF c.proto = "vless" THEN {VLESSShareYAML(c, cred) : cred \in ShareUsers(c, creds)}
               ELSE IF c.proto \in RegistryWithYAML THEN RegistryShares(c, creds) ELSE {}]

MuiTier(c, creds) ==
    [uris  |-> {s.uri : s \in MuiShares(c, creds)},
     yamls |-> {s.yaml : s \in MuiShares(c, creds)}]

LegacyTier(c, creds) ==
    [uris |-> ClientURIs(c, creds), yamls |-> ListenerToProxies(c, creds)]

EmptyTier(t) == t.uris = {} /\ t.yamls = {}

ExportNodeURI(c, creds) ==
    LET tier == IF ~EmptyTier(MuiTier(c, creds)) THEN MuiTier(c, creds)
                ELSE IF ~EmptyTier(RegistryTier(c, creds)) THEN RegistryTier(c, creds)
                ELSE LegacyTier(c, creds)
    IN  IF tier.yamls = {} THEN [tier EXCEPT !.yamls = ListenerToProxies(c, creds)] ELSE tier
=============================================================================
