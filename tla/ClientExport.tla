---------------------------- MODULE ClientExport ----------------------------
(***************************************************************************)
(* What a subscription offers a user for one listener: the Mihomo proxies  *)
(* of converter/client.go, the choice of credentials of user_sub.go, the   *)
(* sing-box translation, and what the core would accept.                   *)
(*                                                                         *)
(* An offer is one proxy a client may dial.  `tls' is FALSE only where the *)
(* client would speak without TLS; types that always speak TLS have it     *)
(* TRUE.  `wrap' and `mirror' are the wrapper options it carries, `skip'   *)
(* is skip-cert-verify.                                                    *)
(***************************************************************************)
EXTENDS ListenerConfig

PanelSigned(c) == c.cert \in Pairs

\* Types whose client always opens TLS or QUIC.
ImpliedTLS == {"trojan", "hysteria2", "tuic", "anytls", "trusttunnel"}

-----------------------------------------------------------------------------
(* Which credentials the exporter uses. *)

\* userBoundListeners: the user's own credential of this listener, or all of
\* its credentials when none matches.
SubscriptionCredentials(c, grant, u) ==
    LET creds == ActiveCredentials(c, grant)
    IN  IF u \in creds THEN {u} ELSE creds

\* listenerToProxies: what authenticates by the configuration prefers it.
ExportCredentials(c, creds) ==
    LET preferOwn == c.proto \in {"tuic-v4", "shadowsocks", "snell", "sudoku"}
                     \/ (c.proto = "tuic" /\ c.auth = "token")
    IN  IF (preferOwn \/ creds = {}) /\ OwnCredentials(c) # {}
        THEN OwnCredentials(c) ELSE creds

-----------------------------------------------------------------------------
(* The layers of a Mihomo proxy. *)

\* enabledWrapper: unlike the *ClientOptions functions it reads `enable'.
EnabledWrapper(c) == Wrapped(c) /\ c.fill # "off"

\* Wrong on purpose: a wrapper alone does not switch TLS on.
X_CopyClientTLS(c) == c.cert # "none" \/ c.reality # "none"

\* copyClientTLS: a certificate, REALITY or an enabled wrapper.
CopyClientTLS(c) == c.cert # "none" \/ c.reality # "none" \/ EnabledWrapper(c)

\* Transports in the order copyTransport writes them; a later one wins.
CopyTransport(c) == c.net

RealityClientOptions(c) == c.reality = "full"

\* shadowTLSClientOptions copies `version' and the top-level password; the
\* v3 form keeps its password under users, so the client gets none.
WrapperClientOptions(c) ==
    CASE c.wrap = "shadow-tls-v3" -> "shadow-tls-v3-no-password"
      [] OTHER -> c.wrap

TLSMirrorClientOptions(c) == c.mirror # "none"

\* ShouldSkipCertVerify and DecideClientSkipCertVerify.
SkipCertVerify(c) == PanelSigned(c)
DecideSkipCertVerify(c) == c.cert # "own"

\* applySSPluginWrappers: one plugin; kcp-tun first, then an enabled wrapper.
SSPluginWrapper(c) ==
    IF c.plugin # "kcptun" /\ EnabledWrapper(c) THEN c.wrap ELSE "none"

\* applySnellObfsOpts: an explicit obfs-opts block wins over a wrapper.
SnellWrapper(c) ==
    IF c.plugin = "none" /\ EnabledWrapper(c) THEN c.wrap ELSE "none"

Offer(kind, cred) ==
    [kind |-> kind, cred |-> cred, tls |-> kind \in ImpliedTLS, reality |-> FALSE,
     wrap |-> "none", mirror |-> FALSE, skip |-> FALSE, net |-> "tcp",
     flow |-> FALSE, plugin |-> "none"]

-----------------------------------------------------------------------------
(* listenerToProxies, protocol by protocol. *)

\* applyClientWrappers
ApplyClientWrappers(o, c) ==
    [o EXCEPT !.reality = RealityClientOptions(c),
              !.tls     = @ \/ RealityClientOptions(c),
              !.wrap    = WrapperClientOptions(c),
              !.mirror  = TLSMirrorClientOptions(c)]

\* base: copyClientTLS and copyTransport, shared by every protocol.
BaseProxy(c, cred) ==
    [Offer(MihomoType(c.proto), cred) EXCEPT
        !.tls  = @ \/ CopyClientTLS(c),
        !.skip = SkipCertVerify(c),
        !.net  = CopyTransport(c)]

ShadowsocksProxy(c, cred) ==
    LET wrap == SSPluginWrapper(c)
    IN  [Offer("shadowsocks", cred) EXCEPT
            !.wrap = wrap, !.plugin = IF wrap = "none" THEN c.plugin ELSE "none"]

SnellProxy(c, cred) ==
    [BaseProxy(c, cred) EXCEPT !.plugin = c.plugin, !.wrap = SnellWrapper(c)]

\* A vision flow forces tls.
VLESSProxy(c, cred) ==
    ApplyClientWrappers([BaseProxy(c, cred) EXCEPT !.flow = c.flow,
                                                   !.tls = @ \/ c.flow], c)

StreamProxy(c, cred) == ApplyClientWrappers(BaseProxy(c, cred), c)

Hysteria2Proxy(c, cred) == [Offer("hysteria2", cred) EXCEPT !.skip = DecideSkipCertVerify(c)]

TUICProxy(c, cred) == [Offer("tuic", cred) EXCEPT !.skip = DecideSkipCertVerify(c)]

PlainProxy(c, cred) == Offer(c.proto, cred)

Proxy(c, cred) ==
    CASE c.proto = "shadowsocks"                         -> ShadowsocksProxy(c, cred)
      [] c.proto = "snell"                               -> SnellProxy(c, cred)
      [] c.proto = "vless"                               -> VLESSProxy(c, cred)
      [] c.proto \in {"vmess", "trojan", "anytls"}       -> StreamProxy(c, cred)
      [] c.proto = "hysteria2"                           -> Hysteria2Proxy(c, cred)
      [] c.proto \in {"tuic", "tuic-v4", "tuic-v5"}      -> TUICProxy(c, cred)
      [] c.proto = "trusttunnel"                         -> BaseProxy(c, cred)
      [] c.proto \in {"shadowquic", "mieru", "sudoku"}   -> PlainProxy(c, cred)

\* Shadowsocks is refused when more than one password would be exported.
ListenerToProxies(c, creds) ==
    LET used == ExportCredentials(c, creds)
    IN  IF c.proto = "shadowsocks" /\ Cardinality(used) > 1 THEN {}
        ELSE {Proxy(c, cred) : cred \in used}

-----------------------------------------------------------------------------
(* sing-box: a translation of the Mihomo proxies. *)

SingboxTypes == {"shadowsocks", "vmess", "vless", "trojan", "hysteria2", "tuic", "anytls"}

NeedsSingboxTLS(o) == o.kind \in ImpliedTLS \/ o.tls \/ o.reality

\* mihomoProxyToSingbox keeps REALITY, skip, flow and the transport; it has
\* no place for shadow-tls, restls, jls or tlsmirror beside a plugin.
MihomoProxyToSingbox(o) ==
    [o EXCEPT !.wrap   = IF o.kind = "shadowsocks" THEN @ ELSE "none",
              !.mirror = FALSE,
              !.tls    = NeedsSingboxTLS(o)]

GenerateUserSingboxSubscription(c, grant, u) ==
    {MihomoProxyToSingbox(o) : o \in {p \in ListenerToProxies(c, SubscriptionCredentials(c, grant, u)) :
                                          p.kind \in SingboxTypes}}

-----------------------------------------------------------------------------
(* What the core accepts (the core is external: this is the reading of its *)
(* documentation the exporters' comments give).                            *)

\* A listener speaks TLS when it has a certificate, REALITY or a wrapper.
CoreTLS(l) == l.cert # "none" \/ l.reality \/ l.wrap # "none"

\* A tlsmirror listener dials through its own cover connection, and the
\* client's tls switch is not told apart there.
LayersAgree(l, o) ==
    /\ o.reality = l.reality
    /\ o.wrap = l.wrap
    /\ o.mirror = l.mirror
    /\ ~l.mirror => o.tls = (CoreTLS(l) \/ l.kind \in ImpliedTLS)
    /\ l.cert \in Pairs /\ ~l.reality => o.skip

Accepts(l, o) ==
    /\ o.kind = l.kind
    /\ o.cred \in l.creds
    /\ LayersAgree(l, o)
    /\ o.net = l.net /\ o.flow = l.flow /\ o.plugin = l.plugin
=============================================================================
