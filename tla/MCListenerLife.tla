--------------------------- MODULE MCListenerLife ---------------------------
(* ListenerLife with two users and the configurations below: for each *)
(* protocol a plain one and its variations, one thing at a time. *)
EXTENDS ListenerLife

CONSTANTS u1, u2, p1, p2, p3

Plain(p) ==
    [proto |-> p, auth |-> IF p = "tuic-v4" THEN "token" ELSE "users",
     cert |-> "none", reality |-> "none", wrap |-> "none", fill |-> "on",
     mirror |-> "none", layer |-> "unset", insecure |-> FALSE, flag |-> FALSE,
     flow |-> FALSE, net |-> "tcp", plugin |-> "none"]

Variations(c) ==
    {c,
     [c EXCEPT !.auth = "none"], [c EXCEPT !.auth = "token"],
     [c EXCEPT !.cert = "own"], [c EXCEPT !.cert = "half"],
     [c EXCEPT !.reality = "full", !.layer = "reality", !.flow = c.proto = "vless"],
     [c EXCEPT !.reality = "bare", !.layer = "reality"],
     [c EXCEPT !.layer = "none"], [c EXCEPT !.insecure = TRUE],
     [c EXCEPT !.cert = "own", !.flag = TRUE],
     [c EXCEPT !.mirror = "full"], [c EXCEPT !.mirror = "part"]}
    \cup {[c EXCEPT !.wrap = w] : w \in Wrappers}
    \cup {[c EXCEPT !.wrap = w, !.fill = "part"] : w \in {"res-tls"}}
    \cup {[c EXCEPT !.wrap = w, !.fill = "off"] : w \in {"shadow-tls", "jls"}}
    \cup {[c EXCEPT !.net = n] : n \in Transports}
    \cup {[c EXCEPT !.plugin = x] : x \in {"obfs", "obfs-part", "kcptun"}}

MCForms == {c \in UNION {Variations(Plain(p)) : p \in Protocols} : SchemaAdmits(c)}
=============================================================================
