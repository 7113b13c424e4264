------------------------ MODULE ListenerConfig_proofs ------------------------
(***************************************************************************)
(* Proofs about ListenerConfig: what autofill with validation, start-up    *)
(* and a regeneration make of any configuration.                           *)
(***************************************************************************)
EXTENDS ListenerConfig, TLAPS

Disks == {"none", "own"} \cup Pairs

-----------------------------------------------------------------------------
(* The pair of a configuration *)

LEMMA PairNames ==
  /\ \A cert \in Pairs : cert \notin {"none", "half", "own"}
  /\ \A cert : CompletePair(cert) <=> cert \in Pairs \/ cert = "own"
  BY PairsAssumption DEF CompletePair

\* A pair is restored into an incomplete one's place, and nothing else changes.
LEMMA RestoreFields ==
  ASSUME NEW c \in Configs, NEW disk \in Disks
  PROVE  LET r == RestorePair(c, disk)
         IN  /\ r = [c EXCEPT !.cert = r.cert]
             /\ r \in Configs
             /\ r.cert = IF ~CompletePair(c.cert) /\ disk # "none" THEN disk ELSE c.cert
  BY DEF RestorePair, Configs, Disks

LEMMA EnsureFields ==
  ASSUME NEW c \in Configs, NEW fresh \in Pairs
  PROVE  LET e == EnsureServerCertificate(c, fresh)
         IN  /\ e = [c EXCEPT !.cert = e.cert, !.insecure = e.insecure]
             /\ e \in Configs
             /\ e.cert = IF CompletePair(c.cert) THEN c.cert
                         ELSE IF AutofillNeedsCertificate([c EXCEPT !.cert = "none"])
                              THEN fresh ELSE "none"
             /\ e.insecure => c.insecure
  <1>1. CASE CompletePair(c.cert)
    BY <1>1 DEF EnsureServerCertificate, Configs
  <1>2. CASE ~CompletePair(c.cert) /\ AutofillNeedsCertificate([c EXCEPT !.cert = "none"])
    BY <1>2 DEF EnsureServerCertificate, Configs
  <1>3. CASE ~CompletePair(c.cert) /\ ~AutofillNeedsCertificate([c EXCEPT !.cert = "none"])
    BY <1>3 DEF EnsureServerCertificate, Configs
  <1> QED BY <1>1, <1>2, <1>3

\* Two fields at a time, a change of a typed field keeps the type.
LEMMA CertTyped ==
  ASSUME NEW c \in Configs, NEW k \in {"none", "half", "own"} \cup Pairs, NEW i \in BOOLEAN
  PROVE  [c EXCEPT !.cert = k, !.insecure = i] \in Configs
  BY DEF Configs

LEMMA WrapTyped ==
  ASSUME NEW c \in Configs, NEW w \in Wrappers \cup {"none"}, NEW f \in {"part", "off", "on"}
  PROVE  [c EXCEPT !.wrap = w, !.fill = f] \in Configs
  BY DEF Configs

LEMMA MirrorTyped ==
  ASSUME NEW c \in Configs, NEW m \in {"none", "part", "full"},
         NEW p \in {"none", "obfs", "obfs-part", "kcptun"}
  PROVE  [c EXCEPT !.mirror = m, !.plugin = p] \in Configs
  BY DEF Configs

LEMMA LayerTyped ==
  ASSUME NEW c \in Configs, NEW l \in {"unset", "none", "tls", "reality"}
  PROVE  [c EXCEPT !.layer = l] \in Configs
  BY DEF Configs

LEMMA SanitizeRealityFields ==
  ASSUME NEW c \in Configs
  PROVE  LET r == SanitizeReality(c)
         IN  /\ r \in Configs
             /\ r.proto = c.proto /\ r.auth = c.auth /\ r.reality = c.reality
             /\ r.flag = c.flag /\ r.flow = c.flow /\ r.net = c.net /\ r.plugin = c.plugin
             /\ r.cert = IF c.reality = "none" THEN c.cert ELSE "none"
             /\ r.insecure => c.insecure
             /\ r.wrap \in {c.wrap, "none"} /\ r.mirror \in {c.mirror, "none"}
  <1> DEFINE d == [c EXCEPT !.cert = "none", !.insecure = FALSE]
             e == [d EXCEPT !.wrap = "none", !.fill = "on"]
             g == [e EXCEPT !.mirror = "none", !.plugin = e.plugin]
  <1>1. d \in Configs
    BY CertTyped
  <1>2. e \in Configs
    <2> HIDE DEF d
    <2> QED BY <1>1, WrapTyped
  <1>3. g \in Configs
    <2>1. e.plugin \in {"none", "obfs", "obfs-part", "kcptun"}
      BY <1>2 DEF Configs
    <2> HIDE DEF e
    <2> QED BY <1>2, <2>1, MirrorTyped
  <1>4. c.reality # "none" => SanitizeReality(c) = g
    BY DEF SanitizeReality, Configs
  <1>5. /\ g.proto = c.proto /\ g.auth = c.auth /\ g.reality = c.reality
        /\ g.flag = c.flag /\ g.flow = c.flow /\ g.net = c.net /\ g.plugin = c.plugin
        /\ g.cert = "none" /\ g.insecure = FALSE /\ g.wrap = "none" /\ g.mirror = "none"
    BY DEF Configs
  <1> HIDE DEF g
  <1>6. CASE c.reality = "none"
    BY <1>6 DEF SanitizeReality
  <1>7. CASE c.reality # "none"
    BY <1>3, <1>4, <1>5, <1>7
  <1> QED BY <1>6, <1>7

LEMMA SanitizeFields ==
  ASSUME NEW c \in Configs
  PROVE  LET s == SanitizeServerConfig(c)
         IN  /\ s \in Configs
             /\ s.proto = c.proto /\ s.auth = c.auth /\ s.reality = c.reality
             /\ s.flag = c.flag /\ s.flow = c.flow /\ s.net = c.net
             /\ s.layer = "unset" /\ s.fill # "part" /\ s.mirror # "part"
             /\ s.cert = IF c.reality = "none" THEN c.cert ELSE "none"
             /\ s.insecure => c.insecure
             /\ s.wrap \in {c.wrap, "none"} /\ s.mirror \in {c.mirror, "none"}
             /\ s.plugin = IF c.plugin = "obfs-part" /\ c.proto = "snell"
                           THEN "none" ELSE c.plugin
  <1> DEFINE r == SanitizeReality(c)
             w == IF r.fill = "part" THEN "none" ELSE r.wrap
             f == IF r.fill = "part" THEN "on" ELSE r.fill
             m == IF r.mirror = "part" THEN "none" ELSE r.mirror
             p == IF r.plugin = "obfs-part" /\ r.proto = "snell" THEN "none" ELSE r.plugin
             i == r.insecure /\ ~CompletePair(r.cert)
             r1 == [r EXCEPT !.cert = r.cert, !.insecure = i]
             r2 == [r1 EXCEPT !.wrap = w, !.fill = f]
             r3 == [r2 EXCEPT !.mirror = m, !.plugin = p]
             r4 == [r3 EXCEPT !.layer = "unset"]
  <1>1. /\ r \in Configs
        /\ r.proto = c.proto /\ r.auth = c.auth /\ r.reality = c.reality
        /\ r.flag = c.flag /\ r.flow = c.flow /\ r.net = c.net /\ r.plugin = c.plugin
        /\ r.cert = IF c.reality = "none" THEN c.cert ELSE "none"
        /\ r.insecure => c.insecure
        /\ r.wrap \in {c.wrap, "none"} /\ r.mirror \in {c.mirror, "none"}
    BY SanitizeRealityFields
  <1> HIDE DEF r
  <1>2. SanitizeServerConfig(c) = r4
    BY <1>1 DEF SanitizeServerConfig, Configs, r
  <1>3. /\ w \in {r.wrap, "none"} /\ w \in Wrappers \cup {"none"}
        /\ f \in {"part", "off", "on"} /\ f # "part"
        /\ m \in {r.mirror, "none"} /\ m \in {"none", "part", "full"} /\ m # "part"
        /\ p \in {"none", "obfs", "obfs-part", "kcptun"}
        /\ i \in BOOLEAN /\ (i => r.insecure)
        /\ r.cert \in {"none", "half", "own"} \cup Pairs
    BY <1>1 DEF Configs
  <1>4. r4 \in Configs
    <2> HIDE DEF w, f, m, p, i
    <2>1. r1 \in Configs
      BY <1>1, <1>3, CertTyped
    <2>2. r2 \in Configs
      <3> HIDE DEF r1
      <3> QED BY <2>1, <1>3, WrapTyped
    <2>3. r3 \in Configs
      <3> HIDE DEF r2
      <3> QED BY <2>2, <1>3, MirrorTyped
    <2> HIDE DEF r3
    <2> QED BY <2>3, LayerTyped
  <1>5. /\ r4.proto = r.proto /\ r4.auth = r.auth /\ r4.reality = r.reality
        /\ r4.flag = r.flag /\ r4.flow = r.flow /\ r4.net = r.net
        /\ r4.layer = "unset" /\ r4.fill = f /\ r4.mirror = m
        /\ r4.cert = r.cert /\ r4.insecure = i /\ r4.wrap = w /\ r4.plugin = p
    <2> HIDE DEF w, f, m, p, i
    <2> QED BY <1>1 DEF Configs
  <1>6. p = IF c.plugin = "obfs-part" /\ c.proto = "snell" THEN "none" ELSE c.plugin
    BY <1>1
  <1> HIDE DEF r4, w, f, m, p, i
  <1> QED BY <1>1, <1>2, <1>3, <1>4, <1>5, <1>6

LEMMA IncompleteFields ==
  ASSUME NEW c \in Configs
  PROVE  LET s == SanitizeIncompleteWrappers(c)
         IN  /\ s \in Configs
             /\ s.proto = c.proto /\ s.auth = c.auth /\ s.reality = c.reality
             /\ s.flag = c.flag /\ s.flow = c.flow /\ s.net = c.net
             /\ s.layer = c.layer /\ s.fill = "on" /\ s.mirror # "part"
             /\ s.cert = c.cert /\ s.insecure = c.insecure
             /\ s.wrap \in {c.wrap, "none"} /\ s.mirror \in {c.mirror, "none"}
             /\ s.plugin = IF c.plugin = "obfs-part" /\ c.proto = "snell"
                           THEN "none" ELSE c.plugin
  <1> DEFINE keep == Wrapped(c) /\ c.fill = "on"
             w == IF keep THEN c.wrap ELSE "none"
             f == IF keep THEN c.fill ELSE "on"
             m == IF c.mirror = "part" THEN "none" ELSE c.mirror
             p == IF c.plugin = "obfs-part" /\ c.proto = "snell" THEN "none" ELSE c.plugin
             d == [c EXCEPT !.wrap = w, !.fill = f]
             e == [d EXCEPT !.mirror = m, !.plugin = p]
  <1>1. SanitizeIncompleteWrappers(c) = e
    BY DEF SanitizeIncompleteWrappers, Configs
  <1>2. /\ w \in {c.wrap, "none"} /\ w \in Wrappers \cup {"none"}
        /\ f \in {"part", "off", "on"} /\ f = "on"
        /\ m \in {c.mirror, "none"} /\ m \in {"none", "part", "full"} /\ m # "part"
        /\ p \in {"none", "obfs", "obfs-part", "kcptun"}
    BY DEF Configs
  <1>3. e \in Configs
    <2> HIDE DEF w, f, m, p
    <2>1. d \in Configs
      BY <1>2, WrapTyped
    <2> HIDE DEF d
    <2> QED BY <2>1, <1>2, MirrorTyped
  <1>4. /\ e.proto = c.proto /\ e.auth = c.auth /\ e.reality = c.reality
        /\ e.flag = c.flag /\ e.flow = c.flow /\ e.net = c.net
        /\ e.layer = c.layer /\ e.fill = f /\ e.mirror = m
        /\ e.cert = c.cert /\ e.insecure = c.insecure /\ e.wrap = w /\ e.plugin = p
    <2> HIDE DEF w, f, m, p
    <2> QED BY DEF Configs
  <1> HIDE DEF e, w, f, m
  <1> QED BY <1>1, <1>2, <1>3, <1>4

-----------------------------------------------------------------------------
(* A save *)

\* What autofill leaves of a form: its pair is the form's, else the one on
\* disk, else a new one; or it has none.
LEMMA AutofillFields ==
  ASSUME NEW form \in Configs, NEW disk \in Disks, NEW fresh \in Pairs
  PROVE  LET a == AutofillListenerDefaults(form, disk, fresh)
         IN  /\ a \in Configs
             /\ a.proto = form.proto /\ a.reality = form.reality
             /\ a.auth = AutofillAuth(form.proto, form.auth)
             /\ a.layer = "unset" /\ a.fill # "part" /\ a.mirror # "part"
             /\ a.plugin = "obfs-part" => a.proto # "snell"
             /\ \/ a.cert = "none"
                \/ CompletePair(form.cert) /\ a.cert = form.cert
                \/ ~CompletePair(form.cert) /\ disk # "none" /\ a.cert = disk
                \/ ~CompletePair(form.cert) /\ disk = "none" /\ a.cert = fresh
  <1> DEFINE d == [form EXCEPT !.auth = AutofillAuth(form.proto, form.auth)]
             r == RestorePair(d, disk)
             e == EnsureServerCertificate(r, fresh)
             a == SanitizeServerConfig(e)
  <1>1. AutofillAuth(form.proto, form.auth) \in {"none", "unnamed", "users", "token"}
    BY DEF AutofillAuth, Configs
  <1>2. /\ d \in Configs /\ d.proto = form.proto /\ d.reality = form.reality
        /\ d.auth = AutofillAuth(form.proto, form.auth) /\ d.cert = form.cert
    BY <1>1 DEF Configs
  <1>3. AutofillListenerDefaults(form, disk, fresh) = a
    BY DEF AutofillListenerDefaults, Configs
  <1> HIDE DEF d
  <1>4. /\ r \in Configs /\ r.proto = d.proto /\ r.reality = d.reality /\ r.auth = d.auth
        /\ r.cert = IF ~CompletePair(d.cert) /\ disk # "none" THEN disk ELSE d.cert
    BY <1>2, RestoreFields DEF Configs
  <1> HIDE DEF r
  <1>5. /\ e \in Configs /\ e.proto = r.proto /\ e.reality = r.reality /\ e.auth = r.auth
        /\ CompletePair(r.cert) => e.cert = r.cert
        /\ CompletePair(r.cert) \/ e.cert \in {fresh, "none"}
    <2>1. /\ e = [r EXCEPT !.cert = e.cert, !.insecure = e.insecure]
          /\ e \in Configs
          /\ e.cert = IF CompletePair(r.cert) THEN r.cert
                      ELSE IF AutofillNeedsCertificate([r EXCEPT !.cert = "none"])
                           THEN fresh ELSE "none"
      BY <1>4, EnsureFields
    <2> HIDE DEF e
    <2>2. /\ e.proto = r.proto /\ e.reality = r.reality /\ e.auth = r.auth
      BY <1>4, <2>1 DEF Configs
    <2> QED BY <2>1, <2>2
  <1> HIDE DEF e
  <1>6. /\ a \in Configs /\ a.proto = e.proto /\ a.reality = e.reality /\ a.auth = e.auth
        /\ a.layer = "unset" /\ a.fill # "part" /\ a.mirror # "part"
        /\ a.cert \in {e.cert, "none"}
        /\ a.plugin = "obfs-part" => a.proto # "snell"
    BY <1>5, SanitizeFields
  <1> HIDE DEF a
  <1>7. disk # "none" => CompletePair(disk)
    BY DEF Disks, CompletePair
  <1> QED BY <1>2, <1>3, <1>4, <1>5, <1>6, <1>7

\* A form that autofill accepts and the validation lets through is shaped.
LEMMA SavedIsShaped ==
  ASSUME NEW form \in Configs, NEW disk \in Disks, NEW fresh \in Pairs,
         ~AutofillRefuses(form),
         ValidateModel(AutofillListenerDefaults(form, disk, fresh))
  PROVE  Shaped(AutofillListenerDefaults(form, disk, fresh))
  <1> DEFINE a == AutofillListenerDefaults(form, disk, fresh)
  <1>1. /\ a \in Configs
        /\ a.proto = form.proto /\ a.reality = form.reality
        /\ a.auth = AutofillAuth(form.proto, form.auth)
        /\ a.layer = "unset" /\ a.fill # "part" /\ a.mirror # "part"
        /\ a.plugin = "obfs-part" => a.proto # "snell"
        /\ a.cert = "none" \/ CompletePair(a.cert)
    BY AutofillFields, PairNames DEF Disks
  <1>2. SchemaAdmits(a) /\ UserRowsValid(a)
    BY DEF ValidateModel, ProtocolValid
  <1> HIDE DEF a
  <1>3. a.auth = IF a.proto = "tuic-v4" THEN "token" ELSE "users"
    <2>1. a.proto \in Protocols
      BY <1>1 DEF Configs
    <2>2. CASE a.proto \in StreamProtocols
      BY <1>2, <2>2 DEF UserRowsValid, StreamProtocols
    <2>3. CASE a.proto \notin StreamProtocols
      BY <1>1, <2>1, <2>3 DEF AutofillAuth, StreamProtocols, Protocols
    <2> QED BY <2>2, <2>3
  <1>4. a.cert # "half"
    BY <1>1, PairNames
  <1>5. a.reality # "bare"
    BY <1>1 DEF AutofillRefuses, NeedsReality
  <1> QED BY <1>1, <1>2, <1>3, <1>4, <1>5 DEF Shaped, a

-----------------------------------------------------------------------------
(* Start-up *)

\* Start-up puts the pair on disk in a missing one's place.
LEMMA HydratedFields ==
  ASSUME NEW c, Shaped(c), NEW disk \in Disks
  PROVE  /\ Shaped(Hydrated(c, disk))
         /\ Hydrated(c, disk).cert \in {c.cert, disk}
  <1>1. c \in Configs
    BY DEF Shaped
  <1>2. CASE c.proto \in CertProtocols /\ ~CompletePair(c.cert) /\ disk # "none"
    <2>1. Hydrated(c, disk) = [c EXCEPT !.cert = disk]
      BY <1>2 DEF Hydrated, RestoreSupportedPair, RestorePair
    <2>2. disk \in {"own"} \cup Pairs /\ disk # "half"
      BY <1>2, PairNames DEF Disks
    <2> DEFINE d == [c EXCEPT !.cert = disk]
    <2>3. /\ d \in Configs /\ d.cert = disk
          /\ d.proto = c.proto /\ d.auth = c.auth /\ d.reality = c.reality
          /\ d.wrap = c.wrap /\ d.fill = c.fill /\ d.mirror = c.mirror
          /\ d.layer = c.layer /\ d.insecure = c.insecure /\ d.flow = c.flow
          /\ d.net = c.net /\ d.plugin = c.plugin
      BY <1>1, <2>2 DEF Configs
    <2> HIDE DEF d
    <2>4. SchemaAdmits(d)
      BY <1>2, <2>3 DEF Shaped, SchemaAdmits, Wrapped
    <2>5. Shaped(d)
      BY <2>2, <2>3, <2>4 DEF Shaped
    <2> QED BY <2>1, <2>3, <2>5 DEF d
  <1>3. CASE ~(c.proto \in CertProtocols /\ ~CompletePair(c.cert) /\ disk # "none")
    BY <1>3 DEF Hydrated, RestoreSupportedPair, RestorePair
  <1> QED BY <1>2, <1>3

-----------------------------------------------------------------------------
(* A regeneration *)

\* A stale pair goes, the pair on disk is restored; the rest stays.
LEMMA RestoredFields ==
  ASSUME NEW c, Shaped(c), NEW disk \in Disks
  PROVE  LET r == RestoreSupportedPair(
                      StripUnsupportedCertificate(SanitizeIncompleteWrappers(c)), disk)
         IN  /\ r \in Configs
             /\ r.proto = c.proto /\ r.auth = c.auth /\ r.reality = c.reality
             /\ r.flag = c.flag /\ r.flow = c.flow /\ r.net = c.net
             /\ r.layer = "unset" /\ r.fill = "on" /\ r.mirror # "part"
             /\ r.insecure => c.insecure
             /\ r.wrap \in {c.wrap, "none"} /\ r.mirror \in {c.mirror, "none"}
             /\ r.plugin = c.plugin
             /\ r.cert = IF c.proto \notin CertProtocols THEN "none"
                         ELSE IF ~CompletePair(c.cert) /\ disk # "none" THEN disk ELSE c.cert
  <1> DEFINE s == SanitizeIncompleteWrappers(c)
             t == StripUnsupportedCertificate(s)
             r == RestoreSupportedPair(t, disk)
  <1>1. /\ s \in Configs
        /\ s.proto = c.proto /\ s.auth = c.auth /\ s.reality = c.reality
        /\ s.flag = c.flag /\ s.flow = c.flow /\ s.net = c.net
        /\ s.layer = "unset" /\ s.fill = "on" /\ s.mirror # "part"
        /\ s.cert = c.cert /\ s.insecure = c.insecure
        /\ s.wrap \in {c.wrap, "none"} /\ s.mirror \in {c.mirror, "none"}
        /\ s.plugin = c.plugin
    BY IncompleteFields DEF Shaped
  <1> HIDE DEF s
  <1>2. CASE c.proto \in CertProtocols
    <2>1. r = RestorePair(s, disk)
      BY <1>1, <1>2 DEF StripUnsupportedCertificate, RestoreSupportedPair
    <2>2. /\ r = [s EXCEPT !.cert = r.cert] /\ r \in Configs
          /\ r.cert = IF ~CompletePair(s.cert) /\ disk # "none" THEN disk ELSE s.cert
      BY <1>1, <2>1, RestoreFields
    <2> HIDE DEF r
    <2>3. /\ r.proto = s.proto /\ r.auth = s.auth /\ r.reality = s.reality
          /\ r.flag = s.flag /\ r.flow = s.flow /\ r.net = s.net
          /\ r.layer = s.layer /\ r.fill = s.fill /\ r.mirror = s.mirror
          /\ r.insecure = s.insecure /\ r.wrap = s.wrap /\ r.plugin = s.plugin
      BY <1>1, <2>2 DEF Configs
    <2> QED BY <1>1, <1>2, <2>2, <2>3 DEF r, t, s
  <1>3. CASE c.proto \notin CertProtocols
    <2> DEFINE d == [s EXCEPT !.cert = "none", !.insecure = FALSE]
    <2>1. d \in Configs /\ d.proto = c.proto
      BY <1>1, CertTyped DEF Configs
    <2>2. r = d
      BY <1>1, <1>3, <2>1 DEF StripUnsupportedCertificate, RestoreSupportedPair
    <2>3. /\ d.auth = s.auth /\ d.reality = s.reality
          /\ d.flag = s.flag /\ d.flow = s.flow /\ d.net = s.net
          /\ d.layer = s.layer /\ d.fill = s.fill /\ d.mirror = s.mirror
          /\ d.insecure = FALSE /\ d.wrap = s.wrap /\ d.plugin = s.plugin
          /\ d.cert = "none"
      BY <1>1 DEF Configs
    <2> HIDE DEF d, r
    <2> QED BY <1>1, <1>3, <2>1, <2>2, <2>3 DEF r, t, s
  <1> QED BY <1>2, <1>3

LEMMA MaterialFields ==
  ASSUME NEW c \in Configs, NEW fresh \in Pairs
  PROVE  LET e == EnsureListenerTLSMaterial(c, fresh)
         IN  /\ e = [c EXCEPT !.cert = e.cert, !.insecure = e.insecure]
             /\ e \in Configs
             /\ e.cert = IF c.proto \notin CertProtocols \/ CompletePair(c.cert) THEN c.cert
                         ELSE IF ListenerProtocolNeedsCert([c EXCEPT !.cert = "none"])
                              THEN fresh ELSE "none"
             /\ e.insecure => c.insecure
             /\ c.proto \in CertProtocols /\ CompletePair(e.cert) => ~e.insecure
             /\ c.proto \in CertProtocols /\ e.cert = "none" => e.insecure = c.insecure
  <1> DEFINE need == ListenerProtocolNeedsCert([c EXCEPT !.cert = "none"])
  <1>1. CASE c.proto \notin CertProtocols
    BY <1>1 DEF EnsureListenerTLSMaterial, Configs
  <1>2. CASE c.proto \in CertProtocols /\ CompletePair(c.cert)
    <2>1. EnsureListenerTLSMaterial(c, fresh) = [c EXCEPT !.insecure = FALSE]
      BY <1>2 DEF EnsureListenerTLSMaterial
    <2> QED BY <1>2, <2>1, PairNames DEF Configs
  <1>3. CASE c.proto \in CertProtocols /\ ~CompletePair(c.cert) /\ need
    <2>1. EnsureListenerTLSMaterial(c, fresh) = [c EXCEPT !.cert = fresh, !.insecure = FALSE]
      BY <1>3 DEF EnsureListenerTLSMaterial
    <2> HIDE DEF need
    <2> QED BY <1>3, <2>1, PairNames DEF Configs, need
  <1>4. CASE c.proto \in CertProtocols /\ ~CompletePair(c.cert) /\ ~need
    <2>1. EnsureListenerTLSMaterial(c, fresh) = [c EXCEPT !.cert = "none"]
      BY <1>4 DEF EnsureListenerTLSMaterial
    <2> HIDE DEF need
    <2> QED BY <1>4, <2>1, PairNames DEF Configs, need
  <1> QED BY <1>1, <1>2, <1>3, <1>4

\* generateListeners secures every shaped row: what it writes back and compiles
\* has a pair or says how it does without, and the pair is new only when
\* neither the row nor the disk has one (generator.go:215, tls_ensure.go:15).
THEOREM RegenerationSecures ==
  ASSUME NEW c, Shaped(c), NEW disk \in Disks, NEW fresh \in Pairs
  PROVE  LET g == Regenerated(c, disk, fresh)
         IN  /\ Secured(g)
             /\ g.proto = c.proto
             /\ \/ g.cert = "none"
                \/ CompletePair(c.cert) /\ g.cert = c.cert
                \/ ~CompletePair(c.cert) /\ disk # "none" /\ g.cert = disk
                \/ ~CompletePair(c.cert) /\ disk = "none" /\ g.cert = fresh
  <1> DEFINE r == RestoreSupportedPair(
                      StripUnsupportedCertificate(SanitizeIncompleteWrappers(c)), disk)
             need == ListenerProtocolNeedsCert([r EXCEPT !.cert = "none"])
             g == EnsureListenerTLSMaterial(r, fresh)
  <1>1. /\ r \in Configs
        /\ r.proto = c.proto /\ r.auth = c.auth /\ r.reality = c.reality
        /\ r.flow = c.flow /\ r.net = c.net
        /\ r.layer = "unset" /\ r.fill = "on" /\ r.mirror # "part"
        /\ r.insecure => c.insecure
        /\ r.wrap \in {c.wrap, "none"} /\ r.mirror \in {c.mirror, "none"}
        /\ r.plugin = c.plugin
        /\ r.cert = IF c.proto \notin CertProtocols THEN "none"
                    ELSE IF ~CompletePair(c.cert) /\ disk # "none" THEN disk ELSE c.cert
    BY RestoredFields
  <1>2. Regenerated(c, disk, fresh) = g
    BY DEF Regenerated
  <1> HIDE DEF r
  <1>3. /\ g = [r EXCEPT !.cert = g.cert, !.insecure = g.insecure]
        /\ g \in Configs
        /\ g.cert = IF r.proto \notin CertProtocols \/ CompletePair(r.cert) THEN r.cert
                    ELSE IF need THEN fresh ELSE "none"
        /\ g.insecure => r.insecure
        /\ r.proto \in CertProtocols /\ CompletePair(g.cert) => ~g.insecure
        /\ r.proto \in CertProtocols /\ g.cert = "none" => g.insecure = r.insecure
    BY <1>1, MaterialFields
  <1>4. r.proto \in CertProtocols =>
          need \/ r.insecure \/ r.reality # "none" \/ Wrapped(r) \/ r.mirror # "none"
    <2>1. LET n == [r EXCEPT !.cert = "none"]
          IN  /\ n.proto = r.proto /\ n.reality = r.reality /\ n.insecure = r.insecure
              /\ n.layer = r.layer /\ n.wrap = r.wrap /\ n.mirror = r.mirror
      BY <1>1 DEF Configs
    <2> QED BY <1>1, <2>1 DEF ListenerProtocolNeedsCert, Wrapped
  <1> HIDE DEF g, need
  <1>5. /\ g.proto = r.proto /\ g.auth = r.auth /\ g.reality = r.reality
        /\ g.wrap = r.wrap /\ g.fill = r.fill /\ g.mirror = r.mirror
        /\ g.layer = r.layer /\ g.flow = r.flow /\ g.net = r.net /\ g.plugin = r.plugin
    BY <1>1, <1>3 DEF Configs
  <1>6. /\ g.mirror \in {"none", "full"} /\ g.reality \in {"none", "full"}
        /\ c.cert # "half" /\ c.mirror # "part"
    BY <1>1, <1>3, <1>5 DEF Shaped, Configs
  <1>7. disk # "none" => CompletePair(disk) /\ disk # "half"
    BY PairNames DEF Disks
  <1>8. CompletePair(fresh) /\ fresh # "half" /\ ~CompletePair("none")
    BY PairNames
  <1>9. g.cert # "half"
    BY <1>1, <1>3, <1>6, <1>7, <1>8
  <1>10. SchemaAdmits(g)
    <2>1. g.cert # "none" => g.proto \in CertProtocols
      BY <1>1, <1>3, <1>5
    <2>2. (g.insecure => c.insecure) /\ (Wrapped(g) => Wrapped(c))
          /\ (g.mirror # "none" => c.mirror # "none")
      BY <1>1, <1>3, <1>5 DEF Wrapped
    <2>3. /\ c.reality # "none" => c.proto \in StreamProtocols
          /\ Wrapped(c) => c.proto \in WrapProtocols
          /\ c.mirror # "none" => c.proto = "vmess"
          /\ c.insecure => c.proto \in {"vless", "trojan", "anytls"}
          /\ c.flow => c.proto = "vless"
          /\ c.net \in TransportsOf(c.proto)
          /\ c.plugin \in {"obfs", "obfs-part"} => c.proto \in {"shadowsocks", "snell"}
          /\ c.plugin = "kcptun" => c.proto = "shadowsocks"
          /\ c.auth = "token" => c.proto \in {"tuic", "tuic-v4"}
          /\ c.proto = "tuic-v4" => c.auth \in {"none", "token"}
      BY DEF Shaped, SchemaAdmits
    <2> QED BY <1>1, <1>5, <2>1, <2>2, <2>3 DEF SchemaAdmits
  <1>11. Shaped(g)
    BY <1>1, <1>3, <1>5, <1>6, <1>9, <1>10 DEF Shaped
  <1>12. ASSUME g.proto \in CertProtocols
         PROVE  IF CompletePair(g.cert) THEN ~g.insecure
                ELSE g.insecure \/ g.reality = "full" \/ Wrapped(g) \/ g.mirror = "full"
    <2>1. CASE CompletePair(g.cert)
      BY <1>3, <1>5, <1>12, <2>1
    <2>2. CASE ~CompletePair(g.cert)
      <3>1. ~need /\ g.cert = "none"
        BY <1>3, <1>5, <1>8, <1>12, <2>2
      <3> QED BY <1>3, <1>4, <1>5, <1>6, <1>12, <2>2, <3>1 DEF Wrapped
    <2> QED BY <2>1, <2>2
  <1>13. Secured(g)
    BY <1>1, <1>5, <1>11, <1>12 DEF Secured
  <1>14. \/ g.cert = "none"
         \/ CompletePair(c.cert) /\ g.cert = c.cert
         \/ ~CompletePair(c.cert) /\ disk # "none" /\ g.cert = disk
         \/ ~CompletePair(c.cert) /\ disk = "none" /\ g.cert = fresh
    BY <1>1, <1>3, <1>7, <1>8
  <1> QED BY <1>1, <1>2, <1>5, <1>13, <1>14

\* The write-back converges: what one regeneration has written, the next one
\* leaves as it is, whatever pair it could mint (generator.go:281 writes a row
\* back only when sanitizing changed it).
THEOREM RegenerationSettles ==
  ASSUME NEW c, Secured(c), NEW disk \in Disks, NEW fresh \in Pairs,
         c.proto \in CertProtocols /\ c.cert = "none" => disk = "none"
  PROVE  Regenerated(c, disk, fresh) = c
  <1>1. /\ c \in Configs /\ SchemaAdmits(c)
        /\ c.layer = "unset" /\ c.fill = "on" /\ c.mirror # "part" /\ c.cert # "half"
        /\ c.proto = "snell" => c.plugin # "obfs-part"
    BY DEF Secured, Shaped
  <1>2. /\ c.cert # "none" => c.proto \in CertProtocols
        /\ c.insecure => c.proto \in {"vless", "trojan", "anytls"}
    BY <1>1 DEF SchemaAdmits
  <1>3. CompletePair(c.cert) \/ c.cert = "none"
    BY <1>1, PairNames DEF Configs
  <1>4. SanitizeIncompleteWrappers(c) = c
    <2>1. ASSUME NEW w, w = c.wrap, NEW f, f = c.fill, NEW m, m = c.mirror,
                 NEW p, p = c.plugin
          PROVE  [c EXCEPT !.wrap = w, !.fill = f, !.mirror = m, !.plugin = p] = c
      BY <1>1, <2>1 DEF Configs
    <2> DEFINE keep == Wrapped(c) /\ c.fill = "on"
               w == IF keep THEN c.wrap ELSE "none"
               f == IF keep THEN c.fill ELSE "on"
               m == IF c.mirror = "part" THEN "none" ELSE c.mirror
               p == IF c.plugin = "obfs-part" /\ c.proto = "snell" THEN "none" ELSE c.plugin
    <2>2. SanitizeIncompleteWrappers(c) =
              [c EXCEPT !.wrap = w, !.fill = f, !.mirror = m, !.plugin = p]
      BY <1>1 DEF SanitizeIncompleteWrappers, Configs
    <2>3. w = c.wrap /\ f = c.fill /\ m = c.mirror /\ p = c.plugin
      BY <1>1 DEF Wrapped
    <2> HIDE DEF w, f, m, p
    <2> QED BY <2>1, <2>2, <2>3
  <1>5. StripUnsupportedCertificate(c) = c
    <2>1. CASE c.proto \in CertProtocols
      BY <2>1 DEF StripUnsupportedCertificate
    <2>2. CASE c.proto \notin CertProtocols
      <3>1. c.cert = "none" /\ c.insecure = FALSE
        BY <1>1, <1>2, <2>2 DEF CertProtocols, Configs
      <3> QED BY <1>1, <2>2, <3>1 DEF StripUnsupportedCertificate, Configs
    <2> QED BY <2>1, <2>2
  <1>6. RestoreSupportedPair(c, disk) = c
    BY <1>3 DEF RestoreSupportedPair, RestorePair
  <1>7. EnsureListenerTLSMaterial(c, fresh) = c
    <2>1. CASE c.proto \notin CertProtocols
      BY <2>1 DEF EnsureListenerTLSMaterial
    <2>2. CASE c.proto \in CertProtocols /\ CompletePair(c.cert)
      <3>1. c.insecure = FALSE
        BY <1>1, <2>2 DEF Secured, Configs
      <3> QED BY <1>1, <2>2, <3>1 DEF EnsureListenerTLSMaterial, Configs
    <2>3. CASE c.proto \in CertProtocols /\ ~CompletePair(c.cert)
      <3>1. c.insecure \/ c.reality = "full" \/ Wrapped(c) \/ c.mirror = "full"
        BY <2>3 DEF Secured
      <3>2. [c EXCEPT !.cert = "none"] = c
        BY <1>1, <1>3, <2>3 DEF Configs
      <3>3. ~ListenerProtocolNeedsCert(c)
        BY <1>2, <3>1 DEF ListenerProtocolNeedsCert, StreamProtocols
      <3> QED BY <2>3, <3>2, <3>3 DEF EnsureListenerTLSMaterial
    <2> QED BY <2>1, <2>2, <2>3
  <1> QED BY <1>4, <1>5, <1>6, <1>7 DEF Regenerated

-----------------------------------------------------------------------------
(* Compilation *)

LEMMA CredentialTypes ==
  ASSUME NEW c \in Configs, NEW grant
  PROVE  /\ ActiveCredentials(c, grant) \in SUBSET (Users \cup {"config"})
         /\ \A creds \in SUBSET (Users \cup {"config"}) :
                CompiledCredentials(c, creds) \in SUBSET (Users \cup {"config"})
  <1>1. ActiveCredentials(c, grant) \in SUBSET (Users \cup {"config"})
    BY DEF ActiveCredentials, ConfigCredentials
  <1>2. ASSUME NEW creds \in SUBSET (Users \cup {"config"})
        PROVE  CompiledCredentials(c, creds) \in SUBSET (Users \cup {"config"})
    BY <1>2 DEF CompiledCredentials, CompileShadowsocks, CompileTUIC, UsersAndOwn,
                UsersOrOwn, OwnCredentials
  <1> QED BY <1>1, <1>2

LEMMA CompileTyped ==
  ASSUME NEW c, Secured(c), NEW creds \in SUBSET (Users \cup {"config"})
  PROVE  Compile(c, creds) \in Layers
  <1>1. c \in Configs /\ c.cert # "half"
    BY DEF Secured, Shaped
  <1>2. /\ MihomoType(c.proto) \in Protocols
        /\ c.cert \in {"none", "own"} \cup Pairs
        /\ c.wrap \in Wrappers \cup {"none"} /\ c.net \in Transports
        /\ c.insecure \in BOOLEAN /\ c.flow \in BOOLEAN
        /\ c.plugin \in {"none", "obfs", "obfs-part", "kcptun"}
    BY <1>1 DEF MihomoType, Protocols, Configs
  <1>3. CompiledCredentials(c, creds) \in SUBSET (Users \cup {"config"})
    BY <1>1, CredentialTypes
  <1> QED BY <1>2, <1>3 DEF Compile, Layers

\* The core is never handed a bare listener of a protocol that needs TLS.
LEMMA CompiledNotBare ==
  ASSUME NEW c, Secured(c), NEW creds,
         Compile(c, creds).kind \in {MihomoType(p) : p \in CertProtocols},
         ~Compile(c, creds).insecure
  PROVE  LET l == Compile(c, creds)
         IN  l.cert # "none" \/ l.reality \/ l.wrap # "none" \/ l.mirror
  <1>1. MihomoType(c.proto) \in {MihomoType(p) : p \in CertProtocols} /\ ~c.insecure
    BY DEF Compile
  <1>2. c.proto \in CertProtocols
    BY <1>1 DEF MihomoType, CertProtocols
  <1>3. \/ CompletePair(c.cert) \/ c.reality = "full" \/ Wrapped(c) \/ c.mirror = "full"
    BY <1>1, <1>2 DEF Secured
  <1>4. CompletePair(c.cert) => c.cert # "none"
    BY PairNames
  <1> QED BY <1>3, <1>4 DEF Compile, Wrapped
=============================================================================
