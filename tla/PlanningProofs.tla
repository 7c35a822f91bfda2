---------------------------- MODULE PlanningProofs ----------------------------
(* What the provider does to an access policy document between the             *)
(* configuration, the wire and the state never changes what it lets in; an     *)
(* apply leaves the settings of a PostgreSQL instance as its plan showed them; *)
(* and what an IAM policy document asks for.                                   *)
EXTENDS PolicyDocuments, PlanChecks, TLAPS

-----------------------------------------------------------------------------
(* Paths.                                                                      *)

LEMMA CanonTokens ==
  ASSUME NEW path, NEW i \in DOMAIN path
  PROVE  /\ DOMAIN Canon(path) = DOMAIN path
         /\ Canon(path)[i].byte = path[i].byte
         /\ Canon(path)[i].encoded = (path[i].byte \notin Unreserved)
BY DEF Canon

LEMMA CanonOnce ==
  ASSUME NEW path
  PROVE  /\ Bytes(Canon(path)) = Bytes(path)
         /\ Canon(Canon(path)) = Canon(path)
<1>1. Bytes(Canon(path)) = Bytes(path)
  BY DEF Canon, Bytes
<1>2. Canon(Canon(path)) = Canon(path)
  BY DEF Canon
<1> QED
  BY <1>1, <1>2

\* CanonicalPath is stable: what it returns is accepted and returned as it is,
\* so that a canonical answer of the API is never rewritten or refused.
THEOREM CanonicalStable ==
  ASSUME NEW S, NEW path \in Seq(S), Accepted(path)
  PROVE  Accepted(CanonicalPath(path)) /\ CanonicalPath(CanonicalPath(path)) = CanonicalPath(path)
<1> DEFINE c == Canon(path)
<1>1. Bytes(c) = Bytes(path) /\ Canon(c) = c
  BY CanonOnce
<1>2. DOMAIN c = DOMAIN path /\ Len(c) = Len(path)
  <2>1. c \in Seq({c[i] : i \in DOMAIN path}) /\ Len(c) = Len(path)
    BY DEF Canon
  <2> QED
    BY <2>1 DEF Canon
<1>3. \A i \in DOMAIN path : c[i].byte = path[i].byte /\ c[i].encoded = (path[i].byte \notin Unreserved)
  BY CanonTokens
<1>4. Len(c) > 0 /\ Plain(c[1], Slash)
  <2>1. Len(path) > 0 /\ path[1].byte = Slash
    BY DEF Accepted, Plain
  <2>2. 1 \in DOMAIN path
    BY <2>1
  <2>3. c[1].byte = Slash /\ ~c[1].encoded
    BY <1>3, <2>1, <2>2 DEF Unreserved, Slash
  <2> QED
    BY <1>2, <2>1, <2>3 DEF Plain
<1>5. \A i \in DOMAIN c :
        /\ c[i].byte >= 32
        /\ c[i].byte \notin Ambiguous \cup {Delete, Percent}
        /\ c[i].byte = Slash => ~c[i].encoded
  <2> TAKE i \in DOMAIN c
  <2>1. c[i].byte = path[i].byte /\ c[i].encoded = (path[i].byte \notin Unreserved)
    BY <1>2, <1>3
  <2>2. Slash \in Unreserved
    BY DEF Slash, Unreserved
  <2>3. path[i].byte >= 32 /\ path[i].byte \notin Ambiguous \cup {Delete, Percent}
    BY <1>2 DEF Accepted
  <2> QED
    BY <2>1, <2>2, <2>3
<1>6. Size(c) <= MaxPath /\ ~Shifty(c) /\ Bytes(c) \in UTF8
  BY <1>1 DEF Accepted
<1>7. Accepted(c)
  BY <1>1, <1>4, <1>5, <1>6 DEF Accepted
<1> QED
  BY <1>1, <1>7 DEF CanonicalPath

\* CanonicalPath is faithful: it identifies two accepted spellings exactly if
\* they are the same bytes once decoded, so that no rule moves to another path.
THEOREM CanonicalFaithful ==
  ASSUME NEW p, NEW q, Accepted(p), Accepted(q)
  PROVE  CanonicalPath(p) = CanonicalPath(q) <=> Bytes(p) = Bytes(q)
<1>1. ASSUME Canon(p) = Canon(q) PROVE Bytes(p) = Bytes(q)
  BY <1>1, CanonOnce
<1>2. ASSUME Bytes(p) = Bytes(q) PROVE Canon(p) = Canon(q)
  <2>1. DOMAIN p = DOMAIN q
    BY <1>2 DEF Bytes
  <2>2. \A i \in DOMAIN p : p[i].byte = q[i].byte
    <3> TAKE i \in DOMAIN p
    <3>1. Bytes(p)[i] = p[i].byte /\ Bytes(q)[i] = q[i].byte
      BY <2>1 DEF Bytes
    <3> QED
      BY <1>2, <3>1
  <2> QED
    BY <2>1, <2>2 DEF Canon
<1> QED
  BY <1>1, <1>2 DEF CanonicalPath

-----------------------------------------------------------------------------
(* The documents there are.                                                    *)

Opt(S) == {x \in SUBSET S : Optional(x)}
\* "" is a string, which the provers cannot see of a literal.
Words == {""} \cup STRING
Entry == [parses : BOOLEAN, family : Words, bits : Seq(0..1), length : Nat, spelling : Words]
CIDRs == Opt(Seq(Entry))

LEMMA OptionalCases ==
  ASSUME NEW S, NEW x \in Opt(S), x # {}
  PROVE  \E e \in S : x = {e}
BY DEF Opt, Optional

LEMMA ListedOne ==
  ASSUME NEW list
  PROVE  Listed({list}) = list
BY DEF Listed

LEMMA ListedSeq ==
  ASSUME NEW S, NEW x \in Opt(Seq(S))
  PROVE  Listed(x) \in Seq(S)
<1>1. CASE x = {}
  BY <1>1 DEF Listed
<1>2. CASE x # {}
  <2>1. PICK list \in Seq(S) : x = {list}
    BY <1>2, OptionalCases
  <2> QED
    BY <2>1, ListedOne
<1> QED
  BY <1>1, <1>2

\* omitempty drops an empty list, which reads back as no list.
LEMMA OmitEmpty ==
  ASSUME NEW S, NEW x \in Opt(Seq(S))
  PROVE  NonEmpty(x) \in Opt(Seq(S)) /\ Listed(NonEmpty(x)) = Listed(x)
<1>1. NonEmpty(x) \in Opt(Seq(S))
  BY DEF NonEmpty, Opt, Optional
<1>2. CASE x = {}
  <2>1. NonEmpty(x) = {}
    BY <1>2 DEF NonEmpty
  <2> QED
    BY <1>1, <1>2, <2>1
<1>3. CASE x # {}
  <2>1. PICK list \in Seq(S) : x = {list}
    BY <1>3, OptionalCases
  <2>2. CASE list = <<>>
    <3>1. NonEmpty(x) = {}
      BY <2>1, <2>2 DEF NonEmpty
    <3>2. Listed(NonEmpty(x)) = <<>> /\ Listed(x) = <<>>
      BY <3>1, <2>1, <2>2, ListedOne DEF Listed
    <3> QED
      BY <1>1, <3>2
  <2>3. CASE list # <<>>
    <3>1. NonEmpty(x) = x
      BY <2>1, <2>3 DEF NonEmpty
    <3> QED
      BY <1>1, <3>1
  <2> QED
    BY <2>2, <2>3
<1> QED
  BY <1>2, <1>3

-----------------------------------------------------------------------------
(* Networks.                                                                   *)

\* A network covers what the entry covers that it is made of.
LEMMA MaskCovers ==
  ASSUME NEW e \in Entry, NEW address
  PROVE  Covers(Network(e), address) <=> Covers(e, address)
<1>1. CASE ~e.parses
  BY <1>1 DEF Network
<1>2. CASE e.parses
  <2> DEFINE m == Masked(e)
  <2>1. /\ m.parses = e.parses /\ m.family = e.family /\ m.length = e.length
        /\ m.bits = [i \in DOMAIN e.bits |-> IF i <= e.length THEN e.bits[i] ELSE 0]
    BY DEF Masked, Entry
  <2> HIDE DEF m
  <2>2. DOMAIN m.bits = DOMAIN e.bits /\ \A i \in DOMAIN e.bits : i <= e.length => m.bits[i] = e.bits[i]
    BY <2>1
  <2>3. Covers(m, address) <=> Covers(e, address)
    BY <2>1, <2>2 DEF Covers
  <2> QED
    BY <1>2, <2>3 DEF m, Network
<1> QED
  BY <1>1, <1>2

LEMMA EqualNetworks ==
  ASSUME NEW x \in CIDRs, NEW y \in CIDRs, Networks(x) = Networks(y)
  PROVE  /\ Listed(x) = <<>> <=> Listed(y) = <<>>
         /\ \A e \in Elements(Listed(x)) : \E f \in Elements(Listed(y)) : Network(e) = Network(f)
<1> DEFINE a == Listed(x)
           b == Listed(y)
           na == [i \in DOMAIN a |-> Network(a[i])]
           nb == [i \in DOMAIN b |-> Network(b[i])]
<1>1. a \in Seq(Entry) /\ b \in Seq(Entry)
  BY ListedSeq DEF CIDRs
<1>2. Elements(na) = Elements(nb)
  <2>1. Unique(na) = Unique(nb)
    BY DEF Networks
  <2>2. Unique(na).elements = Elements(na) /\ Unique(nb).elements = Elements(nb)
    BY DEF Unique
  <2> QED
    BY <2>1, <2>2
<1>3. Elements(na) = {Network(a[i]) : i \in DOMAIN a} /\ Elements(nb) = {Network(b[i]) : i \in DOMAIN b}
  BY DEF Elements
<1> HIDE DEF a, b, na, nb
<1>4. a = <<>> <=> DOMAIN a = {}
  BY <1>1
<1>5. b = <<>> <=> DOMAIN b = {}
  BY <1>1
<1>6. DOMAIN a = {} <=> DOMAIN b = {}
  BY <1>2, <1>3
<1>7. \A e \in Elements(a) : \E f \in Elements(b) : Network(e) = Network(f)
  BY <1>2, <1>3 DEF Elements
<1> QED
  BY <1>4, <1>5, <1>6, <1>7 DEF a, b

LEMMA ElementsType ==
  ASSUME NEW S, NEW list \in Seq(S), NEW e \in Elements(list)
  PROVE  e \in S
BY DEF Elements

\* Two lists of networks that compare as equal cover the same addresses.
LEMMA SameNetworks ==
  ASSUME NEW x \in CIDRs, NEW y \in CIDRs, Networks(x) = Networks(y)
  PROVE  /\ Listed(x) = <<>> <=> Listed(y) = <<>>
         /\ \A address : Within(Listed(x), address) <=> Within(Listed(y), address)
<1>1. ASSUME NEW s \in CIDRs, NEW t \in CIDRs, Networks(s) = Networks(t),
             NEW address, Within(Listed(s), address)
      PROVE  Within(Listed(t), address)
  <2>1. PICK e \in Elements(Listed(s)) : Covers(e, address)
    BY <1>1 DEF Within
  <2>2. PICK f \in Elements(Listed(t)) : Network(e) = Network(f)
    BY <1>1, EqualNetworks
  <2>3. e \in Entry /\ f \in Entry
    BY <1>1, ListedSeq, ElementsType DEF CIDRs
  <2>4. Covers(f, address)
    BY <2>1, <2>2, <2>3, MaskCovers
  <2> QED
    BY <2>4 DEF Within
<1>2. Listed(x) = <<>> <=> Listed(y) = <<>>
  BY EqualNetworks
<1>3. \A address : Within(Listed(x), address) <=> Within(Listed(y), address)
  BY <1>1
<1> QED
  BY <1>2, <1>3

LEMMA SameNetworksRead ==
  ASSUME NEW x \in CIDRs
  PROVE  NonEmpty(x) \in CIDRs /\ Networks(NonEmpty(x)) = Networks(x)
BY OmitEmpty DEF CIDRs, Networks

-----------------------------------------------------------------------------
(* The TCP policy.                                                             *)

TCP == [allow_cidrs : CIDRs, deny_cidrs : CIDRs]
L4Written == [enabled : Opt(BOOLEAN), tcp_80 : Opt(TCP), tcp_443 : Opt(TCP)]
L4Docs == [enabled : BOOLEAN, tcp_80 : Opt(TCP), tcp_443 : Opt(TCP)]
Ports == {"tcp_80", "tcp_443"}

\* Whom one port's lists let connect.
Passes(t, peer) ==
  /\ ~Within(Listed(t.deny_cidrs), peer)
  /\ Listed(t.allow_cidrs) # <<>> => Within(Listed(t.allow_cidrs), peer)

LEMMA ConnectsPasses ==
  ASSUME NEW w, NEW port, NEW peer
  PROVE  Connects(w, port, peer) <=> (w.enabled => \A t \in w[port] : Passes(t, peer))
BY DEF Connects, Passes

LEMMA UnrestrictedPasses ==
  ASSUME NEW t, ~Restricts(t), NEW peer
  PROVE  Passes(t, peer)
BY DEF Restricts, Passes, Within, Elements

LEMMA SameTCP ==
  ASSUME NEW x \in Opt(TCP), NEW y \in Opt(TCP), NormalTCP(x) = NormalTCP(y), NEW peer,
         \A t \in x : Passes(t, peer), NEW u \in y
  PROVE  Passes(u, peer)
<1>1. CASE ~Restricts(u)
  BY <1>1, UnrestrictedPasses
<1>2. CASE Restricts(u)
  <2>1. PICK t \in x : /\ Networks(t.allow_cidrs) = Networks(u.allow_cidrs)
                       /\ Networks(t.deny_cidrs) = Networks(u.deny_cidrs)
    <3> DEFINE n(z) == [allow_cidrs |-> Networks(z.allow_cidrs), deny_cidrs |-> Networks(z.deny_cidrs)]
    <3>1. n(u) \in NormalTCP(y)
      BY <1>2 DEF NormalTCP
    <3>2. PICK t \in x : n(t) = n(u)
      BY <3>1 DEF NormalTCP
    <3>3. /\ n(t).allow_cidrs = n(u).allow_cidrs
          /\ n(t).deny_cidrs = n(u).deny_cidrs
      BY <3>2
    <3> QED
      BY <3>3
  <2>2. t \in TCP /\ u \in TCP
    BY DEF Opt
  <2>3. /\ t.allow_cidrs \in CIDRs /\ u.allow_cidrs \in CIDRs
        /\ t.deny_cidrs \in CIDRs /\ u.deny_cidrs \in CIDRs
    BY <2>2 DEF TCP
  <2>4. /\ Listed(t.allow_cidrs) = <<>> <=> Listed(u.allow_cidrs) = <<>>
        /\ Within(Listed(t.allow_cidrs), peer) <=> Within(Listed(u.allow_cidrs), peer)
    BY <2>1, <2>3, SameNetworks
  <2>5. Within(Listed(t.deny_cidrs), peer) <=> Within(Listed(u.deny_cidrs), peer)
    BY <2>1, <2>3, SameNetworks
  <2>6. Passes(t, peer)
    OBVIOUS
  <2> QED
    BY <2>4, <2>5, <2>6 DEF Passes
<1> QED
  BY <1>1, <1>2

\* Two TCP policies that compare as equal filter alike.
LEMMA SameL4 ==
  ASSUME NEW v \in L4Docs, NEW w \in L4Docs, NormalL4(v) = NormalL4(w)
  PROVE  \A port \in Ports : \A peer : Connects(v, port, peer) <=> Connects(w, port, peer)
<1>1. /\ v.enabled = w.enabled
      /\ NormalTCP(v.tcp_80) = NormalTCP(w.tcp_80)
      /\ NormalTCP(v.tcp_443) = NormalTCP(w.tcp_443)
  <2>1. /\ NormalL4(v).enabled = v.enabled /\ NormalL4(w).enabled = w.enabled
        /\ NormalL4(v).tcp_80 = NormalTCP(v.tcp_80) /\ NormalL4(w).tcp_80 = NormalTCP(w.tcp_80)
        /\ NormalL4(v).tcp_443 = NormalTCP(v.tcp_443) /\ NormalL4(w).tcp_443 = NormalTCP(w.tcp_443)
    BY DEF NormalL4
  <2> QED
    BY <2>1
<1>2. /\ v.tcp_80 \in Opt(TCP) /\ w.tcp_80 \in Opt(TCP)
      /\ v.tcp_443 \in Opt(TCP) /\ w.tcp_443 \in Opt(TCP)
  BY DEF L4Docs
<1>3. ASSUME NEW port \in Ports, NEW peer
      PROVE  Connects(v, port, peer) <=> Connects(w, port, peer)
  <2>1. v[port] \in Opt(TCP) /\ w[port] \in Opt(TCP) /\ NormalTCP(v[port]) = NormalTCP(w[port])
    BY <1>1, <1>2, <1>3 DEF Ports
  <2>2. (\A t \in v[port] : Passes(t, peer)) <=> (\A t \in w[port] : Passes(t, peer))
    BY <2>1, SameTCP
  <2> QED
    BY <1>1, <2>2, ConnectsPasses
<1> QED
  BY <1>3

\* What is read back into the state says what the API said.
LEMMA ReadTCP ==
  ASSUME NEW x \in Opt(TCP)
  PROVE  HclTCP(x) \in Opt(TCP) /\ NormalTCP(HclTCP(x)) = NormalTCP(x)
<1> DEFINE h(t) == [allow_cidrs |-> NonEmpty(t.allow_cidrs), deny_cidrs |-> NonEmpty(t.deny_cidrs)]
           n(z) == [allow_cidrs |-> Networks(z.allow_cidrs), deny_cidrs |-> Networks(z.deny_cidrs)]
<1>1. ASSUME NEW t \in x
      PROVE  h(t) \in TCP /\ (Restricts(h(t)) <=> Restricts(t)) /\ n(h(t)) = n(t)
  <2>1. t.allow_cidrs \in CIDRs /\ t.deny_cidrs \in CIDRs
    BY DEF Opt, TCP
  <2>2. /\ NonEmpty(t.allow_cidrs) \in CIDRs /\ Networks(NonEmpty(t.allow_cidrs)) = Networks(t.allow_cidrs)
        /\ NonEmpty(t.deny_cidrs) \in CIDRs /\ Networks(NonEmpty(t.deny_cidrs)) = Networks(t.deny_cidrs)
    BY <2>1, SameNetworksRead
  <2>3. /\ Listed(NonEmpty(t.allow_cidrs)) = Listed(t.allow_cidrs)
        /\ Listed(NonEmpty(t.deny_cidrs)) = Listed(t.deny_cidrs)
    BY <2>1, OmitEmpty DEF CIDRs
  <2> QED
    BY <2>2, <2>3 DEF TCP, Restricts
<1>2. HclTCP(x) = {h(t) : t \in x}
  BY DEF HclTCP
<1>3. HclTCP(x) \in Opt(TCP)
  BY <1>1, <1>2 DEF Opt, Optional
<1>4. NormalTCP(x) = {n(t) : t \in {t \in x : Restricts(t)}}
  BY DEF NormalTCP
<1>5. NormalTCP(HclTCP(x)) = {n(t) : t \in {t \in HclTCP(x) : Restricts(t)}}
  BY DEF NormalTCP
<1> HIDE DEF h, n
<1>6. {n(t) : t \in {t \in HclTCP(x) : Restricts(t)}} = {n(t) : t \in {t \in x : Restricts(t)}}
  BY <1>1, <1>2
<1> QED
  BY <1>3, <1>4, <1>5, <1>6

LEMMA ReadEnabled ==
  ASSUME NEW b \in BOOLEAN
  PROVE  /\ (IF b THEN {TRUE} ELSE {}) \in Opt(BOOLEAN)
         /\ (TRUE \in (IF b THEN {TRUE} ELSE {})) = b
<1>1. CASE b
  BY <1>1 DEF Opt, Optional
<1>2. CASE ~b
  BY <1>2 DEF Opt, Optional
<1> QED
  BY <1>1, <1>2

LEMMA ReadL4 ==
  ASSUME NEW w \in L4Docs
  PROVE  HclL4(w) \in L4Written /\ NormalL4(WireL4(HclL4(w))) = NormalL4(w)
<1>1. w.enabled \in BOOLEAN /\ w.tcp_80 \in Opt(TCP) /\ w.tcp_443 \in Opt(TCP)
  BY DEF L4Docs
<1> DEFINE d == HclL4(w)
           on == IF w.enabled THEN {TRUE} ELSE {}
<1>2. d.enabled = on /\ d.tcp_80 = HclTCP(w.tcp_80) /\ d.tcp_443 = HclTCP(w.tcp_443)
  BY DEF HclL4
<1>3. on \in Opt(BOOLEAN) /\ (TRUE \in on) = w.enabled
  BY <1>1, ReadEnabled
<1>4. HclTCP(w.tcp_80) \in Opt(TCP) /\ HclTCP(w.tcp_443) \in Opt(TCP)
  BY <1>1, ReadTCP
<1>5. d \in L4Written
  BY <1>3, <1>4 DEF L4Written, HclL4
<1>6. /\ WireL4(d).enabled = w.enabled
      /\ WireL4(d).tcp_80 = HclTCP(w.tcp_80)
      /\ WireL4(d).tcp_443 = HclTCP(w.tcp_443)
  BY <1>2, <1>3 DEF WireL4
<1>7. NormalL4(WireL4(d)) = NormalL4(w)
  BY <1>1, <1>6, ReadTCP DEF NormalL4
<1> QED
  BY <1>5, <1>7

LEMMA SentL4 ==
  ASSUME NEW d \in L4Written
  PROVE  WireL4(d) \in L4Docs
BY DEF L4Written, L4Docs, WireL4

\* A refresh of a TCP policy, whatever the state held and whatever the API
\* returns, leaves a policy in the state that filters as the platform does.
THEOREM RefreshTellsL4 ==
  ASSUME NEW v \in Opt(L4Written \cup {Unresolved, Holed}), NEW w \in L4Docs
  PROVE  \E d \in L4Written :
           /\ FromL4(v, {w}) = {d}
           /\ \A port \in Ports : \A peer : Connects(WireL4(d), port, peer) <=> Connects(w, port, peer)
<1>1. CASE L4(v) /\ \E d \in v, u \in {w} : NormalL4(WireL4(d)) = NormalL4(u)
  <2>1. PICK d \in v : NormalL4(WireL4(d)) = NormalL4(w)
    BY <1>1
  <2>2. v = {d} /\ d \in L4Written
    BY <1>1, <2>1 DEF Opt, Optional, L4, Sendable
  <2>3. FromL4(v, {w}) = {d}
    BY <1>1, <2>2 DEF FromL4
  <2> QED
    BY <2>1, <2>2, <2>3, SentL4, SameL4
<1>2. CASE ~(L4(v) /\ \E d \in v, u \in {w} : NormalL4(WireL4(d)) = NormalL4(u))
  <2>1. FromL4(v, {w}) = {HclL4(u) : u \in {w}}
    BY <1>2 DEF FromL4
  <2>2. FromL4(v, {w}) = {HclL4(w)}
    BY <2>1
  <2> QED
    BY <2>2, ReadL4, SentL4, SameL4
<1> QED
  BY <1>1, <1>2

-----------------------------------------------------------------------------
(* The address of a client.                                                    *)

IPWritten == [mode : Opt(Words), trusted_proxy_cidrs : CIDRs]
IPDocs == [mode : Words, trusted_proxy_cidrs : CIDRs]

LEMMA SameIP ==
  ASSUME NEW v \in IPDocs, NEW w \in IPDocs, NormalIP(v) = NormalIP(w)
  PROVE  \A proxy : Trusts(v, proxy) <=> Trusts(w, proxy)
<1>1. /\ NormalIP(v).mode = NormalIP(w).mode
      /\ Networks(v.trusted_proxy_cidrs) = Networks(w.trusted_proxy_cidrs)
  BY DEF NormalIP
<1>2. v.mode = "trusted_xff" <=> w.mode = "trusted_xff"
  BY <1>1 DEF NormalIP, IPDocs
<1>3. v.trusted_proxy_cidrs \in CIDRs /\ w.trusted_proxy_cidrs \in CIDRs
  BY DEF IPDocs
<1> QED
  BY <1>1, <1>2, <1>3, SameNetworks DEF Trusts

LEMMA ReadText ==
  ASSUME NEW t \in Words
  PROVE  /\ (IF t = "" THEN {} ELSE {t}) \in Opt(Words)
         /\ Text(IF t = "" THEN {} ELSE {t}) = t
<1>1. CASE t = ""
  BY <1>1 DEF Opt, Optional, Text
<1>2. CASE t # ""
  <2>1. (CHOOSE x \in {t} : TRUE) = t
    OBVIOUS
  <2> QED
    BY <1>2, <2>1 DEF Opt, Optional, Text
<1> QED
  BY <1>1, <1>2

LEMMA ReadIP ==
  ASSUME NEW w \in IPDocs
  PROVE  HclIP(w) \in IPWritten /\ NormalIP(WireIP(HclIP(w))) = NormalIP(w)
<1> DEFINE m == IF w.mode = "" THEN {} ELSE {w.mode}
           list == NonEmpty(w.trusted_proxy_cidrs)
<1>1. w.mode \in Words /\ w.trusted_proxy_cidrs \in CIDRs
  BY DEF IPDocs
<1>2. m \in Opt(Words) /\ Text(m) = w.mode
  BY <1>1, ReadText
<1>3. list \in CIDRs /\ Networks(list) = Networks(w.trusted_proxy_cidrs)
  BY <1>1, SameNetworksRead
<1>4. HclIP(w) = [mode |-> m, trusted_proxy_cidrs |-> list]
  BY DEF HclIP
<1> HIDE DEF m, list
<1>5. WireIP(HclIP(w)).mode = w.mode /\ WireIP(HclIP(w)).trusted_proxy_cidrs = list
  BY <1>2, <1>4 DEF WireIP
<1>6. NormalIP(WireIP(HclIP(w))) = NormalIP(w)
  BY <1>3, <1>5 DEF NormalIP
<1> QED
  BY <1>2, <1>3, <1>4, <1>6 DEF IPWritten

LEMMA SentText ==
  ASSUME NEW x \in Opt(Words)
  PROVE  Text(x) \in Words
<1>1. CASE x = {}
  <2>1. Text(x) = ""
    BY <1>1, Zenon DEF Text
  <2>2. "" \in Words
    BY DEF Words
  <2> QED
    BY <2>1, <2>2
<1>2. CASE x # {}
  <2>1. \E t \in Words : x = {t}
    BY <1>2, OptionalCases
  <2>2. PICK t \in Words : x = {t}
    BY <2>1
  <2>3. Text({t}) = t
    BY DEF Text
  <2> QED
    BY <2>2, <2>3
<1> QED
  BY <1>1, <1>2

LEMMA SentIP ==
  ASSUME NEW d \in IPWritten
  PROVE  WireIP(d) \in IPDocs
<1>1. d.mode \in Opt(Words) /\ d.trusted_proxy_cidrs \in CIDRs
  BY DEF IPWritten
<1>2. Text(d.mode) \in Words
  BY <1>1, SentText
<1> QED
  BY <1>1, <1>2 DEF WireIP, IPDocs

\* The same of the client addresses: a refresh never makes the state trust a
\* proxy that the platform does not, nor hide one that it does.
THEOREM RefreshTellsClientIP ==
  ASSUME NEW v \in Opt(IPWritten \cup {Unresolved, Holed}), NEW w \in IPDocs
  PROVE  \E d \in IPWritten :
           /\ FromClientIP(v, {w}) = {d}
           /\ \A proxy : Trusts(WireIP(d), proxy) <=> Trusts(w, proxy)
<1>1. CASE ClientIP(v) /\ \E d \in v, u \in {w} : NormalIP(WireIP(d)) = NormalIP(u)
  <2>1. PICK d \in v : NormalIP(WireIP(d)) = NormalIP(w)
    BY <1>1
  <2>2. v = {d} /\ d \in IPWritten
    BY <1>1, <2>1 DEF Opt, Optional, ClientIP, Sendable
  <2>3. FromClientIP(v, {w}) = {d}
    BY <1>1, <2>2 DEF FromClientIP
  <2> QED
    BY <2>1, <2>2, <2>3, SentIP, SameIP
<1>2. CASE ~(ClientIP(v) /\ \E d \in v, u \in {w} : NormalIP(WireIP(d)) = NormalIP(u))
  <2>1. FromClientIP(v, {w}) = {HclIP(u) : u \in {w}}
    BY <1>2 DEF FromClientIP
  <2>2. FromClientIP(v, {w}) = {HclIP(w)}
    BY <2>1
  <2> QED
    BY <2>2, ReadIP, SentIP, SameIP
<1> QED
  BY <1>1, <1>2

-----------------------------------------------------------------------------
(* The HTTP policy.                                                            *)

Texts == Opt(Seq(Words))
Header == [name : [word : Words, capitals : Words], op : Words, values : Texts]
Path == [op : Words, value : Seq([byte : 0..255, encoded : BOOLEAN])]
Match == [source_cidrs : CIDRs, path : Opt(Path), methods : Texts,
          headers : Opt(Seq(Header)), match_all : Opt(BOOLEAN)]
Scope == [path : Opt(Path)]

\* Arrays whose entries have names of their own, and maps.
Keyed(V) == {S \in SUBSET (Words \X V) : \A e, f \in S : e[1] = f[1] => e = f}
Maps(V) == UNION {[K -> V] : K \in SUBSET Words}

PolicyDoc == [scope : Opt(Scope), allow_rules : Keyed(Match), deny_rules : Keyed(Match),
              required_headers : Keyed(Header)]
PolicyWritten == [scope : Opt(Scope), allow_rules : Opt(Maps(Match)),
                  deny_rules : Opt(Maps(Match)), required_headers : Opt(Maps(Header))]
L7Docs == [enabled : BOOLEAN, policies : Keyed(PolicyDoc)]
L7Written == [enabled : Opt(BOOLEAN), policies : Opt(Maps(PolicyWritten))]

LEMMA SameTexts ==
  ASSUME NEW a \in Seq(Words), NEW b \in Seq(Words), Unique(a) = Unique(b)
  PROVE  Elements(a) = Elements(b) /\ (a = <<>> <=> b = <<>>)
<1>1. Elements(a) = Elements(b)
  <2>1. Unique(a).elements = Elements(a) /\ Unique(b).elements = Elements(b)
    BY DEF Unique
  <2> QED
    BY <2>1
<1>2. a = <<>> <=> Elements(a) = {}
  <2>1. a = <<>> <=> DOMAIN a = {}
    OBVIOUS
  <2> QED
    BY <2>1 DEF Elements
<1>3. b = <<>> <=> Elements(b) = {}
  <2>1. b = <<>> <=> DOMAIN b = {}
    OBVIOUS
  <2> QED
    BY <2>1 DEF Elements
<1> QED
  BY <1>1, <1>2, <1>3

LEMMA SameHeader ==
  ASSUME NEW h \in Header, NEW k \in Header, NormalHeader(h) = NormalHeader(k), NEW request
  PROVE  HasHeader(h, request) <=> HasHeader(k, request)
<1>1. /\ h.name.word = k.name.word /\ h.op = k.op
      /\ Unique(Listed(h.values)) = Unique(Listed(k.values))
  <2>1. /\ NormalHeader(h).name = h.name.word /\ NormalHeader(k).name = k.name.word
        /\ NormalHeader(h).op = h.op /\ NormalHeader(k).op = k.op
        /\ NormalHeader(h).values = Unique(Listed(h.values))
        /\ NormalHeader(k).values = Unique(Listed(k.values))
    BY DEF NormalHeader
  <2> QED
    BY <2>1
<1>2. Listed(h.values) \in Seq(Words) /\ Listed(k.values) \in Seq(Words)
  BY ListedSeq DEF Header, Texts
<1>3. Elements(Listed(h.values)) = Elements(Listed(k.values))
  BY <1>1, <1>2, SameTexts
<1> QED
  BY <1>1, <1>3 DEF HasHeader

LEMMA SamePaths ==
  ASSUME NEW x, NEW y, {NormalPath(p) : p \in x} = {NormalPath(p) : p \in y}, NEW request,
         \A p \in x : OnPath(p, request), NEW q \in y
  PROVE  OnPath(q, request)
<1>1. PICK p \in x : NormalPath(p) = NormalPath(q)
  OBVIOUS
<1>2. p.op = q.op /\ CanonicalPath(p.value) = CanonicalPath(q.value)
  <2>1. /\ NormalPath(p).op = p.op /\ NormalPath(q).op = q.op
        /\ NormalPath(p).value = CanonicalPath(p.value)
        /\ NormalPath(q).value = CanonicalPath(q.value)
    BY DEF NormalPath
  <2> QED
    BY <1>1, <2>1
<1>3. OnPath(p, request)
  OBVIOUS
<1> QED
  BY <1>2, <1>3 DEF OnPath

LEMMA SameMatch ==
  ASSUME NEW m \in Match, NEW n \in Match, NormalMatch(m) = NormalMatch(n), NEW request,
         Meets(m, request)
  PROVE  Meets(n, request)
<1> DEFINE hm == Listed(m.headers)
           hn == Listed(n.headers)
           nm == [i \in DOMAIN hm |-> NormalHeader(hm[i])]
           nn == [i \in DOMAIN hn |-> NormalHeader(hn[i])]
<1>1. /\ Networks(m.source_cidrs) = Networks(n.source_cidrs)
      /\ {NormalPath(p) : p \in m.path} = {NormalPath(p) : p \in n.path}
      /\ Unique(Listed(m.methods)) = Unique(Listed(n.methods))
      /\ nm = nn
  <2>1. /\ NormalMatch(m).source_cidrs = Networks(m.source_cidrs)
        /\ NormalMatch(n).source_cidrs = Networks(n.source_cidrs)
    BY DEF NormalMatch
  <2>2. /\ NormalMatch(m).path = {NormalPath(p) : p \in m.path}
        /\ NormalMatch(n).path = {NormalPath(p) : p \in n.path}
    BY DEF NormalMatch
  <2>3. /\ NormalMatch(m).methods = Unique(Listed(m.methods))
        /\ NormalMatch(n).methods = Unique(Listed(n.methods))
    BY DEF NormalMatch
  <2>4. NormalMatch(m).headers = nm /\ NormalMatch(n).headers = nn
    BY DEF NormalMatch
  <2> HIDE DEF nm, nn
  <2> QED
    BY <2>1, <2>2, <2>3, <2>4
<1>2. /\ m.source_cidrs \in CIDRs /\ n.source_cidrs \in CIDRs
      /\ Listed(m.methods) \in Seq(Words) /\ Listed(n.methods) \in Seq(Words)
      /\ hm \in Seq(Header) /\ hn \in Seq(Header)
  BY ListedSeq DEF Match, Texts
<1>3. Listed(n.source_cidrs) # <<>> => Within(Listed(n.source_cidrs), request.client)
  BY <1>1, <1>2, SameNetworks DEF Meets
<1>4. \A q \in n.path : OnPath(q, request)
  BY <1>1, SamePaths DEF Meets
<1>5. Listed(n.methods) # <<>> => request.method \in Elements(Listed(n.methods))
  BY <1>1, <1>2, SameTexts DEF Meets
<1>6. ASSUME NEW i \in DOMAIN hn
      PROVE  HasHeader(hn[i], request)
  <2>1. DOMAIN hm = DOMAIN hn
    BY <1>1
  <2>2. nm[i] = NormalHeader(hm[i]) /\ nn[i] = NormalHeader(hn[i])
    BY <1>6, <2>1
  <2> HIDE DEF nm, nn, hm, hn
  <2>3. NormalHeader(hm[i]) = NormalHeader(hn[i])
    BY <1>1, <2>2
  <2>4. hm[i] \in Header /\ hn[i] \in Header
    BY <1>2, <1>6, <2>1
  <2>5. HasHeader(hm[i], request)
    BY <1>6, <2>1 DEF Meets, hm
  <2> QED
    BY <2>3, <2>4, <2>5, SameHeader
<1> QED
  BY <1>3, <1>4, <1>5, <1>6 DEF Meets

LEMMA SameRules ==
  ASSUME NEW S \in Keyed(Match), NEW T \in Keyed(Match), NormalRules(S) = NormalRules(T),
         NEW request, NEW e \in S, Meets(e[2], request)
  PROVE  \E f \in T : Meets(f[2], request)
<1>1. <<e[1], NormalMatch(e[2])>> \in NormalRules(T)
  BY DEF NormalRules
<1>2. PICK f \in T : NormalMatch(e[2]) = NormalMatch(f[2])
  BY <1>1 DEF NormalRules
<1>3. e[2] \in Match /\ f[2] \in Match
  BY DEF Keyed
<1> QED
  BY <1>2, <1>3, SameMatch

LEMMA SamePolicy ==
  ASSUME NEW p \in PolicyDoc, NEW q \in PolicyDoc, NormalPolicy(p) = NormalPolicy(q),
         NEW request, Satisfied(p, request)
  PROVE  Satisfied(q, request)
<1> DEFINE hp == {<<e[1], NormalHeader(e[2])>> : e \in p.required_headers}
           hq == {<<e[1], NormalHeader(e[2])>> : e \in q.required_headers}
<1>1. /\ {NormalPath(r) : r \in ScopePath(p)} = {NormalPath(r) : r \in ScopePath(q)}
      /\ NormalRules(p.allow_rules) = NormalRules(q.allow_rules)
      /\ NormalRules(p.deny_rules) = NormalRules(q.deny_rules)
      /\ hp = hq
  <2>1. /\ NormalPolicy(p).scope = {NormalPath(r) : r \in ScopePath(p)}
        /\ NormalPolicy(q).scope = {NormalPath(r) : r \in ScopePath(q)}
    BY DEF NormalPolicy
  <2>2. /\ NormalPolicy(p).allow_rules = NormalRules(p.allow_rules)
        /\ NormalPolicy(q).allow_rules = NormalRules(q.allow_rules)
        /\ NormalPolicy(p).deny_rules = NormalRules(p.deny_rules)
        /\ NormalPolicy(q).deny_rules = NormalRules(q.deny_rules)
    BY DEF NormalPolicy
  <2>3. NormalPolicy(p).required_headers = hp /\ NormalPolicy(q).required_headers = hq
    BY DEF NormalPolicy
  <2> HIDE DEF hp, hq
  <2> QED
    BY <2>1, <2>2, <2>3
<1>2. /\ p.allow_rules \in Keyed(Match) /\ q.allow_rules \in Keyed(Match)
      /\ p.deny_rules \in Keyed(Match) /\ q.deny_rules \in Keyed(Match)
      /\ p.required_headers \in Keyed(Header) /\ q.required_headers \in Keyed(Header)
  BY DEF PolicyDoc
<1>3. SUFFICES ASSUME \A r \in ScopePath(q) : OnPath(r, request)
               PROVE  /\ q.allow_rules # {} => \E e \in q.allow_rules : Meets(e[2], request)
                      /\ ~\E e \in q.deny_rules : Meets(e[2], request)
                      /\ \A e \in q.required_headers : HasHeader(e[2], request)
  BY DEF Satisfied
<1>4. \A r \in ScopePath(p) : OnPath(r, request)
  BY <1>1, <1>3, SamePaths
<1>5. /\ p.allow_rules # {} => \E e \in p.allow_rules : Meets(e[2], request)
      /\ ~\E e \in p.deny_rules : Meets(e[2], request)
      /\ \A e \in p.required_headers : HasHeader(e[2], request)
  BY <1>4 DEF Satisfied
<1>6. q.allow_rules # {} => \E e \in q.allow_rules : Meets(e[2], request)
  <2>1. ASSUME NEW e \in q.allow_rules PROVE p.allow_rules # {}
    <3>1. <<e[1], NormalMatch(e[2])>> \in NormalRules(p.allow_rules)
      BY <1>1 DEF NormalRules
    <3> QED
      BY <3>1 DEF NormalRules
  <2> QED
    BY <1>1, <1>2, <1>5, <2>1, SameRules
<1>7. ~\E e \in q.deny_rules : Meets(e[2], request)
  BY <1>1, <1>2, <1>5, SameRules
<1>8. ASSUME NEW f \in q.required_headers
      PROVE  HasHeader(f[2], request)
  <2>1. PICK e \in p.required_headers : NormalHeader(e[2]) = NormalHeader(f[2])
    <3>1. <<f[1], NormalHeader(f[2])>> \in hp
      BY <1>1, <1>8
    <3> QED
      BY <3>1
  <2>2. e[2] \in Header /\ f[2] \in Header
    BY <1>2, <1>8 DEF Keyed
  <2> QED
    BY <1>5, <2>1, <2>2, SameHeader
<1> QED
  BY <1>6, <1>7, <1>8

\* Two HTTP policies that compare as equal let the same requests in.
LEMMA SameL7 ==
  ASSUME NEW v \in L7Docs, NEW w \in L7Docs, NormalL7(v) = NormalL7(w), NEW request
  PROVE  LetsIn(v, request) <=> LetsIn(w, request)
<1>1. ASSUME NEW a \in L7Docs, NEW b \in L7Docs, NormalL7(a) = NormalL7(b), LetsIn(a, request)
      PROVE  LetsIn(b, request)
  <2> DEFINE na == {<<e[1], NormalPolicy(e[2])>> : e \in a.policies}
             nb == {<<e[1], NormalPolicy(e[2])>> : e \in b.policies}
  <2>1. a.enabled = b.enabled /\ na = nb
    <3>1. NormalL7(a).enabled = a.enabled /\ NormalL7(b).enabled = b.enabled
      BY DEF NormalL7
    <3>2. NormalL7(a).policies = na /\ NormalL7(b).policies = nb
      BY DEF NormalL7
    <3> HIDE DEF na, nb
    <3> QED
      BY <1>1, <3>1, <3>2
  <2>2. SUFFICES ASSUME b.enabled, NEW f \in b.policies PROVE Satisfied(f[2], request)
    BY DEF LetsIn
  <2>3. PICK e \in a.policies : NormalPolicy(e[2]) = NormalPolicy(f[2])
    <3>1. <<f[1], NormalPolicy(f[2])>> \in na
      BY <2>1, <2>2
    <3> QED
      BY <3>1
  <2>4. e[2] \in PolicyDoc /\ f[2] \in PolicyDoc
    BY <1>1, <2>2 DEF L7Docs, Keyed
  <2>5. Satisfied(e[2], request)
    BY <1>1, <2>1, <2>2 DEF LetsIn
  <2> QED
    BY <2>3, <2>4, <2>5, SamePolicy
<1> QED
  BY <1>1

-----------------------------------------------------------------------------
(* What is sent, and what is read back.                                        *)

\* Keyed arrays and maps are the same thing written in two ways.
LEMMA KeyedSent ==
  ASSUME NEW V, NEW x \in Opt(Maps(V))
  PROVE  KeyedArray(x) \in Keyed(V)
<1>1. CASE x = {}
  <2>1. KeyedArray(x) = {}
    BY <1>1 DEF KeyedArray
  <2> QED
    BY <2>1 DEF Keyed
<1>2. CASE x # {}
  <2>1. PICK map \in Maps(V) : x = {map}
    BY <1>2, OptionalCases
  <2>2. KeyedArray(x) = {<<k, map[k]>> : k \in DOMAIN map}
    BY <2>1 DEF KeyedArray
  <2>3. DOMAIN map \subseteq Words /\ \A k \in DOMAIN map : map[k] \in V
    BY DEF Maps
  <2> QED
    BY <2>2, <2>3 DEF Keyed
<1> QED
  BY <1>1, <1>2

LEMMA KeyedRead ==
  ASSUME NEW V, NEW S \in Keyed(V)
  PROVE  HclMap(S) \in Opt(Maps(V)) /\ KeyedArray(HclMap(S)) = S
<1>1. CASE S = {}
  <2>1. HclMap(S) = {}
    BY <1>1 DEF HclMap
  <2> QED
    BY <1>1, <2>1 DEF Opt, Optional, KeyedArray
<1>2. CASE S # {}
  <2> DEFINE m == ArrayMap(S)
             K == {e[1] : e \in S}
  <2>1. HclMap(S) = {m}
    BY <1>2 DEF HclMap
  <2>2. DOMAIN m = K
    BY DEF ArrayMap
  <2>3. ASSUME NEW e \in S PROVE e[1] \in Words /\ e[2] \in V /\ e = <<e[1], e[2]>> /\ m[e[1]] = e[2]
    <3>1. e \in Words \X V /\ \A f \in S : f \in Words \X V /\ (f[1] = e[1] => f = e)
      BY <2>3 DEF Keyed
    <3>2. ASSUME NEW v, <<e[1], v>> \in S PROVE v = e[2]
      <4>1. <<e[1], v>>[1] = e[1] /\ <<e[1], v>>[2] = v
        OBVIOUS
      <4>2. <<e[1], v>> = e
        BY <3>1, <3>2, <4>1
      <4> QED
        BY <4>1, <4>2
    <3>3. m[e[1]] = CHOOSE v \in {f[2] : f \in S} : <<e[1], v>> \in S
      BY <2>3 DEF ArrayMap
    <3>4. e[2] \in {f[2] : f \in S} /\ <<e[1], e[2]>> \in S
      BY <2>3, <3>1
    <3>5. m[e[1]] = e[2]
      BY <3>2, <3>3, <3>4
    <3> QED
      BY <3>1, <3>5
  <2> HIDE DEF m
  <2>4. m \in [K -> V] /\ K \in SUBSET Words
    <3>1. K \in SUBSET Words
      BY <2>3
    <3>2. ASSUME NEW k \in K PROVE m[k] \in V
      <4>1. PICK e \in S : k = e[1]
        BY <3>2
      <4> HIDE DEF K
      <4> QED
        BY <2>3, <4>1
    <3>3. m = [k \in K |-> m[k]]
      <4> DEFINE value(k) == CHOOSE v \in {e[2] : e \in S} : <<k, v>> \in S
      <4>1. m = [k \in K |-> value(k)]
        BY DEF ArrayMap, m
      <4> HIDE DEF value, K
      <4> QED
        BY <4>1
    <3> QED
      BY <3>1, <3>2, <3>3
  <2>5. {m} \in Opt(Maps(V))
    BY <2>4 DEF Opt, Optional, Maps
  <2>6. KeyedArray({m}) = {<<k, m[k]>> : k \in K}
    BY <2>2 DEF KeyedArray
  <2>7. {<<k, m[k]>> : k \in K} = S
    <3>1. \A e \in S : e \in {<<k, m[k]>> : k \in K}
      BY <2>3
    <3>2. \A k \in K : <<k, m[k]>> \in S
      BY <2>3
    <3> QED
      BY <3>1, <3>2
  <2> QED
    BY <2>1, <2>5, <2>6, <2>7
<1> QED
  BY <1>1, <1>2

LEMMA ReadHeader ==
  ASSUME NEW h \in Header
  PROVE  HclHeader(h) \in Header /\ NormalHeader(HclHeader(h)) = NormalHeader(h)
<1>1. h.values \in Texts /\ h.name \in [word : Words, capitals : Words] /\ h.op \in Words
  BY DEF Header
<1>2. NonEmpty(h.values) \in Texts /\ Listed(NonEmpty(h.values)) = Listed(h.values)
  BY <1>1, OmitEmpty DEF Texts
<1> QED
  BY <1>1, <1>2 DEF HclHeader, NormalHeader, Header

LEMMA ReadHeaders ==
  ASSUME NEW x \in Opt(Seq(Header))
  PROVE  LET y == {[i \in DOMAIN list |-> HclHeader(list[i])] : list \in NonEmpty(x)} IN
         /\ y \in Opt(Seq(Header))
         /\ [i \in DOMAIN Listed(y) |-> NormalHeader(Listed(y)[i])]
              = [i \in DOMAIN Listed(x) |-> NormalHeader(Listed(x)[i])]
<1> DEFINE y == {[i \in DOMAIN list |-> HclHeader(list[i])] : list \in NonEmpty(x)}
<1>1. NonEmpty(x) \in Opt(Seq(Header)) /\ Listed(NonEmpty(x)) = Listed(x)
  BY OmitEmpty
<1>2. CASE NonEmpty(x) = {}
  <2>1. y = {}
    BY <1>2
  <2>2. Listed(y) = Listed(x)
    BY <1>1, <1>2, <2>1
  <2>3. y \in Opt(Seq(Header))
    BY <2>1 DEF Opt, Optional
  <2> HIDE DEF y
  <2>4. [i \in DOMAIN Listed(y) |-> NormalHeader(Listed(y)[i])]
              = [i \in DOMAIN Listed(x) |-> NormalHeader(Listed(x)[i])]
    BY <2>2
  <2> QED
    BY <2>3, <2>4 DEF y
<1>3. CASE NonEmpty(x) # {}
  <2>1. PICK list \in Seq(Header) : NonEmpty(x) = {list}
    BY <1>1, <1>3, OptionalCases
  <2> DEFINE new == [i \in DOMAIN list |-> HclHeader(list[i])]
  <2>2. y = {new}
    BY <2>1
  <2>3. \A i \in DOMAIN list : /\ HclHeader(list[i]) \in Header
                               /\ NormalHeader(HclHeader(list[i])) = NormalHeader(list[i])
    BY ReadHeader
  <2>4. new \in Seq(Header)
    BY <2>3
  <2>5. DOMAIN new = DOMAIN list /\ \A i \in DOMAIN list : new[i] = HclHeader(list[i])
    OBVIOUS
  <2>6. Listed(x) = list /\ Listed({new}) = new
    BY <1>1, <2>1, ListedOne
  <2>7. {new} \in Opt(Seq(Header))
    BY <2>4 DEF Opt, Optional
  <2> HIDE DEF new, y
  <2>8. [i \in DOMAIN new |-> NormalHeader(new[i])] = [i \in DOMAIN list |-> NormalHeader(list[i])]
    BY <2>3, <2>5
  <2>9. /\ y \in Opt(Seq(Header))
        /\ [i \in DOMAIN Listed(y) |-> NormalHeader(Listed(y)[i])]
              = [i \in DOMAIN Listed(x) |-> NormalHeader(Listed(x)[i])]
    BY <2>2, <2>6, <2>7, <2>8
  <2> QED
    BY <2>9 DEF y
<1> QED
  BY <1>2, <1>3

LEMMA ReadMatch ==
  ASSUME NEW m \in Match
  PROVE  HclMatch(m) \in Match /\ NormalMatch(HclMatch(m)) = NormalMatch(m)
<1> DEFINE y == {[i \in DOMAIN list |-> HclHeader(list[i])] : list \in NonEmpty(m.headers)}
           c == NonEmpty(m.source_cidrs)
           t == NonEmpty(m.methods)
<1>1. /\ m.source_cidrs \in CIDRs /\ m.path \in Opt(Path) /\ m.methods \in Texts
      /\ m.headers \in Opt(Seq(Header)) /\ m.match_all \in Opt(BOOLEAN)
  BY DEF Match
<1>2. c \in CIDRs /\ Networks(c) = Networks(m.source_cidrs)
  BY <1>1, SameNetworksRead
<1>3. t \in Texts /\ Listed(t) = Listed(m.methods)
  BY <1>1, OmitEmpty DEF Texts
<1>4. /\ y \in Opt(Seq(Header))
      /\ [i \in DOMAIN Listed(y) |-> NormalHeader(Listed(y)[i])]
           = [i \in DOMAIN Listed(m.headers) |-> NormalHeader(Listed(m.headers)[i])]
  BY <1>1, ReadHeaders
<1>5. HclMatch(m) = [source_cidrs |-> c, path |-> m.path, methods |-> t, headers |-> y,
                     match_all |-> m.match_all]
  BY DEF HclMatch
<1> HIDE DEF c, t, y
<1>6. HclMatch(m) \in Match
  BY <1>1, <1>2, <1>3, <1>4, <1>5 DEF Match
<1>7. /\ HclMatch(m).source_cidrs = c /\ HclMatch(m).path = m.path
      /\ HclMatch(m).methods = t /\ HclMatch(m).headers = y
      /\ HclMatch(m).match_all = m.match_all
  BY <1>5
<1>8. NormalMatch(HclMatch(m)) = NormalMatch(m)
  BY <1>2, <1>3, <1>4, <1>7 DEF NormalMatch
<1> QED
  BY <1>6, <1>8

LEMMA ReadRules ==
  ASSUME NEW S \in Keyed(Match)
  PROVE  HclRules(S) \in Opt(Maps(Match)) /\ NormalRules(KeyedArray(HclRules(S))) = NormalRules(S)
<1> DEFINE R == {<<e[1], HclMatch(e[2])>> : e \in S}
<1>1. ASSUME NEW e \in S
      PROVE  /\ e[1] \in Words /\ HclMatch(e[2]) \in Match
             /\ NormalMatch(HclMatch(e[2])) = NormalMatch(e[2])
  BY ReadMatch DEF Keyed
<1>2. R \in Keyed(Match)
  BY <1>1 DEF Keyed
<1>3. HclRules(S) = HclMap(R)
  BY DEF HclRules
<1> DEFINE r(e) == <<e[1], HclMatch(e[2])>>
           n(e) == <<e[1], NormalMatch(e[2])>>
<1>6. R = {r(e) : e \in S} /\ NormalRules(R) = {n(e) : e \in R} /\ NormalRules(S) = {n(e) : e \in S}
  BY DEF NormalRules
<1>7. \A e \in S : n(r(e)) = n(e)
  BY <1>1
<1> HIDE DEF R, r, n
<1>4. HclRules(S) \in Opt(Maps(Match)) /\ KeyedArray(HclRules(S)) = R
  BY <1>2, <1>3, KeyedRead
<1>5. NormalRules(R) = NormalRules(S)
  BY <1>6, <1>7
<1> QED
  BY <1>4, <1>5

LEMMA ReadRequired ==
  ASSUME NEW S \in Keyed(Header)
  PROVE  LET map == HclMap({<<e[1], HclHeader(e[2])>> : e \in S}) IN
         /\ map \in Opt(Maps(Header))
         /\ {<<e[1], NormalHeader(e[2])>> : e \in KeyedArray(map)}
              = {<<e[1], NormalHeader(e[2])>> : e \in S}
<1> DEFINE R == {<<e[1], HclHeader(e[2])>> : e \in S}
<1>1. ASSUME NEW e \in S
      PROVE  /\ e[1] \in Words /\ HclHeader(e[2]) \in Header
             /\ NormalHeader(HclHeader(e[2])) = NormalHeader(e[2])
  BY ReadHeader DEF Keyed
<1>2. R \in Keyed(Header)
  BY <1>1 DEF Keyed
<1>3. {<<e[1], NormalHeader(e[2])>> : e \in R} = {<<e[1], NormalHeader(e[2])>> : e \in S}
  <2> DEFINE r(e) == <<e[1], HclHeader(e[2])>>
             n(e) == <<e[1], NormalHeader(e[2])>>
  <2>1. \A e \in S : n(r(e)) = n(e)
    BY <1>1
  <2> HIDE DEF r, n
  <2>2. {n(e) : e \in {r(e) : e \in S}} = {n(e) : e \in S}
    BY <2>1
  <2> QED
    BY <2>2 DEF r, n
<1>4. HclMap(R) \in Opt(Maps(Header)) /\ KeyedArray(HclMap(R)) = R
  BY <1>2, KeyedRead
<1> QED
  BY <1>3, <1>4

LEMMA ReadPolicy ==
  ASSUME NEW p \in PolicyDoc
  PROVE  HclPolicy(p) \in PolicyWritten /\ NormalPolicy(WirePolicy(HclPolicy(p))) = NormalPolicy(p)
<1> DEFINE a == HclRules(p.allow_rules)
           b == HclRules(p.deny_rules)
           c == HclMap({<<e[1], HclHeader(e[2])>> : e \in p.required_headers})
<1>1. /\ p.scope \in Opt(Scope) /\ p.allow_rules \in Keyed(Match)
      /\ p.deny_rules \in Keyed(Match) /\ p.required_headers \in Keyed(Header)
  BY DEF PolicyDoc
<1>2. /\ a \in Opt(Maps(Match)) /\ NormalRules(KeyedArray(a)) = NormalRules(p.allow_rules)
      /\ b \in Opt(Maps(Match)) /\ NormalRules(KeyedArray(b)) = NormalRules(p.deny_rules)
  BY <1>1, ReadRules
<1>3. /\ c \in Opt(Maps(Header))
      /\ {<<e[1], NormalHeader(e[2])>> : e \in KeyedArray(c)}
           = {<<e[1], NormalHeader(e[2])>> : e \in p.required_headers}
  BY <1>1, ReadRequired
<1>4. HclPolicy(p) = [scope |-> p.scope, allow_rules |-> a, deny_rules |-> b, required_headers |-> c]
  BY DEF HclPolicy
<1> HIDE DEF a, b, c
<1> DEFINE w == WirePolicy(HclPolicy(p))
<1>5. /\ w.scope = p.scope /\ w.allow_rules = KeyedArray(a)
      /\ w.deny_rules = KeyedArray(b) /\ w.required_headers = KeyedArray(c)
  BY <1>4 DEF WirePolicy
<1> HIDE DEF w
<1>6. ScopePath(w) = ScopePath(p)
  BY <1>5 DEF ScopePath
<1>7. NormalPolicy(w) = NormalPolicy(p)
  BY <1>2, <1>3, <1>5, <1>6 DEF NormalPolicy
<1>8. HclPolicy(p) \in PolicyWritten
  BY <1>1, <1>2, <1>3, <1>4 DEF PolicyWritten
<1> QED
  BY <1>7, <1>8 DEF w

LEMMA SentPolicy ==
  ASSUME NEW p \in PolicyWritten
  PROVE  WirePolicy(p) \in PolicyDoc
<1>1. /\ p.scope \in Opt(Scope) /\ p.allow_rules \in Opt(Maps(Match))
      /\ p.deny_rules \in Opt(Maps(Match)) /\ p.required_headers \in Opt(Maps(Header))
  BY DEF PolicyWritten
<1>2. /\ KeyedArray(p.allow_rules) \in Keyed(Match) /\ KeyedArray(p.deny_rules) \in Keyed(Match)
      /\ KeyedArray(p.required_headers) \in Keyed(Header)
  BY <1>1, KeyedSent
<1> QED
  BY <1>1, <1>2 DEF WirePolicy, PolicyDoc

LEMMA SentL7 ==
  ASSUME NEW d \in L7Written
  PROVE  WireL7(d) \in L7Docs
<1>1. d.policies \in Opt(Maps(PolicyWritten))
  BY DEF L7Written
<1>2. KeyedArray(d.policies) \in Keyed(PolicyWritten)
  BY <1>1, KeyedSent
<1>3. \A e \in KeyedArray(d.policies) : e[1] \in Words /\ WirePolicy(e[2]) \in PolicyDoc
  BY <1>2, SentPolicy DEF Keyed
<1>4. {<<e[1], WirePolicy(e[2])>> : e \in KeyedArray(d.policies)} \in Keyed(PolicyDoc)
  BY <1>2, <1>3 DEF Keyed
<1> QED
  BY <1>4 DEF WireL7, L7Docs

LEMMA ReadL7 ==
  ASSUME NEW w \in L7Docs
  PROVE  HclL7(w) \in L7Written /\ NormalL7(WireL7(HclL7(w))) = NormalL7(w)
<1> DEFINE S == {<<e[1], HclPolicy(e[2])>> : e \in w.policies}
           on == IF w.enabled THEN {TRUE} ELSE {}
<1>1. w.enabled \in BOOLEAN /\ w.policies \in Keyed(PolicyDoc)
  BY DEF L7Docs
<1>2. ASSUME NEW e \in w.policies
      PROVE  /\ e[1] \in Words /\ HclPolicy(e[2]) \in PolicyWritten
             /\ NormalPolicy(WirePolicy(HclPolicy(e[2]))) = NormalPolicy(e[2])
  BY <1>1, ReadPolicy DEF Keyed
<1>3. S \in Keyed(PolicyWritten)
  BY <1>1, <1>2 DEF Keyed
<1>4. HclMap(S) \in Opt(Maps(PolicyWritten)) /\ KeyedArray(HclMap(S)) = S
  BY <1>3, KeyedRead
<1>5. on \in Opt(BOOLEAN) /\ (TRUE \in on) = w.enabled
  BY <1>1, ReadEnabled
<1>6. HclL7(w) = [enabled |-> on, policies |-> HclMap(S)]
  BY DEF HclL7
<1>7. {<<e[1], NormalPolicy(e[2])>> : e \in {<<e[1], WirePolicy(e[2])>> : e \in S}}
        = {<<e[1], NormalPolicy(e[2])>> : e \in w.policies}
  <2> DEFINE h(e) == <<e[1], HclPolicy(e[2])>>
             s(e) == <<e[1], WirePolicy(e[2])>>
             n(e) == <<e[1], NormalPolicy(e[2])>>
  <2>1. \A e \in w.policies : n(s(h(e))) = n(e)
    BY <1>2
  <2> HIDE DEF h, s, n
  <2>2. {n(e) : e \in {s(e) : e \in {h(e) : e \in w.policies}}} = {n(e) : e \in w.policies}
    BY <2>1
  <2> QED
    BY <2>2 DEF h, s, n
<1> HIDE DEF S, on
<1>8. HclL7(w) \in L7Written
  BY <1>4, <1>5, <1>6 DEF L7Written
<1> DEFINE d == WireL7(HclL7(w))
<1>9. d.enabled = w.enabled /\ d.policies = {<<e[1], WirePolicy(e[2])>> : e \in S}
  <2>1. HclL7(w).enabled = on /\ HclL7(w).policies = HclMap(S)
    BY <1>6
  <2>2. d.enabled = (TRUE \in on) /\ d.policies = {<<e[1], WirePolicy(e[2])>> : e \in KeyedArray(HclMap(S))}
    BY <2>1 DEF WireL7
  <2> QED
    BY <1>4, <1>5, <2>2
<1> HIDE DEF d
<1>10. NormalL7(d) = NormalL7(w)
  BY <1>7, <1>9 DEF NormalL7
<1> QED
  BY <1>8, <1>10 DEF d

\* A refresh of an HTTP policy, whatever the state held and whatever the API
\* returns, leaves a policy in the state that lets in the requests that the
\* platform lets in: no rule, header, network or path is lost on the way.
THEOREM RefreshTellsL7 ==
  ASSUME NEW v \in Opt(L7Written \cup {Unresolved, Holed}), NEW w \in L7Docs
  PROVE  \E d \in L7Written :
           /\ FromL7(v, {w}) = {d}
           /\ \A request : LetsIn(WireL7(d), request) <=> LetsIn(w, request)
<1>1. CASE L7(v) /\ \E d \in v, u \in {w} : NormalL7(WireL7(d)) = NormalL7(u)
  <2>1. PICK d \in v : NormalL7(WireL7(d)) = NormalL7(w)
    BY <1>1
  <2>2. v = {d} /\ d \in L7Written
    BY <1>1, <2>1 DEF Opt, Optional, L7, Sendable
  <2>3. FromL7(v, {w}) = {d}
    BY <1>1, <2>2 DEF FromL7
  <2> QED
    BY <2>1, <2>2, <2>3, SentL7, SameL7
<1>2. CASE ~(L7(v) /\ \E d \in v, u \in {w} : NormalL7(WireL7(d)) = NormalL7(u))
  <2>1. FromL7(v, {w}) = {HclL7(u) : u \in {w}}
    BY <1>2 DEF FromL7
  <2>2. FromL7(v, {w}) = {HclL7(w)}
    BY <2>1
  <2> QED
    BY <2>2, ReadL7, SentL7, SameL7
<1> QED
  BY <1>1, <1>2

\* After an import or an outside change, a second refresh changes nothing as
\* long as the API's answer means the same: what was read back once is taken
\* for written, if it passes the validation that a written policy must pass.
THEOREM ImportSettles ==
  ASSUME NEW w \in L7Docs, NEW u \in L7Docs, NormalL7(u) = NormalL7(w), L7(FromL7({}, {w}))
  PROVE  FromL7(FromL7({}, {w}), {u}) = FromL7({}, {w})
<1>1. FromL7({}, {w}) = {HclL7(w)}
  BY DEF FromL7
<1>2. NormalL7(WireL7(HclL7(w))) = NormalL7(u)
  BY ReadL7
<1> QED
  BY <1>1, <1>2 DEF FromL7

\* What was written and confirmed is no change at the next plan: the refresh
\* leaves it in the state as it is written, in the spelling, with the order and
\* the omissions of the configuration, however the platform writes it.
THEOREM ConfirmedStays ==
  ASSUME NEW gateway, NEW d, NEW e, NEW f, L4({d}), L7({e}), ClientIP({f}),
         GatewayConfirmed({d}, {e}, {f}, gateway)
  PROVE  /\ FromL4({d}, gateway.l4_policy) = {d}
         /\ FromL7({e}, gateway.l7_policy) = {e}
         /\ FromClientIP({f}, gateway.client_ip_policy) = {f}
<1>1. PICK w \in gateway.l4_policy : NormalL4(w) = NormalL4(WireL4(d))
  BY DEF GatewayConfirmed
<1>2. PICK u \in gateway.l7_policy : NormalL7(u) = NormalL7(WireL7(e))
  BY DEF GatewayConfirmed
<1>3. PICK x \in gateway.client_ip_policy : NormalIP(x) = NormalIP(WireIP(f))
  BY DEF GatewayConfirmed
<1>4. FromL4({d}, gateway.l4_policy) = {d}
  BY <1>1 DEF FromL4
<1>5. FromL7({e}, gateway.l7_policy) = {e}
  BY <1>2 DEF FromL7
<1>6. FromClientIP({f}, gateway.client_ip_policy) = {f}
  BY <1>3 DEF FromClientIP
<1> QED
  BY <1>4, <1>5, <1>6

\* An apply that GatewayConfirmed accepts leaves on the platform what was
\* written, in what it lets in, whichever policies were written.
THEOREM ConfirmedIsWritten ==
  ASSUME NEW gateway, gateway.l4_policy \in SUBSET L4Docs, gateway.l7_policy \in SUBSET L7Docs,
         gateway.client_ip_policy \in SUBSET IPDocs,
         NEW l4 \in SUBSET L4Written, NEW l7 \in SUBSET L7Written, NEW ip \in SUBSET IPWritten,
         GatewayConfirmed(l4, l7, ip, gateway)
  PROVE  /\ \A d \in l4 : \E w \in gateway.l4_policy :
              \A port \in Ports : \A peer : Connects(w, port, peer) <=> Connects(WireL4(d), port, peer)
         /\ \A d \in l7 : \E w \in gateway.l7_policy :
              \A request : LetsIn(w, request) <=> LetsIn(WireL7(d), request)
         /\ \A d \in ip : \E w \in gateway.client_ip_policy :
              \A proxy : Trusts(w, proxy) <=> Trusts(WireIP(d), proxy)
<1>1. ASSUME NEW d \in l4
      PROVE  \E w \in gateway.l4_policy :
               \A port \in Ports : \A peer : Connects(w, port, peer) <=> Connects(WireL4(d), port, peer)
  <2>1. PICK w \in gateway.l4_policy : NormalL4(w) = NormalL4(WireL4(d))
    BY <1>1 DEF GatewayConfirmed
  <2> QED
    BY <1>1, <2>1, SentL4, SameL4
<1>2. ASSUME NEW d \in l7
      PROVE  \E w \in gateway.l7_policy :
               \A request : LetsIn(w, request) <=> LetsIn(WireL7(d), request)
  <2>1. PICK w \in gateway.l7_policy : NormalL7(w) = NormalL7(WireL7(d))
    BY <1>2 DEF GatewayConfirmed
  <2> QED
    BY <1>2, <2>1, SentL7, SameL7
<1>3. ASSUME NEW d \in ip
      PROVE  \E w \in gateway.client_ip_policy :
               \A proxy : Trusts(w, proxy) <=> Trusts(WireIP(d), proxy)
  <2>1. PICK w \in gateway.client_ip_policy : NormalIP(w) = NormalIP(WireIP(d))
    BY <1>3 DEF GatewayConfirmed
  <2> QED
    BY <1>3, <2>1, SentIP, SameIP
<1> QED
  BY <1>1, <1>2, <1>3

-----------------------------------------------------------------------------
(* The extension settings of a PostgreSQL instance.                            *)

\* What the platform has after an apply, before it normalizes it, is the plan.
LEMMA KeptAsPlanned ==
  ASSUME NEW written, NEW current, NEW prior, NEW sent, NEW s \in Settings,
         Optional(written[s]), Optional(current[s]),
         \/ prior = {} /\ current = Blank
         \/ prior = {current},
         sent[s] = ExtensionRequest(written, prior, s),
         Planned(written, prior, s) # {}
  PROVE  Kept(current, sent, s) = Planned(written, prior, s)
<1> DEFINE P == Planned(written, prior, s)
<1>1. PICK v : P = {v}
  <2>1. CASE written[s] # {}
    <3>1. P = written[s] \ {Later}
      BY <2>1 DEF Planned
    <3> QED
      BY <3>1 DEF Optional
  <2>2. CASE written[s] = {}
    <3>1. P = UNION {old[s] : old \in prior}
      BY <2>2 DEF Planned
    <3>2. prior = {current}
      BY <3>1
    <3>3. P = current[s]
      BY <3>1, <3>2
    <3> QED
      BY <3>3 DEF Optional
  <2> QED
    BY <2>1, <2>2
<1>2. CASE prior = {} /\ current = Blank
  <2>1. sent[s] = {u \in P : s = "cron_database" \/ u # {}}
    BY <1>2 DEF ExtensionRequest
  <2>2. CASE sent[s] = {}
    <3>1. v = {} /\ s # "cron_database"
      BY <1>1, <2>1, <2>2
    <3>2. current[s] = {{}}
      BY <1>2, <3>1 DEF Blank, Settings
    <3> QED
      BY <1>1, <2>2, <3>1, <3>2 DEF Kept
  <2>3. CASE sent[s] # {}
    <3>1. sent[s] = {v}
      BY <1>1, <2>1, <2>3
    <3> QED
      BY <1>1, <3>1 DEF Kept
  <2> QED
    BY <2>2, <2>3
<1>3. CASE prior = {current}
  <2>1. sent[s] = {u \in P : current[s] # {u}}
    BY <1>3 DEF ExtensionRequest, Blank
  <2>2. CASE current[s] = {v}
    <3>1. sent[s] = {}
      BY <1>1, <2>1, <2>2
    <3> QED
      BY <1>1, <2>2, <3>1 DEF Kept
  <2>3. CASE current[s] # {v}
    <3>1. sent[s] = {v}
      BY <1>1, <2>1, <2>3
    <3> QED
      BY <1>1, <3>1 DEF Kept
  <2> QED
    BY <2>2, <2>3
<1> QED
  BY <1>2, <1>3

\* What needs nothing else is left as it is.
LEMMA ClosedStays ==
  ASSUME NEW catalogue, NEW allowed, Closed(catalogue, allowed)
  PROVE  WithDependencies(catalogue, allowed) = allowed
BY DEF WithDependencies

\* A plan that passes allows only extensions whose dependencies it allows too,
\* whether the catalogue was asked for or not.
LEMMA PassedIsClosed ==
  ASSUME NEW available, NEW catalogue, NEW written, NEW current, NEW prior,
         \/ prior = {}
         \/ prior = {current} /\ AtRest(catalogue, current),
         ModifyPlan(available, {catalogue}, written, prior),
         NEW allowed \in Planned(written, prior, "allowed_extensions")
  PROVE  Closed(catalogue, allowed)
<1>1. allowed \in PlannedSetting(written, prior, "allowed_extensions")
  <2>1. ~(prior = {} /\ written["allowed_extensions"] = {})
    BY DEF Planned
  <2> QED
    BY <2>1 DEF PlannedSetting
<1>2. CASE LooksUp(written, prior)
  <2>1. CheckExtensions(catalogue, written, prior)
    BY <1>2 DEF ModifyPlan
  <2>2. \A e \in allowed : catalogue.requires[e] \subseteq allowed
    BY <1>1, <2>1 DEF CheckExtensions
  <2> QED
    BY <2>2 DEF Closed
<1>3. CASE ~LooksUp(written, prior)
  <2>1. CASE PlannedSetting(written, prior, "allowed_extensions") \subseteq {{}}
    BY <1>1, <2>1 DEF Closed
  <2>2. CASE \E old \in prior : Planned(written, prior, "allowed_extensions") = old["allowed_extensions"]
    <3>1. AtRest(catalogue, current) /\ allowed \in current.allowed_extensions
      BY <2>2
    <3> QED
      BY <3>1 DEF AtRest
  <2> QED
    BY <1>3, <2>1, <2>2 DEF LooksUp, ListChanges
<1> QED
  BY <1>2, <1>3

\* Every setting that a checked plan shows is what the platform has after the
\* apply: it neither adds a dependency nor drops cron_database, and Terraform
\* never finds that the provider "produced an inconsistent result after apply"
\* (extensions.go: "a mistake fails the plan ... rather than the apply").
THEOREM AppliedAsPlanned ==
  ASSUME NEW available, NEW catalogue, NEW written, NEW current, NEW prior,
         AllKnown(written), Refreshed(catalogue, prior, current),
         ModifyPlan(available, {catalogue}, written, prior),
         NEW s \in Settings, Planned(written, prior, s) # {}
  PROVE  Applied(catalogue, current, written, prior)[s] = Planned(written, prior, s)
<1> DEFINE sent == Requests(written, prior)
<1> DEFINE after == Normalized(catalogue, current, sent)
<1>0. /\ \A t \in Settings : Later \notin written[t]
      /\ \A t \in Settings : Optional(written[t])
      /\ \A t \in Settings : sent[t] = ExtensionRequest(written, prior, t)
      /\ (prior = {} /\ current = Blank) \/ (prior = {current} /\ AtRest(catalogue, current))
  <2>1. \A t \in Settings : Later \notin written[t]
    BY DEF AllKnown
  <2>2. \A t \in Settings : Optional(written[t])
    BY DEF AllKnown, Optional
  <2>3. \A t \in Settings : sent[t] = ExtensionRequest(written, prior, t)
    BY DEF Requests
  <2>4. (prior = {} /\ current = Blank) \/ (prior = {current} /\ AtRest(catalogue, current))
    BY DEF Refreshed
  <2> QED
    BY <2>1, <2>2, <2>3, <2>4
<1> HIDE DEF sent
<1> SUFFICES after[s] = Planned(written, prior, s)
  BY DEF Applied, sent
<1>1. \A t \in Settings : Optional(current[t])
  <2>1. CASE current = Blank
    <3>1. Optional(Blank.allowed_extensions) /\ Optional(Blank.preload_libraries)
      BY DEF Optional, Blank
    <3>2. Optional(Blank.cron_database)
      BY DEF Optional, Blank
    <3> QED
      BY <2>1, <3>1, <3>2 DEF Settings
  <2>2. CASE AtRest(catalogue, current)
    <3>1. Optional(current.allowed_extensions) /\ Optional(current.preload_libraries)
      BY <2>2 DEF AtRest, Optional
    <3>2. Optional(current.cron_database)
      BY <2>2 DEF AtRest, Optional
    <3> QED
      BY <3>1, <3>2 DEF Settings
  <2> QED
    BY <1>0, <2>1, <2>2
<1>2. \A t \in Settings : Planned(written, prior, t) # {} =>
        Kept(current, sent, t) = Planned(written, prior, t)
  BY <1>0, <1>1, KeptAsPlanned
<1>3. CASE s = "preload_libraries"
  <2>1. after[s] = Kept(current, sent, "preload_libraries")
    BY <1>3 DEF Normalized
  <2> QED
    BY <1>2, <1>3, <2>1
<1>4. CASE s = "allowed_extensions"
  <2>1. after[s] = {WithDependencies(catalogue, allowed) : allowed \in Kept(current, sent, "allowed_extensions")}
    BY <1>4 DEF Normalized
  <2>2. Kept(current, sent, "allowed_extensions") = Planned(written, prior, "allowed_extensions")
    BY <1>2, <1>4
  <2>3. \A allowed \in Planned(written, prior, "allowed_extensions") :
          WithDependencies(catalogue, allowed) = allowed
    BY <1>0, PassedIsClosed, ClosedStays
  <2> QED
    BY <1>4, <2>1, <2>2, <2>3
<1>5. CASE s = "cron_database"
  <2>1. after[s] = {name \in Kept(current, sent, "cron_database") :
                      \A loaded \in Kept(current, sent, "preload_libraries") : "pg_cron" \in loaded}
    BY <1>5 DEF Normalized
  <2>2. \A loaded \in PlannedSetting(written, prior, "preload_libraries") : "pg_cron" \in loaded
    BY <1>5 DEF ModifyPlan, CronFits
  <2>3. ~(prior = {} /\ written["preload_libraries"] = {})
    BY <2>2 DEF PlannedSetting
  <2>4. Planned(written, prior, "preload_libraries") # {}
    <3>1. CASE written["preload_libraries"] # {}
      <4>1. Later \notin written["preload_libraries"]
        BY <1>0 DEF Settings
      <4> QED
        BY <3>1, <4>1 DEF Planned
    <3>2. CASE written["preload_libraries"] = {}
      <4>1. prior = {current} /\ AtRest(catalogue, current)
        BY <1>0, <2>3, <3>2
      <4>2. Planned(written, prior, "preload_libraries") = current["preload_libraries"]
        BY <3>2, <4>1 DEF Planned
      <4>3. current["preload_libraries"] # {}
        BY <4>1 DEF AtRest
      <4> QED
        BY <4>2, <4>3
    <3> QED
      BY <3>1, <3>2
  <2>5. Kept(current, sent, "preload_libraries") = PlannedSetting(written, prior, "preload_libraries")
    <3>1. PlannedSetting(written, prior, "preload_libraries") = Planned(written, prior, "preload_libraries")
      BY <2>3 DEF PlannedSetting
    <3> QED
      BY <1>2, <2>4, <3>1 DEF Settings
  <2> QED
    BY <1>2, <1>5, <2>1, <2>2, <2>5
<1> QED
  BY <1>3, <1>4, <1>5 DEF Settings

\* A setting left out of the configuration of an existing instance is left
\* unchanged on the platform, whatever the others become.
THEOREM OmittedUnchanged ==
  ASSUME NEW available, NEW catalogue, NEW written, NEW current, NEW prior, prior # {},
         AllKnown(written), Refreshed(catalogue, prior, current),
         ModifyPlan(available, {catalogue}, written, prior),
         NEW s \in Settings, written[s] = {}
  PROVE  Applied(catalogue, current, written, prior)[s] = current[s]
<1>1. prior = {current} /\ AtRest(catalogue, current)
  BY DEF Refreshed
<1>2. Planned(written, prior, s) = current[s]
  BY <1>1 DEF Planned
<1>3. CASE Planned(written, prior, s) # {}
  <2>1. Applied(catalogue, current, written, prior)[s] = Planned(written, prior, s)
    BY <1>3, AppliedAsPlanned
  <2> QED
    BY <1>2, <2>1
<1>4. CASE Planned(written, prior, s) = {}
  <2> DEFINE sent == Requests(written, prior)
  <2>1. s = "cron_database"
    BY <1>1, <1>2, <1>4 DEF AtRest, Settings
  <2>2. sent["cron_database"] = {}
    BY <1>4, <2>1 DEF Requests, ExtensionRequest
  <2> HIDE DEF sent
  <2>3. Kept(current, sent, "cron_database") = {}
    BY <1>2, <1>4, <2>1, <2>2 DEF Kept
  <2> QED
    BY <1>2, <1>4, <2>1, <2>3 DEF Applied, Normalized, sent
<1> QED
  BY <1>3, <1>4

\* Once an instance has a cron_database, no plan that passes takes pg_cron out
\* of preload_libraries: to omit cron_database plans the old one, which
\* requires the library, and there is no way to write that it has none.
THEOREM CronPinsLibrary ==
  ASSUME NEW available, NEW catalogue, NEW written, NEW current,
         current["cron_database"] # {}, Later \notin written["cron_database"],
         ModifyPlan(available, catalogue, written, {current}),
         NEW loaded \in Planned(written, {current}, "preload_libraries")
  PROVE  "pg_cron" \in loaded
<1>1. Planned(written, {current}, "cron_database") # {}
  BY DEF Planned
<1>2. loaded \in PlannedSetting(written, {current}, "preload_libraries")
  BY DEF PlannedSetting
<1> QED
  BY <1>1, <1>2 DEF ModifyPlan, CronFits

-----------------------------------------------------------------------------
(* The conditions of an IAM policy document.                                   *)

\* Merging the blocks of one test and variable only widens a condition: whoever
\* meets every block meets the document.
THEOREM MergingWidens ==
  ASSUME NEW blocks, NEW passed, MeetsAll(passed, blocks)
  PROVE  MeetsRendered(passed, Rendered(blocks))
<1> SUFFICES ASSUME NEW about \in DOMAIN Rendered(blocks)
             PROVE  \E v \in Rendered(blocks)[about] : <<about[1], about[2], v>> \in passed
  BY DEF MeetsRendered
<1>1. PICK i \in DOMAIN blocks : about = <<blocks[i].test, blocks[i].variable>>
  BY DEF Rendered
<1>2. PICK v \in blocks[i].values : <<blocks[i].test, blocks[i].variable, v>> \in passed
  BY DEF MeetsAll, MeetsBlock
<1>3. v \in Rendered(blocks)[about]
  BY <1>1, <1>2 DEF Rendered
<1> QED
  BY <1>1, <1>2, <1>3

\* Blocks that differ in test or variable are AND-combined, as the schema says
\* of all blocks.
THEOREM DistinctConditionsKept ==
  ASSUME NEW blocks, NEW passed,
         \A i, j \in DOMAIN blocks :
           blocks[i].test = blocks[j].test /\ blocks[i].variable = blocks[j].variable => i = j
  PROVE  MeetsRendered(passed, Rendered(blocks)) <=> MeetsAll(passed, blocks)
<1>1. ASSUME MeetsRendered(passed, Rendered(blocks)), NEW i \in DOMAIN blocks
      PROVE  MeetsBlock(passed, blocks[i])
  <2> DEFINE about == <<blocks[i].test, blocks[i].variable>>
  <2>1. about \in DOMAIN Rendered(blocks)
    BY DEF Rendered
  <2>2. Rendered(blocks)[about] = UNION {blocks[j].values : j \in {j \in DOMAIN blocks :
                                           <<blocks[j].test, blocks[j].variable>> = about}}
    BY <2>1 DEF Rendered
  <2>3. {j \in DOMAIN blocks : <<blocks[j].test, blocks[j].variable>> = about} = {i}
    OBVIOUS
  <2>4. Rendered(blocks)[about] = blocks[i].values
    BY <2>2, <2>3
  <2>5. PICK v \in blocks[i].values : <<about[1], about[2], v>> \in passed
    BY <1>1, <2>1, <2>4 DEF MeetsRendered
  <2> QED
    BY <2>5 DEF MeetsBlock
<1> QED
  BY <1>1, MergingWidens DEF MeetsAll
=============================================================================
