--------------------------- MODULE PolicyDocuments ---------------------------
(* The access policy documents of an Application Gateway: what a written one  *)
(* must satisfy, the document it is sent as, what becomes of the one the API  *)
(* returns, and when two are the same.  Nothing here keeps state; AppGWPolicy *)
(* runs the protocol, for which a document is a value.                        *)
(*                                                                            *)
(* An optional attribute is a set: {} when it is null, {x} when it is x.  A   *)
(* map of named entries is a function of the names.  The array it is sent as  *)
(* is sorted by name here and there, so that its order means nothing: it is   *)
(* the set of the pairs <<name, entry>>.                                      *)
EXTENDS Integers, Sequences, FiniteSets

CONSTANTS
  Unresolved,     \* a written document with a value that is not known yet
  Holed,          \* one with an entry of a map or a list that is null
  TooLarge,       \* those whose encoding is over 64 KiB
  Keys,           \* the texts that are a name of a policy, rule or requirement,
  HeaderNames,    \* of a header,
  HeaderValues,   \* one admissible value of a header,
  Methods,        \* a method,
  UTF8            \* and the byte sequences that are valid UTF-8

Optional(x) == \A a, b \in x : a = b
Listed(x) == IF x = {} THEN <<>> ELSE CHOOSE list \in x : TRUE
NonEmpty(x) == {list \in x : list # <<>>}       \* omitempty
Elements(list) == {list[i] : i \in DOMAIN list}

\* A list without its repetitions: what it holds, and in which order first.
Unique(list) ==
  [elements |-> Elements(list),
   before   |-> {p \in Elements(list) \X Elements(list) :
                   \E i \in DOMAIN list : /\ list[i] = p[1]
                                          /\ \A j \in DOMAIN list : list[j] = p[2] => i < j}]

-----------------------------------------------------------------------------
(* Paths.  A path is a sequence of tokens [byte, encoded]: a character, or    *)
(* the %XX that stands for one (the case of the digits is of no account).  A  *)
(* plain % belongs to an escape that is none.                                 *)

Slash == 47
Dot == 46
Percent == 37
Delete == 127
MaxPath == 4096
Ambiguous == {92, 59, 63, 35}                                   \* \ ; ? #
Unreserved == 97..122 \cup 65..90 \cup 48..57 \cup {45, 46, 95, 126, 47}
Plain(t, byte) == t.byte = byte /\ ~t.encoded
Size(path) == Len(path) + 2 * Cardinality({i \in DOMAIN path : path[i].encoded})
Bytes(path) == [i \in DOMAIN path |-> path[i].byte]

Canon(path) ==
  [i \in DOMAIN path |->
     [byte |-> path[i].byte, encoded |-> path[i].byte \notin Unreserved]]

\* Two slashes in a row, or a segment that is "." or "..".
Segment(path, i, n) ==      \* the n characters after the slash at i are one
  \/ i + n = Len(path)
  \/ i + n < Len(path) /\ Plain(path[i + n + 1], Slash)
Shifty(path) ==
  \E i \in DOMAIN path :
    /\ Plain(path[i], Slash)
    /\ \/ i < Len(path) /\ Plain(path[i + 1], Slash)
       \/ \E n \in 1..2 : /\ Segment(path, i, n)
                          /\ \A j \in (i + 1)..(i + n) : Plain(path[j], Dot)

Accepted(path) ==
  /\ Len(path) > 0 /\ Plain(path[1], Slash)
  /\ Size(path) <= MaxPath
  /\ \A i \in DOMAIN path :
       /\ path[i].byte >= 32
       /\ path[i].byte \notin Ambiguous \cup {Delete, Percent}
       /\ path[i].byte = Slash => ~path[i].encoded
  /\ Bytes(path) \in UTF8
  /\ Size(Canon(path)) <= MaxPath
  /\ ~Shifty(Canon(path))

CanonicalPath(path) == IF Accepted(path) THEN Canon(path) ELSE path

ValidPath(p) == p.op \in {"exact", "segment_prefix"} /\ Accepted(p.value)
NormalPath(p) == [op |-> p.op, value |-> CanonicalPath(p.value)]

-----------------------------------------------------------------------------
(* Networks.  An entry of an address list that parses has a family, the bits  *)
(* of an address and how many of them count, all of them for a bare address;  *)
(* `spelling` is how it is written, "canonical" or not.                       *)

Masked(e) ==
  [e EXCEPT !.bits = [i \in DOMAIN e.bits |-> IF i <= e.length THEN e.bits[i] ELSE 0],
            !.spelling = "canonical"]
Network(e) == IF e.parses THEN Masked(e) ELSE e
Networks(x) == Unique([i \in DOMAIN Listed(x) |-> Network(Listed(x)[i])])

ValidCIDRs(x) ==
  /\ Len(Listed(x)) <= 256
  /\ \A e \in Elements(Listed(x)) : e.parses /\ e.spelling # "zoned"

-----------------------------------------------------------------------------
(* The TCP policy: `enabled`, and for each port the lists of those who may    *)
(* and may not connect.                                                       *)

WireL4(d) == [enabled |-> TRUE \in d.enabled, tcp_80 |-> d.tcp_80, tcp_443 |-> d.tcp_443]

HclTCP(x) == {[allow_cidrs |-> NonEmpty(t.allow_cidrs),
               deny_cidrs |-> NonEmpty(t.deny_cidrs)] : t \in x}
HclL4(w) == [enabled |-> IF w.enabled THEN {TRUE} ELSE {},
             tcp_80 |-> HclTCP(w.tcp_80), tcp_443 |-> HclTCP(w.tcp_443)]

Restricts(t) == Listed(t.allow_cidrs) # <<>> \/ Listed(t.deny_cidrs) # <<>>
NormalTCP(x) == {[allow_cidrs |-> Networks(t.allow_cidrs),
                  deny_cidrs |-> Networks(t.deny_cidrs)] : t \in {t \in x : Restricts(t)}}
NormalL4(w) == [enabled |-> w.enabled,
                tcp_80 |-> NormalTCP(w.tcp_80), tcp_443 |-> NormalTCP(w.tcp_443)]

ValidateL4(w) ==
  \A t \in w.tcp_80 \cup w.tcp_443 : ValidCIDRs(t.allow_cidrs) /\ ValidCIDRs(t.deny_cidrs)

-----------------------------------------------------------------------------
(* Whose word is taken for the address of a client.  No mode is "".           *)

Text(x) == IF x = {} THEN "" ELSE CHOOSE t \in x : TRUE
WireIP(d) == [mode |-> Text(d.mode),
              trusted_proxy_cidrs |-> d.trusted_proxy_cidrs]
HclIP(w) == [mode |-> IF w.mode = "" THEN {} ELSE {w.mode},
             trusted_proxy_cidrs |-> NonEmpty(w.trusted_proxy_cidrs)]
NormalIP(w) == [mode |-> IF w.mode = "peer" THEN "" ELSE w.mode,
                trusted_proxy_cidrs |-> Networks(w.trusted_proxy_cidrs)]
ValidateClientIP(w) ==
  /\ w.mode \in {"", "peer", "trusted_xff"}
  /\ ValidCIDRs(w.trusted_proxy_cidrs)
  /\ w.mode = "trusted_xff" <=> Listed(w.trusted_proxy_cidrs) # <<>>

-----------------------------------------------------------------------------
(* The HTTP policy: named policies, each with a scope, named rules that allow *)
(* and deny, and named header requirements.  A header's name is a word and    *)
(* the capitals it is written with.                                           *)

KeyedArray(x) == UNION {{<<k, map[k]>> : k \in DOMAIN map} : map \in x}
ArrayMap(S) == [k \in {e[1] : e \in S} |-> CHOOSE v \in {e[2] : e \in S} : <<k, v>> \in S]
HclMap(S) == IF S = {} THEN {} ELSE {ArrayMap(S)}

WirePolicy(p) == [scope |-> p.scope,
                  allow_rules |-> KeyedArray(p.allow_rules),
                  deny_rules |-> KeyedArray(p.deny_rules),
                  required_headers |-> KeyedArray(p.required_headers)]
WireL7(d) == [enabled |-> TRUE \in d.enabled,
              policies |-> {<<e[1], WirePolicy(e[2])>> : e \in KeyedArray(d.policies)}]

HclHeader(h) == [name |-> h.name, op |-> h.op, values |-> NonEmpty(h.values)]
HclMatch(m) ==
  [source_cidrs |-> NonEmpty(m.source_cidrs), path |-> m.path, methods |-> NonEmpty(m.methods),
   headers |-> {[i \in DOMAIN list |-> HclHeader(list[i])] : list \in NonEmpty(m.headers)},
   match_all |-> m.match_all]
HclRules(S) == HclMap({<<e[1], HclMatch(e[2])>> : e \in S})
HclPolicy(p) ==
  [scope |-> p.scope,
   allow_rules |-> HclRules(p.allow_rules), deny_rules |-> HclRules(p.deny_rules),
   required_headers |-> HclMap({<<e[1], HclHeader(e[2])>> : e \in p.required_headers})]
HclL7(w) == [enabled |-> IF w.enabled THEN {TRUE} ELSE {},
             policies |-> HclMap({<<e[1], HclPolicy(e[2])>> : e \in w.policies})]

NormalHeader(h) == [name |-> h.name.word, op |-> h.op, values |-> Unique(Listed(h.values))]
NormalMatch(m) ==
  [source_cidrs |-> Networks(m.source_cidrs), path |-> {NormalPath(p) : p \in m.path},
   methods |-> Unique(Listed(m.methods)),
   headers |-> [i \in DOMAIN Listed(m.headers) |-> NormalHeader(Listed(m.headers)[i])],
   match_all |-> m.match_all]
NormalRules(S) == {<<e[1], NormalMatch(e[2])>> : e \in S}
ScopePath(p) == UNION {s.path : s \in p.scope}
NormalPolicy(p) ==
  [scope |-> {NormalPath(q) : q \in ScopePath(p)},
   allow_rules |-> NormalRules(p.allow_rules), deny_rules |-> NormalRules(p.deny_rules),
   required_headers |-> {<<e[1], NormalHeader(e[2])>> : e \in p.required_headers}]
NormalL7(w) == [enabled |-> w.enabled,
                policies |-> {<<e[1], NormalPolicy(e[2])>> : e \in w.policies}]

ValidHeader(h) ==
  /\ h.name.word \in HeaderNames
  /\ Len(Listed(h.values)) <= 16 /\ Elements(Listed(h.values)) \subseteq HeaderValues
  /\ \/ h.op = "eq" /\ Len(Listed(h.values)) = 1
     \/ h.op = "in" /\ Listed(h.values) # <<>>
     \/ h.op \in {"present", "absent", "non_empty"} /\ Listed(h.values) = <<>>
ValidMatch(m) ==
  /\ m.match_all =
       IF m.source_cidrs = {} /\ m.path = {} /\ m.methods = {} /\ m.headers = {} THEN {TRUE} ELSE {}
  /\ <<>> \notin m.source_cidrs /\ <<>> \notin m.methods /\ <<>> \notin m.headers
  /\ ValidCIDRs(m.source_cidrs) /\ \A p \in m.path : ValidPath(p)
  /\ Len(Listed(m.methods)) <= 16 /\ Elements(Listed(m.methods)) \subseteq Methods
  /\ Len(Listed(m.headers)) <= 8
  /\ \A h \in Elements(Listed(m.headers)) : ValidHeader(h)

Names(S) == {e[1] : e \in S}
ValidPolicy(p) ==
  LET all == Names(p.allow_rules) \cup Names(p.deny_rules) \cup Names(p.required_headers) IN
  /\ all # {} /\ all \subseteq Keys
  /\ Cardinality(all) =
       Cardinality(p.allow_rules) + Cardinality(p.deny_rules) + Cardinality(p.required_headers)
  /\ \A q \in ScopePath(p) : ValidPath(q)
  /\ \A e \in p.allow_rules \cup p.deny_rules : ValidMatch(e[2])
  /\ \A e \in p.required_headers : ValidHeader(e[2])
  /\ Cardinality(p.required_headers) <= 8
ValidateL7(w) ==
  /\ Cardinality(w.policies) <= 8 /\ Names(w.policies) \subseteq Keys
  /\ \A e \in w.policies : ValidPolicy(e[2])
  /\ Cardinality(UNION {{e[1]} \X Names(e[2].allow_rules \cup e[2].deny_rules) :
                           e \in w.policies}) <= 64

-----------------------------------------------------------------------------
(* What the resources call.  A written policy is {} or {d}, the API's {} or   *)
(* {w}.  One that may not be sent never becomes the empty document.           *)

Sendable(d) == d \notin {Unresolved, Holed} \cup TooLarge
L4(v) == \A d \in v : Sendable(d) /\ ValidateL4(WireL4(d))
L7(v) == \A d \in v : Sendable(d) /\ ValidateL7(WireL7(d))
ClientIP(v) == \A d \in v : Sendable(d) /\ ValidateClientIP(WireIP(d))

\* The check of a configuration, which waits for what is not known.
ValidateObject(v, accepts) == v = {Unresolved} \/ accepts

\* The state after a read: the policy as written for as long as it says the
\* same, or else the API's.
FromL4(v, api) ==
  IF L4(v) /\ \E d \in v, w \in api : NormalL4(WireL4(d)) = NormalL4(w)
  THEN v ELSE {HclL4(w) : w \in api}
FromL7(v, api) ==
  IF L7(v) /\ \E d \in v, w \in api : NormalL7(WireL7(d)) = NormalL7(w)
  THEN v ELSE {HclL7(w) : w \in api}
FromClientIP(v, api) ==
  IF ClientIP(v) /\ \E d \in v, w \in api : NormalIP(WireIP(d)) = NormalIP(w)
  THEN v ELSE {HclIP(w) : w \in api}

\* After an apply: what was sent is what the API now has.
GatewayConfirmed(l4, l7, ip, gateway) ==
  /\ \A d \in l4 : {NormalL4(WireL4(d))} = {NormalL4(w) : w \in gateway.l4_policy}
  /\ \A d \in l7 : {NormalL7(WireL7(d))} = {NormalL7(w) : w \in gateway.l7_policy}
  /\ \A d \in ip : {NormalIP(WireIP(d))} = {NormalIP(w) : w \in gateway.client_ip_policy}

-----------------------------------------------------------------------------
(* What the platform makes of a document it holds, as the descriptions of the *)
(* attributes state it.                                                       *)

Covers(e, address) ==
  /\ e.parses /\ e.family = address.family
  /\ \A i \in DOMAIN e.bits : i <= e.length => e.bits[i] = address.bits[i]
Within(list, address) == \E e \in Elements(list) : Covers(e, address)

\* Deny wins; an empty allow list restricts nothing.
Connects(w, port, peer) ==
  w.enabled =>
    \A t \in w[port] :
      /\ ~Within(Listed(t.deny_cidrs), peer)
      /\ Listed(t.allow_cidrs) # <<>> => Within(Listed(t.allow_cidrs), peer)

Trusts(w, proxy) == w.mode = "trusted_xff" /\ Within(Listed(w.trusted_proxy_cidrs), proxy)

\* A request has the address of its client, a canonical path, a method, and
\* headers, a function of their words.
Prefixes(path, whole) ==
  /\ Len(path) < Len(whole)
  /\ \A i \in DOMAIN path : path[i] = whole[i]
  /\ Plain(whole[Len(path) + 1], Slash)
OnPath(p, request) ==
  \/ request.path = CanonicalPath(p.value)
  \/ p.op = "segment_prefix" /\ Prefixes(CanonicalPath(p.value), request.path)
HasHeader(h, request) ==
  LET there == h.name.word \in DOMAIN request.headers IN
  \/ h.op = "present" /\ there
  \/ h.op = "absent" /\ ~there
  \/ h.op = "non_empty" /\ there /\ request.headers[h.name.word] # ""
  \/ h.op \in {"eq", "in"} /\ there /\ request.headers[h.name.word] \in Elements(Listed(h.values))
Meets(m, request) ==
  /\ Listed(m.source_cidrs) # <<>> => Within(Listed(m.source_cidrs), request.client)
  /\ \A p \in m.path : OnPath(p, request)
  /\ Listed(m.methods) # <<>> => request.method \in Elements(Listed(m.methods))
  /\ \A i \in DOMAIN Listed(m.headers) : HasHeader(Listed(m.headers)[i], request)
Satisfied(p, request) ==
  (\A q \in ScopePath(p) : OnPath(q, request)) =>
    /\ p.allow_rules # {} => \E e \in p.allow_rules : Meets(e[2], request)
    /\ ~\E e \in p.deny_rules : Meets(e[2], request)
    /\ \A e \in p.required_headers : HasHeader(e[2], request)
LetsIn(w, request) == w.enabled => \A e \in w.policies : Satisfied(e[2], request)
=============================================================================
