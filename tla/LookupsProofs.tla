---------------------------- MODULE LookupsProofs ----------------------------
(* What a lookup of Lookups may be relied on for, for every list, every       *)
(* object and every configuration.                                            *)
EXTENDS Lookups, WellFoundedInduction, TLAPS

LEMMA LeastExists ==
  ASSUME NEW S \in SUBSET Nat, S # {}
  PROVE  Least(S) \in S /\ \A j \in S : Least(S) <= j
<1> DEFINE Below == {ss \in Nat \X Nat : ss[1] < ss[2]}
<1>1. IsWellFoundedOn(Below, Nat)
  BY NatLessThanWellFounded, Zenon DEF OpToRel
<1>2. \E i \in S : \A j \in S : <<j, i>> \notin Below
  BY <1>1, WFMin
<1>3. \A i, j \in Nat : j < i => <<j, i>> \in Below
  BY Zenon
<1> HIDE DEF Below
<1>4. PICK i \in S : \A j \in S : <<j, i>> \notin Below
  BY <1>2
<1>5. ASSUME NEW j \in S PROVE i <= j
  <2>1. ~(j < i)
    BY <1>3, <1>4, Zenon
  <2>2. QED
    BY <2>1
<1>6. QED
  BY <1>5 DEF Least

\* A scan that returns at the first match finds one whenever there is one, and
\* nothing before what it returns matches (the loops of client/*.go).
LEMMA FirstMatch ==
  ASSUME NEW Items, NEW list \in Seq(Items), NEW want
  PROVE  \/ /\ \A i \in 1..Len(list) : ~Matches(list[i], want)
            /\ First(list, want) = No("missing")
         \/ \E i \in 1..Len(list) :
              /\ First(list, want) = Found(list[i]) /\ Matches(list[i], want)
              /\ \A j \in 1..(i - 1) : ~Matches(list[j], want)
<1> DEFINE H == Hits(list, want)
<1>1. H \in SUBSET Nat /\ \A i : i \in H <=> i \in 1..Len(list) /\ Matches(list[i], want)
  BY DEF Hits
<1>2. CASE H = {}
  BY <1>1, <1>2 DEF First
<1>3. CASE H # {}
  <2>1. Least(H) \in H /\ \A j \in H : Least(H) <= j
    BY <1>1, <1>3, LeastExists
  <2>2. First(list, want) = Found(list[Least(H)])
    BY <1>3 DEF First
  <2>3. \A j \in 1..(Least(H) - 1) : j \notin H
    BY <1>1, <2>1
  <2>4. \A j \in 1..(Least(H) - 1) : j \in 1..Len(list)
    BY <1>1, <2>1
  <2>5. QED
    BY <1>1, <2>1, <2>2, <2>3, <2>4
<1>4. QED
  BY <1>2, <1>3

\* Where several objects may share a name, the data source never picks one:
\* it returns an object exactly when that is the only match, and otherwise
\* says whether there was none or more than one.
LEMMA NeverGuesses ==
  ASSUME NEW Items, NEW list \in Seq(Items), NEW want
  PROVE  /\ Hits(list, want) = {} => Only(list, want) = No("missing")
         /\ \A i : Hits(list, want) = {i} => Only(list, want) = Found(list[i])
         /\ (\E i, j \in Hits(list, want) : i # j) => Only(list, want) = No("ambiguous")
<1> DEFINE H == Hits(list, want)
<1>1. H \in SUBSET Nat
  BY DEF Hits
<1>2. H = {} => Only(list, want) = No("missing")
  BY DEF Only, First
<1>3. ASSUME NEW i, H = {i} PROVE Only(list, want) = Found(list[i])
  <2>1. Least(H) = i
    BY <1>1, <1>3, LeastExists
  <2>2. QED
    BY <1>3, <2>1 DEF Only, First
<1>4. QED
  BY <1>2, <1>3 DEF Only

\* The order in which the API lists objects, which it does not promise, never
\* shows in the answer of such a lookup.
THEOREM OrderNeverShows ==
  ASSUME NEW Items, NEW one \in Seq(Items), NEW other \in Seq(Items), NEW want,
         NEW p \in [DOMAIN one -> DOMAIN other],
         \A i, j \in DOMAIN one : p[i] = p[j] => i = j,
         \A k \in DOMAIN other : \E i \in DOMAIN one : p[i] = k,
         \A i \in DOMAIN one : other[p[i]] = one[i]
  PROVE  Only(one, want) = Only(other, want)
<1> DEFINE H == Hits(one, want)
           G == Hits(other, want)
<1>1. H \subseteq DOMAIN one /\ G \subseteq DOMAIN other
  BY DEF Hits
<1>2. \A i \in DOMAIN one : i \in H <=> p[i] \in G
  BY DEF Hits, Matches
<1>3. CASE H = {}
  <2>1. G = {}
    BY <1>1, <1>2, <1>3
  <2>2. QED
    BY <1>3, <2>1, NeverGuesses
<1>4. CASE \E i, j \in H : i # j
  <2>1. \E i, j \in G : i # j
    BY <1>1, <1>2, <1>4
  <2>2. QED
    BY <1>4, <2>1, NeverGuesses
<1>5. ASSUME NEW i, H = {i} PROVE Only(one, want) = Only(other, want)
  <2>1. G = {p[i]}
    BY <1>1, <1>2, <1>5
  <2>2. one[i] = other[p[i]]
    BY <1>1, <1>5
  <2>3. Only(one, want) = Found(one[i])
    <3>1. \A k : H = {k} => Only(one, want) = Found(one[k])
      BY NeverGuesses
    <3>2. QED
      BY <1>5, <3>1
  <2>4. Only(other, want) = Found(other[p[i]])
    <3>1. \A k : G = {k} => Only(other, want) = Found(other[k])
      BY NeverGuesses
    <3>2. QED
      BY <2>1, <3>1
  <2>5. QED
    BY <2>2, <2>3, <2>4
<1>6. ASSUME H # {}, ~\E i, j \in H : i # j
      PROVE  Only(one, want) = Only(other, want)
  <2> HIDE DEF H
  <2>1. PICK i : i \in H
    BY <1>6
  <2>2. H = {i}
    BY <1>6, <2>1
  <2>3. QED
    BY <1>5, <2>2
<1>7. QED
  BY <1>3, <1>4, <1>6

-----------------------------------------------------------------------------
(* The client's getters.                                                      *)

\* A getter built on a list reports the 404 on which Read drops a resource from
\* the state exactly when the list was answered and holds no such id; a list
\* that failed is never taken for an empty one (client.go, appgw.go, dns.go).
THEOREM MissingMeansUnlisted ==
  ASSUME NEW Items, NEW api, api.list \in Seq(Items), api.up \in BOOLEAN, NEW id
  PROVE  /\ GetById(api, id) = No("missing")
              <=> api.up /\ \A i \in DOMAIN api.list : api.list[i].id # id
         /\ GetById(api, id).found
              => \E i \in DOMAIN api.list :
                   api.list[i].id = id /\ GetById(api, id) = Found(api.list[i])
<1> DEFINE want == [id |-> id]
<1>1. \A x : Matches(x, want) <=> x.id = id
  BY DEF Matches
<1>2. \A x : Found(x).found /\ Found(x) # No("missing")
  BY DEF Found, No
<1>3. ~No("missing").found /\ ~No("failed").found /\ No("failed") # No("missing")
  BY DEF No
<1>4. GetById(api, id) = IF api.up THEN First(api.list, want) ELSE No("failed")
  BY DEF GetById, ListedFirst
<1> HIDE DEF want
<1>5. CASE ~api.up
  BY <1>3, <1>4, <1>5
<1>6. CASE api.up
  <2>1. CASE First(api.list, want) = No("missing")
    <3>1. \A i \in DOMAIN api.list : ~Matches(api.list[i], want)
      BY <1>2, <2>1, FirstMatch
    <3>2. QED
      BY <1>1, <1>3, <1>4, <1>6, <2>1, <3>1
  <2>2. ASSUME NEW i \in DOMAIN api.list, First(api.list, want) = Found(api.list[i]),
               Matches(api.list[i], want)
        PROVE  /\ api.list[i].id = id /\ GetById(api, id) = Found(api.list[i])
               /\ GetById(api, id).found /\ GetById(api, id) # No("missing")
    BY <1>1, <1>2, <1>4, <1>6, <2>2
  <2>3. QED
    BY <1>6, <2>1, <2>2, FirstMatch
<1>7. QED
  BY <1>5, <1>6

\* MissingMeansUnlisted for the VNets of one VPC that may not have answered.
VNetFacts(b, id) ==
  /\ GetVNet(b, id).found
       => /\ b.up
          /\ \E i \in DOMAIN b.list : b.list[i].id = id /\ GetVNet(b, id) = Found(b.list[i])
  /\ ~GetVNet(b, id).found
       => (b.up => \A i \in DOMAIN b.list : b.list[i].id # id)

LEMMA VNetListed ==
  ASSUME NEW Items, NEW b, b.list \in Seq(Items), b.up \in BOOLEAN, NEW id
  PROVE  VNetFacts(b, id)
<1>1. b.up => GetById(b, id).found \/ GetById(b, id) = No("missing")
  BY FirstMatch DEF GetById, ListedFirst, Found
<1>2. GetById(b, id).found => b.up
  BY DEF GetById, ListedFirst, No
<1>3. QED
  BY <1>1, <1>2, MissingMeansUnlisted DEF GetVNet, VNetFacts

\* The search for a VNet without its VPC (FindVNetByID): what it returns is in
\* the list of a VPC that answered, and "missing" speaks only of the VPCs that
\* answered: it is the truth about all of them only when every list was read.
THEOREM FindVNetByIDSound ==
  ASSUME NEW Items, NEW VPCs, NEW api, NEW id, id # Null, api.up,
         api.list \in Seq(VPCs),
         \A v \in VPCs : /\ api.below[v.id].list \in Seq(Items)
                        /\ api.below[v.id].up \in BOOLEAN
  PROVE  /\ FindVNetByID(api, id).found
              => \E v \in VPCs : \E i \in DOMAIN api.below[v.id].list :
                   /\ api.below[v.id].up /\ api.below[v.id].list[i].id = id
                   /\ FindVNetByID(api, id) = Found(api.below[v.id].list[i])
         /\ FindVNetByID(api, id) = No("missing")
              <=> \A v \in DOMAIN api.list :
                    LET below == api.below[api.list[v].id] IN
                    below.up => \A i \in DOMAIN below.list : below.list[i].id # id
<1> DEFINE below(v) == api.below[api.list[v].id]
           H == Holding(api, id)
<1>1. \A v \in DOMAIN api.list :
        /\ api.list[v] \in VPCs /\ below(v).list \in Seq(Items) /\ below(v).up \in BOOLEAN
  OBVIOUS
<1>2. \A v \in DOMAIN api.list : VNetFacts(below(v), id)
  <2> DEFINE listed(b) == b.list \in Seq(Items) /\ b.up \in BOOLEAN
  <2>1. \A b : listed(b) => VNetFacts(b, id)
    BY VNetListed
  <2>2. \A v \in DOMAIN api.list : listed(below(v))
    BY <1>1
  <2> HIDE DEF listed
  <2>3. QED
    BY <2>1, <2>2
<1>3. H \in SUBSET Nat
  BY DEF Holding
<1>4. \A v : v \in H <=> v \in DOMAIN api.list /\ GetVNet(below(v), id).found
  BY DEF Holding
<1>5. CASE H = {}
  <2>1. FindVNetByID(api, id) = No("missing")
    BY <1>5 DEF FindVNetByID
  <2>2. ~No("missing").found
    BY DEF No
  <2>3. QED
    BY <1>2, <1>4, <1>5, <2>1, <2>2 DEF VNetFacts
<1>6. CASE H # {}
  <2>1. Least(H) \in H
    BY <1>3, <1>6, LeastExists
  <2>2. FindVNetByID(api, id) = GetVNet(below(Least(H)), id)
    BY <1>6 DEF FindVNetByID
  <2>3. Least(H) \in DOMAIN api.list /\ GetVNet(below(Least(H)), id).found
    BY <1>4, <2>1
  <2>4. ~No("missing").found
    BY DEF No
  <2>5. PICK v \in DOMAIN api.list : v = Least(H)
    BY <2>3
  <2>6. PICK i \in DOMAIN below(v).list :
          /\ below(v).up /\ below(v).list[i].id = id
          /\ FindVNetByID(api, id) = Found(below(v).list[i])
    <3>1. VNetFacts(below(v), id)
      BY <1>2
    <3>2. FindVNetByID(api, id) = GetVNet(below(v), id) /\ GetVNet(below(v), id).found
      BY <2>2, <2>3, <2>5
    <3> HIDE DEF below
    <3>3. QED
      BY <3>1, <3>2 DEF VNetFacts
  <2>7. api.list[v] \in VPCs /\ FindVNetByID(api, id) # No("missing")
    BY <1>1, <2>2, <2>3, <2>4
  <2>8. QED
    BY <2>6, <2>7
<1>7. QED
  BY <1>5, <1>6

\* The plan-time notice is never false: it is given only for a VNet that a VPC
\* lists under this id with snat off, whatever lists failed on the way; and it
\* is never given for want of an answer (snatvalidator/snatvalidator.go).
THEOREM SnatNoticeTrue ==
  ASSUME NEW Items, NEW VPCs, NEW api, NEW id, api.up \in BOOLEAN,
         api.list \in Seq(VPCs),
         \A v \in VPCs : /\ api.below[v.id].list \in Seq(Items)
                        /\ api.below[v.id].up \in BOOLEAN,
         CheckVnetSnat(api, id)
  PROVE  \E v \in VPCs : \E i \in DOMAIN api.below[v.id].list :
           /\ api.up /\ api.below[v.id].up
           /\ api.below[v.id].list[i].id = id /\ ~api.below[v.id].list[i].snat
<1>1. FindVNetByID(api, id).found /\ ~FindVNetByID(api, id).item.snat
  BY DEF CheckVnetSnat
<1>2. id # Null /\ api.up
  BY <1>1 DEF FindVNetByID, No
<1>3. PICK v \in VPCs : \E i \in DOMAIN api.below[v.id].list :
        /\ api.below[v.id].up /\ api.below[v.id].list[i].id = id
        /\ FindVNetByID(api, id) = Found(api.below[v.id].list[i])
  BY <1>1, <1>2, FindVNetByIDSound
<1>4. \A x : Found(x).item = x
  BY DEF Found
<1>5. QED
  BY <1>1, <1>2, <1>3, <1>4

-----------------------------------------------------------------------------
(* Data sources.                                                              *)

\* A data source that looks an object up by name (or name and region) returns
\* one that has every argument asked for and is alone in the list with them.
THEOREM UniqueReadIsUnique ==
  ASSUME NEW Items, NEW api, api.list \in Seq(Items), api.up \in BOOLEAN,
         NEW cfg, NEW fields, ~Asked(cfg, "id"), Unique(cfg, fields, api).found
  PROVE  \E i \in DOMAIN api.list :
           /\ Unique(cfg, fields, api) = Found(api.list[i])
           /\ \A f \in fields : Asked(cfg, f) /\ api.list[i][f] = cfg[f]
           /\ \A j \in DOMAIN api.list :
                (\A f \in fields : api.list[j][f] = cfg[f]) => j = i
<1> DEFINE want == Wanted(cfg, fields)
           H == Hits(api.list, want)
<1>1. \A x : Matches(x, want) <=> \A f \in fields : x[f] = cfg[f]
  BY DEF Matches, Wanted
<1>2. \A i : i \in H <=> i \in DOMAIN api.list /\ Matches(api.list[i], want)
  BY DEF Hits
<1>3. \A why : ~No(why).found
  BY DEF No
<1>4. /\ \A f \in fields : Asked(cfg, f)
      /\ api.up /\ Unique(cfg, fields, api) = Only(api.list, want)
  BY <1>3 DEF Unique, Choose, WellAsked, ListedOnly
<1> HIDE DEF want
<1>5. H # {} /\ ~\E i, j \in H : i # j
  BY <1>3, <1>4, NeverGuesses
<1>6. PICK i : i \in H
  BY <1>5
<1>7. H = {i}
  BY <1>5, <1>6
<1>8. Only(api.list, want) = Found(api.list[i])
  BY <1>7, NeverGuesses
<1>9. QED
  BY <1>1, <1>2, <1>4, <1>6, <1>7, <1>8

\* A scale set has the same members whichever way it is looked up: by its id
\* or by a name the list gives to that id alone, as long as the detail can be
\* read (#75, containerscaleset.go and vmscaleset.go:160-165).
THEOREM ScaleSetSameEitherWay ==
  ASSUME NEW Items, NEW api, api.list \in Seq(Items), api.up, NEW id, id # Null,
         NEW detail, api.get[id] = Found(detail), detail.members # Null,
         NEW byId, Asked(byId, "id"), byId.id = id,
         WellAsked(byId, {"name", "region"}),
         NEW byName, ~Asked(byName, "id"), WellAsked(byName, {"name", "region"}),
         NEW k, Hits(api.list, Wanted(byName, {"name", "region"})) = {k},
         api.list[k].id = id, api.list[k].members = Null
  PROVE  /\ ReadVMScaleSet(byId, api) = Found(detail)
         /\ ReadVMScaleSet(byName, api) = Found(detail)
         /\ ReadContainerScaleSet(byName, api) = ReadContainerScaleSet(byId, api)
<1>1. \A x : Found(x).found /\ Found(x).item = x
  BY DEF Found
<1>2. Unique(byId, {"name", "region"}, api) = Found(detail)
  BY DEF Unique, Choose
<1>3. Unique(byName, {"name", "region"}, api) = Found(api.list[k])
  <2>1. Only(api.list, Wanted(byName, {"name", "region"})) = Found(api.list[k])
    BY NeverGuesses
  <2>2. QED
    BY <2>1 DEF Unique, Choose, ListedOnly
<1>4. WithMembers(Found(detail), api) = Found(detail)
  BY <1>1 DEF WithMembers
<1>5. WithMembers(Found(api.list[k]), api) = Found(detail)
  BY <1>1 DEF WithMembers
<1>6. QED
  BY <1>2, <1>3, <1>4, <1>5 DEF ReadVMScaleSet, ReadContainerScaleSet
=============================================================================
