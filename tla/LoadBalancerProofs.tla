-------------------------- MODULE LoadBalancerProofs --------------------------
(***************************************************************************)
(* What an update of a load balancer does, for any listeners, backends,    *)
(* configurations and bounds.  The invariant follows an update half way:   *)
(* what its calls have not reached yet is as in the state, the rest as in  *)
(* the plan.                                                               *)
(***************************************************************************)
EXTENDS LoadBalancer, TLAPS

-----------------------------------------------------------------------------
(* Calls and their effects.                                                *)

\* The calls of an update, one kind after the other.
LEMMA CallsAre ==
  ASSUME NEW p, NEW s, NEW c
  PROVE  c \in Calls(p, s) <=>
           \/ c = PatchCall /\ p.page # s.page
           \/ c = AddressCall /\ p.address # s.address
           \/ \E k \in InBoth(p, s) :
                c = Rotation(k) /\ CertRotationNeeded(p.listeners[k], s.listeners[k])
           \/ \E k \in InBoth(p, s), t \in Targets :
                c = BackendCall(k, t) /\ p.listeners[k].pool[t] # s.listeners[k].pool[t]
<1>1. c \in {PatchCall : x \in {p.page} \ {s.page}} <=> c = PatchCall /\ p.page # s.page
  OBVIOUS
<1>2. c \in {AddressCall : x \in {p.address} \ {s.address}}
        <=> c = AddressCall /\ p.address # s.address
  OBVIOUS
<1>3. QED BY <1>1, <1>2 DEF Calls

\* The kinds of calls are told apart, and so are the listeners and backends.
LEMMA CallsDiffer ==
  ASSUME NEW k, NEW t, NEW j, NEW u
  PROVE  /\ PatchCall # AddressCall /\ PatchCall # Rotation(k) /\ PatchCall # BackendCall(k, t)
         /\ AddressCall # Rotation(k) /\ AddressCall # BackendCall(k, t)
         /\ Rotation(k) # BackendCall(j, t)
         /\ Rotation(k) = Rotation(j) => k = j
         /\ BackendCall(k, t) = BackendCall(j, u) => k = j /\ t = u
  BY DEF PatchCall, AddressCall, Rotation, BackendCall, Call

\* A PATCH writes the page and nothing else.
LEMMA EffectOfPatch ==
  ASSUME NEW lb \in Balancer, NEW c \in Balancer
  PROVE  LET e == Effect(lb, PatchCall, c) IN
         /\ e \in Balancer /\ e.page = TrimSpace(c.page)
         /\ e.address = lb.address /\ e.listeners = lb.listeners
<1>1. Effect(lb, PatchCall, c) = [lb EXCEPT !.page = TrimSpace(c.page)]
  BY DEF Effect, PatchCall, Call
<1>2. TrimSpace(c.page) \in Opt(Page) BY DEF TrimSpace, Balancer, Opt, Page
<1>3. QED BY <1>1, <1>2 DEF Balancer

LEMMA EffectOfAddress ==
  ASSUME NEW lb \in Balancer, NEW c \in Balancer
  PROVE  LET e == Effect(lb, AddressCall, c) IN
         /\ e \in Balancer /\ e.page = lb.page
         /\ e.address = c.address /\ e.listeners = lb.listeners
<1>1. Effect(lb, AddressCall, c) = [lb EXCEPT !.address = c.address]
  BY DEF Effect, AddressCall, Call
<1>2. QED BY <1>1 DEF Balancer

\* A rotation writes the certificate of one listener.
LEMMA EffectOfRotation ==
  ASSUME NEW lb \in Balancer, NEW c \in Balancer, NEW k \in Keys,
         lb.listeners[k] # Null, c.listeners[k] # Null
  PROVE  LET e == Effect(lb, Rotation(k), c) IN
         /\ e \in Balancer /\ e.page = lb.page /\ e.address = lb.address
         /\ \A j \in Keys \ {k} : e.listeners[j] = lb.listeners[j]
         /\ e.listeners[k] \in Listener
         /\ e.listeners[k].challenge = lb.listeners[k].challenge
         /\ e.listeners[k].settings = lb.listeners[k].settings
         /\ e.listeners[k].pool = lb.listeners[k].pool
         /\ e.listeners[k].certificate = c.listeners[k].certificate
<1> DEFINE x == c.listeners[k].certificate
           l == [lb.listeners[k] EXCEPT !.certificate = x]
<1>1. Effect(lb, Rotation(k), c) = [lb EXCEPT !.listeners[k].certificate = x]
  BY DEF Effect, Rotation, Call
<1>2. lb.listeners[k] \in Listener /\ c.listeners[k] \in Listener
  BY DEF Balancer, Opt
<1>3. x \in Opt(Certificates) BY <1>2 DEF Listener
<1>4. /\ l \in Listener /\ l.certificate = x
      /\ l.challenge = lb.listeners[k].challenge /\ l.settings = lb.listeners[k].settings
      /\ l.pool = lb.listeners[k].pool
  BY <1>2, <1>3 DEF Listener
<1> DEFINE ls == [lb.listeners EXCEPT ![k] = l]
<1>5. ls \in [Keys -> Opt(Listener)] /\ ls[k] = l /\ \A j \in Keys \ {k} : ls[j] = lb.listeners[j]
  BY <1>4 DEF Balancer, Opt
<1>6. Effect(lb, Rotation(k), c) = [lb EXCEPT !.listeners = ls] BY <1>1
<1> HIDE DEF l, ls, x
<1>7. QED BY <1>4, <1>5, <1>6 DEF Balancer, x

\* A call for a backend writes that backend.
LEMMA EffectOfBackend ==
  ASSUME NEW lb \in Balancer, NEW c \in Balancer, NEW k \in Keys, NEW t \in Targets,
         lb.listeners[k] # Null, c.listeners[k] # Null
  PROVE  LET e == Effect(lb, BackendCall(k, t), c) IN
         /\ e \in Balancer /\ e.page = lb.page /\ e.address = lb.address
         /\ \A j \in Keys \ {k} : e.listeners[j] = lb.listeners[j]
         /\ e.listeners[k] \in Listener
         /\ e.listeners[k].challenge = lb.listeners[k].challenge
         /\ e.listeners[k].settings = lb.listeners[k].settings
         /\ e.listeners[k].certificate = lb.listeners[k].certificate
         /\ e.listeners[k].pool[t] = c.listeners[k].pool[t]
         /\ \A u \in Targets \ {t} : e.listeners[k].pool[u] = lb.listeners[k].pool[u]
<1> DEFINE x == c.listeners[k].pool[t]
           q == [lb.listeners[k].pool EXCEPT ![t] = x]
           l == [lb.listeners[k] EXCEPT !.pool = q]
           ls == [lb.listeners EXCEPT ![k] = l]
<1>1. Effect(lb, BackendCall(k, t), c) = [lb EXCEPT !.listeners[k].pool[t] = x]
  BY DEF Effect, BackendCall, Call
<1>2. Effect(lb, BackendCall(k, t), c) = [lb EXCEPT !.listeners = ls] BY <1>1
<1>3. lb.listeners[k] \in Listener /\ c.listeners[k] \in Listener
  BY DEF Balancer, Opt
<1>4. x \in Opt(Weights) BY <1>3 DEF Listener
<1>5. /\ q \in [Targets -> Opt(Weights)] /\ q[t] = x
      /\ \A u \in Targets \ {t} : q[u] = lb.listeners[k].pool[u]
  BY <1>3, <1>4 DEF Listener
<1> HIDE DEF q, x
<1>6. /\ l \in Listener /\ l.certificate = lb.listeners[k].certificate
      /\ l.challenge = lb.listeners[k].challenge /\ l.settings = lb.listeners[k].settings
      /\ l.pool = q
  BY <1>3, <1>5 DEF Listener
<1> HIDE DEF l
<1>7. ls \in [Keys -> Opt(Listener)] /\ ls[k] = l /\ \A j \in Keys \ {k} : ls[j] = lb.listeners[j]
  BY <1>6 DEF Balancer, Opt
<1> HIDE DEF ls
<1>8. QED BY <1>2, <1>5, <1>6, <1>7 DEF Balancer, x

-----------------------------------------------------------------------------
(* What is read back.                                                      *)

\* The state written from a GET shows the platform, secrets apart: those are
\* the prior model's.
LEMMA ReadBackIs ==
  ASSUME NEW lb \in Balancer, NEW prior \in [Keys -> Opt(Listener)], NEW page \in Opt(Page)
  PROVE  LET s == StateFromAPI(lb, prior, page) IN
         /\ s \in Balancer /\ s.page = FromAPI(page, lb.page) /\ s.address = lb.address
         /\ \A k \in Keys :
              /\ (s.listeners[k] = Null) <=> (lb.listeners[k] = Null)
              /\ lb.listeners[k] # Null =>
                   /\ s.listeners[k].challenge = lb.listeners[k].challenge
                   /\ s.listeners[k].settings = lb.listeners[k].settings
                   /\ s.listeners[k].pool = lb.listeners[k].pool
                   /\ s.listeners[k].certificate =
                        IF prior[k] = Null THEN Null ELSE prior[k].certificate
<1> DEFINE s == StateFromAPI(lb, prior, page)
           l(k) == CarryOver(lb.listeners[k], prior[k])
<1>1. s.page = FromAPI(page, lb.page) /\ s.address = lb.address
  BY DEF StateFromAPI
<1>2. s.page \in Opt(Page) /\ s.address \in Opt(Addresses)
  BY <1>1 DEF FromAPI, Balancer
<1>3. s.listeners = [k \in Keys |-> IF lb.listeners[k] = Null THEN Null ELSE l(k)]
  BY DEF StateFromAPI
<1>4. ASSUME NEW k \in Keys, lb.listeners[k] # Null
      PROVE  /\ l(k) \in Listener
             /\ l(k).challenge = lb.listeners[k].challenge
             /\ l(k).settings = lb.listeners[k].settings
             /\ l(k).pool = lb.listeners[k].pool
             /\ l(k).certificate = IF prior[k] = Null THEN Null ELSE prior[k].certificate
  <2>1. lb.listeners[k] \in Listener BY <1>4 DEF Balancer, Opt
  <2>2. prior[k] # Null => prior[k] \in Listener BY DEF Opt
  <2>3. /\ (IF prior[k] = Null THEN Null ELSE prior[k].credentials) \in Opt(Credentials)
        /\ (IF prior[k] = Null THEN Null ELSE prior[k].certificate) \in Opt(Certificates)
    BY <2>2 DEF Opt, Listener
  <2>4. QED BY <2>1, <2>3 DEF CarryOver, Listener
<1>5. Null \notin Listener BY LoadBalancerAssumption
<1> HIDE DEF l
<1>6. s.listeners \in [Keys -> Opt(Listener)] BY <1>3, <1>4 DEF Opt
<1>7. \A k \in Keys : s.listeners[k] = IF lb.listeners[k] = Null THEN Null ELSE l(k)
  BY <1>3
<1>8. s = [page |-> s.page, address |-> s.address, listeners |-> s.listeners]
  BY DEF StateFromAPI
<1>9. s \in Balancer BY <1>2, <1>6, <1>8 DEF Balancer
<1> HIDE DEF s
<1>10. QED BY <1>1, <1>4, <1>5, <1>7, <1>9 DEF s

\* What a platform that was brought to a configuration reads back as is that
\* configuration.
LEMMA RoundTrip ==
  ASSUME NEW lb \in Balancer, NEW c \in Balancer,
         lb.page = TrimSpace(c.page), lb.address = c.address,
         \A k \in Keys :
           /\ (lb.listeners[k] = Null) <=> (c.listeners[k] = Null)
           /\ c.listeners[k] # Null =>
                /\ lb.listeners[k].challenge = c.listeners[k].challenge
                /\ lb.listeners[k].settings = c.listeners[k].settings
                /\ lb.listeners[k].pool = c.listeners[k].pool
  PROVE  StateFromAPI(lb, c.listeners, c.page) = c
<1> DEFINE s == StateFromAPI(lb, c.listeners, c.page)
<1>1. FromAPI(c.page, lb.page) = c.page BY DEF FromAPI
<1>2. ASSUME NEW k \in Keys
      PROVE  (IF lb.listeners[k] = Null THEN Null
              ELSE CarryOver(lb.listeners[k], c.listeners[k])) = c.listeners[k]
  <2>1. CASE c.listeners[k] = Null BY <2>1
  <2>2. CASE c.listeners[k] # Null
    <3>1. lb.listeners[k] \in Listener /\ c.listeners[k] \in Listener
      BY <2>2 DEF Balancer, Opt
    <3>2. CarryOver(lb.listeners[k], c.listeners[k]) = c.listeners[k]
      BY <2>2, <3>1 DEF CarryOver, Listener
    <3>3. QED BY <2>2, <3>2
  <2>3. QED BY <2>1, <2>2
<1>3. s.listeners = c.listeners BY <1>2 DEF StateFromAPI, Balancer
<1>4. s = [page |-> c.page, address |-> c.address, listeners |-> c.listeners]
  BY <1>1, <1>3 DEF StateFromAPI
<1>5. QED BY <1>4 DEF Balancer

\* What a POST creates, and reads back as.
LEMMA CreatedIs ==
  ASSUME NEW c \in Configurations
  PROVE  /\ Created(c) \in Balancer /\ Valid(Created(c))
         /\ Created(c).page = Null /\ Created(c).address = c.address
         /\ Created(c).listeners = c.listeners
         /\ StateFromAPI(Created(c), c.listeners, Null) = Created(c)
<1>1. c \in Balancer /\ Valid(c) BY LoadBalancerAssumption
<1>2. /\ Created(c) \in Balancer /\ Created(c).page = Null
      /\ Created(c).address = c.address /\ Created(c).listeners = c.listeners
  BY <1>1 DEF Created, Balancer, Opt
<1>3. Valid(Created(c)) BY <1>1, <1>2 DEF Valid
<1>4. TrimSpace(Null) = Null BY DEF TrimSpace
<1>5. StateFromAPI(Created(c), Created(c).listeners, Created(c).page) = Created(c)
  BY <1>2, <1>4, RoundTrip
<1>6. QED BY <1>2, <1>3, <1>5

\* Trimming a page is done once.
LEMMA TrimmedOnce ==
  ASSUME NEW p \in Opt(Page)
  PROVE  TrimSpace(TrimSpace(p)) = TrimSpace(p) /\ TrimSpace(p) \in Opt(Page)
<1>1. CASE p = Null BY <1>1 DEF TrimSpace, Opt
<1>2. CASE p # Null
  <2>1. p \in Page BY <1>2 DEF Opt
  <2>2. TrimSpace(p) \in Page /\ TrimSpace(p).edges = FALSE
    BY <1>2, <2>1 DEF TrimSpace, Page
  <2>3. TrimSpace(p) # Null BY <2>2, LoadBalancerAssumption
  <2>4. [TrimSpace(p) EXCEPT !.edges = FALSE] = TrimSpace(p) BY <2>2 DEF Page
  <2>5. QED BY <2>2, <2>3, <2>4 DEF TrimSpace, Opt
<1>3. QED BY <1>1, <1>2

\* The page in the state, trimmed, is the one read back.
LEMMA PageReadBack ==
  ASSUME NEW p \in Opt(Page), NEW q \in Opt(Page), q = TrimSpace(q)
  PROVE  TrimSpace(FromAPI(p, q)) = q
  BY DEF FromAPI

-----------------------------------------------------------------------------
(* The invariant.                                                          *)

\* What the state knows of the platform: its listeners, and the certificate of
\* each unless a rotation escaped it.
Known ==
  /\ remote # Null => Valid(remote)
  /\ tf # Null /\ remote # Null => \A k \in Keys :
       /\ (tf.listeners[k] = Null) <=> (remote.listeners[k] = Null)
       /\ tf.listeners[k] # Null =>
            /\ tf.listeners[k].challenge = remote.listeners[k].challenge
            /\ tf.listeners[k].settings = remote.listeners[k].settings
            /\ k \notin stray =>
                 tf.listeners[k].certificate \in {Null, remote.listeners[k].certificate}

\* What a handler at work was asked for and has made of the state so far.
AtWork ==
  /\ pc # "update" => todo = {}
  /\ pc # "idle" => outcome = "none"
  /\ pc = "post" => plan # Null /\ tf = Null /\ remote = Null
  /\ pc = "created" => /\ plan # Null /\ tf = Created(plan)
                       /\ ~meddled => remote = Created(plan)
  /\ pc = "delete" => tf # Null

\* The calls of an update that are left, and those made.
Updating ==
  pc = "update" =>
    /\ plan # Null /\ tf # Null
    /\ ~ListenersRequireReplace(plan, tf)
    /\ todo \subseteq Calls(plan, tf)
    /\ \A k \in Keys : Rotation(k) \in Calls(plan, tf) /\ Rotation(k) \notin todo => k \in stray

\* Half way from state s to plan p, with the calls left still to be made: old what
\* is left to do, new what is done.
Between(lb, left, s, p) ==
  /\ lb # Null
  /\ lb.page = TrimSpace(IF PatchCall \in left THEN s.page ELSE p.page)
  /\ lb.address = IF AddressCall \in left THEN s.address ELSE p.address
  /\ \A k \in Keys : p.listeners[k] # Null =>
       /\ \A t \in Targets : lb.listeners[k].pool[t] =
            IF BackendCall(k, t) \in left THEN s.listeners[k].pool[t]
            ELSE p.listeners[k].pool[t]
       /\ Rotation(k) \in Calls(p, s) /\ Rotation(k) \notin left =>
            lb.listeners[k].certificate = p.listeners[k].certificate

\* An undisturbed update is half way.
HalfWay == pc = "update" /\ ~meddled => Between(remote, todo, tf, plan)

Inv == TypeOK /\ Known /\ AtWork /\ Updating /\ HalfWay
       /\ OkConverges /\ NoPermaDiff /\ ClashMeansMeddled

\* The initial state.
LEMMA InvInit == Init => Inv
<1> SUFFICES ASSUME Init PROVE Inv OBVIOUS
<1>1. TypeOK
  <2>1. ops \in 0..MaxOps /\ ext \in 0..MaxExternal BY LoadBalancerAssumption DEF Init
  <2>2. remote \in Opt(Balancer) /\ tf \in Opt(Balancer) /\ plan \in Opt(Configurations)
    BY DEF Init, Opt
  <2>3. QED BY <2>1, <2>2 DEF Init, TypeOK
<1>2. Known /\ AtWork /\ Updating /\ HalfWay
  BY DEF Init, Known, AtWork, Updating, HalfWay
<1>3. OkConverges /\ NoPermaDiff /\ ClashMeansMeddled
  BY DEF Init, OkConverges, NoPermaDiff, ClashMeansMeddled
<1>4. QED BY <1>1, <1>2, <1>3 DEF Inv

\* Types of the pieces.
LEMMA Pieces ==
  ASSUME TypeOK
  PROVE  /\ remote # Null => remote \in Balancer
         /\ tf # Null => tf \in Balancer
         /\ plan # Null => plan \in Configurations /\ plan \in Balancer /\ Valid(plan)
  BY LoadBalancerAssumption DEF TypeOK, Opt

LEMMA ListenerPieces ==
  ASSUME NEW lb \in Balancer
  PROVE  /\ lb.page \in Opt(Page) /\ lb.address \in Opt(Addresses)
         /\ lb.listeners \in [Keys -> Opt(Listener)]
         /\ \A k \in Keys : lb.listeners[k] # Null => lb.listeners[k] \in Listener
  BY DEF Balancer, Opt

\* Which listeners a plan that replaces nothing has, and what is fixed on them.
LEMMA NoReplacement ==
  ASSUME NEW p, NEW s, ~ListenersRequireReplace(p, s), NEW k \in Keys
  PROVE  /\ (p.listeners[k] = Null) <=> (s.listeners[k] = Null)
         /\ p.listeners[k] # Null =>
              /\ p.listeners[k].challenge = s.listeners[k].challenge
              /\ p.listeners[k].settings = s.listeners[k].settings
  BY DEF ListenersRequireReplace, ListenerImmutableChanged

\* What a call of an update can be, while the load balancer is there.
LEMMA CallShape ==
  ASSUME Inv, pc = "update", NEW c \in todo
  PROVE  \/ c = PatchCall
         \/ c = AddressCall
         \/ \E k \in Keys : /\ c = Rotation(k) /\ plan.listeners[k] # Null
                            /\ CertRotationNeeded(plan.listeners[k], tf.listeners[k])
         \/ \E k \in Keys, t \in Targets :
              c = BackendCall(k, t) /\ plan.listeners[k] # Null
<1>1. c \in Calls(plan, tf) BY DEF Inv, Updating
<1>2. QED BY <1>1, CallsAre DEF InBoth

-----------------------------------------------------------------------------
(* The calls of an update.                                                 *)

\* The state and the plan of an update have the listeners the platform has.
LEMMA SameListeners ==
  ASSUME Inv, pc = "update", remote # Null, NEW k \in Keys
  PROVE  /\ (plan.listeners[k] = Null) <=> (remote.listeners[k] = Null)
         /\ (plan.listeners[k] = Null) <=> (tf.listeners[k] = Null)
         /\ plan.listeners[k] # Null =>
              /\ plan.listeners[k].challenge = remote.listeners[k].challenge
              /\ plan.listeners[k].settings = remote.listeners[k].settings
<1>1. tf # Null /\ ~ListenersRequireReplace(plan, tf) BY DEF Inv, Updating
<1>2. /\ (plan.listeners[k] = Null) <=> (tf.listeners[k] = Null)
      /\ plan.listeners[k] # Null =>
           /\ plan.listeners[k].challenge = tf.listeners[k].challenge
           /\ plan.listeners[k].settings = tf.listeners[k].settings
  BY <1>1, NoReplacement
<1>3. QED BY <1>1, <1>2 DEF Inv, Known

\* A call leaves a load balancer the state still knows.
LEMMA CallMade ==
  ASSUME Inv, pc = "update", NEW c \in todo, Does(c), UNCHANGED <<tf, plan>>
  PROVE  /\ remote' \in Opt(Balancer)
         /\ remote' # Null => remote'.page = TrimSpace(remote'.page)
         /\ stray' \subseteq Keys
         /\ Known'
<1>1. TypeOK /\ Known BY DEF Inv
<1>2. stray' \subseteq Keys /\ stray \subseteq stray' BY <1>1 DEF TypeOK, Does
<1>3. CASE remote = Null
  <2>1. remote' = Null BY <1>3 DEF Does
  <2>2. QED BY <1>2, <2>1 DEF Known, Opt
<1>4. CASE remote # Null
  <2> DEFINE e == Effect(remote, c, plan)
  <2>1. remote' = e BY <1>4 DEF Does
  <2>2. plan # Null /\ tf # Null BY DEF Inv, Updating
  <2>3. remote \in Balancer /\ plan \in Balancer /\ Valid(plan) /\ tf \in Balancer
    BY <1>1, <1>4, <2>2, Pieces
  <2>4. remote.page = TrimSpace(remote.page) /\ Valid(remote)
    BY <1>1, <1>4 DEF TypeOK, Known
  <2>5. Null \notin Balancer /\ Null \notin Listener BY LoadBalancerAssumption
  <2>6. ASSUME e \in Balancer, e.listeners = remote.listeners, e.page = TrimSpace(e.page)
        PROVE  /\ remote' \in Opt(Balancer)
               /\ remote' # Null => remote'.page = TrimSpace(remote'.page)
               /\ Known'
    <3>1. Valid(e) BY <2>4, <2>6 DEF Valid
    <3>2. QED BY <1>1, <1>2, <1>4, <2>1, <2>6, <3>1 DEF Known, Opt
  <2>7. CASE c = PatchCall
    <3>1. e \in Balancer /\ e.page = TrimSpace(plan.page) /\ e.listeners = remote.listeners
      BY <2>3, <2>7, EffectOfPatch
    <3>2. e.page = TrimSpace(e.page) BY <2>3, <3>1, TrimmedOnce DEF Balancer
    <3>3. QED BY <1>2, <2>6, <3>1, <3>2
  <2>8. CASE c = AddressCall
    <3>1. e \in Balancer /\ e.page = remote.page /\ e.listeners = remote.listeners
      BY <2>3, <2>8, EffectOfAddress
    <3>2. QED BY <1>2, <2>4, <2>6, <3>1
  <2>9. ASSUME NEW k \in Keys, c = Rotation(k), plan.listeners[k] # Null,
               CertRotationNeeded(plan.listeners[k], tf.listeners[k])
        PROVE  /\ remote' \in Opt(Balancer)
               /\ remote' # Null => remote'.page = TrimSpace(remote'.page)
               /\ Known'
    <3>1. /\ remote.listeners[k] # Null
          /\ plan.listeners[k].challenge = remote.listeners[k].challenge
      BY <1>4, <2>9, SameListeners
    <3>2. /\ e \in Balancer /\ e.page = remote.page
          /\ \A j \in Keys \ {k} : e.listeners[j] = remote.listeners[j]
          /\ e.listeners[k] \in Listener
          /\ e.listeners[k].challenge = remote.listeners[k].challenge
          /\ e.listeners[k].settings = remote.listeners[k].settings
          /\ e.listeners[k].certificate = plan.listeners[k].certificate
      BY <2>3, <2>9, <3>1, EffectOfRotation
    <3>3. k \in stray' BY <2>9 DEF Does
    <3>4. ValidateCustomCert(k, e.listeners[k])
      BY <2>3, <2>9, <3>1, <3>2 DEF ValidateCustomCert, CertRotationNeeded, Valid
    <3>5. Valid(e) BY <2>4, <3>2, <3>4 DEF Valid
    <3>6. \A j \in Keys :
            /\ (tf.listeners[j] = Null) <=> (e.listeners[j] = Null)
            /\ tf.listeners[j] # Null =>
                 /\ tf.listeners[j].challenge = e.listeners[j].challenge
                 /\ tf.listeners[j].settings = e.listeners[j].settings
                 /\ j \notin stray' =>
                      tf.listeners[j].certificate \in {Null, e.listeners[j].certificate}
      BY <1>1, <1>2, <1>4, <2>2, <2>5, <3>1, <3>2, <3>3 DEF Known
    <3>7. Known' BY <2>1, <3>5, <3>6 DEF Known
    <3>8. QED BY <2>1, <2>4, <3>2, <3>7 DEF Opt
  <2>10. ASSUME NEW k \in Keys, NEW t \in Targets, c = BackendCall(k, t),
                plan.listeners[k] # Null
         PROVE  /\ remote' \in Opt(Balancer)
                /\ remote' # Null => remote'.page = TrimSpace(remote'.page)
                /\ Known'
    <3>1. remote.listeners[k] # Null BY <1>4, <2>10, SameListeners
    <3>2. /\ e \in Balancer /\ e.page = remote.page
          /\ \A j \in Keys \ {k} : e.listeners[j] = remote.listeners[j]
          /\ e.listeners[k] \in Listener
          /\ e.listeners[k].challenge = remote.listeners[k].challenge
          /\ e.listeners[k].settings = remote.listeners[k].settings
          /\ e.listeners[k].certificate = remote.listeners[k].certificate
      BY <2>3, <2>10, <3>1, EffectOfBackend
    <3>3. ValidateCustomCert(k, e.listeners[k])
      BY <2>4, <3>1, <3>2 DEF ValidateCustomCert, Valid
    <3>4. Valid(e) BY <2>4, <3>2, <3>3 DEF Valid
    <3>5. \A j \in Keys :
            /\ (tf.listeners[j] = Null) <=> (e.listeners[j] = Null)
            /\ tf.listeners[j] # Null =>
                 /\ tf.listeners[j].challenge = e.listeners[j].challenge
                 /\ tf.listeners[j].settings = e.listeners[j].settings
                 /\ j \notin stray' =>
                      tf.listeners[j].certificate \in {Null, e.listeners[j].certificate}
      BY <1>1, <1>2, <1>4, <2>2, <2>5, <3>1, <3>2 DEF Known
    <3>6. Known' BY <2>1, <3>4, <3>5 DEF Known
    <3>7. QED BY <2>1, <2>4, <3>2, <3>6 DEF Opt
  <2>11. QED BY <1>2, <2>7, <2>8, <2>9, <2>10, <2>6, CallShape
<1>5. QED BY <1>3, <1>4

\* An undisturbed call brings the update one step on.
LEMMA OneStepOn ==
  ASSUME Inv, pc = "update", ~meddled, NEW c \in todo
  PROVE  Between(Effect(remote, c, plan), todo \ {c}, tf, plan)
<1>1. TypeOK /\ HalfWay /\ plan # Null BY DEF Inv, Updating
<1>2. Between(remote, todo, tf, plan) BY <1>1 DEF HalfWay
<1>3. remote # Null BY <1>2 DEF Between
<1>4. remote \in Balancer /\ plan \in Balancer /\ Null \notin Balancer
  BY <1>1, <1>3, Pieces, LoadBalancerAssumption
<1> DEFINE e == Effect(remote, c, plan)
<1>5. /\ remote.page = TrimSpace(IF PatchCall \in todo THEN tf.page ELSE plan.page)
      /\ remote.address = IF AddressCall \in todo THEN tf.address ELSE plan.address
      /\ \A k \in Keys : plan.listeners[k] # Null =>
           /\ \A t \in Targets : remote.listeners[k].pool[t] =
                IF BackendCall(k, t) \in todo THEN tf.listeners[k].pool[t]
                ELSE plan.listeners[k].pool[t]
           /\ Rotation(k) \in Calls(plan, tf) /\ Rotation(k) \notin todo =>
                remote.listeners[k].certificate = plan.listeners[k].certificate
  BY <1>2 DEF Between
<1>6. CASE c = PatchCall
  <2>1. /\ e \in Balancer /\ e.page = TrimSpace(plan.page)
        /\ e.address = remote.address /\ e.listeners = remote.listeners
    BY <1>4, <1>6, EffectOfPatch
  <2>2. /\ PatchCall \notin todo \ {c}
        /\ AddressCall \in todo \ {c} <=> AddressCall \in todo
        /\ \A k \in Keys, t \in Targets : BackendCall(k, t) \in todo \ {c} <=> BackendCall(k, t) \in todo
        /\ \A k \in Keys : Rotation(k) \in todo \ {c} <=> Rotation(k) \in todo
    BY <1>6, CallsDiffer
  <2> HIDE DEF e
  <2>3. Between(e, todo \ {c}, tf, plan) BY <1>4, <1>5, <2>1, <2>2 DEF Between
  <2>4. QED BY <2>3 DEF e
<1>7. CASE c = AddressCall
  <2>1. /\ e \in Balancer /\ e.page = remote.page
        /\ e.address = plan.address /\ e.listeners = remote.listeners
    BY <1>4, <1>7, EffectOfAddress
  <2>2. /\ AddressCall \notin todo \ {c}
        /\ PatchCall \in todo \ {c} <=> PatchCall \in todo
        /\ \A k \in Keys, t \in Targets : BackendCall(k, t) \in todo \ {c} <=> BackendCall(k, t) \in todo
        /\ \A k \in Keys : Rotation(k) \in todo \ {c} <=> Rotation(k) \in todo
    BY <1>7, CallsDiffer
  <2> HIDE DEF e
  <2>3. Between(e, todo \ {c}, tf, plan) BY <1>4, <1>5, <2>1, <2>2 DEF Between
  <2>4. QED BY <2>3 DEF e
<1>8. ASSUME NEW k \in Keys, c = Rotation(k), plan.listeners[k] # Null
      PROVE  Between(e, todo \ {c}, tf, plan)
  <2>1. remote.listeners[k] # Null BY <1>3, <1>8, SameListeners
  <2>2. /\ e \in Balancer /\ e.page = remote.page /\ e.address = remote.address
        /\ \A j \in Keys \ {k} : e.listeners[j] = remote.listeners[j]
        /\ e.listeners[k].pool = remote.listeners[k].pool
        /\ e.listeners[k].certificate = plan.listeners[k].certificate
    BY <1>4, <1>8, <2>1, EffectOfRotation
  <2>3. /\ AddressCall \in todo \ {c} <=> AddressCall \in todo
        /\ PatchCall \in todo \ {c} <=> PatchCall \in todo
        /\ \A j \in Keys, t \in Targets : BackendCall(j, t) \in todo \ {c} <=> BackendCall(j, t) \in todo
        /\ \A j \in Keys \ {k} : Rotation(j) \in todo \ {c} <=> Rotation(j) \in todo
    BY <1>8, CallsDiffer
  <2> HIDE DEF e
  <2>4. \A j \in Keys : e.listeners[j].pool = remote.listeners[j].pool BY <2>2
  <2>5. \A j \in Keys : e.listeners[j].certificate =
          IF j = k THEN plan.listeners[k].certificate ELSE remote.listeners[j].certificate
    BY <2>2
  <2>6. QED BY <1>4, <1>5, <2>2, <2>3, <2>4, <2>5 DEF Between
<1>9. ASSUME NEW k \in Keys, NEW t \in Targets, c = BackendCall(k, t),
             plan.listeners[k] # Null
      PROVE  Between(e, todo \ {c}, tf, plan)
  <2>1. remote.listeners[k] # Null BY <1>3, <1>9, SameListeners
  <2>2. /\ e \in Balancer /\ e.page = remote.page /\ e.address = remote.address
        /\ \A j \in Keys \ {k} : e.listeners[j] = remote.listeners[j]
        /\ e.listeners[k].certificate = remote.listeners[k].certificate
        /\ e.listeners[k].pool[t] = plan.listeners[k].pool[t]
        /\ \A u \in Targets \ {t} : e.listeners[k].pool[u] = remote.listeners[k].pool[u]
    BY <1>4, <1>9, <2>1, EffectOfBackend
  <2>3. /\ AddressCall \in todo \ {c} <=> AddressCall \in todo
        /\ PatchCall \in todo \ {c} <=> PatchCall \in todo
        /\ \A j \in Keys : Rotation(j) \in todo \ {c} <=> Rotation(j) \in todo
        /\ \A j \in Keys, u \in Targets :
             BackendCall(j, u) \in todo \ {c} <=> BackendCall(j, u) \in todo /\ ~(j = k /\ u = t)
    BY <1>9, CallsDiffer
  <2> HIDE DEF e
  <2>4. \A j \in Keys : e.listeners[j].certificate = remote.listeners[j].certificate
    BY <2>2
  <2>5. \A j \in Keys, u \in Targets : e.listeners[j].pool[u] =
          IF j = k /\ u = t THEN plan.listeners[k].pool[t] ELSE remote.listeners[j].pool[u]
    BY <2>2
  <2>6. QED BY <1>4, <1>5, <2>2, <2>3, <2>4, <2>5 DEF Between
<1>10. QED BY <1>6, <1>7, <1>8, <1>9, CallShape

-----------------------------------------------------------------------------
(* Each action keeps the invariant.                                        *)

\* A handler that ends without success.
LEMMA Stopped ==
  ASSUME Inv, NEW r \in {"error", "clash"}, Stop(r), r = "clash" => meddled,
         UNCHANGED <<tf, tainted, plan>>, Bounds,
         remote' \in Opt(Balancer), remote' # Null => remote'.page = TrimSpace(remote'.page),
         stray' \subseteq Keys, Known'
  PROVE  Inv'
<1>1. pc' = "idle" /\ todo' = {} /\ outcome' = r BY DEF Stop
<1>2. TypeOK' BY <1>1 DEF Inv, TypeOK, Bounds
<1>3. AtWork' /\ Updating' /\ HalfWay' BY <1>1 DEF AtWork, Updating, HalfWay
<1>4. OkConverges' /\ NoPermaDiff' BY <1>1 DEF OkConverges, NoPermaDiff
<1>5. ClashMeansMeddled' BY <1>1 DEF ClashMeansMeddled, Bounds
<1>6. QED BY <1>2, <1>3, <1>4, <1>5 DEF Inv

\* A handler that ends without a call.
LEMMA StoppedShort ==
  ASSUME Inv, NEW r \in {"error", "clash"}, Stop(r), r = "clash" => meddled,
         UNCHANGED <<remote, tf, tainted, plan, stray>>, Bounds
  PROVE  Inv'
<1>1. /\ remote' \in Opt(Balancer)
      /\ remote' # Null => remote'.page = TrimSpace(remote'.page)
      /\ stray' \subseteq Keys
  BY DEF Inv, TypeOK
<1>2. Known' BY DEF Inv, Known
<1>3. QED BY <1>1, <1>2, Stopped

\* A call meets a backend it does not expect only when somebody else wrote.
LEMMA InvCallClashes == ASSUME Inv, NEW c \in todo, CallClashes(c) PROVE Inv'
<1>1. pc = "update" /\ Clashes(c) /\ Stop("clash") BY DEF CallClashes
<1>2. ASSUME ~meddled PROVE FALSE
  <2>1. Between(remote, todo, tf, plan) BY <1>1, <1>2 DEF Inv, HalfWay
  <2>2. /\ ~Removal(c) /\ remote # Null /\ c.what = "backend"
        /\ (remote.listeners[c.of].pool[c.target] = Null)
             # (tf.listeners[c.of].pool[c.target] = Null)
    BY <1>1, <2>1 DEF Clashes, Between
  <2>3. PICK k \in Keys, t \in Targets : c = BackendCall(k, t) /\ plan.listeners[k] # Null
    BY <1>1, <2>2, CallShape DEF PatchCall, AddressCall, Rotation, Call
  <2>4. c.of = k /\ c.target = t BY <2>3 DEF BackendCall, Call
  <2>5. remote.listeners[k].pool[t] = tf.listeners[k].pool[t] BY <2>1, <2>3 DEF Between
  <2>6. QED BY <2>2, <2>4, <2>5
<1>3. QED BY <1>1, <1>2, StoppedShort DEF CallClashes

LEMMA InvCallFails == ASSUME Inv, NEW c \in todo, CallFails(c) PROVE Inv'
<1>1. pc = "update" /\ Stop("error") /\ UNCHANGED <<tf, tainted, plan>> /\ Bounds
  BY DEF CallFails
<1>2. CASE UNCHANGED <<remote, stray>> BY <1>1, <1>2, StoppedShort
<1>3. CASE Does(c)
  <2>1. UNCHANGED <<tf, plan>> BY <1>1
  <2>2. QED BY <1>1, <1>3, <2>1, CallMade, Stopped
<1>4. QED BY <1>2, <1>3 DEF CallFails

LEMMA InvWaitFails == ASSUME Inv, WaitFails PROVE Inv'
<1>1. Stop("error") /\ UNCHANGED <<remote, tf, tainted, plan, stray>> /\ Bounds
  BY DEF WaitFails
<1>2. QED BY <1>1, StoppedShort

LEMMA InvDeleteFails == ASSUME Inv, DeleteFails PROVE Inv'
<1>1. /\ Stop("error") /\ UNCHANGED <<tf, tainted, plan, stray>> /\ Bounds
      /\ remote' \in {remote, Null}
  BY DEF DeleteFails
<1>2. /\ remote' \in Opt(Balancer)
      /\ remote' # Null => remote'.page = TrimSpace(remote'.page)
      /\ stray' \subseteq Keys
  BY <1>1 DEF Inv, TypeOK, Opt
<1>3. Known' BY <1>1 DEF Inv, Known
<1>4. UNCHANGED <<tf, tainted, plan>> BY <1>1
<1>5. QED BY <1>1, <1>2, <1>3, <1>4, Stopped

LEMMA InvPostFails == ASSUME Inv, PostFails PROVE Inv'
<1>1. /\ Stop("error") /\ UNCHANGED <<tf, tainted, plan, stray>> /\ Bounds
      /\ remote' \in {remote, Created(plan)}
      /\ plan # Null /\ tf = Null /\ TypeOK /\ Known
  BY DEF PostFails, Inv, AtWork
<1>2. plan \in Configurations BY <1>1, Pieces
<1>3. /\ Created(plan) \in Balancer /\ Valid(Created(plan))
      /\ Created(plan).page = TrimSpace(Created(plan).page)
  BY <1>2, CreatedIs DEF TrimSpace
<1>4. /\ remote' \in Opt(Balancer)
      /\ remote' # Null => remote'.page = TrimSpace(remote'.page)
      /\ stray' \subseteq Keys
  BY <1>1, <1>3 DEF TypeOK, Opt
<1>5. Known' BY <1>1, <1>3 DEF Known
<1>6. UNCHANGED <<tf, tainted, plan>> BY <1>1
<1>7. QED BY <1>1, <1>4, <1>5, <1>6, Stopped

\* A call answered is a step of the update.
LEMMA InvCallAnswered == ASSUME Inv, NEW c \in todo, CallAnswered(c) PROVE Inv'
<1>1. /\ pc = "update" /\ Does(c) /\ todo' = todo \ {c}
      /\ tf' = tf /\ tainted' = tainted /\ plan' = plan /\ pc' = pc /\ outcome' = outcome
      /\ meddled' = meddled /\ ops' = ops /\ ext' = ext
  BY DEF CallAnswered, Bounds
<1>2. /\ remote' \in Opt(Balancer)
      /\ remote' # Null => remote'.page = TrimSpace(remote'.page)
      /\ stray' \subseteq Keys /\ Known'
  <2>1. UNCHANGED <<tf, plan>> BY <1>1
  <2>2. QED BY <1>1, <2>1, CallMade
<1>3. TypeOK' BY <1>1, <1>2 DEF Inv, TypeOK
<1>4. AtWork' BY <1>1 DEF Inv, AtWork
<1>5. Updating'
  <2>1. /\ plan # Null /\ tf # Null /\ ~ListenersRequireReplace(plan, tf)
        /\ todo \subseteq Calls(plan, tf)
        /\ \A k \in Keys : Rotation(k) \in Calls(plan, tf) /\ Rotation(k) \notin todo => k \in stray
    BY <1>1 DEF Inv, Updating
  <2>2. \A k \in Keys : k \in stray \/ c = Rotation(k) => k \in stray' BY <1>1 DEF Does
  <2>3. \A k \in Keys : Rotation(k) \in Calls(plan, tf) /\ Rotation(k) \notin todo' => k \in stray'
    BY <1>1, <2>1, <2>2
  <2>4. QED BY <1>1, <2>1, <2>3 DEF Updating
<1>6. HalfWay'
  <2> SUFFICES ASSUME ~meddled PROVE HalfWay' BY <1>1 DEF HalfWay
  <2>1. Between(Effect(remote, c, plan), todo \ {c}, tf, plan) BY <1>1, OneStepOn
  <2>2. remote # Null BY <1>1 DEF Inv, HalfWay, Between
  <2>3. remote' = Effect(remote, c, plan) BY <1>1, <2>2 DEF Does
  <2>4. QED BY <1>1, <2>1, <2>3 DEF HalfWay, Between, Calls, InBoth
<1>7. outcome = "none" BY <1>1 DEF Inv, AtWork
<1>8. OkConverges' /\ NoPermaDiff' /\ ClashMeansMeddled'
  BY <1>1, <1>7 DEF OkConverges, NoPermaDiff, ClashMeansMeddled
<1>9. QED BY <1>2, <1>3, <1>4, <1>5, <1>6, <1>8 DEF Inv

\* A POST answered.
LEMMA InvPosted == ASSUME Inv, Posted PROVE Inv'
<1>1. /\ pc = "post" /\ remote' = Created(plan)
      /\ tf' = StateFromAPI(Created(plan), plan.listeners, Null)
      /\ tainted' = TRUE /\ pc' = "created" /\ stray' = {}
      /\ plan' = plan /\ todo' = todo /\ outcome' = outcome
      /\ meddled' = meddled /\ ops' = ops /\ ext' = ext
  BY DEF Posted, Bounds
<1>2. TypeOK /\ plan # Null /\ todo = {} /\ outcome = "none" BY <1>1 DEF Inv, AtWork
<1>3. plan \in Configurations BY <1>2, Pieces
<1>4. /\ remote' \in Balancer /\ Valid(remote') /\ tf' = remote'
      /\ remote'.page = Null
  BY <1>1, <1>3, CreatedIs
<1>5. TypeOK' BY <1>1, <1>2, <1>4 DEF TypeOK, Opt, TrimSpace
<1>6. Known' BY <1>4 DEF Known
<1>7. AtWork' BY <1>1, <1>2, <1>4 DEF AtWork, Created
<1>8. Updating' /\ HalfWay' BY <1>1 DEF Updating, HalfWay
<1>9. OkConverges' /\ NoPermaDiff' /\ ClashMeansMeddled'
  BY <1>1, <1>2 DEF OkConverges, NoPermaDiff, ClashMeansMeddled
<1>10. QED BY <1>5, <1>6, <1>7, <1>8, <1>9 DEF Inv

LEMMA InvDeleted == ASSUME Inv, Deleted PROVE Inv'
<1>1. /\ pc = "delete" /\ remote' = Null /\ tf' = Null /\ tainted' = FALSE
      /\ plan' = plan /\ stray' = stray /\ meddled' = meddled /\ ops' = ops /\ ext' = ext
      /\ todo = {} /\ outcome = "none" /\ TypeOK
  BY DEF Deleted, Bounds, Inv, AtWork
<1>2. CASE plan = Null
  <2>1. pc' = "idle" /\ todo' = {} /\ outcome' = "ok" BY <1>2 DEF Deleted, Stop
  <2>2. TypeOK' BY <1>1, <2>1 DEF TypeOK, Opt
  <2>3. Known' /\ AtWork' /\ Updating' /\ HalfWay'
    BY <1>1, <2>1 DEF Known, AtWork, Updating, HalfWay
  <2>4. OkConverges' /\ NoPermaDiff' /\ ClashMeansMeddled'
    BY <1>1, <1>2, <2>1 DEF OkConverges, NoPermaDiff, ClashMeansMeddled
  <2>5. QED BY <2>2, <2>3, <2>4 DEF Inv
<1>3. CASE plan # Null
  <2>1. pc' = "post" /\ todo' = todo /\ outcome' = outcome BY <1>3 DEF Deleted
  <2>2. TypeOK' BY <1>1, <2>1 DEF TypeOK, Opt
  <2>3. Known' /\ AtWork' /\ Updating' /\ HalfWay'
    BY <1>1, <1>3, <2>1 DEF Known, AtWork, Updating, HalfWay
  <2>4. OkConverges' /\ NoPermaDiff' /\ ClashMeansMeddled'
    BY <1>1, <2>1 DEF OkConverges, NoPermaDiff, ClashMeansMeddled
  <2>5. QED BY <2>2, <2>3, <2>4 DEF Inv
<1>4. QED BY <1>2, <1>3

\* What an update or a create that reaches its end has brought about.
LEMMA Saved ==
  ASSUME Inv, Save, NEW W \in SUBSET Keys, stray' = stray \ W,
         plan # Null, tf # Null,
         \A k \in W : plan.listeners[k] # Null
                      /\ remote.listeners[k].certificate = plan.listeners[k].certificate,
         ~meddled =>
           /\ remote.page = TrimSpace(plan.page) /\ remote.address = plan.address
           /\ \A k \in Keys : plan.listeners[k] # Null =>
                /\ remote.listeners[k].pool = plan.listeners[k].pool
                /\ k \notin stray => remote.listeners[k].certificate = plan.listeners[k].certificate,
         \A k \in Keys :
           /\ (remote.listeners[k] = Null) <=> (plan.listeners[k] = Null)
           /\ plan.listeners[k] # Null =>
                /\ remote.listeners[k].challenge = plan.listeners[k].challenge
                /\ remote.listeners[k].settings = plan.listeners[k].settings
                /\ k \notin stray => plan.listeners[k].certificate \in
                                       {Null, remote.listeners[k].certificate}
  PROVE  Inv'
<1> DEFINE s == StateFromAPI(remote, plan.listeners, plan.page)
<1>1. /\ remote # Null /\ tf' = s /\ tainted' = FALSE
      /\ pc' = "idle" /\ todo' = {} /\ outcome' = "ok"
      /\ remote' = remote /\ plan' = plan /\ meddled' = meddled /\ ops' = ops /\ ext' = ext
  BY DEF Save, Stop, Bounds
<1>2. TypeOK /\ Known BY DEF Inv
<1>3. /\ remote \in Balancer /\ plan \in Balancer /\ Valid(plan)
  BY <1>1, <1>2, Pieces
<1>4. /\ plan.listeners \in [Keys -> Opt(Listener)] /\ plan.page \in Opt(Page)
  BY <1>3, ListenerPieces
<1>5. /\ s \in Balancer
      /\ \A k \in Keys :
           /\ (s.listeners[k] = Null) <=> (remote.listeners[k] = Null)
           /\ remote.listeners[k] # Null =>
                /\ s.listeners[k].challenge = remote.listeners[k].challenge
                /\ s.listeners[k].settings = remote.listeners[k].settings
                /\ s.listeners[k].certificate =
                     IF plan.listeners[k] = Null THEN Null ELSE plan.listeners[k].certificate
  BY <1>3, <1>4, ReadBackIs
<1> HIDE DEF s
<1>6. stray' \subseteq stray BY DEF Bounds
<1>7. TypeOK' BY <1>1, <1>2, <1>5, <1>6 DEF TypeOK, Opt
<1>8. Known'
  <2>1. Valid(remote) BY <1>1, <1>2 DEF Known
  <2>2. \A k \in Keys : k \notin stray' => k \in W \/ k \notin stray OBVIOUS
  <2>3. QED BY <1>1, <1>5, <2>1, <2>2 DEF Known
<1>9. AtWork' /\ Updating' /\ HalfWay' BY <1>1 DEF AtWork, Updating, HalfWay
<1>10. ClashMeansMeddled' BY <1>1 DEF ClashMeansMeddled
<1>11. NoPermaDiff'
  <2> SUFFICES ASSUME ~meddled PROVE s = plan BY <1>1 DEF NoPermaDiff
  <2>1. QED BY <1>3, RoundTrip DEF s
<1>12. OkConverges'
  <2> SUFFICES ASSUME ~meddled PROVE OkConverges' BY <1>1 DEF OkConverges
  <2>1. \A k \in Keys : k \notin stray' => k \in W \/ k \notin stray OBVIOUS
  <2>2. \A k \in Keys : plan.listeners[k] # Null /\ k \notin stray' =>
          remote.listeners[k].certificate = plan.listeners[k].certificate
    BY <2>1
  <2>3. QED BY <1>1, <2>2 DEF OkConverges
<1>13. QED BY <1>7, <1>8, <1>9, <1>10, <1>11, <1>12 DEF Inv

\* The wait of an update is over.
LEMMA InvUpdated == ASSUME Inv, Updated PROVE Inv'
<1> DEFINE W == IF meddled THEN {} ELSE {k \in Keys : Rotation(k) \in Calls(plan, tf)}
<1>1. pc = "update" /\ todo = {} /\ Save BY DEF Updated
<1>2. stray' = stray \ W BY DEF Updated
<1>3. remote # Null BY <1>1 DEF Save
<1>4. plan # Null /\ tf # Null /\ TypeOK /\ Known BY <1>1 DEF Inv, Updating
<1>5. /\ remote \in Balancer /\ plan \in Balancer /\ Valid(plan) /\ Valid(remote)
  BY <1>3, <1>4, Pieces DEF Known
<1>6. ~meddled => Between(remote, {}, tf, plan) BY <1>1 DEF Inv, HalfWay
<1>7. ASSUME NEW k \in Keys
      PROVE  /\ (plan.listeners[k] = Null) <=> (remote.listeners[k] = Null)
             /\ (plan.listeners[k] = Null) <=> (tf.listeners[k] = Null)
             /\ plan.listeners[k] # Null =>
                  /\ plan.listeners[k].challenge = remote.listeners[k].challenge
                  /\ plan.listeners[k].settings = remote.listeners[k].settings
  BY <1>1, <1>3, SameListeners
<1>8. ASSUME NEW k \in Keys, Rotation(k) \in Calls(plan, tf)
      PROVE  plan.listeners[k] # Null /\ k \in stray
  <2>1. k \in stray BY <1>1, <1>8 DEF Inv, Updating
  <2>2. /\ Rotation(k) # PatchCall /\ Rotation(k) # AddressCall
        /\ \A j, t : Rotation(k) # BackendCall(j, t)
        /\ \A j : Rotation(k) = Rotation(j) => k = j
    BY CallsDiffer
  <2>3. \E j \in InBoth(plan, tf) : Rotation(k) = Rotation(j) BY <1>8, <2>2, CallsAre
  <2>4. QED BY <2>1, <2>2, <2>3 DEF InBoth
<1>9. ASSUME NEW k \in W
      PROVE  plan.listeners[k] # Null
             /\ remote.listeners[k].certificate = plan.listeners[k].certificate
  <2>1. ~meddled /\ k \in Keys /\ Rotation(k) \in Calls(plan, tf) OBVIOUS
  <2>2. QED BY <1>6, <1>8, <2>1 DEF Between
<1>10. ASSUME NEW k \in Keys, plan.listeners[k] # Null, k \notin stray
       PROVE  remote.listeners[k].certificate = plan.listeners[k].certificate
  <2>1. Rotation(k) \notin Calls(plan, tf) BY <1>8, <1>10
  <2>2. tf.listeners[k] # Null /\ remote.listeners[k] # Null BY <1>7, <1>10
  <2>3. ~CertRotationNeeded(plan.listeners[k], tf.listeners[k])
    BY <1>10, <2>1, <2>2, CallsAre DEF InBoth
  <2>4. ValidateCustomCert(k, plan.listeners[k]) /\ ValidateCustomCert(k, remote.listeners[k])
    BY <1>5, <1>10, <2>2 DEF Valid
  <2>5. tf.listeners[k].certificate \in {Null, remote.listeners[k].certificate}
    BY <1>3, <1>4, <1>10, <2>2 DEF Known
  <2>6. plan.listeners[k].challenge = remote.listeners[k].challenge BY <1>7, <1>10
  <2>7. QED BY <2>3, <2>4, <2>5, <2>6 DEF CertRotationNeeded, ValidateCustomCert
<1>11. ASSUME ~meddled
       PROVE  /\ remote.page = TrimSpace(plan.page) /\ remote.address = plan.address
              /\ \A k \in Keys : plan.listeners[k] # Null =>
                   remote.listeners[k].pool = plan.listeners[k].pool
  <2>1. /\ remote.page = TrimSpace(plan.page) /\ remote.address = plan.address
        /\ \A k \in Keys : plan.listeners[k] # Null =>
             \A t \in Targets : remote.listeners[k].pool[t] = plan.listeners[k].pool[t]
    BY <1>6, <1>11 DEF Between
  <2>2. ASSUME NEW k \in Keys, plan.listeners[k] # Null
        PROVE  remote.listeners[k].pool = plan.listeners[k].pool
    <3>1. remote.listeners[k] \in Listener /\ plan.listeners[k] \in Listener
      BY <1>5, <1>7, <2>2, ListenerPieces
    <3>2. /\ remote.listeners[k].pool \in [Targets -> Opt(Weights)]
          /\ plan.listeners[k].pool \in [Targets -> Opt(Weights)]
      BY <3>1 DEF Listener
    <3>3. \A t \in Targets : remote.listeners[k].pool[t] = plan.listeners[k].pool[t]
      BY <2>1, <2>2
    <3>4. QED BY <3>2, <3>3
  <2>3. QED BY <2>1, <2>2
<1>12. W \in SUBSET Keys OBVIOUS
<1> HIDE DEF W
<1>13. QED BY <1>1, <1>2, <1>4, <1>7, <1>9, <1>10, <1>11, <1>12, Saved

LEMMA InvCreatedUp == ASSUME Inv, CreatedUp PROVE Inv'
<1>1. pc = "created" /\ plan.page = Null /\ Save /\ stray' = stray \ {} BY DEF CreatedUp
<1>2. remote # Null BY <1>1 DEF Save
<1>3. /\ plan # Null /\ tf = Created(plan) /\ TypeOK /\ Known
      /\ ~meddled => remote = Created(plan)
  BY <1>1 DEF Inv, AtWork
<1>4. plan \in Configurations /\ plan \in Balancer BY <1>3, Pieces
<1>5. /\ tf \in Balancer /\ tf.listeners = plan.listeners
      /\ Created(plan).page = Null /\ Created(plan).address = plan.address
      /\ Created(plan).listeners = plan.listeners
  BY <1>3, <1>4, CreatedIs
<1>6. tf # Null BY <1>5, LoadBalancerAssumption
<1>7. \A k \in Keys :
        /\ (remote.listeners[k] = Null) <=> (plan.listeners[k] = Null)
        /\ plan.listeners[k] # Null =>
             /\ remote.listeners[k].challenge = plan.listeners[k].challenge
             /\ remote.listeners[k].settings = plan.listeners[k].settings
             /\ k \notin stray => plan.listeners[k].certificate \in
                                    {Null, remote.listeners[k].certificate}
  BY <1>2, <1>3, <1>5, <1>6 DEF Known
<1>8. ~meddled =>
        /\ remote.page = TrimSpace(plan.page) /\ remote.address = plan.address
        /\ \A k \in Keys : plan.listeners[k] # Null =>
             /\ remote.listeners[k].pool = plan.listeners[k].pool
             /\ k \notin stray => remote.listeners[k].certificate = plan.listeners[k].certificate
  BY <1>1, <1>3, <1>5 DEF TrimSpace
<1>9. {} \in SUBSET Keys OBVIOUS
<1>10. QED BY <1>1, <1>3, <1>6, <1>7, <1>8, <1>9, Saved

\* The page of a new load balancer is an update of one call.
LEMMA InvCreatedPage == ASSUME Inv, CreatedPage PROVE Inv'
<1>1. /\ pc = "created" /\ plan.page # Null /\ remote # Null
      /\ pc' = "update" /\ todo' = {PatchCall}
      /\ remote' = remote /\ tf' = tf /\ tainted' = tainted /\ plan' = plan
      /\ outcome' = outcome /\ stray' = stray
      /\ meddled' = meddled /\ ops' = ops /\ ext' = ext
  BY DEF CreatedPage, Bounds
<1>2. /\ plan # Null /\ tf = Created(plan) /\ TypeOK /\ outcome = "none"
      /\ ~meddled => remote = Created(plan)
  BY <1>1 DEF Inv, AtWork
<1>3. plan \in Configurations BY <1>2, Pieces
<1>4. /\ tf # Null /\ tf.page = Null /\ tf.address = plan.address
      /\ tf.listeners = plan.listeners
  BY <1>2, <1>3, CreatedIs, LoadBalancerAssumption
<1>5. ~ListenersRequireReplace(plan, tf)
  BY <1>4 DEF ListenersRequireReplace, ListenerImmutableChanged
<1>6. \A c : c \in Calls(plan, tf) <=> c = PatchCall
  <2>1. \A k \in Keys : ~CertRotationNeeded(plan.listeners[k], tf.listeners[k])
    BY <1>4 DEF CertRotationNeeded
  <2>2. QED BY <1>1, <1>4, <2>1, CallsAre DEF InBoth
<1>7. TypeOK'
  <2>1. PatchCall \in [what : {"patch", "address", "rotate", "backend"},
                       of : Opt(Keys), target : Opt(Targets)]
    BY DEF PatchCall, Call, Opt
  <2>2. QED BY <1>1, <1>2, <2>1 DEF TypeOK
<1>8. Known' BY <1>1 DEF Inv, Known
<1>9. AtWork' BY <1>1, <1>2 DEF AtWork
<1>10. \A k : Rotation(k) \notin Calls(plan, tf) BY <1>6, CallsDiffer
<1>11. Updating' BY <1>1, <1>2, <1>4, <1>5, <1>6, <1>10 DEF Updating, ListenersRequireReplace, Calls, InBoth
<1>12. HalfWay'
  <2> SUFFICES ASSUME ~meddled PROVE HalfWay' BY <1>1 DEF HalfWay
  <2>1. remote = tf BY <1>2
  <2>2. PatchCall # AddressCall /\ \A k, t : PatchCall # BackendCall(k, t) BY CallsDiffer
  <2>3. tf.page = TrimSpace(tf.page) BY <1>4 DEF TrimSpace
  <2>4. Between(remote, {PatchCall}, tf, plan)
    BY <1>1, <1>4, <1>10, <2>1, <2>2, <2>3 DEF Between
  <2>5. QED BY <1>1, <2>4 DEF HalfWay, Between, Calls, InBoth
<1>13. OkConverges' /\ NoPermaDiff' /\ ClashMeansMeddled'
  BY <1>1, <1>2 DEF OkConverges, NoPermaDiff, ClashMeansMeddled
<1>14. QED BY <1>7, <1>8, <1>9, <1>11, <1>12, <1>13 DEF Inv

\* The page a state shows, and the platform's, are Refresh's and a plan's business.
LEMMA RefreshedIs ==
  ASSUME Inv, tf # Null, remote # Null
  PROVE  /\ Refreshed \in Balancer /\ Refreshed # Null
         /\ TrimSpace(Refreshed.page) = remote.page /\ Refreshed.address = remote.address
         /\ \A k \in Keys :
              /\ (Refreshed.listeners[k] = Null) <=> (remote.listeners[k] = Null)
              /\ remote.listeners[k] # Null =>
                   /\ Refreshed.listeners[k].challenge = remote.listeners[k].challenge
                   /\ Refreshed.listeners[k].settings = remote.listeners[k].settings
                   /\ Refreshed.listeners[k].pool = remote.listeners[k].pool
                   /\ Refreshed.listeners[k].certificate = tf.listeners[k].certificate
<1> DEFINE s == StateFromAPI(remote, tf.listeners, tf.page)
<1>1. TypeOK /\ Known BY DEF Inv
<1>2. remote \in Balancer /\ tf \in Balancer BY <1>1, Pieces
<1>3. /\ tf.page \in Opt(Page) /\ tf.listeners \in [Keys -> Opt(Listener)]
      /\ remote.page \in Opt(Page)
  BY <1>2, ListenerPieces
<1>4. /\ s \in Balancer /\ s.page = FromAPI(tf.page, remote.page) /\ s.address = remote.address
      /\ \A k \in Keys :
           /\ (s.listeners[k] = Null) <=> (remote.listeners[k] = Null)
           /\ remote.listeners[k] # Null =>
                /\ s.listeners[k].challenge = remote.listeners[k].challenge
                /\ s.listeners[k].settings = remote.listeners[k].settings
                /\ s.listeners[k].pool = remote.listeners[k].pool
                /\ s.listeners[k].certificate =
                     IF tf.listeners[k] = Null THEN Null ELSE tf.listeners[k].certificate
  BY <1>2, <1>3, ReadBackIs
<1>5. Refreshed = s BY DEF Refreshed
<1> HIDE DEF s
<1>6. TrimSpace(s.page) = remote.page BY <1>1, <1>3, <1>4, PageReadBack DEF TypeOK
<1>7. s # Null BY <1>4, LoadBalancerAssumption
<1>8. QED BY <1>1, <1>4, <1>5, <1>6, <1>7 DEF Known

LEMMA InvRefresh == ASSUME Inv, Refresh PROVE Inv'
<1>1. /\ pc = "idle" /\ tf # Null /\ tf' = Refreshed
      /\ tainted' = (tainted /\ remote # Null)
      /\ remote' = remote /\ plan' = plan /\ pc' = pc /\ todo' = todo /\ outcome' = outcome
      /\ stray' = stray /\ meddled' = meddled /\ ops' = ops /\ ext' = ext
  BY DEF Refresh
<1>2. TypeOK /\ Known BY DEF Inv
<1>3. remote = Null => tf' = Null BY <1>1 DEF Refreshed
<1>4. TypeOK'
  <2>1. tf' \in Opt(Balancer) BY <1>1, <1>3, RefreshedIs DEF Opt
  <2>2. QED BY <1>1, <1>2, <2>1 DEF TypeOK
<1>5. Known'
  <2>1. CASE remote = Null BY <1>1, <2>1 DEF Known
  <2>2. CASE remote # Null BY <1>1, <1>2, <2>2, RefreshedIs DEF Known
  <2>3. QED BY <2>1, <2>2
<1>6. AtWork' /\ Updating' /\ HalfWay' BY <1>1 DEF Inv, AtWork, Updating, HalfWay
<1>7. OkConverges' BY <1>1 DEF Inv, OkConverges
<1>8. ClashMeansMeddled' BY <1>1 DEF Inv, ClashMeansMeddled
<1>9. NoPermaDiff'
  <2> SUFFICES ASSUME outcome = "ok", ~meddled PROVE tf' = plan BY <1>1 DEF NoPermaDiff
  <2>1. tf = plan BY DEF Inv, NoPermaDiff
  <2>2. plan # Null BY <1>1, <2>1
  <2>3. /\ remote # Null /\ remote.page = TrimSpace(plan.page) /\ remote.address = plan.address
        /\ \A k \in Keys :
             /\ (remote.listeners[k] = Null) <=> (plan.listeners[k] = Null)
             /\ plan.listeners[k] # Null =>
                  /\ remote.listeners[k].challenge = plan.listeners[k].challenge
                  /\ remote.listeners[k].settings = plan.listeners[k].settings
                  /\ remote.listeners[k].pool = plan.listeners[k].pool
    BY <2>2 DEF Inv, OkConverges
  <2>4. remote \in Balancer /\ plan \in Balancer BY <1>2, <2>2, <2>3, Pieces
  <2>5. StateFromAPI(remote, plan.listeners, plan.page) = plan BY <2>3, <2>4, RoundTrip
  <2>6. QED BY <1>1, <2>1, <2>3, <2>5 DEF Refreshed
<1>10. QED BY <1>4, <1>5, <1>6, <1>7, <1>8, <1>9 DEF Inv

\* A handler starts.
LEMMA InvStart ==
  ASSUME Inv, NEW step \in {"post", "delete", "update"}, NEW c \in Opt(Configurations), Start(step, c),
         step = "post" => c # Null /\ tf = Null /\ remote = Null,
         step = "delete" => tf # Null,
         step # "update" => todo' = todo
  PROVE  /\ Known' /\ OkConverges' /\ NoPermaDiff' /\ ClashMeansMeddled'
         /\ step # "update" => Inv'
<1>1. /\ pc = "idle" /\ ops > 0 /\ ops' = ops - 1 /\ pc' = step /\ plan' = c
      /\ outcome' = "none" /\ meddled' = FALSE
      /\ remote' = remote /\ tf' = tf /\ tainted' = tainted /\ stray' = stray /\ ext' = ext
  BY DEF Start
<1>2. TypeOK /\ Known /\ todo = {} BY <1>1 DEF Inv, AtWork
<1>3. ops' \in 0..MaxOps BY <1>1, <1>2, LoadBalancerAssumption DEF TypeOK
<1>4. Known' BY <1>1, <1>2 DEF Known
<1>5. OkConverges' /\ NoPermaDiff' /\ ClashMeansMeddled'
  BY <1>1 DEF OkConverges, NoPermaDiff, ClashMeansMeddled
<1>6. ASSUME step # "update" PROVE TypeOK' /\ AtWork' /\ Updating' /\ HalfWay'
  <2>1. todo' = {} BY <1>2, <1>6
  <2>2. TypeOK' BY <1>1, <1>2, <1>3, <2>1 DEF TypeOK
  <2>3. AtWork' BY <1>1, <2>1 DEF AtWork
  <2>4. Updating' /\ HalfWay' BY <1>1, <1>6 DEF Updating, HalfWay
  <2>5. QED BY <2>2, <2>3, <2>4
<1>7. QED BY <1>4, <1>5, <1>6 DEF Inv

LEMMA InvStartOthers ==
  ASSUME Inv, StartDestroy \/ \E c \in Configurations : StartCreate(c) \/ StartReplace(c)
  PROVE  Inv'
<1>1. Null \notin Configurations BY LoadBalancerAssumption
<1>2. CASE StartDestroy
  <2>1. tf # Null /\ Start("delete", Null) /\ todo' = todo BY <1>2 DEF StartDestroy
  <2>2. Null \in Opt(Configurations) BY DEF Opt
  <2>3. QED BY <2>1, <2>2, InvStart
<1>3. ASSUME NEW c \in Configurations, StartCreate(c) PROVE Inv'
  <2>1. tf = Null /\ remote = Null /\ Start("post", c) /\ todo' = todo BY <1>3 DEF StartCreate
  <2>2. c \in Opt(Configurations) BY DEF Opt
  <2>3. QED BY <1>1, <2>1, <2>2, InvStart
<1>4. ASSUME NEW c \in Configurations, StartReplace(c) PROVE Inv'
  <2>1. tf # Null /\ Start("delete", c) /\ todo' = todo BY <1>4 DEF StartReplace
  <2>2. c \in Opt(Configurations) BY DEF Opt
  <2>3. QED BY <2>1, <2>2, InvStart
<1>5. QED BY <1>2, <1>3, <1>4

\* An update starts from a state just refreshed: nothing is done yet.
LEMMA InvStartUpdate ==
  ASSUME Inv, NEW c \in Configurations, StartUpdate(c)
  PROVE  Inv'
<1>1. /\ tf # Null /\ tf = Refreshed /\ ~ListenersRequireReplace(c, tf)
      /\ Start("update", c) /\ todo' = Calls(c, tf)
  BY DEF StartUpdate
<1>2. /\ pc = "idle" /\ ops > 0 /\ ops' = ops - 1 /\ pc' = "update" /\ plan' = c
      /\ outcome' = "none" /\ meddled' = FALSE
      /\ remote' = remote /\ tf' = tf /\ tainted' = tainted /\ stray' = stray /\ ext' = ext
  BY <1>1 DEF Start
<1>3. c \in Opt(Configurations) /\ c # Null /\ c \in Balancer
  BY LoadBalancerAssumption DEF Opt
<1>4. remote # Null BY <1>1 DEF Refreshed
<1>5. Known' /\ OkConverges' /\ NoPermaDiff' /\ ClashMeansMeddled'
  BY <1>1, <1>3, InvStart
<1>6. \A d \in Calls(c, tf) : d \in [what : {"patch", "address", "rotate", "backend"},
                                     of : Opt(Keys), target : Opt(Targets)]
  <2> TAKE d \in Calls(c, tf)
  <2>1. CASE d = PatchCall BY <2>1 DEF PatchCall, Call, Opt
  <2>2. CASE d = AddressCall BY <2>2 DEF AddressCall, Call, Opt
  <2>3. CASE \E k \in Keys : d = Rotation(k) BY <2>3 DEF Rotation, Call, Opt
  <2>4. CASE \E k \in Keys, t \in Targets : d = BackendCall(k, t)
    BY <2>4 DEF BackendCall, Call, Opt
  <2>5. QED BY <2>1, <2>2, <2>3, <2>4, CallsAre DEF InBoth
<1>7. TypeOK'
  <2>1. TypeOK BY DEF Inv
  <2>2. ops' \in 0..MaxOps BY <1>2, <2>1, LoadBalancerAssumption DEF TypeOK
  <2>3. todo' \subseteq [what : {"patch", "address", "rotate", "backend"},
                         of : Opt(Keys), target : Opt(Targets)]
    BY <1>1, <1>6
  <2>4. QED BY <1>2, <1>3, <2>1, <2>2, <2>3 DEF TypeOK
<1>8. AtWork' BY <1>2 DEF AtWork
<1>9. Updating'
  <2>1. \A k : Rotation(k) \in Calls(c, tf) /\ Rotation(k) \notin todo' => FALSE BY <1>1
  <2>2. QED BY <1>1, <1>2, <1>3, <2>1 DEF Updating, ListenersRequireReplace, Calls, InBoth
<1>10. HalfWay'
  <2>1. /\ TrimSpace(tf.page) = remote.page /\ tf.address = remote.address
        /\ \A k \in Keys :
             /\ (tf.listeners[k] = Null) <=> (remote.listeners[k] = Null)
             /\ remote.listeners[k] # Null => tf.listeners[k].pool = remote.listeners[k].pool
    BY <1>1, <1>4, RefreshedIs
  <2>2. PatchCall \notin Calls(c, tf) => c.page = tf.page BY CallsAre
  <2>3. AddressCall \notin Calls(c, tf) => c.address = tf.address BY CallsAre
  <2>4. ASSUME NEW k \in Keys, c.listeners[k] # Null, NEW t \in Targets
        PROVE  /\ remote.listeners[k].pool[t] = tf.listeners[k].pool[t]
               /\ BackendCall(k, t) \notin Calls(c, tf) =>
                    c.listeners[k].pool[t] = tf.listeners[k].pool[t]
    <3>1. tf.listeners[k] # Null BY <1>1, <2>4, NoReplacement
    <3>2. BackendCall(k, t) \notin Calls(c, tf) =>
            c.listeners[k].pool[t] = tf.listeners[k].pool[t]
      BY <2>4, <3>1, CallsAre DEF InBoth
    <3>3. QED BY <2>1, <3>1, <3>2
  <2>5. Between(remote, Calls(c, tf), tf, c)
    BY <1>4, <2>1, <2>2, <2>3, <2>4 DEF Between
  <2>6. QED BY <1>1, <1>2, <2>5 DEF HalfWay, Between, Calls, InBoth
<1>11. QED BY <1>5, <1>7, <1>8, <1>9, <1>10 DEF Inv

LEMMA InvImport == ASSUME Inv, Import PROVE Inv'
<1> DEFINE s == StateFromAPI(remote, NoListeners, Null)
<1>1. /\ pc = "idle" /\ ops > 0 /\ remote # Null /\ tf' = s /\ tainted' = FALSE
      /\ outcome' = "none" /\ stray' = {} /\ ops' = ops - 1
      /\ remote' = remote /\ plan' = plan /\ pc' = pc /\ todo' = todo
      /\ meddled' = meddled /\ ext' = ext
  BY DEF Import
<1>2. TypeOK /\ Known BY DEF Inv
<1>3. remote \in Balancer BY <1>1, <1>2, Pieces
<1>4. NoListeners \in [Keys -> Opt(Listener)] /\ Null \in Opt(Page)
      /\ \A k \in Keys : NoListeners[k] = Null
  BY DEF NoListeners, Opt
<1>5. /\ s \in Balancer
      /\ \A k \in Keys :
           /\ (s.listeners[k] = Null) <=> (remote.listeners[k] = Null)
           /\ remote.listeners[k] # Null =>
                /\ s.listeners[k].challenge = remote.listeners[k].challenge
                /\ s.listeners[k].settings = remote.listeners[k].settings
                /\ s.listeners[k].certificate = Null
  BY <1>3, <1>4, ReadBackIs
<1> HIDE DEF s
<1>6. TypeOK'
  <2>1. ops' \in 0..MaxOps BY <1>1, <1>2, LoadBalancerAssumption DEF TypeOK
  <2>2. QED BY <1>1, <1>2, <1>5, <2>1 DEF TypeOK, Opt
<1>7. Known' BY <1>1, <1>2, <1>5 DEF Known
<1>8. AtWork' BY <1>1 DEF Inv, AtWork
<1>9. Updating' /\ HalfWay' BY <1>1 DEF Updating, HalfWay
<1>10. OkConverges' /\ NoPermaDiff' /\ ClashMeansMeddled'
  BY <1>1 DEF OkConverges, NoPermaDiff, ClashMeansMeddled
<1>11. QED BY <1>6, <1>7, <1>8, <1>9, <1>10 DEF Inv

\* Somebody else writes.
LEMMA InvOutside ==
  ASSUME Inv, NEW lb, Outside(lb), stray' \subseteq Keys, stray \subseteq stray',
         lb # Null =>
           /\ lb \in Balancer /\ lb.page = TrimSpace(lb.page) /\ Valid(lb)
           /\ \A k \in Keys :
                /\ (lb.listeners[k] = Null) <=> (remote.listeners[k] = Null)
                /\ lb.listeners[k] # Null =>
                     /\ lb.listeners[k].challenge = remote.listeners[k].challenge
                     /\ lb.listeners[k].settings = remote.listeners[k].settings
                     /\ k \notin stray' =>
                          lb.listeners[k].certificate = remote.listeners[k].certificate
  PROVE  Inv'
<1>1. /\ ext > 0 /\ ext' = ext - 1 /\ remote # Null /\ remote' = lb /\ meddled' = TRUE
      /\ tf' = tf /\ tainted' = tainted /\ plan' = plan /\ pc' = pc /\ todo' = todo
      /\ outcome' = outcome /\ ops' = ops
  BY DEF Outside
<1>2. TypeOK /\ Known BY DEF Inv
<1>3. TypeOK'
  <2>1. ext' \in 0..MaxExternal BY <1>1, <1>2, LoadBalancerAssumption DEF TypeOK
  <2>2. QED BY <1>1, <1>2, <2>1 DEF TypeOK, Opt
<1>4. Known' BY <1>1, <1>2 DEF Known
<1>5. AtWork' BY <1>1 DEF Inv, AtWork
<1>6. Updating'
  <2>1. pc = "update" =>
          /\ plan # Null /\ tf # Null /\ ~ListenersRequireReplace(plan, tf)
          /\ todo \subseteq Calls(plan, tf)
          /\ \A k \in Keys : Rotation(k) \in Calls(plan, tf) /\ Rotation(k) \notin todo => k \in stray
    BY DEF Inv, Updating
  <2>2. QED BY <1>1, <2>1 DEF Updating, ListenersRequireReplace, Calls, InBoth
<1>7. HalfWay' /\ OkConverges' /\ NoPermaDiff' /\ ClashMeansMeddled'
  BY <1>1 DEF HalfWay, OkConverges, NoPermaDiff, ClashMeansMeddled
<1>8. QED BY <1>3, <1>4, <1>5, <1>6, <1>7 DEF Inv

LEMMA InvOthers == ASSUME Inv, Others PROVE Inv'
<1>1. TypeOK /\ Known /\ Null \notin Balancer /\ Null \notin Listener
  BY LoadBalancerAssumption DEF Inv
<1>2. remote # Null =>
        /\ remote \in Balancer /\ remote.page = TrimSpace(remote.page) /\ Valid(remote)
  BY <1>1, Pieces DEF TypeOK, Known
<1>3. stray \subseteq Keys BY <1>1 DEF TypeOK
<1>4. CASE OutsideDelete
  <2>1. Outside(Null) /\ stray' = stray BY <1>4 DEF OutsideDelete
  <2>2. QED BY <1>3, <2>1, InvOutside
<1>5. CASE OutsideChange
  <2>1. remote # Null /\ stray' = stray BY <1>5 DEF OutsideChange
  <2>2. ASSUME NEW p \in Opt(Page), p = TrimSpace(p), Outside([remote EXCEPT !.page = p])
        PROVE  Inv'
    <3> DEFINE lb == [remote EXCEPT !.page = p]
    <3>1. lb \in Balancer /\ lb.page = p /\ lb.listeners = remote.listeners
      BY <1>2, <2>1 DEF Balancer
    <3>2. Outside(lb) BY <2>2
    <3> HIDE DEF lb
    <3>3. Valid(lb) BY <1>2, <2>1, <3>1 DEF Valid
    <3>4. QED BY <1>3, <2>1, <2>2, <3>1, <3>2, <3>3, InvOutside
  <2>3. ASSUME NEW a \in Opt(Addresses), Outside([remote EXCEPT !.address = a])
        PROVE  Inv'
    <3> DEFINE lb == [remote EXCEPT !.address = a]
    <3>1. lb \in Balancer /\ lb.page = remote.page /\ lb.listeners = remote.listeners
      BY <1>2, <2>1 DEF Balancer
    <3>2. Outside(lb) BY <2>3
    <3> HIDE DEF lb
    <3>3. Valid(lb) BY <1>2, <2>1, <3>1 DEF Valid
    <3>4. QED BY <1>2, <1>3, <2>1, <3>1, <3>2, <3>3, InvOutside
  <2>4. ASSUME NEW k \in Keys, NEW t \in Targets, NEW w \in Opt(Weights),
               remote.listeners[k] # Null, Outside([remote EXCEPT !.listeners[k].pool[t] = w])
        PROVE  Inv'
    <3> DEFINE q == [remote.listeners[k].pool EXCEPT ![t] = w]
               l == [remote.listeners[k] EXCEPT !.pool = q]
               ls == [remote.listeners EXCEPT ![k] = l]
               lb == [remote EXCEPT !.listeners = ls]
    <3>1. remote \in Balancer /\ remote.listeners[k] \in Listener
          /\ remote.listeners \in [Keys -> Opt(Listener)]
      BY <1>2, <2>1, <2>4, ListenerPieces
    <3>2. q \in [Targets -> Opt(Weights)] BY <3>1 DEF Listener
    <3>3. Outside(lb) BY <2>4
    <3> HIDE DEF q
    <3>4. /\ l \in Listener /\ l.certificate = remote.listeners[k].certificate
          /\ l.challenge = remote.listeners[k].challenge
          /\ l.settings = remote.listeners[k].settings
      BY <3>1, <3>2 DEF Listener
    <3> HIDE DEF l
    <3>5. /\ ls \in [Keys -> Opt(Listener)] /\ ls[k] = l
          /\ \A j \in Keys \ {k} : ls[j] = remote.listeners[j]
      BY <3>1, <3>4 DEF Opt
    <3> HIDE DEF ls
    <3>6. lb \in Balancer /\ lb.page = remote.page /\ lb.listeners = ls
      BY <3>1, <3>5 DEF Balancer
    <3> HIDE DEF lb
    <3>7. ValidateCustomCert(k, l) BY <1>2, <2>1, <2>4, <3>4 DEF Valid, ValidateCustomCert
    <3>8. Valid(lb) BY <1>2, <2>1, <3>5, <3>6, <3>7 DEF Valid
    <3>9. \A j \in Keys :
            /\ (lb.listeners[j] = Null) <=> (remote.listeners[j] = Null)
            /\ lb.listeners[j] # Null =>
                 /\ lb.listeners[j].challenge = remote.listeners[j].challenge
                 /\ lb.listeners[j].settings = remote.listeners[j].settings
                 /\ lb.listeners[j].certificate = remote.listeners[j].certificate
      BY <1>1, <2>4, <3>4, <3>5, <3>6
    <3>10. QED BY <1>2, <1>3, <2>1, <3>3, <3>6, <3>8, <3>9, InvOutside
  <2>5. QED BY <1>5, <2>2, <2>3, <2>4 DEF OutsideChange
<1>6. ASSUME NEW k \in Keys, OutsideRotation(k) PROVE Inv'
  <2>1. /\ remote # Null /\ remote.listeners[k] # Null
        /\ remote.listeners[k].challenge = "custom" /\ stray' = stray \union {k}
    BY <1>6 DEF OutsideRotation
  <2>2. PICK x \in Certificates : Outside([remote EXCEPT !.listeners[k].certificate = x])
    BY <1>6 DEF OutsideRotation
  <2> DEFINE l == [remote.listeners[k] EXCEPT !.certificate = x]
             ls == [remote.listeners EXCEPT ![k] = l]
             lb == [remote EXCEPT !.listeners = ls]
  <2>3. remote \in Balancer /\ remote.listeners[k] \in Listener
        /\ remote.listeners \in [Keys -> Opt(Listener)]
    BY <1>2, <2>1, ListenerPieces
  <2>4. Outside(lb) BY <2>2
  <2>5. /\ l \in Listener /\ l.certificate = x
        /\ l.challenge = remote.listeners[k].challenge
        /\ l.settings = remote.listeners[k].settings
    BY <2>3 DEF Listener, Opt
  <2> HIDE DEF l
  <2>6. /\ ls \in [Keys -> Opt(Listener)] /\ ls[k] = l
        /\ \A j \in Keys \ {k} : ls[j] = remote.listeners[j]
    BY <2>3, <2>5 DEF Opt
  <2> HIDE DEF ls
  <2>7. lb \in Balancer /\ lb.page = remote.page /\ lb.listeners = ls
    BY <2>3, <2>6 DEF Balancer
  <2> HIDE DEF lb
  <2>8. x # Null BY LoadBalancerAssumption
  <2>9. ValidateCustomCert(k, l)
    BY <1>2, <2>1, <2>5, <2>8 DEF Valid, ValidateCustomCert
  <2>10. Valid(lb) BY <1>2, <2>1, <2>6, <2>7, <2>9 DEF Valid
  <2>11. \A j \in Keys :
           /\ (lb.listeners[j] = Null) <=> (remote.listeners[j] = Null)
           /\ lb.listeners[j] # Null =>
                /\ lb.listeners[j].challenge = remote.listeners[j].challenge
                /\ lb.listeners[j].settings = remote.listeners[j].settings
                /\ j \notin stray' =>
                     lb.listeners[j].certificate = remote.listeners[j].certificate
    BY <1>1, <2>1, <2>5, <2>6, <2>7
  <2>12. QED BY <1>2, <1>3, <2>1, <2>4, <2>7, <2>10, <2>11, InvOutside
<1>7. QED BY <1>4, <1>5, <1>6 DEF Others

\* The invariant is inductive.
LEMMA InvNext == Inv /\ [Next]_vars => Inv'
<1> SUFFICES ASSUME Inv, [Next]_vars PROVE Inv' OBVIOUS
<1>1. CASE UNCHANGED vars
  <2>1. /\ remote' = remote /\ tf' = tf /\ tainted' = tainted /\ plan' = plan /\ pc' = pc
        /\ todo' = todo /\ outcome' = outcome /\ stray' = stray /\ meddled' = meddled
        /\ ops' = ops /\ ext' = ext
    BY <1>1 DEF vars, model
  <2>2. TypeOK' /\ Known' /\ AtWork' BY <2>1 DEF Inv, TypeOK, Known, AtWork
  <2>3. Updating'
    BY <2>1 DEF Inv, Updating, ListenersRequireReplace, Calls, InBoth
  <2>4. HalfWay' BY <2>1 DEF Inv, HalfWay, Between, Calls, InBoth
  <2>5. OkConverges' /\ NoPermaDiff' /\ ClashMeansMeddled'
    BY <2>1 DEF Inv, OkConverges, NoPermaDiff, ClashMeansMeddled
  <2>6. QED BY <2>2, <2>3, <2>4, <2>5 DEF Inv
<1>2. CASE Terraform
  BY <1>2, InvRefresh, InvStartOthers, InvStartUpdate, InvImport DEF Terraform
<1>3. CASE Handler
  BY <1>3, InvPosted, InvPostFails, InvCreatedUp, InvCreatedPage, InvCallAnswered,
     InvCallClashes, InvCallFails, InvUpdated, InvWaitFails, InvDeleted, InvDeleteFails
     DEF Handler
<1>4. CASE Others BY <1>4, InvOthers
<1>5. QED BY <1>1, <1>2, <1>3, <1>4 DEF Next, Quiet

\* The invariant holds of every behaviour.
LEMMA InvAlways == Spec => []Inv
<1>1. QED BY InvInit, InvNext, PTL DEF Spec

-----------------------------------------------------------------------------
(* Theorems.                                                               *)

\* Types are kept, and the platform's page has no white space around it.
THEOREM TypeCorrect == Spec => []TypeOK
<1>1. Inv => TypeOK BY DEF Inv
<1>2. QED BY <1>1, InvAlways, PTL

\* A create or update that reports success while nobody else wrote leaves the
\* platform with the whole configuration, whatever updates broke off before.
THEOREM UpdatesConverge == Spec => []OkConverges
<1>1. Inv => OkConverges BY DEF Inv
<1>2. QED BY <1>1, InvAlways, PTL

\* The same configuration is then no change, however often it is refreshed.
THEOREM NothingToChangeAfterwards == Spec => []NoPermaDiff
<1>1. Inv => NoPermaDiff BY DEF Inv
<1>2. QED BY <1>1, InvAlways, PTL

\* Repeating an update that broke off does not run into its own calls.
THEOREM ClashesAreMeddling == Spec => []ClashMeansMeddled
<1>1. Inv => ClashMeansMeddled BY DEF Inv
<1>2. QED BY <1>1, InvAlways, PTL

\* No call of an update takes away a backend that the plan keeps.
LEMMA CallKeeps ==
  ASSUME Inv, pc = "update", NEW c \in todo, Does(c), remote # Null,
         NEW k \in Keys, NEW t \in Targets,
         remote.listeners[k] # Null, plan.listeners[k] # Null,
         remote.listeners[k].pool[t] # Null, plan.listeners[k].pool[t] # Null
  PROVE  remote'.listeners[k].pool[t] # Null
<1> DEFINE e == Effect(remote, c, plan)
<1>1. remote' = e BY DEF Does
<1>2. remote \in Balancer /\ plan \in Balancer
  BY Pieces DEF Inv, Updating
<1>3. CASE c = PatchCall \/ c = AddressCall
  BY <1>1, <1>2, <1>3, EffectOfPatch, EffectOfAddress
<1>4. ASSUME NEW j \in Keys, c = Rotation(j), plan.listeners[j] # Null
      PROVE  e.listeners[k].pool[t] # Null
  <2>1. remote.listeners[j] # Null BY <1>4, SameListeners
  <2>2. /\ \A i \in Keys \ {j} : e.listeners[i] = remote.listeners[i]
        /\ e.listeners[j].pool = remote.listeners[j].pool
    BY <1>2, <1>4, <2>1, EffectOfRotation
  <2> HIDE DEF e
  <2>3. QED BY <2>2
<1>5. ASSUME NEW j \in Keys, NEW u \in Targets, c = BackendCall(j, u), plan.listeners[j] # Null
      PROVE  e.listeners[k].pool[t] # Null
  <2>1. remote.listeners[j] # Null BY <1>5, SameListeners
  <2>2. /\ \A i \in Keys \ {j} : e.listeners[i] = remote.listeners[i]
        /\ e.listeners[j].pool[u] = plan.listeners[j].pool[u]
        /\ \A v \in Targets \ {u} : e.listeners[j].pool[v] = remote.listeners[j].pool[v]
    <3>1. /\ remote \in Balancer /\ plan \in Balancer /\ j \in Keys /\ u \in Targets
          /\ remote.listeners[j] # Null /\ plan.listeners[j] # Null
      BY <1>2, <1>5, <2>1
    <3>2. e = Effect(remote, BackendCall(j, u), plan) BY <1>5
    <3> HIDE DEF e
    <3>3. QED BY ONLY <3>1, <3>2, EffectOfBackend
  <2> HIDE DEF e
  <2>3. QED BY <2>2
<1>6. QED BY <1>1, <1>3, <1>4, <1>5, CallShape

\* A backend that the plan keeps receives traffic throughout the update.
THEOREM KeptBackendsStay == Spec => KeptStay
<1> DEFINE Kept ==
      pc = "update" /\ ext' = ext /\ remote # Null =>
        \A k \in Keys, t \in Targets :
          /\ remote.listeners[k] # Null /\ plan.listeners[k] # Null
          /\ remote.listeners[k].pool[t] # Null /\ plan.listeners[k].pool[t] # Null
          => remote'.listeners[k].pool[t] # Null
<1>1. Inv /\ [Next]_vars => [Kept]_vars
  <2> SUFFICES ASSUME Inv, Next, pc = "update", ext' = ext, remote # Null,
                      NEW k \in Keys, NEW t \in Targets,
                      remote.listeners[k] # Null, plan.listeners[k] # Null,
                      remote.listeners[k].pool[t] # Null, plan.listeners[k].pool[t] # Null
               PROVE  remote'.listeners[k].pool[t] # Null
    OBVIOUS
  <2>1. ~Others
    <3>1. ext \in Nat BY LoadBalancerAssumption DEF Inv, TypeOK
    <3>2. \A lb : ~Outside(lb) BY <3>1 DEF Outside
    <3>3. QED BY <3>2 DEF Others, OutsideChange, OutsideRotation, OutsideDelete
  <2>2. Handler \/ remote' = remote
    <3>1. Terraform => FALSE
      BY DEF Terraform, Refresh, StartDestroy, Import, StartCreate, StartUpdate, StartReplace, Start
    <3>2. QED BY <2>1, <3>1 DEF Next, Quiet, vars, model
  <2>3. (\E c \in todo : Does(c)) \/ remote' = remote
    BY <2>2 DEF Handler, Posted, PostFails, CreatedUp, CreatedPage, CallAnswered, CallClashes,
                CallFails, Updated, Save, WaitFails, Deleted, DeleteFails
  <2>4. QED BY <2>3, CallKeeps
<1>2. QED BY <1>1, InvAlways, PTL DEF Spec, KeptStay

-----------------------------------------------------------------------------
(* The credentials of a listener's challenge.                              *)

\* No call of an update writes credentials.
LEMMA CallSparesCredentials ==
  ASSUME Inv, pc = "update", NEW c \in todo, Does(c), remote # Null, NEW k \in Keys
  PROVE  /\ (remote'.listeners[k] = Null) <=> (remote.listeners[k] = Null)
         /\ remote.listeners[k] # Null =>
              remote'.listeners[k].credentials = remote.listeners[k].credentials
<1> DEFINE e == Effect(remote, c, plan)
           Spared == /\ (e.listeners[k] = Null) <=> (remote.listeners[k] = Null)
                     /\ remote.listeners[k] # Null =>
                          e.listeners[k].credentials = remote.listeners[k].credentials
<1>1. remote' = e BY DEF Does
<1>2. remote \in Balancer /\ plan \in Balancer
  BY Pieces DEF Inv, Updating
<1>3. CASE c = PatchCall \/ c = AddressCall
  <2>1. c = PatchCall => e.listeners = remote.listeners BY <1>2, EffectOfPatch
  <2>2. c = AddressCall => e.listeners = remote.listeners BY <1>2, EffectOfAddress
  <2> HIDE DEF e
  <2>3. QED BY <1>1, <1>3, <2>1, <2>2
<1>4. ASSUME NEW j \in Keys, NEW l, remote.listeners[j] # Null, l # Null,
             l.credentials = remote.listeners[j].credentials,
             e = [remote EXCEPT !.listeners[j] = l]
      PROVE  Spared
  <2> DEFINE ls == [remote.listeners EXCEPT ![j] = l]
  <2>1. e.listeners = ls BY <1>2, <1>4 DEF Balancer
  <2>2. ls[j] = l /\ \A i \in Keys \ {j} : ls[i] = remote.listeners[i]
    BY <1>2 DEF Balancer
  <2> HIDE DEF e, ls
  <2>3. QED BY <1>4, <2>1, <2>2
<1>5. ASSUME NEW j \in Keys, plan.listeners[j] # Null
      PROVE  remote.listeners[j] # Null /\ remote.listeners[j] \in Listener
  BY <1>2, <1>5, SameListeners, ListenerPieces
<1>6. Null \notin Listener BY LoadBalancerAssumption
<1>7. ASSUME NEW j \in Keys, c = Rotation(j), plan.listeners[j] # Null
      PROVE  Spared
  <2> DEFINE x == plan.listeners[j].certificate
             l == [remote.listeners[j] EXCEPT !.certificate = x]
  <2>1. e = [remote EXCEPT !.listeners[j] = l]
    BY <1>7 DEF Effect, Rotation, Call
  <2>2. x \in Opt(Certificates)
    BY <1>2, <1>7, ListenerPieces DEF Listener
  <2>3. l \in Listener /\ l.credentials = remote.listeners[j].credentials
    BY <1>5, <1>7, <2>2 DEF Listener
  <2> HIDE DEF e, l, Spared
  <2>4. QED BY <1>4, <1>5, <1>6, <1>7, <2>1, <2>3
<1>8. ASSUME NEW j \in Keys, NEW t \in Targets, c = BackendCall(j, t), plan.listeners[j] # Null
      PROVE  Spared
  <2> DEFINE x == plan.listeners[j].pool[t]
             q == [remote.listeners[j].pool EXCEPT ![t] = x]
             l == [remote.listeners[j] EXCEPT !.pool = q]
  <2>1. e = [remote EXCEPT !.listeners[j] = l]
    BY <1>8 DEF Effect, BackendCall, Call
  <2>2. x \in Opt(Weights)
    BY <1>2, <1>8, ListenerPieces DEF Listener
  <2>3. q \in [Targets -> Opt(Weights)]
    BY <1>5, <1>8, <2>2 DEF Listener
  <2> HIDE DEF q
  <2>4. l \in Listener /\ l.credentials = remote.listeners[j].credentials
    BY <1>5, <1>8, <2>3 DEF Listener
  <2> HIDE DEF e, l, Spared
  <2>5. QED BY <1>4, <1>5, <1>6, <1>8, <2>1, <2>4
<1>9. QED BY <1>1, <1>3, <1>7, <1>8, CallShape

\* Neither do others: a listener has the credentials it was created with.
LEMMA OnlyPostWritesCredentials ==
  ASSUME Inv, Next, remote' # Null
  PROVE  \/ \E c \in Configurations : remote'.listeners = c.listeners
         \/ remote # Null /\ \A k \in Keys : remote'.listeners[k] # Null =>
              /\ remote.listeners[k] # Null
              /\ remote'.listeners[k].credentials = remote.listeners[k].credentials
<1> DEFINE Spared == remote # Null /\ \A k \in Keys : remote'.listeners[k] # Null =>
              /\ remote.listeners[k] # Null
              /\ remote'.listeners[k].credentials = remote.listeners[k].credentials
           Posting == \E c \in Configurations : remote'.listeners = c.listeners
<1>1. remote' = remote => Spared OBVIOUS
<1>2. CASE Terraform
  BY <1>1, <1>2 DEF Terraform, Refresh, StartDestroy, Import, StartCreate, StartUpdate,
                    StartReplace, Start
<1>3. CASE Posted \/ PostFails
  <2>1. plan \in Configurations /\ pc = "post"
    BY <1>3, Pieces DEF Inv, AtWork, Posted, PostFails
  <2>2. remote' \in {remote, Created(plan)} BY <1>3 DEF Posted, PostFails
  <2>3. QED BY <1>1, <2>1, <2>2, CreatedIs
<1>4. CASE \E c \in todo : CallAnswered(c) \/ CallClashes(c) \/ CallFails(c)
  <2>1. PICK c \in todo : pc = "update" /\ (remote' = remote \/ Does(c))
    BY <1>4 DEF CallAnswered, CallClashes, CallFails
  <2>2. Does(c) => remote # Null BY DEF Does
  <2>3. QED BY <1>1, <2>1, <2>2, CallSparesCredentials
<1>5. CASE CreatedUp \/ CreatedPage \/ Updated \/ WaitFails \/ Deleted \/ DeleteFails
  BY <1>1, <1>5 DEF CreatedUp, CreatedPage, Updated, Save, WaitFails, Deleted, DeleteFails
<1>6. CASE Others
  <2>1. CASE OutsideDelete BY <2>1 DEF OutsideDelete, Outside
  <2>2. CASE OutsideChange \/ \E k \in Keys : OutsideRotation(k)
    <3>1. remote # Null /\ remote \in Balancer
      BY <2>2, Pieces DEF Inv, OutsideChange, OutsideRotation
    <3>2. remote.listeners \in [Keys -> Opt(Listener)] /\ Null \notin Listener
      BY <3>1, ListenerPieces, LoadBalancerAssumption
    <3>3. ASSUME NEW p, remote' = [remote EXCEPT !.page = p] \/ remote' = [remote EXCEPT !.address = p]
          PROVE  Spared
      BY <3>1, <3>3 DEF Balancer
    <3>4. ASSUME NEW j \in Keys, NEW l \in Listener, remote.listeners[j] # Null,
                 l.credentials = remote.listeners[j].credentials,
                 remote' = [remote EXCEPT !.listeners[j] = l]
          PROVE  Spared
      <4> DEFINE ls == [remote.listeners EXCEPT ![j] = l]
      <4>1. remote'.listeners = ls BY <3>1, <3>4 DEF Balancer
      <4>2. ls[j] = l /\ \A i \in Keys \ {j} : ls[i] = remote.listeners[i] BY <3>2
      <4> HIDE DEF ls
      <4>3. QED BY <3>1, <3>4, <4>1, <4>2
    <3>5. ASSUME NEW j \in Keys, NEW t \in Targets, NEW w \in Opt(Weights), remote.listeners[j] # Null,
                 remote' = [remote EXCEPT !.listeners[j].pool[t] = w]
          PROVE  Spared
      <4> DEFINE q == [remote.listeners[j].pool EXCEPT ![t] = w]
                 l == [remote.listeners[j] EXCEPT !.pool = q]
      <4>1. remote' = [remote EXCEPT !.listeners[j] = l] BY <3>5
      <4>2. remote.listeners[j] \in Listener BY <3>2, <3>5 DEF Opt
      <4>3. q \in [Targets -> Opt(Weights)] BY <4>2, <3>5 DEF Listener
      <4> HIDE DEF q
      <4>4. l \in Listener /\ l.credentials = remote.listeners[j].credentials
        BY <4>2, <4>3 DEF Listener
      <4> HIDE DEF l, Spared
      <4>5. QED BY <3>4, <3>5, <4>1, <4>4
    <3>6. ASSUME NEW j \in Keys, NEW x \in Certificates, remote.listeners[j] # Null,
                 remote' = [remote EXCEPT !.listeners[j].certificate = x]
          PROVE  Spared
      <4> DEFINE l == [remote.listeners[j] EXCEPT !.certificate = x]
      <4>1. remote' = [remote EXCEPT !.listeners[j] = l] BY <3>6
      <4>2. remote.listeners[j] \in Listener BY <3>2, <3>6 DEF Opt
      <4>3. l \in Listener /\ l.credentials = remote.listeners[j].credentials
        BY <4>2, <3>6 DEF Listener, Opt
      <4> HIDE DEF l, Spared
      <4>4. QED BY <3>4, <3>6, <4>1, <4>3
    <3>7. OutsideChange =>
            \/ \E p : remote' = [remote EXCEPT !.page = p] \/ remote' = [remote EXCEPT !.address = p]
            \/ \E j \in Keys, t \in Targets, w \in Opt(Weights) :
                 remote.listeners[j] # Null /\ remote' = [remote EXCEPT !.listeners[j].pool[t] = w]
      BY DEF OutsideChange, Outside
    <3>8. \A j \in Keys : OutsideRotation(j) => remote.listeners[j] # Null /\
            \E x \in Certificates : remote' = [remote EXCEPT !.listeners[j].certificate = x]
      BY DEF OutsideRotation, Outside
    <3> HIDE DEF Spared
    <3>9. OutsideChange => Spared BY <3>3, <3>5, <3>7
    <3>10. (\E k \in Keys : OutsideRotation(k)) => Spared BY <3>6, <3>8
    <3>11. QED BY <2>2, <3>9, <3>10 DEF Spared
  <2>3. QED BY <1>6, <2>1, <2>2 DEF Others
<1>7. QED
  <2>1. Handler => \/ Posted \/ PostFails \/ CreatedUp \/ CreatedPage \/ Updated \/ WaitFails
                   \/ Deleted \/ DeleteFails
                   \/ \E c \in todo : CallAnswered(c) \/ CallClashes(c) \/ CallFails(c)
    BY DEF Handler
  <2>2. Quiet => remote' = remote BY DEF Quiet, vars, model
  <2> HIDE DEF Spared
  <2>3. QED BY <1>1, <1>2, <1>3, <1>4, <1>5, <1>6, <2>1, <2>2 DEF Next, Spared

\* Every listener has the credentials that some configuration gives it.
Given(k, x) == \E c \in Configurations : c.listeners[k] # Null /\ c.listeners[k].credentials = x
FromConfiguration ==
  remote # Null => \A k \in Keys : remote.listeners[k] # Null =>
    Given(k, remote.listeners[k].credentials)

\* As long as no configuration gives a listener other credentials than another
\* does, a success means that they have reached the platform: it is only by a
\* change in place that what the documentation says can fail.
THEOREM UnchangedCredentialsApplied ==
  ASSUME \A c, d \in Configurations, k \in Keys :
           c.listeners[k] # Null /\ d.listeners[k] # Null =>
             c.listeners[k].credentials = d.listeners[k].credentials
  PROVE  Spec => []CredentialsApplied
<1>1. Init => FromConfiguration BY DEF Init, FromConfiguration
<1>2. Inv /\ FromConfiguration /\ [Next]_vars => FromConfiguration'
  <2> SUFFICES ASSUME Inv, FromConfiguration, [Next]_vars, remote' # Null,
                      NEW k \in Keys, remote'.listeners[k] # Null
               PROVE  Given(k, remote'.listeners[k].credentials)
    BY DEF FromConfiguration
  <2>1. CASE UNCHANGED vars BY <2>1 DEF vars, model, FromConfiguration
  <2>2. CASE Next BY <2>2, OnlyPostWritesCredentials DEF FromConfiguration, Given
  <2>3. QED BY <2>1, <2>2
<1>3. Inv /\ FromConfiguration => CredentialsApplied
  <2> SUFFICES ASSUME Inv, FromConfiguration, outcome = "ok", ~meddled, plan # Null,
                      NEW k \in Keys, plan.listeners[k] # Null
               PROVE  remote.listeners[k].credentials = plan.listeners[k].credentials
    BY DEF CredentialsApplied
  <2>1. remote # Null /\ remote.listeners[k] # Null BY DEF Inv, OkConverges
  <2>2. plan \in Configurations BY Pieces DEF Inv
  <2>3. Given(k, remote.listeners[k].credentials) BY <2>1 DEF FromConfiguration
  <2>4. QED BY <2>2, <2>3 DEF Given
<1>4. QED BY <1>1, <1>2, <1>3, InvInit, InvNext, PTL DEF Spec
=============================================================================
