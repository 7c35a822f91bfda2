----------------------------- MODULE LoadBalancer -----------------------------
(***************************************************************************)
(* How ccp_load_balancer brings a load balancer to its configuration       *)
(* (internal/resources/loadbalancer, internal/errorpage): which changes    *)
(* are validated, which replace the load balancer, and the calls by which  *)
(* the others are made one after another, any of which may fail.           *)
(*                                                                         *)
(* A listener is known by its protocol and port.  What cannot change on it *)
(* is its challenge and its other settings; its backends, the certificate  *)
(* of a "custom" challenge, the address and the error page change in       *)
(* place.  A certificate stands for the certificate with its key, and the  *)
(* error page for all that one PATCH writes.  What waits for the platform  *)
(* and which objects exist is the business of module ResourceLifecycle.    *)
(***************************************************************************)
EXTENDS Naturals

CONSTANTS
  Keys,            \* protocol and port of a listener
  HttpsKeys,       \* those whose protocol is https
  Targets,         \* what a backend forwards to, with its port
  Weights, Certificates, Credentials, Settings, Bodies, Addresses,
  Null,            \* no listener, no backend, no value
  Configurations,  \* those Terraform may be asked for
  MaxOps,          \* bound: handlers started
  MaxExternal      \* bound: changes made by others

Challenges == {"dns01", "custom"}
Opt(S) == S \union {Null}
Listener == [challenge : Challenges, settings : Settings,
             credentials : Opt(Credentials), certificate : Opt(Certificates),
             pool : [Targets -> Opt(Weights)]]
\* A page is its text and whether there is white space around it.
Page == [body : Bodies, edges : BOOLEAN]
Balancer == [page : Opt(Page), address : Opt(Addresses),
             listeners : [Keys -> Opt(Listener)]]

-----------------------------------------------------------------------------
(* Plan-time decisions.                                                    *)

\* validateCustomCert: a certificate belongs to a custom challenge over https.
ValidateCustomCert(k, l) ==
  IF l.challenge = "custom" THEN k \in HttpsKeys /\ l.certificate # Null
  ELSE l.certificate = Null

Valid(c) ==
  \A k \in Keys : c.listeners[k] # Null => ValidateCustomCert(k, c.listeners[k])

ASSUME LoadBalancerAssumption ==
  /\ HttpsKeys \subseteq Keys
  /\ Null \notin Weights \union Certificates \union Credentials \union Addresses
  /\ Null \notin Listener /\ Null \notin Page /\ Null \notin Balancer
  /\ \A c \in Configurations : c \in Balancer /\ Valid(c)
  /\ MaxOps \in Nat /\ MaxExternal \in Nat

\* Mutated form of ListenerImmutableChanged: the other settings are forgotten.
ListenerImmutableChangedLess(l, m) == l.challenge # m.challenge

\* listenerImmutableChanged: credentials are not among what it compares.
ListenerImmutableChanged(l, m) ==
  l.challenge # m.challenge \/ l.settings # m.settings

\* listenersRequireReplace, by key.
ListenersRequireReplace(c, s) ==
  \E k \in Keys :
    \/ (c.listeners[k] = Null) # (s.listeners[k] = Null)
    \/ /\ c.listeners[k] # Null /\ s.listeners[k] # Null
       /\ ListenerImmutableChanged(c.listeners[k], s.listeners[k])

CertRotationNeeded(l, m) ==
  l.challenge = "custom" /\ l.certificate # m.certificate

-----------------------------------------------------------------------------
(* What is sent and what is read back.                                     *)

\* The platform strips a page's white space.
TrimSpace(p) == IF p = Null THEN Null ELSE [p EXCEPT !.edges = FALSE]

\* Mutated form of FromAPI: the page as it came back.
FromAPIVerbatim(known, api) == api

\* errorpage.FromAPI: the page as known, if it is the platform's but for space.
FromAPI(known, api) == IF TrimSpace(known) = api THEN known ELSE api

\* Mutated form of CarryOver: the backends are carried over too.
CarryOverAll(l, prior) == IF prior = Null THEN l ELSE prior

\* Certificates and credentials come back from no GET: those of the prior model
\* are carried over for a listener it has.
CarryOver(l, prior) ==
  [l EXCEPT !.credentials = IF prior = Null THEN Null ELSE prior.credentials,
            !.certificate = IF prior = Null THEN Null ELSE prior.certificate]

StateFromAPI(lb, prior, page) ==
  [page |-> FromAPI(page, lb.page), address |-> lb.address,
   listeners |-> [k \in Keys |->
     IF lb.listeners[k] = Null THEN Null ELSE CarryOver(lb.listeners[k], prior[k])]]

NoListeners == [k \in Keys |-> Null]

\* The calls of an update: one PATCH if the page changes, the address, then for
\* each listener its certificate and every backend that differs.
Call(what, k, t) == [what |-> what, of |-> k, target |-> t]
PatchCall == Call("patch", Null, Null)
AddressCall == Call("address", Null, Null)
Rotation(k) == Call("rotate", k, Null)
BackendCall(k, t) == Call("backend", k, t)

InBoth(c, s) == {k \in Keys : c.listeners[k] # Null /\ s.listeners[k] # Null}

Calls(c, s) ==
  {PatchCall : x \in {c.page} \ {s.page}}
  \union {AddressCall : x \in {c.address} \ {s.address}}
  \union {Rotation(k) : k \in {k \in InBoth(c, s) :
            CertRotationNeeded(c.listeners[k], s.listeners[k])}}
  \union UNION {{BackendCall(k, t) : t \in {t \in Targets :
                   c.listeners[k].pool[t] # s.listeners[k].pool[t]}} : k \in InBoth(c, s)}

\* Mutated form of Effect: another weight is a removal first.
EffectByRemoval(lb, call, c) ==
  CASE call.what = "patch" -> [lb EXCEPT !.page = TrimSpace(c.page)]
    [] call.what = "address" -> [lb EXCEPT !.address = c.address]
    [] call.what = "rotate" ->
         [lb EXCEPT !.listeners[call.of].certificate = c.listeners[call.of].certificate]
    [] call.what = "backend" ->
         [lb EXCEPT !.listeners[call.of].pool[call.target] =
                      IF @ = Null THEN c.listeners[call.of].pool[call.target] ELSE Null]

\* What a call writes, of what configuration c asks for.
Effect(lb, call, c) ==
  CASE call.what = "patch" -> [lb EXCEPT !.page = TrimSpace(c.page)]
    [] call.what = "address" -> [lb EXCEPT !.address = c.address]
    [] call.what = "rotate" ->
         [lb EXCEPT !.listeners[call.of].certificate = c.listeners[call.of].certificate]
    [] call.what = "backend" ->
         [lb EXCEPT !.listeners[call.of].pool[call.target] =
                      c.listeners[call.of].pool[call.target]]

\* Mutated form of Created: the POST is thought to take the page.
CreatedWithPage(c) == c

\* What a POST creates; it takes no page.
Created(c) == [c EXCEPT !.page = Null]

-----------------------------------------------------------------------------
VARIABLES
  remote,   \* the load balancer on the platform
  tf,       \* Terraform state
  tainted,  \* is it to be replaced?
  plan,     \* what the handler at work, or the last one, was asked for
  pc, todo, \* the handler's next step; the calls of an update still to be made
  outcome,  \* what the last handler reported
  stray,    \* history: listeners whose certificate the state does not know
  meddled,  \* history: has somebody else written since the handler started?
  ops, ext

model == <<remote, tf, tainted, plan, pc, todo, outcome>>
vars == <<model, stray, meddled, ops, ext>>

TypeOK ==
  /\ remote \in Opt(Balancer) /\ tf \in Opt(Balancer) /\ tainted \in BOOLEAN
  /\ remote # Null => remote.page = TrimSpace(remote.page)
  /\ plan \in Opt(Configurations)
  /\ pc \in {"idle", "post", "created", "update", "delete"}
  /\ todo \subseteq [what : {"patch", "address", "rotate", "backend"},
                     of : Opt(Keys), target : Opt(Targets)]
  /\ outcome \in {"none", "ok", "error", "clash"}
  /\ stray \subseteq Keys /\ meddled \in BOOLEAN
  /\ ops \in 0..MaxOps /\ ext \in 0..MaxExternal

Init ==
  /\ remote = Null /\ tf = Null /\ tainted = FALSE /\ plan = Null
  /\ pc = "idle" /\ todo = {} /\ outcome = "none"
  /\ stray = {} /\ meddled = FALSE
  /\ ops = MaxOps /\ ext = MaxExternal

-----------------------------------------------------------------------------
(* Terraform: refresh, plan, start a handler.                              *)

\* Read.
Refreshed == IF remote = Null THEN Null ELSE StateFromAPI(remote, tf.listeners, tf.page)

Refresh ==
  /\ pc = "idle" /\ tf # Null
  /\ tf' = Refreshed
  /\ tainted' = (tainted /\ remote # Null)
  /\ UNCHANGED <<remote, plan, pc, todo, outcome, stray, meddled, ops, ext>>

Start(step, c) ==
  /\ pc = "idle" /\ ops > 0
  /\ ops' = ops - 1
  /\ pc' = step /\ plan' = c /\ outcome' = "none" /\ meddled' = FALSE
  /\ UNCHANGED <<remote, tf, tainted, stray, ext>>

StartCreate(c) == tf = Null /\ remote = Null /\ Start("post", c) /\ UNCHANGED todo

\* A plan is made from a refreshed state.
StartUpdate(c) ==
  /\ tf # Null /\ tf = Refreshed /\ ~tainted /\ c # tf
  /\ ~ListenersRequireReplace(c, tf)
  /\ Start("update", c)
  /\ todo' = Calls(c, tf)

StartReplace(c) ==
  /\ tf # Null /\ tf = Refreshed
  /\ tainted \/ ListenersRequireReplace(c, tf)
  /\ Start("delete", c) /\ UNCHANGED todo

StartDestroy == tf # Null /\ tf = Refreshed /\ Start("delete", Null) /\ UNCHANGED todo

\* ImportState and the Read after it: there is no prior model.
Import ==
  /\ pc = "idle" /\ ops > 0 /\ tf = Null /\ remote # Null
  /\ tf' = StateFromAPI(remote, NoListeners, Null) /\ tainted' = FALSE
  /\ outcome' = "none" /\ stray' = {} /\ ops' = ops - 1
  /\ UNCHANGED <<remote, plan, pc, todo, meddled, ext>>

-----------------------------------------------------------------------------
(* Handlers.                                                               *)

Stop(result) == pc' = "idle" /\ todo' = {} /\ outcome' = result
Bounds == UNCHANGED <<meddled, ops, ext>>

\* Create: the state is written as soon as the POST is answered.
Posted ==
  /\ pc = "post"
  /\ remote' = Created(plan)
  /\ tf' = StateFromAPI(remote', plan.listeners, Null) /\ tainted' = TRUE
  /\ pc' = "created" /\ stray' = {}
  /\ UNCHANGED <<plan, todo, outcome>> /\ Bounds

PostFails ==
  /\ pc = "post" /\ remote' \in {remote, Created(plan)} /\ Stop("error")
  /\ UNCHANGED <<tf, tainted, plan, stray>> /\ Bounds

\* The state a create or update ends with.
Save ==
  /\ remote # Null
  /\ tf' = StateFromAPI(remote, plan.listeners, plan.page) /\ tainted' = FALSE
  /\ Stop("ok")
  /\ UNCHANGED <<remote, plan>> /\ Bounds

\* pollUntilReady, then the page if there is one.
CreatedUp ==
  /\ pc = "created" /\ plan.page = Null /\ Save /\ UNCHANGED stray
CreatedPage ==
  /\ pc = "created" /\ plan.page # Null /\ remote # Null
  /\ pc' = "update" /\ todo' = {PatchCall}
  /\ UNCHANGED <<remote, tf, tainted, plan, outcome, stray>> /\ Bounds

\* The order of the calls: the PATCH, the address, then listener by listener the
\* certificate, what is removed, what is added or gets another weight.
Removal(c) == c.what = "backend" /\ plan.listeners[c.of].pool[c.target] = Null
Rank(c) ==
  IF c.what = "backend" THEN IF Removal(c) THEN 3 ELSE 4
  ELSE IF c.what = "rotate" THEN 2 ELSE IF c.what = "address" THEN 1 ELSE 0
HalfDone(k) ==
  /\ \E d \in todo : d.of = k
  /\ \E d \in Calls(plan, tf) \ todo : d.of = k
IsNext(c) ==
  /\ \A d \in todo : d.of \in {c.of, Null} => Rank(c) <= Rank(d)
  /\ \A d \in todo : HalfDone(d.of) => d.of = c.of

\* A backend added where there is one, or changed where there is none; a load
\* balancer that is gone.  A 404 on a removal is ignored.
Clashes(c) ==
  /\ ~Removal(c)
  /\ \/ remote = Null
     \/ /\ remote # Null /\ c.what = "backend"
        /\ (remote.listeners[c.of].pool[c.target] = Null)
             # (tf.listeners[c.of].pool[c.target] = Null)

Does(c) ==
  /\ remote' = (IF remote = Null THEN Null ELSE Effect(remote, c, plan))
  /\ stray' = stray \union {k \in Keys : c = Rotation(k)}

CallAnswered(c) ==
  /\ pc = "update" /\ IsNext(c) /\ ~Clashes(c)
  /\ Does(c) /\ todo' = todo \ {c}
  /\ UNCHANGED <<tf, tainted, plan, pc, outcome>> /\ Bounds

CallClashes(c) ==
  /\ pc = "update" /\ IsNext(c) /\ Clashes(c) /\ Stop("clash")
  /\ UNCHANGED <<remote, tf, tainted, plan, stray>> /\ Bounds

\* Refused, or carried out and the answer lost.
CallFails(c) ==
  /\ pc = "update" /\ IsNext(c)
  /\ UNCHANGED <<remote, stray>> \/ (~Clashes(c) /\ Does(c))
  /\ Stop("error")
  /\ UNCHANGED <<tf, tainted, plan>> /\ Bounds

\* The wait of an update is over; a certificate rotated is now known.
Updated ==
  /\ pc = "update" /\ todo = {} /\ Save
  /\ stray' = IF meddled THEN stray ELSE stray \ {k \in Keys : Rotation(k) \in Calls(plan, tf)}

\* A poll that ends in an error status, a timeout, or a GET that fails.
WaitFails ==
  /\ pc = "created" \/ (pc = "update" /\ todo = {})
  /\ Stop("error") /\ UNCHANGED <<remote, tf, tainted, plan, stray>> /\ Bounds

\* Delete; if it is half of a replacement, Create follows.
Deleted ==
  /\ pc = "delete"
  /\ remote' = Null /\ tf' = Null /\ tainted' = FALSE
  /\ IF plan = Null THEN Stop("ok")
     ELSE pc' = "post" /\ UNCHANGED <<todo, outcome>>
  /\ UNCHANGED <<plan, stray>> /\ Bounds

DeleteFails ==
  /\ pc = "delete" /\ remote' \in {remote, Null} /\ Stop("error")
  /\ UNCHANGED <<tf, tainted, plan, stray>> /\ Bounds

-----------------------------------------------------------------------------
(* Other clients.                                                          *)

Outside(lb) ==
  /\ ext > 0 /\ ext' = ext - 1
  /\ remote # Null /\ remote' = lb /\ meddled' = TRUE
  /\ UNCHANGED <<tf, tainted, plan, pc, todo, outcome, ops>>

OutsideChange ==
  /\ remote # Null
  /\ \/ \E p \in Opt(Page) : p = TrimSpace(p) /\ Outside([remote EXCEPT !.page = p])
     \/ \E a \in Opt(Addresses) : Outside([remote EXCEPT !.address = a])
     \/ \E k \in Keys, t \in Targets, w \in Opt(Weights) :
          /\ remote.listeners[k] # Null
          /\ Outside([remote EXCEPT !.listeners[k].pool[t] = w])
  /\ UNCHANGED stray

OutsideRotation(k) ==
  /\ remote # Null /\ remote.listeners[k] # Null
  /\ remote.listeners[k].challenge = "custom"
  /\ \E x \in Certificates : Outside([remote EXCEPT !.listeners[k].certificate = x])
  /\ stray' = stray \union {k}

OutsideDelete == Outside(Null) /\ UNCHANGED stray

-----------------------------------------------------------------------------

Terraform ==
  \/ Refresh \/ StartDestroy \/ Import
  \/ \E c \in Configurations : StartCreate(c) \/ StartUpdate(c) \/ StartReplace(c)

Handler ==
  \/ Posted \/ PostFails \/ CreatedUp \/ CreatedPage
  \/ \E c \in todo : CallAnswered(c) \/ CallClashes(c) \/ CallFails(c)
  \/ Updated \/ WaitFails \/ Deleted \/ DeleteFails

Others == OutsideChange \/ OutsideDelete \/ \E k \in Keys : OutsideRotation(k)

Quiet == pc = "idle" /\ UNCHANGED vars

Next == Terraform \/ Handler \/ Others \/ Quiet
Spec == Init /\ [][Next]_vars

-----------------------------------------------------------------------------
(* Properties.                                                             *)

\* A create or update that reports success, while nobody else wrote, leaves the
\* platform with the whole configuration, whatever calls of earlier updates were
\* made or lost: no backend of another configuration is left behind, none is
\* missing, and the certificate is the plan's unless an update that broke off
\* had rotated it unknown to the state.
OkConverges ==
  outcome = "ok" /\ ~meddled =>
    IF plan = Null THEN remote = Null
    ELSE /\ remote # Null
         /\ remote.page = TrimSpace(plan.page) /\ remote.address = plan.address
         /\ \A k \in Keys :
              LET want == plan.listeners[k]
                  have == remote.listeners[k]
              IN  IF want = Null THEN have = Null
                  ELSE /\ have # Null
                       /\ have.challenge = want.challenge
                       /\ have.settings = want.settings
                       /\ have.pool = want.pool
                       /\ k \notin stray => have.certificate = want.certificate

\* After a success the same configuration is no change, and a refresh makes it
\* none: the page is kept as it was written, secrets are carried over.
NoPermaDiff == outcome = "ok" /\ ~meddled => tf = plan

\* A handler finds a backend it was told of missing, or one it adds present, only
\* if somebody else wrote since it started: repeating an update that broke off
\* half way does not repeat its calls.
ClashMeansMeddled == outcome = "clash" => meddled

\* A backend that the plan keeps receives traffic throughout the update, even
\* through one that breaks off.
KeptStay ==
  [][ pc = "update" /\ ext' = ext /\ remote # Null =>
        \A k \in Keys, t \in Targets :
          /\ remote.listeners[k] # Null /\ plan.listeners[k] # Null
          /\ remote.listeners[k].pool[t] # Null /\ plan.listeners[k].pool[t] # Null
          => remote'.listeners[k].pool[t] # Null ]_vars

\* What the documentation says of acme_dns_credentials, that a change of them
\* replaces the load balancer: success means that they have reached it.
CredentialsApplied ==
  outcome = "ok" /\ ~meddled /\ plan # Null =>
    \A k \in Keys : plan.listeners[k] # Null =>
      remote.listeners[k].credentials = plan.listeners[k].credentials
=============================================================================
