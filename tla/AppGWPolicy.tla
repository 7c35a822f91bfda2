------------------------------ MODULE AppGWPolicy ------------------------------
(***************************************************************************)
(* Access-policy writes on ONE Application Gateway by the resource         *)
(* handlers Terraform runs concurrently over one shared client             *)
(* (internal/client/appgw_security.go, appgw.go and the handlers of        *)
(* ccp_appgw_listener, ccp_appgw_route and ccp_application_gateway).       *)
(*                                                                         *)
(* Terraform runs at most one handler per resource instance, so a handler  *)
(* is identified by the resource it works on.  A handler step is the code  *)
(* between two HTTP calls.  The platform behind the API is external: it    *)
(* commits documents under one gateway-wide generation, publishes them to  *)
(* the gateway replicas and drains the connections they revoke.            *)
(***************************************************************************)
EXTENDS Integers, FiniteSets

CONSTANTS
  Listeners, Routes,  \* child resources of the gateway
  Gateway,            \* the gateway resource itself
  Nobody,             \* the lock's free value
  Policies,           \* nonempty access-policy documents
  ReplicaCount,       \* replica_count of the gateway: 1 or 2
  Capabilities,       \* what GET /v1/platform/capabilities advertises
  LaggingReads,       \* may a GET be answered by a stale read replica?
  OddAnswers,         \* may the platform store another document than sent, or
                      \* leave the revision out of an answer?
  Rotations,          \* may a listener update rotate its certificate?
  MaxOps,             \* bound: handler calls started
  MaxExternal         \* bound: events outside this provider

Children == Listeners \union Routes
Res == Children \union {Gateway}
Empty == "empty"      \* the explicit empty document {}
Absent == "absent"    \* the resource does not exist
Unowned == "unowned"  \* the configuration leaves the policy attribute out
Documents == Policies \union {Empty}
Nil == -1             \* a nil *int64
Roles == IF ReplicaCount = 1 THEN {"primary"} ELSE {"primary", "secondary"}
Legacy == "v1" \notin Capabilities

ASSUME AppGWAssumption ==
  /\ Gateway \notin Children /\ Nobody \notin Res
  /\ Listeners \intersect Routes = {}
  /\ {Empty, Absent, Unowned} \intersect Policies = {}
  /\ ReplicaCount \in {1, 2}
  /\ Capabilities \subseteq {"v1", "enabled"}
  /\ {LaggingReads, OddAnswers, Rotations} \subseteq BOOLEAN
  /\ MaxOps \in Nat /\ MaxExternal \in Nat

VARIABLES
  gen,      \* access_policy_generation, the gateway-wide revision
  docs,     \* committed document of each resource, or Absent
  status,   \* "active" or "failed" (the API's error and deleting)
  nodes,    \* replicas: generation and documents in force, generation drained
  ro,       \* the snapshot a lagging read replica answers with
  lock,     \* appgwPolicyLocks[gateway]: the holder, or Nobody
  pc,       \* where the handler of each resource is
  req,      \* what that handler was called with
  base,     \* revision read by policyWrite
  accepted, \* revision the handler waits for
  wrote,    \* history: the revision the answer to its last write gave
  outcome,  \* what the last handler call reported
  tf,       \* Terraform state
  lost,     \* history: children whose creation response was lost
  ops, ext  \* calls and outside events left

platform == <<gen, docs, status, nodes, ro>>
local == <<pc, req, base, accepted, wrote, outcome>>
vars == <<platform, local, lock, tf, lost, ops, ext>>

DocMaps == [Res -> Documents \union {Absent}]
Nodes == [Roles -> [gen : Nat, cleared : Nat, docs : DocMaps]]
Snapshots == [gen : Nat, docs : DocMaps, status : {"active", "failed"}, nodes : Nodes]
Requests == [op : {"none", "create", "update", "delete"},
             want : Documents \union {Unowned},
             body : Documents \union {Unowned}, rotate : BOOLEAN]
Steps == {"idle", "acquire", "revision", "send", "reread", "settle", "wait"}
States == [there : BOOLEAN, tainted : BOOLEAN,
           doc : Documents \union {Unowned}, rev : Nat \union {Nil}]

NoRequest == [op |-> "none", want |-> Unowned, body |-> Unowned, rotate |-> FALSE]
NoState == [there |-> FALSE, tainted |-> FALSE, doc |-> Unowned, rev |-> Nil]

PlatformTypes ==
  /\ gen \in Nat /\ docs \in DocMaps /\ status \in {"active", "failed"}
  /\ nodes \in Nodes /\ ro \in Snapshots

LocalTypes ==
  /\ pc \in [Res -> Steps] /\ req \in [Res -> Requests] /\ base \in [Res -> Nat]
  /\ accepted \in [Res -> Nat \union {Nil}] /\ wrote \in [Res -> Nat \union {Nil}]
  /\ outcome \in [Res -> {"none", "ok", "error"}]

OtherTypes ==
  /\ lock \in Res \union {Nobody} /\ tf \in [Res -> States]
  /\ lost \subseteq Res /\ ops \in Nat /\ ext \in Nat

TypeOK == PlatformTypes /\ LocalTypes /\ OtherTypes

\* A gateway created without policies and no child yet.
StartDocs == [r \in Res |-> IF r = Gateway THEN Empty ELSE Absent]
StartNode == [gen |-> 0, cleared |-> 0, docs |-> StartDocs]

Init ==
  /\ gen = 0 /\ docs = StartDocs /\ status = "active"
  /\ nodes = [role \in Roles |-> StartNode]
  /\ ro = [gen |-> 0, docs |-> StartDocs, status |-> "active",
           nodes |-> [role \in Roles |-> StartNode]]
  /\ lock = Nobody
  /\ pc = [r \in Res |-> "idle"]
  /\ req = [r \in Res |-> NoRequest]
  /\ base = [r \in Res |-> 0]
  /\ accepted = [r \in Res |-> Nil]
  /\ wrote = [r \in Res |-> Nil]
  /\ outcome = [r \in Res |-> "none"]
  /\ tf = [r \in Res |-> IF r = Gateway
             THEN [there |-> TRUE, tainted |-> FALSE, rev |-> IF Legacy THEN Nil ELSE 0,
                   doc |-> IF Legacy THEN Unowned ELSE Empty]
             ELSE NoState]
  /\ lost = {} /\ ops = MaxOps /\ ext = MaxExternal

-----------------------------------------------------------------------------
(* The platform: one snapshot per GET, one generation per commit.          *)

\* What an answer says of revision g.
Answers(g) == IF Legacy THEN {Nil} ELSE IF OddAnswers THEN {g, Nil} ELSE {g}
Primary == [gen |-> gen, docs |-> docs, status |-> status, nodes |-> nodes]
Views == {Primary} \union (IF LaggingReads THEN {ro} ELSE {})
Exists(v, r) == v.docs[r] # Absent

\* An untouched gateway stays at generation 0; a tracked one moves on.
NextGen(d) ==
  IF Legacy \/ (gen = 0 /\ \A r \in Res : d[r] \in {Empty, Absent})
  THEN gen ELSE gen + 1

Commit(d) ==
  /\ docs' = d /\ gen' = NextGen(d)
  /\ UNCHANGED <<status, nodes, ro>>

\* What the platform may store for a request of r.
Stored(r) ==
  IF req[r].body # Unowned
  THEN {req[r].body} \union (IF OddAnswers THEN Documents ELSE {})
  ELSE IF docs[r] = Absent THEN {Empty} ELSE {docs[r]}

\* appGWLegacyPolicyNoop: generation 0 and only explicit empty documents.
LegacyNoop(v) == v.gen = 0 /\ \A r \in Res : v.docs[r] \in {Empty, Absent}

\* The replicas the status lists: none before the first publication.
Listed(v) == IF v.gen = 0 THEN {} ELSE Roles

\* Mutated form of ReplicaApplied: revocation_complete is ignored.
ReplicaAppliedUndrained(v, role) ==
  role \in Listed(v) /\ v.nodes[role].gen = v.gen

ReplicaApplied(v, role) ==
  /\ role \in Listed(v)
  /\ v.nodes[role].gen = v.gen
  /\ v.nodes[role].cleared = v.gen

\* Mutated form of Ready: applied, but maybe not the requested revision.
ReadyAtAnyRevision(v, g) == \A role \in Roles : ReplicaApplied(v, role)

\* Mutated form of Ready: the revision is committed, wherever it is applied.
ReadyOnceCommitted(v, g) == v.gen >= g

\* waitAppGWAccessPolicy's ready.  The platform's own summary ("applied") is
\* only trusted to say that the primary runs the generation.
Ready(v, g) ==
  \/ /\ v.gen >= g
     /\ v.nodes["primary"].gen = v.gen
     /\ Cardinality(Listed(v)) = ReplicaCount
     /\ \A role \in Roles : ReplicaApplied(v, role)
  \/ g = 0 /\ LegacyNoop(v)

-----------------------------------------------------------------------------
(* Pieces of a handler.                                                    *)

Finish(r, result, w) ==
  /\ pc' = [pc EXCEPT ![r] = "idle"]
  /\ req' = [req EXCEPT ![r] = NoRequest]
  /\ base' = [base EXCEPT ![r] = 0]
  /\ accepted' = [accepted EXCEPT ![r] = Nil]
  /\ wrote' = [wrote EXCEPT ![r] = w]
  /\ outcome' = [outcome EXCEPT ![r] = result]

Fail(r) == Finish(r, "error", Nil)
Succeed(r, w) == Finish(r, "ok", w)

\* Go on to step s, to wait for revision a, the last write having committed w.
Continue(r, s, a, w) ==
  /\ pc' = [pc EXCEPT ![r] = s]
  /\ accepted' = [accepted EXCEPT ![r] = a]
  /\ wrote' = [wrote EXCEPT ![r] = w]
  /\ base' = [base EXCEPT ![r] = 0]
  /\ UNCHANGED <<req, outcome>>

Unlock == lock' = Nobody
Visible(doc) == IF Legacy THEN Unowned ELSE doc   \* old platforms return none
SetState(r, doc, rev, tainted) ==
  tf' = [tf EXCEPT ![r] = [there |-> TRUE, tainted |-> tainted,
                           doc |-> Visible(doc), rev |-> rev]]
Forget(r) == tf' = [tf EXCEPT ![r] = NoState]

Owned(r) == req[r].want # Unowned
Confirmed(r, doc) == req[r].want \in {Unowned, doc}   \* appgwpolicy.Confirm
Known(r) == IF tf[r].rev > 0 THEN tf[r].rev ELSE 0
Larger(a, b) == IF a > b THEN a ELSE b

\* After a create or a route update was accepted with this response: nothing
\* to wait for, an unconfirmed document, or the wait for its revision.
NothingToWait(r, rev) == ~Owned(r) /\ rev <= 0
AfterWrite(r, doc, rev) ==
  \/ NothingToWait(r, rev) /\ Succeed(r, rev)
  \/ ~NothingToWait(r, rev) /\ (~Confirmed(r, doc) \/ rev = Nil) /\ Fail(r)
  \/ /\ ~NothingToWait(r, rev) /\ Confirmed(r, doc) /\ rev # Nil
     /\ Continue(r, "wait", rev, rev)

-----------------------------------------------------------------------------
(* Terraform starts a handler.                                             *)

Begin(r, s, request) ==
  /\ pc[r] = "idle" /\ ops > 0
  /\ ops' = ops - 1
  /\ pc' = [pc EXCEPT ![r] = s]
  /\ req' = [req EXCEPT ![r] = request]
  /\ outcome' = [outcome EXCEPT ![r] = "none"]
  /\ wrote' = [wrote EXCEPT ![r] = Nil]
  /\ UNCHANGED <<platform, base, accepted, lock, tf, lost, ext>>

StartCreate(c, want) ==
  /\ ~tf[c].there /\ ~Exists(Primary, c)
  /\ Begin(c, "acquire", [op |-> "create", want |-> want, body |-> want,
                          rotate |-> FALSE])

\* appgwpolicy.Changed: only a configured document that differs is sent.
Changed(r, want) == want # Unowned /\ want # tf[r].doc
Update(r, want, rotate) ==
  [op |-> "update", want |-> want, rotate |-> rotate,
   body |-> IF Changed(r, want) THEN want ELSE Unowned]

StartUpdateListener(c, want, rotate) ==
  /\ tf[c].there /\ ~tf[c].tainted /\ (rotate => Rotations)
  /\ Begin(c, IF Changed(c, want) THEN "acquire" ELSE "reread",
           Update(c, want, rotate))

StartUpdateRoute(c, want) ==
  /\ tf[c].there /\ ~tf[c].tainted
  /\ Begin(c, "acquire", Update(c, want, FALSE))

\* other: an attribute that is not a policy changed, so a PATCH is needed.
StartUpdateGateway(want, other) ==
  /\ tf[Gateway].there
  /\ Begin(Gateway, IF Changed(Gateway, want) \/ other THEN "acquire" ELSE "settle",
           Update(Gateway, want, FALSE))

StartDelete(c) ==
  /\ tf[c].there
  /\ Begin(c, "acquire", [NoRequest EXCEPT !.op = "delete"])

\* Mutated form of Refresh: a 404 of the child is not looked at.
RefreshUnchecked(r) ==
  /\ pc[r] = "idle" /\ tf[r].there
  /\ \E v \in Views : \E rev \in Answers(v.gen) :
       SetState(r, v.docs[r], rev, tf[r].tainted)
  /\ outcome' = [outcome EXCEPT ![r] = "none"]
  /\ UNCHANGED <<platform, pc, req, base, accepted, wrote, lock, lost, ops, ext>>

\* Read, before a plan: a 404 drops the resource from the state.
Refresh(r) ==
  /\ pc[r] = "idle" /\ tf[r].there
  /\ \E v \in Views :
       IF Exists(v, r) /\ Exists(v, Gateway)
       THEN \E rev \in Answers(v.gen) : SetState(r, v.docs[r], rev, tf[r].tainted)
       ELSE Forget(r)
  /\ outcome' = [outcome EXCEPT ![r] = "none"]
  /\ UNCHANGED <<platform, pc, req, base, accepted, wrote, lock, lost, ops, ext>>

-----------------------------------------------------------------------------
(* Under the gateway's mutation lock.                                      *)

\* Mutated form of Acquire: the channel send never blocks.
AcquireAlways(r) ==
  /\ pc[r] = "acquire"
  /\ lock' = r
  /\ pc' = [pc EXCEPT ![r] = IF req[r].body # Unowned THEN "revision" ELSE "send"]
  /\ UNCHANGED <<platform, req, base, accepted, wrote, outcome, tf, lost, ops, ext>>

\* gatewayMutationLock; a request that carries a policy goes on in policyWrite.
Acquire(r) ==
  /\ pc[r] = "acquire" /\ lock = Nobody
  /\ lock' = r
  /\ pc' = [pc EXCEPT ![r] = IF req[r].body # Unowned THEN "revision" ELSE "send"]
  /\ UNCHANGED <<platform, req, base, accepted, wrote, outcome, tf, lost, ops, ext>>

CancelAcquire(r) ==
  /\ pc[r] = "acquire" /\ Fail(r)
  /\ UNCHANGED <<platform, lock, tf, lost, ops, ext>>

PolicySupported(r) == ~Legacy /\ (req[r].body = Empty \/ "enabled" \in Capabilities)

\* Mutated form of ReadRevision: a nil revision is not looked at.
ReadRevisionUnchecked(r) ==
  /\ pc[r] = "revision" /\ PolicySupported(r)
  /\ \E v \in Views : \E rev \in Answers(v.gen) :
       /\ Exists(v, Gateway)
       /\ base' = [base EXCEPT ![r] = rev]
  /\ pc' = [pc EXCEPT ![r] = "send"]
  /\ UNCHANGED <<platform, req, accepted, wrote, outcome, lock, tf, lost, ops, ext>>

ReadRevision(r) ==
  /\ pc[r] = "revision" /\ PolicySupported(r)
  /\ \E v \in Views : \E rev \in Answers(v.gen) :
       /\ Exists(v, Gateway) /\ rev # Nil
       /\ base' = [base EXCEPT ![r] = rev]
  /\ pc' = [pc EXCEPT ![r] = "send"]
  /\ UNCHANGED <<platform, req, accepted, wrote, outcome, lock, tf, lost, ops, ext>>

\* Mutated form of RevisionFails: an early return that forgets to unlock.
RevisionFailsLocked(r) ==
  /\ pc[r] = "revision" /\ Fail(r)
  /\ UNCHANGED <<platform, lock, tf, lost, ops, ext>>

\* A missing capability, a failed GET or an answer without the revision.
RevisionFails(r) ==
  /\ pc[r] = "revision" /\ Fail(r) /\ Unlock
  /\ UNCHANGED <<platform, tf, lost, ops, ext>>

\* The platform's check of the request: it compares security_revision, which a
\* request with none (omitempty) lacks, and refuses a write against a missing
\* gateway or child.
Accepts(r) ==
  /\ Exists(Primary, Gateway)
  /\ req[r].op # "create" => Exists(Primary, r)
  /\ req[r].body # Unowned => base[r] \in {Nil, gen}

Sending(r, op) == pc[r] = "send" /\ req[r].op = op
Writes(r) == pc[r] = "send" /\ req[r].op # "delete" /\ Accepts(r)

\* 404, 409, 422, 5xx, no connection: an error and nothing committed.  A
\* DELETE answered 404 is DeleteMissing.
SendFails(r) ==
  /\ pc[r] = "send" /\ Fail(r) /\ Unlock
  /\ UNCHANGED <<platform, tf, lost, ops, ext>>

\* The write commits and its answer is lost: an error to the handler.
SendLost(r) ==
  /\ pc[r] = "send" /\ Accepts(r)
  /\ \E d \in (IF req[r].op = "delete" THEN {Absent} ELSE Stored(r)) :
       Commit([docs EXCEPT ![r] = d])
  /\ lost' = IF req[r].op = "create" THEN lost \union {r} ELSE lost
  /\ Fail(r) /\ Unlock
  /\ UNCHANGED <<tf, ops, ext>>

\* Mutated form of PostChild: the state is left for the end of the wait.
PostChildUnsaved(c) ==
  /\ Sending(c, "create") /\ Accepts(c)
  /\ \E doc \in Stored(c) :
       LET d == [docs EXCEPT ![c] = doc] IN \E rev \in Answers(NextGen(d)) :
          /\ Commit(d) /\ Unlock
          /\ IF NothingToWait(c, rev) THEN SetState(c, doc, rev, FALSE) ELSE UNCHANGED tf
          /\ AfterWrite(c, doc, rev)
  /\ lost' = lost \ {c} /\ UNCHANGED <<ops, ext>>

\* POST of a child.  The state is written before anything is awaited; it is
\* tainted for as long as the creation has not succeeded.
PostChild(c) ==
  /\ Sending(c, "create") /\ Accepts(c)
  /\ \E doc \in Stored(c) :
       LET d == [docs EXCEPT ![c] = doc] IN \E rev \in Answers(NextGen(d)) :
          /\ Commit(d) /\ Unlock
          /\ SetState(c, doc, rev, ~NothingToWait(c, rev))
          /\ AfterWrite(c, doc, rev)
  /\ lost' = lost \ {c} /\ UNCHANGED <<ops, ext>>

PatchRoute(c) ==
  /\ c \in Routes /\ Sending(c, "update") /\ Accepts(c)
  /\ \E doc \in Stored(c) :
       LET d == [docs EXCEPT ![c] = doc] IN \E rev \in Answers(NextGen(d)) :
          /\ Commit(d) /\ Unlock
          /\ SetState(c, doc, rev, FALSE)
          /\ AfterWrite(c, doc, rev)
  /\ UNCHANGED <<lost, ops, ext>>

PatchListener(c) ==
  /\ c \in Listeners /\ Sending(c, "update") /\ Accepts(c)
  /\ \E doc \in Stored(c) :
       LET d == [docs EXCEPT ![c] = doc] IN \E rev \in Answers(NextGen(d)) :
          /\ Commit(d) /\ Unlock
          /\ SetState(c, doc, rev, FALSE)
          /\ IF Confirmed(c, doc) THEN Continue(c, "reread", rev, rev) ELSE Fail(c)
  /\ UNCHANGED <<lost, ops, ext>>

\* Without a managed policy or a revision the early state is not written.
PatchGateway ==
  /\ Sending(Gateway, "update") /\ Accepts(Gateway)
  /\ \E doc \in Stored(Gateway) :
       LET d == [docs EXCEPT ![Gateway] = doc] IN \E rev \in Answers(NextGen(d)) :
          /\ Commit(d) /\ Unlock
          /\ IF NothingToWait(Gateway, rev)
             THEN Continue(Gateway, "settle", Nil, rev) /\ UNCHANGED tf
             ELSE /\ SetState(Gateway, doc, rev, FALSE)
                  /\ IF Confirmed(Gateway, doc)
                     THEN Continue(Gateway, "settle", rev, rev)
                     ELSE Fail(Gateway)
  /\ UNCHANGED <<lost, ops, ext>>

\* deleteAppGWChild: the DELETE is answered with the revision it committed.
\* The lock is released before the removal is awaited.
DeleteCommitted(c) ==
  /\ Sending(c, "delete") /\ Accepts(c) /\ Unlock
  /\ LET d == [docs EXCEPT ![c] = Absent] IN
       /\ Commit(d)
       /\ \E rev \in Answers(NextGen(d)) :
            \/ /\ rev <= 0 /\ Known(c) = 0
               /\ Forget(c) /\ Succeed(c, rev)
            \/ rev < Known(c) /\ Fail(c) /\ UNCHANGED tf
            \/ /\ rev > 0 /\ rev >= Known(c)
               /\ Continue(c, "wait", rev, rev) /\ UNCHANGED tf
  /\ UNCHANGED <<lost, ops, ext>>

\* Mutated form of DeleteMissing: every 404 counts as deleted.
DeleteMissingForgets(c) ==
  /\ Sending(c, "delete") /\ Unlock
  /\ ~Exists(Primary, c)
  /\ Forget(c) /\ Succeed(c, Nil)
  /\ UNCHANGED <<platform, lost, ops, ext>>

\* The DELETE is answered 404: done, unless the state knows a revision.
DeleteMissing(c) ==
  /\ Sending(c, "delete") /\ Unlock
  /\ ~Exists(Primary, c)
  /\ \/ Known(c) = 0 /\ Forget(c) /\ Succeed(c, Nil)
     \/ Known(c) > 0 /\ Continue(c, "wait", Known(c), Nil) /\ UNCHANGED tf
  /\ UNCHANGED <<platform, lost, ops, ext>>

-----------------------------------------------------------------------------
(* After the lock was released.                                            *)

\* Listener update: got is the answer of the certificate rotation or of the
\* GET; its revision counts when it is newer than the accepted one.
GotListener(c, doc, rev, w) ==
  LET known == Larger(accepted[c], rev) IN
  IF Owned(c) \/ accepted[c] # Nil \/ rev > 0
  THEN /\ IF known = Nil THEN Fail(c) ELSE Continue(c, "wait", known, w)
       /\ UNCHANGED tf
  ELSE SetState(c, doc, rev, FALSE) /\ Succeed(c, w)

\* renew-cert takes no lock and carries no revision.
RotateCertificate(c) ==
  /\ pc[c] = "reread" /\ req[c].rotate
  /\ Exists(Primary, Gateway) /\ Exists(Primary, c)
  /\ Commit(docs)
  /\ \E rev \in Answers(NextGen(docs)) :
       GotListener(c, docs[c], rev, Larger(wrote[c], rev))
  /\ UNCHANGED <<lock, lost, ops, ext>>

\* The certificate is rotated and the answer is lost.
RotationLost(c) ==
  /\ pc[c] = "reread" /\ req[c].rotate
  /\ Exists(Primary, Gateway) /\ Exists(Primary, c)
  /\ Commit(docs) /\ Fail(c)
  /\ UNCHANGED <<lock, tf, lost, ops, ext>>

RereadListener(c) ==
  /\ pc[c] = "reread" /\ ~req[c].rotate
  /\ \E v \in Views : \E rev \in Answers(v.gen) :
       /\ Exists(v, Gateway) /\ Exists(v, c)
       /\ GotListener(c, v.docs[c], rev, wrote[c])
  /\ UNCHANGED <<platform, lock, lost, ops, ext>>

\* pollUntilReady, then the revision of the PATCH or else the one just read.
SettleGateway ==
  /\ pc[Gateway] = "settle"
  /\ \E v \in Views : \E rev \in Answers(v.gen) :
       LET known == IF accepted[Gateway] = Nil THEN rev ELSE accepted[Gateway]
       IN /\ Exists(v, Gateway) /\ v.status = "active"
          /\ IF Owned(Gateway) \/ accepted[Gateway] > 0 \/ rev > 0
             THEN /\ IF known = Nil THEN Fail(Gateway)
                     ELSE Continue(Gateway, "wait", known, wrote[Gateway])
                  /\ UNCHANGED tf
             ELSE /\ SetState(Gateway, v.docs[Gateway], rev, FALSE)
                  /\ Succeed(Gateway, wrote[Gateway])
  /\ UNCHANGED <<platform, lock, lost, ops, ext>>

\* One GET of waitAppGWAccessPolicy that finds the revision applied.
Observed(r, v) ==
  /\ pc[r] = "wait" /\ Exists(v, Gateway) /\ ~Legacy
  /\ Ready(v, accepted[r]) /\ v.status = "active"

WaitDone(r) ==
  /\ req[r].op # "delete"
  /\ \E v \in Views :
       /\ Observed(r, v)
       /\ IF Exists(v, r) /\ Confirmed(r, v.docs[r])
          THEN /\ \E rev \in Answers(v.gen) : SetState(r, v.docs[r], rev, FALSE)
               /\ Succeed(r, wrote[r])
          ELSE Fail(r) /\ UNCHANGED tf
  /\ UNCHANGED <<platform, lock, lost, ops, ext>>

\* A deletion also waits until the child is gone from the gateway (extraReady).
WaitRemoved(c) ==
  /\ req[c].op = "delete"
  /\ \E v \in Views : Observed(c, v) /\ ~Exists(v, c)
  /\ Forget(c) /\ Succeed(c, wrote[c])
  /\ UNCHANGED <<platform, lock, lost, ops, ext>>

\* A failed GET, a failed gateway, a missing resource or the deadline.
GiveUp(r) ==
  /\ pc[r] \in {"reread", "settle", "wait"} /\ Fail(r)
  /\ UNCHANGED <<platform, lock, tf, lost, ops, ext>>

-----------------------------------------------------------------------------
(* The platform on its own, and everybody else who writes to it.           *)

PublishTo(role) ==
  /\ nodes[role].gen < gen
  /\ nodes' = [nodes EXCEPT ![role] =
                 [gen |-> gen, cleared |-> nodes[role].cleared, docs |-> docs]]
  /\ UNCHANGED <<gen, docs, status, ro, local, lock, tf, lost, ops, ext>>

DrainOn(role) ==
  /\ nodes[role].cleared < nodes[role].gen
  /\ nodes' = [nodes EXCEPT ![role].cleared = nodes[role].gen]
  /\ UNCHANGED <<gen, docs, status, ro, local, lock, tf, lost, ops, ext>>

CatchUp ==
  /\ LaggingReads /\ ro # Primary /\ ro' = Primary
  /\ UNCHANGED <<gen, docs, status, nodes, local, lock, tf, lost, ops, ext>>

Outside == ext > 0 /\ ext' = ext - 1 /\ UNCHANGED <<local, lock, tf, lost, ops>>

\* The console or another client changes or removes one resource.
OutsideWrite(r, d) ==
  /\ Outside /\ Exists(Primary, Gateway) /\ Exists(Primary, r)
  /\ (r = Gateway => d # Absent) /\ d # docs[r]
  /\ Commit([docs EXCEPT ![r] = d])

GatewayBreaks ==
  /\ Outside /\ status = "active" /\ status' = "failed"
  /\ UNCHANGED <<gen, docs, nodes, ro>>

\* The whole gateway is deleted elsewhere: nothing serves any more.
GatewayRemoved ==
  /\ Outside /\ Exists(Primary, Gateway)
  /\ docs' = [r \in Res |-> Absent]
  /\ nodes' = [role \in Roles |-> [nodes[role] EXCEPT !.docs = docs']]
  /\ UNCHANGED <<gen, status, ro>>

-----------------------------------------------------------------------------

Start(r) ==
  \/ \E want \in Documents \union {Unowned} :
       \/ r \in Children /\ StartCreate(r, want)
       \/ r \in Listeners /\ \E rotate \in BOOLEAN : StartUpdateListener(r, want, rotate)
       \/ r \in Routes /\ StartUpdateRoute(r, want)
       \/ r = Gateway /\ \E other \in BOOLEAN : StartUpdateGateway(want, other)
  \/ r \in Children /\ StartDelete(r)

\* What a running handler does next, by itself.
Proceed(r) ==
  \/ Acquire(r) \/ ReadRevision(r) \/ RevisionFails(r)
  \/ SendFails(r) \/ SendLost(r)
  \/ PostChild(r) \/ PatchRoute(r) \/ PatchListener(r)
  \/ r = Gateway /\ (PatchGateway \/ SettleGateway)
  \/ DeleteCommitted(r) \/ DeleteMissing(r)
  \/ RotateCertificate(r) \/ RotationLost(r) \/ RereadListener(r)
  \/ WaitDone(r) \/ WaitRemoved(r) \/ GiveUp(r)

Platform ==
  \/ \E role \in Roles : PublishTo(role) \/ DrainOn(role)
  \/ CatchUp
  \/ \E r \in Res, d \in Documents \union {Absent} : OutsideWrite(r, d)
  \/ GatewayBreaks \/ GatewayRemoved

\* Nothing left to start; a quiet system is not a deadlock.
Quiet == (\A r \in Res : pc[r] = "idle") /\ UNCHANGED vars

Next ==
  \/ \E r \in Res : Start(r) \/ Refresh(r) \/ Proceed(r) \/ CancelAcquire(r)
  \/ Platform
  \/ Quiet

\* A handler that can act does; goroutines blocked on the lock's channel are
\* served in arrival order, so none is passed over for ever.
Fairness ==
  \A r \in Res : WF_vars(Proceed(r)) /\ SF_vars(Acquire(r))

Spec == Init /\ [][Next]_vars
FairSpec == Spec /\ Fairness

-----------------------------------------------------------------------------
(* Properties.                                                             *)

Undisturbed == ext = MaxExternal

\* The lock is held exactly from the revision read to the end of the write:
\* every early return of policyWrite gives it back, and no handler keeps it
\* while it waits for the replicas (appgw_security.go:132-133).
LockInWindow ==
  \A r \in Res : (lock = r) <=> (pc[r] \in {"revision", "send"})

\* As long as nobody outside has done anything, without unlocked rotations and
\* stale reads, no handler of this provider can make a sibling's policy write
\* fail with a conflict: the revision it is about to send is the current one.
NoSelfConflict ==
  Undisturbed /\ ~Rotations /\ ~LaggingReads
    => \A r \in Res : pc[r] = "send" /\ req[r].body # Unowned => base[r] = gen

\* A handler that reported success left the last write whose revision it was
\* told, not just some earlier revision, in force on every replica with the connections it
\* revokes drained, however stale the reads it polled.
AppliedWhenOk ==
  \A r \in Res : outcome[r] = "ok"
    => \A role \in Roles : nodes[role].cleared >= wrote[r]

\* The children keep the promise of ManagedObject, as long as reads are fresh:
\* in state from the moment their POST is answered, through failed waits and
\* conflicts, until they are gone; a child is only lost with the answer.
Managed == INSTANCE ManagedObject WITH
  Objects <- Children,
  exists <- {c \in Children : docs[c] # Absent},
  recorded <- {c \in Children : tf[c].there},
  doomed <- {}
KeepsPromise == Managed!Spec

\* A policy of this provider never overwrites what somebody else committed since
\* its handler read the revision, whether its answer arrives or not: no write is
\* accepted without the revision that guards it, not even when an answer left it
\* out (appgw_security.go:160-163, and nil is omitted from the request).
BlindStep ==
  \A r \in Res : pc[r] = "send" /\ req[r].body # Unowned /\ docs' # docs /\ pc'[r] # "send"
    => base[r] = gen
NoBlindWrite == [][BlindStep]_vars

Reports(r, result) == pc[r] # "idle" /\ pc'[r] = "idle" /\ outcome'[r] = result
Enforced(role, r, doc) ==
  \/ nodes[role].docs[r] = doc /\ nodes[role].cleared = nodes[role].gen
  \/ doc = Empty /\ nodes[role].gen = 0

\* When a create or an update of a managed policy reports success, the state
\* holds the planned document and every replica enforces it at that moment,
\* whoever else wrote in between.
EnforcedStep ==
  \A r \in Res : Reports(r, "ok") /\ Owned(r) /\ req[r].op # "delete"
    => /\ tf'[r].doc = req[r].want /\ ~tf'[r].tainted
       /\ ~LaggingReads => \A role \in Roles : Enforced(role, r, req[r].want)
EnforcedWhenOk == [][EnforcedStep]_vars

\* Destroying a protected child drops it from the state only when no replica
\* serves it any more, including the retry whose DELETE finds it missing.
DestroyedStep ==
  \A c \in Children :
    tf[c].there /\ ~tf'[c].there /\ tf[c].rev > 0 /\ req[c].op = "delete"
      => \A role \in Roles : nodes[role].docs[c] = Absent
DestroyForgetsOnlyRemoved == [][DestroyedStep]_vars

\* appgw_security.go:268-269: "A protected child remains in Terraform state
\* until its removal is effective on every replica."
ProtectedChildStays ==
  [][ \A c \in Children : tf[c].there /\ ~tf'[c].there /\ tf[c].rev > 0
        => \A role \in Roles : nodes[role].docs[c] = Absent
    ]_vars

\* What is left of that promise: a refresh that drops a protected child some
\* replica still serves was announced.  As long as nobody outside has done
\* anything and reads are fresh, the last the user heard of that child was an
\* error, of a destroy that did not see its end.
ServedDropsFollowErrors ==
  [][ Undisturbed /\ ~LaggingReads =>
        \A c \in Children :
          /\ tf[c].there /\ ~tf'[c].there /\ tf[c].rev > 0
          /\ \E role \in Roles : nodes[role].docs[c] # Absent
          => pc[c] = "idle" /\ outcome[c] = "error"
    ]_vars

\* Every handler call returns: none waits for the lock or a revision for ever.
HandlersFinish == \A r \in Res : pc[r] # "idle" ~> pc[r] = "idle"
=============================================================================
