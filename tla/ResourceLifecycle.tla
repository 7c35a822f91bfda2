--------------------------- MODULE ResourceLifecycle ---------------------------
(***************************************************************************)
(* One object of a resource type, its Terraform state, and the handlers of *)
(* that type run call by call against a platform that provisions in the    *)
(* background, refuses calls, loses answers, and is used by others too.    *)
(*                                                                         *)
(* The handlers are the programs of BackgroundHandlers and DirectHandlers; *)
(* public addresses, networks and the resources of application gateways    *)
(* have modules of their own (PublicIP, VpcVnet, AppGWPolicy).             *)
(***************************************************************************)
EXTENDS BackgroundHandlers, DirectHandlers

CONSTANTS
  Kinds,       \* the resource types looked at
  MaxOps,      \* handlers run in a behaviour, and imports
  MaxExternal  \* things that others do to the object, or that go wrong with it

\* The types that the provider registers, by their Terraform names; a load
\* balancer and a cluster are there twice, with some of their attributes each time.
Resources == [
  container |-> Container, vm_instance |-> VMInstance, snapshot |-> Snapshot,
  vm_snapshot |-> VMSnapshot, block_volume |-> BlockVolume,
  load_balancer |-> BalancerFrontend, load_balancer_pool |-> BalancerPool,
  application_gateway |-> ApplicationGateway,
  vpn_gateway |-> VPNGateway, bastion |-> Bastion, k8s_cluster |-> K8sCluster,
  k8s_cluster_endpoint |-> ClusterEndpoint, k8s_node_pool |-> K8sNodePool, mysql |-> MySQL, ferretdb |-> FerretDB,
  valkey |-> Valkey, postgres |-> Postgres, registry |-> Registry,
  object_bucket |-> ObjectBucket, dns_zone |-> DNSZone, email_domain |-> EmailDomain,
  firewall_rule |-> FirewallRule, ip_reservation |-> IPReservation,
  vnet_peering |-> VNetPeering, vpc_peering |-> VPCPeering, vpn_peer |-> VPNPeer,
  target_group |-> TargetGroup, target_group_member |-> TargetGroupMember,
  vpn_policy |-> VPNPolicy, dns_record |-> DNSRecord,
  email_account |-> EmailAccount, email_alias |-> EmailAlias, ssh_key |-> SSHKey,
  api_key |-> APIKey, object_storage_key |-> ObjectStorageKey,
  registry_user |-> RegistryUser, role_assignment |-> RoleAssignment,
  bucket_key |-> BucketKey, registry_acl |-> RegistryACL,
  organization |-> Organization, org_member |-> OrgMember,
  service_account |-> ServiceAccount, role |-> Role, secret |-> Secret,
  container_scale_set |-> ContainerScaleSet, vm_scale_set |-> VMScaleSet,
  custom_template |-> CustomTemplate, schedule |-> Schedule, budget |-> Budget,
  support_subscription |-> SupportSubscription, commit |-> Commit,
  quota_request |-> QuotaRequest, support_ticket |-> SupportTicket]

\* The types whose objects the state may let go of: a mailbox that cannot be read
\* back or forwarded (emailaccount.go), a schedule whose rollback failed, and
\* what cannot be deleted at all; and those whose deletion is over once it is
\* accepted or, worse, asked for.
LetGoKinds == {"email_account", "schedule", "quota_request", "support_ticket"}
UnawaitedKinds ==
  {"snapshot", "vm_snapshot", "k8s_node_pool", "quota_request", "support_ticket"}

\* Those whose update writes a state without the root password.
ForgetfulKinds == {"container_scale_set", "vm_scale_set"}

ASSUME KindsAssumption == Kinds \subseteq DOMAIN Resources
ASSUME BoundsAssumption == MaxOps \in Nat /\ MaxExternal \in Nat

\* The rules that the programs of these types follow, for the proofs of module
\* LifecycleProofs; TLC finds that they do.
ASSUME HandlersAssumption ==
  \A k \in Kinds :
    /\ WellFormed(Resources[k]) /\ TellsNothingEarly(Resources[k]) /\ AppliesThePlan(Resources[k])
    /\ StaysTrue(Resources[k])
    /\ k \notin LetGoKinds => RecordsWhatItMakes(Resources[k]) /\ DeletesWhatItForgets(Resources[k])
    /\ k \notin UnawaitedKinds => GoneWhenDeleted(Resources[k])
    /\ k \notin ForgetfulKinds => Remembers(Resources[k])

VARIABLES
  kind,     \* the resource type of this behaviour
  status,   \* of the object, on the platform
  value,    \* its attributes there: 0 if not set
  late,     \* attribute values the platform will apply in its own time
  tf,       \* Terraform state of the object
  plan,     \* the attributes that the running operation is to arrive at
  op,       \* the operation that runs or ran last
  phase,    \* of the operation: about to start, running or returned
  todo,     \* the steps its handler has yet to take
  outcome,  \* the worst it has reported so far
  meddled,  \* has anyone else changed the object since the last refresh, or was it
            \* there but not up when the operation started?
  doomed,   \* has the platform accepted a deletion of the object?
  made,     \* has the running handler created the object?
  lost,     \* did the answer to its creation get lost?
  erred,    \* has an update failed since the object came into the state?
  ops, ext  \* operations started; outside events

platform == <<status, value, late>>
handler == <<plan, op, phase, todo, outcome>>
history == <<meddled, made, doomed, lost, erred>>
bounds == <<ops, ext>>
vars == <<kind, platform, tf, handler, history, bounds>>

R == Resources[kind]
Attrs == R.reads \union R.unread
Exists == status # "absent"
Forgotten == 3  \* in tf.value: the state holds no value for the attribute

\* The values of an attribute, and of all of them.
Levels(a) == IF a \in R.moved \union R.required THEN 0..2 ELSE 0..1
Values == {x \in [Attrs -> 0..2] : \A a \in Attrs : x[a] \in Levels(a)}

TypeOK ==
  /\ kind \in Kinds
  /\ status \in {"absent", "pending", "active", "broken", "leaving"}
  /\ value \in Values /\ plan \in Values
  /\ \A w \in late : w[1] \in R.queued /\ w[2] \in Levels(w[1])
  /\ tf \in [there : BOOLEAN, tainted : BOOLEAN, value : [Attrs -> 0..2 \union {Forgotten}]]
  /\ op \in {"none", "create", "update", "delete"}
  /\ phase \in {"ready", "running", "returned"}
  /\ outcome \in {"ok", "warned", "error"}
  /\ \A i \in DOMAIN todo : /\ todo[i].of \subseteq Attrs
                            /\ todo[i].save \in Saves /\ todo[i].fail \in Failures
  /\ {meddled, made, doomed, lost, erred} \subseteq BOOLEAN
  /\ ops \in 0..MaxOps /\ ext \in 0..MaxExternal
  \* Only what is there can be tainted, and the state has lost nothing but what
  \* it cannot read again.
  /\ tf.tainted => tf.there
  /\ {a \in Attrs : tf.value[a] = Forgotten} \subseteq R.unread

Unset == [a \in Attrs |-> 0]
NoState == [there |-> FALSE, tainted |-> FALSE, value |-> Unset]

Init ==
  /\ kind \in Kinds
  /\ status = "absent" /\ value = Unset /\ late = {}
  /\ tf = NoState /\ plan = Unset
  /\ op = "none" /\ phase = "ready" /\ todo = << >> /\ outcome = "ok"
  /\ meddled = FALSE /\ made = FALSE /\ doomed = FALSE /\ lost = FALSE /\ erred = FALSE
  /\ ops = 0 /\ ext = 0

-----------------------------------------------------------------------------
(* Terraform.                                                              *)

\* A value that the state has lost counts as changed, whatever is planned.
Changes(p) == {a \in Attrs : p[a] # tf.value[a]}
SetIn(x) == {a \in Attrs : x[a] # 0}

\* The configurations that Terraform takes.
Plannable == {p \in Values : R.required \subseteq SetIn(p)}

\* Of the steps of a handler, those that plan and prior state call for.
Applicable(program, p) == Course(program, SetIn(p), SetIn(tf.value))

Start(o, p, program) ==
  /\ phase = "ready" /\ ops < MaxOps
  /\ ops' = ops + 1 /\ op' = o /\ phase' = "running"
  /\ plan' = p /\ todo' = Applicable(program, p) /\ outcome' = "ok"
  /\ meddled' = (meddled \/ status \notin {"absent", "active"})
  /\ UNCHANGED <<kind, platform, tf, made, doomed, lost, erred, ext>>

StartCreate ==
  /\ ~tf.there /\ status = "absent"
  /\ \E p \in Plannable : \E program \in R.create[SetIn(p)] :
       Start("create", p, program)

\* A tainted object, and changes that no update makes, are a replacement: a
\* delete and a create.
StartUpdate ==
  /\ tf.there /\ ~tf.tainted
  /\ \E p \in Plannable :
       /\ Changes(p) \in DOMAIN R.update
       /\ \E program \in R.update[Changes(p)] : Start("update", p, program)

StartDelete ==
  /\ tf.there
  /\ \E program \in R.delete[SetIn(tf.value)] : Start("delete", Unset, program)

\* Mutated form of Return: a failed creation taints even what it never made.
ReturnTainting ==
  /\ phase = "running" /\ todo = << >>
  /\ phase' = "returned" /\ made' = FALSE
  /\ tf' = CASE op = "delete" /\ outcome # "error" -> NoState
             [] op = "create" /\ outcome = "error" -> [tf EXCEPT !.tainted = TRUE]
             [] OTHER -> tf
  /\ erred' = (tf'.there /\ (erred \/ (op = "update" /\ outcome = "error")))
  /\ UNCHANGED <<kind, platform, plan, op, todo, outcome, meddled, doomed, lost, bounds>>

\* The handler returns: a deletion without errors forgets the object, a failed
\* creation taints it.
Return ==
  /\ phase = "running" /\ todo = << >>
  /\ phase' = "returned" /\ made' = FALSE
  /\ tf' = CASE op = "delete" /\ outcome # "error" -> NoState
             [] op = "create" /\ outcome = "error" -> [tf EXCEPT !.tainted = tf.there]
             [] OTHER -> tf
  /\ erred' = (tf'.there /\ (erred \/ (op = "update" /\ outcome = "error")))
  /\ UNCHANGED <<kind, platform, plan, op, todo, outcome, meddled, doomed, lost, bounds>>

\* Mutated form of Refresh: the state is made anew from what the GET shows.
RefreshBlanking ==
  /\ phase # "running"
  /\ phase' = "ready" /\ op' = "none" /\ plan' = Unset /\ outcome' = "ok" /\ meddled' = FALSE
  /\ tf' = IF ~tf.there THEN tf
           ELSE IF ~Exists THEN NoState
           ELSE [tf EXCEPT !.value = [a \in Attrs |->
                   IF a \in R.unread THEN Forgotten
                   ELSE IF a \in R.optional /\ tf.value[a] = 0 THEN tf.value[a] ELSE value[a]]]
  /\ erred' = (tf'.there /\ erred) /\ UNCHANGED <<kind, platform, todo, made, doomed, lost, bounds>>

\* Terraform refreshes before it plans.  What no GET shows stays as it is.
Refresh ==
  /\ phase # "running"
  /\ phase' = "ready" /\ op' = "none" /\ plan' = Unset /\ outcome' = "ok" /\ meddled' = FALSE
  /\ tf' = IF ~tf.there THEN tf
           ELSE IF ~Exists THEN NoState
           ELSE [tf EXCEPT !.value = [a \in Attrs |->
                   IF a \in R.unread \/ (a \in R.optional /\ tf.value[a] = 0)
                   THEN tf.value[a] ELSE value[a]]]
  /\ erred' = (tf'.there /\ erred) /\ UNCHANGED <<kind, platform, todo, made, doomed, lost, bounds>>

\* ImportState and the Read that follows it: whatever is there can be brought
\* into the state, without the attributes that no GET shows.
Import ==
  /\ phase = "ready" /\ ~tf.there /\ Exists /\ kind # "object_storage_key"
  /\ ops < MaxOps /\ ops' = ops + 1
  /\ tf' = [there |-> TRUE, tainted |-> FALSE, value |-> [a \in Attrs |->
              IF a \in R.unread THEN Forgotten ELSE IF a \in R.optional THEN 0 ELSE value[a]]]
  /\ UNCHANGED <<kind, platform, handler, history, ext>>

-----------------------------------------------------------------------------
(* Calls.                                                                  *)

Calling(c) == phase = "running" /\ todo # << >> /\ Head(todo).call = c
Current == Head(todo)

\* Mutated form of Saved: what no GET shows is always kept from the prior state.
SavedKeeping(how) ==
  [there |-> TRUE, tainted |-> FALSE,
   value |-> [a \in Attrs |->
     CASE a \in R.unread -> IF how = "forget" THEN Forgotten ELSE tf.value[a]
       [] a \in R.optional \ R.unread /\ plan[a] = 0 -> plan[a]
       [] OTHER -> value'[a]]]

\* resp.State.Set.
Saved(how) ==
  [there |-> TRUE, tainted |-> FALSE,
   value |-> [a \in Attrs |->
     CASE a \in R.unread /\ how = "keep" -> tf.value[a]
       [] a \in R.unread /\ how = "forget" -> Forgotten
       [] \/ a \in R.unread /\ how \notin {"keep", "forget"}
          \/ a \in R.optional \ R.unread /\ plan[a] = 0 -> plan[a]
       [] OTHER -> value'[a]]]

GoOn(o) ==
  /\ todo' = Tail(todo) /\ outcome' = o
  /\ tf' = IF Current.save = "no" THEN tf ELSE Saved(Current.save)

Answered == GoOn(outcome)

\* Mutated form of Failed: no error path writes the state.
FailedUnrecorded ==
  IF Current.fail = "skip" THEN GoOn("warned")
  ELSE todo' = << >> /\ outcome' = "error" /\ UNCHANGED tf

\* Mutated form of Failed: every error path writes the plan into the state.
FailedTelling ==
  IF Current.fail = "skip" THEN GoOn("warned")
  ELSE todo' = << >> /\ outcome' = "error" /\ tf' = Saved("plan")

\* The call fails, as far as the handler can tell.
Failed ==
  IF Current.fail = "skip" THEN GoOn("warned")
  ELSE /\ todo' = << >> /\ outcome' = "error"
       /\ tf' = IF Current.fail = "record" THEN Saved("plan") ELSE tf

Running == UNCHANGED <<kind, plan, op, phase, meddled, erred, bounds>>

\* What a call writes to an attribute.
Written(a) == IF Current.call = "clear" THEN 0 ELSE plan[a]

\* What an accepted call does.
Accepted(c) ==
  CASE c = "post" ->
         /\ status = "absent" /\ doomed' = FALSE
         /\ status' = IF R.background THEN "pending" ELSE "active"
         /\ value' = [a \in Attrs |-> IF a \in Current.of \ R.queued THEN plan[a] ELSE 0]
         /\ late' = {<<a, plan[a]>> : a \in Current.of \intersect R.queued}
    [] c \in {"write", "clear"} ->
         /\ status \in {"pending", "active", "broken"} /\ UNCHANGED doomed
         /\ status' = IF Current.of \intersect R.slow # {} THEN "pending" ELSE status
         /\ value' = [a \in Attrs |->
                        IF a \in Current.of \ R.queued THEN Written(a) ELSE value[a]]
         /\ late' = {w \in late : w[1] \notin Current.of}
                    \union {<<a, Written(a)>> : a \in Current.of \intersect R.queued}
    [] c = "delete" ->
         /\ Exists /\ doomed' = R.background
         /\ status' = IF R.background THEN "leaving" ELSE "absent"
         /\ late' = {} /\ UNCHANGED value

PostAnswered ==
  /\ Calling("post") /\ Accepted("post") /\ Answered
  /\ made' = TRUE /\ lost' = FALSE /\ Running
PostUnanswered ==
  /\ Calling("post") /\ Accepted("post") /\ Failed
  /\ lost' = TRUE /\ UNCHANGED made /\ Running

Writes == \E c \in {"write", "clear"} : Calling(c) /\ Accepted(c)
WriteAnswered == Writes /\ Answered /\ Running /\ UNCHANGED <<made, lost>>
WriteUnanswered == Writes /\ Failed /\ Running /\ UNCHANGED <<made, lost>>

DeleteAnswered == Calling("delete") /\ Accepted("delete") /\ Answered /\ Running /\ UNCHANGED <<made, lost>>
DeleteUnanswered ==
  Calling("delete") /\ Accepted("delete") /\ Failed /\ Running /\ UNCHANGED <<made, lost>>

\* 404: nothing is left to be done, unless a creation is taken back.
DeleteMissing ==
  /\ Calling("delete") /\ ~Exists
  /\ todo' = (IF op = "delete" THEN << >> ELSE Tail(todo)) /\ UNCHANGED <<tf, outcome, platform, doomed, made, lost>> /\ Running

\* Mutated form of Seen: whatever a poll for a deletion is told, it takes the
\* object to be gone.
SeenHasty ==
  /\ \/ Calling("wait") /\ status = "active"
     \/ Calling("get") /\ Exists
     \/ Calling("gone")
  /\ UNCHANGED <<platform, doomed, made, lost>> /\ Answered /\ Running

\* Mutated form of Seen: a poll ends with any status that is not on the way to
\* another, the failed one included.
SeenBroken ==
  /\ \/ Calling("wait") /\ status \in {"active", "broken"}
     \/ Calling("get") /\ Exists
     \/ Calling("gone") /\ ~Exists
  /\ UNCHANGED <<platform, doomed, made, lost>> /\ Answered /\ Running

\* The calls that only look.
Seen ==
  /\ \/ Calling("wait") /\ status = "active"
     \/ Calling("get") /\ Exists
     \/ Calling("gone") /\ ~Exists
  /\ UNCHANGED <<platform, doomed, made, lost>> /\ Answered /\ Running

\* Refused, unreachable, timed out, not found.
Fails ==
  /\ \E c \in {"post", "write", "clear", "wait", "get", "delete", "gone"} : Calling(c)
  /\ UNCHANGED <<platform, doomed, made, lost>> /\ Failed /\ Running

\* No call at all.
Records ==
  /\ Calling("record")
  /\ UNCHANGED <<outcome, platform, doomed, made, lost>>
  /\ todo' = Tail(todo) /\ tf' = Saved("plan") /\ Running

Refuses ==
  /\ Calling("refuse")
  /\ todo' = << >> /\ outcome' = "error" /\ UNCHANGED <<tf, platform, doomed, made, lost>> /\ Running

LetsGo ==
  /\ Calling("let go")
  /\ todo' = Tail(todo) /\ UNCHANGED <<tf, outcome, platform, doomed, made, lost>> /\ Running

-----------------------------------------------------------------------------
(* The platform, and whoever else uses it.                                 *)

Elsewhere == UNCHANGED <<kind, tf, handler, made, lost, erred, ops>>

Settle ==
  /\ status = "pending" /\ status' = "active"
  /\ UNCHANGED <<value, late, meddled, doomed, ext>> /\ Elsewhere

Vanish ==
  /\ status = "leaving" /\ status' = "absent"
  /\ UNCHANGED <<value, late, meddled, doomed, ext>> /\ Elsewhere

Land ==
  /\ \E w \in late : /\ late' = late \ {w}
                     /\ value' = [value EXCEPT ![w[1]] = w[2]]
  /\ UNCHANGED <<status, meddled, doomed, ext>> /\ Elsewhere

ProvisionFails ==
  /\ status = "pending" /\ ext < MaxExternal
  /\ status' = "broken" /\ ext' = ext + 1
  /\ UNCHANGED <<value, late, meddled, doomed>> /\ Elsewhere

OutsideChange ==
  /\ status = "active" /\ ext < MaxExternal
  /\ \E a \in R.reads : \E x \in Levels(a) \ {value[a]} : value' = [value EXCEPT ![a] = x]
  /\ ext' = ext + 1 /\ meddled' = TRUE
  /\ UNCHANGED <<status, late, doomed>> /\ Elsewhere

OutsideDelete ==
  /\ status \in {"active", "pending", "broken"} /\ ext < MaxExternal
  /\ status' = (IF R.background THEN "leaving" ELSE "absent")
  /\ doomed' = R.background /\ late' = {}
  /\ ext' = ext + 1 /\ meddled' = TRUE
  /\ UNCHANGED value /\ Elsewhere

-----------------------------------------------------------------------------
Terraform == StartCreate \/ StartUpdate \/ StartDelete \/ Return \/ Refresh \/ Import

Calls ==
  \/ PostAnswered \/ PostUnanswered \/ WriteAnswered \/ WriteUnanswered
  \/ DeleteAnswered \/ DeleteUnanswered \/ DeleteMissing
  \/ Seen \/ Fails \/ Records \/ Refuses \/ LetsGo

Others == Settle \/ Vanish \/ Land \/ ProvisionFails \/ OutsideChange \/ OutsideDelete

Next == Terraform \/ Calls \/ Others
Spec == Init /\ [][Next]_vars

-----------------------------------------------------------------------------
(* Properties.                                                             *)

Promised(present) == IF present /\ kind \notin LetGoKinds THEN {"object"} ELSE {}
Promise == INSTANCE ManagedObject WITH
  Objects <- {"object"}, exists <- Promised(Exists),
  recorded <- Promised(tf.there \/ made),
  doomed <- Promised(doomed), lost <- Promised(lost)

\* Whatever fails and in whatever order, the object of every type but the above
\* is in the state once its creation was answered, and until it is gone or its
\* deletion accepted: "Persist it before waiting".
KeepsPromise == Promise!Spec

\* An operation that reports success, on an object that was up, or not there, when
\* it started and that nobody else has changed since the refresh before it, leaves
\* the platform as planned, and the state as the platform; the object is up, if
\* the type's handlers wait for that.  An address that is attached in the
\* background and rules that no configuration asks for do not count.
OkMeansApplied ==
  phase = "returned" /\ op \in {"create", "update"} /\ outcome = "ok" /\ ~meddled =>
    /\ tf.there
    /\ \A a \in R.reads \ R.queued :
         ~(a \in R.optional /\ plan[a] = 0) => value[a] = plan[a] /\ tf.value[a] = plan[a]
    /\ R.awaited => status = "active"

\* A deletion that reports success leaves nothing behind that a later deletion,
\* of the network below for one, would trip over.
OkMeansGone ==
  phase = "returned" /\ op = "delete" /\ outcome = "ok" /\ kind \notin UnawaitedKinds => ~Exists

\* A value that no GET shows enters the state only once the platform has it: a
\* handler that stops half way must not leave a state that hides the rest of the
\* change from the next plan.
StateNeverAhead ==
  [][\A a \in R.unread :
       tf'.there /\ tf'.value[a] \notin {tf.value[a], Forgotten} => value'[a] = tf'.value[a]]_vars

\* "Write-only fields -- preserve from plan": no update that succeeds makes the
\* state forget a value that no GET would bring back.
UpdatesKeepSecrets ==
  [][op = "update" /\ tf.there /\ tf'.there =>
       \A a \in R.unread : tf'.value[a] = Forgotten => tf.value[a] = Forgotten]_vars

\* Of every other type, no step of any handler, failed ones and refreshes
\* included, makes the state forget such a value as long as it has the object:
\* no later plan could tell whether the platform still has it.
SecretsKept ==
  [][kind \notin ForgetfulKinds /\ tf.there /\ tf'.there =>
       \A a \in R.unread : tf'.value[a] = Forgotten => tf.value[a] = Forgotten]_vars

\* As long as no update of the object has failed, the state is true about what no
\* GET shows, or says nothing: an update that rotates such a value and then fails
\* is the only way in which the two can come to differ, which no plan would show.
SecretsTrue ==
  phase # "running" /\ tf.there /\ ~erred =>
    \A a \in R.unread : tf.value[a] \in {Forgotten, value[a]}
=============================================================================
