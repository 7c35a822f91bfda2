# Verification of terraform-provider-ccp

TLA+ models, TLC runs and TLAPS proofs for the CETIC Cloud Platform provider for Terraform
(`src/`). The provider is a Go program of about 43 000 lines: one HTTP client
(`internal/client`), some fifty resources (`internal/resources`), as many data sources and a few
pure helpers. It keeps no state of its own between calls except one map of per-gateway locks;
everything else lives in Terraform's state file and on the platform. What is hard about it is the
*protocol* between those three: a handler is a sequence of HTTP calls, each of which may fail,
fail after taking effect, or be overtaken by another handler, another client or the platform's own
background work, and what the handler has written to Terraform state when it stops is all anybody
will know about the remote object afterwards.

## 1. Inventory

### Components, their state and their operations

| Component | State | Operations | What makes it correct | Modelled in |
|---|---|---|---|---|
| **Managed-object promise** (comments of every `Create`/`Delete`, `resources/persist_before_wait_test.go`) | objects the platform has, objects in Terraform state | create, import, delete, refresh | an object that exists is in state, or its deletion was accepted, or its creation was never answered | `ManagedObject` |
| **Application Gateway access policies** (`client/appgw_security.go`, `appgw.go`, `gateway_replicas.go`, `appgwpolicy/value.go`, `appgwlistener`, `appgwroute`, gateway `Update`) | `appgwPolicyLocks`; `security_revision` and the policy document in state; gateway-wide generation, documents and replica readiness on the platform | create, update, delete, read of listeners and routes; update and read of the gateway; certificate rotation | sibling writes do not conflict; success means the written policy is in force and drained on every replica; a protected child leaves the state only when its removal is effective | `AppGWPolicy` |
| **Access policy documents** (`appgwpolicy/value.go`, `validate.go`, `schema.go`, `config.go`) | none | validation, conversion both ways, canonical form, comparison | what is confirmed lets in exactly what was written; a refresh never misrepresents the platform; canonical paths are stable and confuse nothing | `PolicyDocuments` |
| **Application Gateway lifecycle** (`applicationgateway.go`, `errorpage`) | status, public IP, replica count | create with a second PATCH for the error page, update of public IP, delete | promise; success means up and applied | `BackgroundHandlers`; the policy side in `AppGWPolicy` |
| **VPC and VNet** (`vpc.go`, `vnet.go`) | status, `dedicated_egress_ip`, `isolated`, `snat` | CRUD, delete with retries on 409 | promise; a reported success honoured isolation and egress IP; every handler returns | `VpcVnet` |
| **Public IP** (`publicip.go`) | status and target of each IP, queued attach/detach tasks | allocate, annotate, attach, detach, re-attach, release | no false alarm on the old status; success matches the plan; only a release is forgotten | `PublicIP` |
| **Load balancer** (`loadbalancer.go`, `errorpage`) | listeners with backends and certificates, address, error page | create, update by an ordered list of calls, delete, import, plan-time replacement | a repeated update converges and never trips over its own first half; no diff that never ends; kept backends stay | `LoadBalancer`, waits in `BackgroundHandlers` |
| **Object bucket and its CORS rules** (`objectbucket.go`, `cors.go`) | CORS revision, rules, visibility, keys | create, read, update, delete, import | nobody's rules are overwritten unseen; unmanaged rules are never touched; recorded keys stay | `BucketCors`, waits in `BackgroundHandlers` |
| **Instances, volumes, gateways, clusters, databases, registry, zones, domains** (background provisioning) | one remote object each, provisioned or torn down in the background; its record in state | create, update, delete, each of several calls with polls between; read, import | promise; success means applied and up; deletion means gone; a handler that stops half way leaves a state that hides nothing from the next plan | `HandlerSteps`, `BackgroundHandlers`, `ResourceLifecycle` |
| **Network rules and peerings, DNS records, mailboxes, keys, secrets, scale sets, schedules, IAM, organisations, billing, support** (32 types) | one remote object each | mostly one call per handler; mailboxes, secrets and schedules take two or three | the same | `HandlerSteps`, `DirectHandlers`, `ResourceLifecycle` |
| **Lookups** (list-and-filter getters of `client/`, every data source) | none | one GET, or lists and a filter | an ambiguous name is never guessed; a 404 is synthesised exactly when the answered list lacks the object | `Lookups` |
| **Plan checks** (`dbpginstance/extensions.go`, `datasources/iampolicydocument`) | none | plan, validate and send extension settings; render IAM conditions | a checked plan is applied as planned; omitted settings are left alone; which conditions are AND-ed | `PlanChecks` |
| **API client core** (`client.go`) | HTTP client, token, `appgwPolicyLocks` | request, `Poll`, `PollUntilDeleted`, error classes | every call and every poll ends; 404 and 409 are told apart from the rest | within the handlers above |
| **Provider and plan modifiers** (`snatvalidator`, `ValidateConfig` of single resources) | none | the notice about a VNet's `snat` | the notice is given only when it is true | the notice in `Lookups`; the rest not modelled (section 7) |
| ARN parsing, provider configuration, wire types, schemas | none | pure functions and data | - | not modelled (section 7) |

### How the components interact

* **Terraform -> handler.** Terraform calls one handler per resource instance at a time, and handlers
  of different instances concurrently in goroutines of one provider process. It creates in dependency
  order and destroys in reverse order (a VNet's handlers run while its VPC is in state and idle), it
  refreshes an object before planning an update of it, and it marks an object *tainted* when its
  create handler returned an error after writing state. It plans again when a value that was unknown becomes
  known during the apply, and it refuses a result that differs from a known planned value.
* **Handler -> client -> platform.** All resources share one `Client`. A call has a 30 s timeout
  (`client.go:27`) and is never retried by the client. There are three outcomes: answered, refused
  without effect, and *failed after taking effect* (the answer was lost).
* **Handler <-> handler.** Only through the platform, and through `appgwPolicyLocks`: a map from
  gateway id to a one-slot channel, held from the read of the gateway's revision to the end of the
  write.
* **Platform -> platform.** Provisioning, teardown, attach and detach tasks, publication of policies
  to gateway replicas and draining of revoked connections go on in the background; handlers see them
  only by polling.
* **Other clients** (console, another workspace) create, change and delete the same objects.

### What is hard here

Interleaving of sibling writes under one revision; stale reads while polling; a wait that fails after
the write took effect; refresh between a failed destroy and its retry; old status still reported while
a task is queued; retries on 409 with a budget; deletions that end in a warning; two-call operations
that fail half way; nullable revisions; a filtered list that is taken for the truth; documents that go through
two conversions and come back as a difference. `PROJECT.json` lists each hazard at its line with the
properties that watch it.

## 2. Plan

1. **(done)** `AppGWPolicy` - the only real concurrency control of the program, its most
   delicate waits; `ManagedObject` - the abstract promise; `VpcVnet` - the asynchronous
   lifecycle with dependants, refining `ManagedObject`; `PublicIP` - queued tasks.
2. **(done)** `HandlerSteps`, `BackgroundHandlers`, `DirectHandlers` - the handlers of the other 51 resource
   types as programs, one definition per handler; `ResourceLifecycle` - runs them against Terraform and
   the platform, and refines `ManagedObject`. Moves of volumes and addresses between holders, and imports, are in.
3. **(done)** `BucketCors` - optimistic concurrency by expected revision; `LoadBalancer` - an update as an ordered
   list of calls that may break off anywhere, and the plan-time decision to replace.
4. **(done)** The pure parts: `Lookups` (data sources and list-built getters), `PolicyDocuments` (validation,
   conversion and comparison of access policies), `PlanChecks` (extension settings, IAM conditions).
5. **(done)** Proofs about each of them, in the modules named `...Proofs`.
6. **(left)** The revision that a gateway's create confirms after its error-page PATCH, composed with `AppGWPolicy`;
   the rendering of an IAM document as text and the parsing of ARNs; registry passwords; the `enabled` flag of a
   schedule that has ended.

## 3. Modules and how they correspond to the code

A handler's *step* is one HTTP call and the code up to the next one; its `pc` names the call it is about
to make. `tf` is Terraform state, reduced to what the properties read. `outcome` is what the
diagnostics amount to (`ok`, `error`, and the kinds a property distinguishes). History variables
(`wrote`, `lost`, `doomed`, `meddled`) record what happened for the properties; no guard of a
handler reads them. Operators described as *mutated form* are the plausible bugs that each property has been
tried against. `PROJECT.json` maps every definition to its lines.

**`ManagedObject`** - the abstract specification. Four sets (`exists`, `recorded`, `doomed`, `lost`) and
the steps a well-behaved resource may take. `NoStranded` is what it is good for. `VpcVnet`, `AppGWPolicy` (its
children) and `ResourceLifecycle` implement it.

**`AppGWPolicy`** - one gateway, its listeners and routes, one handler per resource.
`Acquire`/`CancelAcquire`, `ReadRevision`/`RevisionFails`, then the write (`PostChild`, `PatchRoute`,
`PatchListener`, `PatchGateway`, `DeleteCommitted`, `DeleteMissing`, `SendFails`, `SendLost`) are
`policyWrite` with the handler's code after it. `AfterWrite` is `finishPolicyWrite`; `SettleGateway`
is `WaitAppGWReady`'s loop; `RotateCertificate` and `RereadListener` the end of the listener's update;
`WaitDone`, `WaitRemoved`, `GiveUp` the loop of `WaitAppGWSecurity`, `Ready` and `ReplicaApplied` its test.
`Refresh` is `Read`. `RotationLost` is a rotation that the platform carries out and does not answer: it moves the gateway's
generation on, and the update ends in an error. `Answers` is what an answer says of the revision; the platform may leave
it out of any of them (`OddAnswers`), one without policies always does. A write that carries no revision is not checked
against the current one (`Accepts`), so that only the handler's own test of the answer keeps it from writing blindly.
The platform (external) commits documents under one generation, publishes (`PublishTo`),
drains (`DrainOn`), answers GETs from a snapshot that may be stale (`CatchUp`), and is written by
others (`OutsideWrite`, `GatewayBreaks`, `GatewayRemoved`). `MCAppGWPolicy` starts it from three beginnings,
`MCAppGWPlatforms` runs it on two platforms as one specification, the second an older one without policies.

**`VpcVnet`** - `Post*` are the POST of `Create` and the state write that follows it, `PollActive`,
`PollFails`, `Refetch` the wait, `Provisioned` the checks on the record the platform returns, `SetIsolation`
the second call of a VNet's create and the first of its update, `PatchVpc`, `PatchVNet`, `ReadBack` the
updates, `Delete*` and `Gone*` the two deletes. The VPC's delete loop differs from the VNet's: it retries
409, goes through its poll even on a 404, and remembers the last conflict for its diagnostic. `MCVpcVnet` runs it on a
platform that knows dedicated egress addresses and on one that does not.

**`PublicIP`** - `CheckType`, `Allocate`, `Annotate`, `Attach`, `Detach`, the polls (`AttachSeen`,
`DetachSeen`, `PollAlarm`, `PollGoesOn`, `PollGivesUp`, all parts of `attachAndPoll`/`detachAndPoll`),
`ReadBack`, `Release`, `ReleaseMissing`. A platform task is queued in `task` (`PickUp`, `TaskDone`,
`TaskFails`), so that the old status is reported until it is picked up.

**`LoadBalancer`** - `Valid` and `ValidateCustomCert` are `ValidateConfig`, `ListenersRequireReplace` and
`ListenerImmutableChanged` the plan modifier, `Calls` the calls that an update makes of a plan and a state, `Rank` and
`IsNext` their order (certificates, address, page, backends taken away, backends added), `CallAnswered`,
`CallClashes`, `CallFails` one of them, `Updated` the read-back through `StateFromAPI` and `CarryOver` (what no GET
shows is carried over from the plan or the state), `CreatedUp` and `CreatedPage` the end of `Create`. A listener is
its protocol and port. The challenge "dns01" stands for all that the platform carries out by itself.

**`BucketCors`** - `Post`, `Poll`, `Fetch`, `Visibility`, `ReadRevision`, `PutCors`/`DeleteCors` (refused in
`CorsRefused`, unanswered in `CorsLost`), `ReadAll`/`ReadCors`, `Credentials`, `Delete` and `Gone` are the calls of the
handlers; `RulesFirst` is the order in which an update makes its two writes, `Written`, `NotWritten` and
`Unreadable` what `cors.go` leaves in the state after each outcome. The platform refuses rules for any origin on a
private bucket, and a revision that is not current (`Accepts`).

**`HandlerSteps`, `BackgroundHandlers`, `DirectHandlers`** - 51 resource types whose handlers differ in which
calls they make, in what order, when they write state and what a failed call means, and in nothing else that the
properties see. `HandlerSteps` is the vocabulary: a step is one call (`Post`, `Write`, `Clear`, `Wait`, `Get`, `Delete`,
`Gone`) or a return path without one (`Record`, `Refuse`, `LetGo`), with the attributes it writes, the `State.Set`
after it (`Saving`, `SavingOld`, `Forgetting`), its error path (`OrRecord`, `OrWarn`) and the condition on plan or state
under which it is taken (`IfSet`, `IfUnset`, `IfHeld`). A handler is then a definition such
as `ClusterUpdate`, a function from the attributes that changed to the sequences of steps the code may take;
what the platform answers, and attributes not modelled, may leave a choice between several. The schemas decide which
attributes a GET shows, which it never does (`unread`), which name another object (`moved`: one of two, or none),
and which change in place (the domain of `update`; any other
change replaces the object). Attributes that a handler treats alike are one. The load balancer is looked at twice
(`BalancerFrontend`, `BalancerPool`) to keep the number of its attributes small, and so is the cluster: `K8sCluster`
has its address and its initial pool, `ClusterEndpoint` the settings of its PATCH and the internal address of its API
server, which is sent at creation and which no GET shows, and both have its version. `required` names the
attributes that the schema makes required and no GET shows (the password of a mailbox or of a scale set, the data of a
secret): no plan leaves them unset (`Plannable`).

**`ResourceLifecycle`** - one object of any of those types. `StartCreate`, `StartUpdate`, `StartDelete`, `Return`,
`Refresh` and `Import` are Terraform: refresh, plan, run a handler, keep or forget or taint what it returned.
`PostAnswered`, `WriteAnswered`, `DeleteAnswered`, `DeleteMissing`, `Seen`, `Fails`, `Records`, `Refuses`, `LetsGo` run
the next step; `...Unanswered` are calls that take effect and fail. `Accepted` is what the platform does with a call;
`Settle`, `ProvisionFails`, `Vanish` and `Land` its background work; `OutsideChange` and `OutsideDelete` other users. The
rules at the end of `HandlerSteps`, about the courses that a program may take, are `HandlersAssumption`: the
convention that the provider's handlers share, and all that the proofs need to know of them. Every new handler has to
follow them, and the run of all types says so before any state is explored.

**`Lookups`** - stateless. One operator per getter that the client builds from a list (`GetPublicIP`,
`FindVNetByID`, ...) and one per data source (`ReadVPC`, ...), over a record of what the API answers; `First`, `Only`
and `Unique` are the three scans they share.

**`PolicyDocuments`** - stateless. `Wire...` is what is sent, `Hcl...` what the state is given, `Normal...` what is
compared; `L4`, `L7`, `ClientIP` bundle the three for each document, `FromL4` etc. what `Read` leaves in the state;
`Valid...` is the validation; `CanonicalPath` and the operators around it the treatment of paths. `LetsIn` and
`Trusts`, what a document means, are the platform's, from the descriptions in the schema.

**`PlanChecks`** - stateless. `ModifyPlan` and `CheckExtensions` decide about the extension settings of a
PostgreSQL instance, `ExtensionRequest` is what an apply sends, `Normalized` the platform's answer;
`Rendered` merges the condition blocks of an IAM document, `Meets...` is how the platform reads them. A plan is
checked again once the values that were unknown (`Later`) are known, and the state has been refreshed.

The `MC...` modules hold the constants of the runs and combine instances; the `...Proofs` modules the theorems.

### Assumptions about what is outside `src/`

* One GET is one consistent snapshot, possibly an old one where a run says so. `security_revision` is one
  gateway-wide generation that grows with every policy write (`appgw_types.go`, `appgw_security.go`); a gateway that
  never had a policy stays at 0. The revision of CORS rules changes with every write of them (`cors.go`).
* Lists are complete, except in `Lookups`: elsewhere the code cannot tell an object missing from a list from one that
  was deleted.
* An object is a slot: a new object with a new id reuses the slot once the old one is gone, so at most one
  remote object per slot exists at a time. A creation whose answer was lost blocks its slot.
* Terraform's ordering as described in section 1. It persists what a handler returns, errors included, and
  forgets an object whose delete handler returned none. It plans from a refreshed state.
* A change that a handler polls after takes the object out of service until the platform is done with it
  (`slow`); one that no handler polls after takes effect at once, or in its own time if it is a queued attachment
  (`queued`). Nobody but the provider changes a value that no GET shows.
* A bucket that is private refuses CORS rules for any origin (`cors.go`, the comment on the order of the two writes).
  The platform refuses to add a backend that is there, and to take one away that is not.

## 4. Runs

| Run | Question | Instance | Distinct states (until the violation, where one is found) |
|---|---|---|---|
| `appgw_siblings` | Is the lock held exactly over read and write? Does a stale read ever produce a success, or a deletion that has not happened? Does every handler return? | 1 listener, 1 route, the gateway, 1 replica, lagging reads and rotations; from a bare gateway with 2 calls, with 1 call and 1 outside event, and with recorded children that are gone | 67 825 |
| `appgw_platforms` | Do the children's writes never conflict with each other; is a child only forgotten once it is ineffective; does success mean enforced on both replicas; do the children implement `ManagedObject`; is no write accepted without the revision that guards it, whichever answers leave the revision out; is a child that is dropped while it is served announced by an error? | a listener and its gateway, 2 replicas, 1 outside event; a platform that alters documents and leaves revisions out of its answers, 2 calls, and one without revisions, 3 calls | 865 325 |
| `appgw_refresh_drop` | *finding*: a refresh drops a protected child that is still served | 1 listener, 2 calls | about 1 400 |
| `vpc_vnet` | Do VPC and VNets keep the promise and honour their intents, and return, on a platform that knows egress addresses and on one that ignores them? | VPC, 2 VNets, 4 calls, 1 outside event, both platforms | 214 066 |
| `public_ip` | No false alarm, no address lost silently, success matches the plan, only releases forgotten, every handler returns | 2 IPs, 2 targets and a balancer, 3 calls, 1 outside event, a platform without IP types | 68 150 |
| `public_ip_leak` | *finding*: an allocated IP is lost when its attachment fails | 1 IP, 1 target | about 40 |
| `load_balancer` | Does an update that breaks off and is repeated converge, without a diff that never ends, a clash with itself or the loss of a kept backend? | 2 listener keys, 2 backends, 2 weights, 2 certificates, a page, an address; 3 calls, 1 outside event | 590 243 |
| `load_balancer_credentials` | *finding*: other DNS credentials are recorded without a call | 2 configurations, 2 calls | about 50 |
| `bucket_cors` | Are nobody's rules overwritten unseen and unmanaged rules never touched? Is the state true, and keys kept? | two lists of rules, one of them open to any origin; 3 calls, 2 outside events | 148 988 |
| `bucket_cors_taint` | *finding*: refused rules taint the bucket | 1 create, 1 outside event | about 1 700 |
| `resources` | Does success mean applied, deletion gone; does a handler that stops half way leave an honest state; is the promise kept; does the state forget what only it has, or come to differ from the platform there? | 51 types (two of them in two views), 3 handlers, 2 outside events | 960 298 |
| `scale_set_secrets` | *finding*: an update forgets the root password | 2 types, 3 handlers, 1 outside event | about 300 |

**What they show.** The passing runs find no violation: within these bounds the lock, the revision protocol, the
waits and the order of the calls do what the code's comments promise, with the exceptions that the findings name.
Each property has also been tried against a plausible bug in the definition it is about (the operators called
*mutated form*), and each of those bugs violates it.

**Bounds.** `MaxOps` bounds handler calls, `MaxExternal` outside events and failing background work;
both are guards of the actions that spend them and nothing else is bounded. (Generations grow only with
handler calls and outside events.) Two or three calls are enough for the longest scenarios the properties
are about: a create, a failed or concurrent update, and a destroy with its retry (refreshes are free).
Two replicas are all the platform offers (`gateway_replicas.go`); one non-empty policy suffices because
the code only compares documents for equality, and `Empty` is the second value. The VPC run takes four calls to
see a VPC, a VNet of its own and one of them deleted while the other is still at work. In `resources` every attribute
has two values, set and unset (three for the name of another object), all of which a plan may change at once; three
handlers are a create, an update that fails half way, and the update or destroy that has to cope with what it left.
The configurations of `load_balancer` are listed in `MCLoadBalancer`; they differ pairwise in the ways that make the
calls of an update depend on each other. No symmetry is used.

**Fairness.** `WF` on the union of a handler's own steps: every HTTP call ends (30 s timeout), every poll has a
deadline, every loop a budget, so a handler at work always takes another step. `SF` on `Acquire`: goroutines
blocked on a channel send are served in FIFO order by the Go runtime, and each holder gives the lock back.
Nothing is assumed of the platform: provisioning may never settle and replicas may never apply, yet
`HandlersFinish` holds (`appgw_siblings`, `vpc_vnet`, `public_ip`). `ResourceLifecycle`, `BucketCors` and
`LoadBalancer` check safety only: their handlers are straight sequences of calls. `Quiet` is a stutter that
keeps a finished system from counting as a deadlock, so deadlock checking is on in every run: a blocked handler is an
error.

## 5. Proofs

All theorems hold for every value of the constants under the modules' named assumptions (disjointness of
the sets, one or two replicas, Boolean switches, natural bounds), without the sizes of the runs.

* **`AppGWPolicyProofs`**
  * `TypeCorrect`: `TypeOK` is inductive; one lemma per group of actions.
  * `LockScope`: `LockInWindow` with `TypeOK` is inductive. Every action that ends a handler gives the
    lock back, shown once by classifying actions by what they do to `pc` and `lock`.
  * `SuccessIsApplied`: `AppliedWhenOk` is not inductive: the argument needs what the wait has seen. `AppliedInv`
    adds that a stale snapshot is behind the real replicas (`StaleIsBehind`), that a handler waits for a
    revision no smaller than its own write (`WaitsForOwnWrite`), and that a running handler has no outcome
    yet. A positive test on a stale snapshot then bounds the real replicas from below, and those only grow.
  * `SiblingsNeverConflict` (`NoSelfConflict`): `CalmInv` adds that until somebody outside acts only the lock holder
    writes and nobody rotates outside the lock, so `base` stays equal to `gen` between the read and the write.
  * `RemovedWhenForgotten` (`DestroyForgetsOnlyRemoved`) and `EnforcedOnSuccess` (`EnforcedWhenOk`), over
    `RemovalInv`. A deletion succeeds on a snapshot that may be stale, so the argument needs `Published` (what a
    replica of a generation has, and a snapshot of it), `CalledInv` (a deletion waits for a revision no older than
    the recorded one) and `DeadStaysDead`: a child that is missing from a snapshot at least as new as its
    recorded revision is gone from every replica that has caught up with that snapshot. Each step is one of six
    `Moves` for each child, and each of these keeps the dead dead.
  * `PromiseKept` (`KeepsPromise`), assuming `~LaggingReads`, over `PendingInv` (nothing exists without its gateway, and
    what is about to be created does not exist yet), and `NothingStranded`. With lagging reads the promise does not
    hold: a stale 404 makes `Refresh` drop a child that exists.
  * `ServedDropsAreAnnounced` (`ServedDropsFollowErrors`), the other half of finding 1: until somebody outside acts, and
    with fresh reads, a protected child that a replica still serves leaves the state only between operations, hence
    through `Read`, and only if the last of them reported an error. `MissingIsReported` is the invariant: a child that is
    recorded and gone from the API is one that a handler is at work on or whose last operation ended in an error. It
    rests on `CalmInv` (what others take away would break it) and on `RemovalInv` (what a positive test says of the
    replicas).
  * `WritesAreGuarded` (`NoBlindWrite`): every policy write that the platform accepts, its answer lost or not, was made
    under the revision current at that moment, although any answer may lack the revision and a request that lacks it
    would be accepted. What a handler has read is never nil when it sends a policy (`TypeOK`), so `Accepts` decides.
* **`VpcVnetProofs`**
  * `TypeCorrect`.
  * `PromiseKept`: `Spec => Managed!Spec`, a step-by-step refinement. `PromiseInv` adds that a handler past its
    POST has its object in state, and that one waiting for a deletion to finish has a doomed or absent object;
    without these, forgetting after a failed poll could not be mapped to `ManagedObject!Forget`.
  * `NothingStranded`: what the refinement is good for, an object that exists and is in no state is doomed or its
    creation was never answered.
  * `SuccessIsPlanned` (`IntentHonoured`) over `CourseInv`, what a handler relies on when it ends well: a creation never
    finds an option on that it did not ask for, the isolation still to be set was asked for, and what is only read
    back is, if it is there, as planned.
* **`LifecycleProofs`** - about all programs at once. `ResourceLifecycle!HandlersAssumption` states rules for every
  course a handler of every type may take: a create makes before it records and surely records what it made
  (`RecordsWhatItMakes`), nothing is forgotten but by a delete that was accepted (`DeletesWhatItForgets`), a delete
  that ends well has seen the object gone (`GoneWhenDeleted`), the last step of a create or an update on an attribute
  is the right one, is followed by a `State.Set` and, where the type awaits it, by a wait (`AppliesThePlan`), and what no
  GET shows is told only after it was written (`TellsNothingEarly`), not forgotten (`Remembers`), and recorded by the
  update that wrote it (`StaysTrue`). It is an assumption about constants only, the programs,
  and every run of the module evaluates it for the types it has. The proofs know nothing else of the programs, so a
  new resource type needs no new proof, only programs that keep the rules.
  * `TypeCorrect`.
  * `DeletionsComplete` (`OkMeansGone`): `GoneInv` adds that what is left to do by an undisturbed delete without errors
    still ends in the object's absence (`Vanishes`).
  * `SuccessIsPlanned` (`OkMeansApplied`): `AppliedInv` says what is yet to come of a handler that nothing has gone wrong
    with. Each attribute is as planned and left alone from now on, or a later step makes it so; the state has it, or a
    later step saves it after the last that touches it; the object is up, or waited for, or gone and about to be missed.
    Before it starts, the state agrees with the platform unless somebody else has changed the object since (`Synced`).
    Success means an object that is up for a handler that found it up, or absent, when it started.
  * `NeverAhead` (`StateNeverAhead`), over `ToldInv`: such an attribute is as planned in the state or on the platform, or
    all that is left of the program tells of it only after writing it.
  * `SecretsStay` (`SecretsKept`), the other half of finding 3: but for the two types whose update forgets
    (`ForgetfulKinds`), no step of any handler, no failure, no refresh makes the state lose such a value. The rule for
    the programs is `Remembers`, the invariant that what is left of a course keeps it.
  * `SecretsAreTrue` (`SecretsTrue`): what the state says of such a value is what the platform has, unless an update has
    failed since the object was created or imported; no lost answer, failed creation or deletion, warning or outsider can
    bring the two apart. `TruthInv` adds what a running handler has yet to do: a creation says nothing before its POST, an
    update has a step ahead that records what it has written (`RecordsWrites`), a deletion writes nothing. The rule is
    `StaysTrue`; the one exception is real, the rotated secret of section 6.
  * `PromiseKept`: `KeepsPromise`. `PromiseInv` says of a running handler which of four kinds the rest of its program is
    of: yet to make, made and sure to be saved, only changing, or deleting.
  * `NothingStranded`.
* **`PublicIPProofs`** - `TypeCorrect`; `AlarmsAreTrue` (an error in mid-poll is never the old status of an IP whose
  task is still queued), `SuccessIsPlanned`, `ReleasedWhenForgotten`, over `CourseInv`: what a handler's `pc` says
  of the task it queued and of what others have done since. `StrandingIsReported` (`StrandedMeansError`), the other half
  of finding 2: an address that exists and that neither the state nor a running handler knows was lost by an operation
  that ended in an error, so that it is never lost silently.
* **`LoadBalancerProofs`** - `TypeCorrect`, `UpdatesConverge`, `NothingToChangeAfterwards`, `ClashesAreMeddling`,
  `KeptBackendsStay`. The heart of `Inv` is `HalfWay`: an undisturbed update is somewhere between the balancer of the
  state and that of the plan, and what is missing is what is left to call. `UnchangedCredentialsApplied`, the other half
  of finding 5: as long as no two configurations give a listener different credentials, success does mean that they
  are applied. Its lemma `OnlyPostWritesCredentials` is the reason for both halves.
* **`BucketCorsProofs`** - `TypeCorrect`; `UnmanagedKept` over `ClaimInv` (what no configuration mentioned never gets to
  the calls about rules); `KeysAreKept` over `KeysInv`; `RulesNeverLost` over `RevisionInv` (a recorded revision always
  belongs to the recorded rules, so a write under it can only replace rules that the state has shown); `StateIsTrue`
  and `OrderIsAllowed` over `TruthInv` (between the calls of a handler nobody else has touched, the bucket is what the
  state says with the answered calls applied, and what is still planned may follow in the order chosen). Both hold on
  through a refusal of a handler's first call, a GET that fails and a DELETE that is refused. They claim nothing after
  an update that broke off once an earlier call of it had taken effect, or after a call whose answer was lost, until the
  next refresh: the state does say something else than the bucket then.
* **`LookupsProofs`** - `OrderNeverShows` (what a scan for the only match, `Only`, answers does not depend on the order of
  the list; the lemmas `FirstMatch` and `NeverGuesses` say what the scans return), `MissingMeansUnlisted`
  (a 404 that drops a resource is synthesised exactly when the answered list lacks it), `FindVNetByIDSound`,
  `SnatNoticeTrue`, `UniqueReadIsUnique`, `ScaleSetSameEitherWay`.
* **`PlanningProofs`** - of paths: `CanonicalStable`, `CanonicalFaithful`; of policies: `RefreshTellsL4`,
  `RefreshTellsL7`, `RefreshTellsClientIP` (what a refresh leaves in the state lets in what the platform does),
  `ConfirmedIsWritten`, `ConfirmedStays`, `ImportSettles`; of plans: `AppliedAsPlanned` (for a catalogue that could be
  read and once all values are known; a catalogue that cannot be read is only a warning), `OmittedUnchanged`,
  `CronPinsLibrary`; of IAM documents: `MergingWidens`, `DistinctConditionsKept`. (`Words` there is
  `STRING` with `""` added, since the provers do not know that a literal is a string.)

`NothingStranded` is shown of `ManagedObject` itself in the three modules that refine it.

Model-checked only: all liveness (`HandlersFinish`; fairness and `ENABLED` are out of TLAPS' reach). Every other property
of a passing run is stated by one of these theorems.

## 6. Findings

1. **A protected child can leave the state too early.** `appgw_security.go:268-269` promises that it stays
   until its removal is effective on every replica. `Delete` keeps the promise; `Read` does not
   (`appgwlistener.go:300`, `appgwroute.go:583`): a destroy whose DELETE committed but whose wait failed leaves the child in
   state, the refresh of the next run gets a 404 and drops it (`appgw_refresh_drop`). The destroy has reported an error
   by then, always (`ServedDropsFollowErrors`).
2. **An allocated public IP can be lost.** `publicip.go:343-383` writes state only after attaching and
   polling, against the rule `persist_before_wait_test.go:25-29` states (`public_ip_leak`). The create that loses it reports an
   error (`StrandedMeansError`).
3. **Updating a scale set forgets its root password.** `containerscaleset.go:428-433` says that write-only fields are
   preserved from the plan and leaves `root_password` out, `vmscaleset.go:404-464` likewise; `Create` and `Read` keep it.
   The attribute is required and forces replacement, so at the latest the next plan replaces the scale set
   (`scale_set_secrets`). No other type forgets what it cannot read again (`SecretsKept`).
4. **Refused CORS rules taint the bucket.** `cors.go:411-413` says that a failure must not be returned as an error,
   because Terraform would taint the bucket and replace it. `applyCorsOnCreate` returns none but empties `cors_rule` where the plan
   holds known blocks (`cors.go:430`): an inconsistent result, which taints the bucket all the same
   (`bucket_cors_taint`).
5. **Other ACME credentials are never applied.** `docs/resources/load_balancer.md:268,282` call `acme_dns_credentials`
   immutable, any change of which replaces the load balancer. `listenerImmutableChanged` does not compare them and no
   call of `Update` sends them, but `stateFromAPI` (`loadbalancer.go:727`) records them (`load_balancer_credentials`).
   Credentials that never change are applied (`UnchangedCredentialsApplied`).

Seen while modelling, without a run of its own:

* **Promise.** `emailaccount.go:452-489` writes state only after the forwarding PATCH and a GET, either of which may fail
  and strand the mailbox, so `KeepsPromise` leaves that type out; so it does a schedule whose rollback failed, of which the
  user is told, and quota requests and support tickets, which cannot be deleted. A secret whose rotation succeeded and
  whose metadata PATCH then failed (`secret.go:341-375`) keeps its old data in state: going back to the old configuration
  is then no change, although the platform has the new data. An update that fails is the only way into this
  (`SecretsTrue`).
* **VPC.** A fatal error that follows a 409 is reported as the old conflict (`vpc.go:545-549`; the comment at 586
  wants it surfaced).
* **Addresses.** A cluster, a load balancer and an application gateway attach a new public IP without detaching the old
  one; instances detach first.
* **Buckets.** An import never reads the credentials (`objectbucket.go:640-642` against `credentialsWorthRefreshing`); nor
  does a create whose bucket is no longer active at the GET. The state does not "record the truth" when only the answer
  to the PUT was lost. Without a recorded revision the write is unconditional, which
  `docs/resources/object_bucket.md:82` does not mention.
* **Load balancer.** A certificate rotated by an update that then failed is unknown to the state, and is sent again.
  Reordering listener blocks is an update that makes no call. A listener block that is unknown at plan time leaves
  the decision to replace out of that plan (`loadbalancer.go:600`).
* **Data sources.** Those of the application gateway and the registry take the first match, the others refuse several.
* **Plan checks.** A PostgreSQL instance with a `cron_database` cannot be rid of `pg_cron`
  (`docs/resources/db_pg_instance.md:86`; theorem `CronPinsLibrary`). `expose_private = false` without `expose_public`
  passes a registry's `ValidateConfig` (comment at `registry.go:196-204`); an e-mail alias `*@` without `wildcard` is
  not caught at plan time (`emailalias.go:133-135`).
* **IAM.** Conditions of one test and variable are merged, hence OR-ed (the data source's page says so, lines 110-112;
  the schema text says AND). The platform's canonical JSON is written into a required attribute, so that a create with a
  text that is not canonical ends in an inconsistent result; the plan modifier helps only once there is a state.

## 7. Not modelled

* Wire types, schemas, formatting of diagnostics, logging, request building: no behaviour the properties are about.
* The configuration of the provider from its environment, and two plan modifiers of one comparison each (the validator of
  `snat` is in `Lookups`); the parsing of ARNs and the rendering of an IAM document as text: conversions of strings without state, best left to unit tests.
* The revision that a gateway's `Create` confirms after its error-page PATCH; the passwords of a registry, which the
  state keeps beside the object; the `enabled` flag of a schedule that has ended.
* The reasons for which the platform refuses a call, where the code does not tell them apart.
* The platform's internals beyond what the handlers can observe; Terraform's graph beyond the ordering named above.
* Hazards that no property can cover, because the code does nothing about them: a list that is incomplete
  (`client.go:640`; what is proved is that the 404 means exactly "not listed") and the mailbox above. Of the secret
  above no more can be said than `SecretsTrue` says: a state that is wrong has seen an update fail.
