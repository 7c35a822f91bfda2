-------------------------- MODULE BackgroundHandlers --------------------------
(***************************************************************************)
(* The create, update and delete handlers of the resources that the        *)
(* platform provisions or tears down in the background, as programs of     *)
(* HandlerSteps.  Attributes that a handler treats alike are one attribute *)
(* here.  Arguments of update programs are the attributes that changed.    *)
(***************************************************************************)
EXTENDS HandlerSteps

-----------------------------------------------------------------------------
(* Instances.                                                              *)

\* The disk, tags and the rest are posted with the public IP; the platform
\* attaches the IP in its own time.
ContainerAttrs == {"disk", "public_ip"}
ContainerCreate ==
  Any(ContainerAttrs, {Saving(Post(ContainerAttrs)) \o Wait \o Saving(Get)})

\* The address in the state is detached, the one in the plan attached, and
\* neither is waited for.
ContainerMoveIP == IfHeld("public_ip", Clear({"public_ip"})) \o IfSet("public_ip", Write({"public_ip"}))
ContainerUpdate == [c \in Some(ContainerAttrs) |->
  {When("disk" \in c, Write({"disk"})) \o When("public_ip" \in c, ContainerMoveIP)
   \o Saving(Get)}]

ContainerDelete == Any(ContainerAttrs, {Delete \o OrWarn(Gone)})

Container == [Provisioned(
  Resource(ContainerAttrs, {}, ContainerCreate, ContainerUpdate, ContainerDelete))
    EXCEPT !.queued = {"public_ip"}, !.moved = {"public_ip"}]

VMAttrs == {"disk", "public_ip", "name"}
VMCreate == Any(VMAttrs, {Saving(Post(VMAttrs)) \o Wait \o Saving(Get)})

VMMoveIP == IfHeld("public_ip", Clear({"public_ip"})) \o IfSet("public_ip", Write({"public_ip"}))
VMUpdate == [c \in Some(VMAttrs) |->
  {When("disk" \in c, Write({"disk"})) \o When("public_ip" \in c, VMMoveIP)
   \o When("name" \in c, Write({"name"})) \o Saving(Get)}]

VMDelete == Any(VMAttrs, {Delete \o OrWarn(Gone)})

VMInstance == [Provisioned(Resource(VMAttrs, {}, VMCreate, VMUpdate, VMDelete))
  EXCEPT !.queued = {"public_ip"}, !.moved = {"public_ip"}]

\* Polls that end without the snapshot being available are no failure.
SnapshotCreate == Any({"name"}, {Post({"name"}) \o OrWarn(Wait) \o Record})
Snapshot == Background(Resource({"name"}, {}, SnapshotCreate, Never, Deleted({"name"})))

VMSnapshotCreate == Any({"name"}, {Post({"name"}) \o OrWarn(Wait) \o Record})
VMSnapshot == Background(Resource({"name"}, {}, VMSnapshotCreate, Never, Deleted({"name"})))

-----------------------------------------------------------------------------
(* Block volumes.                                                          *)

VolumeAttrs == {"size", "attachment"}
AttachAndPoll == Write({"attachment"}) \o Wait
DetachAndPoll == Clear({"attachment"}) \o Wait

\* From one instance to another by way of none.
Reattach == IfHeld("attachment", DetachAndPoll) \o IfSet("attachment", AttachAndPoll)

VolumeCreate == [c \in SUBSET VolumeAttrs |->
  {Saving(Post({"size"})) \o Wait \o When("attachment" \in c, AttachAndPoll)
   \o Saving(Get)}]

VolumeUpdate == [c \in Some(VolumeAttrs) |->
  {When("size" \in c, Write({"size"}) \o Wait)
   \o When("attachment" \in c, Reattach) \o Saving(Get)}]

\* A volume that the state shows in error is not detached, attached or not.
VolumeDelete == [c \in SUBSET VolumeAttrs |->
  {When(detach, DetachAndPoll) \o Delete \o OrWarn(Gone) :
     detach \in {"attachment" \in c, FALSE}}]

BlockVolume == [Provisioned(
  Resource(VolumeAttrs, {}, VolumeCreate, VolumeUpdate, VolumeDelete))
    EXCEPT !.slow = VolumeAttrs, !.moved = {"attachment"}]

-----------------------------------------------------------------------------
(* Gateways.                                                               *)

\* The address of the plan replaces the one there; without one, that is detached.
MoveAddress(a) == IfSet(a, Write({a})) \o IfUnset(a, Clear({a}))

\* Backends that the plan has no more are removed before new ones are added; the
\* weight of one that stays is changed in place.
SwapBackends == IfHeld("backends", Clear({"backends"})) \o IfSet("backends", Write({"backends"}))
ReweighBackends == IfUnset("backends", Clear({"backends"})) \o IfSet("backends", Write({"backends"}))

\* The error page is not part of the POST: it goes out once the object is up.
\* A platform that ignores the number of replicas or the address asked for is
\* an error right after the POST.
BalancerPost(attrs) == Saving(Post(attrs \ {"error_page"}))
BalancerCreate(attrs) == [c \in SUBSET attrs |->
  {BalancerPost(attrs) \o Refuse,
   IF "error_page" \in c THEN BalancerPost(attrs) \o Wait \o Write({"error_page"}) \o Saving(Wait)
   ELSE BalancerPost(attrs) \o Saving(Wait)}]

\* The PATCH, then the address, attached over the old one or detached, then the
\* certificate and the backends of the listener, each by calls of its own, and
\* one wait for all of them.
BalancerUpdate(attrs) == [c \in Some(attrs) |->
  {When("error_page" \in c, Write({"error_page"}))
   \o When("address" \in c, MoveAddress("address"))
   \o When("certificate" \in c, Write({"certificate"}))
   \o When("backends" \in c, backends) \o Saving(Wait) :
     backends \in {SwapBackends, ReweighBackends}}]

BalancerDelete(attrs) == DeletedGone(attrs)

\* Certificates come back from no GET: the state keeps those of the plan.  A load
\* balancer has more attributes than one instance can vary: the frontend is what
\* its clients see of it, the pool what it forwards to.
Balancer(attrs) == [Provisioned(Resource(attrs \ {"certificate"}, {"certificate"},
  BalancerCreate(attrs), BalancerUpdate(attrs), BalancerDelete(attrs)))
    EXCEPT !.slow = attrs]
BalancerFrontend == Balancer({"address", "certificate", "error_page"})
BalancerPool == [Balancer({"certificate", "backends"}) EXCEPT !.moved = {"backends"}]

GatewayAttrs == {"settings", "error_page", "public_ip"}
GatewayPost == Saving(Post({"settings", "public_ip"}))

\* A gateway with access policies is waited for once more, until they apply, and
\* may turn out not to have them (module AppGWPolicy).
GatewayCreate == [c \in SUBSET GatewayAttrs |->
  LET up == GatewayPost \o Wait \o When("error_page" \in c, Write({"error_page"}) \o Wait)
  IN  {GatewayPost \o Refuse, Saving(up), up \o Saving(Wait), up \o Wait \o Refuse}]

\* One PATCH, then the public IP; with policies the state is written in between.
GatewayUpdate == [c \in Some(GatewayAttrs) |->
  LET patched == c \ {"public_ip"}
      patch == When(patched # {}, Write(patched))
      rest == When("public_ip" \in c, MoveAddress("public_ip")) \o Wait
  IN  {Saving(patch \o rest)} \union
      {Saving(patch) \o p : p \in IF patched = {} THEN {}
                                  ELSE {Saving(rest), rest \o Saving(Wait), rest \o Refuse}}]

GatewayDelete == DeletedGone(GatewayAttrs)

ApplicationGateway == [Provisioned(Resource(GatewayAttrs, {},
  GatewayCreate, GatewayUpdate, GatewayDelete)) EXCEPT !.slow = GatewayAttrs]

VPNGatewayCreate == Any({"settings"}, {Saving(Post({"settings"})) \o Wait \o Saving(Get)})
VPNGatewayDelete == DeletedGone({"settings"})
VPNGateway ==
  Provisioned(Resource({"settings"}, {}, VPNGatewayCreate, Never, VPNGatewayDelete))

\* A bastion is not waited for.
BastionCreate == Posted({"settings"})
BastionDelete == DeletedGone({"settings"})
Bastion == Background(Resource({"settings"}, {}, BastionCreate, Never, BastionDelete))

-----------------------------------------------------------------------------
(* Kubernetes.  The initial pool of a cluster and the internal address of   *)
(* its API server, which is given for good, are read back by no handler.    *)

ClusterCreate(attrs) == [c \in SUBSET attrs |->
  {Saving(Post(attrs \ {"ip"})) \o
   IF "ip" \in c THEN Wait \o Write({"ip"}) \o Saving(Get) ELSE Saving(Wait)}]

ClusterSteps(c, upgrade, patched) ==
  When("version" \in c, upgrade)
  \o When("ip" \in c, MoveAddress("ip"))
  \o When("initial_pool" \in c, List \o Write({"initial_pool"}))
  \o Saving(Write(patched))

\* An upgrade is waited for and recorded, with the old initial pool, before the
\* rest is changed: address, initial pool, and always one PATCH.
ClusterUpdate(attrs) == [c \in Some(attrs \ {"internal_ip"}) |->
  {ClusterSteps(c, Write({"version"}) \o SavingOld(Wait), {"settings"} \intersect attrs)}]

ClusterDelete(attrs) == DeletedGone(attrs)

\* A cluster, too, has more attributes than one instance can vary. One has its
\* address and initial pool, the other what the last PATCH changes and what is
\* given for good.
Cluster(attrs, unread) == [Provisioned(Resource(attrs \ unread, unread,
  ClusterCreate(attrs), ClusterUpdate(attrs), ClusterDelete(attrs))) EXCEPT !.slow = {"version"}]
K8sCluster == Cluster({"version", "initial_pool", "ip"}, {"initial_pool"})
ClusterEndpoint == Cluster({"version", "internal_ip", "settings"}, {"internal_ip"})

\* Node pools are neither waited for nor polled until they are gone.
K8sNodePool == Background(Resource({"settings"}, {},
  Posted({"settings"}), Patched({"settings"}), Deleted({"settings"})))

-----------------------------------------------------------------------------
(* Databases and registries.                                               *)

DatabaseCreate == Any({"settings"}, {Saving(Post({"settings"})) \o Saving(Wait)})
DatabaseDelete == DeletedGone({"settings"})
MySQL == Provisioned(Resource({"settings"}, {}, DatabaseCreate, Never, DatabaseDelete))

FerretDBCreate == Any({"settings"}, {Saving(Post({"settings"})) \o Saving(Wait)})
FerretDB == Provisioned(Resource({"settings"}, {}, FerretDBCreate, Never, DeletedGone({"settings"})))

ValkeyCreate == Any({"settings"}, {Saving(Post({"settings"})) \o Saving(Wait)})
Valkey == Provisioned(Resource({"settings"}, {}, ValkeyCreate, Never, DeletedGone({"settings"})))

\* Extensions are set once the instance is up.  A refusal, or a wait that does
\* not end, is an error, but what the platform reports is recorded all the same.
PostgresAttrs == {"settings", "extensions"}
ApplyExtensions == Write({"extensions"}) \o Wait

PostgresCreate == [c \in SUBSET PostgresAttrs |->
  LET up == Saving(Post({"settings"})) \o Wait
  IN  {IF "extensions" \in c THEN up \o Saving(OrRecord(ApplyExtensions)) ELSE Saving(up)}]

\* Only the extensions change in place; anything else is refused without a call.
\* Those that an earlier apply left pending are waited for again.
PostgresUpdate == [c \in SUBSET PostgresAttrs |->
  CASE c = {} -> {Saving(Wait)}
    [] c = {"extensions"} -> {Saving(ApplyExtensions)}
    [] OTHER -> {Refuse}]

PostgresDelete == DeletedGone(PostgresAttrs)
Postgres == [Provisioned(Resource(PostgresAttrs, {},
  PostgresCreate, PostgresUpdate, PostgresDelete)) EXCEPT !.slow = {"extensions"}]

RegistryAttrs == {"storage", "settings"}
RegistryCreate == Any(RegistryAttrs, {Saving(Post(RegistryAttrs)) \o Saving(Wait)})

\* The disk first, then one PATCH, then what the platform has.
RegistryUpdate == [c \in Some(RegistryAttrs) |->
  {When("storage" \in c, Write({"storage"})) \o When("settings" \in c, Write({"settings"}))
   \o Saving(Get)}]

RegistryDelete == DeletedGone(RegistryAttrs)
Registry == Provisioned(Resource(RegistryAttrs, {},
  RegistryCreate, RegistryUpdate, RegistryDelete))

-----------------------------------------------------------------------------
(* Object storage and domains.                                             *)

BucketAttrs == {"public", "cors"}

\* CORS rules that the platform refuses are a warning; the state then has none.
\* Buckets without rules in their configuration are never asked for any.
BucketCreate == [c \in SUBSET BucketAttrs |->
  LET up == Saving(Post({"public"})) \o Wait \o Get
  IN  {Saving(up \o When("cors" \in c, OrWarn(Write({"cors"}))))}]

\* A rule for every origin needs a public bucket, so visibility changes last when
\* the bucket becomes private and first otherwise.
BucketUpdate == [c \in Some(BucketAttrs) |->
  LET visibility == When("public" \in c, Write({"public"}))
      cors == When("cors" \in c, Write({"cors"}))
  IN  {IfUnset("public", cors) \o visibility \o IfSet("public", cors) \o Saving(Get)}]

BucketDelete == Any(BucketAttrs, {Delete \o OrWarn(Gone)})
ObjectBucket == [Provisioned(Resource(BucketAttrs, {},
  BucketCreate, BucketUpdate, BucketDelete)) EXCEPT !.optional = {"cors"}]

\* Proof of ownership and propagation are waited for if asked; whatever comes of
\* it, the zone is recorded.
SettleZone == Saving(OrRecord(Wait))
ZoneCreate == Any({"tier"}, {Post({"tier"}) \o SettleZone, Saving(Post({"tier"}))})

\* Nothing but the wish to wait changes in place.
ZoneUpdate == [c \in {{}} |-> {Get \o SettleZone, Saving(Get)}]
ZoneDelete == DeletedGone({"tier"})
DNSZone == Background(Resource({"tier"}, {}, ZoneCreate, ZoneUpdate, ZoneDelete))

DomainCreate == Any({"name"}, {Post({"name"}) \o Saving(OrRecord(p)) : p \in {Wait, Get}})

\* A failed proof is followed by a GET, which may fail as well.
DomainUpdate == [c \in {{}} |-> {Saving(OrRecord(Wait)), Saving(Wait), Saving(Get)}]
DomainDelete == DeletedGone({"name"})
EmailDomain == Background(Resource({"name"}, {}, DomainCreate, DomainUpdate, DomainDelete))
=============================================================================
