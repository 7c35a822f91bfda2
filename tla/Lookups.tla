------------------------------- MODULE Lookups -------------------------------
(* How the provider finds an object: the GETs the client builds from a list   *)
(* because the API has no single-object endpoint, and the Read of every data  *)
(* source.  Nothing here keeps state; each operator is one call.              *)
(*                                                                            *)
(* What the API answers to the call is a record `api`:                        *)
(*   api.up     is the list answered?   api.list  the sequence it holds       *)
(*   api.get    for every id, Found(object) or No("failed")                   *)
(*   api.below  for every id, such a record for the lists below that object   *)
(* The configuration of a data source is a record `cfg` of its arguments; an  *)
(* argument that is null, unknown or empty is Null.                        *)
EXTENDS Integers, Sequences

Null == ""      \* also a nil pointer in an object

Found(x) == [found |-> TRUE, item |-> x]
No(why) == [found |-> FALSE, why |-> why]

Matches(x, want) == \A f \in DOMAIN want : x[f] = want[f]
Hits(list, want) == {i \in DOMAIN list : Matches(list[i], want)}
Least(S) == CHOOSE i \in S : \A j \in S : i <= j

\* A scan that returns at the first match ...
First(list, want) ==
  IF Hits(list, want) = {} THEN No("missing") ELSE Found(list[Least(Hits(list, want))])

\* ... and one that collects the matches and refuses to choose.
Only(list, want) ==
  IF \E i, j \in Hits(list, want) : i # j THEN No("ambiguous") ELSE First(list, want)

ListedFirst(api, want) == IF api.up THEN First(api.list, want) ELSE No("failed")
ListedOnly(api, want) == IF api.up THEN Only(api.list, want) ELSE No("failed")

-----------------------------------------------------------------------------
(* The client's list-and-filter getters (client/*.go).  "missing" is the 404  *)
(* they synthesise.                                                           *)

GetById(api, id) == ListedFirst(api, [id |-> id])

GetSSHKey(api, id) == GetById(api, id)
GetVPNPeer(api, id) == GetById(api, id)
GetVNet(api, id) == GetById(api, id)
GetPublicIP(api, id) == GetById(api, id)
GetContainerSnapshot(api, id) == GetById(api, id)
GetVmSnapshot(api, id) == GetById(api, id)
GetVnetIpReservation(api, id) == GetById(api, id)
GetVnetFirewallRule(api, id) == GetById(api, id)
GetAppGWListener(api, id) == GetById(api, id)
GetAppGWTargetGroup(api, id) == GetById(api, id)
GetAppGWTargetGroupMember(api, id) == GetById(api, id)
GetAppGWRoute(api, id) == GetById(api, id)
GetDNSRecordSet(api, id) == GetById(api, id)
GetRoleAssignment(api, id) == GetById(api, id)
GetBudget(api, id) == GetById(api, id)
GetCommit(api, id) == GetById(api, id)

FindDNSRecordSet(api, fqdn, type) == ListedFirst(api, [name |-> fqdn, type |-> type])
GetSecretByName(api, name) == ListedFirst(api, [name |-> name])
GetScheduleByName(api, name) == ListedFirst(api, [name |-> name])
GetRoleByName(api, name, builtIn) ==
  IF builtIn = Null THEN ListedFirst(api, [name |-> name])
  ELSE ListedFirst(api, [name |-> name, built_in |-> builtIn])

\* The public IP attached to a resource, or none, which is no error.
FindPublicIPByResource(api, ref, id) ==
  IF ref \in {"container_id", "vm_instance_id", "load_balancer_id"}
  THEN ListedFirst(api, [field \in {ref} |-> id])
  ELSE IF api.up THEN No("missing") ELSE No("failed")

\* A VNet without its VPC: every VPC's list is tried, one that fails is passed
\* over, and the first VPC that holds the VNet wins.
Holding(api, id) ==
  {v \in DOMAIN api.list : GetVNet(api.below[api.list[v].id], id).found}
FindVNetByID(api, id) ==
  IF id = Null THEN No("refused")
  ELSE IF ~api.up THEN No("failed")
  ELSE IF Holding(api, id) = {} THEN No("missing")
  ELSE GetVNet(api.below[api.list[Least(Holding(api, id))].id], id)

\* The plan-time notice about a start script in an isolated VNet.
CheckVnetSnat(api, id) ==
  LET vnet == FindVNetByID(api, id) IN vnet.found /\ ~vnet.item.snat

-----------------------------------------------------------------------------
(* Data sources.                                                              *)

Asked(cfg, f) == cfg[f] # Null

\* Either the id alone or all of `fields`.
WellAsked(cfg, fields) ==
  IF Asked(cfg, "id") THEN \A f \in fields : ~Asked(cfg, f)
  ELSE \A f \in fields : Asked(cfg, f)

Wanted(cfg, fields) == [f \in fields |-> cfg[f]]
Choose(cfg, fields, byId, byFields) ==
  IF ~WellAsked(cfg, fields) THEN No("refused")
  ELSE IF Asked(cfg, "id") THEN byId ELSE byFields

\* By id with a GET, or by a name that only one object may have.
Unique(cfg, fields, api) ==
  Choose(cfg, fields, api.get[cfg.id], ListedOnly(api, Wanted(cfg, fields)))

ReadBlockVolume(cfg, api) == Unique(cfg, {"name", "region"}, api)
ReadContainer(cfg, api) == Unique(cfg, {"name", "region"}, api)
ReadVMInstance(cfg, api) == Unique(cfg, {"name", "region"}, api)
ReadK8sCluster(cfg, api) == Unique(cfg, {"name", "region"}, api)
ReadLoadBalancer(cfg, api) == Unique(cfg, {"name", "region"}, api)
ReadObjectBucket(cfg, api) == Unique(cfg, {"name", "region"}, api)
ReadVPC(cfg, api) == Unique(cfg, {"name", "region"}, api)
ReadK8sNodePool(cfg, api) == Unique(cfg, {"name"}, api)
ReadCustomTemplate(cfg, api) == Unique(cfg, {"name"}, api)
ReadMySQL(cfg, api) == Unique(cfg, {"name"}, api)
ReadFerretDB(cfg, api) == Unique(cfg, {"name"}, api)
ReadPostgres(cfg, api) == Unique(cfg, {"name"}, api)
ReadValkey(cfg, api) == Unique(cfg, {"name"}, api)
ReadServiceAccount(cfg, api) == Unique(cfg, {"name"}, api)

\* Where the API has no GET, the id is looked for in the same list.
UniqueListed(cfg, fields, api) ==
  Choose(cfg, fields, GetById(api, cfg.id), ListedOnly(api, Wanted(cfg, fields)))

ReadVNet(cfg, api) == UniqueListed(cfg, {"name"}, api)
ReadContainerSnapshot(cfg, api) == UniqueListed(cfg, {"name"}, api)
ReadVmSnapshot(cfg, api) == UniqueListed(cfg, {"name"}, api)
ReadVnetIpReservation(cfg, api) == UniqueListed(cfg, {"name"}, api)
ReadSSHKey(cfg, api) == UniqueListed(cfg, {"name"}, api)

\* Lists carry no members: a scale set found in one is read again; if that
\* fails, what was found is returned without them and a warning.
WithMembers(result, api) ==
  IF result.found /\ result.item.members = Null /\ api.get[result.item.id].found
  THEN api.get[result.item.id] ELSE result
ReadContainerScaleSet(cfg, api) == WithMembers(Unique(cfg, {"name", "region"}, api), api)
ReadVMScaleSet(cfg, api) == WithMembers(Unique(cfg, {"name", "region"}, api), api)

\* The first match is taken, and its detail read.
Detail(result, api) == IF result.found THEN api.get[result.item.id] ELSE result
ReadDNSZone(cfg, api) ==
  Choose(cfg, {"name"}, api.get[cfg.id], Detail(ListedFirst(api, [name |-> cfg.name]), api))
ReadEmailDomain(cfg, api) ==
  Choose(cfg, {"name"}, api.get[cfg.id], Detail(ListedFirst(api, [name |-> cfg.name]), api))

\* Its list is asked for one region and not filtered by region again.
ReadApplicationGateway(cfg, api) ==
  Choose(cfg, {"name", "region"}, api.get[cfg.id],
         Detail(ListedFirst(api, [name |-> cfg.name]), api))

ReadRegistry(cfg, api) ==
  Choose(cfg, {"name", "region"}, api.get[cfg.id],
         ListedFirst(api, Wanted(cfg, {"name", "region"})))
ReadSecret(cfg, api) ==
  Choose(cfg, {"name"}, api.get[cfg.id], GetSecretByName(api, cfg.name))
ReadSchedule(cfg, api) ==
  Choose(cfg, {"name"}, api.get[cfg.id], GetScheduleByName(api, cfg.name))
ReadRole(cfg, api) ==
  Choose(cfg, {"name"}, api.get[cfg.id], GetRoleByName(api, cfg.name, cfg.built_in))

ReadRegistryACL(cfg, api) == ListedFirst(api, [id |-> cfg.id])
ReadRegistryUser(cfg, api) == ListedFirst(api, [username |-> cfg.username])

\* Exactly one of id, address and label; only labels may be shared.
ReadPublicIP(cfg, api) ==
  LET asked == {f \in {"id", "ip_address", "label"} : Asked(cfg, f)} IN
  IF ~\E f \in asked : asked = {f} THEN No("refused")
  ELSE IF asked = {"label"} THEN ListedOnly(api, [label |-> cfg.label])
  ELSE ListedFirst(api, Wanted(cfg, asked))

\* By id only.
ReadAPIKey(cfg, api) == api.get[cfg.id]
ReadObjectStorageKey(cfg, api) == api.get[cfg.id]
ReadVnetPeering(cfg, api) == api.get[cfg.id]
ReadSupportPlan(cfg, api) == api.get[cfg.key]
ReadVnetFirewallRule(cfg, api) == GetVnetFirewallRule(api, cfg.id)
ReadDbCredentials(cfg, api) ==
  IF Asked(cfg, "id") THEN api.get[cfg.id] ELSE No("refused")
DefaultVersion == 16
ReadPgExtensions(cfg, api) ==
  api.get[IF Asked(cfg, "version") THEN cfg.version ELSE DefaultVersion]

-----------------------------------------------------------------------------
(* Data sources that return a whole list, in the order of the API, or fail.   *)

Whole(api) == IF api.up THEN Found(api.list) ELSE No("failed")

ReadRegions(api) == Whole(api)
ReadOrganizations(api) == Whole(api)
ReadContainerTemplates(api) == Whole(api)
ReadVMTemplates(api) == Whole(api)
ReadK8sTemplates(api) == Whole(api)
ReadAcmeDNSProviders(api) == Whole(api)
ReadPromoCodes(api) == Whole(api)
ReadEmailDomains(api) == Whole(api)

\* Below the engine, zone or domain of the configuration.
ReadDbPlans(cfg, api) == Whole(api.below[cfg.engine])
ReadDbEngineVersions(cfg, api) == Whole(api.below[cfg.engine])
ReadDNSRecords(cfg, api) == Whole(api.below[cfg.zone_id])
ReadEmailAccounts(cfg, api) == Whole(api.below[cfg.domain_id])
ReadEmailAliases(cfg, api) == Whole(api.below[cfg.domain_id])

\* Tariffs are filtered here; a gateway or balancer tariff of an older
\* platform, which has no replica count, is one for two replicas.
TariffReplicas(p) ==
  IF p.replicas = Null /\ p.type \in {"appgw", "load_balancer"} THEN 2 ELSE p.replicas
Priced(cfg, p) ==
  /\ Asked(cfg, "type") => p.type = cfg.type
  /\ Asked(cfg, "plan") => p.plan = cfg.plan
  /\ Asked(cfg, "replicas") => TariffReplicas(p) = cfg.replicas
ReadPricing(cfg, api) ==
  IF api.up THEN Found(SelectSeq(api.list, LAMBDA p : Priced(cfg, p))) ELSE No("failed")
=============================================================================
