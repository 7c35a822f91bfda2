---------------------------- MODULE DirectHandlers ----------------------------
(***************************************************************************)
(* The handlers of the resources whose calls take effect at once, as       *)
(* programs of HandlerSteps.  Attributes that a handler treats alike are   *)
(* one attribute here; "settings" change in place, a change of any other   *)
(* replaces the object unless an update program says otherwise.            *)
(***************************************************************************)
EXTENDS HandlerSteps

\* One call each: create, update in place and delete.
Plain == Resource({"settings"}, {},
  Posted({"settings"}), Patched({"settings"}), Deleted({"settings"}))

\* One call each, and every change replaces the object.
Immutable == Resource({"settings"}, {},
  Posted({"settings"}), Never, Deleted({"settings"}))

\* The update reads the object back after its PATCH.
ReadBack == Resource({"settings"}, {}, Posted({"settings"}),
  [c \in Some({"settings"}) |-> {Write(c) \o Saving(Get)}], Deleted({"settings"}))

-----------------------------------------------------------------------------
(* Network.                                                                *)

FirewallRule == Plain
IPReservation == Immutable
VNetPeering == Immutable
VPCPeering == Immutable
VPNPeer == Immutable
TargetGroup == Plain
TargetGroupMember == Plain

\* The policy of a gateway is one document: create and update put it, delete
\* puts an empty one.
VPNPolicy == Plain

DNSRecord == Plain

-----------------------------------------------------------------------------
(* Mail.                                                                   *)

MailboxAttrs == {"settings", "forwarding", "password"}

\* Forwarding has no place in the POST.  The state is written after the last
\* call only.
MailboxCreate == [c \in SUBSET MailboxAttrs |->
  {Post({"settings", "password"}) \o When("forwarding" \in c, Write({"forwarding"}))
   \o Saving(Get)}]

\* The password is reset by a call of its own; the PATCH always goes out.
MailboxUpdate == [c \in Some(MailboxAttrs) |->
  {When("password" \in c, Write({"password"})) \o Write({"settings", "forwarding"})
   \o Saving(Get)}]

EmailAccount == [Resource({"settings", "forwarding"}, {"password"},
  MailboxCreate, MailboxUpdate, Deleted(MailboxAttrs)) EXCEPT !.required = {"password"}]

EmailAlias == Plain

-----------------------------------------------------------------------------
(* Credentials and access.                                                 *)

SSHKey == Immutable
APIKey == Immutable
ObjectStorageKey == Immutable
RegistryUser == Immutable
RoleAssignment == Immutable
BucketKey == Plain
RegistryACL == Plain
Organization == Plain
OrgMember == Plain
ServiceAccount == ReadBack
Role == ReadBack

\* Data are rotated before the metadata are patched.  No GET shows them.
SecretUpdate == [c \in Some({"metadata", "data"}) |->
  {When("data" \in c, Write({"data"})) \o When("metadata" \in c, Write({"metadata"}))
   \o Saving(Get)}]

Secret == [Resource({"metadata"}, {"data"},
  Posted({"metadata", "data"}), SecretUpdate, Deleted({"metadata", "data"}))
    EXCEPT !.required = {"data"}]

-----------------------------------------------------------------------------
(* Compute and schedules.                                                  *)

\* The root password is never shown again, and every change of it replaces the
\* scale set.  The update writes a state without it.
ScaleSetAttrs == {"settings", "root_password"}
ContainerScaleSetUpdate == [c \in {{"settings"}} |-> {Forgetting(Write({"settings"}))}]
ContainerScaleSet == [Resource({"settings"}, {"root_password"},
  Posted(ScaleSetAttrs), ContainerScaleSetUpdate, Deleted(ScaleSetAttrs))
    EXCEPT !.required = {"root_password"}]

VMScaleSetUpdate == [c \in {{"settings"}} |-> {Forgetting(Write({"settings"}))}]
VMScaleSet == [Resource({"settings"}, {"root_password"},
  Posted(ScaleSetAttrs), VMScaleSetUpdate, Deleted(ScaleSetAttrs))
    EXCEPT !.required = {"root_password"}]

CustomTemplate == Plain

\* A platform without validity periods ignores them: the schedule that it made is
\* removed again, and its creation fails either way.
ScheduleAttrs == {"settings", "period"}
ScheduleCreate == [c \in SUBSET ScheduleAttrs |->
  {Saving(Post(ScheduleAttrs))} \union
  IF "period" \in c THEN {Post({"settings"}) \o OrWarn(Delete) \o Refuse} ELSE {}]

\* A platform that ignores the period applies the rest of the PATCH.  "enabled",
\* which an ended schedule keeps as configured, is not among the settings here.
ScheduleUpdate == [c \in Some(ScheduleAttrs) |->
  {Saving(Write(c))} \union
  IF "period" \in c THEN {Write(c \ {"period"}) \o Refuse} ELSE {}]

Schedule == Resource(ScheduleAttrs, {},
  ScheduleCreate, ScheduleUpdate, Deleted(ScheduleAttrs))

-----------------------------------------------------------------------------
(* Billing and support.                                                    *)

Budget == Plain
SupportSubscription == Plain

\* A commitment can only be cancelled; an update just reads it.
Commit == Resource({"settings"}, {},
  Posted({"settings"}), [c \in {{}} |-> {Saving(Get)}], Deleted({"settings"}))

\* Requests and tickets cannot be deleted: the state lets go of them.
QuotaRequest == Resource({"settings"}, {},
  Posted({"settings"}), Never, Any({"settings"}, {LetGo}))
SupportTicket == Resource({"settings"}, {},
  Posted({"settings"}), Never, Any({"settings"}, {LetGo}))
=============================================================================
