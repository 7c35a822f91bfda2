------------------------------- MODULE VpcVnet -------------------------------
(***************************************************************************)
(* A VPC and its VNets: the handlers of ccp_vpc and ccp_vnet              *)
(* (internal/resources/vpc, internal/resources/vnet) over the platform     *)
(* that provisions and tears down in the background.  Terraform runs the   *)
(* VPC's create before any VNet's and its destroy after all of theirs; the *)
(* VNets are handled concurrently.  A handler step is one HTTP call and    *)
(* the code up to the next one; a poll's deadline may come after any call. *)
(***************************************************************************)
EXTENDS Naturals

CONSTANTS
  Vpc, VNets,
  KnowsEgress,   \* does the platform record dedicated_egress_ip?
  MaxOps,        \* bound: handler calls started
  MaxExternal    \* bound: outside events and failing teardowns

R == {Vpc} \union VNets

ASSUME VpcVnetAssumption ==
  /\ Vpc \notin VNets /\ KnowsEgress \in BOOLEAN
  /\ MaxOps \in Nat /\ MaxExternal \in Nat

VARIABLES
  status,    \* platform status of each object, or "absent"
  option,    \* dedicated_egress_ip of the VPC, isolated of a VNet
  attached,  \* VNets with containers, VMs or load balancers on them
  doomed,    \* history: objects whose DELETE was accepted
  lost,      \* history: objects whose creation was never answered
  pc, op, want,
  rename,    \* does this VNet update also change name or snat?
  conflict,  \* lastConflict of the VPC's delete
  outcome,   \* what the last handler call reported
  tf,        \* Terraform state
  ops, ext

platform == <<status, option, attached, doomed>>
vars == <<platform, lost, pc, op, want, rename, conflict, outcome, tf, ops, ext>>

Statuses == {"absent", "creating", "active", "error", "deleting"}
Steps == {"idle", "post", "poll", "refetch", "isolate", "toggle", "patch",
          "read", "delete", "gone"}
Errors == {"failed", "conflict", "fatal"}
NoState == [there |-> FALSE, tainted |-> FALSE, option |-> FALSE]

TypeOK ==
  /\ status \in [R -> Statuses] /\ option \in [R -> BOOLEAN]
  /\ attached \subseteq VNets /\ doomed \subseteq R /\ lost \subseteq R
  /\ pc \in [R -> Steps] /\ op \in [R -> {"none", "create", "update", "delete"}]
  /\ want \in [R -> BOOLEAN] /\ rename \in [R -> BOOLEAN]
  /\ conflict \in BOOLEAN
  /\ outcome \in [R -> {"none", "ok", "warned"} \union Errors]
  /\ tf \in [R -> [there : BOOLEAN, tainted : BOOLEAN, option : BOOLEAN]]
  /\ ops \in 0..MaxOps /\ ext \in 0..MaxExternal

Init ==
  /\ status = [r \in R |-> "absent"] /\ option = [r \in R |-> FALSE]
  /\ attached = {} /\ doomed = {} /\ lost = {}
  /\ pc = [r \in R |-> "idle"] /\ op = [r \in R |-> "none"]
  /\ want = [r \in R |-> FALSE] /\ rename = [r \in R |-> FALSE]
  /\ conflict = FALSE
  /\ outcome = [r \in R |-> "none"]
  /\ tf = [r \in R |-> NoState]
  /\ ops = MaxOps /\ ext = MaxExternal

Exists(r) == status[r] # "absent"

-----------------------------------------------------------------------------
(* Starting and ending a handler.                                          *)

\* Terraform's order: a VNet is handled while its VPC is in state and idle,
\* the VPC while no VNet is being handled.
Ready(r) ==
  /\ pc[r] = "idle" /\ ops > 0
  /\ IF r = Vpc THEN \A n \in VNets : pc[n] = "idle" ELSE pc[Vpc] = "idle"

Begin(r, step, o, w, named) ==
  /\ Ready(r)
  /\ ops' = ops - 1
  /\ pc' = [pc EXCEPT ![r] = step] /\ op' = [op EXCEPT ![r] = o]
  /\ want' = [want EXCEPT ![r] = w] /\ rename' = [rename EXCEPT ![r] = named]
  /\ outcome' = [outcome EXCEPT ![r] = "none"]
  /\ conflict' = (r # Vpc /\ conflict)
  /\ UNCHANGED <<platform, lost, tf, ext>>

Finish(r, result) ==
  /\ pc' = [pc EXCEPT ![r] = "idle"] /\ op' = [op EXCEPT ![r] = "none"]
  /\ want' = [want EXCEPT ![r] = FALSE] /\ rename' = [rename EXCEPT ![r] = FALSE]
  /\ outcome' = [outcome EXCEPT ![r] = result]

Goto(r, step) ==
  /\ pc' = [pc EXCEPT ![r] = step]
  /\ UNCHANGED <<op, want, rename, outcome>>

Save(r, opt, tainted) ==
  tf' = [tf EXCEPT ![r] = [there |-> TRUE, tainted |-> tainted, option |-> opt]]
Forget(r) == tf' = [tf EXCEPT ![r] = NoState]

StartCreate(r, w) ==
  /\ ~tf[r].there /\ ~Exists(r)
  /\ r \in VNets => tf[Vpc].there /\ ~tf[Vpc].tainted
  /\ Begin(r, "post", "create", w, FALSE)

\* Terraform refreshes an object before it plans an update of it.
Refreshed(r) == tf[r].there /\ ~tf[r].tainted /\ tf[r].option = option[r]

\* buildVPCUpdate: the VPC is only patched when the option changes.
StartUpdateVpc(w) ==
  /\ Refreshed(Vpc)
  /\ Begin(Vpc, IF w = tf[Vpc].option THEN "read" ELSE "patch", "update", w, FALSE)

\* A VNet's isolation is toggled first, and only when it changes.
StartUpdateVNet(n, w, named) ==
  /\ Refreshed(n)
  /\ Begin(n, IF w # tf[n].option THEN "toggle"
              ELSE IF named THEN "patch" ELSE "read", "update", w, named)

StartDelete(r) ==
  /\ tf[r].there
  /\ r = Vpc => \A n \in VNets : ~tf[n].there
  /\ Begin(r, "delete", "delete", FALSE, FALSE)

Refresh(r) ==
  /\ Ready(r) /\ tf[r].there
  /\ IF Exists(r) THEN Save(r, option[r], tf[r].tainted) ELSE Forget(r)
  /\ outcome' = [outcome EXCEPT ![r] = "none"]
  /\ UNCHANGED <<platform, lost, pc, op, want, rename, conflict, ops, ext>>

-----------------------------------------------------------------------------
(* Create.                                                                 *)

\* The POST is refused or cannot be sent; nothing was created.
PostFails(r) ==
  /\ pc[r] = "post" /\ Finish(r, "failed")
  /\ UNCHANGED <<platform, lost, conflict, tf, ops, ext>>

\* What the platform makes of an accepted POST; a VNet is never born isolated.
Born(r, s) ==
  /\ pc[r] = "post" /\ ~Exists(r) /\ (r \in VNets => status[Vpc] = "active")
  /\ status' = [status EXCEPT ![r] = s]
  /\ option' = [option EXCEPT ![r] = r = Vpc /\ want[r] /\ KnowsEgress]
  /\ doomed' = doomed \ {r}
  /\ UNCHANGED attached

PostLost(r) ==
  /\ Born(r, "creating") /\ Finish(r, "failed")
  /\ lost' = lost \union {r}
  /\ UNCHANGED <<conflict, tf, ops, ext>>

\* Mutated form of Provisioned: the isolation intent is read after the plan
\* was overwritten with the platform's record.
ProvisionedLateIntent(r, opt) ==
  Save(r, opt, r = Vpc /\ want[r] /\ ~opt)
  /\ Finish(r, IF r = Vpc /\ want[r] /\ ~opt THEN "failed" ELSE "ok")

\* The last part of Create, from the record the platform returned: the VPC's
\* option must have been recorded, the VNet's isolation may still be asked for.
Provisioned(r, opt) ==
  \/ /\ r = Vpc /\ Save(r, opt, want[r] /\ ~opt)
     /\ Finish(r, IF want[r] /\ ~opt THEN "failed" ELSE "ok")
  \/ r \in VNets /\ want[r] /\ ~opt /\ Save(r, opt, TRUE) /\ Goto(r, "isolate")
  \/ r \in VNets /\ ~(want[r] /\ ~opt) /\ Save(r, opt, FALSE) /\ Finish(r, "ok")

\* The POST is answered: the state is written, then the status looked at.
PostActive(r) ==
  /\ Born(r, "active") /\ Provisioned(r, option'[r])
  /\ lost' = lost \ {r}
  /\ UNCHANGED <<conflict, ops, ext>>

PostPending(r) ==
  /\ \E s \in {"creating", "error"} :
       /\ Born(r, s)
       /\ IF s = "error" THEN Finish(r, "failed") ELSE Goto(r, "poll")
  /\ Save(r, option'[r], TRUE)
  /\ lost' = lost \ {r}
  /\ UNCHANGED <<conflict, ops, ext>>

PollActive(r) ==
  /\ pc[r] = "poll" /\ status[r] = "active" /\ Goto(r, "refetch")
  /\ UNCHANGED <<platform, lost, conflict, tf, ops, ext>>

\* Mutated form of PollFails: a failed GET is polled again, deadline or not.
PollFailsRetries(r) ==
  /\ pc[r] \in {"poll", "refetch"} /\ Goto(r, pc[r])
  /\ UNCHANGED <<platform, lost, conflict, tf, ops, ext>>

\* A GET fails, the object is in error or missing, or the deadline passes.
PollFails(r) ==
  /\ pc[r] \in {"poll", "refetch"} /\ Finish(r, "failed")
  /\ UNCHANGED <<platform, lost, conflict, tf, ops, ext>>

Refetch(r) ==
  /\ pc[r] = "refetch" /\ Exists(r) /\ Provisioned(r, option[r])
  /\ UNCHANGED <<platform, lost, conflict, ops, ext>>

-----------------------------------------------------------------------------
(* Isolation and the updates.                                              *)

\* PUT firewall/isolation: the last call of a create, the first of an update.
SetIsolation(n) ==
  /\ pc[n] \in {"isolate", "toggle"} /\ Exists(n)
  /\ option' = [option EXCEPT ![n] = want[n]]
  /\ IF pc[n] = "isolate"
     THEN Save(n, TRUE, FALSE) /\ Finish(n, "ok")
     ELSE Goto(n, IF rename[n] THEN "patch" ELSE "read") /\ UNCHANGED tf
  /\ UNCHANGED <<status, attached, doomed, lost, conflict, ops, ext>>

\* The call fails, possibly after it took effect.
WriteFails(r) ==
  /\ pc[r] \in {"isolate", "toggle", "patch", "read"} /\ Finish(r, "failed")
  /\ option' \in {option} \union
       (IF Exists(r) /\ (pc[r] \in {"isolate", "toggle"} \/ (r = Vpc /\ pc[r] = "patch" /\ KnowsEgress))
        THEN {[option EXCEPT ![r] = want[r]]} ELSE {})
  /\ UNCHANGED <<status, attached, doomed, lost, conflict, tf, ops, ext>>

\* Mutated form of PatchVpc: the answer is not compared with the plan.
PatchVpcUnchecked ==
  /\ pc[Vpc] = "patch" /\ Exists(Vpc)
  /\ option' = [option EXCEPT ![Vpc] = IF KnowsEgress THEN want[Vpc] ELSE @]
  /\ Save(Vpc, option'[Vpc], FALSE) /\ Finish(Vpc, "ok")
  /\ UNCHANGED <<status, attached, doomed, lost, conflict, ops, ext>>

\* The VPC's PATCH: a platform that ignores the option is reported, and the
\* state keeps what it had.
PatchVpc ==
  /\ pc[Vpc] = "patch" /\ Exists(Vpc)
  /\ option' = [option EXCEPT ![Vpc] = IF KnowsEgress THEN want[Vpc] ELSE @]
  /\ IF option'[Vpc] = want[Vpc]
     THEN Save(Vpc, want[Vpc], FALSE) /\ Finish(Vpc, "ok")
     ELSE UNCHANGED tf /\ Finish(Vpc, "failed")
  /\ UNCHANGED <<status, attached, doomed, lost, conflict, ops, ext>>

PatchVNet(n) ==
  /\ pc[n] = "patch" /\ Exists(n) /\ Goto(n, "read")
  /\ UNCHANGED <<platform, lost, conflict, tf, ops, ext>>

\* The GET that ends an update.
ReadBack(r) ==
  /\ pc[r] = "read" /\ Exists(r)
  /\ Save(r, option[r], FALSE) /\ Finish(r, "ok")
  /\ UNCHANGED <<platform, lost, conflict, ops, ext>>

-----------------------------------------------------------------------------
(* Delete.                                                                 *)

Contains(r) == IF r = Vpc THEN \E n \in VNets : Exists(n) ELSE r \in attached
Accepted(r) == Exists(r) /\ ~Contains(r)
Accept(r) ==
  /\ status' = [status EXCEPT ![r] = "deleting"]
  /\ doomed' = doomed \union {r}
  /\ UNCHANGED <<option, attached>>

DeleteAccepted(r) ==
  /\ pc[r] = "delete" /\ Accepted(r) /\ Accept(r) /\ Goto(r, "gone")
  /\ UNCHANGED <<lost, conflict, tf, ops, ext>>

\* 404: the VNet's delete ends here, the VPC's goes through its poll.
DeleteMissing(r) ==
  /\ pc[r] = "delete" /\ ~Exists(r)
  /\ IF r = Vpc THEN Goto(r, "gone") /\ UNCHANGED tf
     ELSE Forget(r) /\ Finish(r, "ok")
  /\ UNCHANGED <<platform, lost, conflict, ops, ext>>

\* 409: final for a VNet, retried for the VPC until its budget is spent.
DeleteVNetConflict(n) ==
  /\ n \in VNets /\ pc[n] = "delete" /\ Exists(n) /\ Contains(n)
  /\ Finish(n, "conflict")
  /\ UNCHANGED <<platform, lost, conflict, tf, ops, ext>>

DeleteVpcConflict ==
  /\ pc[Vpc] = "delete" /\ Exists(Vpc) /\ Contains(Vpc)
  /\ conflict' = TRUE
  /\ UNCHANGED <<platform, lost, pc, op, want, rename, outcome, tf, ops, ext>>

\* Mutated form of DeleteBudgetSpent: exhausting the retries only warns.
DeleteBudgetForgets ==
  /\ pc[Vpc] = "delete" /\ conflict
  /\ Forget(Vpc) /\ Finish(Vpc, "warned")
  /\ UNCHANGED <<platform, lost, conflict, ops, ext>>

DeleteBudgetSpent ==
  /\ pc[Vpc] = "delete" /\ conflict
  /\ Finish(Vpc, "conflict")
  /\ UNCHANGED <<platform, lost, conflict, tf, ops, ext>>

\* Any other error ends the delete.  The VPC's diagnostic prefers the last
\* conflict the loop saw.  The DELETE may have been accepted all the same.
DeleteFatal(r) ==
  /\ pc[r] = "delete"
  /\ Finish(r, IF r = Vpc /\ conflict THEN "conflict" ELSE "fatal")
  /\ UNCHANGED platform \/ (Accepted(r) /\ Accept(r))
  /\ UNCHANGED <<lost, conflict, tf, ops, ext>>

\* The poll after an accepted DELETE: it sees the 404, or it fails or times
\* out, which is only a warning.  Either way the state forgets the object.
GoneSeen(r) ==
  /\ pc[r] = "gone" /\ ~Exists(r) /\ Forget(r) /\ Finish(r, "ok")
  /\ UNCHANGED <<platform, lost, conflict, ops, ext>>

GoneTimeout(r) ==
  /\ pc[r] = "gone" /\ Forget(r) /\ Finish(r, "warned")
  /\ UNCHANGED <<platform, lost, conflict, ops, ext>>

-----------------------------------------------------------------------------
(* The platform and other clients.                                         *)

Own == UNCHANGED <<lost, pc, op, want, rename, conflict, outcome, tf, ops>>

Settle(r) ==
  /\ status[r] = "creating"
  /\ \E s \in {"active", "error"} : status' = [status EXCEPT ![r] = s]
  /\ Own /\ UNCHANGED <<option, attached, doomed, ext>>

Vanish(r) ==
  /\ status[r] = "deleting"
  /\ status' = [status EXCEPT ![r] = "absent"]
  /\ option' = [option EXCEPT ![r] = FALSE]
  /\ Own /\ UNCHANGED <<attached, doomed, ext>>

Outside == ext > 0 /\ ext' = ext - 1 /\ Own

TeardownFails(r) ==
  /\ Outside /\ status[r] = "deleting"
  /\ status' = [status EXCEPT ![r] = "error"]
  /\ UNCHANGED <<option, attached, doomed>>

Attach(n) ==
  /\ Outside /\ status[n] = "active"
  /\ attached' = attached \union {n} /\ UNCHANGED <<status, option, doomed>>

Detach(n) ==
  /\ n \in attached /\ attached' = attached \ {n}
  /\ Own /\ UNCHANGED <<status, option, doomed, ext>>

OutsideDelete(r) == Outside /\ Accepted(r) /\ Accept(r)

-----------------------------------------------------------------------------

Start(r) ==
  \/ \E w \in BOOLEAN :
       \/ StartCreate(r, w)
       \/ r = Vpc /\ StartUpdateVpc(w)
       \/ r \in VNets /\ \E named \in BOOLEAN : StartUpdateVNet(r, w, named)
  \/ StartDelete(r)

Proceed(r) ==
  \/ PostFails(r) \/ PostLost(r) \/ PostActive(r) \/ PostPending(r)
  \/ PollActive(r) \/ PollFails(r) \/ Refetch(r)
  \/ WriteFails(r) \/ ReadBack(r)
  \/ DeleteAccepted(r) \/ DeleteMissing(r) \/ DeleteFatal(r)
  \/ GoneSeen(r) \/ GoneTimeout(r)
  \/ r = Vpc /\ (PatchVpc \/ DeleteVpcConflict \/ DeleteBudgetSpent)
  \/ r \in VNets /\ (SetIsolation(r) \/ PatchVNet(r) \/ DeleteVNetConflict(r))

Platform ==
  \/ \E r \in R : Settle(r) \/ Vanish(r) \/ TeardownFails(r) \/ OutsideDelete(r)
  \/ \E n \in VNets : Attach(n) \/ Detach(n)

Quiet == (\A r \in R : pc[r] = "idle") /\ UNCHANGED vars

Next == (\E r \in R : Start(r) \/ Refresh(r) \/ Proceed(r)) \/ Platform \/ Quiet

Spec == Init /\ [][Next]_vars
FairSpec == Spec /\ \A r \in R : WF_vars(Proceed(r))

-----------------------------------------------------------------------------
(* Properties.                                                             *)

\* The objects of this module keep the promise of ManagedObject: recorded as
\* soon as the POST is answered, forgotten only when gone or going, through
\* failed polls, retried conflicts and deletions that only end in a warning.
Managed == INSTANCE ManagedObject WITH
  Objects <- R,
  exists <- {r \in R : Exists(r)},
  recorded <- {r \in R : tf[r].there}
KeepsPromise == Managed!Spec

\* A create or update that reports success left the platform and the state
\* with what the plan asked for: the isolation intent survives the early write
\* of the state, and an old platform's silence on the egress IP is an error.
IntentHonoured ==
  [][ \A r \in R : pc[r] # "idle" /\ pc'[r] = "idle" /\ outcome'[r] = "ok"
                   /\ op[r] \in {"create", "update"}
        => /\ option'[r] = want[r]
           /\ tf'[r] = [there |-> TRUE, tainted |-> FALSE, option |-> want[r]]
    ]_vars

\* Every handler call returns.
HandlersFinish == \A r \in R : pc[r] # "idle" ~> pc[r] = "idle"
=============================================================================
