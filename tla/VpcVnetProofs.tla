------------------------------ MODULE VpcVnetProofs ----------------------------
(***************************************************************************)
(* ccp_vpc and ccp_vnet keep the promise of ManagedObject, and a success   *)
(* is what the plan asked for, for any number of VNets, old and new        *)
(* platforms, any number of calls and outside events.                      *)
(***************************************************************************)
EXTENDS VpcVnet, TLAPS

-----------------------------------------------------------------------------
(* Type correctness.                                                       *)

LEMMA StateType == NoState \in [there : BOOLEAN, tainted : BOOLEAN, option : BOOLEAN]
BY DEF NoState

RunTypes ==
  /\ pc \in [R -> Steps] /\ op \in [R -> {"none", "create", "update", "delete"}]
  /\ want \in [R -> BOOLEAN] /\ rename \in [R -> BOOLEAN]
  /\ outcome \in [R -> {"none", "ok", "warned"} \union Errors]

LEMMA StartTypes ==
  ASSUME NEW r \in R, TypeOK, Start(r)
  PROVE  TypeOK'
<1>1. PICK step \in Steps, o \in {"create", "update", "delete"}, w \in BOOLEAN,
           named \in BOOLEAN : Begin(r, step, o, w, named)
  <2>1. {"post", "read", "patch", "toggle", "delete"} \subseteq Steps
    BY DEF Steps
  <2>2. ASSUME NEW w \in BOOLEAN, StartCreate(r, w)
        PROVE  Begin(r, "post", "create", w, FALSE)
    BY <2>2 DEF StartCreate
  <2>3. ASSUME NEW w \in BOOLEAN, r = Vpc, StartUpdateVpc(w)
        PROVE  \E step \in {"read", "patch"} : Begin(r, step, "update", w, FALSE)
    BY <2>3 DEF StartUpdateVpc
  <2>4. ASSUME NEW w \in BOOLEAN, NEW named \in BOOLEAN, StartUpdateVNet(r, w, named)
        PROVE  \E step \in {"read", "patch", "toggle"} : Begin(r, step, "update", w, named)
    BY <2>4 DEF StartUpdateVNet
  <2>5. ASSUME StartDelete(r)
        PROVE  Begin(r, "delete", "delete", FALSE, FALSE)
    BY <2>5 DEF StartDelete
  <2>6. QED
    BY <2>1, <2>2, <2>3, <2>4, <2>5 DEF Start
<1>2. ops' \in 0..MaxOps
  BY <1>1, VpcVnetAssumption DEF Begin, Ready, TypeOK
<1>3. RunTypes'
  BY <1>1 DEF Begin, TypeOK, RunTypes
<1>4. conflict' \in BOOLEAN
  BY <1>1 DEF Begin, TypeOK
<1>5. UNCHANGED <<platform, lost, tf, ext>>
  BY <1>1 DEF Begin
<1>6. QED
  BY <1>2, <1>3, <1>4, <1>5 DEF TypeOK, RunTypes, platform

LEMMA SaveTypes ==
  ASSUME NEW r \in R, NEW opt \in BOOLEAN, NEW tainted \in BOOLEAN, TypeOK,
         Save(r, opt, tainted) \/ Forget(r)
  PROVE  tf' \in [R -> [there : BOOLEAN, tainted : BOOLEAN, option : BOOLEAN]]
<1>1. tf \in [R -> [there : BOOLEAN, tainted : BOOLEAN, option : BOOLEAN]]
  BY DEF TypeOK
<1>2. CASE Save(r, opt, tainted)
  BY <1>1, <1>2 DEF Save
<1>3. CASE Forget(r)
  BY <1>1, <1>3, StateType DEF Forget
<1>4. QED
  BY <1>2, <1>3

LEMMA FinishTypes ==
  ASSUME NEW r \in R, NEW result \in {"ok", "warned"} \union Errors, TypeOK,
         Finish(r, result)
  PROVE  RunTypes'
BY DEF Finish, TypeOK, RunTypes, Steps

LEMMA GotoTypes ==
  ASSUME NEW r \in R, NEW step \in Steps, TypeOK, Goto(r, step)
  PROVE  RunTypes'
BY DEF Goto, TypeOK, RunTypes

LEMMA ProvisionedTypes ==
  ASSUME NEW r \in R, NEW opt \in BOOLEAN, TypeOK, Provisioned(r, opt)
  PROVE  RunTypes' /\ tf' \in [R -> [there : BOOLEAN, tainted : BOOLEAN, option : BOOLEAN]]
<1>1. want[r] \in BOOLEAN
  BY DEF TypeOK
<1>2. QED
  BY <1>1, SaveTypes, FinishTypes, GotoTypes DEF Provisioned, Steps, Errors

LEMMA BornTypes ==
  ASSUME NEW r \in R, NEW s \in Statuses, TypeOK, Born(r, s)
  PROVE  /\ status' \in [R -> Statuses] /\ option' \in [R -> BOOLEAN]
         /\ attached' \subseteq VNets /\ doomed' \subseteq R
BY VpcVnetAssumption DEF Born, TypeOK

LEMMA CreateTypes ==
  ASSUME NEW r \in R, TypeOK,
         \/ PostFails(r) \/ PostLost(r) \/ PostActive(r) \/ PostPending(r)
         \/ PollActive(r) \/ PollFails(r) \/ Refetch(r)
  PROVE  TypeOK'
<1>1. CASE PostFails(r) \/ PollFails(r)
  BY <1>1, FinishTypes DEF PostFails, PollFails, Errors, TypeOK, RunTypes, platform
<1>2. CASE PostLost(r)
  BY <1>2, BornTypes, FinishTypes DEF PostLost, Statuses, Errors, TypeOK, RunTypes
<1>3. CASE PostActive(r)
  <2>1. /\ status' \in [R -> Statuses] /\ option' \in [R -> BOOLEAN]
        /\ attached' \subseteq VNets /\ doomed' \subseteq R
    BY <1>3, BornTypes DEF PostActive, Statuses
  <2>2. RunTypes' /\ tf' \in [R -> [there : BOOLEAN, tainted : BOOLEAN, option : BOOLEAN]]
    BY <1>3, <2>1, ProvisionedTypes DEF PostActive
  <2>3. QED
    BY <1>3, <2>1, <2>2 DEF PostActive, TypeOK, RunTypes
<1>4. CASE PostPending(r)
  <2>1. PICK s \in {"creating", "error"} :
          /\ Born(r, s)
          /\ IF s = "error" THEN Finish(r, "failed") ELSE Goto(r, "poll")
    BY <1>4 DEF PostPending
  <2>2. /\ status' \in [R -> Statuses] /\ option' \in [R -> BOOLEAN]
        /\ attached' \subseteq VNets /\ doomed' \subseteq R
    BY <2>1, BornTypes DEF Statuses
  <2>3. RunTypes' /\ tf' \in [R -> [there : BOOLEAN, tainted : BOOLEAN, option : BOOLEAN]]
    BY <1>4, <2>1, <2>2, SaveTypes, FinishTypes, GotoTypes DEF PostPending, Errors, Steps
  <2>4. QED
    BY <1>4, <2>2, <2>3 DEF PostPending, TypeOK, RunTypes
<1>5. CASE PollActive(r)
  BY <1>5, GotoTypes DEF PollActive, Steps, TypeOK, RunTypes, platform
<1>6. CASE Refetch(r)
  <2>1. RunTypes' /\ tf' \in [R -> [there : BOOLEAN, tainted : BOOLEAN, option : BOOLEAN]]
    BY <1>6, ProvisionedTypes DEF Refetch, TypeOK
  <2>2. QED
    BY <1>6, <2>1 DEF Refetch, TypeOK, RunTypes, platform
<1>7. QED
  BY <1>1, <1>2, <1>3, <1>4, <1>5, <1>6

LEMMA ChangeTypes ==
  ASSUME NEW r \in R, TypeOK,
         \/ WriteFails(r) \/ ReadBack(r)
         \/ (r = Vpc /\ PatchVpc) \/ (r \in VNets /\ (SetIsolation(r) \/ PatchVNet(r)))
  PROVE  TypeOK'
<1>0. want[r] \in BOOLEAN /\ option[r] \in BOOLEAN /\ option \in [R -> BOOLEAN]
      /\ KnowsEgress \in BOOLEAN
  BY VpcVnetAssumption DEF TypeOK
<1>1. CASE WriteFails(r)
  <2>1. option' \in [R -> BOOLEAN]
    BY <1>0, <1>1 DEF WriteFails
  <2>2. QED
    BY <1>1, <2>1, FinishTypes DEF WriteFails, Errors, TypeOK, RunTypes
<1>2. CASE ReadBack(r)
  BY <1>0, <1>2, SaveTypes, FinishTypes DEF ReadBack, TypeOK, RunTypes, platform
<1>3. CASE r = Vpc /\ PatchVpc
  <2>1. option' \in [R -> BOOLEAN]
    BY <1>0, <1>3 DEF PatchVpc
  <2>2. tf' \in [R -> [there : BOOLEAN, tainted : BOOLEAN, option : BOOLEAN]]
    BY <1>0, <1>3, SaveTypes DEF PatchVpc, TypeOK
  <2>3. RunTypes'
    BY <1>3, FinishTypes DEF PatchVpc, Errors
  <2>4. QED
    BY <1>3, <2>1, <2>2, <2>3 DEF PatchVpc, TypeOK, RunTypes
<1>4. CASE SetIsolation(r)
  <2>1. option' \in [R -> BOOLEAN]
    BY <1>0, <1>4 DEF SetIsolation
  <2>2. tf' \in [R -> [there : BOOLEAN, tainted : BOOLEAN, option : BOOLEAN]]
    BY <1>4, SaveTypes DEF SetIsolation, TypeOK
  <2>3. RunTypes'
    BY <1>4, FinishTypes, GotoTypes DEF SetIsolation, Steps
  <2>4. QED
    BY <1>4, <2>1, <2>2, <2>3 DEF SetIsolation, TypeOK, RunTypes
<1>5. CASE PatchVNet(r)
  BY <1>5, GotoTypes DEF PatchVNet, Steps, TypeOK, RunTypes, platform
<1>6. QED
  BY <1>1, <1>2, <1>3, <1>4, <1>5

LEMMA AcceptTypes ==
  ASSUME NEW r \in R, TypeOK, Accept(r)
  PROVE  /\ status' \in [R -> Statuses] /\ doomed' \subseteq R
         /\ option' = option /\ attached' = attached
BY DEF Accept, TypeOK, Statuses

LEMMA DeleteTypes ==
  ASSUME NEW r \in R, TypeOK,
         \/ DeleteAccepted(r) \/ DeleteMissing(r) \/ DeleteFatal(r)
         \/ GoneSeen(r) \/ GoneTimeout(r)
         \/ (r = Vpc /\ (DeleteVpcConflict \/ DeleteBudgetSpent)) \/ DeleteVNetConflict(r)
  PROVE  TypeOK'
<1>1. CASE DeleteAccepted(r)
  BY <1>1, AcceptTypes, GotoTypes DEF DeleteAccepted, Steps, TypeOK, RunTypes
<1>2. CASE DeleteMissing(r)
  <2>1. RunTypes'
    BY <1>2, FinishTypes, GotoTypes DEF DeleteMissing, Steps
  <2>2. tf' \in [R -> [there : BOOLEAN, tainted : BOOLEAN, option : BOOLEAN]]
    BY <1>2, SaveTypes DEF DeleteMissing, TypeOK
  <2>3. QED
    BY <1>2, <2>1, <2>2 DEF DeleteMissing, TypeOK, RunTypes, platform
<1>3. CASE DeleteFatal(r)
  <2>1. /\ status' \in [R -> Statuses] /\ doomed' \subseteq R
        /\ option' = option /\ attached' = attached
    BY <1>3, AcceptTypes DEF DeleteFatal, platform, TypeOK
  <2>2. RunTypes'
    BY <1>3, FinishTypes DEF DeleteFatal, Errors
  <2>3. QED
    BY <1>3, <2>1, <2>2 DEF DeleteFatal, TypeOK, RunTypes
<1>4. CASE GoneSeen(r) \/ GoneTimeout(r)
  BY <1>4, SaveTypes, FinishTypes DEF GoneSeen, GoneTimeout, TypeOK, RunTypes, platform
<1>5. CASE r = Vpc /\ (DeleteVpcConflict \/ DeleteBudgetSpent)
  BY <1>5, FinishTypes
  DEF DeleteVpcConflict, DeleteBudgetSpent, Errors, TypeOK, RunTypes, platform
<1>6. CASE DeleteVNetConflict(r)
  BY <1>6, FinishTypes DEF DeleteVNetConflict, Errors, TypeOK, RunTypes, platform
<1>7. QED
  BY <1>1, <1>2, <1>3, <1>4, <1>5, <1>6

LEMMA PlatformTypes ==
  ASSUME TypeOK, Platform
  PROVE  TypeOK'
<1>1. ASSUME NEW r \in R, Settle(r) \/ Vanish(r)
      PROVE  TypeOK'
  <2>1. status' \in [R -> Statuses] /\ option' \in [R -> BOOLEAN]
    BY <1>1 DEF Settle, Vanish, TypeOK, Statuses
  <2>2. QED
    BY <1>1, <2>1 DEF Settle, Vanish, Own, TypeOK
<1>2. ASSUME NEW r \in R, TeardownFails(r) \/ OutsideDelete(r)
      PROVE  TypeOK'
  <2>1. status' \in [R -> Statuses] /\ doomed' \subseteq R /\ option' = option
        /\ attached' = attached
    BY <1>2, AcceptTypes DEF TeardownFails, OutsideDelete, TypeOK, Statuses
  <2>2. ext' \in 0..MaxExternal
    BY <1>2, VpcVnetAssumption DEF TeardownFails, OutsideDelete, Outside, TypeOK
  <2>3. QED
    BY <1>2, <2>1, <2>2 DEF TeardownFails, OutsideDelete, Outside, Own, TypeOK
<1>3. ASSUME NEW n \in VNets, Attach(n) \/ Detach(n)
      PROVE  TypeOK'
  <2>1. ext' \in 0..MaxExternal
    BY <1>3, VpcVnetAssumption DEF Attach, Detach, Outside, TypeOK
  <2>2. QED
    BY <1>3, <2>1 DEF Attach, Detach, Outside, Own, TypeOK
<1>4. QED
  BY <1>1, <1>2, <1>3 DEF Platform

LEMMA NextTypes == TypeOK /\ [Next]_vars => TypeOK'
<1> SUFFICES ASSUME TypeOK, [Next]_vars PROVE TypeOK'
  OBVIOUS
<1>1. CASE UNCHANGED vars
  BY <1>1 DEF vars, platform, TypeOK
<1>2. ASSUME NEW r \in R, Refresh(r)
      PROVE  TypeOK'
  <2>1. tf[r].tainted \in BOOLEAN /\ option[r] \in BOOLEAN
    BY DEF TypeOK
  <2>2. tf' \in [R -> [there : BOOLEAN, tainted : BOOLEAN, option : BOOLEAN]]
    BY <1>2, <2>1, SaveTypes DEF Refresh
  <2>3. QED
    BY <1>2, <2>2 DEF Refresh, TypeOK, platform
<1>3. ASSUME NEW r \in R, Proceed(r)
      PROVE  TypeOK'
  <2>1. VNets \subseteq R /\ Vpc \in R
    BY DEF R
  <2>2. QED
    BY <1>3, <2>1, CreateTypes, ChangeTypes, DeleteTypes DEF Proceed
<1>4. QED
  BY <1>1, <1>2, <1>3, StartTypes, PlatformTypes DEF Next, Quiet

LEMMA InitTypes == Init => TypeOK
<1> SUFFICES ASSUME Init PROVE TypeOK
  OBVIOUS
<1>1. tf \in [R -> [there : BOOLEAN, tainted : BOOLEAN, option : BOOLEAN]]
  BY StateType DEF Init
<1>2. ops \in 0..MaxOps /\ ext \in 0..MaxExternal
  BY VpcVnetAssumption DEF Init
<1>3. RunTypes
  BY DEF Init, RunTypes, Steps
<1>4. QED
  BY <1>1, <1>2, <1>3 DEF Init, TypeOK, RunTypes, Statuses

\* Every variable of ccp_vpc and ccp_vnet keeps its type.
THEOREM TypeCorrect == Spec => []TypeOK
BY InitTypes, NextTypes, PTL DEF Spec

-----------------------------------------------------------------------------
(* The promise.  What has to be known besides the types: a handler past its *)
(* POST has its object in state, and a handler that waits for an object to  *)
(* go has seen its deletion accepted, or the object missing.                *)

Recorded == {r \in R : tf[r].there}
Existing == {r \in R : Exists(r)}

BeyondPost == {"poll", "refetch", "isolate", "toggle", "patch", "read", "delete", "gone"}
PromiseInv ==
  /\ TypeOK
  /\ \A r \in R : pc[r] \in BeyondPost => tf[r].there
  /\ \A r \in R : pc[r] = "gone" => r \in doomed \/ ~Exists(r)

\* The step changes nothing ManagedObject speaks of.
Unseen == Existing' = Existing /\ Recorded' = Recorded /\ UNCHANGED <<doomed, lost>>

LEMMA SaveRecords ==
  ASSUME NEW r \in R, NEW opt, NEW tainted, TypeOK, Save(r, opt, tainted)
  PROVE  Recorded' = Recorded \union {r} /\ tf'[r].there
         /\ \A s \in R \ {r} : tf'[s] = tf[s]
BY DEF Save, Recorded, TypeOK

LEMMA ForgetRecords ==
  ASSUME NEW r \in R, TypeOK, Forget(r)
  PROVE  Recorded' = Recorded \ {r} /\ \A s \in R \ {r} : tf'[s] = tf[s]
BY DEF Forget, NoState, Recorded, TypeOK

LEMMA BornExists ==
  ASSUME NEW r \in R, NEW s \in {"creating", "active", "error"}, TypeOK, Born(r, s)
  PROVE  /\ r \notin Existing /\ Existing' = Existing \union {r}
         /\ doomed' = doomed \ {r}
BY DEF Born, Existing, Exists, TypeOK

\* The VPC and VNet handlers save a state in these ways only.
LEMMA ProvisionedRecords ==
  ASSUME NEW r \in R, NEW opt, TypeOK, Provisioned(r, opt)
  PROVE  /\ Recorded' = Recorded \union {r} /\ tf'[r].there
         /\ \A s \in R \ {r} : tf'[s] = tf[s] /\ pc'[s] = pc[s]
         /\ pc'[r] # "gone"
<1>1. \E t : Save(r, opt, t)
  BY DEF Provisioned
<1>2. /\ \A s \in R \ {r} : pc'[s] = pc[s]
      /\ pc'[r] # "gone"
  BY DEF Provisioned, Finish, Goto, TypeOK
<1>3. QED
  BY <1>1, <1>2, SaveRecords

LEMMA CreateKeeps ==
  ASSUME NEW r \in R, PromiseInv,
         \/ PostFails(r) \/ PostLost(r) \/ PostActive(r) \/ PostPending(r)
         \/ PollActive(r) \/ PollFails(r) \/ Refetch(r)
  PROVE  Unseen \/ Managed!Create(r) \/ Managed!CreateUnanswered(r)
<1>1. CASE PostFails(r) \/ PollActive(r) \/ PollFails(r)
  BY <1>1 DEF PostFails, PollActive, PollFails, platform, Unseen, Existing, Recorded, Exists
<1>2. CASE PostLost(r)
  <2>1. Recorded' = Recorded
    BY <1>2 DEF PostLost, Recorded
  <2>2. QED
    BY <1>2, <2>1, BornExists
    DEF PostLost, PromiseInv, Managed!CreateUnanswered, Existing, Recorded
<1>3. CASE PostActive(r)
  <2>1. Recorded' = Recorded \union {r}
    BY <1>3, ProvisionedRecords DEF PostActive, PromiseInv
  <2>2. r \notin Existing /\ Existing' = Existing \union {r} /\ doomed' = doomed \ {r}
    BY <1>3, BornExists DEF PostActive, PromiseInv
  <2>3. QED
    BY <1>3, <2>1, <2>2 DEF PostActive, Managed!Create, Existing, Recorded
<1>4. CASE PostPending(r)
  <2>1. Recorded' = Recorded \union {r}
    BY <1>4, SaveRecords DEF PostPending, PromiseInv
  <2>2. r \notin Existing /\ Existing' = Existing \union {r} /\ doomed' = doomed \ {r}
    BY <1>4, BornExists DEF PostPending, PromiseInv
  <2>3. QED
    BY <1>4, <2>1, <2>2 DEF PostPending, Managed!Create, Existing, Recorded
<1>5. CASE Refetch(r)
  <2>1. Recorded' = Recorded \union {r} /\ r \in Recorded
    BY <1>5, ProvisionedRecords DEF Refetch, PromiseInv, BeyondPost, Recorded
  <2>2. QED
    BY <1>5, <2>1 DEF Refetch, platform, Unseen, Existing, Exists
<1>6. QED
  BY <1>1, <1>2, <1>3, <1>4, <1>5

LEMMA ChangeKeeps ==
  ASSUME NEW r \in R, PromiseInv,
         \/ WriteFails(r) \/ ReadBack(r)
         \/ (r = Vpc /\ PatchVpc) \/ (r \in VNets /\ (SetIsolation(r) \/ PatchVNet(r)))
  PROVE  Unseen
<1>1. UNCHANGED <<status, doomed, lost>>
  BY DEF WriteFails, ReadBack, PatchVpc, SetIsolation, PatchVNet, platform
<1>2. r \in Recorded
  BY DEF WriteFails, ReadBack, PatchVpc, SetIsolation, PatchVNet, PromiseInv, BeyondPost,
         Recorded
<1>3. tf' = tf \/ \E opt, t : Save(r, opt, t)
  BY DEF WriteFails, ReadBack, PatchVpc, SetIsolation, PatchVNet
<1>4. Recorded' = Recorded
  BY <1>2, <1>3, SaveRecords DEF PromiseInv, Recorded
<1>5. QED
  BY <1>1, <1>4 DEF Unseen, Existing, Exists

LEMMA AcceptDooms ==
  ASSUME NEW r \in R, PromiseInv, Accepted(r), Accept(r), UNCHANGED <<tf, lost>>
  PROVE  Managed!Doom(r)
<1>1. r \in Existing /\ Existing' = Existing /\ Recorded' = Recorded
  BY DEF Accepted, Accept, PromiseInv, TypeOK, Existing, Recorded, Exists
<1>2. QED
  BY <1>1 DEF Accept, Managed!Doom, Existing, Recorded

LEMMA ForgetKeeps ==
  ASSUME NEW r \in R, PromiseInv, Forget(r), UNCHANGED <<platform, lost>>,
         r \in doomed \/ ~Exists(r)
  PROVE  Unseen \/ Managed!Forget(r)
<1>1. Recorded' = Recorded \ {r} /\ Existing' = Existing /\ UNCHANGED <<doomed, lost>>
  BY ForgetRecords DEF PromiseInv, platform, Existing, Exists
<1>2. r \notin Existing \/ r \in doomed
  BY DEF Existing
<1>3. QED
  BY <1>1, <1>2 DEF Unseen, Managed!Forget, Existing, Recorded

LEMMA DeleteKeeps ==
  ASSUME NEW r \in R, PromiseInv,
         \/ DeleteAccepted(r) \/ DeleteMissing(r) \/ DeleteFatal(r)
         \/ GoneSeen(r) \/ GoneTimeout(r)
         \/ (r = Vpc /\ (DeleteVpcConflict \/ DeleteBudgetSpent)) \/ DeleteVNetConflict(r)
  PROVE  Unseen \/ Managed!Doom(r) \/ Managed!Forget(r)
<1>1. CASE DeleteAccepted(r) \/ DeleteFatal(r)
  <2>1. CASE Accepted(r) /\ Accept(r)
    BY <1>1, <2>1, AcceptDooms DEF DeleteAccepted, DeleteFatal
  <2>2. CASE UNCHANGED platform
    BY <1>1, <2>2
    DEF DeleteAccepted, DeleteFatal, platform, Unseen, Existing, Recorded, Exists
  <2>3. QED
    BY <1>1, <2>1, <2>2 DEF DeleteAccepted, DeleteFatal
<1>2. CASE DeleteMissing(r)
  <2>1. CASE UNCHANGED tf
    BY <1>2, <2>1 DEF DeleteMissing, platform, Unseen, Existing, Recorded, Exists
  <2>2. CASE Forget(r)
    BY <1>2, <2>2, ForgetKeeps DEF DeleteMissing
  <2>3. QED
    BY <1>2, <2>1, <2>2 DEF DeleteMissing
<1>3. CASE GoneSeen(r) \/ GoneTimeout(r)
  <2>1. r \in doomed \/ ~Exists(r)
    BY <1>3 DEF GoneSeen, GoneTimeout, PromiseInv
  <2>2. QED
    BY <1>3, <2>1, ForgetKeeps DEF GoneSeen, GoneTimeout
<1>4. CASE (r = Vpc /\ (DeleteVpcConflict \/ DeleteBudgetSpent)) \/ DeleteVNetConflict(r)
  BY <1>4 DEF DeleteVpcConflict, DeleteBudgetSpent, DeleteVNetConflict, platform, Unseen,
              Existing, Recorded, Exists
<1>5. QED
  BY <1>1, <1>2, <1>3, <1>4

LEMMA PlatformKeeps ==
  ASSUME PromiseInv, Platform
  PROVE  Unseen \/ \E r \in R : Managed!Doom(r) \/ Managed!Vanish({r})
<1>1. ASSUME NEW r \in R, Settle(r) \/ TeardownFails(r)
      PROVE  Unseen
  BY <1>1 DEF Settle, TeardownFails, Outside, Own, PromiseInv, TypeOK, Unseen, Existing,
              Recorded, Exists
<1>2. ASSUME NEW r \in R, Vanish(r)
      PROVE  Managed!Vanish({r})
  <2>1. r \in Existing /\ Existing' = Existing \ {r} /\ Recorded' = Recorded
        /\ UNCHANGED <<doomed, lost>>
    BY <1>2 DEF Vanish, Own, PromiseInv, TypeOK, Existing, Recorded, Exists
  <2>2. QED
    BY <2>1 DEF Managed!Vanish, Existing, Recorded
<1>3. ASSUME NEW r \in R, OutsideDelete(r)
      PROVE  Managed!Doom(r)
  BY <1>3, AcceptDooms DEF OutsideDelete, Outside, Own
<1>4. ASSUME NEW n \in VNets, Attach(n) \/ Detach(n)
      PROVE  Unseen
  BY <1>4 DEF Attach, Detach, Outside, Own, Unseen, Existing, Recorded, Exists
<1>5. QED
  BY <1>1, <1>2, <1>3, <1>4 DEF Platform

\* Every step is a step of ManagedObject, or one it does not see.
LEMMA StepKeeps ==
  ASSUME PromiseInv, [Next]_vars
  PROVE  [Managed!Next]_Managed!vars
<1>1. Unseen => UNCHANGED Managed!vars
  BY DEF Unseen, Managed!vars, Existing, Recorded
<1>2. CASE UNCHANGED vars
  BY <1>1, <1>2 DEF vars, platform, Unseen, Existing, Recorded, Exists
<1>3. ASSUME NEW r \in R, Start(r)
      PROVE  Unseen
  BY <1>3 DEF Start, StartCreate, StartUpdateVpc, StartUpdateVNet, StartDelete, Begin,
              platform, Unseen, Existing, Recorded, Exists
<1>4. ASSUME NEW r \in R, Refresh(r)
      PROVE  Unseen \/ Managed!Forget(r)
  <2>1. CASE Exists(r)
    <3>1. Recorded' = Recorded
      BY <1>4, <2>1, SaveRecords DEF Refresh, PromiseInv, Recorded
    <3>2. QED
      BY <1>4, <3>1 DEF Refresh, platform, Unseen, Existing, Exists
  <2>2. CASE ~Exists(r)
    BY <1>4, <2>2, ForgetKeeps DEF Refresh
  <2>3. QED
    BY <2>1, <2>2
<1>5. ASSUME NEW r \in R, Proceed(r)
      PROVE  \/ Unseen \/ Managed!Create(r) \/ Managed!CreateUnanswered(r)
             \/ Managed!Doom(r) \/ Managed!Forget(r)
  <2>1. CASE \/ PostFails(r) \/ PostLost(r) \/ PostActive(r) \/ PostPending(r)
             \/ PollActive(r) \/ PollFails(r) \/ Refetch(r)
    BY <2>1, CreateKeeps
  <2>2. CASE \/ WriteFails(r) \/ ReadBack(r)
             \/ (r = Vpc /\ PatchVpc) \/ (r \in VNets /\ (SetIsolation(r) \/ PatchVNet(r)))
    BY <2>2, ChangeKeeps
  <2>3. CASE \/ DeleteAccepted(r) \/ DeleteMissing(r) \/ DeleteFatal(r)
             \/ GoneSeen(r) \/ GoneTimeout(r)
             \/ (r = Vpc /\ (DeleteVpcConflict \/ DeleteBudgetSpent))
             \/ DeleteVNetConflict(r)
    BY <2>3, DeleteKeeps
  <2>4. QED
    BY <1>5, <2>1, <2>2, <2>3 DEF Proceed
<1>6. \A r \in R : {r} \in SUBSET R
  OBVIOUS
<1>7. QED
  BY <1>1, <1>2, <1>3, <1>4, <1>5, <1>6, PlatformKeeps DEF Next, Quiet, Managed!Next

\* The invariant is preserved: one variable at a time.
LEMMA PostLast ==
  ASSUME NEW r \in R, TypeOK, Proceed(r), NEW s \in R \ {r}
  PROVE  pc'[s] = pc[s] /\ tf'[s] = tf[s] /\ (s \in doomed => s \in doomed')
         /\ (~Exists(s) => ~Exists(s)')
<1>1. pc'[s] = pc[s]
  <2>1. \/ UNCHANGED pc
        \/ \E step : Goto(r, step)
        \/ \E result : Finish(r, result)
    <3>1. CASE \/ PostFails(r) \/ PostLost(r) \/ PostActive(r) \/ PostPending(r)
               \/ PollActive(r) \/ PollFails(r) \/ Refetch(r)
      BY <3>1 DEF PostFails, PostLost, PostActive, PostPending, PollActive, PollFails,
         Refetch, Provisioned
    <3>2. CASE \/ WriteFails(r) \/ ReadBack(r)
               \/ (r = Vpc /\ PatchVpc) \/ (r \in VNets /\ (SetIsolation(r) \/ PatchVNet(r)))
      BY <3>2 DEF WriteFails, ReadBack, PatchVpc, SetIsolation, PatchVNet
    <3>3. CASE \/ DeleteAccepted(r) \/ DeleteMissing(r) \/ DeleteFatal(r)
               \/ GoneSeen(r) \/ GoneTimeout(r) \/ DeleteVNetConflict(r)
               \/ (r = Vpc /\ (DeleteVpcConflict \/ DeleteBudgetSpent))
      BY <3>3 DEF DeleteAccepted, DeleteMissing, DeleteFatal, GoneSeen, GoneTimeout,
         DeleteVpcConflict, DeleteBudgetSpent, DeleteVNetConflict
    <3>4. QED
      BY <3>1, <3>2, <3>3 DEF Proceed
  <2>2. pc \in [R -> Steps]
    BY DEF TypeOK
  <2>3. QED
    BY <2>1, <2>2 DEF Goto, Finish
<1>2. tf'[s] = tf[s]
  BY DEF Proceed, PostFails, PostLost, PostActive, PostPending, PollActive, PollFails,
     Refetch, Provisioned, WriteFails, ReadBack, DeleteAccepted, DeleteMissing,
     DeleteFatal, GoneSeen, GoneTimeout, PatchVpc, DeleteVpcConflict, DeleteBudgetSpent,
     SetIsolation, PatchVNet, DeleteVNetConflict, Save, Forget, TypeOK
<1>3. \/ UNCHANGED <<status, doomed>>
      \/ Accepted(r) /\ Accept(r)
      \/ \E x \in {"creating", "active", "error"} : Born(r, x)
  BY DEF Proceed, PostFails, PostLost, PostActive, PostPending, PollActive, PollFails,
     Refetch, WriteFails, ReadBack, DeleteAccepted, DeleteMissing,
     DeleteFatal, GoneSeen, GoneTimeout, PatchVpc, DeleteVpcConflict, DeleteBudgetSpent,
     SetIsolation, PatchVNet, DeleteVNetConflict, platform
<1>4. (s \in doomed => s \in doomed') /\ (~Exists(s) => ~Exists(s)')
  BY <1>3 DEF Accepted, Accept, Born, Exists, TypeOK
<1>5. QED
  BY <1>1, <1>2, <1>4

\* A handler that goes on past its POST has its object in state, and starts to
\* wait for it to go only after its deletion was accepted or found missing.
LEMMA OwnStep ==
  ASSUME NEW r \in R, PromiseInv, Proceed(r)
  PROVE  /\ pc'[r] \in BeyondPost => tf'[r].there
         /\ pc'[r] = "gone" => r \in doomed' \/ ~Exists(r)'
<1>0. /\ pc \in [R -> Steps] /\ tf[r] = tf[r]
      /\ pc[r] \in BeyondPost => tf[r].there
  BY DEF PromiseInv, TypeOK
<1>1. CASE PostFails(r) \/ PostLost(r) \/ PollFails(r) \/ WriteFails(r) \/ ReadBack(r)
           \/ DeleteFatal(r) \/ GoneSeen(r) \/ GoneTimeout(r) \/ DeleteVNetConflict(r)
           \/ (r = Vpc /\ (PatchVpc \/ DeleteBudgetSpent))
  <2>1. pc'[r] = "idle"
    BY <1>0, <1>1 DEF PostFails, PostLost, PollFails, WriteFails, ReadBack, DeleteFatal,
       GoneSeen, GoneTimeout, DeleteVNetConflict, PatchVpc, DeleteBudgetSpent, Finish
  <2>2. QED
    BY <2>1 DEF BeyondPost
<1>2. CASE PostActive(r) \/ Refetch(r)
  <2>1. PICK opt : Provisioned(r, opt)
    BY <1>2 DEF PostActive, Refetch
  <2>2. QED
    BY <2>1, ProvisionedRecords DEF PromiseInv
<1>3. CASE PostPending(r)
  <2>1. tf'[r].there
    BY <1>3, SaveRecords DEF PostPending, PromiseInv
  <2>2. pc'[r] # "gone"
    BY <1>0, <1>3 DEF PostPending, Finish, Goto
  <2>3. QED
    BY <2>1, <2>2
<1>4. CASE PollActive(r) \/ (r \in VNets /\ PatchVNet(r))
  BY <1>0, <1>4 DEF PollActive, PatchVNet, Goto, BeyondPost
<1>5. CASE r \in VNets /\ SetIsolation(r)
  <2>1. tf'[r].there
    <3>1. pc[r] \in BeyondPost
      BY <1>5 DEF SetIsolation, BeyondPost
    <3>2. QED
      BY <1>0, <1>5, <3>1, SaveRecords DEF SetIsolation, PromiseInv
  <2>2. pc'[r] # "gone"
    BY <1>0, <1>5 DEF SetIsolation, Finish, Goto
  <2>3. QED
    BY <2>1, <2>2
<1>6. CASE DeleteAccepted(r)
  BY <1>0, <1>6 DEF DeleteAccepted, Accept, Goto, BeyondPost
<1>7. CASE DeleteMissing(r)
  <2>1. CASE Goto(r, "gone") /\ UNCHANGED tf
    BY <1>0, <1>7, <2>1 DEF DeleteMissing, Goto, platform, Exists, BeyondPost
  <2>2. CASE Finish(r, "ok")
    BY <1>0, <2>2 DEF Finish, BeyondPost
  <2>3. QED
    BY <1>7, <2>1, <2>2 DEF DeleteMissing
<1>8. CASE r = Vpc /\ DeleteVpcConflict
  BY <1>0, <1>8 DEF DeleteVpcConflict, BeyondPost
<1>9. QED
  BY <1>1, <1>2, <1>3, <1>4, <1>5, <1>6, <1>7, <1>8 DEF Proceed

LEMMA StartStep ==
  ASSUME NEW r \in R, PromiseInv, Start(r)
  PROVE  /\ pc'[r] \in BeyondPost => tf'[r].there
         /\ pc'[r] # "gone"
         /\ \A s \in R \ {r} : pc'[s] = pc[s]
         /\ UNCHANGED <<tf, status, doomed>>
<1>1. pc \in [R -> Steps]
  BY DEF PromiseInv, TypeOK
<1>2. CASE \E w \in BOOLEAN : StartCreate(r, w)
  BY <1>1, <1>2 DEF StartCreate, Begin, BeyondPost, platform
<1>3. CASE \E w \in BOOLEAN : r = Vpc /\ StartUpdateVpc(w)
  BY <1>1, <1>3 DEF StartUpdateVpc, Refreshed, Begin, platform
<1>4. CASE \E w \in BOOLEAN, named \in BOOLEAN : StartUpdateVNet(r, w, named)
  BY <1>1, <1>4 DEF StartUpdateVNet, Refreshed, Begin, platform
<1>5. CASE StartDelete(r)
  BY <1>1, <1>5 DEF StartDelete, Begin, platform
<1>6. QED
  BY <1>2, <1>3, <1>4, <1>5 DEF Start

\* The platform moves no handler, takes no acceptance back and creates nothing.
LEMMA PlatformStep ==
  ASSUME NEW r \in R, TypeOK, Platform
  PROVE  /\ UNCHANGED <<pc, tf>> /\ (r \in doomed => r \in doomed')
         /\ (~Exists(r) => ~Exists(r)')
<1>1. UNCHANGED <<pc, tf>>
  BY DEF Platform, Settle, Vanish, TeardownFails, OutsideDelete, Attach, Detach, Outside,
     Own
<1>2. r \in doomed => r \in doomed'
  BY DEF Platform, Settle, Vanish, TeardownFails, OutsideDelete, Attach, Detach, Accept
<1>3. \/ UNCHANGED status
      \/ \E x \in R, st \in Statuses :
            status[x] # "absent" /\ status' = [status EXCEPT ![x] = st]
  BY DEF Platform, Settle, Vanish, TeardownFails, OutsideDelete, Attach, Detach, Accept,
     Accepted, Exists, Statuses
<1>4. ~Exists(r) => ~Exists(r)'
  <2>1. status \in [R -> Statuses]
    BY DEF TypeOK
  <2>2. QED
    BY <1>3, <2>1 DEF Exists
<1>5. QED
  BY <1>1, <1>2, <1>4

LEMMA PromiseStep == PromiseInv /\ [Next]_vars => PromiseInv'
<1> SUFFICES ASSUME PromiseInv, [Next]_vars PROVE PromiseInv'
  OBVIOUS
<1>1. TypeOK /\ TypeOK'
  BY NextTypes DEF PromiseInv
<1>2. ASSUME NEW s \in R
      PROVE  /\ pc'[s] \in BeyondPost => tf'[s].there
             /\ pc'[s] = "gone" => s \in doomed' \/ ~Exists(s)'
  <2>0. /\ pc[s] \in BeyondPost => tf[s].there
        /\ pc[s] = "gone" => s \in doomed \/ ~Exists(s)
    BY DEF PromiseInv
  <2>1. CASE UNCHANGED vars
    BY <2>0, <2>1 DEF vars, platform, Exists
  <2>2. ASSUME NEW r \in R, Start(r)
        PROVE  /\ pc'[s] \in BeyondPost => tf'[s].there
               /\ pc'[s] = "gone" => s \in doomed' \/ ~Exists(s)'
    BY <2>0, <2>2, StartStep DEF Exists
  <2>3. ASSUME NEW r \in R, Refresh(r)
        PROVE  /\ pc'[s] \in BeyondPost => tf'[s].there
               /\ pc'[s] = "gone" => s \in doomed' \/ ~Exists(s)'
    <3>1. UNCHANGED <<pc, status, doomed>> /\ pc[r] = "idle"
      BY <2>3 DEF Refresh, Ready, platform
    <3>2. s # r => tf'[s] = tf[s]
      BY <1>1, <2>3, SaveRecords, ForgetRecords DEF Refresh
    <3>3. QED
      BY <2>0, <3>1, <3>2 DEF BeyondPost, Exists
  <2>4. ASSUME NEW r \in R, Proceed(r)
        PROVE  /\ pc'[s] \in BeyondPost => tf'[s].there
               /\ pc'[s] = "gone" => s \in doomed' \/ ~Exists(s)'
    <3>1. CASE s = r
      BY <2>4, <3>1, OwnStep
    <3>2. CASE s # r
      BY <1>1, <2>0, <2>4, <3>2, PostLast
    <3>3. QED
      BY <3>1, <3>2
  <2>5. CASE Platform
    BY <1>1, <2>0, <2>5, PlatformStep
  <2>6. QED
    BY <2>1, <2>2, <2>3, <2>4, <2>5 DEF Next, Quiet
<1>3. QED
  BY <1>1, <1>2 DEF PromiseInv

\* Through every interleaving of the handlers, the platform and other clients,
\* ccp_vpc and ccp_vnet record an object as soon as its POST is answered and
\* forget it only when it is gone or its deletion was accepted.
THEOREM PromiseKept == Spec => KeepsPromise
<1>1. Init => PromiseInv
  BY InitTypes DEF Init, PromiseInv, BeyondPost
<1>2. Init => Managed!Init
  BY DEF Init, Exists, NoState, Managed!Init, Managed!TypeOK
<1>3. QED
  BY <1>1, <1>2, PromiseStep, StepKeeps, PTL DEF Spec, KeepsPromise, Managed!Spec

\* No VPC or VNet is ever stranded: one that exists is in the state, or was
\* never answered for, or is on its way out.
THEOREM NothingStranded == Spec => []Managed!NoStranded
<1>1. Managed!Init => Managed!NoStranded
  BY DEF Managed!Init, Managed!NoStranded
<1>2. Managed!NoStranded /\ [Managed!Next]_(Managed!vars) => Managed!NoStranded'
  BY DEF Managed!Next, Managed!vars, Managed!NoStranded, Managed!Create, Managed!CreateUnanswered, Managed!Adopt,
     Managed!Doom, Managed!Destroy, Managed!Forget, Managed!Vanish
<1>3. QED
  BY <1>1, <1>2, PromiseKept, PTL DEF KeepsPromise, Managed!Spec

-----------------------------------------------------------------------------
(* Success means what the plan asked for.                                    *)

\* What the handler of r relies on when it ends well: a creation never finds an
\* option on that it did not ask for, the isolation that is still to be set was
\* asked for, and what is only read back, if it is there, is as planned.
OnCourse(r) ==
  /\ pc[r] \in {"delete", "gone"} => op[r] = "delete"
  /\ pc[r] \in {"poll", "refetch"} => (option[r] => want[r])
  /\ pc[r] = "isolate" => want[r]
  /\ pc[r] = "read" \/ (pc[r] = "patch" /\ r \in VNets) =>
       (Exists(r) => option[r] = want[r])
CourseInv == \A r \in R : OnCourse(r)

\* A handler that ends or goes on, and what it still knows then.
Ends(r) == \E result : Finish(r, result)
EndsWell(r) ==
  pc'[r] = "idle" /\ outcome'[r] = "ok" /\ op[r] \in {"create", "update"}
Honoured(r) ==
  /\ option'[r] = want[r]
  /\ tf'[r] = [there |-> TRUE, tainted |-> FALSE, option |-> want[r]]

LEMMA EndOnCourse ==
  ASSUME NEW r \in R, TypeOK, Ends(r)
  PROVE  OnCourse(r)'
BY DEF Ends, Finish, OnCourse, TypeOK

LEMMA BadEnd ==
  ASSUME NEW r \in R, TypeOK, NEW result, Finish(r, result), result # "ok"
  PROVE  ~EndsWell(r)
BY DEF Finish, EndsWell, TypeOK

LEMMA GotoCourse ==
  ASSUME NEW r \in R, TypeOK, NEW step, Goto(r, step), step # "idle"
  PROVE  pc'[r] = step /\ op'[r] = op[r] /\ want'[r] = want[r] /\ ~EndsWell(r)
BY DEF Goto, EndsWell, TypeOK

LEMMA SavedIs ==
  ASSUME NEW r \in R, TypeOK, NEW opt, NEW tainted, Save(r, opt, tainted)
  PROVE  tf'[r] = [there |-> TRUE, tainted |-> tainted, option |-> opt]
BY DEF Save, TypeOK

\* The last part of a creation, from a record that shows no more than was asked for.
LEMMA ProvisionedHonours ==
  ASSUME NEW r \in R, TypeOK, NEW opt \in BOOLEAN, Provisioned(r, opt), option'[r] = opt,
         opt => want[r]
  PROVE  OnCourse(r)' /\ (EndsWell(r) => Honoured(r))
<1>1. want[r] \in BOOLEAN
  BY DEF TypeOK
<1>2. CASE r = Vpc /\ Save(r, opt, want[r] /\ ~opt)
           /\ Finish(r, IF want[r] /\ ~opt THEN "failed" ELSE "ok")
  <2>1. OnCourse(r)'
    BY <1>2, EndOnCourse DEF Ends
  <2>2. CASE want[r] /\ ~opt
    BY <1>2, <2>1, <2>2, BadEnd
  <2>3. CASE ~(want[r] /\ ~opt)
    <3>1. opt = want[r] /\ (want[r] /\ ~opt) = FALSE
      BY <1>1, <2>3
    <3>2. Save(r, opt, FALSE)
      BY <1>2, <3>1, Zenon
    <3>3. tf'[r] = [there |-> TRUE, tainted |-> FALSE, option |-> opt]
      BY <3>2 DEF Save, TypeOK
    <3>4. QED
      BY <2>1, <3>1, <3>3, Zenon DEF Honoured
  <2>4. QED
    BY <2>2, <2>3
<1>3. CASE want[r] /\ Goto(r, "isolate")
  BY <1>3, GotoCourse DEF OnCourse
<1>4. CASE ~(want[r] /\ ~opt) /\ Save(r, opt, FALSE) /\ Finish(r, "ok")
  <2>1. opt = want[r]
    BY <1>1, <1>4
  <2>2. QED
    BY <1>4, <2>1, SavedIs, EndOnCourse DEF Ends, Honoured
<1>5. QED
  BY <1>2, <1>3, <1>4 DEF Provisioned

LEMMA CreateHonours ==
  ASSUME NEW r \in R, TypeOK, OnCourse(r),
         \/ PostFails(r) \/ PostLost(r) \/ PostActive(r) \/ PostPending(r)
         \/ PollActive(r) \/ PollFails(r) \/ Refetch(r)
  PROVE  OnCourse(r)' /\ (EndsWell(r) => Honoured(r))
<1>1. \A s : Born(r, s) => option'[r] = (r = Vpc /\ want[r] /\ KnowsEgress)
  BY DEF Born, TypeOK
<1>2. want[r] \in BOOLEAN /\ KnowsEgress \in BOOLEAN /\ option[r] \in BOOLEAN
  BY VpcVnetAssumption DEF TypeOK
<1>3. (r = Vpc /\ want[r] /\ KnowsEgress) \in BOOLEAN
      /\ ((r = Vpc /\ want[r] /\ KnowsEgress) => want[r])
  OBVIOUS
<1>4. CASE PostFails(r) \/ PostLost(r) \/ PollFails(r)
  BY <1>4, BadEnd, EndOnCourse DEF PostFails, PostLost, PollFails, Ends
<1>5. CASE PostActive(r)
  BY <1>1, <1>3, <1>5, ProvisionedHonours DEF PostActive
<1>6. CASE PostPending(r)
  <2>1. CASE Finish(r, "failed")
    BY <2>1, BadEnd, EndOnCourse DEF Ends
  <2>2. CASE Goto(r, "poll")
    <3>1. option'[r] => want[r]
      BY <1>1, <1>3, <1>6 DEF PostPending
    <3>2. QED
      BY <2>2, <3>1, GotoCourse DEF OnCourse
  <2>3. QED
    BY <1>6, <2>1, <2>2 DEF PostPending
<1>7. CASE PollActive(r)
  BY <1>7, GotoCourse DEF PollActive, OnCourse, platform
<1>8. CASE Refetch(r)
  <2>1. option'[r] = option[r] /\ (option[r] => want[r])
    BY <1>8 DEF Refetch, OnCourse, platform
  <2>2. QED
    BY <1>2, <1>8, <2>1, ProvisionedHonours DEF Refetch
<1>9. QED
  BY <1>4, <1>5, <1>6, <1>7, <1>8

LEMMA ChangeHonours ==
  ASSUME NEW r \in R, TypeOK, OnCourse(r),
         \/ WriteFails(r) \/ ReadBack(r) \/ (r = Vpc /\ PatchVpc)
         \/ r \in VNets /\ (SetIsolation(r) \/ PatchVNet(r))
  PROVE  OnCourse(r)' /\ (EndsWell(r) => Honoured(r))
<1>1. CASE WriteFails(r)
  BY <1>1, BadEnd, EndOnCourse DEF WriteFails, Ends
<1>2. CASE ReadBack(r)
  <2>1. Save(r, option[r], FALSE) /\ option'[r] = option[r] /\ option[r] = want[r]
    BY <1>2 DEF ReadBack, OnCourse, platform
  <2>2. tf'[r] = [there |-> TRUE, tainted |-> FALSE, option |-> option[r]]
    BY <2>1, SavedIs, Zenon
  <2>3. Honoured(r)
    BY <2>1, <2>2, Zenon DEF Honoured
  <2>4. Finish(r, "ok")
    BY <1>2 DEF ReadBack
  <2>5. OnCourse(r)'
    BY <2>4, EndOnCourse DEF Ends
  <2>6. QED
    BY <2>3, <2>5
<1>3. CASE r = Vpc /\ PatchVpc
  <2>1. CASE option'[Vpc] = want[Vpc]
    <3>1. Save(r, want[r], FALSE) /\ Finish(r, "ok")
      BY <1>3, <2>1 DEF PatchVpc
    <3>2. tf'[r] = [there |-> TRUE, tainted |-> FALSE, option |-> want[r]]
      BY <3>1, SavedIs
    <3>3. OnCourse(r)'
      BY <3>1, EndOnCourse DEF Ends
    <3>4. QED
      BY <1>3, <2>1, <3>2, <3>3 DEF Honoured
  <2>2. CASE option'[Vpc] # want[Vpc]
    <3>1. Finish(r, "failed")
      BY <1>3, <2>2 DEF PatchVpc
    <3>2. QED
      BY <3>1, BadEnd, EndOnCourse DEF Ends
  <2>3. QED
    BY <2>1, <2>2
<1>4. CASE r \in VNets /\ SetIsolation(r)
  <2>1. option'[r] = want[r]
    BY <1>4 DEF SetIsolation, TypeOK
  <2>2. CASE pc[r] = "isolate"
    <3>1. Save(r, TRUE, FALSE) /\ Finish(r, "ok") /\ want[r] = TRUE
      BY <1>4, <2>2 DEF SetIsolation, OnCourse, TypeOK
    <3>2. QED
      BY <2>1, <3>1, SavedIs, EndOnCourse DEF Ends, Honoured
  <2>3. CASE pc[r] # "isolate"
    <3>1. Goto(r, "patch") \/ Goto(r, "read")
      BY <1>4, <2>3 DEF SetIsolation
    <3>2. QED
      BY <2>1, <3>1, GotoCourse DEF OnCourse
  <2>4. QED
    BY <2>2, <2>3
<1>5. CASE r \in VNets /\ PatchVNet(r)
  BY <1>5, GotoCourse DEF PatchVNet, OnCourse, platform, Exists
<1>6. QED
  BY <1>1, <1>2, <1>3, <1>4, <1>5

LEMMA DeleteHonours ==
  ASSUME NEW r \in R, TypeOK, OnCourse(r),
         \/ DeleteAccepted(r) \/ DeleteMissing(r) \/ DeleteFatal(r)
         \/ GoneSeen(r) \/ GoneTimeout(r) \/ DeleteVNetConflict(r)
         \/ (r = Vpc /\ (DeleteVpcConflict \/ DeleteBudgetSpent))
  PROVE  OnCourse(r)' /\ (EndsWell(r) => Honoured(r))
<1>1. op[r] = "delete" /\ ~EndsWell(r)
  BY DEF DeleteAccepted, DeleteMissing, DeleteFatal, GoneSeen, GoneTimeout,
     DeleteVNetConflict, DeleteVpcConflict, DeleteBudgetSpent, OnCourse, EndsWell
<1>2. CASE Ends(r)
  BY <1>1, <1>2, EndOnCourse
<1>3. CASE Goto(r, "gone")
  BY <1>1, <1>3, GotoCourse DEF OnCourse
<1>4. CASE r = Vpc /\ DeleteVpcConflict
  BY <1>1, <1>4 DEF DeleteVpcConflict, OnCourse
<1>5. QED
  BY <1>2, <1>3, <1>4 DEF DeleteAccepted, DeleteMissing, DeleteFatal, GoneSeen, GoneTimeout,
     DeleteVNetConflict, DeleteBudgetSpent, Ends

LEMMA StartOnCourse ==
  ASSUME NEW r \in R, TypeOK, Start(r)
  PROVE  OnCourse(r)' /\ pc'[r] # "idle"
<1>1. ASSUME NEW s, NEW o, NEW w, NEW named, Begin(r, s, o, w, named)
      PROVE  /\ pc'[r] = s /\ op'[r] = o /\ want'[r] = w /\ option'[r] = option[r]
  BY <1>1 DEF Begin, platform, TypeOK
<1>2. ASSUME NEW w, StartCreate(r, w)
      PROVE  OnCourse(r)' /\ pc'[r] # "idle"
  <2>1. pc'[r] = "post"
    BY <1>1, <1>2 DEF StartCreate
  <2>2. QED
    BY <2>1 DEF OnCourse
<1>3. ASSUME NEW w, r = Vpc, StartUpdateVpc(w)
      PROVE  OnCourse(r)' /\ pc'[r] # "idle"
  <2>1. tf[r].option = option[r] /\ r \notin VNets
    BY <1>3, VpcVnetAssumption DEF StartUpdateVpc, Refreshed
  <2>2. Begin(r, IF w = tf[r].option THEN "read" ELSE "patch", "update", w, FALSE)
    BY <1>3, Zenon DEF StartUpdateVpc
  <2>3. /\ pc'[r] = IF w = tf[r].option THEN "read" ELSE "patch"
        /\ want'[r] = w /\ option'[r] = option[r]
    BY <1>1, <2>2
  <2>4. QED
    BY <2>1, <2>3 DEF OnCourse
<1>4. ASSUME NEW w, NEW named, StartUpdateVNet(r, w, named)
      PROVE  OnCourse(r)' /\ pc'[r] # "idle"
  <2>1. tf[r].option = option[r]
    BY <1>4 DEF StartUpdateVNet, Refreshed
  <2>2. CASE w # tf[r].option
    BY <1>1, <1>4, <2>2 DEF StartUpdateVNet, OnCourse
  <2>3. CASE w = tf[r].option
    BY <1>1, <1>4, <2>1, <2>3 DEF StartUpdateVNet, OnCourse
  <2>4. QED
    BY <2>2, <2>3
<1>5. CASE StartDelete(r)
  <2>1. pc'[r] = "delete" /\ op'[r] = "delete"
    BY <1>1, <1>5 DEF StartDelete
  <2>2. QED
    BY <2>1 DEF OnCourse
<1>6. QED
  BY <1>2, <1>3, <1>4, <1>5 DEF Start

\* Everybody else's steps.
LEMMA OthersLeave ==
  ASSUME NEW r \in R, TypeOK, Start(r) \/ Refresh(r) \/ Proceed(r), NEW s \in R \ {r}
  PROVE  /\ pc'[s] = pc[s] /\ op'[s] = op[s] /\ want'[s] = want[s] /\ option'[s] = option[s]
         /\ Exists(s)' => Exists(s)
<1>1. CASE Start(r)
  <2>1. \E step, o, w, named : Begin(r, step, o, w, named)
    BY <1>1, Zenon DEF Start, StartCreate, StartUpdateVpc, StartUpdateVNet, StartDelete
  <2>2. QED
    BY <2>1 DEF Begin, platform, Exists, TypeOK
<1>2. CASE Refresh(r)
  BY <1>2 DEF Refresh, platform, Exists
<1>3. CASE Proceed(r)
  <2>1. pc'[s] = pc[s] /\ (Exists(s)' => Exists(s))
    BY <1>3, PostLast
  <2>2. UNCHANGED <<op, want>> \/ Ends(r)
    BY <1>3, Zenon DEF Proceed, PostFails, PostLost, PostActive, PostPending, PollActive, PollFails,
       Refetch, Provisioned, WriteFails, ReadBack, PatchVpc, SetIsolation, PatchVNet,
       DeleteAccepted, DeleteMissing, DeleteFatal, GoneSeen, GoneTimeout, DeleteVpcConflict,
       DeleteBudgetSpent, DeleteVNetConflict, Goto, Ends
  <2>3. op'[s] = op[s] /\ want'[s] = want[s]
    BY <2>2 DEF Ends, Finish, TypeOK
  <2>4. UNCHANGED option \/ \E b : option' = [option EXCEPT ![r] = b]
    <3>1. CASE \/ PostFails(r) \/ PostLost(r) \/ PostActive(r) \/ PostPending(r)
               \/ PollActive(r) \/ PollFails(r) \/ Refetch(r)
      BY <3>1 DEF PostFails, PostLost, PostActive, PostPending, Born, PollActive, PollFails,
         Refetch, platform
    <3>2. CASE \/ WriteFails(r) \/ ReadBack(r) \/ (r = Vpc /\ PatchVpc)
               \/ r \in VNets /\ (SetIsolation(r) \/ PatchVNet(r))
      BY <3>2 DEF WriteFails, ReadBack, PatchVpc, SetIsolation, PatchVNet, platform
    <3>3. CASE \/ DeleteAccepted(r) \/ DeleteMissing(r) \/ DeleteFatal(r)
               \/ GoneSeen(r) \/ GoneTimeout(r) \/ DeleteVNetConflict(r)
               \/ (r = Vpc /\ (DeleteVpcConflict \/ DeleteBudgetSpent))
      BY <3>3 DEF DeleteAccepted, DeleteMissing, DeleteFatal, GoneSeen, GoneTimeout,
         DeleteVNetConflict, DeleteVpcConflict, DeleteBudgetSpent, Accept, platform
    <3>4. QED
      BY <1>3, <3>1, <3>2, <3>3 DEF Proceed
  <2>5. option'[s] = option[s]
    BY <2>4 DEF TypeOK
  <2>6. QED
    BY <2>1, <2>3, <2>5
<1>4. QED
  BY <1>1, <1>2, <1>3

LEMMA PlatformCourse ==
  ASSUME NEW s \in R, TypeOK, OnCourse(s), Platform
  PROVE  OnCourse(s)'
<1>1. UNCHANGED <<pc, op, want>>
  BY DEF Platform, Settle, Vanish, TeardownFails, OutsideDelete, Attach, Detach, Outside, Own
<1>2. Exists(s)' => Exists(s)
  BY PlatformStep
<1>3. option'[s] = option[s] \/ (option'[s] = FALSE /\ ~Exists(s)')
  BY DEF Platform, Settle, Vanish, TeardownFails, OutsideDelete, Attach, Detach, Accept, Exists, TypeOK
<1>4. QED
  BY <1>1, <1>2, <1>3 DEF OnCourse

LEMMA IntentStep ==
  ASSUME TypeOK, CourseInv, [Next]_vars
  PROVE  /\ CourseInv'
         /\ \A r \in R : pc[r] # "idle" /\ EndsWell(r) => Honoured(r)
<1>1. ASSUME NEW r \in R, Start(r) \/ Refresh(r) \/ Proceed(r)
      PROVE  /\ CourseInv'
             /\ \A s \in R : pc[s] # "idle" /\ EndsWell(s) => Honoured(s)
  <2>1. \A s \in R \ {r} : OnCourse(s)' /\ ~(pc[s] # "idle" /\ EndsWell(s))
    BY <1>1, OthersLeave DEF CourseInv, OnCourse, EndsWell
  <2>2. CASE Start(r)
    BY <2>1, <2>2, StartOnCourse DEF CourseInv, EndsWell
  <2>3. CASE Refresh(r)
    BY <2>1, <2>3 DEF Refresh, Ready, CourseInv, OnCourse, platform, Exists
  <2>4. CASE Proceed(r)
    <3>1. OnCourse(r)
      BY DEF CourseInv
    <3>2. OnCourse(r)' /\ (EndsWell(r) => Honoured(r))
      BY <2>4, <3>1, CreateHonours, ChangeHonours, DeleteHonours DEF Proceed
    <3>3. QED
      BY <2>1, <3>2 DEF CourseInv
  <2>5. QED
    BY <1>1, <2>2, <2>3, <2>4
<1>2. CASE Platform
  <2>1. UNCHANGED pc
    BY <1>2, PlatformStep DEF R
  <2>2. QED
    BY <1>2, <2>1, PlatformCourse DEF CourseInv, EndsWell
<1>3. CASE UNCHANGED vars
  BY <1>3 DEF vars, platform, CourseInv, OnCourse, EndsWell, Exists
<1>4. QED
  BY <1>1, <1>2, <1>3 DEF Next, Quiet

\* A create or an update of a VPC or VNet that reports success left the platform
\* and the state with what the plan asked for, whatever it met on the way.
THEOREM SuccessIsPlanned == Spec => IntentHonoured
<1> DEFINE Step == \A r \in R : pc[r] # "idle" /\ pc'[r] = "idle" /\ outcome'[r] = "ok"
                                /\ op[r] \in {"create", "update"}
                     => /\ option'[r] = want[r]
                        /\ tf'[r] = [there |-> TRUE, tainted |-> FALSE, option |-> want[r]]
<1>1. Init => CourseInv
  BY DEF Init, CourseInv, OnCourse
<1>2. TypeOK /\ CourseInv /\ [Next]_vars => CourseInv'
  BY IntentStep
<1>3. TypeOK /\ CourseInv /\ [Next]_vars => [Step]_vars
  BY IntentStep DEF EndsWell, Honoured
<1>4. QED
  BY <1>1, <1>2, <1>3, TypeCorrect, PTL DEF Spec, IntentHonoured

=============================================================================
