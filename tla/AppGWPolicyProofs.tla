--------------------------- MODULE AppGWPolicyProofs ---------------------------
(***************************************************************************)
(* Theorems about AppGWPolicy, for any number of listeners, routes and     *)
(* policies, any platform capabilities and any bounds.                     *)
(***************************************************************************)
EXTENDS AppGWPolicy, TLAPS

-----------------------------------------------------------------------------
(* Type correctness.                                                       *)

\* TypeOK is only the conjunction of its three parts.
USE DEF TypeOK

LEMMA NilType == Nil \in Int /\ Nil \notin Nat /\ 0 \in Nat \union {Nil}
BY DEF Nil

LEMMA RequestTypes ==
  /\ NoRequest \in Requests /\ NoState \in States
  /\ \A r \in Res, w \in Documents \union {Unowned}, b \in BOOLEAN : Update(r, w, b) \in Requests
  /\ \A w \in Documents \union {Unowned} :
       [op |-> "create", want |-> w, body |-> w, rotate |-> FALSE] \in Requests
  /\ [NoRequest EXCEPT !.op = "delete"] \in Requests
BY DEF NoRequest, NoState, Requests, States, Update, Nil

LEMMA FinishTypes ==
  ASSUME NEW r \in Res, NEW result \in {"ok", "error"}, NEW w \in Nat \union {Nil},
         LocalTypes, Finish(r, result, w)
  PROVE  LocalTypes'
BY RequestTypes DEF Finish, LocalTypes, Steps

LEMMA FailTypes ==
  ASSUME NEW r \in Res, LocalTypes, Fail(r)
  PROVE  LocalTypes'
BY FinishTypes DEF Fail

LEMMA SucceedTypes ==
  ASSUME NEW r \in Res, NEW w \in Nat \union {Nil}, LocalTypes, Succeed(r, w)
  PROVE  LocalTypes'
BY FinishTypes DEF Succeed

LEMMA ContinueTypes ==
  ASSUME NEW r \in Res, NEW s \in Steps, NEW a \in Nat \union {Nil},
         NEW w \in Nat \union {Nil}, LocalTypes, Continue(r, s, a, w)
  PROVE  LocalTypes'
BY DEF Continue, LocalTypes

LEMMA BeginTypes ==
  ASSUME NEW r \in Res, NEW s \in Steps, NEW request \in Requests, TypeOK,
         Begin(r, s, request)
  PROVE  TypeOK'
BY DEF Begin, platform, Nil, PlatformTypes, LocalTypes, OtherTypes

LEMMA SetStateTypes ==
  ASSUME NEW r \in Res, NEW doc \in Documents \union {Unowned},
         NEW rev \in Nat \union {Nil}, NEW tainted \in BOOLEAN,
         tf \in [Res -> States], SetState(r, doc, rev, tainted)
  PROVE  tf' \in [Res -> States]
BY DEF SetState, Visible, States

LEMMA ForgetTypes ==
  ASSUME NEW r \in Res, tf \in [Res -> States], Forget(r)
  PROVE  tf' \in [Res -> States]
BY RequestTypes DEF Forget

LEMMA NextGenType ==
  ASSUME NEW d, gen \in Nat
  PROVE  NextGen(d) \in Nat /\ NextGen(d) >= gen
BY DEF NextGen

LEMMA AnswersType ==
  ASSUME NEW g \in Nat
  PROVE  Answers(g) \subseteq Nat \union {Nil}
BY DEF Answers

LEMMA CommitTypes ==
  ASSUME NEW d \in DocMaps, PlatformTypes, Commit(d)
  PROVE  PlatformTypes' /\ gen' >= gen
BY NextGenType DEF Commit, PlatformTypes

LEMMA StoredType ==
  ASSUME NEW r \in Res, PlatformTypes, LocalTypes
  PROVE  Stored(r) \subseteq Documents
BY DEF Stored, PlatformTypes, LocalTypes, Requests, DocMaps, Documents

LEMMA ViewTypes ==
  ASSUME PlatformTypes, NEW v \in Views
  PROVE  v \in Snapshots
BY DEF Views, Primary, PlatformTypes, Snapshots, DocMaps

LEMMA AfterWriteTypes ==
  ASSUME NEW r \in Res, NEW doc, NEW rev \in Nat \union {Nil}, LocalTypes,
         AfterWrite(r, doc, rev)
  PROVE  LocalTypes'
BY SucceedTypes, FailTypes, ContinueTypes DEF AfterWrite, Steps

LEMMA GotListenerTypes ==
  ASSUME NEW c \in Res, NEW doc \in Documents, NEW rev \in Nat \union {Nil},
         NEW w \in Nat \union {Nil}, LocalTypes, tf \in [Res -> States],
         GotListener(c, doc, rev, w)
  PROVE  LocalTypes' /\ tf' \in [Res -> States]
<1>1. Larger(accepted[c], rev) \in Nat \union {Nil}
  BY DEF Larger, LocalTypes
<1>2. QED
  BY <1>1, SucceedTypes, FailTypes, ContinueTypes, SetStateTypes
  DEF GotListener, Steps

LEMMA StartTypes ==
  ASSUME NEW r \in Res, TypeOK, Start(r)
  PROVE  TypeOK'
<1>1. ASSUME NEW want \in Documents \union {Unowned}, StartCreate(r, want)
      PROVE  TypeOK'
  BY <1>1, BeginTypes, RequestTypes DEF StartCreate, Steps
<1>2. ASSUME NEW want \in Documents \union {Unowned}, NEW rotate \in BOOLEAN,
             StartUpdateListener(r, want, rotate)
      PROVE  TypeOK'
  BY <1>2, BeginTypes, RequestTypes DEF StartUpdateListener, Steps
<1>3. ASSUME NEW want \in Documents \union {Unowned}, StartUpdateRoute(r, want)
      PROVE  TypeOK'
  BY <1>3, BeginTypes, RequestTypes DEF StartUpdateRoute, Steps
<1>4. ASSUME NEW want \in Documents \union {Unowned}, NEW other \in BOOLEAN,
             StartUpdateGateway(want, other)
      PROVE  TypeOK'
  BY <1>4, BeginTypes, RequestTypes DEF StartUpdateGateway, Steps, Res
<1>5. ASSUME StartDelete(r)
      PROVE  TypeOK'
  BY <1>5, BeginTypes, RequestTypes DEF StartDelete, Steps
<1>6. QED
  BY <1>1, <1>2, <1>3, <1>4, <1>5 DEF Start

LEMMA RefreshTypes ==
  ASSUME NEW r \in Res, TypeOK, Refresh(r)
  PROVE  TypeOK'
<1>1. PICK v \in Views :
        IF Exists(v, r) /\ Exists(v, Gateway)
        THEN \E rev \in Answers(v.gen) : SetState(r, v.docs[r], rev, tf[r].tainted)
        ELSE Forget(r)
  BY DEF Refresh
<1>2. v.docs[r] \in Documents \union {Absent} /\ Answers(v.gen) \subseteq Nat \union {Nil}
  BY ViewTypes, AnswersType DEF Snapshots, DocMaps
<1>3. tf[r].tainted \in BOOLEAN /\ tf \in [Res -> States]
  BY DEF OtherTypes, States
<1>4. CASE Exists(v, r) /\ Exists(v, Gateway)
  <2>1. v.docs[r] \in Documents
    BY <1>2, <1>4 DEF Exists
  <2>2. tf' \in [Res -> States]
    BY <1>1, <1>2, <1>3, <1>4, <2>1, SetStateTypes
  <2>3. QED
    BY <2>2 DEF Refresh, platform, PlatformTypes, LocalTypes, OtherTypes
<1>5. CASE ~(Exists(v, r) /\ Exists(v, Gateway))
  <2>1. tf' \in [Res -> States]
    BY <1>1, <1>3, <1>5, ForgetTypes
  <2>2. QED
    BY <2>1 DEF Refresh, platform, PlatformTypes, LocalTypes, OtherTypes
<1>6. QED
  BY <1>4, <1>5

\* A write under the lock commits one document of r.
LEMMA WriteTypes ==
  ASSUME NEW r \in Res, NEW d \in Documents \union {Absent}, TypeOK,
         Commit([docs EXCEPT ![r] = d])
  PROVE  PlatformTypes' /\ Answers(NextGen([docs EXCEPT ![r] = d])) \subseteq Nat \union {Nil}
BY CommitTypes, NextGenType, AnswersType DEF PlatformTypes, DocMaps

LEMMA LockedTypes ==
  ASSUME NEW r \in Res, TypeOK,
         \/ Acquire(r) \/ CancelAcquire(r) \/ ReadRevision(r) \/ RevisionFails(r)
         \/ SendFails(r)
  PROVE  TypeOK'
<1>1. CASE Acquire(r)
  BY <1>1 DEF Acquire, platform, Steps, PlatformTypes, LocalTypes, OtherTypes
<1>2. CASE ReadRevision(r)
  <2>1. \A v \in Views : Answers(v.gen) \subseteq Nat \union {Nil}
    BY ViewTypes, AnswersType DEF Snapshots
  <2>2. \E rev \in Nat : base' = [base EXCEPT ![r] = rev]
    BY <1>2, <2>1 DEF ReadRevision
  <2>3. QED
    BY <1>2, <2>2 DEF ReadRevision, platform, Steps, PlatformTypes, LocalTypes, OtherTypes
<1>3. CASE CancelAcquire(r) \/ RevisionFails(r) \/ SendFails(r)
  <2>1. LocalTypes'
    BY <1>3, FailTypes DEF CancelAcquire, RevisionFails, SendFails
  <2>2. PlatformTypes' /\ OtherTypes'
    BY <1>3 DEF CancelAcquire, RevisionFails, SendFails, Unlock, platform,
                           PlatformTypes, OtherTypes
  <2>3. QED
    BY <2>1, <2>2
<1>4. QED
  BY <1>1, <1>2, <1>3

LEMMA SendLostTypes ==
  ASSUME NEW r \in Res, TypeOK, SendLost(r)
  PROVE  TypeOK'
<1>1. PICK d \in Documents \union {Absent} : Commit([docs EXCEPT ![r] = d])
  BY StoredType DEF SendLost
<1>2. QED
  BY <1>1, WriteTypes, FailTypes DEF SendLost, Unlock, OtherTypes

LEMMA PostChildTypes ==
  ASSUME NEW c \in Res, TypeOK, PostChild(c)
  PROVE  TypeOK'
<1> DEFINE D(doc) == [docs EXCEPT ![c] = doc]
<1>1. PICK doc, rev :
        /\ doc \in Documents /\ rev \in Answers(NextGen(D(doc)))
        /\ Commit(D(doc)) /\ Unlock
        /\ SetState(c, doc, rev, ~NothingToWait(c, rev))
        /\ AfterWrite(c, doc, rev)
  BY StoredType DEF PostChild
<1>2. PlatformTypes' /\ rev \in Nat \union {Nil}
  BY <1>1, WriteTypes
<1>3. LocalTypes'
  BY <1>1, <1>2, AfterWriteTypes
<1>4. NothingToWait(c, rev) \in BOOLEAN
  BY DEF NothingToWait
<1>5. tf' \in [Res -> States]
  BY <1>1, <1>2, <1>4, SetStateTypes DEF OtherTypes
<1>6. QED
  BY <1>1, <1>2, <1>3, <1>5 DEF PostChild, Unlock, OtherTypes

LEMMA PatchRouteTypes ==
  ASSUME NEW c \in Res, TypeOK, PatchRoute(c)
  PROVE  TypeOK'
<1> DEFINE D(doc) == [docs EXCEPT ![c] = doc]
<1>1. PICK doc, rev :
        /\ doc \in Documents /\ rev \in Answers(NextGen(D(doc)))
        /\ Commit(D(doc)) /\ Unlock
        /\ SetState(c, doc, rev, FALSE) /\ AfterWrite(c, doc, rev)
  BY StoredType DEF PatchRoute
<1>2. PlatformTypes' /\ rev \in Nat \union {Nil}
  BY <1>1, WriteTypes
<1>3. LocalTypes' /\ tf' \in [Res -> States]
  BY <1>1, <1>2, AfterWriteTypes, SetStateTypes DEF OtherTypes
<1>4. QED
  BY <1>1, <1>2, <1>3 DEF PatchRoute, Unlock, OtherTypes

LEMMA PatchListenerTypes ==
  ASSUME NEW c \in Res, TypeOK, PatchListener(c)
  PROVE  TypeOK'
<1> DEFINE D(doc) == [docs EXCEPT ![c] = doc]
<1>1. PICK doc, rev :
        /\ doc \in Documents /\ rev \in Answers(NextGen(D(doc)))
        /\ Commit(D(doc)) /\ Unlock
        /\ SetState(c, doc, rev, FALSE)
        /\ IF Confirmed(c, doc) THEN Continue(c, "reread", rev, rev) ELSE Fail(c)
  BY StoredType DEF PatchListener
<1>2. PlatformTypes' /\ rev \in Nat \union {Nil}
  BY <1>1, WriteTypes
<1>3. LocalTypes' /\ tf' \in [Res -> States]
  BY <1>1, <1>2, ContinueTypes, FailTypes, SetStateTypes DEF OtherTypes, Steps
<1>4. QED
  BY <1>1, <1>2, <1>3 DEF PatchListener, Unlock, OtherTypes

LEMMA PatchGatewayTypes ==
  ASSUME TypeOK, PatchGateway
  PROVE  TypeOK'
<1> DEFINE D(doc) == [docs EXCEPT ![Gateway] = doc]
<1>0. Gateway \in Res
  BY DEF Res
<1>1. PICK doc, rev :
        /\ doc \in Documents /\ rev \in Answers(NextGen(D(doc)))
        /\ Commit(D(doc)) /\ Unlock
        /\ IF NothingToWait(Gateway, rev)
           THEN Continue(Gateway, "settle", Nil, rev) /\ UNCHANGED tf
           ELSE /\ SetState(Gateway, doc, rev, FALSE)
                /\ IF Confirmed(Gateway, doc)
                   THEN Continue(Gateway, "settle", rev, rev)
                   ELSE Fail(Gateway)
  BY <1>0, StoredType DEF PatchGateway
<1>2. PlatformTypes' /\ rev \in Nat \union {Nil}
  BY <1>0, <1>1, WriteTypes
<1>3. LocalTypes' /\ tf' \in [Res -> States]
  BY <1>0, <1>1, <1>2, ContinueTypes, FailTypes, SetStateTypes DEF OtherTypes, Steps
<1>4. QED
  BY <1>1, <1>2, <1>3 DEF PatchGateway, Unlock, OtherTypes

LEMMA DeleteTypes ==
  ASSUME NEW c \in Res, TypeOK, DeleteCommitted(c) \/ DeleteMissing(c)
  PROVE  TypeOK'
<1>0. Known(c) \in Nat
  BY DEF Known, OtherTypes, States, Nil
<1>1. CASE DeleteCommitted(c)
  <2> DEFINE d == [docs EXCEPT ![c] = Absent]
  <2>1. PlatformTypes' /\ Answers(NextGen(d)) \subseteq Nat \union {Nil}
    BY <1>1, WriteTypes DEF DeleteCommitted
  <2>2. PICK rev \in Nat \union {Nil} :
            \/ rev <= 0 /\ Known(c) = 0 /\ Forget(c) /\ Succeed(c, rev)
            \/ rev < Known(c) /\ Fail(c) /\ UNCHANGED tf
            \/ rev > 0 /\ rev >= Known(c) /\ Continue(c, "wait", rev, rev) /\ UNCHANGED tf
    BY <1>1, <2>1 DEF DeleteCommitted
  <2>3. LocalTypes' /\ tf' \in [Res -> States]
    BY <2>2, SucceedTypes, FailTypes, ContinueTypes, ForgetTypes DEF OtherTypes, Steps
  <2>4. QED
    BY <1>1, <2>1, <2>3 DEF DeleteCommitted, Unlock, OtherTypes
<1>2. CASE DeleteMissing(c)
  <2>1. LocalTypes' /\ tf' \in [Res -> States]
    BY <1>0, <1>2, SucceedTypes, ContinueTypes, ForgetTypes
    DEF DeleteMissing, OtherTypes, Steps
  <2>2. QED
    BY <1>2, <2>1 DEF DeleteMissing, Unlock, OtherTypes, PlatformTypes, platform
<1>3. QED
  BY <1>1, <1>2

LEMMA UnlockedTypes ==
  ASSUME NEW r \in Res, TypeOK,
         \/ RotateCertificate(r) \/ RotationLost(r) \/ RereadListener(r) \/ GiveUp(r)
         \/ WaitDone(r) \/ WaitRemoved(r)
  PROVE  TypeOK'
<1>1. CASE RotateCertificate(r)
  <2>1. PlatformTypes' /\ Answers(NextGen(docs)) \subseteq Nat \union {Nil}
    BY <1>1, CommitTypes, NextGenType, AnswersType DEF RotateCertificate, PlatformTypes
  <2>2. docs[r] \in Documents
    BY <1>1 DEF RotateCertificate, Exists, Primary, PlatformTypes, DocMaps
  <2>3. PICK rev \in Nat \union {Nil} : GotListener(r, docs[r], rev, Larger(wrote[r], rev))
    BY <1>1, <2>1 DEF RotateCertificate
  <2>4. Larger(wrote[r], rev) \in Nat \union {Nil}
    BY DEF Larger, LocalTypes
  <2>5. LocalTypes' /\ tf' \in [Res -> States]
    BY <2>2, <2>3, <2>4, GotListenerTypes DEF OtherTypes
  <2>6. QED
    BY <1>1, <2>1, <2>5 DEF RotateCertificate, OtherTypes
<1>2. CASE RereadListener(r)
  <2>1. PICK v, rev :
          /\ v \in Views /\ rev \in Answers(v.gen)
          /\ Exists(v, Gateway) /\ Exists(v, r)
          /\ GotListener(r, v.docs[r], rev, wrote[r])
    BY <1>2 DEF RereadListener
  <2>2. v.docs[r] \in Documents /\ rev \in Nat \union {Nil}
    BY <2>1, ViewTypes, AnswersType DEF Exists, Snapshots, DocMaps
  <2>3. LocalTypes' /\ tf' \in [Res -> States]
    BY <2>1, <2>2, GotListenerTypes DEF LocalTypes, OtherTypes
  <2>4. QED
    BY <1>2, <2>3 DEF RereadListener, platform, PlatformTypes, OtherTypes
<1>3. CASE GiveUp(r)
  BY <1>3, FailTypes DEF GiveUp, platform, PlatformTypes, OtherTypes
<1>4. CASE WaitDone(r)
  <2>1. PICK v \in Views :
          IF Exists(v, r) /\ Confirmed(r, v.docs[r])
          THEN /\ \E rev \in Answers(v.gen) : SetState(r, v.docs[r], rev, FALSE)
               /\ Succeed(r, wrote[r])
          ELSE Fail(r) /\ UNCHANGED tf
    BY <1>4 DEF WaitDone
  <2>2. /\ Answers(v.gen) \subseteq Nat \union {Nil}
        /\ Exists(v, r) => v.docs[r] \in Documents
    BY ViewTypes, AnswersType DEF Exists, Snapshots, DocMaps
  <2>3. LocalTypes' /\ tf' \in [Res -> States]
    BY <2>1, <2>2, SucceedTypes, FailTypes, SetStateTypes DEF LocalTypes, OtherTypes
  <2>4. QED
    BY <1>4, <2>3 DEF WaitDone, platform, PlatformTypes, OtherTypes
<1>5. CASE WaitRemoved(r)
  BY <1>5, SucceedTypes, ForgetTypes
  DEF WaitRemoved, platform, PlatformTypes, LocalTypes, OtherTypes
<1>6. CASE RotationLost(r)
  <2>1. PlatformTypes'
    BY <1>6, CommitTypes DEF RotationLost, PlatformTypes
  <2>2. QED
    BY <1>6, <2>1, FailTypes DEF RotationLost, OtherTypes
<1>7. QED
  BY <1>1, <1>2, <1>3, <1>4, <1>5, <1>6

LEMMA SettleTypes ==
  ASSUME TypeOK, SettleGateway
  PROVE  TypeOK'
<1>0. Gateway \in Res
  BY DEF Res
<1> DEFINE known(rev) == IF accepted[Gateway] = Nil THEN rev ELSE accepted[Gateway]
<1>a. PICK v \in Views : \E rev \in Answers(v.gen) :
        /\ Exists(v, Gateway)
        /\ \/ known(rev) = Nil /\ Fail(Gateway) /\ UNCHANGED tf
           \/ known(rev) # Nil /\ Continue(Gateway, "wait", known(rev), wrote[Gateway])
              /\ UNCHANGED tf
           \/ SetState(Gateway, v.docs[Gateway], rev, FALSE)
              /\ Succeed(Gateway, wrote[Gateway])
  BY DEF SettleGateway
<1>1. PICK rev \in Answers(v.gen) :
        /\ Exists(v, Gateway)
        /\ \/ known(rev) = Nil /\ Fail(Gateway) /\ UNCHANGED tf
           \/ known(rev) # Nil /\ Continue(Gateway, "wait", known(rev), wrote[Gateway])
              /\ UNCHANGED tf
           \/ SetState(Gateway, v.docs[Gateway], rev, FALSE)
              /\ Succeed(Gateway, wrote[Gateway])
  BY <1>a
<1>2. v.docs[Gateway] \in Documents /\ rev \in Nat \union {Nil}
  BY <1>0, <1>1, ViewTypes, AnswersType DEF Exists, Snapshots, DocMaps
<1>3. known(rev) \in Nat \union {Nil} /\ wrote[Gateway] \in Nat \union {Nil}
  BY <1>0, <1>2 DEF LocalTypes
<1> HIDE DEF known
<1>4. LocalTypes' /\ tf' \in [Res -> States]
  BY <1>0, <1>1, <1>2, <1>3, ContinueTypes, FailTypes, SucceedTypes, SetStateTypes
  DEF OtherTypes, Steps
<1>5. QED
  BY <1>4 DEF SettleGateway, platform, PlatformTypes, OtherTypes

LEMMA ProceedTypes ==
  ASSUME NEW r \in Res, TypeOK, Proceed(r)
  PROVE  TypeOK'
BY LockedTypes, SendLostTypes, PostChildTypes, PatchRouteTypes, PatchListenerTypes,
   PatchGatewayTypes, DeleteTypes, UnlockedTypes, SettleTypes
DEF Proceed

LEMMA PlatformStepTypes ==
  ASSUME TypeOK, Platform
  PROVE  TypeOK'
<1>1. ASSUME NEW role \in Roles, PublishTo(role) \/ DrainOn(role)
      PROVE  TypeOK'
  <2>1. nodes' \in Nodes
    BY <1>1 DEF PublishTo, DrainOn, PlatformTypes, Nodes
  <2>2. QED
    BY <1>1, <2>1 DEF PublishTo, DrainOn, PlatformTypes, local, LocalTypes, OtherTypes
<1>2. CASE CatchUp
  BY <1>2 DEF CatchUp, Primary, PlatformTypes, Snapshots, local, LocalTypes, OtherTypes
<1>3. ASSUME NEW r \in Res, NEW d \in Documents \union {Absent}, OutsideWrite(r, d)
      PROVE  TypeOK'
  <2>1. PlatformTypes'
    BY <1>3, WriteTypes DEF OutsideWrite
  <2>2. QED
    BY <1>3, <2>1 DEF OutsideWrite, Outside, local, LocalTypes, OtherTypes
<1>4. CASE GatewayBreaks
  BY <1>4 DEF GatewayBreaks, Outside, PlatformTypes, local, LocalTypes, OtherTypes
<1>5. CASE GatewayRemoved
  <2>1. docs' \in DocMaps
    BY <1>5 DEF GatewayRemoved, DocMaps
  <2>2. nodes' \in Nodes
    BY <1>5, <2>1 DEF GatewayRemoved, PlatformTypes, Nodes
  <2>3. QED
    BY <1>5, <2>1, <2>2
    DEF GatewayRemoved, Outside, PlatformTypes, local, LocalTypes, OtherTypes
<1>6. QED
  BY <1>1, <1>2, <1>3, <1>4, <1>5 DEF Platform

LEMMA InitTypes == Init => TypeOK
<1> SUFFICES ASSUME Init PROVE TypeOK
  OBVIOUS
<1>1. StartDocs \in DocMaps
  BY DEF StartDocs, DocMaps, Documents
<1>2. [role \in Roles |-> StartNode] \in Nodes
  BY <1>1 DEF StartNode, Nodes
<1>3. tf \in [Res -> States]
  BY RequestTypes DEF Init, States, Documents, Nil
<1>4. QED
  BY <1>1, <1>2, <1>3, RequestTypes, AppGWAssumption
  DEF Init, PlatformTypes, LocalTypes, OtherTypes, Snapshots, Steps

LEMMA NextTypes == TypeOK /\ [Next]_vars => TypeOK'
<1> SUFFICES ASSUME TypeOK, [Next]_vars PROVE TypeOK'
  OBVIOUS
<1>1. CASE UNCHANGED vars
  BY <1>1 DEF vars, platform, local, PlatformTypes, LocalTypes, OtherTypes
<1>2. ASSUME NEW r \in Res, Start(r) \/ Refresh(r) \/ Proceed(r) \/ CancelAcquire(r)
      PROVE  TypeOK'
  BY <1>2, StartTypes, RefreshTypes, ProceedTypes, LockedTypes
<1>3. QED
  BY <1>1, <1>2, PlatformStepTypes DEF Next, Quiet

\* Every variable keeps its type: in particular a handler that sends a policy
\* always has a revision to send with it, never a nil one.
THEOREM TypeCorrect == Spec => []TypeOK
BY InitTypes, NextTypes, PTL DEF Spec

-----------------------------------------------------------------------------
(* The lock.                                                               *)

Window == {"revision", "send"}

\* The handler of r moves to another step and gives the lock back.
Leaves(r) ==
  /\ pc[r] \in Window /\ lock' = Nobody
  /\ \E s \in Steps \ Window : pc' = [pc EXCEPT ![r] = s]

\* It moves outside the window, the lock stays where it is.
Stays(r) ==
  /\ pc[r] \notin Window /\ lock' = lock
  /\ \E s \in Steps \ Window : pc' = [pc EXCEPT ![r] = s]

LEMMA LeavesLock ==
  ASSUME NEW r \in Res, TypeOK, LockInWindow, Leaves(r) \/ Stays(r)
  PROVE  LockInWindow'
BY AppGWAssumption DEF Leaves, Stays, LockInWindow, Window, LocalTypes

LEMMA StartLock ==
  ASSUME NEW r \in Res, Start(r)
  PROVE  Stays(r)
BY DEF Start, StartCreate, StartUpdateListener, StartUpdateRoute, StartUpdateGateway,
       StartDelete, Begin, Stays, Window, Steps

LEMMA FinishMove ==
  ASSUME NEW r \in Res, Fail(r) \/ \E w : Succeed(r, w)
  PROVE  \E s \in Steps \ Window : pc' = [pc EXCEPT ![r] = s]
BY DEF Fail, Succeed, Finish, Window, Steps

LEMMA ContinueMove ==
  ASSUME NEW r \in Res, NEW s \in {"reread", "settle", "wait"}, NEW a, NEW w,
         Continue(r, s, a, w)
  PROVE  \E t \in Steps \ Window : pc' = [pc EXCEPT ![r] = t]
BY DEF Continue, Window, Steps

LEMMA AfterWriteMove ==
  ASSUME NEW r \in Res, NEW doc, NEW rev, AfterWrite(r, doc, rev)
  PROVE  \E s \in Steps \ Window : pc' = [pc EXCEPT ![r] = s]
BY FinishMove, ContinueMove DEF AfterWrite

LEMMA GotListenerMove ==
  ASSUME NEW c \in Res, NEW doc, NEW rev, NEW w, GotListener(c, doc, rev, w)
  PROVE  \E s \in Steps \ Window : pc' = [pc EXCEPT ![c] = s]
BY FinishMove, ContinueMove DEF GotListener

\* Every way out of the window gives the lock back.
LEMMA WriteLeaves ==
  ASSUME NEW r \in Res,
         \/ RevisionFails(r) \/ SendFails(r) \/ SendLost(r) \/ PostChild(r)
         \/ PatchRoute(r) \/ PatchListener(r) \/ (r = Gateway /\ PatchGateway)
         \/ DeleteCommitted(r) \/ DeleteMissing(r)
  PROVE  Leaves(r)
<1>1. RevisionFails(r) \/ SendFails(r) \/ SendLost(r) => Leaves(r)
  BY FinishMove DEF RevisionFails, SendFails, SendLost, Leaves, Window, Unlock
<1>2. PostChild(r) \/ PatchRoute(r) => Leaves(r)
  BY AfterWriteMove DEF PostChild, PatchRoute, Sending, Leaves, Window, Unlock
<1>3. PatchListener(r) => Leaves(r)
  BY FinishMove, ContinueMove DEF PatchListener, Sending, Leaves, Window, Unlock
<1>4. r = Gateway /\ PatchGateway => Leaves(r)
  BY FinishMove, ContinueMove DEF PatchGateway, Sending, Leaves, Window, Unlock
<1>5. DeleteCommitted(r) => Leaves(r)
  BY FinishMove, ContinueMove DEF DeleteCommitted, Sending, Leaves, Window, Unlock
<1>6. DeleteMissing(r) => Leaves(r)
  BY FinishMove, ContinueMove DEF DeleteMissing, Sending, Leaves, Window, Unlock
<1>7. QED
  BY <1>1, <1>2, <1>3, <1>4, <1>5, <1>6

\* Every handler step takes the lock, reads the revision under it, gives it
\* back at the end of the write, or leaves it alone.
LEMMA ProceedLock ==
  ASSUME NEW r \in Res, Proceed(r)
  PROVE  Acquire(r) \/ ReadRevision(r) \/ Leaves(r) \/ Stays(r)
<1>1. RotateCertificate(r) \/ RotationLost(r) \/ RereadListener(r) => Stays(r)
  BY GotListenerMove, FinishMove DEF RotateCertificate, RotationLost, RereadListener, Stays, Window
<1>2. r = Gateway /\ SettleGateway => Stays(r)
  BY FinishMove, ContinueMove DEF SettleGateway, Stays, Window
<1>3. WaitDone(r) \/ WaitRemoved(r) \/ GiveUp(r) => Stays(r)
  BY FinishMove DEF WaitDone, WaitRemoved, GiveUp, Observed, Stays, Window
<1>4. QED
  BY <1>1, <1>2, <1>3, WriteLeaves DEF Proceed

LEMMA PlatformLock ==
  ASSUME Platform
  PROVE  UNCHANGED <<local, lock, tf, lost, ops>>
BY DEF Platform, PublishTo, DrainOn, CatchUp, OutsideWrite, GatewayBreaks,
       GatewayRemoved, Outside

LEMMA LockStep == TypeOK /\ LockInWindow /\ [Next]_vars => LockInWindow'
<1> SUFFICES ASSUME TypeOK, LockInWindow, [Next]_vars PROVE LockInWindow'
  OBVIOUS
<1>1. CASE UNCHANGED <<local, lock>>
  BY <1>1 DEF local, LockInWindow
<1>2. ASSUME NEW r \in Res, Start(r)
      PROVE  LockInWindow'
  BY <1>2, StartLock, LeavesLock
<1>3. ASSUME NEW r \in Res, Refresh(r)
      PROVE  LockInWindow'
  BY <1>3 DEF Refresh, LockInWindow
<1>4. ASSUME NEW r \in Res, CancelAcquire(r)
      PROVE  LockInWindow'
  <2>1. Stays(r)
    BY <1>4, FinishMove DEF CancelAcquire, Stays, Window
  <2>2. QED
    BY <2>1, LeavesLock
<1>5. ASSUME NEW r \in Res, Acquire(r)
      PROVE  LockInWindow'
  BY <1>5, AppGWAssumption DEF Acquire, LockInWindow, LocalTypes
<1>6. ASSUME NEW r \in Res, ReadRevision(r)
      PROVE  LockInWindow'
  BY <1>6 DEF ReadRevision, LockInWindow, LocalTypes
<1>7. ASSUME NEW r \in Res, Proceed(r)
      PROVE  LockInWindow'
  BY <1>5, <1>6, <1>7, ProceedLock, LeavesLock
<1>8. CASE Platform
  BY <1>1, <1>8, PlatformLock
<1>9. QED
  BY <1>1, <1>2, <1>3, <1>4, <1>7, <1>8 DEF Next, Quiet, vars

\* The gateway's mutation lock is held exactly between the revision read and
\* the end of the write, by one handler, whatever fails in between; no handler
\* holds it while it waits for the replicas.
THEOREM LockScope == Spec => []LockInWindow
<1>1. Init => LockInWindow
  BY AppGWAssumption DEF Init, LockInWindow
<1>2. QED
  BY <1>1, TypeCorrect, LockStep, PTL DEF Spec

-----------------------------------------------------------------------------
(* Success means applied.  The inductive invariant adds to AppliedWhenOk   *)
(* that a stale read never shows more drained than there is, and that a    *)
(* handler never waits for less than the revision its own write committed. *)

StaleIsBehind == \A role \in Roles : ro.nodes[role].cleared <= nodes[role].cleared

WaitsForOwnWrite ==
  \A r \in Res :
    /\ pc[r] = "wait" => wrote[r] <= accepted[r]
    /\ pc[r] \in {"reread", "settle"} => wrote[r] <= accepted[r] \/ wrote[r] <= 0

\* A handler that is running has not reported anything yet.
RunningIsOpen == \A r \in Res : pc[r] # "idle" => outcome[r] = "none"

Applied(w) == \A role \in Roles : nodes[role].cleared >= w
AppliedInv == TypeOK /\ StaleIsBehind /\ WaitsForOwnWrite /\ RunningIsOpen
              /\ AppliedWhenOk

\* What a step on the platform may not undo.
Grows == \A role \in Roles : nodes'[role].cleared >= nodes[role].cleared

\* What a step of a handler has to preserve.
Preserved == WaitsForOwnWrite' /\ RunningIsOpen' /\ AppliedWhenOk'

LEMMA ClearedTypes ==
  ASSUME TypeOK, NEW role \in Roles
  PROVE  nodes[role].cleared \in Nat /\ ro.nodes[role].cleared \in Nat
BY DEF PlatformTypes, Snapshots, Nodes

LEMMA FinishApplied ==
  ASSUME NEW r \in Res, NEW w \in Nat \union {Nil}, AppliedInv, TypeOK', Grows,
         Fail(r) \/ (Succeed(r, w) /\ Applied(w))
  PROVE  Preserved
<1>1. WaitsForOwnWrite' /\ RunningIsOpen'
  BY DEF AppliedInv, WaitsForOwnWrite, RunningIsOpen, Fail, Succeed, Finish, LocalTypes
<1>2. ASSUME NEW s \in Res, outcome'[s] = "ok", NEW role \in Roles
      PROVE  nodes'[role].cleared >= wrote'[s]
  <2>1. nodes[role].cleared \in Nat /\ nodes'[role].cleared \in Nat
        /\ nodes'[role].cleared >= nodes[role].cleared
    BY ClearedTypes DEF AppliedInv, Grows, PlatformTypes, Nodes
  <2>2. CASE s = r
    <3>1. Succeed(r, w) /\ Applied(w) /\ wrote'[s] = w
      BY <1>2, <2>2 DEF Fail, Succeed, Finish, LocalTypes, AppliedInv
    <3>2. QED
      BY <2>1, <3>1 DEF Applied, Nil
  <2>3. CASE s # r
    <3>1. outcome[s] = "ok" /\ wrote'[s] = wrote[s]
      BY <1>2, <2>3 DEF Fail, Succeed, Finish, LocalTypes, AppliedInv
    <3>2. nodes[role].cleared >= wrote[s] /\ wrote[s] \in Nat \union {Nil}
      BY <3>1 DEF AppliedInv, AppliedWhenOk, LocalTypes
    <3>3. QED
      BY <2>1, <3>1, <3>2 DEF Nil
  <2>4. QED
    BY <2>2, <2>3
<1>3. QED
  BY <1>1, <1>2 DEF AppliedWhenOk, Preserved

LEMMA ContinueApplied ==
  ASSUME NEW r \in Res, NEW s \in Steps, NEW a \in Nat \union {Nil},
         NEW w \in Nat \union {Nil}, AppliedInv, TypeOK', Grows,
         pc[r] # "idle",
         s = "wait" => w <= a, w <= a \/ w <= 0, Continue(r, s, a, w)
  PROVE  Preserved
<1>1. WaitsForOwnWrite' /\ RunningIsOpen'
  BY DEF AppliedInv, WaitsForOwnWrite, RunningIsOpen, Continue, LocalTypes
<1>2. ASSUME NEW t \in Res, outcome'[t] = "ok", NEW role \in Roles
      PROVE  nodes'[role].cleared >= wrote'[t]
  <2>1. nodes[role].cleared \in Nat /\ nodes'[role].cleared \in Nat
        /\ nodes'[role].cleared >= nodes[role].cleared
    BY ClearedTypes DEF AppliedInv, Grows, PlatformTypes, Nodes
  <2>2. t # r /\ outcome[t] = "ok" /\ wrote'[t] = wrote[t]
    BY <1>2 DEF Continue, LocalTypes, AppliedInv, RunningIsOpen
  <2>3. nodes[role].cleared >= wrote[t] /\ wrote[t] \in Nat \union {Nil}
    BY <2>2 DEF AppliedInv, AppliedWhenOk, LocalTypes
  <2>4. QED
    BY <2>1, <2>2, <2>3 DEF Nil
<1>3. QED
  BY <1>1, <1>2 DEF AppliedWhenOk, Preserved

LEMMA NothingApplied ==
  ASSUME TypeOK, NEW w \in Nat \union {Nil}, w <= 0
  PROVE  Applied(w)
BY ClearedTypes DEF Applied, Nil

LEMMA AfterWriteApplied ==
  ASSUME NEW r \in Res, NEW doc, NEW rev \in Nat \union {Nil}, AppliedInv, TypeOK',
         Grows, pc[r] # "idle", AfterWrite(r, doc, rev)
  PROVE  Preserved
<1>1. CASE NothingToWait(r, rev) /\ Succeed(r, rev)
  BY <1>1, NothingApplied, FinishApplied DEF NothingToWait, AppliedInv
<1>2. CASE Fail(r)
  BY <1>2, FinishApplied
<1>3. CASE Continue(r, "wait", rev, rev)
  BY <1>3, ContinueApplied DEF Steps, Nil
<1>4. QED
  BY <1>1, <1>2, <1>3 DEF AfterWrite

LEMMA GotListenerApplied ==
  ASSUME NEW c \in Res, NEW doc, NEW rev \in Nat \union {Nil},
         NEW w \in Nat \union {Nil}, AppliedInv, TypeOK', Grows, pc[c] # "idle",
         w <= accepted[c] \/ w <= 0 \/ w = rev, GotListener(c, doc, rev, w)
  PROVE  Preserved
<1> DEFINE known == Larger(accepted[c], rev)
<1>1. /\ accepted[c] \in Nat \union {Nil} /\ known \in Nat \union {Nil}
      /\ accepted[c] <= known /\ rev <= known
  BY DEF Larger, AppliedInv, LocalTypes, Nil
<1> HIDE DEF known
<1>2. CASE accepted[c] = Nil /\ ~(rev > 0) /\ Succeed(c, w)
  <2>1. w <= 0
    BY <1>2 DEF Nil
  <2>2. QED
    BY <1>2, <2>1, NothingApplied, FinishApplied DEF AppliedInv
<1>3. CASE Fail(c)
  BY <1>3, FinishApplied
<1>4. CASE known # Nil /\ Continue(c, "wait", known, w)
  <2>1. w <= known
    BY <1>1, <1>4 DEF Nil
  <2>2. QED
    BY <1>1, <1>4, <2>1, ContinueApplied DEF Steps
<1>5. QED
  BY <1>2, <1>3, <1>4 DEF GotListener, known

\* The heart of the argument: a view, however stale, in which revision g is
\* ready proves that g is drained on every replica by now.
LEMMA ReadyMeansApplied ==
  ASSUME AppliedInv, NEW r \in Res, NEW v \in Views, Observed(r, v)
  PROVE  Applied(wrote[r])
<1> DEFINE g == accepted[r]
<1>1. wrote[r] <= g /\ wrote[r] \in Nat \union {Nil} /\ g \in Nat \union {Nil}
  BY DEF Observed, AppliedInv, WaitsForOwnWrite, LocalTypes
<1>2. ASSUME NEW role \in Roles
      PROVE  /\ v.nodes[role].cleared <= nodes[role].cleared
             /\ v.nodes[role].cleared \in Nat /\ nodes[role].cleared \in Nat
  BY <1>2, ClearedTypes DEF Views, Primary, AppliedInv, StaleIsBehind
<1>3. v.gen \in Nat
  BY ViewTypes DEF AppliedInv, Snapshots
<1> HIDE DEF g
<1>4. CASE v.gen >= g /\ \A role \in Roles : ReplicaApplied(v, role)
  BY <1>1, <1>2, <1>3, <1>4 DEF ReplicaApplied, Applied, Nil
<1>5. CASE g = 0
  BY <1>1, <1>2, <1>5 DEF Applied, Nil
<1>6. QED
  BY <1>4, <1>5 DEF Observed, Ready, g

\* Only the platform's own steps touch the replicas, and they only drain more.
LEMMA HandlersLeaveReplicas ==
  ASSUME NEW r \in Res,
         Start(r) \/ Refresh(r) \/ Proceed(r) \/ CancelAcquire(r)
  PROVE  UNCHANGED <<nodes, ro>>
<1>1. Start(r) => UNCHANGED <<nodes, ro>>
  BY DEF Start, StartCreate, StartUpdateListener, StartUpdateRoute,
         StartUpdateGateway, StartDelete, Begin, platform
<1>2. Proceed(r) => UNCHANGED <<nodes, ro>>
  BY DEF Proceed, Acquire, ReadRevision, RevisionFails, SendFails, SendLost, PostChild,
         PatchRoute, PatchListener, PatchGateway, SettleGateway, DeleteCommitted,
         DeleteMissing, RotateCertificate, RotationLost, RereadListener, WaitDone, WaitRemoved,
         GiveUp, Commit, platform
<1>3. QED
  BY <1>1, <1>2 DEF Refresh, CancelAcquire, platform

LEMMA GrowsStep ==
  ASSUME TypeOK, StaleIsBehind, [Next]_vars
  PROVE  Grows /\ StaleIsBehind'
<1>1. CASE UNCHANGED <<nodes, ro>>
  <2>1. \A role \in Roles : nodes[role].cleared <= nodes[role].cleared
    BY ClearedTypes
  <2>2. QED
    BY <1>1, <2>1 DEF Grows, StaleIsBehind
<1>2. ASSUME NEW role \in Roles, PublishTo(role) \/ DrainOn(role)
      PROVE  Grows /\ StaleIsBehind'
  <2>1. /\ ro' = ro /\ nodes' \in [Roles -> [gen : Nat, cleared : Nat, docs : DocMaps]]
        /\ \A x \in Roles : nodes'[x].cleared >= nodes[x].cleared
    BY <1>2 DEF PublishTo, DrainOn, PlatformTypes, Nodes
  <2>2. QED
    BY <2>1, ClearedTypes DEF Grows, StaleIsBehind
<1>3. CASE CatchUp
  <2>1. ro' = Primary /\ nodes' = nodes /\ \A role \in Roles : nodes[role].cleared \in Nat
    BY <1>3, ClearedTypes DEF CatchUp
  <2>2. QED
    BY <2>1 DEF Primary, Grows, StaleIsBehind
<1>4. CASE GatewayRemoved
  <2>1. ro' = ro /\ \A role \in Roles : nodes'[role].cleared = nodes[role].cleared
    BY <1>4 DEF GatewayRemoved, PlatformTypes, Nodes
  <2>2. QED
    BY <2>1, ClearedTypes DEF Grows, StaleIsBehind
<1>5. ASSUME Platform
      PROVE  Grows /\ StaleIsBehind'
  BY <1>1, <1>2, <1>3, <1>4, <1>5 DEF Platform, OutsideWrite, GatewayBreaks, Commit
<1>6. QED
  BY <1>1, <1>5, HandlersLeaveReplicas DEF Next, Quiet, vars, platform

\* A step in which no handler reports or starts to wait.
LEMMA QuietApplied ==
  ASSUME AppliedInv, TypeOK', Grows,
         accepted' = accepted,
         \A s \in Res : /\ pc'[s] = pc[s] \/ pc'[s] \notin {"wait", "reread", "settle"}
                        /\ pc'[s] # "idle" => outcome'[s] = outcome[s] /\ pc[s] # "idle"
                        /\ wrote'[s] = wrote[s] /\ outcome'[s] \in {outcome[s], "none"}
  PROVE  Preserved
<1>1. WaitsForOwnWrite' /\ RunningIsOpen'
  BY DEF AppliedInv, WaitsForOwnWrite, RunningIsOpen
<1>2. ASSUME NEW s \in Res, outcome'[s] = "ok", NEW role \in Roles
      PROVE  nodes'[role].cleared >= wrote'[s]
  <2>1. nodes[role].cleared >= wrote[s] /\ wrote'[s] = wrote[s]
    BY <1>2 DEF AppliedInv, AppliedWhenOk
  <2>2. /\ nodes[role].cleared \in Nat /\ nodes'[role].cleared \in Nat
        /\ nodes'[role].cleared >= nodes[role].cleared /\ wrote[s] \in Nat \union {Nil}
    BY ClearedTypes DEF AppliedInv, Grows, PlatformTypes, Nodes, LocalTypes
  <2>3. QED
    BY <2>1, <2>2 DEF Nil
<1>3. QED
  BY <1>1, <1>2 DEF AppliedWhenOk, Preserved

LEMMA BeginApplied ==
  ASSUME NEW r \in Res, NEW s \in Steps, NEW request, AppliedInv, TypeOK', Grows,
         s # "wait", Begin(r, s, request)
  PROVE  Preserved
<1>1. wrote' = [wrote EXCEPT ![r] = Nil] /\ accepted' = accepted
  BY DEF Begin
<1>2. WaitsForOwnWrite'
  BY <1>1 DEF Begin, AppliedInv, WaitsForOwnWrite, LocalTypes, Nil
<1>3. RunningIsOpen'
  BY DEF Begin, AppliedInv, RunningIsOpen, LocalTypes
<1>4. ASSUME NEW t \in Res, outcome'[t] = "ok", NEW role \in Roles
      PROVE  nodes'[role].cleared >= wrote'[t]
  <2>1. outcome[t] = "ok" /\ wrote'[t] = wrote[t]
    BY <1>4 DEF Begin, AppliedInv, LocalTypes
  <2>2. /\ nodes[role].cleared \in Nat /\ nodes'[role].cleared \in Nat
        /\ nodes'[role].cleared >= nodes[role].cleared /\ wrote[t] \in Nat \union {Nil}
    BY ClearedTypes DEF AppliedInv, Grows, PlatformTypes, Nodes, LocalTypes
  <2>3. nodes[role].cleared >= wrote[t]
    BY <2>1 DEF AppliedInv, AppliedWhenOk
  <2>4. QED
    BY <2>1, <2>2, <2>3 DEF Nil
<1>5. QED
  BY <1>2, <1>3, <1>4 DEF AppliedWhenOk, Preserved

LEMMA StartApplied ==
  ASSUME NEW r \in Res, AppliedInv, TypeOK', Grows, Start(r)
  PROVE  Preserved
<1>1. PICK s \in Steps \ {"wait"} : \E request : Begin(r, s, request)
  BY DEF Start, StartCreate, StartUpdateListener, StartUpdateRoute, StartUpdateGateway,
         StartDelete, Steps
<1>2. QED
  BY <1>1, BeginApplied

LEMMA WriteApplied ==
  ASSUME NEW r \in Res, AppliedInv, TypeOK', Grows,
         \/ SendLost(r) \/ PostChild(r) \/ PatchRoute(r) \/ PatchListener(r)
         \/ (r = Gateway /\ PatchGateway) \/ DeleteCommitted(r) \/ DeleteMissing(r)
  PROVE  Preserved
<1> DEFINE D(doc) == [docs EXCEPT ![r] = doc]
<1>1. /\ pc[r] # "idle"
      /\ \A doc : Answers(NextGen(D(doc))) \subseteq Nat \union {Nil}
  BY NextGenType, AnswersType DEF SendLost, PostChild, PatchRoute, PatchListener, PatchGateway,
     DeleteCommitted, DeleteMissing, Sending, AppliedInv, PlatformTypes
<1>2. CASE SendLost(r)
  BY <1>2, FinishApplied DEF SendLost, Nil
<1>3. CASE PostChild(r) \/ PatchRoute(r)
  <2>1. PICK doc : \E rev \in Answers(NextGen(D(doc))) : AfterWrite(r, doc, rev)
    BY <1>3 DEF PostChild, PatchRoute
  <2>2. QED
    BY <1>1, <2>1, AfterWriteApplied
<1>4. CASE PatchListener(r)
  <2>1. PICK rev \in Nat \union {Nil} : Continue(r, "reread", rev, rev) \/ Fail(r)
    BY <1>1, <1>4 DEF PatchListener
  <2>2. rev <= rev
    BY DEF Nil
  <2>3. QED
    BY <1>1, <2>1, <2>2, ContinueApplied, FinishApplied DEF Steps
<1>5. CASE r = Gateway /\ PatchGateway
  <2>1. \E doc : \E rev \in Answers(NextGen(D(doc))) :
          \/ rev <= 0 /\ Continue(r, "settle", Nil, rev)
          \/ Continue(r, "settle", rev, rev)
          \/ Fail(r)
    BY <1>5 DEF PatchGateway, NothingToWait
  <2>a. PICK rev \in Nat \union {Nil} :
          \/ rev <= 0 /\ Continue(r, "settle", Nil, rev)
          \/ Continue(r, "settle", rev, rev)
          \/ Fail(r)
    BY <1>1, <2>1
  <2>2. rev <= rev
    BY DEF Nil
  <2>3. QED
    BY <1>1, <2>a, <2>2, ContinueApplied, FinishApplied DEF Steps
<1>6. CASE DeleteCommitted(r)
  <2>1. PICK w \in Answers(NextGen(D(Absent))) :
          \/ w <= 0 /\ Succeed(r, w)
          \/ Fail(r)
          \/ Continue(r, "wait", w, w)
    BY <1>6 DEF DeleteCommitted
  <2>2. w \in Nat \union {Nil} /\ w <= w
    BY <1>1, <2>1 DEF Nil
  <2>3. QED
    BY <1>1, <2>1, <2>2, ContinueApplied, FinishApplied, NothingApplied
    DEF Steps, AppliedInv
<1>7. CASE DeleteMissing(r)
  <2>1. Known(r) \in Nat
    BY DEF AppliedInv, Known, OtherTypes, States, Nil
  <2>2. Nil <= 0 /\ Nil <= Known(r)
    BY <2>1 DEF Nil
  <2>3. CASE Succeed(r, Nil)
    BY <2>2, <2>3, FinishApplied, NothingApplied DEF AppliedInv
  <2>4. CASE Continue(r, "wait", Known(r), Nil)
    BY <1>1, <2>1, <2>2, <2>4, ContinueApplied DEF Steps
  <2>5. QED
    BY <1>7, <2>3, <2>4 DEF DeleteMissing
<1>8. QED
  BY <1>2, <1>3, <1>4, <1>5, <1>6, <1>7

LEMMA UnlockedApplied ==
  ASSUME NEW r \in Res, AppliedInv, TypeOK', Grows,
         \/ RotateCertificate(r) \/ RotationLost(r) \/ RereadListener(r)
         \/ (r = Gateway /\ SettleGateway)
         \/ WaitDone(r) \/ WaitRemoved(r) \/ GiveUp(r)
  PROVE  Preserved
<1>0. accepted[r] \in Nat \union {Nil} /\ wrote[r] \in Nat \union {Nil}
  BY DEF AppliedInv, LocalTypes
<1>1. CASE RotateCertificate(r)
  <2>1. Answers(NextGen(docs)) \subseteq Nat \union {Nil}
    BY NextGenType, AnswersType DEF AppliedInv, PlatformTypes
  <2>2. PICK rev \in Nat \union {Nil} : GotListener(r, docs[r], rev, Larger(wrote[r], rev))
    BY <1>1, <2>1 DEF RotateCertificate
  <2>3. \/ Larger(wrote[r], rev) <= accepted[r] \/ Larger(wrote[r], rev) <= 0
        \/ Larger(wrote[r], rev) = rev
    BY <1>1 DEF Larger, RotateCertificate, AppliedInv, WaitsForOwnWrite
  <2>4. Larger(wrote[r], rev) \in Nat \union {Nil} /\ pc[r] # "idle"
    BY <1>0, <1>1 DEF Larger, RotateCertificate
  <2>5. QED
    BY <2>2, <2>3, <2>4, GotListenerApplied
<1>2. CASE RereadListener(r)
  <2>1. PICK v, rev :
          /\ v \in Views /\ rev \in Answers(v.gen)
          /\ GotListener(r, v.docs[r], rev, wrote[r])
    BY <1>2 DEF RereadListener
  <2>2. rev \in Nat \union {Nil}
    BY <2>1, ViewTypes, AnswersType DEF AppliedInv, Snapshots
  <2>3. pc[r] # "idle" /\ (wrote[r] <= accepted[r] \/ wrote[r] <= 0)
    BY <1>2 DEF RereadListener, AppliedInv, WaitsForOwnWrite
  <2>4. QED
    BY <1>0, <2>1, <2>2, <2>3, GotListenerApplied
<1>3. CASE r = Gateway /\ SettleGateway
  <2> DEFINE known(rev) == IF accepted[r] = Nil THEN rev ELSE accepted[r]
  <2>1. PICK v, rev :
          /\ v \in Views /\ rev \in Answers(v.gen)
          /\ \/ Fail(r)
             \/ known(rev) # Nil /\ Continue(r, "wait", known(rev), wrote[r])
             \/ ~(accepted[r] > 0) /\ Succeed(r, wrote[r])
    BY <1>3 DEF SettleGateway
  <2>2. /\ pc[r] # "idle" /\ (wrote[r] <= accepted[r] \/ wrote[r] <= 0)
        /\ rev \in Nat \union {Nil}
    BY <1>3, <2>1, ViewTypes, AnswersType
    DEF SettleGateway, AppliedInv, WaitsForOwnWrite, Snapshots
  <2>3. known(rev) # Nil => known(rev) \in Nat /\ wrote[r] <= known(rev)
    BY <1>0, <2>2 DEF Nil
  <2>4. ~(accepted[r] > 0) => wrote[r] <= 0
    BY <1>0, <2>2 DEF Nil
  <2> HIDE DEF known
  <2>5. QED
    BY <1>0, <2>1, <2>2, <2>3, <2>4, ContinueApplied, FinishApplied, NothingApplied
    DEF Steps, AppliedInv
<1>4. CASE WaitDone(r)
  <2>1. PICK v \in Views : Observed(r, v) /\ (Succeed(r, wrote[r]) \/ Fail(r))
    BY <1>4 DEF WaitDone
  <2>2. Applied(wrote[r])
    BY <2>1, ReadyMeansApplied
  <2>3. QED
    BY <1>0, <2>1, <2>2, FinishApplied
<1>5. CASE WaitRemoved(r)
  <2>1. Applied(wrote[r])
    BY <1>5, ReadyMeansApplied DEF WaitRemoved
  <2>2. QED
    BY <1>0, <1>5, <2>1, FinishApplied DEF WaitRemoved
<1>6. CASE GiveUp(r) \/ RotationLost(r)
  BY <1>0, <1>6, FinishApplied DEF GiveUp, RotationLost
<1>7. QED
  BY <1>1, <1>2, <1>3, <1>4, <1>5, <1>6

LEMMA LockedApplied ==
  ASSUME NEW r \in Res, AppliedInv, TypeOK', Grows,
         \/ Acquire(r) \/ CancelAcquire(r) \/ ReadRevision(r) \/ RevisionFails(r)
         \/ SendFails(r) \/ Refresh(r)
  PROVE  Preserved
<1>0. Nil \in Nat \union {Nil}
  OBVIOUS
<1>1. CASE Acquire(r)
  BY <1>1, QuietApplied DEF Acquire, AppliedInv, LocalTypes
<1>2. CASE ReadRevision(r)
  BY <1>2, QuietApplied DEF ReadRevision, AppliedInv, LocalTypes
<1>3. CASE CancelAcquire(r) \/ RevisionFails(r) \/ SendFails(r)
  BY <1>0, <1>3, FinishApplied DEF CancelAcquire, RevisionFails, SendFails
<1>4. CASE Refresh(r)
  BY <1>4, QuietApplied DEF Refresh, AppliedInv, LocalTypes
<1>5. QED
  BY <1>1, <1>2, <1>3, <1>4

LEMMA AppliedStep == AppliedInv /\ [Next]_vars => AppliedInv'
<1> SUFFICES ASSUME AppliedInv, [Next]_vars PROVE AppliedInv'
  OBVIOUS
<1>1. TypeOK' /\ Grows /\ StaleIsBehind'
  BY NextTypes, GrowsStep DEF AppliedInv
<1>2. CASE UNCHANGED local
  BY <1>1, <1>2, QuietApplied DEF local, AppliedInv, Preserved
<1>3. ASSUME NEW r \in Res, Start(r) \/ Refresh(r) \/ Proceed(r) \/ CancelAcquire(r)
      PROVE  AppliedInv'
  <2>1. Start(r) => Preserved
    BY <1>1, StartApplied
  <2>2. Proceed(r) => Preserved
    <3>1. Acquire(r) \/ ReadRevision(r) \/ RevisionFails(r) \/ SendFails(r) => Preserved
      BY <1>1, LockedApplied
    <3>2. ASSUME \/ SendLost(r) \/ PostChild(r) \/ PatchRoute(r) \/ PatchListener(r)
                 \/ (r = Gateway /\ PatchGateway) \/ DeleteCommitted(r) \/ DeleteMissing(r)
          PROVE  Preserved
      BY <1>1, <3>2, WriteApplied
    <3>3. ASSUME \/ RotateCertificate(r) \/ RotationLost(r) \/ RereadListener(r) \/ (r = Gateway /\ SettleGateway)
                 \/ WaitDone(r) \/ WaitRemoved(r) \/ GiveUp(r)
          PROVE  Preserved
      BY <1>1, <3>3, UnlockedApplied
    <3>4. QED
      BY <3>1, <3>2, <3>3 DEF Proceed
  <2>3. Refresh(r) \/ CancelAcquire(r) => Preserved
    BY <1>1, LockedApplied
  <2>4. QED
    BY <1>1, <1>3, <2>1, <2>2, <2>3 DEF AppliedInv, Preserved
<1>4. QED
  BY <1>2, <1>3, PlatformLock DEF Next, Quiet, vars

\* A handler that reports success has the revision its own last write
\* committed drained on every replica, for every number of replicas, listeners
\* and routes, whatever outsiders write and however stale the polled reads.
THEOREM SuccessIsApplied == Spec => []AppliedWhenOk
<1>1. Init => AppliedInv
  <2> SUFFICES ASSUME Init PROVE AppliedInv
    OBVIOUS
  <2>1. TypeOK
    BY InitTypes
  <2>2. StaleIsBehind
    <3>1. \A role \in Roles : ro.nodes[role].cleared = 0 /\ nodes[role].cleared = 0
      BY DEF Init, StartNode
    <3>2. QED
      BY <3>1 DEF StaleIsBehind
  <2>3. WaitsForOwnWrite /\ RunningIsOpen /\ AppliedWhenOk
    BY DEF Init, WaitsForOwnWrite, RunningIsOpen, AppliedWhenOk
  <2>4. QED
    BY <2>1, <2>2, <2>3 DEF AppliedInv
<1>2. AppliedInv => AppliedWhenOk
  BY DEF AppliedInv
<1>3. QED
  BY <1>1, <1>2, AppliedStep, PTL DEF Spec

-----------------------------------------------------------------------------
(* Siblings never conflict.  Left to itself, with fresh reads, the revision *)
(* a handler read under the lock is still the gateway's when it is sent:    *)
(* every other write needs the lock, an outsider or a rotation.             *)

Calm == Undisturbed /\ ~Rotations /\ ~LaggingReads
SendsCurrent ==
  \A r \in Res : pc[r] = "send" /\ req[r].body # Unowned => base[r] = gen
NoneRotates == \A r \in Res : ~req[r].rotate
CalmInv == NoneRotates /\ SendsCurrent

\* A step of r's handler that ends outside the window, everyone else's
\* variables and the generation left alone.
Aside(r) ==
  /\ gen' = gen /\ ext' = ext
  /\ \E s \in Steps \ Window : pc' = [pc EXCEPT ![r] = s]
  /\ \A s \in Res \ {r} : base'[s] = base[s] /\ req'[s] = req[s]
  /\ req'[r].rotate => Rotations \/ req[r].rotate

LEMMA AsideCalm ==
  ASSUME NEW r \in Res, TypeOK, CalmInv, Calm, Aside(r)
  PROVE  CalmInv'
BY DEF Calm, CalmInv, SendsCurrent, NoneRotates, Aside, Window, LocalTypes

LEMMA BeginAside ==
  ASSUME NEW r \in Res, NEW s \in Steps \ Window, NEW request, TypeOK,
         request.rotate => Rotations, Begin(r, s, request)
  PROVE  Aside(r)
BY DEF Begin, Aside, platform, LocalTypes

LEMMA RequestRotation ==
  /\ ~NoRequest.rotate /\ ~[NoRequest EXCEPT !.op = "delete"].rotate
  /\ \A r, w : ~[op |-> "create", want |-> w, body |-> w, rotate |-> FALSE].rotate
  /\ \A r, w : ~Update(r, w, FALSE).rotate
  /\ \A r, w, b : Update(r, w, b).rotate => b
BY DEF NoRequest, Update

LEMMA StartAside ==
  ASSUME NEW r \in Res, TypeOK, Start(r)
  PROVE  Aside(r)
<1>1. PICK s \in Steps \ Window :
        \E request : (request.rotate => Rotations) /\ Begin(r, s, request)
  <2>1. ASSUME NEW want, StartCreate(r, want)
        PROVE  \E request : ~request.rotate /\ Begin(r, "acquire", request)
    BY <2>1, RequestRotation DEF StartCreate
  <2>2. ASSUME NEW want, NEW rotate \in BOOLEAN, StartUpdateListener(r, want, rotate)
        PROVE  \E s \in {"acquire", "reread"}, request \in {Update(r, want, rotate)} :
                  (request.rotate => Rotations) /\ Begin(r, s, request)
    BY <2>2, RequestRotation DEF StartUpdateListener
  <2>3. ASSUME NEW want, StartUpdateRoute(r, want)
        PROVE  \E request : ~request.rotate /\ Begin(r, "acquire", request)
    BY <2>3, RequestRotation DEF StartUpdateRoute
  <2>4. ASSUME NEW want, NEW other \in BOOLEAN, r = Gateway, StartUpdateGateway(want, other)
        PROVE  \E s \in {"acquire", "settle"}, request \in {Update(r, want, FALSE)} :
                  ~request.rotate /\ Begin(r, s, request)
    BY <2>4, RequestRotation DEF StartUpdateGateway
  <2>5. ASSUME StartDelete(r)
        PROVE  \E request : ~request.rotate /\ Begin(r, "acquire", request)
    BY <2>5, RequestRotation DEF StartDelete
  <2>6. {"acquire", "reread", "settle"} \subseteq Steps \ Window
    BY DEF Steps, Window
  <2>7. QED
    BY <2>1, <2>2, <2>3, <2>4, <2>5, <2>6 DEF Start
<1>2. QED
  BY <1>1, BeginAside

LEMMA FinishAside ==
  ASSUME NEW r \in Res, TypeOK, gen' = gen, ext' = ext,
         \/ Fail(r) \/ (\E w : Succeed(r, w))
         \/ \E a, w : Continue(r, "wait", a, w)
  PROVE  Aside(r)
<1>1. CASE Fail(r) \/ \E w : Succeed(r, w)
  BY <1>1, FinishMove, RequestRotation DEF Fail, Succeed, Finish, Aside, LocalTypes
<1>2. CASE \E a, w : Continue(r, "wait", a, w)
  BY <1>2 DEF Continue, Aside, LocalTypes, Steps, Window
<1>3. QED
  BY <1>1, <1>2

LEMMA UnlockedAside ==
  ASSUME NEW r \in Res, TypeOK,
         \/ RereadListener(r) \/ (r = Gateway /\ SettleGateway) \/ CancelAcquire(r)
         \/ WaitDone(r) \/ WaitRemoved(r) \/ GiveUp(r)
  PROVE  Aside(r)
<1>1. gen' = gen /\ ext' = ext
  BY DEF RereadListener, SettleGateway, CancelAcquire, WaitDone, WaitRemoved, GiveUp,
         platform
<1>2. \/ Fail(r) \/ (\E w : Succeed(r, w))
      \/ \E a, w : Continue(r, "wait", a, w)
  BY DEF RereadListener, GotListener, SettleGateway, CancelAcquire, WaitDone,
         WaitRemoved, GiveUp
<1>3. QED
  BY <1>1, <1>2, FinishAside

\* Nobody is left in the window: nothing is about to be sent.
LEMMA LeavesCalm ==
  ASSUME NEW r \in Res, TypeOK, CalmInv, LockInWindow', Leaves(r), ext' = ext,
         \A s \in Res : req'[s].rotate => req[s].rotate
  PROVE  CalmInv'
<1>1. \A s \in Res : pc'[s] # "send"
  BY AppGWAssumption DEF Leaves, LockInWindow, Window
<1>2. QED
  BY <1>1 DEF CalmInv, SendsCurrent, NoneRotates

LEMMA WriteRequests ==
  ASSUME NEW r \in Res, TypeOK,
         \/ RevisionFails(r) \/ SendFails(r) \/ SendLost(r) \/ PostChild(r)
         \/ PatchRoute(r) \/ PatchListener(r) \/ (r = Gateway /\ PatchGateway)
         \/ DeleteCommitted(r) \/ DeleteMissing(r)
  PROVE  ext' = ext /\ \A s \in Res : req'[s].rotate => req[s].rotate
<1>1. ext' = ext
  BY DEF RevisionFails, SendFails, SendLost, PostChild, PatchRoute, PatchListener,
         PatchGateway, DeleteCommitted, DeleteMissing
<1>2. Fail(r) \/ (\E w : Succeed(r, w)) \/ \E s, a, w : Continue(r, s, a, w)
  BY DEF RevisionFails, SendFails, SendLost, PostChild, PatchRoute, PatchListener,
         PatchGateway, DeleteCommitted, DeleteMissing, AfterWrite
<1>3. req' = [req EXCEPT ![r] = NoRequest] \/ req' = req
  BY <1>2 DEF Fail, Succeed, Finish, Continue
<1>4. QED
  BY <1>1, <1>3, RequestRotation DEF LocalTypes

LEMMA LockedCalm ==
  ASSUME NEW r \in Res, TypeOK, CalmInv, Calm, Acquire(r) \/ ReadRevision(r)
  PROVE  CalmInv'
<1>1. CASE Acquire(r)
  BY <1>1 DEF Acquire, CalmInv, SendsCurrent, NoneRotates, platform, LocalTypes
<1>2. CASE ReadRevision(r)
  <2>1. base' = [base EXCEPT ![r] = gen]
    <3>1. PICK v \in Views : base' = [base EXCEPT ![r] = v.gen]
      BY <1>2 DEF ReadRevision, Answers
    <3>2. v = Primary
      BY <3>1 DEF Views, Calm
    <3>3. QED
      BY <3>1, <3>2 DEF Primary
  <2>2. QED
    <3>1. /\ UNCHANGED <<gen, req, ext>>
          /\ \A s \in Res \ {r} : pc'[s] = pc[s] /\ base'[s] = base[s]
          /\ base'[r] = gen
      BY <1>2, <2>1 DEF ReadRevision, platform, LocalTypes
    <3>2. QED
      BY <3>1 DEF CalmInv, SendsCurrent, NoneRotates
<1>3. QED
  BY <1>1, <1>2

\* Nobody gives the outsiders' budget back: what is undisturbed always was.
LEMMA OutsideBudget ==
  ASSUME TypeOK, TypeOK', ext <= MaxExternal, [Next]_vars
  PROVE  ext' <= MaxExternal /\ (Undisturbed' => Undisturbed)
<1>1. ext' = ext \/ ext' = ext - 1
  <2>1. ASSUME NEW r \in Res, Start(r) \/ Refresh(r) \/ Proceed(r) \/ CancelAcquire(r)
        PROVE  ext' = ext
    <3>1. CASE Start(r) \/ Refresh(r) \/ CancelAcquire(r)
      BY <3>1 DEF Start, StartCreate, StartUpdateListener, StartUpdateRoute,
         StartUpdateGateway, StartDelete, Begin, Refresh, CancelAcquire
    <3>2. CASE Proceed(r)
      BY <3>2 DEF Proceed, Acquire, ReadRevision, RevisionFails, SendFails, SendLost, PostChild,
         PatchRoute, PatchListener, PatchGateway, SettleGateway, DeleteCommitted, DeleteMissing,
         RotateCertificate, RotationLost, RereadListener, WaitDone, WaitRemoved, GiveUp
    <3>3. QED
      BY <2>1, <3>1, <3>2
  <2>2. CASE Platform
    BY <2>2 DEF Platform, PublishTo, DrainOn, CatchUp, OutsideWrite, GatewayBreaks,
       GatewayRemoved, Outside
  <2>3. QED
    BY <2>1, <2>2 DEF Next, Quiet, vars
<1>2. ext \in Nat /\ MaxExternal \in Nat
  BY AppGWAssumption DEF OtherTypes, TypeOK
<1>3. QED
  BY <1>1, <1>2 DEF Undisturbed

LEMMA CalmStep ==
  ASSUME Calm, Calm', TypeOK, LockInWindow', CalmInv, [Next]_vars
  PROVE  CalmInv'
<1>1. CASE UNCHANGED <<gen, local, ext>>
  BY <1>1 DEF local, CalmInv, SendsCurrent, NoneRotates
<1>2. ASSUME NEW r \in Res, Start(r) \/ CancelAcquire(r)
      PROVE  CalmInv'
  BY <1>2, StartAside, UnlockedAside, AsideCalm
<1>3. ASSUME NEW r \in Res, Refresh(r)
      PROVE  CalmInv'
  BY <1>3 DEF Refresh, platform, CalmInv, SendsCurrent, NoneRotates
<1>4. ASSUME NEW r \in Res, Proceed(r)
      PROVE  CalmInv'
  <2>1. ~RotateCertificate(r) /\ ~RotationLost(r)
    BY DEF RotateCertificate, RotationLost, CalmInv, NoneRotates
  <2>2. ASSUME \/ RevisionFails(r) \/ SendFails(r) \/ SendLost(r) \/ PostChild(r)
               \/ PatchRoute(r) \/ PatchListener(r) \/ (r = Gateway /\ PatchGateway)
               \/ DeleteCommitted(r) \/ DeleteMissing(r)
        PROVE  CalmInv'
    BY <2>2, WriteLeaves, WriteRequests, LeavesCalm
  <2>3. ASSUME \/ RereadListener(r) \/ (r = Gateway /\ SettleGateway)
               \/ WaitDone(r) \/ WaitRemoved(r) \/ GiveUp(r)
        PROVE  CalmInv'
    BY <2>3, UnlockedAside, AsideCalm
  <2>4. QED
    BY <1>4, <2>1, <2>2, <2>3, LockedCalm DEF Proceed
<1>5. CASE Platform
  <2>1. UNCHANGED <<gen, ext>>
    <3>1. ~Outside
      BY DEF Outside, Calm, Undisturbed, OtherTypes
    <3>2. QED
      BY <1>5, <3>1 DEF Platform, PublishTo, DrainOn, CatchUp, OutsideWrite, GatewayBreaks,
                GatewayRemoved
  <2>2. QED
    BY <1>1, <1>5, <2>1, PlatformLock
<1>6. QED
  BY <1>1, <1>2, <1>3, <1>4, <1>5 DEF Next, Quiet, vars, platform

\* As long as nobody outside has done anything, no policy write of a sibling or
\* of the gateway can be refused for a stale revision, for any number of children.
THEOREM SiblingsNeverConflict == Spec => []NoSelfConflict
<1> DEFINE Inv == ext <= MaxExternal /\ (Calm => CalmInv)
<1>1. Init => Inv
  BY AppGWAssumption DEF Init, Calm, CalmInv, SendsCurrent, NoneRotates, NoRequest
<1>2. TypeOK /\ TypeOK' /\ LockInWindow' /\ Inv /\ [Next]_vars => Inv'
  BY OutsideBudget, CalmStep DEF Calm
<1>3. Inv => NoSelfConflict
  BY DEF NoSelfConflict, Calm, CalmInv, SendsCurrent
<1> HIDE DEF Inv
<1>4. QED
  BY <1>1, <1>2, <1>3, TypeCorrect, LockScope, PTL DEF Spec

-----------------------------------------------------------------------------
(* What is published, and what is recorded of it.  A replica that runs the   *)
(* current generation has its documents, and a stale snapshot of the same     *)
(* generation has them too, except that the whole gateway may be gone.         *)

Published ==
  /\ Legacy => gen = 0
  /\ ro.gen <= gen
  /\ \A role \in Roles : nodes[role].gen <= gen /\ ro.nodes[role].gen <= nodes[role].gen
  /\ \A role \in Roles : gen > 0 /\ nodes[role].gen = gen => nodes[role].docs = docs
  /\ gen > 0 /\ ro.gen = gen => \A r \in Res : docs[r] \in {ro.docs[r], Absent}

\* A child that is missing from a snapshot at least as new as the revision that
\* the state records is missing for good, from every replica that has caught up
\* with that snapshot.
Gone(c, g) ==
  docs[c] = Absent /\ \A role \in Roles : nodes[role].gen >= g => nodes[role].docs[c] = Absent
Dead(c, rev) ==
  /\ gen >= rev /\ docs[c] = Absent => Gone(c, gen)
  /\ ro.gen >= rev /\ ro.docs[c] = Absent => Gone(c, ro.gen)
DeadStaysDead ==
  \A c \in Children : tf[c].there /\ tf[c].rev > 0 => Dead(c, tf[c].rev)

\* Where a handler is tells what it was called for: an idle one for nothing,
\* only a creation of what is not in the state is about to be sent, only an
\* update reads a listener again, and a deletion waits for a revision that is
\* no older than the one in the state.
Called(r) ==
  /\ pc[r] = "idle" => req[r].op = "none"
  /\ pc[r] \in {"acquire", "revision", "send"} /\ req[r].op = "create" => ~tf[r].there
  /\ pc[r] = "reread" => req[r].op = "update"
  /\ pc[r] = "wait" /\ req[r].op = "delete" =>
       accepted[r] \in Nat /\ accepted[r] > 0 /\ ~(tf[r].rev > accepted[r])
CalledInv == \A r \in Children : Called(r)


LEMMA NoDocument == Absent \notin Documents
BY AppGWAssumption DEF Documents, Absent, Empty

\* Of every step, what it does to what the platform holds.
LEMMA PlatformMoves ==
  ASSUME TypeOK, [Next]_vars
  PROVE  \/ UNCHANGED <<gen, docs, nodes, ro>>
         \/ \E d : Commit(d)
         \/ \E role \in Roles : PublishTo(role) \/ DrainOn(role)
         \/ CatchUp \/ GatewayRemoved
<1>1. ASSUME NEW r \in Res, Start(r) \/ Refresh(r) \/ CancelAcquire(r)
      PROVE  UNCHANGED <<gen, docs, nodes, ro>>
  BY <1>1 DEF Start, StartCreate, StartUpdateListener, StartUpdateRoute, StartUpdateGateway,
     StartDelete, Begin, Refresh, CancelAcquire, platform
<1>2. ASSUME NEW r \in Res, Proceed(r)
      PROVE  UNCHANGED <<gen, docs, nodes, ro>> \/ \E d : Commit(d)
  <2>1. ASSUME \/ Acquire(r) \/ ReadRevision(r) \/ RevisionFails(r) \/ SendFails(r)
               \/ DeleteMissing(r) \/ RereadListener(r) \/ (r = Gateway /\ SettleGateway)
               \/ WaitDone(r) \/ WaitRemoved(r) \/ GiveUp(r)
        PROVE  UNCHANGED <<gen, docs, nodes, ro>>
    BY <2>1 DEF Acquire, ReadRevision, RevisionFails, SendFails, DeleteMissing, RereadListener,
       SettleGateway, WaitDone, WaitRemoved, GiveUp, platform
  <2>2. ASSUME \/ SendLost(r) \/ PostChild(r) \/ PatchRoute(r) \/ PatchListener(r)
               \/ (r = Gateway /\ PatchGateway) \/ DeleteCommitted(r) \/ RotateCertificate(r) \/ RotationLost(r)
        PROVE  \E d : Commit(d)
    BY <2>2, Zenon DEF SendLost, PostChild, PatchRoute, PatchListener, PatchGateway,
       DeleteCommitted, RotateCertificate, RotationLost
  <2>3. QED
    BY <1>2, <2>1, <2>2 DEF Proceed
<1>3. ASSUME Platform
      PROVE  \/ UNCHANGED <<gen, docs, nodes, ro>>
             \/ \E d : Commit(d)
             \/ \E role \in Roles : PublishTo(role) \/ DrainOn(role)
             \/ CatchUp \/ GatewayRemoved
  BY <1>3, Zenon DEF Platform, OutsideWrite, GatewayBreaks
<1>4. QED
  BY <1>1, <1>2, <1>3 DEF Next, Quiet, vars, platform

\* A write moves on to the next generation, or leaves an untouched gateway at 0.
LEMMA CommitMoves ==
  ASSUME TypeOK, Legacy => gen = 0, NEW d, Commit(d)
  PROVE  /\ docs' = d /\ UNCHANGED <<nodes, ro>> /\ gen \in Nat /\ gen' \in Nat
         /\ gen' = gen + 1 \/ (gen' = gen /\ gen = 0)
         /\ Legacy => gen' = 0
BY DEF Commit, NextGen, PlatformTypes

LEMMA Generations ==
  ASSUME TypeOK
  PROVE  /\ gen \in Nat /\ ro.gen \in Nat
         /\ \A role \in Roles : nodes[role].gen \in Nat /\ ro.nodes[role].gen \in Nat
BY DEF PlatformTypes, Snapshots, Nodes

LEMMA PublishedStep ==
  ASSUME TypeOK, Published, [Next]_vars
  PROVE  Published'
<1>1. CASE UNCHANGED <<gen, docs, nodes, ro>>
  BY <1>1 DEF Published
<1>2. ASSUME NEW d, Commit(d)
      PROVE  Published'
  <2>1. /\ docs' = d /\ UNCHANGED <<nodes, ro>> /\ gen \in Nat /\ gen' \in Nat
        /\ gen' = gen + 1 \/ (gen' = gen /\ gen = 0)
        /\ Legacy => gen' = 0
    BY <1>2, CommitMoves DEF Published
  <2>2. /\ ro.gen <= gen /\ ro.gen \in Nat
        /\ \A role \in Roles : /\ nodes[role].gen \in Nat /\ nodes[role].gen <= gen
                               /\ ro.nodes[role].gen <= nodes[role].gen
    BY Generations DEF Published
  <2>3. ro.gen <= gen' /\ (gen' > 0 => ro.gen # gen')
    BY <2>1, <2>2
  <2>4. \A role \in Roles : nodes[role].gen <= gen' /\ (gen' > 0 => nodes[role].gen # gen')
    BY <2>1, <2>2
  <2>5. QED
    BY <2>1, <2>2, <2>3, <2>4 DEF Published
<1>3. ASSUME NEW role \in Roles, PublishTo(role) \/ DrainOn(role)
      PROVE  Published'
  <2>1. /\ UNCHANGED <<gen, docs, ro>>
        /\ \A x \in Roles \ {role} : nodes'[x] = nodes[x]
    BY <1>3 DEF PublishTo, DrainOn, PlatformTypes, Nodes
  <2>2. \/ nodes'[role].gen = gen /\ nodes'[role].docs = docs /\ nodes[role].gen < gen
        \/ nodes'[role].gen = nodes[role].gen /\ nodes'[role].docs = nodes[role].docs
    BY <1>3 DEF PublishTo, DrainOn, PlatformTypes, Nodes
  <2>3. nodes'[role].gen <= gen /\ ro.nodes[role].gen <= nodes'[role].gen
    BY <2>2, Generations DEF Published
  <2>4. gen > 0 /\ nodes'[role].gen = gen => nodes'[role].docs = docs
    BY <2>2 DEF Published
  <2>5. QED
    BY <2>1, <2>3, <2>4 DEF Published
<1>4. CASE CatchUp
  <2>1. UNCHANGED <<gen, docs, nodes>> /\ ro'.gen = gen /\ ro'.docs = docs /\ ro'.nodes = nodes
    BY <1>4 DEF CatchUp, Primary
  <2>2. gen <= gen /\ \A role \in Roles : nodes[role].gen <= nodes[role].gen
    BY Generations
  <2>3. QED
    BY <2>1, <2>2 DEF Published
<1>5. CASE GatewayRemoved
  <2>1. /\ UNCHANGED <<gen, ro>> /\ docs' = [r \in Res |-> Absent]
        /\ \A role \in Roles : nodes'[role].gen = nodes[role].gen /\ nodes'[role].docs = docs'
    BY <1>5 DEF GatewayRemoved, PlatformTypes, Nodes
  <2>2. QED
    BY <2>1 DEF Published
<1>6. QED
  BY <1>1, <1>2, <1>3, <1>4, <1>5, PlatformMoves

-----------------------------------------------------------------------------
(* What a step does to one child: to its document, and to the revision that  *)
(* the state records of it.                                                  *)

Keeps(c) == tf'[c] = tf[c] \/ ~tf'[c].there \/ tf'[c].rev <= 0
Still == UNCHANGED <<gen, docs, nodes, ro>>
LooksAt(c) == Still /\ \E v \in Views : v.docs[c] # Absent /\ tf'[c].rev = v.gen
PassesBy(c) == \E d : Commit(d) /\ d[c] = docs[c] /\ Keeps(c)
Changes(c) ==
  \E d : /\ Commit(d) /\ d[c] # Absent
         /\ \/ Keeps(c) /\ (docs[c] = Absent => ~tf[c].there)
            \/ tf'[c].rev = gen'
Removes(c) == \E d : Commit(d) /\ d[c] = Absent /\ docs[c] # Absent /\ Keeps(c)
Publishes == (\E role \in Roles : PublishTo(role) \/ DrainOn(role)) \/ CatchUp \/ GatewayRemoved
Moves(c) ==
  \/ Still /\ Keeps(c)
  \/ LooksAt(c) \/ PassesBy(c) \/ Changes(c) \/ Removes(c)
  \/ Publishes /\ tf'[c] = tf[c]

LEMMA DeadWrites ==
  ASSUME TypeOK, Published, NEW c \in Children, NEW d, Commit(d), NEW rev \in Nat, rev > 0,
         \/ Dead(c, rev) /\ (docs[c] = Absent => d[c] = Absent)
         \/ d[c] # Absent /\ rev = gen'
  PROVE  Dead(c, rev)'
<1>1. /\ docs' = d /\ UNCHANGED <<nodes, ro>> /\ gen \in Nat /\ gen' \in Nat
      /\ gen' = gen + 1 \/ (gen' = gen /\ gen = 0)
  BY CommitMoves DEF Published
<1>2. /\ ro.gen \in Nat /\ ro.gen <= gen
      /\ \A role \in Roles : nodes[role].gen \in Nat /\ nodes[role].gen <= gen
  BY Generations DEF Published
<1>3. gen' >= rev /\ d[c] = Absent => \A role \in Roles : ~(nodes[role].gen >= gen')
  BY <1>1, <1>2
<1>4. ro.gen >= rev /\ ro.docs[c] = Absent =>
        d[c] = Absent /\ \A role \in Roles : nodes[role].gen >= ro.gen => nodes[role].docs[c] = Absent
  <2>1. CASE d[c] # Absent /\ rev = gen'
    <3>1. ro.gen >= rev => ro.gen = gen /\ gen' = gen /\ gen = 0
      BY <1>1, <1>2, <2>1
    <3>2. QED
      BY <3>1, <2>1
  <2>2. CASE Dead(c, rev) /\ (docs[c] = Absent => d[c] = Absent)
    BY <2>2 DEF Dead, Gone
  <2>3. QED
    BY <2>1, <2>2
<1>5. QED
  BY <1>1, <1>3, <1>4 DEF Dead, Gone

LEMMA DeadLooks ==
  ASSUME TypeOK, Published, NEW c \in Children, NEW v \in Views, v.gen > 0, v.docs[c] # Absent
  PROVE  Dead(c, v.gen)
<1>1. gen \in Nat /\ ro.gen \in Nat /\ ro.gen <= gen
      /\ \A role \in Roles : nodes[role].gen \in Nat /\ nodes[role].gen <= gen
  BY Generations DEF Published
<1>2. CASE v = Primary
  <2>1. v.gen = gen /\ docs[c] # Absent
    BY <1>2 DEF Primary
  <2>2. ro.gen >= gen => ro.docs[c] # Absent
    BY <1>1, <2>1 DEF Published, Res
  <2>3. QED
    BY <2>1, <2>2 DEF Dead
<1>3. CASE v = ro
  <2>1. gen >= ro.gen /\ docs[c] = Absent => Gone(c, gen)
    BY <1>1, <1>3 DEF Published, Gone
  <2>2. QED
    BY <1>3, <2>1 DEF Dead
<1>4. QED
  BY <1>2, <1>3 DEF Views

LEMMA DeadPublishes ==
  ASSUME TypeOK, Published, NEW c \in Children, NEW rev \in Nat, rev > 0, Dead(c, rev), Publishes
  PROVE  Dead(c, rev)'
<1>1. ASSUME NEW role \in Roles, PublishTo(role) \/ DrainOn(role)
      PROVE  Dead(c, rev)'
  <2>1. /\ UNCHANGED <<gen, docs, ro>>
        /\ \A x \in Roles \ {role} : nodes'[x] = nodes[x]
    BY <1>1 DEF PublishTo, DrainOn, PlatformTypes, Nodes
  <2>2. \/ nodes'[role].gen = gen /\ nodes'[role].docs = docs
        \/ nodes'[role].gen = nodes[role].gen /\ nodes'[role].docs = nodes[role].docs
    BY <1>1 DEF PublishTo, DrainOn, PlatformTypes, Nodes
  <2>3. \A g : Gone(c, g) => Gone(c, g)'
    BY <2>1, <2>2 DEF Gone
  <2>4. QED
    BY <2>1, <2>3 DEF Dead
<1>2. CASE CatchUp
  <2>1. UNCHANGED <<gen, docs, nodes>> /\ ro'.gen = gen /\ ro'.docs = docs
    BY <1>2 DEF CatchUp, Primary
  <2>2. QED
    BY <2>1 DEF Dead, Gone
<1>3. CASE GatewayRemoved
  <2>1. /\ docs' = [r \in Res |-> Absent]
        /\ \A role \in Roles : nodes'[role].docs = docs'
    BY <1>3 DEF GatewayRemoved, PlatformTypes, Nodes
  <2>2. QED
    BY <2>1 DEF Dead, Gone, Res
<1>4. QED
  BY <1>1, <1>2, <1>3 DEF Publishes

LEMMA DeadMoves ==
  ASSUME TypeOK, TypeOK', Published, NEW c \in Children, Moves(c),
         tf[c].there /\ tf[c].rev > 0 => Dead(c, tf[c].rev),
         tf'[c].there, tf'[c].rev > 0
  PROVE  Dead(c, tf[c].rev)'
<1>1. tf[c].rev \in Nat \union {Nil} /\ tf'[c].rev \in Nat \union {Nil}
  BY DEF OtherTypes, States, Res
<1>2. tf'[c].rev \in Nat
  BY <1>1 DEF Nil
<1>3. PICK rev \in Nat : rev = tf'[c].rev
  BY <1>2
<1>4. rev > 0 /\ ~(tf'[c].rev <= 0)
  BY <1>3
<1>5. Keeps(c) => tf[c].there /\ Dead(c, rev)
  BY <1>3, <1>4 DEF Keeps
<1>6. Dead(c, rev)'
  <2>1. CASE Still /\ Keeps(c)
    BY <1>5, <2>1 DEF Still, Dead, Gone
  <2>2. CASE LooksAt(c)
    <3>1. PICK v \in Views : v.docs[c] # Absent /\ rev = v.gen
      BY <1>3, <2>2 DEF LooksAt
    <3>2. Dead(c, rev)
      BY <1>4, <3>1, DeadLooks
    <3>3. QED
      BY <2>2, <3>2 DEF LooksAt, Still, Dead, Gone
  <2>3. CASE PassesBy(c)
    BY <1>4, <1>5, <2>3, DeadWrites DEF PassesBy
  <2>4. CASE Changes(c)
    <3>1. PICK d : /\ Commit(d) /\ d[c] # Absent
                   /\ \/ Keeps(c) /\ (docs[c] = Absent => ~tf[c].there)
                      \/ rev = gen'
      BY <1>3, <2>4 DEF Changes
    <3>2. QED
      BY <1>4, <1>5, <3>1, DeadWrites
  <2>5. CASE Removes(c)
    BY <1>4, <1>5, <2>5, DeadWrites DEF Removes
  <2>6. CASE Publishes /\ tf'[c] = tf[c]
    BY <1>4, <1>5, <2>6, DeadPublishes DEF Keeps
  <2>7. QED
    BY <2>1, <2>2, <2>3, <2>4, <2>5, <2>6 DEF Moves
<1>7. QED
  BY <1>3, <1>6 DEF Dead, Gone

-----------------------------------------------------------------------------
(* What the handler of one resource does to itself, and to nobody else.      *)

Alone(r) ==
  \A s \in Res \ {r} :
    /\ pc'[s] = pc[s] /\ req'[s] = req[s] /\ accepted'[s] = accepted[s] /\ tf'[s] = tf[s]

LEMMA ResultAlone ==
  ASSUME NEW r \in Res, LocalTypes,
         Fail(r) \/ (\E w : Succeed(r, w)) \/ \E s, a, w : Continue(r, s, a, w)
  PROVE  /\ pc' = [pc EXCEPT ![r] = pc'[r]]
         /\ req' = [req EXCEPT ![r] = req'[r]]
         /\ accepted' = [accepted EXCEPT ![r] = accepted'[r]]
BY DEF Fail, Succeed, Finish, Continue, LocalTypes

LEMMA StateAlone ==
  ASSUME NEW r \in Res, tf \in [Res -> States],
         UNCHANGED tf \/ Forget(r) \/ \E doc, rev, tainted : SetState(r, doc, rev, tainted)
  PROVE  \A s \in Res \ {r} : tf'[s] = tf[s]
BY DEF Forget, SetState

LEMMA ResultsAlone ==
  ASSUME NEW r \in Res, TypeOK,
         Fail(r) \/ (\E w : Succeed(r, w)) \/ (\E s, a, w : Continue(r, s, a, w)),
         UNCHANGED tf \/ Forget(r) \/ \E doc, rev, tainted : SetState(r, doc, rev, tainted)
  PROVE  Alone(r)
BY ResultAlone, StateAlone DEF Alone, LocalTypes, OtherTypes

LEMMA HandlersAlone ==
  ASSUME NEW r \in Res, TypeOK, Start(r) \/ Refresh(r) \/ Proceed(r) \/ CancelAcquire(r)
  PROVE  Alone(r)
<1>1. CASE Start(r)
  <2>1. \E s, q : Begin(r, s, q)
    BY <1>1, Zenon DEF Start, StartCreate, StartUpdateListener, StartUpdateRoute, StartUpdateGateway,
       StartDelete
  <2>2. QED
    BY <2>1 DEF Begin, Alone, LocalTypes
<1>2. CASE Refresh(r)
  BY <1>2, StateAlone DEF Refresh, Alone, OtherTypes
<1>3. CASE CancelAcquire(r) \/ RevisionFails(r) \/ SendFails(r) \/ SendLost(r) \/ GiveUp(r)
  BY <1>3, ResultsAlone DEF CancelAcquire, RevisionFails, SendFails, SendLost, GiveUp
<1>4. CASE Acquire(r) \/ ReadRevision(r)
  BY <1>4 DEF Acquire, ReadRevision, Alone, LocalTypes
<1>5. CASE PostChild(r) \/ PatchRoute(r)
  BY <1>5, ResultsAlone, Zenon DEF PostChild, PatchRoute, AfterWrite
<1>6. CASE PatchListener(r) \/ (r = Gateway /\ PatchGateway)
  BY <1>6, ResultsAlone, Zenon DEF PatchListener, PatchGateway
<1>7. CASE DeleteCommitted(r) \/ DeleteMissing(r)
  BY <1>7, ResultsAlone, Zenon DEF DeleteCommitted, DeleteMissing
<1>8. CASE RotateCertificate(r) \/ RotationLost(r) \/ RereadListener(r)
  BY <1>8, ResultsAlone, Zenon DEF RotateCertificate, RotationLost, RereadListener, GotListener
<1>9. CASE (r = Gateway /\ SettleGateway) \/ WaitDone(r) \/ WaitRemoved(r)
  BY <1>9, ResultsAlone, Zenon DEF SettleGateway, WaitDone, WaitRemoved
<1>10. QED
  BY <1>1, <1>2, <1>3, <1>4, <1>5, <1>6, <1>7, <1>8, <1>9 DEF Proceed

-----------------------------------------------------------------------------
(* What the handler of a child was called for.                               *)

LEMMA FinishCalled ==
  ASSUME NEW r \in Res, LocalTypes, Fail(r) \/ \E w : Succeed(r, w)
  PROVE  pc'[r] = "idle" /\ Called(r)'
BY DEF Fail, Succeed, Finish, Called, NoRequest, LocalTypes

LEMMA WaitCalled ==
  ASSUME NEW r \in Res, LocalTypes, NEW s \in {"wait", "reread"}, NEW a, NEW w, Continue(r, s, a, w),
         s = "reread" => req[r].op = "update", req[r].op # "delete"
  PROVE  Called(r)'
BY DEF Continue, Called, LocalTypes

LEMMA WriteCalled ==
  ASSUME NEW c \in Children, TypeOK, PostChild(c) \/ PatchRoute(c) \/ PatchListener(c)
  PROVE  Called(c)'
<1>1. c \in Res /\ req[c].op # "delete" /\ (PatchListener(c) => req[c].op = "update")
  BY DEF PostChild, PatchRoute, PatchListener, Sending, Res
<1>2. \/ Fail(c) \/ (\E w : Succeed(c, w))
      \/ \E s \in {"wait", "reread"} : \E a, w : Continue(c, s, a, w) /\ (s = "reread" => PatchListener(c))
  BY Zenon DEF PostChild, PatchRoute, PatchListener, AfterWrite
<1>3. QED
  BY <1>1, <1>2, FinishCalled, WaitCalled

LEMMA DeleteCalled ==
  ASSUME NEW c \in Children, TypeOK, DeleteCommitted(c) \/ DeleteMissing(c)
  PROVE  Called(c)'
<1>1. c \in Res /\ tf[c].rev \in Nat \union {Nil} /\ tf[c].rev \in Int /\ gen \in Nat
  BY NilType DEF Res, OtherTypes, States, PlatformTypes
<1>2. \/ Fail(c) \/ (\E w : Succeed(c, w))
      \/ \E a, w : /\ Continue(c, "wait", a, w) /\ UNCHANGED tf
                   /\ a \in Nat /\ a > 0 /\ ~(tf[c].rev > a)
  <2>1. CASE DeleteMissing(c)
    <3>1. Known(c) > 0 => Known(c) \in Nat /\ ~(tf[c].rev > Known(c))
      BY <1>1 DEF Known, Nil
    <3>2. QED
      BY <2>1, <3>1, Zenon DEF DeleteMissing
  <2>2. CASE DeleteCommitted(c)
    <3>1. PICK rev \in Answers(NextGen([docs EXCEPT ![c] = Absent])) :
            \/ Succeed(c, rev)
            \/ Fail(c)
            \/ /\ rev > 0 /\ rev >= Known(c)
               /\ Continue(c, "wait", rev, rev) /\ UNCHANGED tf
      BY <2>2, Zenon DEF DeleteCommitted
    <3>2. rev \in Nat \union {Nil}
      BY <1>1, <3>1, NextGenType, AnswersType
    <3>3. rev > 0 /\ rev >= Known(c) => rev \in Nat /\ ~(tf[c].rev > rev)
      BY <1>1, <3>2 DEF Known, Nil
    <3>4. QED
      BY <3>1, <3>3
  <2>3. QED
    BY <2>1, <2>2
<1>3. ASSUME NEW a, NEW w, Continue(c, "wait", a, w), UNCHANGED tf, a \in Nat, a > 0, ~(tf[c].rev > a)
      PROVE  Called(c)'
  BY <1>1, <1>3 DEF Continue, Called, LocalTypes
<1>4. QED
  BY <1>1, <1>2, <1>3, FinishCalled

LEMMA HandlerCalled ==
  ASSUME NEW c \in Children, TypeOK, Called(c),
         Start(c) \/ Refresh(c) \/ Proceed(c) \/ CancelAcquire(c)
  PROVE  Called(c)'
<1>1. c \in Res /\ c # Gateway
  BY AppGWAssumption DEF Res
<1>2. CASE Start(c)
  <2>1. ASSUME NEW s \in {"acquire", "reread"}, NEW q, Begin(c, s, q), q.op # "none",
               s = "reread" => q.op = "update", q.op = "create" => ~tf[c].there
        PROVE  Called(c)'
    BY <1>1, <2>1 DEF Begin, Called, LocalTypes
  <2>2. CASE \E want : StartCreate(c, want)
    BY <2>1, <2>2 DEF StartCreate
  <2>3. ASSUME NEW want, NEW rotate,
               StartUpdateListener(c, want, rotate) \/ StartUpdateRoute(c, want)
        PROVE  Called(c)'
    <3>1. Update(c, want, rotate).op = "update" /\ Update(c, want, FALSE).op = "update"
      BY DEF Update
    <3>2. \E s \in {"acquire", "reread"}, b \in {rotate, FALSE} : Begin(c, s, Update(c, want, b))
      BY <2>3, Zenon DEF StartUpdateListener, StartUpdateRoute
    <3>3. QED
      BY <2>1, <3>1, <3>2
  <2>4. CASE StartDelete(c)
    <3>1. [NoRequest EXCEPT !.op = "delete"].op = "delete"
      BY DEF NoRequest
    <3>2. QED
      BY <2>1, <2>4, <3>1 DEF StartDelete
  <2>5. QED
    BY <1>1, <1>2, <2>2, <2>3, <2>4, Zenon DEF Start
<1>3. CASE Refresh(c)
  BY <1>3 DEF Refresh, Called
<1>4. CASE CancelAcquire(c) \/ RevisionFails(c) \/ SendFails(c) \/ SendLost(c) \/ GiveUp(c)
           \/ WaitDone(c) \/ WaitRemoved(c)
  BY <1>1, <1>4, FinishCalled, Zenon
     DEF CancelAcquire, RevisionFails, SendFails, SendLost, GiveUp, WaitDone, WaitRemoved
<1>5. CASE Acquire(c) \/ ReadRevision(c)
  BY <1>1, <1>5 DEF Acquire, ReadRevision, Called, LocalTypes
<1>6. CASE PostChild(c) \/ PatchRoute(c) \/ PatchListener(c)
  BY <1>6, WriteCalled
<1>7. CASE DeleteCommitted(c) \/ DeleteMissing(c)
  BY <1>7, DeleteCalled
<1>8. CASE RotateCertificate(c) \/ RotationLost(c) \/ RereadListener(c)
  <2>1. req[c].op = "update"
    BY <1>8 DEF RotateCertificate, RotationLost, RereadListener, Called
  <2>2. Fail(c) \/ (\E w : Succeed(c, w)) \/ \E a, w : Continue(c, "wait", a, w)
    BY <1>8, Zenon DEF RotateCertificate, RotationLost, RereadListener, GotListener
  <2>3. QED
    BY <1>1, <2>1, <2>2, FinishCalled, WaitCalled
<1>9. QED
  BY <1>1, <1>2, <1>3, <1>4, <1>5, <1>6, <1>7, <1>8 DEF Proceed

LEMMA CalledStep ==
  ASSUME TypeOK, CalledInv, [Next]_vars
  PROVE  CalledInv'
<1>1. ASSUME NEW r \in Res, Start(r) \/ Refresh(r) \/ Proceed(r) \/ CancelAcquire(r)
      PROVE  CalledInv'
  <2>1. \A c \in Children \ {r} : Called(c)'
    BY <1>1, HandlersAlone DEF CalledInv, Called, Alone, Res
  <2>2. r \in Children => Called(r)'
    BY <1>1, HandlerCalled DEF CalledInv
  <2>3. QED
    BY <2>1, <2>2 DEF CalledInv
<1>2. CASE UNCHANGED <<local, tf>>
  BY <1>2 DEF CalledInv, Called, local
<1>3. CASE Platform
  BY <1>2, <1>3, PlatformLock
<1>4. QED
  BY <1>1, <1>2, <1>3 DEF Next, Quiet, vars

-----------------------------------------------------------------------------
(* Every step is one of the moves, for every child.                          *)

LEMMA KeepsUnchanged == \A c \in Children : tf'[c] = tf[c] => Keeps(c)
BY DEF Keeps

\* What a handler does to the others' documents: nothing.
LEMMA OthersMove ==
  ASSUME NEW c \in Children, NEW r \in Res, r # c, TypeOK,
         Start(r) \/ Refresh(r) \/ Proceed(r) \/ CancelAcquire(r)
  PROVE  Moves(c)
<1>1. c \in Res /\ Keeps(c)
  BY HandlersAlone, KeepsUnchanged DEF Alone, Res
<1>2. Still \/ \E d : Commit(d) /\ d[c] = docs[c]
  <2>1. CASE Start(r) \/ Refresh(r) \/ CancelAcquire(r)
    BY <2>1 DEF Start, StartCreate, StartUpdateListener, StartUpdateRoute, StartUpdateGateway,
       StartDelete, Begin, Refresh, CancelAcquire, platform, Still
  <2>2. CASE Proceed(r)
    <3>1. ASSUME \/ Acquire(r) \/ ReadRevision(r) \/ RevisionFails(r) \/ SendFails(r)
                 \/ DeleteMissing(r) \/ RereadListener(r) \/ (r = Gateway /\ SettleGateway)
                 \/ WaitDone(r) \/ WaitRemoved(r) \/ GiveUp(r)
          PROVE  Still
      BY <3>1 DEF Acquire, ReadRevision, RevisionFails, SendFails, DeleteMissing, RereadListener,
         SettleGateway, WaitDone, WaitRemoved, GiveUp, platform, Still
    <3>2. \A doc : docs \in [Res -> Documents \union {Absent}] => [docs EXCEPT ![r] = doc][c] = docs[c]
      BY <1>1
    <3>3. ASSUME \/ SendLost(r) \/ PostChild(r) \/ PatchRoute(r) \/ PatchListener(r)
                 \/ (r = Gateway /\ PatchGateway) \/ DeleteCommitted(r) \/ RotateCertificate(r) \/ RotationLost(r)
          PROVE  Commit(docs) \/ \E doc : Commit([docs EXCEPT ![r] = doc])
      BY <3>3, Zenon DEF SendLost, PostChild, PatchRoute, PatchListener, PatchGateway,
         DeleteCommitted, RotateCertificate, RotationLost
    <3>4. ASSUME Commit(docs) \/ \E doc : Commit([docs EXCEPT ![r] = doc])
          PROVE  \E d : Commit(d) /\ d[c] = docs[c]
      <4>1. docs \in [Res -> Documents \union {Absent}]
        BY DEF PlatformTypes, DocMaps
      <4>2. CASE Commit(docs)
        BY <4>2
      <4>3. CASE \E doc : Commit([docs EXCEPT ![r] = doc])
        <5>1. PICK doc : Commit([docs EXCEPT ![r] = doc])
          BY <4>3
        <5>2. [docs EXCEPT ![r] = doc][c] = docs[c]
          BY <3>2, <4>1
        <5>3. QED
          BY <5>1, <5>2
      <4>4. QED
        BY <3>4, <4>2, <4>3
    <3>5. QED
      BY <2>2, <3>1, <3>3, <3>4 DEF Proceed
  <2>3. QED
    BY <2>1, <2>2
<1>3. QED
  BY <1>1, <1>2 DEF Moves, PassesBy

LEMMA NothingNew ==
  ASSUME NEW c \in Children, TypeOK,
         UNCHANGED tf \/ Forget(c) \/ \E doc, rev, tainted : rev <= 0 /\ SetState(c, doc, rev, tainted)
  PROVE  Keeps(c)
BY DEF Keeps, Forget, NoState, SetState, OtherTypes, Res

\* Writes of the child itself.
LEMMA WriteMoves ==
  ASSUME NEW c \in Children, TypeOK, Published, Called(c),
         PostChild(c) \/ PatchRoute(c) \/ PatchListener(c)
  PROVE  Changes(c)
<1>1. PICK doc, rev : \E t :
        /\ doc \in Stored(c) /\ rev \in Answers(NextGen([docs EXCEPT ![c] = doc]))
        /\ Commit([docs EXCEPT ![c] = doc])
        /\ SetState(c, doc, rev, t)
  BY Zenon DEF PostChild, PatchRoute, PatchListener
<1> DEFINE d == [docs EXCEPT ![c] = doc]
<1>2. c \in Res /\ doc \in Documents
  BY <1>1, StoredType DEF Res
<1>3. Commit(d) /\ d[c] # Absent
  BY <1>1, <1>2, NoDocument DEF PlatformTypes, DocMaps
<1>4. docs[c] = Absent => ~tf[c].there
  BY DEF PostChild, PatchRoute, PatchListener, Sending, Accepts, Exists, Primary, Called
<1>5. tf'[c].rev = rev /\ gen' = NextGen(d)
  BY <1>1, <1>2 DEF SetState, Commit, OtherTypes
<1>6. rev = Nil => Keeps(c)
  BY <1>5 DEF Keeps, Nil
<1>7. rev # Nil => tf'[c].rev = gen'
  BY <1>1, <1>5 DEF Answers
<1>8. QED
  BY <1>3, <1>4, <1>6, <1>7 DEF Changes

\* A look at a view takes its revision into the state, or none.
LEMMA LookMoves ==
  ASSUME NEW c \in Res, TypeOK, Still, NEW v \in Views, NEW rev \in Answers(v.gen),
         Exists(v, c), NEW doc, NEW t, SetState(c, doc, rev, t)
  PROVE  Keeps(c) \/ LooksAt(c)
<1>1. tf'[c].rev = rev
  BY DEF SetState, OtherTypes
<1>2. rev = Nil \/ rev = v.gen
  BY DEF Answers
<1>3. QED
  BY <1>1, <1>2 DEF Keeps, LooksAt, Exists, Nil

LEMMA OwnMove ==
  ASSUME NEW c \in Children, TypeOK, Published, Called(c),
         Start(c) \/ Refresh(c) \/ Proceed(c) \/ CancelAcquire(c)
  PROVE  Moves(c)
<1>1. c \in Res /\ c # Gateway
  BY AppGWAssumption DEF Res
<1>2. CASE \/ Start(c) \/ CancelAcquire(c) \/ Acquire(c) \/ ReadRevision(c) \/ RevisionFails(c)
           \/ SendFails(c) \/ GiveUp(c)
  <2>1. Still /\ UNCHANGED tf
    BY <1>2 DEF Start, StartCreate, StartUpdateListener, StartUpdateRoute, StartUpdateGateway,
       StartDelete, Begin, CancelAcquire, Acquire, ReadRevision, RevisionFails, SendFails, GiveUp,
       platform, Still
  <2>2. QED
    BY <2>1, KeepsUnchanged DEF Moves
<1>3. CASE Refresh(c)
  <2>1. Still
    BY <1>3 DEF Refresh, platform, Still
  <2>2. \/ Forget(c)
        \/ \E v \in Views : \E rev \in Answers(v.gen) :
             Exists(v, c) /\ SetState(c, v.docs[c], rev, tf[c].tainted)
    BY <1>3, Zenon DEF Refresh
  <2>3. ASSUME NEW v \in Views, NEW rev \in Answers(v.gen), Exists(v, c),
               SetState(c, v.docs[c], rev, tf[c].tainted)
        PROVE  Keeps(c) \/ LooksAt(c)
    BY <1>1, <2>1, <2>3, LookMoves
  <2>4. QED
    BY <2>1, <2>2, <2>3, NothingNew DEF Moves
<1>4. CASE SendLost(c)
  <2>1. PICK doc \in (IF req[c].op = "delete" THEN {Absent} ELSE Stored(c)) :
          Commit([docs EXCEPT ![c] = doc])
    BY <1>4, Zenon DEF SendLost
  <2>2. Keeps(c) /\ pc[c] = "send" /\ Accepts(c)
    BY <1>4, KeepsUnchanged DEF SendLost
  <2>3. [docs EXCEPT ![c] = doc][c] = doc
    BY <1>1 DEF PlatformTypes, DocMaps
  <2>4. CASE req[c].op = "delete"
    <3>1. docs[c] # Absent
      BY <2>2, <2>4 DEF Accepts, Exists, Primary
    <3>2. QED
      BY <2>1, <2>2, <2>3, <2>4, <3>1 DEF Moves, Removes
  <2>5. CASE req[c].op # "delete"
    <3>1. doc # Absent
      BY <1>1, <2>1, <2>5, StoredType, NoDocument
    <3>2. docs[c] = Absent => ~tf[c].there
      BY <2>2 DEF Accepts, Exists, Primary, Called
    <3>3. QED
      BY <2>1, <2>2, <2>3, <3>1, <3>2 DEF Moves, Changes
  <2>6. QED
    BY <2>4, <2>5
<1>5. CASE PostChild(c) \/ PatchRoute(c) \/ PatchListener(c)
  BY <1>5, WriteMoves DEF Moves
<1>6. CASE DeleteCommitted(c)
  <2>1. Commit([docs EXCEPT ![c] = Absent]) /\ (UNCHANGED tf \/ Forget(c))
    BY <1>6, Zenon DEF DeleteCommitted
  <2>2. docs[c] # Absent
    BY <1>6 DEF DeleteCommitted, Sending, Accepts, Exists, Primary
  <2>3. [docs EXCEPT ![c] = Absent][c] = Absent
    BY <1>1 DEF PlatformTypes, DocMaps
  <2>4. QED
    BY <2>1, <2>2, <2>3, NothingNew DEF Moves, Removes
<1>7. CASE DeleteMissing(c) \/ WaitRemoved(c)
  <2>1. Still /\ (UNCHANGED tf \/ Forget(c))
    BY <1>7 DEF DeleteMissing, WaitRemoved, platform, Still
  <2>2. QED
    BY <2>1, NothingNew DEF Moves
<1>8. CASE RotateCertificate(c) \/ RereadListener(c)
  <2>1. PICK rev \in Int : \E doc, w : GotListener(c, doc, rev, w)
    <3>1. Answers(NextGen(docs)) \subseteq Int
      BY NilType, NextGenType, AnswersType DEF PlatformTypes
    <3>2. \A v \in Views : Answers(v.gen) \subseteq Int
      BY NilType, Generations DEF Answers, Views, Primary
    <3>3. QED
      BY <1>8, <3>1, <3>2 DEF RotateCertificate, RereadListener
  <2>2. UNCHANGED tf \/ \E doc : rev <= 0 /\ SetState(c, doc, rev, FALSE)
    <3>1. CASE Owned(c) \/ accepted[c] # Nil \/ rev > 0
      BY <2>1, <3>1 DEF GotListener
    <3>2. CASE ~(Owned(c) \/ accepted[c] # Nil \/ rev > 0)
      <4>1. \E doc : SetState(c, doc, rev, FALSE)
        BY <2>1, <3>2, Zenon DEF GotListener
      <4>2. rev <= 0
        BY <3>2
      <4>3. QED
        BY <4>1, <4>2
    <3>3. QED
      BY <3>1, <3>2
  <2>3. Keeps(c)
    BY <2>2, NothingNew
  <2>4. Still \/ Commit(docs)
    BY <1>8 DEF RotateCertificate, RotationLost, RereadListener, platform, Still
  <2>5. QED
    BY <2>3, <2>4 DEF Moves, PassesBy
<1>9. CASE WaitDone(c)
  <2>1. Still
    BY <1>9 DEF WaitDone, platform, Still
  <2>2. \/ UNCHANGED tf
        \/ \E v \in Views : \E rev \in Answers(v.gen) :
             Exists(v, c) /\ SetState(c, v.docs[c], rev, FALSE)
    BY <1>9, Zenon DEF WaitDone
  <2>3. ASSUME NEW v \in Views, NEW rev \in Answers(v.gen), Exists(v, c),
               SetState(c, v.docs[c], rev, FALSE)
        PROVE  Keeps(c) \/ LooksAt(c)
    BY <1>1, <2>1, <2>3, LookMoves
  <2>4. QED
    BY <2>1, <2>2, <2>3, KeepsUnchanged DEF Moves
<1>10. CASE RotationLost(c)
  <2>1. Commit(docs) /\ UNCHANGED tf
    BY <1>10 DEF RotationLost
  <2>2. QED
    BY <2>1, KeepsUnchanged DEF Moves, PassesBy
<1>11. QED
  BY <1>1, <1>2, <1>3, <1>4, <1>5, <1>6, <1>7, <1>8, <1>9, <1>10 DEF Proceed

LEMMA ChildMoves ==
  ASSUME NEW c \in Children, TypeOK, Published, CalledInv, [Next]_vars
  PROVE  Moves(c)
<1>1. c \in Res
  BY DEF Res
<1>2. ASSUME NEW r \in Res, Start(r) \/ Refresh(r) \/ Proceed(r) \/ CancelAcquire(r)
      PROVE  Moves(c)
  BY <1>2, OthersMove, OwnMove DEF CalledInv
<1>3. CASE UNCHANGED vars \/ GatewayBreaks
  BY <1>3, KeepsUnchanged DEF vars, platform, GatewayBreaks, Outside, Moves, Still
<1>4. ASSUME NEW r \in Res, NEW d \in Documents \union {Absent}, OutsideWrite(r, d)
      PROVE  Moves(c)
  <2>1. Keeps(c) /\ Commit([docs EXCEPT ![r] = d]) /\ docs[r] # Absent
    BY <1>4, KeepsUnchanged DEF OutsideWrite, Outside, Exists, Primary
  <2>2. r # c => [docs EXCEPT ![r] = d][c] = docs[c]
    BY <1>1 DEF PlatformTypes, DocMaps
  <2>3. r = c => [docs EXCEPT ![r] = d][c] = d
    BY <1>1 DEF PlatformTypes, DocMaps
  <2>4. CASE r # c
    BY <2>1, <2>2, <2>4 DEF Moves, PassesBy
  <2>5. CASE r = c /\ d = Absent
    BY <2>1, <2>3, <2>5 DEF Moves, Removes
  <2>6. CASE r = c /\ d # Absent
    BY <2>1, <2>3, <2>6 DEF Moves, Changes
  <2>7. QED
    BY <2>4, <2>5, <2>6
<1>5. CASE (\E role \in Roles : PublishTo(role) \/ DrainOn(role)) \/ CatchUp \/ GatewayRemoved
  BY <1>5 DEF PublishTo, DrainOn, CatchUp, GatewayRemoved, Outside, Moves, Publishes
<1>6. QED
  BY <1>2, <1>3, <1>4, <1>5 DEF Next, Quiet, Platform

-----------------------------------------------------------------------------
(* What a deletion and a success amount to, however stale the reads.         *)

RemovalInv == Published /\ CalledInv /\ DeadStaysDead

LEMMA RemovalStep ==
  ASSUME TypeOK, TypeOK', RemovalInv, [Next]_vars
  PROVE  RemovalInv'
<1>1. Published' /\ CalledInv'
  BY PublishedStep, CalledStep DEF RemovalInv
<1>2. ASSUME NEW c \in Children, tf'[c].there, tf'[c].rev > 0
      PROVE  Dead(c, tf[c].rev)'
  BY <1>2, ChildMoves, DeadMoves DEF RemovalInv, DeadStaysDead
<1>3. QED
  BY <1>1, <1>2 DEF RemovalInv, DeadStaysDead

LEMMA RemovalInit == Init => RemovalInv
<1> SUFFICES ASSUME Init PROVE RemovalInv
  OBVIOUS
<1>1. Published
  BY DEF Init, Published, StartNode
<1>2. CalledInv
  BY DEF Init, CalledInv, Called, NoRequest, Res
<1>3. DeadStaysDead
  BY AppGWAssumption DEF Init, DeadStaysDead, NoState, Children, Res
<1>4. QED
  BY <1>1, <1>2, <1>3 DEF RemovalInv

\* The one step that forgets a child whose revision the state knows.
LEMMA RemovedIsDead ==
  ASSUME NEW c \in Children, TypeOK, RemovalInv, tf[c].there, tf[c].rev > 0, WaitRemoved(c)
  PROVE  \A role \in Roles : nodes[role].docs[c] = Absent
<1>1. PICK v \in Views : Observed(c, v) /\ ~Exists(v, c)
  BY DEF WaitRemoved
<1>2. /\ v.gen \in Nat /\ gen \in Nat /\ ro.gen \in Nat /\ tf[c].rev \in Int
      /\ \A role \in Roles : nodes[role].gen \in Nat /\ ro.nodes[role].gen \in Nat
  BY Generations, NilType DEF Views, Primary, OtherTypes, States, Res
<1>3. accepted[c] \in Nat /\ accepted[c] > 0 /\ ~(tf[c].rev > accepted[c])
  BY <1>1 DEF Observed, WaitRemoved, RemovalInv, CalledInv, Called
<1>4. /\ v.gen >= accepted[c]
      /\ \A role \in Roles : v.nodes[role].gen = v.gen
  BY <1>1, <1>3 DEF Observed, Ready, ReplicaApplied
<1>5. v.gen >= tf[c].rev /\ v.docs[c] = Absent
  BY <1>1, <1>2, <1>3, <1>4 DEF Exists
<1>6. Dead(c, tf[c].rev)
  BY DEF RemovalInv, DeadStaysDead
<1>7. CASE v = Primary
  <2>1. v.gen = gen /\ v.docs = docs /\ v.nodes = nodes
    BY <1>7 DEF Primary
  <2>2. Gone(c, gen) /\ \A role \in Roles : nodes[role].gen >= gen
    BY <1>2, <1>4, <1>5, <1>6, <2>1 DEF Dead
  <2>3. QED
    BY <2>2 DEF Gone
<1>8. CASE v = ro
  <2>1. \A role \in Roles : nodes[role].gen >= ro.gen
    BY <1>2, <1>4, <1>8 DEF RemovalInv, Published
  <2>2. QED
    BY <1>5, <1>6, <1>8, <2>1 DEF Dead, Gone
<1>9. QED
  BY <1>1, <1>7, <1>8 DEF Views

LEMMA DestroyedHolds ==
  ASSUME TypeOK, RemovalInv, [Next]_vars
  PROVE  DestroyedStep
<1> SUFFICES ASSUME NEW c \in Children, tf[c].there, ~tf'[c].there, tf[c].rev > 0,
                    req[c].op = "delete"
             PROVE  \A role \in Roles : nodes[role].docs[c] = Absent
  BY DEF DestroyedStep
<1>1. c \in Res /\ c # Gateway /\ tf[c].rev \in Int
  BY AppGWAssumption, NilType DEF Res, OtherTypes, States
<1>2. tf' # tf /\ tf'[c] # tf[c]
  OBVIOUS
<1>3. PICK r \in Res : Start(r) \/ Refresh(r) \/ Proceed(r) \/ CancelAcquire(r)
  BY <1>2, PlatformLock DEF Next, Quiet, vars
<1>4. r = c
  BY <1>1, <1>2, <1>3, HandlersAlone DEF Alone
<1>5. ~Start(c) /\ ~Refresh(c) /\ ~CancelAcquire(c)
  BY <1>2 DEF Start, StartCreate, StartUpdateListener, StartUpdateRoute, StartUpdateGateway,
     StartDelete, Begin, Refresh, CancelAcquire, RemovalInv, CalledInv, Called
<1>6. Known(c) > 0
  BY DEF Known
<1>7. ~DeleteMissing(c) /\ ~DeleteCommitted(c)
  <2>1. Known(c) # 0
    BY <1>6
  <2>2. QED
    BY <1>2, <2>1 DEF DeleteMissing, DeleteCommitted
<1>8. /\ ~PostChild(c) /\ ~PatchRoute(c) /\ ~PatchListener(c) /\ ~RotateCertificate(c) /\ ~RotationLost(c)
      /\ ~RereadListener(c) /\ ~WaitDone(c)
  BY DEF PostChild, PatchRoute, PatchListener, Sending, RotateCertificate, RotationLost, RereadListener,
     WaitDone, RemovalInv, CalledInv, Called
<1>9. ~Acquire(c) /\ ~ReadRevision(c) /\ ~RevisionFails(c) /\ ~SendFails(c) /\ ~SendLost(c) /\ ~GiveUp(c)
  BY <1>2 DEF Acquire, ReadRevision, RevisionFails, SendFails, SendLost, GiveUp
<1>10. WaitRemoved(c)
  BY <1>1, <1>3, <1>4, <1>5, <1>7, <1>8, <1>9 DEF Proceed
<1>11. QED
  BY <1>10, RemovedIsDead

\* A destroy forgets a protected child only when no replica serves it any more,
\* however stale the snapshots it polled, and whoever else wrote or removed the
\* child or the whole gateway in between.
THEOREM RemovedWhenForgotten == Spec => DestroyForgetsOnlyRemoved
<1>1. TypeOK /\ TypeOK' /\ RemovalInv /\ [Next]_vars => RemovalInv'
  BY RemovalStep
<1>2. TypeOK /\ RemovalInv /\ [Next]_vars => DestroyedStep
  BY DestroyedHolds
<1>3. DestroyedStep => [DestroyedStep]_vars
  OBVIOUS
<1>4. QED
  BY <1>1, <1>2, <1>3, RemovalInit, TypeCorrect, PTL DEF Spec, DestroyForgetsOnlyRemoved

\* Of a gateway that is read fresh, what Ready says of the replicas is true.
LEMMA ReadyIsEnforced ==
  ASSUME NEW r \in Res, TypeOK, Published, NEW g \in Nat \union {Nil}, Ready(Primary, g),
         docs[r] \in Documents
  PROVE  \A role \in Roles : Enforced(role, r, docs[r])
<1>1. gen \in Nat /\ \A role \in Roles : nodes[role].gen \in Nat /\ nodes[role].gen <= gen
  BY Generations DEF Published
<1>2. CASE \A role \in Roles : ReplicaApplied(Primary, role)
  <2>1. ASSUME NEW role \in Roles
        PROVE  gen > 0 /\ nodes[role].gen = gen /\ nodes[role].cleared = gen
    BY <1>1, <1>2 DEF ReplicaApplied, Primary, Listed
  <2>2. QED
    BY <2>1 DEF Enforced, Published
<1>3. CASE LegacyNoop(Primary)
  <2>1. gen = 0 /\ docs[r] = Empty
    BY <1>3, NoDocument DEF LegacyNoop, Primary
  <2>2. \A role \in Roles : nodes[role].gen = 0
    BY <1>1, <2>1
  <2>3. QED
    BY <2>1, <2>2 DEF Enforced
<1>4. QED
  BY <1>2, <1>3 DEF Ready

LEMMA EnforcedHolds ==
  ASSUME TypeOK, RemovalInv, [Next]_vars
  PROVE  EnforcedStep
<1> SUFFICES ASSUME NEW r \in Res, Reports(r, "ok"), Owned(r), req[r].op # "delete"
             PROVE  /\ tf'[r].doc = req[r].want /\ ~tf'[r].tainted
                    /\ ~LaggingReads => \A role \in Roles : Enforced(role, r, req[r].want)
  BY DEF EnforcedStep
<1>1. pc'[r] # pc[r] /\ pc[r] # "idle" /\ outcome'[r] = "ok" /\ pc' # pc
  BY DEF Reports
<1>2. PICK s \in Res : Start(s) \/ Refresh(s) \/ Proceed(s) \/ CancelAcquire(s)
  BY <1>1, PlatformLock DEF Next, Quiet, vars, local
<1>3. s = r
  BY <1>1, <1>2, HandlersAlone DEF Alone
<1>4. ~Fail(r)
  BY <1>1 DEF Fail, Finish, LocalTypes
<1>5. \A t \in {"wait", "settle", "reread"} : \A a, w : ~Continue(r, t, a, w)
  BY <1>1 DEF Continue, LocalTypes, Reports
<1>6. ~Start(r) /\ ~Refresh(r)
  BY <1>1 DEF Start, StartCreate, StartUpdateListener, StartUpdateRoute, StartUpdateGateway,
     StartDelete, Begin, Refresh
<1>7. ~Acquire(r) /\ ~ReadRevision(r)
  BY <1>1 DEF Acquire, ReadRevision, LocalTypes, Reports
<1>8. /\ ~CancelAcquire(r) /\ ~RevisionFails(r) /\ ~SendFails(r) /\ ~SendLost(r) /\ ~GiveUp(r)
      /\ ~DeleteMissing(r) /\ ~DeleteCommitted(r) /\ ~WaitRemoved(r)
  BY <1>4 DEF CancelAcquire, RevisionFails, SendFails, SendLost, GiveUp, DeleteMissing,
     DeleteCommitted, Sending, WaitRemoved
<1>9. \A doc, rev : ~AfterWrite(r, doc, rev)
  BY <1>4, <1>5 DEF AfterWrite, NothingToWait
<1>10. \A doc, rev, w : ~GotListener(r, doc, rev, w)
  BY <1>4, <1>5, Zenon DEF GotListener
<1>11. ~PostChild(r) /\ ~PatchRoute(r)
  BY <1>9 DEF PostChild, PatchRoute
<1>12. ~PatchListener(r) /\ ~(r = Gateway /\ PatchGateway)
  BY <1>4, <1>5, Zenon DEF PatchListener, PatchGateway
<1>13. ~RotateCertificate(r) /\ ~RotationLost(r) /\ ~RereadListener(r)
  BY <1>4, <1>10 DEF RotateCertificate, RotationLost, RereadListener
<1>14. ~(r = Gateway /\ SettleGateway)
  BY <1>4, <1>5, Zenon DEF SettleGateway
<1>15. WaitDone(r)
  BY <1>2, <1>3, <1>6, <1>7, <1>8, <1>11, <1>12, <1>13, <1>14 DEF Proceed
<1>16. PICK v \in Views :
         /\ Observed(r, v) /\ Confirmed(r, v.docs[r])
         /\ \E rev : SetState(r, v.docs[r], rev, FALSE)
  BY <1>4, <1>15, Zenon DEF WaitDone
<1>17. ~Legacy /\ v.docs[r] = req[r].want /\ req[r].want \in Documents
  BY <1>16 DEF Observed, Confirmed, Owned, LocalTypes, Requests
<1>18. tf'[r].doc = req[r].want /\ ~tf'[r].tainted
  BY <1>16, <1>17 DEF SetState, Visible, OtherTypes
<1>19. ASSUME ~LaggingReads
       PROVE  \A role \in Roles : Enforced(role, r, req[r].want)
  <2>1. v = Primary /\ docs[r] = req[r].want
    BY <1>17, <1>19 DEF Views, Primary
  <2>2. Ready(Primary, accepted[r]) /\ accepted[r] \in Nat \union {Nil}
    BY <1>16, <2>1 DEF Observed, LocalTypes
  <2>3. QED
    BY <1>17, <2>1, <2>2, ReadyIsEnforced DEF RemovalInv
<1>20. QED
  BY <1>18, <1>19

\* A create or an update of a managed policy that reports success has put the
\* planned document in the state, and without stale reads every replica
\* enforces that document at that moment, whoever else wrote in between.
THEOREM EnforcedOnSuccess == Spec => EnforcedWhenOk
<1>1. TypeOK /\ TypeOK' /\ RemovalInv /\ [Next]_vars => RemovalInv'
  BY RemovalStep
<1>2. TypeOK /\ RemovalInv /\ [Next]_vars => EnforcedStep
  BY EnforcedHolds
<1>3. EnforcedStep => [EnforcedStep]_vars
  OBVIOUS
<1>4. QED
  BY <1>1, <1>2, <1>3, RemovalInit, TypeCorrect, PTL DEF Spec, EnforcedWhenOk

-----------------------------------------------------------------------------
(* The children implement ManagedObject, as long as reads are fresh.         *)

\* Nothing exists without its gateway, the gateway's own handler only updates
\* it, and what is about to be created does not exist.
PendingInv ==
  /\ docs[Gateway] = Absent => \A c \in Children : docs[c] = Absent
  /\ req[Gateway].op \in {"none", "update"}
  /\ \A c \in Children :
       pc[c] \in {"acquire", "revision", "send"} /\ req[c].op = "create" => docs[c] = Absent

LEMMA HandlerDocs ==
  ASSUME NEW r \in Res, TypeOK, Start(r) \/ Refresh(r) \/ Proceed(r) \/ CancelAcquire(r)
  PROVE  \/ docs' = docs
         \/ \E doc : /\ docs' = [docs EXCEPT ![r] = doc] /\ docs[Gateway] # Absent
                     /\ doc \in Documents \/ req[r].op = "delete"
<1>1. CASE Start(r) \/ Refresh(r) \/ CancelAcquire(r)
  BY <1>1 DEF Start, StartCreate, StartUpdateListener, StartUpdateRoute, StartUpdateGateway,
     StartDelete, Begin, Refresh, CancelAcquire, platform
<1>2. CASE \/ Acquire(r) \/ ReadRevision(r) \/ RevisionFails(r) \/ SendFails(r)
           \/ DeleteMissing(r) \/ RereadListener(r) \/ (r = Gateway /\ SettleGateway)
           \/ WaitDone(r) \/ WaitRemoved(r) \/ GiveUp(r)
  BY <1>2 DEF Acquire, ReadRevision, RevisionFails, SendFails, DeleteMissing, RereadListener,
     SettleGateway, WaitDone, WaitRemoved, GiveUp, platform
<1>3. CASE RotateCertificate(r) \/ RotationLost(r)
  BY <1>3 DEF RotateCertificate, RotationLost, Commit
<1>4. CASE \/ SendLost(r) \/ PostChild(r) \/ PatchRoute(r) \/ PatchListener(r)
           \/ (r = Gateway /\ PatchGateway) \/ DeleteCommitted(r)
  <2>1. docs[Gateway] # Absent
    BY <1>4 DEF SendLost, PostChild, PatchRoute, PatchListener, PatchGateway, DeleteCommitted,
       Accepts, Exists, Primary
  <2>2. PICK doc : /\ Commit([docs EXCEPT ![r] = doc])
                   /\ doc \in Stored(r) \/ req[r].op = "delete"
    BY <1>4, Zenon DEF SendLost, PostChild, PatchRoute, PatchListener, PatchGateway,
       DeleteCommitted, Sending
  <2>3. QED
    BY <2>1, <2>2, StoredType DEF Commit
<1>5. QED
  BY <1>1, <1>2, <1>3, <1>4 DEF Proceed

LEMMA GatewayCalled ==
  ASSUME TypeOK, PendingInv, Start(Gateway) \/ Refresh(Gateway) \/ Proceed(Gateway) \/ CancelAcquire(Gateway)
  PROVE  req'[Gateway].op \in {"none", "update"}
<1>1. Gateway \in Res /\ Gateway \notin Children
  BY AppGWAssumption DEF Res
<1>2. CASE Start(Gateway)
  <2>1. \E s, want : Begin(Gateway, s, Update(Gateway, want, FALSE))
    BY <1>1, <1>2, Zenon DEF Start, StartUpdateGateway, Children
  <2>2. QED
    BY <1>1, <2>1 DEF Begin, Update, LocalTypes
<1>3. CASE \/ Fail(Gateway) \/ (\E w : Succeed(Gateway, w))
           \/ (\E s, a, w : Continue(Gateway, s, a, w)) \/ UNCHANGED req
  BY <1>1, <1>3 DEF Fail, Succeed, Finish, Continue, NoRequest, LocalTypes, PendingInv
<1>4. CASE Refresh(Gateway) \/ Acquire(Gateway) \/ ReadRevision(Gateway)
  BY <1>3, <1>4 DEF Refresh, Acquire, ReadRevision
<1>5. CASE \/ CancelAcquire(Gateway) \/ RevisionFails(Gateway) \/ SendFails(Gateway)
           \/ SendLost(Gateway) \/ GiveUp(Gateway) \/ PostChild(Gateway) \/ PatchRoute(Gateway)
           \/ PatchListener(Gateway) \/ PatchGateway \/ SettleGateway
           \/ DeleteCommitted(Gateway) \/ DeleteMissing(Gateway) \/ RotateCertificate(Gateway) \/ RotationLost(Gateway)
           \/ RereadListener(Gateway) \/ WaitDone(Gateway) \/ WaitRemoved(Gateway)
  <2>1. \/ Fail(Gateway) \/ (\E w : Succeed(Gateway, w))
        \/ (\E s, a, w : Continue(Gateway, s, a, w))
    BY <1>5, Zenon DEF CancelAcquire, RevisionFails, SendFails, SendLost, GiveUp, PostChild,
       PatchRoute, PatchListener, PatchGateway, SettleGateway, DeleteCommitted, DeleteMissing,
       RotateCertificate, RotationLost, RereadListener, GotListener, WaitDone, WaitRemoved, AfterWrite
  <2>2. QED
    BY <1>3, <2>1
<1>6. QED
  BY <1>2, <1>4, <1>5 DEF Proceed

\* A creation that is still to be sent was just started, or is one step further.
LEMMA StillPending ==
  ASSUME NEW c \in Children, TypeOK, PendingInv,
         Start(c) \/ Refresh(c) \/ Proceed(c) \/ CancelAcquire(c),
         pc'[c] \in {"acquire", "revision", "send"}, req'[c].op = "create"
  PROVE  docs'[c] = Absent
<1>1. c \in Res /\ c # Gateway
  BY AppGWAssumption DEF Res
<1>2. ASSUME Fail(c) \/ (\E w : Succeed(c, w))
             \/ \E s \in {"wait", "reread", "settle"} : \E a, w : Continue(c, s, a, w)
      PROVE  FALSE
  BY <1>1, <1>2 DEF Fail, Succeed, Finish, Continue, LocalTypes
<1>3. CASE Start(c)
  <2>1. \A s, q : Begin(c, s, q) => req'[c] = q /\ docs' = docs
    BY <1>1 DEF Begin, LocalTypes, platform
  <2>2. CASE \E want : StartCreate(c, want)
    BY <2>1, <2>2 DEF StartCreate, Exists, Primary
  <2>3. ASSUME NEW want, NEW rotate,
               StartUpdateListener(c, want, rotate) \/ StartUpdateRoute(c, want)
        PROVE  FALSE
    BY <2>1, <2>3 DEF StartUpdateListener, StartUpdateRoute, Update
  <2>4. ~StartDelete(c)
    BY <2>1 DEF StartDelete, NoRequest
  <2>5. QED
    BY <1>1, <1>3, <2>2, <2>3, <2>4, Zenon DEF Start
<1>4. CASE Refresh(c) \/ Acquire(c) \/ ReadRevision(c)
  BY <1>1, <1>4 DEF Refresh, Acquire, ReadRevision, PendingInv, platform, LocalTypes
<1>5. ~( \/ CancelAcquire(c) \/ RevisionFails(c) \/ SendFails(c)
         \/ SendLost(c) \/ GiveUp(c) \/ PostChild(c) \/ PatchRoute(c)
         \/ PatchListener(c)
         \/ DeleteCommitted(c) \/ DeleteMissing(c) \/ RotateCertificate(c) \/ RotationLost(c)
         \/ RereadListener(c) \/ WaitDone(c) \/ WaitRemoved(c) )
  BY <1>2, Zenon DEF CancelAcquire, RevisionFails, SendFails, SendLost, GiveUp, PostChild,
     PatchRoute, PatchListener, DeleteCommitted, DeleteMissing,
     RotateCertificate, RotationLost, RereadListener, GotListener, WaitDone, WaitRemoved, AfterWrite
<1>6. QED
  BY <1>1, <1>3, <1>4, <1>5 DEF Proceed

LEMMA PendingInit == Init => PendingInv
BY AppGWAssumption DEF Init, PendingInv, NoRequest, StartDocs, Children, Res, Empty, Absent

LEMMA PendingStep ==
  ASSUME TypeOK, PendingInv, [Next]_vars
  PROVE  PendingInv'
<1>1. Gateway \in Res /\ Gateway \notin Children /\ Children \subseteq Res
  BY AppGWAssumption DEF Res
<1>2. ASSUME NEW r \in Res, Start(r) \/ Refresh(r) \/ Proceed(r) \/ CancelAcquire(r)
      PROVE  PendingInv'
  <2>1. req'[Gateway].op \in {"none", "update"}
    BY <1>1, <1>2, GatewayCalled, HandlersAlone DEF Alone, PendingInv
  <2>2. CASE docs' = docs
    <3>1. ASSUME NEW c \in Children, pc'[c] \in {"acquire", "revision", "send"}, req'[c].op = "create"
          PROVE  docs'[c] = Absent
      BY <1>1, <1>2, <2>2, <3>1, StillPending, HandlersAlone DEF Alone, PendingInv
    <3>2. QED
      BY <2>1, <2>2, <3>1 DEF PendingInv
  <2>3. ASSUME NEW doc, docs' = [docs EXCEPT ![r] = doc], docs[Gateway] # Absent,
               doc \in Documents \/ req[r].op = "delete"
        PROVE  PendingInv'
    <3>1. \A s \in Res \ {r} : docs'[s] = docs[s]
      BY <2>3 DEF PlatformTypes, DocMaps
    <3>2. docs'[Gateway] # Absent
      BY <1>1, <2>3, <3>1, NoDocument DEF PendingInv, PlatformTypes, DocMaps
    <3>3. ASSUME NEW c \in Children, pc'[c] \in {"acquire", "revision", "send"}, req'[c].op = "create"
          PROVE  docs'[c] = Absent
      BY <1>1, <1>2, <3>1, <3>3, StillPending, HandlersAlone DEF Alone, PendingInv
    <3>4. QED
      BY <2>1, <3>2, <3>3 DEF PendingInv
  <2>4. QED
    BY <1>2, <2>2, <2>3, HandlerDocs
<1>3. CASE UNCHANGED <<docs, local>>
  BY <1>3 DEF PendingInv, local
<1>4. CASE Platform
  <2>1. UNCHANGED local
    BY <1>4, PlatformLock
  <2>2. CASE GatewayRemoved
    BY <1>1, <2>1, <2>2 DEF GatewayRemoved, PendingInv, local
  <2>3. ASSUME NEW r \in Res, NEW d \in Documents \union {Absent}, OutsideWrite(r, d)
        PROVE  PendingInv'
    <3>1. /\ docs' = [docs EXCEPT ![r] = d] /\ docs[Gateway] # Absent /\ docs[r] # Absent
          /\ r = Gateway => d # Absent
      BY <2>3 DEF OutsideWrite, Commit, Exists, Primary
    <3>2. docs'[Gateway] # Absent /\ \A c \in Children : docs[c] = Absent => docs'[c] = Absent
      BY <1>1, <3>1 DEF PlatformTypes, DocMaps
    <3>3. QED
      BY <2>1, <3>2 DEF PendingInv, local
  <2>4. QED
    BY <1>3, <1>4, <2>1, <2>2, <2>3 DEF Platform, PublishTo, DrainOn, CatchUp, GatewayBreaks
<1>5. QED
  BY <1>2, <1>3, <1>4 DEF Next, Quiet, vars, platform

-----------------------------------------------------------------------------
(* The steps of one child, as steps of ManagedObject.                        *)

Recorded(c) == tf[c].there
There(c) == docs[c] # Absent
OneChild(c) ==
  \A s \in Children \ {c} : (There(s)' <=> There(s)) /\ (Recorded(s)' <=> Recorded(s))

LEMMA AnswerPromised ==
  ASSUME NEW c \in Children, OneChild(c), ~There(c), There(c)', Recorded(c)', lost' = lost \ {c}
  PROVE  Managed!Next
<1>1. Managed!Create(c)
  BY DEF Managed!Create, OneChild, There, Recorded
<1>2. QED
  BY <1>1 DEF Managed!Next

LEMMA SilencePromised ==
  ASSUME NEW c \in Children, OneChild(c), ~There(c), There(c)', Recorded(c)' <=> Recorded(c),
         lost' = lost \union {c}
  PROVE  Managed!Next
<1>1. Managed!CreateUnanswered(c)
  BY DEF Managed!CreateUnanswered, OneChild, There, Recorded
<1>2. QED
  BY <1>1 DEF Managed!Next

LEMMA RecordPromised ==
  ASSUME NEW c \in Children, OneChild(c), lost' = lost, There(c)' <=> There(c),
         \/ Recorded(c)' <=> Recorded(c)
         \/ Recorded(c)' /\ There(c)
         \/ ~Recorded(c)' /\ ~There(c)
  PROVE  [Managed!Next]_(Managed!vars)
<1>1. CASE Recorded(c)' <=> Recorded(c)
  BY <1>1 DEF OneChild, There, Recorded, Managed!vars
<1>2. CASE Recorded(c)' /\ ~Recorded(c) /\ There(c)
  <2>1. Managed!Adopt(c)
    BY <1>2 DEF Managed!Adopt, OneChild, There, Recorded
  <2>2. QED
    BY <2>1 DEF Managed!Next
<1>3. CASE ~Recorded(c)' /\ Recorded(c) /\ ~There(c)
  <2>1. Managed!Forget(c)
    BY <1>3 DEF Managed!Forget, OneChild, There, Recorded
  <2>2. QED
    BY <2>1 DEF Managed!Next
<1>4. QED
  BY <1>1, <1>2, <1>3

LEMMA RemovalPromised ==
  ASSUME NEW c \in Children, OneChild(c), lost' = lost, There(c), ~There(c)',
         \/ Recorded(c)' <=> Recorded(c)
         \/ ~Recorded(c)'
  PROVE  Managed!Next
<1>1. CASE Recorded(c)' <=> Recorded(c)
  <2>1. Managed!Vanish({c})
    BY <1>1 DEF Managed!Vanish, OneChild, There, Recorded
  <2>2. QED
    BY <2>1 DEF Managed!Next
<1>2. CASE ~Recorded(c)'
  <2>1. Managed!Destroy(c)
    BY <1>2 DEF Managed!Destroy, OneChild, There, Recorded
  <2>2. QED
    BY <2>1 DEF Managed!Next
<1>3. QED
  BY <1>1, <1>2

\* A handler has nothing to do with another child.
LEMMA HandlersOneChild ==
  ASSUME NEW c \in Children, TypeOK, Start(c) \/ Refresh(c) \/ Proceed(c) \/ CancelAcquire(c)
  PROVE  OneChild(c)
<1>1. \A s \in Children \ {c} : s \in Res /\ s # c /\ c \in Res
  BY DEF Res
<1>2. \A s \in Children \ {c} : tf'[s] = tf[s]
  BY <1>1, HandlersAlone DEF Alone, Res
<1>3. \A s \in Children \ {c} : docs'[s] = docs[s]
  <2>1. docs \in [Res -> Documents \union {Absent}]
    BY DEF PlatformTypes, DocMaps
  <2>2. docs' = docs \/ \E doc : docs' = [docs EXCEPT ![c] = doc]
    BY HandlerDocs DEF Res
  <2>3. QED
    BY <1>1, <2>1, <2>2
<1>4. QED
  BY <1>2, <1>3 DEF OneChild, There, Recorded

\* Only a creation can be lost, and found again.
LEMMA LeavesLost ==
  ASSUME NEW r \in Res, Start(r) \/ Refresh(r) \/ Proceed(r) \/ CancelAcquire(r)
  PROVE  \/ lost' = lost
         \/ PostChild(r)
         \/ SendLost(r) /\ req[r].op = "create"
<1>1. CASE Start(r) \/ Refresh(r) \/ CancelAcquire(r)
  BY <1>1 DEF Start, StartCreate, StartUpdateListener, StartUpdateRoute, StartUpdateGateway,
     StartDelete, Begin, Refresh, CancelAcquire
<1>2. CASE Proceed(r) /\ ~PostChild(r)
  BY <1>2 DEF Proceed, Acquire, ReadRevision, RevisionFails, SendFails, SendLost, PatchRoute,
     PatchListener, PatchGateway, SettleGateway, DeleteCommitted, DeleteMissing,
     RotateCertificate, RotationLost, RereadListener, WaitDone, WaitRemoved, GiveUp
<1>3. QED
  BY <1>1, <1>2

LEMMA GatewayPromised ==
  ASSUME TypeOK, PendingInv, Start(Gateway) \/ Refresh(Gateway) \/ Proceed(Gateway) \/ CancelAcquire(Gateway)
  PROVE  UNCHANGED Managed!vars
<1>1. Gateway \in Res /\ Gateway \notin Children /\ Children \subseteq Res
  BY AppGWAssumption DEF Res
<1>2. \A s \in Children : tf'[s] = tf[s]
  BY <1>1, HandlersAlone DEF Alone
<1>3. \A s \in Children : docs'[s] = docs[s]
  <2>1. docs \in [Res -> Documents \union {Absent}]
    BY DEF PlatformTypes, DocMaps
  <2>2. docs' = docs \/ \E doc : docs' = [docs EXCEPT ![Gateway] = doc]
    BY <1>1, HandlerDocs
  <2>3. QED
    BY <1>1, <2>1, <2>2
<1>4. lost' = lost
  <2>1. req[Gateway].op # "create" /\ req[Gateway].op # "delete"
    BY DEF PendingInv
  <2>2. QED
    BY <1>1, <2>1, LeavesLost DEF PostChild, Sending
<1>5. QED
  BY <1>2, <1>3, <1>4 DEF Managed!vars

LEMMA SetRecords ==
  ASSUME NEW c \in Children, TypeOK
  PROVE  /\ \A doc, rev, tainted : SetState(c, doc, rev, tainted) => Recorded(c)'
         /\ Forget(c) => ~Recorded(c)'
         /\ UNCHANGED tf => (Recorded(c)' <=> Recorded(c))
BY DEF SetState, Forget, NoState, Recorded, OtherTypes, Res

LEMMA CommitThere ==
  ASSUME NEW c \in Children, TypeOK, NEW doc, Commit([docs EXCEPT ![c] = doc])
  PROVE  There(c)' <=> doc # Absent
BY DEF Commit, There, PlatformTypes, DocMaps, Res

\* Steps of the handler of a child that neither create nor remove it.
LEMMA OwnSteps ==
  ASSUME NEW c \in Children, ~LaggingReads, TypeOK, PendingInv,
         \/ Start(c) \/ Refresh(c) \/ CancelAcquire(c) \/ Acquire(c) \/ ReadRevision(c)
         \/ RevisionFails(c) \/ SendFails(c) \/ GiveUp(c) \/ DeleteMissing(c)
         \/ RotateCertificate(c) \/ RotationLost(c) \/ RereadListener(c) \/ WaitDone(c) \/ WaitRemoved(c)
  PROVE  /\ There(c)' <=> There(c)
         /\ \/ Recorded(c)' <=> Recorded(c)
            \/ Recorded(c)' /\ There(c)
            \/ ~Recorded(c)' /\ ~There(c)
<1>1. \A v \in Views : v = Primary /\ v.docs = docs
  BY DEF Views, Primary
<1>2. There(c)' <=> There(c)
  <2>1. \/ UNCHANGED docs
        \/ Commit(docs)
    BY DEF Start, StartCreate, StartUpdateListener, StartUpdateRoute, StartUpdateGateway,
     StartDelete, Begin, Refresh, CancelAcquire, Acquire, ReadRevision, RevisionFails, SendFails,
     GiveUp, DeleteMissing, RotateCertificate, RotationLost, RereadListener, WaitDone, WaitRemoved, platform
  <2>2. QED
    BY <2>1 DEF Commit, There
<1>3. CASE \/ Start(c) \/ CancelAcquire(c) \/ Acquire(c) \/ ReadRevision(c)
           \/ RevisionFails(c) \/ SendFails(c) \/ GiveUp(c)
  <2>1. UNCHANGED tf
    BY <1>3 DEF Start, StartCreate, StartUpdateListener, StartUpdateRoute, StartUpdateGateway,
     StartDelete, Begin, CancelAcquire, Acquire, ReadRevision, RevisionFails, SendFails, GiveUp
  <2>2. QED
    BY <1>2, <2>1, SetRecords
<1>4. CASE Refresh(c)
  <2>1. \/ There(c) /\ \E doc, rev, t : SetState(c, doc, rev, t)
        \/ ~There(c) /\ Forget(c)
    BY <1>1, <1>4 DEF Refresh, Exists, There, PendingInv
  <2>2. QED
    BY <1>2, <2>1, SetRecords
<1>5. CASE DeleteMissing(c)
  <2>1. ~There(c) /\ (UNCHANGED tf \/ Forget(c))
    BY <1>5 DEF DeleteMissing, Exists, Primary, There
  <2>2. QED
    BY <1>2, <2>1, SetRecords
<1>6. CASE RotateCertificate(c) \/ RotationLost(c) \/ RereadListener(c)
  <2>1. There(c)
    BY <1>1, <1>6 DEF RotateCertificate, RotationLost, RereadListener, Exists, Primary, There
  <2>2. UNCHANGED tf \/ \E doc, rev, t : SetState(c, doc, rev, t)
    BY <1>6, Zenon DEF RotateCertificate, RotationLost, RereadListener, GotListener
  <2>3. QED
    BY <1>2, <2>1, <2>2, SetRecords
<1>7. CASE WaitDone(c)
  <2>1. UNCHANGED tf \/ (There(c) /\ \E doc, rev, t : SetState(c, doc, rev, t))
    BY <1>1, <1>7 DEF WaitDone, Exists, There
  <2>2. QED
    BY <1>2, <2>1, SetRecords
<1>8. CASE WaitRemoved(c)
  <2>1. ~There(c) /\ Forget(c)
    BY <1>1, <1>8 DEF WaitRemoved, Exists, There
  <2>2. QED
    BY <1>2, <2>1, SetRecords
<1>9. QED
  BY <1>3, <1>4, <1>5, <1>6, <1>7, <1>8

LEMMA ChildPromised ==
  ASSUME NEW c \in Children, ~LaggingReads, TypeOK, PendingInv,
         Start(c) \/ Refresh(c) \/ Proceed(c) \/ CancelAcquire(c)
  PROVE  [Managed!Next]_(Managed!vars)
<1>1. c \in Res /\ c # Gateway /\ OneChild(c)
  BY AppGWAssumption, HandlersOneChild DEF Res
<1>2. CASE \/ Start(c) \/ Refresh(c) \/ CancelAcquire(c) \/ Acquire(c) \/ ReadRevision(c)
           \/ RevisionFails(c) \/ SendFails(c) \/ GiveUp(c) \/ DeleteMissing(c)
           \/ RotateCertificate(c) \/ RotationLost(c) \/ RereadListener(c) \/ WaitDone(c) \/ WaitRemoved(c)
  <2>1. /\ There(c)' <=> There(c)
        /\ \/ Recorded(c)' <=> Recorded(c)
           \/ Recorded(c)' /\ There(c)
           \/ ~Recorded(c)' /\ ~There(c)
    BY <1>2, OwnSteps
  <2>2. lost' = lost
    BY <1>2 DEF Start, StartCreate, StartUpdateListener, StartUpdateRoute, StartUpdateGateway,
     StartDelete, Begin, Refresh, CancelAcquire, Acquire, ReadRevision, RevisionFails, SendFails,
     GiveUp, DeleteMissing, RotateCertificate, RotationLost, RereadListener, WaitDone, WaitRemoved
  <2>3. QED
    BY <1>1, <2>1, <2>2, RecordPromised
<1>3. CASE PostChild(c)
  <2>1. PICK doc \in Stored(c) :
          /\ Commit([docs EXCEPT ![c] = doc])
          /\ \E rev, t : SetState(c, doc, rev, t)
    BY <1>3, Zenon DEF PostChild
  <2>2. There(c)' /\ Recorded(c)'
    BY <1>1, <2>1, CommitThere, SetRecords, StoredType, NoDocument
  <2>3. ~There(c) /\ lost' = lost \ {c}
    BY <1>3 DEF PostChild, Sending, PendingInv, There
  <2>4. QED
    BY <1>1, <2>2, <2>3, AnswerPromised
<1>4. CASE PatchRoute(c) \/ PatchListener(c)
  <2>1. PICK doc \in Stored(c) :
          /\ Commit([docs EXCEPT ![c] = doc])
          /\ \E rev, t : SetState(c, doc, rev, t)
    BY <1>4, Zenon DEF PatchRoute, PatchListener
  <2>2. There(c)' /\ Recorded(c)'
    BY <1>1, <2>1, CommitThere, SetRecords, StoredType, NoDocument
  <2>3. There(c) /\ lost' = lost
    BY <1>4 DEF PatchRoute, PatchListener, Sending, Accepts, Exists, Primary, There
  <2>4. QED
    BY <1>1, <2>2, <2>3, RecordPromised
<1>5. CASE DeleteCommitted(c)
  <2>1. Commit([docs EXCEPT ![c] = Absent]) /\ (UNCHANGED tf \/ Forget(c)) /\ lost' = lost
    BY <1>5, Zenon DEF DeleteCommitted
  <2>2. There(c)
    BY <1>5 DEF DeleteCommitted, Sending, Accepts, Exists, Primary, There
  <2>3. ~There(c)' /\ ((Recorded(c)' <=> Recorded(c)) \/ ~Recorded(c)')
    BY <2>1, CommitThere, SetRecords
  <2>4. QED
    BY <1>1, <2>1, <2>2, <2>3, RemovalPromised
<1>6. CASE SendLost(c)
  <2>1. PICK doc \in (IF req[c].op = "delete" THEN {Absent} ELSE Stored(c)) :
          Commit([docs EXCEPT ![c] = doc])
    BY <1>6, Zenon DEF SendLost
  <2>2. /\ Recorded(c)' <=> Recorded(c)
        /\ There(c)' <=> doc # Absent
    BY <1>6, <2>1, CommitThere, SetRecords DEF SendLost
  <2>3. CASE req[c].op = "create"
    <3>1. There(c)' /\ ~There(c) /\ lost' = lost \union {c}
      BY <1>1, <1>6, <2>1, <2>2, <2>3, StoredType, NoDocument DEF SendLost, PendingInv, There
    <3>2. QED
      BY <1>1, <2>2, <3>1, SilencePromised
  <2>4. CASE req[c].op # "create"
    <3>1. There(c) /\ lost' = lost
      BY <1>6, <2>4 DEF SendLost, Accepts, Exists, Primary, There
    <3>2. There(c)' \/ ~There(c)'
      OBVIOUS
    <3>3. QED
      BY <1>1, <2>2, <3>1, <3>2, RecordPromised, RemovalPromised
  <2>5. QED
    BY <2>3, <2>4
<1>7. QED
  BY <1>1, <1>2, <1>3, <1>4, <1>5, <1>6 DEF Proceed

LEMMA PlatformPromised ==
  ASSUME TypeOK, Platform
  PROVE  [Managed!Next]_(Managed!vars)
<1>1. Gateway \in Res /\ Gateway \notin Children /\ Children \subseteq Res
  BY AppGWAssumption DEF Res
<1>2. UNCHANGED <<tf, lost>>
  BY PlatformLock
<1>3. CASE UNCHANGED docs
  BY <1>2, <1>3 DEF Managed!vars
<1>4. CASE GatewayRemoved
  <2>1. \A c \in Children : docs'[c] = Absent
    BY <1>1, <1>4 DEF GatewayRemoved
  <2>2. CASE \A c \in Children : docs[c] = Absent
    BY <1>2, <2>1, <2>2 DEF Managed!vars
  <2>3. CASE \E c \in Children : docs[c] # Absent
    <3>1. PICK S \in SUBSET Children : S = {c \in Children : docs[c] # Absent}
      OBVIOUS
    <3>2. Managed!Vanish(S)
      BY <1>2, <2>1, <2>3, <3>1 DEF Managed!Vanish
    <3>3. QED
      BY <3>2 DEF Managed!Next
  <2>4. QED
    BY <2>2, <2>3
<1>5. ASSUME NEW r \in Res, NEW d \in Documents \union {Absent}, OutsideWrite(r, d)
      PROVE  [Managed!Next]_(Managed!vars)
  <2>1. Commit([docs EXCEPT ![r] = d]) /\ docs[r] # Absent
    BY <1>5 DEF OutsideWrite, Exists, Primary
  <2>2. \A s \in Res \ {r} : docs'[s] = docs[s]
    BY <2>1 DEF Commit, PlatformTypes, DocMaps
  <2>3. CASE r \in Children
    <3>1. OneChild(r) /\ There(r) /\ (Recorded(r)' <=> Recorded(r))
      BY <1>1, <1>2, <2>1, <2>2 DEF OneChild, There, Recorded
    <3>2. There(r)' \/ ~There(r)'
      OBVIOUS
    <3>3. QED
      BY <1>2, <2>3, <3>1, <3>2, RecordPromised, RemovalPromised
  <2>4. CASE r \notin Children
    BY <1>1, <1>2, <2>2, <2>4 DEF Managed!vars
  <2>5. QED
    BY <2>3, <2>4
<1>6. QED
  BY <1>3, <1>4, <1>5 DEF Platform, PublishTo, DrainOn, CatchUp, GatewayBreaks

LEMMA PromiseStep ==
  ASSUME ~LaggingReads, TypeOK, PendingInv, [Next]_vars
  PROVE  [Managed!Next]_(Managed!vars)
<1>1. ASSUME NEW r \in Res, Start(r) \/ Refresh(r) \/ Proceed(r) \/ CancelAcquire(r)
      PROVE  [Managed!Next]_(Managed!vars)
  BY <1>1, ChildPromised, GatewayPromised DEF Res
<1>2. CASE UNCHANGED <<docs, tf, lost>>
  BY <1>2 DEF Managed!vars
<1>3. QED
  BY <1>1, <1>2, PlatformPromised DEF Next, Quiet, vars, platform

\* As long as reads are fresh, the listeners and routes of a gateway keep the
\* promise of ManagedObject: they are in the state from the moment their POST is
\* answered, through failed waits and conflicts, until they are gone.
THEOREM PromiseKept == ASSUME ~LaggingReads PROVE Spec => KeepsPromise
<1>1. Init => PendingInv
  BY PendingInit
<1>2. Init => Managed!Init
  BY AppGWAssumption DEF Init, NoState, StartDocs, Children, Res, Managed!Init, Managed!TypeOK
<1>3. TypeOK /\ PendingInv /\ [Next]_vars => PendingInv'
  BY PendingStep
<1>4. TypeOK /\ PendingInv /\ [Next]_vars => [Managed!Next]_(Managed!vars)
  BY PromiseStep
<1>5. QED
  BY <1>1, <1>2, <1>3, <1>4, TypeCorrect, PTL DEF Spec, KeepsPromise, Managed!Spec

\* No child is ever stranded: one that exists is in the state, or its creation
\* was never answered.
THEOREM NothingStranded == ASSUME ~LaggingReads PROVE Spec => []Managed!NoStranded
<1>1. Managed!Init => Managed!NoStranded
  BY DEF Managed!Init, Managed!NoStranded
<1>2. Managed!NoStranded /\ [Managed!Next]_(Managed!vars) => Managed!NoStranded'
  BY DEF Managed!Next, Managed!vars, Managed!NoStranded, Managed!Create, Managed!CreateUnanswered,
     Managed!Adopt, Managed!Doom, Managed!Destroy, Managed!Forget, Managed!Vanish
<1>3. QED
  BY <1>1, <1>2, PromiseKept, PTL DEF KeepsPromise, Managed!Spec

-----------------------------------------------------------------------------
(* What a refresh may still drop.  A child that is in the state and not on   *)
(* the platform any more was left there by a handler that reported an error. *)

MissingIsReported ==
  \A c \in Children : pc[c] = "idle" /\ tf[c].there /\ docs[c] = Absent => outcome[c] = "error"

\* No handler speaks for another.
LEMMA OutcomesAlone ==
  ASSUME NEW r \in Res, TypeOK, Start(r) \/ Refresh(r) \/ Proceed(r) \/ CancelAcquire(r)
  PROVE  \A s \in Res \ {r} : outcome'[s] = outcome[s]
<1> DEFINE Own == \E o : outcome' = [outcome EXCEPT ![r] = o]
<1>1. Own \/ UNCHANGED outcome => \A s \in Res \ {r} : outcome'[s] = outcome[s]
  BY DEF TypeOK, LocalTypes
<1>2. \A result, w : Finish(r, result, w) => Own
  BY DEF Finish
<1>3. ASSUME Fail(r) \/ (\E w : Succeed(r, w)) \/ \E s, a, w : Continue(r, s, a, w)
      PROVE  Own \/ UNCHANGED outcome
  BY <1>2, <1>3, Zenon DEF Fail, Succeed, Continue
<1>4. CASE Start(r)
  <2>1. \E s, q : Begin(r, s, q)
    BY <1>4, Zenon DEF Start, StartCreate, StartUpdateListener, StartUpdateRoute, StartUpdateGateway,
       StartDelete
  <2>2. QED
    BY <1>1, <2>1 DEF Begin
<1>5. CASE Refresh(r) \/ Acquire(r) \/ ReadRevision(r)
  BY <1>1, <1>5 DEF Refresh, Acquire, ReadRevision
<1>6. CASE \/ CancelAcquire(r) \/ RevisionFails(r) \/ SendFails(r) \/ SendLost(r) \/ GiveUp(r)
           \/ PostChild(r) \/ PatchRoute(r) \/ PatchListener(r) \/ (r = Gateway /\ PatchGateway)
           \/ DeleteCommitted(r) \/ DeleteMissing(r) \/ RotateCertificate(r) \/ RotationLost(r) \/ RereadListener(r)
           \/ (r = Gateway /\ SettleGateway) \/ WaitDone(r) \/ WaitRemoved(r)
  <2>1. Fail(r) \/ (\E w : Succeed(r, w)) \/ \E s, a, w : Continue(r, s, a, w)
    BY <1>6, Zenon DEF CancelAcquire, RevisionFails, SendFails, SendLost, GiveUp, PostChild,
       PatchRoute, PatchListener, PatchGateway, DeleteCommitted, DeleteMissing,
       RotateCertificate, RotationLost, RereadListener, GotListener, SettleGateway, WaitDone, WaitRemoved,
       AfterWrite
  <2>2. QED
    BY <1>1, <1>3, <2>1
<1>7. QED
  BY <1>4, <1>5, <1>6 DEF Proceed

\* Of fresh reads, a handler that ends well and keeps the child has seen it.
LEMMA OwnReported ==
  ASSUME NEW c \in Children, TypeOK, ~LaggingReads, PendingInv,
         Start(c) \/ Refresh(c) \/ Proceed(c) \/ CancelAcquire(c),
         pc'[c] = "idle", tf'[c].there, docs'[c] = Absent
  PROVE  outcome'[c] = "error"
<1>1. c \in Res /\ c # Gateway
  BY AppGWAssumption DEF Res
<1>2. \A v \in Views : v = Primary /\ v.docs = docs
  BY DEF Views, Primary
<1>3. Fail(c) => outcome'[c] = "error"
  BY <1>1 DEF Fail, Finish, LocalTypes
<1>4. ~Forget(c)
  BY SetRecords DEF Recorded
<1>5. \A s, a, w : Continue(c, s, a, w) => s = "idle"
  BY <1>1 DEF Continue, LocalTypes
<1>6. ~Start(c) /\ ~Acquire(c) /\ ~ReadRevision(c)
  <2>1. \A s, q : Begin(c, s, q) => s = "idle"
    BY <1>1 DEF Begin, LocalTypes
  <2>2. ~Start(c)
    BY <2>1, Zenon DEF Start, StartCreate, StartUpdateListener, StartUpdateRoute, StartUpdateGateway,
       StartDelete
  <2>3. QED
    BY <1>1, <2>2 DEF Acquire, ReadRevision, LocalTypes
<1>7. ~Refresh(c)
  BY <1>2, <1>4 DEF Refresh, Exists, platform
<1>8. CASE CancelAcquire(c) \/ RevisionFails(c) \/ SendFails(c) \/ SendLost(c) \/ GiveUp(c)
  BY <1>3, <1>8 DEF CancelAcquire, RevisionFails, SendFails, SendLost, GiveUp
<1>9. ~PostChild(c) /\ ~PatchRoute(c) /\ ~PatchListener(c)
  <2>1. ASSUME NEW doc \in Stored(c), Commit([docs EXCEPT ![c] = doc])
        PROVE  FALSE
    BY <1>1, <2>1, StoredType, CommitThere, NoDocument DEF There
  <2>2. QED
    BY <2>1 DEF PostChild, PatchRoute, PatchListener
<1>10. CASE DeleteCommitted(c)
  BY <1>3, <1>4, <1>5, <1>10, Zenon DEF DeleteCommitted
<1>11. ~DeleteMissing(c)
  BY <1>4, <1>5, Zenon DEF DeleteMissing
<1>12. ~RotateCertificate(c) /\ ~RotationLost(c) /\ ~RereadListener(c)
  BY <1>2 DEF RotateCertificate, RotationLost, RereadListener, Exists, Primary, Commit, platform
<1>13. CASE WaitDone(c)
  <2>1. docs[c] = Absent
    BY <1>13 DEF WaitDone, platform
  <2>2. QED
    BY <1>2, <1>3, <1>13, <2>1 DEF WaitDone, Exists
<1>14. ~WaitRemoved(c)
  BY <1>4 DEF WaitRemoved
<1>15. QED
  BY <1>1, <1>6, <1>7, <1>8, <1>9, <1>10, <1>11, <1>12, <1>13, <1>14 DEF Proceed

LEMMA MissingStep ==
  ASSUME TypeOK, TypeOK', ~LaggingReads, Undisturbed, Undisturbed', PendingInv,
         MissingIsReported, [Next]_vars
  PROVE  MissingIsReported'
<1>1. ASSUME NEW r \in Res, Start(r) \/ Refresh(r) \/ Proceed(r) \/ CancelAcquire(r)
      PROVE  MissingIsReported'
  <2>1. ASSUME NEW c \in Children, c # r, pc'[c] = "idle", tf'[c].there, docs'[c] = Absent
        PROVE  outcome'[c] = "error"
    <3>1. c \in Res /\ docs'[c] = docs[c]
      BY <1>1, <2>1, HandlerDocs DEF Res, PlatformTypes, DocMaps
    <3>2. QED
      BY <1>1, <2>1, <3>1, HandlersAlone, OutcomesAlone DEF Alone, MissingIsReported
  <2>2. QED
    BY <1>1, <2>1, OwnReported DEF MissingIsReported
<1>2. CASE UNCHANGED <<docs, local, tf>>
  BY <1>2 DEF MissingIsReported, local
<1>3. CASE Platform
  <2>1. ~Outside
    BY DEF Outside, Undisturbed, OtherTypes
  <2>2. QED
    BY <1>2, <1>3, <2>1 DEF Platform, PublishTo, DrainOn, CatchUp, OutsideWrite, GatewayBreaks,
       GatewayRemoved
<1>4. QED
  BY <1>1, <1>2, <1>3 DEF Next, Quiet, vars, platform

\* A destroy drops only what nobody serves, so what a replica serves is dropped
\* by a refresh that met a 404.
LEMMA DropsReported ==
  ASSUME TypeOK, RemovalInv, PendingInv, ~LaggingReads, MissingIsReported, [Next]_vars,
         NEW c \in Children, tf[c].there, ~tf'[c].there, tf[c].rev > 0,
         \E role \in Roles : nodes[role].docs[c] # Absent
  PROVE  pc[c] = "idle" /\ outcome[c] = "error"
<1>1. c \in Res /\ c # Gateway
  BY AppGWAssumption DEF Res
<1>2. req[c].op # "delete"
  BY DestroyedHolds DEF DestroyedStep
<1>3. tf' # tf /\ tf'[c] # tf[c]
  OBVIOUS
<1>4. PICK r \in Res : Start(r) \/ Refresh(r) \/ Proceed(r) \/ CancelAcquire(r)
  BY <1>3, PlatformLock DEF Next, Quiet, vars
<1>5. r = c
  BY <1>1, <1>3, <1>4, HandlersAlone DEF Alone
<1>6. ~UNCHANGED tf /\ \A doc, rev, tainted : ~SetState(c, doc, rev, tainted)
  BY <1>3, SetRecords DEF Recorded
<1>7. ~Start(c)
  BY <1>6 DEF Start, StartCreate, StartUpdateListener, StartUpdateRoute, StartUpdateGateway,
     StartDelete, Begin
<1>8. ~Proceed(c) /\ ~CancelAcquire(c)
  BY <1>1, <1>2, <1>6, Zenon DEF Proceed, CancelAcquire, Acquire, ReadRevision, RevisionFails, SendFails,
     SendLost, PostChild, PatchRoute, PatchListener, DeleteCommitted, DeleteMissing, Sending,
     RotateCertificate, RotationLost, RereadListener, GotListener, WaitDone, WaitRemoved, GiveUp
<1>9. Refresh(c)
  BY <1>4, <1>5, <1>7, <1>8
<1>10. pc[c] = "idle" /\ docs[c] = Absent
  <2>1. \A v \in Views : v.docs = docs
    BY DEF Views, Primary
  <2>2. QED
    BY <1>6, <1>9, <2>1 DEF Refresh, Exists, PendingInv
<1>11. QED
  BY <1>10 DEF MissingIsReported

\* What Read breaks of the promise that a protected child stays recorded, it
\* breaks only after an error: without outsiders and stale reads, a child that
\* some replica still serves leaves the state only when the last handler of that
\* child has failed in front of the user.
THEOREM ServedDropsAreAnnounced == Spec => ServedDropsFollowErrors
<1> DEFINE Announced == Undisturbed /\ ~LaggingReads => MissingIsReported
           Step == Undisturbed /\ ~LaggingReads =>
             \A c \in Children :
               /\ tf[c].there /\ ~tf'[c].there /\ tf[c].rev > 0
               /\ \E role \in Roles : nodes[role].docs[c] # Absent
               => pc[c] = "idle" /\ outcome[c] = "error"
           Inv == ext <= MaxExternal /\ PendingInv /\ Announced
<1>1. Init => Inv
  <2>1. Init => MissingIsReported
    BY AppGWAssumption DEF Init, MissingIsReported, NoState, Children, Res
  <2>2. QED
    BY <2>1, PendingInit, AppGWAssumption DEF Init
<1>2. TypeOK /\ TypeOK' /\ Inv /\ [Next]_vars => Inv'
  BY OutsideBudget, PendingStep, MissingStep
<1>3. TypeOK /\ RemovalInv /\ Inv /\ [Next]_vars => Step
  BY DropsReported
<1>4. Step => [Step]_vars
  OBVIOUS
<1>5. TypeOK /\ TypeOK' /\ RemovalInv /\ [Next]_vars => RemovalInv'
  BY RemovalStep
<1> HIDE DEF Inv, Announced
<1>6. QED
  BY <1>1, <1>2, <1>3, <1>4, <1>5, RemovalInit, TypeCorrect, PTL DEF Spec, ServedDropsFollowErrors

-----------------------------------------------------------------------------
(* Every policy write is guarded by a revision.                              *)

\* Who leaves the end of the window with other documents committed a write.
LEMMA SenderCommits ==
  ASSUME NEW r \in Res, TypeOK, Start(r) \/ Refresh(r) \/ Proceed(r) \/ CancelAcquire(r),
         pc[r] = "send", docs' # docs
  PROVE  Accepts(r)
<1>1. CASE Start(r) \/ Refresh(r) \/ CancelAcquire(r)
  BY <1>1 DEF Start, StartCreate, StartUpdateListener, StartUpdateRoute, StartUpdateGateway,
     StartDelete, Begin, Refresh, CancelAcquire, platform
<1>2. CASE \/ Acquire(r) \/ ReadRevision(r) \/ RevisionFails(r) \/ SendFails(r)
           \/ DeleteMissing(r) \/ RereadListener(r) \/ (r = Gateway /\ SettleGateway)
           \/ WaitDone(r) \/ WaitRemoved(r) \/ GiveUp(r)
  BY <1>2 DEF Acquire, ReadRevision, RevisionFails, SendFails, DeleteMissing, RereadListener,
     SettleGateway, WaitDone, WaitRemoved, GiveUp, platform
<1>3. ~RotateCertificate(r) /\ ~RotationLost(r)
  BY DEF RotateCertificate, RotationLost
<1>4. CASE \/ SendLost(r) \/ PostChild(r) \/ PatchRoute(r) \/ PatchListener(r)
           \/ (r = Gateway /\ PatchGateway) \/ DeleteCommitted(r)
  BY <1>4 DEF SendLost, PostChild, PatchRoute, PatchListener, PatchGateway, DeleteCommitted
<1>5. QED
  BY <1>1, <1>2, <1>3, <1>4 DEF Proceed

LEMMA GuardedWrites ==
  ASSUME TypeOK, [Next]_vars
  PROVE  BlindStep
<1> SUFFICES ASSUME NEW r \in Res, pc[r] = "send", req[r].body # Unowned, docs' # docs,
                    pc'[r] # "send"
             PROVE  base[r] = gen
  BY DEF BlindStep
<1>1. PICK q \in Res : Start(q) \/ Refresh(q) \/ Proceed(q) \/ CancelAcquire(q)
  BY PlatformLock DEF Next, Quiet, vars, local, platform
<1>2. q = r
  BY <1>1, HandlersAlone DEF Alone
<1>3. base[r] \in {Nil, gen}
  BY <1>1, <1>2, SenderCommits DEF Accepts
<1>4. base[r] # Nil
  BY NilType DEF LocalTypes
<1>5. QED
  BY <1>3, <1>4

\* No write of a policy, answered or not, replaces what was committed since its
\* handler read the revision, whatever the platform leaves out of its answers:
\* a handler that was told no revision never gets as far as sending.
THEOREM WritesAreGuarded == Spec => NoBlindWrite
<1>1. TypeOK /\ [Next]_vars => BlindStep
  BY GuardedWrites
<1>2. BlindStep => [BlindStep]_vars
  OBVIOUS
<1>3. QED
  BY <1>1, <1>2, TypeCorrect, PTL DEF Spec, NoBlindWrite

=============================================================================
