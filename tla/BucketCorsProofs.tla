---------------------------- MODULE BucketCorsProofs ---------------------------
(***************************************************************************)
(* A bucket's CORS rules, its credentials and the rest of the world, for   *)
(* any set of rules, any number of applies, outside changes and failures.  *)
(***************************************************************************)
EXTENDS BucketCors, TLAPS

-----------------------------------------------------------------------------
(* Type correctness.                                                       *)

HandlerTypes ==
  /\ pc \in Steps /\ op \in {"none", "create", "update", "read", "delete"}
  /\ want \in Plans /\ plan \in Models
  /\ expected \in Nat \union {Nil} /\ seen \in Rules
  /\ outcome \in {"none", "ok", "error"} /\ claimed \in BOOLEAN /\ calm \in BOOLEAN
Budgets == ops \in Nat /\ ext \in Nat

LEMMA Constructed ==
  /\ NoState \in States /\ NoModel \in Models /\ NoPlan \in Plans
  /\ \A w \in Plans : TypeOK => FromState(w) \in Models
<1>1. NoState \in States /\ NoModel \in Models /\ NoPlan \in Plans
  BY DEF NoState, NoModel, NoPlan, States, Models, Plans, Rules
<1>2. ASSUME NEW w \in Plans, TypeOK PROVE FromState(w) \in Models
  BY <1>2 DEF TypeOK, FromState, States, Models, Plans
<1>3. QED
  BY <1>1, <1>2

LEMMA FinishTypes ==
  ASSUME TypeOK, NEW result \in {"ok", "error"}, Finish(result), calm' \in BOOLEAN
  PROVE  HandlerTypes' /\ Budgets'
BY Constructed DEF Finish, TypeOK, HandlerTypes, Budgets, budget, Steps, Rules

LEMMA FailTypes ==
  ASSUME TypeOK, Fail, bucket' \in Buckets
  PROVE  TypeOK'
<1>1. HandlerTypes' /\ Budgets'
  BY FinishTypes DEF Fail
<1>2. QED
  BY <1>1 DEF Fail, TypeOK, HandlerTypes, Budgets

LEMMA ForgetTypes ==
  ASSUME TypeOK, Forget
  PROVE  TypeOK'
<1>1. HandlerTypes' /\ Budgets'
  BY FinishTypes DEF Forget, TypeOK
<1>2. QED
  BY <1>1, Constructed DEF Forget, TypeOK, HandlerTypes, Budgets

LEMMA SaveTypes ==
  ASSUME TypeOK, NEW m \in Models, Save(m)
  PROVE  TypeOK'
<1>1. HandlerTypes' /\ Budgets'
  BY FinishTypes DEF Save, TypeOK
<1>2. Consistent(m) \in BOOLEAN
  BY DEF Consistent
<1>3. tf' \in States
  BY <1>2 DEF Save, TypeOK, States, Models
<1>4. QED
  BY <1>1, <1>3 DEF Save, TypeOK, HandlerTypes, Budgets

LEMMA GoTypes ==
  ASSUME TypeOK, NEW step \in Steps, NEW m \in Models, Go(step, m),
         expected' \in Nat \union {Nil}, seen' \in Rules, calm' \in BOOLEAN,
         bucket' \in Buckets
  PROVE  TypeOK'
BY DEF Go, TypeOK, budget

LEMMA BeginTypes ==
  ASSUME TypeOK, NEW step \in Steps, NEW o \in {"create", "update", "read", "delete"},
         NEW w \in Plans, NEW m \in Models, Begin(o, step, w, m), UNCHANGED expected,
         calm' \in BOOLEAN
  PROVE  HandlerTypes'
BY DEF Begin, TypeOK, HandlerTypes, Rules

LEMMA StartTypes ==
  ASSUME TypeOK, Start
  PROVE  TypeOK'
<1>1. CASE \E w \in Plans : StartCreate(w)
  <2>1. PICK w \in Plans : StartCreate(w)
    BY <1>1
  <2>2. [FromState(w) EXCEPT !.keys = "unknown"] \in Models
    BY Constructed DEF Models
  <2>3. HandlerTypes'
    BY <2>1, <2>2, BeginTypes DEF StartCreate, Steps, TypeOK
  <2>4. QED
    BY <2>1, <2>3 DEF StartCreate, Begin, Apply, TypeOK, HandlerTypes
<1>2. CASE \E w \in Plans : StartUpdate(w)
  <2>1. PICK w \in Plans : StartUpdate(w)
    BY <1>2
  <2>2. FromState(w) \in Models /\ FirstWrite(w) \in Steps
    BY Constructed DEF FirstWrite, WriteCors, Steps
  <2>3. tf.rev \in Nat \union {Nil}
    BY DEF TypeOK, States
  <2>4. QED
    BY <2>1, <2>2, <2>3 DEF StartUpdate, Begin, Apply, TypeOK
<1>3. CASE StartDelete
  <2>1. HandlerTypes'
    BY <1>3, BeginTypes, Constructed DEF StartDelete, Steps, TypeOK
  <2>2. QED
    BY <1>3, <2>1 DEF StartDelete, Begin, Apply, TypeOK, HandlerTypes
<1>4. CASE Refresh
  <2>1. HandlerTypes'
    BY <1>4, BeginTypes, Constructed DEF Refresh, Steps, TypeOK
  <2>2. QED
    BY <1>4, <2>1 DEF Refresh, Begin, TypeOK, HandlerTypes
<1>5. CASE Import
  <2>1. HandlerTypes'
    BY <1>5, BeginTypes, Constructed DEF Import, Steps
  <2>2. [NoState EXCEPT !.there = TRUE] \in States
    BY Constructed DEF States
  <2>3. QED
    BY <1>5, <2>1, <2>2 DEF Import, Begin, TypeOK, HandlerTypes
<1>6. CASE Untaint
  <2>1. [tf EXCEPT !.tainted = FALSE] \in States
    BY DEF TypeOK, States
  <2>2. QED
    BY <1>6, <2>1 DEF Untaint, TypeOK, handler, budget
<1>7. QED
  BY <1>1, <1>2, <1>3, <1>4, <1>5, <1>6 DEF Start

LEMMA PlatformTypes ==
  ASSUME TypeOK, Platform \/ Quiet
  PROVE  TypeOK'
<1>1. bucket' \in Buckets /\ ext' \in Nat /\ UNCHANGED ops
      /\ calm' \in BOOLEAN /\ UNCHANGED <<tf, handler, outcome, claimed>>
  <2>1. CASE Provision
    BY <2>1 DEF Provision, TypeOK, Buckets, budget
  <2>2. CASE Vanish
    BY <2>2 DEF Vanish, TypeOK, Buckets, Rules, budget
  <2>3. CASE OutsideRules \/ OutsideVisibility \/ OutsideDelete
    <3>1. Outside
      BY <2>3 DEF OutsideRules, OutsideVisibility, OutsideDelete
    <3>2. ext' \in Nat /\ UNCHANGED ops /\ calm' \in BOOLEAN
          /\ UNCHANGED <<tf, handler, outcome, claimed>>
      <4>1. ext' \in Nat
        BY <3>1, SMT DEF Outside, TypeOK
      <4>2. UNCHANGED ops /\ calm' \in BOOLEAN /\ UNCHANGED <<tf, handler, outcome, claimed>>
        BY <3>1, Zenon DEF Outside
      <4>3. QED
        BY <4>1, <4>2
    <3>3. /\ \A rules \in Rules :
               [bucket EXCEPT !.rules = rules, !.rev = bucket.rev + 1] \in Buckets
          /\ [bucket EXCEPT !.public = ~bucket.public] \in Buckets
          /\ [bucket EXCEPT !.status = "deleting"] \in Buckets
      <4>0. (~bucket.public) \in BOOLEAN
        OBVIOUS
      <4>1. bucket \in Buckets /\ (~bucket.public) \in BOOLEAN
        BY <4>0 DEF TypeOK
      <4>2. \A public \in BOOLEAN : [bucket EXCEPT !.public = public] \in Buckets
        BY <4>1 DEF Buckets
      <4>3. /\ \A rules \in Rules :
                 [bucket EXCEPT !.rules = rules, !.rev = bucket.rev + 1] \in Buckets
            /\ [bucket EXCEPT !.status = "deleting"] \in Buckets
        <5>1. bucket.rev + 1 \in Nat
          BY <4>1 DEF Buckets
        <5>2. \A rules \in Rules, rev \in Nat :
                 [bucket EXCEPT !.rules = rules, !.rev = rev] \in Buckets
          BY <4>1 DEF Buckets
        <5>3. [bucket EXCEPT !.status = "deleting"] \in Buckets
          BY <4>1 DEF Buckets
        <5>4. QED
          BY <5>1, <5>2, <5>3, Zenon
      <4>4. QED
        BY <4>1, <4>2, <4>3, Zenon
    <3>4. bucket' \in Buckets
      BY <2>3, <3>3 DEF OutsideRules, OutsideVisibility, OutsideDelete
    <3>5. QED
      BY <3>2, <3>4
  <2>6. CASE Quiet
    BY <2>6 DEF Quiet, vars, budget, TypeOK
  <2>7. QED
    BY <2>1, <2>2, <2>3, <2>6 DEF Platform
<1>2. QED
  BY <1>1 DEF TypeOK, handler

LEMMA MadeTypes ==
  ASSUME TypeOK, Post \/ PostLost \/ PostRefused \/ Poll \/ PollFails \/ Fetch \/ FetchFails
  PROVE  TypeOK'
<1>1. NewBucket \in Buckets
  BY DEF NewBucket, TypeOK, Models, Buckets, Rules
<1>2. CASE Post
  <2>1. tf' \in States
    BY <1>2, Constructed DEF Post, TypeOK, States, Models
  <2>2. QED
    BY <1>1, <1>2, <2>1 DEF Post, TypeOK, Steps, budget
<1>3. CASE PostLost
  BY <1>1, <1>3, FailTypes DEF PostLost
<1>4. CASE PostRefused \/ PollFails \/ FetchFails
  BY <1>4, FailTypes DEF PostRefused, PollFails, FetchFails, TypeOK
<1>5. CASE Poll
  BY <1>5, GoTypes DEF Poll, TypeOK, Steps
<1>6. CASE Fetch
  <2>1. [plan EXCEPT !.public = bucket.public, !.active = bucket.status = "active"] \in Models
    BY DEF TypeOK, Models, Buckets
  <2>2. QED
    BY <1>6, <2>1, GoTypes DEF Fetch, TypeOK, Steps
<1>7. QED
  BY <1>2, <1>3, <1>4, <1>5, <1>6

LEMMA WrittenTypes ==
  ASSUME TypeOK, NEW rev \in Nat \union {Nil}, Written(rev), bucket' \in Buckets
  PROVE  TypeOK'
<1>1. [plan EXCEPT !.rev = rev] \in Models
  BY DEF TypeOK, Models
<1>2. AfterCors \in Steps
  BY DEF AfterCors, Steps
<1>3. QED
  BY <1>1, <1>2, GoTypes DEF Written, TypeOK

LEMMA NotWrittenTypes ==
  ASSUME TypeOK, NEW unanswered \in BOOLEAN, NotWritten(unanswered), bucket' \in Buckets
  PROVE  TypeOK'
<1>1. [plan EXCEPT !.rules = NoRules, !.rev = Nil] \in Models
  BY DEF TypeOK, Models, Rules
<1>2. CASE op = "create"
  BY <1>1, <1>2, GoTypes DEF NotWritten, TypeOK, Steps
<1>3. CASE op # "create"
  BY <1>3, FailTypes DEF NotWritten
<1>4. QED
  BY <1>2, <1>3

LEMMA ChangeTypes ==
  ASSUME TypeOK,
         \/ Visibility \/ VisibilityFails \/ ReadRevision \/ RevisionFails
         \/ PutCors \/ DeleteCors \/ CorsRefused \/ CorsLost
  PROVE  TypeOK'
<1>1. bucket \in Buckets /\ [bucket EXCEPT !.public = want.public] \in Buckets
  BY DEF TypeOK, Buckets, Plans
<1>2. NewRules \in Buckets /\ bucket.rev \in Nat /\ bucket.rules \in Rules
      /\ bucket.rev + 1 \in Nat
  <2>1. bucket \in Buckets /\ plan.rules \in Rules
    BY DEF TypeOK, Models
  <2>2. bucket.rev \in Nat /\ bucket.rules \in Rules /\ bucket.rev + 1 \in Nat
    BY <2>1 DEF Buckets
  <2>3. NewRules \in Buckets
    BY <2>1, <2>2 DEF NewRules, Buckets
  <2>4. QED
    BY <2>2, <2>3
<1>3. CASE Visibility
  BY <1>1, <1>3, GoTypes DEF Visibility, AfterVisibility, WriteCors, TypeOK, Steps
<1>4. CASE VisibilityFails
  BY <1>1, <1>4, FailTypes DEF VisibilityFails
<1>5. CASE ReadRevision
  BY <1>1, <1>2, <1>5, GoTypes, WrittenTypes DEF ReadRevision, TypeOK, Steps
<1>6. CASE RevisionFails \/ CorsRefused
  BY <1>1, <1>6, NotWrittenTypes DEF RevisionFails, CorsRefused
<1>7. CASE PutCors \/ DeleteCors
  BY <1>2, <1>7, WrittenTypes DEF PutCors, DeleteCors
<1>8. CASE CorsLost
  BY <1>2, <1>8, NotWrittenTypes DEF CorsLost
<1>9. QED
  BY <1>3, <1>4, <1>5, <1>6, <1>7, <1>8

LEMMA ReadTypes ==
  ASSUME TypeOK,
         \/ ReadGone \/ ReadDeleting \/ Read \/ ReadCors \/ ReadFails
         \/ Credentials \/ NoCredentials
         \/ DeleteMissing \/ Delete \/ DeleteFails \/ Gone
  PROVE  TypeOK'
<1>1. CASE ReadGone \/ DeleteMissing \/ Gone
  BY <1>1, ForgetTypes DEF ReadGone, DeleteMissing, Gone
<1>2. CASE ReadDeleting
  <2>1. HandlerTypes' /\ Budgets'
    BY <1>2, FinishTypes DEF ReadDeleting
  <2>2. QED
    BY <1>2, <2>1 DEF ReadDeleting, TypeOK, HandlerTypes, Budgets
<1>3. CASE Read
  <2>1. [FromState(tf) EXCEPT !.public = bucket.public, !.active = bucket.status = "active",
                              !.rev = Nil] \in Models
    BY DEF FromState, TypeOK, States, Models, Buckets
  <2>2. QED
    BY <1>3, <2>1, GoTypes DEF Read, TypeOK, Steps
<1>4. CASE ReadCors
  <2>1. [plan EXCEPT !.rules = bucket.rules, !.rev = bucket.rev] \in Models
    BY DEF TypeOK, Models, Buckets
  <2>2. QED
    BY <1>4, <2>1, GoTypes DEF ReadCors, TypeOK, Steps
<1>5. CASE ReadFails
  BY <1>5, FailTypes DEF ReadFails, TypeOK
<1>6. CASE Credentials \/ NoCredentials
  <2>1. /\ [plan EXCEPT !.keys = "known"] \in Models
        /\ [plan EXCEPT !.keys = Unreadable] \in Models
        /\ plan \in Models
    BY DEF TypeOK, Models, Unreadable
  <2>2. QED
    BY <1>6, <2>1, SaveTypes DEF Credentials, NoCredentials
<1>7. CASE Delete
  <2>1. [bucket EXCEPT !.status = "deleting"] \in Buckets
    BY DEF TypeOK, Buckets
  <2>2. QED
    BY <1>7, <2>1, GoTypes DEF Delete, TypeOK, Steps
<1>8. CASE DeleteFails
  <2>1. bucket \in Buckets /\ [bucket EXCEPT !.status = "deleting"] \in Buckets
    BY DEF TypeOK, Buckets
  <2>2. QED
    BY <1>8, <2>1, FailTypes DEF DeleteFails
<1>9. QED
  BY <1>1, <1>2, <1>3, <1>4, <1>5, <1>6, <1>7, <1>8

\* Every handler, whatever it is answered, keeps what it works on well formed.
THEOREM TypeCorrect == Spec => []TypeOK
<1>1. Init => TypeOK
  <2> SUFFICES ASSUME Init PROVE TypeOK
    OBVIOUS
  <2>1. bucket \in Buckets
    BY DEF Init, Buckets
  <2>2. QED
    BY <2>1, Constructed, BucketAssumption DEF Init, TypeOK, Steps, Rules
<1>2. TypeOK /\ [Next]_vars => TypeOK'
  <2> SUFFICES ASSUME TypeOK, [Next]_vars PROVE TypeOK'
    OBVIOUS
  <2>1. CASE Start
    BY <2>1, StartTypes
  <2>2. CASE Proceed
    BY <2>2, MadeTypes, ChangeTypes, ReadTypes DEF Proceed
  <2>3. CASE Platform \/ Quiet
    BY <2>3, PlatformTypes
  <2>4. CASE UNCHANGED vars
    BY <2>4 DEF vars, handler, budget, TypeOK
  <2>5. QED
    BY <2>1, <2>2, <2>3, <2>4 DEF Next
<1>3. QED
  BY <1>1, <1>2, PTL DEF Spec

-----------------------------------------------------------------------------
(* Rules nobody asked for.  What no configuration ever mentioned is empty   *)
(* in the state, in the plan and in the model, so that no handler gets to   *)
(* the calls about rules.                                                   *)

ClaimInv ==
  ~claimed =>
    /\ tf.rules = NoRules /\ want.rules = NoRules /\ plan.rules = NoRules
    /\ pc \notin {"cors", "revision", "readcors"}

LEMMA ClaimStart ==
  ASSUME TypeOK, ClaimInv, Start
  PROVE  ClaimInv'
<1>1. CASE \E w \in Plans : StartCreate(w)
  BY <1>1 DEF StartCreate, Begin, FromState, ClaimInv
<1>2. CASE \E w \in Plans : StartUpdate(w)
  <2>1. PICK w \in Plans : StartUpdate(w)
    BY <1>2
  <2>2. CASE claimed \/ w.rules # NoRules
    BY <2>1, <2>2 DEF StartUpdate, Begin, ClaimInv
  <2>3. CASE ~claimed /\ w.rules = NoRules
    <3>1. FirstWrite(w) = "visibility" /\ FromState(w).rules = NoRules
      BY <2>3 DEF FirstWrite, CorsChanges, FromState, ClaimInv
    <3>2. QED
      BY <2>1, <2>3, <3>1 DEF StartUpdate, Begin, ClaimInv
  <2>4. QED
    BY <2>2, <2>3
<1>3. CASE StartDelete \/ Refresh
  <2>1. NoPlan.rules = NoRules /\ NoModel.rules = NoRules
    BY DEF NoPlan, NoModel
  <2>2. QED
    BY <1>3, <2>1 DEF StartDelete, Refresh, Begin, ClaimInv
<1>4. CASE Import
  BY <1>4 DEF Import, Begin, NoPlan, NoModel, NoState, ClaimInv
<1>5. CASE Untaint
  BY <1>5 DEF Untaint, handler, ClaimInv, TypeOK, States
<1>6. QED
  BY <1>1, <1>2, <1>3, <1>4, <1>5 DEF Start

LEMMA ClaimFinish ==
  ASSUME ClaimInv, Fail \/ Forget \/ (\E m \in Models : m.rules = plan.rules /\ Save(m))
  PROVE  ClaimInv'
BY DEF Fail, Forget, Save, Finish, NoState, NoPlan, NoModel, ClaimInv

LEMMA ClaimProceed ==
  ASSUME TypeOK, ClaimInv, Proceed
  PROVE  ClaimInv'
<1>1. CASE Post
  BY <1>1 DEF Post, NoState, ClaimInv
<1>2. CASE \/ PostLost \/ PostRefused \/ PollFails \/ FetchFails \/ VisibilityFails
           \/ ReadGone \/ ReadFails \/ DeleteMissing \/ DeleteFails \/ Gone
  BY <1>2, ClaimFinish DEF PostLost, PostRefused, PollFails, FetchFails, VisibilityFails,
       ReadGone, ReadFails, DeleteMissing, DeleteFails, Gone
<1>3. CASE Poll \/ Delete
  BY <1>3 DEF Poll, Delete, Go, ClaimInv
<1>4. CASE Fetch
  <2>1. [plan EXCEPT !.public = bucket.public, !.active = bucket.status = "active"].rules
          = plan.rules
    BY DEF TypeOK, Models
  <2>2. QED
    BY <1>4, <2>1 DEF Fetch, Go, ClaimInv
<1>5. CASE Visibility
  BY <1>5 DEF Visibility, Go, AfterVisibility, CorsChanges, ClaimInv
<1>6. CASE ReadRevision \/ RevisionFails \/ PutCors \/ DeleteCors \/ CorsRefused \/ CorsLost
  <2>1. claimed
    BY <1>6 DEF ReadRevision, RevisionFails, PutCors, DeleteCors, CorsRefused, CorsLost,
         ClaimInv
  <2>2. claimed'
    BY <1>6, <2>1 DEF ReadRevision, RevisionFails, PutCors, DeleteCors, CorsRefused, CorsLost,
         Written, NotWritten, Go, Fail, Finish
  <2>3. QED
    BY <2>2 DEF ClaimInv
<1>7. CASE ReadDeleting
  BY <1>7 DEF ReadDeleting, Finish, NoPlan, NoModel, ClaimInv
<1>8. CASE Read
  <2>1. [FromState(tf) EXCEPT !.public = bucket.public, !.active = bucket.status = "active",
                              !.rev = Nil].rules = tf.rules
    BY DEF FromState
  <2>2. QED
    BY <1>8, <2>1 DEF Read, Go, Manages, ClaimInv
<1>9. CASE ReadCors
  <2>1. claimed /\ claimed'
    BY <1>9 DEF ReadCors, Go, ClaimInv
  <2>2. QED
    BY <2>1 DEF ClaimInv
<1>10. CASE Credentials \/ NoCredentials
  <2>1. \A keys : [plan EXCEPT !.keys = keys].rules = plan.rules
    BY DEF TypeOK, Models
  <2>2. \A keys \in {"null", "known", "unknown"} : [plan EXCEPT !.keys = keys] \in Models
    BY DEF TypeOK, Models
  <2>3. plan \in Models /\ Unreadable \in {"null", "known", "unknown"}
    BY DEF TypeOK, Models, Unreadable
  <2>4. QED
    BY <1>10, <2>1, <2>2, <2>3, ClaimFinish DEF Credentials, NoCredentials
<1>11. QED
  BY <1>1, <1>2, <1>3, <1>4, <1>5, <1>6, <1>7, <1>8, <1>9, <1>10 DEF Proceed

\* A bucket whose configurations never had a cors_rule block keeps the rules it
\* has: UnmanagedUntouched, for any rules and any interference.
THEOREM UnmanagedKept == Spec => UnmanagedUntouched
<1>1. Init => ClaimInv
  BY DEF Init, NoState, NoPlan, NoModel, ClaimInv
<1>2. TypeOK /\ ClaimInv /\ [Next]_vars => ClaimInv'
  <2> SUFFICES ASSUME TypeOK, ClaimInv, [Next]_vars PROVE ClaimInv'
    OBVIOUS
  <2>1. CASE Platform \/ Quiet \/ UNCHANGED vars
    BY <2>1 DEF Platform, Provision, Vanish, OutsideRules, OutsideVisibility, OutsideDelete,
         Outside, Quiet, vars, handler, ClaimInv
  <2>2. QED
    BY <2>1, ClaimStart, ClaimProceed DEF Next
<1>3. ClaimInv => [WritesCors => claimed]_vars
  BY DEF ClaimInv, WritesCors
<1>4. QED
  BY <1>1, <1>2, <1>3, TypeCorrect, PTL DEF Spec, UnmanagedUntouched

-----------------------------------------------------------------------------
(* Credentials.  From the first call after the state was read, the model of *)
(* a handler holds the keys that the state holds.                           *)

KeysInv ==
  /\ ~tf.there => ~tf.keys
  /\ pc = "post" => op = "create"
  /\ op = "create" => ~tf.keys
  /\ tf.keys /\ pc \notin {"idle", "read", "delete", "gone"} => plan.keys = "known"

LEMMA KeysStart ==
  ASSUME TypeOK, KeysInv, Start
  PROVE  KeysInv' /\ (tf.keys /\ tf'.there => tf'.keys)
<1>1. \A w : tf.keys => FromState(w).keys = "known"
  BY DEF FromState
<1>2. CASE \E w \in Plans : StartCreate(w)
  BY <1>2 DEF StartCreate, Begin, KeysInv
<1>3. CASE \E w \in Plans : StartUpdate(w)
  <2>1. \A w : FirstWrite(w) # "post"
    BY DEF FirstWrite, WriteCors
  <2>2. QED
    BY <1>1, <1>3, <2>1 DEF StartUpdate, Begin, KeysInv
<1>4. CASE StartDelete \/ Refresh
  BY <1>4 DEF StartDelete, Refresh, Begin, KeysInv
<1>5. CASE Import
  BY <1>5 DEF Import, Begin, NoState, KeysInv
<1>6. CASE Untaint
  <2>1. tf'.keys = tf.keys /\ tf'.there = tf.there
    BY <1>6 DEF Untaint, TypeOK, States
  <2>2. QED
    BY <1>6, <2>1 DEF Untaint, handler, KeysInv
<1>7. QED
  BY <1>2, <1>3, <1>4, <1>5, <1>6 DEF Start

LEMMA KeysStop ==
  ASSUME TypeOK, KeysInv,
         \/ Fail \/ Forget \/ ReadDeleting
         \/ \E m \in Models : (tf.keys => m.keys = "known") /\ Save(m)
  PROVE  KeysInv' /\ (tf.keys /\ tf'.there => tf'.keys)
<1>1. CASE Fail \/ ReadDeleting
  BY <1>1 DEF Fail, ReadDeleting, Finish, KeysInv
<1>2. CASE Forget
  BY <1>2 DEF Forget, Finish, NoState, KeysInv
<1>3. CASE \E m \in Models : (tf.keys => m.keys = "known") /\ Save(m)
  <2>1. PICK m \in Models : (tf.keys => m.keys = "known") /\ Save(m)
    BY <1>3
  <2>2. tf'.there /\ (tf'.keys <=> m.keys = "known")
    BY <2>1 DEF Save
  <2>3. pc' = "idle" /\ op' = "none"
    BY <2>1 DEF Save, Finish
  <2>4. QED
    BY <2>1, <2>2, <2>3 DEF KeysInv
<1>4. QED
  BY <1>1, <1>2, <1>3

LEMMA KeysProceed ==
  ASSUME TypeOK, KeysInv, Proceed
  PROVE  KeysInv' /\ (tf.keys /\ tf'.there => tf'.keys)
<1>1. CASE Post
  BY <1>1 DEF Post, NoState, KeysInv
<1>2. CASE \/ PostLost \/ PostRefused \/ PollFails \/ FetchFails \/ VisibilityFails
           \/ ReadGone \/ ReadDeleting \/ ReadFails \/ DeleteMissing \/ DeleteFails \/ Gone
  BY <1>2, KeysStop DEF PostLost, PostRefused, PollFails, FetchFails, VisibilityFails,
       ReadGone, ReadFails, DeleteMissing, DeleteFails, Gone
<1>3. CASE Poll \/ Delete
  BY <1>3 DEF Poll, Delete, Go, KeysInv
<1>4. CASE Fetch
  <2>1. plan'.keys = plan.keys /\ pc' \in {"revision", "credentials"}
    BY <1>4 DEF Fetch, Go, TypeOK, Models
  <2>2. QED
    BY <1>4, <2>1 DEF Fetch, Go, KeysInv
<1>5. CASE Visibility
  <2>1. AfterVisibility # "post"
    BY DEF AfterVisibility, WriteCors
  <2>2. QED
    BY <1>5, <2>1 DEF Visibility, Go, KeysInv
<1>6. CASE ReadRevision \/ PutCors \/ DeleteCors
  <2>1. \/ Go("cors", plan) \/ \E rev : Written(rev)
    BY <1>6 DEF ReadRevision, PutCors, DeleteCors
  <2>2. plan'.keys = plan.keys /\ pc' # "post" /\ UNCHANGED <<tf, op>>
    BY <2>1 DEF Written, AfterCors, Go, TypeOK, Models
  <2>3. QED
    BY <1>6, <2>2 DEF ReadRevision, PutCors, DeleteCors, KeysInv
<1>7. CASE RevisionFails \/ CorsRefused \/ CorsLost
  <2>1. PICK unanswered : NotWritten(unanswered)
    BY <1>7 DEF RevisionFails, CorsRefused, CorsLost
  <2>2. CASE op = "create"
    BY <2>1, <2>2 DEF NotWritten, Go, KeysInv
  <2>3. CASE op # "create"
    BY <2>1, <2>3, KeysStop DEF NotWritten
  <2>4. QED
    BY <2>2, <2>3
<1>8. CASE Read
  <2>1. tf.keys => plan'.keys = "known"
    BY <1>8 DEF Read, Go, FromState
  <2>2. QED
    BY <1>8, <2>1 DEF Read, Go, KeysInv
<1>9. CASE ReadCors
  <2>1. plan'.keys = plan.keys
    BY <1>9 DEF ReadCors, Go, TypeOK, Models
  <2>2. QED
    BY <1>9, <2>1 DEF ReadCors, Go, KeysInv
<1>10. CASE Credentials \/ NoCredentials
  <2>1. tf.keys => plan.keys = "known" /\ Unreadable = "known"
    BY <1>10 DEF Credentials, NoCredentials, Unreadable, KeysInv
  <2>2. \A k \in {"null", "known", "unknown"} :
          [plan EXCEPT !.keys = k] \in Models /\ [plan EXCEPT !.keys = k].keys = k
    BY DEF TypeOK, Models
  <2>3. plan \in Models /\ Unreadable \in {"null", "known", "unknown"}
    BY DEF TypeOK, Models, Unreadable
  <2>4. QED
    BY <1>10, <2>1, <2>2, <2>3, KeysStop DEF Credentials, NoCredentials
<1>11. QED
  BY <1>1, <1>2, <1>3, <1>4, <1>5, <1>6, <1>7, <1>8, <1>9, <1>10 DEF Proceed

\* Once in the state, the keys of a bucket stay there until it is gone: KeysKept.
THEOREM KeysAreKept == Spec => KeysKept
<1>1. Init => KeysInv
  BY DEF Init, NoState, KeysInv
<1>2. TypeOK /\ KeysInv /\ [Next]_vars => KeysInv' /\ [tf.keys /\ tf'.there => tf'.keys]_vars
  <2> SUFFICES ASSUME TypeOK, KeysInv, [Next]_vars
               PROVE  KeysInv' /\ (tf.keys /\ tf'.there => tf'.keys)
    OBVIOUS
  <2>1. CASE Platform \/ Quiet \/ UNCHANGED vars
    BY <2>1 DEF Platform, Provision, Vanish, OutsideRules, OutsideVisibility, OutsideDelete,
         Outside, Quiet, vars, handler, KeysInv
  <2>2. QED
    BY <2>1, KeysStart, KeysProceed DEF Next
<1>3. QED
  BY <1>1, <1>2, TypeCorrect, PTL DEF Spec, KeysKept

-----------------------------------------------------------------------------
(* The recorded revision.  Revisions only grow, and while the platform's is *)
(* the recorded one, its rules are the recorded ones; the same holds of the *)
(* model a handler is about to record and of the revision it read before it *)
(* writes.                                                                  *)

Current(rev, rules) ==
  rev # Nil => /\ rev <= bucket.rev
               /\ There /\ bucket.rev = rev => rules = bucket.rules

\* The handler has written the rules, or has none to write.
RulesSettled ==
  \/ pc \in {"fetch", "credentials", "readcors"}
  \/ pc = "visibility" /\ (RulesFirst(want) \/ ~CorsChanges(want))

RevisionInv ==
  /\ ~tf.there => tf.rev = Nil
  /\ Current(tf.rev, tf.rules)
  /\ pc \in {"post", "poll"} => op = "create"
  /\ pc = "visibility" => op # "create"
  /\ op = "create" => tf.rev = Nil
  /\ op = "create" /\ pc \in {"post", "poll", "fetch", "revision", "cors"} => plan.rev = Nil
  /\ RulesSettled => Current(plan.rev, plan.rules)
  /\ pc = "visibility" /\ ~RulesFirst(want) => expected = tf.rev
  /\ pc = "revision" => tf.rev = Nil
  /\ pc = "cors" => IF tf.rev # Nil THEN expected = tf.rev ELSE Current(expected, seen)

Moves ==
  /\ bucket'.rev >= bucket.rev
  /\ There' /\ bucket'.rev = bucket.rev => There /\ bucket'.rules = bucket.rules

LEMMA RevisionsGrow ==
  ASSUME TypeOK, [Next]_vars
  PROVE  Moves
<1>1. bucket.rev \in Nat /\ bucket \in Buckets
  BY DEF TypeOK, Buckets
<1>2. \/ UNCHANGED bucket
      \/ bucket' = NewBucket
      \/ There /\ bucket' = NewRules
      \/ There /\ (\E rules \in Rules :
                     bucket' = [bucket EXCEPT !.rules = rules, !.rev = bucket.rev + 1])
      \/ There /\ (\E p \in BOOLEAN : bucket' = [bucket EXCEPT !.public = p])
      \/ There /\ (\E st : bucket' = [bucket EXCEPT !.status = st])
      \/ ~There' /\ bucket'.rev = bucket.rev
  <2>1. CASE Start \/ Quiet \/ UNCHANGED vars
    BY <2>1 DEF Start, StartCreate, StartUpdate, StartDelete, Refresh, Import, Untaint, Begin,
         Quiet, vars
  <2>2. CASE Platform
    <3>1. CASE Provision
      BY <3>1 DEF Provision, There
    <3>2. CASE Vanish
      BY <3>2, <1>1 DEF Vanish, There, Buckets
    <3>3. CASE OutsideRules \/ OutsideDelete
      BY <3>3 DEF OutsideRules, OutsideDelete, Answers, There
    <3>4. CASE OutsideVisibility
      <4>1. (~bucket.public) \in BOOLEAN
        OBVIOUS
      <4>2. QED
        BY <3>4, <4>1 DEF OutsideVisibility, Answers, There
    <3>5. QED
      BY <2>2, <3>1, <3>2, <3>3, <3>4 DEF Platform
  <2>3. CASE Post \/ PostLost
    BY <2>3 DEF Post, PostLost
  <2>4. CASE PutCors \/ DeleteCors \/ CorsLost
    BY <2>4 DEF PutCors, DeleteCors, CorsLost, Accepts, Answers, There
  <2>5. CASE Visibility \/ VisibilityFails
    <3>1. want.public \in BOOLEAN
      BY DEF TypeOK, Plans
    <3>2. QED
      BY <2>5, <3>1 DEF Visibility, VisibilityFails, Answers, There
  <2>6. CASE Delete \/ DeleteFails
    BY <2>6 DEF Delete, DeleteFails
  <2>7. CASE \/ PostRefused \/ Poll \/ PollFails \/ Fetch \/ FetchFails
             \/ ReadRevision \/ RevisionFails \/ CorsRefused
             \/ ReadGone \/ ReadDeleting \/ Read \/ ReadCors \/ ReadFails
             \/ Credentials \/ NoCredentials \/ DeleteMissing \/ Gone
    BY <2>7 DEF PostRefused, Poll, PollFails, Fetch, FetchFails, ReadRevision, RevisionFails,
         CorsRefused, ReadGone, ReadDeleting, Read, ReadCors, ReadFails, Credentials,
         NoCredentials, DeleteMissing, Gone, Forget, Save
  <2>8. QED
    BY <2>1, <2>2, <2>3, <2>4, <2>5, <2>6, <2>7 DEF Next, Proceed
<1>3. \/ bucket'.rev = bucket.rev + 1
      \/ bucket'.rev = bucket.rev /\ ~There'
      \/ bucket'.rev = bucket.rev /\ There /\ bucket'.rules = bucket.rules
      \/ UNCHANGED bucket
  <2>1. NewBucket.rev = bucket.rev + 1
    BY DEF NewBucket
  <2>2. NewRules.rev = bucket.rev + 1
    BY <1>1 DEF NewRules, Buckets
  <2>3. \A rules : [bucket EXCEPT !.rules = rules, !.rev = bucket.rev + 1].rev = bucket.rev + 1
    BY <1>1 DEF Buckets
  <2>4. \A p : /\ [bucket EXCEPT !.public = p].rev = bucket.rev
               /\ [bucket EXCEPT !.public = p].rules = bucket.rules
    BY <1>1 DEF Buckets
  <2>5. \A st : /\ [bucket EXCEPT !.status = st].rev = bucket.rev
                /\ [bucket EXCEPT !.status = st].rules = bucket.rules
    BY <1>1 DEF Buckets
  <2>6. QED
    BY <1>2, <2>1, <2>2, <2>3, <2>4, <2>5
<1>4. QED
  BY <1>1, <1>3 DEF Moves, There

CurrentNext(rev, rules) ==
  rev # Nil => /\ rev <= bucket'.rev
               /\ There' /\ bucket'.rev = rev => rules = bucket'.rules

LEMMA CurrentKept ==
  ASSUME TypeOK, TypeOK', Moves
  PROVE  \A rev \in Nat \union {Nil} : \A rules :
           Current(rev, rules) => CurrentNext(rev, rules)
<1>1. bucket.rev \in Nat /\ bucket'.rev \in Nat
  BY DEF TypeOK, Buckets
<1>2. QED
  BY <1>1 DEF Moves, Current, CurrentNext, Nil

LEMMA StateCurrent ==
  ASSUME TypeOK, TypeOK', Moves, RevisionInv
  PROVE  /\ UNCHANGED tf => Current(tf.rev, tf.rules)'
         /\ RulesSettled => CurrentNext(plan.rev, plan.rules)
         /\ pc = "cors" /\ tf.rev = Nil => CurrentNext(expected, seen)
<1>1. {tf.rev, plan.rev, expected} \subseteq Nat \union {Nil}
  BY DEF TypeOK, States, Models
<1>2. CurrentNext(tf.rev, tf.rules)
  BY <1>1, CurrentKept DEF RevisionInv
<1>3. UNCHANGED tf => Current(tf.rev, tf.rules)'
  BY <1>2 DEF Current, CurrentNext
<1>4. RulesSettled => CurrentNext(plan.rev, plan.rules)
  BY <1>1, CurrentKept DEF RevisionInv
<1>5. pc = "cors" /\ tf.rev = Nil => CurrentNext(expected, seen)
  BY <1>1, CurrentKept DEF RevisionInv
<1>6. QED
  BY <1>3, <1>4, <1>5

LEMMA RevisionStart ==
  ASSUME TypeOK, TypeOK', Moves, RevisionInv, Start
  PROVE  RevisionInv'
<1>1. UNCHANGED tf => Current(tf.rev, tf.rules)'
  BY StateCurrent
<1>2. CASE \E w \in Plans : StartCreate(w)
  <2>1. PICK w \in Plans : StartCreate(w)
    BY <1>2
  <2>2. UNCHANGED tf /\ tf.rev = Nil /\ plan'.rev = Nil /\ pc' = "post" /\ op' = "create"
    BY <2>1 DEF StartCreate, Begin, FromState, RevisionInv
  <2>3. QED
    BY <1>1, <2>2 DEF RevisionInv, RulesSettled
<1>3. CASE \E w \in Plans : StartUpdate(w)
  <2>1. PICK w \in Plans : StartUpdate(w)
    BY <1>3
  <2>2. /\ UNCHANGED <<tf, bucket>> /\ tf.there /\ op' = "update" /\ want' = w
        /\ plan'.rev = tf.rev /\ plan'.rules = w.rules
        /\ pc' = FirstWrite(w) /\ expected' = tf.rev
    BY <2>1 DEF StartUpdate, Begin, FromState
  <2>3. CASE CorsChanges(w) /\ (RulesFirst(w) \/ tf.public = w.public)
    <3>1. pc' = IF tf.rev = Nil THEN "revision" ELSE "cors"
      BY <2>2, <2>3 DEF FirstWrite, WriteCors
    <3>2. QED
      BY <1>1, <2>2, <3>1 DEF RevisionInv, RulesSettled
  <2>4. CASE ~(CorsChanges(w) /\ (RulesFirst(w) \/ tf.public = w.public))
    <3>1. pc' = "visibility"
      BY <2>2, <2>4 DEF FirstWrite
    <3>2. RulesSettled' => plan'.rules = tf.rules
      BY <2>2, <2>4, <3>1 DEF RulesSettled, RulesFirst, CorsChanges
    <3>3. RulesSettled' => Current(plan.rev, plan.rules)'
      BY <1>1, <2>2, <3>2 DEF Current
    <3>4. QED
      BY <1>1, <2>2, <3>1, <3>3 DEF RevisionInv
  <2>5. QED
    BY <2>3, <2>4
<1>4. CASE StartDelete \/ Refresh
  BY <1>1, <1>4 DEF StartDelete, Refresh, Begin, RevisionInv, RulesSettled
<1>5. CASE Import
  <2>1. tf'.rev = Nil /\ pc' = "read" /\ op' = "read"
    BY <1>5 DEF Import, Begin, NoState
  <2>2. QED
    BY <2>1 DEF RevisionInv, RulesSettled, Current
<1>6. CASE Untaint
  <2>1. tf'.there = tf.there /\ tf'.rev = tf.rev /\ tf'.rules = tf.rules /\ pc' = "idle"
        /\ UNCHANGED <<bucket, op>>
    BY <1>6 DEF Untaint, handler, TypeOK, States
  <2>2. QED
    BY <2>1 DEF RevisionInv, RulesSettled, Current, There
<1>7. QED
  BY <1>2, <1>3, <1>4, <1>5, <1>6 DEF Start

LEMMA RevisionStop ==
  ASSUME TypeOK, TypeOK', Moves, RevisionInv,
         \/ Fail \/ Forget \/ ReadDeleting
         \/ \E m \in Models : CurrentNext(m.rev, m.rules) /\ Save(m)
  PROVE  RevisionInv'
<1>1. pc' = "idle" /\ op' = "none"
  BY DEF Fail, Forget, ReadDeleting, Save, Finish
<1>2. CASE Fail \/ ReadDeleting
  BY <1>1, <1>2, StateCurrent DEF Fail, ReadDeleting, RevisionInv, RulesSettled
<1>3. CASE Forget
  BY <1>1, <1>3 DEF Forget, NoState, RevisionInv, RulesSettled, Current
<1>4. CASE \E m \in Models : CurrentNext(m.rev, m.rules) /\ Save(m)
  <2>1. Current(tf.rev, tf.rules)' /\ tf'.there
    BY <1>4 DEF Save, Current, CurrentNext
  <2>2. QED
    BY <1>1, <2>1 DEF RevisionInv, RulesSettled
<1>5. QED
  BY <1>2, <1>3, <1>4

LEMMA RevisionWritten ==
  ASSUME TypeOK, TypeOK', Moves, RevisionInv,
         NEW rev \in Nat \union {Nil}, Written(rev),
         rev # Nil => bucket' = NewRules /\ rev = bucket.rev + 1
  PROVE  RevisionInv'
<1>1. plan'.rev = rev /\ plan'.rules = plan.rules /\ UNCHANGED <<tf, op, want>>
      /\ pc' = AfterCors
  BY DEF Written, Go, TypeOK, Models
<1>2. rev # Nil => bucket'.rev = rev /\ bucket'.rules = plan.rules
  BY DEF NewRules, TypeOK, Buckets
<1>3. Current(plan.rev, plan.rules)'
  BY <1>1, <1>2 DEF Current, TypeOK, Buckets
<1>4. /\ pc' \in {"credentials", "visibility", "fetch"}
      /\ pc' # "credentials" => op # "create"
      /\ pc' = "visibility" => RulesFirst(want)
  BY <1>1 DEF AfterCors
<1>5. RulesFirst(want)' = RulesFirst(want)
  BY <1>1 DEF RulesFirst
<1>6. QED
  BY <1>1, <1>3, <1>4, <1>5, StateCurrent DEF RevisionInv

LEMMA RevisionProceed ==
  ASSUME TypeOK, TypeOK', Moves, RevisionInv, Proceed
  PROVE  RevisionInv'
<1>0. UNCHANGED tf => Current(tf.rev, tf.rules)'
  BY StateCurrent
<1>1. CASE Post
  <2>1. tf'.rev = Nil /\ pc' = "poll" /\ op' = "create" /\ plan'.rev = Nil
    BY <1>1 DEF Post, NoState, RevisionInv
  <2>2. QED
    BY <2>1 DEF RevisionInv, RulesSettled, Current
<1>2. CASE \/ PostLost \/ PostRefused \/ PollFails \/ FetchFails \/ VisibilityFails
           \/ ReadGone \/ ReadDeleting \/ ReadFails \/ DeleteMissing \/ DeleteFails \/ Gone
  BY <1>2, RevisionStop DEF PostLost, PostRefused, PollFails, FetchFails, VisibilityFails,
       ReadGone, ReadFails, DeleteMissing, DeleteFails, Gone
<1>3. CASE Poll
  <2>1. UNCHANGED <<tf, op, plan>> /\ pc' = "fetch" /\ op = "create" /\ plan.rev = Nil
    BY <1>3 DEF Poll, Go, RevisionInv
  <2>2. QED
    BY <1>0, <2>1 DEF RevisionInv, RulesSettled, Current
<1>4. CASE Fetch
  <2>1. /\ UNCHANGED <<tf, op, bucket>> /\ plan'.rev = plan.rev /\ plan'.rules = plan.rules
        /\ pc' = IF op = "create" /\ plan.rules # NoRules THEN "revision" ELSE "credentials"
    BY <1>4 DEF Fetch, Go, TypeOK, Models
  <2>2. Current(plan.rev, plan.rules)' /\ (op = "create" => plan.rev = Nil)
    BY <1>4, <2>1 DEF Fetch, RevisionInv, RulesSettled, Current, There
  <2>3. QED
    BY <1>0, <2>1, <2>2 DEF RevisionInv
<1>5. CASE Visibility
  <2>1. /\ UNCHANGED <<tf, op, want, plan, expected>> /\ pc' = AfterVisibility
        /\ pc = "visibility" /\ op # "create"
    BY <1>5 DEF Visibility, Go, RevisionInv
  <2>2. CASE CorsChanges(want) /\ ~RulesFirst(want)
    <3>1. expected' = tf.rev /\ pc' = IF tf.rev = Nil THEN "revision" ELSE "cors"
      BY <2>1, <2>2 DEF AfterVisibility, WriteCors, RevisionInv
    <3>2. QED
      BY <1>0, <2>1, <3>1 DEF RevisionInv, RulesSettled
  <2>3. CASE ~(CorsChanges(want) /\ ~RulesFirst(want))
    <3>1. pc' = "fetch" /\ RulesSettled
      BY <2>1, <2>3 DEF AfterVisibility, RulesSettled
    <3>2. Current(plan.rev, plan.rules)'
      BY <2>1, <3>1, StateCurrent DEF Current, CurrentNext
    <3>3. QED
      BY <1>0, <2>1, <3>1, <3>2 DEF RevisionInv
  <2>4. QED
    BY <2>2, <2>3
<1>6. CASE ReadRevision
  <2>1. CASE plan.rules = NoRules /\ bucket.rules = NoRules /\ Written(Nil)
    BY <2>1, RevisionWritten
  <2>2. CASE Go("cors", plan) /\ expected' = bucket.rev /\ seen' = bucket.rules
    <3>1. /\ UNCHANGED <<tf, op, plan, bucket>> /\ pc' = "cors" /\ tf.rev = Nil
          /\ op = "create" => plan.rev = Nil
      BY <1>6, <2>2 DEF ReadRevision, Go, RevisionInv
    <3>2. Current(expected, seen)'
      BY <2>2, <3>1 DEF Current, TypeOK, Buckets
    <3>3. QED
      BY <1>0, <3>1, <3>2 DEF RevisionInv, RulesSettled
  <2>3. QED
    BY <1>6, <2>1, <2>2 DEF ReadRevision
<1>7. CASE PutCors \/ DeleteCors
  <2>1. bucket.rev + 1 \in Nat
    BY DEF TypeOK, Buckets
  <2>2. QED
    BY <1>7, <2>1, RevisionWritten DEF PutCors, DeleteCors
<1>8. CASE RevisionFails \/ CorsRefused \/ CorsLost
  <2>1. PICK unanswered \in BOOLEAN : NotWritten(unanswered)
    BY <1>8 DEF RevisionFails, CorsRefused, CorsLost
  <2>2. CASE op = "create"
    <3>1. UNCHANGED <<tf, op>> /\ pc' = "credentials" /\ plan'.rev = Nil
      BY <2>1, <2>2 DEF NotWritten, Go, TypeOK, Models
    <3>2. QED
      BY <1>0, <3>1 DEF RevisionInv, Current
  <2>3. CASE op # "create"
    BY <2>1, <2>3, RevisionStop DEF NotWritten
  <2>4. QED
    BY <2>2, <2>3
<1>9. CASE Read
  <2>1. UNCHANGED <<tf, op>> /\ pc' \in {"readcors", "credentials"} /\ plan'.rev = Nil
    BY <1>9 DEF Read, Go, FromState
  <2>2. QED
    BY <1>0, <2>1 DEF RevisionInv, Current
<1>10. CASE ReadCors
  <2>1. /\ UNCHANGED <<tf, op, bucket>> /\ pc' = "credentials"
        /\ plan'.rev = bucket.rev /\ plan'.rules = bucket.rules
    BY <1>10 DEF ReadCors, Go, TypeOK, Models
  <2>2. Current(plan.rev, plan.rules)'
    BY <2>1 DEF Current, TypeOK, Buckets
  <2>3. QED
    BY <1>0, <2>1, <2>2 DEF RevisionInv
<1>11. CASE Credentials \/ NoCredentials
  <2>1. CurrentNext(plan.rev, plan.rules)
    BY <1>11, StateCurrent DEF Credentials, NoCredentials, RulesSettled
  <2>2. \A k \in {"null", "known", "unknown"} :
          /\ [plan EXCEPT !.keys = k] \in Models
          /\ [plan EXCEPT !.keys = k].rev = plan.rev
          /\ [plan EXCEPT !.keys = k].rules = plan.rules
    BY DEF TypeOK, Models
  <2>3. plan \in Models /\ Unreadable \in {"null", "known", "unknown"}
    BY DEF TypeOK, Models, Unreadable
  <2>4. PICK m \in Models : m.rev = plan.rev /\ m.rules = plan.rules /\ Save(m)
    BY <1>11, <2>2, <2>3 DEF Credentials, NoCredentials
  <2>5. CurrentNext(m.rev, m.rules)
    BY <2>1, <2>4
  <2>6. QED
    BY <2>4, <2>5, RevisionStop
<1>12. CASE Delete
  BY <1>0, <1>12 DEF Delete, Go, RevisionInv, RulesSettled
<1>13. QED
  BY <1>1, <1>2, <1>3, <1>4, <1>5, <1>6, <1>7, <1>8, <1>9, <1>10, <1>11, <1>12 DEF Proceed

LEMMA RevisionElse ==
  ASSUME TypeOK, TypeOK', Moves, RevisionInv, Platform \/ Quiet \/ UNCHANGED vars
  PROVE  RevisionInv'
<1>1. UNCHANGED <<tf, handler>>
  BY DEF Platform, Provision, Vanish, OutsideRules, OutsideVisibility, OutsideDelete,
     Outside, Quiet, vars
<1>2. /\ Current(tf.rev, tf.rules)'
      /\ RulesSettled' => Current(plan.rev, plan.rules)'
      /\ pc' = "cors" /\ tf'.rev = Nil => Current(expected, seen)'
  BY <1>1, StateCurrent DEF handler, Current, CurrentNext, RulesSettled, RulesFirst, CorsChanges
<1>3. QED
  BY <1>1, <1>2 DEF handler, RevisionInv, RulesFirst

\* The rules that a write replaces are those it was planned against, whatever
\* others do between the calls: NothingOverwritten.
THEOREM RulesNeverLost == Spec => NothingOverwritten
<1>1. Init => RevisionInv
  BY DEF Init, NoState, NoModel, RevisionInv, RulesSettled, Current
<1>2. TypeOK /\ TypeOK' /\ RevisionInv /\ [Next]_vars => RevisionInv'
  BY RevisionsGrow, RevisionStart, RevisionProceed, RevisionElse DEF Next
<1>3. TypeOK /\ RevisionInv /\ [Next]_vars
        => [WritesCors => bucket.rules = IF tf.rev # Nil THEN tf.rules ELSE seen]_vars
  <2> SUFFICES ASSUME TypeOK, RevisionInv, [Next]_vars, WritesCors
               PROVE  bucket.rules = IF tf.rev # Nil THEN tf.rules ELSE seen
    OBVIOUS
  <2>1. Accepts /\ pc = "cors"
    <3>1. CASE Start \/ Platform \/ Quiet \/ UNCHANGED vars
      BY <3>1 DEF Start, StartCreate, StartUpdate, StartDelete, Refresh, Import, Untaint, Begin,
         Platform, Provision, Vanish, OutsideRules, OutsideVisibility, OutsideDelete, Outside,
         Quiet, vars, handler, WritesCors
    <3>2. CASE Proceed
      BY <3>2 DEF WritesCors, Proceed, Post, PostLost, PostRefused, Poll, PollFails, Fetch,
         FetchFails, Visibility, VisibilityFails, ReadRevision, RevisionFails, PutCors,
         DeleteCors, CorsRefused, CorsLost, ReadGone, ReadDeleting, Read, ReadCors, ReadFails,
         Credentials, NoCredentials, DeleteMissing, Delete, DeleteFails, Gone
    <3>3. QED
      BY <3>1, <3>2 DEF Next
  <2>2. There /\ expected = bucket.rev /\ bucket.rev \in Nat /\ bucket.rev # Nil
    BY <2>1 DEF Accepts, Answers, There, TypeOK, Buckets, Nil
  <2>3. QED
    BY <2>1, <2>2 DEF RevisionInv, Current
<1>4. QED
  BY <1>1, <1>2, <1>3, TypeCorrect, PTL DEF Spec, NothingOverwritten
-----------------------------------------------------------------------------
(* The state is true.  Shape is what holds of every handler at each of its  *)
(* calls; TrueInv what it owes to nobody else having changed the bucket.     *)

Shape ==
  /\ ~tf.there => tf.rev = Nil
  /\ pc \notin {"idle", "post"} => tf.there
  /\ pc \in {"post", "poll"} => op = "create"
  /\ pc = "visibility" => op = "update" /\ want.public # tf.public
  /\ pc \in {"post", "poll", "fetch", "revision", "cors", "visibility"} =>
       /\ op \in {"create", "update"}
       /\ Allowed(want.public, want.rules) /\ plan.rules = want.rules
  /\ pc \in {"post", "poll", "fetch"} /\ op = "create" =>
       plan.public = want.public /\ plan.rev = Nil
  /\ pc \in {"revision", "cors"} /\ op = "update" => CorsChanges(want)

\* A model or a state tells the rules that it manages, and their revision.
RulesTrue(m) ==
  /\ m.rev # Nil => m.rev = bucket.rev
  /\ m.rules # NoRules => m.rules = bucket.rules /\ m.rev = bucket.rev
Told ==
  \/ pc = "credentials" \/ (pc = "fetch" /\ op = "update")
  \/ pc = "visibility" /\ (RulesFirst(want) \/ ~CorsChanges(want))
Live == bucket.status \in {"creating", "active", "error"}

TrueInv ==
  calm /\ tf.there =>
    /\ pc # "gone" => Live
    /\ pc = "idle" \/ Unbegun => tf.public = bucket.public /\ RulesTrue(tf)
    /\ pc \in {"readcors", "credentials"} => plan.public = bucket.public
    /\ pc \in {"poll", "fetch", "revision", "cors"} /\ op = "create" =>
         plan.public = bucket.public
    /\ pc \in {"revision", "cors"} => Allowed(bucket.public, want.rules)
    /\ pc = "cors" => expected = bucket.rev
    /\ pc = "visibility" /\ RulesFirst(want) /\ Manages => bucket.rules = want.rules
    /\ pc = "visibility" /\ ~RulesFirst(want) => expected = tf.rev /\ RulesTrue(tf)
    /\ Told => RulesTrue(plan)

TruthInv == Shape /\ TrueInv

\* After these calls a handler has begun to change the bucket.
LEMMA HasBegun ==
  /\ pc' \notin {"read", "delete", "revision", "cors", "visibility"} => ~Unbegun'
  /\ pc' \notin {"read", "delete"} /\ op' # "update" => ~Unbegun'
  /\ (FirstWrite(want) = "visibility")' /\ pc' \in {"revision", "cors"} => ~Unbegun'
  /\ (FirstWrite(want) # "visibility")' /\ pc' = "visibility" => ~Unbegun'
BY DEF Unbegun

LEMMA FirstWriteIs ==
  /\ CorsChanges(want) /\ RulesFirst(want) => FirstWrite(want) # "visibility"
  /\ ~RulesFirst(want) /\ want.public # tf.public => FirstWrite(want) = "visibility"
  /\ UNCHANGED <<tf, want>> => FirstWrite(want)' = FirstWrite(want)
BY DEF FirstWrite, WriteCors, CorsChanges, RulesFirst

\* A handler that is over has left the state as it was and the caller in doubt,
\* or forgotten the bucket, or recorded a model that tells the truth.
LEMMA TruthStop ==
  ASSUME TypeOK, TruthInv,
         \/ Fail \/ Forget \/ ReadDeleting
         \/ pc = "credentials" /\ \E k \in {"null", "known", "unknown"} :
              Save([plan EXCEPT !.keys = k])
  PROVE  TruthInv'
<1>1. pc' = "idle"
  BY DEF Fail, Forget, ReadDeleting, Save, Finish
<1>2. CASE Fail
  <2>1. UNCHANGED tf /\ (calm' => calm /\ Unbegun /\ UNCHANGED bucket)
    BY <1>2 DEF Fail
  <2>2. Shape'
    BY <1>1, <2>1 DEF TruthInv, Shape
  <2>3. Unbegun => pc # "gone"
    BY DEF Unbegun
  <2>4. calm' /\ tf'.there => Live /\ tf.public = bucket.public /\ RulesTrue(tf)
    BY <2>1, <2>3 DEF TruthInv, TrueInv
  <2>5. calm' /\ tf'.there => Live' /\ tf'.public = bucket'.public /\ RulesTrue(tf)'
    BY <2>1, <2>4 DEF Live, RulesTrue
  <2>6. QED
    BY <1>1, <2>2, <2>5 DEF TruthInv, TrueInv, Told
<1>6. CASE ReadDeleting
  BY <1>1, <1>6 DEF ReadDeleting, TruthInv, Shape, TrueInv
<1>3. CASE Forget
  BY <1>1, <1>3 DEF Forget, NoState, TruthInv, Shape, TrueInv
<1>4. CASE pc = "credentials" /\ \E k \in {"null", "known", "unknown"} :
              Save([plan EXCEPT !.keys = k])
  <2>1. PICK k \in {"null", "known", "unknown"} : Save([plan EXCEPT !.keys = k])
    BY <1>4
  <2>2. /\ tf'.there /\ tf'.public = plan.public /\ tf'.rules = plan.rules
        /\ tf'.rev = plan.rev /\ UNCHANGED <<bucket, calm>>
    BY <2>1 DEF Save, TypeOK, Models
  <2>3. tf.there
    BY <1>4 DEF TruthInv, Shape
  <2>4. calm => Live /\ RulesTrue(plan) /\ plan.public = bucket.public
    BY <1>4, <2>3 DEF TruthInv, TrueInv, Told
  <2>5. calm' => Live' /\ tf'.public = bucket'.public /\ RulesTrue(tf)'
    BY <2>2, <2>4 DEF Live, RulesTrue
  <2>6. QED
    BY <1>1, <2>2, <2>5 DEF TruthInv, Shape, TrueInv, Told
<1>5. QED
  BY <1>2, <1>3, <1>4, <1>6

LEMMA TruthUpdate ==
  ASSUME TypeOK, TruthInv, NEW w \in Plans, StartUpdate(w)
  PROVE  TruthInv'
<1>1. /\ UNCHANGED <<tf, bucket, calm>> /\ tf.there /\ pc = "idle"
      /\ op' = "update" /\ want' = w /\ pc' = FirstWrite(w) /\ expected' = tf.rev
      /\ Allowed(w.public, w.rules) /\ w # [public |-> tf.public, rules |-> tf.rules]
  BY DEF StartUpdate, Begin
<1>2. plan'.rev = tf.rev /\ plan'.rules = w.rules
  BY DEF StartUpdate, Begin, FromState
<1>3. w.public \in BOOLEAN /\ w = [public |-> w.public, rules |-> w.rules] /\ tf.public \in BOOLEAN
  BY DEF TypeOK, Plans, States
<1>4. calm => Live /\ tf.public = bucket.public /\ RulesTrue(tf)
  BY <1>1 DEF TruthInv, TrueInv
<1>5. RulesFirst(want)' = RulesFirst(w) /\ CorsChanges(want)' = CorsChanges(w)
      /\ RulesTrue(tf)' = RulesTrue(tf) /\ Live' = Live /\ Manages' = Manages
  BY <1>1 DEF RulesFirst, CorsChanges, RulesTrue, Live, Manages
<1>6. CASE CorsChanges(w) /\ (RulesFirst(w) \/ tf.public = w.public)
  <2>1. pc' = IF tf.rev = Nil THEN "revision" ELSE "cors"
    BY <1>1, <1>6 DEF FirstWrite, WriteCors
  <2>2. tf.public \/ tf.public = w.public
    BY <1>6 DEF RulesFirst
  <2>3. Shape'
    BY <1>1, <1>2, <1>5, <1>6, <2>1 DEF Shape
  <2>4. calm => Allowed(bucket.public, w.rules)
    BY <1>1, <1>4, <2>2 DEF Allowed
  <2>5. calm /\ tf.rev # Nil => tf.rev = bucket.rev
    BY <1>4 DEF RulesTrue
  <2>6. TrueInv'
    BY <1>1, <1>4, <1>5, <2>1, <2>4, <2>5 DEF TrueInv, Told, Allowed
  <2>7. QED
    BY <2>3, <2>6 DEF TruthInv
<1>7. CASE ~(CorsChanges(w) /\ (RulesFirst(w) \/ tf.public = w.public))
  <2>1. pc' = "visibility"
    BY <1>1, <1>7 DEF FirstWrite
  <2>2. w.public # tf.public
    BY <1>1, <1>3, <1>7 DEF CorsChanges
  <2>3. Shape'
    BY <1>1, <1>2, <2>1, <2>2 DEF Shape
  <2>4. Told' => w.rules = tf.rules
    BY <1>5, <1>7, <2>1 DEF Told, CorsChanges
  <2>5. calm /\ Told' => RulesTrue(plan)'
    BY <1>1, <1>2, <1>4, <2>4 DEF RulesTrue
  <2>6. calm /\ RulesFirst(w) /\ Manages => bucket.rules = w.rules
    BY <1>4, <1>7 DEF CorsChanges, RulesTrue, Manages
  <2>7. TrueInv'
    BY <1>1, <1>4, <1>5, <2>1, <2>5, <2>6 DEF TrueInv
  <2>8. QED
    BY <2>3, <2>7 DEF TruthInv
<1>8. QED
  BY <1>6, <1>7

LEMMA TruthStart ==
  ASSUME TypeOK, TruthInv, Start
  PROVE  TruthInv'
<1>1. CASE \E w \in Plans : StartCreate(w)
  <2>1. PICK w \in Plans : StartCreate(w)
    BY <1>1
  <2>2. /\ UNCHANGED tf /\ ~tf.there /\ pc' = "post" /\ op' = "create" /\ want' = w
        /\ Allowed(w.public, w.rules)
    BY <2>1 DEF StartCreate, Begin
  <2>3. plan'.public = w.public /\ plan'.rules = w.rules /\ plan'.rev = tf.rev
    BY <2>1 DEF StartCreate, Begin, FromState
  <2>4. tf.rev = Nil
    BY <2>2 DEF TruthInv, Shape
  <2>5. QED
    BY <2>2, <2>3, <2>4 DEF TruthInv, Shape, TrueInv
<1>2. CASE \E w \in Plans : StartUpdate(w)
  BY <1>2, TruthUpdate
<1>3. CASE StartDelete \/ Refresh
  <2>1. /\ UNCHANGED <<tf, bucket, calm>> /\ tf.there /\ pc = "idle"
        /\ pc' \in {"delete", "read"}
    BY <1>3 DEF StartDelete, Refresh, Begin
  <2>2. Live' = Live /\ RulesTrue(tf)' = RulesTrue(tf)
    BY <2>1 DEF Live, RulesTrue
  <2>3. QED
    BY <2>1, <2>2 DEF TruthInv, Shape, TrueInv, Told
<1>4. CASE Import
  <2>1. pc' = "read" /\ tf'.there /\ ~calm'
    BY <1>4 DEF Import, Begin, NoState
  <2>2. QED
    BY <2>1 DEF TruthInv, Shape, TrueInv, Told
<1>5. CASE Untaint
  <2>1. /\ pc = "idle" /\ UNCHANGED <<pc, bucket, calm>> /\ tf'.there = tf.there
        /\ tf'.public = tf.public /\ tf'.rules = tf.rules /\ tf'.rev = tf.rev
    BY <1>5 DEF Untaint, handler, TypeOK, States
  <2>2. Live' = Live /\ RulesTrue(tf)' = RulesTrue(tf)
    BY <2>1 DEF Live, RulesTrue
  <2>3. QED
    BY <2>1, <2>2 DEF TruthInv, Shape, TrueInv, Told
<1>6. QED
  BY <1>1, <1>2, <1>3, <1>4, <1>5 DEF Start

LEMMA WrittenBucket ==
  ASSUME TypeOK
  PROVE  /\ NewRules.rules = plan.rules /\ NewRules.rev = bucket.rev + 1
         /\ NewRules.public = bucket.public /\ NewRules.status = bucket.status
<1>1. bucket \in Buckets
  BY DEF TypeOK
<1>2. QED
  BY <1>1 DEF Buckets, NewRules

\* The rules are written, or there are none to write.
LEMMA TruthWritten ==
  ASSUME TypeOK, TruthInv, pc \in {"revision", "cors"},
         NEW rev \in Nat \union {Nil}, Written(rev),
         \/ bucket' = NewRules /\ Live' /\ (rev = bucket.rev + 1 \/ (rev = Nil /\ plan.rules = NoRules))
         \/ UNCHANGED bucket /\ rev = Nil /\ plan.rules = NoRules /\ bucket.rules = NoRules
  PROVE  TruthInv'
<1>1. /\ plan'.rev = rev /\ plan'.rules = plan.rules /\ plan'.public = plan.public
      /\ UNCHANGED <<tf, op, want, calm, expected>> /\ pc' = AfterCors
  BY DEF Written, Go, TypeOK, Models
<1>2. /\ tf.there /\ op \in {"create", "update"} /\ plan.rules = want.rules
      /\ Allowed(want.public, want.rules)
  BY DEF TruthInv, Shape
<1>3. bucket'.rules = plan.rules /\ bucket'.public = bucket.public /\ (rev # Nil => rev = bucket'.rev)
      /\ (rev # Nil \/ plan.rules = NoRules)
  <2>1. bucket.rev + 1 # Nil
    BY DEF TypeOK, Buckets, Nil
  <2>2. /\ NewRules.rules = plan.rules /\ NewRules.public = bucket.public
        /\ NewRules.rev = bucket.rev + 1
    BY WrittenBucket
  <2>3. QED
    BY <2>1, <2>2
<1>4. RulesTrue(plan)' /\ bucket'.rules = want.rules
  BY <1>1, <1>2, <1>3 DEF RulesTrue
<1>5. /\ pc' \in {"credentials", "visibility", "fetch"}
      /\ pc' = "credentials" <=> op = "create"
      /\ pc' = "visibility" => RulesFirst(want)
  BY <1>1, <1>2 DEF AfterCors
<1>6. RulesFirst(want)' = RulesFirst(want) /\ (RulesFirst(want) => want.public # tf.public)
  BY <1>1 DEF RulesFirst
<1>7. Shape'
  BY <1>1, <1>2, <1>5, <1>6 DEF TruthInv, Shape
<1>8. calm => Live'
  <2>1. calm => Live
    BY <1>2 DEF TruthInv, TrueInv
  <2>2. QED
    BY <2>1 DEF Live
<1>9. calm /\ op = "create" => plan'.public = bucket'.public
  BY <1>1, <1>2, <1>3 DEF TruthInv, TrueInv
<1>10. ~Unbegun'
  <2>1. pc' = "visibility" => CorsChanges(want) /\ RulesFirst(want)
    BY <1>2, <1>5 DEF TruthInv, Shape
  <2>2. pc' = "visibility" => (FirstWrite(want) # "visibility")'
    BY <1>1, <2>1, FirstWriteIs
  <2>3. QED
    BY <1>5, <2>2, HasBegun
<1>11. TrueInv'
  BY <1>1, <1>4, <1>5, <1>6, <1>8, <1>9, <1>10 DEF TrueInv, Manages
<1>12. QED
  BY <1>7, <1>11 DEF TruthInv

LEMMA TruthNotWritten ==
  ASSUME TypeOK, TruthInv, pc \in {"revision", "cors"},
         NEW unanswered \in BOOLEAN, NotWritten(unanswered), ~unanswered => UNCHANGED bucket
  PROVE  TruthInv'
<1>1. CASE op = "create"
  <2>1. /\ UNCHANGED <<tf, op>> /\ pc' = "credentials" /\ calm' = (calm /\ ~unanswered)
        /\ plan'.rules = NoRules /\ plan'.rev = Nil /\ plan'.public = plan.public
    BY <1>1 DEF NotWritten, Go, TypeOK, Models
  <2>2. tf.there /\ Shape'
    BY <2>1 DEF TruthInv, Shape
  <2>3. calm' => UNCHANGED bucket /\ Live /\ plan.public = bucket.public
    BY <1>1, <2>1, <2>2 DEF TruthInv, TrueInv
  <2>4. calm' => Live' /\ plan'.public = bucket'.public
    BY <2>1, <2>3 DEF Live
  <2>5. RulesTrue(plan)'
    BY <2>1 DEF RulesTrue
  <2>6. TrueInv'
    BY <2>1, <2>4, <2>5, HasBegun DEF TrueInv
  <2>7. QED
    BY <2>2, <2>6 DEF TruthInv
<1>2. CASE op # "create"
  BY <1>2, TruthStop DEF NotWritten
<1>3. QED
  BY <1>1, <1>2

LEMMA TruthMade ==
  ASSUME TypeOK, TruthInv, Post \/ Poll \/ Fetch \/ Visibility
  PROVE  TruthInv'
<1>1. CASE Post
  <2>1. /\ tf'.there /\ tf'.rev = Nil /\ pc' = "poll" /\ op' = "create" /\ op = "create"
        /\ UNCHANGED <<want, plan>> /\ plan.public = want.public /\ plan.rev = Nil
        /\ Allowed(want.public, want.rules) /\ plan.rules = want.rules /\ bucket' = NewBucket
    BY <1>1 DEF Post, NoState, TruthInv, Shape
  <2>2. bucket'.status = "creating" /\ bucket'.public = plan.public
    BY <2>1 DEF NewBucket
  <2>3. Shape'
    BY <2>1 DEF Shape
  <2>4. QED
    BY <2>1, <2>2, <2>3, HasBegun DEF TruthInv, TrueInv, Live, Told
<1>2. CASE Poll
  <2>1. UNCHANGED <<tf, op, plan, want, bucket, calm>> /\ pc' = "fetch" /\ pc = "poll"
    BY <1>2 DEF Poll, Go
  <2>2. op = "create" /\ tf.there /\ Live' = Live
    BY <2>1 DEF TruthInv, Shape, Live
  <2>3. QED
    BY <2>1, <2>2, HasBegun DEF TruthInv, Shape, TrueInv, Told
<1>3. CASE Fetch
  <2>1. /\ UNCHANGED <<tf, op, bucket, want, calm>> /\ pc = "fetch"
        /\ plan'.rev = plan.rev /\ plan'.rules = plan.rules /\ plan'.public = bucket.public
        /\ pc' = IF op = "create" /\ plan.rules # NoRules THEN "revision" ELSE "credentials"
    BY <1>3 DEF Fetch, Go, TypeOK, Models
  <2>2. /\ tf.there /\ op \in {"create", "update"} /\ Allowed(want.public, want.rules)
        /\ plan.rules = want.rules /\ (op = "create" => plan.rev = Nil /\ plan.public = want.public)
    BY <2>1 DEF TruthInv, Shape
  <2>3. Shape'
    BY <2>1, <2>2 DEF TruthInv, Shape
  <2>4. calm => Live /\ (op = "create" => bucket.public = want.public)
                /\ (op = "update" => RulesTrue(plan))
    BY <2>1, <2>2 DEF TruthInv, TrueInv, Told
  <2>5. calm => Live'
    BY <2>1, <2>4 DEF Live
  <2>6. calm /\ pc' = "credentials" => RulesTrue(plan)'
    BY <2>1, <2>2, <2>4 DEF RulesTrue
  <2>7. calm /\ pc' = "revision" => Allowed(bucket.public, want.rules)
    BY <2>1, <2>2, <2>4
  <2>8. TrueInv'
    BY <2>1, <2>2, <2>5, <2>6, <2>7, HasBegun DEF TrueInv, Told, Allowed
  <2>9. QED
    BY <2>3, <2>8 DEF TruthInv
<1>4. CASE Visibility
  <2>1. /\ UNCHANGED <<tf, op, want, plan, expected, calm>> /\ pc' = AfterVisibility
        /\ pc = "visibility" /\ Answers /\ bucket' = [bucket EXCEPT !.public = want.public]
    BY <1>4 DEF Visibility, Go
  <2>2. /\ tf.there /\ op = "update" /\ Allowed(want.public, want.rules) /\ plan.rules = want.rules
    BY <2>1 DEF TruthInv, Shape
  <2>3. bucket'.public = want.public /\ bucket'.rules = bucket.rules /\ bucket'.rev = bucket.rev
        /\ bucket'.status = "active"
    BY <2>1 DEF TypeOK, Buckets, Answers
  <2>4. Live'
    BY <2>3 DEF Live
  <2>5. RulesTrue(plan)' = RulesTrue(plan)
    BY <2>1, <2>3 DEF RulesTrue
  <2>6. CASE CorsChanges(want) /\ ~RulesFirst(want)
    <3>1. pc' = IF tf.rev = Nil THEN "revision" ELSE "cors"
      BY <2>1, <2>6 DEF AfterVisibility, WriteCors
    <3>2. Shape' /\ ~Unbegun'
      <4>1. CorsChanges(want)' = CorsChanges(want) /\ want.public # tf.public
        BY <2>1 DEF CorsChanges, TruthInv, Shape
      <4>2. (FirstWrite(want) = "visibility")'
        BY <2>1, <2>6, <4>1, FirstWriteIs
      <4>3. QED
        BY <2>1, <2>2, <2>6, <3>1, <4>1, <4>2, HasBegun DEF TruthInv, Shape
    <3>3. calm /\ tf.rev # Nil => expected = bucket.rev
      BY <2>1, <2>2, <2>6 DEF TruthInv, TrueInv, RulesTrue
    <3>4. TrueInv'
      BY <2>1, <2>2, <2>3, <2>4, <3>1, <3>2, <3>3 DEF TrueInv, Told, Allowed
    <3>5. QED
      BY <3>2, <3>4 DEF TruthInv
  <2>7. CASE ~(CorsChanges(want) /\ ~RulesFirst(want))
    <3>1. pc' = "fetch" /\ Told
      BY <2>1, <2>7 DEF AfterVisibility, Told
    <3>2. Shape'
      BY <2>1, <2>2, <3>1 DEF TruthInv, Shape
    <3>3. calm => RulesTrue(plan)
      BY <2>2, <3>1 DEF TruthInv, TrueInv
    <3>4. TrueInv'
      BY <2>1, <2>2, <2>4, <2>5, <3>1, <3>3, HasBegun DEF TrueInv
    <3>5. QED
      BY <3>2, <3>4 DEF TruthInv
  <2>8. QED
    BY <2>6, <2>7
<1>5. QED
  BY <1>1, <1>2, <1>3, <1>4

LEMMA TruthProceed ==
  ASSUME TypeOK, TruthInv, Proceed
  PROVE  TruthInv'
<1>1. CASE Post \/ Poll \/ Fetch \/ Visibility
  BY <1>1, TruthMade
<1>2. CASE \/ PostLost \/ PostRefused \/ PollFails \/ FetchFails \/ VisibilityFails
           \/ ReadGone \/ ReadDeleting \/ ReadFails \/ DeleteMissing \/ DeleteFails \/ Gone
  BY <1>2, TruthStop DEF PostLost, PostRefused, PollFails, FetchFails, VisibilityFails,
       ReadGone, ReadFails, DeleteMissing, DeleteFails, Gone
<1>3. CASE ReadRevision
  <2>1. CASE plan.rules = NoRules /\ bucket.rules = NoRules /\ Written(Nil)
    BY <1>3, <2>1, TruthWritten DEF ReadRevision
  <2>2. CASE Go("cors", plan) /\ expected' = bucket.rev /\ UNCHANGED calm
    <3>1. UNCHANGED <<tf, op, want, plan, bucket, calm>> /\ pc = "revision" /\ pc' = "cors"
      BY <1>3, <2>2 DEF ReadRevision, Go
    <3>2. tf.there /\ Live' = Live /\ RulesTrue(tf)' = RulesTrue(tf)
      BY <3>1 DEF TruthInv, Shape, Live, RulesTrue
    <3>3. CorsChanges(want)' = CorsChanges(want) /\ (Unbegun' => Unbegun)
      BY <3>1, FirstWriteIs DEF CorsChanges, Unbegun
    <3>4. QED
      BY <2>2, <3>1, <3>2, <3>3 DEF TruthInv, Shape, TrueInv, Told
  <2>3. QED
    BY <1>3, <2>1, <2>2 DEF ReadRevision
<1>4. CASE PutCors \/ DeleteCors
  <2>1. bucket.rev + 1 \in Nat /\ bucket'.status = "active"
    <3>1. bucket.rev + 1 \in Nat
      BY DEF TypeOK, Buckets
    <3>2. bucket'.status = "active"
      BY <1>4, WrittenBucket DEF PutCors, DeleteCors, Accepts, Answers
    <3>3. QED
      BY <3>1, <3>2
  <2>2. QED
    BY <1>4, <2>1, TruthWritten DEF PutCors, DeleteCors, Live
<1>5. CASE RevisionFails \/ CorsRefused \/ CorsLost
  BY <1>5, TruthNotWritten DEF RevisionFails, CorsRefused, CorsLost
<1>6. CASE Read
  <2>1. /\ UNCHANGED <<tf, bucket>> /\ Live
        /\ plan'.rules = tf.rules /\ plan'.rev = Nil /\ plan'.public = bucket.public
        /\ pc' = IF Manages THEN "readcors" ELSE "credentials"
    BY <1>6 DEF Read, Go, FromState, Live
  <2>2. tf.there
    BY <1>6 DEF Read, TruthInv, Shape
  <2>3. pc' = "credentials" => RulesTrue(plan)'
    BY <2>1 DEF Manages, RulesTrue
  <2>4. Shape'
    BY <2>1, <2>2 DEF TruthInv, Shape
  <2>5. Live'
    BY <2>1 DEF Live
  <2>6. QED
    BY <1>6, <2>1, <2>2, <2>3, <2>4, <2>5, HasBegun DEF Read, Go, TruthInv, Shape, TrueInv, Told
<1>7. CASE ReadCors
  <2>1. /\ UNCHANGED <<tf, op, bucket, calm>> /\ pc = "readcors" /\ pc' = "credentials"
        /\ plan'.rev = bucket.rev /\ plan'.rules = bucket.rules /\ plan'.public = plan.public
    BY <1>7 DEF ReadCors, Go, TypeOK, Models
  <2>2. RulesTrue(plan)' /\ tf.there /\ Live' = Live
    BY <2>1 DEF RulesTrue, TruthInv, Shape, Live
  <2>3. QED
    BY <2>1, <2>2, HasBegun DEF TruthInv, Shape, TrueInv
<1>8. CASE Credentials \/ NoCredentials
  <2>1. plan \in Models
    BY DEF TypeOK
  <2>2. plan = [plan EXCEPT !.keys = plan.keys] /\ plan.keys \in {"null", "known", "unknown"}
    BY <2>1 DEF Models
  <2>3. Unreadable \in {"null", "known", "unknown"}
    BY <2>2 DEF Unreadable
  <2>4. \E k \in {"null", "known", "unknown"} : Save([plan EXCEPT !.keys = k])
    BY <1>8, <2>2, <2>3 DEF Credentials, NoCredentials
  <2>5. QED
    BY <1>8, <2>4, TruthStop DEF Credentials, NoCredentials
<1>9. CASE Delete
  <2>1. pc = "delete" /\ pc' = "gone" /\ UNCHANGED tf
    BY <1>9 DEF Delete, Go
  <2>2. QED
    BY <2>1, HasBegun DEF TruthInv, Shape, TrueInv, Told
<1>10. QED
  BY <1>1, <1>2, <1>3, <1>4, <1>5, <1>6, <1>7, <1>8, <1>9 DEF Proceed

LEMMA TruthElse ==
  ASSUME TypeOK, TruthInv, Platform \/ Quiet \/ UNCHANGED vars
  PROVE  TruthInv'
<1>1. UNCHANGED <<tf, handler>>
  BY DEF Platform, Provision, Vanish, OutsideRules, OutsideVisibility, OutsideDelete,
     Outside, Quiet, vars
<1>2. Shape'
  BY <1>1 DEF handler, TruthInv, Shape, CorsChanges
<1>3. calm' /\ tf.there =>
        calm /\ (pc # "gone" =>
                   /\ Live /\ Live'
                   /\ bucket'.public = bucket.public /\ bucket'.rules = bucket.rules
                   /\ bucket'.rev = bucket.rev)
  <2>1. CASE Provision
    BY <2>1 DEF Provision, TruthInv, TrueInv, TypeOK, Buckets, Live
  <2>2. CASE Vanish
    BY <2>2 DEF Vanish, TruthInv, TrueInv, Live
  <2>3. CASE OutsideRules \/ OutsideVisibility \/ OutsideDelete
    BY <2>3 DEF OutsideRules, OutsideVisibility, OutsideDelete, Outside
  <2>4. CASE Quiet \/ UNCHANGED vars
    BY <2>4 DEF Quiet, vars, TruthInv, TrueInv, Live
  <2>5. QED
    BY <2>1, <2>2, <2>3, <2>4 DEF Platform
<1>4. CASE calm' /\ tf.there /\ pc # "gone"
  <2>1. /\ RulesTrue(plan)' = RulesTrue(plan) /\ RulesTrue(tf)' = RulesTrue(tf)
        /\ Told' = Told /\ RulesFirst(want)' = RulesFirst(want) /\ Manages' = Manages
        /\ Unbegun' = Unbegun
    BY <1>1, <1>3, <1>4, FirstWriteIs DEF handler, RulesTrue, Told, RulesFirst, CorsChanges, Manages, Unbegun
  <2>2. Allowed(bucket.public, want.rules)' = Allowed(bucket.public, want.rules)
    BY <1>1, <1>3, <1>4 DEF handler, Allowed
  <2>3. TrueInv'
    BY <1>1, <1>3, <1>4, <2>1, <2>2 DEF handler, TruthInv, TrueInv
  <2>4. QED
    BY <1>2, <2>3 DEF TruthInv
<1>5. CASE ~(calm' /\ tf.there) \/ pc = "gone"
  BY <1>1, <1>2, <1>5, HasBegun DEF handler, TruthInv, TrueInv, Told
<1>6. QED
  BY <1>4, <1>5

LEMMA TruthHolds == Spec => [](TypeOK /\ TruthInv)
<1>1. Init => TruthInv
  BY DEF Init, NoState, NoModel, TruthInv, Shape, TrueInv
<1>2. TypeOK /\ TruthInv /\ [Next]_vars => TruthInv'
  BY TruthStart, TruthProceed, TruthElse DEF Next
<1>3. QED
  BY <1>1, <1>2, TypeCorrect, PTL DEF Spec

\* While nobody else changed the bucket and no handler broke off after it did, the state
\* tells its visibility and the rules it manages, with their revision: StateTrue.
THEOREM StateIsTrue == Spec => []StateTrue
<1>1. TypeOK /\ TruthInv => StateTrue
  BY DEF TruthInv, TrueInv, RulesTrue, StateTrue
<1>2. QED
  BY <1>1, TruthHolds, PTL

\* Then the platform has no reason to refuse the second of the two writes of an
\* update, whichever goes first: NeverRefused.
THEOREM OrderIsAllowed == Spec => []NeverRefused
<1>1. ASSUME TypeOK, TruthInv, calm, Answers, pc = "cors"
      PROVE  Accepts
  <2>1. tf.there /\ plan.rules = want.rules
    BY <1>1 DEF TruthInv, Shape
  <2>2. Allowed(bucket.public, want.rules) /\ expected = bucket.rev
    BY <1>1, <2>1 DEF TruthInv, TrueInv
  <2>3. QED
    BY <1>1, <2>1, <2>2 DEF Accepts
<1>2. ASSUME TypeOK, TruthInv, calm, pc = "visibility", Manages
      PROVE  Allowed(want.public, bucket.rules)
  <2>1. tf.there /\ want.public # tf.public /\ Allowed(want.public, want.rules)
    BY <1>2 DEF TruthInv, Shape
  <2>2. CASE RulesFirst(want)
    <3>1. bucket.rules = want.rules
      BY <1>2, <2>1, <2>2 DEF TruthInv, TrueInv
    <3>2. QED
      BY <2>1, <3>1
  <2>3. CASE ~RulesFirst(want)
    <3>1. want.public
      <4>1. want.public \in BOOLEAN /\ tf.public \in BOOLEAN
        BY <1>2 DEF TypeOK, Plans, States
      <4>2. QED
        BY <2>1, <2>3, <4>1, Zenon DEF RulesFirst
    <3>2. QED
      BY <3>1 DEF Allowed
  <2>4. QED
    BY <2>2, <2>3
<1>3. TypeOK /\ TruthInv => NeverRefused
  BY <1>1, <1>2 DEF NeverRefused
<1>4. QED
  BY <1>3, TruthHolds, PTL

=============================================================================
