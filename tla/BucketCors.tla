------------------------------- MODULE BucketCors -------------------------------
(***************************************************************************)
(* One ccp_object_bucket and its CORS rules (internal/resources/           *)
(* objectbucket): Create, Read, Update and Delete call by call, import,    *)
(* and everybody else who changes the rules, the visibility or the bucket  *)
(* between any two calls.                                                  *)
(*                                                                         *)
(* A write of the rules carries the revision the state recorded at the     *)
(* last refresh, so that it is refused when the rules changed since; a     *)
(* state without a revision reads the current one first.  pc names the     *)
(* HTTP call a handler makes next.                                         *)
(***************************************************************************)
EXTENDS Integers

CONSTANTS
  RuleLists,    \* nonempty lists of cors_rule blocks
  OpenLists,    \* those with the origin `*`
  NoRules,      \* the empty list
  Failures,     \* may a call fail, or lose its answer, without a reason?
  MaxOps,       \* bound: applies started
  MaxExternal   \* bound: changes made outside Terraform

Nil == -1       \* cors_revision is null
Rules == RuleLists \union {NoRules}

ASSUME BucketAssumption ==
  /\ OpenLists \subseteq RuleLists /\ NoRules \notin RuleLists
  /\ Failures \in BOOLEAN /\ MaxOps \in Nat /\ MaxExternal \in Nat

VARIABLES
  bucket,    \* the platform: status, visibility, rules and their revision
  tf,        \* Terraform state
  pc, op,    \* the running handler
  want,      \* the planned visibility and rules
  plan,      \* the model the handler turns into the new state
  expected,  \* the revision the next write of the rules sends
  seen,      \* rules the platform had when expected was read, not recorded
  outcome,   \* what the last handler reported
  claimed,   \* history: some configuration had a cors_rule
  calm,      \* history: since the state was read or the bucket created, nothing but
             \* answered calls of handlers that ran to their end has changed it
  ops, ext   \* applies and outside changes left

handler == <<pc, op, want, plan, expected, seen>>
budget == <<ops, ext>>
vars == <<bucket, tf, handler, outcome, claimed, calm, budget>>

Steps == {"idle", "post", "poll", "fetch", "revision", "cors", "visibility",
          "read", "readcors", "credentials", "delete", "gone"}
Buckets == [status : {"absent", "creating", "active", "error", "deleting"},
            public : BOOLEAN, rules : Rules, rev : Nat]
States == [there : BOOLEAN, tainted : BOOLEAN, public : BOOLEAN, rules : Rules,
           rev : Nat \union {Nil}, keys : BOOLEAN]
Models == [public : BOOLEAN, rules : Rules, rev : Nat \union {Nil},
           keys : {"null", "known", "unknown"}, active : BOOLEAN]
Plans == [public : BOOLEAN, rules : Rules]

NoState == [there |-> FALSE, tainted |-> FALSE, public |-> FALSE,
            rules |-> NoRules, rev |-> Nil, keys |-> FALSE]
NoModel == [public |-> FALSE, rules |-> NoRules, rev |-> Nil,
            keys |-> "null", active |-> FALSE]
NoPlan == [public |-> FALSE, rules |-> NoRules]

TypeOK ==
  /\ bucket \in Buckets /\ tf \in States
  /\ pc \in Steps /\ op \in {"none", "create", "update", "read", "delete"}
  /\ want \in Plans /\ plan \in Models
  /\ expected \in Nat \union {Nil} /\ seen \in Rules
  /\ outcome \in {"none", "ok", "error"}
  /\ claimed \in BOOLEAN /\ calm \in BOOLEAN
  /\ ops \in Nat /\ ext \in Nat

\* The platform (and ValidateConfig): a rule with the origin `*` is for public buckets.
Allowed(public, rules) == rules \in OpenLists => public
There == bucket.status # "absent"

\* No bucket, or one made elsewhere that may be imported.
Init ==
  /\ \E status \in {"absent", "active"}, public \in BOOLEAN, rules \in Rules :
       /\ Allowed(public, rules)
       /\ status = "absent" => ~public /\ rules = NoRules
       /\ bucket = [status |-> status, public |-> public, rules |-> rules, rev |-> 0]
  /\ tf = NoState /\ pc = "idle" /\ op = "none"
  /\ want = NoPlan /\ plan = NoModel
  /\ expected = Nil /\ seen = NoRules /\ outcome = "none"
  /\ claimed = FALSE /\ calm = FALSE
  /\ ops = MaxOps /\ ext = MaxExternal

-----------------------------------------------------------------------------
(* Pieces of a handler.                                                    *)

Go(step, m) ==
  /\ pc' = step /\ plan' = m
  /\ UNCHANGED <<tf, op, want, outcome, claimed, budget>>

Finish(result) ==
  /\ pc' = "idle" /\ op' = "none" /\ outcome' = result
  /\ want' = NoPlan /\ plan' = NoModel /\ expected' = Nil /\ seen' = NoRules
  /\ UNCHANGED <<claimed, budget>>

Forget == Finish("ok") /\ tf' = NoState /\ UNCHANGED <<bucket, calm>>

\* What Terraform makes of a returned model: a value that is still unknown, or
\* that differs from the planned one, is an error, and an error taints a
\* resource that is being created.
Consistent(m) ==
  op # "read" => m.keys # "unknown" /\ m.public = want.public /\ m.rules = want.rules

Save(m) ==
  /\ tf' = [there |-> TRUE, public |-> m.public, rules |-> m.rules, rev |-> m.rev,
            keys |-> m.keys = "known",
            tainted |-> IF op = "create" THEN ~Consistent(m) ELSE tf.tainted]
  /\ Finish(IF Consistent(m) THEN "ok" ELSE "error")
  /\ UNCHANGED <<bucket, calm>>

Begin(o, step, w, m) ==
  /\ pc = "idle" /\ pc' = step /\ op' = o /\ want' = w /\ plan' = m
  /\ outcome' = "none" /\ claimed' = (claimed \/ w.rules # NoRules)
  /\ UNCHANGED <<bucket, seen, ext>>

Apply == ops > 0 /\ ops' = ops - 1

\* The model a handler starts from: the recorded state with the planned values.
FromState(w) == [public |-> w.public, rules |-> w.rules, rev |-> tf.rev,
                 keys |-> IF tf.keys THEN "known" ELSE "null", active |-> FALSE]

-----------------------------------------------------------------------------
(* What Terraform starts, one handler at a time.                           *)

StartCreate(w) ==
  /\ ~tf.there /\ Allowed(w.public, w.rules) /\ Apply
  /\ Begin("create", "post", w, [FromState(w) EXCEPT !.keys = "unknown"])
  /\ UNCHANGED <<tf, expected, calm>>

CorsChanges(w) == w.rules # tf.rules

\* Mutated form of WriteCors: the current revision is always read first.
WriteCorsRereads == "revision"

\* The rules are written with the recorded revision, or it is read first.
WriteCors == IF tf.rev = Nil THEN "revision" ELSE "cors"

\* Mutated form of RulesFirst: the visibility always comes first.
RulesNeverFirst(w) == FALSE

\* Public to private writes the rules first, any other change the visibility.
RulesFirst(w) == tf.public /\ ~w.public

FirstWrite(w) ==
  IF CorsChanges(w) /\ (RulesFirst(w) \/ tf.public = w.public)
  THEN WriteCors ELSE "visibility"

StartUpdate(w) ==
  /\ tf.there /\ ~tf.tainted /\ Allowed(w.public, w.rules) /\ Apply
  /\ w # [public |-> tf.public, rules |-> tf.rules]
  /\ Begin("update", FirstWrite(w), w, FromState(w))
  /\ expected' = tf.rev /\ UNCHANGED <<tf, calm>>

StartDelete ==
  /\ tf.there /\ Apply
  /\ Begin("delete", "delete", NoPlan, NoModel) /\ UNCHANGED <<tf, expected, calm>>

Refresh ==
  /\ tf.there /\ Begin("read", "read", NoPlan, NoModel)
  /\ UNCHANGED <<tf, expected, calm, ops>>

\* ImportStatePassthroughID, then Read.
Import ==
  /\ ~tf.there /\ There /\ Begin("read", "read", NoPlan, NoModel)
  /\ tf' = [NoState EXCEPT !.there = TRUE] /\ calm' = FALSE /\ UNCHANGED <<expected, ops>>

Untaint ==
  /\ pc = "idle" /\ tf.tainted /\ tf' = [tf EXCEPT !.tainted = FALSE]
  /\ UNCHANGED <<bucket, handler, outcome, claimed, calm, budget>>

-----------------------------------------------------------------------------
(* Create and Update.                                                      *)

\* The running handler has yet to change anything.
Unbegun ==
  \/ pc \in {"read", "delete"}
  \/ /\ op = "update" /\ pc \in {"revision", "cors", "visibility"}
     /\ pc = "visibility" <=> FirstWrite(want) = "visibility"

\* An error before the state is written: it stays what it was, and tells what the
\* bucket is as well as before if nothing of it was changed.
Fail ==
  /\ Finish("error") /\ UNCHANGED tf
  /\ calm' = (calm /\ Unbegun /\ bucket' = bucket)

NewBucket == [status |-> "creating", public |-> plan.public, rules |-> NoRules,
              rev |-> bucket.rev + 1]

\* The answer of the POST is written to the state before the wait.
Post ==
  /\ pc = "post" /\ ~There /\ bucket' = NewBucket
  /\ tf' = [NoState EXCEPT !.there = TRUE, !.tainted = TRUE,
                            !.public = plan.public, !.rules = plan.rules]
  /\ pc' = "poll" /\ calm' = TRUE
  /\ UNCHANGED <<op, want, plan, expected, seen, outcome, claimed, budget>>

PostLost == pc = "post" /\ ~There /\ Failures /\ bucket' = NewBucket /\ Fail
PostRefused == pc = "post" /\ (There \/ Failures) /\ UNCHANGED bucket /\ Fail

Poll ==
  /\ pc = "poll" /\ bucket.status = "active" /\ Go("fetch", plan)
  /\ UNCHANGED <<bucket, expected, seen, calm>>

\* `error`, a 404, a failed GET or the deadline.
PollFails ==
  /\ pc = "poll" /\ (bucket.status # "active" \/ Failures) /\ UNCHANGED bucket /\ Fail

\* The GET after the wait of a create, or after the writes of an update.
Fetch ==
  /\ pc = "fetch" /\ There
  /\ Go(IF op = "create" /\ plan.rules # NoRules THEN "revision" ELSE "credentials",
        [plan EXCEPT !.public = bucket.public, !.active = bucket.status = "active"])
  /\ UNCHANGED <<bucket, expected, seen, calm>>

FetchFails == pc = "fetch" /\ (~There \/ Failures) /\ UNCHANGED bucket /\ Fail

Answers == bucket.status = "active"

AfterVisibility == IF CorsChanges(want) /\ ~RulesFirst(want) THEN WriteCors ELSE "fetch"
Visibility ==
  /\ pc = "visibility" /\ Answers /\ Allowed(want.public, bucket.rules)
  /\ bucket' = [bucket EXCEPT !.public = want.public]
  /\ Go(AfterVisibility, plan) /\ UNCHANGED <<expected, seen, calm>>

VisibilityFails ==
  /\ pc = "visibility"
  /\ \/ (Failures \/ ~Answers \/ ~Allowed(want.public, bucket.rules)) /\ UNCHANGED bucket
     \/ /\ Failures /\ Answers /\ Allowed(want.public, bucket.rules)
        /\ bucket' = [bucket EXCEPT !.public = want.public]
  /\ Fail

-----------------------------------------------------------------------------
(* writeCors, and what its callers make of the result.                     *)

AfterCors == IF op = "create" THEN "credentials"
             ELSE IF RulesFirst(want) THEN "visibility" ELSE "fetch"

\* Mutated form of Written: an update keeps the revision it has sent.
WrittenStale(rev) ==
  /\ Go(AfterCors, [plan EXCEPT !.rev = IF op = "update" THEN tf.rev ELSE rev])
  /\ UNCHANGED <<expected, seen, calm>>

Written(rev) ==
  /\ Go(AfterCors, [plan EXCEPT !.rev = rev]) /\ UNCHANGED <<expected, seen, calm>>

\* Mutated form of NotWritten: the block list becomes null, not empty.
NotWrittenNull(unanswered) ==
  IF op = "create"
  THEN /\ Go("credentials", [plan EXCEPT !.rules = Nil, !.rev = Nil])
       /\ calm' = (calm /\ ~unanswered) /\ UNCHANGED <<expected, seen>>
  ELSE Fail

\* Mutated form of NotWritten: a create reports the rules it could not write.
NotWrittenHidden(unanswered) ==
  IF op = "create"
  THEN /\ Go("credentials", plan)
       /\ calm' = (calm /\ ~unanswered) /\ UNCHANGED <<expected, seen>>
  ELSE Fail

\* applyCorsOnCreate empties the rules and warns; Update fails.
NotWritten(unanswered) ==
  IF op = "create"
  THEN /\ Go("credentials", [plan EXCEPT !.rules = NoRules, !.rev = Nil])
       /\ calm' = (calm /\ ~unanswered) /\ UNCHANGED <<expected, seen>>
  ELSE Fail

\* Nothing to delete when the status is `none`.
ReadRevision ==
  /\ pc = "revision" /\ There /\ UNCHANGED bucket
  /\ \/ /\ Go("cors", plan) /\ expected' = bucket.rev /\ seen' = bucket.rules
        /\ UNCHANGED calm
     \/ plan.rules = NoRules /\ bucket.rules = NoRules /\ Written(Nil)

RevisionFails ==
  /\ pc = "revision" /\ (~There \/ Failures) /\ UNCHANGED bucket /\ NotWritten(FALSE)

\* The platform refuses a write that expects another revision.
Accepts == Answers /\ Allowed(bucket.public, plan.rules) /\ expected = bucket.rev
NewRules == [bucket EXCEPT !.rules = plan.rules, !.rev = bucket.rev + 1]

\* PUT answers the new revision; after DELETE there is none to record.
PutCors ==
  /\ pc = "cors" /\ plan.rules # NoRules /\ Accepts /\ bucket' = NewRules
  /\ Written(bucket.rev + 1)
DeleteCors ==
  /\ pc = "cors" /\ plan.rules = NoRules /\ Accepts /\ bucket' = NewRules
  /\ Written(Nil)
CorsRefused == pc = "cors" /\ (~Accepts \/ Failures) /\ UNCHANGED bucket /\ NotWritten(FALSE)
CorsLost == pc = "cors" /\ Accepts /\ Failures /\ bucket' = NewRules /\ NotWritten(TRUE)

-----------------------------------------------------------------------------
(* Read, and the credentials that end every handler but Delete.            *)

ReadGone == pc = "read" /\ ~There /\ Forget

ReadDeleting ==
  /\ pc = "read" /\ bucket.status = "deleting"
  /\ Finish("ok") /\ calm' = FALSE /\ UNCHANGED <<bucket, tf>>

Manages == tf.rules # NoRules

\* Mutated form of Read: the rules are read whether or not they are managed.
ReadAll ==
  /\ pc = "read" /\ bucket.status \in {"creating", "active", "error"}
  /\ Go("readcors",
        [FromState(tf) EXCEPT !.public = bucket.public, !.active = bucket.status = "active"])
  /\ calm' = TRUE /\ UNCHANGED <<bucket, expected, seen>>

Read ==
  /\ pc = "read" /\ bucket.status \in {"creating", "active", "error"}
  /\ Go(IF Manages THEN "readcors" ELSE "credentials",
        [FromState(tf) EXCEPT !.public = bucket.public, !.active = bucket.status = "active",
                              !.rev = Nil])
  /\ calm' = TRUE /\ UNCHANGED <<bucket, expected, seen>>

ReadCors ==
  /\ pc = "readcors" /\ There
  /\ Go("credentials", [plan EXCEPT !.rules = bucket.rules, !.rev = bucket.rev])
  /\ UNCHANGED <<bucket, expected, seen, calm>>

ReadFails ==
  /\ pc \in {"read", "readcors"} /\ (Failures \/ (pc = "readcors" /\ ~There))
  /\ UNCHANGED bucket /\ Fail

\* Mutated form of Unreadable: they are blanked whoever asked.
UnreadableBlanks == "null"

\* Keys that cannot be read: Create writes null, the others keep what there was.
Unreadable == IF op = "create" THEN "null" ELSE plan.keys

\* credentialsWorthRefreshing: a Read does not ask when the state holds none.
AsksForKeys == plan.active /\ (op # "read" \/ tf.keys)

Credentials ==
  /\ pc = "credentials" /\ AsksForKeys
  /\ \/ Answers /\ Save([plan EXCEPT !.keys = "known"])
     \/ (~Answers \/ Failures) /\ Save([plan EXCEPT !.keys = Unreadable])

NoCredentials == pc = "credentials" /\ ~AsksForKeys /\ Save(plan)

-----------------------------------------------------------------------------
(* Delete.                                                                 *)

DeleteMissing == pc = "delete" /\ ~There /\ Forget
Delete ==
  /\ pc = "delete" /\ There /\ bucket' = [bucket EXCEPT !.status = "deleting"]
  /\ Go("gone", plan) /\ UNCHANGED <<expected, seen, calm>>
DeleteFails ==
  /\ pc = "delete" /\ There
  /\ \/ UNCHANGED bucket
     \/ Failures /\ bucket' = [bucket EXCEPT !.status = "deleting"]
  /\ Fail

\* Gone, or a warning at the deadline: forgotten in any case.
Gone == pc = "gone" /\ Forget

-----------------------------------------------------------------------------
(* The platform on its own, and everybody else.                            *)

Provision ==
  /\ bucket.status = "creating"
  /\ \E status \in {"active", "error"} : bucket' = [bucket EXCEPT !.status = status]
  /\ UNCHANGED <<tf, handler, outcome, claimed, calm, budget>>

Vanish ==
  /\ bucket.status = "deleting"
  /\ bucket' = [bucket EXCEPT !.status = "absent", !.rules = NoRules, !.public = FALSE]
  /\ UNCHANGED <<tf, handler, outcome, claimed, calm, budget>>

Outside ==
  /\ ext > 0 /\ ext' = ext - 1 /\ calm' = FALSE
  /\ UNCHANGED <<tf, handler, outcome, claimed, ops>>

OutsideRules ==
  /\ Answers /\ Outside
  /\ \E rules \in Rules \ {bucket.rules} :
       /\ Allowed(bucket.public, rules)
       /\ bucket' = [bucket EXCEPT !.rules = rules, !.rev = bucket.rev + 1]

OutsideVisibility ==
  /\ Answers /\ Outside /\ Allowed(~bucket.public, bucket.rules)
  /\ bucket' = [bucket EXCEPT !.public = ~bucket.public]

OutsideDelete ==
  /\ There /\ bucket.status # "deleting" /\ Outside
  /\ bucket' = [bucket EXCEPT !.status = "deleting"]

-----------------------------------------------------------------------------

Start ==
  \/ \E w \in Plans : StartCreate(w) \/ StartUpdate(w)
  \/ StartDelete \/ Refresh \/ Import \/ Untaint

Proceed ==
  \/ Post \/ PostLost \/ PostRefused \/ Poll \/ PollFails \/ Fetch \/ FetchFails
  \/ Visibility \/ VisibilityFails
  \/ ReadRevision \/ RevisionFails \/ PutCors \/ DeleteCors \/ CorsRefused \/ CorsLost
  \/ ReadGone \/ ReadDeleting \/ Read \/ ReadCors \/ ReadFails
  \/ Credentials \/ NoCredentials
  \/ DeleteMissing \/ Delete \/ DeleteFails \/ Gone

Platform == Provision \/ Vanish \/ OutsideRules \/ OutsideVisibility \/ OutsideDelete

Quiet == pc = "idle" /\ UNCHANGED vars   \* nothing left to apply

Next == Start \/ Proceed \/ Platform \/ Quiet
Spec == Init /\ [][Next]_vars

-----------------------------------------------------------------------------
(* Properties.                                                             *)

\* A handler, and nobody else, changes the rules in this step.
WritesCors == pc = "cors" /\ pc' # "cors" /\ bucket'.rules # bucket.rules

\* The rules a write of this provider replaces are those it was planned
\* against: the ones in the state when that records a revision, otherwise the
\* ones read just before, however the calls of others fall in between
\* (cors.go:351-357).
NothingOverwritten ==
  [][ WritesCors => bucket.rules = IF tf.rev # Nil THEN tf.rules ELSE seen ]_vars

\* A bucket whose configuration never had a cors_rule block keeps its rules,
\* after an import, a refresh or an unrelated update (objectbucket.go:515-519).
UnmanagedUntouched == [][ WritesCors => claimed ]_vars

\* As long as only answered calls of handlers that run to their end change the
\* bucket, the state is true, refused handlers in between included: its
\* visibility, and the rules it manages with their revision, so that the next
\* plan shows what is left to do and the next write is accepted.
StateTrue ==
  pc = "idle" /\ calm /\ tf.there =>
    /\ tf.public = bucket.public
    /\ tf.rules # NoRules => tf.rules = bucket.rules /\ tf.rev = bucket.rev

\* Then no update is refused halfway either: whichever of the rules and the
\* visibility goes first, the other one is allowed after it
\* (objectbucket.go:486-489).
NeverRefused ==
  calm /\ Answers =>
    /\ pc = "cors" => Accepts
    /\ pc = "visibility" /\ Manages => Allowed(want.public, bucket.rules)

\* Keys in the state stay there until the bucket is gone: a refused or skipped
\* read of the credentials never blanks them (objectbucket.go:577-579).
KeysKept == [][ tf.keys /\ tf'.there => tf'.keys ]_vars

\* cors.go:411-413: a refusal of the rules "must NOT be returned as an error:
\* Terraform would mark the whole resource tainted and the next apply would
\* destroy and recreate the bucket".
RefusalDoesNotTaint ==
  [][ op = "create" /\ pc = "credentials" /\ plan.active /\ plan.rules # want.rules
        /\ plan.public = want.public
        => ~tf'.tainted ]_tf
=============================================================================
