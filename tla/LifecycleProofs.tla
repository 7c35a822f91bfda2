---------------------------- MODULE LifecycleProofs ----------------------------
(***************************************************************************)
(* The handlers of every type in ResourceLifecycle keep the promise of     *)
(* ManagedObject, delete what they say they deleted, apply what they say   *)
(* they applied, and neither write into the state too early nor forget nor *)
(* falsify what no GET shows, for any number of handlers, refusals, lost   *)
(* answers and outside events.  Of the programs the proofs use             *)
(* HandlersAssumption only, so that they hold for any other type whose     *)
(* programs follow those rules.                                            *)
(***************************************************************************)
EXTENDS ResourceLifecycle, SequenceTheorems, TLAPS

-----------------------------------------------------------------------------
(* Programs and courses.                                                   *)

\* What Terraform starts is a course of the handler.
LEMMA ApplicableIsCourse ==
  ASSUME NEW programs, NEW c \in DOMAIN programs, NEW program \in programs[c], NEW p
  PROVE  Applicable(program, p) \in Courses(programs)
<1> DEFINE H == {z \in Conditions(program) :
                   z[3] = (z[2] \in IF z[1] = "plan" THEN SetIn(p) ELSE SetIn(tf.value))}
<1>1. H \in SUBSET Conditions(program) /\ Applicable(program, p) = Chosen(program, H)
  BY DEF Applicable, Course
<1> HIDE DEF H
<1>2. QED
  BY <1>1 DEF Courses

LEMMA StartsCourse ==
  ASSUME kind \in Kinds
  PROVE  /\ StartCreate => todo' \in Courses(R.create)
         /\ StartUpdate => todo' \in Courses(R.update)
         /\ StartDelete => todo' \in Courses(R.delete)
<1>1. DOMAIN R.create = SUBSET Attrs /\ DOMAIN R.delete = SUBSET Attrs
  BY HandlersAssumption DEF WellFormed, R, Attrs
<1>2. \A x : SetIn(x) \in SUBSET Attrs
  BY DEF SetIn
<1>3. StartCreate => todo' \in Courses(R.create)
  BY <1>1, <1>2, ApplicableIsCourse DEF StartCreate, Start
<1>4. StartUpdate => todo' \in Courses(R.update)
  BY ApplicableIsCourse DEF StartUpdate, Start
<1>5. StartDelete => todo' \in Courses(R.delete)
  BY <1>1, <1>2, ApplicableIsCourse DEF StartDelete, Start
<1>6. QED
  BY <1>3, <1>4, <1>5

StepsOfR == StepsOn(Attrs)

LEMMA CoursesTyped ==
  ASSUME kind \in Kinds
  PROVE  Courses(R.create) \union Courses(R.update) \union Courses(R.delete) \subseteq Seq(StepsOfR)
BY HandlersAssumption DEF WellFormed, R, Attrs, StepsOfR

\* The steps that are left after the first.
LEMMA Rest ==
  ASSUME NEW S, NEW q \in Seq(S), q # << >>
  PROVE  /\ Head(q) \in S /\ Head(q) = q[1] /\ 1 \in DOMAIN q
         /\ Tail(q) \in Seq(S)
         /\ \A i \in DOMAIN Tail(q) : i + 1 \in DOMAIN q /\ Tail(q)[i] = q[i + 1]
         /\ \A i \in DOMAIN q : i = 1 \/ (i - 1 \in DOMAIN Tail(q) /\ Tail(q)[i - 1] = q[i])
<1>1. /\ Head(q) \in S /\ Tail(q) \in Seq(S) /\ Len(Tail(q)) = Len(q) - 1
      /\ \A i \in 1..Len(Tail(q)) : Tail(q)[i] = q[i + 1]
  BY HeadTailProperties
<1>2. Len(q) \in Nat /\ Len(q) # 0 /\ DOMAIN q = 1..Len(q) /\ DOMAIN Tail(q) = 1..Len(Tail(q))
  BY <1>1, EmptySeq, LenProperties
<1>3. QED
  BY <1>1, <1>2

\* The steps that are left, or none.
LEMMA PreservesRest ==
  ASSUME NEW S, NEW q \in Seq(S), q # << >>, Preserves(q)
  PROVE  Preserves(Tail(q)) /\ q[1].call \notin {"post", "delete"}
BY Rest DEF Preserves, Uses

LEMMA SavedRest ==
  ASSUME NEW S, NEW q \in Seq(S), q # << >>, SurelySaved(q)
  PROVE  \/ q[1].save # "no" \/ q[1].call = "record"
         \/ SurelySaved(Tail(q)) /\ q[1].call \notin {"refuse", "let go"} /\ q[1].fail \in {"record", "skip"}
<1> SUFFICES ASSUME q[1].save = "no", q[1].call # "record"
             PROVE  SurelySaved(Tail(q)) /\ q[1].call \notin {"refuse", "let go"} /\ q[1].fail \in {"record", "skip"}
  OBVIOUS
<1>1. PICK n \in DOMAIN q :
        /\ q[n].save # "no" \/ q[n].call = "record"
        /\ \A i \in 1..n : \/ q[i].call = "record"
                           \/ q[i].call \notin {"refuse", "let go"} /\ q[i].fail \in {"record", "skip"}
  BY DEF SurelySaved
<1>2. n \in Nat /\ n > 1 /\ n - 1 \in DOMAIN Tail(q) /\ Tail(q)[n - 1] = q[n]
  <2>1. n \in 1..Len(q) /\ Len(q) \in Nat
    BY LenProperties
  <2>2. n # 1
    BY <1>1
  <2>3. QED
    BY <2>1, <2>2, Rest
<1>3. \A i \in 1..(n - 1) : Tail(q)[i] = q[i + 1] /\ i + 1 \in 1..n
  <2>1. Tail(q) \in Seq(S)
    BY Rest
  <2>2. DOMAIN Tail(q) = 1..Len(Tail(q)) /\ Len(Tail(q)) \in Nat
    BY <2>1, LenProperties
  <2>3. QED
    BY <1>2, <2>2, Rest
<1>4. \A i \in 1..(n - 1) : \/ Tail(q)[i].call = "record"
                            \/ Tail(q)[i].call \notin {"refuse", "let go"} /\ Tail(q)[i].fail \in {"record", "skip"}
  BY <1>1, <1>2, <1>3
<1>5. SurelySaved(Tail(q))
  BY <1>1, <1>2, <1>4 DEF SurelySaved
<1>6. q[1].call \notin {"refuse", "let go"} /\ q[1].fail \in {"record", "skip"}
  <2>1. 1 \in 1..n
    BY <1>2
  <2>2. QED
    BY <1>1, <2>1
<1>7. QED
  BY <1>5, <1>6

-----------------------------------------------------------------------------
(* Types.                                                                  *)

TypeInv == TypeOK /\ todo \in Seq(StepsOfR)

States == [there : BOOLEAN, tainted : BOOLEAN, value : [Attrs -> 0..2 \union {Forgotten}]]
StateOK(x) ==
  /\ x \in States
  /\ x.tainted => x.there
  /\ {a \in Attrs : x.value[a] = Forgotten} \subseteq R.unread
LateOK(w) == w[1] \in R.queued /\ w[2] \in Levels(w[1])
PlatformOK ==
  /\ status \in {"absent", "pending", "active", "broken", "leaving"}
  /\ value \in Values /\ \A w \in late : LateOK(w)
HandlerOK ==
  /\ plan \in Values /\ op \in {"none", "create", "update", "delete"}
  /\ phase \in {"ready", "running", "returned"} /\ outcome \in {"ok", "warned", "error"}
  /\ todo \in Seq(StepsOfR)
RestOK ==
  /\ meddled \in BOOLEAN /\ made \in BOOLEAN /\ doomed \in BOOLEAN /\ lost \in BOOLEAN /\ erred \in BOOLEAN
  /\ ops \in 0..MaxOps /\ ext \in 0..MaxExternal

LEMMA TypeParts ==
  TypeInv <=> kind \in Kinds /\ PlatformOK /\ StateOK(tf) /\ HandlerOK /\ RestOK
<1>1. ASSUME todo \in Seq(StepsOfR)
      PROVE  \A i \in DOMAIN todo : /\ todo[i].of \subseteq Attrs
                                    /\ todo[i].save \in Saves /\ todo[i].fail \in Failures
  <2>1. \A i \in DOMAIN todo : todo[i] \in StepsOfR
    BY <1>1, ElementOfSeq, LenProperties
  <2>2. QED
    BY <2>1 DEF StepsOfR, StepsOn
<1>2. QED
  BY <1>1 DEF TypeInv, TypeOK, PlatformOK, StateOK, States, LateOK, HandlerOK, RestOK

LEMMA SameKind ==
  ASSUME UNCHANGED kind
  PROVE  /\ R' = R /\ Attrs' = Attrs /\ Values' = Values /\ StepsOfR' = StepsOfR
         /\ \A w : LateOK(w)' = LateOK(w)
         /\ StateOK(tf)' = StateOK(tf')
<1>1. R' = R /\ Attrs' = Attrs
  BY DEF R, Attrs
<1>2. Values' = Values /\ StepsOfR' = StepsOfR /\ States' = States
  BY <1>1 DEF Values, Levels, StepsOfR, States
<1>3. \A w : LateOK(w)' = LateOK(w)
  BY <1>1 DEF LateOK, Levels
<1>4. QED
  BY <1>1, <1>2, <1>3 DEF StateOK

LEMMA PartsNext ==
  ASSUME UNCHANGED kind, kind \in Kinds, PlatformOK', StateOK(tf'), HandlerOK', RestOK'
  PROVE  TypeInv'
<1>1. (kind \in Kinds /\ PlatformOK /\ StateOK(tf) /\ HandlerOK /\ RestOK)' => TypeInv'
  BY TypeParts, PTL
<1>2. QED
  BY <1>1, SameKind

LEMMA BackgroundType == ASSUME kind \in Kinds PROVE R.background \in BOOLEAN
BY HandlersAssumption DEF WellFormed, R

LEMMA LevelTypes == \A a : Levels(a) \subseteq 0..2 /\ 0 \in Levels(a)
BY DEF Levels

LEMMA ValueTypes == \A x : x \in Values <=> x \in [Attrs -> 0..2] /\ \A a \in Attrs : x[a] \in Levels(a)
BY DEF Values

LEMMA InitTypes == Init => TypeInv
<1> SUFFICES ASSUME Init PROVE TypeInv
  OBVIOUS
<1>1. Unset \in Values
  BY LevelTypes, ValueTypes DEF Unset
<1>2. StateOK(NoState)
  BY DEF StateOK, States, NoState, Unset, Forgotten
<1>3. todo \in Seq(StepsOfR)
  BY EmptySeq DEF Init
<1>4. QED
  <2>1. PlatformOK
    BY <1>1 DEF Init, PlatformOK
  <2>2. HandlerOK
    BY <1>1, <1>3 DEF Init, HandlerOK
  <2>3. RestOK
    <3>1. meddled \in BOOLEAN /\ made \in BOOLEAN /\ doomed \in BOOLEAN /\ lost \in BOOLEAN /\ erred \in BOOLEAN
      BY Zenon DEF Init
    <3>2. ops \in 0..MaxOps /\ ext \in 0..MaxExternal
      BY BoundsAssumption, SMT DEF Init
    <3>3. QED
      BY <3>1, <3>2 DEF RestOK
  <2>4. QED
    BY <1>2, <2>1, <2>2, <2>3, TypeParts DEF Init

\* A State.Set takes the attributes from where it may.
LEMMA SavedTypes ==
  ASSUME NEW how \in Saves, kind \in Kinds, StateOK(tf), plan \in Values, value' \in Values
  PROVE  StateOK(Saved(how)) /\ Saved(how).there
<1>1. plan \in [Attrs -> 0..2] /\ value' \in [Attrs -> 0..2] /\ tf.value \in [Attrs -> 0..2 \union {Forgotten}]
  BY ValueTypes DEF StateOK, States
<1>2. \A a \in Attrs : Saved(how).value[a] \in 0..2 \union {Forgotten}
  BY <1>1 DEF Saved
<1>3. Saved(how).value \in [Attrs -> 0..2 \union {Forgotten}]
  BY <1>2 DEF Saved
<1>4. \A a \in Attrs : Saved(how).value[a] = Forgotten => a \in R.unread
  BY <1>1 DEF Saved, Forgotten
<1>5. QED
  BY <1>3, <1>4 DEF Saved, StateOK, States


\* What the calls do to the platform, and what they do not do.
Untouched == UNCHANGED <<platform, doomed>>
Effect == \E c \in {"post", "write", "clear", "delete"} : Calling(c) /\ Accepted(c)

LEMMA EffectTypes ==
  ASSUME TypeInv, UNCHANGED kind, Effect
  PROVE  PlatformOK' /\ doomed' \in BOOLEAN
<1>1. PICK c \in {"post", "write", "clear", "delete"} : Calling(c) /\ Accepted(c)
  BY DEF Effect
<1>2. kind \in Kinds /\ PlatformOK /\ plan \in Values /\ R.background \in BOOLEAN /\ doomed \in BOOLEAN
  BY TypeParts, BackgroundType DEF HandlerOK, RestOK
<1>3. \A a \in Attrs : plan[a] \in Levels(a) /\ Written(a) \in Levels(a) /\ value[a] \in Levels(a)
  BY <1>2, ValueTypes, LevelTypes DEF PlatformOK, Written
<1>4. \A a \in Current.of : a \in Attrs
  <2>1. Current \in StepsOfR
    BY <1>1, TypeParts, Rest DEF Calling, Current, HandlerOK
  <2>2. QED
    BY <2>1 DEF StepsOfR, StepsOn
<1>5. ASSUME NEW x \in [Attrs -> UNION {Levels(a) : a \in Attrs}], \A a \in Attrs : x[a] \in Levels(a)
      PROVE  x \in Values
  BY <1>5, ValueTypes, LevelTypes
<1>6. CASE c = "post"
  <2>1. value' \in Values
    <3>1. value' = [a \in Attrs |-> IF a \in Current.of \ R.queued THEN plan[a] ELSE 0]
      BY <1>1, <1>6 DEF Accepted
    <3>2. \A a \in Attrs : value'[a] \in Levels(a)
      BY <3>1, <1>3, LevelTypes
    <3>3. QED
      BY <3>1, <3>2, ValueTypes, LevelTypes
  <2>2. \A w \in late' : LateOK(w)
    BY <1>1, <1>3, <1>4, <1>6 DEF Accepted, LateOK
  <2>3. status' \in {"pending", "active"} /\ doomed' = FALSE
    BY <1>1, <1>6 DEF Accepted
  <2>4. QED
    BY <2>1, <2>2, <2>3, SameKind DEF PlatformOK
<1>7. CASE c \in {"write", "clear"}
  <2>1. value' \in Values
    <3>1. value' = [a \in Attrs |-> IF a \in Current.of \ R.queued THEN Written(a) ELSE value[a]]
      BY <1>1, <1>7 DEF Accepted
    <3>2. \A a \in Attrs : value'[a] \in Levels(a)
      BY <3>1, <1>3
    <3>3. QED
      BY <3>1, <3>2, ValueTypes, LevelTypes
  <2>2. \A w \in late' : LateOK(w)
    <3>1. late' = {w \in late : w[1] \notin Current.of}
                  \union {<<a, Written(a)>> : a \in Current.of \intersect R.queued}
      BY <1>1, <1>7 DEF Accepted
    <3>2. \A a \in Current.of \intersect R.queued : LateOK(<<a, Written(a)>>)
      BY <1>3, <1>4 DEF LateOK
    <3>3. \A w \in late : LateOK(w)
      BY <1>2 DEF PlatformOK
    <3>4. QED
      BY <3>1, <3>2, <3>3
  <2>3. status' \in {"pending", "active", "broken"} /\ doomed' = doomed
    BY <1>1, <1>7 DEF Accepted
  <2>4. QED
    BY <1>2, <2>1, <2>2, <2>3, SameKind DEF PlatformOK
<1>8. CASE c = "delete"
  <2>1. value' = value /\ late' = {} /\ status' \in {"leaving", "absent"} /\ doomed' \in BOOLEAN
    BY <1>1, <1>2, <1>8 DEF Accepted
  <2>2. QED
    BY <1>2, <2>1, SameKind DEF PlatformOK
<1>9. QED
  BY <1>1, <1>6, <1>7, <1>8

\* The answer to a call, the handler going on, and what ends it.
Advances(o) == todo' = Tail(todo) /\ outcome' = o
SavesSome == \E how \in Saves : tf' = Saved(how)
Stops == todo' = << >> /\ outcome' \in {"ok", "warned", "error"}

LEMMA StepForms ==
  ASSUME TypeInv, Calls
  PROVE  /\ phase = "running" /\ todo # << >> /\ Running
         /\ Effect \/ Untouched
         /\ made' \in BOOLEAN /\ lost' \in BOOLEAN
         /\ tf' = tf \/ SavesSome
         /\ todo' \in {Tail(todo), << >>} /\ outcome' \in {outcome, "warned", "error"}
<1>1. Current.save \in Saves /\ made \in BOOLEAN /\ lost \in BOOLEAN
  <2>1. todo # << >> => Current \in StepsOfR
    BY TypeParts, Rest DEF Current, HandlerOK
  <2>2. todo # << >>
    BY DEF Calls, PostAnswered, PostUnanswered, WriteAnswered, WriteUnanswered, Writes, DeleteAnswered,
           DeleteUnanswered, DeleteMissing, Seen, Fails, Records, Refuses, LetsGo, Calling
  <2>3. QED
    BY <2>1, <2>2, TypeParts DEF StepsOfR, StepsOn, RestOK
<1>2. \A o : GoOn(o) => /\ todo' = Tail(todo) /\ outcome' = o
                        /\ tf' = tf \/ SavesSome
  BY <1>1 DEF GoOn, SavesSome
<1>3. Failed => /\ todo' \in {Tail(todo), << >>} /\ outcome' \in {"warned", "error"}
                /\ tf' = tf \/ SavesSome
  BY <1>2 DEF Failed, SavesSome, Saves
<1>4. CASE PostAnswered
  BY <1>1, <1>2, <1>4 DEF PostAnswered, Answered, Effect, Calling
<1>5. CASE PostUnanswered
  BY <1>1, <1>3, <1>5 DEF PostUnanswered, Effect, Calling
<1>6. CASE WriteAnswered
  BY <1>1, <1>2, <1>6 DEF WriteAnswered, Writes, Answered, Effect, Calling
<1>7. CASE WriteUnanswered
  BY <1>1, <1>3, <1>7 DEF WriteUnanswered, Writes, Effect, Calling
<1>8. CASE DeleteAnswered
  BY <1>1, <1>2, <1>8 DEF DeleteAnswered, Answered, Effect, Calling
<1>9. CASE DeleteUnanswered
  BY <1>1, <1>3, <1>9 DEF DeleteUnanswered, Effect, Calling
<1>10. CASE DeleteMissing
  BY <1>1, <1>10 DEF DeleteMissing, Untouched, Calling
<1>11. CASE Seen
  BY <1>1, <1>2, <1>11 DEF Seen, Answered, Untouched, Calling
<1>12. CASE Fails
  BY <1>1, <1>3, <1>12 DEF Fails, Untouched, Calling
<1>13. CASE Records
  BY <1>1, <1>13 DEF Records, Untouched, Calling, SavesSome, Saves
<1>14. CASE Refuses
  BY <1>1, <1>14 DEF Refuses, Untouched, Calling
<1>15. CASE LetsGo
  BY <1>1, <1>15 DEF LetsGo, Untouched, Calling
<1>16. QED
  BY <1>4, <1>5, <1>6, <1>7, <1>8, <1>9, <1>10, <1>11, <1>12, <1>13, <1>14, <1>15 DEF Calls

LEMMA CallTypes == ASSUME TypeInv, Calls PROVE TypeInv'
<1>1. UNCHANGED <<kind, plan, op, phase, meddled, erred, ops, ext>>
  BY StepForms DEF Running, bounds
<1>2. PlatformOK' /\ doomed' \in BOOLEAN
  <2>1. CASE Effect
    BY <2>1, <1>1, EffectTypes
  <2>2. CASE Untouched
    BY <2>2, <1>1, SameKind, TypeParts DEF Untouched, platform, PlatformOK, RestOK
  <2>3. QED
    BY <2>1, <2>2, StepForms
<1>3. StateOK(tf')
  <2>1. CASE tf' = tf
    BY <2>1, TypeParts
  <2>2. CASE SavesSome
    <3>1. PICK how \in Saves : tf' = Saved(how)
      BY <2>2 DEF SavesSome
    <3>2. value' \in Values /\ kind \in Kinds /\ StateOK(tf) /\ plan \in Values
      BY <1>1, <1>2, SameKind, TypeParts DEF PlatformOK, HandlerOK
    <3>3. QED
      BY <3>1, <3>2, SavedTypes
  <2>3. QED
    BY <2>1, <2>2, StepForms
<1>4. HandlerOK'
  <2>1. todo' \in Seq(StepsOfR)
    BY StepForms, TypeParts, Rest, EmptySeq DEF HandlerOK
  <2>2. outcome' \in {"ok", "warned", "error"}
    BY StepForms, TypeParts DEF HandlerOK
  <2>3. QED
    BY <1>1, <2>1, <2>2, SameKind, TypeParts DEF HandlerOK
<1>5. RestOK'
  BY <1>1, <1>2, StepForms, TypeParts DEF RestOK
<1>6. QED
  BY <1>1, <1>2, <1>3, <1>4, <1>5, PartsNext, TypeParts

LEMMA TerraformTypes == ASSUME TypeInv, Terraform PROVE TypeInv'
<1>1. kind \in Kinds /\ PlatformOK /\ StateOK(tf) /\ HandlerOK /\ RestOK /\ Unset \in Values
  BY TypeParts, LevelTypes, ValueTypes DEF Unset
<1>2. ASSUME NEW o \in {"create", "update", "delete"}, NEW p \in Values, NEW program,
             Start(o, p, program), todo' \in Seq(StepsOfR)
      PROVE  TypeInv'
  <2>1. UNCHANGED <<kind, platform, tf, made, doomed, lost, ext>>
    BY <1>2 DEF Start
  <2>2. HandlerOK' /\ RestOK'
    BY <1>1, <1>2, <2>1, SameKind, BoundsAssumption DEF Start, HandlerOK, RestOK
  <2>3. PlatformOK' /\ StateOK(tf')
    BY <1>1, <2>1, SameKind DEF PlatformOK, platform
  <2>4. QED
    BY <1>1, <2>1, <2>2, <2>3, SameKind, PartsNext
<1>3. CASE StartCreate \/ StartUpdate \/ StartDelete
  <2>1. todo' \in Seq(StepsOfR)
    BY <1>1, <1>3, StartsCourse, CoursesTyped
  <2>2. QED
    BY <1>1, <1>2, <1>3, <2>1 DEF Plannable, StartCreate, StartUpdate, StartDelete
<1>4. CASE Return
  <2>1. UNCHANGED <<kind, platform, plan, op, todo, outcome, meddled, doomed, lost, bounds>>
        /\ phase' = "returned" /\ made' = FALSE /\ erred' \in BOOLEAN
    BY <1>4 DEF Return
  <2>2. tf' \in {NoState, tf, [tf EXCEPT !.tainted = tf.there]}
    BY <1>4 DEF Return
  <2>3. StateOK(NoState) /\ StateOK([tf EXCEPT !.tainted = tf.there])
    BY <1>1 DEF StateOK, States, NoState, Unset, Forgotten
  <2>4. QED
    BY <1>1, <2>1, <2>2, <2>3, SameKind, PartsNext DEF PlatformOK, HandlerOK, RestOK, platform, bounds
<1>5. CASE Refresh
  <2>1. /\ UNCHANGED <<kind, platform, todo, made, doomed, lost, bounds>> /\ erred' \in BOOLEAN
        /\ plan' = Unset /\ phase' = "ready" /\ op' = "none" /\ outcome' = "ok" /\ meddled' = FALSE
    BY <1>5 DEF Refresh
  <2>2. StateOK(tf')
    <3>1. StateOK(NoState)
      BY DEF StateOK, States, NoState, Unset, Forgotten
    <3>2. ASSUME tf' = [tf EXCEPT !.value = [a \in Attrs |->
                   IF a \in R.unread \/ (a \in R.optional /\ tf.value[a] = 0)
                   THEN tf.value[a] ELSE value[a]]]
          PROVE  StateOK(tf')
      <4>1. value \in [Attrs -> 0..2] /\ tf.value \in [Attrs -> 0..2 \union {Forgotten}]
        BY <1>1, ValueTypes DEF StateOK, States, PlatformOK
      <4>2. tf'.value \in [Attrs -> 0..2 \union {Forgotten}] /\ tf'.there = tf.there /\ tf'.tainted = tf.tainted
            /\ tf' \in States
        BY <1>1, <3>2, <4>1 DEF StateOK, States
      <4>3. \A a \in Attrs : tf'.value[a] = Forgotten => a \in R.unread
        BY <1>1, <3>2, <4>1 DEF StateOK, States, Forgotten
      <4>4. QED
        BY <1>1, <4>2, <4>3 DEF StateOK
    <3>3. QED
      BY <1>1, <1>5, <3>1, <3>2 DEF Refresh
  <2>3. QED
    BY <1>1, <2>1, <2>2, SameKind, PartsNext DEF PlatformOK, HandlerOK, RestOK, platform, bounds
<1>6. CASE Import
  <2>1. UNCHANGED <<kind, platform, handler, history, ext>> /\ ops < MaxOps /\ ops' = ops + 1
    BY <1>6 DEF Import
  <2>2. StateOK(tf')
    <3>1. value \in [Attrs -> 0..2]
      BY <1>1, ValueTypes DEF PlatformOK
    <3>2. tf' = [there |-> TRUE, tainted |-> FALSE, value |-> [a \in Attrs |->
              IF a \in R.unread THEN Forgotten ELSE IF a \in R.optional THEN 0 ELSE value[a]]]
      BY <1>6 DEF Import
    <3>3. tf' \in States
      BY <3>1, <3>2 DEF States
    <3>4. \A a \in Attrs : tf'.value[a] = Forgotten => a \in R.unread
      BY <3>1, <3>2 DEF Forgotten
    <3>5. QED
      BY <3>2, <3>3, <3>4 DEF StateOK
  <2>3. ops' \in 0..MaxOps
    BY <1>1, <2>1, BoundsAssumption DEF RestOK
  <2>4. QED
    BY <1>1, <2>1, <2>2, <2>3, SameKind, PartsNext DEF PlatformOK, HandlerOK, RestOK, platform, handler, history
<1>7. QED
  BY <1>3, <1>4, <1>5, <1>6 DEF Terraform

LEMMA OtherTypes == ASSUME TypeInv, Others PROVE TypeInv'
<1>1. kind \in Kinds /\ PlatformOK /\ StateOK(tf) /\ HandlerOK /\ RestOK /\ R.background \in BOOLEAN
  BY TypeParts, BackgroundType
<1>2. UNCHANGED <<kind, tf, handler, made, lost, erred, ops>>
  BY DEF Others, Elsewhere, Settle, Vanish, Land, ProvisionFails, OutsideChange, OutsideDelete
<1>3. value' \in Values
  <2>1. ASSUME NEW a, NEW x, a \in Attrs => x \in Levels(a), value' = [value EXCEPT ![a] = x]
        PROVE  value' \in Values
    <3>1. value \in [Attrs -> 0..2] /\ \A b \in Attrs : value[b] \in Levels(b)
      BY <1>1, ValueTypes DEF PlatformOK
    <3>2. value' \in [Attrs -> 0..2] /\ \A b \in Attrs : value'[b] \in Levels(b)
      BY <2>1, <3>1, LevelTypes
    <3>3. QED
      BY <3>2, ValueTypes
  <2>2. CASE Land
    BY <1>1, <2>1, <2>2 DEF Land, PlatformOK, LateOK
  <2>3. CASE OutsideChange
    BY <1>1, <2>1, <2>3 DEF OutsideChange
  <2>4. CASE UNCHANGED value
    BY <1>1, <2>4 DEF PlatformOK
  <2>5. QED
    BY <2>2, <2>3, <2>4 DEF Others, Settle, Vanish, ProvisionFails, OutsideDelete
<1>4. PlatformOK'
  <2>1. status' \in {"absent", "pending", "active", "broken", "leaving"}
    BY <1>1 DEF Others, Settle, Vanish, Land, ProvisionFails, OutsideChange, OutsideDelete, PlatformOK
  <2>2. late' \subseteq late
    BY DEF Others, Settle, Vanish, Land, ProvisionFails, OutsideChange, OutsideDelete
  <2>3. QED
    BY <1>1, <1>2, <1>3, <2>1, <2>2, SameKind DEF PlatformOK
<1>5. RestOK'
  <2>1. meddled' \in BOOLEAN /\ doomed' \in BOOLEAN
    BY <1>1 DEF Others, Settle, Vanish, Land, ProvisionFails, OutsideChange, OutsideDelete, RestOK
  <2>2. ext' = ext \/ (ext < MaxExternal /\ ext' = ext + 1)
    BY DEF Others, Settle, Vanish, Land, ProvisionFails, OutsideChange, OutsideDelete
  <2>3. ext' \in 0..MaxExternal
    BY <1>1, <2>2, BoundsAssumption DEF RestOK
  <2>4. QED
    BY <1>1, <1>2, <2>1, <2>3 DEF RestOK
<1>6. QED
  BY <1>1, <1>2, <1>4, <1>5, SameKind, PartsNext DEF HandlerOK, handler

LEMMA TypeStep == TypeInv /\ [Next]_vars => TypeInv'
<1>1. ASSUME TypeInv, UNCHANGED vars PROVE TypeInv'
  <2>1. UNCHANGED <<kind, status, value, late, tf, plan, op, phase, todo, outcome, meddled, made, doomed, lost, erred, ops, ext>>
    BY <1>1 DEF vars, platform, handler, history, bounds
  <2>2. QED
    BY <1>1, <2>1, SameKind, PartsNext, TypeParts DEF PlatformOK, HandlerOK, RestOK
<1>2. QED
  BY <1>1, CallTypes, TerraformTypes, OtherTypes DEF Next

\* Every variable keeps its type, and the state holds what can be read of every
\* object: what it has lost is among the attributes that no GET shows.
THEOREM TypeCorrect == Spec => []TypeOK
<1>1. TypeInv => TypeOK
  BY DEF TypeInv
<1>2. QED
  BY <1>1, InitTypes, TypeStep, PTL DEF Spec

-----------------------------------------------------------------------------
(* Which steps are taken, and how far.                                     *)

LEMMA UsesRest ==
  ASSUME NEW S, NEW q \in Seq(S), q # << >>, NEW c
  PROVE  Uses(q, c) <=> q[1].call = c \/ Uses(Tail(q), c)
<1>1. ASSUME NEW i \in DOMAIN q, q[i].call = c PROVE q[1].call = c \/ Uses(Tail(q), c)
  BY <1>1, Rest DEF Uses
<1>2. ASSUME NEW i \in DOMAIN Tail(q), Tail(q)[i].call = c PROVE Uses(q, c)
  BY <1>2, Rest DEF Uses
<1>3. q[1].call = c => Uses(q, c)
  BY Rest DEF Uses
<1>4. QED
  BY <1>1, <1>2, <1>3 DEF Uses

LEMMA UsesNone == \A c : ~Uses(<< >>, c)
BY DEF Uses

LEMMA DeletesOnlyRest ==
  ASSUME NEW S, NEW q \in Seq(S), q # << >>, DeletesOnly(q)
  PROVE  DeletesOnly(Tail(q)) /\ q[1].call # "post" /\ (q[1].call = "delete" => q[1].fail = "stop")
BY Rest, UsesRest DEF DeletesOnly

LEMMA EmptyRules == Preserves(<< >>) /\ DeletesOnly(<< >>) /\ ~SurelySaved(<< >>)
BY DEF Preserves, DeletesOnly, SurelySaved, Uses

LEMMA TodoFacts ==
  ASSUME TypeInv, todo # << >>
  PROVE  /\ Current = todo[1] /\ \A c : Calling(c) => todo[1].call = c
         /\ todo \in Seq(StepsOfR)
BY TypeParts, Rest DEF HandlerOK, Current, Calling

\* A failed call is never a success.
LEMMA OkCalls ==
  ASSUME TypeInv, Calls, outcome' = "ok"
  PROVE  /\ outcome = "ok"
         /\ \/ DeleteMissing
            \/ /\ PostAnswered \/ WriteAnswered \/ DeleteAnswered \/ Seen \/ Records \/ LetsGo
               /\ todo' = Tail(todo)
<1>1. ~Failed
  BY DEF Failed, GoOn
<1>2. ~Refuses
  BY DEF Refuses
<1>3. outcome = "ok"
  BY StepForms
<1>4. QED
  BY <1>1, <1>2, <1>3 DEF Calls, PostUnanswered, WriteUnanswered, DeleteUnanswered, Fails, PostAnswered,
     WriteAnswered, DeleteAnswered, Seen, Records, LetsGo, Answered, GoOn

\* Nothing but a POST brings an object about, and nothing but a deletion ends it.
LEMMA ExistsAfterCall ==
  ASSUME TypeInv, Calls
  PROVE  /\ ~Exists /\ todo[1].call # "post" => ~Exists' /\ doomed' = doomed
         /\ todo[1].call \notin {"post", "delete"} => Exists' = Exists /\ doomed' = doomed
<1>1. \A c : Calling(c) => todo[1].call = c
  BY StepForms, TodoFacts
<1>2. CASE Untouched
  BY <1>2 DEF Untouched, platform, Exists
<1>3. CASE Effect
  <2>1. PICK c \in {"post", "write", "clear", "delete"} : Calling(c) /\ Accepted(c)
    BY <1>3 DEF Effect
  <2>2. CASE c \in {"write", "clear"}
    BY <2>1, <2>2 DEF Accepted, Exists
  <2>3. CASE c = "delete"
    BY <1>1, <2>1, <2>3 DEF Accepted, Exists
  <2>4. CASE c = "post"
    BY <1>1, <2>1, <2>4
  <2>5. QED
    BY <2>1, <2>2, <2>3, <2>4
<1>4. QED
  BY <1>2, <1>3, StepForms

LEMMA ExistsAfterOthers == Others => (~Exists => ~Exists')
BY DEF Others, Settle, Vanish, Land, ProvisionFails, OutsideChange, OutsideDelete, Exists

-----------------------------------------------------------------------------
(* Deletions.                                                              *)

GoneInv ==
  kind \notin UnawaitedKinds /\ op = "delete" =>
    /\ phase = "running" => ~Uses(todo, "post")
    /\ phase # "ready" /\ outcome = "ok" => ~Exists \/ (phase = "running" /\ Vanishes(R, todo))

LEMMA GoneCalls == ASSUME TypeInv, GoneInv, Calls PROVE GoneInv'
<1>1. UNCHANGED <<kind, op, phase>> /\ R' = R /\ phase = "running" /\ todo # << >>
  BY StepForms, SameKind DEF Running
<1>2. SUFFICES ASSUME kind \notin UnawaitedKinds, op = "delete"
               PROVE  ~Uses(todo', "post") /\ (outcome' = "ok" => ~Exists' \/ Vanishes(R, todo'))
  BY <1>1 DEF GoneInv, Vanishes
<1>3. ~Uses(todo, "post") /\ (outcome = "ok" => ~Exists \/ Vanishes(R, todo))
  BY <1>1, <1>2 DEF GoneInv
<1>4. todo[1].call # "post" /\ ~Uses(todo', "post")
  BY <1>1, <1>3, StepForms, TodoFacts, UsesRest, UsesNone
<1>5. ASSUME outcome' = "ok" PROVE ~Exists' \/ Vanishes(R, todo')
  <2>1. CASE ~Exists
    BY <1>4, <2>1, ExistsAfterCall
  <2>2. CASE Exists
    <3>1. Vanishes(R, todo) /\ ~DeleteMissing
      BY <1>3, <1>5, <2>2, OkCalls DEF DeleteMissing
    <3>2. todo' = Tail(todo)
      BY <1>5, <3>1, OkCalls
    <3>3. todo[1].call # "gone"
      BY <1>1, <1>5, <2>2, <3>1, OkCalls, TodoFacts DEF PostAnswered, WriteAnswered, Writes, DeleteAnswered,
         Seen, Records, LetsGo
    <3>4. ASSUME ~R.background, todo[1].call = "delete" PROVE ~Exists'
      <4>1. DeleteAnswered
        BY <1>1, <1>5, <3>1, <3>4, OkCalls, TodoFacts DEF PostAnswered, WriteAnswered, Writes, Seen, Records, LetsGo
      <4>2. QED
        BY <3>4, <4>1 DEF DeleteAnswered, Accepted, Exists
    <3>5. QED
      BY <1>1, <3>1, <3>2, <3>3, <3>4, TodoFacts, UsesRest DEF Vanishes
  <2>3. QED
    BY <2>1, <2>2
<1>6. QED
  BY <1>4, <1>5

LEMMA GoneStep == TypeInv /\ GoneInv /\ [Next]_vars => GoneInv'
<1> SUFFICES ASSUME TypeInv, GoneInv, [Next]_vars PROVE GoneInv'
  OBVIOUS
<1>1. CASE Calls
  BY <1>1, GoneCalls
<1>2. CASE StartDelete
  <2>1. todo' \in Courses(R.delete) /\ kind' = kind /\ phase' = "running"
    BY <1>2, StartsCourse, TypeParts DEF StartDelete, Start
  <2>2. kind \notin UnawaitedKinds => Vanishes(R, todo') /\ ~Uses(todo', "post")
    BY <2>1, HandlersAssumption, TypeParts DEF GoneWhenDeleted, R
  <2>3. QED
    BY <2>1, <2>2, SameKind DEF GoneInv, Vanishes
<1>3. CASE StartCreate \/ StartUpdate
  BY <1>3 DEF StartCreate, StartUpdate, Start, GoneInv
<1>4. CASE Return
  <2>1. UNCHANGED <<kind, op, outcome, status>> /\ phase = "running" /\ todo = << >> /\ phase' = "returned"
    BY <1>4 DEF Return, platform
  <2>2. ~Vanishes(R, todo)
    BY <2>1, UsesNone DEF Vanishes
  <2>3. QED
    BY <2>1, <2>2 DEF GoneInv, Exists
<1>5. CASE Refresh
  BY <1>5 DEF Refresh, GoneInv
<1>6. CASE Import
  BY <1>6 DEF Import, handler, GoneInv
<1>7. CASE Others
  <2>1. UNCHANGED <<kind, handler>>
    BY <1>7 DEF Others, Elsewhere, Settle, Vanish, Land, ProvisionFails, OutsideChange, OutsideDelete
  <2>2. QED
    BY <1>7, <2>1, ExistsAfterOthers, SameKind DEF handler, GoneInv, Vanishes
<1>8. CASE UNCHANGED vars
  BY <1>8, SameKind DEF vars, platform, handler, GoneInv, Vanishes, Exists
<1>9. QED
  BY <1>1, <1>2, <1>3, <1>4, <1>5, <1>6, <1>7, <1>8 DEF Next, Terraform

\* A deletion that reports success leaves no object behind, for every type but
\* those that are documented not to wait.
THEOREM DeletionsComplete == Spec => []OkMeansGone
<1>1. Init => GoneInv
  BY DEF Init, GoneInv
<1>2. TypeInv /\ GoneInv => OkMeansGone
  BY DEF GoneInv, OkMeansGone
<1>3. QED
  BY <1>1, <1>2, InitTypes, TypeStep, GoneStep, PTL DEF Spec

-----------------------------------------------------------------------------
(* The promise.                                                            *)

Held == tf.there \/ made
Busy(o) == phase = "running" /\ op = o

\* A handler that has yet to create its object, one that has to record it, one
\* that only changes it, and one that is to delete it.
PromiseInv ==
  kind \notin LetGoKinds =>
    /\ doomed => R.background
    /\ op = "none" => phase # "running"
    /\ made => Busy("create") /\ (tf.there \/ SurelySaved(todo))
    /\ Busy("create") /\ ~made => todo = << >> \/ MakesFirst(todo)
    /\ Busy("create") /\ made => Preserves(todo)
    /\ Busy("update") => tf.there /\ Preserves(todo)
    /\ Busy("delete") => /\ tf.there /\ DeletesOnly(todo)
                         /\ IF outcome = "error" THEN todo = << >>
                            ELSE ~Exists \/ doomed \/ Uses(todo, "delete")

\* What a step means to the promise.
Stays == UNCHANGED <<Exists, Held, doomed, lost>>
Creates == ~Exists /\ Exists' /\ Held' /\ ~lost' /\ ~doomed'
Loses == ~Exists /\ Exists' /\ lost' /\ ~doomed' /\ Held' = Held
Adopts == Exists /\ ~Held /\ Exists' /\ Held' /\ UNCHANGED <<doomed, lost>>
Dooms == Exists /\ Exists' /\ doomed' /\ UNCHANGED <<Held, lost>>
Vanishing == Exists /\ ~Exists' /\ UNCHANGED <<Held, doomed, lost>>
Forgets == Held /\ (~Exists \/ doomed) /\ ~Held' /\ UNCHANGED <<Exists, doomed, lost>>
Promising == Stays \/ Creates \/ Loses \/ Adopts \/ Dooms \/ Vanishing \/ Forgets

BooleansOK == doomed \in BOOLEAN /\ lost \in BOOLEAN /\ made \in BOOLEAN /\ tf.there \in BOOLEAN

LEMMA PromisingStep ==
  ASSUME BooleansOK, BooleansOK', UNCHANGED kind, Promising \/ kind \in LetGoKinds
  PROVE  [Promise!Next]_(Promise!vars)
<1>1. CASE kind \in LetGoKinds
  BY <1>1 DEF Promised, Promise!vars
<1>2. CASE kind \notin LetGoKinds /\ Promising
  <2> DEFINE o == "object"
  <2>1. /\ \A x : Promised(x) = IF x THEN {o} ELSE {}
        /\ Promised(Exists)' = (IF Exists' THEN {o} ELSE {})
        /\ Promised(tf.there \/ made)' = (IF Held' THEN {o} ELSE {})
        /\ Promised(doomed)' = (IF doomed' THEN {o} ELSE {})
        /\ Promised(lost)' = (IF lost' THEN {o} ELSE {})
    BY <1>2 DEF Promised, Held
  <2>2. CASE Stays
    BY <2>1, <2>2 DEF Stays, Promise!vars, Held
  <2>3. CASE Creates
    <3>1. Promise!Create(o)
      BY <2>1, <2>3 DEF Creates, Promise!Create, Held
    <3>2. QED
      BY <3>1 DEF Promise!Next
  <2>4. CASE Loses
    <3>1. Promise!CreateUnanswered(o)
      BY <2>1, <2>4 DEF Loses, Promise!CreateUnanswered, Held
    <3>2. QED
      BY <3>1 DEF Promise!Next
  <2>5. CASE Adopts
    <3>1. Promise!Adopt(o)
      BY <2>1, <2>5 DEF Adopts, Promise!Adopt, Held
    <3>2. QED
      BY <3>1 DEF Promise!Next
  <2>6. CASE Dooms
    <3>1. Promise!Doom(o)
      BY <2>1, <2>6 DEF Dooms, Promise!Doom, Held
    <3>2. QED
      BY <3>1 DEF Promise!Next
  <2>7. CASE Vanishing
    <3>1. Promise!Vanish({o})
      BY <2>1, <2>7 DEF Vanishing, Promise!Vanish, Held
    <3>2. QED
      BY <3>1 DEF Promise!Next
  <2>8. CASE Forgets
    <3>1. Promise!Forget(o)
      BY <2>1, <2>8 DEF Forgets, Promise!Forget, Held
    <3>2. QED
      BY <3>1 DEF Promise!Next
  <2>9. QED
    BY <1>2, <2>2, <2>3, <2>4, <2>5, <2>6, <2>7, <2>8 DEF Promising
<1>3. QED
  BY <1>1, <1>2

LEMMA Booleans == ASSUME TypeInv PROVE BooleansOK
BY TypeParts DEF RestOK, StateOK, States, BooleansOK

\* The calls other than the POST.
LEMMA TendingCalls ==
  ASSUME TypeInv, Calls, todo[1].call # "post"
  PROVE  /\ UNCHANGED <<made, lost>>
         /\ tf' = tf \/ tf'.there
<1>1. UNCHANGED <<made, lost>>
  BY StepForms, TodoFacts DEF Calls, PostAnswered, PostUnanswered, WriteAnswered, WriteUnanswered,
     DeleteAnswered, DeleteUnanswered, DeleteMissing, Seen, Fails, Records, Refuses, LetsGo
<1>2. SavesSome => tf'.there
  BY DEF SavesSome, Saved
<1>3. QED
  BY <1>1, <1>2, StepForms

LEMMA PostCalls ==
  ASSUME TypeInv, PromiseInv, kind \notin LetGoKinds, Calls, todo[1].call = "post"
  PROVE  PromiseInv' /\ Promising
<1>1. UNCHANGED <<kind, op, phase>> /\ phase = "running" /\ todo # << >> /\ R' = R /\ todo \in Seq(StepsOfR)
  BY StepForms, SameKind, TodoFacts DEF Running
<1>2. op \in {"create", "update", "delete"}
  BY <1>1, TypeParts DEF PromiseInv, HandlerOK
<1>3. Busy("create") /\ ~made /\ MakesFirst(todo)
  <2>1. ~Preserves(todo) /\ ~DeletesOnly(todo)
    BY <1>1, UsesRest DEF Preserves, DeletesOnly
  <2>2. QED
    BY <1>1, <1>2, <2>1 DEF PromiseInv, Busy
<1>4. PostAnswered \/ PostUnanswered \/ Fails
  BY <1>1, TodoFacts DEF Calls, WriteAnswered, WriteUnanswered, Writes, DeleteAnswered, DeleteUnanswered,
     DeleteMissing, Seen, Records, Refuses, LetsGo
<1>5. Failed => todo' = << >> /\ tf' = tf
  BY <1>1, <1>3, TodoFacts DEF Failed, MakesFirst, PostsFirst
<1>6. CASE PostAnswered
  <2>1. made' = TRUE /\ lost' = FALSE /\ doomed' = FALSE /\ todo' = Tail(todo) /\ ~Exists /\ Exists'
    BY <1>6 DEF PostAnswered, Answered, GoOn, Accepted, Exists
  <2>2. Preserves(todo')
    BY <1>3, <2>1 DEF MakesFirst, PostsFirst
  <2>3. tf'.there \/ SurelySaved(todo')
    <3>1. Current.save # "no" => tf'.there
      BY <1>6 DEF PostAnswered, Answered, GoOn, Saved
    <3>2. QED
      BY <1>1, <1>3, <2>1, <3>1, TodoFacts DEF MakesFirst, PostsFirst
  <2>4. PromiseInv'
    BY <1>1, <1>3, <2>1, <2>2, <2>3 DEF PromiseInv, Busy
  <2>5. Creates
    BY <2>1 DEF Creates, Held
  <2>6. QED
    BY <2>4, <2>5 DEF Promising
<1>7. CASE PostUnanswered
  <2>1. lost' = TRUE /\ doomed' = FALSE /\ made' = made /\ ~Exists /\ Exists'
    BY <1>7 DEF PostUnanswered, Accepted, Exists
  <2>2. todo' = << >> /\ tf' = tf
    BY <1>5, <1>7 DEF PostUnanswered
  <2>3. PromiseInv'
    BY <1>1, <1>3, <2>1, <2>2 DEF PromiseInv, Busy
  <2>4. Loses
    BY <2>1, <2>2 DEF Loses, Held
  <2>5. QED
    BY <2>3, <2>4 DEF Promising
<1>8. CASE Fails
  <2>1. UNCHANGED <<platform, doomed, made, lost>> /\ todo' = << >> /\ tf' = tf
    BY <1>5, <1>8 DEF Fails
  <2>2. PromiseInv'
    BY <1>1, <1>3, <2>1 DEF PromiseInv, Busy
  <2>3. Stays
    BY <2>1 DEF Stays, Held, Exists, platform
  <2>4. QED
    BY <2>2, <2>3 DEF Promising
<1>9. QED
  BY <1>4, <1>6, <1>7, <1>8

\* What a handler has made it records, by the next step or a later one.
LEMMA RecordsNext ==
  ASSUME TypeInv, Calls, SurelySaved(todo), todo[1].call # "post", todo[1].call # "delete"
  PROVE  tf'.there \/ SurelySaved(todo')
<1>1. todo # << >> /\ todo \in Seq(StepsOfR) /\ Current = todo[1] /\ \A c : Calling(c) => todo[1].call = c
  BY StepForms, TodoFacts
<1>2. \/ todo[1].call = "record"
      \/ todo[1].call \notin {"refuse", "let go"} /\ todo[1].fail \in {"record", "skip"}
  <2>1. PICK n \in DOMAIN todo :
          \A i \in 1..n : \/ todo[i].call = "record"
                          \/ todo[i].call \notin {"refuse", "let go"} /\ todo[i].fail \in {"record", "skip"}
    BY DEF SurelySaved
  <2>2. 1 \in 1..n
    BY <1>1, LenProperties
  <2>3. QED
    BY <2>1, <2>2
<1>3. CASE Records
  BY <1>3 DEF Records, Saved
<1>4. CASE ~Records
  <2>1. todo[1].call # "record" /\ todo[1].call \notin {"refuse", "let go"} /\ todo[1].fail \in {"record", "skip"}
    <3>1. todo[1].call # "record"
      BY <1>1, <1>4, StepForms DEF Calls, PostAnswered, PostUnanswered, WriteAnswered, WriteUnanswered, Writes,
         DeleteAnswered, DeleteUnanswered, DeleteMissing, Seen, Fails, Refuses, LetsGo
    <3>2. QED
      BY <1>2, <3>1
  <2>2. (\E o : GoOn(o)) \/ tf'.there
    <3>1. Failed => (\E o : GoOn(o)) \/ tf'.there
      <4>1. Current.fail \in {"record", "skip"}
        BY <1>1, <2>1
      <4>2. Saved("plan").there
        BY DEF Saved
      <4>3. Failed /\ Current.fail = "skip" => GoOn("warned")
        BY DEF Failed
      <4>4. Failed /\ Current.fail = "record" => tf'.there
        BY <4>2 DEF Failed
      <4>5. QED
        BY <4>1, <4>3, <4>4
    <3>2. ~PostAnswered /\ ~PostUnanswered /\ ~DeleteAnswered /\ ~DeleteUnanswered /\ ~DeleteMissing
          /\ ~Refuses /\ ~LetsGo
      BY <1>1, <2>1 DEF PostAnswered, PostUnanswered, DeleteAnswered, DeleteUnanswered, DeleteMissing, Refuses, LetsGo
    <3>3. QED
      BY <1>4, <3>1, <3>2 DEF Calls, WriteAnswered, WriteUnanswered, Seen, Fails, Answered
  <2>3. todo' = Tail(todo) \/ tf'.there
    BY <2>2 DEF GoOn
  <2>4. todo[1].save # "no" => tf'.there
    BY <1>1, <2>2 DEF GoOn, Saved
  <2>5. QED
    BY <1>1, <2>1, <2>3, <2>4, SavedRest
<1>5. QED
  BY <1>3, <1>4

\* A deletion that has not failed has asked for it, or will.
LEMMA AsksNext ==
  ASSUME TypeInv, Calls, DeletesOnly(todo), outcome' # "error", doomed => R.background,
         ~Exists \/ doomed \/ Uses(todo, "delete")
  PROVE  ~Exists' \/ doomed' \/ Uses(todo', "delete")
<1>1. todo # << >> /\ todo \in Seq(StepsOfR) /\ Current = todo[1] /\ \A c : Calling(c) => todo[1].call = c
  BY StepForms, TodoFacts
<1>2. todo[1].call # "post" /\ (todo[1].call = "delete" => todo[1].fail = "stop")
  BY <1>1, DeletesOnlyRest
<1>3. CASE ~Exists
  BY <1>2, <1>3, ExistsAfterCall
<1>4. CASE Exists /\ todo[1].call = "delete"
  <2>1. Failed => outcome' = "error"
    BY <1>1, <1>2, <1>4 DEF Failed
  <2>2. DeleteAnswered
    BY <1>1, <1>4, <2>1 DEF Calls, PostAnswered, PostUnanswered, WriteAnswered, WriteUnanswered, Writes,
       DeleteUnanswered, DeleteMissing, Seen, Fails, Records, Refuses, LetsGo
  <2>3. status' = (IF R.background THEN "leaving" ELSE "absent") /\ doomed' = R.background
    BY <2>2 DEF DeleteAnswered, Accepted
  <2>4. R.background \in BOOLEAN
    BY TypeParts, BackgroundType
  <2>5. QED
    BY <2>3, <2>4 DEF Exists
<1>5. CASE Exists /\ todo[1].call # "delete"
  <2>1. doomed' = doomed
    BY <1>2, <1>5, ExistsAfterCall
  <2>2. CASE doomed
    BY <2>1, <2>2
  <2>3. CASE Uses(todo, "delete")
    <3>1. Uses(Tail(todo), "delete")
      BY <1>1, <1>5, <2>3, UsesRest
    <3>2. Failed => todo' = Tail(todo) \/ outcome' = "error"
      BY DEF Failed, GoOn
    <3>3. ~DeleteMissing /\ ~Refuses
      BY <1>5 DEF DeleteMissing, Refuses
    <3>4. todo' = Tail(todo)
      BY <3>2, <3>3 DEF Calls, PostAnswered, PostUnanswered, WriteAnswered, WriteUnanswered, DeleteAnswered,
         DeleteUnanswered, Seen, Fails, Records, LetsGo, Answered, GoOn
    <3>5. QED
      BY <3>1, <3>4
  <2>4. QED
    BY <1>5, <2>2, <2>3
<1>6. QED
  BY <1>3, <1>4, <1>5

LEMMA OtherCalls ==
  ASSUME TypeInv, PromiseInv, kind \notin LetGoKinds, Calls, todo[1].call # "post"
  PROVE  PromiseInv' /\ Promising
<1>1. UNCHANGED <<kind, op, phase, made, lost>> /\ phase = "running" /\ todo # << >> /\ R' = R /\ todo \in Seq(StepsOfR)
  BY StepForms, SameKind, TodoFacts, TendingCalls DEF Running
<1>2. op \in {"create", "update", "delete"} /\ R.background \in BOOLEAN /\ doomed \in BOOLEAN
  BY <1>1, TypeParts, BackgroundType DEF PromiseInv, HandlerOK, RestOK
<1>3. todo' = Tail(todo) \/ todo' = << >>
  BY StepForms
<1>4. tf.there => tf'.there
  BY TendingCalls
<1>5. doomed' => R.background
  <2>1. CASE Untouched
    BY <1>1, <2>1 DEF Untouched, PromiseInv
  <2>2. CASE Effect
    <3>1. PICK c \in {"post", "write", "clear", "delete"} : Calling(c) /\ Accepted(c)
      BY <2>2 DEF Effect
    <3>2. c # "post"
      BY <1>1, <3>1, TodoFacts
    <3>3. doomed' = doomed \/ doomed' = R.background
      BY <3>1, <3>2 DEF Accepted
    <3>4. QED
      BY <1>2, <3>3 DEF PromiseInv
  <2>3. QED
    BY <2>1, <2>2, StepForms
<1>6. Held
  <2>1. CASE op = "create"
    <3>1. ~MakesFirst(todo)
      BY DEF MakesFirst, PostsFirst
    <3>2. QED
      BY <1>1, <2>1, <3>1 DEF PromiseInv, Busy, Held
  <2>2. CASE op \in {"update", "delete"}
    BY <1>1, <2>2 DEF PromiseInv, Busy, Held
  <2>3. QED
    BY <1>2, <2>1, <2>2
<1>7. Held'
  BY <1>1, <1>4, <1>6 DEF Held
<1>8. Promising
  <2>1. CASE Untouched
    BY <1>1, <1>6, <1>7, <2>1 DEF Untouched, platform, Exists, Stays, Promising
  <2>2. CASE Effect
    <3>1. PICK c \in {"post", "write", "clear", "delete"} : Calling(c) /\ Accepted(c)
      BY <2>2 DEF Effect
    <3>2. c # "post"
      BY <1>1, <3>1, TodoFacts
    <3>3. CASE c = "delete" /\ R.background
      <4>1. Dooms
        BY <1>1, <1>6, <1>7, <3>1, <3>3 DEF Accepted, Exists, Dooms
      <4>2. QED
        BY <4>1 DEF Promising
    <3>4. CASE c = "delete" /\ ~R.background
      <4>1. doomed' = FALSE /\ doomed = FALSE
        BY <1>2, <3>1, <3>4 DEF Accepted, PromiseInv
      <4>2. Vanishing
        BY <1>1, <1>6, <1>7, <3>1, <3>4, <4>1 DEF Accepted, Exists, Vanishing
      <4>3. QED
        BY <4>2 DEF Promising
    <3>5. CASE c \in {"write", "clear"}
      <4>1. Stays
        BY <1>1, <1>6, <1>7, <3>1, <3>5 DEF Accepted, Exists, Stays
      <4>2. QED
        BY <4>1 DEF Promising
    <3>6. QED
      BY <3>1, <3>2, <3>3, <3>4, <3>5
  <2>3. QED
    BY <2>1, <2>2, StepForms
<1>9. PromiseInv'
  <2>1. CASE op = "create"
    <3>1. made /\ Preserves(todo) /\ (tf.there \/ SurelySaved(todo))
      <4>1. ~MakesFirst(todo)
        BY DEF MakesFirst, PostsFirst
      <4>2. QED
        BY <1>1, <2>1, <4>1 DEF PromiseInv, Busy
    <3>2. Preserves(todo')
      BY <1>1, <1>3, <3>1, PreservesRest, EmptyRules
    <3>3. tf'.there \/ SurelySaved(todo')
      BY <1>1, <1>4, <3>1, RecordsNext, PreservesRest
    <3>4. QED
      BY <1>1, <1>5, <2>1, <3>1, <3>2, <3>3 DEF PromiseInv, Busy
  <2>2. CASE op = "update"
    <3>1. ~made /\ tf.there /\ Preserves(todo)
      BY <1>1, <2>2 DEF PromiseInv, Busy
    <3>2. Preserves(todo')
      BY <1>1, <1>3, <3>1, PreservesRest, EmptyRules
    <3>3. QED
      BY <1>1, <1>4, <1>5, <2>2, <3>1, <3>2 DEF PromiseInv, Busy
  <2>3. CASE op = "delete"
    <3>1. /\ ~made /\ tf.there /\ DeletesOnly(todo) /\ (doomed => R.background)
          /\ outcome # "error" /\ (~Exists \/ doomed \/ Uses(todo, "delete"))
      BY <1>1, <2>3 DEF PromiseInv, Busy
    <3>2. DeletesOnly(todo')
      BY <1>1, <1>3, <3>1, DeletesOnlyRest, EmptyRules
    <3>3. outcome' # "error" => ~Exists' \/ doomed' \/ Uses(todo', "delete")
      BY <3>1, AsksNext
    <3>4. outcome' = "error" => todo' = << >>
      <4>1. Failed => (outcome' = "error" => todo' = << >>)
        BY DEF Failed, GoOn
      <4>2. Refuses => todo' = << >>
        BY DEF Refuses
      <4>3. QED
        BY <3>1, <4>1, <4>2 DEF Calls, PostAnswered, PostUnanswered, WriteAnswered, WriteUnanswered, DeleteAnswered,
           DeleteUnanswered, DeleteMissing, Seen, Fails, Records, LetsGo, Answered, GoOn
    <3>5. QED
      BY <1>1, <1>4, <1>5, <2>3, <3>1, <3>2, <3>3, <3>4 DEF PromiseInv, Busy
  <2>4. QED
    BY <1>2, <2>1, <2>2, <2>3
<1>10. QED
  BY <1>8, <1>9

LEMMA TerraformPromises ==
  ASSUME TypeInv, PromiseInv, kind \notin LetGoKinds, Terraform
  PROVE  PromiseInv' /\ Promising
<1>1. UNCHANGED <<kind, platform, doomed, lost>> /\ R' = R /\ Exists' = Exists
  <2>1. UNCHANGED <<kind, platform, doomed, lost>>
    BY DEF Terraform, StartCreate, StartUpdate, StartDelete, Start, Return, Refresh, Import, history
  <2>2. QED
    BY <2>1, SameKind DEF platform, Exists
<1>2. CASE StartCreate \/ StartUpdate \/ StartDelete
  <2>1. UNCHANGED <<tf, made>> /\ phase = "ready" /\ phase' = "running" /\ outcome' = "ok" /\ ~made
    BY <1>2 DEF StartCreate, StartUpdate, StartDelete, Start, PromiseInv, Busy
  <2>2. Stays
    BY <1>1, <2>1 DEF Stays, Held
  <2>3. RecordsWhatItMakes(R) /\ DeletesWhatItForgets(R) /\ kind \in Kinds
    BY HandlersAssumption, TypeParts DEF R
  <2>4. CASE StartCreate
    <3>1. op' = "create" /\ MakesFirst(todo')
      BY <2>3, <2>4, StartsCourse DEF StartCreate, Start, RecordsWhatItMakes
    <3>2. QED
      BY <1>1, <2>1, <2>2, <3>1 DEF PromiseInv, Busy, Promising
  <2>5. CASE StartUpdate
    <3>1. op' = "update" /\ Preserves(todo') /\ tf'.there
      BY <2>1, <2>3, <2>5, StartsCourse DEF StartUpdate, Start, RecordsWhatItMakes
    <3>2. QED
      BY <1>1, <2>1, <2>2, <3>1 DEF PromiseInv, Busy, Promising
  <2>6. CASE StartDelete
    <3>1. op' = "delete" /\ DeletesOnly(todo') /\ Uses(todo', "delete") /\ tf'.there
      BY <2>1, <2>3, <2>6, StartsCourse DEF StartDelete, Start, DeletesWhatItForgets
    <3>2. QED
      BY <1>1, <2>1, <2>2, <3>1 DEF PromiseInv, Busy, Promising
  <2>7. QED
    BY <1>2, <2>4, <2>5, <2>6
<1>3. CASE Return
  <2>1. phase = "running" /\ todo = << >> /\ phase' = "returned" /\ made' = FALSE /\ UNCHANGED <<op, todo, outcome>>
    BY <1>3 DEF Return
  <2>2. PromiseInv'
    BY <1>1, <2>1 DEF PromiseInv, Busy
  <2>3. op \in {"create", "update", "delete"} /\ tf \in States
    BY <2>1, TypeParts DEF PromiseInv, HandlerOK, StateOK
  <2>4. CASE op = "delete" /\ outcome # "error"
    <3>1. tf.there /\ (~Exists \/ doomed)
      BY <2>1, <2>4, UsesNone DEF PromiseInv, Busy
    <3>2. ~tf'.there
      BY <1>3, <2>4 DEF Return, NoState
    <3>3. Forgets
      BY <1>1, <2>1, <3>1, <3>2 DEF Forgets, Held
    <3>4. QED
      BY <2>2, <3>3 DEF Promising
  <2>5. CASE ~(op = "delete" /\ outcome # "error")
    <3>1. tf'.there = tf.there
      BY <1>3, <2>3, <2>5 DEF Return, States
    <3>2. made => tf.there
      BY <2>1, EmptyRules DEF PromiseInv
    <3>3. Stays
      BY <1>1, <2>1, <3>1, <3>2 DEF Stays, Held
    <3>4. QED
      BY <2>2, <3>3 DEF Promising
  <2>6. QED
    BY <2>4, <2>5
<1>4. CASE Refresh
  <2>1. phase # "running" /\ phase' = "ready" /\ made' = made /\ ~made
    BY <1>4 DEF Refresh, PromiseInv, Busy
  <2>2. PromiseInv'
    BY <1>1, <2>1 DEF PromiseInv, Busy
  <2>3. CASE tf.there /\ ~Exists
    <3>1. ~tf'.there
      BY <1>4, <2>3 DEF Refresh, NoState
    <3>2. Forgets
      BY <1>1, <2>1, <2>3, <3>1 DEF Forgets, Held
    <3>3. QED
      BY <2>2, <3>2 DEF Promising
  <2>4. CASE ~(tf.there /\ ~Exists)
    <3>1. tf'.there = tf.there
      BY <1>4, <2>4, TypeParts DEF Refresh, StateOK, States
    <3>2. Stays
      BY <1>1, <2>1, <3>1 DEF Stays, Held
    <3>3. QED
      BY <2>2, <3>2 DEF Promising
  <2>5. QED
    BY <2>3, <2>4
<1>5. CASE Import
  <2>1. phase = "ready" /\ phase' = phase /\ made' = made /\ ~made /\ ~tf.there /\ Exists /\ tf'.there
    BY <1>5 DEF Import, handler, history, PromiseInv, Busy
  <2>2. PromiseInv'
    BY <1>1, <2>1 DEF PromiseInv, Busy
  <2>3. Adopts
    BY <1>1, <2>1 DEF Adopts, Held
  <2>4. QED
    BY <2>2, <2>3 DEF Promising
<1>6. QED
  BY <1>2, <1>3, <1>4, <1>5 DEF Terraform

LEMMA OthersPromise ==
  ASSUME TypeInv, PromiseInv, kind \notin LetGoKinds, Others
  PROVE  PromiseInv' /\ Promising
<1>1. UNCHANGED <<kind, tf, made, lost, plan, op, phase, todo, outcome>> /\ R' = R
  <2>1. UNCHANGED <<kind, tf, handler, made, lost>>
    BY DEF Others, Elsewhere, Settle, Vanish, Land, ProvisionFails, OutsideChange, OutsideDelete
  <2>2. QED
    BY <2>1, SameKind DEF handler
<1>2. R.background \in BOOLEAN /\ doomed \in BOOLEAN /\ (doomed => R.background)
  BY TypeParts, BackgroundType DEF PromiseInv, RestOK
<1>3. \/ Exists' = Exists /\ doomed' = doomed
      \/ Exists /\ Exists' /\ doomed' = TRUE /\ R.background
      \/ Exists /\ ~Exists' /\ doomed' = doomed
  <2>1. CASE OutsideDelete
    BY <1>2, <2>1 DEF OutsideDelete, Exists
  <2>2. CASE Settle \/ Land \/ ProvisionFails \/ OutsideChange
    BY <2>2 DEF Settle, Land, ProvisionFails, OutsideChange, Exists
  <2>3. CASE Vanish
    BY <2>3 DEF Vanish, Exists
  <2>4. QED
    BY <2>1, <2>2, <2>3 DEF Others
<1>4. Promising
  BY <1>1, <1>3 DEF Promising, Stays, Dooms, Vanishing, Held
<1>5. ~Exists \/ doomed => ~Exists' \/ doomed'
  BY <1>3
<1>6. PromiseInv'
  BY <1>1, <1>2, <1>3, <1>5 DEF PromiseInv, Busy
<1>7. QED
  BY <1>4, <1>6

LEMMA PromiseStep ==
  TypeInv /\ PromiseInv /\ [Next]_vars => PromiseInv' /\ [Promise!Next]_(Promise!vars)
<1> SUFFICES ASSUME TypeInv, PromiseInv, [Next]_vars
             PROVE  PromiseInv' /\ [Promise!Next]_(Promise!vars)
  OBVIOUS
<1>1. UNCHANGED kind
  BY StepForms DEF Next, Terraform, StartCreate, StartUpdate, StartDelete, Start, Return, Refresh, Import, Others,
     Elsewhere, Settle, Vanish, Land, ProvisionFails, OutsideChange, OutsideDelete, Running, vars
<1>2. BooleansOK /\ BooleansOK'
  <2>1. TypeInv'
    BY TypeStep
  <2>2. TypeInv => BooleansOK
    BY Booleans
  <2>3. TypeInv' => BooleansOK'
    BY Booleans, PTL
  <2>4. QED
    BY <2>1, <2>2, <2>3
<1>3. CASE kind \in LetGoKinds
  BY <1>1, <1>2, <1>3, PromisingStep DEF PromiseInv
<1>4. CASE kind \notin LetGoKinds /\ UNCHANGED vars
  <2>1. UNCHANGED <<status, tf, made, doomed, lost, op, phase, todo, outcome>>
    BY <1>4 DEF vars, platform, handler, history
  <2>2. Stays /\ PromiseInv'
    BY <1>1, <2>1, SameKind DEF Stays, Held, Exists, PromiseInv, Busy
  <2>3. QED
    BY <1>1, <1>2, <2>2, PromisingStep DEF Promising
<1>5. CASE kind \notin LetGoKinds /\ Next
  <2>1. PromiseInv' /\ Promising
    BY <1>5, PostCalls, OtherCalls, TerraformPromises, OthersPromise DEF Next
  <2>2. QED
    BY <1>1, <1>2, <2>1, PromisingStep
<1>6. QED
  BY <1>3, <1>4, <1>5

\* The handlers of every type but those that are documented otherwise implement
\* ManagedObject: what they make is in the state, until it is gone or going.
THEOREM PromiseKept == Spec => KeepsPromise
<1>1. Init => PromiseInv
  BY DEF Init, PromiseInv, Busy
<1>2. Init => Promise!Init
  BY DEF Init, Exists, NoState, Promised, Promise!Init, Promise!TypeOK
<1>3. QED
  BY <1>1, <1>2, InitTypes, TypeStep, PromiseStep, PTL DEF Spec, KeepsPromise, Promise!Spec

\* No object is ever stranded: one that exists is in the state, or was never
\* answered for, or is on its way out, or its handler is about to record it.
THEOREM NothingStranded == Spec => []Promise!NoStranded
<1>1. Promise!Init => Promise!NoStranded
  BY DEF Promise!Init, Promise!NoStranded
<1>2. Promise!NoStranded /\ [Promise!Next]_(Promise!vars) => Promise!NoStranded'
  BY DEF Promise!Next, Promise!vars, Promise!NoStranded, Promise!Create, Promise!CreateUnanswered, Promise!Adopt,
     Promise!Doom, Promise!Destroy, Promise!Forget, Promise!Vanish
<1>3. QED
  BY <1>1, <1>2, PromiseKept, PTL DEF KeepsPromise, Promise!Spec

-----------------------------------------------------------------------------
(* What no GET shows enters the state after the platform has it.              *)

\* The rules of HandlersAssumption, for the type at hand.
LEMMA TheRules ==
  ASSUME kind \in Kinds
  PROVE  TellsNothingEarly(R) /\ AppliesThePlan(R)
BY HandlersAssumption DEF R

LEMMA TheRule ==
  ASSUME kind \in Kinds, NEW a \in R.unread
  PROVE  /\ a \in Attrs /\ a \notin R.reads /\ a \notin R.queued
         /\ \A set \in SUBSET Attrs :
              /\ \A q \in Creations(R, set) : Orderly(q, a, set) /\ (a \in set => ToldAfterwards(q, a))
              /\ \A c \in DOMAIN R.update, held \in SUBSET Attrs : \A q \in Updates(R, c, set, held) :
                   Orderly(q, a, set) /\ (a \in c => ToldAfterwards(q, a))
         /\ \A q \in Courses(R.delete) : Orderly(q, a, {}) /\ ToldAfterwards(q, a)
BY TheRules DEF TellsNothingEarly, Attrs

LEMMA NoStepsLeft ==
  ASSUME NEW a, NEW set
  PROVE  Orderly(<< >>, a, set) /\ ToldAfterwards(<< >>, a)
<1>1. DOMAIN << >> = {}
  BY EmptySeq, LenProperties
<1>2. QED
  BY <1>1 DEF Orderly, ToldAfterwards

LEMMA OrderlyRest ==
  ASSUME NEW S, NEW q \in Seq(S), q # << >>, NEW a, NEW set, Orderly(q, a, set)
  PROVE  /\ Orderly(Tail(q), a, set) /\ ~Uses(Tail(q), "post")
         /\ q[1].save = "forget" => Tail(q) = << >>
<1>1. /\ Tail(q) \in Seq(S) /\ Len(Tail(q)) = Len(q) - 1 /\ Len(q) \in Nat
      /\ DOMAIN q = 1..Len(q) /\ DOMAIN Tail(q) = 1..Len(Tail(q))
  BY HeadTailProperties, EmptySeq, LenProperties
<1>2. \A i \in DOMAIN Tail(q) : i \in Nat /\ i > 0 /\ i + 1 \in DOMAIN q /\ Tail(q)[i] = q[i + 1]
  BY <1>1, Rest
<1>3. \A i \in DOMAIN Tail(q) : /\ Tail(q)[i].call # "post"
                                /\ Tail(q)[i].save = "forget" => i = Len(Tail(q))
                                /\ Tail(q)[i].call = "clear" /\ a \in Tail(q)[i].of => a \notin set
  BY <1>1, <1>2 DEF Orderly
<1>4. q[1].save = "forget" => Tail(q) = << >>
  <2>1. 1 \in DOMAIN q
    BY Rest
  <2>2. q[1].save = "forget" => Len(Tail(q)) = 0
    BY <1>1, <2>1 DEF Orderly
  <2>3. QED
    BY <1>1, <2>2, EmptySeq
<1>5. QED
  BY <1>3, <1>4 DEF Orderly, Uses

LEMMA ToldRest ==
  ASSUME NEW S, NEW q \in Seq(S), q # << >>, NEW a, ToldAfterwards(q, a)
  PROVE  /\ ToldAfterwards(Tail(q), a) \/ Settles(q[1], a)
         /\ q[1].save = "plan" \/ q[1].call = "record" => Settles(q[1], a)
         /\ q[1].fail # "record"
<1>1. /\ Tail(q) \in Seq(S) /\ Len(q) \in Nat
      /\ DOMAIN q = 1..Len(q) /\ DOMAIN Tail(q) = 1..Len(Tail(q)) /\ Len(Tail(q)) \in Nat
  BY HeadTailProperties, EmptySeq, LenProperties
<1>2. 1 \in DOMAIN q
  BY Rest
<1>3. 1..1 = {1} /\ 1..(1 - 1) = {}
  OBVIOUS
<1>4. /\ q[1].save = "plan" \/ q[1].call = "record" => Settles(q[1], a)
      /\ q[1].fail # "record"
  BY <1>2, <1>3 DEF ToldAfterwards
<1>5. ASSUME ~Settles(q[1], a), NEW i \in DOMAIN Tail(q)
      PROVE  /\ Tail(q)[i].save = "plan" \/ Tail(q)[i].call = "record" =>
                  \E j \in 1..i : Settles(Tail(q)[j], a)
             /\ Tail(q)[i].fail = "record" => \E j \in 1..(i - 1) : Settles(Tail(q)[j], a)
  <2>1. i \in 1..Len(Tail(q)) /\ i + 1 \in DOMAIN q /\ Tail(q)[i] = q[i + 1]
    BY <1>1, Rest
  <2>2. ASSUME NEW m \in Nat, m \in {i, i + 1}, NEW j \in 1..m, Settles(q[j], a)
        PROVE  \E l \in 1..(m - 1) : Settles(Tail(q)[l], a)
    <3>1. j # 1
      BY <1>5, <2>2
    <3>2. j - 1 \in 1..(m - 1) /\ j - 1 \in DOMAIN Tail(q) /\ (j - 1) + 1 = j
      BY <3>1, <2>1, <2>2, <1>1
    <3>3. Tail(q)[j - 1] = q[(j - 1) + 1]
      BY <3>2, Rest
    <3>4. QED
      BY <2>2, <3>2, <3>3
  <2>3. i \in Nat /\ i + 1 \in Nat /\ (i + 1) - 1 = i
    BY <2>1
  <2>4. q[i + 1].save = "plan" \/ q[i + 1].call = "record" => \E j \in 1..(i + 1) : Settles(q[j], a)
    BY <2>1 DEF ToldAfterwards
  <2>5. q[i + 1].fail = "record" => \E j \in 1..i : Settles(q[j], a)
    BY <2>1, <2>3 DEF ToldAfterwards
  <2>6. q[i + 1].save = "plan" \/ q[i + 1].call = "record" => \E l \in 1..i : Settles(Tail(q)[l], a)
    BY <2>2, <2>3, <2>4
  <2>7. q[i + 1].fail = "record" => \E l \in 1..(i - 1) : Settles(Tail(q)[l], a)
    BY <2>2, <2>3, <2>5
  <2>8. QED
    BY <2>1, <2>6, <2>7
<1>6. QED
  BY <1>4, <1>5 DEF ToldAfterwards

\* For a running handler, an attribute that no GET shows is in the state as
\* planned, or on the platform, or will not be told of before it is there.
Told(a) ==
  /\ Orderly(todo, a, SetIn(plan))
  /\ \/ tf.value[a] = plan[a]
     \/ value[a] = plan[a] /\ ~Uses(todo, "post")
     \/ ToldAfterwards(todo, a)
ToldInv ==
  /\ ~tf.there => tf.value = Unset
  /\ phase = "running" => \A a \in R.unread : Told(a)

\* The attribute of StateNeverAhead, in one step.
NotAhead(a) ==
  tf'.there /\ tf'.value[a] \notin {tf.value[a], Forgotten} => value'[a] = tf'.value[a]

LEMMA CreationStarts ==
  ASSUME kind \in Kinds, tf.value = Unset, StartCreate
  PROVE  \E set \in SUBSET Attrs : set = SetIn(plan') /\ todo' \in Creations(R, set)
<1>1. PICK p \in Values : \E program \in R.create[SetIn(p)] : Start("create", p, program)
  BY DEF StartCreate, Plannable
<1>2. PICK program \in R.create[SetIn(p)] : Start("create", p, program)
  BY <1>1
<1>3. plan' = p /\ todo' = Course(program, SetIn(p), SetIn(tf.value)) /\ SetIn(p) \in SUBSET Attrs
  BY <1>2 DEF Start, Applicable, SetIn
<1>4. SetIn(tf.value) = {}
  BY DEF SetIn, Unset
<1>5. QED
  BY <1>2, <1>3, <1>4 DEF Creations

LEMMA UpdateStarts ==
  ASSUME StartUpdate
  PROVE  \E set \in SUBSET Attrs, held \in SUBSET Attrs, c \in DOMAIN R.update :
           set = SetIn(plan') /\ c = Changes(plan') /\ todo' \in Updates(R, c, set, held)
<1>1. PICK p \in Values : /\ Changes(p) \in DOMAIN R.update
                          /\ \E program \in R.update[Changes(p)] : Start("update", p, program)
  BY DEF StartUpdate, Plannable
<1>2. PICK program \in R.update[Changes(p)] : Start("update", p, program)
  BY <1>1
<1>3. plan' = p /\ todo' = Course(program, SetIn(p), SetIn(tf.value))
  BY <1>2 DEF Start, Applicable
<1>4. SetIn(p) \in SUBSET Attrs /\ SetIn(tf.value) \in SUBSET Attrs
  BY DEF SetIn
<1>5. Changes(p) \subseteq SetIn(p) \union SetIn(tf.value)
  BY DEF Changes, SetIn
<1>6. todo' \in Updates(R, Changes(p), SetIn(p), SetIn(tf.value))
  BY <1>2, <1>3, <1>5 DEF Updates
<1>7. QED
  BY <1>1, <1>3, <1>4, <1>6

LEMMA ToldAtStart ==
  ASSUME TypeInv, ToldInv, StartCreate \/ StartUpdate \/ StartDelete, NEW a \in R.unread
  PROVE  Told(a)'
<1>1. kind \in Kinds /\ UNCHANGED <<kind, tf>> /\ R' = R /\ Attrs' = Attrs
  <2>1. UNCHANGED <<kind, tf>>
    BY DEF StartCreate, StartUpdate, StartDelete, Start
  <2>2. QED
    BY <2>1, TypeParts, SameKind
<1>2. a \in Attrs
  BY <1>1, TheRule
<1>3. \A x : SetIn(x)' = SetIn(x')
  BY <1>1 DEF SetIn
<1>4. CASE StartCreate
  <2>1. PICK set \in SUBSET Attrs : set = SetIn(plan') /\ todo' \in Creations(R, set)
    BY <1>1, <1>4, CreationStarts DEF ToldInv, StartCreate
  <2>2. Orderly(todo', a, set) /\ (a \in set => ToldAfterwards(todo', a))
    BY <1>1, <2>1, TheRule
  <2>3. a \notin set => tf'.value[a] = plan'[a]
    BY <1>1, <1>2, <1>4, <2>1 DEF StartCreate, ToldInv, Unset, SetIn
  <2>4. QED
    BY <1>3, <2>1, <2>2, <2>3 DEF Told
<1>5. CASE StartUpdate
  <2>1. PICK set \in SUBSET Attrs, held \in SUBSET Attrs, c \in DOMAIN R.update :
          set = SetIn(plan') /\ c = Changes(plan') /\ todo' \in Updates(R, c, set, held)
    BY <1>5, UpdateStarts
  <2>2. Orderly(todo', a, set) /\ (a \in c => ToldAfterwards(todo', a))
    BY <1>1, <2>1, TheRule
  <2>3. a \notin c => tf'.value[a] = plan'[a]
    BY <1>1, <1>2, <2>1 DEF Changes
  <2>4. QED
    BY <1>3, <2>1, <2>2, <2>3 DEF Told
<1>6. CASE StartDelete
  <2>1. plan' = Unset /\ todo' \in Courses(R.delete)
    BY <1>1, <1>6, StartsCourse DEF StartDelete, Start
  <2>2. SetIn(Unset) = {}
    BY DEF SetIn, Unset
  <2>3. Orderly(todo', a, {}) /\ ToldAfterwards(todo', a)
    BY <1>1, <2>1, TheRule
  <2>4. Unset' = Unset
    BY <1>1 DEF Unset
  <2>5. QED
    BY <1>3, <2>1, <2>2, <2>3, <2>4 DEF Told
<1>7. QED
  BY <1>4, <1>5, <1>6

\* What an accepted call means to an attribute.
LEMMA SettledIs ==
  ASSUME TypeInv, NEW a \in R.unread, NEW c, Calling(c), Accepted(c), Settles(Current, a),
         Orderly(todo, a, SetIn(plan))
  PROVE  value'[a] = plan[a]
<1>1. a \in Attrs /\ a \notin R.queued /\ todo \in Seq(StepsOfR) /\ todo # << >>
  BY TypeParts, TheRule DEF HandlerOK, Calling
<1>2. Current = todo[1] /\ 1 \in DOMAIN todo /\ Current.call = c
  BY <1>1, Rest DEF Current, Calling
<1>3. c = "clear" => plan[a] = 0
  BY <1>1, <1>2 DEF Orderly, Settles, SetIn
<1>4. a \in Current.of /\ c \in {"post", "write", "clear"}
  BY <1>2 DEF Settles
<1>5. QED
  BY <1>1, <1>2, <1>3, <1>4 DEF Accepted, Written

LEMMA PlannedStays ==
  ASSUME TypeInv, NEW a \in R.unread, NEW c, Calling(c), Accepted(c), c # "post",
         c \in {"write", "clear", "delete"}, Orderly(todo, a, SetIn(plan)), value[a] = plan[a]
  PROVE  value'[a] = plan[a]
<1>1. a \in Attrs /\ a \notin R.queued /\ todo \in Seq(StepsOfR) /\ todo # << >>
  BY TypeParts, TheRule DEF HandlerOK, Calling
<1>2. Current = todo[1] /\ 1 \in DOMAIN todo /\ Current.call = c
  BY <1>1, Rest DEF Current, Calling
<1>3. c = "clear" /\ a \in Current.of => plan[a] = 0
  BY <1>1, <1>2 DEF Orderly, SetIn
<1>4. QED
  BY <1>1, <1>2, <1>3 DEF Accepted, Written

\* A handler that stops.
StopsTelling ==
  /\ todo' = << >>
  /\ tf' = tf \/ (Current.fail = "record" /\ tf' = Saved("plan"))
\* A handler that goes on, and what is then known of an attribute.
GoesOnTelling(a) ==
  /\ todo' = Tail(todo)
  /\ \/ Current.call = "record" /\ tf' = Saved("plan")
     \/ Current.call \in {"let go", "delete"} /\ tf' = tf
     \/ /\ tf' = IF Current.save = "no" THEN tf ELSE Saved(Current.save)
        /\ Settles(Current, a) => value'[a] = plan[a]

LEMMA TellingForms ==
  ASSUME TypeInv, Calls, NEW a \in R.unread, Orderly(todo, a, SetIn(plan))
  PROVE  /\ StopsTelling \/ GoesOnTelling(a)
         /\ value[a] = plan[a] /\ ~Uses(todo, "post") => value'[a] = plan[a]
<1>1. /\ todo \in Seq(StepsOfR) /\ todo # << >>
      /\ Current = todo[1] /\ 1 \in DOMAIN todo /\ Current = Head(todo)
  <2>1. todo \in Seq(StepsOfR) /\ todo # << >>
    BY TypeParts, StepForms DEF HandlerOK
  <2>2. QED
    BY <2>1, Rest DEF Current
<1>2. Failed => \/ StopsTelling
                \/ Current.fail = "skip" /\ GoOn("warned")
  BY DEF Failed, StopsTelling
<1>3. ASSUME NEW o, GoOn(o), Settles(Current, a) => value'[a] = plan[a]
      PROVE  GoesOnTelling(a)
  BY <1>3 DEF GoOn, GoesOnTelling
<1>4. Failed => StopsTelling \/ GoesOnTelling(a)
  BY <1>2, <1>3 DEF Settles
<1>5. \A c : Calling(c) => Current.call = c /\ (c = "post" => Uses(todo, "post"))
  BY <1>1 DEF Calling, Uses
<1>6. CASE PostAnswered
  BY <1>3, <1>5, <1>6, SettledIs DEF PostAnswered, Answered
<1>7. CASE PostUnanswered
  BY <1>4, <1>5, <1>7 DEF PostUnanswered
<1>8. CASE WriteAnswered \/ WriteUnanswered
  <2>1. PICK c \in {"write", "clear"} : Calling(c) /\ Accepted(c)
    BY <1>8 DEF WriteAnswered, WriteUnanswered, Writes
  <2>2. value[a] = plan[a] => value'[a] = plan[a]
    BY <2>1, PlannedStays
  <2>3. Settles(Current, a) => value'[a] = plan[a]
    BY <2>1, SettledIs
  <2>4. Failed \/ GoOn(outcome)
    BY <1>8 DEF WriteAnswered, WriteUnanswered, Answered
  <2>5. QED
    BY <1>3, <1>4, <2>2, <2>3, <2>4
<1>9. CASE DeleteAnswered \/ DeleteUnanswered
  <2>1. Calling("delete") /\ Accepted("delete")
    BY <1>9 DEF DeleteAnswered, DeleteUnanswered
  <2>2. value[a] = plan[a] => value'[a] = plan[a]
    BY <2>1, PlannedStays
  <2>3. ~Settles(Current, a)
    BY <1>5, <2>1 DEF Settles
  <2>4. Failed \/ GoOn(outcome)
    BY <1>9 DEF DeleteAnswered, DeleteUnanswered, Answered
  <2>5. QED
    BY <1>3, <1>4, <2>2, <2>3, <2>4
<1>10. CASE DeleteMissing
  BY <1>5, <1>10 DEF DeleteMissing, StopsTelling, GoesOnTelling, platform
<1>11. CASE Seen
  <2>1. ~Settles(Current, a)
    BY <1>5, <1>11 DEF Seen, Settles
  <2>2. QED
    BY <1>3, <1>11, <2>1 DEF Seen, Answered, platform
<1>12. CASE Fails
  BY <1>4, <1>12 DEF Fails, platform
<1>13. CASE Records
  BY <1>5, <1>13 DEF Records, GoesOnTelling, platform
<1>14. CASE Refuses
  BY <1>14 DEF Refuses, StopsTelling, platform
<1>15. CASE LetsGo
  BY <1>5, <1>15 DEF LetsGo, GoesOnTelling, platform
<1>16. QED
  BY <1>6, <1>7, <1>8, <1>9, <1>10, <1>11, <1>12, <1>13, <1>14, <1>15 DEF Calls

LEMMA CallsTell ==
  ASSUME TypeInv, ToldInv, Calls, NEW a \in R.unread
  PROVE  Told(a)' /\ NotAhead(a)
<1>1. Told(a) /\ phase = "running" /\ todo \in Seq(StepsOfR) /\ todo # << >> /\ Running
  BY TypeParts, StepForms DEF ToldInv, HandlerOK
<1>2. UNCHANGED <<kind, plan>> /\ SetIn(plan)' = SetIn(plan) /\ a \in Attrs
  BY <1>1, SameKind, TypeParts, TheRule DEF Running, SetIn
<1>3. Orderly(todo, a, SetIn(plan))
  BY <1>1 DEF Told
<1>4. Current = todo[1] /\ Current \in StepsOfR
  BY <1>1, Rest DEF Current
<1>5. Saved("plan").value[a] = plan[a]
  BY <1>2 DEF Saved
<1>6. CASE StopsTelling
  <2>1. Told(a)'
    BY <1>2, <1>6, NoStepsLeft DEF StopsTelling, Told
  <2>2. CASE tf' = tf
    BY <2>1, <2>2 DEF NotAhead
  <2>3. CASE Current.fail = "record" /\ tf' = Saved("plan")
    <3>1. ~ToldAfterwards(todo, a)
      BY <1>1, <1>4, <2>3, ToldRest
    <3>2. tf'.value[a] = tf.value[a] \/ value'[a] = plan[a]
      BY <1>1, <1>3, <1>5, <2>3, <3>1, TellingForms DEF Told
    <3>3. QED
      BY <1>5, <2>1, <2>3, <3>2 DEF NotAhead
  <2>4. QED
    BY <1>6, <2>2, <2>3 DEF StopsTelling
<1>7. CASE GoesOnTelling(a)
  <2>1. /\ Orderly(Tail(todo), a, SetIn(plan)) /\ ~Uses(Tail(todo), "post")
        /\ Current.save = "forget" => ToldAfterwards(Tail(todo), a)
    BY <1>1, <1>3, <1>4, OrderlyRest, NoStepsLeft
  <2>2. ToldAfterwards(todo, a) => /\ ToldAfterwards(Tail(todo), a) \/ Settles(Current, a)
                                   /\ Current.save = "plan" \/ Current.call = "record" => Settles(Current, a)
    BY <1>1, <1>4, ToldRest
  <2>3. Current.save \in {"no", "plan", "keep", "forget"}
    BY <1>4 DEF StepsOfR, StepsOn, Saves
  <2>4. Saved("keep").value[a] = tf.value[a] /\ Saved("forget").value[a] = Forgotten
    BY <1>2 DEF Saved
  <2>5. value'[a] = plan[a] => Told(a)'
    BY <1>2, <1>7, <2>1 DEF GoesOnTelling, Told
  <2>6. ToldAfterwards(Tail(todo), a) \/ tf'.value[a] = plan[a] => Told(a)'
    BY <1>2, <1>7, <2>1 DEF GoesOnTelling, Told
  <2>7. CASE value[a] = plan[a] /\ ~Uses(todo, "post")
    <3>1. value'[a] = plan[a]
      BY <1>3, <2>7, TellingForms
    <3>2. tf'.value[a] \in {tf.value[a], Forgotten, plan[a]}
      BY <1>5, <1>7, <2>3, <2>4 DEF GoesOnTelling
    <3>3. QED
      BY <2>5, <3>1, <3>2 DEF NotAhead
  <2>8. CASE tf.value[a] = plan[a]
    <3>1. \/ tf'.value[a] = plan[a]
          \/ tf'.value[a] = Forgotten /\ ToldAfterwards(Tail(todo), a)
      BY <1>5, <1>7, <2>1, <2>3, <2>4, <2>8 DEF GoesOnTelling
    <3>2. QED
      BY <2>6, <2>8, <3>1 DEF NotAhead
  <2>9. CASE ToldAfterwards(todo, a)
    <3>1. Settles(Current, a) => Current.call \notin {"record", "let go", "delete"}
      BY DEF Settles
    <3>2. Settles(Current, a) => value'[a] = plan[a]
      BY <1>7, <3>1 DEF GoesOnTelling
    <3>3. Told(a)'
      BY <2>2, <2>5, <2>6, <2>9, <3>2
    <3>4. tf'.value[a] \in {tf.value[a], Forgotten} \/ (tf'.value[a] = plan[a] /\ Settles(Current, a))
      BY <1>5, <1>7, <2>2, <2>3, <2>4, <2>9 DEF GoesOnTelling
    <3>5. QED
      BY <3>2, <3>3, <3>4 DEF NotAhead
  <2>10. QED
    BY <1>1, <2>7, <2>8, <2>9 DEF Told
<1>8. QED
  BY <1>3, <1>6, <1>7, TellingForms

\* Nobody else changes what no GET shows.
LEMMA OthersLeaveUnread ==
  ASSUME TypeInv, Others
  PROVE  Elsewhere /\ \A a \in R.unread : value'[a] = value[a]
<1>1. Elsewhere
  BY DEF Others, Settle, Vanish, Land, ProvisionFails, OutsideChange, OutsideDelete
<1>2. ASSUME NEW a \in R.unread
      PROVE  value'[a] = value[a]
  <2>1. a \in Attrs /\ a \notin R.reads /\ a \notin R.queued
    BY TypeParts, TheRule
  <2>2. value \in [Attrs -> 0..2] /\ \A w \in late : w[1] \in R.queued
    BY TypeParts, ValueTypes DEF PlatformOK, LateOK
  <2>3. CASE Land
    <3>1. PICK w \in late : value' = [value EXCEPT ![w[1]] = w[2]]
      BY <2>3 DEF Land
    <3>2. QED
      BY <2>1, <2>2, <3>1
  <2>4. CASE OutsideChange
    <3>1. PICK b \in R.reads : \E x \in Levels(b) \ {value[b]} : value' = [value EXCEPT ![b] = x]
      BY <2>4 DEF OutsideChange
    <3>2. QED
      BY <2>1, <2>2, <3>1
  <2>5. CASE ~Land /\ ~OutsideChange
    BY <2>5 DEF Others, Settle, Vanish, ProvisionFails, OutsideDelete
  <2>6. QED
    BY <2>3, <2>4, <2>5
<1>3. QED
  BY <1>1, <1>2

LEMMA OthersTellNothing ==
  ASSUME TypeInv, ToldInv, Others
  PROVE  ToldInv' /\ \A a \in R.unread : NotAhead(a)
<1>1. /\ R' = R /\ UNCHANGED <<tf, plan, phase, todo>>
      /\ \A a \in R.unread : value'[a] = value[a]
  BY OthersLeaveUnread, SameKind DEF Elsewhere, handler
<1>2. Unset' = Unset /\ SetIn(plan)' = SetIn(plan)
  BY <1>1, OthersLeaveUnread, SameKind DEF Elsewhere, Unset, SetIn
<1>3. ASSUME NEW a \in R.unread, Told(a)
      PROVE  Told(a)'
  BY <1>1, <1>2, <1>3 DEF Told
<1>4. QED
  BY <1>1, <1>2, <1>3 DEF ToldInv, NotAhead

LEMMA TerraformTells ==
  ASSUME TypeInv, ToldInv, Terraform
  PROVE  ToldInv' /\ \A a \in R.unread : NotAhead(a)
<1>1. UNCHANGED kind /\ R' = R /\ Attrs' = Attrs /\ Unset' = Unset
  <2>1. UNCHANGED kind
    BY DEF Terraform, StartCreate, StartUpdate, StartDelete, Start, Return, Refresh, Import
  <2>2. QED
    BY <2>1, SameKind DEF Unset
<1>2. CASE StartCreate \/ StartUpdate \/ StartDelete
  <2>1. UNCHANGED tf
    BY <1>2 DEF StartCreate, StartUpdate, StartDelete, Start
  <2>2. QED
    BY <1>1, <1>2, <2>1, ToldAtStart DEF ToldInv, NotAhead
<1>3. tf \in States /\ R.unread \subseteq Attrs
  BY TypeParts DEF StateOK, Attrs
<1>4. CASE Return
  <2>1. phase' = "returned" /\ (tf' = NoState \/ (tf'.value = tf.value /\ tf'.there = tf.there))
    BY <1>3, <1>4 DEF Return, States
  <2>2. QED
    BY <1>1, <2>1 DEF ToldInv, NotAhead, NoState
<1>5. CASE Refresh
  <2>1. phase' = "ready"
    BY <1>5 DEF Refresh
  <2>2. \/ tf' = tf \/ tf' = NoState
        \/ tf'.there /\ \A a \in R.unread : tf'.value[a] = tf.value[a]
    BY <1>3, <1>5 DEF Refresh, States
  <2>3. QED
    BY <1>1, <2>1, <2>2 DEF ToldInv, NotAhead, NoState
<1>6. CASE Import
  <2>1. phase' = phase /\ phase = "ready" /\ tf'.there /\ \A a \in R.unread : tf'.value[a] = Forgotten
    BY <1>3, <1>6 DEF Import, handler
  <2>2. QED
    BY <1>1, <2>1 DEF ToldInv, NotAhead
<1>7. QED
  BY <1>2, <1>4, <1>5, <1>6 DEF Terraform

LEMMA ToldInit == Init => ToldInv
BY DEF Init, ToldInv, NoState

LEMMA ToldStep ==
  TypeInv /\ ToldInv /\ [Next]_vars => ToldInv' /\ \A a \in R.unread : NotAhead(a)
<1> SUFFICES ASSUME TypeInv, ToldInv, [Next]_vars
             PROVE  ToldInv' /\ \A a \in R.unread : NotAhead(a)
  OBVIOUS
<1>1. CASE Calls
  <2>1. UNCHANGED kind /\ R' = R /\ Unset' = Unset
    BY <1>1, StepForms, SameKind DEF Running, Unset
  <2>2. tf' = tf \/ tf'.there
    BY <1>1, StepForms DEF SavesSome, Saved
  <2>3. QED
    BY <1>1, <2>1, <2>2, CallsTell DEF ToldInv
<1>2. CASE UNCHANGED vars
  <2>1. UNCHANGED <<kind, value, tf, plan, phase, todo>> /\ R' = R /\ Attrs' = Attrs
    BY <1>2, SameKind DEF vars, platform, handler
  <2>2. Unset' = Unset /\ SetIn(plan)' = SetIn(plan)
    BY <2>1 DEF Unset, SetIn
  <2>3. ASSUME NEW a PROVE Told(a)' <=> Told(a)
    BY <2>1, <2>2 DEF Told
  <2>4. QED
    BY <2>1, <2>2, <2>3 DEF ToldInv, NotAhead
<1>3. QED
  BY <1>1, <1>2, OthersTellNothing, TerraformTells DEF Next

\* No handler writes a value that no GET shows into the state before the
\* platform has taken it: what a handler that stops half way has not done stays
\* visible to the next plan.
THEOREM NeverAhead == Spec => StateNeverAhead
<1>1. TypeInv /\ ToldInv /\ [Next]_vars =>
        [\A a \in R.unread :
           tf'.there /\ tf'.value[a] \notin {tf.value[a], Forgotten} => value'[a] = tf'.value[a]]_vars
  BY ToldStep DEF NotAhead
<1>2. QED
  BY <1>1, InitTypes, TypeStep, ToldInit, ToldStep, PTL DEF Spec, StateNeverAhead

-----------------------------------------------------------------------------
(* A success leaves platform and state as planned.                            *)

\* What is left of a condition on all later steps, after the first.
LEMMA LaterRest ==
  ASSUME NEW S, NEW q \in Seq(S), q # << >>, NEW B, NEW i \in DOMAIN q,
         \A j \in DOMAIN q : j > i => q[j] \notin B
  PROVE  \/ i = 1 /\ \A j \in DOMAIN Tail(q) : Tail(q)[j] \notin B
         \/ /\ i - 1 \in DOMAIN Tail(q) /\ Tail(q)[i - 1] = q[i]
            /\ \A j \in DOMAIN Tail(q) : j > i - 1 => Tail(q)[j] \notin B
<1>1. /\ Tail(q) \in Seq(S) /\ Len(q) \in Nat /\ Len(Tail(q)) \in Nat
      /\ DOMAIN q = 1..Len(q) /\ DOMAIN Tail(q) = 1..Len(Tail(q))
  BY HeadTailProperties, EmptySeq, LenProperties
<1>2. \A j \in DOMAIN Tail(q) : j \in Nat /\ j > 0 /\ j + 1 \in DOMAIN q /\ Tail(q)[j] = q[j + 1]
  BY <1>1, Rest
<1>3. i \in Nat /\ (i = 1 \/ (i - 1 \in DOMAIN Tail(q) /\ Tail(q)[i - 1] = q[i]))
  BY <1>1, Rest
<1>4. \A j \in DOMAIN Tail(q) : j > i - 1 => Tail(q)[j] \notin B
  BY <1>2, <1>3
<1>5. i = 1 => \A j \in DOMAIN Tail(q) : Tail(q)[j] \notin B
  BY <1>2, <1>4
<1>6. QED
  BY <1>3, <1>4, <1>5

LEMMA TouchRest ==
  ASSUME NEW S, NEW q \in Seq(S), q # << >>, NEW a, NEW set
  PROVE  /\ LeavesAlone(q, a) => ~Touches(q[1], a) /\ LeavesAlone(Tail(q), a)
         /\ Arrives(q, a, set) => \/ Arrives(Tail(q), a, set)
                                  \/ /\ Touches(q[1], a) /\ LeavesAlone(Tail(q), a)
                                     /\ a \in set => q[1].call # "clear" /\ a \in q[1].of
         /\ SavedLast(q, a) => SavedLast(Tail(q), a) \/ (Sets(q[1]) /\ LeavesAlone(Tail(q), a))
         /\ ~(LeavesAlone(q, a) /\ Arrives(q, a, set))
<1> DEFINE B == {s \in S : Touches(s, a)}
<1>1. /\ \A i \in DOMAIN q : q[i] \in B <=> Touches(q[i], a)
      /\ \A i \in DOMAIN Tail(q) : Tail(q)[i] \in B <=> Touches(Tail(q)[i], a)
  <2>1. Tail(q) \in Seq(S)
    BY Rest
  <2>2. /\ \A i \in DOMAIN q : q[i] \in S
        /\ \A i \in DOMAIN Tail(q) : Tail(q)[i] \in S
    BY <2>1, ElementOfSeq, LenProperties
  <2>3. QED
    BY <2>2
<1> HIDE DEF B
<1>2. LeavesAlone(q, a) => ~Touches(q[1], a) /\ LeavesAlone(Tail(q), a)
  BY Rest DEF LeavesAlone
<1>3. ASSUME Arrives(q, a, set)
      PROVE  \/ Arrives(Tail(q), a, set)
             \/ /\ Touches(q[1], a) /\ LeavesAlone(Tail(q), a)
                /\ a \in set => q[1].call # "clear" /\ a \in q[1].of
  <2>1. PICK i \in DOMAIN q : /\ Touches(q[i], a) /\ (a \in set => q[i].call # "clear" /\ a \in q[i].of)
                             /\ \A j \in DOMAIN q : j > i => ~Touches(q[j], a)
    BY <1>3 DEF Arrives
  <2>2. \A j \in DOMAIN q : j > i => q[j] \notin B
    BY <1>1, <2>1
  <2>3. \/ i = 1 /\ \A j \in DOMAIN Tail(q) : Tail(q)[j] \notin B
        \/ /\ i - 1 \in DOMAIN Tail(q) /\ Tail(q)[i - 1] = q[i]
           /\ \A j \in DOMAIN Tail(q) : j > i - 1 => Tail(q)[j] \notin B
    BY <2>2, LaterRest
  <2>4. QED
    BY <1>1, <2>1, <2>3 DEF Arrives, LeavesAlone
<1>4. ASSUME SavedLast(q, a)
      PROVE  SavedLast(Tail(q), a) \/ (Sets(q[1]) /\ LeavesAlone(Tail(q), a))
  <2>1. PICK i \in DOMAIN q : Sets(q[i]) /\ \A j \in DOMAIN q : j > i => ~Touches(q[j], a)
    BY <1>4 DEF SavedLast
  <2>2. \A j \in DOMAIN q : j > i => q[j] \notin B
    BY <1>1, <2>1
  <2>3. \/ i = 1 /\ \A j \in DOMAIN Tail(q) : Tail(q)[j] \notin B
        \/ /\ i - 1 \in DOMAIN Tail(q) /\ Tail(q)[i - 1] = q[i]
           /\ \A j \in DOMAIN Tail(q) : j > i - 1 => Tail(q)[j] \notin B
    BY <2>2, LaterRest
  <2>4. QED
    BY <1>1, <2>1, <2>3 DEF SavedLast, LeavesAlone
<1>5. ~(LeavesAlone(q, a) /\ Arrives(q, a, set))
  BY DEF LeavesAlone, Arrives
<1>6. QED
  BY <1>2, <1>3, <1>4, <1>5

LEMMA UpRest ==
  ASSUME NEW S, NEW q \in Seq(S), q # << >>, NEW r
  PROVE  /\ StaysUp(r, q) => ~TakesDown(r, q[1]) /\ StaysUp(r, Tail(q))
         /\ Waits(r, q) => Waits(r, Tail(q)) \/ (q[1].call = "wait" /\ StaysUp(r, Tail(q)))
         /\ Looks(q) => Looks(Tail(q)) \/ q[1].call \in {"write", "clear", "get", "wait"}
<1> DEFINE B == {s \in S : TakesDown(r, s)}
<1>1. /\ \A i \in DOMAIN q : q[i] \in B <=> TakesDown(r, q[i])
      /\ \A i \in DOMAIN Tail(q) : Tail(q)[i] \in B <=> TakesDown(r, Tail(q)[i])
  <2>1. Tail(q) \in Seq(S)
    BY Rest
  <2>2. /\ \A i \in DOMAIN q : q[i] \in S
        /\ \A i \in DOMAIN Tail(q) : Tail(q)[i] \in S
    BY <2>1, ElementOfSeq, LenProperties
  <2>3. QED
    BY <2>2
<1> HIDE DEF B
<1>2. StaysUp(r, q) => ~TakesDown(r, q[1]) /\ StaysUp(r, Tail(q))
  BY Rest DEF StaysUp
<1>3. ASSUME Waits(r, q)
      PROVE  Waits(r, Tail(q)) \/ (q[1].call = "wait" /\ StaysUp(r, Tail(q)))
  <2>1. PICK i \in DOMAIN q : q[i].call = "wait" /\ \A j \in DOMAIN q : j > i => ~TakesDown(r, q[j])
    BY <1>3 DEF Waits
  <2>2. \A j \in DOMAIN q : j > i => q[j] \notin B
    BY <1>1, <2>1
  <2>3. \/ i = 1 /\ \A j \in DOMAIN Tail(q) : Tail(q)[j] \notin B
        \/ /\ i - 1 \in DOMAIN Tail(q) /\ Tail(q)[i - 1] = q[i]
           /\ \A j \in DOMAIN Tail(q) : j > i - 1 => Tail(q)[j] \notin B
    BY <2>2, LaterRest
  <2>4. QED
    BY <1>1, <2>1, <2>3 DEF Waits, StaysUp
<1>4. Looks(q) => Looks(Tail(q)) \/ q[1].call \in {"write", "clear", "get", "wait"}
  BY Rest DEF Looks
<1>5. QED
  BY <1>2, <1>3, <1>4

\* The attributes that a success is held to.
Target(a) == a \in R.reads \ R.queued /\ (a \in R.optional => plan[a] # 0)

LEMMA TargetIs ==
  ASSUME kind \in Kinds
  PROVE  /\ \A a : Target(a) <=> a \in Targets(R, SetIn(plan))
         /\ \A a : Target(a) => a \in Attrs /\ a \notin R.unread
<1>1. R.reads \subseteq Attrs /\ \A a \in R.reads : a \notin R.unread
  BY TheRules DEF TellsNothingEarly, Attrs
<1>2. QED
  BY <1>1 DEF Target, Targets, SetIn

\* What is yet to come of a running handler that nothing has gone wrong with:
\* the attribute is as planned, or a later step makes it so; the state has it, or
\* will; the object is up, or waited for, or about to be missed.
Due(a) ==
  /\ (value[a] = plan[a] /\ LeavesAlone(todo, a)) \/ Arrives(todo, a, SetIn(plan))
  /\ (tf.value[a] = plan[a] /\ LeavesAlone(todo, a)) \/ SavedLast(todo, a)
DueUp ==
  R.awaited => \/ Waits(R, todo)
               \/ StaysUp(R, todo) /\ (status = "active" \/ (status = "absent" /\ Looks(todo)))
OnCourse ==
  \/ Uses(todo, "refuse")
  \/ /\ \A i \in DOMAIN todo : todo[i].call \notin {"delete", "gone", "let go"}
     /\ \A a : Target(a) => Due(a)
     /\ tf.there \/ \E i \in DOMAIN todo : Sets(todo[i])
     /\ DueUp

Changing == op \in {"create", "update"} /\ outcome = "ok" /\ ~meddled
Synced ==
  \A a \in R.reads \ R.queued : (a \in R.optional => tf.value[a] # 0) => tf.value[a] = value[a]
Done ==
  /\ tf.there
  /\ \A a : Target(a) => value[a] = plan[a] /\ tf.value[a] = plan[a]
  /\ R.awaited => status = "active"
AppliedInv ==
  /\ phase = "ready" /\ ~meddled /\ tf.there => Synced
  /\ phase = "running" /\ Changing => OnCourse
  /\ phase = "returned" /\ Changing => Done

\* A call that goes well.
Takes(c) == todo[1].call = c /\ Calling(c) /\ Accepted(c)
LEMMA GoodCalls ==
  ASSUME TypeInv, Calls, outcome' = "ok", op # "delete"
  PROVE  /\ todo' = Tail(todo) /\ todo[1].call # "refuse"
         /\ todo[1].call \notin {"delete", "gone", "let go"} =>
              /\ IF Sets(todo[1]) THEN \E how \in Saves : tf' = Saved(how) ELSE tf' = tf
              /\ \/ \E c \in {"post", "write", "clear"} : Takes(c)
                 \/ /\ Untouched /\ todo[1].call \notin {"post", "write", "clear"}
                    /\ todo[1].call = "wait" => status = "active"
                    /\ todo[1].call = "get" => status # "absent"
<1>1. Current = todo[1] /\ (\A c : Calling(c) => todo[1].call = c) /\ Current \in StepsOfR
  BY StepForms, TodoFacts, Rest DEF Current
<1>2. /\ outcome = "ok"
      /\ DeleteMissing \/ PostAnswered \/ WriteAnswered \/ DeleteAnswered \/ Seen \/ Records \/ LetsGo
  BY OkCalls
<1>3. todo' = Tail(todo)
  <2>1. DeleteMissing => todo' = Tail(todo)
    BY DEF DeleteMissing
  <2>2. QED
    BY <2>1, OkCalls
<1>4. todo[1].call # "refuse"
  BY <1>1, <1>2 DEF DeleteMissing, PostAnswered, WriteAnswered, Writes, DeleteAnswered, Seen, Records, LetsGo
<1>5. Answered /\ todo[1].call # "record" =>
        IF Sets(todo[1]) THEN \E how \in Saves : tf' = Saved(how) ELSE tf' = tf
  <2>1. Current.save \in Saves
    BY <1>1 DEF StepsOfR, StepsOn
  <2>2. QED
    BY <1>1, <2>1 DEF Answered, GoOn, Sets
<1>6. ASSUME todo[1].call \notin {"delete", "gone", "let go"}
      PROVE  /\ IF Sets(todo[1]) THEN \E how \in Saves : tf' = Saved(how) ELSE tf' = tf
             /\ \/ \E c \in {"post", "write", "clear"} : Takes(c)
                \/ /\ Untouched /\ todo[1].call \notin {"post", "write", "clear"}
                   /\ todo[1].call = "wait" => status = "active"
                   /\ todo[1].call = "get" => status # "absent"
  <2>1. ~DeleteMissing /\ ~DeleteAnswered /\ ~LetsGo
    BY <1>1, <1>6 DEF DeleteMissing, DeleteAnswered, LetsGo
  <2>2. CASE PostAnswered
    BY <1>1, <1>5, <2>2 DEF PostAnswered, Takes
  <2>3. CASE WriteAnswered
    BY <1>1, <1>5, <2>3 DEF WriteAnswered, Writes, Takes
  <2>4. CASE Seen
    BY <1>1, <1>5, <1>6, <2>4 DEF Seen, Untouched, Exists
  <2>5. CASE Records
    BY <1>1, <2>5 DEF Records, Untouched, Sets, Saves
  <2>6. QED
    BY <1>2, <2>1, <2>2, <2>3, <2>4, <2>5
<1>7. QED
  BY <1>3, <1>4, <1>6

\* What it leaves of an attribute, and of the object.
LEMMA TakesValue ==
  ASSUME TypeInv, NEW a, Target(a), NEW c \in {"post", "write", "clear"}, Takes(c)
  PROVE  /\ Touches(todo[1], a) /\ (a \in SetIn(plan) => todo[1].call # "clear" /\ a \in todo[1].of) =>
              value'[a] = plan[a]
         /\ ~Touches(todo[1], a) => value'[a] = value[a]
<1>1. a \in Attrs /\ a \notin R.queued
  BY TargetIs, TypeParts DEF Target
<1>2. Current = todo[1] /\ todo[1].call = c
  BY TodoFacts DEF Takes, Calling
<1>3. a \notin SetIn(plan) => plan[a] = 0
  BY <1>1 DEF SetIn
<1>4. CASE c = "post"
  BY <1>1, <1>2, <1>3, <1>4 DEF Takes, Accepted, Touches
<1>5. CASE c \in {"write", "clear"}
  BY <1>1, <1>2, <1>3, <1>5 DEF Takes, Accepted, Touches, Written
<1>6. QED
  BY <1>4, <1>5

LEMMA TakesStatus ==
  ASSUME TypeInv, NEW c \in {"post", "write", "clear"}, Takes(c), ~TakesDown(R, todo[1])
  PROVE  status' = status /\ status # "absent"
<1>1. Current = todo[1] /\ todo[1].call = c
  BY TodoFacts DEF Takes, Calling
<1>2. QED
  BY <1>1 DEF Takes, Accepted, TakesDown

LEMMA CallsApply ==
  ASSUME TypeInv, AppliedInv, Calls
  PROVE  AppliedInv'
<1>1. /\ phase = "running" /\ UNCHANGED <<kind, plan, op, phase, meddled>>
      /\ todo \in Seq(StepsOfR) /\ todo # << >>
      /\ outcome' = "ok" => outcome = "ok"
  BY StepForms, OkCalls, TypeParts DEF Running, HandlerOK
<1>2. SUFFICES ASSUME Changing, outcome' = "ok"
               PROVE  OnCourse'
  BY <1>1 DEF AppliedInv, Changing
<1>3. OnCourse /\ op # "delete" /\ todo' = Tail(todo)
  BY <1>1, <1>2, GoodCalls DEF AppliedInv, Changing
<1>4. R' = R /\ SetIn(plan)' = SetIn(plan) /\ (\A a : Target(a)' <=> Target(a)) /\ kind \in Kinds
  BY <1>1, SameKind, TypeParts DEF SetIn, Target
<1>5. CASE Uses(todo, "refuse")
  <2>1. todo[1].call # "refuse"
    BY <1>2, <1>3, GoodCalls
  <2>2. Uses(todo', "refuse")
    BY <1>1, <1>3, <1>5, <2>1, UsesRest
  <2>3. QED
    BY <2>2 DEF OnCourse
<1>6. CASE ~Uses(todo, "refuse")
  <2>1. /\ \A i \in DOMAIN todo : todo[i].call \notin {"delete", "gone", "let go"}
        /\ \A a : Target(a) => Due(a)
        /\ tf.there \/ \E i \in DOMAIN todo : Sets(todo[i])
        /\ DueUp
    BY <1>3, <1>6 DEF OnCourse
  <2>2. \A i \in DOMAIN todo' : todo'[i].call \notin {"delete", "gone", "let go"}
    <3>1. \A i \in DOMAIN Tail(todo) : i + 1 \in DOMAIN todo /\ Tail(todo)[i] = todo[i + 1]
      BY <1>1, Rest
    <3>2. QED
      BY <1>3, <2>1, <3>1
  <2>3. /\ IF Sets(todo[1]) THEN \E how \in Saves : tf' = Saved(how) ELSE tf' = tf
        /\ \/ \E c \in {"post", "write", "clear"} : Takes(c)
           \/ /\ Untouched /\ todo[1].call \notin {"post", "write", "clear"}
              /\ todo[1].call = "wait" => status = "active"
              /\ todo[1].call = "get" => status # "absent"
    <3>1. todo[1].call \notin {"delete", "gone", "let go"}
      BY <1>1, <2>1, Rest
    <3>2. QED
      BY <1>2, <1>3, <3>1, GoodCalls
  <2>4. ASSUME NEW a, Target(a) PROVE Due(a)'
    <3>1. /\ Touches(todo[1], a) /\ (a \in SetIn(plan) => todo[1].call # "clear" /\ a \in todo[1].of) =>
               value'[a] = plan[a]
          /\ ~Touches(todo[1], a) => value'[a] = value[a]
      BY <2>3, <2>4, TakesValue DEF Untouched, platform, Touches
    <3>2. Sets(todo[1]) => tf'.value[a] = value'[a]
      <4>1. a \in Attrs /\ a \notin R.unread /\ (a \in R.optional => plan[a] # 0)
        BY <1>4, <2>4, TargetIs DEF Target
      <4>2. \A how \in Saves : Saved(how).value[a] = value'[a]
        BY <4>1 DEF Saved
      <4>3. QED
        BY <2>3, <4>2
    <3>3. ~Sets(todo[1]) => tf'.value[a] = tf.value[a]
      BY <2>3
    <3>4. Due(a)
      BY <2>1, <2>4
    <3>5. \/ value'[a] = plan[a] /\ LeavesAlone(Tail(todo), a)
          \/ Arrives(Tail(todo), a, SetIn(plan))
      BY <1>1, <3>1, <3>4, TouchRest DEF Due
    <3>6. Tail(todo) = << >> => ~Arrives(Tail(todo), a, SetIn(plan))
      BY DEF Arrives
    <3>7. ~(LeavesAlone(Tail(todo), a) /\ Arrives(Tail(todo), a, SetIn(plan)))
      BY DEF LeavesAlone, Arrives
    <3>8. \/ tf'.value[a] = plan[a] /\ LeavesAlone(Tail(todo), a)
          \/ SavedLast(Tail(todo), a)
      <4>1. CASE tf.value[a] = plan[a] /\ LeavesAlone(todo, a)
        BY <1>1, <3>2, <3>3, <3>5, <3>7, <4>1, TouchRest
      <4>2. CASE SavedLast(todo, a)
        BY <1>1, <3>2, <3>5, <3>7, <4>2, TouchRest
      <4>3. QED
        BY <3>4, <4>1, <4>2 DEF Due
    <3>9. QED
      BY <1>1, <1>3, <1>4, <3>5, <3>8 DEF Due
  <2>5. tf'.there \/ \E i \in DOMAIN todo' : Sets(todo'[i])
    <3>1. Sets(todo[1]) => tf'.there
      BY <2>3 DEF Saved
    <3>2. ~Sets(todo[1]) => tf' = tf
      BY <2>3
    <3>3. (\E i \in DOMAIN todo : Sets(todo[i])) => Sets(todo[1]) \/ \E i \in DOMAIN Tail(todo) : Sets(Tail(todo)[i])
      BY <1>1, Rest
    <3>4. QED
      BY <1>3, <2>1, <3>1, <3>2, <3>3
  <2>6. DueUp'
    <3>1. SUFFICES ASSUME R.awaited
                   PROVE  \/ Waits(R, Tail(todo))
                          \/ /\ StaysUp(R, Tail(todo))
                             /\ status' = "active" \/ (status' = "absent" /\ Looks(Tail(todo)))
      BY <1>3, <1>4 DEF DueUp
    <3>2. ~TakesDown(R, todo[1]) => status' = status
      BY <2>3, TakesStatus DEF Untouched, platform
    <3>3. todo[1].call = "wait" => status' = "active"
      BY <2>3 DEF Untouched, platform, Takes
    <3>4. ~TakesDown(R, todo[1]) /\ todo[1].call \in {"write", "clear", "get", "wait"} => status # "absent"
      BY <2>3, TakesStatus
    <3>5. QED
      BY <1>1, <2>1, <3>1, <3>2, <3>3, <3>4, UpRest DEF DueUp
  <2>7. QED
    BY <1>4, <2>2, <2>4, <2>5, <2>6 DEF OnCourse
<1>7. QED
  BY <1>5, <1>6

\* The calls of a handler, as it starts.
LEMMA StartsApply ==
  ASSUME TypeInv, ToldInv, AppliedInv, StartCreate \/ StartUpdate
  PROVE  AppliedInv'
<1>1. /\ phase = "ready" /\ phase' = "running" /\ UNCHANGED <<kind, tf, value, status>> /\ R' = R
      /\ Attrs' = Attrs /\ kind \in Kinds /\ (~meddled' => ~meddled /\ status \in {"absent", "active"})
  <2>1. /\ phase = "ready" /\ phase' = "running" /\ UNCHANGED <<kind, tf, value, status>>
        /\ meddled' = (meddled \/ status \notin {"absent", "active"})
    BY DEF StartCreate, StartUpdate, Start, platform
  <2>2. QED
    BY <2>1, SameKind, TypeParts
<1>2. SUFFICES ASSUME ~meddled' PROVE OnCourse'
  BY <1>1 DEF AppliedInv, Changing
<1>3. /\ \A a : Target(a)' <=> a \in Targets(R, SetIn(plan'))
      /\ \A a : Target(a)' => a \in R.reads /\ a \in Attrs
  BY <1>1 DEF Target, Targets, SetIn, Attrs
<1>4. SetIn(plan)' = SetIn(plan')
  BY <1>1 DEF SetIn
<1>5. CASE StartCreate
  <2>1. PICK set \in SUBSET Attrs : set = SetIn(plan') /\ todo' \in Creations(R, set)
    BY <1>1, <1>5, CreationStarts DEF ToldInv, StartCreate
  <2>2. Applies(R, todo', set, Attrs) /\ (Uses(todo', "refuse") \/ \E i \in DOMAIN todo' : Sets(todo'[i]))
    BY <1>1, <2>1, TheRules DEF AppliesThePlan, Attrs
  <2>3. status' = "absent"
    BY <1>1, <1>5 DEF StartCreate
  <2>4. CASE ~Uses(todo', "refuse")
    <3>1. \A a : Target(a)' => Due(a)'
      BY <1>3, <1>4, <2>1, <2>2, <2>4 DEF Applies, Due
    <3>2. DueUp'
      BY <1>1, <2>2, <2>3, <2>4 DEF Applies, DueUp
    <3>3. QED
      BY <2>2, <2>4, <3>1, <3>2 DEF OnCourse, Applies
  <2>5. QED
    BY <2>4 DEF OnCourse
<1>6. CASE StartUpdate
  <2>1. PICK set \in SUBSET Attrs, held \in SUBSET Attrs, c \in DOMAIN R.update :
          set = SetIn(plan') /\ c = Changes(plan') /\ todo' \in Updates(R, c, set, held)
    BY <1>6, UpdateStarts
  <2>2. Applies(R, todo', set, c)
    BY <1>1, <2>1, TheRules DEF AppliesThePlan, Attrs
  <2>3. tf.there /\ Synced
    BY <1>1, <1>2, <1>6 DEF StartUpdate, AppliedInv
  <2>4. CASE ~Uses(todo', "refuse")
    <3>1. ASSUME NEW a, Target(a)' PROVE Due(a)'
      <4>1. a \notin c => tf'.value[a] = plan'[a] /\ value'[a] = plan'[a]
        BY <1>1, <1>3, <2>1, <2>3, <3>1 DEF Synced, Target, Changes
      <4>2. \/ a \notin c /\ LeavesAlone(todo', a)
            \/ Arrives(todo', a, set) /\ SavedLast(todo', a)
        BY <1>3, <2>1, <2>2, <2>4, <3>1 DEF Applies
      <4>3. QED
        BY <1>4, <2>1, <4>1, <4>2 DEF Due
    <3>2. DueUp'
      BY <1>1, <1>2, <2>2, <2>4 DEF Applies, DueUp
    <3>3. QED
      BY <1>1, <2>2, <2>3, <2>4, <3>1, <3>2 DEF OnCourse, Applies
  <2>5. QED
    BY <2>4 DEF OnCourse
<1>7. QED
  BY <1>5, <1>6

LEMMA ReturnsApplied ==
  ASSUME TypeInv, AppliedInv, Return
  PROVE  AppliedInv'
<1>1. /\ phase = "running" /\ phase' = "returned" /\ todo = << >>
      /\ UNCHANGED <<kind, value, status, plan, op, outcome, meddled>> /\ R' = R
  BY SameKind DEF Return, platform
<1>2. SUFFICES ASSUME Changing PROVE Done'
  BY <1>1 DEF AppliedInv, Changing
<1>3. tf' = tf /\ \A a : Target(a)' <=> Target(a)
  BY <1>1, <1>2 DEF Return, Changing, Target
<1>4. DOMAIN todo = {}
  BY <1>1, EmptySeq, LenProperties
<1>5. OnCourse /\ ~Uses(todo, "refuse")
  BY <1>1, <1>2, <1>4 DEF AppliedInv, Uses
<1>6. \A a : Target(a) => value[a] = plan[a] /\ tf.value[a] = plan[a]
  BY <1>4, <1>5 DEF OnCourse, Due, Arrives, SavedLast
<1>7. tf.there /\ (R.awaited => status = "active")
  BY <1>4, <1>5 DEF OnCourse, DueUp, Waits, Looks
<1>8. QED
  BY <1>1, <1>3, <1>6, <1>7 DEF Done

LEMMA RefreshApplied ==
  ASSUME TypeInv, AppliedInv, Refresh \/ Import
  PROVE  AppliedInv'
<1>1. /\ phase' = "ready" /\ UNCHANGED <<kind, value>> /\ R' = R /\ kind \in Kinds
      /\ tf \in States
  <2>1. phase' = "ready" /\ UNCHANGED <<kind, value>>
    BY DEF Refresh, Import, platform, handler
  <2>2. QED
    BY <2>1, SameKind, TypeParts DEF StateOK
<1>2. \A a \in R.reads : a \in Attrs /\ a \notin R.unread
  BY <1>1, TheRules DEF TellsNothingEarly, Attrs
<1>3. ASSUME tf'.there, NEW a \in R.reads \ R.queued, a \in R.optional => tf'.value[a] # 0, ~meddled'
      PROVE  tf'.value[a] = value[a]
  <2>1. CASE Refresh
    BY <1>1, <1>2, <1>3, <2>1 DEF Refresh, NoState, States
  <2>2. CASE Import
    BY <1>2, <1>3, <2>2 DEF Import
  <2>3. QED
    BY <2>1, <2>2
<1>4. QED
  BY <1>1, <1>3 DEF AppliedInv, Synced

LEMMA OthersApply ==
  ASSUME TypeInv, AppliedInv, Others
  PROVE  AppliedInv'
<1>1. /\ R' = R /\ Attrs' = Attrs /\ kind \in Kinds
      /\ UNCHANGED <<kind, tf, plan, op, phase, todo, outcome>>
  <2>1. Elsewhere
    BY DEF Others, Settle, Vanish, Land, ProvisionFails, OutsideChange, OutsideDelete
  <2>2. QED
    BY <2>1, SameKind, TypeParts DEF Elsewhere, handler
<1>2. SUFFICES ASSUME ~meddled' PROVE AppliedInv'
  BY <1>1 DEF AppliedInv, Changing
<1>3. ~OutsideChange /\ ~OutsideDelete /\ ~meddled
  BY <1>2 DEF Others, Settle, Vanish, Land, ProvisionFails, OutsideChange, OutsideDelete
<1>4. status \in {"active", "absent"} => status' = status
  BY <1>3 DEF Others, Settle, Vanish, Land, ProvisionFails
<1>5. \A a \in R.reads \ R.queued : value'[a] = value[a]
  <2>1. value \in [Attrs -> 0..2] /\ \A w \in late : w[1] \in R.queued
    BY TypeParts, ValueTypes DEF PlatformOK, LateOK
  <2>2. CASE Land
    <3>1. PICK w \in late : value' = [value EXCEPT ![w[1]] = w[2]]
      BY <2>2 DEF Land
    <3>2. QED
      BY <2>1, <3>1 DEF Attrs
  <2>3. CASE ~Land
    BY <1>3, <2>3 DEF Others, Settle, Vanish, ProvisionFails
  <2>4. QED
    BY <2>2, <2>3
<1>6. SetIn(plan)' = SetIn(plan) /\ (\A a : Target(a)' <=> Target(a))
  BY <1>1 DEF SetIn, Target
<1>7. \A a : Target(a) /\ Due(a) => Due(a)'
  BY <1>1, <1>5, <1>6 DEF Due, Target
<1>8. Synced => Synced'
  BY <1>1, <1>5 DEF Synced
<1>9. DueUp => DueUp'
  BY <1>1, <1>4 DEF DueUp
<1>10. OnCourse => OnCourse'
  BY <1>1, <1>6, <1>7, <1>9 DEF OnCourse
<1>11. Done => Done'
  BY <1>1, <1>4, <1>5, <1>6 DEF Done, Target
<1>12. QED
  BY <1>1, <1>3, <1>8, <1>10, <1>11 DEF AppliedInv, Changing

LEMMA AppliedStep == TypeInv /\ ToldInv /\ AppliedInv /\ [Next]_vars => AppliedInv'
<1> SUFFICES ASSUME TypeInv, ToldInv, AppliedInv, [Next]_vars PROVE AppliedInv'
  OBVIOUS
<1>1. CASE StartDelete
  BY <1>1 DEF StartDelete, Start, AppliedInv, Changing
<1>2. CASE UNCHANGED vars
  <2>1. UNCHANGED <<kind, status, value, tf, plan, op, phase, todo, outcome, meddled>> /\ R' = R /\ Attrs' = Attrs
    BY <1>2, SameKind DEF vars, platform, handler, history
  <2>2. SetIn(plan)' = SetIn(plan) /\ (\A a : Target(a)' <=> Target(a))
    BY <2>1 DEF SetIn, Target
  <2>3. (\A a : Due(a)' <=> Due(a)) /\ (DueUp' <=> DueUp) /\ (Synced' <=> Synced)
    BY <2>1, <2>2 DEF Due, DueUp, Synced
  <2>4. (OnCourse' <=> OnCourse) /\ (Done' <=> Done)
    BY <2>1, <2>2, <2>3 DEF OnCourse, Done
  <2>5. QED
    BY <2>1, <2>3, <2>4 DEF AppliedInv, Changing
<1>3. QED
  BY <1>1, <1>2, CallsApply, StartsApply, ReturnsApplied, RefreshApplied, OthersApply DEF Next, Terraform

\* An operation that reports success, on an object nobody else changed, leaves
\* the platform as planned, the state as the platform, and the object up if the
\* handlers of its type wait for that.
THEOREM SuccessIsPlanned == Spec => []OkMeansApplied
<1>1. Init => AppliedInv
  BY DEF Init, AppliedInv, NoState
<1>2. TypeInv /\ AppliedInv => OkMeansApplied
  BY DEF AppliedInv, OkMeansApplied, Changing, Done, Target
<1>3. QED
  BY <1>1, <1>2, InitTypes, TypeStep, ToldInit, ToldStep, AppliedStep, PTL DEF Spec

-----------------------------------------------------------------------------
(* What the state alone still has is not forgotten.                           *)

Forgetless(q) == \A i \in DOMAIN q : q[i].save # "forget"
SecretsInv == phase = "running" /\ kind \notin ForgetfulKinds => Forgetless(todo)

\* No attribute is forgotten in one step.
NoneForgotten ==
  tf.there /\ tf'.there => \A a \in R.unread : tf'.value[a] = Forgotten => tf.value[a] = Forgotten

LEMMA ForgetlessStarts ==
  ASSUME kind \in Kinds \ ForgetfulKinds, StartCreate \/ StartUpdate \/ StartDelete
  PROVE  Forgetless(todo')
<1>1. Remembers(R)
  BY HandlersAssumption DEF R
<1>2. QED
  BY <1>1, StartsCourse DEF Remembers, Forgetless

LEMMA ForgetlessRest ==
  ASSUME NEW S, NEW q \in Seq(S), q # << >>, Forgetless(q)
  PROVE  Forgetless(Tail(q)) /\ Head(q).save # "forget" /\ Forgetless(<< >>)
<1>1. DOMAIN << >> = {}
  BY EmptySeq, LenProperties
<1>2. QED
  BY <1>1, Rest DEF Forgetless

\* A State.Set that is not to forget takes a value from the plan or keeps it.
LEMMA SavesRemember ==
  ASSUME TypeInv, NEW how \in Saves \ {"forget"}, tf' = Saved(how)
  PROVE  NoneForgotten
<1>1. plan \in [Attrs -> 0..2] /\ R.unread \subseteq Attrs
  BY TypeParts, ValueTypes DEF HandlerOK, Attrs
<1>2. \A a \in R.unread : tf'.value[a] = tf.value[a] \/ tf'.value[a] = plan[a]
  BY <1>1 DEF Saved, Saves
<1>3. \A a \in R.unread : plan[a] # Forgotten
  BY <1>1 DEF Forgotten
<1>4. QED
  BY <1>2, <1>3 DEF NoneForgotten

LEMMA CallsRemember ==
  ASSUME TypeInv, Calls, Forgetless(todo)
  PROVE  NoneForgotten /\ Forgetless(todo')
<1>1. todo # << >> /\ todo' \in {Tail(todo), << >>} /\ todo \in Seq(StepsOfR)
  BY StepForms, TypeParts DEF HandlerOK
<1>2. Current.save \in Saves \ {"forget"} /\ Forgetless(todo')
  <2>1. Current \in StepsOfR
    BY <1>1, Rest DEF Current
  <2>2. QED
    BY <1>1, <2>1, ForgetlessRest DEF Current, StepsOfR, StepsOn
<1>3. tf' = tf \/ \E how \in Saves \ {"forget"} : tf' = Saved(how)
  <2>1. \A o : GoOn(o) => tf' = tf \/ tf' = Saved(Current.save)
    BY DEF GoOn
  <2>2. Failed => tf' = tf \/ tf' = Saved(Current.save) \/ tf' = Saved("plan")
    BY <2>1 DEF Failed
  <2>3. "plan" \in Saves \ {"forget"}
    BY DEF Saves
  <2>4. CASE PostAnswered \/ WriteAnswered \/ DeleteAnswered \/ Seen
    BY <1>2, <2>1, <2>4 DEF PostAnswered, WriteAnswered, DeleteAnswered, Seen, Answered
  <2>5. CASE PostUnanswered \/ WriteUnanswered \/ DeleteUnanswered \/ Fails
    BY <1>2, <2>2, <2>3, <2>5 DEF PostUnanswered, WriteUnanswered, DeleteUnanswered, Fails
  <2>6. CASE DeleteMissing \/ Records \/ Refuses \/ LetsGo
    BY <2>3, <2>6 DEF DeleteMissing, Records, Refuses, LetsGo
  <2>7. QED
    BY <2>4, <2>5, <2>6 DEF Calls
<1>4. tf' = tf => NoneForgotten
  BY DEF NoneForgotten
<1>5. QED
  BY <1>2, <1>3, <1>4, SavesRemember

LEMMA TerraformRemembers ==
  ASSUME TypeInv, SecretsInv, Terraform
  PROVE  NoneForgotten /\ SecretsInv'
<1>1. UNCHANGED kind /\ kind \in Kinds
  BY TypeParts DEF Terraform, StartCreate, StartUpdate, StartDelete, Start, Return, Refresh, Import
<1>2. tf \in States /\ R.unread \subseteq Attrs
  BY TypeParts DEF StateOK, Attrs
<1>3. CASE StartCreate \/ StartUpdate \/ StartDelete
  <2>1. UNCHANGED tf
    BY <1>3 DEF StartCreate, StartUpdate, StartDelete, Start
  <2>2. QED
    BY <1>1, <1>3, <2>1, ForgetlessStarts DEF NoneForgotten, SecretsInv
<1>4. CASE Return
  <2>1. phase' = "returned" /\ (tf' = NoState \/ tf'.value = tf.value)
    BY <1>2, <1>4 DEF Return, States
  <2>2. QED
    BY <2>1 DEF NoneForgotten, SecretsInv, NoState
<1>5. CASE Refresh
  <2>1. phase' = "ready"
    BY <1>5 DEF Refresh
  <2>2. tf' = tf \/ tf' = NoState \/ \A a \in R.unread : tf'.value[a] = tf.value[a]
    BY <1>2, <1>5 DEF Refresh, States
  <2>3. QED
    BY <2>1, <2>2 DEF NoneForgotten, SecretsInv, NoState
<1>6. CASE Import
  BY <1>6 DEF Import, handler, NoneForgotten, SecretsInv
<1>7. QED
  BY <1>3, <1>4, <1>5, <1>6 DEF Terraform

LEMMA SecretsStep ==
  TypeInv /\ SecretsInv /\ [Next]_vars =>
    SecretsInv' /\ (kind \notin ForgetfulKinds => NoneForgotten)
<1> SUFFICES ASSUME TypeInv, SecretsInv, [Next]_vars
             PROVE  SecretsInv' /\ (kind \notin ForgetfulKinds => NoneForgotten)
  OBVIOUS
<1>1. CASE Calls
  <2>1. phase = "running" /\ UNCHANGED kind
    BY <1>1, StepForms DEF Running
  <2>2. QED
    BY <1>1, <2>1, CallsRemember DEF SecretsInv
<1>2. CASE Terraform
  BY <1>2, TerraformRemembers
<1>3. CASE Others \/ UNCHANGED vars
  <2>1. UNCHANGED <<kind, tf, phase, todo>>
    <3>1. Others => Elsewhere
      BY DEF Others, Settle, Vanish, Land, ProvisionFails, OutsideChange, OutsideDelete
    <3>2. QED
      BY <1>3, <3>1 DEF Elsewhere, handler, vars
  <2>2. QED
    BY <2>1 DEF SecretsInv, NoneForgotten, Forgetless
<1>4. QED
  BY <1>1, <1>2, <1>3 DEF Next

\* No step of a handler of any type but the two scale sets, whatever fails and
\* however often, makes the state forget a value that only the state still has.
THEOREM SecretsStay == Spec => SecretsKept
<1>1. Init => SecretsInv
  BY DEF Init, SecretsInv
<1>2. TypeInv /\ SecretsInv /\ [Next]_vars =>
        [kind \notin ForgetfulKinds /\ tf.there /\ tf'.there =>
           \A a \in R.unread : tf'.value[a] = Forgotten => tf.value[a] = Forgotten]_vars
  BY SecretsStep DEF NoneForgotten
<1>3. QED
  BY <1>1, <1>2, InitTypes, TypeStep, SecretsStep, PTL DEF Spec, SecretsKept

-----------------------------------------------------------------------------
(* As long as no update has failed, the state is true about what no GET shows. *)

True(a) == tf.value[a] \in {Forgotten, value[a]}

\* For a running handler: a creation tells of the attribute once its POST has
\* been answered; an update has yet to tell of what it has written, or stops with
\* an error; a deletion leaves it as it is.
Making(a) ==
  /\ \A i \in DOMAIN todo : todo[i].save # "keep"
  /\ \/ ~tf.there /\ (todo = << >> \/ PostsFirst(todo))
     \/ /\ ~Uses(todo, "post") /\ (plan[a] = 0 => value[a] = 0)
        /\ tf.there => tf.value[a] = Forgotten \/ (tf.value[a] = plan[a] /\ value[a] = plan[a])
Untold(a) == value[a] = plan[a] /\ \E j \in DOMAIN todo : Tells(todo[j])
Updating(a) ==
  IF outcome = "error" THEN todo = << >>
  ELSE ~Uses(todo, "post") /\ RecordsWrites(todo, a) /\ (True(a) \/ Untold(a))
Deleting(a) == LeavesAlone(todo, a) /\ True(a)
TruthInv ==
  /\ (phase = "running" => op # "none") /\ (erred => tf.there)
  /\ Busy("create") => ~erred /\ \A a \in R.unread : Making(a)
  /\ Busy("update") /\ ~erred => \A a \in R.unread : Updating(a)
  /\ Busy("delete") /\ ~erred => \A a \in R.unread : Deleting(a)
  /\ SecretsTrue

LEMMA TruthRules ==
  ASSUME kind \in Kinds, NEW a \in R.unread
  PROVE  /\ \A q \in Courses(R.create) : PostsFirst(q) /\ \A i \in DOMAIN q : q[i].save # "keep"
         /\ \A q \in Courses(R.update) : ~Uses(q, "post") /\ RecordsWrites(q, a)
         /\ \A q \in Courses(R.delete) : LeavesAlone(q, a)
<1>1. StaysTrue(R)
  BY HandlersAssumption DEF R
<1>2. QED
  BY <1>1 DEF StaysTrue

\* What the rules say of the steps that are left.
LEMMA TruthRest ==
  ASSUME NEW S, NEW q \in Seq(S), q # << >>, NEW a
  PROVE  /\ LeavesAlone(q, a) => LeavesAlone(Tail(q), a) /\ LeavesAlone(<< >>, a)
         /\ (\A i \in DOMAIN q : q[i].save # "keep") =>
              /\ q[1].save # "keep" /\ \A i \in DOMAIN Tail(q) : Tail(q)[i].save # "keep"
              /\ \A i \in DOMAIN << >> : << >>[i].save # "keep"
         /\ RecordsWrites(q, a) => RecordsWrites(Tail(q), a)
         /\ (\E j \in DOMAIN q : Tells(q[j])) => Tells(q[1]) \/ \E j \in DOMAIN Tail(q) : Tells(Tail(q)[j])
         /\ RecordsWrites(q, a) /\ Touches(q[1], a) => \E j \in DOMAIN q : Tells(q[j])
<1>1. /\ DOMAIN << >> = {} /\ Tail(q) \in Seq(S) /\ Len(q) \in Nat
      /\ DOMAIN q = 1..Len(q) /\ DOMAIN Tail(q) = 1..Len(Tail(q)) /\ Len(Tail(q)) \in Nat
      /\ 1 \in DOMAIN q
  BY HeadTailProperties, EmptySeq, LenProperties, Rest
<1>2. LeavesAlone(q, a) => LeavesAlone(Tail(q), a) /\ LeavesAlone(<< >>, a)
  BY <1>1, Rest DEF LeavesAlone
<1>3. (\A i \in DOMAIN q : q[i].save # "keep") =>
        /\ q[1].save # "keep" /\ \A i \in DOMAIN Tail(q) : Tail(q)[i].save # "keep"
        /\ \A i \in DOMAIN << >> : << >>[i].save # "keep"
  BY <1>1, Rest
<1>4. ASSUME RecordsWrites(q, a), NEW i \in DOMAIN Tail(q), Touches(Tail(q)[i], a)
      PROVE  \E j \in DOMAIN Tail(q) : j >= i /\ Tells(Tail(q)[j])
  <2>1. i \in Nat /\ i > 0 /\ i + 1 \in DOMAIN q /\ Tail(q)[i] = q[i + 1]
    BY <1>1, Rest
  <2>2. PICK j \in DOMAIN q : j >= i + 1 /\ Tells(q[j])
    BY <1>4, <2>1 DEF RecordsWrites
  <2>3. j \in Nat /\ j # 1 /\ j - 1 >= i
    BY <1>1, <2>1, <2>2
  <2>4. j - 1 \in DOMAIN Tail(q) /\ Tail(q)[j - 1] = q[j]
    BY <2>3, Rest
  <2>5. QED
    BY <2>2, <2>3, <2>4
<1>5. RecordsWrites(q, a) => RecordsWrites(Tail(q), a)
  BY <1>4 DEF RecordsWrites
<1>6. (\E j \in DOMAIN q : Tells(q[j])) => Tells(q[1]) \/ \E j \in DOMAIN Tail(q) : Tells(Tail(q)[j])
  BY Rest
<1>7. RecordsWrites(q, a) /\ Touches(q[1], a) => \E j \in DOMAIN q : Tells(q[j])
  BY <1>1 DEF RecordsWrites
<1>8. QED
  BY <1>2, <1>3, <1>5, <1>6, <1>7

\* What a call leaves of an attribute.
LEMMA ValueAfter ==
  ASSUME TypeInv, Calls, NEW a \in R.unread, Orderly(todo, a, SetIn(plan))
  PROVE  \/ value'[a] = value[a]
         \/ Current.call # "post" /\ Touches(Current, a) /\ value'[a] = plan[a]
         \/ Current.call = "post" /\ (plan[a] = 0 => value'[a] = 0)
<1>1. /\ a \in Attrs /\ a \notin R.queued
      /\ Current = todo[1] /\ 1 \in DOMAIN todo /\ \A c : Calling(c) => Current.call = c
  <2>1. todo \in Seq(StepsOfR) /\ todo # << >>
    BY TypeParts, StepForms DEF HandlerOK
  <2>2. QED
    BY <2>1, TypeParts, TheRule, Rest DEF Current, Calling
<1>2. Current.call = "clear" /\ a \in Current.of => plan[a] = 0
  BY <1>1 DEF Orderly, SetIn
<1>3. CASE Untouched
  BY <1>3 DEF Untouched, platform
<1>4. ASSUME NEW c \in {"post", "write", "clear", "delete"}, Calling(c), Accepted(c)
      PROVE  \/ value'[a] = value[a]
             \/ Current.call # "post" /\ Touches(Current, a) /\ value'[a] = plan[a]
             \/ Current.call = "post" /\ (plan[a] = 0 => value'[a] = 0)
  <2>1. Current.call = c
    BY <1>1, <1>4
  <2>2. CASE c = "post"
    BY <1>1, <1>4, <2>1, <2>2 DEF Accepted
  <2>3. CASE c \in {"write", "clear"}
    <3>1. value'[a] = IF a \in Current.of THEN Written(a) ELSE value[a]
      BY <1>1, <1>4, <2>3 DEF Accepted
    <3>2. a \in Current.of => Written(a) = plan[a]
      BY <1>2 DEF Written
    <3>3. QED
      BY <2>1, <2>3, <3>1, <3>2 DEF Touches
  <2>4. CASE c = "delete"
    BY <1>4, <2>4 DEF Accepted
  <2>5. QED
    BY <2>2, <2>3, <2>4
<1>5. QED
  BY <1>3, <1>4, StepForms DEF Effect

\* A creation or an update goes on, and tells if the step is to, or it stops with
\* an error.
LEMMA StopsOrTells ==
  ASSUME TypeInv, Calls, op # "delete"
  PROVE  \/ todo' = << >> /\ outcome' = "error"
         \/ todo' = Tail(todo) /\ outcome' \in {outcome, "warned"} /\ (Tells(Current) => tf' = Saved("plan"))
<1> DEFINE P == \/ todo' = << >> /\ outcome' = "error"
                \/ todo' = Tail(todo) /\ outcome' \in {outcome, "warned"} /\ (Tells(Current) => tf' = Saved("plan"))
<1>1. \A c : Calling(c) => Current.call = c
  BY DEF Calling, Current
<1>2. ASSUME NEW o \in {outcome, "warned"}, GoOn(o), Current.call # "record"
      PROVE  P
  BY <1>2 DEF GoOn, Tells
<1>3. Failed /\ Current.call # "record" => P
  BY <1>2 DEF Failed
<1> SUFFICES P
  OBVIOUS
<1> HIDE DEF P
<1>4. Answered /\ Current.call # "record" => P
  BY <1>2 DEF Answered
<1>5. CASE PostAnswered \/ DeleteAnswered \/ Seen
  BY <1>1, <1>4, <1>5 DEF PostAnswered, DeleteAnswered, Seen
<1>6. CASE PostUnanswered \/ DeleteUnanswered
  BY <1>1, <1>3, <1>6 DEF PostUnanswered, DeleteUnanswered
<1>7. CASE WriteAnswered \/ WriteUnanswered
  <2>1. Answered \/ Failed
    BY <1>7 DEF WriteAnswered, WriteUnanswered
  <2>2. Calling("write") \/ Calling("clear")
    BY <1>7 DEF WriteAnswered, WriteUnanswered, Writes
  <2>3. QED
    BY <1>1, <1>3, <1>4, <2>1, <2>2
<1>8. CASE Fails
  <2>1. PICK c \in {"post", "write", "clear", "wait", "get", "delete", "gone"} : Calling(c)
    BY <1>8 DEF Fails
  <2>2. QED
    BY <1>1, <1>3, <1>8, <2>1 DEF Fails
<1>9. CASE DeleteMissing
  BY <1>1, <1>9 DEF DeleteMissing, Tells, P
<1>10. CASE Records
  BY <1>10 DEF Records, P
<1>11. CASE Refuses
  BY <1>11 DEF Refuses, P
<1>12. CASE LetsGo
  BY <1>1, <1>12 DEF LetsGo, Tells, P
<1>13. QED
  BY <1>5, <1>6, <1>7, <1>8, <1>9, <1>10, <1>11, <1>12 DEF Calls

LEMMA StaysTrueUnwritten ==
  ASSUME NEW a, True(a), value'[a] = value[a], NotAhead(a), tf' = tf \/ tf'.there, Forgotten' = Forgotten
  PROVE  True(a)'
BY DEF True, NotAhead

\* A creation: the first step makes the object or ends it, the others change the
\* attribute to what is planned, if at all.
LEMMA MakingStep ==
  ASSUME TypeInv, ToldInv, Calls, NEW a \in R.unread, Making(a)
  PROVE  Making(a)' /\ (tf'.there => True(a)')
<1>1. /\ todo \in Seq(StepsOfR) /\ todo # << >> /\ Current = todo[1] /\ Head(todo) = Current /\ Current \in StepsOfR
      /\ UNCHANGED <<kind, plan, op>> /\ todo' \in {Tail(todo), << >>}
  BY TypeParts, StepForms, Rest DEF HandlerOK, Current, Running
<1>2. Told(a) /\ Orderly(todo, a, SetIn(plan)) /\ NotAhead(a) /\ a \in Attrs
  BY <1>1, CallsTell, StepForms, TypeParts, TheRule DEF ToldInv, Told
<1>3. /\ \A i \in DOMAIN todo' : todo'[i].save # "keep"
      /\ Current.save \in {"no", "plan", "forget"} /\ ~Uses(todo', "post")
  <2>1. /\ Current.save # "keep" /\ \A i \in DOMAIN Tail(todo) : Tail(todo)[i].save # "keep"
        /\ \A i \in DOMAIN << >> : << >>[i].save # "keep"
    BY <1>1, TruthRest DEF Making
  <2>2. ~Uses(Tail(todo), "post") /\ ~Uses(<< >>, "post")
    BY <1>1, <1>2, OrderlyRest, UsesNone
  <2>3. QED
    BY <1>1, <2>1, <2>2 DEF StepsOfR, StepsOn, Saves
<1>4. Saved("plan").value[a] = plan[a] /\ Saved("forget").value[a] = Forgotten
  BY <1>2 DEF Saved
<1>5. tf' = tf \/ (tf'.there /\ tf'.value[a] \in {Forgotten, plan[a]})
  <2>1. tf' = tf \/ tf' = Saved("plan") \/ tf' = Saved("forget")
    <3>1. \A o : GoOn(o) => tf' = tf \/ tf' = Saved("plan") \/ tf' = Saved("forget")
      BY <1>3 DEF GoOn
    <3>2. Failed => tf' = tf \/ tf' = Saved("plan") \/ tf' = Saved("forget")
      BY <3>1 DEF Failed
    <3>3. QED
      BY <3>1, <3>2 DEF Calls, PostAnswered, PostUnanswered, WriteAnswered, WriteUnanswered, DeleteAnswered,
         DeleteUnanswered, DeleteMissing, Seen, Fails, Records, Refuses, LetsGo, Answered
  <2>2. Saved("plan").there /\ Saved("forget").there
    BY DEF Saved
  <2>3. QED
    BY <1>4, <2>1, <2>2
<1>6. plan[a] # Forgotten
  <2>1. plan \in [Attrs -> 0..2]
    BY TypeParts, ValueTypes DEF HandlerOK
  <2>2. QED
    BY <1>2, <2>1 DEF Forgotten
<1>7. ~tf.there => tf.value[a] = 0
  BY <1>2 DEF ToldInv, Unset
\* What is to be shown of the state, once the value is known not to be unset.
<1>8. ASSUME plan[a] = 0 => value'[a] = 0,
             tf' = tf /\ tf.there => tf.value[a] = Forgotten \/ (tf.value[a] = plan[a] /\ value'[a] = plan[a]),
             tf.there => tf.value[a] = Forgotten \/ (tf.value[a] = plan[a] /\ value'[a] = plan[a])
      PROVE  Making(a)' /\ (tf'.there => True(a)')
  <2>1. tf'.there => tf'.value[a] = Forgotten \/ (tf'.value[a] = plan[a] /\ value'[a] = plan[a])
    <3>1. CASE tf' = tf
      BY <1>8, <3>1
    <3>2. CASE tf'.there /\ tf'.value[a] = plan[a]
      <4>1. CASE tf.there
        BY <1>2, <1>6, <1>8, <3>2, <4>1 DEF NotAhead
      <4>2. CASE ~tf.there
        BY <1>2, <1>6, <1>7, <1>8, <3>2, <4>2 DEF NotAhead
      <4>3. QED
        BY <4>1, <4>2
    <3>3. QED
      BY <1>5, <3>1, <3>2
  <2>2. Making(a)'
    BY <1>1, <1>3, <1>8, <2>1 DEF Making, Forgotten
  <2>3. QED
    BY <2>1, <2>2 DEF True, Forgotten
<1>9. CASE PostsFirst(todo) /\ ~tf.there
  <2>1. Current.call = "post" /\ Current.fail = "stop"
    BY <1>1, <1>9 DEF PostsFirst
  <2>2. PostAnswered \/ PostUnanswered \/ Fails
    BY <1>1, <2>1 DEF Calls, PostAnswered, PostUnanswered, WriteAnswered, WriteUnanswered, Writes, DeleteAnswered,
       DeleteUnanswered, DeleteMissing, Seen, Fails, Records, Refuses, LetsGo, Calling
  <2>3. CASE PostAnswered
    <3>1. plan[a] = 0 => value'[a] = 0
      BY <1>2, <2>3 DEF PostAnswered, Accepted
    <3>2. QED
      BY <1>8, <1>9, <3>1
  <2>4. CASE PostUnanswered \/ Fails
    <3>1. Failed
      BY <2>4 DEF PostUnanswered, Fails
    <3>2. todo' = << >> /\ tf' = tf
      BY <2>1, <3>1 DEF Failed
    <3>3. QED
      BY <1>3, <1>9, <3>2 DEF Making
  <2>5. QED
    BY <2>2, <2>3, <2>4
<1>10. CASE /\ ~Uses(todo, "post") /\ (plan[a] = 0 => value[a] = 0)
            /\ tf.there => tf.value[a] = Forgotten \/ (tf.value[a] = plan[a] /\ value[a] = plan[a])
  <2>1. Current.call # "post"
    BY <1>1, <1>10, Rest DEF Uses
  <2>2. value'[a] = value[a] \/ value'[a] = plan[a]
    BY <1>2, <2>1, ValueAfter
  <2>3. QED
    BY <1>8, <1>10, <2>2
<1>11. QED
  BY <1>1, <1>9, <1>10 DEF Making

\* An update: what is written is recorded by the last step that does so.
LEMMA UpdatingStep ==
  ASSUME TypeInv, ToldInv, Calls, op = "update", NEW a \in R.unread, Updating(a)
  PROVE  Updating(a)'
<1>1. /\ todo \in Seq(StepsOfR) /\ todo # << >> /\ Current = todo[1]
      /\ UNCHANGED <<kind, plan, op>> /\ (tf' = tf \/ tf'.there)
  <2>1. tf' = tf \/ tf'.there
    BY StepForms DEF SavesSome, Saved
  <2>2. QED
    BY <2>1, TypeParts, StepForms, Rest DEF HandlerOK, Current, Running
<1>2. Orderly(todo, a, SetIn(plan)) /\ NotAhead(a) /\ a \in Attrs
  BY <1>1, CallsTell, StepForms, TypeParts, TheRule DEF ToldInv, Told
<1>3. /\ outcome # "error" /\ ~Uses(todo, "post") /\ RecordsWrites(todo, a)
      /\ True(a) \/ Untold(a)
  BY <1>1 DEF Updating
<1>4. CASE todo' = << >> /\ outcome' = "error"
  BY <1>4 DEF Updating
<1>5. CASE todo' = Tail(todo) /\ outcome' \in {outcome, "warned"} /\ (Tells(Current) => tf' = Saved("plan"))
  <2>1. ~Uses(todo', "post") /\ RecordsWrites(todo', a)
    BY <1>1, <1>2, <1>3, <1>5, OrderlyRest, TruthRest
  <2>2. Tells(Current) => tf'.value[a] = plan[a]
    BY <1>2, <1>5 DEF Saved
  <2>3. Current.call # "post"
    BY <1>1, <1>3, Rest DEF Uses
  <2>4. ASSUME value'[a] = plan[a], \E j \in DOMAIN todo : Tells(todo[j])
        PROVE  True(a)' \/ Untold(a)'
    <3>1. Tells(Current) \/ \E j \in DOMAIN todo' : Tells(todo'[j])
      BY <1>1, <1>5, <2>4, TruthRest
    <3>2. Tells(Current) => True(a)'
      BY <2>2, <2>4 DEF True
    <3>3. QED
      BY <1>1, <2>4, <3>1, <3>2 DEF Untold
  <2>5. True(a)' \/ Untold(a)'
    <3>1. CASE Untold(a)
      BY <1>2, <1>3, <2>4, <3>1, TellingForms DEF Untold
    <3>2. CASE True(a) /\ value'[a] = value[a]
      BY <1>1, <1>2, <3>2, StaysTrueUnwritten DEF Forgotten
    <3>3. CASE Touches(Current, a) /\ value'[a] = plan[a]
      BY <1>1, <1>3, <2>4, <3>3, TruthRest
    <3>4. QED
      BY <1>2, <1>3, <2>3, <3>1, <3>2, <3>3, ValueAfter
  <2>6. outcome' # "error"
    BY <1>3, <1>5
  <2>7. QED
    BY <2>1, <2>5, <2>6 DEF Updating
<1>6. QED
  BY <1>4, <1>5, StopsOrTells

\* A deletion writes nothing.
LEMMA DeletingStep ==
  ASSUME TypeInv, ToldInv, Calls, NEW a \in R.unread, Deleting(a)
  PROVE  Deleting(a)'
<1>1. /\ todo \in Seq(StepsOfR) /\ todo # << >> /\ Current = todo[1] /\ 1 \in DOMAIN todo
      /\ todo' \in {Tail(todo), << >>} /\ (tf' = tf \/ tf'.there)
  <2>1. tf' = tf \/ tf'.there
    BY StepForms DEF SavesSome, Saved
  <2>2. QED
    BY <2>1, TypeParts, StepForms, Rest DEF HandlerOK, Current
<1>2. Orderly(todo, a, SetIn(plan)) /\ NotAhead(a)
  BY CallsTell, StepForms DEF ToldInv, Told
<1>3. LeavesAlone(todo', a) /\ ~Touches(Current, a)
  BY <1>1, TruthRest DEF Deleting, LeavesAlone
<1>4. value'[a] = value[a]
  BY <1>2, <1>3, ValueAfter DEF Touches
<1>5. QED
  BY <1>1, <1>2, <1>3, <1>4, StaysTrueUnwritten DEF Deleting, Forgotten

LEMMA CallsKeepTruth == ASSUME TypeInv, ToldInv, TruthInv, Calls PROVE TruthInv'
<1>1. /\ phase = "running" /\ UNCHANGED <<kind, op, phase, erred>> /\ R' = R
      /\ \A o : Busy(o)' <=> Busy(o)
  BY StepForms, SameKind DEF Running, Busy
<1>2. Busy("create")' => ~erred' /\ \A a \in R.unread : Making(a)'
  BY <1>1, MakingStep DEF TruthInv
<1>3. Busy("update")' /\ ~erred' => \A a \in R.unread : Updating(a)'
  BY <1>1, UpdatingStep DEF TruthInv, Busy
<1>4. Busy("delete")' /\ ~erred' => \A a \in R.unread : Deleting(a)'
  BY <1>1, DeletingStep DEF TruthInv
<1>5. tf' = tf \/ tf'.there
  BY StepForms DEF SavesSome, Saved
<1>6. QED
  BY <1>1, <1>2, <1>3, <1>4, <1>5 DEF TruthInv, SecretsTrue

\* A handler starts from a state that is true, or from none.
LEMMA StartsTrue ==
  ASSUME TypeInv, TruthInv, StartCreate \/ StartUpdate \/ StartDelete
  PROVE  TruthInv'
<1>1. /\ kind \in Kinds /\ UNCHANGED <<kind, tf, value>> /\ R' = R
      /\ phase' = "running" /\ phase = "ready" /\ outcome' = "ok"
  <2>1. UNCHANGED <<kind, tf, value>> /\ phase' = "running" /\ phase = "ready" /\ outcome' = "ok"
    BY DEF StartCreate, StartUpdate, StartDelete, Start, platform
  <2>2. QED
    BY <2>1, TypeParts, SameKind
<1>2. SecretsTrue'
  BY <1>1 DEF SecretsTrue
<1>3. tf.there /\ ~erred => \A a \in R.unread : True(a)'
  BY <1>1 DEF TruthInv, SecretsTrue, True, Forgotten
<1>4. CASE StartCreate
  <2>1. op' = "create" /\ ~erred' /\ ~tf'.there
    BY <1>1, <1>4 DEF StartCreate, Start, TruthInv
  <2>2. ASSUME NEW a \in R.unread
        PROVE  Making(a)'
    BY <1>1, <1>4, <2>1, TruthRules, StartsCourse DEF Making
  <2>3. QED
    BY <1>1, <1>2, <2>1, <2>2 DEF TruthInv, Busy
<1>5. CASE StartUpdate
  <2>1. op' = "update" /\ (~erred' => ~erred) /\ tf.there
    BY <1>5 DEF StartUpdate, Start
  <2>2. ASSUME NEW a \in R.unread, ~erred'
        PROVE  Updating(a)'
    BY <1>1, <1>3, <1>5, <2>1, <2>2, TruthRules, StartsCourse DEF Updating
  <2>3. QED
    BY <1>1, <1>2, <2>1, <2>2 DEF TruthInv, Busy
<1>6. CASE StartDelete
  <2>1. op' = "delete" /\ (~erred' => ~erred) /\ tf.there
    BY <1>6 DEF StartDelete, Start
  <2>2. ASSUME NEW a \in R.unread, ~erred'
        PROVE  Deleting(a)'
    BY <1>1, <1>3, <1>6, <2>1, <2>2, TruthRules, StartsCourse DEF Deleting
  <2>3. QED
    BY <1>1, <1>2, <2>1, <2>2 DEF TruthInv, Busy
<1>7. QED
  BY <1>4, <1>5, <1>6

\* When the last step has been taken, what was written has been recorded.
LEMMA ReturnsTrue ==
  ASSUME TypeInv, TruthInv, Return, tf'.there, ~erred', NEW a \in R.unread
  PROVE  True(a)'
<1>1. /\ phase = "running" /\ todo = << >> /\ UNCHANGED <<value, plan, outcome>>
      /\ erred' = (erred \/ (op = "update" /\ outcome = "error"))
  BY DEF Return, platform
<1>2. tf'.value = tf.value /\ tf.there
  <2>1. tf \in States
    BY TypeParts DEF StateOK
  <2>2. tf' # NoState
    BY DEF NoState
  <2>3. QED
    BY <2>1, <2>2 DEF Return, States
<1>3. Forgotten' = Forgotten /\ DOMAIN << >> = {} /\ op \in {"create", "update", "delete"}
  <2>1. DOMAIN << >> = {}
    BY EmptySeq, LenProperties
  <2>2. op \in {"create", "update", "delete"}
    BY <1>1, TypeParts DEF HandlerOK, TruthInv
  <2>3. QED
    BY <2>1, <2>2 DEF Forgotten
<1>4. True(a)
  <2>1. CASE op = "create"
    BY <1>1, <1>2, <2>1 DEF TruthInv, Busy, Making, PostsFirst, True
  <2>2. CASE op = "update"
    BY <1>1, <1>3, <2>2 DEF TruthInv, Busy, Updating, Untold
  <2>3. CASE op = "delete"
    BY <1>1, <2>3 DEF TruthInv, Busy, Deleting
  <2>4. QED
    BY <1>3, <2>1, <2>2, <2>3
<1>5. QED
  BY <1>1, <1>2, <1>3, <1>4 DEF True

LEMMA TerraformKeepsTruth == ASSUME TypeInv, TruthInv, Terraform PROVE TruthInv'
<1>1. UNCHANGED kind /\ R' = R /\ Attrs' = Attrs /\ tf \in States /\ R.unread \subseteq Attrs
  <2>1. UNCHANGED kind
    BY DEF Terraform, StartCreate, StartUpdate, StartDelete, Start, Return, Refresh, Import
  <2>2. QED
    BY <2>1, SameKind, TypeParts DEF StateOK, Attrs
<1>2. ASSUME phase' # "running", tf'.there /\ ~erred' => \A a \in R.unread : True(a)', erred' => tf'.there
      PROVE  TruthInv'
  BY <1>1, <1>2 DEF TruthInv, Busy, SecretsTrue, True
<1>3. CASE Return
  <2>1. phase' # "running" /\ (erred' => tf'.there)
    BY <1>3 DEF Return
  <2>2. QED
    BY <1>2, <1>3, <2>1, ReturnsTrue
<1>4. CASE Refresh
  <2>1. phase # "running" /\ phase' # "running" /\ UNCHANGED value /\ erred' = (tf'.there /\ erred)
    BY <1>4 DEF Refresh, platform
  <2>2. tf'.there => tf.there /\ \A a \in R.unread : tf'.value[a] = tf.value[a]
    BY <1>1, <1>4 DEF Refresh, States, NoState
  <2>3. QED
    BY <1>2, <2>1, <2>2 DEF TruthInv, SecretsTrue, True, Forgotten
<1>5. CASE Import
  <2>1. phase' # "running" /\ tf'.there /\ \A a \in R.unread : tf'.value[a] = Forgotten
    BY <1>1, <1>5 DEF Import, handler
  <2>2. QED
    BY <1>2, <2>1 DEF True, Forgotten
<1>6. QED
  BY <1>3, <1>4, <1>5, StartsTrue DEF Terraform

LEMMA OthersKeepTruth ==
  ASSUME TypeInv, TruthInv, Others \/ UNCHANGED vars
  PROVE  TruthInv'
<1>1. /\ UNCHANGED <<kind, tf, plan, op, phase, todo, outcome, erred>> /\ R' = R
      /\ \A a \in R.unread : value'[a] = value[a]
  <2>1. CASE Others
    BY <2>1, OthersLeaveUnread, SameKind DEF Elsewhere, handler
  <2>2. CASE UNCHANGED vars
    BY <2>2, SameKind DEF vars, platform, handler, history
  <2>3. QED
    BY <2>1, <2>2
<1>2. ASSUME NEW a \in R.unread
      PROVE  /\ Making(a) => Making(a)'
             /\ Updating(a) => Updating(a)'
             /\ Deleting(a) => Deleting(a)'
  BY <1>1 DEF Making, Updating, Untold, Deleting, True, Forgotten
<1>3. SecretsTrue'
  BY <1>1 DEF TruthInv, SecretsTrue, Forgotten
<1>4. QED
  BY <1>1, <1>2, <1>3 DEF TruthInv, Busy

LEMMA TruthStep == TypeInv /\ ToldInv /\ TruthInv /\ [Next]_vars => TruthInv'
BY CallsKeepTruth, TerraformKeepsTruth, OthersKeepTruth DEF Next

\* As long as no update of an object has failed since it was created or imported,
\* the state says of what no GET shows what the platform has, or nothing: lost
\* answers to creations, failed creations and deletions, updates that end with a
\* warning, and what others do to the object never make the two differ.
THEOREM SecretsAreTrue == Spec => []SecretsTrue
<1>1. Init => TruthInv
  BY DEF Init, TruthInv, Busy, SecretsTrue, NoState
<1>2. TruthInv => SecretsTrue
  BY DEF TruthInv
<1>3. QED
  BY <1>1, <1>2, InitTypes, TypeStep, ToldStep, ToldInit, TruthStep, PTL DEF Spec
=============================================================================
