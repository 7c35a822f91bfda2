----------------------------- MODULE HandlerSteps -----------------------------
(***************************************************************************)
(* The vocabulary in which the handlers of single-object resources are     *)
(* written: a handler is a sequence of steps, a step one call of the       *)
(* client (internal/client/client.go) and the code up to the next call.    *)
(*                                                                         *)
(* A step says which call it makes, which attributes the call writes, what *)
(* the handler then does to Terraform state, and what a failure of the     *)
(* call means: "stop" with an error, "record" the object and then stop, or *)
(* "skip" it and go on with a warning.                                     *)
(***************************************************************************)
EXTENDS Naturals, Sequences, FiniteSets

\* resp.State.Set: not at all; the object as the platform shows it, with the
\* attributes it never shows taken from the plan or kept from the prior state,
\* or forgotten.
Saves == {"no", "plan", "keep", "forget"}
Failures == {"stop", "record", "skip"}

Step(call, attrs) ==
  [call |-> call, of |-> attrs, save |-> "no", fail |-> "stop", if |-> {}]
Do(call) == <<Step(call, {})>>

Post(attrs) == <<Step("post", attrs)>>    \* create the object
Write(attrs) == <<Step("write", attrs)>>  \* PATCH, PUT, attach, resize, rotate...
Clear(attrs) == <<Step("clear", attrs)>>  \* detach, remove
Wait == Do("wait")                        \* poll until the object is up
Get == Do("get")
List == Do("get")                         \* a list the handler looks something up in
Delete == Do("delete")
Gone == Do("gone")                        \* client.PollUntilDeleted
Record == Do("record")                    \* no call: a State.Set of its own
Refuse == Do("refuse")                    \* no call: the handler reports an error
LetGo == Do("let go")                     \* no call: the state forgets the object

WithLast(p, field, x) == [p EXCEPT ![Len(p)][field] = x]
Saving(p) == WithLast(p, "save", "plan")
SavingOld(p) == WithLast(p, "save", "keep")
Forgetting(p) == WithLast(p, "save", "forget")
OrRecord(p) == [i \in DOMAIN p |-> [p[i] EXCEPT !.fail = "record"]]
OrWarn(p) == WithLast(p, "fail", "skip")

When(condition, p) == IF condition THEN p ELSE << >>

\* Steps taken only if the plan sets, or unsets, an attribute, or the state the
\* handler started from has it set.
Given(condition, p) == [i \in DOMAIN p |-> [p[i] EXCEPT !.if = @ \union {condition}]]
IfSet(a, p) == Given(<<"plan", a, TRUE>>, p)
IfUnset(a, p) == Given(<<"plan", a, FALSE>>, p)
IfHeld(a, p) == Given(<<"state", a, TRUE>>, p)

\* Of the steps of a program, those whose conditions are among these, and those
\* that a plan and a prior state call for which have these attributes set.
Conditions(program) == UNION {program[i].if : i \in DOMAIN program}
Chosen(program, holds) == SelectSeq(program, LAMBDA s : s.if \subseteq holds)
Course(program, set, held) ==
  Chosen(program, {c \in Conditions(program) : c[3] = (c[2] \in IF c[1] = "plan" THEN set ELSE held)})

\* The programs of a handler, by the attributes that the plan changes: what the
\* platform answers, and attributes not modelled, may leave a choice.
Some(attrs) == SUBSET attrs \ {{}}
Any(attrs, programs) == [c \in SUBSET attrs |-> programs]
Never == [c \in {} |-> {}]  \* every change replaces the object

\* The most common handlers: one call, and the state is written from its answer.
Posted(attrs) == Any(attrs, {Saving(Post(attrs))})
Patched(attrs) == [c \in Some(attrs) |-> {Saving(Write(c))}]
Deleted(attrs) == Any(attrs, {Delete})
DeletedGone(attrs) == Any(attrs, {Delete \o Gone})

\* A resource: the attributes the platform shows and those it never shows, and
\* its handlers.  Deletion programs go by the attributes that have been set.
Resource(reads, unread, create, update, delete) ==
  [reads |-> reads, unread |-> unread,
   moved |-> {},     \* attributes that name another object: one of two, or none
   queued |-> {},    \* attributes whose writes take effect later, unawaited
   slow |-> {},      \* attributes whose change takes the object down for a while
   optional |-> {},  \* attributes read only where the configuration sets them
   required |-> {},  \* attributes never shown that every configuration sets
   background |-> FALSE,  \* does the platform provision in the background?
   awaited |-> FALSE,     \* does the handler's success mean that it is up?
   create |-> create, update |-> update, delete |-> delete]

Background(r) == [r EXCEPT !.background = TRUE]
Provisioned(r) == [r EXCEPT !.background = TRUE, !.awaited = TRUE]

-----------------------------------------------------------------------------
(* Rules for programs, and what they are good for.  They are about all the   *)
(* courses that a handler may take, whichever of its conditions hold.        *)

Courses(handler) ==
  UNION {UNION {{Chosen(program, holds) : holds \in SUBSET Conditions(program)} :
                  program \in handler[c]} : c \in DOMAIN handler}

CallNames == {"post", "write", "clear", "wait", "get", "delete", "gone", "record", "refuse", "let go"}
StepsOn(attrs) ==
  [call : CallNames, of : SUBSET attrs, save : Saves, fail : Failures,
   if : SUBSET ({"plan", "state"} \X attrs \X BOOLEAN)]
Uses(q, call) == \E i \in DOMAIN q : q[i].call = call
Preserves(q) == ~Uses(q, "post") /\ ~Uses(q, "delete")

\* There are programs for every object, and their steps are steps.
WellFormed(r) ==
  LET attrs == r.reads \union r.unread
  IN  /\ DOMAIN r.create = SUBSET attrs /\ DOMAIN r.delete = SUBSET attrs
      /\ Courses(r.create) \union Courses(r.update) \union Courses(r.delete)
           \subseteq Seq(StepsOn(attrs))
      /\ r.background \in BOOLEAN

\* However these steps end, the state is written.
SurelySaved(q) ==
  \E n \in DOMAIN q :
    /\ q[n].save # "no" \/ q[n].call = "record"
    /\ \A i \in 1..n : \/ q[i].call = "record"
                       \/ q[i].call \notin {"refuse", "let go"} /\ q[i].fail \in {"record", "skip"}

\* A creation begins with its POST, which makes the object or ends it.
PostsFirst(q) == q # << >> /\ q[1].call = "post" /\ q[1].fail = "stop"

\* A creation begins with its POST; the state is written with it or, come what
\* may, after it, and nothing the handlers do later unmakes the object.
MakesFirst(q) ==
  /\ PostsFirst(q)
  /\ Preserves(Tail(q))
  /\ q[1].save # "no" \/ SurelySaved(Tail(q))
RecordsWhatItMakes(r) ==
  /\ \A q \in Courses(r.create) : MakesFirst(q)
  /\ \A q \in Courses(r.update) : Preserves(q)

\* A deletion asks for it, gives up where that fails, and makes nothing.
DeletesOnly(q) ==
  /\ ~Uses(q, "post")
  /\ \A i \in DOMAIN q : q[i].call = "delete" => q[i].fail = "stop"
DeletesWhatItForgets(r) ==
  \A q \in Courses(r.delete) : Uses(q, "delete") /\ DeletesOnly(q)

\* The courses of a creation or an update, by the attributes that the plan sets,
\* those it changes and those the prior state holds.
Creations(r, set) == {Course(program, set, {}) : program \in r.create[set]}
Updates(r, c, set, held) ==
  {Course(program, set, held) : program \in IF c \subseteq set \union held THEN r.update[c] ELSE {}}

\* A step after which an attribute is as planned, or the handler has stopped.
Settles(s, a) == s.call \in {"post", "write", "clear"} /\ a \in s.of /\ s.fail # "skip"

\* The planned value of an attribute enters the state only after it is written.
ToldAfterwards(q, a) ==
  \A i \in DOMAIN q :
    /\ q[i].save = "plan" \/ q[i].call = "record" => \E j \in 1..i : Settles(q[j], a)
    /\ q[i].fail = "record" => \E j \in 1..(i - 1) : Settles(q[j], a)

\* Nothing is made late, forgotten early or removed that the plan sets.
Orderly(q, a, set) ==
  \A i \in DOMAIN q :
    /\ q[i].call = "post" => i = 1
    /\ q[i].save = "forget" => i = Len(q)
    /\ q[i].call = "clear" /\ a \in q[i].of => a \notin set

\* No handler tells of an attribute that no GET shows before it is written.
TellsNothingEarly(r) ==
  LET attrs == r.reads \union r.unread
  IN  /\ r.unread \intersect (r.reads \union r.queued) = {}
      /\ \A a \in r.unread, set \in SUBSET attrs :
           /\ \A q \in Creations(r, set) : Orderly(q, a, set) /\ (a \in set => ToldAfterwards(q, a))
           /\ \A c \in DOMAIN r.update, held \in SUBSET attrs : \A q \in Updates(r, c, set, held) :
                Orderly(q, a, set) /\ (a \in c => ToldAfterwards(q, a))
      /\ \A a \in r.unread : \A q \in Courses(r.delete) : Orderly(q, a, {}) /\ ToldAfterwards(q, a)

\* No handler writes the state without the values it cannot read again.
Remembers(r) ==
  \A q \in Courses(r.create) \union Courses(r.update) \union Courses(r.delete) :
    \A i \in DOMAIN q : q[i].save # "forget"

\* What the last step on an attribute leaves there is what is planned.
Touches(s, a) == s.call = "post" \/ (s.call \in {"write", "clear"} /\ a \in s.of)
LeavesAlone(q, a) == \A i \in DOMAIN q : ~Touches(q[i], a)
Arrives(q, a, set) ==
  \E i \in DOMAIN q : /\ Touches(q[i], a) /\ (a \in set => q[i].call # "clear" /\ a \in q[i].of)
                      /\ \A j \in DOMAIN q : j > i => ~Touches(q[j], a)

\* The planned value enters the state once a step of an update has written it, or
\* the update stops.
Tells(s) == s.call = "record" \/ (s.save = "plan" /\ s.call \notin {"delete", "let go"})
RecordsWrites(q, a) ==
  \A i \in DOMAIN q : Touches(q[i], a) => \E j \in DOMAIN q : j >= i /\ Tells(q[j])

\* What no GET shows is set by a creation, recorded by an update and left alone
\* by a deletion.
StaysTrue(r) ==
  \A a \in r.unread :
    /\ \A q \in Courses(r.create) : PostsFirst(q) /\ \A i \in DOMAIN q : q[i].save # "keep"
    /\ \A q \in Courses(r.update) : ~Uses(q, "post") /\ RecordsWrites(q, a)
    /\ \A q \in Courses(r.delete) : LeavesAlone(q, a)

\* The state is written after that.
Sets(s) == s.save # "no" \/ s.call = "record"
SavedLast(q, a) == \E i \in DOMAIN q : Sets(q[i]) /\ \A j \in DOMAIN q : j > i => ~Touches(q[j], a)

\* The object is waited for after all that takes it down, or nothing does and it
\* is looked at.
TakesDown(r, s) == s.call = "post" \/ (s.call \in {"write", "clear"} /\ s.of \intersect r.slow # {})
Waits(r, q) ==
  \E i \in DOMAIN q : q[i].call = "wait" /\ \A j \in DOMAIN q : j > i => ~TakesDown(r, q[j])
StaysUp(r, q) == \A i \in DOMAIN q : ~TakesDown(r, q[i])
Looks(q) == \E i \in DOMAIN q : q[i].call \in {"write", "clear", "get", "wait"}

\* What a success is held to: all that is read back at once, but not what
\* belongs to others as long as no configuration sets it.
Targets(r, set) == {a \in r.reads \ r.queued : a \in r.optional => a \in set}

\* Steps that leave the object as planned, if all goes well and these attributes
\* are all that is not; or that cannot go well.
Applies(r, q, set, changed) ==
  \/ Uses(q, "refuse")
  \/ /\ \A i \in DOMAIN q : q[i].call \notin {"delete", "gone", "let go"}
     /\ \A a \in Targets(r, set) : \/ a \notin changed /\ LeavesAlone(q, a)
                                   \/ Arrives(q, a, set) /\ SavedLast(q, a)
     /\ r.awaited => Waits(r, q) \/ (StaysUp(r, q) /\ Looks(q))
AppliesThePlan(r) ==
  LET attrs == r.reads \union r.unread
  IN  \A set \in SUBSET attrs :
        /\ \A q \in Creations(r, set) :
             Applies(r, q, set, attrs) /\ (Uses(q, "refuse") \/ \E i \in DOMAIN q : Sets(q[i]))
        /\ \A c \in DOMAIN r.update, held \in SUBSET attrs : \A q \in Updates(r, c, set, held) :
             Applies(r, q, set, c)

\* A deletion waits until nothing is left, where that takes its time.
Vanishes(r, q) == Uses(q, "gone") \/ (~r.background /\ Uses(q, "delete"))
GoneWhenDeleted(r) == \A q \in Courses(r.delete) : Vanishes(r, q) /\ ~Uses(q, "post")
=============================================================================
