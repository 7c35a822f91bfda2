----------------------------- MODULE PublicIPProofs ----------------------------
(***************************************************************************)
(* Public IPs, for any number of IPs and targets, of calls and of outside  *)
(* events: no false alarm, and a success is what was planned.              *)
(***************************************************************************)
EXTENDS PublicIP, TLAPS

-----------------------------------------------------------------------------
(* Type correctness.                                                       *)

States == [there : BOOLEAN, status : Statuses, to : Targets \union {None}]

PlatformTypes ==
  /\ status \in [IPs -> Statuses]
  /\ holder \in [IPs -> Targets \union {Balancer, None}]
  /\ task \in [IPs -> Targets \union {"detach", None}]

HandlerTypes ==
  /\ pc \in [IPs -> Steps] /\ op \in [IPs -> {"none", "create", "update", "delete"}]
  /\ plan \in [IPs -> Targets \union {None}]
  /\ outcome \in [IPs -> {"none", "ok", "error", "alarm"}]

OtherTypes ==
  /\ meddled \subseteq IPs /\ ops \in 0..MaxOps /\ ext \in 0..MaxExternal

LEMMA TypeParts ==
  TypeOK <=> PlatformTypes /\ HandlerTypes /\ OtherTypes /\ tf \in [IPs -> States]
BY DEF TypeOK, PlatformTypes, HandlerTypes, OtherTypes, States

LEMMA GotoTypes ==
  ASSUME TypeOK, NEW i \in IPs, NEW step \in Steps, Goto(i, step)
  PROVE  HandlerTypes'
BY DEF Goto, TypeOK, HandlerTypes

LEMMA FinishTypes ==
  ASSUME TypeOK, NEW i \in IPs, NEW result \in {"ok", "error", "alarm"}, Finish(i, result)
  PROVE  HandlerTypes'
BY DEF Finish, TypeOK, HandlerTypes, Steps

LEMMA RecordTypes ==
  ASSUME TypeOK, NEW i \in IPs, Save(i) \/ Forget(i) \/ UNCHANGED tf
  PROVE  tf' \in [IPs -> States]
<1>1. Seen(i) \in Targets \union {None} /\ NoState \in States
  BY DEF Seen, NoState, States, Statuses
<1>2. [there |-> TRUE, status |-> status[i], to |-> Seen(i)] \in States
  BY <1>1 DEF States, TypeOK
<1>3. tf \in [IPs -> States]
  BY DEF TypeOK, States
<1>4. QED
  BY <1>1, <1>2, <1>3 DEF Save, Forget

LEMMA StartTypes ==
  ASSUME TypeOK, NEW i \in IPs, Start(i)
  PROVE  TypeOK'
<1>1. PICK step \in Steps, o \in {"create", "update", "delete"},
           w \in Targets \union {None} : Begin(i, step, o, w)
  <2>1. {"check", "allocate", "annotate", "detach", "release"} \subseteq Steps
    BY DEF Steps
  <2>2. \A w : Change(i, w) \in Steps
    BY DEF Change, Steps
  <2>3. QED
    BY <2>1, <2>2 DEF Start, StartCreate, StartUpdate, StartDelete
<1>2. HandlerTypes'
  BY <1>1 DEF Begin, TypeOK, HandlerTypes
<1>3. ops' \in 0..MaxOps
  BY <1>1, PublicIPAssumption DEF Begin, TypeOK
<1>4. OtherTypes'
  BY <1>1, <1>3 DEF Begin, TypeOK, OtherTypes
<1>5. PlatformTypes' /\ tf' \in [IPs -> States]
  BY <1>1, TypeParts DEF Begin, platform, PlatformTypes
<1>6. QED
  BY <1>2, <1>4, <1>5
  DEF TypeOK, PlatformTypes, HandlerTypes, OtherTypes, States

LEMMA ProceedTypes ==
  ASSUME TypeOK, NEW i \in IPs, Refresh(i) \/ Proceed(i)
  PROVE  TypeOK'
<1>1. OtherTypes'
  BY DEF Refresh, Proceed, CallFails, CheckType, NewIP, Allocate, AllocateLost, Annotate,
     Queue, Detach, DetachSeen, Attach, AttachSeen, PollAlarm, PollGivesUp, ReadBack,
     Release, ReleaseMissing, Calls, TypeOK, OtherTypes
<1>2. tf' \in [IPs -> States]
  BY RecordTypes DEF Refresh, Proceed, CallFails, CheckType, NewIP, Allocate, AllocateLost,
     Annotate, Queue, Detach, DetachSeen, Attach, AttachSeen, PollAlarm, PollGivesUp,
     ReadBack, Release, ReleaseMissing
<1>3. HandlerTypes'
  <2>1. CASE Refresh(i)
    BY <2>1 DEF Refresh, handler, TypeOK, HandlerTypes
  <2>2. CASE Proceed(i)
    <3>1. \/ \E step \in Steps : Goto(i, step)
          \/ \E result \in {"ok", "error", "alarm"} : Finish(i, result)
      <4>1. /\ {"allocate", "read", "attach", "detached", "attached", "release"} \subseteq Steps
            /\ \A w : Change(i, w) \in Steps
        BY DEF Steps, Change
      <4>2. QED
        BY <2>2, <4>1 DEF Proceed, CallFails, CheckType, Allocate, AllocateLost, Annotate,
           Queue, Detach, DetachSeen, Attach, AttachSeen, PollAlarm, PollGivesUp, ReadBack,
           Release, ReleaseMissing
    <3>2. QED
      BY <3>1, GotoTypes, FinishTypes
  <2>3. QED
    BY <2>1, <2>2
<1>4. PlatformTypes'
  <2>1. CASE Allocate(i) \/ AllocateLost(i)
    BY <2>1 DEF Allocate, AllocateLost, NewIP, TypeOK, PlatformTypes, Statuses
  <2>2. CASE Detach(i) \/ Attach(i)
    BY <2>2 DEF Detach, Attach, Queue, TypeOK, PlatformTypes
  <2>3. CASE Release(i)
    BY <2>3 DEF Release, Gone, TypeOK, PlatformTypes, Statuses
  <2>4. CASE ~(Allocate(i) \/ AllocateLost(i) \/ Detach(i) \/ Attach(i) \/ Release(i))
    BY <2>4 DEF Refresh, Proceed, CallFails, CheckType, Annotate, DetachSeen, AttachSeen,
       PollAlarm, PollGivesUp, ReadBack, ReleaseMissing, platform, TypeOK, PlatformTypes
  <2>5. QED
    BY <2>1, <2>2, <2>3, <2>4
<1>5. QED
  BY <1>1, <1>2, <1>3, <1>4
  DEF TypeOK, PlatformTypes, HandlerTypes, OtherTypes, States

\* Which tasks and holders an IP may have in which status: an attachment that
\* completes has a target, and only an attached IP has a holder.
Tidy(i) ==
  /\ status[i] \in {"absent", "error", "reserved"} => task[i] = None
  /\ status[i] = "allocated" => task[i] # "detach"
  /\ status[i] = "attaching" => task[i] \in Targets
  /\ status[i] = "attached" => task[i] \in {"detach", None}
  /\ status[i] = "detaching" => task[i] = "detach"
  /\ status[i] \notin {"attached", "detaching"} => holder[i] = None

LEMMA ElsewhereTypes ==
  ASSUME TypeOK, NEW i \in IPs, Tidy(i), Platform(i)
  PROVE  TypeOK'
<1>1. PlatformTypes'
  <2>1. CASE PickUp(i)
    BY <2>1 DEF PickUp, TypeOK, PlatformTypes, Statuses
  <2>2. CASE TaskDone(i)
    <3>1. status[i] = "attaching" => task[i] \in Targets
      BY DEF Tidy
    <3>2. QED
      BY <2>2, <3>1 DEF TaskDone, TypeOK, PlatformTypes, Statuses
  <2>3. CASE TaskFails(i)
    BY <2>3 DEF TaskFails, TypeOK, PlatformTypes, Statuses
  <2>4. CASE \E t \in Targets \union {Balancer} : OutsideAttach(i, t)
    BY <2>4 DEF OutsideAttach, TypeOK, PlatformTypes, Statuses
  <2>5. CASE OutsideDetach(i) \/ Reserve(i) \/ OutsideRelease(i)
    BY <2>5 DEF OutsideDetach, Reserve, OutsideRelease, Gone, TypeOK, PlatformTypes, Statuses
  <2>6. QED
    BY <2>1, <2>2, <2>3, <2>4, <2>5 DEF Platform
<1>2. Own
  BY DEF Platform, PickUp, TaskDone, TaskFails, OutsideAttach, OutsideDetach, Reserve,
     OutsideRelease, Outside
<1>3. ext' \in 0..MaxExternal /\ meddled' \subseteq IPs
  <2>1. CASE Outside(i)
    BY <2>1, PublicIPAssumption DEF Outside, TypeOK
  <2>2. CASE ~Outside(i)
    BY <2>2 DEF Platform, PickUp, TaskDone, TaskFails, OutsideAttach, OutsideDetach, Reserve,
       OutsideRelease, TypeOK
  <2>3. QED
    BY <2>1, <2>2
<1>4. HandlerTypes' /\ tf' \in [IPs -> States] /\ ops' \in 0..MaxOps
  BY <1>2, TypeParts DEF Own, handler, HandlerTypes, OtherTypes
<1>5. QED
  BY <1>1, <1>3, <1>4 DEF TypeOK, PlatformTypes, HandlerTypes, OtherTypes, States

\* A step concerns one IP; everything about the others stays.
Untouched(j) ==
  /\ status'[j] = status[j] /\ holder'[j] = holder[j] /\ task'[j] = task[j]
  /\ pc'[j] = pc[j] /\ op'[j] = op[j] /\ plan'[j] = plan[j] /\ outcome'[j] = outcome[j]
  /\ tf'[j] = tf[j] /\ (j \in meddled' <=> j \in meddled)

LEMMA Frame ==
  ASSUME TypeOK, NEW i \in IPs, NEW j \in IPs, i # j,
         Start(i) \/ Refresh(i) \/ Proceed(i) \/ Platform(i)
  PROVE  Untouched(j)
<1>1. CASE Start(i)
  <2>1. PICK step, o, w : Begin(i, step, o, w)
    BY <1>1 DEF Start, StartCreate, StartUpdate, StartDelete
  <2>2. QED
    BY <2>1 DEF Begin, platform, TypeOK, Untouched
<1>2. CASE Refresh(i)
  BY <1>2 DEF Refresh, Save, Forget, platform, handler, Calls, TypeOK, Untouched
<1>3. CASE Proceed(i)
  <2>1. UNCHANGED meddled
    BY <1>3 DEF Proceed, CallFails, CheckType, NewIP, Allocate, AllocateLost, Annotate,
       Queue, Detach, DetachSeen, Attach, AttachSeen, PollAlarm, PollGivesUp, ReadBack,
       Release, ReleaseMissing, Calls
  <2>2. Save(i) \/ Forget(i) \/ UNCHANGED tf
    BY <1>3 DEF Proceed, CallFails, CheckType, NewIP, Allocate, AllocateLost, Annotate,
       Queue, Detach, DetachSeen, Attach, AttachSeen, PollAlarm, PollGivesUp, ReadBack,
       Release, ReleaseMissing
  <2>3. (\E step : Goto(i, step)) \/ (\E result : Finish(i, result))
    BY <1>3 DEF Proceed, CallFails, CheckType, Allocate, AllocateLost, Annotate,
       Queue, Detach, DetachSeen, Attach, AttachSeen, PollAlarm, PollGivesUp, ReadBack,
       Release, ReleaseMissing
  <2>4. status'[j] = status[j] /\ holder'[j] = holder[j] /\ task'[j] = task[j]
    BY <1>3 DEF Proceed, CallFails, CheckType, NewIP, Allocate, AllocateLost, Annotate,
       Queue, Detach, DetachSeen, Attach, AttachSeen, PollAlarm, PollGivesUp, ReadBack,
       Release, ReleaseMissing, Gone, platform, TypeOK
  <2>5. tf'[j] = tf[j]
    BY <2>2 DEF Save, Forget, TypeOK
  <2>6. pc'[j] = pc[j] /\ op'[j] = op[j] /\ plan'[j] = plan[j] /\ outcome'[j] = outcome[j]
    BY <2>3 DEF Goto, Finish, TypeOK
  <2>7. QED
    BY <2>1, <2>4, <2>5, <2>6 DEF Untouched
<1>4. CASE Platform(i)
  <2>1. Own
    BY <1>4 DEF Platform, PickUp, TaskDone, TaskFails, OutsideAttach, OutsideDetach, Reserve,
       OutsideRelease, Outside
  <2>2. j \in meddled' <=> j \in meddled
    BY <1>4 DEF Platform, PickUp, TaskDone, TaskFails, OutsideAttach, OutsideDetach, Reserve,
       OutsideRelease, Outside
  <2>3. status'[j] = status[j] /\ holder'[j] = holder[j] /\ task'[j] = task[j]
    BY <1>4 DEF Platform, PickUp, TaskDone, TaskFails, OutsideAttach, OutsideDetach, Reserve,
       OutsideRelease, Gone, TypeOK
  <2>4. QED
    BY <2>1, <2>2, <2>3 DEF Own, handler, Untouched
<1>5. QED
  BY <1>1, <1>2, <1>3, <1>4

LEMMA TidyKept ==
  ASSUME TypeOK, NEW i \in IPs, Tidy(i), Start(i) \/ Refresh(i) \/ Proceed(i) \/ Platform(i)
  PROVE  Tidy(i)'
<1>1. CASE UNCHANGED platform
  BY <1>1 DEF platform, Tidy
<1>2. CASE Allocate(i) \/ AllocateLost(i)
  <2>1. /\ status[i] = "absent" /\ status'[i] = "allocated"
        /\ holder'[i] = holder[i] /\ task'[i] = task[i]
    BY <1>2 DEF Allocate, AllocateLost, NewIP, Exists, TypeOK
  <2>2. task[i] = None /\ holder[i] = None /\ None # "detach"
    BY <2>1, PublicIPAssumption DEF Tidy
  <2>3. QED
    BY <2>1, <2>2 DEF Tidy
<1>3. CASE Detach(i) \/ Attach(i)
  <2>1. plan[i] # "detach" /\ plan[i] \in Targets \union {None}
    BY PublicIPAssumption DEF TypeOK
  <2>2. QED
    BY <1>3, <2>1 DEF Detach, Attach, Queue, Tidy, TypeOK
<1>4. CASE Release(i)
  BY <1>4 DEF Release, Free, Gone, Tidy, TypeOK
<1>5. CASE Platform(i)
  <2>1. CASE PickUp(i)
    BY <2>1, PublicIPAssumption DEF PickUp, Tidy, TypeOK
  <2>2. CASE TaskDone(i)
    BY <2>2, PublicIPAssumption DEF TaskDone, Tidy, TypeOK
  <2>3. CASE TaskFails(i)
    BY <2>3 DEF TaskFails, Tidy, TypeOK
  <2>4. CASE \E t \in Targets \union {Balancer} : OutsideAttach(i, t)
    BY <2>4 DEF OutsideAttach, Tidy, TypeOK
  <2>5. CASE OutsideDetach(i) \/ Reserve(i) \/ OutsideRelease(i)
    BY <2>5, PublicIPAssumption DEF OutsideDetach, Reserve, OutsideRelease, Free, Gone, Tidy, TypeOK
  <2>6. QED
    BY <1>5, <2>1, <2>2, <2>3, <2>4, <2>5 DEF Platform
<1>6. CASE Start(i)
  <2>1. UNCHANGED platform
    BY <1>6 DEF Start, StartCreate, StartUpdate, StartDelete, Begin
  <2>2. QED
    BY <1>1, <2>1
<1>7. CASE \/ Refresh(i) \/ CallFails(i) \/ CheckType(i) \/ Annotate(i) \/ DetachSeen(i)
           \/ AttachSeen(i) \/ PollAlarm(i) \/ PollGivesUp(i) \/ ReadBack(i)
           \/ ReleaseMissing(i)
  <2>1. UNCHANGED platform
    BY <1>7 DEF Refresh, CallFails, CheckType, Annotate, DetachSeen, AttachSeen, PollAlarm,
       PollGivesUp, ReadBack, ReleaseMissing, platform
  <2>2. QED
    BY <1>1, <2>1
<1>8. QED
  BY <1>2, <1>3, <1>4, <1>5, <1>6, <1>7 DEF Proceed

TypeInv == TypeOK /\ \A i \in IPs : Tidy(i)

LEMMA TypeStep == TypeInv /\ [Next]_vars => TypeInv'
<1> SUFFICES ASSUME TypeInv, [Next]_vars PROVE TypeInv'
  OBVIOUS
<1>1. CASE UNCHANGED vars
  BY <1>1 DEF vars, platform, handler, TypeInv, TypeOK, Tidy
<1>2. ASSUME NEW i \in IPs, Start(i) \/ Refresh(i) \/ Proceed(i) \/ Platform(i)
      PROVE  TypeInv'
  <2>1. TypeOK'
    BY <1>2, StartTypes, ProceedTypes, ElsewhereTypes DEF TypeInv
  <2>2. ASSUME NEW j \in IPs PROVE Tidy(j)'
    <3>1. CASE i = j
      BY <1>2, <3>1, TidyKept DEF TypeInv
    <3>2. CASE i # j
      BY <1>2, <3>2, Frame DEF TypeInv, Untouched, Tidy
    <3>3. QED
      BY <3>1, <3>2
  <2>3. QED
    BY <2>1, <2>2 DEF TypeInv
<1>3. QED
  BY <1>1, <1>2 DEF Next, Quiet

LEMMA TypeInvariant == Spec => []TypeInv
<1>1. Init => TypeInv
  BY PublicIPAssumption DEF Init, TypeInv, TypeOK, Tidy, NoState, Statuses, Steps
<1>2. QED
  BY <1>1, TypeStep, PTL DEF Spec

\* Whatever handlers, tasks and others do, every variable keeps its type.
THEOREM TypeCorrect == Spec => []TypeOK
BY TypeInvariant, PTL DEF TypeInv

-----------------------------------------------------------------------------
(* What a handler may rely on while nothing else touches its IP.           *)

Calm(i) ==
  /\ pc[i] = "annotate" => task[i] = None /\ tf[i].to = Seen(i)
  /\ pc[i] = "read" => task[i] = None /\ Seen(i) = plan[i]
  /\ pc[i] = "detached" => /\ status[i] \in {"attached", "detaching", "allocated"}
                           /\ task[i] \in {"detach", None}
  /\ pc[i] = "attached" => /\ status[i] \in {"allocated", "attaching", "attached"}
                           /\ status[i] # "attached" => task[i] = plan[i]
                           /\ status[i] = "attached" => holder[i] = plan[i] /\ task[i] = None

OnCourse(i) ==
  /\ pc[i] \in {"attach", "attached"} => plan[i] # None
  /\ pc[i] = "release" => op[i] = "delete"
  /\ i \notin meddled => Calm(i) /\ outcome[i] # "alarm"

LEMMA ChangeFacts ==
  ASSUME NEW i, NEW w
  PROVE  /\ Change(i, w) = "attach" => w # None
         /\ Change(i, w) = "read" => tf[i].to = w
         /\ Change(i, w) \in {"read", "attach", "detach"}
<1>1. CASE tf[i].to = w
  BY <1>1 DEF Change
<1>2. CASE tf[i].to # w /\ tf[i].to = None
  BY <1>2 DEF Change
<1>3. CASE tf[i].to # w /\ tf[i].to # None
  BY <1>3 DEF Change
<1>4. QED
  BY <1>1, <1>2, <1>3

LEMMA CourseStart ==
  ASSUME TypeOK, NEW i \in IPs, Start(i)
  PROVE  OnCourse(i)'
<1>1. PICK step, o, w : Begin(i, step, o, w)
        /\ step \in {"check", "allocate", "annotate", "detach", "release", Change(i, w)}
        /\ (step = "release" => o = "delete")
  <2>1. \A w : Change(i, w) # "release"
    BY DEF Change
  <2>2. QED
    BY <2>1 DEF Start, StartCreate, StartUpdate, StartDelete
<1>2. /\ pc'[i] = step /\ op'[i] = o /\ plan'[i] = w /\ outcome'[i] = "none"
      /\ UNCHANGED <<platform, tf>> /\ Seen(i)' = Seen(i)
      /\ i \notin meddled' => UpToDate(i)
  BY <1>1 DEF Begin, platform, Seen, TypeOK
<1>3. /\ Change(i, w) = "attach" => w # None
      /\ Change(i, w) = "read" => tf[i].to = w
      /\ Change(i, w) \in {"read", "attach", "detach"}
  BY ChangeFacts
<1>4. QED
  BY <1>1, <1>2, <1>3 DEF OnCourse, Calm, UpToDate, platform

LEMMA CourseProceed ==
  ASSUME TypeOK, NEW i \in IPs, Tidy(i), OnCourse(i), Refresh(i) \/ Proceed(i)
  PROVE  OnCourse(i)'
<1>0. /\ UNCHANGED meddled
      /\ plan[i] \in Targets \union {None}
      /\ \A step : Goto(i, step) => /\ pc'[i] = step /\ op'[i] = op[i]
                                    /\ plan'[i] = plan[i] /\ outcome'[i] = outcome[i]
      /\ \A result : Finish(i, result) => pc'[i] = "idle" /\ outcome'[i] = result
  <2>1. UNCHANGED meddled
    BY DEF Refresh, Proceed, CallFails, CheckType, NewIP, Allocate, AllocateLost, Annotate,
       Queue, Detach, DetachSeen, Attach, AttachSeen, PollAlarm, PollGivesUp, ReadBack,
       Release, ReleaseMissing, Calls
  <2>2. QED
    BY <2>1 DEF Goto, Finish, TypeOK
<1>1. CASE \E result \in {"ok", "error"} : Finish(i, result)
  BY <1>0, <1>1 DEF OnCourse, Calm
<1>2. CASE Refresh(i)
  <2>1. UNCHANGED <<platform, handler>> /\ pc[i] = "idle"
    BY <1>2 DEF Refresh
  <2>2. QED
    BY <1>0, <2>1 DEF handler, OnCourse, Calm
<1>3. CASE CheckType(i) /\ Goto(i, "allocate")
  BY <1>0, <1>3 DEF OnCourse, Calm
<1>4. CASE Allocate(i)
  <2>1. task'[i] = None /\ holder'[i] = None
    BY <1>4 DEF Allocate, NewIP, Exists, Tidy
  <2>2. Seen(i)' = None
    BY <2>1, PublicIPAssumption DEF Seen
  <2>3. QED
    BY <1>0, <1>4, <2>1, <2>2 DEF Allocate, OnCourse, Calm
<1>5. CASE Annotate(i)
  <2>1. /\ Change(i, plan[i]) = "attach" => plan[i] # None
        /\ Change(i, plan[i]) = "read" => tf[i].to = plan[i]
        /\ Change(i, plan[i]) \in {"read", "attach", "detach"}
    BY ChangeFacts
  <2>2. UNCHANGED platform /\ Seen(i)' = Seen(i) /\ Goto(i, Change(i, plan[i]))
        /\ pc[i] = "annotate"
    BY <1>5 DEF Annotate, platform, Seen
  <2>3. QED
    BY <1>0, <2>1, <2>2 DEF OnCourse, Calm, platform
<1>6. CASE Detach(i) /\ Goto(i, "detached")
  BY <1>0, <1>6 DEF Detach, Queue, OnCourse, Calm, TypeOK
<1>7. CASE Attach(i) /\ Goto(i, "attached")
  BY <1>0, <1>7 DEF Attach, Queue, OnCourse, Calm, TypeOK
<1>8. CASE DetachSeen(i)
  <2>1. UNCHANGED platform /\ pc[i] = "detached" /\ holder[i] = None
        /\ (i \notin meddled => task[i] = None)
    BY <1>8 DEF DetachSeen, Tidy, OnCourse, Calm
  <2>2. Seen(i)' = None
    BY <2>1, PublicIPAssumption DEF platform, Seen
  <2>3. QED
    BY <1>0, <1>8, <2>1, <2>2 DEF DetachSeen, platform, OnCourse, Calm
<1>9. CASE AttachSeen(i)
  <2>1. UNCHANGED platform /\ pc[i] = "attached" /\ status[i] = "attached"
        /\ plan[i] \in Targets
    BY <1>0, <1>9 DEF AttachSeen, OnCourse
  <2>2. i \notin meddled => task[i] = None /\ holder[i] = plan[i]
    BY <2>1 DEF OnCourse, Calm
  <2>3. QED
    BY <1>0, <1>9, <2>1, <2>2 DEF AttachSeen, platform, OnCourse, Calm, Seen
<1>10. CASE PollAlarm(i)
  <2>1. i \in meddled
    BY <1>10 DEF PollAlarm, Polling, Expected, OnCourse, Calm
  <2>2. QED
    BY <1>0, <1>10, <2>1 DEF PollAlarm, OnCourse
<1>11. QED
  BY <1>1, <1>2, <1>3, <1>4, <1>5, <1>6, <1>7, <1>8, <1>9, <1>10
  DEF Proceed, CallFails, CheckType, AllocateLost, Detach, Attach, Queue, PollGivesUp,
      ReadBack, Release, ReleaseMissing

LEMMA CoursePlatform ==
  ASSUME TypeOK, NEW i \in IPs, Tidy(i), OnCourse(i), Platform(i)
  PROVE  OnCourse(i)'
<1>1. Own
  BY DEF Platform, PickUp, TaskDone, TaskFails, OutsideAttach, OutsideDetach, Reserve,
     OutsideRelease, Outside
<1>2. CASE Outside(i)
  BY <1>1, <1>2 DEF Outside, Own, handler, OnCourse
<1>3. CASE PickUp(i)
  <2>1. task[i] # None /\ UNCHANGED <<holder, task, meddled>> /\ Seen(i)' = Seen(i)
    BY <1>3, PublicIPAssumption DEF PickUp, Seen
  <2>2. status[i] = "allocated" => task[i] \in Targets /\ status'[i] = "attaching"
    BY <1>3 DEF PickUp, TypeOK
  <2>3. status[i] # "allocated" => status[i] = "attached" /\ status'[i] = "detaching"
                                   /\ task[i] = "detach"
    BY <1>3 DEF PickUp, TypeOK
  <2>4. QED
    BY <1>1, <2>1, <2>2, <2>3, PublicIPAssumption DEF Own, handler, OnCourse, Calm
<1>4. CASE TaskDone(i)
  <2>1. task[i] # None /\ UNCHANGED meddled /\ task'[i] = None
    BY <1>4, PublicIPAssumption DEF TaskDone, Tidy, TypeOK
  <2>2. \/ status[i] = "attaching" /\ status'[i] = "attached" /\ holder'[i] = task[i]
        \/ status[i] = "detaching" /\ status'[i] = "allocated" /\ holder'[i] = None
    BY <1>4 DEF TaskDone, TypeOK
  <2>3. QED
    BY <1>1, <2>1, <2>2 DEF Own, handler, OnCourse, Calm
<1>5. QED
  BY <1>2, <1>3, <1>4 DEF Platform, TaskFails, OutsideAttach, OutsideDetach, Reserve,
     OutsideRelease

CourseInv == \A i \in IPs : OnCourse(i)

LEMMA CourseStep == TypeInv /\ CourseInv /\ [Next]_vars => CourseInv'
<1> SUFFICES ASSUME TypeInv, CourseInv, [Next]_vars, NEW j \in IPs PROVE OnCourse(j)'
  BY DEF CourseInv
<1>1. CASE UNCHANGED vars
  BY <1>1 DEF vars, platform, handler, CourseInv, OnCourse, Calm, Seen
<1>2. ASSUME NEW i \in IPs, Start(i) \/ Refresh(i) \/ Proceed(i) \/ Platform(i)
      PROVE  OnCourse(j)'
  <2>1. CASE i = j
    BY <1>2, <2>1, CourseStart, CourseProceed, CoursePlatform DEF TypeInv, CourseInv
  <2>2. CASE i # j
    <3>1. Untouched(j)
      BY <1>2, <2>2, Frame DEF TypeInv
    <3>2. QED
      BY <3>1 DEF CourseInv, OnCourse, Calm, Seen, Untouched
  <2>3. QED
    BY <2>1, <2>2
<1>3. QED
  BY <1>1, <1>2 DEF Next, Quiet

LEMMA CourseInvariant == Spec => []CourseInv
<1>1. Init => CourseInv
  BY DEF Init, CourseInv, OnCourse, Calm
<1>2. QED
  BY <1>1, TypeInvariant, CourseStep, PTL DEF Spec

\* The polls of an attachment or a detachment fail hard on a status only if
\* somebody else touched the IP or its task failed.
THEOREM AlarmsAreTrue == Spec => []NoFalseAlarm
<1>1. CourseInv => NoFalseAlarm
  BY DEF CourseInv, OnCourse, NoFalseAlarm
<1>2. QED
  BY <1>1, CourseInvariant, PTL

\* What an undisturbed create or update reports as done is done: on the
\* platform and in the state, also when it had to detach first.
THEOREM SuccessIsPlanned == Spec => OkMatchesPlan
<1>1. TypeInv /\ CourseInv /\ [Next]_vars =>
        [ \A i \in IPs :
            /\ pc[i] # "idle" /\ pc'[i] = "idle" /\ outcome'[i] = "ok"
            /\ op[i] \in {"create", "update"} /\ i \notin meddled
            => Seen(i)' = plan[i] /\ tf'[i].to = plan[i] ]_vars
  <2> SUFFICES ASSUME TypeInv, CourseInv, [Next]_vars, NEW j \in IPs,
                      pc[j] # "idle", pc'[j] = "idle", outcome'[j] = "ok",
                      op[j] \in {"create", "update"}, j \notin meddled
               PROVE  Seen(j)' = plan[j] /\ tf'[j].to = plan[j]
    OBVIOUS
  <2>1. PICK i \in IPs : Start(i) \/ Refresh(i) \/ Proceed(i) \/ Platform(i)
    BY DEF Next, Quiet, vars, handler
  <2>2. i = j
    BY <2>1, Frame DEF TypeInv, Untouched
  <2>3. ReadBack(j)
    <3>1. ~Start(j) /\ ~Refresh(j)
      BY DEF Start, StartCreate, StartUpdate, StartDelete, Begin, Refresh
    <3>2. ~Platform(j)
      BY DEF Platform, PickUp, TaskDone, TaskFails, OutsideAttach, OutsideDetach, Reserve,
         OutsideRelease, Outside, Own, handler
    <3>3. pc[j] # "release"
      BY DEF CourseInv, OnCourse
    <3>4. \A step : Goto(j, step) => step = "idle"
      BY DEF Goto, TypeInv, TypeOK
    <3>5. \A result : Finish(j, result) => result = "ok"
      BY DEF Finish, TypeInv, TypeOK
    <3>6. \A w : Change(j, w) # "idle"
      BY DEF Change
    <3>7. QED
      BY <2>1, <2>2, <3>1, <3>2, <3>3, <3>4, <3>5, <3>6 DEF Proceed, CallFails, CheckType,
         Allocate, AllocateLost, Annotate, Queue, Detach, DetachSeen, Attach, AttachSeen,
         PollAlarm, PollGivesUp, Release, ReleaseMissing
  <2>4. Seen(j) = plan[j] /\ Seen(j)' = Seen(j)
    BY <2>3 DEF ReadBack, platform, CourseInv, OnCourse, Calm, Seen
  <2>5. tf'[j].to = Seen(j)
    BY <2>3 DEF ReadBack, Save, TypeInv, TypeOK
  <2>6. QED
    BY <2>4, <2>5
<1>2. QED
  BY <1>1, TypeInvariant, CourseInvariant, PTL DEF Spec, OkMatchesPlan

\* No failure makes the state forget an IP that is still allocated.
THEOREM ReleasedWhenForgotten == Spec => ForgetsOnlyReleased
<1>1. TypeInv /\ [Next]_vars =>
        [ \A i \in IPs : tf[i].there /\ ~tf'[i].there => status'[i] = "absent" ]_vars
  <2> SUFFICES ASSUME TypeInv, [Next]_vars, NEW j \in IPs, tf[j].there, ~tf'[j].there
               PROVE  status'[j] = "absent"
    OBVIOUS
  <2>1. PICK i \in IPs : Start(i) \/ Refresh(i) \/ Proceed(i) \/ Platform(i)
    BY DEF Next, Quiet, vars
  <2>2. i = j /\ tf' # tf
    BY <2>1, Frame DEF TypeInv, Untouched
  <2>3. Save(j) => tf'[j].there
    BY DEF Save, TypeInv, TypeOK
  <2>4. Refresh(j) \/ Release(j) \/ ReleaseMissing(j)
    BY <2>1, <2>2, <2>3 DEF Start, StartCreate, StartUpdate, StartDelete, Begin, Proceed,
       CallFails, CheckType, NewIP, Allocate, AllocateLost, Annotate, Queue, Detach, DetachSeen,
       Attach, AttachSeen, PollAlarm, PollGivesUp, ReadBack, Platform, PickUp, TaskDone,
       TaskFails, OutsideAttach, OutsideDetach, Reserve, OutsideRelease, Outside, Own
  <2>5. QED
    BY <2>2, <2>3, <2>4 DEF Refresh, Release, ReleaseMissing, Gone, Exists, platform, TypeInv, TypeOK
<1>2. QED
  BY <1>1, TypeInvariant, PTL DEF Spec, ForgetsOnlyReleased

-----------------------------------------------------------------------------
(* What is stranded, loudly.                                                 *)

LEMMA StrandedStep ==
  ASSUME TypeInv, StrandedMeansError, [Next]_vars
  PROVE  StrandedMeansError'
<1> SUFFICES ASSUME NEW j \in IPs, Exists(j)', ~tf'[j].there, pc'[j] = "idle"
             PROVE  outcome'[j] \in {"error", "alarm"}
  BY DEF StrandedMeansError
<1>1. ASSUME NEW i \in IPs, i # j, Start(i) \/ Refresh(i) \/ Proceed(i) \/ Platform(i)
      PROVE  outcome'[j] \in {"error", "alarm"}
  BY <1>1, Frame DEF TypeInv, Untouched, StrandedMeansError, Exists
<1>2. ~Save(j)
  BY DEF Save, TypeInv, TypeOK
<1>3. ~Start(j)
  BY DEF Start, StartCreate, StartUpdate, StartDelete, Begin, Change, TypeInv, TypeOK
<1>4. ASSUME NEW result \in {"error", "alarm"}, Finish(j, result)
      PROVE  outcome'[j] \in {"error", "alarm"}
  BY <1>4 DEF Finish, TypeInv, TypeOK
<1>5. ASSUME NEW step, Goto(j, step)
      PROVE  step = "idle"
  BY <1>5 DEF Goto, TypeInv, TypeOK
<1>6. CASE Refresh(j)
  BY <1>2, <1>6 DEF Refresh, Exists, platform, handler, StrandedMeansError, TypeInv, TypeOK, Forget, NoState
<1>7. CASE Proceed(j)
  <2>1. ~Release(j) \/ Finish(j, "error")
    BY DEF Release, Gone, Exists, TypeInv, TypeOK
  <2>2. ~ReleaseMissing(j) /\ ~ReadBack(j)
    BY <1>2 DEF ReleaseMissing, ReadBack, Exists, platform
  <2>3. ~Annotate(j) /\ ~AttachSeen(j) /\ ~DetachSeen(j) /\ ~Allocate(j)
    BY <1>5 DEF Annotate, AttachSeen, DetachSeen, Allocate, Change
  <2>4. CASE CallFails(j) \/ CheckType(j) \/ AllocateLost(j) \/ Detach(j) \/ Attach(j)
             \/ PollAlarm(j) \/ PollGivesUp(j)
    BY <1>4, <1>5, <2>4 DEF CallFails, CheckType, AllocateLost, Detach, Attach, Queue, PollAlarm, PollGivesUp
  <2>5. QED
    BY <1>4, <1>7, <2>1, <2>2, <2>3, <2>4 DEF Proceed
<1>8. CASE Platform(j)
  BY <1>8 DEF Platform, PickUp, TaskDone, TaskFails, OutsideAttach, OutsideDetach, Reserve,
     OutsideRelease, Outside, Own, Gone, handler, Exists, StrandedMeansError, TypeInv, TypeOK
<1>9. CASE UNCHANGED vars
  BY <1>9 DEF vars, platform, handler, StrandedMeansError, Exists
<1>10. QED
  BY <1>1, <1>3, <1>6, <1>7, <1>8, <1>9 DEF Next, Quiet

\* No IP is stranded silently: one that exists and is in no state was left so by
\* a handler that reported an error, for any number of IPs, calls and outsiders.
THEOREM StrandingIsReported == Spec => []StrandedMeansError
<1>1. Init => StrandedMeansError
  BY DEF Init, StrandedMeansError, Exists
<1>2. QED
  BY <1>1, StrandedStep, TypeInvariant, PTL DEF Spec
=============================================================================
