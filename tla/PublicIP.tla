------------------------------- MODULE PublicIP ------------------------------
(***************************************************************************)
(* ccp_public_ip (internal/resources/publicip): allocation, attachment,    *)
(* re-attachment and release of public IPs, handled concurrently, over a   *)
(* platform that attaches and detaches in background tasks.  Attachments   *)
(* are to containers and VMs; a load balancer may also own an IP, which    *)
(* this resource only observes.                                            *)
(***************************************************************************)
EXTENDS Naturals

CONSTANTS
  IPs,
  Targets,      \* containers and VM instances
  Balancer,     \* a load balancer that may hold an IP
  None,         \* no target
  KnowsTypes,   \* does the platform offer public IP types?
  MaxOps,       \* bound: handler calls started
  MaxExternal   \* bound: outside events and failing tasks

ASSUME PublicIPAssumption ==
  /\ None \notin Targets /\ Balancer \notin Targets /\ None # Balancer
  /\ "detach" \notin Targets \union {None}
  /\ KnowsTypes \in BOOLEAN /\ MaxOps \in Nat /\ MaxExternal \in Nat

VARIABLES
  status,   \* platform status of each IP
  holder,   \* what the IP is attached to: a target, Balancer or None
  task,     \* the background task: an attachment's target, "detach", or None
  pc, op,
  plan,     \* planned target, or None for detached
  meddled,  \* history: did anything but this handler touch the IP meanwhile?
  outcome,  \* what the last handler call reported
  tf,       \* Terraform state
  ops, ext

platform == <<status, holder, task>>
handler == <<pc, op, plan, outcome>>
vars == <<platform, handler, meddled, tf, ops, ext>>

Statuses == {"absent", "allocated", "attaching", "attached", "detaching",
             "error", "reserved"}
Steps == {"idle", "check", "allocate", "annotate", "change", "detach", "detached",
          "attach", "attached", "read", "release"}
NoState == [there |-> FALSE, status |-> "absent", to |-> None]

TypeOK ==
  /\ status \in [IPs -> Statuses]
  /\ holder \in [IPs -> Targets \union {Balancer, None}]
  /\ task \in [IPs -> Targets \union {"detach", None}]
  /\ pc \in [IPs -> Steps] /\ op \in [IPs -> {"none", "create", "update", "delete"}]
  /\ plan \in [IPs -> Targets \union {None}]
  /\ meddled \subseteq IPs
  /\ outcome \in [IPs -> {"none", "ok", "error", "alarm"}]
  /\ tf \in [IPs -> [there : BOOLEAN, status : Statuses, to : Targets \union {None}]]
  /\ ops \in 0..MaxOps /\ ext \in 0..MaxExternal

Init ==
  /\ status = [i \in IPs |-> "absent"] /\ holder = [i \in IPs |-> None]
  /\ task = [i \in IPs |-> None]
  /\ pc = [i \in IPs |-> "idle"] /\ op = [i \in IPs |-> "none"]
  /\ plan = [i \in IPs |-> None] /\ meddled = {}
  /\ outcome = [i \in IPs |-> "none"]
  /\ tf = [i \in IPs |-> NoState] /\ ops = MaxOps /\ ext = MaxExternal

Exists(i) == status[i] # "absent"

-----------------------------------------------------------------------------
(* Starting and ending a handler.                                          *)

\* Mutated form of Seen: a load balancer's attachment is mirrored, too.
SeenAll(i) == holder[i]

\* applyPublicIPToModel: an attachment to a load balancer shows as none.
Seen(i) == IF holder[i] \in Targets THEN holder[i] ELSE None
UpToDate(i) == task[i] = None /\ tf[i].status = status[i] /\ tf[i].to = Seen(i)

Begin(i, step, o, w) ==
  /\ pc[i] = "idle" /\ ops > 0 /\ ops' = ops - 1
  /\ pc' = [pc EXCEPT ![i] = step] /\ op' = [op EXCEPT ![i] = o]
  /\ plan' = [plan EXCEPT ![i] = w]
  /\ outcome' = [outcome EXCEPT ![i] = "none"]
  /\ meddled' = IF UpToDate(i) THEN meddled \ {i} ELSE meddled \union {i}
  /\ UNCHANGED <<platform, tf, ext>>

Goto(i, step) == pc' = [pc EXCEPT ![i] = step] /\ UNCHANGED <<op, plan, outcome>>

Finish(i, result) ==
  /\ pc' = [pc EXCEPT ![i] = "idle"] /\ op' = [op EXCEPT ![i] = "none"]
  /\ plan' = [plan EXCEPT ![i] = None]
  /\ outcome' = [outcome EXCEPT ![i] = result]

Save(i) == tf' = [tf EXCEPT ![i] = [there |-> TRUE, status |-> status[i], to |-> Seen(i)]]
Forget(i) == tf' = [tf EXCEPT ![i] = NoState]
Calls == UNCHANGED <<meddled, ops, ext>>

StartCreate(i, w, typed) ==
  /\ ~tf[i].there /\ ~Exists(i)
  /\ Begin(i, IF typed THEN "check" ELSE "allocate", "create", w)

\* The switch of Update: nothing to do, attach, detach, or both in turn.
Change(i, w) ==
  IF tf[i].to = w THEN "read" ELSE IF tf[i].to = None THEN "attach" ELSE "detach"

\* Terraform refreshes before it plans; the plan may be out of date when run.
StartUpdate(i, w, annotate) ==
  /\ tf[i].there
  /\ Begin(i, IF annotate THEN "annotate" ELSE Change(i, w), "update", w)

\* Delete looks at the status in the state: reserved IPs are refused without
\* a call, attached ones are detached first.
StartDelete(i) ==
  /\ tf[i].there /\ tf[i].status # "reserved"
  /\ Begin(i, IF tf[i].status = "attached" THEN "detach" ELSE "release", "delete", None)

\* Mutated form of Refresh: an IP whose task failed counts as gone.
RefreshBroken(i) ==
  /\ pc[i] = "idle" /\ (tf[i].there \/ Exists(i))
  /\ IF Exists(i) /\ status[i] # "error" THEN Save(i) ELSE Forget(i)
  /\ UNCHANGED <<platform, handler>> /\ Calls

\* Read, and the import of an existing IP.
Refresh(i) ==
  /\ pc[i] = "idle" /\ (tf[i].there \/ Exists(i))
  /\ IF Exists(i) THEN Save(i) ELSE Forget(i)
  /\ UNCHANGED <<platform, handler>> /\ Calls

-----------------------------------------------------------------------------
(* The steps of a handler.                                                 *)

\* Any call but a poll's may fail without effect: refused by the platform, or
\* no answer.
CallFails(i) ==
  /\ pc[i] \in {"check", "allocate", "annotate", "detach", "attach", "read", "release"}
  /\ Finish(i, "error")
  /\ UNCHANGED <<platform, tf>> /\ Calls

\* A platform without the choice of a type would allocate another type.
CheckType(i) ==
  /\ pc[i] = "check"
  /\ IF KnowsTypes THEN Goto(i, "allocate") ELSE Finish(i, "error")
  /\ UNCHANGED <<platform, tf>> /\ Calls

NewIP(i) ==
  /\ pc[i] = "allocate" /\ ~Exists(i)
  /\ status' = [status EXCEPT ![i] = "allocated"]
  /\ UNCHANGED <<holder, task, tf, meddled, ops, ext>>

\* Allocation is synchronous; the state is left for the end of the handler.
Allocate(i) ==
  NewIP(i) /\ Goto(i, IF plan[i] = None THEN "read" ELSE "attach")

\* The answer to the allocation is lost.
AllocateLost(i) == NewIP(i) /\ Finish(i, "error")

Annotate(i) ==
  /\ pc[i] = "annotate" /\ Exists(i) /\ Goto(i, Change(i, plan[i]))
  /\ UNCHANGED <<platform, tf>> /\ Calls

\* The platform takes a detachment or an attachment and queues a task for it;
\* a target holds one IP.  The answer may be lost.
Queue(i, step, work) ==
  /\ task' = [task EXCEPT ![i] = work]
  /\ Goto(i, step) \/ Finish(i, "error")
  /\ UNCHANGED <<status, holder, tf>> /\ Calls

Detach(i) ==
  /\ pc[i] = "detach" /\ status[i] = "attached" /\ task[i] = None
  /\ holder[i] \in Targets
  /\ Queue(i, "detached", "detach")

Attach(i) ==
  /\ pc[i] = "attach" /\ status[i] = "allocated" /\ task[i] = None
  /\ \A j \in IPs : holder[j] # plan[i] /\ task[j] # plan[i]
  /\ Queue(i, "attached", plan[i])

\* classifyAttachPoll and classifyDetachPoll: routed IPs keep their old status
\* until the task is picked up.  ("attached" here names the poll's step.)
Expected(i) ==
  IF pc[i] = "attached" THEN {"allocated", "attaching", "attached"}
  ELSE {"attached", "detaching", "allocated"}
Polling(i) == pc[i] \in {"attached", "detached"}

\* Mutated form of AttachSeen: the first acceptable status ends the poll.
AttachSeenEarly(i) ==
  /\ pc[i] = "attached" /\ status[i] \in Expected(i) /\ Goto(i, "read")
  /\ UNCHANGED <<platform, tf>> /\ Calls

AttachSeen(i) ==
  /\ pc[i] = "attached" /\ status[i] = "attached" /\ Goto(i, "read")
  /\ UNCHANGED <<platform, tf>> /\ Calls

DetachSeen(i) ==
  /\ pc[i] = "detached" /\ status[i] = "allocated"
  /\ Goto(i, IF op[i] = "delete" THEN "release"
             ELSE IF plan[i] = None THEN "read" ELSE "attach")
  /\ UNCHANGED <<platform, tf>> /\ Calls

\* Mutated form of PollAlarm: a task not picked up yet counts as a failure.
PollAlarmEarly(i) ==
  /\ Polling(i) /\ Exists(i) /\ status[i] \notin Expected(i) \ {"allocated"}
  /\ pc[i] = "attached"
  /\ Finish(i, "alarm")
  /\ UNCHANGED <<platform, tf>> /\ Calls

\* An unexpected status is a hard failure.
PollAlarm(i) ==
  /\ Polling(i) /\ Exists(i) /\ status[i] \notin Expected(i)
  /\ Finish(i, "alarm")
  /\ UNCHANGED <<platform, tf>> /\ Calls

\* Mutated form of PollGivesUp: a failed GET is polled again, deadline or not.
PollGoesOn(i) ==
  /\ Polling(i) /\ pc' = pc /\ UNCHANGED <<op, plan, outcome>>
  /\ UNCHANGED <<platform, tf>> /\ Calls

\* A GET fails or the deadline passes.
PollGivesUp(i) ==
  /\ Polling(i) /\ Finish(i, "error")
  /\ UNCHANGED <<platform, tf>> /\ Calls

ReadBack(i) ==
  /\ pc[i] = "read" /\ Exists(i) /\ Save(i) /\ Finish(i, "ok")
  /\ UNCHANGED platform /\ Calls

\* The platform releases an IP that is free.
Free(i) == status[i] \in {"allocated", "error"} /\ task[i] = None
Gone(i) ==
  /\ status' = [status EXCEPT ![i] = "absent"]
  /\ holder' = [holder EXCEPT ![i] = None]
  /\ UNCHANGED task

Release(i) ==
  /\ pc[i] = "release" /\ Free(i) /\ Gone(i)
  /\ \/ Forget(i) /\ Finish(i, "ok")
     \/ UNCHANGED tf /\ Finish(i, "error")
  /\ Calls

\* Mutated form of ReleaseMissing: a conflict counts as released, too.
ReleaseRefusedForgets(i) ==
  /\ pc[i] = "release" /\ ~Free(i) /\ Forget(i) /\ Finish(i, "ok")
  /\ UNCHANGED platform /\ Calls

ReleaseMissing(i) ==
  /\ pc[i] = "release" /\ ~Exists(i) /\ Forget(i) /\ Finish(i, "ok")
  /\ UNCHANGED platform /\ Calls

-----------------------------------------------------------------------------
(* The platform's tasks, and other clients of the platform.                *)

Own == UNCHANGED <<handler, tf, ops>>

PickUp(i) ==
  /\ \/ task[i] \in Targets /\ status[i] = "allocated"
        /\ status' = [status EXCEPT ![i] = "attaching"]
     \/ task[i] = "detach" /\ status[i] = "attached"
        /\ status' = [status EXCEPT ![i] = "detaching"]
  /\ Own /\ UNCHANGED <<holder, task, meddled, ext>>

TaskDone(i) ==
  /\ \/ /\ status[i] = "attaching" /\ status' = [status EXCEPT ![i] = "attached"]
        /\ holder' = [holder EXCEPT ![i] = task[i]]
     \/ /\ status[i] = "detaching" /\ status' = [status EXCEPT ![i] = "allocated"]
        /\ holder' = [holder EXCEPT ![i] = None]
  /\ task' = [task EXCEPT ![i] = None]
  /\ Own /\ UNCHANGED <<meddled, ext>>

Outside(i) == ext > 0 /\ ext' = ext - 1 /\ meddled' = meddled \union {i} /\ Own

TaskFails(i) ==
  /\ Outside(i) /\ status[i] \in {"attaching", "detaching"}
  /\ status' = [status EXCEPT ![i] = "error"]
  /\ task' = [task EXCEPT ![i] = None] /\ holder' = [holder EXCEPT ![i] = None]

\* Another client, or a load balancer, attaches a free IP.
OutsideAttach(i, t) ==
  /\ Outside(i) /\ status[i] = "allocated" /\ task[i] = None
  /\ \A j \in IPs : holder[j] # t /\ task[j] # t
  /\ status' = [status EXCEPT ![i] = "attached"]
  /\ holder' = [holder EXCEPT ![i] = t]
  /\ UNCHANGED task

OutsideDetach(i) ==
  /\ Outside(i) /\ status[i] = "attached" /\ task[i] = None
  /\ status' = [status EXCEPT ![i] = "allocated"]
  /\ holder' = [holder EXCEPT ![i] = None]
  /\ UNCHANGED task

\* The operator locks a free IP.
Reserve(i) ==
  /\ Outside(i) /\ status[i] = "allocated" /\ task[i] = None
  /\ status' = [status EXCEPT ![i] = "reserved"] /\ UNCHANGED <<holder, task>>

OutsideRelease(i) == Outside(i) /\ Free(i) /\ Gone(i)

-----------------------------------------------------------------------------

Start(i) ==
  \/ \E w \in Targets \union {None}, b \in BOOLEAN :
       StartCreate(i, w, b) \/ StartUpdate(i, w, b)
  \/ StartDelete(i)

Proceed(i) ==
  \/ CallFails(i) \/ CheckType(i) \/ Allocate(i) \/ AllocateLost(i) \/ Annotate(i)
  \/ Detach(i) \/ DetachSeen(i) \/ Attach(i) \/ AttachSeen(i)
  \/ PollAlarm(i) \/ PollGivesUp(i) \/ ReadBack(i)
  \/ Release(i) \/ ReleaseMissing(i)

Platform(i) ==
  \/ PickUp(i) \/ TaskDone(i) \/ TaskFails(i)
  \/ \E t \in Targets \union {Balancer} : OutsideAttach(i, t)
  \/ OutsideDetach(i) \/ Reserve(i) \/ OutsideRelease(i)

Quiet == (\A i \in IPs : pc[i] = "idle") /\ UNCHANGED vars

Next == (\E i \in IPs : Start(i) \/ Refresh(i) \/ Proceed(i) \/ Platform(i)) \/ Quiet

Spec == Init /\ [][Next]_vars
FairSpec == Spec /\ \A i \in IPs : WF_vars(Proceed(i))

-----------------------------------------------------------------------------
(* Properties.                                                             *)

\* The polls of attachAndPoll and detachAndPoll fail hard on a status only if
\* something else touched the IP or its task failed: every status the platform
\* goes through for this handler's own request is waited out.
NoFalseAlarm == \A i \in IPs : outcome[i] = "alarm" => i \in meddled

\* A create or update that reports success, undisturbed and planned from a
\* state that was right, leaves the IP and the state with the planned target,
\* also when it had to detach from another target first.  An IP that a load
\* balancer holds counts as detached here.
OkMatchesPlan ==
  [][ \A i \in IPs :
        /\ pc[i] # "idle" /\ pc'[i] = "idle" /\ outcome'[i] = "ok"
        /\ op[i] \in {"create", "update"} /\ i \notin meddled
        => Seen(i)' = plan[i] /\ tf'[i].to = plan[i]
    ]_vars

\* The state forgets an IP only when it is released: a conflict on release or
\* a detachment that fails keeps it.
ForgetsOnlyReleased ==
  [][ \A i \in IPs : tf[i].there /\ ~tf'[i].there => status'[i] = "absent" ]_vars

\* persist_before_wait_test.go:25-29: "once the create API call returns, the
\* remote object exists. If the provider then waits for provisioning and
\* returns on failure without having written the state, Terraform holds no
\* record of the object": a handler that stops waiting has the IP in state.
WaitKeepsRecord ==
  [][ \A i \in IPs : Polling(i) /\ pc'[i] = "idle" /\ Exists(i)'
        => tf'[i].there ]_vars

\* What is left of that rule: an IP that exists and is in no state was left there
\* by a handler that ended in an error, and nobody has been told since that all is
\* well, whatever calls and waits failed and whatever others did to the IP.
StrandedMeansError ==
  \A i \in IPs :
    Exists(i) /\ ~tf[i].there /\ pc[i] = "idle" => outcome[i] \in {"error", "alarm"}

\* Every handler call returns.
HandlersFinish == \A i \in IPs : pc[i] # "idle" ~> pc[i] = "idle"
=============================================================================
