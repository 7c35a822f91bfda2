---------------------------- MODULE ManagedObject ----------------------------
(***************************************************************************)
(* What every ccp_* resource promises of the remote object behind it: from *)
(* the moment the create call answers, the object is in Terraform state,   *)
(* and the state lets go of it only when it is gone or the platform has    *)
(* accepted its deletion.  The create handlers state this promise in the   *)
(* comment "The remote object exists from here on. Persist it before       *)
(* waiting".                                                               *)
(***************************************************************************)
CONSTANT Objects

VARIABLES
  exists,    \* objects the platform has
  recorded,  \* objects in Terraform state
  doomed,    \* objects whose deletion the platform accepted
  lost       \* objects whose creation was never answered

vars == <<exists, recorded, doomed, lost>>

TypeOK ==
  /\ exists \subseteq Objects /\ recorded \subseteq Objects
  /\ doomed \subseteq Objects /\ lost \subseteq Objects

Init ==
  /\ TypeOK
  /\ doomed = {} /\ lost = {} /\ exists = recorded

\* The create call answered: the object is recorded in the same handler step.
Create(o) ==
  /\ o \notin exists
  /\ exists' = exists \union {o} /\ recorded' = recorded \union {o}
  /\ lost' = lost \ {o} /\ doomed' = doomed \ {o}

\* The answer never arrived: nobody can record the object.
CreateUnanswered(o) ==
  /\ o \notin exists
  /\ exists' = exists \union {o} /\ lost' = lost \union {o}
  /\ doomed' = doomed \ {o} /\ UNCHANGED recorded

\* An import records an object that was there.
Adopt(o) ==
  /\ o \in exists \ recorded /\ recorded' = recorded \union {o}
  /\ UNCHANGED <<exists, doomed, lost>>

\* The platform accepts a deletion, of the provider or of somebody else.
Doom(o) ==
  /\ o \in exists /\ doomed' = doomed \union {o}
  /\ UNCHANGED <<exists, recorded, lost>>

\* Objects disappear.
Vanish(S) ==
  /\ S # {} /\ S \subseteq exists /\ exists' = exists \ S
  /\ UNCHANGED <<recorded, doomed, lost>>

\* A synchronous deletion: gone and forgotten at once.
Destroy(o) ==
  /\ o \in exists /\ exists' = exists \ {o} /\ recorded' = recorded \ {o}
  /\ UNCHANGED <<doomed, lost>>

\* The state lets go of an object that is gone or going.
Forget(o) ==
  /\ o \in recorded /\ (o \notin exists \/ o \in doomed)
  /\ recorded' = recorded \ {o}
  /\ UNCHANGED <<exists, doomed, lost>>

Next ==
  \/ \E o \in Objects : Create(o) \/ CreateUnanswered(o) \/ Adopt(o)
                        \/ Doom(o) \/ Destroy(o) \/ Forget(o)
  \/ \E S \in SUBSET Objects : Vanish(S)

Spec == Init /\ [][Next]_vars

\* No object is stranded: one that is not in state was never answered for, or
\* is on its way out.
NoStranded == exists \subseteq recorded \union lost \union doomed
=============================================================================
