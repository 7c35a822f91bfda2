---------------------------- MODULE MCAppGWPlatforms ----------------------------
(* AppGWPolicy for TLC on two platforms in one run: the one the cfg describes, *)
(* with two gateway replicas, documents altered on the way and a writer         *)
(* outside, and an older one that has no access-policy contract at all.         *)
EXTENDS AppGWPolicy

VARIABLE behind      \* the platform behind the API
mcVars == <<vars, behind>>

\* No capability and no revision.
Old == INSTANCE AppGWPolicy WITH
  Capabilities <- {}, OddAnswers <- FALSE, Rotations <- TRUE, MaxOps <- 3

MCInit ==
  \/ behind = "new" /\ Init
  \/ behind = "old" /\ Old!Init
MCNext ==
  /\ \/ behind = "new" /\ Next
     \/ behind = "old" /\ Old!Next
  /\ UNCHANGED behind

MCSpec == MCInit /\ [][MCNext]_mcVars
=============================================================================
