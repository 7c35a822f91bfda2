---------------------------- MODULE MCAppGWPolicy ----------------------------
(* AppGWPolicy for TLC with both kinds of children, from three beginnings: a  *)
(* bare gateway and two calls; a bare gateway, one call and one event outside *)
(* the provider; and one call where the children that are recorded are gone.  *)
EXTENDS AppGWPolicy

Calls == INSTANCE AppGWPolicy WITH MaxExternal <- 0
Disturbed == INSTANCE AppGWPolicy WITH MaxOps <- 1, MaxExternal <- 1

\* What Init says of everything but the state of the children.
Gone == INSTANCE AppGWPolicy WITH
  MaxOps <- 1, MaxExternal <- 0,
  tf <- [r \in Res |-> IF r = Gateway THEN tf[r] ELSE NoState]
Forgotten ==
  /\ tf = [r \in Res |-> [there |-> TRUE, tainted |-> FALSE, rev |-> 0, doc |-> Empty]]
  /\ Gone!Init

MCInit == Calls!Init \/ Disturbed!Init \/ Forgotten
MCSpec == MCInit /\ [][Next]_vars /\ Fairness
=============================================================================
