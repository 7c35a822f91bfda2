----------------------------- MODULE MCPublicIP -----------------------------
(* Instances of PublicIP for TLC.  IPs and targets are interchangeable, but  *)
(* the runs check liveness, which symmetry reduction does not preserve.      *)
EXTENDS PublicIP

=============================================================================
