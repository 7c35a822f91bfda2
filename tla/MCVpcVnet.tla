------------------------------ MODULE MCVpcVnet ------------------------------
(* VpcVnet for TLC on two platforms in one run: one that records             *)
(* dedicated_egress_ip and one that does not know the option.                *)
EXTENDS VpcVnet

VARIABLE knows   \* does the platform behind the API know the option?
mcVars == <<vars, knows>>

Old == INSTANCE VpcVnet WITH KnowsEgress <- FALSE

MCInit == Init /\ knows \in BOOLEAN
MCNext == ((knows /\ Next) \/ (~knows /\ Old!Next)) /\ UNCHANGED knows
MCSpec ==
  /\ MCInit
  /\ [][MCNext]_mcVars
  /\ \A r \in R : WF_mcVars(((knows /\ Proceed(r)) \/ (~knows /\ Old!Proceed(r)))
                            /\ UNCHANGED knows)
=============================================================================
