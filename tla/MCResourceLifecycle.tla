------------------------- MODULE MCResourceLifecycle -------------------------
(* ResourceLifecycle, every type and the scale sets alone, for TLC. *)
EXTENDS ResourceLifecycle

AllKinds == DOMAIN Resources
ScaleSets == {"container_scale_set", "vm_scale_set"}
=============================================================================
