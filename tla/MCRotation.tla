----------------------------- MODULE MCRotation -----------------------------
(* Instances of Rotation for TLC: the deployments and tables of MCSweep.   *)
EXTENDS Rotation, MCSweep
=============================================================================
