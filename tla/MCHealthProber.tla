-------------------------- MODULE MCHealthProber --------------------------
(* Instances of HealthProber. *)
EXTENDS HealthProber

CONSTANTS b1, b2

TwoBackends == <<b1, b2>>
=============================================================================
