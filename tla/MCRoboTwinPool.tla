---------------------------- MODULE MCRoboTwinPool ----------------------------
(* Instance of RoboTwinPool for TLC: two workers, so that one can take the *)
(* other's go permit; a horizon of two sub-steps, so that a chunk can      *)
(* terminate before its end; a step ceiling of two, so that truncation and *)
(* termination both happen within the cycle bound; a seed wrap of three,   *)
(* so that the cursor wraps within a few claims (30 in the code).          *)
EXTENDS RoboTwinPool

MCN == 2
MCH == 2
MCStepLim == 2
MCSeedWrap == 3
MCSeedCap == 3000
MCMaxCycles == 4
=============================================================================
