---------------------------- MODULE MCCronPilot -----------------------------
(* Model values and symmetry for CronPilot.                                *)
EXTENDS CronPilot, TLC
RunSymmetry == Permutations(Runs)
=============================================================================
