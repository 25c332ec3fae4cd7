------------------------ MODULE MCResponsibilityRun ------------------------
(***************************************************************************)
(* TLC's instances of ResponsibilityRun.  Instances of the scheduler are   *)
(* interchangeable; the run with liveness does not use the symmetry.       *)
(***************************************************************************)
EXTENDS ResponsibilityRun, TLC

InstanceSymmetry == Permutations(Instances)

=============================================================================
