---------------------------- MODULE MCRunControl ----------------------------
(* Constants and symmetry for the runs of RunControl. *)
EXTENDS RunControl, TLC

RunnerSymmetry == Permutations(Runners)
=============================================================================
