---------------------------- MODULE MCRunStorage ----------------------------
(* Instances of RunStorage for TLC.  Runners, conversations and tasks are   *)
(* interchangeable, so their permutations are a symmetry of the safety run. *)
EXTENDS RunStorage, TLC

Symmetry == Permutations(Tasks) \cup Permutations(Runners) \cup Permutations(Convs)
                \cup Permutations(Specs)
=============================================================================
