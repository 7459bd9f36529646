------------------------- MODULE MCAttemptRecovery -------------------------
(* Instances of AttemptRecovery for TLC.                                    *)
EXTENDS AttemptRecovery, TLC
=============================================================================
