------------------------ MODULE MCRecoveryVerification -------------------------
(* Instances of RecoveryVerification for TLC. *)
EXTENDS RecoveryVerification, TLC

Symmetric == Permutations(Verifiers)
================================================================================
