---------------------------- MODULE MCDiagnosisJobs ----------------------------
(* Instances of DiagnosisJobs for TLC. *)
EXTENDS DiagnosisJobs, TLC

Symmetric == Permutations(Jobs) \cup Permutations(Workers) \cup Permutations(Values)
================================================================================
