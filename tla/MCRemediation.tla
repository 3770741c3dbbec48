----------------------------- MODULE MCRemediation -----------------------------
(* Instances of Remediation for TLC. *)
EXTENDS Remediation, TLC

Symmetric == Permutations(Attempts) \cup Permutations(Approvals)
             \cup Permutations(Executors)
================================================================================
