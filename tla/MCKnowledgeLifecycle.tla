-------------------------- MODULE MCKnowledgeLifecycle --------------------------
(* Instances of KnowledgeLifecycle for TLC. *)
EXTENDS KnowledgeLifecycle, TLC

\* The definition of a recurring fault by the number of incidents: the other three
\* conditions are taken to hold of any two.
TwoOrMore == {S \in SUBSET Incidents : Cardinality(S) >= 2}

Symmetric ==
    Permutations(Incidents) \cup Permutations(Families) \cup Permutations(Registrations)
        \cup Permutations(Clauses) \cup Permutations(Workers) \cup Permutations(Callers)
================================================================================
