-------------------------- MODULE GovernedExtensions --------------------------
(***************************************************************************)
(* What the knowledge loop promises about an extension of the diagnosis,    *)
(* without incidents, matrices, calls and stale reads: it is drafted from a *)
(* family that a reviewer accepted, evaluated once, promoted once and only  *)
(* if it passed, and revoked at most once.                                  *)
(***************************************************************************)
CONSTANTS Families, Registrations, NoFamilyYet

VARIABLES
    accepted, \* families that a reviewer has accepted
    source,   \* the family each registration was drafted from
    stage     \* how far each registration has come

Stages == {"NONE", "DRAFTED", "PASSED", "FAILED", "ACTIVE", "REVOKED"}

Init ==
    /\ accepted = {}
    /\ source = [r \in Registrations |-> NoFamilyYet]
    /\ stage = [r \in Registrations |-> "NONE"]

Accept(f) ==
    /\ accepted' = accepted \cup {f}
    /\ UNCHANGED <<source, stage>>

Draft(r, f) ==
    /\ f \in accepted /\ stage[r] = "NONE"
    /\ source' = [source EXCEPT ![r] = f]
    /\ stage' = [stage EXCEPT ![r] = "DRAFTED"]
    /\ UNCHANGED accepted

Advance(r, from, to) ==
    /\ stage[r] = from
    /\ stage' = [stage EXCEPT ![r] = to]
    /\ UNCHANGED <<accepted, source>>

Step(r) ==
    \/ \E f \in Families : Draft(r, f)
    \/ Advance(r, "DRAFTED", "PASSED") \/ Advance(r, "DRAFTED", "FAILED")
    \/ Advance(r, "PASSED", "ACTIVE")
    \/ Advance(r, "ACTIVE", "REVOKED")

Next == (\E f \in Families : Accept(f)) \/ (\E r \in Registrations : Step(r))

Spec == Init /\ [][Next]_<<accepted, source, stage>>
=============================================================================
