------------------------------ MODULE BoundedWrite -----------------------------
(***************************************************************************)
(* What bounded remediation promises, without processes, leases, clocks or   *)
(* messages: an approval authorizes at most one attempt, one attempt is open *)
(* on the target at a time, an attempt writes at most once and only while    *)
(* its outcome is in doubt, and its verdict is final and true.               *)
(* Module Remediation implements this specification.                         *)
(***************************************************************************)
EXTENDS Naturals

CONSTANTS Attempts, Approvals

VARIABLES
    stage,  \* where each attempt stands
    spent,  \* approvals that have authorized an attempt
    writes  \* external writes made for each attempt

vars == <<stage, spent, writes>>

Open == {"authorized", "doubtful", "applied"}
Closed == {"refused", "failed", "unknown", "recovered", "unrecovered"}

Init ==
    /\ stage = [a \in Attempts |-> "none"]
    /\ spent = {}
    /\ writes = [a \in Attempts |-> 0]

Move(a, from, to) ==
    /\ stage[a] \in from
    /\ stage' = [stage EXCEPT ![a] = to]

\* Only here does an approval turn into authority, and only on a free target.
Authorize(a, p) ==
    /\ Move(a, {"none"}, "authorized")
    /\ \A b \in Attempts : stage[b] \notin Open
    /\ p \notin spent
    /\ spent' = spent \cup {p}
    /\ UNCHANGED writes

\* A denial or a cancellation: certainly no write, and none to come.
Refuse(a) ==
    /\ Move(a, {"none", "authorized"}, "refused")
    /\ UNCHANGED <<spent, writes>>

Commit(a) ==
    /\ Move(a, {"authorized"}, "doubtful")
    /\ UNCHANGED <<spent, writes>>

Write(a) ==
    /\ stage[a] = "doubtful"
    /\ writes[a] = 0
    /\ writes' = [writes EXCEPT ![a] = 1]
    /\ UNCHANGED <<stage, spent>>

Confirm(a) ==
    /\ writes[a] = 1
    /\ Move(a, {"doubtful"}, "applied")
    /\ UNCHANGED <<spent, writes>>

Disprove(a) ==
    /\ writes[a] = 0
    /\ Move(a, {"doubtful"}, "failed")
    /\ UNCHANGED <<spent, writes>>

GiveUp(a) ==
    /\ Move(a, {"doubtful", "applied"}, "unknown")
    /\ UNCHANGED <<spent, writes>>

Conclude(a) ==
    /\ Move(a, {"applied"}, "recovered") \/ Move(a, {"applied"}, "unrecovered")
    /\ UNCHANGED <<spent, writes>>

Step(a) ==
    \/ \E p \in Approvals : Authorize(a, p)
    \/ Refuse(a) \/ Commit(a) \/ Write(a) \/ Confirm(a) \/ Disprove(a)
    \/ GiveUp(a) \/ Conclude(a)

Next == \E a \in Attempts : Step(a)

Spec == Init /\ [][Next]_vars

\* Where an attempt stands says what was written for it, unless it is in doubt or given
\* up: once before a verdict on recovery, never on the way to a refusal or a failure -
\* and no write comes after these.
VerdictIsTrue ==
    \A a \in Attempts :
        /\ stage[a] \in {"applied", "recovered", "unrecovered"} => writes[a] = 1
        /\ stage[a] \in {"none", "authorized", "refused", "failed"} => writes[a] = 0
================================================================================
