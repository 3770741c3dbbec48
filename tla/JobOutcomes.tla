------------------------------- MODULE JobOutcomes -------------------------------
(***************************************************************************)
(* What the job queue promises a client, without workers, claims, leases,   *)
(* attempts or journals: a job is accepted once and ends at most once, one  *)
(* result is stored under it while it is open - replaceable only if the job *)
(* may revise it - and a job that succeeds shows the result that is stored  *)
(* for good.  Module DiagnosisJobs implements this specification.           *)
(***************************************************************************)
CONSTANTS Jobs, Values, NoValue

VARIABLES
    stage,     \* where each job stands
    revisable, \* the jobs that may replace what they have stored
    stored,    \* the result under which a reader finds each job's work
    shown      \* the result the job itself names

vars == <<stage, revisable, stored, shown>>

Init ==
    /\ stage = [j \in Jobs |-> "none"]
    /\ revisable = {}
    /\ stored = [j \in Jobs |-> NoValue]
    /\ shown = [j \in Jobs |-> NoValue]

Move(j, from, to) ==
    /\ stage[j] = from
    /\ stage' = [stage EXCEPT ![j] = to]

Accept(j) ==
    /\ Move(j, "none", "open")
    /\ revisable' \in {revisable, revisable \cup {j}}
    /\ UNCHANGED <<stored, shown>>

Store(j, v) ==
    /\ stage[j] = "open"
    /\ stored[j] = NoValue \/ j \in revisable
    /\ stored' = [stored EXCEPT ![j] = v]
    /\ UNCHANGED <<stage, revisable, shown>>

Succeed(j) ==
    /\ stored[j] # NoValue
    /\ Move(j, "open", "succeeded")
    /\ shown' = [shown EXCEPT ![j] = stored[j]]
    /\ UNCHANGED <<revisable, stored>>

Fail(j) ==
    /\ Move(j, "open", "failed")
    /\ UNCHANGED <<revisable, stored, shown>>

Step(j) == Accept(j) \/ (\E v \in Values : Store(j, v)) \/ Succeed(j) \/ Fail(j)

Next == \E j \in Jobs : Step(j)

Spec == Init /\ [][Next]_vars
================================================================================
