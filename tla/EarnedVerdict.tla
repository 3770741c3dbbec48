----------------------------- MODULE EarnedVerdict ----------------------------
(***************************************************************************)
(* What the verification of a recovery promises, without verifiers, leases  *)
(* or acquisitions: windows are observed one after the other and never      *)
(* replaced, and one verdict is given on them as they are or as they were.  *)
(* Module RecoveryVerification implements this specification.               *)
(***************************************************************************)
EXTENDS Naturals

CONSTANTS WindowLength, MaxTime

VARIABLES
    time,
    windows, \* what was observed
    grounds, \* the windows on which the verdict was given
    verdict

vars == <<time, windows, grounds, verdict>>

NotObserved == [start |-> 0, end |-> 0, passed |-> FALSE]
Observations == [start : 0..MaxTime, end : 0..MaxTime, passed : BOOLEAN]

\* Two windows, as long as the policy asks, that passed.
Earned(ws) ==
    \A n \in {1, 2} : ws[n].passed /\ ws[n].end - ws[n].start = WindowLength

\* The first k windows: what there was to see at some time until now.
First(k) == [n \in {1, 2} |-> IF n <= k THEN windows[n] ELSE NotObserved]

Init ==
    /\ time = 0
    /\ windows = [n \in {1, 2} |-> NotObserved]
    /\ grounds = [n \in {1, 2} |-> NotObserved]
    /\ verdict = "NONE"

Wait ==
    /\ time' = time + 1
    /\ UNCHANGED <<windows, grounds, verdict>>

\* A window that begins after the receipt and after the window before it, and that
\* is over; the one before it may have been lost, but does not come any more.
Observe(n) ==
    /\ verdict = "NONE"
    /\ \A m \in {1, 2} : n <= m => windows[m] = NotObserved
    /\ \E window \in Observations :
           /\ windows[1].end < window.start
           /\ window.start < window.end
           /\ window.end <= time
           /\ windows' = [windows EXCEPT ![n] = window]
    /\ UNCHANGED <<time, grounds, verdict>>

Conclude ==
    /\ verdict = "NONE"
    /\ \E k \in 0..2 : grounds' = First(k)
    /\ verdict' = IF Earned(grounds') THEN "RECOVERED" ELSE "VERIFICATION_FAILED"
    /\ UNCHANGED <<time, windows>>

Next == Wait \/ (\E n \in {1, 2} : Observe(n)) \/ Conclude

Spec == Init /\ [][Next]_vars
================================================================================
