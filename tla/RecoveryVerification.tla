------------------------- MODULE RecoveryVerification --------------------------
(***************************************************************************)
(* How an attempt whose write was applied comes to its verdict: two windows *)
(* of observations, each acquired at most once, and an evaluation stored    *)
(* with the terminal state.  Module Remediation takes the verdict as given. *)
(*                                                                          *)
(* The attempt is the one of a receipt with outcome APPLIED that ended at   *)
(* time 0.  Several executors may verify it at once: the lease of a slow    *)
(* one lapses, and another resumes the verification.                        *)
(***************************************************************************)
EXTENDS Naturals

CONSTANTS
    Verifiers,    \* executor processes
    WindowLength, \* window_seconds of the recovery policy
    VerifyTerm,   \* the lease that verify() takes
    MaxTime       \* bound on the clock

ASSUME TermsAssumption ==
    /\ WindowLength \in Nat \ {0} /\ VerifyTerm \in Nat \ {0} /\ MaxTime \in Nat \ {0}

VARIABLES
    now,        \* the clock
    state,      \* state of the attempt
    leaseExp,   \* lease_expires_at of the attempt
    reserved,   \* remediation_window_acquisitions: ordinals that are consumed
    windows,    \* remediation_recovery_windows
    evaluation, \* the windows of the stored evaluation
    verifier    \* program counter and locals of each verifier

vars == <<now, state, leaseExp, reserved, windows, evaluation, verifier>>

--------------------------------------------------------------------------------
(* Values *)

Ordinals == {1, 2}
Verdicts == {"RECOVERED", "VERIFICATION_FAILED"}

\* No window is stored; a window with what its six checks came to.
NoWindow == [start |-> 0, end |-> 0, passed |-> FALSE]
WindowRows == [start : 0..MaxTime, end : 0..MaxTime, passed : BOOLEAN]
NoWindows == [n \in Ordinals |-> NoWindow]

Idle == [pc |-> "IDLE", ordinal |-> 1, after |-> 0, read |-> NoWindows,
         verdict |-> "VERIFICATION_FAILED"]
VerifierRows == [pc : {"IDLE", "RESERVING", "ACQUIRING", "READING", "JUDGING"},
                 ordinal : Ordinals, after : 0..MaxTime, read : [Ordinals -> WindowRows],
                 verdict : Verdicts]

--------------------------------------------------------------------------------
(* Helpers *)

Least(m, n) == IF m < n THEN m ELSE n

Terminal == state \in Verdicts

Stored(ws, n) == ws[n] # NoWindow

\* evaluate finds no reason against recovery: both windows are there, after the
\* receipt and before now, as long as the policy asks, one after the other, and all
\* of their checks passed.
Recovered(ws, t) ==
    /\ \A n \in Ordinals :
           /\ Stored(ws, n) /\ ws[n].passed
           /\ 0 < ws[n].start /\ ws[n].end <= t
           /\ ws[n].end - ws[n].start = WindowLength
    /\ ws[1].end <= ws[2].start

Goto(v, pc) == verifier' = [verifier EXCEPT ![v].pc = pc]
Return(v) == verifier' = [verifier EXCEPT ![v] = Idle]

\* Variant: the loop goes one ordinal too far.
NextOrdinalOn(v) ==
    verifier' = [verifier EXCEPT
        ![v].pc = IF verifier[v].ordinal = 3 THEN "READING" ELSE "RESERVING",
        ![v].ordinal = @ + 1]

\* The loop over the ordinals; after the second the windows are read.
NextOrdinal(v) ==
    verifier' = [verifier EXCEPT
        ![v].pc = IF verifier[v].ordinal = 2 THEN "READING" ELSE "RESERVING",
        ![v].ordinal = 2]

--------------------------------------------------------------------------------
(* verify *)

\* The verifier that finds the attempt APPLIED acquires the windows.
Start(v) ==
    /\ verifier[v].pc = "IDLE"
    /\ state = "APPLIED"
    /\ state' = "VERIFYING"
    /\ leaseExp' = Least(now + VerifyTerm, MaxTime)
    /\ verifier' = [verifier EXCEPT ![v] = [Idle EXCEPT !.pc = "RESERVING"]]
    /\ UNCHANGED <<now, reserved, windows, evaluation>>

\* Variant: the verification is resumed while the lease lasts.
ResumeEarly(v) ==
    /\ verifier[v].pc = "IDLE"
    /\ state = "VERIFYING"
    /\ now < leaseExp
    /\ verifier' = [verifier EXCEPT ![v] = [Idle EXCEPT !.pc = "READING"]]
    /\ UNCHANGED <<now, state, leaseExp, reserved, windows, evaluation>>

\* A verifier that finds the attempt VERIFYING under a lapsed lease judges what is
\* there; it acquires nothing and takes no lease.
Resume(v) ==
    /\ verifier[v].pc = "IDLE"
    /\ state = "VERIFYING"
    /\ leaseExp <= now
    /\ verifier' = [verifier EXCEPT ![v] = [Idle EXCEPT !.pc = "READING"]]
    /\ UNCHANGED <<now, state, leaseExp, reserved, windows, evaluation>>

\* INSERT OR IGNORE of the acquisition, in a transaction of its own, and the time
\* after which the window has to start: the latest of the receipt, the windows that are
\* stored and now, and that is now.
Reserve(v) ==
    LET n == verifier[v].ordinal IN
    /\ verifier[v].pc = "RESERVING"
    /\ \/ /\ n \in reserved
          /\ NextOrdinal(v)
       \/ /\ n \notin reserved
          /\ verifier' = [verifier EXCEPT ![v].pc = "ACQUIRING", ![v].after = now]
    /\ reserved' = reserved \cup {n}
    /\ UNCHANGED <<now, state, leaseExp, windows, evaluation>>

\* Variant: a window is stored whatever the attempt has come to.
StoreWindowAlways(v) ==
    /\ verifier[v].pc = "ACQUIRING"
    /\ \E window \in WindowRows :
           /\ verifier[v].after < window.start
           /\ window.start < window.end
           /\ window.end <= now
           /\ windows' = [windows EXCEPT ![verifier[v].ordinal] = window]
    /\ NextOrdinal(v)
    /\ UNCHANGED <<now, state, leaseExp, reserved, evaluation>>

\* The observation of a window has come, is fresh, and is stored while the attempt is
\* still being verified.
StoreWindow(v) ==
    /\ verifier[v].pc = "ACQUIRING"
    /\ state = "VERIFYING"
    /\ \E window \in WindowRows :
           /\ verifier[v].after < window.start
           /\ window.start < window.end
           /\ window.end <= now
           /\ windows' = [windows EXCEPT ![verifier[v].ordinal] = window]
    /\ NextOrdinal(v)
    /\ UNCHANGED <<now, state, leaseExp, reserved, evaluation>>

\* The provider fails, its observation is not fresh, or the attempt has ended: the
\* acquisition stays consumed.
LoseWindow(v) ==
    /\ verifier[v].pc = "ACQUIRING"
    /\ NextOrdinal(v)
    /\ UNCHANGED <<now, state, leaseExp, reserved, windows, evaluation>>

\* Variant: one good window is enough.
EvaluateOne(v) ==
    /\ verifier[v].pc = "READING"
    /\ verifier' = [verifier EXCEPT
           ![v].pc = "JUDGING", ![v].read = windows,
           ![v].verdict = IF \E n \in Ordinals : windows[n].passed THEN "RECOVERED"
                          ELSE "VERIFICATION_FAILED"]
    /\ UNCHANGED <<now, state, leaseExp, reserved, windows, evaluation>>

\* windows() and evaluate().
Evaluate(v) ==
    /\ verifier[v].pc = "READING"
    /\ verifier' = [verifier EXCEPT
           ![v].pc = "JUDGING", ![v].read = windows,
           ![v].verdict = IF now > 0 /\ Recovered(windows, now) THEN "RECOVERED"
                          ELSE "VERIFICATION_FAILED"]
    /\ UNCHANGED <<now, state, leaseExp, reserved, windows, evaluation>>

\* The last transaction: the evaluation with the terminal state, unless another verdict
\* was there first.
Judge(v) ==
    /\ verifier[v].pc = "JUDGING"
    /\ \/ /\ ~Terminal
          /\ state' = verifier[v].verdict
          /\ evaluation' = verifier[v].read
       \/ /\ Terminal
          /\ UNCHANGED <<state, evaluation>>
    /\ Return(v)
    /\ UNCHANGED <<now, leaseExp, reserved, windows>>

--------------------------------------------------------------------------------
(* The environment *)

Tick ==
    /\ now < MaxTime
    /\ now' = now + 1
    /\ UNCHANGED <<state, leaseExp, reserved, windows, evaluation, verifier>>

Crash(v) ==
    /\ verifier[v].pc # "IDLE"
    /\ Return(v)
    /\ UNCHANGED <<now, state, leaseExp, reserved, windows, evaluation>>

--------------------------------------------------------------------------------
(* The specification *)

Init ==
    /\ now = 0
    /\ state = "APPLIED"
    /\ leaseExp = 0
    /\ reserved = {}
    /\ windows = NoWindows
    /\ evaluation = NoWindows
    /\ verifier = [v \in Verifiers |-> Idle]

Verify(v) ==
    \/ Start(v) \/ Resume(v) \/ Reserve(v) \/ StoreWindow(v) \/ LoseWindow(v)
    \/ Evaluate(v) \/ Judge(v)

Next == Tick \/ \E v \in Verifiers : Verify(v) \/ Crash(v)

Spec == Init /\ [][Next]_vars

\* The clock runs, and a verifier goes on with what it has begun: the provider answers
\* or fails within its deadline, and executor_main is started again after a crash.
FairSpec == Spec /\ WF_vars(Tick) /\ \A v \in Verifiers : WF_vars(Verify(v))

--------------------------------------------------------------------------------
(* Properties *)

\* The loop stays within its two ordinals, and rows and locals within their types.
TypeOK ==
    /\ now \in 0..MaxTime
    /\ state \in {"APPLIED", "VERIFYING"} \cup Verdicts
    /\ leaseExp \in 0..MaxTime
    /\ reserved \subseteq Ordinals
    /\ windows \in [Ordinals -> WindowRows]
    /\ evaluation \in [Ordinals -> WindowRows]
    /\ verifier \in [Verifiers -> VerifierRows]

\* An attempt is RECOVERED only on two whole windows that follow the receipt and each
\* other and that passed, and these are the windows that are stored with it - also when
\* a second verifier evaluated while the first still stored.
RecoveredIsEarned ==
    state = "RECOVERED" => Recovered(windows, now) /\ evaluation = windows

\* The windows that are stored are of one chain, whoever stored them and whatever was
\* lost in between: the second starts after the first has ended.
WindowsFollow ==
    /\ \A n \in Ordinals : Stored(windows, n) =>
           n \in reserved /\ 0 < windows[n].start /\ windows[n].end <= now
    /\ Stored(windows, 1) /\ Stored(windows, 2) => windows[1].end < windows[2].start

\* A stored window and a verdict are final: a verifier that comes late changes neither
\* the terminal, nor its evaluation, nor the windows beside it.
VerdictIsFinal ==
    [][/\ Terminal => UNCHANGED <<state, windows, evaluation>>
       /\ \A n \in Ordinals : Stored(windows, n) => windows'[n] = windows[n]]_vars

\* The abstract view: whatever a verifier does before the terminal is no verdict.
Given == IF Terminal THEN state ELSE "NONE"

Verdict == INSTANCE EarnedVerdict WITH time <- now, grounds <- evaluation, verdict <- Given

\* However many verifiers take part, resume, lose windows or come late, together they do
\* what one would: windows in order and never replaced, and one verdict, which is what
\* the windows stored with it say - RECOVERED or not.
KeepsVerdict == Verdict!Spec

\* An applied attempt gets its verdict, and with it frees the target, wherever its
\* verifiers stop, once they no longer crash before it.
VerdictComes ==
    <>[][\A v \in Verifiers : Crash(v) => Terminal]_vars => (state = "APPLIED" ~> Terminal)
================================================================================
