---------------------- MODULE RecoveryVerificationProofs -----------------------
(***************************************************************************)
(* Proofs about RecoveryVerification, for any number of verifiers, any      *)
(* window length, lease and bound on the clock.                             *)
(***************************************************************************)
EXTENDS RecoveryVerification, TLAPS

--------------------------------------------------------------------------------
(* The inductive invariant *)

\* Verifiers that have taken part in the acquisition of the windows.
Acquiring(v) == verifier[v].pc \in {"RESERVING", "ACQUIRING"}

\* One verifier acquires, and none before the attempt is VERIFYING.
OneAcquires ==
    /\ state = "APPLIED" => \A v \in Verifiers : verifier[v].pc = "IDLE"
    /\ \A v, w \in Verifiers : Acquiring(v) /\ Acquiring(w) => v = w

\* What the acquiring verifier is about to store is not stored yet, nor is what comes
\* after it; and what came before has ended when the acquisition began.
Ahead ==
    /\ state = "APPLIED" => windows = NoWindows
    /\ \A v \in Verifiers : Acquiring(v) =>
           \A n \in Ordinals : verifier[v].ordinal <= n => ~Stored(windows, n)
    /\ \A v \in Verifiers : verifier[v].pc = "ACQUIRING" =>
           /\ verifier[v].ordinal \in reserved
           /\ verifier[v].after <= now
           /\ Stored(windows, 1) => windows[1].end <= verifier[v].after

\* A verdict of recovery rests on windows that cannot change any more.
VerdictRests ==
    \A v \in Verifiers :
        verifier[v].pc = "JUDGING" /\ verifier[v].verdict = "RECOVERED" =>
            Recovered(windows, now) /\ verifier[v].read = windows

IInv ==
    TypeOK /\ OneAcquires /\ Ahead /\ VerdictRests /\ WindowsFollow /\ RecoveredIsEarned

--------------------------------------------------------------------------------
(* Type correctness *)

\* The value Init gives to every window and every verifier is well-typed.
LEMMA InitialValues ==
    /\ NoWindow \in WindowRows
    /\ NoWindows \in [Ordinals -> WindowRows]
    /\ Idle \in VerifierRows
<1>1. MaxTime \in Nat
  BY TermsAssumption
<1>2. NoWindow \in WindowRows
  BY <1>1 DEF NoWindow, WindowRows
<1>3. NoWindows \in [Ordinals -> WindowRows]
  BY <1>2 DEF NoWindows
<1>4. Idle \in VerifierRows
  BY <1>1, <1>3 DEF Idle, VerifierRows, Ordinals, Verdicts
<1> QED
  BY <1>2, <1>3, <1>4

\* The initial state is well-typed.
LEMMA InitTypes == Init => TypeOK
BY InitialValues, TermsAssumption DEF Init, TypeOK, Ordinals

\* Every step keeps the types.
LEMMA NextTypes == TypeOK /\ [Next]_vars => TypeOK'
<1> SUFFICES ASSUME TypeOK, [Next]_vars PROVE TypeOK'
  OBVIOUS
<1> USE InitialValues, TermsAssumption DEF TypeOK
<1>1. CASE UNCHANGED vars
  BY <1>1 DEF vars
<1>2. CASE Tick
  BY <1>2 DEF Tick
<1>3. ASSUME NEW v \in Verifiers, Start(v) PROVE TypeOK'
  <2>1. Least(now + VerifyTerm, MaxTime) \in 0..MaxTime
    BY DEF Least
  <2>2. [Idle EXCEPT !.pc = "RESERVING"] \in VerifierRows
    BY DEF VerifierRows, Idle
  <2> QED
    BY <1>3, <2>1, <2>2 DEF Start
<1>4. ASSUME NEW v \in Verifiers, Resume(v) PROVE TypeOK'
  <2>1. [Idle EXCEPT !.pc = "READING"] \in VerifierRows
    BY DEF VerifierRows, Idle
  <2> QED
    BY <1>4, <2>1 DEF Resume
<1>5. ASSUME NEW v \in Verifiers, NextOrdinal(v)
      PROVE verifier' \in [Verifiers -> VerifierRows]
  <2>1. PICK pc \in {"READING", "RESERVING"} :
            verifier' = [verifier EXCEPT ![v].pc = pc, ![v].ordinal = 2]
    BY <1>5 DEF NextOrdinal
  <2>2. [verifier[v] EXCEPT !.pc = pc, !.ordinal = 2] \in VerifierRows
    BY DEF VerifierRows, Ordinals
  <2>3. verifier' = [verifier EXCEPT ![v] = [verifier[v] EXCEPT !.pc = pc, !.ordinal = 2]]
    BY <2>1
  <2> QED
    BY <2>2, <2>3
<1>6. ASSUME NEW v \in Verifiers, Reserve(v) PROVE TypeOK'
  <2>1. verifier[v].ordinal \in Ordinals
    BY DEF VerifierRows
  <2>2. verifier' \in [Verifiers -> VerifierRows]
    <3>1. CASE NextOrdinal(v)
      BY <1>5, <3>1
    <3>2. CASE verifier' = [verifier EXCEPT ![v].pc = "ACQUIRING", ![v].after = now]
      BY <3>2 DEF VerifierRows
    <3> QED
      BY <1>6, <3>1, <3>2 DEF Reserve
  <2> QED
    BY <1>6, <2>1, <2>2 DEF Reserve
<1>7. ASSUME NEW v \in Verifiers, StoreWindow(v) PROVE TypeOK'
  <2>1. windows' \in [Ordinals -> WindowRows]
    BY <1>7 DEF StoreWindow
  <2> QED
    BY <1>5, <1>7, <2>1 DEF StoreWindow
<1>8. ASSUME NEW v \in Verifiers, LoseWindow(v) PROVE TypeOK'
  BY <1>5, <1>8 DEF LoseWindow
<1>9. ASSUME NEW v \in Verifiers, Evaluate(v) PROVE TypeOK'
  <2>1. PICK verdict \in Verdicts :
            verifier' = [verifier EXCEPT ![v].pc = "JUDGING", ![v].read = windows,
                                         ![v].verdict = verdict]
    BY <1>9 DEF Evaluate, Verdicts
  <2>2. [verifier[v] EXCEPT !.pc = "JUDGING", !.read = windows, !.verdict = verdict]
            \in VerifierRows
    BY DEF VerifierRows
  <2>3. verifier' = [verifier EXCEPT ![v] =
            [verifier[v] EXCEPT !.pc = "JUDGING", !.read = windows, !.verdict = verdict]]
    BY <2>1
  <2>4. verifier' \in [Verifiers -> VerifierRows]
    BY <2>2, <2>3
  <2> QED
    BY <1>9, <2>4 DEF Evaluate
<1>10. ASSUME NEW v \in Verifiers, Judge(v) PROVE TypeOK'
  <2>1. verifier[v].verdict \in Verdicts /\ verifier[v].read \in [Ordinals -> WindowRows]
    BY DEF VerifierRows
  <2>2. verifier' \in [Verifiers -> VerifierRows]
    BY <1>10 DEF Judge, Return
  <2> QED
    BY <1>10, <2>1, <2>2 DEF Judge
<1>11. ASSUME NEW v \in Verifiers, Crash(v) PROVE TypeOK'
  BY <1>11 DEF Crash, Return
<1> QED
  BY <1>1, <1>2, <1>3, <1>4, <1>6, <1>7, <1>8, <1>9, <1>10, <1>11 DEF Next, Verify

\* Ordinals, rows and locals stay within their types.
THEOREM TypeCorrect == Spec => []TypeOK
<1>1. Init => TypeOK
  BY InitTypes
<1>2. TypeOK /\ [Next]_vars => TypeOK'
  BY NextTypes
<1> QED
  BY <1>1, <1>2, PTL DEF Spec
--------------------------------------------------------------------------------
(* How the parts of the state move *)

\* The next turn of the loop, for the verifier and for the others.
LEMMA LoopMoves ==
    ASSUME TypeOK, NEW v \in Verifiers, NextOrdinal(v)
    PROVE  /\ \A w \in Verifiers \ {v} : verifier'[w] = verifier[w]
           /\ verifier[v].ordinal = 2 => verifier'[v].pc = "READING"
           /\ verifier[v].ordinal # 2 => verifier'[v].pc = "RESERVING"
           /\ verifier'[v].ordinal = 2
<1>1. /\ verifier \in [Verifiers -> VerifierRows]
      /\ verifier[v] \in VerifierRows
  BY DEF TypeOK
<1>2. PICK pc \in {"READING", "RESERVING"} :
          /\ verifier[v].ordinal = 2 => pc = "READING"
          /\ verifier[v].ordinal # 2 => pc = "RESERVING"
          /\ verifier' = [verifier EXCEPT ![v] = [verifier[v] EXCEPT !.pc = pc, !.ordinal = 2]]
  BY DEF NextOrdinal
<1> QED
  BY <1>1, <1>2 DEF VerifierRows

\* What recovers at one time recovers at every later one.
LEMMA RecoveredLasts ==
    ASSUME TypeOK, NEW t \in Nat, now <= t, Recovered(windows, now)
    PROVE  Recovered(windows, t)
<1>1. /\ now \in Nat /\ WindowLength \in Nat
      /\ \A n \in Ordinals : windows[n].end \in Nat
  BY TermsAssumption DEF TypeOK, WindowRows
<1>2. \A n \in Ordinals : windows[n].end <= now => windows[n].end <= t
  BY <1>1
<1> QED
  BY <1>2 DEF Recovered

\* Whoever of the other verifiers changes nothing of the shared state keeps the
\* invariant's parts that speak of them: a verifier that returns, or goes on to read.
LEMMA LeavingKeeps ==
    ASSUME IInv, NEW v \in Verifiers, UNCHANGED <<now, state, reserved, windows, evaluation>>,
           state # "APPLIED" \/ verifier'[v].pc = "IDLE",
           \A w \in Verifiers \ {v} : verifier'[w] = verifier[w],
           verifier'[v].pc \in {"IDLE", "READING"}
    PROVE  OneAcquires' /\ Ahead' /\ VerdictRests' /\ WindowsFollow' /\ RecoveredIsEarned'
<1> USE DEF IInv
<1>1. OneAcquires'
  BY DEF OneAcquires, Acquiring
<1>2. Ahead'
  BY DEF Ahead, Acquiring, Stored
<1>3. VerdictRests'
  BY DEF VerdictRests, Recovered, Stored
<1>4. WindowsFollow' /\ RecoveredIsEarned'
  BY DEF WindowsFollow, RecoveredIsEarned, Recovered, Stored
<1> QED
  BY <1>1, <1>2, <1>3, <1>4

--------------------------------------------------------------------------------
(* The inductive invariant holds *)

\* Nothing is stored, judged or carried at the start.
LEMMA InitIInv == Init => IInv
<1> SUFFICES ASSUME Init PROVE IInv
  OBVIOUS
<1>1. \A v \in Verifiers : verifier[v].pc = "IDLE"
  BY DEF Init, Idle
<1>2. \A n \in Ordinals : ~Stored(windows, n)
  BY DEF Init, NoWindows, Stored
<1>3. OneAcquires /\ Ahead /\ VerdictRests
  BY <1>1 DEF Init, OneAcquires, Acquiring, Ahead, VerdictRests
<1>4. WindowsFollow
  BY <1>2 DEF WindowsFollow, Ordinals
<1>5. RecoveredIsEarned
  BY DEF Init, RecoveredIsEarned
<1> QED
  BY <1>3, <1>4, <1>5, InitTypes DEF IInv

\* Time passes.
LEMMA TickIInv ==
    ASSUME IInv, Tick
    PROVE  OneAcquires' /\ Ahead' /\ VerdictRests' /\ WindowsFollow' /\ RecoveredIsEarned'
<1> USE DEF IInv, Tick
<1>0. TypeOK /\ TypeOK' /\ now \in Nat /\ now' = now + 1
  BY NextTypes, TermsAssumption DEF Next, TypeOK
<1>1. OneAcquires'
  BY DEF OneAcquires, Acquiring
<1>2. Ahead'
  <2>1. \A v \in Verifiers : verifier[v].after \in Nat
    BY <1>0, TermsAssumption DEF TypeOK, VerifierRows
  <2>2. \A v \in Verifiers : verifier[v].after <= now => verifier[v].after <= now'
    BY <1>0, <2>1
  <2> QED
    BY <2>2 DEF Ahead, Acquiring, Stored
<1>3. Recovered(windows, now) => Recovered(windows, now')
  BY <1>0, RecoveredLasts
<1>4. VerdictRests'
  BY <1>3 DEF VerdictRests, Recovered, Stored
<1>5. WindowsFollow'
  <2>1. \A n \in Ordinals : windows[n].end \in Nat
    BY <1>0, TermsAssumption DEF TypeOK, WindowRows
  <2>2. \A n \in Ordinals : windows[n].end <= now => windows[n].end <= now'
    BY <1>0, <2>1
  <2> QED
    BY <2>2 DEF WindowsFollow, Stored
<1>6. RecoveredIsEarned'
  BY <1>3 DEF RecoveredIsEarned, Recovered, Stored
<1> QED
  BY <1>1, <1>2, <1>4, <1>5, <1>6

\* The verifier that takes the attempt up is the only one in it, before any window.
LEMMA StartIInv ==
    ASSUME IInv, NEW v \in Verifiers, Start(v)
    PROVE  OneAcquires' /\ Ahead' /\ VerdictRests' /\ WindowsFollow' /\ RecoveredIsEarned'
<1> USE DEF IInv, Start
<1>0. /\ \A w \in Verifiers \ {v} : verifier'[w] = verifier[w] /\ verifier[w].pc = "IDLE"
      /\ verifier'[v].pc = "RESERVING"
      /\ \A n \in Ordinals : ~Stored(windows, n)
  BY DEF TypeOK, OneAcquires, Ahead, Idle, NoWindows, Stored
<1>1. OneAcquires'
  BY <1>0 DEF OneAcquires, Acquiring
<1>2. Ahead'
  BY <1>0 DEF Ahead, Acquiring, Stored
<1>3. VerdictRests'
  BY <1>0 DEF VerdictRests
<1>4. WindowsFollow' /\ RecoveredIsEarned'
  BY <1>0 DEF WindowsFollow, RecoveredIsEarned, Stored
<1> QED
  BY <1>1, <1>2, <1>3, <1>4

\* The loop goes on without a window: its place is taken or its acquisition is lost.
LEMMA SkipIInv ==
    ASSUME IInv, NEW v \in Verifiers, Acquiring(v), NextOrdinal(v),
           reserved' = reserved \cup {verifier[v].ordinal},
           UNCHANGED <<now, state, windows, evaluation>>
    PROVE  OneAcquires' /\ Ahead' /\ VerdictRests' /\ WindowsFollow' /\ RecoveredIsEarned'
<1> USE DEF IInv
<1>0. /\ \A w \in Verifiers \ {v} : verifier'[w] = verifier[w] /\ ~Acquiring(w)
      /\ verifier'[v].pc \in {"READING", "RESERVING"}
      /\ verifier'[v].pc = "RESERVING" => verifier[v].ordinal # 2
      /\ verifier'[v].ordinal = 2
      /\ state # "APPLIED"
  BY LoopMoves DEF OneAcquires, Acquiring
<1>1. OneAcquires'
  BY <1>0 DEF OneAcquires, Acquiring
<1>2. Ahead'
  <2>1. verifier[v].ordinal \in Ordinals
    BY DEF TypeOK, VerifierRows
  <2>2. verifier'[v].pc = "RESERVING" => ~Stored(windows, 2)
    BY <1>0, <2>1 DEF Ahead, Ordinals
  <2>3. \A n \in Ordinals : 2 <= n => n = 2
    BY DEF Ordinals
  <2>4. \A w \in Verifiers : Acquiring(w)' =>
            \A n \in Ordinals : verifier'[w].ordinal <= n => ~Stored(windows, n)
    BY <1>0, <2>2, <2>3 DEF Acquiring
  <2>5. \A w \in Verifiers : verifier'[w].pc # "ACQUIRING"
    BY <1>0 DEF Acquiring
  <2> QED
    BY <1>0, <2>4, <2>5 DEF Ahead, Stored
<1>3. VerdictRests'
  BY <1>0 DEF VerdictRests, Recovered, Stored
<1>4. WindowsFollow' /\ RecoveredIsEarned'
  BY DEF WindowsFollow, RecoveredIsEarned, Recovered, Stored
<1> QED
  BY <1>1, <1>2, <1>3, <1>4

\* An acquisition is consumed before the provider is asked.
LEMMA ReserveIInv ==
    ASSUME IInv, NEW v \in Verifiers, Reserve(v)
    PROVE  OneAcquires' /\ Ahead' /\ VerdictRests' /\ WindowsFollow' /\ RecoveredIsEarned'
<1> USE DEF IInv
<1>1. CASE NextOrdinal(v)
  BY <1>1, SkipIInv DEF Reserve, Acquiring
<1>2. CASE verifier' = [verifier EXCEPT ![v].pc = "ACQUIRING", ![v].after = now]
  <2>0. /\ \A w \in Verifiers \ {v} : verifier'[w] = verifier[w] /\ ~Acquiring(w)
        /\ verifier'[v].pc = "ACQUIRING"
        /\ verifier'[v].ordinal = verifier[v].ordinal
        /\ verifier'[v].after = now
        /\ verifier[v].ordinal \in reserved'
        /\ state # "APPLIED"
        /\ now \in Nat
        /\ UNCHANGED <<now, state, windows, evaluation>>
    BY <1>2, TermsAssumption DEF Reserve, OneAcquires, Acquiring, TypeOK, VerifierRows
  <2>1. OneAcquires'
    BY <2>0 DEF OneAcquires, Acquiring
  <2>2. Ahead'
    <3>1. \A n \in Ordinals : verifier[v].ordinal <= n => ~Stored(windows, n)
      BY DEF Ahead, Reserve, Acquiring
    <3>2. \A w \in Verifiers : Acquiring(w)' =>
              \A n \in Ordinals : verifier'[w].ordinal <= n => ~Stored(windows, n)
      BY <2>0, <3>1 DEF Acquiring
    <3>3. Stored(windows, 1) => windows[1].end <= now
      BY DEF WindowsFollow, Ordinals
    <3>4. now <= now
      BY <2>0
    <3>5. \A w \in Verifiers : verifier'[w].pc = "ACQUIRING" => w = v
      BY <2>0 DEF Acquiring
    <3> QED
      BY <2>0, <3>2, <3>3, <3>4, <3>5 DEF Ahead, Stored
  <2>3. VerdictRests'
    BY <2>0 DEF VerdictRests, Recovered, Stored
  <2>4. WindowsFollow' /\ RecoveredIsEarned'
    BY DEF Reserve, WindowsFollow, RecoveredIsEarned, Recovered, Stored
  <2> QED
    BY <2>1, <2>2, <2>3, <2>4
<1> QED
  BY <1>1, <1>2 DEF Reserve

\* A window is stored in its own place, after the one before it, and never under a
\* verdict that some verifier has already come to.
LEMMA StoreWindowIInv ==
    ASSUME IInv, NEW v \in Verifiers, StoreWindow(v)
    PROVE  OneAcquires' /\ Ahead' /\ VerdictRests' /\ WindowsFollow' /\ RecoveredIsEarned'
<1> USE DEF IInv
<1> DEFINE n == verifier[v].ordinal
<1>0. /\ \A w \in Verifiers \ {v} : verifier'[w] = verifier[w] /\ ~Acquiring(w)
      /\ verifier'[v].pc \in {"READING", "RESERVING"}
      /\ verifier'[v].pc = "RESERVING" => n # 2
      /\ verifier'[v].ordinal = 2
      /\ state = "VERIFYING"
      /\ n \in Ordinals
      /\ n \in reserved
      /\ UNCHANGED <<now, state, reserved, evaluation>>
  BY LoopMoves DEF StoreWindow, OneAcquires, Acquiring, Ahead, TypeOK, VerifierRows
<1>1. PICK window \in WindowRows :
          /\ verifier[v].after < window.start
          /\ window.start < window.end
          /\ window.end <= now
          /\ windows' = [windows EXCEPT ![n] = window]
  BY DEF StoreWindow
<1>2. /\ windows'[n] = window
      /\ \A k \in Ordinals \ {n} : windows'[k] = windows[k]
  BY <1>0, <1>1 DEF TypeOK
<1>3. \A k \in Ordinals : n <= k => ~Stored(windows, k)
  BY DEF Ahead, StoreWindow, Acquiring
<1>4. ~Stored(windows, n)
  BY <1>0, <1>3 DEF Ordinals
<1>5. OneAcquires'
  BY <1>0 DEF OneAcquires, Acquiring
<1>6. Ahead'
  <2>1. verifier'[v].pc = "RESERVING" => ~Stored(windows', 2)
    BY <1>0, <1>2, <1>3 DEF Stored, Ordinals
  <2>2. \A k \in Ordinals : 2 <= k => k = 2
    BY DEF Ordinals
  <2>3. \A w \in Verifiers : Acquiring(w)' =>
            \A k \in Ordinals : verifier'[w].ordinal <= k => ~Stored(windows', k)
    BY <1>0, <2>1, <2>2 DEF Acquiring
  <2>4. \A w \in Verifiers : verifier'[w].pc # "ACQUIRING"
    BY <1>0 DEF Acquiring
  <2> QED
    BY <1>0, <2>3, <2>4 DEF Ahead, Stored
<1>7. ~Recovered(windows, now)
  BY <1>0, <1>4 DEF Recovered
<1>8. VerdictRests'
  <2>1. \A w \in Verifiers :
            ~(verifier[w].pc = "JUDGING" /\ verifier[w].verdict = "RECOVERED")
    BY <1>7 DEF VerdictRests
  <2> QED
    BY <1>0, <2>1 DEF VerdictRests
<1>9. WindowsFollow'
  <2>1. /\ window.start \in Nat /\ window.end \in Nat /\ now \in Nat
        /\ verifier[v].after \in Nat
        /\ windows[1].end \in Nat
    BY TermsAssumption DEF TypeOK, WindowRows, VerifierRows, Ordinals
  <2>2. 0 < window.start
    BY <1>1, <2>1
  <2>3. \A k \in Ordinals : Stored(windows', k) =>
            k \in reserved' /\ 0 < windows'[k].start /\ windows'[k].end <= now'
    BY <1>0, <1>1, <1>2, <2>2 DEF WindowsFollow, Stored
  <2>4. CASE n = 1
    BY <1>0, <1>2, <1>3, <2>3, <2>4 DEF WindowsFollow, Stored, Ordinals
  <2>5. CASE n = 2
    <3>1. Stored(windows, 1) => windows[1].end <= verifier[v].after
      BY DEF Ahead, StoreWindow
    <3>2. Stored(windows, 1) => windows[1].end < window.start
      BY <1>1, <2>1, <3>1
    <3>3. windows'[2] = window /\ windows'[1] = windows[1]
      BY <1>2, <2>5 DEF Ordinals
    <3> QED
      BY <2>3, <3>2, <3>3 DEF WindowsFollow, Stored
  <2> QED
    BY <1>0, <2>4, <2>5 DEF Ordinals
<1>10. RecoveredIsEarned'
  BY <1>0 DEF RecoveredIsEarned
<1> QED
  BY <1>5, <1>6, <1>8, <1>9, <1>10

\* A lost acquisition leaves what is stored and moves on.
LEMMA LoseWindowIInv ==
    ASSUME IInv, NEW v \in Verifiers, LoseWindow(v)
    PROVE  OneAcquires' /\ Ahead' /\ VerdictRests' /\ WindowsFollow' /\ RecoveredIsEarned'
<1>1. verifier[v].ordinal \in reserved
  BY DEF IInv, Ahead, LoseWindow
<1>2. reserved' = reserved \cup {verifier[v].ordinal}
  BY <1>1 DEF LoseWindow
<1> QED
  BY <1>2, SkipIInv DEF LoseWindow, Acquiring

\* A verdict is formed on the windows as they are.
LEMMA EvaluateIInv ==
    ASSUME IInv, NEW v \in Verifiers, Evaluate(v)
    PROVE  OneAcquires' /\ Ahead' /\ VerdictRests' /\ WindowsFollow' /\ RecoveredIsEarned'
<1> USE DEF IInv
<1>0. /\ \A w \in Verifiers \ {v} : verifier'[w] = verifier[w]
      /\ verifier'[v].pc = "JUDGING"
      /\ verifier'[v].read = windows
      /\ verifier'[v].verdict = "RECOVERED" => Recovered(windows, now)
      /\ state # "APPLIED"
      /\ UNCHANGED <<now, state, reserved, windows, evaluation>>
  BY DEF Evaluate, OneAcquires, TypeOK, VerifierRows
<1>1. OneAcquires'
  BY <1>0 DEF OneAcquires, Acquiring
<1>2. Ahead'
  BY <1>0 DEF Ahead, Acquiring, Stored
<1>3. VerdictRests'
  BY <1>0 DEF VerdictRests, Recovered, Stored
<1>4. WindowsFollow' /\ RecoveredIsEarned'
  BY <1>0 DEF WindowsFollow, RecoveredIsEarned, Recovered, Stored
<1> QED
  BY <1>1, <1>2, <1>3, <1>4

\* The first verdict is stored with the windows it was formed on.
LEMMA JudgeIInv ==
    ASSUME IInv, NEW v \in Verifiers, Judge(v)
    PROVE  OneAcquires' /\ Ahead' /\ VerdictRests' /\ WindowsFollow' /\ RecoveredIsEarned'
<1> USE DEF IInv
<1>0. /\ \A w \in Verifiers \ {v} : verifier'[w] = verifier[w]
      /\ verifier'[v].pc = "IDLE"
      /\ UNCHANGED <<now, reserved, windows>>
  BY DEF Judge, Return, Idle, TypeOK
<1>1. CASE Terminal /\ UNCHANGED <<state, evaluation>>
  BY <1>0, <1>1, LeavingKeeps
<1>2. CASE /\ ~Terminal
           /\ state' = verifier[v].verdict
           /\ evaluation' = verifier[v].read
  <2>1. state' \in Verdicts
    BY <1>2 DEF TypeOK, VerifierRows
  <2>2. OneAcquires'
    BY <1>0, <2>1 DEF OneAcquires, Acquiring, Verdicts
  <2>3. Ahead'
    BY <1>0, <2>1 DEF Ahead, Acquiring, Stored, Verdicts
  <2>4. VerdictRests'
    BY <1>0 DEF VerdictRests, Recovered, Stored
  <2>5. WindowsFollow'
    BY <1>0 DEF WindowsFollow, Stored
  <2>6. RecoveredIsEarned'
    BY <1>0, <1>2 DEF RecoveredIsEarned, VerdictRests, Recovered, Stored, Judge
  <2> QED
    BY <2>2, <2>3, <2>4, <2>5, <2>6
<1> QED
  BY <1>1, <1>2 DEF Judge

\* The invariant is inductive.
LEMMA NextIInv == IInv /\ [Next]_vars => IInv'
<1> SUFFICES ASSUME IInv, [Next]_vars PROVE IInv'
  OBVIOUS
<1>1. TypeOK'
  BY NextTypes DEF IInv
<1> DEFINE Rest == OneAcquires /\ Ahead /\ VerdictRests /\ WindowsFollow /\ RecoveredIsEarned
<1>2. CASE UNCHANGED vars
  <2>1. OneAcquires' /\ Ahead' /\ VerdictRests'
    BY <1>2 DEF vars, IInv, OneAcquires, Ahead, VerdictRests, Acquiring, Recovered, Stored
  <2>2. WindowsFollow' /\ RecoveredIsEarned'
    BY <1>2 DEF vars, IInv, WindowsFollow, RecoveredIsEarned, Recovered, Stored
  <2> QED
    BY <1>1, <2>1, <2>2 DEF IInv
<1>3. ASSUME NEW v \in Verifiers, Resume(v) PROVE Rest'
  <2>1. /\ \A w \in Verifiers \ {v} : verifier'[w] = verifier[w]
        /\ verifier'[v].pc = "READING"
    BY <1>3 DEF Resume, Idle, IInv, TypeOK
  <2> QED
    BY <1>3, <2>1, LeavingKeeps DEF Resume
<1>4. ASSUME NEW v \in Verifiers, Crash(v) PROVE Rest'
  <2>1. /\ \A w \in Verifiers \ {v} : verifier'[w] = verifier[w]
        /\ verifier'[v].pc = "IDLE"
    BY <1>4 DEF Crash, Return, Idle, IInv, TypeOK
  <2> QED
    BY <1>4, <2>1, LeavingKeeps DEF Crash
<1>5. CASE Tick
  BY <1>1, <1>5, TickIInv DEF IInv
<1>6. ASSUME NEW v \in Verifiers, Verify(v) PROVE Rest'
  BY <1>3, <1>6, StartIInv, ReserveIInv, StoreWindowIInv, LoseWindowIInv, EvaluateIInv,
     JudgeIInv DEF Verify
<1> QED
  BY <1>1, <1>2, <1>4, <1>5, <1>6 DEF Next, IInv

\* One verifier acquires, what it stores is not stored yet, and verdicts of recovery rest
\* on windows that stay.
THEOREM InvariantHolds == Spec => []IInv
BY InitIInv, NextIInv, PTL DEF Spec

--------------------------------------------------------------------------------
(* Results *)

\* An attempt is RECOVERED only on two whole windows, and they are the stored ones.
THEOREM RecoveryIsEarned == Spec => []RecoveredIsEarned
<1>1. IInv => RecoveredIsEarned
  BY DEF IInv
<1> QED
  BY <1>1, InvariantHolds, PTL

\* The windows of an attempt follow its receipt and each other.
THEOREM WindowsStayInOrder == Spec => []WindowsFollow
<1>1. IInv => WindowsFollow
  BY DEF IInv
<1> QED
  BY <1>1, InvariantHolds, PTL

\* A late verifier changes neither a verdict nor its evaluation nor a stored window.
THEOREM VerdictsStay == Spec => VerdictIsFinal
<1> DEFINE Final == /\ Terminal => UNCHANGED <<state, windows, evaluation>>
                    /\ \A n \in Ordinals : Stored(windows, n) => windows'[n] = windows[n]
<1>1. IInv /\ [Next]_vars => [Final]_vars
  <2> SUFFICES ASSUME IInv, [Next]_vars, vars' # vars PROVE Final
    OBVIOUS
  <2>1. CASE Tick
    BY <2>1 DEF Tick
  <2>2. ASSUME NEW v \in Verifiers, StoreWindow(v) PROVE Final
    <3>1. ~Stored(windows, verifier[v].ordinal) /\ verifier[v].ordinal \in Ordinals
      <4>1. /\ verifier[v].ordinal \in Ordinals
            /\ \A n \in Ordinals : verifier[v].ordinal <= n => ~Stored(windows, n)
        BY <2>2 DEF IInv, TypeOK, VerifierRows, Ahead, StoreWindow, Acquiring
      <4> QED
        BY <4>1 DEF Ordinals
    <3>2. \A n \in Ordinals \ {verifier[v].ordinal} : windows'[n] = windows[n]
      BY <2>2 DEF StoreWindow, IInv, TypeOK
    <3> QED
      BY <2>2, <3>1, <3>2 DEF StoreWindow, Terminal, Verdicts
  <2>3. ASSUME NEW v \in Verifiers, Judge(v) PROVE Final
    BY <2>3 DEF Judge
  <2>4. ASSUME NEW v \in Verifiers,
               Start(v) \/ Resume(v) \/ Reserve(v) \/ LoseWindow(v) \/ Evaluate(v) \/ Crash(v)
        PROVE  Final
    BY <2>4 DEF Start, Resume, Reserve, LoseWindow, Evaluate, Crash, Terminal, Verdicts
  <2> QED
    BY <2>1, <2>2, <2>3, <2>4 DEF Next, Verify
<1> QED
  BY <1>1, InvariantHolds, PTL DEF Spec, VerdictIsFinal

--------------------------------------------------------------------------------
(* The refinement of EarnedVerdict *)

\* The windows r are the first ones of ws: for each that is there, those before it too.
FirstOf(r, ws) ==
    \A n \in Ordinals :
        r[n] = NoWindow \/ \A m \in Ordinals : m <= n => r[m] = ws[m]

\* A verdict, of recovery or not, is what the windows say that were read, and these are
\* the first of the windows that are stored.
VerdictsFit ==
    \A v \in Verifiers : verifier[v].pc = "JUDGING" =>
        /\ FirstOf(verifier[v].read, windows)
        /\ verifier[v].verdict = IF Verdict!Earned(verifier[v].read) THEN "RECOVERED"
                                 ELSE "VERIFICATION_FAILED"

\* What is read of the windows now and no later is one of the views of EarnedVerdict.
LEMMA FirstIsView ==
    ASSUME NEW r \in [Ordinals -> WindowRows], windows \in [Ordinals -> WindowRows],
           FirstOf(r, windows)
    PROVE  \E k \in 0..2 : r = Verdict!First(k)
<1>1. Ordinals = {1, 2} /\ NoWindow = Verdict!NotObserved
  BY DEF Ordinals, NoWindow, Verdict!NotObserved
<1>2. CASE r[2] # NoWindow
  <2>1. r[1] = windows[1] /\ r[2] = windows[2]
    BY <1>1, <1>2 DEF FirstOf
  <2>2. r = Verdict!First(2)
    BY <1>1, <2>1 DEF Verdict!First
  <2> QED
    BY <2>2
<1>3. CASE r[2] = NoWindow /\ r[1] # NoWindow
  <2>1. r[1] = windows[1]
    BY <1>1, <1>3 DEF FirstOf
  <2>2. r = Verdict!First(1)
    BY <1>1, <1>3, <2>1 DEF Verdict!First
  <2> QED
    BY <2>2
<1>4. CASE r[2] = NoWindow /\ r[1] = NoWindow
  <2>1. r = Verdict!First(0)
    BY <1>1, <1>4 DEF Verdict!First
  <2> QED
    BY <2>1
<1> QED
  BY <1>2, <1>3, <1>4

\* The conditions on time and order that the policy adds hold of any stored windows.
LEMMA StoredAreEarned ==
    ASSUME TypeOK, WindowsFollow
    PROVE  now > 0 /\ Recovered(windows, now) <=> Verdict!Earned(windows)
<1>1. Ordinals = {1, 2}
  BY DEF Ordinals
<1>2. /\ now \in Nat /\ WindowLength \in Nat \ {0}
      /\ \A n \in Ordinals : windows[n].start \in Nat /\ windows[n].end \in Nat
  BY TermsAssumption DEF TypeOK, WindowRows
<1>3. Recovered(windows, now) => Verdict!Earned(windows)
  BY <1>1 DEF Recovered, Verdict!Earned
<1>4. ASSUME Verdict!Earned(windows) PROVE now > 0 /\ Recovered(windows, now)
  <2>1. \A n \in Ordinals :
            /\ windows[n].passed /\ windows[n].end - windows[n].start = WindowLength
            /\ Stored(windows, n)
    BY <1>1, <1>4 DEF Verdict!Earned, Stored, NoWindow
  <2>2. /\ \A n \in Ordinals : 0 < windows[n].start /\ windows[n].end <= now
        /\ windows[1].end < windows[2].start
    BY <1>1, <2>1 DEF WindowsFollow
  <2>3. windows[1].end <= windows[2].start
    BY <1>1, <1>2, <2>2
  <2>4. now > 0
    BY <1>1, <1>2, <2>1, <2>2
  <2> QED
    BY <2>1, <2>2, <2>3, <2>4 DEF Recovered
<1> QED
  BY <1>3, <1>4

\* A window is stored where there was none and none follows: what was read before stays
\* the first of what is stored.
LEMMA StoringKeepsFirst ==
    ASSUME NEW n \in Ordinals, windows' = [windows EXCEPT ![n] = windows'[n]],
           windows \in [Ordinals -> WindowRows],
           \A k \in Ordinals : n <= k => ~Stored(windows, k),
           NEW r, FirstOf(r, windows)
    PROVE  FirstOf(r, windows')
<1>1. Ordinals = {1, 2}
  BY DEF Ordinals
<1>2. \A k \in Ordinals : n <= k => r[k] = NoWindow
  BY <1>1 DEF FirstOf, Stored
<1>3. \A k \in Ordinals : k < n => windows'[k] = windows[k]
  BY <1>1
<1> QED
  BY <1>1, <1>2, <1>3 DEF FirstOf

\* Verdicts keep fitting what was read.
LEMMA VerdictsFitStep ==
    ASSUME IInv, VerdictsFit, [Next]_vars
    PROVE  VerdictsFit'
<1>0. TypeOK /\ windows \in [Ordinals -> WindowRows]
  BY DEF IInv, TypeOK
<1>1. ASSUME UNCHANGED windows, NEW v \in Verifiers,
             \A w \in Verifiers \ {v} : verifier'[w] = verifier[w],
             verifier'[v].pc # "JUDGING" \/ verifier'[v] = verifier[v]
      PROVE  VerdictsFit'
  BY <1>1 DEF VerdictsFit, FirstOf, Verdict!Earned
<1>2. CASE UNCHANGED <<windows, verifier>>
  BY <1>2 DEF VerdictsFit, FirstOf, Verdict!Earned
<1>3. ASSUME NEW v \in Verifiers, Start(v) \/ Resume(v) \/ Judge(v) \/ Crash(v)
      PROVE  VerdictsFit'
  <2>1. /\ \A w \in Verifiers \ {v} : verifier'[w] = verifier[w]
        /\ verifier'[v].pc # "JUDGING"
        /\ UNCHANGED windows
    BY <1>0, <1>3 DEF Start, Resume, Judge, Crash, Return, Idle, TypeOK
  <2> QED
    BY <1>1, <2>1
<1>4. ASSUME NEW v \in Verifiers, Reserve(v) PROVE VerdictsFit'
  <2>1. /\ \A w \in Verifiers \ {v} : verifier'[w] = verifier[w]
        /\ verifier'[v].pc # "JUDGING"
    <3>1. CASE NextOrdinal(v)
      BY <1>0, <3>1, LoopMoves
    <3>2. CASE verifier' = [verifier EXCEPT ![v].pc = "ACQUIRING", ![v].after = now]
      BY <1>0, <3>2 DEF TypeOK, VerifierRows
    <3> QED
      BY <1>4, <3>1, <3>2 DEF Reserve
  <2> QED
    BY <1>1, <1>4, <2>1 DEF Reserve
<1>5. ASSUME NEW v \in Verifiers, LoseWindow(v) PROVE VerdictsFit'
  <2>1. /\ \A w \in Verifiers \ {v} : verifier'[w] = verifier[w]
        /\ verifier'[v].pc # "JUDGING"
    BY <1>0, <1>5, LoopMoves DEF LoseWindow
  <2> QED
    BY <1>1, <1>5, <2>1 DEF LoseWindow
<1>6. ASSUME NEW v \in Verifiers, StoreWindow(v) PROVE VerdictsFit'
  <2>1. /\ \A w \in Verifiers \ {v} : verifier'[w] = verifier[w]
        /\ verifier'[v].pc # "JUDGING"
    BY <1>0, <1>6, LoopMoves DEF StoreWindow
  <2> PICK n \in Ordinals : n = verifier[v].ordinal
    BY <1>0 DEF TypeOK, VerifierRows
  <2>2. windows' = [windows EXCEPT ![n] = windows'[n]]
    BY <1>0, <1>6 DEF StoreWindow
  <2>3. \A k \in Ordinals : n <= k => ~Stored(windows, k)
    BY <1>6 DEF IInv, Ahead, StoreWindow, Acquiring
  <2>4. ASSUME NEW w \in Verifiers, verifier'[w].pc = "JUDGING"
        PROVE  /\ FirstOf(verifier'[w].read, windows')
               /\ verifier'[w].verdict = IF Verdict!Earned(verifier'[w].read) THEN "RECOVERED"
                                         ELSE "VERIFICATION_FAILED"
    <3>1. verifier'[w] = verifier[w]
      BY <2>1, <2>4
    <3>2. FirstOf(verifier[w].read, windows')
      BY <1>0, <2>2, <2>3, <2>4, <3>1, StoringKeepsFirst DEF VerdictsFit
    <3> QED
      BY <2>4, <3>1, <3>2 DEF VerdictsFit
  <2> QED
    BY <2>4 DEF VerdictsFit, FirstOf, Verdict!Earned
<1>7. ASSUME NEW v \in Verifiers, Evaluate(v) PROVE VerdictsFit'
  <2>1. /\ \A w \in Verifiers \ {v} : verifier'[w] = verifier[w]
        /\ verifier'[v].read = windows
        /\ verifier'[v].verdict = IF now > 0 /\ Recovered(windows, now) THEN "RECOVERED"
                                  ELSE "VERIFICATION_FAILED"
        /\ UNCHANGED windows
    BY <1>0, <1>7 DEF Evaluate, TypeOK, VerifierRows
  <2>2. verifier'[v].verdict = IF Verdict!Earned(windows) THEN "RECOVERED"
                               ELSE "VERIFICATION_FAILED"
    BY <1>0, <2>1, StoredAreEarned DEF IInv
  <2>3. FirstOf(windows, windows)
    BY DEF FirstOf
  <2> QED
    BY <2>1, <2>2, <2>3 DEF VerdictsFit, FirstOf, Verdict!Earned
<1> QED
  BY <1>2, <1>3, <1>4, <1>5, <1>6, <1>7 DEF Next, Verify, vars, Tick

\* Each step of the verifiers and of time is one of EarnedVerdict or a stutter.
LEMMA VerdictStep ==
    ASSUME IInv, VerdictsFit, [Next]_vars
    PROVE  Verdict!Next \/ UNCHANGED <<now, windows, evaluation, Given>>
<1>0. TypeOK /\ windows \in [Ordinals -> WindowRows] /\ Ordinals = {1, 2}
  BY DEF IInv, TypeOK, Ordinals
<1>1. CASE Tick
  BY <1>1 DEF Tick, Verdict!Next, Verdict!Wait, Given, Terminal
<1>2. ASSUME NEW v \in Verifiers,
             Start(v) \/ Resume(v) \/ Reserve(v) \/ LoseWindow(v) \/ Evaluate(v) \/ Crash(v)
      PROVE  UNCHANGED <<now, windows, evaluation, Given>>
  BY <1>2 DEF Start, Resume, Reserve, LoseWindow, Evaluate, Crash, Given, Terminal, Verdicts
<1>3. ASSUME NEW v \in Verifiers, StoreWindow(v) PROVE Verdict!Next
  <2> PICK n \in Ordinals : n = verifier[v].ordinal
    BY <1>0 DEF TypeOK, VerifierRows
  <2>1. PICK window \in WindowRows :
            /\ verifier[v].after < window.start
            /\ window.start < window.end
            /\ window.end <= now
            /\ windows' = [windows EXCEPT ![n] = window]
    BY <1>3 DEF StoreWindow
  <2>2. \A k \in Ordinals : n <= k => windows[k] = NoWindow
    BY <1>3 DEF IInv, Ahead, StoreWindow, Acquiring, Stored
  <2>3. windows[1].end < window.start
    <3>1. /\ verifier[v].after \in Nat /\ window.start \in Nat /\ windows[1].end \in Nat
      BY <1>0, TermsAssumption DEF TypeOK, VerifierRows, WindowRows
    <3>2. CASE windows[1] = NoWindow
      BY <2>1, <3>1, <3>2 DEF NoWindow
    <3>3. CASE windows[1] # NoWindow
      <4>1. windows[1].end <= verifier[v].after
        BY <1>3, <3>3 DEF IInv, Ahead, StoreWindow, Stored
      <4> QED
        BY <2>1, <3>1, <4>1
    <3> QED
      BY <3>2, <3>3
  <2>4. Given = "NONE" /\ Given' = "NONE" /\ UNCHANGED <<now, evaluation>>
    BY <1>3 DEF StoreWindow, Given, Terminal, Verdicts
  <2>5. window \in Verdict!Observations
    BY DEF WindowRows, Verdict!Observations
  <2>6. \A k \in {1, 2} : n <= k => windows[k] = Verdict!NotObserved
    BY <1>0, <2>2 DEF NoWindow, Verdict!NotObserved
  <2>7. Verdict!Observe(n)
    BY <2>1, <2>3, <2>4, <2>5, <2>6 DEF Verdict!Observe
  <2> QED
    BY <1>0, <2>7 DEF Verdict!Next
<1>4. ASSUME NEW v \in Verifiers, Judge(v), ~Terminal PROVE Verdict!Next
  <2>1. /\ state' = verifier[v].verdict /\ evaluation' = verifier[v].read
        /\ verifier[v].pc = "JUDGING"
        /\ UNCHANGED <<now, windows>>
    BY <1>4 DEF Judge
  <2>2. PICK k \in 0..2 : evaluation' = Verdict!First(k)
    <3>1. verifier[v].read \in [Ordinals -> WindowRows]
      BY <1>0 DEF TypeOK, VerifierRows
    <3> QED
      BY <1>0, <2>1, <3>1, FirstIsView DEF VerdictsFit
  <2>3. Given = "NONE" /\ Given' = state'
    BY <1>0, <1>4, <2>1 DEF Given, Terminal, TypeOK, VerifierRows
  <2>4. state' = IF Verdict!Earned(evaluation') THEN "RECOVERED" ELSE "VERIFICATION_FAILED"
    BY <2>1 DEF VerdictsFit
  <2> QED
    BY <2>1, <2>2, <2>3, <2>4 DEF Verdict!Next, Verdict!Conclude
<1>5. ASSUME NEW v \in Verifiers, Judge(v), Terminal
      PROVE  UNCHANGED <<now, windows, evaluation, Given>>
  BY <1>5 DEF Judge, Given, Terminal
<1>6. CASE UNCHANGED vars
  BY <1>6 DEF vars, Given, Terminal
<1> QED
  BY <1>1, <1>2, <1>3, <1>4, <1>5, <1>6 DEF Next, Verify

\* Windows are stored in order and never replaced, and the one verdict - of recovery or
\* not - is what the windows stored with it say: the verifiers implement EarnedVerdict, for
\* any number of them, any window length and any lease.
THEOREM VerdictIsKept == Spec => KeepsVerdict
<1>1. Init => VerdictsFit /\ Verdict!Init
  <2> SUFFICES ASSUME Init PROVE VerdictsFit /\ Verdict!Init
    OBVIOUS
  <2>1. VerdictsFit
    BY DEF Init, Idle, VerdictsFit
  <2>2. Verdict!Init
    BY DEF Init, Verdict!Init, Given, Terminal, Verdicts, NoWindows, NoWindow, Ordinals,
           Verdict!NotObserved
  <2> QED
    BY <2>1, <2>2
<1>2. IInv /\ VerdictsFit /\ [Next]_vars =>
          VerdictsFit' /\ [Verdict!Next]_<<now, windows, evaluation, Given>>
  BY VerdictsFitStep, VerdictStep
<1> QED
  BY <1>1, <1>2, InvariantHolds, PTL DEF Spec, KeepsVerdict, Verdict!Spec, Verdict!vars
================================================================================
