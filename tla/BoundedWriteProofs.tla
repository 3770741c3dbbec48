--------------------------- MODULE BoundedWriteProofs --------------------------
(***************************************************************************)
(* Remediation implements BoundedWrite: theorems for every set of attempts, *)
(* approvals and executors and every value of the terms and bounds.  Where  *)
(* RemediationProofs is about the authority of a write, the invariant here  *)
(* is about its driver: what an executor has come to and what the row, the  *)
(* requests, the gateway and its ledger say agree.                          *)
(***************************************************************************)
EXTENDS RemediationProofs, FiniteSetTheorems

--------------------------------------------------------------------------------
(* The invariant *)

\* Whoever reads the configuration for an intent works under a lease of its own.
Leasing(e) == ex[e].pc \in {"LEASED", "INTENT_READ"}

\* From the intent to the answer of the gateway.
Driving(e) == ex[e].pc \in {"COMMITTED", "RESERVE_READ", "DISPATCHED", "WAITING",
                            "ANSWERED", "REJECTED"}

\* Nothing of an attempt has reached the gateway.
Unposted(a) ==
    /\ \A r \in requests : r.att # a
    /\ gw.pc # "IDLE" => gw.att # a
    /\ a \notin ledger
    /\ sent[a] = 0

\* The columns of an attempt row agree with its state.
RowAgrees(a) ==
    LET row == att[a] IN
    /\ row.state \in {"ABSENT", "AUTHORIZED"} => row.intentAt = NoTime
    /\ row.state \in {"WRITE_INTENT_COMMITTED", "EXECUTING", "APPLIED", "VERIFYING"}
         => row.intentAt # NoTime
    /\ row.state \in {"ABSENT", "AUTHORIZED", "WRITE_INTENT_COMMITTED"} => ~row.dispatched
    /\ row.state = "EXECUTING" => row.count = "UNKNOWN"

\* What an executor has come to is in the row of its attempt, whatever others have done
\* to that row meanwhile.
StepsAgree(e) ==
    LET a == ex[e].att IN
    /\ Leasing(e) => ex[e].gen <= att[a].gen
    /\ ex[e].pc # "IDLE" /\ ~Leasing(e) => HasIntent(a)
    /\ ex[e].pc \in {"DISPATCHED", "WAITING", "ANSWERED", "REJECTED"} => att[a].dispatched
    /\ ex[e].pc \in {"DISPATCHED", "REJECTED"} => Unposted(a)
    /\ ex[e].pc = "ANSWERED" => sent[a] = 1
    /\ ex[e].pc = "VERIFYING" => att[a].state = "VERIFYING" \/ Terminal(a)

LeasesDiffer ==
    \A e, f \in Executors :
        e # f /\ Leasing(e) /\ Leasing(f) /\ ex[e].att = ex[f].att
        => ex[e].gen # ex[f].gen

\* What the gateway has is of a dispatched attempt, and what it reads back was sent.
PostingsAgree ==
    /\ \A a \in Attempts : ~att[a].dispatched => Unposted(a)
    /\ gw.pc = "READBACK" => sent[gw.att] = 1

DInv ==
    /\ \A a \in Attempts : RowAgrees(a)
    /\ \A e \in Executors : StepsAgree(e)
    /\ LeasesDiffer /\ SingleDriver /\ PostingsAgree /\ CountIsTrue

--------------------------------------------------------------------------------
(* What a step can do to a row *)

\* The columns that neither a lease nor an end of the attempt touches.
Steady(a) ==
    /\ att'[a].approval = att[a].approval
    /\ att'[a].authIss = att[a].authIss
    /\ att'[a].intentAt = att[a].intentAt
    /\ att'[a].dispatched = att[a].dispatched

\* A row goes from one state to another and keeps those columns and its generation.
Goes(a, from, to) ==
    /\ att[a].state \in from
    /\ att'[a].state = to
    /\ Steady(a)
    /\ att'[a].gen = att[a].gen

Created(a) ==
    /\ att[a].state = "ABSENT"
    /\ \/ att'[a].state \in DenialStates /\ att'[a].authIss = NoTime
       \/ /\ att'[a].state = "AUTHORIZED"
          /\ att'[a].authIss # NoTime
          /\ att'[a].approval \in Approvals /\ ~Consumed(att'[a].approval)
          /\ \A b \in Attempts : ~Active(b)
    /\ att'[a].intentAt = NoTime /\ ~att'[a].dispatched /\ att'[a].count = "ZERO"

Claimed(a) ==
    /\ att[a].state = "AUTHORIZED" /\ att'[a].state = "AUTHORIZED"
    /\ Steady(a)
    /\ att'[a].gen = att[a].gen + 1 /\ att'[a].count = att[a].count

Refused(a) ==
    /\ \E state \in NoWriteStates : Goes(a, {"AUTHORIZED"}, state)
    /\ att'[a].count = att[a].count

Committed(a) ==
    /\ att[a].state = "AUTHORIZED" /\ att'[a].state = "WRITE_INTENT_COMMITTED"
    /\ att'[a].approval = att[a].approval /\ att'[a].authIss = att[a].authIss
    /\ att'[a].intentAt # NoTime
    /\ att'[a].dispatched = att[a].dispatched
    /\ att'[a].gen = att[a].gen /\ att'[a].count = att[a].count

Reserved(a) ==
    /\ att[a].state = "WRITE_INTENT_COMMITTED" /\ att'[a].state = "EXECUTING"
    /\ att'[a].approval = att[a].approval /\ att'[a].authIss = att[a].authIss
    /\ att'[a].intentAt = att[a].intentAt
    /\ att'[a].dispatched /\ att'[a].count = "UNKNOWN"
    /\ att'[a].gen = att[a].gen

Confirmed(a) ==
    /\ Goes(a, {"EXECUTING"}, "APPLIED")
    /\ att'[a].count = "ONE" /\ sent[a] = 1

Disproved(a) ==
    /\ Goes(a, {"EXECUTING"}, "EXECUTION_FAILED")
    /\ att'[a].count = "ZERO" /\ sent[a] = 0

GivenUp(a) ==
    /\ Goes(a, {"WRITE_INTENT_COMMITTED", "EXECUTING", "APPLIED", "VERIFYING"},
            "OUTCOME_UNKNOWN")
    /\ att'[a].count \in {att[a].count, "UNKNOWN"}

Examined(a) ==
    /\ att[a].state = "APPLIED" /\ att'[a].state = "VERIFYING"
    /\ Steady(a)
    /\ att'[a].gen = att[a].gen + 1 /\ att'[a].count = att[a].count

Concluded(a) ==
    /\ \E state \in {"RECOVERED", "VERIFICATION_FAILED"} : Goes(a, {"VERIFYING"}, state)
    /\ att'[a].count = att[a].count

RowStep(a) ==
    \/ Created(a) \/ Claimed(a) \/ Refused(a) \/ Committed(a) \/ Reserved(a)
    \/ Confirmed(a) \/ Disproved(a) \/ GivenUp(a) \/ Examined(a) \/ Concluded(a)

OneRowMoves ==
    \E a \in Attempts : RowStep(a) /\ \A b \in Attempts \ {a} : att'[b] = att[b]

\* A row is replaced, and the others stay.
LEMMA RowIsReplaced ==
    ASSUME TypeOK, NEW a \in Attempts, NEW row, att' = [att EXCEPT ![a] = row]
    PROVE  att'[a] = row /\ \A b \in Attempts \ {a} : att'[b] = att[b]
BY DEF TypeOK

\* Closing a row keeps its columns, but for state, lease and count.
LEMMA ClosingGoes ==
    ASSUME TypeOK, NEW a \in Attempts, NEW state, NEW count,
           att' = [att EXCEPT ![a] = Closed(att[a], state, count)]
    PROVE  /\ Goes(a, {att[a].state}, state)
           /\ att'[a].count = count
           /\ \A b \in Attempts \ {a} : att'[b] = att[b]
<1>1. att[a] \in AttemptRows
  BY DEF TypeOK
<1>2. att'[a] = Closed(att[a], state, count) /\ \A b \in Attempts \ {a} : att'[b] = att[b]
  BY RowIsReplaced
<1>3. LET row == Closed(att[a], state, count) IN
      /\ row.state = state /\ row.count = count /\ row.approval = att[a].approval
      /\ row.authIss = att[a].authIss /\ row.intentAt = att[a].intentAt
      /\ row.dispatched = att[a].dispatched /\ row.gen = att[a].gen
  BY <1>1 DEF Closed, AttemptRows
<1> QED
  BY <1>2, <1>3 DEF Goes, Steady

\* create() stores a new row, authorized behind its gates or denied.
LEMMA CreationMoves ==
    ASSUME TypeOK, NEW a \in Attempts, NEW p \in Approvals, CreateAttempt(a, p)
    PROVE  OneRowMoves
<1> DEFINE verdict == CreateVerdict(p, pending[a])
           row == [AbsentAttempt EXCEPT !.approval = p]
           authorized == [row EXCEPT !.state = "AUTHORIZED", !.authIss = now,
                                     !.authExp = Least(now + AuthTerm,
                                                       approvals[p].expires)]
           denied == [row EXCEPT !.state = verdict]
<1>1. att' = [att EXCEPT ![a] = IF verdict = "BOUND" THEN authorized ELSE denied]
  BY DEF CreateAttempt
<1>2. verdict = "BOUND" \/ verdict \in DenialStates
  BY DEF CreateVerdict, StateVerdict, DenialStates
<1>3. row \in AttemptRows /\ row.approval = p /\ row.authIss = NoTime
      /\ row.intentAt = NoTime /\ ~row.dispatched /\ row.count = "ZERO"
  <2>1. AbsentAttempt \in AttemptRows /\ AbsentAttempt.intentAt = NoTime
        /\ AbsentAttempt.dispatched = FALSE /\ AbsentAttempt.count = "ZERO"
    BY TermsAssumption DEF AttemptRows, AbsentAttempt, States, WriteCounts, NoTime
  <2> HIDE DEF AbsentAttempt
  <2> QED
    BY <2>1, DraftRow DEF AttemptRows
<1>4. \A next \in {authorized, denied} :
          next.intentAt = NoTime /\ ~next.dispatched /\ next.count = "ZERO"
  <2> HIDE DEF row, verdict
  <2> QED
    BY <1>3 DEF AttemptRows
<1>5. denied.state = verdict /\ denied.authIss = NoTime
  <2> HIDE DEF row, verdict
  <2> QED
    BY <1>3 DEF AttemptRows
<1>6. verdict = "BOUND" => authorized.state = "AUTHORIZED"
  <2> HIDE DEF row, verdict
  <2> QED
    BY <1>3 DEF AttemptRows
<1> HIDE DEF verdict, row, authorized, denied
<1>7. att'[a] \in {authorized, denied} /\ \A b \in Attempts \ {a} : att'[b] = att[b]
  BY <1>1, RowIsReplaced
<1>8. att[a].state = "ABSENT" /\ att'[a].approval = p
  BY CreationGates
<1>9. \/ att'[a].state \in DenialStates /\ att'[a].authIss = NoTime
      \/ /\ att'[a].state = "AUTHORIZED" /\ att'[a].authIss = now
         /\ ~Consumed(p) /\ \A b \in Attempts : ~Active(b)
  <2>1. CASE verdict = "BOUND"
    <3>1. att'[a].state = "AUTHORIZED"
      BY <1>1, <1>6, <2>1, RowIsReplaced
    <3> QED
      BY <3>1, CreationGates, StatesDisjoint DEF ActiveStates
  <2>2. CASE verdict # "BOUND"
    BY <1>1, <1>2, <1>5, <2>2, RowIsReplaced
  <2> QED
    BY <2>1, <2>2
<1>10. now # NoTime
  BY DEF TypeOK, NoTime
<1> QED
  BY <1>4, <1>7, <1>8, <1>9, <1>10 DEF OneRowMoves, RowStep, Created

\* Where one row moves and the others stay, OneRowMoves.
LEMMA OneRow ==
    ASSUME NEW a \in Attempts, RowStep(a), \A b \in Attempts \ {a} : att'[b] = att[b]
    PROVE  OneRowMoves
BY DEF OneRowMoves

\* Cancellation and reconciliation by the API close one row.
LEMMA ApiMovesOneRow ==
    ASSUME IInv, DInv, Api
    PROVE  UNCHANGED att \/ OneRowMoves
<1>0. TypeOK
  BY DEF IInv
<1>1. ASSUME NEW a \in Attempts, NEW p \in Approvals, CreateAttempt(a, p) PROVE OneRowMoves
  BY <1>0, <1>1, CreationMoves
<1>2. ASSUME NEW a \in Attempts, Cancel(a) PROVE OneRowMoves
  <2>1. att' = [att EXCEPT ![a] = Closed(att[a], "CANCELLED_BEFORE_WRITE", att[a].count)]
    BY <1>2 DEF Cancel
  <2>2. att[a].state = "AUTHORIZED"
    BY <1>2 DEF Cancel, Active, ActiveStates, HasIntent, DInv, RowAgrees
  <2>3. /\ Goes(a, {"AUTHORIZED"}, "CANCELLED_BEFORE_WRITE")
        /\ att'[a].count = att[a].count /\ \A b \in Attempts \ {a} : att'[b] = att[b]
    BY <1>0, <2>1, <2>2, ClosingGoes
  <2>4. Refused(a)
    BY <2>3 DEF Refused, NoWriteStates
  <2> QED
    BY <2>3, <2>4, OneRow DEF RowStep
<1>3. ASSUME NEW a \in Attempts, ReconcileExpired(a) PROVE OneRowMoves
  <2>1. att' = [att EXCEPT ![a] = Closed(att[a], "OUTCOME_UNKNOWN", att[a].count)]
    BY <1>3 DEF ReconcileExpired
  <2>2. att[a].state \in {"WRITE_INTENT_COMMITTED", "EXECUTING", "APPLIED", "VERIFYING"}
    BY <1>3 DEF ReconcileExpired, Active, ActiveStates, HasIntent, DInv, RowAgrees
  <2>3. /\ Goes(a, {att[a].state}, "OUTCOME_UNKNOWN")
        /\ att'[a].count = att[a].count /\ \A b \in Attempts \ {a} : att'[b] = att[b]
    BY <1>0, <2>1, ClosingGoes
  <2>4. GivenUp(a)
    BY <2>2, <2>3 DEF GivenUp, Goes
  <2> QED
    BY <2>3, <2>4, OneRow DEF RowStep
<1> QED
  BY <1>1, <1>2, <1>3 DEF Api, Approve, Revoke, ReadForCreate

\* So does each transaction of an executor, or it moves one row on.
LEMMA ExecutorMovesOneRow ==
    ASSUME IInv, DInv, NEW e \in Executors, Executor(e)
    PROVE  UNCHANGED att \/ OneRowMoves
<1>0. TypeOK /\ \A a \in Attempts : att[a] \in AttemptRows
  BY DEF IInv, TypeOK
<1>1. ASSUME NEW a \in Attempts, Claim(e, a) PROVE OneRowMoves
  <2> DEFINE row == [att[a] EXCEPT !.gen = att[a].gen + 1,
                                   !.leaseExp = Least(now + LeaseTerm, att[a].authExp)]
  <2>1. att[a].state = "AUTHORIZED" /\ att' = [att EXCEPT ![a] = row]
    BY <1>1 DEF Claim
  <2>2. /\ row.state = att[a].state /\ row.gen = att[a].gen + 1 /\ row.count = att[a].count
        /\ row.approval = att[a].approval /\ row.authIss = att[a].authIss
        /\ row.intentAt = att[a].intentAt /\ row.dispatched = att[a].dispatched
    BY <1>0 DEF AttemptRows
  <2> HIDE DEF row
  <2>3. att'[a] = row /\ \A b \in Attempts \ {a} : att'[b] = att[b]
    BY <1>0, <2>1, RowIsReplaced
  <2>4. Claimed(a)
    BY <2>1, <2>2, <2>3 DEF Claimed, Steady
  <2> QED
    BY <2>3, <2>4, OneRow DEF RowStep
<1>2. ASSUME NEW a \in Attempts, ClaimExpired(e, a) PROVE OneRowMoves
  <2>1. /\ att' = [att EXCEPT ![a] = Closed(att[a], "AUTHORIZATION_EXPIRED", att[a].count)]
        /\ att[a].state = "AUTHORIZED"
    BY <1>2 DEF ClaimExpired
  <2>3. /\ Goes(a, {"AUTHORIZED"}, "AUTHORIZATION_EXPIRED")
        /\ att'[a].count = att[a].count /\ \A b \in Attempts \ {a} : att'[b] = att[b]
    BY <1>0, <2>1, ClosingGoes
  <2>4. Refused(a)
    BY <2>3 DEF Refused, NoWriteStates, DenialStates
  <2> QED
    BY <2>3, <2>4, OneRow DEF RowStep
<1>3. ASSUME NEW a \in Attempts, StartVerify(e, a) PROVE OneRowMoves
  <2> DEFINE row == [att[a] EXCEPT !.state = "VERIFYING", !.gen = att[a].gen + 1,
                                   !.leaseExp = Least(now + VerifyTerm, MaxTime)]
  <2>1. att[a].state = "APPLIED" /\ att' = [att EXCEPT ![a] = row]
    BY <1>3 DEF StartVerify
  <2>2. /\ row.state = "VERIFYING" /\ row.gen = att[a].gen + 1 /\ row.count = att[a].count
        /\ row.approval = att[a].approval /\ row.authIss = att[a].authIss
        /\ row.intentAt = att[a].intentAt /\ row.dispatched = att[a].dispatched
    BY <1>0 DEF AttemptRows
  <2> HIDE DEF row
  <2>3. att'[a] = row /\ \A b \in Attempts \ {a} : att'[b] = att[b]
    BY <1>0, <2>1, RowIsReplaced
  <2>4. Examined(a)
    BY <2>1, <2>2, <2>3 DEF Examined, Steady
  <2> QED
    BY <2>3, <2>4, OneRow DEF RowStep
<1>4. ASSUME CommitIntent(e) PROVE OneRowMoves
  <2> DEFINE a == ex[e].att
             verdict == IntentVerdict(a, ex[e].obs)
             row == [att[a] EXCEPT !.state = "WRITE_INTENT_COMMITTED", !.intentAt = now]
  <2>1. a \in Attempts /\ att[a].state = "AUTHORIZED"
    BY <1>0, <1>4, BusyExecutor DEF CommitIntent
  <2>2. CASE att' = [att EXCEPT ![a] = row]
    <3>1. /\ row.state = "WRITE_INTENT_COMMITTED" /\ row.intentAt = now
          /\ row.gen = att[a].gen /\ row.count = att[a].count
          /\ row.approval = att[a].approval /\ row.authIss = att[a].authIss
          /\ row.dispatched = att[a].dispatched
      BY <1>0, <2>1 DEF AttemptRows
    <3>2. now # NoTime
      BY <1>0 DEF TypeOK, NoTime
    <3> HIDE DEF row, a
    <3>3. att'[a] = row /\ \A b \in Attempts \ {a} : att'[b] = att[b]
      BY <1>0, <2>1, <2>2, RowIsReplaced
    <3>4. Committed(a)
      BY <2>1, <3>1, <3>2, <3>3 DEF Committed
    <3> QED
      BY <2>1, <3>3, <3>4, OneRow DEF RowStep
  <2>3. CASE /\ verdict # "BOUND"
             /\ att' = [att EXCEPT ![a] = Closed(att[a], verdict, att[a].count)]
    <3>1. verdict \in NoWriteStates
      BY <2>3 DEF IntentVerdict, StateVerdict, NoWriteStates, DenialStates
    <3> HIDE DEF verdict, a
    <3>2. /\ Goes(a, {"AUTHORIZED"}, verdict)
          /\ att'[a].count = att[a].count /\ \A b \in Attempts \ {a} : att'[b] = att[b]
      BY <1>0, <2>1, <2>3, ClosingGoes
    <3>3. Refused(a)
      BY <3>1, <3>2 DEF Refused
    <3> QED
      BY <2>1, <3>2, <3>3, OneRow DEF RowStep
  <2> QED
    BY <1>4, <2>2, <2>3 DEF CommitIntent
<1>5. ASSUME Reserve(e) PROVE UNCHANGED att \/ OneRowMoves
  <2> DEFINE a == ex[e].att
             row == [att[a] EXCEPT !.state = "EXECUTING", !.dispatched = TRUE,
                                   !.count = "UNKNOWN"]
  <2>1. a \in Attempts
    BY <1>0, <1>5, BusyExecutor DEF Reserve
  <2>2. CASE MayReserve(e) /\ att' = [att EXCEPT ![a] = row]
    <3>1. /\ row.state = "EXECUTING" /\ row.dispatched /\ row.count = "UNKNOWN"
          /\ row.gen = att[a].gen /\ row.intentAt = att[a].intentAt
          /\ row.approval = att[a].approval /\ row.authIss = att[a].authIss
      BY <1>0, <2>1 DEF AttemptRows
    <3>2. att[a].state = "WRITE_INTENT_COMMITTED"
      BY <2>2 DEF MayReserve
    <3> HIDE DEF row, a
    <3>3. att'[a] = row /\ \A b \in Attempts \ {a} : att'[b] = att[b]
      BY <1>0, <2>1, <2>2, RowIsReplaced
    <3>4. Reserved(a)
      BY <3>1, <3>2, <3>3 DEF Reserved
    <3> QED
      BY <2>1, <3>3, <3>4, OneRow DEF RowStep
  <2> QED
    BY <1>5, <2>2 DEF Reserve
<1>6. ASSUME PersistReceipt(e) PROVE UNCHANGED att \/ OneRowMoves
  <2> DEFINE a == ex[e].att
             applied == [Closed(att[a], "APPLIED", "ONE") EXCEPT !.receipt = "APPLIED"]
             failed == [Closed(att[a], "EXECUTION_FAILED", "ZERO")
                            EXCEPT !.receipt = "FAILED"]
  <2>1. a \in Attempts
    BY <1>0, <1>6, BusyExecutor DEF PersistReceipt
  <2>2. \A row \in {applied, failed} :
            /\ row.gen = att[a].gen /\ row.approval = att[a].approval
            /\ row.authIss = att[a].authIss /\ row.intentAt = att[a].intentAt
            /\ row.dispatched = att[a].dispatched
    BY <1>0, <2>1 DEF AttemptRows, Closed
  <2>3. /\ applied.state = "APPLIED" /\ applied.count = "ONE"
        /\ failed.state = "EXECUTION_FAILED" /\ failed.count = "ZERO"
    BY <1>0, <2>1 DEF AttemptRows, Closed
  <2>4. CASE /\ ex[e].pc = "ANSWERED" /\ att[a].state = "EXECUTING"
             /\ att' = [att EXCEPT ![a] = applied]
    <3>1. sent[a] = 1
      BY <2>4 DEF DInv, StepsAgree
    <3> HIDE DEF a, applied, failed
    <3>2. att'[a] = applied /\ \A b \in Attempts \ {a} : att'[b] = att[b]
      BY <1>0, <2>1, <2>4, RowIsReplaced
    <3>3. Confirmed(a)
      BY <2>2, <2>3, <2>4, <3>1, <3>2 DEF Confirmed, Goes, Steady
    <3> QED
      BY <2>1, <3>2, <3>3, OneRow DEF RowStep
  <2>5. CASE /\ ex[e].pc = "REJECTED" /\ att[a].state = "EXECUTING"
             /\ att' = [att EXCEPT ![a] = failed]
    <3>1. sent[a] = 0
      BY <2>5 DEF DInv, StepsAgree, Unposted
    <3> HIDE DEF a, applied, failed
    <3>2. att'[a] = failed /\ \A b \in Attempts \ {a} : att'[b] = att[b]
      BY <1>0, <2>1, <2>5, RowIsReplaced
    <3>3. Disproved(a)
      BY <2>2, <2>3, <2>5, <3>1, <3>2 DEF Disproved, Goes, Steady
    <3> QED
      BY <2>1, <3>2, <3>3, OneRow DEF RowStep
  <2> QED
    BY <1>6, <2>4, <2>5 DEF PersistReceipt
<1>7. ASSUME MarkUnknown(e) PROVE UNCHANGED att \/ OneRowMoves
  <2> DEFINE a == ex[e].att
             count == IF att[a].state = "EXECUTING" THEN "UNKNOWN" ELSE att[a].count
  <2>1. a \in Attempts
    BY <1>0, <1>7, BusyExecutor DEF MarkUnknown
  <2>2. \/ UNCHANGED att
        \/ /\ att[a].state \in ActiveStates \ {"AUTHORIZED"}
           /\ att' = [att EXCEPT ![a] = Closed(att[a], "OUTCOME_UNKNOWN", count)]
    BY <1>7 DEF MarkUnknown
  <2>3. count \in {att[a].count, "UNKNOWN"}
    OBVIOUS
  <2> HIDE DEF a, count
  <2>4. ASSUME att[a].state \in ActiveStates \ {"AUTHORIZED"},
               att' = [att EXCEPT ![a] = Closed(att[a], "OUTCOME_UNKNOWN", count)]
        PROVE  OneRowMoves
    <3>1. /\ Goes(a, {att[a].state}, "OUTCOME_UNKNOWN")
          /\ att'[a].count = count /\ \A b \in Attempts \ {a} : att'[b] = att[b]
      BY <1>0, <2>1, <2>4, ClosingGoes
    <3>2. GivenUp(a)
      BY <2>3, <2>4, <3>1 DEF GivenUp, Goes, ActiveStates
    <3> QED
      BY <2>1, <3>1, <3>2, OneRow DEF RowStep
  <2> QED
    BY <2>2, <2>4
<1>8. ASSUME FinishVerify(e) PROVE UNCHANGED att \/ OneRowMoves
  <2> DEFINE a == ex[e].att
  <2>1. a \in Attempts
    BY <1>0, <1>8, BusyExecutor DEF FinishVerify
  <2>2. att[a].state = "VERIFYING" \/ Terminal(a)
    BY <1>8 DEF FinishVerify, DInv, StepsAgree
  <2>3. \/ UNCHANGED att
        \/ /\ att[a].state = "VERIFYING"
           /\ \E verdict \in {"RECOVERED", "VERIFICATION_FAILED"} :
                  att' = [att EXCEPT ![a] = Closed(att[a], verdict, att[a].count)]
    BY <1>8, <2>2 DEF FinishVerify
  <2> HIDE DEF a
  <2>4. ASSUME NEW verdict \in {"RECOVERED", "VERIFICATION_FAILED"},
               att[a].state = "VERIFYING",
               att' = [att EXCEPT ![a] = Closed(att[a], verdict, att[a].count)]
        PROVE  OneRowMoves
    <3>1. /\ Goes(a, {"VERIFYING"}, verdict)
          /\ att'[a].count = att[a].count /\ \A b \in Attempts \ {a} : att'[b] = att[b]
      BY <1>0, <2>1, <2>4, ClosingGoes
    <3>2. Concluded(a)
      BY <3>1 DEF Concluded
    <3> QED
      BY <2>1, <3>1, <3>2, OneRow DEF RowStep
  <2> QED
    BY <2>3, <2>4
<1> QED
  BY <1>1, <1>2, <1>3, <1>4, <1>5, <1>6, <1>7, <1>8
  DEF Executor, Reconcile, ResumeVerify, ReadForIntent, LoseLease, ReadForReserve,
      CallGateway, AdapterRejects, CallFails

\* Every step leaves the table alone or moves one row one step.
LEMMA RowsMove ==
    ASSUME IInv, DInv, [Next]_vars
    PROVE  UNCHANGED att \/ OneRowMoves
<1>1. CASE Gateway \/ Environment \/ UNCHANGED vars
  BY <1>1 DEF Gateway, GatewayAccept, GatewayConsume, GatewayClear, GatewaySend,
              GatewayReadback, Environment, Tick, Drift, RetireBaseline, GatewayCrash,
              ExecutorCrash, ApiCrash, Crash, vars
<1> QED
  BY <1>1, ApiMovesOneRow, ExecutorMovesOneRow DEF Next

\* Whatever row changes makes one of the ten moves of RowStep.
LEMMA RowKinds ==
    ASSUME IInv, DInv, [Next]_vars, NEW a \in Attempts
    PROVE  att'[a] = att[a] \/ RowStep(a)
BY RowsMove DEF OneRowMoves

--------------------------------------------------------------------------------
(* Rows keep their intent, their generation and their dispatch *)

\* Of a row that exists, the generation never falls, an intent stays and so does a
\* dispatch; a verification ends in a verdict; and a dispatch comes after an intent.
RowLater(a) ==
    /\ att[a].state # "ABSENT" => /\ att'[a].gen >= att[a].gen
                                  /\ HasIntent(a) => att'[a].intentAt # NoTime
                                  /\ att[a].dispatched => att'[a].dispatched
    /\ att[a].state = "VERIFYING" => att'[a].state \in TerminalStates \cup {"VERIFYING"}
    /\ Terminal(a) => att'[a].state \in TerminalStates

\* Whatever the kind of its move, a row only goes on.
LEMMA KindsGoOn ==
    ASSUME TypeOK, NEW a \in Attempts, RowStep(a)
    PROVE  RowLater(a)
<1>0. att[a].gen \in Nat
  BY DEF TypeOK, AttemptRows
<1>1. CASE Created(a)
  BY <1>1 DEF Created, RowLater, Terminal, TerminalStates, NoWriteStates, DenialStates
<1>2. CASE Claimed(a)
  BY <1>0, <1>2 DEF Claimed, Steady, RowLater, HasIntent, Terminal, TerminalStates,
                    NoWriteStates, DenialStates
<1>3. CASE Refused(a)
  BY <1>0, <1>3 DEF Refused, Goes, Steady, RowLater, HasIntent, Terminal, TerminalStates
<1>4. CASE Committed(a)
  BY <1>0, <1>4 DEF Committed, RowLater, HasIntent, Terminal, TerminalStates,
                    NoWriteStates, DenialStates
<1>5. CASE Reserved(a)
  BY <1>0, <1>5 DEF Reserved, RowLater, HasIntent, Terminal, TerminalStates,
                    NoWriteStates, DenialStates
<1>6. CASE Confirmed(a)
  BY <1>0, <1>6 DEF Confirmed, Goes, Steady, RowLater, HasIntent, Terminal,
                    TerminalStates, NoWriteStates, DenialStates
<1>7. CASE Disproved(a)
  BY <1>0, <1>7 DEF Disproved, Goes, Steady, RowLater, HasIntent, Terminal, TerminalStates
<1>8. CASE GivenUp(a)
  BY <1>0, <1>8 DEF GivenUp, Goes, Steady, RowLater, HasIntent, Terminal, TerminalStates
<1>9. CASE Examined(a)
  BY <1>0, <1>9 DEF Examined, Steady, RowLater, HasIntent, Terminal, TerminalStates,
                    NoWriteStates, DenialStates
<1>10. CASE Concluded(a)
  BY <1>0, <1>10 DEF Concluded, Goes, Steady, RowLater, HasIntent, Terminal,
                     TerminalStates
<1> QED
  BY <1>1, <1>2, <1>3, <1>4, <1>5, <1>6, <1>7, <1>8, <1>9, <1>10 DEF RowStep

\* So every row only goes on.
LEMMA RowsGoOn ==
    ASSUME IInv, DInv, [Next]_vars, NEW a \in Attempts
    PROVE  RowLater(a)
<1>1. CASE att'[a] = att[a]
  BY <1>1 DEF RowLater, HasIntent, Terminal, IInv, TypeOK, AttemptRows
<1> QED
  BY <1>1, RowKinds, KindsGoOn DEF IInv

\* Whatever the kind of its move, a row keeps its columns in agreement.
LEMMA KindsAgree ==
    ASSUME NEW a \in Attempts, RowAgrees(a), RowStep(a)
    PROVE  RowAgrees(a)'
<1>1. CASE Created(a)
  BY <1>1 DEF Created, RowAgrees, DenialStates
<1>2. CASE Claimed(a)
  BY <1>2 DEF Claimed, Steady, RowAgrees
<1>3. CASE Refused(a)
  BY <1>3 DEF Refused, Goes, RowAgrees, NoWriteStates, DenialStates
<1>4. CASE Committed(a)
  BY <1>4 DEF Committed, RowAgrees
<1>5. CASE Reserved(a)
  BY <1>5 DEF Reserved, RowAgrees
<1>6. CASE Confirmed(a)
  BY <1>6 DEF Confirmed, Goes, Steady, RowAgrees
<1>7. CASE Disproved(a)
  BY <1>7 DEF Disproved, Goes, Steady, RowAgrees
<1>8. CASE GivenUp(a)
  BY <1>8 DEF GivenUp, Goes, Steady, RowAgrees
<1>9. CASE Examined(a)
  BY <1>9 DEF Examined, Steady, RowAgrees
<1>10. CASE Concluded(a)
  BY <1>10 DEF Concluded, Goes, Steady, RowAgrees
<1> QED
  BY <1>1, <1>2, <1>3, <1>4, <1>5, <1>6, <1>7, <1>8, <1>9, <1>10 DEF RowStep

\* So every row keeps its columns in agreement.
LEMMA RowsAgree ==
    ASSUME IInv, DInv, [Next]_vars
    PROVE  \A a \in Attempts : RowAgrees(a)'
<1> SUFFICES ASSUME NEW a \in Attempts PROVE RowAgrees(a)'
  OBVIOUS
<1>1. RowAgrees(a)
  BY DEF DInv
<1>2. CASE att'[a] = att[a]
  BY <1>1, <1>2 DEF RowAgrees
<1> QED
  BY <1>1, <1>2, RowKinds, KindsAgree

--------------------------------------------------------------------------------
(* What reaches the gateway *)

\* Requests are made by an executor's call, and otherwise only repeated or lost.
LEMMA RequestsMove ==
    ASSUME [Next]_vars
    PROVE  \/ requests' \subseteq requests
           \/ \E r \in requests : GatewayAccept(r)
           \/ \E e \in Executors : CallGateway(e)
<1>1. CASE Api \/ UNCHANGED vars
  BY <1>1 DEF Api, Approve, Revoke, ReadForCreate, CreateAttempt, Cancel,
              ReconcileExpired, vars
<1>2. ASSUME NEW e \in Executors, Executor(e), ~CallGateway(e)
      PROVE  UNCHANGED requests
  <2>1. ASSUME NEW a \in Attempts, \/ Claim(e, a) \/ ClaimExpired(e, a)
                                   \/ Reconcile(e, a) \/ StartVerify(e, a)
                                   \/ ResumeVerify(e, a)
        PROVE  UNCHANGED requests
    BY <2>1 DEF Claim, ClaimExpired, Reconcile, StartVerify, ResumeVerify
  <2>2. CASE \/ CommitIntent(e) \/ Reserve(e) \/ PersistReceipt(e)
             \/ MarkUnknown(e) \/ FinishVerify(e)
    BY <2>2 DEF CommitIntent, Reserve, PersistReceipt, MarkUnknown, FinishVerify
  <2>3. CASE \/ ReadForIntent(e) \/ LoseLease(e) \/ ReadForReserve(e)
             \/ AdapterRejects(e) \/ CallFails(e)
    BY <2>3 DEF ReadForIntent, LoseLease, ReadForReserve, AdapterRejects, CallFails
  <2> QED
    BY <1>2, <2>1, <2>2, <2>3 DEF Executor
<1>3. CASE Gateway
  BY <1>3 DEF Gateway, GatewayConsume, GatewayClear, GatewaySend, GatewayReadback
<1>4. CASE Environment
  BY <1>4 DEF Environment, Tick, Drift, RetireBaseline, GatewayCrash, ExecutorCrash,
              ApiCrash, Crash
<1> QED
  BY <1>1, <1>2, <1>3, <1>4 DEF Next

\* Only the gateway's send counts as one.
LEMMA OneSend ==
    ASSUME [Next]_vars
    PROVE  UNCHANGED sent \/ GatewaySend
BY OnlyGatewaySends
DEF Gateway, GatewayAccept, GatewayConsume, GatewayClear, GatewayReadback

\* A send is the first for its attempt, which is executing then, and the table stands.
LEMMA SendsFirst ==
    ASSUME IInv, GatewaySend
    PROVE  /\ gw.att \in Attempts /\ gw.pc = "CLEARED" /\ UNCHANGED <<att, ledger>>
           /\ att[gw.att].state = "EXECUTING"
           /\ sent[gw.att] = 0 /\ sent'[gw.att] = 1
           /\ sent' = [sent EXCEPT ![gw.att] = 1]
           /\ gw'.pc = "IDLE" \/ (gw'.pc = "READBACK" /\ gw'.att = gw.att)
<1>1. gw.pc = "CLEARED" /\ UNCHANGED <<att, ledger>>
  BY DEF GatewaySend
<1>2. gw.att \in Attempts /\ gw \in [pc : GatewayPCs, att : Attempts, caller : Executors \cup {NoOne}]
  BY <1>1 DEF IInv, TypeOK, GatewayRows, IdleGateway
<1>3. att[gw.att].state = "EXECUTING" /\ sent[gw.att] = 0
  BY <1>1 DEF IInv, WriteIsEarned, FenceStands, LedgerAhead
<1>4. sent' = [sent EXCEPT ![gw.att] = 1] /\ sent \in [Attempts -> Nat]
  BY <1>3 DEF GatewaySend, IInv, TypeOK
<1>5. gw' = [gw EXCEPT !.pc = "READBACK"] \/ gw' = IdleGateway
  BY DEF GatewaySend
<1>6. gw'.pc = "IDLE" \/ (gw'.pc = "READBACK" /\ gw'.att = gw.att)
  <2> DEFINE reading == [gw EXCEPT !.pc = "READBACK"]
  <2>1. reading.pc = "READBACK" /\ reading.att = gw.att /\ IdleGateway.pc = "IDLE"
    BY <1>2 DEF IdleGateway
  <2> HIDE DEF reading
  <2> QED
    BY <1>5, <2>1 DEF reading
<1> QED
  BY <1>1, <1>2, <1>3, <1>4, <1>6

\* Nothing of an attempt reaches the gateway but by the call of an executor on it.
LEMMA UnpostedStays ==
    ASSUME IInv, [Next]_vars, NEW a \in Attempts, Unposted(a)
    PROVE  \/ Unposted(a)'
           \/ \E e \in Executors : /\ CallGateway(e) /\ ex[e].att = a
<1> SUFFICES ASSUME \A e \in Executors : CallGateway(e) => ex[e].att # a
             PROVE  Unposted(a)'
  OBVIOUS
<1>0. TypeOK
  BY DEF IInv
<1>1. \A r \in requests' : r.att # a
  <2>1. ASSUME NEW e \in Executors, CallGateway(e)
        PROVE  \A r \in requests' : r.att # a
    <3>1. requests' \subseteq requests \cup {[att |-> ex[e].att, caller |-> e]}
      BY <2>1 DEF CallGateway
    <3> QED
      BY <2>1, <3>1 DEF Unposted
  <2>2. ASSUME NEW r \in requests, GatewayAccept(r)
        PROVE  \A q \in requests' : q.att # a
    <3>1. requests' \subseteq requests \cup {[att |-> r.att, caller |-> NoOne]}
      BY <2>2 DEF GatewayAccept
    <3> QED
      BY <3>1 DEF Unposted
  <2> QED
    BY <2>1, <2>2, RequestsMove DEF Unposted
<1>2. gw'.pc # "IDLE" => gw'.att # a
  <2>0. gw.pc # "IDLE" => gw \in [pc : GatewayPCs, att : Attempts, caller : Executors \cup {NoOne}]
    BY <1>0 DEF TypeOK, GatewayRows, IdleGateway
  <2>1. ASSUME NEW r \in requests, GatewayAccept(r) PROVE gw'.pc # "IDLE" => gw'.att # a
    BY <2>1 DEF GatewayAccept, Unposted
  <2>2. CASE GatewayConsume
    BY <2>0, <2>2 DEF GatewayConsume, Unposted, IdleGateway
  <2>3. CASE GatewayClear
    BY <2>0, <2>3 DEF GatewayClear, Unposted, IdleGateway
  <2>4. CASE GatewaySend
    BY <2>0, <2>4 DEF GatewaySend, Unposted, IdleGateway
  <2>5. CASE GatewayReadback
    BY <2>5 DEF GatewayReadback, IdleGateway
  <2> QED
    BY <2>1, <2>2, <2>3, <2>4, <2>5, OnlyGatewaySends DEF Gateway, Unposted, IdleGateway
<1>3. a \notin ledger'
  BY OnlyGatewaySends
  DEF Gateway, GatewayAccept, GatewayConsume, GatewayClear, GatewaySend, GatewayReadback,
      Unposted
<1>4. sent'[a] = 0
  <2>1. CASE GatewaySend
    BY <1>0, <2>1, SendsFirst DEF Unposted, TypeOK
  <2> QED
    BY <2>1, OneSend DEF Unposted
<1> QED
  BY <1>1, <1>2, <1>3, <1>4 DEF Unposted

\* What the gateway has keeps being of a dispatched attempt, and what it reads back sent.
LEMMA PostingsStep ==
    ASSUME IInv, DInv, [Next]_vars
    PROVE  PostingsAgree'
<1>1. ASSUME NEW a \in Attempts, ~att'[a].dispatched
      PROVE  Unposted(a)'
  <2>1. ~att[a].dispatched
    BY <1>1, RowsGoOn DEF RowLater, DInv, RowAgrees
  <2>2. Unposted(a)
    BY <2>1 DEF DInv, PostingsAgree
  <2>3. \A e \in Executors : CallGateway(e) => att[ex[e].att].dispatched
    BY DEF CallGateway, DInv, StepsAgree
  <2> QED
    BY <2>1, <2>2, <2>3, UnpostedStays
<1>2. ASSUME gw'.pc = "READBACK"
      PROVE  sent'[gw'.att] = 1
  <2>1. CASE GatewaySend
    BY <1>2, <2>1, SendsFirst
  <2>2. CASE ~GatewaySend
    <3>1. gw' = gw
      <4>1. ASSUME NEW r \in requests, GatewayAccept(r) PROVE gw' = gw
        BY <1>2, <4>1 DEF GatewayAccept
      <4>2. CASE GatewayConsume \/ GatewayClear \/ GatewayReadback
        <5>1. gw.pc # "IDLE" => /\ [gw EXCEPT !.pc = "CONSUMED"].pc = "CONSUMED"
                                /\ [gw EXCEPT !.pc = "CLEARED"].pc = "CLEARED"
          BY DEF IInv, TypeOK, GatewayRows, IdleGateway
        <5>2. IdleGateway.pc = "IDLE"
          BY DEF IdleGateway
        <5>3. gw' \in {[gw EXCEPT !.pc = "CONSUMED"], [gw EXCEPT !.pc = "CLEARED"], IdleGateway}
              /\ gw.pc # "IDLE"
          BY <4>2 DEF GatewayConsume, GatewayClear, GatewayReadback
        <5> QED
          BY <1>2, <5>1, <5>2, <5>3
      <4> QED
        BY <1>2, <2>2, <4>1, <4>2, OnlyGatewaySends DEF Gateway, IdleGateway
    <3> QED
      BY <1>2, <2>2, <3>1, OneSend DEF DInv, PostingsAgree
  <2> QED
    BY <2>1, <2>2
<1> QED
  BY <1>1, <1>2 DEF PostingsAgree

\* The stored count keeps telling the truth: a send finds it unknown, and the receipt
\* that settles it says what was sent.
LEMMA CountStep ==
    ASSUME IInv, DInv, [Next]_vars
    PROVE  CountIsTrue'
<1> SUFFICES ASSUME NEW a \in Attempts
             PROVE  /\ att'[a].count = "ZERO" => sent'[a] = 0
                    /\ att'[a].count = "ONE" => sent'[a] = 1
  BY DEF CountIsTrue
<1>0. /\ att[a].count = "ZERO" => sent[a] = 0
      /\ att[a].count = "ONE" => sent[a] = 1
  BY DEF DInv, CountIsTrue
<1>1. CASE GatewaySend
  <2>1. sent \in [Attempts -> Nat]
    BY DEF IInv, TypeOK
  <2>2. CASE a = gw.att
    BY <1>1, <2>2, SendsFirst DEF DInv, RowAgrees
  <2>3. CASE a # gw.att
    BY <1>0, <1>1, <2>1, <2>3, SendsFirst
  <2> QED
    BY <2>2, <2>3
<1>2. CASE UNCHANGED sent
  <2>1. CASE att'[a].count = att[a].count
    BY <1>0, <1>2, <2>1
  <2>2. CASE Created(a)
    <3>1. ~att[a].dispatched
      BY <2>2 DEF Created, DInv, RowAgrees
    <3>2. sent[a] = 0
      BY <3>1 DEF DInv, PostingsAgree, Unposted
    <3> QED
      BY <1>2, <2>2, <3>2 DEF Created
  <2>3. CASE Reserved(a) \/ Confirmed(a) \/ Disproved(a)
    BY <1>2, <2>3 DEF Reserved, Confirmed, Disproved
  <2>4. CASE GivenUp(a)
    BY <1>0, <1>2, <2>4 DEF GivenUp
  <2>5. CASE Claimed(a) \/ Refused(a) \/ Committed(a) \/ Examined(a) \/ Concluded(a)
    BY <2>1, <2>5 DEF Claimed, Refused, Committed, Examined, Concluded
  <2> QED
    BY <2>1, <2>2, <2>3, <2>4, <2>5, RowKinds DEF RowStep
<1> QED
  BY <1>1, <1>2, OneSend

--------------------------------------------------------------------------------
(* What a step can do to an executor *)

\* An executor goes on with its attempt and its lease.
Follows(e, from, to) ==
    /\ ex[e].pc \in from /\ ex'[e].pc = to
    /\ ex'[e].att = ex[e].att /\ ex'[e].gen = ex[e].gen

TakesLease(e) ==
    /\ ex'[e].pc = "LEASED"
    /\ att[ex'[e].att].state = "AUTHORIZED"
    /\ ex'[e].gen = att[ex'[e].att].gen + 1
    /\ att'[ex'[e].att].gen = att[ex'[e].att].gen + 1

TakesOver(e) ==
    /\ ex'[e].pc \in {"RECONCILING", "VERIFYING"}
    /\ att'[ex'[e].att].intentAt # NoTime
    /\ ex'[e].pc = "VERIFYING" => att'[ex'[e].att].state = "VERIFYING"

Commits(e) ==
    /\ Follows(e, {"INTENT_READ"}, "COMMITTED")
    /\ att[ex[e].att].state = "AUTHORIZED" /\ att'[ex[e].att].intentAt # NoTime

Reserves(e) ==
    /\ Follows(e, {"RESERVE_READ"}, "DISPATCHED")
    /\ att[ex[e].att].state = "WRITE_INTENT_COMMITTED" /\ att'[ex[e].att].dispatched

Hears(e) ==
    /\ Follows(e, {"WAITING"}, "ANSWERED")
    /\ gw.pc = "READBACK" /\ gw.att = ex[e].att /\ UNCHANGED sent

Advances(e) ==
    \/ ex'[e].pc = "IDLE"
    \/ TakesLease(e) \/ TakesOver(e)
    \/ Follows(e, {"LEASED"}, "INTENT_READ")
    \/ Commits(e)
    \/ Follows(e, {"COMMITTED"}, "RESERVE_READ")
    \/ Reserves(e)
    \/ Follows(e, {"DISPATCHED"}, "WAITING") \/ Follows(e, {"DISPATCHED"}, "REJECTED")
    \/ Hears(e)
    \/ Driving(e) /\ Follows(e, {ex[e].pc}, "UNCERTAIN")

OneExecutorMoves ==
    \E e \in Executors : /\ Advances(e)
                         /\ \A f \in Executors \ {e} : ex'[f] = ex[f]

\* Where one executor advances and the others stay, OneExecutorMoves.
LEMMA OneExecutor ==
    ASSUME NEW e \in Executors, Advances(e), \A f \in Executors \ {e} : ex'[f] = ex[f]
    PROVE  OneExecutorMoves
BY DEF OneExecutorMoves

\* The locals of one executor are replaced.
LEMMA LocalsAreReplaced ==
    ASSUME TypeOK, NEW e \in Executors, NEW row, ex' = [ex EXCEPT ![e] = row]
    PROVE  ex'[e] = row /\ \A f \in Executors \ {e} : ex'[f] = ex[f]
BY DEF TypeOK

\* A jump of a busy executor, with or without a new observation, keeps attempt and lease.
LEMMA JumpFollows ==
    ASSUME TypeOK, NEW e \in Executors, ex[e].pc # "IDLE", NEW pc, NEW obs,
           \/ Goto(e, pc)
           \/ ex' = [ex EXCEPT ![e].pc = pc, ![e].obs = obs]
           \/ ex' = [ex EXCEPT ![e].obs = obs, ![e].pc = pc]
    PROVE  Follows(e, {ex[e].pc}, pc) /\ \A f \in Executors \ {e} : ex'[f] = ex[f]
<1> DEFINE one == [ex[e] EXCEPT !.pc = pc]
           two == [ex[e] EXCEPT !.pc = pc, !.obs = obs]
           three == [ex[e] EXCEPT !.obs = obs, !.pc = pc]
<1>1. \/ ex' = [ex EXCEPT ![e] = one]
      \/ ex' = [ex EXCEPT ![e] = two]
      \/ ex' = [ex EXCEPT ![e] = three]
  BY DEF Goto
<1>2. \A row \in {one, two, three} :
          row.pc = pc /\ row.att = ex[e].att /\ row.gen = ex[e].gen
  BY BusyExecutor
<1> HIDE DEF one, two, three
<1>3. ex'[e] \in {one, two, three} /\ \A f \in Executors \ {e} : ex'[f] = ex[f]
  BY <1>1, LocalsAreReplaced
<1> QED
  BY <1>2, <1>3 DEF Follows

\* An executor that ends its round is idle, and the others stay.
LEMMA ReturnEnds ==
    ASSUME TypeOK, NEW e \in Executors, Return(e)
    PROVE  OneExecutorMoves
<1>1. IdleExecutor.pc = "IDLE"
  BY DEF IdleExecutor
<1>2. ex'[e] = IdleExecutor /\ \A f \in Executors \ {e} : ex'[f] = ex[f]
  BY LocalsAreReplaced DEF Return
<1> QED
  BY <1>1, <1>2, OneExecutor DEF Advances

\* Every step of an executor advances it alone.
LEMMA ExecutorAdvances ==
    ASSUME IInv, DInv, NEW e \in Executors, Executor(e)
    PROVE  UNCHANGED ex \/ OneExecutorMoves
<1>0. TypeOK
  BY DEF IInv
<1>1. ASSUME NEW a \in Attempts, Claim(e, a) PROVE OneExecutorMoves
  <2> DEFINE row == [pc |-> "LEASED", att |-> a, gen |-> att[a].gen + 1, obs |-> Unread]
             claimed == [att[a] EXCEPT !.gen = att[a].gen + 1,
                             !.leaseExp = Least(now + LeaseTerm, att[a].authExp)]
  <2>1. /\ att[a].state = "AUTHORIZED" /\ ex' = [ex EXCEPT ![e] = row]
        /\ att' = [att EXCEPT ![a] = claimed]
    BY <1>1 DEF Claim
  <2>2. row.pc = "LEASED" /\ row.att = a /\ row.gen = att[a].gen + 1
    OBVIOUS
  <2>3. claimed.gen = att[a].gen + 1
    BY <1>0 DEF TypeOK, AttemptRows
  <2> HIDE DEF row, claimed
  <2>4. ex'[e] = row /\ \A f \in Executors \ {e} : ex'[f] = ex[f]
    BY <1>0, <2>1, LocalsAreReplaced
  <2>5. att'[a].gen = att[a].gen + 1
    BY <1>0, <2>1, <2>3, RowIsReplaced
  <2>6. TakesLease(e)
    BY <2>1, <2>2, <2>4, <2>5 DEF TakesLease
  <2> QED
    BY <2>4, <2>6, OneExecutor DEF Advances
<1>2. ASSUME NEW a \in Attempts, Reconcile(e, a) PROVE OneExecutorMoves
  <2>1. HasIntent(a) /\ att'[a] = att[a]
    BY <1>2 DEF Reconcile, DInv, RowAgrees, HasIntent
  <2>2. PICK obs \in Readbacks :
            ex' = [ex EXCEPT ![e] = [pc |-> "RECONCILING", att |-> a, gen |-> 0,
                                     obs |-> obs]]
    BY <1>2 DEF Reconcile
  <2> DEFINE row == [pc |-> "RECONCILING", att |-> a, gen |-> 0, obs |-> obs]
  <2>3. row.pc = "RECONCILING" /\ row.att = a /\ ex' = [ex EXCEPT ![e] = row]
    BY <2>2
  <2> HIDE DEF row
  <2>4. ex'[e] = row /\ \A f \in Executors \ {e} : ex'[f] = ex[f]
    BY <1>0, <2>3, LocalsAreReplaced
  <2>5. TakesOver(e)
    BY <2>1, <2>3, <2>4 DEF TakesOver, HasIntent
  <2> QED
    BY <2>4, <2>5, OneExecutor DEF Advances
<1>3. ASSUME NEW a \in Attempts, StartVerify(e, a) \/ ResumeVerify(e, a)
      PROVE  OneExecutorMoves
  <2>1. PICK gen : ex' = [ex EXCEPT ![e] = [pc |-> "VERIFYING", att |-> a, gen |-> gen,
                                            obs |-> Unread]]
    BY <1>3 DEF StartVerify, ResumeVerify
  <2> DEFINE row == [pc |-> "VERIFYING", att |-> a, gen |-> gen, obs |-> Unread]
             verifying == [att[a] EXCEPT !.state = "VERIFYING", !.gen = att[a].gen + 1,
                               !.leaseExp = Least(now + VerifyTerm, MaxTime)]
  <2>2. row.pc = "VERIFYING" /\ row.att = a /\ ex' = [ex EXCEPT ![e] = row]
    BY <2>1
  <2>3. verifying.state = "VERIFYING" /\ verifying.intentAt = att[a].intentAt
    BY <1>0 DEF TypeOK, AttemptRows
  <2>4. /\ HasIntent(a)
        /\ \/ att'[a] = att[a] /\ att[a].state = "VERIFYING"
           \/ att' = [att EXCEPT ![a] = verifying]
    BY <1>3 DEF StartVerify, ResumeVerify, DInv, RowAgrees, HasIntent
  <2> HIDE DEF row, verifying
  <2>5. HasIntent(a)' /\ att'[a].state = "VERIFYING"
    BY <1>0, <2>3, <2>4, RowIsReplaced DEF HasIntent
  <2>6. ex'[e] = row /\ \A f \in Executors \ {e} : ex'[f] = ex[f]
    BY <1>0, <2>2, LocalsAreReplaced
  <2>7. TakesOver(e)
    BY <2>2, <2>5, <2>6 DEF TakesOver, HasIntent
  <2> QED
    BY <2>6, <2>7, OneExecutor DEF Advances
<1>4. CASE ReadForIntent(e)
  <2>1. ex[e].pc = "LEASED" /\ \E obs \in Readbacks :
            ex' = [ex EXCEPT ![e].pc = "INTENT_READ", ![e].obs = obs]
    BY <1>4 DEF ReadForIntent
  <2>2. Follows(e, {"LEASED"}, "INTENT_READ") /\ \A f \in Executors \ {e} : ex'[f] = ex[f]
    BY <1>0, <2>1, JumpFollows
  <2> QED
    BY <2>2, OneExecutor DEF Advances
<1>5. CASE CommitIntent(e)
  <2> DEFINE a == ex[e].att
             row == [att[a] EXCEPT !.state = "WRITE_INTENT_COMMITTED", !.intentAt = now]
  <2>1. a \in Attempts /\ att[a].state = "AUTHORIZED" /\ ex[e].pc = "INTENT_READ"
    BY <1>0, <1>5, BusyExecutor DEF CommitIntent
  <2>2. ASSUME att' = [att EXCEPT ![a] = row], Goto(e, "COMMITTED")
        PROVE  OneExecutorMoves
    <3>1. row.intentAt # NoTime
      BY <1>0, <2>1 DEF TypeOK, AttemptRows, NoTime
    <3> HIDE DEF a, row
    <3>2. att'[a].intentAt # NoTime
      BY <1>0, <2>1, <2>2, <3>1, RowIsReplaced
    <3> USE DEF a
    <3>3. Follows(e, {"INTENT_READ"}, "COMMITTED") /\ \A f \in Executors \ {e} : ex'[f] = ex[f]
      BY <1>0, <2>1, <2>2, JumpFollows
    <3>4. Commits(e)
      BY <2>1, <3>2, <3>3 DEF Commits
    <3> QED
      BY <3>3, <3>4, OneExecutor DEF Advances
  <2>3. CASE Return(e)
    BY <1>0, <2>3, ReturnEnds
  <2> QED
    BY <1>5, <2>2, <2>3 DEF CommitIntent
<1>6. CASE ReadForReserve(e)
  <2>1. ex[e].pc = "COMMITTED" /\ \E obs \in Readbacks, pc \in {"UNCERTAIN", "RESERVE_READ"} :
            ex' = [ex EXCEPT ![e].obs = obs, ![e].pc = pc]
    BY <1>6 DEF ReadForReserve
  <2>2. PICK pc \in {"UNCERTAIN", "RESERVE_READ"} :
            Follows(e, {"COMMITTED"}, pc) /\ \A f \in Executors \ {e} : ex'[f] = ex[f]
    BY <1>0, <2>1, JumpFollows
  <2>3. Advances(e)
    BY <2>1, <2>2 DEF Advances, Driving
  <2> QED
    BY <2>2, <2>3, OneExecutor
<1>7. CASE Reserve(e)
  <2> DEFINE a == ex[e].att
             row == [att[a] EXCEPT !.state = "EXECUTING", !.dispatched = TRUE,
                                   !.count = "UNKNOWN"]
  <2>1. a \in Attempts /\ ex[e].pc = "RESERVE_READ"
    BY <1>0, <1>7, BusyExecutor DEF Reserve
  <2>2. ASSUME MayReserve(e), att' = [att EXCEPT ![a] = row], Goto(e, "DISPATCHED")
        PROVE  OneExecutorMoves
    <3>1. row.dispatched /\ att[a].state = "WRITE_INTENT_COMMITTED"
      BY <1>0, <2>1, <2>2 DEF TypeOK, AttemptRows, MayReserve
    <3> HIDE DEF row
    <3>2. att'[a].dispatched
      BY <1>0, <2>1, <2>2, <3>1, RowIsReplaced
    <3>3. Follows(e, {"RESERVE_READ"}, "DISPATCHED") /\ \A f \in Executors \ {e} : ex'[f] = ex[f]
      BY <1>0, <2>1, <2>2, JumpFollows
    <3>4. Reserves(e)
      BY <3>1, <3>2, <3>3 DEF Reserves
    <3> QED
      BY <3>3, <3>4, OneExecutor DEF Advances
  <2>3. ASSUME Goto(e, "UNCERTAIN") PROVE OneExecutorMoves
    <3>1. Follows(e, {ex[e].pc}, "UNCERTAIN") /\ \A f \in Executors \ {e} : ex'[f] = ex[f]
      BY <1>0, <2>1, <2>3, JumpFollows
    <3> QED
      BY <2>1, <3>1, OneExecutor DEF Advances, Driving
  <2> QED
    BY <1>7, <2>2, <2>3 DEF Reserve
<1>8. ASSUME \/ CallGateway(e) \/ AdapterRejects(e) \/ CallFails(e)
      PROVE  OneExecutorMoves
  <2>1. ex[e].pc \in {"DISPATCHED", "WAITING"}
    BY <1>8 DEF CallGateway, AdapterRejects, CallFails
  <2>2. \/ ex[e].pc = "DISPATCHED" /\ Goto(e, "WAITING")
        \/ ex[e].pc = "DISPATCHED"
           /\ ex' = [ex EXCEPT ![e].pc = "REJECTED",
                               ![e].obs = [at |-> now, config |-> "FAULT"]]
        \/ Goto(e, "UNCERTAIN")
    BY <1>8 DEF CallGateway, AdapterRejects, CallFails
  <2>3. PICK pc \in {"WAITING", "REJECTED", "UNCERTAIN"} :
            /\ Follows(e, {ex[e].pc}, pc) /\ \A f \in Executors \ {e} : ex'[f] = ex[f]
            /\ pc # "UNCERTAIN" => ex[e].pc = "DISPATCHED"
    BY <1>0, <2>1, <2>2, JumpFollows
  <2>4. Advances(e)
    BY <2>1, <2>3 DEF Advances, Follows, Driving
  <2> QED
    BY <2>3, <2>4, OneExecutor
<1>9. CASE PersistReceipt(e)
  <2>1. ex[e].pc \in {"ANSWERED", "REJECTED"} /\ (Return(e) \/ Goto(e, "UNCERTAIN"))
    BY <1>9 DEF PersistReceipt
  <2>2. ASSUME Goto(e, "UNCERTAIN") PROVE OneExecutorMoves
    <3>1. Follows(e, {ex[e].pc}, "UNCERTAIN") /\ \A f \in Executors \ {e} : ex'[f] = ex[f]
      BY <1>0, <2>1, <2>2, JumpFollows
    <3> QED
      BY <2>1, <3>1, OneExecutor DEF Advances, Driving
  <2> QED
    BY <1>0, <2>1, <2>2, ReturnEnds
<1>10. CASE LoseLease(e) \/ MarkUnknown(e) \/ FinishVerify(e)
  BY <1>0, <1>10, ReturnEnds DEF LoseLease, MarkUnknown, FinishVerify
<1> QED
  BY <1>1, <1>2, <1>3, <1>4, <1>5, <1>6, <1>7, <1>8, <1>9, <1>10
  DEF Executor, ClaimExpired

\* So at most one executor moves in a step, and it advances: by a step of its own, in a
\* crash, or on the answer of the gateway.
LEMMA ExecutorsMove ==
    ASSUME IInv, DInv, [Next]_vars
    PROVE  UNCHANGED ex \/ OneExecutorMoves
<1>0. TypeOK
  BY DEF IInv
<1>1. CASE Api \/ UNCHANGED vars
  BY <1>1 DEF Api, Approve, Revoke, ReadForCreate, CreateAttempt, Cancel,
              ReconcileExpired, vars
<1>2. CASE GatewayReadback
  <2> DEFINE e == gw.caller
             row == [ex[e] EXCEPT !.pc = "ANSWERED",
                                  !.obs = [at |-> now, config |-> "BASELINE"]]
  <2>1. CASE UNCHANGED ex
    BY <2>1
  <2>2. CASE ~UNCHANGED ex
    <3>1. /\ gw.pc = "READBACK" /\ UNCHANGED sent
          /\ ex' = [f \in Executors |->
                 IF f = e /\ ex[f].pc = "WAITING" /\ ex[f].att = gw.att
                 THEN [ex[f] EXCEPT !.pc = "ANSWERED",
                                    !.obs = [at |-> now, config |-> "BASELINE"]]
                 ELSE ex[f]]
      BY <1>2, <2>2 DEF GatewayReadback
    <3>2. ex = [f \in Executors |-> ex[f]]
      BY <1>0 DEF TypeOK
    <3>3. \A f \in Executors \ {e} : ex'[f] = ex[f]
      BY <3>1
    <3>4. e \in Executors /\ ex[e].pc = "WAITING" /\ ex[e].att = gw.att
      BY <2>2, <3>1, <3>2
    <3>5. ex'[e] = row
      BY <3>1, <3>4
    <3>6. row.pc = "ANSWERED" /\ row.att = ex[e].att /\ row.gen = ex[e].gen
      BY <1>0, <3>4, BusyExecutor
    <3> HIDE DEF row, e
    <3>7. Hears(e)
      BY <3>1, <3>4, <3>5, <3>6 DEF Hears, Follows
    <3> QED
      BY <3>3, <3>4, <3>7, OneExecutor DEF Advances
  <2> QED
    BY <2>1, <2>2
<1>3. CASE Gateway /\ ~GatewayReadback
  BY <1>3 DEF Gateway, GatewayAccept, GatewayConsume, GatewayClear, GatewaySend
<1>4. CASE Environment
  BY <1>0, <1>4, ReturnEnds
  DEF Environment, Tick, Drift, RetireBaseline, GatewayCrash, ExecutorCrash, ApiCrash
<1> QED
  BY <1>1, <1>2, <1>3, <1>4, ExecutorAdvances DEF Next

--------------------------------------------------------------------------------
(* The invariant is kept *)

\* Whoever still drives an attempt drove it before, or commits its intent now.
LEMMA DriversContinue ==
    ASSUME NEW e \in Executors, Driving(e)', ex'[e] = ex[e] \/ Advances(e)
    PROVE  Commits(e) \/ (Driving(e) /\ ex'[e].att = ex[e].att)
BY DEF Driving, Advances, Follows, TakesLease, TakesOver, Reserves, Hears

\* Whoever still reads under a lease did before, or takes the lease now.
LEMMA LeasesContinue ==
    ASSUME NEW e \in Executors, Leasing(e)', ex'[e] = ex[e] \/ Advances(e)
    PROVE  TakesLease(e) \/ (Leasing(e) /\ ex'[e].att = ex[e].att /\ ex'[e].gen = ex[e].gen)
BY DEF Leasing, Advances, Follows, TakesOver, Commits, Reserves, Hears

\* What is known of the attempt of a busy executor.
LEMMA BusyAttempt ==
    ASSUME IInv, DInv, [Next]_vars, NEW e \in Executors, ex[e].pc # "IDLE"
    PROVE  /\ ex[e].att \in Attempts /\ att[ex[e].att].state # "ABSENT"
           /\ ex[e].gen \in Nat /\ att[ex[e].att].gen \in Nat
           /\ att'[ex[e].att].gen \in Nat
           /\ RowLater(ex[e].att)
<1>1. TypeOK /\ TypeOK'
  BY TypeStep DEF IInv
<1>2. ex[e].att \in Attempts /\ ex[e].gen \in Nat
  BY <1>1, BusyExecutor
<1>3. att[ex[e].att].gen \in Nat /\ att'[ex[e].att].gen \in Nat
  BY <1>1, <1>2 DEF TypeOK, AttemptRows
<1> QED
  BY <1>2, <1>3, RowsGoOn DEF IInv, Engaged

\* What an executor has come to stays in the row of its attempt.
LEMMA StepsStep ==
    ASSUME IInv, DInv, [Next]_vars, NEW e \in Executors
    PROVE  StepsAgree(e)'
<1> DEFINE a == ex[e].att
           b == ex'[e].att
<1>0. /\ ex'[e] = ex[e] \/ Advances(e)
      /\ StepsAgree(e)
  BY ExecutorsMove DEF OneExecutorMoves, DInv
<1>1. Leasing(e)' => ex'[e].gen <= att'[b].gen
  <2>1. ASSUME TakesLease(e) PROVE ex'[e].gen <= att'[b].gen
    <3>1. ex'[e].pc # "IDLE" /\ TypeOK'
      BY <2>1, TypeStep DEF TakesLease, IInv
    <3>2. ex'[e].gen \in Nat
      BY <3>1 DEF TypeOK, ExecutorRows, IdleExecutor
    <3> QED
      BY <2>1, <3>2 DEF TakesLease
  <2>2. ASSUME Leasing(e), b = a, ex'[e].gen = ex[e].gen PROVE ex'[e].gen <= att'[b].gen
    BY <1>0, <2>2, BusyAttempt DEF StepsAgree, Leasing, RowLater
  <2> QED
    BY <1>0, <2>1, <2>2, LeasesContinue
<1>2. ex'[e].pc # "IDLE" /\ ~Leasing(e)' => att'[b].intentAt # NoTime
  <2>1. CASE TakesOver(e) \/ Commits(e)
    BY <2>1 DEF TakesOver, Commits, Follows
  <2>2. ASSUME ex'[e].pc # "IDLE", ~Leasing(e)', ~TakesOver(e), ~Commits(e)
        PROVE  ex[e].pc # "IDLE" /\ ~Leasing(e) /\ b = a
    BY <1>0, <2>2 DEF Advances, Follows, Leasing, TakesLease, Reserves, Hears, Driving
  <2>3. ASSUME ex[e].pc # "IDLE", ~Leasing(e), b = a PROVE att'[b].intentAt # NoTime
    BY <1>0, <2>3, BusyAttempt DEF StepsAgree, RowLater, HasIntent
  <2> QED
    BY <2>1, <2>2, <2>3
<1>3. ex'[e].pc \in {"DISPATCHED", "WAITING", "ANSWERED", "REJECTED"} => att'[b].dispatched
  <2>1. CASE Reserves(e)
    BY <2>1 DEF Reserves, Follows
  <2>2. ASSUME ex'[e].pc \in {"DISPATCHED", "WAITING", "ANSWERED", "REJECTED"},
               ~Reserves(e)
        PROVE  b = a /\ ex[e].pc \in {"DISPATCHED", "WAITING", "ANSWERED", "REJECTED"}
    BY <1>0, <2>2 DEF Advances, Follows, TakesLease, TakesOver, Commits, Hears
  <2> QED
    BY <1>0, <2>1, <2>2, BusyAttempt DEF StepsAgree, RowLater
<1>4. ASSUME ex'[e].pc \in {"DISPATCHED", "REJECTED"}
      PROVE  \E c \in Attempts : c = b /\ Unposted(c)'
  <2>1. b = a /\ (Reserves(e) \/ ex[e].pc \in {"DISPATCHED", "REJECTED"})
    BY <1>0, <1>4 DEF Advances, Follows, TakesLease, TakesOver, Commits, Hears, Reserves
  <2>2. a \in Attempts /\ Driving(e)
    BY <2>1, BusyAttempt DEF Driving, Reserves, Follows
  <2> PICK c \in Attempts : c = a
    BY <2>2
  <2>3. Unposted(c)
    <3>1. CASE Reserves(e)
      BY <3>1 DEF Reserves, DInv, RowAgrees, PostingsAgree
    <3> QED
      BY <1>0, <2>1, <3>1 DEF StepsAgree
  <2>4. ASSUME NEW f \in Executors, CallGateway(f), ex[f].att = a PROVE FALSE
    <3>1. f = e
      BY <2>2, <2>4 DEF CallGateway, DInv, SingleDriver, Driving
    <3>2. \E pc \in {"WAITING", "UNCERTAIN"} : Goto(e, pc) /\ ex[e].pc # "IDLE"
      BY <2>4, <3>1 DEF CallGateway
    <3>3. ex'[e].pc \in {"WAITING", "UNCERTAIN"}
      BY <3>2, JumpFollows DEF IInv, Follows
    <3> QED
      BY <1>4, <3>3
  <2>5. Unposted(c)'
    BY <2>3, <2>4, UnpostedStays
  <2> QED
    BY <2>1, <2>5
<1>5. ex'[e].pc = "ANSWERED" => sent'[b] = 1
  <2>1. CASE Hears(e)
    BY <2>1 DEF Hears, Follows, DInv, PostingsAgree
  <2>2. ASSUME ex'[e].pc = "ANSWERED", ~Hears(e)
        PROVE  sent[b] = 1 /\ b \in Attempts
    <3>1. b = a /\ ex[e].pc = "ANSWERED"
      BY <1>0, <2>2 DEF Advances, Follows, TakesLease, TakesOver, Commits, Reserves
    <3> QED
      BY <1>0, <3>1, BusyAttempt DEF StepsAgree
  <2>3. ASSUME NEW c \in Attempts, sent[c] = 1 PROVE sent'[c] = 1
    <3>1. CASE GatewaySend
      BY <2>3, <3>1, SendsFirst DEF IInv, TypeOK
    <3> QED
      BY <2>3, <3>1, OneSend
  <2> QED
    BY <2>1, <2>2, <2>3
<1>6. ex'[e].pc = "VERIFYING" => att'[b].state = "VERIFYING" \/ att'[b].state \in TerminalStates
  <2>1. CASE TakesOver(e)
    BY <2>1 DEF TakesOver
  <2>2. ASSUME ex'[e].pc = "VERIFYING", ~TakesOver(e)
        PROVE  b = a /\ ex[e].pc = "VERIFYING"
    BY <1>0, <2>2 DEF Advances, Follows, TakesLease, Commits, Reserves, Hears
  <2> QED
    BY <1>0, <2>1, <2>2, BusyAttempt DEF StepsAgree, RowLater, Terminal
<1>7. ex'[e].pc \in {"DISPATCHED", "REJECTED"} => Unposted(ex[e].att)'
  BY <1>4 DEF Unposted
<1> HIDE DEF a
<1> QED
  BY <1>1, <1>2, <1>3, <1>5, <1>6, <1>7 DEF StepsAgree, HasIntent, Terminal, Leasing

\* Two leases of one attempt differ: a claim counts beyond every lease taken before.
LEMMA LeasesStep ==
    ASSUME IInv, DInv, [Next]_vars
    PROVE  LeasesDiffer'
<1> SUFFICES ASSUME NEW e \in Executors, NEW f \in Executors, e # f,
                    Leasing(e)', Leasing(f)', ex'[e].att = ex'[f].att
             PROVE  ex'[e].gen # ex'[f].gen
  BY DEF LeasesDiffer, Leasing
<1>1. /\ ex'[e] = ex[e] \/ (Advances(e) /\ ex'[f] = ex[f])
      /\ ex'[f] = ex[f] \/ (Advances(f) /\ ex'[e] = ex[e])
  BY ExecutorsMove DEF OneExecutorMoves
<1>2. ASSUME NEW g \in Executors, NEW h \in Executors, TakesLease(g), ex'[h] = ex[h],
             Leasing(h)', ex'[g].att = ex'[h].att
      PROVE  ex'[g].gen # ex'[h].gen
  <2>1. ex'[g].gen = att[ex[h].att].gen + 1
    BY <1>2 DEF TakesLease
  <2>2. Leasing(h) /\ ex[h].gen <= att[ex[h].att].gen
    BY <1>2 DEF Leasing, DInv, StepsAgree
  <2>3. ex[h].gen \in Nat /\ att[ex[h].att].gen \in Nat
    BY <2>2, BusyAttempt DEF Leasing
  <2> QED
    BY <1>2, <2>1, <2>2, <2>3
<1>3. CASE TakesLease(e) /\ ex'[f] = ex[f]
  BY <1>2, <1>3
<1>4. CASE TakesLease(f) /\ ex'[e] = ex[e]
  <2>1. ex'[f].gen # ex'[e].gen
    BY <1>2, <1>4
  <2> QED
    BY <2>1
<1>5. ASSUME NEW g \in {e, f}, ~(TakesLease(e) /\ ex'[f] = ex[f]),
             ~(TakesLease(f) /\ ex'[e] = ex[e])
      PROVE  Leasing(g) /\ ex'[g].att = ex[g].att /\ ex'[g].gen = ex[g].gen
  BY <1>1, <1>5, LeasesContinue DEF Leasing
<1> QED
  BY <1>3, <1>4, <1>5 DEF DInv, LeasesDiffer

\* An attempt keeps a single driver: its intent is committed once, when nobody drives it.
LEMMA DriverStep ==
    ASSUME IInv, DInv, [Next]_vars
    PROVE  SingleDriver'
<1> SUFFICES ASSUME NEW e \in Executors, NEW f \in Executors, e # f,
                    Driving(e)', Driving(f)', ex'[e].att = ex'[f].att
             PROVE  FALSE
  BY DEF SingleDriver, Driving
<1>1. /\ ex'[e] = ex[e] \/ (Advances(e) /\ ex'[f] = ex[f])
      /\ ex'[f] = ex[f] \/ (Advances(f) /\ ex'[e] = ex[e])
  BY ExecutorsMove DEF OneExecutorMoves
<1>2. ASSUME NEW g \in Executors, NEW h \in Executors, Commits(g), ex'[h] = ex[h],
             Driving(h)', ex'[g].att = ex'[h].att
      PROVE  FALSE
  <2>1. att[ex[h].att].state = "AUTHORIZED"
    BY <1>2 DEF Commits, Follows
  <2>2. Driving(h) /\ HasIntent(ex[h].att)
    BY <1>2 DEF Driving, DInv, StepsAgree, Leasing
  <2>3. ex[h].att \in Attempts
    BY <2>2, BusyAttempt DEF Driving
  <2> QED
    BY <2>1, <2>2, <2>3 DEF DInv, RowAgrees, HasIntent
<1>3. CASE Commits(e) /\ ex'[f] = ex[f]
  BY <1>2, <1>3
<1>4. CASE Commits(f) /\ ex'[e] = ex[e]
  <2>1. ex'[f].att = ex'[e].att
    OBVIOUS
  <2> QED
    BY <1>2, <1>4, <2>1
<1>5. ASSUME NEW g \in {e, f}, ~(Commits(e) /\ ex'[f] = ex[f]),
             ~(Commits(f) /\ ex'[e] = ex[e])
      PROVE  Driving(g) /\ ex'[g].att = ex[g].att
  BY <1>1, <1>5, DriversContinue DEF Driving
<1> QED
  BY <1>3, <1>4, <1>5 DEF DInv, SingleDriver, Driving

\* A fresh deployment has no drivers and nothing sent.
LEMMA DriversInit == Init => DInv
<1> SUFFICES ASSUME Init PROVE DInv
  OBVIOUS
<1>1. \A a \in Attempts : /\ att[a] = AbsentAttempt /\ Unposted(a) /\ sent[a] = 0
  BY DEF Init, Unposted, IdleGateway
<1>2. /\ AbsentAttempt.state = "ABSENT" /\ AbsentAttempt.intentAt = NoTime
      /\ AbsentAttempt.dispatched = FALSE /\ AbsentAttempt.count = "ZERO"
  BY DEF AbsentAttempt
<1>3. \A e \in Executors : ex[e].pc = "IDLE"
  BY DEF Init, IdleExecutor
<1>4. \A a \in Attempts : RowAgrees(a)
  BY <1>1, <1>2 DEF RowAgrees
<1>5. /\ \A e \in Executors : StepsAgree(e)
      /\ LeasesDiffer /\ SingleDriver
  BY <1>3 DEF StepsAgree, LeasesDiffer, SingleDriver, Leasing
<1>6. PostingsAgree /\ CountIsTrue
  BY <1>1, <1>2 DEF PostingsAgree, CountIsTrue, Init, IdleGateway
<1> QED
  BY <1>4, <1>5, <1>6 DEF DInv

\* Both invariants hold in every reachable state.
THEOREM DriversHold == Spec => [](IInv /\ DInv)
<1>1. Init => IInv /\ DInv
  BY InvariantInit, DriversInit
<1>2. IInv /\ DInv /\ [Next]_vars => IInv' /\ DInv'
  <2> SUFFICES ASSUME IInv, DInv, [Next]_vars PROVE IInv' /\ DInv'
    OBVIOUS
  <2>1. IInv'
    BY TypeStep, EngagedStep, AuthorityStep, EarnedStep DEF IInv
  <2>2. DInv'
    BY RowsAgree, StepsStep, LeasesStep, DriverStep, PostingsStep, CountStep DEF DInv
  <2> QED
    BY <2>1, <2>2
<1> QED
  BY <1>1, <1>2, PTL DEF Spec

\* Past the intent an attempt has one driver, whatever leases expire and are claimed anew.
THEOREM OneDriver == Spec => []SingleDriver
<1>1. IInv /\ DInv => SingleDriver
  BY DEF DInv
<1> QED
  BY <1>1, DriversHold, PTL

\* The stored forward_write_count never lies about the writes that were sent.
THEOREM CountsAreTrue == Spec => []CountIsTrue
<1>1. IInv /\ DInv => CountIsTrue
  BY DEF DInv
<1> QED
  BY <1>1, DriversHold, PTL

--------------------------------------------------------------------------------
(* Intents *)

\* The table changes in one row at most, so a row that changes is the one replaced.
LEMMA TheRowReplaced ==
    ASSUME TypeOK, NEW a \in Attempts, NEW b \in Attempts, NEW row,
           att' = [att EXCEPT ![b] = row], att'[a] # att[a]
    PROVE  a = b /\ att'[a] = row
BY DEF TypeOK

\* Only commit_write_intent gives an authorized attempt its intent.
LEMMA IntentsAreCommitted ==
    ASSUME IInv, DInv, [Next]_vars, NEW a \in Attempts, Committed(a)
    PROVE  \E e \in Executors : /\ CommitIntent(e) /\ ex[e].att = a
                                /\ IntentVerdict(a, ex[e].obs) = "BOUND"
<1>0. /\ TypeOK /\ \A b \in Attempts : att[b] \in AttemptRows
      /\ att[a].state = "AUTHORIZED" /\ att'[a].state = "WRITE_INTENT_COMMITTED"
      /\ att'[a] # att[a]
  BY DEF IInv, TypeOK, Committed
<1>1. ASSUME NEW b \in Attempts, NEW state, NEW count, state # "WRITE_INTENT_COMMITTED",
             att' = [att EXCEPT ![b] = Closed(att[b], state, count)]
      PROVE  FALSE
  BY <1>0, <1>1, ClosingGoes, TheRowReplaced DEF Goes
<1>2. ASSUME NEW b \in Attempts, NEW row, att[b].state # "AUTHORIZED",
             att' = [att EXCEPT ![b] = row]
      PROVE  FALSE
  BY <1>0, <1>2, TheRowReplaced
<1>3. CASE Api
  <2>1. ASSUME NEW b \in Attempts, Cancel(b) \/ ReconcileExpired(b) PROVE FALSE
    BY <1>1, <2>1 DEF Cancel, ReconcileExpired
  <2>2. ASSUME NEW b \in Attempts, NEW p \in Approvals, CreateAttempt(b, p) PROVE FALSE
    BY <1>2, <2>2 DEF CreateAttempt
  <2> QED
    BY <1>0, <1>3, <2>1, <2>2 DEF Api, Approve, Revoke, ReadForCreate
<1>4. CASE Gateway \/ Environment \/ UNCHANGED vars
  BY <1>0, <1>4
  DEF Gateway, GatewayAccept, GatewayConsume, GatewayClear, GatewaySend, GatewayReadback,
      Environment, Tick, Drift, RetireBaseline, GatewayCrash, ExecutorCrash, ApiCrash,
      Crash, vars
<1>5. ASSUME NEW e \in Executors, Executor(e)
      PROVE  /\ CommitIntent(e) /\ ex[e].att = a
             /\ IntentVerdict(a, ex[e].obs) = "BOUND"
  <2>1. ASSUME NEW b \in Attempts, Claim(e, b) PROVE FALSE
    <3> DEFINE row == [att[b] EXCEPT !.gen = att[b].gen + 1,
                           !.leaseExp = Least(now + LeaseTerm, att[b].authExp)]
    <3>1. row.state = att[b].state /\ att[b].state = "AUTHORIZED"
          /\ att' = [att EXCEPT ![b] = row]
      BY <1>0, <2>1 DEF AttemptRows, Claim
    <3> HIDE DEF row
    <3> QED
      BY <1>0, <3>1, TheRowReplaced
  <2>2. ASSUME NEW b \in Attempts, ClaimExpired(e, b) PROVE FALSE
    BY <1>1, <2>2 DEF ClaimExpired
  <2>3. ASSUME NEW b \in Attempts, StartVerify(e, b) PROVE FALSE
    <3>1. /\ att[b].state = "APPLIED"
          /\ att' = [att EXCEPT ![b] = [att[b] EXCEPT !.state = "VERIFYING",
                         !.gen = att[b].gen + 1,
                         !.leaseExp = Least(now + VerifyTerm, MaxTime)]]
      BY <2>3 DEF StartVerify
    <3> QED
      BY <1>2, <3>1
  <2>4. ASSUME Reserve(e) \/ PersistReceipt(e) PROVE FALSE
    <3> DEFINE b == ex[e].att
    <3>1. b \in Attempts
      BY <1>0, <2>4, BusyExecutor DEF Reserve, PersistReceipt
    <3>2. \/ UNCHANGED att
          \/ att[b].state # "AUTHORIZED" /\ \E row : att' = [att EXCEPT ![b] = row]
      BY <2>4 DEF Reserve, PersistReceipt, MayReserve
    <3> QED
      BY <1>0, <1>2, <3>1, <3>2
  <2>5. ASSUME MarkUnknown(e) \/ FinishVerify(e) PROVE FALSE
    <3> DEFINE b == ex[e].att
    <3>1. b \in Attempts
      BY <1>0, <2>5, BusyExecutor DEF MarkUnknown, FinishVerify
    <3>2. \/ UNCHANGED att
          \/ \E state \in {"OUTCOME_UNKNOWN", "RECOVERED", "VERIFICATION_FAILED"} :
             \E count : att' = [att EXCEPT ![b] = Closed(att[b], state, count)]
      BY <2>5 DEF MarkUnknown, FinishVerify
    <3> QED
      BY <1>0, <1>1, <3>1, <3>2
  <2>6. ASSUME CommitIntent(e)
        PROVE  ex[e].att = a /\ IntentVerdict(a, ex[e].obs) = "BOUND"
    <3> DEFINE b == ex[e].att
               verdict == IntentVerdict(b, ex[e].obs)
    <3>1. b \in Attempts
      BY <1>0, <2>6, BusyExecutor DEF CommitIntent
    <3>2. \/ verdict = "BOUND" /\ \E row : att' = [att EXCEPT ![b] = row]
          \/ att' = [att EXCEPT ![b] = Closed(att[b], verdict, att[b].count)]
      BY <2>6 DEF CommitIntent
    <3>3. verdict # "WRITE_INTENT_COMMITTED"
      BY DEF IntentVerdict, StateVerdict
    <3>4. verdict = "BOUND" /\ \E row : att' = [att EXCEPT ![b] = row]
      <4> HIDE DEF verdict, b
      <4> QED
        BY <1>1, <3>1, <3>2, <3>3
    <3>5. a = b
      BY <1>0, <3>1, <3>4, TheRowReplaced
    <3> QED
      BY <3>4, <3>5
  <2> QED
    BY <1>0, <1>5, <2>1, <2>2, <2>3, <2>4, <2>5, <2>6
    DEF Executor, Reconcile, ResumeVerify, ReadForIntent, LoseLease, ReadForReserve,
        CallGateway, AdapterRejects, CallFails
<1> QED
  BY <1>3, <1>4, <1>5 DEF Next

\* An intent is committed under the latest lease and a live approval, on a readback of
\* the fault that is younger than the authorization, and nobody else holds the lease.
THEOREM IntentsAreCurrent == Spec => IntentIsCurrent
<1>1. ASSUME IInv, DInv, [Next]_vars, NEW a \in Attempts, ~HasIntent(a), HasIntent(a)'
      PROVE  \E e \in Executors :
                 /\ ex[e].att = a /\ HoldsLease(e)
                 /\ ex[e].obs.config = "FAULT"
                 /\ att[a].authIss < ex[e].obs.at
                 /\ ApprovalActive(att[a].approval)
                 /\ \A f \in Executors \ {e} : ex[f].att = a => ~HoldsLease(f)
  <2>0. TypeOK
    BY <1>1 DEF IInv
  <2>1. Committed(a)
    <3>1. att'[a] # att[a] /\ ~Steady(a) /\ att'[a].intentAt # NoTime
          /\ att'[a].intentAt # att[a].intentAt
      BY <1>1 DEF HasIntent, Steady
    <3> QED
      BY <1>1, <3>1, RowKinds
      DEF RowStep, Created, Claimed, Refused, Reserved, Confirmed, Disproved, GivenUp,
          Examined, Concluded, Goes
  <2>2. PICK e \in Executors : /\ CommitIntent(e) /\ ex[e].att = a
                               /\ IntentVerdict(a, ex[e].obs) = "BOUND"
    BY <1>1, <2>1, IntentsAreCommitted
  <2>3. ex[e].pc = "INTENT_READ" /\ HoldsLease(e)
    BY <2>2 DEF CommitIntent
  <2>4. ex[e].obs \in Observations /\ att[a].authIss \in Int
    BY <2>0, <2>3, BusyExecutor DEF TypeOK, AttemptRows
  <2>5. /\ ~(ex[e].obs.at <= att[a].authIss)
        /\ StateVerdict(att[a].approval, ex[e].obs) = "BOUND"
        /\ ApprovalActive(att[a].approval)
    <3>1. /\ ApprovalStatus(att[a].approval) # "REVOKED"
          /\ ApprovalStatus(att[a].approval) # "EXPIRED"
          /\ ~(ex[e].obs.at <= att[a].authIss)
          /\ StateVerdict(att[a].approval, ex[e].obs) = "BOUND"
      BY <2>2 DEF IntentVerdict
    <3> QED
      BY <3>1 DEF ApprovalActive, ApprovalStatus
  <2>6. ex[e].obs.config = "FAULT"
    BY <2>4, <2>5 DEF StateVerdict, Observations
  <2>7. att[a].authIss < ex[e].obs.at
    BY <2>4, <2>5 DEF Observations
  <2>8. ASSUME NEW f \in Executors \ {e}, ex[f].att = a PROVE ~HoldsLease(f)
    <3>1. ex[f].pc # "IDLE"
      BY <2>0, <2>8, NamesAssumption DEF TypeOK, ExecutorRows, IdleExecutor, ExecutorPCs
    <3>2. Leasing(f) /\ Leasing(e)
      BY <1>1, <2>3, <2>8, <3>1 DEF DInv, StepsAgree, Leasing
    <3>3. ex[f].gen # ex[e].gen
      BY <1>1, <2>2, <2>8, <3>2 DEF DInv, LeasesDiffer
    <3> QED
      BY <2>2, <2>3, <2>8, <3>3 DEF HoldsLease
  <2> QED
    BY <2>2, <2>3, <2>5, <2>6, <2>7, <2>8
<1>2. IInv /\ DInv /\ [Next]_vars => [\A a \in Attempts : ~HasIntent(a) /\ HasIntent(a)' =>
           \E e \in Executors :
               /\ ex[e].att = a /\ HoldsLease(e)
               /\ ex[e].obs.config = "FAULT"
               /\ att[a].authIss < ex[e].obs.at
               /\ ApprovalActive(att[a].approval)
               /\ \A f \in Executors \ {e} : ex[f].att = a => ~HoldsLease(f)]_vars
  BY <1>1
<1> QED
  BY <1>2, DriversHold, PTL DEF Spec, IntentIsCurrent

--------------------------------------------------------------------------------
(* The promise *)

Stages == [a \in Attempts |-> Stage(a)]
Spent == {p \in Approvals : Consumed(p)}

\* A row whose state changes moves the stage of its attempt alone.
LEMMA StageMoves ==
    ASSUME NEW a \in Attempts, \A b \in Attempts \ {a} : att'[b] = att[b],
           NEW v, Stages'[a] = v
    PROVE  Stages' = [Stages EXCEPT ![a] = v]
<1>1. \A b \in Attempts \ {a} : Stages'[b] = Stages[b]
  BY DEF Stages, Stage
<1>2. Stages = [b \in Attempts |-> Stages[b]] /\ Stages' = [b \in Attempts |-> Stages'[b]]
  BY DEF Stages
<1> QED
  BY <1>1, <1>2

\* Approvals stay spent and unspent while no attempt gains or loses its authority.
LEMMA SpentStays ==
    ASSUME NEW a \in Attempts, \A b \in Attempts \ {a} : att'[b] = att[b],
           \/ att'[a].approval = att[a].approval /\ att'[a].authIss = att[a].authIss
           \/ att'[a].authIss = NoTime /\ att[a].authIss = NoTime
    PROVE  Spent' = Spent
<1>1. \A p \in Approvals, b \in Attempts :
          (Authorized(b) /\ att[b].approval = p) <=> (Authorized(b)' /\ att'[b].approval = p)
  BY DEF Authorized
<1>2. \A p \in Approvals : Consumed(p) <=> Consumed(p)'
  BY <1>1 DEF Consumed
<1> QED
  BY <1>2 DEF Spent

\* A new authority spends its approval.
LEMMA SpentGrows ==
    ASSUME NEW a \in Attempts, \A b \in Attempts \ {a} : att'[b] = att[b],
           att[a].authIss = NoTime, att'[a].authIss # NoTime,
           NEW p \in Approvals, att'[a].approval = p
    PROVE  Spent' = Spent \cup {p}
<1>1. \A q \in Approvals, b \in Attempts \ {a} :
          (Authorized(b) /\ att[b].approval = q) <=> (Authorized(b)' /\ att'[b].approval = q)
  BY DEF Authorized
<1>2. ~Authorized(a) /\ Authorized(a)'
  BY DEF Authorized
<1>3. \A q \in Approvals : Consumed(q)' <=> Consumed(q) \/ q = p
  BY <1>1, <1>2 DEF Consumed
<1> QED
  BY <1>3 DEF Spent

\* Every move of a row is a step of the promise or invisible in it.
LEMMA MovesKeepPromise ==
    ASSUME IInv, NEW a \in Attempts, RowStep(a),
           \A b \in Attempts \ {a} : att'[b] = att[b], UNCHANGED sent
    PROVE  Promise!Next \/ UNCHANGED <<Stages, Spent, sent>>
<1> DEFINE Kept == att'[a].approval = att[a].approval /\ att'[a].authIss = att[a].authIss
<1>0. \A b \in Attempts : Stages[b] = Stage(b)
  BY DEF Stages
<1>1. ASSUME NEW from, NEW to, Stages[a] \in from, Stages'[a] = to
      PROVE  Promise!Move(a, from, to)
  BY <1>1, StageMoves DEF Promise!Move, Stages
<1>2. ASSUME Kept PROVE UNCHANGED <<Spent, sent>>
  BY <1>2, SpentStays
<1>3. ASSUME Stages'[a] = Stages[a], Kept PROVE UNCHANGED <<Stages, Spent, sent>>
  <2>1. Stages' = [Stages EXCEPT ![a] = Stages[a]] /\ Stages = [b \in Attempts |-> Stages[b]]
    BY <1>3, StageMoves DEF Stages
  <2> QED
    BY <1>2, <1>3, <2>1
<1>4. ASSUME Promise!Step(a) PROVE Promise!Next
  BY <1>4 DEF Promise!Next
<1>5. CASE Created(a)
  <2>1. Stages[a] = "none" /\ att[a].authIss = NoTime
    BY <1>5 DEF Created, Stages, Stage, IInv, WriteIsEarned, AuthorityHeld, Authorized
  <2>2. CASE att'[a].state \in DenialStates /\ att'[a].authIss = NoTime
    <3>1. Stages'[a] = "refused"
      BY <2>2 DEF Stages, Stage, DenialStates
    <3>2. Promise!Refuse(a)
      BY <1>1, <2>1, <2>2, <3>1, SpentStays DEF Promise!Refuse, Spent
    <3> QED
      BY <1>4, <3>2 DEF Promise!Step
  <2>3. CASE /\ att'[a].state = "AUTHORIZED" /\ att'[a].authIss # NoTime
             /\ att'[a].approval \in Approvals /\ ~Consumed(att'[a].approval)
             /\ \A b \in Attempts : ~Active(b)
    <3>1. Stages'[a] = "authorized"
      BY <2>3 DEF Stages, Stage
    <3> PICK p \in Approvals : p = att'[a].approval
      BY <2>3
    <3>2. p \notin Spent /\ Spent' = Spent \cup {p}
      BY <2>1, <2>3, SpentGrows DEF Spent
    <3>3. \A b \in Attempts : Stages[b] \notin Promise!Open
      BY <2>3 DEF Active, ActiveStates, Stages, Stage, Promise!Open
    <3>4. Promise!Authorize(a, p)
      BY <1>1, <2>1, <3>1, <3>2, <3>3 DEF Promise!Authorize, Spent, Stages
    <3> QED
      BY <1>4, <3>4 DEF Promise!Step
  <2> QED
    BY <1>5, <2>2, <2>3 DEF Created
<1>6. CASE Claimed(a) \/ Reserved(a) \/ Examined(a)
  <2>1. Kept
    BY <1>6 DEF Claimed, Reserved, Examined, Steady
  <2>2. Stages'[a] = Stages[a]
    BY <1>6 DEF Claimed, Reserved, Examined, Stages, Stage
  <2> QED
    BY <1>3, <2>1, <2>2
<1>7. CASE Refused(a)
  <2>1. Kept /\ Stages[a] = "authorized"
    BY <1>7 DEF Refused, Goes, Steady, Stages, Stage
  <2>2. Stages'[a] = "refused"
    BY <1>7 DEF Refused, Goes, Stages, Stage, NoWriteStates, DenialStates
  <2>3. Promise!Refuse(a)
    BY <1>1, <1>2, <2>1, <2>2 DEF Promise!Refuse, Spent
  <2> QED
    BY <1>4, <2>3 DEF Promise!Step
<1>8. CASE Committed(a)
  <2>1. Kept /\ Stages[a] = "authorized" /\ Stages'[a] = "doubtful"
    BY <1>8 DEF Committed, Stages, Stage
  <2>2. Promise!Commit(a)
    BY <1>1, <1>2, <2>1 DEF Promise!Commit, Spent
  <2> QED
    BY <1>4, <2>2 DEF Promise!Step
<1>9. CASE Confirmed(a)
  <2>1. /\ Kept /\ Stages[a] = "doubtful" /\ Stages'[a] = "applied"
        /\ sent[a] = 1
    BY <1>9 DEF Confirmed, Goes, Steady, Stages, Stage
  <2>2. Promise!Confirm(a)
    BY <1>1, <1>2, <2>1 DEF Promise!Confirm, Spent
  <2> QED
    BY <1>4, <2>2 DEF Promise!Step
<1>10. CASE Disproved(a)
  <2>1. /\ Kept /\ Stages[a] = "doubtful" /\ Stages'[a] = "failed"
        /\ sent[a] = 0
    BY <1>10 DEF Disproved, Goes, Steady, Stages, Stage
  <2>2. Promise!Disprove(a)
    BY <1>1, <1>2, <2>1 DEF Promise!Disprove, Spent
  <2> QED
    BY <1>4, <2>2 DEF Promise!Step
<1>11. CASE GivenUp(a)
  <2>1. Kept /\ Stages[a] \in {"doubtful", "applied"} /\ Stages'[a] = "unknown"
    BY <1>11 DEF GivenUp, Goes, Steady, Stages, Stage
  <2>2. Promise!GiveUp(a)
    BY <1>1, <1>2, <2>1 DEF Promise!GiveUp, Spent
  <2> QED
    BY <1>4, <2>2 DEF Promise!Step
<1>12. CASE Concluded(a)
  <2>1. Kept /\ Stages[a] = "applied" /\ Stages'[a] \in {"recovered", "unrecovered"}
    BY <1>12 DEF Concluded, Goes, Steady, Stages, Stage
  <2>2. Promise!Conclude(a)
    BY <1>1, <1>2, <2>1 DEF Promise!Conclude, Spent
  <2> QED
    BY <1>4, <2>2 DEF Promise!Step
<1> QED
  BY <1>5, <1>6, <1>7, <1>8, <1>9, <1>10, <1>11, <1>12 DEF RowStep

\* Executors, gateway and API together do what BoundedWrite promises: authority once per
\* approval and on a free target, one write while in doubt, and a true and final verdict.
THEOREM PromiseIsKept == Spec => KeepsPromise
<1>1. Init => Promise!Init
  <2> SUFFICES ASSUME Init PROVE Promise!Init
    OBVIOUS
  <2>1. \A a \in Attempts : att[a].state = "ABSENT" /\ ~Authorized(a)
    BY DEF Init, AbsentAttempt, Authorized
  <2>2. \A a \in Attempts : Stage(a) = "none"
    BY <2>1 DEF Stage
  <2>3. {p \in Approvals : Consumed(p)} = {}
    BY <2>1 DEF Consumed
  <2> QED
    BY <2>2, <2>3 DEF Promise!Init, Init
<1>2. ASSUME IInv, DInv, [Next]_vars
      PROVE  Promise!Next \/ UNCHANGED <<Stages, Spent, sent>>
  <2>1. CASE GatewaySend
    <3> PICK a \in Attempts : a = gw.att
      BY <1>2, <2>1, SendsFirst
    <3>1. /\ att[a].state = "EXECUTING" /\ sent[a] = 0
          /\ sent' = [sent EXCEPT ![a] = 1] /\ UNCHANGED att
      BY <1>2, <2>1, SendsFirst
    <3>2. Stages[a] = "doubtful" /\ UNCHANGED <<Stages, Spent>>
      BY <3>1 DEF Stages, Stage, Spent, Consumed, Authorized
    <3>3. Promise!Write(a)
      BY <3>1, <3>2 DEF Promise!Write, Stages, Spent
    <3> QED
      BY <3>3 DEF Promise!Next, Promise!Step
  <2>2. CASE ~GatewaySend
    <3>1. UNCHANGED sent
      BY <1>2, <2>2, OneSend
    <3>2. CASE UNCHANGED att
      BY <3>1, <3>2 DEF Stages, Stage, Spent, Consumed, Authorized
    <3> QED
      BY <1>2, <3>1, <3>2, RowsMove, MovesKeepPromise DEF OneRowMoves
  <2> QED
    BY <2>1, <2>2
<1>3. IInv /\ DInv /\ [Next]_vars => [Promise!Next]_(Promise!vars)
  BY <1>2 DEF Promise!vars, Stages, Spent
<1> QED
  BY <1>1, <1>3, DriversHold, PTL DEF Spec, KeepsPromise, Promise!Spec

\* An attempt that was applied, recovered or not, has written once; one that was refused
\* or failed has not written and will not.  This follows from the promise alone.
THEOREM VerdictsAreTrue == Spec => []Promise!VerdictIsTrue
<1>1. Promise!Init => Promise!VerdictIsTrue
  BY DEF Promise!Init, Promise!VerdictIsTrue
<1>2. ASSUME IInv, Promise!VerdictIsTrue, [Promise!Next]_(Promise!vars)
      PROVE  Promise!VerdictIsTrue'
  <2> DEFINE True(b) ==
          /\ Stages[b] \in {"applied", "recovered", "unrecovered"} => sent[b] = 1
          /\ Stages[b] \in {"none", "authorized", "refused", "failed"} => sent[b] = 0
  <2>1. Promise!VerdictIsTrue <=> \A b \in Attempts : True(b)
    BY DEF Promise!VerdictIsTrue, Stages
  <2>2. Promise!VerdictIsTrue' <=> \A b \in Attempts : True(b)'
    BY DEF Promise!VerdictIsTrue, Stages
  <2>3. sent \in [Attempts -> Nat] /\ Stages = [b \in Attempts |-> Stages[b]]
    BY <1>2 DEF IInv, TypeOK, Stages
  <2>4. CASE UNCHANGED Promise!vars
    BY <1>2, <2>1, <2>2, <2>4 DEF Promise!vars, Stages
  <2>5. ASSUME NEW a \in Attempts, NEW from, NEW to, Promise!Move(a, from, to), UNCHANGED sent,
               Stages[a] \in from /\ to \in {"applied", "recovered", "unrecovered"} => sent[a] = 1,
               Stages[a] \in from /\ to \in {"none", "authorized", "refused", "failed"} => sent[a] = 0
        PROVE  Promise!VerdictIsTrue'
    <3>1. Stages[a] \in from /\ Stages' = [Stages EXCEPT ![a] = to]
      BY <2>5 DEF Promise!Move, Stages
    <3> QED
      BY <1>2, <2>1, <2>2, <2>3, <2>5, <3>1
  <2>6. ASSUME NEW a \in Attempts, Promise!Write(a) PROVE Promise!VerdictIsTrue'
    <3>1. Stages[a] = "doubtful" /\ sent' = [sent EXCEPT ![a] = 1] /\ Stages' = Stages
      BY <2>6 DEF Promise!Write, Stages
    <3> QED
      BY <1>2, <2>1, <2>2, <2>3, <3>1
  <2>7. \A a \in Attempts : True(a)
    BY <1>2, <2>1
  <2>8. ASSUME NEW a \in Attempts, Promise!Step(a) PROVE Promise!VerdictIsTrue'
    <3>1. ASSUME Promise!Move(a, {"none"}, "authorized"), UNCHANGED sent
          PROVE  Promise!VerdictIsTrue'
      BY <2>5, <2>7, <3>1
    <3>2. ASSUME Promise!Refuse(a) PROVE Promise!VerdictIsTrue'
      BY <2>5, <2>7, <3>2 DEF Promise!Refuse
    <3>3. ASSUME Promise!Commit(a) \/ Promise!GiveUp(a) PROVE Promise!VerdictIsTrue'
      BY <2>5, <3>3 DEF Promise!Commit, Promise!GiveUp
    <3>4. ASSUME Promise!Confirm(a) PROVE Promise!VerdictIsTrue'
      BY <2>5, <3>4 DEF Promise!Confirm
    <3>5. ASSUME Promise!Disprove(a) PROVE Promise!VerdictIsTrue'
      BY <2>5, <3>5 DEF Promise!Disprove
    <3>6. ASSUME Promise!Conclude(a) PROVE Promise!VerdictIsTrue'
      BY <2>5, <2>7, <3>6 DEF Promise!Conclude
    <3> QED
      BY <2>6, <2>8, <3>1, <3>2, <3>3, <3>4, <3>5, <3>6 DEF Promise!Step, Promise!Authorize
  <2> QED
    BY <1>2, <2>4, <2>8 DEF Promise!Next
<1> QED
  BY <1>1, <1>2, DriversHold, PromiseIsKept, PTL DEF KeepsPromise, Promise!Spec

--------------------------------------------------------------------------------
(* Writes and approvals *)

\* Authority names its approval.
AuthorityIsNamed == \A a \in Attempts : Authorized(a) => att[a].approval \in Approvals

\* There are no more writes than approvals that were consumed.
WritesAreBought == Cardinality({a \in Attempts : sent[a] > 0}) <= Cardinality(Spent)

\* No step gives authority without an approval.
LEMMA AuthorityIsNamedStep ==
    ASSUME IInv, DInv, AuthorityIsNamed, [Next]_vars
    PROVE  AuthorityIsNamed'
<1>1. CASE UNCHANGED att
  BY <1>1 DEF AuthorityIsNamed, Authorized
<1>2. ASSUME NEW a \in Attempts, RowStep(a), \A b \in Attempts \ {a} : att'[b] = att[b]
      PROVE  AuthorityIsNamed'
  <2>1. \/ att'[a].authIss = NoTime
        \/ att'[a].approval \in Approvals
        \/ att'[a].authIss = att[a].authIss /\ att'[a].approval = att[a].approval
    BY <1>2 DEF RowStep, Created, Claimed, Refused, Committed, Reserved, Confirmed, Disproved,
                GivenUp, Examined, Concluded, Goes, Steady
  <2> QED
    BY <1>2, <2>1 DEF AuthorityIsNamed, Authorized
<1> QED
  BY <1>1, <1>2, RowsMove DEF OneRowMoves

\* External writes are bought with approvals, one for one: the number of writes never
\* exceeds the number of approvals consumed, whatever was retried, repeated or restarted.
THEOREM WritesStayBought ==
    ASSUME IsFiniteSet(Approvals)
    PROVE  Spec => []WritesAreBought
<1>1. Init => AuthorityIsNamed
  BY DEF Init, AbsentAttempt, AuthorityIsNamed, Authorized
<1>2. IInv /\ DInv /\ AuthorityIsNamed /\ [Next]_vars => AuthorityIsNamed'
  BY AuthorityIsNamedStep
<1>3. ASSUME IInv, AtMostOneWrite, AuthorityIsNamed PROVE WritesAreBought
  <2> DEFINE Written == {a \in Attempts : sent[a] > 0}
             Price == [a \in Written |-> att[a].approval]
  <2>1. \A a \in Written : att[a].approval \in Spent
    <3>1. \A a \in Written : Authorized(a)
      BY <1>3 DEF IInv, WriteIsEarned, LedgerAhead, AuthorityHeld
    <3> QED
      BY <1>3, <3>1 DEF AuthorityIsNamed, Spent, Consumed
  <2>2. Price \in Injection(Written, Spent)
    <3>1. \A a, b \in Written : att[a].approval = att[b].approval => a = b
      BY <1>3 DEF AtMostOneWrite
    <3>2. Price \in [Written -> Spent] /\ IsInjective(Price)
      BY <2>1, <3>1 DEF IsInjective
    <3> QED
      BY <3>2 DEF Injection
  <2>3. IsFiniteSet(Spent)
    <3>1. Spent \subseteq Approvals
      BY DEF Spent
    <3> QED
      BY <3>1, FS_Subset
  <2> HIDE DEF Written, Price
  <2>4. Cardinality(Written) <= Cardinality(Spent)
    BY <2>2, <2>3, FS_Injection
  <2> QED
    BY <2>4 DEF Written, WritesAreBought
<1> QED
  BY <1>1, <1>2, <1>3, DriversHold, OneWritePerApproval, PTL DEF Spec
================================================================================
