--------------------------- MODULE RemediationProofs ---------------------------
(***************************************************************************)
(* Theorems about Remediation, for every set of attempts, approvals and     *)
(* executors and every value of the terms and bounds.                       *)
(***************************************************************************)
EXTENDS Remediation, TLAPS

--------------------------------------------------------------------------------
(* Type correctness *)

\* An authorization ends by the end of its approval: min(now + term, approval expiry)
\* never leaves the range of the clock (create, claim).
LEMMA LeastInRange ==
    ASSUME NEW m \in Nat, NEW k \in Nat, NEW n \in 0..k
    PROVE  Least(m, n) \in 0..k
BY DEF Least

\* What a reader can return at any moment is a well-formed observation, the unreadable
\* one included (read_current, _capture).
LEMMA ReadbacksAreObservations ==
    ASSUME TypeOK
    PROVE  Readbacks \subseteq Observations
BY TermsAssumption DEF TypeOK, Readbacks, Observations, Unread, NoTime, Configs

\* The update that closes an attempt (_deny and its siblings) leaves a well-formed row.
LEMMA ClosedIsRow ==
    ASSUME NEW row \in AttemptRows, NEW state \in States, NEW count \in WriteCounts
    PROVE  Closed(row, state, count) \in AttemptRows
BY DEF AttemptRows, Closed, NoTime

\* The row create() inserts before its verdict is well-formed and carries no authority.
LEMMA DraftRow ==
    ASSUME NEW p \in Approvals
    PROVE  LET row == [AbsentAttempt EXCEPT !.approval = p]
           IN row \in AttemptRows /\ row.approval = p /\ row.authIss = NoTime
<1>1. AbsentAttempt \in AttemptRows /\ AbsentAttempt.authIss = NoTime
  BY TermsAssumption DEF AttemptRows, AbsentAttempt, States, WriteCounts, NoTime
<1> HIDE DEF AbsentAttempt
<1> QED BY <1>1 DEF AttemptRows

\* The empty tables and idle processes of a fresh deployment are well-typed.
THEOREM TypeInit == Init => TypeOK
BY NamesAssumption, TermsAssumption
DEF Init, TypeOK, Configs, ApprovalRows, AttemptRows, ExecutorRows, GatewayRows,
    AbsentApproval, AbsentAttempt, IdleExecutor, IdleGateway, States, WriteCounts,
    ExecutorPCs, GatewayPCs, Observations, Unread, NoTime

\* Every transaction of the API process (approve, revoke, create, cancel, reconcile)
\* leaves well-typed rows.
LEMMA ApiTypes ==
    ASSUME TypeOK, Api
    PROVE  TypeOK'
<1>1. ASSUME NEW p \in Approvals, Approve(p) PROVE TypeOK'
  BY <1>1, TermsAssumption DEF TypeOK, Approve, ApprovalRows
<1>2. ASSUME NEW p \in Approvals, Revoke(p) PROVE TypeOK'
  BY <1>2 DEF TypeOK, Revoke, ApprovalRows
<1>3. ASSUME NEW a \in Attempts, ReadForCreate(a) PROVE TypeOK'
  BY <1>3, ReadbacksAreObservations DEF TypeOK, ReadForCreate
<1>4. ASSUME NEW a \in Attempts, Cancel(a) PROVE TypeOK'
  <2>1. att[a] \in AttemptRows /\ att[a].count \in WriteCounts
    BY DEF TypeOK, AttemptRows
  <2>2. Closed(att[a], "CANCELLED_BEFORE_WRITE", att[a].count) \in AttemptRows
    BY <2>1, ClosedIsRow DEF States, TerminalStates, NoWriteStates
  <2> QED BY <1>4, <2>2 DEF TypeOK, Cancel
<1>5. ASSUME NEW a \in Attempts, ReconcileExpired(a) PROVE TypeOK'
  <2>1. att[a] \in AttemptRows /\ att[a].count \in WriteCounts
    BY DEF TypeOK, AttemptRows
  <2>2. Closed(att[a], "OUTCOME_UNKNOWN", att[a].count) \in AttemptRows
    BY <2>1, ClosedIsRow DEF States, TerminalStates
  <2> QED BY <1>5, <2>2 DEF TypeOK, ReconcileExpired
<1>6. ASSUME NEW a \in Attempts, NEW p \in Approvals, CreateAttempt(a, p)
      PROVE  TypeOK'
  <2> DEFINE verdict == CreateVerdict(p, pending[a])
             row == [AbsentAttempt EXCEPT !.approval = p]
             authorized == [row EXCEPT !.state = "AUTHORIZED", !.authIss = now,
                                       !.authExp = Least(now + AuthTerm,
                                                         approvals[p].expires)]
             denied == [row EXCEPT !.state = verdict]
  <2>1. verdict \in DenialStates \cup {"BOUND"}
    BY DEF CreateVerdict, StateVerdict, DenialStates
  <2>2. row \in AttemptRows
    BY DraftRow
  <2>3. verdict # "BOUND" => denied \in AttemptRows
    <3>1. verdict # "BOUND" => verdict \in States
      BY <2>1 DEF States, TerminalStates, NoWriteStates
    <3> HIDE DEF verdict, row
    <3> QED BY <2>2, <3>1 DEF AttemptRows
  <2>4. authorized \in AttemptRows
    <3>1. approvals[p].expires \in 0..MaxTime /\ now + AuthTerm \in Nat
          /\ MaxTime \in Nat /\ now \in 0..MaxTime
      BY TermsAssumption DEF TypeOK, ApprovalRows
    <3>2. Least(now + AuthTerm, approvals[p].expires) \in 0..MaxTime
      BY <3>1, LeastInRange
    <3>3. "AUTHORIZED" \in States
      BY DEF States, ActiveStates
    <3> HIDE DEF row
    <3> QED BY <2>2, <3>1, <3>2, <3>3 DEF AttemptRows
  <2>5. att' = [att EXCEPT ![a] = IF verdict = "BOUND" THEN authorized ELSE denied]
    BY <1>6 DEF CreateAttempt
  <2>6. att' \in [Attempts -> AttemptRows]
    BY <2>3, <2>4, <2>5 DEF TypeOK
  <2> QED BY <1>6, <2>6 DEF TypeOK, CreateAttempt
<1> QED BY <1>1, <1>2, <1>3, <1>4, <1>5, <1>6 DEF Api

\* Replacing one attempt by a well-formed row keeps the table well-formed.
LEMMA AttKeepsType ==
    ASSUME TypeOK, NEW a \in Attempts, NEW row \in AttemptRows,
           att' = [att EXCEPT ![a] = row]
    PROVE  att' \in [Attempts -> AttemptRows]
BY DEF TypeOK

\* So does closing one attempt, as every terminal update of the code does.
LEMMA CloseKeepsType ==
    ASSUME TypeOK, NEW a \in Attempts, NEW state \in States, NEW count \in WriteCounts,
           att' = [att EXCEPT ![a] = Closed(att[a], state, count)]
    PROVE  att' \in [Attempts -> AttemptRows]
<1>1. Closed(att[a], state, count) \in AttemptRows
  BY ClosedIsRow DEF TypeOK
<1> QED BY <1>1 DEF TypeOK

\* What is known of an executor that is past its claim.
LEMMA BusyExecutor ==
    ASSUME TypeOK, NEW e \in Executors, ex[e].pc # "IDLE"
    PROVE  /\ ex[e] \in [pc : ExecutorPCs, att : Attempts, gen : Nat,
                         obs : Observations]
           /\ ex[e].att \in Attempts
           /\ att[ex[e].att] \in AttemptRows
BY DEF TypeOK, ExecutorRows, IdleExecutor

\* A busy executor that moves to its next step keeps well-typed locals (run_one).
LEMMA GotoKeepsType ==
    ASSUME TypeOK, NEW e \in Executors, ex[e].pc # "IDLE",
           NEW pc \in ExecutorPCs, Goto(e, pc)
    PROVE  ex' \in [Executors -> ExecutorRows]
<1>1. [ex[e] EXCEPT !.pc = pc] \in ExecutorRows
  BY BusyExecutor DEF ExecutorRows
<1> QED BY <1>1 DEF TypeOK, Goto

\* An executor that ends its round keeps well-typed locals (executor_main).
LEMMA ReturnKeepsType ==
    ASSUME TypeOK, NEW e \in Executors, Return(e)
    PROVE  ex' \in [Executors -> ExecutorRows]
BY DEF TypeOK, Return, ExecutorRows

\* Every step of an executor, from claim to the recovery verdict, leaves every row and
\* local well-typed.
LEMMA ExecutorTypes ==
    ASSUME TypeOK, NEW e \in Executors, Executor(e)
    PROVE  TypeOK'
<1>0. Unread \in Observations
  BY TermsAssumption DEF Observations, Unread, NoTime
<1>1. ASSUME NEW a \in Attempts, Claim(e, a) PROVE TypeOK'
  <2>1. Least(now + LeaseTerm, att[a].authExp) \in Nat /\ att[a].gen + 1 \in Nat
    BY TermsAssumption DEF TypeOK, AttemptRows, Least
  <2>2. att' \in [Attempts -> AttemptRows]
    <3>1. att[a] \in AttemptRows
      BY DEF TypeOK
    <3>2. \A gen, leaseExp \in Nat :
              [att[a] EXCEPT !.gen = gen, !.leaseExp = leaseExp] \in AttemptRows
      BY <3>1 DEF AttemptRows
    <3> DEFINE row == [att[a] EXCEPT !.gen = att[a].gen + 1,
                                     !.leaseExp = Least(now + LeaseTerm, att[a].authExp)]
    <3>3. row \in AttemptRows
      BY <2>1, <3>2
    <3>4. att' = [att EXCEPT ![a] = row]
      BY <1>1 DEF Claim, TypeOK
    <3> HIDE DEF row
    <3> QED BY <3>3, <3>4, AttKeepsType
  <2>3. ex' \in [Executors -> ExecutorRows]
    BY <1>0, <1>1, <2>1 DEF TypeOK, Claim, ExecutorRows, ExecutorPCs
  <2> QED BY <1>1, <2>2, <2>3 DEF TypeOK, Claim
<1>2. ASSUME NEW a \in Attempts, ClaimExpired(e, a) PROVE TypeOK'
  <2>1. att' \in [Attempts -> AttemptRows]
    BY <1>2, CloseKeepsType
    DEF TypeOK, ClaimExpired, AttemptRows, States, TerminalStates, NoWriteStates,
        DenialStates
  <2> QED BY <1>2, <2>1 DEF TypeOK, ClaimExpired
<1>3. ASSUME NEW a \in Attempts, Reconcile(e, a) PROVE TypeOK'
  BY <1>3, ReadbacksAreObservations
  DEF TypeOK, Reconcile, ExecutorRows, ExecutorPCs
<1>4. ASSUME NEW a \in Attempts, StartVerify(e, a) PROVE TypeOK'
  <2>1. Least(now + VerifyTerm, MaxTime) \in Nat /\ att[a].gen + 1 \in Nat
    BY TermsAssumption DEF TypeOK, AttemptRows, Least
  <2>2. att' \in [Attempts -> AttemptRows]
    BY <1>4, <2>1 DEF TypeOK, StartVerify, AttemptRows, States, ActiveStates
  <2>3. ex' \in [Executors -> ExecutorRows]
    BY <1>0, <1>4, <2>1 DEF TypeOK, StartVerify, ExecutorRows, ExecutorPCs
  <2> QED BY <1>4, <2>2, <2>3 DEF TypeOK, StartVerify
<1>5. ASSUME NEW a \in Attempts, ResumeVerify(e, a) PROVE TypeOK'
  <2>1. att[a].gen \in Nat
    BY DEF TypeOK, AttemptRows
  <2> QED BY <1>0, <1>5, <2>1
          DEF TypeOK, ResumeVerify, ExecutorRows, ExecutorPCs
<1>6. ASSUME ReadForIntent(e) PROVE TypeOK'
  <2>1. PICK obs \in Observations :
            ex' = [ex EXCEPT ![e].pc = "INTENT_READ", ![e].obs = obs]
    BY <1>6, ReadbacksAreObservations DEF ReadForIntent
  <2>2. [ex[e] EXCEPT !.pc = "INTENT_READ", !.obs = obs] \in ExecutorRows
    BY <1>6, BusyExecutor DEF ReadForIntent, ExecutorRows, ExecutorPCs
  <2>3. ex' \in [Executors -> ExecutorRows]
    BY <2>1, <2>2 DEF TypeOK
  <2> QED BY <1>6, <2>3 DEF TypeOK, ReadForIntent
<1>7. ASSUME LoseLease(e) PROVE TypeOK'
  BY <1>7, ReturnKeepsType DEF TypeOK, LoseLease
<1>8. ASSUME CommitIntent(e) PROVE TypeOK'
  <2> DEFINE a == ex[e].att
             verdict == IntentVerdict(a, ex[e].obs)
             row == [att[a] EXCEPT !.state = "WRITE_INTENT_COMMITTED",
                                   !.intentAt = now]
  <2>0. /\ ex[e].pc # "IDLE"
        /\ a \in Attempts
        /\ att[a] \in AttemptRows
    BY <1>8, BusyExecutor DEF CommitIntent
  <2>1. verdict \in DenialStates \cup {"BOUND"}
    BY DEF IntentVerdict, StateVerdict, DenialStates
  <2>2. row \in AttemptRows
    <3>1. now \in 0..MaxTime
      BY TermsAssumption DEF TypeOK
    <3> QED BY <2>0, <3>1 DEF AttemptRows, States, ActiveStates
  <2>3. CASE verdict = "BOUND"
    <3>1. att' = [att EXCEPT ![a] = row] /\ Goto(e, "COMMITTED")
      BY <1>8, <2>3 DEF CommitIntent
    <3>2. att' \in [Attempts -> AttemptRows]
      BY <2>0, <2>2, <3>1, AttKeepsType
    <3>3. ex' \in [Executors -> ExecutorRows]
      BY <2>0, <3>1, GotoKeepsType DEF ExecutorPCs
    <3> QED BY <1>8, <3>2, <3>3 DEF TypeOK, CommitIntent
  <2>4. CASE verdict # "BOUND"
    <3>1. /\ att' = [att EXCEPT ![a] = Closed(att[a], verdict, att[a].count)]
          /\ Return(e)
      BY <1>8, <2>4 DEF CommitIntent
    <3>2. verdict \in States /\ att[a].count \in WriteCounts
      BY <2>0, <2>1, <2>4 DEF States, TerminalStates, NoWriteStates, AttemptRows
    <3>3. att' \in [Attempts -> AttemptRows]
      BY <2>0, <3>1, <3>2, CloseKeepsType
    <3>4. ex' \in [Executors -> ExecutorRows]
      BY <3>1, ReturnKeepsType
    <3> QED BY <1>8, <3>3, <3>4 DEF TypeOK, CommitIntent
  <2> QED BY <2>3, <2>4
<1>9. ASSUME ReadForReserve(e) PROVE TypeOK'
  <2>1. PICK obs \in Observations :
            ex' = [ex EXCEPT ![e].obs = obs,
                             ![e].pc = IF obs = Unread THEN "UNCERTAIN"
                                       ELSE "RESERVE_READ"]
    BY <1>9, ReadbacksAreObservations DEF ReadForReserve
  <2>2. \A pc \in ExecutorPCs :
            [ex[e] EXCEPT !.obs = obs, !.pc = pc] \in ExecutorRows
    BY <1>9, BusyExecutor DEF ReadForReserve, ExecutorRows
  <2>3. ex' \in [Executors -> ExecutorRows]
    BY <2>1, <2>2 DEF TypeOK, ExecutorPCs
  <2> QED BY <1>9, <2>3 DEF TypeOK, ReadForReserve
<1>10. ASSUME Reserve(e) PROVE TypeOK'
  <2> DEFINE a == ex[e].att
             row == [att[a] EXCEPT !.state = "EXECUTING", !.dispatched = TRUE,
                                   !.count = "UNKNOWN"]
  <2>0. /\ ex[e].pc # "IDLE"
        /\ a \in Attempts
        /\ att[a] \in AttemptRows
    BY <1>10, BusyExecutor DEF Reserve
  <2>1. row \in AttemptRows
    BY <2>0 DEF AttemptRows, States, ActiveStates, WriteCounts
  <2>2. ex' \in [Executors -> ExecutorRows]
    BY <1>10, <2>0, GotoKeepsType DEF Reserve, ExecutorPCs
  <2>3. CASE att' = [att EXCEPT ![a] = row]
    BY <1>10, <2>0, <2>1, <2>2, <2>3, AttKeepsType DEF TypeOK, Reserve
  <2>4. CASE UNCHANGED att
    BY <1>10, <2>2, <2>4 DEF TypeOK, Reserve
  <2> QED BY <1>10, <2>3, <2>4 DEF Reserve
<1>11. ASSUME CallGateway(e) PROVE TypeOK'
  <2>0. ex[e].pc # "IDLE" /\ ex[e].att \in Attempts
    BY <1>11, BusyExecutor DEF CallGateway
  <2>1. ex' \in [Executors -> ExecutorRows]
    BY <1>11, <2>0, GotoKeepsType DEF CallGateway, ExecutorPCs
  <2> QED BY <1>11, <2>0, <2>1 DEF TypeOK, CallGateway
<1>12. ASSUME AdapterRejects(e) PROVE TypeOK'
  <2> DEFINE row == [ex[e] EXCEPT !.pc = "REJECTED",
                                  !.obs = [at |-> now, config |-> "FAULT"]]
  <2>1. [at |-> now, config |-> "FAULT"] \in Observations
    BY TermsAssumption DEF TypeOK, Observations
  <2>2. row \in ExecutorRows
    BY <1>12, <2>1, BusyExecutor DEF AdapterRejects, ExecutorRows, ExecutorPCs
  <2>3. ex' \in [Executors -> ExecutorRows]
    BY <1>12, <2>2 DEF TypeOK, AdapterRejects
  <2> QED BY <1>12, <2>3 DEF TypeOK, AdapterRejects
<1>13. ASSUME CallFails(e) PROVE TypeOK'
  <2>1. ex' \in [Executors -> ExecutorRows]
    BY <1>13, GotoKeepsType DEF CallFails, ExecutorPCs
  <2> QED BY <1>13, <2>1 DEF TypeOK, CallFails
<1>14. ASSUME PersistReceipt(e) PROVE TypeOK'
  <2> DEFINE a == ex[e].att
             applied == [Closed(att[a], "APPLIED", "ONE") EXCEPT !.receipt = "APPLIED"]
             failed == [Closed(att[a], "EXECUTION_FAILED", "ZERO")
                            EXCEPT !.receipt = "FAILED"]
  <2>0. /\ ex[e].pc # "IDLE"
        /\ a \in Attempts
        /\ att[a] \in AttemptRows
    BY <1>14, BusyExecutor DEF PersistReceipt
  <2>1. applied \in AttemptRows /\ failed \in AttemptRows
    BY <2>0 DEF Closed, AttemptRows, States, ActiveStates, TerminalStates,
                WriteCounts, NoTime
  <2>2. ex' \in [Executors -> ExecutorRows]
    BY <1>14, <2>0, GotoKeepsType, ReturnKeepsType DEF PersistReceipt, ExecutorPCs
  <2>3. CASE att' = [att EXCEPT ![a] = applied]
    BY <1>14, <2>0, <2>1, <2>2, <2>3, AttKeepsType DEF TypeOK, PersistReceipt
  <2>4. CASE att' = [att EXCEPT ![a] = failed]
    BY <1>14, <2>0, <2>1, <2>2, <2>4, AttKeepsType DEF TypeOK, PersistReceipt
  <2>5. CASE UNCHANGED att
    BY <1>14, <2>2, <2>5 DEF TypeOK, PersistReceipt
  <2> QED BY <1>14, <2>3, <2>4, <2>5 DEF PersistReceipt
<1>15. ASSUME MarkUnknown(e) PROVE TypeOK'
  <2> DEFINE a == ex[e].att
             count == IF att[a].state = "EXECUTING" THEN "UNKNOWN" ELSE att[a].count
  <2>0. a \in Attempts /\ count \in WriteCounts
    BY <1>15, BusyExecutor DEF MarkUnknown, AttemptRows, WriteCounts
  <2>1. ex' \in [Executors -> ExecutorRows]
    BY <1>15, ReturnKeepsType DEF MarkUnknown
  <2>2. CASE att' = [att EXCEPT ![a] = Closed(att[a], "OUTCOME_UNKNOWN", count)]
    <3>1. att' \in [Attempts -> AttemptRows]
      BY <2>0, <2>2, CloseKeepsType DEF States, TerminalStates
    <3> QED BY <1>15, <2>1, <3>1 DEF TypeOK, MarkUnknown
  <2>3. CASE UNCHANGED att
    BY <1>15, <2>1, <2>3 DEF TypeOK, MarkUnknown
  <2> QED BY <1>15, <2>2, <2>3 DEF MarkUnknown
<1>16. ASSUME FinishVerify(e) PROVE TypeOK'
  <2> DEFINE a == ex[e].att
  <2>0. a \in Attempts /\ att[a].count \in WriteCounts
    BY <1>16, BusyExecutor DEF FinishVerify, AttemptRows
  <2>1. ex' \in [Executors -> ExecutorRows]
    BY <1>16, ReturnKeepsType DEF FinishVerify
  <2>2. ASSUME NEW verdict \in {"RECOVERED", "VERIFICATION_FAILED"},
               att' = [att EXCEPT ![a] = Closed(att[a], verdict, att[a].count)]
        PROVE  TypeOK'
    <3>1. att' \in [Attempts -> AttemptRows]
      BY <2>0, <2>2, CloseKeepsType DEF States, TerminalStates
    <3> QED BY <1>16, <2>1, <3>1 DEF TypeOK, FinishVerify
  <2>3. CASE UNCHANGED att
    BY <1>16, <2>1, <2>3 DEF TypeOK, FinishVerify
  <2> QED BY <1>16, <2>2, <2>3 DEF FinishVerify
<1> QED
  BY <1>1, <1>2, <1>3, <1>4, <1>5, <1>6, <1>7, <1>8, <1>9, <1>10, <1>11, <1>12,
     <1>13, <1>14, <1>15, <1>16 DEF Executor

\* Every step of restore() in the control gateway leaves lock, ledger, requests and
\* responses well-typed.
LEMMA GatewayTypes ==
    ASSUME TypeOK, Gateway
    PROVE  TypeOK'
<1>1. ASSUME NEW r \in requests, GatewayAccept(r) PROVE TypeOK'
  <2>1. r \in [att : Attempts, caller : Executors \cup {NoOne}]
    BY DEF TypeOK
  <2>2. requests' \subseteq [att : Attempts, caller : Executors \cup {NoOne}]
    BY <1>1, <2>1 DEF TypeOK, GatewayAccept
  <2>3. gw' \in GatewayRows
    BY <1>1, <2>1 DEF TypeOK, GatewayAccept, GatewayRows, GatewayPCs
  <2> QED BY <1>1, <2>2, <2>3 DEF TypeOK, GatewayAccept
<1>2. ASSUME gw.pc # "IDLE"
      PROVE  /\ gw \in [pc : GatewayPCs, att : Attempts,
                        caller : Executors \cup {NoOne}]
             /\ IdleGateway \in GatewayRows
  BY <1>2 DEF TypeOK, GatewayRows, IdleGateway
<1>3. ASSUME GatewayConsume PROVE TypeOK'
  BY <1>2, <1>3 DEF TypeOK, GatewayConsume, GatewayRows, GatewayPCs
<1>4. ASSUME GatewayClear PROVE TypeOK'
  BY <1>2, <1>4 DEF TypeOK, GatewayClear, GatewayRows, GatewayPCs
<1>5. ASSUME GatewaySend PROVE TypeOK'
  BY <1>2, <1>5 DEF TypeOK, GatewaySend, GatewayRows, GatewayPCs, Configs
<1>6. ASSUME GatewayReadback PROVE TypeOK'
  <2> DEFINE answer == [at |-> now, config |-> "BASELINE"]
  <2>1. answer \in Observations
    BY TermsAssumption DEF TypeOK, Observations
  <2>2. ASSUME NEW e \in Executors, ex[e].pc = "WAITING"
        PROVE  [ex[e] EXCEPT !.pc = "ANSWERED", !.obs = answer] \in ExecutorRows
    BY <2>1, <2>2, BusyExecutor DEF ExecutorRows, ExecutorPCs
  <2>3. ex' \in [Executors -> ExecutorRows]
    <3> HIDE DEF answer
    <3>1. CASE UNCHANGED ex
      BY <3>1 DEF TypeOK
    <3>2. CASE ex' = [e \in Executors |->
                 IF e = gw.caller /\ ex[e].pc = "WAITING" /\ ex[e].att = gw.att
                 THEN [ex[e] EXCEPT !.pc = "ANSWERED", !.obs = answer]
                 ELSE ex[e]]
      BY <2>2, <3>2 DEF TypeOK
    <3> QED BY <1>6, <3>1, <3>2 DEF GatewayReadback, answer
  <2> QED BY <1>6, <1>2, <2>3 DEF TypeOK, GatewayReadback
<1> QED BY <1>1, <1>3, <1>4, <1>5, <1>6 DEF Gateway

\* The clock, changes of the configuration by others, and crashes keep the types.
LEMMA EnvironmentTypes ==
    ASSUME TypeOK, Environment
    PROVE  TypeOK'
<1>1. CASE Tick
  BY <1>1, TermsAssumption DEF TypeOK, Tick
<1>2. CASE Drift
  BY <1>2 DEF TypeOK, Drift
<1>3. CASE RetireBaseline
  BY <1>3 DEF TypeOK, RetireBaseline
<1>4. ASSUME Crash PROVE crashes' \in 0..MaxCrashes
  BY <1>4, TermsAssumption DEF TypeOK, Crash
<1>5. CASE GatewayCrash
  <2>1. Crash
    BY <1>5 DEF GatewayCrash
  <2> QED BY <1>5, <1>4, <2>1 DEF TypeOK, GatewayCrash, Crash, GatewayRows
<1>6. ASSUME NEW e \in Executors, ExecutorCrash(e) PROVE TypeOK'
  <2>1. Crash /\ ex' \in [Executors -> ExecutorRows]
    BY <1>6, ReturnKeepsType DEF ExecutorCrash
  <2> QED BY <1>6, <1>4, <2>1 DEF TypeOK, ExecutorCrash, Crash
<1>7. ASSUME NEW a \in Attempts, ApiCrash(a) PROVE TypeOK'
  <2>1. Crash
    BY <1>7 DEF ApiCrash
  <2> QED BY <1>7, <1>4, <2>1 DEF TypeOK, ApiCrash, Crash
<1> QED BY <1>1, <1>2, <1>3, <1>5, <1>6, <1>7 DEF Environment

\* Every step of the system, and every stutter, keeps the types.
LEMMA TypeStep ==
    ASSUME TypeOK, [Next]_vars
    PROVE  TypeOK'
<1>1. ASSUME UNCHANGED vars PROVE TypeOK'
  BY <1>1 DEF TypeOK, vars
<1> QED BY <1>1, ApiTypes, ExecutorTypes, GatewayTypes, EnvironmentTypes DEF Next

\* The processes keep every variable in its range: no transition of any process stores
\* a state, a count or a time that the attempt contract does not allow.
THEOREM TypeCorrect == Spec => []TypeOK
<1>1. Init => TypeOK
  BY TypeInit
<1>2. TypeOK /\ [Next]_vars => TypeOK'
  BY TypeStep
<1> QED BY <1>1, <1>2, PTL DEF Spec

--------------------------------------------------------------------------------
(* What a step can do to the attempts *)

\* An attempt neither changes its authority nor becomes active again, and a terminal one
\* is left alone.
Onward(a) ==
    /\ att'[a].approval = att[a].approval
    /\ att'[a].authIss = att[a].authIss
    /\ att'[a].state = "ABSENT" <=> att[a].state = "ABSENT"
    /\ att'[a].state \in ActiveStates => att[a].state \in ActiveStates
    /\ att[a].state \in TerminalStates => att'[a] = att[a]

\* An active state is not terminal, and neither is the state of a row that does not
\* exist (TERMINAL_STATES).
LEMMA StatesDisjoint ==
    /\ \A s \in ActiveStates : s \notin TerminalStates /\ s # "ABSENT"
    /\ \A s \in TerminalStates : s # "ABSENT"
BY DEF ActiveStates, TerminalStates, NoWriteStates, DenialStates

\* An update that keeps approval and authorization of an active attempt, and moves it to
\* an active or terminal state, only moves the table onward.
LEMMA MovingIsOnward ==
    ASSUME TypeOK, NEW a \in Attempts, att[a].state \in ActiveStates,
           NEW row, att' = [att EXCEPT ![a] = row],
           row.approval = att[a].approval, row.authIss = att[a].authIss,
           row.state \in ActiveStates \cup TerminalStates
    PROVE  \A b \in Attempts : Onward(b)
<1> SUFFICES ASSUME NEW b \in Attempts PROVE Onward(b)
  OBVIOUS
<1>1. CASE b # a
  <2>1. att'[b] = att[b]
    BY <1>1 DEF TypeOK
  <2> QED BY <2>1 DEF Onward
<1>2. CASE b = a
  <2>1. att'[b] = row
    BY <1>2 DEF TypeOK
  <2> QED BY <1>2, <2>1, StatesDisjoint DEF Onward
<1> QED BY <1>1, <1>2

\* The terminal update touches neither the approval nor the authorization of the row,
\* with or without a receipt.
LEMMA ClosedFields ==
    ASSUME NEW row \in AttemptRows, NEW state, NEW count, NEW receipt
    PROVE  LET closed == Closed(row, state, count)
               answered == [Closed(row, state, count) EXCEPT !.receipt = receipt]
           IN /\ closed.approval = row.approval /\ answered.approval = row.approval
              /\ closed.authIss = row.authIss /\ answered.authIss = row.authIss
              /\ closed.state = state /\ answered.state = state
BY DEF AttemptRows, Closed

\* So closing an active attempt moves the table onward.
LEMMA ClosingIsOnward ==
    ASSUME TypeOK, NEW a \in Attempts, att[a].state \in ActiveStates,
           NEW state \in ActiveStates \cup TerminalStates, NEW count,
           att' = [att EXCEPT ![a] = Closed(att[a], state, count)]
    PROVE  \A b \in Attempts : Onward(b)
<1>1. att[a] \in AttemptRows
  BY DEF TypeOK
<1> DEFINE row == Closed(att[a], state, count)
<1>2. row.approval = att[a].approval /\ row.authIss = att[a].authIss
      /\ row.state = state
  BY <1>1 DEF Closed, AttemptRows
<1> HIDE DEF row
<1> QED BY <1>2, MovingIsOnward DEF row

\* A step that writes no attempt moves the table onward, trivially.
LEMMA StillIsOnward ==
    ASSUME UNCHANGED att
    PROVE  \A a \in Attempts : Onward(a)
BY DEF Onward

\* A busy executor works on an attempt that exists.
Engaged == \A e \in Executors : ex[e].pc # "IDLE" => att[ex[e].att].state # "ABSENT"

\* No executor step creates authority or revives an attempt: claim, intent, reservation,
\* receipt, reconciliation and verification all move the table onward.
LEMMA ExecutorIsOnward ==
    ASSUME TypeOK, Engaged, NEW e \in Executors, Executor(e)
    PROVE  \A a \in Attempts : Onward(a)
<1>0. \A a \in Attempts : att[a] \in AttemptRows
  BY DEF TypeOK
<1>1. ASSUME NEW a \in Attempts, Claim(e, a)
      PROVE  \A b \in Attempts : Onward(b)
  <2> DEFINE row == [att[a] EXCEPT !.gen = att[a].gen + 1,
                                   !.leaseExp = Least(now + LeaseTerm, att[a].authExp)]
  <2>1. /\ row.approval = att[a].approval
        /\ row.authIss = att[a].authIss
        /\ row.state = att[a].state
    BY <1>0 DEF AttemptRows
  <2>2. att[a].state \in ActiveStates /\ att' = [att EXCEPT ![a] = row]
    BY <1>1 DEF Claim, ActiveStates
  <2> QED BY <2>1, <2>2, MovingIsOnward
<1>2. ASSUME NEW a \in Attempts, ClaimExpired(e, a)
      PROVE  \A b \in Attempts : Onward(b)
  BY <1>2, ClosingIsOnward
  DEF ClaimExpired, ActiveStates, TerminalStates, NoWriteStates, DenialStates
<1>3. ASSUME NEW a \in Attempts, Reconcile(e, a) \/ ResumeVerify(e, a)
      PROVE  \A b \in Attempts : Onward(b)
  BY <1>3, StillIsOnward DEF Reconcile, ResumeVerify
<1>4. ASSUME NEW a \in Attempts, StartVerify(e, a)
      PROVE  \A b \in Attempts : Onward(b)
  <2> DEFINE row == [att[a] EXCEPT !.state = "VERIFYING", !.gen = att[a].gen + 1,
                                   !.leaseExp = Least(now + VerifyTerm, MaxTime)]
  <2>1. /\ row.approval = att[a].approval
        /\ row.authIss = att[a].authIss
        /\ row.state = "VERIFYING"
    BY <1>0 DEF AttemptRows
  <2>2. att[a].state \in ActiveStates /\ att' = [att EXCEPT ![a] = row]
    BY <1>4 DEF StartVerify, ActiveStates
  <2> QED BY <2>1, <2>2, MovingIsOnward DEF ActiveStates
<1>5. ASSUME \/ ReadForIntent(e) \/ LoseLease(e) \/ ReadForReserve(e)
             \/ CallGateway(e) \/ AdapterRejects(e) \/ CallFails(e)
      PROVE  \A b \in Attempts : Onward(b)
  BY <1>5, StillIsOnward
  DEF ReadForIntent, LoseLease, ReadForReserve, CallGateway, AdapterRejects, CallFails
<1>6. ASSUME CommitIntent(e) PROVE \A b \in Attempts : Onward(b)
  <2> DEFINE a == ex[e].att
             verdict == IntentVerdict(a, ex[e].obs)
             row == [att[a] EXCEPT !.state = "WRITE_INTENT_COMMITTED",
                                   !.intentAt = now]
  <2>1. a \in Attempts /\ att[a].state \in ActiveStates
    BY <1>6, BusyExecutor DEF CommitIntent, ActiveStates
  <2>2. CASE att' = [att EXCEPT ![a] = row]
    <3>1. /\ row.approval = att[a].approval
          /\ row.authIss = att[a].authIss
          /\ row.state = "WRITE_INTENT_COMMITTED"
      BY <1>0, <2>1 DEF AttemptRows
    <3> QED BY <2>1, <2>2, <3>1, MovingIsOnward DEF ActiveStates
  <2>3. CASE /\ verdict # "BOUND"
             /\ att' = [att EXCEPT ![a] = Closed(att[a], verdict, att[a].count)]
    <3>1. verdict \in TerminalStates
      BY <2>3 DEF IntentVerdict, StateVerdict, TerminalStates, NoWriteStates,
                  DenialStates
    <3> QED BY <2>1, <2>3, <3>1, ClosingIsOnward
  <2> QED BY <1>6, <2>2, <2>3 DEF CommitIntent
<1>7. ASSUME Reserve(e) PROVE \A b \in Attempts : Onward(b)
  <2> DEFINE a == ex[e].att
             row == [att[a] EXCEPT !.state = "EXECUTING", !.dispatched = TRUE,
                                   !.count = "UNKNOWN"]
  <2>1. CASE UNCHANGED att
    BY <2>1, StillIsOnward
  <2>2. CASE MayReserve(e) /\ att' = [att EXCEPT ![a] = row]
    <3>1. a \in Attempts /\ att[a].state \in ActiveStates
      BY <1>7, <2>2, BusyExecutor DEF Reserve, MayReserve, ActiveStates
    <3>2. /\ row.approval = att[a].approval
          /\ row.authIss = att[a].authIss
          /\ row.state = "EXECUTING"
      BY <1>0, <3>1 DEF AttemptRows
    <3> QED BY <2>2, <3>1, <3>2, MovingIsOnward DEF ActiveStates
  <2> QED BY <1>7, <2>1, <2>2 DEF Reserve
<1>8. ASSUME PersistReceipt(e) PROVE \A b \in Attempts : Onward(b)
  <2> DEFINE a == ex[e].att
             applied == [Closed(att[a], "APPLIED", "ONE") EXCEPT !.receipt = "APPLIED"]
             failed == [Closed(att[a], "EXECUTION_FAILED", "ZERO")
                            EXCEPT !.receipt = "FAILED"]
  <2>1. a \in Attempts /\ att[a] \in AttemptRows
    BY <1>8, BusyExecutor DEF PersistReceipt
  <2>2. \/ UNCHANGED att
        \/ /\ att[a].state \in ActiveStates
           /\ att' = [att EXCEPT ![a] = applied] \/ att' = [att EXCEPT ![a] = failed]
    BY <1>8 DEF PersistReceipt, ActiveStates
  <2>3. /\ applied.approval = att[a].approval /\ failed.approval = att[a].approval
        /\ applied.authIss = att[a].authIss /\ failed.authIss = att[a].authIss
        /\ applied.state = "APPLIED" /\ failed.state = "EXECUTION_FAILED"
    BY <2>1, ClosedFields
  <2>4. "APPLIED" \in ActiveStates /\ "EXECUTION_FAILED" \in TerminalStates
    BY DEF ActiveStates, TerminalStates
  <2> HIDE DEF a, applied, failed
  <2> QED BY <2>1, <2>2, <2>3, <2>4, StillIsOnward, MovingIsOnward
<1>9. ASSUME MarkUnknown(e) PROVE \A b \in Attempts : Onward(b)
  <2> DEFINE a == ex[e].att
             count == IF att[a].state = "EXECUTING" THEN "UNKNOWN" ELSE att[a].count
  <2>1. a \in Attempts
    BY <1>9, BusyExecutor DEF MarkUnknown
  <2>2. \/ UNCHANGED att
        \/ /\ att[a].state \in ActiveStates
           /\ att' = [att EXCEPT ![a] = Closed(att[a], "OUTCOME_UNKNOWN", count)]
    BY <1>9 DEF MarkUnknown
  <2>3. "OUTCOME_UNKNOWN" \in TerminalStates
    BY DEF TerminalStates
  <2> HIDE DEF a, count
  <2> QED BY <2>1, <2>2, <2>3, StillIsOnward, ClosingIsOnward
<1>10. ASSUME FinishVerify(e) PROVE \A b \in Attempts : Onward(b)
  <2> DEFINE a == ex[e].att
  <2>1. a \in Attempts /\ att[a].state # "ABSENT"
    BY <1>10, BusyExecutor DEF FinishVerify, Engaged
  <2>2. att[a].state \in ActiveStates \cup TerminalStates
    BY <2>1 DEF TypeOK, AttemptRows, States
  <2>3. \/ UNCHANGED att
        \/ /\ att[a].state \in ActiveStates
           /\ \E verdict \in {"RECOVERED", "VERIFICATION_FAILED"} :
                  att' = [att EXCEPT ![a] = Closed(att[a], verdict, att[a].count)]
    BY <1>10, <2>2 DEF FinishVerify, Terminal
  <2>4. {"RECOVERED", "VERIFICATION_FAILED"} \subseteq TerminalStates
    BY DEF TerminalStates
  <2> HIDE DEF a
  <2> QED BY <2>1, <2>3, <2>4, StillIsOnward, ClosingIsOnward
<1> QED
  BY <1>1, <1>2, <1>3, <1>4, <1>5, <1>6, <1>7, <1>8, <1>9, <1>10 DEF Executor

\* The gates of create(), seen from outside: a new attempt is authorized under an
\* approval nobody has used and beside no active attempt, or it is terminal at once.
LEMMA CreationGates ==
    ASSUME TypeOK, NEW a \in Attempts, NEW p \in Approvals, CreateAttempt(a, p)
    PROVE  /\ att[a].state = "ABSENT"
           /\ \A b \in Attempts \ {a} : att'[b] = att[b]
           /\ att'[a].approval = p
           /\ \/ /\ att'[a].state = "AUTHORIZED"
                 /\ att'[a].authIss = now
                 /\ ~Consumed(p)
                 /\ \A b \in Attempts : ~Active(b)
              \/ /\ att'[a].state \in TerminalStates
                 /\ att'[a].authIss = NoTime
<1> DEFINE verdict == CreateVerdict(p, pending[a])
           row == [AbsentAttempt EXCEPT !.approval = p]
           authorized == [row EXCEPT !.state = "AUTHORIZED", !.authIss = now,
                                     !.authExp = Least(now + AuthTerm,
                                                       approvals[p].expires)]
           denied == [row EXCEPT !.state = verdict]
<1>1. /\ att[a].state = "ABSENT"
      /\ att' = [att EXCEPT ![a] = IF verdict = "BOUND" THEN authorized ELSE denied]
  BY DEF CreateAttempt
<1>2. verdict = "BOUND" \/ verdict \in TerminalStates
  BY DEF CreateVerdict, StateVerdict, TerminalStates, NoWriteStates, DenialStates
<1>3. verdict = "BOUND" => ~Consumed(p) /\ \A b \in Attempts : ~Active(b)
  BY DEF CreateVerdict
<1>4. row \in AttemptRows /\ row.approval = p /\ row.authIss = NoTime
  BY DraftRow
<1>5. /\ authorized.state = "AUTHORIZED"
      /\ authorized.authIss = now
      /\ authorized.approval = p
      /\ denied.state = verdict
      /\ denied.authIss = NoTime
      /\ denied.approval = p
  <2> HIDE DEF row, verdict
  <2> QED BY <1>4 DEF AttemptRows
<1> HIDE DEF verdict, authorized, denied
<1> QED BY <1>1, <1>2, <1>3, <1>5 DEF TypeOK

--------------------------------------------------------------------------------
(* One active attempt, one authority, one write *)

IInv == TypeOK /\ Engaged /\ AuthorityIsUnique /\ WriteIsEarned

\* Outside a creation, whatever concerns the attempts alone is preserved.
LEMMA AttemptsOnward ==
    ASSUME TypeOK, Engaged, [Next]_vars
    PROVE  \/ \A a \in Attempts : Onward(a)
           \/ \E a \in Attempts, p \in Approvals : CreateAttempt(a, p)
<1>1. CASE UNCHANGED vars
  BY <1>1, StillIsOnward DEF vars
<1>2. CASE Api
  <2>1. ASSUME NEW a \in Attempts, Cancel(a)
        PROVE  \A b \in Attempts : Onward(b)
    BY <2>1, ClosingIsOnward DEF Cancel, Active, TerminalStates, NoWriteStates
  <2>2. ASSUME NEW a \in Attempts, ReconcileExpired(a)
        PROVE  \A b \in Attempts : Onward(b)
    BY <2>2, ClosingIsOnward DEF ReconcileExpired, Active, TerminalStates
  <2> QED BY <1>2, <2>1, <2>2, StillIsOnward DEF Api, Approve, Revoke, ReadForCreate
<1>3. CASE \E e \in Executors : Executor(e)
  BY <1>3, ExecutorIsOnward
<1>4. CASE Gateway
  BY <1>4, StillIsOnward
  DEF Gateway, GatewayAccept, GatewayConsume, GatewayClear, GatewaySend,
      GatewayReadback
<1>5. CASE Environment
  BY <1>5, StillIsOnward
  DEF Environment, Tick, Drift, RetireBaseline, GatewayCrash, ExecutorCrash, ApiCrash,
      Crash
<1> QED BY <1>1, <1>2, <1>3, <1>4, <1>5 DEF Next

\* The writer lock: while the gateway holds it, no row of the product database changes.
LEMMA FenceHolds ==
    ASSUME [Next]_vars, ~DatabaseFree
    PROVE  UNCHANGED <<att, approvals, candidateOk>>
<1>1. CASE UNCHANGED vars
  BY <1>1 DEF vars
<1>2. CASE Api
  BY <1>2 DEF Api, Approve, Revoke, ReadForCreate, CreateAttempt, Cancel,
              ReconcileExpired
<1>3. ASSUME NEW e \in Executors, Executor(e)
      PROVE  UNCHANGED <<att, approvals, candidateOk>>
  <2>1. ASSUME NEW a \in Attempts, \/ Claim(e, a) \/ ClaimExpired(e, a)
                                   \/ Reconcile(e, a) \/ StartVerify(e, a)
                                   \/ ResumeVerify(e, a)
        PROVE  UNCHANGED <<att, approvals, candidateOk>>
    BY <2>1 DEF Claim, ClaimExpired, Reconcile, StartVerify, ResumeVerify
  <2>2. ASSUME \/ CommitIntent(e) \/ Reserve(e) \/ PersistReceipt(e)
               \/ MarkUnknown(e) \/ FinishVerify(e)
        PROVE  FALSE
    BY <2>2 DEF CommitIntent, Reserve, PersistReceipt, MarkUnknown, FinishVerify
  <2>3. ASSUME \/ ReadForIntent(e) \/ LoseLease(e) \/ ReadForReserve(e)
               \/ CallGateway(e) \/ AdapterRejects(e) \/ CallFails(e)
        PROVE  UNCHANGED <<att, approvals, candidateOk>>
    BY <2>3 DEF ReadForIntent, LoseLease, ReadForReserve, CallGateway, AdapterRejects,
                CallFails
  <2> QED BY <1>3, <2>1, <2>2, <2>3 DEF Executor
<1>4. CASE Gateway
  BY <1>4 DEF Gateway, GatewayAccept, GatewayConsume, GatewayClear, GatewaySend,
              GatewayReadback
<1>5. CASE Environment
  BY <1>5 DEF Environment, Tick, Drift, RetireBaseline, GatewayCrash, ExecutorCrash,
              ApiCrash, Crash
<1> QED BY <1>1, <1>2, <1>3, <1>4, <1>5 DEF Next

\* An executor keeps its attempt until it returns, and takes up only one that exists.
LEMMA ExecutorKeepsAttempt ==
    ASSUME TypeOK, [Next]_vars, NEW f \in Executors, ex'[f].pc # "IDLE"
    PROVE  \/ ex[f].pc # "IDLE" /\ ex'[f].att = ex[f].att
           \/ att[ex'[f].att].state # "ABSENT" /\ ex'[f].att \in Attempts
<1>1. CASE UNCHANGED ex
  BY <1>1
<1>2. ASSUME NEW e \in Executors, Executor(e), e # f
      PROVE  ex'[f] = ex[f]
  <2>1. ASSUME NEW row, ex' = [ex EXCEPT ![e] = row] PROVE ex'[f] = ex[f]
    BY <1>2, <2>1 DEF TypeOK
  <2>2. ASSUME NEW a \in Attempts, \/ Claim(e, a) \/ ClaimExpired(e, a)
                                   \/ Reconcile(e, a) \/ StartVerify(e, a)
                                   \/ ResumeVerify(e, a)
        PROVE  ex'[f] = ex[f]
    BY <2>1, <2>2 DEF Claim, ClaimExpired, Reconcile, StartVerify, ResumeVerify
  <2>3. ASSUME NEW pc, Goto(e, pc) \/ Return(e) PROVE ex'[f] = ex[f]
    BY <2>1, <2>3 DEF Goto, Return
  <2>4. CASE ReadForIntent(e) \/ ReadForReserve(e) \/ AdapterRejects(e)
    BY <1>2, <2>4 DEF ReadForIntent, ReadForReserve, AdapterRejects, TypeOK
  <2>5. CASE \/ LoseLease(e) \/ CommitIntent(e) \/ Reserve(e) \/ CallGateway(e)
             \/ CallFails(e) \/ PersistReceipt(e) \/ MarkUnknown(e)
             \/ FinishVerify(e)
    BY <2>3, <2>5
    DEF LoseLease, CommitIntent, Reserve, CallGateway, CallFails, PersistReceipt,
        MarkUnknown, FinishVerify
  <2> QED BY <1>2, <2>2, <2>4, <2>5 DEF Executor
<1>3. ASSUME Return(f) PROVE FALSE
  BY <1>3 DEF Return, TypeOK, IdleExecutor
<1>4. ASSUME NEW pc, ex[f].pc # "IDLE", Goto(f, pc)
      PROVE  ex[f].pc # "IDLE" /\ ex'[f].att = ex[f].att
  BY <1>4, BusyExecutor DEF Goto, TypeOK
<1>5. CASE Executor(f)
  <2>1. ASSUME NEW a \in Attempts, \/ Claim(f, a) \/ Reconcile(f, a)
                                   \/ StartVerify(f, a) \/ ResumeVerify(f, a)
        PROVE  ex'[f].att = a /\ att[a].state # "ABSENT"
    BY <2>1 DEF Claim, Reconcile, StartVerify, ResumeVerify, TypeOK
  <2>2. ASSUME NEW a \in Attempts, ClaimExpired(f, a) PROVE UNCHANGED ex
    BY <2>2 DEF ClaimExpired
  <2>3. ASSUME \/ ReadForIntent(f) \/ ReadForReserve(f) \/ AdapterRejects(f)
        PROVE  ex[f].pc # "IDLE" /\ ex'[f].att = ex[f].att
    <3>1. ex[f].pc # "IDLE"
      BY <2>3 DEF ReadForIntent, ReadForReserve, AdapterRejects
    <3>2. /\ ex[f] \in [pc : ExecutorPCs, att : Attempts, gen : Nat, obs : Observations]
          /\ ex \in [Executors -> ExecutorRows]
      BY <3>1, BusyExecutor DEF TypeOK
    <3>3. CASE ReadForIntent(f)
      BY <3>2, <3>3 DEF ReadForIntent
    <3>4. CASE ReadForReserve(f)
      BY <3>2, <3>4 DEF ReadForReserve
    <3>5. CASE AdapterRejects(f)
      BY <3>2, <3>5 DEF AdapterRejects
    <3> QED BY <2>3, <3>1, <3>3, <3>4, <3>5
  <2>4. ASSUME \/ LoseLease(f) \/ CommitIntent(f) \/ Reserve(f) \/ CallGateway(f)
               \/ CallFails(f) \/ PersistReceipt(f) \/ MarkUnknown(f)
               \/ FinishVerify(f)
        PROVE  ex[f].pc # "IDLE" /\ ex'[f].att = ex[f].att
    BY <2>4, <1>3, <1>4
    DEF LoseLease, CommitIntent, Reserve, CallGateway, CallFails, PersistReceipt,
        MarkUnknown, FinishVerify
  <2> QED BY <1>1, <1>5, <2>1, <2>2, <2>3, <2>4 DEF Executor
<1>6. CASE GatewayReadback
  <2> DEFINE row == [ex[f] EXCEPT !.pc = "ANSWERED",
                                  !.obs = [at |-> now, config |-> "BASELINE"]]
  <2>1. ex'[f] = ex[f] \/ (ex[f].pc = "WAITING" /\ ex'[f] = row)
    BY <1>6 DEF GatewayReadback
  <2>2. ex[f].pc = "WAITING" => row.att = ex[f].att
    BY BusyExecutor
  <2> QED BY <2>1, <2>2
<1>7. ASSUME NEW e \in Executors, ExecutorCrash(e)
      PROVE  ex'[f] = ex[f]
  <2>1. e # f
    BY <1>3, <1>7 DEF ExecutorCrash
  <2> QED BY <1>7, <2>1 DEF ExecutorCrash, Return, TypeOK
<1>8. CASE Api
  BY <1>1, <1>8 DEF Api, Approve, Revoke, ReadForCreate, CreateAttempt, Cancel,
                    ReconcileExpired
<1>9. CASE Gateway /\ ~GatewayReadback
  BY <1>1, <1>9 DEF Gateway, GatewayAccept, GatewayConsume, GatewayClear, GatewaySend
<1>10. CASE Environment
  <2>1. CASE Tick \/ Drift \/ RetireBaseline \/ GatewayCrash
             \/ \E a \in Attempts : ApiCrash(a)
    BY <1>1, <2>1 DEF Tick, Drift, RetireBaseline, GatewayCrash, ApiCrash
  <2> QED BY <1>1, <1>7, <1>10, <2>1 DEF Environment
<1> QED BY <1>1, <1>2, <1>5, <1>6, <1>8, <1>9, <1>10 DEF Next, vars

\* Executors work on attempts that exist, and rows are never deleted.
LEMMA EngagedStep ==
    ASSUME TypeOK, Engaged, [Next]_vars
    PROVE  Engaged'
<1> SUFFICES ASSUME NEW f \in Executors, ex'[f].pc # "IDLE"
             PROVE  att'[ex'[f].att].state # "ABSENT"
  BY DEF Engaged
<1> DEFINE b == ex'[f].att
<1>1. b \in Attempts /\ att[b].state # "ABSENT"
  BY ExecutorKeepsAttempt, BusyExecutor DEF Engaged
<1>2. CASE \A a \in Attempts : Onward(a)
  BY <1>1, <1>2 DEF Onward
<1>3. ASSUME NEW a \in Attempts, NEW p \in Approvals, CreateAttempt(a, p)
      PROVE  att'[b] = att[b]
  BY <1>1, <1>3, CreationGates
<1> QED BY <1>1, <1>2, <1>3, AttemptsOnward

\* A step keeps authority unique: only create() makes an attempt active, and its gates
\* refuse while another is active or the approval was consumed.
LEMMA AuthorityStep ==
    ASSUME IInv, [Next]_vars
    PROVE  AuthorityIsUnique'
<1> USE DEF IInv
<1>1. CASE \A a \in Attempts : Onward(a)
  BY <1>1 DEF AuthorityIsUnique, Onward, Active, Authorized
<1>2. ASSUME NEW a \in Attempts, NEW p \in Approvals, CreateAttempt(a, p)
      PROVE  AuthorityIsUnique'
  <2> SUFFICES ASSUME NEW b \in Attempts, NEW c \in Attempts, b # c
               PROVE  /\ ~(Active(b)' /\ Active(c)')
                      /\ Authorized(b)' /\ Authorized(c)'
                             => att'[b].approval # att'[c].approval
    BY DEF AuthorityIsUnique
  <2>1. ASSUME NEW d \in Attempts, d # a
        PROVE  /\ ~(Active(a)' /\ Active(d)')
               /\ Authorized(a)' /\ Authorized(d)'
                      => att'[a].approval # att'[d].approval
    BY <1>2, <2>1, CreationGates, StatesDisjoint DEF Active, Authorized, Consumed
  <2>2. CASE b # a /\ c # a
    BY <1>2, <2>2, CreationGates DEF AuthorityIsUnique, Active, Authorized
  <2> QED BY <2>1, <2>2
<1> QED BY <1>1, <1>2, AttemptsOnward

\* The gateway and its ledger move by the gateway's own steps, or the gateway falls back
\* to idle in a crash.
LEMMA OnlyGatewaySends ==
    ASSUME [Next]_vars
    PROVE  \/ UNCHANGED <<gw, ledger, sent>>
           \/ Gateway
           \/ gw' = IdleGateway /\ UNCHANGED <<ledger, sent>>
<1>1. CASE UNCHANGED vars
  BY <1>1 DEF vars
<1>2. CASE Api
  BY <1>2 DEF Api, Approve, Revoke, ReadForCreate, CreateAttempt, Cancel,
              ReconcileExpired
<1>3. ASSUME NEW e \in Executors, Executor(e)
      PROVE  UNCHANGED <<gw, ledger, sent>>
  <2>1. ASSUME NEW a \in Attempts, \/ Claim(e, a) \/ ClaimExpired(e, a)
                                   \/ Reconcile(e, a) \/ StartVerify(e, a)
                                   \/ ResumeVerify(e, a)
        PROVE  UNCHANGED <<gw, ledger, sent>>
    BY <2>1 DEF Claim, ClaimExpired, Reconcile, StartVerify, ResumeVerify
  <2>2. CASE \/ CommitIntent(e) \/ Reserve(e) \/ PersistReceipt(e)
             \/ MarkUnknown(e) \/ FinishVerify(e)
    BY <2>2 DEF CommitIntent, Reserve, PersistReceipt, MarkUnknown, FinishVerify
  <2>3. CASE \/ ReadForIntent(e) \/ LoseLease(e) \/ ReadForReserve(e)
             \/ CallGateway(e) \/ AdapterRejects(e) \/ CallFails(e)
    BY <2>3 DEF ReadForIntent, LoseLease, ReadForReserve, CallGateway, AdapterRejects,
                CallFails
  <2> QED BY <1>3, <2>1, <2>2, <2>3 DEF Executor
<1>4. CASE Environment
  BY <1>4 DEF Environment, Tick, Drift, RetireBaseline, GatewayCrash, ExecutorCrash,
              ApiCrash, Crash
<1> QED BY <1>1, <1>2, <1>3, <1>4 DEF Next

\* A step keeps every write earned: under the fence of restore() the attempt stays
\* EXECUTING and approved, and the ledger is ahead of what was sent.
LEMMA EarnedStep ==
    ASSUME IInv, [Next]_vars
    PROVE  WriteIsEarned'
<1> USE DEF IInv
<1> DEFINE Fenced == gw.pc \in {"FENCED", "CONSUMED", "CLEARED"}
<1>0. gw.pc # "IDLE" => gw.att \in Attempts
  BY DEF TypeOK, GatewayRows, IdleGateway
<1>1. \A a \in Attempts : /\ Active(a)' => Authorized(a)'
                          /\ att'[a].state = "ABSENT" => ~Authorized(a)'
  <2>0. \A a \in Attempts : /\ Active(a) => Authorized(a)
                            /\ att[a].state = "ABSENT" => ~Authorized(a)
    BY DEF WriteIsEarned, AuthorityHeld
  <2>1. ASSUME NEW a \in Attempts, Onward(a)
        PROVE  /\ Active(a)' => Authorized(a)'
               /\ att'[a].state = "ABSENT" => ~Authorized(a)'
    BY <2>0, <2>1 DEF Onward, Active, Authorized
  <2>2. ASSUME NEW a \in Attempts, NEW p \in Approvals, CreateAttempt(a, p)
        PROVE  \A b \in Attempts : /\ Active(b)' => Authorized(b)'
                                   /\ att'[b].state = "ABSENT" => ~Authorized(b)'
    <3>1. now # NoTime
      BY TermsAssumption DEF TypeOK, NoTime
    <3>2. ASSUME NEW b \in Attempts, b # a, att'[b] = att[b]
          PROVE  /\ Active(b)' => Authorized(b)'
                 /\ att'[b].state = "ABSENT" => ~Authorized(b)'
      BY <2>0, <3>2 DEF Active, Authorized
    <3>3. /\ Active(a)' => Authorized(a)'
          /\ att'[a].state # "ABSENT"
      BY <2>2, <3>1, CreationGates, StatesDisjoint
      DEF Active, Authorized, ActiveStates
    <3> QED BY <2>2, <3>2, <3>3, CreationGates
  <2> QED BY <2>1, <2>2, AttemptsOnward
<1>2. \A a \in Attempts : Authorized(a) => Authorized(a)'
  <2>1. ASSUME NEW a \in Attempts, NEW p \in Approvals, CreateAttempt(a, p)
        PROVE  \A b \in Attempts : Authorized(b) => Authorized(b)'
    BY <2>1, CreationGates DEF WriteIsEarned, AuthorityHeld, Authorized
  <2> QED BY <2>1, AttemptsOnward DEF Onward, Authorized
<1>3. Fenced' => /\ att'[gw'.att].state = "EXECUTING"
                 /\ ~approvals'[att'[gw'.att].approval].revoked
                 /\ candidateOk'
  <2>1. CASE Fenced /\ gw'.att = gw.att
    BY <2>1, FenceHolds DEF DatabaseFree, WriteIsEarned, FenceStands
  <2>2. ASSUME NEW r \in requests, GatewayAccept(r)
        PROVE  Fenced' => /\ att'[gw'.att].state = "EXECUTING"
                          /\ ~approvals'[att'[gw'.att].approval].revoked
                          /\ candidateOk'
    BY <2>2 DEF GatewayAccept, MayRestore, ApprovalActive, ApprovalStatus
  <2>3. Fenced' => (Fenced /\ gw'.att = gw.att) \/ \E r \in requests : GatewayAccept(r)
    <3>1. gw \in [pc : GatewayPCs \cup {"IDLE"}, att : Attempts \cup {NoOne},
                 caller : Executors \cup {NoOne}]
      BY DEF TypeOK, GatewayRows, IdleGateway
    <3>2. IdleGateway.pc = "IDLE"
      BY DEF IdleGateway
    <3> QED BY <3>1, <3>2, OnlyGatewaySends
            DEF Gateway, GatewayConsume, GatewayClear, GatewaySend, GatewayReadback
  <2> QED BY <2>1, <2>2, <2>3
<1>4. \A a \in ledger' : Authorized(a)'
  <2>1. ledger' \subseteq ledger \cup {gw.att}
    BY OnlyGatewaySends
    DEF Gateway, GatewayAccept, GatewayConsume, GatewayClear, GatewaySend,
        GatewayReadback
  <2>2. gw.att \in ledger' => gw.att \in ledger \/ gw.pc = "FENCED"
    BY OnlyGatewaySends
    DEF Gateway, GatewayAccept, GatewayConsume, GatewayClear, GatewaySend,
        GatewayReadback
  <2>3. gw.pc = "FENCED" => Authorized(gw.att) /\ gw.att \in Attempts
    BY <1>0 DEF WriteIsEarned, AuthorityHeld, FenceStands, Active, ActiveStates
  <2>4. \A a \in ledger : Authorized(a) /\ a \in Attempts
    BY DEF WriteIsEarned, AuthorityHeld, TypeOK
  <2> QED BY <1>2, <2>1, <2>2, <2>3, <2>4
<1>5. LedgerAhead'
  <2>0. /\ sent \in [Attempts -> Nat]
        /\ gw.pc \in {"CONSUMED", "CLEARED"} => gw.att \in ledger /\ sent[gw.att] = 0
        /\ \A a \in Attempts : sent[a] <= 1 /\ (sent[a] > 0 => a \in ledger)
    BY DEF TypeOK, WriteIsEarned, LedgerAhead
  <2>1. CASE UNCHANGED <<gw, ledger, sent>>
    BY <2>0, <2>1 DEF LedgerAhead
  <2>2. CASE gw' = IdleGateway /\ UNCHANGED <<ledger, sent>>
    BY <2>0, <2>2 DEF LedgerAhead, IdleGateway
  <2>3. ASSUME NEW r \in requests, GatewayAccept(r) PROVE LedgerAhead'
    BY <2>0, <2>3 DEF LedgerAhead, GatewayAccept
  <2>4. CASE GatewayConsume
    <3>1. CASE gw.att \notin ledger
      <4>1. sent[gw.att] = 0
        BY <1>0, <2>0, <2>4, <3>1 DEF GatewayConsume
      <4>2. gw'.att = gw.att
        BY <2>4, <3>1 DEF GatewayConsume, TypeOK, GatewayRows, IdleGateway
      <4> QED BY <2>0, <2>4, <3>1, <4>1, <4>2 DEF LedgerAhead, GatewayConsume
    <3>2. CASE gw.att \in ledger
      BY <2>0, <2>4, <3>2 DEF LedgerAhead, GatewayConsume, IdleGateway
    <3> QED BY <3>1, <3>2
  <2>5. CASE GatewayClear
    <3>1. gw'.pc = "IDLE" \/ gw'.att = gw.att
      BY <1>0, <2>5 DEF GatewayClear, IdleGateway, TypeOK, GatewayRows
    <3> QED BY <2>0, <2>5, <3>1 DEF LedgerAhead, GatewayClear
  <2>6. CASE GatewaySend
    <3>1. gw'.pc \in {"IDLE", "READBACK"}
      BY <2>6 DEF GatewaySend, IdleGateway, TypeOK, GatewayRows
    <3>2. /\ sent' = [sent EXCEPT ![gw.att] = sent[gw.att] + 1]
          /\ gw.pc = "CLEARED" /\ ledger' = ledger
      BY <2>6 DEF GatewaySend
    <3> QED BY <1>0, <2>0, <3>1, <3>2 DEF LedgerAhead
  <2>7. CASE GatewayReadback
    BY <2>0, <2>7 DEF LedgerAhead, GatewayReadback, IdleGateway
  <2> QED BY <2>1, <2>2, <2>3, <2>4, <2>5, <2>6, <2>7, OnlyGatewaySends DEF Gateway
<1> QED BY <1>1, <1>3, <1>4, <1>5 DEF WriteIsEarned, AuthorityHeld, FenceStands

\* A fresh deployment satisfies the inductive invariant.
THEOREM InvariantInit == Init => IInv
<1> SUFFICES ASSUME Init PROVE IInv
  OBVIOUS
<1>1. TypeOK
  BY TypeInit
<1>2. Engaged
  BY DEF Init, Engaged, IdleExecutor
<1>3. \A a \in Attempts : att[a].state = "ABSENT" /\ ~Authorized(a)
  BY DEF Init, AbsentAttempt, Authorized
<1>4. AuthorityIsUnique
  BY <1>3 DEF AuthorityIsUnique, Active, ActiveStates
<1>5. WriteIsEarned
  BY <1>3 DEF Init, WriteIsEarned, AuthorityHeld, FenceStands, LedgerAhead, Active,
              ActiveStates, IdleGateway
<1> QED BY <1>1, <1>2, <1>4, <1>5 DEF IInv

\* The inductive invariant holds in every reachable state.
THEOREM InvariantHolds == Spec => []IInv
<1>1. Init => IInv
  BY InvariantInit
<1>2. IInv /\ [Next]_vars => IInv'
  BY TypeStep, EngagedStep, AuthorityStep, EarnedStep DEF IInv
<1> QED BY <1>1, <1>2, PTL DEF Spec

\* At most one attempt is active on the target, and an approval authorizes one attempt
\* only, however many clients call create() with readbacks of their own.
THEOREM AuthorityStaysUnique == Spec => []AuthorityIsUnique
<1>1. IInv => AuthorityIsUnique
  BY DEF IInv
<1> QED BY <1>1, InvariantHolds, PTL

\* One approval buys at most one external write, whatever crashes, is retried or is
\* delivered twice.
THEOREM OneWritePerApproval == Spec => []AtMostOneWrite
<1>1. IInv => AtMostOneWrite
  <2> SUFFICES ASSUME IInv PROVE AtMostOneWrite
    OBVIOUS
  <2>1. \A a \in Attempts : sent[a] \in Nat /\ sent[a] <= 1
    BY DEF IInv, TypeOK, WriteIsEarned, LedgerAhead
  <2>2. \A a \in Attempts : sent[a] > 0 => Authorized(a)
    BY DEF IInv, WriteIsEarned, LedgerAhead, AuthorityHeld
  <2> QED BY <2>1, <2>2 DEF AtMostOneWrite, IInv, AuthorityIsUnique
<1> QED BY <1>1, InvariantHolds, PTL

\* Whatever the gateway has consumed is authorized, stands still under the writer lock
\* until the call ends, and is consumed in the ledger before it is sent.
THEOREM WritesAreEarned == Spec => []WriteIsEarned
<1>1. IInv => WriteIsEarned
  BY DEF IInv
<1> QED BY <1>1, InvariantHolds, PTL

\* A terminal attempt is final: its row is never written again, and nothing is sent on
\* its behalf.
THEOREM TerminalStaysFinal == Spec => TerminalIsFinal
<1>1. IInv /\ [Next]_vars => [\A a \in Attempts : Terminal(a) =>
          att'[a] = att[a] /\ sent'[a] = sent[a]]_vars
  <2> SUFFICES ASSUME IInv, [Next]_vars, NEW a \in Attempts, Terminal(a)
               PROVE  att'[a] = att[a] /\ sent'[a] = sent[a]
    OBVIOUS
  <2>1. att'[a] = att[a]
    BY AttemptsOnward, CreationGates, StatesDisjoint DEF IInv, Onward, Terminal
  <2>2. sent'[a] = sent[a]
    <3>1. gw.pc = "CLEARED" => gw.att # a
      BY StatesDisjoint DEF IInv, WriteIsEarned, FenceStands, Terminal, ActiveStates
    <3>2. CASE GatewaySend
      BY <3>1, <3>2 DEF GatewaySend, IInv, TypeOK
    <3> QED BY <3>2, OnlyGatewaySends
            DEF Gateway, GatewayAccept, GatewayConsume, GatewayClear, GatewayReadback
  <2> QED BY <2>1, <2>2
<1> QED BY <1>1, InvariantHolds, PTL DEF Spec, TerminalIsFinal

\* The gateway sends only for an attempt that is still executing under an approval that
\* still stands, with its intent consumed: what it checked cannot move before the send.
THEOREM SendsAreFenced == Spec => SendIsFenced
<1>1. IInv /\ [Next]_vars => [\A a \in Attempts : sent'[a] # sent[a] =>
          /\ att[a].state = "EXECUTING"
          /\ ~approvals[att[a].approval].revoked
          /\ candidateOk
          /\ a \in ledger]_vars
  <2> SUFFICES ASSUME IInv, [Next]_vars, NEW a \in Attempts, sent'[a] # sent[a]
               PROVE  /\ att[a].state = "EXECUTING"
                      /\ ~approvals[att[a].approval].revoked
                      /\ candidateOk
                      /\ a \in ledger
    OBVIOUS
  <2>1. GatewaySend
    BY OnlyGatewaySends
    DEF Gateway, GatewayAccept, GatewayConsume, GatewayClear, GatewayReadback
  <2>2. gw.pc = "CLEARED" /\ gw.att = a
    BY <2>1 DEF GatewaySend, IInv, TypeOK
  <2>3. a \in ledger
    BY <2>2 DEF IInv, WriteIsEarned, LedgerAhead
  <2> QED BY <2>2, <2>3 DEF IInv, WriteIsEarned, FenceStands
<1> QED BY <1>1, InvariantHolds, PTL DEF Spec, SendIsFenced

================================================================================
