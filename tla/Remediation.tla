------------------------------ MODULE Remediation ------------------------------
(***************************************************************************)
(* Bounded remediation: operator approvals, attempts, the executor          *)
(* processes and the control gateway that owns the single external write.   *)
(*                                                                          *)
(* Every write transaction of the product database is BEGIN IMMEDIATE, so a *)
(* transaction is one action; what the code does outside a transaction (the *)
(* readback of the controlled configuration, the call to the gateway) is an *)
(* action of its own.  The gateway is the exception: it keeps the writer    *)
(* lock over several steps, and while it does no other transaction starts.  *)
(***************************************************************************)
EXTENDS Integers, FiniteSets

CONSTANTS
    Attempts,      \* remediation attempts; an id stands for its idempotency key
    Approvals,     \* operator approvals of the one candidate
    Executors,     \* executor processes, each claim being a fresh lease owner
    NoOne,         \* "no attempt", "no approval", "no executor"
    ApprovalTerm,  \* ttl_seconds of an approval
    AuthTerm,      \* life of an authorization (five minutes in the code)
    LeaseTerm,     \* life of an execution lease (thirty seconds)
    VerifyTerm,    \* life of a verification lease
    FreshTerm,     \* greatest age of a usable observation (thirty seconds)
    MaxTime,       \* bound: horizon of the clock
    MaxCrashes,    \* bound: process crashes in a behaviour
    ProvenRejection \* whether the write adapter can prove that it did not write

ASSUME NamesAssumption ==
    NoOne \notin Attempts \cup Approvals \cup Executors
ASSUME TermsAssumption ==
    /\ {ApprovalTerm, AuthTerm, LeaseTerm, VerifyTerm, FreshTerm} \subseteq Nat \ {0}
    /\ MaxTime \in Nat \ {0} /\ MaxCrashes \in Nat /\ ProvenRejection \in BOOLEAN

VARIABLES
    now,         \* the clock
    config,      \* the controlled payment configuration
    candidateOk, \* the candidate still projects from the active baseline
    approvals,   \* approval and revocation rows
    att,         \* attempt rows with intent, dispatch and receipt
    pending,     \* observation held by the create() call of an attempt
    ex,          \* program counter and locals of each executor
    requests,    \* dispatches on their way to the gateway
    gw,          \* the gateway's restore() call
    ledger,      \* intents consumed in the gateway's own database
    sent,        \* history: external writes sent for each attempt
    crashes      \* crashes so far

vars == <<now, config, candidateOk, approvals, att, pending, ex, requests, gw,
          ledger, sent, crashes>>

--------------------------------------------------------------------------------
(* Values *)

NoTime == 0

DenialStates == {"APPROVAL_EXPIRED", "APPROVAL_REVOKED", "STATE_DRIFTED",
                 "NO_LONGER_APPLICABLE", "AUTHORIZATION_DENIED",
                 "AUTHORIZATION_EXPIRED"}
NoWriteStates == DenialStates \cup {"CANCELLED_BEFORE_WRITE"}
TerminalStates == NoWriteStates \cup {"EXECUTION_FAILED", "OUTCOME_UNKNOWN",
                                      "RECOVERED", "VERIFICATION_FAILED"}
ActiveStates == {"AUTHORIZED", "WRITE_INTENT_COMMITTED", "EXECUTING", "APPLIED",
                 "VERIFYING"}
States == {"ABSENT"} \cup ActiveStates \cup TerminalStates

\* forward_write_count 0, 1 and None.
WriteCounts == {"ZERO", "ONE", "UNKNOWN"}

Configs == {"FAULT", "BASELINE", "OTHER"}

Observations == [at : 0..MaxTime, config : {"FAULT", "BASELINE", "UNREADABLE"}]
Unread == [at |-> NoTime, config |-> "UNREADABLE"]

ApprovalRows == [issued : 0..MaxTime, expires : 0..MaxTime, revoked : BOOLEAN]

AttemptRows == [state : States, approval : Approvals \cup {NoOne}, gen : Nat,
                leaseExp : Nat, authIss : 0..MaxTime, authExp : 0..MaxTime,
                intentAt : 0..MaxTime, dispatched : BOOLEAN,
                receipt : {"NONE", "APPLIED", "FAILED"}, count : WriteCounts]

ExecutorPCs == {"LEASED", "INTENT_READ", "COMMITTED", "RESERVE_READ",
                "DISPATCHED", "WAITING", "ANSWERED", "REJECTED", "UNCERTAIN",
                "RECONCILING", "VERIFYING"}
IdleExecutor == [pc |-> "IDLE", att |-> NoOne, gen |-> 0, obs |-> Unread]
ExecutorRows == {IdleExecutor} \cup
    [pc : ExecutorPCs, att : Attempts, gen : Nat, obs : Observations]

GatewayPCs == {"FENCED", "CONSUMED", "CLEARED", "READBACK"}
IdleGateway == [pc |-> "IDLE", att |-> NoOne, caller |-> NoOne]
GatewayRows == {IdleGateway} \cup
    [pc : GatewayPCs, att : Attempts, caller : Executors \cup {NoOne}]

AbsentAttempt == [state |-> "ABSENT", approval |-> NoOne, gen |-> 0,
                  leaseExp |-> NoTime, authIss |-> NoTime, authExp |-> NoTime,
                  intentAt |-> NoTime, dispatched |-> FALSE,
                  receipt |-> "NONE", count |-> "ZERO"]
AbsentApproval == [issued |-> NoTime, expires |-> NoTime, revoked |-> FALSE]

--------------------------------------------------------------------------------
(* Helpers *)

\* Variant: the authorization may outlive its approval.
LeastForgotten(m, n) == m

Least(m, n) == IF m <= n THEN m ELSE n

Terminal(a) == att[a].state \in TerminalStates
Active(a) == att[a].state \in ActiveStates
HasIntent(a) == att[a].intentAt # NoTime
Authorized(a) == att[a].authIss # NoTime

\* The row of remediation_approval_consumptions: written with the authorization.
Consumed(p) == \E a \in Attempts : Authorized(a) /\ att[a].approval = p

\* What a call of the state provider can return: it raises when the
\* configuration is neither bound state, when the readbacks disagree, or when
\* the gateway cannot be reached.
Readbacks == {Unread} \cup
    {o \in [at : {now}, config : {"FAULT", "BASELINE"}] : o.config = config}

ApprovalStatus(p) ==
    IF approvals[p].revoked THEN "REVOKED"
    ELSE IF now >= approvals[p].expires THEN "EXPIRED"
    ELSE "ACTIVE"

ApprovalActive(p) == ApprovalStatus(p) = "ACTIVE"

Fresh(p, obs) ==
    /\ approvals[p].issued < obs.at
    /\ obs.at <= now
    /\ now - obs.at <= FreshTerm

\* validate_observation, given an observation of the bound environment: the
\* terminal state its first failing check leads to, or "BOUND".
StateVerdict(p, obs) ==
    IF obs.config = "UNREADABLE" \/ ~Fresh(p, obs) THEN "AUTHORIZATION_DENIED"
    ELSE IF obs.config = "BASELINE" THEN "NO_LONGER_APPLICABLE"
    ELSE "BOUND"

LeaseLive(a) == now < att[a].leaseExp
\* Variant: any live lease will do, whoever claimed it.
HoldsAnyLease(e) == LeaseLive(ex[e].att)

HoldsLease(e) == /\ att[ex[e].att].gen = ex[e].gen
                 /\ LeaseLive(ex[e].att)

AuthorizationLive(a) == att[a].authIss <= now /\ now < att[a].authExp

\* Variant: the gateway ends its transaction once the intent is consumed.
FreeAfterConsume == gw.pc # "FENCED"

\* The writer lock of the product database is free: the gateway holds it from
\* BEGIN IMMEDIATE to the end of its single send.
DatabaseFree == gw.pc \in {"IDLE", "READBACK"}

\* The row after a terminal transition: the lease is cleared with it.
Closed(row, state, count) ==
    [row EXCEPT !.state = state, !.leaseExp = NoTime, !.count = count]

Goto(e, pc) == ex' = [ex EXCEPT ![e].pc = pc]
Return(e) == ex' = [ex EXCEPT ![e] = IdleExecutor]

--------------------------------------------------------------------------------
(* The API process *)

\* POST approvals.  The horizon leaves every approval time to expire.
Approve(p) ==
    /\ DatabaseFree
    /\ approvals[p] = AbsentApproval
    /\ now + ApprovalTerm <= MaxTime
    /\ approvals' = [approvals EXCEPT ![p] =
           [issued |-> now, expires |-> now + ApprovalTerm, revoked |-> FALSE]]
    /\ UNCHANGED <<now, config, candidateOk, att, pending, ex, requests, gw,
                   ledger, sent, crashes>>

\* POST revocations.
Revoke(p) ==
    /\ DatabaseFree
    /\ approvals[p].issued # NoTime
    /\ ~approvals[p].revoked
    /\ approvals' = [approvals EXCEPT ![p].revoked = TRUE]
    /\ UNCHANGED <<now, config, candidateOk, att, pending, ex, requests, gw,
                   ledger, sent, crashes>>

\* POST attempts, first half: the readback taken before the transaction.
ReadForCreate(a) ==
    /\ att[a].state = "ABSENT"
    /\ pending[a] = NoOne
    /\ \E obs \in Readbacks : pending' = [pending EXCEPT ![a] = obs]
    /\ UNCHANGED <<now, config, candidateOk, approvals, att, ex, requests, gw,
                   ledger, sent, crashes>>

\* Variant: no look at the attempts already active on the target.
CreateVerdictAnySlot(p, obs) ==
    IF ~candidateOk THEN "STATE_DRIFTED"
    ELSE IF ApprovalStatus(p) = "REVOKED" THEN "APPROVAL_REVOKED"
    ELSE IF ApprovalStatus(p) = "EXPIRED" THEN "APPROVAL_EXPIRED"
    ELSE IF Consumed(p) THEN "AUTHORIZATION_DENIED"
    ELSE StateVerdict(p, obs)

\* Variant: an approval may be used again when its attempt has ended.
CreateVerdictReuse(p, obs) ==
    IF ~candidateOk THEN "STATE_DRIFTED"
    ELSE IF ApprovalStatus(p) # "ACTIVE" THEN "APPROVAL_EXPIRED"
    ELSE IF \E b \in Attempts : Active(b) THEN "AUTHORIZATION_DENIED"
    ELSE StateVerdict(p, obs)

\* The gates of create(), in order: the state the new attempt is stored in.
CreateVerdict(p, obs) ==
    IF ~candidateOk THEN "STATE_DRIFTED"
    ELSE IF ApprovalStatus(p) = "REVOKED" THEN "APPROVAL_REVOKED"
    ELSE IF ApprovalStatus(p) = "EXPIRED" THEN "APPROVAL_EXPIRED"
    ELSE IF Consumed(p) \/ \E b \in Attempts : Active(b)
         THEN "AUTHORIZATION_DENIED"
    ELSE StateVerdict(p, obs)

\* POST attempts, second half: the authorization and the consumption of the
\* approval, or a terminal attempt that leaves the approval unconsumed.
CreateAttempt(a, p) ==
    /\ DatabaseFree
    /\ att[a].state = "ABSENT"
    /\ pending[a] # NoOne
    /\ approvals[p].issued # NoTime
    /\ LET verdict == CreateVerdict(p, pending[a])
           row == [AbsentAttempt EXCEPT !.approval = p]
       IN att' = [att EXCEPT ![a] =
              IF verdict = "BOUND"
              THEN [row EXCEPT !.state = "AUTHORIZED", !.authIss = now,
                               !.authExp = Least(now + AuthTerm,
                                                 approvals[p].expires)]
              ELSE [row EXCEPT !.state = verdict]]
    /\ pending' = [pending EXCEPT ![a] = NoOne]
    /\ UNCHANGED <<now, config, candidateOk, approvals, ex, requests, gw, ledger,
                   sent, crashes>>

\* cancel_before_write, an operation of the repository.
Cancel(a) ==
    /\ DatabaseFree
    /\ Active(a)
    /\ ~HasIntent(a)
    /\ att' = [att EXCEPT ![a] = Closed(@, "CANCELLED_BEFORE_WRITE", @.count)]
    /\ UNCHANGED <<now, config, candidateOk, approvals, pending, ex, requests, gw,
                   ledger, sent, crashes>>

\* reconcile_expired_intent, an operation of the repository; its readback is
\* only kept as evidence.  APPLIED has no lease and is refused.
ReconcileExpired(a) ==
    /\ DatabaseFree
    /\ Active(a)
    /\ HasIntent(a)
    /\ att[a].leaseExp # NoTime
    /\ ~LeaseLive(a)
    /\ att' = [att EXCEPT ![a] = Closed(@, "OUTCOME_UNKNOWN", @.count)]
    /\ UNCHANGED <<now, config, candidateOk, approvals, pending, ex, requests, gw,
                   ledger, sent, crashes>>

--------------------------------------------------------------------------------
(* The executor process: run_one, the reconciliation of executor_main, verify *)

\* executor_main skips a live lease; claim() mints the next one.
Claim(e, a) ==
    /\ ex[e].pc = "IDLE"
    /\ DatabaseFree
    /\ att[a].state = "AUTHORIZED"
    /\ ~LeaseLive(a)
    /\ AuthorizationLive(a)
    /\ att' = [att EXCEPT ![a].gen = @ + 1,
                          ![a].leaseExp = Least(now + LeaseTerm, att[a].authExp)]
    /\ ex' = [ex EXCEPT ![e] = [pc |-> "LEASED", att |-> a, gen |-> att[a].gen + 1,
                                obs |-> Unread]]
    /\ UNCHANGED <<now, config, candidateOk, approvals, pending, requests, gw,
                   ledger, sent, crashes>>

\* claim() of an attempt whose authorization has run out denies it for good.
ClaimExpired(e, a) ==
    /\ ex[e].pc = "IDLE"
    /\ DatabaseFree
    /\ att[a].state = "AUTHORIZED"
    /\ ~LeaseLive(a)
    /\ ~AuthorizationLive(a)
    /\ att' = [att EXCEPT ![a] = Closed(@, "AUTHORIZATION_EXPIRED", @.count)]
    /\ UNCHANGED <<now, config, candidateOk, approvals, pending, ex, requests, gw,
                   ledger, sent, crashes>>

\* commit_write_intent, before its transaction: the lease, then the readback.
ReadForIntent(e) ==
    /\ ex[e].pc = "LEASED"
    /\ HoldsLease(e)
    /\ ~HasIntent(ex[e].att)
    /\ \E obs \in Readbacks :
           ex' = [ex EXCEPT ![e].pc = "INTENT_READ", ![e].obs = obs]
    /\ UNCHANGED <<now, config, candidateOk, approvals, att, pending, requests, gw,
                   ledger, sent, crashes>>

\* REMEDIATION_LEASE_LOST: the exception ends the process, and its supervisor
\* starts another.
LoseLease(e) ==
    /\ ex[e].pc \in {"LEASED", "INTENT_READ"}
    /\ ~HoldsLease(e)
    /\ Return(e)
    /\ UNCHANGED <<now, config, candidateOk, approvals, att, pending, requests, gw,
                   ledger, sent, crashes>>

\* The gates of commit_write_intent, in order.
IntentVerdict(a, obs) ==
    LET p == att[a].approval IN
    IF ~AuthorizationLive(a) THEN "AUTHORIZATION_EXPIRED"
    ELSE IF ApprovalStatus(p) = "REVOKED" THEN "APPROVAL_REVOKED"
    ELSE IF ApprovalStatus(p) = "EXPIRED" THEN "APPROVAL_EXPIRED"
    ELSE IF ~candidateOk THEN "STATE_DRIFTED"
    ELSE IF \E b \in Attempts \ {a} : Active(b) THEN "AUTHORIZATION_DENIED"
    ELSE IF obs.at <= att[a].authIss THEN "AUTHORIZATION_DENIED"
    ELSE StateVerdict(p, obs)

CommitIntent(e) ==
    LET a == ex[e].att
        verdict == IntentVerdict(a, ex[e].obs)
    IN /\ ex[e].pc = "INTENT_READ"
       /\ DatabaseFree
       /\ HoldsLease(e)
       /\ att[a].state = "AUTHORIZED"
       /\ \/ /\ verdict = "BOUND"
             /\ att' = [att EXCEPT ![a].state = "WRITE_INTENT_COMMITTED",
                                   ![a].intentAt = now]
             /\ Goto(e, "COMMITTED")
          \/ /\ verdict # "BOUND"
             /\ att' = [att EXCEPT ![a] = Closed(@, verdict, @.count)]
             /\ Return(e)
       /\ UNCHANGED <<now, config, candidateOk, approvals, pending, requests, gw,
                      ledger, sent, crashes>>

\* _reserve, before its transaction: a readback that fails is already a doubt.
ReadForReserve(e) ==
    /\ ex[e].pc = "COMMITTED"
    /\ \E obs \in Readbacks :
           ex' = [ex EXCEPT ![e].obs = obs,
                            ![e].pc = IF obs = Unread THEN "UNCERTAIN"
                                      ELSE "RESERVE_READ"]
    /\ UNCHANGED <<now, config, candidateOk, approvals, att, pending, requests, gw,
                   ledger, sent, crashes>>

MayReserve(e) ==
    LET a == ex[e].att
        p == att[a].approval
    IN /\ att[a].state = "WRITE_INTENT_COMMITTED"
       /\ HoldsLease(e)
       /\ ApprovalActive(p)
       /\ candidateOk
       /\ StateVerdict(p, ex[e].obs) = "BOUND"
       /\ AuthorizationLive(a)
       /\ ex[e].obs.at >= att[a].intentAt

\* Variant: the write is counted as zero until a receipt says otherwise.
ReserveAsZero(e) ==
    /\ ex[e].pc = "RESERVE_READ"
    /\ DatabaseFree
    /\ MayReserve(e)
    /\ att' = [att EXCEPT ![ex[e].att].state = "EXECUTING",
                          ![ex[e].att].dispatched = TRUE]
    /\ Goto(e, "DISPATCHED")
    /\ UNCHANGED <<now, config, candidateOk, approvals, pending, requests, gw,
                   ledger, sent, crashes>>

\* _reserve: the dispatch row, and a forward_write_count that is now unknown.
Reserve(e) ==
    /\ ex[e].pc = "RESERVE_READ"
    /\ DatabaseFree
    /\ \/ /\ MayReserve(e)
          /\ att' = [att EXCEPT ![ex[e].att].state = "EXECUTING",
                                ![ex[e].att].dispatched = TRUE,
                                ![ex[e].att].count = "UNKNOWN"]
          /\ Goto(e, "DISPATCHED")
       \/ /\ ~MayReserve(e)
          /\ Goto(e, "UNCERTAIN")
          /\ UNCHANGED att
    /\ UNCHANGED <<now, config, candidateOk, approvals, pending, requests, gw,
                   ledger, sent, crashes>>

\* _execute_new_intent hands the dispatch to the adapter, once, in time.
CallGateway(e) ==
    /\ ex[e].pc = "DISPATCHED"
    /\ \/ /\ now < att[ex[e].att].authExp
          /\ requests' = requests \cup {[att |-> ex[e].att, caller |-> e]}
          /\ Goto(e, "WAITING")
       \/ /\ now >= att[ex[e].att].authExp
          /\ Goto(e, "UNCERTAIN")
          /\ UNCHANGED requests
    /\ UNCHANGED <<now, config, candidateOk, approvals, att, pending, gw, ledger,
                   sent, crashes>>

\* RestoreNotAppliedV1: an adapter that proves it did not write, with a readback
\* that still shows the fault.
AdapterRejects(e) ==
    /\ ProvenRejection
    /\ ex[e].pc = "DISPATCHED"
    /\ now < att[ex[e].att].authExp
    /\ config = "FAULT"
    /\ ex' = [ex EXCEPT ![e].pc = "REJECTED",
                        ![e].obs = [at |-> now, config |-> "FAULT"]]
    /\ UNCHANGED <<now, config, candidateOk, approvals, att, pending, requests, gw,
                   ledger, sent, crashes>>

\* The adapter raises: refusal, broken connection or client timeout.
CallFails(e) ==
    /\ ex[e].pc = "WAITING"
    /\ Goto(e, "UNCERTAIN")
    /\ UNCHANGED <<now, config, candidateOk, approvals, att, pending, requests, gw,
                   ledger, sent, crashes>>

\* persist_receipt: it compares the row's lease with the row itself, so only the
\* clock can make it refuse.
PersistReceipt(e) ==
    LET a == ex[e].att
        accepted == att[a].state = "EXECUTING" /\ LeaseLive(a)
    IN /\ ex[e].pc \in {"ANSWERED", "REJECTED"}
       /\ DatabaseFree
       /\ \/ /\ accepted /\ ex[e].pc = "ANSWERED"
             /\ att' = [att EXCEPT ![a] =
                    [Closed(@, "APPLIED", "ONE") EXCEPT !.receipt = "APPLIED"]]
             /\ Return(e)
          \/ /\ accepted /\ ex[e].pc = "REJECTED"
             /\ att' = [att EXCEPT ![a] =
                    [Closed(@, "EXECUTION_FAILED", "ZERO")
                        EXCEPT !.receipt = "FAILED"]]
             /\ Return(e)
          \/ /\ ~accepted
             /\ Goto(e, "UNCERTAIN")
             /\ UNCHANGED att
       /\ UNCHANGED <<now, config, candidateOk, approvals, pending, requests, gw,
                      ledger, sent, crashes>>

\* Variant: a restarted executor takes the committed intent up again.
ReconcileByRetry(e, a) ==
    /\ ex[e].pc = "IDLE"
    /\ att[a].state = "WRITE_INTENT_COMMITTED"
    /\ ~LeaseLive(a)
    /\ ex' = [ex EXCEPT ![e] = [pc |-> "COMMITTED", att |-> a, gen |-> att[a].gen,
                                obs |-> Unread]]
    /\ UNCHANGED <<now, config, candidateOk, approvals, att, pending, requests, gw,
                   ledger, sent, crashes>>

\* Variant: an attempt that reached the gateway is nobody's to reconcile.
ReconcileIntentsOnly(e, a) ==
    /\ ex[e].pc = "IDLE"
    /\ att[a].state = "WRITE_INTENT_COMMITTED"
    /\ ~LeaseLive(a)
    /\ \E obs \in Readbacks \ {Unread} :
           ex' = [ex EXCEPT ![e] = [pc |-> "RECONCILING", att |-> a, gen |-> 0,
                                    obs |-> obs]]
    /\ UNCHANGED <<now, config, candidateOk, approvals, att, pending, requests, gw,
                   ledger, sent, crashes>>

\* executor_main on a committed intent it does not hold: a readback must
\* succeed, whatever it shows, before the attempt may be marked.
Reconcile(e, a) ==
    /\ ex[e].pc = "IDLE"
    /\ att[a].state \in {"WRITE_INTENT_COMMITTED", "EXECUTING"}
    /\ ~LeaseLive(a)
    /\ \E obs \in Readbacks \ {Unread} :
           ex' = [ex EXCEPT ![e] = [pc |-> "RECONCILING", att |-> a, gen |-> 0,
                                    obs |-> obs]]
    /\ UNCHANGED <<now, config, candidateOk, approvals, att, pending, requests, gw,
                   ledger, sent, crashes>>

\* mark_unknown: a terminal attempt is returned as it is.
MarkUnknown(e) ==
    LET a == ex[e].att IN
    /\ ex[e].pc \in {"UNCERTAIN", "RECONCILING"}
    /\ DatabaseFree
    /\ \/ /\ Terminal(a)
          /\ UNCHANGED att
       \/ /\ att[a].state \in ActiveStates \ {"AUTHORIZED"}
          /\ att' = [att EXCEPT ![a] = Closed(@, "OUTCOME_UNKNOWN",
                 IF @.state = "EXECUTING" THEN "UNKNOWN" ELSE @.count)]
    /\ Return(e)
    /\ UNCHANGED <<now, config, candidateOk, approvals, pending, requests, gw,
                   ledger, sent, crashes>>

\* verify: its first transaction on an APPLIED attempt.  The lease ends at the
\* horizon at the latest, which only makes it expire earlier.
StartVerify(e, a) ==
    /\ ex[e].pc = "IDLE"
    /\ DatabaseFree
    /\ att[a].state = "APPLIED"
    /\ att' = [att EXCEPT ![a].state = "VERIFYING", ![a].gen = @ + 1,
                          ![a].leaseExp = Least(now + VerifyTerm, MaxTime)]
    /\ ex' = [ex EXCEPT ![e] = [pc |-> "VERIFYING", att |-> a,
                                gen |-> att[a].gen + 1, obs |-> Unread]]
    /\ UNCHANGED <<now, config, candidateOk, approvals, pending, requests, gw,
                   ledger, sent, crashes>>

\* verify on a VERIFYING attempt whose lease has run out: the lease stays as it
\* is, and the recovery windows already stored are all there will be.
ResumeVerify(e, a) ==
    /\ ex[e].pc = "IDLE"
    /\ DatabaseFree
    /\ att[a].state = "VERIFYING"
    /\ ~LeaseLive(a)
    /\ ex' = [ex EXCEPT ![e] = [pc |-> "VERIFYING", att |-> a,
                                gen |-> att[a].gen, obs |-> Unread]]
    /\ UNCHANGED <<now, config, candidateOk, approvals, att, pending, requests, gw,
                   ledger, sent, crashes>>

\* Variant: the verdict of a verifier that was overtaken is stored all the same.
FinishVerifyAlways(e) ==
    /\ ex[e].pc = "VERIFYING"
    /\ DatabaseFree
    /\ \E verdict \in {"RECOVERED", "VERIFICATION_FAILED"} :
           att' = [att EXCEPT ![ex[e].att] = Closed(@, verdict, @.count)]
    /\ Return(e)
    /\ UNCHANGED <<now, config, candidateOk, approvals, pending, requests, gw,
                   ledger, sent, crashes>>

\* verify: its last transaction.  The windows that decide the verdict are the
\* subject of module RecoveryVerification; here either verdict may come.
FinishVerify(e) ==
    LET a == ex[e].att IN
    /\ ex[e].pc = "VERIFYING"
    /\ DatabaseFree
    /\ \/ /\ Terminal(a)
          /\ UNCHANGED att
       \/ /\ ~Terminal(a)
          /\ \E verdict \in {"RECOVERED", "VERIFICATION_FAILED"} :
                 att' = [att EXCEPT ![a] = Closed(@, verdict, @.count)]
    /\ Return(e)
    /\ UNCHANGED <<now, config, candidateOk, approvals, pending, requests, gw,
                   ledger, sent, crashes>>

--------------------------------------------------------------------------------
(* The control gateway: restore(), one call at a time *)

MayRestore(a) ==
    LET p == att[a].approval IN
    /\ att[a].state = "EXECUTING"
    /\ LeaseLive(a)
    /\ att[a].dispatched
    /\ ApprovalActive(p)
    /\ candidateOk
    /\ config # "OTHER"
    /\ StateVerdict(p, [at |-> now, config |-> config]) = "BOUND"
    /\ now < att[a].authExp

\* A request reaches the gateway, and may be posted to it again with nobody
\* waiting for the answer.  BEGIN IMMEDIATE, the checks under the writer lock.
GatewayAccept(r) ==
    /\ gw.pc = "IDLE"
    /\ r \in requests
    /\ \/ requests' = requests \ {r}
       \/ requests' = (requests \ {r}) \cup {[att |-> r.att, caller |-> NoOne]}
    /\ \/ /\ MayRestore(r.att)
          /\ gw' = [pc |-> "FENCED", att |-> r.att, caller |-> r.caller]
       \/ /\ ~MayRestore(r.att)
          /\ UNCHANGED gw
    /\ UNCHANGED <<now, config, candidateOk, approvals, att, pending, ex, ledger,
                   sent, crashes>>

\* Variant: INSERT OR IGNORE into the ledger.
GatewayConsumeAgain ==
    /\ gw.pc = "FENCED"
    /\ ledger' = ledger \cup {gw.att}
    /\ gw' = [gw EXCEPT !.pc = "CONSUMED"]
    /\ UNCHANGED <<now, config, candidateOk, approvals, att, pending, ex, requests,
                   sent, crashes>>

\* The insert into the gateway's own ledger, committed before the send.  Its
\* primary key refuses an intent that was consumed before.
GatewayConsume ==
    /\ gw.pc = "FENCED"
    /\ \/ /\ gw.att \notin ledger
          /\ ledger' = ledger \cup {gw.att}
          /\ gw' = [gw EXCEPT !.pc = "CONSUMED"]
       \/ /\ gw.att \in ledger
          /\ gw' = IdleGateway
          /\ UNCHANGED ledger
    /\ UNCHANGED <<now, config, candidateOk, approvals, att, pending, ex, requests,
                   sent, crashes>>

\* Ownership, expiry and lease once more, after the intent is consumed.
GatewayClear ==
    /\ gw.pc = "CONSUMED"
    /\ \/ /\ now < att[gw.att].authExp
          /\ LeaseLive(gw.att)
          /\ gw' = [gw EXCEPT !.pc = "CLEARED"]
       \/ gw' = IdleGateway
    /\ UNCHANGED <<now, config, candidateOk, approvals, att, pending, ex, requests,
                   ledger, sent, crashes>>

\* The one POST, answered or not.  Neither answer says whether it took effect.
GatewaySend ==
    /\ gw.pc = "CLEARED"
    /\ sent' = [sent EXCEPT ![gw.att] = @ + 1]
    /\ config' \in {config, "BASELINE"}
    /\ \/ gw' = [gw EXCEPT !.pc = "READBACK"]
       \/ gw' = IdleGateway
    /\ UNCHANGED <<now, candidateOk, approvals, att, pending, ex, requests, ledger,
                   crashes>>

\* The readback after COMMIT: the caller is answered if it still waits, and an
\* outcome that stays unconfirmed is an error to it.
GatewayReadback ==
    /\ gw.pc = "READBACK"
    /\ \/ /\ config = "BASELINE"
          /\ ex' = [e \in Executors |->
                 IF e = gw.caller /\ ex[e].pc = "WAITING" /\ ex[e].att = gw.att
                 THEN [ex[e] EXCEPT !.pc = "ANSWERED",
                                    !.obs = [at |-> now, config |-> "BASELINE"]]
                 ELSE ex[e]]
       \/ UNCHANGED ex
    /\ gw' = IdleGateway
    /\ UNCHANGED <<now, config, candidateOk, approvals, att, pending, requests,
                   ledger, sent, crashes>>

--------------------------------------------------------------------------------
(* Time, the environment and crashes *)

Tick ==
    /\ now < MaxTime
    /\ now' = now + 1
    /\ UNCHANGED <<config, candidateOk, approvals, att, pending, ex, requests, gw,
                   ledger, sent, crashes>>

Drift ==
    /\ config' \in Configs \ {config}
    /\ UNCHANGED <<now, candidateOk, approvals, att, pending, ex, requests, gw,
                   ledger, sent, crashes>>

\* Another baseline becomes active: a transaction of the same database.
RetireBaseline ==
    /\ DatabaseFree
    /\ candidateOk
    /\ candidateOk' = FALSE
    /\ UNCHANGED <<now, config, approvals, att, pending, ex, requests, gw, ledger,
                   sent, crashes>>

Crash ==
    /\ crashes < MaxCrashes
    /\ crashes' = crashes + 1
    /\ UNCHANGED <<now, config, candidateOk, approvals, att, ledger, sent>>

\* An executor stops, by itself or on an exception, and restarts with nothing.
ExecutorCrash(e) ==
    /\ ex[e].pc # "IDLE"
    /\ Return(e)
    /\ Crash
    /\ UNCHANGED <<pending, requests, gw>>

\* SQLite drops the gateway's lock; its connections break.
GatewayCrash ==
    /\ gw.pc # "IDLE"
    /\ gw' = IdleGateway
    /\ requests' = {}
    /\ Crash
    /\ UNCHANGED <<pending, ex>>

\* The API process stops between the readback and the transaction.
ApiCrash(a) ==
    /\ pending[a] # NoOne
    /\ pending' = [pending EXCEPT ![a] = NoOne]
    /\ Crash
    /\ UNCHANGED <<ex, requests, gw>>

--------------------------------------------------------------------------------
(* The specification *)

Init ==
    /\ now = 1
    /\ config = "FAULT"
    /\ candidateOk = TRUE
    /\ approvals = [p \in Approvals |-> AbsentApproval]
    /\ att = [a \in Attempts |-> AbsentAttempt]
    /\ pending = [a \in Attempts |-> NoOne]
    /\ ex = [e \in Executors |-> IdleExecutor]
    /\ requests = {}
    /\ gw = IdleGateway
    /\ ledger = {}
    /\ sent = [a \in Attempts |-> 0]
    /\ crashes = 0

Api ==
    \/ \E p \in Approvals : Approve(p) \/ Revoke(p)
    \/ \E a \in Attempts : ReadForCreate(a) \/ Cancel(a) \/ ReconcileExpired(a)
    \/ \E a \in Attempts, p \in Approvals : CreateAttempt(a, p)

Executor(e) ==
    \/ \E a \in Attempts : \/ Claim(e, a) \/ ClaimExpired(e, a)
                           \/ Reconcile(e, a)
                           \/ StartVerify(e, a) \/ ResumeVerify(e, a)
    \/ ReadForIntent(e) \/ LoseLease(e) \/ CommitIntent(e)
    \/ ReadForReserve(e) \/ Reserve(e)
    \/ CallGateway(e) \/ AdapterRejects(e) \/ CallFails(e)
    \/ PersistReceipt(e) \/ MarkUnknown(e) \/ FinishVerify(e)

Gateway ==
    \/ \E r \in requests : GatewayAccept(r)
    \/ GatewayConsume \/ GatewayClear \/ GatewaySend \/ GatewayReadback

Environment ==
    \/ Tick \/ Drift \/ RetireBaseline \/ GatewayCrash
    \/ \E e \in Executors : ExecutorCrash(e)
    \/ \E a \in Attempts : ApiCrash(a)

Next == Api \/ (\E e \in Executors : Executor(e)) \/ Gateway \/ Environment

Spec == Init /\ [][Next]_vars

\* The executor and the gateway keep running and time passes; the API's callers,
\* drift and crashes owe nothing.
FairSpec ==
    /\ Spec
    /\ \A e \in Executors : WF_vars(Executor(e))
    /\ WF_vars(Gateway)
    /\ WF_vars(Tick)

--------------------------------------------------------------------------------
(* Properties *)

\* Every variable stays in its range: the attempt rows carry only the states, counts
\* and times the attempt contract allows, and the processes only their own steps.
TypeOK ==
    /\ now \in 1..MaxTime
    /\ config \in Configs
    /\ candidateOk \in BOOLEAN
    /\ approvals \in [Approvals -> ApprovalRows]
    /\ att \in [Attempts -> AttemptRows]
    /\ pending \in [Attempts -> Observations \cup {NoOne}]
    /\ ex \in [Executors -> ExecutorRows]
    /\ requests \subseteq [att : Attempts, caller : Executors \cup {NoOne}]
    /\ gw \in GatewayRows
    /\ ledger \subseteq Attempts
    /\ sent \in [Attempts -> Nat]
    /\ crashes \in 0..MaxCrashes

\* One approval buys at most one external write, whatever is redelivered, retried,
\* reclaimed after a lease expires, or restarted after a crash: at most one send for
\* an attempt, and never two written attempts under one approval.
AtMostOneWrite ==
    /\ \A a \in Attempts : sent[a] <= 1
    /\ \A a, b \in Attempts :
           /\ a # b
           /\ sent[a] > 0
           /\ sent[b] > 0
           => att[a].approval # att[b].approval

\* forward_write_count never lies about the world: a stored 0 is a confirmed zero and
\* a stored 1 a confirmed write; everything in between must be stored as unknown, from
\* the moment of the dispatch on, whichever process dies when.
CountIsTrue ==
    \A a \in Attempts : /\ att[a].count = "ZERO" => sent[a] = 0
                        /\ att[a].count = "ONE" => sent[a] = 1

\* The gates of create() hold against concurrent requests that took their readbacks
\* before either transaction: one active attempt on the target, and an approval
\* authorizes one attempt only, though denied attempts do not use it up.
AuthorityIsUnique ==
    \A a, b \in Attempts :
        a # b => /\ ~(Active(a) /\ Active(b))
                 /\ Authorized(a) /\ Authorized(b)
                        => att[a].approval # att[b].approval

\* Past the intent an attempt has one driver: the executor that committed it.  One that
\* lost its lease and one that reclaimed the attempt never both carry it to the gateway.
SingleDriver ==
    \A e, f \in Executors :
        /\ e # f
        /\ ex[e].att = ex[f].att
        /\ ex[e].pc \in {"COMMITTED", "RESERVE_READ", "DISPATCHED", "WAITING",
                         "ANSWERED", "REJECTED"}
        => ex[f].pc \notin {"COMMITTED", "RESERVE_READ", "DISPATCHED", "WAITING",
                            "ANSWERED", "REJECTED"}

\* Only an authorized attempt is ever active or consumed by the gateway.
AuthorityHeld ==
    /\ \A a \in Attempts : /\ Active(a) => Authorized(a)
                           /\ att[a].state = "ABSENT" => ~Authorized(a)
    /\ \A a \in ledger : Authorized(a)

\* From the gateway's checks to its send nothing it checked in the database moves.
FenceStands ==
    gw.pc \in {"FENCED", "CONSUMED", "CLEARED"} =>
        /\ att[gw.att].state = "EXECUTING"
        /\ ~approvals[att[gw.att].approval].revoked
        /\ candidateOk

\* The ledger is ahead of the sends.
LedgerAhead ==
    /\ gw.pc \in {"CONSUMED", "CLEARED"} => gw.att \in ledger /\ sent[gw.att] = 0
    /\ \A a \in Attempts : sent[a] <= 1 /\ (sent[a] > 0 => a \in ledger)

\* What makes the writes of one approval one write, wherever the processes stand: a
\* consumed intent is an authorized one; the attempt, its approval and its candidate
\* stand still under the writer lock until the send; and the ledger is ahead of the
\* sends, so that a restarted gateway and a repeated request cannot send again.
WriteIsEarned == AuthorityHeld /\ FenceStands /\ LedgerAhead

\* The send happens under the writer fence: at that step the attempt is still
\* executing, its approval has not been revoked since the gateway checked it, its
\* candidate still stands, and its intent is consumed in the ledger.
SendIsFenced ==
    [][\A a \in Attempts : sent'[a] # sent[a] =>
           /\ att[a].state = "EXECUTING"
           /\ ~approvals[att[a].approval].revoked
           /\ candidateOk
           /\ a \in ledger]_vars

\* A terminal attempt is final: no later transaction of any process changes its row,
\* and no late, repeated or resumed request writes on its behalf.
TerminalIsFinal ==
    [][\A a \in Attempts : Terminal(a) =>
           att'[a] = att[a] /\ sent'[a] = sent[a]]_vars

\* An intent is committed by the holder of the live lease of the latest generation, on
\* a readback taken after the authorization that shows the fault, while the approval
\* is neither revoked nor expired: nothing read earlier justifies a write.
IntentIsCurrent ==
    [][\A a \in Attempts : ~HasIntent(a) /\ HasIntent(a)' =>
           \E e \in Executors :
               /\ ex[e].att = a /\ HoldsLease(e)
               /\ ex[e].obs.config = "FAULT"
               /\ att[a].authIss < ex[e].obs.at
               /\ ApprovalActive(att[a].approval)
               /\ \A f \in Executors \ {e} : ex[f].att = a => ~HoldsLease(f)]_vars

\* The stage of an attempt in the abstract specification.
Stage(a) ==
    LET s == att[a].state IN
    CASE s = "ABSENT" -> "none"
      [] s = "AUTHORIZED" -> "authorized"
      [] s \in {"WRITE_INTENT_COMMITTED", "EXECUTING"} -> "doubtful"
      [] s \in {"APPLIED", "VERIFYING"} -> "applied"
      [] s = "RECOVERED" -> "recovered"
      [] s = "VERIFICATION_FAILED" -> "unrecovered"
      [] s = "EXECUTION_FAILED" -> "failed"
      [] s = "OUTCOME_UNKNOWN" -> "unknown"
      [] OTHER -> "refused"

Promise == INSTANCE BoundedWrite WITH
    stage <- [a \in Attempts |-> Stage(a)],
    spent <- {p \in Approvals : Consumed(p)},
    writes <- sent

\* The executors, the gateway and the API together do what BoundedWrite promises: each
\* of their transactions and sends is one of its steps or changes nothing it sees.
KeepsPromise == Promise!Spec

\* Every attempt settles: crashes, lost answers and expired leases never leave one
\* occupying the target for ever, provided the configuration becomes readable for good
\* (what happens otherwise is DoubtIsReported).
AttemptsSettle ==
    <>[](config # "OTHER") => \A a \in Attempts : Active(a) ~> Terminal(a)

\* REMEDIATION.md: an uncertain write or receipt is kept as OUTCOME_UNKNOWN and handed
\* to a human.  So a committed intent without a receipt does not stay as it is, even if
\* only from when the configuration has stopped changing.
DoubtIsReported ==
    <>[][FALSE]_config =>
        \A a \in Attempts :
            att[a].state \in {"WRITE_INTENT_COMMITTED", "EXECUTING"}
                ~> att[a].state \notin {"WRITE_INTENT_COMMITTED", "EXECUTING"}
================================================================================
