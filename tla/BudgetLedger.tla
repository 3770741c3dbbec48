------------------------------ MODULE BudgetLedger -----------------------------
(***************************************************************************)
(* The budget ledger of one diagnosis run (phase2/budgets.py) with the two    *)
(* callers that leave its lock between two of its operations: the tool        *)
(* registry (tool_isolation.py), which claims a dispatch, runs the executor   *)
(* and seals the outcome, and the model adapter (comparison_adapter.py),      *)
(* which expands a lease, calls the provider and charges its usage.           *)
(*                                                                            *)
(* A record is named by its capacity slot: a slot leaves HELD once, so it has *)
(* at most one authorization, and a slot or its authorization is expanded at  *)
(* most once, so it has at most one lease.  Every operation but the sealing   *)
(* of an outcome names the snapshot sequence it was prepared at and is        *)
(* refused at any other; a refused operation changes nothing, so an action    *)
(* stands for the accepted one, and the sequence itself is kept only where a  *)
(* refusal has an effect: live is the model call prepared at the current one. *)
(***************************************************************************)
EXTENDS Integers, FiniteSets, FiniteSetsExt

CONSTANTS
    Slots,          \* capacity slots a run may hold, numbered as they are created
    NoSlot,
    Variants,       \* the kinds of run
    MaxSlots,       \* bound: slots a run of each kind creates
    MaxModelCalls, MaxToolCalls, MaxTokens,   \* the outer caps
    Floor,          \* minimum token floor of each operation
    Inputs,         \* exact input tokens of a model call
    MinCompletion,  \* frozen completion floor of a model call
    FixedSpecialists    \* specialists of a fixed workflow (four)

Ops == {"SINGLE", "COMMANDER", "SPECIALIST", "FIRST_JUDGE", "REFINING_JUDGE", "FINAL_JUDGE"}

ASSUME NoSlotAssumption == NoSlot \notin Slots
ASSUME SlotsAssumption ==
    Slots \subseteq Nat /\ IsFiniteSet(Slots) /\ MaxSlots \in [Variants -> Nat]
ASSUME CapsAssumption ==
    MaxModelCalls \in Nat /\ MaxToolCalls \in Nat /\ MaxTokens \in Nat
ASSUME TokensAssumption ==
    Floor \in [Ops -> Nat] /\ Inputs \subseteq Nat /\ MinCompletion \in Nat /\ FixedSpecialists \in Nat

VARIABLES
    variant,    \* the kind of this run
    slot,       \* status of each capacity slot
    op,         \* operation each slot permits
    auth,       \* status of the authorization made from a slot
    receipt,    \* sealed outcome of its tool dispatch
    lease,      \* the exact lease made from a slot or its authorization
    bundle,     \* the conditional refinement bundle
    spent,      \* charged model calls, tool calls and tokens
    terminal,   \* the terminal failure code
    lapsed,     \* whether the records have passed their expiry
    calling,    \* slots whose provider call has not been answered
    live        \* the one of them whose lease snapshot is still current

vars == <<variant, slot, op, auth, receipt, lease, bundle, spent, terminal, lapsed, calling, live>>

--------------------------------------------------------------------------------
SlotStatuses == {"NONE", "HELD", "MATERIALIZED", "RELEASED", "EXPIRED"}
AuthStatuses == {"NONE", "TOOL_AUTHORIZED", "TOOL_DISPATCHING", "TOOL_CHARGED",
                 "MODEL_LEASED", "COMPLETED", "RELEASED", "FAILED"}
Receipts == {"NONE", "SUCCESS", "FAILURE"}
Leases == [status : {"NONE", "RESERVED", "CHARGED", "RETURNED", "EXPIRED"},
           input : Nat, reserved : Nat, used : Nat]
\* A lease that reserves nothing any more is kept for what it used.
Closed(status, used) == [status |-> status, input |-> 0, reserved |-> 0, used |-> used]
NoLease == Closed("NONE", 0)
Bundles == [status : {"NONE", "HELD", "PARTIALLY_CONSUMED", "RELEASED", "COMPLETED"},
            first : Slots \cup {NoSlot}, specialists : SUBSET Slots,
            final : Slots \cup {NoSlot}]
NoBundle == [status |-> "NONE", first |-> NoSlot, specialists |-> {}, final |-> NoSlot]
Failures == {"USAGE", "STALE", "OVERFLOW", "CAS_CONFLICT"}

Init ==
    /\ variant \in Variants
    /\ slot = [s \in Slots |-> "NONE"]
    /\ op = [s \in Slots |-> "NONE"]
    /\ auth = [s \in Slots |-> "NONE"]
    /\ receipt = [s \in Slots |-> "NONE"]
    /\ lease = [s \in Slots |-> NoLease]
    /\ bundle = NoBundle
    /\ spent = [model |-> 0, tool |-> 0, tokens |-> 0]
    /\ terminal = "NONE"
    /\ lapsed = FALSE
    /\ calling = {}
    /\ live = NoSlot

--------------------------------------------------------------------------------
(* What the records reserve.                                                  *)

Held == {s \in Slots : slot[s] = "HELD"}
Waiting == {s \in Slots : auth[s] \in {"TOOL_AUTHORIZED", "TOOL_DISPATCHING"}}
Ready == {s \in Slots : auth[s] = "TOOL_CHARGED"}
Reserved == {s \in Slots : lease[s].status = "RESERVED"}

HeldModelCalls ==
    Cardinality(Held) + Cardinality(Waiting) + Cardinality(Ready) + Cardinality(Reserved)

HeldToolCalls == Cardinality({s \in Held : op[s] = "SPECIALIST"}) + Cardinality(Waiting)

Floors(S) == MapThenSumSet(LAMBDA s : Floor[op[s]], S)

LeasedTokens == MapThenSumSet(LAMBDA s : lease[s].reserved, Reserved)

HeldTokens == Floors(Held \cup Waiting \cup Ready) + LeasedTokens

\* Variant: a lease takes whatever other leases leave, floors or not.
AvailableToLeases(s) == MaxTokens - spent.tokens - LeasedTokens

\* What a call made from slot s may take: all that no other record was promised.
Available(s) ==
    MaxTokens - spent.tokens - LeasedTokens - Floors((Held \cup Waiting \cup Ready) \ {s})

\* requests is a function from unused slots to the operations asked for; freed are held
\* model slots that the same transaction gives back.
CallsFit(requests, freed) ==
    LET new == DOMAIN requests IN
    /\ spent.model + HeldModelCalls - Cardinality(freed) + Cardinality(new) <= MaxModelCalls
    /\ spent.tool + HeldToolCalls + Cardinality({s \in new : requests[s] = "SPECIALIST"})
         <= MaxToolCalls

TokensFit(requests, freed) ==
    spent.tokens + HeldTokens - Floors(freed)
      + MapThenSumSet(LAMBDA s : Floor[requests[s]], DOMAIN requests) <= MaxTokens

Fits(requests, freed) == CallsFit(requests, freed) /\ TokensFit(requests, freed)

Members == {bundle.first, bundle.final} \cup bundle.specialists

BundleIsActive == bundle.status \in {"HELD", "PARTIALLY_CONSUMED"}

Bundled(s) == BundleIsActive /\ s \in Members

FirstJudgeCharged == \E s \in Slots : s = bundle.first /\ lease[s].status = "CHARGED"

\* Variant: one finished specialist is enough.
FinalJudgeAfterOne ==
    /\ bundle.status = "PARTIALLY_CONSUMED"
    /\ FirstJudgeCharged
    /\ \E s \in bundle.specialists : auth[s] = "COMPLETED"

\* The final judge may speak once every specialist kept for the refinement is done.
FinalJudgeReady ==
    /\ bundle.status = "PARTIALLY_CONSUMED"
    /\ FirstJudgeCharged
    /\ \E s \in bundle.specialists : slot[s] # "RELEASED"
    /\ \A s \in bundle.specialists :
         \/ slot[s] = "RELEASED"
         \/ slot[s] = "MATERIALIZED" /\ auth[s] = "COMPLETED"

Unused == {s \in Slots : slot[s] = "NONE" /\ s <= MaxSlots[variant]}

\* Every record gets the next identifier nobody has had.
Fresh(new) == new \subseteq Unused /\ \A s \in new, t \in Unused \ new : s < t

Pristine == slot = [s \in Slots |-> "NONE"] /\ spent = [model |-> 0, tool |-> 0, tokens |-> 0]

Operational == terminal = "NONE"

--------------------------------------------------------------------------------
(* Holding capacity.                                                          *)

\* The batch is held as a whole or not at all.
BuildSlots(requests, freed) ==
    /\ Fresh(DOMAIN requests)
    /\ Fits(requests, freed)
    /\ slot' = [s \in Slots |-> IF s \in DOMAIN requests THEN "HELD"
                               ELSE IF s \in freed THEN "RELEASED" ELSE slot[s]]
    /\ op' = [s \in Slots |-> IF s \in DOMAIN requests THEN requests[s] ELSE op[s]]

HoldCapacitySlots(requests) ==
    /\ Operational
    /\ bundle.status = "NONE"
    /\ BuildSlots(requests, {})
    /\ live' = NoSlot
    /\ UNCHANGED <<variant, auth, receipt, lease, bundle, spent, terminal, calling>>

\* The slots a workflow holds one by one: every slot of it has the same deadline.
HoldOne(s, o) ==
    /\ ~lapsed
    /\ \/ variant = "FIXED" /\ o = "SPECIALIST"
       \/ variant = "FIXED" /\ o = "FINAL_JUDGE" /\ \A t \in Slots : op[t] # o
       \/ variant = "DYNAMIC" /\ o = "FIRST_JUDGE" /\ \A t \in Slots : op[t] # o
    /\ HoldCapacitySlots([t \in {s} |-> o])
    /\ UNCHANGED lapsed

\* The adapter admits a single agent's call under its lock, with a deadline of its own.
AdmitSingleAgentCall(s) ==
    /\ variant = "SINGLE_AGENT"
    /\ Held = {} /\ calling = {}
    /\ HoldCapacitySlots([t \in {s} |-> "SINGLE"])
    /\ lapsed' = FALSE

InitializeDynamic(c, s, j) ==
    /\ variant = "DYNAMIC"
    /\ Pristine /\ ~lapsed
    /\ c < s /\ s < j
    /\ HoldCapacitySlots([t \in {c, s, j} |-> IF t = c THEN "COMMANDER"
                                              ELSE IF t = s THEN "SPECIALIST"
                                              ELSE "FIRST_JUDGE"])
    /\ UNCHANGED lapsed

InitializeFixed(specialists, j) ==
    /\ variant = "FIXED"
    /\ Pristine /\ ~lapsed
    /\ Cardinality(specialists) = FixedSpecialists
    /\ \A s \in specialists : s < j
    /\ HoldCapacitySlots([t \in specialists \cup {j} |-> IF t = j THEN "FINAL_JUDGE"
                                                         ELSE "SPECIALIST"])
    /\ UNCHANGED lapsed

\* Once the commander is charged, its plan may ask for up to two specialists more.
ResizeDynamicInitialPlan(c, b, j, new) ==
    /\ Operational
    /\ variant = "DYNAMIC"
    /\ spent.model = 1 /\ spent.tool = 0
    /\ Reserved = {} /\ ~BundleIsActive
    /\ \A s \in Slots : auth[s] \in {"NONE", "COMPLETED", "RELEASED", "FAILED"}
    /\ slot[c] = "MATERIALIZED" /\ op[c] = "COMMANDER"
    /\ b # j /\ Held = {b, j}
    /\ op[b] = "SPECIALIST" /\ op[j] = "FIRST_JUDGE"
    /\ ~lapsed
    /\ Cardinality(new) <= 2
    /\ BuildSlots([t \in new |-> "SPECIALIST"], {})
    /\ live' = NoSlot
    /\ UNCHANGED <<variant, auth, receipt, lease, bundle, spent, terminal, lapsed, calling>>

CloseCapacitySlot(s) ==
    /\ Operational
    /\ ~Bundled(s)
    /\ slot[s] = "HELD"
    /\ \/ slot' = [slot EXCEPT ![s] = "RELEASED"]
       \/ lapsed /\ slot' = [slot EXCEPT ![s] = "EXPIRED"]
    /\ live' = NoSlot
    /\ UNCHANGED <<variant, op, auth, receipt, lease, bundle, spent, terminal, lapsed, calling>>

--------------------------------------------------------------------------------
(* The conditional refinement bundle.                                         *)

\* The held first judge is replaced by one that may ask for a refinement, with the
\* two specialists and the final judge such a refinement would need.
ReplaceFirstJudgeWithBundle(old, first, specialists, final) ==
    /\ Operational
    /\ variant = "DYNAMIC"
    /\ bundle.status = "NONE"
    /\ Cardinality(specialists) = 2
    /\ \A s \in specialists : first < s /\ s < final
    /\ slot[old] = "HELD" /\ op[old] = "FIRST_JUDGE" /\ ~lapsed
    /\ BuildSlots([s \in {first, final} \cup specialists |->
                     IF s = first THEN "REFINING_JUDGE"
                     ELSE IF s = final THEN "FINAL_JUDGE" ELSE "SPECIALIST"],
                  {old})
    /\ bundle' = [status |-> "HELD", first |-> first, specialists |-> specialists,
                  final |-> final]
    /\ live' = NoSlot
    /\ UNCHANGED <<variant, auth, receipt, lease, spent, terminal, lapsed, calling>>

\* After the first judge: either the refinement is wanted, and exactly the specialists
\* not authorized for it are given back, or it is not, and everything unused is.
ReleaseUnusedRefinementMembers(used) ==
    LET retain == used # {}
        back == bundle.specialists \ used
    IN
    /\ Operational
    /\ bundle.status = "HELD"
    /\ used \subseteq bundle.specialists
    /\ FirstJudgeCharged
    /\ \A s \in used : slot[s] = "MATERIALIZED"
    /\ \A s \in back : slot[s] = "HELD"
    /\ retain \/ slot[bundle.final] = "HELD"
    /\ slot' = [s \in Slots |-> IF s \in back \/ (~retain /\ s = bundle.final)
                                THEN "RELEASED" ELSE slot[s]]
    /\ bundle' = [bundle EXCEPT !.status = IF retain THEN "PARTIALLY_CONSUMED"
                                           ELSE "RELEASED"]
    /\ live' = NoSlot
    /\ UNCHANGED <<variant, op, auth, receipt, lease, spent, terminal, lapsed, calling>>

CompleteBundle ==
    /\ Operational
    /\ bundle.status = "PARTIALLY_CONSUMED"
    /\ \A s \in {bundle.first, bundle.final} :
         slot[s] = "MATERIALIZED" /\ lease[s].status = "CHARGED"
    /\ \A s \in bundle.specialists :
         \/ slot[s] = "RELEASED"
         \/ slot[s] = "MATERIALIZED" /\ auth[s] = "COMPLETED"
    /\ bundle' = [bundle EXCEPT !.status = "COMPLETED"]
    /\ live' = NoSlot
    /\ UNCHANGED <<variant, slot, op, auth, receipt, lease, spent, terminal, lapsed, calling>>

\* Variant: an abort fails every specialist of the bundle, the finished ones included.
AbortEverySpecialist(s, auths, leases) ==
    IF ~Bundled(s)
    THEN /\ auth' = auths /\ lease' = leases
         /\ UNCHANGED <<slot, bundle>>
    ELSE /\ slot' = [t \in Slots |-> IF t \in Members /\ slot[t] = "HELD" THEN "RELEASED"
                                     ELSE slot[t]]
         /\ auth' = [t \in Slots |-> IF t \in bundle.specialists /\ auths[t] # "NONE"
                                     THEN "FAILED" ELSE auths[t]]
         /\ lease' = leases
         /\ bundle' = [bundle EXCEPT !.status = "RELEASED"]

\* A step that gives up on slot s, when s belongs to an active bundle, gives up on the
\* bundle: its held slots and unused authorizations are released, its specialists past
\* their tool are failed and their leases returned.  A dispatch under way is left alone.
WithAbort(s, auths, leases) ==
    LET spoiled == {t \in bundle.specialists : auths[t] \in {"TOOL_CHARGED", "MODEL_LEASED"}}
    IN
    IF ~Bundled(s)
    THEN /\ auth' = auths /\ lease' = leases
         /\ UNCHANGED <<slot, bundle>>
    ELSE /\ slot' = [t \in Slots |-> IF t \in Members /\ slot[t] = "HELD" THEN "RELEASED"
                                     ELSE slot[t]]
         /\ auth' = [t \in Slots |->
                       IF t \in bundle.specialists /\ auths[t] = "TOOL_AUTHORIZED"
                       THEN "RELEASED"
                       ELSE IF t \in spoiled THEN "FAILED" ELSE auths[t]]
         /\ lease' = [t \in Slots |->
                        IF t \in spoiled /\ leases[t].status = "RESERVED"
                        THEN Closed("RETURNED", 0) ELSE leases[t]]
         /\ bundle' = [bundle EXCEPT !.status = "RELEASED"]

--------------------------------------------------------------------------------
(* A specialist's authorization and the dispatch of its tool.                 *)

MaterializeSpecialistAuthorization(s) ==
    /\ Operational
    /\ slot[s] = "HELD"
    /\ op[s] = "SPECIALIST"
    /\ (Bundled(s) /\ s \in bundle.specialists) => FirstJudgeCharged
    /\ ~lapsed
    /\ slot' = [slot EXCEPT ![s] = "MATERIALIZED"]
    /\ auth' = [auth EXCEPT ![s] = "TOOL_AUTHORIZED"]
    /\ live' = NoSlot
    /\ UNCHANGED <<variant, op, receipt, lease, bundle, spent, terminal, lapsed, calling>>

\* The registry reads the authorization and the sequence, claims, and runs the executor.
ClaimSpecialistToolDispatch(s) ==
    /\ Operational
    /\ auth[s] = "TOOL_AUTHORIZED"
    /\ slot[s] = "MATERIALIZED" /\ lease[s].status # "RESERVED"
    /\ ~lapsed
    /\ auth' = [auth EXCEPT ![s] = "TOOL_DISPATCHING"]
    /\ live' = NoSlot
    /\ UNCHANGED <<variant, slot, op, receipt, lease, bundle, spent, terminal, lapsed, calling>>

\* The outcome names its claim and no sequence: it is sealed whatever happened since,
\* the expiry of the authorization and a terminal failure included.
SealOutcome(s, outcome, next) ==
    /\ receipt[s] = "NONE"
    /\ auth[s] = "TOOL_DISPATCHING"
    /\ auth' = [auth EXCEPT ![s] = next]
    /\ receipt' = [receipt EXCEPT ![s] = outcome]
    /\ spent' = [spent EXCEPT !.tool = @ + 1]
    /\ live' = NoSlot
    /\ UNCHANGED <<variant, slot, op, lease, bundle, terminal, lapsed, calling>>

CompleteSpecialistToolDispatch(s) == SealOutcome(s, "SUCCESS", "TOOL_CHARGED")

\* Variant: only a successful dispatch is charged.
FailWithoutCharge(s) ==
    /\ auth[s] = "TOOL_DISPATCHING"
    /\ auth' = [auth EXCEPT ![s] = "FAILED"]
    /\ receipt' = [receipt EXCEPT ![s] = "FAILURE"]
    /\ live' = NoSlot
    /\ UNCHANGED <<variant, slot, op, lease, bundle, spent, terminal, lapsed, calling>>

FailSpecialistToolDispatch(s) == SealOutcome(s, "FAILURE", "FAILED")

\* Variant: a member of an active bundle is released like any other authorization.
ReleaseBundledToo(s) ==
    /\ Operational
    /\ auth[s] = "TOOL_AUTHORIZED"
    /\ auth' = [auth EXCEPT ![s] = "RELEASED"]
    /\ live' = NoSlot
    /\ UNCHANGED <<variant, slot, op, receipt, lease, bundle, spent, terminal, lapsed, calling>>

ReleaseSpecialistAuthorization(s) ==
    /\ Operational
    /\ ~Bundled(s)
    /\ auth[s] = "TOOL_AUTHORIZED"
    /\ auth' = [auth EXCEPT ![s] = "RELEASED"]
    /\ live' = NoSlot
    /\ UNCHANGED <<variant, slot, op, receipt, lease, bundle, spent, terminal, lapsed, calling>>

\* Variant: a failed specialist is written off after the run has ended as well.
FailAfterTheEnd(s) ==
    /\ auth[s] \in {"TOOL_CHARGED", "MODEL_LEASED"}
    /\ WithAbort(s, [auth EXCEPT ![s] = "FAILED"],
                 IF lease[s].status = "RESERVED"
                 THEN [lease EXCEPT ![s] = Closed("RETURNED", 0)] ELSE lease)
    /\ live' = NoSlot
    /\ UNCHANGED <<variant, op, receipt, spent, terminal, lapsed, calling>>

FailSpecialistAuthorization(s) ==
    /\ Operational
    /\ auth[s] \in {"TOOL_CHARGED", "MODEL_LEASED"}
    /\ WithAbort(s, [auth EXCEPT ![s] = "FAILED"],
                 IF lease[s].status = "RESERVED"
                 THEN [lease EXCEPT ![s] = Closed("RETURNED", 0)] ELSE lease)
    /\ live' = NoSlot
    /\ UNCHANGED <<variant, op, receipt, spent, terminal, lapsed, calling>>

CompleteSpecialistAuthorization(s) ==
    /\ Operational
    /\ auth[s] = "MODEL_LEASED"
    /\ lease[s].status = "CHARGED"
    /\ auth' = [auth EXCEPT ![s] = "COMPLETED"]
    /\ live' = NoSlot
    /\ UNCHANGED <<variant, slot, op, receipt, lease, bundle, spent, terminal, lapsed, calling>>

--------------------------------------------------------------------------------
(* Model calls.                                                               *)

\* Variant: a claimed dispatch already entitles its specialist to a model call.
LeaseBeforeOutcome(s) ==
    \/ auth[s] \in {"TOOL_DISPATCHING", "TOOL_CHARGED"}
    \/ slot[s] = "HELD" /\ op[s] # "SPECIALIST"

\* What a lease is made from: the charged authorization of a specialist, or a held
\* slot of any other operation.
LeaseSource(s) ==
    \/ auth[s] = "TOOL_CHARGED"
    \/ /\ slot[s] = "HELD" /\ op[s] # "SPECIALIST"
       /\ (BundleIsActive /\ s = bundle.final) => FinalJudgeReady

\* The adapter asks for everything no other record was promised, then calls the provider,
\* holding its own lock, but not the ledger's, until the answer has been dealt with.
ExpandExactModelLease(s, input) ==
    /\ Operational
    /\ calling = {}
    /\ LeaseSource(s)
    /\ ~lapsed
    /\ input + MinCompletion <= Available(s)
    /\ lease' = [lease EXCEPT ![s] = [status |-> "RESERVED", input |-> input,
                                      reserved |-> Available(s), used |-> 0]]
    /\ IF auth[s] = "TOOL_CHARGED"
       THEN auth' = [auth EXCEPT ![s] = "MODEL_LEASED"] /\ UNCHANGED slot
       ELSE slot' = [slot EXCEPT ![s] = "MATERIALIZED"] /\ UNCHANGED auth
    /\ calling' = calling \cup {s}
    /\ live' = s
    /\ UNCHANGED <<variant, op, receipt, bundle, spent, terminal, lapsed>>

Answered(s) == s \in calling /\ calling' = calling \ {s} /\ live' = NoSlot

\* Variant: the charge replaces a reservation that was never counted as spent.
ChargeByDifference(s, used) ==
    /\ Operational
    /\ live = s
    /\ lease[s].status = "RESERVED"
    /\ Answered(s)
    /\ used \in lease[s].input .. lease[s].reserved
    /\ lease' = [lease EXCEPT ![s] = Closed("CHARGED", used)]
    /\ spent' = [spent EXCEPT !.model = @ + 1, !.tokens = @ + used - lease[s].reserved]
    /\ UNCHANGED <<variant, slot, op, auth, receipt, bundle, terminal, lapsed>>

\* Variant: whatever the provider says it used is charged.
ChargeBeyondLease(s, used) ==
    /\ Operational
    /\ live = s
    /\ lease[s].status = "RESERVED"
    /\ Answered(s)
    /\ lease' = [lease EXCEPT ![s] = Closed("CHARGED", used)]
    /\ spent' = [spent EXCEPT !.model = @ + 1, !.tokens = @ + used]
    /\ UNCHANGED <<variant, slot, op, auth, receipt, bundle, terminal, lapsed>>

\* The provider answers with usage the lease covers, and nothing was committed since.
ChargeExactModelLease(s, used) ==
    /\ Operational
    /\ live = s
    /\ lease[s].status = "RESERVED"
    /\ Answered(s)
    /\ used \in lease[s].input .. lease[s].reserved
    /\ lease' = [lease EXCEPT ![s] = Closed("CHARGED", used)]
    /\ spent' = [spent EXCEPT !.model = @ + 1, !.tokens = @ + used]
    /\ UNCHANGED <<variant, slot, op, auth, receipt, bundle, terminal, lapsed>>

Latch(code) ==
    /\ Operational
    /\ terminal' = code
    /\ UNCHANGED <<variant, slot, op, auth, receipt, lease, bundle, spent, lapsed>>

\* Nothing that reaches the provider escapes: an answer without chargeable usage, one
\* whose snapshot has gone, and one whose charge could not be committed end the run.
CallFails(s) ==
    /\ Answered(s)
    /\ \/ Latch("USAGE")
       \/ live # s /\ Latch("CAS_CONFLICT")
       \/ live = s /\ Latch("STALE")

\* An answer after the run has ended is dropped.
LateAnswer(s) ==
    /\ ~Operational
    /\ Answered(s)
    /\ UNCHANGED <<variant, slot, op, auth, receipt, lease, bundle, spent, terminal, lapsed>>

ReturnExactModelLease(s) ==
    /\ Operational
    /\ lease[s].status = "RESERVED"
    /\ WithAbort(s, auth, [lease EXCEPT ![s] = Closed("RETURNED", 0)])
    /\ live' = NoSlot
    /\ UNCHANGED <<variant, op, receipt, spent, terminal, lapsed, calling>>

ExpireModelLease(s) ==
    /\ Operational
    /\ lease[s].status = "RESERVED"
    /\ lapsed
    /\ WithAbort(s, auth, [lease EXCEPT ![s] = Closed("EXPIRED", 0)])
    /\ live' = NoSlot
    /\ UNCHANGED <<variant, op, receipt, spent, terminal, lapsed, calling>>

--------------------------------------------------------------------------------
(* The rest of the ledger, and time.                                          *)

\* A single agent's tool call is charged before it is dispatched.
ChargeSingleAgentToolAttempt ==
    /\ Operational
    /\ variant = "SINGLE_AGENT"
    /\ calling = {}
    /\ IF spent.tool + 1 > MaxToolCalls
       THEN /\ terminal' = "OVERFLOW"
            /\ UNCHANGED spent
       ELSE /\ spent' = [spent EXCEPT !.tool = @ + 1]
            /\ UNCHANGED terminal
    /\ live' = NoSlot
    /\ UNCHANGED <<variant, slot, op, auth, receipt, lease, bundle, lapsed, calling>>

\* A caller that cannot go on, or a charge repeated with other figures.
RecordTerminalFailure ==
    /\ Latch("USAGE")
    /\ live' = NoSlot
    /\ UNCHANGED calling

ConflictingDuplicateCharge(s) ==
    /\ lease[s].status = "CHARGED"
    /\ Latch("USAGE")
    /\ live' = NoSlot
    /\ UNCHANGED calling

\* The records of a workflow share its deadline.
Lapse ==
    /\ ~lapsed
    /\ Held \cup Waiting \cup Ready \cup Reserved # {}
    /\ lapsed' = TRUE
    /\ UNCHANGED <<variant, slot, op, auth, receipt, lease, bundle, spent, terminal,
                   calling, live>>

Hold ==
    \/ \E s \in Unused : AdmitSingleAgentCall(s) \/ \E o \in Ops : HoldOne(s, o)
    \/ \E c, s, j \in Unused : InitializeDynamic(c, s, j)
    \/ \E S \in SUBSET Unused, j \in Unused : InitializeFixed(S, j)
    \/ \E c, b, j \in Slots, new \in SUBSET Unused : ResizeDynamicInitialPlan(c, b, j, new)
    \/ \E s \in Slots : CloseCapacitySlot(s)

Refine ==
    \/ \E old \in Held, first, final \in Unused, S \in SUBSET Unused :
          ReplaceFirstJudgeWithBundle(old, first, S, final)
    \/ \E used \in SUBSET Slots : ReleaseUnusedRefinementMembers(used)
    \/ CompleteBundle

Specialist(s) ==
    \/ MaterializeSpecialistAuthorization(s)
    \/ ClaimSpecialistToolDispatch(s)
    \/ CompleteSpecialistToolDispatch(s)
    \/ FailSpecialistToolDispatch(s)
    \/ ReleaseSpecialistAuthorization(s)
    \/ FailSpecialistAuthorization(s)
    \/ CompleteSpecialistAuthorization(s)

ModelCall(s) ==
    \/ \E input \in Inputs : ExpandExactModelLease(s, input)
    \/ \E used \in 0 .. MaxTokens : ChargeExactModelLease(s, used)
    \/ CallFails(s)
    \/ LateAnswer(s)
    \/ ReturnExactModelLease(s)
    \/ ExpireModelLease(s)
    \/ ConflictingDuplicateCharge(s)

Next ==
    \/ Hold
    \/ Refine
    \/ \E s \in Slots : Specialist(s) \/ ModelCall(s)
    \/ ChargeSingleAgentToolAttempt
    \/ RecordTerminalFailure
    \/ Lapse

Spec == Init /\ [][Next]_vars

--------------------------------------------------------------------------------
TypeOK ==
    /\ variant \in Variants
    /\ slot \in [Slots -> SlotStatuses]
    /\ op \in [Slots -> Ops \cup {"NONE"}]
    /\ auth \in [Slots -> AuthStatuses]
    /\ receipt \in [Slots -> Receipts]
    /\ lease \in [Slots -> Leases]
    /\ bundle \in Bundles
    /\ spent \in [model : Nat, tool : Nat, tokens : Nat]
    /\ terminal \in Failures \cup {"NONE"}
    /\ lapsed \in BOOLEAN
    /\ calling \subseteq Slots
    /\ live \in Slots \cup {NoSlot}

CallsAreConserved ==
    /\ spent.model + HeldModelCalls <= MaxModelCalls
    /\ spent.tool + HeldToolCalls <= MaxToolCalls

TokensAreConserved == spent.tokens + HeldTokens <= MaxTokens

\* What is charged and what is reserved never exceed a cap together, whatever is
\* aborted, expires or is sealed late: the accounting check every commit repeats on its
\* snapshot never refuses one, and no valid charge meets the cumulative caps.
CapsAreKept == CallsAreConserved /\ TokensAreConserved

\* The counters are those of the records: a model call is counted once for its charged
\* lease, its tokens are what that lease used, and a claimed dispatch counts one tool
\* call whether its outcome was a success or a failure.
ChargesAreRecorded ==
    LET charged == {s \in Slots : lease[s].status = "CHARGED"} IN
    /\ spent.model = Cardinality(charged)
    /\ spent.tokens = MapThenSumSet(LAMBDA s : lease[s].used, charged)
    /\ variant # "SINGLE_AGENT" => spent.tool = Cardinality({s \in Slots : receipt[s] # "NONE"})

\* A specialist's model is leased only on a sealed success of its own tool, a completed
\* specialist has paid for both, and an authorization given back unused has run nothing.
ModelsFollowTools ==
    \A s \in Slots :
       /\ op[s] = "SPECIALIST" /\ lease[s].status # "NONE" => receipt[s] = "SUCCESS"
       /\ auth[s] = "COMPLETED" => receipt[s] = "SUCCESS" /\ lease[s].status = "CHARGED"
       /\ auth[s] = "FAILED" => receipt[s] # "NONE"
       /\ auth[s] = "RELEASED" => receipt[s] = "NONE" /\ lease[s].status = "NONE"

\* The final judge of a refinement speaks after the first judge was charged and every
\* specialist the refinement kept, at least one, was completed.
FinalJudgeIsLast ==
    bundle.final # NoSlot =>
    \A j \in Slots : j = bundle.final /\ lease[j].status # "NONE" =>
       /\ FirstJudgeCharged
       /\ \E s \in bundle.specialists : auth[s] = "COMPLETED"
       /\ \A s \in bundle.specialists : auth[s] = "COMPLETED" \/ slot[s] = "RELEASED"

\* While a bundle is active no member is released or expired one by one, its final judge
\* keeps its floor, and floors are given up only once the bundle is consumed in part;
\* once it is closed, no floor and no unused authorization of it is left behind.  A member
\* whose dispatch has failed does stay in an active bundle: the failure by itself
\* aborts nothing.
BundleIsWhole ==
    /\ BundleIsActive =>
         \A s \in Slots : s \in Members =>
            /\ slot[s] # "EXPIRED"
            /\ slot[s] = "RELEASED" => bundle.status = "PARTIALLY_CONSUMED"
                                       /\ s \in bundle.specialists
            /\ auth[s] # "RELEASED"
    /\ bundle.status \in {"RELEASED", "COMPLETED"} =>
         \A s \in Slots : s \in Members => slot[s] # "HELD" /\ auth[s] # "TOOL_AUTHORIZED"

TerminalStep ==
    terminal # "NONE" =>
       /\ UNCHANGED <<terminal, slot, op, lease, bundle>>
       /\ spent'.model = spent.model /\ spent'.tokens = spent.tokens
       /\ \A s \in Slots : auth[s] # "TOOL_DISPATCHING" =>
                            auth'[s] = auth[s] /\ receipt'[s] = receipt[s]

\* Once the run has failed, the code stands and nothing but the outcome of a dispatch
\* claimed before is recorded any more.
TerminalIsFinal == [][TerminalStep]_vars

HistoryStep ==
    /\ \A s \in Slots :
         /\ receipt[s] # "NONE" => receipt'[s] = receipt[s]
         /\ lease[s].status \notin {"NONE", "RESERVED"} => lease'[s] = lease[s]
         /\ auth[s] \in {"COMPLETED", "RELEASED", "FAILED"} => auth'[s] = auth[s]
         /\ slot[s] \notin {"NONE", "HELD"} => slot'[s] = slot[s]
    /\ bundle.status \in {"RELEASED", "COMPLETED"} => bundle' = bundle

\* What is sealed, charged or closed is never written again, by an abort least of all.
HistoryStands == [][HistoryStep]_vars

--------------------------------------------------------------------------------
(* The ledger keeps three accounts.                                           *)

Models == INSTANCE CapacityPool
          WITH Cap <- MaxModelCalls, spent <- spent.model, held <- HeldModelCalls,
               open <- Operational

Tools == INSTANCE CapacityPool
         WITH Cap <- MaxToolCalls, spent <- spent.tool, held <- HeldToolCalls,
              open <- Operational

Tokens == INSTANCE CapacityPool
          WITH Cap <- MaxTokens, spent <- spent.tokens, held <- HeldTokens,
               open <- Operational

\* Calls and tokens are promised before they are used, within the cap; a lease grows only
\* out of what nobody else was promised, a call never uses more than its lease, and a
\* closed run only settles the promises it has given.
KeepsAccounts == Models!Spec /\ Tools!Spec /\ Tokens!Spec
================================================================================
