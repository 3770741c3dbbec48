--------------------------- MODULE BudgetLedgerProofs --------------------------
(***************************************************************************)
(* Proofs about BudgetLedger, for any set of slots, any caps, any floors    *)
(* and any number of specialists.                                           *)
(***************************************************************************)
EXTENDS BudgetLedger, FiniteSums

--------------------------------------------------------------------------------
(* The inductive invariant *)

\* The records of one slot agree with each other: the slot is used up before there is an
\* authorization or a lease, a specialist's lease comes after the success of its tool, and
\* an outcome is sealed exactly when the authorization has passed its dispatch.
Lineage ==
    \A s \in Slots :
       /\ slot[s] = "NONE" <=> op[s] = "NONE"
       /\ slot[s] # "MATERIALIZED" => auth[s] = "NONE" /\ lease[s].status = "NONE"
       /\ auth[s] # "NONE" => op[s] = "SPECIALIST"
       /\ auth[s] \in {"NONE", "TOOL_AUTHORIZED", "TOOL_DISPATCHING", "RELEASED"}
            <=> receipt[s] = "NONE"
       /\ auth[s] \in {"TOOL_CHARGED", "MODEL_LEASED", "COMPLETED"} => receipt[s] = "SUCCESS"
       /\ auth[s] \in {"TOOL_AUTHORIZED", "TOOL_DISPATCHING", "TOOL_CHARGED", "RELEASED"}
            => lease[s].status = "NONE"
       /\ auth[s] = "COMPLETED" => lease[s].status = "CHARGED"
       /\ op[s] = "SPECIALIST" /\ lease[s].status # "NONE" => receipt[s] = "SUCCESS"

\* A single agent's run holds nothing but its own model calls.
SingleAgents == variant = "SINGLE_AGENT" => \A s \in Slots : op[s] \in {"NONE", "SINGLE"}

\* A bundle has four different members with the operations they were asked for.
BundleShape ==
    /\ bundle.status = "NONE" => bundle = NoBundle
    /\ bundle.status # "NONE" =>
         /\ bundle.first \in Slots /\ op[bundle.first] = "REFINING_JUDGE"
         /\ bundle.final \in Slots /\ op[bundle.final] = "FINAL_JUDGE"
         /\ \A s \in bundle.specialists : op[s] = "SPECIALIST"

--------------------------------------------------------------------------------
(* What is reserved, slot by slot *)

\* Slots and authorizations that hold their floor.
Promised == Held \cup Waiting \cup Ready

\* Slots that hold a model call.
Holding == Promised \cup Reserved

\* Slots that hold a tool call.
Tooling == {s \in Held : op[s] = "SPECIALIST"} \cup Waiting

\* The tokens a slot holds.
Worth == [s \in Slots |-> IF s \in Promised THEN Floor[op[s]]
                          ELSE IF s \in Reserved THEN lease[s].reserved ELSE 0]

Charged == {s \in Slots : lease[s].status = "CHARGED"}

\* The tokens a slot has used.
Used == [s \in Slots |-> IF s \in Charged THEN lease[s].used ELSE 0]

\* The function that is worth the floor of F at the slots of S and nothing elsewhere.
FloorsOf(F, S) == [s \in Slots |-> IF s \in S THEN Floor[F[s]] ELSE 0]

Sealed == {s \in Slots : receipt[s] # "NONE"}

\* The slots are finitely many.
LEMMA SlotsAreFinite == IsFiniteSet(Slots) /\ \A S \in SUBSET Slots : IsFiniteSet(S)
BY SlotsAssumption, FS_Subset

\* A sum of floors over a set of slots, whatever function gives their operations.
LEMMA FloorSum ==
    ASSUME NEW F, NEW S \in SUBSET Slots, \A s \in S : F[s] \in Ops
    PROVE  MapThenSumSet(LAMBDA s : Floor[F[s]], S) = Total(FloorsOf(F, S), Slots)
<1> DEFINE g == FloorsOf(F, S)
           P(f) == f = [s \in SUBSET S |->
                          IF s = {} THEN 0 ELSE Floor[F[CHOOSE x \in s : TRUE]]
                                                + f[s \ {CHOOSE x \in s : TRUE}]]
<1>1. MapThenSumSet(LAMBDA s : Floor[F[s]], S) = (CHOOSE f : P(f))[S]
  BY SMT DEF MapThenSumSet, MapThenFoldSet
<1>2. ASSUME NEW s \in SUBSET S, s # {} PROVE g[Chosen(s)] = Floor[F[CHOOSE x \in s : TRUE]]
  <2>1. Chosen(s) \in s
    BY <1>2, ChosenIsMember
  <2> QED
    BY <2>1 DEF Chosen, FloorsOf
<1>3. ASSUME NEW f PROVE P(f) <=> Adds(f, g, S)
  <2> DEFINE L == [s \in SUBSET S |->
                     IF s = {} THEN 0 ELSE Floor[F[CHOOSE x \in s : TRUE]]
                                           + f[s \ {CHOOSE x \in s : TRUE}]]
             R == [s \in SUBSET S |->
                     IF s = {} THEN 0 ELSE g[Chosen(s)] + f[s \ {Chosen(s)}]]
  <2> HIDE DEF g
  <2>1. \A s \in SUBSET S : L[s] = R[s]
    BY <1>2 DEF Chosen
  <2>2. L = R
    BY <2>1
  <2> QED
    BY <2>2 DEF Adds
<1>4. (CHOOSE f : P(f)) = Adder(g, S)
  <2> HIDE DEF P, g
  <2> QED
    BY <1>3, Zenon DEF Adder
<1>5. \A s \in Slots : g[s] \in Nat
  BY TokensAssumption DEF FloorsOf
<1>6. \A s \in Slots \ S : g[s] = 0
  BY DEF FloorsOf
<1> HIDE DEF P, g
<1>7. Total(g, S) = Total(g, Slots)
  BY <1>5, <1>6, SlotsAreFinite, TotalPart
<1> QED
  BY <1>1, <1>4, <1>7 DEF Total, g

\* What a set of slots reserves in floors.
LEMMA FloorsAreTotals ==
    ASSUME NEW S \in SUBSET Slots, \A s \in S : op[s] \in Ops
    PROVE  Floors(S) = Total(FloorsOf(op, S), Slots)
BY FloorSum DEF Floors

\* What a batch asks for in floors.
LEMMA RequestsAreTotals ==
    ASSUME NEW r, DOMAIN r \in SUBSET Slots, \A s \in DOMAIN r : r[s] \in Ops, NEW freed
    PROVE  TokensFit(r, freed) =
             (spent.tokens + HeldTokens - Floors(freed)
                + Total(FloorsOf(r, DOMAIN r), Slots) <= MaxTokens)
BY FloorSum DEF TokensFit

\* A sum of one field of the leases over a set of slots.
LEMMA ReservedSum ==
    ASSUME NEW L, NEW S \in SUBSET Slots, \A s \in S : L[s].reserved \in Nat
    PROVE  MapThenSumSet(LAMBDA s : L[s].reserved, S) =
             Total([s \in Slots |-> IF s \in S THEN L[s].reserved ELSE 0], Slots)
<1> DEFINE g == [s \in Slots |-> IF s \in S THEN L[s].reserved ELSE 0]
           P(f) == f = [s \in SUBSET S |->
                          IF s = {} THEN 0 ELSE L[CHOOSE x \in s : TRUE].reserved
                                                + f[s \ {CHOOSE x \in s : TRUE}]]
<1>1. MapThenSumSet(LAMBDA s : L[s].reserved, S) = (CHOOSE f : P(f))[S]
  BY SMT DEF MapThenSumSet, MapThenFoldSet
<1>2. ASSUME NEW s \in SUBSET S, s # {} PROVE g[Chosen(s)] = L[CHOOSE x \in s : TRUE].reserved
  <2>1. Chosen(s) \in s
    BY <1>2, ChosenIsMember
  <2> QED
    BY <2>1 DEF Chosen
<1>3. ASSUME NEW f PROVE P(f) <=> Adds(f, g, S)
  <2> DEFINE A == [s \in SUBSET S |->
                     IF s = {} THEN 0 ELSE L[CHOOSE x \in s : TRUE].reserved
                                           + f[s \ {CHOOSE x \in s : TRUE}]]
             R == [s \in SUBSET S |->
                     IF s = {} THEN 0 ELSE g[Chosen(s)] + f[s \ {Chosen(s)}]]
  <2> HIDE DEF g
  <2>1. \A s \in SUBSET S : A[s] = R[s]
    BY <1>2 DEF Chosen
  <2>2. A = R
    BY <2>1
  <2> QED
    BY <2>2 DEF Adds
<1>4. (CHOOSE f : P(f)) = Adder(g, S)
  <2> HIDE DEF P, g
  <2> QED
    BY <1>3, Zenon DEF Adder
<1>5. \A s \in Slots : g[s] \in Nat
  OBVIOUS
<1>6. \A s \in Slots \ S : g[s] = 0
  OBVIOUS
<1> HIDE DEF P, g
<1>7. Total(g, S) = Total(g, Slots)
  BY <1>5, <1>6, SlotsAreFinite, TotalPart
<1> QED
  BY <1>1, <1>4, <1>7 DEF Total, g

\* The same of the tokens leases have used.
LEMMA UsedSum ==
    ASSUME NEW L, NEW S \in SUBSET Slots, \A s \in S : L[s].used \in Nat
    PROVE  MapThenSumSet(LAMBDA s : L[s].used, S) =
             Total([s \in Slots |-> IF s \in S THEN L[s].used ELSE 0], Slots)
<1> DEFINE g == [s \in Slots |-> IF s \in S THEN L[s].used ELSE 0]
           P(f) == f = [s \in SUBSET S |->
                          IF s = {} THEN 0 ELSE L[CHOOSE x \in s : TRUE].used
                                                + f[s \ {CHOOSE x \in s : TRUE}]]
<1>1. MapThenSumSet(LAMBDA s : L[s].used, S) = (CHOOSE f : P(f))[S]
  BY SMT DEF MapThenSumSet, MapThenFoldSet
<1>2. ASSUME NEW s \in SUBSET S, s # {} PROVE g[Chosen(s)] = L[CHOOSE x \in s : TRUE].used
  <2>1. Chosen(s) \in s
    BY <1>2, ChosenIsMember
  <2> QED
    BY <2>1 DEF Chosen
<1>3. ASSUME NEW f PROVE P(f) <=> Adds(f, g, S)
  <2> DEFINE A == [s \in SUBSET S |->
                     IF s = {} THEN 0 ELSE L[CHOOSE x \in s : TRUE].used
                                           + f[s \ {CHOOSE x \in s : TRUE}]]
             R == [s \in SUBSET S |->
                     IF s = {} THEN 0 ELSE g[Chosen(s)] + f[s \ {Chosen(s)}]]
  <2> HIDE DEF g
  <2>1. \A s \in SUBSET S : A[s] = R[s]
    BY <1>2 DEF Chosen
  <2>2. A = R
    BY <2>1
  <2> QED
    BY <2>2 DEF Adds
<1>4. (CHOOSE f : P(f)) = Adder(g, S)
  <2> HIDE DEF P, g
  <2> QED
    BY <1>3, Zenon DEF Adder
<1>5. \A s \in Slots : g[s] \in Nat
  OBVIOUS
<1>6. \A s \in Slots \ S : g[s] = 0
  OBVIOUS
<1> HIDE DEF P, g
<1>7. Total(g, S) = Total(g, Slots)
  BY <1>5, <1>6, SlotsAreFinite, TotalPart
<1> QED
  BY <1>1, <1>4, <1>7 DEF Total, g

\* What the leases reserve together.
LEMMA LeasedIsTotal ==
    ASSUME \A s \in Slots : lease[s].reserved \in Nat
    PROVE  LeasedTokens = Total([s \in Slots |-> IF s \in Reserved THEN lease[s].reserved
                                                 ELSE 0], Slots)
<1>1. Reserved \in SUBSET Slots /\ \A s \in Reserved : lease[s].reserved \in Nat
  BY DEF Reserved
<1> QED
  BY <1>1, ReservedSum DEF LeasedTokens

\* Every token held is held by one slot, and a call made from a slot may take all but what
\* the other slots hold.
LEMMA HeldIsTotal ==
    ASSUME TypeOK, Lineage
    PROVE  /\ HeldTokens = Total(Worth, Slots)
           /\ \A s \in Held \cup Ready :
                Available(s) = MaxTokens - spent.tokens - (Total(Worth, Slots) - Worth[s])
<1> DEFINE leased == [s \in Slots |-> IF s \in Reserved THEN lease[s].reserved ELSE 0]
           floors == FloorsOf(op, Promised)
<1>1. /\ Promised \in SUBSET Slots
      /\ \A s \in Promised : op[s] \in Ops /\ s \notin Reserved
      /\ \A s \in Slots : lease[s].reserved \in Nat
  BY DEF TypeOK, Lineage, Promised, Held, Waiting, Ready, Reserved, Leases, Ops,
         SlotStatuses
<1>2. LeasedTokens = Total(leased, Slots)
  BY <1>1, LeasedIsTotal
<1>3. Floors(Promised) = Total(floors, Slots)
  BY <1>1, FloorsAreTotals
<1>4. \A s \in Slots : floors[s] \in Nat /\ leased[s] \in Nat /\ Worth[s] = floors[s] + leased[s]
  BY <1>1, TokensAssumption DEF FloorsOf, Worth
<1> HIDE DEF floors, leased
<1>5. Total(Worth, Slots) = Total(floors, Slots) + Total(leased, Slots)
  BY <1>4, SlotsAreFinite, TotalSum
<1>6. HeldTokens = Total(Worth, Slots)
  BY <1>2, <1>3, <1>5 DEF HeldTokens, Promised
<1>7. ASSUME NEW s \in Held \cup Ready
      PROVE  Available(s) = MaxTokens - spent.tokens - (Total(Worth, Slots) - Worth[s])
  <2> DEFINE others == FloorsOf(op, Promised \ {s})
  <2>1. s \in Slots /\ s \in Promised
    BY DEF Held, Ready, Promised
  <2>2. Floors(Promised \ {s}) = Total(others, Slots)
    BY <1>1, FloorsAreTotals
  <2>3. \A t \in Slots : others[t] \in Nat /\ (t # s => others[t] = floors[t])
    BY <1>1, TokensAssumption DEF FloorsOf, floors
  <2>4. others[s] = 0 /\ Worth[s] = floors[s]
    BY <1>1, <2>1 DEF FloorsOf, floors, Worth
  <2> HIDE DEF others
  <2>5. Total(others, Slots) + floors[s] = Total(floors, Slots) + others[s]
    BY <1>4, <2>1, <2>3, SlotsAreFinite, TotalUpdate
  <2>6. Total(others, Slots) \in Nat /\ Total(floors, Slots) \in Nat /\ Total(leased, Slots) \in Nat
    BY <1>4, <2>3, SlotsAreFinite, TotalIsNat
  <2>7. Available(s) = MaxTokens - spent.tokens - Total(leased, Slots) - Total(others, Slots)
    BY <1>2, <2>2 DEF Available, Promised
  <2>8. spent.tokens \in Nat /\ MaxTokens \in Nat /\ floors[s] \in Nat
    BY <1>4, <2>1, CapsAssumption DEF TypeOK
  <2> QED
    BY <1>5, <2>4, <2>5, <2>6, <2>7, <2>8
<1> QED
  BY <1>6, <1>7

\* Disjoint finite sets count together.
LEMMA DisjointCount ==
    ASSUME NEW A, IsFiniteSet(A), NEW B, IsFiniteSet(B), A \cap B = {}
    PROVE  IsFiniteSet(A \cup B) /\ Cardinality(A \cup B) = Cardinality(A) + Cardinality(B)
<1>1. Cardinality(A \cap B) = 0
  BY FS_EmptySet
<1>2. Cardinality(A) \in Nat /\ Cardinality(B) \in Nat
  BY FS_CardinalityType
<1>3. /\ IsFiniteSet(A \cup B)
      /\ Cardinality(A \cup B) = Cardinality(A) + Cardinality(B) - Cardinality(A \cap B)
  BY FS_Union
<1> QED
  BY <1>1, <1>2, <1>3

\* A slot holds at most one model call and at most one tool call.
LEMMA HeldIsCounted ==
    ASSUME TypeOK, Lineage
    PROVE  /\ HeldModelCalls = Cardinality(Holding) /\ HeldToolCalls = Cardinality(Tooling)
           /\ Holding \in SUBSET Slots /\ Tooling \in SUBSET Slots
<1> DEFINE askers == {s \in Held : op[s] = "SPECIALIST"}
<1>1. /\ Held \in SUBSET Slots /\ Waiting \in SUBSET Slots /\ Ready \in SUBSET Slots
      /\ Reserved \in SUBSET Slots /\ askers \in SUBSET Slots
  BY DEF Held, Waiting, Ready, Reserved
<1>2. /\ IsFiniteSet(Held) /\ IsFiniteSet(Waiting) /\ IsFiniteSet(Ready)
      /\ IsFiniteSet(Reserved) /\ IsFiniteSet(askers)
  BY <1>1, SlotsAreFinite
<1>3. /\ Held \cap Waiting = {} /\ (Held \cup Waiting) \cap Ready = {}
      /\ Promised \cap Reserved = {} /\ askers \cap Waiting = {}
  BY DEF Lineage, Promised, Held, Waiting, Ready, Reserved
<1> HIDE DEF askers
<1>4. /\ IsFiniteSet(Held \cup Waiting)
      /\ Cardinality(Held \cup Waiting) = Cardinality(Held) + Cardinality(Waiting)
  BY <1>2, <1>3, DisjointCount
<1>5. /\ IsFiniteSet(Promised)
      /\ Cardinality(Promised) = Cardinality(Held \cup Waiting) + Cardinality(Ready)
  BY <1>2, <1>3, <1>4, DisjointCount DEF Promised
<1>6. Cardinality(Holding) = Cardinality(Promised) + Cardinality(Reserved)
  BY <1>2, <1>3, <1>5, DisjointCount DEF Holding
<1>7. Cardinality(Tooling) = Cardinality(askers) + Cardinality(Waiting)
  BY <1>2, <1>3, DisjointCount DEF Tooling, askers
<1>8. HeldToolCalls = Cardinality(Tooling)
  BY <1>7 DEF HeldToolCalls, askers
<1> QED
  BY <1>1, <1>4, <1>5, <1>6, <1>8 DEF HeldModelCalls, Holding, Promised, Tooling

--------------------------------------------------------------------------------
(* Types and lineage *)

Records == TypeOK /\ Lineage /\ SingleAgents /\ BundleShape

\* The initial records are well-typed and agree.
LEMMA InitRecords == Init => Records
<1> SUFFICES ASSUME Init PROVE Records
  OBVIOUS
<1> USE DEF Init
<1>1. NoLease \in Leases /\ NoLease.status = "NONE"
  BY DEF NoLease, Closed, Leases
<1>2. NoBundle \in Bundles /\ NoBundle.status = "NONE"
  BY DEF NoBundle, Bundles
<1>3. TypeOK
  BY <1>1, <1>2 DEF TypeOK, SlotStatuses, AuthStatuses, Receipts
<1>4. Lineage
  BY <1>1 DEF Lineage
<1>5. SingleAgents /\ BundleShape
  BY <1>2 DEF SingleAgents, BundleShape
<1> QED
  BY <1>3, <1>4, <1>5 DEF Records

\* Holding a batch of fresh slots.
LEMMA HoldKeepsRecords ==
    ASSUME Records, NEW r, NEW freed \in SUBSET Held, BuildSlots(r, freed),
           \A s \in DOMAIN r : r[s] \in Ops,
           variant = "SINGLE_AGENT" => \A s \in DOMAIN r : r[s] = "SINGLE",
           UNCHANGED <<variant, auth, receipt, lease, spent, terminal, calling>>,
           lapsed' \in BOOLEAN, live' = NoSlot, bundle' \in Bundles
    PROVE  /\ TypeOK' /\ Lineage' /\ SingleAgents' /\ (bundle' = bundle => Records')
           /\ \A s \in DOMAIN r : s \in Slots /\ slot'[s] = "HELD" /\ op'[s] = r[s]
<1> USE DEF Records, TypeOK, Lineage, SingleAgents, BundleShape, BuildSlots, Fresh, Unused
<1>1. /\ slot' \in [Slots -> SlotStatuses] /\ op' \in [Slots -> Ops \cup {"NONE"}]
      /\ \A s \in DOMAIN r : s \in Slots /\ slot[s] = "NONE" /\ slot'[s] = "HELD" /\ op'[s] = r[s]
      /\ \A s \in freed : slot[s] = "HELD"
      /\ \A s \in Slots : s \notin DOMAIN r => op'[s] = op[s]
                            /\ slot'[s] = IF s \in freed THEN "RELEASED" ELSE slot[s]
  BY DEF SlotStatuses, Held
<1>2. TypeOK'
  BY <1>1
<1>3. Lineage'
  BY <1>1 DEF Ops
<1>4. SingleAgents'
  BY <1>1
<1>5. \A s \in Slots : op[s] # "NONE" => op'[s] = op[s]
  BY <1>1
<1>6. bundle.specialists \in SUBSET Slots
  BY DEF Bundles
<1>7. bundle' = bundle => BundleShape'
  BY <1>5, <1>6
<1> QED
  BY <1>1, <1>2, <1>3, <1>4, <1>7

\* What giving up on a slot may do to each record.
AbortEffect(auths, leases) ==
    /\ slot' \in [Slots -> SlotStatuses] /\ auth' \in [Slots -> AuthStatuses]
    /\ lease' \in [Slots -> Leases] /\ bundle' \in Bundles
    /\ \A t \in Slots :
         /\ slot'[t] = slot[t] \/ (slot[t] = "HELD" /\ slot'[t] = "RELEASED")
         /\ \/ auth'[t] = auths[t]
            \/ auths[t] = "TOOL_AUTHORIZED" /\ auth'[t] = "RELEASED"
            \/ auths[t] \in {"TOOL_CHARGED", "MODEL_LEASED"} /\ auth'[t] = "FAILED"
         /\ \/ lease'[t] = leases[t]
            \/ leases[t].status = "RESERVED" /\ lease'[t] = Closed("RETURNED", 0)
               /\ auths[t] \in {"TOOL_CHARGED", "MODEL_LEASED"}
    /\ \/ UNCHANGED bundle
       \/ BundleIsActive /\ bundle' = [bundle EXCEPT !.status = "RELEASED"]

LEMMA Aborts ==
    ASSUME Records, NEW s \in Slots, NEW auths \in [Slots -> AuthStatuses],
           NEW leases \in [Slots -> Leases], WithAbort(s, auths, leases)
    PROVE  AbortEffect(auths, leases)
<1> USE DEF Records, TypeOK, AbortEffect
<1>1. CASE ~Bundled(s)
  BY <1>1 DEF WithAbort
<1>2. CASE Bundled(s)
  <2> DEFINE spoiled == {t \in bundle.specialists : auths[t] \in {"TOOL_CHARGED", "MODEL_LEASED"}}
  <2>1. /\ slot' = [t \in Slots |-> IF t \in Members /\ slot[t] = "HELD" THEN "RELEASED"
                                    ELSE slot[t]]
        /\ auth' = [t \in Slots |->
                       IF t \in bundle.specialists /\ auths[t] = "TOOL_AUTHORIZED"
                       THEN "RELEASED"
                       ELSE IF t \in spoiled THEN "FAILED" ELSE auths[t]]
        /\ lease' = [t \in Slots |->
                        IF t \in spoiled /\ leases[t].status = "RESERVED"
                        THEN Closed("RETURNED", 0) ELSE leases[t]]
        /\ bundle' = [bundle EXCEPT !.status = "RELEASED"]
    BY <1>2 DEF WithAbort
  <2>2. slot' \in [Slots -> SlotStatuses] /\ auth' \in [Slots -> AuthStatuses]
    BY <2>1 DEF SlotStatuses, AuthStatuses
  <2>3. lease' \in [Slots -> Leases]
    BY <2>1 DEF Leases, Closed
  <2>4. bundle' \in Bundles
    BY <2>1 DEF Bundles
  <2> QED
    BY <1>2, <2>1, <2>2, <2>3, <2>4 DEF Bundled
<1> QED
  BY <1>1, <1>2

\* Giving up on a slot leaves records that agree.
LEMMA AbortKeepsRecords ==
    ASSUME Records, NEW s \in Slots, NEW auths \in [Slots -> AuthStatuses],
           NEW leases \in [Slots -> Leases], AbortEffect(auths, leases),
           \A t \in Slots \ {s} : auths[t] = auth[t] /\ leases[t] = lease[t],
           \/ auths[s] = auth[s]
           \/ auth[s] \in {"TOOL_CHARGED", "MODEL_LEASED"} /\ auths[s] = "FAILED",
           \/ leases[s] = lease[s]
           \/ lease[s].status = "RESERVED" /\ leases[s].status \in {"RETURNED", "EXPIRED"},
           UNCHANGED <<variant, op, receipt, spent, terminal, lapsed, calling>>,
           live' = NoSlot
    PROVE  Records'
<1> USE DEF Records, TypeOK, AbortEffect
<1>1. TypeOK'
  OBVIOUS
<1>2. Lineage'
  <2> SUFFICES ASSUME NEW t \in Slots
               PROVE  /\ slot'[t] = "NONE" <=> op[t] = "NONE"
                      /\ slot'[t] # "MATERIALIZED" => auth'[t] = "NONE" /\ lease'[t].status = "NONE"
                      /\ auth'[t] # "NONE" => op[t] = "SPECIALIST"
                      /\ auth'[t] \in {"NONE", "TOOL_AUTHORIZED", "TOOL_DISPATCHING", "RELEASED"}
                           <=> receipt[t] = "NONE"
                      /\ auth'[t] \in {"TOOL_CHARGED", "MODEL_LEASED", "COMPLETED"}
                           => receipt[t] = "SUCCESS"
                      /\ auth'[t] \in {"TOOL_AUTHORIZED", "TOOL_DISPATCHING", "TOOL_CHARGED",
                                       "RELEASED"} => lease'[t].status = "NONE"
                      /\ auth'[t] = "COMPLETED" => lease'[t].status = "CHARGED"
                      /\ op[t] = "SPECIALIST" /\ lease'[t].status # "NONE"
                           => receipt[t] = "SUCCESS"
    BY DEF Lineage
  <2>1. \/ auth'[t] = auth[t]
        \/ auth[t] = "TOOL_AUTHORIZED" /\ auth'[t] = "RELEASED"
        \/ auth[t] \in {"TOOL_CHARGED", "MODEL_LEASED"} /\ auth'[t] = "FAILED"
    OBVIOUS
  <2>2. \/ lease'[t] = lease[t]
        \/ lease[t].status = "RESERVED" /\ lease'[t].status \in {"RETURNED", "EXPIRED"}
    BY DEF Closed
  <2>3. slot'[t] = slot[t] \/ (slot[t] = "HELD" /\ slot'[t] = "RELEASED")
    OBVIOUS
  <2> QED
    BY <2>1, <2>2, <2>3 DEF Lineage
<1>3. SingleAgents'
  BY DEF SingleAgents
<1>4. BundleShape'
  BY DEF BundleShape, BundleIsActive, Bundles
<1> QED
  BY <1>1, <1>2, <1>3, <1>4

\* Every step keeps types, lineage and the shape of the bundle.
LEMMA StepKeepsRecords ==
    ASSUME Records, [Next]_vars
    PROVE  Records'
<1>1. ASSUME NEW r, HoldCapacitySlots(r), lapsed' \in BOOLEAN,
             \A s \in DOMAIN r : r[s] \in Ops,
             variant = "SINGLE_AGENT" => \A s \in DOMAIN r : r[s] = "SINGLE"
      PROVE  Records'
  BY <1>1, HoldKeepsRecords DEF HoldCapacitySlots, Records, TypeOK
<1>2. CASE Hold
  <2>1. ASSUME NEW s \in Unused, AdmitSingleAgentCall(s) PROVE Records'
    BY <1>1, <2>1 DEF AdmitSingleAgentCall, Ops
  <2>2. ASSUME NEW s \in Unused, NEW o \in Ops, HoldOne(s, o) PROVE Records'
    BY <1>1, <2>2 DEF HoldOne, Records, TypeOK
  <2>3. ASSUME NEW c \in Unused, NEW s \in Unused, NEW j \in Unused, InitializeDynamic(c, s, j)
        PROVE  Records'
    BY <1>1, <2>3 DEF InitializeDynamic, Records, TypeOK, Ops
  <2>4. ASSUME NEW S \in SUBSET Unused, NEW j \in Unused, InitializeFixed(S, j) PROVE Records'
    BY <1>1, <2>4 DEF InitializeFixed, Records, TypeOK, Ops
  <2>5. ASSUME NEW c \in Slots, NEW b \in Slots, NEW j \in Slots, NEW new \in SUBSET Unused,
               ResizeDynamicInitialPlan(c, b, j, new)
        PROVE  Records'
    <3> DEFINE r == [t \in new |-> "SPECIALIST"]
    <3>1. \A s \in DOMAIN r : r[s] \in Ops
      BY DEF Ops
    <3>2. BuildSlots(r, {}) /\ variant # "SINGLE_AGENT"
      BY <2>5 DEF ResizeDynamicInitialPlan
    <3> HIDE DEF r
    <3> QED
      BY <2>5, <3>1, <3>2, HoldKeepsRecords DEF ResizeDynamicInitialPlan, Records, TypeOK
  <2>6. ASSUME NEW s \in Slots, CloseCapacitySlot(s) PROVE Records'
    <3>1. TypeOK'
      BY <2>6 DEF CloseCapacitySlot, Records, TypeOK, SlotStatuses
    <3>2. Lineage'
      BY <2>6 DEF CloseCapacitySlot, Records, TypeOK, Lineage
    <3> QED
      BY <2>6, <3>1, <3>2 DEF CloseCapacitySlot, Records, SingleAgents, BundleShape
  <2> QED
    BY <1>2, <2>1, <2>2, <2>3, <2>4, <2>5, <2>6 DEF Hold
<1>3. CASE Refine
  <2>1. ASSUME NEW old \in Held, NEW first \in Unused, NEW final \in Unused,
               NEW S \in SUBSET Unused, ReplaceFirstJudgeWithBundle(old, first, S, final)
        PROVE  Records'
    <3> DEFINE r == [s \in {first, final} \cup S |-> IF s = first THEN "REFINING_JUDGE"
                                                     ELSE IF s = final THEN "FINAL_JUDGE"
                                                     ELSE "SPECIALIST"]
    <3>1. \A s \in DOMAIN r : r[s] \in Ops
      BY DEF Ops
    <3>2. BuildSlots(r, {old}) /\ variant # "SINGLE_AGENT"
      BY <2>1 DEF ReplaceFirstJudgeWithBundle
    <3>3. bundle' = [status |-> "HELD", first |-> first, specialists |-> S, final |-> final]
      BY <2>1 DEF ReplaceFirstJudgeWithBundle
    <3>4. first \in Slots /\ final \in Slots /\ S \in SUBSET Slots
      BY DEF Unused
    <3>5. bundle' \in Bundles
      BY <3>3, <3>4 DEF Bundles
    <3>6. /\ DOMAIN r = {first, final} \cup S
          /\ \A s \in S : first < s /\ s < final
          /\ r[first] = "REFINING_JUDGE"
      BY <2>1 DEF ReplaceFirstJudgeWithBundle
    <3>7. first # final /\ first \notin S /\ final \notin S
      <4>1. first \in Int /\ final \in Int /\ \A s \in S : s \in Int
        BY <3>4, SlotsAssumption
      <4>2. \E s \in S : TRUE
        <5>1. Cardinality(S) = 2
          BY <2>1 DEF ReplaceFirstJudgeWithBundle
        <5> QED
          BY <5>1, FS_EmptySet
      <4> QED
        BY <3>6, <4>1, <4>2
    <3>8. r[final] = "FINAL_JUDGE" /\ \A s \in S : r[s] = "SPECIALIST"
      BY <3>7
    <3> HIDE DEF r
    <3>9. /\ TypeOK' /\ Lineage' /\ SingleAgents'
          /\ \A s \in DOMAIN r : s \in Slots /\ slot'[s] = "HELD" /\ op'[s] = r[s]
      <4>1. UNCHANGED <<variant, auth, receipt, lease, spent, terminal, calling>>
            /\ lapsed' \in BOOLEAN /\ live' = NoSlot
        BY <2>1 DEF ReplaceFirstJudgeWithBundle, Records, TypeOK
      <4>2. {old} \in SUBSET Held
        OBVIOUS
      <4> QED
        BY <3>1, <3>2, <3>5, <4>1, <4>2, HoldKeepsRecords
    <3>10. BundleShape'
      BY <3>3, <3>4, <3>6, <3>8, <3>9 DEF BundleShape
    <3> QED
      BY <3>9, <3>10 DEF Records
  <2>2. ASSUME NEW used \in SUBSET Slots, ReleaseUnusedRefinementMembers(used) PROVE Records'
    <3>1. /\ \A s \in Slots : slot'[s] = slot[s] \/ (slot[s] = "HELD" /\ slot'[s] = "RELEASED")
          /\ slot' \in [Slots -> SlotStatuses]
      BY <2>2 DEF ReleaseUnusedRefinementMembers, Records, TypeOK, SlotStatuses
    <3>2. /\ UNCHANGED <<variant, op, auth, receipt, lease, spent, terminal, lapsed, calling>>
          /\ live' = NoSlot
          /\ bundle.status = "HELD"
          /\ \/ bundle' = [bundle EXCEPT !.status = "PARTIALLY_CONSUMED"]
             \/ bundle' = [bundle EXCEPT !.status = "RELEASED"]
      BY <2>2 DEF ReleaseUnusedRefinementMembers
    <3>3. TypeOK'
      BY <3>1, <3>2 DEF Records, TypeOK, Bundles
    <3>4. Lineage'
      BY <3>1, <3>2 DEF Records, Lineage
    <3> QED
      BY <3>2, <3>3, <3>4 DEF Records, SingleAgents, BundleShape, TypeOK, Bundles
  <2>3. ASSUME CompleteBundle PROVE Records'
    <3>1. TypeOK'
      BY <2>3 DEF CompleteBundle, Records, TypeOK, Bundles
    <3>2. BundleShape'
      BY <2>3 DEF CompleteBundle, Records, BundleShape, TypeOK, Bundles
    <3> QED
      BY <2>3, <3>1, <3>2 DEF CompleteBundle, Records, Lineage, SingleAgents
  <2> QED
    BY <1>3, <2>1, <2>2, <2>3 DEF Refine
<1>4. ASSUME NEW s \in Slots, Specialist(s) PROVE Records'
  <2>1. CASE MaterializeSpecialistAuthorization(s)
    <3>1. TypeOK'
      BY <2>1 DEF MaterializeSpecialistAuthorization, Records, TypeOK, SlotStatuses, AuthStatuses
    <3>2. Lineage'
      BY <2>1 DEF MaterializeSpecialistAuthorization, Records, TypeOK, Lineage
    <3> QED
      BY <2>1, <3>1, <3>2 DEF MaterializeSpecialistAuthorization, Records, SingleAgents, BundleShape
  <2>2. CASE ClaimSpecialistToolDispatch(s)
    <3>1. TypeOK'
      BY <2>2 DEF ClaimSpecialistToolDispatch, Records, TypeOK, AuthStatuses
    <3>2. Lineage'
      BY <2>2 DEF ClaimSpecialistToolDispatch, Records, TypeOK, Lineage
    <3> QED
      BY <2>2, <3>1, <3>2 DEF ClaimSpecialistToolDispatch, Records, SingleAgents, BundleShape
  <2>3. ASSUME NEW outcome, NEW next, SealOutcome(s, outcome, next),
               \/ outcome = "SUCCESS" /\ next = "TOOL_CHARGED"
               \/ outcome = "FAILURE" /\ next = "FAILED"
        PROVE  Records'
    <3>1. TypeOK'
      BY <2>3 DEF SealOutcome, Records, TypeOK, AuthStatuses, Receipts
    <3>2. Lineage'
      BY <2>3 DEF SealOutcome, Records, TypeOK, Lineage
    <3> QED
      BY <2>3, <3>1, <3>2 DEF SealOutcome, Records, SingleAgents, BundleShape
  <2>4. CASE CompleteSpecialistToolDispatch(s)
    BY <2>3, <2>4 DEF CompleteSpecialistToolDispatch
  <2>5. CASE FailSpecialistToolDispatch(s)
    BY <2>3, <2>5 DEF FailSpecialistToolDispatch
  <2>6. CASE ReleaseSpecialistAuthorization(s)
    <3>1. TypeOK'
      BY <2>6 DEF ReleaseSpecialistAuthorization, Records, TypeOK, AuthStatuses
    <3>2. Lineage'
      BY <2>6 DEF ReleaseSpecialistAuthorization, Records, TypeOK, Lineage
    <3> QED
      BY <2>6, <3>1, <3>2 DEF ReleaseSpecialistAuthorization, Records, SingleAgents, BundleShape
  <2>7. CASE FailSpecialistAuthorization(s)
    <3> DEFINE auths == [auth EXCEPT ![s] = "FAILED"]
               leases == IF lease[s].status = "RESERVED"
                         THEN [lease EXCEPT ![s] = Closed("RETURNED", 0)] ELSE lease
    <3>1. WithAbort(s, auths, leases)
      BY <2>7 DEF FailSpecialistAuthorization
    <3>2. auths \in [Slots -> AuthStatuses] /\ leases \in [Slots -> Leases]
      BY DEF Records, TypeOK, AuthStatuses, Leases, Closed
    <3>3. /\ \A t \in Slots \ {s} : auths[t] = auth[t] /\ leases[t] = lease[t]
          /\ auth[s] \in {"TOOL_CHARGED", "MODEL_LEASED"} /\ auths[s] = "FAILED"
          /\ \/ leases[s] = lease[s]
             \/ lease[s].status = "RESERVED" /\ leases[s].status \in {"RETURNED", "EXPIRED"}
      BY <2>7 DEF FailSpecialistAuthorization, Records, TypeOK, Closed
    <3> HIDE DEF auths, leases
    <3>4. AbortEffect(auths, leases)
      BY <3>1, <3>2, Aborts
    <3>5. UNCHANGED <<variant, op, receipt, spent, terminal, lapsed, calling>> /\ live' = NoSlot
      BY <2>7 DEF FailSpecialistAuthorization
    <3> QED
      BY <3>2, <3>3, <3>4, <3>5, AbortKeepsRecords
  <2>8. CASE CompleteSpecialistAuthorization(s)
    <3>1. TypeOK'
      BY <2>8 DEF CompleteSpecialistAuthorization, Records, TypeOK, AuthStatuses
    <3>2. Lineage'
      BY <2>8 DEF CompleteSpecialistAuthorization, Records, TypeOK, Lineage
    <3> QED
      BY <2>8, <3>1, <3>2 DEF CompleteSpecialistAuthorization, Records, SingleAgents, BundleShape
  <2> QED
    BY <1>4, <2>1, <2>2, <2>4, <2>5, <2>6, <2>7, <2>8 DEF Specialist
<1>5. ASSUME NEW s \in Slots, ModelCall(s) PROVE Records'
  <2>1. ASSUME NEW input \in Inputs, ExpandExactModelLease(s, input) PROVE Records'
    <3>1. s \in Held \cup Ready /\ s \in Slots
      BY <2>1 DEF ExpandExactModelLease, LeaseSource, Held, Ready
    <3>2. Available(s) \in Nat
      <4>1. Available(s) = MaxTokens - spent.tokens - (Total(Worth, Slots) - Worth[s])
        BY <3>1, HeldIsTotal DEF Records
      <4>2. \A t \in Slots : Worth[t] \in Nat
        BY TokensAssumption DEF Worth, Promised, Held, Waiting, Ready, Reserved, Records, TypeOK,
           Lineage, Leases, Ops
      <4>3. Total(Worth, Slots) \in Nat
        BY <4>2, SlotsAreFinite, TotalIsNat
      <4>4. Available(s) \in Int
        BY <3>1, <4>1, <4>2, <4>3, CapsAssumption DEF Records, TypeOK
      <4>5. input + MinCompletion <= Available(s) /\ input \in Nat /\ MinCompletion \in Nat
        BY <2>1, TokensAssumption DEF ExpandExactModelLease
      <4> QED
        BY <4>4, <4>5
    <3>3. [status |-> "RESERVED", input |-> input, reserved |-> Available(s), used |-> 0] \in Leases
      BY <3>2, TokensAssumption DEF Leases
    <3>4. TypeOK'
      BY <2>1, <3>3 DEF ExpandExactModelLease, Records, TypeOK, SlotStatuses, AuthStatuses
    <3>5. Lineage'
      BY <2>1 DEF ExpandExactModelLease, LeaseSource, Records, TypeOK, Lineage
    <3> QED
      BY <2>1, <3>4, <3>5 DEF ExpandExactModelLease, Records, SingleAgents, BundleShape
  <2>2. ASSUME NEW used \in 0 .. MaxTokens, ChargeExactModelLease(s, used) PROVE Records'
    <3>1. Closed("CHARGED", used) \in Leases /\ Closed("CHARGED", used).status = "CHARGED"
      BY CapsAssumption DEF Closed, Leases
    <3>2. TypeOK'
      <4>1. used \in Nat
        BY CapsAssumption
      <4>2. spent' \in [model : Nat, tool : Nat, tokens : Nat]
        <5>1. spent' = [spent EXCEPT !.model = @ + 1, !.tokens = @ + used]
          BY <2>2 DEF ChargeExactModelLease
        <5>2. spent \in [model : Nat, tool : Nat, tokens : Nat]
          BY DEF Records, TypeOK
        <5>3. spent.model + 1 \in Nat /\ spent.tokens + used \in Nat
          BY <4>1, <5>2
        <5> QED
          BY <5>1, <5>2, <5>3
      <4> QED
        BY <2>2, <3>1, <4>2 DEF ChargeExactModelLease, Answered, Records, TypeOK
    <3>3. Lineage'
      BY <2>2, <3>1 DEF ChargeExactModelLease, Records, TypeOK, Lineage
    <3> QED
      BY <2>2, <3>2, <3>3 DEF ChargeExactModelLease, Records, SingleAgents, BundleShape
  <2>3. CASE CallFails(s)
    <3>1. TypeOK'
      BY <2>3 DEF CallFails, Latch, Answered, Records, TypeOK, Failures
    <3> QED
      BY <2>3, <3>1 DEF CallFails, Latch, Records, Lineage, SingleAgents, BundleShape
  <2>4. CASE LateAnswer(s)
    <3>1. TypeOK'
      BY <2>4 DEF LateAnswer, Answered, Records, TypeOK
    <3> QED
      BY <2>4, <3>1 DEF LateAnswer, Records, Lineage, SingleAgents, BundleShape
  <2>5. ASSUME NEW status \in {"RETURNED", "EXPIRED"}, lease[s].status = "RESERVED",
               WithAbort(s, auth, [lease EXCEPT ![s] = Closed(status, 0)]), live' = NoSlot,
               UNCHANGED <<variant, op, receipt, spent, terminal, lapsed, calling>>
        PROVE  Records'
    <3> DEFINE leases == [lease EXCEPT ![s] = Closed(status, 0)]
    <3>1. auth \in [Slots -> AuthStatuses] /\ leases \in [Slots -> Leases]
      BY DEF Records, TypeOK, Leases, Closed
    <3>2. /\ \A t \in Slots \ {s} : leases[t] = lease[t]
          /\ leases[s].status \in {"RETURNED", "EXPIRED"}
      BY DEF Records, TypeOK, Closed
    <3> HIDE DEF leases
    <3>3. AbortEffect(auth, leases)
      BY <2>5, <3>1, Aborts DEF leases
    <3> QED
      BY <2>5, <3>1, <3>2, <3>3, AbortKeepsRecords
  <2>6. CASE ReturnExactModelLease(s)
    BY <2>5, <2>6 DEF ReturnExactModelLease
  <2>7. CASE ExpireModelLease(s)
    BY <2>5, <2>7 DEF ExpireModelLease
  <2>8. CASE ConflictingDuplicateCharge(s)
    <3>1. TypeOK'
      BY <2>8 DEF ConflictingDuplicateCharge, Latch, Records, TypeOK, Failures
    <3> QED
      BY <2>8, <3>1 DEF ConflictingDuplicateCharge, Latch, Records, Lineage, SingleAgents, BundleShape
  <2> QED
    BY <1>5, <2>1, <2>2, <2>3, <2>4, <2>6, <2>7, <2>8 DEF ModelCall
<1>6. CASE ChargeSingleAgentToolAttempt
  <2>1. TypeOK'
    BY <1>6 DEF ChargeSingleAgentToolAttempt, Records, TypeOK, Failures
  <2> QED
    BY <1>6, <2>1 DEF ChargeSingleAgentToolAttempt, Records, Lineage, SingleAgents, BundleShape
<1>7. CASE RecordTerminalFailure
  <2>1. TypeOK'
    BY <1>7 DEF RecordTerminalFailure, Latch, Records, TypeOK, Failures
  <2> QED
    BY <1>7, <2>1 DEF RecordTerminalFailure, Latch, Records, Lineage, SingleAgents, BundleShape
<1>8. CASE Lapse
  <2>1. TypeOK'
    BY <1>8 DEF Lapse, Records, TypeOK
  <2> QED
    BY <1>8, <2>1 DEF Lapse, Records, Lineage, SingleAgents, BundleShape
<1>9. CASE UNCHANGED vars
  BY <1>9 DEF vars, Records, TypeOK, Lineage, SingleAgents, BundleShape
<1> QED
  BY <1>2, <1>3, <1>4, <1>5, <1>6, <1>7, <1>8, <1>9 DEF Next

--------------------------------------------------------------------------------
(* The three accounts *)

\* Every amount is a natural number, and what is held is counted slot by slot.
AmountsAreCounted ==
    /\ HeldModelCalls = Cardinality(Holding) /\ HeldToolCalls = Cardinality(Tooling)
    /\ HeldTokens = Total(Worth, Slots)
    /\ HeldModelCalls \in Nat /\ HeldToolCalls \in Nat /\ HeldTokens \in Nat
    /\ IsFiniteSet(Holding) /\ IsFiniteSet(Tooling)
    /\ \A s \in Slots : Worth[s] \in Nat
    /\ spent.model \in Nat /\ spent.tool \in Nat /\ spent.tokens \in Nat

LEMMA Amounts == Records => AmountsAreCounted
<1> SUFFICES ASSUME Records PROVE AmountsAreCounted
  OBVIOUS
<1>1. /\ HeldModelCalls = Cardinality(Holding) /\ HeldToolCalls = Cardinality(Tooling)
      /\ Holding \in SUBSET Slots /\ Tooling \in SUBSET Slots
  BY HeldIsCounted DEF Records
<1>2. IsFiniteSet(Holding) /\ IsFiniteSet(Tooling)
  BY <1>1, SlotsAreFinite
<1>3. Cardinality(Holding) \in Nat /\ Cardinality(Tooling) \in Nat
  BY <1>2, FS_CardinalityType
<1>4. \A s \in Slots : Worth[s] \in Nat
  BY TokensAssumption DEF Worth, Promised, Held, Waiting, Ready, Reserved, Records, TypeOK,
     Lineage, Leases, Ops
<1>5. HeldTokens = Total(Worth, Slots) /\ Total(Worth, Slots) \in Nat
  BY <1>4, HeldIsTotal, SlotsAreFinite, TotalIsNat DEF Records
<1> QED
  BY <1>1, <1>2, <1>3, <1>4, <1>5 DEF AmountsAreCounted, Records, TypeOK

\* The same after a step.
LEMMA AmountsNext == Records' => AmountsAreCounted'
BY Amounts, PTL

\* A step that charges nothing and by which no slot comes to hold more.
Quiet ==
    /\ Holding' \subseteq Holding
    /\ Tooling' \subseteq Tooling
    /\ \A s \in Slots : Worth'[s] <= Worth[s]
    /\ UNCHANGED <<spent, terminal>>

\* Model calls are settled when slots stop holding them, one of them being charged or not.
LEMMA ModelsSettle ==
    ASSUME Records, Records', UNCHANGED terminal,
           \/ Holding' \subseteq Holding /\ spent'.model = spent.model
           \/ \E x \in Holding : Holding' \subseteq Holding \ {x}
                                 /\ spent'.model = spent.model + 1
    PROVE  Models!Settle
<1>1. Operational' = Operational
  BY DEF Operational
<1>2. /\ HeldModelCalls = Cardinality(Holding) /\ HeldModelCalls \in Nat
      /\ IsFiniteSet(Holding) /\ spent.model \in Nat
  BY Amounts DEF AmountsAreCounted
<1>3. /\ HeldModelCalls' = Cardinality(Holding') /\ HeldModelCalls' \in Nat
      /\ spent'.model \in Nat
  BY AmountsNext DEF AmountsAreCounted
<1>4. CASE Holding' \subseteq Holding /\ spent'.model = spent.model
  <2>1. Cardinality(Holding') <= Cardinality(Holding)
    BY <1>2, <1>4, FS_Subset
  <2> QED
    BY <1>1, <1>2, <1>3, <1>4, <2>1 DEF Models!Settle
<1>5. ASSUME NEW x \in Holding, Holding' \subseteq Holding \ {x}, spent'.model = spent.model + 1
      PROVE  Models!Settle
  <2>1. /\ IsFiniteSet(Holding \ {x})
        /\ Cardinality(Holding \ {x}) = Cardinality(Holding) - 1
    BY <1>2, <1>5, FS_RemoveElement
  <2>2. Cardinality(Holding') <= Cardinality(Holding \ {x})
    BY <1>5, <2>1, FS_Subset
  <2> QED
    BY <1>1, <1>2, <1>3, <1>5, <2>1, <2>2 DEF Models!Settle
<1> QED
  BY <1>4, <1>5

\* Tool calls are settled in the same way.
LEMMA ToolsSettle ==
    ASSUME Records, Records', UNCHANGED terminal,
           \/ Tooling' \subseteq Tooling /\ spent'.tool = spent.tool
           \/ \E x \in Tooling : Tooling' \subseteq Tooling \ {x}
                                 /\ spent'.tool = spent.tool + 1
    PROVE  Tools!Settle
<1>1. Operational' = Operational
  BY DEF Operational
<1>2. /\ HeldToolCalls = Cardinality(Tooling) /\ HeldToolCalls \in Nat
      /\ IsFiniteSet(Tooling) /\ spent.tool \in Nat
  BY Amounts DEF AmountsAreCounted
<1>3. /\ HeldToolCalls' = Cardinality(Tooling') /\ HeldToolCalls' \in Nat
      /\ spent'.tool \in Nat
  BY AmountsNext DEF AmountsAreCounted
<1>4. CASE Tooling' \subseteq Tooling /\ spent'.tool = spent.tool
  <2>1. Cardinality(Tooling') <= Cardinality(Tooling)
    BY <1>2, <1>4, FS_Subset
  <2> QED
    BY <1>1, <1>2, <1>3, <1>4, <2>1 DEF Tools!Settle
<1>5. ASSUME NEW x \in Tooling, Tooling' \subseteq Tooling \ {x}, spent'.tool = spent.tool + 1
      PROVE  Tools!Settle
  <2>1. /\ IsFiniteSet(Tooling \ {x})
        /\ Cardinality(Tooling \ {x}) = Cardinality(Tooling) - 1
    BY <1>2, <1>5, FS_RemoveElement
  <2>2. Cardinality(Tooling') <= Cardinality(Tooling \ {x})
    BY <1>5, <2>1, FS_Subset
  <2> QED
    BY <1>1, <1>2, <1>3, <1>5, <2>1, <2>2 DEF Tools!Settle
<1> QED
  BY <1>4, <1>5

\* Slots that neither come to hold a floor nor have their lease extended hold no more
\* calls and are worth no more.
LEMMA NoneHoldsMore ==
    ASSUME Records, Records', UNCHANGED op, Promised' \subseteq Promised,
           \A s \in Reserved' : s \in Reserved /\ lease'[s].reserved = lease[s].reserved
    PROVE  Holding' \subseteq Holding /\ \A s \in Slots : Worth'[s] <= Worth[s]
<1>1. Holding' \subseteq Holding
  BY DEF Holding
<1>2. ASSUME NEW s \in Slots PROVE Worth'[s] <= Worth[s]
  <2>1. Worth[s] = IF s \in Promised THEN Floor[op[s]]
                   ELSE IF s \in Reserved THEN lease[s].reserved ELSE 0
    BY DEF Worth
  <2>2. Worth'[s] = IF s \in Promised' THEN Floor[op[s]]
                    ELSE IF s \in Reserved' THEN lease'[s].reserved ELSE 0
    BY DEF Worth
  <2>3. s \in Reserved => s \notin Promised
    BY DEF Records, Lineage, Promised, Held, Waiting, Ready, Reserved
  <2>4. Worth[s] \in Nat
    BY Amounts DEF AmountsAreCounted
  <2> QED
    BY <2>1, <2>2, <2>3, <2>4
<1> QED
  BY <1>1, <1>2

\* A quiet step settles all three accounts.
LEMMA QuietSettles ==
    ASSUME Records, Records', Quiet
    PROVE  Models!Settle /\ Tools!Settle /\ Tokens!Settle
<1>1. Models!Settle /\ Tools!Settle
  BY ModelsSettle, ToolsSettle DEF Quiet
<1>2. Operational' = Operational
  BY DEF Operational, Quiet
<1>3. /\ HeldTokens = Total(Worth, Slots) /\ HeldTokens \in Nat /\ spent.tokens \in Nat
      /\ \A s \in Slots : Worth[s] \in Nat
  BY Amounts DEF AmountsAreCounted
<1>4. /\ HeldTokens' = Total(Worth', Slots) /\ HeldTokens' \in Nat
      /\ \A s \in Slots : Worth'[s] \in Nat
  BY AmountsNext DEF AmountsAreCounted
<1>5. Total(Worth', Slots) <= Total(Worth, Slots)
  BY <1>3, <1>4, SlotsAreFinite, TotalMonotone DEF Quiet
<1>6. spent' = spent
  BY DEF Quiet
<1> QED
  BY <1>1, <1>2, <1>3, <1>4, <1>5, <1>6 DEF Tokens!Settle

\* Holding a batch that fits, and giving back held slots of other operations than a
\* specialist's in the same transaction, changes what is held to something within the caps.
LEMMA HoldCounts ==
    ASSUME Records, Records', NEW r, NEW freed \in SUBSET Held, BuildSlots(r, freed),
           \A s \in freed : op[s] # "SPECIALIST", \A s \in DOMAIN r : r[s] \in Ops,
           UNCHANGED <<auth, lease, spent, terminal>>
    PROVE  /\ spent.model + HeldModelCalls' <= MaxModelCalls
           /\ spent.tool + HeldToolCalls' <= MaxToolCalls
           /\ spent.tokens + HeldTokens' <= MaxTokens
<1> DEFINE new == DOMAIN r
           asked == {s \in new : r[s] = "SPECIALIST"}
<1>1. /\ new \in SUBSET Slots /\ freed \in SUBSET Slots /\ asked \in SUBSET Slots
      /\ \A s \in new : slot[s] = "NONE" /\ slot'[s] = "HELD" /\ op'[s] = r[s]
      /\ \A s \in freed : slot[s] = "HELD" /\ slot'[s] = "RELEASED" /\ op'[s] = op[s]
      /\ \A s \in Slots \ new : op'[s] = op[s]
                              /\ slot'[s] = IF s \in freed THEN "RELEASED" ELSE slot[s]
  BY DEF Records, TypeOK, BuildSlots, Fresh, Unused, Held
<1>2. CallsFit(r, freed) /\ TokensFit(r, freed)
  BY DEF BuildSlots, Fits
<1>3. \A s \in new : auth[s] = "NONE" /\ lease[s].status = "NONE"
  BY <1>1 DEF Records, Lineage
<1>4. /\ Waiting' = Waiting /\ Ready' = Ready /\ Reserved' = Reserved
      /\ Held' = (Held \ freed) \cup new
  <2>1. Waiting' = Waiting /\ Ready' = Ready /\ Reserved' = Reserved
    BY DEF Waiting, Ready, Reserved
  <2>2. Held' = (Held \ freed) \cup new
    BY <1>1 DEF Held
  <2> QED
    BY <2>1, <2>2
<1>5. /\ new \cap Holding = {} /\ freed \subseteq Holding
      /\ freed \cap (Waiting \cup Ready \cup Reserved) = {}
  BY <1>1, <1>3 DEF Holding, Promised, Held, Waiting, Ready, Reserved, Records, Lineage
<1>6. Holding' = (Holding \ freed) \cup new
  BY <1>4, <1>5 DEF Holding, Promised
<1>7. Tooling' = Tooling \cup asked /\ Tooling \cap asked = {}
  <2>1. {s \in Held' : op'[s] = "SPECIALIST"} = {s \in Held : op[s] = "SPECIALIST"} \cup asked
    BY <1>1, <1>4 DEF Held
  <2>2. new \cap (Held \cup Waiting) = {}
    BY <1>5 DEF Holding, Promised
  <2> QED
    BY <1>4, <2>1, <2>2 DEF Tooling
<1>8. /\ HeldModelCalls = Cardinality(Holding) /\ HeldToolCalls = Cardinality(Tooling)
      /\ IsFiniteSet(Holding) /\ IsFiniteSet(Tooling)
      /\ HeldTokens = Total(Worth, Slots) /\ \A s \in Slots : Worth[s] \in Nat
      /\ spent.model \in Nat /\ spent.tool \in Nat /\ spent.tokens \in Nat
  BY Amounts DEF AmountsAreCounted
<1>9. /\ HeldModelCalls' = Cardinality(Holding') /\ HeldToolCalls' = Cardinality(Tooling')
      /\ HeldTokens' = Total(Worth', Slots) /\ \A s \in Slots : Worth'[s] \in Nat
  BY AmountsNext DEF AmountsAreCounted
<1>10. /\ IsFiniteSet(new) /\ IsFiniteSet(freed) /\ IsFiniteSet(asked)
       /\ Cardinality(new) \in Nat /\ Cardinality(freed) \in Nat
       /\ Cardinality(Holding) \in Nat
  BY <1>1, <1>8, SlotsAreFinite, FS_CardinalityType
<1>11. spent.model + HeldModelCalls' <= MaxModelCalls
  <2>1. IsFiniteSet(Holding \ freed)
    BY <1>8, FS_Subset
  <2>2. Cardinality((Holding \ freed) \cup freed) = Cardinality(Holding \ freed) + Cardinality(freed)
    BY <1>10, <2>1, DisjointCount
  <2>3. (Holding \ freed) \cup freed = Holding
    BY <1>5
  <2>4. Cardinality(Holding') = Cardinality(Holding \ freed) + Cardinality(new)
    BY <1>5, <1>6, <1>10, <2>1, DisjointCount
  <2>5. Cardinality(Holding \ freed) \in Nat
    BY <2>1, FS_CardinalityType
  <2>6. spent.model + HeldModelCalls - Cardinality(freed) + Cardinality(new) <= MaxModelCalls
    BY <1>2 DEF CallsFit
  <2> DEFINE kept == Cardinality(Holding \ freed)
  <2>7. Cardinality(Holding) = kept + Cardinality(freed)
    <3>1. Cardinality((Holding \ freed) \cup freed) = Cardinality(Holding)
      BY ONLY <2>3
    <3> QED
      BY <2>2, <3>1
  <2>8. Cardinality(Holding') = kept + Cardinality(new) /\ kept \in Nat
    BY <2>4, <2>5
  <2> HIDE DEF kept
  <2> QED
    BY <1>8, <1>9, <1>10, <2>6, <2>7, <2>8, CapsAssumption
<1>12. spent.tool + HeldToolCalls' <= MaxToolCalls
  <2>1. Cardinality(Tooling') = Cardinality(Tooling) + Cardinality(asked)
    BY <1>7, <1>8, <1>10, DisjointCount
  <2>2. spent.tool + HeldToolCalls + Cardinality(asked) <= MaxToolCalls
    BY <1>2 DEF CallsFit
  <2>3. Cardinality(asked) \in Nat /\ Cardinality(Tooling) \in Nat
    BY <1>8, <1>10, FS_CardinalityType
  <2> HIDE DEF asked
  <2> QED
    BY <1>8, <1>9, <2>1, <2>2, <2>3
<1>13. spent.tokens + HeldTokens' <= MaxTokens
  <2> DEFINE given == FloorsOf(op, freed)
             taken == FloorsOf(r, new)
             both == [s \in Slots |-> Worth[s] + taken[s]]
  <2>1. \A s \in freed : op[s] \in Ops
    BY <1>1 DEF Records, TypeOK, Lineage, Ops
  <2>2. Floors(freed) = Total(given, Slots)
    BY <1>1, <2>1, FloorsAreTotals
  <2>3. spent.tokens + HeldTokens - Floors(freed) + Total(taken, Slots) <= MaxTokens
    BY <1>1, <1>2, RequestsAreTotals
  <2>4. \A s \in Slots : given[s] \in Nat /\ taken[s] \in Nat
    BY <2>1, TokensAssumption DEF FloorsOf
  <2>5. ASSUME NEW s \in Slots PROVE both[s] = Worth'[s] + given[s]
    <3>1. CASE s \in new
      <4>1. s \notin Holding /\ s \in Promised' /\ s \notin freed
        BY <1>1, <1>4, <3>1, <1>5 DEF Promised
      <4>2. Worth[s] = 0
        BY <4>1 DEF Worth, Holding
      <4>3. Worth'[s] = Floor[r[s]]
        BY <1>1, <3>1, <4>1 DEF Worth
      <4>4. taken[s] = Floor[r[s]] /\ given[s] = 0 /\ taken[s] \in Nat
        BY <2>4, <3>1, <4>1 DEF FloorsOf
      <4> HIDE DEF given, taken
      <4> QED
        BY <4>2, <4>3, <4>4
    <3>2. CASE s \in freed
      <4>1. s \in Promised /\ s \notin Promised' /\ s \notin Reserved' /\ s \notin new
        BY <1>1, <1>4, <1>5, <3>2 DEF Promised
      <4>2. Worth[s] = Floor[op[s]] /\ Worth'[s] = 0
        BY <4>1 DEF Worth
      <4>3. given[s] = Floor[op[s]] /\ taken[s] = 0 /\ given[s] \in Nat
        BY <2>4, <3>2, <4>1 DEF FloorsOf
      <4> HIDE DEF given, taken
      <4> QED
        BY <4>2, <4>3
    <3>3. CASE s \notin new /\ s \notin freed
      <4>1. /\ s \in Promised' <=> s \in Promised
            /\ s \in Reserved' <=> s \in Reserved
            /\ op'[s] = op[s]
        BY <1>1, <1>4, <3>3 DEF Promised
      <4>2. Worth'[s] = Worth[s]
        BY <4>1 DEF Worth
      <4>3. given[s] = 0 /\ taken[s] = 0
        BY <3>3 DEF FloorsOf
      <4> HIDE DEF given, taken
      <4> QED
        BY <4>2, <4>3
    <3> QED
      BY <3>1, <3>2, <3>3
  <2>6. \A s \in Slots : both[s] = Worth[s] + taken[s]
    OBVIOUS
  <2> HIDE DEF given, taken, both
  <2>7. Total(both, Slots) = Total(Worth, Slots) + Total(taken, Slots)
    BY <1>8, <2>4, <2>6, SlotsAreFinite, TotalSum
  <2>8. Total(both, Slots) = Total(Worth', Slots) + Total(given, Slots)
    BY <1>9, <2>4, <2>5, SlotsAreFinite, TotalSum
  <2>9. /\ Total(Worth, Slots) \in Nat /\ Total(Worth', Slots) \in Nat
        /\ Total(given, Slots) \in Nat /\ Total(taken, Slots) \in Nat
    BY <1>8, <1>9, <2>4, SlotsAreFinite, TotalIsNat
  <2> QED
    BY <1>8, <1>9, <2>2, <2>3, <2>7, <2>8, <2>9, CapsAssumption
<1> QED
  BY <1>11, <1>12, <1>13

\* Giving up on a slot charges nothing, and none holds more for it.
LEMMA AbortIsQuiet ==
    ASSUME Records, NEW s \in Slots, NEW auths \in [Slots -> AuthStatuses],
           NEW leases \in [Slots -> Leases], AbortEffect(auths, leases),
           \A t \in Slots \ {s} : auths[t] = auth[t] /\ leases[t] = lease[t],
           \/ auths[s] = auth[s]
           \/ auth[s] \in {"TOOL_CHARGED", "MODEL_LEASED"} /\ auths[s] = "FAILED",
           \/ leases[s] = lease[s]
           \/ lease[s].status = "RESERVED" /\ leases[s].status \in {"RETURNED", "EXPIRED"},
           UNCHANGED <<variant, op, receipt, spent, terminal, lapsed, calling>>,
           live' = NoSlot
    PROVE  Quiet
<1>1. Records'
  BY AbortKeepsRecords
<1>2. ASSUME NEW t \in Slots
      PROVE  /\ slot'[t] = "HELD" => slot[t] = "HELD"
             /\ auth'[t] \in {"TOOL_AUTHORIZED", "TOOL_DISPATCHING", "TOOL_CHARGED"}
                  => auth'[t] = auth[t]
             /\ lease'[t].status = "RESERVED" => lease'[t] = lease[t]
  <2>1. \/ auth'[t] = auth[t] \/ auth'[t] \in {"RELEASED", "FAILED"}
    BY DEF AbortEffect
  <2>2. lease'[t] = lease[t] \/ lease'[t].status \in {"RETURNED", "EXPIRED"}
    BY DEF AbortEffect, Closed
  <2>3. slot'[t] = slot[t] \/ slot'[t] = "RELEASED"
    BY DEF AbortEffect
  <2> QED
    BY <2>1, <2>2, <2>3
<1>3. Held' \subseteq Held /\ Waiting' \subseteq Waiting /\ Ready' \subseteq Ready
  BY <1>2 DEF Held, Waiting, Ready
<1>4. \A t \in Reserved' : t \in Reserved /\ lease'[t].reserved = lease[t].reserved
  BY <1>2 DEF Reserved
<1>5. Promised' \subseteq Promised /\ Tooling' \subseteq Tooling
  BY <1>3 DEF Promised, Tooling
<1> QED
  BY <1>1, <1>4, <1>5, NoneHoldsMore DEF Quiet

\* Holding what fits is a promise, or a settlement when it holds less than it gave back.
LEMMA HoldPromises ==
    ASSUME Records, Records', NEW r, NEW freed \in SUBSET Held, BuildSlots(r, freed),
           \A s \in freed : op[s] # "SPECIALIST", \A s \in DOMAIN r : r[s] \in Ops,
           Operational, UNCHANGED <<auth, lease, spent, terminal>>
    PROVE  Models!Next /\ Tools!Next /\ Tokens!Next
<1>1. /\ spent.model + HeldModelCalls' <= MaxModelCalls
      /\ spent.tool + HeldToolCalls' <= MaxToolCalls
      /\ spent.tokens + HeldTokens' <= MaxTokens
  BY HoldCounts
<1>2. /\ HeldModelCalls \in Nat /\ HeldToolCalls \in Nat /\ HeldTokens \in Nat
      /\ spent.model \in Nat /\ spent.tool \in Nat /\ spent.tokens \in Nat
  BY Amounts DEF AmountsAreCounted
<1>3. HeldModelCalls' \in Nat /\ HeldToolCalls' \in Nat /\ HeldTokens' \in Nat
  BY AmountsNext DEF AmountsAreCounted
<1>4. Operational' = Operational
  BY DEF Operational
<1>5. Models!Promise \/ Models!Settle
  BY <1>1, <1>2, <1>3, <1>4 DEF Models!Promise, Models!Settle
<1>6. Tools!Promise \/ Tools!Settle
  BY <1>1, <1>2, <1>3, <1>4 DEF Tools!Promise, Tools!Settle
<1>7. Tokens!Promise \/ Tokens!Settle
  BY <1>1, <1>2, <1>3, <1>4 DEF Tokens!Promise, Tokens!Settle
<1> QED
  BY <1>5, <1>6, <1>7 DEF Models!Next, Tools!Next, Tokens!Next

\* A terminal failure closes all three accounts.
LEMMA LatchCloses ==
    ASSUME Records, Records', NEW code \in Failures, Latch(code)
    PROVE  Models!Close /\ Tools!Close /\ Tokens!Close
<1>1. Operational /\ ~Operational'
  BY DEF Latch, Operational, Failures
<1>2. /\ Held' = Held /\ Waiting' = Waiting /\ Ready' = Ready /\ Reserved' = Reserved
      /\ spent' = spent /\ op' = op /\ lease' = lease
  BY DEF Latch, Held, Waiting, Ready, Reserved
<1>3. HeldModelCalls' = HeldModelCalls
  BY <1>2 DEF HeldModelCalls
<1>4. HeldToolCalls' = HeldToolCalls
  BY <1>2 DEF HeldToolCalls
<1>5. HeldTokens' = HeldTokens
  <2>1. Worth' = Worth
    BY <1>2 DEF Worth, Promised
  <2>2. HeldTokens = Total(Worth, Slots)
    BY Amounts DEF AmountsAreCounted
  <2>3. HeldTokens' = Total(Worth', Slots)
    BY AmountsNext DEF AmountsAreCounted
  <2> QED
    BY <2>1, <2>2, <2>3
<1> QED
  BY <1>1, <1>2, <1>3, <1>4, <1>5 DEF Models!Close, Tools!Close, Tokens!Close

\* An expansion moves a model call from a promise to a lease and gives it every token that
\* is neither spent nor held by another slot.
LEMMA ExpandPromises ==
    ASSUME Records, Records', TokensAreConserved, NEW s \in Slots, NEW input \in Inputs,
           ExpandExactModelLease(s, input)
    PROVE  Models!Next /\ Tools!Next /\ Tokens!Next
<1> DEFINE new == [status |-> "RESERVED", input |-> input, reserved |-> Available(s), used |-> 0]
<1>1. /\ s \in Held \cup Ready /\ Operational /\ s \in Slots
      /\ lease' = [lease EXCEPT ![s] = new] /\ UNCHANGED <<op, spent, terminal>>
      /\ \/ auth[s] = "TOOL_CHARGED" /\ auth' = [auth EXCEPT ![s] = "MODEL_LEASED"]
            /\ slot' = slot
         \/ slot[s] = "HELD" /\ op[s] # "SPECIALIST" /\ auth' = auth
            /\ slot' = [slot EXCEPT ![s] = "MATERIALIZED"]
  BY DEF ExpandExactModelLease, LeaseSource, Held, Ready
<1>2. lease'[s] = new /\ \A t \in Slots \ {s} : lease'[t] = lease[t]
  BY <1>1 DEF Records, TypeOK
<1>3. Reserved' = Reserved \cup {s} /\ s \notin Reserved
  <2>1. lease'[s].status = "RESERVED"
    BY <1>2
  <2>2. s \notin Reserved
    BY <1>1 DEF Records, Lineage, Held, Ready, Reserved
  <2> QED
    BY <1>1, <1>2, <2>1, <2>2 DEF Reserved
<1>4. /\ Promised' = Promised \ {s} /\ s \in Promised
      /\ Tooling' = Tooling
  <2>1. \A t \in Slots : /\ t # s => slot'[t] = slot[t] /\ auth'[t] = auth[t]
                         /\ slot'[s] # "HELD" /\ auth'[s] \notin {"TOOL_AUTHORIZED", "TOOL_DISPATCHING", "TOOL_CHARGED"}
                         /\ auth[s] \notin {"TOOL_AUTHORIZED", "TOOL_DISPATCHING"}
                         /\ slot[s] = "HELD" => op[s] # "SPECIALIST"
    BY <1>1 DEF Records, TypeOK, Lineage
  <2>2. Promised' = Promised \ {s}
    BY <1>1, <2>1 DEF Promised, Held, Waiting, Ready
  <2>3. Tooling' = Tooling
    BY <1>1, <2>1 DEF Tooling, Held, Waiting
  <2> QED
    BY <1>1, <2>2, <2>3 DEF Promised
<1>5. Holding' = Holding
  BY <1>3, <1>4 DEF Holding
<1>6. Models!Settle /\ Tools!Settle
  BY <1>1, <1>4, <1>5, ModelsSettle, ToolsSettle
<1>7. Tokens!Promise
  <2>1. Available(s) = MaxTokens - spent.tokens - (Total(Worth, Slots) - Worth[s])
    BY <1>1, HeldIsTotal DEF Records
  <2>2. Worth'[s] = Available(s)
    BY <1>1, <1>2, <1>3, <1>4 DEF Worth
  <2>3. \A t \in Slots \ {s} : Worth'[t] = Worth[t]
    <3> SUFFICES ASSUME NEW t \in Slots \ {s} PROVE Worth'[t] = Worth[t]
      OBVIOUS
    <3>1. (t \in Promised' <=> t \in Promised) /\ (t \in Reserved' <=> t \in Reserved)
      BY <1>3, <1>4
    <3> QED
      BY <1>1, <1>2, <3>1 DEF Worth
  <2>4. /\ HeldTokens = Total(Worth, Slots) /\ HeldTokens \in Nat /\ spent.tokens \in Nat
        /\ \A t \in Slots : Worth[t] \in Nat
    BY Amounts DEF AmountsAreCounted
  <2>5. /\ HeldTokens' = Total(Worth', Slots) /\ HeldTokens' \in Nat
        /\ \A t \in Slots : Worth'[t] \in Nat
    BY AmountsNext DEF AmountsAreCounted
  <2>6. Total(Worth', Slots) + Worth[s] = Total(Worth, Slots) + Worth'[s]
    BY <1>1, <2>3, <2>4, <2>5, SlotsAreFinite, TotalUpdate
  <2>7. Worth[s] \in Nat /\ Worth'[s] \in Nat /\ MaxTokens \in Nat
    BY <1>1, <2>4, <2>5, CapsAssumption
  <2>8. HeldTokens' = MaxTokens - spent.tokens
    BY <2>1, <2>2, <2>4, <2>5, <2>6, <2>7
  <2>9. Operational' = Operational /\ spent' = spent
    BY <1>1 DEF Operational
  <2> QED
    BY <1>1, <2>4, <2>5, <2>7, <2>8, <2>9 DEF Tokens!Promise, TokensAreConserved
<1> QED
  BY <1>6, <1>7 DEF Models!Next, Tools!Next, Tokens!Next

\* A charge replaces a lease by what was used of it.
LEMMA ChargeSettles ==
    ASSUME Records, Records', NEW s \in Slots, NEW used \in 0 .. MaxTokens,
           ChargeExactModelLease(s, used)
    PROVE  Models!Settle /\ Tools!Settle /\ Tokens!Settle
<1>1. /\ s \in Reserved /\ UNCHANGED <<slot, op, auth, terminal>>
      /\ lease' = [lease EXCEPT ![s] = Closed("CHARGED", used)]
      /\ spent' = [spent EXCEPT !.model = @ + 1, !.tokens = @ + used]
      /\ used \in lease[s].input .. lease[s].reserved
  BY DEF ChargeExactModelLease, Reserved
<1>2. lease'[s] = Closed("CHARGED", used) /\ \A t \in Slots \ {s} : lease'[t] = lease[t]
  BY <1>1 DEF Records, TypeOK
<1>3. Reserved' = Reserved \ {s}
  <2>1. lease'[s].status # "RESERVED"
    BY <1>2 DEF Closed
  <2> QED
    BY <1>2, <2>1 DEF Reserved
<1>4. Promised' = Promised /\ Tooling' = Tooling /\ s \notin Promised
  <2>1. Promised' = Promised /\ Tooling' = Tooling
    BY <1>1 DEF Promised, Tooling, Held, Waiting, Ready
  <2>2. s \notin Promised
    BY <1>1 DEF Promised, Held, Waiting, Ready, Reserved, Records, Lineage
  <2> QED
    BY <2>1, <2>2
<1>5. spent'.model = spent.model + 1 /\ spent'.tool = spent.tool
      /\ spent'.tokens = spent.tokens + used
  BY <1>1 DEF Records, TypeOK
<1>6. Models!Settle /\ Tools!Settle
  <2>1. s \in Holding /\ Holding' \subseteq Holding \ {s}
    BY <1>1, <1>3, <1>4 DEF Holding
  <2> QED
    BY <1>1, <1>4, <1>5, <2>1, ModelsSettle, ToolsSettle
<1>7. Tokens!Settle
  <2>1. Worth[s] = lease[s].reserved /\ Worth'[s] = 0
    BY <1>1, <1>3, <1>4 DEF Worth
  <2>2. \A t \in Slots \ {s} : Worth'[t] = Worth[t]
    <3> SUFFICES ASSUME NEW t \in Slots \ {s} PROVE Worth'[t] = Worth[t]
      OBVIOUS
    <3>1. (t \in Promised' <=> t \in Promised) /\ (t \in Reserved' <=> t \in Reserved)
      BY <1>3, <1>4
    <3> QED
      BY <1>1, <1>2, <3>1 DEF Worth
  <2>3. /\ HeldTokens = Total(Worth, Slots) /\ HeldTokens \in Nat /\ spent.tokens \in Nat
        /\ \A t \in Slots : Worth[t] \in Nat
    BY Amounts DEF AmountsAreCounted
  <2>4. /\ HeldTokens' = Total(Worth', Slots) /\ HeldTokens' \in Nat
        /\ \A t \in Slots : Worth'[t] \in Nat
    BY AmountsNext DEF AmountsAreCounted
  <2>5. Total(Worth', Slots) + Worth[s] = Total(Worth, Slots) + Worth'[s]
    BY <2>2, <2>3, <2>4, SlotsAreFinite, TotalUpdate
  <2>6. used \in Nat /\ lease[s].input \in Nat /\ lease[s].reserved \in Nat
    BY CapsAssumption DEF Records, TypeOK, Leases
  <2>7. HeldTokens' + lease[s].reserved = HeldTokens /\ used <= lease[s].reserved
    BY <1>1, <2>1, <2>3, <2>4, <2>5, <2>6
  <2>8. Operational' = Operational
    BY <1>1 DEF Operational
  <2> QED
    BY <1>5, <2>3, <2>4, <2>6, <2>7, <2>8 DEF Tokens!Settle
<1> QED
  BY <1>6, <1>7

\* Every step is a step of each of the three accounts.
LEMMA StepMovesAccounts ==
    ASSUME Records, TokensAreConserved, [Next]_vars
    PROVE  Models!Next /\ Tools!Next /\ Tokens!Next
<1>1. Records'
  BY StepKeepsRecords
<1>2. Quiet => Models!Next /\ Tools!Next /\ Tokens!Next
  BY <1>1, QuietSettles DEF Models!Next, Tools!Next, Tokens!Next
<1>3. ASSUME UNCHANGED <<op, spent, terminal>>, Promised' \subseteq Promised,
             Tooling' \subseteq Tooling, lease' = lease
      PROVE  Quiet
  <2>1. \A s \in Reserved' : s \in Reserved /\ lease'[s].reserved = lease[s].reserved
    BY <1>3 DEF Reserved
  <2> QED
    BY <1>1, <1>3, <2>1, NoneHoldsMore DEF Quiet
<1>4. ASSUME NEW r, HoldCapacitySlots(r), \A s \in DOMAIN r : r[s] \in Ops
      PROVE  Models!Next /\ Tools!Next /\ Tokens!Next
  <2>1. BuildSlots(r, {}) /\ Operational /\ UNCHANGED <<auth, lease, spent, terminal>>
    BY <1>4 DEF HoldCapacitySlots
  <2> QED
    BY <1>1, <1>4, <2>1, HoldPromises
<1>5. CASE Hold
  <2>1. ASSUME NEW s \in Unused, AdmitSingleAgentCall(s) PROVE Models!Next /\ Tools!Next /\ Tokens!Next
    BY <1>4, <2>1 DEF AdmitSingleAgentCall, Ops
  <2>2. ASSUME NEW s \in Unused, NEW o \in Ops, HoldOne(s, o)
        PROVE  Models!Next /\ Tools!Next /\ Tokens!Next
    BY <1>4, <2>2 DEF HoldOne
  <2>3. ASSUME NEW c \in Unused, NEW s \in Unused, NEW j \in Unused, InitializeDynamic(c, s, j)
        PROVE  Models!Next /\ Tools!Next /\ Tokens!Next
    BY <1>4, <2>3 DEF InitializeDynamic, Ops
  <2>4. ASSUME NEW S \in SUBSET Unused, NEW j \in Unused, InitializeFixed(S, j)
        PROVE  Models!Next /\ Tools!Next /\ Tokens!Next
    BY <1>4, <2>4 DEF InitializeFixed, Ops
  <2>5. ASSUME NEW c \in Slots, NEW b \in Slots, NEW j \in Slots, NEW new \in SUBSET Unused,
               ResizeDynamicInitialPlan(c, b, j, new)
        PROVE  Models!Next /\ Tools!Next /\ Tokens!Next
    <3> DEFINE r == [t \in new |-> "SPECIALIST"]
    <3>1. \A s \in DOMAIN r : r[s] \in Ops
      BY DEF Ops
    <3>2. BuildSlots(r, {}) /\ Operational /\ UNCHANGED <<auth, lease, spent, terminal>>
      BY <2>5 DEF ResizeDynamicInitialPlan
    <3> HIDE DEF r
    <3> QED
      BY <1>1, <3>1, <3>2, HoldPromises
  <2>6. ASSUME NEW s \in Slots, CloseCapacitySlot(s) PROVE Quiet
    <3>1. /\ UNCHANGED <<op, auth, lease, spent, terminal>>
          /\ \A t \in Slots : slot'[t] = "HELD" => slot[t] = "HELD"
      BY <2>6 DEF CloseCapacitySlot, Records, TypeOK
    <3>2. Promised' \subseteq Promised /\ Tooling' \subseteq Tooling
      BY <3>1 DEF Promised, Tooling, Held, Waiting, Ready
    <3> QED
      BY <1>3, <3>1, <3>2
  <2> QED
    BY <1>2, <1>5, <2>1, <2>2, <2>3, <2>4, <2>5, <2>6 DEF Hold
<1>6. CASE Refine
  <2>1. ASSUME NEW old \in Held, NEW first \in Unused, NEW final \in Unused,
               NEW S \in SUBSET Unused, ReplaceFirstJudgeWithBundle(old, first, S, final)
        PROVE  Models!Next /\ Tools!Next /\ Tokens!Next
    <3> DEFINE r == [s \in {first, final} \cup S |-> IF s = first THEN "REFINING_JUDGE"
                                                     ELSE IF s = final THEN "FINAL_JUDGE"
                                                     ELSE "SPECIALIST"]
    <3>1. \A s \in DOMAIN r : r[s] \in Ops
      BY DEF Ops
    <3>2. /\ BuildSlots(r, {old}) /\ Operational /\ UNCHANGED <<auth, lease, spent, terminal>>
          /\ op[old] # "SPECIALIST"
      BY <2>1 DEF ReplaceFirstJudgeWithBundle
    <3> HIDE DEF r
    <3> QED
      BY <1>1, <3>1, <3>2, HoldPromises
  <2>2. ASSUME NEW used \in SUBSET Slots, ReleaseUnusedRefinementMembers(used) PROVE Quiet
    <3>1. /\ UNCHANGED <<op, auth, lease, spent, terminal>>
          /\ \A t \in Slots : slot'[t] = "HELD" => slot[t] = "HELD"
      BY <2>2 DEF ReleaseUnusedRefinementMembers, Records, TypeOK
    <3>2. Promised' \subseteq Promised /\ Tooling' \subseteq Tooling
      BY <3>1 DEF Promised, Tooling, Held, Waiting, Ready
    <3> QED
      BY <1>3, <3>1, <3>2
  <2>3. ASSUME CompleteBundle PROVE Quiet
    <3>1. UNCHANGED <<slot, op, auth, lease, spent, terminal>>
      BY <2>3 DEF CompleteBundle
    <3>2. Promised' \subseteq Promised /\ Tooling' \subseteq Tooling
      BY <3>1 DEF Promised, Tooling, Held, Waiting, Ready
    <3> QED
      BY <1>3, <3>1, <3>2
  <2> QED
    BY <1>2, <1>6, <2>1, <2>2, <2>3 DEF Refine
<1>7. ASSUME NEW s \in Slots, Specialist(s) PROVE Models!Next /\ Tools!Next /\ Tokens!Next
  <2>1. CASE MaterializeSpecialistAuthorization(s)
    <3>1. /\ UNCHANGED <<op, lease, spent, terminal>>
          /\ slot[s] = "HELD" /\ op[s] = "SPECIALIST"
          /\ \A t \in Slots : /\ slot'[t] = "HELD" => slot[t] = "HELD"
                              /\ t # s => auth'[t] = auth[t]
                              /\ auth'[s] = "TOOL_AUTHORIZED"
      BY <2>1 DEF MaterializeSpecialistAuthorization, Records, TypeOK
    <3>2. Promised' \subseteq Promised /\ Tooling' \subseteq Tooling
      BY <3>1 DEF Promised, Tooling, Held, Waiting, Ready
    <3> QED
      BY <1>2, <1>3, <3>1, <3>2
  <2>2. CASE ClaimSpecialistToolDispatch(s)
    <3>1. /\ UNCHANGED <<slot, op, lease, spent, terminal>>
          /\ auth[s] = "TOOL_AUTHORIZED" /\ auth' = [auth EXCEPT ![s] = "TOOL_DISPATCHING"]
      BY <2>2 DEF ClaimSpecialistToolDispatch
    <3>2. Promised' \subseteq Promised /\ Tooling' \subseteq Tooling
      BY <3>1 DEF Promised, Tooling, Held, Waiting, Ready, Records, TypeOK
    <3> QED
      BY <1>2, <1>3, <3>1, <3>2
  <2>3. ASSUME NEW outcome, NEW next \in {"TOOL_CHARGED", "FAILED"}, SealOutcome(s, outcome, next)
        PROVE  Models!Next /\ Tools!Next /\ Tokens!Next
    <3>1. /\ UNCHANGED <<slot, op, lease, terminal>>
          /\ spent' = [spent EXCEPT !.tool = @ + 1]
          /\ auth[s] = "TOOL_DISPATCHING" /\ auth' = [auth EXCEPT ![s] = next]
      BY <2>3 DEF SealOutcome
    <3>2. Promised' \subseteq Promised
      BY <3>1 DEF Promised, Held, Waiting, Ready, Records, TypeOK
    <3>3. s \in Tooling /\ Tooling' \subseteq Tooling \ {s}
      BY <3>1 DEF Tooling, Held, Waiting, Records, TypeOK, Lineage
    <3>4. \A t \in Reserved' : t \in Reserved /\ lease'[t].reserved = lease[t].reserved
      BY <3>1 DEF Reserved
    <3>5. Holding' \subseteq Holding /\ \A t \in Slots : Worth'[t] <= Worth[t]
      BY <1>1, <3>1, <3>2, <3>4, NoneHoldsMore
    <3>6. spent'.model = spent.model /\ spent'.tokens = spent.tokens
          /\ spent'.tool = spent.tool + 1
      BY <3>1 DEF Records, TypeOK
    <3>7. Models!Settle /\ Tools!Settle
      BY <1>1, <3>1, <3>3, <3>5, <3>6, ModelsSettle, ToolsSettle
    <3>8. Tokens!Settle
      <4>1. /\ HeldTokens = Total(Worth, Slots) /\ HeldTokens \in Nat /\ spent.tokens \in Nat
            /\ \A t \in Slots : Worth[t] \in Nat
        BY Amounts DEF AmountsAreCounted
      <4>2. /\ HeldTokens' = Total(Worth', Slots) /\ HeldTokens' \in Nat
            /\ \A t \in Slots : Worth'[t] \in Nat
        BY <1>1, AmountsNext DEF AmountsAreCounted
      <4>3. Total(Worth', Slots) <= Total(Worth, Slots)
        BY <3>5, <4>1, <4>2, SlotsAreFinite, TotalMonotone
      <4>4. Operational' = Operational
        BY <3>1 DEF Operational
      <4> QED
        BY <3>6, <4>1, <4>2, <4>3, <4>4 DEF Tokens!Settle
    <3> QED
      BY <3>7, <3>8 DEF Models!Next, Tools!Next, Tokens!Next
  <2>4. CASE CompleteSpecialistToolDispatch(s)
    BY <2>3, <2>4 DEF CompleteSpecialistToolDispatch
  <2>5. CASE FailSpecialistToolDispatch(s)
    BY <2>3, <2>5 DEF FailSpecialistToolDispatch
  <2>6. CASE ReleaseSpecialistAuthorization(s)
    <3>1. /\ UNCHANGED <<slot, op, lease, spent, terminal>>
          /\ auth' = [auth EXCEPT ![s] = "RELEASED"]
      BY <2>6 DEF ReleaseSpecialistAuthorization
    <3>2. Promised' \subseteq Promised /\ Tooling' \subseteq Tooling
      BY <3>1 DEF Promised, Tooling, Held, Waiting, Ready, Records, TypeOK
    <3> QED
      BY <1>2, <1>3, <3>1, <3>2
  <2>7. CASE FailSpecialistAuthorization(s)
    <3> DEFINE auths == [auth EXCEPT ![s] = "FAILED"]
               leases == IF lease[s].status = "RESERVED"
                         THEN [lease EXCEPT ![s] = Closed("RETURNED", 0)] ELSE lease
    <3>1. WithAbort(s, auths, leases)
      BY <2>7 DEF FailSpecialistAuthorization
    <3>2. auths \in [Slots -> AuthStatuses] /\ leases \in [Slots -> Leases]
      BY DEF Records, TypeOK, AuthStatuses, Leases, Closed
    <3>3. /\ \A t \in Slots \ {s} : auths[t] = auth[t] /\ leases[t] = lease[t]
          /\ auth[s] \in {"TOOL_CHARGED", "MODEL_LEASED"} /\ auths[s] = "FAILED"
          /\ \/ leases[s] = lease[s]
             \/ lease[s].status = "RESERVED" /\ leases[s].status \in {"RETURNED", "EXPIRED"}
      BY <2>7 DEF FailSpecialistAuthorization, Records, TypeOK, Closed
    <3> HIDE DEF auths, leases
    <3>4. AbortEffect(auths, leases)
      BY <3>1, <3>2, Aborts
    <3>5. UNCHANGED <<variant, op, receipt, spent, terminal, lapsed, calling>> /\ live' = NoSlot
      BY <2>7 DEF FailSpecialistAuthorization
    <3> QED
      BY <1>2, <3>2, <3>3, <3>4, <3>5, AbortIsQuiet
  <2>8. CASE CompleteSpecialistAuthorization(s)
    <3>1. /\ UNCHANGED <<slot, op, lease, spent, terminal>>
          /\ auth' = [auth EXCEPT ![s] = "COMPLETED"]
      BY <2>8 DEF CompleteSpecialistAuthorization
    <3>2. Promised' \subseteq Promised /\ Tooling' \subseteq Tooling
      BY <3>1 DEF Promised, Tooling, Held, Waiting, Ready, Records, TypeOK
    <3> QED
      BY <1>2, <1>3, <3>1, <3>2
  <2> QED
    BY <1>7, <2>1, <2>2, <2>4, <2>5, <2>6, <2>7, <2>8 DEF Specialist
<1>8. ASSUME NEW code \in Failures, Latch(code) PROVE Models!Next /\ Tools!Next /\ Tokens!Next
  BY <1>1, <1>8, LatchCloses DEF Models!Next, Tools!Next, Tokens!Next
<1>9. ASSUME UNCHANGED <<slot, op, auth, lease, spent, terminal>> PROVE Quiet
  <2>1. Promised' \subseteq Promised /\ Tooling' \subseteq Tooling
    BY <1>9 DEF Promised, Tooling, Held, Waiting, Ready
  <2> QED
    BY <1>3, <1>9, <2>1
<1>10. ASSUME NEW s \in Slots, ModelCall(s) PROVE Models!Next /\ Tools!Next /\ Tokens!Next
  <2>1. ASSUME NEW input \in Inputs, ExpandExactModelLease(s, input)
        PROVE  Models!Next /\ Tools!Next /\ Tokens!Next
    BY <1>1, <2>1, ExpandPromises
  <2>2. ASSUME NEW used \in 0 .. MaxTokens, ChargeExactModelLease(s, used)
        PROVE  Models!Next /\ Tools!Next /\ Tokens!Next
    BY <1>1, <2>2, ChargeSettles DEF Models!Next, Tools!Next, Tokens!Next
  <2>3. CASE CallFails(s)
    BY <1>8, <2>3 DEF CallFails, Failures
  <2>4. CASE LateAnswer(s)
    BY <1>2, <1>9, <2>4 DEF LateAnswer
  <2>5. ASSUME NEW status \in {"RETURNED", "EXPIRED"}, lease[s].status = "RESERVED",
               WithAbort(s, auth, [lease EXCEPT ![s] = Closed(status, 0)]), live' = NoSlot,
               UNCHANGED <<variant, op, receipt, spent, terminal, lapsed, calling>>
        PROVE  Quiet
    <3> DEFINE leases == [lease EXCEPT ![s] = Closed(status, 0)]
    <3>1. auth \in [Slots -> AuthStatuses] /\ leases \in [Slots -> Leases]
      BY DEF Records, TypeOK, Leases, Closed
    <3>2. /\ \A t \in Slots \ {s} : leases[t] = lease[t]
          /\ leases[s].status \in {"RETURNED", "EXPIRED"}
      BY DEF Records, TypeOK, Closed
    <3> HIDE DEF leases
    <3>3. AbortEffect(auth, leases)
      BY <2>5, <3>1, Aborts DEF leases
    <3> QED
      BY <2>5, <3>1, <3>2, <3>3, AbortIsQuiet
  <2>6. CASE ReturnExactModelLease(s)
    BY <1>2, <2>5, <2>6 DEF ReturnExactModelLease
  <2>7. CASE ExpireModelLease(s)
    BY <1>2, <2>5, <2>7 DEF ExpireModelLease
  <2>8. CASE ConflictingDuplicateCharge(s)
    BY <1>8, <2>8 DEF ConflictingDuplicateCharge, Failures
  <2> QED
    BY <1>10, <2>1, <2>2, <2>3, <2>4, <2>6, <2>7, <2>8 DEF ModelCall
<1>11. CASE ChargeSingleAgentToolAttempt
  <2>1. CASE spent.tool + 1 > MaxToolCalls
    BY <1>8, <1>11, <2>1 DEF ChargeSingleAgentToolAttempt, Latch, Failures
  <2>2. CASE ~(spent.tool + 1 > MaxToolCalls)
    <3>1. /\ spent' = [spent EXCEPT !.tool = @ + 1]
          /\ UNCHANGED <<slot, op, auth, lease, terminal>> /\ Operational
          /\ variant = "SINGLE_AGENT"
      BY <1>11, <2>2 DEF ChargeSingleAgentToolAttempt
    <3>2. spent'.model = spent.model /\ spent'.tokens = spent.tokens
          /\ spent'.tool = spent.tool + 1
      BY <3>1 DEF Records, TypeOK
    <3>3. /\ Promised' = Promised /\ Reserved' = Reserved /\ Tooling' = Tooling
          /\ Operational' = Operational
      BY <3>1 DEF Promised, Tooling, Held, Waiting, Ready, Reserved, Operational
    <3>4. Holding' = Holding /\ Worth' = Worth
      BY <3>1, <3>3 DEF Holding, Worth
    <3>5. Tooling = {}
      BY <3>1 DEF Tooling, Held, Waiting, Records, SingleAgents, Lineage
    <3>6. /\ HeldModelCalls = Cardinality(Holding) /\ HeldToolCalls = Cardinality(Tooling)
          /\ HeldTokens = Total(Worth, Slots)
          /\ HeldModelCalls \in Nat /\ HeldToolCalls \in Nat /\ HeldTokens \in Nat
          /\ spent.model \in Nat /\ spent.tool \in Nat /\ spent.tokens \in Nat
      BY Amounts DEF AmountsAreCounted
    <3>7. /\ HeldModelCalls' = Cardinality(Holding') /\ HeldToolCalls' = Cardinality(Tooling')
          /\ HeldTokens' = Total(Worth', Slots)
      BY <1>1, AmountsNext DEF AmountsAreCounted
    <3>8. HeldModelCalls' = HeldModelCalls /\ HeldToolCalls' = HeldToolCalls
          /\ HeldTokens' = HeldTokens /\ HeldToolCalls = 0
      BY <3>3, <3>4, <3>5, <3>6, <3>7, FS_EmptySet
    <3>9. Models!Settle /\ Tokens!Settle
      BY <3>2, <3>3, <3>6, <3>8 DEF Models!Settle, Tokens!Settle
    <3>10. Tools!Draw
      BY <2>2, <3>1, <3>2, <3>3, <3>6, <3>8, CapsAssumption DEF Tools!Draw
    <3> QED
      BY <3>9, <3>10 DEF Models!Next, Tools!Next, Tokens!Next
  <2> QED
    BY <2>1, <2>2
<1>12. CASE RecordTerminalFailure
  BY <1>8, <1>12 DEF RecordTerminalFailure, Failures
<1>13. CASE Lapse
  BY <1>2, <1>9, <1>13 DEF Lapse
<1>14. CASE UNCHANGED vars
  BY <1>2, <1>9, <1>14 DEF vars
<1> QED
  BY <1>5, <1>6, <1>7, <1>10, <1>11, <1>12, <1>13, <1>14 DEF Next

--------------------------------------------------------------------------------
(* The counters are those of the records *)

\* Nothing is held and nothing charged to begin with.
LEMMA InitAccounts ==
    ASSUME Init
    PROVE  /\ Models!Init /\ Tools!Init /\ Tokens!Init
           /\ CallsAreConserved /\ TokensAreConserved /\ ChargesAreRecorded
<1>1. Records
  BY InitRecords
<1>2. /\ HeldModelCalls = Cardinality(Holding) /\ HeldToolCalls = Cardinality(Tooling)
      /\ HeldTokens = Total(Worth, Slots) /\ \A s \in Slots : Worth[s] \in Nat
  BY <1>1, Amounts DEF AmountsAreCounted
<1>3. /\ Held = {} /\ Waiting = {} /\ Ready = {} /\ Reserved = {} /\ Charged = {} /\ Sealed = {}
  BY DEF Init, Held, Waiting, Ready, Reserved, Charged, Sealed, NoLease, Closed
<1>4. HeldModelCalls = 0 /\ HeldToolCalls = 0
  BY <1>2, <1>3, FS_EmptySet DEF Holding, Promised, Tooling
<1>5. ASSUME NEW g, \A s \in Slots : g[s] = 0 PROVE Total(g, Slots) = 0
  <2>1. {} \in SUBSET Slots /\ \A s \in Slots : g[s] \in Nat
    BY <1>5
  <2>2. Total(g, {}) = Total(g, Slots)
    BY <1>5, <2>1, SlotsAreFinite, TotalPart
  <2>3. Total(g, {}) = 0
    BY FS_EmptySet, TotalUnfolds
  <2> QED
    BY <2>2, <2>3
<1>6. HeldTokens = 0
  <2>1. \A s \in Slots : Worth[s] = 0
    BY <1>3 DEF Worth, Promised
  <2> QED
    BY <1>2, <1>5, <2>1
<1>7. spent.model = 0 /\ spent.tool = 0 /\ spent.tokens = 0 /\ Operational
  BY DEF Init, Operational
<1>8. ChargesAreRecorded
  <2>1. MapThenSumSet(LAMBDA s : lease[s].used, Charged) = Total(Used, Slots)
    <3>1. Charged \in SUBSET Slots /\ \A s \in Charged : lease[s].used \in Nat
      BY <1>1 DEF Charged, Records, TypeOK, Leases
    <3> QED
      BY <3>1, UsedSum DEF Used
  <2>2. \A s \in Slots : Used[s] = 0
    BY <1>3 DEF Used
  <2>3. Total(Used, Slots) = 0
    BY <1>5, <2>2
  <2>4. Cardinality(Charged) = 0 /\ Cardinality(Sealed) = 0
    BY <1>3, FS_EmptySet
  <2> QED
    BY <1>7, <2>1, <2>3, <2>4 DEF ChargesAreRecorded, Charged, Sealed
<1> QED
  BY <1>4, <1>6, <1>7, <1>8, CapsAssumption
     DEF Models!Init, Tools!Init, Tokens!Init, CallsAreConserved, TokensAreConserved

\* A step of the three accounts stays within the caps.
LEMMA AccountsConserve ==
    ASSUME Records, Records', CallsAreConserved, TokensAreConserved,
           Models!Next, Tools!Next, Tokens!Next
    PROVE  CallsAreConserved' /\ TokensAreConserved'
<1>1. /\ HeldModelCalls \in Nat /\ HeldToolCalls \in Nat /\ HeldTokens \in Nat
      /\ spent.model \in Nat /\ spent.tool \in Nat /\ spent.tokens \in Nat
  BY Amounts DEF AmountsAreCounted
<1>2. /\ HeldModelCalls' \in Nat /\ HeldToolCalls' \in Nat /\ HeldTokens' \in Nat
      /\ spent'.model \in Nat /\ spent'.tool \in Nat /\ spent'.tokens \in Nat
  BY AmountsNext DEF AmountsAreCounted
<1>3. spent'.model + HeldModelCalls' <= MaxModelCalls
  BY <1>1, <1>2, CapsAssumption DEF CallsAreConserved, Models!Next, Models!Promise,
     Models!Draw, Models!Settle, Models!Close
<1>4. spent'.tool + HeldToolCalls' <= MaxToolCalls
  BY <1>1, <1>2, CapsAssumption DEF CallsAreConserved, Tools!Next, Tools!Promise,
     Tools!Draw, Tools!Settle, Tools!Close
<1>5. spent'.tokens + HeldTokens' <= MaxTokens
  BY <1>1, <1>2, CapsAssumption DEF TokensAreConserved, Tokens!Next, Tokens!Promise,
     Tokens!Draw, Tokens!Settle, Tokens!Close
<1> QED
  BY <1>3, <1>4, <1>5 DEF CallsAreConserved, TokensAreConserved

\* A step that charges no lease and seals no outcome.
ChargesNothing ==
    /\ UNCHANGED <<variant, spent, receipt>>
    /\ \A s \in Slots : lease[s].status = "CHARGED" \/ lease'[s].status = "CHARGED"
                          => lease'[s] = lease[s]

\* The steps that charge are the charge of a lease, the sealing of an outcome and the tool
\* call of a single agent.
LEMMA StepCharges ==
    ASSUME Records, [Next]_vars
    PROVE  \/ ChargesNothing
           \/ \E s \in Slots, used \in 0 .. MaxTokens : ChargeExactModelLease(s, used)
           \/ \E s \in Slots, outcome \in {"SUCCESS", "FAILURE"}, next \in AuthStatuses :
                 SealOutcome(s, outcome, next)
           \/ ChargeSingleAgentToolAttempt
<1>1. UNCHANGED <<variant, spent, receipt, lease>> => ChargesNothing
  BY DEF ChargesNothing
<1>2. CASE Hold
  <2>1. ASSUME NEW r, HoldCapacitySlots(r) PROVE UNCHANGED <<variant, spent, receipt, lease>>
    BY <2>1 DEF HoldCapacitySlots
  <2> QED
    BY <1>1, <1>2, <2>1 DEF Hold, AdmitSingleAgentCall, HoldOne, InitializeDynamic,
       InitializeFixed, ResizeDynamicInitialPlan, CloseCapacitySlot
<1>3. CASE Refine
  BY <1>1, <1>3 DEF Refine, ReplaceFirstJudgeWithBundle, ReleaseUnusedRefinementMembers,
     CompleteBundle
<1>4. ASSUME NEW s \in Slots, NEW auths \in [Slots -> AuthStatuses],
             NEW leases \in [Slots -> Leases], WithAbort(s, auths, leases),
             \A t \in Slots : \/ leases[t] = lease[t]
                              \/ lease[t].status = "RESERVED" /\ leases[t].status # "CHARGED",
             UNCHANGED <<variant, op, receipt, spent, terminal, lapsed, calling>>
      PROVE  ChargesNothing
  <2>1. AbortEffect(auths, leases)
    BY <1>4, Aborts
  <2>2. Closed("RETURNED", 0).status = "RETURNED"
    BY DEF Closed
  <2> SUFFICES ASSUME NEW t \in Slots
               PROVE  lease[t].status = "CHARGED" \/ lease'[t].status = "CHARGED"
                        => lease'[t] = lease[t]
    BY <1>4 DEF ChargesNothing
  <2>3. lease'[t] = leases[t] \/ (leases[t].status = "RESERVED" /\ lease'[t].status = "RETURNED")
    BY <2>1, <2>2 DEF AbortEffect
  <2> QED
    BY <1>4, <2>3
<1>5. ASSUME NEW s \in Slots, Specialist(s)
      PROVE  \/ ChargesNothing
             \/ \E outcome \in {"SUCCESS", "FAILURE"}, next \in AuthStatuses :
                   SealOutcome(s, outcome, next)
  <2>1. CASE FailSpecialistAuthorization(s)
    <3> DEFINE auths == [auth EXCEPT ![s] = "FAILED"]
               leases == IF lease[s].status = "RESERVED"
                         THEN [lease EXCEPT ![s] = Closed("RETURNED", 0)] ELSE lease
    <3>1. WithAbort(s, auths, leases)
      BY <2>1 DEF FailSpecialistAuthorization
    <3>2. auths \in [Slots -> AuthStatuses] /\ leases \in [Slots -> Leases]
      BY DEF Records, TypeOK, AuthStatuses, Leases, Closed
    <3>3. \A t \in Slots : \/ leases[t] = lease[t]
                           \/ lease[t].status = "RESERVED" /\ leases[t].status # "CHARGED"
      BY DEF Records, TypeOK, Closed
    <3> HIDE DEF auths, leases
    <3>4. UNCHANGED <<variant, op, receipt, spent, terminal, lapsed, calling>>
      BY <2>1 DEF FailSpecialistAuthorization
    <3> QED
      BY <1>4, <3>1, <3>2, <3>3, <3>4
  <2>2. CASE CompleteSpecialistToolDispatch(s) \/ FailSpecialistToolDispatch(s)
    BY <2>2 DEF CompleteSpecialistToolDispatch, FailSpecialistToolDispatch, AuthStatuses
  <2>3. CASE \/ MaterializeSpecialistAuthorization(s) \/ ClaimSpecialistToolDispatch(s)
             \/ ReleaseSpecialistAuthorization(s) \/ CompleteSpecialistAuthorization(s)
    BY <1>1, <2>3 DEF MaterializeSpecialistAuthorization, ClaimSpecialistToolDispatch,
       ReleaseSpecialistAuthorization, CompleteSpecialistAuthorization
  <2> QED
    BY <1>5, <2>1, <2>2, <2>3 DEF Specialist
<1>6. ASSUME NEW s \in Slots, ModelCall(s)
      PROVE  ChargesNothing \/ \E used \in 0 .. MaxTokens : ChargeExactModelLease(s, used)
  <2>1. ASSUME NEW input \in Inputs, ExpandExactModelLease(s, input) PROVE ChargesNothing
    <3>1. /\ UNCHANGED <<variant, spent, receipt>>
          /\ lease' = [lease EXCEPT ![s] = [status |-> "RESERVED", input |-> input,
                                            reserved |-> Available(s), used |-> 0]]
          /\ lease[s].status = "NONE"
      BY <2>1 DEF ExpandExactModelLease, LeaseSource, Records, Lineage
    <3> QED
      BY <3>1 DEF ChargesNothing, Records, TypeOK
  <2>2. ASSUME NEW status \in {"RETURNED", "EXPIRED"}, lease[s].status = "RESERVED",
               WithAbort(s, auth, [lease EXCEPT ![s] = Closed(status, 0)]),
               UNCHANGED <<variant, op, receipt, spent, terminal, lapsed, calling>>
        PROVE  ChargesNothing
    <3> DEFINE leases == [lease EXCEPT ![s] = Closed(status, 0)]
    <3>1. auth \in [Slots -> AuthStatuses] /\ leases \in [Slots -> Leases]
      BY DEF Records, TypeOK, Leases, Closed
    <3>2. \A t \in Slots : \/ leases[t] = lease[t]
                           \/ lease[t].status = "RESERVED" /\ leases[t].status # "CHARGED"
      BY <2>2 DEF Records, TypeOK, Closed
    <3>3. WithAbort(s, auth, leases)
      BY <2>2
    <3> HIDE DEF leases
    <3> QED
      BY <1>4, <2>2, <3>1, <3>2, <3>3
  <2>3. CASE ReturnExactModelLease(s)
    BY <2>2, <2>3 DEF ReturnExactModelLease
  <2>4. CASE ExpireModelLease(s)
    BY <2>2, <2>4 DEF ExpireModelLease
  <2>5. CASE CallFails(s) \/ LateAnswer(s) \/ ConflictingDuplicateCharge(s)
    BY <1>1, <2>5 DEF CallFails, LateAnswer, ConflictingDuplicateCharge, Latch
  <2> QED
    BY <1>6, <2>1, <2>3, <2>4, <2>5 DEF ModelCall
<1>7. CASE RecordTerminalFailure \/ Lapse \/ UNCHANGED vars
  BY <1>1, <1>7 DEF RecordTerminalFailure, Lapse, Latch, vars
<1> QED
  BY <1>2, <1>3, <1>5, <1>6, <1>7 DEF Next

\* The counters, with the tokens used added up slot by slot.
Counted ==
    /\ spent.model = Cardinality(Charged)
    /\ spent.tokens = Total(Used, Slots)
    /\ variant # "SINGLE_AGENT" => spent.tool = Cardinality(Sealed)

LEMMA CountsOfRecords == Records => (ChargesAreRecorded <=> Counted)
<1> SUFFICES ASSUME Records PROVE ChargesAreRecorded <=> Counted
  OBVIOUS
<1>1. Charged \in SUBSET Slots /\ \A s \in Charged : lease[s].used \in Nat
  BY DEF Charged, Records, TypeOK, Leases
<1>2. MapThenSumSet(LAMBDA s : lease[s].used, Charged) = Total(Used, Slots)
  BY <1>1, UsedSum DEF Used
<1>3. ChargesAreRecorded <=>
        /\ spent.model = Cardinality(Charged)
        /\ spent.tokens = MapThenSumSet(LAMBDA s : lease[s].used, Charged)
        /\ variant # "SINGLE_AGENT" => spent.tool = Cardinality(Sealed)
  BY DEF ChargesAreRecorded, Charged, Sealed
<1> QED
  BY <1>2, <1>3 DEF Counted

\* The same after a step.
LEMMA CountsOfRecordsNext == Records' => (ChargesAreRecorded' <=> Counted')
BY CountsOfRecords, PTL

\* Every charge is counted once, by the step that records it.
LEMMA StepKeepsCharges ==
    ASSUME Records, ChargesAreRecorded, [Next]_vars
    PROVE  ChargesAreRecorded'
<1>1. Records'
  BY StepKeepsRecords
<1>2. Counted
  BY CountsOfRecords
<1>3. /\ \A s \in Slots : Used[s] \in Nat
      /\ IsFiniteSet(Charged) /\ IsFiniteSet(Sealed)
      /\ Cardinality(Charged) \in Nat /\ Cardinality(Sealed) \in Nat
      /\ spent \in [model : Nat, tool : Nat, tokens : Nat]
  <2>1. \A s \in Slots : Used[s] \in Nat
    BY DEF Used, Charged, Records, TypeOK, Leases
  <2>2. Charged \in SUBSET Slots /\ Sealed \in SUBSET Slots
    BY DEF Charged, Sealed
  <2> QED
    BY <2>1, <2>2, SlotsAreFinite, FS_CardinalityType DEF Records, TypeOK
<1>4. SUFFICES Counted'
  BY <1>1, CountsOfRecordsNext
<1>5. CASE ChargesNothing
  <2>1. Charged' = Charged /\ Sealed' = Sealed
    BY <1>5 DEF ChargesNothing, Charged, Sealed
  <2>2. Used' = Used
    BY <1>5, <2>1 DEF ChargesNothing, Used, Charged
  <2> QED
    BY <1>2, <1>5, <2>1, <2>2 DEF Counted, ChargesNothing
<1>6. ASSUME NEW s \in Slots, NEW used \in 0 .. MaxTokens, ChargeExactModelLease(s, used)
      PROVE  Counted'
  <2>1. /\ lease[s].status = "RESERVED" /\ UNCHANGED <<variant, receipt>>
        /\ lease' = [lease EXCEPT ![s] = Closed("CHARGED", used)]
        /\ spent' = [spent EXCEPT !.model = @ + 1, !.tokens = @ + used]
    BY <1>6 DEF ChargeExactModelLease
  <2>2. /\ lease'[s].status = "CHARGED" /\ lease'[s].used = used
        /\ \A t \in Slots \ {s} : lease'[t] = lease[t]
    BY <2>1 DEF Records, TypeOK, Closed
  <2>3. Charged' = Charged \cup {s} /\ s \notin Charged /\ Sealed' = Sealed
    BY <2>1, <2>2 DEF Charged, Sealed
  <2>4. Cardinality(Charged') = Cardinality(Charged) + 1
    BY <1>3, <2>3, FS_AddElement
  <2>5. Used'[s] = used /\ Used[s] = 0 /\ \A t \in Slots \ {s} : Used'[t] = Used[t]
    BY <2>2, <2>3 DEF Used
  <2>6. used \in Nat /\ \A t \in Slots : Used'[t] \in Nat
    BY <1>3, <2>5, CapsAssumption
  <2>7. Total(Used', Slots) + Used[s] = Total(Used, Slots) + Used'[s]
    BY <1>3, <2>5, <2>6, SlotsAreFinite, TotalUpdate
  <2>8. Total(Used', Slots) \in Nat /\ Total(Used, Slots) \in Nat
    BY <1>3, <2>6, SlotsAreFinite, TotalIsNat
  <2>9. Total(Used', Slots) = Total(Used, Slots) + used
    BY <2>5, <2>6, <2>7, <2>8
  <2>10. /\ spent'.model = spent.model + 1 /\ spent'.tool = spent.tool
         /\ spent'.tokens = spent.tokens + used
    BY <1>3, <2>1
  <2> QED
    BY <1>2, <2>1, <2>3, <2>4, <2>9, <2>10 DEF Counted
<1>7. ASSUME NEW s \in Slots, NEW outcome \in {"SUCCESS", "FAILURE"}, NEW next \in AuthStatuses,
             SealOutcome(s, outcome, next)
      PROVE  Counted'
  <2>1. /\ receipt[s] = "NONE" /\ receipt' = [receipt EXCEPT ![s] = outcome]
        /\ UNCHANGED <<variant, lease>> /\ spent' = [spent EXCEPT !.tool = @ + 1]
    BY <1>7 DEF SealOutcome
  <2>2. Sealed' = Sealed \cup {s} /\ s \notin Sealed /\ Charged' = Charged
    BY <2>1 DEF Sealed, Charged, Records, TypeOK
  <2>3. Cardinality(Sealed') = Cardinality(Sealed) + 1
    BY <1>3, <2>2, FS_AddElement
  <2>4. Used' = Used
    BY <2>1, <2>2 DEF Used
  <2>5. /\ spent'.model = spent.model /\ spent'.tool = spent.tool + 1
        /\ spent'.tokens = spent.tokens
    BY <1>3, <2>1
  <2> QED
    BY <1>2, <2>1, <2>2, <2>3, <2>4, <2>5 DEF Counted
<1>8. CASE ChargeSingleAgentToolAttempt
  <2>1. /\ UNCHANGED <<variant, receipt, lease>> /\ variant = "SINGLE_AGENT"
        /\ spent' = spent \/ spent' = [spent EXCEPT !.tool = @ + 1]
    BY <1>8 DEF ChargeSingleAgentToolAttempt
  <2>2. Charged' = Charged /\ Used' = Used
    BY <2>1 DEF Charged, Used
  <2>3. spent'.model = spent.model /\ spent'.tokens = spent.tokens
    BY <1>3, <2>1
  <2> QED
    BY <1>2, <2>1, <2>2, <2>3 DEF Counted
<1> QED
  BY <1>5, <1>6, <1>7, <1>8, StepCharges

--------------------------------------------------------------------------------
(* History and the bundle *)

\* What a step other than an expansion and the making of a bundle does to the records.
Continues ==
    /\ HistoryStep
    /\ \A s \in Slots : lease[s].status = "NONE" => lease'[s].status = "NONE"
    /\ UNCHANGED op
    /\ bundle' = bundle \/ \E status : bundle' = [bundle EXCEPT !.status = status]

\* What holding slots does to them.
Extends ==
    /\ HistoryStep
    /\ UNCHANGED lease
    /\ \A s \in Slots : op[s] # "NONE" => op'[s] = op[s]

\* Holding slots writes to nothing that is closed.
LEMMA HoldExtends ==
    ASSUME Records, NEW r, NEW freed \in SUBSET Held, BuildSlots(r, freed),
           UNCHANGED <<auth, receipt, lease>>, bundle' = bundle \/ bundle.status = "NONE"
    PROVE  Extends
<1>1. /\ \A s \in DOMAIN r : s \in Slots /\ slot[s] = "NONE"
      /\ \A s \in Slots : s \notin DOMAIN r /\ s \notin freed => slot'[s] = slot[s]
      /\ \A s \in Slots : s \notin DOMAIN r => op'[s] = op[s]
      /\ \A s \in freed : slot[s] = "HELD"
  BY DEF BuildSlots, Fresh, Unused, Held
<1>2. \A s \in Slots : op[s] # "NONE" => op'[s] = op[s]
  BY <1>1 DEF Records, Lineage
<1>3. HistoryStep
  BY <1>1 DEF HistoryStep
<1> QED
  BY <1>2, <1>3 DEF Extends

\* Nor does giving up on a slot.
LEMMA AbortContinues ==
    ASSUME Records, NEW s \in Slots, NEW auths \in [Slots -> AuthStatuses],
           NEW leases \in [Slots -> Leases], AbortEffect(auths, leases),
           \A t \in Slots \ {s} : auths[t] = auth[t] /\ leases[t] = lease[t],
           \/ auths[s] = auth[s]
           \/ auth[s] \in {"TOOL_CHARGED", "MODEL_LEASED"} /\ auths[s] = "FAILED",
           \/ leases[s] = lease[s]
           \/ lease[s].status = "RESERVED" /\ leases[s].status \in {"RETURNED", "EXPIRED"},
           UNCHANGED <<op, receipt>>
    PROVE  Continues
<1>1. ASSUME NEW t \in Slots
      PROVE  /\ auth[t] \in {"COMPLETED", "RELEASED", "FAILED"} => auth'[t] = auth[t]
             /\ lease[t].status \notin {"NONE", "RESERVED"} => lease'[t] = lease[t]
             /\ lease[t].status = "NONE" => lease'[t].status = "NONE"
             /\ slot[t] \notin {"NONE", "HELD"} => slot'[t] = slot[t]
  <2>1. /\ lease'[t] = leases[t] \/ leases[t].status = "RESERVED"
        /\ leases[t] = lease[t] \/ lease[t].status = "RESERVED"
        /\ leases[t] = lease[t] \/ leases[t].status # "RESERVED"
    BY DEF AbortEffect
  <2>2. /\ \/ auth'[t] = auths[t]
           \/ auths[t] \in {"TOOL_AUTHORIZED", "TOOL_CHARGED", "MODEL_LEASED"}
        /\ auths[t] = auth[t] \/ auth[t] \in {"TOOL_CHARGED", "MODEL_LEASED"}
    BY DEF AbortEffect
  <2>3. slot'[t] = slot[t] \/ slot[t] = "HELD"
    BY DEF AbortEffect
  <2> QED
    BY <2>1, <2>2, <2>3
<1>2. /\ bundle.status \in {"RELEASED", "COMPLETED"} => bundle' = bundle
      /\ bundle' = bundle \/ \E status : bundle' = [bundle EXCEPT !.status = status]
  BY DEF AbortEffect, BundleIsActive
<1> QED
  BY <1>1, <1>2 DEF Continues, HistoryStep

\* Every step leaves what is closed as it is, a lease begins by an expansion and a bundle
\* by the replacement of the first judge.
LEMMA StepContinues ==
    ASSUME Records, [Next]_vars
    PROVE  \/ Continues
           \/ Extends /\ bundle' = bundle
           \/ \E s \in Slots, input \in Inputs : ExpandExactModelLease(s, input) /\ HistoryStep
           \/ /\ Extends
              /\ \E old \in Held, first, final \in Unused, S \in SUBSET Unused :
                    ReplaceFirstJudgeWithBundle(old, first, S, final)
<1>1. ASSUME NEW r, HoldCapacitySlots(r) PROVE Extends /\ bundle' = bundle
  BY <1>1, HoldExtends DEF HoldCapacitySlots
<1>2. ASSUME UNCHANGED <<op, bundle>>,
             \A s \in Slots :
                /\ receipt[s] # "NONE" => receipt'[s] = receipt[s]
                /\ lease[s].status \notin {"NONE", "RESERVED"} => lease'[s] = lease[s]
                /\ lease[s].status = "NONE" => lease'[s].status = "NONE"
                /\ auth[s] \in {"COMPLETED", "RELEASED", "FAILED"} => auth'[s] = auth[s]
                /\ slot[s] \notin {"NONE", "HELD"} => slot'[s] = slot[s]
      PROVE  Continues
  BY <1>2 DEF Continues, HistoryStep
<1>3. CASE Hold
  <2>1. ASSUME NEW c \in Slots, NEW b \in Slots, NEW j \in Slots, NEW new \in SUBSET Unused,
               ResizeDynamicInitialPlan(c, b, j, new)
        PROVE  Extends /\ bundle' = bundle
    <3> DEFINE r == [t \in new |-> "SPECIALIST"]
    <3>1. BuildSlots(r, {}) /\ UNCHANGED <<auth, receipt, lease, bundle>>
      BY <2>1 DEF ResizeDynamicInitialPlan
    <3> HIDE DEF r
    <3> QED
      BY <3>1, HoldExtends
  <2>2. ASSUME NEW s \in Slots, CloseCapacitySlot(s) PROVE Continues
    BY <1>2, <2>2 DEF CloseCapacitySlot, Records, TypeOK
  <2> QED
    BY <1>1, <1>3, <2>1, <2>2 DEF Hold, AdmitSingleAgentCall, HoldOne, InitializeDynamic,
       InitializeFixed
<1>4. CASE Refine
  <2>1. ASSUME NEW old \in Held, NEW first \in Unused, NEW final \in Unused,
               NEW S \in SUBSET Unused, ReplaceFirstJudgeWithBundle(old, first, S, final)
        PROVE  Extends
    <3> DEFINE r == [s \in {first, final} \cup S |-> IF s = first THEN "REFINING_JUDGE"
                                                     ELSE IF s = final THEN "FINAL_JUDGE"
                                                     ELSE "SPECIALIST"]
    <3>1. BuildSlots(r, {old}) /\ UNCHANGED <<auth, receipt, lease>> /\ bundle.status = "NONE"
      BY <2>1 DEF ReplaceFirstJudgeWithBundle
    <3> HIDE DEF r
    <3> QED
      BY <3>1, HoldExtends
  <2>2. ASSUME NEW used \in SUBSET Slots, ReleaseUnusedRefinementMembers(used) PROVE Continues
    <3>1. /\ UNCHANGED <<op, auth, receipt, lease>> /\ bundle.status = "HELD"
          /\ \E status : bundle' = [bundle EXCEPT !.status = status]
          /\ slot' = [s \in Slots |-> IF \/ s \in bundle.specialists \ used
                                         \/ ~(used # {}) /\ s = bundle.final
                                      THEN "RELEASED" ELSE slot[s]]
          /\ \A s \in bundle.specialists \ used : slot[s] = "HELD"
          /\ used # {} \/ slot[bundle.final] = "HELD"
      BY <2>2 DEF ReleaseUnusedRefinementMembers
    <3>2. \A s \in Slots : slot[s] \notin {"NONE", "HELD"} => slot'[s] = slot[s]
      BY <3>1
    <3> QED
      BY <3>1, <3>2 DEF Continues, HistoryStep
  <2>3. ASSUME CompleteBundle PROVE Continues
    BY <2>3 DEF CompleteBundle, Continues, HistoryStep
  <2> QED
    BY <1>4, <2>1, <2>2, <2>3 DEF Refine
<1>5. ASSUME NEW s \in Slots, Specialist(s) PROVE Continues
  <2>1. CASE MaterializeSpecialistAuthorization(s)
    BY <1>2, <2>1 DEF MaterializeSpecialistAuthorization, Records, TypeOK, Lineage
  <2>2. CASE ClaimSpecialistToolDispatch(s)
    BY <1>2, <2>2 DEF ClaimSpecialistToolDispatch, Records, TypeOK
  <2>3. ASSUME NEW outcome, NEW next, SealOutcome(s, outcome, next) PROVE Continues
    BY <1>2, <2>3 DEF SealOutcome, Records, TypeOK
  <2>4. CASE CompleteSpecialistToolDispatch(s) \/ FailSpecialistToolDispatch(s)
    BY <2>3, <2>4 DEF CompleteSpecialistToolDispatch, FailSpecialistToolDispatch
  <2>5. CASE ReleaseSpecialistAuthorization(s)
    BY <1>2, <2>5 DEF ReleaseSpecialistAuthorization, Records, TypeOK
  <2>6. CASE FailSpecialistAuthorization(s)
    <3> DEFINE auths == [auth EXCEPT ![s] = "FAILED"]
               leases == IF lease[s].status = "RESERVED"
                         THEN [lease EXCEPT ![s] = Closed("RETURNED", 0)] ELSE lease
    <3>1. WithAbort(s, auths, leases)
      BY <2>6 DEF FailSpecialistAuthorization
    <3>2. auths \in [Slots -> AuthStatuses] /\ leases \in [Slots -> Leases]
      BY DEF Records, TypeOK, AuthStatuses, Leases, Closed
    <3>3. /\ \A t \in Slots \ {s} : auths[t] = auth[t] /\ leases[t] = lease[t]
          /\ auth[s] \in {"TOOL_CHARGED", "MODEL_LEASED"} /\ auths[s] = "FAILED"
          /\ \/ leases[s] = lease[s]
             \/ lease[s].status = "RESERVED" /\ leases[s].status \in {"RETURNED", "EXPIRED"}
      BY <2>6 DEF FailSpecialistAuthorization, Records, TypeOK, Closed
    <3> HIDE DEF auths, leases
    <3>4. AbortEffect(auths, leases)
      BY <3>1, <3>2, Aborts
    <3>5. UNCHANGED <<op, receipt>>
      BY <2>6 DEF FailSpecialistAuthorization
    <3> QED
      BY <3>2, <3>3, <3>4, <3>5, AbortContinues
  <2>7. CASE CompleteSpecialistAuthorization(s)
    BY <1>2, <2>7 DEF CompleteSpecialistAuthorization, Records, TypeOK
  <2> QED
    BY <1>5, <2>1, <2>2, <2>4, <2>5, <2>6, <2>7 DEF Specialist
<1>6. ASSUME NEW s \in Slots, ModelCall(s)
      PROVE  Continues \/ \E input \in Inputs : ExpandExactModelLease(s, input) /\ HistoryStep
  <2>1. ASSUME NEW input \in Inputs, ExpandExactModelLease(s, input) PROVE HistoryStep
    <3>1. /\ UNCHANGED <<receipt, bundle>> /\ lease[s].status = "NONE"
          /\ \A t \in Slots \ {s} : lease'[t] = lease[t]
          /\ \/ auth[s] = "TOOL_CHARGED" /\ auth' = [auth EXCEPT ![s] = "MODEL_LEASED"]
                /\ slot' = slot
             \/ slot[s] = "HELD" /\ slot' = [slot EXCEPT ![s] = "MATERIALIZED"] /\ auth' = auth
      BY <2>1 DEF ExpandExactModelLease, LeaseSource, Records, TypeOK, Lineage
    <3> QED
      BY <3>1 DEF HistoryStep, Records, TypeOK
  <2>2. ASSUME NEW used, ChargeExactModelLease(s, used) PROVE Continues
    BY <1>2, <2>2 DEF ChargeExactModelLease, Records, TypeOK
  <2>3. ASSUME NEW status \in {"RETURNED", "EXPIRED"}, lease[s].status = "RESERVED",
               WithAbort(s, auth, [lease EXCEPT ![s] = Closed(status, 0)]),
               UNCHANGED <<op, receipt>>
        PROVE  Continues
    <3> DEFINE leases == [lease EXCEPT ![s] = Closed(status, 0)]
    <3>1. auth \in [Slots -> AuthStatuses] /\ leases \in [Slots -> Leases]
      BY DEF Records, TypeOK, Leases, Closed
    <3>2. /\ \A t \in Slots \ {s} : leases[t] = lease[t]
          /\ leases[s].status \in {"RETURNED", "EXPIRED"}
      BY DEF Records, TypeOK, Closed
    <3> HIDE DEF leases
    <3>3. AbortEffect(auth, leases)
      BY <2>3, <3>1, Aborts DEF leases
    <3> QED
      BY <2>3, <3>1, <3>2, <3>3, AbortContinues
  <2>4. CASE ReturnExactModelLease(s)
    BY <2>3, <2>4 DEF ReturnExactModelLease
  <2>5. CASE ExpireModelLease(s)
    BY <2>3, <2>5 DEF ExpireModelLease
  <2>6. CASE CallFails(s) \/ LateAnswer(s) \/ ConflictingDuplicateCharge(s)
    BY <1>2, <2>6 DEF CallFails, LateAnswer, ConflictingDuplicateCharge, Latch
  <2> QED
    BY <1>6, <2>1, <2>2, <2>4, <2>5, <2>6 DEF ModelCall
<1>7. CASE ChargeSingleAgentToolAttempt
  BY <1>2, <1>7 DEF ChargeSingleAgentToolAttempt
<1>8. CASE RecordTerminalFailure \/ Lapse \/ UNCHANGED vars
  BY <1>2, <1>8 DEF RecordTerminalFailure, Lapse, Latch, vars
<1> QED
  BY <1>3, <1>4, <1>5, <1>6, <1>7, <1>8 DEF Next

\* A step that leaves the bundle alone, and its members but for their own work, leaves it
\* whole.
LEMMA StaysWhole ==
    ASSUME BundleIsWhole, UNCHANGED bundle,
           bundle.status # "NONE" =>
             \A s \in Slots : s \in Members =>
                /\ \/ slot'[s] = slot[s]
                   \/ slot[s] = "HELD" /\ (slot'[s] = "MATERIALIZED" \/ ~BundleIsActive)
                /\ \/ auth'[s] = auth[s]
                   \/ /\ auth'[s] # "TOOL_AUTHORIZED" \/ slot[s] = "HELD"
                      /\ auth'[s] # "RELEASED" \/ ~BundleIsActive
    PROVE  BundleIsWhole'
<1>1. BundleIsActive' = BundleIsActive /\ Members' = Members
  BY DEF BundleIsActive, Members
<1>2. ASSUME BundleIsActive, NEW s \in Slots, s \in Members
      PROVE  /\ slot'[s] # "EXPIRED"
             /\ slot'[s] = "RELEASED" => bundle.status = "PARTIALLY_CONSUMED"
                                         /\ s \in bundle.specialists
             /\ auth'[s] # "RELEASED"
  BY <1>2 DEF BundleIsWhole, BundleIsActive
<1>3. ASSUME bundle.status \in {"RELEASED", "COMPLETED"}, NEW s \in Slots, s \in Members
      PROVE  slot'[s] # "HELD" /\ auth'[s] # "TOOL_AUTHORIZED"
  BY <1>3 DEF BundleIsWhole, BundleIsActive
<1> QED
  BY <1>1, <1>2, <1>3 DEF BundleIsWhole

\* Giving up on a member of an active bundle closes the whole bundle, and giving up on
\* anything else leaves the bundle alone.
LEMMA AbortKeepsWhole ==
    ASSUME Records, BundleIsWhole, NEW s \in Slots, NEW auths \in [Slots -> AuthStatuses],
           NEW leases, WithAbort(s, auths, leases),
           \A t \in Slots \ {s} : auths[t] = auth[t],
           \/ auths[s] = auth[s]
           \/ auth[s] \in {"TOOL_CHARGED", "MODEL_LEASED"} /\ auths[s] = "FAILED"
    PROVE  BundleIsWhole'
<1>1. CASE ~Bundled(s)
  BY <1>1, StaysWhole DEF WithAbort
<1>2. CASE Bundled(s)
  <2> DEFINE spoiled == {t \in bundle.specialists : auths[t] \in {"TOOL_CHARGED", "MODEL_LEASED"}}
  <2>1. /\ slot' = [t \in Slots |-> IF t \in Members /\ slot[t] = "HELD" THEN "RELEASED"
                                    ELSE slot[t]]
        /\ auth' = [t \in Slots |->
                       IF t \in bundle.specialists /\ auths[t] = "TOOL_AUTHORIZED"
                       THEN "RELEASED"
                       ELSE IF t \in spoiled THEN "FAILED" ELSE auths[t]]
        /\ bundle' = [bundle EXCEPT !.status = "RELEASED"]
    BY <1>2 DEF WithAbort
  <2>2. bundle'.status = "RELEASED" /\ Members' = Members
    BY <2>1 DEF Records, TypeOK, Bundles, Members
  <2>3. ASSUME NEW t \in Slots, t \in Members
        PROVE  slot'[t] # "HELD" /\ auth'[t] # "TOOL_AUTHORIZED"
    <3>1. slot'[t] # "HELD"
      BY <2>1, <2>3
    <3>2. t \in bundle.specialists => auth'[t] # "TOOL_AUTHORIZED"
      BY <2>1
    <3>3. t \notin bundle.specialists => auth[t] = "NONE"
      BY <1>2, <2>3 DEF Records, BundleShape, Lineage, Members, Bundled, BundleIsActive
    <3>4. t \notin bundle.specialists => auth'[t] # "TOOL_AUTHORIZED"
      BY <2>1, <3>3
    <3> QED
      BY <3>1, <3>2, <3>4
  <2> QED
    BY <2>2, <2>3 DEF BundleIsWhole, BundleIsActive
<1> QED
  BY <1>1, <1>2

\* Every step keeps the bundle whole.
LEMMA StepKeepsWhole ==
    ASSUME Records, BundleIsWhole, [Next]_vars
    PROVE  BundleIsWhole'
<1>1. Records'
  BY StepKeepsRecords
<1>2. UNCHANGED <<bundle, slot, auth>> => BundleIsWhole'
  BY StaysWhole
<1>3. bundle.status # "NONE" => \A s \in Slots : s \in Members => slot[s] # "NONE"
  BY DEF Records, BundleShape, Lineage, Members
<1>4. ASSUME NEW r, BuildSlots(r, {}), UNCHANGED <<bundle, auth>> PROVE BundleIsWhole'
  <2>1. \A s \in Slots : slot[s] # "NONE" => slot'[s] = slot[s]
    BY <1>4 DEF BuildSlots, Fresh, Unused
  <2> QED
    BY <1>3, <1>4, <2>1, StaysWhole
<1>5. CASE Hold
  <2>1. ASSUME NEW r, HoldCapacitySlots(r) PROVE BundleIsWhole'
    BY <1>4, <2>1 DEF HoldCapacitySlots
  <2>2. ASSUME NEW c \in Slots, NEW b \in Slots, NEW j \in Slots, NEW new \in SUBSET Unused,
               ResizeDynamicInitialPlan(c, b, j, new)
        PROVE  BundleIsWhole'
    BY <1>4, <2>2 DEF ResizeDynamicInitialPlan
  <2>3. ASSUME NEW s \in Slots, CloseCapacitySlot(s) PROVE BundleIsWhole'
    <3>1. /\ \A t \in Slots : t # s => slot'[t] = slot[t]
          /\ slot[s] = "HELD" /\ ~Bundled(s) /\ UNCHANGED <<bundle, auth>>
      BY <2>3 DEF CloseCapacitySlot, Records, TypeOK
    <3> QED
      BY <3>1, StaysWhole DEF Bundled
  <2> QED
    BY <1>5, <2>1, <2>2, <2>3 DEF Hold, AdmitSingleAgentCall, HoldOne, InitializeDynamic,
       InitializeFixed
<1>6. CASE Refine
  <2>1. ASSUME NEW old \in Held, NEW first \in Unused, NEW final \in Unused,
               NEW S \in SUBSET Unused, ReplaceFirstJudgeWithBundle(old, first, S, final)
        PROVE  BundleIsWhole'
    <3> DEFINE r == [s \in {first, final} \cup S |-> IF s = first THEN "REFINING_JUDGE"
                                                     ELSE IF s = final THEN "FINAL_JUDGE"
                                                     ELSE "SPECIALIST"]
    <3>1. /\ BuildSlots(r, {old})
          /\ bundle' = [status |-> "HELD", first |-> first, specialists |-> S, final |-> final]
      BY <2>1 DEF ReplaceFirstJudgeWithBundle
    <3>2. Members' = DOMAIN r
      BY <3>1 DEF Members
    <3> HIDE DEF r
    <3>3. \A s \in Slots : s \in DOMAIN r => slot'[s] = "HELD"
      BY <3>1 DEF BuildSlots
    <3>4. \A s \in Slots : s \in DOMAIN r => auth'[s] = "NONE"
      BY <1>1, <3>3 DEF Records, Lineage
    <3> QED
      BY <3>1, <3>2, <3>3, <3>4 DEF BundleIsWhole, BundleIsActive
  <2>2. ASSUME NEW used \in SUBSET Slots, ReleaseUnusedRefinementMembers(used)
        PROVE  BundleIsWhole'
    <3> DEFINE back == bundle.specialists \ used
    <3>1. /\ bundle.status = "HELD" /\ UNCHANGED <<auth, op>> /\ FirstJudgeCharged
          /\ used \subseteq bundle.specialists
          /\ \A s \in used : slot[s] = "MATERIALIZED"
          /\ \A s \in back : slot[s] = "HELD"
          /\ used # {} \/ slot[bundle.final] = "HELD"
          /\ slot' = [s \in Slots |-> IF s \in back \/ (~(used # {}) /\ s = bundle.final)
                                      THEN "RELEASED" ELSE slot[s]]
          /\ bundle' = [bundle EXCEPT !.status = IF used # {} THEN "PARTIALLY_CONSUMED"
                                                 ELSE "RELEASED"]
      BY <2>2 DEF ReleaseUnusedRefinementMembers
    <3>2. /\ Members' = Members /\ bundle'.specialists = bundle.specialists
          /\ bundle'.status = IF used # {} THEN "PARTIALLY_CONSUMED" ELSE "RELEASED"
      BY <3>1 DEF Records, TypeOK, Bundles, Members
    <3>3. CASE used # {}
      BY <3>1, <3>2, <3>3 DEF BundleIsWhole, BundleIsActive
    <3>4. CASE used = {}
      <4>1. ASSUME NEW s \in Slots, s \in Members
            PROVE  slot'[s] # "HELD" /\ auth'[s] # "TOOL_AUTHORIZED"
        <5>1. CASE s = bundle.first /\ s \notin back /\ s # bundle.final
          <6>1. lease[s].status = "CHARGED"
            BY <3>1, <5>1 DEF FirstJudgeCharged
          <6>2. slot[s] = "MATERIALIZED"
            BY <6>1 DEF Records, Lineage
          <6>3. op[s] = "REFINING_JUDGE"
            BY <3>1, <5>1 DEF Records, BundleShape
          <6>4. auth[s] = "NONE"
            BY <6>3 DEF Records, Lineage
          <6> QED
            BY <3>1, <3>4, <5>1, <6>2, <6>4
        <5>2. CASE s \in back \/ s = bundle.final
          <6>1. slot[s] = "HELD"
            BY <3>1, <3>4, <5>2
          <6>2. auth[s] = "NONE"
            BY <6>1 DEF Records, Lineage
          <6> QED
            BY <3>1, <3>4, <5>2, <6>2
        <5> QED
          BY <3>4, <4>1, <5>1, <5>2 DEF Members
      <4> QED
        BY <3>2, <3>4, <4>1 DEF BundleIsWhole, BundleIsActive
    <3> QED
      BY <3>3, <3>4
  <2>3. ASSUME CompleteBundle PROVE BundleIsWhole'
    <3>1. /\ UNCHANGED <<slot, auth>>
          /\ bundle' = [bundle EXCEPT !.status = "COMPLETED"]
          /\ \A s \in {bundle.first, bundle.final} :
               slot[s] = "MATERIALIZED" /\ lease[s].status = "CHARGED"
          /\ \A s \in bundle.specialists :
               \/ slot[s] = "RELEASED"
               \/ slot[s] = "MATERIALIZED" /\ auth[s] = "COMPLETED"
      BY <2>3 DEF CompleteBundle
    <3>2. Members' = Members /\ bundle'.status = "COMPLETED"
      BY <3>1 DEF Records, TypeOK, Bundles, Members
    <3>3. ASSUME NEW s \in Slots, s \in Members
          PROVE  slot[s] # "HELD" /\ auth[s] # "TOOL_AUTHORIZED"
      <4>1. slot[s] # "HELD"
        BY <3>1, <3>3 DEF Members
      <4>2. \/ lease[s].status = "CHARGED" \/ slot[s] = "RELEASED" \/ auth[s] = "COMPLETED"
        BY <3>1, <3>3 DEF Members
      <4> QED
        BY <4>1, <4>2 DEF Records, Lineage
    <3> QED
      BY <3>1, <3>2, <3>3 DEF BundleIsWhole, BundleIsActive
  <2> QED
    BY <1>6, <2>1, <2>2, <2>3 DEF Refine
<1>7. ASSUME NEW s \in Slots, UNCHANGED <<bundle, slot>>, NEW status \in AuthStatuses,
             auth' = [auth EXCEPT ![s] = status], status # "TOOL_AUTHORIZED",
             status = "RELEASED" => ~Bundled(s)
      PROVE  BundleIsWhole'
  <2>1. auth'[s] = status /\ \A t \in Slots \ {s} : auth'[t] = auth[t]
    BY <1>7 DEF Records, TypeOK
  <2> QED
    BY <1>7, <2>1, StaysWhole DEF Bundled
<1>8. ASSUME NEW s \in Slots, Specialist(s) PROVE BundleIsWhole'
  <2>1. CASE MaterializeSpecialistAuthorization(s)
    <3>1. /\ UNCHANGED bundle /\ slot[s] = "HELD"
          /\ slot'[s] = "MATERIALIZED" /\ auth'[s] = "TOOL_AUTHORIZED"
          /\ \A t \in Slots \ {s} : slot'[t] = slot[t] /\ auth'[t] = auth[t]
      BY <2>1 DEF MaterializeSpecialistAuthorization, Records, TypeOK
    <3> QED
      BY <3>1, StaysWhole
  <2>2. CASE FailSpecialistAuthorization(s)
    <3> DEFINE auths == [auth EXCEPT ![s] = "FAILED"]
    <3>1. auths \in [Slots -> AuthStatuses] /\ auths[s] = "FAILED"
          /\ \A t \in Slots \ {s} : auths[t] = auth[t]
      BY DEF Records, TypeOK, AuthStatuses
    <3>2. auth[s] \in {"TOOL_CHARGED", "MODEL_LEASED"}
          /\ \E leases : WithAbort(s, auths, leases)
      BY <2>2 DEF FailSpecialistAuthorization
    <3> HIDE DEF auths
    <3> QED
      BY <3>1, <3>2, AbortKeepsWhole
  <2>3. CASE \/ ClaimSpecialistToolDispatch(s) \/ CompleteSpecialistToolDispatch(s)
             \/ FailSpecialistToolDispatch(s) \/ ReleaseSpecialistAuthorization(s)
             \/ CompleteSpecialistAuthorization(s)
    BY <1>7, <2>3 DEF ClaimSpecialistToolDispatch, CompleteSpecialistToolDispatch,
       FailSpecialistToolDispatch, SealOutcome, ReleaseSpecialistAuthorization,
       CompleteSpecialistAuthorization, AuthStatuses
  <2> QED
    BY <1>8, <2>1, <2>2, <2>3 DEF Specialist
<1>9. ASSUME NEW s \in Slots, ModelCall(s) PROVE BundleIsWhole'
  <2>1. ASSUME NEW input, ExpandExactModelLease(s, input) PROVE BundleIsWhole'
    <3>1. CASE auth[s] = "TOOL_CHARGED"
      BY <1>7, <2>1, <3>1 DEF ExpandExactModelLease, AuthStatuses
    <3>2. CASE auth[s] # "TOOL_CHARGED"
      <4>1. /\ UNCHANGED <<bundle, auth>> /\ slot[s] = "HELD" /\ slot'[s] = "MATERIALIZED"
            /\ \A t \in Slots \ {s} : slot'[t] = slot[t]
        BY <2>1, <3>2 DEF ExpandExactModelLease, LeaseSource, Records, TypeOK
      <4> QED
        BY <4>1, StaysWhole
    <3> QED
      BY <3>1, <3>2
  <2>2. ASSUME NEW leases, WithAbort(s, auth, leases) PROVE BundleIsWhole'
    <3>1. auth \in [Slots -> AuthStatuses]
      BY DEF Records, TypeOK
    <3> QED
      BY <2>2, <3>1, AbortKeepsWhole
  <2>3. CASE ReturnExactModelLease(s) \/ ExpireModelLease(s)
    BY <2>2, <2>3 DEF ReturnExactModelLease, ExpireModelLease
  <2>4. CASE CallFails(s) \/ LateAnswer(s) \/ ConflictingDuplicateCharge(s)
    BY <1>2, <2>4 DEF CallFails, LateAnswer, ConflictingDuplicateCharge, Latch
  <2>5. ASSUME NEW used, ChargeExactModelLease(s, used) PROVE BundleIsWhole'
    BY <1>2, <2>5 DEF ChargeExactModelLease
  <2> QED
    BY <1>9, <2>1, <2>3, <2>4, <2>5 DEF ModelCall
<1>10. CASE ChargeSingleAgentToolAttempt \/ RecordTerminalFailure \/ Lapse \/ UNCHANGED vars
  BY <1>2, <1>10 DEF ChargeSingleAgentToolAttempt, RecordTerminalFailure, Lapse, Latch, vars
<1> QED
  BY <1>5, <1>6, <1>8, <1>9, <1>10 DEF Next

\* What let the final judge speak is never undone, so it is enough that it was so when the
\* judge's lease was made.
LEMMA StepKeepsFinalJudgeLast ==
    ASSUME Records, BundleIsWhole, FinalJudgeIsLast, [Next]_vars
    PROVE  FinalJudgeIsLast'
<1>1. Records'
  BY StepKeepsRecords
<1>2. SUFFICES ASSUME bundle'.final # NoSlot, NEW j \in Slots, j = bundle'.final,
                      lease'[j].status # "NONE"
               PROVE  /\ FirstJudgeCharged'
                      /\ \E s \in bundle'.specialists : auth'[s] = "COMPLETED"
                      /\ \A s \in bundle'.specialists : auth'[s] = "COMPLETED"
                                                        \/ slot'[s] = "RELEASED"
  BY DEF FinalJudgeIsLast
<1>3. bundle.specialists \in SUBSET Slots
  BY DEF Records, TypeOK, Bundles
<1>4. ASSUME HistoryStep, bundle'.first = bundle.first, bundle'.specialists = bundle.specialists,
             FirstJudgeCharged,
             \E s \in bundle.specialists : auth[s] = "COMPLETED",
             \A s \in bundle.specialists : auth[s] = "COMPLETED" \/ slot[s] = "RELEASED"
      PROVE  /\ FirstJudgeCharged'
             /\ \E s \in bundle'.specialists : auth'[s] = "COMPLETED"
             /\ \A s \in bundle'.specialists : auth'[s] = "COMPLETED"
                                               \/ slot'[s] = "RELEASED"
  BY <1>3, <1>4 DEF HistoryStep, FirstJudgeCharged
<1>5. ASSUME HistoryStep, lease[j].status # "NONE",
             bundle' = bundle \/ \E status : bundle' = [bundle EXCEPT !.status = status]
      PROVE  /\ FirstJudgeCharged'
             /\ \E s \in bundle'.specialists : auth'[s] = "COMPLETED"
             /\ \A s \in bundle'.specialists : auth'[s] = "COMPLETED"
                                               \/ slot'[s] = "RELEASED"
  <2>1. /\ bundle'.first = bundle.first /\ bundle'.specialists = bundle.specialists
        /\ bundle'.final = bundle.final
    BY <1>5 DEF Records, TypeOK, Bundles
  <2> QED
    BY <1>2, <1>4, <1>5, <2>1 DEF FinalJudgeIsLast
<1>6. CASE Continues
  BY <1>2, <1>5, <1>6 DEF Continues
<1>7. CASE Extends /\ bundle' = bundle
  BY <1>2, <1>5, <1>7 DEF Extends
<1>8. ASSUME NEW s \in Slots, NEW input \in Inputs, ExpandExactModelLease(s, input), HistoryStep
      PROVE  /\ FirstJudgeCharged'
             /\ \E t \in bundle'.specialists : auth'[t] = "COMPLETED"
             /\ \A t \in bundle'.specialists : auth'[t] = "COMPLETED"
                                               \/ slot'[t] = "RELEASED"
  <2>1. bundle' = bundle /\ \A t \in Slots \ {s} : lease'[t] = lease[t]
    BY <1>8 DEF ExpandExactModelLease, Records, TypeOK
  <2>2. CASE s # j
    BY <1>2, <1>5, <1>8, <2>1, <2>2
  <2>3. CASE s = j
    <3>1. bundle.status # "NONE" /\ op[j] = "FINAL_JUDGE" /\ j = bundle.final
      BY <1>2, <2>1 DEF Records, BundleShape, NoBundle
    <3>2. slot[j] = "HELD" /\ (BundleIsActive => FinalJudgeReady)
      BY <1>8, <2>3, <3>1 DEF ExpandExactModelLease, LeaseSource, Records, Lineage
    <3>3. BundleIsActive
      <4>1. bundle.status \in {"HELD", "PARTIALLY_CONSUMED", "RELEASED", "COMPLETED"}
        BY <3>1 DEF Records, TypeOK, Bundles
      <4> QED
        BY <3>1, <3>2, <4>1 DEF BundleIsWhole, BundleIsActive, Members
    <3>4. FinalJudgeReady
      BY <3>2, <3>3
    <3> QED
      BY <1>4, <1>8, <2>1, <3>4 DEF FinalJudgeReady
  <2> QED
    BY <2>2, <2>3
<1>9. ASSUME NEW old \in Held, NEW first \in Unused, NEW final \in Unused, NEW S \in SUBSET Unused,
             ReplaceFirstJudgeWithBundle(old, first, S, final)
      PROVE  FALSE
  <2> DEFINE r == [s \in {first, final} \cup S |-> IF s = first THEN "REFINING_JUDGE"
                                                   ELSE IF s = final THEN "FINAL_JUDGE"
                                                   ELSE "SPECIALIST"]
  <2>1. BuildSlots(r, {old}) /\ bundle'.final = final
    BY <1>9 DEF ReplaceFirstJudgeWithBundle
  <2>2. final \in DOMAIN r
    OBVIOUS
  <2> HIDE DEF r
  <2>3. slot'[j] = "HELD"
    BY <1>2, <2>1, <2>2 DEF BuildSlots
  <2> QED
    BY <1>1, <1>2, <2>3 DEF Records, Lineage
<1> QED
  BY <1>6, <1>7, <1>8, <1>9, StepContinues

\* The lineage of the records tells that models follow tools.
LEMMA LineageOrders == Records => ModelsFollowTools
BY DEF Records, Lineage, TypeOK, AuthStatuses, Receipts, ModelsFollowTools

\* After a terminal failure only the outcome of a claimed dispatch is recorded.
LEMMA StepKeepsTerminal ==
    ASSUME Records, [Next]_vars
    PROVE  TerminalStep
<1> SUFFICES ASSUME terminal # "NONE" PROVE TerminalStep
  BY DEF TerminalStep
<1>1. ~Operational
  BY DEF Operational
<1>2. UNCHANGED <<terminal, slot, op, lease, bundle, spent, auth, receipt>> => TerminalStep
  BY DEF TerminalStep
<1>3. ~Hold
  BY <1>1 DEF Hold, AdmitSingleAgentCall, HoldOne, InitializeDynamic, InitializeFixed,
     HoldCapacitySlots, ResizeDynamicInitialPlan, CloseCapacitySlot
<1>4. ~Refine
  BY <1>1 DEF Refine, ReplaceFirstJudgeWithBundle, ReleaseUnusedRefinementMembers, CompleteBundle
<1>5. ASSUME NEW s \in Slots, Specialist(s) PROVE TerminalStep
  <2>1. \E outcome, next : SealOutcome(s, outcome, next)
    BY <1>1, <1>5 DEF Specialist, MaterializeSpecialistAuthorization, ClaimSpecialistToolDispatch,
       CompleteSpecialistToolDispatch, FailSpecialistToolDispatch,
       ReleaseSpecialistAuthorization, FailSpecialistAuthorization,
       CompleteSpecialistAuthorization
  <2> QED
    BY <2>1 DEF SealOutcome, TerminalStep, Records, TypeOK
<1>6. ASSUME NEW s \in Slots, ModelCall(s) PROVE TerminalStep
  BY <1>1, <1>2, <1>6 DEF ModelCall, ExpandExactModelLease, ChargeExactModelLease, CallFails,
     LateAnswer, ReturnExactModelLease, ExpireModelLease, ConflictingDuplicateCharge, Latch
<1>7. ~ChargeSingleAgentToolAttempt /\ ~RecordTerminalFailure
  BY <1>1 DEF ChargeSingleAgentToolAttempt, RecordTerminalFailure, Latch
<1>8. CASE Lapse \/ UNCHANGED vars
  BY <1>2, <1>8 DEF Lapse, vars
<1> QED
  BY <1>3, <1>4, <1>5, <1>6, <1>7, <1>8 DEF Next

--------------------------------------------------------------------------------
(* The theorems *)

IInv ==
    /\ Records /\ CallsAreConserved /\ TokensAreConserved /\ ChargesAreRecorded
    /\ BundleIsWhole /\ FinalJudgeIsLast

LEMMA InvariantInit == Init => IInv
<1> SUFFICES ASSUME Init PROVE IInv
  OBVIOUS
<1>1. Records /\ CallsAreConserved /\ TokensAreConserved /\ ChargesAreRecorded
  BY InitRecords, InitAccounts
<1>2. bundle = NoBundle
  BY DEF Init
<1> QED
  BY <1>1, <1>2 DEF IInv, BundleIsWhole, FinalJudgeIsLast, BundleIsActive, NoBundle

LEMMA InvariantStep == IInv /\ [Next]_vars => IInv'
<1> SUFFICES ASSUME IInv, [Next]_vars PROVE IInv'
  OBVIOUS
<1> USE DEF IInv
<1>1. Records'
  BY StepKeepsRecords
<1>2. CallsAreConserved' /\ TokensAreConserved'
  BY <1>1, StepMovesAccounts, AccountsConserve
<1> QED
  BY <1>1, <1>2, StepKeepsCharges, StepKeepsWhole, StepKeepsFinalJudgeLast

\* The records are well-typed and agree, the accounts balance and the bundle is whole in
\* every reachable state.
THEOREM InvariantHolds == Spec => []IInv
BY InvariantInit, InvariantStep, PTL DEF Spec

\* Every variable of the ledger has its type.
THEOREM TypeCorrect == Spec => []TypeOK
<1>1. IInv => TypeOK
  BY DEF IInv, Records
<1> QED
  BY <1>1, InvariantHolds, PTL

\* Model calls, tool calls and tokens, charged and reserved together, never exceed their
\* caps, although a lease takes every token that is free: no abort, expiry or late outcome
\* makes the accounting check of a commit refuse.
THEOREM CapsStayKept == Spec => []CapsAreKept
<1>1. IInv => CapsAreKept
  BY DEF IInv, CapsAreKept
<1> QED
  BY <1>1, InvariantHolds, PTL

\* The counters of the snapshot are those of its charged leases and sealed outcomes.
THEOREM ChargesStayRecorded == Spec => []ChargesAreRecorded
<1>1. IInv => ChargesAreRecorded
  BY DEF IInv
<1> QED
  BY <1>1, InvariantHolds, PTL

\* No model is leased to a specialist before the success of its tool was sealed.
THEOREM ModelsAlwaysFollowTools == Spec => []ModelsFollowTools
<1>1. IInv => ModelsFollowTools
  BY LineageOrders DEF IInv
<1> QED
  BY <1>1, InvariantHolds, PTL

\* The final judge of a refinement comes after the first judge and every specialist kept.
THEOREM FinalJudgeStaysLast == Spec => []FinalJudgeIsLast
<1>1. IInv => FinalJudgeIsLast
  BY DEF IInv
<1> QED
  BY <1>1, InvariantHolds, PTL

\* A bundle is closed as a whole or not at all.
THEOREM BundlesStayWhole == Spec => []BundleIsWhole
<1>1. IInv => BundleIsWhole
  BY DEF IInv
<1> QED
  BY <1>1, InvariantHolds, PTL

\* After a terminal failure nothing but the outcome of a claimed dispatch is recorded.
THEOREM TerminalStaysFinal == Spec => TerminalIsFinal
<1>1. IInv /\ [Next]_vars => [TerminalStep]_vars
  BY StepKeepsTerminal DEF IInv
<1> QED
  BY <1>1, InvariantHolds, PTL DEF Spec, TerminalIsFinal

\* What is sealed, charged or closed is never written again.
THEOREM HistoryStaysWritten == Spec => HistoryStands
<1>1. IInv /\ [Next]_vars => [HistoryStep]_vars
  <2> SUFFICES ASSUME IInv, [Next]_vars PROVE HistoryStep
    OBVIOUS
  <2> QED
    BY StepContinues DEF IInv, Continues, Extends
<1> QED
  BY <1>1, InvariantHolds, PTL DEF Spec, HistoryStands

\* The records of model calls, of tool calls, and the floors and leases of tokens implement
\* three capacity pools.
THEOREM AccountsAreKept == Spec => KeepsAccounts
<1>1. Init => Models!Init /\ Tools!Init /\ Tokens!Init
  BY InitAccounts
<1>2. IInv /\ [Next]_vars => Models!Next /\ Tools!Next /\ Tokens!Next
  BY StepMovesAccounts DEF IInv
<1> QED
  BY <1>1, <1>2, InvariantHolds, PTL
     DEF Spec, KeepsAccounts, Models!Spec, Tools!Spec, Tokens!Spec
================================================================================
