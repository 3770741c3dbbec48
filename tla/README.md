# Formal models of EcomSRE

TLA+ models of the parts of EcomSRE in which several processes, threads or calls share state:
in `src/ecomsre/product` bounded remediation, the verification of its recovery, the job queue
that runs diagnoses and the knowledge loop that learns from them; in `src/ecomsre/phase2` the
budget ledger of the research workflows. TLC checks them on small instances; TLAPS proves
their main safety properties for every value of the constants. Paths below are relative to the
repository (`src/…` is its Python tree; `PROJECT.json` names each mapped line).

Contents: 1 inventory · 2 modules and code · 3 runs · 4 bounds · 5 fairness · 6 proofs ·
7 findings · 8 not modelled · 9 plan

## 1. Inventory

The Product is a set of processes around one SQLite database: the API, a worker, and, with
remediation enabled, an executor and a control gateway (`docker-compose.product.yml`; the
API and the worker are `restart: unless-stopped`, the executor and the gateway
`restart: "no"`). They exchange nothing but rows of that database, content-addressed files,
and - between executor and gateway - requests over Unix sockets.

| component | state it keeps | operations | how it interacts | what makes it correct |
|---|---|---|---|---|
| **Bounded remediation** (`product/remediation`: `repository`, `attempts`, `executor`, `payment_control`, `runtime`, `state`) | approvals and revocations; attempts with lease, authorization, intent, dispatch, receipt, write count; the gateway's own ledger | approve, revoke; create, cancel; claim, commit intent, reserve, dispatch, record receipt, mark unknown, reconcile; restore (gateway) | API, executor and gateway share the database; the executor posts the dispatch to the gateway; the gateway holds the writer lock over its POST | one write per approval at most; the stored write count is true; a send happens only under a live approval; one driver per attempt; terminals are final; every attempt settles |
| **Recovery verification** (`recovery`, `verifier`) | acquisitions, windows, evaluation, and the attempt's last states | verify: start or resume, reserve, store a window, evaluate, judge | the executor asks a signed observer through the read socket; several executors may verify one attempt | recovery is earned by two consecutive windows after the receipt, and these are the stored ones; one verdict; it comes |
| **Job queue, worker and publication** (`jobs`, `incidents`) | job rows with claim and lease; stage journals; diagnoses, baselines, environment states | enqueue; claim, renew, run the stages, publish, succeed, fail, capture a failure | the API enqueues; workers claim; publication is fenced by the lease at commit | an old attempt never publishes or ends a job; what a job shows is what is published; a good attempt never collides; journals are true; every job ends |
| Remediation candidates and provenance | sealed documents | select a candidate from a frozen diagnosis | read by `create` | at most one candidate, only from an eligible diagnosis |
| Remediation transport and metrics | – | socket framing, tokens, counters | carries executor-gateway calls | failure is reported as failure |
| Environments and verification | environment rows, readiness, capability matrices | create, update, verify | the verification runs as a job | a verification never puts an older reading over a newer one |
| Baselines and changes | baselines, change events | build (job), record | frozen for a diagnosis | a diagnosis uses a baseline of its own environment |
| **Knowledge** (`knowledge/repository.py`, `runtime.py`, `compiler.py`; `jobs/worker.py`) | families, member rows, reviews, drafts with their matrices, shadow evaluations, the registry and its versions | file a diagnosis; review, merge, draft, evaluate, promote, revoke | the worker files what no diagnosis explains, before its job succeeds; API calls do the rest; later diagnoses use what is active | nothing active that was not reviewed, evaluated and promoted; a revocation is final; no incident counts twice; what a family shows is backed by rows |
| **Budget ledger** (`phase2/budgets.py`, with `tool_isolation.py` and `comparison_adapter.py`) | capacity slots, authorizations, tool outcomes, leases, the refinement bundle, three counters, the terminal code | hold, initialise, resize, release; materialize, claim, seal an outcome, fail, complete; expand, charge, return, expire; replace, trim and complete a bundle | every operation is one commit under a lock; the tool registry and the model adapter leave the lock between two of them, while an executor or a provider works | charged and reserved never exceed a cap together; each charge is counted once; a model follows its tool; a bundle is given up as a whole; a failed run only records what was under way |
| Connectors, telemetry | – | read-only requests | called by jobs | – |
| Storage | connections, object files | transactions, put, get | under everything | a transaction is atomic; an object is what its digest says |
| API, auth, CLI, settings | – | validation and wiring | – | – |
| Pilot campaigns, the rest of the research phases, second diagnosis engine, sandbox and benchmark packages | files | offline scripts | some reuse the Product | – |

**What is hard.** Every lease is short and every holder may be slow instead of dead, so two
holders run side by side. Readbacks, lookups and evaluations happen outside the transaction
that uses them. Two databases (product and gateway ledger) and one external POST are never
covered by one transaction. A diagnosis is published, the job ended and its journal closed
in three transactions. A family is read, judged and written back by a worker while an operator
decides about it. A lease takes every token nobody else was promised, its provider is called without
the lock, and a tool's outcome is sealed after anything may have happened to its run. `PROJECT.json` lists these hazards at their lines; the properties
below are aimed at them.

## 2. Modules and code

A transaction (`BEGIN IMMEDIATE`, `storage/sqlite_store.py`) is one action; what the code does
between transactions is an action of its own. A process is a record with a program
counter and the locals that survive from one of its actions to the next.

**`Remediation`** - approvals, attempts, executors, the gateway. `att[a]` is the
attempt row together with its authorization, intent, dispatch and receipt rows (each is
written once, beside an update of the row); `Consumed(p)` is the consumption row of an
approval. `pending` is the readback that `create()` takes before its transaction.
`ex[e]` is one executor loop (`runtime.py:89`), `gw` one `restore()` call
(`payment_control.py:248`), `requests` the dispatches under way: they are received
once or repeatedly, late, or never. `DatabaseFree` is the writer lock the gateway keeps between its
checks and the end of its call; all transactions of other processes carry it as a guard.
`ledger` is the gateway's second database. `sent` is history: the POSTs that left the gateway.
`candidateOk` becomes false when the active baseline no longer yields the candidate.
`ProvenRejection` says whether the write adapter can prove that it did not write (only
then can `EXECUTION_FAILED` arise). An executor that raises ends its process
("Fail the process closed", `runtime.py:124`); it starts again with nothing.
Time is read once per transaction: later readings within one transaction are only stricter.

**`BoundedWrite`** - the promise of remediation without processes, leases, clocks and
messages: eight steps on the stage of an attempt. `Remediation` implements it under
the mapping `Promise` (`KeepsPromise`).

**`RecoveryVerification`** - one attempt whose receipt says APPLIED at time 0. `Start` and
`Resume` are the two outcomes of `verify`'s first transaction; only the first acquires windows
(`acquire_windows = False`, `recovery.py:234`). `Reserve` consumes an ordinal in a transaction of its own;
`StoreWindow` / `LoseWindow` are the answers of the provider; `Evaluate` reads the windows
and forms the verdict; `Judge` stores it. The six checks of a window are one Boolean.
`Remediation` takes the verdict as a free choice; this module says when it may be RECOVERED.

**`EarnedVerdict`** - what the verification promises: windows are observed in order and never replaced, and one
verdict is given on the first none, one or two of them. `RecoveryVerification` implements it (`KeepsVerdict`), although the verdict is
formed on windows that were read before another was stored: then it is the verdict of what there was to see at that time.

**`DiagnosisJobs`** - the queue, the workers, publication and the stage journals. `rows[j]`
is the job row, `leased` whether its lease is still good; `Holds(w)` is the commit-time
fence (`require_live_job_fence`). The stages of a diagnosis are kept as far as they touch
shared state: open the journal, look up an existing result, acquire, put, prepare, succeed,
seal the journal; a failing stage goes through `capture_failure` and `fail`.
`published[j]` is what the job has put: immutable for a diagnosis or a baseline, replaceable for an
environment verification (there the model keeps what *this* job last put).
`journal[j]` is how the stage journal ends. `claimed_by` alone stands for
`(claimed_by, attempt_count)`, because a worker runs one job at a time under an id of its own.
The worker is one process today (`docs/product/OPERATIONS.md`); the fence
exists for two, and the model has two.

**`JobOutcomes`** - what a client finds of a job, whatever attempts it took: accepted once, one result stored while
it is open (only an environment verification may replace its own), ended once, and what it shows is what is stored.
`DiagnosisJobs` implements it (`KeepsOutcomes`). The mapping drops claims, leases, attempts and journals, and maps PENDING and
RUNNING to the one stage `open`.

**`KnowledgeLifecycle`** - one environment. `ingest[w]` is a worker in `_handle_diagnosis` and
`ingest_open_world`: it reads the active extensions, publishes a verdict, looks for a row of the
incident, chooses a family with its prior status, writes the member row, reads the rows back and writes
the whole family - all but the two writes outside any transaction. `call[c]` is an API call
(review, merge, draft, evaluate, promote, revoke), again with every read before its transaction as a step.
`members`, `family`, `draft`, `shadow`, `registry` and `versions` are the tables; the version of the
registry is the index of the sequence. `Abandon` ends a call where it stands: an exception, a client that has
gone or a killed API process look the same. Which family is similar, whether a family is ready for review
(`Recurring`), what mining selects and whether a rule matches a diagnosis are free choices; an
evaluation of a draft gives the same result every time. A reviewer knows the id of a review before the
request.

**`GovernedExtensions`** - what that loop promises about an extension: drafted from an
accepted family, evaluated once, promoted once if it passed, revoked at most once.
`KnowledgeLifecycle` implements it (`KeepsGovernance`).

**`BudgetLedger`** - one run of one of the three kinds of workflow. A record is named by its capacity
slot: a slot leaves HELD once, so it has at most one authorization, and slot or authorization are
expanded at most once, so there is at most one lease. `slot`, `auth`, `receipt`, `lease` and `bundle` are the
records; what is reserved (`HeldModelCalls`, `HeldToolCalls`, `HeldTokens`) is computed from them as
`_reservation_totals` does. An operation prepared at an old snapshot sequence is refused and changes
nothing; the sequence is kept only as `live`, the model call whose lease snapshot is still current, because there
the refusal ends the run. The sealing of an outcome names no sequence and is accepted at any time, after the
end of the run too (`SealOutcome`). `WithAbort` is what giving up on one member of a bundle does to the
others. The adapter always asks for everything that is available, holds its own lock while the provider
answers (`calling = {}`) and serializes a single agent's calls. A failure of the clock or identifier callback in a
charge leaves the terminal code `STALE` without a commit (`CallFails`). `lapsed` stands for the one deadline
of a workflow's records. Two checks of the code are left out because
`CapsAreKept` shows that they never refuse: the accounting check every commit repeats
(`contracts.py:1125-1148`) and the cumulative caps of a charge.

**`CapacityPool`** - what a budget promises of one resource: promise, draw, settle, close. `BudgetLedger`
implements it three times, for model calls, tool calls and tokens (`KeepsAccounts`).

**`MC*`** instantiate them for TLC (only symmetry sets and values of constants are new); **`*Proofs`** hold the theorems.
Definitions commented "Variant" are plausible wrong forms of the definition that follows; a
property is kept only if some variant violates it (`mutants` in `PROJECT.json`). They take no part in
the specification.

## 3. Runs

| run | properties | what it shows |
|---|---|---|
| `remediation_contention` | `TypeOK`, `AuthorityIsUnique`, `AtMostOneWrite`, `WriteIsEarned`, `KeepsPromise` | two concurrent `create()` calls and two approvals: one active attempt, one authorization per approval, one write per approval; `WriteIsEarned` is why; the processes implement `BoundedWrite` |
| `remediation_failover` | `SingleDriver`, `CountIsTrue`, `SendIsFenced`, `TerminalIsFinal`, `IntentIsCurrent`, `AttemptsSettle` | two executors, a crash anywhere, late and repeated requests: the stored count is true, sends stay fenced, one driver past the intent, terminals stand, intents rest on current facts, and every active attempt reaches a terminal state once the configuration stays readable |
| `remediation_doubt` (violation) | `DoubtIsReported` | finding 1 |
| `recovery_verdict` | `TypeOK`, `RecoveredIsEarned`, `KeepsVerdict`, `VerdictComes` | a resumed verifier judges while the slow one still stores windows: one verdict, on the stored windows, as `EarnedVerdict` would give it; it comes once executors stop crashing, whatever acquisitions were consumed |
| `jobs_fence` | `TypeOK`, `HolderIsFirst`, `JournalIsTrue`, `OldAttemptIsSilent`, `KeepsOutcomes` | two jobs of any type, two workers that lose leases, fail and die: no old attempt publishes or ends a job, and together they implement `JobOutcomes` |
| `jobs_liveness` | `EveryJobEnds` | once workers keep within their leases every job ends, except behind a diagnosis whose journal an old attempt has closed |
| `jobs_journal` (violation) | `SuccessIsNotFailed` | finding 2 |
| `knowledge_authority` | `TypeOK`, `ActiveIsEarned`, `HistoryIsTrue`, `StatusIsEarned`, `KeepsGovernance` | two API calls and a worker on one family write stale reads back: nothing becomes active without its review and evaluation, no status is shown without its row, a revocation stands |
| `knowledge_families` | `ShownIsFiled`, `MergedIsCopied`, `FiledOnce` | two workers (one perhaps under a lapsed lease) file incidents while families are merged in three transactions |
| `knowledge_filing` | `SucceededIsShown`, `EveryIncidentIsFiled` | one worker that crashes between the steps of filing: the retry repairs the family, and every unexplained incident is filed unless its job fails |
| `knowledge_decision` (violation) | `DecisionStands` | finding 3 |
| `budget_ledger` | `TypeOK`, `CapsAreKept`, `ChargesAreRecorded`, `ModelsFollowTools`, `FinalJudgeIsLast`, `BundleIsWhole`, `TerminalIsFinal`, `HistoryStands`, `KeepsAccounts` | the three kinds of run, every operation in any order, provider calls and tool dispatches that end late, aborts and expiries: no cap is exceeded, no promise is lost or counted twice, three accounts are kept |

Deadlock is not checked (`CHECK_DEADLOCK FALSE`): when all attempts or jobs have ended and the clock
has reached its bound, or a run of the ledger has used up its slots, the systems really have nothing left
to do. That they do not stop before is what the liveness properties are for.

## 4. Bounds

- **Remediation.** `MaxTime` is the horizon of the clock, `MaxCrashes` the number of crashes in a
  behaviour. Terms are one to three ticks, so that an observation can be fresh or stale, a lease, authorization
  and approval can each lapse before, at and after each step, and all end before the horizon.
  `remediation_failover` has a lease of one tick, an authorization of two and an approval of three, so a lease
  can lapse with its authorization still good and a second executor can claim. Two attempts are
  enough for the uniqueness properties, which relate two; the failover properties speak
  of one attempt and two executors. Approvals are issued only while they end
  before the horizon, and a verification lease is cut at it, so everything that was promised an end has
  it before the clock stops and the liveness properties do not profit from the bound.
- **RecoveryVerification.** `MaxTime = 6`, a lease of 3 and windows of 1: two whole windows
  take at least four ticks, so a verification can lapse before its second window, be resumed and
  still be completed by the slow verifier - or be overtaken.
- **DiagnosisJobs.** No clock: a lease may lapse at any time (`Lapse`), which covers every duration.
  Two jobs give an order in the queue, two workers a slow and a live attempt, two
  values a conflict. A lost lease, a crash and a failure may each happen any number of times.
  `jobs_journal` needs one job.
- **KnowledgeLifecycle.** `MaxCalls` bounds the API calls that are begun, `MaxAttempts` the claims of one job.
  Two incidents make a family recur, two callers race on one family with a call in every position (five calls
  are a review, a draft, an evaluation, a promotion and one that interferes), two families
  and two workers suffice to merge under a filing. Filing is checked with one worker and no callers: with two
  writers of one family the last may show fewer incidents than there are rows (a hazard noted in `PROJECT.json`).
- **BudgetLedger.** `MaxSlots` bounds the slots a run creates: three for a single agent and for a fixed workflow
  (two specialists of the four and a judge), five for an investigation, which holds either a plan with its
  resizing or a first judge with its refinement. The code's own limit of 64 slots lies far above and is
  not modelled. The caps (4 model calls, 2 tool calls, 5 tokens at floors of one) are small enough that each refuses
  something; the code has 8, 8 and 32000. Slots are created in order (`Fresh`), as identifiers are.

## 5. Fairness

- **Remediation.** Weak fairness for each executor's steps, the gateway and the clock; none for
  callers, drift or crashes (bounded by `MaxCrashes`). Executor and gateway are not restarted by
  Docker (`restart: "no"`): the assumption is the supervisor the code speaks of ("Supervisor restart may only
  reconcile", `runtime.py:124`). For the gateway it includes an operator who removes the old
  sockets, without which `gateway_main` refuses to start (`runtime.py:186-190`).
  `AttemptsSettle` is stated under the further premise that the configuration becomes readable
  for good; without it, see finding 1.
- **RecoveryVerification.** Weak fairness for the clock and each verifier: the provider has a
  deadline (`recovery_transport.py:30`), so an acquisition ends. `VerdictComes` has the premise that crashes
  before the verdict cease.
- **DiagnosisJobs.** Weak fairness for workers (`restart: unless-stopped`) and for the lapse of
  abandoned leases. `EveryJobEnds` has the premise `<>[][~Disturbed]_vars`: from some time on workers do not die
  under their lease and renew in time (they do before each connector request, with a lease of 300 s).
- **KnowledgeLifecycle.** Weak fairness for the steps of a worker and for its taking of a job; a worker crashes
  only while another claim of its job is left. None for callers.
- **BudgetLedger.** None: the ledger does nothing by itself and promises no progress.

## 6. Proofs

`tlapm` proves, for every number of attempts, approvals, executors, verifiers, jobs and workers and
for every value of the terms and bounds, from the named `ASSUME`s alone (terms are positive
naturals, the "nobody" values are not members):

**`RemediationProofs`.** `TypeCorrect`, `AuthorityStaysUnique`, `OneWritePerApproval`, `WritesAreEarned`,
`TerminalStaysFinal`, `SendsAreFenced`. The properties are not inductive: that the gateway sends at most once depends on
where it stands and what it has consumed. The inductive invariant is
`IInv == TypeOK /\ Engaged /\ AuthorityIsUnique /\ WriteIsEarned`: `Engaged` says that an executor works only
on an attempt that exists; `WriteIsEarned` says that a consumed intent is an authorized
one, that attempt, approval and candidate stand still under the writer lock, and that the ledger is
ahead of the sends. The argument: every transaction moves rows *onward* (an authorized
row stays authorized under its approval, a terminal one stays); creation is the only step that
authorizes and it has both gates in its transaction; the gateway is the only step that sends.

**`BoundedWriteProofs`.** `OneDriver`, `CountsAreTrue`, `IntentsAreCurrent`, the refinement `PromiseIsKept` and two
consequences, `VerdictsAreTrue` (of the promise alone: its invariant carries over to the processes) and `WritesStayBought`. They need, besides
`IInv`, what processes and rows know of each other, and none of it is inductive alone (`DInv`): the columns
of a row agree with its state (`RowAgrees`); what an executor has come to is in the row of its attempt
(`StepsAgree`); two leases of one attempt differ in generation (`LeasesDiffer`); nothing of an attempt without a dispatch
has reached the gateway, and what is read back was sent (`PostingsAgree`). The argument: a step moves at most one
row by one of ten moves (`RowsMove`) and at most one executor (`ExecutorsMove`). An intent is committed on a
row without one, so nobody drives it yet (`DriverStep`); a send finds the count unknown, and only an answer to it or a call never
made settles the count (`CountStep`, `UnpostedStays`); and each of the ten moves is a step of
`BoundedWrite` or changes nothing it sees (`MovesKeepPromise`). `WritesStayBought` assumes finitely many approvals: the map from
written attempts to their approvals is an injection (`AtMostOneWrite`) into the consumed ones.

**`DiagnosisJobsProofs`.** `TypeCorrect`, `HolderStaysFirst`, `ResultsAgree`, `JournalsAreTrue`,
`OldAttemptsAreSilent`, `PublishedStays`, the refinement `OutcomesAreKept` and `KeptLeasesKeepJournals`. `IInv` adds two facts: `Carried` - what the lease holder
carries after its put is what is published - and `Attested` - each late step of an attempt (sealing,
reporting) rests on the one before. The heart is `HolderMoves`: only a claim makes a
holder, a claim makes it of a worker that has no locals yet, and from then on nobody else publishes.
The refinement is a step-by-step account of one row (`RowReplaced`): claims and lapses are stutters; the put
of a live attempt stores on a free place or on its own; a success shows the stored result because of `Carried`. It needs one more
invariant, `NothingShown`: no result before success.
`KeptLeasesKeepJournals` delimits finding 2: `SuccessIsNotFailed`, which the run `jobs_journal` refutes, holds of every
behaviour in which a lease only lapses once nobody works under it (`LeasesAreKept`; workers still crash, and
abandoned jobs are claimed again). Under that premise nobody works without its lease (`OnTask`), so no two workers
are on one job (`Alone`), and the journal is open wherever a diagnosis goes on; without it the first worker
closes the journal of the second.

**`RecoveryVerificationProofs`.** `TypeCorrect`, `RecoveryIsEarned`, `WindowsStayInOrder`, `VerdictsStay` and the refinement `VerdictIsKept`. `IInv`
adds `OneAcquires` (one verifier at most acquires), `Ahead` (what it is about to store is not stored,
and what was stored ended before its acquisition began) and `VerdictRests` (a verdict of
recovery that is formed but not stored rests on windows that cannot change: to have formed it
both were stored, and a stored window is never replaced). The refinement needs the like of a
verdict of failure, `VerdictsFit`: what was read are the first of the windows that are stored, because a window
is only stored where none follows (`StoringKeepsFirst`); and the conditions on time and order that `evaluate` repeats hold of any
stored windows (`StoredAreEarned`).

**`KnowledgeLifecycleProofs`.** `TypeCorrect`, `ExtensionsAreEarned`, `KnownWerePromoted`, `HistoryStaysTrue`,
`StatusesAreEarned`, `ShownStaysFiled`, `MergesAreCopied`, `RevocationStaysFinal`, `IncidentsAreFiledOnce`, and the
refinement `GovernanceIsKept`, of which `RevocationStaysFinal` is a part. The difficulty is the stale reads. The invariant says of every payload,
stored or carried by a call or worker, that what it claims is stored (`Sound`), and the lemma that carries it is
that nothing is ever taken back (`Grows`): a claim that was true when it was read is true whenever it is
written. `KnownWasPromoted` is proved only; with one environment and one worker a run adds nothing to it.
Three theorems are about the filing of incidents. `SucceededAreFiled` holds for any workers and calls: `FilingInv` follows
a worker from the published verdict through the lookup, the choice of a family and the member row to the end of its job,
and each of these facts survives what others do (`DiagnosesStay`, `Carries`). That the family also *shows* the incident is not true
then: the last of two writers may have read fewer rows. `SucceededAreShown` says exactly when it is: as
long as no API call has begun and at most one worker is busy (`Undisturbed`), through any crashes and retries; the
rows a worker read are then still all there are when it writes (`WorkerIsFresh`). `LoneWorkerShows` is the
case of one worker and no callers, which the run checks.
`WaitingDecisionsStand` delimits finding 3: `DecisionStands`, which `knowledge_decision` refutes, holds of every behaviour in
which no decision about a family is written while a worker is about to write it back as open (`DecisionsWait`, `Reopens`);
in no other order does a worker take a decision back (calls that carry stale families are exempt from the property, as later decisions are).

**`BudgetLedgerProofs`**, for any slots, caps, floors and number of specialists: `TypeCorrect`,
`CapsStayKept`, `ChargesStayRecorded`, `ModelsAlwaysFollowTools`, `FinalJudgeStaysLast`, `BundlesStayWhole`,
`TerminalStaysFinal`, `HistoryStaysWritten`, and the refinement `AccountsAreKept`. `Records` (types, and `Lineage`: the records of one slot agree) is
inductive alone. With it every model call, tool call and token that is held is held by one slot (`HeldIsCounted`,
`HeldIsTotal`), so a step moves the three accounts by what it does to a slot or a batch of slots; every
step then is a step of `CapacityPool`, and a pool's step stays within its cap. Only an expansion needs the token cap
before the step: its lease takes what is left, which must not be negative. `BundleIsWhole` is needed for
`FinalJudgeIsLast`: it keeps the final judge of a closed bundle from being called.

**`FiniteSums`** has the sums over finite sets these proofs need. The sum of the community modules is defined by
recursion over sets; the prover has no induction that takes an operator, so each fact is proved from a smallest
counterexample: sizes of the subsets that violate it are a set of naturals, which has a least element (`SmallestSubset`).

A few facts are proved and not checked by a run, because checked ones imply or nearly imply them: `WindowsFollow`,
`PublishedOnce`, `RevocationIsFinal`, and `ResultIsPublished` and `VerdictIsFinal`, which the refinements contain.

Only model-checked: all liveness (`AttemptsSettle`, `VerdictComes`, `EveryJobEnds`, `EveryIncidentIsFiled`): fairness and
ENABLED are out of the prover's reach. `SucceededIsShown` is proved under the premises above and not for every instance,
because it is false with two writers of one family.

## 7. Findings

1. `remediation_doubt`: `docs/product/REMEDIATION.md` says an uncertain write or receipt is kept as
   OUTCOME_UNKNOWN and handed to a human. `executor_main` reads the configuration back *before* it
   marks the attempt (`runtime.py:112`); while the configuration is neither of the two bound states the readback
   raises, the process ends, and the attempt stays EXECUTING and occupies the target.
2. `jobs_journal`: `docs/product/OPERATIONS.md:11` says commit-time fencing prevents the old attempt from
   publishing. `capture_failure` (`diagnosis_pipeline_v02322.py:499`) closes the stage journal with FAILED
   without looking at the lease. The attempt that holds the lease then either succeeds under a journal
   that ends in FAILED, or - if its journal is closed earlier - cannot go on, cannot capture its own
   failure either, and ends the worker process; the job is claimed again for ever, before all later ones
   (`claim_next` takes the oldest). `EveryJobEnds` holds with exactly this exception. It takes a lease that lapses
   under a worker that goes on: without one the claim is a theorem (`KeptLeasesKeepJournals`).
3. `knowledge_decision`: `docs/product/KNOWLEDGE_EVOLUTION.md:15` says that a human decides whether a family is
   accepted as a new type. `ingest_open_world` chooses a family and its prior status before its first transaction and
   writes the whole family in its second (`knowledge/repository.py:574-592, 651`): a family reviewed in between shows ACCUMULATING or
   REVIEW_READY again. The review row stands, and nothing becomes active for it (`ActiveIsEarned`), but the
   decision is no longer shown and can be taken once more. That window, from the choice of the family to the
   second transaction, is the only one in which a worker takes a decision back (`WaitingDecisionsStand`).

## 8. Not modelled

- *Data*: contents of diagnoses, baselines, observations and receipts, seals and digests (a document
  is taken to be what its digest says), statistics, the six checks of a window.
- *Storage failures*: a lock that cannot be had within `busy_timeout`, a full disk, a damaged database.
- *Remediation*: start-up checks of the processes, the policy that `bind_policy` freezes, HTTP, tokens, metrics.
- *Jobs*: `reclaim_expired` and `bind_idempotency_key` (called by the formal-recovery campaign only); the status
  CANCELLED (nothing assigns it); the order and number of connector requests.
- *Knowledge*: similarity, readiness data, mining and its quality, the three conclusive negative controls, evaluation
  cases, labels that keep a diagnosis from being filed, the sealed documents; more than one environment (nothing but ids
  is shared between them).
- *Ledger*: identifiers, audit events, clock readings, the owner, node and plan a record is bound to (checks that only
  refuse), prompts, token counting and response validation of the adapter, the order in which a workflow calls
  the ledger (any order is allowed).
- The components marked `not_modelled` in `PROJECT.json`, each with its reason: pure functions (candidate
  filter), I/O (connectors, transport), wiring (API), statistics, campaigns, the rest of the research packages and
  benchmark adapters. They make up most of the repository's lines: recorded experiments, scripts
  of single campaigns and conversions of data, in which no state is shared and nothing has to be ordered.

## 9. Plan

Done, in this order: `Remediation` (the one external write of the system), `BoundedWrite` and the refinement,
`DiagnosisJobs`, `RecoveryVerification` and their proofs; `KnowledgeLifecycle` with `GovernedExtensions`,
`BudgetLedger` with `CapacityPool`, `FiniteSums` and their proofs; the proofs about filing; `JobOutcomes`,
`EarnedVerdict` and their refinements.

What could follow, in this order:

1. **Composition** of `Remediation` with `RecoveryVerification`: `FinishVerify` as the verdict of the
   windows instead of a free choice, with the lease shared.
2. **`CandidateFilter`**: the pure decision from diagnosis, baseline and registry to at most one candidate, against a
   declarative reference, over bounded inputs.
3. **`EnvironmentReadiness`**: revision, verification, baseline and diagnosis of one environment; a job that
   used an older revision. Composes with `DiagnosisJobs` (the job's publication is its put).
