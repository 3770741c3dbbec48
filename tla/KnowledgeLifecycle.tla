--------------------------- MODULE KnowledgeLifecycle ---------------------------
(***************************************************************************)
(* How one environment learns: diagnoses that know no cause are filed in    *)
(* fault families, operators review and merge the families, a rule is       *)
(* drafted from a family, evaluated in the shadow, promoted to an active    *)
(* extension of the diagnosis, and may be revoked.                          *)
(*                                                                          *)
(* Every operation reads families, reviews and member rows on connections   *)
(* of their own and writes a whole family back in a later transaction.      *)
(* Each read and each transaction is an action; what a call has read is     *)
(* kept in its record.  A call that raises, a client that goes away and a   *)
(* killed API process all end the call where it stands (Abandon).           *)
(***************************************************************************)
EXTENDS Naturals, Sequences, FiniteSets

CONSTANTS
    Incidents,     \* incidents of the environment, with one diagnosis job each
    Families,      \* ids of fault families
    Registrations, \* ids of registration drafts
    Clauses,       \* the rules that mining may select
    Workers,       \* worker processes
    Callers,       \* concurrent API calls
    Recurring,     \* the sets of incidents that show a recurring fault: two windows,
                   \* two sources and one root, by the data of the incidents
    MaxAttempts,   \* bound: claims of one job
    MaxCalls,      \* bound: API calls that are begun
    None           \* "no family", "no clause", "nobody"

ASSUME RecurringAssumption == Recurring \subseteq SUBSET Incidents
ASSUME BoundsAssumption == MaxAttempts \in Nat /\ MaxCalls \in Nat
ASSUME NoneAssumption ==
    None \notin Families \cup Registrations \cup Clauses \cup Workers \cup Incidents

VARIABLES
    job,      \* the diagnosis job of each incident: its end and who holds the lease
    verdict,  \* the published diagnosis of each incident
    ingest,   \* program counter and locals of each worker
    members,  \* rows of fault_family_members, with their fingerprints
    family,   \* payloads of fault_families
    accepted, \* families with an accepting row in human_reviews
    draft,    \* rows of registration_drafts, with their predicate_matrices
    shadow,   \* rows of shadow_evaluations
    registry, \* rows of environment_extension_registrations
    versions, \* rows of environment_extension_registry_versions; the index is the version
    call,     \* program counter and locals of each API call
    begun     \* the number of API calls that were begun, for the bound

knowledge == <<members, family, accepted, draft, shadow, registry, versions>>
vars == <<job, verdict, ingest, knowledge, call, begun>>

--------------------------------------------------------------------------------
(* Values *)

Open == {"ACCUMULATING", "REVIEW_READY"}
Decided == {"ACCEPTED_SHADOW", "REJECTED", "MERGED"}
Statuses == {"ABSENT", "REGISTRATION_DRAFTED", "PROMOTED"} \cup Open \cup Decided

Payloads == [status : Statuses, shown : SUBSET Incidents, into : Families \cup {None}]
NoFamily == [status |-> "ABSENT", shown |-> {}, into |-> None]

\* A draft with its matrix: positive and control rows.  A draft without a clause is one
\* that mining did not make DECLARATIVE_READY.
Drafts == [of : Families \cup {None}, positives : SUBSET Incidents,
           controls : SUBSET Incidents, clause : Clauses \cup {None}]
NoDraft == [of |-> None, positives |-> {}, controls |-> {}, clause |-> None]

Entries == [status : {"NONE", "ACTIVE", "REVOKED"}, version : Nat]
NoEntry == [status |-> "NONE", version |-> 0]

Verdicts == [terminal : {"NONE", "OPEN_WORLD", "EXTENSION_KNOWN", "OTHER"},
             by : Registrations \cup {None}]
Undiagnosed == [terminal |-> "NONE", by |-> None]

Jobs == [end : {"NONE", "SUCCEEDED", "FAILED"}, holder : Workers \cup {None}, attempts : Nat]

IngestPCs == {"IDLE", "MATCH", "LOOKUP", "CHOOSE", "ASSIGN", "REREAD", "ROWS", "PUT", "FINISH"}
IdleIngest == [pc |-> "IDLE", incident |-> None, known |-> {}, family |-> None,
               prior |-> "ACCUMULATING", rows |-> {}]
Ingests == [pc : IngestPCs, incident : Incidents \cup {None}, known : SUBSET Registrations,
            family : Families \cup {None}, prior : Statuses, rows : SUBSET Incidents]

Decisions == {"ACCEPT", "REJECT", "MORE", "MERGE"}
CallPCs == {"IDLE", "DECIDE", "SOURCE", "TARGET", "COPY", "GATHER", "PUT_TARGET", "PUT_SOURCE",
            "MATRIX", "MINE", "COMMIT_DRAFT", "PROMOTE"}
NoCall == [pc |-> "IDLE", decision |-> "NONE", family |-> None, target |-> None,
           held |-> NoFamily, source |-> NoFamily, goal |-> NoFamily,
           rows |-> {}, controls |-> {}, clause |-> None, registration |-> None]
Calls == [pc : CallPCs, decision : Decisions \cup {"NONE"},
          family : Families \cup {None}, target : Families \cup {None},
          held : Payloads, source : Payloads, goal : Payloads,
          rows : SUBSET Incidents, controls : SUBSET Incidents,
          clause : Clauses \cup {None}, registration : Registrations \cup {None}]

--------------------------------------------------------------------------------
(* Helpers *)

Exists(f) == family[f].status # "ABSENT"
Drafted(r) == draft[r].of # None
Filed(i) == \E f \in Families : i \in members[f]

\* Variant: what has been compiled is active.
Compiled == {r \in Registrations : shadow[r] = "PASSED"}

\* active_extensions
Active == {r \in Registrations : registry[r].status = "ACTIVE"}

\* Variant: an evaluation is enough, whatever its result.
CompilableUngated(r) == draft[r].clause # None /\ shadow[r] # "NONE"

\* The evaluation passed the gate: the draft may be compiled.
Compilable(r) == draft[r].clause # None /\ shadow[r] = "PASSED"

\* _existing_clause_predicates: the clauses of the active extensions.
ExistingClauses == {draft[r].clause : r \in Active}

\* The other diagnoses of the environment, which serve as negative rows.
Controls == {i \in Incidents : verdict[i].terminal \in {"EXTENSION_KNOWN", "OTHER"}}

\* The status an ingest gives to a family: the readiness of an open family is
\* computed anew, any other status is written back as it was read.
Readiness(prior, rows) ==
    IF prior \notin Open THEN prior
    ELSE IF rows \in Recurring THEN "REVIEW_READY" ELSE "ACCUMULATING"

\* The validator of FaultFamilyV1: merged if and only if there is a target.
Valid(payload) == payload.status = "MERGED" <=> payload.into # None

--------------------------------------------------------------------------------
(* The worker: run_one_job on a diagnosis, from the lookup of the active
   extensions to the end of the job *)

At(w, pc) == ingest[w].pc = pc
Incident(w) == ingest[w].incident

\* require_live_job_fence: the worker still holds the job it runs.
Fenced(w) == job[Incident(w)].holder = w

Move(w, pc) == ingest' = [ingest EXCEPT ![w].pc = pc]

\* Variant: a job whose lease has lapsed is not claimed again.
TakeOnce(w, i) ==
    /\ At(w, "IDLE") /\ job[i].end = "NONE" /\ job[i].attempts = 0
    /\ job' = [job EXCEPT ![i].holder = w, ![i].attempts = @ + 1]
    /\ ingest' = [ingest EXCEPT ![w] =
           [IdleIngest EXCEPT !.pc = "MATCH", !.incident = i, !.known = Active]]
    /\ UNCHANGED <<verdict, knowledge, call, begun>>

\* The job is claimed, for the first time or because the lease of its holder has
\* lapsed, and the worker builds its matcher from the active extensions.
Take(w, i) ==
    /\ At(w, "IDLE") /\ job[i].end = "NONE" /\ job[i].attempts < MaxAttempts
    /\ job' = [job EXCEPT ![i].holder = w, ![i].attempts = @ + 1]
    /\ ingest' = [ingest EXCEPT ![w] =
           [IdleIngest EXCEPT !.pc = "MATCH", !.incident = i, !.known = Active]]
    /\ UNCHANGED <<verdict, knowledge, call, begun>>

\* The diagnosis is published once.  Which rules match is data: none (OPEN_WORLD or a
\* cause outside this model), one active extension, or several, which is a conflict.
Publish(w) ==
    /\ At(w, "MATCH") /\ Fenced(w)
    /\ \/ verdict[Incident(w)] # Undiagnosed /\ UNCHANGED verdict
       \/ /\ verdict[Incident(w)] = Undiagnosed
          /\ \E v \in [terminal : {"OPEN_WORLD", "OTHER"}, by : {None}]
                       \cup [terminal : {"EXTENSION_KNOWN"}, by : ingest[w].known] :
                 verdict' = [verdict EXCEPT ![Incident(w)] = v]
    /\ Move(w, IF verdict'[Incident(w)].terminal = "OPEN_WORLD" THEN "LOOKUP" ELSE "FINISH")
    /\ UNCHANGED <<job, knowledge, call, begun>>

\* ingest_open_world: is the incident filed already, by an earlier attempt?
Lookup(w) ==
    /\ At(w, "LOOKUP")
    /\ \/ ~Filed(Incident(w)) /\ Move(w, "CHOOSE")
       \/ \E f \in Families :
             /\ Incident(w) \in members[f]
             /\ ingest' = [ingest EXCEPT ![w].pc = "REREAD", ![w].family = f]
    /\ UNCHANGED <<job, verdict, knowledge, call, begun>>

\* The most similar family that is neither merged nor rejected, or a new one.
Choose(w) ==
    /\ At(w, "CHOOSE")
    /\ \/ ingest' = [ingest EXCEPT ![w].pc = "ASSIGN", ![w].family = None,
                                   ![w].prior = "ACCUMULATING"]
       \/ \E f \in Families :
             /\ Exists(f) /\ family[f].status \notin {"MERGED", "REJECTED"}
             /\ ingest' = [ingest EXCEPT ![w].pc = "ASSIGN", ![w].family = f,
                                        ![w].prior = family[f].status]
    /\ UNCHANGED <<job, verdict, knowledge, call, begun>>

\* Variant: the transaction trusts the lookup that came before it.
AssignTrusting(w) ==
    /\ At(w, "ASSIGN")
    /\ \E f \in Families :
          /\ \/ f = ingest[w].family /\ UNCHANGED family
             \/ /\ ingest[w].family = None /\ ~Exists(f)
                /\ family' = [family EXCEPT ![f] =
                       [status |-> "ACCUMULATING", shown |-> {Incident(w)}, into |-> None]]
          /\ members' = [members EXCEPT ![f] = @ \cup {Incident(w)}]
          /\ ingest' = [ingest EXCEPT ![w].pc = "ROWS", ![w].family = f]
    /\ UNCHANGED <<job, verdict, accepted, draft, shadow, registry, versions, call, begun>>

\* The first transaction: fingerprint (one per incident), family if it is new, member row.
Assign(w) ==
    /\ At(w, "ASSIGN") /\ Fenced(w) /\ ~Filed(Incident(w))
    /\ \E f \in Families :
          /\ \/ f = ingest[w].family /\ UNCHANGED family
             \/ /\ ingest[w].family = None /\ ~Exists(f)
                /\ family' = [family EXCEPT ![f] =
                       [status |-> "ACCUMULATING", shown |-> {Incident(w)}, into |-> None]]
          /\ members' = [members EXCEPT ![f] = @ \cup {Incident(w)}]
          /\ ingest' = [ingest EXCEPT ![w].pc = "ROWS", ![w].family = f]
    /\ UNCHANGED <<job, verdict, accepted, draft, shadow, registry, versions, call, begun>>

\* Variant: a retry that finds the incident filed has nothing to do.
RereadNothing(w) ==
    /\ At(w, "REREAD")
    /\ Move(w, "FINISH")
    /\ UNCHANGED <<job, verdict, knowledge, call, begun>>

\* A retry: an open family is refreshed, any other is left as it is.
Reread(w) ==
    /\ At(w, "REREAD")
    /\ LET status == family[ingest[w].family].status IN
       IF status \in Open
       THEN ingest' = [ingest EXCEPT ![w].pc = "ROWS", ![w].prior = status]
       ELSE Move(w, "FINISH")
    /\ UNCHANGED <<job, verdict, knowledge, call, begun>>

ReadRows(w) ==
    /\ At(w, "ROWS")
    /\ ingest' = [ingest EXCEPT ![w].pc = "PUT", ![w].rows = members[ingest[w].family]]
    /\ UNCHANGED <<job, verdict, knowledge, call, begun>>

\* The second transaction writes the family back from what was read before.
Put(w) ==
    /\ At(w, "PUT") /\ Fenced(w)
    /\ family' = [family EXCEPT ![ingest[w].family] =
           [status |-> Readiness(ingest[w].prior, ingest[w].rows),
            shown |-> ingest[w].rows, into |-> None]]
    /\ Move(w, "FINISH")
    /\ UNCHANGED <<job, verdict, members, accepted, draft, shadow, registry, versions, call, begun>>

End(w, end) ==
    /\ Fenced(w)
    /\ job' = [job EXCEPT ![Incident(w)].end = end, ![Incident(w)].holder = None]
    /\ ingest' = [ingest EXCEPT ![w] = IdleIngest]
    /\ UNCHANGED <<verdict, knowledge, call, begun>>

Finish(w) == At(w, "FINISH") /\ End(w, "SUCCEEDED")

\* An exception inside the job: it is recorded as failed and not tried again.
Fail(w) == ~At(w, "IDLE") /\ End(w, "FAILED")

Drop(w) ==
    /\ ~At(w, "IDLE")
    /\ ingest' = [ingest EXCEPT ![w] = IdleIngest]
    /\ UNCHANGED <<job, verdict, knowledge, call, begun>>

\* JOB_LEASE_LOST at the next fence.
LoseLease(w) == ~At(w, "IDLE") /\ ~Fenced(w) /\ Drop(w)

\* A worker process dies, as long as the bound lets the job be claimed again.
Crash(w) ==
    /\ ~At(w, "IDLE") /\ Fenced(w) /\ job[Incident(w)].attempts < MaxAttempts
    /\ Drop(w)

--------------------------------------------------------------------------------
(* Families: review and merge *)

Calling(c, pc) == call[c].pc = pc
Return(c) == call' = [call EXCEPT ![c] = NoCall]

\* A request arrives.
Begin(c, record) ==
    /\ Calling(c, "IDLE") /\ begun < MaxCalls
    /\ call' = [call EXCEPT ![c] = record]
    /\ begun' = begun + 1
    /\ UNCHANGED <<job, verdict, ingest, knowledge>>

\* Every call that raises ends without a further write, as one whose client or
\* process is gone.
Abandon(c) ==
    /\ ~Calling(c, "IDLE")
    /\ Return(c)
    /\ UNCHANGED <<job, verdict, ingest, knowledge, begun>>

\* review: the family is read first; MERGE_WITH_EXISTING then calls merge.
\* ACCEPT stands for ACCEPT_AS_NEW and for SAVE_AS_INCIDENT_FAMILY.
BeginReview(c, f, decision, g) ==
    /\ Exists(f)
    /\ (decision = "MERGE") <=> (g # None)
    /\ Begin(c, [NoCall EXCEPT !.pc = IF decision = "MERGE" THEN "SOURCE" ELSE "DECIDE",
                               !.decision = decision, !.family = f, !.target = g,
                               !.held = family[f]])

\* Variant: the decision is stored as the status.
StatusAsDecided(decision) == decision

StatusOf(decision) ==
    CASE decision = "ACCEPT" -> "ACCEPTED_SHADOW"
      [] decision = "REJECT" -> "REJECTED"
      [] decision = "MERGE"  -> "MERGED"
      [] OTHER               -> "ACCUMULATING"

\* The transaction of review: the review row and the family as it was read, with the
\* status that follows from the decision.
Decide(c) ==
    /\ Calling(c, "DECIDE")
    /\ LET f == call[c].family
           decision == call[c].decision
       IN /\ family' = [family EXCEPT ![f] =
                 [call[c].held EXCEPT !.status = StatusOf(decision), !.into = call[c].target]]
          /\ accepted' = IF decision = "ACCEPT" THEN accepted \cup {f} ELSE accepted
    /\ Return(c)
    /\ UNCHANGED <<job, verdict, ingest, members, draft, shadow, registry, versions, begun>>

BeginMerge(c, f, g) ==
    /\ Exists(f)
    /\ Begin(c, [NoCall EXCEPT !.pc = "SOURCE", !.family = f, !.target = g])

ReadSource(c) ==
    /\ Calling(c, "SOURCE")
    /\ call' = [call EXCEPT ![c].pc = "TARGET", ![c].source = family[call[c].family]]
    /\ UNCHANGED <<job, verdict, ingest, knowledge, begun>>

ReadTarget(c) ==
    /\ Calling(c, "TARGET") /\ Exists(call[c].target) /\ call[c].target # call[c].family
    /\ call' = [call EXCEPT ![c].pc = "COPY", ![c].goal = family[call[c].target]]
    /\ UNCHANGED <<job, verdict, ingest, knowledge, begun>>

\* Variant: the rows are moved instead of copied.
MoveMembers(c) ==
    /\ Calling(c, "COPY")
    /\ members' = [members EXCEPT ![call[c].target] = @ \cup members[call[c].family],
                                 ![call[c].family] = {}]
    /\ call' = [call EXCEPT ![c].pc = "GATHER"]
    /\ UNCHANGED <<job, verdict, ingest, family, accepted, draft, shadow, registry, versions, begun>>

\* Variant: the rows are copied the wrong way.
CopyBack(c) ==
    /\ Calling(c, "COPY")
    /\ members' = [members EXCEPT ![call[c].family] = @ \cup members[call[c].target]]
    /\ call' = [call EXCEPT ![c].pc = "GATHER"]
    /\ UNCHANGED <<job, verdict, ingest, family, accepted, draft, shadow, registry, versions, begun>>

CopyMembers(c) ==
    /\ Calling(c, "COPY")
    /\ members' = [members EXCEPT ![call[c].target] = @ \cup members[call[c].family]]
    /\ call' = [call EXCEPT ![c].pc = "GATHER"]
    /\ UNCHANGED <<job, verdict, ingest, family, accepted, draft, shadow, registry, versions, begun>>

\* The target keeps the status it was read with.  A merged target is refused only
\* here, by the validator, after its members have been copied.
Gather(c) ==
    /\ Calling(c, "GATHER") /\ call[c].goal.status # "MERGED"
    /\ call' = [call EXCEPT ![c].pc = "PUT_TARGET", ![c].rows = members[call[c].target]]
    /\ UNCHANGED <<job, verdict, ingest, knowledge, begun>>

PutTarget(c) ==
    /\ Calling(c, "PUT_TARGET")
    /\ family' = [family EXCEPT ![call[c].target] =
           [status |-> call[c].goal.status, shown |-> call[c].rows, into |-> None]]
    /\ call' = [call EXCEPT ![c].pc = "PUT_SOURCE"]
    /\ UNCHANGED <<job, verdict, ingest, members, accepted, draft, shadow, registry, versions, begun>>

PutSource(c) ==
    /\ Calling(c, "PUT_SOURCE")
    /\ family' = [family EXCEPT ![call[c].family] =
           [call[c].source EXCEPT !.status = "MERGED", !.into = call[c].target]]
    /\ \/ call[c].decision = "MERGE" /\ call' = [call EXCEPT ![c].pc = "DECIDE"]
       \/ call[c].decision = "NONE" /\ Return(c)
    /\ UNCHANGED <<job, verdict, ingest, members, accepted, draft, shadow, registry, versions, begun>>

--------------------------------------------------------------------------------
(* Registrations: draft, evaluate, promote, revoke *)

\* Variant: a review is asked for by the client only.
BeginDraftUnreviewed(c, f) ==
    /\ Exists(f)
    /\ Begin(c, [NoCall EXCEPT !.pc = "MATRIX", !.family = f, !.held = family[f]])

\* create_registration_draft: any accepting review of the family will do.
BeginDraft(c, f) ==
    /\ f \in accepted
    /\ Begin(c, [NoCall EXCEPT !.pc = "MATRIX", !.family = f, !.held = family[f]])

\* _matrix_for_family: from the member rows, not from the family that was read.
ReadMatrix(c) ==
    /\ Calling(c, "MATRIX")
    /\ LET positives == members[call[c].family] IN
       call' = [call EXCEPT ![c].pc = "MINE", ![c].rows = positives,
                            ![c].controls = Controls \ positives]
    /\ UNCHANGED <<job, verdict, ingest, knowledge, begun>>

\* Mining needs two positive rows (and three conclusive controls, which are left to
\* the choice) and selects a clause that no active extension has, or none.  The
\* family that was read must be valid in its new status.
MineClause(c) ==
    /\ Calling(c, "MINE")
    /\ Valid([call[c].held EXCEPT !.status = "REGISTRATION_DRAFTED"])
    /\ \E clause \in (Clauses \ ExistingClauses) \cup {None} :
          /\ clause # None => Cardinality(call[c].rows) >= 2
          /\ call' = [call EXCEPT ![c].pc = "COMMIT_DRAFT", ![c].clause = clause]
    /\ UNCHANGED <<job, verdict, ingest, knowledge, begun>>

\* The transaction: a matrix is stored once, under its digest.
CommitDraft(c) ==
    LET f == call[c].family
        new == [of |-> f, positives |-> call[c].rows, controls |-> call[c].controls,
                clause |-> call[c].clause]
    IN /\ Calling(c, "COMMIT_DRAFT")
       /\ \A r \in Registrations : [draft[r] EXCEPT !.clause = new.clause] # new
       /\ \E r \in Registrations :
             /\ ~Drafted(r)
             /\ draft' = [draft EXCEPT ![r] = new]
       /\ family' = [family EXCEPT ![f] =
              [call[c].held EXCEPT !.status = "REGISTRATION_DRAFTED"]]
       /\ Return(c)
       /\ UNCHANGED <<job, verdict, ingest, members, accepted, shadow, registry, versions, begun>>

\* create_shadow_evaluation reads only what no longer changes - the draft, its
\* matrix, the evidence of its incidents - and stores the result under its
\* digest: a second evaluation comes to the same row.
Evaluate(r) ==
    /\ draft[r].clause # None /\ shadow[r] = "NONE"
    /\ \E result \in {"PASSED", "FAILED"} : shadow' = [shadow EXCEPT ![r] = result]
    /\ UNCHANGED <<job, verdict, ingest, members, family, accepted, draft, registry, versions, call, begun>>

\* Variant: the family is marked before the transaction.
BeginPromoteEagerly(c, r) ==
    /\ Calling(c, "IDLE") /\ begun < MaxCalls /\ Compilable(r)
    /\ LET f == draft[r].of IN
       /\ Valid([family[f] EXCEPT !.status = "PROMOTED"])
       /\ family' = [family EXCEPT ![f].status = "PROMOTED"]
       /\ call' = [call EXCEPT ![c] =
              [NoCall EXCEPT !.pc = "PROMOTE", !.registration = r, !.family = f,
                             !.held = family[f]]]
    /\ begun' = begun + 1
    /\ UNCHANGED <<job, verdict, ingest, members, accepted, draft, shadow, registry, versions>>

\* promote: the draft is compiled and the family is read.
BeginPromote(c, r) ==
    /\ Compilable(r)
    /\ LET f == draft[r].of IN
       /\ Valid([family[f] EXCEPT !.status = "PROMOTED"])
       /\ Begin(c, [NoCall EXCEPT !.pc = "PROMOTE", !.registration = r, !.family = f,
                                  !.held = family[f]])

\* The transaction: the registration must not be in the registry, in any status.
CommitPromote(c) ==
    LET r == call[c].registration
        version == Len(versions) + 1
    IN /\ Calling(c, "PROMOTE") /\ registry[r].status = "NONE"
       /\ registry' = [registry EXCEPT ![r] = [status |-> "ACTIVE", version |-> version]]
       /\ versions' = Append(versions, [registration |-> r, status |-> "ACTIVE"])
       /\ family' = [family EXCEPT ![call[c].family] =
              [call[c].held EXCEPT !.status = "PROMOTED"]]
       /\ Return(c)
       /\ UNCHANGED <<job, verdict, ingest, members, accepted, draft, shadow, begun>>

\* Variant: the row keeps the version of its promotion.
RevokeInPlace(r) ==
    /\ registry[r].status = "ACTIVE"
    /\ registry' = [registry EXCEPT ![r].status = "REVOKED"]
    /\ versions' = Append(versions, [registration |-> r, status |-> "REVOKED"])
    /\ UNCHANGED <<job, verdict, ingest, members, family, accepted, draft, shadow, call, begun>>

\* revoke reads and writes in one transaction; the family keeps its status.
Revoke(r) ==
    /\ registry[r].status = "ACTIVE"
    /\ registry' = [registry EXCEPT ![r] =
           [status |-> "REVOKED", version |-> Len(versions) + 1]]
    /\ versions' = Append(versions, [registration |-> r, status |-> "REVOKED"])
    /\ UNCHANGED <<job, verdict, ingest, members, family, accepted, draft, shadow, call, begun>>

--------------------------------------------------------------------------------
(* Specification *)

Init ==
    /\ job = [i \in Incidents |-> [end |-> "NONE", holder |-> None, attempts |-> 0]]
    /\ verdict = [i \in Incidents |-> Undiagnosed]
    /\ ingest = [w \in Workers |-> IdleIngest]
    /\ members = [f \in Families |-> {}]
    /\ family = [f \in Families |-> NoFamily]
    /\ accepted = {}
    /\ draft = [r \in Registrations |-> NoDraft]
    /\ shadow = [r \in Registrations |-> "NONE"]
    /\ registry = [r \in Registrations |-> NoEntry]
    /\ versions = <<>>
    /\ call = [c \in Callers |-> NoCall]
    /\ begun = 0

\* A worker at work, without the claim and the faults.
Working(w) ==
    \/ Publish(w) \/ Lookup(w) \/ Choose(w) \/ Assign(w) \/ Reread(w)
    \/ ReadRows(w) \/ Put(w) \/ Finish(w) \/ LoseLease(w)

WorkerStep(w) ==
    \/ \E i \in Incidents : Take(w, i)
    \/ Working(w) \/ Fail(w) \/ Crash(w)

Reviewing(c) ==
    \/ \E f \in Families, d \in Decisions, g \in Families \cup {None} : BeginReview(c, f, d, g)
    \/ Decide(c)

Merging(c) ==
    \/ \E f, g \in Families : BeginMerge(c, f, g)
    \/ ReadSource(c) \/ ReadTarget(c) \/ CopyMembers(c)
    \/ Gather(c) \/ PutTarget(c) \/ PutSource(c)

Registering(c) ==
    \/ \E f \in Families : BeginDraft(c, f)
    \/ ReadMatrix(c) \/ MineClause(c) \/ CommitDraft(c)
    \/ \E r \in Registrations : BeginPromote(c, r)
    \/ CommitPromote(c)

CallStep(c) == Reviewing(c) \/ Merging(c) \/ Registering(c) \/ Abandon(c)

Next ==
    \/ \E w \in Workers : WorkerStep(w)
    \/ \E c \in Callers : CallStep(c)
    \/ \E r \in Registrations : Evaluate(r) \/ Revoke(r)

Spec == Init /\ [][Next]_vars

\* Workers claim what is left and go on working; nobody has to call the API.
LiveSpec ==
    /\ Spec
    /\ \A w \in Workers :
          /\ WF_vars(Working(w))
          /\ \A i \in Incidents : WF_vars(Take(w, i))

--------------------------------------------------------------------------------
(* Properties *)

TypeOK ==
    /\ job \in [Incidents -> Jobs]
    /\ verdict \in [Incidents -> Verdicts]
    /\ ingest \in [Workers -> Ingests]
    /\ members \in [Families -> SUBSET Incidents]
    /\ family \in [Families -> Payloads]
    /\ accepted \subseteq Families
    /\ draft \in [Registrations -> Drafts]
    /\ shadow \in [Registrations -> {"NONE", "PASSED", "FAILED"}]
    /\ registry \in [Registrations -> Entries]
    /\ versions \in Seq([registration : Registrations, status : {"ACTIVE", "REVOKED"}])
    /\ call \in [Callers -> Calls]
    /\ begun \in Nat

\* Whatever is in the registry was drafted under an accepting review of its family,
\* passed its own evaluation, and was mined from at least two incidents that no
\* diagnosis could explain.
ActiveIsEarned ==
    \A r \in Registrations : registry[r].status # "NONE" =>
        /\ draft[r].clause # None /\ shadow[r] = "PASSED"
        /\ draft[r].of \in accepted
        /\ Cardinality(draft[r].positives) >= 2
        /\ \A i \in draft[r].positives : verdict[i].terminal = "OPEN_WORLD"

\* An incident is explained only by an extension that has been promoted, although the
\* worker reads the active extensions long before it publishes.
KnownWasPromoted ==
    \A i \in Incidents : verdict[i].terminal = "EXTENSION_KNOWN" =>
        registry[verdict[i].by].status # "NONE"

\* A revocation does not delete history: the versions of a registration are its
\* promotion and then its revocation, and its row is the latest of them.
HistoryIsTrue ==
    \A r \in Registrations :
        LET own == {k \in 1..Len(versions) : versions[k].registration = r}
            last == registry[r].version
        IN \/ registry[r].status = "NONE" /\ own = {}
           \/ /\ registry[r].status = "ACTIVE"
              /\ own = {last} /\ versions[last].status = "ACTIVE"
           \/ /\ registry[r].status = "REVOKED"
              /\ \E first \in 1..(last - 1) :
                    /\ own = {first, last}
                    /\ versions[first].status = "ACTIVE" /\ versions[last].status = "REVOKED"

\* Although families are written back from stale reads, a status that records a step of
\* the life cycle is never shown without the row of that step.
StatusIsEarned ==
    \A f \in Families :
        /\ family[f].status \in {"ACCEPTED_SHADOW", "REGISTRATION_DRAFTED"} => f \in accepted
        /\ family[f].status = "REGISTRATION_DRAFTED" =>
              \E r \in Registrations : draft[r].of = f
        /\ family[f].status = "PROMOTED" =>
              \E r \in Registrations : draft[r].of = f /\ registry[r].status # "NONE"

\* What a family shows and what a rule was mined from stays backed by member rows.
ShownIsFiled ==
    /\ \A f \in Families : family[f].shown \subseteq members[f]
    /\ \A r \in Registrations : Drafted(r) =>
          draft[r].positives \subseteq members[draft[r].of]

\* A merge is three transactions: whatever its failures and whatever overtakes it, a
\* merged family names another one that exists and lacks no incident it shows.
MergedIsCopied ==
    \A f \in Families : family[f].status = "MERGED" =>
        /\ family[f].into # f /\ Exists(family[f].into)
        /\ family[f].shown \subseteq members[family[f].into]

\* Caller c copies the member rows of the family it merges into family f, in this step.
CopiesInto(c, f) ==
    Calling(c, "COPY") /\ call'[c].pc = "GATHER" /\ call[c].target = f

\* No incident counts twice: a member row comes with the first filing of its incident,
\* in one family alone, or from the family that a merge under way copies from.  Of two
\* workers on one incident, each about to open a family of its own, at most one files it.
FiledOnce ==
    [][\A f \in Families, i \in Incidents :
          i \in members'[f] \ members[f] =>
              \/ ~Filed(i) /\ \A g \in Families \ {f} : i \notin members'[g]
              \/ \E c \in Callers : CopiesInto(c, f) /\ i \in members[call[c].family]]_vars

\* A revoked extension is never active again, not even through a promotion that was
\* under way when it was revoked.
RevocationIsFinal ==
    [][\A r \in Registrations :
          registry[r].status = "REVOKED" => registry'[r].status = "REVOKED"]_vars

\* A worker does not change what a reviewer has decided about a family.
DecisionStands ==
    [][\A f \in Families :
          family[f].status \in Decided /\ family'[f].status \in Open =>
              \E c \in Callers : CallStep(c)]_vars

\* One worker, undisturbed by operators: a job that has succeeded on an unexplained
\* incident has shown it in a family, also when a crash came between the two
\* transactions of the filing.
SucceededIsShown ==
    \A i \in Incidents :
        job[i].end = "SUCCEEDED" /\ verdict[i].terminal = "OPEN_WORLD" =>
            \E f \in Families : i \in family[f].shown

\* Every unexplained incident is filed, unless its job fails.
EveryIncidentIsFiled ==
    \A i \in Incidents :
        verdict[i].terminal = "OPEN_WORLD" ~> (Filed(i) \/ job[i].end = "FAILED")

\* The abstract view: where each registration stands.
Stage ==
    [r \in Registrations |->
        CASE registry[r].status # "NONE" -> registry[r].status
          [] registry[r].status = "NONE" /\ shadow[r] # "NONE" -> shadow[r]
          [] OTHER -> IF Drafted(r) THEN "DRAFTED" ELSE "NONE"]

Source == [r \in Registrations |-> draft[r].of]

Governance == INSTANCE GovernedExtensions
                  WITH source <- Source, stage <- Stage, NoFamilyYet <- None

\* The calls with their stale reads implement the promise of GovernedExtensions.
KeepsGovernance == Governance!Spec
=============================================================================
