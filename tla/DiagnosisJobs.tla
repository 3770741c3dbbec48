----------------------------- MODULE DiagnosisJobs -----------------------------
(***************************************************************************)
(* The job queue of the product, its workers, and what a job publishes: the *)
(* diagnosis of an incident, a baseline, or a verified environment.         *)
(*                                                                          *)
(* A job is claimed under a lease that may lapse while its worker is still  *)
(* running.  Every transaction that publishes checks the lease first (the   *)
(* commit-time fence); the stage journal of a diagnosis does not.           *)
(*                                                                          *)
(* Of time only the lapse of a lease is kept.  A worker runs one job at a   *)
(* time under an id of its own, so claimed_by alone tells its claim from    *)
(* any later one, as claimed_by and attempt_count do together in the code.  *)
(***************************************************************************)
EXTENDS Naturals, Sequences

CONSTANTS
    Jobs,    \* job rows; a diagnosis stands for its incident, and so for the key
             \* under which a repeated request finds it
    Workers, \* worker processes
    Kinds,   \* the job types that are asked for
    Values,  \* what the connectors may have answered, and so what is computed
    NoOne,   \* "no worker", "no job"
    NoValue  \* "nothing published", "no result"

ASSUME NamesAssumption == NoOne \notin Jobs \cup Workers /\ NoValue \notin Values
ASSUME KindsAssumption == Kinds \subseteq {"DIAGNOSIS", "BASELINE_BUILD", "ENVIRONMENT_VERIFY"}

VARIABLES
    queue,     \* job ids in the order of created_at
    rows,      \* the rows of diagnosis_jobs
    published, \* what each job has published
    journal,   \* how the stage journal of each diagnosis ends
    worker     \* program counter and locals of each worker

vars == <<queue, rows, published, journal, worker>>

--------------------------------------------------------------------------------
(* Values *)

Ended == {"SUCCEEDED", "FAILED"}
Statuses == {"ABSENT", "PENDING", "RUNNING"} \cup Ended

Rows == [status : Statuses, kind : Kinds \cup {"DIAGNOSIS"}, claimedBy : Workers \cup {NoOne},
         leased : BOOLEAN, result : Values \cup {NoValue}]
AbsentRow == [status |-> "ABSENT", kind |-> "DIAGNOSIS", claimedBy |-> NoOne,
              leased |-> FALSE, result |-> NoValue]

\* The last event of a journal: none, one of a running stage, JOB_SUCCEEDED
\* passed, or FAILED.
Tails == {"EMPTY", "OPEN", "PASSED", "FAILED"}

PCs == {"OPENING", "LOOKING", "ACQUIRING", "STORING", "STORED", "SUCCEEDING",
        "SEALING", "FAILING", "REPORTING"}
Idle == [pc |-> "IDLE", job |-> NoOne, value |-> NoValue]
WorkerRows == {Idle} \cup [pc : PCs, job : Jobs, value : Values \cup {NoValue}]

--------------------------------------------------------------------------------
(* Helpers *)

Kind(w) == rows[worker[w].job].kind
Diagnosing(w) == Kind(w) = "DIAGNOSIS"

\* Variant: a lease that lapsed is still good while nobody has claimed the job.
HoldsUnlessReclaimed(w) ==
    /\ rows[worker[w].job].status = "RUNNING"
    /\ rows[worker[w].job].claimedBy = w

\* Variant: the fence looks at the job, not at who claimed it.
HoldsIfRunning(w) ==
    /\ rows[worker[w].job].status = "RUNNING"
    /\ rows[worker[w].job].leased

\* The condition of require_live_job_fence, renew_lease and _finish.
Holds(w) ==
    /\ rows[worker[w].job].status = "RUNNING"
    /\ rows[worker[w].job].claimedBy = w
    /\ rows[worker[w].job].leased

\* Variant: a journal may go on after its terminal event.
NeverSealed(j) == FALSE

\* The journal of a job takes no further event: append raises.
Sealed(j) == journal[j] \in {"PASSED", "FAILED"}

\* Variant: a lapsed lease is not claimed again.
ClaimableOnce(j) == rows[j].status = "PENDING"

Claimable(j) ==
    \/ rows[j].status = "PENDING"
    \/ rows[j].status = "RUNNING" /\ ~rows[j].leased

Created(j) == rows[j].status # "ABSENT"

\* created_at, job_id: the order of the queue.
Before(i, j) == \E m, n \in 1..Len(queue) : m < n /\ queue[m] = i /\ queue[n] = j

Goto(w, pc) == worker' = [worker EXCEPT ![w].pc = pc]
Return(w) == worker' = [worker EXCEPT ![w] = Idle]

--------------------------------------------------------------------------------
(* The API *)

\* Variant: the idempotency key is not looked up.
EnqueueAgain(j, kind) ==
    /\ rows' = [rows EXCEPT ![j] =
           [AbsentRow EXCEPT !.status = "PENDING", !.kind = kind]]
    /\ queue' = Append(queue, j)
    /\ UNCHANGED <<published, journal, worker>>

\* enqueue.  A repeated request finds the row and changes nothing.
Enqueue(j, kind) ==
    /\ ~Created(j)
    /\ rows' = [rows EXCEPT ![j] =
           [AbsentRow EXCEPT !.status = "PENDING", !.kind = kind]]
    /\ queue' = Append(queue, j)
    /\ UNCHANGED <<published, journal, worker>>

--------------------------------------------------------------------------------
(* The worker: run_one_job *)

FirstStep == [DIAGNOSIS |-> "OPENING", BASELINE_BUILD |-> "LOOKING",
              ENVIRONMENT_VERIFY |-> "ACQUIRING"]

\* claim_next: the oldest pending job or running job whose lease has lapsed.
ClaimNext(w, j) ==
    /\ worker[w].pc = "IDLE"
    /\ Claimable(j)
    /\ \A i \in Jobs : Claimable(i) => ~Before(i, j)
    /\ rows' = [rows EXCEPT ![j].status = "RUNNING", ![j].claimedBy = w,
                            ![j].leased = TRUE]
    /\ worker' = [worker EXCEPT ![w] =
           [pc |-> FirstStep[rows[j].kind], job |-> j, value |-> NoValue]]
    /\ UNCHANGED <<queue, published, journal>>

\* The stages up to the load of the incident, the first events of the attempt.
OpenJournal(w) ==
    LET j == worker[w].job IN
    /\ worker[w].pc = "OPENING"
    /\ \/ /\ ~Sealed(j)
          /\ journal' = [journal EXCEPT ![j] = "OPEN"]
          /\ Goto(w, "LOOKING")
       \/ /\ Sealed(j)
          /\ Goto(w, "FAILING")
          /\ UNCHANGED journal
    /\ UNCHANGED <<queue, rows, published>>

\* Variant: every attempt diagnoses the incident anew.
LookUpNothing(w) ==
    /\ worker[w].pc = "LOOKING"
    /\ Goto(w, "ACQUIRING")
    /\ UNCHANGED <<queue, rows, published, journal>>

\* get_optional: what an earlier attempt has published is this job's result.
LookUp(w) ==
    LET found == published[worker[w].job] IN
    /\ worker[w].pc = "LOOKING"
    /\ \/ /\ found # NoValue
          /\ worker' = [worker EXCEPT ![w].value = found, ![w].pc = "STORED"]
       \/ /\ found = NoValue
          /\ Goto(w, "ACQUIRING")
    /\ UNCHANGED <<queue, rows, published, journal>>

\* The reads through the connectors and the diagnosis computed from them, with
\* the journal events of these stages.  The renewal before each request keeps a
\* live lease alive.
Acquire(w) ==
    /\ worker[w].pc = "ACQUIRING"
    /\ \/ /\ ~(Diagnosing(w) /\ Sealed(worker[w].job))
          /\ \E v \in Values :
                 worker' = [worker EXCEPT ![w].value = v, ![w].pc = "STORING"]
       \/ /\ Diagnosing(w) /\ Sealed(worker[w].job)
          /\ Goto(w, "FAILING")
    /\ UNCHANGED <<queue, rows, published, journal>>

\* renew_lease before a request, or the fence of ingest_open_world: JOB_LEASE_LOST
\* ends the attempt without a trace.
LoseLease(w) ==
    /\ \/ worker[w].pc = "ACQUIRING"
       \/ worker[w].pc = "STORED" /\ Diagnosing(w)
    /\ ~Holds(w)
    /\ Return(w)
    /\ UNCHANGED <<queue, rows, published, journal>>

\* The transaction that publishes, behind the fence.  A verified environment
\* replaces what was there; a diagnosis or a baseline never does.
Put(w) ==
    LET j == worker[w].job
        free == \/ published[j] = NoValue
                \/ published[j] = worker[w].value
                \/ Kind(w) = "ENVIRONMENT_VERIFY"
    IN /\ worker[w].pc = "STORING"
       /\ \/ /\ Holds(w) /\ free
             /\ published' = [published EXCEPT ![j] = worker[w].value]
             /\ Goto(w, IF Diagnosing(w) THEN "STORED" ELSE "SUCCEEDING")
          \/ /\ Holds(w) /\ ~free
             /\ Goto(w, "FAILING")
             /\ UNCHANGED published
          \/ /\ ~Holds(w)
             /\ Return(w)
             /\ UNCHANGED published
       /\ UNCHANGED <<queue, rows, journal>>

\* The result is prepared, with the journal events up to JOB_SUCCEEDED started.
Prepare(w) ==
    /\ worker[w].pc = "STORED"
    /\ Goto(w, IF Diagnosing(w) /\ Sealed(worker[w].job) THEN "FAILING"
               ELSE "SUCCEEDING")
    /\ UNCHANGED <<queue, rows, published, journal>>

\* succeed, by _finish: behind the same fence as the publication.
Succeed(w) ==
    LET j == worker[w].job IN
    /\ worker[w].pc = "SUCCEEDING"
    /\ \/ /\ Holds(w)
          /\ rows' = [rows EXCEPT ![j].status = "SUCCEEDED",
                                  ![j].result = worker[w].value,
                                  ![j].claimedBy = NoOne, ![j].leased = FALSE]
          /\ IF Diagnosing(w) THEN Goto(w, "SEALING") ELSE Return(w)
       \/ /\ ~Holds(w)
          /\ Return(w)
          /\ UNCHANGED rows
    /\ UNCHANGED <<queue, published, journal>>

\* JOB_SUCCEEDED passed, in a transaction of its own.
SealJournal(w) ==
    LET j == worker[w].job IN
    /\ worker[w].pc = "SEALING"
    /\ \/ /\ ~Sealed(j)
          /\ journal' = [journal EXCEPT ![j] = "PASSED"]
          /\ Return(w)
       \/ /\ Sealed(j)
          /\ Goto(w, "FAILING")
          /\ UNCHANGED journal
    /\ UNCHANGED <<queue, rows, published>>

\* A handler raises: a connector, a frozen binding that changed, the bridge, or
\* the ingestion into the knowledge base.
StageFails(w) ==
    /\ worker[w].pc \in {"LOOKING", "ACQUIRING", "STORING", "STORED"}
    /\ Goto(w, "FAILING")
    /\ UNCHANGED <<queue, rows, published, journal>>

\* capture_failure: the FAILED event, with no look at the lease.  When the journal
\* refuses it too, the exception leaves run_one_job and ends the process.
CaptureFailure(w) ==
    LET j == worker[w].job IN
    /\ worker[w].pc = "FAILING"
    /\ \/ /\ Diagnosing(w) /\ ~Sealed(j)
          /\ journal' = [journal EXCEPT ![j] = "FAILED"]
          /\ Goto(w, "REPORTING")
       \/ /\ Diagnosing(w) /\ Sealed(j)
          /\ Return(w)
          /\ UNCHANGED journal
       \/ /\ ~Diagnosing(w)
          /\ Goto(w, "REPORTING")
          /\ UNCHANGED journal
    /\ UNCHANGED <<queue, rows, published>>

\* fail, by _finish; a lost lease is swallowed.
Fail(w) ==
    LET j == worker[w].job IN
    /\ worker[w].pc = "REPORTING"
    /\ \/ /\ Holds(w)
          /\ rows' = [rows EXCEPT ![j].status = "FAILED", ![j].claimedBy = NoOne,
                                  ![j].leased = FALSE]
       \/ /\ ~Holds(w)
          /\ UNCHANGED rows
    /\ Return(w)
    /\ UNCHANGED <<queue, published, journal>>

--------------------------------------------------------------------------------
(* The environment *)

\* lease_expires_at passes.
Lapse(j) ==
    /\ rows[j].status = "RUNNING"
    /\ rows[j].leased
    /\ rows' = [rows EXCEPT ![j].leased = FALSE]
    /\ UNCHANGED <<queue, published, journal, worker>>

\* The process ends; its supervisor starts another.
Crash(w) ==
    /\ worker[w].pc # "IDLE"
    /\ Return(w)
    /\ UNCHANGED <<queue, rows, published, journal>>

--------------------------------------------------------------------------------
(* The specification *)

Init ==
    /\ queue = <<>>
    /\ rows = [j \in Jobs |-> AbsentRow]
    /\ published = [j \in Jobs |-> NoValue]
    /\ journal = [j \in Jobs |-> "EMPTY"]
    /\ worker = [w \in Workers |-> Idle]

\* run_worker, with its handlers answering.
Run(w) ==
    \/ \E j \in Jobs : ClaimNext(w, j)
    \/ OpenJournal(w) \/ LookUp(w) \/ Acquire(w) \/ LoseLease(w) \/ Put(w)
    \/ Prepare(w) \/ Succeed(w) \/ SealJournal(w) \/ CaptureFailure(w) \/ Fail(w)

Next ==
    \/ \E j \in Jobs, kind \in Kinds : Enqueue(j, kind)
    \/ \E w \in Workers : Run(w) \/ StageFails(w) \/ Crash(w)
    \/ \E j \in Jobs : Lapse(j)

Spec == Init /\ [][Next]_vars

\* Nobody works under the lease of a running job.
Abandoned(j) ==
    \A w \in Workers : ~(worker[w].job = j /\ rows[j].claimedBy = w)

\* Workers keep running, and time ends the leases that their workers left behind.
FairSpec ==
    /\ Spec
    /\ \A w \in Workers : WF_vars(Run(w))
    /\ \A j \in Jobs : WF_vars(Abandoned(j) /\ Lapse(j))
--------------------------------------------------------------------------------
(* Safety *)

\* Every variable keeps its type, and the queue holds the jobs that exist, once.
TypeOK ==
    /\ queue \in Seq(Jobs)
    /\ {queue[n] : n \in 1..Len(queue)} = {j \in Jobs : Created(j)}
    /\ \A m, n \in 1..Len(queue) : queue[m] = queue[n] => m = n
    /\ rows \in [Jobs -> Rows]
    /\ published \in [Jobs -> Values \cup {NoValue}]
    /\ journal \in [Jobs -> Tails]
    /\ worker \in [Workers -> WorkerRows]

\* The attempt that holds the lease of a diagnosis or a baseline and computes it
\* has nothing to collide with: what it looked up before its reads is still so
\* when it stores.  DIAGNOSIS_IMMUTABLE_CONFLICT never fails a good attempt, however
\* many attempts came before it and wherever they are now.
HolderIsFirst ==
    \A w \in Workers :
        /\ worker[w].pc \in {"ACQUIRING", "STORING"}
        /\ Kind(w) # "ENVIRONMENT_VERIFY"
        /\ Holds(w)
        => published[worker[w].job] = NoValue

\* The result a succeeded job shows is what is published under it, whichever
\* attempt computed which: GET /v1/jobs and GET /v1/incidents agree.
ResultIsPublished ==
    \A j \in Jobs : rows[j].status = "SUCCEEDED" =>
        rows[j].result # NoValue /\ rows[j].result = published[j]

\* A journal that passed is of a job that succeeded, and a diagnosis that failed
\* has said so in its journal, with several attempts appending to the one journal.
JournalIsTrue ==
    \A j \in Jobs :
        /\ journal[j] = "PASSED" => rows[j].status = "SUCCEEDED"
        /\ rows[j].kind = "DIAGNOSIS" /\ rows[j].status = "FAILED"
           => journal[j] = "FAILED"

\* Commit-time fencing: whatever is published or ended is so by a step of the
\* worker that claimed the job last, and before its lease lapses.
OldAttemptIsSilent ==
    [][\A j \in Jobs :
          \/ published'[j] # published[j]
          \/ rows'[j].status \in Ended /\ rows[j].status \notin Ended
          => /\ rows[j].leased
             /\ worker[rows[j].claimedBy].job = j
             /\ worker'[rows[j].claimedBy] # worker[rows[j].claimedBy]]_vars

\* What was published stays (the state of an environment, until its job has
\* ended), and so does the end of a job, while older attempts still run.
PublishedOnce ==
    [][\A j \in Jobs :
          /\ published[j] # NoValue /\ published'[j] # published[j]
             => rows[j].kind = "ENVIRONMENT_VERIFY" /\ rows[j].status = "RUNNING"
          /\ rows[j].status \in Ended => rows'[j] = rows[j]]_vars

\* The abstract view: what a client finds of each job.
StageOf == [ABSENT |-> "none", PENDING |-> "open", RUNNING |-> "open",
            SUCCEEDED |-> "succeeded", FAILED |-> "failed"]
Stage == [j \in Jobs |-> StageOf[rows[j].status]]
Revisable == {j \in Jobs : Created(j) /\ rows[j].kind = "ENVIRONMENT_VERIFY"}
Shown == [j \in Jobs |-> rows[j].result]

Outcomes == INSTANCE JobOutcomes
                WITH stage <- Stage, revisable <- Revisable, stored <- published, shown <- Shown

\* However many attempts run at once under lapsed and live leases, together they do what
\* one careful attempt would: the steps of the workers are steps of JobOutcomes.
KeepsOutcomes == Outcomes!Spec

\* OPERATIONS.md: fencing "prevents the old attempt from publishing".  So the stage
\* journal of a diagnosis that succeeded does not end in the FAILED of another
\* attempt.  capture_failure does not ask for the lease.
SuccessIsNotFailed ==
    \A j \in Jobs : rows[j].status = "SUCCEEDED" => journal[j] # "FAILED"

--------------------------------------------------------------------------------
(* Liveness *)

\* A job whose journal an attempt has closed without ending the job.
Poisoned(j) ==
    /\ rows[j].kind = "DIAGNOSIS"
    /\ rows[j].status = "RUNNING"
    /\ journal[j] = "FAILED"

\* A worker dies under its lease, other than of a journal that is closed; or a
\* lease lapses under its worker.
Disturbed ==
    \/ \E w \in Workers :
           /\ worker[w].pc # "IDLE"
           /\ Holds(w)
           /\ Crash(w)
           /\ ~(worker[w].pc = "FAILING" /\ Diagnosing(w) /\ Sealed(worker[w].job))
    \/ \E j \in Jobs : Lapse(j) /\ ~Abandoned(j)

\* Once workers stop dying and keep within their leases, every job that was
\* accepted ends, whatever its earlier attempts left behind - unless the oldest
\* jobs are diagnoses whose journal was closed by an attempt that lost its lease
\* before it could end the job: these are claimed for ever.
EveryJobEnds ==
    <>[][~Disturbed]_vars =>
        \A j \in Jobs : Created(j) ~>
            (rows[j].status \in Ended \/ \E i \in Jobs : Poisoned(i))
================================================================================
