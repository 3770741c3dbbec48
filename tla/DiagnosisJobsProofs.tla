-------------------------- MODULE DiagnosisJobsProofs --------------------------
(***************************************************************************)
(* Theorems about DiagnosisJobs, for every set of jobs, workers, job types  *)
(* and values.                                                              *)
(***************************************************************************)
EXTENDS DiagnosisJobs, TLAPS

--------------------------------------------------------------------------------
(* Type correctness *)

\* What is known of a worker that has claimed a job.
LEMMA BusyWorker ==
    ASSUME TypeOK, NEW w \in Workers, worker[w].pc # "IDLE"
    PROVE  /\ worker[w] \in [pc : PCs, job : Jobs, value : Values \cup {NoValue}]
           /\ worker[w].job \in Jobs
           /\ rows[worker[w].job] \in Rows
BY DEF TypeOK, WorkerRows, Idle

\* A worker that goes on with its job keeps well-typed locals (run_one_job).
LEMMA GotoKeepsType ==
    ASSUME TypeOK, NEW w \in Workers, worker[w].pc # "IDLE", NEW pc \in PCs, Goto(w, pc)
    PROVE  worker' \in [Workers -> WorkerRows]
<1>1. [worker[w] EXCEPT !.pc = pc] \in WorkerRows
  BY BusyWorker DEF WorkerRows
<1> QED BY <1>1 DEF TypeOK, Goto

\* So does a worker that is done with its job, or dies.
LEMMA ReturnKeepsType ==
    ASSUME TypeOK, NEW w \in Workers, Return(w)
    PROVE  worker' \in [Workers -> WorkerRows]
BY DEF TypeOK, Return, WorkerRows

\* What the queue lists is unaffected by a step that neither adds to it nor creates a
\* row: the jobs that exist are the same.
LEMMA QueueStands ==
    ASSUME TypeOK, UNCHANGED queue, \A j \in Jobs : Created(j)' <=> Created(j)
    PROVE  /\ queue' \in Seq(Jobs)
           /\ {queue'[n] : n \in 1..Len(queue')} = {j \in Jobs : Created(j)'}
           /\ \A m, n \in 1..Len(queue') : queue'[m] = queue'[n] => m = n
BY DEF TypeOK

\* Replacing the row of a job that exists by a well-formed one keeps the table
\* well-formed and the set of jobs as it is.
LEMMA RowKeepsType ==
    ASSUME TypeOK, NEW j \in Jobs, NEW row \in Rows, Created(j), row.status # "ABSENT",
           rows' = [rows EXCEPT ![j] = row]
    PROVE  /\ rows' \in [Jobs -> Rows]
           /\ \A i \in Jobs : Created(i)' <=> Created(i)
BY DEF TypeOK, Created

\* enqueue() adds a job that was not there to the queue of those that are.
LEMMA EnqueueTypes ==
    ASSUME TypeOK, NEW j \in Jobs, NEW kind \in Kinds, Enqueue(j, kind)
    PROVE  TypeOK'
<1>1. queue' = Append(queue, j) /\ queue' \in Seq(Jobs)
  BY DEF Enqueue, TypeOK
<1>2. /\ Len(queue') = Len(queue) + 1
      /\ Len(queue) \in Nat
      /\ queue'[Len(queue) + 1] = j
      /\ \A n \in 1..Len(queue) : queue'[n] = queue[n]
  BY <1>1 DEF TypeOK
<1>3. \A n \in 1..Len(queue) : queue[n] # j /\ queue[n] \in Jobs
  BY DEF TypeOK, Enqueue
<1>4. rows' = [rows EXCEPT ![j] = [AbsentRow EXCEPT !.status = "PENDING", !.kind = kind]]
  BY DEF Enqueue
<1>5. [AbsentRow EXCEPT !.status = "PENDING", !.kind = kind] \in Rows
  BY DEF AbsentRow, Rows, Statuses
<1>6. rows' \in [Jobs -> Rows]
  BY <1>4, <1>5 DEF TypeOK
<1>7. \A i \in Jobs : Created(i)' <=> Created(i) \/ i = j
  BY <1>4 DEF TypeOK, Created, AbsentRow
<1>8. {queue'[n] : n \in 1..Len(queue')} = {queue[n] : n \in 1..Len(queue)} \cup {j}
  BY <1>2
<1>9. {queue'[n] : n \in 1..Len(queue')} = {i \in Jobs : Created(i)'}
  BY <1>7, <1>8 DEF TypeOK
<1>10. \A m, n \in 1..Len(queue') : queue'[m] = queue'[n] => m = n
  BY <1>2, <1>3 DEF TypeOK
<1> QED BY <1>1, <1>6, <1>9, <1>10 DEF TypeOK, Enqueue

\* Every step of a worker keeps its locals, and the rows it writes, well-typed.
LEMMA WorkerTypes ==
    ASSUME TypeOK, NEW w \in Workers, Run(w) \/ StageFails(w) \/ Crash(w)
    PROVE  /\ worker' \in [Workers -> WorkerRows]
           /\ rows' \in [Jobs -> Rows]
           /\ published' \in [Jobs -> Values \cup {NoValue}]
           /\ journal' \in [Jobs -> Tails]
           /\ UNCHANGED queue
           /\ \A j \in Jobs : Created(j)' <=> Created(j)
<1> DEFINE Good == /\ worker' \in [Workers -> WorkerRows]
                   /\ rows' \in [Jobs -> Rows]
                   /\ published' \in [Jobs -> Values \cup {NoValue}]
                   /\ journal' \in [Jobs -> Tails]
                   /\ UNCHANGED queue
                   /\ \A j \in Jobs : Created(j)' <=> Created(j)
<1>1. ASSUME NEW j \in Jobs, ClaimNext(w, j) PROVE Good
  <2>1. rows[j] \in Rows /\ rows[j].status # "ABSENT"
    BY <1>1 DEF TypeOK, ClaimNext, Claimable
  <2>2. [rows[j] EXCEPT !.status = "RUNNING", !.claimedBy = w, !.leased = TRUE] \in Rows
    BY <2>1 DEF Rows, Statuses
  <2>3. rows' \in [Jobs -> Rows] /\ \A i \in Jobs : Created(i)' <=> Created(i)
    BY <1>1, <2>1, <2>2 DEF TypeOK, ClaimNext, Created
  <2>4. FirstStep[rows[j].kind] \in PCs
    <3>1. rows[j].kind \in {"DIAGNOSIS", "BASELINE_BUILD", "ENVIRONMENT_VERIFY"}
      BY <2>1, KindsAssumption DEF Rows
    <3>2. /\ FirstStep["DIAGNOSIS"] \in PCs
          /\ FirstStep["BASELINE_BUILD"] \in PCs
          /\ FirstStep["ENVIRONMENT_VERIFY"] \in PCs
      BY DEF FirstStep, PCs
    <3> QED BY <3>1, <3>2
  <2>5. worker' \in [Workers -> WorkerRows]
    BY <1>1, <2>4 DEF TypeOK, ClaimNext, WorkerRows
  <2> QED BY <1>1, <2>3, <2>5 DEF TypeOK, ClaimNext
<1>2. CASE OpenJournal(w)
  <2>1. worker' \in [Workers -> WorkerRows]
    BY <1>2, GotoKeepsType DEF OpenJournal, PCs
  <2> QED BY <1>2, <2>1, BusyWorker DEF TypeOK, OpenJournal, Tails, Created
<1>3. CASE LookUp(w)
  <2>1. published[worker[w].job] \in Values \cup {NoValue}
    BY <1>3, BusyWorker DEF TypeOK, LookUp
  <2>2. [worker[w] EXCEPT !.value = published[worker[w].job], !.pc = "STORED"] \in WorkerRows
    BY <1>3, <2>1, BusyWorker DEF LookUp, WorkerRows, PCs
  <2>3. worker' \in [Workers -> WorkerRows]
    BY <1>3, <2>2, GotoKeepsType DEF TypeOK, LookUp, PCs
  <2> QED BY <1>3, <2>3 DEF TypeOK, LookUp, Created
<1>4. CASE Acquire(w)
  <2>1. \A v \in Values : [worker[w] EXCEPT !.value = v, !.pc = "STORING"] \in WorkerRows
    BY <1>4, BusyWorker DEF Acquire, WorkerRows, PCs
  <2>2. worker' \in [Workers -> WorkerRows]
    BY <1>4, <2>1, GotoKeepsType DEF TypeOK, Acquire, PCs
  <2> QED BY <1>4, <2>2 DEF TypeOK, Acquire, Created
<1>5. CASE LoseLease(w) \/ Crash(w)
  BY <1>5, ReturnKeepsType DEF TypeOK, LoseLease, Crash, Created
<1>6. CASE Put(w)
  <2>1. worker' \in [Workers -> WorkerRows]
    BY <1>6, GotoKeepsType, ReturnKeepsType DEF Put, PCs
  <2>2. published' \in [Jobs -> Values \cup {NoValue}]
    BY <1>6, BusyWorker DEF TypeOK, Put
  <2> QED BY <1>6, <2>1, <2>2 DEF TypeOK, Put, Created
<1>7. CASE Prepare(w) \/ StageFails(w)
  <2>1. worker' \in [Workers -> WorkerRows]
    BY <1>7, GotoKeepsType DEF Prepare, StageFails, PCs
  <2> QED BY <1>7, <2>1 DEF TypeOK, Prepare, StageFails, Created
<1>8. CASE Succeed(w)
  <2>1. worker' \in [Workers -> WorkerRows]
    BY <1>8, GotoKeepsType, ReturnKeepsType DEF Succeed, PCs
  <2> DEFINE row == [rows[worker[w].job] EXCEPT
                       !.status = "SUCCEEDED", !.result = worker[w].value,
                       !.claimedBy = NoOne, !.leased = FALSE]
  <2>2. row \in Rows /\ row.status # "ABSENT"
    <3>1. rows[worker[w].job] \in Rows /\ worker[w].value \in Values \cup {NoValue}
      BY <1>8, BusyWorker DEF Succeed
    <3> QED BY <3>1 DEF Rows, Statuses, Ended
  <2>3. CASE Holds(w)
    <3>1. worker[w].job \in Jobs /\ Created(worker[w].job)
      BY <1>8, <2>3, BusyWorker DEF Succeed, Holds, Created
    <3>2. rows' = [rows EXCEPT ![worker[w].job] = row]
      BY <1>8, <2>3 DEF Succeed
    <3> HIDE DEF row
    <3>3. rows' \in [Jobs -> Rows] /\ \A j \in Jobs : Created(j)' <=> Created(j)
      BY <2>2, <3>1, <3>2, RowKeepsType
    <3> QED BY <1>8, <2>1, <3>3 DEF TypeOK, Succeed
  <2>4. CASE ~Holds(w)
    BY <1>8, <2>1, <2>4 DEF TypeOK, Succeed, Created
  <2> QED BY <2>3, <2>4
<1>9. CASE SealJournal(w)
  <2>1. worker' \in [Workers -> WorkerRows]
    BY <1>9, GotoKeepsType, ReturnKeepsType DEF SealJournal, PCs
  <2> QED BY <1>9, <2>1, BusyWorker DEF TypeOK, SealJournal, Tails, Created
<1>10. CASE CaptureFailure(w)
  <2>1. worker' \in [Workers -> WorkerRows]
    BY <1>10, GotoKeepsType, ReturnKeepsType DEF CaptureFailure, PCs
  <2> QED BY <1>10, <2>1, BusyWorker DEF TypeOK, CaptureFailure, Tails, Created
<1>11. CASE Fail(w)
  <2>1. worker' \in [Workers -> WorkerRows]
    BY <1>11, ReturnKeepsType DEF Fail
  <2> DEFINE row == [rows[worker[w].job] EXCEPT
                       !.status = "FAILED", !.claimedBy = NoOne, !.leased = FALSE]
  <2>2. row \in Rows /\ row.status # "ABSENT"
    <3>1. rows[worker[w].job] \in Rows
      BY <1>11, BusyWorker DEF Fail
    <3> QED BY <3>1 DEF Rows, Statuses, Ended
  <2>3. CASE Holds(w)
    <3>1. worker[w].job \in Jobs /\ Created(worker[w].job)
      BY <1>11, <2>3, BusyWorker DEF Fail, Holds, Created
    <3>2. rows' = [rows EXCEPT ![worker[w].job] = row]
      BY <1>11, <2>3 DEF Fail
    <3> HIDE DEF row
    <3>3. rows' \in [Jobs -> Rows] /\ \A j \in Jobs : Created(j)' <=> Created(j)
      BY <2>2, <3>1, <3>2, RowKeepsType
    <3> QED BY <1>11, <2>1, <3>3 DEF TypeOK, Fail
  <2>4. CASE ~Holds(w)
    BY <1>11, <2>1, <2>4 DEF TypeOK, Fail, Created
  <2> QED BY <2>3, <2>4
<1> QED BY <1>1, <1>2, <1>3, <1>4, <1>5, <1>6, <1>7, <1>8, <1>9, <1>10, <1>11 DEF Run

\* Every step of the system, and every stutter, keeps the types.
LEMMA TypeStep ==
    ASSUME TypeOK, [Next]_vars
    PROVE  TypeOK'
<1>1. CASE UNCHANGED vars
  BY <1>1 DEF TypeOK, vars, Created
<1>2. ASSUME NEW j \in Jobs, NEW kind \in Kinds, Enqueue(j, kind) PROVE TypeOK'
  BY <1>2, EnqueueTypes
<1>3. ASSUME NEW w \in Workers, Run(w) \/ StageFails(w) \/ Crash(w) PROVE TypeOK'
  BY <1>3, WorkerTypes, QueueStands DEF TypeOK
<1>4. ASSUME NEW j \in Jobs, Lapse(j) PROVE TypeOK'
  <2>0. rows[j] \in Rows
    BY DEF TypeOK
  <2>1. [rows[j] EXCEPT !.leased = FALSE] \in Rows
    BY <2>0 DEF Rows
  <2>2. rows' \in [Jobs -> Rows] /\ \A i \in Jobs : Created(i)' <=> Created(i)
    BY <1>4, <2>1 DEF TypeOK, Lapse, Created
  <2> QED BY <1>4, <2>2, QueueStands DEF TypeOK, Lapse
<1> QED BY <1>1, <1>2, <1>3, <1>4 DEF Next

\* A fresh store and idle workers are well-typed.
THEOREM TypeInit == Init => TypeOK
<1> SUFFICES ASSUME Init PROVE TypeOK
  OBVIOUS
<1>1. AbsentRow \in Rows
  BY DEF AbsentRow, Rows, Statuses
<1>2. queue = <<>> /\ Len(queue) = 0 /\ queue \in Seq(Jobs)
  BY DEF Init
<1>3. \A j \in Jobs : ~Created(j)
  BY DEF Init, Created, AbsentRow
<1> QED BY <1>1, <1>2, <1>3 DEF Init, TypeOK, Tails, WorkerRows

\* The queue lists every job that exists, once, and every row, journal and worker keeps
\* to what the contracts allow, whatever is enqueued, lost or repeated.
THEOREM TypeCorrect == Spec => []TypeOK
<1>1. TypeOK /\ [Next]_vars => TypeOK'
  BY TypeStep
<1> QED BY <1>1, TypeInit, PTL DEF Spec

--------------------------------------------------------------------------------
(* What a step can do to a job and to a worker *)

\* A job keeps its kind and its end; it ends, and its publication changes, only by the
\* worker that holds its lease.
JobMoves(j) ==
    /\ Created(j) => rows'[j].status # "ABSENT" /\ rows'[j].kind = rows[j].kind
    /\ rows[j].status \in Ended => rows'[j] = rows[j]
    /\ rows'[j].status = "SUCCEEDED" /\ rows[j].status # "SUCCEEDED" =>
           \E w \in Workers : /\ Succeed(w) /\ Holds(w) /\ worker[w].job = j
                             /\ rows'[j].result = worker[w].value
    /\ rows'[j].status = "FAILED" /\ rows[j].status # "FAILED" =>
           \E w \in Workers : Fail(w) /\ Holds(w) /\ worker[w].job = j
    /\ published'[j] # published[j] =>
           \E w \in Workers : /\ Put(w) /\ Holds(w) /\ worker[w].job = j
                             /\ \/ published[j] = NoValue
                                \/ published[j] = worker[w].value
                                \/ rows[j].kind = "ENVIRONMENT_VERIFY"
                             /\ published'[j] = worker[w].value

\* The fence, step by step: claim_next, succeed, fail and the publishing transaction
\* move a job forward only.
LEMMA JobsMove ==
    ASSUME TypeOK, [Next]_vars, NEW j \in Jobs
    PROVE  JobMoves(j)
<1> USE DEF JobMoves
<1>1. CASE UNCHANGED <<rows, published>>
  BY <1>1 DEF Created
<1>2. ASSUME NEW i \in Jobs, NEW kind \in Kinds, Enqueue(i, kind) PROVE JobMoves(j)
  BY <1>2 DEF TypeOK, Enqueue, Created, AbsentRow, Ended
<1>3. ASSUME NEW i \in Jobs, Lapse(i) PROVE JobMoves(j)
  BY <1>3 DEF TypeOK, Lapse, Created, Rows, Ended
<1>4. ASSUME NEW w \in Workers, NEW i \in Jobs, ClaimNext(w, i) PROVE JobMoves(j)
  BY <1>4 DEF TypeOK, ClaimNext, Claimable, Created, Rows, Ended
<1>5. ASSUME NEW w \in Workers, Put(w) PROVE JobMoves(j)
  BY <1>5, BusyWorker DEF TypeOK, Put, Created, Kind
<1>6. ASSUME NEW w \in Workers, Succeed(w) PROVE JobMoves(j)
  <2>1. CASE Holds(w)
    <3>1. rows' = [rows EXCEPT ![worker[w].job] =
              [rows[worker[w].job] EXCEPT !.status = "SUCCEEDED",
                  !.result = worker[w].value, !.claimedBy = NoOne, !.leased = FALSE]]
      BY <1>6, <2>1 DEF Succeed
    <3>2. worker[w].job \in Jobs /\ rows[worker[w].job] \in Rows
          /\ rows[worker[w].job].status = "RUNNING"
      BY <1>6, <2>1, BusyWorker DEF Succeed, Holds
    <3> QED BY <1>6, <2>1, <3>1, <3>2 DEF TypeOK, Created, Rows, Ended, Succeed
  <2>2. CASE ~Holds(w)
    BY <1>6, <2>2 DEF Succeed, Created
  <2> QED BY <2>1, <2>2
<1>7. ASSUME NEW w \in Workers, Fail(w) PROVE JobMoves(j)
  <2>1. CASE Holds(w)
    <3>1. rows' = [rows EXCEPT ![worker[w].job] =
              [rows[worker[w].job] EXCEPT !.status = "FAILED", !.claimedBy = NoOne,
                                          !.leased = FALSE]]
      BY <1>7, <2>1 DEF Fail
    <3>2. worker[w].job \in Jobs /\ rows[worker[w].job] \in Rows
          /\ rows[worker[w].job].status = "RUNNING"
      BY <1>7, <2>1, BusyWorker DEF Fail, Holds
    <3> QED BY <1>7, <2>1, <3>1, <3>2 DEF TypeOK, Created, Rows, Ended, Fail
  <2>2. CASE ~Holds(w)
    BY <1>7, <2>2 DEF Fail, Created
  <2> QED BY <2>1, <2>2
<1>8. ASSUME NEW w \in Workers,
             \/ OpenJournal(w) \/ LookUp(w) \/ Acquire(w) \/ LoseLease(w) \/ Prepare(w)
             \/ SealJournal(w) \/ CaptureFailure(w) \/ StageFails(w) \/ Crash(w)
      PROVE  UNCHANGED <<rows, published>>
  BY <1>8 DEF OpenJournal, LookUp, Acquire, LoseLease, Prepare, SealJournal,
              CaptureFailure, StageFails, Crash
<1>9. CASE UNCHANGED vars
  BY <1>1, <1>9 DEF vars
<1> QED BY <1>1, <1>2, <1>3, <1>4, <1>5, <1>6, <1>7, <1>8, <1>9 DEF Next, Run

\* A worker takes up a job only by claiming it, and nobody moves a worker but itself.
LEMMA WorkerMoves ==
    ASSUME TypeOK, [Next]_vars, NEW w \in Workers
    PROVE  \/ worker'[w] = worker[w]
           \/ worker'[w] = Idle
           \/ \E j \in Jobs : ClaimNext(w, j)
           \/ /\ worker[w].pc # "IDLE" /\ worker'[w].pc # "IDLE"
              /\ worker'[w].job = worker[w].job
              /\ Run(w) \/ StageFails(w)
<1>1. CASE UNCHANGED worker
  BY <1>1
<1>2. ASSUME NEW u \in Workers, u # w, Run(u) \/ StageFails(u) \/ Crash(u)
      PROVE  worker'[w] = worker[w]
  <2>1. ASSUME NEW row, worker' = [worker EXCEPT ![u] = row]
        PROVE  worker'[w] = worker[w]
    BY <1>2, <2>1
  <2>2. ASSUME NEW j \in Jobs, ClaimNext(u, j) PROVE worker'[w] = worker[w]
    BY <2>1, <2>2 DEF ClaimNext
  <2>3. \A pc : (Goto(u, pc) \/ Return(u)) => worker'[w] = worker[w]
    BY <2>1 DEF Goto, Return
  <2>4. CASE OpenJournal(u) \/ LookUp(u) \/ Acquire(u) \/ LoseLease(u) \/ Put(u)
    BY <2>1, <2>3, <2>4 DEF OpenJournal, LookUp, Acquire, LoseLease, Put
  <2>5. CASE \/ Prepare(u) \/ Succeed(u) \/ SealJournal(u) \/ CaptureFailure(u)
             \/ Fail(u) \/ StageFails(u) \/ Crash(u)
    BY <2>1, <2>3, <2>5
    DEF Prepare, Succeed, SealJournal, CaptureFailure, Fail, StageFails, Crash
  <2> QED BY <1>2, <2>2, <2>4, <2>5 DEF Run
<1>3. ASSUME Run(w) \/ StageFails(w) \/ Crash(w)
      PROVE  \/ worker'[w] = Idle
             \/ \E j \in Jobs : ClaimNext(w, j)
             \/ /\ worker[w].pc # "IDLE" /\ worker'[w].pc # "IDLE"
                /\ worker'[w].job = worker[w].job
                /\ Run(w) \/ StageFails(w)
  <2>1. Return(w) => worker'[w] = Idle
    BY DEF Return, TypeOK
  <2>2. ASSUME worker[w].pc # "IDLE", NEW pc \in PCs, Goto(w, pc)
        PROVE  worker'[w].pc # "IDLE" /\ worker'[w].job = worker[w].job
    BY <2>2, BusyWorker DEF Goto, TypeOK, PCs
  <2>3. CASE OpenJournal(w) \/ LoseLease(w) \/ Put(w)
    BY <1>3, <2>1, <2>2, <2>3 DEF OpenJournal, LoseLease, Put, PCs, Run
  <2>4. CASE LookUp(w)
    BY <2>2, <2>4, BusyWorker DEF LookUp, PCs, TypeOK, Run
  <2>5. CASE Acquire(w)
    <3>1. ASSUME NEW v \in Values,
                 worker' = [worker EXCEPT ![w].value = v, ![w].pc = "STORING"]
          PROVE  worker'[w].pc # "IDLE" /\ worker'[w].job = worker[w].job
      BY <2>5, <3>1, BusyWorker DEF Acquire, TypeOK
    <3>2. Goto(w, "FAILING") => worker'[w].pc # "IDLE" /\ worker'[w].job = worker[w].job
      BY <2>2, <2>5 DEF Acquire, PCs
    <3> QED BY <2>5, <3>1, <3>2 DEF Acquire, Run
  <2>6. CASE Prepare(w) \/ Succeed(w) \/ SealJournal(w)
    BY <2>1, <2>2, <2>6 DEF Prepare, Succeed, SealJournal, PCs, Run
  <2>7. CASE CaptureFailure(w) \/ Fail(w) \/ StageFails(w) \/ Crash(w)
    BY <2>1, <2>2, <2>7 DEF CaptureFailure, Fail, StageFails, Crash, PCs, Run
  <2> QED BY <1>3, <2>3, <2>4, <2>5, <2>6, <2>7 DEF Run
<1>4. ASSUME NEW j \in Jobs, Lapse(j) \/ \E kind \in Kinds : Enqueue(j, kind)
      PROVE  UNCHANGED worker
  BY <1>4 DEF Lapse, Enqueue
<1> QED BY <1>1, <1>2, <1>3, <1>4 DEF Next, vars

\* A lease is held by the claim that took it: no step gives back what lapsed.
LEMMA HolderMoves ==
    ASSUME TypeOK, [Next]_vars, NEW w \in Workers, worker'[w].pc # "IDLE", Holds(w)'
    PROVE  \/ \E j \in Jobs : ClaimNext(w, j)
           \/ /\ worker[w].pc # "IDLE" /\ Holds(w)
              /\ worker'[w].job = worker[w].job
              /\ worker'[w] = worker[w] \/ Run(w) \/ StageFails(w)
<1>1. CASE \E j \in Jobs : ClaimNext(w, j)
  BY <1>1
<1>2. CASE ~\E j \in Jobs : ClaimNext(w, j)
  <2> DEFINE j == worker[w].job
  <2>1. /\ worker[w].pc # "IDLE" /\ worker'[w].job = j
        /\ worker'[w] = worker[w] \/ Run(w) \/ StageFails(w)
    BY <1>2, WorkerMoves DEF Idle
  <2>2. j \in Jobs
    BY <2>1, BusyWorker
  <2>3. /\ rows'[j].status = "RUNNING" /\ rows'[j].claimedBy = w /\ rows'[j].leased
    BY <2>1 DEF Holds
  <2> HIDE DEF j
  <2>4. rows[j].status = "RUNNING" /\ rows[j].claimedBy = w /\ rows[j].leased
    <3>1. CASE rows'[j] = rows[j]
      BY <2>3, <3>1
    <3>2. ASSUME NEW i \in Jobs, NEW kind \in Kinds, Enqueue(i, kind)
          PROVE  rows'[j] = rows[j]
      BY <2>2, <2>3, <3>2 DEF TypeOK, Enqueue, AbsentRow
    <3>3. ASSUME NEW i \in Jobs, Lapse(i) PROVE rows'[j] = rows[j]
      BY <2>2, <2>3, <3>3 DEF TypeOK, Lapse, Rows
    <3>4. ASSUME NEW u \in Workers, NEW i \in Jobs, ClaimNext(u, i)
          PROVE  rows'[j] = rows[j]
      <4>1. u # w
        BY <1>2, <3>4
      <4>2. i = j => rows'[j].claimedBy = u
        BY <2>2, <3>4 DEF TypeOK, ClaimNext, Rows
      <4> QED BY <2>2, <2>3, <3>4, <4>1, <4>2 DEF TypeOK, ClaimNext
    <3>5. ASSUME NEW u \in Workers, Succeed(u) \/ Fail(u)
          PROVE  rows'[j] = rows[j]
      <4>1. CASE UNCHANGED rows
        BY <4>1
      <4>2. ASSUME NEW row,
                   rows' = [rows EXCEPT ![worker[u].job] = row], row.status \in Ended
            PROVE  rows'[j] = rows[j]
        BY <2>2, <2>3, <4>2 DEF TypeOK, Ended
      <4>3. ASSUME Holds(u)
            PROVE  \E row : /\ rows' = [rows EXCEPT ![worker[u].job] = row]
                            /\ row.status \in Ended
        <5>1. rows[worker[u].job] \in Rows
          BY <3>5, BusyWorker DEF Succeed, Fail
        <5> DEFINE good == [rows[worker[u].job] EXCEPT
                              !.status = "SUCCEEDED", !.result = worker[u].value,
                              !.claimedBy = NoOne, !.leased = FALSE]
                   bad == [rows[worker[u].job] EXCEPT
                              !.status = "FAILED", !.claimedBy = NoOne, !.leased = FALSE]
        <5>2. good.status \in Ended /\ bad.status \in Ended
          BY <5>1 DEF Rows, Ended
        <5>3. \/ rows' = [rows EXCEPT ![worker[u].job] = good]
              \/ rows' = [rows EXCEPT ![worker[u].job] = bad]
          BY <3>5, <4>3 DEF Succeed, Fail
        <5> HIDE DEF good, bad
        <5> QED BY <5>2, <5>3
      <4> QED BY <3>5, <4>1, <4>2, <4>3 DEF Succeed, Fail
    <3>6. ASSUME NEW u \in Workers,
                 \/ OpenJournal(u) \/ LookUp(u) \/ Acquire(u) \/ LoseLease(u) \/ Put(u)
                 \/ Prepare(u) \/ SealJournal(u) \/ CaptureFailure(u) \/ StageFails(u)
                 \/ Crash(u)
          PROVE  rows'[j] = rows[j]
      BY <3>6 DEF OpenJournal, LookUp, Acquire, LoseLease, Put, Prepare, SealJournal,
                  CaptureFailure, StageFails, Crash
    <3> QED BY <3>1, <3>2, <3>3, <3>4, <3>5, <3>6 DEF Next, Run, vars
  <2> QED BY <2>1, <2>4 DEF Holds, j
<1> QED BY <1>1, <1>2

--------------------------------------------------------------------------------
(* The inductive invariant *)

\* The holder carries what is published, once it has found or stored it.
Carried ==
    \A w \in Workers :
        worker[w].pc \in {"STORED", "SUCCEEDING"} /\ Holds(w) =>
            worker[w].value = published[worker[w].job] /\ worker[w].value # NoValue

\* An attempt stores something, a job that is worked on exists, and the last steps of
\* an attempt follow from the ones before, even when it has lost its lease.
Attested ==
    \A w \in Workers :
        /\ worker[w].pc = "STORING" => worker[w].value # NoValue
        /\ worker[w].pc # "IDLE" => Created(worker[w].job)
        /\ worker[w].pc = "SEALING" =>
               rows[worker[w].job].status = "SUCCEEDED" /\ Diagnosing(w)
        /\ worker[w].pc = "REPORTING" /\ Diagnosing(w) =>
               journal[worker[w].job] = "FAILED"

IInv ==
    /\ TypeOK
    /\ HolderIsFirst
    /\ Carried
    /\ Attested
    /\ ResultIsPublished
    /\ JournalIsTrue

\* The publication of a job that a worker holds changes only by that worker's Put.
LEMMA HolderPublishes ==
    ASSUME TypeOK, [Next]_vars, NEW w \in Workers, worker[w].pc # "IDLE", Holds(w),
           published'[worker[w].job] # published[worker[w].job]
    PROVE  Put(w) /\ published'[worker[w].job] = worker[w].value
<1>1. worker[w].job \in Jobs
  BY BusyWorker
<1>2. PICK u \in Workers : /\ Put(u) /\ Holds(u) /\ worker[u].job = worker[w].job
                           /\ published'[worker[w].job] = worker[u].value
  BY <1>1, JobsMove DEF JobMoves
<1>3. u = w
  BY <1>2 DEF Holds
<1> QED BY <1>2, <1>3

\* A step keeps the holder first: it computes only after it has looked.
LEMMA FirstStepOfHolder ==
    ASSUME IInv, [Next]_vars
    PROVE  HolderIsFirst'
<1> USE DEF IInv
<1> SUFFICES ASSUME NEW w \in Workers, worker'[w].pc \in {"ACQUIRING", "STORING"},
                    rows'[worker'[w].job].kind # "ENVIRONMENT_VERIFY", Holds(w)'
             PROVE  published'[worker'[w].job] = NoValue
  BY DEF HolderIsFirst, Kind
<1>1. ASSUME NEW j \in Jobs, ClaimNext(w, j) PROVE FALSE
  <2>1. worker'[w] = [pc |-> FirstStep[rows[j].kind], job |-> j, value |-> NoValue]
        /\ rows'[j].kind = rows[j].kind
    BY <1>1 DEF ClaimNext, TypeOK, Rows
  <2>2. rows[j].kind \in {"DIAGNOSIS", "BASELINE_BUILD", "ENVIRONMENT_VERIFY"}
    BY KindsAssumption DEF TypeOK, Rows
  <2>3. FirstStep["DIAGNOSIS"] = "OPENING" /\ FirstStep["BASELINE_BUILD"] = "LOOKING"
    BY DEF FirstStep
  <2> QED BY <2>1, <2>2, <2>3
<1>2. /\ worker[w].pc # "IDLE" /\ Holds(w) /\ worker'[w].job = worker[w].job
      /\ worker'[w] = worker[w] \/ Run(w) \/ StageFails(w)
  BY <1>1, HolderMoves
<1> DEFINE j == worker[w].job
<1>3. j \in Jobs /\ Created(j) /\ rows'[j].kind = rows[j].kind
  BY <1>2, BusyWorker, JobsMove DEF Attested, JobMoves
<1>4. CASE worker'[w] = worker[w]
  <2>1. published[j] = NoValue
    BY <1>2, <1>3, <1>4 DEF HolderIsFirst, Kind
  <2>2. ~Put(w)
    <3>1. Put(w) => \E pc \in {"STORED", "SUCCEEDING", "FAILING"} : Goto(w, pc) \/ Return(w)
      BY DEF Put
    <3> QED BY <1>2, <1>4, <3>1 DEF Put, Goto, Return, Idle, TypeOK, WorkerRows
  <2> QED BY <1>2, <2>1, <2>2, HolderPublishes
<1>5. CASE worker'[w] # worker[w]
  <2>1. \A pc : Goto(w, pc) => worker'[w].pc = pc
    BY <1>2, BusyWorker DEF Goto, TypeOK
  <2>2. Return(w) => worker'[w].pc = "IDLE"
    BY DEF Return, TypeOK, Idle
  <2>3. LookUp(w) \/ Acquire(w)
    <3>1. ~(OpenJournal(w) \/ LoseLease(w) \/ Put(w) \/ Prepare(w) \/ Succeed(w))
      BY <2>1, <2>2 DEF OpenJournal, LoseLease, Put, Prepare, Succeed
    <3>2. ~(SealJournal(w) \/ CaptureFailure(w) \/ Fail(w) \/ StageFails(w))
      BY <2>1, <2>2 DEF SealJournal, CaptureFailure, Fail, StageFails
    <3> QED BY <1>1, <1>2, <1>5, <3>1, <3>2 DEF Run
  <2>4. published' = published
    BY <2>3 DEF LookUp, Acquire
  <2>5. CASE LookUp(w)
    <3>1. published[j] # NoValue => worker'[w].pc = "STORED"
      BY <1>2, <2>5, BusyWorker DEF LookUp, TypeOK
    <3> QED BY <1>2, <2>4, <3>1
  <2>6. CASE Acquire(w)
    BY <1>2, <1>3, <2>4, <2>6 DEF Acquire, HolderIsFirst, Kind
  <2> QED BY <2>3, <2>5, <2>6
<1> QED BY <1>4, <1>5

\* A step keeps the holder's value the published one.
LEMMA CarriedStep ==
    ASSUME IInv, [Next]_vars
    PROVE  Carried'
<1> USE DEF IInv
<1> SUFFICES ASSUME NEW w \in Workers, worker'[w].pc \in {"STORED", "SUCCEEDING"},
                    Holds(w)'
             PROVE  /\ worker'[w].value = published'[worker'[w].job]
                    /\ worker'[w].value # NoValue
  BY DEF Carried
<1>1. ASSUME NEW j \in Jobs, ClaimNext(w, j) PROVE FALSE
  <2>1. worker'[w].pc = FirstStep[rows[j].kind]
    BY <1>1 DEF ClaimNext, TypeOK
  <2>2. rows[j].kind \in {"DIAGNOSIS", "BASELINE_BUILD", "ENVIRONMENT_VERIFY"}
    BY KindsAssumption DEF TypeOK, Rows
  <2>3. /\ FirstStep["DIAGNOSIS"] = "OPENING" /\ FirstStep["BASELINE_BUILD"] = "LOOKING"
        /\ FirstStep["ENVIRONMENT_VERIFY"] = "ACQUIRING"
    BY DEF FirstStep
  <2> QED BY <2>1, <2>2, <2>3
<1>2. /\ worker[w].pc # "IDLE" /\ Holds(w) /\ worker'[w].job = worker[w].job
      /\ worker'[w] = worker[w] \/ Run(w) \/ StageFails(w)
  BY <1>1, HolderMoves
<1> DEFINE j == worker[w].job
<1>3. j \in Jobs
  BY <1>2, BusyWorker
<1>4. \A pc : Goto(w, pc) => worker'[w].pc = pc /\ worker'[w].value = worker[w].value
  BY <1>2, BusyWorker DEF Goto, TypeOK
<1>5. Return(w) => worker'[w].pc = "IDLE"
  BY DEF Return, TypeOK, Idle
<1>6. CASE Put(w)
  <2>1. worker[w].value # NoValue
    BY <1>6 DEF Put, Attested
  <2>2. published' = [published EXCEPT ![j] = worker[w].value] \/ worker'[w].pc = "FAILING"
    BY <1>2, <1>4, <1>6 DEF Put
  <2>3. worker'[w].value = worker[w].value
    BY <1>2, <1>4, <1>6 DEF Put
  <2> QED BY <1>2, <1>3, <2>1, <2>2, <2>3 DEF TypeOK
<1>7. CASE ~Put(w)
  <2>1. published'[j] = published[j]
    BY <1>2, <1>7, HolderPublishes
  <2>2. CASE worker'[w] = worker[w]
    BY <1>2, <2>1, <2>2 DEF Carried
  <2>3. CASE LookUp(w)
    BY <1>2, <1>4, <2>1, <2>3, BusyWorker DEF LookUp, TypeOK
  <2>4. CASE Prepare(w)
    BY <1>2, <1>4, <2>1, <2>4 DEF Prepare, Carried
  <2>5. CASE Acquire(w)
    <3>1. ASSUME NEW v \in Values,
                 worker' = [worker EXCEPT ![w].value = v, ![w].pc = "STORING"]
          PROVE  worker'[w].pc = "STORING"
      BY <1>2, <3>1, BusyWorker DEF TypeOK
    <3>2. worker'[w].pc \in {"STORING", "FAILING"}
      BY <1>4, <2>5, <3>1 DEF Acquire
    <3> QED BY <3>2
  <2>6. ~(OpenJournal(w) \/ LoseLease(w) \/ Succeed(w))
    BY <1>4, <1>5 DEF OpenJournal, LoseLease, Succeed
  <2>7. ~(SealJournal(w) \/ CaptureFailure(w) \/ Fail(w) \/ StageFails(w))
    BY <1>4, <1>5 DEF SealJournal, CaptureFailure, Fail, StageFails
  <2> QED BY <1>1, <1>2, <1>7, <2>2, <2>3, <2>4, <2>5, <2>6, <2>7 DEF Run
<1> QED BY <1>6, <1>7

\* The result a job succeeds with is the one published, and nothing is published after.
LEMMA ResultStep ==
    ASSUME IInv, [Next]_vars
    PROVE  ResultIsPublished'
<1> USE DEF IInv
<1> SUFFICES ASSUME NEW j \in Jobs, rows'[j].status = "SUCCEEDED"
             PROVE  rows'[j].result # NoValue /\ rows'[j].result = published'[j]
  BY DEF ResultIsPublished
<1>0. JobMoves(j)
  BY JobsMove
<1>1. CASE rows[j].status = "SUCCEEDED"
  <2>1. rows'[j] = rows[j]
    BY <1>0, <1>1 DEF JobMoves, Ended
  <2>2. published'[j] = published[j]
    BY <1>0, <1>1 DEF JobMoves, Holds
  <2> QED BY <1>1, <2>1, <2>2 DEF ResultIsPublished
<1>2. CASE rows[j].status # "SUCCEEDED"
  <2>1. PICK w \in Workers : /\ Succeed(w) /\ Holds(w) /\ worker[w].job = j
                             /\ rows'[j].result = worker[w].value
    BY <1>0, <1>2 DEF JobMoves
  <2>2. worker[w].value = published[j] /\ worker[w].value # NoValue
    BY <2>1 DEF Succeed, Carried
  <2>3. published' = published
    BY <2>1 DEF Succeed
  <2> QED BY <2>1, <2>2, <2>3
<1> QED BY <1>1, <1>2

\* A closed journal stays as it is, and closes only by its last event.
LEMMA JournalMoves ==
    ASSUME TypeOK, [Next]_vars, NEW j \in Jobs, journal'[j] # journal[j]
    PROVE  /\ journal[j] \in {"EMPTY", "OPEN"}
           /\ journal'[j] = "PASSED" =>
                  \E w \in Workers : SealJournal(w) /\ worker[w].job = j
<1>1. PICK w \in Workers : OpenJournal(w) \/ SealJournal(w) \/ CaptureFailure(w)
  <2>1. ASSUME NEW w \in Workers, NEW i \in Jobs, ClaimNext(w, i) PROVE FALSE
    BY <2>1 DEF ClaimNext
  <2>2. ASSUME NEW w \in Workers,
               \/ LookUp(w) \/ Acquire(w) \/ LoseLease(w) \/ Put(w) \/ Prepare(w)
               \/ Succeed(w) \/ Fail(w) \/ StageFails(w) \/ Crash(w)
        PROVE  FALSE
    BY <2>2 DEF LookUp, Acquire, LoseLease, Put, Prepare, Succeed, Fail, StageFails,
                Crash
  <2>3. ASSUME NEW i \in Jobs, Lapse(i) \/ \E kind \in Kinds : Enqueue(i, kind)
        PROVE  FALSE
    BY <2>3 DEF Lapse, Enqueue
  <2> QED BY <2>1, <2>2, <2>3 DEF Next, Run, vars
<1>2. worker[w].pc # "IDLE" /\ worker[w].job \in Jobs
  BY <1>1, BusyWorker DEF OpenJournal, SealJournal, CaptureFailure
<1>3. worker[w].job = j /\ ~Sealed(j)
  BY <1>1, <1>2 DEF OpenJournal, SealJournal, CaptureFailure, TypeOK
<1>4. journal[j] \in {"EMPTY", "OPEN"}
  BY <1>3 DEF Sealed, TypeOK, Tails
<1>5. journal'[j] = "PASSED" => SealJournal(w)
  BY <1>1, <1>2, <1>3 DEF OpenJournal, CaptureFailure, TypeOK
<1> QED BY <1>3, <1>4, <1>5

\* The last steps of an attempt rest on the ones before, whatever others do meanwhile.
LEMMA AttestedStep ==
    ASSUME IInv, [Next]_vars
    PROVE  Attested'
<1> USE DEF IInv
<1> SUFFICES ASSUME NEW w \in Workers, worker'[w].pc # "IDLE"
             PROVE  /\ worker'[w].pc = "STORING" => worker'[w].value # NoValue
                    /\ rows'[worker'[w].job].status # "ABSENT"
                    /\ worker'[w].pc = "SEALING" =>
                           /\ rows'[worker'[w].job].status = "SUCCEEDED"
                           /\ rows'[worker'[w].job].kind = "DIAGNOSIS"
                    /\ worker'[w].pc = "REPORTING"
                       /\ rows'[worker'[w].job].kind = "DIAGNOSIS" =>
                           journal'[worker'[w].job] = "FAILED"
  BY DEF Attested, Diagnosing, Kind, Created
<1>1. CASE \E j \in Jobs : ClaimNext(w, j)
  <2>1. PICK j \in Jobs : ClaimNext(w, j)
    BY <1>1
  <2>2. worker'[w] = [pc |-> FirstStep[rows[j].kind], job |-> j, value |-> NoValue]
    BY <2>1 DEF ClaimNext, TypeOK
  <2>3. rows[j].kind \in {"DIAGNOSIS", "BASELINE_BUILD", "ENVIRONMENT_VERIFY"}
    BY KindsAssumption DEF TypeOK, Rows
  <2>4. /\ FirstStep["DIAGNOSIS"] = "OPENING" /\ FirstStep["BASELINE_BUILD"] = "LOOKING"
        /\ FirstStep["ENVIRONMENT_VERIFY"] = "ACQUIRING"
    BY DEF FirstStep
  <2>5. rows'[j].status # "ABSENT"
    BY <2>1 DEF ClaimNext, TypeOK, Rows
  <2> QED BY <2>2, <2>3, <2>4, <2>5
<1>2. CASE ~\E j \in Jobs : ClaimNext(w, j)
  <2> DEFINE j == worker[w].job
  <2>1. /\ worker[w].pc # "IDLE" /\ worker'[w].job = j
        /\ worker'[w] = worker[w] \/ Run(w) \/ StageFails(w)
    BY <1>2, WorkerMoves DEF Idle
  <2>2. j \in Jobs /\ Created(j) /\ JobMoves(j)
    BY <2>1, BusyWorker, JobsMove DEF Attested
  <2>3. rows'[j].status # "ABSENT" /\ rows'[j].kind = rows[j].kind
    BY <2>2 DEF JobMoves
  <2>4. journal[j] = "FAILED" => journal'[j] = "FAILED"
    BY <2>2, JournalMoves
  <2>5. rows[j].status = "SUCCEEDED" => rows'[j].status = "SUCCEEDED"
    BY <2>2 DEF JobMoves, Ended
  <2>6. CASE worker'[w] = worker[w]
    BY <2>1, <2>3, <2>4, <2>5, <2>6 DEF Attested, Diagnosing, Kind
  <2>7. \A pc : Goto(w, pc) => worker'[w].pc = pc
    BY <2>1, BusyWorker DEF Goto, TypeOK
  <2>8. ~Return(w)
    BY DEF Return, TypeOK, Idle
  <2>9. CASE Acquire(w)
    <3>1. ASSUME NEW v \in Values,
                 worker' = [worker EXCEPT ![w].value = v, ![w].pc = "STORING"]
          PROVE  worker'[w].pc = "STORING" /\ worker'[w].value # NoValue
      BY <2>1, <3>1, BusyWorker, NamesAssumption DEF TypeOK
    <3>2. Goto(w, "FAILING") => worker'[w].pc = "FAILING"
      BY <2>7
    <3> QED BY <2>1, <2>3, <2>9, <3>1, <3>2 DEF Acquire
  <2>10. CASE LookUp(w)
    <3>1. worker'[w].pc \in {"STORED", "ACQUIRING"}
      BY <2>1, <2>7, <2>10, BusyWorker DEF LookUp, TypeOK
    <3> QED BY <2>1, <2>3, <3>1
  <2>11. CASE Succeed(w)
    <3>1. Holds(w) /\ Diagnosing(w) /\ worker'[w].pc = "SEALING"
      BY <2>7, <2>8, <2>11 DEF Succeed
    <3>2. rows'[j].status = "SUCCEEDED"
      BY <2>2, <2>11, <3>1 DEF Succeed, TypeOK, Rows
    <3> QED BY <2>1, <2>3, <3>1, <3>2 DEF Diagnosing, Kind
  <2>12. CASE CaptureFailure(w)
    <3>1. worker'[w].pc = "REPORTING"
      BY <2>7, <2>8, <2>12 DEF CaptureFailure
    <3>2. Diagnosing(w) => journal'[j] = "FAILED"
      BY <2>2, <2>8, <2>12 DEF CaptureFailure, TypeOK
    <3> QED BY <2>1, <2>3, <3>1, <3>2 DEF Diagnosing, Kind
  <2>13. CASE OpenJournal(w) \/ LoseLease(w) \/ Put(w) \/ Prepare(w)
    <3>1. worker'[w].pc \in {"LOOKING", "STORED", "SUCCEEDING", "FAILING"}
      BY <2>7, <2>8, <2>13 DEF OpenJournal, LoseLease, Put, Prepare
    <3> QED BY <2>1, <2>3, <3>1
  <2>14. CASE SealJournal(w) \/ Fail(w) \/ StageFails(w)
    <3>1. worker'[w].pc = "FAILING"
      BY <2>7, <2>8, <2>14 DEF SealJournal, Fail, StageFails
    <3> QED BY <2>1, <2>3, <3>1
  <2> QED BY <1>2, <2>1, <2>6, <2>9, <2>10, <2>11, <2>12, <2>13, <2>14 DEF Run
<1> QED BY <1>1, <1>2

\* Journals stay true: one passes after its job succeeded, and a diagnosis fails after its
\* journal did.
LEMMA JournalStep ==
    ASSUME IInv, [Next]_vars
    PROVE  JournalIsTrue'
<1> USE DEF IInv
<1> SUFFICES ASSUME NEW j \in Jobs
             PROVE  /\ journal'[j] = "PASSED" => rows'[j].status = "SUCCEEDED"
                    /\ rows'[j].kind = "DIAGNOSIS" /\ rows'[j].status = "FAILED"
                       => journal'[j] = "FAILED"
  BY DEF JournalIsTrue
<1>0. JobMoves(j)
  BY JobsMove
<1>1. ASSUME journal'[j] = "PASSED" PROVE rows'[j].status = "SUCCEEDED"
  <2>1. rows[j].status = "SUCCEEDED"
    BY <1>1, JournalMoves DEF JournalIsTrue, SealJournal, Attested
  <2> QED BY <1>0, <2>1 DEF JobMoves, Ended
<1>2. ASSUME rows'[j].kind = "DIAGNOSIS", rows'[j].status = "FAILED"
      PROVE  journal'[j] = "FAILED"
  <2>1. CASE rows[j].status = "FAILED"
    <3>1. journal[j] = "FAILED"
      BY <1>0, <1>2, <2>1 DEF JobMoves, Ended, JournalIsTrue
    <3> QED BY <3>1, JournalMoves
  <2>2. CASE rows[j].status # "FAILED"
    <3>1. PICK w \in Workers : Fail(w) /\ Holds(w) /\ worker[w].job = j
      BY <1>0, <1>2, <2>2 DEF JobMoves
    <3>2. Diagnosing(w)
      BY <1>0, <1>2, <3>1 DEF JobMoves, Diagnosing, Kind, Holds, Created
    <3> QED BY <3>1, <3>2 DEF Fail, Attested
  <2> QED BY <2>1, <2>2
<1> QED BY <1>1, <1>2

\* The inductive invariant holds in every reachable state.
THEOREM InvariantHolds == Spec => []IInv
<1>1. Init => IInv
  <2> SUFFICES ASSUME Init PROVE IInv
    OBVIOUS
  <2>1. \A w \in Workers : worker[w].pc = "IDLE"
    BY DEF Init, Idle
  <2>2. \A j \in Jobs : rows[j].status = "ABSENT" /\ journal[j] = "EMPTY"
    BY DEF Init, AbsentRow
  <2> QED BY <2>1, <2>2, TypeInit
          DEF IInv, HolderIsFirst, Carried, Attested, ResultIsPublished, JournalIsTrue
<1>2. IInv /\ [Next]_vars => IInv'
  BY TypeStep, FirstStepOfHolder, CarriedStep, AttestedStep, ResultStep, JournalStep
  DEF IInv
<1> QED BY <1>1, <1>2, PTL DEF Spec

\* DIAGNOSIS_IMMUTABLE_CONFLICT never strikes the attempt that holds the lease, with any
\* number of earlier attempts still running.
THEOREM HolderStaysFirst == Spec => []HolderIsFirst
<1>1. IInv => HolderIsFirst
  BY DEF IInv
<1> QED BY <1>1, InvariantHolds, PTL

\* What GET /v1/jobs shows as the result of a job is what is published under it.
THEOREM ResultsAgree == Spec => []ResultIsPublished
<1>1. IInv => ResultIsPublished
  BY DEF IInv
<1> QED BY <1>1, InvariantHolds, PTL

\* A passed journal is of a job that succeeded, and a failed diagnosis has a failed one.
THEOREM JournalsAreTrue == Spec => []JournalIsTrue
<1>1. IInv => JournalIsTrue
  BY DEF IInv
<1> QED BY <1>1, InvariantHolds, PTL

\* Commit-time fencing: only the worker that claimed the job last publishes or ends it,
\* and only under its live lease.
THEOREM OldAttemptsAreSilent == Spec => OldAttemptIsSilent
<1> DEFINE Silent == \A j \in Jobs :
             \/ published'[j] # published[j]
             \/ rows'[j].status \in Ended /\ rows[j].status \notin Ended
             => /\ rows[j].leased
                /\ worker[rows[j].claimedBy].job = j
                /\ worker'[rows[j].claimedBy] # worker[rows[j].claimedBy]
<1>1. TypeOK /\ [Next]_vars => [Silent]_vars
  <2> SUFFICES ASSUME TypeOK, [Next]_vars, NEW j \in Jobs,
                      \/ published'[j] # published[j]
                      \/ rows'[j].status \in Ended /\ rows[j].status \notin Ended
               PROVE  /\ rows[j].leased
                      /\ worker[rows[j].claimedBy].job = j
                      /\ worker'[rows[j].claimedBy] # worker[rows[j].claimedBy]
    OBVIOUS
  <2>1. PICK w \in Workers : /\ Put(w) \/ Succeed(w) \/ Fail(w)
                             /\ Holds(w) /\ worker[w].job = j
    BY JobsMove DEF JobMoves, Ended
  <2>2. \A pc : Goto(w, pc) => worker'[w].pc = pc
    BY <2>1, BusyWorker DEF Goto, TypeOK, Put, Succeed, Fail
  <2>3. Return(w) => worker'[w].pc = "IDLE"
    BY DEF Return, TypeOK, Idle
  <2>4. worker'[w] # worker[w]
    BY <2>1, <2>2, <2>3 DEF Put, Succeed, Fail
  <2> QED BY <2>1, <2>4 DEF Holds
<1> HIDE DEF Silent
<1>2. []TypeOK /\ [][Next]_vars => [][Silent]_vars
  BY <1>1, PTL
<1> QED BY <1>2, TypeCorrect, PTL DEF Spec, OldAttemptIsSilent, Silent

\* What is published stays, and so does the end of a job: earlier attempts that are still
\* running overwrite neither.  A verified environment may be replaced until its job ends.
THEOREM PublishedStays == Spec => PublishedOnce
<1> DEFINE Once == \A j \in Jobs :
             /\ published[j] # NoValue /\ published'[j] # published[j]
                => rows[j].kind = "ENVIRONMENT_VERIFY" /\ rows[j].status = "RUNNING"
             /\ rows[j].status \in Ended => rows'[j] = rows[j]
<1>1. TypeOK /\ [Next]_vars => [Once]_vars
  <2> SUFFICES ASSUME TypeOK, [Next]_vars PROVE Once
    OBVIOUS
  <2> QED BY JobsMove DEF JobMoves, Holds
<1> HIDE DEF Once
<1>2. []TypeOK /\ [][Next]_vars => [][Once]_vars
  BY <1>1, PTL
<1> QED BY <1>2, TypeCorrect, PTL DEF Spec, PublishedOnce, Once

--------------------------------------------------------------------------------
(* The refinement of JobOutcomes *)

\* A job names no result before it succeeds.
NothingShown == \A j \in Jobs : rows[j].status # "SUCCEEDED" => rows[j].result = NoValue

\* A function that is given another value at one point.
LEMMA PointChanged ==
    ASSUME NEW S, NEW F, NEW G, NEW j \in S, NEW v,
           F = [i \in S |-> F[i]], G = [i \in S |-> G[i]],
           G[j] = v, \A i \in S \ {j} : G[i] = F[i]
    PROVE  /\ G = [F EXCEPT ![j] = v]
           /\ v = F[j] => G = F
OBVIOUS

\* A row is replaced: what the client finds of the other jobs stays.
LEMMA RowReplaced ==
    ASSUME TypeOK, NEW j \in Jobs, NEW row \in Rows, rows' = [rows EXCEPT ![j] = row]
    PROVE  /\ Stage' = [Stage EXCEPT ![j] = StageOf[row.status]]
           /\ StageOf[row.status] = StageOf[rows[j].status] => Stage' = Stage
           /\ Shown' = [Shown EXCEPT ![j] = row.result]
           /\ row.result = rows[j].result => Shown' = Shown
           /\ NothingShown /\ (row.status # "SUCCEEDED" => row.result = NoValue) => NothingShown'
           /\ row.status # "ABSENT" /\ rows[j].status # "ABSENT" /\ row.kind = rows[j].kind
              => Revisable' = Revisable
           /\ rows[j].status = "ABSENT" => Revisable' \in {Revisable, Revisable \cup {j}}
<1>1. rows'[j] = row /\ \A i \in Jobs \ {j} : rows'[i] = rows[i]
  BY DEF TypeOK
<1>2. /\ Stage' = [Stage EXCEPT ![j] = StageOf[row.status]]
      /\ StageOf[row.status] = StageOf[rows[j].status] => Stage' = Stage
  <2>1. /\ Stage = [i \in Jobs |-> Stage[i]] /\ Stage' = [i \in Jobs |-> Stage'[i]]
        /\ Stage[j] = StageOf[rows[j].status] /\ Stage'[j] = StageOf[row.status]
        /\ \A i \in Jobs \ {j} : Stage'[i] = Stage[i]
    BY <1>1 DEF Stage, StageOf
  <2> QED
    BY <2>1, PointChanged
<1>3. /\ Shown' = [Shown EXCEPT ![j] = row.result]
      /\ row.result = rows[j].result => Shown' = Shown
  <2>1. /\ Shown = [i \in Jobs |-> Shown[i]] /\ Shown' = [i \in Jobs |-> Shown'[i]]
        /\ Shown[j] = rows[j].result /\ Shown'[j] = row.result
        /\ \A i \in Jobs \ {j} : Shown'[i] = Shown[i]
    BY <1>1 DEF Shown
  <2> QED
    BY <2>1, PointChanged
<1>4. NothingShown /\ (row.status # "SUCCEEDED" => row.result = NoValue) => NothingShown'
  BY <1>1 DEF NothingShown
<1>5. /\ row.status # "ABSENT" /\ rows[j].status # "ABSENT" /\ row.kind = rows[j].kind
         => Revisable' = Revisable
      /\ rows[j].status = "ABSENT" => Revisable' \in {Revisable, Revisable \cup {j}}
  BY <1>1 DEF Revisable, Created
<1> QED
  BY <1>2, <1>3, <1>4, <1>5

\* A row that changes neither its stage, nor its kind, nor its result is the same to a
\* client.
LEMMA SameToClient ==
    ASSUME TypeOK, NothingShown, NEW j \in Jobs, NEW row \in Rows,
           rows' = [rows EXCEPT ![j] = row], row.kind = rows[j].kind,
           row.result = rows[j].result, {row.status, rows[j].status} \subseteq {"PENDING", "RUNNING"}
    PROVE  UNCHANGED <<Stage, Revisable, Shown>> /\ NothingShown'
<1>1. StageOf[row.status] = StageOf[rows[j].status]
  BY DEF StageOf
<1>2. row.result = NoValue
  BY DEF NothingShown
<1> QED
  BY <1>1, <1>2, RowReplaced

\* The fields of a row that is written.
LEMMA RowWritten ==
    ASSUME NEW row \in Rows, NEW new
    PROVE  /\ \A w \in Workers :
                  new = [row EXCEPT !.status = "RUNNING", !.claimedBy = w, !.leased = TRUE] =>
                  /\ new \in Rows /\ new.status = "RUNNING"
                  /\ new.kind = row.kind /\ new.result = row.result
           /\ new = [row EXCEPT !.status = "FAILED", !.claimedBy = NoOne, !.leased = FALSE] =>
                  /\ new \in Rows /\ new.status = "FAILED"
                  /\ new.kind = row.kind /\ new.result = row.result
           /\ new = [row EXCEPT !.leased = FALSE] =>
                  /\ new \in Rows /\ new.status = row.status
                  /\ new.kind = row.kind /\ new.result = row.result
BY DEF Rows, Statuses, Ended

\* Each step of the queue, the workers and the clock is one of JobOutcomes or a stutter.
LEMMA OutcomeStep ==
    ASSUME IInv, NothingShown, [Next]_vars
    PROVE  /\ NothingShown'
           /\ Outcomes!Next \/ UNCHANGED <<Stage, Revisable, published, Shown>>
<1> DEFINE Good == /\ NothingShown'
                   /\ Outcomes!Next \/ UNCHANGED <<Stage, Revisable, published, Shown>>
<1>1. TypeOK /\ rows \in [Jobs -> Rows]
  BY DEF IInv, TypeOK
<1>2. CASE UNCHANGED <<rows, published>>
  BY <1>2 DEF NothingShown, Stage, Revisable, Shown, Created
<1>3. ASSUME NEW j \in Jobs, NEW kind \in Kinds, Enqueue(j, kind) PROVE Good
  <2> PICK row : row = [AbsentRow EXCEPT !.status = "PENDING", !.kind = kind]
    OBVIOUS
  <2>0. row \in Rows /\ row.status = "PENDING" /\ row.result = NoValue
    BY DEF AbsentRow, Rows, Statuses
  <2>1. rows' = [rows EXCEPT ![j] = row] /\ UNCHANGED published /\ rows[j].status = "ABSENT"
    BY <1>3 DEF Enqueue, Created
  <2>2. /\ Stage' = [Stage EXCEPT ![j] = "open"] /\ Stage[j] = "none"
    <3>1. StageOf[row.status] = "open" /\ Stage[j] = "none"
      BY <2>0, <2>1 DEF Stage, StageOf
    <3> QED
      BY <1>1, <2>0, <2>1, <3>1, RowReplaced
  <2>3. Shown' = Shown
    BY <1>1, <2>0, <2>1, RowReplaced DEF NothingShown
  <2>4. Revisable' \in {Revisable, Revisable \cup {j}}
    BY <1>1, <2>0, <2>1, RowReplaced
  <2>5. NothingShown'
    BY <1>1, <2>0, <2>1, RowReplaced
  <2> QED
    BY <2>1, <2>2, <2>3, <2>4, <2>5
       DEF Outcomes!Next, Outcomes!Step, Outcomes!Accept, Outcomes!Move
<1>4. ASSUME NEW w \in Workers, NEW j \in Jobs, ClaimNext(w, j) PROVE Good
  <2> PICK row : row = [rows[j] EXCEPT !.status = "RUNNING", !.claimedBy = w, !.leased = TRUE]
    OBVIOUS
  <2>1. rows' = [rows EXCEPT ![j] = row] /\ UNCHANGED published
        /\ rows[j].status \in {"PENDING", "RUNNING"}
    BY <1>4 DEF ClaimNext, Claimable
  <2>2. /\ row \in Rows /\ row.status = "RUNNING"
        /\ row.kind = rows[j].kind /\ row.result = rows[j].result
    BY <1>1, RowWritten
  <2> QED
    BY <1>1, <2>1, <2>2, SameToClient
<1>5. ASSUME NEW j \in Jobs, Lapse(j) PROVE Good
  <2> PICK row : row = [rows[j] EXCEPT !.leased = FALSE]
    OBVIOUS
  <2>1. rows' = [rows EXCEPT ![j] = row] /\ UNCHANGED published /\ rows[j].status = "RUNNING"
    BY <1>5 DEF Lapse
  <2>2. /\ row \in Rows /\ row.status = rows[j].status
        /\ row.kind = rows[j].kind /\ row.result = rows[j].result
    BY <1>1, RowWritten
  <2> QED
    BY <1>1, <2>1, <2>2, SameToClient
<1>6. ASSUME NEW w \in Workers, Put(w), published' # published PROVE Good
  <2>0. PICK j \in Jobs : j = worker[w].job
    BY <1>1, <1>6, BusyWorker DEF Put
  <2>1. /\ Holds(w) /\ published' = [published EXCEPT ![j] = worker[w].value]
        /\ \/ published[j] = NoValue \/ published[j] = worker[w].value
           \/ rows[j].kind = "ENVIRONMENT_VERIFY"
        /\ UNCHANGED rows
    BY <1>6, <2>0 DEF Put, Kind
  <2>2. worker[w].value \in Values
    BY <1>1, <1>6, BusyWorker DEF IInv, Attested, Put
  <2>3. published[j] # worker[w].value
    BY <1>1, <1>6, <2>1 DEF TypeOK
  <2>4. Stage[j] = "open" /\ (rows[j].kind = "ENVIRONMENT_VERIFY" => j \in Revisable)
    BY <2>0, <2>1 DEF Holds, Stage, StageOf, Revisable, Created
  <2> QED
    BY <2>1, <2>2, <2>3, <2>4
       DEF Outcomes!Next, Outcomes!Step, Outcomes!Store, NothingShown, Stage, Revisable, Shown,
           Created
<1>7. ASSUME NEW w \in Workers, Succeed(w), Holds(w) PROVE Good
  <2>0. PICK j \in Jobs : j = worker[w].job
    BY <1>1, <1>7, BusyWorker DEF Succeed
  <2>1. PICK v \in Values : v = worker[w].value /\ v = published[j]
    BY <1>1, <1>7, <2>0, BusyWorker DEF IInv, Carried, Succeed
  <2> PICK row : row = [rows[j] EXCEPT !.status = "SUCCEEDED", !.result = v,
                                       !.claimedBy = NoOne, !.leased = FALSE]
    OBVIOUS
  <2>2. /\ row \in Rows /\ row.status = "SUCCEEDED"
        /\ row.kind = rows[j].kind /\ row.result = v
    <3>1. rows[j] \in Rows /\ v \in Values
      BY <1>1
    <3> QED
      BY <3>1 DEF Rows, Statuses, Ended
  <2>3. /\ rows' = [rows EXCEPT ![j] = row] /\ UNCHANGED published /\ rows[j].status = "RUNNING"
    <3>1. rows[j].status = "RUNNING" /\ UNCHANGED published
      BY <1>7, <2>0 DEF Succeed, Holds
    <3>2. rows' = [rows EXCEPT ![j].status = "SUCCEEDED", ![j].result = worker[w].value,
                               ![j].claimedBy = NoOne, ![j].leased = FALSE]
      BY <1>7, <2>0 DEF Succeed
    <3> QED
      BY <2>1, <3>1, <3>2
  <2>4. Stage[j] = "open" /\ Stage' = [Stage EXCEPT ![j] = "succeeded"]
    <3>1. StageOf[row.status] = "succeeded" /\ Stage[j] = "open"
      BY <2>2, <2>3 DEF Stage, StageOf
    <3> QED
      BY <1>1, <2>2, <2>3, <3>1, RowReplaced
  <2>5. Shown' = [Shown EXCEPT ![j] = published[j]] /\ NothingShown'
    <3>1. row.result = published[j]
      BY <2>1, <2>2
    <3>2. Shown' = [Shown EXCEPT ![j] = row.result]
      BY <1>1, <2>2, <2>3, RowReplaced
    <3>3. NothingShown'
      BY <1>1, <2>2, <2>3, RowReplaced
    <3> QED
      BY <3>1, <3>2, <3>3
  <2>6. Revisable' = Revisable
    BY <1>1, <2>2, <2>3, RowReplaced
  <2>7. published[j] # NoValue
    BY <2>1, NamesAssumption
  <2> QED
    BY <2>3, <2>4, <2>5, <2>6, <2>7
       DEF Outcomes!Next, Outcomes!Step, Outcomes!Succeed, Outcomes!Move
<1>8. ASSUME NEW w \in Workers, Fail(w), Holds(w) PROVE Good
  <2>0. PICK j \in Jobs : j = worker[w].job
    BY <1>1, <1>8, BusyWorker DEF Fail
  <2> PICK row : row = [rows[j] EXCEPT !.status = "FAILED", !.claimedBy = NoOne,
                                       !.leased = FALSE]
    OBVIOUS
  <2>1. /\ row \in Rows /\ row.status = "FAILED"
        /\ row.kind = rows[j].kind /\ row.result = rows[j].result
    BY <1>1, RowWritten
  <2>2. /\ rows' = [rows EXCEPT ![j] = row] /\ UNCHANGED published /\ rows[j].status = "RUNNING"
    <3>1. rows[j].status = "RUNNING" /\ UNCHANGED published
      BY <1>8, <2>0 DEF Fail, Holds
    <3>2. rows' = [rows EXCEPT ![j].status = "FAILED", ![j].claimedBy = NoOne,
                               ![j].leased = FALSE]
      BY <1>8, <2>0 DEF Fail
    <3> QED
      BY <3>1, <3>2
  <2>3. Stage[j] = "open" /\ Stage' = [Stage EXCEPT ![j] = "failed"]
    <3>1. StageOf[row.status] = "failed" /\ Stage[j] = "open"
      BY <2>1, <2>2 DEF Stage, StageOf
    <3> QED
      BY <1>1, <2>1, <2>2, <3>1, RowReplaced
  <2>4. Shown' = Shown /\ NothingShown'
    BY <1>1, <2>1, <2>2, RowReplaced DEF NothingShown
  <2>5. Revisable' = Revisable
    BY <1>1, <2>1, <2>2, RowReplaced
  <2> QED
    BY <2>2, <2>3, <2>4, <2>5 DEF Outcomes!Next, Outcomes!Step, Outcomes!Fail, Outcomes!Move
<1>9. ASSUME NEW w \in Workers, Run(w) \/ StageFails(w) \/ Crash(w),
             \A j \in Jobs : ~ClaimNext(w, j)
      PROVE  \/ UNCHANGED <<rows, published>>
             \/ Put(w) /\ published' # published
             \/ Succeed(w) /\ Holds(w)
             \/ Fail(w) /\ Holds(w)
  BY <1>9 DEF Run, OpenJournal, LookUp, Acquire, LoseLease, Put, Prepare, Succeed, SealJournal,
              StageFails, CaptureFailure, Fail, Crash
<1> QED
  BY <1>2, <1>3, <1>4, <1>5, <1>6, <1>7, <1>8, <1>9 DEF Next, vars

\* Together, the attempts of a job do what one careful attempt would: the queue and its
\* workers implement JobOutcomes, for any number of workers, claims and lapsed leases.
THEOREM OutcomesAreKept == Spec => KeepsOutcomes
<1>1. Init => NothingShown /\ Outcomes!Init
  BY DEF Init, NothingShown, Outcomes!Init, Stage, StageOf, Revisable, Shown, Created, AbsentRow
<1>2. IInv /\ NothingShown /\ [Next]_vars =>
          /\ NothingShown'
          /\ [Outcomes!Next]_<<Stage, Revisable, published, Shown>>
  BY OutcomeStep
<1> QED
  BY <1>1, <1>2, InvariantHolds, PTL DEF Spec, KeepsOutcomes, Outcomes!Spec, Outcomes!vars

--------------------------------------------------------------------------------
(* Journals under leases that are kept *)

\* No lease lapses under a worker that still works under it.
LeasesAreKept == [][\A j \in Jobs : Lapse(j) => Abandoned(j)]_vars

\* Where a diagnosis goes on, its journal is open.
OpenPCs == PCs \ {"OPENING", "FAILING", "REPORTING"}

\* A worker works under its lease, or closes the journal of what it has just ended.
OnTask(w) ==
    /\ worker[w].pc \in {"OPENING", "SEALING"} => rows[worker[w].job].kind = "DIAGNOSIS"
    /\ worker[w].pc \notin {"IDLE", "SEALING"} => Holds(w)
    /\ worker[w].pc = "SEALING" => rows[worker[w].job].status = "SUCCEEDED"
    /\ worker[w].pc \in OpenPCs /\ rows[worker[w].job].kind = "DIAGNOSIS"
       => ~Sealed(worker[w].job)

\* No two workers are on one job.
Alone ==
    \A v, w \in Workers :
        v # w /\ worker[v].pc # "IDLE" /\ worker[w].pc # "IDLE"
        => worker[v].job # worker[w].job

\* Only a diagnosis that exists has a journal.
OwnJournal ==
    \A j \in Jobs : journal[j] # "EMPTY" => Created(j) /\ rows[j].kind = "DIAGNOSIS"

KeptInv == (\A w \in Workers : OnTask(w)) /\ Alone /\ OwnJournal /\ SuccessIsNotFailed

\* A worker's step is about its own job.
LEMMA OwnJob ==
    ASSUME TypeOK, NEW w \in Workers, worker[w].pc # "IDLE",
           Run(w) \/ StageFails(w) \/ Crash(w)
    PROVE  /\ \A v \in Workers \ {w} : worker'[v] = worker[v]
           /\ worker'[w].pc = "IDLE" \/ worker'[w].job = worker[w].job
           /\ \A i \in Jobs \ {worker[w].job} :
                  rows'[i] = rows[i] /\ journal'[i] = journal[i]
<1>0. \A i \in Jobs : ~ClaimNext(w, i)
  BY DEF ClaimNext
<1>1. ASSUME NEW row, worker' = [worker EXCEPT ![w] = row] PROVE \A v \in Workers \ {w} : worker'[v] = worker[v]
  BY <1>1 DEF TypeOK
<1>2. ASSUME NEW pc, Goto(w, pc)
      PROVE  worker'[w].job = worker[w].job /\ \A v \in Workers \ {w} : worker'[v] = worker[v]
  BY <1>2, BusyWorker DEF TypeOK, Goto
<1>3. ASSUME Return(w)
      PROVE  worker'[w].pc = "IDLE" /\ \A v \in Workers \ {w} : worker'[v] = worker[v]
  BY <1>3 DEF TypeOK, Return, Idle
<1>4. CASE OpenJournal(w) \/ SealJournal(w) \/ CaptureFailure(w)
  BY <1>2, <1>3, <1>4 DEF OpenJournal, SealJournal, CaptureFailure, TypeOK
<1>5. CASE Succeed(w)
  BY <1>2, <1>3, <1>5 DEF Succeed, TypeOK
<1>6. CASE Fail(w)
  BY <1>3, <1>6 DEF Fail, TypeOK
<1>7. CASE LookUp(w) \/ Acquire(w)
  <2>1. ASSUME NEW v, NEW pc, worker' = [worker EXCEPT ![w].value = v, ![w].pc = pc]
        PROVE  worker'[w].job = worker[w].job /\ \A u \in Workers \ {w} : worker'[u] = worker[u]
    BY <2>1, BusyWorker DEF TypeOK
  <2> QED
    BY <1>2, <1>7, <2>1 DEF LookUp, Acquire
<1>8. CASE LoseLease(w) \/ Put(w) \/ Prepare(w) \/ StageFails(w) \/ Crash(w)
  BY <1>2, <1>3, <1>8 DEF LoseLease, Put, Prepare, StageFails, Crash
<1> QED
  BY <1>0, <1>4, <1>5, <1>6, <1>7, <1>8 DEF Run

\* The step leaves the worker on its task, and never a success beside a failed journal.
LEMMA OwnStep ==
    ASSUME TypeOK, KeptInv, NEW w \in Workers, worker[w].pc # "IDLE",
           Run(w) \/ StageFails(w) \/ Crash(w)
    PROVE  /\ OnTask(w)'
           /\ rows'[worker[w].job].status = "SUCCEEDED" => journal'[worker[w].job] # "FAILED"
           /\ journal'[worker[w].job] # "EMPTY" => rows'[worker[w].job].kind = "DIAGNOSIS"
<1> PICK j \in Jobs : j = worker[w].job
  BY BusyWorker
<1> PICK n : n = worker'[w]
  OBVIOUS
<1> DEFINE Good ==
        /\ n.pc \notin {"IDLE", "SEALING"} =>
               /\ rows'[j].status = "RUNNING" /\ rows'[j].claimedBy = w /\ rows'[j].leased
        /\ n.pc = "SEALING" => rows'[j].status = "SUCCEEDED"
        /\ n.pc \in {"OPENING", "SEALING"} => rows'[j].kind = "DIAGNOSIS"
        /\ n.pc \in OpenPCs /\ rows'[j].kind = "DIAGNOSIS" => journal'[j] \notin {"PASSED", "FAILED"}
        /\ rows'[j].status = "SUCCEEDED" => journal'[j] # "FAILED"
        /\ journal'[j] # "EMPTY" => rows'[j].kind = "DIAGNOSIS"
<1>0. /\ n.pc = "IDLE" \/ n.job = j
      /\ \A i \in Jobs : ~ClaimNext(w, i)
  BY OwnJob DEF ClaimNext
<1>1. ASSUME Good
      PROVE  /\ OnTask(w)'
             /\ rows'[j].status = "SUCCEEDED" => journal'[j] # "FAILED"
             /\ journal'[j] # "EMPTY" => rows'[j].kind = "DIAGNOSIS"
  <2>1. "IDLE" \notin OpenPCs
    BY DEF OpenPCs, PCs
  <2> QED
    BY <1>0, <1>1, <2>1 DEF OnTask, Holds, Sealed
<1>2. /\ worker[w].pc \notin {"IDLE", "SEALING"} =>
             /\ rows[j].status = "RUNNING" /\ rows[j].claimedBy = w /\ rows[j].leased
      /\ worker[w].pc = "SEALING" => rows[j].status = "SUCCEEDED"
      /\ worker[w].pc \in {"OPENING", "SEALING"} => rows[j].kind = "DIAGNOSIS"
      /\ worker[w].pc \in OpenPCs /\ rows[j].kind = "DIAGNOSIS"
         => journal[j] \notin {"PASSED", "FAILED"}
      /\ rows[j].status = "SUCCEEDED" => journal[j] # "FAILED"
      /\ journal[j] # "EMPTY" => rows[j].kind = "DIAGNOSIS"
  BY DEF KeptInv, OnTask, Holds, Sealed, SuccessIsNotFailed, OwnJournal
<1>3. \A pc : Goto(w, pc) => n.pc = pc
  BY BusyWorker DEF Goto, TypeOK
<1>4. Return(w) => n.pc = "IDLE"
  BY DEF Return, TypeOK, Idle
<1>5. CASE OpenJournal(w)
  <2>1. /\ UNCHANGED rows /\ worker[w].pc = "OPENING"
        /\ \/ journal' = [journal EXCEPT ![j] = "OPEN"] /\ n.pc = "LOOKING"
           \/ UNCHANGED journal /\ n.pc = "FAILING"
    BY <1>3, <1>5 DEF OpenJournal
  <2>2. Good
    BY <1>2, <2>1 DEF TypeOK, OpenPCs
  <2> QED
    BY <1>1, <2>2
<1>6. CASE LookUp(w) \/ Acquire(w)
  <2>1. \A v, pc : worker' = [worker EXCEPT ![w].value = v, ![w].pc = pc] => n.pc = pc
    BY BusyWorker DEF TypeOK
  <2>2. worker[w].pc \in OpenPCs /\ worker[w].pc \notin {"IDLE", "SEALING"}
    BY <1>6 DEF LookUp, Acquire, OpenPCs, PCs
  <2>3. n.pc \in {"STORED", "ACQUIRING", "STORING", "FAILING"}
    <3>1. CASE LookUp(w)
      BY <1>3, <2>1, <3>1 DEF LookUp
    <3>2. ASSUME NEW v \in Values,
                 worker' = [worker EXCEPT ![w].value = v, ![w].pc = "STORING"]
          PROVE  n.pc = "STORING"
      BY <2>1, <3>2
    <3>3. CASE Acquire(w)
      BY <1>3, <3>2, <3>3 DEF Acquire
    <3> QED
      BY <1>6, <3>1, <3>3
  <2>4. UNCHANGED <<rows, journal>>
    BY <1>6 DEF LookUp, Acquire
  <2>5. Good
    BY <1>2, <2>2, <2>3, <2>4
  <2> QED
    BY <1>1, <2>5
<1>7. CASE LoseLease(w) \/ Put(w) \/ Prepare(w) \/ StageFails(w)
  <2>1. worker[w].pc \in OpenPCs /\ worker[w].pc \notin {"IDLE", "SEALING"}
    BY <1>7 DEF LoseLease, Put, Prepare, StageFails, OpenPCs, PCs
  <2>2. n.pc \in {"IDLE", "STORED", "SUCCEEDING", "FAILING"} /\ UNCHANGED <<rows, journal>>
    BY <1>3, <1>4, <1>7 DEF LoseLease, Put, Prepare, StageFails
  <2>3. Good
    BY <1>2, <2>1, <2>2 DEF OpenPCs, PCs
  <2> QED
    BY <1>1, <2>3
<1>8. CASE Succeed(w)
  <2>1. /\ rows[j] \in Rows /\ UNCHANGED journal /\ worker[w].pc = "SUCCEEDING"
        /\ worker[w].pc \in OpenPCs
        /\ rows' = [rows EXCEPT ![j].status = "SUCCEEDED", ![j].result = worker[w].value,
                                ![j].claimedBy = NoOne, ![j].leased = FALSE]
        /\ IF rows[j].kind = "DIAGNOSIS" THEN n.pc = "SEALING" ELSE n.pc = "IDLE"
    BY <1>2, <1>3, <1>4, <1>8 DEF Succeed, Holds, TypeOK, Diagnosing, Kind, OpenPCs, PCs
  <2>2. rows'[j].status = "SUCCEEDED" /\ rows'[j].kind = rows[j].kind
    BY <2>1 DEF TypeOK, Rows
  <2>3. Good
    BY <1>2, <2>1, <2>2 DEF OpenPCs, PCs
  <2> QED
    BY <1>1, <2>3
<1>9. CASE SealJournal(w)
  <2>1. /\ UNCHANGED rows /\ rows[j].status = "SUCCEEDED" /\ rows[j].kind = "DIAGNOSIS"
        /\ ~Sealed(j)
    BY <1>2, <1>9 DEF SealJournal, Sealed, OpenPCs, PCs
  <2>2. n.pc = "IDLE" /\ journal' = [journal EXCEPT ![j] = "PASSED"]
    BY <1>4, <1>9, <2>1 DEF SealJournal
  <2>3. Good
    BY <2>1, <2>2 DEF TypeOK, OpenPCs, PCs
  <2> QED
    BY <1>1, <2>3
<1>10. CASE CaptureFailure(w)
  <2>1. /\ UNCHANGED rows /\ rows[j].status = "RUNNING" /\ rows[j].claimedBy = w
        /\ rows[j].leased
        /\ UNCHANGED journal \/ rows[j].kind = "DIAGNOSIS"
    BY <1>2, <1>10 DEF CaptureFailure, Diagnosing, Kind
  <2>2. n.pc \in {"REPORTING", "IDLE"}
    BY <1>3, <1>4, <1>10 DEF CaptureFailure
  <2>3. Good
    BY <1>2, <2>1, <2>2 DEF OpenPCs, PCs
  <2> QED
    BY <1>1, <2>3
<1>11. CASE Fail(w)
  <2>1. /\ rows'[j].status = "FAILED" /\ n.pc = "IDLE"
        /\ rows'[j].kind = rows[j].kind /\ UNCHANGED journal
    BY <1>2, <1>4, <1>11 DEF Fail, Holds, TypeOK, Rows
  <2>2. Good
    BY <1>2, <2>1 DEF OpenPCs, PCs
  <2> QED
    BY <1>1, <2>2
<1>12. CASE Crash(w)
  <2>1. n.pc = "IDLE" /\ UNCHANGED <<rows, journal>>
    BY <1>4, <1>12 DEF Crash
  <2>2. Good
    BY <1>2, <2>1 DEF OpenPCs, PCs
  <2> QED
    BY <1>1, <2>2
<1> QED
  BY <1>0, <1>5, <1>6, <1>7, <1>8, <1>9, <1>10, <1>11, <1>12 DEF Run

\* The invariant of kept leases, step by step.
LEMMA KeptStep ==
    ASSUME TypeOK, KeptInv, [Next]_vars, \A j \in Jobs : Lapse(j) => Abandoned(j)
    PROVE  KeptInv'
<1>1. CASE UNCHANGED vars
  BY <1>1 DEF vars, KeptInv, OnTask, Holds, Sealed, Alone, OwnJournal, Created, SuccessIsNotFailed
<1>2. ASSUME NEW j \in Jobs, NEW kind \in Kinds, Enqueue(j, kind) PROVE KeptInv'
  <2>1. /\ \A i \in Jobs \ {j} : rows'[i] = rows[i]
        /\ rows[j].status = "ABSENT" /\ rows'[j].status = "PENDING"
        /\ UNCHANGED <<journal, worker>>
    BY <1>2 DEF Enqueue, Created, TypeOK, AbsentRow
  <2>2. ASSUME NEW w \in Workers PROVE OnTask(w)'
    <3>1. CASE worker[w].pc = "IDLE"
      BY <2>1, <3>1 DEF OnTask, OpenPCs, PCs
    <3>2. CASE worker[w].pc # "IDLE"
      <4>1. worker[w].job \in Jobs \ {j}
        BY <2>1, <3>2, BusyWorker DEF KeptInv, OnTask, Holds
      <4> QED
        BY <2>1, <4>1 DEF KeptInv, OnTask, Holds, Sealed
    <3> QED
      BY <3>1, <3>2
  <2>3. Alone'
    BY <2>1 DEF KeptInv, Alone
  <2>4. OwnJournal' /\ SuccessIsNotFailed'
    BY <2>1 DEF KeptInv, OwnJournal, Created, SuccessIsNotFailed
  <2> QED
    BY <2>2, <2>3, <2>4 DEF KeptInv
<1>3. ASSUME NEW j \in Jobs, Lapse(j) PROVE KeptInv'
  <2>1. /\ \A i \in Jobs \ {j} : rows'[i] = rows[i]
        /\ rows[j].status = "RUNNING" /\ rows'[j].status = "RUNNING"
        /\ rows'[j].kind = rows[j].kind
        /\ UNCHANGED <<journal, worker>> /\ Abandoned(j)
    BY <1>3 DEF Lapse, TypeOK, Rows
  <2>2. ASSUME NEW w \in Workers PROVE OnTask(w)'
    <3>1. CASE worker[w].pc = "IDLE"
      BY <2>1, <3>1 DEF OnTask, OpenPCs, PCs
    <3>2. CASE worker[w].pc # "IDLE"
      <4>1. worker[w].job \in Jobs \ {j}
        BY <2>1, <3>2, BusyWorker DEF KeptInv, OnTask, Holds, Abandoned
      <4> QED
        BY <2>1, <4>1 DEF KeptInv, OnTask, Holds, Sealed
    <3> QED
      BY <3>1, <3>2
  <2>3. Alone'
    BY <2>1 DEF KeptInv, Alone
  <2>4. OwnJournal' /\ SuccessIsNotFailed'
    BY <2>1 DEF KeptInv, OwnJournal, Created, SuccessIsNotFailed
  <2> QED
    BY <2>2, <2>3, <2>4 DEF KeptInv
<1>4. ASSUME NEW w \in Workers, NEW j \in Jobs, ClaimNext(w, j) PROVE KeptInv'
  <2>1. /\ \A i \in Jobs \ {j} : rows'[i] = rows[i]
        /\ rows[j].status \in {"PENDING", "RUNNING"}
        /\ rows[j].status = "PENDING" \/ ~rows[j].leased
        /\ rows'[j].status = "RUNNING" /\ rows'[j].claimedBy = w /\ rows'[j].leased
        /\ rows'[j].kind = rows[j].kind
        /\ UNCHANGED journal
        /\ \A v \in Workers \ {w} : worker'[v] = worker[v]
        /\ worker'[w].pc = FirstStep[rows[j].kind] /\ worker'[w].job = j
    BY <1>4 DEF ClaimNext, Claimable, TypeOK, Rows
  <2>2. ASSUME NEW v \in Workers \ {w}, worker[v].pc # "IDLE" PROVE worker[v].job \in Jobs \ {j}
    BY <2>1, <2>2, BusyWorker DEF KeptInv, OnTask, Holds
  <2>3. OnTask(w)'
    <3>1. rows[j].kind \in {"DIAGNOSIS", "BASELINE_BUILD", "ENVIRONMENT_VERIFY"}
      BY KindsAssumption DEF TypeOK, Rows
    <3>2. /\ rows[j].kind = "DIAGNOSIS" => worker'[w].pc = "OPENING"
          /\ rows[j].kind # "DIAGNOSIS" => worker'[w].pc \in {"LOOKING", "ACQUIRING"}
      BY <2>1, <3>1 DEF FirstStep
    <3> QED
      BY <2>1, <3>1, <3>2 DEF OnTask, Holds, OpenPCs
  <2>4. ASSUME NEW v \in Workers \ {w} PROVE OnTask(v)'
    <3>1. CASE worker[v].pc = "IDLE"
      BY <2>1, <3>1 DEF OnTask, OpenPCs, PCs
    <3>2. CASE worker[v].pc # "IDLE"
      BY <2>1, <2>2, <3>2 DEF KeptInv, OnTask, Holds, Sealed
    <3> QED
      BY <3>1, <3>2
  <2>5. Alone'
    BY <2>1, <2>2 DEF KeptInv, Alone
  <2>6. OwnJournal' /\ SuccessIsNotFailed'
    BY <2>1 DEF KeptInv, OwnJournal, Created, SuccessIsNotFailed
  <2> QED
    BY <2>3, <2>4, <2>5, <2>6 DEF KeptInv
<1>5. ASSUME NEW w \in Workers, worker[w].pc # "IDLE", Run(w) \/ StageFails(w) \/ Crash(w)
      PROVE  KeptInv'
  <2> PICK j \in Jobs : j = worker[w].job
    BY <1>5, BusyWorker
  <2>1. /\ \A i \in Jobs \ {j} : rows'[i] = rows[i] /\ journal'[i] = journal[i]
        /\ \A v \in Workers \ {w} : worker'[v] = worker[v]
        /\ worker'[w].pc = "IDLE" \/ worker'[w].job = j
    BY <1>5, OwnJob
  <2>2. /\ OnTask(w)'
        /\ rows'[j].status = "SUCCEEDED" => journal'[j] # "FAILED"
        /\ journal'[j] # "EMPTY" => rows'[j].kind = "DIAGNOSIS"
    BY <1>5, OwnStep
  <2>3. ASSUME NEW v \in Workers \ {w}, worker[v].pc # "IDLE" PROVE worker[v].job \in Jobs \ {j}
    BY <1>5, <2>3, BusyWorker DEF KeptInv, Alone
  <2>4. ASSUME NEW v \in Workers \ {w} PROVE OnTask(v)'
    <3>1. CASE worker[v].pc = "IDLE"
      BY <2>1, <3>1 DEF OnTask, OpenPCs, PCs
    <3>2. CASE worker[v].pc # "IDLE"
      BY <2>1, <2>3, <3>2 DEF KeptInv, OnTask, Holds, Sealed
    <3> QED
      BY <3>1, <3>2
  <2>5. Alone'
    BY <2>1, <2>3 DEF KeptInv, Alone
  <2>6. rows'[j].status # "ABSENT"
    <3>1. rows[j].status # "ABSENT"
      BY <1>5 DEF KeptInv, OnTask, Holds
    <3> QED
      BY <3>1, JobsMove DEF JobMoves, Created
  <2>7. OwnJournal' /\ SuccessIsNotFailed'
    BY <2>1, <2>2, <2>6 DEF KeptInv, OwnJournal, Created, SuccessIsNotFailed
  <2> QED
    BY <2>2, <2>4, <2>5, <2>7 DEF KeptInv
<1>6. ASSUME NEW w \in Workers, Run(w) \/ StageFails(w) \/ Crash(w), \A j \in Jobs : ~ClaimNext(w, j)
      PROVE  worker[w].pc # "IDLE"
  BY <1>6 DEF Run, OpenJournal, LookUp, Acquire, LoseLease, Put, Prepare, Succeed, SealJournal,
              CaptureFailure, Fail, StageFails, Crash
<1> QED
  BY <1>1, <1>2, <1>3, <1>4, <1>5, <1>6 DEF Next

\* The journal of a diagnosis that succeeded does not end in a failure - what the
\* documentation says - as long as no lease lapses under a worker that goes on, however
\* many workers crash and however many jobs are claimed again.
THEOREM KeptLeasesKeepJournals == Spec /\ LeasesAreKept => []SuccessIsNotFailed
<1>1. Init => KeptInv
  BY DEF Init, Idle, AbsentRow, KeptInv, OnTask, OpenPCs, PCs, Alone, OwnJournal, SuccessIsNotFailed
<1>2. TypeOK /\ KeptInv /\ [Next]_vars /\ [\A j \in Jobs : Lapse(j) => Abandoned(j)]_vars
      => KeptInv'
  <2>1. CASE UNCHANGED vars
    BY <2>1 DEF vars, KeptInv, OnTask, Holds, Sealed, Alone, OwnJournal, Created,
                SuccessIsNotFailed
  <2> QED
    BY <2>1, KeptStep
<1>3. KeptInv => SuccessIsNotFailed
  BY DEF KeptInv
<1> QED
  BY <1>1, <1>2, <1>3, TypeCorrect, PTL DEF Spec, LeasesAreKept
================================================================================
