------------------------ MODULE KnowledgeLifecycleProofs ------------------------
(***************************************************************************)
(* Proofs about KnowledgeLifecycle, for all incidents, families,            *)
(* registrations, workers, callers and bounds.                              *)
(*                                                                          *)
(* The stores only grow: a member row, an accepting review, a draft, an     *)
(* evaluation, a registry row and a diagnosis are never taken back (Grows). *)
(* Hence what a call has read about them stays true however late it writes, *)
(* and a family is Sound if all that it claims is backed by stored rows.    *)
(***************************************************************************)
EXTENDS KnowledgeLifecycle, TLAPS

--------------------------------------------------------------------------------
(* The inductive invariant *)

\* What a payload of family f claims is stored.
Sound(p, f) ==
    /\ p.shown \subseteq members[f]
    /\ p.status \in {"ACCEPTED_SHADOW", "REGISTRATION_DRAFTED"} => f \in accepted
    /\ p.status = "REGISTRATION_DRAFTED" => \E r \in Registrations : draft[r].of = f
    /\ p.status = "PROMOTED" =>
          \E r \in Registrations : draft[r].of = f /\ registry[r].status # "NONE"
    /\ p.status = "MERGED" =>
          /\ p.into \in Families /\ p.into # f /\ Exists(p.into)
          /\ p.shown \subseteq members[p.into]

FamiliesAreSound == \A f \in Families : Sound(family[f], f)

FiledAreOpen ==
    \A f \in Families : \A i \in members[f] : verdict[i].terminal = "OPEN_WORLD"

DraftIsSound(r) ==
    /\ Drafted(r) =>
          /\ draft[r].of \in accepted
          /\ draft[r].positives \subseteq members[draft[r].of]
    /\ draft[r].clause # None => Drafted(r) /\ Cardinality(draft[r].positives) >= 2
    /\ shadow[r] # "NONE" => draft[r].clause # None
    /\ registry[r].status # "NONE" => shadow[r] = "PASSED"

DraftsAreSound == \A r \in Registrations : DraftIsSound(r)

\* What a worker carries: an open-world incident from the lookup on, a family that
\* exists, a status that may be written back, and rows that are stored.
WorkerIsSound(w) ==
    LET n == ingest[w] IN
    /\ n.pc # "IDLE" => n.incident \in Incidents
    /\ n.pc \notin {"IDLE", "MATCH", "FINISH"} => verdict[n.incident].terminal = "OPEN_WORLD"
    /\ \A r \in n.known : registry[r].status # "NONE"
    /\ n.pc \in {"REREAD", "ROWS", "PUT"} => n.family \in Families
    /\ n.pc \in {"ASSIGN", "ROWS", "PUT"} =>
          /\ n.prior \notin {"ABSENT", "MERGED"}
          /\ n.family \in Families =>
                Sound([status |-> n.prior, shown |-> {}, into |-> None], n.family)
    /\ n.pc = "ASSIGN" /\ n.family = None => n.prior = "ACCUMULATING"
    /\ n.pc = "PUT" => n.rows \subseteq members[n.family]

Merges == {"COPY", "GATHER", "PUT_TARGET", "PUT_SOURCE"}
Copied == {"GATHER", "PUT_TARGET", "PUT_SOURCE"}

\* What a call carries: families as they were read, and how far it has come.
Carried(n) ==
    /\ n.pc # "IDLE" => n.family \in Families /\ Sound(n.held, n.family)
    /\ n.pc \in {"SOURCE", "TARGET"} => n.target \in Families
    /\ n.pc \in {"SOURCE", "TARGET"} \cup Merges => n.decision \in {"NONE", "MERGE"}
    /\ n.pc \in {"TARGET"} \cup Merges => Sound(n.source, n.family)
    /\ n.pc \in Merges =>
          /\ n.target \in Families /\ n.target # n.family /\ Exists(n.target)
          /\ Sound(n.goal, n.target) /\ n.goal.status # "ABSENT"
    /\ n.pc \in Copied =>
          n.held.shown \subseteq members[n.target] /\ n.source.shown \subseteq members[n.target]
    /\ n.pc \in {"PUT_TARGET", "PUT_SOURCE"} =>
          n.rows \subseteq members[n.target] /\ n.goal.status # "MERGED"
    /\ n.pc = "DECIDE" =>
          IF n.decision = "MERGE"
          THEN /\ n.target \in Families /\ n.target # n.family /\ Exists(n.target)
               /\ n.held.shown \subseteq members[n.target]
          ELSE n.decision # "NONE" /\ n.target = None
    /\ n.pc \in {"MATRIX", "MINE", "COMMIT_DRAFT"} => n.family \in accepted
    /\ n.pc \in {"MINE", "COMMIT_DRAFT"} => n.rows \subseteq members[n.family]
    /\ n.pc \in {"COMMIT_DRAFT", "PROMOTE"} => n.held.into = None
    /\ n.pc = "COMMIT_DRAFT" /\ n.clause # None => Cardinality(n.rows) >= 2
    /\ n.pc = "PROMOTE" =>
          /\ n.registration \in Registrations
          /\ draft[n.registration].of = n.family
          /\ Compilable(n.registration)

CallIsSound(c) == Carried(call[c])

StoresAreSound ==
    FamiliesAreSound /\ FiledAreOpen /\ DraftsAreSound /\ KnownWasPromoted /\ HistoryIsTrue

IInv ==
    /\ TypeOK /\ StoresAreSound
    /\ \A w \in Workers : WorkerIsSound(w)
    /\ \A c \in Callers : CallIsSound(c)

--------------------------------------------------------------------------------
(* What is stored stays *)

\* No step takes back a member row, an accepting review, a family, a draft, an
\* evaluation, a registry row or a diagnosis.
Grows ==
    /\ \A f \in Families : members[f] \subseteq members'[f]
    /\ accepted \subseteq accepted'
    /\ \A f \in Families : Exists(f) => Exists(f)'
    /\ \A r \in Registrations : Drafted(r) => draft'[r] = draft[r]
    /\ \A r \in Registrations : shadow[r] # "NONE" => shadow'[r] = shadow[r]
    /\ \A r \in Registrations : registry[r].status # "NONE" => registry'[r].status # "NONE"
    /\ \A i \in Incidents : verdict[i] # Undiagnosed => verdict'[i] = verdict[i]

\* Nothing grows if nothing is written.
LEMMA UnwrittenGrows ==
    ASSUME UNCHANGED <<knowledge, verdict>> PROVE Grows
BY DEF Grows, knowledge, Exists, Drafted

\* A family that claims only what is stored does so however late it is written.
LEMMA SoundStays ==
    ASSUME Grows, NEW f \in Families, NEW p, Sound(p, f)
    PROVE  Sound(p, f)'
<1>1. p.shown \subseteq members'[f]
  BY DEF Sound, Grows
<1>2. p.status \in {"ACCEPTED_SHADOW", "REGISTRATION_DRAFTED"} => f \in accepted'
  BY DEF Sound, Grows
<1>3. \A r \in Registrations : draft[r].of = f => draft'[r].of = f
  BY NoneAssumption DEF Grows, Drafted
<1>4. p.status = "REGISTRATION_DRAFTED" => \E r \in Registrations : draft'[r].of = f
  BY <1>3 DEF Sound
<1>5. p.status = "PROMOTED" =>
          \E r \in Registrations : draft'[r].of = f /\ registry'[r].status # "NONE"
  BY <1>3 DEF Sound, Grows
<1>6. p.status = "MERGED" =>
          /\ p.into \in Families /\ p.into # f /\ Exists(p.into)'
          /\ p.shown \subseteq members'[p.into]
  BY DEF Sound, Grows, Exists
<1> QED
  BY <1>1, <1>2, <1>4, <1>5, <1>6 DEF Sound, Exists

\* So does what a worker carries, as long as the worker does not move.
LEMMA WorkerStays ==
    ASSUME TypeOK, Grows, NEW w \in Workers, WorkerIsSound(w), ingest'[w] = ingest[w]
    PROVE  WorkerIsSound(w)'
<1> DEFINE n == ingest[w]
           p == [status |-> n.prior, shown |-> {}, into |-> None]
<1>1. n.pc \notin {"IDLE", "MATCH", "FINISH"} => verdict'[n.incident].terminal = "OPEN_WORLD"
  BY DEF WorkerIsSound, Grows, Undiagnosed
<1>2. \A r \in n.known : registry'[r].status # "NONE"
  <2>1. n.known \subseteq Registrations
    BY DEF TypeOK, Ingests
  <2> QED
    BY <2>1 DEF WorkerIsSound, Grows
<1>3. n.pc \in {"ASSIGN", "ROWS", "PUT"} /\ n.family \in Families => Sound(p, n.family)'
  <2> SUFFICES ASSUME n.pc \in {"ASSIGN", "ROWS", "PUT"}, n.family \in Families
               PROVE  Sound(p, n.family)'
    OBVIOUS
  <2>1. Sound(p, n.family)
    BY DEF WorkerIsSound
  <2>2. \A q : \A f \in Families : Sound(q, f) => Sound(q, f)'
    BY SoundStays
  <2>3. p' = p /\ n' = n
    OBVIOUS
  <2> HIDE DEF p, n
  <2> QED
    BY <2>1, <2>2, <2>3
<1>4. n.pc = "PUT" => n.rows \subseteq members'[n.family]
  BY DEF WorkerIsSound, Grows
<1> QED
  BY <1>1, <1>2, <1>3, <1>4 DEF WorkerIsSound

\* And so does what a call carries, however long it carries it.
LEMMA CarriedStays ==
    ASSUME Grows, NEW n, Carried(n) PROVE Carried(n)'
<1> USE DEF Carried
<1>1. \A q : \A f \in Families : Sound(q, f) => Sound(q, f)'
  BY SoundStays
<1>2. n.pc # "IDLE" => Sound(n.held, n.family)'
  BY <1>1
<1>3. n.pc \in {"TARGET"} \cup Merges => Sound(n.source, n.family)'
  BY <1>1 DEF Merges
<1>4. n.pc \in Merges => Sound(n.goal, n.target)' /\ Exists(n.target)'
  BY <1>1 DEF Grows, Exists
<1>5. n.pc \in Copied =>
          n.held.shown \subseteq members'[n.target] /\ n.source.shown \subseteq members'[n.target]
  BY DEF Grows, Copied, Merges
<1>6. n.pc \in {"PUT_TARGET", "PUT_SOURCE"} => n.rows \subseteq members'[n.target]
  BY DEF Grows, Merges
<1>7. n.pc = "DECIDE" /\ n.decision = "MERGE" =>
          Exists(n.target)' /\ n.held.shown \subseteq members'[n.target]
  BY DEF Grows, Exists
<1>8. n.pc \in {"MATRIX", "MINE", "COMMIT_DRAFT"} => n.family \in accepted'
  BY DEF Grows
<1>9. n.pc \in {"MINE", "COMMIT_DRAFT"} => n.rows \subseteq members'[n.family]
  BY DEF Grows
<1>10. n.pc = "PROMOTE" =>
           draft'[n.registration].of = n.family /\ Compilable(n.registration)'
  BY NoneAssumption DEF Grows, Drafted, Compilable
<1> QED
  <2>1. /\ n.pc # "IDLE" => n.family \in Families
        /\ n.pc \in {"SOURCE", "TARGET"} => n.target \in Families
        /\ n.pc \in {"SOURCE", "TARGET"} \cup Merges => n.decision \in {"NONE", "MERGE"}
        /\ n.pc \in Merges =>
              n.target \in Families /\ n.target # n.family /\ n.goal.status # "ABSENT"
        /\ n.pc \in {"PUT_TARGET", "PUT_SOURCE"} => n.goal.status # "MERGED"
        /\ n.pc = "DECIDE" =>
              IF n.decision = "MERGE" THEN n.target \in Families /\ n.target # n.family
              ELSE n.decision # "NONE" /\ n.target = None
        /\ n.pc \in {"COMMIT_DRAFT", "PROMOTE"} => n.held.into = None
        /\ n.pc = "COMMIT_DRAFT" /\ n.clause # None => Cardinality(n.rows) >= 2
        /\ n.pc = "PROMOTE" => n.registration \in Registrations
    OBVIOUS
  <2> QED
    BY <1>1, <1>2, <1>3, <1>4, <1>5, <1>6, <1>7, <1>8, <1>9, <1>10, <2>1

LEMMA CallStays ==
    ASSUME IInv, Grows, NEW c \in Callers, call'[c] = call[c] PROVE CallIsSound(c)'
<1> PICK n : n = call[c]
  OBVIOUS
<1>1. Carried(n)
  BY DEF IInv, CallIsSound
<1>2. Carried(n)'
  BY <1>1, CarriedStays
<1> QED
  BY <1>2 DEF CallIsSound

--------------------------------------------------------------------------------
(* Steps that write no store and steps that do *)

\* A step that writes no store keeps what the stores hold.
LEMMA UnwrittenStores ==
    ASSUME StoresAreSound, UNCHANGED <<knowledge, verdict>> PROVE StoresAreSound'
BY DEF StoresAreSound, FamiliesAreSound, FiledAreOpen, DraftsAreSound, DraftIsSound,
       KnownWasPromoted, HistoryIsTrue, Sound, Exists, Drafted, knowledge

\* A worker moves: what it carries has to be sound afterwards, all else follows.
LEMMA WorkerMoves ==
    ASSUME IInv, Grows, StoresAreSound', TypeOK', NEW w \in Workers,
           \A v \in Workers \ {w} : ingest'[v] = ingest[v], UNCHANGED call,
           WorkerIsSound(w)'
    PROVE  IInv'
<1>1. ASSUME NEW v \in Workers PROVE WorkerIsSound(v)'
  BY WorkerStays DEF IInv
<1>2. ASSUME NEW c \in Callers PROVE CallIsSound(c)'
  BY CallStays DEF IInv
<1> QED
  BY <1>1, <1>2 DEF IInv

\* A call moves: the same.
LEMMA CallMoves ==
    ASSUME IInv, Grows, StoresAreSound', TypeOK', NEW c \in Callers,
           \A d \in Callers \ {c} : call'[d] = call[d], UNCHANGED ingest,
           CallIsSound(c)'
    PROVE  IInv'
<1>1. ASSUME NEW w \in Workers PROVE WorkerIsSound(w)'
  BY WorkerStays DEF IInv
<1>2. ASSUME NEW d \in Callers PROVE CallIsSound(d)'
  BY CallStays DEF IInv
<1> QED
  BY <1>1, <1>2 DEF IInv

--------------------------------------------------------------------------------
(* The initial state *)

\* The values Init gives to the rows are well-typed.
LEMMA InitialValues ==
    /\ [end |-> "NONE", holder |-> None, attempts |-> 0] \in Jobs
    /\ Undiagnosed \in Verdicts /\ IdleIngest \in Ingests /\ NoFamily \in Payloads
    /\ NoDraft \in Drafts /\ NoEntry \in Entries /\ NoCall \in Calls
<1>1. NoFamily \in Payloads
  BY DEF NoFamily, Payloads, Statuses
<1>2. [end |-> "NONE", holder |-> None, attempts |-> 0] \in Jobs
  BY DEF Jobs
<1>3. Undiagnosed \in Verdicts /\ NoDraft \in Drafts /\ NoEntry \in Entries
  BY DEF Undiagnosed, Verdicts, NoDraft, Drafts, NoEntry, Entries
<1>4. IdleIngest \in Ingests
  BY DEF IdleIngest, Ingests, IngestPCs, Statuses, Open
<1>5. NoCall \in Calls
  BY <1>1 DEF NoCall, Calls, CallPCs
<1> QED
  BY <1>1, <1>2, <1>3, <1>4, <1>5

\* A well-typed value put in a field of a call leaves the call well-typed.
LEMMA FieldPut ==
    ASSUME NEW n \in Calls
    PROVE  /\ \A v \in CallPCs : [n EXCEPT !.pc = v] \in Calls
           /\ \A v \in Decisions \cup {"NONE"} : [n EXCEPT !.decision = v] \in Calls
           /\ \A v \in Families \cup {None} : [n EXCEPT !.family = v] \in Calls
           /\ \A v \in Families \cup {None} : [n EXCEPT !.target = v] \in Calls
           /\ \A v \in Payloads : [n EXCEPT !.held = v] \in Calls
           /\ \A v \in Payloads : [n EXCEPT !.source = v] \in Calls
           /\ \A v \in Payloads : [n EXCEPT !.goal = v] \in Calls
           /\ \A v \in SUBSET Incidents : [n EXCEPT !.rows = v] \in Calls
           /\ \A v \in SUBSET Incidents : [n EXCEPT !.controls = v] \in Calls
           /\ \A v \in Clauses \cup {None} : [n EXCEPT !.clause = v] \in Calls
           /\ \A v \in Registrations \cup {None} : [n EXCEPT !.registration = v] \in Calls
<1>1. \A v \in CallPCs : [n EXCEPT !.pc = v] \in Calls
  BY DEF Calls
<1>2. \A v \in Decisions \cup {"NONE"} : [n EXCEPT !.decision = v] \in Calls
  BY DEF Calls
<1>3. \A v \in Families \cup {None} : [n EXCEPT !.family = v] \in Calls
  BY DEF Calls
<1>4. \A v \in Families \cup {None} : [n EXCEPT !.target = v] \in Calls
  BY DEF Calls
<1>5. \A v \in Payloads : [n EXCEPT !.held = v] \in Calls
  BY DEF Calls
<1>6. \A v \in Payloads : [n EXCEPT !.source = v] \in Calls
  BY DEF Calls
<1>7. \A v \in Payloads : [n EXCEPT !.goal = v] \in Calls
  BY DEF Calls
<1>8. \A v \in SUBSET Incidents : [n EXCEPT !.rows = v] \in Calls
  BY DEF Calls
<1>9. \A v \in SUBSET Incidents : [n EXCEPT !.controls = v] \in Calls
  BY DEF Calls
<1>10. \A v \in Clauses \cup {None} : [n EXCEPT !.clause = v] \in Calls
  BY DEF Calls
<1>11. \A v \in Registrations \cup {None} : [n EXCEPT !.registration = v] \in Calls
  BY DEF Calls
<1> QED
  BY <1>1, <1>2, <1>3, <1>4, <1>5, <1>6, <1>7, <1>8, <1>9, <1>10, <1>11

\* The inductive invariant holds initially: nothing is stored, nobody is at work.
LEMMA InitInvariant == Init => IInv
<1> SUFFICES ASSUME Init PROVE IInv
  OBVIOUS
<1> USE DEF Init
<1>1. TypeOK
  BY InitialValues DEF TypeOK
<1>2. StoresAreSound
  <2>1. FamiliesAreSound
    BY DEF FamiliesAreSound, Sound, NoFamily
  <2>2. FiledAreOpen
    BY DEF FiledAreOpen
  <2>3. DraftsAreSound
    BY DEF DraftsAreSound, DraftIsSound, Drafted, NoDraft, NoEntry
  <2>4. KnownWasPromoted
    BY DEF KnownWasPromoted, Undiagnosed
  <2>5. HistoryIsTrue
    BY DEF HistoryIsTrue, NoEntry
  <2> QED
    BY <2>1, <2>2, <2>3, <2>4, <2>5 DEF StoresAreSound
<1>3. \A w \in Workers : WorkerIsSound(w)
  BY DEF WorkerIsSound, IdleIngest
<1>4. \A c \in Callers : CallIsSound(c)
  BY DEF CallIsSound, Carried, NoCall, Merges, Copied
<1> QED
  BY <1>1, <1>2, <1>3, <1>4 DEF IInv

--------------------------------------------------------------------------------
(* The worker's steps *)

\* A worker that only moves on writes no store.
LEMMA WorkerReads ==
    ASSUME IInv, NEW w \in Workers, NEW row \in Ingests,
           ingest' = [ingest EXCEPT ![w] = row], job' \in [Incidents -> Jobs],
           UNCHANGED <<verdict, knowledge, call, begun>>, WorkerIsSound(w)'
    PROVE  IInv'
<1>1. Grows /\ StoresAreSound'
  BY UnwrittenGrows, UnwrittenStores DEF IInv
<1>2. TypeOK'
  BY DEF IInv, TypeOK, knowledge
<1>3. \A v \in Workers \ {w} : ingest'[v] = ingest[v]
  BY DEF IInv, TypeOK
<1> QED
  BY <1>1, <1>2, <1>3, WorkerMoves

\* Once idle, a worker carries nothing.
LEMMA IdleIsSound ==
    ASSUME NEW w \in Workers, TypeOK, ingest' = [ingest EXCEPT ![w] = IdleIngest]
    PROVE  WorkerIsSound(w)'
BY DEF WorkerIsSound, IdleIngest, TypeOK

LEMMA TakeStep == ASSUME IInv, NEW w \in Workers, NEW i \in Incidents, Take(w, i) PROVE IInv'
<1> DEFINE row == [IdleIngest EXCEPT !.pc = "MATCH", !.incident = i, !.known = Active]
<1>1. row \in Ingests
  BY DEF IdleIngest, Ingests, IngestPCs, Statuses, Open, Active
<1>2. job' \in [Incidents -> Jobs]
  <2>0. job[i] \in Jobs
    BY DEF IInv, TypeOK
  <2>1. [job[i] EXCEPT !.holder = w, !.attempts = @ + 1] \in Jobs
    <3>1. job[i].attempts + 1 \in Nat /\ w \in Workers \cup {None}
      BY <2>0 DEF Jobs
    <3> HIDE DEF row
    <3> QED
      BY <2>0, <3>1 DEF Jobs
  <2>2. job' = [job EXCEPT ![i] = [job[i] EXCEPT !.holder = w, !.attempts = @ + 1]]
    BY DEF Take
  <2> QED
    BY <2>1, <2>2 DEF IInv, TypeOK
<1>3. ingest' = [ingest EXCEPT ![w] = row] /\ UNCHANGED <<verdict, knowledge, call, begun>>
  BY DEF Take
<1>4. WorkerIsSound(w)'
  <2>1. ingest'[w] = row /\ UNCHANGED registry
    BY <1>3 DEF IInv, TypeOK, knowledge
  <2>2. /\ row.pc = "MATCH" /\ row.incident = i
        /\ \A r \in row.known : registry[r].status # "NONE"
    BY DEF IdleIngest, Active
  <2> HIDE DEF row
  <2> QED
    BY <2>1, <2>2 DEF WorkerIsSound
<1> QED
  <2> HIDE DEF row
  <2> QED
    BY <1>1, <1>2, <1>3, <1>4, WorkerReads

\* A worker that stops, with or without the end of its job, carries nothing.
LEMMA StopStep ==
    ASSUME IInv, NEW w \in Workers, Finish(w) \/ Fail(w) \/ LoseLease(w) \/ Crash(w)
    PROVE  IInv'
<1>1. /\ ingest' = [ingest EXCEPT ![w] = IdleIngest]
      /\ UNCHANGED <<verdict, knowledge, call, begun>>
  BY DEF Finish, Fail, LoseLease, Crash, End, Drop
<1>2. job' \in [Incidents -> Jobs]
  <2>1. ASSUME NEW end \in {"SUCCEEDED", "FAILED"}, End(w, end) PROVE job' \in [Incidents -> Jobs]
    <3>0. Incident(w) \in Incidents => job[Incident(w)] \in Jobs
      BY DEF IInv, TypeOK
    <3>1. Incident(w) \in Incidents => [job[Incident(w)] EXCEPT !.end = end, !.holder = None] \in Jobs
      BY <3>0 DEF Jobs
    <3>2. job' = [job EXCEPT ![Incident(w)] = [job[Incident(w)] EXCEPT !.end = end, !.holder = None]]
      BY <2>1 DEF End
    <3> QED
      BY <3>1, <3>2 DEF IInv, TypeOK
  <2> QED
    BY <2>1 DEF IInv, TypeOK, Finish, Fail, LoseLease, Crash, Drop
<1> QED
  BY <1>1, <1>2, IdleIsSound, InitialValues, WorkerReads DEF IInv

LEMMA PublishStep == ASSUME IInv, NEW w \in Workers, Publish(w) PROVE IInv'
<1> DEFINE i == Incident(w)
<1>1. TypeOK /\ i \in Incidents /\ verdict[i] \in Verdicts /\ ingest[w] \in Ingests
  BY DEF IInv, TypeOK, WorkerIsSound, Incident, Publish, At
<1>2. PICK v \in Verdicts :
          /\ verdict' = [verdict EXCEPT ![i] = v]
          /\ verdict[i] # Undiagnosed => v = verdict[i]
          /\ v.terminal = "EXTENSION_KNOWN" /\ v # verdict[i] => v.by \in ingest[w].known
  <2>1. CASE verdict[i] # Undiagnosed /\ UNCHANGED verdict
    <3>1. verdict' = [verdict EXCEPT ![i] = verdict[i]]
      BY <1>1, <2>1 DEF TypeOK
    <3> QED
      BY <1>1, <2>1, <3>1
  <2>2. CASE /\ verdict[i] = Undiagnosed
             /\ \E v \in [terminal : {"OPEN_WORLD", "OTHER"}, by : {None}]
                             \cup [terminal : {"EXTENSION_KNOWN"}, by : ingest[w].known] :
                   verdict' = [verdict EXCEPT ![i] = v]
    <3>1. PICK v \in [terminal : {"OPEN_WORLD", "OTHER"}, by : {None}]
                         \cup [terminal : {"EXTENSION_KNOWN"}, by : ingest[w].known] :
                  verdict' = [verdict EXCEPT ![i] = v]
      BY <2>2
    <3>2. ingest[w].known \subseteq Registrations
      BY <1>1 DEF Ingests
    <3>3. v \in Verdicts /\ (v.terminal = "EXTENSION_KNOWN" => v.by \in ingest[w].known)
      BY <3>2 DEF Verdicts
    <3> QED
      BY <2>2, <3>1, <3>3
  <2> QED
    BY <2>1, <2>2 DEF Publish
<1>3. PICK pc \in {"LOOKUP", "FINISH"} :
          /\ ingest' = [ingest EXCEPT ![w] = [ingest[w] EXCEPT !.pc = pc]]
          /\ pc = "LOOKUP" => verdict'[i].terminal = "OPEN_WORLD"
  <2>1. Move(w, IF verdict'[i].terminal = "OPEN_WORLD" THEN "LOOKUP" ELSE "FINISH")
    BY DEF Publish
  <2> QED
    BY <2>1 DEF Move
<1>4. UNCHANGED <<job, knowledge, call, begun>>
  BY DEF Publish
<1>5. verdict' \in [Incidents -> Verdicts] /\ verdict'[i] = v
      /\ \A k \in Incidents \ {i} : verdict'[k] = verdict[k]
  BY <1>1, <1>2 DEF TypeOK
<1>6. [ingest[w] EXCEPT !.pc = pc] \in Ingests
  BY <1>1 DEF Ingests, IngestPCs
<1>7. TypeOK'
  BY <1>1, <1>3, <1>4, <1>5, <1>6 DEF TypeOK, knowledge
<1>8. Grows
  BY <1>2, <1>4, <1>5 DEF Grows, knowledge, Exists, Drafted
<1>9. StoresAreSound'
  <2>1. FamiliesAreSound' /\ DraftsAreSound' /\ HistoryIsTrue'
    BY <1>4 DEF IInv, StoresAreSound, FamiliesAreSound, DraftsAreSound, DraftIsSound,
                HistoryIsTrue, Sound, Exists, Drafted, knowledge
  <2>2. FiledAreOpen'
    <3> SUFFICES ASSUME NEW f \in Families, NEW k \in members[f]
                 PROVE  verdict'[k].terminal = "OPEN_WORLD"
      BY <1>4 DEF FiledAreOpen, knowledge
    <3>1. k \in Incidents /\ verdict[k].terminal = "OPEN_WORLD"
      BY <1>1 DEF IInv, TypeOK, StoresAreSound, FiledAreOpen
    <3> QED
      BY <1>8, <3>1 DEF Grows, Undiagnosed
  <2>3. KnownWasPromoted'
    <3> SUFFICES ASSUME NEW k \in Incidents, verdict'[k].terminal = "EXTENSION_KNOWN"
                 PROVE  registry[verdict'[k].by].status # "NONE"
      BY <1>4 DEF KnownWasPromoted, knowledge
    <3>1. CASE verdict'[k] = verdict[k]
      BY <3>1 DEF IInv, StoresAreSound, KnownWasPromoted
    <3>2. CASE verdict'[k] # verdict[k]
      <4>1. k = i /\ v.by \in ingest[w].known
        BY <1>2, <1>5, <3>2
      <4> QED
        BY <1>5, <4>1 DEF IInv, WorkerIsSound
    <3> QED
      BY <3>1, <3>2
  <2> QED
    BY <2>1, <2>2, <2>3 DEF StoresAreSound
<1>10. WorkerIsSound(w)'
  <2>1. ingest'[w] = [ingest[w] EXCEPT !.pc = pc]
    BY <1>1, <1>3 DEF TypeOK
  <2>2. /\ ingest'[w].pc = pc /\ ingest'[w].incident = i
        /\ ingest'[w].known = ingest[w].known
    BY <1>1, <2>1 DEF Ingests, Incident
  <2>3. \A r \in ingest[w].known : registry'[r].status # "NONE"
    BY <1>4 DEF IInv, WorkerIsSound, knowledge
  <2> QED
    BY <1>1, <1>3, <2>2, <2>3 DEF WorkerIsSound
<1>11. \A u \in Workers \ {w} : ingest'[u] = ingest[u]
  BY <1>1, <1>3 DEF TypeOK
<1> QED
  BY <1>4, <1>7, <1>8, <1>9, <1>10, <1>11, WorkerMoves

\* The status a family has now may be written back, without what it shows.
LEMMA PriorIsSound ==
    ASSUME IInv, NEW f \in Families, family[f].status # "MERGED"
    PROVE  Sound([status |-> family[f].status, shown |-> {}, into |-> None], f)
BY DEF IInv, StoresAreSound, FamiliesAreSound, Sound

\* A worker at work runs the job of an incident.
LEMMA AtWork ==
    ASSUME IInv, NEW w \in Workers, ~At(w, "IDLE")
    PROVE  Incident(w) \in Incidents /\ ingest[w] \in Ingests
BY DEF IInv, TypeOK, WorkerIsSound, At, Incident

LEMMA LookupStep == ASSUME IInv, NEW w \in Workers, Lookup(w) PROVE IInv'
<1>1. ingest[w] \in Ingests /\ ingest[w].pc = "LOOKUP" /\ WorkerIsSound(w)
  BY AtWork DEF Lookup, At, IInv
<1>2. PICK pc \in {"CHOOSE", "REREAD"}, f \in Families \cup {None} :
          /\ ingest' = [ingest EXCEPT ![w] = [ingest[w] EXCEPT !.pc = pc, !.family = f]]
          /\ pc = "REREAD" => f \in Families
  <2>1. CASE Move(w, "CHOOSE")
    <3>1. [ingest[w] EXCEPT !.pc = "CHOOSE"]
              = [ingest[w] EXCEPT !.pc = "CHOOSE", !.family = ingest[w].family]
      BY <1>1 DEF Ingests
    <3>2. ingest[w].family \in Families \cup {None}
      BY <1>1 DEF Ingests
    <3> QED
      BY <2>1, <3>1, <3>2 DEF Move
  <2>2. CASE \E f \in Families :
                ingest' = [ingest EXCEPT ![w].pc = "REREAD", ![w].family = f]
    BY <2>2
  <2> QED
    BY <2>1, <2>2 DEF Lookup
<1> DEFINE row == [ingest[w] EXCEPT !.pc = pc, !.family = f]
<1>3. row \in Ingests
  BY <1>1 DEF Ingests, IngestPCs
<1>4. UNCHANGED <<verdict, knowledge, call, begun>> /\ job' \in [Incidents -> Jobs]
  BY DEF Lookup, IInv, TypeOK
<1>5. WorkerIsSound(w)'
  <2>1. /\ row.pc = pc /\ row.family = f
        /\ row.incident = ingest[w].incident /\ row.known = ingest[w].known
    BY <1>1 DEF Ingests
  <2>2. ingest'[w] = row
    BY <1>2 DEF IInv, TypeOK
  <2> HIDE DEF row
  <2> QED
    BY <1>1, <1>2, <1>4, <2>1, <2>2 DEF WorkerIsSound, knowledge
<1> QED
  <2> HIDE DEF row
  <2> QED
    BY <1>2, <1>3, <1>4, <1>5, WorkerReads DEF row

LEMMA ChooseStep == ASSUME IInv, NEW w \in Workers, Choose(w) PROVE IInv'
<1>1. ingest[w] \in Ingests /\ ingest[w].pc = "CHOOSE" /\ WorkerIsSound(w)
  BY AtWork DEF Choose, At, IInv
<1>2. PICK f \in Families \cup {None}, prior \in Statuses :
          /\ ingest' = [ingest EXCEPT ![w] =
                 [ingest[w] EXCEPT !.pc = "ASSIGN", !.family = f, !.prior = prior]]
          /\ prior \notin {"ABSENT", "MERGED"}
          /\ f = None => prior = "ACCUMULATING"
          /\ f \in Families => Sound([status |-> prior, shown |-> {}, into |-> None], f)
  <2>1. CASE ingest' = [ingest EXCEPT ![w].pc = "ASSIGN", ![w].family = None,
                                      ![w].prior = "ACCUMULATING"]
    <3>1. "ACCUMULATING" \in Statuses
      BY DEF Statuses, Open
    <3>2. None \in Families \cup {None} /\ None \notin Families
      BY NoneAssumption
    <3>3. ingest' = [ingest EXCEPT ![w] =
              [ingest[w] EXCEPT !.pc = "ASSIGN", !.family = None, !.prior = "ACCUMULATING"]]
      BY <2>1
    <3> QED
      BY <3>1, <3>2, <3>3
  <2>2. CASE \E f \in Families :
                /\ Exists(f) /\ family[f].status \notin {"MERGED", "REJECTED"}
                /\ ingest' = [ingest EXCEPT ![w].pc = "ASSIGN", ![w].family = f,
                                           ![w].prior = family[f].status]
    <3>1. PICK f \in Families :
              /\ Exists(f) /\ family[f].status \notin {"MERGED", "REJECTED"}
              /\ ingest' = [ingest EXCEPT ![w].pc = "ASSIGN", ![w].family = f,
                                         ![w].prior = family[f].status]
      BY <2>2
    <3>2. family[f].status \in Statuses
      BY DEF IInv, TypeOK, Payloads
    <3> QED
      BY <3>1, <3>2, PriorIsSound, NoneAssumption DEF Exists
  <2> QED
    BY <2>1, <2>2 DEF Choose
<1> DEFINE row == [ingest[w] EXCEPT !.pc = "ASSIGN", !.family = f, !.prior = prior]
<1>3. row \in Ingests
  BY <1>1 DEF Ingests, IngestPCs
<1>4. UNCHANGED <<verdict, knowledge, call, begun>> /\ job' \in [Incidents -> Jobs]
  BY DEF Choose, IInv, TypeOK
<1>5. WorkerIsSound(w)'
  <2>1. /\ row.pc = "ASSIGN" /\ row.family = f /\ row.prior = prior
        /\ row.incident = ingest[w].incident /\ row.known = ingest[w].known
    BY <1>1 DEF Ingests
  <2>2. ingest'[w] = row
    BY <1>2 DEF IInv, TypeOK
  <2>3. f \in Families => Sound([status |-> prior, shown |-> {}, into |-> None], f)'
    BY <1>2, <1>4, SoundStays, UnwrittenGrows
  <2> HIDE DEF row
  <2> QED
    BY <1>1, <1>2, <1>4, <2>1, <2>2, <2>3 DEF WorkerIsSound, knowledge
<1> QED
  <2> HIDE DEF row
  <2> QED
    BY <1>2, <1>3, <1>4, <1>5, WorkerReads DEF row

LEMMA RereadStep == ASSUME IInv, NEW w \in Workers, Reread(w) PROVE IInv'
<1>1. ingest[w] \in Ingests /\ ingest[w].pc = "REREAD" /\ WorkerIsSound(w)
  BY AtWork DEF Reread, At, IInv
<1> PICK f \in Families : f = ingest[w].family
  BY <1>1 DEF WorkerIsSound
<1> DEFINE status == family[f].status
<1>2. status \in Statuses
  BY DEF IInv, TypeOK, Payloads
<1>3. PICK pc \in {"ROWS", "FINISH"}, prior \in Statuses :
          /\ ingest' = [ingest EXCEPT ![w] = [ingest[w] EXCEPT !.pc = pc, !.prior = prior]]
          /\ pc = "ROWS" => prior = status /\ status \in Open
  <2>1. CASE status \in Open
    <3>1. ingest' = [ingest EXCEPT ![w].pc = "ROWS", ![w].prior = status]
      BY <2>1 DEF Reread
    <3> QED
      BY <1>2, <2>1, <3>1
  <2>2. CASE status \notin Open
    <3>1. ingest' = [ingest EXCEPT ![w].pc = "FINISH"]
      BY <2>2 DEF Reread, Move
    <3>2. [ingest[w] EXCEPT !.pc = "FINISH"]
              = [ingest[w] EXCEPT !.pc = "FINISH", !.prior = ingest[w].prior]
      BY <1>1 DEF Ingests
    <3>3. ingest[w].prior \in Statuses
      BY <1>1 DEF Ingests
    <3> QED
      BY <3>1, <3>2, <3>3
  <2> QED
    BY <2>1, <2>2
<1> DEFINE row == [ingest[w] EXCEPT !.pc = pc, !.prior = prior]
<1>4. row \in Ingests
  BY <1>1 DEF Ingests, IngestPCs
<1>5. UNCHANGED <<verdict, knowledge, call, begun>> /\ job' \in [Incidents -> Jobs]
  BY DEF Reread, IInv, TypeOK
<1>6. WorkerIsSound(w)'
  <2>1. /\ row.pc = pc /\ row.family = f /\ row.prior = prior
        /\ row.incident = ingest[w].incident /\ row.known = ingest[w].known
    BY <1>1 DEF Ingests
  <2>2. ingest'[w] = row
    BY <1>3 DEF IInv, TypeOK
  <2>3. pc = "ROWS" => Sound([status |-> prior, shown |-> {}, into |-> None], f)
    BY <1>2, <1>3, PriorIsSound DEF Open
  <2>4. pc = "ROWS" => Sound([status |-> prior, shown |-> {}, into |-> None], f)'
    BY <1>5, <2>3, SoundStays, UnwrittenGrows
  <2> HIDE DEF row
  <2> QED
    BY <1>1, <1>2, <1>3, <1>5, <2>1, <2>2, <2>4 DEF WorkerIsSound, knowledge, Open
<1> QED
  <2> HIDE DEF row
  <2> QED
    BY <1>3, <1>4, <1>5, <1>6, WorkerReads DEF row

LEMMA ReadRowsStep == ASSUME IInv, NEW w \in Workers, ReadRows(w) PROVE IInv'
<1>1. ingest[w] \in Ingests /\ ingest[w].pc = "ROWS" /\ WorkerIsSound(w)
  BY AtWork DEF ReadRows, At, IInv
<1> PICK f \in Families : f = ingest[w].family
  BY <1>1 DEF WorkerIsSound
<1> PICK prior \in Statuses : prior = ingest[w].prior
  BY <1>1 DEF Ingests
<1> DEFINE row == [ingest[w] EXCEPT !.pc = "PUT", !.rows = members[f]]
<1>2. members[f] \subseteq Incidents
  BY DEF IInv, TypeOK
<1>3. row \in Ingests
  BY <1>1, <1>2 DEF Ingests, IngestPCs
<1>4. ingest' = [ingest EXCEPT ![w] = row]
  BY DEF ReadRows
<1>5. UNCHANGED <<verdict, knowledge, call, begun>> /\ job' \in [Incidents -> Jobs]
  BY DEF ReadRows, IInv, TypeOK
<1>6. WorkerIsSound(w)'
  <2>1. /\ row.pc = "PUT" /\ row.family = f /\ row.prior = prior /\ row.rows = members[f]
        /\ row.incident = ingest[w].incident /\ row.known = ingest[w].known
    BY <1>1 DEF Ingests
  <2>2. ingest'[w] = row
    BY <1>4 DEF IInv, TypeOK
  <2>3. Sound([status |-> prior, shown |-> {}, into |-> None], f)
    BY <1>1 DEF WorkerIsSound
  <2>4. Sound([status |-> prior, shown |-> {}, into |-> None], f)'
    BY <1>5, <2>3, SoundStays, UnwrittenGrows
  <2> HIDE DEF row
  <2> QED
    BY <1>1, <1>5, <2>1, <2>2, <2>4 DEF WorkerIsSound, knowledge
<1> QED
  <2> HIDE DEF row
  <2> QED
    BY <1>3, <1>4, <1>5, <1>6, WorkerReads

\* A family may be written with any payload that claims only what is stored.
LEMMA FamilyWritten ==
    ASSUME IInv, Grows, NEW f \in Families, NEW p, Sound(p, f)',
           family' = [family EXCEPT ![f] = p]
    PROVE  FamiliesAreSound'
<1> SUFFICES ASSUME NEW g \in Families PROVE Sound(family[g], g)'
  BY DEF FamiliesAreSound
<1> PICK q : q = family'[g]
  OBVIOUS
<1>1. family \in [Families -> Payloads] /\ Sound(family[g], g)
  BY DEF IInv, TypeOK, StoresAreSound, FamiliesAreSound
<1>2. CASE g = f
  <2>1. q = p
    BY <1>1, <1>2
  <2> QED
    BY <1>2, <2>1
<1>3. CASE g # f
  <2>1. Sound(q, g)
    BY <1>1, <1>3
  <2>2. Sound(q, g)'
    BY <2>1, SoundStays
  <2> QED
    BY <2>2
<1> QED
  BY <1>2, <1>3

\* A step that writes one family, and at most adds an accepting review.
LEMMA OneFamilyWritten ==
    ASSUME IInv, NEW f \in Families, NEW p, p.status # "ABSENT", Sound(p, f)',
           family' = [family EXCEPT ![f] = p], accepted \subseteq accepted',
           UNCHANGED <<verdict, members, draft, shadow, registry, versions>>
    PROVE  Grows /\ StoresAreSound'
<1>1. Grows
  <2>1. ASSUME NEW g \in Families, Exists(g) PROVE Exists(g)'
    BY <2>1 DEF Exists, IInv, TypeOK
  <2> QED
    BY <2>1 DEF Grows, Drafted
<1>2. FamiliesAreSound'
  BY <1>1, FamilyWritten
<1>3. FiledAreOpen' /\ DraftsAreSound' /\ KnownWasPromoted' /\ HistoryIsTrue'
  BY DEF IInv, StoresAreSound, FiledAreOpen, DraftsAreSound, DraftIsSound, KnownWasPromoted,
         HistoryIsTrue, Drafted
<1> QED
  BY <1>1, <1>2, <1>3 DEF StoresAreSound

LEMMA PutStep == ASSUME IInv, NEW w \in Workers, Put(w) PROVE IInv'
<1>1. ingest[w] \in Ingests /\ ingest[w].pc = "PUT" /\ WorkerIsSound(w)
  BY AtWork DEF Put, At, IInv
<1> PICK f \in Families : f = ingest[w].family
  BY <1>1 DEF WorkerIsSound
<1> PICK rows \in SUBSET Incidents, prior \in Statuses :
        rows = ingest[w].rows /\ prior = ingest[w].prior
  BY <1>1 DEF Ingests
<1> DEFINE p == [status |-> Readiness(prior, rows), shown |-> rows, into |-> None]
<1>2. family' = [family EXCEPT ![f] = p] /\ UNCHANGED <<job, call, begun>>
      /\ UNCHANGED <<verdict, members, accepted, draft, shadow, registry, versions>>
  BY DEF Put
<1>3. /\ Readiness(prior, rows) \in Statuses
      /\ Readiness(prior, rows) = prior \/ Readiness(prior, rows) \in Open
  BY DEF Readiness, Statuses, Open
<1>4. prior \notin {"ABSENT", "MERGED"}
      /\ Sound([status |-> prior, shown |-> {}, into |-> None], f)
      /\ rows \subseteq members[f]
  BY <1>1 DEF WorkerIsSound
<1>5. Sound(p, f)'
  BY <1>2, <1>3, <1>4 DEF Sound, Open
<1>6. Grows /\ StoresAreSound'
  <2>1. p.status # "ABSENT"
    BY <1>3, <1>4 DEF Open
  <2> HIDE DEF p
  <2> QED
    BY <1>2, <1>5, <2>1, OneFamilyWritten
<1> DEFINE row == [ingest[w] EXCEPT !.pc = "FINISH"]
<1>7. row \in Ingests /\ ingest' = [ingest EXCEPT ![w] = row]
  BY <1>1 DEF Put, Move, Ingests, IngestPCs
<1>8. TypeOK'
  <2>1. p \in Payloads
    BY <1>3 DEF Payloads
  <2> HIDE DEF p, row
  <2> QED
    BY <1>2, <1>7, <2>1 DEF IInv, TypeOK
<1>9. WorkerIsSound(w)'
  <2>1. row.pc = "FINISH" /\ row.incident = ingest[w].incident /\ row.known = ingest[w].known
    BY <1>1 DEF Ingests
  <2>2. ingest'[w] = row
    BY <1>7 DEF IInv, TypeOK
  <2> HIDE DEF row, p
  <2> QED
    BY <1>1, <1>2, <2>1, <2>2 DEF WorkerIsSound
<1>10. \A v \in Workers \ {w} : ingest'[v] = ingest[v]
  BY <1>7 DEF IInv, TypeOK
<1> QED
  <2> HIDE DEF p, row
  <2> QED
    BY <1>2, <1>6, <1>8, <1>9, <1>10, WorkerMoves

LEMMA AssignStep == ASSUME IInv, NEW w \in Workers, Assign(w) PROVE IInv'
<1>1. ingest[w] \in Ingests /\ ingest[w].pc = "ASSIGN" /\ WorkerIsSound(w)
  BY AtWork DEF Assign, At, IInv
<1> PICK i \in Incidents : i = Incident(w)
  BY <1>1 DEF WorkerIsSound, Incident
<1> PICK prior \in Statuses : prior = ingest[w].prior
  BY <1>1 DEF Ingests
<1> DEFINE new == [status |-> "ACCUMULATING", shown |-> {i}, into |-> None]
<1>0. PICK f \in Families :
        /\ \/ f = ingest[w].family /\ UNCHANGED family
           \/ /\ ingest[w].family = None /\ ~Exists(f)
              /\ family' = [family EXCEPT ![f] =
                     [status |-> "ACCUMULATING", shown |-> {Incident(w)}, into |-> None]]
        /\ members' = [members EXCEPT ![f] = @ \cup {Incident(w)}]
        /\ ingest' = [ingest EXCEPT ![w].pc = "ROWS", ![w].family = f]
  BY DEF Assign
<1>2. /\ \/ f = ingest[w].family /\ UNCHANGED family
         \/ /\ ingest[w].family = None /\ ~Exists(f)
            /\ family' = [family EXCEPT ![f] = new]
      /\ members' = [members EXCEPT ![f] = @ \cup {i}]
      /\ ingest' = [ingest EXCEPT ![w] = [ingest[w] EXCEPT !.pc = "ROWS", !.family = f]]
  BY <1>0
<1>3. UNCHANGED <<job, verdict, accepted, draft, shadow, registry, versions, call, begun>>
  BY DEF Assign
<1>4. TypeOK /\ i \in members'[f]
      /\ \A g \in Families : members[g] \subseteq members'[g] /\ members'[g] \subseteq members[g] \cup {i}
  BY <1>2 DEF IInv, TypeOK
<1>5. new \in Payloads
  BY DEF Payloads, Statuses, Open
<1> DEFINE row == [ingest[w] EXCEPT !.pc = "ROWS", !.family = f]
<1>6. row \in Ingests
  BY <1>1 DEF Ingests, IngestPCs
<1>7. TypeOK'
  <2>1. family' \in [Families -> Payloads]
    BY <1>2, <1>4, <1>5 DEF TypeOK
  <2>2. members' \in [Families -> SUBSET Incidents]
    BY <1>2, <1>4 DEF TypeOK
  <2> HIDE DEF row
  <2> QED
    BY <1>2, <1>3, <1>4, <1>6, <2>1, <2>2 DEF TypeOK, row
<1>8. Grows
  <2>1. ASSUME NEW g \in Families, Exists(g) PROVE Exists(g)'
    BY <1>2, <1>4, <2>1 DEF Exists, TypeOK
  <2> QED
    BY <1>3, <1>4, <2>1 DEF Grows, Drafted
<1>9. StoresAreSound'
  <2>1. FamiliesAreSound'
    <3>1. CASE UNCHANGED family
      <4> SUFFICES ASSUME NEW g \in Families PROVE Sound(family[g], g)'
        BY DEF FamiliesAreSound
      <4> PICK q : q = family[g]
        OBVIOUS
      <4>1. Sound(q, g)
        BY DEF IInv, StoresAreSound, FamiliesAreSound
      <4>2. Sound(q, g)'
        BY <1>8, <4>1, SoundStays
      <4> QED
        BY <3>1, <4>2
    <3>2. CASE family' = [family EXCEPT ![f] = new]
      <4>1. Sound(new, f)'
        BY <1>4 DEF Sound
      <4> HIDE DEF new
      <4> QED
        BY <1>8, <3>2, <4>1, FamilyWritten
    <3> QED
      BY <1>2, <3>1, <3>2
  <2>2. FiledAreOpen'
    <3>1. verdict[i].terminal = "OPEN_WORLD"
      BY <1>1 DEF WorkerIsSound, Incident
    <3> QED
      BY <1>3, <1>4, <3>1 DEF IInv, StoresAreSound, FiledAreOpen
  <2>3. DraftsAreSound'
    <3> SUFFICES ASSUME NEW r \in Registrations PROVE DraftIsSound(r)'
      BY DEF DraftsAreSound
    <3>1. DraftIsSound(r)
      BY DEF IInv, StoresAreSound, DraftsAreSound
    <3>2. Drafted(r) => draft[r].of \in Families
      BY <1>4, <3>1 DEF DraftIsSound, TypeOK
    <3> QED
      BY <1>3, <1>4, <3>1, <3>2 DEF DraftIsSound, Drafted
  <2>4. KnownWasPromoted' /\ HistoryIsTrue'
    BY <1>3 DEF IInv, StoresAreSound, KnownWasPromoted, HistoryIsTrue
  <2> QED
    BY <2>1, <2>2, <2>3, <2>4 DEF StoresAreSound
<1>10. WorkerIsSound(w)'
  <2>1. /\ row.pc = "ROWS" /\ row.family = f /\ row.prior = prior
        /\ row.incident = ingest[w].incident /\ row.known = ingest[w].known
    BY <1>1 DEF Ingests
  <2>2. ingest'[w] = row
    BY <1>2, <1>4 DEF TypeOK
  <2>3. prior \notin {"ABSENT", "MERGED"}
    BY <1>1 DEF WorkerIsSound
  <2>4. Sound([status |-> prior, shown |-> {}, into |-> None], f)
    <3>1. CASE f = ingest[w].family
      BY <1>1, <3>1 DEF WorkerIsSound
    <3>2. CASE ingest[w].family = None
      BY <1>1, <3>2 DEF WorkerIsSound, Sound
    <3> QED
      BY <1>2, <3>1, <3>2
  <2>5. Sound([status |-> prior, shown |-> {}, into |-> None], f)'
    BY <1>8, <2>4, SoundStays
  <2> HIDE DEF row, new
  <2> QED
    BY <1>1, <1>3, <2>1, <2>2, <2>3, <2>5 DEF WorkerIsSound
<1>11. \A v \in Workers \ {w} : ingest'[v] = ingest[v]
  BY <1>2, <1>4 DEF TypeOK
<1> QED
  <2> HIDE DEF row, new
  <2> QED
    BY <1>3, <1>7, <1>8, <1>9, <1>10, <1>11, WorkerMoves

--------------------------------------------------------------------------------
(* The steps of the calls that only read *)

\* A call that only reads writes no store.
LEMMA CallReads ==
    ASSUME IInv, NEW c \in Callers, NEW record \in Calls,
           call' = [call EXCEPT ![c] = record], begun' \in Nat,
           UNCHANGED <<job, verdict, ingest, knowledge>>, Carried(record)
    PROVE  IInv'
<1>1. Grows /\ StoresAreSound'
  BY UnwrittenGrows, UnwrittenStores DEF IInv
<1>2. TypeOK'
  BY DEF IInv, TypeOK, knowledge
<1>3. \A d \in Callers \ {c} : call'[d] = call[d]
  BY DEF IInv, TypeOK
<1>4. Carried(record)' /\ call'[c] = record
  BY <1>1, CarriedStays DEF IInv, TypeOK
<1>5. CallIsSound(c)'
  BY <1>4 DEF CallIsSound
<1> QED
  BY <1>1, <1>2, <1>3, <1>5, CallMoves

\* A call that has returned carries nothing.
LEMMA NoCallIsSound == Carried(NoCall)
BY DEF Carried, NoCall, Merges, Copied

LEMMA AbandonStep == ASSUME IInv, NEW c \in Callers, Abandon(c) PROVE IInv'
<1>1. Return(c) /\ UNCHANGED <<job, verdict, ingest, knowledge, begun>> /\ begun \in Nat
  BY DEF Abandon, IInv, TypeOK
<1> QED
  BY <1>1, NoCallIsSound, InitialValues, CallReads DEF Return

\* A call that begins with a sound record writes nothing.
LEMMA BeginStep ==
    ASSUME IInv, NEW c \in Callers, NEW record \in Calls, Begin(c, record), Carried(record)
    PROVE  IInv'
<1>1. /\ call' = [call EXCEPT ![c] = record] /\ begun' \in Nat
      /\ UNCHANGED <<job, verdict, ingest, knowledge>>
  BY DEF Begin, IInv, TypeOK
<1> QED
  BY <1>1, CallReads

\* A family as it is read claims only what is stored.
LEMMA ReadIsSound ==
    ASSUME IInv, NEW f \in Families PROVE family[f] \in Payloads /\ Sound(family[f], f)
BY DEF IInv, TypeOK, StoresAreSound, FamiliesAreSound

LEMMA BeginReviewStep ==
    ASSUME IInv, NEW c \in Callers, NEW f \in Families, NEW d \in Decisions,
           NEW g \in Families \cup {None}, BeginReview(c, f, d, g)
    PROVE  IInv'
<1> PICK pc \in CallPCs : pc = IF d = "MERGE" THEN "SOURCE" ELSE "DECIDE"
  BY DEF CallPCs
<1> PICK p \in Payloads : p = family[f] /\ Sound(p, f)
  BY ReadIsSound
<1> DEFINE record == [NoCall EXCEPT !.pc = pc, !.decision = d, !.family = f,
                                    !.target = g, !.held = p]
<1>1. record \in Calls
  <2>1. [NoCall EXCEPT !.pc = pc] \in Calls
    BY InitialValues, FieldPut DEF CallPCs
  <2>2. [[NoCall EXCEPT !.pc = pc] EXCEPT !.decision = d] \in Calls
    BY <2>1, FieldPut
  <2>3. [[NoCall EXCEPT !.pc = pc, !.decision = d] EXCEPT !.family = f] \in Calls
    BY <2>2, FieldPut
  <2>4. [[NoCall EXCEPT !.pc = pc, !.decision = d, !.family = f] EXCEPT !.target = g] \in Calls
    BY <2>3, FieldPut
  <2>5. [[NoCall EXCEPT !.pc = pc, !.decision = d, !.family = f, !.target = g] EXCEPT !.held = p] \in Calls
    BY <2>4, FieldPut
  <2> QED
    BY <2>5
<1>2. Begin(c, record)
  BY DEF BeginReview
<1>3. Carried(record)
  <2>1. /\ record.pc = pc /\ record.decision = d /\ record.family = f
        /\ record.target = g /\ record.held = p
    BY DEF NoCall
  <2>2. d = "MERGE" <=> g # None
    BY DEF BeginReview
  <2> HIDE DEF record
  <2> QED
    BY <2>1, <2>2 DEF Carried, Merges, Copied, Decisions
<1> QED
  <2> HIDE DEF record
  <2> QED
    BY <1>1, <1>2, <1>3, BeginStep

LEMMA BeginMergeStep ==
    ASSUME IInv, NEW c \in Callers, NEW f \in Families, NEW g \in Families, BeginMerge(c, f, g)
    PROVE  IInv'
<1> DEFINE record == [NoCall EXCEPT !.pc = "SOURCE", !.family = f, !.target = g]
<1>1. record \in Calls
  <2>1. [NoCall EXCEPT !.pc = "SOURCE"] \in Calls
    BY InitialValues, FieldPut DEF CallPCs
  <2>2. [[NoCall EXCEPT !.pc = "SOURCE"] EXCEPT !.family = f] \in Calls
    BY <2>1, FieldPut
  <2>3. [[NoCall EXCEPT !.pc = "SOURCE", !.family = f] EXCEPT !.target = g] \in Calls
    BY <2>2, FieldPut
  <2> QED
    BY <2>3
<1>2. Begin(c, record)
  BY DEF BeginMerge
<1>3. Carried(record)
  BY DEF NoCall, NoFamily, Carried, Sound, Merges, Copied
<1> QED
  <2> HIDE DEF record
  <2> QED
    BY <1>1, <1>2, <1>3, BeginStep

LEMMA BeginDraftStep ==
    ASSUME IInv, NEW c \in Callers, NEW f \in Families, BeginDraft(c, f) PROVE IInv'
<1> PICK p \in Payloads : p = family[f] /\ Sound(p, f)
  BY ReadIsSound
<1> DEFINE record == [NoCall EXCEPT !.pc = "MATRIX", !.family = f, !.held = p]
<1>1. record \in Calls
  <2>1. [NoCall EXCEPT !.pc = "MATRIX"] \in Calls
    BY InitialValues, FieldPut DEF CallPCs
  <2>2. [[NoCall EXCEPT !.pc = "MATRIX"] EXCEPT !.family = f] \in Calls
    BY <2>1, FieldPut
  <2>3. [[NoCall EXCEPT !.pc = "MATRIX", !.family = f] EXCEPT !.held = p] \in Calls
    BY <2>2, FieldPut
  <2> QED
    BY <2>3
<1>2. Begin(c, record) /\ f \in accepted
  BY DEF BeginDraft
<1>3. Carried(record)
  <2>1. record.pc = "MATRIX" /\ record.family = f /\ record.held = p
    BY DEF NoCall
  <2> HIDE DEF record
  <2> QED
    BY <1>2, <2>1 DEF Carried, Merges, Copied
<1> QED
  <2> HIDE DEF record
  <2> QED
    BY <1>1, <1>2, <1>3, BeginStep

LEMMA BeginPromoteStep ==
    ASSUME IInv, NEW c \in Callers, NEW r \in Registrations, BeginPromote(c, r) PROVE IInv'
<1>1. Compilable(r) /\ Drafted(r) /\ draft[r].of \in Families
  BY DEF BeginPromote, Compilable, IInv, TypeOK, StoresAreSound, DraftsAreSound, DraftIsSound
<1> PICK f \in Families : f = draft[r].of
  BY <1>1
<1> PICK p \in Payloads : p = family[f] /\ Sound(p, f)
  BY ReadIsSound
<1> DEFINE record == [NoCall EXCEPT !.pc = "PROMOTE", !.registration = r, !.family = f, !.held = p]
<1>2. record \in Calls
  <2>1. [NoCall EXCEPT !.pc = "PROMOTE"] \in Calls
    BY InitialValues, FieldPut DEF CallPCs
  <2>2. [[NoCall EXCEPT !.pc = "PROMOTE"] EXCEPT !.registration = r] \in Calls
    BY <2>1, FieldPut
  <2>3. [[NoCall EXCEPT !.pc = "PROMOTE", !.registration = r] EXCEPT !.family = f] \in Calls
    BY <2>2, FieldPut
  <2>4. [[NoCall EXCEPT !.pc = "PROMOTE", !.registration = r, !.family = f] EXCEPT !.held = p] \in Calls
    BY <2>3, FieldPut
  <2> QED
    BY <2>4
<1>3. Begin(c, record) /\ Valid([p EXCEPT !.status = "PROMOTED"])
  BY DEF BeginPromote
<1>4. p.into = None
  BY <1>3 DEF Valid, Payloads
<1>5. Carried(record)
  <2>1. record.pc = "PROMOTE" /\ record.family = f /\ record.held = p /\ record.registration = r
    BY DEF NoCall
  <2> HIDE DEF record
  <2> QED
    BY <1>1, <1>4, <2>1 DEF Carried, Merges, Copied
<1> QED
  <2> HIDE DEF record
  <2> QED
    BY <1>2, <1>3, <1>5, BeginStep

\* A call under way carries a sound record.
LEMMA UnderWay ==
    ASSUME IInv, NEW c \in Callers PROVE call[c] \in Calls /\ Carried(call[c])
BY DEF IInv, TypeOK, CallIsSound

LEMMA ReadSourceStep == ASSUME IInv, NEW c \in Callers, ReadSource(c) PROVE IInv'
<1> PICK n \in Calls : n = call[c] /\ Carried(n) /\ n.pc = "SOURCE"
  BY UnderWay DEF ReadSource, Calling
<1> PICK f \in Families : f = n.family
  BY DEF Carried
<1> PICK p \in Payloads : p = family[f] /\ Sound(p, f)
  BY ReadIsSound
<1> DEFINE record == [n EXCEPT !.pc = "TARGET", !.source = p]
<1>1. record \in Calls
  <2>1. [n EXCEPT !.pc = "TARGET"] \in Calls
    BY FieldPut DEF CallPCs
  <2>2. [[n EXCEPT !.pc = "TARGET"] EXCEPT !.source = p] \in Calls
    BY <2>1, FieldPut
  <2> QED
    BY <2>2
<1>2. call' = [call EXCEPT ![c] = record] /\ UNCHANGED <<job, verdict, ingest, knowledge, begun>>
  BY DEF ReadSource
<1>3. Carried(record)
  <2>1. /\ record.pc = "TARGET" /\ record.source = p
        /\ record.family = n.family /\ record.target = n.target
        /\ record.decision = n.decision /\ record.held = n.held
    BY DEF Calls
  <2> HIDE DEF record
  <2> QED
    BY <2>1 DEF Carried, Merges, Copied
<1> QED
  <2> HIDE DEF record
  <2>1. begun \in Nat
    BY DEF IInv, TypeOK
  <2> QED
    BY <1>1, <1>2, <1>3, <2>1, CallReads

LEMMA ReadTargetStep == ASSUME IInv, NEW c \in Callers, ReadTarget(c) PROVE IInv'
<1> PICK n \in Calls : n = call[c] /\ Carried(n) /\ n.pc = "TARGET"
  BY UnderWay DEF ReadTarget, Calling
<1>1. n.target \in Families
  BY DEF Carried
<1> PICK g \in Families : g = n.target
  BY <1>1
<1> PICK p \in Payloads : p = family[g] /\ Sound(p, g)
  BY ReadIsSound
<1> DEFINE record == [n EXCEPT !.pc = "COPY", !.goal = p]
<1>2. record \in Calls
  <2>1. [n EXCEPT !.pc = "COPY"] \in Calls
    BY FieldPut DEF CallPCs
  <2>2. [[n EXCEPT !.pc = "COPY"] EXCEPT !.goal = p] \in Calls
    BY <2>1, FieldPut
  <2> QED
    BY <2>2
<1>3. call' = [call EXCEPT ![c] = record] /\ UNCHANGED <<job, verdict, ingest, knowledge, begun>>
  BY DEF ReadTarget
<1>4. Carried(record)
  <2>1. /\ record.pc = "COPY" /\ record.goal = p
        /\ record.family = n.family /\ record.target = g
        /\ record.decision = n.decision /\ record.held = n.held /\ record.source = n.source
    BY DEF Calls
  <2>2. Exists(g) /\ g # n.family /\ p.status # "ABSENT"
    BY DEF ReadTarget, Exists
  <2> HIDE DEF record
  <2> QED
    BY <2>1, <2>2 DEF Carried, Merges, Copied
<1> QED
  <2> HIDE DEF record
  <2>1. begun \in Nat
    BY DEF IInv, TypeOK
  <2> QED
    BY <1>2, <1>3, <1>4, <2>1, CallReads

LEMMA GatherStep == ASSUME IInv, NEW c \in Callers, Gather(c) PROVE IInv'
<1> PICK n \in Calls : n = call[c] /\ Carried(n) /\ n.pc = "GATHER"
  BY UnderWay DEF Gather, Calling
<1> DEFINE record == [n EXCEPT !.pc = "PUT_TARGET", !.rows = members[n.target]]
<1>1. members[n.target] \subseteq Incidents
  BY DEF Carried, Merges, IInv, TypeOK
<1>2. record \in Calls
  <2>1. [n EXCEPT !.pc = "PUT_TARGET"] \in Calls
    BY FieldPut DEF CallPCs
  <2>2. [[n EXCEPT !.pc = "PUT_TARGET"] EXCEPT !.rows = members[n.target]] \in Calls
    BY <1>1, <2>1, FieldPut
  <2> QED
    BY <2>2
<1>3. call' = [call EXCEPT ![c] = record] /\ UNCHANGED <<job, verdict, ingest, knowledge, begun>>
  BY DEF Gather
<1>4. Carried(record)
  <2>1. /\ record.pc = "PUT_TARGET" /\ record.rows = members[n.target]
        /\ record.family = n.family /\ record.target = n.target /\ record.goal = n.goal
        /\ record.decision = n.decision /\ record.held = n.held /\ record.source = n.source
    BY DEF Calls
  <2>2. n.goal.status # "MERGED"
    BY DEF Gather
  <2> HIDE DEF record
  <2> QED
    BY <2>1, <2>2 DEF Carried, Merges, Copied
<1> QED
  <2> HIDE DEF record
  <2>1. begun \in Nat
    BY DEF IInv, TypeOK
  <2> QED
    BY <1>2, <1>3, <1>4, <2>1, CallReads

LEMMA ReadMatrixStep == ASSUME IInv, NEW c \in Callers, ReadMatrix(c) PROVE IInv'
<1> PICK n \in Calls : n = call[c] /\ Carried(n) /\ n.pc = "MATRIX"
  BY UnderWay DEF ReadMatrix, Calling
<1> DEFINE positives == members[n.family]
           record == [n EXCEPT !.pc = "MINE", !.rows = positives, !.controls = Controls \ positives]
<1>1. positives \subseteq Incidents /\ Controls \ positives \subseteq Incidents
  BY DEF Carried, IInv, TypeOK, Controls
<1>2. record \in Calls
  <2>1. [n EXCEPT !.pc = "MINE"] \in Calls
    BY FieldPut DEF CallPCs
  <2>2. [[n EXCEPT !.pc = "MINE"] EXCEPT !.rows = positives] \in Calls
    BY <1>1, <2>1, FieldPut
  <2>3. [[n EXCEPT !.pc = "MINE", !.rows = positives] EXCEPT !.controls = Controls \ positives] \in Calls
    BY <1>1, <2>2, FieldPut
  <2> QED
    BY <2>3
<1>3. call' = [call EXCEPT ![c] = record] /\ UNCHANGED <<job, verdict, ingest, knowledge, begun>>
  BY DEF ReadMatrix
<1>4. Carried(record)
  <2>1. /\ record.pc = "MINE" /\ record.rows = members[n.family]
        /\ record.family = n.family /\ record.held = n.held
    BY DEF Calls
  <2> HIDE DEF record
  <2> QED
    BY <2>1 DEF Carried, Merges, Copied
<1> QED
  <2> HIDE DEF record
  <2>1. begun \in Nat
    BY DEF IInv, TypeOK
  <2> QED
    BY <1>2, <1>3, <1>4, <2>1, CallReads

LEMMA MineClauseStep == ASSUME IInv, NEW c \in Callers, MineClause(c) PROVE IInv'
<1> PICK n \in Calls : n = call[c] /\ Carried(n) /\ n.pc = "MINE"
  BY UnderWay DEF MineClause, Calling
<1> PICK clause \in Clauses \cup {None} :
        /\ clause # None => Cardinality(n.rows) >= 2
        /\ call' = [call EXCEPT ![c].pc = "COMMIT_DRAFT", ![c].clause = clause]
  BY DEF MineClause
<1> DEFINE record == [n EXCEPT !.pc = "COMMIT_DRAFT", !.clause = clause]
<1>1. record \in Calls
  <2>1. [n EXCEPT !.pc = "COMMIT_DRAFT"] \in Calls
    BY FieldPut DEF CallPCs
  <2>2. [[n EXCEPT !.pc = "COMMIT_DRAFT"] EXCEPT !.clause = clause] \in Calls
    BY <2>1, FieldPut
  <2> QED
    BY <2>2
<1>2. call' = [call EXCEPT ![c] = record] /\ UNCHANGED <<job, verdict, ingest, knowledge, begun>>
  BY DEF MineClause
<1>3. n.held.into = None
  <2>1. Valid([n.held EXCEPT !.status = "REGISTRATION_DRAFTED"]) /\ n.held \in Payloads
    BY DEF MineClause, Calls
  <2> QED
    BY <2>1 DEF Valid, Payloads
<1>4. Carried(record)
  <2>1. /\ record.pc = "COMMIT_DRAFT" /\ record.rows = n.rows /\ record.clause = clause
        /\ record.family = n.family /\ record.held = n.held
    BY DEF Calls
  <2> HIDE DEF record
  <2> QED
    BY <1>3, <2>1 DEF Carried, Merges, Copied
<1> QED
  <2> HIDE DEF record
  <2>1. begun \in Nat
    BY DEF IInv, TypeOK
  <2> QED
    BY <1>1, <1>2, <1>4, <2>1, CallReads

--------------------------------------------------------------------------------
(* The steps of the calls that write *)

\* A call that writes one family and moves on or returns.
LEMMA CallWritesFamily ==
    ASSUME IInv, NEW c \in Callers, NEW record \in Calls, NEW f \in Families, NEW p \in Payloads,
           call' = [call EXCEPT ![c] = record], Carried(record),
           family' = [family EXCEPT ![f] = p], p.status # "ABSENT", Sound(p, f)',
           accepted' \in {accepted, accepted \cup {f}},
           UNCHANGED <<job, verdict, ingest, members, draft, shadow, registry, versions, begun>>
    PROVE  IInv'
<1>1. Grows /\ StoresAreSound'
  BY OneFamilyWritten
<1>2. TypeOK'
  BY DEF IInv, TypeOK
<1>3. \A d \in Callers \ {c} : call'[d] = call[d]
  BY DEF IInv, TypeOK
<1>4. Carried(record)' /\ call'[c] = record
  BY <1>1, CarriedStays DEF IInv, TypeOK
<1>5. CallIsSound(c)'
  BY <1>4 DEF CallIsSound
<1> QED
  BY <1>1, <1>2, <1>3, <1>5, CallMoves

LEMMA DecideStep == ASSUME IInv, NEW c \in Callers, Decide(c) PROVE IInv'
<1> PICK n \in Calls : n = call[c] /\ Carried(n) /\ n.pc = "DECIDE"
  BY UnderWay DEF Decide, Calling
<1> PICK f \in Families : f = n.family
  BY DEF Carried
<1> DEFINE p == [n.held EXCEPT !.status = StatusOf(n.decision), !.into = n.target]
<1>1. /\ family' = [family EXCEPT ![f] = p]
      /\ accepted' = IF n.decision = "ACCEPT" THEN accepted \cup {f} ELSE accepted
      /\ call' = [call EXCEPT ![c] = NoCall]
      /\ UNCHANGED <<job, verdict, ingest, members, draft, shadow, registry, versions, begun>>
  BY DEF Decide, Return
<1>2. n.held \in Payloads /\ n.target \in Families \cup {None}
  BY DEF Calls
<1>3. /\ StatusOf(n.decision) \in Statuses \ {"ABSENT", "REGISTRATION_DRAFTED", "PROMOTED"}
      /\ StatusOf(n.decision) = "ACCEPTED_SHADOW" => n.decision = "ACCEPT"
      /\ StatusOf(n.decision) = "MERGED" => n.decision = "MERGE"
  BY DEF StatusOf, Statuses, Open, Decided
<1>4. p \in Payloads /\ p.status = StatusOf(n.decision) /\ p.into = n.target /\ p.shown = n.held.shown
  BY <1>2, <1>3 DEF Payloads
<1>5. Sound(p, f)'
  <2>1. n.held.shown \subseteq members'[f]
    BY <1>1 DEF Carried, Sound
  <2>2. n.decision = "MERGE" =>
            /\ n.target \in Families /\ n.target # f /\ Exists(n.target)
            /\ n.held.shown \subseteq members'[n.target]
    BY <1>1 DEF Carried
  <2>3. Exists(n.target) /\ n.target \in Families => Exists(n.target)'
    <3>1. family \in [Families -> Payloads] /\ p.status # "ABSENT"
      BY <1>3, <1>4 DEF IInv, TypeOK
    <3> HIDE DEF p
    <3> QED
      BY <1>1, <3>1 DEF Exists
  <2> PICK q : q = p
    OBVIOUS
  <2> PICK target : target = n.target
    OBVIOUS
  <2>4. Sound(q, f)'
    <3> HIDE DEF p
    <3> QED
      BY <1>1, <1>3, <1>4, <2>1, <2>2, <2>3 DEF Sound
  <2> QED
    BY <2>4
<1>6. p.status # "ABSENT"
  BY <1>3, <1>4
<1>7. accepted' \in {accepted, accepted \cup {f}}
  BY <1>1
<1> QED
  <2> HIDE DEF p
  <2> QED
    BY <1>1, <1>4, <1>5, <1>6, <1>7, NoCallIsSound, InitialValues, CallWritesFamily

LEMMA PutTargetStep == ASSUME IInv, NEW c \in Callers, PutTarget(c) PROVE IInv'
<1> PICK n \in Calls : n = call[c] /\ Carried(n) /\ n.pc = "PUT_TARGET"
  BY UnderWay DEF PutTarget, Calling
<1> PICK g \in Families : g = n.target
  BY DEF Carried, Merges
<1> PICK p : p = [status |-> n.goal.status, shown |-> n.rows, into |-> None]
  OBVIOUS
<1> DEFINE record == [n EXCEPT !.pc = "PUT_SOURCE"]
<1>1. /\ family' = [family EXCEPT ![g] = p] /\ call' = [call EXCEPT ![c] = record]
      /\ UNCHANGED <<job, verdict, ingest, members, accepted, draft, shadow, registry,
                     versions, begun>>
  BY DEF PutTarget
<1>2. record \in Calls
  BY DEF Calls, CallPCs
<1>3. Carried(record)
  <2>1. /\ record.pc = "PUT_SOURCE" /\ record.rows = n.rows
        /\ record.family = n.family /\ record.target = n.target /\ record.goal = n.goal
        /\ record.decision = n.decision /\ record.held = n.held /\ record.source = n.source
    BY DEF Calls
  <2> HIDE DEF record
  <2> QED
    BY <2>1 DEF Carried, Merges, Copied
<1>4. /\ Sound(n.goal, g) /\ n.goal.status \notin {"ABSENT", "MERGED"}
      /\ n.rows \subseteq members[g]
  BY DEF Carried, Merges
<1>5. p \in Payloads /\ p.status # "ABSENT"
  BY <1>4 DEF Calls, Payloads
<1>6. Sound(p, g)'
  BY <1>1, <1>4 DEF Sound
<1> QED
  <2> HIDE DEF record
  <2> QED
    BY <1>1, <1>2, <1>3, <1>5, <1>6, CallWritesFamily

LEMMA PutSourceStep == ASSUME IInv, NEW c \in Callers, PutSource(c) PROVE IInv'
<1> PICK n \in Calls : n = call[c] /\ Carried(n) /\ n.pc = "PUT_SOURCE"
  BY UnderWay DEF PutSource, Calling
<1> PICK f \in Families, g \in Families : f = n.family /\ g = n.target
  BY DEF Carried, Merges
<1> PICK p : p = [n.source EXCEPT !.status = "MERGED", !.into = g]
  OBVIOUS
<1>1. /\ family' = [family EXCEPT ![f] = p]
      /\ UNCHANGED <<job, verdict, ingest, members, accepted, draft, shadow, registry,
                     versions, begun>>
  BY DEF PutSource
<1>2. n.source \in Payloads
  BY DEF Calls
<1>3. p \in Payloads /\ p.status = "MERGED" /\ p.into = g /\ p.shown = n.source.shown
  BY <1>2 DEF Payloads, Statuses, Decided
<1>4. /\ n.source.shown \subseteq members[f] /\ n.source.shown \subseteq members[g]
      /\ g # f /\ Exists(g) /\ n.held.shown \subseteq members[g]
  BY DEF Carried, Merges, Copied, Sound
<1>5. Exists(g)'
  BY <1>1, <1>4 DEF Exists, IInv, TypeOK
<1>6. Sound(p, f)'
  BY <1>1, <1>3, <1>4, <1>5 DEF Sound
<1>7. ASSUME NEW record \in Calls, call' = [call EXCEPT ![c] = record], Carried(record)
      PROVE  IInv'
  BY <1>1, <1>3, <1>6, <1>7, CallWritesFamily
<1>8. CASE n.decision = "MERGE" /\ call' = [call EXCEPT ![c].pc = "DECIDE"]
  <2> DEFINE record == [n EXCEPT !.pc = "DECIDE"]
  <2>1. record \in Calls /\ call' = [call EXCEPT ![c] = record]
    BY <1>8 DEF Calls, CallPCs
  <2>2. Carried(record)
    <3>1. /\ record.pc = "DECIDE" /\ record.family = f /\ record.target = g
          /\ record.decision = "MERGE" /\ record.held = n.held
      BY <1>8 DEF Calls
    <3>2. Sound(n.held, f)
      BY DEF Carried
    <3> HIDE DEF record
    <3> QED
      BY <1>4, <3>1, <3>2 DEF Carried, Merges, Copied
  <2> HIDE DEF record
  <2> QED
    BY <1>7, <2>1, <2>2
<1>9. CASE Return(c)
  BY <1>7, <1>9, NoCallIsSound, InitialValues DEF Return
<1> QED
  BY <1>8, <1>9 DEF PutSource

LEMMA CopyMembersStep == ASSUME IInv, NEW c \in Callers, CopyMembers(c) PROVE IInv'
<1> PICK n \in Calls : n = call[c] /\ Carried(n) /\ n.pc = "COPY"
  BY UnderWay DEF CopyMembers, Calling
<1> PICK f \in Families, g \in Families : f = n.family /\ g = n.target
  BY DEF Carried, Merges
<1> DEFINE record == [n EXCEPT !.pc = "GATHER"]
<1>1. /\ members' = [members EXCEPT ![g] = @ \cup members[f]]
      /\ call' = [call EXCEPT ![c] = record]
      /\ UNCHANGED <<job, verdict, ingest, family, accepted, draft, shadow, registry,
                     versions, begun>>
  BY DEF CopyMembers
<1>2. /\ TypeOK /\ members[f] \subseteq members'[g]
      /\ members'[g] = members[g] \cup members[f]
      /\ \A k \in Families : members[k] \subseteq members'[k]
      /\ \A k \in Families \ {g} : members'[k] = members[k]
  BY <1>1 DEF IInv, TypeOK
<1>3. record \in Calls
  BY DEF Calls, CallPCs
<1>4. TypeOK'
  <2>1. members' \in [Families -> SUBSET Incidents]
    BY <1>1, <1>2 DEF TypeOK
  <2> HIDE DEF record
  <2> QED
    BY <1>1, <1>2, <1>3, <2>1 DEF TypeOK
<1>5. Grows
  BY <1>1, <1>2 DEF Grows, Exists, Drafted
<1>6. StoresAreSound'
  <2>1. FamiliesAreSound'
    <3> SUFFICES ASSUME NEW k \in Families PROVE Sound(family[k], k)'
      BY DEF FamiliesAreSound
    <3> PICK q : q = family[k] /\ Sound(q, k)
      BY ReadIsSound
    <3>1. Sound(q, k)'
      BY <1>5, SoundStays
    <3> QED
      BY <1>1, <3>1
  <2>2. FiledAreOpen'
    <3> SUFFICES ASSUME NEW k \in Families, NEW i \in members'[k]
                 PROVE  verdict[i].terminal = "OPEN_WORLD"
      BY <1>1 DEF FiledAreOpen
    <3>1. i \in members[k] \/ i \in members[f]
      BY <1>2
    <3> QED
      BY <3>1 DEF IInv, StoresAreSound, FiledAreOpen
  <2>3. DraftsAreSound'
    <3> SUFFICES ASSUME NEW r \in Registrations PROVE DraftIsSound(r)'
      BY DEF DraftsAreSound
    <3>1. DraftIsSound(r)
      BY DEF IInv, StoresAreSound, DraftsAreSound
    <3>2. Drafted(r) => draft[r].of \in Families
      BY <1>2, <3>1 DEF DraftIsSound, TypeOK
    <3> QED
      BY <1>1, <1>2, <3>1, <3>2 DEF DraftIsSound, Drafted
  <2>4. KnownWasPromoted' /\ HistoryIsTrue'
    BY <1>1 DEF IInv, StoresAreSound, KnownWasPromoted, HistoryIsTrue
  <2> QED
    BY <2>1, <2>2, <2>3, <2>4 DEF StoresAreSound
<1>7. CallIsSound(c)'
  <2>1. /\ record.pc = "GATHER" /\ record.family = f /\ record.target = g
        /\ record.goal = n.goal /\ record.source = n.source /\ record.held = n.held
        /\ record.decision = n.decision /\ call'[c] = record
    BY <1>1, <1>2 DEF Calls, TypeOK
  <2>2. /\ Sound(n.held, f)' /\ Sound(n.source, f)' /\ Sound(n.goal, g)' /\ Exists(g)'
        /\ n.decision \in {"NONE", "MERGE"} /\ g # f /\ n.goal.status # "ABSENT"
    BY <1>5, SoundStays DEF Carried, Merges, Grows
  <2>3. n.held.shown \subseteq members'[g] /\ n.source.shown \subseteq members'[g]
    BY <1>2 DEF Carried, Merges, Sound
  <2> PICK m : m = record
    OBVIOUS
  <2>4. Carried(m)'
    <3> HIDE DEF record
    <3> QED
      BY <2>1, <2>2, <2>3 DEF Carried, Merges, Copied
  <2> QED
    BY <2>1, <2>4 DEF CallIsSound
<1>8. \A d \in Callers \ {c} : call'[d] = call[d]
  BY <1>1, <1>2 DEF TypeOK
<1> QED
  <2> HIDE DEF record
  <2> QED
    BY <1>1, <1>4, <1>5, <1>6, <1>7, <1>8, CallMoves

LEMMA CommitDraftStep == ASSUME IInv, NEW c \in Callers, CommitDraft(c) PROVE IInv'
<1> PICK n \in Calls : n = call[c] /\ Carried(n) /\ n.pc = "COMMIT_DRAFT"
  BY UnderWay DEF CommitDraft, Calling
<1> PICK f \in Families : f = n.family
  BY DEF Carried
<1> PICK new : new = [of |-> f, positives |-> n.rows, controls |-> n.controls, clause |-> n.clause]
  OBVIOUS
<1> PICK p : p = [n.held EXCEPT !.status = "REGISTRATION_DRAFTED"]
  OBVIOUS
<1>1. PICK r \in Registrations : ~Drafted(r) /\ draft' = [draft EXCEPT ![r] = new]
  BY DEF CommitDraft
<1>2. /\ family' = [family EXCEPT ![f] = p] /\ Return(c)
      /\ UNCHANGED <<job, verdict, ingest, members, accepted, shadow, registry, versions, begun>>
  BY DEF CommitDraft
<1>3. new \in Drafts /\ new.of = f /\ new.positives = n.rows /\ new.clause = n.clause
  BY DEF Drafts, Calls
<1>4. p \in Payloads /\ p.status = "REGISTRATION_DRAFTED" /\ p.shown = n.held.shown
  BY DEF Calls, Payloads, Statuses
<1>5. TypeOK /\ draft'[r] = new /\ \A q \in Registrations \ {r} : draft'[q] = draft[q]
  BY <1>1 DEF IInv, TypeOK
<1>6. TypeOK'
  BY <1>1, <1>2, <1>3, <1>4, <1>5, InitialValues DEF TypeOK, Return
<1>7. Grows
  <2>1. ASSUME NEW g \in Families, Exists(g) PROVE Exists(g)'
    BY <1>2, <1>4, <1>5, <2>1 DEF Exists, TypeOK
  <2> QED
    BY <1>1, <1>2, <1>5, <2>1 DEF Grows
<1>8. StoresAreSound'
  <2>1. Sound(p, f)'
    <3>1. n.held.shown \subseteq members[f] /\ f \in accepted
      BY DEF Carried, Sound
    <3> QED
      BY <1>2, <1>3, <1>4, <1>5, <3>1 DEF Sound
  <2>2. FamiliesAreSound'
    BY <1>2, <1>7, <2>1, FamilyWritten
  <2>3. DraftsAreSound'
    <3> SUFFICES ASSUME NEW q \in Registrations PROVE DraftIsSound(q)'
      BY DEF DraftsAreSound
    <3>1. DraftIsSound(q)
      BY DEF IInv, StoresAreSound, DraftsAreSound
    <3>2. CASE q = r
      <4>1. f \in accepted /\ n.rows \subseteq members[f]
            /\ (n.clause # None => Cardinality(n.rows) >= 2)
        BY DEF Carried
      <4>2. f # None
        BY NoneAssumption
      <4>3. shadow[r] = "NONE" /\ registry[r].status = "NONE"
        BY <1>1, <3>1, <3>2 DEF DraftIsSound
      <4> QED
        BY <1>2, <1>3, <1>5, <3>2, <4>1, <4>2, <4>3 DEF DraftIsSound, Drafted
    <3>3. CASE q # r
      BY <1>2, <1>5, <3>1, <3>3 DEF DraftIsSound, Drafted
    <3> QED
      BY <3>2, <3>3
  <2>4. FiledAreOpen' /\ KnownWasPromoted' /\ HistoryIsTrue'
    BY <1>2 DEF IInv, StoresAreSound, FiledAreOpen, KnownWasPromoted, HistoryIsTrue
  <2> QED
    BY <2>2, <2>3, <2>4 DEF StoresAreSound
<1>9. CallIsSound(c)' /\ \A d \in Callers \ {c} : call'[d] = call[d]
  <2>1. call'[c] = NoCall /\ \A d \in Callers \ {c} : call'[d] = call[d]
    BY <1>2, <1>5 DEF Return, TypeOK
  <2>2. Carried(NoCall)'
    BY <1>7, NoCallIsSound, CarriedStays
  <2> QED
    BY <2>1, <2>2 DEF CallIsSound
<1> QED
  BY <1>2, <1>6, <1>7, <1>8, <1>9, CallMoves

LEMMA EvaluateStep == ASSUME IInv, NEW r \in Registrations, Evaluate(r) PROVE IInv'
<1>1. /\ draft[r].clause # None /\ shadow[r] = "NONE"
      /\ UNCHANGED <<job, verdict, ingest, members, family, accepted, draft, registry,
                     versions, call, begun>>
  BY DEF Evaluate
<1> PICK result \in {"PASSED", "FAILED"} : shadow' = [shadow EXCEPT ![r] = result]
  BY DEF Evaluate
<1>2. TypeOK /\ shadow'[r] = result /\ \A q \in Registrations \ {r} : shadow'[q] = shadow[q]
  BY DEF IInv, TypeOK
<1>3. TypeOK'
  BY <1>1, <1>2 DEF TypeOK
<1>4. Grows
  BY <1>1, <1>2 DEF Grows, Exists, Drafted
<1>5. StoresAreSound'
  <2>1. DraftsAreSound'
    <3> SUFFICES ASSUME NEW q \in Registrations PROVE DraftIsSound(q)'
      BY DEF DraftsAreSound
    <3>1. DraftIsSound(q)
      BY DEF IInv, StoresAreSound, DraftsAreSound
    <3> QED
      BY <1>1, <1>2, <3>1 DEF DraftIsSound, Drafted
  <2>2. FamiliesAreSound' /\ FiledAreOpen' /\ KnownWasPromoted' /\ HistoryIsTrue'
    BY <1>1 DEF IInv, StoresAreSound, FamiliesAreSound, FiledAreOpen, KnownWasPromoted,
                HistoryIsTrue, Sound, Exists
  <2> QED
    BY <2>1, <2>2 DEF StoresAreSound
<1>6. \A w \in Workers : WorkerIsSound(w)'
  BY <1>1, <1>2, <1>4, WorkerStays DEF IInv
<1>7. \A c \in Callers : CallIsSound(c)'
  BY <1>1, <1>4, CallStays
<1> QED
  BY <1>3, <1>5, <1>6, <1>7 DEF IInv

\* The versions of a registration.
Own(r) == {k \in 1..Len(versions) : versions[k].registration = r}

HistoryOf(r) ==
    LET last == registry[r].version IN
    \/ registry[r].status = "NONE" /\ Own(r) = {}
    \/ registry[r].status = "ACTIVE" /\ Own(r) = {last} /\ versions[last].status = "ACTIVE"
    \/ /\ registry[r].status = "REVOKED"
       /\ \E first \in 1..(last - 1) :
             /\ Own(r) = {first, last}
             /\ versions[first].status = "ACTIVE" /\ versions[last].status = "REVOKED"

LEMMA HistoryIsOfEach == HistoryIsTrue <=> \A r \in Registrations : HistoryOf(r)
BY DEF HistoryIsTrue, HistoryOf, Own

\* A version that is appended belongs to its registration alone and moves no other.
LEMMA Appended ==
    ASSUME TypeOK, NEW r \in Registrations, NEW status \in {"ACTIVE", "REVOKED"},
           versions' = Append(versions, [registration |-> r, status |-> status])
    PROVE  /\ Len(versions) \in Nat /\ Len(versions)' = Len(versions) + 1
           /\ \A k \in 1..Len(versions) : versions'[k] = versions[k]
           /\ versions'[Len(versions) + 1] = [registration |-> r, status |-> status]
           /\ Own(r)' = Own(r) \cup {Len(versions) + 1}
           /\ \A q \in Registrations \ {r} : Own(q)' = Own(q)
<1> DEFINE Rows == [registration : Registrations, status : {"ACTIVE", "REVOKED"}]
           e == [registration |-> r, status |-> status]
<1>1. versions \in Seq(Rows) /\ e \in Rows
  BY DEF TypeOK
<1> HIDE DEF Rows
<1>2. /\ Len(versions) \in Nat /\ Len(versions)' = Len(versions) + 1
      /\ \A k \in 1..Len(versions) : versions'[k] = versions[k]
      /\ versions'[Len(versions) + 1] = e
  BY <1>1
<1>3. e.registration = r
  OBVIOUS
<1> HIDE DEF e
<1>4. 1..(Len(versions) + 1) = (1..Len(versions)) \cup {Len(versions) + 1}
  BY <1>2
<1>5. \A q : Own(q)' = {k \in (1..Len(versions)) \cup {Len(versions) + 1} :
                             versions'[k].registration = q}
  BY <1>2, <1>4 DEF Own
<1>6. Own(r)' = Own(r) \cup {Len(versions) + 1}
  BY <1>2, <1>3, <1>5 DEF Own
<1>7. ASSUME NEW q \in Registrations \ {r} PROVE Own(q)' = Own(q)
  BY <1>2, <1>3, <1>5 DEF Own
<1> QED
  BY <1>2, <1>6, <1>7 DEF e

\* A version belongs to the history of one registration; that of the others stays.
LEMMA HistoryStays ==
    ASSUME TypeOK, NEW r \in Registrations, NEW status \in {"ACTIVE", "REVOKED"},
           versions' = Append(versions, [registration |-> r, status |-> status]),
           NEW q \in Registrations \ {r}, registry'[q] = registry[q], HistoryOf(q)
    PROVE  HistoryOf(q)'
<1> DEFINE last == registry[q].version
<1>1. /\ Own(q)' = Own(q) /\ Own(q) \subseteq 1..Len(versions)
      /\ \A k \in 1..Len(versions) : versions'[k] = versions[k]
  BY Appended DEF Own
<1>2. CASE registry[q].status = "NONE" /\ Own(q) = {}
  BY <1>1, <1>2 DEF HistoryOf
<1>3. CASE registry[q].status = "ACTIVE" /\ Own(q) = {last} /\ versions[last].status = "ACTIVE"
  <2>1. last \in 1..Len(versions)
    BY <1>1, <1>3
  <2> QED
    BY <1>1, <1>3, <2>1 DEF HistoryOf
<1>4. CASE /\ registry[q].status = "REVOKED"
           /\ \E first \in 1..(last - 1) :
                 /\ Own(q) = {first, last}
                 /\ versions[first].status = "ACTIVE" /\ versions[last].status = "REVOKED"
  <2> PICK first \in 1..(last - 1) :
               /\ Own(q) = {first, last}
               /\ versions[first].status = "ACTIVE" /\ versions[last].status = "REVOKED"
    BY <1>4
  <2>1. last \in 1..Len(versions) /\ first \in 1..Len(versions)
    BY <1>1
  <2>2. versions'[last].status = "REVOKED" /\ versions'[first].status = "ACTIVE"
    BY <1>1, <2>1
  <2> QED
    BY <1>1, <1>4, <2>2 DEF HistoryOf
<1> QED
  BY <1>2, <1>3, <1>4 DEF HistoryOf

LEMMA CommitPromoteStep == ASSUME IInv, NEW c \in Callers, CommitPromote(c) PROVE IInv'
<1> PICK n \in Calls : n = call[c] /\ Carried(n) /\ n.pc = "PROMOTE"
  BY UnderWay DEF CommitPromote, Calling
<1> PICK f \in Families, r \in Registrations : f = n.family /\ r = n.registration
  BY DEF Carried
<1> PICK p : p = [n.held EXCEPT !.status = "PROMOTED"]
  OBVIOUS
<1> PICK e : e = [status |-> "ACTIVE", version |-> Len(versions) + 1]
  OBVIOUS
<1>1. /\ registry[r].status = "NONE" /\ registry' = [registry EXCEPT ![r] = e]
      /\ versions' = Append(versions, [registration |-> r, status |-> "ACTIVE"])
      /\ family' = [family EXCEPT ![f] = p] /\ Return(c)
      /\ UNCHANGED <<job, verdict, ingest, members, accepted, draft, shadow, begun>>
  BY DEF CommitPromote
<1>2. TypeOK
  BY DEF IInv
<1>3. Len(versions) \in Nat /\ e \in Entries
  BY <1>1, <1>2, Appended DEF Entries
<1>4. p \in Payloads /\ p.status = "PROMOTED" /\ p.shown = n.held.shown
  BY DEF Calls, Payloads, Statuses
<1>5. registry'[r] = e /\ \A q \in Registrations \ {r} : registry'[q] = registry[q]
  BY <1>1, <1>2 DEF TypeOK
<1>6. TypeOK'
  <2>1. versions' \in Seq([registration : Registrations, status : {"ACTIVE", "REVOKED"}])
    BY <1>1, <1>2 DEF TypeOK
  <2> QED
    BY <1>1, <1>2, <1>3, <1>4, <2>1, InitialValues DEF TypeOK, Return
<1>7. Grows
  <2>1. ASSUME NEW g \in Families, Exists(g) PROVE Exists(g)'
    BY <1>1, <1>2, <1>4, <2>1 DEF Exists, TypeOK
  <2> QED
    BY <1>1, <1>5, <2>1 DEF Grows, Drafted
<1>8. StoresAreSound'
  <2>1. /\ draft[r].of = f /\ Compilable(r) /\ n.held.shown \subseteq members[f]
        /\ n.held.into = None
    BY DEF Carried, Sound
  <2>2. Sound(p, f)'
    BY <1>1, <1>4, <1>5, <2>1 DEF Sound
  <2>3. FamiliesAreSound'
    BY <1>1, <1>7, <2>2, FamilyWritten
  <2>4. DraftsAreSound'
    <3> SUFFICES ASSUME NEW q \in Registrations PROVE DraftIsSound(q)'
      BY DEF DraftsAreSound
    <3>1. DraftIsSound(q)
      BY DEF IInv, StoresAreSound, DraftsAreSound
    <3> QED
      BY <1>1, <1>5, <2>1, <3>1 DEF DraftIsSound, Drafted, Compilable
  <2>5. KnownWasPromoted'
    <3> SUFFICES ASSUME NEW i \in Incidents, verdict[i].terminal = "EXTENSION_KNOWN"
                 PROVE  registry'[verdict[i].by].status # "NONE"
      BY <1>1 DEF KnownWasPromoted
    <3>1. registry[verdict[i].by].status # "NONE"
      BY DEF IInv, StoresAreSound, KnownWasPromoted
    <3> QED
      BY <1>1, <1>2, <1>5, <3>1 DEF TypeOK
  <2>6. HistoryIsTrue'
    <3> SUFFICES ASSUME NEW q \in Registrations PROVE HistoryOf(q)'
      BY DEF HistoryIsTrue, HistoryOf, Own
    <3>1. HistoryOf(q)
      BY HistoryIsOfEach DEF IInv, StoresAreSound
    <3>2. CASE q = r
      <4>1. Own(r) = {}
        BY <1>1, <3>1, <3>2 DEF HistoryOf
      <4>2. /\ Own(r)' = {Len(versions) + 1}
            /\ versions'[Len(versions) + 1].status = "ACTIVE"
        <5>1. /\ Own(r)' = Own(r) \cup {Len(versions) + 1}
              /\ \A k \in 1..Len(versions) : versions'[k] = versions[k]
              /\ versions'[Len(versions) + 1] = [registration |-> r, status |-> "ACTIVE"]
          BY <1>1, <1>2, Appended
        <5> QED
          BY <4>1, <5>1
      <4>3. registry'[q].status = "ACTIVE" /\ registry'[q].version = Len(versions) + 1
        BY <1>5, <3>2
      <4>4. Own(q)' = {Len(versions) + 1}
        BY <3>2, <4>2
      <4> QED
        BY <4>2, <4>3, <4>4 DEF HistoryOf
    <3>3. CASE q # r
      BY <1>1, <1>2, <1>5, <3>1, <3>3, HistoryStays
    <3> QED
      BY <3>2, <3>3
  <2>7. FiledAreOpen'
    BY <1>1 DEF IInv, StoresAreSound, FiledAreOpen
  <2> QED
    BY <2>3, <2>4, <2>5, <2>6, <2>7 DEF StoresAreSound
<1>9. CallIsSound(c)' /\ \A d \in Callers \ {c} : call'[d] = call[d]
  <2>1. call'[c] = NoCall /\ \A d \in Callers \ {c} : call'[d] = call[d]
    BY <1>1, <1>2 DEF Return, TypeOK
  <2>2. Carried(NoCall)'
    BY <1>7, NoCallIsSound, CarriedStays
  <2> QED
    BY <2>1, <2>2 DEF CallIsSound
<1> QED
  BY <1>1, <1>6, <1>7, <1>8, <1>9, CallMoves

LEMMA RevokeStep == ASSUME IInv, NEW r \in Registrations, Revoke(r) PROVE IInv'
<1> PICK e : e = [status |-> "REVOKED", version |-> Len(versions) + 1]
  OBVIOUS
<1>1. /\ registry[r].status = "ACTIVE" /\ registry' = [registry EXCEPT ![r] = e]
      /\ versions' = Append(versions, [registration |-> r, status |-> "REVOKED"])
      /\ UNCHANGED <<job, verdict, ingest, members, family, accepted, draft, shadow, call, begun>>
  BY DEF Revoke
<1>2. TypeOK
  BY DEF IInv
<1>3. Len(versions) \in Nat /\ e \in Entries
  BY <1>1, <1>2, Appended DEF Entries
<1>4. registry'[r] = e /\ \A q \in Registrations \ {r} : registry'[q] = registry[q]
  BY <1>1, <1>2 DEF TypeOK
<1>5. TypeOK'
  <2>1. versions' \in Seq([registration : Registrations, status : {"ACTIVE", "REVOKED"}])
    BY <1>1, <1>2 DEF TypeOK
  <2> QED
    BY <1>1, <1>2, <1>3, <2>1 DEF TypeOK
<1>6. Grows
  BY <1>1, <1>4 DEF Grows, Exists, Drafted
<1>7. StoresAreSound'
  <2>1. FamiliesAreSound'
    <3> SUFFICES ASSUME NEW k \in Families PROVE Sound(family[k], k)'
      BY DEF FamiliesAreSound
    <3> PICK q : q = family[k] /\ Sound(q, k)
      BY ReadIsSound
    <3>1. Sound(q, k)'
      BY <1>6, SoundStays
    <3> QED
      BY <1>1, <3>1
  <2>2. DraftsAreSound'
    <3> SUFFICES ASSUME NEW q \in Registrations PROVE DraftIsSound(q)'
      BY DEF DraftsAreSound
    <3>1. DraftIsSound(q)
      BY DEF IInv, StoresAreSound, DraftsAreSound
    <3> QED
      BY <1>1, <1>4, <3>1 DEF DraftIsSound, Drafted
  <2>3. KnownWasPromoted'
    <3> SUFFICES ASSUME NEW i \in Incidents, verdict[i].terminal = "EXTENSION_KNOWN"
                 PROVE  registry'[verdict[i].by].status # "NONE"
      BY <1>1 DEF KnownWasPromoted
    <3>1. registry[verdict[i].by].status # "NONE"
      BY DEF IInv, StoresAreSound, KnownWasPromoted
    <3> QED
      BY <1>1, <1>2, <1>4, <3>1 DEF TypeOK
  <2>4. HistoryIsTrue'
    <3> SUFFICES ASSUME NEW q \in Registrations PROVE HistoryOf(q)'
      BY DEF HistoryIsTrue, HistoryOf, Own
    <3>1. HistoryOf(q)
      BY HistoryIsOfEach DEF IInv, StoresAreSound
    <3>2. CASE q = r
      <4> PICK first : first = registry[r].version
        OBVIOUS
      <4>1. Own(r) = {first} /\ versions[first].status = "ACTIVE"
        BY <1>1, <3>1, <3>2 DEF HistoryOf
      <4>2. first \in 1..Len(versions)
        BY <4>1 DEF Own
      <4>3. /\ Own(r)' = {first, Len(versions) + 1}
            /\ versions'[first].status = "ACTIVE"
            /\ versions'[Len(versions) + 1].status = "REVOKED"
        <5>1. /\ Own(r)' = Own(r) \cup {Len(versions) + 1}
              /\ \A k \in 1..Len(versions) : versions'[k] = versions[k]
              /\ versions'[Len(versions) + 1] = [registration |-> r, status |-> "REVOKED"]
          BY <1>1, <1>2, Appended
        <5> QED
          BY <4>1, <4>2, <5>1
      <4>4. first \in 1..((Len(versions) + 1) - 1)
        BY <1>3, <4>2
      <4>5. registry'[q].status = "REVOKED" /\ registry'[q].version = Len(versions) + 1
        BY <1>4, <3>2
      <4>6. Own(q)' = {first, Len(versions) + 1}
        BY <3>2, <4>3
      <4> QED
        BY <4>3, <4>4, <4>5, <4>6 DEF HistoryOf
    <3>3. CASE q # r
      BY <1>1, <1>2, <1>4, <3>1, <3>3, HistoryStays
    <3> QED
      BY <3>2, <3>3
  <2>5. FiledAreOpen'
    BY <1>1 DEF IInv, StoresAreSound, FiledAreOpen
  <2> QED
    BY <2>1, <2>2, <2>3, <2>4, <2>5 DEF StoresAreSound
<1>8. \A w \in Workers : WorkerIsSound(w)'
  BY <1>1, <1>2, <1>6, WorkerStays DEF IInv
<1>9. \A c \in Callers : CallIsSound(c)'
  BY <1>1, <1>6, CallStays
<1> QED
  BY <1>5, <1>7, <1>8, <1>9 DEF IInv

--------------------------------------------------------------------------------
(* The invariant and its consequences *)

\* Every step keeps the inductive invariant.
LEMMA NextInvariant == IInv /\ [Next]_vars => IInv'
<1> SUFFICES ASSUME IInv, [Next]_vars PROVE IInv'
  OBVIOUS
<1>1. CASE UNCHANGED vars
  <2>1. UNCHANGED <<knowledge, verdict>> /\ ingest' = ingest /\ call' = call
    BY <1>1 DEF vars
  <2>2. Grows /\ StoresAreSound'
    BY <2>1, UnwrittenGrows, UnwrittenStores DEF IInv
  <2>3. TypeOK'
    BY <1>1 DEF IInv, TypeOK, vars, knowledge
  <2>4. \A w \in Workers : WorkerIsSound(w)'
    BY <2>1, <2>2, WorkerStays DEF IInv
  <2>5. \A c \in Callers : CallIsSound(c)'
    BY <2>1, <2>2, CallStays
  <2> QED
    BY <2>2, <2>3, <2>4, <2>5 DEF IInv
<1>2. ASSUME NEW w \in Workers, WorkerStep(w) PROVE IInv'
  BY <1>2, TakeStep, PublishStep, LookupStep, ChooseStep, AssignStep, RereadStep,
     ReadRowsStep, PutStep, StopStep DEF WorkerStep, Working
<1>3. ASSUME NEW c \in Callers, Reviewing(c) PROVE IInv'
  BY <1>3, BeginReviewStep, DecideStep DEF Reviewing
<1>4. ASSUME NEW c \in Callers, Merging(c) PROVE IInv'
  BY <1>4, BeginMergeStep, ReadSourceStep, ReadTargetStep, CopyMembersStep, GatherStep,
     PutTargetStep, PutSourceStep DEF Merging
<1>5. ASSUME NEW c \in Callers, Registering(c) PROVE IInv'
  BY <1>5, BeginDraftStep, ReadMatrixStep, MineClauseStep, CommitDraftStep,
     BeginPromoteStep, CommitPromoteStep DEF Registering
<1>6. ASSUME NEW c \in Callers, CallStep(c) PROVE IInv'
  BY <1>3, <1>4, <1>5, <1>6, AbandonStep DEF CallStep
<1>7. ASSUME NEW r \in Registrations, Evaluate(r) \/ Revoke(r) PROVE IInv'
  BY <1>7, EvaluateStep, RevokeStep
<1> QED
  BY <1>1, <1>2, <1>6, <1>7 DEF Next

\* The invariant holds in every reachable state.
LEMMA Invariance == Spec => []IInv
<1> QED
  BY InitInvariant, NextInvariant, PTL DEF Spec

\* Every variable keeps its type, whatever the callers and workers interleave.
THEOREM TypeCorrect == Spec => []TypeOK
<1>1. IInv => TypeOK
  BY DEF IInv
<1> QED
  BY <1>1, Invariance, PTL

\* Whatever is in the registry was drafted under an accepting review, passed its own
\* evaluation, and was mined from at least two incidents that stay unexplained.
THEOREM ExtensionsAreEarned == Spec => []ActiveIsEarned
<1>1. IInv => ActiveIsEarned
  <2> SUFFICES ASSUME IInv, NEW r \in Registrations, registry[r].status # "NONE"
               PROVE  /\ draft[r].clause # None /\ shadow[r] = "PASSED"
                      /\ draft[r].of \in accepted
                      /\ Cardinality(draft[r].positives) >= 2
                      /\ \A i \in draft[r].positives : verdict[i].terminal = "OPEN_WORLD"
    BY DEF ActiveIsEarned
  <2>1. DraftIsSound(r) /\ FiledAreOpen /\ accepted \subseteq Families
    BY DEF IInv, TypeOK, StoresAreSound, DraftsAreSound
  <2> QED
    BY <2>1 DEF DraftIsSound, FiledAreOpen
<1> QED
  BY <1>1, Invariance, PTL

\* An incident is explained only by an extension that was promoted before.
THEOREM KnownWerePromoted == Spec => []KnownWasPromoted
<1>1. IInv => KnownWasPromoted
  BY DEF IInv, StoresAreSound
<1> QED
  BY <1>1, Invariance, PTL

\* The versions of a registration are its promotion and then its revocation.
THEOREM HistoryStaysTrue == Spec => []HistoryIsTrue
<1>1. IInv => HistoryIsTrue
  BY DEF IInv, StoresAreSound
<1> QED
  BY <1>1, Invariance, PTL

\* A status of the life cycle is never shown without the row of that step.
THEOREM StatusesAreEarned == Spec => []StatusIsEarned
<1>1. IInv => StatusIsEarned
  BY DEF IInv, StoresAreSound, FamiliesAreSound, Sound, StatusIsEarned
<1> QED
  BY <1>1, Invariance, PTL

\* What a family shows and what a rule was mined from stays backed by member rows.
THEOREM ShownStaysFiled == Spec => []ShownIsFiled
<1>1. IInv => ShownIsFiled
  BY DEF IInv, StoresAreSound, FamiliesAreSound, DraftsAreSound, DraftIsSound, Sound,
         ShownIsFiled
<1> QED
  BY <1>1, Invariance, PTL

\* A merged family names another one that exists and lacks no incident it shows.
THEOREM MergesAreCopied == Spec => []MergedIsCopied
<1>1. IInv => MergedIsCopied
  BY DEF IInv, StoresAreSound, FamiliesAreSound, Sound, MergedIsCopied
<1> QED
  BY <1>1, Invariance, PTL

--------------------------------------------------------------------------------
(* Steps: who writes what, revocation, filing, and the promise *)

\* The registry, the member rows and the reviews, drafts and evaluations each have
\* one or two writers.
LEMMA Writers ==
    ASSUME [Next]_vars
    PROVE  /\ \/ UNCHANGED registry
              \/ \E c \in Callers : CommitPromote(c)
              \/ \E r \in Registrations : Revoke(r)
           /\ \/ UNCHANGED members
              \/ \E w \in Workers : Assign(w)
              \/ \E c \in Callers : CopyMembers(c)
           /\ UNCHANGED accepted \/ \E c \in Callers : Decide(c)
           /\ UNCHANGED draft \/ \E c \in Callers : CommitDraft(c)
           /\ UNCHANGED shadow \/ \E r \in Registrations : Evaluate(r)
<1>1. CASE UNCHANGED vars
  BY <1>1 DEF vars, knowledge
<1>2. ASSUME NEW w \in Workers, WorkerStep(w)
      PROVE  UNCHANGED <<registry, accepted, draft, shadow>> /\ (UNCHANGED members \/ Assign(w))
  BY <1>2 DEF WorkerStep, Working, Take, Publish, Lookup, Choose, Assign, Reread, ReadRows,
              Put, Finish, Fail, End, LoseLease, Crash, Drop, knowledge
<1>3. ASSUME NEW c \in Callers, Reviewing(c)
      PROVE  UNCHANGED <<registry, members, draft, shadow>> /\ (UNCHANGED accepted \/ Decide(c))
  BY <1>3 DEF Reviewing, BeginReview, Begin, Decide, knowledge
<1>4. ASSUME NEW c \in Callers, Merging(c)
      PROVE  /\ UNCHANGED <<registry, accepted, draft, shadow>>
             /\ UNCHANGED members \/ CopyMembers(c)
  BY <1>4 DEF Merging, BeginMerge, Begin, ReadSource, ReadTarget, CopyMembers, Gather,
              PutTarget, PutSource, knowledge
<1>5. ASSUME NEW c \in Callers, Registering(c)
      PROVE  /\ UNCHANGED <<members, accepted, shadow>>
             /\ UNCHANGED draft \/ CommitDraft(c)
             /\ UNCHANGED registry \/ CommitPromote(c)
  BY <1>5 DEF Registering, BeginDraft, Begin, ReadMatrix, MineClause, CommitDraft,
              BeginPromote, CommitPromote, knowledge
<1>6. ASSUME NEW c \in Callers, Abandon(c) PROVE UNCHANGED knowledge
  BY <1>6 DEF Abandon
<1>7. ASSUME NEW r \in Registrations, Evaluate(r) \/ Revoke(r)
      PROVE  /\ UNCHANGED <<members, accepted, draft>>
             /\ UNCHANGED shadow \/ Evaluate(r)
             /\ UNCHANGED registry \/ Revoke(r)
  BY <1>7 DEF Evaluate, Revoke
<1> QED
  BY <1>1, <1>2, <1>3, <1>4, <1>5, <1>6, <1>7 DEF Next, CallStep, knowledge

\* A revoked extension is never active again.
THEOREM RevocationStaysFinal == Spec => RevocationIsFinal
<1>1. ASSUME IInv, [Next]_vars, NEW r \in Registrations, registry[r].status = "REVOKED"
      PROVE  registry'[r].status = "REVOKED"
  <2>1. registry \in [Registrations -> Entries]
    BY <1>1 DEF IInv, TypeOK
  <2>2. ASSUME NEW c \in Callers, CommitPromote(c) PROVE registry'[r] = registry[r]
    BY <1>1, <2>1, <2>2 DEF CommitPromote
  <2>3. ASSUME NEW q \in Registrations, Revoke(q) PROVE registry'[r] = registry[r]
    BY <1>1, <2>1, <2>3 DEF Revoke
  <2> QED
    BY <1>1, <2>2, <2>3, Writers
<1>2. IInv /\ [Next]_vars =>
          [\A r \in Registrations :
              registry[r].status = "REVOKED" => registry'[r].status = "REVOKED"]_vars
  BY <1>1
<1> QED
  BY <1>2, Invariance, PTL DEF Spec, RevocationIsFinal

\* A member row comes with the first filing of its incident, in one family alone, or from
\* the family that a merge under way copies from - for any number of workers that are on
\* one incident.
THEOREM IncidentsAreFiledOnce == Spec => FiledOnce
<1>1. ASSUME IInv, [Next]_vars, NEW f \in Families, NEW i \in Incidents,
             i \in members'[f] \ members[f]
      PROVE  \/ ~Filed(i) /\ \A g \in Families \ {f} : i \notin members'[g]
             \/ \E c \in Callers : CopiesInto(c, f) /\ i \in members[call[c].family]
  <2>1. members \in [Families -> SUBSET Incidents]
    BY <1>1 DEF IInv, TypeOK
  <2>2. ASSUME NEW w \in Workers, Assign(w)
        PROVE  ~Filed(i) /\ \A g \in Families \ {f} : i \notin members'[g]
    <3>1. ~Filed(Incident(w))
      BY <2>2 DEF Assign
    <3>2. PICK g \in Families : members' = [members EXCEPT ![g] = @ \cup {Incident(w)}]
      BY <2>2 DEF Assign
    <3>3. g = f /\ i = Incident(w)
      BY <1>1, <2>1, <3>2
    <3> QED
      BY <2>1, <3>1, <3>2, <3>3 DEF Filed
  <2>3. ASSUME NEW c \in Callers, CopyMembers(c)
        PROVE  CopiesInto(c, f) /\ i \in members[call[c].family]
    <3>1. call \in [Callers -> Calls]
      BY <1>1 DEF IInv, TypeOK
    <3>2. /\ members' = [members EXCEPT ![call[c].target] = @ \cup members[call[c].family]]
          /\ call' = [call EXCEPT ![c].pc = "GATHER"]
          /\ Calling(c, "COPY")
      BY <2>3 DEF CopyMembers
    <3>3. call[c].target = f /\ i \in members[call[c].family]
      BY <1>1, <2>1, <3>2
    <3>4. call'[c].pc = "GATHER"
      BY <3>1, <3>2 DEF Calls
    <3> QED
      BY <3>2, <3>3, <3>4 DEF CopiesInto
  <2> QED
    BY <1>1, <2>2, <2>3, Writers
<1>2. IInv /\ [Next]_vars =>
          [\A f \in Families, i \in Incidents :
              i \in members'[f] \ members[f] =>
                  \/ ~Filed(i) /\ \A g \in Families \ {f} : i \notin members'[g]
                  \/ \E c \in Callers :
                        CopiesInto(c, f) /\ i \in members[call[c].family]]_vars
  BY <1>1
<1> QED
  BY <1>2, Invariance, PTL DEF Spec, FiledOnce

\* Two functions that differ in one point.
LEMMA OnePoint ==
    ASSUME NEW S, NEW F, NEW G, NEW r \in S, NEW v,
           F = [q \in S |-> F[q]], G = [q \in S |-> G[q]],
           G[r] = v, \A q \in S \ {r} : G[q] = F[q]
    PROVE  G = [F EXCEPT ![r] = v]
OBVIOUS

\* The stage of one registration moves.
LEMMA StageMoves ==
    ASSUME NEW r \in Registrations, NEW v, Stage'[r] = v,
           \A q \in Registrations \ {r} : Stage'[q] = Stage[q]
    PROVE  Stage' = [Stage EXCEPT ![r] = v]
<1>1. Stage = [q \in Registrations |-> Stage[q]] /\ Stage' = [q \in Registrations |-> Stage'[q]]
  BY DEF Stage
<1> QED
  BY <1>1, OnePoint

\* The calls with their stale reads keep the promise of GovernedExtensions: drafted
\* after acceptance, evaluated once, promoted once and only if it passed, revoked once.
THEOREM GovernanceIsKept == Spec => KeepsGovernance
<1>1. Init => Governance!Init
  BY DEF Init, Governance!Init, Source, Stage, Drafted, NoDraft, NoEntry
<1>2. ASSUME IInv, [Next]_vars
      PROVE  Governance!Next \/ UNCHANGED <<accepted, Source, Stage>>
  <2>1. TypeOK /\ TypeOK' /\ IInv'
    BY <1>2, NextInvariant DEF IInv
  <2>2. \A r \in Registrations : DraftIsSound(r)
    BY <1>2 DEF IInv, StoresAreSound, DraftsAreSound
  <2>3. /\ UNCHANGED <<draft, shadow, registry>> => UNCHANGED <<Source, Stage>>
        /\ UNCHANGED draft => UNCHANGED Source
    BY DEF Source, Stage, Drafted
  <2>4. CASE UNCHANGED <<accepted, draft, shadow, registry>>
    BY <2>3, <2>4
  <2>5. ASSUME NEW c \in Callers, Decide(c)
        PROVE  Governance!Next \/ UNCHANGED <<accepted, Source, Stage>>
    <3>1. UNCHANGED <<Source, Stage>>
      BY <2>3, <2>5 DEF Decide
    <3>2. call[c].family \in Families
      BY <1>2, <2>5, UnderWay DEF Carried, Decide, Calling
    <3>3. accepted' = accepted \/ accepted' = accepted \cup {call[c].family}
      BY <2>5 DEF Decide
    <3> QED
      BY <3>1, <3>2, <3>3 DEF Governance!Next, Governance!Accept
  <2>6. ASSUME NEW c \in Callers, CommitDraft(c) PROVE Governance!Next
    <3>1. /\ call[c].family \in Families /\ call[c].family \in accepted
          /\ UNCHANGED <<accepted, shadow, registry>>
      BY <1>2, <2>6, UnderWay DEF Carried, CommitDraft, Calling
    <3> PICK f \in Families : f = call[c].family
      BY <3>1
    <3> PICK new : new = [of |-> f, positives |-> call[c].rows,
                          controls |-> call[c].controls, clause |-> call[c].clause]
      OBVIOUS
    <3>2. /\ new.of = f
          /\ \E r \in Registrations : ~Drafted(r) /\ draft' = [draft EXCEPT ![r] = new]
      BY <2>6 DEF CommitDraft
    <3> PICK r \in Registrations : ~Drafted(r) /\ draft' = [draft EXCEPT ![r] = new]
      BY <3>2
    <3>3. /\ draft'[r] = new /\ \A q \in Registrations \ {r} : draft'[q] = draft[q]
          /\ f # None
      BY <2>1, <3>2, NoneAssumption DEF TypeOK
    <3>4. Source' = [Source EXCEPT ![r] = f]
      <4>1. /\ Source = [q \in Registrations |-> Source[q]]
            /\ Source' = [q \in Registrations |-> Source'[q]]
            /\ Source'[r] = f /\ \A q \in Registrations \ {r} : Source'[q] = Source[q]
        BY <3>2, <3>3 DEF Source
      <4> QED
        BY <4>1, OnePoint
    <3>5. registry[r].status = "NONE" /\ shadow[r] = "NONE"
      BY <2>2, <3>2 DEF DraftIsSound
    <3>6. Stage[r] = "NONE"
      BY <3>2, <3>5 DEF Stage
    <3>7. Stage' = [Stage EXCEPT ![r] = "DRAFTED"]
      <4>1. Stage'[r] = "DRAFTED"
        BY <3>1, <3>2, <3>3, <3>5 DEF Stage, Drafted
      <4>2. \A q \in Registrations \ {r} : Stage'[q] = Stage[q]
        BY <3>1, <3>3 DEF Stage, Drafted
      <4> QED
        BY <4>1, <4>2, StageMoves
    <3> QED
      BY <3>1, <3>4, <3>6, <3>7 DEF Governance!Next, Governance!Step, Governance!Draft
  <2>7. ASSUME NEW r \in Registrations, Evaluate(r) PROVE Governance!Next
    <3>1. UNCHANGED <<accepted, Source, draft, registry>> /\ shadow[r] = "NONE" /\ Drafted(r)
      BY <2>2, <2>3, <2>7 DEF Evaluate, DraftIsSound
    <3>2. PICK result \in {"PASSED", "FAILED"} : shadow' = [shadow EXCEPT ![r] = result]
      BY <2>7 DEF Evaluate
    <3>3. shadow'[r] = result /\ \A q \in Registrations \ {r} : shadow'[q] = shadow[q]
      BY <2>1, <3>2 DEF TypeOK
    <3>4. registry[r].status = "NONE"
      BY <2>2, <3>1 DEF DraftIsSound
    <3>5. Stage[r] = "DRAFTED"
      BY <3>1, <3>4 DEF Stage
    <3>6. Stage' = [Stage EXCEPT ![r] = result]
      <4>1. Stage'[r] = result /\ \A q \in Registrations \ {r} : Stage'[q] = Stage[q]
        BY <3>1, <3>3, <3>4 DEF Stage, Drafted
      <4> QED
        BY <4>1, StageMoves
    <3> QED
      BY <3>1, <3>5, <3>6 DEF Governance!Next, Governance!Step, Governance!Advance
  <2>8. ASSUME NEW r \in Registrations, NEW from \in {"PASSED", "ACTIVE"},
               NEW e \in Entries, UNCHANGED <<accepted, draft, shadow>>,
               registry' = [registry EXCEPT ![r] = e], Stage[r] = from,
               e.status = IF from = "PASSED" THEN "ACTIVE" ELSE "REVOKED"
        PROVE  Governance!Next
    <3>1. registry'[r] = e /\ \A q \in Registrations \ {r} : registry'[q] = registry[q]
      BY <2>1, <2>8 DEF TypeOK
    <3>2. Stage' = [Stage EXCEPT ![r] = e.status]
      <4>1. Stage'[r] = e.status /\ \A q \in Registrations \ {r} : Stage'[q] = Stage[q]
        BY <2>8, <3>1 DEF Stage, Drafted
      <4> QED
        BY <4>1, StageMoves
    <3> QED
      BY <2>3, <2>8, <3>2 DEF Governance!Next, Governance!Step, Governance!Advance
  <2>9. Len(versions) \in Nat
    BY <2>1 DEF TypeOK
  <2>10. ASSUME NEW c \in Callers, CommitPromote(c) PROVE Governance!Next
    <3>1. PICK r \in Registrations :
              /\ registry[r].status = "NONE" /\ shadow[r] = "PASSED"
              /\ registry' = [registry EXCEPT ![r] =
                     [status |-> "ACTIVE", version |-> Len(versions) + 1]]
      BY <1>2, <2>10, UnderWay DEF Carried, Compilable, CommitPromote, Calling
    <3>2. Stage[r] = "PASSED"
      BY <3>1 DEF Stage
    <3>3. [status |-> "ACTIVE", version |-> Len(versions) + 1] \in Entries
      BY <2>9 DEF Entries
    <3>4. UNCHANGED <<accepted, draft, shadow>>
      BY <2>10 DEF CommitPromote
    <3> QED
      BY <2>8, <3>1, <3>2, <3>3, <3>4
  <2>11. ASSUME NEW r \in Registrations, Revoke(r) PROVE Governance!Next
    <3>1. /\ registry[r].status = "ACTIVE" /\ UNCHANGED <<accepted, draft, shadow>>
          /\ registry' = [registry EXCEPT ![r] =
                 [status |-> "REVOKED", version |-> Len(versions) + 1]]
      BY <2>11 DEF Revoke
    <3>2. Stage[r] = "ACTIVE"
      BY <3>1 DEF Stage
    <3>3. [status |-> "REVOKED", version |-> Len(versions) + 1] \in Entries
      BY <2>9 DEF Entries
    <3> QED
      BY <2>8, <3>1, <3>2, <3>3
  <2> QED
    BY <1>2, <2>4, <2>5, <2>6, <2>7, <2>10, <2>11, Writers
<1> QED
  BY <1>1, <1>2, Invariance, PTL DEF Spec, KeepsGovernance, Governance!Spec

--------------------------------------------------------------------------------
(* A job that has succeeded has filed its incident *)

\* The record of a worker before (n) and after (m) each of its steps.
Published(n, m) ==
    /\ m.incident = n.incident
    /\ m.pc = IF verdict'[n.incident].terminal = "OPEN_WORLD" THEN "LOOKUP" ELSE "FINISH"
LookedUp(n, m) ==
    /\ m.incident = n.incident
    /\ \/ m.pc = "CHOOSE"
       \/ m.pc = "REREAD" /\ m.family \in Families /\ n.incident \in members[m.family]
Chosen(n, m) ==
    /\ m.incident = n.incident /\ m.pc = "ASSIGN"
    /\ \/ m.family = None /\ m.prior = "ACCUMULATING"
       \/ m.family \in Families /\ Exists(m.family) /\ m.prior = family[m.family].status
Assigned(n, m) ==
    /\ m.incident = n.incident /\ m.pc = "ROWS" /\ m.prior = n.prior /\ m.family \in Families
    /\ members' = [members EXCEPT ![m.family] = @ \cup {n.incident}]
    /\ \/ m.family = n.family /\ UNCHANGED family
       \/ /\ ~Exists(m.family)
          /\ family' = [family EXCEPT ![m.family] =
                 [status |-> "ACCUMULATING", shown |-> {n.incident}, into |-> None]]
Reopened(n, m) ==
    /\ m.incident = n.incident
    /\ IF family[n.family].status \in Open
       THEN m.pc = "ROWS" /\ m.family = n.family /\ m.prior = family[n.family].status
       ELSE m.pc = "FINISH"
Gathered(n, m) ==
    /\ m.incident = n.incident /\ m.pc = "PUT"
    /\ m.family = n.family /\ m.prior = n.prior /\ m.rows = members[n.family]

\* What a worker carries after each of its steps.
LEMMA Carries ==
    ASSUME IInv, NEW w \in Workers, NEW n, NEW m, n = ingest[w], m = ingest'[w]
    PROVE  /\ Publish(w) => Published(n, m)
           /\ Lookup(w) => LookedUp(n, m)
           /\ Choose(w) => Chosen(n, m)
           /\ Assign(w) => Assigned(n, m)
           /\ Reread(w) => Reopened(n, m)
           /\ ReadRows(w) => Gathered(n, m)
           /\ Put(w) => m.incident = n.incident /\ m.pc = "FINISH"
           /\ Finish(w) \/ Fail(w) \/ LoseLease(w) \/ Crash(w) => m.pc = "IDLE"
<1>1. ingest \in [Workers -> Ingests] /\ n \in Ingests
  BY DEF IInv, TypeOK
<1>2. ASSUME NEW pc, Move(w, pc)
      PROVE  /\ m.pc = pc /\ m.incident = n.incident
             /\ m.family = n.family /\ m.prior = n.prior
  <2>1. m = [n EXCEPT !.pc = pc]
    BY <1>1, <1>2 DEF Move
  <2> QED
    BY <1>1, <2>1 DEF Ingests
<1>3. ASSUME NEW pc, NEW f, ingest' = [ingest EXCEPT ![w].pc = pc, ![w].family = f]
      PROVE  m.pc = pc /\ m.incident = n.incident /\ m.family = f /\ m.prior = n.prior
  <2>1. m = [n EXCEPT !.pc = pc, !.family = f]
    BY <1>1, <1>3
  <2> QED
    BY <1>1, <2>1 DEF Ingests
<1>4. ASSUME NEW pc, NEW f, NEW prior,
             ingest' = [ingest EXCEPT ![w].pc = pc, ![w].family = f, ![w].prior = prior]
      PROVE  m.pc = pc /\ m.incident = n.incident /\ m.family = f /\ m.prior = prior
  <2>1. m = [n EXCEPT !.pc = pc, !.family = f, !.prior = prior]
    BY <1>1, <1>4
  <2> QED
    BY <1>1, <2>1 DEF Ingests
<1>5. Publish(w) => Published(n, m)
  BY <1>2 DEF Publish, Published, Incident
<1>6. Lookup(w) => LookedUp(n, m)
  BY <1>2, <1>3 DEF Lookup, LookedUp, Incident
<1>7. Choose(w) => Chosen(n, m)
  <2> SUFFICES ASSUME Choose(w) PROVE Chosen(n, m)
    OBVIOUS
  <2>1. CASE ingest' = [ingest EXCEPT ![w].pc = "ASSIGN", ![w].family = None,
                                      ![w].prior = "ACCUMULATING"]
    BY <1>4, <2>1 DEF Chosen
  <2>2. ASSUME NEW f \in Families, Exists(f),
               ingest' = [ingest EXCEPT ![w].pc = "ASSIGN", ![w].family = f,
                                        ![w].prior = family[f].status]
        PROVE  Chosen(n, m)
    <3>1. /\ m.pc = "ASSIGN" /\ m.incident = n.incident /\ m.family = f
          /\ m.prior = family[f].status
      BY <1>4, <2>2
    <3> QED
      BY <2>2, <3>1 DEF Chosen
  <2> QED
    BY <2>1, <2>2 DEF Choose
<1>8. Assign(w) => Assigned(n, m)
  <2> SUFFICES ASSUME Assign(w) PROVE Assigned(n, m)
    OBVIOUS
  <2>1. PICK f \in Families :
            /\ \/ f = n.family /\ UNCHANGED family
               \/ /\ ~Exists(f)
                  /\ family' = [family EXCEPT ![f] =
                         [status |-> "ACCUMULATING", shown |-> {n.incident}, into |-> None]]
            /\ members' = [members EXCEPT ![f] = @ \cup {n.incident}]
            /\ ingest' = [ingest EXCEPT ![w].pc = "ROWS", ![w].family = f]
    BY DEF Assign, Incident
  <2>2. m.pc = "ROWS" /\ m.incident = n.incident /\ m.family = f /\ m.prior = n.prior
    BY <1>3, <2>1
  <2> QED
    BY <2>1, <2>2 DEF Assigned
<1>9. Reread(w) => Reopened(n, m)
  <2>1. ASSUME NEW status,
               ingest' = [ingest EXCEPT ![w].pc = "ROWS", ![w].prior = status]
        PROVE  m.pc = "ROWS" /\ m.incident = n.incident /\ m.family = n.family /\ m.prior = status
    <3>1. m = [n EXCEPT !.pc = "ROWS", !.prior = status]
      BY <1>1, <2>1
    <3> QED
      BY <1>1, <3>1 DEF Ingests
  <2> QED
    BY <1>2, <2>1 DEF Reread, Reopened
<1>10. ReadRows(w) => Gathered(n, m)
  <2> SUFFICES ASSUME ReadRows(w) PROVE Gathered(n, m)
    OBVIOUS
  <2>1. m = [n EXCEPT !.pc = "PUT", !.rows = members[n.family]]
    BY <1>1 DEF ReadRows
  <2> QED
    BY <1>1, <2>1 DEF Gathered, Ingests
<1>11. Put(w) => m.incident = n.incident /\ m.pc = "FINISH"
  BY <1>2 DEF Put
<1>12. Finish(w) \/ Fail(w) \/ LoseLease(w) \/ Crash(w) => m.pc = "IDLE"
  <2> SUFFICES ASSUME Finish(w) \/ Fail(w) \/ LoseLease(w) \/ Crash(w) PROVE m.pc = "IDLE"
    OBVIOUS
  <2>1. ingest' = [ingest EXCEPT ![w] = IdleIngest]
    BY DEF Finish, Fail, LoseLease, Crash, End, Drop
  <2>2. m = IdleIngest
    BY <1>1, <2>1
  <2> QED
    BY <2>2 DEF IdleIngest
<1> QED
  BY <1>5, <1>6, <1>7, <1>8, <1>9, <1>10, <1>11, <1>12

\* What a worker has done for the incident it carries, as far as it has come.
HasFiled(w) ==
    LET n == ingest[w] IN
    /\ n.pc \notin {"IDLE", "MATCH"} => verdict[n.incident] # Undiagnosed
    /\ n.pc \in {"REREAD", "ROWS", "PUT"} => Filed(n.incident)
    /\ n.pc = "FINISH" /\ verdict[n.incident].terminal = "OPEN_WORLD" => Filed(n.incident)

\* A job that has succeeded has published a diagnosis, and if that knows no cause, the
\* incident is filed in a family.
SucceededIsFiled ==
    \A i \in Incidents : job[i].end = "SUCCEEDED" =>
        /\ verdict[i] # Undiagnosed
        /\ verdict[i].terminal = "OPEN_WORLD" => Filed(i)

FilingInv == (\A w \in Workers : HasFiled(w)) /\ SucceededIsFiled

\* Jobs, diagnoses and the records of the workers are moved by workers only.
LEMMA WorkerActs ==
    ASSUME [Next]_vars
    PROVE  UNCHANGED <<job, verdict, ingest>> \/ \E w \in Workers : WorkerStep(w)
<1>1. CASE UNCHANGED vars
  BY <1>1 DEF vars
<1>2. ASSUME NEW c \in Callers, CallStep(c) PROVE UNCHANGED <<job, verdict, ingest>>
  BY <1>2 DEF CallStep, Reviewing, Merging, Registering, BeginReview, BeginMerge, BeginDraft,
              BeginPromote, Begin, Abandon, Decide, ReadSource, ReadTarget, CopyMembers,
              Gather, PutTarget, PutSource, ReadMatrix, MineClause, CommitDraft, CommitPromote
<1>3. ASSUME NEW r \in Registrations, Evaluate(r) \/ Revoke(r)
      PROVE  UNCHANGED <<job, verdict, ingest>>
  BY <1>3 DEF Evaluate, Revoke
<1> QED
  BY <1>1, <1>2, <1>3 DEF Next

\* A step of a worker leaves the others where they are, and ends at most its own job.
LEMMA OwnWork ==
    ASSUME IInv, NEW w \in Workers, WorkerStep(w)
    PROVE  /\ \A v \in Workers \ {w} : ingest'[v] = ingest[v]
           /\ \A i \in Incidents : job'[i].end = job[i].end \/ i = Incident(w)
           /\ \A i \in Incidents : job'[i].end = "SUCCEEDED" =>
                 job[i].end = "SUCCEEDED" \/ (i = Incident(w) /\ Finish(w))
<1>1. job \in [Incidents -> Jobs] /\ ingest \in [Workers -> Ingests]
  BY DEF IInv, TypeOK
<1>2. ASSUME NEW i \in Incidents, Take(w, i)
      PROVE  /\ \A v \in Workers \ {w} : ingest'[v] = ingest[v]
             /\ \A k \in Incidents : job'[k].end = job[k].end
  <2>1. job' = [job EXCEPT ![i] = [job[i] EXCEPT !.holder = w, !.attempts = @ + 1]]
    BY <1>2 DEF Take
  <2>2. [job[i] EXCEPT !.holder = w, !.attempts = @ + 1].end = job[i].end
    BY <1>1 DEF Jobs
  <2>3. \A k \in Incidents : job'[k].end = job[k].end
    BY <1>1, <2>1, <2>2
  <2> QED
    BY <1>1, <1>2, <2>3 DEF Take
<1>3. ASSUME NEW end, End(w, end)
      PROVE  /\ \A v \in Workers \ {w} : ingest'[v] = ingest[v]
             /\ \A k \in Incidents \ {Incident(w)} : job'[k] = job[k]
             /\ Incident(w) \in Incidents => job'[Incident(w)].end = end
  <2>1. job' = [job EXCEPT ![Incident(w)] =
                   [job[Incident(w)] EXCEPT !.end = end, !.holder = None]]
    BY <1>3 DEF End
  <2>2. Incident(w) \in Incidents =>
            [job[Incident(w)] EXCEPT !.end = end, !.holder = None].end = end
    BY <1>1 DEF Jobs
  <2> QED
    BY <1>1, <1>3, <2>1, <2>2 DEF End
<1>4. ASSUME ~Finish(w), ~Fail(w), \A i \in Incidents : ~Take(w, i)
      PROVE  UNCHANGED job /\ \A v \in Workers \ {w} : ingest'[v] = ingest[v]
  BY <1>1, <1>4 DEF WorkerStep, Working, Publish, Lookup, Choose, Assign, Reread, ReadRows,
                    Put, LoseLease, Crash, Drop, Move
<1>5. CASE Finish(w)
  BY <1>3, <1>5 DEF Finish
<1>6. CASE Fail(w)
  BY <1>3, <1>6 DEF Fail
<1> QED
  BY <1>2, <1>4, <1>5, <1>6

\* A published diagnosis and a member row are never taken back.
LEMMA DiagnosesStay ==
    ASSUME IInv, [Next]_vars
    PROVE  /\ \A i \in Incidents : verdict[i] # Undiagnosed => verdict'[i] = verdict[i]
           /\ \A f \in Families : members[f] \subseteq members'[f]
           /\ \A i \in Incidents : Filed(i) => Filed(i)'
<1>1. verdict \in [Incidents -> Verdicts] /\ members \in [Families -> SUBSET Incidents]
  BY DEF IInv, TypeOK
<1>2. UNCHANGED verdict \/ \E w \in Workers : Publish(w)
  <2>1. ASSUME NEW w \in Workers, WorkerStep(w) PROVE UNCHANGED verdict \/ Publish(w)
    BY <2>1 DEF WorkerStep, Working, Take, Lookup, Choose, Assign, Reread, ReadRows, Put,
                Finish, Fail, End, LoseLease, Crash, Drop
  <2> QED
    BY <2>1, WorkerActs
<1>3. ASSUME NEW w \in Workers, Publish(w), NEW i \in Incidents, verdict[i] # Undiagnosed
      PROVE  verdict'[i] = verdict[i]
  BY <1>1, <1>3 DEF Publish
<1>4. \A f \in Families : members[f] \subseteq members'[f]
  <2>1. ASSUME NEW w \in Workers, Assign(w), NEW f \in Families
        PROVE  members[f] \subseteq members'[f]
    BY <1>1, <2>1 DEF Assign
  <2>2. ASSUME NEW c \in Callers, CopyMembers(c), NEW f \in Families
        PROVE  members[f] \subseteq members'[f]
    BY <1>1, <2>2 DEF CopyMembers
  <2> QED
    BY <2>1, <2>2, Writers
<1> QED
  BY <1>2, <1>3, <1>4 DEF Filed

\* What a worker has done is not undone behind its back.
LEMMA HasFiledStays ==
    ASSUME IInv, [Next]_vars, NEW w \in Workers, HasFiled(w), ingest'[w] = ingest[w]
    PROVE  HasFiled(w)'
<1>1. ingest[w].pc # "IDLE" => ingest[w].incident \in Incidents
  BY DEF IInv, WorkerIsSound
<1>2. CASE ingest[w].pc \in {"IDLE", "MATCH"}
  BY <1>2 DEF HasFiled
<1>3. CASE ingest[w].pc \notin {"IDLE", "MATCH"}
  <2> PICK i \in Incidents : i = ingest[w].incident
    BY <1>1, <1>3
  <2>1. verdict[i] # Undiagnosed /\ verdict'[i] = verdict[i] /\ (Filed(i) => Filed(i)')
    BY <1>3, DiagnosesStay DEF HasFiled
  <2>2. ingest'[w].incident = i
    OBVIOUS
  <2> QED
    BY <2>1, <2>2 DEF HasFiled, Filed
<1> QED
  BY <1>2, <1>3

\* A worker's own step keeps what it has done: it goes past the lookup with a published
\* diagnosis, and past the first transaction with a filed incident.
LEMMA FilesInTurn ==
    ASSUME IInv, [Next]_vars, NEW w \in Workers, HasFiled(w), WorkerStep(w)
    PROVE  HasFiled(w)'
<1> PICK n, m : n = ingest[w] /\ m = ingest'[w]
  OBVIOUS
<1>0. SUFFICES /\ m.pc \notin {"IDLE", "MATCH"} => verdict'[m.incident] # Undiagnosed
               /\ m.pc \in {"REREAD", "ROWS", "PUT"} => Filed(m.incident)'
               /\ m.pc = "FINISH" /\ verdict'[m.incident].terminal = "OPEN_WORLD" =>
                     Filed(m.incident)'
  BY DEF HasFiled, Filed
<1>1. ingest \in [Workers -> Ingests]
      /\ (n.pc \notin {"IDLE", "MATCH", "FINISH"} => verdict[n.incident].terminal = "OPEN_WORLD")
  BY DEF IInv, TypeOK, WorkerIsSound
<1>2. CASE Finish(w) \/ Fail(w) \/ LoseLease(w) \/ Crash(w)
  BY <1>2, Carries
<1>3. ASSUME NEW i \in Incidents, Take(w, i) PROVE m.pc = "MATCH"
  <2>1. [IdleIngest EXCEPT !.pc = "MATCH", !.incident = i, !.known = Active].pc = "MATCH"
    BY DEF IdleIngest
  <2> QED
    BY <1>1, <1>3, <2>1 DEF Take
<1>4. CASE Publish(w)
  <2> PICK i \in Incidents : i = n.incident
    BY <1>4, AtWork DEF Publish, At, Incident
  <2>1. Published(n, m)
    BY <1>4, Carries
  <2>2. verdict'[i] # Undiagnosed
    BY <1>4 DEF Publish, Incident, Undiagnosed, IInv, TypeOK
  <2> QED
    BY <2>1, <2>2 DEF Published
<1>5. CASE Lookup(w) \/ Choose(w) \/ Assign(w) \/ Reread(w) \/ ReadRows(w) \/ Put(w)
  <2> PICK i \in Incidents : i = n.incident
    BY <1>5, AtWork DEF Lookup, Choose, Assign, Reread, ReadRows, Put, At, Incident
  <2>1. n.pc \notin {"IDLE", "MATCH", "FINISH"}
    BY <1>5 DEF Lookup, Choose, Assign, Reread, ReadRows, Put, At
  <2>2. verdict'[i] # Undiagnosed /\ (Filed(i) => Filed(i)')
    BY <2>1, DiagnosesStay DEF HasFiled
  <2>3. CASE Lookup(w)
    BY <2>2, <2>3, Carries DEF LookedUp, Filed
  <2>4. CASE Choose(w)
    BY <2>2, <2>4, Carries DEF Chosen
  <2>5. CASE Assign(w)
    <3>1. Assigned(n, m)
      BY <2>5, Carries
    <3>2. i \in members'[m.family]
      BY <3>1 DEF Assigned, IInv, TypeOK
    <3> QED
      BY <2>2, <3>1, <3>2 DEF Assigned, Filed
  <2>6. CASE Reread(w) \/ ReadRows(w) \/ Put(w)
    <3>1. m.incident = i
      BY <2>6, Carries DEF Reopened, Gathered
    <3>2. Filed(i)
      BY <2>6 DEF Reread, ReadRows, Put, At, HasFiled
    <3> QED
      BY <2>2, <3>1, <3>2
  <2> QED
    BY <1>5, <2>3, <2>4, <2>5, <2>6
<1> QED
  BY <1>2, <1>3, <1>4, <1>5 DEF WorkerStep, Working

\* Every step keeps the order of publication, filing and success.
LEMMA FilingStep ==
    ASSUME IInv, FilingInv, [Next]_vars PROVE FilingInv'
<1>1. \A w \in Workers : HasFiled(w)'
  <2>1. CASE UNCHANGED <<job, verdict, ingest>>
    BY <2>1, HasFiledStays DEF FilingInv
  <2>2. ASSUME NEW v \in Workers, WorkerStep(v), NEW w \in Workers PROVE HasFiled(w)'
    <3>1. CASE w = v
      BY <2>2, <3>1, FilesInTurn DEF FilingInv
    <3>2. CASE w # v
      BY <2>2, <3>2, OwnWork, HasFiledStays DEF FilingInv
    <3> QED
      BY <3>1, <3>2
  <2> QED
    BY <2>1, <2>2, WorkerActs
<1>2. ASSUME NEW i \in Incidents, job'[i].end = "SUCCEEDED"
      PROVE  /\ verdict'[i] # Undiagnosed
             /\ verdict'[i].terminal = "OPEN_WORLD" => Filed(i)'
  <2>1. /\ verdict[i] # Undiagnosed
        /\ verdict[i].terminal = "OPEN_WORLD" => Filed(i)
    <3>1. CASE job[i].end = "SUCCEEDED"
      BY <3>1 DEF FilingInv, SucceededIsFiled
    <3>2. ASSUME NEW w \in Workers, Finish(w), i = Incident(w)
          PROVE  /\ verdict[i] # Undiagnosed
                 /\ verdict[i].terminal = "OPEN_WORLD" => Filed(i)
      BY <3>2 DEF FilingInv, HasFiled, Finish, At, Incident
    <3> QED
      BY <1>2, <3>1, <3>2, OwnWork, WorkerActs
  <2> QED
    BY <2>1, DiagnosesStay
<1> QED
  BY <1>1, <1>2 DEF FilingInv, SucceededIsFiled

\* However many workers and callers interleave, and wherever leases lapse: a job that
\* has succeeded on an unexplained incident has filed it in a family.
THEOREM SucceededAreFiled == Spec => []SucceededIsFiled
<1>1. Init => FilingInv
  <2> SUFFICES ASSUME Init PROVE FilingInv
    OBVIOUS
  <2>1. \A w \in Workers : ingest[w].pc = "IDLE"
    BY DEF Init, IdleIngest
  <2>2. \A i \in Incidents : job[i].end = "NONE"
    BY DEF Init
  <2> QED
    BY <2>1, <2>2 DEF FilingInv, HasFiled, SucceededIsFiled
<1>2. IInv /\ FilingInv /\ [Next]_vars => FilingInv'
  BY FilingStep
<1>3. FilingInv => SucceededIsFiled
  BY DEF FilingInv
<1> QED
  BY <1>1, <1>2, <1>3, Invariance, PTL DEF Spec

--------------------------------------------------------------------------------
(* ... and shown it, if nobody disturbs the filing *)

\* No call is begun, and no worker goes on beside another: a job is claimed again only
\* after the worker that had it has stopped.
Undisturbed ==
    /\ begun = 0
    /\ \A v, w \in Workers : ~At(v, "IDLE") /\ ~At(w, "IDLE") => v = w

Shown(i) == \E f \in Families : i \in family[f].shown

\* The families are open, and every family with members exists.
FamiliesAreOpen ==
    \A f \in Families :
        /\ family[f].status \in Open \cup {"ABSENT"}
        /\ members[f] # {} => Exists(f)

\* What a worker carries is not only stored (WorkerIsSound): it is all that is stored.
WorkerIsFresh(w) ==
    LET n == ingest[w] IN
    /\ n.pc = "ASSIGN" /\ n.family \in Families => Exists(n.family)
    /\ n.pc \in {"ASSIGN", "ROWS", "PUT"} => n.prior \in Open
    /\ n.pc \in {"REREAD", "ROWS", "PUT"} => n.incident \in members[n.family]
    /\ n.pc = "PUT" => n.rows = members[n.family]
    /\ n.pc = "FINISH" /\ verdict[n.incident].terminal = "OPEN_WORLD" => Shown(n.incident)

ShownInv ==
    /\ \A c \in Callers : Calling(c, "IDLE")
    /\ FamiliesAreOpen
    /\ \A w \in Workers : WorkerIsFresh(w)
    /\ SucceededIsShown

\* While no call is begun, only workers touch jobs, diagnoses and families.
LEMMA OnlyWorkers ==
    ASSUME IInv, \A c \in Callers : Calling(c, "IDLE"), begun = 0, begun' = 0, [Next]_vars
    PROVE  /\ UNCHANGED call
           /\ \/ UNCHANGED <<job, verdict, ingest, members, family>>
              \/ \E w \in Workers : WorkerStep(w)
<1>1. CASE UNCHANGED vars
  BY <1>1 DEF vars, knowledge
<1>2. ASSUME NEW c \in Callers, CallStep(c) PROVE FALSE
  <2>1. ASSUME NEW record, Begin(c, record) PROVE FALSE
    BY <2>1 DEF Begin
  <2>2. CASE Reviewing(c)
    BY <2>1, <2>2 DEF Reviewing, BeginReview, Decide, Calling
  <2>3. CASE Merging(c)
    BY <2>1, <2>3 DEF Merging, BeginMerge, ReadSource, ReadTarget, CopyMembers, Gather,
                      PutTarget, PutSource, Calling
  <2>4. CASE Registering(c)
    BY <2>1, <2>4 DEF Registering, BeginDraft, ReadMatrix, MineClause, CommitDraft,
                      BeginPromote, CommitPromote, Calling
  <2> QED
    BY <1>2, <2>2, <2>3, <2>4 DEF CallStep, Abandon
<1>3. ASSUME NEW w \in Workers, WorkerStep(w) PROVE UNCHANGED call
  BY <1>3 DEF WorkerStep, Working, Take, Publish, Lookup, Choose, Assign, Reread, ReadRows,
              Put, Finish, Fail, End, LoseLease, Crash, Drop
<1>4. ASSUME NEW r \in Registrations, Evaluate(r) \/ Revoke(r)
      PROVE  UNCHANGED <<job, verdict, ingest, members, family, call>>
  BY <1>4 DEF Evaluate, Revoke
<1> QED
  BY <1>1, <1>2, <1>3, <1>4 DEF Next

\* A worker that files alone loses no incident that is shown: what it writes back is
\* all that is stored.
LEMMA ShownGrows ==
    ASSUME IInv, ShownInv, NEW w \in Workers, WorkerStep(w)
    PROVE  FamiliesAreOpen' /\ \A i \in Incidents : Shown(i) => Shown(i)'
<1> PICK n, m : n = ingest[w] /\ m = ingest'[w]
  OBVIOUS
<1>1. /\ family \in [Families -> Payloads] /\ members \in [Families -> SUBSET Incidents]
      /\ \A f \in Families : family[f].shown \subseteq members[f]
  BY DEF IInv, TypeOK, StoresAreSound, FamiliesAreSound, Sound
<1>2. CASE UNCHANGED <<family, members>>
  BY <1>2 DEF ShownInv, FamiliesAreOpen, Exists, Shown
<1>3. CASE Assign(w)
  <2>1. Assigned(n, m) /\ m.family \in Families
    BY <1>3, Carries DEF Assigned
  <2> PICK f \in Families : f = m.family
    BY <2>1
  <2>2. members' = [members EXCEPT ![f] = @ \cup {n.incident}]
    BY <2>1 DEF Assigned
  <2>3. CASE f = n.family /\ UNCHANGED family
    <3>1. Exists(f)
      BY <1>3, <2>3 DEF Assign, At, ShownInv, WorkerIsFresh
    <3> QED
      BY <1>1, <2>2, <2>3, <3>1 DEF ShownInv, FamiliesAreOpen, Exists, Shown
  <2>4. ASSUME ~Exists(f), NEW p, p.status = "ACCUMULATING",
               family' = [family EXCEPT ![f] = p]
        PROVE  FamiliesAreOpen' /\ \A i \in Incidents : Shown(i) => Shown(i)'
    <3>1. family[f].shown = {}
      BY <1>1, <2>4 DEF ShownInv, FamiliesAreOpen
    <3>2. family'[f] = p /\ \A g \in Families \ {f} : family'[g] = family[g]
      BY <1>1, <2>4
    <3>3. \A g \in Families \ {f} : members'[g] = members[g]
      BY <1>1, <2>2
    <3> QED
      BY <2>4, <3>1, <3>2, <3>3 DEF ShownInv, FamiliesAreOpen, Exists, Open, Shown
  <2> QED
    BY <2>1, <2>3, <2>4 DEF Assigned
<1>4. CASE Put(w)
  <2>1. n.family \in Families /\ n.prior \in Open /\ n.rows = members[n.family]
    BY <1>4 DEF Put, At, IInv, WorkerIsSound, ShownInv, WorkerIsFresh
  <2> PICK f \in Families : f = n.family
    BY <2>1
  <2> PICK p : p = [status |-> Readiness(n.prior, n.rows), shown |-> n.rows, into |-> None]
    OBVIOUS
  <2>2. p.status \in Open /\ p.shown = members[f]
    BY <2>1 DEF Readiness, Open
  <2>3. family' = [family EXCEPT ![f] = p] /\ UNCHANGED members
    BY <1>4 DEF Put
  <2>4. family'[f] = p /\ \A g \in Families \ {f} : family'[g] = family[g]
    BY <1>1, <2>3
  <2> QED
    BY <1>1, <2>2, <2>3, <2>4 DEF ShownInv, FamiliesAreOpen, Exists, Open, Shown
<1> QED
  BY <1>2, <1>3, <1>4 DEF WorkerStep, Working, Take, Publish, Lookup, Choose, Reread, ReadRows,
                          Finish, Fail, End, LoseLease, Crash, Drop, knowledge

\* What a worker carries stays fresh by its own steps.
LEMMA FreshInTurn ==
    ASSUME IInv, ShownInv, [Next]_vars, NEW w \in Workers, WorkerStep(w)
    PROVE  WorkerIsFresh(w)'
<1> PICK n, m : n = ingest[w] /\ m = ingest'[w]
  OBVIOUS
<1>0. SUFFICES
          /\ m.pc = "ASSIGN" /\ m.family \in Families => Exists(m.family)'
          /\ m.pc \in {"ASSIGN", "ROWS", "PUT"} => m.prior \in Open
          /\ m.pc \in {"REREAD", "ROWS", "PUT"} => m.incident \in members'[m.family]
          /\ m.pc = "PUT" => m.rows = members'[m.family]
          /\ m.pc = "FINISH" /\ verdict'[m.incident].terminal = "OPEN_WORLD" =>
                 Shown(m.incident)'
  BY DEF WorkerIsFresh, Exists, Shown
<1>1. /\ members \in [Families -> SUBSET Incidents] /\ ingest \in [Workers -> Ingests]
      /\ n.pc \in {"REREAD", "ROWS", "PUT"} => n.family \in Families
      /\ None \notin Families /\ WorkerIsFresh(w)
  BY NoneAssumption DEF IInv, TypeOK, WorkerIsSound, ShownInv
<1>2. CASE Finish(w) \/ Fail(w) \/ LoseLease(w) \/ Crash(w)
  BY <1>2, Carries
<1>3. ASSUME NEW i \in Incidents, Take(w, i) PROVE m.pc = "MATCH"
  <2>1. [IdleIngest EXCEPT !.pc = "MATCH", !.incident = i, !.known = Active].pc = "MATCH"
    BY DEF IdleIngest
  <2> QED
    BY <1>1, <1>3, <2>1 DEF Take
<1>4. CASE Publish(w)
  BY <1>4, Carries DEF Published
<1>5. CASE Lookup(w)
  BY <1>5, Carries DEF LookedUp, Lookup, knowledge
<1>6. CASE Choose(w)
  <2>1. Chosen(n, m) /\ UNCHANGED family
    BY <1>6, Carries DEF Choose, knowledge
  <2> QED
    BY <1>1, <2>1 DEF Chosen, ShownInv, FamiliesAreOpen, Exists, Open
<1>7. CASE Assign(w)
  <2>1. Assigned(n, m) /\ n.prior \in Open
    BY <1>1, <1>7, Carries DEF Assign, At, WorkerIsFresh
  <2> QED
    BY <1>1, <2>1 DEF Assigned
<1>8. CASE Reread(w)
  <2>1. /\ Reopened(n, m) /\ UNCHANGED members
        /\ n.family \in Families /\ n.incident \in members[n.family]
    BY <1>1, <1>8, Carries DEF Reread, At, WorkerIsFresh, knowledge
  <2>2. family[n.family].status \in Open
    BY <2>1 DEF ShownInv, FamiliesAreOpen, Exists
  <2> QED
    BY <2>1, <2>2 DEF Reopened
<1>9. CASE ReadRows(w)
  <2>1. /\ Gathered(n, m) /\ UNCHANGED members
        /\ n.prior \in Open /\ n.incident \in members[n.family]
    BY <1>1, <1>9, Carries DEF ReadRows, At, WorkerIsFresh, knowledge
  <2> QED
    BY <2>1 DEF Gathered
<1>10. CASE Put(w)
  <2>1. /\ n.family \in Families /\ n.incident \in members[n.family]
        /\ n.rows = members[n.family] /\ m.pc = "FINISH" /\ m.incident = n.incident
    BY <1>1, <1>10, Carries DEF Put, At, WorkerIsFresh
  <2> PICK p : p = [status |-> Readiness(n.prior, n.rows), shown |-> n.rows, into |-> None]
    OBVIOUS
  <2>2. family' = [family EXCEPT ![n.family] = p] /\ p.shown = members[n.family]
    BY <1>10, <2>1 DEF Put
  <2>3. Shown(n.incident)'
    BY <2>1, <2>2 DEF Shown, IInv, TypeOK
  <2> QED
    BY <2>1, <2>3
<1> QED
  BY <1>2, <1>3, <1>4, <1>5, <1>6, <1>7, <1>8, <1>9, <1>10 DEF WorkerStep, Working

\* Every undisturbed step keeps the filing whole.
LEMMA ShownStep ==
    ASSUME IInv, FilingInv, ShownInv, Undisturbed, Undisturbed', [Next]_vars
    PROVE  ShownInv'
<1>1. begun = 0 /\ begun' = 0
  BY DEF Undisturbed
<1>2. /\ UNCHANGED call
      /\ \/ UNCHANGED <<job, verdict, ingest, members, family>>
         \/ \E w \in Workers : WorkerStep(w)
  BY <1>1, OnlyWorkers DEF ShownInv
<1>3. \A c \in Callers : Calling(c, "IDLE")'
  BY <1>2 DEF ShownInv, Calling
<1>4. CASE UNCHANGED <<job, verdict, ingest, members, family>>
  BY <1>3, <1>4 DEF ShownInv, FamiliesAreOpen, WorkerIsFresh, SucceededIsShown, Shown, Exists
<1>5. ASSUME NEW w \in Workers, WorkerStep(w) PROVE ShownInv'
  <2>1. FamiliesAreOpen' /\ \A i \in Incidents : Shown(i) => Shown(i)'
    BY <1>5, ShownGrows
  <2>2. ASSUME NEW v \in Workers \ {w} PROVE WorkerIsFresh(v)'
    <3>1. ~At(w, "IDLE") \/ ~At(w, "IDLE")'
      <4>1. ASSUME NEW i \in Incidents, Take(w, i) PROVE ~At(w, "IDLE")'
        <5>1. [IdleIngest EXCEPT !.pc = "MATCH", !.incident = i, !.known = Active].pc = "MATCH"
          BY DEF IdleIngest
        <5> QED
          BY <4>1, <5>1 DEF Take, At, IInv, TypeOK
      <4> QED
        BY <1>5, <4>1 DEF WorkerStep, Working, Publish, Lookup, Choose, Assign, Reread, ReadRows,
                          Put, Finish, Fail, LoseLease, Crash, At
    <3>2. ingest'[v] = ingest[v]
      BY <1>5, OwnWork
    <3>3. ingest'[v].pc = "IDLE"
      BY <3>1, <3>2 DEF Undisturbed, At
    <3> QED
      BY <3>3 DEF WorkerIsFresh
  <2>3. WorkerIsFresh(w)'
    BY <1>5, FreshInTurn
  <2>4. ASSUME NEW i \in Incidents, job'[i].end = "SUCCEEDED",
               verdict'[i].terminal = "OPEN_WORLD"
        PROVE  Shown(i)'
    <3>1. CASE job[i].end = "SUCCEEDED"
      <4>1. verdict'[i] = verdict[i]
        BY <3>1, DiagnosesStay DEF FilingInv, SucceededIsFiled
      <4> QED
        BY <2>1, <2>4, <3>1, <4>1 DEF ShownInv, SucceededIsShown, Shown
    <3>2. CASE i = Incident(w) /\ Finish(w)
      <4>1. Shown(i)
        BY <2>4, <3>2 DEF ShownInv, WorkerIsFresh, Finish, End, At, Incident
      <4> QED
        BY <2>1, <4>1
    <3> QED
      BY <1>5, <2>4, <3>1, <3>2, OwnWork
  <2> QED
    BY <1>3, <2>1, <2>2, <2>3, <2>4 DEF ShownInv, SucceededIsShown, Shown
<1> QED
  BY <1>2, <1>4, <1>5

\* As long as no operator calls and no two workers go on side by side, a job that has
\* succeeded on an unexplained incident has shown it in a family - for any number of
\* workers, of crashes between the two transactions of the filing and of retries.
THEOREM SucceededAreShown == Spec /\ []Undisturbed => []SucceededIsShown
<1>1. Init => FilingInv /\ ShownInv
  <2> SUFFICES ASSUME Init PROVE FilingInv /\ ShownInv
    OBVIOUS
  <2>1. \A w \in Workers : ingest[w].pc = "IDLE"
    BY DEF Init, IdleIngest
  <2>2. \A i \in Incidents : job[i].end = "NONE"
    BY DEF Init
  <2>3. \A c \in Callers : Calling(c, "IDLE")
    BY DEF Init, Calling, NoCall
  <2>4. FamiliesAreOpen
    BY DEF Init, FamiliesAreOpen, NoFamily
  <2> QED
    BY <2>1, <2>2, <2>3, <2>4 DEF FilingInv, HasFiled, SucceededIsFiled, ShownInv, WorkerIsFresh,
                                  SucceededIsShown
<1>2. IInv /\ FilingInv /\ [Next]_vars => FilingInv'
  BY FilingStep
<1>3. IInv /\ FilingInv /\ ShownInv /\ Undisturbed /\ Undisturbed' /\ [Next]_vars => ShownInv'
  BY ShownStep
<1>4. ShownInv => SucceededIsShown
  BY DEF ShownInv
<1> QED
  BY <1>1, <1>2, <1>3, <1>4, Invariance, PTL DEF Spec

\* One worker in an environment that no operator has called yet is undisturbed: it shows
\* every unexplained incident of a job that has succeeded.
THEOREM LoneWorkerShows ==
    ASSUME Callers = {}, \A v, w \in Workers : v = w
    PROVE  Spec => []SucceededIsShown
<1>1. Init => Undisturbed
  BY DEF Init, Undisturbed
<1>2. Undisturbed /\ [Next]_vars => Undisturbed'
  <2> SUFFICES ASSUME Undisturbed, [Next]_vars PROVE begun' = 0
    BY DEF Undisturbed, At
  <2>1. CASE UNCHANGED vars
    BY <2>1 DEF vars, Undisturbed
  <2>2. ASSUME NEW w \in Workers, WorkerStep(w) PROVE UNCHANGED begun
    BY <2>2 DEF WorkerStep, Working, Take, Publish, Lookup, Choose, Assign, Reread, ReadRows,
                Put, Finish, Fail, End, LoseLease, Crash, Drop
  <2>3. ASSUME NEW r \in Registrations, Evaluate(r) \/ Revoke(r) PROVE UNCHANGED begun
    BY <2>3 DEF Evaluate, Revoke
  <2> QED
    BY <2>1, <2>2, <2>3 DEF Next, Undisturbed
<1> QED
  BY <1>1, <1>2, SucceededAreShown, PTL DEF Spec

--------------------------------------------------------------------------------
(* Decisions that are not overtaken *)

\* A worker is going to write the family back as open.
Reopens(w, f) ==
    /\ ingest[w].pc \in {"ASSIGN", "ROWS", "PUT"}
    /\ ingest[w].family = f /\ ingest[w].prior \in Open

\* No decision about a family is written while a worker is about to write it back as open.
DecisionsWait ==
    [][\A f \in Families :
          family[f].status \notin Decided /\ family'[f].status \in Decided =>
              \A w \in Workers : ~Reopens(w, f)]_vars

\* What such a worker holds is not decided.
OpenIsUndecided ==
    \A w \in Workers, f \in Families : Reopens(w, f) => family[f].status \notin Decided

\* The one worker that comes to reopen a family has just read it as open, or made it.
LEMMA ReopensOpen ==
    ASSUME IInv, NEW w \in Workers, WorkerStep(w), NEW f \in Families,
           Reopens(w, f)', ~Reopens(w, f)
    PROVE  family'[f].status \in Open
<1> PICK n, m : n = ingest[w] /\ m = ingest'[w]
  OBVIOUS
<1>1. /\ ingest \in [Workers -> Ingests] /\ family \in [Families -> Payloads]
      /\ n \in Ingests /\ None \notin Families
      /\ m.pc \in {"ASSIGN", "ROWS", "PUT"} /\ m.family = f /\ m.prior \in Open
      /\ ~(n.pc \in {"ASSIGN", "ROWS", "PUT"} /\ n.family = f /\ n.prior \in Open)
  BY NoneAssumption DEF IInv, TypeOK, Reopens
<1>2. ASSUME NEW pc, Move(w, pc) PROVE m.pc = pc
  <2>1. m = [n EXCEPT !.pc = pc]
    BY <1>1, <1>2 DEF Move
  <2> QED
    BY <1>1, <2>1 DEF Ingests
<1>3. CASE Choose(w)
  <2>1. CASE ingest' = [ingest EXCEPT ![w].pc = "ASSIGN", ![w].family = None,
                                      ![w].prior = "ACCUMULATING"]
    <3>1. m = [n EXCEPT !.pc = "ASSIGN", !.family = None, !.prior = "ACCUMULATING"]
      BY <1>1, <2>1
    <3> QED
      BY <1>1, <3>1 DEF Ingests
  <2>2. ASSUME NEW g \in Families,
               ingest' = [ingest EXCEPT ![w].pc = "ASSIGN", ![w].family = g,
                                        ![w].prior = family[g].status]
        PROVE  family[f].status \in Open
    <3>1. m = [n EXCEPT !.pc = "ASSIGN", !.family = g, !.prior = family[g].status]
      BY <1>1, <2>2
    <3> QED
      BY <1>1, <3>1 DEF Ingests
  <2> QED
    BY <1>3, <2>1, <2>2 DEF Choose, knowledge
<1>4. CASE Assign(w)
  <2>1. PICK g \in Families :
            /\ \/ g = n.family
               \/ /\ ~Exists(g)
                  /\ family' = [family EXCEPT ![g] =
                         [status |-> "ACCUMULATING", shown |-> {Incident(w)}, into |-> None]]
            /\ ingest' = [ingest EXCEPT ![w].pc = "ROWS", ![w].family = g]
            /\ n.pc = "ASSIGN"
    BY <1>4 DEF Assign, At
  <2>2. m = [n EXCEPT !.pc = "ROWS", !.family = g]
    BY <1>1, <2>1
  <2>3. g = f /\ m.prior = n.prior
    BY <1>1, <2>2 DEF Ingests
  <2> QED
    BY <1>1, <2>1, <2>3 DEF Open
<1>5. CASE Reread(w)
  <2>1. n.pc = "REREAD" /\ UNCHANGED family
    BY <1>5 DEF Reread, At, knowledge
  <2>2. CASE ingest' = [ingest EXCEPT ![w].pc = "ROWS", ![w].prior = family[n.family].status]
    <3>1. m = [n EXCEPT !.pc = "ROWS", !.prior = family[n.family].status]
      BY <1>1, <2>2
    <3> QED
      BY <1>1, <2>1, <3>1 DEF Ingests
  <2>3. CASE Move(w, "FINISH")
    BY <1>1, <1>2, <2>3
  <2> QED
    BY <1>5, <2>2, <2>3 DEF Reread
<1>6. CASE ReadRows(w)
  <2>1. m = [n EXCEPT !.pc = "PUT", !.rows = members[n.family]] /\ n.pc = "ROWS"
    BY <1>1, <1>6 DEF ReadRows, At
  <2> QED
    BY <1>1, <2>1 DEF Ingests
<1>7. CASE Lookup(w)
  <2>1. ASSUME NEW g \in Families, ingest' = [ingest EXCEPT ![w].pc = "REREAD", ![w].family = g]
        PROVE  m.pc = "REREAD"
    <3>1. m = [n EXCEPT !.pc = "REREAD", !.family = g]
      BY <1>1, <2>1
    <3> QED
      BY <1>1, <3>1 DEF Ingests
  <2>2. m.pc \in {"CHOOSE", "REREAD"}
    BY <1>2, <1>7, <2>1 DEF Lookup
  <2> QED
    BY <1>1, <2>2
<1>8. CASE Put(w) \/ Publish(w)
  <2>1. m.pc \in {"LOOKUP", "FINISH"}
    BY <1>2, <1>8 DEF Put, Publish
  <2> QED
    BY <1>1, <2>1
<1>9. CASE Finish(w) \/ Fail(w) \/ LoseLease(w) \/ Crash(w) \/ \E i \in Incidents : Take(w, i)
  <2>1. m = IdleIngest \/ \E i \in Incidents : Take(w, i)
    BY <1>1, <1>9 DEF Finish, Fail, End, LoseLease, Crash, Drop
  <2>2. ASSUME NEW i \in Incidents, Take(w, i) PROVE m.pc = "MATCH"
    BY <1>1, <2>2 DEF Take, IdleIngest
  <2> QED
    BY <1>1, <2>1, <2>2 DEF IdleIngest
<1> QED
  BY <1>3, <1>4, <1>5, <1>6, <1>7, <1>8, <1>9 DEF WorkerStep, Working

\* A step of a worker takes a decision back only where it reopens the family.
LEMMA TakenBack ==
    ASSUME IInv, NEW w \in Workers, WorkerStep(w), NEW f \in Families,
           family[f].status \in Decided, family'[f].status \in Open
    PROVE  Reopens(w, f)
<1>1. /\ ingest[w] \in Ingests /\ family \in [Families -> Payloads]
      /\ \A g \in Families : Exists(g) <=> family[g].status # "ABSENT"
      /\ Open \cap Decided = {} /\ "ABSENT" \notin Decided
  BY DEF IInv, TypeOK, Exists, Open, Decided
<1>2. UNCHANGED family \/ Assign(w) \/ Put(w)
  BY DEF WorkerStep, Working, Take, Publish, Lookup, Choose, Reread, ReadRows, Finish, Fail, End,
         LoseLease, Crash, Drop, knowledge
<1>3. ~Assign(w)
  <2>1. ASSUME NEW g \in Families, ~Exists(g), NEW p, family' = [family EXCEPT ![g] = p]
        PROVE  FALSE
    BY <1>1, <2>1
  <2> QED
    BY <1>1, <2>1 DEF Assign
<1>4. CASE Put(w)
  <2>1. /\ ingest[w].pc = "PUT"
        /\ family' = [family EXCEPT ![ingest[w].family] =
               [status |-> Readiness(ingest[w].prior, ingest[w].rows),
                shown |-> ingest[w].rows, into |-> None]]
    BY <1>4 DEF Put, At
  <2>2. ingest[w].family = f /\ Readiness(ingest[w].prior, ingest[w].rows) \in Open
    BY <1>1, <2>1
  <2> QED
    BY <2>1, <2>2 DEF Readiness, Reopens
<1> QED
  BY <1>1, <1>2, <1>3, <1>4

\* While every decision waits for the workers that are about to write the family back,
\* workers leave decisions alone - for any number of workers, of calls that overtake
\* each other, and of crashes.
THEOREM WaitingDecisionsStand == Spec /\ DecisionsWait => DecisionStands
<1>1. Init => OpenIsUndecided
  BY DEF Init, IdleIngest, OpenIsUndecided, Reopens
<1>2. ASSUME IInv, OpenIsUndecided, [Next]_vars,
             \A f \in Families :
                 family[f].status \notin Decided /\ family'[f].status \in Decided =>
                     \A w \in Workers : ~Reopens(w, f)
      PROVE  OpenIsUndecided'
  <2> SUFFICES ASSUME NEW w \in Workers, NEW f \in Families, Reopens(w, f)'
               PROVE  family'[f].status \notin Decided
    BY DEF OpenIsUndecided
  <2>1. CASE Reopens(w, f)
    BY <1>2, <2>1 DEF OpenIsUndecided
  <2>2. CASE ~Reopens(w, f)
    <3>1. ingest'[w] # ingest[w]
      BY <2>2 DEF Reopens
    <3>2. WorkerStep(w)
      BY <1>2, <3>1, WorkerActs, OwnWork
    <3> QED
      BY <1>2, <2>2, <3>2, ReopensOpen DEF Open, Decided
  <2> QED
    BY <2>1, <2>2
<1>3. ASSUME IInv, OpenIsUndecided, [Next]_vars, NEW f \in Families,
             family[f].status \in Decided, family'[f].status \in Open
      PROVE  \E c \in Callers : CallStep(c)
  <2>1. \A w \in Workers : ~WorkerStep(w)
    BY <1>3, TakenBack DEF OpenIsUndecided
  <2>2. family'[f] # family[f]
    BY <1>3 DEF Open, Decided
  <2> QED
    BY <1>3, <2>1, <2>2 DEF Next, Evaluate, Revoke, vars, knowledge
<1>4. IInv /\ OpenIsUndecided /\ [Next]_vars
      /\ [\A f \in Families :
             family[f].status \notin Decided /\ family'[f].status \in Decided =>
                 \A w \in Workers : ~Reopens(w, f)]_vars
      => OpenIsUndecided'
  <2>1. CASE UNCHANGED vars
    BY <2>1 DEF vars, knowledge, OpenIsUndecided, Reopens
  <2> QED
    BY <1>2, <2>1
<1>5. IInv /\ OpenIsUndecided /\ [Next]_vars =>
          [\A f \in Families :
              family[f].status \in Decided /\ family'[f].status \in Open =>
                  \E c \in Callers : CallStep(c)]_vars
  BY <1>3
<1> QED
  BY <1>1, <1>4, <1>5, Invariance, PTL DEF Spec, DecisionsWait, DecisionStands
=============================================================================
