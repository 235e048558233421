---------------------- MODULE InvestigationBatchProofs ----------------------
(***************************************************************************)
(* What one transaction of ledger ingestion does to the tables of          *)
(* Investigation, for batches of any length: lemmas about AfterBatch, by   *)
(* induction over the records of the batch.                                *)
(***************************************************************************)
EXTENDS Investigation, RecursionLemmas

Db == [session : [Sessions -> SessionStates],
       execution : [Executions -> ExecutionStates], accepted : BOOLEAN]

AboutExecution == {"execution_accepted", "execution_started", "execution_finished"}

RecordTypes ==
  AboutExecution \cup {"session_started", "cancellation_requested", "worker_stopped",
                       "session_closed"}

Reported == {"completed", "timed_out", "cancelled"}

\* The records the endpoint writes.
RecordOK(r) ==
  /\ r.type \in RecordTypes
  /\ r.session \in Sessions
  /\ r.execution \in Executions \cup {0}
  /\ r.type \in AboutExecution => r.execution \in Executions
  /\ r.type = "execution_finished" => r.note \in Reported
  /\ r.type = "worker_stopped" => r.note \in {"confirmed", "unconfirmed"}

Stops(r, s) == r.session = s /\ r.type \in {"worker_stopped", "session_closed"}

Confirms(r, s) ==
  Stops(r, s) /\ (r.type = "worker_stopped" => r.note = "confirmed")

Starts(r, s) == r.session = s /\ r.type = "session_started"

Accepts(r, e) ==
  r.execution = e /\ r.type \in {"execution_accepted", "execution_started"}

Finishes(r, e) == r.execution = e /\ r.type = "execution_finished"

Ends(r, e) ==
  r.execution = e /\ r.type \in {"execution_finished", "worker_stopped"}

Usable == {"starting", "active", "closing"}

\* How ingestion may change a session and an execution.
SessionMoves(a, b) ==
  \/ a = b
  \/ a = "starting" /\ b = "active"
  \/ a \in Live /\ b \in {"cleanup_unknown", "lost", "closed"}
  \/ a = "lost" /\ b = "closed"

ExecutionMoves(a, b) ==
  \/ a = b
  \/ a \in Unfinished /\ b \in {"running", "outcome_unknown"} \cup Reported

-----------------------------------------------------------------------------
(* One record.                                                             *)

LEMMA AfterWorkerStoppedFacts ==
  ASSUME NEW db \in Db, db.accepted, NEW r, RecordOK(r), r.type = "worker_stopped"
  PROVE  LET new == AfterWorkerStopped(db, r) IN
         /\ new \in Db /\ new.accepted
         /\ \A s \in Sessions : s # r.session => new.session[s] = db.session[s]
         /\ LET a == db.session[r.session]
                b == new.session[r.session]
            IN \/ a = b /\ a \notin Usable /\ (r.note = "confirmed" => a \notin Live)
               \/ r.note = "confirmed" /\ a \in Live /\ b = "lost"
               \/ r.note = "unconfirmed" /\ a \in Usable /\ b = "cleanup_unknown"
         /\ \A e \in Executions :
              new.execution[e] = IF e = r.execution /\ db.execution[e] \in Unfinished
                                 THEN "outcome_unknown" ELSE db.execution[e]
<1> DEFINE left == IF r.execution # 0 /\ db.execution[r.execution] \in Unfinished
                   THEN WithExecution(db, r.execution, "outcome_unknown") ELSE db
           before == db.session[r.session]
<1>1. 0 \notin Executions
  BY InvestigationAssumption DEF Executions
<1>2. /\ left \in Db /\ left.accepted /\ left.session = db.session
      /\ \A e \in Executions :
           left.execution[e] = IF e = r.execution /\ db.execution[e] \in Unfinished
                               THEN "outcome_unknown" ELSE db.execution[e]
  BY <1>1 DEF RecordOK, WithExecution, Db, ExecutionStates
<1>3. before \in SessionStates /\ r.session \in Sessions
  BY DEF RecordOK, Db
<1>4. \A x \in {"lost", "cleanup_unknown"} :
        /\ WithSession(left, r.session, x) \in Db
        /\ WithSession(left, r.session, x).accepted
        /\ WithSession(left, r.session, x).execution = left.execution
        /\ WithSession(left, r.session, x).session = [db.session EXCEPT ![r.session] = x]
  BY <1>2, <1>3 DEF WithSession, Db, SessionStates, Live
<1>5. db.session \in [Sessions -> SessionStates]
  BY DEF Db
<1> HIDE DEF left
<1>6. CASE r.note = "confirmed" /\ before \in Live
  <2>1. AfterWorkerStopped(db, r) = WithSession(left, r.session, "lost")
    BY <1>6 DEF AfterWorkerStopped, left
  <2> QED BY <1>2, <1>3, <1>4, <1>5, <1>6, <2>1
<1>7. CASE r.note = "unconfirmed" /\ before \in Usable
  <2>1. AfterWorkerStopped(db, r) = WithSession(left, r.session, "cleanup_unknown")
    BY <1>7 DEF AfterWorkerStopped, left, Usable
  <2> QED BY <1>2, <1>3, <1>4, <1>5, <1>7, <2>1
<1>8. CASE ~ (r.note = "confirmed" /\ before \in Live)
           /\ ~ (r.note = "unconfirmed" /\ before \in Usable)
  <2>1. AfterWorkerStopped(db, r) = left
    BY <1>8 DEF AfterWorkerStopped, left, Usable
  <2>2. r.note \in {"confirmed", "unconfirmed"}
    BY DEF RecordOK
  <2>3. before \notin Usable
    BY <1>8, <2>2 DEF Usable, Live
  <2> QED BY <1>2, <1>3, <1>8, <2>1, <2>2, <2>3
<1> QED BY <1>6, <1>7, <1>8

\* What a record does to session s, from state a to state b, and to execution e.
SessionStep(r, s, a, b) ==
  /\ SessionMoves(a, b)
  /\ a # b /\ b = "active" => Starts(r, s)
  /\ a # b /\ b \in {"lost", "closed"} => Confirms(r, s)
  /\ a # b /\ b # "active" => Stops(r, s)

SessionEffect(r, s, a, b) ==
  /\ Starts(r, s) => a \in {"starting", "active"} /\ b = "active"
  /\ Stops(r, s) => b \notin Usable
  /\ Confirms(r, s) => b \notin Live
  /\ Stops(r, s) /\ r.type = "session_closed" => b = "closed"

ExecutionStep(r, e, a, b) ==
  /\ ExecutionMoves(a, b)
  /\ a # b /\ b = "running" => Accepts(r, e)
  /\ a # b /\ b \in Reported => Finishes(r, e)
  /\ a # b /\ b # "running" => Ends(r, e)

ExecutionEffect(r, e, a, b) ==
  /\ Accepts(r, e) => b = "running"
  /\ Ends(r, e) => b \notin Unfinished

AppliedIs(db, r, new) ==
  /\ new \in Db
  /\ \A s \in Sessions : SessionStep(r, s, db.session[s], new.session[s])
  /\ \A e \in Executions : ExecutionStep(r, e, db.execution[e], new.execution[e])
  /\ new.accepted =>
       /\ \A s \in Sessions : SessionEffect(r, s, db.session[s], new.session[s])
       /\ \A e \in Executions : ExecutionEffect(r, e, db.execution[e], new.execution[e])

LEMMA AppliedFacts ==
  ASSUME NEW db \in Db, db.accepted, NEW r, RecordOK(r)
  PROVE  AppliedIs(db, r, Applied(db, r))
<1> DEFINE new == Applied(db, r)
<1>1. db.session \in [Sessions -> SessionStates] /\ db.execution \in [Executions -> ExecutionStates]
  BY DEF Db
<1>2. 0 \notin Executions
  BY InvestigationAssumption DEF Executions
<1> USE DEF SessionMoves, ExecutionMoves, Starts, Stops, Confirms, Accepts, Finishes, Ends
<1>3. CASE new = Rejected(db) /\ r.type # "worker_stopped"
  <2>1. new.session = db.session /\ new.execution = db.execution /\ new.accepted = FALSE /\ new \in Db
    BY <1>3 DEF Rejected, Db
  <2> HIDE DEF new
  <2>2. \A s \in Sessions : SessionStep(r, s, db.session[s], new.session[s])
    BY <2>1 DEF SessionStep
  <2>3. \A e \in Executions : ExecutionStep(r, e, db.execution[e], new.execution[e])
    BY <2>1 DEF ExecutionStep
  <2>4. AppliedIs(db, r, new)
    BY <2>1, <2>2, <2>3 DEF AppliedIs
  <2> QED BY <2>4 DEF new
<1>4. CASE r.type \in {"session_started", "session_closed"} /\ new # Rejected(db)
  <2> DEFINE x == IF r.type = "session_started" THEN "active" ELSE "closed"
  <2>1. new = WithSession(db, r.session, x) /\ r.session \in Sessions
    BY <1>4 DEF Applied, RecordOK
  <2>2. /\ new \in Db /\ new.execution = db.execution
        /\ new.session = [db.session EXCEPT ![r.session] = x]
    BY <2>1 DEF WithSession, Db, SessionStates, Live
  <2>3. \/ r.type = "session_started" /\ db.session[r.session] \in {"starting", "active"} /\ x = "active"
        \/ r.type = "session_closed" /\ db.session[r.session] \in Live \cup {"lost"} /\ x = "closed"
    BY <1>4 DEF Applied
  <2> HIDE DEF new, x
  <2>4. ASSUME NEW s \in Sessions
        PROVE  /\ SessionStep(r, s, db.session[s], new.session[s])
               /\ SessionEffect(r, s, db.session[s], new.session[s])
    <3>1. CASE s = r.session
      <4>1. new.session[s] = x
        BY <1>1, <2>1, <2>2, <3>1
      <4> QED BY <2>3, <3>1, <4>1 DEF SessionStep, SessionEffect, Usable, Live
    <3>2. CASE s # r.session
      <4>1. new.session[s] = db.session[s]
        BY <1>1, <2>1, <2>2, <3>2
      <4> QED BY <3>2, <4>1 DEF SessionStep, SessionEffect
    <3> QED BY <3>1, <3>2
  <2>5. ASSUME NEW e \in Executions
        PROVE  /\ ExecutionStep(r, e, db.execution[e], new.execution[e])
               /\ ExecutionEffect(r, e, db.execution[e], new.execution[e])
    BY <1>4, <2>2 DEF ExecutionStep, ExecutionEffect
  <2>6. AppliedIs(db, r, new)
    BY <2>2, <2>4, <2>5 DEF AppliedIs
  <2> QED BY <2>6 DEF new
<1>5. CASE r.type \in AboutExecution /\ new # Rejected(db)
  <2> DEFINE x == IF r.type = "execution_finished" THEN r.note ELSE "running"
  <2>1. new = WithExecution(db, r.execution, x) /\ r.execution \in Executions
    BY <1>5 DEF Applied, RecordOK, AboutExecution
  <2>2. /\ db.execution[r.execution] \in Unfinished
        /\ \/ r.type = "execution_finished" /\ x \in Reported
           \/ r.type \in {"execution_accepted", "execution_started"} /\ x = "running"
    BY <1>5 DEF Applied, RecordOK, AboutExecution
  <2>3. x \in ExecutionStates
    BY <2>2 DEF Reported, ExecutionStates, Unfinished
  <2> HIDE DEF x
  <2>4. /\ new \in Db /\ new.session = db.session
        /\ new.execution = [db.execution EXCEPT ![r.execution] = x]
    BY <2>1, <2>3 DEF WithExecution, Db
  <2> HIDE DEF new
  <2>5. ASSUME NEW e \in Executions
        PROVE  /\ ExecutionStep(r, e, db.execution[e], new.execution[e])
               /\ ExecutionEffect(r, e, db.execution[e], new.execution[e])
    <3>1. CASE e = r.execution
      <4>1. new.execution[e] = x
        BY <1>1, <2>1, <2>4, <3>1
      <4> QED BY <2>2, <3>1, <4>1 DEF ExecutionStep, ExecutionEffect, Reported, Unfinished
    <3>2. CASE e # r.execution
      <4>1. new.execution[e] = db.execution[e]
        BY <1>1, <2>1, <2>4, <3>2
      <4> QED BY <3>2, <4>1 DEF ExecutionStep, ExecutionEffect
    <3> QED BY <3>1, <3>2
  <2>6. ASSUME NEW s \in Sessions
        PROVE  /\ SessionStep(r, s, db.session[s], new.session[s])
               /\ SessionEffect(r, s, db.session[s], new.session[s])
    BY <1>5, <2>4 DEF SessionStep, SessionEffect, AboutExecution
  <2>7. AppliedIs(db, r, new)
    BY <2>4, <2>5, <2>6 DEF AppliedIs
  <2> QED BY <2>7 DEF new
<1>6. CASE r.type = "cancellation_requested"
  <2>1. new = db
    BY <1>6 DEF Applied
  <2> HIDE DEF new
  <2>2. AppliedIs(db, r, new)
    BY <1>6, <2>1 DEF AppliedIs, SessionStep, SessionEffect, ExecutionStep, ExecutionEffect
  <2> QED BY <2>2 DEF new
<1>7. CASE r.type = "worker_stopped"
  <2>1. new = AfterWorkerStopped(db, r)
    BY <1>7 DEF Applied
  <2> HIDE DEF new
  <2>2. new \in Db /\ r.session \in Sessions /\ r.note \in {"confirmed", "unconfirmed"}
    BY <1>7, <2>1, AfterWorkerStoppedFacts DEF RecordOK
  <2>3. ASSUME NEW s \in Sessions
        PROVE  /\ SessionStep(r, s, db.session[s], new.session[s])
               /\ SessionEffect(r, s, db.session[s], new.session[s])
    <3>1. CASE s = r.session
      <4> DEFINE a == db.session[s]
                 b == new.session[s]
      <4>1. \/ a = b /\ a \notin Usable /\ (r.note = "confirmed" => a \notin Live)
            \/ r.note = "confirmed" /\ a \in Live /\ b = "lost"
            \/ r.note = "unconfirmed" /\ a \in Usable /\ b = "cleanup_unknown"
        BY <1>7, <2>1, <3>1, AfterWorkerStoppedFacts
      <4> HIDE DEF a, b
      <4>2. SessionStep(r, s, a, b) /\ SessionEffect(r, s, a, b)
        BY <1>7, <3>1, <4>1 DEF SessionStep, SessionEffect, Usable, Live
      <4> QED BY <4>2 DEF a, b
    <3>2. CASE s # r.session
      <4>1. new.session[s] = db.session[s]
        BY <1>7, <2>1, <3>2, AfterWorkerStoppedFacts
      <4> QED BY <3>2, <4>1 DEF SessionStep, SessionEffect
    <3> QED BY <3>1, <3>2
  <2>4. ASSUME NEW e \in Executions
        PROVE  /\ ExecutionStep(r, e, db.execution[e], new.execution[e])
               /\ ExecutionEffect(r, e, db.execution[e], new.execution[e])
    <3>1. new.execution[e] = IF e = r.execution /\ db.execution[e] \in Unfinished
                             THEN "outcome_unknown" ELSE db.execution[e]
      BY <1>7, <2>1, AfterWorkerStoppedFacts
    <3> QED BY <1>7, <3>1 DEF ExecutionStep, ExecutionEffect, Unfinished, Reported
  <2>5. AppliedIs(db, r, new)
    BY <2>2, <2>3, <2>4 DEF AppliedIs
  <2> QED BY <2>5 DEF new
<1> QED BY <1>3, <1>4, <1>5, <1>6, <1>7 DEF RecordOK, RecordTypes

-----------------------------------------------------------------------------
(* A batch of records.                                                     *)

RecordsOK == \A i \in 1 .. Len(pending) : RecordOK(pending[i])

LEMMA PendingLength == TypeOK => Len(pending) \in Nat
BY DEF TypeOK

\* AfterBatch is what its recursive definition says.
LEMMA AfterBatchDef ==
  ASSUME TypeOK, RecordsOK
  PROVE  /\ AfterBatch \in [0 .. Len(pending) -> Db]
         /\ AfterBatch[0] = [session |-> session, execution |-> execution, accepted |-> TRUE]
         /\ \A n \in 1 .. Len(pending) :
              AfterBatch[n] = IF AfterBatch[n - 1].accepted
                              THEN Applied(AfterBatch[n - 1], pending[n]) ELSE AfterBatch[n - 1]
<1> DEFINE N == Len(pending)
           first == [session |-> session, execution |-> execution, accepted |-> TRUE]
           After(db, n) == IF db.accepted THEN Applied(db, pending[n]) ELSE db
           Step == [x \in Db \X (1 .. N) |-> After(x[1], x[2])]
           Recursion(f) == f = [n \in 0 .. N |-> IF n = 0 THEN first ELSE After(f[n - 1], n)]
<1>1. N \in Nat /\ first \in Db
  BY PendingLength DEF TypeOK, Db
<1>2. ASSUME NEW db \in Db, NEW n \in 1 .. N PROVE After(db, n) \in Db
  <2>1. CASE db.accepted
    <3>1. RecordOK(pending[n])
      BY DEF RecordsOK
    <3> QED BY <2>1, <3>1, AppliedFacts DEF AppliedIs
  <2>2. CASE ~ db.accepted
    BY <2>2
  <2> QED BY <2>1, <2>2
<1> HIDE DEF After, N, first
<1>3. Step \in [Db \X (1 .. N) -> Db]
  BY <1>2
<1>4. PICK g \in [0 .. N -> Db] :
        g[0] = first /\ \A n \in 1 .. N : g[n] = Step[<<g[n - 1], n>>]
  <2> HIDE DEF Step, Recursion
  <2>1. Iterates(Db)
    BY EveryStepIterates
  <2> QED BY <1>1, <1>3, <2>1, Zenon DEF Iterates
<1>5. Recursion(g)
  <2>1. ASSUME NEW n \in 0 .. N, n # 0 PROVE g[n] = After(g[n - 1], n)
    <3>1. n \in 1 .. N /\ n - 1 \in 0 .. N
      BY <1>1, <2>1
    <3>2. g[n - 1] \in Db
      BY <3>1
    <3>3. <<g[n - 1], n>> \in Db \X (1 .. N)
      BY <3>1, <3>2
    <3>4. Step[<<g[n - 1], n>>] = After(g[n - 1], n)
      BY <3>3
    <3> QED BY <1>4, <3>1, <3>4
  <2> QED BY <1>4, <2>1
<1>6. Recursion(AfterBatch)
  <2>1. AfterBatch = CHOOSE f : Recursion(f)
    BY DEF AfterBatch, After, N, first
  <2> HIDE DEF Recursion
  <2> QED BY <1>5, <2>1
<1>7. AfterBatch[0] = first
  BY <1>1, <1>6
<1>8. ASSUME NEW n \in 1 .. N PROVE AfterBatch[n] = After(AfterBatch[n - 1], n)
  <2>1. n \in 0 .. N /\ n # 0
    BY <1>1
  <2> QED BY <1>6, <2>1
<1>9. AfterBatch \in [0 .. N -> Db]
  <2> DEFINE Holds == {n \in 0 .. N : AfterBatch[n] \in Db}
  <2>1. 0 \in Holds
    BY <1>1, <1>7
  <2>2. ASSUME NEW k \in 0 + 1 .. N, k - 1 \in Holds PROVE k \in Holds
    <3>1. k \in 1 .. N /\ k \in 0 .. N
      BY <1>1
    <3>2. After(AfterBatch[k - 1], k) \in Db
      BY <1>2, <2>2, <3>1
    <3> QED BY <1>8, <3>1, <3>2
  <2>3. \A k \in 0 .. N : k \in Holds
    <3> HIDE DEF Holds
    <3>1. 0 \in Nat
      OBVIOUS
    <3> QED BY <1>1, <2>1, <2>2, <3>1, BoundedInduction
  <2>4. AfterBatch = [n \in 0 .. N |-> AfterBatch[n]]
    BY <1>6
  <2> QED BY <2>3, <2>4
<1> QED BY <1>7, <1>8, <1>9 DEF After, N, first

\* A batch that is accepted as a whole is accepted up to each of its records, and
\* each record does to the tables what AppliedIs says.
LEMMA BatchSteps ==
  ASSUME TypeOK, RecordsOK, NEW n \in 0 .. Len(pending), AfterBatch[n].accepted
  PROVE  \A k \in 1 .. n :
           /\ AfterBatch[k].accepted
           /\ AppliedIs(AfterBatch[k - 1], pending[k], AfterBatch[k])
<1>1. Len(pending) \in Nat /\ n \in Nat
  BY PendingLength
<1>2. ASSUME NEW k \in 0 .. n PROVE AfterBatch[k].accepted
  <2> SUFFICES ASSUME ~ AfterBatch[k].accepted PROVE FALSE
    OBVIOUS
  <2> DEFINE Holds == {j \in k .. n : ~ AfterBatch[j].accepted}
  <2>1. k \in Holds /\ k \in Nat
    BY <1>1
  <2>2. ASSUME NEW j \in k + 1 .. n, j - 1 \in Holds PROVE j \in Holds
    <3>1. j \in 1 .. Len(pending) /\ j \in k .. n
      BY <1>1
    <3>2. ~ AfterBatch[j - 1].accepted
      BY <2>2
    <3>3. AfterBatch[j] = AfterBatch[j - 1]
      BY <3>1, <3>2, AfterBatchDef
    <3> QED BY <3>1, <3>2, <3>3
  <2>3. n \in Holds
    <3>1. n \in k .. n
      BY <1>1
    <3> HIDE DEF Holds
    <3> QED BY <1>1, <2>1, <2>2, <3>1, BoundedInduction
  <2> QED BY <2>3
<1>3. ASSUME NEW k \in 1 .. n
      PROVE  AfterBatch[k].accepted /\ AppliedIs(AfterBatch[k - 1], pending[k], AfterBatch[k])
  <2>1. k \in 0 .. n /\ k - 1 \in 0 .. n /\ k \in 1 .. Len(pending) /\ k - 1 \in 0 .. Len(pending)
    BY <1>1
  <2>2. AfterBatch[k].accepted /\ AfterBatch[k - 1].accepted
    BY <1>2, <2>1
  <2>3. AfterBatch[k] = Applied(AfterBatch[k - 1], pending[k]) /\ AfterBatch[k - 1] \in Db
    BY <2>1, <2>2, AfterBatchDef
  <2>4. RecordOK(pending[k])
    BY <2>1 DEF RecordsOK
  <2>5. AppliedIs(AfterBatch[k - 1], pending[k], Applied(AfterBatch[k - 1], pending[k]))
    BY <2>2, <2>3, <2>4, AppliedFacts
  <2> QED BY <2>2, <2>3, <2>5
<1> QED BY <1>3

\* Whatever no record of the batch changes about a session holds after it.
LEMMA SessionCarry ==
  ASSUME TypeOK, RecordsOK, NEW n \in 0 .. Len(pending), AfterBatch[n].accepted,
         NEW s \in Sessions, NEW X, NEW i \in 0 .. n,
         AfterBatch[i].session[s] \in X,
         \A k \in i + 1 .. n : \A a \in X, b \in SessionStates :
           SessionStep(pending[k], s, a, b) => b \in X
  PROVE  AfterBatch[n].session[s] \in X
<1>1. Len(pending) \in Nat /\ n \in Nat /\ i \in Nat
  BY PendingLength
<1> DEFINE Holds == {k \in i .. n : AfterBatch[k].session[s] \in X}
<1>2. i \in Holds
  BY <1>1
<1>3. ASSUME NEW k \in i + 1 .. n, k - 1 \in Holds PROVE k \in Holds
  <2>1. k \in 1 .. n /\ k \in i .. n /\ k \in 0 .. Len(pending)
    BY <1>1
  <2>2. AfterBatch[k] \in Db
    BY <2>1, AfterBatchDef
  <2>3. AfterBatch[k].session[s] \in SessionStates
    BY <2>2 DEF Db
  <2>4. SessionStep(pending[k], s, AfterBatch[k - 1].session[s], AfterBatch[k].session[s])
    BY <2>1, BatchSteps DEF AppliedIs
  <2> QED BY <1>3, <2>1, <2>3, <2>4
<1>4. n \in Holds
  <2>1. n \in i .. n
    BY <1>1
  <2> HIDE DEF Holds
  <2> QED BY <1>1, <1>2, <1>3, <2>1, BoundedInduction
<1> QED BY <1>4

LEMMA ExecutionCarry ==
  ASSUME TypeOK, RecordsOK, NEW n \in 0 .. Len(pending), AfterBatch[n].accepted,
         NEW e \in Executions, NEW X, NEW i \in 0 .. n,
         AfterBatch[i].execution[e] \in X,
         \A k \in i + 1 .. n : \A a \in X, b \in ExecutionStates :
           ExecutionStep(pending[k], e, a, b) => b \in X
  PROVE  AfterBatch[n].execution[e] \in X
<1>1. Len(pending) \in Nat /\ n \in Nat /\ i \in Nat
  BY PendingLength
<1> DEFINE Holds == {k \in i .. n : AfterBatch[k].execution[e] \in X}
<1>2. i \in Holds
  BY <1>1
<1>3. ASSUME NEW k \in i + 1 .. n, k - 1 \in Holds PROVE k \in Holds
  <2>1. k \in 1 .. n /\ k \in i .. n /\ k \in 0 .. Len(pending)
    BY <1>1
  <2>2. AfterBatch[k] \in Db
    BY <2>1, AfterBatchDef
  <2>3. AfterBatch[k].execution[e] \in ExecutionStates
    BY <2>2 DEF Db
  <2>4. ExecutionStep(pending[k], e, AfterBatch[k - 1].execution[e], AfterBatch[k].execution[e])
    BY <2>1, BatchSteps DEF AppliedIs
  <2> QED BY <1>3, <2>1, <2>3, <2>4
<1>4. n \in Holds
  <2>1. n \in i .. n
    BY <1>1
  <2> HIDE DEF Holds
  <2> QED BY <1>1, <1>2, <1>3, <2>1, BoundedInduction
<1> QED BY <1>4

-----------------------------------------------------------------------------
(* The tables after ingestion, from those before it and the records.       *)

\* What a committed batch of n records means for session s, from state a to b:
\* what its records establish, and which record a change needs.
SessionIngested(n, s, a, b) ==
  /\ b \in SessionStates /\ SessionMoves(a, b)
  /\ a # "active" /\ b = "active" => \E i \in 1 .. n : Starts(pending[i], s)
  /\ a \notin {"lost", "closed"} /\ b \in {"lost", "closed"} =>
       \E i \in 1 .. n : Confirms(pending[i], s)
  /\ b \in {a, "active"} \/ \E i \in 1 .. n : Stops(pending[i], s)
  /\ \A i \in 1 .. n : Starts(pending[i], s) =>
       /\ a \in {"starting", "active"}
       /\ b = "active" \/ \E j \in i + 1 .. n : Stops(pending[j], s)
  /\ \A i \in 1 .. n : Stops(pending[i], s) =>
       /\ b \notin Usable
       /\ Confirms(pending[i], s) => b \notin Live
       /\ pending[i].type = "session_closed" => b = "closed"

LEMMA SessionMovesOnly ==
  ASSUME TypeOK, RecordsOK, NEW n \in 0 .. Len(pending), AfterBatch[n].accepted,
         NEW s \in Sessions
  PROVE  /\ AfterBatch[n].session[s] \in SessionStates
         /\ SessionMoves(session[s], AfterBatch[n].session[s])
<1> DEFINE X == {b \in SessionStates : SessionMoves(session[s], b)}
<1>1. AfterBatch[0].session[s] \in X
  BY AfterBatchDef DEF TypeOK, SessionMoves
<1>2. ASSUME NEW a \in X, NEW b \in SessionStates, NEW k \in 0 + 1 .. n,
             SessionStep(pending[k], s, a, b)
      PROVE  b \in X
  BY <1>2 DEF SessionStep, SessionMoves, Live
<1>3. 0 \in 0 .. n
  BY PendingLength
<1>4. AfterBatch[n].session[s] \in X
  <2> HIDE DEF X
  <2> QED BY <1>1, <1>2, <1>3, SessionCarry
<1> QED BY <1>4

LEMMA IngestSession ==
  ASSUME TypeOK, RecordsOK, NEW n \in 0 .. Len(pending), Ingest(n), NEW s \in Sessions
  PROVE  SessionIngested(n, s, session[s], session'[s])
<1> DEFINE a == session[s]
           b == session'[s]
<1>1. b = AfterBatch[n].session[s] /\ AfterBatch[n].accepted
  BY DEF Ingest
<1>2. Len(pending) \in Nat /\ n \in Nat /\ a \in SessionStates /\ AfterBatch[0].session[s] = a
  BY PendingLength, AfterBatchDef DEF TypeOK
<1>3. b \in SessionStates /\ SessionMoves(a, b)
  BY <1>1, SessionMovesOnly
<1>4. ASSUME NEW k \in 1 .. n
      PROVE  /\ k \in 0 .. n /\ RecordOK(pending[k])
             /\ AfterBatch[k].session[s] \in SessionStates
             /\ SessionMoves(a, AfterBatch[k - 1].session[s])
             /\ SessionEffect(pending[k], s, AfterBatch[k - 1].session[s], AfterBatch[k].session[s])
  <2>1. /\ k \in 0 .. n /\ k \in 0 .. Len(pending) /\ k \in 1 .. Len(pending)
        /\ k - 1 \in 0 .. Len(pending) /\ (k - 1 = 0 \/ k - 1 \in 1 .. n)
    BY <1>2
  <2>2. AfterBatch[k].accepted /\ AfterBatch[k - 1].accepted
    BY <1>1, <2>1, BatchSteps, AfterBatchDef
  <2>3. RecordOK(pending[k])
    BY <2>1 DEF RecordsOK
  <2>4. SessionMoves(a, AfterBatch[k - 1].session[s]) /\ AfterBatch[k].session[s] \in SessionStates
    BY <2>1, <2>2, SessionMovesOnly
  <2>5. SessionEffect(pending[k], s, AfterBatch[k - 1].session[s], AfterBatch[k].session[s])
    BY <1>1, <2>2, BatchSteps DEF AppliedIs
  <2> QED BY <2>1, <2>3, <2>4, <2>5
<1> HIDE DEF a, b
<1>5. a # "active" /\ b = "active" => \E i \in 1 .. n : Starts(pending[i], s)
  <2> SUFFICES ASSUME a # "active", \A i \in 1 .. n : ~ Starts(pending[i], s)
               PROVE  b # "active"
    OBVIOUS
  <2> DEFINE X == SessionStates \ {"active"}
  <2>1. AfterBatch[0].session[s] \in X /\ 0 \in 0 .. n
    BY <1>2
  <2>2. \A k \in 0 + 1 .. n : \A x \in X, y \in SessionStates :
          SessionStep(pending[k], s, x, y) => y \in X
    BY DEF SessionStep
  <2>3. AfterBatch[n].session[s] \in X
    <3> HIDE DEF X
    <3> QED BY <1>1, <2>1, <2>2, SessionCarry
  <2> QED BY <1>1, <2>3
<1>6. a \notin {"lost", "closed"} /\ b \in {"lost", "closed"} =>
        \E i \in 1 .. n : Confirms(pending[i], s)
  <2> SUFFICES ASSUME a \notin {"lost", "closed"}, \A i \in 1 .. n : ~ Confirms(pending[i], s)
               PROVE  b \notin {"lost", "closed"}
    OBVIOUS
  <2> DEFINE X == SessionStates \ {"lost", "closed"}
  <2>1. AfterBatch[0].session[s] \in X /\ 0 \in 0 .. n
    BY <1>2
  <2>2. \A k \in 0 + 1 .. n : \A x \in X, y \in SessionStates :
          SessionStep(pending[k], s, x, y) => y \in X
    BY DEF SessionStep
  <2>3. AfterBatch[n].session[s] \in X
    <3> HIDE DEF X
    <3> QED BY <1>1, <2>1, <2>2, SessionCarry
  <2> QED BY <1>1, <2>3
<1>7. b \in {a, "active"} \/ \E i \in 1 .. n : Stops(pending[i], s)
  <2> SUFFICES ASSUME \A i \in 1 .. n : ~ Stops(pending[i], s) PROVE b \in {a, "active"}
    OBVIOUS
  <2> DEFINE X == {a, "active"}
  <2>1. AfterBatch[0].session[s] \in X /\ 0 \in 0 .. n
    BY <1>2
  <2>2. \A k \in 0 + 1 .. n : \A x \in X, y \in SessionStates :
          SessionStep(pending[k], s, x, y) => y \in X
    BY DEF SessionStep
  <2>3. AfterBatch[n].session[s] \in X
    <3> HIDE DEF X
    <3> QED BY <1>1, <2>1, <2>2, SessionCarry
  <2> QED BY <1>1, <2>3
<1>8. ASSUME NEW i \in 1 .. n, Starts(pending[i], s)
      PROVE  /\ a \in {"starting", "active"}
             /\ b = "active" \/ \E j \in i + 1 .. n : Stops(pending[j], s)
  <2>1. a \in {"starting", "active"} /\ AfterBatch[i].session[s] = "active"
    BY <1>4, <1>8 DEF SessionEffect, SessionMoves
  <2>2. ASSUME \A j \in i + 1 .. n : ~ Stops(pending[j], s) PROVE b = "active"
    <3> DEFINE X == {"active"}
    <3>1. AfterBatch[i].session[s] \in X /\ i \in 0 .. n
      BY <1>4, <2>1
    <3>2. \A k \in i + 1 .. n : \A x \in X, y \in SessionStates :
            SessionStep(pending[k], s, x, y) => y \in X
      BY <2>2 DEF SessionStep
    <3>3. AfterBatch[n].session[s] \in X
      <4> HIDE DEF X
      <4> QED BY <1>1, <3>1, <3>2, SessionCarry
    <3> QED BY <1>1, <3>3
  <2> QED BY <2>1, <2>2
<1>9. ASSUME NEW i \in 1 .. n, Stops(pending[i], s),
             NEW X \in {SessionStates \ Usable, SessionStates \ Live, {"closed"}},
             AfterBatch[i].session[s] \in X
      PROVE  b \in X
  <2>1. \A k \in i + 1 .. n : \A x \in X, y \in SessionStates :
          SessionStep(pending[k], s, x, y) => y \in X
    BY DEF SessionStep, SessionMoves, Usable, Live
  <2>2. AfterBatch[n].session[s] \in X
    BY <1>1, <1>4, <1>9, <2>1, SessionCarry
  <2> QED BY <1>1, <2>2
<1>10. ASSUME NEW i \in 1 .. n, Stops(pending[i], s)
       PROVE  /\ b \notin Usable
              /\ Confirms(pending[i], s) => b \notin Live
              /\ pending[i].type = "session_closed" => b = "closed"
  <2>1. AfterBatch[i].session[s] \in SessionStates
    BY <1>4
  <2>2. /\ AfterBatch[i].session[s] \notin Usable
        /\ Confirms(pending[i], s) => AfterBatch[i].session[s] \notin Live
        /\ pending[i].type = "session_closed" => AfterBatch[i].session[s] = "closed"
    BY <1>4, <1>10 DEF SessionEffect
  <2>3. b \in SessionStates \ Usable
    BY <1>9, <1>10, <2>1, <2>2
  <2>4. Confirms(pending[i], s) => b \in SessionStates \ Live
    BY <1>9, <1>10, <2>1, <2>2
  <2>5. pending[i].type = "session_closed" => b \in {"closed"}
    BY <1>9, <1>10, <2>1, <2>2
  <2> QED BY <2>3, <2>4, <2>5
<1>11. SessionIngested(n, s, a, b)
  BY <1>3, <1>5, <1>6, <1>7, <1>8, <1>10 DEF SessionIngested
<1> QED BY <1>11 DEF a, b

\* The same for execution e.
ExecutionIngested(n, e, a, b) ==
  /\ b \in ExecutionStates /\ ExecutionMoves(a, b)
  /\ a \notin Reported /\ b \in Reported => \E i \in 1 .. n : Finishes(pending[i], e)
  /\ a # "running" /\ b = "running" => \E i \in 1 .. n : Accepts(pending[i], e)
  /\ b \in {a, "running"} \/ \E i \in 1 .. n : Ends(pending[i], e)
  /\ \A i \in 1 .. n : Accepts(pending[i], e) =>
       /\ a \in Unfinished
       /\ b = "running" \/ \E j \in i + 1 .. n : Ends(pending[j], e)
  /\ \A i \in 1 .. n : Ends(pending[i], e) => b \notin Unfinished

LEMMA ExecutionMovesOnly ==
  ASSUME TypeOK, RecordsOK, NEW n \in 0 .. Len(pending), AfterBatch[n].accepted,
         NEW e \in Executions
  PROVE  /\ AfterBatch[n].execution[e] \in ExecutionStates
         /\ ExecutionMoves(execution[e], AfterBatch[n].execution[e])
<1> DEFINE X == {b \in ExecutionStates : ExecutionMoves(execution[e], b)}
<1>1. AfterBatch[0].execution[e] \in X
  BY AfterBatchDef DEF TypeOK, ExecutionMoves
<1>2. ASSUME NEW a \in X, NEW b \in ExecutionStates, NEW k \in 0 + 1 .. n,
             ExecutionStep(pending[k], e, a, b)
      PROVE  b \in X
  BY <1>2 DEF ExecutionStep, ExecutionMoves, Unfinished, Reported
<1>3. 0 \in 0 .. n
  BY PendingLength
<1>4. AfterBatch[n].execution[e] \in X
  <2> HIDE DEF X
  <2> QED BY <1>1, <1>2, <1>3, ExecutionCarry
<1> QED BY <1>4

LEMMA IngestExecution ==
  ASSUME TypeOK, RecordsOK, NEW n \in 0 .. Len(pending), Ingest(n), NEW e \in Executions
  PROVE  ExecutionIngested(n, e, execution[e], execution'[e])
<1> DEFINE a == execution[e]
           b == execution'[e]
<1>1. b = AfterBatch[n].execution[e] /\ AfterBatch[n].accepted
  BY DEF Ingest
<1>2. Len(pending) \in Nat /\ n \in Nat /\ a \in ExecutionStates /\ AfterBatch[0].execution[e] = a
  BY PendingLength, AfterBatchDef DEF TypeOK
<1>3. b \in ExecutionStates /\ ExecutionMoves(a, b)
  BY <1>1, ExecutionMovesOnly
<1>4. ASSUME NEW k \in 1 .. n
      PROVE  /\ k \in 0 .. n /\ RecordOK(pending[k])
             /\ AfterBatch[k].execution[e] \in ExecutionStates
             /\ ExecutionMoves(a, AfterBatch[k - 1].execution[e])
             /\ ExecutionStep(pending[k], e, AfterBatch[k - 1].execution[e], AfterBatch[k].execution[e])
             /\ ExecutionEffect(pending[k], e, AfterBatch[k - 1].execution[e], AfterBatch[k].execution[e])
  <2>1. /\ k \in 0 .. n /\ k \in 0 .. Len(pending) /\ k \in 1 .. Len(pending)
        /\ k - 1 \in 0 .. Len(pending) /\ (k - 1 = 0 \/ k - 1 \in 1 .. n)
    BY <1>2
  <2>2. AfterBatch[k].accepted /\ AfterBatch[k - 1].accepted
    BY <1>1, <2>1, BatchSteps, AfterBatchDef
  <2>3. RecordOK(pending[k])
    BY <2>1 DEF RecordsOK
  <2>4. /\ ExecutionMoves(a, AfterBatch[k - 1].execution[e])
        /\ AfterBatch[k].execution[e] \in ExecutionStates
    BY <2>1, <2>2, ExecutionMovesOnly
  <2>5. /\ ExecutionStep(pending[k], e, AfterBatch[k - 1].execution[e], AfterBatch[k].execution[e])
        /\ ExecutionEffect(pending[k], e, AfterBatch[k - 1].execution[e], AfterBatch[k].execution[e])
    BY <1>1, <2>2, BatchSteps DEF AppliedIs
  <2> QED BY <2>1, <2>3, <2>4, <2>5
<1> HIDE DEF a, b
<1>5. a \notin Reported /\ b \in Reported => \E i \in 1 .. n : Finishes(pending[i], e)
  <2> SUFFICES ASSUME a \notin Reported, \A i \in 1 .. n : ~ Finishes(pending[i], e)
               PROVE  b \notin Reported
    OBVIOUS
  <2> DEFINE X == ExecutionStates \ Reported
  <2>1. AfterBatch[0].execution[e] \in X /\ 0 \in 0 .. n
    BY <1>2
  <2>2. \A k \in 0 + 1 .. n : \A x \in X, y \in ExecutionStates :
          ExecutionStep(pending[k], e, x, y) => y \in X
    BY DEF ExecutionStep
  <2>3. AfterBatch[n].execution[e] \in X
    <3> HIDE DEF X
    <3> QED BY <1>1, <2>1, <2>2, ExecutionCarry
  <2> QED BY <1>1, <2>3
<1>6. a # "running" /\ b = "running" => \E i \in 1 .. n : Accepts(pending[i], e)
  <2> SUFFICES ASSUME a # "running", \A i \in 1 .. n : ~ Accepts(pending[i], e)
               PROVE  b # "running"
    OBVIOUS
  <2> DEFINE X == ExecutionStates \ {"running"}
  <2>1. AfterBatch[0].execution[e] \in X /\ 0 \in 0 .. n
    BY <1>2
  <2>2. \A k \in 0 + 1 .. n : \A x \in X, y \in ExecutionStates :
          ExecutionStep(pending[k], e, x, y) => y \in X
    BY DEF ExecutionStep
  <2>3. AfterBatch[n].execution[e] \in X
    <3> HIDE DEF X
    <3> QED BY <1>1, <2>1, <2>2, ExecutionCarry
  <2> QED BY <1>1, <2>3
<1>7. b \in {a, "running"} \/ \E i \in 1 .. n : Ends(pending[i], e)
  <2> SUFFICES ASSUME \A i \in 1 .. n : ~ Ends(pending[i], e) PROVE b \in {a, "running"}
    OBVIOUS
  <2> DEFINE X == {a, "running"}
  <2>1. AfterBatch[0].execution[e] \in X /\ 0 \in 0 .. n
    BY <1>2
  <2>2. \A k \in 0 + 1 .. n : \A x \in X, y \in ExecutionStates :
          ExecutionStep(pending[k], e, x, y) => y \in X
    BY DEF ExecutionStep
  <2>3. AfterBatch[n].execution[e] \in X
    <3> HIDE DEF X
    <3> QED BY <1>1, <2>1, <2>2, ExecutionCarry
  <2> QED BY <1>1, <2>3
<1>8. ASSUME NEW i \in 1 .. n, Accepts(pending[i], e)
      PROVE  /\ a \in Unfinished
             /\ b = "running" \/ \E j \in i + 1 .. n : Ends(pending[j], e)
  <2>1. AfterBatch[i].execution[e] = "running"
    BY <1>4, <1>8 DEF ExecutionEffect
  <2>2. a \in Unfinished
    BY <1>4, <2>1 DEF ExecutionStep, ExecutionMoves, Unfinished, Reported
  <2>3. ASSUME \A j \in i + 1 .. n : ~ Ends(pending[j], e) PROVE b = "running"
    <3> DEFINE X == {"running"}
    <3>1. AfterBatch[i].execution[e] \in X /\ i \in 0 .. n
      BY <1>4, <2>1
    <3>2. \A k \in i + 1 .. n : \A x \in X, y \in ExecutionStates :
            ExecutionStep(pending[k], e, x, y) => y \in X
      BY <2>3 DEF ExecutionStep
    <3>3. AfterBatch[n].execution[e] \in X
      <4> HIDE DEF X
      <4> QED BY <1>1, <3>1, <3>2, ExecutionCarry
    <3> QED BY <1>1, <3>3
  <2> QED BY <2>2, <2>3
<1>9. ASSUME NEW i \in 1 .. n, Ends(pending[i], e) PROVE b \notin Unfinished
  <2> DEFINE X == ExecutionStates \ Unfinished
  <2>1. AfterBatch[i].execution[e] \in X /\ i \in 0 .. n
    BY <1>4, <1>9 DEF ExecutionEffect
  <2>2. \A k \in i + 1 .. n : \A x \in X, y \in ExecutionStates :
          ExecutionStep(pending[k], e, x, y) => y \in X
    BY DEF ExecutionStep, ExecutionMoves
  <2>3. AfterBatch[n].execution[e] \in X
    <3> HIDE DEF X
    <3> QED BY <1>1, <2>1, <2>2, ExecutionCarry
  <2> QED BY <1>1, <2>3
<1>10. ExecutionIngested(n, e, a, b)
  BY <1>3, <1>5, <1>6, <1>7, <1>8, <1>9 DEF ExecutionIngested
<1> QED BY <1>10 DEF a, b

-----------------------------------------------------------------------------
(* The records left, and those added.                                      *)

LEMMA IngestPending ==
  ASSUME TypeOK, NEW n \in 0 .. Len(pending), Ingest(n)
  PROVE  /\ Len(pending') = Len(pending) - n
         /\ \A i \in 1 .. Len(pending') : pending'[i] = pending[n + i]
<1>1. Len(pending) \in Nat /\ n \in Nat /\ pending' = SubSeq(pending, n + 1, Len(pending))
  BY PendingLength DEF Ingest
<1> QED BY <1>1 DEF TypeOK

LEMMA RecordOne ==
  ASSUME TypeOK, NEW r, pending' = pending \o <<r>>
  PROVE  /\ Len(pending') = Len(pending) + 1
         /\ pending'[Len(pending) + 1] = r
         /\ \A i \in 1 .. Len(pending) : pending'[i] = pending[i]
BY DEF TypeOK
=============================================================================
