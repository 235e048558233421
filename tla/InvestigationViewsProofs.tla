---------------------- MODULE InvestigationViewsProofs ----------------------
(***************************************************************************)
(* Theorems about what the control plane and the endpoint show of the same *)
(* session and execution.                                                  *)
(***************************************************************************)
EXTENDS InvestigationProofs

\* The record that starts a session is the first one on its way.
StartedInv ==
  \A i \in 1 .. Len(pending) : pending[i].type = "session_started" => i = 1

\* A worker that could not be stopped is not the current one, unless that is
\* being given up, and its session is open or cleanup_unknown.  It may be the
\* current one once more when an open_session that was sent late started its
\* session again; that session's cleanup is unknown then, and stays so.
StraysInv ==
  \A s \in strays :
    /\ service = "running"
    /\ \/ /\ worker = s =>
              /\ invocation.phase \in {"retiring", "ended"}
              /\ invocation.result # "completed" /\ ~ invocation.cleaned
          /\ \A i \in 1 .. Len(pending) : ~ Confirms(pending[i], s)
          /\ \/ session[s] \in {"active", "closing", "cleanup_unknown"}
             \/ \E i \in 1 .. Len(pending) : Starts(pending[i], s)
       \/ /\ session[s] = "cleanup_unknown"
          /\ pending # <<>> /\ Starts(pending[1], s)

\* A session that is open, or will be by a record on its way, has its worker or a
\* record on its way that ends it.
WorkerInv ==
  \A s \in Sessions :
    /\ session[s] \in {"active", "closing"} =>
         SnapshotSession = s \/ \E j \in 1 .. Len(pending) : Stops(pending[j], s)
    /\ \A i \in 1 .. Len(pending) : Starts(pending[i], s) =>
         SnapshotSession = s \/ \E j \in i + 1 .. Len(pending) : Stops(pending[j], s)

\* The same for an execution, and what is in the worker is running or becomes so.
RunningInv ==
  \A e \in Executions :
    /\ execution[e] = "running" =>
         SnapshotExecution = e \/ \E j \in 1 .. Len(pending) : Ends(pending[j], e)
    /\ \A i \in 1 .. Len(pending) : Accepts(pending[i], e) =>
         SnapshotExecution = e \/ \E j \in i + 1 .. Len(pending) : Ends(pending[j], e)
    /\ SnapshotExecution = e =>
         /\ \A j \in 1 .. Len(pending) : ~ Ends(pending[j], e)
         /\ \/ execution[e] = "running" \/ authorization = "revoked"
            \/ \E i \in 1 .. Len(pending) : Accepts(pending[i], e)

-----------------------------------------------------------------------------
(* A session that is open has its worker.                                  *)

EndsLater(i, s) == \E j \in i + 1 .. Len(pending) : Stops(pending[j], s)

HasWorker(s) ==
  /\ session[s] \in {"active", "closing"} => SnapshotSession = s \/ EndsLater(0, s)
  /\ \A i \in 1 .. Len(pending) : Starts(pending[i], s) => SnapshotSession = s \/ EndsLater(i, s)

LEMMA WorkerInvIs == WorkerInv <=> \A s \in Sessions : HasWorker(s)
BY DEF WorkerInv, HasWorker, EndsLater

\* A record that ends a session is still on its way after a batch that leaves the
\* session usable.
LEMMA EndsAfterBatch ==
  ASSUME TypeOK, RecordsOK, NEW n \in 0 .. Len(pending), Ingest(n), NEW s \in Sessions,
         NEW i \in 0 .. Len(pending), EndsLater(i, s),
         session'[s] \in {"active", "closing"} \/ i >= n
  PROVE  \E j \in 1 .. Len(pending') : n + j > i /\ Stops(pending'[j], s)
<1>1. PICK k \in i + 1 .. Len(pending) : Stops(pending[k], s)
  BY DEF EndsLater
<1>2. SessionIngested(n, s, session[s], session'[s])
  BY IngestSession
<1>3. Len(pending) \in Nat /\ n \in Nat /\ i \in Nat /\ k \in Nat /\ k > i
  BY <1>1, PendingLength
<1>4. k > n
  <2>1. CASE i >= n
    BY <1>3, <2>1
  <2>2. CASE session'[s] \in {"active", "closing"} /\ k <= n
    <3>1. k \in 1 .. n
      BY <1>3, <2>2
    <3> QED BY <1>1, <1>2, <2>2, <3>1 DEF SessionIngested, Usable
  <2> QED BY <1>3, <2>1, <2>2
<1>5. k - n \in 1 .. Len(pending') /\ pending'[k - n] = pending[k]
  <2>1. k \in n + 1 .. Len(pending)
    BY <1>1, <1>3, <1>4
  <2> QED BY <2>1, RemainingRecords
<1>6. n + (k - n) > i
  BY <1>3
<1> QED BY <1>1, <1>5, <1>6

LEMMA WorkerStep ==
  ASSUME TypeOK, Shape, WorkerInv, [Next]_vars
  PROVE  WorkerInv'
<1>1. RecordsOK /\ Len(pending) \in Nat /\ \A s \in Sessions : HasWorker(s)
  BY WorkerInvIs, PendingLength DEF Shape
<1>2. SUFFICES ASSUME NEW s \in Sessions PROVE HasWorker(s)'
  <2>1. (\A s \in Sessions : HasWorker(s))' => WorkerInv'
    BY WorkerInvIs, PTL
  <2> QED BY <1>2, <2>1
<1>3. HasWorker(s) /\ s # 0
  BY <1>1, Zero
<1>4. CASE RowsMove /\ UNCHANGED <<pending, worker, invocation>>
  <2>1. session'[s] \in {"active", "closing"} => session[s] \in {"active", "closing"}
    BY <1>4 DEF RowsMove, SessionsMove, ControlSession
  <2>2. UNCHANGED SnapshotSession
    BY <1>4 DEF SnapshotSession
  <2> QED BY <1>3, <1>4, <2>1, <2>2 DEF HasWorker, EndsLater
<1>5. ASSUME NEW n \in 0 .. Len(pending), Ingest(n), UNCHANGED runtime PROVE HasWorker(s)'
  <2>1. UNCHANGED SnapshotSession
    BY <1>5 DEF SnapshotSession, runtime
  <2>2. SessionIngested(n, s, session[s], session'[s]) /\ n \in Nat
    BY <1>1, <1>5, IngestSession
  <2>3. ASSUME session'[s] \in {"active", "closing"}, SnapshotSession # s
        PROVE  EndsLater(0, s)'
    <3>1. \E i \in 0 .. Len(pending) : EndsLater(i, s)
      <4>1. CASE session[s] \in {"active", "closing"}
        BY <1>1, <1>3, <2>3, <4>1 DEF HasWorker
      <4>2. CASE session[s] \notin {"active", "closing"}
        <5>1. \E i \in 1 .. n : Starts(pending[i], s)
          BY <2>2, <2>3, <4>2 DEF SessionIngested, SessionMoves
        <5>2. PICK i \in 1 .. Len(pending) : Starts(pending[i], s)
          BY <1>1, <2>2, <5>1
        <5> QED BY <1>3, <2>3, <5>2 DEF HasWorker
      <4> QED BY <4>1, <4>2
    <3>2. \E j \in 1 .. Len(pending') : Stops(pending'[j], s)
      BY <1>1, <1>5, <2>3, <3>1, EndsAfterBatch
    <3> QED BY <3>2 DEF EndsLater, Stops
  <2>4. ASSUME NEW i \in 1 .. Len(pending'), Starts(pending'[i], s), SnapshotSession # s
        PROVE  EndsLater(i, s)'
    <3>1. n + i \in 0 .. Len(pending) /\ n + i \in 1 .. Len(pending) /\ Starts(pending[n + i], s)
      BY <1>1, <1>5, <2>2, <2>4, RemainingRecords
    <3>2. EndsLater(n + i, s)
      BY <1>3, <2>4, <3>1 DEF HasWorker
    <3>3. \E j \in 1 .. Len(pending') : n + j > n + i /\ Stops(pending'[j], s)
      BY <1>1, <1>5, <2>2, <3>1, <3>2, EndsAfterBatch
    <3>4. \E j \in i + 1 .. Len(pending') : Stops(pending'[j], s)
      BY <2>2, <3>3
    <3> QED BY <3>4 DEF EndsLater, Stops
  <2> QED BY <2>1, <2>3, <2>4 DEF HasWorker, Starts
<1>6. CASE EndpointEffect /\ UNCHANGED tables
  <2>1. UNCHANGED session
    BY <1>6 DEF tables
  <2>2. CASE SnapshotSession' = SnapshotSession /\ UNCHANGED pending
    BY <1>3, <2>1, <2>2 DEF HasWorker, EndsLater
  <2>3. ASSUME NEW r \in LedgerRecord, Recorded(r),
               \/ SnapshotSession' = SnapshotSession /\ r.type # "session_started"
               \/ /\ SnapshotSession # 0 /\ SnapshotSession' = 0
                  /\ Stops(r, SnapshotSession)
        PROVE  HasWorker(s)'
    <3>1. /\ Len(pending') = Len(pending) + 1 /\ pending'[Len(pending) + 1] = r
          /\ \A j \in 1 .. Len(pending) : j \in 1 .. Len(pending') /\ pending'[j] = pending[j]
          /\ \A j \in 1 .. Len(pending') : j \in 1 .. Len(pending) \/ j = Len(pending) + 1
      BY <2>3, AppendedRecord
    <3>2. r.type # "session_started"
      BY <2>3 DEF Stops
    <3>3. ASSUME NEW i \in 0 .. Len(pending), SnapshotSession = s \/ EndsLater(i, s)
          PROVE  SnapshotSession' = s \/ EndsLater(i, s)'
      <4>1. CASE EndsLater(i, s)
        <5>1. PICK k \in i + 1 .. Len(pending) : Stops(pending[k], s)
          BY <4>1 DEF EndsLater
        <5>2. k \in i + 1 .. Len(pending') /\ Stops(pending'[k], s)
          BY <1>1, <3>1, <5>1
        <5> QED BY <5>2 DEF EndsLater, Stops
      <4>2. CASE SnapshotSession = s /\ SnapshotSession' # s
        <5>1. Len(pending) + 1 \in i + 1 .. Len(pending') /\ Stops(pending'[Len(pending) + 1], s)
          BY <1>1, <2>3, <3>1, <4>2
        <5> QED BY <5>1 DEF EndsLater, Stops
      <4> QED BY <3>3, <4>1, <4>2
    <3>4. ASSUME NEW i \in 1 .. Len(pending'), Starts(pending'[i], s)
          PROVE  SnapshotSession' = s \/ EndsLater(i, s)'
      <4>1. i \in 1 .. Len(pending) /\ i \in 0 .. Len(pending) /\ Starts(pending[i], s)
        BY <1>1, <3>1, <3>2, <3>4 DEF Starts
      <4> QED BY <1>3, <3>3, <4>1 DEF HasWorker
    <3>5. session'[s] \in {"active", "closing"} => SnapshotSession' = s \/ EndsLater(0, s)'
      BY <1>1, <1>3, <2>1, <3>3 DEF HasWorker
    <3> QED BY <3>4, <3>5 DEF HasWorker, Starts
  <2>4. ASSUME NEW r \in LedgerRecord, Recorded(r), Opens(r), SnapshotSession = 0,
               SnapshotSession' = worker'
        PROVE  HasWorker(s)'
    <3>1. Len(pending) = 0 /\ r.session = worker'
      BY <2>4 DEF Opens
    <3>2. session'[s] \notin {"active", "closing"}
      BY <1>3, <2>1, <2>4, <3>1 DEF HasWorker, EndsLater
    <3>3. \A i \in 1 .. Len(pending') : pending'[i] = r
      BY <2>4, <3>1, AppendedRecord
    <3> QED BY <2>4, <3>1, <3>2, <3>3 DEF HasWorker, Starts
  <2> QED BY <1>6, <2>2, <2>3, <2>4, SnapshotEffect
<1> QED BY <1>4, <1>5, <1>6, Effects DEF ledger, runtime

LEMMA WorkerHolds == Spec => []WorkerInv
<1>1. Init => WorkerInv
  BY DEF Init, WorkerInv
<1>2. TypeOK /\ Shape /\ WorkerInv /\ [Next]_vars => WorkerInv'
  BY WorkerStep
<1> QED BY <1>1, <1>2, ShapeHolds, PTL DEF Spec

-----------------------------------------------------------------------------
(* An execution that is running is in the worker.                          *)

FinishesLater(i, e) == \E j \in i + 1 .. Len(pending) : Ends(pending[j], e)

IsShownRunning(e) ==
  /\ execution[e] = "running" => SnapshotExecution = e \/ FinishesLater(0, e)
  /\ \A i \in 1 .. Len(pending) :
       Accepts(pending[i], e) => SnapshotExecution = e \/ FinishesLater(i, e)

RunsOpenly(e) ==
  SnapshotExecution = e =>
    /\ \A j \in 1 .. Len(pending) : ~ Ends(pending[j], e)
    /\ \/ execution[e] = "running" \/ authorization = "revoked"
       \/ \E i \in 1 .. Len(pending) : Accepts(pending[i], e)

LEMMA RunningInvIs ==
  RunningInv <=> \A e \in Executions : IsShownRunning(e) /\ RunsOpenly(e)
BY DEF RunningInv, IsShownRunning, RunsOpenly, FinishesLater

LEMMA SnapshotExecutionEffect ==
  ASSUME TypeOK, Shape, EndpointEffect
  PROVE  \/ SnapshotExecution' = SnapshotExecution /\ UNCHANGED pending
         \/ \E r \in LedgerRecord :
              /\ Recorded(r)
              /\ \/ /\ SnapshotExecution' = SnapshotExecution
                    /\ SnapshotExecution # 0 => ~ Ends(r, SnapshotExecution)
                    /\ r.type \in {"execution_accepted", "execution_started"} =>
                         SnapshotExecution # 0 /\ r.execution = SnapshotExecution
                 \/ /\ SnapshotExecution # 0 /\ SnapshotExecution' = 0
                    /\ Ends(r, SnapshotExecution)
                 \/ /\ SnapshotExecution = 0 /\ SnapshotExecution' = r.execution
                    /\ r.type = "execution_accepted" /\ pending = <<>>
<1>1. EndpointOK /\ 0 \notin Executions
  BY Zero DEF Shape
<1>2. CASE UNCHANGED pending /\ (Stays \/ KeepsWorker \/ DropsWorker)
  BY <1>2 DEF SnapshotExecution, Stays, SameInvocation, KeepsWorker, DropsWorker, NoInvocation
<1>3. CASE UNCHANGED pending /\ RestartsEmpty /\ SnapshotSession = 0
  BY <1>1, <1>3 DEF SnapshotExecution, SnapshotSession, RestartsEmpty, NoInvocation, EndpointOK
<1>4. ASSUME NEW r \in LedgerRecord, Recorded(r),
             \/ Opens(r) \/ RetiresWorker(r) \/ AcceptsExecution(r)
             \/ Stays /\ r.type = "cancellation_requested"
             \/ ClaimsExecution(r) \/ CompletesExecution(r) \/ RecordsRetirement(r)
             \/ DropsWorker /\ r.type = "session_closed"
             \/ /\ RestartsEmpty /\ r.type = "worker_stopped"
                /\ r.execution = SnapshotExecution
      PROVE  \/ /\ SnapshotExecution' = SnapshotExecution
                /\ SnapshotExecution # 0 => ~ Ends(r, SnapshotExecution)
                /\ r.type \in {"execution_accepted", "execution_started"} =>
                     SnapshotExecution # 0 /\ r.execution = SnapshotExecution
             \/ /\ SnapshotExecution # 0 /\ SnapshotExecution' = 0
                /\ Ends(r, SnapshotExecution)
             \/ /\ SnapshotExecution = 0 /\ SnapshotExecution' = r.execution
                /\ r.type = "execution_accepted" /\ pending = <<>>
  <2>1. CASE Opens(r)
    BY <2>1 DEF SnapshotExecution, Opens, SameInvocation
  <2>2. CASE RetiresWorker(r)
    BY <2>2 DEF SnapshotExecution, RetiresWorker, NoInvocation
  <2>3. CASE AcceptsExecution(r)
    BY <2>3 DEF SnapshotExecution, AcceptsExecution
  <2>4. CASE Stays /\ r.type = "cancellation_requested"
    BY <2>4 DEF SnapshotExecution, Stays, SameInvocation, Ends
  <2>5. CASE ClaimsExecution(r)
    BY <1>1, <2>5 DEF SnapshotExecution, ClaimsExecution, InWorker, Ends
  <2>6. CASE CompletesExecution(r)
    BY <1>1, <2>6 DEF SnapshotExecution, CompletesExecution, InWorker, Ends
  <2>7. CASE RecordsRetirement(r)
    BY <2>7 DEF SnapshotExecution, RecordsRetirement
  <2>8. CASE DropsWorker /\ r.type = "session_closed"
    BY <2>8 DEF SnapshotExecution, DropsWorker, NoInvocation
  <2>9. CASE /\ RestartsEmpty /\ r.type = "worker_stopped"
             /\ r.execution = SnapshotExecution
    BY <2>9 DEF SnapshotExecution, RestartsEmpty, NoInvocation, Ends
  <2> QED BY <1>4, <2>1, <2>2, <2>3, <2>4, <2>5, <2>6, <2>7, <2>8, <2>9
<1> QED BY <1>2, <1>3, <1>4 DEF EndpointEffect

\* A record that ends an execution is still on its way after a batch that leaves
\* the execution running.
LEMMA FinishesAfterBatch ==
  ASSUME TypeOK, RecordsOK, NEW n \in 0 .. Len(pending), Ingest(n), NEW e \in Executions,
         NEW i \in 0 .. Len(pending), FinishesLater(i, e),
         execution'[e] = "running" \/ i >= n
  PROVE  \E j \in 1 .. Len(pending') : n + j > i /\ Ends(pending'[j], e)
<1>1. PICK k \in i + 1 .. Len(pending) : Ends(pending[k], e)
  BY DEF FinishesLater
<1>2. ExecutionIngested(n, e, execution[e], execution'[e])
  BY IngestExecution
<1>3. Len(pending) \in Nat /\ n \in Nat /\ i \in Nat /\ k \in Nat /\ k > i
  BY <1>1, PendingLength
<1>4. k > n
  <2>1. CASE i >= n
    BY <1>3, <2>1
  <2>2. CASE execution'[e] = "running" /\ k <= n
    <3>1. k \in 1 .. n
      BY <1>3, <2>2
    <3> QED BY <1>1, <1>2, <2>2, <3>1 DEF ExecutionIngested, Unfinished
  <2> QED BY <1>3, <2>1, <2>2
<1>5. k - n \in 1 .. Len(pending') /\ pending'[k - n] = pending[k]
  <2>1. k \in n + 1 .. Len(pending)
    BY <1>1, <1>3, <1>4
  <2> QED BY <2>1, RemainingRecords
<1>6. n + (k - n) > i
  BY <1>3
<1> QED BY <1>1, <1>5, <1>6

LEMMA RunningIngestStep ==
  ASSUME TypeOK, Shape, NEW e \in Executions, IsShownRunning(e), RunsOpenly(e),
         NEW n \in 0 .. Len(pending), Ingest(n), UNCHANGED <<authorization, runtime>>
  PROVE  IsShownRunning(e)' /\ RunsOpenly(e)'
<1>1. RecordsOK /\ Len(pending) \in Nat /\ n \in Nat /\ UNCHANGED SnapshotExecution
  BY PendingLength DEF Shape, SnapshotExecution, runtime
<1>2. /\ ExecutionIngested(n, e, execution[e], execution'[e])
      /\ \A i \in 1 .. Len(pending') :
           n + i \in n + 1 .. Len(pending) /\ pending'[i] = pending[n + i]
      /\ \A j \in n + 1 .. Len(pending) :
           j - n \in 1 .. Len(pending') /\ pending'[j - n] = pending[j]
  BY <1>1, IngestExecution, RemainingRecords
<1>3. ASSUME execution'[e] = "running", SnapshotExecution # e PROVE FinishesLater(0, e)'
  <2>1. \E i \in 0 .. Len(pending) : FinishesLater(i, e)
    <3>1. CASE execution[e] = "running"
      BY <1>1, <1>3, <3>1 DEF IsShownRunning
    <3>2. CASE execution[e] # "running"
      <4>1. \E i \in 1 .. n : Accepts(pending[i], e)
        BY <1>2, <1>3, <3>2 DEF ExecutionIngested
      <4>2. PICK i \in 1 .. Len(pending) : Accepts(pending[i], e)
        BY <1>1, <4>1
      <4> QED BY <1>3, <4>2 DEF IsShownRunning
    <3> QED BY <3>1, <3>2
  <2>2. \E j \in 1 .. Len(pending') : Ends(pending'[j], e)
    BY <1>1, <1>3, <2>1, FinishesAfterBatch
  <2> QED BY <2>2 DEF FinishesLater, Ends
<1>4. ASSUME NEW i \in 1 .. Len(pending'), Accepts(pending'[i], e), SnapshotExecution # e
      PROVE  FinishesLater(i, e)'
  <2>1. n + i \in 0 .. Len(pending) /\ n + i \in 1 .. Len(pending) /\ Accepts(pending[n + i], e)
    BY <1>1, <1>2, <1>4
  <2>2. FinishesLater(n + i, e)
    BY <1>4, <2>1 DEF IsShownRunning
  <2>3. \E j \in 1 .. Len(pending') : n + j > n + i /\ Ends(pending'[j], e)
    BY <1>1, <2>1, <2>2, FinishesAfterBatch
  <2>4. \E j \in i + 1 .. Len(pending') : Ends(pending'[j], e)
    BY <1>1, <2>3
  <2> QED BY <2>4 DEF FinishesLater, Ends
<1>5. IsShownRunning(e)'
  BY <1>1, <1>3, <1>4 DEF IsShownRunning, Accepts
<1>6. ASSUME SnapshotExecution = e PROVE RunsOpenly(e)'
  <2>1. \A j \in 1 .. Len(pending) : ~ Ends(pending[j], e)
    BY <1>6 DEF RunsOpenly
  <2>2. ASSUME NEW j \in 1 .. Len(pending') PROVE ~ Ends(pending'[j], e)
    <3>1. n + j \in n + 1 .. Len(pending) /\ pending'[j] = pending[n + j]
      BY <1>2
    <3>2. n + j \in 1 .. Len(pending)
      BY <1>1, <3>1
    <3> QED BY <2>1, <3>1, <3>2
  <2>3. execution'[e] \in {execution[e], "running"}
    BY <1>1, <1>2, <2>1 DEF ExecutionIngested
  <2>4. CASE execution[e] = "running" \/ authorization = "revoked"
    BY <2>2, <2>3, <2>4 DEF RunsOpenly, Ends
  <2>5. ASSUME NEW i \in 1 .. Len(pending), Accepts(pending[i], e) PROVE RunsOpenly(e)'
    <3>1. CASE i <= n
      <4>1. execution'[e] = "running"
        BY <1>1, <1>2, <2>1, <2>5, <3>1 DEF ExecutionIngested
      <4> QED BY <2>2, <4>1 DEF RunsOpenly, Ends
    <3>2. CASE i > n
      <4>1. i - n \in 1 .. Len(pending') /\ Accepts(pending'[i - n], e)
        BY <1>1, <1>2, <2>5, <3>2
      <4> QED BY <2>2, <4>1 DEF RunsOpenly, Ends, Accepts
    <3> QED BY <1>1, <3>1, <3>2
  <2> QED BY <1>6, <2>4, <2>5 DEF RunsOpenly
<1>7. SnapshotExecution # e => RunsOpenly(e)'
  BY <1>1 DEF RunsOpenly
<1> QED BY <1>5, <1>6, <1>7

LEMMA RunningEndpointStep ==
  ASSUME TypeOK, Shape, NEW e \in Executions, IsShownRunning(e), RunsOpenly(e),
         EndpointEffect, UNCHANGED tables
  PROVE  IsShownRunning(e)' /\ RunsOpenly(e)'
<1>1. UNCHANGED <<execution, authorization>> /\ Len(pending) \in Nat /\ e # 0
  BY Zero, PendingLength DEF tables
<1>2. CASE SnapshotExecution' = SnapshotExecution /\ UNCHANGED pending
  BY <1>1, <1>2 DEF IsShownRunning, RunsOpenly, FinishesLater
<1>3. ASSUME NEW r \in LedgerRecord, Recorded(r)
      PROVE  /\ Len(pending') = Len(pending) + 1 /\ pending'[Len(pending) + 1] = r
             /\ \A j \in 1 .. Len(pending) : j \in 1 .. Len(pending') /\ pending'[j] = pending[j]
             /\ \A j \in 1 .. Len(pending') : j \in 1 .. Len(pending) \/ j = Len(pending) + 1
             /\ r.execution \in Executions \cup {0}
  BY <1>3, AppendedRecord DEF LedgerRecord
<1>4. ASSUME NEW r \in LedgerRecord, Recorded(r), NEW i \in 0 .. Len(pending),
             FinishesLater(i, e) \/ Ends(r, e)
      PROVE  FinishesLater(i, e)'
  <2>1. CASE FinishesLater(i, e)
    <3>1. PICK k \in i + 1 .. Len(pending) : Ends(pending[k], e)
      BY <2>1 DEF FinishesLater
    <3>2. k \in i + 1 .. Len(pending') /\ Ends(pending'[k], e)
      BY <1>1, <1>3, <1>4, <3>1
    <3> QED BY <3>2 DEF FinishesLater, Ends
  <2>2. CASE Ends(r, e)
    <3>1. Len(pending) + 1 \in i + 1 .. Len(pending') /\ Ends(pending'[Len(pending) + 1], e)
      BY <1>1, <1>3, <1>4, <2>2
    <3> QED BY <3>1 DEF FinishesLater, Ends
  <2> QED BY <1>4, <2>1, <2>2
<1>5. ASSUME NEW r \in LedgerRecord, Recorded(r), SnapshotExecution' = SnapshotExecution,
             SnapshotExecution # 0 => ~ Ends(r, SnapshotExecution),
             r.type \in {"execution_accepted", "execution_started"} =>
               SnapshotExecution # 0 /\ r.execution = SnapshotExecution
      PROVE  IsShownRunning(e)' /\ RunsOpenly(e)'
  <2>1. 0 \in 0 .. Len(pending) /\ \A i \in 1 .. Len(pending) : i \in 0 .. Len(pending)
    BY <1>1
  <2>2. execution'[e] = "running" => SnapshotExecution' = e \/ FinishesLater(0, e)'
    BY <1>1, <1>4, <1>5, <2>1 DEF IsShownRunning
  <2>3. ASSUME NEW i \in 1 .. Len(pending'), Accepts(pending'[i], e)
        PROVE  SnapshotExecution' = e \/ FinishesLater(i, e)'
    <3>1. CASE i = Len(pending) + 1
      BY <1>3, <1>5, <2>3, <3>1 DEF Accepts
    <3>2. CASE i \in 1 .. Len(pending)
      BY <1>3, <1>4, <1>5, <2>1, <2>3, <3>2 DEF IsShownRunning
    <3> QED BY <1>3, <1>5, <3>1, <3>2
  <2>4. RunsOpenly(e)'
    <3> SUFFICES ASSUME SnapshotExecution = e PROVE RunsOpenly(e)'
      BY <1>5 DEF RunsOpenly
    <3>1. \A j \in 1 .. Len(pending') : ~ Ends(pending'[j], e)
      BY <1>1, <1>3, <1>5 DEF RunsOpenly
    <3>2. ASSUME NEW i \in 1 .. Len(pending), Accepts(pending[i], e)
          PROVE  \E k \in 1 .. Len(pending') : Accepts(pending'[k], e)
      BY <1>3, <1>5, <3>2
    <3>3. \/ execution'[e] = "running" \/ authorization' = "revoked"
          \/ \E k \in 1 .. Len(pending') : Accepts(pending'[k], e)
      BY <1>1, <3>2 DEF RunsOpenly
    <3> QED BY <3>1, <3>3 DEF RunsOpenly, Ends, Accepts
  <2> QED BY <2>2, <2>3, <2>4 DEF IsShownRunning, Accepts
<1>6. ASSUME NEW r \in LedgerRecord, Recorded(r), SnapshotExecution # 0, SnapshotExecution' = 0,
             Ends(r, SnapshotExecution)
      PROVE  IsShownRunning(e)' /\ RunsOpenly(e)'
  <2>1. 0 \in 0 .. Len(pending) /\ \A i \in 1 .. Len(pending) : i \in 0 .. Len(pending)
    BY <1>1
  <2>2. execution'[e] = "running" => FinishesLater(0, e)'
    BY <1>1, <1>4, <1>6, <2>1 DEF IsShownRunning
  <2>3. ASSUME NEW i \in 1 .. Len(pending'), Accepts(pending'[i], e) PROVE FinishesLater(i, e)'
    <3>1. i \in 1 .. Len(pending) /\ Accepts(pending[i], e)
      BY <1>3, <1>6, <2>3 DEF Accepts, Ends
    <3> QED BY <1>4, <1>6, <2>1, <3>1 DEF IsShownRunning
  <2>4. RunsOpenly(e)'
    BY <1>1, <1>6 DEF RunsOpenly
  <2> QED BY <2>2, <2>3, <2>4 DEF IsShownRunning, Accepts
<1>7. ASSUME NEW r \in LedgerRecord, Recorded(r), SnapshotExecution = 0,
             SnapshotExecution' = r.execution, r.type = "execution_accepted", pending = <<>>
      PROVE  IsShownRunning(e)' /\ RunsOpenly(e)'
  <2>1. Len(pending) = 0
    BY <1>7
  <2>2. \A i \in 1 .. Len(pending') : pending'[i] = r
    BY <1>3, <1>7, <2>1
  <2>3. execution'[e] # "running"
    BY <1>1, <1>7, <2>1 DEF IsShownRunning, FinishesLater
  <2>4. 1 \in 1 .. Len(pending')
    BY <1>3, <1>7, <2>1
  <2>5. IsShownRunning(e)'
    BY <1>7, <2>2, <2>3 DEF IsShownRunning, Accepts
  <2>6. RunsOpenly(e)'
    BY <1>7, <2>2, <2>4 DEF RunsOpenly, Ends, Accepts
  <2> QED BY <2>5, <2>6
<1> QED BY <1>2, <1>5, <1>6, <1>7, SnapshotExecutionEffect

LEMMA RunningStep ==
  ASSUME TypeOK, Shape, RunningInv, [Next]_vars
  PROVE  RunningInv'
<1>1. \A e \in Executions : IsShownRunning(e) /\ RunsOpenly(e)
  BY RunningInvIs
<1>2. SUFFICES ASSUME NEW e \in Executions PROVE IsShownRunning(e)' /\ RunsOpenly(e)'
  <2>1. (\A e \in Executions : IsShownRunning(e) /\ RunsOpenly(e))' => RunningInv'
    BY RunningInvIs, PTL
  <2> QED BY <1>2, <2>1
<1>3. CASE RowsMove /\ UNCHANGED <<pending, invocation>>
  <2>1. /\ execution'[e] = "running" => execution[e] = "running"
        /\ execution[e] = "running" => execution'[e] = "running" \/ authorization = "revoked"
        /\ authorization = "revoked" => authorization' = "revoked"
    BY <1>3 DEF RowsMove, ExecutionsMove, MarksMove, ControlExecution
  <2>2. UNCHANGED SnapshotExecution
    BY <1>3 DEF SnapshotExecution
  <2> QED BY <1>1, <1>3, <2>1, <2>2 DEF IsShownRunning, RunsOpenly, FinishesLater
<1>4. ASSUME NEW n \in 0 .. Len(pending), Ingest(n), UNCHANGED <<authorization, runtime>>
      PROVE  IsShownRunning(e)' /\ RunsOpenly(e)'
  BY <1>1, <1>4, RunningIngestStep
<1>5. CASE EndpointEffect /\ UNCHANGED tables
  BY <1>1, <1>5, RunningEndpointStep
<1> QED BY <1>3, <1>4, <1>5, Effects DEF ledger, runtime

LEMMA RunningHolds == Spec => []RunningInv
<1>1. Init => RunningInv
  <2>1. ASSUME Init PROVE RunningInv
    <3>1. SnapshotExecution = 0 /\ pending = <<>> /\ \A e \in Executions : execution[e] = "none"
      BY <2>1 DEF Init, SnapshotExecution, NoInvocation
    <3> QED BY <3>1, Zero DEF RunningInv
  <2> QED BY <2>1
<1>2. TypeOK /\ Shape /\ RunningInv /\ [Next]_vars => RunningInv'
  BY RunningStep
<1> QED BY <1>1, <1>2, ShapeHolds, PTL DEF Spec

-----------------------------------------------------------------------------
(* Records that start a session.                                           *)

LEMMA StartedStep ==
  ASSUME TypeOK, Shape, StartedInv, [Next]_vars
  PROVE  StartedInv'
<1>1. SUFFICES ASSUME NEW i \in 1 .. Len(pending'), pending'[i].type = "session_started"
               PROVE  i = 1
  BY DEF StartedInv
<1>2. CASE UNCHANGED pending
  BY <1>1, <1>2 DEF StartedInv
<1>3. ASSUME NEW n \in 0 .. Len(pending), Ingest(n) PROVE i = 1
  <2>1. n \in Nat /\ n + i \in n + 1 .. Len(pending) /\ pending'[i] = pending[n + i]
    BY <1>3, RemainingRecords
  <2>2. n + i \in 1 .. Len(pending)
    BY <2>1, PendingLength
  <2>3. n + i = 1
    BY <1>1, <2>1, <2>2 DEF StartedInv
  <2> QED BY <2>1, <2>3
<1>4. ASSUME NEW r \in LedgerRecord, Recorded(r), r.type # "session_started" \/ Opens(r)
      PROVE  i = 1
  <2>1. CASE r.type # "session_started"
    <3>1. i \in 1 .. Len(pending) /\ pending'[i] = pending[i]
      BY <1>1, <1>4, <2>1, AppendedRecord
    <3> QED BY <1>1, <3>1 DEF StartedInv
  <2>2. CASE Opens(r)
    <3>1. Len(pending) = 0
      BY <2>2 DEF Opens
    <3> QED BY <1>1, <1>4, <3>1, AppendedRecord
  <2> QED BY <1>4, <2>1, <2>2
<1>5. CASE EndpointEffect
  BY <1>2, <1>4, <1>5, SnapshotEffect DEF Stops
<1> QED BY <1>2, <1>3, <1>5, Effects DEF ledger

LEMMA StartedHolds == Spec => []StartedInv
<1>1. Init => StartedInv
  BY DEF Init, StartedInv
<1>2. TypeOK /\ Shape /\ StartedInv /\ [Next]_vars => StartedInv'
  BY StartedStep
<1> QED BY <1>1, <1>2, ShapeHolds, PTL DEF Spec

-----------------------------------------------------------------------------
(* Workers that could not be stopped.                                      *)

NotWorking(s) ==
  worker = s =>
    /\ invocation.phase \in {"retiring", "ended"}
    /\ invocation.result # "completed" /\ ~ invocation.cleaned

Unconfirmed(s) == \A i \in 1 .. Len(pending) : ~ Confirms(pending[i], s)

Shown(s) ==
  \/ session[s] \in {"active", "closing", "cleanup_unknown"}
  \/ \E i \in 1 .. Len(pending) : Starts(pending[i], s)

\* A worker was left behind, and its session is shown so.
LeftBehind(s) == NotWorking(s) /\ Unconfirmed(s) /\ Shown(s)

\* A late open_session started the session of such a worker once more.
StartedAgain(s) ==
  session[s] = "cleanup_unknown" /\ pending # <<>> /\ Starts(pending[1], s)

IsStray(s) == service = "running" /\ (LeftBehind(s) \/ StartedAgain(s))

LEMMA StraysInvIs == StraysInv <=> \A s \in strays : IsStray(s)
BY DEF StraysInv, IsStray, LeftBehind, StartedAgain, NotWorking, Unconfirmed, Shown

\* A batch says of such a worker's session at most that its cleanup is unknown.
LEMMA StrayAfterBatch ==
  ASSUME TypeOK, RecordsOK, NEW n \in 0 .. Len(pending), Ingest(n), NEW s \in Sessions,
         Unconfirmed(s), Shown(s)
  PROVE  Unconfirmed(s)' /\ Shown(s)'
<1>1. SessionIngested(n, s, session[s], session'[s])
  BY IngestSession
<1>2. /\ Len(pending) \in Nat /\ n \in Nat
      /\ \A i \in 1 .. Len(pending') : n + i \in n + 1 .. Len(pending) /\ pending'[i] = pending[n + i]
      /\ \A j \in n + 1 .. Len(pending) : j - n \in 1 .. Len(pending') /\ pending'[j - n] = pending[j]
  BY RemainingRecords
<1>3. \A i \in 1 .. Len(pending') : ~ Confirms(pending'[i], s)
  BY <1>2 DEF Unconfirmed
<1>4. session[s] \notin {"lost", "closed"} => session'[s] \notin {"lost", "closed"}
  BY <1>1, <1>2 DEF SessionIngested, Unconfirmed
<1>5. CASE session[s] \in {"active", "closing", "cleanup_unknown"}
  <2>1. session'[s] \in {"active", "closing", "cleanup_unknown"}
    BY <1>1, <1>4, <1>5 DEF SessionIngested, SessionMoves
  <2> QED BY <1>3, <2>1 DEF Unconfirmed, Shown, Confirms, Stops
<1>6. ASSUME NEW i \in 1 .. Len(pending), Starts(pending[i], s)
      PROVE  Shown(s)'
  <2>1. CASE i > n
    <3>1. i \in n + 1 .. Len(pending)
      BY <1>2, <2>1
    <3> QED BY <1>2, <1>6, <3>1 DEF Shown, Starts
  <2>2. CASE i <= n
    <3>1. i \in 1 .. n
      BY <1>2, <2>2
    <3>2. session[s] \in {"starting", "active"}
      BY <1>1, <1>6, <3>1 DEF SessionIngested
    <3>3. session'[s] = "active" \/ session'[s] \notin Usable
      BY <1>1, <1>6, <3>1 DEF SessionIngested
    <3>4. session'[s] \in {"active", "cleanup_unknown"}
      BY <1>1, <1>4, <3>2, <3>3 DEF SessionIngested, SessionMoves, Usable
    <3> QED BY <3>4 DEF Shown
  <2> QED BY <1>2, <2>1, <2>2
<1> QED BY <1>3, <1>5, <1>6 DEF Unconfirmed, Shown, Confirms, Stops

\* A record that does not confirm the end of the session changes nothing of this.
LEMMA StrayAfterRecord ==
  ASSUME TypeOK, NEW r \in LedgerRecord, Recorded(r), NEW s \in Sessions, UNCHANGED session,
         Unconfirmed(s), Shown(s), ~ Confirms(r, s)
  PROVE  Unconfirmed(s)' /\ Shown(s)'
<1>1. /\ Len(pending') = Len(pending) + 1 /\ pending'[Len(pending) + 1] = r
      /\ \A i \in 1 .. Len(pending) : i \in 1 .. Len(pending') /\ pending'[i] = pending[i]
      /\ \A i \in 1 .. Len(pending') : i \in 1 .. Len(pending) \/ i = Len(pending) + 1
  BY AppendedRecord
<1>2. \A i \in 1 .. Len(pending') : ~ Confirms(pending'[i], s)
  BY <1>1 DEF Unconfirmed
<1> QED BY <1>1, <1>2 DEF Unconfirmed, Shown, Confirms, Stops, Starts

\* The session of a worker is shown, and nothing on its way says that it ended.
LEMMA WorkerIsShown ==
  ASSUME TypeOK, OpenInv, StartedInv, NEW s \in Sessions, SnapshotSession = s
  PROVE  Unconfirmed(s) /\ Shown(s)
<1>1. Open(s)
  BY Zero, OpenInvIs
<1>2. ASSUME NEW i \in 1 .. Len(pending), OpensWith(i, s)
      PROVE  Unconfirmed(s) /\ Shown(s)
  <2>1. i = 1
    BY <1>2 DEF StartedInv, OpensWith, Starts
  <2>2. \A j \in 1 .. Len(pending) : j = 1 \/ j \in i + 1 .. Len(pending)
    BY <2>1, PendingLength
  <2>3. ~ Stops(pending[1], s)
    BY <1>2, <2>1 DEF OpensWith, Starts, Stops
  <2> QED BY <1>2, <2>2, <2>3 DEF OpensWith, Unconfirmed, Shown, Confirms
<1> QED BY <1>1, <1>2 DEF Open, Unconfirmed, Shown, Confirms

\* Ingestion refuses the record of a session that was started again, and nothing
\* else moves a session whose cleanup is unknown.
LEMMA StartedAgainStays ==
  ASSUME TypeOK, Shape, [Next]_vars, NEW s \in Sessions, StartedAgain(s)
  PROVE  StartedAgain(s)'
<1>1. RecordsOK /\ Len(pending) \in Nat \ {0} /\ 1 \in 1 .. Len(pending)
  BY PendingLength DEF Shape, StartedAgain, TypeOK
<1>2. CASE RowsMove /\ UNCHANGED pending
  BY <1>2 DEF StartedAgain, RowsMove, SessionsMove, ControlSession, Starts
<1>3. ASSUME NEW n \in 0 .. Len(pending), Ingest(n) PROVE StartedAgain(s)'
  <2>1. SessionIngested(n, s, session[s], session'[s])
    BY <1>1, <1>3, IngestSession
  <2>2. ~ (1 \in 1 .. n)
    BY <2>1 DEF SessionIngested, StartedAgain
  <2>3. n = 0
    BY <1>1, <2>2
  <2>4. Len(pending') = Len(pending) /\ pending'[1] = pending[0 + 1]
    BY <1>1, <1>3, <2>3, RemainingRecords
  <2>5. session'[s] = session[s]
    BY <2>1, <2>3 DEF SessionIngested, StartedAgain
  <2>6. pending' # <<>> /\ pending'[1] = pending[1]
    BY <1>1, <2>4
  <2> QED BY <2>5, <2>6 DEF StartedAgain, Starts
<1>4. CASE EndpointEffect /\ UNCHANGED tables
  <2>1. UNCHANGED session
    BY <1>4 DEF tables
  <2>2. CASE UNCHANGED pending
    BY <2>1, <2>2 DEF StartedAgain, Starts
  <2>3. ASSUME NEW r, Recorded(r) PROVE StartedAgain(s)'
    <3>1. Len(pending') \in Nat \ {0} /\ pending'[1] = pending[1]
      BY <1>1, <2>3, AppendedRecord
    <3>2. pending' # <<>>
      BY <3>1
    <3> QED BY <2>1, <3>1, <3>2 DEF StartedAgain, Starts
  <2> QED BY <1>4, <2>2, <2>3, SnapshotEffect
<1> QED BY <1>2, <1>3, <1>4, Effects DEF ledger

\* A late open_session can start the session of a worker that was left behind when
\* the ledger is empty and that worker was given up, its cleanup being unknown.
LEMMA LateOpen ==
  ASSUME TypeOK, Shape, WorkerInv, NEW s \in Sessions, Shown(s), UNCHANGED session,
         NEW r \in LedgerRecord, Recorded(r), Opens(r), worker' = s
  PROVE  StartedAgain(s)'
<1>1. Len(pending) = 0 /\ SnapshotSession = 0 /\ s # 0
  BY Zero DEF Opens, SnapshotSession
<1>2. session[s] \in {"active", "closing", "cleanup_unknown"}
  BY <1>1 DEF Shown
<1>3. session[s] \notin {"active", "closing"}
  BY <1>1 DEF WorkerInv
<1>4. Len(pending') = 1 /\ pending'[1] = r
  BY <1>1, AppendedRecord
<1>5. pending' # <<>>
  BY <1>4
<1>6. Starts(r, s)
  BY DEF Opens, Starts
<1> QED BY <1>2, <1>3, <1>4, <1>5, <1>6 DEF StartedAgain, Starts

\* What a step of the endpoint does to a worker that was left behind.
LEMMA StrayStays ==
  ASSUME TypeOK, Shape, WorkerInv, EndpointEffect, UNCHANGED session,
         NEW s \in strays, service = "running", LeftBehind(s)
  PROVE  IsStray(s)'
<1>1. /\ s \in Sessions /\ s # 0 /\ EndpointOK /\ invocation.cleaned \in BOOLEAN
      /\ NotWorking(s) /\ Unconfirmed(s) /\ Shown(s)
  BY Zero, TypeParts DEF Shape, TypeEndpoint, LeftBehind
<1>2. service' = "running"
  BY <1>1 DEF EndpointEffect, Stays, KeepsWorker, DropsWorker, RestartsEmpty, Opens, RetiresWorker,
              AcceptsExecution, ClaimsExecution, CompletesExecution, RecordsRetirement, InWorker
<1>3. ASSUME UNCHANGED pending, Stays \/ KeepsWorker \/ DropsWorker \/ RestartsEmpty
      PROVE  LeftBehind(s)'
  <2>1. NotWorking(s)'
    BY <1>1, <1>3 DEF NotWorking, Stays, SameInvocation, KeepsWorker, DropsWorker, RestartsEmpty
  <2>2. Unconfirmed(s)' /\ Shown(s)'
    BY <1>1, <1>3 DEF Unconfirmed, Shown
  <2> QED BY <2>1, <2>2 DEF LeftBehind
<1>4. ASSUME NEW r \in LedgerRecord, Recorded(r), NotWorking(s)', ~ Confirms(r, s)
      PROVE  LeftBehind(s)'
  BY <1>1, <1>4, StrayAfterRecord DEF LeftBehind
<1>5. ASSUME NEW r \in LedgerRecord, Recorded(r), Opens(r)
      PROVE  LeftBehind(s)' \/ StartedAgain(s)'
  <2>1. CASE worker' = s
    BY <1>1, <1>5, <2>1, LateOpen
  <2>2. CASE worker' # s
    <3>1. NotWorking(s)' /\ ~ Confirms(r, s)
      BY <1>5, <2>2 DEF NotWorking, Opens, Confirms, Stops
    <3> QED BY <1>4, <1>5, <3>1
  <2> QED BY <2>1, <2>2
<1>6. ASSUME NEW r \in LedgerRecord,
             \/ RetiresWorker(r) \/ AcceptsExecution(r) \/ ClaimsExecution(r)
             \/ CompletesExecution(r)
      PROVE  NotWorking(s)' /\ ~ Confirms(r, s)
  <2>1. worker # s /\ r.session = worker /\ worker' \in {0, worker}
    BY <1>1, <1>6 DEF NotWorking, RetiresWorker, AcceptsExecution, ClaimsExecution,
                      CompletesExecution, InWorker
  <2> QED BY <1>1, <2>1 DEF NotWorking, Confirms, Stops
<1>7. ASSUME NEW r \in LedgerRecord, Stays, r.type = "cancellation_requested"
      PROVE  NotWorking(s)' /\ ~ Confirms(r, s)
  BY <1>1, <1>7 DEF NotWorking, Stays, SameInvocation, Confirms, Stops
<1>8. ASSUME NEW r \in LedgerRecord, RecordsRetirement(r)
      PROVE  NotWorking(s)' /\ ~ Confirms(r, s)
  <2>1. NotWorking(s)'
    BY <1>1, <1>8 DEF NotWorking, RecordsRetirement
  <2>2. worker = s => r.note = "unconfirmed"
    BY <1>1, <1>8 DEF NotWorking, RecordsRetirement, Confirmation
  <2> QED BY <1>8, <2>1, <2>2 DEF RecordsRetirement, InWorker, Confirms, Stops
<1>9. ASSUME NEW r \in LedgerRecord, DropsWorker, r.session = worker, invocation.cleaned = TRUE
      PROVE  NotWorking(s)' /\ ~ Confirms(r, s)
  BY <1>1, <1>9 DEF NotWorking, DropsWorker, Confirms, Stops
<1>10. ~ RestartsEmpty
  BY DEF RestartsEmpty
<1>11. LeftBehind(s)' \/ StartedAgain(s)'
  BY <1>3, <1>4, <1>5, <1>6, <1>7, <1>8, <1>9, <1>10 DEF EndpointEffect
<1> QED BY <1>2, <1>11 DEF IsStray

\* A worker that a step of the endpoint cannot stop.
LEMMA StrayAppears ==
  ASSUME TypeOK, Shape, OpenInv, StartedInv, EndpointEffect, UNCHANGED session,
         NEW s \in strays', s \notin strays
  PROVE  IsStray(s)'
<1>1. EndpointOK
  BY DEF Shape
<1>2. PICK r \in LedgerRecord : Recorded(r) /\ (RetiresWorker(r) \/ CompletesExecution(r))
  BY DEF EndpointEffect, Stays, KeepsWorker, DropsWorker, RestartsEmpty, Opens,
         AcceptsExecution, ClaimsExecution, RecordsRetirement
<1>3. service' = "running" /\ s = worker /\ s \in Sessions
  BY <1>2 DEF RetiresWorker, CompletesExecution, InWorker
<1>4. NotWorking(s)'
  BY <1>2, <1>3, Zero DEF NotWorking, RetiresWorker, CompletesExecution
<1>5. ~ Confirms(r, s)
  BY <1>2, <1>3 DEF RetiresWorker, CompletesExecution, Confirmation, Confirms, Stops
<1>6. SnapshotSession = s
  BY <1>2, <1>3 DEF RetiresWorker, CompletesExecution, SnapshotSession
<1>7. Unconfirmed(s) /\ Shown(s)
  BY <1>3, <1>6, WorkerIsShown
<1>8. Unconfirmed(s)' /\ Shown(s)'
  BY <1>2, <1>3, <1>5, <1>7, StrayAfterRecord
<1> QED BY <1>3, <1>4, <1>8 DEF IsStray, LeftBehind

LEMMA StraysStep ==
  ASSUME TypeOK, Shape, OpenInv, WorkerInv, StartedInv, StraysInv, [Next]_vars
  PROVE  StraysInv'
<1>1. RecordsOK /\ strays \subseteq Sessions
  BY TypeParts DEF Shape, TypeEndpoint
<1>2. \A s \in strays : IsStray(s)
  BY StraysInvIs
<1>3. SUFFICES ASSUME NEW s \in strays' PROVE IsStray(s)'
  <2>1. (\A s \in strays : IsStray(s))' => StraysInv'
    BY StraysInvIs, PTL
  <2> QED BY <1>3, <2>1
<1>4. ASSUME s \in strays, StartedAgain(s), service' = "running" PROVE IsStray(s)'
  BY <1>1, <1>4, StartedAgainStays DEF IsStray
<1>5. CASE RowsMove /\ UNCHANGED <<ledger, runtime>>
  <2>1. s \in strays /\ s \in Sessions /\ IsStray(s) /\ service' = service
    BY <1>1, <1>2, <1>5 DEF runtime
  <2>2. session[s] \in {"active", "closing", "cleanup_unknown"} =>
          session'[s] \in {"active", "closing", "cleanup_unknown"}
    BY <1>5, <2>1 DEF RowsMove, SessionsMove, ControlSession
  <2>3. LeftBehind(s) => LeftBehind(s)'
    BY <1>5, <2>2 DEF LeftBehind, NotWorking, Unconfirmed, Shown, ledger, runtime
  <2> QED BY <1>4, <2>1, <2>3 DEF IsStray
<1>6. ASSUME NEW n \in 0 .. Len(pending), Ingest(n), UNCHANGED runtime PROVE IsStray(s)'
  <2>1. s \in strays /\ s \in Sessions /\ IsStray(s) /\ service' = service
    BY <1>1, <1>2, <1>6 DEF runtime
  <2>2. ASSUME LeftBehind(s) PROVE LeftBehind(s)'
    <3>1. NotWorking(s)'
      BY <1>6, <2>2 DEF LeftBehind, NotWorking, runtime
    <3>2. Unconfirmed(s)' /\ Shown(s)'
      BY <1>1, <1>6, <2>1, <2>2, StrayAfterBatch DEF LeftBehind
    <3> QED BY <3>1, <3>2 DEF LeftBehind
  <2> QED BY <1>4, <2>1, <2>2 DEF IsStray
<1>7. CASE EndpointEffect /\ UNCHANGED tables
  <2>1. UNCHANGED session
    BY <1>7 DEF tables
  <2>2. CASE s \in strays
    <3>1. service = "running" /\ (LeftBehind(s) \/ StartedAgain(s))
      BY <1>2, <2>2 DEF IsStray
    <3>2. service' = "running"
      BY <1>7, <3>1 DEF EndpointEffect, Stays, KeepsWorker, DropsWorker, RestartsEmpty, Opens,
                        RetiresWorker, AcceptsExecution, ClaimsExecution, CompletesExecution,
                        RecordsRetirement, InWorker
    <3> QED BY <1>4, <1>7, <2>1, <2>2, <3>1, <3>2, StrayStays
  <2>3. CASE s \notin strays
    BY <1>7, <2>1, <2>3, StrayAppears
  <2> QED BY <2>2, <2>3
<1>8. CASE strays' = {}
  BY <1>8
<1> QED BY <1>5, <1>6, <1>7, <1>8, Effects

LEMMA StraysHolds == Spec => []StraysInv
<1>1. Init => StraysInv
  BY DEF Init, StraysInv
<1>2. /\ TypeOK /\ Shape /\ OpenInv /\ WorkerInv /\ StartedInv /\ StraysInv
      /\ [Next]_vars
      => StraysInv'
  BY StraysStep
<1> QED BY <1>1, <1>2, ShapeHolds, OpenHolds, WorkerHolds, StartedHolds, PTL DEF Spec

-----------------------------------------------------------------------------
(* Both sides tell the same story.                                         *)

LEMMA AliveIsShown ==
  ASSUME TypeOK, Shape, OpenInv, StartedInv, StraysInv, NEW s \in Sessions, Alive(s)
  PROVE  Shown(s)
<1>1. CASE s \in strays
  BY <1>1, StraysInvIs DEF IsStray, LeftBehind, StartedAgain, Shown
<1>2. CASE s \notin strays
  <2>1. SnapshotSession = s
    BY <1>2, Literals DEF Alive, SnapshotSession
  <2> QED BY <2>1, WorkerIsShown
<1> QED BY <1>1, <1>2

\* Ingestion refuses the first record when it starts a session that is over.
LEMMA OverIsRefused ==
  ASSUME TypeOK, Shape, NEW s \in Sessions, session[s] \notin {"starting", "active"},
         1 \in 1 .. Len(pending), Starts(pending[1], s)
  PROVE  StartRefused(s)
<1>1. /\ AfterBatch[0] = [session |-> session, execution |-> execution, accepted |-> TRUE]
      /\ AfterBatch[1] = IF AfterBatch[1 - 1].accepted
                         THEN Applied(AfterBatch[1 - 1], pending[1]) ELSE AfterBatch[1 - 1]
  BY AfterBatchDef DEF Shape
<1>2. AfterBatch[1] = Applied(AfterBatch[0], pending[1])
  BY <1>1
<1>3. AfterBatch[1] = Rejected(AfterBatch[0])
  BY <1>1, <1>2 DEF Applied, Starts
<1>4. AfterBatch[1].accepted = FALSE
  BY <1>1, <1>3 DEF Rejected
<1> QED BY <1>4 DEF StartRefused, Starts

\* A session that the control plane shows as closed or lost has no worker left on
\* the endpoint, whatever crashed, was cancelled, expired, was revoked or was sent
\* late: _apply_ledger_record ends a session only by evidence of cleanup.  The one
\* exception is a worker that an open_session sent too late started again (app.py
\* marks and sends in two steps), and of that worker's record ingestion refuses
\* the first, so the endpoint gets no further work.
THEOREM CleanupConfirmed == Spec => []CleanupUnlessReopened
<1>1. ASSUME TypeOK, Shape, OpenInv, StartedInv, StraysInv PROVE CleanupUnlessReopened
  <2> SUFFICES ASSUME NEW s \in Sessions, session[s] \in {"closed", "lost"}, Alive(s)
               PROVE  StartRefused(s)
    BY DEF CleanupUnlessReopened
  <2>1. Shown(s)
    BY <1>1, AliveIsShown
  <2>2. PICK i \in 1 .. Len(pending) : Starts(pending[i], s)
    BY <2>1 DEF Shown
  <2>3. i = 1
    BY <1>1, <2>2 DEF StartedInv, Starts
  <2> QED BY <1>1, <2>2, <2>3, OverIsRefused
<1> QED BY <1>1, ShapeHolds, OpenHolds, StartedHolds, StraysHolds, PTL

\* When every record of the ledger is committed, an open session has its worker, a
\* worker has its session, and exactly the running execution is in it: what the
\* records, the restart loss and the claims of EndpointLedger are for.
THEOREM ViewsAgree == Spec => []ReconciledViewsAgree
<1>1. ASSUME TypeOK, Shape, OpenInv, StartedInv, StraysInv, WorkerInv, RunningInv
      PROVE  ReconciledViewsAgree
  <2> SUFFICES ASSUME pending = <<>>, service = "running", authorization = "active"
               PROVE  /\ \A s \in Sessions :
                           /\ session[s] \in {"active", "closing"} => worker = s
                           /\ Alive(s) => session[s] \in {"active", "closing", "cleanup_unknown"}
                      /\ \A e \in Executions : execution[e] = "running" <=> Running(e)
    BY DEF ReconciledViewsAgree
  <2>1. \A i \in 1 .. Len(pending) : FALSE
    OBVIOUS
  <2>2. ASSUME NEW s \in Sessions, session[s] \in {"active", "closing"} PROVE worker = s
    <3>1. SnapshotSession = s
      BY <1>1, <2>1, <2>2 DEF WorkerInv
    <3> QED BY <2>2, <3>1, Zero DEF SnapshotSession
  <2>3. ASSUME NEW s \in Sessions, Alive(s)
        PROVE  session[s] \in {"active", "closing", "cleanup_unknown"}
    <3>1. Shown(s)
      BY <1>1, <2>3, AliveIsShown
    <3> QED BY <2>1, <3>1 DEF Shown
  <2>4. ASSUME NEW e \in Executions PROVE execution[e] = "running" <=> Running(e)
    <3>1. Running(e) <=> SnapshotExecution = e
      BY Zero DEF Running, SnapshotExecution
    <3> QED BY <1>1, <2>1, <3>1 DEF RunningInv
  <2> QED BY <2>2, <2>3, <2>4
<1> QED BY <1>1, ShapeHolds, OpenHolds, StartedHolds, StraysHolds, WorkerHolds, RunningHolds, PTL

=============================================================================
