------------------------ MODULE InvestigationProofs ------------------------
(***************************************************************************)
(* Theorems about Investigation, for any number of sessions, executions    *)
(* and events: types, what is final, what ran and how often, revocation.   *)
(*                                                                         *)
(* Shape relates rows, tasks, commands, records and the endpoint; the      *)
(* steps are then summed up twice, by what they do to the rows (RowsMove   *)
(* or a batch) and by what they do to the endpoint (EndpointEffect), so    *)
(* that each invariant is proved over these few kinds of steps.            *)
(***************************************************************************)
EXTENDS InvestigationBatchProofs

Message == [type : {"ledger_ack", "open_session", "close_session", "execute",
                    "cancel_execution"},
            session : Sessions \cup {0}, execution : Executions \cup {0}]

TypeRows ==
  /\ authorization \in {"active", "revoked"}
  /\ session \in [Sessions -> SessionStates]
  /\ execution \in [Executions -> ExecutionStates]
  /\ of \in [Executions -> Sessions \cup {0}]
  /\ sessionRequested \subseteq Sessions /\ executionRequested \subseteq Executions

TypeTasks ==
  /\ openTask \in [Sessions -> {"none", "mark", "send"}]
  /\ executeTask \in [Executions -> {"none", "mark", "send"}]
  /\ submission \in [Executions -> {"none", "created", "offline"}]
  /\ closing \in [Sessions -> {"none", "begun", "waiting"}]
  /\ revocation \in
       [step : {"none", "look", "close", "waiting", "unconfirmed", "disconnect", "done"},
        session : Sessions \cup {0}]

TypeBudget == budget \in [Optional -> Nat]

TypeChannel == connected \in BOOLEAN /\ inbox \in Seq(Message)

TypeEndpoint ==
  /\ closeAfter \in BOOLEAN
  /\ service \in {"running", "stopped"}
  /\ worker \in Sessions \cup {0}
  /\ frame \in [session : Sessions \cup {0}, execution : Executions \cup {0}]
  /\ invocation \in
       [execution : Executions \cup {0}, stop : BOOLEAN, cleaned : BOOLEAN,
        phase : {"none", "accepted", "running", "retiring", "ended"},
        result : {"none", "completed", "explicit_exit", "cancelled", "timed_out",
                  "outcome_unknown"}]
  /\ claims \subseteq Executions /\ strays \subseteq Sessions
  /\ runs \in [Executions -> Nat]

LedgerRecord == [type : RecordTypes, session : Sessions, execution : Executions \cup {0},
                 note : {"none", "confirmed", "unconfirmed"} \cup Reported]

TypeLedger == ackDue \in BOOLEAN /\ pending \in Seq(LedgerRecord)

LEMMA TypeParts ==
  TypeOK <=> TypeRows /\ TypeTasks /\ TypeBudget /\ TypeChannel /\ TypeEndpoint /\ TypeLedger
<1>1. RecordTypes = {"session_started", "execution_accepted", "execution_started",
                     "execution_finished", "cancellation_requested",
                     "worker_stopped", "session_closed"}
  BY DEF RecordTypes, AboutExecution
<1>2. {"none", "confirmed", "unconfirmed"} \cup Reported =
        {"none", "completed", "cancelled", "timed_out", "confirmed", "unconfirmed"}
  BY DEF Reported
<1> QED
  BY <1>1, <1>2 DEF TypeOK, TypeRows, TypeTasks, TypeBudget, TypeChannel, TypeEndpoint, TypeLedger,
                    Message, LedgerRecord

-----------------------------------------------------------------------------
(* Rows, commands, records and the endpoint's state fit together.          *)

CommandOK(m) ==
  /\ m.type \in {"open_session", "close_session"} => m.session \in Sessions
  /\ m.type \in {"execute", "cancel_execution"} =>
       /\ m.execution \in Executions
       /\ m.session \in Sessions /\ m.session = of[m.execution]
  /\ m.type = "execute" => m.execution \in executionRequested

CommandsOK == \A i \in 1 .. Len(inbox) : CommandOK(inbox[i])

RowsExist ==
  /\ \A e \in Executions : execution[e] # "none" <=> of[e] # 0
  /\ \A e \in Executions : of[e] # 0 => session[of[e]] # "none"

TasksHaveRows ==
  \A e \in Executions :
    /\ executeTask[e] # "none" \/ submission[e] # "none" \/ e \in executionRequested
         => execution[e] # "none"
    /\ executeTask[e] = "send" => e \in executionRequested

RevocationOK ==
  /\ revocation.step # "none" => authorization = "revoked"
  /\ revocation.step \in {"close", "waiting", "unconfirmed"} => revocation.session # 0

EndpointOK ==
  /\ connected => service = "running"
  /\ ~ connected => inbox = <<>>
  /\ invocation.phase = "none" => invocation = NoInvocation
  /\ invocation.phase # "none" =>
       worker # 0 /\ invocation.execution # 0 /\ of[invocation.execution] = worker
  /\ invocation.phase \in {"accepted", "running"} => invocation.result = "none"
  /\ invocation.phase = "retiring" =>
       invocation.result \in {"explicit_exit", "cancelled", "timed_out"}
  /\ invocation.phase \in {"running", "retiring", "ended"} => invocation.execution \in claims
  /\ connected =>
       \/ frame.session = worker
       \/ frame.session = 0 /\ invocation.phase = "ended" /\ invocation.result # "completed"
  /\ service = "stopped" => strays = {}
  /\ \A e \in Executions : runs[e] # 0 => e \in executionRequested

Shape == RowsExist /\ TasksHaveRows /\ RevocationOK /\ CommandsOK /\ RecordsOK /\ EndpointOK

LEMMA Zero == 0 \notin Sessions /\ 0 \notin Executions
BY InvestigationAssumption DEF Sessions, Executions

-----------------------------------------------------------------------------
(* Kinds of steps.                                                         *)

\* How the control plane changes a session and an execution of its own accord.
ControlSession(a, b) ==
  \/ a = b
  \/ a = "none" /\ b = "starting"
  \/ a = "starting" /\ b = "failed"
  \/ a = "active" /\ b = "closing"
  \/ a \in {"active", "closing"} /\ b = "cleanup_unknown"

ControlExecution(a, b) ==
  \/ a = b
  \/ a = "none" /\ b = "queued"
  \/ a = "queued" /\ b \in {"failed_to_start", "withdrawn"}
  \/ a \in Unfinished /\ b = "outcome_unknown" /\ authorization = "revoked"

SessionsMove ==
  /\ session' \in [Sessions -> SessionStates]
  /\ \A s \in Sessions :
       /\ ControlSession(session[s], session'[s])
       /\ session[s] = "none" /\ session'[s] # "none" =>
            /\ authorization = "active"
            /\ \A t \in Sessions : session[t] \notin Live /\ (t # s => session'[t] = session[t])

ExecutionsMove ==
  /\ execution' \in [Executions -> ExecutionStates]
  /\ of' \in [Executions -> Sessions \cup {0}]
  /\ \A e \in Executions :
       /\ ControlExecution(execution[e], execution'[e])
       /\ IF execution[e] = "none" /\ execution'[e] # "none"
          THEN of'[e] \in Sessions /\ session[of'[e]] # "none" ELSE of'[e] = of[e]

MarksMove ==
  /\ authorization' \in {authorization, "revoked"}
  /\ sessionRequested' \subseteq Sessions /\ executionRequested' \subseteq Executions
  /\ \A e \in Executions :
       /\ e \in executionRequested => e \in executionRequested'
       /\ e \in executionRequested' /\ e \notin executionRequested => execution[e] = "queued"

RowsMove == SessionsMove /\ ExecutionsMove /\ MarksMove

LEMMA SessionsStay == TypeRows /\ UNCHANGED session => SessionsMove
BY DEF TypeRows, SessionsMove, ControlSession

LEMMA ExecutionsStay == TypeRows /\ UNCHANGED <<execution, of>> => ExecutionsMove
BY DEF TypeRows, ExecutionsMove, ControlExecution

LEMMA MarksStay ==
  TypeRows /\ UNCHANGED <<authorization, sessionRequested, executionRequested>> => MarksMove
BY DEF TypeRows, MarksMove

\* One session goes from a to b.
LEMMA SessionMovesTo ==
  ASSUME TypeRows, NEW s \in Sessions, NEW b \in SessionStates,
         session' = [session EXCEPT ![s] = b], ControlSession(session[s], b),
         session[s] # "none"
  PROVE  SessionsMove
BY DEF TypeRows, SessionsMove, ControlSession

LEMMA ExecutionMovesTo ==
  ASSUME TypeRows, NEW e \in Executions, NEW b \in ExecutionStates,
         execution' = [execution EXCEPT ![e] = b], ControlExecution(execution[e], b),
         UNCHANGED of, execution[e] # "none"
  PROVE  ExecutionsMove
BY DEF TypeRows, ExecutionsMove, ControlExecution

LEMMA Literals ==
  /\ {"none", "starting", "active", "closing", "cleanup_unknown", "failed", "lost", "closed"}
       = SessionStates
  /\ {"none", "queued", "running", "completed", "timed_out", "cancelled", "withdrawn",
      "failed_to_start", "outcome_unknown"} = ExecutionStates
BY DEF SessionStates, ExecutionStates, Live, Unfinished

LEMMA SessionRowMoves ==
  ASSUME TypeRows, NEW s \in Sessions,
         CreateSession(s) \/ BeginClose(s) \/ GiveUpClose(s) \/ MarkOpen(s)
  PROVE  RowsMove
<1>1. CASE CreateSession(s)
  <2>1. SessionsMove
    BY <1>1, Literals DEF TypeRows, SessionsMove, CreateSession, ControlSession
  <2> QED BY <1>1, <2>1, ExecutionsStay, MarksStay DEF RowsMove, CreateSession
<1>2. CASE BeginClose(s)
  <2>1. SessionsMove
    BY <1>2, Literals, SessionMovesTo DEF BeginClose, ControlSession
  <2> QED BY <1>2, <2>1, ExecutionsStay, MarksStay DEF RowsMove, BeginClose
<1>3. CASE GiveUpClose(s)
  <2>1. SessionsMove
    BY <1>3, Literals DEF TypeRows, SessionsMove, GiveUpClose, ControlSession
  <2> QED BY <1>3, <2>1, ExecutionsStay, MarksStay DEF RowsMove, GiveUpClose
<1>4. CASE MarkOpen(s)
  <2>1. MarksMove
    BY <1>4 DEF TypeRows, MarksMove, MarkOpen
  <2> QED BY <1>4, <2>1, SessionsStay, ExecutionsStay DEF RowsMove, MarkOpen
<1> QED BY <1>1, <1>2, <1>3, <1>4

LEMMA ExecutionRowMoves ==
  ASSUME TypeRows, RowsExist, NEW e \in Executions,
         \/ \E s \in Sessions : SubmitExecution(e, s)
         \/ FailToStart(e) \/ WithdrawExecution(e) \/ MarkExecute(e)
  PROVE  RowsMove
<1>1. ASSUME NEW s \in Sessions, SubmitExecution(e, s) PROVE RowsMove
  <2>1. ExecutionsMove
    BY <1>1, Literals DEF TypeRows, RowsExist, ExecutionsMove, SubmitExecution, ControlExecution
  <2> QED BY <1>1, <2>1, SessionsStay, MarksStay DEF RowsMove, SubmitExecution
<1>2. CASE FailToStart(e)
  <2>1. ExecutionsMove
    BY <1>2, Literals DEF TypeRows, ExecutionsMove, FailToStart, ControlExecution
  <2> QED BY <1>2, <2>1, SessionsStay, MarksStay DEF RowsMove, FailToStart
<1>3. CASE WithdrawExecution(e)
  <2>1. ExecutionsMove
    BY <1>3, Literals, ExecutionMovesTo DEF WithdrawExecution, ControlExecution
  <2> QED BY <1>3, <2>1, SessionsStay, MarksStay DEF RowsMove, WithdrawExecution
<1>4. CASE MarkExecute(e)
  <2>1. MarksMove
    BY <1>4 DEF TypeRows, MarksMove, MarkExecute
  <2> QED BY <1>4, <2>1, SessionsStay, ExecutionsStay DEF RowsMove, MarkExecute
<1> QED BY <1>1, <1>2, <1>3, <1>4

\* The sweep of a revoked device over its sessions and executions.
LEMMA SweepMoves ==
  ASSUME TypeRows, authorization = "revoked",
         execution' = ExecutionsUnknownIn({"starting", "active", "closing"}), UNCHANGED of
  PROVE  ExecutionsMove
BY Literals DEF TypeRows, ExecutionsMove, ControlExecution, ExecutionsUnknownIn, Unfinished

LEMMA ChannelEndsMoves ==
  ASSUME TypeRows, ChannelEnds
  PROVE  RowsMove
<1>1. CASE connected /\ authorization = "revoked"
  <2>1. ExecutionsMove
    BY <1>1, SweepMoves DEF ChannelEnds
  <2>2. SessionsMove
    BY <1>1, Literals DEF TypeRows, ChannelEnds, SessionsMove, ControlSession
  <2> QED BY <2>1, <2>2, MarksStay DEF RowsMove, ChannelEnds
<1>2. CASE ~ (connected /\ authorization = "revoked")
  BY <1>2, SessionsStay, ExecutionsStay, MarksStay DEF RowsMove, ChannelEnds
<1> QED BY <1>1, <1>2

LEMMA RevocationRowMoves ==
  ASSUME TypeRows, RevocationOK, TypeTasks,
         Revoke \/ CloseRevokedSession \/ MarkRevocationUnconfirmed
  PROVE  RowsMove
<1>1. CASE Revoke
  <2>1. MarksMove
    BY <1>1 DEF TypeRows, MarksMove, Revoke
  <2> QED BY <1>1, <2>1, SessionsStay, ExecutionsStay DEF RowsMove, Revoke
<1>2. CASE CloseRevokedSession
  <2>1. revocation.session \in Sessions
    BY <1>2 DEF CloseRevokedSession, RevocationOK, TypeTasks
  <2>2. SessionsMove
    <3>1. CASE session[revocation.session] = "active"
      BY <1>2, <2>1, <3>1, Literals, SessionMovesTo DEF CloseRevokedSession, ControlSession
    <3>2. CASE session[revocation.session] # "active"
      BY <1>2, <3>2, SessionsStay DEF CloseRevokedSession
    <3> QED BY <3>1, <3>2
  <2> QED BY <1>2, <2>2, ExecutionsStay, MarksStay DEF RowsMove, CloseRevokedSession
<1>3. CASE MarkRevocationUnconfirmed
  <2>1. ExecutionsMove
    BY <1>3, SweepMoves DEF MarkRevocationUnconfirmed, RevocationOK
  <2>2. SessionsMove
    BY <1>3, Literals DEF TypeRows, MarkRevocationUnconfirmed, SessionsMove, ControlSession
  <2> QED BY <1>3, <2>1, <2>2, MarksStay DEF RowsMove, MarkRevocationUnconfirmed
<1> QED BY <1>1, <1>2, <1>3

LEMMA RestartMoves ==
  ASSUME TypeRows, RestartControlPlane
  PROVE  RowsMove
<1>1. SessionsMove
  BY Literals DEF TypeRows, RestartControlPlane, SessionsMove, ControlSession
<1>2. ExecutionsMove
  BY Literals DEF TypeRows, RestartControlPlane, ExecutionsMove, ControlExecution
<1> QED BY <1>1, <1>2, MarksStay DEF RowsMove, RestartControlPlane

\* The steps of the endpoint that change its state, the crash of its service aside.
EndpointStep ==
  \/ HandleAck \/ HandleOpen \/ HandleCloseIdle \/ HandleCloseBusy \/ HandleExecute
  \/ HandleCancel \/ ClaimAndStart \/ Complete \/ RecordRetirement
  \/ FinalizeCompletedInvocation \/ ExpireSession \/ Connect \/ RestartService

RequestStep ==
  \/ SessionRequests \/ ExecutionRequests \/ Revocation
  \/ \E n \in 0 .. Len(pending) : RejectBatch(n)
  \/ Disconnect \/ RestartControlPlane \/ FailOpen \/ RejectCommand

LEMMA RequestStepMoves ==
  ASSUME TypeRows, TypeTasks, RowsExist, RevocationOK, RequestStep
  PROVE  RowsMove /\ UNCHANGED <<ledger, runtime>>
<1>1. ASSUME UNCHANGED tables PROVE RowsMove
  BY <1>1, SessionsStay, ExecutionsStay, MarksStay DEF RowsMove, tables
<1>2. CASE SessionRequests
  <2>1. PICK s \in Sessions :
          \/ CreateSession(s) \/ MarkOpen(s) \/ SendOpen(s)
          \/ BeginClose(s) \/ SendClose(s) \/ GiveUpClose(s)
    BY <1>2 DEF SessionRequests
  <2>2. UNCHANGED <<ledger, runtime>>
    BY <2>1 DEF CreateSession, MarkOpen, SendOpen, BeginClose, SendClose, GiveUpClose
  <2>3. CASE SendOpen(s) \/ SendClose(s)
    BY <1>1, <2>3 DEF SendOpen, SendClose
  <2> QED BY <2>1, <2>2, <2>3, <1>1, SessionRowMoves
<1>3. CASE ExecutionRequests
  <2>1. PICK e \in Executions :
          \/ \E s \in Sessions : SubmitExecution(e, s)
          \/ RouteExecution(e) \/ FailToStart(e) \/ RetrySubmission(e)
          \/ MarkExecute(e) \/ SendExecute(e)
          \/ WithdrawExecution(e) \/ CancelExecution(e)
    BY <1>3 DEF ExecutionRequests
  <2>2. UNCHANGED <<ledger, runtime>>
    BY <2>1 DEF SubmitExecution, RouteExecution, FailToStart, RetrySubmission, MarkExecute,
                SendExecute, WithdrawExecution, CancelExecution
  <2>3. CASE RouteExecution(e) \/ RetrySubmission(e) \/ SendExecute(e) \/ CancelExecution(e)
    BY <1>1, <2>3 DEF RouteExecution, RetrySubmission, SendExecute, CancelExecution
  <2> QED BY <2>1, <2>2, <2>3, ExecutionRowMoves
<1>4. CASE Revocation
  <2>1. UNCHANGED <<ledger, runtime>>
    BY <1>4 DEF Revocation, Revoke, LookForLiveSession, CloseRevokedSession, GiveUpRevokedClose,
                MarkRevocationUnconfirmed, DisconnectRevoked
  <2>2. CASE LookForLiveSession \/ GiveUpRevokedClose \/ DisconnectRevoked
    BY <1>1, <2>2 DEF LookForLiveSession, GiveUpRevokedClose, DisconnectRevoked
  <2> QED BY <1>4, <2>1, <2>2, RevocationRowMoves DEF Revocation
<1>5. CASE (\E n \in 0 .. Len(pending) : RejectBatch(n)) \/ Disconnect
  BY <1>5, ChannelEndsMoves DEF RejectBatch, Disconnect
<1>6. CASE RestartControlPlane
  BY <1>6, RestartMoves DEF RestartControlPlane
<1>7. CASE FailOpen \/ RejectCommand
  BY <1>1, <1>7 DEF FailOpen, RejectCommand
<1> QED BY <1>2, <1>3, <1>4, <1>5, <1>6, <1>7 DEF RequestStep

\* Every step is a request, a crash of the service, a batch of the ledger or a step
\* of the endpoint.
LEMMA StepKinds ==
  ASSUME TypeRows, TypeTasks, RowsExist, RevocationOK, [Next]_vars
  PROVE  \/ RowsMove /\ UNCHANGED <<ledger, runtime>>
         \/ RowsMove /\ CrashService
         \/ \E n \in 0 .. Len(pending) : Ingest(n)
         \/ EndpointStep /\ UNCHANGED <<tables, tasks>>
<1>1. CASE RequestStep
  BY <1>1, RequestStepMoves
<1>2. CASE CrashService
  BY <1>2, ChannelEndsMoves DEF CrashService
<1>3. CASE EndpointStep
  BY <1>3 DEF EndpointStep, HandleAck, HandleOpen, HandleCloseIdle, HandleCloseBusy,
              HandleExecute, HandleCancel, ClaimAndStart, Complete, RecordRetirement,
              FinalizeCompletedInvocation, ExpireSession, Connect, RestartService
<1>4. CASE UNCHANGED vars
  BY <1>4, SessionsStay, ExecutionsStay, MarksStay DEF RowsMove, tables, vars
<1>5. Next => RequestStep \/ CrashService \/ EndpointStep \/ \E n \in 0 .. Len(pending) : Ingest(n)
  BY DEF Next, Ingestion, HandleMessage, WorkerSteps, Restarts, RequestStep, EndpointStep
<1> QED BY <1>1, <1>2, <1>3, <1>4, <1>5

-----------------------------------------------------------------------------
(* The type invariant and the shape of the state.                          *)

LEMMA RowsMoveKeeps ==
  ASSUME TypeRows, RowsExist, RowsMove
  PROVE  TypeRows' /\ RowsExist'
<1>1. TypeRows'
  BY DEF TypeRows, RowsMove, SessionsMove, ExecutionsMove, MarksMove
<1>2. ASSUME NEW e \in Executions
      PROVE  /\ execution'[e] # "none" <=> of'[e] # 0
             /\ of'[e] # 0 => session'[of'[e]] # "none"
  <2>1. \A s \in Sessions : session[s] # "none" => session'[s] # "none"
    BY DEF RowsMove, SessionsMove, ControlSession
  <2>2. execution[e] # "none" => execution'[e] # "none"
    BY DEF RowsMove, ExecutionsMove, ControlExecution
  <2>3. of[e] # 0 => of[e] \in Sessions
    BY DEF TypeRows
  <2> QED BY <2>1, <2>2, <2>3, Zero DEF RowsMove, ExecutionsMove, RowsExist
<1> QED BY <1>1, <1>2 DEF RowsExist

LEMMA IngestKeepsRows ==
  ASSUME TypeOK, RecordsOK, RowsExist, NEW n \in 0 .. Len(pending), Ingest(n)
  PROVE  TypeRows' /\ RowsExist'
<1>1. /\ UNCHANGED <<authorization, of, sessionRequested, executionRequested>>
      /\ AfterBatch[n] \in Db
  BY AfterBatchDef DEF Ingest
<1>2. session' \in [Sessions -> SessionStates] /\ execution' \in [Executions -> ExecutionStates]
  BY <1>1 DEF Ingest, Db
<1>3. TypeRows'
  BY <1>1, <1>2, TypeParts DEF TypeRows
<1>4. ASSUME NEW e \in Executions
      PROVE  /\ execution'[e] # "none" <=> of'[e] # 0
             /\ of'[e] # 0 => session'[of'[e]] # "none"
  <2>1. execution[e] # "none" <=> execution'[e] # "none"
    BY IngestExecution DEF ExecutionIngested, ExecutionMoves, Unfinished, Reported
  <2>2. \A s \in Sessions : session[s] # "none" => session'[s] # "none"
    BY IngestSession DEF SessionIngested, SessionMoves
  <2>3. of[e] # 0 => of[e] \in Sessions
    BY TypeParts DEF TypeRows
  <2> QED BY <1>1, <2>1, <2>2, <2>3 DEF RowsExist
<1> QED BY <1>3, <1>4 DEF RowsExist

LEMMA RowsStep ==
  ASSUME TypeOK, Shape, [Next]_vars
  PROVE  TypeRows' /\ RowsExist'
<1>1. ASSUME UNCHANGED tables PROVE TypeRows' /\ RowsExist'
  BY <1>1, TypeParts DEF tables, TypeRows, RowsExist, Shape
<1> QED BY <1>1, TypeParts, StepKinds, RowsMoveKeeps, IngestKeepsRows DEF Shape

LEMMA SessionTasksStep ==
  ASSUME TypeTasks, NEW s \in Sessions,
         \/ CreateSession(s) \/ MarkOpen(s) \/ SendOpen(s)
         \/ BeginClose(s) \/ SendClose(s) \/ GiveUpClose(s)
  PROVE  TypeTasks'
<1>1. CASE CreateSession(s)
  BY <1>1 DEF TypeTasks, CreateSession
<1>2. CASE MarkOpen(s)
  BY <1>2 DEF TypeTasks, MarkOpen
<1>3. CASE SendOpen(s)
  BY <1>3 DEF TypeTasks, SendOpen
<1>4. CASE BeginClose(s)
  BY <1>4 DEF TypeTasks, BeginClose
<1>5. CASE SendClose(s)
  BY <1>5 DEF TypeTasks, SendClose
<1>6. CASE GiveUpClose(s)
  BY <1>6 DEF TypeTasks, GiveUpClose
<1> QED BY <1>1, <1>2, <1>3, <1>4, <1>5, <1>6

LEMMA ExecutionTasksStep ==
  ASSUME TypeTasks, NEW e \in Executions,
         \/ \E s \in Sessions : SubmitExecution(e, s)
         \/ RouteExecution(e) \/ FailToStart(e) \/ RetrySubmission(e)
         \/ MarkExecute(e) \/ SendExecute(e)
         \/ WithdrawExecution(e) \/ CancelExecution(e)
  PROVE  TypeTasks'
<1>1. CASE \E s \in Sessions : SubmitExecution(e, s)
  BY <1>1 DEF TypeTasks, SubmitExecution
<1>2. CASE RouteExecution(e)
  BY <1>2 DEF TypeTasks, RouteExecution
<1>3. CASE FailToStart(e)
  BY <1>3 DEF TypeTasks, FailToStart
<1>4. CASE RetrySubmission(e)
  BY <1>4 DEF TypeTasks, RetrySubmission
<1>5. CASE MarkExecute(e)
  BY <1>5 DEF TypeTasks, MarkExecute
<1>6. CASE SendExecute(e)
  BY <1>6 DEF TypeTasks, SendExecute
<1>7. CASE WithdrawExecution(e) \/ CancelExecution(e)
  BY <1>7 DEF TypeTasks, WithdrawExecution, CancelExecution, tasks
<1> QED BY <1>1, <1>2, <1>3, <1>4, <1>5, <1>6, <1>7

LEMMA RevocationTasksStep ==
  ASSUME TypeTasks, RevocationOK, Revocation
  PROVE  TypeTasks' /\ RevocationOK'
<1>1. CASE Revoke
  BY <1>1 DEF TypeTasks, RevocationOK, Revoke, RevocationAt
<1>2. CASE LookForLiveSession
  <2>1. authorization' = "revoked"
    BY <1>2 DEF RevocationOK, LookForLiveSession, tables
  <2>2. UNCHANGED <<openTask, executeTask, submission, closing>>
    BY <1>2 DEF LookForLiveSession
  <2>3. CASE RevocationAt("disconnect", 0)
    BY <2>1, <2>2, <2>3 DEF TypeTasks, RevocationOK, RevocationAt
  <2>4. ASSUME NEW s \in Sessions, RevocationAt("close", s) \/ RevocationAt("unconfirmed", s)
        PROVE  TypeTasks' /\ RevocationOK'
    BY <2>1, <2>2, <2>4, Zero DEF TypeTasks, RevocationOK, RevocationAt
  <2> QED BY <1>2, <2>3, <2>4 DEF LookForLiveSession
<1>3. CASE CloseRevokedSession
  <2>1. /\ revocation.session \in Sessions /\ authorization' = "revoked"
        /\ UNCHANGED <<openTask, executeTask, submission, closing>>
    BY <1>3 DEF TypeTasks, RevocationOK, CloseRevokedSession
  <2>2. \/ RevocationAt("disconnect", 0)
        \/ RevocationAt("waiting", revocation.session)
        \/ RevocationAt("unconfirmed", revocation.session)
    BY <1>3 DEF CloseRevokedSession
  <2> QED BY <2>1, <2>2, Zero DEF TypeTasks, RevocationOK, RevocationAt
<1>4. CASE GiveUpRevokedClose
  BY <1>4 DEF TypeTasks, RevocationOK, GiveUpRevokedClose, RevocationAt, tables
<1>5. CASE MarkRevocationUnconfirmed
  <2>1. /\ RevocationAt("disconnect", 0) /\ authorization' = "revoked"
        /\ UNCHANGED <<openTask, executeTask, submission, closing>>
    BY <1>5 DEF MarkRevocationUnconfirmed, RevocationOK
  <2> QED BY <2>1 DEF TypeTasks, RevocationOK, RevocationAt
<1>6. CASE DisconnectRevoked
  BY <1>6 DEF TypeTasks, RevocationOK, DisconnectRevoked, RevocationAt, tables
<1> QED BY <1>1, <1>2, <1>3, <1>4, <1>5, <1>6 DEF Revocation

\* The steps that change a task of the control plane.
TaskStep ==
  SessionRequests \/ ExecutionRequests \/ Revocation \/ RestartControlPlane
    \/ \E n \in 0 .. Len(pending) : Ingest(n)

LEMMA TasksQuiet ==
  ASSUME [Next]_vars, ~ TaskStep
  PROVE  UNCHANGED tasks
<1>1. CASE Ingestion
  BY <1>1 DEF TaskStep, Ingestion, RejectBatch
<1>2. CASE HandleMessage
  BY <1>2 DEF HandleMessage, HandleAck, HandleOpen, FailOpen, HandleCloseIdle, HandleCloseBusy,
              HandleExecute, HandleCancel, RejectCommand
<1>3. CASE WorkerSteps
  BY <1>3 DEF WorkerSteps, ClaimAndStart, Complete, RecordRetirement,
              FinalizeCompletedInvocation, ExpireSession
<1>4. CASE Restarts
  BY <1>4 DEF Restarts, TaskStep, Connect, Disconnect, CrashService, RestartService
<1>5. CASE UNCHANGED vars
  BY <1>5 DEF vars
<1> QED BY <1>1, <1>2, <1>3, <1>4, <1>5 DEF Next, TaskStep

LEMMA QuietTables ==
  ASSUME [Next]_vars, ~ TaskStep
  PROVE  ChannelEnds \/ UNCHANGED tables
<1>1. CASE Ingestion
  BY <1>1 DEF TaskStep, Ingestion, RejectBatch
<1>2. CASE HandleMessage
  BY <1>2 DEF HandleMessage, HandleAck, HandleOpen, FailOpen, HandleCloseIdle, HandleCloseBusy,
              HandleExecute, HandleCancel, RejectCommand
<1>3. CASE WorkerSteps
  BY <1>3 DEF WorkerSteps, ClaimAndStart, Complete, RecordRetirement,
              FinalizeCompletedInvocation, ExpireSession
<1>4. CASE Restarts
  BY <1>4 DEF Restarts, TaskStep, Connect, Disconnect, CrashService, RestartService
<1>5. CASE UNCHANGED vars
  BY <1>5 DEF vars
<1> QED BY <1>1, <1>2, <1>3, <1>4, <1>5 DEF Next, TaskStep

LEMMA AuthorizationStep ==
  ASSUME TypeOK, Shape, [Next]_vars
  PROVE  authorization = "revoked" => authorization' = "revoked"
BY StepKinds, TypeParts DEF Shape, RowsMove, MarksMove, Ingest, tables

LEMMA TasksStep ==
  ASSUME TypeOK, Shape, [Next]_vars
  PROVE  TypeTasks' /\ RevocationOK'
<1> USE TypeParts DEF Shape
<1>1. TypeTasks /\ RevocationOK
  OBVIOUS
<1>2. ASSUME UNCHANGED revocation PROVE RevocationOK'
  BY <1>1, <1>2, AuthorizationStep DEF RevocationOK
<1>3. CASE SessionRequests
  <2>1. TypeTasks'
    BY <1>1, <1>3, SessionTasksStep DEF SessionRequests
  <2>2. UNCHANGED revocation
    BY <1>3 DEF SessionRequests, CreateSession, MarkOpen, SendOpen, BeginClose, SendClose, GiveUpClose
  <2> QED BY <1>2, <2>1, <2>2
<1>4. CASE ExecutionRequests
  <2>1. TypeTasks'
    BY <1>1, <1>4, ExecutionTasksStep DEF ExecutionRequests
  <2>2. UNCHANGED revocation
    BY <1>4 DEF ExecutionRequests, SubmitExecution, RouteExecution, FailToStart, RetrySubmission,
                MarkExecute, SendExecute, WithdrawExecution, CancelExecution, tasks
  <2> QED BY <1>2, <2>1, <2>2
<1>5. CASE Revocation
  BY <1>1, <1>5, RevocationTasksStep
<1>6. CASE RestartControlPlane
  BY <1>6 DEF TypeTasks, RevocationOK, RestartControlPlane
<1>7. ASSUME NEW n \in 0 .. Len(pending), Ingest(n) PROVE TypeTasks' /\ RevocationOK'
  <2>1. UNCHANGED <<openTask, executeTask, submission, authorization>>
    BY <1>7 DEF Ingest
  <2>2. \/ UNCHANGED revocation
        \/ RevocationAt("disconnect", 0) /\ revocation.step = "waiting"
    BY <1>7 DEF Ingest, RevocationAt
  <2>3. closing' \in [Sessions -> {"none", "begun", "waiting"}]
    BY <1>1, <1>7 DEF Ingest, TypeTasks
  <2> QED BY <1>1, <2>1, <2>2, <2>3 DEF TypeTasks, RevocationOK, RevocationAt
<1>8. CASE ~ TaskStep
  <2>1. UNCHANGED tasks
    BY <1>8, TasksQuiet
  <2> QED BY <1>1, <1>2, <2>1 DEF TypeTasks, tasks
<1> QED BY <1>3, <1>4, <1>5, <1>6, <1>7, <1>8 DEF TaskStep

\* No row disappears, and a task is begun for a row only.
LEMMA RowsStay ==
  ASSUME TypeOK, Shape, [Next]_vars
  PROVE  /\ \A s \in Sessions : session[s] # "none" => session'[s] # "none"
         /\ \A e \in Executions :
              /\ execution[e] # "none" => execution'[e] # "none" /\ of'[e] = of[e]
              /\ e \in executionRequested => e \in executionRequested'
              /\ e \in executionRequested' => e \in executionRequested \/ execution[e] = "queued"
<1>1. CASE RowsMove
  BY <1>1 DEF RowsMove, SessionsMove, ExecutionsMove, MarksMove, ControlSession, ControlExecution
<1>2. ASSUME NEW n \in 0 .. Len(pending), Ingest(n)
      PROVE  /\ \A s \in Sessions : session[s] # "none" => session'[s] # "none"
             /\ \A e \in Executions : execution[e] # "none" => execution'[e] # "none"
             /\ UNCHANGED <<of, executionRequested>>
  <2>1. UNCHANGED <<of, executionRequested>>
    BY <1>2 DEF Ingest
  <2>2. \A s \in Sessions : session[s] # "none" => session'[s] # "none"
    BY <1>2, IngestSession DEF SessionIngested, SessionMoves, Shape
  <2>3. \A e \in Executions : execution[e] # "none" => execution'[e] # "none"
    BY <1>2, IngestExecution DEF ExecutionIngested, ExecutionMoves, Unfinished, Reported, Shape
  <2> QED BY <2>1, <2>2, <2>3
<1>3. CASE UNCHANGED tables
  BY <1>3 DEF tables
<1> QED BY <1>1, <1>2, <1>3, StepKinds, TypeParts DEF Shape

LEMMA TaskRowsStep ==
  ASSUME TypeOK, Shape, [Next]_vars
  PROVE  TasksHaveRows'
<1> USE TypeParts DEF Shape
<1>1. TypeTasks /\ TypeRows /\ TasksHaveRows
  OBVIOUS
<1>2. \A e \in Executions :
        e \in executionRequested' => execution'[e] # "none"
  BY RowsStay DEF TasksHaveRows
<1>3. SUFFICES ASSUME NEW e \in Executions
               PROVE  /\ executeTask'[e] # "none" \/ submission'[e] # "none" =>
                           \/ executeTask[e] # "none" \/ submission[e] # "none"
                           \/ execution'[e] # "none"
                      /\ executeTask'[e] = "send" =>
                           executeTask[e] = "send" \/ e \in executionRequested'
  BY <1>2, RowsStay DEF TasksHaveRows
<1>4. CASE SessionRequests
  BY <1>4 DEF SessionRequests, CreateSession, MarkOpen, SendOpen, BeginClose, SendClose,
              GiveUpClose
<1>5. ASSUME NEW f \in Executions,
             \/ \E s \in Sessions : SubmitExecution(f, s)
             \/ RouteExecution(f) \/ FailToStart(f) \/ RetrySubmission(f)
             \/ MarkExecute(f) \/ SendExecute(f)
             \/ WithdrawExecution(f) \/ CancelExecution(f)
      PROVE  /\ executeTask'[e] # "none" \/ submission'[e] # "none" =>
                  executeTask[e] # "none" \/ submission[e] # "none" \/ execution'[e] # "none"
             /\ executeTask'[e] = "send" =>
                  executeTask[e] = "send" \/ e \in executionRequested'
  <2>1. CASE \E s \in Sessions : SubmitExecution(f, s)
    BY <1>1, <2>1 DEF SubmitExecution, TypeTasks, TypeRows
  <2>2. CASE RouteExecution(f)
    BY <1>1, <2>2 DEF RouteExecution, TypeTasks
  <2>3. CASE FailToStart(f)
    BY <1>1, <2>3 DEF FailToStart, TypeTasks
  <2>4. CASE RetrySubmission(f)
    BY <1>1, <2>4 DEF RetrySubmission, TypeTasks, tables
  <2>5. CASE MarkExecute(f)
    BY <1>1, <2>5 DEF MarkExecute, TypeTasks
  <2>6. CASE SendExecute(f)
    BY <1>1, <2>6 DEF SendExecute, TypeTasks
  <2>7. CASE WithdrawExecution(f) \/ CancelExecution(f)
    BY <1>1, <2>7 DEF WithdrawExecution, CancelExecution, tasks
  <2> QED BY <1>5, <2>1, <2>2, <2>3, <2>4, <2>5, <2>6, <2>7
<1>6. CASE Revocation
  BY <1>6 DEF Revocation, Revoke, LookForLiveSession, CloseRevokedSession,
              GiveUpRevokedClose, MarkRevocationUnconfirmed, DisconnectRevoked
<1>7. CASE RestartControlPlane
  BY <1>1, <1>7 DEF RestartControlPlane, TypeRows
<1>8. ASSUME NEW n \in 0 .. Len(pending), Ingest(n)
      PROVE  UNCHANGED <<executeTask, submission>>
  BY <1>8 DEF Ingest
<1>9. CASE ~ TaskStep
  BY <1>9, TasksQuiet DEF tasks
<1> QED BY <1>4, <1>5, <1>6, <1>7, <1>8, <1>9 DEF TaskStep, ExecutionRequests

LEMMA SpendType ==
  ASSUME TypeBudget, NEW event \in Optional, Spend(event)
  PROVE  /\ TypeBudget'
         /\ budget'["retry"] <= budget["retry"]
         /\ event = "retry" => budget'["retry"] < budget["retry"]
BY DEF TypeBudget, Spend, Optional

LEMMA BudgetStep ==
  ASSUME TypeBudget, [Next]_vars
  PROVE  /\ TypeBudget'
         /\ budget'["retry"] <= budget["retry"]
         /\ \A e \in Executions : RetrySubmission(e) => budget'["retry"] < budget["retry"]
<1>1. budget["retry"] \in Nat
  BY DEF TypeBudget, Optional
<1>2. \/ UNCHANGED budget
      \/ \E event \in Optional : Spend(event)
  <2>1. CASE SessionRequests
    BY <2>1 DEF SessionRequests, CreateSession, MarkOpen, SendOpen, BeginClose, SendClose,
                GiveUpClose, Optional
  <2>2. CASE ExecutionRequests
    BY <2>2 DEF ExecutionRequests, SubmitExecution, RouteExecution, FailToStart, RetrySubmission,
                MarkExecute, SendExecute, WithdrawExecution, CancelExecution, Optional
  <2>3. CASE Revocation
    BY <2>3 DEF Revocation, Revoke, LookForLiveSession, CloseRevokedSession, GiveUpRevokedClose,
                MarkRevocationUnconfirmed, DisconnectRevoked, Optional
  <2>4. CASE Ingestion
    BY <2>4 DEF Ingestion, Ingest, RejectBatch
  <2>5. CASE HandleMessage
    BY <2>5 DEF HandleMessage, HandleAck, HandleOpen, FailOpen, HandleCloseIdle, HandleCloseBusy,
                HandleExecute, HandleCancel, RejectCommand, Optional
  <2>6. CASE WorkerSteps
    BY <2>6 DEF WorkerSteps, ClaimAndStart, Complete, RecordRetirement,
                FinalizeCompletedInvocation, ExpireSession
  <2>7. CASE Restarts
    BY <2>7 DEF Restarts, Connect, Disconnect, RestartControlPlane, CrashService, RestartService,
                Optional
  <2>8. CASE UNCHANGED vars
    BY <2>8 DEF vars
  <2> QED BY <2>1, <2>2, <2>3, <2>4, <2>5, <2>6, <2>7, <2>8 DEF Next
<1>3. ASSUME NEW e \in Executions, RetrySubmission(e) PROVE budget'["retry"] < budget["retry"]
  BY <1>3, SpendType DEF RetrySubmission, Optional
<1>4. TypeBudget' /\ budget'["retry"] <= budget["retry"]
  BY <1>1, <1>2, SpendType DEF TypeBudget
<1> QED BY <1>3, <1>4

\* What holds of a message that is sent.
Sent(m) ==
  /\ m \in Message /\ connected
  /\ m.type \in {"open_session", "close_session"} => m.session \in Sessions
  /\ m.type \in {"execute", "cancel_execution"} =>
       /\ m.execution \in Executions /\ execution[m.execution] # "none"
       /\ m.session = of[m.execution]
  /\ m.type = "execute" => m.execution \in executionRequested'

InboxMove ==
  \/ UNCHANGED inbox
  \/ inbox' = <<>>
  \/ inbox # <<>> /\ inbox' = Tail(inbox)
  \/ \E m \in Message : Sent(m) /\ inbox' = Append(inbox, m)

LEMMA SendIsMove ==
  ASSUME NEW m, Send(m), connected => Sent(m)
  PROVE  InboxMove
BY DEF Send, InboxMove, Sent

LEMMA SessionCommandSent ==
  ASSUME NEW type \in {"open_session", "close_session"}, NEW s \in Sessions, connected
  PROVE  Sent(Command(type, s, 0))
BY DEF Sent, Command, Message

LEMMA ExecutionCommandSent ==
  ASSUME TypeRows, NEW type \in {"execute", "cancel_execution"}, NEW e \in Executions, connected,
         execution[e] # "none", type = "execute" => e \in executionRequested'
  PROVE  Sent(Command(type, of[e], e))
BY DEF Sent, Command, Message, TypeRows

LEMMA InboxStep ==
  ASSUME TypeOK, Shape, [Next]_vars
  PROVE  InboxMove
<1> USE TypeParts DEF Shape
<1>1. TypeRows /\ TypeTasks /\ TasksHaveRows /\ RevocationOK
  OBVIOUS
<1>2. ASSUME NEW s \in Sessions,
             \/ CreateSession(s) \/ MarkOpen(s) \/ SendOpen(s)
             \/ BeginClose(s) \/ SendClose(s) \/ GiveUpClose(s)
      PROVE  InboxMove
  <2>1. CASE CreateSession(s) \/ MarkOpen(s) \/ BeginClose(s) \/ GiveUpClose(s)
    BY <2>1 DEF CreateSession, MarkOpen, BeginClose, GiveUpClose, network, InboxMove
  <2>2. CASE SendOpen(s)
    BY <2>2, SendIsMove, SessionCommandSent DEF SendOpen
  <2>3. CASE SendClose(s)
    BY <2>3, SendIsMove, SessionCommandSent DEF SendClose
  <2> QED BY <1>2, <2>1, <2>2, <2>3
<1>3. ASSUME NEW e \in Executions,
             \/ \E s \in Sessions : SubmitExecution(e, s)
             \/ RouteExecution(e) \/ FailToStart(e) \/ RetrySubmission(e)
             \/ MarkExecute(e) \/ SendExecute(e)
             \/ WithdrawExecution(e) \/ CancelExecution(e)
      PROVE  InboxMove
  <2>1. CASE \/ \E s \in Sessions : SubmitExecution(e, s)
             \/ RouteExecution(e) \/ FailToStart(e) \/ RetrySubmission(e)
             \/ MarkExecute(e) \/ WithdrawExecution(e)
    BY <2>1 DEF SubmitExecution, RouteExecution, FailToStart, RetrySubmission, MarkExecute,
                WithdrawExecution, network, InboxMove
  <2>2. CASE SendExecute(e)
    <3>1. executeTask[e] = "send" /\ UNCHANGED executionRequested
      BY <2>2 DEF SendExecute, tables
    <3>2. execution[e] # "none" /\ e \in executionRequested'
      BY <1>1, <3>1 DEF TasksHaveRows
    <3> QED BY <1>1, <2>2, <3>2, SendIsMove, ExecutionCommandSent DEF SendExecute
  <2>3. CASE CancelExecution(e)
    BY <1>1, <2>3, SendIsMove, ExecutionCommandSent DEF CancelExecution
  <2> QED BY <1>3, <2>1, <2>2, <2>3
<1>4. CASE Revocation
  <2>1. CASE Revoke \/ LookForLiveSession \/ GiveUpRevokedClose \/ MarkRevocationUnconfirmed
    BY <2>1 DEF Revoke, LookForLiveSession, GiveUpRevokedClose, MarkRevocationUnconfirmed,
                network, InboxMove
  <2>2. CASE CloseRevokedSession
    <3>1. revocation.session \in Sessions
      BY <1>1, <2>2 DEF CloseRevokedSession, TypeTasks, RevocationOK
    <3>2. UNCHANGED inbox \/ Send(Command("close_session", revocation.session, 0))
      BY <2>2 DEF CloseRevokedSession
    <3>3. CASE UNCHANGED inbox
      BY <3>3 DEF InboxMove
    <3>4. CASE Send(Command("close_session", revocation.session, 0))
      BY <3>1, <3>4, SendIsMove, SessionCommandSent
    <3> QED BY <3>2, <3>3, <3>4
  <2>3. CASE DisconnectRevoked
    BY <2>3 DEF DisconnectRevoked, InboxMove
  <2> QED BY <1>4, <2>1, <2>2, <2>3 DEF Revocation
<1>5. ASSUME NEW n \in 0 .. Len(pending), Ingest(n) \/ RejectBatch(n) PROVE InboxMove
  <2>1. CASE Ingest(n)
    <3>1. connected => Sent(Ack)
      BY <2>1 DEF Sent, Ack, Command, Message
    <3> QED BY <2>1, <3>1, SendIsMove DEF Ingest
  <2>2. CASE RejectBatch(n)
    BY <2>2 DEF RejectBatch, ChannelEnds, InboxMove
  <2> QED BY <1>5, <2>1, <2>2
<1>6. CASE HandleMessage
  <2>1. PICK type : Handling(type)
    BY <1>6 DEF HandleMessage, HandleAck, HandleOpen, FailOpen, HandleCloseIdle, HandleCloseBusy,
                HandleExecute, HandleCancel, RejectCommand
  <2> QED BY <2>1 DEF Handling, InboxMove
<1>7. CASE WorkerSteps
  BY <1>7 DEF WorkerSteps, ClaimAndStart, Complete, RecordRetirement,
              FinalizeCompletedInvocation, ExpireSession, network, InboxMove
<1>8. CASE Restarts
  BY <1>8 DEF Restarts, Connect, Disconnect, RestartControlPlane, CrashService, RestartService,
              ChannelEnds, network, InboxMove
<1>9. CASE UNCHANGED vars
  BY <1>9 DEF vars, network, InboxMove
<1> QED BY <1>2, <1>3, <1>4, <1>5, <1>6, <1>7, <1>8, <1>9
        DEF Next, SessionRequests, ExecutionRequests, Ingestion

LEMMA ConnectedStep ==
  ASSUME [Next]_vars
  PROVE  \/ UNCHANGED connected
         \/ connected' = FALSE /\ inbox' = <<>>
         \/ Connect
<1>1. CASE SessionRequests
  BY <1>1 DEF SessionRequests, CreateSession, MarkOpen, SendOpen, BeginClose, SendClose,
              GiveUpClose, network
<1>2. CASE ExecutionRequests
  BY <1>2 DEF ExecutionRequests, SubmitExecution, RouteExecution, FailToStart, RetrySubmission,
              MarkExecute, SendExecute, WithdrawExecution, CancelExecution, network
<1>3. CASE Revocation
  BY <1>3 DEF Revocation, Revoke, LookForLiveSession, CloseRevokedSession, GiveUpRevokedClose,
              MarkRevocationUnconfirmed, DisconnectRevoked, network
<1>4. CASE Ingestion
  BY <1>4 DEF Ingestion, Ingest, RejectBatch, ChannelEnds
<1>5. CASE HandleMessage
  BY <1>5 DEF HandleMessage, HandleAck, HandleOpen, FailOpen, HandleCloseIdle, HandleCloseBusy,
              HandleExecute, HandleCancel, RejectCommand
<1>6. CASE WorkerSteps
  BY <1>6 DEF WorkerSteps, ClaimAndStart, Complete, RecordRetirement,
              FinalizeCompletedInvocation, ExpireSession, network
<1>7. CASE Restarts
  BY <1>7 DEF Restarts, Disconnect, RestartControlPlane, CrashService, RestartService,
              ChannelEnds, network
<1>8. CASE UNCHANGED vars
  BY <1>8 DEF vars, network
<1> QED BY <1>1, <1>2, <1>3, <1>4, <1>5, <1>6, <1>7, <1>8 DEF Next

LEMMA ChannelStep ==
  ASSUME TypeOK, Shape, [Next]_vars
  PROVE  TypeChannel' /\ CommandsOK' /\ (~ connected' => inbox' = <<>>)
<1>1. TypeChannel /\ TypeRows /\ CommandsOK /\ TasksHaveRows /\ (~ connected => inbox = <<>>)
  BY TypeParts DEF Shape, EndpointOK
<1>2. connected' \in BOOLEAN
  BY <1>1, ConnectedStep DEF TypeChannel, Connect
<1>3. ASSUME NEW m, CommandOK(m) PROVE CommandOK(m)'
  BY <1>1, <1>3, RowsStay, Zero, RowsStep DEF CommandOK, Shape, RowsExist
<1>4. ASSUME NEW m, Sent(m) PROVE CommandOK(m)'
  <2>1. ASSUME m.type \in {"execute", "cancel_execution"}
        PROVE  m.session = of'[m.execution] /\ m.session \in Sessions
    <3>1. m.execution \in Executions /\ execution[m.execution] # "none" /\ m.session = of[m.execution]
      BY <1>4, <2>1 DEF Sent
    <3>2. of'[m.execution] = of[m.execution]
      BY <3>1, RowsStay
    <3> QED BY <1>1, <3>1, <3>2, Zero DEF TypeRows, Shape, RowsExist
  <2> QED BY <1>4, <2>1 DEF Sent, CommandOK
<1>5. CASE UNCHANGED inbox
  <2>1. ~ connected' => inbox' = <<>>
    BY <1>1, <1>5, ConnectedStep DEF Connect
  <2> QED BY <1>1, <1>2, <1>3, <1>5, <2>1 DEF TypeChannel, CommandsOK
<1>6. CASE inbox' = <<>>
  BY <1>2, <1>6 DEF TypeChannel, CommandsOK
<1>7. CASE inbox # <<>> /\ inbox' = Tail(inbox)
  <2>1. /\ inbox' \in Seq(Message) /\ Len(inbox') = Len(inbox) - 1
        /\ \A i \in 1 .. Len(inbox') : inbox'[i] = inbox[i + 1]
    BY <1>1, <1>7 DEF TypeChannel
  <2>2. connected /\ Len(inbox) \in Nat
    BY <1>1, <1>7 DEF TypeChannel
  <2>3. \A i \in 1 .. Len(inbox') : CommandOK(inbox[i + 1])
    BY <1>1, <2>1, <2>2 DEF CommandsOK
  <2>4. CommandsOK'
    BY <1>3, <2>1, <2>3 DEF CommandsOK
  <2> QED BY <1>2, <2>1, <2>2, <2>4, ConnectedStep DEF TypeChannel, Connect
<1>8. ASSUME NEW m \in Message, Sent(m), inbox' = Append(inbox, m)
      PROVE  TypeChannel' /\ CommandsOK' /\ (~ connected' => inbox' = <<>>)
  <2>1. /\ inbox' \in Seq(Message) /\ Len(inbox') = Len(inbox) + 1 /\ Len(inbox) \in Nat
        /\ inbox'[Len(inbox) + 1] = m
        /\ \A i \in 1 .. Len(inbox) : inbox'[i] = inbox[i]
    BY <1>1, <1>8 DEF TypeChannel
  <2>2. ASSUME NEW i \in 1 .. Len(inbox') PROVE CommandOK(inbox[i])'
    <3>1. CASE i = Len(inbox) + 1
      BY <1>4, <1>8, <2>1, <3>1
    <3>2. CASE i \in 1 .. Len(inbox)
      BY <1>1, <1>3, <2>1, <3>2 DEF CommandsOK
    <3> QED BY <2>1, <3>1, <3>2
  <2>3. CommandsOK'
    BY <2>2 DEF CommandsOK
  <2>4. connected
    BY <1>8 DEF Sent
  <2> QED BY <1>2, <2>1, <2>3, <2>4, ConnectedStep DEF TypeChannel, Connect
<1> QED BY <1>5, <1>6, <1>7, <1>8, InboxStep DEF InboxMove

LEMMA BusyMeans ==
  ASSUME TypeEndpoint, EndpointOK
  PROVE  /\ Busy <=> invocation.phase # "none"
         /\ ~ Busy => invocation = NoInvocation
BY DEF TypeEndpoint, EndpointOK, Busy, NoInvocation

LEMMA HeadOK ==
  ASSUME TypeOK, Shape, NEW type, Handling(type)
  PROVE  /\ CommandOK(Head(inbox)) /\ Head(inbox) \in Message /\ Head(inbox) = inbox[1]
         /\ Len(inbox) \in Nat \ {0}
BY TypeParts DEF Handling, TypeChannel, Shape, CommandsOK

Recorded(r) ==
  r \in LedgerRecord /\ RecordOK(r) /\ pending' = pending \o <<r>>

LedgerMove == UNCHANGED pending \/ \E r \in LedgerRecord : Recorded(r)

LEMMA LedgerMoveKeeps ==
  ASSUME TypeOK, RecordsOK, LedgerMove, ackDue' \in BOOLEAN
  PROVE  TypeLedger' /\ RecordsOK'
<1>1. TypeLedger
  BY TypeParts
<1>2. CASE UNCHANGED pending
  BY <1>1, <1>2 DEF TypeLedger, RecordsOK
<1>3. ASSUME NEW r \in LedgerRecord, Recorded(r) PROVE TypeLedger' /\ RecordsOK'
  <2>1. pending' \in Seq(LedgerRecord)
    BY <1>1, <1>3 DEF TypeLedger, Recorded
  <2>2. /\ Len(pending') = Len(pending) + 1 /\ pending'[Len(pending) + 1] = r
        /\ \A i \in 1 .. Len(pending) : pending'[i] = pending[i]
    BY <1>3, RecordOne DEF Recorded
  <2>3. ASSUME NEW i \in 1 .. Len(pending') PROVE RecordOK(pending'[i])
    <3>1. CASE i = Len(pending) + 1
      BY <1>3, <2>2, <3>1 DEF Recorded
    <3>2. CASE i # Len(pending) + 1
      <4>1. i \in 1 .. Len(pending)
        BY <2>2, <3>2, PendingLength
      <4> QED BY <2>2, <4>1 DEF RecordsOK
    <3> QED BY <3>1, <3>2
  <2>4. RecordsOK'
    <3>1. \A i \in 1 .. Len(pending') : RecordOK(pending[i])'
      BY <2>3 DEF RecordOK
    <3> QED BY <3>1 DEF RecordsOK
  <2> QED BY <2>1, <2>4 DEF TypeLedger
<1> QED BY <1>2, <1>3 DEF LedgerMove

LEMMA EntryRecorded ==
  ASSUME NEW type \in RecordTypes, NEW s \in Sessions, NEW e \in Executions \cup {0},
         NEW note \in {"none", "confirmed", "unconfirmed"} \cup Reported,
         type \in AboutExecution => e \in Executions,
         type = "execution_finished" => note \in Reported,
         type = "worker_stopped" => note \in {"confirmed", "unconfirmed"}
  PROVE  Entry(type, s, e, note) \in LedgerRecord /\ RecordOK(Entry(type, s, e, note))
BY DEF Entry, LedgerRecord, RecordOK

LEMMA EntryMoves ==
  ASSUME NEW type \in RecordTypes, NEW s \in Sessions, NEW e \in Executions \cup {0},
         NEW note \in {"none", "confirmed", "unconfirmed"} \cup Reported,
         type \in AboutExecution => e \in Executions,
         type = "execution_finished" => note \in Reported,
         type = "worker_stopped" => note \in {"confirmed", "unconfirmed"},
         pending' = pending \o <<Entry(type, s, e, note)>>
  PROVE  LedgerMove
BY EntryRecorded DEF LedgerMove, Recorded

LEMMA RecordNames ==
  /\ {"session_started", "cancellation_requested", "worker_stopped", "session_closed",
      "execution_accepted", "execution_started", "execution_finished"} = RecordTypes
  /\ AboutExecution = {"execution_accepted", "execution_started", "execution_finished"}
  /\ Reported = {"completed", "timed_out", "cancelled"}
BY DEF RecordTypes, AboutExecution, Reported

LEMMA RetireMoves ==
  ASSUME NEW s \in Sessions, NEW e \in Executions \cup {0}, Retire(s, e)
  PROVE  LedgerMove /\ (strays \subseteq Sessions => strays' \subseteq Sessions)
<1>1. PICK cleaned \in BOOLEAN :
        /\ Record(IF cleaned THEN <<Entry("session_closed", s, 0, "none")>>
                  ELSE <<Entry("worker_stopped", s, e, "unconfirmed")>>)
        /\ strays' = IF cleaned THEN strays ELSE strays \cup {s}
  BY DEF Retire
<1>2. CASE cleaned
  BY <1>1, <1>2, EntryMoves, RecordNames DEF Record
<1>3. CASE ~ cleaned
  BY <1>1, <1>3, EntryMoves, RecordNames DEF Record
<1> QED BY <1>1, <1>2, <1>3

LEMMA EndpointLedgerMoves ==
  ASSUME TypeOK, Shape, EndpointStep
  PROVE  LedgerMove /\ strays' \subseteq Sessions
<1>1. /\ TypeEndpoint /\ EndpointOK /\ strays \subseteq Sessions /\ 0 \in Executions \cup {0}
      /\ worker \in Sessions \cup {0} /\ invocation.execution \in Executions \cup {0}
      /\ frame.session \in Sessions \cup {0} /\ frame.execution \in Executions \cup {0}
  BY TypeParts DEF Shape, TypeEndpoint
<1>2. CASE HandleAck \/ HandleCloseBusy \/ Connect
  BY <1>1, <1>2 DEF HandleAck, HandleCloseBusy, Connect, LedgerMove, runtime, ledger
<1>3. CASE HandleOpen
  <2>1. Head(inbox).session \in Sessions
    BY <1>3, HeadOK DEF HandleOpen, CommandOK, Handling
  <2> QED BY <1>1, <1>3, <2>1, EntryMoves, RecordNames DEF HandleOpen, Record
<1>4. CASE HandleCloseIdle
  <2>1. frame.session \in Sessions
    BY <1>4, HeadOK DEF HandleCloseIdle, CommandOK, Handling
  <2> QED BY <1>1, <1>4, <2>1, RetireMoves DEF HandleCloseIdle
<1>5. CASE HandleExecute
  <2>1. Head(inbox).execution \in Executions /\ frame.session \in Sessions
    BY <1>5, HeadOK DEF HandleExecute, MayExecute, CommandOK, Handling
  <2> QED BY <1>1, <1>5, <2>1, EntryMoves, RecordNames DEF HandleExecute, Record
<1>6. CASE HandleCancel
  <2>1. frame.session \in Sessions
    BY <1>6, HeadOK DEF HandleCancel, MayCancel, CommandOK, Handling
  <2> QED BY <1>1, <1>6, <2>1, EntryMoves, RecordNames DEF HandleCancel, Record
<1>7. CASE RestartService
  <2>1. CASE SnapshotSession = 0
    BY <1>1, <1>7, <2>1 DEF RestartService, LedgerMove
  <2>2. CASE SnapshotSession # 0
    <3>1. SnapshotSession \in Sessions /\ SnapshotExecution \in Executions \cup {0}
      BY <1>1, <2>2 DEF SnapshotSession, SnapshotExecution
    <3>2. pending' = pending \o <<Entry("worker_stopped", SnapshotSession, SnapshotExecution,
                                        "confirmed")>>
      BY <1>7, <2>2 DEF RestartService, TypeOK
    <3>3. LedgerMove
      BY <3>1, <3>2, EntryMoves, RecordNames
    <3> QED BY <1>1, <1>7, <3>3 DEF RestartService
  <2> QED BY <2>1, <2>2
<1>8. CASE invocation.phase # "none"
  <2>1. worker \in Sessions /\ invocation.execution \in Executions
    BY <1>1, <1>8 DEF EndpointOK
  <2>2. CASE ClaimAndStart
    BY <1>1, <2>1, <2>2, EntryMoves, RecordNames DEF ClaimAndStart, Record
  <2>3. CASE Complete
    <3>1. PICK o \in Outcome :
            /\ Record(<<IF o.result = "outcome_unknown"
                        THEN Entry("worker_stopped", worker, invocation.execution,
                                   Confirmation(o.cleaned))
                        ELSE Entry("execution_finished", worker, invocation.execution,
                                   IF o.result = "explicit_exit" THEN "completed"
                                   ELSE o.result)>>)
            /\ strays' = IF o.cleaned THEN strays ELSE strays \cup {worker}
      BY <2>3 DEF Complete
    <3>2. o.result \in {"completed", "explicit_exit", "outcome_unknown", "timed_out", "cancelled"}
      BY DEF Outcome
    <3>3. ASSUME o.result = "outcome_unknown" PROVE LedgerMove
      <4>1. pending' = pending \o <<Entry("worker_stopped", worker, invocation.execution,
                                          Confirmation(o.cleaned))>>
        BY <3>1, <3>3 DEF Record
      <4>2. PICK note \in {"confirmed", "unconfirmed"} : note = Confirmation(o.cleaned)
        BY DEF Confirmation
      <4> QED BY <2>1, <4>1, <4>2, EntryMoves, RecordNames
    <3>4. ASSUME o.result # "outcome_unknown" PROVE LedgerMove
      <4> DEFINE note == IF o.result = "explicit_exit" THEN "completed" ELSE o.result
      <4>1. pending' = pending \o <<Entry("execution_finished", worker, invocation.execution, note)>>
        BY <3>1, <3>4 DEF Record
      <4>2. note \in Reported /\ "execution_finished" \in RecordTypes
        BY <3>2, <3>4, RecordNames
      <4>3. note \in {"none", "confirmed", "unconfirmed"} \cup Reported
        BY <4>2
      <4> HIDE DEF note
      <4> QED BY <2>1, <4>1, <4>2, <4>3, EntryMoves
    <3> QED BY <1>1, <2>1, <3>1, <3>3, <3>4
  <2>4. CASE RecordRetirement
    BY <1>1, <2>1, <2>4, EntryMoves, RecordNames DEF RecordRetirement, Record, Confirmation
  <2>5. CASE FinalizeCompletedInvocation
    <3>1. CASE Retire(worker, invocation.execution)
      BY <1>1, <2>1, <3>1, RetireMoves
    <3>2. CASE UNCHANGED <<pending, strays>>
      BY <1>1, <3>2 DEF LedgerMove
    <3>3. CASE /\ Record(IF invocation.result # "outcome_unknown" /\ closeAfter /\ invocation.cleaned
                         THEN <<Entry("session_closed", worker, 0, "none")>> ELSE <<>>)
               /\ UNCHANGED strays
      <4>1. CASE pending' = pending \o <<Entry("session_closed", worker, 0, "none")>>
        BY <1>1, <2>1, <3>3, <4>1, EntryMoves, RecordNames
      <4>2. CASE pending' = pending \o <<>>
        <5>1. pending' = pending
          BY <4>2 DEF TypeOK
        <5> QED BY <1>1, <3>3, <5>1 DEF LedgerMove
      <4> QED BY <3>3, <4>1, <4>2 DEF Record
    <3> QED BY <2>5, <3>1, <3>2, <3>3 DEF FinalizeCompletedInvocation
  <2> QED BY <1>2, <1>3, <1>4, <1>5, <1>6, <2>2, <2>3, <2>4, <2>5, <1>1, BusyMeans, <1>8,
             <1>7 DEF EndpointStep, ExpireSession
<1>9. CASE invocation.phase = "none"
  <2>1. CASE ExpireSession
    BY <1>1, <2>1, RetireMoves DEF ExpireSession
  <2> QED BY <1>2, <1>3, <1>4, <1>5, <1>6, <2>1, <1>9, <1>7
          DEF EndpointStep, ClaimAndStart, Complete, RecordRetirement, FinalizeCompletedInvocation
<1> QED BY <1>8, <1>9

LEMMA EndpointStepKeeps ==
  ASSUME TypeOK, Shape, EndpointStep, UNCHANGED tables
  PROVE  TypeEndpoint' /\ ((~ connected' => inbox' = <<>>) => EndpointOK')
<1>1. /\ TypeEndpoint /\ EndpointOK /\ TypeRows /\ TasksHaveRows /\ strays' \subseteq Sessions
      /\ UNCHANGED <<of, executionRequested>>
  BY TypeParts, EndpointLedgerMoves DEF Shape, tables
<1> USE DEF TypeEndpoint, EndpointOK
<1>2. CASE HandleAck
  <2>1. TypeEndpoint'
    BY <1>1, <1>2 DEF HandleAck, runtime
  <2>2. (~ connected' => inbox' = <<>>) => EndpointOK'
    BY <1>1, <1>2, Zero DEF HandleAck, runtime
  <2> QED BY <2>1, <2>2
<1>3. CASE HandleOpen
  <2>1. TypeEndpoint'
    BY <1>1, <1>3, HeadOK DEF HandleOpen, NoInvocation, MayOpen, Busy, Handling, CommandOK
  <2>2. (~ connected' => inbox' = <<>>) => EndpointOK'
    BY <1>1, <1>3, HeadOK, Zero DEF HandleOpen, NoInvocation, MayOpen, Busy, Handling, CommandOK
  <2> QED BY <2>1, <2>2
<1>4. CASE HandleCloseIdle
  <2>1. TypeEndpoint'
    BY <1>1, <1>4, BusyMeans DEF HandleCloseIdle, NoInvocation, Busy, Handling, NoFrame
  <2>2. (~ connected' => inbox' = <<>>) => EndpointOK'
    BY <1>1, <1>4, BusyMeans, Zero DEF HandleCloseIdle, NoInvocation, Busy, Handling, NoFrame
  <2> QED BY <2>1, <2>2
<1>5. CASE HandleCloseBusy
  <2>1. TypeEndpoint'
    BY <1>1, <1>5, BusyMeans DEF HandleCloseBusy, NoInvocation, Busy, Handling
  <2>2. (~ connected' => inbox' = <<>>) => EndpointOK'
    BY <1>1, <1>5, BusyMeans, Zero DEF HandleCloseBusy, NoInvocation, Busy, Handling
  <2> QED BY <2>1, <2>2
<1>6. CASE HandleExecute
  <2>1. TypeEndpoint'
    <3> DEFINE e == Head(inbox).execution
    <3>1. e \in Executions
      BY <1>6, HeadOK DEF HandleExecute, Handling, CommandOK
    <3>2. /\ invocation' = [NoInvocation EXCEPT !.execution = e, !.phase = "accepted"]
          /\ frame' = [frame EXCEPT !.execution = e] /\ runs' = [runs EXCEPT ![e] = @ + 1]
          /\ closeAfter' = FALSE /\ UNCHANGED <<service, worker, claims, strays>>
      BY <1>6 DEF HandleExecute
    <3> HIDE DEF e
    <3>3. invocation' = [execution |-> e, phase |-> "accepted", stop |-> FALSE,
                         result |-> "none", cleaned |-> FALSE]
      BY <3>2 DEF NoInvocation
    <3>4. runs' \in [Executions -> Nat]
      BY <1>1, <3>1, <3>2
    <3>5. frame' \in [session : Sessions \cup {0}, execution : Executions \cup {0}]
      <4>1. frame \in [session : Sessions \cup {0}, execution : Executions \cup {0}]
        BY <1>1
      <4> QED BY <3>1, <3>2, <4>1
    <3>6. invocation' \in
            [execution : Executions \cup {0}, stop : BOOLEAN, cleaned : BOOLEAN,
             phase : {"none", "accepted", "running", "retiring", "ended"},
             result : {"none", "completed", "explicit_exit", "cancelled", "timed_out",
                       "outcome_unknown"}]
      BY <3>1, <3>3
    <3> QED BY <1>1, <3>2, <3>4, <3>5, <3>6
  <2>2. (~ connected' => inbox' = <<>>) => EndpointOK'
    BY <1>1, <1>6, HeadOK, BusyMeans, Zero DEF HandleExecute, NoInvocation, MayExecute, Busy, Handling, CommandOK
  <2> QED BY <2>1, <2>2
<1>7. CASE HandleCancel
  <2>1. TypeEndpoint'
    BY <1>1, <1>7, BusyMeans DEF HandleCancel, NoInvocation, MayCancel, Busy, Handling
  <2>2. (~ connected' => inbox' = <<>>) => EndpointOK'
    BY <1>1, <1>7, BusyMeans, Zero DEF HandleCancel, NoInvocation, MayCancel, Busy, Handling
  <2> QED BY <2>1, <2>2
<1>8. CASE ClaimAndStart
  <2>1. TypeEndpoint'
    BY <1>1, <1>8 DEF ClaimAndStart, network, NoInvocation
  <2>2. (~ connected' => inbox' = <<>>) => EndpointOK'
    BY <1>1, <1>8, Zero DEF ClaimAndStart, network, NoInvocation
  <2> QED BY <2>1, <2>2
<1>9. CASE Complete
  <2>1. TypeEndpoint'
    <3>1. PICK o \in Outcome :
            invocation' = [invocation EXCEPT !.result = o.result, !.cleaned = o.cleaned,
              !.phase = IF o.result \in {"completed", "outcome_unknown"} THEN "ended"
                        ELSE "retiring"]
      BY <1>9 DEF Complete
    <3>2. /\ o.result \in {"completed", "explicit_exit", "outcome_unknown", "timed_out", "cancelled"}
          /\ o.cleaned \in BOOLEAN
      BY DEF Outcome
    <3>3. UNCHANGED <<service, worker, frame, closeAfter, claims, runs>>
      BY <1>9 DEF Complete
    <3> QED BY <1>1, <3>1, <3>2, <3>3
  <2>2. (~ connected' => inbox' = <<>>) => EndpointOK'
    <3>1. PICK o \in Outcome :
            invocation' = [invocation EXCEPT !.result = o.result, !.cleaned = o.cleaned,
              !.phase = IF o.result \in {"completed", "outcome_unknown"} THEN "ended"
                        ELSE "retiring"]
      BY <1>9 DEF Complete
    <3>2. /\ o.result \in {"completed", "explicit_exit", "outcome_unknown", "timed_out", "cancelled"}
          /\ o.cleaned \in BOOLEAN
      BY DEF Outcome
    <3>3. UNCHANGED <<service, worker, frame, claims, runs, connected, inbox>>
      BY <1>9 DEF Complete, network
    <3>4. invocation.phase = "running" /\ service = "running"
      BY <1>9 DEF Complete
    <3>5. /\ invocation'.execution = invocation.execution /\ invocation'.result = o.result
          /\ invocation'.phase = IF o.result \in {"completed", "outcome_unknown"} THEN "ended"
                                 ELSE "retiring"
      BY <1>1, <3>1
    <3> QED BY <1>1, <3>2, <3>3, <3>4, <3>5
  <2> QED BY <2>1, <2>2
<1>10. CASE RecordRetirement
  <2>1. TypeEndpoint'
    BY <1>1, <1>10 DEF RecordRetirement, network, NoInvocation
  <2>2. (~ connected' => inbox' = <<>>) => EndpointOK'
    BY <1>1, <1>10, Zero DEF RecordRetirement, network, NoInvocation
  <2> QED BY <2>1, <2>2
<1>11. CASE FinalizeCompletedInvocation
  <2>1. TypeEndpoint'
    <3>1. /\ invocation' = NoInvocation /\ UNCHANGED <<service, claims, runs>>
          /\ \/ worker' = 0 /\ frame' = NoFrame /\ closeAfter' = FALSE
             \/ frame' = [frame EXCEPT !.execution = 0] /\ UNCHANGED <<worker, closeAfter>>
      BY <1>11 DEF FinalizeCompletedInvocation, Dropped
    <3>2. frame' \in [session : Sessions \cup {0}, execution : Executions \cup {0}]
      BY <1>1, <3>1 DEF NoFrame
    <3> QED BY <1>1, <3>1, <3>2 DEF NoInvocation
  <2>2. (~ connected' => inbox' = <<>>) => EndpointOK'
    BY <1>1, <1>11, Zero DEF FinalizeCompletedInvocation, network, NoInvocation, Dropped, NoFrame
  <2> QED BY <2>1, <2>2
<1>12. CASE ExpireSession
  <2>1. TypeEndpoint'
    BY <1>1, <1>12 DEF ExpireSession, network, NoInvocation, Dropped, NoFrame, Busy
  <2>2. (~ connected' => inbox' = <<>>) => EndpointOK'
    BY <1>1, <1>12, Zero DEF ExpireSession, network, NoInvocation, Dropped, NoFrame, Busy
  <2> QED BY <2>1, <2>2
<1>13. CASE Connect
  <2>1. TypeEndpoint'
    BY <1>1, <1>13 DEF Connect, SnapshotSession, SnapshotExecution
  <2>2. (~ connected' => inbox' = <<>>) => EndpointOK'
    BY <1>1, <1>13, Zero DEF Connect, SnapshotSession, SnapshotExecution
  <2> QED BY <2>1, <2>2
<1>14. CASE RestartService
  <2>1. TypeEndpoint'
    BY <1>1, <1>14 DEF RestartService, network, NoInvocation, NoFrame
  <2>2. (~ connected' => inbox' = <<>>) => EndpointOK'
    BY <1>1, <1>14, Zero DEF RestartService, network, NoInvocation, NoFrame
  <2> QED BY <2>1, <2>2
<1> QED BY <1>2, <1>3, <1>4, <1>5, <1>6, <1>7, <1>8, <1>9, <1>10, <1>11, <1>12, <1>13, <1>14 DEF EndpointStep

LEMMA LedgerAndEndpointStep ==
  ASSUME TypeOK, Shape, [Next]_vars
  PROVE  TypeEndpoint' /\ EndpointOK' /\ TypeLedger' /\ RecordsOK'
<1>1. /\ TypeEndpoint /\ EndpointOK /\ TypeRows /\ TypeLedger /\ RecordsOK /\ RowsExist
      /\ TasksHaveRows
  BY TypeParts DEF Shape
<1>2. ~ connected' => inbox' = <<>>
  BY ChannelStep
<1>3. CASE EndpointStep /\ UNCHANGED <<tables, tasks>>
  <2>1. ackDue' \in BOOLEAN
    BY <1>1, <1>3 DEF EndpointStep, TypeLedger, HandleAck, HandleOpen, HandleCloseIdle,
       HandleCloseBusy, HandleExecute, HandleCancel, ClaimAndStart, Complete, RecordRetirement,
       FinalizeCompletedInvocation, ExpireSession, Connect, RestartService, ledger
  <2>2. TypeLedger' /\ RecordsOK'
    BY <1>1, <1>3, <2>1, EndpointLedgerMoves, LedgerMoveKeeps
  <2> QED BY <1>2, <1>3, <2>2, EndpointStepKeeps
<1>4. \A e \in Executions :
        /\ of[e] # 0 => of'[e] = of[e]
        /\ e \in executionRequested => e \in executionRequested'
  BY <1>1, RowsStay DEF RowsExist
<1>5. ASSUME UNCHANGED <<frame, worker, invocation, claims, runs, service, closeAfter>>,
             strays' \in {strays, {}}, ~ Connect
      PROVE  TypeEndpoint' /\ EndpointOK'
  <2>1. TypeEndpoint'
    BY <1>1, <1>5 DEF TypeEndpoint
  <2>2. connected' => connected
    BY <1>5, ConnectedStep
  <2>3. invocation.phase # "none" => of'[invocation.execution] = of[invocation.execution]
    BY <1>1, <1>4, Zero DEF EndpointOK, TypeEndpoint
  <2>4. \A e \in Executions : runs'[e] # 0 => e \in executionRequested'
    BY <1>1, <1>4, <1>5 DEF EndpointOK
  <2> QED BY <1>1, <1>2, <1>5, <2>1, <2>2, <2>3, <2>4 DEF EndpointOK
<1>6. CASE Connect
  BY <1>2, <1>3, <1>6 DEF EndpointStep, Connect
<1>7. CASE RowsMove /\ UNCHANGED <<ledger, runtime>> /\ ~ Connect
  <2>1. TypeLedger' /\ RecordsOK'
    BY <1>1, <1>7 DEF TypeLedger, RecordsOK, ledger
  <2> QED BY <1>5, <1>7, <2>1 DEF runtime
<1>8. ASSUME NEW n \in 0 .. Len(pending), Ingest(n), ~ Connect
      PROVE  TypeEndpoint' /\ EndpointOK' /\ TypeLedger' /\ RecordsOK'
  <2>1. UNCHANGED runtime /\ ackDue' = TRUE /\ pending' = SubSeq(pending, n + 1, Len(pending))
    BY <1>8 DEF Ingest
  <2>2. pending \in Seq(LedgerRecord) /\ Len(pending) \in Nat /\ n \in Nat
    BY <1>1 DEF TypeLedger
  <2>3. pending' \in Seq(LedgerRecord)
    BY <2>1, <2>2
  <2>4. RecordsOK'
    <3>1. Len(pending') = Len(pending) - n /\ \A i \in 1 .. Len(pending') : pending'[i] = pending[n + i]
      BY <1>8, IngestPending
    <3>2. ASSUME NEW i \in 1 .. Len(pending') PROVE RecordOK(pending[i])'
      <4>1. n + i \in 1 .. Len(pending)
        BY <2>2, <3>1
      <4> QED BY <1>1, <3>1, <4>1 DEF RecordsOK, RecordOK
    <3> QED BY <3>2 DEF RecordsOK
  <2> QED BY <1>5, <1>8, <2>1, <2>3, <2>4 DEF TypeLedger, runtime
<1>9. CASE RowsMove /\ CrashService
  <2>1. ~ connected' /\ inbox' = <<>> /\ UNCHANGED <<frame, worker, invocation, claims, runs, closeAfter>>
        /\ service' = "stopped" /\ strays' = {} /\ UNCHANGED <<pending, ackDue>>
    BY <1>9 DEF CrashService, ChannelEnds, ledger
  <2>2. invocation.phase # "none" => of'[invocation.execution] = of[invocation.execution]
    BY <1>1, <1>4, Zero DEF EndpointOK, TypeEndpoint
  <2>3. \A e \in Executions : runs'[e] # 0 => e \in executionRequested'
    BY <1>1, <1>4, <2>1 DEF EndpointOK
  <2>4. TypeEndpoint' /\ EndpointOK'
    BY <1>1, <2>1, <2>2, <2>3 DEF TypeEndpoint, EndpointOK
  <2> QED BY <1>1, <2>1, <2>4 DEF TypeLedger, RecordsOK
<1> QED BY <1>1, <1>3, <1>6, <1>7, <1>8, <1>9, StepKinds, TypeParts DEF Shape

LEMMA ShapeInit == Init => TypeOK /\ Shape
<1> SUFFICES ASSUME Init PROVE TypeOK /\ Shape
  OBVIOUS
<1>1. TypeRows
  BY Literals DEF Init, TypeRows
<1>2. TypeTasks /\ TypeBudget /\ TypeChannel
  <2>1. TypeTasks
    BY DEF Init, TypeTasks
  <2>2. TypeBudget
    BY InvestigationAssumption DEF Init, TypeBudget
  <2>3. TypeChannel
    <3>1. connected \in BOOLEAN /\ inbox = <<>>
      BY DEF Init
    <3> QED BY <3>1 DEF TypeChannel
  <2> QED BY <2>1, <2>2, <2>3
<1>3. TypeEndpoint /\ TypeLedger
  <2>1. TypeEndpoint
    BY DEF Init, TypeEndpoint, NoFrame, NoInvocation
  <2>2. TypeLedger
    <3>1. ackDue \in BOOLEAN /\ pending = <<>>
      BY DEF Init
    <3> QED BY <3>1 DEF TypeLedger
  <2> QED BY <2>1, <2>2
<1>4. RowsExist /\ TasksHaveRows /\ RevocationOK
  BY DEF Init, RowsExist, TasksHaveRows, RevocationOK
<1>5. CommandsOK /\ RecordsOK
  BY DEF Init, CommandsOK, RecordsOK
<1>6. EndpointOK
  BY DEF Init, EndpointOK, NoInvocation, NoFrame
<1> QED BY <1>1, <1>2, <1>3, <1>4, <1>5, <1>6, TypeParts DEF Shape

LEMMA ShapeStep ==
  ASSUME TypeOK, Shape, [Next]_vars
  PROVE  TypeOK' /\ Shape'
<1>1. TypeBudget'
  BY BudgetStep, TypeParts
<1>2. (TypeRows /\ TypeTasks /\ TypeBudget /\ TypeChannel /\ TypeEndpoint /\ TypeLedger)' => TypeOK'
  BY TypeParts, PTL
<1> QED BY <1>1, <1>2, RowsStep, TasksStep, TaskRowsStep, ChannelStep, LedgerAndEndpointStep
        DEF Shape

LEMMA ShapeHolds == Spec => [](TypeOK /\ Shape)
<1>1. (TypeOK /\ Shape) /\ [Next]_vars => (TypeOK /\ Shape)'
  BY ShapeStep
<1> QED BY <1>1, ShapeInit, PTL DEF Spec

\* Every variable keeps its type, whatever requests, failures and restarts happen
\* (the tables of database.py, the tasks of app.py, the runtime of AgentRuntime.cs).
THEOREM TypeCorrect == Spec => []TypeOK
BY ShapeHolds, PTL

-----------------------------------------------------------------------------
(* Invariants.                                                             *)

\* Once the endpoint tells how an execution ended it holds its claim and is over.
FinishedInv ==
  \A e \in Executions :
    execution[e] \in Reported \/ (\E i \in 1 .. Len(pending) : Finishes(pending[i], e)) =>
      /\ e \in claims
      /\ ~ (invocation.phase \in {"accepted", "running"} /\ invocation.execution = e)

\* While no submission was repeated, one that is still to be routed was not
\* dispatched, and one that failed to start never was.
FirstSubmissionInv ==
  /\ budget["retry"] <= Budget["retry"]
  /\ budget["retry"] = Budget["retry"] =>
       \A e \in Executions :
         /\ submission[e] # "none" => executeTask[e] = "none" /\ e \notin executionRequested
         /\ execution[e] = "failed_to_start" => e \notin executionRequested

\* One live session, and what revocation knows of it at each of its steps.
RevocationInv ==
  /\ \A s, t \in Sessions : session[s] \in Live /\ session[t] \in Live => s = t
  /\ \A s \in Sessions :
       /\ closing[s] # "none" => session[s] \notin {"none", "starting"}
       /\ revocation.step \in {"disconnect", "done"} /\ session[s] \in Usable => closing[s] # "none"
       /\ revocation.step \in {"close", "waiting"} /\ session[s] \in Live =>
            s = revocation.session
       /\ revocation.step = "close" /\ session[s] \in Usable =>
            session[s] = "active" \/ closing[s] # "none"

\* The session of the endpoint's worker is open for the control plane, or opens
\* with a record that is on its way, and nothing on its way ends it.
OpenInv ==
  SnapshotSession # 0 =>
    \/ \E i \in 1 .. Len(pending) :
         /\ Starts(pending[i], SnapshotSession)
         /\ \A j \in i + 1 .. Len(pending) : ~ Stops(pending[j], SnapshotSession)
    \/ /\ session[SnapshotSession] \in {"active", "closing", "cleanup_unknown"}
       /\ \A j \in 1 .. Len(pending) : ~ Stops(pending[j], SnapshotSession)

Over == {"lost", "closed", "failed"}

\* An execution that was accepted without a claim is in the worker, or its session
\* is over, or the record that ends it is on its way.
AcceptedInv ==
  \A e \in Executions :
    /\ runs[e] <= 1
    /\ runs[e] = 1 /\ e \notin claims =>
         \/ invocation.phase = "accepted" /\ invocation.execution = e
         \/ session[of[e]] \in Over
         \/ \E i \in 1 .. Len(pending) : Confirms(pending[i], of[e])

-----------------------------------------------------------------------------
(* What the steps of the endpoint do to its worker, its claims and the     *)
(* ledger, each with the record r it adds.                                 *)

SameInvocation ==
  /\ invocation'.execution = invocation.execution /\ invocation'.phase = invocation.phase
  /\ invocation'.result = invocation.result /\ invocation'.cleaned = invocation.cleaned

Stays == SameInvocation /\ UNCHANGED <<service, worker, claims, strays, runs>>

Opens(r) ==
  /\ Handling("open_session") /\ worker' = Head(inbox).session
  /\ pending = <<>> /\ ~ ackDue /\ worker = 0 /\ invocation.phase = "none"
  /\ r.type = "session_started" /\ r.session = worker' /\ worker' \in Sessions
  /\ SameInvocation /\ UNCHANGED <<service, claims, strays, runs>>

RetiresWorker(r) ==
  /\ service = "running" /\ worker \in Sessions
  /\ \/ invocation.phase = "none"
     \/ invocation.phase = "ended" /\ invocation.result = "completed"
  /\ worker' = 0 /\ invocation' = NoInvocation
  /\ r.session = worker
  /\ \/ r.type = "session_closed" /\ UNCHANGED strays
     \/ r.type = "worker_stopped" /\ r.note = "unconfirmed" /\ strays' = strays \cup {worker}
  /\ UNCHANGED <<service, claims, runs>>

AcceptsExecution(r) ==
  /\ service = "running" /\ invocation.phase = "none" /\ worker \in Sessions /\ pending = <<>>
  /\ r.type = "execution_accepted" /\ r.session = worker /\ r.execution \in Executions \ claims
  /\ of[r.execution] = worker /\ r.execution \in executionRequested
  /\ invocation'.execution = r.execution /\ invocation'.phase = "accepted"
  /\ runs' = [runs EXCEPT ![r.execution] = @ + 1]
  /\ UNCHANGED <<service, worker, claims, strays>>

\* An execution is in the worker, and the record is about it.
InWorker(r) ==
  /\ service = "running" /\ worker \in Sessions /\ invocation.execution \in Executions
  /\ r.session = worker /\ r.execution = invocation.execution

ClaimsExecution(r) ==
  /\ InWorker(r) /\ invocation.phase = "accepted" /\ r.type = "execution_started"
  /\ invocation'.execution = invocation.execution /\ invocation'.phase = "running"
  /\ claims' = claims \cup {invocation.execution}
  /\ UNCHANGED <<service, worker, strays, runs>>

CompletesExecution(r) ==
  /\ InWorker(r) /\ invocation.phase = "running" /\ invocation.execution \in claims
  /\ invocation'.execution = invocation.execution
  /\ \/ /\ r.type = "execution_finished"
        /\ \/ invocation'.phase = "ended" /\ invocation'.result = "completed"
           \/ invocation'.phase = "retiring" /\ invocation'.result # "completed"
     \/ /\ r.type = "worker_stopped" /\ r.note = Confirmation(invocation'.cleaned)
        /\ invocation'.phase = "ended" /\ invocation'.result # "completed"
  /\ \/ invocation'.cleaned = TRUE /\ UNCHANGED strays
     \/ /\ invocation'.cleaned = FALSE /\ strays' = strays \cup {worker}
        /\ invocation'.result # "completed"
  /\ UNCHANGED <<service, worker, claims, runs>>

RecordsRetirement(r) ==
  /\ InWorker(r) /\ invocation.phase = "retiring" /\ invocation.result # "completed"
  /\ r.type = "worker_stopped" /\ r.note = Confirmation(invocation.cleaned)
  /\ invocation'.execution = invocation.execution /\ invocation'.phase = "ended"
  /\ invocation'.result = invocation.result /\ invocation'.cleaned = invocation.cleaned
  /\ UNCHANGED <<service, worker, claims, strays, runs>>

KeepsWorker ==
  /\ service = "running" /\ invocation.phase = "ended" /\ invocation.result = "completed"
  /\ invocation' = NoInvocation
  /\ UNCHANGED <<service, worker, claims, strays, runs>>

DropsWorker ==
  /\ service = "running" /\ invocation.phase = "ended" /\ invocation.result # "completed"
  /\ worker' = 0 /\ invocation' = NoInvocation
  /\ UNCHANGED <<service, claims, strays, runs>>

RestartsEmpty ==
  /\ service = "stopped" /\ service' = "running"
  /\ worker' = 0 /\ invocation' = NoInvocation
  /\ strays = {} /\ UNCHANGED <<claims, strays, runs>>

EndpointEffect ==
  \/ UNCHANGED pending /\ Stays
  \/ UNCHANGED pending /\ KeepsWorker
  \/ UNCHANGED pending /\ DropsWorker
  \/ UNCHANGED pending /\ RestartsEmpty /\ SnapshotSession = 0
  \/ \E r \in LedgerRecord :
       /\ Recorded(r)
       /\ \/ Opens(r) \/ RetiresWorker(r) \/ AcceptsExecution(r)
          \/ Stays /\ r.type = "cancellation_requested"
          \/ ClaimsExecution(r) \/ CompletesExecution(r) \/ RecordsRetirement(r)
          \/ /\ DropsWorker /\ r.type = "session_closed" /\ r.session = worker
             /\ invocation.cleaned = TRUE
          \/ /\ RestartsEmpty /\ SnapshotSession # 0
             /\ r.type = "worker_stopped" /\ r.note = "confirmed"
             /\ r.session = SnapshotSession /\ r.execution = SnapshotExecution

LEMMA NothingRecorded ==
  ASSUME TypeOK, pending' = pending \o <<>>
  PROVE  pending' = pending
BY DEF TypeOK

LEMMA RetireRecords ==
  ASSUME NEW s \in Sessions, NEW e \in Executions \cup {0}, Retire(s, e)
  PROVE  \E r \in LedgerRecord :
           /\ Recorded(r) /\ r.session = s
           /\ \/ r.type = "session_closed" /\ UNCHANGED strays
              \/ r.type = "worker_stopped" /\ r.note = "unconfirmed" /\ strays' = strays \cup {s}
<1>1. PICK cleaned \in BOOLEAN :
        /\ Record(IF cleaned THEN <<Entry("session_closed", s, 0, "none")>>
                  ELSE <<Entry("worker_stopped", s, e, "unconfirmed")>>)
        /\ strays' = IF cleaned THEN strays ELSE strays \cup {s}
  BY DEF Retire
<1>2. CASE cleaned
  <2> DEFINE r == Entry("session_closed", s, 0, "none")
  <2>1. r \in LedgerRecord /\ Recorded(r)
    BY <1>1, <1>2, EntryRecorded, RecordNames DEF Recorded, Record
  <2>2. r.session = s /\ r.type = "session_closed"
    BY DEF Entry
  <2> QED BY <1>1, <1>2, <2>1, <2>2
<1>3. CASE ~ cleaned
  <2> DEFINE r == Entry("worker_stopped", s, e, "unconfirmed")
  <2>1. r \in LedgerRecord /\ Recorded(r)
    BY <1>1, <1>3, EntryRecorded, RecordNames DEF Recorded, Record
  <2>2. r.session = s /\ r.type = "worker_stopped" /\ r.note = "unconfirmed"
    BY DEF Entry
  <2> QED BY <1>1, <1>3, <2>1, <2>2
<1> QED BY <1>2, <1>3

LEMMA EndpointEffects ==
  ASSUME TypeOK, Shape, EndpointStep
  PROVE  EndpointEffect
<1>1. /\ TypeEndpoint /\ EndpointOK /\ TypeRows /\ TasksHaveRows
      /\ worker \in Sessions \cup {0} /\ invocation.execution \in Executions \cup {0}
      /\ frame.session \in Sessions \cup {0} /\ 0 \in Executions \cup {0}
  BY TypeParts DEF Shape, TypeEndpoint
<1>2. CASE HandleAck \/ HandleCloseBusy \/ Connect
  BY <1>1, <1>2 DEF HandleAck, HandleCloseBusy, Connect, ledger, runtime, EndpointEffect, Stays,
                    SameInvocation, TypeEndpoint
<1>3. CASE HandleOpen
  <2> DEFINE s == Head(inbox).session
             r == Entry("session_started", s, 0, "none")
  <2>1. s \in Sessions
    BY <1>3, HeadOK DEF HandleOpen, CommandOK, Handling
  <2>2. r \in LedgerRecord /\ Recorded(r) /\ r.type = "session_started" /\ r.session = s
    BY <1>1, <1>3, <2>1, EntryRecorded, RecordNames DEF HandleOpen, Record, Recorded, Entry
  <2>3. Opens(r)
    BY <1>1, <1>3, <2>1, <2>2, BusyMeans
       DEF HandleOpen, MayOpen, HasUnacknowledgedRecords, Opens, SameInvocation
  <2> QED BY <2>2, <2>3 DEF EndpointEffect
<1>4. CASE HandleCloseIdle \/ ExpireSession
  <2>1. /\ frame.session \in Sessions /\ ~ Busy /\ connected /\ service = "running"
        /\ Retire(frame.session, 0) /\ worker' = 0 /\ UNCHANGED <<service, invocation, claims, runs>>
    BY <1>1, <1>4, HeadOK DEF HandleCloseIdle, ExpireSession, Dropped, CommandOK, Handling
  <2>2. invocation.phase = "none" /\ invocation = NoInvocation /\ frame.session = worker
    BY <1>1, <2>1, BusyMeans DEF EndpointOK
  <2>3. PICK r \in LedgerRecord :
          /\ Recorded(r) /\ r.session = worker
          /\ \/ r.type = "session_closed" /\ UNCHANGED strays
             \/ r.type = "worker_stopped" /\ r.note = "unconfirmed" /\ strays' = strays \cup {worker}
    BY <1>1, <2>1, <2>2, RetireRecords
  <2>4. RetiresWorker(r)
    BY <2>1, <2>2, <2>3 DEF RetiresWorker
  <2> QED BY <2>3, <2>4 DEF EndpointEffect
<1>5. CASE HandleExecute
  <2> DEFINE e == Head(inbox).execution
             r == Entry("execution_accepted", frame.session, e, "none")
  <2>1. /\ e \in Executions /\ of[e] = frame.session /\ frame.session \in Sessions
        /\ e \in executionRequested
    BY <1>5, HeadOK DEF HandleExecute, MayExecute, CommandOK, Handling
  <2>2. /\ r \in LedgerRecord /\ Recorded(r) /\ r.type = "execution_accepted"
        /\ r.session = frame.session /\ r.execution = e
    BY <1>1, <1>5, <2>1, EntryRecorded, RecordNames DEF HandleExecute, Record, Recorded, Entry
  <2>3. invocation.phase = "none" /\ frame.session = worker /\ service = "running"
    BY <1>1, <1>5, <2>1, BusyMeans, Zero DEF HandleExecute, MayExecute, Handling, EndpointOK
  <2>4. pending = <<>> /\ e \notin claims
    BY <1>5 DEF HandleExecute, MayExecute, HasUnacknowledgedRecords
  <2>5. /\ invocation' = [NoInvocation EXCEPT !.execution = e, !.phase = "accepted"]
        /\ runs' = [runs EXCEPT ![e] = @ + 1] /\ UNCHANGED <<service, worker, claims, strays>>
    BY <1>5 DEF HandleExecute
  <2> HIDE DEF e, r
  <2>6. invocation'.execution = e /\ invocation'.phase = "accepted"
    BY <2>5 DEF NoInvocation
  <2>7. AcceptsExecution(r)
    BY <1>1, <2>1, <2>2, <2>3, <2>4, <2>5, <2>6 DEF AcceptsExecution
  <2> QED BY <2>2, <2>7 DEF EndpointEffect
<1>6. CASE HandleCancel
  <2> DEFINE r == Entry("cancellation_requested", frame.session, frame.execution, "none")
  <2>1. frame.session \in Sessions /\ frame.execution \in Executions \cup {0}
    BY <1>1, <1>6, HeadOK DEF HandleCancel, MayCancel, CommandOK, Handling, TypeEndpoint
  <2>2. r \in LedgerRecord /\ Recorded(r) /\ r.type = "cancellation_requested"
    BY <1>1, <1>6, <2>1, EntryRecorded, RecordNames DEF HandleCancel, Record, Recorded, Entry
  <2>3. Stays
    BY <1>1, <1>6 DEF HandleCancel, Stays, SameInvocation, TypeEndpoint
  <2> QED BY <2>2, <2>3 DEF EndpointEffect
<1>7. ASSUME invocation.phase # "none", service = "running"
      PROVE  worker \in Sessions /\ invocation.execution \in Executions
  BY <1>1, <1>7 DEF EndpointOK
<1>8. CASE ClaimAndStart
  <2> DEFINE r == Entry("execution_started", worker, invocation.execution, "none")
  <2>1. worker \in Sessions /\ invocation.execution \in Executions /\ service = "running"
    BY <1>7, <1>8 DEF ClaimAndStart
  <2>2. /\ r \in LedgerRecord /\ Recorded(r) /\ r.type = "execution_started"
        /\ r.session = worker /\ r.execution = invocation.execution
    BY <1>1, <1>8, <2>1, EntryRecorded, RecordNames DEF ClaimAndStart, Record, Recorded, Entry
  <2> HIDE DEF r
  <2>3. ClaimsExecution(r)
    BY <1>1, <1>8, <2>1, <2>2 DEF ClaimAndStart, ClaimsExecution, InWorker, TypeEndpoint
  <2> QED BY <2>2, <2>3 DEF EndpointEffect
<1>9. CASE Complete
  <2>1. PICK o \in Outcome :
          /\ invocation' = [invocation EXCEPT !.result = o.result, !.cleaned = o.cleaned,
               !.phase = IF o.result \in {"completed", "outcome_unknown"} THEN "ended"
                         ELSE "retiring"]
          /\ Record(<<IF o.result = "outcome_unknown"
                      THEN Entry("worker_stopped", worker, invocation.execution,
                                 Confirmation(o.cleaned))
                      ELSE Entry("execution_finished", worker, invocation.execution,
                                 IF o.result = "explicit_exit" THEN "completed"
                                 ELSE o.result)>>)
          /\ strays' = IF o.cleaned THEN strays ELSE strays \cup {worker}
    BY <1>9 DEF Complete
  <2>2. /\ o.result \in {"completed", "explicit_exit", "outcome_unknown", "timed_out", "cancelled"}
        /\ o.cleaned \in BOOLEAN
        /\ o.result = "completed" => o.cleaned = TRUE
    BY DEF Outcome
  <2>3. /\ invocation'.execution = invocation.execution /\ invocation'.result = o.result
        /\ invocation'.cleaned = o.cleaned
        /\ invocation'.phase = IF o.result \in {"completed", "outcome_unknown"} THEN "ended"
                               ELSE "retiring"
    BY <1>1, <2>1 DEF TypeEndpoint
  <2>4. /\ invocation.phase = "running" /\ service = "running"
        /\ UNCHANGED <<service, worker, claims, runs>>
    BY <1>9 DEF Complete
  <2>5. /\ worker \in Sessions /\ invocation.execution \in Executions
        /\ invocation.execution \in claims
    BY <1>1, <1>7, <2>4 DEF EndpointOK
  <2>6. \/ invocation'.cleaned = TRUE /\ UNCHANGED strays
        \/ /\ invocation'.cleaned = FALSE /\ strays' = strays \cup {worker}
           /\ invocation'.result # "completed"
    BY <2>1, <2>2, <2>3
  <2>7. CASE o.result = "outcome_unknown"
    <3> DEFINE note == Confirmation(o.cleaned)
               r == Entry("worker_stopped", worker, invocation.execution, note)
    <3>1. pending' = pending \o <<r>> /\ note \in {"confirmed", "unconfirmed"}
      BY <2>1, <2>7 DEF Record, Confirmation
    <3> HIDE DEF note
    <3>2. /\ r \in LedgerRecord /\ Recorded(r) /\ r.type = "worker_stopped" /\ r.session = worker
          /\ r.execution = invocation.execution /\ r.note = note
      BY <2>5, <3>1, EntryRecorded, RecordNames DEF Recorded, Entry
    <3> HIDE DEF r
    <3>3. CompletesExecution(r)
      BY <2>3, <2>4, <2>5, <2>6, <2>7, <3>2 DEF CompletesExecution, InWorker, note
    <3> QED BY <3>2, <3>3 DEF EndpointEffect
  <2>8. CASE o.result # "outcome_unknown"
    <3> DEFINE note == IF o.result = "explicit_exit" THEN "completed" ELSE o.result
               r == Entry("execution_finished", worker, invocation.execution, note)
    <3>1. pending' = pending \o <<r>> /\ note \in Reported
      BY <2>1, <2>2, <2>8, RecordNames DEF Record
    <3> HIDE DEF note
    <3>2. /\ r \in LedgerRecord /\ Recorded(r) /\ r.type = "execution_finished"
          /\ r.session = worker /\ r.execution = invocation.execution
      BY <2>5, <3>1, EntryRecorded, RecordNames DEF Recorded, Entry
    <3> HIDE DEF r
    <3>3. CompletesExecution(r)
      BY <2>2, <2>3, <2>4, <2>5, <2>6, <2>8, <3>2 DEF CompletesExecution, InWorker
    <3> QED BY <3>2, <3>3 DEF EndpointEffect
  <2> QED BY <2>7, <2>8
<1>10. CASE RecordRetirement
  <2> DEFINE note == Confirmation(invocation.cleaned)
             r == Entry("worker_stopped", worker, invocation.execution, note)
  <2>1. /\ worker \in Sessions /\ invocation.execution \in Executions /\ service = "running"
        /\ invocation.phase = "retiring" /\ invocation.result # "completed"
    BY <1>1, <1>7, <1>10 DEF RecordRetirement, EndpointOK
  <2>2. pending' = pending \o <<r>> /\ note \in {"confirmed", "unconfirmed"}
    BY <1>10 DEF RecordRetirement, Record, Confirmation
  <2> HIDE DEF note
  <2>3. /\ r \in LedgerRecord /\ Recorded(r) /\ r.type = "worker_stopped" /\ r.session = worker
        /\ r.execution = invocation.execution /\ r.note = note
    BY <2>1, <2>2, EntryRecorded, RecordNames DEF Recorded, Entry
  <2> HIDE DEF r
  <2>4. RecordsRetirement(r)
    BY <1>1, <1>10, <2>1, <2>3
       DEF RecordRetirement, RecordsRetirement, InWorker, TypeEndpoint, note
  <2> QED BY <2>3, <2>4 DEF EndpointEffect
<1>11. CASE FinalizeCompletedInvocation
  <2>1. /\ service = "running" /\ invocation.phase = "ended" /\ invocation' = NoInvocation
        /\ UNCHANGED <<service, claims, runs>> /\ worker \in Sessions
    BY <1>7, <1>11 DEF FinalizeCompletedInvocation
  <2>2. CASE invocation.result = "completed" /\ closeAfter
    <3>1. Retire(worker, invocation.execution) /\ worker' = 0
      BY <1>11, <2>2 DEF FinalizeCompletedInvocation, Dropped
    <3>2. PICK r \in LedgerRecord :
          /\ Recorded(r) /\ r.session = worker
          /\ \/ r.type = "session_closed" /\ UNCHANGED strays
             \/ r.type = "worker_stopped" /\ r.note = "unconfirmed" /\ strays' = strays \cup {worker}
      BY <1>1, <2>1, <3>1, RetireRecords
    <3>3. RetiresWorker(r)
      BY <2>1, <2>2, <3>1, <3>2 DEF RetiresWorker
    <3> QED BY <3>2, <3>3 DEF EndpointEffect
  <2>3. CASE invocation.result = "completed" /\ ~ closeAfter
    BY <1>11, <2>1, <2>3 DEF FinalizeCompletedInvocation, EndpointEffect, KeepsWorker
  <2>4. CASE invocation.result # "completed"
    <3>1. DropsWorker
      BY <1>11, <2>1, <2>4 DEF FinalizeCompletedInvocation, Dropped, DropsWorker
    <3>2. CASE invocation.result # "outcome_unknown" /\ closeAfter /\ invocation.cleaned
      <4> DEFINE r == Entry("session_closed", worker, 0, "none")
      <4>1. pending' = pending \o <<r>> /\ invocation.cleaned = TRUE
        BY <1>1, <1>11, <2>4, <3>2 DEF FinalizeCompletedInvocation, Record, TypeEndpoint
      <4>2. r \in LedgerRecord /\ Recorded(r) /\ r.type = "session_closed" /\ r.session = worker
        BY <1>1, <2>1, <4>1, EntryRecorded, RecordNames DEF Recorded, Entry
      <4> HIDE DEF r
      <4> QED BY <3>1, <4>1, <4>2 DEF EndpointEffect
    <3>3. CASE ~ (invocation.result # "outcome_unknown" /\ closeAfter /\ invocation.cleaned)
      <4>1. pending' = pending \o <<>>
        BY <1>11, <2>4, <3>3 DEF FinalizeCompletedInvocation, Record
      <4> QED BY <3>1, <4>1, NothingRecorded DEF EndpointEffect
    <3> QED BY <3>2, <3>3
  <2> QED BY <2>2, <2>3, <2>4
<1>12. CASE RestartService
  <2>1. RestartsEmpty
    BY <1>1, <1>12 DEF RestartService, RestartsEmpty, EndpointOK
  <2>2. CASE SnapshotSession = 0
    BY <1>12, <2>1, <2>2 DEF RestartService, EndpointEffect
  <2>3. CASE SnapshotSession # 0
    <3> DEFINE r == Entry("worker_stopped", SnapshotSession, SnapshotExecution, "confirmed")
    <3>1. SnapshotSession \in Sessions /\ SnapshotExecution \in Executions \cup {0}
      BY <1>1, <2>3 DEF SnapshotSession, SnapshotExecution
    <3>2. pending' = pending \o <<r>>
      BY <1>12, <2>3 DEF RestartService, TypeOK
    <3>3. /\ r \in LedgerRecord /\ Recorded(r) /\ r.type = "worker_stopped" /\ r.note = "confirmed"
          /\ r.session = SnapshotSession /\ r.execution = SnapshotExecution
      BY <1>1, <3>1, <3>2, EntryRecorded, RecordNames DEF Recorded, Entry
    <3> HIDE DEF r
    <3> QED BY <2>1, <2>3, <3>3 DEF EndpointEffect
  <2> QED BY <2>2, <2>3
<1> QED BY <1>2, <1>3, <1>4, <1>5, <1>6, <1>8, <1>9, <1>10, <1>11, <1>12 DEF EndpointStep

\* Every step, by what it does to the rows and to the endpoint.
LEMMA Effects ==
  ASSUME TypeOK, Shape, [Next]_vars
  PROVE  \/ RowsMove /\ UNCHANGED <<ledger, runtime>>
         \/ /\ RowsMove /\ service' = "stopped" /\ strays' = {}
            /\ UNCHANGED <<pending, worker, invocation, claims, runs>>
         \/ \E n \in 0 .. Len(pending) :
              Ingest(n) /\ UNCHANGED <<of, authorization, executionRequested, runtime>>
         \/ EndpointEffect /\ UNCHANGED <<tables, tasks>>
<1>1. CASE RowsMove /\ CrashService
  BY <1>1 DEF CrashService, ledger
<1>2. ASSUME NEW n \in 0 .. Len(pending), Ingest(n)
      PROVE  UNCHANGED <<of, authorization, executionRequested, runtime>>
  BY <1>2 DEF Ingest
<1>3. CASE EndpointStep /\ UNCHANGED <<tables, tasks>>
  BY <1>3, EndpointEffects
<1> QED BY <1>1, <1>2, <1>3, StepKinds, TypeParts DEF Shape

LEMMA AppendedRecord ==
  ASSUME TypeOK, NEW r, Recorded(r)
  PROVE  /\ Len(pending) \in Nat /\ Len(pending') = Len(pending) + 1
         /\ pending'[Len(pending) + 1] = r
         /\ \A i \in 1 .. Len(pending) : i \in 1 .. Len(pending') /\ pending'[i] = pending[i]
         /\ \A i \in 1 .. Len(pending') : i \in 1 .. Len(pending) \/ i = Len(pending) + 1
BY RecordOne, PendingLength DEF Recorded

LEMMA RemainingRecords ==
  ASSUME TypeOK, NEW n \in 0 .. Len(pending), Ingest(n)
  PROVE  /\ Len(pending) \in Nat /\ n \in Nat /\ Len(pending') = Len(pending) - n
         /\ \A i \in 1 .. Len(pending') :
              n + i \in n + 1 .. Len(pending) /\ pending'[i] = pending[n + i]
         /\ \A j \in n + 1 .. Len(pending) :
              j - n \in 1 .. Len(pending') /\ pending'[j - n] = pending[j]
<1>1. /\ Len(pending) \in Nat /\ n \in Nat /\ Len(pending') = Len(pending) - n
      /\ \A i \in 1 .. Len(pending') : pending'[i] = pending[n + i]
  BY PendingLength, IngestPending
<1>2. ASSUME NEW j \in n + 1 .. Len(pending)
      PROVE  j - n \in 1 .. Len(pending') /\ pending'[j - n] = pending[j]
  <2>1. j - n \in 1 .. Len(pending') /\ n + (j - n) = j
    BY <1>1
  <2> QED BY <1>1, <2>1
<1> QED BY <1>1, <1>2

-----------------------------------------------------------------------------
(* What is reported as finished has stopped.                               *)

\* The end of execution e was told, to the control plane or to the ledger.
Told(e) == execution[e] \in Reported \/ \E i \in 1 .. Len(pending) : Finishes(pending[i], e)

HasStopped(e) ==
  e \in claims /\ ~ (invocation.phase \in {"accepted", "running"} /\ invocation.execution = e)

LEMMA FinishedStep ==
  ASSUME TypeOK, Shape, FinishedInv, [Next]_vars
  PROVE  FinishedInv'
<1>1. RecordsOK /\ \A e \in Executions : Told(e) => HasStopped(e)
  BY DEF Shape, FinishedInv, Told, HasStopped
<1>2. SUFFICES ASSUME NEW e \in Executions, Told(e)' PROVE HasStopped(e)'
  BY DEF FinishedInv, Told, HasStopped
<1>3. CASE RowsMove /\ UNCHANGED <<pending, claims, invocation>>
  <2>1. execution'[e] \in Reported => execution[e] \in Reported
    BY <1>3 DEF RowsMove, ExecutionsMove, ControlExecution, Reported
  <2> QED BY <1>1, <1>2, <1>3, <2>1 DEF Told, HasStopped
<1>4. ASSUME NEW n \in 0 .. Len(pending), Ingest(n), UNCHANGED <<claims, invocation>>
      PROVE  HasStopped(e)'
  <2>1. Told(e)
    <3>1. CASE execution'[e] \in Reported
      <4>1. execution[e] \in Reported \/ \E i \in 1 .. n : Finishes(pending[i], e)
        BY <1>1, <1>4, <3>1, IngestExecution DEF ExecutionIngested
      <4> QED BY <4>1, PendingLength DEF Told
    <3>2. CASE execution'[e] \notin Reported
      <4>1. PICK i \in 1 .. Len(pending') : Finishes(pending'[i], e)
        BY <1>2, <3>2 DEF Told, Finishes
      <4>2. n + i \in 1 .. Len(pending) /\ Finishes(pending[n + i], e)
        BY <1>4, <4>1, RemainingRecords
      <4> QED BY <4>2 DEF Told
    <3> QED BY <3>1, <3>2
  <2> QED BY <1>1, <1>4, <2>1 DEF HasStopped
<1>5. CASE EndpointEffect /\ UNCHANGED tables
  <2>1. CASE UNCHANGED pending /\ (Stays \/ KeepsWorker \/ DropsWorker \/ RestartsEmpty)
    <3>1. Told(e)
      BY <1>2, <1>5, <2>1 DEF Told, tables
    <3> QED BY <1>1, <2>1, <3>1
            DEF HasStopped, Stays, SameInvocation, KeepsWorker, DropsWorker, RestartsEmpty,
                NoInvocation
  <2>2. ASSUME NEW r \in LedgerRecord, Recorded(r) PROVE Told(e) \/ Finishes(r, e)
    <3>1. CASE execution'[e] \in Reported
      BY <1>5, <3>1 DEF Told, tables
    <3>2. CASE execution'[e] \notin Reported
      <4>1. PICK i \in 1 .. Len(pending') : Finishes(pending'[i], e)
        BY <1>2, <3>2 DEF Told, Finishes
      <4> QED BY <2>2, <4>1, AppendedRecord DEF Told
    <3> QED BY <3>1, <3>2
  <2>3. ASSUME NEW r \in LedgerRecord, Recorded(r), CompletesExecution(r) PROVE HasStopped(e)'
    BY <1>1, <2>2, <2>3 DEF HasStopped, CompletesExecution, InWorker, Finishes
  <2>4. ASSUME NEW r \in LedgerRecord, Recorded(r), r.type # "execution_finished",
               \/ Opens(r) \/ RetiresWorker(r) \/ AcceptsExecution(r) \/ Stays
               \/ ClaimsExecution(r) \/ RecordsRetirement(r) \/ DropsWorker \/ RestartsEmpty
        PROVE  HasStopped(e)'
    <3>1. HasStopped(e)
      BY <1>1, <2>2, <2>4 DEF Finishes
    <3>2. CASE AcceptsExecution(r)
      BY <3>1, <3>2 DEF HasStopped, AcceptsExecution
    <3>3. CASE Opens(r) \/ Stays \/ RecordsRetirement(r)
      BY <3>1, <3>3 DEF HasStopped, Opens, Stays, SameInvocation, RecordsRetirement
    <3>4. CASE ClaimsExecution(r)
      BY <3>1, <3>4 DEF HasStopped, ClaimsExecution
    <3>5. CASE RetiresWorker(r) \/ DropsWorker \/ RestartsEmpty
      BY <3>1, <3>5 DEF HasStopped, RetiresWorker, DropsWorker, RestartsEmpty, NoInvocation
    <3> QED BY <2>4, <3>2, <3>3, <3>4, <3>5
  <2> QED BY <1>5, <2>1, <2>3, <2>4
          DEF EndpointEffect, Opens, RetiresWorker, AcceptsExecution, ClaimsExecution,
              RecordsRetirement
<1> QED BY <1>3, <1>4, <1>5, Effects DEF ledger, runtime

LEMMA FinishedHolds == Spec => []FinishedInv
<1>1. Init => FinishedInv
  BY DEF Init, FinishedInv, Reported
<1>2. TypeOK /\ Shape /\ FinishedInv /\ [Next]_vars => FinishedInv'
  BY FinishedStep
<1> QED BY <1>1, <1>2, ShapeHolds, PTL DEF Spec

\* An execution whose row says completed, timed_out or cancelled does not run in
\* the worker, for the record that reports its end is written after it ended and
\* its claim keeps it from being accepted again (WorkerProcess.cs, AgentRuntime.cs).
THEOREM FinishedStopped == Spec => []FinishedMeansStopped
<1>1. FinishedInv => FinishedMeansStopped
  BY DEF FinishedInv, FinishedMeansStopped, Running, Reported
<1> QED BY <1>1, FinishedHolds, PTL

-----------------------------------------------------------------------------
(* Outcomes are final.                                                     *)

LEMMA OutcomesStep ==
  ASSUME TypeOK, Shape, [Next]_vars
  PROVE  /\ \A e \in Executions : execution[e] \in Terminal => execution'[e] = execution[e]
         /\ \A s \in Sessions :
              /\ session[s] \in {"closed", "failed"} => session'[s] = session[s]
              /\ session[s] = "lost" => session'[s] \in {"lost", "closed"}
<1>1. CASE RowsMove
  BY <1>1 DEF RowsMove, SessionsMove, ExecutionsMove, ControlSession, ControlExecution,
              Terminal, Unfinished
<1>2. ASSUME NEW n \in 0 .. Len(pending), Ingest(n)
      PROVE  /\ \A e \in Executions : ExecutionMoves(execution[e], execution'[e])
             /\ \A s \in Sessions : SessionMoves(session[s], session'[s])
  BY <1>2, IngestSession, IngestExecution DEF Shape, SessionIngested, ExecutionIngested
<1>3. CASE \E n \in 0 .. Len(pending) : Ingest(n)
  BY <1>2, <1>3 DEF ExecutionMoves, SessionMoves, Terminal, Unfinished, Live
<1>4. CASE UNCHANGED tables
  BY <1>4 DEF tables
<1> QED BY <1>1, <1>3, <1>4, Effects

\* No request, no batch of records, no recovery and no revocation changes the
\* outcome of an execution or the end of a session, but for evidence that moves a
\* lost session to closed (the conditions of the updates in database.py).
THEOREM OutcomesFinal == Spec => OutcomesAreFinal
<1>1. (TypeOK /\ Shape) /\ [Next]_vars =>
        [/\ \A e \in Executions : execution[e] \in Terminal => execution'[e] = execution[e]
         /\ \A s \in Sessions :
              /\ session[s] \in {"closed", "failed"} => session'[s] = session[s]
              /\ session[s] = "lost" => session'[s] \in {"lost", "closed"}]_vars
  BY OutcomesStep
<1> QED BY <1>1, ShapeHolds, PTL DEF Spec, OutcomesAreFinal

-----------------------------------------------------------------------------
(* What is called failed_to_start was not accepted.                        *)

FirstSubmission(e) ==
  /\ submission[e] # "none" => executeTask[e] = "none" /\ e \notin executionRequested
  /\ execution[e] = "failed_to_start" => e \notin executionRequested

\* The end of a channel fails no execution.
LEMMA ChannelEndsFailsNone ==
  ASSUME TypeRows, ChannelEnds, NEW e \in Executions
  PROVE  /\ execution'[e] = "failed_to_start" => execution[e] = "failed_to_start"
         /\ UNCHANGED executionRequested
BY DEF TypeRows, ChannelEnds, ExecutionsUnknownIn

LEMMA FirstRequestsStep ==
  ASSUME TypeOK, Shape, NEW e \in Executions, FirstSubmission(e), NEW f \in Executions,
         \/ \E s \in Sessions : SubmitExecution(f, s)
         \/ RouteExecution(f) \/ FailToStart(f) \/ MarkExecute(f) \/ SendExecute(f)
         \/ WithdrawExecution(f) \/ CancelExecution(f)
  PROVE  FirstSubmission(e)'
<1>1. TypeRows /\ TypeTasks /\ TasksHaveRows
  BY TypeParts DEF Shape
<1> USE DEF TypeRows, TypeTasks, FirstSubmission
<1>2. CASE \E s \in Sessions : SubmitExecution(f, s)
  BY <1>1, <1>2 DEF SubmitExecution, TasksHaveRows
<1>3. CASE RouteExecution(f)
  BY <1>1, <1>3 DEF RouteExecution, tables
<1>4. CASE FailToStart(f)
  BY <1>1, <1>4 DEF FailToStart
<1>5. CASE MarkExecute(f)
  <2>1. UNCHANGED <<submission, execution>> /\ executeTask[f] = "mark"
    BY <1>5 DEF MarkExecute
  <2>2. CASE e = f
    BY <1>1, <1>5, <2>1, <2>2 DEF MarkExecute
  <2>3. CASE e # f
    BY <1>1, <1>5, <2>1, <2>3 DEF MarkExecute
  <2> QED BY <2>2, <2>3
<1>6. CASE SendExecute(f)
  BY <1>1, <1>6 DEF SendExecute, tables
<1>7. CASE WithdrawExecution(f) \/ CancelExecution(f)
  BY <1>1, <1>7 DEF WithdrawExecution, CancelExecution, tables, tasks
<1> QED BY <1>2, <1>3, <1>4, <1>5, <1>6, <1>7

LEMMA FirstSubmissionStep ==
  ASSUME TypeOK, Shape, FirstSubmissionInv, [Next]_vars
  PROVE  FirstSubmissionInv'
<1>1. /\ TypeRows /\ TypeTasks /\ TypeBudget /\ TasksHaveRows /\ RecordsOK
      /\ budget["retry"] \in Nat /\ Budget["retry"] \in Nat
  BY TypeParts, InvestigationAssumption DEF Shape, TypeBudget, Optional
<1>2. budget'["retry"] \in Nat /\ budget'["retry"] <= Budget["retry"]
  BY <1>1, BudgetStep DEF FirstSubmissionInv, TypeBudget, Optional
<1>3. SUFFICES ASSUME budget'["retry"] = Budget["retry"], NEW e \in Executions
               PROVE  FirstSubmission(e)'
  BY <1>2 DEF FirstSubmissionInv, FirstSubmission
<1>4. budget["retry"] = Budget["retry"] /\ \A f \in Executions : ~ RetrySubmission(f)
  BY <1>1, <1>2, <1>3, BudgetStep DEF FirstSubmissionInv
<1>5. FirstSubmission(e)
  BY <1>4 DEF FirstSubmissionInv, FirstSubmission
<1>6. CASE SessionRequests
  BY <1>5, <1>6 DEF FirstSubmission, SessionRequests, CreateSession, MarkOpen, SendOpen,
                    BeginClose, SendClose, GiveUpClose, tables
<1>7. CASE ExecutionRequests
  BY <1>4, <1>5, <1>7, FirstRequestsStep DEF ExecutionRequests
<1>8. CASE Revocation
  <2>1. UNCHANGED <<submission, executeTask, executionRequested>>
    BY <1>8 DEF Revocation, Revoke, LookForLiveSession, CloseRevokedSession, GiveUpRevokedClose,
                MarkRevocationUnconfirmed, DisconnectRevoked, tables
  <2>2. execution'[e] = "failed_to_start" => execution[e] = "failed_to_start"
    BY <1>8 DEF Revocation, Revoke, LookForLiveSession, CloseRevokedSession, GiveUpRevokedClose,
                MarkRevocationUnconfirmed, DisconnectRevoked, tables, ExecutionsUnknownIn
  <2> QED BY <1>5, <2>1, <2>2 DEF FirstSubmission
<1>9. CASE RestartControlPlane
  BY <1>1, <1>5, <1>9 DEF RestartControlPlane, FirstSubmission, TypeRows
<1>10. ASSUME NEW n \in 0 .. Len(pending), Ingest(n) PROVE FirstSubmission(e)'
  <2>1. UNCHANGED <<submission, executeTask, executionRequested>>
    BY <1>10 DEF Ingest
  <2>2. ExecutionMoves(execution[e], execution'[e])
    BY <1>1, <1>10, IngestExecution DEF ExecutionIngested
  <2> QED BY <1>5, <2>1, <2>2 DEF FirstSubmission, ExecutionMoves, Reported
<1>11. CASE ~ TaskStep
  <2>1. UNCHANGED tasks
    BY <1>11, TasksQuiet
  <2>2. CASE ChannelEnds
    BY <1>1, <1>5, <2>1, <2>2, ChannelEndsFailsNone DEF FirstSubmission, tasks
  <2>3. CASE UNCHANGED tables
    BY <1>5, <2>1, <2>3 DEF FirstSubmission, tables, tasks
  <2> QED BY <1>11, <2>2, <2>3, QuietTables
<1> QED BY <1>6, <1>7, <1>8, <1>9, <1>10, <1>11 DEF TaskStep

LEMMA FirstSubmissionHolds == Spec => []FirstSubmissionInv
<1>1. Init => FirstSubmissionInv
  <2>1. Budget["retry"] \in Nat
    BY InvestigationAssumption DEF Optional
  <2> QED BY <2>1 DEF Init, FirstSubmissionInv
<1>2. TypeOK /\ Shape /\ FirstSubmissionInv /\ [Next]_vars => FirstSubmissionInv'
  BY FirstSubmissionStep
<1> QED BY <1>1, <1>2, ShapeHolds, PTL DEF Spec

\* As long as no submission is repeated, an execution the control plane calls
\* failed_to_start was never dispatched and hence never accepted, though dispatch
\* and recovery at start-up may both be under way (submit_execution in app.py,
\* recover_interrupted_work in database.py).
THEOREM FailedMeansNeverRan == Spec => []NeverRanUnlessRepeated
<1>1. TypeOK /\ Shape /\ FirstSubmissionInv => NeverRanUnlessRepeated
  BY DEF Shape, EndpointOK, FirstSubmissionInv, NeverRanUnlessRepeated
<1> QED BY <1>1, ShapeHolds, FirstSubmissionHolds, PTL

-----------------------------------------------------------------------------
(* A revoked device has no live session.                                   *)

OneLive == \A s, t \in Sessions : session[s] \in Live /\ session[t] \in Live => s = t

RevocationKnows(s) ==
  /\ closing[s] # "none" => session[s] \notin {"none", "starting"}
  /\ revocation.step \in {"disconnect", "done"} /\ session[s] \in Usable => closing[s] # "none"
  /\ revocation.step \in {"close", "waiting"} /\ session[s] \in Live => s = revocation.session
  /\ revocation.step = "close" /\ session[s] \in Usable =>
       session[s] = "active" \/ closing[s] # "none"

LEMMA RevocationInvParts ==
  RevocationInv <=> OneLive /\ \A s \in Sessions : RevocationKnows(s)
BY DEF RevocationInv, OneLive, RevocationKnows

LEMMA OneLiveStep ==
  ASSUME TypeOK, Shape, OneLive, [Next]_vars
  PROVE  OneLive'
<1>1. CASE RowsMove
  <2>1. \A s \in Sessions : session'[s] \in Live => session[s] \in Live \/ session[s] = "none"
    BY <1>1 DEF RowsMove, SessionsMove, ControlSession, Live
  <2> QED BY <1>1, <2>1 DEF RowsMove, SessionsMove, OneLive, Live
<1>2. ASSUME NEW n \in 0 .. Len(pending), Ingest(n) PROVE OneLive'
  <2>1. \A s \in Sessions : SessionMoves(session[s], session'[s])
    BY <1>2, IngestSession DEF Shape, SessionIngested
  <2>2. \A s \in Sessions : session'[s] \in Live => session[s] \in Live
    BY <2>1 DEF SessionMoves, Live
  <2> QED BY <2>2 DEF OneLive
<1>3. CASE UNCHANGED tables
  BY <1>3 DEF tables, OneLive
<1> QED BY <1>1, <1>2, <1>3, Effects

LEMMA SessionRequestsKnow ==
  ASSUME TypeOK, Shape, NEW s \in Sessions, RevocationKnows(s), NEW t \in Sessions,
         \/ CreateSession(t) \/ MarkOpen(t) \/ SendOpen(t)
         \/ BeginClose(t) \/ SendClose(t) \/ GiveUpClose(t)
  PROVE  RevocationKnows(s)'
<1>1. TypeRows /\ TypeTasks /\ RevocationOK
  BY TypeParts DEF Shape
<1> USE DEF TypeRows, TypeTasks, RevocationKnows, Usable, Live
<1>2. CASE CreateSession(t)
  BY <1>1, <1>2 DEF CreateSession, RevocationOK
<1>3. CASE MarkOpen(t) \/ SendOpen(t)
  BY <1>1, <1>3 DEF MarkOpen, SendOpen, tables
<1>4. CASE BeginClose(t)
  BY <1>1, <1>4 DEF BeginClose
<1>5. CASE SendClose(t)
  BY <1>1, <1>5 DEF SendClose, tables
<1>6. CASE GiveUpClose(t)
  BY <1>1, <1>6 DEF GiveUpClose
<1> QED BY <1>2, <1>3, <1>4, <1>5, <1>6

LEMMA RevocationStepsKnow ==
  ASSUME TypeOK, Shape, RevocationInv, NEW s \in Sessions, Revocation
  PROVE  RevocationKnows(s)'
<1>1. TypeRows /\ TypeTasks /\ RevocationOK /\ OneLive /\ RevocationKnows(s)
  BY TypeParts, RevocationInvParts DEF Shape
<1> USE DEF RevocationKnows, RevocationAt
<1>2. CASE Revoke
  BY <1>1, <1>2 DEF Revoke
<1>3. CASE LookForLiveSession
  <2>1. UNCHANGED <<closing, session>>
    BY <1>3 DEF LookForLiveSession, tables
  <2>2. CASE RevocationAt("disconnect", 0) /\ session[s] \notin Usable
    BY <1>1, <2>1, <2>2
  <2>3. ASSUME NEW t \in Sessions, session[t] = "active", RevocationAt("close", t)
        PROVE  RevocationKnows(s)'
    BY <1>1, <2>1, <2>3 DEF OneLive, Live, Usable
  <2>4. ASSUME NEW t \in Sessions, RevocationAt("unconfirmed", t) PROVE RevocationKnows(s)'
    BY <1>1, <2>1, <2>4
  <2> QED BY <1>3, <2>2, <2>3, <2>4 DEF LookForLiveSession, Usable
<1>4. CASE CloseRevokedSession
  <2>1. UNCHANGED closing /\ revocation.step = "close" /\ revocation.session \in Sessions
    BY <1>1, <1>4 DEF CloseRevokedSession, TypeTasks, RevocationOK
  <2>2. CASE session[revocation.session] # "active"
    <3>1. RevocationAt("disconnect", 0) /\ UNCHANGED session
      BY <1>4, <2>2 DEF CloseRevokedSession
    <3> QED BY <1>1, <2>1, <2>2, <3>1 DEF Usable, Live
  <2>3. CASE session[revocation.session] = "active"
    <3>1. /\ session' = [session EXCEPT ![revocation.session] = "closing"]
          /\ \/ RevocationAt("waiting", revocation.session)
             \/ RevocationAt("unconfirmed", revocation.session)
      BY <1>4, <2>3 DEF CloseRevokedSession
    <3> QED BY <1>1, <2>1, <2>3, <3>1 DEF Usable, Live, TypeRows
  <2> QED BY <2>2, <2>3
<1>5. CASE GiveUpRevokedClose
  BY <1>1, <1>5 DEF GiveUpRevokedClose, tables
<1>6. CASE MarkRevocationUnconfirmed
  BY <1>1, <1>6 DEF MarkRevocationUnconfirmed, Usable
<1>7. CASE DisconnectRevoked
  BY <1>1, <1>7 DEF DisconnectRevoked, tables
<1> QED BY <1>2, <1>3, <1>4, <1>5, <1>6, <1>7 DEF Revocation

LEMMA IngestionKnows ==
  ASSUME TypeOK, Shape, NEW s \in Sessions, RevocationKnows(s),
         NEW n \in 0 .. Len(pending), Ingest(n)
  PROVE  RevocationKnows(s)'
<1>1. TypeTasks /\ RecordsOK /\ RevocationOK
  BY TypeParts DEF Shape
<1>2. SessionMoves(session[s], session'[s])
  BY <1>1, IngestSession DEF SessionIngested
<1>3. s \in SessionsClosedIn(n) => session'[s] = "closed"
  BY <1>1, IngestSession DEF SessionsClosedIn, SessionIngested, Stops
<1>4. /\ closing'[s] = IF s \in SessionsClosedIn(n) /\ closing[s] = "waiting" THEN "none"
                       ELSE closing[s]
      /\ \/ UNCHANGED revocation
         \/ /\ revocation.step = "waiting" /\ revocation.session \in SessionsClosedIn(n)
            /\ revocation' = [step |-> "disconnect", session |-> 0]
  BY DEF Ingest, RevocationAt
<1>5. CASE UNCHANGED revocation
  BY <1>2, <1>3, <1>4, <1>5 DEF RevocationKnows, SessionMoves, Live, Usable
<1>6. CASE /\ revocation.step = "waiting" /\ revocation.session \in SessionsClosedIn(n)
           /\ revocation' = [step |-> "disconnect", session |-> 0]
  BY <1>2, <1>3, <1>4, <1>6 DEF RevocationKnows, SessionMoves, Live, Usable
<1> QED BY <1>4, <1>5, <1>6

LEMMA RevocationInvStep ==
  ASSUME TypeOK, Shape, RevocationInv, [Next]_vars
  PROVE  RevocationInv'
<1>1. TypeRows /\ RecordsOK /\ OneLive /\ \A s \in Sessions : RevocationKnows(s)
  BY TypeParts, RevocationInvParts DEF Shape
<1>2. SUFFICES ASSUME NEW s \in Sessions PROVE RevocationKnows(s)'
  <2>1. OneLive'
    BY <1>1, OneLiveStep
  <2>2. (OneLive /\ \A s \in Sessions : RevocationKnows(s))' => RevocationInv'
    BY RevocationInvParts, PTL
  <2> QED BY <1>2, <2>1, <2>2
<1>3. CASE SessionRequests
  BY <1>1, <1>3, SessionRequestsKnow DEF SessionRequests
<1>4. CASE UNCHANGED <<session, closing, revocation>>
  BY <1>1, <1>4 DEF RevocationKnows
<1>5. CASE ExecutionRequests
  BY <1>4, <1>5 DEF ExecutionRequests, SubmitExecution, RouteExecution, FailToStart,
                    RetrySubmission, MarkExecute, SendExecute, WithdrawExecution,
                    CancelExecution, tables, tasks
<1>6. CASE Revocation
  BY <1>6, RevocationStepsKnow
<1>7. CASE RestartControlPlane
  BY <1>7 DEF RestartControlPlane, RevocationKnows
<1>8. ASSUME NEW n \in 0 .. Len(pending), Ingest(n) PROVE RevocationKnows(s)'
  BY <1>1, <1>8, IngestionKnows
<1>9. CASE ~ TaskStep
  <2>1. UNCHANGED tasks
    BY <1>9, TasksQuiet
  <2>2. CASE ChannelEnds
    BY <1>1, <2>1, <2>2 DEF ChannelEnds, RevocationKnows, tasks, TypeRows, Usable, Live
  <2>3. CASE UNCHANGED tables
    BY <1>4, <2>1, <2>3 DEF tables, tasks
  <2> QED BY <1>9, <2>2, <2>3, QuietTables
<1> QED BY <1>3, <1>5, <1>6, <1>7, <1>8, <1>9 DEF TaskStep

LEMMA RevocationInvHolds == Spec => []RevocationInv
<1>1. Init => RevocationInv
  BY DEF Init, RevocationInv, Live
<1>2. TypeOK /\ Shape /\ RevocationInv /\ [Next]_vars => RevocationInv'
  BY RevocationInvStep
<1> QED BY <1>1, <1>2, ShapeHolds, PTL DEF Spec

\* When revoke_device is done and no close_session is under way, the device has no
\* session that is starting, active or closing, whichever of them, ingestion and
\* the end of the channel came first (app.py, database.py).
THEOREM RevokedHasNoLiveSession == Spec => []RevokedLeavesNoLiveSession
<1>1. RevocationInv => RevokedLeavesNoLiveSession
  BY DEF RevocationInv, RevokedLeavesNoLiveSession, RevocationSettled, Usable
<1> QED BY <1>1, RevocationInvHolds, PTL

-----------------------------------------------------------------------------
(* The session of the worker is open.                                      *)

OpensWith(i, s) ==
  Starts(pending[i], s) /\ \A j \in i + 1 .. Len(pending) : ~ Stops(pending[j], s)

Open(s) ==
  \/ \E i \in 1 .. Len(pending) : OpensWith(i, s)
  \/ /\ session[s] \in {"active", "closing", "cleanup_unknown"}
     /\ \A j \in 1 .. Len(pending) : ~ Stops(pending[j], s)

LEMMA OpenInvIs == OpenInv <=> (SnapshotSession # 0 => Open(SnapshotSession))
BY DEF OpenInv, Open, OpensWith

\* The snapshot changes when a session is opened and when a record says it ended.
LEMMA SnapshotEffect ==
  ASSUME TypeOK, Shape, EndpointEffect
  PROVE  \/ SnapshotSession' = SnapshotSession /\ UNCHANGED pending
         \/ \E r \in LedgerRecord :
              /\ Recorded(r)
              /\ \/ /\ SnapshotSession' = SnapshotSession
                    /\ r.type # "session_started" /\ ~ Stops(r, SnapshotSession)
                 \/ SnapshotSession # 0 /\ SnapshotSession' = 0 /\ Stops(r, SnapshotSession)
                 \/ SnapshotSession = 0 /\ Opens(r) /\ SnapshotSession' = worker'
<1>1. CASE UNCHANGED pending /\ (Stays \/ KeepsWorker)
  BY <1>1 DEF SnapshotSession, Stays, SameInvocation, KeepsWorker, NoInvocation
<1>2. CASE UNCHANGED pending /\ DropsWorker
  BY <1>2 DEF SnapshotSession, DropsWorker, NoInvocation
<1>3. CASE UNCHANGED pending /\ RestartsEmpty /\ SnapshotSession = 0
  BY <1>3 DEF SnapshotSession, RestartsEmpty, NoInvocation
<1>4. ASSUME NEW r \in LedgerRecord, Recorded(r),
             \/ Opens(r) \/ RetiresWorker(r) \/ AcceptsExecution(r)
             \/ Stays /\ r.type = "cancellation_requested"
             \/ ClaimsExecution(r) \/ CompletesExecution(r) \/ RecordsRetirement(r)
             \/ DropsWorker /\ r.type = "session_closed" /\ r.session = worker
             \/ /\ RestartsEmpty /\ SnapshotSession # 0
                /\ r.type = "worker_stopped" /\ r.session = SnapshotSession
      PROVE  \/ /\ SnapshotSession' = SnapshotSession
                /\ r.type # "session_started" /\ ~ Stops(r, SnapshotSession)
             \/ SnapshotSession # 0 /\ SnapshotSession' = 0 /\ Stops(r, SnapshotSession)
             \/ SnapshotSession = 0 /\ Opens(r) /\ SnapshotSession' = worker'
  <2>1. r.session # 0
    BY <1>4, Zero DEF LedgerRecord
  <2>2. CASE Opens(r)
    BY <2>2 DEF SnapshotSession, Opens, SameInvocation
  <2>3. CASE RetiresWorker(r)
    BY <2>3, Zero DEF SnapshotSession, RetiresWorker, NoInvocation, Stops
  <2>4. CASE AcceptsExecution(r)
    BY <2>4 DEF SnapshotSession, AcceptsExecution, Stops
  <2>5. CASE Stays /\ r.type = "cancellation_requested"
    BY <2>5 DEF SnapshotSession, Stays, SameInvocation, Stops
  <2>6. CASE ClaimsExecution(r)
    BY <2>6 DEF SnapshotSession, ClaimsExecution, Stops
  <2>7. CASE CompletesExecution(r)
    BY <2>7, Zero DEF SnapshotSession, CompletesExecution, InWorker, Stops
  <2>8. CASE RecordsRetirement(r)
    BY <2>8, Zero DEF SnapshotSession, RecordsRetirement, InWorker, Stops
  <2>9. CASE DropsWorker /\ r.type = "session_closed" /\ r.session = worker
    BY <2>1, <2>9 DEF SnapshotSession, DropsWorker, NoInvocation, Stops
  <2>10. CASE /\ RestartsEmpty /\ SnapshotSession # 0
              /\ r.type = "worker_stopped" /\ r.session = SnapshotSession
    BY <2>10 DEF SnapshotSession, RestartsEmpty, NoInvocation, Stops
  <2> QED BY <1>4, <2>2, <2>3, <2>4, <2>5, <2>6, <2>7, <2>8, <2>9, <2>10
<1> QED BY <1>1, <1>2, <1>3, <1>4 DEF EndpointEffect

LEMMA OpenStep ==
  ASSUME TypeOK, Shape, OpenInv, [Next]_vars
  PROVE  OpenInv'
<1>1. RecordsOK /\ TypeRows /\ (SnapshotSession # 0 => Open(SnapshotSession))
  BY OpenInvIs, TypeParts DEF Shape
<1>2. SUFFICES ASSUME NEW s \in Sessions, SnapshotSession' = s PROVE Open(s)'
  <2>1. (SnapshotSession # 0 => Open(SnapshotSession))' => OpenInv'
    BY OpenInvIs, PTL
  <2>2. SnapshotSession' \in Sessions \cup {0}
    <3>1. worker' \in Sessions \cup {0}
      BY ShapeStep, TypeParts DEF TypeOK
    <3> QED BY <3>1 DEF SnapshotSession
  <2>3. ASSUME NEW s \in Sessions, SnapshotSession' = s, Open(s)' PROVE Open(SnapshotSession)'
    BY <2>3 DEF Open, OpensWith
  <2> QED BY <1>2, <2>1, <2>2, <2>3
<1>3. s # 0
  BY Zero
<1>4. CASE RowsMove /\ UNCHANGED <<pending, worker, invocation>>
  <2>1. Open(s)
    BY <1>1, <1>2, <1>3, <1>4 DEF SnapshotSession
  <2> QED BY <1>4, <2>1 DEF Open, OpensWith, RowsMove, SessionsMove, ControlSession
<1>5. ASSUME NEW n \in 0 .. Len(pending), Ingest(n), UNCHANGED runtime PROVE Open(s)'
  <2>1. Open(s)
    BY <1>1, <1>2, <1>3, <1>5 DEF SnapshotSession, runtime
  <2>2. SessionIngested(n, s, session[s], session'[s])
    BY <1>1, <1>5, IngestSession
  <2>3. /\ Len(pending) \in Nat /\ n \in Nat /\ Len(pending') = Len(pending) - n
        /\ \A i \in 1 .. Len(pending') :
             n + i \in n + 1 .. Len(pending) /\ pending'[i] = pending[n + i]
        /\ \A j \in n + 1 .. Len(pending) :
             j - n \in 1 .. Len(pending') /\ pending'[j - n] = pending[j]
    BY <1>5, RemainingRecords
  <2>4. ASSUME NEW i \in 1 .. Len(pending), OpensWith(i, s), i <= n PROVE Open(s)'
    <3>1. session'[s] = "active"
      <4>1. i \in 1 .. n /\ Starts(pending[i], s)
        BY <2>3, <2>4 DEF OpensWith
      <4>2. session'[s] = "active" \/ \E j \in i + 1 .. n : Stops(pending[j], s)
        BY <2>2, <4>1 DEF SessionIngested
      <4>3. \A j \in i + 1 .. n : j \in i + 1 .. Len(pending)
        BY <2>3, <4>1
      <4> QED BY <2>4, <4>2, <4>3 DEF OpensWith
    <3>2. \A j \in 1 .. Len(pending') : ~ Stops(pending'[j], s)
      <4> SUFFICES ASSUME NEW j \in 1 .. Len(pending') PROVE ~ Stops(pending[n + j], s)
        BY <2>3
      <4>1. n + j \in i + 1 .. Len(pending)
        BY <2>3, <2>4
      <4> QED BY <2>4, <4>1 DEF OpensWith
    <3> QED BY <3>1, <3>2 DEF Open, Stops
  <2>5. ASSUME NEW i \in 1 .. Len(pending), OpensWith(i, s), i > n PROVE Open(s)'
    <3>1. i - n \in 1 .. Len(pending') /\ Starts(pending'[i - n], s)
      BY <2>3, <2>5 DEF OpensWith
    <3>2. \A j \in (i - n) + 1 .. Len(pending') : ~ Stops(pending'[j], s)
      <4> SUFFICES ASSUME NEW j \in (i - n) + 1 .. Len(pending') PROVE ~ Stops(pending'[j], s)
        OBVIOUS
      <4>1. j \in 1 .. Len(pending')
        BY <2>3, <2>5
      <4>2. n + j \in i + 1 .. Len(pending)
        BY <2>3, <2>5, <4>1
      <4> QED BY <2>3, <2>5, <4>1, <4>2 DEF OpensWith
    <3> QED BY <3>1, <3>2 DEF Open, OpensWith, Stops, Starts
  <2>6. ASSUME session[s] \in {"active", "closing", "cleanup_unknown"},
               \A j \in 1 .. Len(pending) : ~ Stops(pending[j], s)
        PROVE  Open(s)'
    <3>1. session'[s] \in {session[s], "active"}
      BY <2>2, <2>3, <2>6 DEF SessionIngested
    <3>2. ASSUME NEW j \in 1 .. Len(pending') PROVE ~ Stops(pending'[j], s)
      <4>1. n + j \in 1 .. Len(pending) /\ pending'[j] = pending[n + j]
        BY <2>3
      <4> QED BY <2>6, <4>1
    <3> QED BY <2>6, <3>1, <3>2 DEF Open, Stops
  <2>7. ASSUME NEW i \in 1 .. Len(pending), OpensWith(i, s) PROVE Open(s)'
    <3>1. i <= n \/ i > n
      BY <2>3
    <3> QED BY <2>4, <2>5, <2>7, <3>1
  <2> QED BY <2>1, <2>6, <2>7 DEF Open
<1>6. CASE EndpointEffect /\ UNCHANGED tables
  <2>1. UNCHANGED session
    BY <1>6 DEF tables
  <2>2. CASE SnapshotSession' = SnapshotSession /\ UNCHANGED pending
    BY <1>1, <1>2, <1>3, <2>1, <2>2 DEF Open, OpensWith
  <2>3. ASSUME NEW r \in LedgerRecord, Recorded(r), SnapshotSession' = SnapshotSession,
               ~ Stops(r, SnapshotSession)
        PROVE  Open(s)'
    <3>1. Open(s)
      BY <1>1, <1>2, <1>3, <2>3
    <3>2. /\ Len(pending) \in Nat /\ Len(pending') = Len(pending) + 1
          /\ \A j \in 1 .. Len(pending) : j \in 1 .. Len(pending') /\ pending'[j] = pending[j]
          /\ ~ Stops(pending'[Len(pending) + 1], s)
      BY <1>2, <2>3, AppendedRecord
    <3>3. ASSUME NEW i \in 1 .. Len(pending), OpensWith(i, s) PROVE OpensWith(i, s)'
      BY <3>2, <3>3 DEF OpensWith, Starts, Stops
    <3>4. CASE \E i \in 1 .. Len(pending) : OpensWith(i, s)
      BY <3>2, <3>3, <3>4 DEF Open
    <3>5. CASE /\ session[s] \in {"active", "closing", "cleanup_unknown"}
               /\ \A j \in 1 .. Len(pending) : ~ Stops(pending[j], s)
      BY <2>1, <3>2, <3>5 DEF Open, Stops
    <3> QED BY <3>1, <3>4, <3>5 DEF Open
  <2>4. ASSUME NEW r \in LedgerRecord, Recorded(r), Opens(r), SnapshotSession' = worker'
        PROVE  Open(s)'
    <3>1. /\ Len(pending) \in Nat /\ Len(pending') = Len(pending) + 1
          /\ Starts(pending'[Len(pending) + 1], s)
      BY <1>2, <2>4, AppendedRecord DEF Opens, Starts
    <3>2. PICK k \in 1 .. Len(pending') : k = Len(pending) + 1
      BY <3>1
    <3>3. OpensWith(k, s)'
      BY <3>1, <3>2 DEF OpensWith, Starts
    <3> QED BY <3>2, <3>3 DEF Open
  <2> QED BY <1>2, <1>3, <1>6, <2>2, <2>3, <2>4, SnapshotEffect
<1> QED BY <1>4, <1>5, <1>6, Effects DEF ledger, runtime

LEMMA OpenHolds == Spec => []OpenInv
<1>1. Init => OpenInv
  BY DEF Init, OpenInv, SnapshotSession, NoInvocation
<1>2. TypeOK /\ Shape /\ OpenInv /\ [Next]_vars => OpenInv'
  BY OpenStep
<1> QED BY <1>1, <1>2, ShapeHolds, PTL DEF Spec

-----------------------------------------------------------------------------
(* An execution is accepted at most once.                                  *)

IsOver(e) ==
  session[of[e]] \in Over \/ \E i \in 1 .. Len(pending) : Confirms(pending[i], of[e])

\* The session of an accepted execution exists and stays the same.
LEMMA AcceptedRow ==
  ASSUME TypeOK, Shape, [Next]_vars, NEW e \in Executions, runs[e] # 0
  PROVE  of[e] \in Sessions /\ of'[e] = of[e] /\ session[of[e]] # "none"
<1>1. e \in executionRequested
  BY DEF Shape, EndpointOK
<1>2. execution[e] # "none"
  BY <1>1 DEF Shape, TasksHaveRows
<1> QED BY <1>2, RowsStay, TypeParts DEF Shape, RowsExist, TypeRows

\* What is over stays over.
LEMMA IsOverStep ==
  ASSUME TypeOK, Shape, [Next]_vars, NEW e \in Executions, runs[e] # 0, IsOver(e)
  PROVE  IsOver(e)'
<1>1. /\ of[e] \in Sessions /\ of'[e] = of[e] /\ session[of[e]] # "none"
      /\ RecordsOK /\ TypeRows
  BY AcceptedRow, TypeParts DEF Shape
<1>2. session[of[e]] \in Over => session'[of[e]] \in Over
  BY <1>1, OutcomesStep DEF Over
<1>3. CASE session[of[e]] \in Over
  BY <1>1, <1>2, <1>3 DEF IsOver
<1>4. ASSUME NEW i \in 1 .. Len(pending), Confirms(pending[i], of[e]) PROVE IsOver(e)'
  <2>1. CASE UNCHANGED pending
    BY <1>1, <1>4, <2>1 DEF IsOver, Confirms, Stops
  <2>2. ASSUME NEW n \in 0 .. Len(pending), Ingest(n) PROVE IsOver(e)'
    <3>1. /\ Len(pending) \in Nat /\ n \in Nat
          /\ \A j \in n + 1 .. Len(pending) :
               j - n \in 1 .. Len(pending') /\ pending'[j - n] = pending[j]
      BY <2>2, RemainingRecords
    <3>2. CASE i <= n
      <4>1. SessionIngested(n, of[e], session[of[e]], session'[of[e]])
        BY <1>1, <2>2, IngestSession
      <4>2. session'[of[e]] \in SessionStates \ Live
        BY <1>4, <3>1, <3>2, <4>1 DEF SessionIngested, Confirms
      <4>3. session'[of[e]] # "none"
        BY <1>1, RowsStay
      <4> QED BY <1>1, <4>2, <4>3 DEF IsOver, Over, SessionStates, Live
    <3>3. CASE i > n
      <4>1. i - n \in 1 .. Len(pending') /\ Confirms(pending'[i - n], of[e])
        BY <1>4, <3>1, <3>3
      <4> QED BY <1>1, <4>1 DEF IsOver, Confirms, Stops
    <3> QED BY <3>1, <3>2, <3>3
  <2>3. ASSUME NEW r, Recorded(r) PROVE IsOver(e)'
    <3>1. i \in 1 .. Len(pending') /\ Confirms(pending'[i], of[e])
      BY <1>4, <2>3, AppendedRecord
    <3> QED BY <1>1, <3>1 DEF IsOver, Confirms, Stops
  <2> QED BY <2>1, <2>2, <2>3, Effects DEF EndpointEffect, ledger
<1> QED BY <1>3, <1>4 DEF IsOver

IsAccepted(e) == invocation.phase = "accepted" /\ invocation.execution = e

LEMMA AcceptedStep ==
  ASSUME TypeOK, Shape, OpenInv, AcceptedInv, [Next]_vars
  PROVE  AcceptedInv'
<1>1. /\ TypeEndpoint /\ EndpointOK
      /\ \A e \in Executions :
           /\ runs[e] <= 1
           /\ runs[e] = 1 /\ e \notin claims => IsAccepted(e) \/ IsOver(e)
  BY TypeParts DEF AcceptedInv, IsAccepted, IsOver, Shape
<1>2. SUFFICES ASSUME NEW e \in Executions
               PROVE  /\ runs'[e] <= 1
                      /\ runs'[e] = 1 /\ e \notin claims' => IsAccepted(e)' \/ IsOver(e)'
  BY DEF AcceptedInv, IsAccepted, IsOver
<1>3. runs[e] = 1 /\ IsOver(e) => IsOver(e)'
  BY IsOverStep
<1>4. CASE UNCHANGED <<invocation, claims, runs>>
  BY <1>1, <1>3, <1>4 DEF IsAccepted
<1>5. CASE EndpointEffect /\ UNCHANGED tables
  <2>1. UNCHANGED of
    BY <1>5 DEF tables
  <2>2. CASE Stays
    BY <1>1, <1>3, <2>2 DEF IsAccepted, Stays, SameInvocation
  <2>3. CASE KeepsWorker \/ DropsWorker
    BY <1>1, <1>3, <2>3 DEF IsAccepted, KeepsWorker, DropsWorker
  <2>4. CASE UNCHANGED pending /\ RestartsEmpty /\ SnapshotSession = 0
    <3>1. ~ IsAccepted(e)
      BY <1>1, <2>4 DEF IsAccepted, SnapshotSession, EndpointOK
    <3> QED BY <1>1, <1>3, <2>4, <3>1 DEF RestartsEmpty
  <2>5. ASSUME NEW r \in LedgerRecord, Recorded(r), RestartsEmpty, SnapshotSession # 0,
               r.type = "worker_stopped", r.note = "confirmed", r.session = SnapshotSession
        PROVE  /\ runs'[e] <= 1
               /\ runs'[e] = 1 /\ e \notin claims' => IsAccepted(e)' \/ IsOver(e)'
    <3>1. UNCHANGED <<claims, runs>>
      BY <2>5 DEF RestartsEmpty
    <3>2. CASE IsAccepted(e)
      <4>1. SnapshotSession = of[e]
        BY <1>1, <3>2 DEF IsAccepted, SnapshotSession, EndpointOK
      <4>2. Len(pending) + 1 \in 1 .. Len(pending') /\ Confirms(pending'[Len(pending) + 1], of'[e])
        BY <2>1, <2>5, <4>1, AppendedRecord DEF Confirms, Stops
      <4>3. IsOver(e)'
        BY <4>2 DEF IsOver, Confirms, Stops
      <4> QED BY <1>1, <3>1, <4>3
    <3> QED BY <1>1, <1>3, <3>1, <3>2
  <2>6. ASSUME NEW r \in LedgerRecord, Recorded(r), Opens(r)
        PROVE  /\ runs'[e] <= 1
               /\ runs'[e] = 1 /\ e \notin claims' => IsAccepted(e)' \/ IsOver(e)'
    BY <1>1, <1>3, <2>6 DEF IsAccepted, Opens
  <2>7. ASSUME NEW r \in LedgerRecord, Recorded(r),
               RetiresWorker(r) \/ CompletesExecution(r) \/ RecordsRetirement(r)
        PROVE  /\ runs'[e] <= 1
               /\ runs'[e] = 1 /\ e \notin claims' => IsAccepted(e)' \/ IsOver(e)'
    BY <1>1, <1>3, <2>7 DEF IsAccepted, RetiresWorker, CompletesExecution, RecordsRetirement
  <2>8. ASSUME NEW r \in LedgerRecord, Recorded(r), ClaimsExecution(r)
        PROVE  /\ runs'[e] <= 1
               /\ runs'[e] = 1 /\ e \notin claims' => IsAccepted(e)' \/ IsOver(e)'
    BY <1>1, <1>3, <2>8 DEF IsAccepted, ClaimsExecution
  <2>9. ASSUME NEW r \in LedgerRecord, Recorded(r), AcceptsExecution(r)
        PROVE  /\ runs'[e] <= 1
               /\ runs'[e] = 1 /\ e \notin claims' => IsAccepted(e)' \/ IsOver(e)'
    <3> DEFINE f == r.execution
    <3>1. /\ f \in Executions /\ f \notin claims /\ of[f] = worker /\ worker \in Sessions
          /\ pending = <<>> /\ invocation.phase = "none" /\ UNCHANGED claims
          /\ runs' = [runs EXCEPT ![f] = @ + 1]
          /\ invocation'.execution = f /\ invocation'.phase = "accepted"
      BY <2>9 DEF AcceptsExecution
    <3>2. SnapshotSession = worker /\ worker # 0
      BY <3>1, Zero DEF SnapshotSession
    <3>3. session[worker] \in {"active", "closing", "cleanup_unknown"} /\ Len(pending) = 0
      BY <3>1, <3>2 DEF OpenInv
    <3>4. ~ IsOver(f) /\ ~ IsAccepted(f)
      BY <3>1, <3>3 DEF IsOver, Over, IsAccepted
    <3>5. runs[f] = 0
      BY <1>1, <3>1, <3>4 DEF TypeEndpoint
    <3> HIDE DEF f
    <3>6. CASE e = f
      BY <1>1, <3>1, <3>5, <3>6 DEF TypeEndpoint, IsAccepted
    <3>7. CASE e # f
      BY <1>1, <1>3, <3>1, <3>7 DEF TypeEndpoint, IsAccepted
    <3> QED BY <3>6, <3>7
  <2> QED BY <1>5, <2>2, <2>3, <2>4, <2>5, <2>6, <2>7, <2>8, <2>9 DEF EndpointEffect
<1> QED BY <1>4, <1>5, Effects DEF runtime

LEMMA AcceptedHolds == Spec => []AcceptedInv
<1>1. Init => AcceptedInv
  BY DEF Init, AcceptedInv
<1>2. TypeOK /\ Shape /\ OpenInv /\ AcceptedInv /\ [Next]_vars => AcceptedInv'
  BY AcceptedStep
<1> QED BY <1>1, <1>2, ShapeHolds, OpenHolds, PTL DEF Spec

\* Whatever is submitted again, sent again or lost with a connection, a restart of
\* the control plane or a crash of the service, the endpoint accepts an execution
\* once: between the record of its acceptance and its claim only a crash
\* intervenes, and the record of that crash ends the session before another command
\* of it is accepted (AgentRuntime.cs, EndpointLedger.cs).
THEOREM AcceptedOnce == Spec => []RunsAtMostOnce
<1>1. AcceptedInv => RunsAtMostOnce
  BY DEF AcceptedInv, RunsAtMostOnce
<1> QED BY <1>1, AcceptedHolds, PTL
=============================================================================
