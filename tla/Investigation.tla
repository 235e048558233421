--------------------------- MODULE Investigation ---------------------------
(***************************************************************************)
(* Debugging sessions and PowerShell executions on one device: the session *)
(* and execution rows of the control plane, the handlers and tasks that    *)
(* change them (app.py, database.py), the commands on their way to the     *)
(* endpoint, the agent's runtime loop with its worker (AgentRuntime.cs,    *)
(* WorkerProcess.cs), and the ledger records on their way back.            *)
(*                                                                         *)
(* The ledger is the reliable log that LedgerReplication implements: here  *)
(* pending holds its records that the control plane has not committed, and *)
(* ackDue says that the endpoint still waits for an acknowledgement of     *)
(* committed ones.  Output, audit rows and record contents that no guard   *)
(* reads are left out.                                                     *)
(***************************************************************************)
EXTENDS Naturals, Sequences, FiniteSets

CONSTANTS
  MaxSessions,     \* sessions callers request
  MaxExecutions,   \* executions callers submit
  MaxCommands,     \* commands under way to the endpoint
  Budget           \* how often each optional event happens, and any of them

Optional ==
  {"disconnect", "service_crash", "control_restart", "worker_failure",
   "close", "cancel", "retry", "revoke", "any"}

Sessions == 1 .. MaxSessions
Executions == 1 .. MaxExecutions

ASSUME InvestigationAssumption ==
  /\ MaxSessions \in Nat
  /\ MaxExecutions \in Nat
  /\ MaxCommands \in Nat \ {0}
  /\ Budget \in [Optional -> Nat]

VARIABLES
  \* Tables of the control plane.
  authorization,       \* devices.authorization_status
  session,             \* sessions.state, "none" before the row exists
  execution,           \* executions.status, "none" before the row exists
  of,                  \* executions.session_id, 0 before the row exists
  sessionRequested,    \* sessions with dispatch_requested_at
  executionRequested,  \* executions with dispatch_requested_at
  \* Tasks and request handlers of the control plane, lost when it restarts.
  openTask,            \* send_session_open_command, per session
  executeTask,         \* send_execution_command, per execution
  submission,          \* submit_execution after its insert, per execution
  closing,             \* close_session after its update, per session
  revocation,          \* revoke_device and the session it closes
  \* The channel.
  connected,
  inbox,               \* messages the endpoint has not handled, in order
  \* Endpoint.
  service,
  worker,              \* session of the PowerShell worker, 0 for none
  frame,               \* session and execution the current connection knows
  invocation,          \* the execution in the worker
  closeAfter,          \* a close request waits for the invocation
  claims,              \* execution-claims.jsonl
  strays,              \* sessions whose worker could not be stopped
  pending,             \* ledger records not committed by the control plane
  ackDue,              \* committed records the endpoint believes unacknowledged
  \* Bookkeeping of the model.
  runs,                \* times the endpoint accepted each execution
  budget               \* optional events left

tables == <<authorization, session, execution, of, sessionRequested, executionRequested>>
tasks == <<openTask, executeTask, submission, closing, revocation>>
network == <<connected, inbox>>
ledger == <<pending, ackDue>>
runtime == <<service, worker, frame, invocation, closeAfter, claims, strays, runs>>
vars == <<tables, tasks, network, ledger, runtime, budget>>

Spend(event) ==
  /\ budget[event] > 0 /\ budget["any"] > 0
  /\ budget' = [budget EXCEPT ![event] = @ - 1, !["any"] = @ - 1]

-----------------------------------------------------------------------------
(* States, commands and records.                                           *)

Live == {"starting", "active", "closing", "cleanup_unknown"}
SessionStates == Live \cup {"none", "lost", "closed", "failed"}

Unfinished == {"queued", "running"}

\* "withdrawn" is status cancelled with reason caller_cancelled_before_start.
ExecutionStates ==
  Unfinished \cup {"none", "completed", "timed_out", "cancelled", "withdrawn",
                   "failed_to_start", "outcome_unknown"}

Command(type, s, e) == [type |-> type, session |-> s, execution |-> e]
Ack == Command("ledger_ack", 0, 0)

AckUnderWay == \E i \in DOMAIN inbox : inbox[i] = Ack

Send(command) ==
  inbox' = IF connected THEN Append(inbox, command) ELSE inbox

HasRoom == Len(inbox) < MaxCommands

Entry(type, s, e, note) == [type |-> type, session |-> s, execution |-> e, note |-> note]

NoInvocation == [execution |-> 0, phase |-> "none", stop |-> FALSE, result |-> "none",
                 cleaned |-> FALSE]

NoFrame == [session |-> 0, execution |-> 0]

Busy == invocation # NoInvocation

HasUnacknowledgedRecords == pending # <<>> \/ ackDue

\* EndpointLedger.Snapshot: the open session and execution the records tell of.
SnapshotSession ==
  IF invocation.phase = "ended" /\ invocation.result # "completed" THEN 0 ELSE worker
SnapshotExecution_Forgotten == 0 \* mutant
SnapshotExecution ==
  IF invocation.phase \in {"accepted", "running"} THEN invocation.execution ELSE 0

-----------------------------------------------------------------------------
(* Requests and tasks of the control plane.                                *)

\* create_session with create_starting_session; its task dispatches the row.
CreateSession(s) ==
  /\ session[s] = "none" /\ \A t \in Sessions : t < s => session[t] # "none"
  /\ authorization = "active" /\ connected
  /\ \A t \in Sessions : session[t] \notin Live
  /\ session' = [session EXCEPT ![s] = "starting"]
  /\ openTask' = [openTask EXCEPT ![s] = "mark"]
  /\ UNCHANGED <<authorization, execution, of, sessionRequested, executionRequested>>
  /\ UNCHANGED <<executeTask, submission, closing, revocation>>
  /\ UNCHANGED <<network, ledger, runtime, budget>>

\* A round of send_session_open_command marks the row while it is starting; the
\* command follows when the answer of the commit and the registry are there, and
\* the session may have been opened, closed or lost meanwhile.
MarkOpen(s) ==
  /\ openTask[s] = "mark"
  /\ IF session[s] = "starting"
     THEN /\ sessionRequested' = sessionRequested \cup {s}
          /\ openTask' = [openTask EXCEPT ![s] = "send"]
     ELSE /\ openTask' = [openTask EXCEPT ![s] = "none"]
          /\ UNCHANGED sessionRequested
  /\ UNCHANGED <<authorization, session, execution, of, executionRequested>>
  /\ UNCHANGED <<executeTask, submission, closing, revocation>>
  /\ UNCHANGED <<network, ledger, runtime, budget>>

SendOpen_Once(s) == \* mutant
  /\ openTask[s] = "send" /\ HasRoom
  /\ Send(Command("open_session", s, 0))
  /\ openTask' = [openTask EXCEPT ![s] = "none"]
  /\ UNCHANGED <<executeTask, submission, closing, revocation>>
  /\ UNCHANGED <<connected, tables, ledger, runtime, budget>>

SendOpen(s) ==
  /\ openTask[s] = "send" /\ HasRoom
  /\ Send(Command("open_session", s, 0))
  /\ openTask' = [openTask EXCEPT ![s] = "mark"]
  /\ UNCHANGED <<executeTask, submission, closing, revocation>>
  /\ UNCHANGED <<connected, tables, ledger, runtime, budget>>

\* create_or_get_execution with a new key.
SubmitExecution(e, s) ==
  /\ execution[e] = "none" /\ \A f \in Executions : f < e => execution[f] # "none"
  /\ authorization = "active" /\ session[s] = "active"
  /\ \A f \in Executions : of[f] = s => execution[f] \notin Unfinished
  /\ execution' = [execution EXCEPT ![e] = "queued"]
  /\ of' = [of EXCEPT ![e] = s]
  /\ submission' = [submission EXCEPT ![e] = "created"]
  /\ UNCHANGED <<authorization, session, sessionRequested, executionRequested>>
  /\ UNCHANGED <<openTask, executeTask, closing, revocation>>
  /\ UNCHANGED <<network, ledger, runtime, budget>>

\* The rest of submit_execution looks for the channel.
RouteExecution(e) ==
  /\ submission[e] = "created"
  /\ submission' = [submission EXCEPT ![e] = IF connected THEN "none" ELSE "offline"]
  /\ executeTask' = [executeTask EXCEPT ![e] = IF connected THEN "mark" ELSE @]
  /\ UNCHANGED <<openTask, closing, revocation>>
  /\ UNCHANGED <<tables, network, ledger, runtime, budget>>

\* mark_execution_failed_to_start, for a device that was offline.
FailToStart(e) ==
  /\ submission[e] = "offline"
  /\ submission' = [submission EXCEPT ![e] = "none"]
  /\ execution' = [execution EXCEPT ![e] = IF @ = "queued" THEN "failed_to_start" ELSE @]
  /\ UNCHANGED <<authorization, session, of, sessionRequested, executionRequested>>
  /\ UNCHANGED <<openTask, executeTask, closing, revocation>>
  /\ UNCHANGED <<network, ledger, runtime, budget>>

\* submit_execution with the key of a queued execution.  The tasks of one
\* execution do the same thing and are modelled as one.
RetrySubmission(e) ==
  /\ execution[e] = "queued" /\ connected
  /\ executeTask[e] = "none"
  /\ Spend("retry")
  /\ executeTask' = [executeTask EXCEPT ![e] = "mark"]
  /\ UNCHANGED <<openTask, submission, closing, revocation>>
  /\ UNCHANGED <<tables, network, ledger, runtime>>

\* A round of send_execution_command, in the same two steps.
MarkExecute(e) ==
  /\ executeTask[e] = "mark"
  /\ IF execution[e] = "queued"
     THEN /\ executionRequested' = executionRequested \cup {e}
          /\ executeTask' = [executeTask EXCEPT ![e] = "send"]
     ELSE /\ executeTask' = [executeTask EXCEPT ![e] = "none"]
          /\ UNCHANGED executionRequested
  /\ UNCHANGED <<authorization, session, execution, of, sessionRequested>>
  /\ UNCHANGED <<openTask, submission, closing, revocation>>
  /\ UNCHANGED <<network, ledger, runtime, budget>>

SendExecute(e) ==
  /\ executeTask[e] = "send" /\ HasRoom
  /\ Send(Command("execute", of[e], e))
  /\ executeTask' = [executeTask EXCEPT ![e] = "mark"]
  /\ UNCHANGED <<openTask, submission, closing, revocation>>
  /\ UNCHANGED <<connected, tables, ledger, runtime, budget>>

\* cancel_execution of a queued execution, whether or not it was dispatched.
WithdrawExecution(e) ==
  /\ execution[e] = "queued"
  /\ Spend("cancel")
  /\ execution' = [execution EXCEPT ![e] = "withdrawn"]
  /\ UNCHANGED <<authorization, session, of, sessionRequested, executionRequested>>
  /\ UNCHANGED <<tasks, network, ledger, runtime>>

\* cancel_execution of a running one asks the endpoint.
CancelExecution(e) ==
  /\ execution[e] = "running" /\ connected /\ HasRoom
  /\ Spend("cancel")
  /\ Send(Command("cancel_execution", of[e], e))
  /\ UNCHANGED <<connected, tables, tasks, ledger, runtime>>

\* close_session: mark the row, then look for the channel, send and wait.
BeginClose(s) ==
  /\ session[s] = "active"
  /\ Spend("close")
  /\ session' = [session EXCEPT ![s] = "closing"]
  /\ closing' = [closing EXCEPT ![s] = "begun"]
  /\ UNCHANGED <<authorization, execution, of, sessionRequested, executionRequested>>
  /\ UNCHANGED <<openTask, executeTask, submission, revocation>>
  /\ UNCHANGED <<network, ledger, runtime>>

SendClose(s) ==
  /\ closing[s] = "begun" /\ connected /\ HasRoom
  /\ Send(Command("close_session", s, 0))
  /\ closing' = [closing EXCEPT ![s] = "waiting"]
  /\ UNCHANGED <<openTask, executeTask, submission, revocation>>
  /\ UNCHANGED <<connected, tables, ledger, runtime, budget>>

GiveUpClose_Unguarded(s) == \* mutant
  /\ \/ closing[s] = "begun" /\ ~connected
     \/ closing[s] = "waiting"
  /\ session' = [session EXCEPT ![s] = "cleanup_unknown"]
  /\ closing' = [closing EXCEPT ![s] = "none"]
  /\ UNCHANGED <<authorization, execution, of, sessionRequested, executionRequested>>
  /\ UNCHANGED <<openTask, executeTask, submission, revocation>>
  /\ UNCHANGED <<network, ledger, runtime, budget>>

\* mark_session_cleanup_unknown, when there is no channel, when it breaks or
\* when the grace period ends first.
GiveUpClose(s) ==
  /\ \/ closing[s] = "begun" /\ ~connected
     \/ closing[s] = "waiting"
  /\ session' = [session EXCEPT ![s] =
                   IF @ \in {"active", "closing"} THEN "cleanup_unknown" ELSE @]
  /\ closing' = [closing EXCEPT ![s] = "none"]
  /\ UNCHANGED <<authorization, execution, of, sessionRequested, executionRequested>>
  /\ UNCHANGED <<openTask, executeTask, submission, revocation>>
  /\ UNCHANGED <<network, ledger, runtime, budget>>

-----------------------------------------------------------------------------
(* Revocation (revoke_device).                                             *)

RevocationAt(step, s) == revocation' = [step |-> step, session |-> s]

\* The commit that everything else follows.
Revoke ==
  /\ authorization = "active"
  /\ Spend("revoke")
  /\ authorization' = "revoked"
  /\ RevocationAt("look", 0)
  /\ UNCHANGED <<session, execution, of, sessionRequested, executionRequested>>
  /\ UNCHANGED <<openTask, executeTask, submission, closing>>
  /\ UNCHANGED <<network, ledger, runtime>>

\* get_live_device_session and get_connected_channel.
LookForLiveSession ==
  /\ revocation.step = "look"
  /\ \/ /\ \A s \in Sessions : session[s] \notin {"starting", "active", "closing"}
        /\ RevocationAt("disconnect", 0)
     \/ \E s \in Sessions :
          /\ session[s] \in {"starting", "active", "closing"}
          /\ IF session[s] = "active" /\ connected
             THEN RevocationAt("close", s) ELSE RevocationAt("unconfirmed", s)
  /\ UNCHANGED <<openTask, executeTask, submission, closing>>
  /\ UNCHANGED <<tables, network, ledger, runtime, budget>>

\* begin_session_close may find that the session is no longer active; sending
\* on a broken channel fails.
CloseRevokedSession ==
  /\ revocation.step = "close"
  /\ LET s == revocation.session IN
     IF session[s] # "active"
     THEN /\ RevocationAt("disconnect", 0)
          /\ UNCHANGED <<session, inbox>>
     ELSE /\ session' = [session EXCEPT ![s] = "closing"]
          /\ HasRoom
          /\ Send(Command("close_session", s, 0))
          /\ RevocationAt(IF connected THEN "waiting" ELSE "unconfirmed", s)
  /\ UNCHANGED <<authorization, execution, of, sessionRequested, executionRequested>>
  /\ UNCHANGED <<openTask, executeTask, submission, closing>>
  /\ UNCHANGED <<connected, ledger, runtime, budget>>

\* The grace period ends, or the channel breaks.
GiveUpRevokedClose ==
  /\ revocation.step = "waiting"
  /\ RevocationAt("unconfirmed", revocation.session)
  /\ UNCHANGED <<openTask, executeTask, submission, closing>>
  /\ UNCHANGED <<tables, network, ledger, runtime, budget>>

\* The unfinished executions of sessions in these states, as outcome_unknown.
ExecutionsUnknownIn(states) ==
  [e \in Executions |->
     IF of[e] # 0 /\ session[of[e]] \in states /\ execution[e] \in Unfinished
     THEN "outcome_unknown" ELSE execution[e]]

MarkRevocationUnconfirmed_SessionsOnly == \* mutant
  /\ revocation.step = "unconfirmed"
  /\ execution' = ExecutionsUnknownIn({"starting", "active", "closing"})
  /\ session' = [s \in Sessions |->
       CASE session[s] = "starting" -> "failed"
         [] session[s] = "closing" -> "cleanup_unknown"
         [] OTHER -> session[s]]
  /\ RevocationAt("disconnect", 0)
  /\ UNCHANGED <<authorization, of, sessionRequested, executionRequested>>
  /\ UNCHANGED <<openTask, executeTask, submission, closing>>
  /\ UNCHANGED <<network, ledger, runtime, budget>>

\* mark_device_revocation_cleanup_unknown.
MarkRevocationUnconfirmed ==
  /\ revocation.step = "unconfirmed"
  /\ execution' = ExecutionsUnknownIn({"starting", "active", "closing"})
  /\ session' = [s \in Sessions |->
       CASE session[s] = "starting" -> "failed"
         [] session[s] \in {"active", "closing"} -> "cleanup_unknown"
         [] OTHER -> session[s]]
  /\ RevocationAt("disconnect", 0)
  /\ UNCHANGED <<authorization, of, sessionRequested, executionRequested>>
  /\ UNCHANGED <<openTask, executeTask, submission, closing>>
  /\ UNCHANGED <<network, ledger, runtime, budget>>

\* registry.disconnect: the channel is no longer registered when its handler
\* ends, so fail_device_investigations is not called for it.
DisconnectRevoked ==
  /\ revocation.step = "disconnect"
  /\ RevocationAt("done", 0)
  /\ connected' = FALSE /\ inbox' = <<>>
  /\ UNCHANGED <<openTask, executeTask, submission, closing>>
  /\ UNCHANGED <<tables, ledger, runtime, budget>>

-----------------------------------------------------------------------------
(* Connections and restarts.                                               *)

\* A new RuntimeFrame; the worker and the invocation are those of the process.
Connect ==
  /\ service = "running" /\ ~connected /\ authorization = "active"
  /\ connected' = TRUE
  /\ frame' = [session |-> SnapshotSession, execution |-> SnapshotExecution]
  /\ closeAfter' = FALSE
  /\ UNCHANGED <<service, worker, invocation, claims, strays, runs>>
  /\ UNCHANGED <<inbox, tables, tasks, ledger, budget>>

\* The handler of a registered channel ends: fail_device_investigations
\* finalizes the work of a revoked device only.
ChannelEnds ==
  /\ connected' = FALSE /\ inbox' = <<>>
  /\ IF connected /\ authorization = "revoked"
     THEN /\ execution' = ExecutionsUnknownIn({"starting", "active", "closing"})
          /\ session' = [s \in Sessions |->
               CASE session[s] = "starting" -> "failed"
                 [] session[s] = "closing" -> "cleanup_unknown"
                 [] OTHER -> session[s]]
     ELSE UNCHANGED <<session, execution>>
  /\ UNCHANGED <<authorization, of, sessionRequested, executionRequested>>

\* The heartbeat of a revoked device is denied and ends its channel.
Disconnect ==
  /\ connected
  /\ \/ Spend("disconnect")
     \/ authorization = "revoked" /\ UNCHANGED budget
  /\ ChannelEnds
  /\ UNCHANGED <<tasks, ledger, runtime>>

RestartControlPlane_FailsAllQueued == \* mutant
  /\ Spend("control_restart")
  /\ connected' = FALSE /\ inbox' = <<>>
  /\ session' = session
  /\ execution' = [e \in Executions |->
       IF execution[e] = "queued" THEN "failed_to_start" ELSE execution[e]]
  /\ openTask' = [s \in Sessions |-> "none"]
  /\ executeTask' = [e \in Executions |-> "none"]
  /\ submission' = [e \in Executions |-> "none"]
  /\ closing' = [s \in Sessions |-> "none"]
  /\ revocation' = [step |-> "none", session |-> 0]
  /\ UNCHANGED <<authorization, of, sessionRequested, executionRequested>>
  /\ UNCHANGED <<ledger, runtime>>

\* The control plane restarts: tasks, handlers and channels are gone.  Work that
\* was not dispatched is failed (recover_interrupted_work), the rest retried.
RestartControlPlane ==
  /\ Spend("control_restart")
  /\ connected' = FALSE /\ inbox' = <<>>
  /\ session' = [s \in Sessions |->
       IF session[s] = "starting" /\ s \notin sessionRequested THEN "failed" ELSE session[s]]
  /\ execution' = [e \in Executions |->
       IF execution[e] = "queued" /\ e \notin executionRequested
       THEN "failed_to_start" ELSE execution[e]]
  /\ openTask' = [s \in Sessions |->
       IF session'[s] = "starting" /\ authorization = "active" THEN "mark" ELSE "none"]
  /\ executeTask' = [e \in Executions |->
       IF execution'[e] = "queued" /\ session'[of[e]] = "active" /\ authorization = "active"
       THEN "mark" ELSE "none"]
  /\ submission' = [e \in Executions |-> "none"]
  /\ closing' = [s \in Sessions |-> "none"]
  /\ revocation' = [step |-> "none", session |-> 0]
  /\ UNCHANGED <<authorization, of, sessionRequested, executionRequested>>
  /\ UNCHANGED <<ledger, runtime>>

\* The agent's service dies, and closing its job objects kills the workers.
\* Until it is back, worker and invocation are what the ledger tells of them.
CrashService ==
  /\ service = "running"
  /\ Spend("service_crash")
  /\ service' = "stopped"
  /\ strays' = {}
  /\ ChannelEnds
  /\ UNCHANGED <<worker, frame, invocation, closeAfter, claims, runs>>
  /\ UNCHANGED <<tasks, ledger>>

RestartService_AlwaysLoss == \* mutant
  /\ service = "stopped"
  /\ service' = "running"
  /\ pending' = Append(pending, Entry("worker_stopped", SnapshotSession,
                                     SnapshotExecution, "confirmed"))
  /\ worker' = 0 /\ frame' = NoFrame /\ invocation' = NoInvocation
  /\ closeAfter' = FALSE
  /\ UNCHANGED <<claims, strays, runs>>
  /\ UNCHANGED <<ackDue, tables, tasks, network, budget>>

RestartService_NoLoss == \* mutant
  /\ service = "stopped"
  /\ service' = "running"
  /\ UNCHANGED pending
  /\ worker' = 0 /\ frame' = NoFrame /\ invocation' = NoInvocation
  /\ closeAfter' = FALSE
  /\ UNCHANGED <<claims, strays, runs>>
  /\ UNCHANGED <<ackDue, tables, tasks, network, budget>>

\* RecordRestartLossIfNeeded.
RestartService ==
  /\ service = "stopped"
  /\ service' = "running"
  /\ pending' = IF SnapshotSession = 0 THEN pending
                ELSE Append(pending, Entry("worker_stopped", SnapshotSession,
                                           SnapshotExecution, "confirmed"))
  /\ worker' = 0 /\ frame' = NoFrame /\ invocation' = NoInvocation
  /\ closeAfter' = FALSE
  /\ UNCHANGED <<claims, strays, runs>>
  /\ UNCHANGED <<ackDue, tables, tasks, network, budget>>

-----------------------------------------------------------------------------
(* Ledger ingestion.                                                       *)

WithSession(db, s, state) == [db EXCEPT !.session[s] = state]
WithExecution(db, e, status) == [db EXCEPT !.execution[e] = status]
Rejected(db) == [db EXCEPT !.accepted = FALSE]

\* worker_stopped: an unfinished execution becomes outcome_unknown; the session
\* is lost when the cleanup was confirmed.
AfterWorkerStopped(db, r) ==
  LET left == IF r.execution # 0 /\ db.execution[r.execution] \in Unfinished
              THEN WithExecution(db, r.execution, "outcome_unknown") ELSE db
      before == db.session[r.session]
  IN CASE r.note = "confirmed" /\ before \in Live -> WithSession(left, r.session, "lost")
       [] r.note = "unconfirmed" /\ before \in {"starting", "active", "closing"} ->
            WithSession(left, r.session, "cleanup_unknown")
       [] OTHER -> left

\* _apply_ledger_record on the two tables.
Applied(db, r) ==
  CASE r.type = "session_started" ->
         IF db.session[r.session] \in {"starting", "active"}
         THEN WithSession(db, r.session, "active") ELSE Rejected(db)
    [] r.type \in {"execution_accepted", "execution_started"} ->
         IF db.execution[r.execution] \in Unfinished
         THEN WithExecution(db, r.execution, "running") ELSE Rejected(db)
    [] r.type = "execution_finished" ->
         IF db.execution[r.execution] \in Unfinished
         THEN WithExecution(db, r.execution, r.note) ELSE Rejected(db)
    [] r.type = "cancellation_requested" -> db
    [] r.type = "worker_stopped" -> AfterWorkerStopped(db, r)
    [] r.type = "session_closed" ->
         IF db.session[r.session] \in Live \cup {"lost"}
         THEN WithSession(db, r.session, "closed") ELSE Rejected(db)

\* The tables after the first n pending records.
AfterBatch[n \in 0 .. Len(pending)] ==
  IF n = 0 THEN [session |-> session, execution |-> execution, accepted |-> TRUE]
  ELSE LET db == AfterBatch[n - 1]
       IN IF db.accepted THEN Applied(db, pending[n]) ELSE db

\* A batch is sent when the one before it is acknowledged, and again on a new
\* connection.
MayArrive(n) ==
  /\ connected /\ service = "running"
  /\ ~AckUnderWay
  /\ n <= Len(pending)
  /\ n > 0 \/ ackDue

SessionsClosedIn(n) ==
  {s \in Sessions : \E i \in 1 .. n : pending[i].type = "session_closed" /\ pending[i].session = s}

\* One transaction for the batch, then the waiters for a closed session, then
\* the acknowledgement.
Ingest(n) ==
  /\ MayArrive(n)
  /\ AfterBatch[n].accepted
  /\ session' = AfterBatch[n].session
  /\ execution' = AfterBatch[n].execution
  /\ pending' = SubSeq(pending, n + 1, Len(pending))
  /\ ackDue' = TRUE
  /\ closing' = [s \in Sessions |->
       IF s \in SessionsClosedIn(n) /\ closing[s] = "waiting" THEN "none" ELSE closing[s]]
  /\ IF revocation.step = "waiting" /\ revocation.session \in SessionsClosedIn(n)
     THEN RevocationAt("disconnect", 0) ELSE UNCHANGED revocation
  /\ Send(Ack)
  /\ UNCHANGED <<authorization, of, sessionRequested, executionRequested>>
  /\ UNCHANGED <<openTask, executeTask, submission, connected, runtime, budget>>

\* Any error rolls the batch back and closes the connection.
RejectBatch(n) ==
  /\ MayArrive(n)
  /\ ~AfterBatch[n].accepted
  /\ ChannelEnds
  /\ UNCHANGED <<tasks, ledger, runtime, budget>>

-----------------------------------------------------------------------------
(* The endpoint's runtime loop.                                            *)

Handling(type) ==
  /\ connected /\ service = "running"
  /\ inbox # <<>> /\ Head(inbox).type = type
  /\ inbox' = Tail(inbox)

Record(entries) == pending' = pending \o entries

Dropped ==
  /\ worker' = 0 /\ frame' = NoFrame /\ closeAfter' = FALSE

\* TryApplyAck.
HandleAck ==
  /\ Handling("ledger_ack")
  /\ ackDue' = FALSE
  /\ UNCHANGED <<connected, pending, tables, tasks, runtime, budget>>

MayOpen == ~HasUnacknowledgedRecords /\ worker = 0 /\ ~Busy

HandleOpen ==
  /\ Handling("open_session") /\ MayOpen
  /\ LET s == Head(inbox).session IN
     /\ worker' = s
     /\ frame' = [session |-> s, execution |-> 0]
     /\ Record(<<Entry("session_started", s, 0, "none")>>)
  /\ UNCHANGED <<service, invocation, closeAfter, claims, strays, runs>>
  /\ UNCHANGED <<connected, ackDue, tables, tasks, budget>>

\* The worker does not get ready within its 60 s.
FailOpen ==
  /\ Handling("open_session") /\ MayOpen
  /\ Spend("worker_failure")
  /\ UNCHANGED <<connected, ledger, tables, tasks, runtime>>

Retire_AlwaysCleaned(s, e) == \* mutant
  \E cleaned \in BOOLEAN :
    /\ Record(<<Entry("session_closed", s, 0, "none")>>)
    /\ strays' = IF cleaned THEN strays ELSE strays \cup {s}

\* Cleanup of the worker and the record that tells its outcome.
Retire(s, e) ==
  \E cleaned \in BOOLEAN :
    /\ Record(IF cleaned THEN <<Entry("session_closed", s, 0, "none")>>
              ELSE <<Entry("worker_stopped", s, e, "unconfirmed")>>)
    /\ strays' = IF cleaned THEN strays ELSE strays \cup {s}

HandleCloseIdle ==
  /\ Handling("close_session")
  /\ Head(inbox).session = frame.session /\ ~Busy
  /\ Retire(frame.session, 0)
  /\ worker' = 0 /\ frame' = NoFrame
  /\ UNCHANGED <<service, invocation, closeAfter, claims, runs>>
  /\ UNCHANGED <<connected, ackDue, tables, tasks, budget>>

HandleCloseBusy ==
  /\ Handling("close_session")
  /\ Head(inbox).session = frame.session /\ Busy
  /\ closeAfter' = TRUE
  /\ invocation' = [invocation EXCEPT !.stop = TRUE]
  /\ UNCHANGED <<service, worker, frame, claims, strays, runs>>
  /\ UNCHANGED <<connected, ledger, tables, tasks, budget>>

MayExecute_Again(m) == \* mutant
  /\ ~HasUnacknowledgedRecords
  /\ worker # 0 /\ ~Busy
  /\ m.session = frame.session

MayExecute(m) ==
  /\ ~HasUnacknowledgedRecords
  /\ worker # 0 /\ ~Busy
  /\ m.session = frame.session
  /\ m.execution \notin claims

\* TryExecutionAccepted appends first and persists the claim then.
HandleExecute ==
  /\ Handling("execute") /\ MayExecute(Head(inbox))
  /\ LET e == Head(inbox).execution IN
     /\ invocation' = [NoInvocation EXCEPT !.execution = e, !.phase = "accepted"]
     /\ frame' = [frame EXCEPT !.execution = e]
     /\ runs' = [runs EXCEPT ![e] = @ + 1]
     /\ Record(<<Entry("execution_accepted", frame.session, e, "none")>>)
  /\ closeAfter' = FALSE
  /\ UNCHANGED <<service, worker, claims, strays>>
  /\ UNCHANGED <<connected, ackDue, tables, tasks, budget>>

ClaimAndStart ==
  /\ service = "running" /\ invocation.phase = "accepted"
  /\ claims' = claims \cup {invocation.execution}
  /\ invocation' = [invocation EXCEPT !.phase = "running"]
  /\ Record(<<Entry("execution_started", worker, invocation.execution, "none")>>)
  /\ UNCHANGED <<service, worker, frame, closeAfter, strays, runs>>
  /\ UNCHANGED <<ackDue, network, tables, tasks, budget>>

MayCancel(m) == Busy /\ m.session = frame.session /\ m.execution = frame.execution

HandleCancel_ReportsAtOnce == \* mutant
  /\ Handling("cancel_execution") /\ MayCancel(Head(inbox))
  /\ invocation' = [invocation EXCEPT !.stop = TRUE]
  /\ Record(<<Entry("execution_finished", frame.session, frame.execution, "cancelled")>>)
  /\ UNCHANGED <<service, worker, frame, closeAfter, claims, strays, runs>>
  /\ UNCHANGED <<connected, ackDue, tables, tasks, budget>>

HandleCancel ==
  /\ Handling("cancel_execution") /\ MayCancel(Head(inbox))
  /\ invocation' = [invocation EXCEPT !.stop = TRUE]
  /\ Record(<<Entry("cancellation_requested", frame.session, frame.execution, "none")>>)
  /\ UNCHANGED <<service, worker, frame, closeAfter, claims, strays, runs>>
  /\ UNCHANGED <<connected, ackDue, tables, tasks, budget>>

\* Reject: the control plane ignores the answer.
RejectCommand ==
  /\ \/ Handling("open_session") /\ ~MayOpen
     \/ Handling("close_session") /\ Head(inbox).session # frame.session
     \/ Handling("execute") /\ ~MayExecute(Head(inbox))
     \/ Handling("cancel_execution") /\ ~MayCancel(Head(inbox))
  /\ UNCHANGED <<connected, ledger, tables, tasks, runtime, budget>>

\* WorkerProcess.Execute returns and CompleteAndLedger records it.  A session
\* deadline can stop any execution; a stopped one counts as cancelled or timed
\* out only when the job object confirms that its processes are gone.
Outcome ==
  [result : {"completed"}, cleaned : {TRUE}]
    \cup [result : {"explicit_exit", "outcome_unknown"}, cleaned : BOOLEAN]
    \cup [result : {"timed_out"}, cleaned : {TRUE}]
    \cup (IF invocation.stop THEN [result : {"cancelled"}, cleaned : {TRUE}] ELSE {})

Confirmation(cleaned) == IF cleaned THEN "confirmed" ELSE "unconfirmed"

Complete ==
  /\ service = "running" /\ invocation.phase = "running"
  /\ \E o \in Outcome :
       /\ invocation' = [invocation EXCEPT
            !.result = o.result, !.cleaned = o.cleaned,
            !.phase = IF o.result \in {"completed", "outcome_unknown"} THEN "ended" ELSE "retiring"]
       /\ Record(<<IF o.result = "outcome_unknown"
                   THEN Entry("worker_stopped", worker, invocation.execution, Confirmation(o.cleaned))
                   ELSE Entry("execution_finished", worker, invocation.execution,
                              IF o.result = "explicit_exit" THEN "completed" ELSE o.result)>>)
       /\ strays' = IF o.cleaned THEN strays ELSE strays \cup {worker}
  /\ UNCHANGED <<service, worker, frame, closeAfter, claims, runs>>
  /\ UNCHANGED <<ackDue, network, tables, tasks, budget>>

\* The worker_stopped that follows a finished execution which ended its worker.
RecordRetirement ==
  /\ service = "running" /\ invocation.phase = "retiring"
  /\ invocation' = [invocation EXCEPT !.phase = "ended"]
  /\ Record(<<Entry("worker_stopped", worker, invocation.execution,
                    Confirmation(invocation.cleaned))>>)
  /\ UNCHANGED <<service, worker, frame, closeAfter, claims, strays, runs>>
  /\ UNCHANGED <<ackDue, network, tables, tasks, budget>>

\* FinalizeCompletedInvocation, in the loop of a connection.
FinalizeCompletedInvocation ==
  /\ service = "running" /\ connected /\ invocation.phase = "ended"
  /\ invocation' = NoInvocation
  /\ \/ /\ invocation.result = "completed" /\ closeAfter
        /\ Retire(worker, invocation.execution)
        /\ Dropped
     \/ /\ invocation.result = "completed" /\ ~closeAfter
        /\ frame' = [frame EXCEPT !.execution = 0]
        /\ UNCHANGED <<worker, closeAfter, pending, strays>>
     \/ /\ invocation.result # "completed"
        /\ Record(IF invocation.result # "outcome_unknown" /\ closeAfter /\ invocation.cleaned
                  THEN <<Entry("session_closed", worker, 0, "none")>> ELSE <<>>)
        /\ Dropped
        /\ UNCHANGED strays
  /\ UNCHANGED <<service, claims, runs>>
  /\ UNCHANGED <<ackDue, network, tables, tasks, budget>>

\* ExpireSession of an idle session; that of a busy one is a time-out.
ExpireSession ==
  /\ service = "running" /\ connected /\ frame.session # 0 /\ ~Busy
  /\ Retire(frame.session, 0)
  /\ Dropped
  /\ UNCHANGED <<service, invocation, claims, runs>>
  /\ UNCHANGED <<ackDue, network, tables, tasks, budget>>

-----------------------------------------------------------------------------
Init ==
  /\ authorization = "active"
  /\ session = [s \in Sessions |-> "none"]
  /\ execution = [e \in Executions |-> "none"]
  /\ of = [e \in Executions |-> 0]
  /\ sessionRequested = {} /\ executionRequested = {}
  /\ openTask = [s \in Sessions |-> "none"]
  /\ executeTask = [e \in Executions |-> "none"]
  /\ submission = [e \in Executions |-> "none"]
  /\ closing = [s \in Sessions |-> "none"]
  /\ revocation = [step |-> "none", session |-> 0]
  /\ connected = FALSE /\ inbox = <<>>
  /\ service = "running" /\ worker = 0 /\ frame = NoFrame
  /\ invocation = NoInvocation /\ closeAfter = FALSE
  /\ claims = {} /\ strays = {} /\ pending = <<>> /\ ackDue = FALSE
  /\ runs = [e \in Executions |-> 0]
  /\ budget = Budget

SessionRequests ==
  \E s \in Sessions :
    \/ CreateSession(s) \/ MarkOpen(s) \/ SendOpen(s)
    \/ BeginClose(s) \/ SendClose(s) \/ GiveUpClose(s)

ExecutionRequests ==
  \E e \in Executions :
    \/ \E s \in Sessions : SubmitExecution(e, s)
    \/ RouteExecution(e) \/ FailToStart(e) \/ RetrySubmission(e)
    \/ MarkExecute(e) \/ SendExecute(e)
    \/ WithdrawExecution(e) \/ CancelExecution(e)

Revocation ==
  \/ Revoke \/ LookForLiveSession \/ CloseRevokedSession \/ GiveUpRevokedClose
  \/ MarkRevocationUnconfirmed \/ DisconnectRevoked

Ingestion == \E n \in 0 .. Len(pending) : Ingest(n) \/ RejectBatch(n)

HandleMessage ==
  \/ HandleAck \/ HandleOpen \/ FailOpen \/ HandleCloseIdle \/ HandleCloseBusy
  \/ HandleExecute \/ HandleCancel \/ RejectCommand

WorkerSteps ==
  \/ ClaimAndStart \/ Complete \/ RecordRetirement
  \/ FinalizeCompletedInvocation \/ ExpireSession

Restarts ==
  \/ Connect \/ Disconnect \/ RestartControlPlane \/ CrashService \/ RestartService

Next ==
  \/ SessionRequests \/ ExecutionRequests \/ Revocation \/ Ingestion
  \/ HandleMessage \/ WorkerSteps \/ Restarts

Spec == Init /\ [][Next]_vars

\* Tasks, handlers and the loops of the endpoint go on while their process does;
\* the service is restarted and reconnects; executions and idle sessions end at
\* the latest when their deadline passes.
Fairness ==
  /\ \A s \in Sessions : WF_vars(MarkOpen(s)) /\ WF_vars(SendOpen(s))
                         /\ WF_vars(SendClose(s)) /\ WF_vars(GiveUpClose(s))
  /\ \A e \in Executions : WF_vars(RouteExecution(e)) /\ WF_vars(MarkExecute(e))
                           /\ WF_vars(SendExecute(e))
  /\ WF_vars(\E n \in 0 .. Len(pending) : n = Len(pending) /\ Ingest(n))
  /\ WF_vars(HandleMessage)
  /\ WF_vars(WorkerSteps)
  /\ WF_vars(Connect) /\ WF_vars(RestartService)

FairSpec == Spec /\ Fairness

-----------------------------------------------------------------------------
(* Properties.                                                             *)

\* Every variable has its type (the tables' states, the tasks, the runtime).
TypeOK ==
  /\ authorization \in {"active", "revoked"}
  /\ session \in [Sessions -> SessionStates]
  /\ execution \in [Executions -> ExecutionStates]
  /\ of \in [Executions -> Sessions \cup {0}]
  /\ sessionRequested \subseteq Sessions /\ executionRequested \subseteq Executions
  /\ openTask \in [Sessions -> {"none", "mark", "send"}]
  /\ executeTask \in [Executions -> {"none", "mark", "send"}]
  /\ submission \in [Executions -> {"none", "created", "offline"}]
  /\ closing \in [Sessions -> {"none", "begun", "waiting"}]
  /\ revocation \in
       [step : {"none", "look", "close", "waiting", "unconfirmed", "disconnect", "done"},
        session : Sessions \cup {0}]
  /\ connected \in BOOLEAN /\ ackDue \in BOOLEAN /\ closeAfter \in BOOLEAN
  /\ service \in {"running", "stopped"}
  /\ worker \in Sessions \cup {0}
  /\ frame \in [session : Sessions \cup {0}, execution : Executions \cup {0}]
  /\ invocation \in
       [execution : Executions \cup {0}, stop : BOOLEAN, cleaned : BOOLEAN,
        phase : {"none", "accepted", "running", "retiring", "ended"},
        result : {"none", "completed", "explicit_exit", "cancelled", "timed_out",
                  "outcome_unknown"}]
  /\ claims \subseteq Executions /\ strays \subseteq Sessions
  /\ inbox \in Seq([type : {"ledger_ack", "open_session", "close_session", "execute",
                            "cancel_execution"},
                    session : Sessions \cup {0}, execution : Executions \cup {0}])
  /\ pending \in Seq([type : {"session_started", "execution_accepted", "execution_started",
                              "execution_finished", "cancellation_requested",
                              "worker_stopped", "session_closed"},
                      session : Sessions, execution : Executions \cup {0},
                      note : {"none", "completed", "cancelled", "timed_out",
                              "confirmed", "unconfirmed"}])
  /\ runs \in [Executions -> Nat]
  /\ budget \in [Optional -> Nat]

Alive(s) ==
  \/ s \in strays
  \/ /\ service = "running" /\ worker = s
     /\ invocation.phase \in {"retiring", "ended"} => invocation.result = "completed"

Running(e) ==
  service = "running" /\ invocation.execution = e /\ invocation.phase \in {"accepted", "running"}

Terminal == ExecutionStates \ (Unfinished \cup {"none"})

\* "Closing confirms worker and owned-child cleanup" (docs/investigations.md:7-8),
\* and a lost session's worker "was retired" (docs/investigations.md:52): a session
\* that the control plane shows as closed or lost has no worker on the endpoint.
ConfirmedCleanup ==
  \A s \in Sessions : session[s] \in {"closed", "lost"} => ~Alive(s)

\* The first n pending records start session s, and ingestion refuses them.
StartRefused(s) ==
  \E n \in 1 .. Len(pending) :
    /\ pending[n].type = "session_started" /\ pending[n].session = s
    /\ ~AfterBatch[n].accepted

\* A session that the control plane shows as closed or lost has no worker left on
\* the endpoint, whatever crashed, failed to stop or was sent late: cleanup is
\* confirmed, never assumed.  The one exception is a worker that an open_session
\* sent too late started again, and then the control plane refuses its record.
CleanupUnlessReopened ==
  \A s \in Sessions : session[s] \in {"closed", "lost"} /\ Alive(s) => StartRefused(s)

\* When every ledger record is committed, both sides tell the same story: an
\* open session has its worker, a worker has its session, and exactly the
\* running execution is in it.
ReconciledViewsAgree ==
  pending = <<>> /\ service = "running" /\ authorization = "active" =>
    /\ \A s \in Sessions :
         /\ session[s] \in {"active", "closing"} => worker = s
         /\ Alive(s) => session[s] \in {"active", "closing", "cleanup_unknown"}
    /\ \A e \in Executions : execution[e] = "running" <=> Running(e)

\* An execution that the endpoint reported as ended does not run any more.
FinishedMeansStopped ==
  \A e \in Executions :
    execution[e] \in {"completed", "timed_out", "cancelled"} => ~Running(e)

\* An execution the endpoint accepted is never called failed_to_start while no
\* submission was repeated, neither by a submission that finds the device offline
\* nor by the recovery at start-up, whatever was dispatched and lost before.
NeverRanUnlessRepeated ==
  budget["retry"] = Budget["retry"] =>
    \A e \in Executions : execution[e] = "failed_to_start" => runs[e] = 0

\* cancelled and timed_out are used only when the endpoint confirms that the
\* execution stopped, a withdrawn execution being one the endpoint never runs.
CancelledMeansStopped ==
  \A e \in Executions :
    execution[e] \in {"cancelled", "timed_out", "withdrawn"} => ~Running(e)

\* The endpoint accepts an execution at most once, through retries, repeated
\* dispatches, reconnections and restarts of both sides.
RunsAtMostOnce == \A e \in Executions : runs[e] <= 1

\* The outcome of an execution and the end of a session are final, whichever of
\* ingestion, cancellation, recovery and revocation comes later; only evidence
\* of cleanup still moves a session from lost to closed.
OutcomesAreFinal ==
  [][/\ \A e \in Executions : execution[e] \in Terminal => execution'[e] = execution[e]
     /\ \A s \in Sessions :
          /\ session[s] \in {"closed", "failed"} => session'[s] = session[s]
          /\ session[s] = "lost" => session'[s] \in {"lost", "closed"}]_vars

\* revoke_device has run, and no other request is being handled.
RevocationSettled ==
  /\ revocation.step = "done"
  /\ \A s \in Sessions : closing[s] = "none"
  /\ \A e \in Executions : submission[e] = "none"

\* After revoke_device has run, whatever it raced with, the device has no session
\* that still looks usable or is being closed.
RevokedLeavesNoLiveSession ==
  RevocationSettled => \A s \in Sessions : session[s] \notin {"starting", "active", "closing"}

\* Work the endpoint accepted ends, and a session that was requested or is
\* being closed leaves that state.
AcceptedWorkEnds ==
  \A e \in Executions : execution[e] = "running" ~> execution[e] \in Terminal
SessionsSettle ==
  \A s \in Sessions : session[s] \in {"starting", "closing"}
                        ~> session[s] \notin {"starting", "closing"}

\* A dispatched execution is accepted or terminally reconciled by the ledger.
DispatchedIsReconciled ==
  \A e \in Executions : e \in executionRequested ~> execution[e] # "queued"

=============================================================================
