--------------------------- MODULE DiagnosticRun ---------------------------
(***************************************************************************)
(* One run of the diagnostic driver (openai_driver.py): a session, the     *)
(* scripts that the model submits, the waits for them, the final report    *)
(* and the close.  The control plane is TerminalWait plus the inserts of   *)
(* submit_execution.                                                       *)
(*                                                                         *)
(* The model's choice of tools is arbitrary, one call at a time            *)
(* (parallel_tool_calls is False).  A request is handled by the control    *)
(* plane also when its caller has given up on the response.                *)
(***************************************************************************)
EXTENDS TerminalWait

CONSTANT MaxSteps   \* max_steps

\* Executions and waits are numbered in the order in which they are requested.
ASSUME DriverAssumption ==
  MaxSteps \in 1 .. 20 /\ Executions \subseteq Nat /\ Waiters \subseteq Nat

VARIABLES
  phase,        \* of drive_diagnostic
  sessionOpen,  \* the session row is active
  call,         \* the tool call under way
  inFlight,     \* submissions the control plane has not handled
  created,      \* executions it inserted
  submitted,    \* ctx.scripts_submitted
  owned,        \* ctx.owned_execution_ids
  terminal,     \* ctx.terminal_execution_ids
  completed     \* DiagnosticResult.completed

context == <<submitted, owned, terminal>>
server == <<inFlight, created>>
driverVars == <<phase, sessionOpen, call, server, context, completed>>
vars == <<waitVars, driverVars>>

NoCall == [tool |-> "none", id |-> None]
SubmitCall(e) == [tool |-> "submit_script", id |-> e]
WaitCall(w) == [tool |-> "wait_for_execution", id |-> w]

\* A lost response ends the run before there is anything to close.
OpenSession ==
  /\ phase = "opening"
  /\ sessionOpen' = TRUE
  /\ phase' \in {"running", "failed_to_open"}
  /\ UNCHANGED <<waitVars, call, server, context, completed>>

Idle == phase = "running" /\ call = NoCall

CountAtRequest_Not == 0 \* mutant
CountAtRequest == 1

Unused == Executions \ (inFlight \cup created)

\* _submit_script counts the script before it sends the request.
SubmitScript(e) ==
  /\ Idle /\ submitted < MaxSteps
  /\ e \in Unused /\ \A f \in Unused : e <= f
  /\ submitted' = submitted + CountAtRequest
  /\ inFlight' = inFlight \cup {e}
  /\ call' = SubmitCall(e)
  /\ UNCHANGED <<waitVars, phase, sessionOpen, created, owned, terminal, completed>>

\* submit_execution: one live execution per session, in an active session.
HandleSubmission(e) ==
  /\ e \in inFlight
  /\ inFlight' = inFlight \ {e}
  /\ IF sessionOpen /\ created \subseteq finished
       THEN created' = created \cup {e} ELSE UNCHANGED created
  /\ UNCHANGED <<waitVars, phase, sessionOpen, call, context, completed>>

TakeReply(e) ==
  /\ phase = "running" /\ call = SubmitCall(e) /\ e \in created
  /\ owned' = owned \cup {e}
  /\ call' = NoCall
  /\ UNCHANGED <<waitVars, phase, sessionOpen, server, submitted, terminal, completed>>

\* wait_for_execution for an owned execution.
WaitForExecution(w, e) ==
  /\ Idle /\ e \in owned
  /\ \A v \in Waiters : step[v] = "idle" => w <= v
  /\ Begin(w, e)
  /\ call' = WaitCall(w)
  /\ UNCHANGED <<phase, sessionOpen, server, context, completed>>

SaysTerminal_TimedOut(w) == answer[w] \in {"terminal", "wait_timed_out"} \* mutant
SaysTerminal(w) == answer[w] = "terminal"

TakeAnswer(w) ==
  /\ phase = "running" /\ call = WaitCall(w)
  /\ Respond(w)
  /\ terminal' = IF SaysTerminal(w) THEN terminal \cup {target[w]} ELSE terminal
  /\ call' = NoCall
  /\ UNCHANGED <<phase, sessionOpen, server, submitted, owned, completed>>

\* A refusal, a lost response or a timeout: the tool tells the model of an error.
FailCall ==
  /\ phase = "running" /\ call # NoCall
  /\ call' = NoCall
  /\ UNCHANGED <<waitVars, phase, sessionOpen, server, context, completed>>

AllSubmittedTerminal == submitted = Cardinality(owned) /\ owned \subseteq terminal

RequiredScripts == IF MaxSteps < 2 THEN MaxSteps ELSE 2

\* Nothing reads the context of the tools afterwards.
LeaveRunner ==
  /\ phase' = "closing"
  /\ submitted' = 0 /\ owned' = {} /\ terminal' = {}

\* The model's final output, or the empty one.
FinalOutput(text) ==
  /\ Idle
  /\ completed' = (text /\ Cardinality(terminal) >= RequiredScripts /\ AllSubmittedTerminal)
  /\ LeaveRunner
  /\ UNCHANGED <<waitVars, sessionOpen, call, server>>

\* The deadline, MaxTurnsExceeded or any other error of the runner.
StopRunner ==
  /\ phase = "running"
  /\ LeaveRunner
  /\ call' = NoCall
  /\ UNCHANGED <<waitVars, sessionOpen, server, completed>>

\* The finally block; a close whose response is lost may still have its effect.
CloseSession ==
  /\ phase = "closing"
  /\ phase' = "ended"
  /\ sessionOpen' \in {FALSE, sessionOpen}
  /\ UNCHANGED <<waitVars, call, server, context, completed>>

\* The endpoint reports the end of an execution.
EndExecution(e) == e \in created /\ Finish(e) /\ UNCHANGED driverVars

-----------------------------------------------------------------------------

Init ==
  /\ WaitInit
  /\ phase = "opening" /\ sessionOpen = FALSE
  /\ call = NoCall
  /\ inFlight = {} /\ created = {}
  /\ submitted = 0 /\ owned = {} /\ terminal = {}
  /\ completed = FALSE

Tool ==
  \/ \E e \in Executions : SubmitScript(e) \/ TakeReply(e)
  \/ \E w \in Waiters : TakeAnswer(w)
  \/ \E w \in Waiters, e \in Executions : WaitForExecution(w, e)
  \/ FailCall

Driver ==
  \/ OpenSession \/ Tool \/ StopRunner \/ CloseSession
  \/ \E text \in BOOLEAN : FinalOutput(text)

ControlPlaneTasks ==
  /\ \/ \E e \in Executions : Notification(e)
     \/ \E w \in Waiters : WaitStep(w)
  /\ UNCHANGED driverVars

ControlPlane ==
  \/ \E e \in Executions : HandleSubmission(e) \/ EndExecution(e)
  \/ ControlPlaneTasks
  \/ \E e \in Executions : FailToNotify(e) /\ UNCHANGED driverVars
  \/ \E w \in Waiters : (Expire(w) \/ FailRead(w)) /\ UNCHANGED driverVars
  \/ \E w \in Waiters : call # WaitCall(w) /\ Respond(w) /\ UNCHANGED driverVars

Next == Driver \/ ControlPlane

Spec == Init /\ [][Next]_vars

\* The event loop of the control plane runs its tasks.  A timeout of a wait, the
\* end of a script and every step of the driver need not come.
Fairness == WF_vars(ControlPlaneTasks)

FairSpec == Spec /\ Fairness

-----------------------------------------------------------------------------
(* Properties.                                                             *)

TypeOK ==
  /\ WaitTypeOK
  /\ phase \in {"opening", "failed_to_open", "running", "closing", "ended"}
  /\ sessionOpen \in BOOLEAN /\ completed \in BOOLEAN
  /\ call \in {NoCall} \cup {SubmitCall(e) : e \in Executions} \cup {WaitCall(w) : w \in Waiters}
  /\ inFlight \subseteq Executions /\ created \subseteq Executions
  /\ owned \subseteq created /\ terminal \subseteq owned
  /\ submitted \in 0 .. MaxSteps

\* "Diagnostic completed" is true of every script that ever reaches the device:
\* also one whose response was lost is terminal, or the run is not completed.
CompletedMeansTerminal ==
  completed => /\ inFlight = {} /\ created \subseteq finished
               /\ Cardinality(created) >= RequiredScripts

\* The device runs at most max_steps scripts of a run, however many responses
\* are lost.
ScriptBudgetHolds == Cardinality(created \cup inFlight) <= MaxSteps

\* A waiter of a terminal execution returns without the help of a timeout,
\* unless the notification failed.
WaitsReturn ==
  \A w \in Waiters :
    step[w] = "parked" /\ target[w] \in finished
      ~> \/ step[w] \in {"done", "sent"}
         \/ target[w] # None /\ notifier[target[w]] = "failed"
=============================================================================
