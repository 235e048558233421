# Verification of ai-native-rmm

TLA+ models, TLC runs and TLAPS proofs for the control plane (`control_plane/`, Python) and the endpoint agent
(`src/EndpointAgent/`, C#). Paths below are relative to the repository; `app.py`, `database.py` and `connections.py`
are in `control_plane/`, as are `output_queries.py` and `openai_driver.py`; the `.cs` files are in `src/EndpointAgent/`. `PROJECT.json` maps every definition to its lines.

## 1. The system

| Component | State | Operations | Correct when |
|---|---|---|---|
| Endpoint ledger (`EndpointLedger.cs`) | segment files, ack checkpoint, execution claims; in memory: records, next sequence, durable and acknowledged marks, snapshot of the work in hand | append (lifecycle: fsynced; output: buffered 250 ms or 64 KiB), flush timer, pending batch, acknowledge, prune, reload at start | nothing is lost before it is committed; a sequence number is one record for ever |
| Ledger transport (`AgentRuntime.cs` `LedgerTransport`) | the in-flight mark of one connection | send one batch, observe its acknowledgement | everything is delivered, in order |
| Ledger ingestion (`database.py:718-931`, `/agent` in `app.py`) | `endpoint_ledger_records`, `endpoint_ledger_cursors`, sessions, executions, output | one transaction per batch; duplicates skipped, gaps and conflicts rejected | the committed records are 1..cursor; outcomes are final |
| Endpoint runtime (`AgentRuntime.cs`) | frame of a connection; worker, invocation and deadline of the process | handlers of `open_session`, `execute`, `cancel_execution`, `close_session`; end of an invocation; expiry; reconnection | one worker, one invocation; every accepted execution is recorded to its end |
| Worker process (`WorkerProcess.cs`, `OwnedJob.cs`) | process, pipe, Windows job object | start, execute, stop, dispose | stopped means the job has no process left |
| Sessions and executions (`app.py`, `database.py`) | rows; dispatch tasks; waiting requests | create, dispatch with retry, submit (idempotent), cancel, close, recover at start-up | the rows tell what happened on the endpoint |
| Revocation (`app.py:127`) | `authorization_status` | mark, close the live session, finalize, disconnect | nothing is left that looks usable |
| Channel registry (`connections.py`) | one channel per device, its waiters | register, unregister, disconnect, expect, deliver | commands go to the current, authorized endpoint; an older socket does not cut off a newer one |
| Enrolment and credentials (`database.py:221-388`, `Enrollment.cs`, migrations 0006 and 0007) | pairings, credentials | pair, approve, recover, authenticate, heartbeat, downgrade and upgrade | one active key, changed by recovery only and never under a session |
| Terminal wait (`app.py:453-500`) | condition and reference count per awaited execution | wait, notify | no lost wake-up; entries removed by the last waiter |
| Output queries (`output_queries.py`, `database.py:607-618`, `956-1021`) | the chunks of a stream (read only here) | chunk, page, search, tail, range | pages cover the output once; offsets stay true; a continued search finds everything |
| OpenAI driver (`openai_driver.py`) | scripts submitted, owned and seen as terminal in one run | open, submit, wait, finish, close | the budget of scripts holds; a completed run leaves nothing running |
| HTTP layer, rate limits, installer, Windows service | little or none | | not the subject of a concurrency model |

**Interaction.** HTTP handlers and the `/agent` WebSocket handler share one event loop; every database call is a
transaction in a thread, so any two of them interleave at the `await`s between. Handlers meet through rows, through
tasks that repeat a command every few seconds until the row leaves its state, and through futures that ledger ingestion
resolves. Commands reach the endpoint over one WebSocket per device. The endpoint answers with ledger records only; the
control plane ignores its `rejected` messages. The endpoint runtime is one loop per connection; a worker and its
invocation outlive the connection, not the process.

**Hard behaviour.** Disconnection at any point, batches and acknowledgements lost or late, a crash of the agent process
or of the machine between a write and its fsync, a restart of the control plane between two steps of a handler, repeated
dispatch, cancel/close/revoke/expiry racing one another, cleanup that cannot be confirmed; recovery of a device against
sessions being created and sockets that overlap; waiters, timeouts and notifications meeting at a condition; reads in two
transactions of output that grows; lost responses. `PROJECT.json` lists each hazard at its line with the properties that
cover it.

## 2. Modules and plan

| Module | Status | Content |
|---|---|---|
| `ReliableLog` | done | abstract: an append-only log of which a growing prefix is delivered |
| `LedgerReplication` | checked, proved | ledger, transport, ingestion, process crashes and power losses; implements `ReliableLog` |
| `Investigation` | checked, proved | sessions, executions, revocation, the runtime loop and recovery, over a reliable log |
| `DeviceCredentials` | checked, proved | pairing, recovery, activation, revocation, sessions being created, sockets, migration |
| `TerminalWait` | checked, proved | `wait_for_terminal` and `notify_terminal` |
| `DiagnosticRun` | checked, proved | the diagnostic driver, composed with `TerminalWait` |
| `OutputText`, `RetainedOutput` | checked, proved | text, chunks, pages and queries of retained output |
| `LedgerSegments` | later | segment files with torn lines, segment change, loss of the checkpoint |

`MC...` modules hold the instances for TLC, `...Proofs` modules the proofs: one for each component (`DiagnosticRunProofs` for both of its modules), three for `Investigation`
(`InvestigationBatchProofs`: what a batch does to a row; `InvestigationProofs`: one side at a time; `InvestigationViewsProofs`:
the two sides against each other). `RecursionLemmas` has what they need about recursive functions. `DiagnosticRun` extends `TerminalWait`: every wait of the
driver is a `Begin`, every execution it created may `Finish`. `DeviceCredentials` and `Investigation` share the device: the former
keeps of a session only whether the device has an unresolved one, the latter of a credential nothing.

`Investigation` composes with `LedgerReplication` through what the latter implements: it keeps the records not yet
committed as one sequence (`pending`) plus the fact that an acknowledgement is outstanding (`ackDue`). A combined module
would multiply the states without a new behaviour: connection loss, batching and late acknowledgements occur in both.

## 3. `LedgerReplication`

Records are atoms: sequence number, incarnation of the process that wrote them (standing for the content that the control plane
hashes) and type. `records` is what the process holds, `disk` what a reader of the segments finds, `synced` what a
power loss leaves. Every append in `EndpointLedger.cs` is one of `AppendDurably`, `AppendBuffered` and
`AppendFillingBuffer`; the third is the chunk that reaches the 64 KiB limit, which `AppendLocked` fsyncs without moving
its marks (the sum is tested before it is updated). `Restart` is the constructor: it believes everything it reads, continues
after the last record or after the checkpoint, and writes `worker_stopped` when a session was open.

`Connect` makes a new transport (in-flight mark 0). What was sent on an old connection stays in `batches[c]` and is
delivered late, lost or rejected. An acknowledgement is lost with its connection. `RejectBatch` is the `ValueError` path
of the `/agent` handler. `ProcessSpec` has process crashes, `Spec` power losses too: after one, a prefix of the
unsynced records survives.

Abstractions: a batch ends at any record (the code cuts by count and bytes); pruning deletes any prefix of whole records
that the prune mark covers (segment boundaries are left open); the prune mark is derived from the records; a record is
written whole or not at all.

| Run | Specification | Bounds | Shows |
|---|---|---|---|
| `ledger_process` | `FairProcessSpec` | 3 records, 2 connections, 1 crash, buffer of 2 chunks, capacity 2 (output is dropped, none is buffered) | `TypeOK`, `NothingLost`, `NeverGapped`, `ReconciledBeforeNewWork`, `EventuallyCommitted`, `EventuallyReconciled`, `ImplementsReliableLog` |
| `ledger_power_loss` | `Spec` | 3 records, 2 connections, 2 crashes, capacity 4 (output is buffered, none is dropped) | `OneRecordPerSequence`, `CommittedContiguously`, `AcknowledgedIsCommitted`, `NeverRegresses` |
| `ledger_power_loss_gap` | `Spec` | the same with 3 connections | violation: a crash and then a power loss leave a gap (finding) |

`MaxRecords` bounds the start of work only; records that end work are always written. Two connections are needed for a
late batch to meet its repetition, three for records to be sent before, between and after two crashes (the proofs are about any number). Deadlock is not
checked: a bounded ledger ends. No property says how often dropped output is recorded or that room is kept for lifecycle records.

**Fairness.** The flush timer fires (`ScheduleFlushLocked`), the sender and the receive loop of a live connection run, the
control plane handles what it receives, an execution ends (the session deadline stops it at the latest), the agent reconnects
(`Enrollment.Run`), the service is started again. The last is the operator's or Windows' doing, not the repository's. Connections may
drop only while another one can still be opened, so the last one lasts: with unboundedly many drops nothing would be guaranteed.

### Proofs (`LedgerReplicationProofs`)

For every value of the constants allowed by `ReplicationAssumption` (naturals, a non-empty buffer):

| Theorem | Statement |
|---|---|
| `TypeCorrect` | `Spec => []TypeOK` |
| `CommittedPrefix` | `Spec => []CommittedContiguously` |
| `AcknowledgedOnlyCommitted` | `Spec => []AcknowledgedIsCommitted` |
| `MarksNeverRegress` | `Spec => NeverRegresses` |
| `OneRecordEver` | `Spec => []OneRecordPerSequence` |
| `NothingEverLost` | `ProcessSpec => []NothingLost` |
| `NoGapEver` | `ProcessSpec => []NeverGapped` |
| `NewWorkIsReconciled` | `ProcessSpec => ReconciledBeforeNewWork` |
| `RefinesReliableLog` | `ProcessSpec => ImplementsReliableLog` (the refinement of `ReliableLog`) |

The invariants are in four layers, each inductive relative to the ones before:

1. `TransportInv`: a connection carries one batch or its acknowledgement, above the acknowledged mark and up to a durable
   record. Without it an acknowledgement could overtake the mark it is compared with.
2. `PrefixInv`: the committed numbers are 1..cursor, marks stay below the cursor, memory and checkpoint agree.
   `IngestExtends` shows that a batch that passes `LedgerGap` extends the prefix.
3. `AnchorInv`: what was sent or committed is *anchored*: its number is at most the checkpoint's, or at most that of a
   synced record. `OneRecordPerSequence` alone is not inductive: a power loss could remove a sent record and the restart
   hand its number out again. The anchor makes the restart continue above it.
4. `RetainInv` (without power losses): every number handed out and above the acknowledged mark is on disk and, while the
   process runs, in memory; every batch in transit is without holes.

The refinement maps the log to `History`: for each number handed out, the record that carries it, wherever it is. That it is a
function needs layers 3 and 4 together: every number has a record (`HistoryRecords`), and only one. That it only grows is
shown step by step: only an append makes a record, with the next number (`NumbersMove`, `HistoryKept`), a restart continues with
exactly the number the dead process would have used (`RestartContinues`), and the cursor follows.

`ledger_power_loss_gap` shows why layer 4 stops at process crashes: a restart sets `durableThrough` to the last record
it read (`EndpointLedger.cs:71`) though the dead process may not have fsynced it.

## 4. `Investigation`

One device. Tables are functions from row to status; `cancelled` with reason `caller_cancelled_before_start` is
`withdrawn`. Every request handler is cut at its awaits: `SubmitExecution`, `RouteExecution`, `FailToStart` are the three
steps of `submit_execution`; `BeginClose`, `SendClose`, `GiveUpClose` those of `close_session`; `Revoke` to
`DisconnectRevoked` those of `revoke_device`. A dispatch task repeats two steps, `MarkOpen` and `SendOpen` (`MarkExecute` and `SendExecute`):
between the commit of the mark and the send lie two awaits, so a command can be sent although its row has moved on. `inbox` is the ordered stream of
commands and acknowledgements to the endpoint; its order matters, because a repeated command that overtook an acknowledgement
would be accepted instead of rejected as `reconciliation_pending`. `Ingest(n)` commits the first n pending records in one
transaction (`AfterBatch` folds `Applied`, which is `_apply_ledger_record`), resolves the futures of closed sessions and
acknowledges; `RejectBatch` closes the channel. On the endpoint, `HandleMessage` has one action per branch,
`ClaimAndStart`, `Complete`, `RecordRetirement` and `FinalizeCompletedInvocation` are the stages of an invocation, each
between two appends. A crash can come between any two: the claim, for one, is written after the durable
`execution_accepted` record. A cleanup that is not confirmed leaves the session in `strays`.

Abstractions: output, audit rows, hashes, heartbeat freshness and pending replacement credentials are left out; the repeated tasks of one execution
are one; a session's deadline may pass whenever it exists; the worker's results are chosen among those
`WorkerProcess.Execute` can return; the start of a worker either succeeds or is swallowed by the loop after its 60 s; while
the service is stopped, `worker` and `invocation` stand for what its ledger tells.

Each optional event (`Optional`) happens as often as `Budget` says; the entry `any` bounds all of them together. The runs have one
session and one execution, allow each event they name once, and any two of them in one behaviour: the races of this component are between two
events and the regular work.

| Run | Specification and events | Shows |
|---|---|---|
| `investigation_failures` | `FairSpec`; disconnect, service crash, control plane restart, close; one command under way | `TypeOK`, `AcceptedWorkEnds`, `SessionsSettle` |
| `investigation_races` | `Spec`; all events; two commands under way | `RunsAtMostOnce`, `NeverRanUnlessRepeated`, `FinishedMeansStopped`, `RevokedLeavesNoLiveSession`, `OutcomesAreFinal`, `ReconciledViewsAgree`, `CleanupUnlessReopened` |
| `investigation_cancel_race` | `Spec`; cancel | violation of `CancelledMeansStopped` |
| `investigation_late_open` | `Spec`; close | violation of `ConfirmedCleanup` |
| `investigation_orphaned_execution` | `FairSpec`; none | violation of `DispatchedIsReconciled` under fairness |

`MaxCommands` bounds the commands under way, acknowledgements come besides: with one, a command can be before or behind an acknowledgement,
with two, also behind another command. What needs several sessions or executions
(a session after a lost one, a second execution in the same worker) is beyond the runs and left to the proofs, which are about any number of
both. Deadlock is not checked: bounded requests end.

`ConfirmedCleanup` is what `docs/investigations.md:7-8` and `:52` say of closed and lost sessions, and the code breaks it: when the answer of the
commit (`app.py:521`) is so late that an earlier send opened the session and it was closed meanwhile, the late `open_session` finds an
acknowledged ledger and no worker, and the endpoint starts one for the closed session. `CleanupUnlessReopened` is what remains true: such a session has
a worker only when its `session_started` is the first pending record and ingestion refuses it (`StartRefused`). From then on nothing more of
the ledger is committed, and the endpoint, whose records stay unacknowledged, accepts no further work. `ReconciledViewsAgree` is not affected:
its premise, an empty ledger, does not come back.

`NeverRanUnlessRepeated`: while no submission was repeated, an execution that is
`failed_to_start` was never accepted, so recovery at start-up is right. With a repeated submission it may have been, against
`docs/investigations.md:57-58` ("`failed_to_start` is used for known non-execution"): the first request
finds the device offline (`app.py:618`), the device reconnects, the second request dispatches the queued row (`app.py:626-629`), and
the first then marks it `failed_to_start` (`database.py:933-938` asks only for status queued). No run shows this case; without its
premise `investigation_races` violates the property.

`RevokedLeavesNoLiveSession` is about sessions, and about a `revoke_device` that ran to its end: a control plane that stops between the
commit of the revocation and its cleanup leaves the sessions as they were. Executions are not in the property: those of a session
that was already `cleanup_unknown` when its device is revoked are not in the update of `database.py:423-449` and stay as they are.

`FinishedMeansStopped` is `CancelledMeansStopped` without withdrawn executions: what the *endpoint* reports is right, what the control plane assumes
about a queued row is not.

**Fairness** (`FairSpec`): tasks and handlers of the control plane go on while it runs; batches on a live connection are
ingested whole; the runtime loop handles its messages; invocations and idle sessions end, by their deadline at the latest; the
service is restarted and reconnects. Requests of callers, cancellation, revocation and failures have no fairness.

### Proofs (`InvestigationBatchProofs`, `InvestigationProofs`, `InvestigationViewsProofs`)

For any number of sessions and executions and any budget of events (`InvestigationAssumption`: naturals):

| Theorem | Statement |
|---|---|
| `TypeCorrect` | `Spec => []TypeOK` |
| `AcceptedOnce` | `Spec => []RunsAtMostOnce` |
| `FinishedStopped` | `Spec => []FinishedMeansStopped` |
| `OutcomesFinal` | `Spec => OutcomesAreFinal` |
| `FailedMeansNeverRan` | `Spec => []NeverRanUnlessRepeated` |
| `RevokedHasNoLiveSession` | `Spec => []RevokedLeavesNoLiveSession` |
| `CleanupConfirmed` | `Spec => []CleanupUnlessReopened` |
| `ViewsAgree` | `Spec => []ReconciledViewsAgree` |

`Next` has some fifty actions, so the proofs go through summaries. `Shape` relates rows, tasks, commands, records and the endpoint
(a command names a row that was asked for, a record the session of its execution, and so on); with it every step is, for the rows,
one of the moves in `RowsMove` or a batch, and, for the endpoint, one of the effects in `EndpointEffect`, each with the record it writes. A batch is a
recursive function: `BatchSteps` gives its steps, and `SessionCarry` and `ExecutionCarry` carry a set of states through them, so
that `IngestSession` and `IngestExecution` say which record brought a row to its status.

The invariants, each inductive relative to `TypeOK`, `Shape` and those before it:

- `FinishedInv`: an execution that is reported as finished, *or that a record on its way reports*, is claimed and not in the worker. The
  property speaks of rows only and says nothing of the batch that will make it true or false. `AcceptedInv`: an execution accepted
  without a claim is in the worker, or its session is over, or the record that ends it is on its way. Otherwise a repeated command
  could start it a second time after a crash between acceptance and claim.
- `FirstSubmissionInv`: until a submission is repeated, one that still has to be routed was not dispatched.
- `RevocationInv`: at most one live session, and what revocation knows of it at each of its steps.
- `OpenInv`: the session of the endpoint's worker is open for the control plane, or opens with a record on its way, and no record on its
  way ends it. `WorkerInv` and `RunningInv` are the converse for sessions and executions: what is open or running, or will be with a record
  on its way, is so at the endpoint or is ended by a later record. With an empty ledger the two directions are `ReconciledViewsAgree`.
- `StartedInv`: the record that starts a session is the first one on its way, because the endpoint opens only on an empty ledger. `StraysInv`: a worker
  that could not be stopped stays visible as open or `cleanup_unknown`. Its second case (`StartedAgain`) is a late `open_session`: by `WorkerInv` it
  can start the session of such a worker again only when that session is `cleanup_unknown` (`LateOpen`), and then ingestion refuses
  the first pending record for ever, so the status stays (`StartedAgainStays`).

`CleanupConfirmed` follows: a living worker's session is shown as open or `cleanup_unknown`, or a pending record starts it. When the session is
over only the latter is left, the record is the first one, and `Applied` rejects it (`OverIsRefused`). No theorem assumes anything about when a
command is sent.

## 5. `DeviceCredentials`

A pairing code stands for the key it was issued to. Every transaction that takes advisory lock 4004 first (pairing, approval,
recovery, authentication) is one action. `create_starting_session` is two, `BeginCreate` and `FinishCreate`: its query reads
under READ COMMITTED, so a snapshot taken before a recovery commits may be used after the row lock is granted; only conditions
on the locked row are evaluated again. `recover_device` is `BindReplacement`, or `RefuseRecovery` when it changes nothing but the
expiry of overdue keys. A proof of a key is `Activate`, `Reconnect` or `ExpireKey`; it occupies a socket, which then walks through
`endpoint_agent`: disconnect the replaced channel, register, serve, be denied by a heartbeat or lost, unregister. The registry of
`connections.py` is `registered`. `DowngradeAndUpgrade` is migration 0006 taken back and applied again, with the key of each
device that its `DISTINCT ON` keeps.

Abstractions: deadlines pass at any moment (`overdue`); names, codes, hashes and audit rows are left out; a session is a bit of its
device; `last_seen` is whether it was ever set.

`device_credentials` checks one device, three keys (the active one, its replacement, a competitor), two sockets (the old and the new),
two live pairings and one migration. Devices share nothing but the bound on pairings, so one is enough.

- `KeyChangesByRecovery`, `KeyOfSessionStays`, `EndedKeysStayEnded`: who may change a key, and when. The second is why
  `authenticate_device` looks for sessions again: recovery alone cannot exclude one that is just being created.
- `KeysStayUnique`: the partial unique indexes are never hit, so no request fails on them.
- `NewerChannelStays`: the late end of an old socket leaves the channel of a newer one alone.
- `StaleChannelLeaves`, under fairness: a socket of a revoked device or a replaced key that registers after the disconnect does not stay.
  Fairness: a connected endpoint sends heartbeats or its connection ends, and a handler that leaves its loop runs its `finally`.

### Proofs (`DeviceCredentialsProofs`)

For all sets of devices, keys and sockets and all bounds: `TypeCorrect`, `KeysUnique`, `KeyChangesOnlyByRecovery`,
`KeyStaysUnderSession`, `EndedKeysEnd`, `NewerChannelKept`, one for each safety property of the run. The inductive invariant is `TypeOK`,
`KeyInv` and `ChannelInv`. `KeyInv` relates keys to `last_seen`: a device has an active key exactly when it was seen (`SeenHasActive`,
`ActiveIsSeen`), and a pending key that replaces nothing belongs to a device that was not (`FirstKey`). Uniqueness is not inductive
without it: the first proof of a second key would make a second active one; and the migration, which infers activity from `last_seen`,
would lose the active key. `ChannelInv` says that the registry holds only sockets of the device that serve or are about to unregister.
`ActiveChanges` reduces the theorems on active keys to two steps, activation and migration.

## 6. `TerminalWait` and `DiagnosticRun`

`TerminalWait` cuts `wait_for_terminal` and `notify_terminal` at each await: reading the row, registering under
`terminal_waiters_lock`, taking the lock of the condition, reading again, sleeping, being woken or cancelled by the timeout, taking
the lock back, the last read, and the `finally` that counts down. A waiter keeps the `TerminalWaiter` it registered with
(`object`), which need not be its own. `FailToNotify` is the read between commit and notification in `submit_execution`, which
can raise; `FailRead` any read of the waiter.

`DiagnosticRun` extends it with `drive_diagnostic`. The model provider chooses any tool at any time, one call at a time. A request
reaches the control plane also when its caller has given up (`inFlight`), so a script may run that the driver does not own. The
submission is `create_or_get_execution` reduced to its two conditions (an active session, no unfinished execution of it). Numbering
executions and waits in the order in which they are requested removes symmetric states only.

`diagnostic_run` checks two scripts out of three executions and two waits, the second of which can overlap the first when its
response was lost: waits on the same and on different executions, shared and repeated entries, timeouts at each point.

- `NoLostWakeup`, `EntriesAreCounted`: the table of waiters and its conditions.
- `WaitsReturn`, under fairness of the event loop only (no timeout, script or driver has to make a step): a waiter of a terminal
  execution returns, unless its notification failed.
- `CompletedMeansTerminal`: a run that is reported as completed left no script that is unfinished or still under way, also when
  responses were lost. `ScriptBudgetHolds`: the same scripts never exceed `max_steps`.

### Proofs (`DiagnosticRunProofs`)

For every finite set of waits, all executions and every budget: `EntriesExact` and `WakeupsNotLost` of `TerminalWait`; `RunsAreWaits`,
that every behaviour of `DiagnosticRun` is one of `TerminalWait`; and `TypeCorrect`, `BudgetHolds` and `CompletedRunsAreOver`.
`NoLostWakeup` rests on the exactness of the entries (were an entry deleted while somebody sleeps on it, the notifier would not find
him), and that on counting (`LastIsAlone`: the count is 1 exactly when nobody else is registered) and on `SameTarget` and `Created`: a
`TerminalWaiter` serves one execution, also when the waiter that created it has gone. `BudgetHolds` and `CompletedRunsAreOver` rest on
`CountedScripts`: the scripts that may reach the device are at most those counted; when the driver owns as many as it counted, it owns all.

## 7. `OutputText` and `RetainedOutput`

`OutputText` has the functions of `output_queries.py` on text as operators: characters of one or more bytes, byte offsets,
lines, prefixes and suffixes of whole characters, `find`, and `split_utf8_chunks`. `RetainedOutput` is the stream of an execution:
ingestion adds the chunks of a text; a caller pages through it, another one searches (with continuations from
`next_after_byte`), asks for the last lines or for a range. A page is two transactions (the rows, then whether there are
more), a query too (the greatest sequence, then the rows up to it), and chunks may be committed in between.

`retained_output` uses a letter in both cases, a two-byte letter and a line end, chunks of at most 2 bytes, and limits so small
that each is reached: pages of 2 rows and 2 or 3 bytes, scans of 4 rows and 7 bytes, answers of 4 bytes, streams of 5 rows.

- `PagesCoverOnce`, `PagesEnd` (if the caller goes on paging, which is all the fairness assumed): the pages join to the output,
  exactly once, and a caller that pages on until `has_more` is false and the execution had ended stops, and has every row that was
  retained while it was paging. Ingestion does not look at the status (`database.py:755-761`): output is inserted for executions that are terminal
  already, between the mark at `app.py:161` and the disconnect at `app.py:168`, or from a socket that registers after it. What is committed
  after the caller stopped is not in its pages, and no property says so.
- `PositionsStayTrue`: byte ranges and line numbers of an answer lead back to its text, in the stream as it is later. The line numbers of
  an answer that was shortened are left out: they are those of the whole selection.
- `SearchFindsAll`: the matches of a search and its continuations are the occurrences from left to right without overlaps, against a
  definition that does not use the algorithm, also when output is added between them.
- `AnswersAreWhole`: what is neither `partial` nor truncated is the whole answer for the snapshot it names.

Abstractions: lower case is character by character (Python's depends on the context for a final sigma); the two characters of a
Windows line end are one; the reason of a partial answer is left out. `retained_output_caseless` adds the Turkish capital I with a dot.

### Proofs (`RetainedOutputProofs`)

For any characters and widths, texts, limits and number of rows (`TextAssumption`, `LimitAssumption`: the limits are positive, a chunk
holds any one character, a page holds any one chunk):

| Theorem | Statement |
|---|---|
| `TypeCorrect` | `Spec => []TypeOK`, with the size constraint of the table, however a text is split |
| `PagesJoin` | `Spec => []PagesCoverOnce` |
| `WholeAnswers` | `Spec => []AnswersAreWhole` |
| `TruePositions` | `Spec => []PositionsStayTrue` |
| `SearchesFindAll` | `Spec => []SearchFindsAll`, assuming `OneByOne` |

What the recursive functions compute is stated once: `BytesDef` and `BytesAppend` for sizes, `JoinNext` and `JoinParts` for joined chunks,
`SplitIsRows` for `split_utf8_chunks`, `SearchInduction` for the loop of a search, `MatchedFacts` for the occurrences a search should find.

- Pages. `PageInv`: a page under way holds the rows behind the cursor, up to the one it continues with. It survives ingestion, because
  rows that were read stay what they are (`RowsStay`), and makes the end of a page an instance of `JoinParts`. `SnapshotFacts` says the
  same of the snapshots that queries read.
- Whole answers and positions. Each answer is first placed in the text of its snapshot (`TailFacts`, `RangeIsWhole`, `TailPosition`,
  `RangePosition`, `SearchPositions`). The text of a snapshot is the beginning of the stream (`SnapshotIsStart`), and adding text behind
  moves no byte and no line that is not cut (`LongerText`, `LinesStay`, `PositionStays`): the last line of a snapshot may become longer, but
  keeps its number.
- Searches. `ListInv` is the invariant: what was found so far lists the matches before a character, each once (`Lists`), and a search
  under way goes on at that character. A loop step adds the next match (`NextMatch`, `ListNext`); a later snapshot extends an earlier one
  (`SnapshotGrows`) without changing the matches before an occurrence that fits in it (`MatchedStays`), so the list stays one when a
  continuation asks for more (`ListStays`). That a match depends only on what is to its left is why `next_after_byte` is enough to go on.

`OneByOne` says that the lower case of a character is one character. Without it the offsets of the lowered text are not those of the text,
and the property is false (the instance of finding 5 violates it too). `TruePositions` needs no such assumption: even then the positions are those of the text returned.

## 8. Findings

1. `ledger_power_loss_gap`: after a process crash and a power loss the ledger has a hole; the device is never reconciled again.
2. `investigation_late_open`: an `open_session` that is sent late starts a worker for a closed session, and the ledger is blocked.
3. `investigation_cancel_race`: a dispatched execution can be reported as cancelled, run, and block ingestion.
4. `investigation_orphaned_execution`: an execution dispatched while its session ends stays queued, and is sent, for ever.
5. `retained_output_caseless`: a search that ignores case reports wrong positions behind a character whose lower case is longer.

`PROJECT.json` quotes the documents they contradict. One more race is described in section 4, without a run: a submission that was
repeated can be reported as `failed_to_start` and run.

## 9. What is checked how

Proved for all constants: every invariant and action property of the passing runs of sections 3 to 7, and the refinement of
`ReliableLog`. Model-checked only: all liveness (`EventuallyCommitted`, `EventuallyReconciled`, `AcceptedWorkEnds`, `SessionsSettle`,
`StaleChannelLeaves`, `WaitsReturn`, `PagesEnd`: temporal properties under fairness, and ENABLED, are outside the proof system), and the
runs that show a violation. No module declares a RECURSIVE operator; `AfterBatch` and the operators of
`OutputText` are recursive functions and folds. The library's induction theorems take an operator as a parameter, which the provers cannot
instantiate; `RecursionLemmas` states induction for *sets* instead (`LeastElement`, `BoundedInduction`, and `IteratesExist` for the
existence of a function defined by recursion), which is enough for `AfterBatch` and for all functions of `OutputText` and of a search.

The assumptions of the proofs are those on the constants in the modules (`...Assumption`, evaluated by TLC in every run), and
`OneByOne` for one theorem of section 7.

Every property of a passing run is broken by a mutated definition (`\* mutant` in the modules: a plausible fault,
used by no specification) under the run's own configuration. The passing runs together take every action.

**Not modelled.** The files of the ledger: torn lines, segment change, a lost checkpoint (planned, section 2). The endpoint side of
enrolment (`Enrollment.cs`): the pairing code on the screen, the key store, back-off. Reading retained output by the driver and the
preview of executions: they are pages and tails of section 7. Heartbeat freshness (the 45 seconds of `create_starting_session`),
HTTP validation, roles and rate limits (no state that interacts), the migrations that only change the schema (the constraints they
leave are in the tables), PowerShell hosting and Win32 calls (represented by their results), Windows service and installer.

To check: `tlc -config <run>.cfg <module>` with the module of the run in `PROJECT.json`; `tlapm <module>Proofs.tla`.
