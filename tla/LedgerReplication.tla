-------------------------- MODULE LedgerReplication --------------------------
(***************************************************************************)
(* Replication of the endpoint ledger: the endpoint agent appends records  *)
(* to a local file, makes them durable, and sends the unacknowledged ones  *)
(* to the control plane, which commits them in order and acknowledges.     *)
(*                                                                         *)
(* Endpoint: EndpointLedger.cs (the ledger) and AgentRuntime.cs (the       *)
(* transport, one LedgerTransport per connection).  Control plane: the     *)
(* /agent handler of app.py and ingest_endpoint_ledger_batch of            *)
(* database.py.  Connections drop, the endpoint process crashes, and in    *)
(* Spec (not in ProcessSpec) the machine may lose power.                   *)
(*                                                                         *)
(* Records are atoms: a sequence number, the incarnation of the process    *)
(* that wrote it (with the sequence number it stands for the content whose *)
(* hash the control plane compares) and the record type.                   *)
(***************************************************************************)
EXTENDS Naturals, FiniteSets

CONSTANTS
  MaxRecords,        \* work stops being started beyond this sequence number
  MaxConnections,    \* connections the endpoint may open
  MaxCrashes,        \* process crashes and power losses together
  OutputFlushChunks, \* output chunks that fill the 64 KiB flush buffer
  CapacityRecords    \* records on disk beyond which output is dropped

ASSUME ReplicationAssumption ==
  /\ MaxRecords \in Nat
  /\ MaxConnections \in Nat
  /\ MaxCrashes \in Nat
  /\ OutputFlushChunks \in Nat \ {0}
  /\ CapacityRecords \in Nat

\* The record types that change what the ledger remembers of the work in hand.
RecordTypes ==
  {"session_started", "execution_accepted", "output_chunk", "output_dropped",
   "execution_finished", "worker_stopped", "session_closed"}

Record == [seq : Nat \ {0}, life : Nat, type : RecordTypes]

Connections == 1 .. MaxConnections

VARIABLES
  \* Endpoint process memory, meaningless while the process is down.
  service,              \* "running" or "stopped"
  records,              \* retained records
  nextSequence,
  durableThrough,       \* records up to here may be sent
  acknowledgedThrough,
  pendingFlushThrough,  \* last buffered record that waits for the flush timer
  bufferedOutput,       \* chunks counted towards the 64 KiB buffer
  loadedThrough,        \* records up to here were read back at the last start
  \* Endpoint disk.
  disk,                 \* records the segment files show to a reader
  synced,               \* those of them that survive a power loss
  checkpoint,           \* acknowledgement checkpoint file (ack.json)
  crashes,
  \* Transport.
  conn,                 \* the current connection, 0 when disconnected
  opened,               \* connections opened so far
  inFlightThrough,      \* last record of the batch that waits for its ack
  batches,              \* batch in transit on each connection, {} for none
  ackInTransit,         \* acknowledgement on the way to the endpoint, 0 for none
  \* Control plane database.
  committed,            \* endpoint_ledger_records
  cursor                \* endpoint_ledger_cursors.acknowledged_through

memoryVars == <<service, records, nextSequence, durableThrough, acknowledgedThrough,
                pendingFlushThrough, bufferedOutput, loadedThrough>>
diskVars == <<disk, synced, checkpoint, crashes>>
transportVars == <<conn, opened, inFlightThrough, batches, ackInTransit>>
controlVars == <<committed, cursor>>
vars == <<memoryVars, diskVars, transportVars, controlVars>>

-----------------------------------------------------------------------------
(* What the ledger derives from its records.                               *)

up == service = "running"

Seqs(R) == {r.seq : r \in R}

IsLast(s, R) == IF R = {} THEN s = 0 ELSE s \in Seqs(R) /\ \A r \in R : r.seq <= s

LastType(R) ==
  IF R = {} THEN "none" ELSE (CHOOSE r \in R : IsLast(r.seq, R)).type

\* The work in hand: every type decides it alone, and output follows only the
\* acceptance of its execution.
Snapshot(R) ==
  LET type == LastType(R) IN
  CASE type \in {"session_started", "execution_finished"} -> "session"
    [] type \in {"execution_accepted", "output_chunk"} -> "execution"
    [] type = "output_dropped" -> "dropping"
    [] OTHER -> "none"

Unacknowledged == {r \in records : r.seq > acknowledgedThrough}

HasUnacknowledgedRecords_OnlyInFlight == inFlightThrough > acknowledgedThrough \* mutant
HasUnacknowledgedRecords == Unacknowledged # {}

Sendable_NotYetDurable == Unacknowledged \* mutant
Sendable == {r \in Unacknowledged : r.seq <= durableThrough}

Prunable_Unacknowledged == \* mutant
  {r \in records :
     \E stop \in records : stop.type \in {"worker_stopped", "session_closed"}
                            /\ r.seq <= stop.seq}

\* What a prune removes: acknowledged records of sessions that are over.
Prunable ==
  {r \in records :
     /\ r.seq <= acknowledgedThrough
     /\ \E stop \in records : stop.type \in {"worker_stopped", "session_closed"}
                              /\ r.seq <= stop.seq}

-----------------------------------------------------------------------------
(* Appending.                                                              *)

NewRecord_FromZero(type) == \* mutant
  [seq |-> nextSequence - 1, life |-> crashes, type |-> type]
NewRecord(type) == [seq |-> nextSequence, life |-> crashes, type |-> type]

\* The record is in the file and in memory; what else happens depends on
\* whether the append flushes.
Write(record) ==
  /\ records' = records \cup {record}
  /\ disk' = disk \cup {record}
  /\ nextSequence' = nextSequence + 1
  /\ UNCHANGED <<service, acknowledgedThrough, loadedThrough, checkpoint, crashes>>
  /\ UNCHANGED <<transportVars, controlVars>>

\* An fsync reaches the segments this process wrote to, not those it only read.
SyncedNow(D) == synced \cup {r \in D : r.seq > loadedThrough}

AppendDurably(type) ==
  /\ Write(NewRecord(type))
  /\ synced' = SyncedNow(disk')
  /\ durableThrough' = nextSequence
  /\ pendingFlushThrough' = 0
  /\ bufferedOutput' = 0

AppendBuffered(type) ==
  /\ bufferedOutput + 1 < OutputFlushChunks
  /\ Write(NewRecord(type))
  /\ bufferedOutput' = bufferedOutput + 1
  /\ pendingFlushThrough' = nextSequence
  /\ UNCHANGED <<synced, durableThrough>>

\* The chunk that fills the buffer is fsynced with its file, but it is not
\* counted, so the ledger goes on as if nothing had been flushed.
AppendFillingBuffer(type) ==
  /\ bufferedOutput + 1 >= OutputFlushChunks
  /\ Write(NewRecord(type))
  /\ synced' = SyncedNow(disk')
  /\ UNCHANGED <<durableThrough, pendingFlushThrough, bufferedOutput>>

SessionStarted ==
  /\ up /\ conn # 0 /\ nextSequence <= MaxRecords
  /\ Snapshot(records) = "none"
  /\ ~HasUnacknowledgedRecords
  /\ AppendDurably("session_started")

TryExecutionAccepted ==
  /\ up /\ conn # 0 /\ nextSequence <= MaxRecords
  /\ Snapshot(records) = "session"
  /\ ~HasUnacknowledgedRecords
  /\ AppendDurably("execution_accepted")

HasRoom == Cardinality(disk) < CapacityRecords

\* The first disjunct is the append that finds 250 ms gone since the last flush.
OutputChunk ==
  /\ up /\ nextSequence <= MaxRecords
  /\ Snapshot(records) = "execution" /\ HasRoom
  /\ \/ AppendDurably("output_chunk")
     \/ AppendBuffered("output_chunk")
     \/ AppendFillingBuffer("output_chunk")

OutputDropped ==
  /\ up /\ nextSequence <= MaxRecords
  /\ Snapshot(records) = "execution" /\ ~HasRoom
  /\ AppendDurably("output_dropped")

ExecutionFinished ==
  /\ up /\ Snapshot(records) \in {"execution", "dropping"}
  /\ AppendDurably("execution_finished")

WorkerStopped ==
  /\ up /\ Snapshot(records) # "none"
  /\ AppendDurably("worker_stopped")

\* On a close request or an idle timeout, or after the worker_stopped of an
\* execution the close request interrupted.
SessionClosed ==
  /\ up /\ conn # 0
  /\ \/ Snapshot(records) = "session"
     \/ LastType(records) = "worker_stopped"
  /\ AppendDurably("session_closed")

FlushBufferedOutput ==
  /\ up /\ pendingFlushThrough > durableThrough
  /\ synced' = SyncedNow(disk)
  /\ durableThrough' = pendingFlushThrough
  /\ pendingFlushThrough' = 0
  /\ bufferedOutput' = 0
  /\ UNCHANGED <<service, records, nextSequence, acknowledgedThrough, loadedThrough>>
  /\ UNCHANGED <<disk, checkpoint, crashes, transportVars, controlVars>>

\* Closed files that hold only such records are deleted, oldest first; where the
\* boundaries of the files lie is left open.
Prune ==
  /\ up /\ Prunable # {}
  /\ records' = records \ Prunable
  /\ \E deleted \in {0} \cup Seqs(Prunable) :
       /\ disk' = {r \in disk : r.seq > deleted}
       /\ synced' = {r \in synced : r.seq > deleted}
  /\ UNCHANGED <<service, nextSequence, durableThrough, acknowledgedThrough>>
  /\ UNCHANGED <<pendingFlushThrough, bufferedOutput, loadedThrough>>
  /\ UNCHANGED <<checkpoint, crashes, transportVars, controlVars>>

-----------------------------------------------------------------------------
(* Transport and ingestion.                                                *)

Connect_KeepsInFlight == \* mutant
  /\ up /\ conn = 0 /\ opened < MaxConnections
  /\ opened' = opened + 1
  /\ conn' = opened + 1
  /\ ackInTransit' = 0
  /\ UNCHANGED <<memoryVars, diskVars, controlVars, batches, inFlightThrough>>

Connect ==
  /\ up /\ conn = 0 /\ opened < MaxConnections
  /\ opened' = opened + 1
  /\ conn' = opened + 1
  /\ inFlightThrough' = 0
  /\ ackInTransit' = 0
  /\ UNCHANGED <<memoryVars, diskVars, controlVars, batches>>

\* What was sent on the connection may still reach the control plane.
Disconnect ==
  /\ conn # 0 /\ opened < MaxConnections
  /\ conn' = 0
  /\ ackInTransit' = 0
  /\ UNCHANGED <<memoryVars, diskVars, controlVars>>
  /\ UNCHANGED <<opened, inFlightThrough, batches>>

PendingBatch_OnlyLast(through) == {r \in Sendable : r.seq = through} \* mutant

\* The record and byte limits of a batch cut it after any record.
PendingBatch(through) == {r \in Sendable : r.seq <= through}

SendPending ==
  /\ up /\ conn # 0
  /\ inFlightThrough <= acknowledgedThrough
  /\ \E through \in Seqs(Sendable) :
       /\ inFlightThrough' = through
       /\ batches' = [batches EXCEPT ![conn] = PendingBatch(through)]
  /\ UNCHANGED <<memoryVars, diskVars, controlVars, conn, opened, ackInTransit>>

LoseBatch(c) ==
  /\ c # conn /\ batches[c] # {}
  /\ batches' = [batches EXCEPT ![c] = {}]
  /\ UNCHANGED <<memoryVars, diskVars, controlVars>>
  /\ UNCHANGED <<conn, opened, inFlightThrough, ackInTransit>>

Fresh(batch) == {r \in batch : r.seq \notin Seqs(committed)}

ConflictingDuplicate_Any(batch) == \* mutant
  \E r \in batch, old \in committed : r.seq = old.seq

ConflictingDuplicate(batch) ==
  \E r \in batch, old \in committed : r.seq = old.seq /\ r # old

LedgerGap_Never(batch) == FALSE \* mutant
LedgerGap(batch) ==
  \E r \in Fresh(batch) : ~(cursor + 1 .. r.seq \subseteq Seqs(Fresh(batch)))

Acceptable(batch) == ~ConflictingDuplicate(batch) /\ ~LedgerGap(batch)

IsNewCursor_LastOfBatch(through, batch) == IsLast(through, batch) \* mutant

\* The cursor after a batch: its last new record.
IsNewCursor(through, batch) ==
  /\ through \in {cursor} \cup Seqs(Fresh(batch))
  /\ \A r \in Fresh(batch) : r.seq <= through

\* One transaction commits the new records and moves the cursor; the
\* acknowledgement then goes to the connection the batch came from.
IngestBatch(c) ==
  /\ batches[c] # {} /\ Acceptable(batches[c])
  /\ committed' = committed \cup Fresh(batches[c])
  /\ \E through \in {cursor} \cup Seqs(batches[c]) :
       /\ IsNewCursor(through, batches[c])
       /\ cursor' = through
  /\ ackInTransit' = IF c = conn THEN cursor' ELSE ackInTransit
  /\ batches' = [batches EXCEPT ![c] = {}]
  /\ UNCHANGED <<memoryVars, diskVars, conn, opened, inFlightThrough>>

\* An error rolls the whole batch back and closes the connection.
RejectBatch(c) ==
  /\ batches[c] # {} /\ ~Acceptable(batches[c])
  /\ batches' = [batches EXCEPT ![c] = {}]
  /\ conn' = IF c = conn THEN 0 ELSE conn
  /\ ackInTransit' = IF c = conn THEN 0 ELSE ackInTransit
  /\ UNCHANGED <<memoryVars, diskVars, controlVars, opened, inFlightThrough>>

MarkAfter_Beyond(through, highest) == \* mutant
  IF through < acknowledgedThrough THEN acknowledgedThrough
  ELSE IF through >= highest THEN through ELSE highest

\* The endpoint's mark after an acknowledgement: never lower, never beyond what
\* it wrote.
MarkAfter(through, highest) ==
  IF through < acknowledgedThrough THEN acknowledgedThrough
  ELSE IF through <= highest THEN through ELSE highest

\* EndpointLedger.Acknowledge, then LedgerTransport.ObserveAck.
Acknowledge ==
  /\ up /\ conn # 0 /\ ackInTransit # 0
  /\ \E highest \in {durableThrough} \cup Seqs(records) :
       /\ highest >= durableThrough
       /\ \A r \in records : r.seq <= highest
       /\ acknowledgedThrough' = MarkAfter(ackInTransit, highest)
  /\ checkpoint' = acknowledgedThrough'
  /\ inFlightThrough' =
       IF inFlightThrough <= acknowledgedThrough' THEN 0 ELSE inFlightThrough
  /\ ackInTransit' = 0
  /\ UNCHANGED <<service, records, nextSequence, durableThrough, pendingFlushThrough>>
  /\ UNCHANGED <<bufferedOutput, loadedThrough, disk, synced, crashes>>
  /\ UNCHANGED <<conn, opened, batches, controlVars>>

-----------------------------------------------------------------------------
(* Crashes.                                                                *)

Stop ==
  /\ up /\ crashes < MaxCrashes
  /\ opened < MaxConnections
  /\ service' = "stopped"
  /\ crashes' = crashes + 1
  /\ conn' = 0
  /\ ackInTransit' = 0
  /\ UNCHANGED <<records, nextSequence, durableThrough, acknowledgedThrough>>
  /\ UNCHANGED <<pendingFlushThrough, bufferedOutput, loadedThrough, checkpoint>>
  /\ UNCHANGED <<opened, inFlightThrough, batches, controlVars>>

\* The service process dies; what it wrote stays in the system's cache.
ProcessCrash == Stop /\ UNCHANGED <<disk, synced>>

\* The machine dies; of what was never fsynced some prefix survives.
PowerLoss ==
  /\ Stop
  /\ \E kept \in 0 .. nextSequence :
       disk' = synced \cup {r \in disk : r.seq <= kept}
  /\ synced' = disk'

NextAfter_IgnoringCheckpoint(last) == last + 1 \* mutant

\* The next sequence number after reading back records up to last, which may
\* have been pruned below the checkpoint.
NextAfter(last) == IF last < checkpoint THEN checkpoint + 1 ELSE last + 1

\* The EndpointLedger constructor: read the files back, trust them as durable,
\* and record the loss of the worker when a session was open.
Restart ==
  /\ ~up
  /\ \E last \in {0} \cup Seqs(disk) :
       LET next == NextAfter(last)
           loss == IF Snapshot(disk) = "none" THEN {}
                   ELSE {[seq |-> next, life |-> crashes, type |-> "worker_stopped"]}
       IN /\ IsLast(last, disk)
          /\ records' = disk \cup loss
          /\ disk' = disk \cup loss
          /\ synced' = synced \cup loss
          /\ nextSequence' = IF loss = {} THEN next ELSE next + 1
          /\ durableThrough' = IF loss = {} THEN last ELSE next
          /\ loadedThrough' = last
  /\ service' = "running"
  /\ acknowledgedThrough' = checkpoint
  /\ pendingFlushThrough' = 0
  /\ bufferedOutput' = 0
  /\ UNCHANGED <<checkpoint, crashes, transportVars, controlVars>>

-----------------------------------------------------------------------------
Init ==
  /\ service = "running"
  /\ records = {} /\ disk = {} /\ synced = {}
  /\ nextSequence = 1
  /\ durableThrough = 0 /\ acknowledgedThrough = 0 /\ checkpoint = 0
  /\ pendingFlushThrough = 0 /\ bufferedOutput = 0 /\ loadedThrough = 0
  /\ crashes = 0
  /\ conn = 0 /\ opened = 0 /\ inFlightThrough = 0 /\ ackInTransit = 0
  /\ batches = [c \in Connections |-> {}]
  /\ committed = {} /\ cursor = 0

LedgerNext ==
  \/ SessionStarted \/ TryExecutionAccepted \/ OutputChunk \/ OutputDropped
  \/ ExecutionFinished \/ WorkerStopped \/ SessionClosed
  \/ FlushBufferedOutput \/ Prune

TransportNext ==
  \/ Connect \/ Disconnect \/ SendPending \/ Acknowledge
  \/ \E c \in Connections : LoseBatch(c) \/ IngestBatch(c) \/ RejectBatch(c)

ProcessNext == LedgerNext \/ TransportNext \/ ProcessCrash \/ Restart

Next == ProcessNext \/ PowerLoss

\* The endpoint process may crash and connections may drop, but the machine
\* keeps what was written.
ProcessSpec == Init /\ [][ProcessNext]_vars

\* The machine may also lose power.
Spec == Init /\ [][Next]_vars

\* The sender and the receive loop run while the process does, a scheduled
\* flush fires, the service is restarted and reconnects, the control plane
\* handles what it receives on a live connection, and an execution ends, at the
\* latest when its session's deadline stops it.
EndOfExecution ==
  /\ Snapshot(records) \in {"execution", "dropping"}
  /\ ExecutionFinished \/ WorkerStopped

Fairness ==
  /\ WF_vars(FlushBufferedOutput)
  /\ WF_vars(EndOfExecution)
  /\ WF_vars(Connect)
  /\ WF_vars(SendPending)
  /\ WF_vars(\E c \in Connections : c = conn /\ IngestBatch(c))
  /\ WF_vars(Acknowledge)
  /\ WF_vars(Restart)

FairProcessSpec == ProcessSpec /\ Fairness

-----------------------------------------------------------------------------
(* Properties.                                                             *)

\* Every variable has its type (EndpointLedger's fields, the transport's
\* in-flight mark, the two ledger tables).
TypeOK ==
  /\ service \in {"running", "stopped"}
  /\ records \in SUBSET Record /\ disk \in SUBSET Record /\ synced \in SUBSET Record
  /\ nextSequence \in Nat \ {0}
  /\ durableThrough \in Nat /\ acknowledgedThrough \in Nat /\ checkpoint \in Nat
  /\ pendingFlushThrough \in Nat /\ bufferedOutput \in Nat /\ loadedThrough \in Nat
  /\ crashes \in Nat
  /\ conn \in Nat /\ opened \in Nat /\ inFlightThrough \in Nat /\ ackInTransit \in Nat
  /\ batches \in [Connections -> SUBSET Record]
  /\ committed \in SUBSET Record
  /\ cursor \in Nat

InTransit == UNION {batches[c] : c \in Connections}

\* A sequence number names one record for good: what is on the endpoint's disk,
\* in any batch still in transit and in the control plane's table never differs
\* for one number, so ingestion never meets a conflicting duplicate.
OneRecordPerSequence ==
  \A r, q \in disk \cup InTransit \cup committed : r.seq = q.seq => r = q

\* The control plane holds exactly the records 1 .. cursor, whatever batches
\* were lost, repeated or overtaken by those of a later connection.
CommittedContiguously == Seqs(committed) = 1 .. cursor

\* What the endpoint believes acknowledged, has checkpointed or is being told
\* is committed, so that pruning deletes only committed records.
AcknowledgedIsCommitted ==
  /\ acknowledgedThrough <= cursor
  /\ checkpoint <= cursor
  /\ ackInTransit <= cursor

\* No record is lost before it is committed: every sequence number handed out
\* is in the control plane's table or in the endpoint's files, through flushing,
\* pruning, crashes of the process and restarts.
NothingLost ==
  1 .. nextSequence - 1 \subseteq Seqs(committed) \cup Seqs(disk)

\* The control plane never finds a gap in what an endpoint sends: records
\* above its checkpoint are there to be resent (EndpointLedger.PendingBatch).
NeverGapped == \A c \in Connections : ~LedgerGap(batches[c])

\* Neither side goes back: no acknowledgement, late or repeated, lowers the
\* endpoint's checkpoint, and no batch lowers the control plane's cursor.
NeverRegresses == [][checkpoint' >= checkpoint /\ cursor' >= cursor]_vars

\* A session or an execution is accepted only when the control plane has
\* committed every earlier record (reconciliation_pending in HandleMessage).
ReconciledBeforeNewWork ==
  [][SessionStarted \/ TryExecutionAccepted => cursor = nextSequence - 1]_vars

\* Every record appended is eventually committed by the control plane.
EventuallyCommitted ==
  \A s \in 1 .. MaxRecords : nextSequence > s ~> cursor >= s

\* The endpoint never stays closed to new work: unacknowledged records are
\* eventually acknowledged.
EventuallyReconciled == HasUnacknowledgedRecords ~> up /\ ~HasUnacknowledgedRecords

-----------------------------------------------------------------------------
(* The ledger and its replication implement a reliable log: the records    *)
(* appended are those committed or still on disk.                          *)

History ==
  [s \in 1 .. nextSequence - 1 |->
     CHOOSE r \in committed \cup disk : r.seq = s]

Log == INSTANCE ReliableLog WITH Values <- Record, log <- History, delivered <- cursor

\* Every step appends one record, delivers a prefix further, or changes nothing.
ImplementsReliableLog == Log!Spec
=============================================================================
