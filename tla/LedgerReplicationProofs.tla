----------------------- MODULE LedgerReplicationProofs -----------------------
(***************************************************************************)
(* Proofs about LedgerReplication, for every bound: what holds when the    *)
(* machine may lose power (Spec), then what holds when only the process    *)
(* crashes (ProcessSpec).                                                  *)
(***************************************************************************)
EXTENDS LedgerReplication, TLAPS, Sequences

-----------------------------------------------------------------------------
(* Facts about the operators.                                              *)

\* Membership in what is in transit, without the UNION of InTransit.
LEMMA InTransitMember ==
  \A r : r \in InTransit <=> \E c \in Connections : r \in batches[c]
BY DEF InTransit

\* Membership in the sequence numbers of a set of records.
LEMMA SeqsMember ==
  ASSUME NEW R, NEW s
  PROVE  s \in Seqs(R) <=> \E r \in R : r.seq = s
BY DEF Seqs

\* A record that an append makes is a well-typed one with the next number.
LEMMA NewRecordType ==
  ASSUME TypeOK, NEW type \in RecordTypes
  PROVE  /\ NewRecord(type) \in Record
         /\ NewRecord(type).seq = nextSequence
         /\ NewRecord(type).type = type
BY DEF TypeOK, NewRecord, Record

\* The appends, as one: all write a new record, and all but the buffered one
\* fsync.  Used wherever an invariant is preserved by appends.
Appends ==
  \E type \in RecordTypes :
    /\ up
    /\ \/ AppendDurably(type)
       \/ type = "output_chunk" /\ AppendBuffered(type)
       \/ type = "output_chunk" /\ AppendFillingBuffer(type)

\* Every handler that appends is one of those appends.
LEMMA LedgerNextCases ==
  ASSUME LedgerNext
  PROVE  Appends \/ FlushBufferedOutput \/ Prune
BY DEF LedgerNext, Appends, RecordTypes, SessionStarted, TryExecutionAccepted,
       OutputChunk, OutputDropped, ExecutionFinished, WorkerStopped, SessionClosed

-----------------------------------------------------------------------------
(* Types.                                                                  *)

\* The type invariant is inductive: no handler, crash or restart leaves a field
\* of the ledger, the transport or the tables outside its type.
THEOREM TypeCorrect == Spec => []TypeOK
<1>1. Init => TypeOK
  BY DEF Init, TypeOK
<1>2. TypeOK /\ [Next]_vars => TypeOK'
  <2> SUFFICES ASSUME TypeOK, [Next]_vars
               PROVE  TypeOK'
    OBVIOUS
  <2> USE DEF TypeOK, memoryVars, diskVars, transportVars, controlVars
  <2>1. CASE Appends
    <3>1. PICK type \in RecordTypes :
            \/ AppendDurably(type)
            \/ AppendBuffered(type)
            \/ AppendFillingBuffer(type)
      BY <2>1 DEF Appends
    <3>2. NewRecord(type) \in Record
      BY NewRecordType
    <3>3. records' \in SUBSET Record /\ disk' \in SUBSET Record
          /\ SyncedNow(disk') \in SUBSET Record
      BY <3>1, <3>2 DEF AppendDurably, AppendBuffered, AppendFillingBuffer, Write, SyncedNow
    <3>4. QED
      BY <3>1, <3>3 DEF AppendDurably, AppendBuffered, AppendFillingBuffer, Write
  <2>2. CASE FlushBufferedOutput
    BY <2>2 DEF FlushBufferedOutput, SyncedNow
  <2>3. CASE Prune
    BY <2>3 DEF Prune
  <2>4. CASE Connect
    BY <2>4 DEF Connect
  <2>5. CASE Disconnect
    BY <2>5 DEF Disconnect
  <2>6. CASE SendPending
    <3>1. PICK through \in Seqs(Sendable) :
            /\ inFlightThrough' = through
            /\ batches' = [batches EXCEPT ![conn] = PendingBatch(through)]
      BY <2>6 DEF SendPending
    <3>2. through \in Nat
      BY <3>1 DEF Seqs, Sendable, Unacknowledged, Record
    <3>3. PendingBatch(through) \in SUBSET Record
      BY DEF PendingBatch, Sendable, Unacknowledged
    <3>4. QED
      BY <2>6, <3>1, <3>2, <3>3 DEF SendPending
  <2>7. ASSUME NEW c \in Connections, LoseBatch(c) \/ RejectBatch(c)
        PROVE  TypeOK'
    BY <2>7 DEF LoseBatch, RejectBatch
  <2>8. ASSUME NEW c \in Connections, IngestBatch(c)
        PROVE  TypeOK'
    <3>1. Fresh(batches[c]) \in SUBSET Record
      BY DEF Fresh
    <3>2. cursor' \in Nat
      <4>1. cursor' \in {cursor} \cup Seqs(batches[c])
        BY <2>8 DEF IngestBatch
      <4>2. QED
        BY <4>1 DEF Seqs, Record
    <3>3. QED
      BY <2>8, <3>1, <3>2 DEF IngestBatch
  <2>9. CASE Acknowledge
    <3>1. acknowledgedThrough' \in Nat
      <4>1. PICK highest \in {durableThrough} \cup Seqs(records) :
              acknowledgedThrough' = MarkAfter(ackInTransit, highest)
        BY <2>9 DEF Acknowledge
      <4>2. highest \in Nat
        BY <4>1 DEF Seqs, Record
      <4>3. QED
        BY <4>1, <4>2 DEF MarkAfter
    <3>2. QED
      BY <2>9, <3>1 DEF Acknowledge
  <2>10. CASE ProcessCrash
    BY <2>10 DEF ProcessCrash, Stop
  <2>11. CASE PowerLoss
    BY <2>11 DEF PowerLoss, Stop
  <2>12. CASE Restart
    <3>1. PICK last \in {0} \cup Seqs(disk) :
            LET next == NextAfter(last)
                loss == IF Snapshot(disk) = "none" THEN {}
                        ELSE {[seq |-> next, life |-> crashes, type |-> "worker_stopped"]}
            IN /\ records' = disk \cup loss
               /\ disk' = disk \cup loss
               /\ synced' = synced \cup loss
               /\ nextSequence' = IF loss = {} THEN next ELSE next + 1
               /\ durableThrough' = IF loss = {} THEN last ELSE next
               /\ loadedThrough' = last
      BY <2>12 DEF Restart
    <3>2. last \in Nat
      BY DEF Seqs, Record
    <3>3. NextAfter(last) \in Nat \ {0}
      BY <3>2 DEF NextAfter
    <3>4. [seq |-> NextAfter(last), life |-> crashes, type |-> "worker_stopped"] \in Record
      BY <3>3 DEF Record, RecordTypes
    <3>5. QED
      BY <2>12, <3>1, <3>2, <3>3, <3>4 DEF Restart
  <2>13. CASE UNCHANGED vars
    BY <2>13 DEF vars
  <2>14. QED
    BY <2>1, <2>2, <2>3, <2>4, <2>5, <2>6, <2>7, <2>8, <2>9, <2>10, <2>11, <2>12, <2>13,
       LedgerNextCases
    DEF Next, ProcessNext, TransportNext
<1>3. QED
  BY <1>1, <1>2, PTL DEF Spec

-----------------------------------------------------------------------------
(* One batch in flight per connection.                                     *)

\* A batch or an acknowledgement is under way on the current connection.
Awaiting == ackInTransit # 0 \/ batches[conn] # {}

\* A connection carries one batch or its acknowledgement, and what it carries
\* ends at inFlightThrough, above the acknowledged mark and durable.
TransportInv ==
  /\ \A c \in Connections : c > opened => batches[c] = {}
  /\ conn # 0 => up /\ conn \in Connections /\ conn <= opened
  /\ ackInTransit # 0 => conn # 0 /\ batches[conn] = {}
  /\ conn # 0 /\ Awaiting =>
       acknowledgedThrough < inFlightThrough /\ inFlightThrough <= durableThrough
  /\ up => durableThrough < nextSequence /\ pendingFlushThrough < nextSequence

\* Sending, acknowledging, dropping a connection and crashing keep at most one
\* batch or acknowledgement under way on the current connection.
LEMMA TransportStep ==
  ASSUME TypeOK, TransportInv, [Next]_vars
  PROVE  TransportInv'
<1> USE DEF TypeOK, memoryVars, diskVars, transportVars, controlVars, up
<1>1. CASE Appends
  <2>1. UNCHANGED <<service, acknowledgedThrough, conn, opened, inFlightThrough,
                    batches, ackInTransit>>
        /\ nextSequence' = nextSequence + 1
        /\ up
    BY <1>1 DEF Appends, AppendDurably, AppendBuffered, AppendFillingBuffer, Write
  <2>2. /\ durableThrough' \in {durableThrough, nextSequence}
        /\ pendingFlushThrough' \in {pendingFlushThrough, nextSequence, 0}
    BY <1>1 DEF Appends, AppendDurably, AppendBuffered, AppendFillingBuffer
  <2>3. QED
    BY <2>1, <2>2 DEF TransportInv, Awaiting
<1>2. CASE FlushBufferedOutput
  BY <1>2 DEF FlushBufferedOutput, TransportInv, Awaiting
<1>3. CASE Prune
  BY <1>3 DEF Prune, TransportInv, Awaiting
<1>4. CASE Connect
  <2>1. conn' = opened + 1 /\ opened' = opened + 1 /\ conn' \in Connections
        /\ ackInTransit' = 0 /\ up
        /\ UNCHANGED <<service, batches, durableThrough, nextSequence, pendingFlushThrough>>
    BY <1>4, ReplicationAssumption DEF Connect, Connections
  <2>2. batches'[conn'] = {}
    BY <2>1 DEF TransportInv
  <2>3. QED
    BY <2>1, <2>2 DEF TransportInv, Awaiting, Connections
<1>5. CASE Disconnect
  BY <1>5 DEF Disconnect, TransportInv, Awaiting
<1>6. CASE SendPending
  <2>1. PICK through \in Seqs(Sendable) :
          /\ inFlightThrough' = through
          /\ batches' = [batches EXCEPT ![conn] = PendingBatch(through)]
    BY <1>6 DEF SendPending
  <2>2. through \in Nat /\ acknowledgedThrough < through /\ through <= durableThrough
    BY <2>1 DEF Seqs, Sendable, Unacknowledged, Record
  <2>3. /\ up /\ conn # 0 /\ inFlightThrough <= acknowledgedThrough
        /\ UNCHANGED <<service, acknowledgedThrough, durableThrough, nextSequence,
                       pendingFlushThrough, conn, opened, ackInTransit>>
    BY <1>6 DEF SendPending
  <2>4. ackInTransit = 0
    BY <2>3 DEF TransportInv, Awaiting
  <2>5. QED
    BY <2>1, <2>2, <2>3, <2>4 DEF TransportInv, Awaiting, Connections
<1>7. ASSUME NEW c \in Connections, LoseBatch(c) \/ RejectBatch(c)
      PROVE  TransportInv'
  BY <1>7 DEF LoseBatch, RejectBatch, TransportInv, Awaiting, Connections
<1>8. ASSUME NEW c \in Connections, IngestBatch(c)
      PROVE  TransportInv'
  <2>1. /\ batches[c] # {} /\ batches' = [batches EXCEPT ![c] = {}]
        /\ ackInTransit' = IF c = conn THEN cursor' ELSE ackInTransit
        /\ UNCHANGED <<service, acknowledgedThrough, durableThrough, nextSequence,
                       pendingFlushThrough, conn, opened, inFlightThrough>>
    BY <1>8 DEF IngestBatch
  <2>2. QED
    BY <2>1 DEF TransportInv, Awaiting, Connections
<1>9. CASE Acknowledge
  <2>1. ackInTransit # 0 /\ ackInTransit' = 0
        /\ UNCHANGED <<service, durableThrough, nextSequence, pendingFlushThrough,
                       conn, opened, batches>>
    BY <1>9 DEF Acknowledge
  <2>2. QED
    BY <2>1 DEF TransportInv, Awaiting
<1>10. CASE ProcessCrash \/ PowerLoss
  BY <1>10 DEF ProcessCrash, PowerLoss, Stop, TransportInv, Awaiting
<1>11. CASE Restart
  <2>1. PICK last \in {0} \cup Seqs(disk) :
          /\ \/ nextSequence' = NextAfter(last) /\ durableThrough' = last
             \/ nextSequence' = NextAfter(last) + 1 /\ durableThrough' = NextAfter(last)
    BY <1>11 DEF Restart
  <2>2. last \in Nat /\ NextAfter(last) \in Nat /\ last < NextAfter(last)
    BY DEF Seqs, Record, NextAfter
  <2>3. ~up /\ pendingFlushThrough' = 0 /\ UNCHANGED transportVars
    BY <1>11 DEF Restart
  <2>4. QED
    BY <2>1, <2>2, <2>3 DEF TransportInv, Awaiting
<1>12. CASE UNCHANGED vars
  BY <1>12 DEF vars, TransportInv, Awaiting
<1>13. QED
  BY <1>1, <1>2, <1>3, <1>4, <1>5, <1>6, <1>7, <1>8, <1>9, <1>10, <1>11, <1>12,
     LedgerNextCases
  DEF Next, ProcessNext, TransportNext

\* One batch in flight (LedgerTransport.SendPending), in every reachable state.
LEMMA TransportInvariant == Spec => []TransportInv
<1>1. Init => TransportInv
  BY DEF Init, TransportInv, Awaiting, up
<1>2. TypeOK /\ TransportInv /\ [Next]_vars => TransportInv'
  BY TransportStep
<1>3. QED
  BY <1>1, <1>2, TypeCorrect, PTL DEF Spec

-----------------------------------------------------------------------------
(* The control plane's prefix and the acknowledgements below it.           *)

\* What ingestion and acknowledgement preserve together.
PrefixInv ==
  /\ TypeOK
  /\ CommittedContiguously
  /\ AcknowledgedIsCommitted
  /\ acknowledgedThrough = checkpoint
  /\ TransportInv

\* An accepted batch extends the contiguous prefix, from the next number on.
LEMMA IngestExtends ==
  ASSUME PrefixInv, NEW c \in Connections, IngestBatch(c)
  PROVE  CommittedContiguously' /\ cursor' \in Nat /\ cursor <= cursor'
<1> DEFINE F == Fresh(batches[c])
<1> USE DEF PrefixInv
<1>1. PICK through \in {cursor} \cup Seqs(batches[c]) :
        IsNewCursor(through, batches[c]) /\ cursor' = through
  BY DEF IngestBatch
<1>2. through \in {cursor} \cup Seqs(F) /\ \A r \in F : r.seq <= through
  BY <1>1 DEF IsNewCursor
<1>3. committed' = committed \cup F
  BY DEF IngestBatch
<1>4. \A r \in F : r.seq \in Nat /\ r.seq > cursor
  <2>1. SUFFICES ASSUME NEW r \in F PROVE r.seq \in Nat /\ r.seq > cursor
    OBVIOUS
  <2>2. r \in Record /\ r.seq \notin Seqs(committed)
    BY DEF Fresh, TypeOK
  <2>3. r.seq \in Nat \ {0} /\ cursor \in Nat
    BY <2>2 DEF Record, TypeOK
  <2>4. QED
    BY <2>2, <2>3 DEF CommittedContiguously
<1>5. \A r \in F : cursor + 1 .. r.seq \subseteq Seqs(F)
  BY DEF IngestBatch, Acceptable, LedgerGap
<1>6. cursor \in Nat /\ through \in Nat /\ cursor <= through
  <2>1. cursor \in Nat
    BY DEF TypeOK
  <2>2. QED
    BY <2>1, <1>2, <1>4, SeqsMember
<1>7. Seqs(committed') = Seqs(committed) \cup Seqs(F)
  BY <1>3 DEF Seqs
<1>8. cursor + 1 .. through \subseteq Seqs(F)
  <2>1. CASE through = cursor
    BY <2>1, <1>6
  <2>2. CASE through # cursor
    BY <2>2, <1>2, <1>5, SeqsMember
  <2>3. QED
    BY <2>1, <2>2
<1>9. Seqs(F) \subseteq cursor + 1 .. through
  BY <1>2, <1>4, <1>6, SeqsMember
<1>10. Seqs(committed) = 1 .. cursor
  BY DEF CommittedContiguously
<1>11. QED
  BY <1>1, <1>6, <1>7, <1>8, <1>9, <1>10 DEF CommittedContiguously

\* An acknowledgement moves the endpoint's mark no further than what was
\* acknowledged, and never back.
LEMMA AcknowledgeMoves ==
  ASSUME PrefixInv, Acknowledge
  PROVE  /\ acknowledgedThrough' = checkpoint'
         /\ checkpoint <= checkpoint' /\ checkpoint' <= cursor
<1>1. PICK highest \in {durableThrough} \cup Seqs(records) :
        /\ highest >= durableThrough
        /\ \A r \in records : r.seq <= highest
        /\ acknowledgedThrough' = MarkAfter(ackInTransit, highest)
  BY DEF Acknowledge
<1>2. acknowledgedThrough' = checkpoint'
  BY DEF Acknowledge
<1>3. highest \in Nat
  BY <1>1 DEF Seqs, Record, PrefixInv, TypeOK
<1>4. acknowledgedThrough < durableThrough
  BY DEF Acknowledge, PrefixInv, TransportInv, Awaiting, TypeOK
<1>5. /\ durableThrough \in Nat /\ acknowledgedThrough \in Nat /\ ackInTransit \in Nat
      /\ cursor \in Nat /\ acknowledgedThrough = checkpoint
      /\ acknowledgedThrough <= cursor /\ ackInTransit <= cursor
  BY DEF PrefixInv, TypeOK, AcknowledgedIsCommitted
<1>6. QED
  BY <1>1, <1>2, <1>3, <1>4, <1>5 DEF MarkAfter

\* The prefix invariant is inductive, and each step moves both marks forward.
LEMMA PrefixStep ==
  ASSUME PrefixInv, TypeOK', [Next]_vars
  PROVE  PrefixInv' /\ checkpoint <= checkpoint' /\ cursor <= cursor'
<1> USE DEF memoryVars, diskVars, transportVars, controlVars
<1>0. TransportInv'
  BY TransportStep DEF PrefixInv
<1>1. ASSUME NEW c \in Connections, IngestBatch(c)
      PROVE  PrefixInv' /\ checkpoint <= checkpoint' /\ cursor <= cursor'
  <2>1. CommittedContiguously' /\ cursor' \in Nat /\ cursor <= cursor'
    BY <1>1, IngestExtends
  <2>2. UNCHANGED <<acknowledgedThrough, checkpoint>>
        /\ ackInTransit' \in {cursor', ackInTransit}
    BY <1>1 DEF IngestBatch
  <2>3. QED
    BY <1>0, <2>1, <2>2 DEF PrefixInv, TypeOK, AcknowledgedIsCommitted
<1>2. CASE Acknowledge
  <2>1. UNCHANGED <<committed, cursor>> /\ ackInTransit' = 0
    BY <1>2 DEF Acknowledge
  <2>2. CommittedContiguously'
    BY <2>1 DEF PrefixInv, CommittedContiguously, Seqs
  <2>3. /\ acknowledgedThrough' = checkpoint'
        /\ checkpoint <= checkpoint' /\ checkpoint' <= cursor
    BY <1>2, AcknowledgeMoves
  <2>4. QED
    BY <1>0, <2>1, <2>2, <2>3 DEF PrefixInv, TypeOK, AcknowledgedIsCommitted
<1>3. ASSUME UNCHANGED <<committed, cursor, checkpoint>>,
             acknowledgedThrough' \in {acknowledgedThrough, checkpoint},
             ackInTransit' \in {ackInTransit, 0}
      PROVE  PrefixInv' /\ checkpoint <= checkpoint' /\ cursor <= cursor'
  <2>1. CommittedContiguously'
    BY <1>3 DEF PrefixInv, CommittedContiguously, Seqs
  <2>2. checkpoint \in Nat /\ cursor \in Nat /\ ackInTransit \in Nat
        /\ acknowledgedThrough = checkpoint /\ AcknowledgedIsCommitted
    BY DEF PrefixInv, TypeOK
  <2>3. AcknowledgedIsCommitted' /\ acknowledgedThrough' = checkpoint'
        /\ checkpoint <= checkpoint' /\ cursor <= cursor'
    BY <1>3, <2>2 DEF AcknowledgedIsCommitted
  <2>4. QED
    BY <1>0, <2>1, <2>3 DEF PrefixInv
<1>4. CASE Appends
  BY <1>3, <1>4 DEF Appends, AppendDurably, AppendBuffered, AppendFillingBuffer, Write
<1>5. CASE FlushBufferedOutput \/ Prune
  BY <1>3, <1>5 DEF FlushBufferedOutput, Prune
<1>6. CASE Connect \/ Disconnect \/ SendPending
  BY <1>3, <1>6 DEF Connect, Disconnect, SendPending
<1>7. ASSUME NEW c \in Connections, LoseBatch(c) \/ RejectBatch(c)
      PROVE  PrefixInv' /\ checkpoint <= checkpoint' /\ cursor <= cursor'
  BY <1>3, <1>7 DEF LoseBatch, RejectBatch
<1>8. CASE ProcessCrash \/ PowerLoss
  BY <1>3, <1>8 DEF ProcessCrash, PowerLoss, Stop
<1>9. CASE Restart
  BY <1>3, <1>9 DEF Restart
<1>10. CASE UNCHANGED vars
  BY <1>3, <1>10 DEF vars
<1>11. QED
  BY <1>1, <1>2, <1>4, <1>5, <1>6, <1>7, <1>8, <1>9, <1>10, LedgerNextCases
  DEF Next, ProcessNext, TransportNext

\* Acknowledged marks stay within the committed prefix in every reachable state.
LEMMA PrefixInvariant == Spec => []PrefixInv
<1>1. Init => PrefixInv
  BY DEF Init, PrefixInv, TypeOK, CommittedContiguously, AcknowledgedIsCommitted, Seqs,
         TransportInv, Awaiting, up
<1>2. PrefixInv /\ TypeOK' /\ [Next]_vars => PrefixInv'
  BY PrefixStep
<1>3. QED
  BY <1>1, <1>2, TypeCorrect, PTL DEF Spec

\* The control plane holds exactly records 1 .. cursor, after any losses,
\* repetitions and late arrivals, and even after power losses.
THEOREM CommittedPrefix == Spec => []CommittedContiguously
BY PrefixInvariant, PTL DEF PrefixInv

\* The endpoint never believes, stores or is told an acknowledgement of a
\* record that is not committed.
THEOREM AcknowledgedOnlyCommitted == Spec => []AcknowledgedIsCommitted
BY PrefixInvariant, PTL DEF PrefixInv

\* Neither the checkpoint nor the cursor ever goes back.
THEOREM MarksNeverRegress == Spec => NeverRegresses
<1>1. PrefixInv /\ TypeOK' /\ [Next]_vars
        => [checkpoint' >= checkpoint /\ cursor' >= cursor]_vars
  BY PrefixStep DEF PrefixInv, TypeOK
<1>2. QED
  BY <1>1, PrefixInvariant, TypeCorrect, PTL DEF Spec, NeverRegresses

-----------------------------------------------------------------------------
(* One record per sequence number, power losses included.  A number is     *)
(* handed out again only when the record that had it was lost unsynced;    *)
(* such a record was never sent, because whatever was sent lies at or      *)
(* below the checkpoint or some record that is fsynced.                    *)

Known == disk \cup InTransit \cup committed

\* The number survives a power loss, by itself or below a later one.
Anchored(s) == s <= checkpoint \/ \E q \in synced : s <= q.seq

\* The strengthening of OneRecordPerSequence: what is committed, sent or
\* acknowledged cannot be forgotten and its number handed out again.
AnchorInv ==
  /\ synced \subseteq disk
  /\ \A r \in disk : r.type # "output_chunk" => r \in synced
  /\ up => records \subseteq disk
  /\ up => \A r \in Known : r.seq < nextSequence
  /\ up => loadedThrough < nextSequence
  /\ \A r \in InTransit \cup committed : Anchored(r.seq)
  /\ up => Anchored(durableThrough)
  /\ up /\ pendingFlushThrough # 0 =>
       \/ pendingFlushThrough <= checkpoint
       \/ \E r \in disk : r.seq = pendingFlushThrough /\ r.seq > loadedThrough
  /\ OneRecordPerSequence

Before == TypeOK /\ PrefixInv /\ AnchorInv

\* What is known is made of typed records.
LEMMA KnownType == ASSUME TypeOK PROVE Known \subseteq Record
BY InTransitMember DEF Known, TypeOK

\* Steps that neither append nor restart make no record known that was not.
LEMMA KnownShrinks ==
  ASSUME Before,
         \/ FlushBufferedOutput \/ Prune \/ Connect \/ Disconnect \/ SendPending
         \/ Acknowledge \/ ProcessCrash \/ PowerLoss \/ UNCHANGED vars
         \/ \E c \in Connections : LoseBatch(c) \/ IngestBatch(c) \/ RejectBatch(c)
  PROVE  /\ disk' \subseteq disk
         /\ InTransit' \cup committed' \subseteq Known
<1> USE DEF Before, TypeOK, memoryVars, diskVars, transportVars, controlVars
<1>1. ASSUME UNCHANGED <<batches, committed>>
      PROVE  InTransit' \cup committed' \subseteq Known
  BY <1>1 DEF InTransit, Known
<1>2. CASE FlushBufferedOutput \/ Prune \/ Connect \/ Disconnect \/ Acknowledge
  BY <1>1, <1>2 DEF FlushBufferedOutput, Prune, Connect, Disconnect, Acknowledge
<1>3. CASE ProcessCrash \/ PowerLoss \/ UNCHANGED vars
  <2>1. UNCHANGED <<batches, committed>>
    BY <1>3 DEF ProcessCrash, PowerLoss, Stop, vars
  <2>2. disk' \subseteq disk
    BY <1>3 DEF ProcessCrash, PowerLoss, vars, AnchorInv
  <2>3. QED
    BY <1>1, <2>1, <2>2
<1>4. CASE SendPending
  <2>1. PICK through \in Seqs(Sendable) :
          batches' = [batches EXCEPT ![conn] = PendingBatch(through)]
    BY <1>4 DEF SendPending
  <2>2. PendingBatch(through) \subseteq disk
    BY <1>4 DEF PendingBatch, Sendable, Unacknowledged, AnchorInv, SendPending
  <2>3. UNCHANGED <<disk, committed>>
    BY <1>4 DEF SendPending
  <2>4. \A c \in Connections : batches'[c] \subseteq Known
    BY <2>1, <2>2, InTransitMember DEF Known
  <2>5. InTransit' \subseteq Known
    BY <2>4 DEF InTransit
  <2>6. QED
    BY <2>3, <2>5 DEF Known
<1>5. ASSUME NEW c \in Connections, LoseBatch(c) \/ IngestBatch(c) \/ RejectBatch(c)
      PROVE  disk' \subseteq disk /\ InTransit' \cup committed' \subseteq Known
  <2>1. batches' = [batches EXCEPT ![c] = {}] /\ disk' = disk
    BY <1>5 DEF LoseBatch, IngestBatch, RejectBatch
  <2>2. committed' \subseteq committed \cup batches[c]
    BY <1>5 DEF LoseBatch, IngestBatch, RejectBatch, Fresh
  <2>3. batches[c] \subseteq InTransit
    BY InTransitMember
  <2>4. InTransit' \subseteq InTransit
    BY <2>1 DEF InTransit
  <2>5. QED
    BY <2>1, <2>2, <2>3, <2>4 DEF Known
<1>6. QED
  BY <1>2, <1>3, <1>4, <1>5

\* A number covered by the checkpoint or an fsynced record stays covered: a
\* prune deletes fsynced records only below the checkpoint.
LEMMA AnchoredStays ==
  ASSUME Before, TypeOK', [Next]_vars, NEW s \in Nat, Anchored(s)
  PROVE  Anchored(s)'
<1> USE DEF Before, memoryVars, diskVars, transportVars, controlVars
<1>1. checkpoint <= checkpoint' /\ checkpoint \in Nat /\ checkpoint' \in Nat
  BY PrefixStep DEF TypeOK
<1>2. CASE Prune
  <2>1. PICK deleted \in {0} \cup Seqs(Prunable) :
          synced' = {r \in synced : r.seq > deleted}
    BY <1>2 DEF Prune
  <2>2. deleted \in Nat /\ deleted <= checkpoint
    BY <1>1 DEF Seqs, Prunable, PrefixInv, Record, TypeOK
  <2>3. CASE s <= checkpoint
    BY <1>1, <2>3 DEF Anchored
  <2>4. ASSUME NEW q \in synced, s <= q.seq
        PROVE  Anchored(s)'
    <3>1. q.seq \in Nat
      BY DEF TypeOK, Record
    <3>2. CASE q.seq > deleted
      BY <2>1, <2>4, <3>2 DEF Anchored
    <3>3. CASE q.seq <= deleted
      BY <1>1, <2>2, <2>4, <3>1, <3>3 DEF Anchored
    <3>4. QED
      BY <2>2, <3>1, <3>2, <3>3
  <2>5. QED
    BY <2>3, <2>4 DEF Anchored
<1>3. CASE synced \subseteq synced'
  BY <1>1, <1>3 DEF Anchored
<1>4. Prune \/ synced \subseteq synced'
  <2>1. CASE Appends
    BY <2>1 DEF Appends, AppendDurably, AppendBuffered, AppendFillingBuffer, SyncedNow
  <2>2. CASE FlushBufferedOutput
    BY <2>2 DEF FlushBufferedOutput, SyncedNow
  <2>3. CASE TransportNext
    BY <2>3 DEF TransportNext, Connect, Disconnect, SendPending, Acknowledge,
                LoseBatch, IngestBatch, RejectBatch
  <2>4. CASE ProcessCrash \/ PowerLoss
    BY <2>4 DEF ProcessCrash, PowerLoss
  <2>5. CASE Restart
    BY <2>5 DEF Restart
  <2>6. CASE UNCHANGED vars
    BY <2>6 DEF vars
  <2>7. QED
    BY <2>1, <2>2, <2>3, <2>4, <2>5, <2>6, LedgerNextCases DEF Next, ProcessNext
<1>5. QED
  BY <1>2, <1>3, <1>4

\* A step after which nothing new is known keeps what was true of the known.
LEMMA AnchorStepQuiet ==
  ASSUME Before, TypeOK', [Next]_vars,
         \/ FlushBufferedOutput \/ Prune \/ Connect \/ Disconnect \/ SendPending
         \/ Acknowledge \/ ProcessCrash \/ PowerLoss \/ UNCHANGED vars
         \/ \E c \in Connections : LoseBatch(c) \/ IngestBatch(c) \/ RejectBatch(c)
  PROVE  AnchorInv'
<1> USE DEF Before, memoryVars, diskVars, transportVars, controlVars
<1>1. disk' \subseteq disk /\ Known' \subseteq Known
  BY KnownShrinks DEF Known
<1>2. up' => up /\ UNCHANGED <<nextSequence, loadedThrough>>
  BY DEF FlushBufferedOutput, Prune, Connect, Disconnect, SendPending, Acknowledge,
         ProcessCrash, PowerLoss, Stop, LoseBatch, IngestBatch, RejectBatch, vars, up
<1>3. OneRecordPerSequence'
  BY <1>1 DEF AnchorInv, OneRecordPerSequence, Known
<1>4. up' => \A r \in Known' : r.seq < nextSequence'
  BY <1>1, <1>2 DEF AnchorInv
<1>5. up' => loadedThrough' < nextSequence'
  BY <1>2 DEF AnchorInv
<1>6. synced' \subseteq disk'
      /\ \A r \in disk' : r.type # "output_chunk" => r \in synced'
  <2>1. CASE FlushBufferedOutput
    BY <2>1 DEF FlushBufferedOutput, SyncedNow, AnchorInv
  <2>2. CASE Prune
    BY <2>2 DEF Prune, AnchorInv
  <2>3. CASE PowerLoss
    BY <2>3 DEF PowerLoss, AnchorInv
  <2>4. CASE UNCHANGED <<disk, synced>>
    BY <2>4 DEF AnchorInv
  <2>5. QED
    BY <2>1, <2>2, <2>3, <2>4 DEF Connect, Disconnect, SendPending, Acknowledge,
       ProcessCrash, LoseBatch, IngestBatch, RejectBatch, vars
<1>7. up' => records' \subseteq disk'
  <2>1. CASE Prune
    <3>1. PICK deleted \in {0} \cup Seqs(Prunable) :
            disk' = {r \in disk : r.seq > deleted}
      BY <2>1 DEF Prune
    <3>2. \A r \in records \ Prunable : r.seq > deleted
      <4>1. SUFFICES ASSUME NEW r \in records \ Prunable PROVE r.seq > deleted
        OBVIOUS
      <4>2. r \in Record /\ r.seq \in Nat \ {0}
        BY DEF TypeOK, Record
      <4>3. CASE deleted = 0
        BY <4>2, <4>3
      <4>4. ASSUME NEW p \in Prunable, deleted = p.seq
            PROVE  r.seq > deleted
        <5>1. p \in Record /\ p.seq \in Nat /\ p.seq <= acknowledgedThrough
          BY DEF Prunable, TypeOK, Record
        <5>2. PICK stop \in records :
                stop.type \in {"worker_stopped", "session_closed"} /\ p.seq <= stop.seq
          BY DEF Prunable
        <5>3. ~(r.seq <= acknowledgedThrough /\ r.seq <= stop.seq)
          BY <5>2 DEF Prunable
        <5>4. stop.seq \in Nat /\ acknowledgedThrough \in Nat
          BY DEF TypeOK, Record
        <5>5. QED
          BY <4>2, <4>4, <5>1, <5>2, <5>3, <5>4
      <4>5. QED
        BY <4>3, <4>4, SeqsMember
    <3>3. records' = records \ Prunable /\ up
      BY <2>1 DEF Prune
    <3>4. QED
      BY <3>1, <3>2, <3>3 DEF AnchorInv
  <2>2. CASE UNCHANGED <<records, disk>>
    BY <1>2, <2>2 DEF AnchorInv
  <2>3. CASE PowerLoss
    BY <2>3 DEF PowerLoss, Stop, up
  <2>4. QED
    BY <2>1, <2>2, <2>3 DEF FlushBufferedOutput, Connect, Disconnect, SendPending,
       Acknowledge, ProcessCrash, Stop, LoseBatch, IngestBatch, RejectBatch, vars
<1>8. up' /\ pendingFlushThrough' # 0 =>
        \/ pendingFlushThrough' <= checkpoint'
        \/ \E r \in disk' : r.seq = pendingFlushThrough' /\ r.seq > loadedThrough'
  <2>1. checkpoint <= checkpoint' /\ checkpoint \in Nat /\ checkpoint' \in Nat
        /\ pendingFlushThrough \in Nat
    BY PrefixStep DEF TypeOK
  <2>2. CASE FlushBufferedOutput
    BY <2>2 DEF FlushBufferedOutput
  <2>3. CASE Prune
    <3>1. PICK deleted \in {0} \cup Seqs(Prunable) :
            disk' = {r \in disk : r.seq > deleted}
      BY <2>3 DEF Prune
    <3>2. deleted \in Nat /\ deleted <= checkpoint
      BY <2>1 DEF Seqs, Prunable, PrefixInv, Record, TypeOK
    <3>3. up /\ UNCHANGED <<pendingFlushThrough, loadedThrough, checkpoint>>
      BY <2>3 DEF Prune
    <3>4. QED
      BY <2>1, <3>1, <3>2, <3>3 DEF AnchorInv
  <2>4. CASE UNCHANGED <<disk, pendingFlushThrough>>
    BY <1>2, <2>1, <2>4 DEF AnchorInv
  <2>5. CASE PowerLoss
    BY <2>5 DEF PowerLoss, Stop, up
  <2>6. QED
    BY <2>2, <2>3, <2>4, <2>5 DEF Connect, Disconnect, SendPending, Acknowledge,
       ProcessCrash, Stop, LoseBatch, IngestBatch, RejectBatch, vars
<1>9. up' => Anchored(durableThrough)'
  <2>1. CASE FlushBufferedOutput
    <3>1. durableThrough' = pendingFlushThrough /\ synced' = SyncedNow(disk)
          /\ UNCHANGED checkpoint /\ pendingFlushThrough # 0 /\ up
      BY <2>1 DEF FlushBufferedOutput, TypeOK
    <3>2. CASE pendingFlushThrough <= checkpoint
      BY <3>1, <3>2 DEF Anchored
    <3>3. ASSUME NEW r \in disk, r.seq = pendingFlushThrough, r.seq > loadedThrough
          PROVE  Anchored(durableThrough)'
      <4>1. r \in synced'
        BY <3>1, <3>3 DEF SyncedNow
      <4>2. r.seq <= r.seq
        BY <3>3 DEF TypeOK
      <4>3. QED
        BY <3>1, <3>3, <4>1, <4>2 DEF Anchored
    <3>4. QED
      BY <3>1, <3>2, <3>3 DEF AnchorInv
  <2>2. CASE UNCHANGED durableThrough
    <3>1. durableThrough \in Nat
      BY DEF TypeOK
    <3>2. up' => Anchored(durableThrough)
      BY <1>2 DEF AnchorInv
    <3>3. Anchored(durableThrough) => \A s \in {durableThrough} : Anchored(s)'
      BY <3>1, AnchoredStays
    <3>4. QED
      BY <2>2, <3>2, <3>3 DEF Anchored
  <2>3. QED
    BY <2>1, <2>2 DEF Prune, Connect, Disconnect, SendPending, Acknowledge,
       ProcessCrash, PowerLoss, Stop, LoseBatch, IngestBatch, RejectBatch, vars
<1>10. \A r \in InTransit' \cup committed' : Anchored(r.seq)'
  <2>1. SUFFICES ASSUME NEW r \in InTransit' \cup committed' PROVE Anchored(r.seq)'
    OBVIOUS
  <2>2. r \in Record /\ r.seq \in Nat
    BY KnownShrinks, KnownType DEF Record
  <2>3. CASE r \in InTransit \cup committed
    BY <2>2, <2>3, AnchoredStays DEF AnchorInv
  <2>4. CASE r \notin InTransit \cup committed
    <3>1. up /\ r.seq <= durableThrough
      <4>1. CASE SendPending
        <5>1. PICK through \in Seqs(Sendable) :
                batches' = [batches EXCEPT ![conn] = PendingBatch(through)]
          BY <4>1 DEF SendPending
        <5>2. r \in InTransit'
          BY <4>1, <2>4 DEF SendPending
        <5>3. PICK c \in Connections : r \in batches'[c]
          BY <5>2 DEF InTransit
        <5>4. r \in PendingBatch(through)
          BY <5>1, <5>3, <2>4, InTransitMember DEF TypeOK
        <5>5. QED
          BY <4>1, <5>4 DEF PendingBatch, Sendable, SendPending
      <4>2. CASE ~SendPending
        <5>1. ASSUME NEW c \in Connections, LoseBatch(c) \/ IngestBatch(c) \/ RejectBatch(c)
              PROVE  InTransit' \cup committed' \subseteq InTransit \cup committed
          <6>1. batches' = [batches EXCEPT ![c] = {}]
            BY <5>1 DEF LoseBatch, IngestBatch, RejectBatch
          <6>2. committed' \subseteq committed \cup batches[c]
            BY <5>1 DEF LoseBatch, IngestBatch, RejectBatch, Fresh
          <6>3. batches[c] \subseteq InTransit
            BY InTransitMember
          <6>4. InTransit' \subseteq InTransit
            BY <6>1 DEF InTransit, TypeOK
          <6>5. QED
            BY <6>2, <6>3, <6>4
        <5>2. CASE UNCHANGED <<batches, committed>>
          BY <5>2, <2>4 DEF InTransit
        <5>3. QED
          BY <4>2, <5>1, <5>2, <2>4 DEF FlushBufferedOutput, Prune, Connect, Disconnect,
             Acknowledge, ProcessCrash, PowerLoss, Stop, vars
      <4>3. QED
        BY <4>1, <4>2
    <3>2. Anchored(r.seq)
      BY <2>2, <3>1 DEF AnchorInv, Anchored, TypeOK, Record
    <3>3. QED
      BY <2>2, <3>2, AnchoredStays
  <2>5. QED
    BY <2>3, <2>4
<1>11. QED
  BY <1>3, <1>4, <1>5, <1>6, <1>7, <1>8, <1>9, <1>10 DEF AnchorInv

\* An append adds one record above everything known.
LEMMA AnchorStepAppend ==
  ASSUME Before, TypeOK', [Next]_vars, Appends
  PROVE  AnchorInv'
<1> USE DEF Before, memoryVars, diskVars, transportVars, controlVars
<1>1. PICK type \in RecordTypes :
        /\ up
        /\ \/ AppendDurably(type)
           \/ type = "output_chunk" /\ AppendBuffered(type)
           \/ type = "output_chunk" /\ AppendFillingBuffer(type)
  BY DEF Appends
<1> DEFINE new == NewRecord(type)
<1>2. new \in Record /\ new.seq = nextSequence /\ new.type = type
  BY NewRecordType
<1>3. /\ records' = records \cup {new} /\ disk' = disk \cup {new}
      /\ nextSequence' = nextSequence + 1
      /\ UNCHANGED <<service, loadedThrough, checkpoint, batches, committed>>
  BY <1>1 DEF AppendDurably, AppendBuffered, AppendFillingBuffer, Write
<1>4. InTransit' = InTransit /\ Known' = Known \cup {new}
  BY <1>3 DEF InTransit, Known
<1>5. \A r \in Known : r.seq \in Nat /\ r.seq < nextSequence
  BY <1>1, KnownType DEF AnchorInv, Record
<1>6. nextSequence \in Nat /\ loadedThrough \in Nat /\ loadedThrough < nextSequence
  BY <1>1 DEF AnchorInv, TypeOK
<1> HIDE DEF new
<1>7. \/ synced' = SyncedNow(disk') /\ new \in synced'
      \/ synced' = synced /\ type = "output_chunk"
  BY <1>1, <1>2, <1>3, <1>6 DEF AppendDurably, AppendBuffered, AppendFillingBuffer, SyncedNow
<1>8. synced \subseteq synced' /\ synced' \subseteq disk'
  BY <1>3, <1>7 DEF AnchorInv, SyncedNow
<1>9. \A r \in disk' : r.type # "output_chunk" => r \in synced'
  BY <1>2, <1>3, <1>7, <1>8 DEF AnchorInv
<1>10. records' \subseteq disk'
  BY <1>1, <1>3 DEF AnchorInv
<1>11. \A r \in Known' : r.seq < nextSequence'
  BY <1>2, <1>3, <1>4, <1>5, <1>6
<1>12. loadedThrough' < nextSequence'
  BY <1>3, <1>6
<1>13. \A r \in InTransit' \cup committed' : Anchored(r.seq)'
  <2>1. \A r \in InTransit \cup committed : r.seq \in Nat /\ Anchored(r.seq)
    BY <1>5 DEF AnchorInv, Known
  <2>2. QED
    BY <1>3, <1>4, <2>1, AnchoredStays
<1>14. Anchored(durableThrough)'
  <2>1. CASE AppendDurably(type)
    <3>1. durableThrough' = nextSequence /\ new \in synced'
      BY <1>2, <1>3, <1>6, <2>1 DEF AppendDurably, SyncedNow
    <3>2. nextSequence <= new.seq
      BY <1>2, <1>6
    <3>3. QED
      BY <3>1, <3>2 DEF Anchored
  <2>2. CASE UNCHANGED durableThrough
    <3>1. durableThrough \in Nat /\ Anchored(durableThrough)
      BY <1>1 DEF AnchorInv, TypeOK
    <3>2. \A s \in {durableThrough} : Anchored(s)'
      BY <3>1, AnchoredStays
    <3>3. QED
      BY <2>2, <3>2 DEF Anchored
  <2>3. QED
    BY <1>1, <2>1, <2>2 DEF AppendBuffered, AppendFillingBuffer
<1>15. pendingFlushThrough' # 0 =>
         \/ pendingFlushThrough' <= checkpoint'
         \/ \E r \in disk' : r.seq = pendingFlushThrough' /\ r.seq > loadedThrough'
  <2>1. CASE pendingFlushThrough' = nextSequence
    BY <1>2, <1>3, <1>6, <2>1
  <2>2. CASE pendingFlushThrough' = pendingFlushThrough
    BY <1>1, <1>3, <2>2 DEF AnchorInv
  <2>3. QED
    BY <1>1, <2>1, <2>2 DEF AppendDurably, AppendBuffered, AppendFillingBuffer
<1>16. OneRecordPerSequence'
  BY <1>2, <1>4, <1>5, <1>6 DEF AnchorInv, OneRecordPerSequence, Known
<1>17. QED
  BY <1>8, <1>9, <1>10, <1>11, <1>12, <1>13, <1>14, <1>15, <1>16 DEF AnchorInv

\* The record of the lost worker goes above everything known, because what was
\* sent is covered by what was read back or by the checkpoint.
LEMMA AnchorStepRestart ==
  ASSUME Before, TypeOK', [Next]_vars, Restart
  PROVE  AnchorInv'
<1> USE DEF Before
<1> DEFINE Loss(next) == [seq |-> next, life |-> crashes, type |-> "worker_stopped"]
<1>1. PICK last \in {0} \cup Seqs(disk) :
        LET next == NextAfter(last)
            loss == IF Snapshot(disk) = "none" THEN {} ELSE {Loss(next)}
        IN /\ IsLast(last, disk)
           /\ records' = disk \cup loss
           /\ disk' = disk \cup loss
           /\ synced' = synced \cup loss
           /\ nextSequence' = IF loss = {} THEN next ELSE next + 1
           /\ durableThrough' = IF loss = {} THEN last ELSE next
           /\ loadedThrough' = last
  BY DEF Restart
<1> DEFINE next == NextAfter(last)
           loss == IF Snapshot(disk) = "none" THEN {} ELSE {Loss(next)}
<1>2. last \in Nat /\ next \in Nat /\ last < next /\ checkpoint < next
      /\ checkpoint \in Nat
  BY DEF Seqs, Record, TypeOK, NextAfter
<1>3. \A r \in disk : r \in Record /\ r.seq \in Nat /\ r.seq <= last
  BY <1>1 DEF IsLast, TypeOK, Record
<1>4. \A r \in Known : r.seq \in Nat /\ r.seq < next
  <2>1. ASSUME NEW r \in InTransit \cup committed
        PROVE  r.seq \in Nat /\ r.seq < next
    <3>1. r.seq \in Nat /\ Anchored(r.seq)
      BY KnownType DEF AnchorInv, Known, Record
    <3>2. CASE r.seq <= checkpoint
      BY <1>2, <3>1, <3>2
    <3>3. ASSUME NEW q \in synced, r.seq <= q.seq
          PROVE  r.seq < next
      BY <1>2, <1>3, <3>1, <3>3 DEF AnchorInv
    <3>4. QED
      BY <3>1, <3>2, <3>3 DEF Anchored
  <2>2. QED
    BY <1>2, <1>3, <2>1 DEF Known
<1> HIDE DEF next
<1>5. /\ records' = disk' /\ disk' = disk \cup loss /\ synced' = synced \cup loss
      /\ loadedThrough' = last
      /\ UNCHANGED <<checkpoint, batches, committed>>
      /\ pendingFlushThrough' = 0
  BY <1>1 DEF Restart, transportVars, controlVars, next
<1>6. \/ loss = {} /\ nextSequence' = next /\ durableThrough' = last
      \/ loss = {Loss(next)} /\ nextSequence' = next + 1 /\ durableThrough' = next
  BY <1>1 DEF next
<1>7. InTransit' = InTransit /\ Known' = Known \cup loss
  BY <1>5 DEF InTransit, Known
<1>8. \A r \in loss : r.seq = next /\ r.type = "worker_stopped"
  BY <1>6
<1>9. \A r \in Known' : r.seq < nextSequence'
  BY <1>2, <1>4, <1>6, <1>7, <1>8
<1>10. OneRecordPerSequence'
  <2>1. ASSUME NEW r \in Known', NEW q \in Known', r.seq = q.seq
        PROVE  r = q
    <3>1. CASE r \in Known /\ q \in Known
      BY <2>1, <3>1 DEF AnchorInv, OneRecordPerSequence, Known
    <3>2. CASE r \in loss /\ q \in loss
      BY <1>6, <3>2
    <3>3. QED
      BY <1>2, <1>4, <1>7, <1>8, <2>1, <3>1, <3>2
  <2>2. QED
    BY <2>1 DEF OneRecordPerSequence, Known
<1>11. synced' \subseteq disk' /\ \A r \in disk' : r.type # "output_chunk" => r \in synced'
  BY <1>5 DEF AnchorInv
<1>12. \A r \in InTransit' \cup committed' : Anchored(r.seq)'
  <2>1. \A r \in InTransit \cup committed : r.seq \in Nat /\ Anchored(r.seq)
    BY <1>4 DEF AnchorInv, Known
  <2>2. QED
    BY <1>5, <1>7, <2>1, AnchoredStays
<1>13. Anchored(durableThrough)'
  <2>1. CASE loss = {Loss(next)}
    <3>1. durableThrough' = next /\ Loss(next) \in synced' /\ next <= Loss(next).seq
      BY <1>2, <1>5, <1>6, <2>1
    <3>2. QED
      BY <3>1 DEF Anchored
  <2>2. CASE loss = {}
    <3>1. durableThrough' = last /\ Snapshot(disk) = "none"
      BY <1>6, <2>2
    <3>2. CASE disk = {}
      BY <1>1, <1>2, <1>5, <3>1, <3>2 DEF IsLast, Anchored
    <3>3. CASE disk # {}
      <4>1. PICK w \in disk : w.seq = last
        BY <1>1, <3>3 DEF IsLast, Seqs
      <4>2. IsLast(w.seq, disk)
        BY <1>1, <4>1
      <4> DEFINE top == CHOOSE r \in disk : IsLast(r.seq, disk)
      <4>3. top \in disk /\ IsLast(top.seq, disk)
        BY <4>2
      <4>4. LastType(disk) = top.type
        BY <3>3 DEF LastType
      <4> HIDE DEF top
      <4>5. top.seq = last
        <5>1. w.seq <= top.seq /\ top.seq \in Nat
          BY <1>3, <4>1, <4>3 DEF IsLast
        <5>2. QED
          BY <1>2, <1>3, <4>1, <4>3, <5>1
      <4>6. top.type # "output_chunk"
        BY <3>1, <4>4 DEF Snapshot
      <4>7. top \in synced'
        BY <1>5, <4>3, <4>6 DEF AnchorInv
      <4>8. QED
        BY <1>2, <3>1, <4>5, <4>7 DEF Anchored
    <3>4. QED
      BY <3>2, <3>3
  <2>3. QED
    BY <1>6, <2>1, <2>2
<1>14. records' \subseteq disk' /\ loadedThrough' < nextSequence'
  BY <1>2, <1>5, <1>6
<1>15. QED
  BY <1>5, <1>9, <1>10, <1>11, <1>12, <1>13, <1>14 DEF AnchorInv

\* Sequence numbers are never handed out twice, in every reachable state.
LEMMA AnchorInvariant == Spec => []AnchorInv
<1>1. Init => AnchorInv
  <2> SUFFICES ASSUME Init PROVE AnchorInv
    OBVIOUS
  <2>1. InTransit = {} /\ Known = {}
    BY DEF Init, InTransit, Known
  <2>2. QED
    BY <2>1 DEF Init, AnchorInv, OneRecordPerSequence, Anchored, up
<1>2. TypeOK /\ TypeOK' /\ PrefixInv /\ AnchorInv /\ [Next]_vars => AnchorInv'
  <2> SUFFICES ASSUME TypeOK, TypeOK', PrefixInv, AnchorInv, [Next]_vars
               PROVE  AnchorInv'
    OBVIOUS
  <2>1. CASE Appends
    BY <2>1, AnchorStepAppend DEF Before
  <2>2. CASE Restart
    BY <2>2, AnchorStepRestart DEF Before
  <2>3. CASE ~Appends /\ ~Restart
    BY <2>3, AnchorStepQuiet, LedgerNextCases DEF Before, Next, ProcessNext, TransportNext
  <2>4. QED
    BY <2>1, <2>2, <2>3
<1>3. QED
  BY <1>1, <1>2, TypeCorrect, PrefixInvariant, PTL DEF Spec

\* A sequence number names one record for good, even when the machine loses
\* power: ingestion never meets a conflicting duplicate.
THEOREM OneRecordEver == Spec => []OneRecordPerSequence
BY AnchorInvariant, PTL DEF AnchorInv

-----------------------------------------------------------------------------
(* Nothing is lost when only the process crashes.                          *)

\* R has a record for every number handed out above the checkpoint.
Retains(R) ==
  \A s \in Nat : checkpoint < s /\ s < nextSequence => \E r \in R : r.seq = s

\* A batch has a record for every number between the cursor and its last one.
Gapless(batch) ==
  \A r \in batch : \A s \in Nat :
    cursor < s /\ s <= r.seq => \E q \in batch : q.seq = s

\* The strengthening of NothingLost and NeverGapped: everything above the
\* checkpoint is retained, and sent without holes.
RetainInv ==
  /\ \A r \in Known : r.seq < nextSequence
  /\ Retains(disk)
  /\ up => Retains(records)
  /\ \A c \in Connections : Gapless(batches[c])

SafeInv == TypeOK /\ PrefixInv /\ AnchorInv

\* What holds with power losses holds without them.
LEMMA ProcessSafe == ProcessSpec => []SafeInv
<1>1. [ProcessNext]_vars => [Next]_vars
  BY DEF Next
<1>2. ProcessSpec => Spec
  BY <1>1, PTL DEF ProcessSpec, Spec
<1>3. QED
  BY <1>2, TypeCorrect, PrefixInvariant, AnchorInvariant, PTL DEF SafeInv, Spec

\* Every step of the process keeps what is handed out and not yet acknowledged
\* on disk, in memory, and without holes in every batch.
LEMMA RetainStep ==
  ASSUME SafeInv, SafeInv', RetainInv, [ProcessNext]_vars
  PROVE  RetainInv'
<1> USE DEF memoryVars, diskVars, transportVars, controlVars
<1>1. /\ [Next]_vars /\ TypeOK /\ TypeOK' /\ PrefixInv /\ AnchorInv /\ AnchorInv' /\ Before
  BY DEF Next, SafeInv, Before
<1>2. /\ checkpoint \in Nat /\ checkpoint' \in Nat /\ cursor \in Nat /\ cursor' \in Nat
      /\ nextSequence \in Nat \ {0} /\ nextSequence' \in Nat \ {0}
      /\ checkpoint <= checkpoint' /\ cursor <= cursor'
      /\ checkpoint <= cursor /\ acknowledgedThrough = checkpoint
  BY <1>1, PrefixStep DEF TypeOK, PrefixInv, AcknowledgedIsCommitted
<1> DEFINE Quiet ==
      \/ FlushBufferedOutput \/ Prune \/ Connect \/ Disconnect \/ SendPending
      \/ Acknowledge \/ ProcessCrash \/ UNCHANGED vars
      \/ \E c \in Connections : LoseBatch(c) \/ IngestBatch(c) \/ RejectBatch(c)
<1>3. Appends \/ Restart \/ Quiet
  BY LedgerNextCases DEF ProcessNext, TransportNext
<1>4. \A r \in Known' : r.seq < nextSequence'
  <2>1. CASE up'
    BY <1>1, <2>1 DEF AnchorInv
  <2>2. CASE ~up'
    <3>1. Quiet
      BY <1>3, <2>2 DEF Appends, Restart, AppendDurably, AppendBuffered,
         AppendFillingBuffer, Write, up
    <3>2. Known' \subseteq Known
      BY <1>1, <3>1, KnownShrinks DEF Known
    <3>3. nextSequence' = nextSequence
      BY <3>1 DEF FlushBufferedOutput, Prune, Connect, Disconnect, SendPending, Acknowledge,
         ProcessCrash, Stop, LoseBatch, IngestBatch, RejectBatch, vars
    <3>4. QED
      BY <3>2, <3>3 DEF RetainInv
  <2>3. QED
    BY <2>1, <2>2
<1>5. Retains(disk)'
  <2>1. SUFFICES ASSUME NEW s \in Nat, checkpoint' < s, s < nextSequence'
                 PROVE  \E r \in disk' : r.seq = s
    BY DEF Retains
  <2>2. \A t \in Nat : checkpoint < t /\ t < nextSequence => \E r \in disk : r.seq = t
    BY DEF RetainInv, Retains
  <2>3. CASE Appends
    <3>1. PICK type \in RecordTypes :
            disk' = disk \cup {NewRecord(type)} /\ nextSequence' = nextSequence + 1
            /\ NewRecord(type).seq = nextSequence
      BY <1>1, <2>3, NewRecordType DEF Appends, AppendDurably, AppendBuffered,
         AppendFillingBuffer, Write
    <3>2. QED
      BY <2>1, <1>2, <2>2, <3>1
  <2>4. CASE Restart
    <3>1. PICK last \in {0} \cup Seqs(disk) :
            \/ nextSequence' = NextAfter(last) /\ disk' = disk
            \/ /\ nextSequence' = NextAfter(last) + 1
               /\ disk' = disk \cup {[seq |-> NextAfter(last), life |-> crashes,
                                      type |-> "worker_stopped"]}
      BY <2>4 DEF Restart
    <3>2. last \in Nat /\ last < nextSequence /\ checkpoint' = checkpoint
      BY <1>1, <1>2, <2>4 DEF Seqs, TypeOK, Record, RetainInv, Known, Restart
    <3>3. NextAfter(last) \in Nat
      BY <1>2, <3>2 DEF NextAfter
    <3>4. CASE s < NextAfter(last)
      BY <2>1, <1>2, <2>2, <3>1, <3>2, <3>4 DEF NextAfter
    <3>5. CASE s = NextAfter(last)
      <4>1. disk' = disk \cup {[seq |-> NextAfter(last), life |-> crashes,
                                type |-> "worker_stopped"]}
        BY <2>1, <1>2, <3>1, <3>3, <3>5
      <4>2. [seq |-> NextAfter(last), life |-> crashes, type |-> "worker_stopped"].seq = s
        BY <3>5
      <4>3. QED
        BY <4>1, <4>2
    <3>6. QED
      BY <2>1, <1>2, <3>1, <3>3, <3>4, <3>5
  <2>5. CASE Prune
    <3>1. PICK deleted \in {0} \cup Seqs(Prunable) :
            disk' = {r \in disk : r.seq > deleted}
      BY <2>5 DEF Prune
    <3>2. deleted \in Nat /\ deleted <= checkpoint
      BY <1>1, <1>2 DEF Seqs, Prunable, Record, TypeOK
    <3>3. UNCHANGED <<checkpoint, nextSequence>>
      BY <2>5 DEF Prune
    <3>4. QED
      BY <2>1, <1>2, <2>2, <3>1, <3>2, <3>3
  <2>6. CASE UNCHANGED <<disk, nextSequence>>
    BY <2>1, <1>2, <2>2, <2>6
  <2>7. QED
    BY <1>3, <2>3, <2>4, <2>5, <2>6 DEF FlushBufferedOutput, Connect, Disconnect, SendPending,
       Acknowledge, ProcessCrash, Stop, LoseBatch, IngestBatch, RejectBatch, vars
<1>6. up' => Retains(records)'
  <2>1. SUFFICES ASSUME up', NEW s \in Nat, checkpoint' < s, s < nextSequence'
                 PROVE  \E r \in records' : r.seq = s
    BY DEF Retains
  <2>2. CASE Restart
    <3>1. records' = disk'
      BY <2>2 DEF Restart
    <3>2. QED
      BY <1>5, <2>1, <3>1 DEF Retains
  <2>3. up \/ Restart
    BY <1>3, <2>1 DEF Appends, FlushBufferedOutput, Prune, Connect, Disconnect, SendPending,
       Acknowledge, ProcessCrash, Stop, LoseBatch, IngestBatch, RejectBatch, vars, up
  <2>4. up => \A t \in Nat : checkpoint < t /\ t < nextSequence =>
                \E r \in records : r.seq = t
    BY DEF RetainInv, Retains
  <2>5. CASE Appends
    <3>1. PICK type \in RecordTypes :
            records' = records \cup {NewRecord(type)} /\ nextSequence' = nextSequence + 1
            /\ NewRecord(type).seq = nextSequence
      BY <1>1, <2>5, NewRecordType DEF Appends, AppendDurably, AppendBuffered,
         AppendFillingBuffer, Write
    <3>2. up
      BY <2>5 DEF Appends
    <3>3. QED
      BY <2>1, <1>2, <2>4, <3>1, <3>2
  <2>6. CASE Prune
    <3>1. records' = records \ Prunable /\ up /\ UNCHANGED <<checkpoint, nextSequence>>
      BY <2>6 DEF Prune
    <3>2. \A r \in Prunable : r.seq \in Nat /\ r.seq <= checkpoint
      BY <1>1, <1>2 DEF Prunable, TypeOK, Record
    <3>3. QED
      BY <2>1, <1>2, <2>4, <3>1, <3>2
  <2>7. CASE UNCHANGED <<records, nextSequence>>
    BY <2>1, <1>2, <2>2, <2>3, <2>4, <2>7
  <2>8. QED
    BY <1>3, <2>2, <2>5, <2>6, <2>7 DEF FlushBufferedOutput, Connect, Disconnect, SendPending,
       Acknowledge, ProcessCrash, Stop, LoseBatch, IngestBatch, RejectBatch, vars
<1>7. ASSUME NEW c \in Connections, NEW r \in batches'[c],
             NEW s \in Nat, cursor' < s, s <= r.seq
      PROVE  \E q \in batches'[c] : q.seq = s
  <2>1. r.seq \in Nat
    BY <1>1 DEF TypeOK, Record
  <2>2. CASE batches'[c] = batches[c]
    <3>1. cursor < s
      BY <1>7, <1>2
    <3>2. QED
      BY <1>7, <2>2, <3>1 DEF RetainInv, Gapless
  <2>3. CASE batches'[c] # batches[c]
    <3>1. ASSUME NEW d \in Connections, LoseBatch(d) \/ IngestBatch(d) \/ RejectBatch(d)
          PROVE  FALSE
      BY <1>1, <1>7, <2>3, <3>1 DEF LoseBatch, IngestBatch, RejectBatch, TypeOK
    <3>2. SendPending
      BY <1>3, <2>3, <3>1 DEF Appends, AppendDurably, AppendBuffered, AppendFillingBuffer,
         Write, Restart, FlushBufferedOutput, Prune, Connect, Disconnect, Acknowledge,
         ProcessCrash, Stop, vars
    <3>3. PICK through \in Seqs(Sendable) :
            batches' = [batches EXCEPT ![conn] = PendingBatch(through)]
      BY <3>2 DEF SendPending
    <3>4. batches'[c] = PendingBatch(through)
      BY <1>1, <2>3, <3>3 DEF TypeOK
    <3>5. /\ r \in records /\ r.seq <= through /\ r.seq <= durableThrough
          /\ r.seq < nextSequence
      BY <1>1, <3>2, <3>4 DEF PendingBatch, Sendable, Unacknowledged, AnchorInv, SendPending, Known
    <3>6. through \in Nat /\ durableThrough \in Nat /\ acknowledgedThrough \in Nat
      BY <1>1 DEF TypeOK, Seqs, Sendable, Unacknowledged, Record
    <3>7. checkpoint < s /\ s < nextSequence /\ s <= r.seq
      BY <1>7, <1>2, <2>1, <3>5
    <3>8. PICK q \in records : q.seq = s
      BY <1>7, <3>2, <3>7 DEF RetainInv, Retains, SendPending
    <3>9. q \in PendingBatch(through)
      BY <1>7, <1>2, <2>1, <3>5, <3>6, <3>7, <3>8 DEF PendingBatch, Sendable, Unacknowledged
    <3>10. QED
      BY <3>4, <3>8, <3>9
  <2>4. QED
    BY <2>2, <2>3
<1>8. \A c \in Connections : Gapless(batches[c])'
  BY <1>7 DEF Gapless
<1>9. QED
  BY <1>4, <1>5, <1>6, <1>8 DEF RetainInv

\* When only the process crashes, no unacknowledged record is ever missing from
\* the files, the memory or a batch.
LEMMA RetainInvariant == ProcessSpec => []RetainInv
<1>1. Init => RetainInv
  <2> SUFFICES ASSUME Init PROVE RetainInv
    OBVIOUS
  <2>1. Known = {} /\ Retains(disk) /\ Retains(records)
    BY DEF Init, InTransit, Known, Retains
  <2>2. QED
    BY <2>1 DEF Init, RetainInv, Gapless
<1>2. SafeInv /\ SafeInv' /\ RetainInv /\ [ProcessNext]_vars => RetainInv'
  BY RetainStep
<1>3. QED
  BY <1>1, <1>2, ProcessSafe, PTL DEF ProcessSpec

\* No record is lost before it is committed, whenever the process crashes.
THEOREM NothingEverLost == ProcessSpec => []NothingLost
<1>1. SafeInv /\ RetainInv => NothingLost
  <2> SUFFICES ASSUME SafeInv, RetainInv, NEW s \in 1 .. nextSequence - 1
               PROVE  s \in Seqs(committed) \cup Seqs(disk)
    BY DEF NothingLost
  <2>1. checkpoint \in Nat /\ cursor \in Nat /\ checkpoint <= cursor
        /\ nextSequence \in Nat /\ Seqs(committed) = 1 .. cursor
    BY DEF SafeInv, PrefixInv, TypeOK, AcknowledgedIsCommitted, CommittedContiguously
  <2>2. CASE s <= checkpoint
    BY <2>1, <2>2
  <2>3. CASE s > checkpoint
    BY <2>1, <2>3, SeqsMember DEF RetainInv, Retains
  <2>4. QED
    BY <2>1, <2>2, <2>3
<1>2. QED
  BY <1>1, ProcessSafe, RetainInvariant, PTL

\* The control plane never finds a gap in a batch, whenever the process crashes.
THEOREM NoGapEver == ProcessSpec => []NeverGapped
<1>1. SafeInv /\ RetainInv => NeverGapped
  <2> SUFFICES ASSUME SafeInv, RetainInv, NEW c \in Connections,
                      NEW r \in Fresh(batches[c])
               PROVE  cursor + 1 .. r.seq \subseteq Seqs(Fresh(batches[c]))
    BY DEF NeverGapped, LedgerGap
  <2>1. cursor \in Nat /\ Seqs(committed) = 1 .. cursor
    BY DEF SafeInv, PrefixInv, TypeOK, CommittedContiguously
  <2>2. r.seq \in Nat
    BY DEF SafeInv, TypeOK, Fresh, Record
  <2>3. ASSUME NEW s \in cursor + 1 .. r.seq
        PROVE  s \in Seqs(Fresh(batches[c]))
    <3>1. PICK q \in batches[c] : q.seq = s
      BY <2>1, <2>2 DEF RetainInv, Gapless, Fresh
    <3>2. q \in Fresh(batches[c])
      BY <2>1, <3>1 DEF Fresh
    <3>3. QED
      BY <3>1, <3>2, SeqsMember
  <2>4. QED
    BY <2>3
<1>2. QED
  BY <1>1, ProcessSafe, RetainInvariant, PTL

-----------------------------------------------------------------------------
(* New work, and the reliable log, when only the process crashes.          *)

Retained == SafeInv /\ RetainInv

LEMMA RetainedInvariant == ProcessSpec => []Retained
BY ProcessSafe, RetainInvariant, PTL DEF Retained

LEMMA RetainedNumbers ==
  ASSUME Retained
  PROVE  /\ TypeOK /\ PrefixInv /\ AnchorInv /\ Before
         /\ checkpoint \in Nat /\ cursor \in Nat /\ nextSequence \in Nat \ {0}
         /\ checkpoint <= cursor /\ cursor < nextSequence /\ acknowledgedThrough = checkpoint
         /\ Seqs(committed) = 1 .. cursor
         /\ \A r \in Known : r \in Record /\ r.seq \in Nat \ {0} /\ r.seq < nextSequence
<1>1. TypeOK /\ PrefixInv /\ AnchorInv /\ Before
  BY DEF Retained, SafeInv, Before
<1>2. /\ checkpoint \in Nat /\ cursor \in Nat /\ nextSequence \in Nat \ {0}
      /\ checkpoint <= cursor /\ acknowledgedThrough = checkpoint
      /\ Seqs(committed) = 1 .. cursor
  BY <1>1 DEF TypeOK, PrefixInv, AcknowledgedIsCommitted, CommittedContiguously
<1>3. \A r \in Known : r \in Record /\ r.seq \in Nat \ {0} /\ r.seq < nextSequence
  BY <1>1, KnownType DEF Retained, RetainInv, Record
<1>4. cursor < nextSequence
  <2>1. CASE cursor = 0
    BY <1>2, <2>1
  <2>2. CASE cursor # 0
    <3>1. cursor \in Seqs(committed)
      BY <1>2, <2>2
    <3>2. PICK r \in committed : r.seq = cursor
      BY <3>1, SeqsMember
    <3> QED BY <1>3, <3>2 DEF Known
  <2> QED BY <2>1, <2>2
<1> QED BY <1>1, <1>2, <1>3, <1>4

\* TryStartSession and TryExecutionAccepted find every earlier record committed:
\* what memory does not hold any more was acknowledged, hence committed.
THEOREM NewWorkIsReconciled == ProcessSpec => ReconciledBeforeNewWork
<1>1. ASSUME Retained, SessionStarted \/ TryExecutionAccepted
      PROVE  cursor = nextSequence - 1
  <2>1. up /\ \A r \in records : ~ r.seq > acknowledgedThrough
    BY <1>1 DEF SessionStarted, TryExecutionAccepted, HasUnacknowledgedRecords, Unacknowledged
  <2>2. \A s \in Nat : checkpoint < s /\ s < nextSequence => \E r \in records : r.seq = s
    BY <1>1, <2>1 DEF Retained, RetainInv, Retains
  <2>3. \A s \in Nat : ~ (checkpoint < s /\ s < nextSequence)
    BY <1>1, <2>1, <2>2, RetainedNumbers
  <2>4. nextSequence - 1 \in Nat /\ nextSequence - 1 < nextSequence
    BY <1>1, RetainedNumbers
  <2>5. nextSequence - 1 <= checkpoint
    BY <1>1, <2>3, <2>4, RetainedNumbers
  <2> QED BY <1>1, <2>5, RetainedNumbers
<1>2. Retained => [SessionStarted \/ TryExecutionAccepted => cursor = nextSequence - 1]_vars
  BY <1>1
<1> QED BY <1>2, RetainedInvariant, PTL DEF ReconciledBeforeNewWork

Stored == committed \cup disk

\* Every number handed out has exactly one record.
LEMMA HistoryRecords ==
  ASSUME Retained
  PROVE  /\ History \in [1 .. nextSequence - 1 -> Record]
         /\ \A s \in 1 .. nextSequence - 1 : History[s] \in Stored /\ History[s].seq = s
         /\ \A r \in Stored : r.seq \in 1 .. nextSequence - 1 /\ History[r.seq] = r
<1>1. ASSUME NEW s \in 1 .. nextSequence - 1
      PROVE  \E r \in Stored : r.seq = s
  <2>1. CASE s <= checkpoint
    <3>1. s \in Seqs(committed)
      BY <2>1, RetainedNumbers
    <3> QED BY <3>1, SeqsMember DEF Stored
  <2>2. CASE s > checkpoint
    BY <2>2, RetainedNumbers DEF Retained, RetainInv, Retains, Stored
  <2> QED BY <2>1, <2>2, RetainedNumbers
<1>2. ASSUME NEW s \in 1 .. nextSequence - 1
      PROVE  History[s] \in Stored /\ History[s].seq = s
  <2>1. History[s] = CHOOSE r \in committed \cup disk : r.seq = s
    BY DEF History
  <2> QED BY <1>1, <2>1 DEF Stored
<1>3. Stored \subseteq Known /\ \A r \in Stored : r \in Record
  BY RetainedNumbers DEF Stored, Known
<1>4. ASSUME NEW r \in Stored
      PROVE  r.seq \in 1 .. nextSequence - 1 /\ History[r.seq] = r
  <2>1. r.seq \in 1 .. nextSequence - 1
    BY <1>3, RetainedNumbers
  <2>2. History[r.seq] \in Known /\ History[r.seq].seq = r.seq
    BY <1>2, <1>3, <2>1
  <2> QED BY <1>3, <2>1, <2>2, RetainedNumbers DEF AnchorInv, OneRecordPerSequence, Known
<1>5. History \in [1 .. nextSequence - 1 -> Record]
  BY <1>2, <1>3 DEF History
<1> QED BY <1>2, <1>4, <1>5

LEMMA HistoryIsSeq ==
  ASSUME Retained
  PROVE  /\ History \in Seq(Record) /\ Len(History) = nextSequence - 1
         /\ nextSequence - 1 \in Nat
<1>1. nextSequence - 1 \in Nat /\ History \in [1 .. nextSequence - 1 -> Record]
  BY HistoryRecords, RetainedNumbers
<1>2. History \in Seq(Record)
  BY <1>1
<1>3. Len(History) \in Nat /\ DOMAIN History = 1 .. Len(History)
  BY <1>2
<1> QED BY <1>1, <1>2, <1>3

HistoryFits ==
  /\ History \in Seq(Record) /\ Len(History) = nextSequence - 1
  /\ \A s \in 1 .. nextSequence - 1 : History[s] \in Stored /\ History[s].seq = s

LEMMA HistoryFitsAlways == Retained => HistoryFits
BY HistoryRecords, HistoryIsSeq DEF HistoryFits

\* Whatever was handed out keeps its record: what is new has a new number.
LEMMA HistoryKept ==
  ASSUME Retained, Retained', nextSequence <= nextSequence',
         \A r \in Stored' : r.seq < nextSequence => r \in Known
  PROVE  \A s \in 1 .. nextSequence - 1 : History'[s] = History[s]
<1> SUFFICES ASSUME NEW s \in 1 .. nextSequence - 1 PROVE History'[s] = History[s]
  OBVIOUS
<1>1. nextSequence \in Nat /\ nextSequence' \in Nat
  BY DEF Retained, SafeInv, TypeOK
<1>2. s \in 1 .. nextSequence' - 1
  <2>1. \A m, n \in Nat : m <= n => \A k \in 1 .. m - 1 : k \in 1 .. n - 1
    OBVIOUS
  <2> QED BY <1>1, <2>1
<1>3. HistoryFits'
  <2>1. Retained' => HistoryFits'
    BY HistoryFitsAlways, PTL
  <2> QED BY <2>1
<1>4. History'[s] \in Stored' /\ History'[s].seq = s
  BY <1>2, <1>3 DEF HistoryFits
<1>5. History'[s] \in Known
  BY <1>1, <1>4
<1>6. History[s] \in Known /\ History[s].seq = s
  BY HistoryRecords DEF Stored, Known
<1> QED BY <1>4, <1>5, <1>6, RetainedNumbers DEF AnchorInv, OneRecordPerSequence, Known

\* After a crash of the process the constructor goes on with the next number.
LEMMA RestartContinues ==
  ASSUME Retained, NEW last \in {0} \cup Seqs(disk), IsLast(last, disk)
  PROVE  NextAfter(last) = nextSequence
<1>1. \A s \in Nat : checkpoint < s /\ s < nextSequence => \E r \in disk : r.seq = s
  BY DEF Retained, RetainInv, Retains
<1>2. \A r \in disk : r.seq \in Nat \ {0} /\ r.seq < nextSequence
  BY RetainedNumbers DEF Known
<1>3. last \in Nat /\ last < nextSequence
  BY <1>2, SeqsMember, RetainedNumbers
<1>4. \A r \in disk : r.seq <= last
  BY DEF IsLast
<1>5. nextSequence - 1 \in Nat /\ (checkpoint < nextSequence - 1 => nextSequence - 1 <= last)
  BY <1>1, <1>4, RetainedNumbers
<1> QED BY <1>3, <1>5, RetainedNumbers DEF NextAfter

\* Every step hands out one number or commits, and makes no other record known.
LEMMA NumbersMove ==
  ASSUME Retained, [ProcessNext]_vars
  PROVE  /\ \/ nextSequence' = nextSequence
            \/ nextSequence' = nextSequence + 1 /\ cursor' = cursor
         /\ \A r \in Stored' : r.seq < nextSequence => r \in Known
<1> USE DEF memoryVars, diskVars, transportVars, controlVars
<1>1. Before /\ TypeOK /\ nextSequence \in Nat
  BY RetainedNumbers
<1>2. CASE Appends
  <2>1. PICK type \in RecordTypes :
          /\ disk' = disk \cup {NewRecord(type)} /\ nextSequence' = nextSequence + 1
          /\ UNCHANGED <<committed, cursor>> /\ NewRecord(type).seq = nextSequence
    BY <1>1, <1>2, NewRecordType DEF Appends, AppendDurably, AppendBuffered,
       AppendFillingBuffer, Write
  <2> QED BY <1>1, <2>1 DEF Stored, Known
<1>3. CASE Restart
  <2>1. PICK last \in {0} \cup Seqs(disk) :
          /\ IsLast(last, disk)
          /\ \/ nextSequence' = NextAfter(last) /\ disk' = disk
             \/ /\ nextSequence' = NextAfter(last) + 1
                /\ disk' = disk \cup {[seq |-> NextAfter(last), life |-> crashes,
                                       type |-> "worker_stopped"]}
    BY <1>3 DEF Restart
  <2>2. NextAfter(last) = nextSequence /\ UNCHANGED <<committed, cursor>>
    BY <1>3, <2>1, RestartContinues DEF Restart
  <2> QED BY <1>1, <2>1, <2>2 DEF Stored, Known
<1>4. CASE \/ FlushBufferedOutput \/ Prune \/ Connect \/ Disconnect \/ SendPending
           \/ Acknowledge \/ ProcessCrash \/ UNCHANGED vars
           \/ \E c \in Connections : LoseBatch(c) \/ IngestBatch(c) \/ RejectBatch(c)
  <2>1. disk' \subseteq disk /\ InTransit' \cup committed' \subseteq Known
    BY <1>1, <1>4, KnownShrinks
  <2>2. nextSequence' = nextSequence
    BY <1>4 DEF FlushBufferedOutput, Prune, Connect, Disconnect, SendPending, Acknowledge,
       ProcessCrash, Stop, LoseBatch, IngestBatch, RejectBatch, vars
  <2> QED BY <2>1, <2>2 DEF Stored, Known
<1> QED BY <1>2, <1>3, <1>4, LedgerNextCases DEF ProcessNext, TransportNext

CursorBelow == cursor < nextSequence

LEMMA CursorBelowAlways == Retained => CursorBelow
BY RetainedNumbers DEF CursorBelow

LEMMA HistoryStep ==
  ASSUME Retained, Retained', [ProcessNext]_vars
  PROVE  [Log!Next]_<<History, cursor>>
<1>1. HistoryFits /\ HistoryFits'
  <2>1. Retained' => HistoryFits'
    BY HistoryFitsAlways, PTL
  <2> QED BY <2>1, HistoryFitsAlways
<1>2. /\ nextSequence \in Nat \ {0} /\ nextSequence' \in Nat \ {0}
      /\ cursor \in Nat /\ cursor' \in Nat /\ cursor <= cursor' /\ cursor' < nextSequence'
  <2>1. Retained' => cursor' < nextSequence'
    <3>1. Retained' => CursorBelow'
      BY CursorBelowAlways, PTL
    <3> QED BY <3>1 DEF CursorBelow
  <2>2. PrefixInv /\ TypeOK /\ TypeOK'
    BY DEF Retained, SafeInv
  <2>3. cursor <= cursor'
    BY <2>2, PrefixStep DEF Next
  <2> QED BY <2>1, <2>2, <2>3 DEF TypeOK
<1>3. \A s \in 1 .. nextSequence - 1 : History'[s] = History[s]
  BY <1>2, NumbersMove, HistoryKept
<1>4. /\ History \in Seq(Record) /\ History' \in Seq(Record)
      /\ Len(History) = nextSequence - 1 /\ Len(History') = nextSequence' - 1
  BY <1>1 DEF HistoryFits, Record, RecordTypes
<1>5. CASE nextSequence' = nextSequence
  <2>1. History' = History
    BY <1>2, <1>3, <1>4, <1>5
  <2>2. cursor' = cursor \/ cursor' \in cursor + 1 .. Len(History)
    BY <1>2, <1>4, <1>5
  <2> QED BY <2>1, <2>2 DEF Log!Next, Log!DeliverMore
<1>6. CASE nextSequence' = nextSequence + 1 /\ cursor' = cursor
  <2>1. Len(History') = Len(History) + 1
    BY <1>2, <1>4, <1>6
  <2>2. SubSeq(History', 1, Len(History)) = History
    BY <1>2, <1>3, <1>4, <1>6
  <2> QED BY <1>4, <1>6, <2>1, <2>2 DEF Log!Next, Log!AppendOne
<1> QED BY <1>5, <1>6, NumbersMove

\* Replication of the ledger implements the reliable log that Investigation
\* builds on: what EndpointLedger appended stays what it is, and
\* ingest_endpoint_ledger_batch delivers an ever longer prefix of it.
THEOREM RefinesReliableLog == ProcessSpec => ImplementsReliableLog
<1>1. Init => Log!Init
  <2> SUFFICES ASSUME Init PROVE Log!Init
    OBVIOUS
  <2>1. nextSequence - 1 = 0 /\ cursor = 0
    BY DEF Init
  <2>2. History = <<>>
    BY <2>1 DEF History
  <2> QED BY <2>1, <2>2 DEF Log!Init
<1>2. Retained /\ Retained' /\ [ProcessNext]_vars => [Log!Next]_<<History, cursor>>
  BY HistoryStep
<1> QED BY <1>1, <1>2, RetainedInvariant, PTL DEF ProcessSpec, ImplementsReliableLog, Log!Spec
=============================================================================
