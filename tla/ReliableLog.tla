----------------------------- MODULE ReliableLog -----------------------------
(***************************************************************************)
(* What replication of the endpoint ledger promises: an append-only log of *)
(* which an ever longer prefix is delivered.                               *)
(***************************************************************************)
EXTENDS Naturals, Sequences

CONSTANT Values

VARIABLES log, delivered

Init == log = <<>> /\ delivered = 0

AppendOne ==
  /\ log' \in Seq(Values)
  /\ Len(log') = Len(log) + 1
  /\ SubSeq(log', 1, Len(log)) = log
  /\ UNCHANGED delivered

DeliverMore ==
  /\ delivered' \in delivered + 1 .. Len(log)
  /\ UNCHANGED log

Next == AppendOne \/ DeliverMore

Spec == Init /\ [][Next]_<<log, delivered>>
=============================================================================
