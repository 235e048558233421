------------------------- MODULE MCLedgerReplication -------------------------
(* Instances of LedgerReplication for TLC.                                 *)
EXTENDS LedgerReplication

=============================================================================
