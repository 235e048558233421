-------------------------- MODULE MCInvestigation --------------------------
(***************************************************************************)
(* Budgets for checking Investigation: the optional events that happen in  *)
(* a run, each once, and how many of them in one behaviour.                *)
(***************************************************************************)
EXTENDS Investigation

Once(events, most) ==
  [event \in Optional |->
     IF event = "any" THEN most ELSE IF event \in events THEN 1 ELSE 0]

AnyTwo == Once(Optional, 2)
TwoFailures == Once({"disconnect", "service_crash", "control_restart", "close"}, 2)
OnlyCancel == Once({"cancel"}, 1)
OnlyClose == Once({"close"}, 1)
Nothing == Once({}, 0)
=============================================================================
