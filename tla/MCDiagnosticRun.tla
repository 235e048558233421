-------------------------- MODULE MCDiagnosticRun --------------------------
(***************************************************************************)
(* Executions and waits for checking DiagnosticRun.                        *)
(***************************************************************************)
EXTENDS DiagnosticRun

ThreeExecutions == 1 .. 3   \* one more than the driver may submit
TwoWaiters == 1 .. 2
=============================================================================
