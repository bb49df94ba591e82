----------------------------- MODULE MCRetention -----------------------------
(* One project of Compose deployments. *)
EXTENDS Retention

MCRetRuns == [F \in SUBSET RetFault |-> 2]
==============================================================================
