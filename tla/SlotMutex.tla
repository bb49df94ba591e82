------------------------------ MODULE SlotMutex ------------------------------
(***************************************************************************)
(* What the deployment locks promise, with no word about leases: at any    *)
(* moment at most one deployment operation works on a project and at most  *)
(* one on a VPS.  DeploymentLocks is shown to implement it as long as the  *)
(* heartbeat of every operation reaches Redis in time.                     *)
(***************************************************************************)
CONSTANTS
  Slot,      \* the concurrent job slots of the deployment workers
  Project,
  Vps,
  Nothing    \* a slot that runs no operation

VARIABLE operation   \* what each slot works on

Operation == Project \X Vps

TypeOK == operation \in [Slot -> Operation \cup {Nothing}]

Init == operation = [s \in Slot |-> Nothing]

Busy == {s \in Slot : operation[s] # Nothing}

(* A slot starts on a project and a VPS no other slot works on. *)
Begin(s, p, v) ==
  /\ operation[s] = Nothing
  /\ \A t \in Busy : operation[t][1] # p /\ operation[t][2] # v
  /\ operation' = [operation EXCEPT ![s] = <<p, v>>]

(* The operation is over: completed, failed or lost with its process. *)
End(s) ==
  /\ operation[s] # Nothing
  /\ operation' = [operation EXCEPT ![s] = Nothing]

Next ==
  \/ \E s \in Slot, p \in Project, v \in Vps : Begin(s, p, v)
  \/ \E s \in Slot : End(s)

Spec == Init /\ [][Next]_operation
==============================================================================
