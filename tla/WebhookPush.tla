----------------------------- MODULE WebhookPush -----------------------------
(***************************************************************************)
(* From a push to a branch to the commit that is live: GitHub delivers the  *)
(* push, perhaps late, twice or not in order; the webhook route records the *)
(* delivery and queues a deployment (routes/webhooks.ts, deployProject in   *)
(* enqueue.service.ts); a run clones the branch (deployment/github.service. *)
(* ts) and goes live.  The runs of the project are serial (DeploymentLocks).*)
(***************************************************************************)
EXTENDS Integers

CONSTANTS
  MaxPush,       \* bound: pushes to the branch
  MaxDelivery,   \* bound: requests that deliver them
  HookFaultSets  \* each behaviour admits one of these subsets of HookFault

Push == 1..MaxPush
Delivery == 1..MaxDelivery
NoDelivery == 0

(* overlap: a push is delivered while another one is being queued
   fail:    queueing or running a deployment fails
   die:     the process of a request dies                                  *)
HookFault == {"overlap", "fail", "die"}

ASSUME HookBounds == MaxPush \in Nat /\ MaxDelivery \in Nat
ASSUME HookFaultAssumption == HookFaultSets \subseteq SUBSET HookFault

VARIABLES
  hookHead,     \* the last commit of the branch
  hookRow,      \* the webhookEvent of each push, named by its delivery id
  hookCall,     \* the requests
  hookLock,     \* the request that holds project-enqueue:<project>
  hookStarted,  \* history: the deployments each push has started
  hookQueued,   \* pushes with a deployment that waits
  hookRun,      \* the push whose deployment runs, and the commit it has cloned
  hookLive,     \* the commit that is live
  hookFaults

hookVars == <<hookHead, hookRow, hookCall, hookLock, hookStarted, hookQueued, hookRun, hookLive, hookFaults>>

(* The lock is held by a request that queues a deployment, unless one died. *)
HookTypeOK ==
  /\ hookHead \in 0..MaxPush
  /\ hookRow \in [Push -> {"none", "RECEIVED", "PROCESSED", "FAILED"}]
  /\ hookCall \in [Delivery -> [pc : {"idle", "recorded", "queueing", "queued", "answered"}, push : 0..MaxPush]]
  /\ hookLock \in {NoDelivery} \cup {i \in Delivery : "die" \in hookFaults \/ hookCall[i].pc = "queueing"}
  /\ hookStarted \in [Push -> 0..MaxDelivery]
  /\ hookQueued \subseteq Push
  /\ hookRun \in [pc : {"idle", "running", "cloned"}, push : 0..MaxPush, commit : 0..MaxPush]
  /\ hookLive \in 0..MaxPush
  /\ hookFaults \in HookFaultSets

HookInit ==
  /\ hookHead = 0 /\ hookLive = 0 /\ hookQueued = {}
  /\ hookRow = [p \in Push |-> "none"] /\ hookStarted = [p \in Push |-> 0]
  /\ hookCall = [i \in Delivery |-> [pc |-> "idle", push |-> 0]]
  /\ hookLock = NoDelivery
  /\ hookRun = [pc |-> "idle", push |-> 0, commit |-> 0]
  /\ hookFaults \in HookFaultSets

------------------------------------------------------------------------------
HookPush ==
  /\ hookHead < MaxPush
  /\ hookHead' = hookHead + 1
  /\ UNCHANGED <<hookRow, hookCall, hookLock, hookStarted, hookQueued, hookRun, hookLive, hookFaults>>

HookGoes(i, pc) == hookCall' = [hookCall EXCEPT ![i].pc = pc]

(* Mutant: a delivery is taken as new whatever its id. *)
MutReceive(i, p) ==
  /\ hookCall[i].pc = "idle" /\ p <= hookHead
  /\ "overlap" \in hookFaults \/ \A j \in Delivery : hookCall[j].pc \notin {"recorded", "queueing", "queued"}
  /\ hookRow' = [hookRow EXCEPT ![p] = "RECEIVED"]
  /\ hookCall' = [hookCall EXCEPT ![i] = [pc |-> "recorded", push |-> p]]
  /\ UNCHANGED <<hookHead, hookLock, hookStarted, hookQueued, hookRun, hookLive, hookFaults>>

(* The row of the delivery id exists already: 409. *)
Receive(i, p) ==
  /\ hookCall[i].pc = "idle" /\ p <= hookHead
  /\ "overlap" \in hookFaults \/ \A j \in Delivery : hookCall[j].pc \notin {"recorded", "queueing", "queued"}
  /\ IF hookRow[p] = "none"
       THEN /\ hookRow' = [hookRow EXCEPT ![p] = "RECEIVED"]
            /\ hookCall' = [hookCall EXCEPT ![i] = [pc |-> "recorded", push |-> p]]
       ELSE /\ hookCall' = [hookCall EXCEPT ![i] = [pc |-> "answered", push |-> p]]
            /\ UNCHANGED hookRow
  /\ UNCHANGED <<hookHead, hookLock, hookStarted, hookQueued, hookRun, hookLive, hookFaults>>

HookAnswers(i, status) ==
  /\ hookRow' = [hookRow EXCEPT ![hookCall[i].push] = status]
  /\ HookGoes(i, "answered")

(* deployProject: a request that finds the lock taken fails the delivery. *)
Lock(i) ==
  /\ hookCall[i].pc = "recorded"
  /\ IF hookLock = NoDelivery
       THEN hookLock' = i /\ HookGoes(i, "queueing") /\ UNCHANGED hookRow
       ELSE HookAnswers(i, "FAILED") /\ UNCHANGED hookLock
  /\ UNCHANGED <<hookHead, hookStarted, hookQueued, hookRun, hookLive, hookFaults>>

Queue(i) ==
  /\ hookCall[i].pc = "queueing"
  /\ hookQueued' = hookQueued \cup {hookCall[i].push}
  /\ hookStarted' = [hookStarted EXCEPT ![hookCall[i].push] = @ + 1]
  /\ hookLock' = NoDelivery
  /\ HookGoes(i, "queued")
  /\ UNCHANGED <<hookHead, hookRow, hookRun, hookLive, hookFaults>>

(* Mutant: the lock is given back only when the deployment is queued. *)
MutQueueFails(i) ==
  /\ "fail" \in hookFaults /\ hookCall[i].pc = "queueing"
  /\ HookAnswers(i, "FAILED")
  /\ UNCHANGED <<hookHead, hookLock, hookStarted, hookQueued, hookRun, hookLive, hookFaults>>

(* The limit, the reservation or the queue refuses. *)
QueueFails(i) ==
  /\ "fail" \in hookFaults /\ hookCall[i].pc = "queueing"
  /\ hookLock' = NoDelivery
  /\ HookAnswers(i, "FAILED")
  /\ UNCHANGED <<hookHead, hookStarted, hookQueued, hookRun, hookLive, hookFaults>>

Processed(i) ==
  /\ hookCall[i].pc = "queued"
  /\ HookAnswers(i, "PROCESSED")
  /\ UNCHANGED <<hookHead, hookLock, hookStarted, hookQueued, hookRun, hookLive, hookFaults>>

(* The row stays RECEIVED, and the lock until it lapses. *)
HookDies(i) ==
  /\ "die" \in hookFaults /\ hookCall[i].pc \in {"recorded", "queueing", "queued"}
  /\ HookGoes(i, "answered")
  /\ UNCHANGED <<hookHead, hookRow, hookLock, hookStarted, hookQueued, hookRun, hookLive, hookFaults>>

HookLapse ==
  /\ "die" \in hookFaults /\ hookLock # NoDelivery /\ hookCall[hookLock].pc = "answered"
  /\ hookLock' = NoDelivery
  /\ UNCHANGED <<hookHead, hookRow, hookCall, hookStarted, hookQueued, hookRun, hookLive, hookFaults>>

------------------------------------------------------------------------------
(* The runs.                                                               *)

HookIdle == [pc |-> "idle", push |-> 0, commit |-> 0]

(* Retries and several workers take the jobs in any order. *)
HookStart(p) ==
  /\ hookRun.pc = "idle" /\ p \in hookQueued
  /\ hookRun' = [pc |-> "running", push |-> p, commit |-> 0]
  /\ hookQueued' = hookQueued \ {p}
  /\ UNCHANGED <<hookHead, hookRow, hookCall, hookLock, hookStarted, hookLive, hookFaults>>

(* Mutant: the commit of the push is checked out. *)
MutCloned(p) == p

(* git clone -b or git fetch: the branch as it is now, not the recorded commit. *)
Cloned(p) == hookHead

HookClone ==
  /\ hookRun.pc = "running"
  /\ hookRun' = [hookRun EXCEPT !.pc = "cloned", !.commit = Cloned(hookRun.push)]
  /\ UNCHANGED <<hookHead, hookRow, hookCall, hookLock, hookStarted, hookQueued, hookLive, hookFaults>>

HookGoesLive ==
  /\ hookRun.pc = "cloned"
  /\ hookLive' = hookRun.commit
  /\ hookRun' = HookIdle
  /\ UNCHANGED <<hookHead, hookRow, hookCall, hookLock, hookStarted, hookQueued, hookFaults>>

HookRunFails ==
  /\ "fail" \in hookFaults /\ hookRun.pc # "idle"
  /\ hookRun' = HookIdle
  /\ UNCHANGED <<hookHead, hookRow, hookCall, hookLock, hookStarted, hookQueued, hookLive, hookFaults>>

HookNext ==
  \/ HookPush \/ HookLapse \/ HookClone \/ HookGoesLive \/ HookRunFails
  \/ \E i \in Delivery :
       \/ Lock(i) \/ Queue(i) \/ QueueFails(i) \/ Processed(i) \/ HookDies(i)
       \/ \E p \in Push : Receive(i, p)
  \/ \E p \in Push : HookStart(p)

HookSpec == HookInit /\ [][HookNext]_hookVars

------------------------------------------------------------------------------
(* Properties.                                                             *)

(* docs/SECURITY.md:25: a push starts at most one deployment however often it is
   delivered, and a delivery shown as PROCESSED has started it.            *)
OnePerPush ==
  \A p \in Push : hookStarted[p] <= 1 /\ (hookRow[p] = "PROCESSED" => hookStarted[p] = 1)

(* README.md:19: once every push has been delivered and nothing is under way the
   last commit is live, in whatever order the pushes were delivered and run,
   because a run builds the branch and not the commit that was pushed.  (A push
   delivered while another one is being queued is answered FAILED and lost.) *)
HeadIsLive ==
  /\ "fail" \notin hookFaults
  /\ \A p \in Push : p <= hookHead => hookRow[p] = "PROCESSED"
  /\ hookQueued = {} /\ hookRun = HookIdle
  => hookLive = hookHead
==============================================================================
