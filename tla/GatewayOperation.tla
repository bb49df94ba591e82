-------------------------- MODULE GatewayOperation --------------------------
(***************************************************************************)
(* Bootstrapping the gateway of one VPS (vps.service.ts, gateway.worker.ts):*)
(* a request looks for an operation that is under way, creates one, marks   *)
(* the VPS and queues a job; the worker installs the gateway, records the   *)
(* outcome in both rows and lets the queue try again.  The socket proxy and *)
(* Traefik are created alike and stand as one container.                    *)
(***************************************************************************)
EXTENDS Integers, FiniteSets

CONSTANTS
  GwCaller,     \* requests that may be under way at once
  MaxOps,       \* bound: operations
  GwAttempts,   \* attempts of a job (3 in utils/queue.ts)
  GwNobody,
  GwFaultSets   \* each behaviour admits one of these subsets of GwFault

GwOp == 1..MaxOps
NoOp == 0

(* fail:  an installation fails, or the queue refuses a job
   reply: the queue takes a job and its reply is lost
   lapse: the lock of a request (15 s) runs out
   crash: a worker dies, once per job, and the queue hands the job out again
   die:   the API process dies between creating and queueing               *)
GwFault == {"fail", "reply", "lapse", "crash", "die"}

ASSUME GwBounds == MaxOps \in Nat /\ GwAttempts \in Nat \ {0}
ASSUME GwNobodyAssumption == GwNobody \notin GwCaller
ASSUME GwFaultAssumption == GwFaultSets \subseteq SUBSET GwFault

VARIABLES
  gwStatus,   \* VPSOperation rows
  gwVps,      \* VPS.gatewayStatus
  gwUp,       \* whether the container deployforge-traefik runs
  gwJob,      \* the queue job of each operation and the run it is in
  gwCall,     \* the requests
  gwLock,     \* gateway-enqueue:<vps>
  gwFaults

gwVars == <<gwStatus, gwVps, gwUp, gwJob, gwCall, gwLock, gwFaults>>

Installing == {"check", "remove", "run", "verify", "ready"}

GwTypeOK ==
  /\ gwStatus \in [GwOp -> {"none", "QUEUED", "RUNNING", "SUCCESS", "FAILED"}]
  /\ gwVps \in {"UNKNOWN", "PROVISIONING", "READY", "FAILED"}
  /\ gwUp \in BOOLEAN
  /\ gwJob \in [GwOp -> [pc : {"none", "waiting", "begin", "success", "ack", "gone"} \cup Installing,
                         tries : 0..GwAttempts, stalls : 0..1]]
  /\ gwCall \in [GwCaller -> [pc : {"idle", "find", "create", "provision", "add"}, op : GwOp \cup {NoOp}]]
  /\ gwLock \in GwCaller \cup {GwNobody}
  /\ gwFaults \in GwFaultSets

GwInit ==
  /\ gwStatus = [o \in GwOp |-> "none"] /\ gwVps = "UNKNOWN" /\ gwUp = FALSE
  /\ gwJob = [o \in GwOp |-> [pc |-> "none", tries |-> 0, stalls |-> 0]]
  /\ gwCall = [c \in GwCaller |-> [pc |-> "idle", op |-> NoOp]]
  /\ gwLock = GwNobody
  /\ gwFaults \in GwFaultSets

------------------------------------------------------------------------------
(* Requests: enqueueBootstrap.                                             *)

Unfinished == {"QUEUED", "RUNNING"}

FirstFree == CHOOSE o \in GwOp : gwStatus[o] = "none" /\ \A p \in GwOp : p < o => gwStatus[p] # "none"

Asks(c, pc) == gwCall' = [gwCall EXCEPT ![c].pc = pc]

EndRequest(c) ==
  /\ gwCall' = [gwCall EXCEPT ![c] = [pc |-> "idle", op |-> NoOp]]
  /\ gwLock' = IF gwLock = c THEN GwNobody ELSE gwLock

GwRequest(c) ==
  /\ gwCall[c].pc = "idle" /\ gwLock = GwNobody /\ \E o \in GwOp : gwStatus[o] = "none"
  /\ Asks(c, "find") /\ gwLock' = c
  /\ UNCHANGED <<gwStatus, gwVps, gwUp, gwJob, gwFaults>>

(* Mutant: an operation whose job has begun is not looked for. *)
MutGwFind(c) ==
  /\ gwCall[c].pc = "find"
  /\ IF \E o \in GwOp : gwStatus[o] = "QUEUED"
       THEN EndRequest(c)
       ELSE Asks(c, "create") /\ UNCHANGED gwLock
  /\ UNCHANGED <<gwStatus, gwVps, gwUp, gwJob, gwFaults>>

GwFind(c) ==
  /\ gwCall[c].pc = "find"
  /\ IF \E o \in GwOp : gwStatus[o] \in Unfinished
       THEN EndRequest(c)
       ELSE Asks(c, "create") /\ UNCHANGED gwLock
  /\ UNCHANGED <<gwStatus, gwVps, gwUp, gwJob, gwFaults>>

GwCreate(c) ==
  /\ gwCall[c].pc = "create" /\ \E o \in GwOp : gwStatus[o] = "none"
  /\ gwStatus' = [gwStatus EXCEPT ![FirstFree] = "QUEUED"]
  /\ gwCall' = [gwCall EXCEPT ![c] = [pc |-> "provision", op |-> FirstFree]]
  /\ UNCHANGED <<gwVps, gwUp, gwJob, gwLock, gwFaults>>

GwProvision(c) ==
  /\ gwCall[c].pc = "provision"
  /\ gwVps' = "PROVISIONING"
  /\ Asks(c, "add")
  /\ UNCHANGED <<gwStatus, gwUp, gwJob, gwLock, gwFaults>>

Added(o) == gwJob' = [gwJob EXCEPT ![o].pc = "waiting"]

GwAdd(c) ==
  /\ gwCall[c].pc = "add"
  /\ Added(gwCall[c].op)
  /\ EndRequest(c)
  /\ UNCHANGED <<gwStatus, gwVps, gwUp, gwFaults>>

(* Mutant: only the operation is marked. *)
MutGwAddFails(c) ==
  /\ gwCall[c].pc = "add"
  /\ "fail" \in gwFaults /\ UNCHANGED gwJob
  /\ gwStatus' = [gwStatus EXCEPT ![gwCall[c].op] = "FAILED"]
  /\ EndRequest(c)
  /\ UNCHANGED <<gwVps, gwUp, gwFaults>>

GwAddFails(c) ==
  /\ gwCall[c].pc = "add"
  /\ \/ "fail" \in gwFaults /\ UNCHANGED gwJob
     \/ "reply" \in gwFaults /\ Added(gwCall[c].op)
  /\ gwStatus' = [gwStatus EXCEPT ![gwCall[c].op] = "FAILED"]
  /\ gwVps' = "FAILED"
  /\ EndRequest(c)
  /\ UNCHANGED <<gwUp, gwFaults>>

(* The lock of a process that died runs out on its own. *)
GwDie(c) ==
  /\ "die" \in gwFaults /\ gwCall[c].pc # "idle"
  /\ EndRequest(c)
  /\ UNCHANGED <<gwStatus, gwVps, gwUp, gwJob, gwFaults>>

GwLapse ==
  /\ "lapse" \in gwFaults /\ gwLock # GwNobody
  /\ gwLock' = GwNobody
  /\ UNCHANGED <<gwStatus, gwVps, gwUp, gwJob, gwCall, gwFaults>>

------------------------------------------------------------------------------
(* The worker: processBootstrapOperation and bootstrapVPS.                 *)

Goes(o, pc) == gwJob' = [gwJob EXCEPT ![o].pc = pc]

GwPickUp(o) ==
  /\ gwJob[o].pc = "waiting"
  /\ IF gwStatus[o] = "SUCCESS"
       THEN Goes(o, "ack") /\ UNCHANGED gwStatus
       ELSE Goes(o, "check") /\ gwStatus' = [gwStatus EXCEPT ![o] = "RUNNING"]
  /\ UNCHANGED <<gwVps, gwUp, gwCall, gwLock, gwFaults>>

GwCheck(o) ==
  /\ gwJob[o].pc = "check"
  /\ Goes(o, IF gwUp THEN "verify" ELSE "remove")
  /\ UNCHANGED <<gwStatus, gwVps, gwUp, gwCall, gwLock, gwFaults>>

GwRemove(o) ==
  /\ gwJob[o].pc = "remove"
  /\ gwUp' = FALSE
  /\ Goes(o, "run")
  /\ UNCHANGED <<gwStatus, gwVps, gwCall, gwLock, gwFaults>>

(* docker run fails when the name is taken (GwFails). *)
GwRun(o) ==
  /\ gwJob[o].pc = "run" /\ ~gwUp
  /\ gwUp' = TRUE
  /\ Goes(o, "verify")
  /\ UNCHANGED <<gwStatus, gwVps, gwCall, gwLock, gwFaults>>

GwVerify(o) ==
  /\ gwJob[o].pc = "verify" /\ gwUp
  /\ Goes(o, "ready")
  /\ UNCHANGED <<gwStatus, gwVps, gwUp, gwCall, gwLock, gwFaults>>

GwReady(o) ==
  /\ gwJob[o].pc = "ready"
  /\ gwVps' = "READY"
  /\ Goes(o, "success")
  /\ UNCHANGED <<gwStatus, gwUp, gwCall, gwLock, gwFaults>>

GwSucceed(o) ==
  /\ gwJob[o].pc = "success"
  /\ gwStatus' = [gwStatus EXCEPT ![o] = "SUCCESS"]
  /\ Goes(o, "ack")
  /\ UNCHANGED <<gwVps, gwUp, gwCall, gwLock, gwFaults>>

GwAck(o) ==
  /\ gwJob[o].pc = "ack"
  /\ Goes(o, "gone")
  /\ UNCHANGED <<gwStatus, gwVps, gwUp, gwCall, gwLock, gwFaults>>

TryAgain(o) ==
  [gwJob[o] EXCEPT !.tries = @ + 1, !.pc = IF gwJob[o].tries + 1 < GwAttempts THEN "waiting" ELSE "gone"]

Throws(o) ==
  \/ "fail" \in gwFaults /\ gwJob[o].pc \in Installing \cup {"success"}
  \/ gwJob[o].pc = "run" /\ gwUp
  \/ gwJob[o].pc = "verify" /\ ~gwUp

(* Mutant: only the VPS is marked. *)
MutGwFails(o) ==
  /\ Throws(o)
  /\ gwVps' = "FAILED"
  /\ gwJob' = [gwJob EXCEPT ![o] = TryAgain(o)]
  /\ UNCHANGED <<gwStatus, gwUp, gwCall, gwLock, gwFaults>>

GwFails(o) ==
  /\ Throws(o)
  /\ gwStatus' = [gwStatus EXCEPT ![o] = "FAILED"]
  /\ gwVps' = "FAILED"
  /\ gwJob' = [gwJob EXCEPT ![o] = TryAgain(o)]
  /\ UNCHANGED <<gwUp, gwCall, gwLock, gwFaults>>

GwCrash(o) ==
  /\ "crash" \in gwFaults /\ gwJob[o].stalls = 0
  /\ gwJob[o].pc \in Installing \cup {"success", "ack"}
  /\ gwJob' = [gwJob EXCEPT ![o].pc = "waiting", ![o].stalls = 1]
  /\ UNCHANGED <<gwStatus, gwVps, gwUp, gwCall, gwLock, gwFaults>>

GwWork(o) ==
  \/ GwPickUp(o) \/ GwCheck(o) \/ GwRemove(o) \/ GwRun(o) \/ GwVerify(o) \/ GwReady(o) \/ GwSucceed(o)
  \/ GwAck(o) \/ GwFails(o)

GwProceed(c) == GwFind(c) \/ GwCreate(c) \/ GwProvision(c) \/ GwAdd(c) \/ GwAddFails(c)

GwNext ==
  \/ GwLapse
  \/ \E o \in GwOp : GwWork(o) \/ GwCrash(o)
  \/ \E c \in GwCaller : GwRequest(c) \/ GwProceed(c) \/ GwDie(c)

(* A worker works while it lives and is replaced when it dies; a request that
   does not die goes on.                                                   *)
GwFairness ==
  /\ \A o \in GwOp : WF_gwVars(GwWork(o))
  /\ \A c \in GwCaller : WF_gwVars(GwProceed(c))

GwSpec == GwInit /\ [][GwNext]_gwVars /\ GwFairness

------------------------------------------------------------------------------
(* Properties.                                                             *)

(* As long as nothing fails, no lock lapses and no reply is lost, requests and
   workers that die never bring two installations onto one VPS: an operation
   is visible as QUEUED or RUNNING from before its job exists until after its
   last command.  (Between two attempts it is FAILED, so a failure lets a
   second operation start next to the retry.)                              *)
OneBootstrap ==
  gwFaults \cap {"fail", "lapse", "reply"} = {} =>
    Cardinality({o \in GwOp : gwJob[o].pc \in Installing}) <= 1

(* A VPS that is shown as PROVISIONING has an operation that is under way,
   whichever operations overlap and fail, unless the API process died.     *)
ProvisioningIsBacked ==
  gwVps = "PROVISIONING" /\ "die" \notin gwFaults => \E o \in GwOp : gwStatus[o] \in Unfinished

(* Every operation ends, however often its worker fails, unless the process
   that created it died before queueing it: no job will ever move that row,
   and every later request returns it.                                     *)
OperationsEnd == \A o \in GwOp : []<>("die" \notin gwFaults => gwStatus[o] \notin Unfinished)
==============================================================================
