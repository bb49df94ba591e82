---------------------------- MODULE Server_proofs ----------------------------
(***************************************************************************)
(* Proofs about what the program does with a VPS: the operations of its     *)
(* gateway and the domains that are routed there, the pool of SSH           *)
(* connections, the health checks with their alerts, a remote command and   *)
(* its cancellation, and the terminals, each for any number of those who    *)
(* take part.                                                              *)
(***************************************************************************)
EXTENDS GatewayOperation, DomainBinding, SshPool, ServerHealth, CommandRunner, TerminalSession,
        FiniteSetTheorems, WellFoundedInduction, TLAPS

------------------------------------------------------------------------------
(* GatewayOperation.                                                       *)

GwJobType ==
  [pc : {"none", "waiting", "begin", "success", "ack", "gone"} \cup Installing,
   tries : 0..GwAttempts, stalls : 0..1]

GwQueues(c) == gwCall[c].pc \in {"provision", "add"}

(* An operation that is under way and has not set the VPS READY yet. *)
GwBacks(o) == gwStatus[o] \in Unfinished /\ gwJob[o].pc # "success"

(* The operation of a request is its own until the job is queued. *)
RequestInv ==
  /\ \A o \in GwOp : gwStatus[o] = "none" => gwJob[o].pc = "none"
  /\ \A o \in GwOp : gwJob[o].pc # "gone" => gwJob[o].tries < GwAttempts
  /\ \A c \in GwCaller : GwQueues(c) =>
       gwCall[c].op \in GwOp /\ gwStatus[gwCall[c].op] = "QUEUED" /\ gwJob[gwCall[c].op].pc = "none"
  /\ \A c, d \in GwCaller : GwQueues(c) /\ GwQueues(d) /\ gwCall[c].op = gwCall[d].op => c = d

GwBackInv == gwVps = "PROVISIONING" /\ "die" \notin gwFaults => \E o \in GwOp : GwBacks(o)

GwInv == GwTypeOK /\ RequestInv /\ GwBackInv

(* Without failures, lapses and lost replies there is one request and one
   operation under way, which alone changes the container.                 *)
Orderly == gwFaults \cap {"fail", "lapse", "reply"} = {}

GwSoloInv ==
  Orderly =>
    /\ \A c \in GwCaller : gwCall[c].pc # "idle" => gwLock = c
    /\ \A c \in GwCaller : gwCall[c].pc = "create" => \A o \in GwOp : gwStatus[o] \notin Unfinished
    /\ \A o, p \in GwOp : gwStatus[o] \in Unfinished /\ gwStatus[p] \in Unfinished => o = p
    /\ \A o \in GwOp :
         /\ gwJob[o].pc \in Installing \cup {"success"} => gwStatus[o] = "RUNNING"
         /\ gwJob[o].pc = "waiting" => gwStatus[o] \in Unfinished \cup {"SUCCESS"}
         /\ gwJob[o].pc = "ack" => gwStatus[o] = "SUCCESS"
         /\ gwJob[o].pc = "run" => ~gwUp
         /\ gwJob[o].pc = "verify" => gwUp

------------------------------------------------------------------------------
(* There is a first free operation as long as there is a free one. *)
LEMMA FirstFreeIsFree ==
  ASSUME \E o \in GwOp : gwStatus[o] = "none"
  PROVE  FirstFree \in GwOp /\ gwStatus[FirstFree] = "none"
  <1> DEFINE Free == {o \in GwOp : gwStatus[o] = "none"}
  <1>1. Free \subseteq Nat /\ Free # {}
    BY GwBounds DEF GwOp
  <1>2. PICK m \in Free : \A n \in Free : ~(<<n, m>> \in OpToRel(<, Nat))
    BY <1>1, NatLessThanWellFounded, WFMin
  <1>3. \A n \in Free : ~(n < m)
    BY <1>1, <1>2 DEF OpToRel
  <1>4. m \in GwOp /\ gwStatus[m] = "none" /\ \A p \in GwOp : p < m => gwStatus[p] # "none"
    BY <1>3
  <1> QED
    BY <1>4 DEF FirstFree

------------------------------------------------------------------------------
(* A job that goes on, or that is tried again. *)
LEMMA JobGoes ==
  ASSUME NEW f \in [GwOp -> GwJobType], NEW o \in GwOp,
         NEW pc \in {"waiting", "check", "remove", "run", "verify", "ready", "success", "ack", "gone"}
  PROVE  [f EXCEPT ![o].pc = pc] \in [GwOp -> GwJobType]
  BY DEF GwJobType, Installing

LEMMA JobTriedAgain ==
  ASSUME NEW o \in GwOp, gwJob \in [GwOp -> GwJobType], gwJob[o].tries < GwAttempts
  PROVE  /\ TryAgain(o) \in GwJobType
         /\ TryAgain(o).pc \in {"waiting", "gone"}
         /\ TryAgain(o).pc = "waiting" => TryAgain(o).tries < GwAttempts
  <1> DEFINE j == gwJob[o]
  <1>1. j \in GwJobType /\ j.tries \in 0..GwAttempts
    BY DEF GwJobType
  <1>2. j.tries + 1 \in 0..GwAttempts
    BY <1>1, GwBounds
  <1>3. TryAgain(o) = [j EXCEPT !.tries = j.tries + 1, !.pc = IF j.tries + 1 < GwAttempts THEN "waiting" ELSE "gone"]
    BY DEF TryAgain
  <1> HIDE DEF j
  <1> QED
    BY <1>1, <1>2, <1>3 DEF GwJobType

(* Requests. *)
LEMMA RequestSteps ==
  ASSUME GwInv, NEW c \in GwCaller,
         GwRequest(c) \/ GwFind(c) \/ GwCreate(c) \/ GwProvision(c) \/ GwAdd(c) \/ GwAddFails(c) \/ GwDie(c)
  PROVE  GwInv'
  <1> USE DEF GwInv, GwTypeOK, RequestInv, GwBackInv, GwBacks, GwQueues, Unfinished
  <1>1. CASE GwRequest(c)
    BY <1>1, GwNobodyAssumption DEF GwRequest, Asks
  <1>2. CASE GwFind(c)
    <2>1. /\ \/ gwCall' = [gwCall EXCEPT ![c] = [pc |-> "idle", op |-> NoOp]]
             \/ gwCall' = [gwCall EXCEPT ![c].pc = "create"]
          /\ gwLock' \in GwCaller \cup {GwNobody}
          /\ UNCHANGED <<gwStatus, gwVps, gwUp, gwJob, gwFaults>>
      BY <1>2 DEF GwFind, Asks, EndRequest
    <2>2. GwTypeOK'
      BY <2>1
    <2>3. RequestInv' /\ GwBackInv'
      BY <2>1
    <2> QED
      BY <2>2, <2>3
  <1>3. CASE GwCreate(c)
    <2> DEFINE o == FirstFree
    <2>1. o \in GwOp /\ gwStatus[o] = "none" /\ gwJob[o].pc = "none"
      BY <1>3, FirstFreeIsFree DEF GwCreate
    <2>2. gwStatus' = [gwStatus EXCEPT ![o] = "QUEUED"] /\ gwCall' = [gwCall EXCEPT ![c] = [pc |-> "provision", op |-> o]]
          /\ UNCHANGED <<gwVps, gwUp, gwJob, gwLock, gwFaults>>
      BY <1>3 DEF GwCreate
    <2> HIDE DEF o
    <2>3. GwTypeOK'
      BY <2>1, <2>2
    <2>4. RequestInv'
      BY <2>1, <2>2
    <2>5. GwBackInv'
      BY <2>1, <2>2
    <2> QED
      BY <2>3, <2>4, <2>5
  <1>4. CASE GwProvision(c)
    <2>1. GwTypeOK' /\ RequestInv'
      BY <1>4 DEF GwProvision, Asks
    <2>2. PICK o \in GwOp : o = gwCall[c].op
      BY <1>4 DEF GwProvision
    <2>3. GwBacks(o)'
      BY <1>4, <2>2 DEF GwProvision
    <2>4. GwBackInv'
      BY <2>3
    <2> QED
      BY <2>1, <2>4
  <1>5. CASE GwAdd(c)
    <2> DEFINE o == gwCall[c].op
    <2>1. o \in GwOp /\ gwStatus[o] = "QUEUED" /\ gwJob[o].pc = "none"
      BY <1>5 DEF GwAdd
    <2>2. /\ gwJob' = [gwJob EXCEPT ![o].pc = "waiting"]
          /\ gwCall' = [gwCall EXCEPT ![c] = [pc |-> "idle", op |-> NoOp]]
          /\ gwLock' = IF gwLock = c THEN GwNobody ELSE gwLock
          /\ UNCHANGED <<gwStatus, gwVps, gwUp, gwFaults>>
      BY <1>5 DEF GwAdd, Added, EndRequest
    <2>3. \A d \in GwCaller : GwQueues(d)' => d # c /\ GwQueues(d) /\ gwCall'[d] = gwCall[d] /\ gwCall[d].op # o
      <3>1. \A d \in GwCaller : GwQueues(d)' => d # c /\ GwQueues(d) /\ gwCall'[d] = gwCall[d]
        BY <2>2
      <3>2. GwQueues(c)
        BY <1>5 DEF GwAdd
      <3> QED
        BY <3>1, <3>2
    <2> HIDE DEF o
    <2>4. GwTypeOK'
      <3>1. gwJob \in [GwOp -> GwJobType]
        BY DEF GwJobType
      <3>2. gwJob' \in [GwOp -> GwJobType]
        BY <2>1, <2>2, <3>1, JobGoes
      <3>3. gwCall' \in [GwCaller -> [pc : {"idle", "find", "create", "provision", "add"},
                                      op : GwOp \cup {NoOp}]]
        BY <2>2
      <3> QED
        BY <2>2, <3>2, <3>3 DEF GwJobType
    <2>5. \A p \in GwOp : p # o => gwJob'[p] = gwJob[p]
      BY <2>2
    <2>6. gwJob'[o].pc = "waiting" /\ gwJob'[o].tries = gwJob[o].tries
      BY <2>1, <2>2
    <2>7. gwJob[o].tries < GwAttempts
      BY <2>1, GwBounds
    <2>8. RequestInv'
      BY <2>1, <2>2, <2>3, <2>5, <2>6, <2>7
    <2>9. GwBackInv'
      BY <2>1, <2>2
    <2> QED
      BY <2>4, <2>8, <2>9
  <1>6. CASE GwAddFails(c)
    <2> DEFINE o == gwCall[c].op
    <2>1. o \in GwOp /\ gwStatus[o] = "QUEUED" /\ gwJob[o].pc = "none" /\ gwJob[o].tries < GwAttempts
      BY <1>6 DEF GwAddFails
    <2>2. /\ gwJob' = gwJob \/ gwJob' = [gwJob EXCEPT ![o].pc = "waiting"]
          /\ gwStatus' = [gwStatus EXCEPT ![o] = "FAILED"] /\ gwVps' = "FAILED"
          /\ gwCall' = [gwCall EXCEPT ![c] = [pc |-> "idle", op |-> NoOp]]
          /\ gwLock' = IF gwLock = c THEN GwNobody ELSE gwLock
          /\ UNCHANGED <<gwUp, gwFaults>>
      BY <1>6 DEF GwAddFails, Added, EndRequest
    <2>3. \A d \in GwCaller : GwQueues(d)' => d # c /\ GwQueues(d) /\ gwCall'[d] = gwCall[d] /\ gwCall[d].op # o
      <3>1. \A d \in GwCaller : GwQueues(d)' => d # c /\ GwQueues(d) /\ gwCall'[d] = gwCall[d]
        BY <2>2
      <3>2. GwQueues(c)
        BY <1>6 DEF GwAddFails
      <3> QED
        BY <3>1, <3>2
    <2> HIDE DEF o
    <2>4. gwJob' \in [GwOp -> GwJobType]
      <3>1. CASE gwJob' = gwJob
        BY <3>1 DEF GwJobType
      <3>2. CASE gwJob' = [gwJob EXCEPT ![o].pc = "waiting"]
        <4>1. gwJob \in [GwOp -> GwJobType]
          BY DEF GwJobType
        <4> QED
          BY <2>1, <3>2, <4>1, JobGoes
      <3> QED
        BY <2>2, <3>1, <3>2
    <2>5. GwTypeOK'
      BY <2>1, <2>2, <2>4 DEF GwJobType
    <2>6. \A p \in GwOp : p # o => gwJob'[p] = gwJob[p] /\ gwStatus'[p] = gwStatus[p]
      BY <2>2
    <2>7. gwJob'[o].tries = gwJob[o].tries /\ gwStatus'[o] = "FAILED"
      BY <2>1, <2>2
    <2>8. RequestInv'
      BY <2>1, <2>3, <2>6, <2>7
    <2>9. GwBackInv'
      BY <2>2
    <2> QED
      BY <2>5, <2>8, <2>9
  <1>7. CASE GwDie(c)
    BY <1>7 DEF GwDie, EndRequest
  <1> QED
    BY <1>1, <1>2, <1>3, <1>4, <1>5, <1>6, <1>7

(* The worker. *)
LEMMA WorkSteps ==
  ASSUME GwInv, NEW o \in GwOp, GwWork(o) \/ GwCrash(o)
  PROVE  GwInv'
  <1> USE DEF GwInv, GwTypeOK, RequestInv, GwBackInv, GwBacks, GwQueues, Unfinished, Installing
  <1>1. CASE GwPickUp(o)
    <2>1. /\ gwJob[o].pc = "waiting" /\ gwStatus[o] # "none"
          /\ \/ gwJob' = [gwJob EXCEPT ![o].pc = "ack"] /\ UNCHANGED gwStatus
             \/ gwJob' = [gwJob EXCEPT ![o].pc = "check"] /\ gwStatus' = [gwStatus EXCEPT ![o] = "RUNNING"]
          /\ UNCHANGED <<gwVps, gwUp, gwCall, gwLock, gwFaults>>
      BY <1>1 DEF GwPickUp, Goes
    <2>2. gwJob' \in [GwOp -> GwJobType]
      <3>1. gwJob \in [GwOp -> GwJobType]
        BY DEF GwJobType
      <3>2. CASE gwJob' = [gwJob EXCEPT ![o].pc = "ack"]
        BY <3>1, <3>2, JobGoes
      <3>3. CASE gwJob' = [gwJob EXCEPT ![o].pc = "check"]
        BY <3>1, <3>3, JobGoes
      <3> QED
        BY <2>1, <3>2, <3>3
    <2>3. GwTypeOK'
      BY <2>1, <2>2 DEF GwJobType
    <2>4. RequestInv'
      BY <2>1
    <2>5. \A p \in GwOp : GwBacks(p) => GwBacks(p)'
      BY <2>1
    <2>6. GwBackInv'
      BY <2>1, <2>5
    <2> QED
      BY <2>3, <2>4, <2>6
  <1>2. CASE GwCheck(o)
    BY <1>2 DEF GwCheck, Goes
  <1>3. CASE GwRemove(o)
    <2>1. gwJob[o].pc = "remove" /\ gwJob' = [gwJob EXCEPT ![o].pc = "run"] /\ gwUp' \in BOOLEAN
          /\ UNCHANGED <<gwStatus, gwVps, gwCall, gwLock, gwFaults>>
      BY <1>3 DEF GwRemove, Goes
    <2>2. gwJob' \in [GwOp -> GwJobType]
      BY <2>1 DEF GwJobType
    <2>3. GwTypeOK'
      BY <2>1, <2>2 DEF GwJobType
    <2>4. RequestInv'
      BY <2>1
    <2>5. \A p \in GwOp : GwBacks(p) => GwBacks(p)'
      BY <2>1
    <2>6. GwBackInv'
      BY <2>1, <2>5
    <2> QED
      BY <2>3, <2>4, <2>6
  <1>4. CASE GwRun(o)
    BY <1>4 DEF GwRun, Goes
  <1>5. CASE GwVerify(o)
    BY <1>5 DEF GwVerify, Goes
  <1>6. CASE GwReady(o)
    BY <1>6 DEF GwReady, Goes
  <1>7. CASE GwSucceed(o)
    <2>1. gwJob[o].pc = "success" /\ gwJob' = [gwJob EXCEPT ![o].pc = "ack"] /\ gwStatus' = [gwStatus EXCEPT ![o] = "SUCCESS"]
          /\ UNCHANGED <<gwVps, gwUp, gwCall, gwLock, gwFaults>>
      BY <1>7 DEF GwSucceed, Goes
    <2>2. gwJob' \in [GwOp -> GwJobType]
      BY <2>1 DEF GwJobType
    <2>3. GwTypeOK'
      BY <2>1, <2>2 DEF GwJobType
    <2>4. RequestInv'
      BY <2>1
    <2>5. \A p \in GwOp : GwBacks(p) => GwBacks(p)'
      BY <2>1
    <2>6. GwBackInv'
      BY <2>1, <2>5
    <2> QED
      BY <2>3, <2>4, <2>6
  <1>8. CASE GwAck(o)
    <2>1. gwJob[o].pc = "ack" /\ gwJob' = [gwJob EXCEPT ![o].pc = "gone"] /\ gwStatus' = gwStatus
          /\ UNCHANGED <<gwVps, gwUp, gwCall, gwLock, gwFaults>>
      BY <1>8 DEF GwAck, Goes
    <2>2. gwJob' \in [GwOp -> GwJobType]
      BY <2>1 DEF GwJobType
    <2>3. GwTypeOK'
      BY <2>1, <2>2 DEF GwJobType
    <2>4. RequestInv'
      BY <2>1
    <2>5. \A p \in GwOp : GwBacks(p) => GwBacks(p)'
      BY <2>1
    <2>6. GwBackInv'
      BY <2>1, <2>5
    <2> QED
      BY <2>3, <2>4, <2>6
  <1>9. CASE GwFails(o)
    <2>1. gwJob[o].pc \in Installing \cup {"success"} /\ gwJob[o].tries < GwAttempts /\ gwStatus[o] # "none"
      BY <1>9 DEF GwFails, Throws
    <2>2. TryAgain(o) \in GwJobType /\ TryAgain(o).pc \in {"waiting", "gone"}
          /\ (TryAgain(o).pc = "waiting" => TryAgain(o).tries < GwAttempts)
      <3>1. gwJob \in [GwOp -> GwJobType]
        BY DEF GwJobType
      <3> QED
        BY <2>1, <3>1, JobTriedAgain
    <2>3. gwJob' = [gwJob EXCEPT ![o] = TryAgain(o)] /\ gwStatus' = [gwStatus EXCEPT ![o] = "FAILED"]
          /\ gwVps' = "FAILED" /\ UNCHANGED <<gwUp, gwCall, gwLock, gwFaults>>
      BY <1>9 DEF GwFails
    <2>4. GwTypeOK'
      BY <2>2, <2>3 DEF GwJobType
    <2>5. RequestInv'
      BY <2>1, <2>2, <2>3
    <2> QED
      BY <2>3, <2>4, <2>5
  <1>10. CASE GwCrash(o)
    BY <1>10 DEF GwCrash
  <1> QED
    BY <1>1, <1>2, <1>3, <1>4, <1>5, <1>6, <1>7, <1>8, <1>9, <1>10 DEF GwWork

(* In the initial state nothing is under way. *)
LEMMA GatewayInit == GwInit => GwInv
  <1> SUFFICES ASSUME GwInit PROVE GwInv
    OBVIOUS
  <1>1. gwJob \in [GwOp -> GwJobType]
    BY GwBounds DEF GwInit, GwJobType
  <1>2. GwTypeOK
    BY <1>1 DEF GwInit, GwTypeOK, GwJobType
  <1>3. RequestInv /\ GwBackInv
    BY GwBounds DEF GwInit, RequestInv, GwBackInv, GwQueues
  <1> QED
    BY <1>2, <1>3 DEF GwInv

(* Every step keeps what requests and operations share. *)
LEMMA GatewayStep == GwInv /\ [GwNext]_gwVars => GwInv'
  <1> SUFFICES ASSUME GwInv, [GwNext]_gwVars PROVE GwInv'
    OBVIOUS
  <1>1. CASE GwLapse
    BY <1>1 DEF GwLapse, GwInv, GwTypeOK, RequestInv, GwBackInv, GwBacks, GwQueues
  <1>2. CASE \E o \in GwOp : GwWork(o) \/ GwCrash(o)
    BY <1>2, WorkSteps
  <1>3. CASE \E c \in GwCaller : GwRequest(c) \/ GwProceed(c) \/ GwDie(c)
    BY <1>3, RequestSteps DEF GwProceed
  <1>4. CASE UNCHANGED gwVars
    BY <1>4 DEF gwVars, GwInv, GwTypeOK, RequestInv, GwBackInv, GwBacks, GwQueues
  <1> QED
    BY <1>1, <1>2, <1>3, <1>4 DEF GwNext

(* The invariant is inductive, whatever fails. *)
THEOREM GwInductive == GwSpec => []GwInv
  BY GatewayInit, GatewayStep, PTL DEF GwSpec

(* Every variable keeps its type, under every fault. *)
THEOREM GwTypes == GwSpec => []GwTypeOK
  <1>1. GwInv => GwTypeOK
    BY DEF GwInv
  <1> QED
    BY <1>1, GwInductive, PTL

(* A VPS that is shown as PROVISIONING has an operation under way, whatever
   fails, provided the API process lives on (enqueueBootstrap).             *)
THEOREM ProvisioningBacked == GwSpec => []ProvisioningIsBacked
  <1>1. GwInv => ProvisioningIsBacked
    BY DEF GwInv, GwBackInv, GwBacks, ProvisioningIsBacked
  <1> QED
    BY <1>1, GwInductive, PTL

------------------------------------------------------------------------------
(* One operation at a time. *)
LEMMA SoloRequest ==
  ASSUME GwInv, GwSoloInv, NEW c \in GwCaller,
         GwRequest(c) \/ GwFind(c) \/ GwCreate(c) \/ GwProvision(c) \/ GwAdd(c) \/ GwAddFails(c) \/ GwDie(c)
  PROVE  GwSoloInv'
  <1> SUFFICES ASSUME Orderly PROVE GwSoloInv'
    BY DEF GwSoloInv, Orderly, GwRequest, GwFind, GwCreate, GwProvision, GwAdd, GwAddFails, GwDie
  <1> USE GwNobodyAssumption DEF GwInv, GwTypeOK, RequestInv, GwSoloInv, Orderly, GwQueues, Unfinished, Installing
  <1>1. CASE GwRequest(c)
    BY <1>1 DEF GwRequest, Asks
  <1>2. CASE GwFind(c)
    BY <1>2 DEF GwFind, Asks, EndRequest
  <1>3. CASE GwCreate(c)
    <2> DEFINE o == FirstFree
    <2>1. o \in GwOp /\ gwStatus[o] = "none" /\ gwJob[o].pc = "none"
      BY <1>3, FirstFreeIsFree DEF GwCreate
    <2>2. gwStatus' = [gwStatus EXCEPT ![o] = "QUEUED"] /\ gwCall' = [gwCall EXCEPT ![c] = [pc |-> "provision", op |-> o]]
          /\ UNCHANGED <<gwVps, gwUp, gwJob, gwLock, gwFaults>> /\ gwCall[c].pc = "create"
      BY <1>3 DEF GwCreate
    <2> HIDE DEF o
    <2> QED
      BY <2>1, <2>2
  <1>4. CASE GwProvision(c)
    BY <1>4 DEF GwProvision, Asks
  <1>5. CASE GwAdd(c)
    <2> DEFINE o == gwCall[c].op
    <2>1. o \in GwOp /\ gwStatus[o] = "QUEUED" /\ gwJob[o].pc = "none"
      BY <1>5 DEF GwAdd
    <2>2. /\ gwJob' = [gwJob EXCEPT ![o].pc = "waiting"]
          /\ gwCall' = [gwCall EXCEPT ![c] = [pc |-> "idle", op |-> NoOp]]
          /\ gwLock' = IF gwLock = c THEN GwNobody ELSE gwLock
          /\ UNCHANGED <<gwStatus, gwVps, gwUp, gwFaults>>
      BY <1>5 DEF GwAdd, Added, EndRequest
    <2> HIDE DEF o
    <2> QED
      BY <2>1, <2>2
  <1>6. CASE GwAddFails(c)
    BY <1>6 DEF GwAddFails
  <1>7. CASE GwDie(c)
    BY <1>7 DEF GwDie, EndRequest
  <1> QED
    BY <1>1, <1>2, <1>3, <1>4, <1>5, <1>6, <1>7

LEMMA SoloWork ==
  ASSUME GwInv, GwSoloInv, NEW o \in GwOp, GwWork(o) \/ GwCrash(o)
  PROVE  GwSoloInv'
  <1>1. gwFaults' = gwFaults
    BY DEF GwWork, GwPickUp, GwCheck, GwRemove, GwRun, GwVerify, GwReady, GwSucceed, GwAck, GwFails, GwCrash
  <1> SUFFICES ASSUME Orderly PROVE GwSoloInv'
    BY <1>1 DEF GwSoloInv, Orderly
  <1> USE DEF GwInv, GwTypeOK, RequestInv, GwSoloInv, Orderly, Unfinished, Installing
  <1>2. CASE GwPickUp(o)
    BY <1>2 DEF GwPickUp, Goes
  <1>3. CASE GwCheck(o)
    BY <1>3 DEF GwCheck, Goes
  <1>4. CASE GwRemove(o)
    BY <1>4 DEF GwRemove, Goes
  <1>5. CASE GwRun(o)
    BY <1>5 DEF GwRun, Goes
  <1>6. CASE GwVerify(o) \/ GwReady(o)
    BY <1>6 DEF GwVerify, GwReady, Goes
  <1>7. CASE GwSucceed(o)
    BY <1>7 DEF GwSucceed, Goes
  <1>8. CASE GwAck(o)
    BY <1>8 DEF GwAck, Goes
  <1>9. CASE GwFails(o)
    BY <1>9 DEF GwFails, Throws
  <1>10. CASE GwCrash(o)
    BY <1>10 DEF GwCrash
  <1> QED
    BY <1>2, <1>3, <1>4, <1>5, <1>6, <1>7, <1>8, <1>9, <1>10 DEF GwWork

(* In the initial state no operation is under way. *)
LEMMA GwSoloInit == GwInit => GwSoloInv
  BY DEF GwInit, GwSoloInv, Unfinished, Installing

(* Every step keeps the lock and the one operation. *)
LEMMA GwSoloStep == GwInv /\ GwSoloInv /\ [GwNext]_gwVars => GwSoloInv'
  <1> SUFFICES ASSUME GwInv, GwSoloInv, [GwNext]_gwVars PROVE GwSoloInv'
    OBVIOUS
  <1>1. CASE GwLapse
    BY <1>1 DEF GwLapse, GwSoloInv, Orderly
  <1>2. CASE \E o \in GwOp : GwWork(o) \/ GwCrash(o)
    BY <1>2, SoloWork
  <1>3. CASE \E c \in GwCaller : GwRequest(c) \/ GwProceed(c) \/ GwDie(c)
    BY <1>3, SoloRequest DEF GwProceed
  <1>4. CASE UNCHANGED gwVars
    BY <1>4 DEF gwVars, GwSoloInv, Orderly
  <1> QED
    BY <1>1, <1>2, <1>3, <1>4 DEF GwNext

(* One operation under way is at most one that installs. *)
LEMMA GwSoloMeans == GwSoloInv => OneBootstrap
  <1> SUFFICES ASSUME GwSoloInv, Orderly
               PROVE  Cardinality({o \in GwOp : gwJob[o].pc \in Installing}) <= 1
    BY DEF OneBootstrap, Orderly
  <1> DEFINE S == {o \in GwOp : gwJob[o].pc \in Installing}
  <1>1. \A o, p \in S : o = p
    BY DEF GwSoloInv, Unfinished
  <1> HIDE DEF S
  <1>2. Cardinality(S) = 0 \/ Cardinality(S) = 1
    <2>1. CASE S = {}
      BY <2>1, FS_EmptySet
    <2>2. CASE S # {}
      <3>1. PICK o \in S : TRUE
        BY <2>2
      <3>2. S = {o}
        BY <1>1, <3>1
      <3> QED
        BY <3>2, FS_Singleton
    <2> QED
      BY <2>1, <2>2
  <1>3. Cardinality(S) <= 1
    BY <1>2
  <1> QED
    BY <1>3 DEF S

(* As long as nothing fails, no lock lapses and no reply is lost, requests and
   dying workers never bring two installations onto one VPS.               *)
THEOREM OneBootstrapAtATime == GwSpec => []OneBootstrap
  BY GwSoloInit, GwSoloStep, GwSoloMeans, GwInductive, PTL DEF GwSpec

------------------------------------------------------------------------------
(* DomainBinding: what a domain that is shown as issued has shown, and where the route of
   a project leads.                                                        *)

RowType == [status : {"none", "ACTIVE", "DELETED"}, ssl : {"PENDING", "ISSUED", "FAILED"},
            bound : DomProject \cup {DomNobody}, owner : 0..MaxActivations]
RouteType == [host : DomHost, release : 0..MaxActivations]
KeptType == [1..MaxActivations -> DomHost \cup {"none"}]
TlsType == [pc : {"none", "waiting", "inspect", "good", "error", "acked", "failed"}, tries : 0..DomAttempts]

Typed ==
  /\ domRow \in RowType /\ domProved \in BOOLEAN
  /\ domMade \in [DomProject -> 0..MaxActivations] /\ domActive \in [DomProject -> 0..MaxActivations]
  /\ domPrevious \in [DomProject -> 0..MaxActivations] /\ domKept \in [DomProject -> KeptType]
  /\ domRoute \in [DomProject -> RouteType]
  /\ domRun \in [DomProject -> DomRunSet]
  /\ domCall \in [DomClient -> DomCallSet]
  /\ domJob \in TlsType
  /\ domFaults \in DomFaultSets

(* A job that is not over has an attempt left. *)
BoundInv == domJob.pc \in {"waiting", "inspect", "good", "error"} => domJob.tries < DomAttempts

(* A result that waits to be written was found after the last binding. *)
IssueInv ==
  "rebind" \notin domFaults =>
    (domRow.ssl = "ISSUED" \/ domJob.pc = "good" => domProved)

DomInv == Typed /\ BoundInv /\ IssueInv

------------------------------------------------------------------------------
(* Where the route leads.                                                  *)

InOrder == domFaults \cap {"overlap", "late"} = {}

(* A request that is about to write the route has read the release that is active,
   and no run begins before it has.                                        *)
LeadsInv(p) ==
  /\ domRoute[p].release = domActive[p]
  /\ \A c \in DomClient : DomOn[c] = p /\ domCall[c].pc \in {"begun", "read"} =>
       domRun[p].pc = "idle" /\ (domCall[c].pc = "read" => domCall[c].seen = domActive[p])

ReleaseInv == InOrder => \A p \in DomProject : LeadsInv(p)

------------------------------------------------------------------------------
(* Which host it has.                                                      *)

(* The faults under which the code keeps route, row and column together. *)
Apart == domFaults \subseteq {"rebind"}

(* The name has one claimant, which has no competitor in the row. *)
ClaimInv ==
  /\ \A p \in DomProject : DomClaiming(p) => NoConflict(p)
  /\ \A p, q \in DomProject : DomClaiming(p) /\ DomClaiming(q) => p = q

SoloInv(p) ==
  \A c, e \in DomClient : DomOn[c] = p /\ DomOn[e] = p /\ DomAwake(c) /\ DomAwake(e) => c = e

(* A request that edits the route. *)
EditInv(c) ==
  LET p == DomOn[c] k == domCall[c] IN
  k.pc \in {"begun", "read", "routed", "cut"} =>
    /\ domRun[p].pc = "idle" /\ domActive[p] # 0 /\ k.owner = domActive[p]
    /\ k.op \in {"attach", "remove"}
    /\ k.op = "remove" => domRow.bound = p
    /\ k.pc = "routed" => domRoute[p].host = IF k.op = "attach" THEN "name" ELSE "own"
    /\ k.pc = "cut" => k.op = "remove" /\ domRoute[p].host = "own" /\ domRow.status = "DELETED"

Settled(p, pcs) == \A c \in DomClient : DomOn[c] = p => domCall[c].pc \notin pcs

(* The column of the live deployment and the route follow the row. *)
RestInv(p) ==
  /\ domPrevious[p] = domActive[p]
  /\ Settled(p, {"cut"}) /\ domActive[p] # 0 => (domKept[p][domActive[p]] = "name" <=> DomBound(p))
  /\ Settled(p, {"routed", "cut"}) => (domRoute[p].host = "name" <=> DomBound(p))

(* A run, before and after it has taken the traffic. *)
RunInv(p) ==
  LET r == domRun[p] IN
  /\ domMade[p] = domActive[p]
  /\ domRow.bound = p => domActive[p] # 0
  /\ r.pc \in {"idle", "building"} => RestInv(p)
  /\ r.pc # "idle" => r.kind # "rollback"
  /\ r.pc = "building" =>
       r.release = domActive[p] + 1 /\ (r.host = "name" <=> r.kind = "named" \/ DomBound(p))
  /\ r.pc \in {"persist", "queue", "ending"} =>
       domActive[p] # 0 /\ r.release = domActive[p] /\ domRoute[p].host = r.host
  /\ r.pc = "persist" => r.kind = "named" /\ r.host = "name"
  /\ r.pc \in {"queue", "ending"} => (r.host = "name" <=> DomBound(p))

HostInv ==
  Apart => ClaimInv /\ \A p \in DomProject : SoloInv(p) /\ RunInv(p)
                    /\ \A c \in DomClient : EditInv(c)

RouteInv == ReleaseInv /\ HostInv

------------------------------------------------------------------------------
(* Types. *)
LEMMA TypedIsTypeOK == Typed => DomTypeOK
  BY DEF Typed, DomTypeOK, RowType, RouteType, KeptType, TlsType

LEMMA OnTyped == \A c \in DomClient : DomOn[c] \in DomProject
  BY DomOnAssumption

LEMMA CallGoesTyped ==
  ASSUME NEW c \in DomClient, domCall \in [DomClient -> DomCallSet]
  PROVE  /\ \A pc \in {"idle", "begun", "read", "routed", "cut", "queue"} :
              DomCallGoes(c, pc) => domCall' \in [DomClient -> DomCallSet]
         /\ DomCallEnds(c) \/ DomCallWaits(c) => domCall' \in [DomClient -> DomCallSet]
  <1>1. DomNoCall \in DomCallSet /\ [DomNoCall EXCEPT !.pc = "queue"] \in DomCallSet
    BY DomBounds DEF DomNoCall, DomCallSet
  <1>2. \A pc \in {"idle", "begun", "read", "routed", "cut", "queue"} : [domCall[c] EXCEPT !.pc = pc] \in DomCallSet
    BY DEF DomCallSet
  <1>3. \A pc \in {"idle", "begun", "read", "routed", "cut", "queue"} :
          DomCallGoes(c, pc) => domCall' \in [DomClient -> DomCallSet]
    BY <1>2 DEF DomCallGoes
  <1>4. DomCallEnds(c) \/ DomCallWaits(c) => domCall' \in [DomClient -> DomCallSet]
    BY <1>1 DEF DomCallEnds, DomCallWaits
  <1> QED
    BY <1>3, <1>4

LEMMA CallBeginsTyped ==
  ASSUME NEW c \in DomClient, domCall \in [DomClient -> DomCallSet],
         NEW op \in {"attach", "remove", "issue"}, NEW owner \in 0..MaxActivations, DomCallBegins(c, op, owner)
  PROVE  domCall' \in [DomClient -> DomCallSet]
  BY DomBounds DEF DomCallBegins, DomCallSet

LEMMA RunGoesTyped ==
  ASSUME NEW p \in DomProject, domRun \in [DomProject -> DomRunSet]
  PROVE  /\ \A pc \in {"idle", "building", "persist", "queue", "ending"} :
              DomRunGoes(p, pc) => domRun' \in [DomProject -> DomRunSet]
         /\ DomRunEnds(p) => domRun' \in [DomProject -> DomRunSet]
  <1>1. DomNoRun \in DomRunSet
    BY DomBounds DEF DomNoRun, DomRunSet, DomHost
  <1>2. \A pc \in {"idle", "building", "persist", "queue", "ending"} : [domRun[p] EXCEPT !.pc = pc] \in DomRunSet
    BY DEF DomRunSet
  <1> QED
    BY <1>1, <1>2 DEF DomRunGoes, DomRunEnds

LEMMA KeepsTyped ==
  ASSUME NEW p \in DomProject, domKept \in [DomProject -> KeptType], NEW d, NEW host \in DomHost \cup {"none"},
         Keeps(p, d, host)
  PROVE  domKept' \in [DomProject -> KeptType]
  <1>1. [domKept[p] EXCEPT ![d] = host] \in KeptType
    BY DEF KeptType
  <1> QED
    BY <1>1 DEF Keeps

LEMMA KeepsHost ==
  ASSUME NEW p \in DomProject, domKept \in [DomProject -> KeptType], NEW d \in 0..MaxActivations, d # 0,
         NEW host, Keeps(p, d, host)
  PROVE  domKept'[p][d] = host
  <1>1. d \in 1..MaxActivations
    BY DomBounds
  <1>2. domKept'[p] = [domKept[p] EXCEPT ![d] = host]
    BY DEF Keeps
  <1>3. DOMAIN domKept[p] = 1..MaxActivations
    BY DEF KeptType
  <1> QED
    BY <1>1, <1>2, <1>3

LEMMA RouteTyped ==
  ASSUME NEW p \in DomProject, domRoute \in [DomProject -> RouteType],
         NEW host \in DomHost, NEW r \in 0..MaxActivations
  PROVE  [domRoute EXCEPT ![p] = [host |-> host, release |-> r]] \in [DomProject -> RouteType]
  BY DEF RouteType

LEMMA BindTyped ==
  ASSUME NEW p \in DomProject, NEW owner \in 0..MaxActivations, DomBind(p, owner)
  PROVE  domRow' \in RowType /\ domProved' \in BOOLEAN
  BY DEF DomBind, RowType

LEMMA TlsQueueTyped ==
  ASSUME domJob \in TlsType, queueTLSVerification
  PROVE  domJob' \in TlsType
  BY DomBounds DEF queueTLSVerification, TlsType

LEMMA DomRowTyped ==
  ASSUME domRow \in RowType
  PROVE  /\ [domRow EXCEPT !.status = "DELETED"] \in RowType
         /\ \A ssl \in {"PENDING", "ISSUED", "FAILED"} : [domRow EXCEPT !.ssl = ssl] \in RowType
         /\ domRow.owner \in 0..MaxActivations
  BY DEF RowType

LEMMA DomRequestTypes ==
  ASSUME Typed, NEW c \in DomClient, DomAnswer(c) \/ DomAsk(c)
  PROVE  Typed'
  <1> DEFINE p == DomOn[c]
  <1>1. /\ p \in DomProject /\ domCall[c] \in DomCallSet
        /\ domCall[c].seen \in 0..MaxActivations /\ domCall[c].owner \in 0..MaxActivations
        /\ domActive[p] \in 0..MaxActivations /\ "own" \in DomHost /\ "name" \in DomHost
    BY OnTyped DEF Typed, DomCallSet, DomHost
  <1>h. DomHost \subseteq DomHost \cup {"none"} /\ "none" \in DomHost \cup {"none"}
    OBVIOUS
  <1> HIDE DEF p
  <1>2. CASE Attach(c)
    <2>1. domCall' \in [DomClient -> DomCallSet]
      BY <1>1, <1>2, CallBeginsTyped DEF Attach, Typed, p
    <2> QED
      BY <1>2, <2>1 DEF Attach, Typed
  <1>3. CASE Detach(c)
    <2>1. domCall' \in [DomClient -> DomCallSet]
      BY <1>3, DomRowTyped, CallBeginsTyped DEF Detach, Typed
    <2> QED
      BY <1>3, <2>1 DEF Detach, Typed
  <1>4. CASE CallReads(c)
    <2>1. [domCall[c] EXCEPT !.pc = "read", !.seen = domActive[p]] \in DomCallSet
      BY <1>1 DEF DomCallSet
    <2>2. domCall' \in [DomClient -> DomCallSet]
      BY <1>4, <2>1 DEF CallReads, Typed, p
    <2> QED
      BY <1>4, <2>2 DEF CallReads, Typed
  <1>5. CASE CallRoutes(c)
    <2>0. 0 \in 0..MaxActivations
      BY DomBounds
    <2>1. [domCall[c] EXCEPT !.pc = "routed", !.seen = 0] \in DomCallSet
      BY <1>1, <2>0 DEF DomCallSet
    <2>2. domCall' \in [DomClient -> DomCallSet]
      BY <1>5, <2>1, CallGoesTyped DEF CallRoutes, Typed
    <2>3. domRoute' \in [DomProject -> RouteType]
      <3>1. (IF domCall[c].op = "attach" THEN "name" ELSE "own") \in DomHost
        BY DEF DomHost
      <3> QED
        BY <1>1, <1>5, <3>1, RouteTyped DEF CallRoutes, Typed, p
    <2> QED
      BY <1>5, <2>2, <2>3 DEF CallRoutes, Typed
  <1>6. CASE AttachBind(c)
    <2>1. domCall' \in [DomClient -> DomCallSet]
      BY <1>6, CallGoesTyped DEF AttachBind, Typed
    <2>2. domRow' \in RowType /\ domProved' \in BOOLEAN
      BY <1>1, <1>6, BindTyped DEF AttachBind, Typed, p
    <2>3. domKept' \in [DomProject -> KeptType]
      BY <1>1, <1>h, <1>6, KeepsTyped DEF AttachBind, Typed, p
    <2> QED
      BY <1>6, <2>1, <2>2, <2>3 DEF AttachBind, Typed
  <1>7. CASE DetachRow(c)
    <2>1. domCall' \in [DomClient -> DomCallSet]
      BY <1>7, CallGoesTyped DEF DetachRow, Typed
    <2>2. domRow' \in RowType
      BY <1>7, DomRowTyped DEF DetachRow, Typed
    <2> QED
      BY <1>7, <2>1, <2>2 DEF DetachRow, Typed
  <1>8. CASE DetachColumn(c)
    <2>1. domCall' \in [DomClient -> DomCallSet]
      BY <1>8, CallGoesTyped DEF DetachColumn, Typed
    <2>2. domKept' \in [DomProject -> KeptType]
      BY <1>1, <1>h, <1>8, KeepsTyped DEF DetachColumn, Typed, p
    <2> QED
      BY <1>8, <2>1, <2>2 DEF DetachColumn, Typed
  <1>9. CASE IssueSSL(c)
    <2>1. domCall' \in [DomClient -> DomCallSet]
      BY <1>9, CallGoesTyped DEF IssueSSL, Typed
    <2>2. domRow' \in RowType /\ domProved' \in BOOLEAN
      BY <1>1, <1>9, DomRowTyped, BindTyped DEF IssueSSL, Typed, p
    <2> QED
      BY <1>9, <2>1, <2>2 DEF IssueSSL, Typed
  <1>10. CASE CallQueues(c)
    <2>1. domCall' \in [DomClient -> DomCallSet] /\ domJob' \in TlsType
      BY <1>10, CallGoesTyped, TlsQueueTyped DEF CallQueues, Typed
    <2> QED
      BY <1>10, <2>1 DEF CallQueues, Typed
  <1>11. CASE CallDies(c)
    <2>1. domCall' \in [DomClient -> DomCallSet]
      BY <1>11, CallGoesTyped DEF CallDies, Typed
    <2> QED
      BY <1>11, <2>1 DEF CallDies, Typed
  <1> QED
    BY <1>2, <1>3, <1>4, <1>5, <1>6, <1>7, <1>8, <1>9, <1>10, <1>11 DEF DomAnswer, DomAsk

(* Runs and rollbacks choose one of the two hosts. *)
LEMMA HostTyped ==
  ASSUME Typed, NEW p \in DomProject, NEW d \in 0..MaxActivations, NEW other \in DomHost
  PROVE  OrElse(HostOf(p, d), other) \in DomHost
  <1>1. HostOf(p, d) \in DomHost \cup {"none"}
    <2>1. CASE d = 0
      BY <2>1 DEF HostOf
    <2>2. CASE d # 0
      <3>1. d \in 1..MaxActivations
        BY <2>2, DomBounds
      <3> QED
        BY <2>2, <3>1 DEF HostOf, Typed, KeptType
    <2> QED
      BY <2>1, <2>2
  <1> QED
    BY <1>1 DEF OrElse

LEMMA DomBeginTypes ==
  ASSUME Typed, NEW p \in DomProject, DomBegin(p)
  PROVE  Typed'
  <1>1. /\ domActive[p] \in 0..MaxActivations /\ domPrevious[p] \in 0..MaxActivations
        /\ domMade[p] \in 0..MaxActivations /\ "own" \in DomHost /\ "name" \in DomHost
    BY DEF Typed, DomHost
  <1>2. ASSUME NEW kind \in {"named", "plain", "rollback"}, NEW release \in 0..MaxActivations,
               NEW host \in DomHost, DomRunBegins(p, kind, release, host)
        PROVE  Typed'
    <2>1. domRun' \in [DomProject -> DomRunSet]
      BY <1>2 DEF DomRunBegins, DomRunSet, Typed
    <2> QED
      BY <1>2, <2>1 DEF DomRunBegins, Typed
  <1>3. ASSUME NEW named \in BOOLEAN, DomDeploy(p, named) PROVE Typed'
    <2>1. domMade[p] + 1 \in 0..MaxActivations
      <3>1. DomRuns[domFaults][p] \in 0..MaxActivations
        BY DomRunsAssumption, DomFaultAssumption DEF Typed
      <3> QED
        BY <1>1, <1>3, <3>1, DomBounds DEF DomDeploy
    <2>2. OrElse(HostOf(p, domPrevious[p]), "own") \in DomHost
      BY <1>1, HostTyped
    <2> QED
      BY <1>1, <1>2, <1>3, <2>1, <2>2 DEF DomDeploy
  <1>4. ASSUME NEW target \in 1..MaxActivations, DomRoll(p, target) PROVE Typed'
    <2>1. target \in 0..MaxActivations
      BY DomBounds
    <2>2. OrElse(HostOf(p, target), "own") \in DomHost
      BY <1>1, <2>1, HostTyped
    <2>3. OrElse(HostOf(p, domActive[p]), OrElse(HostOf(p, target), "own")) \in DomHost
      BY <1>1, <2>2, HostTyped
    <2> QED
      BY <1>2, <1>4, <2>1, <2>3 DEF DomRoll
  <1>5. CASE DomLife(p)
    <2>1. PICK d \in 0..domMade[p] : domPrevious' = [domPrevious EXCEPT ![p] = d]
      BY <1>5 DEF DomLife
    <2>2. d \in 0..MaxActivations
      BY <1>1, DomBounds
    <2>3. domPrevious' \in [DomProject -> 0..MaxActivations]
      BY <2>1, <2>2 DEF Typed
    <2> QED
      BY <1>5, <2>3 DEF DomLife, Typed
  <1> QED
    BY <1>3, <1>4, <1>5 DEF DomBegin

LEMMA DomRunTypes ==
  ASSUME Typed, NEW p \in DomProject, DomRelease(p)
  PROVE  Typed'
  <1>1. /\ domRun[p].host \in DomHost /\ domRun[p].release \in 0..MaxActivations
        /\ "name" \in DomHost \cup {"none"} /\ "none" \in DomHost \cup {"none"}
    BY DEF Typed, DomRunSet, DomHost
  <1>2. ASSUME DomCommits(p)
        PROVE  domActive' \in [DomProject -> 0..MaxActivations] /\ domMade' \in [DomProject -> 0..MaxActivations]
    BY <1>1, <1>2 DEF DomCommits, Typed
  <1>3. CASE DomActivates(p)
    <2>1. domRoute' \in [DomProject -> RouteType]
      BY <1>1, <1>3, RouteTyped DEF DomActivates, Typed
    <2>2. domRun' \in [DomProject -> DomRunSet]
      BY <1>3, RunGoesTyped DEF DomActivates, Typed
    <2>3. domKept' \in [DomProject -> KeptType]
      BY <1>1, <1>3, KeepsTyped DEF DomActivates, Typed
    <2>4. domActive' \in [DomProject -> 0..MaxActivations] /\ domMade' \in [DomProject -> 0..MaxActivations]
      BY <1>2, <1>3 DEF DomActivates
    <2> QED
      BY <1>3, <2>1, <2>2, <2>3, <2>4 DEF DomActivates, Typed
  <1>4. CASE DomActivateFails(p)
    <2>1. domRun' \in [DomProject -> DomRunSet]
      BY <1>4, RunGoesTyped DEF DomActivateFails, Typed
    <2>2. domActive' \in [DomProject -> 0..MaxActivations] /\ domMade' \in [DomProject -> 0..MaxActivations]
      BY <1>2, <1>4 DEF DomActivateFails, Typed
    <2> QED
      BY <1>4, <2>1, <2>2 DEF DomActivateFails, Typed
  <1>5. CASE DomDeployBinds(p)
    <2>1. domRun' \in [DomProject -> DomRunSet]
      BY <1>5, RunGoesTyped DEF DomDeployBinds, Typed
    <2>2. domRow' \in RowType /\ domProved' \in BOOLEAN
      BY <1>1, <1>5, BindTyped DEF DomDeployBinds, Typed
    <2> QED
      BY <1>5, <2>1, <2>2 DEF DomDeployBinds, Typed
  <1>6. CASE DomDeployQueues(p)
    <2>1. domRun' \in [DomProject -> DomRunSet] /\ domJob' \in TlsType
      BY <1>6, RunGoesTyped, TlsQueueTyped DEF DomDeployQueues, Typed
    <2> QED
      BY <1>6, <2>1 DEF DomDeployQueues, Typed
  <1>7. CASE DomRunShows(p)
    <2>1. domRun' \in [DomProject -> DomRunSet]
      BY <1>7, RunGoesTyped DEF DomRunShows, Typed
    <2>2. domKept' \in [DomProject -> KeptType]
      BY <1>1, <1>7, KeepsTyped DEF DomRunShows, Typed
    <2>3. domPrevious' \in [DomProject -> 0..MaxActivations]
      BY <1>1, <1>7 DEF DomRunShows, Typed
    <2> QED
      BY <1>7, <2>1, <2>2, <2>3 DEF DomRunShows, Typed
  <1>8. CASE DomRunFails(p)
    <2>1. domRun' \in [DomProject -> DomRunSet]
      BY <1>8, RunGoesTyped DEF DomRunFails, Typed
    <2>2. domKept' \in [DomProject -> KeptType]
      BY <1>1, <1>8, KeepsTyped DEF DomRunFails, Typed
    <2>3. domRow' \in RowType
      BY <1>8, DomRowTyped DEF DomRunFails, Typed
    <2> QED
      BY <1>8, <2>1, <2>2, <2>3 DEF DomRunFails, Typed
  <1> QED
    BY <1>3, <1>4, <1>5, <1>6, <1>7, <1>8 DEF DomRelease

LEMMA TlsTypes ==
  ASSUME Typed, BoundInv, DomWork
  PROVE  Typed'
  <1> USE DEF projectVars
  <1>1. ASSUME NEW pc \in {"none", "waiting", "inspect", "good", "error", "acked", "failed"}, TlsGoes(pc)
        PROVE  domJob' \in TlsType
    BY <1>1 DEF TlsGoes, TlsType, Typed
  <1>2. CASE TlsPickUp
    <2>1. domJob' \in TlsType
      BY <1>1, <1>2 DEF TlsPickUp
    <2> QED
      BY <1>2, <2>1 DEF TlsPickUp, Typed
  <1>3. CASE TlsInspect
    <2>1. domJob' \in TlsType
      BY <1>1, <1>3 DEF TlsInspect
    <2> QED
      BY <1>3, <2>1 DEF TlsInspect, Typed
  <1>4. CASE TlsIssued
    <2>1. domJob' \in TlsType /\ domRow' \in RowType
      BY <1>1, <1>4, DomRowTyped DEF TlsIssued, Typed
    <2> QED
      BY <1>4, <2>1 DEF TlsIssued, Typed
  <1>5. CASE TlsNotIssued
    <2>1. domJob.tries \in 0..DomAttempts /\ domJob.tries < DomAttempts
      BY <1>5 DEF TlsNotIssued, BoundInv, Typed, TlsType
    <2>2. domJob.tries + 1 \in 0..DomAttempts
      BY <2>1, DomBounds
    <2>3. domJob' \in TlsType
      BY <1>5, <2>2 DEF TlsNotIssued, TlsType
    <2>4. domRow' \in RowType
      BY <1>5, DomRowTyped DEF TlsNotIssued, failureState, Typed
    <2> QED
      BY <1>5, <2>3, <2>4 DEF TlsNotIssued, Typed
  <1>6. CASE TlsCompleted
    <2>1. domJob' \in TlsType
      BY <1>6, DomBounds DEF TlsCompleted, TlsType
    <2> QED
      BY <1>6, <2>1 DEF TlsCompleted, Typed
  <1> QED
    BY <1>2, <1>3, <1>4, <1>5, <1>6 DEF DomWork

------------------------------------------------------------------------------
(* The bounds and the results. *)

(* Requests and runs queue a job with all its attempts or leave it alone. *)
LEMMA TlsQueueBound ==
  ASSUME BoundInv, IssueInv, queueTLSVerification, domRow' = domRow, domProved' = domProved, domFaults' = domFaults
  PROVE  BoundInv' /\ IssueInv'
  BY DomBounds DEF BoundInv, IssueInv, queueTLSVerification

(* The row is bound again when no result is about to be written. *)
LEMMA BindIssue ==
  ASSUME NEW p, NEW owner, DomBind(p, owner), domJob' = domJob, domFaults' = domFaults, BoundInv
  PROVE  BoundInv' /\ IssueInv'
  BY DEF DomBind, BoundInv, IssueInv

LEMMA RestIssue ==
  ASSUME DomInv, domJob' = domJob, domFaults' = domFaults, domProved' = domProved, domRow'.ssl = domRow.ssl
  PROVE  BoundInv' /\ IssueInv'
  BY DEF DomInv, BoundInv, IssueInv

LEMMA RequestBounds ==
  ASSUME DomInv, NEW c \in DomClient, DomAnswer(c) \/ DomAsk(c)
  PROVE  BoundInv' /\ IssueInv'
  <1>0. BoundInv /\ IssueInv /\ domRow \in RowType
    BY DEF DomInv, Typed
  <1>1. CASE CallQueues(c)
    BY <1>0, <1>1, TlsQueueBound DEF CallQueues
  <1>2. CASE AttachBind(c) /\ NoConflict(DomOn[c])
    <2>1. DomBind(DomOn[c], domCall[c].owner) /\ domJob' = domJob /\ domFaults' = domFaults
      BY <1>2 DEF AttachBind
    <2> QED
      BY <1>0, <2>1, BindIssue
  <1>3. CASE IssueSSL(c)
    <2>1. DomBind(DomOn[c], domRow.owner) /\ domJob' = domJob /\ domFaults' = domFaults
      BY <1>3 DEF IssueSSL
    <2> QED
      BY <1>0, <2>1, BindIssue
  <1>4. CASE DetachRow(c)
    BY <1>0, <1>4, RestIssue DEF DetachRow, RowType
  <1>5. CASE \/ Attach(c) \/ Detach(c) \/ CallReads(c) \/ CallRoutes(c) \/ CallDies(c) \/ DetachColumn(c)
             \/ (AttachBind(c) /\ ~NoConflict(DomOn[c]))
    BY <1>5, RestIssue DEF Attach, Detach, CallReads, CallRoutes, CallDies, DetachColumn, AttachBind
  <1> QED
    BY <1>1, <1>2, <1>3, <1>4, <1>5 DEF DomAnswer, DomAsk

LEMMA RunBounds ==
  ASSUME DomInv, NEW p \in DomProject, DomRelease(p) \/ DomBegin(p)
  PROVE  BoundInv' /\ IssueInv'
  <1>0. BoundInv /\ IssueInv /\ domRow \in RowType
    BY DEF DomInv, Typed
  <1>1. CASE DomBegin(p)
    BY <1>1, RestIssue DEF DomBegin, DomDeploy, DomRoll, DomLife, DomRunBegins
  <1>2. CASE DomDeployBinds(p)
    <2>1. DomBind(p, domRun[p].release) /\ domJob' = domJob /\ domFaults' = domFaults
      BY <1>2 DEF DomDeployBinds
    <2> QED
      BY <1>0, <2>1, BindIssue
  <1>3. CASE DomDeployQueues(p)
    BY <1>0, <1>3, TlsQueueBound DEF DomDeployQueues
  <1>4. CASE DomActivates(p) \/ DomActivateFails(p) \/ DomRunShows(p)
    BY <1>4, RestIssue DEF DomActivates, DomActivateFails, DomRunShows
  <1>5. CASE DomRunFails(p)
    BY <1>0, <1>5, RestIssue DEF DomRunFails, RowType
  <1> QED
    BY <1>1, <1>2, <1>3, <1>4, <1>5 DEF DomRelease

LEMMA TlsBounds ==
  ASSUME DomInv, DomWork
  PROVE  BoundInv' /\ IssueInv'
  <1> USE DEF DomInv, Typed, BoundInv, IssueInv, TlsType, RowType
  <1>1. domFaults' = domFaults
    BY DEF DomWork, TlsPickUp, TlsInspect, TlsIssued, TlsNotIssued, TlsCompleted, projectVars
  <1>2. CASE TlsPickUp
    BY <1>1, <1>2 DEF TlsPickUp, TlsGoes
  <1>3. CASE TlsInspect
    BY <1>1, <1>3 DEF TlsInspect, TlsGoes
  <1>4. CASE TlsIssued
    BY <1>1, <1>4 DEF TlsIssued, TlsGoes
  <1>5. CASE TlsNotIssued
    BY <1>1, <1>5 DEF TlsNotIssued, failureState, TlsMayRetry
  <1>6. CASE TlsCompleted
    BY <1>1, <1>6 DEF TlsCompleted
  <1> QED
    BY <1>2, <1>3, <1>4, <1>5, <1>6 DEF DomWork

(* In the initial state there is no domain. *)
LEMMA DomainInit == DomInit => DomInv
  <1> SUFFICES ASSUME DomInit PROVE DomInv
    OBVIOUS
  <1>0. 0 \in 0..MaxActivations
    BY DomBounds
  <1>1. Typed
    <2>1. domRow \in RowType /\ domProved \in BOOLEAN
      BY <1>0 DEF DomInit, RowType
    <2>2. /\ domMade \in [DomProject -> 0..MaxActivations] /\ domActive \in [DomProject -> 0..MaxActivations]
          /\ domPrevious \in [DomProject -> 0..MaxActivations]
      BY <1>0 DEF DomInit
    <2>3. domKept \in [DomProject -> KeptType]
      BY DEF DomInit, KeptType
    <2>4. domRoute \in [DomProject -> RouteType]
      BY <1>0 DEF DomInit, RouteType, DomHost
    <2>5. domCall \in [DomClient -> DomCallSet]
      BY <1>0 DEF DomInit, DomNoCall, DomCallSet
    <2>6. domRun \in [DomProject -> DomRunSet]
      BY <1>0 DEF DomInit, DomNoRun, DomRunSet, DomHost
    <2>7. domJob \in TlsType
      BY DomBounds DEF DomInit, TlsType
    <2> QED
      BY <2>1, <2>2, <2>3, <2>4, <2>5, <2>6, <2>7 DEF DomInit, Typed
  <1>2. BoundInv /\ IssueInv
    BY DEF DomInit, BoundInv, IssueInv
  <1> QED
    BY <1>1, <1>2 DEF DomInv

(* Every step keeps what requests, runs and the verification share. *)
LEMMA DomainStep == DomInv /\ [DomNext]_domVars => DomInv'
  <1> SUFFICES ASSUME DomInv, [DomNext]_domVars PROVE DomInv'
    OBVIOUS
  <1>1. CASE DomWork
    BY <1>1, TlsTypes, TlsBounds DEF DomInv
  <1>2. ASSUME NEW c \in DomClient, DomAnswer(c) \/ DomAsk(c)
        PROVE  DomInv'
    BY <1>2, DomRequestTypes, RequestBounds DEF DomInv
  <1>3. ASSUME NEW p \in DomProject, DomRelease(p) \/ DomBegin(p)
        PROVE  DomInv'
    BY <1>3, DomRunTypes, DomBeginTypes, RunBounds DEF DomInv
  <1>4. CASE UNCHANGED domVars
    BY <1>4 DEF domVars, projectVars, DomInv, Typed, BoundInv, IssueInv
  <1> QED
    BY <1>1, <1>2, <1>3, <1>4 DEF DomNext

(* The invariant is inductive. *)
THEOREM DomInductive == DomSpec => []DomInv
  BY DomainInit, DomainStep, PTL DEF DomSpec

(* Every variable keeps its type, under every fault. *)
THEOREM DomTypes == DomSpec => []DomTypeOK
  <1>1. DomInv => DomTypeOK
    BY TypedIsTypeOK DEF DomInv
  <1> QED
    BY <1>1, DomInductive, PTL

(* A domain is shown as ISSUED only if it has presented a good certificate
   since it was last bound, unless it was bound again between the result of a
   verification and the row (applyVerification, bindDomain).                *)
THEOREM IssuedVerified == DomSpec => []IssuedIsVerified
  <1>1. DomInv => IssuedIsVerified
    BY DEF DomInv, IssueInv, IssuedIsVerified
  <1> QED
    BY <1>1, DomInductive, PTL

------------------------------------------------------------------------------
(* Where the route leads.                                                  *)

(* A request writes a route that it has just read. *)
LEMMA RequestLeads ==
  ASSUME Typed, InOrder, \A q \in DomProject : LeadsInv(q), NEW c \in DomClient, DomAnswer(c) \/ DomAsk(c)
  PROVE  \A q \in DomProject : LeadsInv(q)'
  <1> DEFINE p == DomOn[c]
  <1>t. /\ p \in DomProject /\ domRoute \in [DomProject -> RouteType] /\ domCall \in [DomClient -> DomCallSet]
        /\ "overlap" \notin domFaults
    BY OnTyped DEF Typed, InOrder
  <1>0. LeadsInv(p)
    BY <1>t
  <1>1. domActive' = domActive /\ domRun' = domRun
    BY DEF DomAnswer, DomAsk, Attach, Detach, CallReads, CallRoutes, AttachBind, DetachRow, DetachColumn,
           IssueSSL, CallQueues, CallDies
  <1>2. \A e \in DomClient : e # c => domCall'[e] = domCall[e]
    BY <1>t DEF DomAnswer, DomAsk, Attach, Detach, CallReads, CallRoutes, AttachBind, DetachRow, DetachColumn,
                IssueSSL, CallQueues, CallDies, DomCallBegins, DomCallGoes, DomCallEnds, DomCallWaits
  <1>3. \A q \in DomProject : domRoute'[q].release = domRoute[q].release
    <2>1. CASE CallRoutes(c)
      <3>1. domCall[c].seen = domRoute[p].release
        BY <1>0, <2>1 DEF LeadsInv, CallRoutes
      <3> QED
        BY <1>t, <2>1, <3>1 DEF CallRoutes
    <2>2. CASE ~CallRoutes(c)
      <3>1. domRoute' = domRoute
        BY <2>2 DEF DomAnswer, DomAsk, Attach, Detach, CallReads, AttachBind, DetachRow, DetachColumn,
                    IssueSSL, CallQueues, CallDies
      <3> QED
        BY <3>1
    <2> QED
      BY <2>1, <2>2
  <1>4. domCall'[c].pc \in {"begun", "read"} =>
          domRun[p].pc = "idle" /\ (domCall'[c].pc = "read" => domCall'[c].seen = domActive[p])
    <2>1. CASE Attach(c) \/ Detach(c)
      BY <1>t, <2>1 DEF Attach, Detach, DomCallBegins
    <2>2. CASE CallReads(c)
      <3>1. domCall'[c].pc = "read" /\ domCall'[c].seen = domActive[p]
        BY <1>t, <2>2 DEF CallReads, DomCallSet
      <3> QED
        BY <1>0, <2>2, <3>1 DEF CallReads, LeadsInv
    <2>3. CASE CallRoutes(c)
      BY <1>t, <2>3 DEF CallRoutes, DomCallEnds, DomNoCall, DomCallSet
    <2>4. CASE AttachBind(c) \/ IssueSSL(c)
      BY <1>t, <2>4 DEF AttachBind, IssueSSL, DomCallEnds, DomCallWaits, DomNoCall
    <2>5. CASE DetachRow(c) \/ DetachColumn(c) \/ CallQueues(c) \/ CallDies(c)
      BY <1>t, <2>5 DEF DetachRow, DetachColumn, CallQueues, CallDies, DomCallEnds, DomCallGoes, DomNoCall, DomCallSet
    <2> QED
      BY <2>1, <2>2, <2>3, <2>4, <2>5 DEF DomAnswer, DomAsk
  <1> QED
    BY <1>1, <1>2, <1>3, <1>4 DEF LeadsInv

(* A run or rollback changes the route only where no request is about to. *)
LEMMA RunLeads ==
  ASSUME Typed, InOrder, \A q \in DomProject : LeadsInv(q), NEW p \in DomProject, DomRelease(p) \/ DomBegin(p)
  PROVE  \A q \in DomProject : LeadsInv(q)'
  <1>t. /\ domRoute \in [DomProject -> RouteType] /\ domRun \in [DomProject -> DomRunSet]
        /\ domActive \in [DomProject -> 0..MaxActivations] /\ domFaults \cap {"overlap", "late"} = {}
    BY DEF Typed, InOrder
  <1>0. LeadsInv(p)
    OBVIOUS
  <1>1. domCall' = domCall
    BY DEF DomRelease, DomBegin, DomActivates, DomActivateFails, DomDeployBinds, DomDeployQueues, DomRunShows,
           DomRunFails, DomDeploy, DomRoll, DomLife, DomRunBegins
  <1>2. \A q \in DomProject : q # p =>
          domRoute'[q] = domRoute[q] /\ domActive'[q] = domActive[q] /\ domRun'[q] = domRun[q]
    <2>1. CASE DomRelease(p)
      BY <1>t, <2>1 DEF DomRelease, DomActivates, DomActivateFails, DomDeployBinds, DomDeployQueues, DomRunShows,
           DomRunFails, DomCommits, DomRunGoes, DomRunEnds
    <2>2. CASE DomBegin(p)
      BY <1>t, <2>2 DEF DomBegin, DomDeploy, DomRoll, DomLife, DomRunBegins
    <2> QED
      BY <2>1, <2>2
  <1>3. LeadsInv(p)'
    <2>1. CASE DomActivates(p)
      BY <1>0, <1>1, <1>t, <2>1 DEF DomActivates, DomCommits, LeadsInv
    <2>2. CASE DomRelease(p) /\ ~DomActivates(p)
      <3>1. domRoute' = domRoute /\ domActive' = domActive
        BY <1>t, <2>2 DEF DomRelease, DomActivateFails, DomDeployBinds, DomDeployQueues, DomRunShows, DomRunFails
      <3>2. domRun[p].pc # "idle"
        BY <2>2 DEF DomRelease, DomActivateFails, DomDeployBinds, DomDeployQueues, DomRunShows, DomRunFails
      <3> QED
        BY <1>0, <1>1, <3>1, <3>2 DEF LeadsInv
    <2>3. CASE DomLife(p)
      BY <1>0, <1>1, <2>3 DEF DomLife, LeadsInv
    <2>4. CASE DomBegin(p) /\ ~DomLife(p)
      <3>1. DomMayRun(p) /\ domRoute' = domRoute /\ domActive' = domActive
        BY <2>4 DEF DomBegin, DomDeploy, DomRoll, DomRunBegins
      <3>2. \A c \in DomClient : DomOn[c] = p => domCall[c].pc = "idle"
        BY <1>t, <3>1 DEF DomMayRun, DomCalling, DomAwake
      <3> QED
        BY <1>0, <1>1, <3>1, <3>2 DEF LeadsInv
    <2> QED
      BY <2>1, <2>2, <2>3, <2>4 DEF DomBegin
  <1> QED
    BY <1>1, <1>2, <1>3 DEF LeadsInv

(* Which faults a behaviour admits never changes. *)
LEMMA DomFaultsStay == [DomNext]_domVars => domFaults' = domFaults
  <1> SUFFICES ASSUME [DomNext]_domVars PROVE domFaults' = domFaults
    OBVIOUS
  <1>1. CASE DomWork \/ UNCHANGED domVars
    BY <1>1 DEF DomWork, TlsPickUp, TlsInspect, TlsIssued, TlsNotIssued, TlsCompleted, domVars, projectVars
  <1>2. CASE \E c \in DomClient : DomAnswer(c) \/ DomAsk(c)
    BY <1>2 DEF DomAnswer, DomAsk, Attach, Detach, CallReads, CallRoutes, AttachBind, DetachRow, DetachColumn,
                IssueSSL, CallQueues, CallDies
  <1>3. CASE \E p \in DomProject : DomRelease(p)
    BY <1>3 DEF DomRelease, DomActivates, DomActivateFails, DomDeployBinds, DomDeployQueues, DomRunShows,
                DomRunFails
  <1>4. CASE \E p \in DomProject : DomBegin(p)
    BY <1>4 DEF DomBegin, DomDeploy, DomRoll, DomLife, DomRunBegins
  <1> QED
    BY <1>1, <1>2, <1>3, <1>4 DEF DomNext

(* Every step keeps the route on the active release. *)
LEMMA ReleaseStep == DomInv /\ ReleaseInv /\ [DomNext]_domVars => ReleaseInv'
  <1> SUFFICES ASSUME DomInv, ReleaseInv, [DomNext]_domVars, InOrder PROVE \A q \in DomProject : LeadsInv(q)'
    BY DomFaultsStay DEF ReleaseInv, InOrder
  <1>1. Typed /\ \A q \in DomProject : LeadsInv(q)
    BY DEF DomInv, ReleaseInv
  <1>2. CASE DomWork \/ UNCHANGED domVars
    <2>1. UNCHANGED <<domRoute, domActive, domRun, domCall>>
      BY <1>2 DEF DomWork, TlsPickUp, TlsInspect, TlsIssued, TlsNotIssued, TlsCompleted, domVars, projectVars
    <2> QED
      BY <1>1, <2>1 DEF LeadsInv
  <1>3. ASSUME NEW c \in DomClient, DomAnswer(c) \/ DomAsk(c) PROVE \A q \in DomProject : LeadsInv(q)'
    BY <1>1, <1>3, RequestLeads
  <1>4. ASSUME NEW p \in DomProject, DomRelease(p) \/ DomBegin(p) PROVE \A q \in DomProject : LeadsInv(q)'
    BY <1>1, <1>4, RunLeads
  <1> QED
    BY <1>2, <1>3, <1>4 DEF DomNext

------------------------------------------------------------------------------
(* Which host it has.                                                      *)

(* What a step of one project leaves alone, and what it may do to the row. *)
Frame(p) ==
  /\ domFaults' = domFaults
  /\ \A q \in DomProject \ {p} :
       /\ domMade'[q] = domMade[q] /\ domActive'[q] = domActive[q] /\ domPrevious'[q] = domPrevious[q]
       /\ domKept'[q] = domKept[q] /\ domRoute'[q] = domRoute[q] /\ domRun'[q] = domRun[q]
  /\ \A c \in DomClient : DomOn[c] # p => domCall'[c] = domCall[c]
  /\ domRow'.bound # p => domRow'.bound = domRow.bound /\ domRow'.status = domRow.status
  /\ domRow'.bound = p => domRow.bound = p \/ (domRow.bound = DomNobody /\ DomClaiming(p))
  /\ DomClaiming(p)' => \/ DomClaiming(p)
                        \/ NoConflict(p) /\ \A q \in DomProject \ {p} : ~DomClaiming(q)

HostHolds(p) == SoloInv(p) /\ RunInv(p) /\ \A c \in DomClient : DomOn[c] = p => EditInv(c)

(* A step that keeps the frame is judged by its own project. *)
LEMMA FrameKeeps ==
  ASSUME Typed, HostInv, Apart, NEW p \in DomProject, Frame(p), HostHolds(p)'
  PROVE  HostInv'
  <1>1. \A q \in DomProject \ {p} : DomClaiming(q)' <=> DomClaiming(q)
    BY DEF Frame, DomClaiming
  <1>2. ClaimInv
    BY DEF HostInv
  <1>3. \A q \in DomProject : DomClaiming(q)' => NoConflict(q)'
    <2> SUFFICES ASSUME NEW q \in DomProject, DomClaiming(q)' PROVE NoConflict(q)'
      OBVIOUS
    <2>1. CASE q = p
      <3>1. NoConflict(p)
        BY <1>2, <2>1 DEF Frame, ClaimInv
      <3> QED
        BY <2>1, <3>1, DomNobodyAssumption DEF Frame, NoConflict
    <2>2. CASE q # p
      <3>1. DomClaiming(q) /\ NoConflict(q) /\ ~DomClaiming(p)
        BY <1>1, <1>2, <2>2 DEF ClaimInv
      <3> QED
        BY <2>2, <3>1, DomNobodyAssumption DEF Frame, NoConflict
    <2> QED
      BY <2>1, <2>2
  <1>4. \A q, r \in DomProject : DomClaiming(q)' /\ DomClaiming(r)' => q = r
    BY <1>1, <1>2 DEF Frame, ClaimInv
  <1>5. ASSUME NEW q \in DomProject, q # p PROVE HostHolds(q)'
    <2>1. HostHolds(q)
      BY DEF HostInv, HostHolds
    <2>2. /\ domMade'[q] = domMade[q] /\ domActive'[q] = domActive[q] /\ domPrevious'[q] = domPrevious[q]
          /\ domKept'[q] = domKept[q] /\ domRoute'[q] = domRoute[q] /\ domRun'[q] = domRun[q]
          /\ \A c \in DomClient : DomOn[c] = q => domCall'[c] = domCall[c]
      BY <1>5 DEF Frame
    <2>3. domRow'.bound = q <=> domRow.bound = q
      BY <1>5, DomNobodyAssumption DEF Frame
    <2>4. domRow.bound = q => domRow'.status = domRow.status
      BY <1>5, <2>3 DEF Frame
    <2>5. DomBound(q)' <=> DomBound(q)
      BY <2>3, <2>4 DEF DomBound
    <2>6. SoloInv(q)'
      BY <2>1, <2>2 DEF HostHolds, SoloInv, DomAwake
    <2>7. ASSUME NEW c \in DomClient, DomOn[c] = q PROVE EditInv(c)'
      BY <2>1, <2>2, <2>3, <2>4, <2>7 DEF HostHolds, EditInv
    <2>8. Settled(q, {"cut"})' = Settled(q, {"cut"}) /\ Settled(q, {"routed", "cut"})' = Settled(q, {"routed", "cut"})
      BY <2>2 DEF Settled
    <2>9. RunInv(q)'
      BY <2>1, <2>2, <2>3, <2>5, <2>8 DEF HostHolds, RunInv, RestInv
    <2> QED
      BY <2>6, <2>7, <2>9 DEF HostHolds
  <1>6. \A q \in DomProject : HostHolds(q)'
    BY <1>5
  <1>7. \A c \in DomClient : EditInv(c)'
    BY <1>6, OnTyped DEF HostHolds
  <1> QED
    BY <1>3, <1>4, <1>6, <1>7 DEF HostInv, HostHolds, ClaimInv

(* The request of one client, the others of its project being at rest. *)
OthersRest(c) == \A e \in DomClient \ {c} : DomOn[e] = DomOn[c] => ~DomAwake(e)

LEMMA OneCall ==
  ASSUME Typed, HostInv, Apart, NEW c \in DomClient, DomAwake(c) \/ DomMayCall(c)
  PROVE  OthersRest(c)
  <1>1. CASE DomAwake(c)
    BY <1>1, OnTyped DEF HostInv, SoloInv, OthersRest
  <1>2. CASE DomMayCall(c)
    BY <1>2 DEF DomMayCall, Apart, DomCalling, OthersRest
  <1> QED
    BY <1>1, <1>2

(* What is left to show of a step of one client. *)
LEMMA DomCallStep ==
  ASSUME Typed, HostInv, NEW c \in DomClient, OthersRest(c), EditInv(c)', RunInv(DomOn[c])',
         \A e \in DomClient : e # c => domCall'[e] = domCall[e]
  PROVE  HostHolds(DomOn[c])'
  <1>1. \A e \in DomClient : e # c /\ DomOn[e] = DomOn[c] => domCall'[e].pc = "idle"
    BY DEF OthersRest, DomAwake
  <1>2. \A e \in DomClient : DomOn[e] = DomOn[c] => EditInv(e)'
    BY <1>1 DEF EditInv
  <1>3. SoloInv(DomOn[c])'
    BY <1>1 DEF SoloInv, DomAwake
  <1> QED
    BY <1>2, <1>3 DEF HostHolds

(* A request of a project has settled when its only client has. *)
LEMMA CallSettled ==
  ASSUME NEW c \in DomClient, OthersRest(c), \A e \in DomClient : e # c => domCall'[e] = domCall[e],
         NEW pcs, "idle" \notin pcs
  PROVE  /\ Settled(DomOn[c], pcs) <=> domCall[c].pc \notin pcs
         /\ Settled(DomOn[c], pcs)' <=> domCall'[c].pc \notin pcs
  BY DEF OthersRest, DomAwake, Settled

(* A request edits the route only while no run is under way. *)
LEMMA RequestRoutes ==
  ASSUME Typed, HostInv, Apart, NEW c \in DomClient, DomAnswer(c) \/ DomAsk(c)
  PROVE  HostInv'
  <1> DEFINE p == DomOn[c]
  <1>t. /\ p \in DomProject /\ domCall[c] \in DomCallSet /\ domRun[p] \in DomRunSet /\ domRow \in RowType
        /\ domActive[p] \in 0..MaxActivations /\ domKept \in [DomProject -> KeptType]
        /\ domRoute \in [DomProject -> RouteType] /\ domCall \in [DomClient -> DomCallSet]
    BY OnTyped DEF Typed
  <1>f. domFaults \cap {"overlap", "race", "inherit", "meet", "die"} = {}
    BY DEF Apart
  <1>0. ClaimInv /\ EditInv(c) /\ RunInv(p)
    BY <1>t DEF HostInv
  <1>o. OthersRest(c)
    <2>1. DomAwake(c) \/ DomMayCall(c)
      BY DEF DomAnswer, DomAsk, Attach, Detach, CallReads, CallRoutes, AttachBind, DetachRow, DetachColumn,
             IssueSSL, CallQueues, CallDies, DomAwake
    <2> QED
      BY <2>1, OneCall
  <1>1. /\ domFaults' = domFaults
        /\ UNCHANGED <<domMade, domActive, domPrevious, domRun>>
        /\ \A e \in DomClient : e # c => domCall'[e] = domCall[e]
    BY <1>t DEF DomAnswer, DomAsk, Attach, Detach, CallReads, CallRoutes, AttachBind, DetachRow, DetachColumn,
                IssueSSL, CallQueues, CallDies, DomCallBegins, DomCallGoes, DomCallEnds, DomCallWaits
  <1>2. \A q \in DomProject \ {p} : domKept'[q] = domKept[q] /\ domRoute'[q] = domRoute[q]
    BY <1>t DEF DomAnswer, DomAsk, Attach, Detach, CallReads, CallRoutes, AttachBind, DetachRow, DetachColumn,
                IssueSSL, CallQueues, CallDies, Keeps
  <1>s. /\ Settled(p, {"cut"}) <=> domCall[c].pc # "cut"
        /\ Settled(p, {"cut"})' <=> domCall'[c].pc # "cut"
        /\ Settled(p, {"routed", "cut"}) <=> domCall[c].pc \notin {"routed", "cut"}
        /\ Settled(p, {"routed", "cut"})' <=> domCall'[c].pc \notin {"routed", "cut"}
    <2>1. /\ Settled(p, {"cut"}) <=> domCall[c].pc \notin {"cut"}
          /\ Settled(p, {"cut"})' <=> domCall'[c].pc \notin {"cut"}
      BY <1>o, <1>1, CallSettled
    <2>2. /\ Settled(p, {"routed", "cut"}) <=> domCall[c].pc \notin {"routed", "cut"}
          /\ Settled(p, {"routed", "cut"})' <=> domCall'[c].pc \notin {"routed", "cut"}
      BY <1>o, <1>1, CallSettled
    <2> QED
      BY <2>1, <2>2
  <1>c. \A q \in DomProject : DomClaiming(q) <=>
          \/ \E e \in DomClient : e # c /\ DomOn[e] = q /\ domCall[e].op = "attach"
                                  /\ domCall[e].pc \in {"begun", "read", "routed"}
          \/ q = p /\ domCall[c].op = "attach" /\ domCall[c].pc \in {"begun", "read", "routed"}
          \/ domRun[q].pc # "idle" /\ domRun[q].kind = "named"
    BY DEF DomClaiming
  <1>d. (domCall'[c].op = "attach" /\ domCall'[c].pc \in {"begun", "read", "routed"} => DomClaiming(p))
          => (DomClaiming(p)' => DomClaiming(p))
    BY <1>1 DEF DomClaiming
  <1> DEFINE Row == /\ domRow'.bound # p => domRow'.bound = domRow.bound /\ domRow'.status = domRow.status
                    /\ domRow'.bound = p => domRow.bound = p \/ (domRow.bound = DomNobody /\ DomClaiming(p))
             Claim == DomClaiming(p)' => \/ DomClaiming(p)
                                         \/ NoConflict(p) /\ \A q \in DomProject \ {p} : ~DomClaiming(q)
  <1> SUFFICES Row /\ Claim /\ EditInv(c)' /\ RunInv(p)'
    <2>1. ASSUME Row, Claim PROVE Frame(p)
      BY <1>1, <1>2, <2>1 DEF Frame
    <2>2. ASSUME EditInv(c)', RunInv(p)' PROVE HostHolds(p)'
      BY <1>o, <1>1, <2>2, DomCallStep
    <2> QED
      BY <1>t, <2>1, <2>2, FrameKeeps
  <1> HIDE DEF p
  <1> USE DEF EditInv, RunInv, RestInv, DomBound, DomCallSet, DomRunSet, RowType
  <1>p. DomOn[c] = p
    BY DEF p
  <1>3. CASE Attach(c)
    <2>1. /\ domCall'[c].op = "attach" /\ domCall'[c].pc = "begun" /\ domCall'[c].owner = domActive[p]
          /\ domRun[p].pc = "idle" /\ domActive[p] # 0 /\ UNCHANGED <<domRow, domKept, domRoute>>
          /\ NoConflict(p) /\ \A q \in DomProject \ {p} : ~DomClaiming(q)
          /\ domCall[c].pc = "idle"
      BY <1>t, <1>f, <1>p, <1>3 DEF Attach, DomCallBegins, NobodyElseClaims, DomMayCall, DomAwake
    <2> QED
      BY <1>0, <1>1, <1>s, <1>p, <1>t, <2>1
  <1>4. CASE Detach(c)
    <2>1. /\ domCall'[c].op = "remove" /\ domCall'[c].pc = "begun" /\ domCall'[c].owner = domActive[p]
          /\ domRun[p].pc = "idle" /\ domActive[p] # 0 /\ domRow.bound = p
          /\ UNCHANGED <<domRow, domKept, domRoute>> /\ domCall[c].pc = "idle"
      BY <1>t, <1>f, <1>p, <1>4 DEF Detach, DomCallBegins, DomMayCall, DomAwake
    <2> QED
      BY <1>0, <1>1, <1>s, <1>p, <1>t, <1>d, <2>1
  <1>5. CASE CallReads(c)
    <2>1. /\ domCall'[c].op = domCall[c].op /\ domCall'[c].pc = "read" /\ domCall'[c].owner = domCall[c].owner
          /\ UNCHANGED <<domRow, domKept, domRoute>> /\ domCall[c].pc = "begun"
      BY <1>t, <1>5 DEF CallReads
    <2> QED
      BY <1>0, <1>1, <1>s, <1>p, <1>t, <1>c, <1>d, <2>1
  <1>6. CASE CallRoutes(c)
    <2>1. domCall[c].pc = "read" /\ UNCHANGED <<domRow, domKept>>
      BY <1>6 DEF CallRoutes
    <2>2. CASE DomCallEnds(c) /\ UNCHANGED domRoute
      <3>1. domCall'[c].pc = "idle" /\ domCall'[c].op = "issue"
        BY <1>t, <2>2 DEF DomCallEnds, DomNoCall
      <3> QED
        BY <1>0, <1>1, <1>s, <1>p, <1>t, <1>d, <2>1, <2>2, <3>1
    <2>3. CASE ~(DomCallEnds(c) /\ UNCHANGED domRoute)
      <3>1. /\ domCall'[c].op = domCall[c].op /\ domCall'[c].pc = "routed" /\ domCall'[c].owner = domCall[c].owner
            /\ domRoute'[p].host = IF domCall[c].op = "attach" THEN "name" ELSE "own"
        BY <1>t, <1>p, <1>6, <2>3 DEF CallRoutes
      <3> QED
        BY <1>0, <1>1, <1>s, <1>p, <1>t, <1>c, <1>d, <2>1, <3>1
    <2> QED
      BY <2>2, <2>3
  <1>7. CASE AttachBind(c)
    <2>0. domCall[c].op = "attach" /\ domCall[c].pc = "routed" /\ UNCHANGED domRoute
      BY <1>7 DEF AttachBind
    <2>1. NoConflict(p) /\ DomClaiming(p) /\ domCall[c].owner = domActive[p] /\ domActive[p] # 0
          /\ domRun[p].pc = "idle" /\ domRoute[p].host = "name"
      BY <1>0, <1>c, <1>t, <1>p, <2>0 DEF ClaimInv
    <2>2. /\ domRow'.status = "ACTIVE" /\ domRow'.bound = p
          /\ domCall'[c].pc = "queue" /\ domCall'[c].op = "issue"
      BY <1>7, <1>t, <1>p, <2>1 DEF AttachBind, DomBind, DomCallWaits, DomNoCall
    <2>3. domKept'[p][domActive[p]] = "name"
      <3>1. Keeps(p, domActive[p], "name")
        BY <1>7, <1>p, <2>1 DEF AttachBind
      <3> QED
        BY <1>t, <2>1, <3>1, KeepsHost
    <2> QED
      BY <1>0, <1>1, <1>s, <1>p, <1>t, <1>d, <2>0, <2>1, <2>2, <2>3 DEF NoConflict
  <1>8. CASE DetachRow(c)
    <2>1. /\ domCall[c].op = "remove" /\ domCall[c].pc = "routed" /\ UNCHANGED <<domKept, domRoute>>
          /\ domRow'.status = "DELETED" /\ domRow'.bound = domRow.bound /\ domCall'[c].pc = "cut"
          /\ domCall'[c].op = domCall[c].op /\ domCall'[c].owner = domCall[c].owner
      BY <1>8, <1>t DEF DetachRow, DomCallGoes
    <2> QED
      BY <1>0, <1>1, <1>s, <1>p, <1>t, <1>d, <2>1
  <1>9. CASE DetachColumn(c)
    <2>1. /\ domCall[c].pc = "cut" /\ UNCHANGED <<domRow, domRoute>>
          /\ domCall'[c].pc = "idle" /\ domCall'[c].op = "issue"
      BY <1>9, <1>t DEF DetachColumn, DomCallEnds, DomNoCall
    <2>2. domCall[c].owner = domActive[p] /\ domActive[p] # 0 /\ domRow.status = "DELETED"
          /\ domRoute[p].host = "own" /\ domRun[p].pc = "idle"
      BY <1>0, <1>p, <2>1
    <2>3. domKept'[p][domActive[p]] # "name"
      <3>1. /\ domKept[DomOn[c]][domCall[c].owner] = "name" => Keeps(DomOn[c], domCall[c].owner, "none")
            /\ domKept[DomOn[c]][domCall[c].owner] # "name" => UNCHANGED domKept
        BY <1>9, <2>2 DEF DetachColumn
      <3>2. DomOn[c] \in DomProject /\ domCall[c].owner \in 0..MaxActivations /\ domCall[c].owner # 0
        BY <1>t, <1>p, <2>2
      <3>3. domKept'[DomOn[c]][domCall[c].owner] # "name"
        BY <1>t, <3>1, <3>2, KeepsHost
      <3> QED
        BY <1>p, <2>2, <3>3
    <2> QED
      BY <1>0, <1>1, <1>s, <1>p, <1>t, <1>d, <2>1, <2>2, <2>3
  <1>10. CASE IssueSSL(c)
    <2>1. /\ domRow.status = "ACTIVE" /\ domRow.bound = p /\ domCall[c].pc = "idle"
          /\ domRow'.status = "ACTIVE" /\ domRow'.bound = p /\ UNCHANGED <<domKept, domRoute>>
          /\ domCall'[c].pc = "queue" /\ domCall'[c].op = "issue"
      BY <1>10, <1>t, <1>p DEF IssueSSL, DomBind, DomCallWaits, DomNoCall, DomMayCall, DomAwake
    <2> QED
      BY <1>0, <1>1, <1>s, <1>p, <1>t, <1>d, <2>1
  <1>11. CASE CallQueues(c)
    <2>1. /\ domCall[c].pc = "queue" /\ UNCHANGED <<domRow, domKept, domRoute>>
          /\ domCall'[c].pc = "idle" /\ domCall'[c].op = "issue"
      BY <1>11, <1>t DEF CallQueues, DomCallEnds, DomNoCall
    <2> QED
      BY <1>0, <1>1, <1>s, <1>p, <1>t, <1>d, <2>1
  <1>12. CASE CallDies(c)
    BY <1>f, <1>12 DEF CallDies
  <1> QED
    BY <1>3, <1>4, <1>5, <1>6, <1>7, <1>8, <1>9, <1>10, <1>11, <1>12 DEF DomAnswer, DomAsk

(* A run takes the route over and hands it back as the row wants it. *)
LEMMA RunRoutes ==
  ASSUME Typed, HostInv, Apart, NEW p \in DomProject, DomRelease(p) \/ DomBegin(p)
  PROVE  HostInv'
  <1>t. /\ domRun[p] \in DomRunSet /\ domRow \in RowType /\ domRun \in [DomProject -> DomRunSet]
        /\ domActive \in [DomProject -> 0..MaxActivations] /\ domMade \in [DomProject -> 0..MaxActivations]
        /\ domPrevious \in [DomProject -> 0..MaxActivations]
        /\ domKept \in [DomProject -> KeptType] /\ domRoute \in [DomProject -> RouteType]
        /\ domActive[p] \in 0..MaxActivations /\ domRun[p].release \in 0..MaxActivations
    BY DEF Typed, DomRunSet
  <1>f. domFaults \cap {"overlap", "race", "rollback", "life", "late"} = {}
    BY DEF Apart
  <1>0. ClaimInv /\ RunInv(p) /\ SoloInv(p) /\ \A c \in DomClient : DomOn[c] = p => EditInv(c)
    BY DEF HostInv
  <1>k. domRun[p].kind # "rollback" \/ domRun[p].pc = "idle"
    BY <1>0 DEF RunInv
  <1>1. domFaults' = domFaults /\ domCall' = domCall
    BY DEF DomRelease, DomBegin, DomActivates, DomActivateFails, DomDeployBinds, DomDeployQueues, DomRunShows,
           DomRunFails, DomDeploy, DomRoll, DomLife, DomRunBegins
  <1>2. \A q \in DomProject \ {p} :
          /\ domMade'[q] = domMade[q] /\ domActive'[q] = domActive[q] /\ domPrevious'[q] = domPrevious[q]
          /\ domKept'[q] = domKept[q] /\ domRoute'[q] = domRoute[q] /\ domRun'[q] = domRun[q]
    <2>1. CASE DomActivates(p)
      BY <1>t, <2>1 DEF DomActivates, DomCommits, Keeps, DomRunGoes
    <2>2. CASE DomActivateFails(p)
      BY <1>f, <1>t, <2>2 DEF DomActivateFails, DomRunEnds
    <2>3. CASE DomDeployBinds(p) \/ DomDeployQueues(p)
      BY <1>t, <2>3 DEF DomDeployBinds, DomDeployQueues, DomRunGoes
    <2>4. CASE DomRunShows(p)
      BY <1>t, <2>4 DEF DomRunShows, DomRunEnds, Keeps
    <2>5. CASE DomBegin(p)
      BY <1>f, <1>t, <2>5 DEF DomBegin, DomDeploy, DomRoll, DomLife, DomRunBegins
    <2>6. CASE DomRunFails(p)
      BY <1>f, <2>6 DEF DomRunFails
    <2> QED
      BY <2>1, <2>2, <2>3, <2>4, <2>5, <2>6 DEF DomRelease
  <1>s. Settled(p, {"cut"})' = Settled(p, {"cut"}) /\ Settled(p, {"routed", "cut"})' = Settled(p, {"routed", "cut"})
    BY <1>1 DEF Settled
  <1>r. domRun[p].pc # "idle" => Settled(p, {"cut"}) /\ Settled(p, {"routed", "cut"})
                                 /\ \A c \in DomClient : DomOn[c] = p => domCall[c].pc \notin {"begun", "read", "routed", "cut"}
    BY <1>0 DEF EditInv, Settled
  <1>c. \A q \in DomProject : DomClaiming(q) <=>
          \/ \E e \in DomClient : DomOn[e] = q /\ domCall[e].op = "attach"
                                  /\ domCall[e].pc \in {"begun", "read", "routed"}
          \/ domRun[q].pc # "idle" /\ domRun[q].kind = "named"
    BY DEF DomClaiming
  <1>d. (domRun'[p].pc # "idle" /\ domRun'[p].kind = "named" => DomClaiming(p)) => (DomClaiming(p)' => DomClaiming(p))
    BY <1>1 DEF DomClaiming
  <1> DEFINE Row == /\ domRow'.bound # p => domRow'.bound = domRow.bound /\ domRow'.status = domRow.status
                    /\ domRow'.bound = p => domRow.bound = p \/ (domRow.bound = DomNobody /\ DomClaiming(p))
             Claim == DomClaiming(p)' => \/ DomClaiming(p)
                                         \/ NoConflict(p) /\ \A q \in DomProject \ {p} : ~DomClaiming(q)
             Edit == \A c \in DomClient : DomOn[c] = p => EditInv(c)'
  <1> SUFFICES Row /\ Claim /\ Edit /\ RunInv(p)'
    <2>1. ASSUME Row, Claim PROVE Frame(p)
      BY <1>1, <1>2, <2>1 DEF Frame
    <2>2. SoloInv(p)'
      BY <1>0, <1>1 DEF SoloInv, DomAwake
    <2>3. ASSUME Edit, RunInv(p)' PROVE HostHolds(p)'
      BY <2>2, <2>3 DEF HostHolds
    <2> QED
      BY <2>1, <2>3, FrameKeeps
  <1>e. domRun[p].pc # "idle" => Edit
    BY <1>1, <1>r DEF EditInv
  <1> USE DEF RunInv, RestInv, DomBound, DomRunSet, RowType
  <1>3. CASE DomActivates(p)
    <2>1. /\ domRun[p].pc = "building" /\ domRun[p].release = domActive[p] + 1 /\ domRun[p].kind # "rollback"
          /\ UNCHANGED <<domRow, domPrevious>>
      BY <1>0, <1>3 DEF DomActivates
    <2>2. /\ domActive'[p] = domRun[p].release /\ domMade'[p] = domRun[p].release
          /\ domRoute'[p].host = domRun[p].host
          /\ domRun'[p].pc = (IF domRun[p].kind = "named" THEN "persist" ELSE "ending")
          /\ domRun'[p].kind = domRun[p].kind /\ domRun'[p].host = domRun[p].host
          /\ domRun'[p].release = domRun[p].release
      BY <1>3, <1>t, <2>1 DEF DomActivates, DomCommits, DomRunGoes
    <2>3. domActive'[p] # 0
      BY <1>t, <2>1, <2>2
    <2>4. RunInv(p)'
      BY <1>0, <1>t, <2>1, <2>2, <2>3
    <2> QED
      BY <1>c, <1>d, <1>e, <2>1, <2>2, <2>4
  <1>4. CASE DomActivateFails(p)
    <2>1. /\ domRun[p].pc = "building" /\ domRun'[p] = DomNoRun
          /\ UNCHANGED <<domRow, domPrevious, domMade, domActive, domKept, domRoute>>
      BY <1>f, <1>t, <1>4 DEF DomActivateFails, DomRunEnds
    <2>2. RunInv(p)'
      BY <1>0, <1>s, <2>1 DEF DomNoRun
    <2> QED
      BY <1>d, <1>e, <2>1, <2>2 DEF DomNoRun
  <1>5. CASE DomDeployBinds(p)
    <2>1. /\ domRun[p].pc = "persist" /\ domRow'.status = "ACTIVE" /\ domRow'.bound = p
          /\ UNCHANGED <<domPrevious, domMade, domActive, domKept, domRoute>>
          /\ domRun'[p].pc = "queue" /\ domRun'[p].kind = domRun[p].kind /\ domRun'[p].host = domRun[p].host
          /\ domRun'[p].release = domRun[p].release
      BY <1>t, <1>5 DEF DomDeployBinds, DomBind, DomRunGoes
    <2>2. RunInv(p)'
      BY <1>0, <1>s, <2>1
    <2>3. NoConflict(p) /\ DomClaiming(p)
      BY <1>0, <1>c, <2>1 DEF ClaimInv
    <2> QED
      BY <1>d, <1>e, <2>1, <2>2, <2>3 DEF NoConflict
  <1>6. CASE DomDeployQueues(p)
    <2>1. /\ domRun[p].pc = "queue"
          /\ UNCHANGED <<domRow, domPrevious, domMade, domActive, domKept, domRoute>>
          /\ domRun'[p].pc = "ending" /\ domRun'[p].kind = domRun[p].kind /\ domRun'[p].host = domRun[p].host
          /\ domRun'[p].release = domRun[p].release
      BY <1>t, <1>6 DEF DomDeployQueues, DomRunGoes
    <2>2. RunInv(p)'
      BY <1>0, <1>s, <2>1
    <2> QED
      BY <1>c, <1>d, <1>e, <2>1, <2>2
  <1>7. CASE DomRunShows(p)
    <2>1. /\ domRun[p].pc = "ending" /\ domRun[p].release = domActive[p] /\ domActive[p] # 0
          /\ domRoute[p].host = domRun[p].host /\ domRun[p].kind # "rollback"
          /\ domRun[p].host = "name" <=> DomBound(p)
      BY <1>0, <1>7 DEF DomRunShows
    <2>2. /\ UNCHANGED <<domRow, domMade, domActive, domRoute>>
          /\ domRun'[p] = DomNoRun /\ domPrevious'[p] = domActive[p]
      BY <1>t, <1>7, <2>1 DEF DomRunShows, DomRunEnds
    <2>3. domKept'[p][domActive[p]] = domRun[p].host
      <3>1. Keeps(p, domActive[p], domRun[p].host)
        BY <1>7, <2>1 DEF DomRunShows
      <3> QED
        BY <1>t, <2>1, <3>1, KeepsHost
    <2>4. RunInv(p)'
      BY <1>0, <1>s, <2>1, <2>2, <2>3 DEF DomNoRun
    <2> QED
      BY <1>d, <1>e, <2>1, <2>2, <2>4 DEF DomNoRun
  <1>8. CASE DomRunFails(p)
    BY <1>f, <1>8 DEF DomRunFails
  <1>9. ASSUME NEW named \in BOOLEAN, DomDeploy(p, named)
        PROVE  Row /\ Claim /\ Edit /\ RunInv(p)'
    <2>1. /\ domRun[p].pc = "idle" /\ \A c \in DomClient : DomOn[c] = p => domCall[c].pc = "idle"
          /\ UNCHANGED <<domRow, domPrevious, domMade, domActive, domKept, domRoute>>
          /\ named => NoConflict(p) /\ \A q \in DomProject \ {p} : ~DomClaiming(q)
      BY <1>f, <1>9 DEF DomDeploy, DomMayRun, DomCalling, DomAwake, NobodyElseClaims, DomRunBegins
    <2>2. /\ Settled(p, {"cut"}) /\ Settled(p, {"routed", "cut"})
          /\ \A c \in DomClient : DomOn[c] = p => domCall'[c].pc = "idle"
      BY <1>1, <2>1 DEF Settled
    <2>3. Edit
      BY <2>2 DEF EditInv
    <2>4. /\ domRun'[p].pc = "building" /\ domRun'[p].release = domMade[p] + 1
          /\ domRun'[p].kind = (IF named THEN "named" ELSE "plain")
          /\ domRun'[p].host = IF named THEN "name" ELSE OrElse(HostOf(p, domPrevious[p]), "own")
      BY <1>t, <1>9 DEF DomDeploy, DomRunBegins
    <2>5. OrElse(HostOf(p, domPrevious[p]), "own") = "name" <=> DomBound(p)
      <3>1. domPrevious[p] = domActive[p] /\ (domActive[p] # 0 => (domKept[p][domActive[p]] = "name" <=> DomBound(p)))
        BY <1>0, <2>1, <2>2
      <3>2. domActive[p] = 0 => ~DomBound(p)
        BY <1>0
      <3> QED
        BY <3>1, <3>2 DEF OrElse, HostOf
    <2>6. domRun'[p].host = "name" <=> domRun'[p].kind = "named" \/ DomBound(p)
      BY <2>4, <2>5
    <2>7. RunInv(p)'
      BY <1>0, <1>s, <2>1, <2>2, <2>4, <2>6
    <2> QED
      BY <1>d, <2>1, <2>3, <2>4, <2>7
  <1>10. CASE DomBegin(p) /\ \A named \in BOOLEAN : ~DomDeploy(p, named)
    BY <1>f, <1>10 DEF DomBegin, DomRoll, DomLife
  <1> QED
    BY <1>3, <1>4, <1>5, <1>6, <1>7, <1>8, <1>9, <1>10 DEF DomRelease

(* The verification worker changes neither the route nor the binding. *)
LEMMA TlsRoutes ==
  ASSUME Typed, HostInv, DomWork \/ UNCHANGED domVars
  PROVE  HostInv'
  <1>1. /\ UNCHANGED <<domMade, domActive, domPrevious, domKept, domRoute, domCall, domRun, domFaults>>
        /\ domRow'.bound = domRow.bound /\ domRow'.status = domRow.status
    BY DEF DomWork, TlsPickUp, TlsInspect, TlsIssued, TlsNotIssued, TlsCompleted, domVars, projectVars, Typed, RowType
  <1>2. \A c \in DomClient : EditInv(c) => EditInv(c)'
    BY <1>1 DEF EditInv
  <1>3. \A p \in DomProject : RunInv(p) => RunInv(p)'
    BY <1>1 DEF RunInv, RestInv, DomBound, Settled
  <1>4. \A p \in DomProject : SoloInv(p) => SoloInv(p)'
    BY <1>1 DEF SoloInv, DomAwake
  <1>5. ClaimInv => ClaimInv'
    BY <1>1 DEF ClaimInv, DomClaiming, NoConflict
  <1> QED
    BY <1>1, <1>2, <1>3, <1>4, <1>5 DEF HostInv, Apart

(* In the initial state no route is there. *)
LEMMA RouteInit == DomInit => RouteInv
  <1> SUFFICES ASSUME DomInit PROVE RouteInv
    OBVIOUS
  <1>1. ReleaseInv
    BY DEF DomInit, ReleaseInv, LeadsInv, DomNoCall
  <1>2. HostInv
    BY DomNobodyAssumption DEF DomInit, HostInv, ClaimInv, DomClaiming, SoloInv, DomAwake, RunInv, RestInv,
                               EditInv, Settled, DomBound, DomNoCall, DomNoRun
  <1> QED
    BY <1>1, <1>2 DEF RouteInv

(* Every step keeps the route that each project should have. *)
LEMMA RouteStep == DomInv /\ RouteInv /\ [DomNext]_domVars => RouteInv'
  <1> SUFFICES ASSUME DomInv, RouteInv, [DomNext]_domVars PROVE RouteInv'
    OBVIOUS
  <1>1. Typed /\ HostInv /\ ReleaseInv'
    BY ReleaseStep DEF DomInv, RouteInv
  <1>2. CASE DomWork \/ UNCHANGED domVars
    BY <1>1, <1>2, TlsRoutes DEF RouteInv
  <1>3. CASE \/ \E c \in DomClient : DomAnswer(c) \/ DomAsk(c)
             \/ \E p \in DomProject : DomRelease(p) \/ DomBegin(p)
    <2>1. CASE Apart
      BY <1>1, <1>3, <2>1, RequestRoutes, RunRoutes DEF RouteInv
    <2>2. CASE ~Apart
      <3>1. domFaults' = domFaults
        BY <1>3 DEF DomAnswer, DomAsk, Attach, Detach, CallReads, CallRoutes, AttachBind, DetachRow, DetachColumn,
                    IssueSSL, CallQueues, CallDies, DomRelease, DomBegin, DomActivates, DomActivateFails,
                    DomDeployBinds, DomDeployQueues, DomRunShows, DomRunFails, DomDeploy, DomRoll, DomLife, DomRunBegins
      <3> QED
        BY <1>1, <2>2, <3>1 DEF RouteInv, HostInv, Apart
    <2> QED
      BY <2>1, <2>2
  <1> QED
    BY <1>2, <1>3 DEF DomNext

(* Who is at rest has the route it should have. *)
LEMMA RouteMeans == RouteInv => RouteIsBound
  <1> SUFFICES ASSUME RouteInv, NEW p \in DomProject, ~DomCalling(p), domRun[p].pc = "idle"
               PROVE  /\ domFaults \cap {"overlap", "late"} = {} => domRoute[p].release = domActive[p]
                      /\ domFaults \subseteq {"rebind"} /\ domActive[p] # 0
                           => (domRoute[p].host = "name" <=> DomBound(p))
    BY DEF RouteIsBound
  <1>1. InOrder => domRoute[p].release = domActive[p]
    BY DEF RouteInv, ReleaseInv, LeadsInv
  <1>2. Settled(p, {"routed", "cut"})
    BY DEF DomCalling, DomAwake, Settled
  <1>3. Apart => (domRoute[p].host = "name" <=> DomBound(p))
    BY <1>2 DEF RouteInv, HostInv, RunInv, RestInv
  <1> QED
    BY <1>1, <1>3 DEF InOrder, Apart

(* When nothing is under way on a project its route leads to the active release,
   unless a request met a run or an activation failed after its commit; and it has
   the domain as its host exactly if the domain is bound to the project, as long as
   none of the cases that RouteIsBound lists has happened: each of them leaves route,
   row and column apart in the code.                                        *)
THEOREM RouteBound == DomSpec => []RouteIsBound
  BY RouteInit, RouteStep, RouteMeans, DomInductive, PTL DEF DomSpec

------------------------------------------------------------------------------
(* SshPool.                                                                *)

PoolType == [client : 0..MaxClients, refs : 0..Cardinality(SshUser), timer : BOOLEAN]
OpType == [pc : {"idle", "waiting", "open", "command", "failed"}, client : 0..MaxClients]

(* Only an operation has a client, and what counts users has one. *)
OpOwns == \A u \in SshUser : sshOp[u].pc = "idle" <=> sshOp[u].client = NoClient
EntryOwns == sshPool.client = NoClient => sshPool.refs = 0

(* The VPS keeps its connections, and nobody joins one that is not ready yet. *)
Gentle == sshFaults \cap {"early", "lose"} = {}

(* Everybody who uses the VPS uses the connection of the entry, which counts them. *)
UseInv ==
  Gentle =>
    /\ sshCut = {}
    /\ sshPool.refs = Cardinality(Users)
    /\ \A u \in Users :
         /\ sshOp[u].pc # "failed" /\ sshOp[u].client = sshPool.client
         /\ sshClient[sshPool.client] = IF sshOp[u].pc = "waiting" THEN "connecting" ELSE "ready"
    /\ \A c \in Clients : sshClient[c] \in {"connecting", "ready"} => sshPool.client = c

PoolInv == SshTypeOK /\ OpOwns /\ EntryOwns /\ UseInv

(* The number of users is a number, and a user is one of them. *)
LEMMA UsersCount ==
  /\ IsFiniteSet(Users) /\ Cardinality(Users) \in Nat /\ Cardinality(Users) <= Cardinality(SshUser)
  /\ Cardinality(SshUser) \in Nat /\ (Cardinality(Users) = 0 <=> Users = {})
  /\ \A u \in SshUser : Cardinality(SshUser) >= 1
  <1>1. IsFiniteSet(SshUser) /\ Users \subseteq SshUser
    BY SshBounds DEF Users
  <1>2. IsFiniteSet(Users) /\ Cardinality(Users) <= Cardinality(SshUser)
    BY <1>1, FS_Subset
  <1>3. ASSUME NEW u \in SshUser PROVE Cardinality(SshUser) # 0
    BY <1>1, <1>3, FS_EmptySet
  <1> QED
    BY <1>1, <1>2, <1>3, FS_CardinalityType, FS_EmptySet

(* An operation that begins, and one that ends, changes the number by one. *)
LEMMA UserBegins ==
  ASSUME NEW u \in SshUser, sshOp[u].pc = "idle", sshOp'[u].pc # "idle",
         \A v \in SshUser : v # u => sshOp'[v].pc = sshOp[v].pc
  PROVE  Users' = Users \cup {u} /\ Cardinality(Users') = Cardinality(Users) + 1
  <1>1. Users' = Users \cup {u} /\ u \notin Users
    BY DEF Users
  <1> QED
    BY <1>1, UsersCount, FS_AddElement

(* .. and one of the users that end was counted. *)
LEMMA UserEnds ==
  ASSUME NEW u \in SshUser, sshOp[u].pc # "idle", sshOp'[u].pc = "idle",
         \A v \in SshUser : v # u => sshOp'[v].pc = sshOp[v].pc
  PROVE  Users' = Users \ {u} /\ Cardinality(Users') = Cardinality(Users) - 1 /\ Cardinality(Users) >= 1
  <1>1. Users' = Users \ {u} /\ u \in Users
    BY DEF Users
  <1>2. Cardinality(Users') = Cardinality(Users) - 1
    BY <1>1, UsersCount, FS_RemoveElement
  <1>3. Cardinality(Users) # 0
    BY <1>1, UsersCount
  <1> QED
    BY <1>1, <1>2, <1>3, UsersCount

(* In the initial state there is no client and no operation. *)
LEMMA PoolInit == SshInit => PoolInv
  <1> SUFFICES ASSUME SshInit PROVE PoolInv
    OBVIOUS
  <1>1. Users = {} /\ Cardinality(Users) = 0 /\ OpOwns
    BY FS_EmptySet DEF SshInit, Users, SshIdleOp, OpOwns
  <1>2. SshTypeOK
    BY <1>1, SshBounds, UsersCount DEF SshInit, SshTypeOK, NoEntry, NoClient, SshIdleOp
  <1>3. UseInv
    BY <1>1 DEF SshInit, UseInv, NoEntry
  <1>4. EntryOwns
    BY DEF SshInit, EntryOwns, NoEntry
  <1> QED
    BY <1>1, <1>2, <1>3, <1>4 DEF PoolInv

(* Every step keeps the count of the entry and the connection of its users. *)
LEMMA PoolStep == PoolInv /\ [SshNext]_sshVars => PoolInv'
  <1> SUFFICES ASSUME PoolInv, [SshNext]_sshVars PROVE PoolInv'
    OBVIOUS
  <1>0. /\ SshTypeOK /\ OpOwns /\ EntryOwns
        /\ sshPool \in PoolType /\ sshOp \in [SshUser -> OpType] /\ sshCut \subseteq SshUser
        /\ sshClient \in [Clients -> {"new", "connecting", "ready", "gone"}]
        /\ sshPool.client # NoClient => sshClient[sshPool.client] \in {"connecting", "ready"} /\ sshPool.client \in Clients
        /\ sshPool.timer <=> sshPool.client # NoClient /\ sshPool.refs = 0
        /\ "forget" \in sshFaults \/ sshPool.refs <= Cardinality(Users)
        /\ sshPool.client = NoClient => sshPool.refs = 0
        /\ sshPool.client \in 0..MaxClients /\ sshPool.refs \in 0..Cardinality(SshUser)
    BY SshBounds DEF PoolInv, EntryOwns, SshTypeOK, PoolType, OpType, Clients, NoClient
  <1>b. MaxClients \in Nat /\ NoClient = 0 /\ NoClient \notin Clients /\ Cardinality(SshUser) \in Nat
    BY SshBounds, UsersCount DEF NoClient, Clients
  <1>a. ASSUME Gentle
        PROVE  /\ sshCut = {} /\ sshPool.refs = Cardinality(Users)
               /\ \A u \in SshUser : sshOp[u].pc # "idle" =>
                    /\ sshOp[u].pc # "failed" /\ sshOp[u].client = sshPool.client
                    /\ sshClient[sshPool.client] = IF sshOp[u].pc = "waiting" THEN "connecting" ELSE "ready"
               /\ \A c \in Clients : sshClient[c] \in {"connecting", "ready"} => sshPool.client = c
    BY <1>a DEF PoolInv, UseInv, Users
  <1>t. ASSUME sshPool' \in PoolType, sshOp' \in [SshUser -> OpType], sshCut' \subseteq SshUser,
               sshClient' \in [Clients -> {"new", "connecting", "ready", "gone"}], UNCHANGED sshFaults,
               sshPool'.client # NoClient => sshClient'[sshPool'.client] \in {"connecting", "ready"},
               sshPool'.timer <=> sshPool'.client # NoClient /\ sshPool'.refs = 0,
               "forget" \in sshFaults \/ sshPool'.refs <= Cardinality(Users'), OpOwns',
               sshPool'.client = NoClient => sshPool'.refs = 0,
               Gentle =>
                 /\ sshCut' = {} /\ sshPool'.refs = Cardinality(Users')
                 /\ \A u \in SshUser : sshOp'[u].pc # "idle" =>
                      /\ sshOp'[u].pc # "failed" /\ sshOp'[u].client = sshPool'.client
                      /\ sshClient'[sshPool'.client] = IF sshOp'[u].pc = "waiting" THEN "connecting" ELSE "ready"
                 /\ \A c \in Clients : sshClient'[c] \in {"connecting", "ready"} => sshPool'.client = c
        PROVE  PoolInv'
    <2>1. SshTypeOK'
      BY <1>0, <1>t DEF SshTypeOK, PoolType, OpType
    <2>2. UseInv'
      BY <1>t DEF UseInv, Users, Gentle
    <2> QED
      BY <1>t, <2>1, <2>2 DEF PoolInv, EntryOwns
  (* The place of an operation changes, not whether it is one. *)
  <1>g. ASSUME NEW u \in SshUser, NEW p \in {"waiting", "open", "command", "failed"}, SshGoes(u, p), sshOp[u].pc # "idle"
        PROVE  /\ sshOp' \in [SshUser -> OpType] /\ sshOp'[u].pc = p
               /\ \A v \in SshUser : sshOp'[v].client = sshOp[v].client /\ (v # u => sshOp'[v].pc = sshOp[v].pc)
               /\ Users' = Users /\ OpOwns'
    <2>1. /\ sshOp' \in [SshUser -> OpType] /\ sshOp'[u].pc = p
          /\ \A v \in SshUser : sshOp'[v].client = sshOp[v].client /\ (v # u => sshOp'[v].pc = sshOp[v].pc)
      BY <1>0, <1>g DEF SshGoes, OpType
    <2> QED
      BY <1>0, <1>g, <2>1 DEF Users, OpOwns
  <1>1. ASSUME NEW u \in SshUser, SshConnect(u) PROVE PoolInv'
    <2>0. sshOp[u].pc = "idle" /\ UNCHANGED <<sshCut, sshFaults>>
      BY <1>1 DEF SshConnect
    <2>1. CASE /\ sshPool.client # NoClient /\ sshPool.refs < Cardinality(SshUser)
               /\ sshClient[sshPool.client] = "connecting" => "early" \in sshFaults
               /\ Join(u) /\ UNCHANGED sshClient
      <3>a. sshPool' = [client |-> sshPool.client, refs |-> sshPool.refs + 1, timer |-> FALSE]
        BY <1>0, <2>1 DEF Join, PoolType
      <3>b. sshPool.refs + 1 \in 0..Cardinality(SshUser)
        BY <1>0, <1>b, <2>1
      <3>1. sshPool' \in PoolType /\ sshPool'.refs = sshPool.refs + 1 /\ sshPool'.client = sshPool.client /\ ~sshPool'.timer
        BY <1>0, <3>a, <3>b DEF PoolType
      <3>2. /\ sshOp' \in [SshUser -> OpType] /\ sshOp'[u].pc = "open" /\ sshOp'[u].client = sshPool.client
            /\ \A v \in SshUser : v # u => sshOp'[v] = sshOp[v]
        BY <1>0, <2>1 DEF Join, OpType
      <3>3. Cardinality(Users') = Cardinality(Users) + 1
        BY <2>0, <3>2, UserBegins
      <3>4. OpOwns'
        BY <1>0, <2>1, <3>2 DEF OpOwns
      <3>5. "forget" \in sshFaults \/ sshPool'.refs <= Cardinality(Users')
        BY <1>0, <1>b, <3>1, <3>3, UsersCount
      <3>6. Gentle => sshClient[sshPool.client] = "ready"
        BY <1>0, <2>1 DEF Gentle
      <3>7. sshPool'.refs # 0
        BY <1>0, <1>b, <3>1
      <3> QED
        BY <1>0, <1>a, <1>t, <2>0, <2>1, <3>1, <3>2, <3>3, <3>4, <3>5, <3>6, <3>7
    <2>2. CASE /\ sshPool.client = NoClient
               /\ \E c \in Clients :
                    /\ sshClient[c] = "new" /\ \A b \in Clients : b < c => sshClient[b] # "new"
                    /\ sshPool' = [client |-> c, refs |-> 1, timer |-> FALSE]
                    /\ sshClient' = [sshClient EXCEPT ![c] = "connecting"]
                    /\ sshOp' = [sshOp EXCEPT ![u] = [pc |-> "waiting", client |-> c]]
      <3>0. PICK c \in Clients :
                    /\ sshClient[c] = "new"
                    /\ sshPool' = [client |-> c, refs |-> 1, timer |-> FALSE]
                    /\ sshClient' = [sshClient EXCEPT ![c] = "connecting"]
                    /\ sshOp' = [sshOp EXCEPT ![u] = [pc |-> "waiting", client |-> c]]
        BY <2>2
      <3>1. sshPool' \in PoolType /\ sshPool'.refs = 1 /\ sshPool'.client = c /\ ~sshPool'.timer /\ c \in 0..MaxClients
        BY <1>b, <3>0, UsersCount DEF PoolType, Clients
      <3>2. /\ sshOp' \in [SshUser -> OpType] /\ sshOp'[u].pc = "waiting" /\ sshOp'[u].client = c
            /\ \A v \in SshUser : v # u => sshOp'[v] = sshOp[v]
        BY <1>0, <3>0, <3>1 DEF OpType
      <3>3. Cardinality(Users') = Cardinality(Users) + 1
        BY <2>0, <3>2, UserBegins
      <3>4. OpOwns'
        BY <1>0, <1>b, <3>0, <3>2 DEF OpOwns
      <3>5. sshPool'.refs <= Cardinality(Users')
        BY <3>1, <3>3, UsersCount
      <3>6. sshClient' \in [Clients -> {"new", "connecting", "ready", "gone"}] /\ sshClient'[c] = "connecting"
            /\ \A b \in Clients : b # c => sshClient'[b] = sshClient[b]
        BY <1>0, <3>0
      <3>7. Gentle => \A b \in Clients : sshClient[b] \notin {"connecting", "ready"}
        BY <1>a, <1>b, <2>2
      <3>8. Gentle => \A v \in SshUser : sshOp[v].pc = "idle"
        BY <1>0, <1>a, <2>2 DEF OpOwns
      <3>9. Gentle => sshPool'.refs = Cardinality(Users')
        BY <3>1, <3>3, <3>8, UsersCount DEF Users
      <3>10. Gentle =>
               /\ \A v \in SshUser : sshOp'[v].pc # "idle" =>
                    /\ sshOp'[v].pc # "failed" /\ sshOp'[v].client = sshPool'.client
                    /\ sshClient'[sshPool'.client] = IF sshOp'[v].pc = "waiting" THEN "connecting" ELSE "ready"
               /\ \A b \in Clients : sshClient'[b] \in {"connecting", "ready"} => sshPool'.client = b
        BY <3>1, <3>2, <3>6, <3>7, <3>8
      <3>11. sshCut' \subseteq SshUser /\ (Gentle => sshCut' = {}) /\ sshPool'.refs # 0 /\ sshPool'.client # NoClient
        BY <1>0, <1>a, <1>b, <2>0, <3>1
      <3> QED
        BY <1>t, <2>0, <3>1, <3>2, <3>4, <3>5, <3>6, <3>9, <3>10, <3>11
    <2> QED
      BY <1>1, <2>1, <2>2 DEF SshConnect
  (* The promise is settled: whoever waits for the client goes on. *)
  <1>s. ASSUME NEW c \in Clients, NEW p \in {"open", "failed"}, Settles(c, p)
        PROVE  /\ sshOp' \in [SshUser -> OpType] /\ Users' = Users /\ OpOwns'
               /\ \A v \in SshUser : /\ sshOp'[v].client = sshOp[v].client
                                     /\ sshOp'[v].pc = IF sshOp[v].pc = "waiting" /\ sshOp[v].client = c THEN p ELSE sshOp[v].pc
    <2>1. \A v \in SshUser : sshOp[v] = [pc |-> "waiting", client |-> c] <=> sshOp[v].pc = "waiting" /\ sshOp[v].client = c
      BY <1>0 DEF OpType
    <2>2. /\ sshOp' \in [SshUser -> OpType]
          /\ \A v \in SshUser : /\ sshOp'[v].client = sshOp[v].client
                                /\ sshOp'[v].pc = IF sshOp[v].pc = "waiting" /\ sshOp[v].client = c THEN p ELSE sshOp[v].pc
      BY <1>0, <1>s, <2>1 DEF Settles, OpType
    <2> QED
      BY <1>0, <2>2 DEF Users, OpOwns
  <1>2. ASSUME NEW c \in Clients, SshReady(c) PROVE PoolInv'
    <2>1. /\ sshClient[c] = "connecting" /\ sshClient' = [sshClient EXCEPT ![c] = "ready"]
          /\ Settles(c, "open") /\ UNCHANGED <<sshPool, sshCut, sshFaults>>
      BY <1>2 DEF SshReady
    <2>2. sshClient' \in [Clients -> {"new", "connecting", "ready", "gone"}] /\ sshClient'[c] = "ready"
          /\ \A b \in Clients : b # c => sshClient'[b] = sshClient[b]
      BY <1>0, <2>1
    <2>3. Gentle => sshPool.client = c
      BY <1>a, <2>1
    <2> QED
      BY <1>0, <1>a, <1>s, <1>t, <2>1, <2>2, <2>3
  <1>3. ASSUME NEW c \in Clients, SshLost(c) PROVE PoolInv'
    <2>1. /\ "lose" \in sshFaults /\ sshClient' = [sshClient EXCEPT ![c] = "gone"]
          /\ sshPool' = (IF sshPool.client = c THEN NoEntry ELSE sshPool)
          /\ Settles(c, "failed") /\ UNCHANGED <<sshCut, sshFaults>>
      BY <1>3 DEF SshLost
    <2>2. NoEntry \in PoolType /\ NoEntry.client = NoClient /\ NoEntry.refs = 0 /\ ~NoEntry.timer
      BY <1>b DEF NoEntry, PoolType
    <2>3. sshClient' \in [Clients -> {"new", "connecting", "ready", "gone"}] /\ \A b \in Clients : b # c => sshClient'[b] = sshClient[b]
      BY <1>0, <2>1
    <2>4. ~Gentle
      BY <2>1 DEF Gentle
    <2> QED
      BY <1>0, <1>s, <1>t, <2>1, <2>2, <2>3, <2>4, UsersCount
  <1>4. ASSUME NEW u \in SshUser, SshCommand(u) PROVE PoolInv'
    <2> DEFINE p == IF sshClient[sshOp[u].client] = "ready" THEN "command" ELSE "failed"
    <2>1. sshOp[u].pc = "open" /\ SshGoes(u, p) /\ UNCHANGED <<sshPool, sshClient, sshFaults>>
          /\ sshCut' = IF sshClient[sshOp[u].client] = "connecting" THEN sshCut \cup {u} ELSE sshCut
      BY <1>4 DEF SshCommand
    <2>2. Gentle => sshClient[sshOp[u].client] = "ready"
      BY <1>a, <2>1
    <2> QED
      BY <1>0, <1>a, <1>g, <1>t, <2>1, <2>2
  <1>5. ASSUME NEW u \in SshUser, SshAnswer(u) PROVE PoolInv'
    <2> DEFINE p == IF sshClient[sshOp[u].client] = "ready" THEN "open" ELSE "failed"
    <2>1. sshOp[u].pc = "command" /\ SshGoes(u, p) /\ UNCHANGED <<sshPool, sshClient, sshCut, sshFaults>>
      BY <1>5 DEF SshAnswer
    <2>2. Gentle => sshClient[sshOp[u].client] = "ready"
      BY <1>a, <2>1
    <2> QED
      BY <1>0, <1>a, <1>g, <1>t, <2>1, <2>2
  (* The operation is over. *)
  <1>e. ASSUME NEW u \in SshUser, sshOp[u].pc # "idle", sshOp' = [sshOp EXCEPT ![u] = SshIdleOp]
        PROVE  /\ sshOp' \in [SshUser -> OpType] /\ OpOwns' /\ sshOp'[u].pc = "idle"
               /\ \A v \in SshUser : v # u => sshOp'[v] = sshOp[v]
               /\ Cardinality(Users') = Cardinality(Users) - 1 /\ Cardinality(Users) >= 1
    <2>1. /\ sshOp' \in [SshUser -> OpType] /\ sshOp'[u] = SshIdleOp /\ SshIdleOp.pc = "idle" /\ SshIdleOp.client = NoClient
          /\ \A v \in SshUser : v # u => sshOp'[v] = sshOp[v]
      BY <1>0, <1>b, <1>e DEF OpType, SshIdleOp
    <2>2. OpOwns'
      BY <1>0, <2>1 DEF OpOwns
    <2> QED
      BY <1>e, <2>1, <2>2, UserEnds
  <1>6. ASSUME NEW u \in SshUser, SshDisconnect(u) PROVE PoolInv'
    <2>1. sshOp[u].pc # "idle" /\ sshOp' = [sshOp EXCEPT ![u] = SshIdleOp] /\ sshPool' = CountDown(u)
          /\ UNCHANGED <<sshClient, sshCut, sshFaults>>
      BY <1>6 DEF SshDisconnect
    <2>2. CASE sshPool.client = NoClient
      <3>1. sshPool' = sshPool
        BY <2>1, <2>2 DEF CountDown
      <3>2. ~Gentle
        BY <1>0, <1>a, <2>1, <2>2 DEF OpOwns
      <3>a. Cardinality(Users') = Cardinality(Users) - 1 /\ Cardinality(Users) >= 1 /\ Cardinality(Users) \in Nat
        BY <1>e, <2>1, UsersCount
      <3>3. sshPool.refs <= Cardinality(Users')
        BY <1>0, <2>2, <3>a
      <3> QED
        BY <1>0, <1>e, <1>t, <2>1, <3>1, <3>2, <3>3
    <2>3. CASE sshPool.client # NoClient
      <3> DEFINE refs == IF sshPool.refs > 1 THEN sshPool.refs - 1 ELSE 0
      <3>1. sshPool' = [sshPool EXCEPT !.refs = refs, !.timer = (refs = 0)]
        BY <2>1, <2>3 DEF CountDown
      <3>a. Cardinality(Users') = Cardinality(Users) - 1 /\ Cardinality(Users) >= 1 /\ Cardinality(Users) \in Nat
        BY <1>e, <2>1, UsersCount
      <3>2. refs \in 0..Cardinality(SshUser) /\ (sshPool.refs <= Cardinality(Users) => refs <= Cardinality(Users'))
            /\ (sshPool.refs = Cardinality(Users) => refs = Cardinality(Users'))
        BY <1>0, <1>b, <3>a
      <3>3. sshPool' \in PoolType /\ sshPool'.refs = refs /\ sshPool'.client = sshPool.client /\ sshPool'.timer = (refs = 0)
        BY <1>0, <3>1, <3>2 DEF PoolType
      <3> QED
        BY <1>0, <1>a, <1>e, <1>t, <2>1, <2>3, <3>2, <3>3
    <2> QED
      BY <2>2, <2>3
  <1>7. ASSUME NEW u \in SshUser, SshForget(u) PROVE PoolInv'
    <2>1. /\ "forget" \in sshFaults /\ sshOp[u].pc = "failed" /\ sshOp' = [sshOp EXCEPT ![u] = SshIdleOp]
          /\ UNCHANGED <<sshPool, sshClient, sshCut, sshFaults>>
      BY <1>7 DEF SshForget
    <2>2. ~Gentle
      BY <1>a, <2>1
    <2> QED
      BY <1>0, <1>e, <1>t, <2>1, <2>2
  <1>8. CASE SshIdle
    <2>1. /\ sshPool.timer /\ sshClient' = [sshClient EXCEPT ![sshPool.client] = "gone"] /\ sshPool' = NoEntry
          /\ sshCut' = sshCut \cup {u \in SshUser : sshOp[u].client = sshPool.client /\ sshOp[u].pc # "failed"}
          /\ UNCHANGED <<sshOp, sshFaults>>
      BY <1>8 DEF SshIdle
    <2>2. NoEntry \in PoolType /\ NoEntry.client = NoClient /\ NoEntry.refs = 0 /\ ~NoEntry.timer
      BY <1>b DEF NoEntry, PoolType
    <2>3. sshPool.client \in Clients /\ sshPool.refs = 0
      BY <1>0, <2>1
    <2>4. /\ sshClient' \in [Clients -> {"new", "connecting", "ready", "gone"}] /\ sshClient'[sshPool.client] = "gone"
          /\ \A b \in Clients : b # sshPool.client => sshClient'[b] = sshClient[b]
      BY <1>0, <2>1, <2>3
    <2>5. Users' = Users /\ OpOwns'
      BY <1>0, <2>1 DEF Users, OpOwns
    <2>6. Gentle => \A u \in SshUser : sshOp[u].pc = "idle"
      BY <1>a, <2>3, UsersCount DEF Users
    <2>7. Gentle => sshCut' = {} /\ Cardinality(Users) = 0
      BY <1>0, <1>a, <1>b, <2>1, <2>3, <2>6 DEF OpOwns
    <2> QED
      BY <1>0, <1>a, <1>b, <1>t, <2>1, <2>2, <2>4, <2>5, <2>6, <2>7, UsersCount
  <1>9. CASE UNCHANGED sshVars
    <2>1. Users' = Users
      BY <1>9 DEF sshVars, Users
    <2> QED
      BY <1>9, <2>1 DEF sshVars, PoolInv, SshTypeOK, OpOwns, EntryOwns, UseInv, Gentle
  <1> QED
    BY <1>1, <1>2, <1>3, <1>4, <1>5, <1>6, <1>7, <1>8, <1>9 DEF SshNext, SshWork

(* The entry names a live connection, counts nobody twice and waits for its end only
   when it counts nobody.                                                  *)
THEOREM PoolTypes == SshSpec => []SshTypeOK
  <1>1. PoolInv => SshTypeOK
    BY DEF PoolInv
  <1> QED
    BY <1>1, PoolInit, PoolStep, PTL DEF SshSpec

(* As long as the VPS keeps its connections and nobody joins one too early, no operation
   loses its client to the timer or the disconnect of another one (connect, disconnect
   and the idle timer of ssh.ts), for any number of operations and connections. *)
(* Nobody loses the connection under a command because another operation has ended
   or a timer has run out (SSHService.connect, disconnect and the idle timer of the
   pool), however many operations share it.                                *)
THEOREM PooledConnectionStays == SshSpec => []InUseStaysUp
  <1>1. PoolInv => InUseStaysUp
    BY DEF PoolInv, UseInv, Gentle, InUseStaysUp
  <1> QED
    BY <1>1, PoolInit, PoolStep, PTL DEF SshSpec

------------------------------------------------------------------------------
(* ServerHealth.                                                           *)

ShRecord == [pc : {"idle", "selected", "read", "found", "alert", "creating"}, seen : {"active", "failed"}, ok : BOOLEAN]

(* The owner knows the status the check has begun with; from "alert" on the row
   says the other one.                                                     *)
NewsAt(k) ==
  /\ k.pc \in {"selected", "read", "found"} => (shStatus = "failed" <=> shNews = "SERVER_OFFLINE")
  /\ k.pc \in {"read", "found"} => k.seen = shStatus
  /\ k.pc \in {"alert", "creating"} => (shStatus = "failed" <=> ~k.ok)

NewsInv ==
  shFaults = {} /\ ~shMissed =>
    /\ \A b, c \in ShCheck : shCheck[b].pc # "idle" /\ shCheck[c].pc # "idle" => b = c
    /\ \A c \in ShCheck : NewsAt(shCheck[c])
    /\ AllAtRest => (shStatus = "failed" <=> shNews = "SERVER_OFFLINE")

HealthInv == ShTypeOK /\ NewsInv

(* Only the place of the check changes, or the check is over. *)
LEMMA ShGoesFields ==
  ASSUME ShTypeOK, NEW c \in ShCheck, NEW p \in {"idle", "selected", "read", "found", "alert", "creating"}, ShGoes(c, p)
  PROVE  /\ shCheck' \in [ShCheck -> ShRecord]
         /\ \A b \in ShCheck : b # c => shCheck'[b] = shCheck[b]
         /\ shCheck'[c].pc = p /\ shCheck'[c].seen = shCheck[c].seen /\ shCheck'[c].ok = shCheck[c].ok
  BY DEF ShTypeOK, ShGoes, ShRecord

(* In the initial state the VPS is active and no check is under way. *)
LEMMA HealthInit == ShInit => HealthInv
  <1> SUFFICES ASSUME ShInit PROVE HealthInv
    OBVIOUS
  <1>r. shCheck \in [ShCheck -> ShRecord]
    BY DEF ShInit, ShRest, ShRecord
  <1>b. shUp \in BOOLEAN /\ shMissed \in BOOLEAN
    BY DEF ShInit
  <1>f. shFlips \in 0..MaxFlips
    BY ShBounds DEF ShInit
  <1>1. ShTypeOK
    BY <1>r, <1>b, <1>f DEF ShInit, ShTypeOK, ShRecord
  <1>2. \A c \in ShCheck : shCheck[c].pc = "idle"
    BY DEF ShInit, ShRest
  <1>3. NewsInv
    BY <1>2 DEF ShInit, NewsInv, NewsAt
  <1> QED
    BY <1>1, <1>3 DEF HealthInv

(* What a step of one check has to show: its own record, and what rest means. *)
LEMMA OneCheck ==
  ASSUME HealthInv, NEW c \in ShCheck, UNCHANGED <<shUp, shFlips, shFaults>>,
         shCheck' \in [ShCheck -> ShRecord], \A b \in ShCheck : b # c => shCheck'[b] = shCheck[b],
         shStatus' \in {"active", "failed"}, shNews' \in Alert \cup {"none"}, shCooldown' \subseteq Alert,
         shCooldown' # {} => shNews' # "none", shMissed' \in BOOLEAN, shMissed => shMissed',
         shFaults = {} /\ ~shMissed' =>
           /\ shCheck[c].pc # "idle" \/ AllAtRest
           /\ NewsAt(shCheck[c])'
           /\ shCheck'[c].pc = "idle" => (shStatus' = "failed" <=> shNews' = "SERVER_OFFLINE")
  PROVE  HealthInv'
  <1>1. ShTypeOK'
    BY DEF HealthInv, ShTypeOK, ShRecord
  <1>2. ASSUME shFaults = {}, ~shMissed'
        PROVE  \A b \in ShCheck : b # c => shCheck[b].pc = "idle"
    BY <1>2 DEF HealthInv, NewsInv, AllAtRest
  <1>3. NewsInv'
    BY <1>2 DEF NewsInv, NewsAt, AllAtRest
  <1> QED
    BY <1>1, <1>3 DEF HealthInv

(* Every step keeps what a check knows and what its owner has been told. *)
LEMMA HealthStep == HealthInv /\ [ShNext]_shVars => HealthInv'
  <1> SUFFICES ASSUME HealthInv, [ShNext]_shVars PROVE HealthInv'
    OBVIOUS
  <1>0. /\ ShTypeOK /\ shCheck \in [ShCheck -> ShRecord] /\ shStatus \in {"active", "failed"} /\ shMissed \in BOOLEAN
        /\ shNews \in Alert \cup {"none"} /\ shCooldown \subseteq Alert /\ (shCooldown # {} => shNews # "none")
        /\ shFlips \in 0..MaxFlips /\ shUp \in BOOLEAN
    BY DEF HealthInv, ShTypeOK, ShRecord
  <1>a. ASSUME shFaults = {}, ~shMissed
        PROVE  /\ \A c \in ShCheck : NewsAt(shCheck[c])
               /\ AllAtRest => (shStatus = "failed" <=> shNews = "SERVER_OFFLINE")
    BY <1>a DEF HealthInv, NewsInv
  <1>r. ShRest \in ShRecord /\ ShRest.pc = "idle"
    BY DEF ShRest, ShRecord
  <1>1. CASE Flip
    <2>1. ShTypeOK'
      BY <1>0, <1>1, ShBounds DEF Flip, ShTypeOK, ShRecord
    <2> QED
      BY <1>1, <2>1 DEF Flip, HealthInv, NewsInv, NewsAt, AllAtRest
  <1>2. CASE Select
    <2>1. ShScheduled \in ShCheck /\ (shFaults = {} => AllAtRest)
      BY <1>2, ShBounds DEF Select, ShMayBegin
    <2>2. /\ shCheck' \in [ShCheck -> ShRecord] /\ shCheck'[ShScheduled].pc = "selected"
          /\ \A b \in ShCheck : b # ShScheduled => shCheck'[b] = shCheck[b]
      BY <1>0, <1>2, <2>1, ShGoesFields DEF Select
    <2>3. shFaults = {} /\ ~shMissed => NewsAt(shCheck[ShScheduled])'
      BY <1>2, <1>a, <2>1, <2>2 DEF Select, NewsAt
    <2> QED
      BY <1>0, <1>2, <2>1, <2>2, <2>3, OneCheck DEF Select
  <1>3. CASE WriteQuietly
    BY <1>0, <1>3 DEF WriteQuietly, HealthInv, NewsInv, ShTypeOK
  <1>4. CASE ShDie
    BY <1>0, <1>4, <1>r, ShBounds DEF ShDie, HealthInv, NewsInv, ShTypeOK, ShRecord
  <1>5. ASSUME NEW c \in ShCheck, ReadStatus(c) PROVE HealthInv'
    <2>1. /\ shCheck' \in [ShCheck -> ShRecord] /\ shCheck'[c].pc = "read" /\ shCheck'[c].seen = shStatus
          /\ \A b \in ShCheck : b # c => shCheck'[b] = shCheck[b]
      BY <1>0, <1>5 DEF ReadStatus, ShRecord
    <2>2. shFaults = {} => (shCheck[c].pc = "selected" \/ AllAtRest)
      BY <1>5 DEF ReadStatus, ShMayBegin
    <2>3. shFaults = {} /\ ~shMissed => NewsAt(shCheck[c])'
      BY <1>5, <1>a, <2>1, <2>2 DEF ReadStatus, NewsAt
    <2> QED
      BY <1>0, <1>5, <2>1, <2>2, <2>3, OneCheck DEF ReadStatus
  <1>6. ASSUME NEW c \in ShCheck, Find(c) PROVE HealthInv'
    <2>1. /\ shCheck' \in [ShCheck -> ShRecord] /\ shCheck'[c].pc = "found" /\ shCheck'[c].seen = shCheck[c].seen
          /\ \A b \in ShCheck : b # c => shCheck'[b] = shCheck[b]
      BY <1>0, <1>6 DEF Find, ShRecord
    <2>3. shFaults = {} /\ ~shMissed => NewsAt(shCheck[c])'
      BY <1>6, <1>a, <2>1 DEF Find, NewsAt
    <2> QED
      BY <1>0, <1>6, <2>1, <2>3, OneCheck DEF Find
  <1>7. ASSUME NEW c \in ShCheck, WriteHealth(c) PROVE HealthInv'
    <2>0. shCheck[c] \in ShRecord /\ shCheck[c].pc = "found" /\ shStatus' = Found(c) /\ Found(c) \in {"active", "failed"}
      BY <1>0, <1>7 DEF WriteHealth, Found
    <2>1. CASE Found(c) = shCheck[c].seen
      <3>1. shCheck' = [shCheck EXCEPT ![c] = ShRest]
        BY <1>0, <1>7, <2>1 DEF WriteHealth
      <3>2. shFaults = {} /\ ~shMissed => shStatus' = shStatus /\ (shStatus = "failed" <=> shNews = "SERVER_OFFLINE")
        BY <1>a, <2>0, <2>1 DEF NewsAt
      <3> QED
        BY <1>0, <1>7, <1>r, <2>0, <3>1, <3>2, OneCheck DEF WriteHealth, NewsAt
    <2>2. CASE Found(c) # shCheck[c].seen
      <3>1. shCheck' = [shCheck EXCEPT ![c].pc = "alert"]
        BY <1>0, <1>7, <2>2 DEF WriteHealth
      <3>2. /\ shCheck' \in [ShCheck -> ShRecord] /\ shCheck'[c].pc = "alert" /\ shCheck'[c].ok = shCheck[c].ok
            /\ \A b \in ShCheck : b # c => shCheck'[b] = shCheck[b]
        BY <1>0, <3>1 DEF ShRecord
      <3>3. NewsAt(shCheck[c])'
        BY <2>0, <3>2 DEF NewsAt, Found, ShRecord
      <3> QED
        BY <1>0, <1>7, <2>0, <3>2, <3>3, OneCheck DEF WriteHealth
    <2> QED
      BY <2>1, <2>2
  <1>8. ASSUME NEW c \in ShCheck, TriggerAlert(c) PROVE HealthInv'
    <2>1. CASE AlertOf(c) \in shCooldown
      <3>1. shMissed' = TRUE /\ shCheck' = [shCheck EXCEPT ![c] = ShRest]
        BY <1>8, <2>1 DEF TriggerAlert
      <3> QED
        BY <1>0, <1>8, <1>r, <3>1, OneCheck DEF TriggerAlert
    <2>2. CASE AlertOf(c) \notin shCooldown
      <3>1. ShGoes(c, "creating") /\ UNCHANGED shMissed /\ shCheck[c].pc = "alert"
        BY <1>8, <2>2 DEF TriggerAlert
      <3>2. /\ shCheck' \in [ShCheck -> ShRecord] /\ shCheck'[c].pc = "creating" /\ shCheck'[c].ok = shCheck[c].ok
            /\ \A b \in ShCheck : b # c => shCheck'[b] = shCheck[b]
        BY <1>0, <3>1, ShGoesFields
      <3>3. shFaults = {} /\ ~shMissed => NewsAt(shCheck[c])'
        BY <1>8, <1>a, <3>1, <3>2 DEF TriggerAlert, NewsAt
      <3> QED
        BY <1>0, <1>8, <3>1, <3>2, <3>3, OneCheck DEF TriggerAlert
    <2> QED
      BY <2>1, <2>2
  <1>9. ASSUME NEW c \in ShCheck, Notify(c) PROVE HealthInv'
    <2>1. /\ shCheck' = [shCheck EXCEPT ![c] = ShRest] /\ shCheck[c].pc = "creating" /\ AlertOf(c) \in Alert
          /\ shNews' = AlertOf(c) /\ shCooldown' = shCooldown \cup {AlertOf(c)}
      BY <1>9 DEF Notify, AlertOf, Alert
    <2>2. shFaults = {} /\ ~shMissed => (shStatus = "failed" <=> AlertOf(c) = "SERVER_OFFLINE")
      BY <1>a, <1>0, <2>1 DEF NewsAt, AlertOf
    <2>3. AlertOf(c) # "none" /\ shCooldown' \subseteq Alert
      BY <1>0, <2>1 DEF AlertOf
    <2> QED
      BY <1>0, <1>9, <1>r, <2>1, <2>2, <2>3, OneCheck DEF Notify, NewsAt
  <1>10. ASSUME NEW a \in Alert, CooldownEnds(a) PROVE HealthInv'
    <2>1. ShTypeOK'
      BY <1>0, <1>10 DEF CooldownEnds, ShTypeOK, ShRecord
    <2> QED
      BY <1>10, <2>1 DEF CooldownEnds, HealthInv, NewsInv, NewsAt, AllAtRest
  <1>11. CASE UNCHANGED shVars
    BY <1>11 DEF shVars, HealthInv, ShTypeOK, NewsInv, NewsAt, AllAtRest
  <1> QED
    BY <1>1, <1>2, <1>3, <1>4, <1>5, <1>6, <1>7, <1>8, <1>9, <1>10, <1>11 DEF ShNext

(* The checks keep their types, and an alert is on cooldown only after a notification. *)
THEOREM HealthTypes == ShSpec => []ShTypeOK
  <1>1. HealthInv => ShTypeOK
    BY DEF HealthInv
  <1> QED
    BY <1>1, HealthInit, HealthStep, PTL DEF ShSpec

(* While no check is under way the last notification says OFFLINE exactly if the row
   says failed, as long as checks do not meet, nothing writes the status past the
   alerts, the process lives and no cooldown has skipped an alert
   (performHealthCheck of vps.service.ts, triggerAlert of alert.service.ts). *)
(* After each check the last message to the owner is the status of the VPS, as long
   as one check runs at a time and no alert falls into its cooldown
   (MonitoringService, AlertService.trigger).                              *)
THEOREM OwnerIsTold == ShSpec => []NewsIsTrue
  <1>1. HealthInv => NewsIsTrue
    BY DEF HealthInv, NewsInv, NewsIsTrue
  <1> QED
    BY <1>1, HealthInit, HealthStep, PTL DEF ShSpec

------------------------------------------------------------------------------
(* CommandRunner.                                                          *)

CrBegun == {"command", "returned", "killing", "finally"}

(* How far the shell is, seen from the run: it is there once the run has started it,
   and over before its channel closes, unless the run has given up on it.  *)
ShellAt ==
  /\ crShell = "none" <=> crChild = "none"
  /\ crRun = "check" => crShell = "none" /\ ~crAsked
  /\ crRun \in CrBegun => crShell # "none"
  /\ crShell = "over" => crChild = "gone"
  /\ crAsked => crShell # "none"
  /\ "lose" \notin crFaults /\ crRun \in {"returned", "killing", "finally", "done"} => crShell \in {"none", "over"}

(* What the run knows of a cancellation that came while its command ran. *)
ToldAt ==
  /\ crRun \in {"check", "command", "returned", "killing"} => crResult = "none"
  /\ crAsked => crKey
  /\ crAsked /\ crRun \in {"killing", "finally"} => IF crResult = "none" THEN crRequested ELSE crResult = "canceled"
  /\ crAsked /\ crRun = "done" => crResult = "canceled"

(* The type invariant, by its parts. *)
CrFlags ==
  /\ crKey \in BOOLEAN /\ crRequested \in BOOLEAN /\ crSent \in BOOLEAN
  /\ crPid \in BOOLEAN /\ crAsked \in BOOLEAN

CrRest ==
  /\ crRun \in {"check", "command", "returned", "killing", "finally", "done"}
  /\ crKill \in {"none", "flying", "killed", "missed"}
  /\ crShell \in {"none", "forked", "waiting", "over"} /\ crChild \in {"none", "runs", "gone"}
  /\ crPid => crShell = "waiting"
  /\ crResult \in {"none", "ended", "canceled", "failed"} /\ crFaults \in CrFaultSets
  /\ crRun = "done" => crResult # "none"
  /\ crRun = "done" /\ "lose" \notin crFaults /\ crChild # "none" => crChild = "gone" /\ crShell = "over"

CrInv == CrTypeOK /\ ShellAt /\ ToldAt

(* A run that has been canceled while its command ran reports it, and unless it has
   lost the connection the command has ended before.                       *)
CancelIsTold ==
  crAsked /\ crRun = "done" => crResult = "canceled" /\ ("lose" \notin crFaults => crChild = "gone")

(* The type invariant is the conjunction of its parts. *)
LEMMA CommandParts == CrTypeOK <=> CrFlags /\ CrRest
  BY DEF CrTypeOK, CrFlags, CrRest

(* In the initial state the run has not looked at the key yet. *)
LEMMA CommandInit == CrInit => CrInv
  BY CrFaultAssumption DEF CrInit, CrInv, CrTypeOK, ShellAt, ToldAt, CrBegun

(* Every step keeps what the run and the VPS know of each other. *)
LEMMA CommandStep == CrInv /\ [CrNext]_crVars => CrInv'
  <1> SUFFICES ASSUME CrFlags, CrRest, ShellAt, ToldAt, [CrNext]_crVars
               PROVE  CrFlags' /\ CrRest' /\ ShellAt' /\ ToldAt'
    BY CommandParts DEF CrInv, CrTypeOK, CrFlags, CrRest
  <1>1. CASE CrCancel
    <2>1. CrFlags'
      BY <1>1 DEF CrCancel, CrFlags
    <2>2. CrRest'
      BY <1>1 DEF CrCancel, CrRest, ShellAt, ToldAt, CrBegun
    <2>3. ShellAt'
      BY <1>1 DEF CrCancel, CrRest, ShellAt, CrBegun
    <2>4. ToldAt'
      BY <1>1 DEF CrCancel, CrRest, ToldAt
    <2> QED
      BY <2>1, <2>2, <2>3, <2>4
  <1>2. CASE CrStart
    <2>1. CrFlags'
      BY <1>2 DEF CrStart, CrFlags
    <2>2. CrRest'
      BY <1>2 DEF CrStart, CrRest, ShellAt, ToldAt, CrBegun
    <2>3. ShellAt'
      BY <1>2 DEF CrStart, CrRest, ShellAt, CrBegun
    <2>4. ToldAt'
      BY <1>2 DEF CrStart, CrRest, ToldAt
    <2> QED
      BY <2>1, <2>2, <2>3, <2>4
  <1>3. CASE CrWritePid
    <2>1. CrFlags'
      BY <1>3 DEF CrWritePid, CrFlags
    <2>2. CrRest'
      BY <1>3 DEF CrWritePid, CrRest, ShellAt, ToldAt, CrBegun
    <2>3. ShellAt'
      BY <1>3 DEF CrWritePid, CrRest, ShellAt, CrBegun
    <2>4. ToldAt'
      BY <1>3 DEF CrWritePid, CrRest, ToldAt
    <2> QED
      BY <2>1, <2>2, <2>3, <2>4
  <1>4. CASE CrWaited
    <2>1. CrFlags'
      BY <1>4 DEF CrWaited, CrFlags
    <2>2. CrRest'
      BY <1>4 DEF CrWaited, CrRest, ShellAt, ToldAt, CrBegun
    <2>3. ShellAt'
      BY <1>4 DEF CrWaited, CrRest, ShellAt, CrBegun
    <2>4. ToldAt'
      BY <1>4 DEF CrWaited, CrRest, ToldAt
    <2> QED
      BY <2>1, <2>2, <2>3, <2>4
  <1>5. CASE CrEnds
    <2>1. CrFlags'
      BY <1>5 DEF CrEnds, CrFlags
    <2>2. CrRest'
      BY <1>5 DEF CrEnds, CrRest, ShellAt, ToldAt, CrBegun
    <2>3. ShellAt'
      BY <1>5 DEF CrEnds, CrRest, ShellAt, CrBegun
    <2>4. ToldAt'
      BY <1>5 DEF CrEnds, CrRest, ToldAt
    <2> QED
      BY <2>1, <2>2, <2>3, <2>4
  <1>6. CASE CrPoll
    <2>1. CrFlags'
      BY <1>6 DEF CrPoll, AsksToKill, CrFlags
    <2>2. CrRest'
      BY <1>6 DEF CrPoll, AsksToKill, CrRest, ShellAt, ToldAt, CrBegun
    <2>3. ShellAt'
      BY <1>6 DEF CrPoll, AsksToKill, CrRest, ShellAt, CrBegun
    <2>4. ToldAt'
      BY <1>6 DEF CrPoll, AsksToKill, CrRest, ToldAt
    <2> QED
      BY <2>1, <2>2, <2>3, <2>4
  <1>7. CASE CrKilled
    <2>1. CrFlags'
      BY <1>7 DEF CrKilled, CrFlags
    <2>2. CrRest'
      BY <1>7 DEF CrKilled, CrRest, ShellAt, ToldAt, CrBegun
    <2>3. ShellAt'
      BY <1>7 DEF CrKilled, CrRest, ShellAt, CrBegun
    <2>4. ToldAt'
      BY <1>7 DEF CrKilled, CrRest, ToldAt
    <2> QED
      BY <2>1, <2>2, <2>3, <2>4
  <1>8. CASE CrKillReturns
    <2>1. CrFlags'
      BY <1>8 DEF CrKillReturns, CrFlags
    <2>2. CrRest'
      BY <1>8 DEF CrKillReturns, CrRest, ShellAt, ToldAt, CrBegun
    <2>3. ShellAt'
      BY <1>8 DEF CrKillReturns, CrRest, ShellAt, CrBegun
    <2>4. ToldAt'
      BY <1>8 DEF CrKillReturns, CrRest, ToldAt
    <2> QED
      BY <2>1, <2>2, <2>3, <2>4
  <1>9. CASE CrReturns
    <2>1. CrFlags'
      BY <1>9 DEF CrReturns, CrFlags
    <2>2. CrRest'
      BY <1>9 DEF CrReturns, CrRest, ShellAt, ToldAt, CrBegun
    <2>3. ShellAt'
      BY <1>9 DEF CrReturns, CrRest, ShellAt, CrBegun
    <2>4. ToldAt'
      BY <1>9 DEF CrReturns, CrRest, ToldAt
    <2> QED
      BY <2>1, <2>2, <2>3, <2>4
  <1>10. CASE CrLost
    <2>1. CrFlags'
      BY <1>10 DEF CrLost, CrFlags
    <2>2. CrRest'
      BY <1>10 DEF CrLost, CrRest, ShellAt, ToldAt, CrBegun
    <2>3. ShellAt'
      BY <1>10 DEF CrLost, CrRest, ShellAt, CrBegun
    <2>4. ToldAt'
      BY <1>10 DEF CrLost, CrRest, ToldAt
    <2> QED
      BY <2>1, <2>2, <2>3, <2>4
  <1>11. CASE CrLastLook
    <2>1. CrFlags'
      BY <1>11 DEF CrLastLook, AsksToKill, CrFlags
    <2>2. CrRest'
      BY <1>11 DEF CrLastLook, AsksToKill, CrRest, ShellAt, ToldAt, CrBegun
    <2>3. ShellAt'
      BY <1>11 DEF CrLastLook, AsksToKill, CrRest, ShellAt, CrBegun
    <2>4. ToldAt'
      BY <1>11 DEF CrLastLook, AsksToKill, CrRest, ToldAt
    <2> QED
      BY <2>1, <2>2, <2>3, <2>4
  <1>12. CASE CrFinally
    <2>1. CrFlags'
      BY <1>12 DEF CrFinally, CrFlags
    <2>2. CrRest'
      BY <1>12 DEF CrFinally, CrRest, ShellAt, ToldAt, CrBegun
    <2>3. ShellAt'
      BY <1>12 DEF CrFinally, CrRest, ShellAt, CrBegun
    <2>4. ToldAt'
      BY <1>12 DEF CrFinally, CrRest, ToldAt
    <2> QED
      BY <2>1, <2>2, <2>3, <2>4
  <1>13. CASE UNCHANGED crVars
    BY <1>13 DEF crVars, CrFlags, CrRest, ShellAt, ToldAt, CrBegun
  <1> QED
    BY <1>1, <1>2, <1>3, <1>4, <1>5, <1>6, <1>7, <1>8, <1>9, <1>10, <1>11, <1>12, <1>13
      DEF CrNext, CrOnVps, CrKilling, CrGoesOn

(* The invariant holds always. *)
THEOREM CommandInvariant == CrSpec => []CrInv
  BY CommandInit, CommandStep, PTL DEF CrSpec

(* The types of a run, of the shell on the VPS and of the command that kills it
   (runCommand of deployment/runner.ts).                                   *)
THEOREM CommandTypes == CrSpec => []CrTypeOK
  <1>1. CrInv => CrTypeOK
    BY DEF CrInv
  <1> QED
    BY <1>1, CommandInvariant, PTL

(* A run that is canceled while its command runs reports the cancellation, never the
   end of the command, and unless the connection was lost the command has ended by then
   (runCommand of deployment/runner.ts).                                   *)
THEOREM CancellationIsTold == CrSpec => []CancelIsTold
  <1>1. CrInv => CancelIsTold
    BY DEF CrInv, CrTypeOK, ShellAt, ToldAt, CancelIsTold
  <1> QED
    BY <1>1, CommandInvariant, PTL

------------------------------------------------------------------------------
(* TerminalSession.                                                        *)

(* Unless an update of the row fails or the process dies, a row says ACTIVE only while
   its session has not been cleaned up: no session that is over is listed.  *)
RowIsOurs ==
  tmFaults \cap {"row", "die"} = {} =>
    \A t \in Terminal : tmRow[t] = "ACTIVE" => tmPc[t] \in {"shell", "open", "closing"}

TmInv == TmTypeOK /\ RowIsOurs

(* In the initial state there is no session and no row. *)
LEMMA TerminalInit == TmInit => TmInv
  BY TmFaultAssumption DEF TmInit, TmInv, TmTypeOK, RowIsOurs, Opening

(* Every step keeps the connections in use and the rows. *)
LEMMA TerminalStep == TmInv /\ [TmNext]_tmVars => TmInv'
  <1> SUFFICES ASSUME TmInv, [TmNext]_tmVars PROVE TmInv'
    OBVIOUS
  <1> DEFINE TmPcType == Opening \cup {"new", "open", "closing", "ended"}
             TmSocketType == {"none", "open", "lost", "closed"}
             TmRowType == {"none", "ACTIVE", "CLOSED", "FAILED"}
  <1>0. /\ tmPc \in [Terminal -> TmPcType] /\ tmSocket \in [Terminal -> TmSocketType]
        /\ tmRow \in [Terminal -> TmRowType] /\ tmAlive \in [Terminal -> BOOLEAN]
        /\ tmEnds \in [Terminal -> {"CLOSED", "FAILED"}] /\ tmVps \in BOOLEAN /\ tmFaults \in TmFaultSets
        /\ \A t \in Terminal : t \in tmSsh <=> tmPc[t] \in {"recording", "shell", "open"}
        /\ tmSsh \subseteq Terminal
    BY DEF TmInv, TmTypeOK
  <1>o. tmFaults \cap {"row", "die"} = {} =>
          \A t \in Terminal : tmRow[t] = "ACTIVE" => tmPc[t] \in {"shell", "open", "closing"}
    BY DEF TmInv, RowIsOurs
  <1>t. ASSUME tmPc' \in [Terminal -> TmPcType], tmSocket' \in [Terminal -> TmSocketType],
               tmRow' \in [Terminal -> TmRowType], tmAlive' \in [Terminal -> BOOLEAN],
               tmEnds' \in [Terminal -> {"CLOSED", "FAILED"}], tmVps' \in BOOLEAN, UNCHANGED tmFaults,
               tmSsh' \subseteq Terminal,
               \A t \in Terminal : t \in tmSsh' <=> tmPc'[t] \in {"recording", "shell", "open"},
               tmFaults \cap {"row", "die"} = {} =>
                 \A t \in Terminal : tmRow'[t] = "ACTIVE" => tmPc'[t] \in {"shell", "open", "closing"}
        PROVE  TmInv'
    <2>1. tmSsh' = {t \in Terminal : tmPc'[t] \in {"recording", "shell", "open"}}
      BY <1>t
    <2>2. TmTypeOK'
      BY <1>0, <1>t, <2>1 DEF TmTypeOK
    <2> QED
      BY <1>t, <2>2 DEF TmInv, RowIsOurs
  <1>h. \A t \in Terminal : Hangs(t) \in [Terminal -> TmSocketType]
    BY <1>0 DEF Hangs
  (* A session that is cleaned up. *)
  <1>c. ASSUME NEW t \in Terminal, NEW s \in {"CLOSED", "FAILED"}, Cleanup(t, s),
               tmPc[t] # "ended", tmSocket' \in [Terminal -> TmSocketType],
               UNCHANGED <<tmRow, tmVps, tmFaults>>, tmAlive' \in [Terminal -> BOOLEAN],
               tmRow[t] = "ACTIVE" /\ tmFaults \cap {"row", "die"} = {} => tmPc[t] \in {"shell", "open"}
        PROVE  TmInv'
    <2>1. /\ tmPc' = [tmPc EXCEPT ![t] = "closing"] /\ tmPc' \in [Terminal -> TmPcType]
          /\ tmEnds' \in [Terminal -> {"CLOSED", "FAILED"}] /\ tmSsh' = tmSsh \ {t}
      BY <1>0, <1>c DEF Cleanup, TmGoes
    <2>2. \A u \in Terminal : u \in tmSsh' <=> tmPc'[u] \in {"recording", "shell", "open"}
      BY <1>0, <2>1
    <2>3. tmFaults \cap {"row", "die"} = {} =>
            \A u \in Terminal : tmRow'[u] = "ACTIVE" => tmPc'[u] \in {"shell", "open", "closing"}
      BY <1>0, <1>o, <1>c, <2>1
    <2> QED
      BY <1>0, <1>c, <1>t, <2>1, <2>2, <2>3
  <1>1. CASE RemoveVps
    BY <1>0, <1>o, <1>1, <1>t DEF RemoveVps
  <1>2. CASE TmDie
    BY <1>0, <1>2, <1>t DEF TmDie
  <1>3. ASSUME NEW t \in Terminal, TmOpen(t) PROVE TmInv'
    BY <1>0, <1>o, <1>3, <1>t DEF TmOpen, TmGoes, Opening
  <1>f. ASSUME NEW t \in Terminal, OpeningFails(t), tmPc[t] \in Opening PROVE TmInv'
    <2>1. /\ Cleanup(t, "FAILED") /\ tmSocket' = Hangs(t) /\ UNCHANGED <<tmRow, tmAlive, tmVps, tmFaults>>
      BY <1>f DEF OpeningFails
    <2>2. tmPc[t] # "ended" /\ (tmRow[t] = "ACTIVE" /\ tmFaults \cap {"row", "die"} = {} => tmPc[t] \in {"shell", "open"})
      BY <1>f, <1>o DEF Opening
    <2> QED
      BY <1>0, <1>h, <1>c, <2>1, <2>2
  <1>4. ASSUME NEW t \in Terminal, TmConnect(t) PROVE TmInv'
    <2>1. CASE /\ TmGoes(t, "recording") /\ tmSsh' = tmSsh \cup {t}
               /\ UNCHANGED <<tmSocket, tmRow, tmAlive, tmEnds, tmVps, tmFaults>>
      BY <1>0, <1>o, <1>4, <1>t, <2>1 DEF TmConnect, TmGoes, Opening
    <2> QED
      BY <1>4, <1>f, <2>1 DEF TmConnect, Opening
  <1>5. ASSUME NEW t \in Terminal, TmRecord(t) PROVE TmInv'
    <2>1. CASE /\ TmGoes(t, "shell") /\ tmRow' = [tmRow EXCEPT ![t] = "ACTIVE"]
               /\ UNCHANGED <<tmSocket, tmSsh, tmAlive, tmEnds, tmVps, tmFaults>>
      BY <1>0, <1>o, <1>5, <1>t, <2>1 DEF TmRecord, TmGoes, Opening
    <2> QED
      BY <1>5, <1>f, <2>1 DEF TmRecord, Opening
  <1>6. ASSUME NEW t \in Terminal, TmShell(t) PROVE TmInv'
    <2>1. CASE /\ TmGoes(t, "open") /\ tmAlive' = [tmAlive EXCEPT ![t] = TRUE]
               /\ UNCHANGED <<tmSocket, tmSsh, tmRow, tmEnds, tmVps, tmFaults>>
      BY <1>0, <1>o, <1>6, <1>t, <2>1 DEF TmShell, TmGoes, Opening
    <2> QED
      BY <1>6, <1>f, <2>1 DEF TmShell, Opening
  <1>7. ASSUME NEW t \in Terminal, Beat(t) PROVE TmInv'
    <2>1. CASE /\ tmAlive' = [tmAlive EXCEPT ![t] = FALSE]
               /\ UNCHANGED <<tmPc, tmSocket, tmSsh, tmEnds, tmRow, tmVps, tmFaults>>
      BY <1>0, <1>o, <1>t, <2>1
    <2>2. CASE Cleanup(t, "CLOSED") /\ tmSocket' = Hangs(t) /\ UNCHANGED tmAlive
      BY <1>0, <1>h, <1>7, <1>c, <2>2 DEF Beat
    <2> QED
      BY <1>7, <2>1, <2>2 DEF Beat
  <1>8. ASSUME NEW t \in Terminal, TmSettle(t) PROVE TmInv'
    <2>1. /\ tmPc[t] = "closing" /\ tmPc' = [tmPc EXCEPT ![t] = "ended"]
          /\ UNCHANGED <<tmSocket, tmSsh, tmAlive, tmEnds, tmVps, tmFaults>>
      BY <1>8 DEF TmSettle, TmGoes
    <2>2. CASE tmRow' = [tmRow EXCEPT ![t] = IF @ = "ACTIVE" THEN tmEnds[t] ELSE @]
      BY <1>0, <1>o, <1>t, <2>1, <2>2 DEF Opening
    <2>3. CASE "row" \in tmFaults /\ UNCHANGED tmRow
      BY <1>0, <1>t, <2>1, <2>3 DEF Opening
    <2> QED
      BY <1>8, <2>2, <2>3 DEF TmSettle
  <1>9. ASSUME NEW t \in Terminal, Pong(t) PROVE TmInv'
    BY <1>0, <1>o, <1>9, <1>t DEF Pong
  <1>10. ASSUME NEW t \in Terminal, Hangup(t) PROVE TmInv'
    <2>1. tmSocket' \in [Terminal -> TmSocketType] /\ UNCHANGED <<tmRow, tmAlive, tmVps, tmFaults>>
      BY <1>0, <1>10 DEF Hangup
    <2>2. CASE tmPc[t] = "open" /\ Cleanup(t, "CLOSED")
      BY <1>0, <1>c, <2>1, <2>2
    <2>3. CASE UNCHANGED <<tmPc, tmSsh, tmEnds>>
      BY <1>0, <1>o, <1>t, <2>1, <2>3
    <2> QED
      BY <1>10, <2>2, <2>3 DEF Hangup
  <1>11. ASSUME NEW t \in Terminal, ClientLost(t) PROVE TmInv'
    BY <1>0, <1>o, <1>11, <1>t DEF ClientLost
  <1>12. ASSUME NEW t \in Terminal, ShellEnds(t) PROVE TmInv'
    BY <1>0, <1>h, <1>c, <1>12 DEF ShellEnds
  <1>13. CASE UNCHANGED tmVars
    BY <1>13 DEF tmVars, TmInv, TmTypeOK, RowIsOurs
  <1> QED
    BY <1>1, <1>2, <1>3, <1>4, <1>5, <1>6, <1>7, <1>8, <1>9, <1>10, <1>11, <1>12, <1>13 DEF TmNext, TmProceed

(* The invariant holds always. *)
THEOREM TerminalInvariant == TmSpec => []TmInv
  BY TerminalInit, TerminalStep, PTL DEF TmSpec

(* A connection is in use exactly while its session has not been cleaned up, also if
   the socket was closed before anybody listened (TerminalService.cleanup). *)
THEOREM TerminalTypes == TmSpec => []TmTypeOK
  <1>1. TmInv => TmTypeOK
    BY DEF TmInv
  <1> QED
    BY <1>1, TerminalInvariant, PTL

(* No session that is over is listed as ACTIVE, unless the update of its row failed
   or the process died (TerminalService.cleanup).                          *)
THEOREM SessionsAreListed == TmSpec => []RowIsOurs
  <1>1. TmInv => RowIsOurs
    BY DEF TmInv
  <1> QED
    BY <1>1, TerminalInvariant, PTL
==============================================================================
