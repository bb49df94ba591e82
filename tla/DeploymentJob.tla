---------------------------- MODULE DeploymentJob ----------------------------
(***************************************************************************)
(* The queue jobs of one deployment: how the worker takes a job, waits for *)
(* the slots of the project and the VPS, executes it, stops it at the      *)
(* preflight gate, retries it and settles it (deployment.worker.ts), next  *)
(* to the API calls that deploy, cancel, approve and retry it              *)
(* (enqueue.service.ts, lifecycle.service.ts).                             *)
(*                                                                         *)
(* Five stores describe the same deployment and change one await at a time:*)
(* its status, the DeploymentJob row of each job, the job's place in the   *)
(* queue, the cancellation key in Redis and the capacity reservation.  The *)
(* statuses CLONING to DEPLOYING differ for the user only: BUILDING stands *)
(* for all of them.  Deployments are in production mode and have asked for *)
(* a resource tier.  What the run does on the VPS is ReleaseActivation.    *)
(***************************************************************************)
EXTENDS Integers, FiniteSets

CONSTANTS
  MaxJobs,      \* bound: queue jobs ever added for the deployment, in this order
  Caller,       \* API calls under way at the same time
  MaxAttempts,  \* attempts of a job (utils/queue.ts)
  MaxBusy,      \* bound: how often other deployments hold a slot a job wants
  FaultSets     \* each behaviour admits one of these subsets of JobFault

(* crash:   a worker process dies; BullMQ hands a job out once more.
   overlap: the steps of API calls and of runs come between each other; without
            it an API call is over at once and finds no run between its outcome
            and its end.                                                     *)
JobFault == {"crash", "overlap"}

QueueJob == 1..MaxJobs
NoJob == 0

ASSUME JobBounds == MaxJobs \in Nat /\ MaxAttempts \in Nat \ {0} /\ MaxBusy \in Nat
ASSUME FaultSetsAssumption == FaultSets \subseteq SUBSET JobFault

VARIABLES
  dstatus,    \* Deployment.status
  djob,       \* each queue job: where it is and what it remembers
  drecord,    \* DeploymentJob.status of each queue job
  dlatest,    \* the DeploymentJob created last
  dcancel,    \* the cancellation key is set
  dreserved,  \* the CapacityReservation is RESERVED
  daccepted,  \* Deployment.preflightWarningsAccepted
  dchecks,    \* the worst of the stored preflight checks
  drelease,   \* the status of the run's release
  dslots,     \* the job that holds the locks of the project and the VPS
  dcall,      \* each API call
  dbusy,      \* how often other deployments have held a slot
  dfaults

jobVars == <<dstatus, djob, drecord, dlatest, dcancel, dreserved, daccepted,
             dchecks, drelease, dslots, dcall, dbusy, dfaults>>

DeploymentStatus == {"NONE", "PENDING", "BUILDING", "AWAITING_PREFLIGHT", "PREFLIGHT_BLOCKED",
                     "RUNNING", "FAILED", "CANCELING", "CANCELED"}
RecordStatus == {"none", "QUEUED", "RUNNING", "WAITING_APPROVAL", "BLOCKED",
                 "SUCCESS", "FAILED", "CANCELED"}

(* The awaits of a run, in the order of the code. *)
Executing == {"start", "build", "checks", "begin", "deploy", "verify",
              "activate", "final"}
Settling  == {"undo", "unlock", "handle", "handle2", "succeed", "finally"}
Active    == {"slots"} \cup Executing \cup Settling
Step      == {"none", "waiting", "gone"} \cup Active

JobType == [pc : Step,
            err : {"none", "final", "transient", "busy", "cancel", "warning", "blocked"},
            tries : 0..MaxAttempts, stalls : 0..1,
            accepted : BOOLEAN,   \* the acceptance of warnings it has read
            begun : BOOLEAN]      \* it has begun a release and not activated it

CallStep == {"idle", "reserve", "pend", "add", "remove", "tx", "key", "mark"}
CallType == [op : {"none", "deploy", "approve", "retry", "cancel"}, pc : CallStep,
             job : QueueJob \cup {NoJob}]

Idle == [op |-> "none", pc |-> "idle", job |-> NoJob]

JobTypeOK ==
  /\ dstatus \in DeploymentStatus
  /\ djob \in [QueueJob -> JobType]
  /\ drecord \in [QueueJob -> RecordStatus]
  /\ {dlatest, dslots} \subseteq QueueJob \cup {NoJob}
  /\ {dcancel, dreserved, daccepted} \subseteq BOOLEAN
  /\ dchecks \in {"none", "PASS", "WARNING", "BLOCKED"}
  /\ drelease \in {"none", "CANDIDATE", "ACTIVATING", "ACTIVE", "FAILED"}
  /\ dcall \in [Caller -> CallType] /\ dbusy \in 0..MaxBusy
  /\ dfaults \subseteq JobFault

JobInit ==
  /\ dstatus = "NONE"
  /\ djob = [j \in QueueJob |-> [pc |-> "none", err |-> "none", tries |-> 0, stalls |-> 0,
                                 accepted |-> FALSE, begun |-> FALSE]]
  /\ drecord = [j \in QueueJob |-> "none"]
  /\ dlatest = NoJob /\ dslots = NoJob
  /\ dcancel = FALSE /\ dreserved = FALSE /\ daccepted = FALSE
  /\ dchecks = "none" /\ drelease = "none"
  /\ dcall = [c \in Caller |-> Idle] /\ dbusy = 0
  /\ dfaults \in FaultSets

------------------------------------------------------------------------------
(* The worker.                                                             *)

JobAt(j, pc) == djob[j].pc = pc

JobGoto(j, pc) == djob' = [djob EXCEPT ![j].pc = pc]

(* Throw e: the handler of executeDeployment comes next, or that of the
   worker when the error is thrown outside the try block.                  *)
Throw(j, e, handler) == djob' = [djob EXCEPT ![j].pc = handler, ![j].err = e]

Calling == \E c \in Caller : dcall[c].pc # "idle"

Uninterrupted == "overlap" \in dfaults \/ ~Calling

(* setStatus writes nothing over a cancellation and throws instead. *)
SetStatus(j, next) ==
  IF dstatus \in {"CANCELING", "CANCELED"}
    THEN Throw(j, "cancel", "undo") /\ UNCHANGED dstatus
    ELSE dstatus' = "BUILDING" /\ JobGoto(j, next)

(* The worker takes the job: the record is created RUNNING, an existing one
   keeps its status.                                                       *)
PickUp(j) ==
  /\ JobAt(j, "waiting")
  /\ JobGoto(j, "slots")
  /\ drecord' = [drecord EXCEPT ![j] = IF @ = "none" THEN "RUNNING" ELSE @]
  /\ dlatest' = IF drecord[j] = "none" THEN j ELSE dlatest
  /\ UNCHANGED <<dstatus, dcancel, dreserved, daccepted, dchecks, drelease, dslots, dcall, dbusy, dfaults>>

Acquire(j) ==
  /\ JobAt(j, "slots") /\ dslots = NoJob
  /\ dslots' = j
  /\ drecord' = [drecord EXCEPT ![j] = "RUNNING"]
  /\ JobGoto(j, "start")
  /\ UNCHANGED <<dstatus, dlatest, dcancel, dreserved, daccepted, dchecks, drelease, dcall, dbusy, dfaults>>

(* A slot is held by another job of the deployment or, MaxBusy times, by
   another deployment.                                                     *)
SlotBusy(j) ==
  /\ JobAt(j, "slots")
  /\ Throw(j, "busy", "handle")
  /\ IF dslots # NoJob THEN UNCHANGED dbusy ELSE dbusy < MaxBusy /\ dbusy' = dbusy + 1
  /\ UNCHANGED <<dstatus, drecord, dlatest, dcancel, dreserved, daccepted, dchecks, drelease, dslots, dcall, dfaults>>

(* The GitHub account is gone: an error outside executeDeployment's try. *)
SourceMissing(j) ==
  /\ JobAt(j, "start")
  /\ Throw(j, "final", "handle")
  /\ dslots' = NoJob
  /\ UNCHANGED <<dstatus, drecord, dlatest, dcancel, dreserved, daccepted, dchecks, drelease, dcall, dbusy, dfaults>>

Start(j) ==
  /\ JobAt(j, "start")
  /\ IF dstatus \in {"CANCELING", "CANCELED"}
       THEN Throw(j, "cancel", "undo") /\ UNCHANGED dstatus
       ELSE /\ dstatus' = "BUILDING"
            /\ djob' = [djob EXCEPT ![j].pc = "build", ![j].accepted = daccepted]
  /\ UNCHANGED <<drecord, dlatest, dcancel, dreserved, daccepted, dchecks, drelease, dslots, dcall, dbusy, dfaults>>

(* Settle a release that an interrupted run has left (reconcileProject), fetch
   the source, detect the project, reserve for the detected tier and enter the
   preflight.                                                              *)
Build(j) ==
  /\ JobAt(j, "build") /\ ~dcancel
  /\ drelease' \in CASE drelease = "CANDIDATE"  -> {"FAILED"}
                     [] drelease = "ACTIVATING" -> {"FAILED", "ACTIVE"}
                     [] OTHER                   -> {drelease}
  /\ dreserved' = TRUE
  /\ SetStatus(j, "checks")
  /\ UNCHANGED <<drecord, dlatest, dcancel, daccepted, dchecks, dslots, dcall, dbusy, dfaults>>

BeginRelease(j) ==
  /\ JobAt(j, "begin")
  /\ IF dstatus \in {"CANCELING", "CANCELED"}
       THEN Throw(j, "cancel", "undo") /\ UNCHANGED <<dstatus, drelease>>
       ELSE /\ dstatus' = "BUILDING"
            /\ drelease' = "CANDIDATE"
            /\ djob' = [djob EXCEPT ![j].pc = "deploy", ![j].begun = TRUE]
  /\ UNCHANGED <<drecord, dlatest, dcancel, dreserved, daccepted, dchecks, dslots, dcall, dbusy, dfaults>>

Deploy(j) ==
  /\ JobAt(j, "deploy")
  /\ SetStatus(j, "verify")
  /\ UNCHANGED <<drecord, dlatest, dcancel, dreserved, daccepted, dchecks, drelease, dslots, dcall, dbusy, dfaults>>

(* Mutant: warnings pass the gate although nobody has accepted them. *)
MutGate(worst, accepted) == IF worst = "BLOCKED" THEN "blocked" ELSE "none"

Gate(worst, accepted) ==
  IF worst = "BLOCKED" THEN "blocked"
  ELSE IF worst = "WARNING" /\ ~accepted THEN "warning" ELSE "none"

Preflight(j) ==
  /\ JobAt(j, "checks")
  /\ \E worst \in {"PASS", "WARNING", "BLOCKED"} :
       /\ dchecks' = worst
       /\ LET e == Gate(worst, djob[j].accepted) IN
            IF e = "none" THEN JobGoto(j, "begin") ELSE Throw(j, e, "undo")
  /\ UNCHANGED <<dstatus, drecord, dlatest, dcancel, dreserved, daccepted, drelease, dslots, dcall, dbusy, dfaults>>

(* assertNotCancelled before the runtime is recorded and traffic activated. *)
Verify(j) ==
  /\ JobAt(j, "verify") /\ ~dcancel
  /\ drelease' = "ACTIVATING"
  /\ JobGoto(j, "activate")
  /\ UNCHANGED <<dstatus, drecord, dlatest, dcancel, dreserved, daccepted, dchecks, dslots, dcall, dbusy, dfaults>>

Activate(j) ==
  /\ JobAt(j, "activate")
  /\ drelease' = "ACTIVE"
  /\ djob' = [djob EXCEPT ![j].pc = "final", ![j].begun = FALSE]
  /\ UNCHANGED <<dstatus, drecord, dlatest, dcancel, dreserved, daccepted, dchecks, dslots, dcall, dbusy, dfaults>>

(* After the final assertNotCancelled; the locks are given back. *)
GoLive(j) ==
  /\ JobAt(j, "final") /\ ~dcancel
  /\ dstatus' = "RUNNING"
  /\ dslots' = NoJob
  /\ JobGoto(j, "succeed")
  /\ UNCHANGED <<drecord, dlatest, dcancel, dreserved, daccepted, dchecks, drelease, dcall, dbusy, dfaults>>

(* A command, a check or an activation fails; runCommand and assertNotCancelled
   turn a cancellation key into a cancellation.                            *)
Fail(j) ==
  /\ djob[j].pc \in {"build", "checks", "deploy", "verify", "activate", "final"}
  /\ \E e \in {"final", "transient"} \cup (IF dcancel THEN {"cancel"} ELSE {}) : Throw(j, e, "undo")
  /\ UNCHANGED <<dstatus, drecord, dlatest, dcancel, dreserved, daccepted, dchecks, drelease, dslots, dcall, dbusy, dfaults>>

Outcome(e) ==
  CASE e = "warning" -> "AWAITING_PREFLIGHT"
    [] e = "blocked" -> "PREFLIGHT_BLOCKED"
    [] e = "cancel"  -> "CANCELED"
    [] OTHER         -> "FAILED"

(* The catch block of executeDeployment. *)
Undo(j) ==
  /\ JobAt(j, "undo")
  /\ dstatus' = Outcome(djob[j].err)
  /\ drelease' = IF djob[j].begun THEN "FAILED" ELSE drelease
  /\ djob' = [djob EXCEPT ![j].pc = "unlock", ![j].begun = FALSE]
  /\ UNCHANGED <<drecord, dlatest, dcancel, dreserved, daccepted, dchecks, dslots, dcall, dbusy, dfaults>>

(* The deployment may be approved or tried again before the locks are free. *)
Unlock(j) ==
  /\ JobAt(j, "unlock")
  /\ dslots' = NoJob
  /\ JobGoto(j, "handle")
  /\ UNCHANGED <<dstatus, drecord, dlatest, dcancel, dreserved, daccepted, dchecks, drelease, dcall, dbusy, dfaults>>

ShouldRetry(j) == djob[j].err = "transient" /\ djob[j].tries + 1 < MaxAttempts

(* The job comes back, so its reservation is kept. *)
Retained(j) == djob[j].err = "busy" \/ ShouldRetry(j)

SettledRecord(j) ==
  CASE djob[j].err = "cancel"  -> "CANCELED"
    [] djob[j].err = "warning" -> "WAITING_APPROVAL"
    [] djob[j].err = "blocked" -> "BLOCKED"
    [] Retained(j)             -> "QUEUED"
    [] OTHER                   -> "FAILED"

(* The worker's catch block: a cancellation, a gate and a busy slot write the
   record first and the status afterwards (a gate only the record, the status
   is written already), an error the other way round.                      *)
RecordFirst(j) == djob[j].err \in {"cancel", "warning", "blocked", "busy"}

WriteRecord(j) == drecord' = [drecord EXCEPT ![j] = SettledRecord(j)]

WriteStatus(j) ==
  /\ dstatus' = CASE djob[j].err = "cancel" -> "CANCELED"
                  [] Retained(j) -> "PENDING"
                  [] OTHER -> "FAILED"
  /\ dcancel' = (dcancel /\ djob[j].err # "cancel")

Handle(j) ==
  /\ JobAt(j, "handle")
  /\ IF RecordFirst(j)
       THEN WriteRecord(j) /\ UNCHANGED <<dstatus, dcancel>>
       ELSE WriteStatus(j) /\ UNCHANGED drecord
  /\ JobGoto(j, IF djob[j].err \in {"warning", "blocked"} THEN "finally" ELSE "handle2")
  /\ UNCHANGED <<dlatest, dreserved, daccepted, dchecks, drelease, dslots, dcall, dbusy, dfaults>>

Handle2(j) ==
  /\ JobAt(j, "handle2")
  /\ IF RecordFirst(j)
       THEN WriteStatus(j) /\ UNCHANGED drecord
       ELSE WriteRecord(j) /\ UNCHANGED <<dstatus, dcancel>>
  /\ JobGoto(j, "finally")
  /\ UNCHANGED <<dlatest, dreserved, daccepted, dchecks, drelease, dslots, dcall, dbusy, dfaults>>

Succeed(j) ==
  /\ JobAt(j, "succeed")
  /\ drecord' = [drecord EXCEPT ![j] = "SUCCESS"]
  /\ dcancel' = FALSE
  /\ JobGoto(j, "finally")
  /\ UNCHANGED <<dstatus, dlatest, dreserved, daccepted, dchecks, drelease, dslots, dcall, dbusy, dfaults>>

(* Mutant: the reservation is given back on success only. *)
MutFinallyLeaks(j) ==
  /\ JobAt(j, "finally")
  /\ dreserved' = (dreserved /\ djob[j].err # "none")
  /\ djob' = [djob EXCEPT ![j].pc = IF Retained(j) THEN "waiting" ELSE "gone",
                          ![j].tries = IF ShouldRetry(j) THEN @ + 1 ELSE @,
                          ![j].err = "none", ![j].accepted = FALSE]
  /\ UNCHANGED <<dstatus, drecord, dlatest, dcancel, daccepted, dchecks, drelease, dslots, dcall, dbusy, dfaults>>

(* Mutant: a job that found its slot busy is dropped from the queue. *)
MutFinallyDrops(j) ==
  /\ JobAt(j, "finally")
  /\ dreserved' = (dreserved /\ Retained(j))
  /\ djob' = [djob EXCEPT ![j].pc = IF ShouldRetry(j) THEN "waiting" ELSE "gone",
                          ![j].tries = IF ShouldRetry(j) THEN @ + 1 ELSE @,
                          ![j].err = "none", ![j].accepted = FALSE]
  /\ UNCHANGED <<dstatus, drecord, dlatest, dcancel, daccepted, dchecks, drelease, dslots, dcall, dbusy, dfaults>>

(* Mutant: a retry does not count as an attempt. *)
MutFinallyForgets(j) ==
  /\ JobAt(j, "finally")
  /\ dreserved' = (dreserved /\ Retained(j))
  /\ djob' = [djob EXCEPT ![j].pc = IF Retained(j) THEN "waiting" ELSE "gone",
                          ![j].tries = @,
                          ![j].err = "none", ![j].accepted = FALSE]
  /\ UNCHANGED <<dstatus, drecord, dlatest, dcancel, daccepted, dchecks, drelease, dslots, dcall, dbusy, dfaults>>

(* The finally block, then BullMQ delays the job or is done with it. *)
Finally(j) ==
  /\ JobAt(j, "finally")
  /\ dreserved' = (dreserved /\ Retained(j))
  /\ djob' = [djob EXCEPT ![j].pc = IF Retained(j) THEN "waiting" ELSE "gone",
                          ![j].tries = IF ShouldRetry(j) THEN @ + 1 ELSE @,
                          ![j].err = "none", ![j].accepted = FALSE]
  /\ UNCHANGED <<dstatus, drecord, dlatest, dcancel, daccepted, dchecks, drelease, dslots, dcall, dbusy, dfaults>>

NobodyDied == \A j \in QueueJob : djob[j].stalls = 0

(* The worker dies: its locks run out, and the job is handed out once more.
   (Bound: once in a behaviour; a job that stalls twice is failed by BullMQ
   without the worker's handlers, which leaves its deployment as it is.)   *)
Crash(j) ==
  /\ "crash" \in dfaults /\ djob[j].pc \in Active /\ NobodyDied
  /\ djob' = [djob EXCEPT ![j].pc = "waiting", ![j].stalls = 1,
                          ![j].err = "none", ![j].begun = FALSE]
  /\ dslots' = IF dslots = j THEN NoJob ELSE dslots
  /\ UNCHANGED <<dstatus, drecord, dlatest, dcancel, dreserved, daccepted, dchecks, drelease, dcall, dbusy, dfaults>>

Execute(j) ==
  Start(j) \/ Build(j) \/ Preflight(j) \/ BeginRelease(j)
    \/ Deploy(j) \/ Verify(j) \/ Activate(j) \/ GoLive(j)

Work(j) ==
  PickUp(j) \/ Acquire(j) \/ SlotBusy(j) \/ SourceMissing(j) \/ Execute(j) \/ Fail(j)
    \/ Undo(j) \/ Unlock(j) \/ Handle(j) \/ Handle2(j) \/ Succeed(j) \/ Finally(j)

------------------------------------------------------------------------------
(* The API.                                                                *)

CallAt(c, op, pc) == dcall[c].op = op /\ dcall[c].pc = pc

CallGoto(c, pc) == dcall' = [dcall EXCEPT ![c].pc = pc]

Return(c) == dcall' = [dcall EXCEPT ![c] = Idle]

Live(j) == djob[j].pc \in {"waiting"} \cup Active

MayCall(c) ==
  /\ dcall[c] = Idle
  /\ Uninterrupted
  /\ "overlap" \in dfaults \/ \A j \in QueueJob : djob[j].pc \notin Settling

(* A deployment at the gate has a job of its own only while that is settled. *)
MayResume(c) == MayCall(c) /\ ("overlap" \in dfaults \/ \A j \in QueueJob : ~Live(j))

(* deployFromGithub and deployFromUpload create the deployment. *)
CreateDeployment(c) ==
  /\ MayCall(c) /\ dstatus = "NONE"
  /\ dstatus' = "PENDING"
  /\ dcall' = [dcall EXCEPT ![c].op = "deploy", ![c].pc = "reserve"]
  /\ UNCHANGED <<djob, drecord, dlatest, dcancel, dreserved, daccepted, dchecks, drelease, dslots, dbusy, dfaults>>

(* approvePreflightWarnings and retryBlockedPreflight, up to their guards. *)
RequestApproval(c) ==
  /\ MayResume(c) /\ dstatus = "AWAITING_PREFLIGHT" /\ dchecks = "WARNING"
  /\ dcall' = [dcall EXCEPT ![c].op = "approve", ![c].pc = "reserve"]
  /\ UNCHANGED <<dstatus, djob, drecord, dlatest, dcancel, dreserved, daccepted, dchecks, drelease, dslots, dbusy, dfaults>>

RequestRetry(c) ==
  /\ MayResume(c) /\ dstatus = "PREFLIGHT_BLOCKED"
  /\ dcall' = [dcall EXCEPT ![c].op = "retry", ![c].pc = "reserve"]
  /\ UNCHANGED <<dstatus, djob, drecord, dlatest, dcancel, dreserved, daccepted, dchecks, drelease, dslots, dbusy, dfaults>>

(* The capacity is reserved or refused; a refusal fails a new deployment and
   leaves one that waits at the gate as it was.                            *)
ReserveCapacity(c) ==
  /\ dcall[c].pc = "reserve"
  /\ \/ /\ dreserved' = TRUE
        /\ CallGoto(c, IF dcall[c].op = "deploy" THEN "add" ELSE "pend")
        /\ UNCHANGED dstatus
     \/ /\ dstatus' = IF dcall[c].op = "deploy" THEN "FAILED" ELSE dstatus
        /\ Return(c)
        /\ UNCHANGED dreserved
  /\ UNCHANGED <<djob, drecord, dlatest, dcancel, daccepted, dchecks, drelease, dslots, dbusy, dfaults>>

MakePending(c) ==
  /\ dcall[c].pc = "pend"
  /\ dstatus' = "PENDING"
  /\ daccepted' = (dcall[c].op = "approve")
  /\ CallGoto(c, "add")
  /\ UNCHANGED <<djob, drecord, dlatest, dcancel, dreserved, dchecks, drelease, dslots, dbusy, dfaults>>

AddJob(c) ==
  /\ dcall[c].pc = "add"
  /\ \E j \in QueueJob : /\ JobAt(j, "none") /\ \A i \in 1..(j - 1) : ~JobAt(i, "none")
                        /\ JobGoto(j, "waiting")
  /\ Return(c)
  /\ UNCHANGED <<dstatus, drecord, dlatest, dcancel, dreserved, daccepted, dchecks, drelease, dslots, dbusy, dfaults>>

(* Redis refuses the job: the reservation and the status are put back. *)
AddFails(c) ==
  /\ dcall[c].pc = "add"
  /\ dreserved' = FALSE
  /\ dstatus' = CASE dcall[c].op = "deploy" -> "FAILED"
                  [] dcall[c].op = "approve" -> "AWAITING_PREFLIGHT"
                  [] OTHER -> "PREFLIGHT_BLOCKED"
  /\ Return(c)
  /\ UNCHANGED <<djob, drecord, dlatest, dcancel, daccepted, dchecks, drelease, dslots, dbusy, dfaults>>

(* cancelDeployment: a canceled deployment gives its reservation back, one
   that is canceling is left alone, and only QUEUED and RUNNING records can
   be canceled.  (Without overlap a call that is refused is no step.)      *)
CancelCanceled(c) ==
  /\ MayCall(c) /\ dstatus = "CANCELED"
  /\ dreserved' = FALSE
  /\ UNCHANGED <<dstatus, djob, drecord, dlatest, dcancel, daccepted, dchecks, drelease, dslots, dcall, dbusy, dfaults>>

CancelQueued(c) ==
  /\ MayCall(c) /\ dstatus \notin {"CANCELED", "CANCELING"} /\ dlatest # NoJob
  /\ drecord[dlatest] = "QUEUED"
  /\ "overlap" \in dfaults \/ djob[dlatest].pc \notin Active
  /\ dcall' = [dcall EXCEPT ![c] = [op |-> "cancel", pc |-> "remove", job |-> dlatest]]
  /\ UNCHANGED <<dstatus, djob, drecord, dlatest, dcancel, dreserved, daccepted, dchecks, drelease, dslots, dbusy, dfaults>>

(* A running job is asked to stop, unless its release takes traffic. *)
CancelRunning(c) ==
  /\ MayCall(c) /\ dstatus \notin {"CANCELED", "CANCELING"} /\ dlatest # NoJob
  /\ drecord[dlatest] = "RUNNING"
  /\ drelease \notin {"ACTIVATING", "ACTIVE"}
  /\ dcall' = [dcall EXCEPT ![c] = [op |-> "cancel", pc |-> "key", job |-> dlatest]]
  /\ UNCHANGED <<dstatus, djob, drecord, dlatest, dcancel, dreserved, daccepted, dchecks, drelease, dslots, dbusy, dfaults>>

(* Mutant: the record is canceled and the job stays in the queue. *)
MutCancelRemove(c) ==
  /\ CallAt(c, "cancel", "remove")
  /\ IF djob[dcall[c].job].pc \in Active THEN Return(c) ELSE CallGoto(c, "tx")
  /\ UNCHANGED <<dstatus, djob, drecord, dlatest, dcancel, dreserved, daccepted, dchecks, drelease, dslots, dbusy, dfaults>>

(* A waiting job is removed from the queue; an active one refuses. *)
CancelRemove(c) ==
  /\ CallAt(c, "cancel", "remove")
  /\ LET j == dcall[c].job IN
       IF djob[j].pc \in Active THEN Return(c) /\ UNCHANGED djob
       ELSE CallGoto(c, "tx") /\ (IF JobAt(j, "waiting") THEN JobGoto(j, "gone") ELSE UNCHANGED djob)
  /\ UNCHANGED <<dstatus, drecord, dlatest, dcancel, dreserved, daccepted, dchecks, drelease, dslots, dbusy, dfaults>>

CancelCommit(c) ==
  /\ CallAt(c, "cancel", "tx")
  /\ IF drecord[dcall[c].job] = "QUEUED"
       THEN /\ drecord' = [drecord EXCEPT ![dcall[c].job] = "CANCELED"]
            /\ dstatus' = "CANCELED"
            /\ dreserved' = FALSE
       ELSE UNCHANGED <<drecord, dstatus, dreserved>>
  /\ Return(c)
  /\ UNCHANGED <<djob, dlatest, dcancel, daccepted, dchecks, drelease, dslots, dbusy, dfaults>>

CancelKey(c) ==
  /\ CallAt(c, "cancel", "key")
  /\ dcancel' = TRUE
  /\ CallGoto(c, "mark")
  /\ UNCHANGED <<dstatus, djob, drecord, dlatest, dreserved, daccepted, dchecks, drelease, dslots, dbusy, dfaults>>

CancelMark(c) ==
  /\ CallAt(c, "cancel", "mark")
  /\ dstatus' = "CANCELING"
  /\ Return(c)
  /\ UNCHANGED <<djob, drecord, dlatest, dcancel, dreserved, daccepted, dchecks, drelease, dslots, dbusy, dfaults>>

Request(c) ==
  CreateDeployment(c) \/ RequestApproval(c) \/ RequestRetry(c) \/ CancelCanceled(c)
    \/ CancelQueued(c) \/ CancelRunning(c)

Proceed(c) ==
  ReserveCapacity(c) \/ MakePending(c) \/ AddJob(c) \/ AddFails(c) \/ CancelRemove(c)
    \/ CancelCommit(c) \/ CancelKey(c) \/ CancelMark(c)

JobNext ==
  \/ \E j \in QueueJob : Uninterrupted /\ (Work(j) \/ Crash(j))
  \/ \E c \in Caller : Request(c) \/ Proceed(c)

(* A worker goes on with a job it has and takes a job that waits, and an API
   call that has begun goes on.                                            *)
JobFairness ==
  /\ \A j \in QueueJob : WF_jobVars(Uninterrupted /\ Work(j))
  /\ \A c \in Caller : WF_jobVars(Proceed(c))

JobSpec == JobInit /\ [][JobNext]_jobVars /\ JobFairness

------------------------------------------------------------------------------
(* Properties.                                                             *)

(* A deployment that says PENDING or BUILDING is one that something still
   works on: a job in the queue or in a worker, or the API call that is about
   to add or to cancel one.  Nothing else ever moves such a deployment on, so
   the busy-slot path, the retries and every failed call must keep to it.  It
   fails when a worker takes the job and dies while a cancellation is about to
   remove it: the record of the removed job then says RUNNING.             *)
PendingIsBacked ==
  dstatus \in {"PENDING", "BUILDING"} /\ dfaults # JobFault
    => Calling \/ \E j \in QueueJob : Live(j)

(* No capacity leaks: a reservation outlives neither the jobs of its deployment
   nor the call that made it, with the same exception.  And none is lost: as long
   as no worker has died and no call overlaps the end of a run, a deployment that
   waits in the queue holds the capacity it was promised when it was accepted. *)
ReservationIsBacked ==
  /\ dreserved /\ dfaults # JobFault => Calling \/ \E j \in QueueJob : Live(j)
  /\ "overlap" \notin dfaults /\ NobodyDied =>
       \A j \in QueueJob : JobAt(j, "waiting") /\ ~Calling => dreserved

(* A release takes traffic only for a run whose preflight neither blocked it
   nor raised warnings that the user has not accepted, also when an approval,
   a retry or another job's run comes in between.                          *)
GateIsKept ==
  \A j \in QueueJob :
    djob[j].pc \in {"begin", "deploy", "verify", "activate", "final"}
      => dchecks # "BLOCKED" /\ (dchecks = "WARNING" => djob[j].accepted)

(* The user's cancellation is final: as long as no worker has died and calls do
   not overlap the end of a run, nothing revives a CANCELED deployment.     *)
CanceledIsFinal ==
  [][dstatus = "CANCELED" /\ "overlap" \notin dfaults /\ NobodyDied
       => dstatus' = "CANCELED"]_jobVars

(* The jobs of a deployment come to an end, whatever is canceled, approved,
   retried or lost meanwhile.                                              *)
JobsEnd == \A j \in QueueJob : []<>~Live(j)
==============================================================================
