------------------------ MODULE DeploymentJob_proofs ------------------------
(***************************************************************************)
(* Proofs about DeploymentJob, for every number of jobs, callers, attempts  *)
(* and busy slots and every choice of faults: the types, that a run which   *)
(* the preflight gate should have stopped never takes traffic, that a       *)
(* deployment which says PENDING or BUILDING is one that is worked on, that *)
(* a cancellation is final, and that a reservation belongs to something.    *)
(***************************************************************************)
EXTENDS DeploymentJob, TLAPS

(* A job between the acquisition and the return of its slots. *)
Inside(j) == djob[j].pc \in Executing \cup {"undo", "unlock"}

SlotInv == \A j \in QueueJob : Inside(j) => dslots = j

GateInv == JobTypeOK /\ SlotInv /\ GateIsKept

------------------------------------------------------------------------------
(* Types.                                                                  *)

(* What a step does to its job keeps the type of the jobs. *)
LEMMA JobStepType ==
  ASSUME djob \in [QueueJob -> JobType], NEW j \in QueueJob,
         NEW x \in JobType, djob' = [djob EXCEPT ![j] = x]
  PROVE  djob' \in [QueueJob -> JobType]
  OBVIOUS

LEMMA GotoType ==
  ASSUME djob \in [QueueJob -> JobType], NEW j \in QueueJob, NEW pc \in Step, JobGoto(j, pc)
  PROVE  djob' \in [QueueJob -> JobType]
  BY DEF JobGoto, JobType

LEMMA ThrowType ==
  ASSUME djob \in [QueueJob -> JobType], NEW j \in QueueJob, NEW pc \in Step,
         NEW e \in {"none", "final", "transient", "busy", "cancel", "warning", "blocked"}, Throw(j, e, pc)
  PROVE  djob' \in [QueueJob -> JobType]
  BY DEF Throw, JobType

LEMMA EndBegunType ==
  ASSUME djob \in [QueueJob -> JobType], NEW j \in QueueJob, NEW pc \in Step,
         djob' = [djob EXCEPT ![j].pc = pc, ![j].begun = FALSE]
  PROVE  djob' \in [QueueJob -> JobType]
  <1> DEFINE x == [djob[j] EXCEPT !.pc = pc, !.begun = FALSE]
  <1>1. x \in JobType
    BY DEF JobType
  <1>2. djob' = [djob EXCEPT ![j] = x]
    OBVIOUS
  <1> QED
    BY <1>1, <1>2, JobStepType

(* The statuses a run writes. *)
LEMMA SetStatusType ==
  ASSUME JobTypeOK, NEW j \in QueueJob, NEW pc \in Step, SetStatus(j, pc)
  PROVE  djob' \in [QueueJob -> JobType] /\ dstatus' \in DeploymentStatus
  <1>1. "undo" \in Step /\ "BUILDING" \in DeploymentStatus
    BY DEF Step, Active, Settling, DeploymentStatus
  <1>2. CASE dstatus \in {"CANCELING", "CANCELED"}
    BY <1>1, <1>2, ThrowType DEF SetStatus, JobTypeOK
  <1>3. CASE dstatus \notin {"CANCELING", "CANCELED"}
    BY <1>1, <1>3, GotoType DEF SetStatus, JobTypeOK
  <1> QED
    BY <1>2, <1>3

(* The worker keeps the types, from the pick-up to the start of a run. *)
LEMMA BeginTypes ==
  ASSUME JobTypeOK, NEW j \in QueueJob,
         PickUp(j) \/ Acquire(j) \/ SlotBusy(j) \/ SourceMissing(j) \/ Start(j)
  PROVE  JobTypeOK'
  <1> USE DEF JobTypeOK
  <1>0. {"slots", "start", "handle", "undo", "build"} \subseteq Step
    BY DEF Step, Active, Executing, Settling
  <1>1. CASE PickUp(j)
    <2>1. djob' \in [QueueJob -> JobType]
      BY <1>0, <1>1, GotoType DEF PickUp
    <2> QED
      BY <1>1, <2>1 DEF PickUp, RecordStatus
  <1>2. CASE Acquire(j)
    <2>1. djob' \in [QueueJob -> JobType]
      BY <1>0, <1>2, GotoType DEF Acquire
    <2> QED
      BY <1>2, <2>1 DEF Acquire, RecordStatus
  <1>3. CASE SlotBusy(j)
    <2>1. djob' \in [QueueJob -> JobType]
      BY <1>0, <1>3, ThrowType DEF SlotBusy
    <2>2. dbusy' \in 0..MaxBusy
      BY <1>3, JobBounds DEF SlotBusy
    <2> QED
      BY <1>3, <2>1, <2>2 DEF SlotBusy
  <1>4. CASE SourceMissing(j)
    <2>1. djob' \in [QueueJob -> JobType]
      BY <1>0, <1>4, ThrowType DEF SourceMissing
    <2> QED
      BY <1>4, <2>1 DEF SourceMissing
  <1>5. CASE Start(j)
    <2>1. CASE dstatus \in {"CANCELING", "CANCELED"}
      <3>1. djob' \in [QueueJob -> JobType]
        BY <1>0, <1>5, <2>1, ThrowType DEF Start
      <3> QED
        BY <1>5, <2>1, <3>1 DEF Start
    <2>2. CASE dstatus \notin {"CANCELING", "CANCELED"}
      <3>1. djob' \in [QueueJob -> JobType]
        BY <1>0, <1>5, <2>2 DEF Start, JobType
      <3> QED
        BY <1>5, <2>2, <3>1 DEF Start, DeploymentStatus
    <2> QED
      BY <2>1, <2>2
  <1> QED
    BY <1>1, <1>2, <1>3, <1>4, <1>5

(* The steps of a run keep the types. *)
LEMMA RunTypes ==
  ASSUME JobTypeOK, NEW j \in QueueJob,
         \/ Build(j) \/ Preflight(j) \/ BeginRelease(j) \/ Deploy(j) \/ Verify(j)
         \/ Activate(j) \/ GoLive(j) \/ Fail(j)
  PROVE  JobTypeOK'
  <1> USE DEF JobTypeOK
  <1>0. {"undo", "checks", "begin", "deploy", "verify", "activate", "final", "succeed"} \subseteq Step
    BY DEF Step, Active, Executing, Settling
  <1>1. CASE Build(j)
    <2>1. djob' \in [QueueJob -> JobType] /\ dstatus' \in DeploymentStatus
      BY <1>0, <1>1, SetStatusType DEF Build
    <2>2. drelease' \in {"none", "CANDIDATE", "ACTIVATING", "ACTIVE", "FAILED"}
      BY <1>1 DEF Build
    <2> QED
      BY <1>1, <2>1, <2>2 DEF Build
  <1>2. CASE Preflight(j)
    <2>1. PICK worst \in {"PASS", "WARNING", "BLOCKED"} :
            /\ dchecks' = worst
            /\ LET e == Gate(worst, djob[j].accepted) IN
                 IF e = "none" THEN JobGoto(j, "begin") ELSE Throw(j, e, "undo")
      BY <1>2 DEF Preflight
    <2>2. Gate(worst, djob[j].accepted) \in {"none", "warning", "blocked"}
      BY DEF Gate
    <2>3. djob' \in [QueueJob -> JobType]
      BY <1>0, <2>1, <2>2, GotoType, ThrowType
    <2> QED
      BY <1>2, <2>1, <2>3 DEF Preflight
  <1>3. CASE BeginRelease(j)
    <2>1. CASE dstatus \in {"CANCELING", "CANCELED"}
      <3>1. djob' \in [QueueJob -> JobType]
        BY <1>0, <1>3, <2>1, ThrowType DEF BeginRelease
      <3> QED
        BY <1>3, <2>1, <3>1 DEF BeginRelease
    <2>2. CASE dstatus \notin {"CANCELING", "CANCELED"}
      <3>1. djob' \in [QueueJob -> JobType]
        BY <1>0, <1>3, <2>2 DEF BeginRelease, JobType
      <3> QED
        BY <1>3, <2>2, <3>1 DEF BeginRelease, DeploymentStatus
    <2> QED
      BY <2>1, <2>2
  <1>4. CASE Deploy(j)
    <2>1. djob' \in [QueueJob -> JobType] /\ dstatus' \in DeploymentStatus
      BY <1>0, <1>4, SetStatusType DEF Deploy
    <2> QED
      BY <1>4, <2>1 DEF Deploy
  <1>5. CASE Verify(j)
    <2>1. djob' \in [QueueJob -> JobType]
      BY <1>0, <1>5, GotoType DEF Verify
    <2> QED
      BY <1>5, <2>1 DEF Verify
  <1>6. CASE Activate(j)
    <2>1. djob' \in [QueueJob -> JobType]
      BY <1>0, <1>6, EndBegunType DEF Activate
    <2> QED
      BY <1>6, <2>1 DEF Activate
  <1>7. CASE GoLive(j)
    <2>1. djob' \in [QueueJob -> JobType]
      BY <1>0, <1>7, GotoType DEF GoLive
    <2> QED
      BY <1>7, <2>1 DEF GoLive, DeploymentStatus
  <1>8. CASE Fail(j)
    <2>0. PICK e \in {"final", "transient", "cancel"} : Throw(j, e, "undo")
      BY <1>8 DEF Fail
    <2>1. djob' \in [QueueJob -> JobType]
      BY <1>0, <2>0, ThrowType
    <2> QED
      BY <1>8, <2>1 DEF Fail
  <1> QED
    BY <1>1, <1>2, <1>3, <1>4, <1>5, <1>6, <1>7, <1>8

(* Settling keeps the types, and so does the death of a worker. *)
LEMMA SettleTypes ==
  ASSUME JobTypeOK, NEW j \in QueueJob,
         \/ Undo(j) \/ Unlock(j) \/ Handle(j) \/ Handle2(j) \/ Succeed(j) \/ Finally(j) \/ Crash(j)
  PROVE  JobTypeOK'
  <1> USE DEF JobTypeOK
  <1>0. {"unlock", "handle", "handle2", "finally", "waiting", "gone"} \subseteq Step
    BY DEF Step, Active, Settling
  <1>1. CASE Undo(j)
    <2>1. djob' \in [QueueJob -> JobType]
      BY <1>0, <1>1, EndBegunType DEF Undo
    <2> QED
      BY <1>1, <2>1 DEF Undo, Outcome, DeploymentStatus
  <1>2. CASE Unlock(j)
    <2>1. djob' \in [QueueJob -> JobType]
      BY <1>0, <1>2, GotoType DEF Unlock
    <2> QED
      BY <1>2, <2>1 DEF Unlock
  <1>3. ASSUME WriteRecord(j) PROVE drecord' \in [QueueJob -> RecordStatus]
    BY <1>3 DEF WriteRecord, SettledRecord, RecordStatus
  <1>4. ASSUME WriteStatus(j) PROVE dstatus' \in DeploymentStatus /\ dcancel' \in BOOLEAN
    BY <1>4 DEF WriteStatus, DeploymentStatus
  <1>5. CASE Handle(j)
    <2>1. djob' \in [QueueJob -> JobType]
      BY <1>0, <1>5, GotoType DEF Handle
    <2>2. drecord' \in [QueueJob -> RecordStatus] /\ dstatus' \in DeploymentStatus /\ dcancel' \in BOOLEAN
      BY <1>3, <1>4, <1>5 DEF Handle
    <2> QED
      BY <1>5, <2>1, <2>2 DEF Handle
  <1>6. CASE Handle2(j)
    <2>1. djob' \in [QueueJob -> JobType]
      BY <1>0, <1>6, GotoType DEF Handle2
    <2>2. drecord' \in [QueueJob -> RecordStatus] /\ dstatus' \in DeploymentStatus /\ dcancel' \in BOOLEAN
      BY <1>3, <1>4, <1>6 DEF Handle2
    <2> QED
      BY <1>6, <2>1, <2>2 DEF Handle2
  <1>7. CASE Succeed(j)
    <2>1. djob' \in [QueueJob -> JobType]
      BY <1>0, <1>7, GotoType DEF Succeed
    <2> QED
      BY <1>7, <2>1 DEF Succeed, RecordStatus
  <1>8. CASE Finally(j)
    <2>1. (IF ShouldRetry(j) THEN djob[j].tries + 1 ELSE djob[j].tries) \in 0..MaxAttempts
      BY JobBounds DEF JobType, ShouldRetry
    <2>2. djob' \in [QueueJob -> JobType]
      <3> DEFINE x == [djob[j] EXCEPT !.pc = IF Retained(j) THEN "waiting" ELSE "gone",
                                      !.tries = IF ShouldRetry(j) THEN @ + 1 ELSE @,
                                      !.err = "none", !.accepted = FALSE]
      <3>1. x \in JobType
        BY <1>0, <2>1 DEF JobType
      <3>2. djob' = [djob EXCEPT ![j] = x]
        BY <1>8 DEF Finally
      <3> QED
        BY <3>1, <3>2, JobStepType
    <2>3. dreserved' \in BOOLEAN
      BY <1>8 DEF Finally
    <2> QED
      BY <1>8, <2>2, <2>3 DEF Finally
  <1>9. CASE Crash(j)
    <2>1. djob' \in [QueueJob -> JobType]
      <3> DEFINE y == [djob[j] EXCEPT !.pc = "waiting", !.stalls = 1, !.err = "none"]
                 x == [y EXCEPT !.begun = FALSE]
      <3>0. y \in JobType
        <4>1. djob[j] \in JobType /\ 1 \in 0..1
          OBVIOUS
        <4>2. [djob[j] EXCEPT !.stalls = 1] \in JobType
          BY <4>1, Zenon DEF JobType
        <4> QED
          BY <1>0, <4>2 DEF JobType
      <3> HIDE DEF y
      <3>1. x \in JobType
        BY <3>0 DEF JobType
      <3>2. djob' = [djob EXCEPT ![j] = x]
        BY <1>9 DEF Crash, y
      <3> QED
        BY <3>1, <3>2, JobStepType
    <2> QED
      BY <1>9, <2>1 DEF Crash
  <1> QED
    BY <1>1, <1>2, <1>5, <1>6, <1>7, <1>8, <1>9

(* What a step does to its call keeps the type of the calls. *)
LEMMA CallTypes ==
  ASSUME dcall \in [Caller -> CallType], NEW c \in Caller,
         \/ Return(c)
         \/ \E pc \in CallStep : CallGoto(c, pc)
         \/ \E op \in {"deploy", "approve", "retry", "cancel"}, pc \in CallStep :
              dcall' = [dcall EXCEPT ![c].op = op, ![c].pc = pc]
         \/ \E x \in CallType : dcall' = [dcall EXCEPT ![c] = x]
         \/ dcall' = dcall
  PROVE  dcall' \in [Caller -> CallType]
  <1>1. Idle \in CallType
    BY DEF Idle, CallType, CallStep
  <1> QED
    BY <1>1 DEF Return, CallGoto, CallType

(* The requests keep the types. *)
LEMMA RequestTypes ==
  ASSUME JobTypeOK, NEW c \in Caller, Request(c)
  PROVE  JobTypeOK'
  <1> USE DEF JobTypeOK
  <1>0. {"reserve", "remove", "key"} \subseteq CallStep
    BY DEF CallStep
  <1>1. CASE CreateDeployment(c)
    <2>1. dcall' \in [Caller -> CallType]
      BY <1>0, <1>1, CallTypes DEF CreateDeployment
    <2> QED
      BY <1>1, <2>1 DEF CreateDeployment, DeploymentStatus
  <1>2. CASE RequestApproval(c)
    <2>1. dcall' \in [Caller -> CallType]
      BY <1>0, <1>2, CallTypes DEF RequestApproval
    <2> QED
      BY <1>2, <2>1 DEF RequestApproval
  <1>3. CASE RequestRetry(c)
    <2>1. dcall' \in [Caller -> CallType]
      BY <1>0, <1>3, CallTypes DEF RequestRetry
    <2> QED
      BY <1>3, <2>1 DEF RequestRetry
  <1>4. CASE CancelCanceled(c)
    BY <1>4 DEF CancelCanceled
  <1>5. CASE CancelQueued(c)
    <2>1. [op |-> "cancel", pc |-> "remove", job |-> dlatest] \in CallType
      BY <1>0 DEF CallType
    <2>2. dcall' \in [Caller -> CallType]
      BY <1>5, <2>1, CallTypes DEF CancelQueued
    <2> QED
      BY <1>5, <2>2 DEF CancelQueued
  <1>6. CASE CancelRunning(c)
    <2>1. [op |-> "cancel", pc |-> "key", job |-> dlatest] \in CallType
      BY <1>0 DEF CallType
    <2>2. dcall' \in [Caller -> CallType]
      BY <1>6, <2>1, CallTypes DEF CancelRunning
    <2> QED
      BY <1>6, <2>2 DEF CancelRunning
  <1> QED
    BY <1>1, <1>2, <1>3, <1>4, <1>5, <1>6 DEF Request

(* The calls that go on keep the types. *)
LEMMA ProceedTypes ==
  ASSUME JobTypeOK, NEW c \in Caller, Proceed(c)
  PROVE  JobTypeOK'
  <1> USE DEF JobTypeOK
  <1>0. {"pend", "add", "tx", "mark"} \subseteq CallStep /\ {"waiting", "gone"} \subseteq Step
    BY DEF CallStep, Step
  <1>1. CASE ReserveCapacity(c)
    <2>1. dcall' \in [Caller -> CallType]
      BY <1>0, <1>1, CallTypes DEF ReserveCapacity
    <2> QED
      BY <1>1, <2>1 DEF ReserveCapacity, DeploymentStatus
  <1>2. CASE MakePending(c)
    <2>1. dcall' \in [Caller -> CallType]
      BY <1>0, <1>2, CallTypes DEF MakePending
    <2> QED
      BY <1>2, <2>1 DEF MakePending, DeploymentStatus
  <1>3. CASE AddJob(c)
    <2>1. dcall' \in [Caller -> CallType]
      BY <1>3, CallTypes DEF AddJob
    <2>2. djob' \in [QueueJob -> JobType]
      BY <1>0, <1>3, GotoType DEF AddJob
    <2> QED
      BY <1>3, <2>1, <2>2 DEF AddJob
  <1>4. CASE AddFails(c)
    <2>1. dcall' \in [Caller -> CallType]
      BY <1>4, CallTypes DEF AddFails
    <2> QED
      BY <1>4, <2>1 DEF AddFails, DeploymentStatus
  <1>5. CASE CancelRemove(c)
    <2>1. dcall' \in [Caller -> CallType]
      BY <1>0, <1>5, CallTypes DEF CancelRemove
    <2>2. djob' \in [QueueJob -> JobType]
      BY <1>5 DEF CancelRemove, JobGoto, JobType, Step
    <2> QED
      BY <1>5, <2>1, <2>2 DEF CancelRemove
  <1>6. CASE CancelCommit(c)
    <2>1. dcall' \in [Caller -> CallType]
      BY <1>6, CallTypes DEF CancelCommit
    <2>2. drecord' \in [QueueJob -> RecordStatus] /\ dstatus' \in DeploymentStatus /\ dreserved' \in BOOLEAN
      BY <1>6 DEF CancelCommit, RecordStatus, DeploymentStatus
    <2> QED
      BY <1>6, <2>1, <2>2 DEF CancelCommit
  <1>7. CASE CancelKey(c)
    <2>1. dcall' \in [Caller -> CallType]
      BY <1>0, <1>7, CallTypes DEF CancelKey
    <2> QED
      BY <1>7, <2>1 DEF CancelKey
  <1>8. CASE CancelMark(c)
    <2>1. dcall' \in [Caller -> CallType]
      BY <1>8, CallTypes DEF CancelMark
    <2> QED
      BY <1>8, <2>1 DEF CancelMark, DeploymentStatus
  <1> QED
    BY <1>1, <1>2, <1>3, <1>4, <1>5, <1>6, <1>7, <1>8 DEF Proceed

(* The initial state has the types. *)
LEMMA InitTypes == JobInit => JobTypeOK
  <1> SUFFICES ASSUME JobInit PROVE JobTypeOK
    OBVIOUS
  <1>1. djob \in [QueueJob -> JobType] /\ drecord \in [QueueJob -> RecordStatus]
    BY JobBounds DEF JobInit, JobType, Step, RecordStatus
  <1>2. dcall \in [Caller -> CallType]
    BY DEF JobInit, CallType, CallStep, Idle
  <1>3. dfaults \subseteq JobFault
    BY FaultSetsAssumption DEF JobInit
  <1>4. {dcancel, dreserved, daccepted} \subseteq BOOLEAN
    BY Zenon DEF JobInit
  <1>7. dbusy \in 0..MaxBusy
    BY JobBounds DEF JobInit
  <1>5. {dlatest, dslots} \subseteq QueueJob \cup {NoJob} /\ dstatus \in DeploymentStatus
    BY DEF JobInit, DeploymentStatus
  <1>6. /\ dchecks \in {"none", "PASS", "WARNING", "BLOCKED"}
        /\ drelease \in {"none", "CANDIDATE", "ACTIVATING", "ACTIVE", "FAILED"}
    BY DEF JobInit
  <1> QED
    BY <1>1, <1>2, <1>3, <1>4, <1>5, <1>6, <1>7 DEF JobTypeOK

(* Every step keeps the types. *)
LEMMA NextTypes == JobTypeOK /\ [JobNext]_jobVars => JobTypeOK'
  <1> SUFFICES ASSUME JobTypeOK, [JobNext]_jobVars PROVE JobTypeOK'
    OBVIOUS
  <1>1. ASSUME NEW j \in QueueJob, Work(j) \/ Crash(j) PROVE JobTypeOK'
    BY <1>1, BeginTypes, RunTypes, SettleTypes DEF Work, Execute
  <1>2. ASSUME NEW c \in Caller, Request(c) \/ Proceed(c) PROVE JobTypeOK'
    BY <1>2, RequestTypes, ProceedTypes
  <1>3. CASE UNCHANGED jobVars
    BY <1>3 DEF jobVars, JobTypeOK
  <1> QED
    BY <1>1, <1>2, <1>3 DEF JobNext

------------------------------------------------------------------------------
(* The slots, and the gate.                                                *)

(* A step of one job that neither takes nor returns the slots, and does not
   enter what they protect, keeps the slot invariant.                      *)
LEMMA SlotsKept ==
  ASSUME SlotInv, NEW j \in QueueJob, \A i \in QueueJob \ {j} : djob'[i] = djob[i],
         \/ dslots' = dslots /\ (Inside(j)' => Inside(j))
         \/ dslots = NoJob /\ dslots' = j
         \/ dslots' = (IF dslots = j THEN NoJob ELSE dslots) /\ ~Inside(j)'
  PROVE  SlotInv'
  BY JobBounds DEF SlotInv, Inside, QueueJob, NoJob

(* A step that changes neither the checks nor a run past the gate keeps it. *)
LEMMA GateKept ==
  ASSUME GateIsKept, NEW j \in QueueJob, \A i \in QueueJob \ {j} : djob'[i] = djob[i],
         dchecks' = dchecks,
         djob'[j].pc \in {"begin", "deploy", "verify", "activate", "final"} =>
           /\ djob[j].pc \in {"begin", "deploy", "verify", "activate", "final"}
           /\ djob'[j].accepted = djob[j].accepted
  PROVE  GateIsKept'
  BY DEF GateIsKept

(* What one step of the worker does to the other jobs, the slots and the job
   itself; only the preflight writes the checks.                           *)
LEMMA WorkMoves ==
  ASSUME JobTypeOK, SlotInv, NEW j \in QueueJob, Work(j) \/ Crash(j), ~Preflight(j)
  PROVE  /\ \A i \in QueueJob \ {j} : djob'[i] = djob[i]
         /\ dchecks' = dchecks
         /\ \/ dslots' = dslots /\ (Inside(j)' => Inside(j))
            \/ dslots = NoJob /\ dslots' = j
            \/ dslots' = (IF dslots = j THEN NoJob ELSE dslots) /\ ~Inside(j)'
         /\ djob'[j].pc \in {"begin", "deploy", "verify", "activate", "final"} =>
              /\ djob[j].pc \in {"begin", "deploy", "verify", "activate", "final"}
              /\ djob'[j].accepted = djob[j].accepted
  <1> DEFINE Moves ==
        /\ \A i \in QueueJob \ {j} : djob'[i] = djob[i]
        /\ dchecks' = dchecks
        /\ \/ dslots' = dslots /\ (Inside(j)' => Inside(j))
           \/ dslots = NoJob /\ dslots' = j
           \/ dslots' = (IF dslots = j THEN NoJob ELSE dslots) /\ ~Inside(j)'
        /\ djob'[j].pc \in {"begin", "deploy", "verify", "activate", "final"} =>
             /\ djob[j].pc \in {"begin", "deploy", "verify", "activate", "final"}
             /\ djob'[j].accepted = djob[j].accepted
  <1> USE DEF JobTypeOK, JobType, JobAt, JobGoto, Throw, SetStatus, Inside, Executing, SlotInv
  <1>1. ASSUME PickUp(j) PROVE Moves
    BY <1>1 DEF PickUp
  <1>2. ASSUME Acquire(j) PROVE Moves
    BY <1>2 DEF Acquire
  <1>3. ASSUME SlotBusy(j) PROVE Moves
    BY <1>3 DEF SlotBusy
  <1>4. ASSUME SourceMissing(j) PROVE Moves
    BY <1>4 DEF SourceMissing
  <1>5. ASSUME Start(j) PROVE Moves
    BY <1>5 DEF Start
  <1>6. ASSUME Build(j) PROVE Moves
    BY <1>6 DEF Build
  <1>7. ASSUME BeginRelease(j) PROVE Moves
    BY <1>7 DEF BeginRelease
  <1>8. ASSUME Deploy(j) PROVE Moves
    BY <1>8 DEF Deploy
  <1>9. ASSUME Verify(j) PROVE Moves
    BY <1>9 DEF Verify
  <1>10. ASSUME Activate(j) PROVE Moves
    BY <1>10 DEF Activate
  <1>11. ASSUME GoLive(j) PROVE Moves
    BY <1>11 DEF GoLive
  <1>12. ASSUME Fail(j) PROVE Moves
    BY <1>12 DEF Fail
  <1>13. ASSUME Undo(j) PROVE Moves
    BY <1>13 DEF Undo
  <1>14. ASSUME Unlock(j) PROVE Moves
    BY <1>14 DEF Unlock
  <1>15. ASSUME Handle(j) PROVE Moves
    BY <1>15 DEF Handle
  <1>16. ASSUME Handle2(j) PROVE Moves
    BY <1>16 DEF Handle2
  <1>17. ASSUME Succeed(j) PROVE Moves
    BY <1>17 DEF Succeed
  <1>18. ASSUME Finally(j) PROVE Moves
    BY <1>18 DEF Finally
  <1>19. ASSUME Crash(j) PROVE Moves
    BY <1>19 DEF Crash
  <1> QED
    BY <1>1, <1>2, <1>3, <1>4, <1>5, <1>6, <1>7, <1>8, <1>9, <1>10, <1>11, <1>12, <1>13,
       <1>14, <1>15, <1>16, <1>17, <1>18, <1>19 DEF Work, Execute

(* The preflight of a run writes the checks for itself: it holds the slots, so
   no other run of the deployment is past its gate.                        *)
LEMMA PreflightKeeps ==
  ASSUME GateInv, NEW j \in QueueJob, Preflight(j)
  PROVE  SlotInv' /\ GateIsKept'
  <1>1. PICK worst \in {"PASS", "WARNING", "BLOCKED"} :
          /\ dchecks' = worst
          /\ LET e == Gate(worst, djob[j].accepted) IN
               IF e = "none" THEN JobGoto(j, "begin") ELSE Throw(j, e, "undo")
    BY DEF Preflight
  <1>2. djob[j].pc = "checks" /\ Inside(j) /\ dslots = j /\ dslots' = dslots
    BY DEF Preflight, JobAt, Inside, Executing, GateInv, SlotInv
  <1>3. \A i \in QueueJob \ {j} : djob'[i] = djob[i] /\ ~Inside(i)
    BY <1>1, <1>2 DEF GateInv, JobTypeOK, SlotInv, JobGoto, Throw
  <1>4. SlotInv'
    BY <1>2, <1>3, SlotsKept DEF GateInv
  <1>5. \A i \in QueueJob \ {j} : djob'[i].pc \notin {"begin", "deploy", "verify", "activate", "final"}
    BY <1>3 DEF Inside, Executing
  <1>6. CASE Gate(worst, djob[j].accepted) = "none"
    <2>1. djob'[j].pc = "begin" /\ djob'[j].accepted = djob[j].accepted
      BY <1>1, <1>6 DEF JobGoto, GateInv, JobTypeOK, JobType
    <2>2. worst # "BLOCKED" /\ (worst = "WARNING" => djob[j].accepted)
      BY <1>6 DEF Gate
    <2> QED
      BY <1>1, <1>4, <1>5, <2>1, <2>2 DEF GateIsKept
  <1>7. CASE Gate(worst, djob[j].accepted) # "none"
    <2>1. djob'[j].pc = "undo"
      BY <1>1, <1>7 DEF Throw, GateInv, JobTypeOK, JobType
    <2> QED
      BY <1>4, <1>5, <2>1 DEF GateIsKept
  <1> QED
    BY <1>6, <1>7

(* The API calls only add a job to the queue and remove a waiting one. *)
LEMMA CallsKeep ==
  ASSUME GateInv, NEW c \in Caller, Request(c) \/ Proceed(c)
  PROVE  SlotInv' /\ GateIsKept'
  <1> DEFINE Outside(pc) == pc \in {"none", "waiting", "gone"}
  <1>1. /\ dchecks' = dchecks /\ dslots' = dslots
        /\ \A i \in QueueJob : djob'[i] = djob[i] \/ Outside(djob'[i].pc)
    <2> USE DEF GateInv, JobTypeOK, JobType
    <2>1. CASE Request(c)
      BY <2>1 DEF Request, CreateDeployment, RequestApproval, RequestRetry, CancelCanceled, CancelQueued, CancelRunning
    <2>2. CASE AddJob(c)
      BY <2>2 DEF AddJob, JobGoto
    <2>3. CASE CancelRemove(c)
      BY <2>3 DEF CancelRemove, JobGoto
    <2>4. CASE ReserveCapacity(c) \/ MakePending(c) \/ AddFails(c) \/ CancelCommit(c) \/ CancelKey(c) \/ CancelMark(c)
      BY <2>4 DEF ReserveCapacity, MakePending, AddFails, CancelCommit, CancelKey, CancelMark
    <2> QED
      BY <2>1, <2>2, <2>3, <2>4 DEF Proceed
  <1> QED
    BY <1>1 DEF GateInv, SlotInv, GateIsKept, Inside, Executing

------------------------------------------------------------------------------
(* In the initial state no job runs. *)
LEMMA GateInit == JobInit => GateInv
  <1> SUFFICES ASSUME JobInit PROVE GateInv
    OBVIOUS
  <1>1. JobTypeOK
    BY InitTypes
  <1>2. SlotInv /\ GateIsKept
    BY DEF JobInit, SlotInv, GateIsKept, Inside, Executing
  <1> QED
    BY <1>1, <1>2 DEF GateInv

(* Every step keeps the gate. *)
LEMMA GateStep == GateInv /\ [JobNext]_jobVars => GateInv'
  <1> SUFFICES ASSUME GateInv, [JobNext]_jobVars PROVE GateInv'
    OBVIOUS
  <1>1. JobTypeOK'
    BY NextTypes DEF GateInv
  <1>2. ASSUME NEW j \in QueueJob, Work(j) \/ Crash(j), ~Preflight(j) PROVE SlotInv' /\ GateIsKept'
    BY <1>2, WorkMoves, SlotsKept, GateKept DEF GateInv
  <1>3. ASSUME NEW j \in QueueJob, Preflight(j) PROVE SlotInv' /\ GateIsKept'
    BY <1>3, PreflightKeeps
  <1>4. ASSUME NEW c \in Caller, Request(c) \/ Proceed(c) PROVE SlotInv' /\ GateIsKept'
    BY <1>4, CallsKeep
  <1>5. ASSUME UNCHANGED jobVars PROVE SlotInv' /\ GateIsKept'
    BY <1>5 DEF jobVars, GateInv, SlotInv, GateIsKept, Inside
  <1>6. SlotInv' /\ GateIsKept'
    <2>1. CASE JobNext
      <3>1. \/ \E j \in QueueJob : Work(j) \/ Crash(j)
            \/ \E c \in Caller : Request(c) \/ Proceed(c)
        BY <2>1 DEF JobNext
      <3> QED
        BY <3>1, <1>2, <1>3, <1>4
    <2> QED
      BY <2>1, <1>5
  <1> QED
    BY <1>1, <1>6 DEF GateInv

(* The invariant is inductive.                                             *)
THEOREM GateInductive == JobSpec => []GateInv
  BY GateInit, GateStep, PTL DEF JobSpec

(* The stores of a deployment keep their types. *)
THEOREM JobTypes == JobSpec => []JobTypeOK
  <1>1. GateInv => JobTypeOK
    BY DEF GateInv
  <1> QED
    BY <1>1, GateInductive, PTL

(* A release takes traffic only for a run that its preflight let through
   (PreflightService.run), whatever jobs and calls come in between.        *)
THEOREM GateHolds == JobSpec => []GateIsKept
  <1>1. GateInv => GateIsKept
    BY DEF GateInv
  <1> QED
    BY <1>1, GateInductive, PTL

------------------------------------------------------------------------------
(* What stands behind a deployment that says PENDING or BUILDING.           *)

(* A job that will go on with the deployment or write another status. *)
Backs(j) ==
  \/ djob[j].pc \in {"waiting", "slots", "undo"} \cup Executing
  \/ djob[j].pc \in {"unlock", "handle"} /\ djob[j].err \notin {"warning", "blocked"}
  \/ djob[j].pc \in {"handle2", "finally"} /\ Retained(j)
  \/ djob[j].pc = "handle2" /\ djob[j].err = "cancel"

(* A call that will add a job or write another status. *)
CallBacks(c) ==
  \/ dcall[c].op = "deploy" /\ dcall[c].pc = "reserve"
  \/ dcall[c].pc = "add"
  \/ dcall[c].pc = "tx" /\ drecord[dcall[c].job] = "QUEUED"

PendInv ==
  dstatus \in {"PENDING", "BUILDING"} /\ dfaults # JobFault =>
    (\E j \in QueueJob : Backs(j)) \/ (\E c \in Caller : CallBacks(c))

(* A job has no error until it throws one, and no record before its pick-up. *)
ErrInv ==
  \A j \in QueueJob :
    /\ djob[j].pc \in {"none", "waiting", "slots", "succeed"} \cup Executing => djob[j].err = "none"
    /\ djob[j].pc = "none" => drecord[j] = "none"

(* A job that is about to be removed has a record, one that is removed is gone. *)
RemoveInv ==
  \A c \in Caller :
    /\ dcall[c].pc = "remove" => dcall[c].job \in QueueJob /\ drecord[dcall[c].job] # "none"
    /\ dcall[c].pc = "tx" => dcall[c].job \in QueueJob /\ djob[dcall[c].job].pc = "gone"

(* While no worker dies, a job that waits or comes back is QUEUED on record. *)
QueuedInv ==
  "crash" \notin dfaults =>
    \A j \in QueueJob :
      /\ djob[j].pc = "waiting" => drecord[j] \in {"none", "QUEUED"}
      /\ djob[j].pc \in {"handle2", "finally"} /\ djob[j].err = "busy" => drecord[j] = "QUEUED"
      /\ djob[j].pc = "finally" /\ ShouldRetry(j) => drecord[j] = "QUEUED"

(* Calls that do not overlap are alone, with the record they have read. *)
AloneInv ==
  "overlap" \notin dfaults =>
    /\ \A c, d \in Caller : dcall[c].pc # "idle" /\ dcall[d].pc # "idle" => c = d
    /\ \A c \in Caller : dcall[c].pc = "remove" => drecord[dcall[c].job] = "QUEUED"

BackInv == JobTypeOK /\ PendInv /\ ErrInv /\ RemoveInv /\ QueuedInv /\ AloneInv

(* A step that gives the deployment neither status and takes nothing away that
   stands behind it.                                                       *)
LEMMA PendKept ==
  ASSUME PendInv, dfaults' = dfaults,
         dstatus' \in {"PENDING", "BUILDING"} => dstatus \in {"PENDING", "BUILDING"},
         \A j \in QueueJob : Backs(j) => Backs(j)',
         \A c \in Caller : CallBacks(c) => CallBacks(c)'
  PROVE  PendInv'
  BY DEF PendInv

(* One step of the worker: other jobs and the calls stay as they are, a record
   is never forgotten, and the job was neither gone nor unknown.            *)
LEMMA WorkFrame ==
  ASSUME JobTypeOK, NEW j \in QueueJob, Work(j) \/ Crash(j)
  PROVE  /\ \A i \in QueueJob \ {j} : djob'[i] = djob[i] /\ drecord'[i] = drecord[i]
         /\ dcall' = dcall /\ dfaults' = dfaults
         /\ drecord[j] # "none" => drecord'[j] # "none"
         /\ djob[j].pc \notin {"none", "gone"} /\ djob'[j].pc # "none"
  <1> DEFINE Frame ==
        /\ \A i \in QueueJob \ {j} : djob'[i] = djob[i] /\ drecord'[i] = drecord[i]
        /\ dcall' = dcall /\ dfaults' = dfaults
        /\ drecord[j] # "none" => drecord'[j] # "none"
        /\ djob[j].pc \notin {"none", "gone"} /\ djob'[j].pc # "none"
  <1> USE DEF JobTypeOK, JobType, JobAt, JobGoto, Throw, SetStatus
  <1>1. ASSUME PickUp(j) \/ Acquire(j) \/ SlotBusy(j) \/ SourceMissing(j) \/ Start(j) PROVE Frame
    BY <1>1 DEF PickUp, Acquire, SlotBusy, SourceMissing, Start
  <1>2. ASSUME Build(j) \/ BeginRelease(j) \/ Deploy(j) \/ Verify(j) \/ Activate(j) \/ GoLive(j) PROVE Frame
    BY <1>2 DEF Build, BeginRelease, Deploy, Verify, Activate, GoLive
  <1>3. ASSUME Preflight(j) PROVE Frame
    BY <1>3 DEF Preflight
  <1>4. ASSUME Fail(j) PROVE Frame
    BY <1>4 DEF Fail
  <1>5. ASSUME Undo(j) \/ Unlock(j) \/ Succeed(j) PROVE Frame
    BY <1>5 DEF Undo, Unlock, Succeed
  <1>6. ASSUME Handle(j) PROVE Frame
    BY <1>6 DEF Handle, WriteRecord, SettledRecord
  <1>7. ASSUME Handle2(j) PROVE Frame
    BY <1>7 DEF Handle2, WriteRecord, SettledRecord
  <1>8. ASSUME Finally(j) PROVE Frame
    BY <1>8 DEF Finally
  <1>9. ASSUME Crash(j) PROVE Frame
    BY <1>9 DEF Crash, Active, Executing, Settling
  <1> QED
    BY <1>1, <1>2, <1>3, <1>4, <1>5, <1>6, <1>7, <1>8, <1>9 DEF Work, Execute

(* The errors and records of the job after a step of the worker. *)
LEMMA WorkErr ==
  ASSUME BackInv, NEW j \in QueueJob, Work(j) \/ Crash(j)
  PROVE  ErrInv'
  <1> DEFINE Ok == djob'[j].pc \in {"none", "waiting", "slots", "succeed"} \cup Executing => djob'[j].err = "none"
  <1>0. /\ \A i \in QueueJob \ {j} : djob'[i] = djob[i] /\ drecord'[i] = drecord[i]
        /\ djob'[j].pc # "none"
    BY WorkFrame DEF BackInv
  <1> SUFFICES Ok
    BY <1>0 DEF BackInv, ErrInv
  <1> USE DEF BackInv, ErrInv, JobTypeOK, JobType, JobAt, JobGoto, Throw, SetStatus, Executing
  <1>1. ASSUME PickUp(j) \/ Acquire(j) \/ SlotBusy(j) \/ SourceMissing(j) \/ Start(j) PROVE Ok
    BY <1>1 DEF PickUp, Acquire, SlotBusy, SourceMissing, Start
  <1>2. ASSUME Build(j) \/ BeginRelease(j) \/ Deploy(j) \/ Verify(j) \/ Activate(j) \/ GoLive(j) PROVE Ok
    BY <1>2 DEF Build, BeginRelease, Deploy, Verify, Activate, GoLive
  <1>3. ASSUME Preflight(j) PROVE Ok
    BY <1>3 DEF Preflight
  <1>4. ASSUME Fail(j) PROVE Ok
    BY <1>4 DEF Fail
  <1>5. ASSUME Undo(j) \/ Unlock(j) \/ Succeed(j) PROVE Ok
    BY <1>5 DEF Undo, Unlock, Succeed
  <1>6. ASSUME Handle(j) PROVE Ok
    BY <1>6 DEF Handle
  <1>7. ASSUME Handle2(j) PROVE Ok
    BY <1>7 DEF Handle2
  <1>8. ASSUME Finally(j) PROVE Ok
    BY <1>8 DEF Finally
  <1>9. ASSUME Crash(j) PROVE Ok
    BY <1>9 DEF Crash
  <1> QED
    BY <1>1, <1>2, <1>3, <1>4, <1>5, <1>6, <1>7, <1>8, <1>9 DEF Work, Execute

(* The record of a job that comes back. *)
LEMMA WorkQueued ==
  ASSUME BackInv, NEW j \in QueueJob, Work(j) \/ Crash(j)
  PROVE  QueuedInv'
  <1> DEFINE Ok ==
        /\ djob'[j].pc = "waiting" => drecord'[j] \in {"none", "QUEUED"}
        /\ djob'[j].pc \in {"handle2", "finally"} /\ djob'[j].err = "busy" => drecord'[j] = "QUEUED"
        /\ djob'[j].pc = "finally" /\ ShouldRetry(j)' => drecord'[j] = "QUEUED"
  <1>0. /\ \A i \in QueueJob \ {j} : djob'[i] = djob[i] /\ drecord'[i] = drecord[i]
        /\ dfaults' = dfaults
    BY WorkFrame DEF BackInv
  <1> SUFFICES ASSUME "crash" \notin dfaults PROVE Ok
    BY <1>0 DEF BackInv, QueuedInv, ShouldRetry
  <1> USE DEF BackInv, ErrInv, QueuedInv, JobTypeOK, JobType, JobAt, JobGoto, Throw, SetStatus, ShouldRetry
  <1>1. ASSUME PickUp(j) \/ Acquire(j) \/ SlotBusy(j) \/ SourceMissing(j) \/ Start(j) PROVE Ok
    BY <1>1 DEF PickUp, Acquire, SlotBusy, SourceMissing, Start
  <1>2. ASSUME Build(j) \/ BeginRelease(j) \/ Deploy(j) \/ Verify(j) \/ Activate(j) \/ GoLive(j) PROVE Ok
    BY <1>2 DEF Build, BeginRelease, Deploy, Verify, Activate, GoLive
  <1>3. ASSUME Preflight(j) PROVE Ok
    BY <1>3 DEF Preflight
  <1>4. ASSUME Fail(j) PROVE Ok
    BY <1>4 DEF Fail
  <1>5. ASSUME Undo(j) \/ Unlock(j) \/ Succeed(j) PROVE Ok
    BY <1>5 DEF Undo, Unlock, Succeed
  <1>6. ASSUME Handle(j) PROVE Ok
    BY <1>6 DEF Handle, RecordFirst, WriteRecord, SettledRecord, Retained
  <1>7. ASSUME Handle2(j) PROVE Ok
    BY <1>7 DEF Handle2, RecordFirst, WriteRecord, SettledRecord, Retained
  <1>8. ASSUME Finally(j) PROVE Ok
    BY <1>8 DEF Finally, Retained
  <1>9. ASSUME Crash(j) PROVE Ok
    BY <1>9 DEF Crash
  <1> QED
    BY <1>1, <1>2, <1>3, <1>4, <1>5, <1>6, <1>7, <1>8, <1>9 DEF Work, Execute

(* A step of the worker leaves the job behind the deployment, or the deployment
   with another status, or everything as it was.                           *)
LEMMA WorkPend ==
  ASSUME BackInv, NEW j \in QueueJob, Work(j) \/ Crash(j)
  PROVE  PendInv'
  <1> DEFINE Ok == \/ Backs(j)'
                   \/ dstatus' \notin {"PENDING", "BUILDING"}
                   \/ dstatus' = dstatus /\ ~Backs(j)
  <1>0. /\ \A i \in QueueJob \ {j} : djob'[i] = djob[i] /\ drecord'[i] = drecord[i]
        /\ dcall' = dcall /\ dfaults' = dfaults /\ djob[j].pc # "gone"
    BY WorkFrame DEF BackInv
  <1>1. ASSUME Ok PROVE PendInv'
    <2>1. CASE Backs(j)'
      BY <2>1 DEF PendInv
    <2>2. CASE dstatus' \notin {"PENDING", "BUILDING"}
      BY <2>2 DEF PendInv
    <2>3. CASE dstatus' = dstatus /\ ~Backs(j)
      <3>1. \A i \in QueueJob : Backs(i) => Backs(i)'
        BY <1>0, <2>3 DEF Backs, Retained, ShouldRetry
      <3>2. \A c \in Caller : CallBacks(c) => CallBacks(c)'
        BY <1>0 DEF BackInv, RemoveInv, CallBacks
      <3> QED
        BY <1>0, <2>3, <3>1, <3>2, PendKept DEF BackInv
    <2> QED
      BY <1>1, <2>1, <2>2, <2>3
  <1> SUFFICES Ok
    BY <1>1
  <1> USE DEF BackInv, ErrInv, JobTypeOK, JobType, JobAt, JobGoto, Throw, SetStatus, Backs, Executing
  <1>2. ASSUME PickUp(j) \/ Acquire(j) \/ SlotBusy(j) \/ SourceMissing(j) \/ Start(j) PROVE Ok
    BY <1>2 DEF PickUp, Acquire, SlotBusy, SourceMissing, Start
  <1>3. ASSUME Build(j) \/ BeginRelease(j) \/ Deploy(j) \/ Verify(j) \/ Activate(j) \/ GoLive(j) PROVE Ok
    BY <1>3 DEF Build, BeginRelease, Deploy, Verify, Activate, GoLive
  <1>4. ASSUME Preflight(j) PROVE Ok
    BY <1>4 DEF Preflight
  <1>5. ASSUME Fail(j) PROVE Ok
    BY <1>5 DEF Fail
  <1>6. ASSUME Undo(j) PROVE Ok
    BY <1>6 DEF Undo, Outcome
  <1>7. ASSUME Unlock(j) PROVE Ok
    BY <1>7 DEF Unlock
  <1>8. ASSUME Handle(j) PROVE Ok
    BY <1>8 DEF Handle, RecordFirst, WriteStatus, WriteRecord, Retained, ShouldRetry
  <1>9. ASSUME Handle2(j) PROVE Ok
    BY <1>9 DEF Handle2, RecordFirst, WriteStatus, WriteRecord, Retained, ShouldRetry
  <1>10. ASSUME Succeed(j) PROVE Ok
    BY <1>10 DEF Succeed
  <1>11. ASSUME Finally(j) PROVE Ok
    BY <1>11 DEF Finally
  <1>12. ASSUME Crash(j) PROVE Ok
    BY <1>12 DEF Crash
  <1> QED
    BY <1>2, <1>3, <1>4, <1>5, <1>6, <1>7, <1>8, <1>9, <1>10, <1>11, <1>12 DEF Work, Execute

(* The worker keeps all of it. *)
LEMMA WorkBack ==
  ASSUME BackInv, NEW j \in QueueJob, Uninterrupted, Work(j) \/ Crash(j)
  PROVE  BackInv'
  <1>0. /\ \A i \in QueueJob \ {j} : djob'[i] = djob[i] /\ drecord'[i] = drecord[i]
        /\ dcall' = dcall /\ dfaults' = dfaults
        /\ drecord[j] # "none" => drecord'[j] # "none"
        /\ djob[j].pc # "gone"
    BY WorkFrame DEF BackInv
  <1>1. JobTypeOK'
    BY BeginTypes, RunTypes, SettleTypes DEF BackInv, Work, Execute
  <1>2. RemoveInv'
    BY <1>0 DEF BackInv, RemoveInv
  <1>3. AloneInv'
    BY <1>0 DEF BackInv, AloneInv, Uninterrupted, Calling
  <1> QED
    BY <1>1, <1>2, <1>3, WorkPend, WorkErr, WorkQueued DEF BackInv

(* The requests: a call begins, a new deployment says PENDING. *)
LEMMA RequestBack ==
  ASSUME BackInv, NEW c \in Caller, Request(c)
  PROVE  BackInv'
  <1> USE DEF BackInv, JobTypeOK, CallType, Idle
  <1>1. /\ djob' = djob /\ drecord' = drecord /\ dfaults' = dfaults
        /\ \A d \in Caller \ {c} : dcall'[d] = dcall[d]
        /\ dcall[c] = Idle /\ Uninterrupted
        /\ dcall'[c].pc \in {"idle", "reserve", "remove", "key"}
        /\ dcall'[c].pc = "remove" => dcall'[c].job \in QueueJob /\ drecord[dcall'[c].job] = "QUEUED"
    BY DEF Request, CreateDeployment, RequestApproval, RequestRetry, CancelCanceled, CancelQueued, CancelRunning, MayCall, MayResume
  <1>2. JobTypeOK'
    BY RequestTypes DEF BackInv
  <1>3. PendInv'
    <2>1. CASE CreateDeployment(c)
      <3>1. CallBacks(c)'
        BY <2>1 DEF CreateDeployment, CallBacks
      <3> QED
        BY <3>1 DEF PendInv
    <2>2. CASE ~CreateDeployment(c)
      <3>1. dstatus' = dstatus
        BY <2>2 DEF Request, RequestApproval, RequestRetry, CancelCanceled, CancelQueued, CancelRunning
      <3>2. \A d \in Caller : CallBacks(d) => CallBacks(d)'
        BY <1>1 DEF CallBacks
      <3>3. \A j \in QueueJob : Backs(j) => Backs(j)'
        BY <1>1 DEF Backs, Retained, ShouldRetry
      <3> QED
        BY <1>1, <3>1, <3>2, <3>3, PendKept
    <2> QED
      BY <2>1, <2>2
  <1>4. RemoveInv'
    BY <1>1 DEF RemoveInv
  <1>5. AloneInv'
    BY <1>1 DEF AloneInv, Uninterrupted, Calling
  <1>6. ErrInv' /\ QueuedInv'
    BY <1>1 DEF ErrInv, QueuedInv, ShouldRetry
  <1> QED
    BY <1>2, <1>3, <1>4, <1>5, <1>6

(* A call that goes on: what it does to the jobs, the records and the calls. *)
LEMMA ProceedFrame ==
  ASSUME BackInv, NEW c \in Caller, Proceed(c)
  PROVE  /\ dfaults' = dfaults
         /\ \A d \in Caller \ {c} : dcall'[d] = dcall[d]
         /\ dcall[c].pc # "idle" /\ dcall'[c].pc # "remove"
         /\ dcall'[c].pc = "tx" => dcall'[c].job \in QueueJob /\ djob'[dcall'[c].job].pc = "gone"
         /\ \A i \in QueueJob :
              \/ djob'[i] = djob[i]
              \/ djob[i].pc = "none" /\ djob'[i].pc = "waiting" /\ djob'[i].err = "none" /\ drecord[i] = "none"
              \/ djob[i].pc = "waiting" /\ djob'[i].pc = "gone"
         /\ \A i \in QueueJob : drecord'[i] = drecord[i] \/ (djob[i].pc = "gone" /\ drecord'[i] = "CANCELED")
         /\ \A d \in Caller \ {c} : dcall[d].pc = "remove" /\ "overlap" \notin dfaults => drecord' = drecord
  <1> DEFINE Frame ==
        /\ dfaults' = dfaults
        /\ \A d \in Caller \ {c} : dcall'[d] = dcall[d]
        /\ dcall[c].pc # "idle" /\ dcall'[c].pc # "remove"
        /\ dcall'[c].pc = "tx" => dcall'[c].job \in QueueJob /\ djob'[dcall'[c].job].pc = "gone"
        /\ \A i \in QueueJob :
             \/ djob'[i] = djob[i]
             \/ djob[i].pc = "none" /\ djob'[i].pc = "waiting" /\ djob'[i].err = "none" /\ drecord[i] = "none"
             \/ djob[i].pc = "waiting" /\ djob'[i].pc = "gone"
        /\ \A i \in QueueJob : drecord'[i] = drecord[i] \/ (djob[i].pc = "gone" /\ drecord'[i] = "CANCELED")
        /\ \A d \in Caller \ {c} : dcall[d].pc = "remove" /\ "overlap" \notin dfaults => drecord' = drecord
  <1> USE DEF BackInv, JobTypeOK, CallType, JobType, CallGoto, Return, Idle, CallAt, JobAt, JobGoto
  <1>1. ASSUME ReserveCapacity(c) PROVE Frame
    BY <1>1 DEF ReserveCapacity
  <1>2. ASSUME MakePending(c) \/ AddFails(c) \/ CancelKey(c) \/ CancelMark(c) PROVE Frame
    BY <1>2 DEF MakePending, AddFails, CancelKey, CancelMark
  <1>3. ASSUME AddJob(c) PROVE Frame
    <2>1. PICK j \in QueueJob : JobAt(j, "none") /\ JobGoto(j, "waiting")
      BY <1>3 DEF AddJob
    <2>2. djob[j].err = "none" /\ drecord[j] = "none"
      BY <2>1 DEF ErrInv
    <2> QED
      BY <1>3, <2>1, <2>2 DEF AddJob
  <1>4. ASSUME CancelRemove(c) PROVE Frame
    <2> DEFINE j == dcall[c].job
    <2>1. j \in QueueJob /\ drecord[j] # "none" /\ djob[j].pc # "none"
      BY <1>4 DEF CancelRemove, RemoveInv, ErrInv
    <2>2. djob[j].pc \in {"waiting", "gone"} \cup Active
      BY <2>1 DEF Step
    <2>3. CASE djob[j].pc \in Active
      BY <1>4, <2>3 DEF CancelRemove
    <2>4. CASE djob[j].pc \notin Active /\ djob[j].pc = "waiting"
      BY <1>4, <2>1, <2>4 DEF CancelRemove
    <2>5. CASE djob[j].pc \notin Active /\ djob[j].pc = "gone"
      BY <1>4, <2>1, <2>5 DEF CancelRemove
    <2> QED
      BY <2>2, <2>3, <2>4, <2>5
  <1>5. ASSUME CancelCommit(c) PROVE Frame
    BY <1>5 DEF CancelCommit, RemoveInv, AloneInv
  <1> QED
    BY <1>1, <1>2, <1>3, <1>4, <1>5 DEF Proceed

(* A call that goes on leaves a job or itself behind the deployment, or the
   deployment with another status, or takes nothing away.                  *)
LEMMA ProceedPend ==
  ASSUME BackInv, NEW c \in Caller, Proceed(c)
  PROVE  PendInv'
  <1> USE DEF JobTypeOK, CallType, JobType, CallGoto, Return, Idle, CallAt, JobAt, JobGoto
  <1>0. /\ dfaults' = dfaults
        /\ \A d \in Caller \ {c} : dcall'[d] = dcall[d]
        /\ \A i \in QueueJob : drecord'[i] = drecord[i] \/ (djob[i].pc = "gone" /\ drecord'[i] = "CANCELED")
    BY ProceedFrame
  <1>1. ASSUME CallBacks(c)' PROVE PendInv'
    BY <1>1 DEF PendInv
  <1>2. ASSUME dstatus' \notin {"PENDING", "BUILDING"} PROVE PendInv'
    BY <1>2 DEF PendInv
  <1>3. ASSUME dstatus' = dstatus, djob' = djob, drecord' = drecord, ~CallBacks(c) PROVE PendInv'
    <2>1. \A d \in Caller : CallBacks(d) => CallBacks(d)'
      BY <1>0, <1>3 DEF CallBacks
    <2>2. \A j \in QueueJob : Backs(j) => Backs(j)'
      BY <1>3 DEF Backs, Retained, ShouldRetry
    <2> QED
      BY <1>0, <1>3, <2>1, <2>2, PendKept DEF BackInv
  <1>4. CASE ReserveCapacity(c)
    <2>1. CASE CallBacks(c)' \/ dstatus' \notin {"PENDING", "BUILDING"}
      BY <1>1, <1>2, <2>1
    <2>2. CASE ~CallBacks(c)' /\ dstatus' \in {"PENDING", "BUILDING"}
      <3>1. dstatus' = dstatus /\ djob' = djob /\ drecord' = drecord /\ ~CallBacks(c)
        BY <1>4, <2>2 DEF BackInv, ReserveCapacity, CallBacks
      <3> QED
        BY <1>3, <3>1
    <2> QED
      BY <2>1, <2>2
  <1>5. CASE MakePending(c)
    <2>1. CallBacks(c)'
      BY <1>5 DEF BackInv, MakePending, CallBacks
    <2> QED
      BY <1>1, <2>1
  <1>6. CASE AddJob(c)
    <2>1. PICK j \in QueueJob : JobGoto(j, "waiting")
      BY <1>6 DEF AddJob
    <2>2. Backs(j)'
      BY <2>1 DEF BackInv, Backs
    <2> QED
      BY <2>2 DEF PendInv
  <1>7. CASE AddFails(c) \/ CancelMark(c)
    <2>1. dstatus' \notin {"PENDING", "BUILDING"}
      BY <1>7 DEF AddFails, CancelMark
    <2> QED
      BY <1>2, <2>1
  <1>8. CASE CancelRemove(c)
    <2> DEFINE j == dcall[c].job
    <2>1. /\ j \in QueueJob /\ drecord[j] # "none" /\ ~CallBacks(c)
          /\ dstatus' = dstatus /\ drecord' = drecord
      BY <1>8 DEF BackInv, CancelRemove, RemoveInv, CallBacks
    <2>2. CASE djob' = djob
      BY <1>3, <2>1, <2>2
    <2>3. CASE djob' # djob
      <3>1. djob[j].pc = "waiting" /\ dcall' = [dcall EXCEPT ![c].pc = "tx"]
        BY <1>8, <2>3 DEF CancelRemove
      <3>2. dfaults # JobFault => drecord[j] = "QUEUED"
        <4>1. "crash" \notin dfaults => drecord[j] = "QUEUED"
          BY <2>1, <3>1 DEF BackInv, QueuedInv
        <4>2. "overlap" \notin dfaults => drecord[j] = "QUEUED"
          BY <1>8 DEF BackInv, AloneInv, CancelRemove
        <4>3. dfaults # JobFault => "crash" \notin dfaults \/ "overlap" \notin dfaults
          BY DEF BackInv, JobFault
        <4> QED
          BY <4>1, <4>2, <4>3
      <3>3. dfaults # JobFault => CallBacks(c)'
        BY <2>1, <3>1, <3>2 DEF BackInv, CallBacks
      <3> QED
        BY <1>0, <3>3 DEF PendInv
    <2> QED
      BY <2>2, <2>3
  <1>9. CASE CancelCommit(c)
    <2>1. CASE drecord[dcall[c].job] = "QUEUED"
      <3>1. dstatus' = "CANCELED"
        BY <1>9, <2>1 DEF CancelCommit
      <3> QED
        BY <1>2, <3>1
    <2>2. CASE drecord[dcall[c].job] # "QUEUED"
      <3>1. dstatus' = dstatus /\ djob' = djob /\ drecord' = drecord /\ ~CallBacks(c)
        BY <1>9, <2>2 DEF CancelCommit, CallBacks
      <3> QED
        BY <1>3, <3>1
    <2> QED
      BY <2>1, <2>2
  <1>10. CASE CancelKey(c)
    <2>1. dstatus' = dstatus /\ djob' = djob /\ drecord' = drecord /\ ~CallBacks(c)
      BY <1>10 DEF CancelKey, CallBacks
    <2> QED
      BY <1>3, <2>1
  <1> QED
    BY <1>4, <1>5, <1>6, <1>7, <1>8, <1>9, <1>10 DEF Proceed

(* The calls that go on keep all of it. *)
LEMMA ProceedBack ==
  ASSUME BackInv, NEW c \in Caller, Proceed(c)
  PROVE  BackInv'
  <1>0. /\ dfaults' = dfaults
        /\ \A d \in Caller \ {c} : dcall'[d] = dcall[d]
        /\ dcall[c].pc # "idle" /\ dcall'[c].pc # "remove"
        /\ dcall'[c].pc = "tx" => dcall'[c].job \in QueueJob /\ djob'[dcall'[c].job].pc = "gone"
        /\ \A i \in QueueJob :
             \/ djob'[i] = djob[i]
             \/ djob[i].pc = "none" /\ djob'[i].pc = "waiting" /\ djob'[i].err = "none" /\ drecord[i] = "none"
             \/ djob[i].pc = "waiting" /\ djob'[i].pc = "gone"
        /\ \A i \in QueueJob : drecord'[i] = drecord[i] \/ (djob[i].pc = "gone" /\ drecord'[i] = "CANCELED")
        /\ \A d \in Caller \ {c} : dcall[d].pc = "remove" /\ "overlap" \notin dfaults => drecord' = drecord
    BY ProceedFrame
  <1>1. JobTypeOK'
    BY ProceedTypes DEF BackInv
  <1>2. RemoveInv'
    BY <1>0 DEF BackInv, RemoveInv
  <1>3. AloneInv'
    BY <1>0 DEF BackInv, AloneInv
  <1>4. ErrInv'
    BY <1>0 DEF BackInv, ErrInv, Executing
  <1>5. QueuedInv'
    BY <1>0 DEF BackInv, QueuedInv, ShouldRetry
  <1> QED
    BY <1>1, <1>2, <1>3, <1>4, <1>5, ProceedPend DEF BackInv

(* In the initial state nothing is pending. *)
LEMMA BackInit == JobInit => BackInv
  <1> SUFFICES ASSUME JobInit PROVE BackInv
    OBVIOUS
  <1>1. JobTypeOK
    BY InitTypes
  <1>2. PendInv
    BY DEF JobInit, PendInv
  <1>3. ErrInv /\ QueuedInv
    BY DEF JobInit, ErrInv, QueuedInv, Executing, ShouldRetry
  <1>4. RemoveInv /\ AloneInv
    BY DEF JobInit, RemoveInv, AloneInv, Idle
  <1> QED
    BY <1>1, <1>2, <1>3, <1>4 DEF BackInv

(* Every step leaves a pending deployment somebody who goes on with it. *)
LEMMA BackStep == BackInv /\ [JobNext]_jobVars => BackInv'
  <1> SUFFICES ASSUME BackInv, [JobNext]_jobVars PROVE BackInv'
    OBVIOUS
  <1>1. ASSUME NEW j \in QueueJob, Uninterrupted, Work(j) \/ Crash(j) PROVE BackInv'
    BY <1>1, WorkBack
  <1>2. ASSUME NEW c \in Caller, Request(c) \/ Proceed(c) PROVE BackInv'
    BY <1>2, RequestBack, ProceedBack
  <1>3. ASSUME UNCHANGED jobVars PROVE BackInv'
    BY <1>3 DEF jobVars, BackInv, JobTypeOK, PendInv, ErrInv, RemoveInv, QueuedInv, AloneInv,
                Backs, CallBacks, Retained, ShouldRetry
  <1>4. CASE JobNext
    <2>1. \/ \E j \in QueueJob : Uninterrupted /\ (Work(j) \/ Crash(j))
          \/ \E c \in Caller : Request(c) \/ Proceed(c)
      BY <1>4 DEF JobNext
    <2> QED
      BY <2>1, <1>1, <1>2
  <1> QED
    BY <1>3, <1>4

(* The invariant is inductive. *)
THEOREM BackInductive == JobSpec => []BackInv
  BY BackInit, BackStep, PTL DEF JobSpec

(* Who goes on with a deployment is a request or a job that lives. *)
LEMMA BackMeans == BackInv => PendingIsBacked
  <1> SUFFICES ASSUME BackInv, dstatus \in {"PENDING", "BUILDING"}, dfaults # JobFault
               PROVE  Calling \/ \E j \in QueueJob : Live(j)
    BY DEF PendingIsBacked
  <1>1. (\E j \in QueueJob : Backs(j)) \/ (\E c \in Caller : CallBacks(c))
    BY DEF BackInv, PendInv
  <1>2. \A j \in QueueJob : Backs(j) => Live(j)
    BY DEF Backs, Live, Active, Settling
  <1>3. \A c \in Caller : CallBacks(c) => dcall[c].pc # "idle"
    BY DEF CallBacks
  <1> QED
    BY <1>1, <1>2, <1>3 DEF Calling

(* A deployment that says PENDING or BUILDING has a job in the queue or in a
   worker, or a call that goes on (deploymentWorker, DeploymentLifecycleService),
   unless a death and an overlapping call come together.                   *)
THEOREM PendingBacked == JobSpec => []PendingIsBacked
  BY BackMeans, BackInductive, PTL

------------------------------------------------------------------------------
(* A cancellation that is final, and the reservation of a deployment that waits: as
   long as calls do not overlap the end of a run and no worker has died.    *)

JobsQuiet == "overlap" \notin dfaults /\ NobodyDied

(* A job whose record may say QUEUED: it waits, or it is on its way back. *)
Queues(j) ==
  \/ djob[j].pc \in {"waiting", "slots"}
  \/ djob[j].pc = "handle" /\ djob[j].err = "busy"
  \/ djob[j].pc \in {"handle2", "finally"} /\ Retained(j)

(* A job that settles a cancellation. *)
Cancels(j) == djob[j].pc \in {"unlock", "handle", "handle2", "finally"} /\ djob[j].err = "cancel"

(* The deployment has one job at a time, with the reservation unless it is canceled. *)
SoleInv ==
  JobsQuiet =>
    /\ \A i, j \in QueueJob : Live(i) /\ Live(j) => i = j
    /\ \A j \in QueueJob :
         /\ drecord[j] = "QUEUED" =>
              Queues(j) \/ \E c \in Caller : dcall[c].pc = "tx" /\ dcall[c].job = j
         /\ Live(j) /\ djob[j].err # "cancel" => dreserved
    /\ dstatus = "NONE" => dlatest = NoJob /\ \A j \in QueueJob : ~Live(j)

(* What a call knows: a call that will add a job, or has removed one, is alone with
   the deployment, and a reservation it made is still there.                *)
SoleCallInv ==
  JobsQuiet =>
    \A c \in Caller :
      /\ dcall[c].pc \in {"reserve", "pend", "add", "tx"} => \A j \in QueueJob : ~Live(j)
      /\ dcall[c].pc = "remove" => \A j \in QueueJob : Live(j) => j = dcall[c].job /\ djob[j].pc = "waiting"
      /\ dcall[c].pc \in {"pend", "add"} => dreserved
      /\ dcall[c].pc # "idle" => dstatus \notin {"NONE", "CANCELED"}

(* Nothing but the rest of its own cancellation works on a canceled deployment. *)
CancelInv == JobsQuiet /\ dstatus = "CANCELED" => \A j \in QueueJob : Live(j) => Cancels(j)

(* What a reservation belongs to: a job, or a call that has just made it or is about to
   add the job for it.  Only a death with an overlapping call may break that. *)
HoldsCall(c) ==
  \/ dcall[c].pc \in {"pend", "add"}
  \/ dcall[c].pc = "tx" /\ drecord[dcall[c].job] = "QUEUED"

HoldInv ==
  dreserved /\ dfaults # JobFault =>
    (\E j \in QueueJob : Live(j)) \/ (\E c \in Caller : HoldsCall(c))

FinalInv == BackInv /\ SoleInv /\ SoleCallInv /\ CancelInv

(* A step of the one job there is, and a canceled deployment stays canceled. *)
LEMMA WorkFinal ==
  ASSUME FinalInv, NEW j \in QueueJob, Uninterrupted, Work(j)
  PROVE  /\ SoleInv' /\ SoleCallInv' /\ CancelInv'
         /\ JobsQuiet /\ dstatus = "CANCELED" => dstatus' = "CANCELED"
  <1> DEFINE Ok ==
        /\ drecord'[j] = "QUEUED" => Queues(j)'
        /\ Live(j)' /\ djob'[j].err # "cancel" => dreserved'
        /\ dstatus' # "NONE"
        /\ dstatus' = "CANCELED" /\ Live(j)' => Cancels(j)'
        /\ dstatus = "CANCELED" => dstatus' = "CANCELED"
  <1> DEFINE Stalls == djob'[j].stalls = djob[j].stalls
  <1>0. /\ \A i \in QueueJob \ {j} : djob'[i] = djob[i] /\ drecord'[i] = drecord[i]
        /\ dcall' = dcall /\ dfaults' = dfaults
        /\ Live(j)
    <2>1. djob[j].pc \in Step /\ djob[j].pc \notin {"none", "gone"}
      BY WorkFrame DEF FinalInv, BackInv, JobTypeOK, JobType
    <2> QED
      BY <2>1, WorkFrame DEF FinalInv, BackInv, Live, Step
  <1>1. Stalls
    <2> USE DEF FinalInv, BackInv, JobTypeOK, JobType, JobAt, JobGoto, Throw, SetStatus
    <2>1. ASSUME PickUp(j) \/ Acquire(j) \/ SlotBusy(j) \/ SourceMissing(j) \/ Start(j) PROVE Stalls
      BY <2>1 DEF PickUp, Acquire, SlotBusy, SourceMissing, Start
    <2>2. ASSUME Build(j) \/ BeginRelease(j) \/ Deploy(j) \/ Verify(j) \/ Activate(j) \/ GoLive(j) PROVE Stalls
      BY <2>2 DEF Build, BeginRelease, Deploy, Verify, Activate, GoLive
    <2>3. ASSUME Preflight(j) \/ Fail(j) PROVE Stalls
      BY <2>3 DEF Preflight, Fail
    <2>4. ASSUME Undo(j) \/ Unlock(j) \/ Succeed(j) \/ Handle(j) \/ Handle2(j) \/ Finally(j) PROVE Stalls
      BY <2>4 DEF Undo, Unlock, Succeed, Handle, Handle2, Finally
    <2> QED
      BY <2>1, <2>2, <2>3, <2>4 DEF Work, Execute
  <1>2. ASSUME JobsQuiet PROVE Ok
    <2>1. /\ dstatus # "NONE"
          /\ dstatus = "CANCELED" => Cancels(j)
          /\ djob[j].err # "cancel" => dreserved
      BY <1>0, <1>2 DEF FinalInv, SoleInv, CancelInv
    <2>2. drecord[j] = "QUEUED" => Queues(j)
      BY <1>2 DEF FinalInv, SoleInv, Uninterrupted, JobsQuiet, Calling
    <2>3. djob[j].pc \in {"none", "waiting", "slots", "succeed"} \cup Executing => djob[j].err = "none"
      BY DEF FinalInv, BackInv, ErrInv
    <2> USE <2>1, <2>2, <2>3 DEF FinalInv, BackInv, JobTypeOK, JobType, JobAt, JobGoto, Throw, SetStatus,
                                 Queues, Cancels, Executing
    <2>4. ASSUME PickUp(j) PROVE Ok
      BY <2>4 DEF PickUp
    <2>5. ASSUME Acquire(j) \/ SlotBusy(j) \/ SourceMissing(j) \/ Start(j) PROVE Ok
      BY <2>5 DEF Acquire, SlotBusy, SourceMissing, Start
    <2>6. ASSUME Build(j) \/ BeginRelease(j) \/ Deploy(j) \/ Verify(j) \/ Activate(j) \/ GoLive(j) PROVE Ok
      BY <2>6 DEF Build, BeginRelease, Deploy, Verify, Activate, GoLive
    <2>7. ASSUME Preflight(j) PROVE Ok
      BY <2>7 DEF Preflight
    <2>8. ASSUME Fail(j) PROVE Ok
      BY <2>8 DEF Fail
    <2>9. ASSUME Undo(j) PROVE Ok
      BY <2>9 DEF Undo, Outcome
    <2>10. ASSUME Unlock(j) \/ Succeed(j) PROVE Ok
      BY <2>10 DEF Unlock, Succeed
    <2>11. ASSUME Handle(j) PROVE Ok
      BY <2>11 DEF Handle, RecordFirst, WriteStatus, WriteRecord, SettledRecord, Retained, ShouldRetry
    <2>12. ASSUME Handle2(j) PROVE Ok
      BY <2>12 DEF Handle2, RecordFirst, WriteStatus, WriteRecord, SettledRecord, Retained, ShouldRetry
    <2>13. ASSUME Finally(j) PROVE Ok
      BY <2>13 DEF Finally, Live, Active, Settling, Retained, ShouldRetry
    <2> QED
      BY <2>4, <2>5, <2>6, <2>7, <2>8, <2>9, <2>10, <2>11, <2>12, <2>13 DEF Work, Execute
  <1>3. JobsQuiet' => JobsQuiet
    BY <1>0, <1>1 DEF JobsQuiet, NobodyDied
  <1>4. ASSUME JobsQuiet PROVE \A i \in QueueJob : (Live(i) => i = j) /\ (Live(i)' => i = j)
    BY <1>0, <1>4 DEF FinalInv, SoleInv, Live
  <1>5. SoleInv'
    BY <1>0, <1>2, <1>3, <1>4 DEF FinalInv, SoleInv, Queues, Retained, ShouldRetry
  <1>6. SoleCallInv'
    BY <1>0, <1>3 DEF SoleCallInv, JobsQuiet, Uninterrupted, Calling
  <1>7. CancelInv'
    BY <1>2, <1>3, <1>4 DEF CancelInv
  <1> QED
    BY <1>2, <1>5, <1>6, <1>7

(* The requests: what they begin on, their guards leave alone with the deployment. *)
LEMMA RequestFinal ==
  ASSUME FinalInv, NEW c \in Caller, Request(c)
  PROVE  /\ SoleInv' /\ SoleCallInv' /\ CancelInv'
         /\ dstatus = "CANCELED" => dstatus' = "CANCELED"
  <1> USE DEF BackInv, JobTypeOK, CallType, Idle
  <1>1. /\ djob' = djob /\ drecord' = drecord /\ dfaults' = dfaults /\ dlatest' = dlatest
        /\ \A d \in Caller \ {c} : dcall'[d] = dcall[d]
        /\ dcall[c] = Idle /\ Uninterrupted
    BY DEF Request, CreateDeployment, RequestApproval, RequestRetry, CancelCanceled, CancelQueued, CancelRunning,
           MayCall, MayResume, FinalInv
  <1>2. JobsQuiet' = JobsQuiet /\ \A j \in QueueJob : Live(j)' = Live(j) /\ Queues(j)' = Queues(j) /\ Cancels(j)' = Cancels(j)
    BY <1>1 DEF JobsQuiet, NobodyDied, Live, Queues, Cancels, Retained, ShouldRetry
  <1>3. dstatus = "CANCELED" => dstatus' = "CANCELED"
    BY DEF Request, CreateDeployment, RequestApproval, RequestRetry, CancelCanceled, CancelQueued, CancelRunning
  <1> SUFFICES ASSUME JobsQuiet PROVE SoleInv' /\ SoleCallInv' /\ CancelInv'
    BY <1>2, <1>3 DEF SoleInv, SoleCallInv, CancelInv
  <1>4. \A d \in Caller : dcall[d].pc = "idle"
    BY <1>1 DEF JobsQuiet, Uninterrupted, Calling
  <1>5. \A j \in QueueJob : drecord[j] = "QUEUED" => Queues(j)
    BY <1>4 DEF FinalInv, SoleInv
  <1>6. /\ \A i, j \in QueueJob : Live(i) /\ Live(j) => i = j
        /\ \A j \in QueueJob : Live(j) /\ djob[j].err # "cancel" => dreserved
        /\ dstatus = "NONE" => dlatest = NoJob /\ \A j \in QueueJob : ~Live(j)
        /\ dstatus = "CANCELED" => \A j \in QueueJob : Live(j) => djob[j].err = "cancel" /\ Cancels(j)
    BY DEF FinalInv, SoleInv, CancelInv, Cancels
  <1>7. CASE CreateDeployment(c)
    <2>1. /\ dstatus = "NONE" /\ dstatus' = "PENDING" /\ dreserved' = dreserved
          /\ dcall'[c].pc = "reserve"
      BY <1>7 DEF CreateDeployment, FinalInv
    <2> QED
      BY <1>1, <1>2, <1>4, <1>5, <1>6, <2>1 DEF SoleInv, SoleCallInv, CancelInv
  <1>8. CASE RequestApproval(c) \/ RequestRetry(c)
    <2>1. /\ dstatus' = dstatus /\ dstatus \notin {"NONE", "CANCELED"} /\ dreserved' = dreserved
          /\ dcall'[c].pc = "reserve" /\ \A j \in QueueJob : ~Live(j)
      BY <1>8 DEF RequestApproval, RequestRetry, MayResume, JobsQuiet, FinalInv
    <2> QED
      BY <1>1, <1>2, <1>4, <1>5, <1>6, <2>1 DEF SoleInv, SoleCallInv, CancelInv
  <1>9. CASE CancelCanceled(c)
    <2>1. dstatus' = dstatus /\ dstatus = "CANCELED" /\ dcall' = dcall
      BY <1>9 DEF CancelCanceled
    <2> QED
      BY <1>1, <1>2, <1>4, <1>5, <1>6, <2>1 DEF SoleInv, SoleCallInv, CancelInv
  <1>10. CASE CancelQueued(c)
    <2>1. /\ dstatus' = dstatus /\ dstatus # "CANCELED" /\ dreserved' = dreserved
          /\ dlatest \in QueueJob /\ drecord[dlatest] = "QUEUED" /\ djob[dlatest].pc \notin Active
          /\ dlatest # NoJob /\ dcall'[c].pc = "remove" /\ dcall'[c].job = dlatest
      BY <1>10 DEF CancelQueued, JobsQuiet, FinalInv
    <2>2. djob[dlatest].pc = "waiting"
      BY <1>5, <2>1 DEF Queues, Active, Settling
    <2>3. \A j \in QueueJob : Live(j) => j = dlatest /\ djob[j].pc = "waiting"
      BY <1>6, <2>1, <2>2 DEF Live
    <2> QED
      BY <1>1, <1>2, <1>4, <1>5, <1>6, <2>1, <2>3 DEF SoleInv, SoleCallInv, CancelInv
  <1>11. CASE CancelRunning(c)
    <2>1. /\ dstatus' = dstatus /\ dstatus # "CANCELED" /\ dreserved' = dreserved
          /\ dlatest # NoJob /\ dcall'[c].pc = "key"
      BY <1>11 DEF CancelRunning, FinalInv
    <2> QED
      BY <1>1, <1>2, <1>4, <1>5, <1>6, <2>1 DEF SoleInv, SoleCallInv, CancelInv
  <1> QED
    BY <1>7, <1>8, <1>9, <1>10, <1>11 DEF Request

(* A call that goes on adds the only job, or cancels the only one. *)
LEMMA ProceedFinal ==
  ASSUME FinalInv, NEW c \in Caller, Proceed(c)
  PROVE  /\ SoleInv' /\ SoleCallInv' /\ CancelInv'
         /\ JobsQuiet => dstatus # "CANCELED"
  <1> USE DEF BackInv, JobTypeOK, JobType, CallType, CallGoto, Return, Idle, CallAt, JobAt, JobGoto
  <1>1. /\ dfaults' = dfaults
        /\ \A d \in Caller \ {c} : dcall'[d] = dcall[d]
        /\ dcall[c].pc # "idle"
    BY ProceedFrame DEF FinalInv
  <1>2. (djob' = djob \/ \E j \in QueueJob, pc \in Step : djob' = [djob EXCEPT ![j].pc = pc]) /\ dlatest' = dlatest
    <2>1. ASSUME CancelRemove(c) PROVE dcall[c].job \in QueueJob /\ {"gone", "waiting"} \subseteq Step
      BY <2>1 DEF CancelRemove, FinalInv, RemoveInv, Step
    <2> QED
      BY <2>1 DEF Proceed, ReserveCapacity, MakePending, AddJob, AddFails, CancelRemove, CancelCommit, CancelKey, CancelMark, Step
  <1>3. \A j \in QueueJob : djob'[j].stalls = djob[j].stalls /\ djob'[j].err = djob[j].err /\ djob'[j].tries = djob[j].tries
    BY <1>2 DEF FinalInv
  <1>4. JobsQuiet' = JobsQuiet
    BY <1>1, <1>3 DEF JobsQuiet, NobodyDied
  <1>5. JobsQuiet => dstatus \notin {"NONE", "CANCELED"}
    BY <1>1 DEF FinalInv, SoleCallInv
  <1> SUFFICES ASSUME JobsQuiet PROVE SoleInv' /\ SoleCallInv' /\ CancelInv'
    BY <1>4, <1>5 DEF SoleInv, SoleCallInv, CancelInv
  <1>6. \A d \in Caller \ {c} : dcall[d].pc = "idle" /\ dcall'[d].pc = "idle"
    BY <1>1 DEF FinalInv, AloneInv, JobsQuiet
  <1>7. /\ \A i, j \in QueueJob : Live(i) /\ Live(j) => i = j
        /\ \A j \in QueueJob : Live(j) /\ djob[j].err # "cancel" => dreserved
        /\ \A j \in QueueJob : drecord[j] = "QUEUED" => Queues(j) \/ (dcall[c].pc = "tx" /\ dcall[c].job = j)
        /\ dcall[c].pc \in {"reserve", "pend", "add", "tx"} => \A j \in QueueJob : ~Live(j)
        /\ dcall[c].pc = "remove" => \A j \in QueueJob : Live(j) => j = dcall[c].job /\ djob[j].pc = "waiting"
        /\ dcall[c].pc \in {"pend", "add"} => dreserved
    BY <1>6 DEF FinalInv, SoleInv, SoleCallInv
  <1>8. CASE djob' = djob /\ ~CancelCommit(c)
    <2>1. drecord' = drecord /\ dstatus' \notin {"NONE", "CANCELED"}
      BY <1>5, <1>8 DEF Proceed, ReserveCapacity, MakePending, AddJob, AddFails, CancelRemove, CancelKey, CancelMark
    <2>2. \A j \in QueueJob : Live(j)' = Live(j) /\ Queues(j)' = Queues(j)
      BY <1>8 DEF Live, Queues, Retained, ShouldRetry
    <2> DEFINE Ok ==
          /\ dreserved' = dreserved \/ dreserved' = TRUE \/ \A j \in QueueJob : ~Live(j)
          /\ dcall'[c].pc \in {"reserve", "pend", "add", "tx"} => \A j \in QueueJob : ~Live(j)
          /\ dcall'[c].pc # "remove"
          /\ dcall'[c].pc \in {"pend", "add"} => dreserved'
          /\ dcall[c].pc # "tx"
    <2>3. Ok
      <3>1. ASSUME ReserveCapacity(c) \/ MakePending(c) PROVE Ok
        BY <1>7, <3>1 DEF ReserveCapacity, MakePending, FinalInv
      <3>2. ASSUME AddJob(c) \/ AddFails(c) \/ CancelKey(c) \/ CancelMark(c) PROVE Ok
        BY <1>7, <3>2 DEF AddJob, AddFails, CancelKey, CancelMark, FinalInv
      <3>3. ASSUME CancelRemove(c) PROVE Ok
        <4>1. dcall[c].job \in QueueJob /\ djob[dcall[c].job].pc # "none"
          BY <3>3 DEF CancelRemove, FinalInv, RemoveInv, ErrInv
        <4>2. \A j \in QueueJob : djob[j].pc = "waiting" => djob' # djob \/ j # dcall[c].job \/ djob[j].pc \in Active
          BY <3>3 DEF CancelRemove, FinalInv
        <4>3. dcall[c].pc = "remove" /\ dcall'[c].pc \in {"idle", "tx"} /\ dreserved' = dreserved
          BY <3>3 DEF CancelRemove, FinalInv
        <4>4. dcall'[c].pc = "tx" => djob[dcall[c].job].pc \notin Active
          BY <3>3 DEF CancelRemove, FinalInv
        <4> QED
          BY <1>7, <1>8, <4>1, <4>2, <4>3, <4>4
      <3>4. ReserveCapacity(c) \/ MakePending(c) \/ AddJob(c) \/ AddFails(c) \/ CancelRemove(c) \/ CancelKey(c) \/ CancelMark(c)
        BY <1>8 DEF Proceed
      <3> HIDE DEF Ok
      <3> QED
        BY <3>1, <3>2, <3>3, <3>4
    <2>4. SoleInv'
      BY <1>6, <1>7, <1>8, <2>1, <2>2, <2>3 DEF SoleInv
    <2>5. SoleCallInv' /\ CancelInv'
      BY <1>6, <1>7, <1>8, <2>1, <2>2, <2>3 DEF SoleCallInv, CancelInv
    <2> QED
      BY <2>4, <2>5
  <1>9. CASE CancelCommit(c)
    <2>1. /\ dcall[c].pc = "tx" /\ dcall'[c].pc = "idle" /\ djob' = djob
          /\ dcall[c].job \in QueueJob /\ drecord'[dcall[c].job] # "QUEUED"
          /\ \A j \in QueueJob \ {dcall[c].job} : drecord'[j] = drecord[j]
          /\ dstatus' # "NONE"
      BY <1>5, <1>9 DEF CancelCommit, FinalInv, RemoveInv, RecordStatus
    <2>2. \A j \in QueueJob : ~Live(j)' /\ (Queues(j) => Queues(j)')
      BY <1>7, <2>1 DEF Live, Queues, Retained, ShouldRetry
    <2> QED
      BY <1>6, <1>7, <2>1, <2>2 DEF SoleInv, SoleCallInv, CancelInv
  <1>10. CASE AddJob(c)
    <2>1. PICK j \in QueueJob : djob[j].pc = "none" /\ djob' = [djob EXCEPT ![j].pc = "waiting"]
      BY <1>10 DEF AddJob
    <2>2. /\ dcall[c].pc = "add" /\ dcall'[c].pc = "idle" /\ drecord' = drecord /\ dstatus' = dstatus
          /\ dreserved' = dreserved
      BY <1>10 DEF AddJob, FinalInv
    <2>3. \A i \in QueueJob : (Live(i)' => i = j) /\ (Queues(i) => Queues(i)')
      BY <1>7, <2>1, <2>2 DEF Live, Queues, Retained, ShouldRetry, FinalInv
    <2> QED
      BY <1>5, <1>6, <1>7, <2>2, <2>3 DEF SoleInv, SoleCallInv, CancelInv
  <1>11. CASE CancelRemove(c) /\ djob' # djob
    <2> DEFINE j == dcall[c].job
    <2>1. /\ j \in QueueJob /\ djob[j].pc = "waiting" /\ djob' = [djob EXCEPT ![j].pc = "gone"]
          /\ dcall'[c].pc = "tx" /\ dcall'[c].job = j /\ dcall[c].pc = "remove"
          /\ drecord' = drecord /\ dstatus' = dstatus /\ dreserved' = dreserved
      BY <1>11 DEF CancelRemove, FinalInv, RemoveInv
    <2>2. \A i \in QueueJob : ~Live(i)' /\ (Queues(i) => Queues(i)' \/ i = j)
      BY <1>7, <2>1 DEF Live, Queues, Retained, ShouldRetry, FinalInv, Active, Executing, Settling
    <2> QED
      BY <1>5, <1>6, <1>7, <2>1, <2>2 DEF SoleInv, SoleCallInv, CancelInv
  <1>12. djob' = djob \/ AddJob(c) \/ CancelRemove(c)
    BY DEF Proceed, ReserveCapacity, MakePending, AddFails, CancelCommit, CancelKey, CancelMark
  <1> QED
    BY <1>8, <1>9, <1>10, <1>11, <1>12

(* The invariant is inductive, and no step from it revives a canceled deployment. *)
LEMMA FinalStep ==
  ASSUME FinalInv, BackInv', [JobNext]_jobVars
  PROVE  FinalInv' /\ (dstatus = "CANCELED" /\ JobsQuiet => dstatus' = "CANCELED")
  <1>1. ASSUME NEW j \in QueueJob, Uninterrupted, Work(j)
        PROVE  FinalInv' /\ (dstatus = "CANCELED" /\ JobsQuiet => dstatus' = "CANCELED")
    BY <1>1, WorkFinal DEF FinalInv
  <1>2. ASSUME NEW j \in QueueJob, Crash(j)
        PROVE  FinalInv' /\ (dstatus = "CANCELED" /\ JobsQuiet => dstatus' = "CANCELED")
    <2>1. dstatus' = dstatus /\ ~JobsQuiet'
      BY <1>2 DEF Crash, JobsQuiet, NobodyDied, FinalInv, BackInv, JobTypeOK, JobType
    <2> QED
      BY <2>1 DEF FinalInv, SoleInv, SoleCallInv, CancelInv
  <1>3. ASSUME NEW c \in Caller, Request(c) \/ Proceed(c)
        PROVE  FinalInv' /\ (dstatus = "CANCELED" /\ JobsQuiet => dstatus' = "CANCELED")
    BY <1>3, RequestFinal, ProceedFinal DEF FinalInv
  <1>4. ASSUME UNCHANGED jobVars
        PROVE  FinalInv' /\ (dstatus = "CANCELED" /\ JobsQuiet => dstatus' = "CANCELED")
    BY <1>4 DEF jobVars, FinalInv, SoleInv, SoleCallInv, CancelInv, JobsQuiet, NobodyDied, Live, Queues, Cancels,
                Retained, ShouldRetry
  <1>5. CASE JobNext
    <2>1. \/ \E j \in QueueJob : Uninterrupted /\ (Work(j) \/ Crash(j))
          \/ \E c \in Caller : Request(c) \/ Proceed(c)
      BY <1>5 DEF JobNext
    <2> QED
      BY <2>1, <1>1, <1>2, <1>3
  <1> QED
    BY <1>4, <1>5

(* In the initial state nothing has been canceled. *)
LEMMA FinalInit == JobInit /\ BackInv => FinalInv
  BY DEF JobInit, FinalInv, SoleInv, SoleCallInv, CancelInv, Live, Active, Executing, Settling, Idle

(* The invariant is inductive: one job at a time, and none for what is canceled but the
   rest of the cancellation (deploymentWorker, cancelDeployment, retryDeployment). *)
THEOREM FinalInductive == JobSpec => []FinalInv
  <1>2. FinalInv /\ BackInv' /\ [JobNext]_jobVars => FinalInv'
    BY FinalStep
  <1> QED
    BY FinalInit, <1>2, BackInductive, PTL DEF JobSpec

(* Nothing revives a canceled deployment, as long as calls do not overlap the end of a
   run and no worker has died (cancelDeployment, setStatus, deploymentWorker). *)
THEOREM CancellationIsFinal == JobSpec => CanceledIsFinal
  <1>1. FinalInv /\ BackInv' /\ [JobNext]_jobVars
          => [dstatus = "CANCELED" /\ "overlap" \notin dfaults /\ NobodyDied => dstatus' = "CANCELED"]_jobVars
    BY FinalStep DEF JobsQuiet
  <1> QED
    BY <1>1, FinalInductive, BackInductive, PTL DEF JobSpec, CanceledIsFinal

(* A step of the worker leaves the job alive or gives the reservation back. *)
LEMMA WorkHolds ==
  ASSUME BackInv, HoldInv, NEW j \in QueueJob, Work(j) \/ Crash(j)
  PROVE  HoldInv'
  <1> DEFINE Running == {"slots", "start", "build", "checks", "begin", "deploy", "verify", "activate", "final",
                       "undo", "unlock", "handle", "handle2", "succeed", "finally"}
  <1> DEFINE Ok == djob'[j].pc \in Running
  <1>8. Running \subseteq Active
    BY DEF Active, Executing, Settling
  <1> USE DEF BackInv, JobTypeOK, JobType, JobAt, JobGoto, Throw, SetStatus
  <1>1. ASSUME PickUp(j) \/ Acquire(j) \/ SlotBusy(j) \/ SourceMissing(j) \/ Start(j) PROVE Ok
    BY <1>1 DEF PickUp, Acquire, SlotBusy, SourceMissing, Start
  <1>2. ASSUME Build(j) \/ BeginRelease(j) \/ Deploy(j) \/ Verify(j) \/ Activate(j) \/ GoLive(j) PROVE Ok
    BY <1>2 DEF Build, BeginRelease, Deploy, Verify, Activate, GoLive
  <1>3. ASSUME Preflight(j) \/ Fail(j) PROVE Ok
    BY <1>3 DEF Preflight, Fail
  <1>4. ASSUME Undo(j) \/ Unlock(j) \/ Succeed(j) \/ Handle(j) \/ Handle2(j) PROVE Ok
    BY <1>4 DEF Undo, Unlock, Succeed, Handle, Handle2
  <1>5. ASSUME Finally(j) PROVE djob'[j].pc = "waiting" \/ ~dreserved'
    BY <1>5 DEF Finally
  <1>6. ASSUME Crash(j) PROVE djob'[j].pc = "waiting"
    BY <1>6 DEF Crash
  <1>7. Ok \/ djob'[j].pc = "waiting" \/ ~dreserved'
    BY <1>1, <1>2, <1>3, <1>4, <1>5, <1>6 DEF Work, Execute
  <1> QED
    BY <1>7, <1>8 DEF HoldInv, Live

(* A call that goes on holds the reservation itself, hands it to a job, or gives it back. *)
LEMMA ProceedHolds ==
  ASSUME BackInv, HoldInv, NEW c \in Caller, Proceed(c)
  PROVE  HoldInv'
  <1> USE DEF JobTypeOK, CallType, JobType, CallGoto, Return, Idle, CallAt, JobAt, JobGoto
  <1>0. dfaults' = dfaults /\ \A d \in Caller \ {c} : dcall'[d] = dcall[d]
    BY ProceedFrame
  <1>1. ASSUME HoldsCall(c)' \/ ~dreserved' PROVE HoldInv'
    BY <1>1 DEF HoldInv
  <1>2. ASSUME dreserved' = dreserved, djob' = djob, drecord' = drecord, ~HoldsCall(c) PROVE HoldInv'
    BY <1>0, <1>2 DEF HoldInv, HoldsCall, Live
  <1>3. CASE ReserveCapacity(c) \/ MakePending(c)
    <2>1. HoldsCall(c)' \/ (dreserved' = dreserved /\ djob' = djob /\ drecord' = drecord /\ ~HoldsCall(c))
      BY <1>3 DEF BackInv, ReserveCapacity, MakePending, HoldsCall
    <2> QED
      BY <1>1, <1>2, <2>1
  <1>4. CASE AddJob(c)
    <2>1. PICK j \in QueueJob : JobGoto(j, "waiting")
      BY <1>4 DEF AddJob
    <2>2. Live(j)'
      BY <2>1 DEF BackInv, Live
    <2> QED
      BY <2>2 DEF HoldInv
  <1>5. CASE AddFails(c)
    BY <1>1, <1>5 DEF AddFails
  <1>6. CASE CancelKey(c) \/ CancelMark(c)
    <2>1. dreserved' = dreserved /\ djob' = djob /\ drecord' = drecord /\ ~HoldsCall(c)
      BY <1>6 DEF CancelKey, CancelMark, HoldsCall
    <2> QED
      BY <1>2, <2>1
  <1>7. CASE CancelCommit(c)
    <2>1. ~dreserved' \/ (dreserved' = dreserved /\ djob' = djob /\ drecord' = drecord /\ ~HoldsCall(c))
      BY <1>7 DEF CancelCommit, HoldsCall
    <2> QED
      BY <1>1, <1>2, <2>1
  <1>8. CASE CancelRemove(c)
    <2> DEFINE j == dcall[c].job
    <2>1. /\ j \in QueueJob /\ drecord[j] # "none" /\ ~HoldsCall(c)
          /\ dreserved' = dreserved /\ drecord' = drecord
      BY <1>8 DEF BackInv, CancelRemove, RemoveInv, HoldsCall
    <2>2. CASE djob' = djob
      BY <1>2, <2>1, <2>2
    <2>3. CASE djob' # djob
      <3>1. djob[j].pc = "waiting" /\ dcall' = [dcall EXCEPT ![c].pc = "tx"]
        BY <1>8, <2>3 DEF CancelRemove
      <3>2. "crash" \notin dfaults => drecord[j] = "QUEUED"
        BY <2>1, <3>1 DEF BackInv, QueuedInv
      <3>3. "overlap" \notin dfaults => drecord[j] = "QUEUED"
        BY <1>8 DEF BackInv, AloneInv, CancelRemove
      <3>4. dfaults # JobFault => "crash" \notin dfaults \/ "overlap" \notin dfaults
        BY DEF BackInv, JobFault
      <3>5. dfaults # JobFault => HoldsCall(c)'
        BY <2>1, <3>1, <3>2, <3>3, <3>4 DEF BackInv, HoldsCall
      <3> QED
        BY <1>0, <3>5 DEF HoldInv
    <2> QED
      BY <2>2, <2>3
  <1> QED
    BY <1>3, <1>4, <1>5, <1>6, <1>7, <1>8 DEF Proceed

(* The requests leave jobs and records alone and make no reservation. *)
LEMMA RequestHolds ==
  ASSUME BackInv, HoldInv, NEW c \in Caller, Request(c)
  PROVE  HoldInv'
  <1>1. /\ djob' = djob /\ drecord' = drecord /\ dfaults' = dfaults /\ (dreserved' => dreserved)
        /\ \A d \in Caller \ {c} : dcall'[d] = dcall[d]
        /\ dcall[c].pc = "idle"
    BY DEF Request, CreateDeployment, RequestApproval, RequestRetry, CancelCanceled, CancelQueued, CancelRunning,
           MayCall, MayResume, BackInv, JobTypeOK, CallType, Idle
  <1> QED
    BY <1>1 DEF HoldInv, HoldsCall, Live

(* In the initial state nothing is reserved. *)
LEMMA HoldInit == JobInit => HoldInv
  BY DEF JobInit, HoldInv

(* Every step keeps whom a reservation is for. *)
LEMMA HoldStep == BackInv /\ HoldInv /\ [JobNext]_jobVars => HoldInv'
  <1> SUFFICES ASSUME BackInv, HoldInv, [JobNext]_jobVars PROVE HoldInv'
    OBVIOUS
  <1>1. ASSUME UNCHANGED jobVars PROVE HoldInv'
    BY <1>1 DEF jobVars, HoldInv, HoldsCall, Live
  <1>2. CASE JobNext
    <2>1. \/ \E j \in QueueJob : Uninterrupted /\ (Work(j) \/ Crash(j))
          \/ \E c \in Caller : Request(c) \/ Proceed(c)
      BY <1>2 DEF JobNext
    <2> QED
      BY <2>1, WorkHolds, RequestHolds, ProceedHolds
  <1> QED
    BY <1>1, <1>2

(* The invariant is inductive: a job that ends releases the capacity, or a call that is
   under way will use it (deploymentWorker, ResourcePolicyService). *)
THEOREM HoldInductive == JobSpec => []HoldInv
  BY HoldInit, HoldStep, BackInductive, PTL DEF JobSpec

(* What is reserved is for a request or a job that lives. *)
LEMMA HoldMeans == HoldInv /\ FinalInv => ReservationIsBacked
  <1> SUFFICES ASSUME HoldInv, FinalInv PROVE ReservationIsBacked
    OBVIOUS
  <1>1. dreserved /\ dfaults # JobFault => Calling \/ \E j \in QueueJob : Live(j)
    BY DEF HoldInv, HoldsCall, Calling
  <1>2. ASSUME "overlap" \notin dfaults, NobodyDied, NEW j \in QueueJob, JobAt(j, "waiting") PROVE dreserved
    <2>1. Live(j) /\ djob[j].err # "cancel"
      BY <1>2 DEF JobAt, Live, FinalInv, BackInv, ErrInv
    <2> QED
      BY <1>2, <2>1 DEF FinalInv, SoleInv, JobsQuiet
  <1> QED
    BY <1>1, <1>2 DEF ReservationIsBacked

(* A reservation outlives neither the jobs nor the calls of its deployment, and one that
   waits has what it was promised (ResourcePolicyService.release, deploymentWorker). *)
THEOREM ReservationBacked == JobSpec => []ReservationIsBacked
  BY HoldMeans, HoldInductive, FinalInductive, PTL
==============================================================================
