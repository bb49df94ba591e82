------------------------------ MODULE Retention ------------------------------
(***************************************************************************)
(* Retention (maintenance.service.ts, maintenance-policy.ts): the daily     *)
(* purge of old releases of a project next to its deployments and rollbacks.*)
(* A round selects releases once and visits them later, each under the lock *)
(* of the project; a rollback request takes no lock, pins its target in a   *)
(* transaction and only then adds its job.  Images and directories belong   *)
(* to one release each and go with it; a run is reduced to the steps that   *)
(* change what a purge looks at or a pin (ReleaseActivation has the others, *)
(* and the failures after a commit).                                        *)
(***************************************************************************)
EXTENDS Integers, FiniteSets

CONSTANTS
  MaxReleases,
  RetKeep,       \* successful releases that are kept (5 in the code)
  PurgeTries,    \* failures after which a release is given up (8)
  MaxRequests,   \* bound: rollback jobs that are not finished
  RetRuns,       \* bound: runs of a project, which may depend on the faults
  RetFaultSets   \* each behaviour admits one of these subsets of RetFault

RetRelease == 1..MaxReleases   \* in the order of createdAt
NoRelease == 0

(* stack:   the deployments are Compose projects; the runtime of a release is
            named after its deployment, so that attempts share it
   lapse:   the lock of a purge (120 s, never extended) runs out
   overlap: something replaces a candidate that waits for its rollback job, or
            brings back a release that a round has selected
   ssh:     remote commands of a run fail, its cleanup included
   purge:   the connection of a purge fails
   refuse:  the queue refuses the job of a request, or the database the write
            that takes a pin away; neither is tried again
   die:     the worker dies, once, with a rollback in its hands            *)
RetFault == {"stack", "lapse", "overlap", "ssh", "purge", "refuse", "die"}

ASSUME RetBounds == MaxReleases \in Nat \ {0} /\ {RetKeep, PurgeTries, MaxRequests} \subseteq Nat
ASSUME RetFaultAssumption == RetFaultSets \subseteq SUBSET RetFault
ASSUME RetRunsAssumption == RetRuns \in [SUBSET RetFault -> 0..MaxReleases]

VARIABLES
  retStatus, retAge,            \* DeploymentRelease rows; age 1 is a day, 2 is 30 days
  retOwner,                     \* the deployment, named by its first attempt
  retRecorded,                  \* rows with a runtimeRef
  retPinned, retPurged, retTries,
  retActive, retCandidate,      \* the project
  retUp,                        \* the containers, or stacks, on the VPS
  retRun,                       \* the run or rollback that holds the project lock
  retAsk,                       \* the target of a request that has not added its job
  retJobs,                      \* rollback jobs that wait or run
  retDeaths,                    \* bound: one
  retPurge, retEligible,        \* the round of the maintenance worker
  retLock,
  retLive,                      \* history: releases that have been active
  retFaults

retRows == <<retStatus, retOwner, retAge, retRecorded, retPinned, retPurged, retTries>>
retWork == <<retRun, retAsk, retJobs, retDeaths>>
retRound == <<retPurge, retEligible>>
retVars == <<retRows, retActive, retCandidate, retUp, retWork, retRound, retLock, retLive, retFaults>>

RetStatus == {"none", "BUILDING", "CANDIDATE", "ACTIVE", "SUPERSEDED", "FAILED"}

RetTypeOK ==
  /\ retStatus \in [RetRelease -> RetStatus]
  /\ retOwner \in [RetRelease -> RetRelease \cup {NoRelease}]
  /\ retAge \in [RetRelease -> 0..2] /\ retTries \in [RetRelease -> 0..PurgeTries]
  /\ retRecorded \subseteq RetRelease /\ retPinned \subseteq RetRelease
  /\ UNION {retPurged, retEligible, retLive} \subseteq RetRelease
  /\ {retActive, retCandidate} \subseteq RetRelease \cup {NoRelease}
  /\ retUp \subseteq RetRelease
  /\ retRun \in [pc : {"idle", "building", "started", "recorded", "rolling", "ending"},
                 rel : RetRelease \cup {NoRelease}]
  /\ retAsk \in RetRelease \cup {NoRelease} /\ retJobs \in 0..MaxRequests /\ retDeaths \in 0..1
  /\ retPurge \in [pc : {"idle", "round", "checked", "removed"}, rel : RetRelease \cup {NoRelease}]
  /\ retLock \in {"none", "run", "purge"}
  /\ retFaults \in RetFaultSets

RetInit ==
  /\ retStatus = [r \in RetRelease |-> "none"] /\ retOwner = [r \in RetRelease |-> NoRelease]
  /\ retAge = [r \in RetRelease |-> 0] /\ retTries = [r \in RetRelease |-> 0]
  /\ retRecorded = {} /\ retPinned = {} /\ retPurged = {} /\ retEligible = {} /\ retUp = {} /\ retLive = {}
  /\ retActive = NoRelease /\ retCandidate = NoRelease
  /\ retRun = [pc |-> "idle", rel |-> NoRelease]
  /\ retAsk = NoRelease /\ retJobs = 0 /\ retDeaths = 0
  /\ retPurge = [pc |-> "idle", rel |-> NoRelease]
  /\ retLock = "none"
  /\ retFaults \in RetFaultSets

------------------------------------------------------------------------------
(* What a runtimeRef names. *)
Runtime(r) == IF "stack" \in retFaults THEN retOwner[r] ELSE r

Created == {r \in RetRelease : retStatus[r] # "none"}

IdleRun == [pc |-> "idle", rel |-> NoRelease]

(* Somebody still works on a rollback: its request, the queue or a worker. *)
RollbackPending == retAsk # NoRelease \/ retJobs > 0 \/ retRun.pc \in {"rolling", "ending"}

(* A new candidate fails the one it replaces, unless that one is active. *)
Replacing(r) ==
  IF retCandidate # NoRelease /\ retCandidate # r /\ retStatus[retCandidate] # "ACTIVE"
    THEN [retStatus EXCEPT ![retCandidate] = "FAILED"] ELSE retStatus

(* A new deployment runs, or one whose attempts have all failed, which is tried
   again when a remote command was the reason.                             *)
RetBegin(d) ==
  /\ retLock = "none" /\ Cardinality(Created) < RetRuns[retFaults]
  /\ RollbackPending => "overlap" \in retFaults
  /\ LET r == Cardinality(Created) + 1 IN
       /\ d \in {r} \cup {retOwner[s] : s \in {t \in Created : retFaults \cap {"ssh", "stack"} # {}}}
       /\ \A s \in Created : retOwner[s] = d => retStatus[s] = "FAILED"
       /\ retStatus' = [Replacing(r) EXCEPT ![r] = "BUILDING"]
       /\ retOwner' = [retOwner EXCEPT ![r] = d]
       /\ retCandidate' = r
       /\ retRun' = [pc |-> "building", rel |-> r]
  /\ retLock' = "run"
  /\ UNCHANGED <<retAge, retRecorded, retPinned, retPurged, retTries, retActive, retUp, retAsk, retJobs, retDeaths,
                 retRound, retLive, retFaults>>

(* The container of an earlier attempt is removed by its name. *)
RetStart ==
  /\ retRun.pc = "building"
  /\ retUp' = {u \in retUp : \A r \in Created : u = Runtime(r) => retOwner[r] # retOwner[retRun.rel]}
                \cup {Runtime(retRun.rel)}
  /\ retRun' = [retRun EXCEPT !.pc = "started"]
  /\ UNCHANGED <<retRows, retActive, retCandidate, retAsk, retJobs, retDeaths, retRound, retLock, retLive, retFaults>>

RetRecord ==
  /\ retRun.pc = "started"
  /\ retRecorded' = retRecorded \cup {retRun.rel}
  /\ retStatus' = [retStatus EXCEPT ![retRun.rel] = "CANDIDATE"]
  /\ retRun' = [retRun EXCEPT !.pc = "recorded"]
  /\ UNCHANGED <<retOwner, retAge, retPinned, retPurged, retTries, retActive, retCandidate, retUp,
                 retAsk, retJobs, retDeaths, retRound, retLock, retLive, retFaults>>

(* markReadinessFailed, and the removal of the container that was started. *)
RetFail ==
  /\ retRun.pc \in {"building", "started", "recorded"}
  /\ retStatus' = [retStatus EXCEPT ![retRun.rel] = "FAILED"]
  /\ retCandidate' = IF retCandidate = retRun.rel THEN NoRelease ELSE retCandidate
  /\ \/ retUp' = IF retRun.pc = "building" THEN retUp ELSE retUp \ {Runtime(retRun.rel)}
     \/ "ssh" \in retFaults /\ UNCHANGED retUp
  /\ retRun' = IdleRun /\ retLock' = "none"
  /\ UNCHANGED <<retOwner, retAge, retRecorded, retPinned, retPurged, retTries, retActive, retAsk, retJobs, retDeaths,
                 retRound, retLive, retFaults>>

(* activate(): the gateway reaches the container and the rows are switched. *)
Switched(r) ==
  /\ Runtime(r) \in retUp
  /\ retStatus' = [s \in RetRelease |-> CASE s = r -> "ACTIVE"
                                          [] s = retActive /\ s # r -> "SUPERSEDED"
                                          [] OTHER -> retStatus[s]]
  /\ retActive' = r /\ retCandidate' = NoRelease /\ retLive' = retLive \cup {r}

RetActivate ==
  /\ retRun.pc = "recorded"
  /\ Switched(retRun.rel)
  /\ retRun' = IdleRun /\ retLock' = "none"
  /\ UNCHANGED <<retOwner, retAge, retRecorded, retPinned, retPurged, retTries, retUp, retAsk, retJobs,
                 retDeaths, retRound, retFaults>>

(* rollback(): the transaction that pins any release of the project with a runtimeRef. *)
RetRequest(r) ==
  /\ r \in retRecorded /\ r # retActive /\ retAsk = NoRelease /\ retJobs < MaxRequests
  /\ retCandidate # NoRelease \/ RollbackPending \/ retRun # IdleRun \/ r \in retEligible
       => "overlap" \in retFaults
  /\ retStatus' = [Replacing(r) EXCEPT ![r] = "CANDIDATE"]
  /\ retPinned' = retPinned \cup {r}
  /\ retCandidate' = r
  /\ retAsk' = r
  /\ UNCHANGED <<retOwner, retAge, retRecorded, retPurged, retTries, retActive, retUp, retRun, retJobs,
                 retDeaths, retRound, retLock, retLive, retFaults>>

(* The job is added after it; nothing undoes the transaction when it is refused. *)
RetAdd ==
  /\ retAsk # NoRelease
  /\ retAsk' = NoRelease
  /\ \/ retJobs' = retJobs + 1
     \/ "refuse" \in retFaults /\ UNCHANGED retJobs
  /\ UNCHANGED <<retRows, retActive, retCandidate, retUp, retRun, retDeaths, retRound, retLock, retLive, retFaults>>

(* executeRollback() takes the candidate it finds, and throws for good without
   one that has a runtime.                                                 *)
RetRoll ==
  /\ retLock = "none" /\ retJobs > 0
  /\ IF retCandidate \in retRecorded
       THEN /\ retRun' = [pc |-> "rolling", rel |-> retCandidate] /\ retLock' = "run"
            /\ UNCHANGED retJobs
       ELSE retJobs' = retJobs - 1 /\ UNCHANGED <<retRun, retLock>>
  /\ UNCHANGED <<retRows, retActive, retCandidate, retUp, retAsk, retDeaths, retRound, retLive, retFaults>>

RetRolled ==
  /\ retRun.pc = "rolling"
  /\ Switched(retRun.rel)
  /\ retRun' = [retRun EXCEPT !.pc = "ending"]
  /\ UNCHANGED <<retOwner, retAge, retRecorded, retPinned, retPurged, retTries, retUp, retAsk, retJobs,
                 retDeaths, retRound, retLock, retFaults>>

(* Mutant: only a rollback that succeeds comes to the block that drops the pin. *)
MutRollFails ==
  /\ retRun.pc = "rolling"
  /\ retRun' = IdleRun /\ retLock' = "none" /\ retJobs' = retJobs - 1
  /\ UNCHANGED <<retRows, retActive, retCandidate, retUp, retAsk, retDeaths, retRound, retLive, retFaults>>

(* After a failed check the release stays the candidate; after a failed
   activation it is marked.                                                *)
RetRollFails ==
  /\ retRun.pc = "rolling"
  /\ \/ UNCHANGED <<retStatus, retCandidate>>
     \/ /\ retStatus' = [retStatus EXCEPT ![retRun.rel] = "FAILED"]
        /\ retCandidate' = IF retCandidate = retRun.rel THEN NoRelease ELSE retCandidate
  /\ retRun' = [retRun EXCEPT !.pc = "ending"]
  /\ UNCHANGED <<retOwner, retAge, retRecorded, retPinned, retPurged, retTries, retActive, retUp, retAsk,
                 retJobs, retDeaths, retRound, retLock, retLive, retFaults>>

(* The finally block drops the pin of the candidate read at the start.  The job
   is finished, or comes back after a failure that counts as transient.     *)
RetUnpin ==
  /\ retRun.pc = "ending"
  /\ \/ retPinned' = retPinned \ {retRun.rel}
     \/ "refuse" \in retFaults /\ UNCHANGED retPinned
  /\ retJobs' \in {retJobs, retJobs - 1}
  /\ retRun' = IdleRun /\ retLock' = "none"
  /\ UNCHANGED <<retStatus, retOwner, retAge, retRecorded, retPurged, retTries, retActive, retCandidate,
                 retUp, retAsk, retDeaths, retRound, retLive, retFaults>>

(* The worker dies.  Its lock runs out and the queue hands the job out again. *)
RetDie ==
  /\ "die" \in retFaults /\ retDeaths = 0 /\ retRun.pc \in {"rolling", "ending"}
  /\ retRun' = IdleRun /\ retDeaths' = 1
  /\ UNCHANGED <<retRows, retActive, retCandidate, retUp, retAsk, retJobs, retRound, retLock, retLive, retFaults>>

RetExpire ==
  /\ retLock = "run" /\ retRun = IdleRun
  /\ retLock' = "none"
  /\ UNCHANGED <<retRows, retActive, retCandidate, retUp, retWork, retRound, retLive, retFaults>>

(* Days pass between rounds and runs; an older release is never younger. *)
RetGrow(r) ==
  /\ retPurge.pc = "idle" /\ retRun = IdleRun /\ r \in Created /\ retAge[r] < 2
  /\ \A s \in RetRelease : s < r => retAge[s] > retAge[r]
  /\ retAge' = [retAge EXCEPT ![r] = @ + 1]
  /\ UNCHANGED <<retStatus, retOwner, retRecorded, retPinned, retPurged, retTries, retActive, retCandidate,
                 retUp, retWork, retRound, retLock, retLive, retFaults>>

------------------------------------------------------------------------------
(* The maintenance worker.                                                 *)

Purgeable == {r \in Created \ retPurged : retTries[r] < PurgeTries}

Successful == {r \in Purgeable : retStatus[r] \in {"ACTIVE", "SUPERSEDED"}}

NewerSuccessful(r) == Cardinality({s \in Successful : s > r})

Protected == {retActive, retCandidate} \cup retPinned

(* Mutant: one release less is kept. *)
MutRetentionCandidates ==
  {r \in Successful : NewerSuccessful(r) >= RetKeep - 1 \/ retAge[r] = 2} \ Protected

retentionCandidates ==
  ({r \in Successful : NewerSuccessful(r) >= RetKeep \/ retAge[r] = 2}
     \cup {r \in Purgeable : retStatus[r] = "FAILED" /\ retAge[r] >= 1})
  \ Protected

RetSelect ==
  /\ retPurge.pc = "idle" /\ retentionCandidates # {}
  /\ retEligible' = retentionCandidates
  /\ retPurge' = [pc |-> "round", rel |-> NoRelease]
  /\ UNCHANGED <<retRows, retActive, retCandidate, retUp, retWork, retLock, retLive, retFaults>>

(* Mutant: the selection of the round is trusted. *)
MutMayPurge(r) == r \notin retPurged

(* The checks purgeRelease repeats with the lock. *)
MayPurge(r) ==
  /\ r \notin retPurged \cup retPinned
  /\ retActive # r /\ retCandidate # r
  /\ retStatus[r] \notin {"ACTIVE", "CANDIDATE"}

RetVisit(r) ==
  /\ retPurge.pc = "round" /\ r \in retEligible
  /\ retEligible' = retEligible \ {r}
  /\ IF retLock = "none" /\ MayPurge(r)
       THEN retLock' = "purge" /\ retPurge' = [pc |-> "checked", rel |-> r]
       ELSE UNCHANGED <<retLock, retPurge>>
  /\ UNCHANGED <<retRows, retActive, retCandidate, retUp, retWork, retLive, retFaults>>

(* A stack is removed whatever else refers to it, a container is not. *)
RetRemove ==
  /\ retPurge.pc = "checked"
  /\ retUp' = IF retPurge.rel \in retRecorded THEN retUp \ {Runtime(retPurge.rel)} ELSE retUp
  /\ retPurge' = [retPurge EXCEPT !.pc = "removed"]
  /\ UNCHANGED <<retRows, retActive, retCandidate, retWork, retEligible, retLock, retLive, retFaults>>

EndVisit ==
  /\ retLock' = IF retLock = "purge" THEN "none" ELSE retLock
  /\ retPurge' = [pc |-> "round", rel |-> NoRelease]
  /\ UNCHANGED retEligible

RetMark ==
  /\ retPurge.pc = "removed"
  /\ retPurged' = retPurged \cup {retPurge.rel}
  /\ EndVisit
  /\ UNCHANGED <<retStatus, retOwner, retAge, retRecorded, retPinned, retTries, retActive, retCandidate,
                 retUp, retWork, retLive, retFaults>>

RetPurgeFails ==
  /\ "purge" \in retFaults /\ retPurge.pc \in {"checked", "removed"}
  /\ retTries' = [retTries EXCEPT ![retPurge.rel] = @ + 1]
  /\ EndVisit
  /\ UNCHANGED <<retStatus, retOwner, retAge, retRecorded, retPinned, retPurged, retActive, retCandidate,
                 retUp, retWork, retLive, retFaults>>

(* Containers, older than a day, of deployments without a release left. *)
Orphans ==
  {u \in retUp : \A r \in Created : Runtime(r) = u =>
     /\ retAge[r] >= 1
     /\ \A s \in Created \ retPurged : retOwner[s] # retOwner[r]}

RetEndRound ==
  /\ retPurge.pc = "round" /\ retEligible = {}
  /\ retUp' = retUp \ Orphans
  /\ retPurge' = [pc |-> "idle", rel |-> NoRelease]
  /\ UNCHANGED <<retRows, retActive, retCandidate, retWork, retEligible, retLock, retLive, retFaults>>

RetLapse ==
  /\ "lapse" \in retFaults /\ retLock = "purge"
  /\ retLock' = "none"
  /\ UNCHANGED <<retRows, retActive, retCandidate, retUp, retWork, retRound, retLive, retFaults>>

RetNext ==
  \/ RetStart \/ RetRecord \/ RetFail \/ RetActivate \/ RetAdd \/ RetRoll \/ RetRolled \/ RetRollFails
  \/ RetUnpin \/ RetDie \/ RetExpire
  \/ \E r \in RetRelease : RetBegin(r) \/ RetRequest(r) \/ RetGrow(r) \/ RetVisit(r)
  \/ RetSelect \/ RetRemove \/ RetMark \/ RetPurgeFails \/ RetEndRound \/ RetLapse

RetSpec == RetInit /\ [][RetNext]_retVars

------------------------------------------------------------------------------
(* Properties.                                                             *)

ActiveIsUp == retActive # NoRelease => retActive \notin retPurged /\ Runtime(retActive) \in retUp

(* Unless a lock lapses or attempts share a stack, the active release is never
   purged and keeps its container: rounds that work on an old selection, and
   rollback requests that come between the check of a purge and its removal,
   are caught by the second check and by the health check of the rollback. *)
ActiveIsKept == retFaults \cap {"stack", "lapse"} = {} => ActiveIsUp

(* What retention protects according to its test, whatever kind of deployment
   it is: the active release.                                              *)
ActiveIsProtected == ActiveIsUp

(* The newest releases that went live stay available for a rollback for thirty
   days, whichever of them is active and whatever failed in between.       *)
PriorIsKept ==
  retFaults \cap {"stack", "lapse", "overlap"} = {} =>
    \A r \in Created :
      /\ retStatus[r] = "SUPERSEDED" /\ retAge[r] < 2
      /\ Cardinality({s \in retLive : s > r}) < RetKeep
      => r \notin retPurged /\ Runtime(r) \in retUp

(* A pin, which keeps a release from being purged, lasts only as long as the
   rollback it was set for, also when that rollback fails, is retried or loses
   its worker.  Three things break this in the code and are exempt: the job, or
   the write that takes the pin away, is refused, and neither is tried again; a
   second candidate replaces the pinned one while its job waits, and the job
   unpins the second; and the worker dies after the commit, or after it has
   marked the release, so that the retry finds no candidate and throws before
   its finally block.  Only a release whose rollback was decided keeps a pin
   in the last case.                                                       *)
PinEnds ==
  retFaults \cap {"overlap", "refuse"} = {} =>
    \A r \in retPinned : RollbackPending \/ (retDeaths > 0 /\ retCandidate # r)
==============================================================================
