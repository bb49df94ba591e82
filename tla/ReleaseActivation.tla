-------------------------- MODULE ReleaseActivation --------------------------
(***************************************************************************)
(* Blue-green activation of the releases of one project: the deploy and    *)
(* rollback runs of the deployment worker, from the moment a job is picked *)
(* up to the moment it is settled (deployment.service.ts executeDeployment,*)
(* release.service.ts, rollback.service.ts, the worker's error handling),  *)
(* with the API calls that reach the same rows while a run is under way.   *)
(*                                                                         *)
(* Three stores change independently: the database rows, the containers    *)
(* and networks of the VPS, and the two route files of the gateway.  A run *)
(* is a sequence of steps over them, each one await of the code; the API,  *)
(* a lost SSH connection, a dying worker or a lapsed lock may come between *)
(* any two.                                                                *)
(***************************************************************************)
EXTENDS Integers, FiniteSets

CONSTANTS
  Deployment,   \* deployments; the queue job of a deployment is named after it
  Rollback,     \* rollback jobs
  MaxReleases,  \* bound: releases ever created, numbered in creation order
  MaxTries,     \* attempts of a job (utils/queue.ts)
  None,
  Faults        \* which faults this instance admits, a subset of FaultKind

(* health: a candidate fails its health check
   probe:  a probe through the gateway fails
   ssh:    a remote command is lost, times out or fails
   crash:  the worker process dies; BullMQ hands the job out once more
   lapse:  the project lock expires under a run (see DeploymentLocks)
   cancel: users cancel runs
   race:   worker steps come between the read and the write of an API call *)
FaultKind == {"health", "probe", "ssh", "crash", "lapse", "cancel", "race"}

Release == 1..MaxReleases

Job == Deployment \cup Rollback

ASSUME BoundAssumption == MaxReleases \in Nat /\ MaxTries \in Nat \ {0}
ASSUME JobAssumption == Deployment \cap Rollback = {}
ASSUME NoneAssumption == None \notin Release \cup Job
ASSUME FaultAssumption == Faults \subseteq FaultKind

VARIABLES
  status,     \* DeploymentRelease.status
  owner,      \* DeploymentRelease.deploymentId
  runtime,    \* the releases whose runtimeRef is set
  pinned,     \* the releases pinned with ROLLBACK_IN_PROGRESS
  active,     \* Project.activeReleaseId
  candidate,  \* Project.candidateReleaseId
  up,         \* the releases whose container exists on the VPS
  attached,   \* those on the gateway's network, deployforge-net
  route,      \* the release the public route file sends traffic to
  backup,     \* the release in the .previous file
  job,        \* what each job is doing
  lock,       \* the job that holds project-deploy:<project>
  call,       \* an API call between its read and its write
  cancelKey,  \* deployments with a cancellation key in Redis
  verified    \* history: the releases that passed a health check

database == <<status, owner, runtime, pinned, active, candidate>>
vps == <<up, attached, route, backup>>
vars == <<database, vps, job, lock, call, cancelKey, verified>>

ReleaseStatus ==
  {"none", "BUILDING", "CANDIDATE", "READY", "ACTIVATING", "ACTIVE", "SUPERSEDED", "FAILED"}

(* A candidate in one of these was interrupted (release.service.ts:98). *)
Interrupted == {"CANDIDATE", "READY", "ACTIVATING"}

(* The awaits of a run, in the order of the code. *)
Reconciling == {"reconcile", "promote", "confirmPromotion", "undoPromotion",
                "restore", "detachStale", "dropStale"}
Preparing   == {"begin", "replace", "start", "health", "record"}
Rolling     == {"pick", "recheck"}
Activating  == {"read", "connect", "mark"}
Switching   == {"backup", "canary", "probe", "switch", "confirm", "commit", "detach", "cleanup"}
Activated   == {"link", "finish", "finishRollback"}
Failing     == {"undoRoute", "undoDetach", "undoMark", "markFailed", "clear", "unpin", "settle"}
Running     == Reconciling \cup Preparing \cup Rolling \cup Activating \cup Switching
                 \cup Activated \cup Failing
Ended       == {"done", "failed", "canceled", "stalled"}

Error == {"none", "final", "transient", "cancel"}

JobState ==
  [pc : {"idle", "queued"} \cup Running \cup Ended,
   dep : Deployment \cup {None},
   rel : Release \cup {None},    \* the release the run works on
   act : Release \cup {None},    \* the active release it has read
   err : Error,
   tries : 0..MaxTries,
   stalls : 0..1]

NoJob(j) == [pc |-> "idle", dep |-> IF j \in Deployment THEN j ELSE None,
             rel |-> None, act |-> None, err |-> "none", tries |-> 0, stalls |-> 0]

NoCall == [kind |-> "none", target |-> None, seen |-> None]

TypeOK ==
  /\ status \in [Release -> ReleaseStatus]
  /\ owner \in [Release -> Deployment \cup {None}]
  /\ runtime \subseteq Release /\ pinned \subseteq Release /\ verified \subseteq Release
  /\ up \subseteq Release /\ attached \subseteq up
  /\ {active, candidate, route, backup} \subseteq Release \cup {None}
  /\ job \in [Job -> JobState]
  /\ lock \in Job \cup {None}
  /\ call \in [kind : {"none", "rollback", "cancel"},
               target : Release \cup Deployment \cup {None}, seen : Release \cup {None}]
  /\ cancelKey \subseteq Deployment

Init ==
  /\ status = [r \in Release |-> "none"]
  /\ owner = [r \in Release |-> None]
  /\ runtime = {} /\ pinned = {} /\ verified = {}
  /\ up = {} /\ attached = {}
  /\ active = None /\ candidate = None /\ route = None /\ backup = None
  /\ job = [j \in Job |-> NoJob(j)]
  /\ lock = None
  /\ call = NoCall
  /\ cancelKey = {}

------------------------------------------------------------------------------
(* Helpers.                                                                *)

At(j, pc) == job[j].pc = pc

Goto(j, pc) == job' = [job EXCEPT ![j].pc = pc]

(* Mutant: the containers are not filtered by the label of the deployment. *)
MutContainers(d) == up

Containers(d) == {r \in up : owner[r] = d}

Reachable(r) == r \in up \cap attached

(* `docker network connect ... || true': nothing happens to a container that
   does not exist.                                                         *)
Attach(rs) == attached' = attached \cup (rs \cap up)

Remove(rs) == up' = up \ rs /\ attached' = attached \ rs

(* runCommand and assertNotCancelled look for the cancellation key. *)
Wanted(j) == job[j].dep \notin cancelKey

IsRollback(j) == j \in Rollback

(* Where an exception thrown at a step is caught: by activate(), by
   executeRollback's finally, by executeDeployment's catch, which marks and
   clears only what was not activated.                                     *)
Handler(j, err) ==
  IF job[j].pc \in Switching THEN "undoRoute"
  ELSE IF IsRollback(j) THEN (IF At(j, "pick") THEN "settle" ELSE "unpin")
  ELSE IF job[j].pc \in Reconciling \cup {"begin"} \cup Activated
       THEN (IF err = "cancel" THEN "clear" ELSE "settle")
  ELSE "markFailed"

Throw(j, err) == job' = [job EXCEPT ![j].pc = Handler(j, err), ![j].err = err]

------------------------------------------------------------------------------
(* The API: enqueueing deployments, rollback requests, cancellation.       *)

RequestDeploy(d) ==
  /\ At(d, "idle")
  /\ Goto(d, "queued")
  /\ UNCHANGED <<database, vps, lock, call, cancelKey, verified>>

(* rollback(): the project is read first ... *)
ReadRollback(r) ==
  /\ call = NoCall
  /\ \E j \in Rollback : At(j, "idle")
  /\ r \in runtime /\ r # active
  /\ call' = [kind |-> "rollback", target |-> r, seen |-> candidate]
  /\ UNCHANGED <<database, vps, job, lock, cancelKey, verified>>

(* ... then the target becomes the candidate, whatever it is by now, and the
   rollback is queued.                                                     *)
CommitRollback(j) ==
  LET target == call.target
      other  == {call.seen} \ {target, None}
  IN
  /\ call.kind = "rollback"
  /\ At(j, "idle")
  /\ status' = [r \in Release |-> IF r = target THEN "CANDIDATE"
                                  ELSE IF r \in other /\ status[r] # "ACTIVE" THEN "FAILED"
                                  ELSE status[r]]
  /\ pinned' = pinned \cup {target}
  /\ candidate' = target
  /\ job' = [job EXCEPT ![j].pc = "queued", ![j].dep = owner[target]]
  /\ call' = NoCall
  /\ UNCHANGED <<owner, runtime, active, vps, lock, cancelKey, verified>>

(* The newest release of a deployment, as cancelDeployment looks it up. *)
Newest(d) == {r \in Release : owner[r] = d /\ \A q \in Release : owner[q] = d => q <= r}

(* Mutant: no look at the status of the candidate. *)
MutCheckCancel(d) ==
  /\ "cancel" \in Faults
  /\ call = NoCall
  /\ \E j \in Job : job[j].dep = d /\ job[j].pc \in Running
  /\ call' = [kind |-> "cancel", target |-> d, seen |-> None]
  /\ UNCHANGED <<database, vps, job, lock, cancelKey, verified>>

(* cancelDeployment on a running job: refused once activation has begun ... *)
CheckCancel(d) ==
  /\ "cancel" \in Faults
  /\ call = NoCall
  /\ \E j \in Job : job[j].dep = d /\ job[j].pc \in Running
  /\ \A r \in Newest(d) : status[r] \notin {"ACTIVATING", "ACTIVE"}
  /\ call' = [kind |-> "cancel", target |-> d, seen |-> None]
  /\ UNCHANGED <<database, vps, job, lock, cancelKey, verified>>

(* ... and the key is written. *)
CommitCancel ==
  /\ call.kind = "cancel"
  /\ cancelKey' = cancelKey \cup {call.target}
  /\ call' = NoCall
  /\ UNCHANGED <<database, vps, job, lock, verified>>

------------------------------------------------------------------------------
(* Pick-up, and the reconciliation every deploy run starts with.           *)

PickUp(j) ==
  /\ At(j, "queued")
  /\ lock = None
  /\ lock' = j
  /\ Goto(j, IF IsRollback(j) THEN "pick" ELSE "reconcile")
  /\ UNCHANGED <<database, vps, call, cancelKey, verified>>

NothingInterrupted(j) ==
  /\ At(j, "reconcile")
  /\ candidate # None => status[candidate] \notin Interrupted
  /\ Goto(j, "begin")
  /\ UNCHANGED <<database, vps, lock, call, cancelKey, verified>>

(* The run works on the interrupted candidate until it is settled. *)
ReadInterrupted(j) ==
  /\ At(j, "reconcile")
  /\ candidate # None /\ status[candidate] \in Interrupted
  /\ job' = [job EXCEPT ![j].rel = candidate, ![j].act = active,
               ![j].pc = IF active # None THEN "restore"
                         ELSE IF candidate \in runtime THEN "promote" ELSE "detachStale"]
  /\ UNCHANGED <<database, vps, lock, call, cancelKey, verified>>

(* A project without an active release: the candidate goes live. *)
Promote(j) ==
  /\ At(j, "promote")
  /\ Attach({job[j].rel})
  /\ route' = job[j].rel
  /\ Goto(j, "confirmPromotion")
  /\ UNCHANGED <<database, up, backup, lock, call, cancelKey, verified>>

ConfirmPromotion(j) ==
  /\ At(j, "confirmPromotion")
  /\ Reachable(job[j].rel)
  /\ status' = [status EXCEPT ![job[j].rel] = "ACTIVE"]
  /\ active' = job[j].rel
  /\ candidate' = None
  /\ job' = [job EXCEPT ![j].pc = "begin", ![j].rel = None]
  /\ UNCHANGED <<owner, runtime, pinned, vps, lock, call, cancelKey, verified>>

PromotionFails(j) ==
  /\ At(j, "confirmPromotion")
  /\ Faults \cap {"probe", "ssh"} # {} \/ ~Reachable(job[j].rel)
  /\ Goto(j, "undoPromotion")
  /\ UNCHANGED <<database, vps, lock, call, cancelKey, verified>>

UndoPromotion(j) ==
  /\ At(j, "undoPromotion")
  /\ route' = None
  /\ attached' = attached \ {job[j].rel}
  /\ Goto(j, "detachStale")
  /\ UNCHANGED <<database, up, backup, lock, call, cancelKey, verified>>

Restore(j) ==
  /\ At(j, "restore")
  /\ Attach({job[j].act})
  /\ route' = job[j].act
  /\ Goto(j, "detachStale")
  /\ UNCHANGED <<database, up, backup, lock, call, cancelKey, verified>>

DetachStale(j) ==
  /\ At(j, "detachStale")
  /\ attached' = attached \ ({job[j].rel} \cap runtime)
  /\ Goto(j, "dropStale")
  /\ UNCHANGED <<database, up, route, backup, lock, call, cancelKey, verified>>

DropStale(j) ==
  /\ At(j, "dropStale")
  /\ status' = [status EXCEPT ![job[j].rel] = "FAILED"]
  /\ candidate' = None
  /\ job' = [job EXCEPT ![j].pc = "begin", ![j].rel = None]
  /\ UNCHANGED <<owner, runtime, pinned, active, vps, lock, call, cancelKey, verified>>

------------------------------------------------------------------------------
(* Building and checking the candidate.                                    *)

Unused == {r \in Release : status[r] = "none"}

BeginRelease(j) ==
  /\ At(j, "begin")
  /\ \E r \in Unused :
       /\ \A q \in Unused : r <= q
       /\ status' = [q \in Release |-> IF q = r THEN "BUILDING"
                                       ELSE IF q = candidate /\ status[q] # "ACTIVE" THEN "FAILED"
                                       ELSE status[q]]
       /\ owner' = [owner EXCEPT ![r] = job[j].dep]
       /\ candidate' = r
       /\ job' = [job EXCEPT ![j].pc = "replace", ![j].rel = r]
  /\ UNCHANGED <<runtime, pinned, active, vps, lock, call, cancelKey, verified>>

(* The container name is that of the deployment: a container of an earlier
   run of the same deployment is removed.                                  *)
Replace(j) ==
  /\ At(j, "replace")
  /\ Wanted(j)
  /\ Remove(Containers(job[j].dep))
  /\ Goto(j, "start")
  /\ UNCHANGED <<database, route, backup, lock, call, cancelKey, verified>>

(* Mutant: a started container counts as healthy. *)
MutStart(j) ==
  /\ At(j, "start")
  /\ Wanted(j)
  /\ up' = up \cup {job[j].rel}
  /\ Goto(j, "record")
  /\ UNCHANGED <<database, attached, route, backup, lock, call, cancelKey, verified>>

Start(j) ==
  /\ At(j, "start")
  /\ Wanted(j)
  /\ up' = up \cup {job[j].rel}
  /\ Goto(j, "health")
  /\ UNCHANGED <<database, attached, route, backup, lock, call, cancelKey, verified>>

Healthy(j) ==
  /\ job[j].pc \in {"health", "recheck"}
  /\ Wanted(j)
  /\ job[j].rel \in up
  /\ verified' = verified \cup {job[j].rel}
  /\ Goto(j, IF IsRollback(j) THEN "read" ELSE "record")
  /\ UNCHANGED <<database, vps, lock, call, cancelKey>>

Unhealthy(j) ==
  /\ job[j].pc \in {"health", "recheck"}
  /\ Wanted(j)
  /\ "health" \in Faults \/ job[j].rel \notin up
  /\ Throw(j, "final")
  /\ UNCHANGED <<database, vps, lock, call, cancelKey, verified>>

RecordRuntime(j) ==
  /\ At(j, "record")
  /\ Wanted(j)
  /\ status' = [status EXCEPT ![job[j].rel] = "CANDIDATE"]
  /\ runtime' = runtime \cup {job[j].rel}
  /\ Goto(j, "read")
  /\ UNCHANGED <<owner, pinned, active, candidate, vps, lock, call, cancelKey, verified>>

(* executeRollback takes the candidate the project has now. *)
PickCandidate(j) ==
  /\ At(j, "pick")
  /\ candidate # None /\ candidate \in runtime
  /\ job' = [job EXCEPT ![j].pc = "recheck", ![j].rel = candidate]
  /\ UNCHANGED <<database, vps, lock, call, cancelKey, verified>>

CandidateMissing(j) ==
  /\ At(j, "pick")
  /\ candidate = None \/ candidate \notin runtime
  /\ Throw(j, "final")
  /\ UNCHANGED <<database, vps, lock, call, cancelKey, verified>>

------------------------------------------------------------------------------
(* ReleaseService.activate.                                                *)

(* Mutant: the active release is not read. *)
MutReadActive(j) ==
  /\ At(j, "read")
  /\ status' = [status EXCEPT ![job[j].rel] = "READY"]
  /\ Goto(j, "connect")
  /\ UNCHANGED <<owner, runtime, pinned, active, candidate, vps, lock, call, cancelKey, verified>>

ReadActive(j) ==
  /\ At(j, "read")
  /\ status' = [status EXCEPT ![job[j].rel] = "READY"]
  /\ job' = [job EXCEPT ![j].pc = "connect", ![j].act = active]
  /\ UNCHANGED <<owner, runtime, pinned, active, candidate, vps, lock, call, cancelKey, verified>>

Connect(j) ==
  /\ At(j, "connect")
  /\ Wanted(j)
  /\ Attach({job[j].rel, job[j].act})
  /\ Goto(j, "mark")
  /\ UNCHANGED <<database, up, route, backup, lock, call, cancelKey, verified>>

MarkActivating(j) ==
  /\ At(j, "mark")
  /\ status' = [status EXCEPT ![job[j].rel] = "ACTIVATING"]
  /\ Goto(j, "backup")
  /\ UNCHANGED <<owner, runtime, pinned, active, candidate, vps, lock, call, cancelKey, verified>>

BackUp(j) ==
  /\ At(j, "backup")
  /\ Wanted(j)
  /\ backup' = route
  /\ Goto(j, "canary")
  /\ UNCHANGED <<database, up, attached, route, lock, call, cancelKey, verified>>

(* The public backend stays the active release; without one renderRoute makes
   the candidate public at once.                                           *)
Canary(j) ==
  /\ At(j, "canary")
  /\ route' = IF job[j].act = None THEN job[j].rel ELSE job[j].act
  /\ Goto(j, "probe")
  /\ UNCHANGED <<database, up, attached, backup, lock, call, cancelKey, verified>>

(* Mutant: the rendered route is never written. *)
MutSwitch(j) ==
  /\ At(j, "switch")
  /\ Goto(j, "confirm")
  /\ UNCHANGED <<database, vps, lock, call, cancelKey, verified>>

Switch(j) ==
  /\ At(j, "switch")
  /\ route' = job[j].rel
  /\ Goto(j, "confirm")
  /\ UNCHANGED <<database, up, attached, backup, lock, call, cancelKey, verified>>

ProbePasses(j) ==
  /\ job[j].pc \in {"probe", "confirm"}
  /\ Reachable(job[j].rel)
  /\ Goto(j, IF At(j, "probe") THEN "switch" ELSE "commit")
  /\ UNCHANGED <<database, vps, lock, call, cancelKey, verified>>

ProbeFails(j) ==
  /\ job[j].pc \in {"probe", "confirm"}
  /\ "probe" \in Faults \/ ~Reachable(job[j].rel)
  /\ Throw(j, "final")
  /\ UNCHANGED <<database, vps, lock, call, cancelKey, verified>>

(* Mutant: the former release is not superseded. *)
MutCommit(j) ==
  /\ At(j, "commit")
  /\ status' = [status EXCEPT ![job[j].rel] = "ACTIVE"]
  /\ active' = job[j].rel
  /\ candidate' = None
  /\ Goto(j, "detach")
  /\ UNCHANGED <<owner, runtime, pinned, vps, lock, call, cancelKey, verified>>

Commit(j) ==
  LET new == job[j].rel
      old == job[j].act
  IN
  /\ At(j, "commit")
  /\ status' = [r \in Release |-> IF r = new THEN "ACTIVE"
                                  ELSE IF r = old THEN "SUPERSEDED" ELSE status[r]]
  /\ active' = new
  /\ candidate' = None
  /\ Goto(j, "detach")
  /\ UNCHANGED <<owner, runtime, pinned, vps, lock, call, cancelKey, verified>>

(* Mutant: the old release stays on the network. *)
MutDetachOld(j) ==
  /\ At(j, "detach")
  /\ Goto(j, "cleanup")
  /\ UNCHANGED <<database, vps, lock, call, cancelKey, verified>>

DetachOld(j) ==
  /\ At(j, "detach")
  /\ attached' = attached \ ({job[j].act} \ {job[j].rel})
  /\ Goto(j, "cleanup")
  /\ UNCHANGED <<database, up, route, backup, lock, call, cancelKey, verified>>

DropBackup(j) ==
  /\ At(j, "cleanup")
  /\ backup' = None
  /\ Goto(j, IF IsRollback(j) THEN "finishRollback" ELSE "link")
  /\ UNCHANGED <<database, up, attached, route, lock, call, cancelKey, verified>>

(* The `current' link and the domain binding. *)
Link(j) ==
  /\ At(j, "link")
  /\ Wanted(j)
  /\ Goto(j, "finish")
  /\ UNCHANGED <<database, vps, lock, call, cancelKey, verified>>

(* The run is over and returns; withDeploymentLocks refuses to report success
   when the lease was lost.                                                *)
Finish(j) ==
  /\ \/ At(j, "finish") /\ Wanted(j) /\ UNCHANGED pinned
     \/ At(j, "finishRollback") /\ pinned' = pinned \ {job[j].rel}
  /\ IF lock = j
     THEN /\ Goto(j, "done")
          /\ lock' = None
          /\ cancelKey' = cancelKey \ {job[j].dep}
     ELSE /\ job' = [job EXCEPT ![j].pc = "failed", ![j].err = "final"]
          /\ UNCHANGED <<lock, cancelKey>>
  /\ UNCHANGED <<status, owner, runtime, active, candidate, vps, call, verified>>

------------------------------------------------------------------------------
(* Error handling.                                                         *)

(* Mutant: the undo deletes the route instead of restoring it. *)
MutUndoRoute(j) ==
  /\ At(j, "undoRoute")
  /\ route' = None
  /\ backup' = None
  /\ Goto(j, "undoDetach")
  /\ UNCHANGED <<database, up, attached, lock, call, cancelKey, verified>>

UndoRoute(j) ==
  /\ At(j, "undoRoute")
  /\ route' = backup
  /\ backup' = None
  /\ Goto(j, "undoDetach")
  /\ UNCHANGED <<database, up, attached, lock, call, cancelKey, verified>>

UndoDetach(j) ==
  /\ At(j, "undoDetach")
  /\ attached' = attached \ {job[j].rel}
  /\ Goto(j, "undoMark")
  /\ UNCHANGED <<database, up, route, backup, lock, call, cancelKey, verified>>

(* markReadinessFailed, called by activate and again by executeDeployment. *)
MarkFailed(j) ==
  /\ job[j].pc \in {"undoMark", "markFailed"}
  /\ status' = [status EXCEPT ![job[j].rel] = "FAILED"]
  /\ candidate' = IF candidate = job[j].rel THEN None ELSE candidate
  /\ Goto(j, IF At(j, "markFailed") THEN "clear" ELSE IF IsRollback(j) THEN "unpin" ELSE "markFailed")
  /\ UNCHANGED <<owner, runtime, pinned, active, vps, lock, call, cancelKey, verified>>

(* A canceled deployment loses every container that carries its label, and
   errors of the removal are ignored.  A failed candidate loses its container
   by a runCommand, whose own error or cancellation replaces the first.     *)
Clear(j) ==
  /\ At(j, "clear")
  /\ \/ /\ job[j].err = "cancel"
        /\ Remove(Containers(job[j].dep)) \/ ("ssh" \in Faults /\ UNCHANGED <<up, attached>>)
        /\ Goto(j, "settle")
     \/ /\ job[j].err # "cancel"
        /\ job[j].rel \in up => Wanted(j)
        /\ Remove({job[j].rel})
        /\ Goto(j, "settle")
     \/ /\ job[j].err # "cancel" /\ job[j].rel \in up
        /\ \E err \in (IF Wanted(j) THEN {"final", "transient"} ELSE {"cancel"}) :
             /\ Wanted(j) => "ssh" \in Faults
             /\ job' = [job EXCEPT ![j].pc = "settle", ![j].err = err]
        /\ UNCHANGED <<up, attached>>
  /\ UNCHANGED <<database, route, backup, lock, call, cancelKey, verified>>

Unpin(j) ==
  /\ At(j, "unpin")
  /\ pinned' = pinned \ {job[j].rel}
  /\ Goto(j, "settle")
  /\ UNCHANGED <<status, owner, runtime, active, candidate, vps, lock, call, cancelKey, verified>>

(* Mutant: a settled job keeps the project lock. *)
MutSettle(j) ==
  /\ At(j, "settle")
  /\ job' = [job EXCEPT ![j].pc = "failed", ![j].tries = @ + 1, ![j].err = "none"]
  /\ UNCHANGED <<database, vps, lock, call, cancelKey, verified>>

(* The worker's catch block, the locks being released by then. *)
Settle(j) ==
  LET err   == job[j].err
      again == err = "transient" /\ job[j].tries + 1 < MaxTries
  IN
  /\ At(j, "settle")
  /\ job' = [job EXCEPT
       ![j].pc = IF again THEN "queued" ELSE IF err = "cancel" THEN "canceled" ELSE "failed",
       ![j].tries = @ + 1, ![j].rel = None, ![j].act = None, ![j].err = "none"]
  /\ lock' = IF lock = j THEN None ELSE lock
  /\ cancelKey' = IF err = "cancel" THEN cancelKey \ {job[j].dep} ELSE cancelKey
  /\ UNCHANGED <<database, vps, call, verified>>

(* The steps run by runCommand, which looks for the cancellation key before
   and after the command. *)
Checked == {"begin", "replace", "start", "health", "recheck", "connect", "backup", "link"}

(* A step that looks for the cancellation key and finds it.  The copy of the
   route file may have been made by then.                                  *)
Canceled(j) ==
  /\ job[j].pc \in Checked \cup {"record", "finish"}
  /\ ~Wanted(j)
  /\ backup' \in {backup, IF At(j, "backup") THEN route ELSE backup}
  /\ Throw(j, "cancel")
  /\ UNCHANGED <<database, up, attached, route, lock, call, cancelKey, verified>>

(* The other remote commands before the error handling.  (The commands of
   promote are in PromotionFails, those of Clear in Clear.)                *)
Unchecked == {"promote", "restore", "detachStale", "undoPromotion", "canary", "probe", "switch",
              "confirm", "detach", "cleanup", "undoRoute", "undoDetach"}

(* A remote command that is lost, times out or exits with an error; the last
   removal of the backup may have been executed.                           *)
CommandFails(j) ==
  /\ "ssh" \in Faults
  /\ job[j].pc \in Unchecked \/ (job[j].pc \in Checked /\ Wanted(j))
  /\ backup' \in {backup, IF At(j, "cleanup") THEN None ELSE backup}
  /\ \E err \in {"final", "transient"} : Throw(j, err)
  /\ UNCHANGED <<database, up, attached, route, lock, call, cancelKey, verified>>

(* The worker dies; its locks expire.  BullMQ gives a stalled job out once
   more and fails it the second time.                                      *)
Crash(j) ==
  /\ "crash" \in Faults
  /\ job[j].pc \in Running
  /\ job' = [job EXCEPT ![j].pc = IF job[j].stalls = 0 THEN "queued" ELSE "stalled",
               ![j].stalls = 1, ![j].rel = None, ![j].act = None, ![j].err = "none"]
  /\ lock' = IF lock = j THEN None ELSE lock
  /\ UNCHANGED <<database, vps, call, cancelKey, verified>>

Lapse ==
  /\ "lapse" \in Faults
  /\ lock # None
  /\ lock' = None
  /\ UNCHANGED <<database, vps, job, call, cancelKey, verified>>

------------------------------------------------------------------------------
Reconcile(j) ==
  \/ NothingInterrupted(j) \/ ReadInterrupted(j)
  \/ Promote(j) \/ ConfirmPromotion(j) \/ PromotionFails(j) \/ UndoPromotion(j)
  \/ Restore(j) \/ DetachStale(j) \/ DropStale(j)

Prepare(j) ==
  \/ BeginRelease(j) \/ Replace(j) \/ Start(j) \/ Healthy(j) \/ Unhealthy(j)
  \/ RecordRuntime(j) \/ PickCandidate(j) \/ CandidateMissing(j)

Activate(j) ==
  \/ ReadActive(j) \/ Connect(j) \/ MarkActivating(j) \/ BackUp(j) \/ Canary(j)
  \/ ProbePasses(j) \/ ProbeFails(j) \/ Switch(j) \/ Commit(j) \/ DetachOld(j) \/ DropBackup(j)
  \/ Link(j) \/ Finish(j)

Recover(j) ==
  \/ UndoRoute(j) \/ UndoDetach(j) \/ MarkFailed(j) \/ Clear(j) \/ Unpin(j) \/ Settle(j)
  \/ Canceled(j) \/ CommandFails(j)

(* Without the fault "race" an API call completes before a worker moves on. *)
Worker(j) ==
  /\ "race" \in Faults \/ call = NoCall
  /\ PickUp(j) \/ Reconcile(j) \/ Prepare(j) \/ Activate(j) \/ Recover(j)

Api ==
  \/ \E d \in Deployment : RequestDeploy(d) \/ CheckCancel(d)
  \/ \E r \in Release : ReadRollback(r)
  \/ \E j \in Rollback : CommitRollback(j)
  \/ CommitCancel

Next == Api \/ Lapse \/ \E j \in Job : Worker(j) \/ Crash(j)

Spec == Init /\ [][Next]_vars

(* Enqueued jobs are worked on; users promise nothing. *)
Fairness ==
  /\ \A j \in Job : WF_vars(Worker(j))
  /\ WF_vars(CommitCancel \/ \E j \in Rollback : CommitRollback(j))

FairSpec == Spec /\ Fairness

------------------------------------------------------------------------------
(* Properties.                                                             *)

(* No two releases are ACTIVE, and the one that is, is the project's: commit
   reads the active release long before it supersedes it, so this rests on
   the project lock being held throughout (release.service.ts:226).        *)
OneActive == \A r \in Release : status[r] = "ACTIVE" => r = active

(* docs/SECURITY.md:54: traffic reaches only releases that passed a health
   check, also through reconciliation, undo and rollback.                  *)
VerifiedTraffic == route # None => route \in verified

(* Zero downtime (docs/ARCHITECTURE.md:73): once the project has an active
   release, the public route always leads to a container that can answer,
   whatever fails in a deploy or rollback run.                             *)
AlwaysServed == active # None => route # None /\ Reachable(route)

(* The prior release is preserved for rollback (README.md:23). *)
PriorRetained == \A r \in Release : status[r] = "SUPERSEDED" => r \in runtime \cap up

(* The container of the active release is never removed by a run. *)
LiveContainerKept == active # None => active \in up

(* Nor is its activation given up after the fact (docs/ARCHITECTURE.md:73), wherever
   a check fails or a cancellation comes.                                   *)
ActiveIsIntact == active # None => LiveContainerKept /\ status[active] # "FAILED"

(* Between runs nothing of an activation is left: the route points to the
   active release, only that release is on the gateway's network and there is
   no backup file that a later undo would mistake for its own.             *)
CleanBetweenRuns ==
  lock = None => route = active /\ attached \subseteq {active} /\ backup = None

(* A run that reports success leaves its own release active, public and
   reachable, whatever happened before it: retries, stalled predecessors,
   interrupted activations and rollback requests included.                 *)
SuccessMeansLive ==
  [][\A j \in Job : job'[j].pc = "done" /\ job[j].pc # "done" =>
       /\ active' = job[j].rel /\ route' = job[j].rel
       /\ Reachable(job[j].rel)']_vars

(* Blue-green deployment seen from outside. *)
Public == INSTANCE BlueGreen
  WITH live <- active,
       tested <- verified,
       retained <- {r \in Release : status[r] = "SUPERSEDED"}

BlueGreenSpec == Public!Spec

(* Every job that was enqueued comes to an end. *)
EveryJobEnds == \A j \in Job : At(j, "queued") ~> job[j].pc \in Ended
==============================================================================
