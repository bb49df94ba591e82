------------------------------ MODULE Lifecycle ------------------------------
(***************************************************************************)
(* The deployments of one project, which say whether they run, stopped or   *)
(* failed, next to the one container each has and the one release that has  *)
(* the traffic.  Stop, pause, start, restart and delete (deployment.        *)
(* service.ts) take no lock: each reads the status, looks for the           *)
(* container, sends its command and then writes.  Runs and rollbacks hold   *)
(* the project lock (DeploymentLocks) and are reduced to the steps that     *)
(* change what is shown.                                                    *)
(***************************************************************************)
EXTENDS Integers, FiniteSets

CONSTANTS
  LifeMax,
  LifeRuns,      \* bound: deployments of the project, which may depend on the faults
  LifeCaller,
  LifeFaultSets  \* each behaviour admits one of these subsets of LifeFault

LifeDeployment == 1..LifeMax
NoDeployment == 0

(* overlap:  a request while another one, a run or a rollback is under way
   again:    a deployment that has lost its traffic is started again
   rollback: rollbacks
   ssh:      commands fail, before or after they have had their effect
   gone:     containers stop by themselves, or vanish from the VPS         *)
LifeFault == {"overlap", "again", "rollback", "ssh", "gone"}

ASSUME LifeBounds == LifeMax \in Nat \ {0}
ASSUME LifeFaultAssumption == LifeFaultSets \subseteq SUBSET LifeFault
ASSUME LifeRunsAssumption == LifeRuns \in [SUBSET LifeFault -> 0..LifeMax]

VARIABLES
  lifeStatus,  \* Deployment.status; GONE is a deleted row
  lifeRef,     \* the deployments with a containerId
  lifeSaved,   \* the deployments with a row in their history
  lifeUp,      \* their containers
  lifeActive,  \* the deployment of the active release
  lifeRun,     \* the run or rollback that holds the project lock
  lifeCall,    \* the requests, with the status they have read
  lifeFaults

lifeVars == <<lifeStatus, lifeRef, lifeSaved, lifeUp, lifeActive, lifeRun, lifeCall, lifeFaults>>

LifeStatus == {"NONE", "BUILDING", "DEPLOYING", "RUNNING", "PAUSED", "STOPPED", "FAILED",
               "ROLLED_BACK", "DELETING", "GONE"}
LifeOp == {"stop", "pause", "start", "restart", "delete"}

(* A deleted row keeps neither a container nor a history. *)
LifeTypeOK ==
  /\ lifeStatus \in [LifeDeployment -> LifeStatus]
  /\ lifeRef \cup lifeSaved \subseteq {d \in LifeDeployment : lifeStatus[d] \notin {"NONE", "GONE"}}
  /\ lifeUp \in [LifeDeployment -> {"none", "up", "paused", "down"}]
  /\ lifeActive \in LifeDeployment \cup {NoDeployment}
  /\ lifeRun \in [pc : {"idle", "building", "started", "activated", "shown", "rolling", "rolled"},
                  d : LifeDeployment \cup {NoDeployment}]
  /\ lifeCall \in [LifeCaller -> [pc : {"idle", "begun", "marked", "found", "absent", "acted", "done"}, op : LifeOp,
                                  d : LifeDeployment, was : LifeStatus]]
  /\ lifeFaults \in LifeFaultSets

LifeInit ==
  /\ lifeStatus = [d \in LifeDeployment |-> "NONE"]
  /\ lifeRef = {} /\ lifeSaved = {}
  /\ lifeUp = [d \in LifeDeployment |-> "none"]
  /\ lifeActive = NoDeployment
  /\ lifeRun = [pc |-> "idle", d |-> NoDeployment]
  /\ lifeCall = [c \in LifeCaller |-> [pc |-> "idle", op |-> "stop", d |-> 1, was |-> "NONE"]]
  /\ lifeFaults \in LifeFaultSets

------------------------------------------------------------------------------
(* Runs and rollbacks.                                                     *)

NoRun == [pc |-> "idle", d |-> NoDeployment]

NoCalls == \A c \in LifeCaller : lifeCall[c].pc = "idle"

Exists(d) == lifeStatus[d] \notin {"NONE", "GONE"}

(* A write to a row that has been deleted throws. *)
Writes(d, status) == lifeStatus' = IF Exists(d) THEN [lifeStatus EXCEPT ![d] = status] ELSE lifeStatus

LifeRunGoes(pc) == lifeRun' = [lifeRun EXCEPT !.pc = pc]

LifeDeploy(d) ==
  /\ lifeRun = NoRun /\ (NoCalls \/ "overlap" \in lifeFaults)
  /\ d <= LifeRuns[lifeFaults] /\ lifeStatus[d] = "NONE" /\ \A e \in LifeDeployment : e < d => lifeStatus[e] # "NONE"
  /\ lifeStatus' = [lifeStatus EXCEPT ![d] = "BUILDING"]
  /\ lifeRun' = [pc |-> "building", d |-> d]
  /\ UNCHANGED <<lifeRef, lifeSaved, lifeUp, lifeActive, lifeCall, lifeFaults>>

LifeStarts ==
  /\ lifeRun.pc = "building"
  /\ lifeUp' = [lifeUp EXCEPT ![lifeRun.d] = "up"]
  /\ LifeRunGoes("started")
  /\ UNCHANGED <<lifeStatus, lifeRef, lifeSaved, lifeActive, lifeCall, lifeFaults>>

(* The removal of the container is tried, and an error of it logged. *)
LifeFails ==
  /\ lifeRun.pc \in {"building", "started"}
  /\ Writes(lifeRun.d, "FAILED")
  /\ lifeRef' = lifeRef \ {lifeRun.d}
  /\ \/ lifeUp' = [lifeUp EXCEPT ![lifeRun.d] = "none"]
     \/ "ssh" \in lifeFaults /\ UNCHANGED lifeUp
  /\ lifeRun' = NoRun
  /\ UNCHANGED <<lifeSaved, lifeActive, lifeCall, lifeFaults>>

(* The gateway reaches the container and the release rows are switched; the
   rows of a deleted deployment are gone, so the run fails.                *)
LifeActivates ==
  /\ lifeRun.pc = "started" /\ lifeUp[lifeRun.d] = "up" /\ Exists(lifeRun.d)
  /\ lifeActive' = lifeRun.d
  /\ LifeRunGoes("activated")
  /\ UNCHANGED <<lifeStatus, lifeRef, lifeSaved, lifeUp, lifeCall, lifeFaults>>

LifeShows ==
  /\ lifeRun.pc = "activated"
  /\ Writes(lifeRun.d, "RUNNING")
  /\ IF Exists(lifeRun.d)
       THEN lifeRef' = lifeRef \cup {lifeRun.d} /\ LifeRunGoes("shown")
       ELSE lifeRun' = NoRun /\ UNCHANGED lifeRef
  /\ UNCHANGED <<lifeSaved, lifeUp, lifeActive, lifeCall, lifeFaults>>

OthersRunning == {e \in LifeDeployment \ {lifeRun.d} : lifeStatus[e] = "RUNNING"}

(* One of the other deployments that say RUNNING is set to STOPPED. *)
LifeSettles ==
  /\ lifeRun.pc = "shown"
  /\ \/ OthersRunning = {} /\ UNCHANGED lifeStatus
     \/ \E e \in OthersRunning : lifeStatus' = [lifeStatus EXCEPT ![e] = "STOPPED"]
  /\ lifeSaved' = IF Exists(lifeRun.d) THEN lifeSaved \cup {lifeRun.d} ELSE lifeSaved
  /\ lifeRun' = NoRun
  /\ UNCHANGED <<lifeRef, lifeUp, lifeActive, lifeCall, lifeFaults>>

(* executeRollback: the container answers and the release is switched. *)
LifeRoll(d) ==
  /\ "rollback" \in lifeFaults
  /\ lifeRun = NoRun /\ (NoCalls \/ "overlap" \in lifeFaults)
  /\ d # lifeActive /\ Exists(d) /\ d \in lifeSaved /\ lifeUp[d] = "up"
  /\ lifeActive' = d
  /\ lifeRun' = [pc |-> "rolling", d |-> d]
  /\ UNCHANGED <<lifeStatus, lifeRef, lifeSaved, lifeUp, lifeCall, lifeFaults>>

(* All the others are set to STOPPED. *)
LifeRollSettles ==
  /\ lifeRun.pc = "rolling"
  /\ lifeStatus' = [e \in LifeDeployment |-> IF e \in OthersRunning THEN "STOPPED" ELSE lifeStatus[e]]
  /\ LifeRunGoes("rolled")
  /\ UNCHANGED <<lifeRef, lifeSaved, lifeUp, lifeActive, lifeCall, lifeFaults>>

LifeRollShows ==
  /\ lifeRun.pc = "rolled"
  /\ Writes(lifeRun.d, "ROLLED_BACK")
  /\ lifeRef' = IF Exists(lifeRun.d) THEN lifeRef \cup {lifeRun.d} ELSE lifeRef
  /\ lifeRun' = NoRun
  /\ UNCHANGED <<lifeSaved, lifeUp, lifeActive, lifeCall, lifeFaults>>

------------------------------------------------------------------------------
(* Requests.                                                               *)

(* assertLifecycleTransition, and the check of a restart. *)
Allowed(op, d) ==
  CASE op \in {"stop", "pause"} -> lifeStatus[d] \in {"RUNNING", "ROLLED_BACK"}
    [] op = "start" -> lifeStatus[d] \in {"PAUSED", "STOPPED", "FAILED", "DEPLOYING"}
    [] op = "restart" -> lifeStatus[d] = "RUNNING" /\ d \in lifeRef
    [] op = "delete" -> Exists(d) /\ lifeStatus[d] # "DELETING"

CallTo(c, pc) == lifeCall' = [lifeCall EXCEPT ![c].pc = pc]

Answer(c) == lifeCall' = [lifeCall EXCEPT ![c] = [pc |-> "idle", op |-> "stop", d |-> 1, was |-> "NONE"]]

LifeRequest(c, op, d) ==
  /\ lifeCall[c].pc = "idle" /\ Allowed(op, d)
  /\ (NoCalls /\ lifeRun = NoRun) \/ "overlap" \in lifeFaults
  /\ op = "start" /\ d # lifeActive => "again" \in lifeFaults
  /\ lifeCall' = [lifeCall EXCEPT ![c] = [pc |-> "begun", op |-> op, d |-> d, was |-> lifeStatus[d]]]
  /\ UNCHANGED <<lifeStatus, lifeRef, lifeSaved, lifeUp, lifeActive, lifeRun, lifeFaults>>

(* Restart and delete write DEPLOYING and DELETING before their command. *)
LifeMark(c) ==
  LET d == lifeCall[c].d IN
  /\ lifeCall[c].pc = "begun"
  /\ CASE lifeCall[c].op = "restart" -> Writes(d, "DEPLOYING")
       [] lifeCall[c].op = "delete" -> Writes(d, "DELETING")
       [] OTHER -> UNCHANGED lifeStatus
  /\ IF Exists(d) THEN CallTo(c, "marked") ELSE Answer(c)
  /\ UNCHANGED <<lifeRef, lifeSaved, lifeUp, lifeActive, lifeRun, lifeFaults>>

(* The request ends with an error, for which restart and delete write a status. *)
CommandFails(c) ==
  /\ CASE lifeCall[c].op = "restart" -> Writes(lifeCall[c].d, "FAILED")
       [] lifeCall[c].op = "delete" -> Writes(lifeCall[c].d, lifeCall[c].was)
       [] OTHER -> UNCHANGED lifeStatus
  /\ Answer(c)
  /\ UNCHANGED lifeRef

(* containerExists, and the inspection of a restart. *)
Finds(c) == lifeCall[c].d \in lifeRef /\ lifeUp[lifeCall[c].d] # "none"

(* A pause asks for a container first.  When the VPS does not answer, a request
   may fail before it looks; then the inspection of a restart throws, and every
   other one takes the error for an absent container.                      *)
LifeLook(c) ==
  /\ lifeCall[c].pc = "marked"
  /\ IF lifeCall[c].op = "pause" /\ lifeCall[c].d \notin lifeRef
       THEN CommandFails(c)
       ELSE \/ /\ CallTo(c, IF Finds(c) THEN "found" ELSE "absent")
               /\ UNCHANGED <<lifeStatus, lifeRef>>
            \/ /\ "ssh" \in lifeFaults /\ lifeCall[c].op # "restart" /\ CallTo(c, "absent")
               /\ UNCHANGED <<lifeStatus, lifeRef>>
            \/ "ssh" \in lifeFaults /\ CommandFails(c)
  /\ UNCHANGED <<lifeUp, lifeSaved, lifeActive, lifeRun, lifeFaults>>

(* The container is as the command leaves it, and the request goes on. *)
Commands(c, container, pc) ==
  /\ lifeUp' = [lifeUp EXCEPT ![lifeCall[c].d] = container]
  /\ CallTo(c, pc)
  /\ UNCHANGED <<lifeStatus, lifeRef>>

(* The command is not possible in the state the container is in. *)
Refused(c) == CommandFails(c) /\ UNCHANGED lifeUp

(* The container is not there: the deployment is FAILED and loses its reference. *)
Missing(c) ==
  /\ Writes(lifeCall[c].d, "FAILED")
  /\ lifeRef' = lifeRef \ {lifeCall[c].d}
  /\ Answer(c)
  /\ UNCHANGED lifeUp

(* docker stop; an absent container needs none. *)
Stops(c) ==
  IF lifeCall[c].pc = "absent" THEN Commands(c, lifeUp[lifeCall[c].d], "done")
  ELSE IF lifeUp[lifeCall[c].d] = "none" THEN Refused(c)
  ELSE Commands(c, "down", "done")

Pauses(c) ==
  IF lifeCall[c].pc = "absent" THEN Missing(c)
  ELSE IF lifeUp[lifeCall[c].d] = "up" THEN Commands(c, "paused", "done")
  ELSE Refused(c)

(* Mutant: the row of a container that was lost is taken for enough to start. *)
MutResumes(c) == Commands(c, IF lifeCall[c].pc = "absent" THEN lifeUp[lifeCall[c].d] ELSE "up", "done")

(* docker unpause or docker start, which is verified; without a container, a new
   one of the image that was kept, which is verified before it is recorded. *)
Resumes(c) ==
  LET d == lifeCall[c].d IN
  CASE lifeCall[c].pc = "found" /\ lifeUp[d] # "none" /\ (lifeCall[c].was = "PAUSED") = (lifeUp[d] = "paused") ->
         Commands(c, "up", "acted")
    [] lifeCall[c].pc = "absent" /\ d \in lifeSaved ->
         /\ lifeUp' = [lifeUp EXCEPT ![d] = "up"]
         /\ lifeRef' = IF Exists(d) THEN lifeRef \cup {d} ELSE lifeRef
         /\ CallTo(c, "done") /\ UNCHANGED lifeStatus
    [] lifeCall[c].pc = "absent" /\ d \notin lifeSaved -> Missing(c)
    [] OTHER -> Refused(c)

Restarts(c) ==
  IF lifeCall[c].pc = "absent" THEN Missing(c)
  ELSE IF lifeUp[lifeCall[c].d] = "none" THEN Refused(c)
  ELSE Commands(c, "up", "done")

(* docker rm -f; the images and the workspaces are removed next. *)
Removes(c) ==
  Commands(c, IF lifeCall[c].pc = "absent" THEN lifeUp[lifeCall[c].d] ELSE "none", "acted")

(* What the container may be after a command that has thrown: as it was, as the
   command leaves it, or, of a new container, anything but paused.         *)
LeftBy(c) ==
  LET up == lifeUp[lifeCall[c].d] IN
  CASE lifeCall[c].pc = "found" ->
         {up} \cup (IF up = "none" THEN {}
                   ELSE CASE lifeCall[c].op = "stop" -> {"down"}
                          [] lifeCall[c].op = "pause" -> {"paused"}
                          [] lifeCall[c].op \in {"start", "restart"} -> {"up", "down"}
                          [] lifeCall[c].op = "delete" -> {"none"})
    [] lifeCall[c].op = "start" -> {up, "none", "up", "down"}
    [] OTHER -> {up}

LifeCommand(c) ==
  /\ lifeCall[c].pc \in {"found", "absent"}
  /\ \/ CASE lifeCall[c].op = "stop" -> Stops(c)
          [] lifeCall[c].op = "pause" -> Pauses(c)
          [] lifeCall[c].op = "start" -> Resumes(c)
          [] lifeCall[c].op = "restart" -> Restarts(c)
          [] lifeCall[c].op = "delete" -> Removes(c)
     \/ /\ "ssh" \in lifeFaults
        /\ \E container \in LeftBy(c) : lifeUp' = [lifeUp EXCEPT ![lifeCall[c].d] = container]
        /\ CommandFails(c)
  /\ UNCHANGED <<lifeSaved, lifeActive, lifeRun, lifeFaults>>

(* verifyContainerRunningOnly after a start, and what a delete removes after the
   container, whose Compose resources may throw.                           *)
LifeVerify(c) ==
  /\ lifeCall[c].pc = "acted"
  /\ \/ /\ lifeCall[c].op = "start" => lifeUp[lifeCall[c].d] = "up"
        /\ CallTo(c, "done")
        /\ UNCHANGED <<lifeStatus, lifeRef>>
     \/ /\ "ssh" \in lifeFaults \/ (lifeCall[c].op = "start" /\ lifeUp[lifeCall[c].d] # "up")
        /\ CommandFails(c)
  /\ UNCHANGED <<lifeUp, lifeSaved, lifeActive, lifeRun, lifeFaults>>

(* Deleting the row deletes its releases, and the project loses the active one. *)
LifeWrite(c) ==
  LET d == lifeCall[c].d IN
  /\ lifeCall[c].pc = "done"
  /\ CASE lifeCall[c].op = "stop" -> Writes(d, "STOPPED")
       [] lifeCall[c].op = "pause" -> Writes(d, "PAUSED")
       [] lifeCall[c].op \in {"start", "restart"} -> Writes(d, "RUNNING")
       [] lifeCall[c].op = "delete" -> Writes(d, "GONE")
  /\ IF lifeCall[c].op = "delete"
       THEN /\ lifeRef' = lifeRef \ {d} /\ lifeSaved' = lifeSaved \ {d}
            /\ lifeActive' = IF lifeActive = d THEN NoDeployment ELSE lifeActive
       ELSE UNCHANGED <<lifeRef, lifeSaved, lifeActive>>
  /\ Answer(c)
  /\ UNCHANGED <<lifeUp, lifeRun, lifeFaults>>

LifeVanish(d) ==
  /\ "gone" \in lifeFaults /\ lifeUp[d] # "none"
  /\ \E container \in {"none", "down"} : lifeUp' = [lifeUp EXCEPT ![d] = container]
  /\ UNCHANGED <<lifeStatus, lifeRef, lifeSaved, lifeActive, lifeRun, lifeCall, lifeFaults>>

LifeNext ==
  \/ LifeStarts \/ LifeFails \/ LifeActivates \/ LifeShows \/ LifeSettles \/ LifeRollSettles \/ LifeRollShows
  \/ \E d \in LifeDeployment : LifeDeploy(d) \/ LifeRoll(d) \/ LifeVanish(d)
  \/ \E c \in LifeCaller :
       \/ LifeMark(c) \/ LifeLook(c) \/ LifeCommand(c) \/ LifeVerify(c) \/ LifeWrite(c)
       \/ \E op \in LifeOp, d \in LifeDeployment : LifeRequest(c, op, d)

LifeSpec == LifeInit /\ [][LifeNext]_lifeVars

------------------------------------------------------------------------------
(* Properties.                                                             *)

Shown == {d \in LifeDeployment : lifeStatus[d] \in {"RUNNING", "ROLLED_BACK"}}

Quiet == lifeRun = NoRun /\ NoCalls

(* Between requests the status tells the truth: a deployment that says it runs
   has a container that runs, whatever was stopped, paused, started again,
   rolled back to or failed before, and the one with the traffic says STOPPED
   only when somebody stopped its container: settling the others, in a run or
   in a rollback, spares it.  That needs commands that do not fail (ssh): a stop
   whose inspection fails takes the container for absent and writes STOPPED
   while it runs, a delete that fails after the removal writes RUNNING back, and
   a stop or a pause whose answer is lost leaves RUNNING as it was.  It also
   needs containers that do not stop by themselves (gone), of which no one is
   told, and requests that do not overlap.  And no more than one deployment says
   that it runs, failing commands or not, as long as no deployment without
   traffic is started again, nothing is rolled back and nothing overlaps: a run
   sets only one of the others to STOPPED, and never one that says ROLLED_BACK. *)
StatusIsTrue ==
  /\ Quiet /\ lifeFaults \cap {"overlap", "gone", "ssh"} = {} =>
       /\ \A d \in Shown : lifeUp[d] = "up"
       /\ lifeActive # NoDeployment =>
            (lifeStatus[lifeActive] = "STOPPED" => lifeUp[lifeActive] = "down")
  /\ Quiet /\ lifeFaults \cap {"overlap", "again", "rollback"} = {} => Cardinality(Shown) <= 1
==============================================================================
