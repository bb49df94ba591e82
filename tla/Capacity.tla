------------------------------ MODULE Capacity ------------------------------
(***************************************************************************)
(* Capacity of one VPS and the project limit of one owner                  *)
(* (resource-policy.service.ts): a deployment reserves its share before it *)
(* is queued and again when its tier is detected; what is committed is read*)
(* from the database and the decision is written back a remote measurement *)
(* later, under a lock of the VPS.  CPU is compared with the machine only, *)
(* never with what is committed, and is left out.                          *)
(***************************************************************************)
EXTENDS Integers, FiniteSets, FiniteSetsExt

CONSTANTS
  CapDeployment,
  CapProject,     \* the projects of the owner
  CapProjectOf,   \* the project of each deployment
  CapMemory,      \* what the policy of each deployment asks for
  CapStorage,
  TotalMemory,    \* what the VPS has
  TotalDisk,
  ProjectLimit,   \* active projects of an owner (10 in the code)
  NoHolder,
  CapFaultSets    \* each behaviour admits one of these subsets of CapFault

(* expire:   a reservation runs out (six hours) while its job waits
   lapse:    the lock runs out (60 s, never extended) during a measurement
   race:     the check of an approval and its PENDING are not one step
   start:    a stopped deployment is started again
   rollback: a superseded release is activated again                       *)
CapFault == {"expire", "lapse", "race", "start", "rollback"}

ASSUME CapProjectAssumption == CapProjectOf \in [CapDeployment -> CapProject]
ASSUME CapSizeAssumption ==
  /\ CapMemory \in [CapDeployment -> Nat] /\ CapStorage \in [CapDeployment -> Nat]
  /\ TotalMemory \in Nat /\ TotalDisk \in Nat /\ ProjectLimit \in Nat
ASSUME CapFiniteAssumption == IsFiniteSet(CapDeployment) /\ IsFiniteSet(CapProject)
ASSUME CapHolderAssumption == NoHolder \notin CapDeployment
ASSUME CapFaultAssumption == CapFaultSets \subseteq SUBSET CapFault

VARIABLES
  capDep,       \* where each deployment is, and which request it makes
  capReserved,  \* the deployments with a RESERVED, unexpired reservation
  capSeen,      \* what a request has read as committed
  capLock,      \* the holder of vps-capacity:<vps>
  capFaults

capVars == <<capDep, capReserved, capSeen, capLock, capFaults>>

(* created:    PENDING, the project limit not checked yet
   asking:     within the limit, before the lock
   measuring, committing: with the lock, around reading what is committed
   reserved:   an approval's reservation is made, PENDING is not written yet
   live:       it has a release that is a candidate or active
   stopped:    its release is active and its container stopped             *)
CapPhase == {"none", "created", "asking", "measuring", "committing", "reserved", "queued",
             "gate", "building", "live", "stopped", "superseded", "failed"}

(* Only a deployment with a request or a job under way has a reservation. *)
CapTypeOK ==
  /\ capDep \in [CapDeployment -> [pc : CapPhase, by : {"create", "approve", "build"}]]
  /\ capReserved \subseteq {d \in CapDeployment :
       \/ capDep[d].pc \in {"reserved", "queued", "building", "live"}
       \/ capDep[d].pc \in {"asking", "measuring", "committing"} /\ capDep[d].by = "build"}
  /\ capSeen \in [CapDeployment -> [memory : Nat, storage : Nat]]
  /\ capLock \in CapDeployment \cup {NoHolder}
  /\ capFaults \in CapFaultSets

CapInit ==
  /\ capDep = [d \in CapDeployment |-> [pc |-> "none", by |-> "create"]]
  /\ capReserved = {}
  /\ capSeen = [d \in CapDeployment |-> [memory |-> 0, storage |-> 0]]
  /\ capLock = NoHolder
  /\ capFaults \in CapFaultSets

------------------------------------------------------------------------------
Phase(d) == capDep[d].pc

CapGoto(d, pc) == capDep' = [capDep EXCEPT ![d].pc = pc]

(* Phases of a request under way, whose status is still the one before it. *)
Requesting == {"asking", "measuring", "committing", "reserved"}

(* The statuses enforceActiveProjectLimit counts; a deployment that waits at
   the preflight gate, is stopped or has failed is not among them.         *)
CountsAsActive(d) ==
  \/ Phase(d) \in {"created", "queued", "building", "live"}
  \/ Phase(d) \in Requesting /\ capDep[d].by # "approve"

OtherActiveProjects(p) == {CapProjectOf[d] : d \in {e \in CapDeployment : CountsAsActive(e)}} \ {p}

(* Deployments whose release is CANDIDATE, READY, ACTIVATING or ACTIVE. *)
Released == {d \in CapDeployment : Phase(d) \in {"live", "stopped"}}

(* committed(): releases, and the reservations of other deployments; storage is
   the largest share of each other project.                                *)
CommittedMemory(d) ==
  MapThenSumSet(LAMBDA e : CapMemory[e], Released)
    + MapThenSumSet(LAMBDA e : CapMemory[e], capReserved \ {d})

ProjectStorage(S, p) == Max({0} \cup {CapStorage[e] : e \in {f \in S : CapProjectOf[f] = p}})

CommittedStorage(d) ==
  MapThenSumSet(LAMBDA p : ProjectStorage(Released \cup (capReserved \ {d}), p),
                CapProject \ {CapProjectOf[d]})

(* capacityFailure keeps a fifth of the memory and 15 % of the disk free. *)
MemoryLimit == TotalMemory - (TotalMemory * 20) \div 100
DiskLimit == TotalDisk - (TotalDisk * 15) \div 100

(* Mutant: only the request itself is compared with the machine. *)
MutFits(seen, d) == CapMemory[d] <= MemoryLimit /\ CapStorage[d] <= DiskLimit

Fits(seen, d) ==
  /\ seen.memory + CapMemory[d] <= MemoryLimit
  /\ seen.storage + CapStorage[d] <= DiskLimit

(* deployFromGithub and deployFromUpload create the row first. *)
CapCreate(d) ==
  /\ Phase(d) = "none"
  /\ capDep' = [capDep EXCEPT ![d] = [pc |-> "created", by |-> "create"]]
  /\ UNCHANGED <<capReserved, capSeen, capLock, capFaults>>

Approving == \E d \in CapDeployment : Phase(d) \in Requesting /\ capDep[d].by = "approve"

CapApprove(d) ==
  /\ Phase(d) = "gate"
  /\ "race" \in capFaults \/ ~Approving
  /\ Cardinality(OtherActiveProjects(CapProjectOf[d])) < ProjectLimit
  /\ capDep' = [capDep EXCEPT ![d] = [pc |-> "asking", by |-> "approve"]]
  /\ UNCHANGED <<capReserved, capSeen, capLock, capFaults>>

(* A run is under way; the slot of the VPS admits one (DeploymentLocks). *)
Running(d) ==
  \/ Phase(d) = "building" \/ (Phase(d) = "live" /\ d \in capReserved)
  \/ Phase(d) \in Requesting /\ capDep[d].by = "build"

(* The run detects the tier and reserves again (reconcileDetectedTier). *)
CapBuild(d) ==
  /\ Phase(d) = "queued" /\ \A e \in CapDeployment : ~Running(e)
  /\ capDep' = [capDep EXCEPT ![d] = [pc |-> "building", by |-> "build"]]
  /\ UNCHANGED <<capReserved, capSeen, capLock, capFaults>>

(* A request that is refused: a new deployment and a run fail, and the worker
   gives the reservation back; an approval leaves the gate as it was.      *)
Refuse(d) ==
  /\ CapGoto(d, IF capDep[d].by = "approve" THEN "gate" ELSE "failed")
  /\ capReserved' = IF capDep[d].by = "build" THEN capReserved \ {d} ELSE capReserved

(* Mutant: the limit is compared one too late. *)
MutCheckLimit(d) ==
  /\ Phase(d) \in {"created", "building"}
  /\ IF Cardinality(OtherActiveProjects(CapProjectOf[d])) > ProjectLimit
       THEN Refuse(d)
       ELSE CapGoto(d, "asking") /\ UNCHANGED capReserved
  /\ UNCHANGED <<capSeen, capLock, capFaults>>

CheckLimit(d) ==
  /\ Phase(d) \in {"created", "building"}
  /\ "race" \in capFaults \/ ~Approving
  /\ IF Cardinality(OtherActiveProjects(CapProjectOf[d])) >= ProjectLimit
       THEN Refuse(d)
       ELSE CapGoto(d, "asking") /\ UNCHANGED capReserved
  /\ UNCHANGED <<capSeen, capLock, capFaults>>

(* VPS_CAPACITY_BUSY: a run is retried with the reservation it has. *)
TakeLock(d) ==
  /\ Phase(d) = "asking"
  /\ IF capLock = NoHolder
       THEN capLock' = d /\ CapGoto(d, "measuring") /\ UNCHANGED capReserved
       ELSE /\ \/ Refuse(d)
               \/ capDep[d].by = "build" /\ CapGoto(d, "queued") /\ UNCHANGED capReserved
            /\ UNCHANGED capLock
  /\ UNCHANGED <<capSeen, capFaults>>

Measure(d) ==
  /\ Phase(d) = "measuring"
  /\ capSeen' = [capSeen EXCEPT ![d] = [memory |-> CommittedMemory(d), storage |-> CommittedStorage(d)]]
  /\ CapGoto(d, "committing")
  /\ UNCHANGED <<capReserved, capLock, capFaults>>

GiveBack(d) == capLock' = IF capLock = d THEN NoHolder ELSE capLock

(* The machine itself may have less available than the database says. *)
Commit(d) ==
  /\ Phase(d) = "committing"
  /\ \/ /\ Fits(capSeen[d], d)
        /\ capReserved' = capReserved \cup {d}
        /\ CapGoto(d, CASE capDep[d].by = "create" -> "queued"
                        [] capDep[d].by = "approve" -> "reserved"
                        [] OTHER -> "live")
     \/ Refuse(d)
  /\ GiveBack(d)
  /\ capSeen' = [capSeen EXCEPT ![d] = [memory |-> 0, storage |-> 0]]
  /\ UNCHANGED capFaults

CapPend(d) ==
  /\ Phase(d) = "reserved"
  /\ CapGoto(d, "queued")
  /\ UNCHANGED <<capReserved, capSeen, capLock, capFaults>>

(* The run stops at the preflight gate, fails, or takes the project's traffic;
   in each case its job ends and the reservation with it.                  *)
CapGate(d) ==
  /\ Phase(d) = "live" /\ d \in capReserved
  /\ CapGoto(d, "gate")
  /\ capReserved' = capReserved \ {d}
  /\ UNCHANGED <<capSeen, capLock, capFaults>>

CapFail(d) ==
  /\ Phase(d) \in {"queued", "building", "live"} /\ (Phase(d) = "live" => d \in capReserved)
  /\ CapGoto(d, "failed")
  /\ capReserved' = capReserved \ {d}
  /\ UNCHANGED <<capSeen, capLock, capFaults>>

CapActivate(d) ==
  /\ Phase(d) = "live" /\ d \in capReserved
  /\ capReserved' = capReserved \ {d}
  /\ capDep' = [e \in CapDeployment |->
       IF /\ e \in Released \ capReserved /\ CapProjectOf[e] = CapProjectOf[d]
         THEN [capDep[e] EXCEPT !.pc = "superseded"] ELSE capDep[e]]
  /\ UNCHANGED <<capSeen, capLock, capFaults>>

CapStop(d) ==
  /\ Phase(d) = "live" /\ d \notin capReserved
  /\ CapGoto(d, "stopped")
  /\ UNCHANGED <<capReserved, capSeen, capLock, capFaults>>

CapStart(d) ==
  /\ "start" \in capFaults /\ Phase(d) = "stopped"
  /\ CapGoto(d, "live")
  /\ UNCHANGED <<capReserved, capSeen, capLock, capFaults>>

CapRollback(d) ==
  /\ "rollback" \in capFaults /\ Phase(d) = "superseded"
  /\ CapGoto(d, "live")
  /\ UNCHANGED <<capReserved, capSeen, capLock, capFaults>>

CapExpire(d) ==
  /\ "expire" \in capFaults /\ Phase(d) = "queued" /\ d \in capReserved
  /\ capReserved' = capReserved \ {d}
  /\ UNCHANGED <<capDep, capSeen, capLock, capFaults>>

CapLapse ==
  /\ "lapse" \in capFaults /\ capLock # NoHolder
  /\ capLock' = NoHolder
  /\ UNCHANGED <<capDep, capReserved, capSeen, capFaults>>

CapNext ==
  \/ CapLapse
  \/ \E d \in CapDeployment :
       \/ CapCreate(d) \/ CapApprove(d) \/ CapBuild(d) \/ CheckLimit(d) \/ TakeLock(d)
       \/ Measure(d) \/ Commit(d) \/ CapPend(d) \/ CapGate(d) \/ CapFail(d)
       \/ CapActivate(d) \/ CapStop(d) \/ CapStart(d) \/ CapRollback(d) \/ CapExpire(d)

CapSpec == CapInit /\ [][CapNext]_capVars

------------------------------------------------------------------------------
(* Properties.                                                             *)

Share == Released \cup capReserved

(* While the lock lasts and no release comes back, capacity is never promised
   without a measurement.                                                  *)
Measured == capFaults \cap {"lapse", "rollback"} = {}

(* What releases and reservations may use together, each deployment once,
   leaves the reserve of the VPS free, however creations, approvals, runs and
   expiries interleave between a measurement and its commitment; of the disk
   the largest share of each project counts.                               *)
CapacityFits ==
  Measured =>
    /\ MapThenSumSet(LAMBDA d : CapMemory[d], Share) <= MemoryLimit
    /\ MapThenSumSet(LAMBDA p : ProjectStorage(Share, p), CapProject) <= DiskLimit

(* The projects with a deployment that has passed the limit. *)
Admitted ==
  {CapProjectOf[d] : d \in {e \in CapDeployment : CountsAsActive(e) /\ Phase(e) # "created"}}

(* An owner never has more active projects than the limit, also when several
   projects are deployed at once, on several VPSs: the check reads rows that
   the calls it competes with have written before their own check.  (An
   approval writes PENDING after its check, and starting or rolling back a
   project checks nothing.)                                                *)
ProjectLimitKept ==
  capFaults \cap {"race", "start", "rollback"} = {} => Cardinality(Admitted) <= ProjectLimit
==============================================================================
