--------------------------- MODULE DeploymentLocks ---------------------------
(***************************************************************************)
(* The renewable Redis locks that serialise deployment operations          *)
(* (services/cache.service.ts) and the worker's use of them                *)
(* (withDeploymentLocks in workers/deployment.worker.ts).                  *)
(*                                                                         *)
(* A lock is a Redis string with an expiry, written with SET NX PX under a *)
(* fresh token.  The worker takes `project-deploy:<project>', then         *)
(* `vps-build:<vps>', renews both from a timer while the operation runs,   *)
(* looks at the `lockLost' flag once the operation is over, and deletes    *)
(* both keys.  Time is discrete: one Tick is a third of the lease, the     *)
(* heartbeat interval the worker computes.                                 *)
(***************************************************************************)
EXTENDS Integers, FiniteSets

CONSTANTS
  Slot,            \* job slots of all worker processes (BullMQ concurrency)
  Project,
  Vps,
  NoOne,           \* the token of a free key
  LeaseTicks,      \* lockTtlMs
  HeartbeatTicks,  \* the interval of the heartbeat timer
  Faults           \* which faults this instance admits, a subset of FaultKind

(* late:  the heartbeat timer fires late (event loop, pause of the process)
   renew: an EXTEND fails with a Redis error
   reply: the reply of a SET, or a DEL, is lost
   crash: a worker process dies                                            *)
FaultKind == {"late", "renew", "reply", "crash"}

(* The two key families have different prefixes, so a project's key never
   is a VPS's.                                                             *)
Key == Project \cup Vps

ASSUME LeaseAssumption ==
  /\ LeaseTicks \in Nat
  /\ HeartbeatTicks \in Nat
  /\ 1 <= HeartbeatTicks /\ HeartbeatTicks < LeaseTicks
ASSUME KeyAssumption == Project \cap Vps = {}
ASSUME TokenAssumption == NoOne \notin Slot \cup Key
ASSUME FaultAssumption == Faults \subseteq FaultKind

VARIABLES
  lease,   \* the Redis keys: token and remaining ticks
  slot,    \* what each job slot is doing
  age      \* ticks since the slot's leases were last written, up to a beat

vars == <<lease, slot, age>>

Free == [token |-> NoOne, ttl |-> 0]
Held(s) == [token |-> s, ttl |-> LeaseTicks]

Lease == [token : Slot, ttl : 1..LeaseTicks] \cup {Free}

(* idle:      no job, or the job found its slot busy and went back to wait
   project:   holds the project lock, about to ask for the VPS lock
   unwind:    the VPS is busy, the project lock must be given back
   running:   inside operation()
   finalized, refused: operation() is over; the second one threw "lease
              was lost; refusing to finalize"; both locks must be released
   down:      the process of the slot has died                             *)
Phase == {"idle", "project", "unwind", "running", "finalized", "refused", "down"}

SlotState ==
  [pc : Phase, project : Project \cup {NoOne}, vps : Vps \cup {NoOne}, lost : BOOLEAN]

Idle == [pc |-> "idle", project |-> NoOne, vps |-> NoOne, lost |-> FALSE]
Down == [Idle EXCEPT !.pc = "down"]

TypeOK ==
  /\ lease \in [Key -> Lease]
  /\ slot \in [Slot -> SlotState]
  /\ age \in [Slot -> 0..HeartbeatTicks]

Init ==
  /\ lease = [k \in Key |-> Free]
  /\ slot = [s \in Slot |-> Idle]
  /\ age = [s \in Slot |-> 0]

------------------------------------------------------------------------------
(* Lock primitives on the key space.                                       *)

(* Mutant: SET without NX for the keys of VPSs. *)
MutIsFree(k) == k \in Vps \/ lease[k].token = NoOne

IsFree(k) == lease[k].token = NoOne

Owns(s, k) == lease[k].token = s

Keys(s) == {slot[s].project, slot[s].vps}

(* Mutant: DEL without the comparison of the token. *)
MutDelete(s, ks) == [k \in Key |-> IF k \in ks THEN Free ELSE lease[k]]

(* EXTEND and DEL are scripts that compare the stored token first. *)
Extend(s, ks) == [k \in Key |-> IF k \in ks /\ Owns(s, k) THEN Held(s) ELSE lease[k]]

Delete(s, ks) == [k \in Key |-> IF k \in ks /\ Owns(s, k) THEN Free ELSE lease[k]]

------------------------------------------------------------------------------
(* withDeploymentLocks: the project lock first.  A busy key leaves the slot
   idle, the job waits five seconds in the queue and asks again.           *)
TakeProject(s, p, v) ==
  /\ slot[s].pc = "idle"
  /\ IsFree(p)
  /\ lease' = [lease EXCEPT ![p] = Held(s)]
  /\ slot' = [slot EXCEPT ![s] = [pc |-> "project", project |-> p, vps |-> v, lost |-> FALSE]]
  /\ age' = [age EXCEPT ![s] = 0]

(* The SET is executed, its reply is lost: the caller gets null and treats
   the lock as busy while the key stays until it expires.                  *)
TakeProjectReplyLost(s, p) ==
  /\ "reply" \in Faults
  /\ slot[s].pc = "idle"
  /\ IsFree(p)
  /\ lease' = [lease EXCEPT ![p] = Held(s)]
  /\ UNCHANGED <<slot, age>>

(* Both locks held: the heartbeat is started and operation() runs. *)
TakeVps(s) ==
  /\ slot[s].pc = "project"
  /\ IsFree(slot[s].vps)
  /\ lease' = [lease EXCEPT ![slot[s].vps] = Held(s)]
  /\ slot' = [slot EXCEPT ![s].pc = "running"]
  /\ UNCHANGED age

(* Mutant: a null from the second SET is not looked at. *)
MutVpsBusy(s) ==
  /\ slot[s].pc = "project"
  /\ ~IsFree(slot[s].vps)
  /\ slot' = [slot EXCEPT ![s].pc = "running"]
  /\ UNCHANGED <<lease, age>>

VpsBusy(s) ==
  /\ slot[s].pc = "project"
  /\ \/ /\ ~IsFree(slot[s].vps)
        /\ UNCHANGED lease
     \/ /\ "reply" \in Faults
        /\ IsFree(slot[s].vps)
        /\ lease' = [lease EXCEPT ![slot[s].vps] = Held(s)]
  /\ slot' = [slot EXCEPT ![s].pc = "unwind"]
  /\ UNCHANGED age

(* Mutant: the early return forgets the project lock. *)
MutUnwind(s) ==
  /\ slot[s].pc = "unwind"
  /\ slot' = [slot EXCEPT ![s] = Idle]
  /\ UNCHANGED <<lease, age>>

(* The VPS lock was not granted: give the project lock back. *)
Unwind(s) ==
  /\ slot[s].pc = "unwind"
  /\ \/ lease' = Delete(s, {slot[s].project})
     \/ "reply" \in Faults /\ UNCHANGED lease
  /\ slot' = [slot EXCEPT ![s] = Idle]
  /\ UNCHANGED age

(* One beat of the timer extends both keys; if one of them is no longer
   ours, lockLost is set and later beats return at once.                   *)
Heartbeat(s) ==
  /\ slot[s].pc = "running"
  /\ ~slot[s].lost
  /\ lease' = Extend(s, Keys(s))
  /\ slot' = [slot EXCEPT ![s].lost = \E k \in Keys(s) : ~Owns(s, k)]
  /\ age' = [age EXCEPT ![s] = 0]

(* A Redis error during a beat: some of the keys may have been extended. *)
HeartbeatError(s) ==
  /\ "renew" \in Faults
  /\ slot[s].pc = "running"
  /\ ~slot[s].lost
  /\ \E ks \in SUBSET Keys(s) : lease' = Extend(s, ks)
  /\ slot' = [slot EXCEPT ![s].lost = TRUE]
  /\ UNCHANGED age

(* operation() returned or threw; the flag is tested only here. *)
EndOperation(s) ==
  /\ slot[s].pc = "running"
  /\ slot' = [slot EXCEPT ![s].pc = IF slot[s].lost THEN "refused" ELSE "finalized"]
  /\ UNCHANGED <<lease, age>>

(* The finally block: both deletes are sent at once and settle on their own,
   a delete that fails is ignored.                                         *)
Release(s) ==
  /\ slot[s].pc \in {"finalized", "refused"}
  /\ \E ks \in SUBSET Keys(s) :
       /\ "reply" \notin Faults => ks = Keys(s)
       /\ lease' = Delete(s, ks)
  /\ slot' = [slot EXCEPT ![s] = Idle]
  /\ UNCHANGED age

(* The process dies with its leases in Redis, and is started again. *)
Crash(s) ==
  /\ "crash" \in Faults
  /\ slot[s].pc \notin {"idle", "down"}
  /\ slot' = [slot EXCEPT ![s] = Down]
  /\ UNCHANGED <<lease, age>>

Restart(s) ==
  /\ slot[s].pc = "down"
  /\ slot' = [slot EXCEPT ![s] = Idle]
  /\ UNCHANGED <<lease, age>>

(* Time.  Unless beats may be late, a slot that waits for its second lock or
   runs an operation beats before its leases are older than HeartbeatTicks. *)
Renewing(s) == slot[s].pc = "project" \/ (slot[s].pc = "running" /\ ~slot[s].lost)

MayPass == "late" \in Faults \/ \A s \in Slot : Renewing(s) => age[s] < HeartbeatTicks

(* Mutant: SET without PX. *)
MutTick ==
  /\ MayPass
  /\ \E k \in Key : ~IsFree(k)
  /\ UNCHANGED vars

Tick ==
  /\ MayPass
  /\ \E k \in Key : ~IsFree(k)
  /\ lease' = [k \in Key |->
                 IF lease[k].ttl > 1 THEN [lease[k] EXCEPT !.ttl = @ - 1] ELSE Free]
  /\ age' = [s \in Slot |-> IF ~Renewing(s) THEN 0
                            ELSE IF age[s] < HeartbeatTicks THEN age[s] + 1 ELSE age[s]]
  /\ UNCHANGED slot

Worker(s) ==
  \/ \E p \in Project : TakeProjectReplyLost(s, p) \/ \E v \in Vps : TakeProject(s, p, v)
  \/ TakeVps(s) \/ VpsBusy(s) \/ Unwind(s)
  \/ Heartbeat(s) \/ HeartbeatError(s)
  \/ EndOperation(s) \/ Release(s) \/ Crash(s) \/ Restart(s)

Next == Tick \/ \E s \in Slot : Worker(s)

(* A remote command ends or times out after fifteen minutes, so operation()
   ends; the timer and Redis expiry run on their own.                      *)
Fairness ==
  /\ WF_vars(Tick)
  /\ \A s \in Slot :
       WF_vars(TakeVps(s) \/ VpsBusy(s) \/ Unwind(s) \/ EndOperation(s) \/ Release(s))
  /\ \A s \in Slot : WF_vars(Heartbeat(s))

Spec == Init /\ [][Next]_vars

FairSpec == Spec /\ Fairness

------------------------------------------------------------------------------
(* Properties.                                                             *)

(* Every beat reaches Redis before the lease runs out. *)
Timely == Faults \cap {"late", "renew"} = {}

Running == {s \in Slot : slot[s].pc = "running"}

(* The point of the locks (docs/SECURITY.md:53): no two operations run on one
   project, and no two on one VPS.  It takes the lease arithmetic of both
   slots, the order of the two SETs and every way a slot leaves its
   operation.                                                              *)
MutualExclusion ==
  \A s, t \in Running :
    s # t => slot[s].project # slot[t].project /\ slot[s].vps # slot[t].vps

(* Why it holds: the leases of a slot that is past its first SET are in
   Redis, and have lost no more of their time than passed since the slot's
   last beat.                                                              *)
Protected(s, k) == Owns(s, k) /\ lease[k].ttl + age[s] >= LeaseTicks

LeaseInv ==
  \A s \in Slot :
    /\ slot[s].pc \notin {"idle", "down"} => slot[s].project \in Project /\ slot[s].vps \in Vps
    /\ Timely /\ slot[s].pc \in {"project", "running"} =>
         ~slot[s].lost /\ Protected(s, slot[s].project)
    /\ Timely /\ slot[s].pc = "running" => Protected(s, slot[s].vps)

(* The same as a behaviour: seen without the leases, as what each slot works
   on, the worker is a SlotMutex.                                          *)
Work(s) == IF slot[s].pc = "running" THEN <<slot[s].project, slot[s].vps>> ELSE <<>>

Mutex == INSTANCE SlotMutex WITH operation <- [s \in Slot |-> Work(s)], Nothing <- <<>>

MutexSpec == Mutex!Spec

(* A live lease ends in two ways only: it expires, or the slot whose token it
   holds gives it back.  A slot that was paused past its lease must not
   delete, extend or take over the lease of its successor (the token
   comparison in the scripts of acquireRenewableLock).                     *)
LeaseEndsProperly ==
  [][\A k \in Key :
       lease[k].token # NoOne /\ lease'[k].token # lease[k].token =>
         /\ lease'[k] = Free
         /\ \/ lease[k].ttl = 1
            \/ slot[lease[k].token].pc \in {"unwind", "finalized", "refused"}]_vars

(* The keys a slot was granted: an unwinding one never got its second lock. *)
Granted(s) == IF slot[s].pc = "unwind" THEN {slot[s].project} ELSE Keys(s)

(* Crashes and lost replies apart: whichever way withDeploymentLocks is left,
   and however late, it leaves none of its own leases behind.  The early
   return for a busy VPS is the path that is easily forgotten.              *)
NoLeaseLeft ==
  [][\A s \in Slot :
       slot[s].pc \notin {"idle", "down"} /\ slot'[s].pc = "idle" =>
         \A k \in Granted(s) : lease'[k].token # s]_vars

(* Whatever happens to the holder, every key becomes free again: a crashed
   or leaked lease is not renewed and runs out.                            *)
EveryLeaseEnds == \A k \in Key : []<>IsFree(k)
==============================================================================
