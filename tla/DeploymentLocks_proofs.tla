----------------------- MODULE DeploymentLocks_proofs -----------------------
(***************************************************************************)
(* Proofs about DeploymentLocks for any number of slots, projects and      *)
(* VPSs, any lease and any beat interval shorter than the lease.           *)
(***************************************************************************)
EXTENDS DeploymentLocks, TLAPS

(* What the primitives of acquireRenewableLock write is a lease. *)
LEMMA LeaseType ==
  /\ Free \in Lease
  /\ \A s \in Slot : Held(s) \in Lease
  BY LeaseAssumption DEF LeaseAssumption, Free, Held, Lease

(* The age of a slot that starts over, and of one that grows older. *)
LEMMA AgeType ==
  /\ 0 \in 0..HeartbeatTicks
  /\ \A a \in 0..HeartbeatTicks : a < HeartbeatTicks => a + 1 \in 0..HeartbeatTicks
  BY LeaseAssumption DEF LeaseAssumption

(* EXTEND and DEL keep the key space well typed. *)
LEMMA ScriptType ==
  ASSUME lease \in [Key -> Lease], NEW s \in Slot, NEW ks
  PROVE  Extend(s, ks) \in [Key -> Lease] /\ Delete(s, ks) \in [Key -> Lease]
  BY LeaseType DEF Extend, Delete

(* Every variable keeps its type, whatever faults are admitted: the leases of
   acquireRenewableLock and the slots of withDeploymentLocks.              *)
THEOREM TypeCorrect == Spec => []TypeOK
<1>1. Init => TypeOK
  BY LeaseType, AgeType DEF Init, TypeOK, SlotState, Phase, Idle
<1>2. TypeOK /\ [Next]_vars => TypeOK'
  <2> SUFFICES ASSUME TypeOK, [Next]_vars PROVE TypeOK'
    OBVIOUS
  <2> USE LeaseType, AgeType, ScriptType DEF TypeOK
  <2>1. ASSUME NEW s \in Slot, NEW p \in Project, TakeProjectReplyLost(s, p) PROVE TypeOK'
    BY <2>1 DEF TakeProjectReplyLost
  <2>2. ASSUME NEW s \in Slot, NEW p \in Project, NEW v \in Vps, TakeProject(s, p, v) PROVE TypeOK'
    BY <2>2 DEF TakeProject, SlotState, Phase
  <2>3. ASSUME NEW s \in Slot, TakeVps(s) PROVE TypeOK'
    <3>1. lease' \in [Key -> Lease]
      BY <2>3 DEF TakeVps
    <3>2. slot' \in [Slot -> SlotState]
      BY <2>3 DEF TakeVps, SlotState, Phase
    <3>3. age' \in [Slot -> 0..HeartbeatTicks]
      BY <2>3 DEF TakeVps
    <3>4. QED
      BY <3>1, <3>2, <3>3
  <2>4. ASSUME NEW s \in Slot, VpsBusy(s) PROVE TypeOK'
    <3>1. lease' \in [Key -> Lease]
      BY <2>4 DEF VpsBusy
    <3>2. slot' \in [Slot -> SlotState]
      BY <2>4 DEF VpsBusy, SlotState, Phase
    <3>3. age' \in [Slot -> 0..HeartbeatTicks]
      BY <2>4 DEF VpsBusy
    <3>4. QED
      BY <3>1, <3>2, <3>3
  <2>5. ASSUME NEW s \in Slot, Unwind(s) PROVE TypeOK'
    BY <2>5 DEF Unwind, Idle, SlotState, Phase
  <2>6. ASSUME NEW s \in Slot, Heartbeat(s) PROVE TypeOK'
    <3>1. lease' \in [Key -> Lease]
      BY <2>6 DEF Heartbeat
    <3>2. slot' \in [Slot -> SlotState]
      <4> DEFINE gone == \E k \in Keys(s) : ~Owns(s, k)
      <4>1. gone \in BOOLEAN
        OBVIOUS
      <4>2. slot' = [slot EXCEPT ![s].lost = gone]
        BY <2>6 DEF Heartbeat
      <4> HIDE DEF gone
      <4>3. QED
        BY <4>1, <4>2 DEF SlotState
    <3>3. age' \in [Slot -> 0..HeartbeatTicks]
      BY <2>6 DEF Heartbeat
    <3>4. QED
      BY <3>1, <3>2, <3>3
  <2>7. ASSUME NEW s \in Slot, HeartbeatError(s) PROVE TypeOK'
    <3>1. lease' \in [Key -> Lease]
      BY <2>7 DEF HeartbeatError
    <3>2. slot' \in [Slot -> SlotState]
      BY <2>7 DEF HeartbeatError, SlotState
    <3>3. age' \in [Slot -> 0..HeartbeatTicks]
      BY <2>7 DEF HeartbeatError
    <3>4. QED
      BY <3>1, <3>2, <3>3
  <2>8. ASSUME NEW s \in Slot, EndOperation(s) PROVE TypeOK'
    BY <2>8 DEF EndOperation, SlotState, Phase
  <2>9. ASSUME NEW s \in Slot, Release(s) PROVE TypeOK'
    BY <2>9 DEF Release, Idle, SlotState, Phase
  <2>10. ASSUME NEW s \in Slot, Crash(s) PROVE TypeOK'
    BY <2>10 DEF Crash, Down, Idle, SlotState, Phase
  <2>14. ASSUME NEW s \in Slot, Restart(s) PROVE TypeOK'
    BY <2>14 DEF Restart, Idle, SlotState, Phase
  <2>11. CASE Tick
    <3>1. ASSUME NEW l \in Lease, l.ttl > 1 PROVE [l EXCEPT !.ttl = @ - 1] \in Lease
      BY <3>1, LeaseAssumption DEF LeaseAssumption, Lease, Free
    <3>2. QED
      BY <2>11, <3>1 DEF Tick
  <2>12. CASE UNCHANGED vars
    BY <2>12 DEF vars
  <2>13. QED
    BY <2>1, <2>2, <2>3, <2>4, <2>5, <2>6, <2>7, <2>8, <2>9, <2>10, <2>11, <2>12, <2>14 DEF Next, Worker
<1>3. QED
  BY <1>1, <1>2, PTL DEF Spec

------------------------------------------------------------------------------
(* A slot touches its own leases and free keys only: SET has NX, and the
   scripts of EXTEND and DEL compare the token.                            *)
LEMMA OthersUntouched ==
  ASSUME TypeOK, NEW s \in Slot, Worker(s), NEW t \in Slot, t # s
  PROVE  /\ slot'[t] = slot[t]
         /\ age'[t] = age[t]
         /\ \A k \in Key : Owns(t, k) => lease'[k] = lease[k]
<1> DEFINE Untouched == /\ slot'[t] = slot[t]
                       /\ age'[t] = age[t]
                       /\ \A k \in Key : Owns(t, k) => lease'[k] = lease[k]
<1> USE TokenAssumption DEF TokenAssumption, TypeOK, Owns, IsFree
<1>1. ASSUME NEW p \in Project, TakeProjectReplyLost(s, p) PROVE Untouched
  BY <1>1 DEF TakeProjectReplyLost
<1>2. ASSUME NEW p \in Project, NEW v \in Vps, TakeProject(s, p, v) PROVE Untouched
  BY <1>2 DEF TakeProject
<1>3. CASE TakeVps(s)
  BY <1>3 DEF TakeVps
<1>4. CASE VpsBusy(s)
  BY <1>4 DEF VpsBusy
<1>5. CASE Unwind(s)
  BY <1>5 DEF Unwind, Delete
<1>6. CASE Heartbeat(s)
  BY <1>6 DEF Heartbeat, Extend
<1>7. CASE HeartbeatError(s)
  BY <1>7 DEF HeartbeatError, Extend
<1>8. CASE EndOperation(s)
  BY <1>8 DEF EndOperation
<1>9. CASE Release(s)
  BY <1>9 DEF Release, Delete
<1>10. CASE Crash(s)
  BY <1>10 DEF Crash
<1>11. CASE Restart(s)
  BY <1>11 DEF Restart
<1>12. QED
  BY <1>1, <1>2, <1>3, <1>4, <1>5, <1>6, <1>7, <1>8, <1>9, <1>10, <1>11 DEF Worker

(* No lease is taken over: it expires or its holder gives it back, also under
   late beats, Redis errors and crashes (the guarantee of the token
   comparison in acquireRenewableLock).                                    *)
THEOREM LeasesEndProperly == Spec => LeaseEndsProperly
<1> DEFINE Proper ==
      \A k \in Key :
        lease[k].token # NoOne /\ lease'[k].token # lease[k].token =>
          /\ lease'[k] = Free
          /\ \/ lease[k].ttl = 1
             \/ slot[lease[k].token].pc \in {"unwind", "finalized", "refused"}
<1>1. TypeOK /\ [Next]_vars => [Proper]_vars
  <2> SUFFICES ASSUME TypeOK, Next, NEW k \in Key,
                      lease[k].token # NoOne, lease'[k].token # lease[k].token
               PROVE  /\ lease'[k] = Free
                      /\ \/ lease[k].ttl = 1
                         \/ slot[lease[k].token].pc \in {"unwind", "finalized", "refused"}
    BY DEF vars
  <2>1. CASE Tick
    BY <2>1, LeaseAssumption DEF Tick, LeaseAssumption, TypeOK, Lease, Free
  <2>2. ASSUME NEW s \in Slot, Worker(s)
        PROVE  /\ lease'[k] = Free
               /\ slot[lease[k].token].pc \in {"unwind", "finalized", "refused"}
    <3>1. lease[k].token \in Slot
      BY DEF TypeOK, Lease, Free
    <3>2. lease[k].token = s
      <4> DEFINE t == lease[k].token
      <4>1. SUFFICES ASSUME t # s PROVE FALSE
        OBVIOUS
      <4>2. \A kk \in Key : Owns(t, kk) => lease'[kk] = lease[kk]
        BY <2>2, <3>1, <4>1, OthersUntouched
      <4>3. QED
        BY <4>2 DEF Owns
    <3> USE <3>2, TokenAssumption DEF TokenAssumption, TypeOK, Owns, IsFree, Held
    <3>3. ~Heartbeat(s) /\ ~HeartbeatError(s)
      BY DEF Heartbeat, HeartbeatError, Extend
    <3>4. ~TakeVps(s) /\ ~VpsBusy(s) /\ ~EndOperation(s) /\ ~Crash(s) /\ ~Restart(s)
      BY DEF TakeVps, VpsBusy, EndOperation, Crash, Restart
    <3>5. \A p \in Project : ~TakeProjectReplyLost(s, p)
      BY DEF TakeProjectReplyLost
    <3>6. \A p \in Project, v \in Vps : ~TakeProject(s, p, v)
      BY DEF TakeProject
    <3>7. Unwind(s) \/ Release(s)
      BY <2>2, <3>3, <3>4, <3>5, <3>6 DEF Worker
    <3>8. QED
      BY <3>7 DEF Unwind, Release, Delete
  <2>3. QED
    BY <2>1, <2>2 DEF Next
<1>2. QED
  BY <1>1, TypeCorrect, PTL DEF Spec, LeaseEndsProperly

------------------------------------------------------------------------------
(* LeaseInv slot by slot. *)
SlotInv(s) ==
  /\ slot[s].pc \notin {"idle", "down"} => slot[s].project \in Project /\ slot[s].vps \in Vps
  /\ Timely /\ slot[s].pc \in {"project", "running"} =>
       ~slot[s].lost /\ Protected(s, slot[s].project)
  /\ Timely /\ slot[s].pc = "running" => Protected(s, slot[s].vps)

(* A step of another slot does not weaken what a slot relies on. *)
LEMMA OthersKeepSlotInv ==
  ASSUME TypeOK, NEW s \in Slot, Worker(s), NEW t \in Slot, t # s, SlotInv(t)
  PROVE  SlotInv(t)'
<1>1. slot'[t] = slot[t]
  BY OthersUntouched
<1>2. \A k \in Key : Owns(t, k) => lease'[k] = lease[k]
  BY OthersUntouched
<1>5. age'[t] = age[t]
  BY OthersUntouched
<1>3. \A k \in Key : Protected(t, k) => Protected(t, k)'
  BY <1>2, <1>5 DEF Protected, Owns
<1>4. QED
  BY <1>1, <1>3 DEF SlotInv, Key, Timely

(* A step of a slot re-establishes what the slot itself relies on: the SETs
   and the beats write a full lease.                                       *)
LEMMA OwnStepSlotInv ==
  ASSUME TypeOK, NEW s \in Slot, Worker(s), SlotInv(s)
  PROVE  SlotInv(s)'
<1> USE DEF TypeOK
<1>a. LeaseTicks + age[s] >= LeaseTicks /\ LeaseTicks + 0 >= LeaseTicks /\ age[s] \in Nat
  BY LeaseAssumption DEF LeaseAssumption
<1>1. ASSUME NEW p \in Project, TakeProjectReplyLost(s, p) PROVE SlotInv(s)'
  BY <1>1 DEF TakeProjectReplyLost, SlotInv
<1>2. ASSUME NEW p \in Project, NEW v \in Vps, TakeProject(s, p, v) PROVE SlotInv(s)'
  <2>1. slot'[s] = [pc |-> "project", project |-> p, vps |-> v, lost |-> FALSE]
    BY <1>2 DEF TakeProject
  <2>2. lease'[p] = Held(s) /\ age'[s] = 0
    BY <1>2 DEF TakeProject, Key
  <2>3. QED
    BY <2>1, <2>2, <1>a DEF SlotInv, Protected, Owns, Held
<1>3. CASE TakeVps(s)
  <2> USE <1>3 DEF TakeVps
  <2>1. /\ slot'[s].pc = "running" /\ slot'[s].project = slot[s].project
        /\ slot'[s].vps = slot[s].vps /\ slot'[s].lost = slot[s].lost
    BY DEF SlotState
  <2>2. slot[s].project \in Project /\ slot[s].vps \in Vps
    BY DEF SlotInv
  <2>3. slot[s].project # slot[s].vps
    BY <2>2, KeyAssumption DEF KeyAssumption
  <2>4. lease'[slot[s].vps] = Held(s) /\ lease'[slot[s].project] = lease[slot[s].project]
    BY <2>2, <2>3 DEF Key
  <2>5. QED
    BY <2>1, <2>2, <2>4, <1>a DEF SlotInv, Protected, Owns, Held, Timely
<1>4. CASE VpsBusy(s)
  BY <1>4 DEF VpsBusy, SlotInv, SlotState
<1>5. CASE Unwind(s)
  BY <1>5 DEF Unwind, SlotInv, Idle
<1>6. CASE Heartbeat(s)
  <2> USE <1>6 DEF Heartbeat
  <2>1. /\ slot'[s].pc = "running" /\ slot'[s].project = slot[s].project
        /\ slot'[s].vps = slot[s].vps
        /\ slot'[s].lost = (\E k \in Keys(s) : ~Owns(s, k))
    BY DEF SlotState
  <2>2. slot[s].project \in Project /\ slot[s].vps \in Vps
    BY DEF SlotInv
  <2>3. ASSUME Timely
        PROVE  \A k \in Keys(s) : Owns(s, k) /\ lease'[k] = Held(s)
    BY <2>2, <2>3 DEF SlotInv, Protected, Keys, Extend, Key
  <2>4. QED
    BY <2>1, <2>2, <2>3, <1>a DEF SlotInv, Protected, Owns, Held, Timely, Keys
<1>7. CASE HeartbeatError(s)
  <2>1. ~Timely
    BY <1>7 DEF HeartbeatError, Timely
  <2>2. slot'[s].project = slot[s].project /\ slot'[s].vps = slot[s].vps
    BY <1>7 DEF HeartbeatError, SlotState
  <2>3. QED
    BY <1>7, <2>1, <2>2 DEF HeartbeatError, SlotInv, Timely
<1>8. CASE EndOperation(s)
  BY <1>8 DEF EndOperation, SlotInv, SlotState
<1>9. CASE Release(s)
  BY <1>9 DEF Release, SlotInv, Idle
<1>10. CASE Crash(s)
  BY <1>10 DEF Crash, SlotInv, Down, Idle
<1>11. CASE Restart(s)
  BY <1>11 DEF Restart, SlotInv, Idle
<1>12. QED
  BY <1>1, <1>2, <1>3, <1>4, <1>5, <1>6, <1>7, <1>8, <1>9, <1>10, <1>11 DEF Worker

(* Time does not take a lease from a slot that renews in time. *)
LEMMA TickSlotInv ==
  ASSUME TypeOK, Tick, NEW s \in Slot, SlotInv(s)
  PROVE  SlotInv(s)'
<1>1. slot' = slot
  BY DEF Tick
<1>2. ASSUME Timely, slot[s].pc \in {"project", "running"}, NEW k \in Key,
             k \in Keys(s), Protected(s, k)
      PROVE  Protected(s, k)'
  <2>1. Renewing(s)
    BY <1>2 DEF Renewing, SlotInv
  <2>2. age[s] \in 0..HeartbeatTicks /\ age[s] < HeartbeatTicks /\ age'[s] = age[s] + 1
    BY <1>2, <2>1 DEF Tick, MayPass, Timely, TypeOK
  <2>3. lease[k].ttl \in Nat /\ lease[k] \in Lease
    BY LeaseAssumption DEF LeaseAssumption, TypeOK, Lease, Free
  <2>4. lease[k].ttl > 1
    BY <1>2, <2>2, <2>3, LeaseAssumption DEF LeaseAssumption, Protected
  <2>5. lease'[k] = [lease[k] EXCEPT !.ttl = @ - 1]
    BY <2>4 DEF Tick
  <2>6. lease'[k].token = lease[k].token /\ lease'[k].ttl = lease[k].ttl - 1
    BY <2>3, <2>5 DEF Lease, Free
  <2>7. QED
    BY <1>2, <2>2, <2>3, <2>6, LeaseAssumption DEF LeaseAssumption, Protected, Owns
<1>3. QED
  BY <1>1, <1>2 DEF SlotInv, Keys, Key, Timely

(* The leases of a slot past its first SET are in Redis with time left, as
   long as no beat is late or refused: what the heartbeat of
   withDeploymentLocks is there for.                                       *)
THEOREM LeasesAreHeld == Spec => []LeaseInv
<1> USE DEF LeaseInv, SlotInv
<1>1. Init => LeaseInv
  BY DEF Init, Idle
<1>2. TypeOK /\ LeaseInv /\ [Next]_vars => LeaseInv'
  <2> SUFFICES ASSUME TypeOK, \A t \in Slot : SlotInv(t), [Next]_vars, NEW s \in Slot
               PROVE  SlotInv(s)'
    BY DEF LeaseInv
  <2> HIDE DEF SlotInv
  <2>1. CASE Tick
    BY <2>1, TickSlotInv
  <2>2. ASSUME NEW t \in Slot, Worker(t) PROVE SlotInv(s)'
    BY <2>2, OwnStepSlotInv, OthersKeepSlotInv
  <2>3. CASE UNCHANGED vars
    BY <2>3 DEF vars, SlotInv, Timely, Protected, Owns
  <2>4. QED
    BY <2>1, <2>2, <2>3 DEF Next
<1>3. QED
  BY <1>1, <1>2, TypeCorrect, PTL DEF Spec

(* Two operations on one project, or on one VPS, would both hold its lease. *)
LEMMA LeasesExclude == Timely /\ LeaseInv => MutualExclusion
  BY DEF LeaseInv, MutualExclusion, Running, Protected, Owns

(* Mutual exclusion of deployment operations (docs/SECURITY.md:53), for every
   number of slots, projects and VPSs, provided that beats are in time.    *)
THEOREM OperationsExclude == Timely => (Spec => []MutualExclusion)
<1> SUFFICES ASSUME Timely PROVE Spec => []MutualExclusion
  OBVIOUS
<1>1. LeaseInv => MutualExclusion
  BY LeasesExclude
<1>2. QED
  BY <1>1, LeasesAreHeld, PTL

------------------------------------------------------------------------------
(* The worker and its leases implement SlotMutex: taking the second lock is
   Begin, leaving operation() is End, every other step is invisible.       *)
THEOREM LocksImplementMutex == Timely => (Spec => MutexSpec)
<1> SUFFICES ASSUME Timely PROVE Spec => MutexSpec
  OBVIOUS
<1> DEFINE operation == [s \in Slot |-> Work(s)]
<1>a. \A p, v : <<p, v>> # <<>>
  OBVIOUS
<1>1. Init => Mutex!Init
  BY DEF Init, Idle, Work, Mutex!Init
<1>2. TypeOK /\ LeaseInv /\ LeaseInv' /\ [Next]_vars => [Mutex!Next]_operation
  <2> SUFFICES ASSUME TypeOK, LeaseInv, LeaseInv', Next
               PROVE  Mutex!Next \/ operation' = operation
    BY DEF vars, Work
  <2>1. CASE Tick
    BY <2>1 DEF Tick, Work
  <2>2. ASSUME NEW s \in Slot, Worker(s)
        PROVE  Mutex!Next \/ operation' = operation
    <3>1. \A t \in Slot : t # s => slot'[t] = slot[t]
      BY <2>2, OthersUntouched
    <3>2. operation' = [operation EXCEPT ![s] = Work(s)']
      BY <3>1 DEF Work
    <3>3. CASE TakeVps(s)
      <4> PICK p \in Project, v \in Vps : p = slot[s].project /\ v = slot[s].vps
        BY <3>3 DEF TakeVps, LeaseInv
      <4>1. Work(s) = <<>> /\ Work(s)' = <<p, v>>
        BY <3>3 DEF TakeVps, Work, TypeOK, SlotState
      <4>3. Owns(s, p) /\ IsFree(v)
        BY <3>3 DEF TakeVps, LeaseInv, Protected
      <4>4. \A t \in Mutex!Busy : operation[t][1] # p /\ operation[t][2] # v
        <5> SUFFICES ASSUME NEW t \in Slot, Work(t) # <<>>
                     PROVE  Work(t)[1] # p /\ Work(t)[2] # v
          BY DEF Mutex!Busy, Work
        <5>1. slot[t].pc = "running" /\ Work(t) = <<slot[t].project, slot[t].vps>>
          BY DEF Work
        <5>2. Owns(t, slot[t].project) /\ Owns(t, slot[t].vps)
          BY <5>1 DEF LeaseInv, Protected
        <5>3. t # s
          BY <3>3, <5>1 DEF TakeVps
        <5>4. QED
          BY <4>3, <5>1, <5>2, <5>3, TokenAssumption DEF TokenAssumption, Owns, IsFree
      <4>5. Mutex!Begin(s, p, v)
        BY <3>2, <4>1, <4>4 DEF Mutex!Begin, Work
      <4>6. QED
        BY <4>5 DEF Mutex!Next
    <3>4. CASE slot[s].pc = "running" /\ slot'[s].pc # "running"
      <4>1. Work(s) # <<>> /\ Work(s)' = <<>>
        BY <1>a, <3>4 DEF Work
      <4>2. Mutex!End(s)
        BY <3>2, <4>1 DEF Mutex!End, Work
      <4>3. QED
        BY <4>2 DEF Mutex!Next
    <3>5. CASE ~TakeVps(s) /\ ~(slot[s].pc = "running" /\ slot'[s].pc # "running")
      <4>1. Work(s)' = Work(s)
        BY <2>2, <3>5 DEF Worker, Work, TypeOK, SlotState, TakeProject, TakeProjectReplyLost,
           VpsBusy, Unwind, Heartbeat, HeartbeatError, EndOperation, Release, Crash, Restart, Down, Idle
      <4>2. QED
        BY <3>2, <4>1 DEF Work
    <3>6. QED
      BY <3>3, <3>4, <3>5
  <2>3. QED
    BY <2>1, <2>2 DEF Next
<1>3. QED
  BY <1>1, <1>2, TypeCorrect, LeasesAreHeld, PTL DEF Spec, MutexSpec, Mutex!Spec
==============================================================================
