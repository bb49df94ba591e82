-------------------------- MODULE Retention_proofs --------------------------
(***************************************************************************)
(* Proofs about Retention, for any number of releases, kept releases and    *)
(* attempts: the purge spares the active release and those that went live   *)
(* last, and a pin ends.                                                   *)
(***************************************************************************)
EXTENDS Retention, FiniteSetTheorems, TLAPS

RunType == [pc : {"idle", "building", "started", "recorded", "rolling", "ending"}, rel : RetRelease \cup {NoRelease}]
PurgeType == [pc : {"idle", "round", "checked", "removed"}, rel : RetRelease \cup {NoRelease}]

Deploying == {"building", "started", "recorded"}
Working == Deploying \cup {"rolling"}
Rolling == {"rolling", "ending"}
Purging == retPurge.pc \in {"checked", "removed"}

RowTyped ==
  /\ retStatus \in [RetRelease -> RetStatus]
  /\ retOwner \in [RetRelease -> RetRelease \cup {NoRelease}]
  /\ retAge \in [RetRelease -> 0..2] /\ retTries \in [RetRelease -> 0..PurgeTries]
  /\ retRecorded \subseteq RetRelease /\ retPinned \subseteq RetRelease
  /\ retPurged \subseteq RetRelease

StateTyped ==
  /\ retEligible \subseteq RetRelease /\ retLive \subseteq RetRelease
  /\ retActive \in RetRelease \cup {NoRelease} /\ retCandidate \in RetRelease \cup {NoRelease}
  /\ retUp \subseteq RetRelease
  /\ retRun \in RunType
  /\ retAsk \in RetRelease \cup {NoRelease} /\ retJobs \in 0..MaxRequests /\ retDeaths \in 0..1
  /\ retPurge \in PurgeType
  /\ retLock \in {"none", "run", "purge"}
  /\ retFaults \in RetFaultSets

(* Releases are created one after the other, and nothing names one that is not. *)
CreatedInv ==
  /\ \E n \in 0..MaxReleases : Created = 1..n
  /\ retRecorded \subseteq Created /\ retPurged \subseteq Created /\ retEligible \subseteq Created
  /\ retPinned \subseteq retRecorded
  /\ retActive \in Created \cup {NoRelease} /\ retCandidate \in Created \cup {NoRelease}
  /\ retRun.pc # "idle" => retRun.rel \in Created
  /\ Purging => retPurge.rel \in Created
  /\ \A r \in Created : retOwner[r] \in RetRelease

(* What a round still has to visit can fail once more. *)
TriesInv ==
  /\ \A r \in retEligible : retTries[r] < PurgeTries
  /\ Purging => retTries[retPurge.rel] < PurgeTries /\ retPurge.rel \notin retEligible

(* A rollback that is worked on has its job, and a request has room for one. *)
RunLockInv ==
  /\ retRun.pc # "idle" => retLock = "run"
  /\ retRun.pc \in Rolling => retJobs > 0
  /\ retAsk # NoRelease => retJobs < MaxRequests

(* A pin belongs to the candidate, whose job is asked for or waits, to the release a
   worker rolls back to, or was left behind by a death, and then is no candidate. *)
PinInv ==
  retFaults \cap {"overlap", "refuse"} = {} =>
    \A p \in retPinned :
      \/ p = retCandidate /\ retRun.pc = "idle" /\ (retAsk # NoRelease \/ retJobs > 0)
      \/ retRun.pc \in Rolling /\ retRun.rel = p
      \/ retDeaths > 0 /\ retCandidate # p

(* The purge and a run exclude each other, and none touches the active release. *)
Separate == retFaults \cap {"stack", "lapse"} = {}

KeepInv ==
  Separate =>
    /\ Purging => retLock = "purge" /\ retPurge.rel # retActive
    /\ retPurge.pc = "removed" /\ retPurge.rel \in retRecorded => retPurge.rel \notin retUp
    /\ \A r \in retPurged \cap retRecorded : r \notin retUp
    /\ retActive # NoRelease =>
         retActive \notin retPurged /\ retActive \in retUp /\ retStatus[retActive] = "ACTIVE"
    /\ retCandidate # NoRelease =>
         /\ retCandidate # retActive
         /\ retCandidate \in retRecorded \/ (retRun.pc \in {"building", "started"} /\ retRun.rel = retCandidate)
    /\ retRun.pc \in Working => retRun.rel # retActive
    /\ retRun.pc \in Deploying => retRun.rel \notin retPurged
    /\ retRun.pc \in {"recorded", "rolling"} => retRun.rel \in retRecorded
    /\ retRun.pc = "building" /\ retActive # NoRelease => retOwner[retActive] # retOwner[retRun.rel]

RetInv == RowTyped /\ StateTyped /\ CreatedInv /\ TriesInv /\ RunLockInv /\ PinInv /\ KeepInv

------------------------------------------------------------------------------
(* A new release is the next number. *)
LEMMA NextRelease ==
  ASSUME StateTyped, CreatedInv, NEW d, RetBegin(d)
  PROVE  \E r \in RetRelease :
           /\ r = Cardinality(Created) + 1 /\ r \notin Created /\ Created \cup {r} = 1..r
           /\ d \in RetRelease
           /\ \A s \in Created : retOwner[s] = d => retStatus[s] = "FAILED"
           /\ retStatus' = [Replacing(r) EXCEPT ![r] = "BUILDING"]
           /\ retOwner' = [retOwner EXCEPT ![r] = d]
           /\ retCandidate' = r
           /\ retRun' = [pc |-> "building", rel |-> r]
  <1>1. PICK n \in 0..MaxReleases : Created = 1..n
    BY DEF CreatedInv
  <1>2. n \in Nat /\ Cardinality(Created) = n
    BY <1>1, RetBounds, FS_Interval
  <1>3. RetRuns[retFaults] \in 0..MaxReleases /\ n < RetRuns[retFaults]
    BY <1>2, RetRunsAssumption, RetFaultAssumption DEF RetBegin, StateTyped
  <1>4. n + 1 \in RetRelease /\ n + 1 \notin Created /\ Created \cup {n + 1} = 1..(n + 1)
    BY <1>1, <1>2, <1>3, RetBounds DEF RetRelease
  <1> DEFINE r == n + 1
  <1>5. r = Cardinality(Created) + 1
    BY <1>2
  <1>6. d \in RetRelease
    BY <1>4, <1>5 DEF RetBegin, CreatedInv
  <1>7. /\ \A s \in Created : retOwner[s] = d => retStatus[s] = "FAILED"
        /\ retStatus' = [Replacing(r) EXCEPT ![r] = "BUILDING"]
        /\ retOwner' = [retOwner EXCEPT ![r] = d]
        /\ retCandidate' = r
        /\ retRun' = [pc |-> "building", rel |-> r]
    BY <1>5 DEF RetBegin
  <1> QED
    BY <1>4, <1>5, <1>6, <1>7

(* The steps of a run. *)
LEMMA RunSteps ==
  ASSUME RetInv, NEW r \in RetRelease,
         \/ RetStart \/ RetRecord \/ RetFail \/ RetActivate
  PROVE  RetInv'
  <1>0. RowTyped /\ StateTyped /\ CreatedInv /\ TriesInv /\ RunLockInv /\ PinInv /\ KeepInv
    BY DEF RetInv
  <1>r. /\ retRun.pc \in {"idle", "building", "started", "recorded", "rolling", "ending"} /\ retRun.rel \in RetRelease \cup {NoRelease}
        /\ retPurge.pc \in {"idle", "round", "checked", "removed"} /\ retPurge.rel \in RetRelease \cup {NoRelease}
        /\ NoRelease \notin RetRelease
    BY <1>0 DEF StateTyped, RunType, PurgeType, NoRelease, RetRelease
  <1>m. /\ retRun.pc # "idle" => retRun.rel \in RetRelease /\ retOwner[retRun.rel] \in RetRelease
        /\ Purging => retPurge.rel \in RetRelease
    BY <1>0 DEF CreatedInv, Created
  <1>1. CASE RetStart
    <2>1. RowTyped'
      BY <1>0, <1>r, <1>1 DEF RetStart, Runtime, retRows, RowTyped, StateTyped, CreatedInv, TriesInv, Purging, RetStatus
    <2>2. StateTyped'
      <3>1. Runtime(retRun.rel) \in RetRelease
        BY <1>m, <1>1 DEF RetStart, Runtime
      <3>2. retUp' \subseteq RetRelease
        BY <1>0, <1>1, <3>1 DEF RetStart, StateTyped
      <3>3. retRun' \in RunType
        BY <1>0, <1>1 DEF RetStart, StateTyped, RunType
      <3> QED
        BY <1>0, <1>1, <3>2, <3>3 DEF RetStart, StateTyped, retRound
    <2>3. Created' = Created
      BY <1>0, <1>r, <1>1 DEF RetStart, Runtime, retRows, RowTyped, CreatedInv, Created
    <2>4. CreatedInv'
      BY <1>0, <1>r, <1>1, <2>3 DEF RetStart, Runtime, retRows, retWork, retRound, CreatedInv, RowTyped, StateTyped, Purging
    <2>5. TriesInv'
      BY <1>0, <1>r, <1>1 DEF RetStart, Runtime, retRows, retWork, retRound, TriesInv, RowTyped, StateTyped, CreatedInv, Purging
    <2>6. RunLockInv' /\ PinInv'
      BY <1>0, <1>r, <1>1 DEF RetStart, Runtime, retRows, retWork, retRound, RowTyped, StateTyped, RunType, RunLockInv, PinInv, Rolling, RollbackPending
    <2>7. KeepInv'
      BY <1>0, <1>r, <1>1 DEF RetStart, Runtime, retRows, retWork, retRound, RowTyped, StateTyped, RunType, PurgeType, CreatedInv, RunLockInv,
        KeepInv, Separate, Purging, Deploying, Working
    <2> QED
      BY <2>1, <2>2, <2>4, <2>5, <2>6, <2>7 DEF RetInv
  <1>2. CASE RetRecord
    <2>1. RowTyped'
      BY <1>0, <1>m, <1>2 DEF RetRecord, RowTyped, RetStatus
    <2>2. StateTyped'
      BY <1>0, <1>r, <1>2 DEF RetRecord, retWork, retRound, RowTyped, StateTyped, CreatedInv, RunType, PurgeType
    <2>3. Created' = Created
      BY <1>0, <1>r, <1>2 DEF RetRecord, retRows, RowTyped, CreatedInv, Created
    <2>4. CreatedInv'
      <3>1. retRun.rel \in Created /\ retRecorded' \subseteq Created /\ retRun'.rel = retRun.rel
        BY <1>0, <1>2 DEF RetRecord, CreatedInv, StateTyped, RunType
      <3> QED
        BY <1>0, <1>2, <2>3, <3>1 DEF RetRecord, retRound, CreatedInv, Purging
    <2>5. TriesInv'
      BY <1>0, <1>r, <1>2 DEF RetRecord, retRows, retWork, retRound, TriesInv, RowTyped, StateTyped, CreatedInv, Purging
    <2>6. RunLockInv' /\ PinInv'
      BY <1>0, <1>r, <1>2 DEF RetRecord, retRows, retWork, retRound, RowTyped, StateTyped, RunType, RunLockInv, PinInv, Rolling, RollbackPending
    <2>7. KeepInv'
      BY <1>0, <1>r, <1>2 DEF RetRecord, retRows, retWork, retRound, RowTyped, StateTyped, RunType, PurgeType, CreatedInv, RunLockInv,
        KeepInv, Separate, Purging, Deploying, Working
    <2> QED
      BY <2>1, <2>2, <2>4, <2>5, <2>6, <2>7 DEF RetInv
  <1>3. CASE RetFail
    <2>1. RowTyped'
      BY <1>0, <1>r, <1>3 DEF RetFail, IdleRun, Runtime, retRows, RowTyped, StateTyped, CreatedInv, TriesInv, Purging, RetStatus
    <2>2. StateTyped'
      BY <1>0, <1>r, <1>3 DEF RetFail, IdleRun, Runtime, retWork, retRound, RowTyped, StateTyped, CreatedInv, RunType, PurgeType
    <2>3. Created' = Created
      BY <1>0, <1>r, <1>3 DEF RetFail, IdleRun, Runtime, retRows, RowTyped, CreatedInv, Created
    <2>4. CreatedInv'
      BY <1>0, <1>r, <1>3, <2>3 DEF RetFail, IdleRun, Runtime, retRows, retWork, retRound, CreatedInv, RowTyped, StateTyped, Purging
    <2>5. TriesInv'
      BY <1>0, <1>r, <1>3 DEF RetFail, IdleRun, Runtime, retRows, retWork, retRound, TriesInv, RowTyped, StateTyped, CreatedInv, Purging
    <2>6. RunLockInv' /\ PinInv'
      BY <1>0, <1>r, <1>3 DEF RetFail, IdleRun, Runtime, retRows, retWork, retRound, RowTyped, StateTyped, RunType, RunLockInv, PinInv, Rolling, RollbackPending
    <2>7. KeepInv'
      BY <1>0, <1>r, <1>3 DEF RetFail, IdleRun, Runtime, retRows, retWork, retRound, RowTyped, StateTyped, RunType, PurgeType, CreatedInv, RunLockInv,
        KeepInv, Separate, Purging, Deploying, Working
    <2> QED
      BY <2>1, <2>2, <2>4, <2>5, <2>6, <2>7 DEF RetInv
  <1>4. CASE RetActivate
    <2>1. RowTyped'
      BY <1>0, <1>r, <1>4 DEF RetActivate, Switched, IdleRun, Runtime, retRows, RowTyped, StateTyped, CreatedInv, TriesInv, Purging, RetStatus
    <2>2. StateTyped'
      <3>1. retRun' \in RunType /\ retLock' = "none" /\ retCandidate' = NoRelease
        BY <1>4 DEF RetActivate, Switched, IdleRun, RunType
      <3>2. retActive' \in RetRelease /\ retLive' \subseteq RetRelease
        BY <1>0, <1>m, <1>4 DEF RetActivate, Switched, StateTyped
      <3> QED
        BY <1>0, <1>4, <3>1, <3>2 DEF RetActivate, StateTyped, retRound
    <2>3. Created' = Created
      BY <1>0, <1>r, <1>4 DEF RetActivate, Switched, IdleRun, Runtime, retRows, RowTyped, CreatedInv, Created
    <2>4. CreatedInv'
      BY <1>0, <1>r, <1>4, <2>3 DEF RetActivate, Switched, IdleRun, Runtime, retRows, retWork, retRound, CreatedInv, RowTyped, StateTyped, Purging
    <2>5. TriesInv'
      BY <1>0, <1>r, <1>4 DEF RetActivate, Switched, IdleRun, Runtime, retRows, retWork, retRound, TriesInv, RowTyped, StateTyped, CreatedInv, Purging
    <2>6. RunLockInv' /\ PinInv'
      BY <1>0, <1>r, <1>4 DEF RetActivate, Switched, IdleRun, Runtime, retRows, retWork, retRound, RowTyped, StateTyped, RunType, RunLockInv, PinInv, Rolling, RollbackPending
    <2>7. KeepInv'
      BY <1>0, <1>r, <1>4 DEF RetActivate, Switched, IdleRun, Runtime, retRows, retWork, retRound, RowTyped, StateTyped, RunType, PurgeType, CreatedInv, RunLockInv,
        KeepInv, Separate, Purging, Deploying, Working
    <2> QED
      BY <2>1, <2>2, <2>4, <2>5, <2>6, <2>7 DEF RetInv
  <1> QED
    BY <1>1, <1>2, <1>3, <1>4

(* A rollback and its request. *)
LEMMA RollSteps ==
  ASSUME RetInv, NEW r \in RetRelease,
         \/ RetRequest(r) \/ RetAdd \/ RetRoll \/ RetRolled \/ RetRollFails
         \/ RetUnpin \/ RetDie \/ RetExpire \/ RetGrow(r)
  PROVE  RetInv'
  <1>0. RowTyped /\ StateTyped /\ CreatedInv /\ TriesInv /\ RunLockInv /\ PinInv /\ KeepInv
    BY DEF RetInv
  <1>r. /\ retRun.pc \in {"idle", "building", "started", "recorded", "rolling", "ending"} /\ retRun.rel \in RetRelease \cup {NoRelease}
        /\ retPurge.pc \in {"idle", "round", "checked", "removed"} /\ retPurge.rel \in RetRelease \cup {NoRelease}
        /\ NoRelease \notin RetRelease
    BY <1>0 DEF StateTyped, RunType, PurgeType, NoRelease, RetRelease
  <1>m. /\ retRun.pc # "idle" => retRun.rel \in RetRelease /\ retOwner[retRun.rel] \in RetRelease
        /\ Purging => retPurge.rel \in RetRelease
    BY <1>0 DEF CreatedInv, Created
  <1>1. CASE RetRequest(r)
    <2>1. RowTyped'
      BY <1>0, <1>r, <1>1 DEF RetRequest, Replacing, IdleRun, retRows, RowTyped, StateTyped, CreatedInv, RetStatus
    <2>2. StateTyped'
      BY <1>0, <1>r, <1>1 DEF RetRequest, Replacing, IdleRun, retRows, retWork, retRound, StateTyped, CreatedInv, RunType, PurgeType
    <2>3. Created' = Created
      BY <1>0, <1>r, <1>1 DEF RetRequest, Replacing, IdleRun, retRows, RowTyped, CreatedInv, Created
    <2>4. CreatedInv'
      BY <1>0, <1>r, <1>1, <2>3 DEF RetRequest, Replacing, IdleRun, retRows, retWork, retRound, CreatedInv, RowTyped, StateTyped, RunType, Purging
    <2>5. TriesInv'
      BY <1>0, <1>r, <1>1 DEF RetRequest, Replacing, IdleRun, retRows, retWork, retRound, TriesInv, RowTyped, StateTyped, CreatedInv, Purging
    <2>6. RunLockInv' /\ PinInv'
      BY <1>0, <1>r, <1>1 DEF RetRequest, Replacing, IdleRun, retRows, retWork, retRound, RowTyped, StateTyped, RunType, CreatedInv, RunLockInv, PinInv, Rolling, RollbackPending
    <2>7. KeepInv'
      BY <1>0, <1>r, <1>1 DEF RetRequest, Replacing, IdleRun, retRows, retWork, retRound, RowTyped, StateTyped, RunType, PurgeType, CreatedInv, RunLockInv,
        KeepInv, Separate, Purging, Deploying, Working
    <2> QED
      BY <2>1, <2>2, <2>4, <2>5, <2>6, <2>7 DEF RetInv
  <1>2. CASE RetAdd
    <2>1. RowTyped'
      BY <1>0, <1>r, <1>2 DEF RetAdd, retRows, RowTyped, StateTyped, CreatedInv, RetStatus
    <2>2. StateTyped'
      <3>1. retJobs' \in 0..MaxRequests
        BY <1>0, <1>2, RetBounds DEF RetAdd, StateTyped, RunLockInv, Rolling
      <3>2. retRun' \in RunType /\ retLock' \in {"none", "run", "purge"}
        BY <1>0, <1>r, <1>2 DEF RetAdd, StateTyped, RunType, IdleRun, CreatedInv
      <3> QED
        BY <1>0, <1>2, <3>1, <3>2 DEF RetAdd, StateTyped, retRound, retWork
    <2>3. Created' = Created
      BY <1>0, <1>r, <1>2 DEF RetAdd, retRows, RowTyped, CreatedInv, Created
    <2>4. CreatedInv'
      BY <1>0, <1>r, <1>2, <2>3 DEF RetAdd, retRows, retWork, retRound, CreatedInv, RowTyped, StateTyped, RunType, Purging
    <2>5. TriesInv'
      BY <1>0, <1>r, <1>2 DEF RetAdd, retRows, retWork, retRound, TriesInv, RowTyped, StateTyped, CreatedInv, Purging
    <2>6. RunLockInv' /\ PinInv'
      BY <1>0, <1>r, <1>2 DEF RetAdd, retRows, retWork, retRound, RowTyped, StateTyped, RunType, CreatedInv, RunLockInv, PinInv, Rolling, RollbackPending
    <2>7. KeepInv'
      BY <1>0, <1>r, <1>2 DEF RetAdd, retRows, retWork, retRound, RowTyped, StateTyped, RunType, PurgeType, CreatedInv, RunLockInv,
        KeepInv, Separate, Purging, Deploying, Working
    <2> QED
      BY <2>1, <2>2, <2>4, <2>5, <2>6, <2>7 DEF RetInv
  <1>3. CASE RetRoll
    <2>1. RowTyped'
      BY <1>0, <1>r, <1>3 DEF RetRoll, retRows, RowTyped, StateTyped, CreatedInv, RetStatus
    <2>2. StateTyped'
      <3>1. retJobs' \in 0..MaxRequests
        BY <1>0, <1>3, RetBounds DEF RetRoll, StateTyped, RunLockInv, Rolling
      <3>2. retRun' \in RunType /\ retLock' \in {"none", "run", "purge"}
        BY <1>0, <1>r, <1>3 DEF RetRoll, StateTyped, RunType, IdleRun, CreatedInv
      <3> QED
        BY <1>0, <1>3, <3>1, <3>2 DEF RetRoll, StateTyped, retRound, retWork
    <2>3. Created' = Created
      BY <1>0, <1>r, <1>3 DEF RetRoll, retRows, RowTyped, CreatedInv, Created
    <2>4. CreatedInv'
      BY <1>0, <1>r, <1>3, <2>3 DEF RetRoll, retRows, retWork, retRound, CreatedInv, RowTyped, StateTyped, RunType, Purging
    <2>5. TriesInv'
      BY <1>0, <1>r, <1>3 DEF RetRoll, retRows, retWork, retRound, TriesInv, RowTyped, StateTyped, CreatedInv, Purging
    <2>6. RunLockInv' /\ PinInv'
      <3>1. retRun.pc = "idle" /\ retJobs > 0 /\ retJobs \in Nat /\ retPinned \subseteq retRecorded
            /\ UNCHANGED <<retPinned, retCandidate, retAsk, retDeaths, retFaults>>
        BY <1>0, <1>3, RetBounds DEF RetRoll, retRows, RunLockInv, StateTyped, CreatedInv
      <3>2. RunLockInv'
        BY <1>0, <1>3, <3>1, RetBounds DEF RetRoll, RunLockInv, Rolling, StateTyped
      <3>3. CASE retCandidate \in retRecorded
        BY <1>0, <1>3, <3>1, <3>2, <3>3 DEF RetRoll, PinInv, Rolling
      <3>4. CASE retCandidate \notin retRecorded
        BY <1>0, <1>3, <3>1, <3>2, <3>4 DEF RetRoll, PinInv, Rolling
      <3> QED
        BY <3>2, <3>3, <3>4
    <2>7. KeepInv'
      BY <1>0, <1>r, <1>3 DEF RetRoll, retRows, retWork, retRound, RowTyped, StateTyped, RunType, PurgeType, CreatedInv, RunLockInv,
        KeepInv, Separate, Purging, Deploying, Working
    <2> QED
      BY <2>1, <2>2, <2>4, <2>5, <2>6, <2>7 DEF RetInv
  <1>4. CASE RetRolled
    <2>1. RowTyped'
      BY <1>0, <1>r, <1>4 DEF RetRolled, Switched, Runtime, retRows, RowTyped, StateTyped, CreatedInv, RetStatus
    <2>2. StateTyped'
      <3>1. retRun' \in RunType
        BY <1>0, <1>4 DEF RetRolled, StateTyped, RunType
      <3>2. retActive' \in RetRelease /\ retLive' \subseteq RetRelease /\ retCandidate' = NoRelease
        BY <1>0, <1>m, <1>4 DEF RetRolled, Switched, StateTyped
      <3> QED
        BY <1>0, <1>4, <3>1, <3>2 DEF RetRolled, StateTyped, retRound
    <2>3. Created' = Created
      BY <1>0, <1>r, <1>4 DEF RetRolled, Switched, Runtime, retRows, RowTyped, CreatedInv, Created
    <2>4. CreatedInv'
      BY <1>0, <1>r, <1>4, <2>3 DEF RetRolled, Switched, Runtime, retRows, retWork, retRound, CreatedInv, RowTyped, StateTyped, RunType, Purging
    <2>5. TriesInv'
      BY <1>0, <1>r, <1>4 DEF RetRolled, Switched, Runtime, retRows, retWork, retRound, TriesInv, RowTyped, StateTyped, CreatedInv, Purging
    <2>6. RunLockInv' /\ PinInv'
      BY <1>0, <1>r, <1>4 DEF RetRolled, Switched, Runtime, retRows, retWork, retRound, RowTyped, StateTyped, RunType, CreatedInv, RunLockInv, PinInv, Rolling, RollbackPending
    <2>7. KeepInv'
      BY <1>0, <1>r, <1>4 DEF RetRolled, Switched, Runtime, retRows, retWork, retRound, RowTyped, StateTyped, RunType, PurgeType, CreatedInv, RunLockInv,
        KeepInv, Separate, Purging, Deploying, Working
    <2> QED
      BY <2>1, <2>2, <2>4, <2>5, <2>6, <2>7 DEF RetInv
  <1>5. CASE RetRollFails
    <2>1. RowTyped'
      BY <1>0, <1>r, <1>5 DEF RetRollFails, retRows, RowTyped, StateTyped, CreatedInv, RetStatus
    <2>2. StateTyped'
      BY <1>0, <1>r, <1>5 DEF RetRollFails, retRows, retWork, retRound, StateTyped, CreatedInv, RunType, PurgeType
    <2>3. Created' = Created
      BY <1>0, <1>r, <1>5 DEF RetRollFails, retRows, RowTyped, CreatedInv, Created
    <2>4. CreatedInv'
      BY <1>0, <1>r, <1>5, <2>3 DEF RetRollFails, retRows, retWork, retRound, CreatedInv, RowTyped, StateTyped, RunType, Purging
    <2>5. TriesInv'
      BY <1>0, <1>r, <1>5 DEF RetRollFails, retRows, retWork, retRound, TriesInv, RowTyped, StateTyped, CreatedInv, Purging
    <2>6. RunLockInv' /\ PinInv'
      BY <1>0, <1>r, <1>5 DEF RetRollFails, retRows, retWork, retRound, RowTyped, StateTyped, RunType, CreatedInv, RunLockInv, PinInv, Rolling, RollbackPending
    <2>7. KeepInv'
      BY <1>0, <1>r, <1>5 DEF RetRollFails, retRows, retWork, retRound, RowTyped, StateTyped, RunType, PurgeType, CreatedInv, RunLockInv,
        KeepInv, Separate, Purging, Deploying, Working
    <2> QED
      BY <2>1, <2>2, <2>4, <2>5, <2>6, <2>7 DEF RetInv
  <1>6. CASE RetUnpin
    <2>1. RowTyped'
      BY <1>0, <1>r, <1>6 DEF RetUnpin, IdleRun, retRows, RowTyped, StateTyped, CreatedInv, RetStatus
    <2>2. StateTyped'
      <3>1. retJobs' \in 0..MaxRequests
        BY <1>0, <1>6, RetBounds DEF RetUnpin, StateTyped, RunLockInv, Rolling
      <3>2. retRun' \in RunType /\ retLock' \in {"none", "run", "purge"}
        BY <1>0, <1>r, <1>6 DEF RetUnpin, StateTyped, RunType, IdleRun, CreatedInv
      <3> QED
        BY <1>0, <1>6, <3>1, <3>2 DEF RetUnpin, StateTyped, retRound, retWork
    <2>3. Created' = Created
      BY <1>0, <1>r, <1>6 DEF RetUnpin, IdleRun, retRows, RowTyped, CreatedInv, Created
    <2>4. CreatedInv'
      BY <1>0, <1>r, <1>6, <2>3 DEF RetUnpin, IdleRun, retRows, retWork, retRound, CreatedInv, RowTyped, StateTyped, RunType, Purging
    <2>5. TriesInv'
      BY <1>0, <1>r, <1>6 DEF RetUnpin, IdleRun, retRows, retWork, retRound, TriesInv, RowTyped, StateTyped, CreatedInv, Purging
    <2>6. RunLockInv' /\ PinInv'
      <3>1. retJobs \in Nat /\ retJobs' \in {retJobs, retJobs - 1} /\ retRun'.pc = "idle"
            /\ UNCHANGED <<retCandidate, retAsk, retDeaths, retFaults>>
        BY <1>0, <1>6, RetBounds DEF RetUnpin, IdleRun, StateTyped
      <3>2. RunLockInv'
        BY <1>0, <1>6, <3>1, RetBounds DEF RetUnpin, IdleRun, RunLockInv, Rolling
      <3>3. PinInv'
        BY <1>0, <1>6, <3>1 DEF RetUnpin, PinInv, Rolling
      <3> QED
        BY <3>2, <3>3
    <2>7. KeepInv'
      BY <1>0, <1>r, <1>6 DEF RetUnpin, IdleRun, retRows, retWork, retRound, RowTyped, StateTyped, RunType, PurgeType, CreatedInv, RunLockInv,
        KeepInv, Separate, Purging, Deploying, Working
    <2> QED
      BY <2>1, <2>2, <2>4, <2>5, <2>6, <2>7 DEF RetInv
  <1>7. CASE RetDie
    <2>1. RowTyped'
      BY <1>0, <1>r, <1>7 DEF RetDie, IdleRun, retRows, RowTyped, StateTyped, CreatedInv, RetStatus
    <2>2. StateTyped'
      BY <1>0, <1>r, <1>7 DEF RetDie, IdleRun, retRows, retWork, retRound, StateTyped, CreatedInv, RunType, PurgeType
    <2>3. Created' = Created
      BY <1>0, <1>r, <1>7 DEF RetDie, IdleRun, retRows, RowTyped, CreatedInv, Created
    <2>4. CreatedInv'
      BY <1>0, <1>r, <1>7, <2>3 DEF RetDie, IdleRun, retRows, retWork, retRound, CreatedInv, RowTyped, StateTyped, RunType, Purging
    <2>5. TriesInv'
      BY <1>0, <1>r, <1>7 DEF RetDie, IdleRun, retRows, retWork, retRound, TriesInv, RowTyped, StateTyped, CreatedInv, Purging
    <2>6. RunLockInv' /\ PinInv'
      BY <1>0, <1>r, <1>7 DEF RetDie, IdleRun, retRows, retWork, retRound, RowTyped, StateTyped, RunType, CreatedInv, RunLockInv, PinInv, Rolling, RollbackPending
    <2>7. KeepInv'
      BY <1>0, <1>r, <1>7 DEF RetDie, IdleRun, retRows, retWork, retRound, RowTyped, StateTyped, RunType, PurgeType, CreatedInv, RunLockInv,
        KeepInv, Separate, Purging, Deploying, Working
    <2> QED
      BY <2>1, <2>2, <2>4, <2>5, <2>6, <2>7 DEF RetInv
  <1>8. CASE RetExpire
    <2>1. RowTyped'
      BY <1>0, <1>r, <1>8 DEF RetExpire, IdleRun, retRows, RowTyped, StateTyped, CreatedInv, RetStatus
    <2>2. StateTyped'
      BY <1>0, <1>r, <1>8 DEF RetExpire, IdleRun, retRows, retWork, retRound, StateTyped, CreatedInv, RunType, PurgeType
    <2>3. Created' = Created
      BY <1>0, <1>r, <1>8 DEF RetExpire, IdleRun, retRows, RowTyped, CreatedInv, Created
    <2>4. CreatedInv'
      BY <1>0, <1>r, <1>8, <2>3 DEF RetExpire, IdleRun, retRows, retWork, retRound, CreatedInv, RowTyped, StateTyped, RunType, Purging
    <2>5. TriesInv'
      BY <1>0, <1>r, <1>8 DEF RetExpire, IdleRun, retRows, retWork, retRound, TriesInv, RowTyped, StateTyped, CreatedInv, Purging
    <2>6. RunLockInv' /\ PinInv'
      BY <1>0, <1>r, <1>8 DEF RetExpire, IdleRun, retRows, retWork, retRound, RowTyped, StateTyped, RunType, CreatedInv, RunLockInv, PinInv, Rolling, RollbackPending
    <2>7. KeepInv'
      BY <1>0, <1>r, <1>8 DEF RetExpire, IdleRun, retRows, retWork, retRound, RowTyped, StateTyped, RunType, PurgeType, CreatedInv, RunLockInv,
        KeepInv, Separate, Purging, Deploying, Working
    <2> QED
      BY <2>1, <2>2, <2>4, <2>5, <2>6, <2>7 DEF RetInv
  <1>9. CASE RetGrow(r)
    <2>1. RowTyped'
      BY <1>0, <1>9, SMTT(30) DEF RetGrow, RowTyped, Created
    <2>2. StateTyped'
      BY <1>0, <1>r, <1>9 DEF RetGrow, retWork, retRound, RowTyped, StateTyped, CreatedInv, RunType, PurgeType
    <2>3. Created' = Created
      BY <1>0, <1>r, <1>9 DEF RetGrow, retRows, RowTyped, CreatedInv, Created
    <2>4. CreatedInv'
      BY <1>0, <1>r, <1>9, <2>3 DEF RetGrow, retRows, retWork, retRound, CreatedInv, RowTyped, StateTyped, Purging
    <2>5. TriesInv'
      BY <1>0, <1>r, <1>9 DEF RetGrow, retRows, retWork, retRound, TriesInv, RowTyped, StateTyped, CreatedInv, Purging
    <2>6. RunLockInv' /\ PinInv'
      BY <1>0, <1>r, <1>9 DEF RetGrow, retRows, retWork, retRound, RowTyped, StateTyped, RunType, RunLockInv, PinInv, Rolling, RollbackPending
    <2>7. KeepInv'
      BY <1>0, <1>r, <1>9 DEF RetGrow, retRows, retWork, retRound, RowTyped, StateTyped, RunType, PurgeType, CreatedInv, RunLockInv,
        KeepInv, Separate, Purging, Deploying, Working
    <2> QED
      BY <2>1, <2>2, <2>4, <2>5, <2>6, <2>7 DEF RetInv
  <1> QED
    BY <1>1, <1>2, <1>3, <1>4, <1>5, <1>6, <1>7, <1>8, <1>9

(* The maintenance worker. *)
LEMMA PurgeSteps ==
  ASSUME RetInv, NEW r \in RetRelease,
         \/ RetSelect \/ RetVisit(r) \/ RetRemove \/ RetMark \/ RetPurgeFails \/ RetEndRound \/ RetLapse
  PROVE  RetInv'
  <1>0. RowTyped /\ StateTyped /\ CreatedInv /\ TriesInv /\ RunLockInv /\ PinInv /\ KeepInv
    BY DEF RetInv
  <1>r. /\ retRun.pc \in {"idle", "building", "started", "recorded", "rolling", "ending"} /\ retRun.rel \in RetRelease \cup {NoRelease}
        /\ retPurge.pc \in {"idle", "round", "checked", "removed"} /\ retPurge.rel \in RetRelease \cup {NoRelease}
        /\ NoRelease \notin RetRelease
    BY <1>0 DEF StateTyped, RunType, PurgeType, NoRelease, RetRelease
  <1>m. /\ retRun.pc # "idle" => retRun.rel \in RetRelease /\ retOwner[retRun.rel] \in RetRelease
        /\ Purging => retPurge.rel \in RetRelease
    BY <1>0 DEF CreatedInv, Created
  <1>1. CASE RetSelect
    <2>1. RowTyped'
      BY <1>0, <1>r, <1>1 DEF RetSelect, retentionCandidates, Successful, Purgeable, Protected, retRows, RowTyped, StateTyped, CreatedInv, TriesInv, Purging, RetStatus
    <2>2. StateTyped'
      <3>1. retEligible' \subseteq RetRelease
        BY <1>1 DEF RetSelect, retentionCandidates, Successful, Purgeable, Created
      <3>2. retPurge' \in PurgeType
        BY <1>1 DEF RetSelect, PurgeType
      <3> QED
        BY <1>0, <1>1, <3>1, <3>2 DEF RetSelect, StateTyped, retWork
    <2>3. Created' = Created
      BY <1>0, <1>r, <1>1 DEF RetSelect, retentionCandidates, Successful, Purgeable, Protected, retRows, RowTyped, CreatedInv, Created
    <2>4. CreatedInv'
      BY <1>0, <1>r, <1>1, <2>3 DEF RetSelect, retentionCandidates, Successful, Purgeable, Protected, retRows, retWork, retRound, CreatedInv, RowTyped, StateTyped, Purging
    <2>5. TriesInv'
      BY <1>0, <1>r, <1>1 DEF RetSelect, retentionCandidates, Successful, Purgeable, Protected, retRows, retWork, retRound, TriesInv, RowTyped, StateTyped, CreatedInv, Purging
    <2>6. RunLockInv' /\ PinInv'
      BY <1>0, <1>r, <1>1 DEF RetSelect, retentionCandidates, Successful, Purgeable, Protected, retRows, retWork, retRound, RowTyped, StateTyped, RunType, RunLockInv, PinInv, Rolling, RollbackPending
    <2>7. KeepInv'
      BY <1>0, <1>r, <1>1 DEF RetSelect, retentionCandidates, Successful, Purgeable, Protected, retRows, retWork, retRound, RowTyped, StateTyped, RunType, PurgeType, CreatedInv, RunLockInv,
        KeepInv, Separate, Purging, Deploying, Working
    <2> QED
      BY <2>1, <2>2, <2>4, <2>5, <2>6, <2>7 DEF RetInv
  <1>2. CASE RetVisit(r)
    <2>1. RowTyped'
      BY <1>0, <1>r, <1>2 DEF RetVisit, MayPurge, retRows, RowTyped, StateTyped, CreatedInv, TriesInv, Purging, RetStatus
    <2>2. StateTyped'
      BY <1>0, <1>r, <1>2 DEF RetVisit, MayPurge, retWork, retRound, RowTyped, StateTyped, CreatedInv, RunType, PurgeType
    <2>3. Created' = Created
      BY <1>0, <1>r, <1>2 DEF RetVisit, MayPurge, retRows, RowTyped, CreatedInv, Created
    <2>4. CreatedInv'
      BY <1>0, <1>r, <1>2, <2>3 DEF RetVisit, MayPurge, retRows, retWork, retRound, CreatedInv, RowTyped, StateTyped, Purging
    <2>5. TriesInv'
      BY <1>0, <1>r, <1>2 DEF RetVisit, MayPurge, retRows, retWork, retRound, TriesInv, RowTyped, StateTyped, CreatedInv, Purging
    <2>6. RunLockInv' /\ PinInv'
      BY <1>0, <1>r, <1>2 DEF RetVisit, MayPurge, retRows, retWork, retRound, RowTyped, StateTyped, RunType, RunLockInv, PinInv, Rolling, RollbackPending
    <2>7. KeepInv'
      BY <1>0, <1>r, <1>2 DEF RetVisit, MayPurge, retRows, retWork, retRound, RowTyped, StateTyped, RunType, PurgeType, CreatedInv, RunLockInv,
        KeepInv, Separate, Purging, Deploying, Working
    <2> QED
      BY <2>1, <2>2, <2>4, <2>5, <2>6, <2>7 DEF RetInv
  <1>3. CASE RetRemove
    <2>1. RowTyped'
      BY <1>0, <1>r, <1>3 DEF RetRemove, Runtime, retRows, RowTyped, StateTyped, CreatedInv, TriesInv, Purging, RetStatus
    <2>2. StateTyped'
      BY <1>0, <1>r, <1>3 DEF RetRemove, Runtime, retWork, retRound, RowTyped, StateTyped, CreatedInv, RunType, PurgeType
    <2>3. Created' = Created
      BY <1>0, <1>r, <1>3 DEF RetRemove, Runtime, retRows, RowTyped, CreatedInv, Created
    <2>4. CreatedInv'
      BY <1>0, <1>r, <1>3, <2>3 DEF RetRemove, Runtime, retRows, retWork, retRound, CreatedInv, RowTyped, StateTyped, Purging
    <2>5. TriesInv'
      BY <1>0, <1>r, <1>3 DEF RetRemove, Runtime, retRows, retWork, retRound, TriesInv, RowTyped, StateTyped, CreatedInv, Purging
    <2>6. RunLockInv' /\ PinInv'
      BY <1>0, <1>r, <1>3 DEF RetRemove, Runtime, retRows, retWork, retRound, RowTyped, StateTyped, RunType, RunLockInv, PinInv, Rolling, RollbackPending
    <2>7. KeepInv'
      BY <1>0, <1>r, <1>3 DEF RetRemove, Runtime, retRows, retWork, retRound, RowTyped, StateTyped, RunType, PurgeType, CreatedInv, RunLockInv,
        KeepInv, Separate, Purging, Deploying, Working
    <2> QED
      BY <2>1, <2>2, <2>4, <2>5, <2>6, <2>7 DEF RetInv
  <1>4. CASE RetMark
    <2>1. RowTyped'
      BY <1>0, <1>m, <1>4 DEF RetMark, RowTyped, Purging
    <2>2. StateTyped'
      BY <1>0, <1>r, <1>4 DEF RetMark, EndVisit, retWork, retRound, RowTyped, StateTyped, CreatedInv, RunType, PurgeType
    <2>3. Created' = Created
      BY <1>0, <1>r, <1>4 DEF RetMark, EndVisit, retRows, RowTyped, CreatedInv, Created
    <2>4. CreatedInv'
      BY <1>0, <1>r, <1>4, <2>3 DEF RetMark, EndVisit, retRows, retWork, retRound, CreatedInv, RowTyped, StateTyped, Purging
    <2>5. TriesInv'
      BY <1>0, <1>r, <1>4 DEF RetMark, EndVisit, retRows, retWork, retRound, TriesInv, RowTyped, StateTyped, CreatedInv, Purging
    <2>6. RunLockInv' /\ PinInv'
      BY <1>0, <1>r, <1>4 DEF RetMark, EndVisit, retRows, retWork, retRound, RowTyped, StateTyped, RunType, RunLockInv, PinInv, Rolling, RollbackPending
    <2>7. KeepInv'
      BY <1>0, <1>r, <1>4 DEF RetMark, EndVisit, retRows, retWork, retRound, RowTyped, StateTyped, RunType, PurgeType, CreatedInv, RunLockInv,
        KeepInv, Separate, Purging, Deploying, Working
    <2> QED
      BY <2>1, <2>2, <2>4, <2>5, <2>6, <2>7 DEF RetInv
  <1>5. CASE RetPurgeFails
    <2>1. RowTyped'
      <3> DEFINE p == retPurge.rel
      <3>1. p \in RetRelease /\ retTries[p] < PurgeTries /\ retTries[p] \in 0..PurgeTries
        BY <1>0, <1>m, <1>5 DEF RetPurgeFails, RowTyped, TriesInv, Purging
      <3>2. retTries[p] + 1 \in 0..PurgeTries
        BY <3>1, RetBounds
      <3>3. retTries' = [retTries EXCEPT ![p] = retTries[p] + 1]
        BY <1>5 DEF RetPurgeFails
      <3> HIDE DEF p
      <3>4. retTries' \in [RetRelease -> 0..PurgeTries]
        BY <1>0, <3>1, <3>2, <3>3 DEF RowTyped
      <3> QED
        BY <1>0, <1>5, <3>4 DEF RetPurgeFails, RowTyped
    <2>2. StateTyped'
      BY <1>0, <1>r, <1>5 DEF RetPurgeFails, EndVisit, retWork, retRound, RowTyped, StateTyped, CreatedInv, RunType, PurgeType
    <2>3. Created' = Created
      BY <1>0, <1>r, <1>5 DEF RetPurgeFails, EndVisit, retRows, RowTyped, CreatedInv, Created
    <2>4. CreatedInv'
      BY <1>0, <1>r, <1>5, <2>3 DEF RetPurgeFails, EndVisit, retRows, retWork, retRound, CreatedInv, RowTyped, StateTyped, Purging
    <2>5. TriesInv'
      BY <1>0, <1>r, <1>5 DEF RetPurgeFails, EndVisit, retRows, retWork, retRound, TriesInv, RowTyped, StateTyped, CreatedInv, Purging
    <2>6. RunLockInv' /\ PinInv'
      BY <1>0, <1>r, <1>5 DEF RetPurgeFails, EndVisit, retRows, retWork, retRound, RowTyped, StateTyped, RunType, RunLockInv, PinInv, Rolling, RollbackPending
    <2>7. KeepInv'
      BY <1>0, <1>r, <1>5 DEF RetPurgeFails, EndVisit, retRows, retWork, retRound, RowTyped, StateTyped, RunType, PurgeType, CreatedInv, RunLockInv,
        KeepInv, Separate, Purging, Deploying, Working
    <2> QED
      BY <2>1, <2>2, <2>4, <2>5, <2>6, <2>7 DEF RetInv
  <1>6. CASE RetEndRound
    <2>1. RowTyped'
      BY <1>0, <1>r, <1>6 DEF RetEndRound, Orphans, Runtime, retRows, RowTyped, StateTyped, CreatedInv, TriesInv, Purging, RetStatus
    <2>2. StateTyped'
      BY <1>0, <1>r, <1>6 DEF RetEndRound, Orphans, Runtime, retWork, retRound, RowTyped, StateTyped, CreatedInv, RunType, PurgeType
    <2>3. Created' = Created
      BY <1>0, <1>r, <1>6 DEF RetEndRound, Orphans, Runtime, retRows, RowTyped, CreatedInv, Created
    <2>4. CreatedInv'
      BY <1>0, <1>r, <1>6, <2>3 DEF RetEndRound, Orphans, Runtime, retRows, retWork, retRound, CreatedInv, RowTyped, StateTyped, Purging
    <2>5. TriesInv'
      BY <1>0, <1>r, <1>6 DEF RetEndRound, Orphans, Runtime, retRows, retWork, retRound, TriesInv, RowTyped, StateTyped, CreatedInv, Purging
    <2>6. RunLockInv' /\ PinInv'
      BY <1>0, <1>r, <1>6 DEF RetEndRound, Orphans, Runtime, retRows, retWork, retRound, RowTyped, StateTyped, RunType, RunLockInv, PinInv, Rolling, RollbackPending
    <2>7. KeepInv'
      BY <1>0, <1>r, <1>6 DEF RetEndRound, Orphans, Runtime, retRows, retWork, retRound, RowTyped, StateTyped, RunType, PurgeType, CreatedInv, RunLockInv,
        KeepInv, Separate, Purging, Deploying, Working
    <2> QED
      BY <2>1, <2>2, <2>4, <2>5, <2>6, <2>7 DEF RetInv
  <1>7. CASE RetLapse
    <2>1. RowTyped'
      BY <1>0, <1>r, <1>7 DEF RetLapse, retRows, RowTyped, StateTyped, CreatedInv, TriesInv, Purging, RetStatus
    <2>2. StateTyped'
      BY <1>0, <1>r, <1>7 DEF RetLapse, retWork, retRound, RowTyped, StateTyped, CreatedInv, RunType, PurgeType
    <2>3. Created' = Created
      BY <1>0, <1>r, <1>7 DEF RetLapse, retRows, RowTyped, CreatedInv, Created
    <2>4. CreatedInv'
      BY <1>0, <1>r, <1>7, <2>3 DEF RetLapse, retRows, retWork, retRound, CreatedInv, RowTyped, StateTyped, Purging
    <2>5. TriesInv'
      BY <1>0, <1>r, <1>7 DEF RetLapse, retRows, retWork, retRound, TriesInv, RowTyped, StateTyped, CreatedInv, Purging
    <2>6. RunLockInv' /\ PinInv'
      BY <1>0, <1>r, <1>7 DEF RetLapse, retRows, retWork, retRound, RowTyped, StateTyped, RunType, RunLockInv, PinInv, Rolling, RollbackPending
    <2>7. KeepInv'
      BY <1>0, <1>r, <1>7 DEF RetLapse, retRows, retWork, retRound, RowTyped, StateTyped, RunType, PurgeType, CreatedInv, RunLockInv,
        KeepInv, Separate, Purging, Deploying, Working
    <2> QED
      BY <2>1, <2>2, <2>4, <2>5, <2>6, <2>7 DEF RetInv
  <1> QED
    BY <1>1, <1>2, <1>3, <1>4, <1>5, <1>6, <1>7

(* A run begins. *)
LEMMA BeginStep ==
  ASSUME RetInv, NEW d, RetBegin(d)
  PROVE  RetInv'
  <1>0. RowTyped /\ StateTyped /\ CreatedInv /\ TriesInv /\ RunLockInv /\ PinInv /\ KeepInv
    BY DEF RetInv
  <1>1. PICK r \in RetRelease :
           /\ r = Cardinality(Created) + 1 /\ r \notin Created /\ Created \cup {r} = 1..r
           /\ d \in RetRelease
           /\ \A s \in Created : retOwner[s] = d => retStatus[s] = "FAILED"
           /\ retStatus' = [Replacing(r) EXCEPT ![r] = "BUILDING"]
           /\ retOwner' = [retOwner EXCEPT ![r] = d]
           /\ retCandidate' = r
           /\ retRun' = [pc |-> "building", rel |-> r]
    BY <1>0, NextRelease
  <1>2. /\ retLock = "none" /\ retRun.pc = "idle" /\ retLock' = "run"
        /\ RollbackPending => "overlap" \in retFaults
        /\ UNCHANGED <<retAge, retRecorded, retPinned, retPurged, retTries, retActive, retUp, retAsk, retJobs,
                       retDeaths, retPurge, retEligible, retLive, retFaults>>
    BY <1>0 DEF RetBegin, RunLockInv, retRound
  <1>3. NoRelease \notin RetRelease
    BY DEF NoRelease, RetRelease
  <1>4. RowTyped'
    BY <1>0, <1>1, <1>2 DEF RowTyped, Replacing, RetStatus
  <1>5. StateTyped'
    BY <1>0, <1>1, <1>2 DEF StateTyped, RunType
  <1>6. /\ Created' = Created \cup {r}
        /\ \A s \in Created : s = retCandidate \/ retStatus'[s] = retStatus[s]
        /\ \A s \in Created : retOwner'[s] = retOwner[s]
        /\ retOwner'[r] = d
    <2>1. \A s \in RetRelease : s # r =>
            \/ retStatus'[s] = retStatus[s]
            \/ s = retCandidate /\ s \in Created /\ retStatus'[s] = "FAILED"
      BY <1>0, <1>1, <1>3 DEF Replacing, RowTyped, CreatedInv
    <2>2. retStatus'[r] = "BUILDING"
      BY <1>0, <1>1 DEF Replacing, RowTyped
    <2>3. Created' = Created \cup {r}
      BY <2>1, <2>2 DEF Created
    <2>4. \A s \in Created : s = retCandidate \/ retStatus'[s] = retStatus[s]
      BY <1>1, <2>1 DEF Created
    <2>5. (\A s \in Created : retOwner'[s] = retOwner[s]) /\ retOwner'[r] = d
      BY <1>0, <1>1 DEF RowTyped, Created
    <2> QED
      BY <2>3, <2>4, <2>5
  <1>7. CreatedInv'
    <2>1. r \in 0..MaxReleases
      BY RetBounds DEF RetRelease
    <2> QED
      BY <1>0, <1>1, <1>2, <1>6, <2>1 DEF CreatedInv, Purging
  <1>8. TriesInv' /\ RunLockInv' /\ PinInv'
    <2>1. r \notin retPinned
      BY <1>0, <1>1 DEF CreatedInv
    <2> QED
      BY <1>0, <1>1, <1>2, <2>1 DEF TriesInv, RunLockInv, PinInv, Purging, Rolling, RollbackPending
  <1>9. KeepInv'
    <2> SUFFICES ASSUME Separate PROVE KeepInv'
      BY <1>2 DEF KeepInv, Separate
    <2>1. r \notin retPurged \cup retRecorded \cup {retActive, NoRelease}
      BY <1>0, <1>1, <1>3 DEF CreatedInv
    <2>2. retActive # NoRelease => retOwner[retActive] # d /\ retStatus'[retActive] = "ACTIVE" /\ retActive \in Created
      BY <1>0, <1>1, <1>6 DEF KeepInv, CreatedInv
    <2> QED
      BY <1>0, <1>1, <1>2, <1>6, <2>1, <2>2 DEF KeepInv, Purging, Deploying, Working
  <1> QED
    BY <1>4, <1>5, <1>7, <1>8, <1>9 DEF RetInv

(* In the initial state there is no release. *)
LEMMA RetentionInit == RetInit => RetInv
  <1> SUFFICES ASSUME RetInit PROVE RetInv
    OBVIOUS
  <1>1. RowTyped
    BY RetBounds DEF RetInit, RowTyped, RetStatus
  <1>2. StateTyped
    BY RetBounds DEF RetInit, StateTyped, RunType, PurgeType
  <1>3. Created = {}
    BY DEF RetInit, Created
  <1>4. CreatedInv
    <2>1. 0 \in 0..MaxReleases /\ 1..0 = {}
      BY RetBounds
    <2> QED
      BY <1>3, <2>1 DEF RetInit, CreatedInv, Purging
  <1>5. TriesInv /\ RunLockInv /\ PinInv /\ KeepInv
    BY DEF RetInit, TriesInv, RunLockInv, PinInv, KeepInv, Purging, Deploying, Working, Rolling
  <1> QED
    BY <1>1, <1>2, <1>4, <1>5 DEF RetInv

(* Every step keeps what runs, rollbacks and the purge share. *)
LEMMA RetentionStep == RetInv /\ [RetNext]_retVars => RetInv'
  <1> SUFFICES ASSUME RetInv, [RetNext]_retVars PROVE RetInv'
    OBVIOUS
  <1>1. ASSUME NEW r \in RetRelease, RetBegin(r) PROVE RetInv'
    BY <1>1, BeginStep
  <1>2. CASE RetStart \/ RetRecord \/ RetFail \/ RetActivate
    <2>1. PICK r \in RetRelease : TRUE
      BY RetBounds DEF RetRelease
    <2> QED
      BY <1>2, <2>1, RunSteps
  <1>3. CASE (\E r \in RetRelease : RetRequest(r) \/ RetGrow(r)) \/ RetAdd \/ RetRoll \/ RetRolled \/ RetRollFails
             \/ RetUnpin \/ RetDie \/ RetExpire
    <2>1. PICK r \in RetRelease : TRUE
      BY RetBounds DEF RetRelease
    <2> QED
      BY <1>3, <2>1, RollSteps
  <1>4. CASE (\E r \in RetRelease : RetVisit(r)) \/ RetSelect \/ RetRemove \/ RetMark \/ RetPurgeFails
             \/ RetEndRound \/ RetLapse
    <2>1. PICK r \in RetRelease : TRUE
      BY RetBounds DEF RetRelease
    <2> QED
      BY <1>4, <2>1, PurgeSteps
  <1>5. CASE UNCHANGED retVars
    BY <1>5 DEF retVars, retRows, retWork, retRound, RetInv, RowTyped, StateTyped, CreatedInv, Created, TriesInv,
                RunLockInv, PinInv, KeepInv, Separate, Purging, Deploying, Working, Rolling
  <1> QED
    BY <1>1, <1>2, <1>3, <1>4, <1>5 DEF RetNext

(* The invariant is inductive. *)
THEOREM RetInductive == RetSpec => []RetInv
  BY RetentionInit, RetentionStep, PTL DEF RetSpec

(* Every variable keeps its type, under every fault. *)
THEOREM RetTypes == RetSpec => []RetTypeOK
  <1>1. RetInv => RetTypeOK
    BY DEF RetInv, RowTyped, StateTyped, RunType, PurgeType, RetTypeOK
  <1> QED
    BY <1>1, RetInductive, PTL

(* Unless a lock lapses or attempts share a stack, the active release is never
   purged and keeps its container (purgeRelease, activate, rollback).       *)
THEOREM ActiveKept == RetSpec => []ActiveIsKept
  <1>1. RetInv => ActiveIsKept
    BY DEF RetInv, KeepInv, Separate, ActiveIsKept, ActiveIsUp, Runtime
  <1> QED
    BY <1>1, RetInductive, PTL

(* A pin lasts only as long as the rollback it was set for, provided the queue
   takes its job and nothing replaces the candidate while the job waits; what a
   death of the worker leaves pinned is a release whose rollback was decided
   (rollback, executeRollback).                                            *)
THEOREM PinsEnd == RetSpec => []PinEnds
  <1>1. RetInv => PinEnds
    BY DEF RetInv, PinInv, PinEnds, RollbackPending, Rolling
  <1> QED
    BY <1>1, RetInductive, PTL

------------------------------------------------------------------------------
(* What stays for a rollback, when also nothing overlaps a request or a round. *)

RetQuiet == retFaults \cap {"stack", "lapse", "overlap"} = {}

NewerLive(r) == {s \in retLive : s > r}

(* A release that retention may take, for good: neither its age nor the number of
   newer ones that went live ever decreases.                               *)
Due(r) == retAge[r] = 2 \/ Cardinality(NewerLive(r)) >= RetKeep

(* What a round has still to visit, or is removing. *)
Selected == {r \in RetRelease : r \in retEligible \/ (Purging /\ r = retPurge.rel)}

(* Whoever holds the lock of the project works on the candidate; what a new attempt
   removes by name belongs to attempts that failed.                        *)
AttemptInv ==
  /\ retRun.pc \in Working => retRun.rel = retCandidate
  /\ retCandidate # NoRelease => retStatus[retCandidate] # "SUPERSEDED"
  /\ retRun.pc = "building" =>
       \A s \in Created : retOwner[s] = retOwner[retRun.rel] => retStatus[s] # "SUPERSEDED"

(* A round has selected only releases that are due or will never be live again, and
   what has been superseded is there until it is due.                      *)
DueInv ==
  /\ \A r \in Created : retStatus[r] \in {"ACTIVE", "SUPERSEDED"} => r \in retLive
  /\ retActive \notin retEligible /\ retCandidate \notin retEligible
  /\ \A r \in Selected : retStatus[r] = "SUPERSEDED" => Due(r)
  /\ \A r \in Created : retStatus[r] = "SUPERSEDED" /\ ~Due(r) => r \notin retPurged /\ r \in retUp

PriorInv == RetQuiet => AttemptInv /\ DueInv

(* What is due stays due. *)
LEMMA DueGrows ==
  ASSUME StateTyped, retLive \subseteq retLive', retLive' \subseteq RetRelease,
         NEW r \in RetRelease, retAge[r] = 2 => retAge'[r] = 2, Due(r)
  PROVE  Due(r)'
  <1>1. IsFiniteSet(NewerLive(r)')
    <2>1. IsFiniteSet(RetRelease)
      BY RetBounds, FS_Interval DEF RetRelease
    <2> QED
      BY <2>1, FS_Subset DEF NewerLive
  <1>2. NewerLive(r) \subseteq NewerLive(r)'
    BY DEF NewerLive
  <1>3. /\ Cardinality(NewerLive(r)) \in Nat /\ Cardinality(NewerLive(r)') \in Nat
        /\ Cardinality(NewerLive(r)) <= Cardinality(NewerLive(r)')
    BY <1>1, <1>2, FS_Subset, FS_CardinalityType
  <1> QED
    BY <1>3, RetBounds DEF Due

(* What a round selects among the successful releases is due. *)
LEMMA SelectedDue ==
  ASSUME RetInv, DueInv, NEW r \in retentionCandidates, retStatus[r] = "SUPERSEDED"
  PROVE  Due(r)
  <1>1. /\ r \in RetRelease
        /\ NewerSuccessful(r) >= RetKeep \/ retAge[r] = 2
    BY DEF retentionCandidates, Successful, Purgeable, Created
  <1>2. {s \in Successful : s > r} \subseteq NewerLive(r)
    BY DEF DueInv, Successful, Purgeable, NewerLive
  <1>3. IsFiniteSet(NewerLive(r))
    <2>1. IsFiniteSet(RetRelease)
      BY RetBounds, FS_Interval DEF RetRelease
    <2> QED
      BY <2>1, FS_Subset DEF NewerLive, RetInv, StateTyped
  <1>4. /\ NewerSuccessful(r) \in Nat /\ Cardinality(NewerLive(r)) \in Nat
        /\ NewerSuccessful(r) <= Cardinality(NewerLive(r))
    BY <1>2, <1>3, FS_Subset, FS_CardinalityType DEF NewerSuccessful
  <1> QED
    BY <1>1, <1>4, RetBounds DEF Due

(* The steps that leave the status of every release alone. *)
LEMMA PlainPrior ==
  ASSUME RetInv, PriorInv, RetQuiet,
         \/ RetStart \/ RetAdd \/ RetRoll \/ RetUnpin \/ RetDie \/ RetExpire \/ RetSelect \/ RetRemove \/ RetMark \/ RetPurgeFails \/ RetEndRound
         \/ \E r \in RetRelease : RetVisit(r) \/ RetGrow(r)
         \/ UNCHANGED retVars,
         StateTyped', RowTyped'
  PROVE  AttemptInv' /\ DueInv'
  <1>1. /\ RowTyped /\ StateTyped /\ CreatedInv /\ RunLockInv /\ AttemptInv /\ DueInv
        /\ Purging => retLock = "purge" /\ retPurge.rel # retActive
        /\ \A r \in RetRelease : Runtime(r) = r
        /\ NoRelease \notin RetRelease /\ Created \subseteq RetRelease
    BY DEF RetInv, PriorInv, RetQuiet, KeepInv, Separate, Runtime, NoRelease, RetRelease, Created
  <1>2. UNCHANGED <<retStatus, retOwner, retActive, retCandidate, retLive>> /\ Created' = Created
    BY DEF RetStart, RetAdd, RetRoll, RetUnpin, RetDie, RetExpire, RetSelect, RetRemove, RetMark, RetPurgeFails, RetEndRound, EndVisit, RetVisit, RetGrow,
           retVars, retRows, retWork, retRound, Created
  <1>3. \A r \in RetRelease : Due(r) => Due(r)'
    <2>1. \A r \in RetRelease : retAge[r] = 2 => retAge'[r] = 2
      BY <1>1 DEF RowTyped, RetStart, RetAdd, RetRoll, RetUnpin, RetDie, RetExpire, RetSelect, RetRemove, RetMark, RetPurgeFails, RetEndRound, EndVisit,
                  RetVisit, RetGrow, retVars, retRows
    <2> QED
      BY <1>1, <1>2, <2>1, DueGrows DEF StateTyped
  <1>4. AttemptInv'
    <2>1. CASE RetRoll \/ RetUnpin \/ RetDie
      BY <1>1, <1>2, <2>1 DEF RetRoll, RetUnpin, RetDie, IdleRun, AttemptInv, StateTyped, RunType, Working, Deploying
    <2>2. CASE RetStart
      BY <1>1, <1>2, <2>2 DEF RetStart, AttemptInv, StateTyped, RunType, Working, Deploying
    <2>3. CASE ~(RetRoll \/ RetUnpin \/ RetDie) /\ ~RetStart
      BY <1>1, <1>2, <2>3 DEF RetAdd, RetExpire, RetSelect, RetRemove, RetMark, RetPurgeFails, RetEndRound,
           EndVisit, RetVisit, RetGrow, retVars, retRows, retWork, AttemptInv
    <2> QED
      BY <2>1, <2>2, <2>3
  <1>5. retActive' \notin retEligible' /\ retCandidate' \notin retEligible'
    <2>1. CASE RetSelect
      BY <1>1, <1>2, <2>1 DEF RetSelect, retentionCandidates, Protected
    <2>2. CASE ~RetSelect
      <3>1. retEligible' \subseteq retEligible
        BY <2>2 DEF RetStart, RetAdd, RetRoll, RetUnpin, RetDie, RetExpire, RetRemove, RetMark, RetPurgeFails, RetEndRound, EndVisit, RetVisit, RetGrow,
                    retVars, retRound
      <3> QED
        BY <1>1, <1>2, <3>1 DEF DueInv
    <2> QED
      BY <2>1, <2>2
  <1>6. \A r \in Selected' : retStatus'[r] = "SUPERSEDED" => Due(r)'
    <2>1. CASE RetSelect
      <3>1. Selected' \subseteq retentionCandidates /\ Selected' \subseteq RetRelease
        BY <1>1, <2>1 DEF RetSelect, Selected, Purging
      <3> QED
        BY <1>1, <1>2, <1>3, <2>1, <3>1, SelectedDue
    <2>2. CASE ~RetSelect
      <3>1. Selected' \subseteq Selected
        BY <1>1, <2>2 DEF RetStart, RetAdd, RetRoll, RetUnpin, RetDie, RetExpire, RetRemove, RetMark, RetPurgeFails, RetEndRound, EndVisit, RetVisit, RetGrow,
                    retVars, retRound, Selected, Purging, StateTyped, PurgeType
      <3> QED
        BY <1>1, <1>2, <1>3, <3>1 DEF DueInv, Selected
    <2> QED
      BY <2>1, <2>2
  <1>7. \A r \in Created' : retStatus'[r] = "SUPERSEDED" /\ ~Due(r)' => r \notin retPurged' /\ r \in retUp'
    <2> SUFFICES ASSUME NEW r \in Created, retStatus[r] = "SUPERSEDED", ~Due(r)'
                 PROVE  r \notin retPurged' /\ r \in retUp'
      BY <1>2
    <2>1. r \in RetRelease /\ ~Due(r) /\ r \notin retPurged /\ r \in retUp
      BY <1>1, <1>3 DEF DueInv
    <2>2. Purging => r # retPurge.rel
      BY <1>1, <2>1 DEF DueInv, Selected
    <2>3. CASE RetStart
      BY <1>1, <2>1, <2>3 DEF RetStart, AttemptInv, retRows
    <2>4. CASE RetEndRound
      BY <1>1, <2>1, <2>4 DEF RetEndRound, Orphans, retRows
    <2>5. CASE RetRemove \/ RetMark
      BY <1>1, <2>1, <2>2, <2>5 DEF RetRemove, RetMark, CreatedInv, Purging, retRows
    <2>6. CASE RetAdd \/ RetRoll \/ RetUnpin \/ RetDie \/ RetExpire \/ RetSelect \/ RetPurgeFails \/ (\E s \in RetRelease : RetVisit(s) \/ RetGrow(s))
               \/ UNCHANGED retVars
      BY <2>1, <2>6 DEF RetAdd, RetRoll, RetUnpin, RetDie, RetExpire, RetSelect, RetPurgeFails, RetVisit, RetGrow, retVars, retRows
    <2> QED
      BY <2>3, <2>4, <2>5, <2>6
  <1>8. \A r \in Created' : retStatus'[r] \in {"ACTIVE", "SUPERSEDED"} => r \in retLive'
    BY <1>1, <1>2 DEF DueInv
  <1> QED
    BY <1>4, <1>5, <1>6, <1>7, <1>8 DEF DueInv

(* The steps that change a status but supersede nothing. *)
LEMMA MarkPrior ==
  ASSUME RetInv, PriorInv, RetQuiet,
         \/ RetRecord \/ RetFail \/ RetRollFails
         \/ \E r \in RetRelease : RetBegin(r) \/ RetRequest(r),
         RetInv'
  PROVE  AttemptInv' /\ DueInv'
  <1>1. /\ RowTyped /\ StateTyped /\ CreatedInv /\ RunLockInv /\ PinInv /\ AttemptInv /\ DueInv
        /\ \A r \in RetRelease : Runtime(r) = r
        /\ NoRelease \notin RetRelease /\ Created \subseteq RetRelease
    BY DEF RetInv, PriorInv, RetQuiet, Runtime, NoRelease, RetRelease, Created
  <1>2. UNCHANGED <<retAge, retPurged, retActive, retPurge, retEligible, retLive>>
    BY DEF RetRecord, RetFail, RetRollFails, RetBegin, RetRequest, retRound
  <1>3. \A r \in RetRelease : Due(r)' <=> Due(r)
    BY <1>2 DEF Due, NewerLive
  <1> DEFINE Marked ==
        /\ \A r \in RetRelease : retStatus'[r] \in {"ACTIVE", "SUPERSEDED"} => retStatus'[r] = retStatus[r]
        /\ \A r \in RetRelease : r \in retUp \ retUp' => retStatus'[r] # "SUPERSEDED"
        /\ retCandidate' \notin retEligible
        /\ AttemptInv'
  <1>4. Marked
    <2>1. ASSUME NEW d \in RetRelease, RetBegin(d) PROVE Marked
      <3>1. PICK r \in RetRelease :
               /\ r = Cardinality(Created) + 1 /\ r \notin Created /\ Created \cup {r} = 1..r
               /\ d \in RetRelease
               /\ \A s \in Created : retOwner[s] = d => retStatus[s] = "FAILED"
               /\ retStatus' = [Replacing(r) EXCEPT ![r] = "BUILDING"]
               /\ retOwner' = [retOwner EXCEPT ![r] = d]
               /\ retCandidate' = r
               /\ retRun' = [pc |-> "building", rel |-> r]
        BY <1>1, <2>1, NextRelease
      <3> QED
        BY <1>1, <2>1, <3>1 DEF RetBegin, Replacing, RowTyped, CreatedInv, AttemptInv, Created, Working, Deploying
    <2>2. ASSUME NEW r \in RetRelease, RetRequest(r) PROVE Marked
      BY <1>1, <2>2 DEF RetRequest, Replacing, RowTyped, RetQuiet, AttemptInv, IdleRun, Created, Working, Deploying
    <2>3. CASE RetRecord
      BY <1>1, <2>3 DEF RetRecord, RowTyped, StateTyped, RunType, AttemptInv, CreatedInv, DueInv, Created, Working, Deploying
    <2>4. CASE RetFail \/ RetRollFails
      BY <1>1, <2>4 DEF RetFail, RetRollFails, RowTyped, StateTyped, RunType, AttemptInv, CreatedInv, DueInv, IdleRun, Created, Working, Deploying
    <2> QED
      BY <2>1, <2>2, <2>3, <2>4
  <1>5. \A r \in Created' : r \in RetRelease /\ (retStatus'[r] \in {"ACTIVE", "SUPERSEDED"} => r \in Created)
    BY <1>1, <1>4 DEF Created
  <1>6. Selected' = Selected
    BY <1>2 DEF Selected, Purging
  <1> QED
    BY <1>1, <1>2, <1>3, <1>4, <1>5, <1>6 DEF DueInv, Selected

(* A release goes live: the one it supersedes is up and no round has selected it. *)
LEMMA SwitchPrior ==
  ASSUME RetInv, PriorInv, RetQuiet, RetActivate \/ RetRolled, RetInv'
  PROVE  AttemptInv' /\ DueInv'
  <1> DEFINE n == retRun.rel
  <1>1. /\ RowTyped /\ StateTyped /\ CreatedInv /\ RunLockInv /\ AttemptInv /\ DueInv
        /\ Purging => retLock = "purge"
        /\ retActive # NoRelease =>
             retActive \notin retPurged /\ retActive \in retUp /\ retStatus[retActive] = "ACTIVE"
        /\ NoRelease \notin RetRelease /\ Created \subseteq RetRelease
    BY DEF RetInv, PriorInv, RetQuiet, KeepInv, Separate, NoRelease, RetRelease, Created
  <1>2. /\ Switched(n) /\ retRun.pc \in Working /\ retRun'.pc \in {"idle", "ending"}
        /\ UNCHANGED <<retAge, retPurged, retUp, retPurge, retEligible>>
    BY <1>1 DEF RetActivate, RetRolled, retRound, IdleRun, Working, Deploying, StateTyped, RunType
  <1>3. n \in Created /\ n \in RetRelease /\ ~Purging
    BY <1>1, <1>2 DEF CreatedInv, RunLockInv, Working, Deploying
  <1>4. \A r \in RetRelease : Due(r) => Due(r)'
    BY <1>1, <1>2, <1>3, DueGrows DEF Switched, StateTyped
  <1>5. /\ retActive' = n /\ retCandidate' = NoRelease /\ retLive' = retLive \cup {n}
        /\ ~Purging'
    BY <1>2, <1>3 DEF Switched, Purging
  <1>6. \A r \in RetRelease :
          /\ r = n => retStatus'[r] = "ACTIVE"
          /\ r # n /\ r = retActive => retStatus'[r] = "SUPERSEDED"
          /\ r # n /\ r # retActive => retStatus'[r] = retStatus[r]
    BY <1>2 DEF Switched
  <1>7. n \notin retEligible
    BY <1>1, <1>2 DEF AttemptInv, DueInv
  <1>8. \A r \in Created' : r \in RetRelease /\ r \in Created
    BY <1>1, <1>3, <1>6 DEF Created, CreatedInv
  <1> HIDE DEF n
  <1>9. AttemptInv'
    BY <1>2, <1>5 DEF AttemptInv, Working, Deploying
  <1>10. \A r \in Created' : retStatus'[r] \in {"ACTIVE", "SUPERSEDED"} => r \in retLive'
    BY <1>1, <1>5, <1>6, <1>8 DEF DueInv
  <1>11. retActive' \notin retEligible' /\ retCandidate' \notin retEligible'
    BY <1>1, <1>2, <1>5, <1>7 DEF StateTyped
  <1>12. \A r \in Selected' : retStatus'[r] = "SUPERSEDED" => Due(r)'
    <2>1. \A r \in Selected' : r \in Selected /\ r \in retEligible
      BY <1>2, <1>5 DEF Selected
    <2> QED
      BY <1>1, <1>2, <1>4, <1>6, <2>1 DEF DueInv, Selected
  <1>13. \A r \in Created' : retStatus'[r] = "SUPERSEDED" /\ ~Due(r)' => r \notin retPurged' /\ r \in retUp'
    BY <1>1, <1>2, <1>4, <1>6, <1>8 DEF DueInv
  <1> QED
    BY <1>5, <1>9, <1>10, <1>11, <1>12, <1>13 DEF DueInv

(* In the initial state there is no release to keep. *)
LEMMA PriorInit == RetInit => PriorInv
  BY DEF RetInit, PriorInv, AttemptInv, DueInv, Created, Purging, Selected, Working, Deploying

(* Every step keeps the releases that are not due. *)
LEMMA PriorStep == RetInv /\ RetInv' /\ PriorInv /\ [RetNext]_retVars => PriorInv'
  <1> SUFFICES ASSUME RetInv, RetInv', PriorInv, [RetNext]_retVars, RetQuiet'
               PROVE  AttemptInv' /\ DueInv'
    BY DEF PriorInv
  <1>1. retFaults' = retFaults
    BY DEF RetNext, RetStart, RetRecord, RetFail, RetActivate, RetAdd, RetRoll, RetRolled, RetRollFails, RetUnpin,
           RetDie, RetExpire, RetBegin, RetRequest,
           RetGrow, RetVisit, RetSelect, RetRemove, RetMark, RetPurgeFails, RetEndRound, RetLapse, retVars
  <1>2. RetQuiet /\ ~RetLapse
    BY <1>1 DEF RetQuiet, RetLapse
  <1> QED
    BY <1>2, PlainPrior, MarkPrior, SwitchPrior DEF RetNext, RetInv

(* A release among the newest is not due. *)
LEMMA PriorMeans == RetInv /\ PriorInv => PriorIsKept
  <1> SUFFICES ASSUME RetInv, PriorInv, RetQuiet, NEW r \in Created,
                      retStatus[r] = "SUPERSEDED", retAge[r] < 2,
                      Cardinality({s \in retLive : s > r}) < RetKeep
               PROVE  r \notin retPurged /\ Runtime(r) \in retUp
    BY DEF PriorIsKept, RetQuiet
  <1>1. IsFiniteSet(NewerLive(r))
    <2>1. IsFiniteSet(RetRelease)
      BY RetBounds, FS_Interval DEF RetRelease
    <2> QED
      BY <2>1, FS_Subset DEF NewerLive, RetInv, StateTyped
  <1>2. ~Due(r)
    BY <1>1, FS_CardinalityType, RetBounds DEF Due, NewerLive
  <1> QED
    BY <1>2 DEF PriorInv, DueInv, Runtime, RetQuiet

(* The releases that went live last stay available for a rollback for thirty days,
   whatever failed in between (maintenance-policy.ts, purgeRelease).        *)
THEOREM PriorKept == RetSpec => []PriorIsKept
  BY PriorInit, PriorStep, PriorMeans, RetInductive, PTL DEF RetSpec
==============================================================================
