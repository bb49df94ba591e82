---------------------- MODULE ReleaseActivation_proofs ----------------------
(***************************************************************************)
(* Proofs about ReleaseActivation for any number of deployments, rollback  *)
(* jobs, releases and attempts.                                            *)
(***************************************************************************)
EXTENDS ReleaseActivation, TLAPS

(* What the type invariant needs besides itself: a job that has not ended has
   an attempt left, the steps that add a release to a set of releases have
   one, and an API call has read what its kind says.                       *)
RunInv ==
  \A j \in Job :
    /\ job[j].pc \notin Ended => job[j].tries < MaxTries
    /\ job[j].pc \in {"replace", "start", "health", "record"} => job[j].rel \in Release

CallInv ==
  /\ call.kind = "rollback" => call.target \in Release
  /\ call.kind = "cancel" => call.target \in Deployment

TypeInv == TypeOK /\ RunInv /\ CallInv

(* Every step of a job leaves the other jobs alone. *)
LEMMA OthersUntouched ==
  ASSUME NEW j \in Job, Worker(j) \/ Crash(j), NEW k \in Job, k # j,
         job \in [Job -> JobState]
  PROVE  job'[k] = job[k]
<1>1. CASE PickUp(j)
  BY <1>1 DEF PickUp, Goto
<1>2. CASE Reconcile(j)
  BY <1>2 DEF Reconcile, NothingInterrupted, ReadInterrupted, Promote, ConfirmPromotion,
     PromotionFails, UndoPromotion, Restore, DetachStale, DropStale, Goto
<1>3. CASE Prepare(j)
  BY <1>3 DEF Prepare, BeginRelease, Replace, Start, Healthy, Unhealthy, RecordRuntime,
     PickCandidate, CandidateMissing, Goto, Throw
<1>4. CASE Activate(j)
  BY <1>4 DEF Activate, ReadActive, Connect, MarkActivating, BackUp, Canary, ProbePasses,
     ProbeFails, Switch, Commit, DetachOld, DropBackup, Link, Finish, Goto, Throw
<1>5. CASE Recover(j)
  BY <1>5 DEF Recover, UndoRoute, UndoDetach, MarkFailed, Clear, Unpin, Settle, Canceled,
     CommandFails, Goto, Throw
<1>6. CASE Crash(j)
  BY <1>6 DEF Crash
<1>7. QED
  BY <1>1, <1>2, <1>3, <1>4, <1>5, <1>6 DEF Worker

------------------------------------------------------------------------------
(* Every handler is a program point. *)
LEMMA HandlerType ==
  ASSUME NEW j \in Job, NEW err \in Error
  PROVE  Handler(j, err) \in {"undoRoute", "settle", "unpin", "clear", "markFailed"}
  BY DEF Handler

(* Moving a job to another program point keeps its record well typed; only
   the points that rely on a release need one.                             *)
LEMMA GotoType ==
  ASSUME job \in [Job -> JobState], RunInv, NEW j \in Job, job[j].pc \notin Ended,
         NEW pc \in Running \cup {"queued"}, Goto(j, pc),
         pc \in {"replace", "start", "health", "record"} => job[j].rel \in Release
  PROVE  job' \in [Job -> JobState] /\ RunInv'
<1>1. job'[j] = [job[j] EXCEPT !.pc = pc] /\ job[j] \in JobState
  BY DEF Goto
<1>2. job'[j] \in JobState
  BY <1>1 DEF JobState
<1>3. job' \in [Job -> JobState]
  BY <1>2 DEF Goto
<1>4. RunInv'
  BY <1>1, <1>3 DEF Goto, RunInv, JobState
<1>5. QED
  BY <1>3, <1>4

LEMMA ThrowType ==
  ASSUME job \in [Job -> JobState], RunInv, NEW j \in Job, job[j].pc \notin Ended,
         NEW err \in Error, Throw(j, err)
  PROVE  job' \in [Job -> JobState] /\ RunInv'
<1> DEFINE h == Handler(j, err)
<1>1. h \in {"undoRoute", "settle", "unpin", "clear", "markFailed"}
  BY HandlerType
<1>2. job' = [job EXCEPT ![j] = [job[j] EXCEPT !.pc = h, !.err = err]]
  BY DEF Throw
<1> HIDE DEF h
<1>3. h \in Running /\ h \notin {"replace", "start", "health", "record"}
  BY <1>1 DEF Running, Failing
<1>4. job[j] \in JobState
  OBVIOUS
<1>5. [job[j] EXCEPT !.pc = h, !.err = err] \in JobState
  BY <1>3, <1>4 DEF JobState
<1>6. job' \in [Job -> JobState]
  BY <1>2, <1>5
<1>7. /\ job'[j].pc = h /\ job'[j].tries = job[j].tries
      /\ \A k \in Job : k # j => job'[k] = job[k]
  BY <1>2, <1>4 DEF JobState
<1>8. RunInv'
  BY <1>3, <1>7 DEF RunInv
<1>9. QED
  BY <1>6, <1>8

(* The same for a step that rewrites more of the record. *)
LEMMA RecordType ==
  ASSUME job \in [Job -> JobState], RunInv, NEW j \in Job, NEW rec \in JobState,
         job' = [job EXCEPT ![j] = rec],
         rec.pc \notin Ended => rec.tries < MaxTries,
         rec.pc \in {"replace", "start", "health", "record"} => rec.rel \in Release
  PROVE  job' \in [Job -> JobState] /\ RunInv'
  BY DEF RunInv

(* The removal of a candidate's container settles the run with the error it
   had or with another.                                                    *)
LEMMA ClearSettles ==
  ASSUME NEW j \in Job, Clear(j)
  PROVE  \/ Goto(j, "settle")
         \/ \E err \in Error : job' = [job EXCEPT ![j].pc = "settle", ![j].err = err]
  BY DEF Clear, Error

(* The records of the jobs stay well typed. *)
LEMMA JobType ==
  ASSUME TypeInv, Next
  PROVE  job' \in [Job -> JobState] /\ RunInv'
<1> DEFINE Good == job' \in [Job -> JobState] /\ RunInv'
<1>t. job \in [Job -> JobState] /\ RunInv
  BY DEF TypeInv, TypeOK
<1>u. UNCHANGED job => Good
  BY <1>t DEF RunInv
<1>p. Running \cap Ended = {}
  BY DEF Running, Ended, Reconciling, Preparing, Rolling, Activating, Switching, Activated, Failing
<1>c. candidate \in Release \cup {None} /\ active \in Release \cup {None}
  BY DEF TypeInv, TypeOK
<1>1. ASSUME NEW d \in Deployment, RequestDeploy(d) PROVE Good
  <2>1. d \in Job
    BY DEF Job
  <2>2. QED
    BY <1>1, <1>t, <2>1, GotoType DEF RequestDeploy, At, Ended
<1>2. ASSUME NEW d \in Deployment, CheckCancel(d) PROVE Good
  BY <1>2, <1>u DEF CheckCancel
<1>3. ASSUME NEW r \in Release, ReadRollback(r) PROVE Good
  BY <1>3, <1>u DEF ReadRollback
<1>4. ASSUME NEW j \in Rollback, CommitRollback(j) PROVE Good
  <2> DEFINE rec == [job[j] EXCEPT !.pc = "queued", !.dep = owner[call.target]]
  <2>1. j \in Job /\ job[j] \in JobState /\ job[j].pc = "idle"
    BY <1>4, <1>t DEF Job, CommitRollback, At
  <2>2. owner[call.target] \in Deployment \cup {None}
    BY <1>4 DEF CommitRollback, TypeInv, CallInv, TypeOK
  <2>3. rec \in JobState /\ rec.pc = "queued" /\ rec.tries = job[j].tries
    BY <2>1, <2>2 DEF JobState
  <2>4. job' = [job EXCEPT ![j] = rec]
    BY <1>4 DEF CommitRollback
  <2>5. job[j].tries < MaxTries
    BY <2>1, <1>t DEF RunInv, Ended
  <2> HIDE DEF rec
  <2>6. QED
    BY <1>t, <2>1, <2>3, <2>4, <2>5, RecordType
<1>5. CASE CommitCancel
  BY <1>5, <1>u DEF CommitCancel
<1>6. CASE Lapse
  BY <1>6, <1>u DEF Lapse
<1>7. ASSUME NEW j \in Job, PickUp(j) PROVE Good
  BY <1>7, <1>t, GotoType DEF PickUp, At, Ended, Running, Rolling, Reconciling
<1>8. ASSUME NEW j \in Job, Reconcile(j) PROVE Good
  <2> USE <1>t DEF Running, Reconciling, Preparing, Ended, At
  <2>1. job[j] \in JobState /\ job[j].pc \notin Ended /\ job[j].tries < MaxTries
    BY <1>8 DEF Reconcile, NothingInterrupted, ReadInterrupted, Promote, ConfirmPromotion,
       PromotionFails, UndoPromotion, Restore, DetachStale, DropStale, RunInv
  <2>2. CASE NothingInterrupted(j) \/ Promote(j) \/ PromotionFails(j) \/ UndoPromotion(j)
             \/ Restore(j) \/ DetachStale(j)
    BY <2>2, <2>1, GotoType DEF NothingInterrupted, Promote, PromotionFails, UndoPromotion, Restore,
       DetachStale
  <2>3. CASE ReadInterrupted(j)
    <3> DEFINE pc == IF active # None THEN "restore"
                     ELSE IF candidate \in runtime THEN "promote" ELSE "detachStale"
               rec == [job[j] EXCEPT !.rel = candidate, !.act = active, !.pc = pc]
    <3>1. pc \in {"restore", "promote", "detachStale"}
      OBVIOUS
    <3>2. job' = [job EXCEPT ![j] = rec]
      BY <2>3 DEF ReadInterrupted
    <3>p. pc \in Running
      BY <3>1
    <3> HIDE DEF pc
    <3>j. job[j] \in JobState
      BY <2>1
    <3> HIDE DEF Running
    <3>3. rec \in JobState /\ rec.pc = pc /\ rec.tries = job[j].tries
      BY <3>j, <3>p, <1>c DEF JobState
    <3> HIDE DEF rec
    <3>4. QED
      BY <2>1, <3>1, <3>2, <3>3, RecordType
  <2>4. CASE ConfirmPromotion(j) \/ DropStale(j)
    <3> DEFINE rec == [job[j] EXCEPT !.pc = "begin", !.rel = None]
    <3>1. job' = [job EXCEPT ![j] = rec]
      BY <2>4 DEF ConfirmPromotion, DropStale
    <3>2. rec \in JobState /\ rec.pc = "begin" /\ rec.tries = job[j].tries
      BY <2>1 DEF JobState
    <3> HIDE DEF rec
    <3>3. QED
      BY <2>1, <3>1, <3>2, RecordType
  <2>5. QED
    BY <1>8, <2>2, <2>3, <2>4 DEF Reconcile
<1>9. ASSUME NEW j \in Job, Prepare(j) PROVE Good
  <2> USE <1>t DEF Running, Rolling, Preparing, Activating, Ended, At
  <2>1. job[j] \in JobState /\ job[j].pc \notin Ended /\ job[j].tries < MaxTries
    BY <1>9 DEF Prepare, BeginRelease, Replace, Start, Healthy, Unhealthy, RecordRuntime,
       PickCandidate, CandidateMissing, RunInv
  <2>2. CASE Replace(j) \/ Start(j) \/ RecordRuntime(j)
    BY <2>2, <2>1, GotoType DEF Replace, Start, RecordRuntime, RunInv
  <2>3. CASE Healthy(j)
    <3>1. job[j].rel \in Release
      BY <2>3 DEF Healthy, TypeInv, TypeOK
    <3>2. QED
      BY <2>3, <2>1, <3>1, GotoType DEF Healthy
  <2>4. CASE Unhealthy(j) \/ CandidateMissing(j)
    BY <2>4, <2>1, ThrowType DEF Unhealthy, CandidateMissing, Error
  <2>5. CASE BeginRelease(j)
    <3>1. PICK r \in Unused : job' = [job EXCEPT ![j].pc = "replace", ![j].rel = r]
      BY <2>5 DEF BeginRelease
    <3> DEFINE rec == [job[j] EXCEPT !.pc = "replace", !.rel = r]
    <3>2. r \in Release /\ job' = [job EXCEPT ![j] = rec]
      BY <3>1 DEF Unused
    <3>3. rec \in JobState /\ rec.rel = r /\ rec.tries = job[j].tries
      BY <2>1, <3>2 DEF JobState
    <3> HIDE DEF rec
    <3>4. QED
      BY <2>1, <3>2, <3>3, RecordType
  <2>6. CASE PickCandidate(j)
    <3> DEFINE rec == [job[j] EXCEPT !.pc = "recheck", !.rel = candidate]
    <3>1. job' = [job EXCEPT ![j] = rec]
      BY <2>6 DEF PickCandidate
    <3>2. rec \in JobState /\ rec.pc = "recheck" /\ rec.tries = job[j].tries
      BY <2>1, <1>c DEF JobState
    <3> HIDE DEF rec
    <3>3. QED
      BY <2>1, <3>1, <3>2, RecordType
  <2>7. QED
    BY <1>9, <2>2, <2>3, <2>4, <2>5, <2>6 DEF Prepare
<1>10. ASSUME NEW j \in Job, Activate(j) PROVE Good
  <2> USE <1>t DEF Running, Activating, Switching, Activated, Ended, At
  <2>1. job[j] \in JobState /\ job[j].pc \notin Ended /\ job[j].tries < MaxTries
    BY <1>10 DEF Activate, ReadActive, Connect, MarkActivating, BackUp, Canary, ProbePasses,
       ProbeFails, Switch, Commit, DetachOld, DropBackup, Link, Finish, RunInv
  <2>2. CASE Connect(j) \/ MarkActivating(j) \/ BackUp(j) \/ Canary(j) \/ ProbePasses(j)
             \/ Switch(j) \/ Commit(j) \/ DetachOld(j) \/ DropBackup(j) \/ Link(j)
    BY <2>2, <2>1, GotoType DEF Connect, MarkActivating, BackUp, Canary, ProbePasses, Switch,
       Commit, DetachOld, DropBackup, Link
  <2>3. CASE ProbeFails(j)
    BY <2>3, <2>1, ThrowType DEF ProbeFails, Error
  <2>4. CASE ReadActive(j)
    <3> DEFINE rec == [job[j] EXCEPT !.pc = "connect", !.act = active]
    <3>1. job' = [job EXCEPT ![j] = rec]
      BY <2>4 DEF ReadActive
    <3>2. rec \in JobState /\ rec.pc = "connect" /\ rec.tries = job[j].tries
      BY <2>1, <1>c DEF JobState
    <3> HIDE DEF rec
    <3>3. QED
      BY <2>1, <3>1, <3>2, RecordType
  <2>5. CASE Finish(j)
    <3>1. \/ job' = [job EXCEPT ![j] = [job[j] EXCEPT !.pc = "done"]]
          \/ job' = [job EXCEPT ![j] = [job[j] EXCEPT !.pc = "failed", !.err = "final"]]
      BY <2>5 DEF Finish, Goto
    <3>2. /\ [job[j] EXCEPT !.pc = "done"] \in JobState
          /\ [job[j] EXCEPT !.pc = "failed", !.err = "final"] \in JobState
      BY <2>1 DEF JobState, Error
    <3>3. /\ [job[j] EXCEPT !.pc = "done"].pc = "done"
          /\ [job[j] EXCEPT !.pc = "failed", !.err = "final"].pc = "failed"
      BY <2>1 DEF JobState
    <3>4. QED
      BY <3>1, <3>2, <3>3, <2>1, RecordType
  <2>6. QED
    BY <1>10, <2>2, <2>3, <2>4, <2>5 DEF Activate
<1>11. ASSUME NEW j \in Job, Recover(j) PROVE Good
  <2> USE <1>t DEF At
  <2>1. job[j] \in JobState /\ job[j].pc \in Running
    BY <1>11 DEF Recover, UndoRoute, UndoDetach, MarkFailed, Clear, Unpin, Settle, Canceled,
       CommandFails, Checked, Unchecked, Running, Failing, Reconciling, Preparing, Rolling, Activating,
       Switching, Activated
  <2>2. job[j].pc \notin Ended /\ job[j].tries < MaxTries
    BY <2>1, <1>p DEF RunInv
  <2>3. CASE UndoRoute(j) \/ UndoDetach(j) \/ MarkFailed(j) \/ Unpin(j) \/ Goto(j, "settle")
    BY <2>3, <2>2, GotoType DEF UndoRoute, UndoDetach, MarkFailed, Unpin, Running, Failing
  <2>4. CASE Canceled(j) \/ CommandFails(j)
    BY <2>4, <2>2, ThrowType DEF Canceled, CommandFails, Error
  <2>5. CASE Settle(j)
    <3> DEFINE again == job[j].err = "transient" /\ job[j].tries + 1 < MaxTries
               pc == IF again THEN "queued"
                     ELSE IF job[j].err = "cancel" THEN "canceled" ELSE "failed"
               rec == [job[j] EXCEPT !.pc = pc, !.tries = @ + 1, !.rel = None, !.act = None,
                         !.err = "none"]
    <3>1. job' = [job EXCEPT ![j] = rec]
      BY <2>5 DEF Settle
    <3>2. pc \in {"queued", "canceled", "failed"} /\ (pc = "queued" => job[j].tries + 1 < MaxTries)
      OBVIOUS
    <3> HIDE DEF pc
    <3>3. job[j].tries \in 0..MaxTries /\ job[j].tries + 1 \in 0..MaxTries
      BY <2>1, <2>2, BoundAssumption DEF BoundAssumption, JobState
    <3>4. rec \in JobState /\ rec.pc = pc /\ rec.tries = job[j].tries + 1
      BY <2>1, <3>2, <3>3 DEF JobState, Ended, Error
    <3> HIDE DEF rec
    <3>5. QED
      BY <3>1, <3>2, <3>4, RecordType DEF Ended
  <2>6. ASSUME NEW err \in Error, job' = [job EXCEPT ![j].pc = "settle", ![j].err = err] PROVE Good
    <3> DEFINE rec == [job[j] EXCEPT !.pc = "settle", !.err = err]
    <3>1. job' = [job EXCEPT ![j] = rec]
      BY <2>6
    <3>2. "settle" \in Running
      BY DEF Running, Failing
    <3> HIDE DEF Running
    <3>3. rec \in JobState /\ rec.pc = "settle" /\ rec.tries = job[j].tries
      BY <2>1, <2>6, <3>2 DEF JobState
    <3> HIDE DEF rec
    <3>4. QED
      BY <2>2, <3>1, <3>3, RecordType
  <2>7. QED
    BY <1>11, <2>3, <2>4, <2>5, <2>6, ClearSettles DEF Recover
<1>12. ASSUME NEW j \in Job, Crash(j) PROVE Good
  <2> DEFINE pc == IF job[j].stalls = 0 THEN "queued" ELSE "stalled"
             rec == [job[j] EXCEPT !.pc = pc, !.stalls = 1, !.rel = None, !.act = None,
                       !.err = "none"]
  <2>1. job' = [job EXCEPT ![j] = rec]
    BY <1>12 DEF Crash
  <2>2. pc \in {"queued", "stalled"}
    OBVIOUS
  <2> HIDE DEF pc
  <2>3. job[j] \in JobState /\ job[j].tries < MaxTries
    BY <1>12, <1>t, <1>p DEF Crash, RunInv
  <2>4. pc \in {"idle", "queued"} \cup Running \cup Ended
    BY <2>2 DEF Ended
  <2>4a. "none" \in Error /\ 1 \in 0..1
    BY DEF Error
  <2>4b. rec \in JobState /\ rec.pc = pc /\ rec.tries = job[j].tries
    BY <2>3, <2>4, <2>4a DEF JobState
  <2> HIDE DEF rec
  <2>5. QED
    BY <1>t, <2>1, <2>2, <2>3, <2>4b, RecordType
<1>13. QED
  BY <1>1, <1>2, <1>3, <1>4, <1>5, <1>6, <1>7, <1>8, <1>9, <1>10, <1>11, <1>12
     DEF Next, Api, Worker

------------------------------------------------------------------------------
(* The three stores, the lock, the API call and the cancellation keys. *)
StoreOK ==
  /\ status \in [Release -> ReleaseStatus]
  /\ owner \in [Release -> Deployment \cup {None}]
  /\ runtime \subseteq Release /\ pinned \subseteq Release /\ verified \subseteq Release
  /\ up \subseteq Release /\ attached \subseteq up
  /\ {active, candidate, route, backup} \subseteq Release \cup {None}
  /\ lock \in Job \cup {None}
  /\ call \in [kind : {"none", "rollback", "cancel"},
               target : Release \cup Deployment \cup {None}, seen : Release \cup {None}]
  /\ cancelKey \subseteq Deployment

LEMMA StoreType ==
  ASSUME TypeInv, Next
  PROVE  StoreOK' /\ CallInv'
<1> DEFINE Good == StoreOK' /\ CallInv'
<1>t. StoreOK /\ CallInv /\ RunInv /\ job \in [Job -> JobState]
  BY DEF TypeInv, TypeOK, StoreOK
<1>s. {"BUILDING", "CANDIDATE", "READY", "ACTIVATING", "ACTIVE", "SUPERSEDED", "FAILED"}
        \subseteq ReleaseStatus
  BY DEF ReleaseStatus
<1>j. ASSUME NEW j \in Job
      PROVE  /\ job[j].rel \in Release \cup {None} /\ job[j].act \in Release \cup {None}
             /\ job[j].dep \in Deployment \cup {None}
  BY <1>t DEF JobState
<1> USE <1>t DEF StoreOK, CallInv, database, vps
<1>1. ASSUME NEW d \in Deployment, RequestDeploy(d) \/ CheckCancel(d) PROVE Good
  BY <1>1 DEF RequestDeploy, CheckCancel
<1>2. ASSUME NEW r \in Release, ReadRollback(r) PROVE Good
  BY <1>2 DEF ReadRollback
<1>3. ASSUME NEW j \in Rollback, CommitRollback(j) PROVE Good
  BY <1>3, <1>s DEF CommitRollback, NoCall
<1>4. CASE CommitCancel
  BY <1>4 DEF CommitCancel, NoCall
<1>5. CASE Lapse
  BY <1>5 DEF Lapse
<1>6. ASSUME NEW j \in Job, PickUp(j) PROVE Good
  BY <1>6 DEF PickUp
<1>7. ASSUME NEW j \in Job, Reconcile(j) PROVE Good
  <2>1. CASE NothingInterrupted(j) \/ ReadInterrupted(j) \/ PromotionFails(j)
    BY <2>1 DEF NothingInterrupted, ReadInterrupted, PromotionFails
  <2>2. CASE Promote(j) \/ UndoPromotion(j) \/ Restore(j) \/ DetachStale(j)
    BY <2>2, <1>j DEF Promote, UndoPromotion, Restore, DetachStale, Attach
  <2>3. CASE ConfirmPromotion(j)
    BY <2>3, <1>j, <1>s DEF ConfirmPromotion
  <2>4. CASE DropStale(j)
    BY <2>4, <1>j, <1>s DEF DropStale
  <2>5. QED
    BY <1>7, <2>1, <2>2, <2>3, <2>4 DEF Reconcile
<1>8. ASSUME NEW j \in Job, Prepare(j) PROVE Good
  <2>1. CASE BeginRelease(j)
    BY <2>1, <1>j, <1>s DEF BeginRelease, Unused
  <2>2. CASE Replace(j)
    BY <2>2 DEF Replace, Remove
  <2>3. CASE Start(j)
    BY <2>3 DEF Start, At, RunInv
  <2>4. CASE Healthy(j) \/ Unhealthy(j) \/ PickCandidate(j) \/ CandidateMissing(j)
    BY <2>4 DEF Healthy, Unhealthy, PickCandidate, CandidateMissing
  <2>5. CASE RecordRuntime(j)
    BY <2>5, <1>s DEF RecordRuntime, At, RunInv
  <2>6. QED
    BY <1>8, <2>1, <2>2, <2>3, <2>4, <2>5 DEF Prepare
<1>9. ASSUME NEW j \in Job, Activate(j) PROVE Good
  <2>1. CASE ReadActive(j) \/ MarkActivating(j)
    BY <2>1, <1>s DEF ReadActive, MarkActivating
  <2>2. CASE Connect(j) \/ BackUp(j) \/ Canary(j) \/ Switch(j)
    BY <2>2, <1>j DEF Connect, BackUp, Canary, Switch, Attach
  <2>3. CASE ProbePasses(j) \/ ProbeFails(j) \/ DetachOld(j) \/ DropBackup(j) \/ Link(j)
    BY <2>3 DEF ProbePasses, ProbeFails, DetachOld, DropBackup, Link
  <2>4. CASE Commit(j)
    BY <2>4, <1>j, <1>s DEF Commit
  <2>5. CASE Finish(j)
    BY <2>5 DEF Finish
  <2>6. QED
    BY <1>9, <2>1, <2>2, <2>3, <2>4, <2>5 DEF Activate
<1>10. ASSUME NEW j \in Job, Recover(j) PROVE Good
  <2>1. CASE UndoRoute(j) \/ UndoDetach(j) \/ Unpin(j) \/ Settle(j)
    BY <2>1 DEF UndoRoute, UndoDetach, Unpin, Settle
  <2>2. CASE MarkFailed(j)
    BY <2>2, <1>s DEF MarkFailed
  <2>3. CASE Clear(j)
    BY <2>3 DEF Clear, Remove
  <2>4. CASE Canceled(j) \/ CommandFails(j)
    BY <2>4 DEF Canceled, CommandFails
  <2>5. QED
    BY <1>10, <2>1, <2>2, <2>3, <2>4 DEF Recover
<1>11. ASSUME NEW j \in Job, Crash(j) PROVE Good
  BY <1>11 DEF Crash
<1>12. QED
  BY <1>1, <1>2, <1>3, <1>4, <1>5, <1>6, <1>7, <1>8, <1>9, <1>10, <1>11 DEF Next, Api, Worker

(* The invariant of the types is inductive. *)
THEOREM TypesInductive == Spec => []TypeInv
<1>1. Init => TypeInv
  BY BoundAssumption, NoneAssumption DEF Init, TypeInv, TypeOK, RunInv, CallInv, JobState, NoJob,
     NoCall, ReleaseStatus, Error, BoundAssumption, Job
<1>2. TypeInv /\ [Next]_vars => TypeInv'
  <2> SUFFICES ASSUME TypeInv, [Next]_vars PROVE TypeInv'
    OBVIOUS
  <2>1. CASE Next
    BY <2>1, JobType, StoreType DEF TypeInv, TypeOK, StoreOK
  <2>2. CASE UNCHANGED vars
    BY <2>2 DEF vars, database, vps, TypeInv, TypeOK, RunInv, CallInv
  <2>3. QED
    BY <2>1, <2>2
<1>3. QED
  BY <1>1, <1>2, PTL DEF Spec

(* Type correctness: of the records of the runs, the releases, the three
   stores on the VPS and the API calls, under every fault.                 *)
THEOREM TypeCorrect == Spec => []TypeOK
<1>1. TypeInv => TypeOK
  BY DEF TypeInv
<1>2. QED
  BY <1>1, TypesInductive, PTL

------------------------------------------------------------------------------
(* OneActive is not inductive: commit supersedes the release that the run  *)
(* read several steps before, and a promotion relies on there being none.  *)
(* What makes the difference is that the active release cannot change in   *)
(* between, because only the run that holds the project lock changes it.   *)

LockInv == \A j \in Job : job[j].pc \in Running => lock = j

(* From the read of the active release to the commit. *)
Reading == {"connect", "mark", "backup", "canary", "probe", "switch", "confirm", "commit"}

Promoting == {"promote", "confirmPromotion"}

ActiveRead(j) ==
  /\ job[j].pc \in Promoting => active = None
  /\ job[j].pc \in Reading => job[j].act = active

ActInv == \A j \in Job : ActiveRead(j)

OneActiveInv == TypeInv /\ LockInv /\ ActInv /\ OneActive

(* While a job moves, no other is between its pick-up and its end. *)
LEMMA RunsAlone ==
  ASSUME LockInv, NEW j \in Job, Worker(j) \/ Crash(j), NEW k \in Job, k # j
  PROVE  job[k].pc \notin Running
<1>n. j # None /\ k # None
  BY NoneAssumption
<1>1. CASE PickUp(j)
  BY <1>1, <1>n DEF PickUp, LockInv
<1>2. CASE job[j].pc \in Running
  BY <1>2 DEF LockInv
<1>3. CASE ~PickUp(j) /\ job[j].pc \notin Running
  BY <1>3 DEF Worker, Crash, Reconcile, NothingInterrupted, ReadInterrupted, Promote,
     ConfirmPromotion, PromotionFails, UndoPromotion, Restore, DetachStale, DropStale,
     Prepare, BeginRelease, Replace, Start, Healthy, Unhealthy, RecordRuntime,
     PickCandidate, CandidateMissing, Activate, ReadActive, Connect, MarkActivating, BackUp,
     Canary, ProbePasses, ProbeFails, Switch, Commit, DetachOld, DropBackup, Link, Finish,
     Recover, UndoRoute, UndoDetach, MarkFailed, Clear, Unpin, Settle, Canceled, CommandFails,
     At, Checked, Unchecked, Running, Reconciling, Preparing, Rolling, Activating, Switching, Activated,
     Failing
<1>4. QED
  BY <1>1, <1>2, <1>3

LEMMA GotoFields ==
  ASSUME job \in [Job -> JobState], NEW j \in Job, NEW pc, Goto(j, pc)
  PROVE  job'[j].pc = pc /\ job'[j].act = job[j].act
  BY DEF Goto, JobState

LEMMA ThrowFields ==
  ASSUME job \in [Job -> JobState], NEW j \in Job, NEW err \in Error, Throw(j, err)
  PROVE  job'[j].pc \in Failing
<1> DEFINE h == Handler(j, err)
<1>1. h \in Failing
  BY HandlerType DEF Failing
<1>2. job' = [job EXCEPT ![j] = [job[j] EXCEPT !.pc = h, !.err = err]]
  BY DEF Throw
<1> HIDE DEF h
<1>3. job[j] \in JobState
  OBVIOUS
<1>4. job'[j].pc = h
  BY <1>2, <1>3 DEF JobState
<1>5. QED
  BY <1>1, <1>4

(* The run that moves holds the lock as long as it runs ... *)
LEMMA RunnerHoldsLock ==
  ASSUME TypeInv, LockInv, NEW j \in Job, Worker(j) \/ Crash(j)
  PROVE  job'[j].pc \in Running => lock' = j
<1>t. job \in [Job -> JobState] /\ job[j] \in JobState
  BY DEF TypeInv, TypeOK
<1>d. Running \cap (Ended \cup {"queued"}) = {}
  BY DEF Running, Ended, Reconciling, Preparing, Rolling, Activating, Switching, Activated, Failing
<1>1. CASE PickUp(j)
  BY <1>1 DEF PickUp
<1>2. CASE lock' = lock /\ job[j].pc \in Running
  BY <1>2 DEF LockInv
<1>3. CASE Finish(j)
  <2>1. CASE lock = j
    <3>1. Goto(j, "done")
      BY <1>3, <2>1 DEF Finish
    <3>2. job'[j].pc = "done"
      BY <1>t, <3>1, GotoFields
    <3>3. QED
      BY <1>d, <3>2 DEF Ended
  <2>2. CASE lock # j
    BY <1>3, <2>2, <1>2 DEF Finish, At, LockInv, Running, Activated
  <2>3. QED
    BY <2>1, <2>2
<1>4. CASE Settle(j)
  <2> DEFINE again == job[j].err = "transient" /\ job[j].tries + 1 < MaxTries
             pc == IF again THEN "queued"
                   ELSE IF job[j].err = "cancel" THEN "canceled" ELSE "failed"
  <2>1. pc \in {"queued", "canceled", "failed"}
    OBVIOUS
  <2>2. job' = [job EXCEPT ![j] = [job[j] EXCEPT !.pc = pc, !.tries = @ + 1, !.rel = None,
                                     !.act = None, !.err = "none"]]
    BY <1>4 DEF Settle
  <2> HIDE DEF pc
  <2>3. job'[j].pc = pc
    BY <2>2, <1>t DEF JobState
  <2>4. QED
    BY <1>d, <2>1, <2>3 DEF Ended
<1>5. CASE Crash(j)
  <2> DEFINE pc == IF job[j].stalls = 0 THEN "queued" ELSE "stalled"
  <2>1. pc \in {"queued", "stalled"}
    OBVIOUS
  <2>2. job' = [job EXCEPT ![j] = [job[j] EXCEPT !.pc = pc, !.stalls = 1, !.rel = None,
                                     !.act = None, !.err = "none"]]
    BY <1>5 DEF Crash
  <2> HIDE DEF pc
  <2>3. job'[j].pc = pc
    BY <2>2, <1>t DEF JobState
  <2>4. QED
    BY <1>d, <2>1, <2>3 DEF Ended
<1>6. CASE Reconcile(j) \/ Prepare(j)
  BY <1>6, <1>2 DEF Reconcile, NothingInterrupted, ReadInterrupted, Promote,
     ConfirmPromotion, PromotionFails, UndoPromotion, Restore, DetachStale, DropStale,
     Prepare, BeginRelease, Replace, Start, Healthy, Unhealthy, RecordRuntime,
     PickCandidate, CandidateMissing, At, Running, Reconciling, Preparing, Rolling
<1>7. CASE Activate(j)
  BY <1>7, <1>2, <1>3 DEF Activate, ReadActive, Connect, MarkActivating, BackUp,
     Canary, ProbePasses, ProbeFails, Switch, Commit, DetachOld, DropBackup, Link,
     At, Running, Activating, Switching, Activated
<1>8. CASE Recover(j)
  BY <1>8, <1>2, <1>4 DEF Recover, UndoRoute, UndoDetach, MarkFailed, Clear, Unpin, Canceled,
     CommandFails, Checked, Unchecked, At, Running, Reconciling, Preparing, Rolling, Activating, Switching,
     Activated, Failing
<1>9. QED
  BY <1>1, <1>5, <1>6, <1>7, <1>8 DEF Worker

(* ... and the active release it has read stays the active release. *)
LEMMA RunnerKeepsActive ==
  ASSUME TypeInv, ActInv, NEW j \in Job, Worker(j) \/ Crash(j)
  PROVE  ActiveRead(j)'
<1>t. job \in [Job -> JobState] /\ job[j] \in JobState
  BY DEF TypeInv, TypeOK
<1>a. ActiveRead(j)
  BY DEF ActInv
<1>o. job'[j].pc \notin Promoting \cup Reading => ActiveRead(j)'
  BY DEF ActiveRead
<1>f. Failing \cap (Promoting \cup Reading) = {}
  BY DEF Failing, Promoting, Reading
<1>g. ASSUME NEW pc, Goto(j, pc), pc \notin Promoting \cup Reading PROVE ActiveRead(j)'
  BY <1>g, <1>t, <1>o, GotoFields
<1>h. ASSUME NEW err \in Error, Throw(j, err) PROVE ActiveRead(j)'
  BY <1>h, <1>t, <1>o, <1>f, ThrowFields
<1>k. ASSUME NEW pc \in Reading, Goto(j, pc), active' = active, job[j].pc \in Reading
      PROVE  ActiveRead(j)'
  <2>1. job'[j].pc = pc /\ job'[j].act = job[j].act
    BY <1>k, <1>t, GotoFields
  <2>2. QED
    BY <2>1, <1>k, <1>a DEF ActiveRead, Reading, Promoting
<1> USE DEF database
<1>1. CASE PickUp(j)
  BY <1>1, <1>g DEF PickUp, Promoting, Reading
<1>2. CASE Reconcile(j)
  <2>1. CASE NothingInterrupted(j) \/ PromotionFails(j) \/ UndoPromotion(j) \/ Restore(j)
             \/ DetachStale(j)
    BY <2>1, <1>g DEF NothingInterrupted, PromotionFails, UndoPromotion, Restore, DetachStale,
       Promoting, Reading
  <2>2. CASE ReadInterrupted(j)
    <3> DEFINE pc == IF active # None THEN "restore"
                     ELSE IF candidate \in runtime THEN "promote" ELSE "detachStale"
    <3>1. job' = [job EXCEPT ![j] = [job[j] EXCEPT !.rel = candidate, !.act = active, !.pc = pc]]
      BY <2>2 DEF ReadInterrupted
    <3>2. pc \notin Reading /\ (pc \in Promoting => active = None)
      BY DEF Reading, Promoting
    <3> HIDE DEF pc
    <3>3. job'[j].pc = pc
      BY <3>1, <1>t DEF JobState
    <3>4. active' = active
      BY <2>2 DEF ReadInterrupted
    <3>5. QED
      BY <3>2, <3>3, <3>4 DEF ActiveRead
  <2>3. CASE Promote(j)
    <3>1. job'[j].pc = "confirmPromotion"
      BY <2>3, <1>t, GotoFields DEF Promote
    <3>2. active' = active /\ active = None
      BY <2>3, <1>a DEF Promote, ActiveRead, At, Promoting
    <3>3. QED
      BY <3>1, <3>2 DEF ActiveRead, Reading
  <2>4. CASE ConfirmPromotion(j) \/ DropStale(j)
    <3>1. job' = [job EXCEPT ![j] = [job[j] EXCEPT !.pc = "begin", !.rel = None]]
      BY <2>4 DEF ConfirmPromotion, DropStale
    <3>2. job'[j].pc = "begin"
      BY <3>1, <1>t DEF JobState
    <3>3. QED
      BY <3>2, <1>o DEF Promoting, Reading
  <2>5. QED
    BY <1>2, <2>1, <2>2, <2>3, <2>4 DEF Reconcile
<1>3. CASE Prepare(j)
  <2>1. CASE Replace(j) \/ Start(j) \/ Healthy(j) \/ RecordRuntime(j)
    BY <2>1, <1>g DEF Replace, Start, Healthy, RecordRuntime, Promoting, Reading
  <2>2. CASE Unhealthy(j) \/ CandidateMissing(j)
    BY <2>2, <1>h DEF Unhealthy, CandidateMissing, Error
  <2>3. CASE BeginRelease(j)
    <3>1. PICK r \in Unused : job' = [job EXCEPT ![j] = [job[j] EXCEPT !.pc = "replace", !.rel = r]]
      BY <2>3 DEF BeginRelease
    <3>2. job'[j].pc = "replace"
      BY <3>1, <1>t DEF JobState
    <3>3. QED
      BY <3>2, <1>o DEF Promoting, Reading
  <2>4. CASE PickCandidate(j)
    <3>1. job' = [job EXCEPT ![j] = [job[j] EXCEPT !.pc = "recheck", !.rel = candidate]]
      BY <2>4 DEF PickCandidate
    <3>2. job'[j].pc = "recheck"
      BY <3>1, <1>t DEF JobState
    <3>3. QED
      BY <3>2, <1>o DEF Promoting, Reading
  <2>5. QED
    BY <1>3, <2>1, <2>2, <2>3, <2>4 DEF Prepare
<1>4. CASE Activate(j)
  <2>1. CASE ReadActive(j)
    <3>1. job' = [job EXCEPT ![j] = [job[j] EXCEPT !.pc = "connect", !.act = active]]
      BY <2>1 DEF ReadActive
    <3>2. job'[j].pc = "connect" /\ job'[j].act = active
      BY <3>1, <1>t DEF JobState
    <3>3. active' = active
      BY <2>1 DEF ReadActive
    <3>4. QED
      BY <3>2, <3>3 DEF ActiveRead, Promoting
  <2>2. CASE Connect(j) \/ MarkActivating(j) \/ BackUp(j) \/ Canary(j) \/ ProbePasses(j)
             \/ Switch(j)
    BY <2>2, <1>k DEF Connect, MarkActivating, BackUp, Canary, ProbePasses, Switch, At, Reading
  <2>3. CASE ProbeFails(j)
    BY <2>3, <1>h DEF ProbeFails, Error
  <2>4. CASE Commit(j) \/ DetachOld(j) \/ DropBackup(j) \/ Link(j)
    BY <2>4, <1>g DEF Commit, DetachOld, DropBackup, Link, Promoting, Reading
  <2>5. CASE Finish(j)
    <3>1. \/ job' = [job EXCEPT ![j] = [job[j] EXCEPT !.pc = "done"]]
          \/ job' = [job EXCEPT ![j] = [job[j] EXCEPT !.pc = "failed", !.err = "final"]]
      BY <2>5 DEF Finish, Goto
    <3>2. job'[j].pc \in {"done", "failed"}
      BY <3>1, <1>t DEF JobState
    <3>3. QED
      BY <3>2, <1>o DEF Promoting, Reading
  <2>6. QED
    BY <1>4, <2>1, <2>2, <2>3, <2>4, <2>5 DEF Activate
<1>5. CASE Recover(j)
  <2>1. CASE UndoRoute(j) \/ UndoDetach(j) \/ MarkFailed(j) \/ Unpin(j) \/ Goto(j, "settle")
    BY <2>1, <1>g DEF UndoRoute, UndoDetach, MarkFailed, Unpin, Promoting, Reading
  <2>2. CASE Canceled(j) \/ CommandFails(j)
    BY <2>2, <1>h DEF Canceled, CommandFails, Error
  <2>3. CASE Settle(j)
    <3> DEFINE again == job[j].err = "transient" /\ job[j].tries + 1 < MaxTries
               pc == IF again THEN "queued"
                     ELSE IF job[j].err = "cancel" THEN "canceled" ELSE "failed"
    <3>1. pc \notin Promoting \cup Reading
      BY DEF Promoting, Reading
    <3>2. job' = [job EXCEPT ![j] = [job[j] EXCEPT !.pc = pc, !.tries = @ + 1, !.rel = None,
                                       !.act = None, !.err = "none"]]
      BY <2>3 DEF Settle
    <3> HIDE DEF pc
    <3>3. job'[j].pc = pc
      BY <3>2, <1>t DEF JobState
    <3>4. QED
      BY <3>1, <3>3, <1>o
  <2>4. ASSUME NEW err \in Error, job' = [job EXCEPT ![j].pc = "settle", ![j].err = err]
        PROVE  ActiveRead(j)'
    <3>1. job' = [job EXCEPT ![j] = [job[j] EXCEPT !.pc = "settle", !.err = err]]
      BY <2>4
    <3>2. job'[j].pc = "settle"
      BY <3>1, <1>t DEF JobState
    <3>3. QED
      BY <3>2, <1>o DEF Promoting, Reading
  <2>5. QED
    BY <1>5, <2>1, <2>2, <2>3, <2>4, ClearSettles DEF Recover
<1>6. CASE Crash(j)
  <2> DEFINE pc == IF job[j].stalls = 0 THEN "queued" ELSE "stalled"
  <2>1. pc \notin Promoting \cup Reading
    BY DEF Promoting, Reading
  <2>2. job' = [job EXCEPT ![j] = [job[j] EXCEPT !.pc = pc, !.stalls = 1, !.rel = None,
                                     !.act = None, !.err = "none"]]
    BY <1>6 DEF Crash
  <2> HIDE DEF pc
  <2>3. job'[j].pc = pc
    BY <2>2, <1>t DEF JobState
  <2>4. QED
    BY <2>1, <2>3, <1>o
<1>7. QED
  BY <1>1, <1>2, <1>3, <1>4, <1>5, <1>6 DEF Worker

(* With that the only two steps that make a release ACTIVE leave no other. *)
LEMMA RunnerKeepsOneActive ==
  ASSUME TypeInv, ActInv, OneActive, NEW j \in Job, Worker(j) \/ Crash(j)
  PROVE  OneActive'
<1>t. status \in [Release -> ReleaseStatus] /\ active \in Release \cup {None} /\ None \notin Release
  BY NoneAssumption DEF TypeInv, TypeOK
<1>a. ActiveRead(j)
  BY DEF ActInv
<1> USE DEF database
<1>u. CASE UNCHANGED <<status, active>>
  BY <1>u DEF OneActive
<1>w. ASSUME NEW r, NEW st \in ReleaseStatus \ {"ACTIVE"}, status' = [status EXCEPT ![r] = st],
             active' = active
      PROVE  OneActive'
  BY <1>w, <1>t DEF OneActive
<1>1. CASE ConfirmPromotion(j)
  <2>1. active = None
    BY <1>1, <1>a DEF ConfirmPromotion, At, ActiveRead, Promoting
  <2>2. QED
    BY <1>1, <1>t, <2>1 DEF ConfirmPromotion, OneActive
<1>2. CASE Commit(j)
  <2>1. job[j].act = active
    BY <1>2, <1>a DEF Commit, At, ActiveRead, Reading
  <2>2. QED
    BY <1>2, <1>t, <2>1 DEF Commit, OneActive
<1>3. CASE DropStale(j) \/ RecordRuntime(j) \/ ReadActive(j) \/ MarkActivating(j) \/ MarkFailed(j)
  BY <1>3, <1>w DEF DropStale, RecordRuntime, ReadActive, MarkActivating, MarkFailed, ReleaseStatus
<1>4. CASE BeginRelease(j)
  BY <1>4, <1>t DEF BeginRelease, OneActive
<1>5. CASE PickUp(j) \/ Crash(j)
  BY <1>5, <1>u DEF PickUp, Crash
<1>6. CASE Reconcile(j)
  BY <1>6, <1>u, <1>1, <1>3 DEF Reconcile, NothingInterrupted, ReadInterrupted, Promote,
     PromotionFails, UndoPromotion, Restore, DetachStale
<1>7. CASE Prepare(j)
  BY <1>7, <1>u, <1>3, <1>4 DEF Prepare, Replace, Start, Healthy, Unhealthy, PickCandidate,
     CandidateMissing
<1>8. CASE Activate(j)
  BY <1>8, <1>u, <1>2, <1>3 DEF Activate, Connect, BackUp, Canary, ProbePasses, ProbeFails, Switch,
     DetachOld, DropBackup, Link, Finish
<1>9. CASE Recover(j)
  BY <1>9, <1>u, <1>3 DEF Recover, UndoRoute, UndoDetach, Clear, Unpin, Settle, Canceled, CommandFails
<1>10. QED
  BY <1>5, <1>6, <1>7, <1>8, <1>9 DEF Worker

(* The strengthened invariant is inductive as long as no lock lapses. *)
THEOREM OneActiveInductive == "lapse" \notin Faults => (Spec => []OneActiveInv)
<1> SUFFICES ASSUME "lapse" \notin Faults PROVE Spec => []OneActiveInv
  OBVIOUS
<1>1. Init => OneActiveInv
  <2> SUFFICES ASSUME Init PROVE OneActiveInv
    OBVIOUS
  <2>1. TypeInv
    BY BoundAssumption, NoneAssumption DEF Init, TypeInv, TypeOK, RunInv, CallInv, JobState, NoJob,
       NoCall, ReleaseStatus, Error, BoundAssumption, Job
  <2>2. \A j \in Job : job[j].pc = "idle"
    BY DEF Init, NoJob
  <2>3. LockInv /\ ActInv
    BY <2>2 DEF LockInv, ActInv, ActiveRead, Reading, Promoting, Running, Reconciling, Preparing,
       Rolling, Activating, Switching, Activated, Failing
  <2>4. OneActive
    BY DEF Init, OneActive
  <2>5. QED
    BY <2>1, <2>3, <2>4 DEF OneActiveInv
<1>2. OneActiveInv /\ [Next]_vars => OneActiveInv'
  <2> SUFFICES ASSUME OneActiveInv, [Next]_vars PROVE OneActiveInv'
    OBVIOUS
  <2>i. TypeInv /\ LockInv /\ ActInv /\ OneActive /\ job \in [Job -> JobState]
    BY DEF OneActiveInv, TypeInv, TypeOK
  <2>1. TypeInv'
    <3>1. CASE Next
      BY <3>1, <2>i, JobType, StoreType DEF TypeInv, TypeOK, StoreOK
    <3>2. CASE UNCHANGED vars
      BY <3>2, <2>i DEF vars, database, vps, TypeInv, TypeOK, RunInv, CallInv
    <3>3. QED
      BY <3>1, <3>2
  <2>2. ASSUME NEW j \in Job, Worker(j) \/ Crash(j) PROVE LockInv' /\ ActInv' /\ OneActive'
    <3>1. ASSUME NEW k \in Job, k # j
          PROVE  (job[k].pc \in Running => lock = k)' /\ ActiveRead(k)'
      <4>1. job'[k].pc \notin Running
        BY <2>2, <3>1, <2>i, RunsAlone, OthersUntouched
      <4>2. QED
        BY <4>1 DEF ActiveRead, Reading, Promoting, Running, Reconciling, Activating, Switching
    <3>2. (job'[j].pc \in Running => lock' = j) /\ ActiveRead(j)' /\ OneActive'
      BY <2>2, <2>i, RunnerHoldsLock, RunnerKeepsActive, RunnerKeepsOneActive
    <3>3. QED
      BY <3>1, <3>2 DEF LockInv, ActInv
  <2>3. ASSUME NEW j \in Job, job[j].pc = "idle", job'[j].pc = "queued", lock' = lock,
               active' = active, \A k \in Job : k # j => job'[k] = job[k]
        PROVE  LockInv' /\ ActInv'
    BY <2>3, <2>i DEF LockInv, ActInv, ActiveRead, Reading, Promoting, Running, Reconciling,
       Preparing, Rolling, Activating, Switching, Activated, Failing
  <2>4. ASSUME UNCHANGED <<job, lock, status, active>> PROVE LockInv' /\ ActInv' /\ OneActive'
    BY <2>4, <2>i DEF LockInv, ActInv, ActiveRead, OneActive
  <2>5. ASSUME NEW d \in Deployment, RequestDeploy(d) PROVE LockInv' /\ ActInv' /\ OneActive'
    <3>1. d \in Job
      BY DEF Job
    <3>2. job'[d].pc = "queued" /\ \A k \in Job : k # d => job'[k] = job[k]
      BY <2>5, <2>i, <3>1 DEF RequestDeploy, Goto, JobState
    <3>3. QED
      BY <2>5, <2>i, <3>1, <3>2, <2>3 DEF RequestDeploy, At, database, OneActive
  <2>6. ASSUME NEW j \in Rollback, CommitRollback(j) PROVE LockInv' /\ ActInv' /\ OneActive'
    <3>1. j \in Job
      BY DEF Job
    <3>2. job'[j].pc = "queued" /\ \A k \in Job : k # j => job'[k] = job[k]
      BY <2>6, <2>i, <3>1 DEF CommitRollback, JobState
    <3>3. LockInv' /\ ActInv'
      BY <2>6, <3>1, <3>2, <2>3 DEF CommitRollback, At
    <3>4. OneActive'
      BY <2>6, <2>i DEF CommitRollback, OneActive
    <3>5. QED
      BY <3>3, <3>4
  <2>7. ASSUME NEW d \in Deployment, CheckCancel(d) PROVE LockInv' /\ ActInv' /\ OneActive'
    BY <2>7, <2>4 DEF CheckCancel, database
  <2>8. ASSUME NEW r \in Release, ReadRollback(r) PROVE LockInv' /\ ActInv' /\ OneActive'
    BY <2>8, <2>4 DEF ReadRollback, database
  <2>9. ASSUME CommitCancel PROVE LockInv' /\ ActInv' /\ OneActive'
    BY <2>9, <2>4 DEF CommitCancel, database
  <2>10. ASSUME UNCHANGED vars PROVE LockInv' /\ ActInv' /\ OneActive'
    BY <2>10, <2>4 DEF vars, database
  <2>11. ~Lapse
    BY DEF Lapse
  <2>12. QED
    BY <2>1, <2>2, <2>5, <2>6, <2>7, <2>8, <2>9, <2>10, <2>11
       DEF Next, Api, OneActiveInv
<1>3. QED
  BY <1>1, <1>2, PTL DEF Spec

(* As long as the lock of a run does not lapse, at most one release of a   *)
(* project is ACTIVE, the one the project points to: through deploys,      *)
(* rollbacks, cancellations, lost SSH connections and dying workers.       *)
THEOREM OneActiveRelease == "lapse" \notin Faults => (Spec => []OneActive)
<1>1. OneActiveInv => OneActive
  BY DEF OneActiveInv
<1>2. QED
  BY <1>1, OneActiveInductive, PTL

------------------------------------------------------------------------------
(* Traffic.  A release may take it once it has passed its check, so whatever
   can become the route must have: what is active, what is in the backup, what
   a run has read as active, and what a run works on from its check on.  A
   reconciliation relies on the runtime being recorded after the check only. *)

Tested == {"promote", "confirmPromotion", "record"} \cup Activating \cup Switching

RunVerified(j) ==
  /\ job[j].act \in verified \cup {None}
  /\ job[j].pc \in Tested => job[j].rel \in verified

StoresVerified ==
  /\ runtime \subseteq verified
  /\ active \in verified \cup {None} /\ route \in verified \cup {None} /\ backup \in verified \cup {None}

VerifiedInv == StoresVerified /\ \A j \in Job : RunVerified(j)

(* Every step that goes to another program point keeps what the run knows. *)
LEMMA GotoVerified ==
  ASSUME job \in [Job -> JobState], NEW j \in Job, RunVerified(j), verified' = verified,
         NEW pc, Goto(j, pc), pc \in Tested => job[j].rel \in verified
  PROVE  RunVerified(j)'
<1>1. job'[j].pc = pc /\ job'[j].act = job[j].act /\ job'[j].rel = job[j].rel
  BY DEF Goto, JobState
<1>2. QED
  BY <1>1 DEF RunVerified

(* An exception leads to an error path, which no longer needs a release. *)
LEMMA ThrowVerified ==
  ASSUME job \in [Job -> JobState], NEW j \in Job, RunVerified(j), verified' = verified,
         NEW err \in Error, Throw(j, err)
  PROVE  RunVerified(j)'
<1> DEFINE h == Handler(j, err)
<1>1. h \notin Tested
  BY HandlerType DEF Tested, Activating, Switching
<1>2. job' = [job EXCEPT ![j] = [job[j] EXCEPT !.pc = h, !.err = err]]
  BY DEF Throw
<1> HIDE DEF h
<1>3. job'[j].pc = h /\ job'[j].act = job[j].act
  BY <1>2 DEF JobState
<1>4. QED
  BY <1>1, <1>3 DEF RunVerified

(* A step that rewrites the record of its job. *)
LEMMA RecordVerified ==
  ASSUME job \in [Job -> JobState], NEW j \in Job, NEW rec, job' = [job EXCEPT ![j] = rec],
         rec.act \in verified' \cup {None}, rec.pc \in Tested => rec.rel \in verified'
  PROVE  RunVerified(j)'
  BY DEF RunVerified

(* Only a release that has been checked becomes recorded, active, the route or
   the backup.                                                             *)
LEMMA StoresStayVerified ==
  ASSUME TypeInv, VerifiedInv, NEW j \in Job, Worker(j) \/ Crash(j)
  PROVE  StoresVerified' /\ verified \subseteq verified'
<1>t. StoresVerified /\ RunVerified(j)
  BY DEF VerifiedInv
<1> USE <1>t DEF StoresVerified, database, vps
<1>1. CASE PickUp(j) \/ Crash(j)
  BY <1>1 DEF PickUp, Crash
<1>2. CASE Reconcile(j)
  <2>1. CASE NothingInterrupted(j) \/ ReadInterrupted(j) \/ PromotionFails(j) \/ UndoPromotion(j)
             \/ DetachStale(j) \/ DropStale(j)
    BY <2>1 DEF NothingInterrupted, ReadInterrupted, PromotionFails, UndoPromotion, DetachStale, DropStale
  <2>2. CASE Promote(j) \/ ConfirmPromotion(j) \/ Restore(j)
    BY <2>2 DEF Promote, ConfirmPromotion, Restore, At, RunVerified, Tested
  <2>3. QED
    BY <1>2, <2>1, <2>2 DEF Reconcile
<1>3. CASE Prepare(j)
  <2>1. CASE RecordRuntime(j)
    BY <2>1 DEF RecordRuntime, At, RunVerified, Tested
  <2>2. CASE Healthy(j)
    BY <2>2 DEF Healthy
  <2>3. CASE BeginRelease(j) \/ Replace(j) \/ Start(j) \/ Unhealthy(j) \/ PickCandidate(j)
             \/ CandidateMissing(j)
    BY <2>3 DEF BeginRelease, Replace, Start, Unhealthy, PickCandidate, CandidateMissing
  <2>4. QED
    BY <1>3, <2>1, <2>2, <2>3 DEF Prepare
<1>4. CASE Activate(j)
  <2>1. CASE Canary(j) \/ Switch(j) \/ Commit(j)
    BY <2>1 DEF Canary, Switch, Commit, At, RunVerified, Tested, Switching
  <2>2. CASE ReadActive(j) \/ Connect(j) \/ MarkActivating(j) \/ BackUp(j) \/ ProbePasses(j)
             \/ ProbeFails(j) \/ DetachOld(j) \/ DropBackup(j) \/ Link(j) \/ Finish(j)
    BY <2>2 DEF ReadActive, Connect, MarkActivating, BackUp, ProbePasses, ProbeFails, DetachOld,
       DropBackup, Link, Finish
  <2>3. QED
    BY <1>4, <2>1, <2>2 DEF Activate
<1>5. CASE Recover(j)
  BY <1>5 DEF Recover, UndoRoute, UndoDetach, MarkFailed, Clear, Unpin, Settle, Canceled, CommandFails
<1>6. QED
  BY <1>1, <1>2, <1>3, <1>4, <1>5 DEF Worker

(* A run works on a checked release from its check, or from the choice of a
   recorded candidate, to its last step or its first error.                *)
LEMMA RunStaysVerified ==
  ASSUME TypeInv, VerifiedInv, NEW j \in Job, Worker(j) \/ Crash(j)
  PROVE  RunVerified(j)'
<1>t. job \in [Job -> JobState] /\ job[j] \in JobState
  BY DEF TypeInv, TypeOK
<1>v. RunVerified(j) /\ runtime \subseteq verified /\ active \in verified \cup {None}
  BY DEF VerifiedInv, StoresVerified
<1>g. ASSUME NEW pc, Goto(j, pc), verified' = verified, pc \in Tested => job[j].rel \in verified
      PROVE  RunVerified(j)'
  BY <1>g, <1>t, <1>v, GotoVerified
<1>h. ASSUME NEW err \in Error, Throw(j, err), verified' = verified PROVE RunVerified(j)'
  BY <1>h, <1>t, <1>v, ThrowVerified
<1>1. CASE PickUp(j)
  BY <1>1, <1>g DEF PickUp, Tested, Activating, Switching
<1>2. CASE Reconcile(j)
  <2>1. CASE NothingInterrupted(j) \/ PromotionFails(j) \/ UndoPromotion(j) \/ Restore(j) \/ DetachStale(j)
    BY <2>1, <1>g DEF NothingInterrupted, PromotionFails, UndoPromotion, Restore, DetachStale,
       Tested, Activating, Switching
  <2>2. CASE Promote(j)
    BY <2>2, <1>g, <1>v DEF Promote, At, RunVerified, Tested
  <2>3. CASE ReadInterrupted(j)
    <3> DEFINE pc == IF active # None THEN "restore"
                     ELSE IF candidate \in runtime THEN "promote" ELSE "detachStale"
               rec == [job[j] EXCEPT !.rel = candidate, !.act = active, !.pc = pc]
    <3>1. job' = [job EXCEPT ![j] = rec] /\ verified' = verified
      BY <2>3 DEF ReadInterrupted
    <3>2. pc \in Tested => candidate \in runtime
      BY DEF Tested, Activating, Switching
    <3> HIDE DEF pc
    <3>3. rec.act = active /\ rec.rel = candidate /\ rec.pc = pc
      BY <1>t DEF JobState
    <3> HIDE DEF rec
    <3>4. QED
      BY <3>1, <3>2, <3>3, <1>t, <1>v, RecordVerified
  <2>4. CASE ConfirmPromotion(j) \/ DropStale(j)
    <3> DEFINE rec == [job[j] EXCEPT !.pc = "begin", !.rel = None]
    <3>1. job' = [job EXCEPT ![j] = rec] /\ verified' = verified
      BY <2>4 DEF ConfirmPromotion, DropStale
    <3>2. rec.act = job[j].act /\ rec.pc = "begin"
      BY <1>t DEF JobState
    <3> HIDE DEF rec
    <3>3. QED
      BY <3>1, <3>2, <1>t, <1>v, RecordVerified DEF RunVerified, Tested, Activating, Switching
  <2>5. QED
    BY <1>2, <2>1, <2>2, <2>3, <2>4 DEF Reconcile
<1>3. CASE Prepare(j)
  <2>1. CASE Replace(j) \/ Start(j)
    BY <2>1, <1>g DEF Replace, Start, Tested, Activating, Switching
  <2>2. CASE RecordRuntime(j)
    BY <2>2, <1>g, <1>v DEF RecordRuntime, At, RunVerified, Tested
  <2>3. CASE Unhealthy(j) \/ CandidateMissing(j)
    BY <2>3, <1>h DEF Unhealthy, CandidateMissing, Error
  <2>4. CASE Healthy(j)
    <3>1. job'[j].act = job[j].act /\ job'[j].rel = job[j].rel
      BY <2>4, <1>t DEF Healthy, Goto, JobState
    <3>2. verified' = verified \cup {job[j].rel}
      BY <2>4 DEF Healthy
    <3>3. QED
      BY <3>1, <3>2, <1>v DEF RunVerified
  <2>5. CASE BeginRelease(j)
    <3>1. PICK r \in Unused : job' = [job EXCEPT ![j].pc = "replace", ![j].rel = r]
      BY <2>5 DEF BeginRelease
    <3> DEFINE rec == [job[j] EXCEPT !.pc = "replace", !.rel = r]
    <3>2. job' = [job EXCEPT ![j] = rec] /\ verified' = verified
      BY <3>1, <2>5 DEF BeginRelease
    <3>3. rec.act = job[j].act /\ rec.pc = "replace"
      BY <1>t DEF JobState
    <3> HIDE DEF rec
    <3>4. QED
      BY <3>2, <3>3, <1>t, <1>v, RecordVerified DEF RunVerified, Tested, Activating, Switching
  <2>6. CASE PickCandidate(j)
    <3> DEFINE rec == [job[j] EXCEPT !.pc = "recheck", !.rel = candidate]
    <3>1. job' = [job EXCEPT ![j] = rec] /\ verified' = verified
      BY <2>6 DEF PickCandidate
    <3>2. rec.act = job[j].act /\ rec.pc = "recheck"
      BY <1>t DEF JobState
    <3> HIDE DEF rec
    <3>3. QED
      BY <3>1, <3>2, <1>t, <1>v, RecordVerified DEF RunVerified, Tested, Activating, Switching
  <2>7. QED
    BY <1>3, <2>1, <2>2, <2>3, <2>4, <2>5, <2>6 DEF Prepare
<1>4. CASE Activate(j)
  <2>1. CASE ReadActive(j)
    <3> DEFINE rec == [job[j] EXCEPT !.pc = "connect", !.act = active]
    <3>1. job' = [job EXCEPT ![j] = rec] /\ verified' = verified
      BY <2>1 DEF ReadActive
    <3>2. rec.act = active /\ rec.rel = job[j].rel
      BY <1>t DEF JobState
    <3>3. job[j].rel \in verified
      BY <2>1, <1>v DEF ReadActive, At, RunVerified, Tested, Activating
    <3> HIDE DEF rec
    <3>4. QED
      BY <3>1, <3>2, <3>3, <1>t, <1>v, RecordVerified
  <2>2. CASE Connect(j) \/ MarkActivating(j) \/ BackUp(j) \/ Canary(j) \/ ProbePasses(j)
             \/ Switch(j) \/ Commit(j) \/ DetachOld(j)
    <3>1. job[j].rel \in verified
      BY <2>2, <1>v DEF Connect, MarkActivating, BackUp, Canary, ProbePasses, Switch, Commit, DetachOld,
         At, RunVerified, Tested, Activating, Switching
    <3>2. QED
      BY <2>2, <3>1, <1>g DEF Connect, MarkActivating, BackUp, Canary, ProbePasses, Switch, Commit, DetachOld
  <2>3. CASE DropBackup(j) \/ Link(j)
    BY <2>3, <1>g DEF DropBackup, Link, Tested, Activating, Switching
  <2>4. CASE ProbeFails(j)
    BY <2>4, <1>h DEF ProbeFails, Error
  <2>5. CASE Finish(j)
    <3>1. \/ job' = [job EXCEPT ![j] = [job[j] EXCEPT !.pc = "done"]]
          \/ job' = [job EXCEPT ![j] = [job[j] EXCEPT !.pc = "failed", !.err = "final"]]
      BY <2>5 DEF Finish, Goto
    <3>2. job'[j].pc \in {"done", "failed"} /\ job'[j].act = job[j].act
      BY <3>1, <1>t DEF JobState
    <3>3. verified' = verified
      BY <2>5 DEF Finish
    <3>4. QED
      BY <3>2, <3>3, <1>v DEF RunVerified, Tested, Activating, Switching
  <2>6. QED
    BY <1>4, <2>1, <2>2, <2>3, <2>4, <2>5 DEF Activate
<1>5. CASE Recover(j)
  <2>0. verified' = verified
    BY <1>5 DEF Recover, UndoRoute, UndoDetach, MarkFailed, Clear, Unpin, Settle, Canceled, CommandFails
  <2>1. CASE UndoRoute(j) \/ UndoDetach(j) \/ MarkFailed(j) \/ Unpin(j) \/ Goto(j, "settle")
    BY <2>0, <2>1, <1>g DEF UndoRoute, UndoDetach, MarkFailed, Unpin, Tested, Activating, Switching
  <2>2. CASE Canceled(j) \/ CommandFails(j)
    BY <2>0, <2>2, <1>h DEF Canceled, CommandFails, Error
  <2>3. CASE Settle(j)
    BY <2>0, <2>3, <1>t DEF Settle, RunVerified, Tested, Activating, Switching, JobState
  <2>4. ASSUME NEW err \in Error, job' = [job EXCEPT ![j].pc = "settle", ![j].err = err]
        PROVE  RunVerified(j)'
    <3>1. job'[j].pc = "settle" /\ job'[j].act = job[j].act
      BY <2>4, <1>t DEF JobState
    <3>2. QED
      BY <2>0, <3>1, <1>v DEF RunVerified, Tested, Activating, Switching
  <2>5. QED
    BY <1>5, <2>1, <2>2, <2>3, <2>4, ClearSettles DEF Recover
<1>6. CASE Crash(j)
  BY <1>6, <1>t DEF Crash, RunVerified, Tested, Activating, Switching, JobState
<1>7. QED
  BY <1>1, <1>2, <1>3, <1>4, <1>5, <1>6 DEF Worker

(* An API call, a lapse of the lock or a stutter. *)
LEMMA OutsideStaysVerified ==
  ASSUME TypeInv, VerifiedInv, Api \/ Lapse \/ UNCHANGED vars
  PROVE  VerifiedInv'
<1>t. job \in [Job -> JobState] /\ \A j \in Job : RunVerified(j)
  BY DEF TypeInv, TypeOK, VerifiedInv
<1> USE DEF VerifiedInv, StoresVerified, database, vps
<1>1. CASE UNCHANGED <<job, runtime, active, route, backup, verified>>
  BY <1>1 DEF RunVerified
<1>2. ASSUME NEW d \in Deployment, RequestDeploy(d) PROVE VerifiedInv'
  <2>1. d \in Job
    BY DEF Job
  <2>2. \A k \in Job : k # d => job'[k] = job[k]
    BY <1>2 DEF RequestDeploy, Goto
  <2>3. verified' = verified /\ RunVerified(d)'
    BY <1>2, <1>t, <2>1, GotoVerified DEF RequestDeploy, Tested, Activating, Switching
  <2>4. QED
    BY <1>2, <1>t, <2>2, <2>3 DEF RequestDeploy, RunVerified
<1>3. ASSUME NEW j \in Rollback, CommitRollback(j) PROVE VerifiedInv'
  <2>1. j \in Job
    BY DEF Job
  <2>2. \A k \in Job : k # j => job'[k] = job[k]
    BY <1>3, <1>t, <2>1 DEF CommitRollback, JobState
  <2>3. job'[j].pc = "queued" /\ job'[j].act = job[j].act
    BY <1>3, <1>t, <2>1 DEF CommitRollback, JobState
  <2>4. UNCHANGED <<runtime, active, route, backup, verified>>
    BY <1>3 DEF CommitRollback
  <2>5. RunVerified(j)'
    BY <1>t, <2>1, <2>3, <2>4 DEF RunVerified, Tested, Activating, Switching
  <2>6. QED
    BY <1>t, <2>2, <2>4, <2>5 DEF RunVerified
<1>4. ASSUME NEW d \in Deployment, CheckCancel(d) PROVE VerifiedInv'
  BY <1>1, <1>4 DEF CheckCancel
<1>5. ASSUME NEW r \in Release, ReadRollback(r) PROVE VerifiedInv'
  BY <1>1, <1>5 DEF ReadRollback
<1>6. CASE CommitCancel \/ Lapse \/ UNCHANGED vars
  BY <1>1, <1>6 DEF CommitCancel, Lapse, vars
<1>7. QED
  BY <1>2, <1>3, <1>4, <1>5, <1>6 DEF Api

(* The invariant holds under every fault, a lapse of the lock included. *)
THEOREM VerifiedInductive == Spec => []VerifiedInv
<1>1. Init => VerifiedInv
  BY DEF Init, VerifiedInv, StoresVerified, RunVerified, NoJob, Tested, Activating, Switching
<1>2. TypeInv /\ VerifiedInv /\ [Next]_vars => VerifiedInv'
  <2> SUFFICES ASSUME TypeInv, VerifiedInv, [Next]_vars PROVE VerifiedInv'
    OBVIOUS
  <2>1. ASSUME NEW j \in Job, Worker(j) \/ Crash(j) PROVE VerifiedInv'
    <3>1. StoresVerified' /\ verified \subseteq verified'
      BY <2>1, StoresStayVerified
    <3>2. RunVerified(j)'
      BY <2>1, RunStaysVerified
    <3>3. ASSUME NEW k \in Job, k # j PROVE RunVerified(k)'
      <4>1. job'[k] = job[k]
        BY <2>1, <3>3, OthersUntouched DEF TypeInv, TypeOK
      <4>2. RunVerified(k)
        BY DEF VerifiedInv
      <4>3. QED
        BY <3>1, <4>1, <4>2 DEF RunVerified
    <3>4. QED
      BY <3>1, <3>2, <3>3 DEF VerifiedInv
  <2>2. CASE Api \/ Lapse \/ UNCHANGED vars
    BY <2>2, OutsideStaysVerified
  <2>3. QED
    BY <2>1, <2>2 DEF Next
<1>3. QED
  BY <1>1, <1>2, TypesInductive, PTL DEF Spec

(* Traffic reaches only releases that passed a health check, whatever fails,
   dies or lapses (docs/SECURITY.md:54).                                   *)
THEOREM TrafficIsVerified == Spec => []VerifiedTraffic
<1>1. VerifiedInv => VerifiedTraffic
  BY DEF VerifiedInv, StoresVerified, VerifiedTraffic
<1>2. QED
  BY <1>1, VerifiedInductive, PTL

------------------------------------------------------------------------------
(* The refinement. *)

Retained == {r \in Release : status[r] = "SUPERSEDED"}

(* A step that leaves the active release and the checked ones alone and takes
   releases out of the retained ones, if any, is one of BlueGreen or none.  *)
LEMMA WithdrawOrStutter ==
  ASSUME UNCHANGED <<active, verified>>, Retained' \subseteq Retained
  PROVE  [Public!Next]_(Public!vars)
<1>1. CASE Retained' = Retained
  BY <1>1 DEF Public!vars, Retained
<1>2. CASE Retained' # Retained
  <2>0. PICK rs \in SUBSET Release : rs = Retained \ Retained'
    BY DEF Retained
  <2>1. rs \subseteq Retained /\ rs # {} /\ Retained' = Retained \ rs
    BY <1>2, <2>0
  <2>2. Public!Withdraw(rs)
    BY <2>1 DEF Public!Withdraw, Retained
  <2>3. \E x \in SUBSET Release : Public!Withdraw(x)
    BY <2>2
  <2>4. QED
    BY <2>3 DEF Public!Next
<1>3. QED
  BY <1>1, <1>2

(* Rows of a release get a status that is not SUPERSEDED. *)
LEMMA RewriteStatus ==
  ASSUME UNCHANGED <<active, verified>>, status \in [Release -> ReleaseStatus],
         status' \in [Release -> ReleaseStatus],
         \A r \in Release : status'[r] = "SUPERSEDED" => status[r] = "SUPERSEDED"
  PROVE  [Public!Next]_(Public!vars)
<1>1. Retained' \subseteq Retained
  BY DEF Retained
<1>2. QED
  BY <1>1, WithdrawOrStutter

(* The two steps that make a release active are a switch of BlueGreen, or
   change nothing for its users.                                           *)
LEMMA SwitchIsPublic ==
  ASSUME OneActiveInv, VerifiedInv, NEW j \in Job, ConfirmPromotion(j) \/ Commit(j)
  PROVE  [Public!Next]_(Public!vars)
<1> DEFINE new == job[j].rel
<1>t. /\ status \in [Release -> ReleaseStatus] /\ verified \subseteq Release
      /\ active \in Release \cup {None} /\ None \notin Release
  BY NoneAssumption DEF OneActiveInv, TypeInv, TypeOK
<1>1. new \in verified
  BY DEF VerifiedInv, RunVerified, ConfirmPromotion, Commit, At, Tested, Switching
<1>2. active' = new /\ verified' = verified
  BY DEF ConfirmPromotion, Commit
<1>3. CASE new # active
  <2>1. Retained' = (Retained \cup ({active} \ {None})) \ {new}
    <3>1. CASE ConfirmPromotion(j)
      <4>1. active = None
        BY <3>1 DEF OneActiveInv, ActInv, ActiveRead, Promoting, ConfirmPromotion, At
      <4>2. status' = [status EXCEPT ![new] = "ACTIVE"]
        BY <3>1 DEF ConfirmPromotion
      <4>3. QED
        BY <4>1, <4>2, <1>t, <1>1 DEF Retained
    <3>2. CASE Commit(j)
      <4>1. job[j].act = active
        BY <3>2 DEF OneActiveInv, ActInv, ActiveRead, Reading, Commit, At
      <4>2. status' = [r \in Release |-> IF r = new THEN "ACTIVE"
                                          ELSE IF r = active THEN "SUPERSEDED" ELSE status[r]]
        BY <3>2, <4>1 DEF Commit
      <4>3. QED
        BY <4>2, <1>t, <1>3 DEF Retained
    <3>3. QED
      BY <3>1, <3>2
  <2>2. PICK r \in Release : r = new
    BY <1>1, <1>t
  <2>3. Public!Switch(r)
    BY <1>1, <1>2, <1>3, <2>1, <2>2 DEF Public!Switch, Retained
  <2>4. \E x \in Release : Public!Switch(x)
    BY <2>3
  <2>5. QED
    BY <2>4 DEF Public!Next
<1>4. CASE new = active
  <2>1. active # None /\ Commit(j) /\ job[j].act = active
    BY <1>1, <1>t, <1>4 DEF OneActiveInv, ActInv, ActiveRead, Promoting, Reading, ConfirmPromotion, Commit, At
  <2>2. status' = [r \in Release |-> IF r = new THEN "ACTIVE" ELSE status[r]]
    BY <2>1, <1>4, <1>t DEF Commit
  <2>3. Retained' \subseteq Retained
    BY <2>2 DEF Retained
  <2>4. QED
    BY <1>2, <1>4, <2>3, WithdrawOrStutter
<1>5. QED
  BY <1>3, <1>4

(* Every other step of a run checks a release, withdraws retained ones, or is
   invisible.                                                              *)
LEMMA RunIsPublic ==
  ASSUME OneActiveInv, VerifiedInv, NEW j \in Job, Worker(j) \/ Crash(j)
  PROVE  [Public!Next]_(Public!vars)
<1> DEFINE Good == [Public!Next]_(Public!vars)
<1>t. /\ status \in [Release -> ReleaseStatus] /\ up \subseteq Release
  BY DEF OneActiveInv, TypeInv, TypeOK
<1> USE DEF database
<1>u. CASE UNCHANGED <<status, active, verified>>
  BY <1>u DEF Public!vars
<1>w. ASSUME NEW r, NEW st \in ReleaseStatus \ {"SUPERSEDED"}, status' = [status EXCEPT ![r] = st],
             UNCHANGED <<active, verified>>
      PROVE  Good
  BY <1>w, <1>t, RewriteStatus
<1>1. CASE ConfirmPromotion(j) \/ Commit(j)
  BY <1>1, SwitchIsPublic
<1>2. CASE DropStale(j) \/ RecordRuntime(j) \/ ReadActive(j) \/ MarkActivating(j) \/ MarkFailed(j)
  BY <1>2, <1>w DEF DropStale, RecordRuntime, ReadActive, MarkActivating, MarkFailed, ReleaseStatus
<1>3. CASE BeginRelease(j)
  <2>1. status' \in [Release -> ReleaseStatus]
    BY <1>3, <1>t DEF BeginRelease, ReleaseStatus
  <2>2. \A r \in Release : status'[r] = "SUPERSEDED" => status[r] = "SUPERSEDED"
    BY <1>3 DEF BeginRelease
  <2>3. QED
    BY <1>3, <1>t, <2>1, <2>2, RewriteStatus DEF BeginRelease
<1>4. CASE Healthy(j)
  <2>1. job[j].rel \in Release /\ Public!Test(job[j].rel)
    BY <1>4, <1>t DEF Healthy, Public!Test
  <2>2. QED
    BY <2>1 DEF Public!Next
<1>5. CASE PickUp(j) \/ Crash(j)
  BY <1>5, <1>u DEF PickUp, Crash
<1>6. CASE Reconcile(j)
  BY <1>6, <1>u, <1>1, <1>2 DEF Reconcile, NothingInterrupted, ReadInterrupted, Promote,
     PromotionFails, UndoPromotion, Restore, DetachStale
<1>7. CASE Prepare(j)
  BY <1>7, <1>u, <1>2, <1>3, <1>4 DEF Prepare, Replace, Start, Unhealthy, PickCandidate, CandidateMissing
<1>8. CASE Activate(j)
  BY <1>8, <1>u, <1>1, <1>2 DEF Activate, Connect, BackUp, Canary, ProbePasses, ProbeFails, Switch,
     DetachOld, DropBackup, Link, Finish
<1>9. CASE Recover(j)
  BY <1>9, <1>u, <1>2 DEF Recover, UndoRoute, UndoDetach, Clear, Unpin, Settle, Canceled, CommandFails
<1>10. QED
  BY <1>5, <1>6, <1>7, <1>8, <1>9 DEF Worker

(* As long as no lock lapses, deploy and rollback runs with all their error
   paths implement BlueGreen: what is live changes in one step, only to a
   release that was checked, and the one it replaces is retained.          *)
THEOREM ImplementsBlueGreen == "lapse" \notin Faults => (Spec => BlueGreenSpec)
<1> SUFFICES ASSUME "lapse" \notin Faults PROVE Spec => BlueGreenSpec
  OBVIOUS
<1>1. Init => Public!Init
  BY DEF Init, Public!Init
<1>2. OneActiveInv /\ VerifiedInv /\ [Next]_vars => [Public!Next]_(Public!vars)
  <2> SUFFICES ASSUME OneActiveInv, VerifiedInv, [Next]_vars PROVE [Public!Next]_(Public!vars)
    OBVIOUS
  <2>1. CASE UNCHANGED <<status, active, verified>>
    BY <2>1 DEF Public!vars
  <2>2. ASSUME NEW j \in Job, Worker(j) \/ Crash(j) PROVE [Public!Next]_(Public!vars)
    BY <2>2, RunIsPublic
  <2>3. ASSUME NEW j \in Rollback, CommitRollback(j) PROVE [Public!Next]_(Public!vars)
    <3>1. status \in [Release -> ReleaseStatus]
      BY DEF OneActiveInv, TypeInv, TypeOK
    <3>2. status' \in [Release -> ReleaseStatus]
      BY <2>3, <3>1 DEF CommitRollback, ReleaseStatus
    <3>3. \A r \in Release : status'[r] = "SUPERSEDED" => status[r] = "SUPERSEDED"
      BY <2>3 DEF CommitRollback
    <3>4. QED
      BY <2>3, <3>1, <3>2, <3>3, RewriteStatus DEF CommitRollback
  <2>4. CASE UNCHANGED vars \/ Lapse \/ CommitCancel
    BY <2>1, <2>4 DEF vars, Lapse, CommitCancel, database
  <2>5. ASSUME NEW d \in Deployment, RequestDeploy(d) \/ CheckCancel(d) PROVE [Public!Next]_(Public!vars)
    BY <2>1, <2>5 DEF RequestDeploy, CheckCancel, database
  <2>6. ASSUME NEW r \in Release, ReadRollback(r) PROVE [Public!Next]_(Public!vars)
    BY <2>1, <2>6 DEF ReadRollback, database
  <2>7. QED
    BY <2>2, <2>3, <2>4, <2>5, <2>6 DEF Next, Api
<1>3. QED
  BY <1>1, <1>2, OneActiveInductive, VerifiedInductive, PTL DEF Spec, BlueGreenSpec, Public!Spec

------------------------------------------------------------------------------
(* A run that reports success.  What it has seen to be reachable stays so,  *)
(* because nobody else writes the route or removes a container meanwhile.   *)

Committed == {"detach", "cleanup", "link", "finish", "finishRollback"}

Late == {"confirm", "commit"} \cup Committed

LiveAt(j) ==
  /\ job[j].pc \in Late => route = job[j].rel
  /\ job[j].pc \in Late \ {"confirm"} => Reachable(job[j].rel)
  /\ job[j].pc \in Committed => active = job[j].rel

LiveInv == \A j \in Job : LiveAt(j)

(* The steps that lead to one of these points, or to the end. *)
LEMMA LateSteps ==
  ASSUME TypeInv, NEW j \in Job, Worker(j) \/ Crash(j), job'[j].pc \in Late \cup {"done"}
  PROVE  \/ ProbePasses(j) \/ Switch(j) \/ Commit(j) \/ DetachOld(j) \/ DropBackup(j)
         \/ Link(j) \/ Finish(j)
<1> DEFINE Early(pc) == pc \notin Late \cup {"done"}
<1>t. job \in [Job -> JobState] /\ job[j] \in JobState
  BY DEF TypeInv, TypeOK
<1>g. ASSUME NEW pc, Goto(j, pc), Early(pc) PROVE FALSE
  BY <1>g, <1>t, GotoFields
<1>h. ASSUME NEW err \in Error, Throw(j, err) PROVE FALSE
  BY <1>h, <1>t, ThrowFields DEF Failing, Late, Committed
<1>1. CASE PickUp(j)
  BY <1>1, <1>g DEF PickUp, Late, Committed
<1>2. CASE Reconcile(j)
  <2>1. CASE NothingInterrupted(j) \/ PromotionFails(j) \/ UndoPromotion(j) \/ Restore(j)
             \/ DetachStale(j) \/ Promote(j)
    BY <2>1, <1>g DEF NothingInterrupted, PromotionFails, UndoPromotion, Restore, DetachStale, Promote,
       Late, Committed
  <2>2. CASE ReadInterrupted(j)
    <3> DEFINE pc == IF active # None THEN "restore"
                     ELSE IF candidate \in runtime THEN "promote" ELSE "detachStale"
    <3>1. job' = [job EXCEPT ![j] = [job[j] EXCEPT !.rel = candidate, !.act = active, !.pc = pc]]
      BY <2>2 DEF ReadInterrupted
    <3>2. Early(pc)
      BY DEF Late, Committed
    <3> HIDE DEF pc
    <3>3. QED
      BY <3>1, <3>2, <1>t DEF JobState
  <2>3. CASE ConfirmPromotion(j) \/ DropStale(j)
    <3>1. job' = [job EXCEPT ![j] = [job[j] EXCEPT !.pc = "begin", !.rel = None]]
      BY <2>3 DEF ConfirmPromotion, DropStale
    <3>2. QED
      BY <3>1, <1>t DEF JobState, Late, Committed
  <2>4. QED
    BY <1>2, <2>1, <2>2, <2>3 DEF Reconcile
<1>3. CASE Prepare(j)
  <2>1. CASE Replace(j) \/ Start(j) \/ Healthy(j) \/ RecordRuntime(j)
    BY <2>1, <1>g DEF Replace, Start, Healthy, RecordRuntime, Late, Committed
  <2>2. CASE Unhealthy(j) \/ CandidateMissing(j)
    BY <2>2, <1>h DEF Unhealthy, CandidateMissing, Error
  <2>3. CASE BeginRelease(j)
    <3>1. PICK r \in Unused : job' = [job EXCEPT ![j].pc = "replace", ![j].rel = r]
      BY <2>3 DEF BeginRelease
    <3>2. job' = [job EXCEPT ![j] = [job[j] EXCEPT !.pc = "replace", !.rel = r]]
      BY <3>1, <1>t
    <3>3. QED
      BY <3>2, <1>t DEF JobState, Late, Committed
  <2>4. CASE PickCandidate(j)
    <3>1. job' = [job EXCEPT ![j] = [job[j] EXCEPT !.pc = "recheck", !.rel = candidate]]
      BY <2>4 DEF PickCandidate
    <3>2. QED
      BY <3>1, <1>t DEF JobState, Late, Committed
  <2>5. QED
    BY <1>3, <2>1, <2>2, <2>3, <2>4 DEF Prepare
<1>4. CASE Activate(j)
  <2>1. CASE ReadActive(j)
    <3>1. job' = [job EXCEPT ![j] = [job[j] EXCEPT !.pc = "connect", !.act = active]]
      BY <2>1 DEF ReadActive
    <3>2. QED
      BY <3>1, <1>t DEF JobState, Late, Committed
  <2>2. CASE Connect(j) \/ MarkActivating(j) \/ BackUp(j) \/ Canary(j)
    BY <2>2, <1>g DEF Connect, MarkActivating, BackUp, Canary, Late, Committed
  <2>3. CASE ProbeFails(j)
    BY <2>3, <1>h DEF ProbeFails, Error
  <2>4. QED
    BY <1>4, <2>1, <2>2, <2>3 DEF Activate
<1>5. CASE Recover(j)
  <2>1. CASE UndoRoute(j) \/ UndoDetach(j) \/ MarkFailed(j) \/ Unpin(j) \/ Goto(j, "settle")
    BY <2>1, <1>g DEF UndoRoute, UndoDetach, MarkFailed, Unpin, Late, Committed
  <2>2. CASE Canceled(j) \/ CommandFails(j)
    BY <2>2, <1>h DEF Canceled, CommandFails, Error
  <2>3. CASE Settle(j)
    <3> DEFINE again == job[j].err = "transient" /\ job[j].tries + 1 < MaxTries
               pc == IF again THEN "queued"
                     ELSE IF job[j].err = "cancel" THEN "canceled" ELSE "failed"
    <3>1. Early(pc)
      BY DEF Late, Committed
    <3>2. job' = [job EXCEPT ![j] = [job[j] EXCEPT !.pc = pc, !.tries = @ + 1, !.rel = None,
                                       !.act = None, !.err = "none"]]
      BY <2>3 DEF Settle
    <3> HIDE DEF pc
    <3>3. QED
      BY <3>1, <3>2, <1>t DEF JobState
  <2>4. ASSUME NEW err \in Error, job' = [job EXCEPT ![j].pc = "settle", ![j].err = err] PROVE FALSE
    <3>1. job' = [job EXCEPT ![j] = [job[j] EXCEPT !.pc = "settle", !.err = err]]
      BY <2>4
    <3>2. QED
      BY <3>1, <1>t DEF JobState, Late, Committed
  <2>5. QED
    BY <1>5, <2>1, <2>2, <2>3, <2>4, ClearSettles DEF Recover
<1>6. CASE Crash(j)
  <2> DEFINE pc == IF job[j].stalls = 0 THEN "queued" ELSE "stalled"
  <2>1. Early(pc)
    BY DEF Late, Committed
  <2>2. job' = [job EXCEPT ![j] = [job[j] EXCEPT !.pc = pc, !.stalls = 1, !.rel = None,
                                     !.act = None, !.err = "none"]]
    BY <1>6 DEF Crash
  <2> HIDE DEF pc
  <2>3. QED
    BY <2>1, <2>2, <1>t DEF JobState
<1>7. QED
  BY <1>1, <1>2, <1>3, <1>4, <1>5, <1>6 DEF Worker, Activate

(* The run that moves: each of its steps hands on what the step before has seen. *)
LEMMA RunnerStaysLive ==
  ASSUME TypeInv, NEW j \in Job, LiveAt(j), Worker(j) \/ Crash(j)
  PROVE  LiveAt(j)'
<1> SUFFICES ASSUME job'[j].pc \in Late PROVE LiveAt(j)'
  BY DEF LiveAt, Late
<1>t. job \in [Job -> JobState]
  BY DEF TypeInv, TypeOK
<1>g. ASSUME NEW pc, Goto(j, pc) PROVE job'[j].pc = pc /\ job'[j].rel = job[j].rel
  BY <1>g, <1>t DEF Goto, JobState
<1> USE DEF At, LiveAt, Late, Committed, Reachable, database, vps
<1>1. CASE ProbePasses(j)
  BY <1>1, <1>g DEF ProbePasses
<1>2. CASE Switch(j)
  BY <1>2, <1>g DEF Switch
<1>3. CASE Commit(j)
  BY <1>3, <1>g DEF Commit
<1>4. CASE DetachOld(j)
  BY <1>4, <1>g DEF DetachOld
<1>5. CASE DropBackup(j)
  BY <1>5, <1>g DEF DropBackup
<1>6. CASE Link(j)
  BY <1>6, <1>g DEF Link
<1>7. CASE Finish(j)
  <2>1. \/ job' = [job EXCEPT ![j] = [job[j] EXCEPT !.pc = "done"]]
        \/ job' = [job EXCEPT ![j] = [job[j] EXCEPT !.pc = "failed", !.err = "final"]]
    BY <1>7 DEF Finish, Goto
  <2>2. job'[j].pc \in {"done", "failed"}
    BY <2>1, <1>t DEF JobState
  <2>3. QED
    BY <2>2
<1>8. QED
  BY <1>1, <1>2, <1>3, <1>4, <1>5, <1>6, <1>7, LateSteps

(* What every run knows of its release is an invariant as long as no lock lapses. *)
THEOREM LiveInductive == "lapse" \notin Faults => (Spec => []LiveInv)
<1> SUFFICES ASSUME "lapse" \notin Faults PROVE Spec => []LiveInv
  OBVIOUS
<1>1. Init => LiveInv
  BY DEF Init, NoJob, LiveInv, LiveAt, Late, Committed
<1>2. OneActiveInv /\ LiveInv /\ [Next]_vars => LiveInv'
  <2> SUFFICES ASSUME OneActiveInv, LiveInv, [Next]_vars PROVE LiveInv'
    OBVIOUS
  <2>i. TypeInv /\ LockInv /\ job \in [Job -> JobState]
    BY DEF OneActiveInv, TypeInv, TypeOK
  <2>1. ASSUME NEW j \in Job, Worker(j) \/ Crash(j) PROVE LiveInv'
    <3>1. ASSUME NEW k \in Job, k # j PROVE LiveAt(k)'
      <4>1. job'[k].pc \notin Running
        BY <2>1, <3>1, <2>i, RunsAlone, OthersUntouched
      <4>2. QED
        BY <4>1 DEF LiveAt, Late, Committed, Running, Switching, Activated
    <3>2. LiveAt(j)'
      BY <2>1, <2>i, RunnerStaysLive DEF LiveInv
    <3>3. QED
      BY <3>1, <3>2 DEF LiveInv
  <2>2. ASSUME UNCHANGED <<active, up, attached, route>>,
               \A k \in Job : job'[k] = job[k] \/ job'[k].pc = "queued"
        PROVE  LiveInv'
    BY <2>2 DEF LiveInv, LiveAt, Late, Committed, Reachable
  <2>3. ASSUME NEW d \in Deployment, RequestDeploy(d) PROVE LiveInv'
    <3>1. \A k \in Job : job'[k] = job[k] \/ job'[k].pc = "queued"
      BY <2>3, <2>i DEF RequestDeploy, Goto, JobState
    <3>2. QED
      BY <2>3, <3>1, <2>2 DEF RequestDeploy, database, vps
  <2>4. ASSUME NEW j \in Rollback, CommitRollback(j) PROVE LiveInv'
    <3>1. \A k \in Job : job'[k] = job[k] \/ job'[k].pc = "queued"
      BY <2>4, <2>i DEF CommitRollback, JobState
    <3>2. QED
      BY <2>4, <3>1, <2>2 DEF CommitRollback, vps
  <2>5. CASE (\E d \in Deployment : CheckCancel(d)) \/ (\E r \in Release : ReadRollback(r)) \/ CommitCancel
             \/ UNCHANGED vars
    BY <2>5, <2>2 DEF CheckCancel, ReadRollback, CommitCancel, vars, database, vps
  <2>6. ~Lapse
    BY DEF Lapse
  <2>7. QED
    BY <2>1, <2>3, <2>4, <2>5, <2>6 DEF Next, Api
<1>3. QED
  BY <1>1, <1>2, OneActiveInductive, PTL DEF Spec

(* As long as the lock of a run does not lapse, a run that reports success *)
(* leaves its own release active, public and reachable, whatever happened   *)
(* before it or failed in it (executeDeployment, activate, executeRollback).*)
THEOREM SuccessIsLive == "lapse" \notin Faults => (Spec => SuccessMeansLive)
<1> SUFFICES ASSUME "lapse" \notin Faults PROVE Spec => SuccessMeansLive
  OBVIOUS
<1>1. OneActiveInv /\ LiveInv /\ [Next]_vars =>
        [\A j \in Job : job'[j].pc = "done" /\ job[j].pc # "done" =>
           /\ active' = job[j].rel /\ route' = job[j].rel
           /\ Reachable(job[j].rel)']_vars
  <2> SUFFICES ASSUME OneActiveInv, LiveInv, Next, NEW j \in Job, job'[j].pc = "done", job[j].pc # "done"
               PROVE  active' = job[j].rel /\ route' = job[j].rel /\ Reachable(job[j].rel)'
    OBVIOUS
  <2>i. TypeInv /\ job \in [Job -> JobState]
    BY DEF OneActiveInv, TypeInv, TypeOK
  <2>1. Worker(j) \/ Crash(j)
    <3>1. CASE Api
      <4>1. ASSUME NEW d \in Deployment, RequestDeploy(d) PROVE job'[j] = job[j] \/ job'[j].pc = "queued"
        BY <4>1, <2>i DEF RequestDeploy, Goto, JobState
      <4>2. ASSUME NEW k \in Rollback, CommitRollback(k) PROVE job'[j] = job[j] \/ job'[j].pc = "queued"
        BY <4>2, <2>i DEF CommitRollback, JobState
      <4>3. job' = job \/ (\E d \in Deployment : RequestDeploy(d)) \/ (\E k \in Rollback : CommitRollback(k))
        BY <3>1 DEF Api, CheckCancel, ReadRollback, CommitCancel
      <4>4. QED
        BY <4>1, <4>2, <4>3
    <3>2. CASE Lapse
      BY <3>2 DEF Lapse
    <3>3. ASSUME NEW k \in Job, Worker(k) \/ Crash(k), k # j PROVE FALSE
      BY <3>3, <2>i, OthersUntouched
    <3>4. QED
      BY <3>1, <3>2, <3>3 DEF Next
  <2>2. \/ ProbePasses(j) \/ Switch(j) \/ Commit(j) \/ DetachOld(j) \/ DropBackup(j) \/ Link(j) \/ Finish(j)
    BY <2>1, <2>i, LateSteps
  <2>3. Finish(j)
    BY <2>2, <2>i, GotoFields DEF ProbePasses, Switch, Commit, DetachOld, DropBackup, Link
  <2>4. LiveAt(j) /\ job[j].pc \in {"finish", "finishRollback"}
    BY <2>3 DEF LiveInv, Finish, At
  <2>5. job'[j].rel = job[j].rel
    BY <2>3, <2>i DEF Finish, Goto, JobState
  <2>6. UNCHANGED <<active, route, up, attached>>
    BY <2>3 DEF Finish, vps
  <2>7. QED
    BY <2>4, <2>5, <2>6 DEF LiveAt, Late, Committed, Reachable
<1>2. QED
  BY <1>1, OneActiveInductive, LiveInductive, PTL DEF Spec, SuccessMeansLive

------------------------------------------------------------------------------
(* What deploy and rollback runs keep, as long as commands are carried out  *)
(* and neither workers nor locks are lost.  TLC finds counterexamples under *)
(* each of these three faults (README, section 3).                          *)

Calm == Faults \cap {"ssh", "crash", "lapse"} = {}

(* A cancellation is harmless where the key is written before the run moves on
   and no rollback request turns the release that is being activated back into
   a candidate, for which a cancellation is not refused.                    *)
EarlyCancel == "cancel" \in Faults => Rollback = {} /\ "race" \notin Faults

(* What a step does to the record of its run. *)
LEMMA GotoRecord ==
  ASSUME job \in [Job -> JobState], NEW j \in Job, NEW pc, Goto(j, pc)
  PROVE  /\ job'[j].pc = pc /\ job'[j].rel = job[j].rel /\ job'[j].act = job[j].act
         /\ job'[j].dep = job[j].dep /\ job'[j].err = job[j].err
  BY DEF Goto, JobState

LEMMA ThrowRecord ==
  ASSUME job \in [Job -> JobState], NEW j \in Job, NEW err \in Error, Throw(j, err)
  PROVE  /\ job'[j].pc = Handler(j, err) /\ job'[j].err = err
         /\ job'[j].rel = job[j].rel /\ job'[j].act = job[j].act /\ job'[j].dep = job[j].dep
<1> DEFINE h == Handler(j, err)
<1>1. job' = [job EXCEPT ![j] = [job[j] EXCEPT !.pc = h, !.err = err]]
  BY DEF Throw
<1> HIDE DEF h
<1>2. job[j] \in JobState
  OBVIOUS
<1>3. QED
  BY <1>1, <1>2 DEF JobState, h

LEMMA ReadInterruptedRecord ==
  ASSUME job \in [Job -> JobState], NEW j \in Job, ReadInterrupted(j)
  PROVE  /\ job[j].pc = "reconcile" /\ candidate # None
         /\ job'[j].pc = IF active # None THEN "restore"
                         ELSE IF candidate \in runtime THEN "promote" ELSE "detachStale"
         /\ job'[j].rel = candidate /\ job'[j].act = active
         /\ job'[j].dep = job[j].dep /\ job'[j].err = job[j].err
<1>0. job[j].pc = "reconcile" /\ candidate # None
  BY DEF ReadInterrupted, At
<1> DEFINE pc == IF active # None THEN "restore"
                 ELSE IF candidate \in runtime THEN "promote" ELSE "detachStale"
<1>1. job' = [job EXCEPT ![j] = [job[j] EXCEPT !.rel = candidate, !.act = active, !.pc = pc]]
  BY DEF ReadInterrupted
<1> HIDE DEF pc
<1>2. QED
  BY <1>0, <1>1 DEF JobState, pc

LEMMA ReconciledRecord ==
  ASSUME job \in [Job -> JobState], NEW j \in Job, ConfirmPromotion(j) \/ DropStale(j)
  PROVE  /\ job[j].pc \in {"confirmPromotion", "dropStale"}
         /\ job'[j].pc = "begin" /\ job'[j].rel = None /\ job'[j].act = job[j].act
         /\ job'[j].dep = job[j].dep /\ job'[j].err = job[j].err
<1>0. job[j].pc \in {"confirmPromotion", "dropStale"}
  BY DEF ConfirmPromotion, DropStale, At
<1>1. job' = [job EXCEPT ![j] = [job[j] EXCEPT !.pc = "begin", !.rel = None]]
  BY DEF ConfirmPromotion, DropStale
<1>2. QED
  BY <1>0, <1>1 DEF JobState

LEMMA BegunRecord ==
  ASSUME job \in [Job -> JobState], NEW j \in Job, BeginRelease(j)
  PROVE  job[j].pc = "begin" /\ \E r \in Unused :
           /\ job'[j].pc = "replace" /\ job'[j].rel = r /\ job'[j].act = job[j].act
           /\ job'[j].dep = job[j].dep /\ job'[j].err = job[j].err
           /\ owner' = [owner EXCEPT ![r] = job[j].dep] /\ candidate' = r
           /\ status' = [q \in Release |-> IF q = r THEN "BUILDING"
                                           ELSE IF q = candidate /\ status[q] # "ACTIVE" THEN "FAILED"
                                           ELSE status[q]]
<1>0. job[j].pc = "begin"
  BY DEF BeginRelease, At
<1>1. PICK r \in Unused :
           /\ job' = [job EXCEPT ![j].pc = "replace", ![j].rel = r]
           /\ owner' = [owner EXCEPT ![r] = job[j].dep] /\ candidate' = r
           /\ status' = [q \in Release |-> IF q = r THEN "BUILDING"
                                           ELSE IF q = candidate /\ status[q] # "ACTIVE" THEN "FAILED"
                                           ELSE status[q]]
  BY Zenon DEF BeginRelease
<1>2. job' = [job EXCEPT ![j] = [job[j] EXCEPT !.pc = "replace", !.rel = r]]
  BY <1>1
<1>3. /\ job'[j].pc = "replace" /\ job'[j].rel = r /\ job'[j].act = job[j].act
      /\ job'[j].dep = job[j].dep /\ job'[j].err = job[j].err
  BY <1>2 DEF JobState
<1>4. QED
  BY <1>0, <1>1, <1>3

LEMMA PickedRecord ==
  ASSUME job \in [Job -> JobState], NEW j \in Job, PickCandidate(j)
  PROVE  /\ job[j].pc = "pick" /\ candidate \in runtime
         /\ job'[j].pc = "recheck" /\ job'[j].rel = candidate /\ job'[j].act = job[j].act
         /\ job'[j].dep = job[j].dep /\ job'[j].err = job[j].err
<1>0. job[j].pc = "pick" /\ candidate \in runtime
  BY DEF PickCandidate, At
<1>1. job' = [job EXCEPT ![j] = [job[j] EXCEPT !.pc = "recheck", !.rel = candidate]]
  BY DEF PickCandidate
<1>2. QED
  BY <1>0, <1>1 DEF JobState

LEMMA ReadActiveRecord ==
  ASSUME job \in [Job -> JobState], NEW j \in Job, ReadActive(j)
  PROVE  /\ job[j].pc = "read"
         /\ job'[j].pc = "connect" /\ job'[j].act = active /\ job'[j].rel = job[j].rel
         /\ job'[j].dep = job[j].dep /\ job'[j].err = job[j].err
<1>0. job[j].pc = "read"
  BY DEF ReadActive, At
<1>1. job' = [job EXCEPT ![j] = [job[j] EXCEPT !.pc = "connect", !.act = active]]
  BY DEF ReadActive
<1>2. QED
  BY <1>0, <1>1 DEF JobState

LEMMA FinishedRecord ==
  ASSUME job \in [Job -> JobState], NEW j \in Job, Finish(j)
  PROVE  /\ job[j].pc \in {"finish", "finishRollback"}
         /\ job'[j].pc \in {"done", "failed"} /\ job'[j].rel = job[j].rel
         /\ job'[j].dep = job[j].dep /\ job'[j].err \in {job[j].err, "final"}
<1>0. job[j].pc \in {"finish", "finishRollback"}
  BY DEF Finish, At
<1>1. CASE Goto(j, "done")
  BY <1>0, <1>1, GotoRecord
<1>2. CASE job' = [job EXCEPT ![j].pc = "failed", ![j].err = "final"]
  <2>1. job' = [job EXCEPT ![j] = [job[j] EXCEPT !.pc = "failed", !.err = "final"]]
    BY <1>2
  <2>2. QED
    BY <1>0, <2>1 DEF JobState
<1>3. Goto(j, "done") \/ job' = [job EXCEPT ![j].pc = "failed", ![j].err = "final"]
  BY DEF Finish
<1>4. QED
  BY <1>1, <1>2, <1>3

(* Without a lost command no error is transient, and no run is repeated. *)
LEMMA ClearedRecord ==
  ASSUME job \in [Job -> JobState], NEW j \in Job, Clear(j)
  PROVE  /\ job[j].pc = "clear"
         /\ job'[j].pc = "settle" /\ job'[j].rel = job[j].rel /\ job'[j].dep = job[j].dep
         /\ "ssh" \notin Faults /\ job[j].err # "transient" => job'[j].err # "transient"
<1>0. job[j].pc = "clear"
  BY DEF Clear, At
<1>1. ASSUME NEW err \in Error, job' = [job EXCEPT ![j].pc = "settle", ![j].err = err]
      PROVE  /\ job'[j].pc = "settle" /\ job'[j].rel = job[j].rel /\ job'[j].dep = job[j].dep
             /\ job'[j].err = err
  <2>1. job' = [job EXCEPT ![j] = [job[j] EXCEPT !.pc = "settle", !.err = err]]
    BY <1>1
  <2>2. QED
    BY <2>1 DEF JobState
<1>2. ASSUME Goto(j, "settle")
      PROVE  /\ job'[j].pc = "settle" /\ job'[j].rel = job[j].rel /\ job'[j].dep = job[j].dep
             /\ job'[j].err = job[j].err
  BY <1>2, GotoRecord
<1>3. \/ Goto(j, "settle")
      \/ \E err \in (IF Wanted(j) THEN {"final", "transient"} ELSE {"cancel"}) :
           /\ Wanted(j) => "ssh" \in Faults
           /\ job' = [job EXCEPT ![j].pc = "settle", ![j].err = err]
  BY DEF Clear
<1>4. QED
  BY <1>0, <1>1, <1>2, <1>3 DEF Error

LEMMA SettledRecord ==
  ASSUME job \in [Job -> JobState], NEW j \in Job, Settle(j)
  PROVE  /\ job[j].pc = "settle"
         /\ job'[j].pc \in {"queued", "canceled", "failed"} /\ job'[j].dep = job[j].dep
         /\ job[j].err # "transient" => job'[j].pc # "queued"
         /\ job'[j].rel = None /\ job'[j].err = "none"
<1>0. job[j].pc = "settle"
  BY DEF Settle, At
<1> DEFINE again == job[j].err = "transient" /\ job[j].tries + 1 < MaxTries
           pc == IF again THEN "queued"
                 ELSE IF job[j].err = "cancel" THEN "canceled" ELSE "failed"
<1>1. pc \in {"queued", "canceled", "failed"} /\ (job[j].err # "transient" => pc # "queued")
  OBVIOUS
<1>2. job' = [job EXCEPT ![j] = [job[j] EXCEPT !.pc = pc, !.tries = @ + 1, !.rel = None,
                                   !.act = None, !.err = "none"]]
  BY DEF Settle
<1> HIDE DEF pc
<1>3. QED
  BY <1>0, <1>1, <1>2 DEF JobState

(* Deployments and rollbacks go their own ways through a run; the job of a
   deployment is about that deployment.                                    *)
KindAt(j) ==
  /\ j \in Deployment => job[j].dep = j /\ job[j].pc \notin Rolling \cup {"finishRollback", "unpin"}
  /\ j \in Rollback => job[j].pc \notin Reconciling \cup Preparing \cup {"link", "finish", "markFailed", "clear"}

(* What a run may activate has its runtime recorded. *)
Recorded == Promoting \cup Activating
              \cup {"recheck", "backup", "canary", "probe", "switch", "confirm", "commit"}

RecordedAt(j) == job[j].err # "transient" /\ (job[j].pc \in Recorded => job[j].rel \in runtime)

LEMMA KindStays ==
  ASSUME Calm, TypeInv, NEW j \in Job, KindAt(j), RecordedAt(j), Worker(j)
  PROVE  KindAt(j)'
<1>t. job \in [Job -> JobState]
  BY DEF TypeInv, TypeOK
<1>c. Faults \cap {"ssh", "crash", "lapse"} = {}
  BY DEF Calm
<1>g. ASSUME NEW pc, Goto(j, pc), job'[j].dep = job[j].dep /\ job'[j].pc = pc => KindAt(j)'
      PROVE  KindAt(j)'
  BY <1>g, <1>t, GotoRecord
<1>h. ASSUME NEW err \in Error, Throw(j, err) PROVE KindAt(j)'
  <2>1. job'[j].pc = Handler(j, err) /\ job'[j].dep = job[j].dep
    BY <1>h, <1>t, ThrowRecord
  <2>2. Handler(j, err) \in {"undoRoute", "settle"} \cup IF j \in Rollback THEN {"unpin"} ELSE {"clear", "markFailed"}
    BY DEF Handler, IsRollback
  <2>3. QED
    BY <2>1, <2>2, JobAssumption DEF KindAt, Rolling, Reconciling, Preparing
<1>d. j \in Deployment <=> ~IsRollback(j)
  BY JobAssumption DEF IsRollback, Job
<1> USE DEF KindAt, Reconciling, Preparing, Rolling
<1>1. CASE PickUp(j)
  BY <1>1, <1>g, <1>d DEF PickUp, IsRollback
<1>2. CASE Reconcile(j)
  <2>1. CASE NothingInterrupted(j) \/ Promote(j) \/ PromotionFails(j) \/ UndoPromotion(j)
             \/ Restore(j) \/ DetachStale(j)
    BY <2>1, <1>g DEF NothingInterrupted, Promote, PromotionFails, UndoPromotion, Restore, DetachStale, At
  <2>2. CASE ReadInterrupted(j)
    BY <2>2, <1>t, ReadInterruptedRecord
  <2>3. CASE ConfirmPromotion(j) \/ DropStale(j)
    BY <2>3, <1>t, ReconciledRecord
  <2>4. QED
    BY <1>2, <2>1, <2>2, <2>3 DEF Reconcile
<1>3. CASE Prepare(j)
  <2>1. CASE Replace(j) \/ Start(j) \/ Healthy(j) \/ RecordRuntime(j)
    BY <2>1, <1>g, <1>d DEF Replace, Start, Healthy, RecordRuntime, At, IsRollback
  <2>2. CASE Unhealthy(j) \/ CandidateMissing(j)
    BY <2>2, <1>h DEF Unhealthy, CandidateMissing, Error
  <2>3. CASE BeginRelease(j)
    BY <2>3, <1>t, BegunRecord
  <2>4. CASE PickCandidate(j)
    BY <2>4, <1>t, PickedRecord
  <2>5. QED
    BY <1>3, <2>1, <2>2, <2>3, <2>4 DEF Prepare
<1>4. CASE Activate(j)
  <2>1. CASE ReadActive(j)
    BY <2>1, <1>t, ReadActiveRecord
  <2>2. CASE Connect(j) \/ MarkActivating(j) \/ BackUp(j) \/ Canary(j) \/ ProbePasses(j) \/ Switch(j)
             \/ Commit(j) \/ DetachOld(j) \/ DropBackup(j) \/ Link(j)
    BY <2>2, <1>g, <1>d DEF Connect, MarkActivating, BackUp, Canary, ProbePasses, Switch, Commit, DetachOld,
       DropBackup, Link, At, IsRollback
  <2>3. CASE ProbeFails(j)
    BY <2>3, <1>h DEF ProbeFails, Error
  <2>4. CASE Finish(j)
    BY <2>4, <1>t, FinishedRecord
  <2>5. QED
    BY <1>4, <2>1, <2>2, <2>3, <2>4 DEF Activate
<1>5. CASE Recover(j)
  <2>1. CASE UndoRoute(j) \/ UndoDetach(j) \/ MarkFailed(j) \/ Unpin(j)
    BY <2>1, <1>g, <1>d DEF UndoRoute, UndoDetach, MarkFailed, Unpin, At, IsRollback
  <2>2. CASE Canceled(j) \/ CommandFails(j)
    BY <2>2, <1>h DEF Canceled, CommandFails, Error
  <2>3. CASE Clear(j)
    BY <2>3, <1>t, ClearedRecord
  <2>4. CASE Settle(j)
    BY <2>4, <1>t, SettledRecord
  <2>5. QED
    BY <1>5, <2>1, <2>2, <2>3, <2>4 DEF Recover
<1>6. QED
  BY <1>1, <1>2, <1>3, <1>4, <1>5 DEF Worker

(* Only the step after the health check records a runtime. *)
LEMMA RuntimeGrows ==
  ASSUME NEW j \in Job, Worker(j)
  PROVE  runtime \subseteq runtime' /\ (job[j].pc # "record" => UNCHANGED runtime)
<1> USE DEF database
<1>1. CASE PickUp(j)
  BY <1>1 DEF PickUp
<1>2. CASE Reconcile(j)
  BY <1>2 DEF Reconcile, NothingInterrupted, ReadInterrupted, Promote, ConfirmPromotion, PromotionFails,
     UndoPromotion, Restore, DetachStale, DropStale
<1>3. CASE Prepare(j)
  BY <1>3 DEF Prepare, BeginRelease, Replace, Start, Healthy, Unhealthy, RecordRuntime, PickCandidate,
     CandidateMissing, At
<1>4. CASE Activate(j)
  BY <1>4 DEF Activate, ReadActive, Connect, MarkActivating, BackUp, Canary, ProbePasses, ProbeFails, Switch,
     Commit, DetachOld, DropBackup, Link, Finish
<1>5. CASE Recover(j)
  BY <1>5 DEF Recover, UndoRoute, UndoDetach, MarkFailed, Clear, Unpin, Settle, Canceled, CommandFails
<1>6. QED
  BY <1>1, <1>2, <1>3, <1>4, <1>5 DEF Worker

LEMMA RecordedStays ==
  ASSUME Calm, TypeInv, NEW j \in Job, KindAt(j), RecordedAt(j), Worker(j)
  PROVE  RecordedAt(j)' /\ runtime \subseteq runtime'
<1> DEFINE Good == RecordedAt(j)' /\ runtime \subseteq runtime'
<1>t. job \in [Job -> JobState]
  BY DEF TypeInv, TypeOK
<1>c. "ssh" \notin Faults
  BY DEF Calm
<1>g. ASSUME NEW pc, Goto(j, pc), runtime \subseteq runtime', pc \in Recorded => job[j].rel \in runtime'
      PROVE  Good
  BY <1>g, <1>t, GotoRecord DEF RecordedAt
<1>h. ASSUME NEW err \in {"final", "cancel"}, Throw(j, err), UNCHANGED runtime PROVE Good
  BY <1>h, <1>t, ThrowRecord, HandlerType DEF RecordedAt, Recorded, Promoting, Activating, Error
<1>u. job[j].pc # "record" => UNCHANGED runtime
  BY RuntimeGrows
<1> USE DEF RecordedAt, Recorded, Promoting, Activating, database
<1>1. CASE PickUp(j)
  BY <1>1, <1>g DEF PickUp
<1>2. CASE Reconcile(j)
  <2>1. CASE NothingInterrupted(j) \/ Promote(j) \/ PromotionFails(j) \/ UndoPromotion(j)
             \/ Restore(j) \/ DetachStale(j)
    BY <2>1, <1>g DEF NothingInterrupted, Promote, PromotionFails, UndoPromotion, Restore, DetachStale, At
  <2>2. CASE ReadInterrupted(j)
    BY <2>2, <1>t, <1>u, ReadInterruptedRecord
  <2>3. CASE ConfirmPromotion(j) \/ DropStale(j)
    BY <2>3, <1>t, <1>u, ReconciledRecord DEF ConfirmPromotion, DropStale
  <2>4. QED
    BY <1>2, <2>1, <2>2, <2>3 DEF Reconcile
<1>3. CASE Prepare(j)
  <2>1. CASE Replace(j) \/ Start(j)
    BY <2>1, <1>g DEF Replace, Start
  <2>2. CASE Healthy(j)
    <3>1. IsRollback(j) => job[j].rel \in runtime
      BY <2>2 DEF Healthy, KindAt, Preparing, IsRollback
    <3>2. QED
      BY <2>2, <3>1, <1>g DEF Healthy
  <2>3. CASE RecordRuntime(j)
    BY <2>3, <1>g DEF RecordRuntime
  <2>4. CASE Unhealthy(j) \/ CandidateMissing(j)
    BY <2>4, <1>h DEF Unhealthy, CandidateMissing
  <2>5. CASE BeginRelease(j)
    BY <2>5, <1>t, <1>u, BegunRecord
  <2>6. CASE PickCandidate(j)
    BY <2>6, <1>t, <1>u, PickedRecord
  <2>7. QED
    BY <1>3, <2>1, <2>2, <2>3, <2>4, <2>5, <2>6 DEF Prepare
<1>4. CASE Activate(j)
  <2>1. CASE ReadActive(j)
    BY <2>1, <1>t, <1>u, ReadActiveRecord
  <2>2. CASE Connect(j) \/ MarkActivating(j) \/ BackUp(j) \/ Canary(j) \/ ProbePasses(j) \/ Switch(j)
             \/ Commit(j) \/ DetachOld(j) \/ DropBackup(j) \/ Link(j)
    BY <2>2, <1>g DEF Connect, MarkActivating, BackUp, Canary, ProbePasses, Switch, Commit, DetachOld,
       DropBackup, Link, At
  <2>3. CASE ProbeFails(j)
    BY <2>3, <1>h DEF ProbeFails
  <2>4. CASE Finish(j)
    BY <2>4, <1>t, <1>u, FinishedRecord
  <2>5. QED
    BY <1>4, <2>1, <2>2, <2>3, <2>4 DEF Activate
<1>5. CASE Recover(j)
  <2>1. CASE UndoRoute(j) \/ UndoDetach(j) \/ MarkFailed(j) \/ Unpin(j)
    BY <2>1, <1>g DEF UndoRoute, UndoDetach, MarkFailed, Unpin
  <2>2. CASE Canceled(j)
    BY <2>2, <1>h DEF Canceled
  <2>3. CASE Clear(j)
    BY <2>3, <1>t, <1>u, <1>c, ClearedRecord
  <2>4. CASE Settle(j)
    BY <2>4, <1>t, <1>u, SettledRecord
  <2>5. QED
    BY <1>5, <1>c, <2>1, <2>2, <2>3, <2>4 DEF Recover, CommandFails
<1>6. QED
  BY <1>1, <1>2, <1>3, <1>4, <1>5 DEF Worker

(* A deployment runs once: it owns no release until it has begun, and then one,
   which is neither active nor a former active release before its commit.   *)
Waiting == {"idle", "queued"} \cup Reconciling \cup {"begin"}

Uncommitted == {"replace", "start", "health", "record"} \cup Activating
                 \cup {"backup", "canary", "probe", "switch", "confirm", "commit",
                       "undoRoute", "undoDetach", "undoMark", "markFailed"}

Working == Uncommitted \cup Committed \cup {"clear"}

OnceAt(d) ==
  /\ job[d].pc \in Waiting => \A r \in Release : owner[r] # d
  /\ job[d].pc \in {"idle", "queued", "reconcile", "begin"} => job[d].rel = None
  /\ job[d].pc \in Working => \A r \in Release : owner[r] = d => r = job[d].rel
  /\ job[d].pc \in Uncommitted \cup {"clear"} /\ job[d].rel # None =>
       job[d].rel # active /\ status[job[d].rel] # "SUPERSEDED"

(* What was active once is recorded, has its container, and stays that way. *)
KeptInv ==
  /\ active # None => active \in runtime \cap up /\ status[active] # "none"
  /\ PriorRetained

LEMMA OnceStays ==
  ASSUME Calm, TypeInv, KeptInv, NEW j \in Deployment, KindAt(j), RecordedAt(j), OnceAt(j), Worker(j),
         job[j].pc \in {"link", "finish"} => Wanted(j)
  PROVE  OnceAt(j)'
<1>t. /\ job \in [Job -> JobState] /\ j \in Job /\ status \in [Release -> ReleaseStatus]
      /\ owner \in [Release -> Deployment \cup {None}]
  BY DEF TypeInv, TypeOK, Job
<1>r. job[j].rel \in Release \cup {None} /\ job[j].dep = j /\ ~IsRollback(j) /\ None \notin Release
  BY <1>t, JobAssumption, NoneAssumption DEF JobState, KindAt, IsRollback
<1>c. "ssh" \notin Faults
  BY DEF Calm
<1>g. ASSUME NEW pc, Goto(j, pc), UNCHANGED <<owner, active>>,
             \/ UNCHANGED status
             \/ \E st \in ReleaseStatus \ {"SUPERSEDED"} : status' = [status EXCEPT ![job[j].rel] = st],
             pc \in Waiting => job[j].pc \in Waiting,
             pc \in {"reconcile", "begin"} => job[j].pc \in {"queued", "reconcile", "begin"},
             pc \notin {"idle", "queued"},
             pc \in Working => job[j].pc \in Working,
             pc \in Uncommitted \cup {"clear"} => job[j].pc \in Uncommitted \cup {"clear"}
      PROVE  OnceAt(j)'
  <2>1. job'[j].pc = pc /\ job'[j].rel = job[j].rel
    BY <1>g, <1>t, GotoRecord
  <2>2. job[j].rel # None /\ status[job[j].rel] # "SUPERSEDED" => status'[job[j].rel] # "SUPERSEDED"
    BY <1>g, <1>t, <1>r
  <2>3. QED
    BY <1>g, <2>1, <2>2 DEF OnceAt
<1>h. ASSUME NEW err \in Error, Throw(j, err), UNCHANGED <<owner, active, status>>,
             job[j].pc = "begin" \/ job[j].pc \in Uncommitted
      PROVE  OnceAt(j)'
  <2>1. job'[j].pc = Handler(j, err) /\ job'[j].rel = job[j].rel
    BY <1>h, <1>t, ThrowRecord
  <2>2. CASE job[j].pc = "begin"
    <3>1. Handler(j, err) \in {"clear", "settle"}
      BY <2>2, <1>r DEF Handler, Switching
    <3>2. QED
      BY <1>h, <2>1, <2>2, <3>1 DEF OnceAt, Waiting, Reconciling, Working, Uncommitted, Committed, Activating
  <2>3. CASE job[j].pc \in Uncommitted
    <3>1. Handler(j, err) \in {"undoRoute", "markFailed"}
      BY <2>3, <1>r DEF Handler, Switching, Uncommitted, Reconciling, Activated, Activating
    <3>2. QED
      BY <1>h, <2>1, <2>3, <3>1 DEF OnceAt, Waiting, Reconciling, Working, Uncommitted, Committed, Activating
  <2>4. QED
    BY <1>h, <2>2, <2>3
<1>s. {"FAILED", "CANDIDATE", "READY", "ACTIVATING"} \subseteq ReleaseStatus \ {"SUPERSEDED"}
  BY DEF ReleaseStatus
<1>p. job[j].pc \notin Rolling
  BY <1>r DEF KindAt
<1> USE DEF database, Waiting, Reconciling, Working, Uncommitted, Committed, Activating
<1>1. CASE PickUp(j)
  BY <1>1, <1>g, <1>r DEF PickUp, At
<1>2. CASE Reconcile(j)
  <2>1. CASE NothingInterrupted(j) \/ Promote(j) \/ PromotionFails(j) \/ UndoPromotion(j)
             \/ Restore(j) \/ DetachStale(j)
    BY <2>1, <1>g DEF NothingInterrupted, Promote, PromotionFails, UndoPromotion, Restore, DetachStale, At
  <2>2. CASE ReadInterrupted(j)
    <3>1. UNCHANGED owner
      BY <2>2 DEF ReadInterrupted
    <3>2. QED
      BY <2>2, <3>1, <1>t, ReadInterruptedRecord DEF OnceAt
  <2>3. CASE ConfirmPromotion(j) \/ DropStale(j)
    <3>1. UNCHANGED owner
      BY <2>3 DEF ConfirmPromotion, DropStale
    <3>2. QED
      BY <2>3, <3>1, <1>t, ReconciledRecord DEF OnceAt
  <2>4. QED
    BY <1>2, <2>1, <2>2, <2>3 DEF Reconcile
<1>3. CASE Prepare(j)
  <2>1. CASE Replace(j) \/ Start(j) \/ Healthy(j)
    BY <2>1, <1>g, <1>p, <1>r DEF Replace, Start, Healthy, At, Rolling
  <2>2. CASE RecordRuntime(j)
    BY <2>2, <1>g, <1>s DEF RecordRuntime, At
  <2>3. CASE Unhealthy(j)
    BY <2>3, <1>h, <1>p DEF Unhealthy, Error, Rolling
  <2>4. CASE BeginRelease(j)
    <3>1. PICK r \in Unused :
            /\ job[j].pc = "begin" /\ job'[j].pc = "replace" /\ job'[j].rel = r
            /\ owner' = [owner EXCEPT ![r] = j]
            /\ status' = [q \in Release |-> IF q = r THEN "BUILDING"
                                            ELSE IF q = candidate /\ status[q] # "ACTIVE" THEN "FAILED"
                                            ELSE status[q]]
      BY <2>4, <1>t, <1>r, BegunRecord
    <3>2. r \in Release /\ status[r] = "none" /\ active' = active
      BY <2>4 DEF Unused, BeginRelease
    <3>3. r # active
      BY <3>2, <1>r DEF KeptInv
    <3>4. QED
      BY <3>1, <3>2, <3>3, <1>t DEF OnceAt
  <2>5. CASE PickCandidate(j) \/ CandidateMissing(j)
    BY <2>5, <1>p DEF PickCandidate, CandidateMissing, At, Rolling
  <2>6. QED
    BY <1>3, <2>1, <2>2, <2>3, <2>4, <2>5 DEF Prepare
<1>4. CASE Activate(j)
  <2>1. CASE ReadActive(j)
    <3>1. UNCHANGED <<owner, active>> /\ status' = [status EXCEPT ![job[j].rel] = "READY"]
      BY <2>1 DEF ReadActive
    <3>2. job[j].rel # None => status'[job[j].rel] # "SUPERSEDED"
      BY <3>1, <1>t, <1>r
    <3>3. QED
      BY <2>1, <3>1, <3>2, <1>t, ReadActiveRecord DEF OnceAt
  <2>2. CASE MarkActivating(j)
    BY <2>2, <1>g, <1>s DEF MarkActivating, At
  <2>3. CASE Connect(j) \/ BackUp(j) \/ Canary(j) \/ ProbePasses(j) \/ Switch(j) \/ DetachOld(j)
             \/ DropBackup(j)
             \/ Link(j)
    BY <2>3, <1>g, <1>r DEF Connect, BackUp, Canary, ProbePasses, Switch, DetachOld, DropBackup, Link, At
  <2>4. CASE Commit(j)
    <3>1. job'[j].pc = "detach" /\ job'[j].rel = job[j].rel /\ owner' = owner /\ job[j].pc = "commit"
      BY <2>4, <1>t, GotoRecord DEF Commit, At
    <3>2. QED
      BY <3>1 DEF OnceAt
  <2>5. CASE ProbeFails(j)
    BY <2>5, <1>h DEF ProbeFails, Error
  <2>6. CASE Finish(j)
    BY <2>6, <1>t, FinishedRecord DEF OnceAt
  <2>7. QED
    BY <1>4, <2>1, <2>2, <2>3, <2>4, <2>5, <2>6 DEF Activate
<1>5. CASE Recover(j)
  <2>1. CASE UndoRoute(j) \/ UndoDetach(j)
    BY <2>1, <1>g DEF UndoRoute, UndoDetach, At
  <2>2. CASE MarkFailed(j)
    BY <2>2, <1>g, <1>r, <1>s DEF MarkFailed, At
  <2>3. CASE Canceled(j)
    BY <2>3, <1>h, <1>p DEF Canceled, Checked, Error, Rolling
  <2>4. CASE Clear(j)
    BY <2>4, <1>t, ClearedRecord DEF OnceAt
  <2>5. CASE Settle(j)
    BY <2>5, <1>t, SettledRecord DEF OnceAt, RecordedAt
  <2>6. CASE Unpin(j)
    BY <2>6, <1>r DEF Unpin, At, KindAt
  <2>7. QED
    BY <1>5, <1>c, <2>1, <2>2, <2>3, <2>4, <2>5, <2>6 DEF Recover, CommandFails
<1>6. QED
  BY <1>1, <1>2, <1>3, <1>4, <1>5 DEF Worker

(* A run removes no container but its own release's, and that not once it is active. *)
LEMMA RemovesOwn ==
  ASSUME TypeInv, NEW j \in Job, KindAt(j), j \in Deployment => OnceAt(j), Worker(j),
         NEW r \in Release, r \in up, r \notin up'
  PROVE  r # active /\ status[r] # "SUPERSEDED" /\ UNCHANGED <<status, active, runtime>>
<1>d. j \in Deployment \/ j \in Rollback
  BY DEF Job
<1> USE DEF database, vps
<1>1. CASE Replace(j)
  <2>1. j \in Deployment /\ job[j].pc = "replace" /\ owner[r] = job[j].dep
    BY <1>1, <1>d DEF Replace, At, KindAt, Preparing, Remove, Containers
  <2>2. r = job[j].rel /\ r # None
    BY <2>1, NoneAssumption DEF OnceAt, KindAt, Working, Uncommitted
  <2>3. QED
    BY <1>1, <2>1, <2>2 DEF OnceAt, Uncommitted, Replace
<1>2. CASE Clear(j)
  <2>1. j \in Deployment /\ job[j].pc = "clear" /\ (owner[r] = job[j].dep \/ r = job[j].rel)
    BY <1>2, <1>d DEF Clear, At, KindAt, Remove, Containers
  <2>2. r = job[j].rel /\ r # None
    BY <2>1, NoneAssumption DEF OnceAt, KindAt, Working
  <2>3. QED
    BY <1>2, <2>1, <2>2 DEF OnceAt, Clear
<1>3. CASE PickUp(j)
  BY <1>3 DEF PickUp
<1>4. CASE Reconcile(j)
  BY <1>4 DEF Reconcile, NothingInterrupted, ReadInterrupted, Promote, ConfirmPromotion, PromotionFails,
     UndoPromotion, Restore, DetachStale, DropStale
<1>5. CASE Prepare(j)
  BY <1>1, <1>5 DEF Prepare, BeginRelease, Start, Healthy, Unhealthy, RecordRuntime, PickCandidate,
     CandidateMissing
<1>6. CASE Activate(j)
  BY <1>6 DEF Activate, ReadActive, Connect, MarkActivating, BackUp, Canary, ProbePasses, ProbeFails, Switch,
     Commit, DetachOld, DropBackup, Link, Finish
<1>7. CASE Recover(j)
  BY <1>2, <1>7 DEF Recover, UndoRoute, UndoDetach, MarkFailed, Unpin, Settle, Canceled, CommandFails
<1>8. QED
  BY <1>3, <1>4, <1>5, <1>6, <1>7 DEF Worker

LEMMA KeptStays ==
  ASSUME TypeInv, KeptInv, NEW j \in Job, KindAt(j), RecordedAt(j), ActiveRead(j), LiveAt(j),
         j \in Deployment => OnceAt(j), Worker(j)
  PROVE  KeptInv'
<1>t. /\ status \in [Release -> ReleaseStatus] /\ active \in Release \cup {None} /\ None \notin Release
      /\ up \subseteq Release /\ runtime \subseteq Release
  BY NoneAssumption DEF TypeInv, TypeOK
<1>g. runtime \subseteq runtime'
  BY RuntimeGrows
<1>1. CASE ~(up \subseteq up')
  <2>1. PICK r \in Release : r \in up /\ r \notin up'
    BY <1>1, <1>t
  <2>2. UNCHANGED <<status, active, runtime>>
    BY <2>1, RemovesOwn
  <2>3. \A q \in Release : q \in up /\ q \notin up' => q # active /\ status[q] # "SUPERSEDED"
    BY RemovesOwn
  <2>4. QED
    BY <2>2, <2>3, <1>t DEF KeptInv, PriorRetained
<1>2. CASE up \subseteq up'
  <2>u. ASSUME UNCHANGED <<status, active>> PROVE KeptInv'
    BY <2>u, <1>2, <1>g DEF KeptInv, PriorRetained
  <2>w. ASSUME NEW r, NEW st \in ReleaseStatus \ {"SUPERSEDED", "none"}, status' = [status EXCEPT ![r] = st],
               UNCHANGED active
        PROVE  KeptInv'
    BY <2>w, <1>2, <1>g, <1>t DEF KeptInv, PriorRetained
  <2>s. {"FAILED", "CANDIDATE", "READY", "ACTIVATING"} \subseteq ReleaseStatus \ {"SUPERSEDED", "none"}
    BY DEF ReleaseStatus
  <2> USE DEF database
  <2>1. CASE ConfirmPromotion(j)
    <3>1. job[j].rel \in runtime /\ job[j].rel \in up /\ active' = job[j].rel /\ UNCHANGED <<runtime, up>>
      BY <2>1 DEF ConfirmPromotion, At, Recorded, Promoting, RecordedAt, Reachable, vps
    <3>2. status' = [status EXCEPT ![job[j].rel] = "ACTIVE"]
      BY <2>1 DEF ConfirmPromotion
    <3>3. QED
      BY <3>1, <3>2, <1>t DEF KeptInv, PriorRetained
  <2>2. CASE Commit(j)
    <3>1. /\ job[j].rel \in runtime /\ job[j].rel \in up /\ active' = job[j].rel /\ UNCHANGED <<runtime, up>>
          /\ job[j].act = active
      BY <2>2 DEF Commit, At, Recorded, RecordedAt, Reachable, LiveAt, Late, ActiveRead, Reading, vps
    <3>2. status' = [r \in Release |-> IF r = job[j].rel THEN "ACTIVE"
                                       ELSE IF r = active THEN "SUPERSEDED" ELSE status[r]]
      BY <2>2, <3>1 DEF Commit
    <3>3. QED
      BY <3>1, <3>2, <1>t DEF KeptInv, PriorRetained
  <2>3. CASE DropStale(j) \/ RecordRuntime(j) \/ ReadActive(j) \/ MarkActivating(j) \/ MarkFailed(j)
    BY <2>3, <2>w, <2>s DEF DropStale, RecordRuntime, ReadActive, MarkActivating, MarkFailed
  <2>4. CASE BeginRelease(j)
    BY <2>4, <1>t, <1>2, <1>g DEF BeginRelease, KeptInv, PriorRetained
  <2>5. CASE PickUp(j)
    BY <2>5, <2>u DEF PickUp
  <2>6. CASE Reconcile(j)
    BY <2>6, <2>u, <2>1, <2>3 DEF Reconcile, NothingInterrupted, ReadInterrupted, Promote, PromotionFails,
       UndoPromotion, Restore, DetachStale
  <2>7. CASE Prepare(j)
    BY <2>7, <2>u, <2>3, <2>4 DEF Prepare, Replace, Start, Healthy, Unhealthy, PickCandidate, CandidateMissing
  <2>8. CASE Activate(j)
    BY <2>8, <2>u, <2>2, <2>3 DEF Activate, Connect, BackUp, Canary, ProbePasses, ProbeFails, Switch,
       DetachOld,
       DropBackup, Link, Finish
  <2>9. CASE Recover(j)
    BY <2>9, <2>u, <2>3 DEF Recover, UndoRoute, UndoDetach, Clear, Unpin, Settle, Canceled, CommandFails
  <2>10. QED
    BY <2>5, <2>6, <2>7, <2>8, <2>9 DEF Worker
<1>3. QED
  BY <1>1, <1>2

(* The point of no return: cancelDeployment looks at the status of the newest
   release of the deployment, which says ACTIVATING before the last step that
   looks for the key.                                                       *)
Irrevocable == {"canary", "probe", "switch", "confirm", "commit"} \cup Committed

CancelAt(d) ==
  /\ job[d].pc \in Uncommitted \cup Committed => job[d].rel \in Release /\ owner[job[d].rel] = d
  /\ job[d].pc \in {"backup", "canary", "probe", "switch", "confirm", "commit"} =>
       status[job[d].rel] = "ACTIVATING"
  /\ job[d].pc \in Committed => status[job[d].rel] = "ACTIVE"
  /\ job[d].pc \in Irrevocable => d \notin cancelKey /\ ~(call.kind = "cancel" /\ call.target = d)

CancelInv ==
  IF "cancel" \in Faults THEN \A d \in Deployment : CancelAt(d)
  ELSE cancelKey = {} /\ call.kind # "cancel"

LEMMA KeysOnlyGo ==
  ASSUME NEW j \in Job, Worker(j)
  PROVE  cancelKey' \subseteq cancelKey /\ call' = call /\ ("race" \notin Faults => call = NoCall)
<1>0. SUFFICES cancelKey' \subseteq cancelKey /\ call' = call
  BY DEF Worker
<1>1. CASE PickUp(j)
  BY <1>1 DEF PickUp
<1>2. CASE Reconcile(j)
  BY <1>2 DEF Reconcile, NothingInterrupted, ReadInterrupted, Promote, ConfirmPromotion, PromotionFails,
     UndoPromotion, Restore, DetachStale, DropStale
<1>3. CASE Prepare(j)
  BY <1>3 DEF Prepare, BeginRelease, Replace, Start, Healthy, Unhealthy, RecordRuntime, PickCandidate,
     CandidateMissing
<1>4. CASE Activate(j)
  <2>0. CASE ReadActive(j)
    BY <2>0 DEF ReadActive
  <2>1. CASE Connect(j) \/ MarkActivating(j) \/ BackUp(j) \/ Canary(j) \/ ProbePasses(j)
             \/ ProbeFails(j) \/ Switch(j) \/ Commit(j) \/ DetachOld(j) \/ DropBackup(j) \/ Link(j)
    BY <2>1 DEF Connect, MarkActivating, BackUp, Canary, ProbePasses, ProbeFails, Switch, Commit,
       DetachOld, DropBackup, Link
  <2>2. CASE Finish(j)
    <3>1. call' = call /\ (cancelKey' = cancelKey \ {job[j].dep} \/ cancelKey' = cancelKey)
      BY <2>2 DEF Finish
    <3>2. QED
      BY <3>1
  <2>3. QED
    BY <1>4, <2>0, <2>1, <2>2 DEF Activate
<1>5. CASE Recover(j)
  <2>1. CASE Settle(j)
    <3>1. call' = call
      BY <2>1 DEF Settle
    <3>3. cancelKey' = IF job[j].err = "cancel" THEN cancelKey \ {job[j].dep} ELSE cancelKey
      BY <2>1, Zenon DEF Settle
    <3>2. QED
      BY <3>1, <3>3
  <2>2. CASE UndoRoute(j) \/ UndoDetach(j) \/ MarkFailed(j) \/ Unpin(j)
    BY <2>2 DEF UndoRoute, UndoDetach, MarkFailed, Unpin
  <2>3. CASE Clear(j) \/ Canceled(j) \/ CommandFails(j)
    BY <2>3 DEF Clear, Canceled, CommandFails
  <2>4. QED
    BY <1>5, <2>1, <2>2, <2>3 DEF Recover
<1>6. QED
  BY <1>1, <1>2, <1>3, <1>4, <1>5 DEF Worker

LEMMA CancelStays ==
  ASSUME Calm, EarlyCancel, TypeInv, "cancel" \in Faults, NEW j \in Deployment, KindAt(j), CancelAt(j), Worker(j)
  PROVE  CancelAt(j)'
<1>t. /\ job \in [Job -> JobState] /\ j \in Job /\ status \in [Release -> ReleaseStatus]
      /\ owner \in [Release -> Deployment \cup {None}]
  BY DEF TypeInv, TypeOK, Job
<1>r. job[j].dep = j /\ ~IsRollback(j) /\ job[j].pc \notin Rolling \cup {"finishRollback", "unpin"}
  BY <1>t, JobAssumption DEF KindAt, IsRollback
<1>c. "ssh" \notin Faults
  BY DEF Calm
<1>k. cancelKey' \subseteq cancelKey /\ call'.kind # "cancel"
  BY KeysOnlyGo, <1>t DEF EarlyCancel, NoCall
<1>g. ASSUME NEW pc, Goto(j, pc), UNCHANGED owner,
             UNCHANGED status \/ pc \notin {"backup", "canary", "probe", "switch", "confirm", "commit"} \cup Committed,
             pc \in Uncommitted \cup Committed => job[j].pc \in Uncommitted \cup Committed,
             pc \in {"backup", "canary", "probe", "switch", "confirm", "commit"} =>
               job[j].pc \in {"backup", "canary", "probe", "switch", "confirm", "commit"},
             pc \in Committed => job[j].pc \in Committed,
             pc \in Irrevocable => job[j].pc \in Irrevocable \/ j \notin cancelKey
      PROVE  CancelAt(j)'
  <2>1. job'[j].pc = pc /\ job'[j].rel = job[j].rel
    BY <1>g, <1>t, GotoRecord
  <2>2. QED
    BY <1>g, <1>k, <2>1 DEF CancelAt
<1>o. job'[j].pc \notin Uncommitted \cup Committed => CancelAt(j)'
  BY DEF CancelAt, Irrevocable, Uncommitted, Committed
<1>h. ASSUME NEW err \in Error, Throw(j, err), UNCHANGED owner,
             job[j].pc = "begin" \/ job[j].pc \in Uncommitted \cup Committed
      PROVE  CancelAt(j)'
  <2>1. job'[j].pc = Handler(j, err) /\ job'[j].rel = job[j].rel
    BY <1>h, <1>t, ThrowRecord
  <2>2. CASE job[j].pc \in Uncommitted \cup Committed
    <3>0. Handler(j, err) \in {"undoRoute", "settle", "unpin", "clear", "markFailed"}
      BY <1>h, <1>t, HandlerType
    <3>1. job'[j].pc \in {"undoRoute", "settle", "unpin", "clear", "markFailed"}
      BY <2>1, <3>0
    <3>2. job'[j].pc \notin Irrevocable
      BY <3>1 DEF Irrevocable, Committed
    <3>3. job'[j].rel \in Release /\ owner'[job'[j].rel] = j
      BY <1>h, <2>1, <2>2 DEF CancelAt
    <3>4. QED
      BY <3>1, <3>2, <3>3 DEF CancelAt, Irrevocable
  <2>3. CASE job[j].pc = "begin"
    <3>1. Handler(j, err) \in {"clear", "settle"}
      BY <2>3, <1>r DEF Handler, Switching
    <3>2. QED
      BY <2>1, <3>1, <1>o DEF Uncommitted, Committed, Activating
  <2>4. QED
    BY <1>h, <2>2, <2>3
<1> USE DEF database
<1>1. CASE PickUp(j)
  BY <1>1, <1>g, <1>r DEF PickUp, Uncommitted, Committed, Activating, Irrevocable
<1>2. CASE Reconcile(j)
  <2>1. CASE NothingInterrupted(j) \/ Promote(j) \/ PromotionFails(j) \/ UndoPromotion(j)
             \/ Restore(j) \/ DetachStale(j)
    BY <2>1, <1>g DEF NothingInterrupted, Promote, PromotionFails, UndoPromotion, Restore, DetachStale, At,
       Uncommitted, Committed, Activating, Irrevocable
  <2>2. CASE ReadInterrupted(j)
    BY <2>2, <1>t, <1>o, ReadInterruptedRecord DEF Uncommitted, Committed, Activating
  <2>3. CASE ConfirmPromotion(j) \/ DropStale(j)
    BY <2>3, <1>t, <1>o, ReconciledRecord DEF Uncommitted, Committed, Activating
  <2>4. QED
    BY <1>2, <2>1, <2>2, <2>3 DEF Reconcile
<1>3. CASE Prepare(j)
  <2>1. CASE Replace(j) \/ Start(j) \/ Healthy(j) \/ RecordRuntime(j)
    BY <2>1, <1>g, <1>r DEF Replace, Start, Healthy, RecordRuntime, At, Uncommitted, Committed, Activating,
       Irrevocable, Rolling
  <2>2. CASE BeginRelease(j)
    <3>1. PICK r \in Unused : job'[j].pc = "replace" /\ job'[j].rel = r /\ owner' = [owner EXCEPT ![r] = j]
      BY <2>2, <1>t, <1>r, BegunRecord
    <3>2. r \in Release /\ owner'[r] = j
      BY <3>1, <1>t DEF Unused
    <3>3. QED
      BY <3>1, <3>2 DEF CancelAt, Irrevocable, Committed
  <2>3. CASE PickCandidate(j) \/ CandidateMissing(j)
    BY <2>3, <1>r DEF PickCandidate, CandidateMissing, At, Rolling
  <2>4. CASE Unhealthy(j)
    BY <2>4, <1>h, <1>r DEF Unhealthy, Error, Uncommitted, Rolling
  <2>5. QED
    BY <1>3, <2>1, <2>2, <2>3, <2>4 DEF Prepare
<1>4. CASE Activate(j)
  <2>1. CASE ReadActive(j)
    <3>1. UNCHANGED owner
      BY <2>1 DEF ReadActive
    <3>2. QED
      BY <2>1, <3>1, <1>t, ReadActiveRecord DEF CancelAt, Irrevocable, Committed, Uncommitted, Activating
  <2>2. CASE MarkActivating(j)
    <3>1. job[j].pc = "mark" /\ job'[j].pc = "backup" /\ job'[j].rel = job[j].rel /\ owner' = owner
      BY <2>2, <1>t, GotoRecord DEF MarkActivating, At
    <3>2. job[j].rel \in Release /\ owner[job[j].rel] = j
      BY <3>1 DEF CancelAt, Uncommitted, Activating
    <3>3. status'[job[j].rel] = "ACTIVATING"
      BY <2>2, <1>t, <3>2 DEF MarkActivating
    <3>4. QED
      BY <3>1, <3>2, <3>3 DEF CancelAt, Irrevocable, Committed
  <2>3. CASE BackUp(j)
    BY <2>3, <1>g, <1>r DEF BackUp, At, Wanted, Uncommitted, Committed
  <2>4. CASE Connect(j)
    BY <2>4, <1>g DEF Connect, At, Uncommitted, Committed, Activating, Irrevocable
  <2>5. CASE Canary(j) \/ ProbePasses(j) \/ Switch(j)
    BY <2>5, <1>g DEF Canary, ProbePasses, Switch, At, Uncommitted, Committed, Irrevocable
  <2>6. CASE Commit(j)
    <3>1. job[j].pc = "commit" /\ job'[j].pc = "detach" /\ job'[j].rel = job[j].rel /\ owner' = owner
      BY <2>6, <1>t, GotoRecord DEF Commit, At
    <3>2. job[j].rel \in Release /\ owner[job[j].rel] = j /\ j \notin cancelKey
      BY <3>1 DEF CancelAt, Uncommitted, Irrevocable
    <3>3. status'[job[j].rel] = "ACTIVE"
      BY <2>6, <1>t, <3>2 DEF Commit
    <3>4. QED
      BY <3>1, <3>2, <3>3, <1>k DEF CancelAt, Uncommitted, Activating
  <2>7. CASE DetachOld(j) \/ DropBackup(j) \/ Link(j)
    BY <2>7, <1>g, <1>r DEF DetachOld, DropBackup, Link, At, Uncommitted, Committed, Activating, Irrevocable
  <2>8. CASE ProbeFails(j)
    BY <2>8, <1>h DEF ProbeFails, Error, Uncommitted
  <2>9. CASE Finish(j)
    BY <2>9, <1>t, <1>o, FinishedRecord DEF Uncommitted, Committed, Activating
  <2>10. QED
    BY <1>4, <2>1, <2>2, <2>3, <2>4, <2>5, <2>6, <2>7, <2>8, <2>9 DEF Activate
<1>5. CASE Recover(j)
  <2>1. CASE UndoRoute(j) \/ UndoDetach(j)
    BY <2>1, <1>g DEF UndoRoute, UndoDetach, At, Uncommitted, Committed, Activating, Irrevocable
  <2>2. CASE MarkFailed(j)
    BY <2>2, <1>g, <1>r DEF MarkFailed, At, Uncommitted, Committed, Activating, Irrevocable
  <2>3. CASE Canceled(j)
    BY <2>3, <1>h, <1>r DEF Canceled, Checked, Error, Uncommitted, Committed, Activating, Rolling
  <2>4. CASE Clear(j)
    BY <2>4, <1>t, <1>o, ClearedRecord DEF Uncommitted, Committed, Activating
  <2>5. CASE Settle(j)
    BY <2>5, <1>t, <1>o, SettledRecord DEF Uncommitted, Committed, Activating
  <2>6. CASE Unpin(j)
    BY <2>6, <1>r DEF Unpin, At
  <2>7. QED
    BY <1>5, <1>c, <2>1, <2>2, <2>3, <2>4, <2>5, <2>6 DEF Recover, CommandFails
<1>6. QED
  BY <1>1, <1>2, <1>3, <1>4, <1>5 DEF Worker

------------------------------------------------------------------------------
KeepInv ==
  /\ KeptInv
  /\ CancelInv
  /\ \A j \in Job : KindAt(j) /\ RecordedAt(j)
  /\ \A d \in Deployment : OnceAt(d)

(* These program points are those of a run. *)
LEMMA RunningPoints ==
  /\ Working \subseteq Running /\ Recorded \subseteq Running
  /\ Waiting \subseteq Running \cup {"idle", "queued"}
  /\ Uncommitted \subseteq Working /\ Irrevocable \subseteq Working
  BY DEF Working, Uncommitted, Committed, Recorded, Waiting, Irrevocable, Running, Reconciling, Preparing,
     Promoting, Rolling, Activating, Switching, Activated, Failing

(* A release is given to a deployment by that deployment's own run only. *)
LEMMA OwnerStays ==
  ASSUME TypeInv, NEW j \in Job, KindAt(j), Worker(j), NEW d \in Deployment, d # j, NEW r \in Release,
         owner[r] # d
  PROVE  owner'[r] # d
<1>t. job \in [Job -> JobState] /\ owner \in [Release -> Deployment \cup {None}]
  BY DEF TypeInv, TypeOK
<1> USE DEF database
<1>1. CASE PickUp(j)
  BY <1>1 DEF PickUp
<1>2. CASE Reconcile(j)
  BY <1>2 DEF Reconcile, NothingInterrupted, ReadInterrupted, Promote, ConfirmPromotion, PromotionFails,
     UndoPromotion, Restore, DetachStale, DropStale
<1>3. CASE BeginRelease(j)
  <2>1. job[j].pc = "begin" /\ \E q \in Unused : owner' = [owner EXCEPT ![q] = job[j].dep]
    BY <1>3, <1>t, BegunRecord
  <2>2. job[j].dep = j
    BY <2>1 DEF KindAt, Preparing, Job
  <2>3. QED
    BY <2>1, <2>2, <1>t DEF Unused
<1>4. CASE Prepare(j)
  BY <1>3, <1>4 DEF Prepare, Replace, Start, Healthy, Unhealthy, RecordRuntime, PickCandidate,
     CandidateMissing
<1>5. CASE Activate(j)
  BY <1>5 DEF Activate, ReadActive, Connect, MarkActivating, BackUp, Canary, ProbePasses, ProbeFails, Switch,
     Commit, DetachOld, DropBackup, Link, Finish
<1>6. CASE Recover(j)
  BY <1>6 DEF Recover, UndoRoute, UndoDetach, MarkFailed, Clear, Unpin, Settle, Canceled, CommandFails
<1>7. QED
  BY <1>1, <1>2, <1>4, <1>5, <1>6 DEF Worker

(* A step of a run keeps the invariant: what the run relies on by the lemmas
   above, what another relies on because it is not under way.              *)
LEMMA RunKeeps ==
  ASSUME Calm, EarlyCancel, TypeInv, LockInv, ActInv, LiveInv, KeepInv, NEW j \in Job, Worker(j)
  PROVE  KeepInv'
<1>t. job \in [Job -> JobState]
  BY DEF TypeInv, TypeOK
<1>j. KindAt(j) /\ RecordedAt(j) /\ ActiveRead(j) /\ LiveAt(j) /\ (j \in Deployment => OnceAt(j))
  BY DEF KeepInv, ActInv, LiveInv
<1>o. ASSUME NEW k \in Job, k # j PROVE job'[k] = job[k] /\ job[k].pc \notin Running
  BY <1>o, <1>t, OthersUntouched, RunsAlone
<1>w. j \in Deployment /\ job[j].pc \in {"link", "finish"} => Wanted(j)
  BY <1>j DEF KeepInv, CancelInv, CancelAt, Irrevocable, Committed, KindAt, Wanted
<1>r. RecordedAt(j)' /\ runtime \subseteq runtime'
  BY <1>j, RecordedStays
<1>1. KeptInv'
  BY <1>j, KeptStays DEF KeepInv
<1>2. CancelInv'
  <2>1. CASE "cancel" \notin Faults
    BY <2>1, KeysOnlyGo DEF KeepInv, CancelInv
  <2>2. CASE "cancel" \in Faults
    <3> SUFFICES ASSUME NEW d \in Deployment PROVE CancelAt(d)'
      BY <2>2 DEF CancelInv
    <3>1. CASE d = j
      BY <2>2, <3>1, <1>j, CancelStays DEF KeepInv, CancelInv
    <3>2. CASE d # j
      <4>1. job'[d].pc \notin Running
        BY <3>2, <1>o DEF Job
      <4>2. /\ job'[d].pc \notin Uncommitted \cup Committed /\ job'[d].pc \notin Irrevocable
            /\ job'[d].pc \notin {"backup", "canary", "probe", "switch", "confirm", "commit"}
        BY <4>1, RunningPoints DEF Working, Uncommitted
      <4>3. QED
        BY <4>2 DEF CancelAt
    <3>3. QED
      BY <3>1, <3>2
  <2>3. QED
    BY <2>1, <2>2
<1>3. ASSUME NEW k \in Job PROVE KindAt(k)' /\ RecordedAt(k)'
  <2>1. CASE k = j
    BY <2>1, <1>j, <1>r, KindStays
  <2>2. CASE k # j
    BY <2>2, <1>o, <1>r DEF KeepInv, KindAt, RecordedAt
  <2>3. QED
    BY <2>1, <2>2
<1>4. ASSUME NEW d \in Deployment PROVE OnceAt(d)'
  <2>1. CASE d = j
    BY <2>1, <1>j, <1>w, OnceStays DEF KeepInv
  <2>2. CASE d # j
    <3>1. job'[d] = job[d] /\ job[d].pc \notin Running
      BY <2>2, <1>o DEF Job
    <3>2. job[d].pc \notin Working /\ job[d].pc \notin Uncommitted \cup {"clear"}
      BY <3>1, RunningPoints DEF Working
    <3>3. OnceAt(d) /\ \A r \in Release : owner[r] # d => owner'[r] # d
      BY <2>2, <1>j, OwnerStays DEF KeepInv
    <3>4. QED
      BY <3>1, <3>2, <3>3 DEF OnceAt
  <2>3. QED
    BY <2>1, <2>2
<1>5. QED
  BY <1>1, <1>2, <1>3, <1>4 DEF KeepInv

(* A call of the API keeps it. *)
LEMMA ApiKeeps ==
  ASSUME Calm, EarlyCancel, TypeInv, KeepInv, Api
  PROVE  KeepInv'
<1>t. /\ job \in [Job -> JobState] /\ status \in [Release -> ReleaseStatus] /\ active \in Release \cup {None}
      /\ call.kind = "cancel" => call.target \in Deployment
  BY DEF TypeInv, TypeOK, CallInv
<1>i. /\ KeptInv /\ CancelInv
      /\ \A j \in Job : KindAt(j) /\ RecordedAt(j)
      /\ \A d \in Deployment : OnceAt(d) /\ d \in Job
  BY DEF KeepInv, Job
<1>n. /\ "idle" \notin Working /\ "queued" \notin Working \cup Recorded
      /\ "queued" \notin Irrevocable /\ "queued" \in Waiting /\ "idle" \in Waiting
      /\ "queued" \notin Uncommitted \cup Committed \cup {"clear"}
      /\ "queued" \notin Rolling \cup {"finishRollback", "unpin"}
      /\ "queued" \notin Reconciling \cup Preparing \cup {"link", "finish", "markFailed", "clear"}
  BY DEF Working, Uncommitted, Committed, Recorded, Waiting, Irrevocable, Reconciling, Preparing, Promoting,
     Rolling, Activating
<1> USE DEF database, vps
<1>1. ASSUME NEW d \in Deployment, RequestDeploy(d) PROVE KeepInv'
  <2>1. job[d].pc = "idle" /\ Goto(d, "queued") /\ d \in Job /\ UNCHANGED <<database, vps, call, cancelKey>>
    BY <1>1, <1>i DEF RequestDeploy, At
  <2>2. job'[d].pc = "queued" /\ job'[d].dep = job[d].dep /\ job'[d].rel = job[d].rel /\ job'[d].err = job[d].err
    BY <2>1, <1>t, GotoRecord
  <2>3. \A k \in Job : k # d => job'[k] = job[k]
    BY <2>1, <1>t DEF Goto
  <2>4. \A k \in Job : KindAt(k)' /\ RecordedAt(k)'
    BY <2>1, <2>2, <2>3, <1>i, <1>n DEF KindAt, RecordedAt
  <2>5. \A e \in Deployment : OnceAt(e)'
    BY <2>1, <2>2, <2>3, <1>i, <1>n DEF OnceAt
  <2>6. \A e \in Deployment : CancelAt(e) => CancelAt(e)'
    BY <2>1, <2>2, <2>3, <1>i, <1>n DEF CancelAt
  <2>7. KeptInv'
    BY <2>1, <1>i DEF KeptInv, PriorRetained
  <2>8. QED
    BY <2>1, <2>4, <2>5, <2>6, <2>7, <1>i DEF KeepInv, CancelInv
<1>2. ASSUME NEW d \in Deployment, CheckCancel(d) PROVE KeepInv'
  <2>1. /\ "cancel" \in Faults /\ UNCHANGED <<database, vps, job, cancelKey>>
        /\ call' = [kind |-> "cancel", target |-> d, seen |-> None]
        /\ \A r \in Newest(d) : status[r] \notin {"ACTIVATING", "ACTIVE"}
    BY <1>2 DEF CheckCancel
  <2>2. job[d].pc \notin Irrevocable
    <3> SUFFICES ASSUME job[d].pc \in Irrevocable PROVE FALSE
      OBVIOUS
    <3>1. CancelAt(d) /\ OnceAt(d)
      BY <2>1, <1>i DEF CancelInv
    <3>2. job[d].pc \in Working /\ job[d].pc \in Uncommitted \cup Committed
      BY DEF Irrevocable, Working, Uncommitted
    <3>3. job[d].rel \in Release /\ owner[job[d].rel] = d /\ status[job[d].rel] \in {"ACTIVATING", "ACTIVE"}
      BY <3>1, <3>2 DEF CancelAt, Irrevocable
    <3>4. \A q \in Release : owner[q] = d => q = job[d].rel
      BY <3>1, <3>2 DEF OnceAt
    <3>5. job[d].rel \in Newest(d)
      BY <3>3, <3>4, BoundAssumption DEF Newest, Release
    <3>6. QED
      BY <2>1, <3>3, <3>5
  <2>3. \A e \in Deployment : CancelAt(e)'
    BY <2>1, <2>2, <1>i DEF CancelInv, CancelAt
  <2>4. QED
    BY <2>1, <2>3, <1>i DEF KeepInv, CancelInv, KeptInv, PriorRetained, KindAt, RecordedAt, OnceAt
<1>3. ASSUME NEW r \in Release, ReadRollback(r) PROVE KeepInv'
  <2>1. UNCHANGED <<database, vps, job, cancelKey>> /\ call'.kind = "rollback"
    BY <1>3 DEF ReadRollback
  <2>2. CancelInv'
    BY <2>1, <1>i DEF CancelInv, CancelAt
  <2>3. QED
    BY <2>1, <2>2, <1>i DEF KeepInv, KeptInv, PriorRetained, KindAt, RecordedAt, OnceAt
<1>4. ASSUME NEW j \in Rollback, CommitRollback(j) PROVE KeepInv'
  <2>1. /\ j \in Job /\ j \notin Deployment /\ "cancel" \notin Faults
        /\ UNCHANGED <<owner, runtime, active, vps, cancelKey>> /\ call' = NoCall
    BY <1>4, JobAssumption DEF EarlyCancel, Job, CommitRollback
  <2>2. job' = [job EXCEPT ![j] = [job[j] EXCEPT !.pc = "queued", !.dep = owner[call.target]]]
    BY <1>4 DEF CommitRollback
  <2>3. /\ job'[j].pc = "queued" /\ job'[j].err = job[j].err
        /\ \A k \in Job : k # j => job'[k] = job[k]
    BY <2>1, <2>2, <1>t DEF JobState
  <2>4. \A q \in Release : \/ status'[q] = status[q]
                           \/ status'[q] \in {"CANDIDATE", "FAILED"}
    BY <1>4 DEF CommitRollback
  <2>5. KeptInv'
    BY <2>1, <2>4, <1>i, <1>t DEF KeptInv, PriorRetained
  <2>6. \A k \in Job : KindAt(k)' /\ RecordedAt(k)'
    BY <2>1, <2>3, <1>i, <1>n DEF KindAt, RecordedAt
  <2>7. ASSUME NEW d \in Deployment PROVE OnceAt(d)'
    <3>1. OnceAt(d) /\ job'[d] = job[d] /\ (job[d].rel # None => job[d].rel \in Release)
      BY <2>1, <2>3, <1>i, <1>t DEF JobState
    <3>2. QED
      BY <3>1, <2>1, <2>4 DEF OnceAt
  <2>8. QED
    BY <2>1, <2>5, <2>6, <2>7, <1>i DEF KeepInv, CancelInv, NoCall
<1>5. CASE CommitCancel
  <2>1. /\ call.kind = "cancel" /\ cancelKey' = cancelKey \cup {call.target} /\ call' = NoCall
        /\ UNCHANGED <<database, vps, job>>
    BY <1>5 DEF CommitCancel
  <2>2. "cancel" \in Faults /\ \A e \in Deployment : CancelAt(e)
    BY <2>1, <1>i DEF CancelInv
  <2>3. \A e \in Deployment : CancelAt(e)'
    BY <2>1, <2>2 DEF CancelAt, NoCall
  <2>4. QED
    BY <2>1, <2>2, <2>3, <1>i DEF KeepInv, CancelInv, KeptInv, PriorRetained, KindAt, RecordedAt, OnceAt
<1>6. QED
  BY <1>1, <1>2, <1>3, <1>4, <1>5 DEF Api

(* PriorRetained and LiveContainerKept are not inductive: a run removes the
   containers of a deployment by label, and what rules out that a live or a
   former release is among them is that a deployment owns at most the release
   its own run works on, which is not yet active, and that a run that has
   committed meets no cancellation any more.                               *)
THEOREM KeepInductive == Calm /\ EarlyCancel => (Spec => []KeepInv)
<1> SUFFICES ASSUME Calm, EarlyCancel PROVE Spec => []KeepInv
  OBVIOUS
<1>l. "lapse" \notin Faults
  BY DEF Calm
<1>1. Init => KeepInv
  <2> SUFFICES ASSUME Init PROVE KeepInv
    OBVIOUS
  <2>1. ASSUME NEW j \in Job
        PROVE  /\ job[j].pc = "idle" /\ job[j].err = "none" /\ job[j].rel = None
               /\ j \in Deployment => job[j].dep = j
    BY DEF Init, NoJob
  <2>2. KeptInv
    BY DEF Init, KeptInv, PriorRetained
  <2>3. CancelInv
    <3>1. \A d \in Deployment : job[d].pc = "idle"
      BY <2>1 DEF Job
    <3>2. QED
      BY <3>1 DEF Init, NoCall, CancelInv, CancelAt, Irrevocable, Committed, Uncommitted, Activating
  <2>4. \A j \in Job : KindAt(j) /\ RecordedAt(j)
    BY <2>1 DEF KindAt, RecordedAt, Recorded, Promoting, Activating, Rolling, Reconciling, Preparing
  <2>5. ASSUME NEW d \in Deployment PROVE OnceAt(d)
    <3>1. d \in Job /\ d # None /\ \A r \in Release : owner[r] = None
      BY NoneAssumption DEF Job, Init
    <3>2. QED
      BY <2>1, <3>1 DEF OnceAt, Working, Uncommitted, Committed, Activating
  <2>6. QED
    BY <2>2, <2>3, <2>4, <2>5 DEF KeepInv
<1>2. OneActiveInv /\ LiveInv /\ KeepInv /\ [Next]_vars => KeepInv'
  <2> SUFFICES ASSUME TypeInv, LockInv, ActInv, LiveInv, KeepInv, [Next]_vars PROVE KeepInv'
    BY DEF OneActiveInv
  <2>1. CASE Api
    BY <2>1, ApiKeeps
  <2>2. ASSUME NEW j \in Job, Worker(j) PROVE KeepInv'
    BY <2>2, RunKeeps
  <2>3. CASE UNCHANGED vars
    BY <2>3 DEF vars, database, vps, KeepInv, KeptInv, PriorRetained, CancelInv, CancelAt, KindAt, RecordedAt,
       OnceAt
  <2>4. ~Lapse /\ \A j \in Job : ~Crash(j)
    <3>1. (Lapse => "lapse" \in Faults) /\ \A j \in Job : Crash(j) => "crash" \in Faults
      BY Zenon DEF Lapse, Crash
    <3>2. QED
      BY <3>1 DEF Calm
  <2>5. QED
    BY <2>1, <2>2, <2>3, <2>4 DEF Next
<1>3. QED
  BY <1>1, <1>2, <1>l, OneActiveInductive, LiveInductive, PTL DEF Spec

(* The prior releases stay what a rollback needs: a recorded runtime and a
   container (PriorRetained), as long as commands are carried out and neither
   workers nor locks are lost, through failing health checks and probes,
   rollbacks and interleaved API calls, and through cancellations that no
   rollback runs beside: removal by label in executeDeployment and in
   cancelDeployment's cleanup never reaches them.                          *)
THEOREM PriorIsRetained == Calm /\ EarlyCancel => (Spec => []PriorRetained)
<1>1. KeepInv => PriorRetained
  BY DEF KeepInv, KeptInv
<1>2. QED
  BY <1>1, KeepInductive, PTL

(* Under the same conditions no run removes the container of the release the
   project has active (LiveContainerKept).                                 *)
THEOREM LiveContainerStays == Calm /\ EarlyCancel => (Spec => []LiveContainerKept)
<1>1. KeepInv => LiveContainerKept
  BY DEF KeepInv, KeptInv, LiveContainerKept
<1>2. QED
  BY <1>1, KeepInductive, PTL

------------------------------------------------------------------------------
(* Between the moment a run takes up a release and the moment it commits it,
   that release is not the active one.                                     *)
Away == Uncommitted \cup {"promote", "confirmPromotion", "undoPromotion", "restore", "detachStale",
                          "dropStale", "recheck"}

AwayAt(j) == job[j].pc \in Away /\ job[j].rel # None => job[j].rel # active

LiveStatus == active # None => status[active] = "ACTIVE" /\ candidate # active

IntactInv ==
  /\ LiveStatus
  /\ call.kind = "rollback" => call.target # active
  /\ \A j \in Job : AwayAt(j)

(* A run that steps into Away on the way to its commit keeps its release; the
   others take one up that is not active.                                  *)
LEMMA AwayStays ==
  ASSUME Calm, TypeInv, KeptInv, LiveStatus, NEW j \in Job, KindAt(j), AwayAt(j), Worker(j)
  PROVE  AwayAt(j)'
<1>t. /\ job \in [Job -> JobState] /\ None \notin Release
      /\ candidate \in Release \cup {None} /\ runtime \subseteq Release
  BY NoneAssumption DEF TypeInv, TypeOK
<1>c. "ssh" \notin Faults
  BY DEF Calm
<1>g. ASSUME NEW pc, Goto(j, pc), UNCHANGED active, pc \in Away => job[j].pc \in Away
      PROVE  AwayAt(j)'
  <2>1. job'[j].pc = pc /\ job'[j].rel = job[j].rel
    BY <1>g, <1>t, GotoRecord
  <2>2. QED
    BY <1>g, <2>1 DEF AwayAt
<1>h. ASSUME NEW err \in Error, Throw(j, err), UNCHANGED active,
             job[j].pc \in Away \cup Reconciling \cup {"begin", "pick"} \cup Activated
      PROVE  AwayAt(j)'
  <2>1. job'[j].pc = Handler(j, err) /\ job'[j].rel = job[j].rel
    BY <1>h, <1>t, ThrowRecord
  <2>2. CASE job[j].pc \in Away
    <3>1. job[j].rel # None => job[j].rel # active
      BY <2>2 DEF AwayAt
    <3>2. active' = active /\ job'[j].rel = job[j].rel
      BY <1>h, <2>1
    <3>3. QED
      BY <3>1, <3>2 DEF AwayAt
  <2>3. CASE job[j].pc \in Reconciling \cup {"begin", "pick"} \cup Activated
    <3>1. Handler(j, err) \in {"settle", "unpin", "clear"}
      BY <1>h, <2>3 DEF Handler, Switching, Reconciling, Activated, At, KindAt, IsRollback, Rolling, Job
    <3>2. job'[j].pc \notin Away
      BY <2>1, <3>1 DEF Away, Uncommitted, Activating
    <3>3. QED
      BY <3>2 DEF AwayAt
  <2>4. QED
    BY <1>h, <2>2, <2>3
<1>o. job'[j].pc \notin Away => AwayAt(j)'
  BY DEF AwayAt
<1> USE DEF database
<1>1. CASE PickUp(j)
  BY <1>1, <1>g DEF PickUp, Away, Uncommitted, Activating
<1>2. CASE Reconcile(j)
  <2>1. CASE NothingInterrupted(j) \/ Promote(j) \/ PromotionFails(j) \/ UndoPromotion(j)
             \/ Restore(j) \/ DetachStale(j)
    BY <2>1, <1>g DEF NothingInterrupted, Promote, PromotionFails, UndoPromotion, Restore, DetachStale,
       At, Away,
       Uncommitted, Activating
  <2>2. CASE ReadInterrupted(j)
    <3>1. UNCHANGED active
      BY <2>2 DEF ReadInterrupted
    <3>2. candidate # None /\ job'[j].rel = candidate
      BY <2>2, <1>t, ReadInterruptedRecord
    <3>3. QED
      BY <3>1, <3>2 DEF AwayAt, LiveStatus
  <2>3. CASE ConfirmPromotion(j) \/ DropStale(j)
    BY <2>3, <1>t, <1>o, ReconciledRecord DEF Away, Uncommitted, Activating
  <2>4. QED
    BY <1>2, <2>1, <2>2, <2>3 DEF Reconcile
<1>3. CASE Prepare(j)
  <2>1. CASE Replace(j) \/ Start(j) \/ Healthy(j) \/ RecordRuntime(j)
    BY <2>1, <1>g DEF Replace, Start, Healthy, RecordRuntime, At, Away, Uncommitted
  <2>2. CASE BeginRelease(j)
    <3>1. \E r \in Unused : job'[j].rel = r
      BY <2>2, <1>t, BegunRecord
    <3>2. UNCHANGED active
      BY <2>2 DEF BeginRelease
    <3>3. QED
      BY <3>1, <3>2, <1>t DEF AwayAt, Unused, KeptInv
  <2>3. CASE PickCandidate(j)
    <3>1. UNCHANGED active
      BY <2>3 DEF PickCandidate
    <3>2. candidate \in runtime /\ job'[j].rel = candidate
      BY <2>3, <1>t, PickedRecord
    <3>3. QED
      BY <3>1, <3>2, <1>t DEF AwayAt, LiveStatus
  <2>4. CASE CandidateMissing(j) \/ Unhealthy(j)
    BY <2>4, <1>h DEF CandidateMissing, Unhealthy, At, Away, Uncommitted, Error
  <2>5. QED
    BY <1>3, <2>1, <2>2, <2>3, <2>4 DEF Prepare
<1>4. CASE Activate(j)
  <2>1. CASE ReadActive(j)
    <3>1. UNCHANGED active
      BY <2>1 DEF ReadActive
    <3>2. QED
      BY <2>1, <3>1, <1>t, ReadActiveRecord DEF AwayAt, Away, Uncommitted, Activating
  <2>2. CASE Connect(j) \/ MarkActivating(j) \/ BackUp(j) \/ Canary(j) \/ ProbePasses(j) \/ Switch(j)
    BY <2>2, <1>g DEF Connect, MarkActivating, BackUp, Canary, ProbePasses, Switch, At, Away,
       Uncommitted, Activating
  <2>3. CASE DetachOld(j) \/ DropBackup(j) \/ Link(j)
    BY <2>3, <1>g DEF DetachOld, DropBackup, Link, Away, Uncommitted, Activating
  <2>4. CASE Commit(j)
    <3>1. job'[j].pc = "detach"
      BY <2>4, <1>t, GotoRecord DEF Commit
    <3>2. QED
      BY <3>1, <1>o DEF Away, Uncommitted, Activating
  <2>5. CASE ProbeFails(j)
    BY <2>5, <1>h DEF ProbeFails, Error, Away, Uncommitted
  <2>6. CASE Finish(j)
    BY <2>6, <1>t, <1>o, FinishedRecord DEF Away, Uncommitted, Activating
  <2>7. QED
    BY <1>4, <2>1, <2>2, <2>3, <2>4, <2>5, <2>6 DEF Activate
<1>5. CASE Recover(j)
  <2>1. CASE UndoRoute(j) \/ UndoDetach(j) \/ MarkFailed(j) \/ Unpin(j)
    BY <2>1, <1>g DEF UndoRoute, UndoDetach, MarkFailed, Unpin, At, Away, Uncommitted, Activating
  <2>2. CASE Canceled(j)
    BY <2>2, <1>h DEF Canceled, Checked, Error, Away, Uncommitted, Activating, Activated
  <2>3. CASE Clear(j)
    BY <2>3, <1>t, <1>o, ClearedRecord DEF Away, Uncommitted, Activating
  <2>4. CASE Settle(j)
    BY <2>4, <1>t, <1>o, SettledRecord DEF Away, Uncommitted, Activating
  <2>5. QED
    BY <1>5, <1>c, <2>1, <2>2, <2>3, <2>4 DEF Recover, CommandFails
<1>6. QED
  BY <1>1, <1>2, <1>3, <1>4, <1>5 DEF Worker

(* No step of a run rewrites the status of the active release or makes it the
   candidate.                                                               *)
LEMMA LiveStatusStays ==
  ASSUME TypeInv, KeptInv, LiveStatus, NEW j \in Job, AwayAt(j), ActiveRead(j), LiveAt(j), Worker(j)
  PROVE  LiveStatus'
<1>t. /\ status \in [Release -> ReleaseStatus] /\ active \in Release \cup {None} /\ None \notin Release
      /\ job \in [Job -> JobState]
  BY NoneAssumption DEF TypeInv, TypeOK
<1>u. ASSUME UNCHANGED <<status, active, candidate>> PROVE LiveStatus'
  BY <1>u DEF LiveStatus
<1>w. ASSUME NEW st, status' = [status EXCEPT ![job[j].rel] = st], UNCHANGED active, candidate' \in {candidate, None},
             job[j].pc \in Away
      PROVE  LiveStatus'
  BY <1>w, <1>t DEF LiveStatus, AwayAt
<1> USE DEF database
<1>1. CASE PickUp(j)
  BY <1>1, <1>u DEF PickUp
<1>2. CASE Reconcile(j)
  <2>1. CASE ConfirmPromotion(j)
    <3>1. /\ status' = [status EXCEPT ![job[j].rel] = "ACTIVE"] /\ active' = job[j].rel /\ candidate' = None
          /\ job[j].rel \in up
      BY <2>1 DEF ConfirmPromotion, Reachable
    <3>2. job[j].rel \in Release
      BY <3>1 DEF TypeInv, TypeOK
    <3>3. QED
      BY <3>1, <3>2, <1>t DEF LiveStatus
  <2>2. CASE DropStale(j)
    BY <2>2, <1>w DEF DropStale, At, Away
  <2>3. CASE NothingInterrupted(j) \/ ReadInterrupted(j) \/ Promote(j) \/ PromotionFails(j)
             \/ UndoPromotion(j)
             \/ Restore(j) \/ DetachStale(j)
    BY <2>3, <1>u DEF NothingInterrupted, ReadInterrupted, Promote, PromotionFails, UndoPromotion,
       Restore, DetachStale
  <2>4. QED
    BY <1>2, <2>1, <2>2, <2>3 DEF Reconcile
<1>3. CASE Prepare(j)
  <2>1. CASE BeginRelease(j)
    <3>1. PICK r \in Unused :
            /\ candidate' = r
            /\ status' = [q \in Release |-> IF q = r THEN "BUILDING"
                                            ELSE IF q = candidate /\ status[q] # "ACTIVE" THEN "FAILED"
                                            ELSE status[q]]
      BY <2>1, <1>t, BegunRecord
    <3>2. UNCHANGED active
      BY <2>1 DEF BeginRelease
    <3>3. QED
      BY <3>1, <3>2, <1>t DEF Unused, KeptInv, LiveStatus
  <2>2. CASE RecordRuntime(j)
    BY <2>2, <1>w DEF RecordRuntime, At, Away, Uncommitted
  <2>3. CASE Replace(j) \/ Start(j) \/ Healthy(j) \/ Unhealthy(j) \/ PickCandidate(j) \/ CandidateMissing(j)
    BY <2>3, <1>u DEF Replace, Start, Healthy, Unhealthy, PickCandidate, CandidateMissing
  <2>4. QED
    BY <1>3, <2>1, <2>2, <2>3 DEF Prepare
<1>4. CASE Activate(j)
  <2>1. CASE ReadActive(j) \/ MarkActivating(j)
    BY <2>1, <1>w DEF ReadActive, MarkActivating, At, Away, Uncommitted, Activating
  <2>2. CASE Commit(j)
    <3>1. active' = job[j].rel /\ candidate' = None /\ job[j].rel \in up
      BY <2>2 DEF Commit, At, LiveAt, Late, Reachable
    <3>2. job[j].rel \in Release
      BY <3>1 DEF TypeInv, TypeOK
    <3>3. status'[job[j].rel] = "ACTIVE"
      BY <2>2, <3>2 DEF Commit
    <3>4. QED
      BY <3>1, <3>2, <3>3, <1>t DEF LiveStatus
  <2>3. CASE Connect(j) \/ BackUp(j) \/ Canary(j) \/ ProbePasses(j) \/ ProbeFails(j) \/ Switch(j)
             \/ DetachOld(j)
             \/ DropBackup(j) \/ Link(j) \/ Finish(j)
    BY <2>3, <1>u DEF Connect, BackUp, Canary, ProbePasses, ProbeFails, Switch, DetachOld, DropBackup,
       Link, Finish
  <2>4. QED
    BY <1>4, <2>1, <2>2, <2>3 DEF Activate
<1>5. CASE Recover(j)
  <2>1. CASE MarkFailed(j)
    BY <2>1, <1>w DEF MarkFailed, Away, Uncommitted
  <2>2. CASE UndoRoute(j) \/ UndoDetach(j) \/ Clear(j) \/ Unpin(j) \/ Settle(j) \/ Canceled(j)
             \/ CommandFails(j)
    BY <2>2, <1>u DEF UndoRoute, UndoDetach, Clear, Unpin, Settle, Canceled, CommandFails
  <2>3. QED
    BY <1>5, <2>1, <2>2 DEF Recover
<1>6. QED
  BY <1>1, <1>2, <1>3, <1>4, <1>5 DEF Worker

(* The same for a call of the API: a rollback request names a release that was
   not active when it was read, and no run has moved since.                *)
LEMMA ApiKeepsIntact ==
  ASSUME TypeInv, IntactInv, Api
  PROVE  IntactInv'
<1>t. /\ status \in [Release -> ReleaseStatus] /\ job \in [Job -> JobState] /\ active \in Release \cup {None}
      /\ call.kind = "rollback" => call.target \in Release
  BY DEF TypeInv, TypeOK, CallInv
<1>n. {"idle", "queued"} \cap Away = {}
  BY DEF Away, Uncommitted, Activating
<1> USE DEF database
<1>1. ASSUME NEW d \in Deployment, RequestDeploy(d) PROVE IntactInv'
  <2>1. Goto(d, "queued") /\ d \in Job /\ UNCHANGED <<database, call>>
    BY <1>1 DEF RequestDeploy, Job
  <2>2. job'[d].pc = "queued" /\ \A k \in Job : k # d => job'[k] = job[k]
    BY <2>1, <1>t, GotoRecord DEF Goto
  <2>3. QED
    BY <2>1, <2>2, <1>n DEF IntactInv, LiveStatus, AwayAt
<1>2. ASSUME NEW d \in Deployment, CheckCancel(d) PROVE IntactInv'
  BY <1>2 DEF CheckCancel, IntactInv, LiveStatus, AwayAt
<1>3. ASSUME NEW r \in Release, ReadRollback(r) PROVE IntactInv'
  BY <1>3 DEF ReadRollback, IntactInv, LiveStatus, AwayAt
<1>4. ASSUME NEW j \in Rollback, CommitRollback(j) PROVE IntactInv'
  <2>1. j \in Job /\ call.kind = "rollback" /\ candidate' = call.target /\ UNCHANGED active /\ call' = NoCall
    BY <1>4 DEF Job, CommitRollback
  <2>2. job' = [job EXCEPT ![j] = [job[j] EXCEPT !.pc = "queued", !.dep = owner[call.target]]]
    BY <1>4 DEF CommitRollback
  <2>3. job'[j].pc = "queued" /\ \A k \in Job : k # j => job'[k] = job[k]
    BY <2>1, <2>2, <1>t DEF JobState
  <2>4. \A r \in Release : r # call.target /\ status[r] = "ACTIVE" => status'[r] = "ACTIVE"
    BY <1>4 DEF CommitRollback
  <2>5. LiveStatus'
    BY <2>1, <2>4, <1>t DEF IntactInv, LiveStatus
  <2>6. QED
    BY <2>1, <2>3, <2>5, <1>n DEF IntactInv, AwayAt, NoCall
<1>5. CASE CommitCancel
  BY <1>5 DEF CommitCancel, NoCall, IntactInv, LiveStatus, AwayAt
<1>6. QED
  BY <1>1, <1>2, <1>3, <1>4, <1>5 DEF Api

THEOREM IntactInductive == Calm /\ EarlyCancel /\ "race" \notin Faults => (Spec => []IntactInv)
<1> SUFFICES ASSUME Calm, EarlyCancel, "race" \notin Faults PROVE Spec => []IntactInv
  OBVIOUS
<1>l. "lapse" \notin Faults
  BY DEF Calm
<1>1. Init => IntactInv
  BY DEF Init, NoJob, NoCall, IntactInv, LiveStatus, AwayAt
<1>2. OneActiveInv /\ LiveInv /\ KeepInv /\ IntactInv /\ [Next]_vars => IntactInv'
  <2> SUFFICES ASSUME TypeInv, LockInv, ActInv, LiveInv, KeepInv, IntactInv, [Next]_vars PROVE IntactInv'
    BY DEF OneActiveInv
  <2>1. CASE Api
    BY <2>1, ApiKeepsIntact
  <2>2. ASSUME NEW j \in Job, Worker(j) PROVE IntactInv'
    <3>1. call = NoCall /\ call' = NoCall
      BY <2>2, KeysOnlyGo
    <3>2. KeptInv /\ KindAt(j) /\ AwayAt(j) /\ ActiveRead(j) /\ LiveAt(j) /\ LiveStatus
      BY DEF KeepInv, IntactInv, ActInv, LiveInv
    <3>3. LiveStatus' /\ AwayAt(j)'
      BY <2>2, <3>2, AwayStays, LiveStatusStays
    <3>4. ASSUME NEW k \in Job, k # j PROVE AwayAt(k)'
      <4>1. job'[k] = job[k] /\ job[k].pc \notin Running
        BY <2>2, <3>4, OthersUntouched, RunsAlone DEF TypeInv, TypeOK
      <4>2. Away \subseteq Running
        BY RunningPoints DEF Away, Working, Running, Reconciling, Rolling
      <4>3. QED
        BY <4>1, <4>2 DEF AwayAt
    <3>5. QED
      BY <3>1, <3>3, <3>4 DEF IntactInv, NoCall
  <2>3. CASE UNCHANGED vars
    BY <2>3 DEF vars, database, IntactInv, LiveStatus, AwayAt
  <2>4. ~Lapse /\ \A j \in Job : ~Crash(j)
    <3>1. (Lapse => "lapse" \in Faults) /\ \A j \in Job : Crash(j) => "crash" \in Faults
      BY Zenon DEF Lapse, Crash
    <3>2. QED
      BY <3>1 DEF Calm
  <2>5. QED
    BY <2>1, <2>2, <2>3, <2>4 DEF Next
<1>3. QED
  BY <1>1, <1>2, <1>l, OneActiveInductive, LiveInductive, KeepInductive, PTL DEF Spec

(* The active release keeps its container and is never marked FAILED
   (ActiveIsIntact), neither by markReadinessFailed and the reconciliation of
   a deploy run nor by the rewriting of candidates in rollback(), as long as
   no worker step comes between the read and the write of an API call.     *)
THEOREM ActiveStaysIntact ==
  Calm /\ EarlyCancel /\ "race" \notin Faults => (Spec => []ActiveIsIntact)
<1>1. KeepInv /\ IntactInv => ActiveIsIntact
  BY DEF KeepInv, KeptInv, IntactInv, LiveStatus, ActiveIsIntact, LiveContainerKept
<1>2. QED
  BY <1>1, KeepInductive, IntactInductive, PTL

------------------------------------------------------------------------------
(* What a run finds and leaves on the gateway, point by point. *)
Clean == route = active /\ attached \subseteq {active} /\ backup = None

Steady == {"reconcile", "promote", "restore", "detachStale", "dropStale"} \cup Preparing \cup Rolling
            \cup {"read", "connect"} \cup Activated \cup {"undoMark", "markFailed", "clear", "unpin", "settle"}

Wiring == {"mark", "backup", "canary", "probe", "switch", "confirm", "commit", "undoRoute", "undoDetach"}

WiredAt(j) ==
  LET pc  == job[j].pc
      rel == job[j].rel
      act == job[j].act
  IN
  /\ pc \in Steady => Clean
  /\ pc = "restore" => act = active
  /\ pc \in {"confirmPromotion", "undoPromotion"} =>
       active = None /\ route = rel /\ attached \subseteq {rel} /\ backup = None
  /\ pc \in Wiring => attached \subseteq {active, rel}
  /\ pc \in {"mark", "backup", "undoDetach"} => route = active /\ backup = None
  /\ pc = "canary" => route = active
  /\ pc \in {"canary", "probe", "switch", "confirm", "commit", "undoRoute"} => backup = active
  /\ pc \in {"probe", "switch"} => route = IF active = None THEN rel ELSE active
  /\ pc = "detach" => attached \subseteq {act, rel}
  /\ pc = "cleanup" => attached \subseteq {rel}

CleanInv ==
  /\ lock = None => Clean
  /\ lock # None => job[lock].pc \in Running
  /\ \A j \in Job : WiredAt(j)

LEMMA WiredStays ==
  ASSUME Calm, TypeInv, NEW j \in Job, KindAt(j), Wanted(j), ActiveRead(j), LiveAt(j), WiredAt(j),
         lock = None => Clean, Worker(j), job'[j].pc \in Running
  PROVE  WiredAt(j)'
<1>t. /\ job \in [Job -> JobState] /\ None \notin Release
      /\ attached \subseteq Release /\ active \in Release \cup {None}
  BY NoneAssumption DEF TypeInv, TypeOK
<1>c. "ssh" \notin Faults
  BY DEF Calm
<1>s. ASSUME Clean', job'[j].pc \in Steady, job'[j].pc # "restore" PROVE WiredAt(j)'
  BY <1>s DEF WiredAt, Steady, Wiring, Preparing, Rolling, Activated
<1>k. ASSUME job[j].pc \in Steady, UNCHANGED <<route, active, backup>>, attached' \subseteq attached PROVE Clean'
  BY <1>k DEF WiredAt, Clean
<1>g. ASSUME NEW pc, Goto(j, pc), Clean', pc \in Steady, pc # "restore" PROVE WiredAt(j)'
  BY <1>g, <1>s, <1>t, GotoRecord
<1>h. ASSUME NEW err \in Error, Throw(j, err), job[j].pc \in Steady, UNCHANGED <<database, vps>> PROVE WiredAt(j)'
  <2>1. job'[j].pc = Handler(j, err) /\ Handler(j, err) # "undoRoute"
    BY <1>h, <1>t, ThrowRecord DEF Handler, Steady, Switching, Preparing, Rolling, Activated
  <2>2. job'[j].pc \in Steady /\ job'[j].pc # "restore"
    BY <1>h, <2>1, HandlerType DEF Steady
  <2>3. QED
    BY <1>h, <2>2, <1>k, <1>s DEF database, vps
<1> USE DEF database, vps
<1>1. CASE PickUp(j)
  <2>1. Clean /\ Clean'
    BY <1>1 DEF PickUp, Clean
  <2>2. QED
    BY <1>1, <2>1, <1>g DEF PickUp, Steady, Rolling
<1>2. CASE Reconcile(j)
  <2>1. CASE NothingInterrupted(j)
    BY <2>1, <1>g, <1>k DEF NothingInterrupted, At, Steady, Preparing
  <2>2. CASE ReadInterrupted(j)
    <3>1. Clean' /\ UNCHANGED active
      BY <2>2, <1>k DEF ReadInterrupted, At, Steady
    <3>2. job'[j].act = active /\ job'[j].pc \in {"restore", "promote", "detachStale"}
      BY <2>2, <1>t, ReadInterruptedRecord
    <3>3. QED
      BY <3>1, <3>2 DEF WiredAt, Wiring
  <2>3. CASE Promote(j)
    <3>1. job[j].pc = "promote" /\ job'[j].pc = "confirmPromotion" /\ job'[j].rel = job[j].rel
      BY <2>3, <1>t, GotoRecord DEF Promote, At
    <3>2. Clean /\ active = None
      BY <3>1 DEF WiredAt, Steady, ActiveRead, Promoting
    <3>3. /\ UNCHANGED <<active, backup>> /\ route' = job[j].rel
          /\ attached' \subseteq attached \cup {job[j].rel}
      BY <2>3 DEF Promote, Attach
    <3>4. active' = None /\ route' = job'[j].rel /\ attached' \subseteq {job'[j].rel} /\ backup' = None
      BY <3>1, <3>2, <3>3, <1>t DEF Clean
    <3>5. QED
      BY <3>1, <3>4 DEF WiredAt, Steady, Wiring, Preparing, Rolling, Activated
  <2>4. CASE ConfirmPromotion(j)
    <3>0. job[j].pc = "confirmPromotion"
      BY <2>4 DEF ConfirmPromotion, At
    <3>1. job[j].pc = "confirmPromotion" /\ job'[j].pc = "begin"
      BY <2>4, <3>0, <1>t, ReconciledRecord
    <3>2. active' = job[j].rel /\ UNCHANGED vps
      BY <2>4 DEF ConfirmPromotion
    <3>3. Clean'
      BY <3>1, <3>2 DEF Clean, WiredAt
    <3>4. QED
      BY <3>1, <3>3, <1>s DEF Steady, Preparing
  <2>5. CASE PromotionFails(j)
    <3>1. job[j].pc = "confirmPromotion" /\ job'[j].pc = "undoPromotion" /\ job'[j].rel = job[j].rel
      BY <2>5, <1>t, GotoRecord DEF PromotionFails, At
    <3>2. UNCHANGED <<active, vps>>
      BY <2>5 DEF PromotionFails
    <3>3. QED
      BY <3>1, <3>2 DEF WiredAt, Steady, Wiring, Preparing, Rolling, Activated
  <2>6. CASE UndoPromotion(j)
    <3>1. /\ job[j].pc = "undoPromotion" /\ Goto(j, "detachStale") /\ UNCHANGED <<active, backup>>
          /\ route' = None /\ attached' = attached \ {job[j].rel}
      BY <2>6 DEF UndoPromotion, At
    <3>2. Clean'
      BY <3>1 DEF Clean, WiredAt
    <3>3. QED
      BY <3>1, <3>2, <1>g DEF Steady
  <2>7. CASE Restore(j)
    <3>1. /\ job[j].pc = "restore" /\ Goto(j, "detachStale") /\ UNCHANGED <<active, backup>>
          /\ route' = job[j].act /\ attached' \subseteq attached \cup {job[j].act}
      BY <2>7 DEF Restore, At, Attach
    <3>2. Clean'
      BY <3>1 DEF Clean, WiredAt, Steady
    <3>3. QED
      BY <3>1, <3>2, <1>g DEF Steady
  <2>8. CASE DetachStale(j)
    BY <2>8, <1>g, <1>k DEF DetachStale, At, Steady
  <2>9. CASE DropStale(j)
    <3>1. Clean'
      BY <2>9, <1>k DEF DropStale, At, Steady
    <3>2. QED
      BY <2>9, <3>1, <1>s, <1>t, ReconciledRecord DEF Steady, Preparing
  <2>10. QED
    BY <1>2, <2>1, <2>2, <2>3, <2>4, <2>5, <2>6, <2>7, <2>8, <2>9 DEF Reconcile
<1>3. CASE Prepare(j)
  <2>1. CASE Replace(j) \/ Start(j) \/ Healthy(j) \/ RecordRuntime(j)
    BY <2>1, <1>g, <1>k DEF Replace, Start, Healthy, RecordRuntime, At, Steady, Preparing, Rolling, Remove
  <2>2. CASE BeginRelease(j)
    <3>1. Clean'
      BY <2>2, <1>k DEF BeginRelease, At, Steady, Preparing
    <3>2. job'[j].pc = "replace"
      BY <2>2, <1>t, BegunRecord
    <3>3. QED
      BY <3>1, <3>2, <1>s DEF Steady, Preparing
  <2>3. CASE PickCandidate(j)
    <3>1. Clean'
      BY <2>3, <1>k DEF PickCandidate, At, Steady, Rolling
    <3>2. QED
      BY <2>3, <3>1, <1>s, <1>t, PickedRecord DEF Steady, Rolling
  <2>4. CASE CandidateMissing(j) \/ Unhealthy(j)
    BY <2>4, <1>h DEF CandidateMissing, Unhealthy, At, Steady, Preparing, Rolling, Error
  <2>5. QED
    BY <1>3, <2>1, <2>2, <2>3, <2>4 DEF Prepare
<1>4. CASE Activate(j)
  <2>1. CASE ReadActive(j)
    <3>1. Clean'
      BY <2>1, <1>k DEF ReadActive, At, Steady
    <3>2. QED
      BY <2>1, <3>1, <1>s, <1>t, ReadActiveRecord DEF Steady
  <2>2. CASE Connect(j)
    <3>1. /\ job[j].pc = "connect" /\ Goto(j, "mark") /\ UNCHANGED <<active, route, backup>>
          /\ attached' \subseteq attached \cup {job[j].rel, job[j].act}
      BY <2>2 DEF Connect, At, Attach
    <3>2. job'[j].pc = "mark" /\ job'[j].rel = job[j].rel
      BY <3>1, <1>t, GotoRecord
    <3>3. Clean /\ job[j].act = active
      BY <3>1 DEF WiredAt, Steady, ActiveRead, Reading
    <3>4. QED
      BY <3>1, <3>2, <3>3 DEF WiredAt, Clean, Steady, Wiring, Preparing, Rolling, Activated
  <2>3. CASE MarkActivating(j) \/ BackUp(j)
    <3>1. /\ \/ job[j].pc = "mark" /\ job'[j].pc = "backup" /\ backup' = backup
             \/ job[j].pc = "backup" /\ job'[j].pc = "canary" /\ backup' = route
          /\ job'[j].rel = job[j].rel /\ UNCHANGED <<active, route, attached>>
      BY <2>3, <1>t, GotoRecord DEF MarkActivating, BackUp, At
    <3>2. QED
      BY <3>1 DEF WiredAt, Steady, Wiring, Preparing, Rolling, Activated
  <2>4. CASE Canary(j)
    <3>1. /\ job[j].pc = "canary" /\ Goto(j, "probe") /\ UNCHANGED <<active, attached, backup>>
          /\ route' = IF job[j].act = None THEN job[j].rel ELSE job[j].act
      BY <2>4 DEF Canary, At
    <3>2. job'[j].pc = "probe" /\ job'[j].rel = job[j].rel /\ job[j].act = active
      BY <3>1, <1>t, GotoRecord DEF ActiveRead, Reading
    <3>3. QED
      BY <3>1, <3>2 DEF WiredAt, Steady, Wiring, Preparing, Rolling, Activated
  <2>5. CASE ProbePasses(j) \/ Switch(j)
    <3>1. /\ \/ job[j].pc = "probe" /\ job'[j].pc = "switch" /\ UNCHANGED route
             \/ job[j].pc = "confirm" /\ job'[j].pc = "commit" /\ UNCHANGED route
             \/ job[j].pc = "switch" /\ job'[j].pc = "confirm"
          /\ job'[j].rel = job[j].rel /\ UNCHANGED <<active, attached, backup>>
      BY <2>5, <1>t, GotoRecord DEF ProbePasses, Switch, At
    <3>2. QED
      BY <3>1 DEF WiredAt, Steady, Wiring, Preparing, Rolling, Activated
  <2>6. CASE ProbeFails(j)
    <3>1. job[j].pc \in {"probe", "confirm"} /\ Throw(j, "final") /\ UNCHANGED <<active, vps>>
      BY <2>6 DEF ProbeFails
    <3>2. Handler(j, "final") = "undoRoute"
      BY <3>1 DEF Handler, Switching
    <3>3. job'[j].pc = "undoRoute" /\ job'[j].rel = job[j].rel
      BY <3>1, <3>2, <1>t, ThrowRecord DEF Error
    <3>4. QED
      BY <3>1, <3>3 DEF WiredAt, Steady, Wiring, Preparing, Rolling, Activated
  <2>7. CASE Commit(j)
    <3>1. job[j].pc = "commit" /\ Goto(j, "detach") /\ active' = job[j].rel /\ UNCHANGED attached
      BY <2>7 DEF Commit, At
    <3>2. /\ job'[j].pc = "detach" /\ job'[j].rel = job[j].rel /\ job'[j].act = job[j].act
          /\ job[j].act = active
      BY <3>1, <1>t, GotoRecord DEF ActiveRead, Reading
    <3>3. QED
      BY <3>1, <3>2 DEF WiredAt, Steady, Wiring, Preparing, Rolling, Activated
  <2>8. CASE DetachOld(j)
    <3>1. /\ job[j].pc = "detach" /\ Goto(j, "cleanup")
          /\ attached' = attached \ ({job[j].act} \ {job[j].rel})
      BY <2>8 DEF DetachOld, At
    <3>2. job'[j].pc = "cleanup" /\ job'[j].rel = job[j].rel
      BY <3>1, <1>t, GotoRecord
    <3>3. attached' \subseteq {job'[j].rel}
      BY <3>1, <3>2 DEF WiredAt
    <3>4. QED
      BY <3>2, <3>3 DEF WiredAt, Steady, Wiring, Preparing, Rolling, Activated
  <2>9. CASE DropBackup(j)
    <3>1. /\ job[j].pc = "cleanup" /\ backup' = None /\ UNCHANGED <<active, attached, route>>
          /\ Goto(j, IF IsRollback(j) THEN "finishRollback" ELSE "link")
      BY <2>9 DEF DropBackup, At
    <3>2. Clean'
      BY <3>1 DEF Clean, WiredAt, LiveAt, Late, Committed
    <3>3. QED
      BY <3>1, <3>2, <1>g DEF Steady, Activated
  <2>10. CASE Link(j)
    BY <2>10, <1>g, <1>k DEF Link, At, Steady, Activated
  <2>11. CASE Finish(j)
    <3>1. job'[j].pc \notin Running
      BY <2>11, <1>t, FinishedRecord DEF Running, Reconciling, Preparing, Rolling, Activating, Switching,
         Activated,
         Failing
    <3>2. QED
      BY <3>1
  <2>12. QED
    BY <1>4, <2>1, <2>2, <2>3, <2>4, <2>5, <2>6, <2>7, <2>8, <2>9, <2>10, <2>11 DEF Activate
<1>5. CASE Recover(j)
  <2>1. CASE UndoRoute(j)
    <3>1. /\ job[j].pc = "undoRoute" /\ Goto(j, "undoDetach") /\ UNCHANGED <<active, attached>>
          /\ route' = backup /\ backup' = None
      BY <2>1 DEF UndoRoute, At
    <3>2. job'[j].pc = "undoDetach" /\ job'[j].rel = job[j].rel
      BY <3>1, <1>t, GotoRecord
    <3>3. QED
      BY <3>1, <3>2 DEF WiredAt, Steady, Wiring, Preparing, Rolling, Activated
  <2>2. CASE UndoDetach(j)
    <3>1. /\ job[j].pc = "undoDetach" /\ Goto(j, "undoMark") /\ UNCHANGED <<active, route, backup>>
          /\ attached' = attached \ {job[j].rel}
      BY <2>2 DEF UndoDetach, At
    <3>2. Clean'
      BY <3>1 DEF Clean, WiredAt, Wiring
    <3>3. QED
      BY <3>1, <3>2, <1>g DEF Steady
  <2>3. CASE MarkFailed(j) \/ Unpin(j)
    BY <2>3, <1>g, <1>k DEF MarkFailed, Unpin, At, Steady
  <2>4. CASE Clear(j)
    <3>1. Clean'
      BY <2>4, <1>k DEF Clear, At, Steady, Remove
    <3>2. QED
      BY <2>4, <3>1, <1>s, <1>t, ClearedRecord DEF Steady
  <2>5. CASE Settle(j)
    <3>1. job'[j].pc \notin Running
      BY <2>5, <1>t, SettledRecord DEF Running, Reconciling, Preparing, Rolling, Activating, Switching,
         Activated,
         Failing
    <3>2. QED
      BY <3>1
  <2>6. QED
    BY <1>5, <1>c, <2>1, <2>2, <2>3, <2>4, <2>5 DEF Recover, Canceled, CommandFails
<1>6. QED
  BY <1>1, <1>2, <1>3, <1>4, <1>5 DEF Worker


(* The lock is with a run that is under way, and is given back by a run that
   has left the gateway clean.                                             *)
LEMMA LockFollowsRun ==
  ASSUME Calm, TypeInv, LockInv, NEW j \in Job, WiredAt(j), lock = None => Clean, Worker(j)
  PROVE  /\ job'[j].pc \in Running => lock' = j
         /\ job'[j].pc \notin Running => lock' = None /\ Clean'
<1>1. job'[j].pc \in Running => lock' = j
  BY RunnerHoldsLock
<1>2. ASSUME job'[j].pc \notin Running PROVE (Finish(j) \/ Settle(j)) /\ job[j].pc \in Running
  <2>t. job \in [Job -> JobState]
    BY DEF TypeInv, TypeOK
  <2>s. Failing \subseteq Running
    BY DEF Running
  <2>h. ASSUME NEW err \in Error, Throw(j, err) PROVE FALSE
    BY <2>h, <2>t, <2>s, <1>2, ThrowFields
  <2>g. ASSUME NEW pc \in Running, Goto(j, pc) PROVE FALSE
    BY <2>g, <2>t, <1>2, GotoFields
  <2> USE DEF Running, Reconciling, Preparing, Rolling, Activating, Switching, Activated, Failing
  <2>1. CASE PickUp(j)
    BY <2>1, <2>g DEF PickUp
  <2>2. CASE Reconcile(j)
    <3>1. CASE ReadInterrupted(j)
      BY <3>1, <2>t, <1>2, ReadInterruptedRecord
    <3>2. CASE ConfirmPromotion(j) \/ DropStale(j)
      BY <3>2, <2>t, <1>2, ReconciledRecord
    <3>3. QED
      BY <2>2, <3>1, <3>2, <2>g DEF Reconcile, NothingInterrupted, Promote, PromotionFails,
         UndoPromotion, Restore,
         DetachStale
  <2>3. CASE Prepare(j)
    <3>1. CASE BeginRelease(j)
      BY <3>1, <2>t, <1>2, BegunRecord
    <3>2. CASE PickCandidate(j)
      BY <3>2, <2>t, <1>2, PickedRecord
    <3>3. CASE Unhealthy(j) \/ CandidateMissing(j)
      BY <3>3, <2>h DEF Unhealthy, CandidateMissing, Error
    <3>4. QED
      BY <2>3, <3>1, <3>2, <3>3, <2>g DEF Prepare, Replace, Start, Healthy, RecordRuntime
  <2>4. CASE Activate(j)
    <3>1. CASE ReadActive(j)
      BY <3>1, <2>t, <1>2, ReadActiveRecord
    <3>2. CASE ProbeFails(j)
      BY <3>2, <2>h DEF ProbeFails, Error
    <3>3. CASE Finish(j)
      BY <3>3 DEF Finish, At
    <3>4. QED
      BY <2>4, <3>1, <3>2, <3>3, <2>g DEF Activate, Connect, MarkActivating, BackUp, Canary, ProbePasses,
         Switch,
         Commit, DetachOld, DropBackup, Link
  <2>5. CASE Recover(j)
    <3>1. CASE Canceled(j) \/ CommandFails(j)
      BY <3>1, <2>h DEF Canceled, CommandFails, Error
    <3>2. CASE Clear(j)
      BY <3>2, <2>t, <1>2, ClearedRecord
    <3>3. CASE Settle(j)
      BY <3>3 DEF Settle, At
    <3>4. QED
      BY <2>5, <3>1, <3>2, <3>3, <2>g DEF Recover, UndoRoute, UndoDetach, MarkFailed, Unpin
  <2>6. QED
    BY <2>1, <2>2, <2>3, <2>4, <2>5 DEF Worker
<1>3. ASSUME job'[j].pc \notin Running PROVE lock' = None /\ Clean'
  <2>1. lock = j
    BY <1>2, <1>3 DEF LockInv
  <2>2. CASE Finish(j)
    <3>1. /\ job[j].pc \in {"finish", "finishRollback"} /\ lock' = None
          /\ UNCHANGED <<route, active, attached, backup>>
      BY <2>1, <2>2 DEF Finish, At, vps
    <3>2. QED
      BY <3>1 DEF WiredAt, Steady, Activated, Clean
  <2>3. CASE Settle(j)
    <3>1. job[j].pc = "settle" /\ UNCHANGED <<route, active, attached, backup>>
      BY <2>3 DEF Settle, At, database, vps
    <3>2. lock' = IF lock = j THEN None ELSE lock
      BY <2>3, Zenon DEF Settle
    <3>3. QED
      BY <2>1, <3>1, <3>2 DEF WiredAt, Steady, Clean
  <2>4. QED
    BY <1>2, <1>3, <2>2, <2>3
<1>4. QED
  BY <1>1, <1>3

(* That the project is clean between runs depends on what every point of a run
   leaves on the gateway, and on the backup being the route to the release
   that stays active.                                                       *)
THEOREM CleanInductive == Calm /\ "cancel" \notin Faults => (Spec => []CleanInv)
<1> SUFFICES ASSUME Calm, "cancel" \notin Faults PROVE Spec => []CleanInv
  OBVIOUS
<1>l. "lapse" \notin Faults /\ EarlyCancel
  BY DEF Calm, EarlyCancel
<1>p. Steady \cup Wiring \cup {"confirmPromotion", "undoPromotion", "detach", "cleanup"} \subseteq Running
  BY DEF Steady, Wiring, Running, Reconciling, Preparing, Rolling, Activating, Switching, Activated, Failing
<1>v. ASSUME NEW j \in Job, job[j].pc \notin Running PROVE WiredAt(j)
  BY <1>v, <1>p DEF WiredAt, Steady, Wiring
<1>i. {"idle", "queued"} \cap Running = {}
  BY DEF Running, Reconciling, Preparing, Rolling, Activating, Switching, Activated, Failing
<1>1. Init => CleanInv
  <2> SUFFICES ASSUME Init PROVE CleanInv
    OBVIOUS
  <2>1. ASSUME NEW j \in Job PROVE WiredAt(j)
    <3>1. job[j].pc = "idle"
      BY DEF Init, NoJob
    <3>2. QED
      BY <3>1, <1>i, <1>v
  <2>2. QED
    BY <2>1 DEF Init, CleanInv, Clean
<1>2. OneActiveInv /\ LiveInv /\ KeepInv /\ CleanInv /\ [Next]_vars => CleanInv'
  <2> SUFFICES ASSUME TypeInv, LockInv, ActInv, LiveInv, KeepInv, CleanInv, [Next]_vars PROVE CleanInv'
    BY DEF OneActiveInv
  <2>t. job \in [Job -> JobState] /\ lock \in Job \cup {None} /\ None \notin Job
    BY NoneAssumption DEF TypeInv, TypeOK
  <2>a. ASSUME UNCHANGED <<route, active, attached, backup, lock>>,
               \A k \in Job : job'[k] = job[k] \/ (job[k].pc \notin Running /\ job'[k].pc \notin Running)
        PROVE  CleanInv'
    <3>1. ASSUME NEW k \in Job PROVE WiredAt(k)'
      <4>1. CASE job'[k] = job[k]
        BY <2>a, <4>1 DEF CleanInv, WiredAt, Clean
      <4>2. CASE job'[k].pc \notin Running
        BY <4>2, <1>p DEF WiredAt, Steady, Wiring
      <4>3. QED
        BY <2>a, <4>1, <4>2
    <3>2. QED
      BY <2>a, <2>t, <3>1 DEF CleanInv, Clean
  <2>1. CASE Api
    <3> USE DEF database, vps
    <3>1. ASSUME NEW d \in Deployment, RequestDeploy(d) PROVE CleanInv'
      <4>1. job[d].pc = "idle" /\ Goto(d, "queued") /\ d \in Job
        BY <3>1 DEF RequestDeploy, At, Job
      <4>2. job'[d].pc = "queued" /\ \A k \in Job : k # d => job'[k] = job[k]
        BY <4>1, <2>t, GotoRecord DEF Goto
      <4>3. QED
        BY <3>1, <4>1, <4>2, <1>i, <2>a DEF RequestDeploy
    <3>2. ASSUME NEW d \in Deployment, CheckCancel(d) PROVE CleanInv'
      BY <3>2, <2>a DEF CheckCancel
    <3>3. ASSUME NEW r \in Release, ReadRollback(r) PROVE CleanInv'
      BY <3>3, <2>a DEF ReadRollback
    <3>4. ASSUME NEW j \in Rollback, CommitRollback(j) PROVE CleanInv'
      <4>1. j \in Job /\ job[j].pc = "idle" /\ UNCHANGED <<route, active, attached, backup, lock>>
        BY <3>4 DEF Job, CommitRollback, At
      <4>2. job' = [job EXCEPT ![j] = [job[j] EXCEPT !.pc = "queued", !.dep = owner[call.target]]]
        BY <3>4 DEF CommitRollback
      <4>3. job'[j].pc = "queued" /\ \A k \in Job : k # j => job'[k] = job[k]
        BY <4>1, <4>2, <2>t DEF JobState
      <4>4. QED
        BY <4>1, <4>3, <1>i, <2>a
    <3>5. CASE CommitCancel
      BY <3>5, <2>a DEF CommitCancel
    <3>6. QED
      BY <2>1, <3>1, <3>2, <3>3, <3>4, <3>5 DEF Api
  <2>2. ASSUME NEW j \in Job, Worker(j) PROVE CleanInv'
    <3>1. /\ KindAt(j) /\ Wanted(j) /\ ActiveRead(j) /\ LiveAt(j) /\ WiredAt(j) /\ (lock = None => Clean)
      BY DEF KeepInv, CancelInv, CleanInv, ActInv, LiveInv, Wanted
    <3>2. /\ job'[j].pc \in Running => lock' = j
          /\ job'[j].pc \notin Running => lock' = None /\ Clean'
      BY <2>2, <3>1, LockFollowsRun
    <3>3. ASSUME NEW k \in Job PROVE WiredAt(k)'
      <4>1. CASE job'[k].pc \notin Running
        BY <4>1, <1>p DEF WiredAt, Steady, Wiring
      <4>2. CASE job'[k].pc \in Running
        <5>1. k = j
          BY <2>2, <2>t, <4>2, OthersUntouched, RunsAlone
        <5>2. QED
          BY <2>2, <3>1, <4>2, <5>1, WiredStays
      <4>3. QED
        BY <4>1, <4>2
    <3>4. QED
      BY <3>2, <3>3, <2>t DEF CleanInv
  <2>3. CASE UNCHANGED vars
    BY <2>3, <2>a DEF vars, database, vps
  <2>4. ~Lapse /\ \A j \in Job : ~Crash(j)
    <3>1. (Lapse => "lapse" \in Faults) /\ \A j \in Job : Crash(j) => "crash" \in Faults
      BY Zenon DEF Lapse, Crash
    <3>2. QED
      BY <3>1 DEF Calm
  <2>5. QED
    BY <2>1, <2>2, <2>3, <2>4 DEF Next
<1>3. QED
  BY <1>1, <1>2, <1>l, OneActiveInductive, LiveInductive, KeepInductive, PTL DEF Spec

(* Between runs the gateway shows nothing of an activation (CleanBetweenRuns):
   whether the run that ended has deployed, rolled back, reconciled an
   interrupted candidate or failed and undone its steps, the route and the
   network are those of the active release and no .previous file is left.  *)
THEOREM CleanWhenIdle == Calm /\ "cancel" \notin Faults => (Spec => []CleanBetweenRuns)
<1>1. CleanInv => CleanBetweenRuns
  BY DEF CleanInv, Clean, CleanBetweenRuns
<1>2. QED
  BY <1>1, CleanInductive, PTL

------------------------------------------------------------------------------
(* What is public in the steps that can switch traffic back and forth. *)
Lit == active # None => Reachable(active)

ServedAt(j) ==
  /\ job[j].pc \in {"switch", "confirm"} => Reachable(job[j].rel)
  /\ job[j].pc = "undoRoute" /\ active # None => route # None /\ Reachable(route)

ServedInv == Lit /\ \A j \in Job : ServedAt(j)

(* No step of a run disconnects the active release: the stale, the failed and
   the former release that are taken off the network are not active.       *)
LEMMA LitStays ==
  ASSUME Calm, TypeInv, NEW j \in Job, KindAt(j), AwayAt(j), ActiveRead(j), LiveAt(j), WiredAt(j),
         j \in Deployment => OnceAt(j), Lit, Worker(j)
  PROVE  Lit'
<1>t. /\ attached \subseteq up /\ up \subseteq Release /\ None \notin Release /\ active \in Release \cup {None}
      /\ job \in [Job -> JobState]
  BY NoneAssumption DEF TypeInv, TypeOK
<1>c. "ssh" \notin Faults
  BY DEF Calm
<1>u. ASSUME UNCHANGED active, up \subseteq up', active \in attached => active \in attached'
      PROVE  Lit'
  BY <1>u DEF Lit, Reachable
<1>a. ASSUME UNCHANGED active, up \subseteq up', attached \subseteq attached' PROVE Lit'
  BY <1>a, <1>u
<1>d. ASSUME UNCHANGED active, UNCHANGED up, attached' = attached \ {job[j].rel},
             job[j].rel # active \/ active = None
      PROVE  Lit'
  BY <1>d, <1>u DEF Lit
<1>r. ASSUME NEW rs, UNCHANGED active, Remove(rs) PROVE Lit'
  <2>1. CASE active \in Release
    <3>1. active \in up => active \in up'
      BY <2>1, RemovesOwn
    <3>2. active \in attached => active \in attached'
      BY <1>r, <1>t, <3>1 DEF Remove
    <3>3. QED
      BY <1>r, <3>1, <3>2 DEF Lit, Reachable
  <2>2. CASE active = None
    BY <1>r, <2>2 DEF Lit
  <2>3. QED
    BY <1>t, <2>1, <2>2
<1>w. job[j].pc \in {"detachStale", "undoDetach"} => job[j].rel # active \/ active = None
  BY DEF AwayAt, Away, Uncommitted
<1> USE DEF database, vps
<1>1. CASE PickUp(j)
  BY <1>1, <1>a DEF PickUp
<1>2. CASE Reconcile(j)
  <2>1. CASE NothingInterrupted(j) \/ ReadInterrupted(j) \/ Promote(j) \/ PromotionFails(j)
             \/ Restore(j) \/ DropStale(j)
    BY <2>1, <1>a DEF NothingInterrupted, ReadInterrupted, Promote, PromotionFails, Restore, DropStale, Attach
  <2>2. CASE ConfirmPromotion(j)
    <3>1. active' = job[j].rel /\ Reachable(job[j].rel) /\ UNCHANGED vps
      BY <2>2 DEF ConfirmPromotion
    <3>2. QED
      BY <3>1 DEF Lit, Reachable
  <2>3. CASE UndoPromotion(j)
    <3>1. active = None /\ UNCHANGED active
      BY <2>3 DEF UndoPromotion, At, WiredAt
    <3>2. QED
      BY <3>1 DEF Lit
  <2>4. CASE DetachStale(j)
    <3>1. /\ job[j].pc = "detachStale" /\ UNCHANGED <<active, up>>
          /\ attached' = attached \ ({job[j].rel} \cap runtime)
      BY <2>4 DEF DetachStale, At
    <3>2. QED
      BY <3>1, <1>w, <1>u DEF Lit
  <2>5. QED
    BY <1>2, <2>1, <2>2, <2>3, <2>4 DEF Reconcile
<1>3. CASE Prepare(j)
  <2>1. CASE Replace(j)
    BY <2>1, <1>r DEF Replace
  <2>2. CASE Start(j)
    BY <2>2, <1>a DEF Start
  <2>3. CASE BeginRelease(j) \/ Healthy(j) \/ Unhealthy(j) \/ RecordRuntime(j) \/ PickCandidate(j)
             \/ CandidateMissing(j)
    BY <2>3, <1>a DEF BeginRelease, Healthy, Unhealthy, RecordRuntime, PickCandidate, CandidateMissing
  <2>4. QED
    BY <1>3, <2>1, <2>2, <2>3 DEF Prepare
<1>4. CASE Activate(j)
  <2>1. CASE Commit(j)
    <3>1. job[j].pc = "commit" /\ active' = job[j].rel /\ UNCHANGED vps
      BY <2>1 DEF Commit, At
    <3>2. Reachable(job[j].rel)
      BY <3>1 DEF LiveAt, Late
    <3>3. QED
      BY <3>1, <3>2 DEF Lit, Reachable
  <2>2. CASE DetachOld(j)
    <3>1. /\ job[j].pc = "detach" /\ UNCHANGED <<active, up>>
          /\ attached' = attached \ ({job[j].act} \ {job[j].rel})
      BY <2>2 DEF DetachOld, At
    <3>2. active = job[j].rel
      BY <3>1 DEF LiveAt, Committed
    <3>3. QED
      BY <3>1, <3>2, <1>u
  <2>3. CASE ReadActive(j) \/ MarkActivating(j) \/ Connect(j) \/ BackUp(j) \/ Canary(j) \/ ProbePasses(j)
             \/ ProbeFails(j) \/ Switch(j) \/ DropBackup(j) \/ Link(j) \/ Finish(j)
    BY <2>3, <1>a DEF ReadActive, MarkActivating, Connect, BackUp, Canary, ProbePasses, ProbeFails, Switch,
       DropBackup, Link, Finish, Attach
  <2>4. QED
    BY <1>4, <2>1, <2>2, <2>3 DEF Activate
<1>5. CASE Recover(j)
  <2>1. CASE UndoDetach(j)
    BY <2>1, <1>w, <1>d DEF UndoDetach, At
  <2>2. CASE Clear(j)
    <3>1. UNCHANGED active /\ ((\E rs : Remove(rs)) \/ UNCHANGED <<up, attached>>)
      BY <2>2 DEF Clear
    <3>2. QED
      BY <3>1, <1>r, <1>a
  <2>3. CASE UndoRoute(j) \/ MarkFailed(j) \/ Unpin(j) \/ Settle(j) \/ Canceled(j) \/ CommandFails(j)
    BY <2>3, <1>a DEF UndoRoute, MarkFailed, Unpin, Settle, Canceled, CommandFails
  <2>4. QED
    BY <1>5, <2>1, <2>2, <2>3 DEF Recover
<1>6. QED
  BY <1>1, <1>2, <1>3, <1>4, <1>5 DEF Worker

(* A release is made public only after it has answered through the gateway,
   and a failing probe finds a reachable release public.                   *)
LEMMA ServedStays ==
  ASSUME Calm, TypeInv, NEW j \in Job, KindAt(j), Wanted(j), LiveAt(j), WiredAt(j), Lit, ServedAt(j), Worker(j)
  PROVE  ServedAt(j)'
<1>t. job \in [Job -> JobState]
  BY DEF TypeInv, TypeOK
<1>c. "ssh" \notin Faults
  BY DEF Calm
<1> DEFINE Else == job'[j].pc \notin {"switch", "confirm", "undoRoute"}
<1>o. Else => ServedAt(j)'
  BY DEF ServedAt
<1>g. ASSUME NEW pc, Goto(j, pc), pc \notin {"switch", "confirm", "undoRoute"} PROVE Else
  BY <1>g, <1>t, GotoRecord
<1>h. ASSUME NEW err \in Error, Throw(j, err), job[j].pc \notin Switching PROVE Else
  <2>1. job'[j].pc = Handler(j, err) /\ Handler(j, err) # "undoRoute"
    BY <1>h, <1>t, ThrowRecord DEF Handler
  <2>2. QED
    BY <1>h, <2>1, HandlerType
<1>1. CASE PickUp(j)
  BY <1>1, <1>g, <1>o DEF PickUp
<1>2. CASE Reconcile(j)
  <2>1. CASE ReadInterrupted(j)
    BY <2>1, <1>t, <1>o, ReadInterruptedRecord
  <2>2. CASE ConfirmPromotion(j) \/ DropStale(j)
    BY <2>2, <1>t, <1>o, ReconciledRecord
  <2>3. QED
    BY <1>2, <2>1, <2>2, <1>g, <1>o DEF Reconcile, NothingInterrupted, Promote, PromotionFails, UndoPromotion,
       Restore, DetachStale
<1>3. CASE Prepare(j)
  <2>1. CASE BeginRelease(j)
    BY <2>1, <1>t, <1>o, BegunRecord
  <2>2. CASE PickCandidate(j)
    BY <2>2, <1>t, <1>o, PickedRecord
  <2>3. CASE Unhealthy(j) \/ CandidateMissing(j)
    BY <2>3, <1>h, <1>o DEF Unhealthy, CandidateMissing, Error, At, Switching
  <2>4. QED
    BY <1>3, <2>1, <2>2, <2>3, <1>g, <1>o DEF Prepare, Replace, Start, Healthy, RecordRuntime
<1>4. CASE Activate(j)
  <2>1. CASE ReadActive(j)
    BY <2>1, <1>t, <1>o, ReadActiveRecord
  <2>2. CASE ProbePasses(j)
    <3>1. /\ job[j].pc \in {"probe", "confirm"} /\ Reachable(job[j].rel) /\ UNCHANGED vps
          /\ Goto(j, IF At(j, "probe") THEN "switch" ELSE "commit")
      BY <2>2 DEF ProbePasses
    <3>2. job'[j].pc \in {"switch", "commit"} /\ job'[j].rel = job[j].rel
      BY <3>1, <1>t, GotoRecord
    <3>3. QED
      BY <3>1, <3>2 DEF ServedAt, Reachable, vps
  <2>3. CASE Switch(j)
    <3>1. job[j].pc = "switch" /\ Goto(j, "confirm") /\ UNCHANGED <<up, attached>>
      BY <2>3 DEF Switch, At
    <3>2. job'[j].pc = "confirm" /\ job'[j].rel = job[j].rel
      BY <3>1, <1>t, GotoRecord
    <3>3. QED
      BY <3>1, <3>2 DEF ServedAt, Reachable
  <2>4. CASE ProbeFails(j)
    <3>1. job[j].pc \in {"probe", "confirm"} /\ UNCHANGED <<active, vps>> /\ Throw(j, "final")
      BY <2>4 DEF ProbeFails, database
    <3>2. job'[j].pc = "undoRoute"
      BY <3>1, <1>t, ThrowRecord DEF Error, Handler, Switching
    <3>3. job[j].pc = "probe" /\ active # None => route = active
      BY DEF WiredAt
    <3>4. job[j].pc = "confirm" => route = job[j].rel /\ Reachable(job[j].rel)
      BY DEF LiveAt, Late, ServedAt
    <3>5. active # None => route # None /\ Reachable(route)
      BY <3>1, <3>3, <3>4, NoneAssumption DEF Lit, Reachable, TypeInv, TypeOK
    <3>6. QED
      BY <3>1, <3>2, <3>5 DEF ServedAt, Reachable, vps
  <2>5. CASE Finish(j)
    BY <2>5, <1>t, <1>o, FinishedRecord
  <2>6. QED
    BY <1>4, <2>1, <2>2, <2>3, <2>4, <2>5, <1>g, <1>o DEF Activate, Connect, MarkActivating, BackUp, Canary,
       Commit, DetachOld, DropBackup, Link
<1>5. CASE Recover(j)
  <2>1. CASE Clear(j)
    BY <2>1, <1>t, <1>o, ClearedRecord
  <2>2. CASE Settle(j)
    BY <2>2, <1>t, <1>o, SettledRecord
  <2>3. QED
    BY <1>5, <1>c, <2>1, <2>2, <1>g, <1>o DEF Recover, UndoRoute, UndoDetach, MarkFailed, Unpin,
       Canceled, CommandFails
<1>6. QED
  BY <1>1, <1>2, <1>3, <1>4, <1>5 DEF Worker

(* Whatever the run with the lock is doing, the route leads to the active
   release or to one that has answered.                                    *)
LEMMA RouteIsServed ==
  ASSUME TypeInv, LiveInv, CleanInv, ServedInv
  PROVE  AlwaysServed
<1> SUFFICES ASSUME active # None PROVE route # None /\ Reachable(route)
  BY DEF AlwaysServed
<1>1. Reachable(active) /\ None \notin up
  BY NoneAssumption DEF ServedInv, Lit, TypeInv, TypeOK
<1>2. ASSUME route = active PROVE route # None /\ Reachable(route)
  BY <1>1, <1>2
<1>3. CASE lock = None
  BY <1>2, <1>3 DEF CleanInv, Clean
<1>4. CASE lock # None
  <2>1. lock \in Job /\ job[lock].pc \in Running
    BY <1>4 DEF CleanInv, TypeInv, TypeOK
  <2>2. WiredAt(lock) /\ LiveAt(lock) /\ ServedAt(lock)
    BY <2>1 DEF CleanInv, LiveInv, ServedInv
  <2>3. job[lock].pc \in Steady \cup {"mark", "backup", "undoDetach", "canary", "probe", "switch"} \cup Late
                           \cup {"undoRoute", "confirmPromotion", "undoPromotion"}
    BY <2>1 DEF Running, Reconciling, Preparing, Rolling, Activating, Switching, Activated, Failing,
       Steady, Late,
       Committed
  <2>4. CASE job[lock].pc \in Steady \cup {"mark", "backup", "undoDetach", "canary", "probe", "switch"}
    <3>1. route = active
      BY <2>2, <2>4 DEF WiredAt, Clean
    <3>2. QED
      BY <3>1, <1>2
  <2>5. CASE job[lock].pc \in Late
    <3>1. route = job[lock].rel /\ Reachable(job[lock].rel)
      BY <2>2, <2>5 DEF LiveAt, ServedAt, Late
    <3>2. QED
      BY <3>1, <1>1 DEF Reachable
  <2>6. CASE job[lock].pc = "undoRoute"
    BY <2>2, <2>6 DEF ServedAt
  <2>7. CASE job[lock].pc \in {"confirmPromotion", "undoPromotion"}
    BY <2>2, <2>7 DEF WiredAt
  <2>8. QED
    BY <2>3, <2>4, <2>5, <2>6, <2>7
<1>5. QED
  BY <1>3, <1>4

THEOREM ServedInductive == Calm /\ Faults \cap {"cancel", "race"} = {} => (Spec => []ServedInv)
<1> SUFFICES ASSUME Calm, Faults \cap {"cancel", "race"} = {} PROVE Spec => []ServedInv
  OBVIOUS
<1>l. "lapse" \notin Faults /\ EarlyCancel /\ "race" \notin Faults /\ "cancel" \notin Faults
  BY DEF Calm, EarlyCancel
<1>i. {"idle", "queued"} \cap {"switch", "confirm", "undoRoute"} = {}
  OBVIOUS
<1>1. Init => ServedInv
  BY DEF Init, NoJob, ServedInv, Lit, ServedAt
<1>2. OneActiveInv /\ LiveInv /\ KeepInv /\ IntactInv /\ CleanInv /\ ServedInv /\ [Next]_vars => ServedInv'
  <2> SUFFICES ASSUME TypeInv, LockInv, ActInv, LiveInv, KeepInv, IntactInv, CleanInv, ServedInv, [Next]_vars
               PROVE  ServedInv'
    BY DEF OneActiveInv
  <2>t. job \in [Job -> JobState]
    BY DEF TypeInv, TypeOK
  <2>a. ASSUME UNCHANGED <<vps, active>>,
               \A k \in Job : job'[k] = job[k] \/ job'[k].pc = "queued"
        PROVE  ServedInv'
    BY <2>a DEF ServedInv, Lit, ServedAt, Reachable, vps
  <2>1. CASE Api
    <3> USE DEF database
    <3>1. ASSUME NEW d \in Deployment, RequestDeploy(d) PROVE ServedInv'
      <4>1. Goto(d, "queued") /\ d \in Job /\ UNCHANGED <<vps, active>>
        BY <3>1 DEF RequestDeploy, Job
      <4>2. job'[d].pc = "queued" /\ \A k \in Job : k # d => job'[k] = job[k]
        BY <4>1, <2>t, GotoRecord DEF Goto
      <4>3. QED
        BY <4>1, <4>2, <2>a
    <3>2. ASSUME NEW d \in Deployment, CheckCancel(d) PROVE ServedInv'
      BY <3>2, <2>a DEF CheckCancel
    <3>3. ASSUME NEW r \in Release, ReadRollback(r) PROVE ServedInv'
      BY <3>3, <2>a DEF ReadRollback
    <3>4. ASSUME NEW j \in Rollback, CommitRollback(j) PROVE ServedInv'
      <4>1. j \in Job /\ UNCHANGED <<vps, active>>
        BY <3>4 DEF Job, CommitRollback
      <4>2. job' = [job EXCEPT ![j] = [job[j] EXCEPT !.pc = "queued", !.dep = owner[call.target]]]
        BY <3>4 DEF CommitRollback
      <4>3. job'[j].pc = "queued" /\ \A k \in Job : k # j => job'[k] = job[k]
        BY <4>1, <4>2, <2>t DEF JobState
      <4>4. QED
        BY <4>1, <4>3, <2>a
    <3>5. CASE CommitCancel
      BY <3>5, <2>a DEF CommitCancel
    <3>6. QED
      BY <2>1, <3>1, <3>2, <3>3, <3>4, <3>5 DEF Api
  <2>2. ASSUME NEW j \in Job, Worker(j) PROVE ServedInv'
    <3>1. /\ KindAt(j) /\ Wanted(j) /\ AwayAt(j) /\ ActiveRead(j) /\ LiveAt(j) /\ WiredAt(j)
          /\ (j \in Deployment => OnceAt(j)) /\ Lit /\ ServedAt(j)
      BY <1>l DEF KeepInv, CancelInv, IntactInv, CleanInv, ActInv, LiveInv, ServedInv, Wanted
    <3>2. Lit' /\ ServedAt(j)'
      BY <2>2, <3>1, LitStays, ServedStays
    <3>3. ASSUME NEW k \in Job, k # j PROVE ServedAt(k)'
      <4>1. job'[k].pc \notin Running
        BY <2>2, <2>t, <3>3, OthersUntouched, RunsAlone
      <4>2. job'[k].pc \notin {"switch", "confirm", "undoRoute"}
        BY <4>1 DEF Running, Switching, Failing
      <4>3. QED
        BY <4>2 DEF ServedAt
    <3>4. QED
      BY <3>2, <3>3 DEF ServedInv
  <2>3. CASE UNCHANGED vars
    BY <2>3, <2>a DEF vars, database
  <2>4. ~Lapse /\ \A j \in Job : ~Crash(j)
    <3>1. (Lapse => "lapse" \in Faults) /\ \A j \in Job : Crash(j) => "crash" \in Faults
      BY Zenon DEF Lapse, Crash
    <3>2. QED
      BY <3>1 DEF Calm
  <2>5. QED
    BY <2>1, <2>2, <2>3, <2>4 DEF Next
<1>3. QED
  BY <1>1, <1>2, <1>l, OneActiveInductive, LiveInductive, KeepInductive, IntactInductive, CleanInductive,
     PTL DEF Spec

(* Zero downtime: from the first activation on the public route always leads
   to a container on the gateway's network (AlwaysServed), in every step of a
   deploy or rollback run and of its error handling, whichever checks fail. *)
THEOREM NoDowntime == Calm /\ Faults \cap {"cancel", "race"} = {} => (Spec => []AlwaysServed)
<1> SUFFICES ASSUME Calm, Faults \cap {"cancel", "race"} = {} PROVE Spec => []AlwaysServed
  OBVIOUS
<1>1. "lapse" \notin Faults /\ "cancel" \notin Faults
  BY DEF Calm
<1>2. OneActiveInv /\ LiveInv /\ CleanInv /\ ServedInv => AlwaysServed
  BY RouteIsServed DEF OneActiveInv
<1>3. QED
  BY <1>1, <1>2, OneActiveInductive, LiveInductive, CleanInductive, ServedInductive, PTL
==============================================================================
