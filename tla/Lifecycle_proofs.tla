-------------------------- MODULE Lifecycle_proofs --------------------------
(***************************************************************************)
(* Proofs about Lifecycle, for any number of deployments and any set of     *)
(* requests: the types, and that the status tells the truth.  The invariant *)
(* has a part for each of its three sentences, and one for what they share: *)
(* without overlap there is one run or one request at a time, and what it   *)
(* has read is still so when it writes.                                    *)
(***************************************************************************)
EXTENDS Lifecycle, LivePage, FiniteSetTheorems, TLAPS

LifePc == {"idle", "building", "started", "activated", "shown", "rolling", "rolled"}
LifeCallPc == {"idle", "begun", "marked", "found", "absent", "acted", "done"}
LifeCallType == [pc : LifeCallPc, op : LifeOp, d : LifeDeployment, was : LifeStatus]

------------------------------------------------------------------------------
(* What the small steps of a request do to its record.                     *)

(* Only the place of the request changes. *)
LEMMA CallToFields ==
  ASSUME LifeTypeOK, NEW c \in LifeCaller, NEW p \in LifeCallPc, CallTo(c, p)
  PROVE  /\ lifeCall' \in [LifeCaller -> LifeCallType]
         /\ \A b \in LifeCaller : b # c => lifeCall'[b] = lifeCall[b]
         /\ lifeCall'[c].pc = p /\ lifeCall'[c].op = lifeCall[c].op
         /\ lifeCall'[c].d = lifeCall[c].d /\ lifeCall'[c].was = lifeCall[c].was
  BY DEF LifeTypeOK, CallTo, LifeCallType, LifeCallPc

(* The request is over. *)
LEMMA AnswerFields ==
  ASSUME LifeTypeOK, NEW c \in LifeCaller, Answer(c)
  PROVE  /\ lifeCall' \in [LifeCaller -> LifeCallType]
         /\ \A b \in LifeCaller : b # c => lifeCall'[b] = lifeCall[b]
         /\ lifeCall'[c].pc = "idle" /\ lifeCall'[c].was = "NONE"
  <1>1. 1 \in LifeDeployment
    BY LifeBounds DEF LifeDeployment
  <1>2. [pc |-> "idle", op |-> "stop", d |-> 1, was |-> "NONE"] \in LifeCallType
    BY <1>1 DEF LifeCallType, LifeCallPc, LifeOp, LifeStatus
  <1> QED
    BY <1>2 DEF LifeTypeOK, Answer, LifeCallType, LifeCallPc

(* A write keeps every other status, and writes nothing where there is no row. *)
LEMMA WritesFields ==
  ASSUME LifeTypeOK, NEW d \in LifeDeployment, NEW s \in LifeStatus, Writes(d, s)
  PROVE  /\ lifeStatus' \in [LifeDeployment -> LifeStatus]
         /\ \A e \in LifeDeployment : e # d => lifeStatus'[e] = lifeStatus[e]
         /\ Exists(d) => lifeStatus'[d] = s
         /\ ~Exists(d) => lifeStatus'[d] = lifeStatus[d]
         /\ \A e \in LifeDeployment : s # "GONE" /\ Exists(e) /\ s # "NONE" => Exists(e)'
  BY DEF LifeTypeOK, Writes, Exists

(* A request looks for the container, sends its command and verifies it. *)
LifeRemote(c) == LifeLook(c) \/ LifeCommand(c) \/ LifeVerify(c)
RemotePc == {"marked", "found", "absent", "acted"}

(* The container is anything a container can be. *)
UpChanges(c) == \E x \in {"none", "up", "paused", "down"} : lifeUp' = [lifeUp EXCEPT ![lifeCall[c].d] = x]

(* The request goes on; only a start records a container. *)
GoesOn(c) ==
  /\ \E p \in {"found", "absent", "acted", "done"} : CallTo(c, p)
  /\ UNCHANGED lifeStatus
  /\ lifeRef' \in {lifeRef, lifeRef \cup {lifeCall[c].d}}
  /\ ~Exists(lifeCall[c].d) => UNCHANGED lifeRef

(* Away from the faults of the VPS, a step of a request looks .. *)
Looks(c) ==
  LET k == lifeCall[c] IN
  /\ k.pc = "marked" /\ UNCHANGED lifeUp
  /\ \E p \in {"found", "absent"} :
       /\ CallTo(c, p)
       /\ (p = "found") = (k.d \in lifeRef /\ lifeUp[k.d] # "none")
  /\ UNCHANGED <<lifeStatus, lifeRef>>

(* .. or its command has its effect .. *)
Effect(c) ==
  LET k == lifeCall[c] IN
  /\ k.pc \in {"found", "absent"}
  /\ \E x \in {"none", "up", "paused", "down"} :
       /\ lifeUp' = [lifeUp EXCEPT ![k.d] = x]
       /\ k.op \in {"start", "restart"} => x = "up"
       /\ k.op = "stop" /\ k.pc = "found" => x = "down"
  /\ CallTo(c, "done") \/ (k.op \in {"start", "delete"} /\ CallTo(c, "acted"))
  /\ UNCHANGED lifeStatus
  /\ lifeRef' \in {lifeRef, lifeRef \cup {k.d}}
  /\ k.op = "start" /\ k.pc = "absent" /\ Exists(k.d) => k.d \in lifeRef'

(* .. or what it has done is verified .. *)
Verified(c) ==
  /\ lifeCall[c].pc = "acted" /\ CallTo(c, "done") /\ UNCHANGED <<lifeStatus, lifeRef, lifeUp>>

(* .. or it is refused, and nothing has changed. *)
Turned(c) ==
  /\ lifeCall[c].op \notin {"restart", "delete"} /\ lifeCall[c].pc # "acted"
  /\ Answer(c) /\ UNCHANGED <<lifeStatus, lifeRef, lifeUp>>

(* A command that has its effect is one case or another of Effect. *)
LEMMA CommandOutcome ==
  ASSUME LifeTypeOK, NEW c \in LifeCaller, lifeCall[c].pc \in {"found", "absent"},
         \/ lifeCall[c].op = "stop" /\ Stops(c)
         \/ lifeCall[c].op = "pause" /\ Pauses(c)
         \/ lifeCall[c].op = "start" /\ Resumes(c)
         \/ lifeCall[c].op = "restart" /\ Restarts(c)
         \/ lifeCall[c].op = "delete" /\ Removes(c)
  PROVE  \/ Effect(c) /\ (~Exists(lifeCall[c].d) => UNCHANGED lifeRef)
         \/ Missing(c)
         \/ Refused(c) /\ lifeCall[c].op # "delete" /\ (lifeCall[c].op = "restart" => lifeUp[lifeCall[c].d] = "none")
  <1> DEFINE k == lifeCall[c]
  <1>0. k \in LifeCallType /\ lifeUp[k.d] \in {"none", "up", "paused", "down"} /\ k.d \in LifeDeployment
    BY DEF LifeTypeOK, LifeCallType, LifeCallPc
  <1>1. CASE k.op = "stop" /\ Stops(c)
    BY <1>0, <1>1 DEF Stops, Commands, Effect
  <1>2. CASE k.op = "pause" /\ Pauses(c)
    BY <1>0, <1>2 DEF Pauses, Commands, Effect
  <1>3. CASE k.op = "start" /\ Resumes(c)
    <2>1. CASE k.pc = "found" /\ lifeUp[k.d] # "none" /\ (k.was = "PAUSED") = (lifeUp[k.d] = "paused")
      <3>1. Commands(c, "up", "acted")
        BY <1>3, <2>1 DEF Resumes
      <3> QED
        BY <1>3, <2>1, <3>1 DEF Commands, Effect
    <2>2. CASE k.pc = "found" /\ ~(lifeUp[k.d] # "none" /\ (k.was = "PAUSED") = (lifeUp[k.d] = "paused"))
      BY <1>3, <2>2 DEF Resumes
    <2>3. CASE k.pc = "absent" /\ k.d \in lifeSaved
      BY <1>3, <2>3 DEF Resumes, Effect
    <2>4. CASE k.pc = "absent" /\ k.d \notin lifeSaved
      BY <1>3, <2>4 DEF Resumes
    <2> QED
      BY <2>1, <2>2, <2>3, <2>4
  <1>4. CASE k.op = "restart" /\ Restarts(c)
    BY <1>0, <1>4 DEF Restarts, Commands, Effect
  <1>5. CASE k.op = "delete" /\ Removes(c)
    BY <1>0, <1>5 DEF Removes, Commands, Effect
  <1> QED
    BY <1>1, <1>2, <1>3, <1>4, <1>5

(* A step of a request after its mark does one of three things. *)
LEMMA RemoteOutcome ==
  ASSUME LifeTypeOK, NEW c \in LifeCaller, LifeRemote(c)
  PROVE  /\ lifeCall[c].pc \in RemotePc /\ UNCHANGED <<lifeSaved, lifeActive, lifeRun, lifeFaults>>
         /\ UpChanges(c)
         /\ GoesOn(c) \/ Missing(c) \/ CommandFails(c)
  <1> DEFINE k == lifeCall[c]
  <1>0. k \in LifeCallType /\ lifeUp[k.d] \in {"none", "up", "paused", "down"} /\ k.d \in LifeDeployment
        /\ lifeUp = [lifeUp EXCEPT ![k.d] = lifeUp[k.d]]
    BY DEF LifeTypeOK, LifeCallType, LifeCallPc
  <1>1. CASE LifeLook(c)
    BY <1>0, <1>1 DEF LifeLook, RemotePc, UpChanges, GoesOn
  <1>2. CASE LifeCommand(c)
    <2>0. k.pc \in {"found", "absent"} /\ UNCHANGED <<lifeSaved, lifeActive, lifeRun, lifeFaults>>
      BY <1>2 DEF LifeCommand
    <2>1. CASE Effect(c) /\ (~Exists(k.d) => UNCHANGED lifeRef)
      BY <1>0, <2>0, <2>1 DEF Effect, RemotePc, UpChanges, GoesOn
    <2>2. CASE Missing(c) \/ Refused(c)
      BY <1>0, <2>0, <2>2 DEF Missing, Refused, RemotePc, UpChanges
    <2>3. CASE CommandFails(c) /\ \E x \in LeftBy(c) : lifeUp' = [lifeUp EXCEPT ![k.d] = x]
      <3>1. LeftBy(c) \subseteq {"none", "up", "paused", "down"}
        BY <1>0, <2>0 DEF LeftBy, LifeCallType, LifeOp
      <3> QED
        BY <2>0, <2>3, <3>1 DEF RemotePc, UpChanges
    <2> QED
      BY <1>0, <1>2, <2>0, <2>1, <2>2, <2>3, CommandOutcome DEF LifeCommand, LifeCallType, LifeOp
  <1>3. CASE LifeVerify(c)
    BY <1>0, <1>3 DEF LifeVerify, RemotePc, UpChanges, GoesOn
  <1> QED
    BY <1>1, <1>2, <1>3 DEF LifeRemote

------------------------------------------------------------------------------
(* Types.                                                                  *)

(* A run works on a deployment, and a request on one that was there. *)
RunOwns == lifeRun.pc # "idle" => lifeRun.d \in LifeDeployment
CallOwns == \A c \in LifeCaller : lifeCall[c].pc # "idle" => lifeCall[c].was \notin {"NONE", "GONE"}

LifeTyped == LifeTypeOK /\ RunOwns /\ CallOwns

(* In the initial state there is no deployment and no request. *)
LEMMA LifeTypeInit == LifeInit => LifeTyped
  <1> SUFFICES ASSUME LifeInit PROVE LifeTyped
    OBVIOUS
  <1>1. 1 \in LifeDeployment
    BY LifeBounds DEF LifeDeployment
  <1> QED
    BY <1>1 DEF LifeInit, LifeTypeOK, LifeOp, LifeStatus, RunOwns, CallOwns, LifeTyped

(* Every step keeps the types. *)
LEMMA LifeTypeStep == LifeTyped /\ [LifeNext]_lifeVars => LifeTyped'
  <1> SUFFICES ASSUME LifeTypeOK, RunOwns, CallOwns, [LifeNext]_lifeVars PROVE LifeTyped'
    BY DEF LifeTyped
  <1> DEFINE Rows(status, ref, saved) ==
        /\ status \in [LifeDeployment -> LifeStatus]
        /\ ref \cup saved \subseteq {d \in LifeDeployment : status[d] \notin {"NONE", "GONE"}}
  <1> DEFINE UpType == [LifeDeployment -> {"none", "up", "paused", "down"}]
  <1> DEFINE RunType == [pc : LifePc, d : LifeDeployment \cup {NoDeployment}]
  <1>0. /\ Rows(lifeStatus, lifeRef, lifeSaved)
        /\ lifeUp \in UpType
        /\ lifeActive \in LifeDeployment \cup {NoDeployment}
        /\ lifeRun \in RunType
        /\ lifeCall \in [LifeCaller -> LifeCallType]
        /\ lifeFaults \in LifeFaultSets
    BY DEF LifeTypeOK, LifePc, LifeCallType, LifeCallPc
  <1>t. ASSUME Rows(lifeStatus', lifeRef', lifeSaved'),
               lifeUp' \in UpType, lifeActive' \in LifeDeployment \cup {NoDeployment},
               lifeRun' \in RunType, lifeCall' \in [LifeCaller -> LifeCallType], UNCHANGED lifeFaults, RunOwns',
               CallOwns' \/ UNCHANGED lifeCall
        PROVE  LifeTyped'
    <2>1. LifeTypeOK'
      BY <1>0, <1>t DEF LifeTypeOK, LifePc, LifeCallType, LifeCallPc
    <2> QED
      BY <1>t, <2>1 DEF LifeTyped, CallOwns
  <1>n. /\ NoRun \in RunType /\ NoRun.pc = "idle"
        /\ \A p \in LifePc : LifeRunGoes(p) => lifeRun' \in RunType /\ lifeRun'.d = lifeRun.d
    BY <1>0 DEF NoRun, LifePc, LifeRunGoes
  <1>w. ASSUME NEW d \in LifeDeployment, NEW s \in LifeStatus \ {"NONE", "GONE"}, Writes(d, s),
               lifeRef' \in SUBSET (lifeRef \cup {d}), lifeSaved' \in SUBSET (lifeSaved \cup {d}),
               Exists(d) \/ (lifeRef' \subseteq lifeRef /\ lifeSaved' \subseteq lifeSaved)
        PROVE  Rows(lifeStatus', lifeRef', lifeSaved')
    BY <1>0, <1>w DEF Writes, Exists
  <1>g. "FAILED" \in LifeStatus \ {"NONE", "GONE"} /\ "RUNNING" \in LifeStatus \ {"NONE", "GONE"}
        /\ "ROLLED_BACK" \in LifeStatus \ {"NONE", "GONE"} /\ "DEPLOYING" \in LifeStatus \ {"NONE", "GONE"}
        /\ "DELETING" \in LifeStatus \ {"NONE", "GONE"} /\ "STOPPED" \in LifeStatus \ {"NONE", "GONE"}
        /\ "PAUSED" \in LifeStatus \ {"NONE", "GONE"} /\ "BUILDING" \in LifeStatus \ {"NONE", "GONE"}
    BY DEF LifeStatus
  <1> HIDE DEF Rows
  <1>1. CASE LifeStarts
    <2>1. lifeRun' \in RunType /\ RunOwns' /\ lifeUp' \in UpType
      BY <1>0, <1>1, <1>n DEF LifeStarts, LifePc, RunOwns
    <2> QED
      BY <1>0, <1>1, <1>t, <2>1 DEF LifeStarts
  <1>2. CASE LifeFails
    <2>1. lifeRun.d \in LifeDeployment /\ lifeRun' \in RunType /\ RunOwns' /\ lifeUp' \in UpType
      BY <1>0, <1>2, <1>n DEF LifeFails, RunOwns
    <2>2. Rows(lifeStatus', lifeRef', lifeSaved')
      BY <1>2, <1>w, <1>g, <2>1 DEF LifeFails
    <2> QED
      BY <1>0, <1>2, <1>t, <2>1, <2>2 DEF LifeFails
  <1>3. CASE LifeActivates
    <2>1. lifeRun.d \in LifeDeployment /\ lifeRun' \in RunType /\ RunOwns'
      BY <1>0, <1>3, <1>n DEF LifeActivates, RunOwns, LifePc
    <2> QED
      BY <1>0, <1>3, <1>t, <2>1 DEF LifeActivates
  <1>4. CASE LifeShows
    <2>1. lifeRun.d \in LifeDeployment /\ lifeRun' \in RunType /\ RunOwns'
      BY <1>0, <1>4, <1>n DEF LifeShows, RunOwns, LifePc
    <2>2. Rows(lifeStatus', lifeRef', lifeSaved')
      BY <1>4, <1>w, <1>g, <2>1 DEF LifeShows
    <2> QED
      BY <1>0, <1>4, <1>t, <2>1, <2>2 DEF LifeShows
  <1>5. CASE LifeSettles
    <2>1. lifeRun.d \in LifeDeployment /\ lifeRun' \in RunType /\ RunOwns'
      BY <1>0, <1>5, <1>n DEF LifeSettles, RunOwns
    <2>2. Rows(lifeStatus', lifeRef', lifeSaved')
      BY <1>0, <1>5, <1>g, <2>1 DEF LifeSettles, Rows, OthersRunning, Exists
    <2> QED
      BY <1>0, <1>5, <1>t, <2>1, <2>2 DEF LifeSettles
  <1>6. CASE LifeRollSettles
    <2>1. lifeRun.d \in LifeDeployment /\ lifeRun' \in RunType /\ RunOwns'
      BY <1>0, <1>6, <1>n DEF LifeRollSettles, RunOwns, LifePc
    <2>2. Rows(lifeStatus', lifeRef', lifeSaved')
      BY <1>0, <1>6, <1>g, <2>1 DEF LifeRollSettles, Rows, OthersRunning
    <2> QED
      BY <1>0, <1>6, <1>t, <2>1, <2>2 DEF LifeRollSettles
  <1>7. CASE LifeRollShows
    <2>1. lifeRun.d \in LifeDeployment /\ lifeRun' \in RunType /\ RunOwns'
      BY <1>0, <1>7, <1>n DEF LifeRollShows, RunOwns
    <2>2. Rows(lifeStatus', lifeRef', lifeSaved')
      BY <1>7, <1>w, <1>g, <2>1 DEF LifeRollShows
    <2> QED
      BY <1>0, <1>7, <1>t, <2>1, <2>2 DEF LifeRollShows
  <1>8. ASSUME NEW d \in LifeDeployment, LifeDeploy(d) PROVE LifeTyped'
    <2>1. lifeRun' \in RunType /\ RunOwns'
      BY <1>8 DEF LifeDeploy, RunOwns, LifePc
    <2>2. Rows(lifeStatus', lifeRef', lifeSaved')
      BY <1>0, <1>8, <1>g DEF LifeDeploy, Rows
    <2> QED
      BY <1>0, <1>8, <1>t, <2>1, <2>2 DEF LifeDeploy
  <1>9. ASSUME NEW d \in LifeDeployment, LifeRoll(d) PROVE LifeTyped'
    <2>1. lifeRun' \in RunType /\ RunOwns'
      BY <1>9 DEF LifeRoll, RunOwns, LifePc
    <2> QED
      BY <1>0, <1>9, <1>t, <2>1 DEF LifeRoll
  <1>10. ASSUME NEW d \in LifeDeployment, LifeVanish(d) PROVE LifeTyped'
    BY <1>0, <1>10, <1>t DEF LifeVanish, RunOwns
  <1>c. ASSUME NEW c \in LifeCaller, lifeCall[c].pc # "idle",
               Answer(c) \/ \E p \in LifeCallPc : CallTo(c, p)
        PROVE  lifeCall' \in [LifeCaller -> LifeCallType] /\ CallOwns'
    BY <1>0, <1>c, AnswerFields, CallToFields DEF CallOwns
  <1>11. ASSUME NEW c \in LifeCaller, LifeMark(c) PROVE LifeTyped'
    <2>1. lifeCall[c].d \in LifeDeployment
      BY <1>0 DEF LifeCallType
    <2>2. Rows(lifeStatus', lifeRef', lifeSaved')
      <3>1. CASE lifeCall[c].op = "restart"
        BY <1>11, <1>w, <1>g, <2>1, <3>1 DEF LifeMark
      <3>2. CASE lifeCall[c].op = "delete"
        BY <1>11, <1>w, <1>g, <2>1, <3>2 DEF LifeMark
      <3>3. CASE lifeCall[c].op \notin {"restart", "delete"}
        BY <1>0, <1>11, <3>3 DEF LifeMark
      <3> QED
        BY <3>1, <3>2, <3>3
    <2>3. lifeCall' \in [LifeCaller -> LifeCallType] /\ CallOwns'
      BY <1>11, <1>c DEF LifeMark, LifeCallPc
    <2> QED
      BY <1>0, <1>11, <1>t, <2>2, <2>3 DEF LifeMark, RunOwns
  <1>12. ASSUME NEW c \in LifeCaller, LifeRemote(c) PROVE LifeTyped'
    <2>u. /\ lifeCall[c].pc \in RemotePc /\ UNCHANGED <<lifeSaved, lifeActive, lifeRun, lifeFaults>>
          /\ UpChanges(c) /\ (GoesOn(c) \/ Missing(c) \/ CommandFails(c))
      BY <1>12, RemoteOutcome
    <2>1. lifeCall[c].d \in LifeDeployment /\ lifeCall[c].was \in LifeStatus \ {"NONE", "GONE"}
          /\ lifeCall[c].pc # "idle" /\ RunOwns'
      BY <1>0, <2>u DEF LifeCallType, CallOwns, RunOwns, RemotePc
    <2>2. lifeUp' \in UpType
      BY <1>0, <2>u DEF UpChanges
    <2>3. lifeCall' \in [LifeCaller -> LifeCallType] /\ CallOwns'
      BY <1>c, <2>1, <2>u DEF GoesOn, Missing, CommandFails, LifeCallPc
    <2>4. Rows(lifeStatus', lifeRef', lifeSaved')
      <3>1. CASE GoesOn(c)
        BY <1>0, <2>1, <2>u, <3>1 DEF GoesOn, Rows, Exists
      <3>2. CASE Missing(c)
        BY <1>w, <1>g, <2>1, <2>u, <3>2 DEF Missing
      <3>3. CASE CommandFails(c) /\ lifeCall[c].op = "restart"
        BY <1>w, <1>g, <2>1, <2>u, <3>3 DEF CommandFails
      <3>4. CASE CommandFails(c) /\ lifeCall[c].op = "delete"
        BY <1>w, <2>1, <2>u, <3>4 DEF CommandFails
      <3>5. CASE CommandFails(c) /\ lifeCall[c].op \notin {"restart", "delete"}
        BY <1>0, <2>u, <3>5 DEF CommandFails
      <3> QED
        BY <2>u, <3>1, <3>2, <3>3, <3>4, <3>5
    <2> QED
      BY <1>0, <1>t, <2>u, <2>1, <2>2, <2>3, <2>4
  <1>13. ASSUME NEW c \in LifeCaller, LifeWrite(c) PROVE LifeTyped'
    <2>1. lifeCall[c].d \in LifeDeployment /\ lifeCall[c].op \in LifeOp
      BY <1>0 DEF LifeCallType
    <2>2. CASE lifeCall[c].op = "delete"
      <3>1. Rows(lifeStatus', lifeRef', lifeSaved') /\ lifeActive' \in LifeDeployment \cup {NoDeployment}
        BY <1>0, <1>13, <2>1, <2>2 DEF LifeWrite, Writes, Rows, LifeStatus, Exists
      <3>2. lifeCall' \in [LifeCaller -> LifeCallType] /\ CallOwns'
        BY <1>13, <1>c DEF LifeWrite
      <3> QED
        BY <1>0, <1>13, <1>t, <3>1, <3>2 DEF LifeWrite, RunOwns
    <2>3. CASE lifeCall[c].op # "delete"
      <3>1. \E s \in {"STOPPED", "PAUSED", "RUNNING"} : Writes(lifeCall[c].d, s)
        BY <1>13, <2>1, <2>3 DEF LifeWrite, LifeOp
      <3>2. Rows(lifeStatus', lifeRef', lifeSaved')
        BY <1>13, <1>w, <1>g, <2>1, <2>3, <3>1 DEF LifeWrite
      <3>3. lifeCall' \in [LifeCaller -> LifeCallType] /\ CallOwns'
        BY <1>13, <1>c DEF LifeWrite
      <3> QED
        BY <1>0, <1>13, <1>t, <2>3, <3>2, <3>3 DEF LifeWrite, RunOwns
    <2> QED
      BY <2>2, <2>3
  <1>14. ASSUME NEW c \in LifeCaller, NEW op \in LifeOp, NEW d \in LifeDeployment, LifeRequest(c, op, d)
         PROVE  LifeTyped'
    <2>1. [pc |-> "begun", op |-> op, d |-> d, was |-> lifeStatus[d]] \in LifeCallType
      BY <1>0 DEF LifeCallType, LifeCallPc, Rows
    <2>2. lifeStatus[d] \notin {"NONE", "GONE"}
      BY <1>14 DEF LifeRequest, Allowed, LifeOp, Exists
    <2>3. lifeCall' \in [LifeCaller -> LifeCallType] /\ CallOwns'
      BY <1>0, <1>14, <2>1, <2>2 DEF LifeRequest, CallOwns
    <2> QED
      BY <1>0, <1>14, <1>t, <2>3 DEF LifeRequest, RunOwns
  <1>15. CASE UNCHANGED lifeVars
    BY <1>0, <1>15, <1>t DEF lifeVars, RunOwns
  <1> QED
    BY <1>1, <1>2, <1>3, <1>4, <1>5, <1>6, <1>7, <1>8, <1>9, <1>10, <1>11, <1>12, <1>13, <1>14, <1>15 DEF LifeNext, LifeRemote

------------------------------------------------------------------------------
(* One at a time.                                                          *)

Alone == "overlap" \notin lifeFaults
Awake(c) == lifeCall[c].pc # "idle"
Says == {"RUNNING", "ROLLED_BACK"}

OneAtATime ==
  /\ lifeRun.pc # "idle" => NoCalls
  /\ \A b, c \in LifeCaller : Awake(b) /\ Awake(c) => b = c

(* What a run has written, and that the traffic is its own once it has it. *)
RunAt ==
  /\ lifeRun.pc \in {"building", "started", "activated"} => lifeStatus[lifeRun.d] = "BUILDING"
  /\ lifeRun.pc \in {"rolling", "rolled"} => Exists(lifeRun.d)
  /\ lifeRun.pc = "shown" => lifeStatus[lifeRun.d] = "RUNNING"
  /\ lifeRun.pc \in {"activated", "shown", "rolling", "rolled"} => lifeActive = lifeRun.d

(* What a request has read is still so, but for its own mark. *)
MarkOf(k) ==
  IF k.pc # "begun" /\ k.op = "restart" THEN "DEPLOYING"
  ELSE IF k.pc # "begun" /\ k.op = "delete" THEN "DELETING" ELSE k.was

LifeCallAt(k) ==
  k.pc # "idle" =>
    /\ lifeStatus[k.d] = MarkOf(k)
    /\ k.op \in {"stop", "pause", "restart"} => k.was \in Says
    /\ k.op = "start" => k.was \notin Says

LifeSoloInv == Alone => OneAtATime /\ RunAt /\ \A c \in LifeCaller : LifeCallAt(lifeCall[c])

(* The faults of a behaviour are chosen once. *)
LEMMA LifeFaultsStay == [LifeNext]_lifeVars => UNCHANGED lifeFaults
  <1> SUFFICES ASSUME [LifeNext]_lifeVars PROVE UNCHANGED lifeFaults
    OBVIOUS
  <1>1. CASE \E c \in LifeCaller : LifeMark(c) \/ LifeRemote(c) \/ LifeWrite(c)
    BY <1>1 DEF LifeMark, LifeRemote, LifeLook, LifeCommand, LifeVerify, LifeWrite
  <1>2. CASE \E c \in LifeCaller, op \in LifeOp, d \in LifeDeployment : LifeRequest(c, op, d)
    BY <1>2 DEF LifeRequest
  <1>3. CASE \E d \in LifeDeployment : LifeDeploy(d) \/ LifeRoll(d) \/ LifeVanish(d)
    BY <1>3 DEF LifeDeploy, LifeRoll, LifeVanish
  <1>4. CASE LifeStarts \/ LifeFails \/ LifeActivates \/ LifeShows
    BY <1>4 DEF LifeStarts, LifeFails, LifeActivates, LifeShows
  <1>5. CASE LifeSettles \/ LifeRollSettles \/ LifeRollShows
    BY <1>5 DEF LifeSettles, LifeRollSettles, LifeRollShows
  <1> QED
    BY <1>1, <1>2, <1>3, <1>4, <1>5 DEF LifeNext, LifeRemote, lifeVars

(* Nothing is under way at first .. *)
LEMMA SoloInit == LifeInit => LifeSoloInv
  BY DEF LifeInit, LifeSoloInv, OneAtATime, RunAt, LifeCallAt, NoCalls, Awake

(* .. and one thing at a time from then on. *)
LEMMA SoloStep == LifeTyped /\ LifeSoloInv /\ [LifeNext]_lifeVars => LifeSoloInv'
  <1> SUFFICES ASSUME LifeTyped, LifeSoloInv, [LifeNext]_lifeVars PROVE LifeSoloInv'
    OBVIOUS
  <1>f. UNCHANGED lifeFaults
    BY LifeFaultsStay
  <1>s. SUFFICES ASSUME Alone
                 PROVE  OneAtATime' /\ RunAt' /\ \A c \in LifeCaller : LifeCallAt(lifeCall[c])'
    BY <1>f DEF LifeSoloInv, Alone
  <1>0. /\ OneAtATime /\ RunAt /\ \A c \in LifeCaller : LifeCallAt(lifeCall[c])
        /\ LifeTypeOK /\ RunOwns /\ CallOwns
        /\ lifeStatus \in [LifeDeployment -> LifeStatus]
        /\ lifeRun \in [pc : LifePc, d : LifeDeployment \cup {NoDeployment}]
        /\ lifeCall \in [LifeCaller -> LifeCallType]
    BY <1>s DEF LifeSoloInv, LifeTyped, LifeTypeOK, LifePc, LifeCallType, LifeCallPc
  <1>r. ASSUME UNCHANGED lifeCall, NoCalls, RunAt'
        PROVE  OneAtATime' /\ RunAt' /\ \A c \in LifeCaller : LifeCallAt(lifeCall[c])'
    BY <1>r DEF OneAtATime, LifeCallAt, NoCalls, Awake
  <1>n. ASSUME UNCHANGED lifeCall, lifeRun.pc # "idle" \/ NoCalls, RunAt'
        PROVE  OneAtATime' /\ RunAt' /\ \A c \in LifeCaller : LifeCallAt(lifeCall[c])'
    BY <1>0, <1>r, <1>n DEF OneAtATime
  <1>g. \A p \in LifePc : LifeRunGoes(p) => lifeRun'.pc = p /\ lifeRun'.d = lifeRun.d
    BY <1>0 DEF LifeRunGoes, LifePc
  <1>o. NoRun.pc = "idle"
    BY DEF NoRun
  <1>1. CASE LifeStarts
    <2>1. lifeRun'.pc = "started" /\ lifeRun'.d = lifeRun.d
      BY <1>1, <1>g DEF LifeStarts, LifePc
    <2> QED
      BY <1>0, <1>1, <1>n, <2>1 DEF LifeStarts, RunAt
  <1>2. CASE LifeFails
    BY <1>0, <1>2, <1>n, <1>o DEF LifeFails, RunAt
  <1>3. CASE LifeActivates
    <2>1. lifeRun'.pc = "activated" /\ lifeRun'.d = lifeRun.d
      BY <1>3, <1>g DEF LifeActivates, LifePc
    <2> QED
      BY <1>0, <1>3, <1>n, <2>1 DEF LifeActivates, RunAt
  <1>4. CASE LifeShows
    <2>1. lifeRun.d \in LifeDeployment /\ Exists(lifeRun.d)
      BY <1>0, <1>4 DEF LifeShows, RunOwns, RunAt, Exists
    <2>2. lifeRun'.pc = "shown" /\ lifeRun'.d = lifeRun.d /\ lifeStatus'[lifeRun.d] = "RUNNING"
      BY <1>0, <1>4, <1>g, <2>1 DEF LifeShows, LifePc, Writes
    <2> QED
      BY <1>0, <1>4, <1>n, <2>2 DEF LifeShows, RunAt
  <1>5. CASE LifeSettles
    BY <1>0, <1>5, <1>n, <1>o DEF LifeSettles, RunAt
  <1>6. CASE LifeRollSettles
    <2>1. lifeRun.d \in LifeDeployment /\ lifeRun'.pc = "rolled" /\ lifeRun'.d = lifeRun.d
      BY <1>0, <1>6, <1>g DEF LifeRollSettles, LifePc, RunOwns
    <2>2. Exists(lifeRun.d)'
      BY <1>0, <1>6, <2>1 DEF LifeRollSettles, RunAt, Exists
    <2> QED
      BY <1>0, <1>6, <1>n, <2>1, <2>2 DEF LifeRollSettles, RunAt
  <1>7. CASE LifeRollShows
    BY <1>0, <1>7, <1>n, <1>o DEF LifeRollShows, RunAt
  <1>8. ASSUME NEW d \in LifeDeployment, LifeDeploy(d)
        PROVE  OneAtATime' /\ RunAt' /\ \A c \in LifeCaller : LifeCallAt(lifeCall[c])'
    BY <1>0, <1>8, <1>n, <1>s DEF LifeDeploy, RunAt, Alone
  <1>9. ASSUME NEW d \in LifeDeployment, LifeRoll(d)
        PROVE  OneAtATime' /\ RunAt' /\ \A c \in LifeCaller : LifeCallAt(lifeCall[c])'
    BY <1>9, <1>n, <1>s DEF LifeRoll, RunAt, Alone, Exists
  <1>10. ASSUME NEW d \in LifeDeployment, LifeVanish(d)
         PROVE  OneAtATime' /\ RunAt' /\ \A c \in LifeCaller : LifeCallAt(lifeCall[c])'
    BY <1>0, <1>10 DEF LifeVanish, OneAtATime, NoCalls, Awake, RunAt, Exists, LifeCallAt
  <1>c. ASSUME NEW c \in LifeCaller, Awake(c), UNCHANGED lifeRun,
               LifeCallAt(lifeCall[c])', \A b \in LifeCaller : b # c => lifeCall'[b] = lifeCall[b]
        PROVE  OneAtATime' /\ RunAt' /\ \A b \in LifeCaller : LifeCallAt(lifeCall[b])'
    <2>1. lifeRun.pc = "idle" /\ \A b \in LifeCaller : b # c => lifeCall[b].pc = "idle"
      BY <1>0, <1>c DEF OneAtATime, NoCalls, Awake
    <2>2. RunAt' /\ OneAtATime'
      BY <1>c, <2>1 DEF RunAt, OneAtATime, Awake
    <2> QED
      BY <1>c, <2>1, <2>2 DEF LifeCallAt
  <1>11. ASSUME NEW c \in LifeCaller, LifeMark(c)
         PROVE  OneAtATime' /\ RunAt' /\ \A b \in LifeCaller : LifeCallAt(lifeCall[b])'
    <2> DEFINE k == lifeCall[c]
    <2>1. k \in LifeCallType /\ k.pc = "begun" /\ lifeStatus[k.d] = k.was /\ LifeCallAt(k)
      BY <1>0, <1>11 DEF LifeMark, LifeCallAt, MarkOf
    <2>2. Exists(k.d) /\ k.d \in LifeDeployment
      BY <1>0, <2>1 DEF CallOwns, Exists, LifeCallType
    <2>3. CallTo(c, "marked")
      BY <1>11, <2>2 DEF LifeMark
    <2>4. /\ \A b \in LifeCaller : b # c => lifeCall'[b] = lifeCall[b]
          /\ lifeCall'[c].pc = "marked" /\ lifeCall'[c].op = k.op /\ lifeCall'[c].d = k.d
          /\ lifeCall'[c].was = k.was
      BY <1>0, <2>3, CallToFields DEF LifeCallPc
    <2>5. lifeStatus'[k.d] = MarkOf(lifeCall'[c])
      <3>1. CASE k.op = "restart"
        BY <1>0, <1>11, <2>2, <2>4, <3>1 DEF LifeMark, Writes, MarkOf
      <3>2. CASE k.op = "delete"
        BY <1>0, <1>11, <2>2, <2>4, <3>2 DEF LifeMark, Writes, MarkOf
      <3>3. CASE k.op \notin {"restart", "delete"}
        BY <1>11, <2>1, <2>4, <3>3 DEF LifeMark, MarkOf
      <3> QED
        BY <3>1, <3>2, <3>3
    <2>6. LifeCallAt(lifeCall[c])'
      BY <2>1, <2>4, <2>5 DEF LifeCallAt
    <2> QED
      BY <1>11, <1>c, <2>1, <2>4, <2>6 DEF LifeMark, Awake
  <1>12. ASSUME NEW c \in LifeCaller, LifeRemote(c)
         PROVE  OneAtATime' /\ RunAt' /\ \A b \in LifeCaller : LifeCallAt(lifeCall[b])'
    <2>1. lifeCall[c].pc \in RemotePc /\ UNCHANGED <<lifeActive, lifeRun>> /\ (GoesOn(c) \/ Missing(c) \/ CommandFails(c))
      BY <1>0, <1>12, RemoteOutcome
    <2>2. CASE GoesOn(c)
      <3>1. PICK p \in {"found", "absent", "acted", "done"} : CallTo(c, p)
        BY <2>2 DEF GoesOn
      <3>2. /\ \A b \in LifeCaller : b # c => lifeCall'[b] = lifeCall[b]
            /\ lifeCall'[c].pc = p /\ lifeCall'[c].op = lifeCall[c].op
            /\ lifeCall'[c].d = lifeCall[c].d /\ lifeCall'[c].was = lifeCall[c].was
        BY <1>0, <3>1, CallToFields DEF LifeCallPc
      <3>3. LifeCallAt(lifeCall[c])'
        BY <1>0, <2>1, <2>2, <3>2 DEF GoesOn, LifeCallAt, MarkOf, RemotePc
      <3> QED
        BY <1>c, <2>1, <3>2, <3>3 DEF Awake, RemotePc
    <2>3. CASE Missing(c) \/ CommandFails(c)
      BY <1>0, <1>c, <2>1, <2>3, AnswerFields DEF Missing, CommandFails, Awake, LifeCallAt, RemotePc
    <2> QED
      BY <2>1, <2>2, <2>3
  <1>13. ASSUME NEW c \in LifeCaller, LifeWrite(c)
         PROVE  OneAtATime' /\ RunAt' /\ \A b \in LifeCaller : LifeCallAt(lifeCall[b])'
    BY <1>0, <1>c, <1>13, AnswerFields DEF LifeWrite, Awake, LifeCallAt
  <1>14. ASSUME NEW c \in LifeCaller, NEW op \in LifeOp, NEW d \in LifeDeployment, LifeRequest(c, op, d)
         PROVE  OneAtATime' /\ RunAt' /\ \A b \in LifeCaller : LifeCallAt(lifeCall[b])'
    <2>1. NoCalls /\ lifeRun.pc = "idle"
      BY <1>14, <1>s, <1>o DEF LifeRequest, Alone
    <2>2. /\ lifeCall'[c] = [pc |-> "begun", op |-> op, d |-> d, was |-> lifeStatus[d]]
          /\ \A b \in LifeCaller : b # c => lifeCall'[b] = lifeCall[b]
      BY <1>0, <1>14 DEF LifeRequest
    <2>3. OneAtATime' /\ RunAt'
      BY <1>14, <2>1, <2>2 DEF LifeRequest, OneAtATime, NoCalls, Awake, RunAt
    <2>a. /\ op \in {"stop", "pause", "restart"} => lifeStatus[d] \in Says
          /\ op = "start" => lifeStatus[d] \notin Says
      BY <1>14 DEF LifeRequest, Allowed, Says
    <2>4. LifeCallAt(lifeCall[c])'
      BY <1>14, <2>2, <2>a DEF LifeRequest, LifeCallAt, MarkOf
    <2> QED
      BY <2>1, <2>2, <2>3, <2>4 DEF LifeCallAt, NoCalls
  <1>15. CASE UNCHANGED lifeVars
    BY <1>0, <1>15 DEF lifeVars, OneAtATime, NoCalls, Awake, RunAt, Exists, LifeCallAt
  <1> QED
    BY <1>1, <1>2, <1>3, <1>4, <1>5, <1>6, <1>7, <1>8, <1>9, <1>10, <1>11, <1>12, <1>13, <1>14, <1>15 DEF LifeNext, LifeRemote

------------------------------------------------------------------------------
(* What says that it runs has a container that runs.                       *)

Steady == lifeFaults \cap {"overlap", "gone", "ssh"} = {}

Stopping(k) == k.pc = "done" /\ k.op \in {"stop", "pause"}

ShownIsUp ==
  \A d \in Shown : d \in lifeRef /\ (lifeUp[d] = "up" \/ \E c \in LifeCaller : Stopping(lifeCall[c]) /\ lifeCall[c].d = d)

RunIsUp == lifeRun.pc \in {"activated", "shown", "rolling", "rolled"} => lifeUp[lifeRun.d] = "up"

(* What a request has found of the container, and what its command has made of it. *)
CallIsUp(k) ==
  /\ k.pc \in {"acted", "done"} /\ k.op \in {"start", "restart"} => lifeUp[k.d] = "up" /\ k.d \in lifeRef
  /\ k.pc = "found" => k.d \in lifeRef /\ lifeUp[k.d] # "none"
  /\ k.pc = "absent" => k.was \notin Says
  /\ k.pc = "acted" => k.op \in {"start", "delete"}
  /\ k.pc = "done" /\ k.op = "stop" => lifeUp[k.d] = "down"
  /\ k.pc \in {"begun", "marked", "found"} /\ k.was \in Says => lifeUp[k.d] = "up" /\ k.d \in lifeRef

UpInv == Steady => ShownIsUp /\ RunIsUp /\ \A c \in LifeCaller : CallIsUp(lifeCall[c])

(* As long as no command fails, a step of a request after its mark does one of five things. *)
LEMMA SteadyOutcome ==
  ASSUME LifeTypeOK, Steady, NEW c \in LifeCaller, LifeRemote(c), LifeCallAt(lifeCall[c]), CallIsUp(lifeCall[c])
  PROVE  Looks(c) \/ Effect(c) \/ Verified(c) \/ (Missing(c) /\ UNCHANGED lifeUp) \/ Turned(c)
  <1> DEFINE k == lifeCall[c]
  <1>0. k \in LifeCallType /\ "ssh" \notin lifeFaults
    BY DEF LifeTypeOK, LifeCallType, LifeCallPc, Steady
  <1>1. CASE LifeLook(c)
    <2>1. CASE k.op = "pause" /\ k.d \notin lifeRef
      BY <1>1, <2>1 DEF LifeLook, CommandFails, Turned
    <2>2. CASE ~(k.op = "pause" /\ k.d \notin lifeRef)
      BY <1>0, <1>1, <2>2 DEF LifeLook, Looks, Finds
    <2> QED
      BY <2>1, <2>2
  <1>2. CASE LifeCommand(c)
    <2>1. k.pc \in {"found", "absent"}
      BY <1>2 DEF LifeCommand
    <2>2. \/ Effect(c) \/ Missing(c)
          \/ Refused(c) /\ k.op # "delete" /\ (k.op = "restart" => lifeUp[k.d] = "none")
      BY <1>0, <1>2, <2>1, CommandOutcome DEF LifeCommand, LifeCallType, LifeOp
    <2>3. CASE Refused(c) /\ k.op # "delete" /\ (k.op = "restart" => lifeUp[k.d] = "none")
      <3>1. k.op # "restart"
        BY <2>1, <2>3 DEF CallIsUp, LifeCallAt
      <3> QED
        BY <2>1, <2>3, <3>1 DEF Refused, CommandFails, Turned
    <2> QED
      BY <2>2, <2>3 DEF Missing
  <1>3. CASE LifeVerify(c)
    BY <1>0, <1>3 DEF LifeVerify, Verified, CallIsUp
  <1> QED
    BY <1>1, <1>2, <1>3 DEF LifeRemote

(* Nothing is shown at first .. *)
LEMMA UpInit == LifeInit => UpInv
  BY DEF LifeInit, UpInv, ShownIsUp, Shown, RunIsUp, CallIsUp

(* .. and a step shows only what is up. *)
LEMMA UpStep == LifeTyped /\ LifeSoloInv /\ UpInv /\ [LifeNext]_lifeVars => UpInv'
  <1> SUFFICES ASSUME LifeTyped, LifeSoloInv, UpInv, [LifeNext]_lifeVars PROVE UpInv'
    OBVIOUS
  <1> DEFINE Goal == ShownIsUp /\ RunIsUp /\ \A c \in LifeCaller : CallIsUp(lifeCall[c])
  <1>f. UNCHANGED lifeFaults
    BY LifeFaultsStay
  <1>s. SUFFICES ASSUME Steady PROVE Goal'
    BY <1>f DEF UpInv, Steady
  <1>0. /\ OneAtATime /\ RunAt /\ \A c \in LifeCaller : LifeCallAt(lifeCall[c])
        /\ ShownIsUp /\ RunIsUp /\ \A c \in LifeCaller : CallIsUp(lifeCall[c])
        /\ LifeTypeOK /\ RunOwns /\ CallOwns /\ Alone
        /\ lifeStatus \in [LifeDeployment -> LifeStatus]
        /\ lifeUp \in [LifeDeployment -> {"none", "up", "paused", "down"}]
        /\ lifeRun \in [pc : LifePc, d : LifeDeployment \cup {NoDeployment}]
        /\ lifeCall \in [LifeCaller -> LifeCallType]
    BY <1>s DEF LifeSoloInv, UpInv, Steady, Alone, LifeTyped, LifeTypeOK, LifePc, LifeCallType, LifeCallPc
  <1> HIDE DEF Goal
  (* Steps of a run, which no request meets. *)
  <1>n. ASSUME UNCHANGED lifeCall, lifeRun.pc # "idle" \/ NoCalls, RunIsUp',
               (\A d \in Shown : d \in lifeRef /\ lifeUp[d] = "up") =>
                 \A d \in Shown' : d \in lifeRef' /\ lifeUp'[d] = "up"
        PROVE  Goal'
    <2>1. NoCalls
      BY <1>0, <1>n DEF OneAtATime
    <2>2. \A d \in Shown : d \in lifeRef /\ lifeUp[d] = "up"
      BY <1>0, <2>1 DEF ShownIsUp, Stopping, NoCalls
    <2> QED
      BY <1>n, <2>1, <2>2 DEF Goal, ShownIsUp, CallIsUp, NoCalls
  <1>g. \A p \in LifePc : LifeRunGoes(p) => lifeRun'.pc = p /\ lifeRun'.d = lifeRun.d
    BY <1>0 DEF LifeRunGoes, LifePc
  <1>o. NoRun.pc = "idle"
    BY DEF NoRun
  <1>1. CASE LifeStarts
    <2>1. lifeRun'.pc = "started"
      BY <1>1, <1>g DEF LifeStarts, LifePc
    <2> QED
      BY <1>0, <1>1, <1>n, <2>1 DEF LifeStarts, RunIsUp, Shown
  <1>2. CASE LifeFails
    <2>1. lifeRun.d \in LifeDeployment
      BY <1>0, <1>2 DEF LifeFails, RunOwns
    <2>2. Shown' \subseteq Shown \ {lifeRun.d}
      BY <1>0, <1>2, <2>1 DEF LifeFails, Writes, Shown, Exists
    <2> QED
      BY <1>0, <1>2, <1>n, <1>o, <2>2 DEF LifeFails, RunIsUp, Shown
  <1>3. CASE LifeActivates
    <2>1. lifeRun'.pc = "activated" /\ lifeRun'.d = lifeRun.d
      BY <1>3, <1>g DEF LifeActivates, LifePc
    <2> QED
      BY <1>0, <1>3, <1>n, <2>1 DEF LifeActivates, RunIsUp, Shown
  <1>4. CASE LifeShows
    <2>1. lifeRun.d \in LifeDeployment /\ Exists(lifeRun.d)
      BY <1>0, <1>4 DEF LifeShows, RunOwns, RunAt, Exists
    <2>2. lifeRun'.d = lifeRun.d /\ lifeRef' = lifeRef \cup {lifeRun.d}
      BY <1>4, <1>g, <2>1 DEF LifeShows, LifePc
    <2>3. Shown' \subseteq Shown \cup {lifeRun.d}
      BY <1>0, <1>4, <2>1 DEF LifeShows, Writes, Shown
    <2> QED
      BY <1>0, <1>4, <1>n, <2>2, <2>3 DEF LifeShows, RunIsUp
  <1>5. CASE LifeSettles
    <2>1. Shown' \subseteq Shown
      BY <1>0, <1>5 DEF LifeSettles, OthersRunning, Shown
    <2> QED
      BY <1>0, <1>5, <1>n, <1>o, <2>1 DEF LifeSettles, RunIsUp
  <1>6. CASE LifeRollSettles
    <2>1. lifeRun'.d = lifeRun.d
      BY <1>6, <1>g DEF LifeRollSettles, LifePc
    <2>2. Shown' \subseteq Shown
      BY <1>0, <1>6 DEF LifeRollSettles, OthersRunning, Shown
    <2> QED
      BY <1>0, <1>6, <1>n, <2>1, <2>2 DEF LifeRollSettles, RunIsUp
  <1>7. CASE LifeRollShows
    <2>1. lifeRun.d \in LifeDeployment /\ Exists(lifeRun.d)
      BY <1>0, <1>7 DEF LifeRollShows, RunOwns, RunAt
    <2>2. Shown' \subseteq Shown \cup {lifeRun.d} /\ lifeRef' = lifeRef \cup {lifeRun.d}
      BY <1>0, <1>7, <2>1 DEF LifeRollShows, Writes, Shown
    <2> QED
      BY <1>0, <1>7, <1>n, <1>o, <2>2 DEF LifeRollShows, RunIsUp
  <1>8. ASSUME NEW d \in LifeDeployment, LifeDeploy(d) PROVE Goal'
    <2>1. Shown' \subseteq Shown
      BY <1>0, <1>8 DEF LifeDeploy, Shown
    <2> QED
      BY <1>0, <1>8, <1>n, <2>1 DEF LifeDeploy, RunIsUp, Alone
  <1>9. ASSUME NEW d \in LifeDeployment, LifeRoll(d) PROVE Goal'
    BY <1>0, <1>9, <1>n DEF LifeRoll, RunIsUp, Shown, Alone
  <1>10. ASSUME NEW d \in LifeDeployment, LifeVanish(d) PROVE Goal'
    BY <1>10, <1>s DEF LifeVanish, Steady
  (* Steps of a request, the only one. *)
  <1>c. ASSUME NEW c \in LifeCaller, Awake(c), UNCHANGED lifeRun,
               \A b \in LifeCaller : b # c => lifeCall'[b] = lifeCall[b],
               CallIsUp(lifeCall[c])',
               (\A d \in Shown : d \in lifeRef /\ (lifeUp[d] = "up" \/ (Stopping(lifeCall[c]) /\ lifeCall[c].d = d))) =>
                 \A d \in Shown' : d \in lifeRef' /\
                    (lifeUp'[d] = "up" \/ (Stopping(lifeCall'[c]) /\ lifeCall'[c].d = d))
        PROVE  Goal'
    <2>1. lifeRun.pc = "idle" /\ \A b \in LifeCaller : b # c => lifeCall[b].pc = "idle"
      BY <1>0, <1>c DEF OneAtATime, NoCalls, Awake
    <2>2. \A d \in Shown : d \in lifeRef /\ (lifeUp[d] = "up" \/ (Stopping(lifeCall[c]) /\ lifeCall[c].d = d))
      BY <1>0, <2>1 DEF ShownIsUp, Stopping
    <2>3. ShownIsUp'
      BY <1>c, <2>2 DEF ShownIsUp, Stopping
    <2> QED
      BY <1>c, <2>1, <2>3 DEF Goal, RunIsUp, CallIsUp
  <1>11. ASSUME NEW c \in LifeCaller, LifeMark(c) PROVE Goal'
    <2> DEFINE k == lifeCall[c]
    <2>1. k \in LifeCallType /\ k.pc = "begun" /\ CallIsUp(k) /\ k.was \in LifeStatus
      BY <1>0, <1>11 DEF LifeMark, LifeCallType
    <2>2. Exists(k.d) /\ k.d \in LifeDeployment
      BY <1>0, <2>1 DEF CallOwns, LifeCallAt, MarkOf, Exists, LifeCallType
    <2>3. CallTo(c, "marked") /\ UNCHANGED <<lifeRef, lifeUp, lifeRun>>
      BY <1>11, <2>2 DEF LifeMark
    <2>4. /\ \A b \in LifeCaller : b # c => lifeCall'[b] = lifeCall[b]
          /\ lifeCall'[c].pc = "marked" /\ lifeCall'[c].d = k.d /\ lifeCall'[c].was = k.was
      BY <1>0, <2>3, CallToFields DEF LifeCallPc
    <2>5. Shown' \subseteq Shown
      <3>1. CASE k.op \in {"restart", "delete"}
        BY <1>0, <1>11, <2>2, <3>1 DEF LifeMark, Writes, Shown
      <3>2. CASE k.op \notin {"restart", "delete"}
        BY <1>11, <3>2 DEF LifeMark, Shown
      <3> QED
        BY <3>1, <3>2
    <2>6. CallIsUp(lifeCall[c])'
      BY <2>1, <2>3, <2>4 DEF CallIsUp
    <2> QED
      BY <1>c, <2>1, <2>3, <2>4, <2>5, <2>6 DEF Awake, Stopping
  <1>12. ASSUME NEW c \in LifeCaller, LifeRemote(c) PROVE Goal'
    <2> DEFINE k == lifeCall[c]
    <2>0. k.pc \in RemotePc /\ UNCHANGED lifeRun
      BY <1>0, <1>12, RemoteOutcome
    <2>1. Awake(c) /\ k \in LifeCallType /\ CallIsUp(k) /\ LifeCallAt(k)
      BY <1>0, <2>0 DEF RemotePc, Awake
    <2>2. Exists(k.d) /\ k.d \in LifeDeployment
      BY <1>0, <2>1 DEF CallOwns, LifeCallAt, MarkOf, Exists, LifeCallType, Awake
    <2>3. CASE Looks(c)
      <3>1. PICK p \in {"found", "absent"} :
              CallTo(c, p) /\ (p = "found") = (k.d \in lifeRef /\ lifeUp[k.d] # "none")
        BY <2>3 DEF Looks
      <3>2. /\ \A b \in LifeCaller : b # c => lifeCall'[b] = lifeCall[b]
            /\ lifeCall'[c].pc = p /\ lifeCall'[c].op = k.op
            /\ lifeCall'[c].d = k.d /\ lifeCall'[c].was = k.was
        BY <1>0, <3>1, CallToFields DEF LifeCallPc
      <3>3. k.pc = "marked" /\ UNCHANGED <<lifeUp, lifeStatus, lifeRef>>
        BY <2>3 DEF Looks
      <3>5. CallIsUp(lifeCall[c])'
        BY <2>1, <3>1, <3>2, <3>3 DEF CallIsUp
      <3> QED
        BY <1>c, <2>0, <2>1, <3>2, <3>3, <3>5 DEF Stopping, Shown
    <2>4. CASE Effect(c)
      <3>1. PICK p \in {"acted", "done"} : CallTo(c, p) /\ (p = "acted" => k.op \in {"start", "delete"})
        BY <2>4 DEF Effect
      <3>2. /\ \A b \in LifeCaller : b # c => lifeCall'[b] = lifeCall[b]
            /\ lifeCall'[c].pc = p /\ lifeCall'[c].op = k.op /\ lifeCall'[c].d = k.d
        BY <1>0, <3>1, CallToFields DEF LifeCallPc
      <3>3. /\ \A d \in LifeDeployment \ {k.d} : lifeUp'[d] = lifeUp[d]
            /\ lifeRef \subseteq lifeRef' /\ UNCHANGED lifeStatus
            /\ k.op \in {"start", "restart"} => lifeUp'[k.d] = "up"
            /\ k.op = "stop" /\ k.pc = "found" => lifeUp'[k.d] = "down"
            /\ k.op = "start" /\ k.pc = "absent" => k.d \in lifeRef'
            /\ k.pc \in {"found", "absent"}
        BY <1>0, <2>2, <2>4 DEF Effect
      <3>4. k.op \in {"stop", "pause", "restart"} => k.pc = "found"
        BY <2>1, <3>3 DEF CallIsUp, LifeCallAt
      <3>5. CallIsUp(lifeCall[c])'
        BY <2>1, <3>1, <3>2, <3>3, <3>4 DEF CallIsUp
      <3>6. k.d \in Shown => k.op \in {"stop", "pause"}
        BY <2>1, <3>3 DEF Shown, LifeCallAt, MarkOf, Says, LifeCallType, LifeOp
      <3>7. ASSUME \A d \in Shown : d \in lifeRef /\ (lifeUp[d] = "up" \/ (Stopping(k) /\ k.d = d)), NEW d \in Shown'
            PROVE  d \in lifeRef' /\ (lifeUp'[d] = "up" \/ (Stopping(lifeCall'[c]) /\ lifeCall'[c].d = d))
        <4>1. d \in Shown /\ d \in LifeDeployment /\ d \in lifeRef' /\ lifeUp[d] = "up"
          BY <3>3, <3>7 DEF Shown, Stopping
        <4>2. CASE d = k.d
          BY <3>1, <3>2, <3>6, <4>1, <4>2 DEF Stopping
        <4>3. CASE d # k.d
          BY <3>3, <4>1, <4>3
        <4> QED
          BY <4>2, <4>3
      <3> QED
        BY <1>c, <2>0, <2>1, <3>2, <3>5, <3>7
    <2>5. CASE Verified(c)
      <3>1. k.pc = "acted" /\ CallTo(c, "done") /\ UNCHANGED <<lifeStatus, lifeRef, lifeUp>>
        BY <2>5 DEF Verified
      <3>2. /\ \A b \in LifeCaller : b # c => lifeCall'[b] = lifeCall[b]
            /\ lifeCall'[c].pc = "done" /\ lifeCall'[c].op = k.op
            /\ lifeCall'[c].d = k.d /\ lifeCall'[c].was = k.was
        BY <1>0, <3>1, CallToFields DEF LifeCallPc
      <3>3. CallIsUp(lifeCall[c])'
        BY <2>1, <3>1, <3>2 DEF CallIsUp
      <3> QED
        BY <1>c, <2>0, <2>1, <3>1, <3>2, <3>3 DEF Stopping, Shown
    <2>6. CASE Missing(c)
      <3>1. /\ \A b \in LifeCaller : b # c => lifeCall'[b] = lifeCall[b]
            /\ lifeCall'[c].pc = "idle"
        BY <1>0, <2>6, AnswerFields DEF Missing
      <3>2. Shown' \subseteq Shown \ {k.d} /\ lifeRef' = lifeRef \ {k.d} /\ UNCHANGED lifeUp
        BY <1>0, <2>2, <2>6 DEF Missing, Writes, Shown
      <3> QED
        BY <1>c, <2>0, <2>1, <3>1, <3>2 DEF CallIsUp, Stopping
    <2>7. CASE Turned(c)
      <3>1. /\ \A b \in LifeCaller : b # c => lifeCall'[b] = lifeCall[b]
            /\ lifeCall'[c].pc = "idle" /\ UNCHANGED <<lifeStatus, lifeRef, lifeUp>>
        BY <1>0, <2>7, AnswerFields DEF Turned
      <3>2. ~Stopping(k)
        BY <2>0 DEF Stopping, RemotePc
      <3> QED
        BY <1>c, <2>0, <2>1, <3>1, <3>2 DEF CallIsUp, Shown
    <2> QED
      BY <1>0, <1>12, <1>s, <2>1, <2>3, <2>4, <2>5, <2>6, <2>7, SteadyOutcome
  <1>13. ASSUME NEW c \in LifeCaller, LifeWrite(c) PROVE Goal'
    <2> DEFINE k == lifeCall[c]
    <2>1. k.pc = "done" /\ k \in LifeCallType /\ CallIsUp(k) /\ UNCHANGED <<lifeUp, lifeRun>>
      BY <1>0, <1>13 DEF LifeWrite
    <2>2. Exists(k.d) /\ k.d \in LifeDeployment
      BY <1>0, <2>1 DEF CallOwns, LifeCallAt, MarkOf, Exists, LifeCallType
    <2>3. /\ \A b \in LifeCaller : b # c => lifeCall'[b] = lifeCall[b]
          /\ lifeCall'[c].pc = "idle"
      BY <1>0, <1>13, AnswerFields DEF LifeWrite
    <2>4. CASE k.op \in {"start", "restart"}
      <3>1. Shown' \subseteq Shown \cup {k.d} /\ UNCHANGED lifeRef
        BY <1>0, <1>13, <2>2, <2>4 DEF LifeWrite, Writes, Shown
      <3> QED
        BY <1>c, <2>1, <2>3, <2>4, <3>1 DEF Awake, CallIsUp, Stopping
    <2>5. CASE k.op \in {"stop", "pause", "delete"}
      <3>1. Shown' \subseteq Shown \ {k.d} /\ lifeRef \ {k.d} \subseteq lifeRef'
        BY <1>0, <1>13, <2>2, <2>5 DEF LifeWrite, Writes, Shown
      <3> QED
        BY <1>c, <2>1, <2>3, <3>1 DEF Awake, CallIsUp, Stopping
    <2> QED
      BY <2>1, <2>4, <2>5 DEF LifeCallType, LifeOp
  <1>14. ASSUME NEW c \in LifeCaller, NEW op \in LifeOp, NEW d \in LifeDeployment, LifeRequest(c, op, d) PROVE Goal'
    <2>1. NoCalls /\ UNCHANGED <<lifeStatus, lifeRef, lifeUp, lifeRun>> /\ lifeRun.pc = "idle"
      BY <1>0, <1>14, <1>o DEF LifeRequest, Alone
    <2>2. /\ lifeCall'[c] = [pc |-> "begun", op |-> op, d |-> d, was |-> lifeStatus[d]]
          /\ \A b \in LifeCaller : b # c => lifeCall'[b] = lifeCall[b]
      BY <1>0, <1>14 DEF LifeRequest
    <2>3. \A e \in Shown : e \in lifeRef /\ lifeUp[e] = "up"
      BY <1>0, <2>1 DEF ShownIsUp, NoCalls, Stopping
    <2>4. ShownIsUp' /\ RunIsUp'
      BY <2>1, <2>3 DEF ShownIsUp, Shown, RunIsUp
    <2>5. CallIsUp(lifeCall[c])'
      BY <2>1, <2>2, <2>3 DEF CallIsUp, Shown, Says
    <2> QED
      BY <2>1, <2>2, <2>4, <2>5 DEF Goal, CallIsUp, NoCalls
  <1>15. CASE UNCHANGED lifeVars
    BY <1>0, <1>15 DEF lifeVars, Goal, ShownIsUp, Shown, Stopping, RunIsUp, CallIsUp
  <1> QED
    BY <1>1, <1>2, <1>3, <1>4, <1>5, <1>6, <1>7, <1>8, <1>9, <1>10, <1>11, <1>12, <1>13, <1>14, <1>15 DEF LifeNext, LifeRemote

------------------------------------------------------------------------------
(* The deployment with the traffic says STOPPED only if its container is down. *)

Starting(k) == k.pc \in {"acted", "done"} /\ k.op = "start"

ActiveIsDown ==
  /\ lifeRun.pc \notin {"rolling", "rolled"}
  /\ lifeActive # NoDeployment /\ lifeStatus[lifeActive] = "STOPPED"
  => \/ lifeUp[lifeActive] = "down"
     \/ \E c \in LifeCaller : Starting(lifeCall[c]) /\ lifeCall[c].d = lifeActive

CallIsDown(k) ==
  k.pc \in {"begun", "marked", "found", "absent"} /\ k.was = "STOPPED" /\ k.d = lifeActive => lifeUp[k.d] = "down"

DownInv == Steady => ActiveIsDown /\ \A c \in LifeCaller : CallIsDown(lifeCall[c])

(* Nothing has traffic at first .. *)
LEMMA DownInit == LifeInit => DownInv
  BY DEF LifeInit, DownInv, ActiveIsDown, CallIsDown

(* .. and a step stops the one with the traffic, or leaves it. *)
LEMMA DownStep == LifeTyped /\ LifeSoloInv /\ UpInv /\ DownInv /\ [LifeNext]_lifeVars => DownInv'
  <1> SUFFICES ASSUME LifeTyped, LifeSoloInv, UpInv, DownInv, [LifeNext]_lifeVars PROVE DownInv'
    OBVIOUS
  <1> DEFINE Goal == ActiveIsDown /\ \A c \in LifeCaller : CallIsDown(lifeCall[c])
  <1>f. UNCHANGED lifeFaults
    BY LifeFaultsStay
  <1>s. SUFFICES ASSUME Steady PROVE Goal'
    BY <1>f DEF DownInv, Steady
  <1>0. /\ OneAtATime /\ RunAt /\ \A c \in LifeCaller : LifeCallAt(lifeCall[c])
        /\ \A c \in LifeCaller : CallIsUp(lifeCall[c])
        /\ ActiveIsDown /\ \A c \in LifeCaller : CallIsDown(lifeCall[c])
        /\ LifeTypeOK /\ RunOwns /\ CallOwns /\ Alone
        /\ lifeActive \in LifeDeployment \cup {NoDeployment}
        /\ lifeStatus \in [LifeDeployment -> LifeStatus]
        /\ lifeUp \in [LifeDeployment -> {"none", "up", "paused", "down"}]
        /\ lifeRun \in [pc : LifePc, d : LifeDeployment \cup {NoDeployment}]
        /\ lifeCall \in [LifeCaller -> LifeCallType]
    BY <1>s DEF LifeSoloInv, UpInv, DownInv, Steady, Alone, LifeTyped, LifeTypeOK, LifePc, LifeCallType, LifeCallPc
  <1> HIDE DEF Goal
  <1> DEFINE Down == lifeActive # NoDeployment /\ lifeStatus[lifeActive] = "STOPPED" => lifeUp[lifeActive] = "down"
  (* Steps of a run, which no request meets. *)
  <1>n. ASSUME UNCHANGED lifeCall, lifeRun.pc # "idle" \/ NoCalls,
               lifeRun'.pc \in {"rolling", "rolled"} \/ (lifeRun.pc \notin {"rolling", "rolled"} /\ (Down => Down'))
                 \/ lifeStatus'[lifeActive'] # "STOPPED"
        PROVE  Goal'
    <2>1. NoCalls
      BY <1>0, <1>n DEF OneAtATime
    <2>2. lifeRun.pc \notin {"rolling", "rolled"} => Down
      BY <1>0, <2>1 DEF ActiveIsDown, Starting, NoCalls
    <2> QED
      BY <1>n, <2>1, <2>2 DEF Goal, ActiveIsDown, CallIsDown, NoCalls
  <1>g. \A p \in LifePc : LifeRunGoes(p) => lifeRun'.pc = p /\ lifeRun'.d = lifeRun.d
    BY <1>0 DEF LifeRunGoes, LifePc
  <1>1. CASE LifeStarts
    <2>1. lifeStatus[lifeRun.d] = "BUILDING" /\ lifeRun.d \in LifeDeployment
      BY <1>0, <1>1 DEF LifeStarts, RunAt, RunOwns
    <2> QED
      BY <1>0, <1>1, <1>n, <2>1 DEF LifeStarts
  <1>2. CASE LifeFails
    <2>1. lifeRun.d \in LifeDeployment /\ Exists(lifeRun.d)
      BY <1>0, <1>2 DEF LifeFails, RunAt, RunOwns, Exists
    <2> QED
      BY <1>0, <1>2, <1>n, <2>1 DEF LifeFails, Writes
  <1>3. CASE LifeActivates
    <2>1. lifeStatus'[lifeActive'] = "BUILDING"
      BY <1>0, <1>3 DEF LifeActivates, RunAt
    <2> QED
      BY <1>3, <1>n, <2>1 DEF LifeActivates
  <1>4. CASE LifeShows
    <2>1. lifeRun.d \in LifeDeployment /\ Exists(lifeRun.d) /\ lifeActive = lifeRun.d
      BY <1>0, <1>4 DEF LifeShows, RunOwns, RunAt, Exists
    <2>2. lifeStatus'[lifeActive'] = "RUNNING"
      BY <1>0, <1>4, <2>1 DEF LifeShows, Writes
    <2> QED
      BY <1>4, <1>n, <2>2 DEF LifeShows
  <1>5. CASE LifeSettles
    <2>1. lifeActive = lifeRun.d /\ lifeStatus[lifeRun.d] = "RUNNING"
      BY <1>0, <1>5 DEF LifeSettles, RunAt
    <2>2. lifeStatus'[lifeActive'] = "RUNNING"
      <3>1. CASE UNCHANGED lifeStatus
        BY <1>5, <2>1, <3>1 DEF LifeSettles
      <3>2. CASE \E e \in OthersRunning : lifeStatus' = [lifeStatus EXCEPT ![e] = "STOPPED"]
        BY <1>0, <1>5, <2>1, <3>2 DEF LifeSettles, OthersRunning
      <3> QED
        BY <1>5, <3>1, <3>2 DEF LifeSettles
    <2> QED
      BY <1>5, <1>n, <2>2 DEF LifeSettles
  <1>6. CASE LifeRollSettles
    <2>1. lifeRun'.pc = "rolled"
      BY <1>6, <1>g DEF LifeRollSettles, LifePc
    <2> QED
      BY <1>6, <1>n, <2>1 DEF LifeRollSettles
  <1>7. CASE LifeRollShows
    <2>1. lifeRun.d \in LifeDeployment /\ Exists(lifeRun.d) /\ lifeActive = lifeRun.d
      BY <1>0, <1>7 DEF LifeRollShows, RunOwns, RunAt
    <2>2. lifeStatus'[lifeActive'] = "ROLLED_BACK"
      BY <1>0, <1>7, <2>1 DEF LifeRollShows, Writes
    <2> QED
      BY <1>7, <1>n, <2>2 DEF LifeRollShows
  <1>8. ASSUME NEW d \in LifeDeployment, LifeDeploy(d) PROVE Goal'
    BY <1>0, <1>8, <1>n DEF LifeDeploy, Alone, NoRun
  <1>9. ASSUME NEW d \in LifeDeployment, LifeRoll(d) PROVE Goal'
    BY <1>0, <1>9, <1>n DEF LifeRoll, Alone
  <1>10. ASSUME NEW d \in LifeDeployment, LifeVanish(d) PROVE Goal'
    BY <1>10, <1>s DEF LifeVanish, Steady
  (* Steps of a request, the only one. *)
  <1>c. ASSUME NEW c \in LifeCaller, Awake(c), UNCHANGED lifeRun,
               \A b \in LifeCaller : b # c => lifeCall'[b] = lifeCall[b],
               CallIsDown(lifeCall[c])',
               Down \/ (Starting(lifeCall[c]) /\ lifeCall[c].d = lifeActive) =>
                 Down' \/ (Starting(lifeCall'[c]) /\ lifeCall'[c].d = lifeActive')
        PROVE  Goal'
    <2>1. lifeRun.pc = "idle" /\ \A b \in LifeCaller : b # c => lifeCall[b].pc = "idle"
      BY <1>0, <1>c DEF OneAtATime, NoCalls, Awake
    <2>2. Down \/ (Starting(lifeCall[c]) /\ lifeCall[c].d = lifeActive)
      BY <1>0, <2>1 DEF ActiveIsDown, Starting
    <2>3. ActiveIsDown'
      BY <1>c, <2>2 DEF ActiveIsDown, Starting
    <2> QED
      BY <1>c, <2>1, <2>3 DEF Goal, CallIsDown
  <1>11. ASSUME NEW c \in LifeCaller, LifeMark(c) PROVE Goal'
    <2> DEFINE k == lifeCall[c]
    <2>1. k.pc = "begun" /\ CallIsDown(k) /\ UNCHANGED <<lifeActive, lifeUp, lifeRun>>
      BY <1>0, <1>11 DEF LifeMark
    <2>2. Exists(k.d) /\ k.d \in LifeDeployment
      BY <1>0, <2>1 DEF CallOwns, LifeCallAt, MarkOf, Exists, LifeCallType
    <2>3. CallTo(c, "marked")
      BY <1>11, <2>2 DEF LifeMark
    <2>4. /\ \A b \in LifeCaller : b # c => lifeCall'[b] = lifeCall[b]
          /\ lifeCall'[c].pc = "marked" /\ lifeCall'[c].d = k.d /\ lifeCall'[c].was = k.was
      BY <1>0, <2>3, CallToFields DEF LifeCallPc
    <2>5. \A d \in LifeDeployment : lifeStatus'[d] = "STOPPED" => lifeStatus[d] = "STOPPED"
      <3>1. CASE k.op \in {"restart", "delete"}
        BY <1>0, <1>11, <2>2, <3>1 DEF LifeMark, Writes
      <3>2. CASE k.op \notin {"restart", "delete"}
        BY <1>11, <3>2 DEF LifeMark
      <3> QED
        BY <3>1, <3>2
    <2>6. CallIsDown(lifeCall[c])'
      BY <2>1, <2>4 DEF CallIsDown
    <2> QED
      BY <1>0, <1>c, <2>1, <2>4, <2>5, <2>6 DEF Awake, Starting
  <1>12. ASSUME NEW c \in LifeCaller, LifeRemote(c) PROVE Goal'
    <2> DEFINE k == lifeCall[c]
    <2>0. k.pc \in RemotePc /\ UNCHANGED <<lifeActive, lifeRun>>
      BY <1>0, <1>12, RemoteOutcome
    <2>1. Awake(c) /\ k \in LifeCallType /\ CallIsUp(k) /\ CallIsDown(k) /\ LifeCallAt(k)
      BY <1>0, <2>0 DEF RemotePc, Awake
    <2>2. Exists(k.d) /\ k.d \in LifeDeployment
      BY <1>0, <2>1 DEF CallOwns, LifeCallAt, MarkOf, Exists, LifeCallType, Awake
    <2>3. CASE Looks(c)
      <3>1. PICK p \in {"found", "absent"} : CallTo(c, p)
        BY <2>3 DEF Looks
      <3>2. /\ \A b \in LifeCaller : b # c => lifeCall'[b] = lifeCall[b]
            /\ lifeCall'[c].pc = p /\ lifeCall'[c].d = k.d /\ lifeCall'[c].was = k.was
        BY <1>0, <3>1, CallToFields DEF LifeCallPc
      <3>3. k.pc = "marked" /\ UNCHANGED <<lifeUp, lifeStatus>>
        BY <2>3 DEF Looks
      <3>4. CallIsDown(lifeCall[c])' /\ ~Starting(k)
        BY <2>0, <2>1, <3>2, <3>3 DEF CallIsDown, Starting
      <3> QED
        BY <1>c, <2>0, <2>1, <3>2, <3>3, <3>4
    <2>4. CASE Effect(c)
      <3>1. PICK p \in {"acted", "done"} : CallTo(c, p)
        BY <2>4 DEF Effect
      <3>2. /\ \A b \in LifeCaller : b # c => lifeCall'[b] = lifeCall[b]
            /\ lifeCall'[c].pc = p /\ lifeCall'[c].op = k.op /\ lifeCall'[c].d = k.d
        BY <1>0, <3>1, CallToFields DEF LifeCallPc
      <3>3. /\ \A d \in LifeDeployment \ {k.d} : lifeUp'[d] = lifeUp[d]
            /\ UNCHANGED lifeStatus /\ k.pc \in {"found", "absent"}
        BY <1>0, <2>2, <2>4 DEF Effect
      <3>4. lifeStatus[k.d] = "STOPPED" => k.op = "start"
        BY <2>1, <3>3 DEF LifeCallAt, MarkOf, Says, LifeCallType, LifeOp
      <3>5. CallIsDown(lifeCall[c])'
        BY <3>2 DEF CallIsDown
      <3>6. CASE k.d = lifeActive
        BY <1>c, <2>0, <2>1, <3>2, <3>3, <3>4, <3>5, <3>6 DEF Starting
      <3>7. CASE k.d # lifeActive
        BY <1>0, <1>c, <2>0, <2>1, <3>2, <3>3, <3>5, <3>7 DEF Starting
      <3> QED
        BY <3>6, <3>7
    <2>5. CASE Verified(c)
      <3>1. k.pc = "acted" /\ CallTo(c, "done") /\ UNCHANGED <<lifeStatus, lifeRef, lifeUp>>
        BY <2>5 DEF Verified
      <3>2. /\ \A b \in LifeCaller : b # c => lifeCall'[b] = lifeCall[b]
            /\ lifeCall'[c].pc = "done" /\ lifeCall'[c].op = k.op /\ lifeCall'[c].d = k.d
        BY <1>0, <3>1, CallToFields DEF LifeCallPc
      <3>3. CallIsDown(lifeCall[c])' /\ (Starting(k) => Starting(lifeCall'[c]))
        BY <3>1, <3>2 DEF CallIsDown, Starting
      <3> QED
        BY <1>c, <2>0, <2>1, <3>1, <3>2, <3>3
    <2>6. CASE Missing(c) /\ UNCHANGED lifeUp
      <3>1. /\ \A b \in LifeCaller : b # c => lifeCall'[b] = lifeCall[b]
            /\ lifeCall'[c].pc = "idle"
        BY <1>0, <2>6, AnswerFields DEF Missing
      <3>2. \A d \in LifeDeployment : lifeStatus'[d] = "STOPPED" => lifeStatus[d] = "STOPPED" /\ d # k.d
        BY <1>0, <2>2, <2>6 DEF Missing, Writes
      <3>3. CallIsDown(lifeCall[c])'
        BY <3>1 DEF CallIsDown
      <3> QED
        BY <1>0, <1>c, <2>0, <2>1, <2>6, <3>1, <3>2, <3>3 DEF Starting
    <2>7. CASE Turned(c)
      <3>1. /\ \A b \in LifeCaller : b # c => lifeCall'[b] = lifeCall[b]
            /\ lifeCall'[c].pc = "idle" /\ UNCHANGED <<lifeStatus, lifeUp>> /\ k.pc # "acted"
        BY <1>0, <2>7, AnswerFields DEF Turned
      <3>2. CallIsDown(lifeCall[c])' /\ ~Starting(k)
        BY <2>0, <3>1 DEF CallIsDown, Starting, RemotePc
      <3> QED
        BY <1>c, <2>0, <2>1, <3>1, <3>2
    <2> QED
      BY <1>0, <1>12, <1>s, <2>1, <2>3, <2>4, <2>5, <2>6, <2>7, SteadyOutcome
  <1>13. ASSUME NEW c \in LifeCaller, LifeWrite(c) PROVE Goal'
    <2> DEFINE k == lifeCall[c]
    <2>1. k.pc = "done" /\ k \in LifeCallType /\ CallIsUp(k) /\ UNCHANGED <<lifeUp, lifeRun>>
      BY <1>0, <1>13 DEF LifeWrite
    <2>2. Exists(k.d) /\ k.d \in LifeDeployment
      BY <1>0, <2>1 DEF CallOwns, LifeCallAt, MarkOf, Exists, LifeCallType
    <2>3. /\ \A b \in LifeCaller : b # c => lifeCall'[b] = lifeCall[b]
          /\ lifeCall'[c].pc = "idle"
      BY <1>0, <1>13, AnswerFields DEF LifeWrite
    <2>4. CallIsDown(lifeCall[c])'
      BY <2>3 DEF CallIsDown
    <2>5. /\ \A d \in LifeDeployment \ {k.d} : lifeStatus'[d] = lifeStatus[d]
          /\ lifeStatus'[k.d] = "STOPPED" => k.op = "stop"
          /\ lifeActive' \in {lifeActive, NoDeployment}
      BY <1>0, <1>13, <2>1, <2>2 DEF LifeWrite, Writes, LifeCallType, LifeOp
    <2>6. Down \/ (Starting(k) /\ k.d = lifeActive) => Down'
      BY <1>0, <2>1, <2>5 DEF Starting, CallIsUp
    <2> QED
      BY <1>c, <2>1, <2>3, <2>4, <2>6 DEF Awake
  <1>14. ASSUME NEW c \in LifeCaller, NEW op \in LifeOp, NEW d \in LifeDeployment, LifeRequest(c, op, d) PROVE Goal'
    <2>1. NoCalls /\ UNCHANGED <<lifeStatus, lifeActive, lifeUp, lifeRun>> /\ lifeRun.pc = "idle"
      BY <1>0, <1>14 DEF LifeRequest, Alone, NoRun
    <2>2. /\ lifeCall'[c] = [pc |-> "begun", op |-> op, d |-> d, was |-> lifeStatus[d]]
          /\ \A b \in LifeCaller : b # c => lifeCall'[b] = lifeCall[b]
      BY <1>0, <1>14 DEF LifeRequest
    <2>3. Down
      BY <1>0, <2>1 DEF ActiveIsDown, NoCalls, Starting
    <2>4. ActiveIsDown'
      BY <2>1, <2>3 DEF ActiveIsDown
    <2>5. CallIsDown(lifeCall[c])'
      BY <2>1, <2>2, <2>3 DEF CallIsDown, LifeDeployment, NoDeployment
    <2> QED
      BY <2>1, <2>2, <2>4, <2>5 DEF Goal, CallIsDown, NoCalls
  <1>15. CASE UNCHANGED lifeVars
    BY <1>0, <1>15 DEF lifeVars, Goal, ActiveIsDown, Starting, CallIsDown
  <1> QED
    BY <1>1, <1>2, <1>3, <1>4, <1>5, <1>6, <1>7, <1>8, <1>9, <1>10, <1>11, <1>12, <1>13, <1>14, <1>15 DEF LifeNext, LifeRemote

------------------------------------------------------------------------------
(* No more than one says that it runs.                                     *)

Plain == lifeFaults \cap {"overlap", "again", "rollback"} = {}

NoRollback ==
  /\ lifeRun.pc \notin {"rolling", "rolled"}
  /\ \A d \in LifeDeployment : lifeStatus[d] # "ROLLED_BACK"
  /\ \A c \in LifeCaller : lifeCall[c].was # "ROLLED_BACK"

(* It is the one with the traffic; while a run takes the traffic over, one more. *)
ShownIsActive ==
  IF lifeRun.pc \in {"activated", "shown"}
    THEN \A d, e \in Shown \ {lifeRun.d} : d = e
    ELSE Shown \subseteq {lifeActive}

CallIsActive(k) == k.pc # "idle" /\ (k.op = "start" \/ k.was = "RUNNING") => k.d = lifeActive

OneInv == Plain => NoRollback /\ ShownIsActive /\ \A c \in LifeCaller : CallIsActive(lifeCall[c])

(* Nothing is shown at first .. *)
LEMMA OneInit == LifeInit => OneInv
  BY DEF LifeInit, OneInv, NoRollback, ShownIsActive, Shown, CallIsActive

(* .. and a step shows only the one with the traffic. *)
LEMMA OneStep == LifeTyped /\ LifeSoloInv /\ OneInv /\ [LifeNext]_lifeVars => OneInv'
  <1> SUFFICES ASSUME LifeTyped, LifeSoloInv, OneInv, [LifeNext]_lifeVars PROVE OneInv'
    OBVIOUS
  <1> DEFINE Goal == NoRollback /\ ShownIsActive /\ \A c \in LifeCaller : CallIsActive(lifeCall[c])
  <1>f. UNCHANGED lifeFaults
    BY LifeFaultsStay
  <1>s. SUFFICES ASSUME Plain PROVE Goal'
    BY <1>f DEF OneInv, Plain
  <1>0. /\ OneAtATime /\ RunAt /\ \A c \in LifeCaller : LifeCallAt(lifeCall[c])
        /\ NoRollback /\ ShownIsActive /\ \A c \in LifeCaller : CallIsActive(lifeCall[c])
        /\ LifeTypeOK /\ RunOwns /\ CallOwns /\ Alone
        /\ lifeActive \in LifeDeployment \cup {NoDeployment}
        /\ lifeStatus \in [LifeDeployment -> LifeStatus]
        /\ lifeRun \in [pc : LifePc, d : LifeDeployment \cup {NoDeployment}]
        /\ lifeCall \in [LifeCaller -> LifeCallType]
    BY <1>s DEF LifeSoloInv, OneInv, Plain, Alone, LifeTyped, LifeTypeOK, LifePc, LifeCallType, LifeCallPc
  <1> HIDE DEF Goal
  (* Steps of a run, which no request meets. *)
  <1>n. ASSUME UNCHANGED lifeCall, lifeRun.pc # "idle" \/ NoCalls, ShownIsActive',
               lifeRun'.pc \notin {"rolling", "rolled"},
               \A d \in LifeDeployment : lifeStatus'[d] \in {"BUILDING", "RUNNING", "STOPPED", "FAILED", lifeStatus[d]}
        PROVE  Goal'
    <2>1. NoCalls
      BY <1>0, <1>n DEF OneAtATime
    <2>2. NoRollback'
      BY <1>0, <1>n DEF NoRollback
    <2> QED
      BY <1>n, <2>1, <2>2 DEF Goal, CallIsActive, NoCalls
  <1>g. \A p \in LifePc : LifeRunGoes(p) => lifeRun'.pc = p /\ lifeRun'.d = lifeRun.d
    BY <1>0 DEF LifeRunGoes, LifePc
  <1>o. NoRun.pc = "idle"
    BY DEF NoRun
  <1>1. CASE LifeStarts
    <2>1. lifeRun'.pc = "started"
      BY <1>1, <1>g DEF LifeStarts, LifePc
    <2> QED
      BY <1>0, <1>1, <1>n, <2>1 DEF LifeStarts, ShownIsActive, Shown
  <1>2. CASE LifeFails
    <2>1. Shown' \subseteq Shown
      BY <1>0, <1>2 DEF LifeFails, Writes, Shown
    <2>2. \A d \in LifeDeployment : lifeStatus'[d] \in {"FAILED", lifeStatus[d]}
      BY <1>0, <1>2 DEF LifeFails, Writes
    <2> QED
      BY <1>0, <1>2, <1>n, <1>o, <2>1, <2>2 DEF LifeFails, ShownIsActive
  <1>3. CASE LifeActivates
    <2>1. lifeRun'.pc = "activated" /\ lifeRun'.d = lifeRun.d /\ Shown' = Shown
      BY <1>3, <1>g DEF LifeActivates, LifePc, Shown
    <2> QED
      BY <1>0, <1>3, <1>n, <2>1 DEF LifeActivates, ShownIsActive
  <1>4. CASE LifeShows
    <2>1. lifeRun.d \in LifeDeployment /\ Exists(lifeRun.d)
      BY <1>0, <1>4 DEF LifeShows, RunOwns, RunAt, Exists
    <2>2. lifeRun'.pc = "shown" /\ lifeRun'.d = lifeRun.d
      BY <1>4, <1>g, <2>1 DEF LifeShows, LifePc
    <2>3. Shown' \subseteq Shown \cup {lifeRun.d}
      BY <1>0, <1>4, <2>1 DEF LifeShows, Writes, Shown
    <2>4. \A d \in LifeDeployment : lifeStatus'[d] \in {"RUNNING", lifeStatus[d]}
      BY <1>0, <1>4 DEF LifeShows, Writes
    <2>5. ShownIsActive'
      BY <1>0, <1>4, <2>2, <2>3 DEF ShownIsActive
    <2> QED
      BY <1>0, <1>4, <1>n, <2>2, <2>4, <2>5 DEF LifeShows
  <1>5. CASE LifeSettles
    <2>1. lifeActive = lifeRun.d /\ lifeRun.d \in LifeDeployment
      BY <1>0, <1>5 DEF LifeSettles, RunAt, RunOwns
    <2>2. \A d \in Shown : lifeStatus[d] = "RUNNING"
      BY <1>0 DEF NoRollback, Shown
    <2>3. \A d, e \in Shown \ {lifeRun.d} : d = e
      BY <1>0, <1>5 DEF LifeSettles, ShownIsActive
    <2>4. Shown' \subseteq {lifeRun.d}
      <3>1. CASE OthersRunning = {} /\ UNCHANGED lifeStatus
        BY <2>2, <3>1 DEF OthersRunning, Shown
      <3>2. CASE \E e \in OthersRunning : lifeStatus' = [lifeStatus EXCEPT ![e] = "STOPPED"]
        <4>1. PICK e \in OthersRunning : lifeStatus' = [lifeStatus EXCEPT ![e] = "STOPPED"]
          BY <3>2
        <4>2. e \in Shown \ {lifeRun.d} /\ e \in LifeDeployment
          BY <4>1 DEF OthersRunning, Shown
        <4>3. Shown' \subseteq Shown \ {e}
          BY <1>0, <4>1, <4>2 DEF Shown
        <4> QED
          BY <2>3, <4>2, <4>3
      <3> QED
        BY <1>5, <3>1, <3>2 DEF LifeSettles
    <2>5. \A d \in LifeDeployment : lifeStatus'[d] \in {"STOPPED", lifeStatus[d]}
      BY <1>0, <1>5 DEF LifeSettles, OthersRunning
    <2>6. ShownIsActive'
      BY <1>5, <1>o, <2>1, <2>4 DEF LifeSettles, ShownIsActive
    <2> QED
      BY <1>0, <1>5, <1>n, <1>o, <2>5, <2>6 DEF LifeSettles
  <1>6. CASE LifeRollSettles
    BY <1>0, <1>6 DEF LifeRollSettles, NoRollback
  <1>7. CASE LifeRollShows
    BY <1>0, <1>7 DEF LifeRollShows, NoRollback
  <1>8. ASSUME NEW d \in LifeDeployment, LifeDeploy(d) PROVE Goal'
    <2>1. Shown' \subseteq Shown /\ lifeRun.pc = "idle"
      BY <1>0, <1>8, <1>o DEF LifeDeploy, Shown
    <2>2. \A e \in LifeDeployment : lifeStatus'[e] \in {"BUILDING", lifeStatus[e]}
      BY <1>0, <1>8 DEF LifeDeploy
    <2>3. ShownIsActive'
      BY <1>0, <1>8, <2>1 DEF LifeDeploy, ShownIsActive
    <2> QED
      BY <1>0, <1>8, <1>n, <2>2, <2>3 DEF LifeDeploy, Alone
  <1>9. ASSUME NEW d \in LifeDeployment, LifeRoll(d) PROVE Goal'
    BY <1>9, <1>s DEF LifeRoll, Plain
  <1>10. ASSUME NEW d \in LifeDeployment, LifeVanish(d) PROVE Goal'
    BY <1>0, <1>10 DEF LifeVanish, Goal, NoRollback, ShownIsActive, Shown, CallIsActive
  (* Steps of a request, the only one. *)
  <1>c. ASSUME NEW c \in LifeCaller, Awake(c), UNCHANGED lifeRun,
               \A b \in LifeCaller : b # c => lifeCall'[b] = lifeCall[b],
               lifeCall'[c].was \in {"NONE", lifeCall[c].was}, CallIsActive(lifeCall[c])',
               \A d \in LifeDeployment : lifeStatus'[d] # "ROLLED_BACK",
               Shown \subseteq {lifeActive} => Shown' \subseteq {lifeActive'}
        PROVE  Goal'
    <2>1. lifeRun.pc = "idle" /\ \A b \in LifeCaller : b # c => lifeCall[b].pc = "idle"
      BY <1>0, <1>c DEF OneAtATime, NoCalls, Awake
    <2>2. NoRollback' /\ ShownIsActive'
      BY <1>0, <1>c, <2>1 DEF NoRollback, ShownIsActive
    <2> QED
      BY <1>c, <2>1, <2>2 DEF Goal, CallIsActive
  <1>11. ASSUME NEW c \in LifeCaller, LifeMark(c) PROVE Goal'
    <2> DEFINE k == lifeCall[c]
    <2>1. k.pc = "begun" /\ CallIsActive(k) /\ UNCHANGED <<lifeActive, lifeRun>>
      BY <1>0, <1>11 DEF LifeMark
    <2>2. Exists(k.d) /\ k.d \in LifeDeployment
      BY <1>0, <2>1 DEF CallOwns, LifeCallAt, MarkOf, Exists, LifeCallType
    <2>3. CallTo(c, "marked")
      BY <1>11, <2>2 DEF LifeMark
    <2>4. /\ \A b \in LifeCaller : b # c => lifeCall'[b] = lifeCall[b]
          /\ lifeCall'[c].pc = "marked" /\ lifeCall'[c].d = k.d /\ lifeCall'[c].was = k.was
          /\ lifeCall'[c].op = k.op
      BY <1>0, <2>3, CallToFields DEF LifeCallPc
    <2>5. \A d \in LifeDeployment : lifeStatus'[d] \in {"DEPLOYING", "DELETING", lifeStatus[d]}
      <3>1. CASE k.op \in {"restart", "delete"}
        BY <1>0, <1>11, <2>2, <3>1 DEF LifeMark, Writes
      <3>2. CASE k.op \notin {"restart", "delete"}
        BY <1>11, <3>2 DEF LifeMark
      <3> QED
        BY <3>1, <3>2
    <2>6. CallIsActive(lifeCall[c])' /\ Shown' \subseteq Shown
      BY <2>1, <2>4, <2>5 DEF CallIsActive, Shown
    <2> QED
      BY <1>0, <1>c, <2>1, <2>4, <2>5, <2>6 DEF Awake, NoRollback
  <1>12. ASSUME NEW c \in LifeCaller, LifeRemote(c) PROVE Goal'
    <2> DEFINE k == lifeCall[c]
    <2>0. k.pc \in RemotePc /\ UNCHANGED <<lifeActive, lifeRun>> /\ (GoesOn(c) \/ Missing(c) \/ CommandFails(c))
      BY <1>0, <1>12, RemoteOutcome
    <2>1. Awake(c) /\ k \in LifeCallType /\ CallIsActive(k)
      BY <1>0, <2>0 DEF RemotePc, Awake
    <2>2. k.d \in LifeDeployment /\ k.was # "ROLLED_BACK"
      BY <1>0, <2>1 DEF LifeCallType, NoRollback
    <2>3. CASE GoesOn(c)
      <3>1. PICK p \in {"found", "absent", "acted", "done"} : CallTo(c, p)
        BY <2>3 DEF GoesOn
      <3>2. /\ \A b \in LifeCaller : b # c => lifeCall'[b] = lifeCall[b]
            /\ lifeCall'[c].pc = p /\ lifeCall'[c].op = lifeCall[c].op
            /\ lifeCall'[c].d = lifeCall[c].d /\ lifeCall'[c].was = k.was
        BY <1>0, <3>1, CallToFields DEF LifeCallPc
      <3>3. CallIsActive(lifeCall[c])' /\ Shown' = Shown
        BY <2>0, <2>1, <2>3, <3>2 DEF CallIsActive, Shown, GoesOn, Awake
      <3> QED
        BY <1>0, <1>c, <2>0, <2>1, <2>3, <3>2, <3>3 DEF GoesOn, NoRollback
    <2>4. CASE Missing(c) \/ CommandFails(c)
      <3>1. /\ \A b \in LifeCaller : b # c => lifeCall'[b] = lifeCall[b]
            /\ lifeCall'[c].pc = "idle" /\ lifeCall'[c].was = "NONE"
        BY <1>0, <2>4, AnswerFields DEF Missing, CommandFails
      <3>2. \A d \in LifeDeployment : lifeStatus'[d] \in {"FAILED", lifeStatus[d]} \/ (d = k.d /\ lifeStatus'[d] = k.was)
        <4>1. CASE Missing(c) \/ (CommandFails(c) /\ k.op = "restart")
          BY <1>0, <2>2, <4>1 DEF Missing, CommandFails, Writes
        <4>2. CASE CommandFails(c) /\ k.op = "delete"
          BY <1>0, <2>2, <4>2 DEF CommandFails, Writes
        <4>3. CASE CommandFails(c) /\ k.op \notin {"restart", "delete"}
          BY <4>3 DEF CommandFails
        <4> QED
          BY <2>4, <4>1, <4>2, <4>3
      <3>3. Shown \subseteq {lifeActive} => Shown' \subseteq {lifeActive}
        BY <2>1, <2>2, <3>2 DEF Shown, CallIsActive, Awake
      <3>4. CallIsActive(lifeCall[c])'
        BY <3>1 DEF CallIsActive
      <3> QED
        BY <1>0, <1>c, <2>0, <2>1, <2>2, <3>1, <3>2, <3>3, <3>4 DEF NoRollback
    <2> QED
      BY <2>0, <2>3, <2>4
  <1>13. ASSUME NEW c \in LifeCaller, LifeWrite(c) PROVE Goal'
    <2> DEFINE k == lifeCall[c]
    <2>1. k.pc = "done" /\ k \in LifeCallType /\ CallIsActive(k) /\ LifeCallAt(k) /\ UNCHANGED lifeRun
      BY <1>0, <1>13 DEF LifeWrite
    <2>2. Exists(k.d) /\ k.d \in LifeDeployment
      BY <1>0, <2>1 DEF CallOwns, LifeCallAt, MarkOf, Exists, LifeCallType
    <2>3. /\ \A b \in LifeCaller : b # c => lifeCall'[b] = lifeCall[b]
          /\ lifeCall'[c].pc = "idle" /\ lifeCall'[c].was = "NONE"
      BY <1>0, <1>13, AnswerFields DEF LifeWrite
    <2>4. CallIsActive(lifeCall[c])'
      BY <2>3 DEF CallIsActive
    <2>5. CASE k.op \in {"start", "restart"}
      <3>1. k.d = lifeActive
        BY <1>0, <2>1, <2>5 DEF CallIsActive, LifeCallAt, Says, NoRollback
      <3>2. Shown' \subseteq Shown \cup {k.d} /\ UNCHANGED lifeActive
        BY <1>0, <1>13, <2>2, <2>5 DEF LifeWrite, Writes, Shown
      <3>3. \A d \in LifeDeployment : lifeStatus'[d] \in {"RUNNING", lifeStatus[d]}
        BY <1>0, <1>13, <2>2, <2>5 DEF LifeWrite, Writes
      <3> QED
        BY <1>0, <1>c, <2>1, <2>3, <2>4, <3>1, <3>2, <3>3 DEF Awake, NoRollback
    <2>6. CASE k.op \in {"stop", "pause", "delete"}
      <3>1. Shown' \subseteq Shown \ {k.d} /\ (lifeActive' = lifeActive \/ lifeActive = k.d)
        BY <1>0, <1>13, <2>2, <2>6 DEF LifeWrite, Writes, Shown
      <3>2. \A d \in LifeDeployment : lifeStatus'[d] \in {"STOPPED", "PAUSED", "GONE", lifeStatus[d]}
        BY <1>0, <1>13, <2>2, <2>6 DEF LifeWrite, Writes
      <3> QED
        BY <1>0, <1>c, <2>1, <2>3, <2>4, <3>1, <3>2 DEF Awake, NoRollback
    <2> QED
      BY <2>1, <2>5, <2>6 DEF LifeCallType, LifeOp
  <1>14. ASSUME NEW c \in LifeCaller, NEW op \in LifeOp, NEW d \in LifeDeployment, LifeRequest(c, op, d) PROVE Goal'
    <2>1. NoCalls /\ UNCHANGED <<lifeStatus, lifeActive, lifeRun>> /\ lifeRun.pc = "idle"
      BY <1>0, <1>14, <1>o DEF LifeRequest, Alone
    <2>2. /\ lifeCall'[c] = [pc |-> "begun", op |-> op, d |-> d, was |-> lifeStatus[d]]
          /\ \A b \in LifeCaller : b # c => lifeCall'[b] = lifeCall[b]
      BY <1>0, <1>14 DEF LifeRequest
    <2>3. op = "start" => d = lifeActive
      BY <1>14, <1>s DEF LifeRequest, Plain
    <2>4. Shown \subseteq {lifeActive}
      BY <1>0, <2>1 DEF ShownIsActive
    <2>5. NoRollback' /\ ShownIsActive'
      BY <1>0, <2>1, <2>2, <2>4 DEF NoRollback, ShownIsActive, Shown
    <2>6. CallIsActive(lifeCall[c])'
      BY <2>1, <2>2, <2>3, <2>4 DEF CallIsActive, Shown
    <2> QED
      BY <2>1, <2>2, <2>5, <2>6 DEF Goal, CallIsActive, NoCalls
  <1>15. CASE UNCHANGED lifeVars
    BY <1>0, <1>15 DEF lifeVars, Goal, NoRollback, ShownIsActive, Shown, CallIsActive
  <1> QED
    BY <1>1, <1>2, <1>3, <1>4, <1>5, <1>6, <1>7, <1>8, <1>9, <1>10, <1>11, <1>12, <1>13, <1>14, <1>15 DEF LifeNext, LifeRemote

------------------------------------------------------------------------------
(* The theorems.                                                           *)

LifeInv == LifeTyped /\ LifeSoloInv /\ UpInv /\ DownInv /\ OneInv

(* In the initial state there is no deployment. *)
LEMMA LifecycleInit == LifeInit => LifeInv
  BY LifeTypeInit, SoloInit, UpInit, DownInit, OneInit DEF LifeInv

(* Every step keeps all parts. *)
LEMMA LifecycleStep == LifeInv /\ [LifeNext]_lifeVars => LifeInv'
  BY LifeTypeStep, SoloStep, UpStep, DownStep, OneStep DEF LifeInv

(* The invariant of every behaviour of Lifecycle: what runs and requests know of the
   rows and the containers while they are alone.                           *)
THEOREM LifecycleInvariant == LifeSpec => []LifeInv
  BY LifecycleInit, LifecycleStep, PTL DEF LifeSpec

(* Types, and that a deleted row keeps neither a container nor a history. *)
THEOREM LifecycleTypes == LifeSpec => []LifeTypeOK
  <1>1. LifeInv => LifeTypeOK
    BY DEF LifeInv, LifeTyped
  <1> QED
    BY <1>1, LifecycleInvariant, PTL

(* With nothing under way, the parts are what the statuses say. *)
LEMMA StatusMeans == LifeInv => StatusIsTrue
  <1> SUFFICES ASSUME LifeInv PROVE StatusIsTrue
    OBVIOUS
  <1>1. ASSUME Quiet, Steady
        PROVE  /\ \A d \in Shown : lifeUp[d] = "up"
               /\ lifeActive # NoDeployment =>
                    (lifeStatus[lifeActive] = "STOPPED" => lifeUp[lifeActive] = "down")
    BY <1>1 DEF LifeInv, UpInv, DownInv, ShownIsUp, ActiveIsDown, Stopping, Starting, Quiet, NoCalls, NoRun
  <1>2. ASSUME Quiet, Plain PROVE Cardinality(Shown) <= 1
    <2>1. Shown \subseteq {lifeActive}
      BY <1>2 DEF LifeInv, OneInv, ShownIsActive, Quiet, NoRun
    <2>2. IsFiniteSet({lifeActive}) /\ Cardinality({lifeActive}) = 1
      BY FS_Singleton
    <2>3. IsFiniteSet(Shown) /\ Cardinality(Shown) <= Cardinality({lifeActive})
      BY <2>1, <2>2, FS_Subset
    <2> QED
      BY <2>2, <2>3, FS_CardinalityType
  <1> QED
    BY <1>1, <1>2 DEF StatusIsTrue, Steady, Plain

(* Between requests that did not overlap, as long as no command fails and no container
   stops by itself, a deployment that says it runs has a container that runs, and the
   one with the traffic says STOPPED only if its container is down; and whatever fails,
   as long as none without traffic is started again, nothing is rolled back and nothing
   overlaps, no more than one says that it runs (stop, pause, start, restart and delete
   of deployment.service.ts, next to the runs and rollbacks).              *)
THEOREM StatusTellsTheTruth == LifeSpec => []StatusIsTrue
  BY StatusMeans, LifecycleInvariant, PTL

------------------------------------------------------------------------------
(* LivePage.                                                               *)

SockType ==
  [pc : Connected \cup {"closed", "gaveUp", "left"}, tries : 0..PgAttempts,
   read : 0..MaxChanges, last : 0..MaxChanges]

Listeners == {p \in PgPage : pgSock[p].pc \in Listening}

(* The listener hears of every change, one after the other. *)
Heard == pgFaults \cap {"unheard", "race"} = {}

(* What a connection knows: what was sent last is what the page shows, and what was read
   for it is still the row.                                                *)
SockAt(p) ==
  /\ pgSock[p].pc \in Connected => pgSock[p].last \in {Nothing, pgLive[p]}
  /\ pgSock[p].pc = "read" => pgSock[p].read = pgRow
  /\ pgSock[p].pc = "open" /\ pgEvents = {} => pgLive[p] = pgRow

PageInv ==
  /\ PgTypeOK /\ pgLeaked \in Nat
  /\ Heard => pgEvents \subseteq {pgRow} /\ \A p \in PgPage : SockAt(p)

(* A page that is connected shows the row as soon as its last event has been handled. *)
OpenIsCurrent ==
  Heard /\ pgEvents = {} => \A p \in PgPage : pgSock[p].pc = "open" => ShownOn(p) = pgRow

(* In the initial state no page is open. *)
LEMMA PageInit == PgInit => PageInv
  <1> SUFFICES ASSUME PgInit PROVE PageInv
    OBVIOUS
  <1>1. \A p \in PgPage : pgSock[p] = [pc |-> "left", tries |-> 0, read |-> 0, last |-> 0]
    BY DEF PgInit, NoSock, Nothing
  <1>2. {p \in PgPage : pgSock[p].pc \in Listening} = {}
    BY <1>1 DEF Listening, SettingUp
  <1>3. Cardinality({p \in PgPage : pgSock[p].pc \in Listening}) = 0
    BY <1>2, FS_EmptySet
  <1>4. pgSock \in [PgPage -> SockType]
    BY PgBounds DEF PgInit, SockType, NoSock, Nothing
  <1>5. pgSlots = pgLeaked + Cardinality({p \in PgPage : pgSock[p].pc \in Listening})
    BY <1>3 DEF PgInit
  <1>6. PgTypeOK
    BY <1>4, <1>5, PgBounds, PgFaultAssumption DEF PgInit, PgTypeOK, SockType, Nothing
  <1>7. \A p \in PgPage : SockAt(p)
    BY <1>1 DEF SockAt, Connected, Listening, SettingUp
  <1> QED
    BY <1>6, <1>7 DEF PageInv, PgInit

(* A connection that is not set up keeps nothing of the row. *)
LEMMA SocksHaveTheirType ==
  /\ \A pc \in Connected \cup {"closed", "gaveUp", "left"} : NoSock(pc) \in SockType
  /\ \A p \in PgPage, n \in 0..PgAttempts :
       AfterClose(p, n) \in SockType /\ AfterClose(p, n).pc \in {"closed", "gaveUp"}
  <1>1. \A pc \in Connected \cup {"closed", "gaveUp", "left"} : NoSock(pc) \in SockType
    BY PgBounds DEF NoSock, SockType, Nothing
  <1>2. ASSUME NEW p \in PgPage, NEW n \in 0..PgAttempts
        PROVE  AfterClose(p, n) \in SockType /\ AfterClose(p, n).pc \in {"closed", "gaveUp"}
    <2>1. CASE n < PgAttempts
      <3>1. AfterClose(p, n) = [pc |-> "closed", tries |-> n + 1, read |-> 0, last |-> 0]
        BY <2>1 DEF AfterClose, NoSock, Nothing
      <3> QED
        BY <2>1, <3>1, PgBounds DEF SockType
    <2>2. CASE ~(n < PgAttempts)
      BY <1>1, <2>2 DEF AfterClose, NoSock
    <2> QED
      BY <2>1, <2>2
  <1> QED
    BY <1>1, <1>2

(* Every step keeps the count of the slots and what the connections know. *)
LEMMA PageStep == PageInv /\ [PgNext]_pgVars => PageInv'
  <1> SUFFICES ASSUME PageInv, [PgNext]_pgVars PROVE PageInv'
    OBVIOUS
  <1>0. /\ pgRow \in 1..MaxChanges /\ pgEvents \subseteq 1..MaxChanges
        /\ pgSock \in [PgPage -> SockType]
        /\ pgLive \in [PgPage -> 0..MaxChanges] /\ pgPolled \in [PgPage -> 0..MaxChanges]
        /\ pgUp \in BOOLEAN /\ pgBreaks \in 0..MaxBreaks /\ pgFaults \in PgFaultSets
        /\ pgSlots \in 0..PgLimit /\ pgLeaked \in Nat
        /\ pgSlots = pgLeaked + Cardinality(Listeners)
    BY DEF PageInv, PgTypeOK, SockType, Listeners
  <1>h. Heard => pgEvents \subseteq {pgRow} /\ \A p \in PgPage : SockAt(p)
    BY DEF PageInv
  <1>f. IsFiniteSet(Listeners) /\ Cardinality(Listeners) \in Nat
    <2>1. Listeners \subseteq PgPage
      BY DEF Listeners
    <2> QED
      BY <2>1, PgBounds, FS_Subset, FS_CardinalityType
  <1>n. PgLimit \in Nat \ {0} /\ PgAttempts \in Nat /\ MaxChanges \in Nat \ {0} /\ MaxBreaks \in Nat
    BY PgBounds
  <1>t. ASSUME pgRow' \in 1..MaxChanges, pgEvents' \subseteq 1..MaxChanges, pgSock' \in [PgPage -> SockType],
               pgLive' \in [PgPage -> 0..MaxChanges], pgPolled' \in [PgPage -> 0..MaxChanges],
               pgUp' \in BOOLEAN, pgBreaks' \in 0..MaxBreaks, UNCHANGED pgFaults,
               pgSlots' \in 0..PgLimit, pgLeaked' \in Nat, pgSlots' = pgLeaked' + Cardinality(Listeners'),
               Heard => pgEvents' \subseteq {pgRow'} /\ \A p \in PgPage : SockAt(p)'
        PROVE  PageInv'
    <2>1. PgTypeOK'
      BY <1>0, <1>t DEF PgTypeOK, SockType, Listeners
    <2>2. Heard' <=> Heard
      BY <1>t DEF Heard
    <2> QED
      BY <1>t, <2>1, <2>2 DEF PageInv
  (* What one page's step does to the listeners. *)
  <1>l. ASSUME NEW p \in PgPage, NEW s \in SockType, pgSock' = [pgSock EXCEPT ![p] = s]
        PROVE  /\ pgSock' \in [PgPage -> SockType]
               /\ (s.pc \in Listening <=> pgSock[p].pc \in Listening) => Cardinality(Listeners') = Cardinality(Listeners)
               /\ s.pc \in Listening /\ pgSock[p].pc \notin Listening => Cardinality(Listeners') = Cardinality(Listeners) + 1
               /\ s.pc \notin Listening /\ pgSock[p].pc \in Listening => Cardinality(Listeners') = Cardinality(Listeners) - 1
    <2>1. pgSock' \in [PgPage -> SockType] /\ pgSock'[p] = s /\ \A q \in PgPage : q # p => pgSock'[q] = pgSock[q]
      BY <1>0, <1>l
    <2>2. (s.pc \in Listening <=> pgSock[p].pc \in Listening) => Listeners' = Listeners
      BY <2>1 DEF Listeners
    <2>3. s.pc \in Listening => Listeners' = Listeners \cup {p}
      BY <2>1 DEF Listeners
    <2>4. s.pc \notin Listening => Listeners' = Listeners \ {p}
      BY <2>1 DEF Listeners
    <2>5. p \in Listeners <=> pgSock[p].pc \in Listening
      BY DEF Listeners
    <2>6. p \notin Listeners => Cardinality(Listeners \cup {p}) = Cardinality(Listeners) + 1
      BY <1>f, FS_AddElement
    <2>7. p \in Listeners => Cardinality(Listeners \ {p}) = Cardinality(Listeners) - 1
      BY <1>f, FS_RemoveElement
    <2> QED
      BY <2>1, <2>2, <2>3, <2>4, <2>5, <2>6, <2>7
  (* What it does to what the others know: nothing. *)
  <1>o. ASSUME NEW p \in PgPage, NEW s \in SockType, pgSock' = [pgSock EXCEPT ![p] = s],
               UNCHANGED <<pgRow, pgEvents>>, \A q \in PgPage : q # p => pgLive'[q] = pgLive[q],
               Heard => SockAt(p)'
        PROVE  Heard => pgEvents' \subseteq {pgRow'} /\ \A q \in PgPage : SockAt(q)'
    <2> SUFFICES ASSUME Heard, NEW q \in PgPage PROVE SockAt(q)'
      BY <1>h, <1>o
    <2>1. CASE q = p
      BY <1>o, <2>1
    <2>2. CASE q # p
      <3>1. pgSock'[q] = pgSock[q]
        BY <1>0, <1>o, <2>2
      <3> QED
        BY <1>h, <1>o, <2>2, <3>1 DEF SockAt
    <2> QED
      BY <2>1, <2>2
  (* A page whose connection stays as it was, to the API. *)
  <1>k. ASSUME NEW p \in PgPage, NEW s \in SockType, pgSock' = [pgSock EXCEPT ![p] = s],
               s.pc \in Listening <=> pgSock[p].pc \in Listening,
               UNCHANGED <<pgRow, pgEvents, pgPolled, pgUp, pgSlots, pgLeaked, pgBreaks, pgFaults>>,
               pgLive' \in [PgPage -> 0..MaxChanges], \A q \in PgPage : q # p => pgLive'[q] = pgLive[q],
               Heard => SockAt(p)'
        PROVE  PageInv'
    <2>1. pgSock' \in [PgPage -> SockType] /\ Cardinality(Listeners') = Cardinality(Listeners)
      BY <1>l, <1>k
    <2>2. Heard => pgEvents' \subseteq {pgRow'} /\ \A q \in PgPage : SockAt(q)'
      BY <1>o, <1>k
    <2> QED
      BY <1>0, <1>t, <1>k, <2>1, <2>2
  <1>1. CASE PgChange
    <2>1. /\ pgRow < MaxChanges /\ pgRow' = pgRow + 1 /\ pgEvents' = pgEvents \cup {pgRow'}
          /\ UNCHANGED <<pgSock, pgLive, pgPolled, pgUp, pgSlots, pgLeaked, pgBreaks, pgFaults>>
      BY <1>1 DEF PgChange
    <2>2. pgRow' \in 1..MaxChanges /\ pgEvents' \subseteq 1..MaxChanges
      BY <1>0, <2>1, <1>n
    <2>3. Listeners' = Listeners
      BY <2>1 DEF Listeners
    <2>4. Heard => pgEvents = {} /\ \A p \in PgPage : pgSock[p].pc # "read"
      BY <1>1 DEF PgChange, Heard
    <2>5. Heard => pgEvents' \subseteq {pgRow'} /\ \A p \in PgPage : SockAt(p)'
      BY <1>h, <2>1, <2>4 DEF SockAt
    <2> QED
      BY <1>0, <1>t, <2>1, <2>2, <2>3, <2>5
  <1>2. ASSUME NEW v \in pgEvents, PgEvent(v) PROVE PageInv'
    <2> DEFINE told == {p \in PgPage : pgSock[p].pc \in Listening /\ pgSock[p].last # v}
    <2>1. /\ pgEvents' = pgEvents \ {v}
          /\ pgSock' = [p \in PgPage |-> IF p \in told THEN [pgSock[p] EXCEPT !.last = v] ELSE pgSock[p]]
          /\ pgLive' = [p \in PgPage |-> IF p \in told THEN v ELSE pgLive[p]]
          /\ UNCHANGED <<pgRow, pgPolled, pgUp, pgSlots, pgLeaked, pgBreaks, pgFaults>>
      BY <1>2 DEF PgEvent
    <2>2. v \in 0..MaxChanges /\ v # 0
      BY <1>0, <1>n
    <2>3. ASSUME NEW p \in PgPage
          PROVE  /\ pgSock'[p] \in SockType /\ pgSock'[p].pc = pgSock[p].pc /\ pgSock'[p].read = pgSock[p].read
                 /\ pgLive'[p] \in 0..MaxChanges
                 /\ p \in told => pgSock'[p].last = v /\ pgLive'[p] = v
                 /\ p \notin told => pgSock'[p].last = pgSock[p].last /\ pgLive'[p] = pgLive[p]
      <3>1. pgSock[p] \in SockType
        BY <1>0
      <3>2. CASE p \in told
        <4>1. pgSock'[p] = [pgSock[p] EXCEPT !.last = v]
          BY <2>1, <3>2
        <4> QED
          BY <2>1, <2>2, <3>1, <3>2, <4>1 DEF SockType
      <3>3. CASE p \notin told
        BY <1>0, <2>1, <3>1, <3>3
      <3> QED
        BY <3>2, <3>3
    <2>4. pgSock' \in [PgPage -> SockType] /\ pgLive' \in [PgPage -> 0..MaxChanges]
      BY <2>1, <2>3
    <2>5. Listeners' = Listeners
      BY <2>3 DEF Listeners
    <2>6. ASSUME Heard PROVE pgEvents' \subseteq {pgRow'} /\ \A p \in PgPage : SockAt(p)'
      <3>1. v = pgRow /\ pgEvents' = {} /\ pgRow' = pgRow
        BY <1>h, <2>1, <2>6
      <3>2. ASSUME NEW p \in PgPage PROVE SockAt(p)'
        <4>1. SockAt(p)
          BY <1>h, <2>6
        <4>2. CASE p \in told
          BY <2>3, <3>1, <4>1, <4>2 DEF SockAt
        <4>3. CASE p \notin told
          <5>1. pgSock[p].pc = "open" => pgSock[p].last = v
            BY <4>3 DEF Listening
          <5>2. pgSock[p].pc = "open" => pgLive[p] = v
            BY <2>2, <4>1, <5>1 DEF SockAt, Connected, Listening, Nothing
          <5> QED
            BY <2>3, <3>1, <4>1, <4>3, <5>2 DEF SockAt
        <4> QED
          BY <4>2, <4>3
      <3> QED
        BY <3>1, <3>2
    <2>7. pgEvents' \subseteq 1..MaxChanges
      BY <1>0, <2>1
    <2> HIDE DEF told
    <2> QED
      BY <1>0, <1>t, <2>1, <2>4, <2>5, <2>6, <2>7
  <1>3. CASE UnheardChange
    <2>1. /\ pgRow < MaxChanges /\ pgRow' = pgRow + 1
          /\ UNCHANGED <<pgEvents, pgSock, pgLive, pgPolled, pgUp, pgSlots, pgLeaked, pgBreaks, pgFaults>>
      BY <1>3 DEF UnheardChange
    <2>2. pgRow' \in 1..MaxChanges
      BY <1>0, <1>n, <2>1
    <2>3. Listeners' = Listeners
      BY <2>1 DEF Listeners
    <2>4. ~Heard
      BY <1>3 DEF UnheardChange, Heard
    <2> QED
      BY <1>0, <1>t, <2>1, <2>2, <2>3, <2>4
  <1>4. CASE ApiDies
    <2>1. /\ pgBreaks < MaxBreaks /\ pgUp' = FALSE /\ pgBreaks' = pgBreaks + 1
          /\ pgSock' = [p \in PgPage |-> IF pgSock[p].pc \in Connected THEN AfterClose(p, 0) ELSE pgSock[p]]
          /\ pgEvents' = {} /\ pgSlots' = 0 /\ pgLeaked' = 0
          /\ UNCHANGED <<pgRow, pgLive, pgPolled, pgFaults>>
      BY <1>4 DEF ApiDies
    <2>2. ASSUME NEW p \in PgPage PROVE pgSock'[p] \in SockType /\ pgSock'[p].pc \notin Connected
      <3>1. 0 \in 0..PgAttempts
        BY <1>n
      <3>2. CASE pgSock[p].pc \in Connected
        BY <2>1, <3>1, <3>2, SocksHaveTheirType DEF Connected, Listening, SettingUp
      <3>3. CASE pgSock[p].pc \notin Connected
        BY <1>0, <2>1, <3>3
      <3> QED
        BY <3>2, <3>3
    <2>3. pgSock' \in [PgPage -> SockType]
      BY <2>1, <2>2
    <2>4. Listeners' = {}
      BY <2>2 DEF Listeners, Connected
    <2>5. Cardinality(Listeners') = 0
      BY <2>4, FS_EmptySet
    <2>6. \A p \in PgPage : SockAt(p)'
      BY <2>2 DEF SockAt, Connected, Listening, SettingUp
    <2>7. pgBreaks' \in 0..MaxBreaks /\ pgSlots' \in 0..PgLimit /\ pgLeaked' \in Nat /\ pgSlots' = pgLeaked' + Cardinality(Listeners')
      BY <1>0, <1>n, <2>1, <2>5
    <2> QED
      BY <1>0, <1>t, <2>1, <2>3, <2>6, <2>7
  <1>5. CASE ApiStarts
    <2>1. UNCHANGED <<pgRow, pgEvents, pgSock, pgLive, pgPolled, pgSlots, pgLeaked, pgBreaks, pgFaults>> /\ pgUp' = TRUE
      BY <1>5 DEF ApiStarts
    <2>2. Listeners' = Listeners /\ \A p \in PgPage : SockAt(p)' <=> SockAt(p)
      BY <2>1 DEF Listeners, SockAt
    <2> QED
      BY <1>0, <1>h, <1>t, <2>1, <2>2
  <1>6. ASSUME NEW p \in PgPage, Visit(p) PROVE PageInv'
    <2> DEFINE s == [pgSock[p] EXCEPT !.pc = "closed"]
    <2>1. pgSock[p] \in SockType
      BY <1>0
    <2>2. s \in SockType /\ s.pc = "closed"
      BY <2>1 DEF SockType
    <2>3. pgSock' = [pgSock EXCEPT ![p] = s] /\ pgSock[p].pc = "left"
          /\ UNCHANGED <<pgRow, pgEvents, pgLive, pgPolled, pgUp, pgSlots, pgLeaked, pgBreaks, pgFaults>>
      BY <1>0, <1>6 DEF Visit, PgGoes
    <2> HIDE DEF s
    <2>4. SockAt(p)'
      BY <1>0, <2>2, <2>3 DEF SockAt, Connected, Listening, SettingUp
    <2> QED
      BY <1>0, <1>k, <2>2, <2>3, <2>4 DEF Listening, SettingUp
  (* A connection that ends. *)
  <1>e. ASSUME NEW p \in PgPage, NEW s \in SockType, EndsWith(p, s), s.pc \in {"closed", "gaveUp", "left"},
               UNCHANGED <<pgRow, pgEvents, pgUp, pgFaults>>, pgBreaks' \in 0..MaxBreaks,
               pgLive' \in [PgPage -> 0..MaxChanges], pgPolled' \in [PgPage -> 0..MaxChanges],
               \A q \in PgPage : q # p => pgLive'[q] = pgLive[q]
        PROVE  PageInv'
    <2>1. /\ pgSock' = [pgSock EXCEPT ![p] = s]
          /\ pgSlots' = IF pgSock[p].pc = "open" THEN pgSlots - 1 ELSE pgSlots
          /\ pgLeaked' = IF pgSock[p].pc \in SettingUp THEN pgLeaked + 1 ELSE pgLeaked
      BY <1>e DEF EndsWith
    <2>2. s.pc \notin Listening /\ s.pc \notin Connected /\ "open" \notin SettingUp
      BY <1>e DEF Connected, Listening, SettingUp
    <2>3. pgSock'[p] = s
      BY <1>0, <2>1
    <2>4. SockAt(p)'
      BY <1>e, <2>2, <2>3 DEF SockAt
    <2>5. /\ pgSock' \in [PgPage -> SockType]
          /\ pgSock[p].pc \notin Listening => Cardinality(Listeners') = Cardinality(Listeners)
          /\ pgSock[p].pc \in Listening => Cardinality(Listeners') = Cardinality(Listeners) - 1
      BY <1>l, <2>1, <2>2
    <2>6. pgSlots \in Nat /\ (pgSock[p].pc \in Listening => Cardinality(Listeners) >= 1)
      <3>1. pgSock[p].pc \in Listening => Cardinality(Listeners \ {p}) = Cardinality(Listeners) - 1 /\ Cardinality(Listeners \ {p}) \in Nat
        BY <1>f, FS_RemoveElement, FS_CardinalityType DEF Listeners
      <3> QED
        BY <1>0, <1>n, <1>f, <3>1
    <2>7. pgSlots' \in 0..PgLimit /\ pgLeaked' \in Nat /\ pgSlots' = pgLeaked' + Cardinality(Listeners')
      <3>1. CASE pgSock[p].pc = "open"
        <4>1. Cardinality(Listeners') = Cardinality(Listeners) - 1 /\ Cardinality(Listeners) >= 1
          BY <2>5, <2>6, <3>1 DEF Listening
        <4>2. pgSlots' = pgSlots - 1 /\ pgLeaked' = pgLeaked
          BY <2>1, <2>2, <3>1
        <4> QED
          BY <1>0, <1>n, <1>f, <4>1, <4>2
      <3>2. CASE pgSock[p].pc \in SettingUp
        <4>1. Cardinality(Listeners') = Cardinality(Listeners) - 1
          BY <2>5, <3>2 DEF Listening
        <4>2. pgSlots' = pgSlots /\ pgLeaked' = pgLeaked + 1
          BY <2>1, <2>2, <3>2
        <4> QED
          BY <1>0, <1>n, <1>f, <4>1, <4>2
      <3>3. CASE pgSock[p].pc \notin Listening
        <4>1. Cardinality(Listeners') = Cardinality(Listeners) /\ pgSlots' = pgSlots /\ pgLeaked' = pgLeaked
          BY <2>1, <2>5, <3>3 DEF Listening
        <4> QED
          BY <1>0, <4>1
      <3> QED
        BY <3>1, <3>2, <3>3 DEF Listening
    <2>8. Heard => pgEvents' \subseteq {pgRow'} /\ \A q \in PgPage : SockAt(q)'
      BY <1>o, <1>e, <2>1, <2>4
    <2> QED
      BY <1>0, <1>t, <1>e, <2>5, <2>7, <2>8
  <1>7. ASSUME NEW p \in PgPage, Leave(p) PROVE PageInv'
    <2>1. NoSock("left") \in SockType /\ NoSock("left").pc = "left"
      BY SocksHaveTheirType DEF NoSock
    <2>2. /\ EndsWith(p, NoSock("left")) /\ UNCHANGED <<pgRow, pgEvents, pgUp, pgBreaks, pgFaults>>
          /\ pgLive' = [pgLive EXCEPT ![p] = 0] /\ pgPolled' = [pgPolled EXCEPT ![p] = 0]
      BY <1>7 DEF Leave, Nothing
    <2>3. pgLive' \in [PgPage -> 0..MaxChanges] /\ pgPolled' \in [PgPage -> 0..MaxChanges]
      BY <1>0, <1>n, <2>2
    <2>4. \A q \in PgPage : q # p => pgLive'[q] = pgLive[q]
      BY <1>0, <2>2
    <2> QED
      BY <1>0, <1>e, <2>1, <2>2, <2>3, <2>4
  <1>8. ASSUME NEW p \in PgPage, PgConnect(p) PROVE PageInv'
    <2>1. pgSock[p].pc = "closed" /\ pgSock[p].tries \in 0..PgAttempts
          /\ UNCHANGED <<pgRow, pgEvents, pgLive, pgPolled, pgUp, pgSlots, pgLeaked, pgBreaks, pgFaults>>
      <3>1. pgSock[p] \in SockType
        BY <1>0
      <3> QED
        BY <1>8, <3>1 DEF PgConnect, SockType
    <2>2. CASE pgSock' = [pgSock EXCEPT ![p] = NoSock("asked")]
      <3>1. NoSock("asked") \in SockType /\ NoSock("asked").pc = "asked" /\ NoSock("asked").last = Nothing
        BY SocksHaveTheirType DEF NoSock, Connected
      <3>2. SockAt(p)'
        BY <1>0, <2>2, <3>1 DEF SockAt
      <3> QED
        BY <1>0, <1>k, <2>1, <2>2, <3>1, <3>2 DEF Listening, SettingUp
    <2>3. CASE pgSock' = [pgSock EXCEPT ![p] = AfterClose(p, pgSock[p].tries)]
      <3>1. AfterClose(p, pgSock[p].tries) \in SockType /\ AfterClose(p, pgSock[p].tries).pc \in {"closed", "gaveUp"}
        BY <2>1, SocksHaveTheirType
      <3>2. SockAt(p)'
        BY <1>0, <2>3, <3>1 DEF SockAt, Connected, Listening, SettingUp
      <3>3. AfterClose(p, pgSock[p].tries).pc \notin Listening /\ pgSock[p].pc \notin Listening
        BY <2>1, <3>1 DEF Listening, SettingUp
      <3> QED
        BY <1>0, <1>k, <2>1, <2>3, <3>1, <3>2, <3>3
    <2> QED
      BY <1>8, <2>2, <2>3 DEF PgConnect
  <1>9. ASSUME NEW p \in PgPage, TakeSlot(p) PROVE PageInv'
    <2>1. pgSock[p].pc = "asked" /\ pgSock[p] \in SockType
          /\ UNCHANGED <<pgRow, pgEvents, pgLive, pgPolled, pgUp, pgLeaked, pgBreaks, pgFaults>>
      BY <1>0, <1>9 DEF TakeSlot
    <2>2. CASE pgSlots < PgLimit /\ PgGoes(p, "counted") /\ pgSlots' = pgSlots + 1
      <3> DEFINE s == [pgSock[p] EXCEPT !.pc = "counted"]
      <3>1. s \in SockType /\ s.pc = "counted" /\ s.last = pgSock[p].last
        BY <2>1 DEF SockType, Connected, Listening, SettingUp
      <3>2. pgSock' = [pgSock EXCEPT ![p] = s]
        BY <1>0, <2>2 DEF PgGoes
      <3> HIDE DEF s
      <3>3. Heard => SockAt(p)'
        BY <1>0, <1>h, <2>1, <3>1, <3>2 DEF SockAt, Connected
      <3>4. pgSock' \in [PgPage -> SockType] /\ Cardinality(Listeners') = Cardinality(Listeners) + 1
        BY <1>l, <2>1, <3>1, <3>2 DEF Listening, SettingUp
      <3>5. Heard => pgEvents' \subseteq {pgRow'} /\ \A q \in PgPage : SockAt(q)'
        BY <1>o, <2>1, <3>1, <3>2, <3>3
      <3>6. pgSlots' \in 0..PgLimit /\ pgSlots' = pgLeaked' + Cardinality(Listeners')
        BY <1>0, <1>n, <1>f, <2>1, <2>2, <3>4
      <3> QED
        BY <1>0, <1>t, <2>1, <3>4, <3>5, <3>6
    <2>3. CASE pgSock' = [pgSock EXCEPT ![p] = AfterClose(p, 0)] /\ UNCHANGED pgSlots
      <3>1. AfterClose(p, 0) \in SockType /\ AfterClose(p, 0).pc \in {"closed", "gaveUp"}
        <4>1. 0 \in 0..PgAttempts
          BY <1>n
        <4> QED
          BY <4>1, SocksHaveTheirType
      <3>2. SockAt(p)'
        BY <1>0, <2>3, <3>1 DEF SockAt, Connected, Listening, SettingUp
      <3>3. AfterClose(p, 0).pc \notin Listening /\ pgSock[p].pc \notin Listening
        BY <2>1, <3>1 DEF Listening, SettingUp
      <3> QED
        BY <1>0, <1>k, <2>1, <2>3, <3>1, <3>2, <3>3
    <2> QED
      BY <1>9, <2>2, <2>3 DEF TakeSlot
  <1>10. ASSUME NEW p \in PgPage, PgRead(p) PROVE PageInv'
    <2> DEFINE s == [pgSock[p] EXCEPT !.pc = "read", !.read = pgRow]
    <2>1. pgSock[p].pc = "counted" /\ pgSock[p] \in SockType /\ pgRow \in 0..MaxChanges
          /\ UNCHANGED <<pgRow, pgEvents, pgLive, pgPolled, pgUp, pgSlots, pgLeaked, pgBreaks, pgFaults>>
      BY <1>0, <1>n, <1>10 DEF PgRead
    <2>2. s \in SockType /\ s.pc = "read" /\ s.read = pgRow /\ s.last = pgSock[p].last
      BY <2>1 DEF SockType, Connected, Listening, SettingUp
    <2>3. pgSock' = [pgSock EXCEPT ![p] = s]
      BY <1>0, <1>10 DEF PgRead
    <2> HIDE DEF s
    <2>4. Heard => SockAt(p)'
      BY <1>0, <1>h, <2>1, <2>2, <2>3 DEF SockAt, Connected, Listening, SettingUp
    <2> QED
      BY <1>0, <1>k, <2>1, <2>2, <2>3, <2>4 DEF Listening, SettingUp
  <1>11. ASSUME NEW p \in PgPage, SendStatus(p) PROVE PageInv'
    <2> DEFINE s == [pc |-> "open", tries |-> 0, read |-> 0, last |-> pgSock[p].read]
               w == IF pgSock[p].read # pgSock[p].last THEN pgSock[p].read ELSE pgLive[p]
    <2>1. pgSock[p].pc = "read" /\ pgSock[p] \in SockType
          /\ UNCHANGED <<pgRow, pgEvents, pgPolled, pgUp, pgSlots, pgLeaked, pgBreaks, pgFaults>>
      BY <1>0, <1>11 DEF SendStatus
    <2>2. pgSock' = [pgSock EXCEPT ![p] = s] /\ pgLive' = [pgLive EXCEPT ![p] = w]
      <3>1. [NoSock("open") EXCEPT !.last = pgSock[p].read] = s
        BY DEF NoSock, Nothing
      <3>2. /\ pgSock' = [pgSock EXCEPT ![p] = [NoSock("open") EXCEPT !.last = pgSock[p].read]]
            /\ pgLive' = [pgLive EXCEPT ![p] = w]
        BY <1>11 DEF SendStatus
      <3> QED
        BY <3>1, <3>2
    <2>3. s \in SockType /\ s.pc = "open" /\ s.last = pgSock[p].read /\ w \in 0..MaxChanges
      BY <1>0, <1>n, <2>1 DEF SockType, Connected, Listening
    <2>4. pgSock'[p] = s /\ pgLive'[p] = w
      BY <1>0, <2>2
    <2>5. Heard => s.last = pgRow /\ w = pgRow
      <3> SUFFICES ASSUME Heard PROVE s.last = pgRow /\ w = pgRow
        OBVIOUS
      <3>1. pgSock[p].read = pgRow /\ pgSock[p].last \in {0, pgLive[p]}
        BY <1>h, <2>1 DEF SockAt, Connected, Listening, SettingUp, Nothing
      <3>2. pgRow # 0
        BY <1>0
      <3> QED
        BY <3>1, <3>2
    <2> HIDE DEF s, w
    <2>6. Heard => SockAt(p)'
      BY <2>1, <2>3, <2>4, <2>5 DEF SockAt
    <2>7. pgLive' \in [PgPage -> 0..MaxChanges] /\ \A q \in PgPage : q # p => pgLive'[q] = pgLive[q]
      BY <1>0, <2>2, <2>3
    <2> QED
      BY <1>k, <2>1, <2>2, <2>3, <2>6, <2>7 DEF Listening, SettingUp
  <1>12. ASSUME NEW p \in PgPage, Breaks(p) PROVE PageInv'
    <2>1. /\ EndsWith(p, AfterClose(p, 0)) /\ pgBreaks < MaxBreaks /\ pgBreaks' = pgBreaks + 1
          /\ UNCHANGED <<pgRow, pgEvents, pgLive, pgPolled, pgUp, pgFaults>>
      BY <1>12 DEF Breaks
    <2>2. 0 \in 0..PgAttempts /\ pgBreaks' \in 0..MaxBreaks
      BY <1>0, <1>n, <2>1
    <2>3. AfterClose(p, 0) \in SockType /\ AfterClose(p, 0).pc \in {"closed", "gaveUp"}
      BY <2>2, SocksHaveTheirType
    <2> QED
      BY <1>0, <1>e, <2>1, <2>2, <2>3
  <1>13. ASSUME NEW p \in PgPage, Poll(p) PROVE PageInv'
    <2>1. /\ pgPolled' = [pgPolled EXCEPT ![p] = pgRow]
          /\ UNCHANGED <<pgRow, pgEvents, pgSock, pgLive, pgUp, pgSlots, pgLeaked, pgBreaks, pgFaults>>
      BY <1>13 DEF Poll
    <2>2. pgPolled' \in [PgPage -> 0..MaxChanges]
      BY <1>0, <1>n, <2>1
    <2>3. Listeners' = Listeners /\ \A q \in PgPage : SockAt(q)' <=> SockAt(q)
      BY <2>1 DEF Listeners, SockAt
    <2> QED
      BY <1>0, <1>h, <1>t, <2>1, <2>2, <2>3
  <1>14. CASE UNCHANGED pgVars
    <2>1. UNCHANGED <<pgRow, pgEvents, pgSock, pgLive, pgPolled, pgUp, pgSlots, pgLeaked, pgBreaks, pgFaults>>
      BY <1>14 DEF pgVars
    <2>2. Listeners' = Listeners /\ \A q \in PgPage : SockAt(q)' <=> SockAt(q)
      BY <2>1 DEF Listeners, SockAt
    <2> QED
      BY <1>0, <1>h, <1>t, <2>1, <2>2
  <1> QED
    BY <1>1, <1>2, <1>3, <1>4, <1>5, <1>6, <1>7, <1>8, <1>9, <1>10, <1>11, <1>12, <1>13, <1>14
      DEF PgNext, PgProceed, PgServer

(* The invariant holds always. *)
THEOREM PageInvariant == PgSpec => []PageInv
  BY PageInit, PageStep, PTL DEF PgSpec

(* The count of a user is that of the connections that listen and of those lost while
   they were set up, and never exceeds the limit (acquireWsSlot, releaseWsSlot). *)
THEOREM PageTypes == PgSpec => []PgTypeOK
  <1>1. PageInv => PgTypeOK
    BY DEF PageInv
  <1> QED
    BY <1>1, PageInvariant, PTL

(* While every change is heard, and none comes while a row is read for a socket, a page
   that is connected shows the row once the events have been handled (sendStatus and
   onStatusUpdated of routes/ws.ts).                                       *)
THEOREM OpenPageIsCurrent == PgSpec => []OpenIsCurrent
  <1>1. PageInv => OpenIsCurrent
    <2> SUFFICES ASSUME PageInv, Heard, pgEvents = {}, NEW p \in PgPage, pgSock[p].pc = "open"
                 PROVE  ShownOn(p) = pgRow
      BY DEF OpenIsCurrent
    <2>1. pgLive[p] = pgRow
      BY DEF PageInv, SockAt
    <2>2. pgRow # Nothing
      BY DEF PageInv, PgTypeOK, Nothing
    <2> QED
      BY <2>1, <2>2 DEF ShownOn
  <1> QED
    BY <1>1, PageInvariant, PTL
=============================================================================
