---------------------------- MODULE CommandRunner ----------------------------
(***************************************************************************)
(* One command of a run on the VPS (services/deployment/runner.ts): the      *)
(* command in a process group of its own, the shell around it that leaves    *)
(* the pid in a file, and the timer that looks for a cancellation and kills  *)
(* the group through a second channel of the same connection.                *)
(***************************************************************************)

CONSTANT CrFaultSets   \* each behaviour admits one of these subsets of CrFault

(* lose: the connection is lost, or the command takes longer than its limit *)
CrFault == {"lose"}

ASSUME CrFaultAssumption == CrFaultSets \subseteq SUBSET CrFault

VARIABLES
  crKey,        \* whether deployment-cancel:<deployment> is set
  crRun,        \* the await runCommand is at
  crRequested,  \* cancelRequested
  crSent,       \* terminationSent
  crKill,       \* the kill command, if one is in flight, and whether it has been carried out
  crShell,      \* the shell on the VPS
  crChild,      \* the command itself
  crPid,        \* whether the pid file is there
  crResult,
  crAsked,      \* history: whether the key was set while the command ran
  crFaults

crVars == <<crKey, crRun, crRequested, crSent, crKill, crShell, crChild, crPid, crResult, crAsked, crFaults>>

(* A command whose run is over is over too, as long as the connection is there. *)
CrTypeOK ==
  /\ crKey \in BOOLEAN /\ crRequested \in BOOLEAN /\ crSent \in BOOLEAN
  /\ crRun \in {"check", "command", "returned", "killing", "finally", "done"}
  /\ crKill \in {"none", "flying", "killed", "missed"}
  /\ crShell \in {"none", "forked", "waiting", "over"} /\ crChild \in {"none", "runs", "gone"}
  /\ crPid \in BOOLEAN /\ crAsked \in BOOLEAN
  /\ crPid => crShell = "waiting"
  /\ crResult \in {"none", "ended", "canceled", "failed"} /\ crFaults \in CrFaultSets
  /\ crRun = "done" => crResult # "none"
  /\ crRun = "done" /\ "lose" \notin crFaults /\ crChild # "none" => crChild = "gone" /\ crShell = "over"

CrInit ==
  /\ crKey = FALSE /\ crRun = "check" /\ crRequested = FALSE /\ crSent = FALSE /\ crKill = "none"
  /\ crShell = "none" /\ crChild = "none" /\ crPid = FALSE /\ crResult = "none" /\ crAsked = FALSE
  /\ crFaults \in CrFaultSets

------------------------------------------------------------------------------
(* cancelDeployment. *)
CrCancel ==
  /\ ~crKey /\ crKey' = TRUE
  /\ crAsked' = (crRun = "command")
  /\ UNCHANGED <<crRun, crRequested, crSent, crKill, crShell, crChild, crPid, crResult, crFaults>>

(* The key is looked at, then the shell starts the command and keeps its pid in mind. *)
CrStart ==
  /\ crRun = "check"
  /\ IF crKey
       THEN crRun' = "done" /\ crResult' = "canceled" /\ UNCHANGED <<crShell, crChild>>
       ELSE crRun' = "command" /\ crShell' = "forked" /\ crChild' = "runs" /\ UNCHANGED crResult
  /\ UNCHANGED <<crKey, crRequested, crSent, crKill, crPid, crAsked, crFaults>>

------------------------------------------------------------------------------
(* On the VPS.                                                             *)

(* The pid file .. *)
CrWritePid ==
  /\ crShell = "forked" /\ crShell' = "waiting" /\ crPid' = TRUE
  /\ UNCHANGED <<crKey, crRun, crRequested, crSent, crKill, crChild, crResult, crAsked, crFaults>>

(* .. wait, and rm. *)
CrWaited ==
  /\ crShell = "waiting" /\ crChild = "gone"
  /\ crShell' = "over" /\ crPid' = FALSE
  /\ UNCHANGED <<crKey, crRun, crRequested, crSent, crKill, crChild, crResult, crAsked, crFaults>>

(* A command ends when it likes, a build for example after minutes. *)
CrEnds ==
  /\ crChild = "runs" /\ crChild' = "gone"
  /\ UNCHANGED <<crKey, crRun, crRequested, crSent, crKill, crShell, crPid, crResult, crAsked, crFaults>>

(* The kill command: the whole group, or exit 3 if there is no pid file. *)
CrKilled ==
  /\ crKill = "flying"
  /\ crKill' = IF crPid THEN "killed" ELSE "missed"
  /\ crChild' = IF crPid THEN "gone" ELSE crChild
  /\ crPid' = FALSE
  /\ UNCHANGED <<crKey, crRun, crRequested, crSent, crShell, crResult, crAsked, crFaults>>

------------------------------------------------------------------------------
(* checkCancellation.                                                      *)

(* It asks for a kill unless one is in flight or has been carried out. *)
AsksToKill == IF crKill = "none" /\ ~crSent THEN "flying" ELSE crKill

(* Every 750 ms, until the finally block; a look at the key may still be under way then. *)
CrPoll ==
  /\ crKey /\ crRun \in {"command", "returned", "killing", "finally"}
  /\ ~crRequested \/ AsksToKill # crKill
  /\ crRequested' = TRUE /\ crKill' = AsksToKill
  /\ UNCHANGED <<crKey, crRun, crSent, crShell, crChild, crPid, crResult, crAsked, crFaults>>

(* Mutant: whatever the kill command says, it is not sent again. *)
MutKillReturns ==
  /\ crKill \in {"killed", "missed"} \/ (crKill = "flying" /\ "lose" \in crFaults)
  /\ crSent' = TRUE
  /\ crKill' = "none"
  /\ crRun' = IF crRun = "killing" THEN "finally" ELSE crRun
  /\ UNCHANGED <<crKey, crRequested, crShell, crChild, crPid, crResult, crAsked, crFaults>>

(* terminationSent only if it exits with 0; a lost answer counts as none. *)
CrKillReturns ==
  /\ crKill \in {"killed", "missed"} \/ (crKill = "flying" /\ "lose" \in crFaults)
  /\ \/ crSent' = (crSent \/ crKill = "killed")
     \/ "lose" \in crFaults /\ UNCHANGED crSent
  /\ crKill' = "none"
  /\ crRun' = IF crRun = "killing" THEN "finally" ELSE crRun
  /\ UNCHANGED <<crKey, crRequested, crShell, crChild, crPid, crResult, crAsked, crFaults>>

------------------------------------------------------------------------------
(* The run.                                                                *)

(* The channel closes when the shell has ended. *)
CrReturns ==
  /\ crRun = "command" /\ crShell = "over"
  /\ crRun' = "returned"
  /\ UNCHANGED <<crKey, crRequested, crSent, crKill, crShell, crChild, crPid, crResult, crAsked, crFaults>>

(* A timeout, or no connection: the key tells an error from a cancellation.
   What has been started goes on without anybody who waits for it.         *)
CrLost ==
  /\ "lose" \in crFaults /\ crRun = "command"
  /\ crRun' = "finally" /\ crResult' = IF crRequested \/ crKey THEN "canceled" ELSE "failed"
  /\ UNCHANGED <<crKey, crRequested, crSent, crKill, crShell, crChild, crPid, crAsked, crFaults>>

(* The last look at the key; only a kill of its own is waited for. *)
CrLastLook ==
  /\ crRun = "returned"
  /\ crRequested' = (crRequested \/ crKey)
  /\ crKill' = IF crKey THEN AsksToKill ELSE crKill
  /\ crRun' = IF crKill' # crKill THEN "killing" ELSE "finally"
  /\ UNCHANGED <<crKey, crSent, crShell, crChild, crPid, crResult, crAsked, crFaults>>

(* The finally block removes the pid file, and the result is looked at. *)
CrFinally ==
  /\ crRun = "finally" /\ crRun' = "done"
  /\ \/ crPid' = FALSE
     \/ "lose" \in crFaults /\ UNCHANGED crPid
  /\ crResult' = IF crResult # "none" THEN crResult ELSE IF crRequested THEN "canceled" ELSE "ended"
  /\ UNCHANGED <<crKey, crRequested, crSent, crKill, crShell, crChild, crAsked, crFaults>>

CrOnVps == CrWritePid \/ CrWaited
CrKilling == CrPoll \/ CrKilled \/ CrKillReturns
CrGoesOn == CrStart \/ CrReturns \/ CrLost \/ CrLastLook \/ CrFinally

CrNext == CrCancel \/ CrOnVps \/ CrEnds \/ CrKilling \/ CrGoesOn

(* The shell, the timer and the run go on, each by itself: a command need not end, but
   the run waits for it no longer than its limit.                           *)
CrSpec ==
  /\ CrInit /\ [][CrNext]_crVars
  /\ WF_crVars(CrOnVps) /\ WF_crVars(CrKilling) /\ WF_crVars(CrGoesOn)

------------------------------------------------------------------------------
(* The property.                                                           *)

(* A cancellation that comes while a command runs ends it, however long it would have
   taken and also if the kill came before its pid was known; the run is told so.
   Without a connection the run is told, but the command may go on.         *)
CancelStops ==
  <>[](crAsked => /\ crRun = "done" /\ crResult = "canceled"
                  /\ "lose" \notin crFaults => crChild = "gone")
==============================================================================
