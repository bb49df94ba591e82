---------------------------- MODULE ServerHealth ----------------------------
(***************************************************************************)
(* The status of a VPS and what its owner is told of it: health checks of    *)
(* the schedule and by request (performHealthCheck in vps.service.ts), and   *)
(* the alerts of alert.service.ts, which are sent once in five minutes.      *)
(***************************************************************************)
EXTENDS Integers

CONSTANTS
  ShCheck,      \* the checks, one after the other each
  ShScheduled,  \* the one that the schedule makes; the others are requests
  MaxFlips,     \* bound: outages, their ends and deaths
  ShFaultSets   \* each behaviour admits one of these subsets of ShFault

(* overlap: a check begins while another one is under way
   quiet:   a connection test or a bootstrap writes the status, without an alert
   die:     the API process dies                                           *)
ShFault == {"overlap", "quiet", "die"}

ASSUME ShBounds == ShScheduled \in ShCheck /\ MaxFlips \in Nat
ASSUME ShFaultAssumption == ShFaultSets \subseteq SUBSET ShFault

VARIABLES
  shUp,        \* whether SSH reaches the VPS
  shStatus,    \* VPS.status
  shCheck,     \* of each check: its place, the status it has read, what it found
  shNews,      \* the last notification
  shCooldown,  \* alerts on cooldown in Redis
  shMissed,    \* history: whether an alert was skipped because of a cooldown
  shFlips, shFaults

shVars == <<shUp, shStatus, shCheck, shNews, shCooldown, shMissed, shFlips, shFaults>>

Alert == {"SERVER_OFFLINE", "SERVER_RECONNECTED"}
ShRest == [pc |-> "idle", seen |-> "active", ok |-> TRUE]
AllAtRest == \A c \in ShCheck : shCheck[c].pc = "idle"

(* What is told is on cooldown, or its cooldown has run out. *)
ShTypeOK ==
  /\ shUp \in BOOLEAN /\ shStatus \in {"active", "failed"}
  /\ shCheck \in [ShCheck -> [pc : {"idle", "selected", "read", "found", "alert", "creating"},
                              seen : {"active", "failed"}, ok : BOOLEAN]]
  /\ shNews \in Alert \cup {"none"} /\ shCooldown \subseteq Alert
  /\ shCooldown # {} => shNews # "none"
  /\ shMissed \in BOOLEAN /\ shFlips \in 0..MaxFlips /\ shFaults \in ShFaultSets

ShInit ==
  /\ shUp = TRUE /\ shStatus = "active" /\ shNews = "none" /\ shCooldown = {}
  /\ shCheck = [c \in ShCheck |-> ShRest]
  /\ shMissed = FALSE /\ shFlips = 0 /\ shFaults \in ShFaultSets

------------------------------------------------------------------------------
ShGoes(c, pc) == shCheck' = [shCheck EXCEPT ![c].pc = pc]
ShMayBegin == "overlap" \in shFaults \/ AllAtRest

Flip ==
  /\ shFlips < MaxFlips
  /\ shUp' = ~shUp /\ shFlips' = shFlips + 1
  /\ UNCHANGED <<shStatus, shCheck, shNews, shCooldown, shMissed, shFaults>>

(* runAllHealthChecks, every five minutes: only what is active. *)
Select ==
  /\ ShMayBegin /\ shCheck[ShScheduled].pc = "idle" /\ shStatus = "active"
  /\ ShGoes(ShScheduled, "selected")
  /\ UNCHANGED <<shUp, shStatus, shNews, shCooldown, shMissed, shFlips, shFaults>>

(* previousStatus; a request begins with it. *)
ReadStatus(c) ==
  /\ IF c = ShScheduled THEN shCheck[c].pc = "selected" ELSE shCheck[c].pc = "idle" /\ ShMayBegin
  /\ shCheck' = [shCheck EXCEPT ![c].pc = "read", ![c].seen = shStatus]
  /\ UNCHANGED <<shUp, shStatus, shNews, shCooldown, shMissed, shFlips, shFaults>>

Find(c) ==
  /\ shCheck[c].pc = "read"
  /\ shCheck' = [shCheck EXCEPT ![c].pc = "found", ![c].ok = shUp]
  /\ UNCHANGED <<shUp, shStatus, shNews, shCooldown, shMissed, shFlips, shFaults>>

Found(c) == IF shCheck[c].ok THEN "active" ELSE "failed"

(* Mutant: the row is compared after it was written. *)
MutWriteHealth(c) ==
  /\ shCheck[c].pc = "found"
  /\ shStatus' = Found(c)
  /\ shCheck' = [shCheck EXCEPT ![c] = IF shStatus' = Found(c) THEN ShRest ELSE [@ EXCEPT !.pc = "alert"]]
  /\ UNCHANGED <<shUp, shNews, shCooldown, shMissed, shFlips, shFaults>>

(* The row, then an alert that nobody waits for if the status is another one. *)
WriteHealth(c) ==
  /\ shCheck[c].pc = "found"
  /\ shStatus' = Found(c)
  /\ shCheck' = [shCheck EXCEPT ![c] = IF Found(c) = @.seen THEN ShRest ELSE [@ EXCEPT !.pc = "alert"]]
  /\ UNCHANGED <<shUp, shNews, shCooldown, shMissed, shFlips, shFaults>>

AlertOf(c) == IF shCheck[c].ok THEN "SERVER_RECONNECTED" ELSE "SERVER_OFFLINE"

(* triggerAlert: isOnCooldown .. *)
TriggerAlert(c) ==
  /\ shCheck[c].pc = "alert"
  /\ IF AlertOf(c) \in shCooldown
       THEN shMissed' = TRUE /\ shCheck' = [shCheck EXCEPT ![c] = ShRest]
       ELSE ShGoes(c, "creating") /\ UNCHANGED shMissed
  /\ UNCHANGED <<shUp, shStatus, shNews, shCooldown, shFlips, shFaults>>

(* .. the notification, and setCooldown. *)
Notify(c) ==
  /\ shCheck[c].pc = "creating"
  /\ shNews' = AlertOf(c) /\ shCooldown' = shCooldown \cup {AlertOf(c)}
  /\ shCheck' = [shCheck EXCEPT ![c] = ShRest]
  /\ UNCHANGED <<shUp, shStatus, shMissed, shFlips, shFaults>>

CooldownEnds(a) ==
  /\ a \in shCooldown /\ shCooldown' = shCooldown \ {a}
  /\ UNCHANGED <<shUp, shStatus, shCheck, shNews, shMissed, shFlips, shFaults>>

(* testStoredConnection that fails; the end of a bootstrap. *)
WriteQuietly ==
  /\ "quiet" \in shFaults
  /\ shStatus' = IF shUp THEN "active" ELSE "failed"
  /\ UNCHANGED <<shUp, shCheck, shNews, shCooldown, shMissed, shFlips, shFaults>>

ShDie ==
  /\ "die" \in shFaults /\ shFlips < MaxFlips
  /\ shCheck' = [c \in ShCheck |-> ShRest] /\ shFlips' = shFlips + 1
  /\ UNCHANGED <<shUp, shStatus, shNews, shCooldown, shMissed, shFaults>>

ShNext ==
  \/ Flip \/ Select \/ WriteQuietly \/ ShDie
  \/ \E c \in ShCheck : ReadStatus(c) \/ Find(c) \/ WriteHealth(c) \/ TriggerAlert(c) \/ Notify(c)
  \/ \E a \in Alert : CooldownEnds(a)

ShSpec == ShInit /\ [][ShNext]_shVars

------------------------------------------------------------------------------
(* The property.                                                           *)

(* The owner knows: while no check is under way the last notification says OFFLINE
   exactly if the row says failed, unless checks have met, the status was written
   past the alerts, the process died before an alert or a cooldown skipped one. *)
NewsIsTrue ==
  shFaults = {} /\ AllAtRest /\ ~shMissed => (shStatus = "failed" <=> shNews = "SERVER_OFFLINE")
==============================================================================
