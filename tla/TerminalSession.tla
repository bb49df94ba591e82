--------------------------- MODULE TerminalSession ---------------------------
(***************************************************************************)
(* Terminals on one VPS (services/terminal.service.ts): a WebSocket, an SSH  *)
(* connection and a TerminalSession row that begin one after the other and   *)
(* have to end together, whichever of them ends first.                       *)
(***************************************************************************)
EXTENDS Integers

CONSTANTS
  Terminal,     \* the terminals that are opened
  TmFaultSets   \* each behaviour admits one of these subsets of TmFault

(* lost: the client vanishes without closing its socket
   row:  the update of the row fails
   die:  the API process dies                                              *)
TmFault == {"lost", "row", "die"}

ASSUME TmFaultAssumption == TmFaultSets \subseteq SUBSET TmFault

VARIABLES
  tmPc,      \* createSession, then the state of the session
  tmSocket,  \* of each terminal: as the client knows it
  tmSsh,     \* terminals whose SSH connection or shell is in use
  tmRow,     \* status of the TerminalSession row
  tmAlive,   \* whether a pong, or the start, came after the last ping
  tmEnds,    \* the status cleanup() is to write
  tmVps,     \* whether the VPS is still there
  tmFaults

tmVars == <<tmPc, tmSocket, tmSsh, tmRow, tmAlive, tmEnds, tmVps, tmFaults>>

Opening == {"connecting", "recording", "shell"}

(* A connection is in use exactly while its session has not been cleaned up. *)
TmTypeOK ==
  /\ tmPc \in [Terminal -> Opening \cup {"new", "open", "closing", "ended"}]
  /\ tmSocket \in [Terminal -> {"none", "open", "lost", "closed"}]
  /\ tmSsh = {t \in Terminal : tmPc[t] \in {"recording", "shell", "open"}}
  /\ tmRow \in [Terminal -> {"none", "ACTIVE", "CLOSED", "FAILED"}]
  /\ tmAlive \in [Terminal -> BOOLEAN] /\ tmEnds \in [Terminal -> {"CLOSED", "FAILED"}]
  /\ tmVps \in BOOLEAN /\ tmFaults \in TmFaultSets

TmInit ==
  /\ tmPc = [t \in Terminal |-> "new"] /\ tmSocket = [t \in Terminal |-> "none"]
  /\ tmSsh = {} /\ tmRow = [t \in Terminal |-> "none"]
  /\ tmAlive = [t \in Terminal |-> FALSE] /\ tmEnds = [t \in Terminal |-> "CLOSED"]
  /\ tmVps = TRUE /\ tmFaults \in TmFaultSets

------------------------------------------------------------------------------
TmGoes(t, pc) == tmPc' = [tmPc EXCEPT ![t] = pc]
Hangs(t) == [tmSocket EXCEPT ![t] = IF @ = "open" THEN "closed" ELSE @]

(* cleanup(): the connection is given up at once, the row is written later. *)
Cleanup(t, status) ==
  /\ TmGoes(t, "closing") /\ tmEnds' = [tmEnds EXCEPT ![t] = status]
  /\ tmSsh' = tmSsh \ {t}

(* The catch block of createSession: a terminal:error, cleanup, close. *)
OpeningFails(t) ==
  /\ Cleanup(t, "FAILED") /\ tmSocket' = Hangs(t)
  /\ UNCHANGED <<tmRow, tmAlive, tmVps, tmFaults>>

TmOpen(t) ==
  /\ tmPc[t] = "new" /\ tmVps
  /\ TmGoes(t, "connecting") /\ tmSocket' = [tmSocket EXCEPT ![t] = "open"]
  /\ UNCHANGED <<tmSsh, tmRow, tmAlive, tmEnds, tmVps, tmFaults>>

TmConnect(t) ==
  /\ tmPc[t] = "connecting"
  /\ \/ /\ TmGoes(t, "recording") /\ tmSsh' = tmSsh \cup {t}
        /\ UNCHANGED <<tmSocket, tmRow, tmAlive, tmEnds, tmVps, tmFaults>>
     \/ OpeningFails(t)

(* A row needs its VPS. *)
TmRecord(t) ==
  /\ tmPc[t] = "recording"
  /\ \/ /\ tmVps
        /\ TmGoes(t, "shell") /\ tmRow' = [tmRow EXCEPT ![t] = "ACTIVE"]
        /\ UNCHANGED <<tmSocket, tmSsh, tmAlive, tmEnds, tmVps, tmFaults>>
     \/ ~tmVps /\ OpeningFails(t)

(* Only now is somebody told when the socket closes. *)
TmShell(t) ==
  /\ tmPc[t] = "shell"
  /\ \/ /\ TmGoes(t, "open") /\ tmAlive' = [tmAlive EXCEPT ![t] = TRUE]
        /\ UNCHANGED <<tmSocket, tmSsh, tmRow, tmEnds, tmVps, tmFaults>>
     \/ OpeningFails(t)

(* Mutant: alive is reset where the ping is sent. *)
MutBeat(t) ==
  /\ tmPc[t] = "open"
  /\ \/ /\ tmAlive[t] /\ tmSocket[t] = "open" /\ tmAlive' = [tmAlive EXCEPT ![t] = FALSE]
        /\ UNCHANGED <<tmPc, tmSocket, tmSsh, tmEnds>>
     \/ ~tmAlive[t] /\ Cleanup(t, "CLOSED") /\ tmSocket' = Hangs(t) /\ UNCHANGED tmAlive
  /\ UNCHANGED <<tmRow, tmVps, tmFaults>>

(* attachHeartbeat, every 10 s: a ping, or the end if the last one was not answered. *)
Beat(t) ==
  /\ tmPc[t] = "open"
  /\ \/ /\ tmAlive[t] /\ tmAlive' = [tmAlive EXCEPT ![t] = FALSE]
        /\ UNCHANGED <<tmPc, tmSocket, tmSsh, tmEnds>>
     \/ ~tmAlive[t] /\ Cleanup(t, "CLOSED") /\ tmSocket' = Hangs(t) /\ UNCHANGED tmAlive
  /\ UNCHANGED <<tmRow, tmVps, tmFaults>>

Pong(t) ==
  /\ tmPc[t] = "open" /\ tmSocket[t] = "open" /\ ~tmAlive[t]
  /\ tmAlive' = [tmAlive EXCEPT ![t] = TRUE]
  /\ UNCHANGED <<tmPc, tmSocket, tmSsh, tmRow, tmEnds, tmVps, tmFaults>>

(* The client closes its socket: socket.on('close'), if it is there already. *)
Hangup(t) ==
  /\ tmSocket[t] = "open"
  /\ tmSocket' = [tmSocket EXCEPT ![t] = "closed"]
  /\ IF tmPc[t] = "open" THEN Cleanup(t, "CLOSED") ELSE UNCHANGED <<tmPc, tmSsh, tmEnds>>
  /\ UNCHANGED <<tmRow, tmAlive, tmVps, tmFaults>>

ClientLost(t) ==
  /\ "lost" \in tmFaults /\ tmSocket[t] = "open"
  /\ tmSocket' = [tmSocket EXCEPT ![t] = "lost"]
  /\ UNCHANGED <<tmPc, tmSsh, tmRow, tmAlive, tmEnds, tmVps, tmFaults>>

(* The shell exits or its connection breaks: stream.on('close'). *)
ShellEnds(t) ==
  /\ tmPc[t] = "open"
  /\ Cleanup(t, "CLOSED") /\ tmSocket' = Hangs(t)
  /\ UNCHANGED <<tmRow, tmAlive, tmVps, tmFaults>>

(* The update of the row; its failure is ignored. *)
TmSettle(t) ==
  /\ tmPc[t] = "closing"
  /\ TmGoes(t, "ended")
  /\ \/ tmRow' = [tmRow EXCEPT ![t] = IF @ = "ACTIVE" THEN tmEnds[t] ELSE @]
     \/ "row" \in tmFaults /\ UNCHANGED tmRow
  /\ UNCHANGED <<tmSocket, tmSsh, tmAlive, tmEnds, tmVps, tmFaults>>

(* deleteVPS removes the rows of its terminals, also of those that are open. *)
RemoveVps ==
  /\ tmVps /\ tmVps' = FALSE
  /\ tmRow' = [t \in Terminal |-> "none"]
  /\ UNCHANGED <<tmPc, tmSocket, tmSsh, tmAlive, tmEnds, tmFaults>>

(* Connections end with the process; nobody looks for the rows. *)
TmDie ==
  /\ "die" \in tmFaults
  /\ tmPc' = [t \in Terminal |-> IF tmPc[t] = "new" THEN "new" ELSE "ended"]
  /\ tmSsh' = {} /\ tmSocket' = [t \in Terminal |-> IF tmPc[t] = "new" THEN "none" ELSE "closed"]
  /\ UNCHANGED <<tmRow, tmAlive, tmEnds, tmVps, tmFaults>>

(* Connects have a timeout, a shell is answered or its connection breaks. *)
TmProceed(t) == TmConnect(t) \/ TmRecord(t) \/ TmShell(t) \/ Beat(t) \/ TmSettle(t)

TmNext ==
  \/ RemoveVps \/ TmDie
  \/ \E t \in Terminal : TmOpen(t) \/ TmProceed(t) \/ Pong(t) \/ Hangup(t) \/ ClientLost(t) \/ ShellEnds(t)

TmSpec == TmInit /\ [][TmNext]_tmVars /\ \A t \in Terminal : WF_tmVars(TmProceed(t))

------------------------------------------------------------------------------
(* The property.                                                           *)

(* The connection and, unless its update fails or the process dies, the row. *)
TerminalIsOver(t) ==
  /\ tmPc[t] = "ended" /\ t \notin tmSsh
  /\ tmFaults \cap {"row", "die"} = {} => tmRow[t] # "ACTIVE"

(* A terminal whose client has gone, with or without a word, and also before anybody
   listened for it, gives its SSH connection back and its row says so.      *)
TerminalsEnd == \A t \in Terminal : <>[](tmSocket[t] \in {"lost", "closed"} => TerminalIsOver(t))
==============================================================================
