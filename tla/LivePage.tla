------------------------------ MODULE LivePage ------------------------------
(***************************************************************************)
(* What the page of a deployment shows.  The page polls the row and listens *)
(* on a WebSocket (useDeploymentStatusStream); the API sends the row when    *)
(* the connection is made and then every change that its own process writes *)
(* (routes/ws.ts, the listener in app.ts).  What the socket has told covers  *)
(* what the poll finds.  A row is the number of its last change.             *)
(***************************************************************************)
EXTENDS Integers, FiniteSets

CONSTANTS
  PgPage,       \* the pages one user has open
  PgLimit,      \* connections of a user at a time: MAX_WS_PER_USER
  PgAttempts,   \* attempts to connect again: 5
  MaxChanges,   \* bound: changes of the row
  MaxBreaks,    \* bound: restarts of the API and lost connections
  PgFaultSets   \* each behaviour admits one of these subsets of PgFault

(* unheard: the worker process, or an updateMany of the API, changes the row
   race:    requests change it at the same time, or while it is read for a socket
   leave:   a connection ends while the API still sets it up                *)
PgFault == {"unheard", "race", "leave"}

ASSUME PgBounds ==
  /\ IsFiniteSet(PgPage)
  /\ PgLimit \in Nat \ {0} /\ PgAttempts \in Nat /\ MaxChanges \in Nat \ {0} /\ MaxBreaks \in Nat
ASSUME PgFaultAssumption == PgFaultSets \subseteq SUBSET PgFault

VARIABLES
  pgRow,      \* the row
  pgEvents,   \* changes written by the API whose event is still to come
  pgSock,     \* of each page: its connection, the attempts since it last opened,
              \* the row read for it and the last one sent
  pgLive,     \* what the socket has told each page, or Nothing
  pgPolled,   \* what the poll has told it
  pgUp,       \* whether the API runs
  pgSlots,    \* userConnectionCounts of the user
  pgLeaked,   \* history: how many of these have no connection any more
  pgBreaks, pgFaults

pgVars == <<pgRow, pgEvents, pgSock, pgLive, pgPolled, pgUp, pgSlots, pgLeaked, pgBreaks, pgFaults>>

Nothing == 0
NoSock(pc) == [pc |-> pc, tries |-> 0, read |-> Nothing, last |-> Nothing]
SettingUp == {"counted", "read"}     \* has a slot and a listener, but no close handler
Listening == SettingUp \cup {"open"}
Connected == Listening \cup {"asked"}

(* The user's count is that of the connections that listen and of the lost ones. *)
PgTypeOK ==
  /\ pgRow \in 1..MaxChanges /\ pgEvents \subseteq 1..MaxChanges
  /\ pgSock \in [PgPage -> [pc : Connected \cup {"closed", "gaveUp", "left"}, tries : 0..PgAttempts,
                            read : 0..MaxChanges, last : 0..MaxChanges]]
  /\ pgLive \in [PgPage -> 0..MaxChanges] /\ pgPolled \in [PgPage -> 0..MaxChanges]
  /\ pgUp \in BOOLEAN /\ pgBreaks \in 0..MaxBreaks /\ pgFaults \in PgFaultSets
  /\ pgSlots \in 0..PgLimit
  /\ pgSlots = pgLeaked + Cardinality({p \in PgPage : pgSock[p].pc \in Listening})

PgInit ==
  /\ pgRow = 1 /\ pgEvents = {}
  /\ pgSock = [p \in PgPage |-> NoSock("left")]
  /\ pgLive = [p \in PgPage |-> Nothing] /\ pgPolled = [p \in PgPage |-> Nothing]
  /\ pgUp = TRUE /\ pgSlots = 0 /\ pgLeaked = 0 /\ pgBreaks = 0
  /\ pgFaults \in PgFaultSets

------------------------------------------------------------------------------
(* The row and the events.                                                 *)

PgChange ==
  /\ pgUp /\ pgRow < MaxChanges
  /\ "race" \in pgFaults \/ (pgEvents = {} /\ \A p \in PgPage : pgSock[p].pc # "read")
  /\ pgRow' = pgRow + 1 /\ pgEvents' = pgEvents \cup {pgRow'}
  /\ UNCHANGED <<pgSock, pgLive, pgPolled, pgUp, pgSlots, pgLeaked, pgBreaks, pgFaults>>

(* onStatusUpdated of every connection: sent if it differs from the last one sent. *)
PgEvent(v) ==
  /\ v \in pgEvents
  /\ pgEvents' = pgEvents \ {v}
  /\ LET told == {p \in PgPage : pgSock[p].pc \in Listening /\ pgSock[p].last # v}
     IN /\ pgSock' = [p \in PgPage |-> IF p \in told THEN [pgSock[p] EXCEPT !.last = v] ELSE pgSock[p]]
        /\ pgLive' = [p \in PgPage |-> IF p \in told THEN v ELSE pgLive[p]]
  /\ UNCHANGED <<pgRow, pgPolled, pgUp, pgSlots, pgLeaked, pgBreaks, pgFaults>>

(* The worker is a process of its own: no listener hears of its writes.  Nor does the
   API's listener take updateMany for a change (a domain that is removed).  *)
UnheardChange ==
  /\ "unheard" \in pgFaults /\ pgRow < MaxChanges
  /\ pgRow' = pgRow + 1
  /\ UNCHANGED <<pgEvents, pgSock, pgLive, pgPolled, pgUp, pgSlots, pgLeaked, pgBreaks, pgFaults>>

------------------------------------------------------------------------------
(* The connection of a page.                                               *)

PgGoes(p, pc) == pgSock' = [pgSock EXCEPT ![p].pc = pc]

(* onclose of the page: it tries again unless it has tried too often. *)
AfterClose(p, tries) ==
  IF tries < PgAttempts THEN [NoSock("closed") EXCEPT !.tries = tries + 1] ELSE NoSock("gaveUp")

(* The end of a connection: its close handler gives the slot back, if it has one yet. *)
EndsWith(p, sock) ==
  /\ pgSock' = [pgSock EXCEPT ![p] = sock]
  /\ pgSlots' = IF pgSock[p].pc = "open" THEN pgSlots - 1 ELSE pgSlots
  /\ pgLeaked' = IF pgSock[p].pc \in SettingUp THEN pgLeaked + 1 ELSE pgLeaked
  /\ pgSock[p].pc \in SettingUp => "leave" \in pgFaults

Visit(p) ==
  /\ pgSock[p].pc = "left"
  /\ PgGoes(p, "closed")
  /\ UNCHANGED <<pgRow, pgEvents, pgLive, pgPolled, pgUp, pgSlots, pgLeaked, pgBreaks, pgFaults>>

Leave(p) ==
  /\ pgSock[p].pc # "left"
  /\ EndsWith(p, NoSock("left"))
  /\ pgLive' = [pgLive EXCEPT ![p] = Nothing] /\ pgPolled' = [pgPolled EXCEPT ![p] = Nothing]
  /\ UNCHANGED <<pgRow, pgEvents, pgUp, pgBreaks, pgFaults>>

PgConnect(p) ==
  /\ pgSock[p].pc = "closed"
  /\ IF pgUp THEN pgSock' = [pgSock EXCEPT ![p] = NoSock("asked")]
             ELSE pgSock' = [pgSock EXCEPT ![p] = AfterClose(p, pgSock[p].tries)]
  /\ UNCHANGED <<pgRow, pgEvents, pgLive, pgPolled, pgUp, pgSlots, pgLeaked, pgBreaks, pgFaults>>

(* acquireWsSlot, and the listener; without a slot the API closes the connection. *)
TakeSlot(p) ==
  /\ pgSock[p].pc = "asked"
  /\ IF pgSlots < PgLimit
       THEN PgGoes(p, "counted") /\ pgSlots' = pgSlots + 1
       ELSE pgSock' = [pgSock EXCEPT ![p] = AfterClose(p, 0)] /\ UNCHANGED pgSlots
  /\ UNCHANGED <<pgRow, pgEvents, pgLive, pgPolled, pgUp, pgLeaked, pgBreaks, pgFaults>>

(* sendStatus reads the row .. *)
PgRead(p) ==
  /\ pgSock[p].pc = "counted"
  /\ pgSock' = [pgSock EXCEPT ![p].pc = "read", ![p].read = pgRow]
  /\ UNCHANGED <<pgRow, pgEvents, pgLive, pgPolled, pgUp, pgSlots, pgLeaked, pgBreaks, pgFaults>>

(* Mutant: a connection that replaces a lost one is sent changes only. *)
MutSendStatus(p) ==
  /\ pgSock[p].pc = "read"
  /\ pgSock' = [pgSock EXCEPT ![p] = [NoSock("open") EXCEPT !.last = pgSock[p].read]]
  /\ pgLive' = [pgLive EXCEPT ![p] = IF pgLive[p] = Nothing THEN pgSock[p].read ELSE pgLive[p]]
  /\ UNCHANGED <<pgRow, pgEvents, pgPolled, pgUp, pgSlots, pgLeaked, pgBreaks, pgFaults>>

(* .. and sends it if it differs; only then the close handler is there. *)
SendStatus(p) ==
  /\ pgSock[p].pc = "read"
  /\ pgSock' = [pgSock EXCEPT ![p] = [NoSock("open") EXCEPT !.last = pgSock[p].read]]
  /\ pgLive' = [pgLive EXCEPT ![p] = IF pgSock[p].read # pgSock[p].last THEN pgSock[p].read ELSE pgLive[p]]
  /\ UNCHANGED <<pgRow, pgEvents, pgPolled, pgUp, pgSlots, pgLeaked, pgBreaks, pgFaults>>

Breaks(p) ==
  /\ pgSock[p].pc \in Connected /\ pgBreaks < MaxBreaks
  /\ EndsWith(p, AfterClose(p, 0))
  /\ pgBreaks' = pgBreaks + 1
  /\ UNCHANGED <<pgRow, pgEvents, pgLive, pgPolled, pgUp, pgFaults>>

(* The end of the API process ends all connections, counts and listeners with it. *)
ApiDies ==
  /\ pgUp /\ pgBreaks < MaxBreaks
  /\ pgUp' = FALSE /\ pgBreaks' = pgBreaks + 1
  /\ pgSock' = [p \in PgPage |-> IF pgSock[p].pc \in Connected THEN AfterClose(p, 0) ELSE pgSock[p]]
  /\ pgEvents' = {} /\ pgSlots' = 0 /\ pgLeaked' = 0
  /\ UNCHANGED <<pgRow, pgLive, pgPolled, pgFaults>>

ApiStarts ==
  /\ ~pgUp /\ pgUp' = TRUE
  /\ UNCHANGED <<pgRow, pgEvents, pgSock, pgLive, pgPolled, pgSlots, pgLeaked, pgBreaks, pgFaults>>

(* useDeployment asks every 3 or 15 seconds. *)
Poll(p) ==
  /\ pgUp /\ pgSock[p].pc # "left" /\ pgPolled[p] # pgRow
  /\ pgPolled' = [pgPolled EXCEPT ![p] = pgRow]
  /\ UNCHANGED <<pgRow, pgEvents, pgSock, pgLive, pgUp, pgSlots, pgLeaked, pgBreaks, pgFaults>>

PgProceed(p) == PgConnect(p) \/ TakeSlot(p) \/ PgRead(p) \/ SendStatus(p)
PgServer == ApiStarts \/ \E v \in pgEvents : PgEvent(v)

PgNext ==
  \/ PgChange \/ UnheardChange \/ ApiDies \/ PgServer
  \/ \E p \in PgPage : Visit(p) \/ Leave(p) \/ PgProceed(p) \/ Breaks(p) \/ Poll(p)

(* Timers fire, queries are answered, events are handled, the API is restarted. *)
PgSpec ==
  /\ PgInit /\ [][PgNext]_pgVars
  /\ WF_pgVars(PgServer) /\ \A p \in PgPage : WF_pgVars(PgProceed(p)) /\ WF_pgVars(Poll(p))

------------------------------------------------------------------------------
(* Properties.                                                             *)

(* current in deployments/[id]/page.tsx. *)
ShownOn(p) == IF pgLive[p] # Nothing THEN pgLive[p] ELSE pgPolled[p]

(* Excused is a page that has given up, or whose user has lost slots. *)
ShowsRow(p) == ShownOn(p) \in {Nothing, pgRow} \/ pgSock[p].pc = "gaveUp" \/ pgLeaked > 0

(* docs/API.md:199, "Live deployment state": when the deployment changes no more,
   every page that is connected comes to show the row as it is.            *)
PageIsCurrent == \A p \in PgPage : <>[]ShowsRow(p)

(* The same for the changes that the listener hears, one after the other: neither
   lost connections nor a restart of the API leave a page behind.          *)
StatusReachesPage ==
  \A p \in PgPage : <>[](pgFaults \cap {"unheard", "race"} = {} => ShowsRow(p))
==============================================================================
