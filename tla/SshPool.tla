------------------------------- MODULE SshPool -------------------------------
(***************************************************************************)
(* The SSH connections of one process to one VPS (packages/vps/src/ssh.ts). *)
(* Every operation makes an SSHService, connects, runs commands and          *)
(* disconnects in a finally block.  The class keeps one connection per host  *)
(* and counts who uses it; a count of zero starts a timer that ends it.      *)
(***************************************************************************)
EXTENDS Integers, FiniteSets

CONSTANTS
  SshUser,      \* operations, one after the other each
  MaxClients,   \* bound: connections that are made
  SshFaultSets  \* each behaviour admits one of these subsets of SshFault

(* early:  an operation begins while the connection is still being made
   lose:   the VPS refuses or loses a connection
   forget: an operation ends without disconnect(): the path of a file is
           resolved before the try block (file-manager.service.ts)          *)
SshFault == {"early", "lose", "forget"}

ASSUME SshBounds == IsFiniteSet(SshUser) /\ MaxClients \in Nat
ASSUME SshFaultAssumption == SshFaultSets \subseteq SUBSET SshFault

VARIABLES
  sshPool,      \* the entry of the host: its client, refCount, whether idleTimeout is set
  sshClient,    \* the clients
  sshOp,        \* the operations, and the client each has
  sshCut,       \* history: operations that lost a client to another operation
  sshFaults

sshVars == <<sshPool, sshClient, sshOp, sshCut, sshFaults>>

Clients == 1..MaxClients
NoClient == 0
NoEntry == [client |-> NoClient, refs |-> 0, timer |-> FALSE]
SshIdleOp == [pc |-> "idle", client |-> NoClient]
Users == {u \in SshUser : sshOp[u].pc # "idle"}

(* Nobody is counted twice, and only an unused connection waits for its end. *)
SshTypeOK ==
  /\ sshPool \in [client : 0..MaxClients, refs : 0..Cardinality(SshUser), timer : BOOLEAN]
  /\ sshClient \in [Clients -> {"new", "connecting", "ready", "gone"}]
  /\ sshOp \in [SshUser -> [pc : {"idle", "waiting", "open", "command", "failed"}, client : 0..MaxClients]]
  /\ sshCut \subseteq SshUser /\ sshFaults \in SshFaultSets
  /\ sshPool.client # NoClient => sshClient[sshPool.client] \in {"connecting", "ready"}
  /\ sshPool.timer <=> sshPool.client # NoClient /\ sshPool.refs = 0
  /\ "forget" \in sshFaults \/ sshPool.refs <= Cardinality(Users)

SshInit ==
  /\ sshPool = NoEntry
  /\ sshClient = [c \in Clients |-> "new"]
  /\ sshOp = [u \in SshUser |-> SshIdleOp]
  /\ sshCut = {} /\ sshFaults \in SshFaultSets

------------------------------------------------------------------------------
SshGoes(u, pc) == sshOp' = [sshOp EXCEPT ![u].pc = pc]

(* Mutant: the timer of an idle connection goes on. *)
MutJoin(u) ==
  /\ sshPool' = [sshPool EXCEPT !.refs = @ + 1]
  /\ sshOp' = [sshOp EXCEPT ![u] = [pc |-> "open", client |-> sshPool.client]]

(* connect() with an entry: it returns at once, also when the client is not ready. *)
Join(u) ==
  /\ sshPool' = [sshPool EXCEPT !.refs = @ + 1, !.timer = FALSE]
  /\ sshOp' = [sshOp EXCEPT ![u] = [pc |-> "open", client |-> sshPool.client]]

SshConnect(u) ==
  /\ sshOp[u].pc = "idle"
  /\ \/ /\ sshPool.client # NoClient
        /\ sshPool.refs < Cardinality(SshUser)    \* bound on what was forgotten
        /\ sshClient[sshPool.client] = "connecting" => "early" \in sshFaults
        /\ Join(u) /\ UNCHANGED sshClient
     \/ /\ sshPool.client = NoClient
        /\ \E c \in Clients :
             /\ sshClient[c] = "new" /\ \A b \in Clients : b < c => sshClient[b] # "new"
             /\ sshPool' = [client |-> c, refs |-> 1, timer |-> FALSE]
             /\ sshClient' = [sshClient EXCEPT ![c] = "connecting"]
             /\ sshOp' = [sshOp EXCEPT ![u] = [pc |-> "waiting", client |-> c]]
  /\ UNCHANGED <<sshCut, sshFaults>>

(* The promise of the operation that made the client is settled. *)
Settles(c, pc) ==
  sshOp' = [u \in SshUser |-> IF sshOp[u] = [pc |-> "waiting", client |-> c] THEN [sshOp[u] EXCEPT !.pc = pc] ELSE sshOp[u]]

SshReady(c) ==
  /\ sshClient[c] = "connecting"
  /\ sshClient' = [sshClient EXCEPT ![c] = "ready"]
  /\ Settles(c, "open")
  /\ UNCHANGED <<sshPool, sshCut, sshFaults>>

(* error, timeout, close: cleanupPool removes the entry if it is this client's. *)
SshLost(c) ==
  /\ "lose" \in sshFaults /\ sshClient[c] \in {"connecting", "ready"}
  /\ sshClient' = [sshClient EXCEPT ![c] = "gone"]
  /\ sshPool' = IF sshPool.client = c THEN NoEntry ELSE sshPool
  /\ Settles(c, "failed")
  /\ UNCHANGED <<sshCut, sshFaults>>

(* exec: a client that is not ready, or gone, does not carry it out. *)
SshCommand(u) ==
  /\ sshOp[u].pc = "open"
  /\ SshGoes(u, IF sshClient[sshOp[u].client] = "ready" THEN "command" ELSE "failed")
  /\ sshCut' = IF sshClient[sshOp[u].client] = "connecting" THEN sshCut \cup {u} ELSE sshCut
  /\ UNCHANGED <<sshPool, sshClient, sshFaults>>

(* The channel closes when the command has ended or the connection is gone. *)
SshAnswer(u) ==
  /\ sshOp[u].pc = "command"
  /\ SshGoes(u, IF sshClient[sshOp[u].client] = "ready" THEN "open" ELSE "failed")
  /\ UNCHANGED <<sshPool, sshClient, sshCut, sshFaults>>

(* Mutant: an operation whose connection is not the entry's gives nothing back. *)
MutCountDown(u) ==
  IF sshPool.client = NoClient \/ sshOp[u].pc = "failed" THEN sshPool
  ELSE LET refs == IF sshPool.refs > 1 THEN sshPool.refs - 1 ELSE 0
       IN [sshPool EXCEPT !.refs = refs, !.timer = (refs = 0)]

(* The entry of the host is counted down, whoever's client it has by now. *)
CountDown(u) ==
  IF sshPool.client = NoClient THEN sshPool
  ELSE LET refs == IF sshPool.refs > 1 THEN sshPool.refs - 1 ELSE 0
       IN [sshPool EXCEPT !.refs = refs, !.timer = (refs = 0)]

SshDisconnect(u) ==
  /\ sshOp[u].pc \in {"open", "failed"}
  /\ sshPool' = CountDown(u)
  /\ sshOp' = [sshOp EXCEPT ![u] = SshIdleOp]
  /\ UNCHANGED <<sshClient, sshCut, sshFaults>>

SshForget(u) ==
  /\ "forget" \in sshFaults /\ sshOp[u].pc = "failed"
  /\ sshOp' = [sshOp EXCEPT ![u] = SshIdleOp]
  /\ UNCHANGED <<sshPool, sshClient, sshCut, sshFaults>>

(* 60 s without a user.  A client is ready or refused after 10 s (readyTimeout). *)
SshIdle ==
  /\ sshPool.timer /\ sshClient[sshPool.client] # "connecting"
  /\ sshClient' = [sshClient EXCEPT ![sshPool.client] = "gone"]
  /\ sshCut' = sshCut \cup {u \in SshUser : sshOp[u].client = sshPool.client /\ sshOp[u].pc # "failed"}
  /\ sshPool' = NoEntry
  /\ UNCHANGED <<sshOp, sshFaults>>

(* What goes on without a new operation. *)
SshWork ==
  \/ SshIdle \/ \E c \in Clients : SshReady(c)
  \/ \E u \in SshUser : SshAnswer(u) \/ SshDisconnect(u)

SshNext ==
  \/ SshWork \/ \E c \in Clients : SshLost(c)
  \/ \E u \in SshUser : SshConnect(u) \/ SshCommand(u) \/ SshForget(u)

(* Commands end, operations disconnect, timers fire. *)
SshSpec ==
  /\ SshInit /\ [][SshNext]_sshVars
  /\ WF_sshVars(SshWork)

------------------------------------------------------------------------------
(* Properties.                                                             *)

(* CONTRIBUTING.md:37, the connections are pooled: as long as the VPS keeps its
   connections and nobody joins one too early, no operation loses its client to
   the timer or the disconnect of another one.                             *)
InUseStaysUp == sshFaults \cap {"early", "lose"} = {} => sshCut = {}

(* A connection that nobody uses any more is ended, also after some were lost while
   operations were using them, so that connections do not add up.          *)
UnusedEnds ==
  (<>[](Users = {})) =>
    <>[]("forget" \notin sshFaults => \A c \in Clients : sshClient[c] \in {"new", "gone"})
==============================================================================
