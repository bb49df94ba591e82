---------------------------- MODULE DomainBinding ----------------------------
(***************************************************************************)
(* One domain name, the projects that claim it, their route files, and the *)
(* verification of its certificate (domain.service.ts, tls-verification.    *)
(* service.ts, tls.worker.ts, and the host that runs and rollbacks choose in*)
(* deployment.service.ts and rollback.service.ts).  Four stores are changed *)
(* one after the other: the route file on the VPS, the Domain row, the      *)
(* domain column of a deployment, and the job of the verification queue.    *)
(***************************************************************************)
EXTENDS Integers

CONSTANTS
  DomProject,
  DomNobody,
  DomClient,       \* those who attach, remove and verify the domain
  DomOn,           \* the project each of them works on
  DomAsking,       \* bound: the clients that ask anything, which may depend on the faults
  DomAttempts,     \* attempts of a verification (8 in the code)
  MaxActivations,
  DomRuns,         \* bound: runs of each project, which may depend on the faults
  DomFaultSets     \* each behaviour admits one of these subsets of DomFault

(* meet:     two requests on one project are answered at once
   overlap:  a request on a project while it runs a deployment or before its
             first one; neither takes the lock of the other
   race:     two projects claim the name at once
   inherit:  the domain is removed while another deployment than that of its row is live
   rollback: releases are rolled back
   life:     deployments are stopped, paused and started by hand
   late:     a run or a rollback fails after the commit of its activation
   rebind:   the row is reset while a verification has its result already
   die:      a request dies, or loses its connection, between two of its steps *)
DomFault == {"meet", "overlap", "race", "inherit", "rollback", "life", "late", "rebind", "die"}

ASSUME DomBounds == DomAttempts \in Nat \ {0} /\ MaxActivations \in Nat
ASSUME DomNobodyAssumption == DomNobody \notin DomProject
ASSUME DomOnAssumption == DomOn \in [DomClient -> DomProject]
ASSUME DomAskingAssumption == DomAsking \in [SUBSET DomFault -> SUBSET DomClient]
ASSUME DomFaultAssumption == DomFaultSets \subseteq SUBSET DomFault
ASSUME DomRunsAssumption == DomRuns \in [SUBSET DomFault -> [DomProject -> 0..MaxActivations]]

VARIABLES
  domRow,      \* the Domain row, with the project and the deployment it belongs to
  domProved,   \* history: a certificate was found good since the last binding
  domMade,     \* the deployments of each project that have gone live are 1..domMade
  domActive,   \* the one whose release is active; 0 is none
  domPrevious, \* the one shown as RUNNING or ROLLED_BACK that was updated last; 0 is none
  domKept,     \* the domain column of each deployment
  domRoute,    \* the route file of each project: its host, the release it leads to
  domRun,      \* the run or rollback of each project, with the host it has chosen
  domCall,     \* the request of each client, with what it has read
  domJob,      \* the job tls-<domain>
  domFaults

projectVars == <<domMade, domActive, domPrevious, domKept, domRoute, domRun, domCall, domFaults>>
domVars == <<domRow, domProved, domJob, projectVars>>

DomHost == {"own", "name"}

(* owner: the deployment whose column is to change, as read when the request began;
   seen: the active release that updateDomainRoute has read.               *)
DomCallSet ==
  [op : {"attach", "remove", "issue"}, pc : {"idle", "begun", "read", "routed", "cut", "queue"},
   owner : 0..MaxActivations, seen : 0..MaxActivations]

DomRunSet ==
  [kind : {"named", "plain", "rollback"}, pc : {"idle", "building", "persist", "queue", "ending"},
   host : DomHost, release : 0..MaxActivations]

DomTypeOK ==
  /\ domRow \in [status : {"none", "ACTIVE", "DELETED"}, ssl : {"PENDING", "ISSUED", "FAILED"},
                 bound : DomProject \cup {DomNobody}, owner : 0..MaxActivations]
  /\ domProved \in BOOLEAN
  /\ domMade \in [DomProject -> 0..MaxActivations] /\ domActive \in [DomProject -> 0..MaxActivations]
  /\ domPrevious \in [DomProject -> 0..MaxActivations]
  /\ domKept \in [DomProject -> [1..MaxActivations -> DomHost \cup {"none"}]]
  /\ domRoute \in [DomProject -> [host : DomHost, release : 0..MaxActivations]]
  /\ domRun \in [DomProject -> DomRunSet]
  /\ domCall \in [DomClient -> DomCallSet]
  /\ domJob \in [pc : {"none", "waiting", "inspect", "good", "error", "acked", "failed"}, tries : 0..DomAttempts]
  /\ domFaults \in DomFaultSets

DomNoCall == [op |-> "issue", pc |-> "idle", owner |-> 0, seen |-> 0]
DomNoRun == [kind |-> "plain", pc |-> "idle", host |-> "own", release |-> 0]

DomInit ==
  /\ domRow = [status |-> "none", ssl |-> "PENDING", bound |-> DomNobody, owner |-> 0] /\ domProved = FALSE
  /\ domMade = [p \in DomProject |-> 0] /\ domActive = [p \in DomProject |-> 0]
  /\ domPrevious = [p \in DomProject |-> 0]
  /\ domKept = [p \in DomProject |-> [d \in 1..MaxActivations |-> "none"]]
  /\ domRoute = [p \in DomProject |-> [host |-> "own", release |-> 0]]
  /\ domRun = [p \in DomProject |-> DomNoRun]
  /\ domCall = [c \in DomClient |-> DomNoCall]
  /\ domJob = [pc |-> "none", tries |-> 0]
  /\ domFaults \in DomFaultSets

------------------------------------------------------------------------------
NoConflict(p) == domRow.bound \in {p, DomNobody}

DomBound(p) == domRow.status = "ACTIVE" /\ domRow.bound = p

DomAwake(c) == domCall[c].pc # "idle"

DomCalling(p) == \E c \in DomClient : DomOn[c] = p /\ DomAwake(c)

DomClaiming(p) ==
  \/ \E c \in DomClient : DomOn[c] = p /\ domCall[c].op = "attach" /\ domCall[c].pc \in {"begun", "read", "routed"}
  \/ domRun[p].pc # "idle" /\ domRun[p].kind = "named"

NobodyElseClaims(p) == "race" \in domFaults \/ \A q \in DomProject \ {p} : ~DomClaiming(q)

DomCallGoes(c, pc) == domCall' = [domCall EXCEPT ![c].pc = pc]

DomCallEnds(c) == domCall' = [domCall EXCEPT ![c] = DomNoCall]

(* What is left to do is to have the certificate verified. *)
DomCallWaits(c) == domCall' = [domCall EXCEPT ![c] = [DomNoCall EXCEPT !.pc = "queue"]]

DomRunGoes(p, pc) == domRun' = [domRun EXCEPT ![p].pc = pc]

DomRunEnds(p) == domRun' = [domRun EXCEPT ![p] = DomNoRun]

(* The column of a deployment that has gone live. *)
Keeps(p, d, host) == domKept' = [domKept EXCEPT ![p][d] = host]

(* The row becomes ACTIVE and PENDING again. *)
DomBind(p, owner) ==
  /\ domJob.pc \in {"good", "error", "acked"} => "rebind" \in domFaults
  /\ domRow' = [status |-> "ACTIVE", ssl |-> "PENDING", bound |-> p, owner |-> owner]
  /\ domProved' = FALSE

(* A live job of the domain is used again, also when it is about to end. *)
queueTLSVerification ==
  domJob' = IF domJob.pc \in {"none", "failed"} THEN [pc |-> "waiting", tries |-> 0] ELSE domJob

------------------------------------------------------------------------------
(* Requests.                                                               *)

(* Nothing but the fault holds requests back: no request takes a lock. *)
DomMayCall(c) ==
  c \in DomAsking[domFaults] /\ ~DomAwake(c) /\ (DomCalling(DomOn[c]) => "meet" \in domFaults)

(* attachDomain and removeDomain, up to the commands on the VPS: without an active
   release there is no route to write.                                     *)
DomCallBegins(c, op, owner) ==
  domCall' = [domCall EXCEPT ![c] =
    [op |-> op, pc |-> IF domActive[DomOn[c]] = 0 THEN "routed" ELSE "begun", owner |-> owner, seen |-> 0]]

Attach(c) ==
  LET p == DomOn[c] IN
  /\ DomMayCall(c) /\ NoConflict(p) /\ NobodyElseClaims(p)
  /\ domRun[p].pc # "idle" \/ domActive[p] = 0 => "overlap" \in domFaults
  /\ DomCallBegins(c, "attach", domActive[p])
  /\ UNCHANGED <<domRow, domProved, domMade, domActive, domPrevious, domKept, domRoute, domRun, domJob, domFaults>>

Detach(c) ==
  LET p == DomOn[c] IN
  /\ DomMayCall(c) /\ domRow.bound = p
  /\ domRun[p].pc # "idle" \/ domActive[p] = 0 => "overlap" \in domFaults
  /\ domRow.owner # domActive[p] => {"inherit", "overlap"} \cap domFaults # {}
  /\ DomCallBegins(c, "remove", domRow.owner)
  /\ UNCHANGED <<domRow, domProved, domMade, domActive, domPrevious, domKept, domRoute, domRun, domJob, domFaults>>

(* updateDomainRoute reads the active release again and writes the route; it puts
   the old file back when the gateway does not answer.                     *)
CallReads(c) ==
  /\ domCall[c].pc = "begun"
  /\ domCall' = [domCall EXCEPT ![c].pc = "read", ![c].seen = domActive[DomOn[c]]]
  /\ UNCHANGED <<domRow, domProved, domMade, domActive, domPrevious, domKept, domRoute, domRun, domJob, domFaults>>

CallRoutes(c) ==
  /\ domCall[c].pc = "read"
  /\ \/ /\ domRoute' = [domRoute EXCEPT ![DomOn[c]] =
             [host |-> IF domCall[c].op = "attach" THEN "name" ELSE "own", release |-> domCall[c].seen]]
        /\ domCall' = [domCall EXCEPT ![c].pc = "routed", ![c].seen = 0]
     \/ DomCallEnds(c) /\ UNCHANGED domRoute
  /\ UNCHANGED <<domRow, domProved, domMade, domActive, domPrevious, domKept, domRun, domJob, domFaults>>

(* One transaction; a conflict that it finds leaves the route as it is. *)
AttachBind(c) ==
  LET p == DomOn[c] IN
  /\ domCall[c].op = "attach" /\ domCall[c].pc = "routed"
  /\ IF NoConflict(p)
       THEN /\ DomBind(p, domCall[c].owner) /\ DomCallWaits(c)
            /\ IF domCall[c].owner = 0 THEN UNCHANGED domKept ELSE Keeps(p, domCall[c].owner, "name")
       ELSE DomCallEnds(c) /\ UNCHANGED <<domRow, domProved, domKept>>
  /\ UNCHANGED <<domMade, domActive, domPrevious, domRoute, domRun, domJob, domFaults>>

DetachRow(c) ==
  /\ domCall[c].op = "remove" /\ domCall[c].pc = "routed"
  /\ domRow' = [domRow EXCEPT !.status = "DELETED"]
  /\ DomCallGoes(c, "cut")
  /\ UNCHANGED <<domProved, domMade, domActive, domPrevious, domKept, domRoute, domRun, domJob, domFaults>>

(* Mutant: the deployment keeps the domain on record. *)
MutDetachColumn(c) ==
  /\ domCall[c].pc = "cut"
  /\ DomCallEnds(c)
  /\ UNCHANGED <<domRow, domProved, domMade, domActive, domPrevious, domKept, domRoute, domRun, domJob, domFaults>>

(* Only the deployment that the row belonged to forgets the name. *)
DetachColumn(c) ==
  LET p == DomOn[c] owner == domCall[c].owner IN
  /\ domCall[c].pc = "cut"
  /\ IF owner # 0 /\ domKept[p][owner] = "name" THEN Keeps(p, owner, "none") ELSE UNCHANGED domKept
  /\ DomCallEnds(c)
  /\ UNCHANGED <<domRow, domProved, domMade, domActive, domPrevious, domRoute, domRun, domJob, domFaults>>

IssueSSL(c) ==
  /\ DomMayCall(c) /\ DomBound(DomOn[c])
  /\ DomBind(DomOn[c], domRow.owner)
  /\ DomCallWaits(c)
  /\ UNCHANGED <<domMade, domActive, domPrevious, domKept, domRoute, domRun, domJob, domFaults>>

CallQueues(c) ==
  /\ domCall[c].pc = "queue"
  /\ queueTLSVerification
  /\ DomCallEnds(c)
  /\ UNCHANGED <<domRow, domProved, domMade, domActive, domPrevious, domKept, domRoute, domRun, domFaults>>

CallDies(c) ==
  /\ "die" \in domFaults /\ DomAwake(c)
  /\ DomCallEnds(c)
  /\ UNCHANGED <<domRow, domProved, domMade, domActive, domPrevious, domKept, domRoute, domRun, domJob, domFaults>>

------------------------------------------------------------------------------
(* Runs and rollbacks.                                                     *)

HostOf(p, d) == IF d = 0 THEN "none" ELSE domKept[p][d]

OrElse(host, other) == IF host = "none" THEN other ELSE host

DomMayRun(p) == domRun[p].pc = "idle" /\ (DomCalling(p) => "overlap" \in domFaults)

DomRunBegins(p, kind, release, host) ==
  /\ domRun' = [domRun EXCEPT ![p] = [kind |-> kind, pc |-> "building", host |-> host, release |-> release]]
  /\ UNCHANGED <<domRow, domProved, domMade, domActive, domPrevious, domKept, domRoute, domCall, domJob, domFaults>>

(* validateDomainSelection when it is requested; without a name of its own the run
   takes the host of the deployment that is shown to run.                  *)
DomDeploy(p, named) ==
  /\ DomMayRun(p) /\ domMade[p] < DomRuns[domFaults][p]
  /\ named => NoConflict(p) /\ NobodyElseClaims(p)
  /\ IF named THEN DomRunBegins(p, "named", domMade[p] + 1, "name")
              ELSE DomRunBegins(p, "plain", domMade[p] + 1, OrElse(HostOf(p, domPrevious[p]), "own"))

(* executeRollback keeps the host of the live deployment, or takes that of its target. *)
DomRoll(p, target) ==
  /\ "rollback" \in domFaults /\ DomMayRun(p)
  /\ target <= domMade[p] /\ target # domActive[p]
  /\ DomRunBegins(p, "rollback", target, OrElse(HostOf(p, domActive[p]), OrElse(HostOf(p, target), "own")))

(* A deployment has the name it was asked for in its column from the start. *)
DomCommits(p) ==
  LET r == domRun[p].release IN
  /\ domActive' = [domActive EXCEPT ![p] = r]
  /\ domMade' = IF domRun[p].kind = "rollback" THEN domMade ELSE [domMade EXCEPT ![p] = r]

DomActivates(p) ==
  LET r == domRun[p].release IN
  /\ domRun[p].pc = "building"
  /\ DomCommits(p)
  /\ domRoute' = [domRoute EXCEPT ![p] = [host |-> domRun[p].host, release |-> r]]
  /\ IF domRun[p].kind = "named" THEN Keeps(p, r, "name") ELSE UNCHANGED domKept
  /\ DomRunGoes(p, IF domRun[p].kind = "named" THEN "persist" ELSE "ending")
  /\ UNCHANGED <<domRow, domProved, domPrevious, domCall, domJob, domFaults>>

(* A failure before the commit changes nothing here; after the commit the old
   route comes back and the release stays active.                          *)
DomActivateFails(p) ==
  /\ domRun[p].pc = "building"
  /\ \/ UNCHANGED <<domActive, domMade>>
     \/ "late" \in domFaults /\ DomCommits(p)
  /\ DomRunEnds(p)
  /\ UNCHANGED <<domRow, domProved, domPrevious, domKept, domRoute, domCall, domJob, domFaults>>

(* persistDomainBinding takes the row from whoever has it. *)
DomDeployBinds(p) ==
  /\ domRun[p].pc = "persist"
  /\ DomBind(p, domRun[p].release)
  /\ DomRunGoes(p, "queue")
  /\ UNCHANGED <<domMade, domActive, domPrevious, domKept, domRoute, domCall, domJob, domFaults>>

DomDeployQueues(p) ==
  /\ domRun[p].pc = "queue"
  /\ queueTLSVerification
  /\ DomRunGoes(p, "ending")
  /\ UNCHANGED <<domRow, domProved, domMade, domActive, domPrevious, domKept, domRoute, domCall, domFaults>>

(* The statuses, and the column of a run; a rollback leaves that of its target. *)
DomRunShows(p) ==
  LET r == domRun[p].release IN
  /\ domRun[p].pc = "ending"
  /\ domPrevious' = [domPrevious EXCEPT ![p] = r]
  /\ IF domRun[p].kind = "rollback" THEN UNCHANGED domKept ELSE Keeps(p, r, domRun[p].host)
  /\ DomRunEnds(p)
  /\ UNCHANGED <<domRow, domProved, domMade, domActive, domRoute, domCall, domJob, domFaults>>

(* The run forgets the name it was asked for; the traffic stays where it is. *)
DomRunFails(p) ==
  LET r == domRun[p].release IN
  /\ "late" \in domFaults /\ domRun[p].pc \in {"persist", "queue", "ending"}
  /\ IF domRun[p].kind = "rollback" THEN UNCHANGED domKept ELSE Keeps(p, r, "none")
  /\ domRow' = IF domRun[p].kind = "named" /\ domRow.bound = p /\ domRow.owner = r
                 THEN [domRow EXCEPT !.status = "DELETED"] ELSE domRow
  /\ DomRunEnds(p)
  /\ UNCHANGED <<domProved, domMade, domActive, domPrevious, domRoute, domCall, domJob, domFaults>>

(* Another deployment, or none, is now the one that is shown to run and was updated
   last: one is stopped, paused or started, or the row of one that is ROLLED_BACK is
   written while a later one runs.                                         *)
DomLife(p) ==
  /\ {"life", "rollback"} \cap domFaults # {}
  /\ \E d \in 0..domMade[p] : domPrevious' = [domPrevious EXCEPT ![p] = d]
  /\ UNCHANGED <<domRow, domProved, domMade, domActive, domKept, domRoute, domRun, domCall, domJob, domFaults>>

------------------------------------------------------------------------------
(* The verification worker.                                                *)

TlsGoes(pc) == domJob' = [domJob EXCEPT !.pc = pc]

TlsPickUp ==
  /\ domJob.pc = "waiting"
  /\ TlsGoes(IF domRow.status = "ACTIVE" THEN "inspect" ELSE "error")
  /\ UNCHANGED <<domRow, domProved, projectVars>>

(* Mutant: the facts of the certificate are not validated. *)
MutTlsInspect ==
  /\ domJob.pc = "inspect"
  /\ TlsGoes("good")
  /\ UNCHANGED <<domRow, domProved, projectVars>>

(* inspect() and validateFacts(): the server presents a good certificate or not. *)
TlsInspect ==
  /\ domJob.pc = "inspect"
  /\ \/ TlsGoes("good") /\ domProved' = TRUE
     \/ TlsGoes("error") /\ UNCHANGED domProved
  /\ UNCHANGED <<domRow, projectVars>>

TlsIssued ==
  /\ domJob.pc = "good"
  /\ domRow' = [domRow EXCEPT !.ssl = "ISSUED"]
  /\ TlsGoes("acked")
  /\ UNCHANGED <<domProved, projectVars>>

(* Mutant: the last attempt is not told from the others. *)
MutFailureState(tries) == "PENDING"

failureState(tries) == IF tries >= DomAttempts THEN "FAILED" ELSE "PENDING"

TlsMayRetry(tries) == tries < DomAttempts

TlsNotIssued ==
  /\ domJob.pc = "error"
  /\ domRow' = [domRow EXCEPT !.ssl = failureState(domJob.tries + 1)]
  /\ domJob' = [pc |-> IF TlsMayRetry(domJob.tries + 1) THEN "waiting" ELSE "failed", tries |-> domJob.tries + 1]
  /\ UNCHANGED <<domProved, projectVars>>

TlsCompleted ==
  /\ domJob.pc = "acked"
  /\ domJob' = [pc |-> "none", tries |-> 0]
  /\ UNCHANGED <<domRow, domProved, projectVars>>

DomWork == TlsPickUp \/ TlsInspect \/ TlsIssued \/ TlsNotIssued \/ TlsCompleted

DomAnswer(c) ==
  CallReads(c) \/ CallRoutes(c) \/ AttachBind(c) \/ DetachRow(c) \/ DetachColumn(c) \/ CallQueues(c)

DomRelease(p) ==
  \/ DomActivates(p) \/ DomActivateFails(p) \/ DomDeployBinds(p) \/ DomDeployQueues(p)
  \/ DomRunShows(p) \/ DomRunFails(p)

DomAsk(c) == Attach(c) \/ Detach(c) \/ IssueSSL(c) \/ CallDies(c)

DomBegin(p) ==
  \/ \E named \in BOOLEAN : DomDeploy(p, named)
  \/ \E target \in 1..MaxActivations : DomRoll(p, target)
  \/ DomLife(p)

DomNext ==
  \/ DomWork
  \/ \E c \in DomClient : DomAnswer(c) \/ DomAsk(c)
  \/ \E p \in DomProject : DomRelease(p) \/ DomBegin(p)

(* The worker takes its job up again and again; requests and runs that have
   begun go on.                                                            *)
DomFairness ==
  /\ WF_domVars(DomWork)
  /\ \A c \in DomClient : WF_domVars(DomAnswer(c))
  /\ \A p \in DomProject : WF_domVars(DomRelease(p))

DomSpec == DomInit /\ [][DomNext]_domVars /\ DomFairness

------------------------------------------------------------------------------
(* Properties.                                                             *)

(* A domain that is shown as ISSUED has presented a good certificate since it
   was last bound, unless it was bound again after its verification had the
   result and before the result was written.                               *)
IssuedIsVerified == domRow.ssl = "ISSUED" /\ "rebind" \notin domFaults => domProved

(* When nothing is under way on a project its route leads to the active release,
   whatever requests, runs and rollbacks came before, unless a request met a run
   ("overlap") or an activation failed after its commit ("late").
   The host of the route is the domain exactly if the domain is bound to the
   project, also after unnamed runs that took it over, as long as the code keeps
   the column of the right deployment; it does not when
     - requests meet each other or a run, or two projects claim the name at once:
       they write route, row and column one after the other without a lock;
     - a request dies after it wrote the route, or a run fails after it;
     - the domain is removed while another deployment than that of its row is live:
       that one has it on record still and hands it to the next run ("inherit");
     - a rollback: it keeps the host of the live deployment on the route, and the
       column of its target says something else, or names a domain removed since;
     - the live deployment is stopped or paused ("life"): the next unnamed run finds
       nobody to take the domain from, while the row stays ACTIVE.
   There is one name, and no deployment is deleted.  A project that is given a second
   name loses the route of the first, whose row stays ACTIVE if it belongs to an
   earlier deployment.                                                      *)
RouteIsBound ==
  \A p \in DomProject :
    ~DomCalling(p) /\ domRun[p].pc = "idle" =>
      /\ domFaults \cap {"overlap", "late"} = {} => domRoute[p].release = domActive[p]
      /\ domFaults \subseteq {"rebind"} /\ domActive[p] # 0 => (domRoute[p].host = "name" <=> DomBound(p))

(* A verification comes to an end: the domain does not stay PENDING. *)
VerificationEnds ==
  []<>(domFaults \cap {"rebind", "die"} = {} => domRow.ssl # "PENDING" \/ domRow.status # "ACTIVE")
==============================================================================
