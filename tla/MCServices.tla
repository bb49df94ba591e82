------------------------------ MODULE MCServices ------------------------------
(***************************************************************************)
(* The services around a release, each checked by itself in one run: a      *)
(* behaviour chooses a service and takes only that service's steps, so the  *)
(* states of the services add up instead of multiplying.                    *)
(***************************************************************************)
EXTENDS DeploymentJob, Capacity, Retention, GatewayOperation, DomainBinding, Lifecycle, WebhookPush,
        CommandRunner, SshPool, LivePage, TerminalSession, ServerHealth

VARIABLE service

Service ==
  {"jobs", "capacity", "retention", "gateway", "domains", "lifecycle", "webhook",
   "command", "ssh", "page", "terminal", "health"}

(* Two projects; the second deployment of the first one asks for another size. *)
MCProjectOf == [d \in CapDeployment |-> IF d = "b1" THEN "b" ELSE "a"]
MCMemory == [d \in CapDeployment |-> IF d = "a2" THEN 4 ELSE 3]
MCStorage == [d \in CapDeployment |-> IF d = "a2" THEN 2 ELSE 4]

(* Three releases where nothing fails, two elsewhere. *)
MCRetRuns == [F \in SUBSET RetFault |-> IF F = {} THEN 3 ELSE 2]

(* Two deployments where commands fail or requests meet a run at every step, three elsewhere. *)
MCLifeRuns == [F \in SUBSET LifeFault |-> IF F \in {{"ssh"}, {"overlap"}} THEN 2 ELSE 3]

(* Two clients of the first project, whose requests "meet", or one of each project. *)
MCDomOn == [c \in DomClient |-> IF c = "c3" THEN "c1" ELSE c]
MCDomAsking ==
  [F \in SUBSET DomFault |->
     CASE F = {"meet"} -> {"c1", "c3"} [] F = {} -> {"c1", "c2"} [] OTHER -> {"c1"}]
MCDomRuns ==
  [F \in SUBSET DomFault |-> [p \in DomProject |->
     IF p = "c1" THEN IF F \in {{"race"}, {"overlap"}, {"meet"}} THEN 1 ELSE 2 ELSE IF F \in {{}, {"race"}} THEN 1 ELSE 0]]

(* The faults of a service that rests do not matter. *)
Resting(S, faults, sets) == service # S => faults = CHOOSE F \in sets : TRUE

Init ==
  /\ service \in Service
  /\ JobInit /\ Resting("jobs", dfaults, FaultSets)
  /\ CapInit /\ Resting("capacity", capFaults, CapFaultSets)
  /\ RetInit /\ Resting("retention", retFaults, RetFaultSets)
  /\ GwInit /\ Resting("gateway", gwFaults, GwFaultSets)
  /\ DomInit /\ Resting("domains", domFaults, DomFaultSets)
  /\ LifeInit /\ Resting("lifecycle", lifeFaults, LifeFaultSets)
  /\ HookInit /\ Resting("webhook", hookFaults, HookFaultSets)
  /\ CrInit /\ Resting("command", crFaults, CrFaultSets)
  /\ SshInit /\ Resting("ssh", sshFaults, SshFaultSets)
  /\ PgInit /\ Resting("page", pgFaults, PgFaultSets)
  /\ TmInit /\ Resting("terminal", tmFaults, TmFaultSets)
  /\ ShInit /\ Resting("health", shFaults, ShFaultSets)

(* The variables of the services around a release, and of those that carry them. *)
releaseVars == <<jobVars, capVars, retVars, gwVars, domVars, lifeVars, hookVars>>
accessVars == <<crVars, sshVars, pgVars, tmVars, shVars>>
vars == <<service, releaseVars, accessVars>>

JobsOnly(A) ==
  service = "jobs" /\ A /\ UNCHANGED <<service, accessVars, capVars, retVars, gwVars, domVars, lifeVars, hookVars>>
CapacityOnly(A) ==
  service = "capacity" /\ A /\ UNCHANGED <<service, accessVars, jobVars, retVars, gwVars, domVars, lifeVars, hookVars>>
RetentionOnly(A) ==
  service = "retention" /\ A /\ UNCHANGED <<service, accessVars, jobVars, capVars, gwVars, domVars, lifeVars, hookVars>>
GatewayOnly(A) ==
  service = "gateway" /\ A /\ UNCHANGED <<service, accessVars, jobVars, capVars, retVars, domVars, lifeVars, hookVars>>
DomainsOnly(A) ==
  service = "domains" /\ A /\ UNCHANGED <<service, accessVars, jobVars, capVars, retVars, gwVars, lifeVars, hookVars>>
LifecycleOnly(A) ==
  service = "lifecycle" /\ A /\ UNCHANGED <<service, accessVars, jobVars, capVars, retVars, gwVars, domVars, hookVars>>
WebhookOnly(A) ==
  service = "webhook" /\ A /\ UNCHANGED <<service, accessVars, jobVars, capVars, retVars, gwVars, domVars, lifeVars>>
CommandOnly(A) ==
  service = "command" /\ A /\ UNCHANGED <<service, releaseVars, pgVars, sshVars, tmVars, shVars>>
PageOnly(A) ==
  service = "page" /\ A /\ UNCHANGED <<service, releaseVars, crVars, sshVars, tmVars, shVars>>
SshOnly(A) ==
  service = "ssh" /\ A /\ UNCHANGED <<service, releaseVars, crVars, pgVars, tmVars, shVars>>
TerminalOnly(A) ==
  service = "terminal" /\ A /\ UNCHANGED <<service, releaseVars, crVars, pgVars, sshVars, shVars>>
HealthOnly(A) ==
  service = "health" /\ A /\ UNCHANGED <<service, releaseVars, crVars, pgVars, sshVars, tmVars>>

Next ==
  \/ JobsOnly(JobNext) \/ CapacityOnly(CapNext) \/ RetentionOnly(RetNext) \/ GatewayOnly(GwNext)
  \/ DomainsOnly(DomNext) \/ LifecycleOnly(LifeNext) \/ WebhookOnly(HookNext) \/ CommandOnly(CrNext)
  \/ SshOnly(SshNext) \/ PageOnly(PgNext) \/ TerminalOnly(TmNext) \/ HealthOnly(ShNext)

(* What the specifications of the services call fair, of the service that runs. *)
Is(S, A) == service = S /\ A

Fairness ==
  /\ \A j \in QueueJob : WF_jobVars(Is("jobs", Uninterrupted /\ Work(j)))
  /\ \A c \in Caller : WF_jobVars(Is("jobs", Proceed(c)))
  /\ \A o \in GwOp : WF_gwVars(Is("gateway", GwWork(o)))
  /\ \A c \in GwCaller : WF_gwVars(Is("gateway", GwProceed(c)))
  /\ WF_domVars(Is("domains", DomWork))
  /\ \A c \in DomClient : WF_domVars(Is("domains", DomAnswer(c)))
  /\ \A p \in DomProject : WF_domVars(Is("domains", DomRelease(p)))
  /\ WF_crVars(Is("command", CrOnVps))
  /\ WF_crVars(Is("command", CrKilling)) /\ WF_crVars(Is("command", CrGoesOn))
  /\ WF_sshVars(Is("ssh", SshWork))
  /\ WF_pgVars(Is("page", PgServer))
  /\ \A p \in PgPage : WF_pgVars(Is("page", PgProceed(p))) /\ WF_pgVars(Is("page", Poll(p)))
  /\ \A t \in Terminal : WF_tmVars(Is("terminal", TmProceed(t)))

Spec == Init /\ [][Next]_vars /\ Fairness

------------------------------------------------------------------------------
(* The types of every service, with who may hold the lock of a webhook. *)
TypeOK ==
  /\ JobTypeOK /\ CapTypeOK /\ RetTypeOK /\ GwTypeOK
  /\ DomTypeOK /\ LifeTypeOK /\ HookTypeOK /\ CrTypeOK
  /\ SshTypeOK /\ PgTypeOK /\ TmTypeOK /\ ShTypeOK
==============================================================================
