--------------------------- MODULE Services_proofs ---------------------------
(***************************************************************************)
(* What the services around a release keep when they are put together: the  *)
(* composition that the run `services` checks has, for every value of the   *)
(* constants, all the types and all the safety properties of its parts.     *)
(* No service writes a variable of another, so the invariants of the parts  *)
(* make one invariant.                                                     *)
(***************************************************************************)
EXTENDS MCServices, DeploymentJob_proofs, Admission_proofs, Retention_proofs, Server_proofs, Lifecycle_proofs

(* The inductive invariants of the services that have more than one. *)
JobsInv == GateInv /\ FinalInv /\ HoldInv
CapacityInv == FitInv /\ LimitInv
RetentionInv == RetInv /\ PriorInv
GatewayInv == GwInv /\ GwSoloInv
DomainsInv == DomInv /\ RouteInv
WebhookInv == HookIInv /\ HeadInv

ReleaseServicesInv ==
  JobsInv /\ CapacityInv /\ RetentionInv /\ GatewayInv /\ DomainsInv /\ LifeInv /\ WebhookInv
AccessServicesInv == CrInv /\ PoolInv /\ PageInv /\ TmInv /\ HealthInv

(* A step of one service, or of none, as each service sees it. *)
ReleaseSteps ==
  /\ [JobNext]_jobVars /\ [CapNext]_capVars /\ [RetNext]_retVars /\ [GwNext]_gwVars
  /\ [DomNext]_domVars /\ [LifeNext]_lifeVars /\ [HookNext]_hookVars
AccessSteps ==
  [CrNext]_crVars /\ [SshNext]_sshVars /\ [PgNext]_pgVars /\ [TmNext]_tmVars /\ [ShNext]_shVars

------------------------------------------------------------------------------
(* The services that carry out a release.                                  *)

(* Each of them starts in its invariant. *)
LEMMA ReleaseInit == Init => ReleaseServicesInv
  <1>1. JobInit => JobsInv
    BY GateInit, BackInit, FinalInit, HoldInit DEF JobsInv
  <1>2. CapInit => CapacityInv
    BY FitInit, LimitInit DEF CapacityInv
  <1>3. RetInit => RetentionInv
    BY RetentionInit, PriorInit DEF RetentionInv
  <1>4. GwInit => GatewayInv
    BY GatewayInit, GwSoloInit DEF GatewayInv
  <1>5. DomInit => DomainsInv
    BY DomainInit, RouteInit DEF DomainsInv
  <1>6. HookInit => WebhookInv
    BY InitHook, HeadInit DEF WebhookInv
  <1> QED
    BY <1>1, <1>2, <1>3, <1>4, <1>5, <1>6, LifecycleInit DEF Init, ReleaseServicesInv

(* Each of them keeps it. *)
LEMMA ReleaseKept == ReleaseServicesInv /\ ReleaseSteps => ReleaseServicesInv'
  <1>1. JobsInv /\ [JobNext]_jobVars => JobsInv'
    <2> SUFFICES ASSUME JobsInv, [JobNext]_jobVars PROVE JobsInv'
      OBVIOUS
    <2>1. GateInv' /\ BackInv'
      BY GateStep, BackStep DEF JobsInv, FinalInv
    <2>2. FinalInv'
      BY <2>1, FinalStep DEF JobsInv
    <2>3. HoldInv'
      BY HoldStep DEF JobsInv, FinalInv
    <2> QED
      BY <2>1, <2>2, <2>3 DEF JobsInv
  <1>2. CapacityInv /\ [CapNext]_capVars => CapacityInv'
    BY FitStep, LimitStep DEF CapacityInv
  <1>3. RetentionInv /\ [RetNext]_retVars => RetentionInv'
    BY RetentionStep, PriorStep DEF RetentionInv
  <1>4. GatewayInv /\ [GwNext]_gwVars => GatewayInv'
    BY GatewayStep, GwSoloStep DEF GatewayInv
  <1>5. DomainsInv /\ [DomNext]_domVars => DomainsInv'
    BY DomainStep, RouteStep DEF DomainsInv
  <1>6. WebhookInv /\ [HookNext]_hookVars => WebhookInv'
    BY HookStep, HeadStep DEF WebhookInv
  <1> QED
    BY <1>1, <1>2, <1>3, <1>4, <1>5, <1>6, LifecycleStep DEF ReleaseServicesInv, ReleaseSteps

------------------------------------------------------------------------------
(* The services that reach the VPS and the user.                           *)

(* Each of them starts in its invariant. *)
LEMMA AccessInit == Init => AccessServicesInv
  BY CommandInit, PoolInit, PageInit, TerminalInit, HealthInit DEF Init, AccessServicesInv

(* Each of them keeps it. *)
LEMMA AccessKept == AccessServicesInv /\ AccessSteps => AccessServicesInv'
  BY CommandStep, PoolStep, PageStep, TerminalStep, HealthStep DEF AccessServicesInv, AccessSteps

------------------------------------------------------------------------------
(* The composition.                                                        *)

(* Whoever moves, every service makes a step of its own or none. *)
LEMMA EachItsOwn == [Next]_vars => ReleaseSteps /\ AccessSteps
  <1> SUFFICES ASSUME [Next]_vars PROVE ReleaseSteps /\ AccessSteps
    OBVIOUS
  <1>1. CASE \/ JobsOnly(JobNext) \/ CapacityOnly(CapNext) \/ RetentionOnly(RetNext) \/ GatewayOnly(GwNext)
             \/ DomainsOnly(DomNext) \/ LifecycleOnly(LifeNext) \/ WebhookOnly(HookNext)
    BY <1>1 DEF JobsOnly, CapacityOnly, RetentionOnly, GatewayOnly, DomainsOnly, LifecycleOnly, WebhookOnly,
                accessVars, ReleaseSteps, AccessSteps
  <1>2. CASE \/ CommandOnly(CrNext) \/ SshOnly(SshNext) \/ PageOnly(PgNext) \/ TerminalOnly(TmNext)
             \/ HealthOnly(ShNext)
    BY <1>2 DEF CommandOnly, SshOnly, PageOnly, TerminalOnly, HealthOnly, releaseVars, ReleaseSteps, AccessSteps
  <1>3. CASE UNCHANGED vars
    BY <1>3 DEF vars, releaseVars, accessVars, ReleaseSteps, AccessSteps
  <1> QED
    BY <1>1, <1>2, <1>3 DEF Next

(* The invariant of the composition. *)
THEOREM ServicesInvariant == Spec => [](ReleaseServicesInv /\ AccessServicesInv)
  BY ReleaseInit, AccessInit, EachItsOwn, ReleaseKept, AccessKept, PTL DEF Spec

(* The types of all services, whichever of them move. *)
THEOREM ServicesTypes == Spec => []TypeOK
  <1>1. JobsInv => JobTypeOK
    BY DEF JobsInv, GateInv
  <1>2. CapacityInv => CapTypeOK
    BY DEF CapacityInv, FitInv
  <1>3. RetentionInv => RetTypeOK
    BY DEF RetentionInv, RetInv, RowTyped, StateTyped, RunType, PurgeType, RetTypeOK
  <1>4. GatewayInv => GwTypeOK
    BY DEF GatewayInv, GwInv
  <1>5. DomainsInv => DomTypeOK
    BY TypedIsTypeOK DEF DomainsInv, DomInv
  <1>6. WebhookInv => HookTypeOK
    BY DEF WebhookInv, HookIInv
  <1>7. LifeInv => LifeTypeOK
    BY DEF LifeInv, LifeTyped
  <1>8. AccessServicesInv => CrTypeOK /\ SshTypeOK /\ PgTypeOK /\ TmTypeOK /\ ShTypeOK
    BY DEF AccessServicesInv, CrInv, PoolInv, PageInv, TmInv, HealthInv
  <1>9. ReleaseServicesInv /\ AccessServicesInv => TypeOK
    BY <1>1, <1>2, <1>3, <1>4, <1>5, <1>6, <1>7, <1>8 DEF ReleaseServicesInv, TypeOK
  <1> QED
    BY <1>9, ServicesInvariant, PTL

(* What the services promise about deployments, capacity, releases, the gateway and
   domains, webhooks, connections and alerts holds of them together: every invariant
   of the run `services`.                                                  *)
THEOREM ServicesKeepTheirPromises ==
  Spec => [](/\ PendingIsBacked /\ ReservationIsBacked /\ GateIsKept
             /\ CapacityFits /\ ProjectLimitKept
             /\ ActiveIsKept /\ PriorIsKept /\ PinEnds
             /\ OneBootstrap /\ ProvisioningIsBacked
             /\ IssuedIsVerified /\ RouteIsBound
             /\ StatusIsTrue
             /\ OnePerPush /\ HeadIsLive
             /\ InUseStaysUp /\ NewsIsTrue)
  <1>1. JobsInv => PendingIsBacked /\ ReservationIsBacked /\ GateIsKept
    BY BackMeans, HoldMeans DEF JobsInv, GateInv, FinalInv
  <1>2. CapacityInv => CapacityFits /\ ProjectLimitKept
    BY FitsAreSums DEF CapacityInv, FitInv, LimitInv, ProjectLimitKept, Limited
  <1>3. RetentionInv => ActiveIsKept /\ PriorIsKept /\ PinEnds
    <2>1. RetInv => ActiveIsKept
      BY DEF RetInv, KeepInv, Separate, ActiveIsKept, ActiveIsUp, Runtime
    <2>2. RetInv => PinEnds
      BY DEF RetInv, PinInv, PinEnds, RollbackPending, Rolling
    <2> QED
      BY <2>1, <2>2, PriorMeans DEF RetentionInv
  <1>4. GatewayInv => OneBootstrap /\ ProvisioningIsBacked
    BY GwSoloMeans DEF GatewayInv, GwInv, GwBackInv, GwBacks, ProvisioningIsBacked
  <1>5. DomainsInv => IssuedIsVerified /\ RouteIsBound
    BY RouteMeans DEF DomainsInv, DomInv, IssueInv, IssuedIsVerified
  <1>6. WebhookInv => OnePerPush /\ HeadIsLive
    BY HeadMeans DEF WebhookInv, HookIInv
  <1>7. AccessServicesInv => InUseStaysUp /\ NewsIsTrue
    BY DEF AccessServicesInv, PoolInv, UseInv, Gentle, InUseStaysUp, HealthInv, NewsInv, NewsIsTrue
  <1> QED
    BY <1>1, <1>2, <1>3, <1>4, <1>5, <1>6, <1>7, StatusMeans, ServicesInvariant, PTL DEF ReleaseServicesInv

(* A canceled deployment stays canceled also beside the other services. *)
THEOREM ServicesCancelForGood == Spec => CanceledIsFinal
  <1>1. ReleaseServicesInv /\ ReleaseServicesInv' /\ [Next]_vars
          => [dstatus = "CANCELED" /\ "overlap" \notin dfaults /\ NobodyDied => dstatus' = "CANCELED"]_jobVars
    BY EachItsOwn, FinalStep DEF ReleaseServicesInv, ReleaseSteps, JobsInv, FinalInv, JobsQuiet
  <1> QED
    BY <1>1, ServicesInvariant, PTL DEF Spec, CanceledIsFinal
==============================================================================
