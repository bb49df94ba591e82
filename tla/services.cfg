SPECIFICATION Spec
CONSTANTS
  MaxJobs = 2
  Caller = {"c1"}
  MaxAttempts = 2
  MaxBusy = 1
  FaultSets = {{"crash"}, {"overlap"}}
  CapDeployment = {"a1", "a2", "b1"}
  CapProject = {"a", "b"}
  CapProjectOf <- MCProjectOf
  CapMemory <- MCMemory
  CapStorage <- MCStorage
  TotalMemory = 8
  TotalDisk = 8
  ProjectLimit = 1
  NoHolder = NoHolder
  CapFaultSets = {{"expire", "race", "start"}, {"expire", "lapse"}, {"rollback"}}
  MaxReleases = 3
  RetKeep = 2
  PurgeTries = 1
  MaxRequests = 1
  RetRuns <- MCRetRuns
  RetFaultSets = {{}, {"purge"}, {"overlap", "ssh", "refuse"}, {"lapse"}, {"die"}}
  GwCaller = {"c1", "c2"}
  MaxOps = 2
  GwAttempts = 2
  GwNobody = GwNobody
  GwFaultSets = {{"fail", "lapse"}, {"crash", "die"}, {"reply", "crash"}}
  DomProject = {"c1", "c2"}
  DomClient = {"c1", "c2", "c3"}
  DomOn <- MCDomOn
  DomAsking <- MCDomAsking
  DomNobody = DomNobody
  DomAttempts = 2
  MaxActivations = 2
  DomRuns <- MCDomRuns
  DomFaultSets = {{}, {"die"}, {"race"}, {"meet"}, {"overlap"}, {"rollback"}, {"inherit"}, {"late", "life"}}
  LifeMax = 3
  LifeRuns <- MCLifeRuns
  LifeCaller = {"c1"}
  LifeFaultSets = {{"again", "rollback"}, {"ssh"}, {"gone"}, {"overlap"}}
  MaxPush = 2
  MaxDelivery = 3
  HookFaultSets = {{"overlap"}, {"overlap", "fail"}, {"overlap", "die"}}
  CrFaultSets = {{}, {"lose"}}
  SshUser = {"c1", "c2"}
  MaxClients = 2
  SshFaultSets = {{}, {"early", "lose"}, {"forget", "lose"}}
  PgPage = {"c1", "c2"}
  PgLimit = 2
  PgAttempts = 1
  MaxChanges = 2
  MaxBreaks = 1
  PgFaultSets = {{"leave"}, {"unheard", "race"}}
  Terminal = {"c1", "c2"}
  TmFaultSets = {{"lost"}, {"row", "die"}}
  ShCheck = {"c1", "c2"}
  ShScheduled = "c1"
  MaxFlips = 3
  ShFaultSets = {{}, {"overlap", "quiet", "die"}}
CHECK_DEADLOCK FALSE
INVARIANTS
  TypeOK
  PendingIsBacked ReservationIsBacked GateIsKept
  CapacityFits ProjectLimitKept
  ActiveIsKept PriorIsKept PinEnds
  OneBootstrap ProvisioningIsBacked
  IssuedIsVerified RouteIsBound
  StatusIsTrue
  OnePerPush HeadIsLive
  InUseStaysUp NewsIsTrue
PROPERTIES
  CanceledIsFinal JobsEnd OperationsEnd VerificationEnds
  CancelStops UnusedEnds StatusReachesPage TerminalsEnd
