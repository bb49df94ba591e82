# A verification project for DeployForge

DeployForge deploys applications to users' servers (VPSs) over SSH.  An API
accepts requests, a queue (BullMQ on Redis) hands jobs to worker processes, and
a worker builds a release on the VPS, checks it, and moves the traffic of the
project to it.  This directory holds TLA+ models of the parts where an error
would be hard to find by testing, the TLC configurations that check them, and
proofs for the TLA+ proof system.

    tlc -workers 4 -config releases_sound.cfg MCReleaseActivation
    tlapm ReleaseActivation_proofs.tla

`PROJECT.json` relates every definition to the source lines it stands for, every
property to the hazard it answers and to a mutant of the model that breaks it
(the operators `Mut...`, which no specification uses).

Paths below are relative to `src/apps/api/src/`, or begin with `packages` or `web` for
`src/packages` and `src/apps/web`.

## 1. Inventory

### Components

| Component | Code | State it keeps | Operations | Module |
| --- | --- | --- | --- | --- |
| Deployment locks | `services/cache.service.ts`, `withDeploymentLocks` in `workers/deployment.worker.ts` | two Redis keys with an expiry per operation, `lockLost` | acquire, extend, release | `DeploymentLocks` |
| Release activation | `services/release.service.ts` | `DeploymentRelease` rows, `Project.activeReleaseId` and `candidateReleaseId`, route file, `.previous` file, gateway network | begin, recordRuntime, activate, markReadinessFailed, reconcileProject | `ReleaseActivation` |
| Rollback | `services/rollback.service.ts` | the same rows, `retentionPinnedAt` | rollback (API), executeRollback (worker) | `ReleaseActivation`; pins in `Retention`, statuses in `Lifecycle` |
| Deployment execution | `services/deployment.service.ts` | containers of the VPS, deployment status | executeDeployment | `ReleaseActivation`, `DeploymentJob` |
| Requests for a deployment | `services/deployment.service.ts` | status, container, reference | stop, pause, start, restart, delete | `Lifecycle` |
| Deployment jobs | `workers/deployment.worker.ts`, `services/deployment/lifecycle.service.ts`, `services/deployment/enqueue.service.ts`, `utils/queue.ts` | queue jobs, `DeploymentJob` rows, cancellation key | deploy, pick up, wait for a slot, retry, settle, cancel, approve | `DeploymentJob` |
| Remote command runner | `services/deployment/runner.ts` | pid file on the VPS | run, poll the cancellation key, kill | `CommandRunner`; what its errors do in `ReleaseActivation` |
| SSH connections | `packages/vps/src/ssh.ts` | pool of clients with a count of users and an idle timer | connect, execute, disconnect | `SshPool` |
| Capacity | `services/resource-policy.service.ts` | `CapacityReservation` rows | reserve, release, reconcile the tier | `Capacity` |
| Retention | `services/maintenance.service.ts`, `services/maintenance-policy.ts` | `purgedAt`, containers | choose, purge, retry | `Retention` |
| Gateway operations | `workers/gateway.worker.ts`, `services/vps.service.ts` | `VPSOperation` rows, `VPS.gatewayStatus` | queue, install, retry | `GatewayOperation` |
| TLS verification, domains | `workers/tls.worker.ts`, `services/domain.service.ts` | `Domain` rows, route file | verify, bind, remove, re-route | `DomainBinding` |
| Webhooks | `routes/webhooks.ts` | delivery records | receive, de-duplicate, enqueue | `WebhookPush` |
| Status of a deployment on its page | `routes/ws.ts`, the listener in `app.ts`, `web/hooks`, `web/app/(app)/deployments/[id]/page.tsx` | connections of a user, what the page was told | connect, send, poll, connect again | `LivePage` |
| Terminals | `services/terminal.service.ts` | socket, SSH connection, `TerminalSession` row | open, heartbeat, clean up | `TerminalSession` |
| Health of a VPS | `services/vps.service.ts`, `services/alert.service.ts` | `VPS.status`, notifications, cooldowns in Redis | check, alert | `ServerHealth` |
| Everything else | authentication, administration, monitoring, files, backups, the other pages, packages | single rows, sessions | request handling | section 5 |

### How they interact

The API writes rows and queues a job.  A worker slot picks the job up, takes the
project's lock and then the VPS's, and runs the deployment or the rollback.  The
run changes three stores that share no transaction: PostgreSQL, Redis, and the
VPS (containers, networks, route files).  Meanwhile the API reads and writes the
same rows *without* taking the lock: a rollback request turns a release into the
candidate, a cancellation writes a Redis key which the run looks at before and
after most of its remote commands.  The queue hands a job out again after a
transient failure or when the worker that had it died.

### What is hard here, and the property each component owes

* **Locks**: leases expire while their holder lives, replies get lost, holders
  die.  Owed: no two operations on one project or one VPS; nobody touches a
  successor's lease; every lease ends.
* **Activation**: some twenty awaits over three stores, each of which may fail,
  be canceled or be the last thing the process does; the undo is made of remote
  commands too.  Owed: one active release; traffic only to a verified release;
  the active release served throughout; a success report means what it says;
  nothing left over between runs.
* **Rollback**: the request and its execution are separated by a queue, and the
  request reads before it writes.  Owed: the same, and the prior release kept.
* **Jobs**: five stores describe one deployment (status, job record, place in the
  queue, cancellation key, reservation) and are written by the API, by the run and
  by the worker's error handling without a common lock.  Owed: what waits has
  something that works on it; capacity does not leak; nothing passes the gate
  unaccepted; a cancellation is final; every job ends.
* **Capacity**: what is committed is read a remote measurement before the decision
  is written.  Owed: commitments never exceed the VPS, projects never their limit.
* **Retention**: a round selects releases once and visits them later, and rollback
  requests take no lock.  Owed: neither the active release nor the ones to roll
  back to are purged; a pin ends with its rollback.
* **Gateway**: requests, worker and queue each write the state of an operation.
  Owed: one installation per VPS at a time; a VPS shown as PROVISIONING is one.
* **TLS, domains**: route file, row and verification job change one after the
  other.  Owed: the route leads to the live release under the domain that is bound;
  ISSUED means that a certificate was seen.
* **Requests for a deployment**: status and container change without a lock.  Owed:
  the status tells the truth; one deployment of a project is shown to run.
* **Webhooks**: duplicates, reordering, redelivery.  Owed: one deployment per push;
  the last commit is live in the end.
* **Remote commands**: a kill needs a pid that the shell may not have written yet, and
  may fail itself.  Owed: a cancellation ends the command, however long it takes.
* **SSH connections**: a count shared by operations that connect, fail and are ended
  by a timer.  Owed: no operation loses its connection to another; what nobody uses is
  closed.
* **Page, terminals**: two channels, each with an order of its own, tell of one row; a
  socket, a connection and a row begin one after the other and end in any order.  Owed:
  the page shows the row in the end; a terminal whose client is gone is over.
* **Health**: a check reads the status, looks at the VPS and writes; alerts have a
  cooldown.  Owed: the last news is the status.

The hazards, each at its line, are in `PROJECT.json`.

## 2. Modules

    SlotMutex            what the locks promise
      ^ implemented by
    DeploymentLocks      leases, heartbeat, worker slots
      ^ checked by MCDeploymentLocks, proved about in DeploymentLocks_proofs

    BlueGreen            what blue-green deployment promises
      ^ implemented by
    ReleaseActivation    deploy and rollback runs, the API next to them
      ^ checked by MCReleaseActivation, proved about in ReleaseActivation_proofs

    DeploymentJob  Capacity  Retention  GatewayOperation
    DomainBinding  Lifecycle  WebhookPush
    CommandRunner  SshPool  LivePage  TerminalSession  ServerHealth
      ^ each by itself, all in one run, in MCServices; Retention with Compose
        stacks in MCRetention; LivePage also in a run of its own

    The proofs about them:

    DeploymentJob_proofs  DeploymentJob
    Admission_proofs      Capacity, WebhookPush
    Retention_proofs      Retention
    Server_proofs         GatewayOperation, DomainBinding, SshPool, ServerHealth,
                          CommandRunner, TerminalSession
    Lifecycle_proofs      Lifecycle, LivePage
    Services_proofs       the composition MCServices, from the five above

The modules meet in three places.  `ReleaseActivation` uses the result of
`DeploymentLocks` in one variable, `lock`: a job holds the project's lock from
pick-up until it settles, dies or, with the fault `lapse`, for some shorter time;
what makes a lapse possible is the subject of `DeploymentLocks`.  `DeploymentJob`
has the whole life of a job and reduces the run to the awaits at which the status,
the records, the key and the reservation are touched; what these awaits do on the
VPS is `ReleaseActivation`.  A remote command is one step there and in every other
module; how it is run and killed is `CommandRunner`, and the connection it uses is
`SshPool`.  `Retention`, `DomainBinding`, `Lifecycle` and
`WebhookPush` have runs and rollbacks as the few steps that change what they look
at, one at a time per project, which is the promise of the locks.

### DeploymentLocks

`lease` maps every Redis key to a token and the ticks it has left, `slot` every
concurrent job slot to its place in `withDeploymentLocks`, and `age` to the ticks
since its leases were last written, which is what the timer goes by.  One `Tick` is the
interval of the heartbeat, a third of the lease; `LeaseTicks` and `HeartbeatTicks`
keep the two apart so that the proofs hold for any ratio.

| Action | Code |
| --- | --- |
| `TakeProject`, `TakeProjectReplyLost` | first `acquireRenewableLock`; `SET NX PX` was executed but its reply lost, which the `catch` turns into `null` |
| `TakeVps`, `VpsBusy` | second `acquireRenewableLock`, and its `null` |
| `Unwind` | `projectLock.release()` before the VPS error is thrown |
| `Heartbeat`, `HeartbeatError` | the timer; `lockLost` is set by a foreign token or by an exception |
| `EndOperation` | `operation()` ends and `lockLost` is looked at |
| `Release` | the `finally` block; deletes that fail are ignored |
| `Tick` | time passes: Redis expires keys, the next beat comes due |
| `Crash`, `Restart` | death of a worker process, and its replacement |

A slot stands for all the jobs it works on one after the other and its name for
their tokens.  The code draws a new token for each acquisition; the difference
shows only after a crash, when a slot finds a key under its own old token, and
that key is busy to it like anybody else's.

The faults an instance admits are a constant, `Faults`: `late` (beats may be
late), `renew` (a beat fails), `reply` (a reply is lost), `crash`.

### ReleaseActivation

One project, its deployments and rollback jobs.  A release is a number in
creation order.

| Variables | Code |
| --- | --- |
| `status`, `owner`, `runtime`, `pinned` | `DeploymentRelease` rows: status, `deploymentId`, whether `runtimeRef` is set, whether the release is pinned |
| `active`, `candidate` | the two references of the `Project` row |
| `up`, `attached` | which releases have a container, and which are on `deployforge-net` |
| `route`, `backup` | the backend in the public route file and in its `.previous` copy |
| `job` | the run of each queue job: program point, release worked on, the active release it has *read*, the pending error, attempts, stalls |
| `lock`, `cancelKey` | `project-deploy:<project>`; `deployment-cancel:<deployment>` |
| `call` | a rollback request or cancellation between its read and its write |
| `verified` | history: releases that passed a health check |

A run is a sequence of program points, one per await that reads or writes a
store:

    reconcile  [promote .. undoPromotion | restore]  detachStale dropStale
    begin replace start health record                        (deployment)
    pick recheck                                             (rollback)
    read connect mark backup canary probe switch confirm commit detach cleanup
    link finish | finishRollback
    undoRoute undoDetach undoMark | markFailed clear unpin settle

`Handler` says which catch block an exception at a point reaches: that of
`activate`, which undoes the switch; that of `executeDeployment`, which marks the
release and removes its container unless it was activated; the `finally` of
`executeRollback`; or the worker's.  `Canceled` and `CommandFails` raise
exceptions at the points where the code can; `Crash` stops a run anywhere and
leaves the stores as they are.

Faults: `health`, `probe` (a check fails though the container runs), `ssh` (a
command is lost or fails), `crash`, `lapse`, `cancel`, `race` (steps of a run come
between the read and the write of an API call).

Abstractions: one domain route per project; a Compose project is one container;
building is part of `start`; the gateway's `canary` router is not a variable,
since only the public backend reaches users; a command that fails has done
nothing, except where half of its effect matters (the copy of the route file,
the removal of the copy, deletes on Redis).  A run that lost its lease still ends
in `Finish`, where the worker refuses to report success.

### DeploymentJob

One deployment in production mode and the queue jobs added for it.  `dstatus` is
`Deployment.status` (CLONING to DEPLOYING are one, BUILDING), `djob` the place of each
job in the queue and in the worker's handler with the error it carries, `drecord`
the `DeploymentJob` rows, `dcancel` the key in Redis, `dreserved` the reservation,
`daccepted` and `dchecks` the gate, `dcall` the API calls, one await per step.

| Actions | Code |
| --- | --- |
| `PickUp`, `Acquire`, `SlotBusy` | the worker's first writes, `withDeploymentLocks`, and its two "slot busy" errors |
| `Start` .. `GoLive`, `Fail`, `Undo` | `executeDeployment`, with the check of each `setStatus` and `assertNotCancelled`, and its catch block |
| `Handle`, `Handle2`, `Succeed`, `Finally` | the worker's catch and finally blocks; record and status are written in the order of the code, which differs by error |
| `Crash` | death of a worker; BullMQ hands the job out once more |
| `CreateDeployment` .. `AddJob`, `AddFails` | `deployFromGithub`, `approvePreflightWarnings`, `retryBlockedPreflight` |
| `CancelCanceled`, `CancelQueued` .. `CancelCommit`, `CancelRunning` .. `CancelMark` | `cancelDeployment`: for a job that waits, and for one that runs |

### Capacity

Deployments of one owner's projects on one VPS.  `capDep` says where each is and
which request it makes, `capReserved` is the set of live reservations, `capSeen` what
a request has *read* as committed, `capLock` the lock of the VPS.  `CheckLimit`,
`TakeLock`, `Measure`, `Commit` and `GiveBack` are `reserve` at its awaits;
`Committed...` is `committed()`, which counts each deployment once and of the disk the
largest share of each project; `Fits` is `capacityFailure` with its reserve.
`CapBuild` is `reconcileDetectedTier`, `CapExpire` the expiry of six hours, and the
rest is how deployments move on.

### Retention

Releases of one project as rows (`retStatus`, `retAge`, `retPinned`, `retPurged`, ..)
and as containers (`retUp`).  `retentionCandidates` is the function of that name.
`RetSelect` starts a round, `RetVisit` takes the lock and checks a release again,
`RetRemove` and `RetMark` are the two halves of `purgeRelease`, `RetPurgeFails` its
retry count.  A rollback request pins its release in a transaction (`RetRequest`) and adds
its job afterwards (`RetAdd`), which Redis may refuse.  `RetRoll` is the start of
`executeRollback`, which throws without a candidate; `RetRolled` and `RetRollFails` are the
ways to its `finally` block, `RetUnpin` that block, `RetDie` and `RetExpire` the death of a
worker at any of these points and the end of the lock it held.  `retAsk` and `retJobs` are
the request between its two steps and the jobs that wait or run.

### GatewayOperation

`GwRequest`, `GwFind`, `GwCreate`, `GwProvision`, `GwAdd` and `GwAddFails` are
`enqueueBootstrap`; `GwPickUp` .. `GwAck` are `processBootstrapOperation` with the
container steps of `bootstrapVPS`; `GwFails` writes both rows and lets the queue try
again; `GwDie` and `GwCrash` are deaths of the API and of a worker.

### DomainBinding

One domain name that projects claim.  `domRow` is the `Domain` row with the deployment it
belongs to, `domKept` the `domain` column of each deployment, `domActive` the deployment of
the active release, `domPrevious` the one an unnamed run asks for its host: the last updated
of those that say RUNNING or ROLLED_BACK, if there is one.

| Actions | Code |
| --- | --- |
| `Attach`, `Detach` | what `attachDomain` and `removeDomain` read first; several clients of one project may be at it at once |
| `CallReads`, `CallRoutes` | `updateDomainRoute`: the active release is read, then the route is written |
| `AttachBind`, `CallQueues` | the transaction of `attachDomain`, and its job |
| `DetachRow`, `DetachColumn` | the two writes of `removeDomain` |
| `IssueSSL` | another verification |
| `CallDies` | the API dies between two of these |
| `DomDeploy`, `DomRoll` | a run, or a rollback, chooses its host |
| `DomActivates`, `DomActivateFails` | its activation, which may fail before or after the commit |
| `DomDeployBinds`, `DomDeployQueues` | `persistDomainBinding` of a run with a name of its own |
| `DomRunShows`, `DomRunFails` | the last writes of a run or rollback; its catch block |
| `DomLife` | deployments are stopped, paused, started or updated, so that another one is `domPrevious` |
| `Tls...` | the verification worker with its attempts |

The job is named after the domain, so that a second request finds the first one's job.
What the death of a worker or a failing undo leaves of an activation is the subject of
`ReleaseActivation`.

### Lifecycle

The deployments of one project: the status each shows, its container, and which of
them has the traffic.  A request reads the status (`LifeRequest`, with the table of
`assertLifecycleTransition`) and then takes up to five more steps: `LifeMark` writes
DEPLOYING or DELETING, `LifeLook` is `containerExists`, which takes an error of SSH for an
absent container, or the inspection of a restart, which throws; `LifeCommand` is the
command, which may fail before it had its effect, after it or half way (`LeftBy`);
`LifeVerify` is what follows the command of a start (the check that the container runs) or of
a delete (images, workspaces, the rest of a Compose project) and may throw; `LifeWrite`
writes the result.  `CommandFails` is the error path, on which a delete writes back the
status it had read and a restart writes FAILED.  A run shows itself RUNNING and then settles
the others, as `executeDeployment` does, and a rollback does it the other way round.

### WebhookPush

Pushes to one branch.  `Receive` records a delivery under its id, `Lock` and `Queue`
are `deployProject`, `Processed` and `QueueFails` the route's answer; `HookStart`,
`HookClone` and `HookGoesLive` are a run, which builds the head of the branch and not the
commit of its push.

### CommandRunner

One `runCommand`.  `crRun` is the await it is at, `crShell`, `crChild` and `crPid` are the
shell on the VPS, the process group it has started and the pid file, `crKill` is the
kill command in flight.  `CrStart`, `CrReturns`, `CrLastLook` and `CrFinally` are the
function, `CrPoll` and `CrKillReturns` the timer with `checkCancellation`, which sends a
kill again only if the last one did not exit with 0; `CrWritePid`, `CrWaited`, `CrEnds`
and `CrKilled` happen on the VPS, and `CrLost` is a timeout or a broken connection.

### SshPool

The connections of one process to one VPS.  `sshPool` is the entry of the host (client,
`refCount`, whether `idleTimeout` is set), `sshClient` the state of each client, `sshOp`
the operations that use them.  `SshConnect` is `connect()` with its two branches, `Join`
and a new client, `SshReady` and `SshLost` are the events of a client, with `cleanupPool`,
`SshDisconnect` with `CountDown` is `disconnect()`, and `SshIdle` the timer.

### LivePage

A row is the number of its last change.  `PgChange` writes it and owes an event, which
`PgEvent` gives to every connection that listens; `UnheardChange` is a write of another
process.  `TakeSlot`, `PgRead` and `SendStatus` are the route of the socket, whose handler
of `close` is there only after the last of them; `PgConnect` and `AfterClose` are the hook of
the page, `Poll` its query, and `ShownOn` the expression that puts the two together.

### TerminalSession

`TmOpen` .. `TmShell` are `createSession`, which may fail at each await (`OpeningFails`);
`Beat`, `Pong`, `Hangup`, `ShellEnds` the handlers of an open session, `Cleanup` and
`TmSettle` the two halves of `cleanup`, and `RemoveVps` is the removal of the rows by
`VPSService.delete`.

### ServerHealth

`Select` is `runAllHealthChecks`; `ReadStatus`, `Find` and `WriteHealth` are
`performHealthCheck`, `TriggerAlert`, `Notify` and `CooldownEnds` the alert it sends.
`WriteQuietly` stands for the other writers of `VPS.status`.

### MCServices

The twelve service modules share no variable, so a product of their behaviours would
show no more than each alone.  A behaviour of `MCServices` chooses one of them and takes
only its steps, which makes the states add up instead of multiplying; every property
speaks of one service and holds trivially while another one is chosen.  `Resting` fixes
the faults of the services that do nothing.  `TypeOK` is the conjunction of the type
invariants of the twelve.

## 3. Runs

| Run | Checks | Instance and faults | States |
| --- | --- | --- | --- |
| `locks_timely` | `MutualExclusion`, `MutexSpec` | 3 slots, 2 projects, 2 VPSs; reply, crash | 117 thousand |
| `locks_fair` | `EveryLeaseEnds`, `LeaseEndsProperly`, `NoLeaseLeft` | 2 slots, 2 projects, 1 VPS; late, renew, crash | 47 thousand |
| `locks_renew_error` | `MutualExclusion` is violated | 2 slots, 1 project, 2 VPSs; renew | |
| `releases_sound` | `CleanBetweenRuns`, `AlwaysServed`, `PriorRetained` | 3 deployments, 2 rollbacks, 3 releases; health, probe | 26 thousand |
| `releases_cancel` | `ActiveIsIntact` | 3 deployments; probe, cancel | 8 thousand |
| `releases_crash` | `OneActive`, `VerifiedTraffic`, `SuccessMeansLive`, `BlueGreenSpec` | 1 deployment, 1 rollback, 2 attempts, 3 releases; probe, ssh, crash, race | 969 thousand |
| `releases_fair` | `EveryJobEnds` | 1 deployment, 1 rollback; probe, lapse, cancel, race | 19 thousand |
| `services` | the properties of the next table | `services.cfg` | 530 thousand |
| `cancel_removes_route` | `AlwaysServed` is violated | 2 deployments; cancel | |
| `late_cancel` | `LiveContainerKept` is violated | 2 deployments; cancel, race | |
| `purge_stack` | `ActiveIsProtected` is violated | 2 releases of Compose deployments; stack | |
| `stale_page` | `PageIsCurrent` is violated | 1 page, 2 versions of the row, no lost connection; unheard | |

The run `services`, by module:

| Module | Properties | Instance, and the sets of faults a behaviour chooses from |
| --- | --- | --- |
| `DeploymentJob` | `PendingIsBacked`, `ReservationIsBacked`, `GateIsKept`, `CanceledIsFinal`, `JobsEnd` | 2 jobs, 1 caller, 2 attempts, 1 busy slot; crash / overlap |
| `Capacity` | `CapacityFits`, `ProjectLimitKept` | 3 deployments of 2 projects, limit 1; expire, race, start / expire, lapse / rollback |
| `Retention` | `ActiveIsKept`, `PriorIsKept`, `PinEnds` | 3 releases (2 with faults), 2 kept, 1 rollback job; none / purge / overlap, ssh, refuse / lapse / die |
| `GatewayOperation` | `OneBootstrap`, `ProvisioningIsBacked`, `OperationsEnd` | 2 requests, 2 operations, 2 attempts; fail, lapse / crash, die / reply, crash |
| `DomainBinding` | `IssuedIsVerified`, `RouteIsBound`, `VerificationEnds` | 2 projects, 3 clients (two of one project), 2 activations, 2 attempts; none / die / race / meet / overlap / rollback / inherit / late, life |
| `Lifecycle` | `StatusIsTrue` | 3 deployments (2 with `ssh` or `overlap`), 1 caller; again, rollback / ssh / gone / overlap |
| `WebhookPush` | `OnePerPush`, `HeadIsLive` | 2 pushes, 3 deliveries; overlap / overlap, fail / overlap, die |
| `CommandRunner` | `CancelStops` | 1 command; none / lose |
| `SshPool` | `InUseStaysUp`, `UnusedEnds` | 2 operations at a time, 2 clients; none / early, lose / forget, lose |
| `LivePage` | `StatusReachesPage` | 2 pages, 2 slots, 1 attempt, 2 versions of the row, 1 break; leave / unheard, race |
| `TerminalSession` | `TerminalsEnd` | 2 terminals; lost / row, die |
| `ServerHealth` | `NewsIsTrue` | 2 checks, 3 outages and recoveries; none / overlap, quiet, die |
| all | `TypeOK` | |

### Why these bounds

Locks: a violation needs a holder and a successor on one key; the third slot and
the second project and VPS let two operations run side by side while a third
waits for both of them.  Three ticks to a lease is the ratio of the code.

Releases: one release to be active, one to replace it, and a third that finds
what the second left behind; rollback needs a superseded release besides.
`MaxReleases` covers the number of `begin` calls the jobs of the instance can
make, retries included, wherever liveness or success is at stake.  Each job
stalls once, as BullMQ's default allows, and a second stall fails it.  In
`releases_crash` one deployment is enough for several runs, since a job that is tried
again begins another release next to what the run before it left; the rollback then
has a release to go back to and a run to meet.

Services: two jobs of one deployment are what an approval next to a settling job
needs, and a third only repeats it; with two attempts and one busy slot a job both
comes back and runs out of attempts.  The sizes of `Capacity` are such that one, two
or no further deployment fits beside the reserve, and with a limit of one each of two
projects meets it.  Three releases and two kept ones let a release grow old, be
purged and be wanted again.  Two requests and two operations let one be created next
to the retry of another; two projects claim one name, two clients of one project meet, and
two activations let a run take over the host of the one before and a rollback return to
it; three deployments leave two of which a run settles one.  How many releases,
deployments, activations and clients a behaviour has depends on its faults (`MCRetRuns`,
`MCLifeRuns`, `MCDomRuns`, `MCDomAsking`): the most where everything works, so that the boundaries of
retention and of settling are met, and one less where failures multiply the states, since
each of these faults shows itself between two of them.  A project on which requests race,
meet or overlap needs one activation, for what they disturb is the route to it.  Three
deliveries of two pushes are one duplicate and one reordering.  A second operation joins
or outlives the connection of the first, and a second client replaces a lost one, which
is when a count can go to the wrong entry.  Two pages share one user's slots, and one
break, as a lost connection or as a restart of the API, lets a page connect again after
it was told something.  Two terminals of one VPS lose their rows together; three
outages and recoveries leave a cooldown behind that meets its own alert.  `CapacityFits`,
`PriorIsKept` and the other bounds that are constants of the code (five releases,
ten projects, eight attempts) are smaller here, since the code compares them only.

Each property is checked under the faults under which the code keeps it; what
happens under the others is said below.  In the service modules a behaviour chooses
its faults from the sets of the configuration, and a property that needs the absence
of one says so in its formula.  The split also keeps every run within minutes: all
faults at once exceed TLC's reach on these instances.  Deadlock is not checked for
releases and services: when all jobs have ended, nothing is left to do.

### Fairness

`DeploymentLocks`: Redis expiry and the timer run on their own; a slot goes on as
long as it can, because remote commands end or time out.  Slots need not take
jobs.  `ReleaseActivation`: a worker that can move a job moves it (weak fairness
per job, the lock being handed around a finite number of jobs), and an API call
that has read also writes.  Users promise nothing.  `EveryJobEnds` is checked with
`race`: without it an API call in progress would hold up the workers, and endless
cancellations would starve a job that the code does not starve.

The services: `JobFairness`, `GwFairness` and `DomFairness` say the same of their
workers and of calls that have begun, for BullMQ workers poll their queues and a
promise that has been started is settled.  Nobody has to call, crash, expire or
fail.  `DomRelease` is fair because a run holds the lock and ends.

A shell on the VPS, the timer of the runner and the run itself go on, each by itself, and
the command need not end: that is what the cancellation is for (`CrSpec`).  SSH commands
end or time out, and operations then disconnect (`SshSpec`); the timers of the page and
of the heartbeat fire, queries are answered and the API is restarted (`PgSpec`, `TmSpec`).
No user has to open, leave or answer anything.  `ServerHealth` has a safety property only.

`MCServices` repeats these conditions in `Fairness`, each for the service that was chosen.

### What the runs show

**As designed.**  While beats are in time the locks exclude, also when replies
are lost and processes die, and a paused slot never harms its successor.  Failed
checks and probes alone never interrupt service, never lose the prior release and
leave nothing behind.  Crashes and racing rollback requests never make two
releases active nor send traffic to one that was not verified: the reconciliation
at the start of a run repairs enough for that.

Around the release: whatever calls, settling jobs and retries come between each
other, a deployment that waits has something that works on it, its reservation is
neither lost nor leaked, and no warning passes the gate unaccepted; a job that finds
its slot busy or is handed out again still comes to an end.  Side by side,
reservations never exceed the VPS as long as the lock lasts, because the second
reader sees what the first has committed.  The second check of the purge and the
health check of the rollback are what saves the active release from an old selection.
Requests for the gateway do not meet between the search and the new row, and the
order in which the worker leaves its rows makes an operation visible until after its
last command.  A rollback that fails, is tried again or loses its worker before it has
decided leaves no pin without a job that works on it.  As long as requests and runs do not
overlap and nothing fails after a commit, a domain's route leads to the active release
whenever a project is at rest; that its host agrees with the row needs more (below): of a
domain that is attached, taken over by unnamed runs, replaced by named ones and removed
again, one at a time, it is true.  However pushes are delivered, the head of the branch is live in the end,
because a run builds the head.

What carries all this: a cancellation also ends a command whose pid is not known yet,
because a kill that finds no pid file is sent again and the run looks at the key once
more after the command.  Connections are not taken from an operation that uses them and
do not add up when some are lost.  A page comes to show every change the API's listener
hears, across lost connections and restarts, because a new connection begins with the
row.  A terminal whose socket closed before anybody listened is ended by the heartbeat.
While checks do not meet, the last alert agrees with the status of the VPS.

**Findings**, each with the run that shows it:

1. `locks_renew_error`: one Redis error in a single beat sets `lockLost` for good.
   No later beat renews, the leases run out, and the operation goes on next to a
   successor's until it ends; only then is the flag looked at
   (`workers/deployment.worker.ts:56,66,76`).
2. `cancel_removes_route`: a cancellation noticed by the `runCommand` that makes
   the backup of the route is thrown inside `activate`'s `try`.  The handler finds
   no backup and deletes the live route, though it was never switched
   (`services/release.service.ts:219,252`).
3. `late_cancel`: the cancellation looks at the candidate's status and writes its
   key later (`services/deployment/lifecycle.service.ts:98,106`).  A run that went
   live in between is canceled by its last check, and every container of the
   deployment is removed, the live one included.
4. `purge_stack`: a Compose deployment that fails after its runtime is recorded, is
   tried again and goes live runs in the stack of the failed release.  A day later
   the purge removes all containers of that stack, without asking whether another
   release uses it as the branch for single containers does
   (`services/maintenance.service.ts:98,109`).
5. `stale_page`: the status socket is fed by the writes of the API process
   (`app.ts:39-46`), the worker is another process, and what the socket has said
   covers what the page polls (`web/app/(app)/deployments/[id]/page.tsx:166`).  A page
   that is connected before a change by the worker keeps the status from before it, although
   its poll has read the new one; `docs/API.md:199` calls the socket live.

**Limits seen while building the models.**  In `ReleaseActivation`, more behaviours break a property under
a fault that the passing runs leave out; each can be reproduced by changing
`Faults` in a configuration.  `PriorRetained`, `ActiveIsIntact`, `CleanBetweenRuns` and
`AlwaysServed` each have counterexamples under `ssh`, under `crash` and under `lapse`,
which is why their theorems exclude these three (section 4).  The most telling:

* `ssh` and `ActiveIsIntact` (2 deployments, 2 releases): the
  detach of the old release and the removal of the backup come after the commit
  but inside its `try` block.  If one fails, the committed release is marked
  FAILED, loses its container, and stays the project's active release.
* `crash` and `ActiveIsIntact` (3 releases): a job that is handed out again
  after its worker died behind the commit removes the container of the release
  it had made active, since both have one name.
* `race` and `AlwaysServed` (2 deployments, 2 rollbacks): a rollback request does
  not look again whether its target has become active; the next deployment
  reconciles the active release as an interrupted candidate.
* `cancel` with a rollback, `PriorRetained` and `ActiveIsIntact` (2 deployments,
  1 rollback, 2 releases): a rollback request may name the very release a run is
  activating, which has its `runtimeRef` and is not active yet.  Its status becomes
  CANDIDATE again, so that the check which refuses to cancel a release that is being
  activated (`services/deployment/lifecycle.service.ts:98`) lets the cancellation pass; the
  run goes live, is canceled by its last check and its container is removed.
* `lapse` and `OneActive`: two runs side by side each commit over the active
  release they read.

In the services, the formula of a property names the faults it exempts.  What the
code then does:

* `crash` with `overlap`, `PendingIsBacked` and `ReservationIsBacked`: a worker takes a
  job and dies while a cancellation is about to remove it; the record says RUNNING,
  the job is gone, and the deployment keeps its status and its reservation until the
  reservation expires.  Nothing looks for such a deployment.
* a second stall of a job (`workers/deployment.worker.ts:84`): BullMQ fails it
  without the worker's handlers; the model has one stall per behaviour.
* `overlap`, `CanceledIsFinal`: `setStatus` reads before it writes, and so do `FAILED`
  and the worker's `PENDING` (`services/deployment/lifecycle.service.ts:55,156`).
  A cancellation may write CANCELING after the job it found running has ended, and
  nothing changes that status again (`:107`); of two cancellations of a waiting job the
  second finds nothing to remove and says that the job has started (`:69`).
  `ReservationIsBacked`: an approval has reserved before the job that still settles
  gives the reservation back.
* `removeContainerQuietly` throws if its command fails or is canceled, and its error takes
  the place of the one the retry is decided by (`services/deployment.service.ts:545`); the
  retry itself is decided before its PENDING is written, so that a failure of that write
  leaves the reservation to a job that BullMQ may or may not try again
  (`workers/deployment.worker.ts:259,262`).
* `lapse`, `CapacityFits`: the lock of the VPS lasts 60 s and is not extended
  (`services/resource-policy.service.ts:68`).  `rollback` and `start`: superseded and
  stopped releases are not counted, and coming back they ask for nothing
  (`:188`).  `race`, `ProjectLimitKept`: an approval writes PENDING after its check.
* `lapse`, `ActiveIsKept` and `PriorIsKept`: the project lock of a purge lasts 120 s
  (`services/maintenance.service.ts:66`); a round also visits a release that was
  selected before a rollback brought it back (`:64`).
* `PinEnds`.  `refuse`: the job of a rollback is added after the transaction that pins its
  target and makes it the candidate, and nothing undoes that when Redis refuses
  (`services/rollback.service.ts:54,68`); nor is the write that takes the pin away tried
  again (`:130`).  `die`: if the worker dies between the commit and its `finally` block, or
  after it marked the release as failed, the retry finds no candidate and throws before its
  `try` (`:79`), so that the pin stays; the formula admits exactly this case.  `overlap`: if the
  candidate is replaced while its job waits, the job unpins the second one, or throws
  (`:51,79`).  A release that was left pinned is never purged.  A purged release
  keeps its `runtimeRef` and can be asked for, which its health check refuses (`:52`).
* `fail` and `lapse`, `OneBootstrap`: between two attempts an operation is FAILED, and
  `enqueueBootstrap` starts another next to the retry; an operation whose API process
  died before queueing stays QUEUED and refuses every later one
  (`services/vps.service.ts:246,256,265,330`).  If the transaction that writes FAILED
  fails itself, the operation stays RUNNING until a next attempt (`:353`).
* `rebind`, `IssuedIsVerified`: a result is written over a row that was bound again
  meanwhile (`workers/tls.worker.ts:21`), and a request that finds a job which is
  about to end gets no verification of its own (`utils/queue.ts:67`).
* `RouteIsBound`, whose host agrees with the row only without any of these faults.
  `meet` and `overlap`: `attachDomain` and `removeDomain` take no
  lock of the project (`services/domain.service.ts:110`), so that two of them, or one and a
  run, write route, row and column in turns.  `race`: a conflict is found only after the
  route is written (`:175`), and `persistDomainBinding` takes
  the row from whoever has it (`services/deployment.service.ts:1468`).  `die`: a request
  ends after the route and before the row (`services/domain.service.ts:328`).
  `inherit`: a domain that is removed while another deployment than that of its row is live
  stays in that one's column and is served again by its successor (`:330`).
  `life`: an unnamed run takes its host from the deployment that says RUNNING or ROLLED_BACK
  and was updated last (`services/deployment.service.ts:97-104`); if the live one is stopped
  or paused, it finds none, or an older one, and the route loses the domain while the row
  stays ACTIVE.  `rollback`: a rollback keeps the host of the live deployment on the route
  (`services/rollback.service.ts:108-117`) and leaves the column of its target as it was, so that
  the next run inherits that one's host.  `late`: a run that fails after its commit
  restores the old route, forgets its host and deletes its row.
* `ssh`, `StatusIsTrue`: `containerExists` takes an error for an absent container
  (`services/deployment.service.ts:1302`), so that a stop does nothing, logs that the
  container is absent and writes STOPPED while it runs (`:1274,699`).  A delete that fails
  after the removal of the container, with its images or Compose resources, writes the old
  status back, RUNNING among others (`:761,793`).  A stop or a pause whose answer is lost has
  had its effect and leaves RUNNING.  That at most one deployment says RUNNING holds all the
  same.  `overlap` and `gone`: requests read, command and write without a
  lock (`:699,788`), and nobody watches containers.  `again` and `rollback`:
  starting a deployment without traffic, or rolling back, leaves two that say RUNNING
  (`:887`, `services/rollback.service.ts:119`).
* `HeadIsLive` asks that every push was PROCESSED: one delivered while another is being
  queued is answered FAILED, and its redelivery, like that of a delivery whose process
  died, is answered 409 (`services/deployment/enqueue.service.ts:22`,
  `routes/webhooks.ts:82`).
* `lose`, `CancelStops`: after a timeout or without a connection the command goes on while
  the run is told that it failed, and the `finally` block has removed the pid file by
  which it could be stopped, if the connection is back (`services/deployment/runner.ts`).
* `early`, `InUseStaysUp`: `connect()` returns before the shared client is ready
  (`packages/vps/src/ssh.ts:59-68`).  `lose`: an operation whose connection was lost
  counts down the one that replaced it, which may then end while it is used (`:216-226`).
  `forget`, `UnusedEnds`: the file manager resolves its path outside the `try` block that
  disconnects, so that a failure there keeps a count for good
  (`services/file-manager.service.ts:115`).
* `race`, `StatusReachesPage`: a row read for a new connection is sent after the event of
  a later change and hides it (`routes/ws.ts:125`).  `leave`: the handler of `close` is
  set after an await, so that a connection which ends before keeps its slot until the API
  restarts (`routes/ws.ts:129`); a page that was refused too often gives up.
* `die` and `row`, `TerminalsEnd`: nobody looks for the ACTIVE rows of a process that died
  or of an update that failed (`services/terminal.service.ts`).
* `overlap`, `quiet`, `die`, `NewsIsTrue`: checks that meet tell what each has read, and a
  connection test or a bootstrap writes the status without an alert
  (`services/vps.service.ts:558`); five minutes of cooldown can hide the last alert.  The
  schedule selects active VPSs only, so that after an outage it takes a request to see
  the VPS come back (`:810`).
* A release row that is created while the process dies, before the project points to
  it, stays BUILDING (`services/release.service.ts:48`); a deployment created while the
  process dies before its job is added stays PENDING
  (`services/deployment/enqueue.service.ts:54`).  No property speaks of the death of the
  API in these two places.

## 4. Proofs

`DeploymentLocks_proofs`, for any number of slots, projects and VPSs and any lease
longer than the beat:

* `TypeCorrect`, under all faults, which no run repeats.
* `LeasesEndProperly`, under all faults: by cases over the actions, from the token
  comparison in `Extend` and `Delete`.
* `LeasesAreHeld`: `LeaseInv` is inductive.  `MutualExclusion` alone is not, since it
  says nothing of a slot between its two locks or of the time a lease has left.
  `LeaseInv` adds both: a slot past its first lock owns its key in Redis, and the
  lease has lost no more of its time than has passed since the slot's last beat.  The proof is per slot: a slot's own step, another
  slot's step, which cannot touch a key it does not own, and a tick, which the
  timing assumption admits only if every renewing slot can afford it.
* `OperationsExclude`: two slots cannot both own one key.  Assumes `Timely`, that
  is, neither `late` nor `renew` faults; finding 1 shows that it is needed.
* `LocksImplementMutex`: each step is a `Begin`, an `End` or a stutter of
  `SlotMutex`.  `Begin` is enabled because of `LeasesAreHeld`.

`ReleaseActivation_proofs`, for any number of deployments, rollbacks, releases and
attempts:

* `TypeCorrect`, under all faults, including that a container on the gateway's
  network exists.  Strengthened with `RunInv` (a job that has not ended has an
  attempt left; the points that add a release to a set have one) and `CallInv`
  (an API call has read what its kind says).
* `OneActiveRelease`, under all faults but `lapse`.  `OneActive` is not inductive:
  `Commit` supersedes the release its run *read* as active.  The strengthening is
  `LockInv` (whoever is between pick-up and end holds the lock) and `ActInv` (from
  `read` to the commit, what a run read is still the project's active release).
  Since only runs write `active` and the lock admits one, no other step can make
  the reading stale.
* `TrafficIsVerified`, under all faults, a lapse of the lock included: two runs at once
  can leave the wrong release live, but not an untested one.  `VerifiedInv` adds to
  `VerifiedTraffic` what will become traffic: the `.bak` file, the active release a run
  has read, and the run's own release once its check has passed.
* `ImplementsBlueGreen`, under all faults but `lapse`, from the two invariants:
  `Healthy` is a `Test` of `BlueGreen`, `ConfirmPromotion` and `Commit` are a `Switch`
  (because what the run read as active still is, and its release has been tested) unless
  the release is live already, and every other write of a status is a `Withdraw` or a
  stutter.
* `SuccessIsLive`, under all faults but `lapse`: from the switch of the route on a run knows
  that the route, and from its last probe on that the container and the network, are
  those of its release (`LiveInv`); nobody else may change them, because whoever runs
  holds the lock (`LockInv`).

Four properties need more than the lock: that commands are carried out and neither workers
nor locks are lost.  `Calm` says that `ssh`, `crash` and `lapse` are not among the faults;
failed checks and probes, and requests that race, are.  Section 3 has the counterexamples
without it.

* `PriorIsRetained`, under `Calm` and `EarlyCancel` (cancellations only without rollback
  jobs and without `race`): a release that has been active is recorded and keeps its
  container (`KeptInv`), because a deployment runs once: until its commit it owns no release
  or one, which is not and never was active, so that what its undo removes is its own
  (`OnceAt`).  `CancelInv` says that past the point of no return no cancellation of the
  deployment is there or on its way.
* `ActiveStaysIntact`, under the same and without `race`: `IntactInv` adds that whatever a
  run is about to undo, to detach or to replace is not the active release (`AwayAt`), and
  that the active release is not the candidate (`LiveStatus`).  With `race` the latter is
  false: a rollback request can name a release that goes live before the request is written.
* `CleanWhenIdle`, under `Calm` and without `cancel`: `CleanInv` gives for every point between
  two clean states what the route, its `.previous` copy and the network may hold
  (`WiredAt`).
* `NoDowntime`, under `Calm` and without `cancel` and `race`: `ServedInv` adds that the release
  to which the route is switched, and the one to which an undo returns, is reachable
  (`ServedAt`); finding 2 and the limit of `race` show that both are needed.

The service modules, each with an inductive invariant of its own, for any number of
jobs, callers, projects, operations, deliveries, releases, pages and terminals, and any set of fault
sets:

* `DeploymentJob_proofs`.  `GateHolds`: a run past the gate relies on checks that are
  stored for the deployment and not for the run.  `GateInv` adds that whoever is inside
  `executeDeployment` holds the slots (`SlotInv`), so that no other run stores checks
  meanwhile.  `PendingBacked`: that some job is there does not survive the end of that
  job, so `BackInv` says which job or call *backs* the deployment: one that will go on
  with it or still write another status (`PendInv`).  It needs that a job has no error
  before it throws one (`ErrInv`), that a call removes only what has a record
  (`RemoveInv`), that a job which waits says QUEUED as long as no worker dies
  (`QueuedInv`), and that calls which do not overlap are alone (`AloneInv`).
  `CancellationIsFinal` and `ReservationBacked`: while nobody has died and no call
  overlaps, the deployment has one job at a time, with its capacity reserved (`SoleInv`),
  a call that is under way is alone with it (`SoleCallInv`), and the job of a canceled
  deployment is the rest of its cancellation (`CancelInv`); that a reservation does not
  leak holds in more behaviours and has an invariant of its own (`HoldInv`).
* `Admission_proofs`, capacity.  `LimitHolds`: `LimitInv` adds to the limit that the project of an
  approval under way still fits once it is counted, and that there is only one such
  approval; the lemmas are about the cardinality of the set of admitted projects.
  `CapacityIsKept`: `FitInv` follows the two numbers a request has measured.  While it holds
  the lock nothing is added to what the others use (`SeenAt`, `CapHolder`), so that the
  decision made on the old numbers is still right when the reservation is written
  (`ShareFits`).  `committed()` counts by a fold over sets; the lemmas show that this fold is
  a sum, that a sum unfolds and grows with its set, and that the disk is the sum over
  projects of their largest share.  They are proved without induction over an operator:
  for *given* functions, a smallest set that would refute the equation has an element, and
  the set without it refutes it too.  The invariant needs `Builds`, which no
  property had stated: a job that builds has reserved for itself, hence its reservation is
  still its own when it asks for a larger one.
* `Admission_proofs`, webhooks.  `PushStartsOnce`: a delivery is answered by one request, which
  knows whether it has started the push (`CallInv`, `OneAnswers`).  `LastCommitIsLive`:
  once its push has started a run, the head is live, cloned, or a run that has not cloned
  yet will find it (`HeadInv`).
* `Retention_proofs`, `ActiveKept`, `PriorKept` and `PinsEnd`: a purge and a run exclude each other
  (`RunLockInv`).  A pin belongs to the candidate, whose request, job or run is under way, or,
  after the death of a worker, to a release whose rollback had been decided (`PinInv`).
  `KeepInv` follows a release from its check by the purge to the mark: it is not the active one, and it has no container by the time it could become it.
  `PriorKept`: a release is `Due` if it is old or enough newer ones have gone live, which it
  stays for good; a round works only on what is due or will not be live again (`DueInv`),
  and a new attempt removes by name only what belongs to failed ones (`AttemptInv`).
* `Server_proofs`, gateway: `ProvisioningBacked` from `GwBackInv` (PROVISIONING has an
  operation that has not set READY yet) and `RequestInv` (the operation of a request is
  its own until it is queued); `OneBootstrapAtATime` from `GwSoloInv`, which follows one
  request and one unfinished operation through the lock, the row and the worker.
* `Server_proofs`, domains: `IssuedVerified` from `DomInv` (a good result that waits to be
  written was found after the last binding).  `RouteBound` has two halves with an invariant
  each.  Which release the route leads to: `ReleaseInv`, with `LeadsInv` for what a request
  has read while it writes the route.  Which host it has, without the faults of section 3
  (`Apart`): `HostInv`.  Its `RestInv` says that at rest the route, the row and the column of
  the deployment that the next run will ask agree, `EditInv` and `RunInv` say for each point
  of a request and of a run which of them is still, or not yet, the other one, and
  `ClaimInv` that nobody else claims the name meanwhile.  Steps of another project are a
  frame argument.
* `Server_proofs`, connections: `PooledConnectionStays` from `UseInv`.  As long as the VPS keeps its
  connections and nobody joins one too early, all who use the VPS use the client of the
  entry, the entry counts exactly them, and every other client has ended; hence a timer
  that fires finds nobody.
* `Server_proofs`, health: `OwnerIsTold` from `NewsInv`, which says for each point of a check how the
  status it has read, the status of the row and the last notification are related.
* `Server_proofs`, remote commands: `CancellationIsTold` is the safety half of `CancelStops`.  A run
  whose command was canceled never reports that the command ended, and without a lost connection
  the process group is gone when it reports.  `ToldAt` says what a run knows of a key that
  was set while its command ran, `ShellAt` how far the shell is.
* `Server_proofs`, terminals: `SessionsAreListed`, the safety half of `TerminalsEnd`: a row says
  ACTIVE only while its session has not been cleaned up (`RowIsOurs`).
* `Lifecycle_proofs`: `StatusTellsTheTruth`.  `UpInv`, `DownInv` and `OneInv` are its three
  sentences, the first two for commands that do not fail, extended by what a run or a request has found and done so far
  (`CallIsUp`, `CallIsDown`, `CallIsActive`); `LifeSoloInv` is what makes this stable:
  without overlap one run or one request moves at a time, and what it has read is still so.
* `Lifecycle_proofs`, pages: `OpenPageIsCurrent`, a safety half of `StatusReachesPage`: once
  the events of all changes have been handled, a connected page shows the row.  `SockAt`
  says that what was sent last is what the page shows.  `PageTypes` has the count of slots:
  it is that of the listeners and of the connections lost while they were set up.
* `Services_proofs`, the specification that the run `services` checks, for every value of its
  constants: `ServicesTypes` is `TypeOK`, `ServicesKeepTheirPromises` is the conjunction of
  all other invariants of the run, and `ServicesCancelForGood` its action property.  Since no
  service writes a variable of another, a step of the composition is, for each, a step of
  its own or a stutter (`EachItsOwn`), and the conjunction of the inductive invariants is
  inductive.  Fairness plays no part, so that it does not matter that the composition has
  its own.

Type correctness of each module is part of these invariants and stated as `JobTypes`,
`CapacityTypes`, `HookTypes`, `RetTypes`, `GwTypes`, `DomTypes`, `PoolTypes`, `HealthTypes`,
`CommandTypes`, `TerminalTypes`, `LifecycleTypes` and `PageTypes`.

The assumptions are those on the constants, named in each module and evaluated by
TLC in every run.

What the proofs have changed in the models: that at most one deployment says RUNNING used to
exempt the fault `ssh`, which its proof does not need; in `CrTypeOK` an implication had taken in
the conjuncts next to it, so that it said less than it seemed to; `SshPool` and `LivePage`
now assume that their sets of users and pages are finite.

Only model-checked:

* Liveness (`EveryLeaseEnds`, `EveryJobEnds`, `JobsEnd`, `OperationsEnd`,
  `VerificationEnds`, `CancelStops`, `UnusedEnds`, `StatusReachesPage`, `TerminalsEnd`), which
  is beyond this prover.
* With the properties that a run expects to be violated, these are all that no theorem states:
  every invariant and every action property of a passing run, and both refinements, are proved.
  The safety halves of `CancelStops`, `StatusReachesPage` and `TerminalsEnd` are proved too.
* `ENABLED`, and with it that a fair step is possible when it has to be, is not reasoned about.

## 5. Not modelled

* Contents: builds, Compose rewriting, preflight checks, encryption, logs, mail.
  They compute on one run's own data.
* Administration, the sampling of metrics, the file manager, the runtime manager, hardening:
  request handling over single rows, or I/O on the VPS.
* Backups: a request dumps, writes the configuration and then prunes to the newest seven of
  each type, one after the other; files of dumps that failed count among the seven.
  `runScheduledBackup`, which does the same, is never called.
* Authentication: sessions and codes are single rows with a cache in front; what is to
  be said of them is a matter of a security review and not of this project.
* The web front-end but the status of a deployment, which is half of the repository's
  lines: forms and pages over the API, without state that another component reads.
* The in-memory locks the cache falls back to without Redis; they
  are seen by one process only, and the queue needs Redis anyway.
* Of the modelled parts: sandbox deployments and their cleanup job, the Compose and
  static branches of the requests in `Lifecycle` (where a request also takes the
  `containerId` from the row as it is when its command runs, not as it was when it began),
  further names of a project and deleted deployments in `DomainBinding`, more than one death
  in `Retention`, deployments from before releases existed, rollbacks of Compose stacks, CPU
  limits and the workspace budget, images and directories apart from their release, the
  connections to several hosts and the transfer of files, and adding a VPS.
  `docker ps -q` lists nothing for a stopped Compose stack
  (`services/deployment.service.ts:1299`), which a model of that branch would start from.

The definitions cover about a tenth of the repository's lines.  What is left, apart from the plan below, is not
protocol: the front-end, parsers, shell commands, schemas and updates of single rows
have no two steps that something else could come between.

## 6. Plan

What would come next, in this order:

1. Proofs: the safety halves of the liveness properties that have none yet (`JobsEnd`,
   `OperationsEnd`, `VerificationEnds`, `UnusedEnds`): what is never lost on the way to the end.
2. Compose stacks in `Lifecycle` and `ReleaseActivation`: a container per release becomes
   a stack per deployment, which `Retention` has already (`stack`).
3. An abstract specification of a deployment as its user sees it, implemented by
   `DeploymentJob` and `Lifecycle` together.
4. Sandbox deployments, which have an expiry and a cleanup job of their own.
