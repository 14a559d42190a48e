# The runner pool in TLA+

A specification of the Cloudflare GitHub Actions runner pool: the account-level
scheduler (a Durable Object) and the provisioning workflow that turns an admission
into a runner; the cache that runners restore from and save to; the eligibility
checks of public repositories; the builder of the runner image and the rollouts of
what it built; and what GitHub, R2, the runner Containers and the Containers API do
around them. TLC checks small instances; TLAPS proves, for every value of the
constants, the reservation bookkeeping, when a slot may change its machine shape under a
job and a completed job come back, what the capacity planning loop computes, the
uniqueness of runner owners and workflow instances, where a second eligibility Check comes
from, the cache's promise and its quota, and what image builds and rollouts do to each
other and to the scheduler's changes. Where the code does not keep what its documents say, a
run shows the execution, and a second, weaker property says exactly what the exception is.
`PROJECT.json` lists the runs, the lines every definition stands for, the hazards and the
findings.

    tlc -workers 2 -config MCTwoMachines.cfg MCRunnerPool
    tlapm AccountRunnerSchedulerProofs.tla

## 1. The system

**Jobs.** A push makes GitHub queue a job and deliver a webhook. The Worker
(`index.ts`, `webhook.ts`) classifies it and calls the scheduler
(`account-runner-scheduler.ts`), one Durable Object per account. The scheduler
admits the oldest queued job when the account has capacity for it
(`scheduler-policy.ts`) and replies with an admission; the caller starts a
Workflow instance for it (`runner-provisioning-workflow.ts`). The instance claims
its reservation, configures the slot's Container application if it owns the
configuration, has the job's repository authorized (`runner-eligibility.ts`, one
Durable Object per job, which reports a rejection as a failed Check), registers a JIT
runner at GitHub and starts a Container (`provision.ts`, `cloudflare-containers.ts`).
GitHub gives the runner *any* queued job with its labels. Deliveries (`in_progress`,
`completed`) and callbacks (`onStart`, `onStop`) tell the scheduler what happened;
its alarm applies capacity changes and recovers jobs whose other half of the news
never came.

**Caches.** In the Container a proxy (`runner-results-proxy.mjs`) takes the requests
of actions/cache and sends them to the Worker (`runner-cache.ts`), which resolves
each to the job that the scheduler knows the runner executes, stores archives in R2
and has the quota controller (`runner-cache-quota.ts`, a Durable Object) commit them.

**Images.** A setup or a new source starts an image build workflow
(`runner-image-build-workflow.ts`), which copies the builder's own image into the
account's registry if need be, takes the builder (`runner-image-builder.ts`, a Durable
Object with one Container), polls the build, and rolls the image out to the same
applications whose ceilings and shapes the scheduler changes.

| Component | State | Operations | What is hard |
|---|---|---|---|
| Scheduler policy | none | `planConfiguredCapacity`, `selectCustomSlot`, `fitsAccountCapacity` | rounding in several dimensions, least-recently-released order |
| Account runner scheduler | SQLite: jobs, slots, capacity operations, JIT runners; the alarm | `submit`, `workflowJobStarted`, `workflowJobCompleted`, `claimProvisioning`, `configurationReady`, `capacityPrepared`, `canStart`, `runnerProvisioned`, `runnerStarted`, `runnerStopped`, `provisioningFailed`, `cacheAssignment`, `alarm`, the constructor | the alarm awaits two services while calls change its rows; restarts; callers that die; runners that change jobs |
| Provisioning workflow | durable step results, the plan in memory | `run` | replays; a plan older than the slot it names |
| Webhook delivery | none | three deliveries | lost, duplicated, late, reordered |
| Runner Containers | the live instance | start, stop, `onStart`, `onStop` | callbacks lost to a deployment; a runner is over after one job |
| Containers API client | ceiling, configuration and rollout per application | `prepareRunnerApplication`, `reconcileRunnerApplicationCapacity`, image rollouts | a change that lands and is not answered; two clients, no conditional writes |
| Runner cache quota | entry index in SQLite, objects in R2 | `recordLegacyCache`, `commitActionCache`, eviction, the rebuild | a promise chain across R2 calls, retried commits, restarts between manifest and row |
| Runner cache protocol | signed sessions, multipart uploads, the proxy's sessions | create, upload, complete, finalize, lookup, the legacy PUT | retried finalization, rivals for a key, scopes of jobs that swapped runners |
| Cache claim resolution | observed and assigned columns | `resolveRunnerCacheClaim`, `cacheAssignment` | the claim is older than the assignment |
| Runner eligibility | one row, one report in memory, Checks at GitHub | `authorize`, report, search, update, create | a lease that must outlast requests of an instance that is gone |
| Runner image builder | the build slot, the Container | `startBuild`, `buildStatus`, `abortBuild`, `beginRollOut`, ... | every method awaits with the slot in hand; expired leases |
| Image build workflow | durable step results | `run` | superseded builds, cleanup of a build it no longer owns |
| Bootstrap | a claim, blobs and manifest in the registry, the builder's application | copy, roll out | interrupted copies, two copiers |
| GitHub App client, profiles, traces, setup, scripts, image | none shared | pure functions or I/O | section 7 |

What makes each correct is section 4.

## 2. The modules

| Module | Extends | Models |
|---|---|---|
| `SchedulerPolicy` | | the pure functions of `scheduler-policy.ts` over slot rows and resource vectors |
| `ConfiguredCapacityPlan` | `SchedulerPolicy` | the donor loop of `planConfiguredCapacity`, one iteration per step: the reference for the closed form (`PlannedReductions`, `PlanExists`) used everywhere else |
| `ConfiguredCapacityPlanProofs` | `ConfiguredCapacityPlan`, `SumTheorems` | theorems |
| `AccountRunnerScheduler` | `SchedulerPolicy` | the Durable Object: `db`, the running `alarm`, the set of created `workflows` |
| `AccountRunnerSchedulerProofs` | `AccountRunnerScheduler`, TLAPS | theorems |
| `RunnerProvisioningWorkflow` | `AccountRunnerScheduler` | the instances: `stage` and `plan` per workflow id |
| `RunnerPool` | `RunnerProvisioningWorkflow` | GitHub, deliveries, Containers, the Containers API, faults; all pool-level properties |
| `RunnerPoolProofs` | `RunnerPool`, `AccountRunnerSchedulerProofs` | theorems |
| `RunnerShapeProofs` | `RunnerPoolProofs` | theorems |
| `RunnerCacheQuota` | | the quota controller and its bucket: `index`, `objects`, `manifests`, and where each `call` is |
| `RunnerCache` | `RunnerCacheQuota` | sessions, the proxy, uploads, assignments, lookups; all cache properties |
| `ActionCache` | | what a cache promises: entries are immutable and what is gone stays gone |
| `RunnerCacheProofs` | `RunnerCache`, `SumTheorems` | theorems |
| `RunnerEligibility` | | the per-job object, its requests to GitHub, restarts, a clock |
| `RunnerEligibilityProofs` | `RunnerEligibility`, TLAPS | theorems |
| `ContainerApplications` | | the applications, changes by the scheduler, rollouts, runners |
| `RunnerImageBuilder` | `ContainerApplications` | the builder's slot, its Container, its methods cut at their awaits |
| `RunnerImageBuildWorkflow` | `RunnerImageBuilder` | the instances from bootstrap to rollout and cleanup; all image properties |
| `RunnerImageProofs` | `RunnerImageBuildWorkflow`, TLAPS | theorems |
| `SumTheorems` | TLAPS | lemmas about sums over finite sets (`SumFunctionOnSet`), by induction over subsets |
| `MC...` | | instances for TLC |

The three families (pool, cache, images) share no variables and are checked apart.
What one needs of another is an action of its own: the cache's `Assign` is the
scheduler learning a runner's job, the images' `Reconfigure` and `ChangeCeiling` are
what the scheduler does to an application, a rejected authorization is the provisioning
workflow's `Err`.

**One method, one step: the scheduler.** A Durable Object runs one event at a time
and the scheduler's RPC methods await nothing but their own storage, so a method is an
operator from the database to `[db, admissions]` (`Submit`, `WorkflowJobStarted`,
`ReleaseJob`, ...), and `Call...` installs the result. Trailing calls in the code
(`admitNext`, `scheduleWorkAlarmIfNeeded`) are part of the operator.
`alarm()` is the exception: it is a sequence of steps cut where it awaits
GitHub's runner deletion (`DeleteRunner`/`RunnerDeleted`) and the Containers API
(`StartCapacityUpdate`/`FinishCapacityUpdate`). What it read before an await is
in `alarm.work` and `alarm.current`, and other calls run at exactly those points
(`Interruptible`), on whatever rows they like, the ones that the alarm holds copies of included
(`StaleRow`). A capacity request that nobody waits for any more, because the alarm took it for
failed or was lost, may still be served (`adrift`, `CapacityLandsLate`). `Restart` may strike at any await; the constructor
(`Reconstructed`) then reconciles the tables and the interrupted alarm is
delivered again.

**One await, one step: the other objects.** The quota controller, the eligibility
coordinator and the image builder await R2, GitHub, their Container or the API within
a method, so a method is several actions, cut there, and what it has read is in
`calls[c]`, `report` or `calls[w].seen`. The quota controller serializes its
operations (`Free` guards `Begin`), the coordinator lets calls join one report
(`JoinReport`), the builder does neither.

**The caller's half.** `StartWorkflows` is `startRunnerProvisioningWorkflows` and
the last loop of `alarm()`: ids are `<job>-attempt-<n>`, so a second `create()` has
no effect. With `CallersDie` the caller starts any subset of the admissions.

**Workflow instances.** `stage` is the position in `run`. `Replay` starts a
provisioning instance from the top: the two `step.do` results survive, everything else
is done again. `ClaimEnds(.., "wait")` is the 120th wait, which throws outside the
`try`. `Err` is anything that throws inside it. In the image build workflow everything
that changes state is a durable step; a retry of a step that failed is `CallFails`
followed by the call again, and `GiveUp` the last retry.

**Deliveries.** There is no queue of webhooks. GitHub's history (`github[j]`)
says which deliveries can arrive, and each may arrive at any time, any number
of times or never. `Assignments` restricts the `in_progress` delivery: `"late"` not
at all, `"in time"` so that a job only ends once the scheduler knows its runner.

**History.** Four variables record what no code stores and no guard reads, so that a
property can say which executions it excepts: `misreleased` (the slots of stale rows that
were released, in the pool), `late` (the commits whose Check was created by a request that
had already failed, in the eligibility model), `contested` (two starts had the build slot at once)
and `crossed` (applications where one of two clients had read what the other was about to
change), in the image model.

**Faults.** In the pool, `Fault` steps (a job cancelled before assignment, a Container
that dies before its job is over or is refused, a failed call, a replay, a failed API
answer, a restart) are counted and bounded by `MaxFaults`; deliveries out of order and
callbacks that never come are not faults, they are free. In the cache `Interrupt` ends
an operation at any await, as a restart or an R2 call that throws does; an answer that
is lost is a call that is made again. In the eligibility model a restart at any await
loses the report, and a request that fails or is lost with its sender may still arrive until
its timeout. In the image model a fault is a call that throws, a step that gives up, a lease that runs
out, a workflow that is terminated.

### Abstractions

* Time in the pool: a deadline column is "a deadline is set"; which have passed when the
  alarm looks is a choice. Every order of events the real clock allows is included (and
  a few it does not: a cleanup retry may be due again within the same alarm).
* Time in the eligibility model is a clock, because the lease is measured against
  requests: the assumption is that a request reaches GitHub within its timeout
  (`AbortSignal.timeout`) or not at all, whether or not its sender still waits. Leases of the image builder run out at any
  moment (`LeaseExpires`, a fault).
* `created_at` is the rank of the insertion; `last_released_at` is the relation
  `releasedBefore`.
* A profile stands for the labels; one repository; the runner id is the runner name.
* Dropped from the pool: the event log, failure texts, the columns only the runner cache
  reads (`head_sha`, cache scope, observed and assigned), the state column of a capacity
  operation (written, never read), claims without a runner name from workflow
  instances older than that field.
* The order in which the alarm takes several due rows is free; the code's is by
  deadline, which the model does not have. Slots are taken in the code's order.
* `onStop` reaches the scheduler at most once per Container.
* Cache: a manifest key is a scope and a name (repository and version in it), its digest
  is not modelled; a restore key is the set of names it is a prefix of; an archive's size
  is the number of parts it was sent in. The order in which calls reach the quota
  controller is free, the rebuild of the index is one step (only the controller itself
  writes manifests and deletes archives), and the running total is the sum of the rows
  (the code updates both in one transaction). An upload whose creation was not answered
  is one that is never continued.
* Images: one application stands for each; sources are images; progress reports,
  diagnostics and logs are left out; attempt counts and polling deadlines are a choice
  (`GiveUp`). A PATCH may or may not show in the next GET.
* Eligibility: the 30-day alarm deletes the row only when no call, report or request is left;
  they are all over within minutes.

## 3. Bounds

Each is a constant in a cfg, and every cfg of the pool has `CHECK_DEADLOCK FALSE`
because bounded systems do end: all jobs are over, all calls are answered, or a bound
is used up. So do the others.

*Pool.* `Attempts` bounds `runner_attempt` (a job displaced twice needs the third),
`Generations` bounds `capacity_generation` (every admission and reclamation takes one),
`MaxFaults` the faults, `Limit` and `Resources` the account in units of one machine,
`MaxInstances` the ceilings in the policy's run. `Attempts` and `Generations` are guards
of `Reply` and of the alarm's steps (`Bounded`), so a behaviour stops rather than
wrapping. Two jobs are what every cross-assignment needs; a third appears where two
jobs share a slot while another profile wants its capacity (`MCReclaim`). Two jobs
with two attempts give each of them a displacement and a retry. `MCTwoMachines` and
`MCReclaim` have `"in time"` deliveries, because those at any time multiply their states beyond
what a run can visit; `MCCustomSlots` and `MCRecovery` have `"late"` ones, and the theorems
have both.

*Cache.* `Attempts` bounds the calls for each object: two finalizations of one archive,
one of the other, one recording of the legacy object; `MaxInterrupts` = 1. Two archives
of two runners and an inherited one for two keys make rivals for a key, a retry behind a
rival, and an eviction of what was just stored; with a quota of 2 and sizes 1 to 3, one
archive is larger than the quota, and one can make two others go.

*Eligibility.* Three calls (a report that is joined, and one after it), two commits, two
pages of Checks, two restarts, three Checks, a lease of 6 for a longest report of 5.
`MCDuplicateCheck` needs two Checks and no restart.

*Images.* Two workflows with an image each, one application with a ceiling of at most 2, one
fault, one change by the scheduler, one runner, one further round in the queue, a config and a
layer to copy. Calls of the builder, passes and changes interleave at every await. The rounds are
the times a workflow may go back to the queue; with two of them the safety properties hold as well,
in 11.8 million states. `RolledBefore` is the set of images that applications have in their rollout
history: the first image, and in `MCReturningImage` also the one that is built.

## 4. Runs that pass

| Run | Instance | Shows |
|---|---|---|
| `MCConfiguredCapacityPlan` | 3 slots, 2 shapes in 2 dimensions, ceilings to 3, every target slot and release order; of the rows that are no donors, those both reserved and updating are left out (the planner refuses either alike) | the loop computes the closed form; a refusal is complete; the last cut is needed |
| `MCTwoMachines` | 2 jobs, 1 preset slot, 2 machines, 1 fault, deliveries in time | reservations cover active jobs where no stale row was released; one owner and one workflow per runner name |
| `MCCustomSlots` | 2 profiles, 2 custom slots, 2 faults, callers die, deliveries at any time | where no stale row was released, no slot changes shape under a job and Containers start on their job's shape; a configuring slot is held by a job |
| `MCReclaim` | 3 jobs, 2 preset and 1 custom slot, 3 machines, preset at 2, no fault | a reduction spares the runners |
| `MCRecovery` | 2 jobs, 1 machine, 1 fault, callers die, deliveries at any time | stopped and completed jobs are released, with the alarm's fairness alone; all reservations come back; completed jobs come back only by the two ways that are named |
| `MCRunnerCache` | 2 runners with swapped jobs, 3 archives, 2 keys, 1 legacy object, 1 interruption | the cache implements `ActionCache`; the index counts what restores find and the quota is kept after every operation; committed archives stay; lookups stay in scope; calls are answered |
| `MCRunnerEligibility` | 3 calls, 2 commits, 2 restarts, deleted Checks, failing requests that land | a second Check of a commit only by a creation that had failed; what was reported is remembered |
| `MCRunnerImage` | 2 builds from bootstrap to rollout, 1 fault, 1 change by the scheduler, 1 runner | the builder is moved to complete images only; live claims are kept; live leases end only by calls with a stale slot in hand; another's image is rolled out only after two starts at once; the scheduler's ceilings survive, and its shapes where nothing has crossed; without faults every instance ends |

`MCLiveness.cfg` is one more: 2 jobs on 1 machine, no fault and deliveries in time, for
`EveryJobIsExecuted`. It is small (4,559 states) and not among the runs of `PROJECT.json`.
With two machines the bounds on attempts and generations would stop behaviours that the
code goes on with.

Every property has a mutant in the modules (a comment `Mutant:` and an operator
next to the definition it would replace): the plausible bug with which TLC refutes it.

*Stale rows.* `recoverStoppedRunners` releases from a copy that it read before an await, and
section 5 shows what comes of it. `StaleRow` says when the copy is no longer true: the job has
been released meanwhile, or it is on another slot. The release then gives a reservation back
that is another job's, and from there on that slot (`misreleased`) may count too few. The
reservation and shape properties except such slots and no others: a job on any other slot is
untouched by what happened there.

`MCReclaim` starts in `ScaledInit`, the state that two earlier jobs leave behind:
the preset slot has kept a ceiling of two. The state is reachable from `PoolInit` with
two more jobs (admit both, grow to two, release both); starting there saves them.
Its `Attempts` are `{1}`, displacements are explored by the other runs, and the custom
job that takes the machine does not end (`CustomJobLasts`), so that the race between the
reduction and the preset slot's own jobs is what is left. It has no fault, because
`ReductionsSpareRunners` is about behaviours without: a reduction whose answer is lost, or whose
alarm is, may land when the slot is in use again (section 5).

`ReservationsReturned` holds in `MCRecovery` and fails with a second machine: with one machine
no two jobs hold reservations at once, so a swap cannot lose one.

`EveryInstanceEnds` is about waiting: a workflow waits for another's bootstrap, for the build
slot and for the rollout lease, a pass skips an application with a live runner and comes back, a
joiner whose build failed starts again. Its mutant is a joiner that never looks again.

`MCRunnerCache` starts from every bucket the controller may find when it is first
called: inherited archives of any size, named by a manifest or not, and legacy objects.
`Implementation` is the refinement: `entries[k]` is the archive a restore of `k` finds,
and an archive is `gone` once it was completed and deleted. What `ActionCache` forbids
is a save that replaces an entry and an archive that comes back.

### Fairness

`AlarmFairness` (`MCRecovery`): the alarm goes on, and a stopped job whose
deadline is set is eventually past it. The platform redelivers an alarm until it
succeeds, deadlines are absolute times, and every step that leaves work behind
arms the alarm again; nothing is assumed of GitHub, workflows or Containers.
The deadline needs strong fairness because the alarm may run many times before
it passes.

`PoolFairness` (`MCLiveness`) adds what a quiet day gives: each workflow
instance goes on, each delivery arrives, jobs end, spent Containers exit, and
GitHub gives a queued job a runner if one with its labels keeps being offered
(strong fairness: other jobs may take the runners in between). `onStart`, `onStop`
and the polling hooks have no fairness; they may all be lost. Fault steps never do.

`CacheFairness` (`MCRunnerCache`): R2 answers or throws, so the operation that runs goes
on, and the promise chain starts the next. It is one weak fairness condition for all
calls together, so nothing is assumed about which call comes first; runners, uploads and
interruptions have none.

`FairSpec` of the images (`MCRunnerImage`): the Workflows engine goes on with every
instance and the platform with the call of the builder that it awaits; builds end,
rollouts complete and are polled, a runner exits. Faults have none.

## 5. Runs that find a violation, and boundaries

Each configuration checks one property that a document, a comment or a test states, with what
the code does, and TLC shows an execution in which it does not hold. The first four, and
the lines that they are about, are in `PROJECT.json`; the others are run the same way
(`tlc -config MCDuplicateCheck.cfg MCRunnerEligibility`, and so on).

* `MCReservationLeak`: both jobs hold a slot when GitHub swaps their runners.
  `workflowJobStarted` moves the owner's slot to the other job and overwrites the
  slot that job held, whose reservation nobody returns.
* `MCOvercommit`: an admission on a slot whose reduction is in flight computes its
  target from the old ceiling; the freed machine goes to a custom slot, and then
  the first slot grows again.
* `MCStaleRelease`: while the alarm awaits the deletion of a runner, `onStop` or the `completed`
  delivery releases its job; the alarm then releases its copy. The second release takes the
  reservation of a job that has the slot by now, the slot counts nobody, and it is
  configured for another profile under a running job ("interrupting an active custom slot",
  `FUTUREPLANS.md:18`).
* `MCBuildResults`: a build's owner and a workflow that waits for it poll at once. One
  records the result and destroys the Container; the other, whose exec came before and
  whose reads came after, records that the build failed.

| Configuration | Property, and who states it | What happens |
|---|---|---|
| `MCPersistedView` (`MCRunnerPool`) | `AppliedCapacityIsGranted`: `applied_max_instances` is "this persisted view" of what Cloudflare has validated (`scheduler-policy.ts:17-20`) | A release lowers what a slot wants without a new generation; the reduction that follows is requested with the generation of the last admission, and `capacityPrepared` books its answer as the target of that admission. |
| `MCDuplicateCheck` (`MCRunnerEligibility`) | `AtMostOneCheck`: retries "must converge on at most one eligibility Check per GitHub job" (`permission_spec.md:149-152`) | A POST fails for its sender, which ends the lease at once; the next report searches, finds nothing and creates a Check; then the first POST lands. |
| `MCConcurrentStarts` (`MCRunnerImage`) | `RolledImagesAreOwn`: "Starting another build before Cloudflare confirms this process is gone risks both processes reading and writing the same workspace paths" (`runner-image-builder.ts:403-405`) | Two polls finalize one build, and the slower one writes its "complete" over the slot that another workflow has taken between them; a third workflow then takes the slot as well. Two builds run in one Container, and one workflow rolls out the other's image. |
| `MCExpiredRollOut` (`MCRunnerImage`) | `LiveLeasesAreKept`: "renew the lease and let a later poll reconcile it again" (`runner-image-builder.ts:525-530`) | Two calls reconcile one expired lease; one renews it, the other completes the rollout that it read before. |
| `MCReconfiguredRollout` (`MCRunnerImage`) | `SchedulerChangesSurvive`: "so concurrent scheduler-owned resource changes survive" (`cloudflare-containers.ts:511-515`) | The scheduler reconfigures an application between the second read of an image pass and its rollout, which takes the new shape back. |
| `MCReturningImage` (`MCRunnerImage`) | `DeployedImagesReachApplications`: "a desired configuration alone does not prove live instances moved" (`cloudflare-containers.ts:516-518`) | An image is built again after another was rolled out (A, B, A). Its PATCH shows, a runner makes the pass skip the rollout, and the next attempt takes the old completed rollout of A for this one: A is reported deployed while the instances run B. |

What else the modules show to be possible, and no property forbids:

*Pool.* An `in_progress` delivery after the `completed` one makes the job run again
(`workflowJobStarted` does not look at its status), and only a stop of its runner's Container
releases it again; it is the one delivery that `CompletedJobsStayCompleted` excepts. A `completed` delivery without an
`in_progress` one cancels the queued job, and the job whose runner it used waits for a spent
runner, so `EveryJobIsExecuted` needs deliveries in time. A capacity change whose request
outlives its answer or its alarm may land later: a reduction under runners that have come since,
an increase after the reduction that followed it. A stale release may also fail a job that
was queued again meanwhile.

*Cache.* A finalization that looked its archive up before an eviction of it, and is
retried after, stores a manifest for an archive that is gone: the key restores nothing
and cannot be saved until the row is evicted. An operation that is interrupted between the
manifest and its row leaves an entry that no later operation counts (`Interrupted` in the
properties). Two legacy puts of one key recorded in the other order leave a row with the
wrong size (`PutOnce`); evicting the older row of such a key deletes the newer object.
A completed upload that is never finalized is counted only by a rebuild. The creation time
that FIFO order goes by is the caller's. The proxy forgets a session by its key, so
a second save of a key by one runner may lose its session to the first's success.
A refused put whose manifest already names its archive is answered "stored" whether or
not the row is there.

*Eligibility.* The search for a lost report's Check ends after ten pages of a hundred, so
a second Check is possible on a commit with more.

*Images.* A bootstrap owner that stalled past its claim destroys
the Container of the build that has begun since (`stopForBootstrapRollout` looks at no
claim); one that fails without a retryable error keeps its claim for an hour, and a dead
owner's build lease outlasts the polls of a workflow that waits for it. A waiting workflow
can take the slot between a build's completion and its owner's `beginRollOut`, so that
the first build fails without any fault. A reconfiguration whose rollout is posted after an
image's reverts the image, and `prepareRunnerApplication`, retried after a PATCH without
a rollout, answers that the application is ready. A workflow does not wait for its image
rollouts to complete, nor notice that one was reverted.

## 6. Proofs

Each proof module strengthens what it proves to an invariant of the component's `Spec`
that is inductive, has one lemma per operator that says what it returns, one step per
action of `Next`, and draws the theorems from them. Nothing is assumed beyond the named
assumptions on the constants: no theorem has a hypothesis about who calls what when.

### `AccountRunnerSchedulerProofs` (`PolicyAssumption`, `SchedulerAssumption`)

* `SchedulerTypes`: `Spec => []SchedulerTypeOK`. Inductive by itself. One lemma per
  operator says what it returns in `Database` (`...Type`), one per alarm step that
  it keeps `AlarmType`; `NextStep` puts the actions together.
* `WaitingJobsHoldNothing`: `Spec => []Waiting(db)`.
* `ReservationsAreCovered`: no step makes a slot that counts its active jobs stop doing so,
  unless the step is the release of a stale row on that slot:
  `Spec => [][\A s \in Slots \ Misreleases : CoveredOn(db, s) => CoveredOn(db', s)]_schedulerVars`.
* `RestartsRecount`: after `Restart` every slot counts its active jobs, whatever was released
  before.

A release subtracts one from the slot named by the *caller's copy* of a row, which is only
right if the job still holds that slot; and an admission adds a job to a slot, which is only
counted right if the job held none before. `Consistent(d, T)` says so of the slots in `T`: jobs
that wait hold no slot (`Waiting`), and the slots of `T` are covered. Every method keeps it for
every `T`, because its own copies are read in the same step (`Preserves`); a step
of the alarm keeps it for the slots that are not `Misreleases`. When the alarm's copy is true, the
release is that of the row itself (`ReleaseJobPreserves`); when it is not, `StaleReleaseKeeps` says
that it takes one off the copy's slot and leaves the other slots covered. The argument is a
counting one: each operator is described by its effect on the set `ActiveOn(d, s)`
(`...Effect`): it gains or loses one job while `reserved` gains or loses one, or it
is contained in what it was; `Reconstructed` recounts with `Cardinality`.
The finite-set facts used are those of `FiniteSetTheorems`.

Nothing is assumed of the callers:
`Spec` lets anyone call any method with any arguments, during the alarm's awaits as well, so
the theorems hold in every
environment; `PoolRunsTheScheduler` below says that the pool is one. The capacity operators
appear in these proofs only through what their results are (rows with natural ceilings); the
numbers they compute are the subject of the next module.

### `ConfiguredCapacityPlanProofs` (`PolicyAssumption`, `PlanAssumption`)

With finite sets of slots and dimensions, which is what the sums are taken over:

* `LoopIsInOrder`: `Spec => []Loop`, the inductive invariant; `PlanKeepsTypes`:
  `Spec => []TypeOK`.
* `LoopComputesPlan`: `Spec => []LoopComputesClosedForm`.
* `RefusalsAreComplete`: `Spec => []RefusalIsComplete`.
* `LastCutsAreNeeded`: `Spec => []LastCutIsNeeded`.

The loop of `planConfiguredCapacity` mutates the ceilings while it goes through the donors;
every other module uses the closed form (`PlannedReductions`, `PlanExists`), in which each
donor gives what is still missing after all donors before it have given everything. `Loop` ties
them: as long as the plan does not fit, each donor visited *has* given everything it could, so
what a donor finds missing is what the closed form says is missing; the donors not visited have
given nothing, and none after the first that made the plan fit. `ReductionUnitsNeeded` is
shown to be the least number of units that is enough in every dimension, from which a refusal
means that the donors together cannot do it, and one unit less of the last reduction does not.
The instance's release order is arbitrary, and so are rows, shapes and limits.

### `SumTheorems` (no assumptions)

Two of the components take sums over sets: of the resources that slots may use, and of the
bytes that rows stand for. The lemmas say what a sum is in terms of a smaller one (`SumWith`,
`SumWithout`), and when two are equal or ordered (`SumSame`, `SumMonotone`, `SumOfPart`,
`SumOfSupport`, `SumReindexed`). They rest on an induction over the subsets of a finite set.
The library's induction theorem has a predicate for a parameter; `SubsetInduction` has a set
`Good` of subsets instead, which is enough for statements about elements of given sets, and
follows from the well-foundedness of strict inclusion.

### `RunnerPoolProofs` (the scheduler's assumptions, `PoolAssumption`, `NoneAssumption`)

* `PoolIsInOrder`: `PoolSpec => []InOrder`, the inductive invariant.
* `PoolKeepsTypes`: `PoolSpec => []TypeOK`.
* `PoolRunsTheScheduler`: `PoolSpec => Spec`, the refinement of the scheduler's
  specification, in which anyone may call any method, by the pool, in which GitHub, the
  Containers and the workflows do.
* `PoolReservationsAreCovered`: `PoolSpec => []ReservationsCoverActiveJobs`. The scheduler's
  theorem is about steps; along a behaviour of the pool, `misreleased` collects the slots that
  they except.
* `OwnersAreUnique`: `PoolSpec => []RunnerOwnersUnique`.
* `WorkflowsAreUnique`: `PoolSpec => []OneWorkflowPerRunner`.

`RunnerOwnersUnique` is about rows, but whether a row may take a name depends on every
place where names are kept. A row becomes an owner when GitHub runs its job on a runner
(and then takes over that runner's name), when its workflow registers the runner of its
admission, or when a Container reports. `PoolNames` therefore says of each row that it has
its own name (that of its job and attempt) or the name of the runner on which GitHub runs
the job (`SchedulerNames`); of each plan, that it carries the name of its workflow's id
(`PlansMade`), which is `OneWorkflowPerRunner`; and of each name that its job may still be
admitted under (`Ahead`), that no plan, Container, runner of GitHub or other row has it
(`NamesUnused`). The scheduler's half is `NamesKept`, what an operation may do to the name,
attempt and status of a row: keep them, or leave a waiting status, and hand out admissions
only to rows that were waiting; the exceptions are the admission itself, the retry and the
two deliveries (`SchedulerMoves`). `NoneAssumption` says that `None` is no runner's name.

* `ClosedJobsEndedAtGitHub`: `PoolSpec => []EndedAtGitHub(db, github)`, the inductive
  invariant: a row is `releasing` or `completed` only if GitHub's job is completed.
* `CompletedJobsAreOver`: `PoolSpec => CompletedJobsStayCompleted`.

The scheduler does not check it: `workflowJobStarted` puts any job that it is told of on the
runner, completed or not. What protects a completed job from the answer to the hook's poll is
that the job is in progress at GitHub then, and so, by the invariant, it is not completed here.
`Settled` says what every other operation does to a row: a
completed one stays, and none begins to be completed but by way of `releasing`; only the
`completed` delivery starts that, with GitHub's job over. `recoverStoppedRunners` writes the
status of the alarm's copy, which need not be that of the row; `CopiesEnded` says of every copy
in `releasing` that GitHub's job is over (GitHub does not take that back, and copies are made
from rows), and a copy that would bring a completed row back is a stale one. What is left are
the two exceptions of the property, and each is a real one (section 5).

### `RunnerShapeProofs` (as above)

* `SlotsStayInShape`: `PoolSpec => []InShape(db, Slots \ misreleased)`, the inductive invariant.
* `JobsKeepTheirShape`: `PoolSpec => []ActiveJobsKeepTheirShape`.
* `ConfiguringSlotsStayHeld`: `PoolSpec => []ConfiguringSlotsAreHeld`.

`ActiveJobsKeepTheirShape` looks at active jobs; `InShape(d, T)` says besides what the code
relies on when it reads a slot (`SlotShaped`: a slot being configured knows for which
profile, only such a slot has an owner, a preset slot is ready with the profile it was made
for; `ShapesDiffer`: no two custom slots have, or are becoming, one profile) and, of the slots
in `T`, that the reservations cover the active jobs (`Consistent`) and the jobs have the slot's
shape (`JobsShaped`). `Consistent` is the heart of it. A slot's shape changes in two places,
when `releaseJob` gives up a configuration with
the last reservation and when `admitNext` configures an idle slot for its job; in both
the slot has no reservation, so `NobodyHolds` says that no active job is on it. Everything else
keeps the shape of every slot or finishes its configuration (`SlotKeeps`), and a job that is
active on a slot of `T` afterwards has that slot from a job of the same profile (`Follows`): most
often itself, otherwise the job whose runner GitHub gave it, whose profile
`workflowJobStarted` compares. `KeepsShape` combines the two, and
`StaleReleaseKeepsShape` takes the slot of a stale row out of `T`.

`ConfiguringSlotsAreHeld` is about behaviours without a stale release. It is not the
scheduler's alone. Inside it, the reservations of a slot
being configured equal the jobs on it (`Held`, where `Consistent` has at least), because a
slot that is left without reservations is no longer being configured. One operation breaks
the equality: `workflowJobStarted` moves the job to the slot of its runner's former owner,
who waits again, and leaves the reservations alone, although the job may have held one
before. Two jobs on a slot being configured would leave one of two reservations behind. It does
not happen because the former owner's runner cannot have started there; and that is a fact
about the pool. `OnlyOwners` says that a job under way on such a slot owns the
configuration and its runner has not begun (its workflow has not got past `configurationReady`,
so that there is no Container of its name and GitHub runs nothing on it), or runs on another
job's runner, and then its own name has never been used. It is carried through the
scheduler's operations by `Sound` (what is under way on a slot being configured was so before,
with its name, owner and status), which all of them satisfy except a granted claim, the
delivery of an assignment and the reports of a runner's start and stop, each of which needs a
fact about names from `PoolNames`.

### `RunnerEligibilityProofs` (`EligibilityAssumption`, `NoneAssumption`)

* `EligibilityTypes`: `Spec => []TypeOK`.
* `DuplicatesAreExplained`: `Spec => []DuplicatesFollowFailures`.
* `ReportsStayKnown`: `Spec => ReportsAreRemembered`.

`AtMostOneCheck` does not hold (section 5). `DuplicatesFollowFailures` excepts the commits on
which a creation that had failed landed later, and is still not inductive: a request that is
lost *with its instance*, whose lease stays, may create a Check
after the last look that the next report took at GitHub. `IInv` says why it cannot:

* `Timely`: when each request of a report was sent, counted from the time its lease was
  taken: one timeout per page and per request before. `EligibilityAssumption` says that the
  lease outlasts their sum, as the code's constants have it, so
* `Outstanding`: until a request that was lost with its instance is past its deadline, the row is
  `creating` under a lease that has not run out, no report goes on, and GitHub has no Check of the
  commit, unless the commit is among the excepted ones;
* `Searched`: a report that is about to create has seen that there is none, or one that
  updates has seen the only one, again unless the commit is excepted;
* `Serving`, `Numbered`: a report works on the row of its identity, and the row names a
  Check that was created.

The arithmetic is products of a variable page number with a constant timeout; the lemma
`Products` states the three facts about them that the steps need.

### `RunnerCacheProofs` (`QuotaAssumption`, `CacheAssumption`)

* `CacheTypes`: `Spec => []TypeOK`, one operation at a time among them.
* `CacheImplementsPromise`: `Spec => Implementation`, the refinement of `ActionCache`.
* `CommittedArchivesAreKept`: `Spec => CommittedArchivesStay`.
* `LookupsAreScoped`: `Spec => []LookupsStayInScope`.
* `StoredBytesStayCounted`: `Spec => []StoredBytesAreCounted`.
* `CommitsStayWithinQuota`: `Spec => CommitsKeepTheQuota`.

`IInv` relates the three places that name an archive: a manifest (`Named`: of the key of its
session, and no other manifest names it), a row (`Counted`: with that manifest, and if the
manifest names another archive by now, the row's is gone), and a call between two of its
awaits (`Requested`, `Victims`). `Unlisted` says that an archive that restores find is
missing its manifest in the index only while its own commit is between the two, or was
interrupted there.

Then `StepKinds`: every step leaves the entries as they are (`Kept`), fills an empty one
with an archive that was not gone (`Saved`), deletes an archive that no entry names
(`Discarded`), or empties one entry and deletes its archive (`Evicted`). These are the
actions of `ActionCache` and its stuttering step, and `CommittedArchivesStay` reads off the
last kind that the manifest went with the archive. `LookupsStayInScope` and
`StoredBytesAreCounted` need an invariant each on top of `IInv`: `Scoped` (sessions are of
the scope of the job that the runner executes) and `Emptied` (when the row of a
victim is dropped, its manifest is gone).

`CommitsKeepTheQuota` compares the bytes that restores can find in the bucket with the quota,
after a commit that was granted; the code looks at neither, only at the sum over its rows.
What it needs is therefore that the objects that count have rows of their size (`Metered`):
an archive by `IInv`, a legacy object that was put once because only its own recording writes
that row, and, if a put has overwritten a victim in the meantime, because the recording of
that put is still to come. `HeldIsCounted` maps each counted object to its row, an
injection, and compares the two sums with `SumReindexed` and `SumOfPart`. The sets of
objects and keys are assumed finite, as the index of a bucket is.

### `RunnerImageProofs` (`BuilderAssumption`, `ImageNoneAssumption`)

* `ImageTypes`: `Spec => []TypeOK`.
* `BuilderImagesAreComplete`: `Spec => []BuilderImageIsComplete`.
* `ClaimsAreKept`: `Spec => LiveClaimsAreKept`.
* `LeasesOutlastFreshCalls`: `Spec => LeasesEndByStaleCalls`.
* `ForeignImagesAreContested`: `Spec => []ForeignImagesFollowContests`.
* `ChangesAreOnlyCrossed`: `Spec => []ChangesAreLostToOverlaps`.

There are no hypotheses: any number of workflows, applications and faults, leases that run out at
any moment, retries, and calls, passes and changes that interleave at every await. The
layers of the argument:

* `Typed` and `Complete` (a workflow past `Publish` has a manifest, whose blobs are all
  there); the registry and the claim change in one step each;
* `FreshCallsLeaveLeases`: a call that has the slot in hand as it is ends no live lease, because
  every branch that would asks for an expired one, or for a build that is over. `LeaseStands`
  goes through the other steps;
* `Builds`, until two starts have taken the slot at once (`Uncontested`): a result in the slot, in
  the Container or in a call is that of its build's owner, a Container with a build in it
  is set up for the owner of the slot (`SetUp`), and what a call has read before its await, stale
  or not, names its own build. Polls that finalize a build twice, leases that run out, builds
  that end under a restart leave it true; only `StartStages` of two workflows does not, and that is
  what `contested` records;
* `ShapeKept`, on applications where nothing has crossed: what the API is configured to
  (`Agrees`), rolls out and has been asked for (`Reshaped`) is the shape that the scheduler was last
  granted, or the one that its change under way is going to set. A rollout and a change both
  write a whole configuration that they have read before, so each has to be tied to what it has
  read. `CeilingKept` needs no exception: a rollout writes no ceiling.

`NextKinds` groups the actions by what they leave alone, so that each invariant is looked at
only for the groups that can disturb it.

### Only model-checked

What shape the Containers start on (`ContainersStartOnTheirShape`) and what
the alarm's reductions spare (`ReductionsSpareRunners`); `ReservationsReturned`, which
`MCReservationLeak` shows to fail for some constants; and liveness (`CallsAreAnswered`, `EveryJobIsExecuted`,
`StoppedJobsAreReleased`, `EveryInstanceEnds`), which with fairness and `ENABLED` is out
of the prover's reach. The properties of section 5 are refuted by TLC.

## 7. Not modelled

* `resolveRunnerForCache` and `status()` of the scheduler, the event log and the sweep
  over GitHub's jobs inside `reconcileRunnerAssignmentFromGitHub` (only the
  assignment it confirms, re-checked as the code does); its single-flight map and
  back-off. Deliveries for other repositories.
* Liveness of capacity changes and configurations: the model knows executions in which a
  configuration owner ends while others wait, an owner's admission is lost with its caller,
  or a capacity mark survives a restart, and the code has no step that comes back for them
  (listed under the hazards). A property that says so would only restate the gap; what
  is checked is the recovery of stopped jobs, and the jobs of a day without faults.
* Reads of the cache that change nothing (the legacy GET, downloads), token signatures and
  digests: R2 and the Web Crypto API do the work.
* The registry proxy of the builder, the one-shot builder, progress and diagnostics, the
  GitHub App client, profile parsing, resource traces: stateless calls, parsing, or upserts
  nothing depends on.
* Setup, deploy and teardown (`src/scripts`): interactive tools that one operator runs; a
  model would transcribe the order of their prompts. Two hazards of theirs:
  teardown deletes the Worker, and the ownership manifest with it, before the other
  resources, so one that is interrupted afterwards cannot be run again; and applications
  and workflows recorded as pending never appear in its plan (the first is among the hazards).
* The runner image's shell scripts, except the job-started hook (`HookPolls`) and the
  cache proxy; development tooling.

## 8. What is left

In the order in which it would add most: an abstract specification of reservations (jobs
hold units of slots) that `AccountRunnerScheduler` implements; the awaits of the assignment sweep; and the three
families composed where an image rollout meets the scheduler's own capacity alarm, of which
`ContainerApplications` now has the effect only.
