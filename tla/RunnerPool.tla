----------------------------- MODULE RunnerPool -----------------------------
(***************************************************************************)
(* The whole pool: the scheduler and its workflows with GitHub, the runner *)
(* Containers and the Cloudflare Containers API around them.               *)
(*                                                                         *)
(* GitHub and Cloudflare are external.  They do what src/ relies on: a JIT *)
(* runner executes at most one job, any queued job with its labels; an     *)
(* application runs at most max_instances Containers.  Webhook deliveries  *)
(* are not queued: GitHub's history says which deliveries can arrive, at   *)
(* any time and any number of times, so loss, duplication and reordering   *)
(* need no steps of their own.                                             *)
(***************************************************************************)
EXTENDS RunnerProvisioningWorkflow

CONSTANTS
    Assignments,  \* when a job's in_progress delivery arrives: before the job ends
                  \* ("in time"), or at any time or never ("late")
    MaxFaults     \* bound: the number of faults in a behaviour

ASSUME PoolAssumption == Assignments \in {"in time", "late"} /\ MaxFaults \in Nat

VARIABLES
    github,      \* job -> its status at GitHub and the runner that executes it
    registered,  \* JIT runners registered at GitHub that have executed nothing yet
    containers,  \* live runner Containers: [name, slot]
    stops,       \* runners whose Container stopped and whose onStop has not run
    cloud,       \* slot -> the application's max_instances and machine shape
    landed,      \* has the capacity change in flight taken effect?
    adrift,      \* capacity changes that nobody waits for and that may still take effect
    faults,      \* the faults so far
    misreleased  \* history: the slots of the stale rows that were released

poolVars == <<github, registered, containers, stops, cloud, landed, adrift>>
vars == <<schedulerVars, workflowVars, poolVars, faults, misreleased>>

GitHubJob == [status : {"queued", "in_progress", "completed"}, runner : RunnerNames \cup {None}]

TypeOK ==
    /\ SchedulerTypeOK
    /\ stage \in [WorkflowIds -> Stages]
    /\ plan \in [WorkflowIds -> Plan \cup {None}]
    /\ github \in [Jobs -> GitHubJob]
    /\ registered \subseteq RunnerNames
    /\ containers \subseteq [name : RunnerNames, slot : Slots]
    /\ stops \subseteq RunnerNames
    /\ cloud \in [Slots -> [maxInstances : Nat, profile : Profiles \cup {None}]]
    /\ landed \in BOOLEAN
    /\ adrift \subseteq DueSlot
    /\ faults \in 0 .. MaxFaults
    /\ misreleased \subseteq Slots \cup {None}

PoolInit ==
    /\ Init
    /\ WorkflowInit
    /\ github = [j \in Jobs |-> [status |-> "queued", runner |-> None]]
    /\ registered = {} /\ containers = {} /\ stops = {}
    /\ cloud = [s \in Slots |-> [maxInstances |-> 1, profile |-> InitialSlot(s).profile]]
    /\ landed = FALSE /\ adrift = {}
    /\ faults = 0 /\ misreleased = {}

Live(name) == \E c \in containers : c.name = name
LiveOn(s) == {c \in containers : c.slot = s}
Executing(name) == \E j \in Jobs : github[j].status = "in_progress" /\ github[j].runner = name

-----------------------------------------------------------------------------
(* GitHub and its deliveries. *)

\* A runner takes any queued job with its labels, not the one it was created for.
GitHubAssigns(j, name) ==
    /\ github[j].status = "queued"
    /\ name \in registered /\ Live(name)
    /\ JobProfile[name.job] = JobProfile[j]
    /\ github' = [github EXCEPT ![j] = [status |-> "in_progress", runner |-> name]]
    /\ registered' = registered \ {name}
    /\ UNCHANGED <<schedulerVars, workflowVars, containers, stops, cloud, landed, adrift>>

GitHubCompletes(j) ==
    /\ github[j].status = "in_progress"
    /\ Assignments = "in time" => db.jobs[j].runner = github[j].runner
    /\ github' = [github EXCEPT ![j].status = "completed"]
    /\ UNCHANGED <<schedulerVars, workflowVars, registered, containers, stops, cloud, landed, adrift>>

\* A job cancelled before any runner took it.  Its completed delivery has no
\* runner_name, so classifyGitHubWebhookIntent ignores it.
GitHubCancels(j) ==
    /\ github[j].status = "queued"
    /\ github' = [github EXCEPT ![j].status = "completed"]
    /\ UNCHANGED <<schedulerVars, workflowVars, registered, containers, stops, cloud, landed, adrift>>

DeliverQueued(j) ==
    /\ CallSubmit(j)
    /\ UNCHANGED <<workflowVars, poolVars>>

DeliverStarted(j) ==
    /\ github[j].runner # None
    /\ Assignments = "late" \/ github[j].status = "in_progress"
    /\ CallWorkflowJobStarted(j, github[j].runner)
    /\ UNCHANGED <<workflowVars, poolVars>>

DeliverCompleted(j) ==
    /\ github[j].status = "completed" /\ github[j].runner # None
    /\ CallWorkflowJobCompleted(j)
    /\ UNCHANGED <<workflowVars, poolVars>>

\* The job-started hook polls runner-cache, and the scheduler asks GitHub itself.
HookPolls(j) ==
    /\ github[j].status = "in_progress" /\ Live(github[j].runner)
    /\ CallCacheAssignment(j, github[j].runner)
    /\ UNCHANGED <<workflowVars, poolVars>>

-----------------------------------------------------------------------------
(* Containers. *)

ContainerStops(c) ==
    /\ containers' = containers \ {c}
    /\ stops' = stops \cup {c.name}
    /\ UNCHANGED <<schedulerVars, workflowVars, github, registered, cloud, landed, adrift>>

OnStart(name) ==
    /\ Live(name)
    /\ CallRunnerStarted(name)
    /\ UNCHANGED <<workflowVars, poolVars>>

OnStop(name) ==
    /\ name \in stops
    /\ CallRunnerStopped(name)
    /\ stops' = stops \ {name}
    /\ UNCHANGED <<workflowVars, github, registered, containers, cloud, landed, adrift>>

-----------------------------------------------------------------------------
(* The workflow's calls to GitHub and Cloudflare. *)

\* exactMaxInstances, with the machine shape of the job's profile.
Prepare(w, name) ==
    /\ Prepared(w, name)
    /\ cloud' = [cloud EXCEPT ![plan[w].slot] =
                    [maxInstances |-> plan[w].instances, profile |-> JobProfile[w.job]]]
    /\ UNCHANGED <<github, registered, containers, stops, landed, adrift>>

\* generate-jitconfig refuses a name that is in use.
CreateJitRunner(w, name) ==
    /\ ~Live(name) /\ name \notin registered /\ ~Executing(name)
    /\ JitRunnerCreated(w, name)
    /\ registered' = registered \cup {name}
    /\ UNCHANGED <<github, containers, stops, cloud, landed, adrift>>

NameInUse(w, name) ==
    /\ At(w, "creating", name)
    /\ ~Live(name) /\ (name \in registered \/ Executing(name))
    /\ Err(w, name)
    /\ UNCHANGED poolVars

StartContainer(w, name) ==
    /\ ContainerStarted(w, name, "starting")
    /\ Cardinality(LiveOn(plan[w].slot)) < cloud[plan[w].slot].maxInstances
    /\ containers' = containers \cup {[name |-> name, slot |-> plan[w].slot]}
    /\ UNCHANGED <<github, registered, stops, cloud, landed, adrift>>

AlreadyActive(w, name) ==
    /\ Live(name)
    /\ ContainerStarted(w, name, "creating")
    /\ UNCHANGED poolVars

\* provisionRunner deletes the JIT runner it cannot use; that may fail as well.
RefuseContainer(w, name) ==
    /\ ContainerRefused(w, name)
    /\ registered' \in {registered, registered \ {name}}
    /\ UNCHANGED <<github, containers, stops, cloud, landed, adrift>>

WorkflowStep(w, name) ==
    \/ Prepare(w, name)
    \/ CreateJitRunner(w, name)
    \/ NameInUse(w, name)
    \/ StartContainer(w, name)
    \/ AlreadyActive(w, name)
    \/ /\ \/ ClaimGranted(w, name)
          \/ \E kind \in {"cancelled", "missing"} : ClaimEnds(w, name, kind)
          \/ ReportConfiguration(w, name)
          \/ ReportCapacity(w, name)
          \/ CheckStart(w, name)
          \/ RecordJitRunner(w, name)
          \/ ReportStarted(w, name)
          \/ ReportFailure(w, name)
       /\ UNCHANGED poolVars

WorkflowFault(w, name) ==
    \/ RefuseContainer(w, name)
    \/ /\ ClaimEnds(w, name, "wait") \/ Err(w, name) \/ Replay(w, name)
       /\ UNCHANGED poolVars

-----------------------------------------------------------------------------
(* The alarm's calls to GitHub and Cloudflare. *)

CapacityInFlight == alarm.phase = "updating" /\ alarm.current # None

\* prepareRunnerApplication without resources only grows, reconcileRunnerApplicationCapacity only shrinks.
Resized(due) ==
    [cloud EXCEPT ![due.slot].maxInstances =
        IF due.reducing = (due.target < @) THEN due.target ELSE @]

CapacityLands ==
    /\ CapacityInFlight /\ ~landed
    /\ cloud' = Resized(alarm.current)
    /\ landed' = TRUE
    /\ UNCHANGED <<schedulerVars, workflowVars, github, registered, containers, stops, adrift>>

\* The call that nobody waits for any more; Cloudflare may still serve it.
Unanswered == IF CapacityInFlight /\ ~landed THEN {alarm.current} ELSE {}

CapacityAnswered(succeeded) ==
    /\ succeeded => landed
    /\ FinishCapacityUpdate(succeeded)
    /\ landed' = FALSE
    /\ adrift' = adrift \cup Unanswered
    /\ UNCHANGED <<workflowVars, github, registered, containers, stops, cloud>>

CapacityLandsLate(due) ==
    /\ cloud' = Resized(due)
    /\ adrift' = adrift \ {due}
    /\ UNCHANGED <<schedulerVars, workflowVars, github, registered, containers, stops, landed>>

\* GitHub deletes a runner that is not executing a job; 422 means busy.
DeletionAnswered(gone, busy) ==
    /\ RunnerDeleted(gone)
    /\ busy = Executing(alarm.current.runnerId)
    /\ registered' = IF gone THEN registered \ {alarm.current.runnerId} ELSE registered
    /\ UNCHANGED <<workflowVars, github, containers, stops, cloud, landed, adrift>>

AlarmStep ==
    \/ CapacityLands
    \/ CapacityAnswered(TRUE)
    \/ DeletionAnswered(TRUE, FALSE)
    \/ DeletionAnswered(FALSE, TRUE)
    \/ /\ \/ RecoverStoppedRunners
          \/ DeleteRunner
          \/ NothingToDelete
          \/ RetryCleanups
          \/ PlanCapacityUpdates
          \/ StartCapacityUpdate
          \/ CheckCapacityHolds
          \/ CheckCapacityHold
          \/ AlarmEnds
       /\ UNCHANGED <<workflowVars, poolVars>>

AlarmFault == CapacityAnswered(FALSE) \/ DeletionAnswered(FALSE, FALSE)

PoolRestart ==
    /\ Restart
    /\ landed' = FALSE
    /\ adrift' = adrift \cup Unanswered
    /\ UNCHANGED <<workflowVars, github, registered, containers, stops, cloud>>

-----------------------------------------------------------------------------

\* A runner's Container exits when the one job of the runner is over.
Spent(name) == \E j \in Jobs : github[j].status = "completed" /\ github[j].runner = name

Instances == {<<[job |-> i.job, attempt |-> i.attempt], i.name>> : i \in workflows}

Progress ==
    \/ \E j \in Jobs :
        \/ GitHubCompletes(j)
        \/ DeliverQueued(j) \/ DeliverStarted(j) \/ DeliverCompleted(j) \/ HookPolls(j)
        \/ \E name \in registered : GitHubAssigns(j, name)
    \/ \E c \in containers : OnStart(c.name) \/ (Spent(c.name) /\ ContainerStops(c))
    \/ \E name \in stops : OnStop(name)
    \/ \E i \in Instances : WorkflowStep(i[1], i[2])
    \/ AlarmStep
    \/ \E due \in adrift : CapacityLandsLate(due)

Fault ==
    \/ \E j \in Jobs : GitHubCancels(j)
    \/ \E c \in containers : ~Spent(c.name) /\ ContainerStops(c)
    \/ \E i \in Instances : WorkflowFault(i[1], i[2])
    \/ AlarmFault
    \/ PoolRestart

\* Every step of the pool keeps the history.
Recorded == misreleased' = misreleased \cup Misreleases

PoolNext ==
    /\ \/ Progress /\ UNCHANGED faults
       \/ Fault /\ faults < MaxFaults /\ faults' = faults + 1
    /\ Recorded

PoolSpec == PoolInit /\ [][PoolNext]_vars

(***************************************************************************)
(* Fairness.  The alarm is redelivered until it succeeds and the deadline  *)
(* of every stopped job passes.  Without faults, moreover, the workflow    *)
(* engine goes on with every instance; the deliveries of a job arrive;     *)
(* GitHub gives every queued job a runner if one with its labels keeps     *)
(* coming up, jobs end, and the Container of a spent runner exits.  The    *)
(* hooks, onStart and onStop may be lost.                                  *)
(***************************************************************************)
Recovers(j) == RecoverStoppedRunners /\ \E row \in alarm'.work : row.job = j

Fine(A) == A /\ UNCHANGED faults /\ Recorded

AlarmFairness ==
    /\ WF_vars(Fine(AlarmStep))
    /\ \A j \in Jobs : SF_vars(Fine(Recovers(j) /\ UNCHANGED <<workflowVars, poolVars>>))

PoolFairness ==
    /\ AlarmFairness
    /\ \A j \in Jobs :
         /\ WF_vars(Fine(DeliverQueued(j)))
         /\ WF_vars(Fine(DeliverStarted(j)))
         /\ WF_vars(Fine(DeliverCompleted(j)))
         /\ WF_vars(Fine(GitHubCompletes(j)))
         /\ SF_vars(Fine(\E name \in registered : GitHubAssigns(j, name)))
    /\ \A w \in WorkflowIds :
         WF_vars(Fine(\E i \in Instances : i[1] = w /\ WorkflowStep(w, i[2])))
    /\ WF_vars(Fine(\E c \in containers : Spent(c.name) /\ ContainerStops(c)))

RecoverySpec == PoolSpec /\ AlarmFairness
FairPoolSpec == PoolSpec /\ PoolFairness

-----------------------------------------------------------------------------
(* Properties. *)

\* Once no job is active, no slot is reserved: the acceptance bar of FUTUREPLANS.md,
\* "[without] leaking a reservation after a job finishes".
ReservationsReturned ==
    Active(db) = {} => \A s \in Slots : db.slots[s].reserved = 0

\* runnerOwner and runnerStarted take the first row with a runner's name: among the
\* jobs that can own a runner there is only one, however often GitHub swaps the jobs
\* of two runners and whatever names the displaced jobs come back with.
RunnerOwnersUnique ==
    \A j, k \in WithStatus(db, {"provisioning", "running", "releasing"}) :
        j # k => db.jobs[j].runner # db.jobs[k].runner

\* No two workflow instances create runners under one name: the retry suffix and the
\* deterministic instance ids keep a displaced job's attempts apart.
OneWorkflowPerRunner ==
    \A i, k \in workflows : i # k => i.name # k.name

\* Nothing that GitHub's reassignments, lost callbacks, restarts and recoveries do
\* makes the scheduler forget a reservation: every slot counts at least the active
\* jobs on it (releaseJob, workflowJobStarted, reconcileSlotReservations).  Only the
\* release of a stale row does, on the slot of that row (recoverStoppedRunners).
ReservationsCoverActiveJobs == \A s \in Slots \ misreleased : CoveredOn(db, s)

\* A job that GitHub completed and the scheduler released does not come back to life:
\* no poll of the job-started hook, stop or recovery revives it (cacheAssignment,
\* runnerStopped, recoverStoppedRunners).  What does is its own in_progress delivery
\* arriving after the fact (workflowJobStarted) and the release of a stale row.
CompletedJobsStayCompleted ==
    [][\A j \in Jobs :
         db.jobs[j].status = "completed" =>
            \/ db'.jobs[j].status = "completed"
            \/ github[j].status = "completed" /\ DeliverStarted(j)
            \/ \E row \in InRecovery : row.job = j /\ StaleRelease(row)]_vars

\* The applied_max_instances that admission relies on is a number that the Containers
\* API has really granted: scheduler-policy.ts calls it "this persisted view" of "the
\* capacity Cloudflare validates for a Container application".  capacityPrepared books
\* the target that a generation has by then, not the one that was requested.
AppliedCapacityIsGranted ==
    \A s \in Slots : ~db.slots[s].updating => db.slots[s].applied <= cloud[s].maxInstances

\* The applications never ask for more than the account has, idle ceilings included:
\* planConfiguredCapacity reclaims before it grows ("without overcommitting account
\* resources", FUTUREPLANS.md).
ConfiguredCapacityFits ==
    FitsConfiguredCapacity(
        Consumption({s \in Slots : cloud[s].profile # None},
                    LAMBDA s : cloud[s].profile, LAMBDA s : cloud[s].maxInstances))

\* When nothing fails, a reclaimed ceiling never falls below the runners that have a job
\* or wait for one under it: a reduction is planned, awaited and applied while admissions
\* go on ("A running or reserved slot is never a reclamation candidate",
\* scheduler-policy.ts).  A slot on which a stale row was released counts too few.
ReductionsSpareRunners ==
    faults = 0 =>
        \A s \in Slots \ misreleased :
            Cardinality({c \in LiveOn(s) : ~Spent(c.name)}) <= cloud[s].maxInstances

\* A slot has, or is being given, the machine shape of every job that is active on it:
\* no custom slot is reconfigured under a job (selectCustomSlot, releaseJob), unless
\* a stale row was released on it.
ActiveJobsKeepTheirShape ==
    \A j \in Active(db) :
        db.jobs[j].slot \in Slots \ misreleased =>
            CandidateProfile(db.slots[db.jobs[j].slot]) = JobProfile[j]

\* Every Container is started on a machine of its job's shape, although the workflow
\* that starts it read the slot long before (claimProvisioning, canStart), unless a
\* stale row was released on the slot.
ContainersStartOnTheirShape ==
    [][\A c \in containers' \ containers :
         c.slot \in misreleased \/ cloud[c.slot].profile = JobProfile[c.name.job]]_vars

\* No application changes its machine shape under a Container that has a job or waits for
\* one, "interrupting an active custom slot" (FUTUREPLANS.md).  The release of a stale
\* row lets it happen: the slot counts nobody, and is configured for another profile.
CustomSlotsAreNotInterrupted ==
    [][\A s \in Slots : cloud'[s].profile # cloud[s].profile =>
                           \A c \in LiveOn(s) : Spent(c.name)]_vars

\* A slot that is being configured is held by a job: one that nobody holds would be no
\* candidate for another profile, and no owner would be left to make it ready
\* (releaseJob takes it back to idle with its last reservation).  A stale release may
\* end a job that holds another slot by then.
ConfiguringSlotsAreHeld ==
    misreleased = {} =>
        \A s \in Slots : db.slots[s].state = "configuring" => ActiveOn(db, s) # {}

\* A job whose Container stopped or whose completion was reported gives its capacity
\* back, even if the other of the two events never arrives (recoverStoppedRunners).
StoppedJobsAreReleased ==
    \A j \in Jobs : (db.jobs[j].status \in {"stopped-awaiting-completion", "releasing"})
                       ~> (db.jobs[j].status \notin {"stopped-awaiting-completion", "releasing"})

\* Without faults every job is executed: it is admitted, provisioned and given a
\* runner, whichever runner it turns out to be (workflowJobStarted, admitNext).
EveryJobIsExecuted == <>(\A j \in Jobs : github[j].status = "completed")
=============================================================================
