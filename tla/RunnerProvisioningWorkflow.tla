--------------------- MODULE RunnerProvisioningWorkflow ---------------------
(***************************************************************************)
(* The Workflow of src/src/runner-provisioning-workflow.ts: one instance   *)
(* per admission, with the id <job>-attempt-<n>, that polls for its        *)
(* reservation, configures the slot if it owns the configuration, creates  *)
(* the JIT runner, starts the Container and reports what went wrong.       *)
(*                                                                         *)
(* The calls to the scheduler are the calls of AccountRunnerScheduler; the *)
(* calls to GitHub and Cloudflare are steps of the instance alone, whose   *)
(* effects the module that composes the system adds.                       *)
(***************************************************************************)
EXTENDS AccountRunnerScheduler

VARIABLES
    stage,   \* where each instance is
    plan     \* the plan its claim returned

workflowVars == <<stage, plan>>

WorkflowIds == [job : Jobs, attempt : Attempts]
Stages == {"claiming", "reclaiming", "preparing", "configured", "reporting", "checking", "creating",
           "recording", "starting", "started", "failing", "finished"}
Plan == [slot : Slots, instances : Nat, generation : Nat, configure : BOOLEAN]

WorkflowInit ==
    /\ stage = [w \in WorkflowIds |-> "claiming"]
    /\ plan = [w \in WorkflowIds |-> None]

\* The instance w exists, with the payload {jobId, runnerName}.
Payload(w, name) == \E i \in workflows : i.job = w.job /\ i.attempt = w.attempt /\ i.name = name

At(w, s, name) == stage[w] = s /\ Payload(w, name)
Claiming(w, name) == At(w, "claiming", name) \/ At(w, "reclaiming", name)
Go(w, s) == stage' = [stage EXCEPT ![w] = s]
Finish(w) == Go(w, "finished") /\ plan' = [plan EXCEPT ![w] = None]

\* Mutant: the owner of a configuration reports it without preparing the application.
GrantedUnprepared(w, name) ==
    /\ Claiming(w, name)
    /\ ClaimKind(db, w.job, name) = "provision"
    /\ CallClaimProvisioning(w.job, name)
    /\ plan' = [plan EXCEPT ![w] = ProvisioningPlan(db, w.job)]
    /\ Go(w, IF ProvisioningPlan(db, w.job).configure THEN "configured" ELSE "checking")

\* claimProvisioning grants the reservation: the instance proceeds with the plan.
\* A replayed instance finds the result of its "prepare" step cached.
ClaimGranted(w, name) ==
    /\ Claiming(w, name)
    /\ ClaimKind(db, w.job, name) = "provision"
    /\ CallClaimProvisioning(w.job, name)
    /\ plan' = [plan EXCEPT ![w] = ProvisioningPlan(db, w.job)]
    /\ Go(w, CASE ~ProvisioningPlan(db, w.job).configure -> "checking"
               [] ProvisioningPlan(db, w.job).configure /\ stage[w] = "claiming" -> "preparing"
               [] OTHER -> "configured")

\* It is refused for good, or told to wait for the 120th time, which throws outside
\* the try: nothing is released.
ClaimEnds(w, name, kind) ==
    /\ Claiming(w, name)
    /\ ClaimKind(db, w.job, name) = kind
    /\ Interruptible
    /\ Finish(w)
    /\ UNCHANGED schedulerVars

\* prepareRunnerApplication and waitForRollout are through.
Prepared(w, name) ==
    /\ At(w, "preparing", name)
    /\ Go(w, "configured")
    /\ UNCHANGED <<schedulerVars, plan>>

ReportConfiguration(w, name) ==
    /\ At(w, "configured", name)
    /\ CallConfigurationReady(w.job)
    /\ Go(w, "reporting")
    /\ UNCHANGED plan

ReportCapacity(w, name) ==
    /\ At(w, "reporting", name)
    /\ CallCapacityPrepared(plan[w].slot, plan[w].generation)
    /\ Go(w, "checking")
    /\ UNCHANGED plan

\* canStart; a refusal fails the attempt like any other error.
CheckStart(w, name) ==
    /\ At(w, "checking", name)
    /\ Interruptible
    /\ Go(w, IF CanStart(db, w.job, name) THEN "creating" ELSE "failing")
    /\ UNCHANGED <<schedulerVars, plan>>

\* provisionRunner has the JIT configuration ...
JitRunnerCreated(w, name) ==
    /\ At(w, "creating", name)
    /\ Go(w, "recording")
    /\ UNCHANGED <<schedulerVars, plan>>

\* ... and records the runner (onJitRunnerCreated).
RecordJitRunner(w, name) ==
    /\ At(w, "recording", name)
    /\ CallRunnerProvisioned(w.job, name)
    /\ Go(w, "starting")
    /\ UNCHANGED plan

\* runner.start resolved, or the Container was already active.
ContainerStarted(w, name, from) ==
    /\ At(w, from, name)
    /\ Go(w, "started")
    /\ UNCHANGED <<schedulerVars, plan>>

\* onJitRunnerCreated or runner.start rejected: the step is retried, or its retries
\* are used up.
ContainerRefused(w, name) ==
    /\ At(w, "recording", name) \/ At(w, "starting", name)
    /\ Go(w, "creating") \/ Go(w, "failing")
    /\ UNCHANGED <<schedulerVars, plan>>

ReportStarted(w, name) ==
    /\ At(w, "started", name)
    /\ CallRunnerStarted(name)
    /\ Finish(w)

\* A repository that is no longer private, an API error, a rollout that never
\* completes, a call to the scheduler that fails (runnerStarted's, with the Container
\* running, included): anything else inside the try that throws.
Err(w, name) ==
    /\ \E s \in {"preparing", "configured", "reporting", "checking", "creating", "started"} : At(w, s, name)
    /\ Go(w, "failing")
    /\ UNCHANGED <<schedulerVars, plan>>

ReportFailure(w, name) ==
    /\ At(w, "failing", name)
    /\ CallProvisioningFailed(w.job, name)
    /\ Finish(w)

\* The engine runs an instance again from the top after a hibernation or a
\* crash.  Only the steps that prepare the application and create the runner are
\* durable; the calls to the scheduler are made anew.  Past the second step only
\* runnerStarted is left, which a replay repeats or finds pointless.
Replay(w, name) ==
    /\ \/ /\ \E s \in {"configured", "reporting"} : At(w, s, name)
          /\ Go(w, "reclaiming")
       \/ /\ \E s \in {"preparing", "checking", "creating", "recording", "starting"} : At(w, s, name)
          /\ Go(w, "claiming")
    /\ plan' = [plan EXCEPT ![w] = None]
    /\ UNCHANGED schedulerVars
=============================================================================
