---------------------- MODULE RunnerImageBuildWorkflow ----------------------
(***************************************************************************)
(* The image build workflows (runner-image-build-workflow.ts) around the   *)
(* builder and the applications: each push or setup starts one.            *)
(*                                                                         *)
(* An instance brings the private builder image about (or waits for the    *)
(* instance that does), takes the build slot (or waits for the build that  *)
(* holds it, and tries again), and rolls the image it has built out to the *)
(* runner applications.  Steps are retried; results of steps are durable,  *)
(* so a replay repeats nothing.                                            *)
(***************************************************************************)
EXTENDS RunnerImageBuilder

CONSTANTS
    MaxRounds,  \* maximumBuildQueueRounds
    Blobs       \* the config and the layers of the builder's image

ASSUME WorkflowAssumption == MaxRounds \in Nat \ {0} /\ IsFiniteSet(Blobs)

VARIABLES
    flows,     \* workflow -> where run() is and what it has in hand
    pass,      \* workflow -> its pass over the applications, or None
    roller,    \* the workflow whose pass was the last to begin
    bootstrap  \* the claim (storage), the builder's image in the account's
               \* registry, and the builder's own application

flowVars == <<flows, pass, roller, bootstrap>>
vars == <<appVars, builderVars, flowVars>>

Stages == {"bootstrap", "copy", "copying", "swap", "await", "record", "start", "starting", "poll", "polling",
           "roll", "pass", "cleanup", "aborting", "deployed", "failed", "interrupted"}
Flow == [stage : Stages, owns : BOOLEAN, round : 1 .. MaxRounds, result : Results \cup {None}]
Pass == [left : SUBSET Applications, app : Applications \cup {None}, pc : {"inspect", "patch", "reread", "post"},
         seen : Application \cup {None}, reissue : BOOLEAN, skipped : BOOLEAN]
Bootstrap == [owner : Workflows \cup {None}, expired : BOOLEAN, ready : BOOLEAN,
              image : {"public", "private"}, rolling : BOOLEAN,
              blobs : SUBSET Blobs, manifest : BOOLEAN]

ASSUME ImageNoneAssumption ==
    /\ None \notin Applications /\ None \notin Shapes
    /\ None \notin Configuration /\ None \notin Application /\ None \notin Change
    /\ None \notin Slot /\ None \notin Pass /\ None # "failed"

Stage(w) == flows[w].stage
Moves(w, stage) == flows' = [flows EXCEPT ![w].stage = stage]
Over(w) == Stage(w) \in {"deployed", "failed", "interrupted"}

Init ==
    /\ ApplicationsInit /\ BuilderInit
    /\ flows = [w \in Workflows |-> [stage |-> "bootstrap", owns |-> FALSE, round |-> 1, result |-> None]]
    /\ pass = [w \in Workflows |-> None]
    /\ roller = None
    /\ \E ready \in BOOLEAN, blobs \in SUBSET Blobs :
          /\ ready => blobs = Blobs
          /\ bootstrap = [owner |-> None, expired |-> FALSE, ready |-> ready,
                          image |-> IF ready THEN "private" ELSE "public", rolling |-> FALSE,
                          blobs |-> blobs, manifest |-> ready]

-----------------------------------------------------------------------------
(* The private builder image. *)

Claims(w) == bootstrap.owner = w

\* bootstrapImageReady and beginBootstrap: go on, wait, or own the claim (anew).
ClaimBootstrap(w) ==
    /\ Stage(w) = "bootstrap"
    /\ \/ bootstrap.ready /\ Moves(w, "start") /\ UNCHANGED bootstrap
       \/ /\ ~bootstrap.ready
          /\ bootstrap.owner \in {None, w} \/ bootstrap.expired
          /\ bootstrap' = [bootstrap EXCEPT !.owner = w, !.expired = FALSE]
          /\ Moves(w, "copy")
    /\ UNCHANGED <<appVars, builderVars, pass, roller>>

\* renewBootstrap throws if the claim is another's.
Copy(w) ==
    /\ Stage(w) = "copy"
    /\ IF Claims(w) /\ ~bootstrap.ready
       THEN bootstrap' = [bootstrap EXCEPT !.expired = FALSE] /\ Moves(w, "copying")
       ELSE Moves(w, "interrupted") /\ UNCHANGED bootstrap
    /\ UNCHANGED <<appVars, builderVars, pass, roller>>

\* copyBlob, for a blob that the registry does not have: one after another.
CopyBlob(w) ==
    /\ Stage(w) = "copying" /\ ~bootstrap.manifest
    /\ \E blob \in Blobs \ bootstrap.blobs : bootstrap' = [bootstrap EXCEPT !.blobs = @ \cup {blob}]
    /\ UNCHANGED <<appVars, builderVars, flows, pass, roller>>

\* Mutant: the manifest is published before the blobs it names.
PublishFirst(w) ==
    /\ Stage(w) = "copying"
    /\ bootstrap' = [bootstrap EXCEPT !.manifest = TRUE]
    /\ Moves(w, "swap")
    /\ UNCHANGED <<appVars, builderVars, pass, roller>>

\* The manifest last; it is found there if someone published it before.
Publish(w) ==
    /\ Stage(w) = "copying"
    /\ bootstrap.manifest \/ bootstrap.blobs = Blobs
    /\ bootstrap' = [bootstrap EXCEPT !.manifest = TRUE]
    /\ Moves(w, "swap")
    /\ UNCHANGED <<appVars, builderVars, pass, roller>>

\* stopForBootstrapRollout, the wait for an idle application, and the rollout:
\* one to this image that is in progress already is joined.
Swap(w) ==
    /\ Stage(w) = "swap"
    /\ container' = Stopped
    /\ bootstrap' = [bootstrap EXCEPT !.rolling = TRUE]
    /\ Moves(w, "await")
    /\ UNCHANGED <<appVars, slot, calls, contested, faults, pass, roller>>

\* Cloudflare completes the rollout, or reverts it and whoever waits throws.
SwapEnds ==
    /\ bootstrap.rolling
    /\ \/ /\ bootstrap' = [bootstrap EXCEPT !.rolling = FALSE, !.image = "private"]
          /\ UNCHANGED <<flows, faults>>
       \/ /\ Fault
          /\ bootstrap' = [bootstrap EXCEPT !.rolling = FALSE]
          /\ flows' = [w \in Workflows |->
                          IF Stage(w) = "await" THEN [flows[w] EXCEPT !.stage = "interrupted"] ELSE flows[w]]
    /\ UNCHANGED <<appVars, slot, container, calls, contested, pass, roller>>

\* waitForRunnerImageBuilderRollout
Swapped(w) ==
    /\ Stage(w) = "await" /\ ~bootstrap.rolling
    /\ Moves(w, "record")
    /\ UNCHANGED <<appVars, builderVars, pass, roller, bootstrap>>

\* Mutant: recorded without the claim.
RecordUnclaimed(w) ==
    /\ Stage(w) = "record"
    /\ bootstrap' = [bootstrap EXCEPT !.ready = TRUE, !.owner = None]
    /\ Moves(w, "start")
    /\ UNCHANGED <<appVars, builderVars, pass, roller>>

\* renewBootstrap and markBootstrapImageReady.
RecordBootstrap(w) ==
    /\ Stage(w) = "record"
    /\ IF Claims(w) /\ ~bootstrap.ready
       THEN bootstrap' = [bootstrap EXCEPT !.ready = TRUE, !.owner = None] /\ Moves(w, "start")
       ELSE Moves(w, "interrupted") /\ UNCHANGED bootstrap
    /\ UNCHANGED <<appVars, builderVars, pass, roller>>

-----------------------------------------------------------------------------
(* The build. *)

Start(w) ==
    /\ Stage(w) = "start"
    /\ StartBuild(w)
    /\ Moves(w, "starting")
    /\ UNCHANGED <<appVars, pass, roller, bootstrap>>

Taken(w) == calls' = [calls EXCEPT ![w] = NoCall]

\* The steps are retried a few times; then the instance ends, and as the error
\* is not a terminal one it leaves its leases alone.
Retried(w, stage) == \E next \in {stage, "interrupted"} : Moves(w, next)

Started(w) ==
    /\ Stage(w) = "starting" /\ calls[w].pc \in Answers
    /\ IF At(w, "threw") THEN Retried(w, "start")
       ELSE flows' = [flows EXCEPT ![w].stage = "poll", ![w].owns = At(w, "owner")]
    /\ Taken(w)
    /\ UNCHANGED <<appVars, slot, container, contested, faults, pass, roller, bootstrap>>

Poll(w) ==
    /\ Stage(w) = "poll"
    /\ PollBuild(w) \/ PollActiveBuild(w)
    /\ Moves(w, "polling")
    /\ UNCHANGED <<appVars, pass, roller, bootstrap>>

\* Mutant: it tries for ever.
TryAgain(w) == flows' = [flows EXCEPT ![w].stage = "start", ![w].round = @ + 1]

\* A joiner tries for its own build, whatever became of the other.
NextRound(w) ==
    IF flows[w].round < MaxRounds
    THEN flows' = [flows EXCEPT ![w].stage = "start", ![w].round = @ + 1]
    ELSE Moves(w, "cleanup")

Polled(w) ==
    /\ Stage(w) = "polling" /\ calls[w].pc \in Answers
    /\ CASE At(w, "running") -> Moves(w, "poll")
         [] At(w, "threw") -> Retried(w, "poll")
         [] At(w, "completed") /\ flows[w].owns ->
                flows' = [flows EXCEPT ![w].stage = "roll", ![w].result = calls[w].seen.result]
         [] At(w, "failed") /\ flows[w].owns -> Moves(w, "cleanup")
         [] OTHER -> NextRound(w)
    /\ Taken(w)
    /\ UNCHANGED <<appVars, slot, container, contested, faults, pass, roller, bootstrap>>

\* The build did not complete within 29 minutes, the bootstrap of another
\* instance within three hours, or this one's deployment rollout in 30 minutes.
GiveUp(w) ==
    /\ Stage(w) \in {"bootstrap", "copy", "poll"} /\ Fault
    /\ Moves(w, "cleanup")
    /\ UNCHANGED <<appVars, slot, container, calls, contested, pass, roller, bootstrap>>

-----------------------------------------------------------------------------
(* The rollout. *)

BeginRollOut(w) ==
    /\ Stage(w) = "roll" /\ calls[w] = NoCall
    /\ IF MayRollOut(w, flows[w].result)
       THEN /\ slot' = LeasedForRollOut
            /\ pass' = [pass EXCEPT ![w] = [left |-> Applications, app |-> None, pc |-> "inspect",
                            seen |-> None, reissue |-> Reissues, skipped |-> FALSE]]
            /\ roller' = w
            /\ Moves(w, "pass")
       ELSE /\ Moves(w, "cleanup")
            /\ UNCHANGED <<slot, pass, roller>>
    /\ UNCHANGED <<appVars, container, calls, contested, faults, bootstrap>>

Passes(w, a, pc) == pass[w] # None /\ pass[w].app = a /\ pass[w].pc = pc
PassGoes(w, a, pc) == pass' = [pass EXCEPT ![w].app = a, ![w].pc = pc, ![w].seen = apps[a]]
PassLeaves(w, a, skipped) ==
    pass' = [pass EXCEPT ![w].left = @ \ {a}, ![w].app = None, ![w].pc = "inspect",
                         ![w].seen = None, ![w].skipped = @ \/ skipped]

\* Whether a pass is between the read of an application and its rollout, and
\* whether a reconfiguration is.
PassAt(a) == \E w \in Workflows : pass[w] # None /\ pass[w].app = a
ReconfigurationAt(a) == changing[a] # None /\ changing[a].shape # None

InspectApplication(w, a) ==
    /\ pass[w] # None /\ pass[w].app = None /\ a \in pass[w].left
    /\ LET verdict == InspectedAs(a, flows[w].result, pass[w].reissue)
       IN  IF verdict \in {"skip", "done"} THEN PassLeaves(w, a, verdict = "skip") /\ UNCHANGED crossed
           ELSE PassGoes(w, a, verdict) /\ CrossedIf(a, ReconfigurationAt(a))
    /\ UNCHANGED <<apps, changing, granted, changes, started, builderVars, flows, roller, bootstrap>>

PatchApplicationImage(w, a) ==
    /\ Passes(w, a, "patch")
    /\ PatchImage(a, pass[w].seen, flows[w].result)
    /\ PassGoes(w, a, "reread")
    /\ UNCHANGED <<changing, granted, crossed, changes, started, builderVars, flows, roller, bootstrap>>

RereadApplication(w, a) ==
    /\ Passes(w, a, "reread")
    /\ IF apps[a].live THEN PassLeaves(w, a, TRUE) ELSE PassGoes(w, a, "post")
    /\ UNCHANGED <<appVars, builderVars, flows, roller, bootstrap>>

PostImageRollout(w, a) ==
    /\ Passes(w, a, "post")
    /\ PostImage(a, pass[w].seen, flows[w].result)
    /\ PassLeaves(w, a, FALSE)
    /\ UNCHANGED <<crossed, changes, started, builderVars, flows, roller, bootstrap>>

\* The pass is over: with nothing skipped the image is deployed, else the next
\* attempt follows, up to maximumRolloutAttempts.
EndPass(w) ==
    /\ pass[w] # None /\ pass[w].left = {}
    /\ slot' = AfterPass(w, flows[w].result, pass[w].skipped)
    /\ IF pass[w].skipped
       THEN (Moves(w, "roll") /\ UNCHANGED faults) \/ (Moves(w, "cleanup") /\ Fault)
       ELSE Moves(w, "deployed") /\ UNCHANGED faults
    /\ pass' = [pass EXCEPT ![w] = None]
    /\ UNCHANGED <<appVars, container, calls, contested, roller, bootstrap>>

\* A request of the pass fails: the step is retried, or was the last try, or
\* the error is one of configuration and terminal.
PassFails(w) ==
    /\ pass[w] # None /\ Fault
    /\ pass' = [pass EXCEPT ![w] = None]
    /\ \E stage \in {"roll", "interrupted", "cleanup"} : Moves(w, stage)
    /\ UNCHANGED <<appVars, slot, container, calls, contested, roller, bootstrap>>

-----------------------------------------------------------------------------
(* Endings. *)

\* cleanupFailedRunnerImageBuild: abortBootstrap, then abortBuild of an owner.
Cleanup(w) ==
    /\ Stage(w) = "cleanup"
    /\ bootstrap' = IF Claims(w) /\ ~bootstrap.ready THEN [bootstrap EXCEPT !.owner = None] ELSE bootstrap
    /\ IF flows[w].owns THEN AbortBuild(w) /\ Moves(w, "aborting")
                        ELSE Moves(w, "failed") /\ UNCHANGED builderVars
    /\ UNCHANGED <<appVars, pass, roller>>

CleanedUp(w) ==
    /\ Stage(w) = "aborting" /\ calls[w].pc \in Answers
    /\ Moves(w, "failed") /\ Taken(w)
    /\ UNCHANGED <<appVars, slot, container, contested, faults, pass, roller, bootstrap>>

\* The instance stops between two steps and comes back too late or not at all:
\* its lease runs out.  No single step is longer than a lease.
LeaseExpires ==
    /\ Fault
    /\ \/ /\ Lives /\ calls[slot.owner] = NoCall /\ pass[slot.owner] = None
          /\ slot' = [slot EXCEPT !.expired = TRUE] /\ UNCHANGED bootstrap
       \/ /\ bootstrap.owner # None /\ ~bootstrap.ready
          /\ bootstrap' = [bootstrap EXCEPT !.expired = TRUE] /\ UNCHANGED slot
    /\ UNCHANGED <<appVars, container, calls, contested, flows, pass, roller>>

Interrupted(w) ==
    /\ Stage(w) \in {"bootstrap", "copy", "copying", "swap", "await", "record", "start", "poll", "roll"}
    /\ Fault
    /\ Moves(w, "interrupted")
    /\ UNCHANGED <<appVars, slot, container, calls, contested, pass, roller, bootstrap>>

-----------------------------------------------------------------------------

BuilderKeeps == UNCHANGED <<appVars, flowVars>>
ApplicationsKeep == UNCHANGED <<builderVars, flowVars>>

Next ==
    \/ \E w \in Workflows : ClaimBootstrap(w)
    \/ \E w \in Workflows : Copy(w)
    \/ \E w \in Workflows : CopyBlob(w)
    \/ \E w \in Workflows : Publish(w)
    \/ \E w \in Workflows : Swap(w)
    \/ \E w \in Workflows : Swapped(w)
    \/ \E w \in Workflows : RecordBootstrap(w)
    \/ \E w \in Workflows : Start(w)
    \/ \E w \in Workflows : Started(w)
    \/ \E w \in Workflows : Poll(w)
    \/ \E w \in Workflows : Polled(w)
    \/ \E w \in Workflows : GiveUp(w)
    \/ \E w \in Workflows : BeginRollOut(w)
    \/ \E w \in Workflows : EndPass(w)
    \/ \E w \in Workflows : PassFails(w)
    \/ \E w \in Workflows : Cleanup(w)
    \/ \E w \in Workflows : CleanedUp(w)
    \/ \E w \in Workflows : Interrupted(w)
    \/ \E w \in Workflows, a \in Applications : InspectApplication(w, a)
    \/ \E w \in Workflows, a \in Applications : PatchApplicationImage(w, a)
    \/ \E w \in Workflows, a \in Applications : RereadApplication(w, a)
    \/ \E w \in Workflows, a \in Applications : PostImageRollout(w, a)
    \/ \E w \in Workflows : StartReleases(w) /\ BuilderKeeps
    \/ \E w \in Workflows : StartReconciles(w) /\ BuilderKeeps
    \/ \E w \in Workflows : StartClears(w) /\ BuilderKeeps
    \/ \E w \in Workflows : StartStages(w) /\ BuilderKeeps
    \/ \E w \in Workflows : StartFails(w) /\ BuilderKeeps
    \/ \E w \in Workflows : StartUndoes(w) /\ BuilderKeeps
    \/ \E w \in Workflows : PollReconciles(w) /\ BuilderKeeps
    \/ \E w \in Workflows : PollReleases(w) /\ BuilderKeeps
    \/ \E w \in Workflows : PollProbes(w) /\ BuilderKeeps
    \/ \E w \in Workflows : PollReads(w) /\ BuilderKeeps
    \/ \E w \in Workflows : PollFinalizes(w) /\ BuilderKeeps
    \/ \E w \in Workflows : AbortReleases(w) /\ BuilderKeeps
    \/ \E w \in Workflows : CallFails(w) /\ BuilderKeeps
    \/ \E w \in Workflows : BuildEnds(w) /\ BuilderKeeps
    \/ \E a \in Applications : ChangeCeiling(a) /\ ApplicationsKeep
    \/ \E a \in Applications : Reconfigure(a, PassAt(a)) /\ ApplicationsKeep
    \/ \E a \in Applications : PatchApplication(a) /\ ApplicationsKeep
    \/ \E a \in Applications : PostReconfiguration(a) /\ ApplicationsKeep
    \/ \E a \in Applications : Reconfigured(a) /\ ApplicationsKeep
    \/ \E a \in Applications : CompleteRollout(a) /\ ApplicationsKeep
    \/ \E a \in Applications : StartRunner(a) /\ ApplicationsKeep
    \/ \E a \in Applications : StopRunner(a) /\ ApplicationsKeep
    \/ SwapEnds
    \/ LeaseExpires

Spec == Init /\ [][Next]_vars

\* What an instance does next, or the call that it awaits, when nothing interrupts it.
Proceeds(w) ==
    \/ ClaimBootstrap(w) \/ Copy(w) \/ CopyBlob(w) \/ Publish(w) \/ Swap(w) \/ Swapped(w) \/ RecordBootstrap(w) \/ Start(w)
    \/ Started(w) \/ Poll(w) \/ Polled(w) \/ BeginRollOut(w) \/ EndPass(w) \/ Cleanup(w)
    \/ CleanedUp(w)
    \/ \E a \in Applications : InspectApplication(w, a) \/ PatchApplicationImage(w, a)
    \/ \E a \in Applications : RereadApplication(w, a) \/ PostImageRollout(w, a)
    \/ /\ \/ StartReleases(w) \/ StartReconciles(w) \/ StartClears(w) \/ StartStages(w) \/ StartUndoes(w)
          \/ PollReconciles(w) \/ PollReleases(w) \/ PollProbes(w) \/ PollReads(w) \/ PollFinalizes(w)
          \/ AbortReleases(w)
       /\ BuilderKeeps

\* Steps and the methods they call go on, builds and rollouts end, and jobs end.
FairSpec ==
    /\ Spec
    /\ \A w \in Workflows :
          /\ WF_vars(Proceeds(w))
          /\ WF_vars(BuildEnds(w) /\ BuilderKeeps)
    /\ \A a \in Applications :
          WF_vars((PatchApplication(a) \/ PostReconfiguration(a) \/ Reconfigured(a)
                   \/ CompleteRollout(a) \/ StopRunner(a)) /\ ApplicationsKeep)
    /\ WF_vars(SwapEnds)

-----------------------------------------------------------------------------
TypeOK ==
    /\ apps \in [Applications -> Application]
    /\ changing \in [Applications -> Change \cup {None}]
    /\ granted \in [Applications -> [shape : Shapes \cup {None}, ceiling : 1 .. MaxCeiling]]
    /\ crossed \subseteq Applications
    /\ changes \in 0 .. MaxChanges /\ started \in 0 .. MaxRunners
    /\ slot \in Slot \cup {None}
    /\ container \in [running : BOOLEAN, commands : SUBSET Workflows,
                   result : Results \cup {None}, execs : SUBSET Workflows]
    /\ calls \in [Workflows -> Call]
    /\ contested \in BOOLEAN
    /\ faults \in 0 .. MaxFaults
    /\ flows \in [Workflows -> Flow]
    /\ pass \in [Workflows -> Pass \cup {None}]
    /\ roller \in Workflows \cup {None}
    /\ bootstrap \in Bootstrap

\* A bootstrap whose claim has not run out loses it only by what its owner does.
LiveClaimsAreKept ==
    [][\A w \in Workflows :
          Claims(w) /\ ~bootstrap.expired => Claims(w)' \/ Stage(w)' # Stage(w)]_vars

\* The builder is only ever moved to a private image that is complete: whoever
\* copied it, however often that was interrupted, retried, or done by two at once.
BuilderImageIsComplete ==
    bootstrap.rolling \/ bootstrap.image = "private" \/ bootstrap.ready =>
        bootstrap.manifest /\ bootstrap.blobs = Blobs

\* An image rollout never overwrites a capacity update of the scheduler (the
\* comment on patchApplicationImage), however their requests interleave: the
\* ceiling is the last one set.  And when neither is under way an application has
\* the machine shape it was last granted, unless on that application one of the
\* two has read what the other, or a rollout, was about to change.
ChangesAreLostToOverlaps ==
    \A a \in Applications :
        /\ apps[a].ceiling = granted[a].ceiling
        /\ changing[a] = None /\ ~RollingOut(a) /\ granted[a].shape # None =>
              a \in crossed \/ apps[a].running.shape = granted[a].shape

\* A build is rolled out by another workflow than the one that built it only if
\* two starts have taken the slot at once: nothing else that overlaps, fails or
\* expires makes a workflow deploy what is not its own.
ForeignImagesFollowContests ==
    \A w \in Workflows : pass[w] # None => contested \/ flows[w].result = ImageOf[w]

\* A rollout lease that has not run out ends with a pass of its workflow, or by a
\* call that acts on what it read before the lease was taken or renewed.
LeasesEndByStaleCalls ==
    [][\A w \in Workflows :
          HeldAs(w, "rolling-out") /\ ~slot.expired =>
             \/ slot' # None /\ slot'.owner = w /\ slot'.state = "rolling-out"
             \/ pass'[w] # pass[w]
             \/ \E v \in Workflows : Stale(v) /\ calls'[v] # calls[v]]_vars

\* When nothing fails every instance ends, however many wait for one another's
\* builds and leases.
EveryInstanceEnds ==
    [](faults = 0) => <>(\A w \in Workflows : Over(w))

-----------------------------------------------------------------------------
(* What the sources say and the code does not ensure. *)

\* "Starting another build before Cloudflare confirms this process is gone risks
\* both processes reading and writing the same workspace paths" (releaseBuild): a
\* build is only rolled out by the workflow that built it.
RolledImagesAreOwn ==
    \A w \in Workflows : pass[w] # None => flows[w].result = ImageOf[w]

\* "a desired configuration alone does not prove live instances moved"
\* (rolloutRunnerApplicationImages): what a workflow reports as deployed is on
\* every application, or is being rolled out there, until a later rollout of
\* images begins.
DeployedImagesReachApplications ==
    \A w \in Workflows, a \in Applications :
        Stage(w) = "deployed" /\ roller = w =>
            \/ RollingOut(a) /\ apps[a].target.image = ImageOf[w]
            \/ ~RollingOut(a) /\ apps[a].running.image = ImageOf[w]

\* "so concurrent scheduler-owned resource changes survive"
\* (rolloutRunnerApplicationImages): when neither is under way, an application has
\* the machine shape that it was last granted.
SchedulerChangesSurvive ==
    \A a \in Applications :
        changing[a] = None /\ ~RollingOut(a) /\ granted[a].shape # None =>
            apps[a].running.shape = granted[a].shape

\* "renew the lease and let a later poll reconcile it again"
\* (reconcileExpiredRollOut): a rollout lease that has not run out ends only with a
\* pass of its workflow.
LiveLeasesAreKept ==
    [][\A w \in Workflows :
          HeldAs(w, "rolling-out") /\ ~slot.expired =>
             (slot' # None /\ slot'.owner = w /\ slot'.state = "rolling-out") \/ pass'[w] # pass[w]]_vars

\* A result that is recorded is not lost: no later poll records that the same
\* build failed.
ResultsSurviveCleanup ==
    [][\A w \in Workflows :
          slot # None /\ slot.owner = w /\ slot.result \in Images =>
             ~(slot' # None /\ slot'.owner = w /\ slot'.result = "failed")]_vars
=============================================================================
