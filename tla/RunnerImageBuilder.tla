------------------------- MODULE RunnerImageBuilder -------------------------
(***************************************************************************)
(* The image builder (runner-image-builder.ts): one Durable Object with    *)
(* one Container, shared by all image build workflows, and the record in   *)
(* its storage that says whose turn it is (the slot).                      *)
(*                                                                         *)
(* A method runs alone up to its awaits on anything but storage: destroy   *)
(* and exec of the Container, GitHub, R2, the Containers API.  There other *)
(* methods run; what a method read of the slot before is in calls[w].seen. *)
(* A workflow makes one call at a time; calls[w].pc is then an await, or   *)
(* the answer that the workflow has not taken yet.                         *)
(***************************************************************************)
EXTENDS ContainerApplications

CONSTANTS
    Workflows,
    ImageOf,       \* workflow -> the image its source builds
    MaxFaults      \* bound: failures of all kinds

ASSUME BuilderAssumption ==
    /\ ImageOf \in [Workflows -> Images]
    /\ MaxFaults \in Nat
    /\ None \notin Workflows \cup Images /\ "failed" \notin Images

VARIABLES
    slot,       \* storage: runner-image-build-state, or None
    container,  \* whether it runs, the builds in it, the result they left, and the
                \* calls that have a process in it
    calls,      \* workflow -> its call in progress
    contested,  \* history: two starts were setting up their builds at once
    faults

builderVars == <<slot, container, calls, contested, faults>>

Awaits == {"release", "reconcile", "clear", "stage", "undo", "probe", "read", "finalize",
           "poll-release", "poll-reconcile", "abort"}
Answers == {"owner", "joined", "threw", "running", "completed", "failed", "aborted"}
Results == Images \cup {"failed"}
Slot == [owner : Workflows, state : {"active", "rolling-out", "complete", "failed"},
         result : Results \cup {None}, \* also of an active build whose cleanup is pending
         expired : BOOLEAN, inFlight : BOOLEAN]
Call == [pc : {"none"} \cup Awaits \cup Answers, seen : Slot \cup {None}]

NoCall == [pc |-> "none", seen |-> None]
Stopped == [running |-> FALSE, commands |-> {}, result |-> None, execs |-> {}]

BuilderInit ==
    /\ slot = None
    /\ container = Stopped
    /\ calls = [w \in Workflows |-> NoCall]
    /\ contested = FALSE
    /\ faults = 0

HeldAs(w, state) == slot # None /\ slot.owner = w /\ slot.state = state
Is(state) == slot # None /\ slot.state = state
Lives == slot # None /\ slot.state \in {"active", "rolling-out"} /\ ~slot.expired
Expired(state) == Is(state) /\ slot.expired

Fault == faults < MaxFaults /\ faults' = faults + 1

At(w, pc) == calls[w].pc = pc
Goes(w, pc, seen) == calls' = [calls EXCEPT ![w] = [pc |-> pc, seen |-> seen]]
Answer(w, pc) == Goes(w, pc, None)

\* A call has awaited something since it read the slot, which is another now.
Stale(w) == calls[w].pc \in Awaits /\ calls[w].seen # slot

-----------------------------------------------------------------------------
(* startBuild.  It answers whether the workflow owns the slot. *)

\* The end of the checks: a Container that still runs is destroyed, then the
\* slot is the workflow's.
TakeSlot(w, before, running) ==
    IF running THEN Goes(w, "clear", before) /\ slot' = before /\ UNCHANGED contested
    ELSE /\ Goes(w, "stage", None)
         /\ contested' = (contested \/ \E v \in Workflows \ {w} : At(v, "stage"))
         /\ slot' = [owner |-> w, state |-> "active", result |-> None,
                     expired |-> FALSE, inFlight |-> FALSE]

StartBuild(w) ==
    /\ calls[w] = NoCall
    /\ \/ Lives /\ Answer(w, IF slot.owner = w THEN "owner" ELSE "joined") /\ UNCHANGED <<slot, contested>>
       \/ Expired("active") /\ Goes(w, "release", slot) /\ UNCHANGED <<slot, contested>>
       \/ Expired("rolling-out") /\ Goes(w, "reconcile", slot) /\ UNCHANGED <<slot, contested>>
       \/ (slot = None \/ Is("complete") \/ Is("failed")) /\ TakeSlot(w, slot, container.running)
    /\ UNCHANGED <<container, faults>>

\* releaseBuild of the expired build: its Container is gone, or the slot stays.
StartReleases(w) ==
    /\ At(w, "release")
    /\ \/ container' = Stopped /\ TakeSlot(w, None, FALSE) /\ UNCHANGED faults
       \/ Fault /\ Answer(w, "joined") /\ UNCHANGED <<slot, container, contested>>

RolloutsActive == \E a \in Applications : RollingOut(a)

\* reconcileExpiredRollOut: from the slot as it was before the query.  The lease
\* is renewed if rollouts are active, or if the query fails.
Renewed(seen) == [seen EXCEPT !.expired = FALSE]
Settled(seen) == [seen EXCEPT !.state = "complete", !.expired = FALSE, !.inFlight = FALSE]

StartReconciles(w) ==
    /\ At(w, "reconcile")
    /\ \/ ~RolloutsActive /\ TakeSlot(w, Settled(calls[w].seen), container.running) /\ UNCHANGED faults
       \/ /\ slot' = Renewed(calls[w].seen) /\ Answer(w, "joined")
          /\ UNCHANGED contested /\ IF RolloutsActive THEN UNCHANGED faults ELSE Fault
    /\ UNCHANGED container

\* The Container that was left behind is destroyed, or the call throws.
StartClears(w) ==
    /\ At(w, "clear")
    /\ \/ container' = Stopped /\ TakeSlot(w, slot, FALSE) /\ UNCHANGED faults
       \/ Fault /\ Answer(w, "threw") /\ UNCHANGED <<slot, container, contested>>

\* The archive is downloaded and stored, the Container started, and its command
\* has detached the build.
StartStages(w) ==
    /\ At(w, "stage")
    /\ container' = [container EXCEPT !.running = TRUE, !.commands = @ \cup {w}]
    /\ Answer(w, "owner")
    /\ UNCHANGED <<slot, contested, faults>>

\* One of these fails.  The Container may have been started.
StartFails(w) ==
    /\ At(w, "stage") /\ Fault
    /\ \E running \in {TRUE, container.running} :
          container' = [container EXCEPT !.running = running]
    /\ IF HeldAs(w, "active") THEN Goes(w, "undo", slot) ELSE Answer(w, "threw")
    /\ UNCHANGED <<slot, contested>>

\* releaseBuild, or the terminal record of a build that could not be stopped.
StartUndoes(w) ==
    /\ At(w, "undo")
    /\ \/ container' = Stopped /\ slot' = None /\ UNCHANGED faults
       \/ /\ Fault /\ UNCHANGED container
          /\ slot' = IF HeldAs(w, "active") THEN [slot EXCEPT !.result = "failed"] ELSE slot
    /\ Answer(w, "threw")
    /\ UNCHANGED contested

-----------------------------------------------------------------------------
(* buildStatus.  Owners and joiners poll the same build. *)

PollBuild(w) ==
    /\ calls[w] = NoCall
    /\ \/ (slot = None \/ Is("failed")) /\ Answer(w, "failed")
       \/ Is("complete") /\ Goes(w, "completed", slot)
       \/ Is("rolling-out") /\ ~slot.expired /\ Answer(w, "running")
       \/ Expired("rolling-out") /\ Goes(w, "poll-reconcile", slot)
       \/ Is("active") /\ slot.result # None /\ Goes(w, "finalize", slot)
       \/ Expired("active") /\ slot.result = None /\ Goes(w, "poll-release", slot)
    /\ UNCHANGED <<slot, container, contested, faults>>

\* The command that reads the exit status is started, in a Container that runs.
PollActiveBuild(w) ==
    /\ calls[w] = NoCall
    /\ Is("active") /\ ~slot.expired /\ slot.result = None
    /\ IF container.running
       THEN Goes(w, "probe", slot) /\ container' = [container EXCEPT !.execs = @ \cup {w}]
       ELSE Answer(w, "running") /\ UNCHANGED container
    /\ UNCHANGED <<slot, contested, faults>>

PollReconciles(w) ==
    /\ At(w, "poll-reconcile")
    /\ \/ /\ ~RolloutsActive
          /\ slot' = Settled(calls[w].seen) /\ Goes(w, "completed", slot') /\ UNCHANGED faults
       \/ /\ slot' = Renewed(calls[w].seen) /\ Answer(w, "running")
          /\ IF RolloutsActive THEN UNCHANGED faults ELSE Fault
    /\ UNCHANGED <<container, contested>>

PollReleases(w) ==
    /\ At(w, "poll-release")
    /\ \/ container' = Stopped /\ slot' = None /\ Answer(w, "failed") /\ UNCHANGED faults
       \/ Fault /\ Answer(w, "running") /\ UNCHANGED <<slot, container>>
    /\ UNCHANGED contested

ExecOver(w) == container' = [container EXCEPT !.execs = @ \ {w}]

\* There is no exit status, or the Container is gone; or the command that reads
\* the result is started at once.
PollProbes(w) ==
    /\ At(w, "probe")
    /\ IF w \in container.execs /\ container.result # None
       THEN Goes(w, "read", [calls[w].seen EXCEPT !.result = container.result]) /\ UNCHANGED container
       ELSE Answer(w, "running") /\ ExecOver(w)
    /\ UNCHANGED <<slot, contested, faults>>

\* completedBuildResult: without the Container there is none, and the build has
\* failed.  The terminal state is persisted first.
PollReads(w) ==
    /\ At(w, "read")
    /\ LET seen == calls[w].seen
           read == IF w \in container.execs THEN seen ELSE [seen EXCEPT !.result = "failed"]
       IN  slot' = read /\ Goes(w, "finalize", read)
    /\ ExecOver(w)
    /\ UNCHANGED <<contested, faults>>

\* finalizeTerminalBuild, whether or not the Container can be destroyed.
PollFinalizes(w) ==
    /\ At(w, "finalize")
    /\ LET failed == calls[w].seen.result = "failed"
       IN  /\ slot' = [calls[w].seen EXCEPT !.state = IF failed THEN "failed" ELSE "complete",
                                            !.expired = FALSE]
           /\ Goes(w, IF failed THEN "failed" ELSE "completed", slot')
    /\ \/ container' = Stopped /\ UNCHANGED faults
       \/ Fault /\ UNCHANGED container
    /\ UNCHANGED contested

-----------------------------------------------------------------------------
(* Rollout leases: these methods await storage only. *)

\* Mutant: any complete build may be rolled out by who has polled it.
MayRollOutResult(w, image) == slot # None /\ slot.result = image
                              /\ slot.state \in {"complete", "rolling-out"}

MayRollOut(w, image) == slot # None /\ slot.owner = w /\ slot.result = image
                        /\ slot.state \in {"complete", "rolling-out"}

\* beginRollOut.  A pass that was in flight before may have been interrupted.
LeasedForRollOut == [slot EXCEPT !.state = "rolling-out", !.expired = FALSE, !.inFlight = TRUE]
Reissues == slot.state = "rolling-out" /\ slot.inFlight

\* Mutant: the rollout is not finished.
AfterAttempt(w, image, skipped) ==
    IF ~(HeldAs(w, "rolling-out") /\ slot.result = image) THEN slot ELSE [slot EXCEPT !.inFlight = FALSE]

\* completeRollOutAttempt, and finishRollOut if the pass skipped nothing.
AfterPass(w, image, skipped) ==
    IF ~(HeldAs(w, "rolling-out") /\ slot.result = image) THEN slot
    ELSE IF skipped THEN [slot EXCEPT !.inFlight = FALSE]
    ELSE [slot EXCEPT !.inFlight = FALSE, !.state = "complete", !.expired = FALSE]

\* Mutant: whatever the workflow holds is released.
AbortSlot(w) ==
    /\ calls[w] = NoCall
    /\ IF slot # None /\ slot.owner = w THEN Goes(w, "abort", slot) ELSE Answer(w, "aborted")
    /\ UNCHANGED <<slot, container, contested, faults>>

\* abortBuild: only of the workflow's own active build; a rollout keeps its lease.
AbortBuild(w) ==
    /\ calls[w] = NoCall
    /\ IF HeldAs(w, "active") THEN Goes(w, "abort", slot) ELSE Answer(w, "aborted")
    /\ UNCHANGED <<slot, container, contested, faults>>

AbortReleases(w) ==
    /\ At(w, "abort")
    /\ \/ container' = Stopped /\ slot' = None /\ UNCHANGED faults
       \/ Fault /\ UNCHANGED <<slot, container>>
    /\ Answer(w, "aborted")
    /\ UNCHANGED contested

-----------------------------------------------------------------------------
(* The Container. *)

\* The build of one command ends; the workspace has the status it wrote.
BuildEnds(w) ==
    /\ w \in container.commands
    /\ \/ container' = [container EXCEPT !.commands = @ \ {w}, !.result = ImageOf[w]] /\ UNCHANGED faults
       \/ Fault /\ container' = [container EXCEPT !.commands = @ \ {w}, !.result = "failed"]
    /\ UNCHANGED <<slot, calls, contested>>

\* The object restarts or the step times out: the workflow sees an error, and
\* what the call has done so far is done.
CallFails(w) ==
    /\ calls[w].pc \in (Awaits \cup Answers) \ {"threw"}
    /\ Fault
    /\ Answer(w, "threw")
    /\ ExecOver(w)
    /\ UNCHANGED <<slot, contested>>
=============================================================================
