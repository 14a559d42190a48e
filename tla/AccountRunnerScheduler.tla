----------------------- MODULE AccountRunnerScheduler -----------------------
(***************************************************************************)
(* The Durable Object of src/src/account-runner-scheduler.ts: its SQLite   *)
(* tables, its RPC methods, its alarm and its constructor.                 *)
(*                                                                         *)
(* An RPC method awaits nothing but storage, so it is one step: a function *)
(* from the database to the reply [db, admissions].  Only alarm() waits    *)
(* for other services (GitHub's runner deletion, Cloudflare's capacity     *)
(* API); it is cut at those awaits, and other calls run there.             *)
(*                                                                         *)
(* Time is abstracted: a deadline column is the Boolean "a deadline is     *)
(* set", and which deadlines have passed when the alarm looks is a choice. *)
(* created_at is the rank of the insertion, last_released_at the order     *)
(* releasedBefore.  One repository; a profile stands for the job's labels. *)
(***************************************************************************)
EXTENDS SchedulerPolicy

CONSTANTS
    Jobs,                \* GitHub workflow jobs
    JobProfile,          \* the profile a job's labels select
    PresetSlot,          \* profile -> its preset slot, None for a custom profile
    Attempts,            \* bound: the runner_attempt values considered
    Generations,         \* bound: the capacity_generation values considered
    CallersDie           \* may a caller die between its reply and create()?

ASSUME SchedulerAssumption ==
    /\ IsFiniteSet(Jobs)
    /\ None \notin Jobs
    /\ JobProfile \in [Jobs -> Profiles]
    /\ PresetSlot \in [Profiles -> Slots \cup {None}]
    /\ \A p, q \in Profiles : PresetSlot[p] = PresetSlot[q] => p = q \/ PresetSlot[p] = None
    /\ Attempts \subseteq Nat /\ 1 \in Attempts
    /\ Generations \subseteq Nat
    /\ CallersDie \in BOOLEAN

VARIABLES
    db,         \* the SQLite database and the Durable Object's alarm slot
    alarm,      \* the running alarm() invocation
    workflows   \* RunnerProvisioningWorkflow instances created so far

schedulerVars == <<db, alarm, workflows>>

-----------------------------------------------------------------------------
(* Tables. *)

ACTIVE_JOB_STATES == {"admitted", "provisioning", "running", "releasing", "stopped-awaiting-completion"}
JobStatus == {"unknown", "queued", "completed", "cancelled", "failed"} \cup ACTIVE_JOB_STATES

\* cf-<profile>-job-<job>, with the suffix -r<attempt> from the second attempt on.
RunnerName(j, n) == [job |-> j, attempt |-> n]
RunnerNames == [job : Jobs, attempt : Nat]

\* runner_name and github_runner_id are NULL or a runner's.
ASSUME NoneAssumption == None \notin RunnerNames

JobRow == [status : JobStatus, runner : RunnerNames, attempt : Nat,
           slot : Slots \cup {None}, created : Nat, runnerId : RunnerNames \cup {None},
           due : BOOLEAN, cleanup : BOOLEAN]

SlotRow == [profile : Profiles \cup {None}, state : CONFIGURATION_STATES,
            owner : Jobs \cup {None}, reserved : Nat, desired : Nat, applied : Nat,
            updating : BOOLEAN, updateGeneration : Nat, pending : Profiles \cup {None},
            reclaimPending : BOOLEAN, generation : Nat]

Operation == [slot : Slots, generation : Nat, target : Nat]
JitRunner == [name : RunnerNames, source : Jobs]
Admission == [job : Jobs, attempt : Nat, name : RunnerNames]

Database == [jobs : [Jobs -> JobRow], slots : [Slots -> SlotRow],
             operations : SUBSET Operation, jitRunners : SUBSET JitRunner,
             releasedBefore : SUBSET (Slots \X Slots), alarm : BOOLEAN]

CustomSlots == {s \in Slots : \A p \in Profiles : PresetSlot[p] # s}

NoJobRow(j) ==
    [status |-> "unknown", runner |-> RunnerName(j, 1), attempt |-> 1, slot |-> None,
     created |-> 0, runnerId |-> None, due |-> FALSE, cleanup |-> FALSE]

\* initializeSlots: a preset slot is ready with its profile, a custom slot idle.
InitialSlot(s) ==
    [profile |-> IF s \in CustomSlots THEN None ELSE CHOOSE p \in Profiles : PresetSlot[p] = s,
     state |-> IF s \in CustomSlots THEN "idle" ELSE "ready",
     owner |-> None, reserved |-> 0, desired |-> 1, applied |-> 1,
     updating |-> FALSE, updateGeneration |-> 0, pending |-> None,
     reclaimPending |-> FALSE, generation |-> 0]

-----------------------------------------------------------------------------
(* Queries. *)

WithStatus(d, S) == {j \in Jobs : d.jobs[j].status \in S}
Active(d) == WithStatus(d, ACTIVE_JOB_STATES)
ActiveOn(d, s) == {j \in Active(d) : d.jobs[j].slot = s}
NamedRows(d, name, S) == {j \in WithStatus(d, S) : d.jobs[j].runner = name}

\* rows[0] of a query without ORDER BY: the first row inserted.
FirstRows(d, S) == {j \in S : \A k \in S : d.jobs[j].created <= d.jobs[k].created}

\* Mutant: the admission names the runner after the job instead of reading runner_name.
AdmissionForFirstName(d, j) == [job |-> j, attempt |-> d.jobs[j].attempt, name |-> RunnerName(j, 1)]

AdmissionFor(d, j) == [job |-> j, attempt |-> d.jobs[j].attempt, name |-> d.jobs[j].runner]

ReadyAdmissions(d) ==
    {AdmissionFor(d, j) : j \in {k \in WithStatus(d, {"admitted"}) :
        \E s \in Slots : /\ d.jobs[k].slot = s
                         /\ d.slots[s].state = "ready"
                         /\ ~d.slots[s].updating
                         /\ d.slots[s].applied >= d.slots[s].desired}}

\* scheduleWorkAlarmIfNeeded: is there anything the alarm must come back for?
CapacityChanges(d) ==
    {s \in Slots : /\ d.slots[s].state = "ready"
                   /\ ~d.slots[s].updating
                   /\ d.slots[s].desired # d.slots[s].applied}
Recoverable(d) == {j \in WithStatus(d, {"stopped-awaiting-completion", "releasing"}) : d.jobs[j].due}
CleanupRetries(d) == {j \in Jobs : d.jobs[j].cleanup}
\* Mutant: stopped jobs do not arm the alarm.
WorkPendingWithoutRecovery(d) ==
    \/ WithStatus(d, {"queued", "admitted"}) # {}
    \/ CapacityChanges(d) # {}
    \/ CleanupRetries(d) # {}

WorkPending(d) ==
    \/ WithStatus(d, {"queued", "admitted"}) # {}
    \/ CapacityChanges(d) # {}
    \/ Recoverable(d) # {}
    \/ CleanupRetries(d) # {}
ScheduleWorkAlarm(d) == [d EXCEPT !.alarm = @ \/ WorkPending(d)]

-----------------------------------------------------------------------------
(* Admission. *)

CanReserve(d, profile) ==
    FitsAccountCapacity(Consumption(Active(d), LAMBDA j : JobProfile[j], LAMBDA j : 1),
                        Resources[profile])

SelectSlot(d, profile) ==
    IF PresetSlot[profile] # None
    THEN {[slot |-> PresetSlot[profile], configure |-> FALSE]}
    ELSE SelectCustomSlot(d.slots, CustomSlots, profile)

TargetMaxInstances(row, configure) ==
    LET required == RequiredMaxInstances(row.reserved)
    IN  IF configure \/ row.state = "configuring" \/ row.applied < required
        THEN required ELSE row.applied

RecordCapacityOperation(operations, s, generation, target) ==
    {o \in operations : ~(o.slot = s /\ o.generation = generation)}
        \cup {[slot |-> s, generation |-> generation, target |-> target]}

Reclaimable(row, target) ==
    row.state = "ready" /\ row.reserved = 0 /\ ~row.updating /\ target < row.applied

ScheduleCapacityReclamation(d, reductions) ==
    LET taken == {r \in reductions : Reclaimable(d.slots[r.slot], r.target)}
        donors == {r.slot : r \in taken}
        target(s) == (CHOOSE r \in taken : r.slot = s).target
    IN  [d EXCEPT
           !.slots = [s \in Slots |->
               IF s \in donors
               THEN [d.slots[s] EXCEPT !.desired = target(s), !.generation = @ + 1]
               ELSE d.slots[s]],
           !.operations = @ \cup {[slot |-> s, generation |-> d.slots[s].generation + 1,
                                   target |-> target(s)] : s \in donors}]

\* The queue head with the slot selected for it, if the head can be admitted now.
NextAdmission(d) ==
    {a \in UNION {{[job |-> j, slot |-> c.slot, configure |-> c.configure] :
                      c \in SelectSlot(d, JobProfile[j])} :
                  j \in FirstRows(d, WithStatus(d, {"queued"}))} :
        /\ CanReserve(d, JobProfile[a.job])
        /\ PlanExists(d.slots, d.releasedBefore, a.slot, JobProfile[a.job],
                      TargetMaxInstances(d.slots[a.slot], a.configure))}

\* The slot gets one more reservation and the target; reductions go to other slots.
AdmitWith(d, a, target, reductions) ==
    LET profile == JobProfile[a.job]
        row == d.slots[a.slot]
        generation == row.generation + 1
        configuring == a.configure \/ row.state = "configuring"
        increase == ~configuring /\ target > row.applied
        deferred == configuring \/ row.updating \/ increase \/ reductions # {}
        reclaiming == ScheduleCapacityReclamation(d, reductions)
        admitted ==
            [reclaiming EXCEPT
               !.slots[a.slot] =
                   [row EXCEPT !.profile = IF configuring THEN @ ELSE profile,
                               !.state = IF configuring THEN "configuring" ELSE @,
                               !.owner = IF a.configure THEN a.job ELSE @,
                               !.reserved = @ + 1,
                               !.desired = target,
                               !.pending = IF configuring THEN profile ELSE None,
                               !.reclaimPending = configuring /\ reductions # {},
                               !.generation = generation],
               !.operations = IF increase \/ configuring \/ row.updating
                              THEN RecordCapacityOperation(@, a.slot, generation, target)
                              ELSE @,
               !.jobs[a.job] = [@ EXCEPT !.status = "admitted", !.slot = a.slot]]
    IN  [db |-> admitted,
         admissions |-> IF a.configure \/ ~deferred THEN {AdmissionFor(d, a.job)} ELSE {}]

AdmitFor(d, a, target) ==
    AdmitWith(d, a, target,
              PlannedReductions(d.slots, d.releasedBefore, a.slot, JobProfile[a.job], target))

Admit(d, a) == AdmitFor(d, a, TargetMaxInstances(d.slots[a.slot], a.configure))

NoAdmission(d) == [db |-> d, admissions |-> {}]

\* Admits the one member of S, if there is one.
AdmitOneOf(d, S) == IF S = {} THEN NoAdmission(d) ELSE Admit(d, CHOOSE a \in S : TRUE)

AdmitNext(d) == AdmitOneOf(d, NextAdmission(d))

\* ... const admissions = this.admitNext(); await this.scheduleWorkAlarmIfNeeded()
ThenAdmitNext(d) ==
    LET reply == AdmitNext(d)
    IN  [reply EXCEPT !.db = ScheduleWorkAlarm(reply.db)]

-----------------------------------------------------------------------------
(* Release. *)

Larger(m, n) == IF m > n THEN m ELSE n

\* last_released_at := now() for the slots of S.
ReleasedNow(releasedBefore, S) ==
    {p \in releasedBefore : p[1] \notin S /\ p[2] \notin S} \cup ((Slots \ S) \X S)

\* Mutant: a configuration that nobody waits for any more is not taken back.
ReleasedWithoutReset(row, reserved) ==
    [row EXCEPT !.reserved = reserved, !.desired = Larger(row.applied, reserved)]

\* The row of a slot that is left with reserved reservations by a release.
ReleasedSlot(row, reserved) ==
    LET abandoned == reserved = 0 /\ row.state = "configuring"
    IN  [row EXCEPT !.reserved = reserved,
                    !.desired = Larger(row.applied, reserved),
                    !.state = IF abandoned THEN "idle" ELSE @,
                    !.owner = IF abandoned THEN None ELSE @]

\* releaseJob(job, status): slot is the slot_id of the caller's copy of the row.
ReleaseJob(d, j, slot, status) ==
    LET ended == [d.jobs[j] EXCEPT !.status = status, !.due = FALSE]
    IN  IF slot = None
        THEN [d EXCEPT !.jobs[j] = ended]
        ELSE [d EXCEPT
                !.slots[slot] = ReleasedSlot(@, IF @.reserved > 0 THEN @.reserved - 1 ELSE 0),
                !.releasedBefore = ReleasedNow(@, {slot}),
                !.jobs[j] = ended]

-----------------------------------------------------------------------------
(* RPC methods called for GitHub's deliveries. *)

Submit(d, j) ==
    IF d.jobs[j].status # "unknown"
    THEN NoAdmission(d)
    ELSE ThenAdmitNext([d EXCEPT !.jobs[j] =
             [NoJobRow(j) EXCEPT !.status = "queued",
                                 !.created = Cardinality(Jobs \ WithStatus(d, {"unknown"})) + 1]])

\* recordJitRunnerAssignment: did the scheduler create the runner, and may it run job j?
\* (The columns it writes are read by the runner cache alone.)
RecordedJitRunner(d, j, name) ==
    /\ d.jobs[j].status # "unknown"
    /\ \E r \in d.jitRunners : r.name = name /\ JobProfile[r.source] = JobProfile[j]

RunnerOwners(d, name) ==
    FirstRows(d, NamedRows(d, name, {"provisioning", "running", "releasing"}))

\* The columns an assignment sets on the row of the job that really runs.
RunningOn(row, name, slot) ==
    [row EXCEPT !.status = "running", !.runner = name, !.slot = slot, !.runnerId = name,
                !.due = FALSE, !.cleanup = FALSE]

\* Mutants: the displaced owner keeps its runner name, is given up.
RequeuedUnderOldName(row) ==
    [row EXCEPT !.status = "queued", !.attempt = @ + 1, !.slot = None, !.runnerId = None,
                !.due = FALSE, !.cleanup = FALSE]
GivenUp(row) == [row EXCEPT !.status = "failed", !.slot = None, !.due = FALSE]

\* The displaced owner goes back to the queue under a fresh runner name.
Requeued(row) ==
    [row EXCEPT !.status = "queued", !.runner = RunnerName(row.runner.job, row.attempt + 1),
                !.attempt = @ + 1, !.slot = None, !.runnerId = None,
                !.due = FALSE, !.cleanup = FALSE]

AdoptUnownedRunner(d, j, name) ==
    IF d.jobs[j].status \in {"queued", "admitted", "running"}
    THEN [d EXCEPT !.jobs[j] = RunningOn(@, name, @.slot)]
    ELSE d

TransferRunner(d, j, name, owner) ==
    [d EXCEPT !.jobs = [k \in Jobs |->
        IF k = owner THEN Requeued(d.jobs[owner])
        ELSE IF k = j THEN RunningOn(d.jobs[j], name, d.jobs[owner].slot)
        ELSE d.jobs[k]]]

\* workflowJobStarted: GitHub says that the runner called name executes job j.
WorkflowJobStarted(d, j, name) ==
    LET owners == RunnerOwners(d, name)
        owner == CHOOSE k \in owners : TRUE
        unmatched == \/ d.jobs[j].status = "unknown"
                     \/ JobProfile[owner] # JobProfile[j]
                     \/ d.jobs[owner].slot = None
    IN  IF owners = {}
        THEN NoAdmission(IF RecordedJitRunner(d, j, name) THEN AdoptUnownedRunner(d, j, name) ELSE d)
        ELSE IF unmatched \/ owner = j
        THEN NoAdmission(d)
        ELSE ThenAdmitNext(TransferRunner(d, j, name, owner))

\* cacheAssignment's self-heal: a polling hook made the GitHub API confirm the assignment.
ReconcilableAssignment(d, j, name) ==
    /\ d.jobs[j].status \in {"queued", "admitted", "provisioning", "running"}
    /\ RecordedJitRunner(d, j, name)

\* Mutant: the reservation is returned before the Container has stopped.
CompletedReturnsCapacity(d, j) ==
    LET row == d.jobs[j]
        release(status) == ThenAdmitNext(ReleaseJob(d, j, row.slot, status))
    IN  CASE row.status \in {"queued", "admitted"} -> release("cancelled")
          [] row.status = "stopped-awaiting-completion" -> release("completed")
          [] row.status \in {"provisioning", "running"} -> release("releasing")
          [] OTHER -> NoAdmission(d)

WorkflowJobCompleted(d, j) ==
    LET row == d.jobs[j]
    IN  CASE row.status \in {"queued", "admitted"} ->
                 ThenAdmitNext(ReleaseJob(d, j, row.slot, "cancelled"))
          [] row.status = "stopped-awaiting-completion" ->
                 ThenAdmitNext(ReleaseJob(d, j, row.slot, "completed"))
          [] row.status \in {"provisioning", "running"} ->
                 NoAdmission(ScheduleWorkAlarm(
                     [d EXCEPT !.jobs[j] = [@ EXCEPT !.status = "releasing", !.due = TRUE]]))
          [] OTHER -> NoAdmission(d)

-----------------------------------------------------------------------------
(* RPC methods called by the provisioning workflow and by the Containers. *)

ClaimKind(d, j, name) ==
    LET job == d.jobs[j]
        slot == d.slots[job.slot]
        owns == slot.state = "configuring" /\ slot.owner = j
        held == slot.reclaimPending \/ slot.updating
        short == slot.applied < slot.desired
    IN  CASE job.status = "unknown" -> "missing"
          [] job.status # "unknown" /\ job.runner # name -> "cancelled"
          [] job.runner = name /\ job.status \in {"queued", "admitted"} ->
                 IF \/ job.slot = None
                    \/ slot.state = "configuring" /\ ~owns
                    \/ held
                    \/ ~owns /\ short
                 THEN "wait" ELSE "provision"
          [] job.runner = name /\ job.status \in {"provisioning", "running"} ->
                 IF job.slot = None THEN "missing"
                 ELSE IF held \/ short THEN "wait" ELSE "provision"
          [] OTHER -> "cancelled"

ClaimProvisioning(d, j, name) ==
    IF ClaimKind(d, j, name) = "provision" /\ d.jobs[j].status \in {"queued", "admitted"}
    THEN [d EXCEPT !.jobs[j].status = "provisioning"]
    ELSE d

\* The RunnerProvisioningPlan that a granted claim returns.
ProvisioningPlan(d, j) ==
    LET slot == d.slots[d.jobs[j].slot]
    IN  [slot |-> d.jobs[j].slot,
         instances |-> Larger(1, slot.reserved),
         generation |-> slot.generation,
         configure |-> slot.state = "configuring" /\ slot.owner = j]

ConfiguredSlot(row) ==
    [row EXCEPT !.profile = IF row.pending = None THEN @ ELSE row.pending,
                !.state = "ready", !.owner = None, !.pending = None, !.reclaimPending = FALSE]

ConfigurationReady(d, j) ==
    LET slot == d.jobs[j].slot
    IN  IF d.jobs[j].status = "unknown" \/ slot = None
        THEN NoAdmission(d)
        ELSE ThenAdmitNext(IF d.slots[slot].owner = j
                           THEN [d EXCEPT !.slots[slot] = ConfiguredSlot(@)]
                           ELSE d)

CapacityPrepared(d, s, generation) ==
    LET operations == {o \in d.operations : o.slot = s /\ o.generation = generation}
        target == (CHOOSE o \in operations : TRUE).target
        prepared == [d EXCEPT !.slots[s].applied = target,
                              !.slots[s].updating = @ /\ d.slots[s].updateGeneration # generation]
    IN  IF operations = {}
        THEN NoAdmission(d)
        ELSE [db |-> ScheduleWorkAlarm(prepared), admissions |-> ReadyAdmissions(prepared)]

CanStart(d, j, name) == d.jobs[j].status = "provisioning" /\ d.jobs[j].runner = name

\* runnerProvisioned: the JIT runner exists at GitHub; its id is identified with its name.
RunnerProvisioned(d, j, name) ==
    IF CanStart(d, j, name)
    THEN [d EXCEPT !.jobs[j].runnerId = name,
                   !.jitRunners = {r \in @ : r.name # name}
                                      \cup {[name |-> name, source |-> j]}]
    ELSE d

RunnerStarted(d, name) ==
    [d EXCEPT !.jobs = [j \in Jobs |->
        IF j \in NamedRows(d, name, {"provisioning"})
        THEN [d.jobs[j] EXCEPT !.status = "running"] ELSE d.jobs[j]]]

\* Mutant: the failed job keeps its reservation.
FailedWithoutRelease(d, j, name) ==
    IF CanStart(d, j, name)
    THEN ThenAdmitNext([d EXCEPT !.jobs[j].status = "failed"])
    ELSE NoAdmission(d)

ProvisioningFailed(d, j, name) ==
    IF CanStart(d, j, name)
    THEN ThenAdmitNext(ReleaseJob(d, j, d.jobs[j].slot, "failed"))
    ELSE NoAdmission(d)

\* Mutant: a stop of a job that is over already is taken for news.
StoppedWithoutActiveCheck(d, name) ==
    LET rows == FirstRows(d, NamedRows(d, name, JobStatus \ {"unknown"}))
        j == CHOOSE k \in rows : TRUE
    IN  IF rows = {}
        THEN NoAdmission(d)
        ELSE IF d.jobs[j].status = "releasing"
        THEN ThenAdmitNext(ReleaseJob(d, j, d.jobs[j].slot, "completed"))
        ELSE NoAdmission(ScheduleWorkAlarm(
                 [d EXCEPT !.jobs[j] = [@ EXCEPT !.status = "stopped-awaiting-completion",
                                                 !.due = TRUE]]))

RunnerStopped(d, name) ==
    LET rows == FirstRows(d, NamedRows(d, name, JobStatus \ {"unknown"}))
        j == CHOOSE k \in rows : TRUE
    IN  IF rows = {} \/ j \notin Active(d)
        THEN NoAdmission(d)
        ELSE IF d.jobs[j].status = "releasing"
        THEN ThenAdmitNext(ReleaseJob(d, j, d.jobs[j].slot, "completed"))
        ELSE NoAdmission(ScheduleWorkAlarm(
                 [d EXCEPT !.jobs[j] = [@ EXCEPT !.status = "stopped-awaiting-completion",
                                                 !.due = TRUE]]))

-----------------------------------------------------------------------------
(* The Durable Object's steps. *)

NoAlarm == [phase |-> "idle", work |-> {}, current |-> None, admissions |-> {}]

\* What the alarm copies of a job row before it awaits GitHub, of a slot row
\* before it awaits Cloudflare.
StoppedRow == [job : Jobs, slot : Slots \cup {None}, status : JobStatus, runnerId : RunnerNames \cup {None}]
DueSlot == [slot : Slots, target : Nat, reducing : BOOLEAN, generation : Nat]
StoppedRows(d, S) ==
    {[job |-> j, slot |-> d.jobs[j].slot, status |-> d.jobs[j].status,
      runnerId |-> d.jobs[j].runnerId] : j \in S}
DueSlots(d, S) ==
    {[slot |-> s, target |-> d.slots[s].desired,
      reducing |-> d.slots[s].desired < d.slots[s].applied,
      generation |-> d.slots[s].generation] : s \in S}

\* A call runs when no other does, or while the alarm awaits another service.
Interruptible == alarm.phase = "idle" \/ alarm.current # None

\* The copied rows from which the alarm is going to release stopped jobs.
InRecovery ==
    IF alarm.phase = "recovering" THEN alarm.work \cup ({alarm.current} \ {None}) ELSE {}

\* The bounds on the counters.
BoundedNames == [job : Jobs, attempt : Attempts]
Bounded(d) ==
    /\ \A s \in Slots : d.slots[s].generation \in Generations
    /\ \A j \in Jobs : d.jobs[j].attempt \in Attempts

\* create() with an id that exists is refused: the first instance is responsible.
Created(instances, admissions) ==
    instances \cup {a \in admissions : \A i \in instances : i.job # a.job \/ i.attempt # a.attempt}

\* The caller starts the admitted workflows, or dies before it has started them all.
StartWorkflows(admissions) ==
    \E started \in SUBSET admissions :
        /\ CallersDie \/ started = admissions
        /\ workflows' = Created(workflows, started)

Reply(reply) ==
    /\ Interruptible
    /\ Bounded(reply.db)
    /\ db' = reply.db
    /\ StartWorkflows(reply.admissions)
    /\ UNCHANGED alarm

Init ==
    /\ db = [jobs |-> [j \in Jobs |-> NoJobRow(j)], slots |-> [s \in Slots |-> InitialSlot(s)],
             operations |-> {}, jitRunners |-> {}, releasedBefore |-> {}, alarm |-> FALSE]
    /\ alarm = NoAlarm
    /\ workflows = {}

CallSubmit(j) == Reply(Submit(db, j))
CallWorkflowJobStarted(j, name) == Reply(WorkflowJobStarted(db, j, name))
CallCacheAssignment(j, name) ==
    ReconcilableAssignment(db, j, name) /\ Reply(WorkflowJobStarted(db, j, name))
CallWorkflowJobCompleted(j) == Reply(WorkflowJobCompleted(db, j))
CallClaimProvisioning(j, name) == Reply(NoAdmission(ClaimProvisioning(db, j, name)))
CallConfigurationReady(j) == Reply(ConfigurationReady(db, j))
CallCapacityPrepared(s, generation) == Reply(CapacityPrepared(db, s, generation))
CallRunnerProvisioned(j, name) == Reply(NoAdmission(RunnerProvisioned(db, j, name)))
CallRunnerStarted(name) == Reply(NoAdmission(RunnerStarted(db, name)))
CallProvisioningFailed(j, name) == Reply(ProvisioningFailed(db, j, name))
CallRunnerStopped(name) == Reply(RunnerStopped(db, name))

-----------------------------------------------------------------------------
(* alarm(): recoverStoppedRunners, the cleanup retries, applyScheduledCapacityUpdates,
   releaseConfigurationCapacityHolds, and the last round of admissions.  A phase with
   nothing to await runs within the step that follows it. *)

\* Mutant: the next phase does not await the deletion in hand.
AlarmAtOnce(phases) ==
    /\ alarm.phase \in phases /\ alarm.work = {}
    /\ alarm.phase = "idle" => db.alarm

\* The alarm goes off, or goes on after a phase; going off uses up the alarm that was set.
AlarmAt(phases) ==
    /\ alarm.phase \in phases /\ alarm.current = None /\ alarm.work = {}
    /\ alarm.phase = "idle" => db.alarm
Awake == [db EXCEPT !.alarm = @ /\ alarm.phase # "idle"]

\* recoverStoppedRunners reads the stopped jobs whose deadline has passed.
RecoverStoppedRunners ==
    /\ AlarmAt({"idle"})
    /\ \E S \in (SUBSET Recoverable(db)) \ {{}} :
         alarm' = [NoAlarm EXCEPT !.phase = "recovering", !.work = StoppedRows(db, S)]
    /\ db' = Awake
    /\ UNCHANGED workflows

\* The deletion of a runner is requested; the row in hand is the alarm's copy.
DeleteRunner ==
    /\ alarm.phase \in {"recovering", "cleaning"} /\ alarm.current = None
    /\ \E row \in alarm.work :
         /\ row.runnerId # None
         /\ alarm' = [alarm EXCEPT !.work = @ \ {row}, !.current = row]
    /\ UNCHANGED <<db, workflows>>

\* The alarm is done with a row: the transaction is committed, the admissions are kept.
RowDone(row, reply) ==
    /\ Bounded(reply.db)
    /\ db' = reply.db
    /\ alarm' = [alarm EXCEPT !.work = @ \ {row}, !.current = None,
                              !.admissions = @ \cup reply.admissions]
    /\ UNCHANGED workflows

\* retryRunnerCleanup has an outcome; a stopped job is then released from the copy.
FinishRow(row, retry) ==
    LET cleaned == [db EXCEPT !.jobs[row.job].cleanup = retry]
        status == IF row.status = "releasing" THEN "completed" ELSE "failed"
    IN  RowDone(row, IF alarm.phase = "recovering"
                     THEN AdmitNext(ReleaseJob(cleaned, row.job, row.slot, status))
                     ELSE NoAdmission(cleaned))

\* While the alarm awaited the runner's deletion the job was released, or it moved to
\* another slot: what the copy gives back is not the job's any more.
StaleRow(row) == row.job \notin Active(db) \/ db.jobs[row.job].slot # row.slot
StaleRelease(row) ==
    alarm.phase = "recovering" /\ StaleRow(row) /\ \E retry \in BOOLEAN : FinishRow(row, retry)
Misreleases == {row.slot : row \in {r \in InRecovery : StaleRelease(r)}}

\* GitHub answered: the runner is gone, or its deletion must be tried again.
RunnerDeleted(gone) ==
    /\ alarm.phase \in {"recovering", "cleaning"} /\ alarm.current # None
    /\ FinishRow(alarm.current, ~gone)

\* Without a runner id there is nothing to delete and nothing to await.
NothingToDelete ==
    /\ alarm.phase \in {"recovering", "cleaning"} /\ alarm.current = None
    /\ \E row \in alarm.work : row.runnerId = None /\ FinishRow(row, FALSE)

\* ... and then the deletions that are due again.
RetryCleanups ==
    /\ AlarmAt({"idle", "recovering"})
    /\ \E S \in (SUBSET CleanupRetries(db)) \ {{}} :
         alarm' = [alarm EXCEPT !.phase = "cleaning", !.work = StoppedRows(db, S)]
    /\ db' = Awake
    /\ UNCHANGED workflows

\* recoverStalledCapacityUpdates, for the updates in S that have stalled for long enough.
RecoverStalled(slots, S) ==
    [s \in Slots |-> IF s \in S THEN [slots[s] EXCEPT !.updating = FALSE] ELSE slots[s]]
UpdatingSlots(d) == {s \in Slots : d.slots[s].updating}

DueReductions(d) ==
    {s \in CapacityChanges(d) : d.slots[s].desired < d.slots[s].applied /\ d.slots[s].reserved = 0}
Increases(d) == {s \in CapacityChanges(d) : d.slots[s].desired > d.slots[s].applied}

\* applyScheduledCapacityUpdates reads the due slots: idle reductions, and the
\* increases whose debounce window is over.
PlanCapacityUpdates ==
    /\ AlarmAt({"idle", "recovering", "cleaning"})
    /\ \E stalled \in SUBSET UpdatingSlots(db) :
         LET d == [Awake EXCEPT !.slots = RecoverStalled(@, stalled)]
         IN  /\ db' = d
             /\ \E S \in SUBSET Increases(d) :
                  /\ stalled \cup S \cup DueReductions(d) # {}
                  /\ alarm' = [alarm EXCEPT !.phase = "updating",
                                            !.work = DueSlots(d, S \cup DueReductions(d))]
    /\ UNCHANGED workflows

\* ORDER BY reductions first, slot_id ASC.
NextDue(work) ==
    {w \in work : \A v \in work \ {w} :
        \/ w.reducing /\ ~v.reducing
        \/ w.reducing = v.reducing /\ SlotRank[w.slot] < SlotRank[v.slot]}

\* Mutant: the update is not marked as in progress.
StartUnmarked ==
    /\ alarm.phase = "updating" /\ alarm.current = None
    /\ \E due \in NextDue(alarm.work) :
         alarm' = [alarm EXCEPT !.work = @ \ {due},
                                !.current = IF db.slots[due.slot].generation = due.generation
                                            THEN due ELSE None]
    /\ UNCHANGED <<db, workflows>>

\* The next due slot is marked, unless it changed since, and Cloudflare is called.
StartCapacityUpdate ==
    /\ alarm.phase = "updating" /\ alarm.current = None
    /\ \E due \in NextDue(alarm.work) :
         LET row == db.slots[due.slot]
         IN  IF row.generation = due.generation /\ ~row.updating
             THEN /\ db' = [db EXCEPT !.slots[due.slot].updating = TRUE,
                                      !.slots[due.slot].updateGeneration = due.generation]
                  /\ alarm' = [alarm EXCEPT !.work = @ \ {due}, !.current = due]
             ELSE /\ alarm' = [alarm EXCEPT !.work = @ \ {due}]
                  /\ UNCHANGED db
    /\ UNCHANGED workflows

\* Cloudflare answered; a failure waits for another debounce window.
FinishCapacityUpdate(succeeded) ==
    /\ alarm.phase = "updating" /\ alarm.current # None
    /\ LET due == alarm.current
           row == db.slots[due.slot]
           failed == [db EXCEPT !.slots[due.slot].updating = @ /\ row.updateGeneration # due.generation]
           reply == IF succeeded THEN CapacityPrepared(db, due.slot, due.generation)
                    ELSE NoAdmission(failed)
       IN  /\ db' = reply.db
           /\ alarm' = [alarm EXCEPT !.current = None, !.admissions = @ \cup reply.admissions]
    /\ UNCHANGED workflows

HeldSlots(d) ==
    {s \in Slots : /\ d.slots[s].state = "configuring"
                   /\ d.slots[s].reclaimPending
                   /\ d.slots[s].pending # None}

\* releaseConfigurationCapacityHolds is reached: nothing that is due at once was passed over.
AlarmAtHolds ==
    \/ AlarmAt({"idle", "recovering", "cleaning"}) /\ DueReductions(db) = {}
    \/ AlarmAt({"updating"})

CheckCapacityHolds ==
    /\ AlarmAtHolds
    /\ HeldSlots(db) # {}
    /\ alarm' = [alarm EXCEPT !.phase = "holding", !.work = HeldSlots(db)]
    /\ db' = Awake
    /\ UNCHANGED workflows

\* releaseConfigurationCapacityHolds, for one slot.
ReleaseHold(d, s) ==
    LET row == d.slots[s]
        reductions == PlannedReductions(d.slots, d.releasedBefore, s, row.pending, row.desired)
    IN  IF ~PlanExists(d.slots, d.releasedBefore, s, row.pending, row.desired) THEN d
        ELSE IF reductions # {} THEN ScheduleCapacityReclamation(d, reductions)
        ELSE [d EXCEPT !.slots[s].reclaimPending = FALSE]

CheckCapacityHold ==
    /\ alarm.phase = "holding"
    /\ \E s \in FirstById(alarm.work) :
         /\ Bounded(ReleaseHold(db, s))
         /\ db' = ReleaseHold(db, s)
         /\ alarm' = [alarm EXCEPT !.work = @ \ {s}]
    /\ UNCHANGED workflows

LastAdmissions(reply) ==
    /\ Bounded(reply.db)
    /\ db' = ScheduleWorkAlarm(reply.db)
    /\ StartWorkflows(alarm.admissions \cup ReadyAdmissions(db) \cup reply.admissions)

\* ... and whatever is ready or admissible now is started; create() may fail.
AlarmEnds ==
    /\ \/ AlarmAtHolds /\ HeldSlots(db) = {}
       \/ AlarmAt({"holding"})
    /\ LastAdmissions(AdmitNext(Awake))
    /\ alarm' = NoAlarm

AlarmNext ==
    \/ RecoverStoppedRunners
    \/ DeleteRunner
    \/ \E gone \in BOOLEAN : RunnerDeleted(gone)
    \/ NothingToDelete
    \/ RetryCleanups
    \/ PlanCapacityUpdates
    \/ StartCapacityUpdate
    \/ \E succeeded \in BOOLEAN : FinishCapacityUpdate(succeeded)
    \/ CheckCapacityHolds
    \/ CheckCapacityHold
    \/ AlarmEnds

-----------------------------------------------------------------------------
(* The constructor. *)

\* reconcileSlotReservations, releaseCompletedJobsAwaitingContainerStop and
\* recoverStalledCapacityUpdates on a database left by an earlier instance.
Reconstructed(d, stalled) ==
    LET releasing == WithStatus(d, {"releasing"})
        vacated == {s \in Slots : \E j \in releasing : d.jobs[j].slot = s}
        held(s) == Cardinality(ActiveOn(d, s) \ releasing)
        counted(s) == [d.slots[s] EXCEPT !.reserved = held(s)]
    IN  [d EXCEPT
           !.jobs = [j \in Jobs |-> IF j \in releasing
                                    THEN [d.jobs[j] EXCEPT !.status = "completed", !.due = FALSE]
                                    ELSE d.jobs[j]],
           !.slots = RecoverStalled([s \in Slots |-> IF s \in vacated
                                                      THEN ReleasedSlot(counted(s), held(s))
                                                      ELSE counted(s)], stalled),
           !.releasedBefore = ReleasedNow(@, vacated)]

\* An instance dies at any await and the next one starts; an interrupted alarm is redelivered.
Restart ==
    /\ Interruptible
    /\ \E stalled \in SUBSET UpdatingSlots(db) :
         db' = ScheduleWorkAlarm([Reconstructed(db, stalled) EXCEPT
                                    !.alarm = @ \/ alarm.phase # "idle"])
    /\ alarm' = NoAlarm
    /\ UNCHANGED workflows

-----------------------------------------------------------------------------
(* The scheduler under calls from anyone, in any order, with any arguments. *)

Call ==
    \/ \E j \in Jobs : \/ CallSubmit(j)
                       \/ CallWorkflowJobCompleted(j)
                       \/ CallConfigurationReady(j)
    \/ \E j \in Jobs, name \in BoundedNames : \/ CallWorkflowJobStarted(j, name)
                                             \/ CallCacheAssignment(j, name)
                                             \/ CallClaimProvisioning(j, name)
                                             \/ CallRunnerProvisioned(j, name)
                                             \/ CallProvisioningFailed(j, name)
    \/ \E name \in BoundedNames : CallRunnerStarted(name) \/ CallRunnerStopped(name)
    \/ \E s \in Slots, generation \in Generations : CallCapacityPrepared(s, generation)

Next == Call \/ AlarmNext \/ Restart

Spec == Init /\ [][Next]_schedulerVars

-----------------------------------------------------------------------------
(* Properties. *)

Phases == {"idle", "recovering", "cleaning", "updating", "holding"}

AlarmType(a) ==
    /\ a \in [phase : Phases, work : SUBSET (StoppedRow \cup DueSlot \cup Slots),
              current : StoppedRow \cup DueSlot \cup {None}, admissions : SUBSET Admission]
    /\ a.phase = "idle" => a.work = {} /\ a.current = None
    /\ a.phase \in {"recovering", "cleaning"} =>
           a.work \subseteq StoppedRow /\ a.current \in StoppedRow \cup {None}
    /\ a.phase = "updating" => a.work \subseteq DueSlot /\ a.current \in DueSlot \cup {None}
    /\ a.phase = "holding" => a.work \subseteq Slots /\ a.current = None

\* The tables and what the alarm carries across its awaits hold what their types say:
\* no count is negative, no row in hand belongs to another phase of alarm().
SchedulerTypeOK ==
    /\ db \in Database
    /\ workflows \subseteq Admission
    /\ AlarmType(alarm)

\* The slot counts at least the active jobs on it.
CoveredOn(d, s) == Cardinality(ActiveOn(d, s)) <= d.slots[s].reserved
=============================================================================
