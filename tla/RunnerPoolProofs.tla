-------------------------- MODULE RunnerPoolProofs --------------------------
(***************************************************************************)
(* The pool's types and names, for every account, set of jobs, profiles    *)
(* and slots, every kind of deliveries and any number of faults.           *)
(*                                                                         *)
(* Names are what the pool hangs together by: the scheduler knows a runner *)
(* by its name, GitHub and the Containers as well, and a workflow instance *)
(* creates the one runner that its id names.  A row has its own name, or   *)
(* the name of the runner that GitHub says executes its job; and a name    *)
(* that a job may still be admitted under has never been used.             *)
(***************************************************************************)
EXTENDS RunnerPool, AccountRunnerSchedulerProofs

-----------------------------------------------------------------------------
(* How an operation of the scheduler moves the rows of the jobs: names stay, *)
(* nobody is queued again, nobody becomes an owner of a runner.             *)

Waits == {"unknown", "queued", "admitted"}
Owns == {"provisioning", "running", "releasing"}

RowKeeps(row, next) ==
    /\ next.runner = row.runner /\ next.attempt = row.attempt
    /\ \/ next.status = row.status
       \/ /\ next.status \notin {"unknown", "queued"}
          /\ next.status = "admitted" => row.status = "queued"
          /\ next.status \in Owns => row.status \in Owns

RowsKeep(d, e) == \A j \in Jobs : RowKeeps(d.jobs[j], e.jobs[j])

\* ... and who is admitted was waiting.
NamesKept(d, reply) ==
    /\ RowsKeep(d, reply.db)
    /\ \A a \in reply.admissions : \E j \in Jobs : d.jobs[j].status \in Waits /\ a = AdmissionFor(d, j)

LEMMA KeptTwice ==
    ASSUME NEW d, NEW m, RowsKeep(d, m), NEW reply, NamesKept(m, reply)
    PROVE  NamesKept(d, reply)
<1>1. RowsKeep(d, reply.db)
  BY DEF NamesKept, RowsKeep, RowKeeps, Owns
<1>2. ASSUME NEW a \in reply.admissions PROVE \E j \in Jobs : d.jobs[j].status \in Waits /\ a = AdmissionFor(d, j)
  <2>1. PICK j \in Jobs : m.jobs[j].status \in Waits /\ a = AdmissionFor(m, j)
    BY DEF NamesKept
  <2>2. d.jobs[j].status \in Waits /\ AdmissionFor(d, j) = AdmissionFor(m, j)
    BY <2>1 DEF RowsKeep, RowKeeps, Waits, AdmissionFor
  <2> QED BY <2>1, <2>2
<1> QED BY <1>1, <1>2 DEF NamesKept

LEMMA Unmoved ==
    ASSUME NEW d
    PROVE  RowsKeep(d, d) /\ NamesKept(d, NoAdmission(d))
BY DEF RowsKeep, RowKeeps, NamesKept, NoAdmission

LEMMA AdmitNextKeepsNames ==
    ASSUME NEW d \in Database
    PROVE  NamesKept(d, AdmitNext(d)) /\ NamesKept(d, ThenAdmitNext(d))
<1>1. NamesKept(d, AdmitNext(d))
  <2>1. CASE NextAdmission(d) = {}
    BY <2>1, Unmoved DEF AdmitNext, AdmitOneOf
  <2>2. CASE NextAdmission(d) # {}
    <3> DEFINE a == CHOOSE b \in NextAdmission(d) : TRUE
    <3>1. a \in NextAdmission(d) /\ AdmitNext(d) = Admit(d, a)
      BY <2>2 DEF AdmitNext, AdmitOneOf
    <3> HIDE DEF a
    <3>2. Admit(d, a).db.jobs = [d.jobs EXCEPT ![a.job] = [@ EXCEPT !.status = "admitted", !.slot = a.slot]]
      BY <3>1, AdmitEffect
    <3>3. a.job \in Jobs /\ a.slot \in Slots /\ d.jobs[a.job].status = "queued" /\ d.jobs \in [Jobs -> JobRow]
      BY <3>1, NextAdmissionType, DatabaseType
    <3>4. RowsKeep(d, Admit(d, a).db)
      BY <3>2, <3>3 DEF RowsKeep, RowKeeps, JobRow, Owns
    <3>5. Admit(d, a).admissions \subseteq {AdmissionFor(d, a.job)}
      BY DEF Admit, AdmitFor, AdmitWith
    <3> QED BY <3>1, <3>3, <3>4, <3>5 DEF NamesKept, Waits
  <2> QED BY <2>1, <2>2
<1>2. /\ ThenAdmitNext(d).db = ScheduleWorkAlarm(AdmitNext(d).db)
      /\ ThenAdmitNext(d).admissions = AdmitNext(d).admissions
  BY DEF ThenAdmitNext, AdmitNext, AdmitOneOf, NoAdmission, Admit, AdmitFor, AdmitWith
<1>3. ScheduleWorkAlarm(AdmitNext(d).db).jobs = AdmitNext(d).db.jobs
  BY AdmitNextPreserves, ScheduleWorkAlarmEffect DEF Preserves, SameJobs
<1> QED BY <1>1, <1>2, <1>3 DEF NamesKept, RowsKeep

LEMMA AlarmKeepsNames ==
    ASSUME NEW d, NEW m \in Database, RowsKeep(d, m)
    PROVE  NamesKept(d, NoAdmission(m)) /\ NamesKept(d, NoAdmission(ScheduleWorkAlarm(m)))
BY ScheduleWorkAlarmEffect DEF NamesKept, RowsKeep, NoAdmission, SameJobs

LEMMA ReleaseKeepsNames ==
    ASSUME NEW d \in Database, NEW j \in Jobs, NEW slot \in Slots \cup {None},
           NEW status \in {"completed", "cancelled", "failed"}
    PROVE  /\ ReleaseJob(d, j, slot, status) \in Database
           /\ RowsKeep(d, ReleaseJob(d, j, slot, status))
           /\ NamesKept(d, AdmitNext(ReleaseJob(d, j, slot, status)))
           /\ NamesKept(d, ThenAdmitNext(ReleaseJob(d, j, slot, status)))
<1> DEFINE ended == [d.jobs[j] EXCEPT !.status = status, !.due = FALSE]
           e == ReleaseJob(d, j, slot, status)
<1>1. d \in Database /\ d.jobs \in [Jobs -> JobRow] /\ e \in Database
  BY ReleaseJobEffect, DatabaseType DEF ReleasesOne
<1>2. e.jobs = [d.jobs EXCEPT ![j] = ended]
  BY <1>1 DEF ReleaseJob, Database
<1>3. RowKeeps(d.jobs[j], ended)
  BY <1>1 DEF RowKeeps, JobRow, Owns
<1> HIDE DEF ended, e
<1>4. RowsKeep(d, e)
  BY <1>1, <1>2, <1>3 DEF RowsKeep, RowKeeps
<1>5. NamesKept(d, AdmitNext(e)) /\ NamesKept(d, ThenAdmitNext(e))
  BY <1>1, <1>4, AdmitNextKeepsNames, KeptTwice
<1> QED BY <1>1, <1>4, <1>5 DEF e

\* The row of one job moves on.
LEMMA OneRowKeeps ==
    ASSUME NEW d \in Database, NEW j \in Jobs, NEW row \in JobRow, RowKeeps(d.jobs[j], row)
    PROVE  [d EXCEPT !.jobs[j] = row] \in Database /\ RowsKeep(d, [d EXCEPT !.jobs[j] = row])
<1> DEFINE e == [d EXCEPT !.jobs[j] = row]
<1>1. e \in Database /\ e.jobs[j] = row /\ \A k \in Jobs \ {j} : e.jobs[k] = d.jobs[k]
  BY SetJobType
<1> HIDE DEF e
<1>2. RowsKeep(d, e)
  BY <1>1 DEF RowsKeep, RowKeeps
<1> QED BY <1>1, <1>2 DEF e

LEMMA CompletionKeepsNames ==
    ASSUME NEW d \in Database, NEW j \in Jobs
    PROVE  NamesKept(d, WorkflowJobCompleted(d, j))
<1> DEFINE row == d.jobs[j]
           released == [row EXCEPT !.status = "releasing", !.due = TRUE]
<1>1. row \in JobRow /\ row.slot \in Slots \cup {None}
  BY DatabaseType DEF JobRow
<1>2. CASE row.status \in {"queued", "admitted", "stopped-awaiting-completion"}
  <2>1. PICK status \in {"cancelled", "completed"} : WorkflowJobCompleted(d, j) = ThenAdmitNext(ReleaseJob(d, j, row.slot, status))
    BY <1>2 DEF WorkflowJobCompleted
  <2> QED BY <1>1, <2>1, ReleaseKeepsNames
<1>3. CASE row.status \in {"provisioning", "running"}
  <2>1. released \in JobRow /\ RowKeeps(row, released)
    BY <1>1, <1>3 DEF JobRow, JobStatus, ACTIVE_JOB_STATES, RowKeeps, Owns
  <2>2. WorkflowJobCompleted(d, j) = NoAdmission(ScheduleWorkAlarm([d EXCEPT !.jobs[j] = released]))
    BY <1>3 DEF WorkflowJobCompleted
  <2> HIDE DEF released
  <2> QED BY <2>1, <2>2, OneRowKeeps, AlarmKeepsNames
<1>4. CASE row.status \notin {"queued", "admitted", "stopped-awaiting-completion", "provisioning", "running"}
  BY <1>4, Unmoved DEF WorkflowJobCompleted
<1> QED BY <1>2, <1>3, <1>4

LEMMA FailureKeepsNames ==
    ASSUME NEW d \in Database, NEW j \in Jobs, NEW name
    PROVE  NamesKept(d, ProvisioningFailed(d, j, name))
<1>1. d.jobs[j].slot \in Slots \cup {None}
  BY DatabaseType DEF JobRow
<1> QED BY <1>1, ReleaseKeepsNames, Unmoved DEF ProvisioningFailed

LEMMA ConfigurationKeepsNames ==
    ASSUME NEW d \in Database, NEW j \in Jobs
    PROVE  NamesKept(d, ConfigurationReady(d, j))
<1> DEFINE slot == d.jobs[j].slot
           m == [d EXCEPT !.slots[slot] = ConfiguredSlot(d.slots[slot])]
<1>1. CASE d.jobs[j].status = "unknown" \/ slot = None
  BY <1>1, Unmoved DEF ConfigurationReady
<1>2. CASE ~(d.jobs[j].status = "unknown" \/ slot = None)
  <2>1. slot \in Slots /\ d.slots[slot] \in SlotRow
    BY <1>2, DatabaseType DEF JobRow
  <2>2. ConfiguredSlot(d.slots[slot]) \in SlotRow
    BY <2>1 DEF ConfiguredSlot, SlotRow, CONFIGURATION_STATES
  <2>3. m \in Database /\ m.jobs = d.jobs
    BY <2>1, <2>2, SetSlotType
  <2>4. ConfigurationReady(d, j) = ThenAdmitNext(m) \/ ConfigurationReady(d, j) = ThenAdmitNext(d)
    BY <1>2 DEF ConfigurationReady
  <2> HIDE DEF m
  <2>5. RowsKeep(d, m)
    BY <2>3 DEF RowsKeep, RowKeeps
  <2> QED BY <2>3, <2>4, <2>5, AdmitNextKeepsNames, KeptTwice
<1> QED BY <1>1, <1>2

\* The applied capacity is recorded; whoever is started now was admitted before.
LEMMA CapacityKeepsNames ==
    ASSUME NEW d \in Database, NEW s \in Slots, NEW generation \in Nat
    PROVE  NamesKept(d, CapacityPrepared(d, s, generation))
<1> DEFINE reply == CapacityPrepared(d, s, generation)
<1>1. reply.db.jobs = d.jobs
  BY CapacityPreparedPreserves
<1>2. RowsKeep(d, reply.db)
  BY <1>1 DEF RowsKeep, RowKeeps
<1>3. CASE {o \in d.operations : o.slot = s /\ o.generation = generation} = {}
  BY <1>3, Unmoved DEF CapacityPrepared
<1>4. CASE {o \in d.operations : o.slot = s /\ o.generation = generation} # {}
  <2> DEFINE target == (CHOOSE o \in {o \in d.operations : o.slot = s /\ o.generation = generation} : TRUE).target
             m == [d EXCEPT !.slots[s].applied = target,
                            !.slots[s].updating = @ /\ d.slots[s].updateGeneration # generation]
  <2>1. m.jobs = d.jobs /\ reply.admissions = ReadyAdmissions(m)
    <3>1. m.jobs = d.jobs
      BY DEF Database
    <3>2. reply.admissions = ReadyAdmissions(m)
      BY <1>4 DEF CapacityPrepared
    <3> QED BY <3>1, <3>2
  <2> HIDE DEF m
  <2>2. ASSUME NEW a \in reply.admissions
        PROVE  \E j \in Jobs : d.jobs[j].status \in Waits /\ a = AdmissionFor(d, j)
    BY <2>1 DEF ReadyAdmissions, WithStatus, AdmissionFor, Waits
  <2> QED BY <1>2, <2>2 DEF NamesKept
<1> QED BY <1>3, <1>4

LEMMA RecordingKeepsNames ==
    ASSUME NEW d \in Database, NEW j \in Jobs, NEW name \in RunnerNames
    PROVE  NamesKept(d, NoAdmission(RunnerProvisioned(d, j, name)))
<1> DEFINE e == RunnerProvisioned(d, j, name)
<1>1. d.jobs \in [Jobs -> JobRow]
  BY DatabaseType
<1>2. \A k \in Jobs : RowKeeps(d.jobs[k], e.jobs[k])
  BY <1>1 DEF RunnerProvisioned, RowKeeps, Database, JobRow
<1> HIDE DEF e
<1> QED BY <1>2 DEF RowsKeep, NamesKept, NoAdmission, e

LEMMA StartKeepsNames ==
    ASSUME NEW d \in Database, NEW name
    PROVE  NamesKept(d, NoAdmission(RunnerStarted(d, name)))
<1> DEFINE e == RunnerStarted(d, name)
<1>1. d.jobs \in [Jobs -> JobRow]
  BY DatabaseType
<1>2. \A k \in Jobs : RowKeeps(d.jobs[k], e.jobs[k])
  BY <1>1 DEF RunnerStarted, RowKeeps, Database, JobRow, NamedRows, WithStatus, Owns
<1> HIDE DEF e
<1> QED BY <1>2 DEF RowsKeep, NamesKept, NoAdmission, e

LEMMA StopKeepsNames ==
    ASSUME NEW d \in Database, NEW name
    PROVE  NamesKept(d, RunnerStopped(d, name))
<1> DEFINE rows == FirstRows(d, NamedRows(d, name, JobStatus \ {"unknown"}))
           j == CHOOSE k \in rows : TRUE
           row == d.jobs[j]
           stopped == [row EXCEPT !.status = "stopped-awaiting-completion", !.due = TRUE]
<1>1. CASE rows = {} \/ j \notin Active(d)
  BY <1>1, Unmoved DEF RunnerStopped
<1>2. CASE ~(rows = {} \/ j \notin Active(d))
  <2>1. j \in Active(d)
    BY <1>2
  <2>2. RunnerStopped(d, name) =
          IF row.status = "releasing"
          THEN ThenAdmitNext(ReleaseJob(d, j, row.slot, "completed"))
          ELSE NoAdmission(ScheduleWorkAlarm([d EXCEPT !.jobs[j] = stopped]))
    BY <1>2 DEF RunnerStopped
  <2> HIDE DEF j
  <2>3. j \in Jobs /\ row \in JobRow /\ row.slot \in Slots \cup {None}
    BY <2>1, DatabaseType DEF Active, WithStatus, JobRow
  <2>4. CASE row.status = "releasing"
    BY <2>2, <2>3, <2>4, ReleaseKeepsNames
  <2>5. CASE row.status # "releasing"
    <3>1. stopped \in JobRow /\ RowKeeps(row, stopped)
      BY <2>3 DEF JobRow, JobStatus, ACTIVE_JOB_STATES, RowKeeps, Owns
    <3> HIDE DEF stopped
    <3>2. RunnerStopped(d, name) = NoAdmission(ScheduleWorkAlarm([d EXCEPT !.jobs[j] = stopped]))
      BY <2>2, <2>5
    <3> QED BY <2>3, <3>1, <3>2, OneRowKeeps, AlarmKeepsNames
  <2> QED BY <2>4, <2>5
<1> QED BY <1>1, <1>2

-----------------------------------------------------------------------------
(* The rows, with g for what GitHub knows of the jobs. *)

\* A row has its own name, or that of the runner that executes its job; a job that
\* waits has its own.
RowsNamed(d, g) ==
    \A j \in Jobs :
        /\ d.jobs[j].attempt \in Attempts
        /\ d.jobs[j].status = "unknown" => d.jobs[j].attempt = 1
        /\ \/ d.jobs[j].runner = RunnerName(j, d.jobs[j].attempt)
           \/ /\ d.jobs[j].status \notin Waits
              /\ g[j].runner # None /\ d.jobs[j].runner = g[j].runner

OwnersUnique(d) ==
    \A j, k \in WithStatus(d, Owns) : j # k => d.jobs[j].runner # d.jobs[k].runner

\* The names under which a job may still be admitted.
Ahead(d, name) ==
    \/ name.attempt > d.jobs[name.job].attempt
    \/ name.attempt = d.jobs[name.job].attempt /\ d.jobs[name.job].status \in Waits

Moves(d, e, g) ==
    /\ RowsNamed(e, g)
    /\ OwnersUnique(e)
    /\ \A name \in WorkflowIds : Ahead(e, name) => Ahead(d, name)

NamedAfterJobs(S) == \A i \in S : i.name = RunnerName(i.job, i.attempt) /\ i.attempt \in Attempts

Orderly(d, g, reply) == Moves(d, reply.db, g) /\ NamedAfterJobs(reply.admissions)

LEMMA KeptRowsMove ==
    ASSUME NEW d, NEW e, NEW g, RowsNamed(d, g), OwnersUnique(d), RowsKeep(d, e)
    PROVE  Moves(d, e, g)
<1>1. \A j \in Jobs : RowKeeps(d.jobs[j], e.jobs[j])
  BY DEF RowsKeep
<1>2. RowsNamed(e, g)
  BY <1>1 DEF RowsNamed, RowKeeps, Waits
<1>3. OwnersUnique(e)
  BY <1>1 DEF OwnersUnique, WithStatus, RowKeeps, Owns
<1>4. ASSUME NEW name \in WorkflowIds, Ahead(e, name) PROVE Ahead(d, name)
  BY <1>1, <1>4 DEF Ahead, RowKeeps, Waits, WorkflowIds
<1> QED BY <1>2, <1>3, <1>4 DEF Moves

LEMMA KeptNamesAreOrderly ==
    ASSUME NEW d, NEW g, NEW reply, RowsNamed(d, g), OwnersUnique(d), NamesKept(d, reply)
    PROVE  Orderly(d, g, reply)
<1>1. Moves(d, reply.db, g)
  BY KeptRowsMove DEF NamesKept
<1>2. ASSUME NEW a \in reply.admissions PROVE a.name = RunnerName(a.job, a.attempt) /\ a.attempt \in Attempts
  <2>1. PICK j \in Jobs : d.jobs[j].status \in Waits /\ a = AdmissionFor(d, j)
    BY DEF NamesKept
  <2> QED BY <2>1 DEF AdmissionFor, RowsNamed
<1> QED BY <1>1, <1>2 DEF Orderly, NamedAfterJobs

LEMMA MovedThenKept ==
    ASSUME NEW d, NEW m, NEW g, NEW reply, Moves(d, m, g), NamesKept(m, reply)
    PROVE  Orderly(d, g, reply)
BY KeptNamesAreOrderly DEF Moves, Orderly

\* workflow_job queued: a job nobody knew is inserted under its first name.
LEMMA SubmissionIsOrderly ==
    ASSUME NEW d \in Database, NEW g, NEW j \in Jobs, RowsNamed(d, g), OwnersUnique(d)
    PROVE  Orderly(d, g, Submit(d, j))
<1> DEFINE row == [NoJobRow(j) EXCEPT !.status = "queued",
                                      !.created = Cardinality(Jobs \ WithStatus(d, {"unknown"})) + 1]
           m == [d EXCEPT !.jobs[j] = row]
<1>1. CASE d.jobs[j].status # "unknown"
  BY <1>1, Unmoved, KeptNamesAreOrderly DEF Submit
<1>2. CASE d.jobs[j].status = "unknown"
  <2>1. Cardinality(Jobs \ WithStatus(d, {"unknown"})) \in Nat
    BY SchedulerAssumption, FS_Subset, FS_CardinalityType
  <2>2. row \in JobRow /\ row.status = "queued" /\ row.attempt = 1 /\ row.runner = RunnerName(j, 1)
    <3>1. NoJobRow(j) \in JobRow /\ NoJobRow(j).attempt = 1 /\ NoJobRow(j).runner = RunnerName(j, 1)
      BY NoJobRowType DEF NoJobRow
    <3>2. Cardinality(Jobs \ WithStatus(d, {"unknown"})) + 1 \in Nat
      BY <2>1
    <3> QED BY <3>1, <3>2 DEF JobRow, JobStatus
  <2>3. Submit(d, j) = ThenAdmitNext(m)
    BY <1>2 DEF Submit
  <2> HIDE DEF row
  <2>4. m \in Database /\ m.jobs[j] = row /\ \A k \in Jobs \ {j} : m.jobs[k] = d.jobs[k]
    BY <2>2, SetJobType
  <2> HIDE DEF m
  <2>5. RowsNamed(m, g)
    BY <2>2, <2>4, SchedulerAssumption DEF RowsNamed
  <2>6. OwnersUnique(m)
    BY <2>2, <2>4 DEF OwnersUnique, WithStatus, Owns
  <2>7. ASSUME NEW name \in WorkflowIds, Ahead(m, name) PROVE Ahead(d, name)
    <3>1. CASE name.job = j
      BY <1>2, <2>2, <2>4, <2>7, <3>1 DEF Ahead, RowsNamed, Waits
    <3>2. CASE name.job # j
      BY <2>4, <2>7, <3>2 DEF Ahead, WorkflowIds
    <3> QED BY <3>1, <3>2
  <2> QED BY <2>3, <2>4, <2>5, <2>6, <2>7, AdmitNextKeepsNames, MovedThenKept DEF Moves
<1> QED BY <1>1, <1>2

\* claimProvisioning: a job that waits becomes the owner of the runner of its own
\* name, which nothing has executed yet.
LEMMA ClaimIsOrderly ==
    ASSUME NEW d \in Database, NEW g, NEW name \in WorkflowIds, RowsNamed(d, g), OwnersUnique(d),
           \A j \in Jobs : g[j].runner # name, ClaimKind(d, name.job, name) = "provision"
    PROVE  /\ Orderly(d, g, NoAdmission(ClaimProvisioning(d, name.job, name)))
           /\ ~Ahead(ClaimProvisioning(d, name.job, name), name)
<1> DEFINE j == name.job
           row == d.jobs[j]
           claimed == [row EXCEPT !.status = "provisioning"]
           e == ClaimProvisioning(d, j, name)
<1>1. j \in Jobs /\ row \in JobRow /\ name = RunnerName(j, name.attempt) /\ d.jobs \in [Jobs -> JobRow]
  BY DatabaseType DEF WorkflowIds, RunnerName
<1>2. row.runner = name /\ row.status \in {"queued", "admitted", "provisioning", "running"}
  BY DEF ClaimKind
<1>n. ASSUME NEW k \in Jobs, d.jobs[k].runner = name
      PROVE  k = j /\ d.jobs[k].attempt = name.attempt
  <2>1. name = RunnerName(k, d.jobs[k].attempt)
    BY <1>n DEF RowsNamed
  <2> QED BY <2>1 DEF RunnerName
<1>3. row.attempt = name.attempt /\ row.attempt \in Nat
  BY <1>1, <1>2, <1>n DEF JobRow
<1>4. \A k \in Jobs \ {j} : d.jobs[k].runner # name
  BY <1>n
<1>5. CASE row.status \in {"queued", "admitted"}
  <2>1. claimed \in JobRow /\ claimed.status = "provisioning"
        /\ claimed.runner = row.runner /\ claimed.attempt = row.attempt
    BY <1>1 DEF JobRow, JobStatus, ACTIVE_JOB_STATES
  <2>2. e = [d EXCEPT !.jobs[j] = claimed]
    BY <1>1, <1>5 DEF ClaimProvisioning, Database
  <2> HIDE DEF claimed, e, j
  <2>3. e \in Database /\ e.jobs[j] = claimed /\ \A k \in Jobs \ {j} : e.jobs[k] = d.jobs[k]
    BY <1>1, <2>1, <2>2, SetJobType
  <2>4. RowsNamed(e, g)
    BY <1>1, <1>2, <1>3, <2>1, <2>3 DEF RowsNamed
  <2>5. OwnersUnique(e)
    BY <1>1, <1>2, <1>4, <2>1, <2>3 DEF OwnersUnique, WithStatus
  <2>6. ASSUME NEW other \in WorkflowIds, Ahead(e, other) PROVE Ahead(d, other)
    BY <2>1, <2>3, <2>6 DEF Ahead, WorkflowIds, Waits
  <2>7. ~Ahead(e, name)
    BY <1>1, <1>3, <2>1, <2>3 DEF Ahead, Waits, j
  <2> QED BY <2>4, <2>5, <2>6, <2>7 DEF Moves, Orderly, NoAdmission, NamedAfterJobs, e, j
<1>6. CASE row.status \notin {"queued", "admitted"}
  <2>1. e = d
    BY <1>6 DEF ClaimProvisioning
  <2>2. ~Ahead(d, name)
    BY <1>2, <1>3, <1>6 DEF Ahead, Waits
  <2> QED BY <2>1, <2>2, Unmoved, KeptNamesAreOrderly
<1> QED BY <1>5, <1>6

LEMMA RowsMovedBy ==
    ASSUME NEW row \in JobRow, NEW name, NEW slot
    PROVE  /\ RunningOn(row, name, slot).runner = name
           /\ RunningOn(row, name, slot).attempt = row.attempt
           /\ Requeued(row).runner = RunnerName(row.runner.job, row.attempt + 1)
           /\ Requeued(row).attempt = row.attempt + 1
<1>1. RunningOn(row, name, slot).runner = name /\ RunningOn(row, name, slot).attempt = row.attempt
  BY DEF RunningOn, JobRow
<1>2. Requeued(row).runner = RunnerName(row.runner.job, row.attempt + 1) /\ Requeued(row).attempt = row.attempt + 1
  BY DEF Requeued, JobRow
<1> QED BY <1>1, <1>2

\* A job that runs under the name of the runner that executes it, which nobody owns.
LEMMA AdoptionIsOrderly ==
    ASSUME NEW d \in Database, NEW g, NEW j \in Jobs, RowsNamed(d, g), OwnersUnique(d),
           g[j].runner \in RunnerNames, g[j].runner # None, NamedRows(d, g[j].runner, Owns) = {}
    PROVE  Orderly(d, g, NoAdmission(AdoptUnownedRunner(d, j, g[j].runner)))
<1> DEFINE name == g[j].runner
           row == d.jobs[j]
           running == RunningOn(row, name, row.slot)
           e == AdoptUnownedRunner(d, j, name)
<1>1. CASE row.status \notin {"queued", "admitted", "running"}
  BY <1>1, Unmoved, KeptNamesAreOrderly DEF AdoptUnownedRunner
<1>2. CASE row.status \in {"queued", "admitted", "running"}
  <2>1. row \in JobRow /\ d.jobs \in [Jobs -> JobRow]
    BY DatabaseType
  <2>2. /\ running \in JobRow /\ running.status = "running"
        /\ running.runner = name /\ running.attempt = row.attempt
    <3>1. row.slot \in Slots \cup {None}
      BY <2>1 DEF JobRow
    <3> QED BY <2>1, <3>1, RunningOnType, RowsMovedBy
  <2>3. e = [d EXCEPT !.jobs[j] = running]
    BY <1>2, <2>1 DEF AdoptUnownedRunner, Database
  <2>4. \A k \in Jobs : d.jobs[k].status \in Owns => d.jobs[k].runner # name
    BY DEF NamedRows, WithStatus
  <2> HIDE DEF running, e
  <2>5. e \in Database /\ e.jobs[j] = running /\ \A k \in Jobs \ {j} : e.jobs[k] = d.jobs[k]
    BY <2>2, <2>3, SetJobType
  <2>6. RowsNamed(e, g)
    <3>1. ASSUME NEW k \in Jobs \ {j}
          PROVE  /\ e.jobs[k].attempt \in Attempts
                 /\ e.jobs[k].status = "unknown" => e.jobs[k].attempt = 1
                 /\ \/ e.jobs[k].runner = RunnerName(k, e.jobs[k].attempt)
                    \/ /\ e.jobs[k].status \notin Waits
                       /\ g[k].runner # None /\ e.jobs[k].runner = g[k].runner
      BY <2>5 DEF RowsNamed
    <3>2. e.jobs[j].attempt \in Attempts
      BY <2>2, <2>5 DEF RowsNamed
    <3> QED BY <2>2, <2>5, <3>1, <3>2 DEF RowsNamed, Waits
  <2>7. OwnersUnique(e)
    <3>1. \A k \in Jobs \ {j} : e.jobs[k].status \in Owns => e.jobs[k].runner # e.jobs[j].runner
      BY <2>2, <2>4, <2>5
    <3> QED BY <2>5, <3>1 DEF OwnersUnique, WithStatus
  <2>8. ASSUME NEW other \in WorkflowIds, Ahead(e, other) PROVE Ahead(d, other)
    BY <2>2, <2>5, <2>8 DEF Ahead, WorkflowIds, Waits
  <2> QED BY <2>6, <2>7, <2>8 DEF Moves, Orderly, NoAdmission, NamedAfterJobs, e
<1> QED BY <1>1, <1>2

\* The runner of one job executes another one: that one gets the runner and the slot,
\* the owner waits again, under its next name.
LEMMA TransferIsOrderly ==
    ASSUME NEW d \in Database, NEW g, NEW j \in Jobs, NEW owner \in Jobs, RowsNamed(d, g), OwnersUnique(d),
           g[j].runner \in RunnerNames, g[j].runner # None,
           \A k \in Jobs : g[k].runner = g[j].runner => k = j,
           owner # j, d.jobs[owner].status \in Owns, d.jobs[owner].runner = g[j].runner,
           d.jobs[j].status # "unknown", d.jobs[owner].slot # None
    PROVE  LET e == TransferRunner(d, j, g[j].runner, owner)
           IN  /\ e \in Database
               /\ e.jobs[owner].attempt \in Attempts => Moves(d, e, g)
<1> DEFINE name == g[j].runner
           mine == RunningOn(d.jobs[j], name, d.jobs[owner].slot)
           other == Requeued(d.jobs[owner])
           e == TransferRunner(d, j, name, owner)
<1>1. d.jobs \in [Jobs -> JobRow] /\ d.jobs[owner].slot \in Slots \cup {None}
  BY DatabaseType DEF JobRow
<1>2. e \in Database
  BY TransferRunnerPreserves DEF Owns
<1>3. /\ mine \in JobRow /\ mine.status = "running"
      /\ mine.runner = name /\ mine.attempt = d.jobs[j].attempt
  BY <1>1, RunningOnType, RowsMovedBy
<1>4. d.jobs[owner].runner = RunnerName(owner, d.jobs[owner].attempt)
  BY DEF RowsNamed
<1>5. /\ other \in JobRow /\ other.status = "queued" /\ other.attempt = d.jobs[owner].attempt + 1
      /\ other.runner = RunnerName(owner, d.jobs[owner].attempt + 1)
  <2>1. d.jobs[owner].runner.job = owner
    BY <1>4 DEF RunnerName
  <2> QED BY <1>1, <2>1, RequeuedType, RowsMovedBy
<1>6. e.jobs = [k \in Jobs |-> IF k = owner THEN other ELSE IF k = j THEN mine ELSE d.jobs[k]]
  BY DEF TransferRunner, Database
<1> HIDE DEF e, mine, other
<1>7. e.jobs[owner] = other /\ e.jobs[j] = mine /\ \A k \in Jobs \ {owner, j} : e.jobs[k] = d.jobs[k]
  BY <1>6
<1>8. ASSUME e.jobs[owner].attempt \in Attempts PROVE Moves(d, e, g)
  <2>1. RowsNamed(e, g)
    <3> DEFINE Good(k) == /\ e.jobs[k].attempt \in Attempts
                          /\ e.jobs[k].status = "unknown" => e.jobs[k].attempt = 1
                          /\ \/ e.jobs[k].runner = RunnerName(k, e.jobs[k].attempt)
                             \/ /\ e.jobs[k].status \notin Waits
                                /\ g[k].runner # None /\ e.jobs[k].runner = g[k].runner
    <3>1. ASSUME NEW k \in Jobs \ {owner, j} PROVE Good(k)
      BY <1>7 DEF RowsNamed
    <3>2. Good(owner)
      BY <1>5, <1>7, <1>8
    <3>3. Good(j)
      BY <1>3, <1>7 DEF RowsNamed, Waits
    <3> QED BY <3>1, <3>2, <3>3 DEF RowsNamed
  <2>2. OwnersUnique(e)
    <3>1. \A k \in Jobs \ {owner} : d.jobs[k].status \in Owns => d.jobs[k].runner # name
      BY DEF OwnersUnique, WithStatus
    <3>2. other.status \notin Owns
      BY <1>5 DEF Owns
    <3>3. \A k \in Jobs \ {j} : e.jobs[k].status \in Owns => e.jobs[k].runner # e.jobs[j].runner
      BY <1>3, <1>7, <3>1, <3>2
    <3>4. \A k, i \in Jobs \ {owner, j} : k # i /\ e.jobs[k].status \in Owns /\ e.jobs[i].status \in Owns
                                             => e.jobs[k].runner # e.jobs[i].runner
      BY <1>7 DEF OwnersUnique, WithStatus
    <3> QED BY <1>7, <3>2, <3>3, <3>4 DEF OwnersUnique, WithStatus
  <2>3. ASSUME NEW w \in WorkflowIds, Ahead(e, w) PROVE Ahead(d, w)
    <3>0. w.job \in Jobs /\ w.attempt \in Nat
      BY SchedulerAssumption DEF WorkflowIds
    <3>1. CASE w.job = owner
      <4>1. d.jobs[owner].attempt \in Nat
        BY <1>1 DEF JobRow
      <4> QED BY <1>5, <1>7, <2>3, <3>0, <3>1, <4>1 DEF Ahead
    <3>2. CASE w.job = j
      BY <1>3, <1>7, <2>3, <3>2 DEF Ahead, Waits
    <3>3. CASE w.job \notin {owner, j}
      BY <1>7, <2>3, <3>0, <3>3 DEF Ahead
    <3> QED BY <3>1, <3>2, <3>3
  <2> QED BY <2>1, <2>2, <2>3 DEF Moves
<1> QED BY <1>2, <1>8 DEF e

\* workflow_job in_progress: GitHub says which runner executes the job.
LEMMA AssignmentIsOrderly ==
    ASSUME NEW d \in Database, NEW g, NEW j \in Jobs, RowsNamed(d, g), OwnersUnique(d),
           g[j].runner \in RunnerNames, g[j].runner # None,
           \A k \in Jobs : g[k].runner = g[j].runner => k = j,
           Bounded(WorkflowJobStarted(d, j, g[j].runner).db)
    PROVE  Orderly(d, g, WorkflowJobStarted(d, j, g[j].runner))
<1> DEFINE name == g[j].runner
           rows == NamedRows(d, name, Owns)
           owners == RunnerOwners(d, name)
           owner == CHOOSE k \in owners : TRUE
           reply == WorkflowJobStarted(d, j, name)
           e == TransferRunner(d, j, name, owner)
<1>1. owners = rows
  <2>1. \A k, i \in rows : k = i
    BY DEF OwnersUnique, NamedRows, WithStatus
  <2>2. \A k \in rows : d.jobs[k].created <= d.jobs[k].created
    BY DatabaseType DEF NamedRows, WithStatus, JobRow
  <2>3. owners = FirstRows(d, rows)
    BY DEF RunnerOwners, Owns
  <2> QED BY <2>1, <2>2, <2>3 DEF FirstRows
<1>2. CASE owners = {}
  <2>1. \/ reply = NoAdmission(AdoptUnownedRunner(d, j, name))
        \/ reply = NoAdmission(d)
    BY <1>2 DEF WorkflowJobStarted
  <2> QED BY <1>1, <1>2, <2>1, AdoptionIsOrderly, Unmoved, KeptNamesAreOrderly
<1>3. CASE owners # {}
  <2>1. owner \in owners
    BY <1>3
  <2>2. \/ reply = NoAdmission(d)
        \/ /\ reply = ThenAdmitNext(e)
           /\ owner # j /\ d.jobs[j].status # "unknown" /\ d.jobs[owner].slot # None
    BY <1>3 DEF WorkflowJobStarted
  <2> HIDE DEF owner
  <2>3. owner \in Jobs /\ d.jobs[owner].status \in Owns /\ d.jobs[owner].runner = name
    BY <1>1, <2>1 DEF NamedRows, WithStatus
  <2>4. CASE reply = NoAdmission(d)
    BY <2>4, Unmoved, KeptNamesAreOrderly
  <2>5. CASE /\ reply = ThenAdmitNext(e)
             /\ owner # j /\ d.jobs[j].status # "unknown" /\ d.jobs[owner].slot # None
    <3>1. e \in Database /\ (e.jobs[owner].attempt \in Attempts => Moves(d, e, g))
      BY <2>3, <2>5, TransferIsOrderly
    <3> HIDE DEF e
    <3>2. NamesKept(e, reply)
      BY <2>5, <3>1, AdmitNextKeepsNames
    <3>3. e.jobs[owner].attempt = reply.db.jobs[owner].attempt
      BY <2>3, <3>2 DEF NamesKept, RowsKeep, RowKeeps
    <3>4. e.jobs[owner].attempt \in Attempts
      BY <2>3, <3>3 DEF Bounded
    <3> QED BY <3>1, <3>2, <3>4, MovedThenKept
  <2> QED BY <2>2, <2>4, <2>5
<1> QED BY <1>2, <1>3

-----------------------------------------------------------------------------
(* The scheduler's steps. *)

\* The names in the scheduler's tables and in the alarm's hands.
SchedulerNames ==
    /\ RowsNamed(db, github)
    /\ OwnersUnique(db)
    /\ NamedAfterJobs(workflows)
    /\ NamedAfterJobs(alarm.admissions)

SchedulerMoves ==
    /\ Moves(db, db', github)
    /\ NamedAfterJobs(workflows')
    /\ NamedAfterJobs(alarm'.admissions)

LEMMA StartedAreNamed ==
    ASSUME NEW admissions, NamedAfterJobs(admissions), NamedAfterJobs(workflows), StartWorkflows(admissions)
    PROVE  NamedAfterJobs(workflows')
<1>1. workflows' \subseteq workflows \cup admissions
  BY DEF StartWorkflows, Created
<1> QED BY <1>1 DEF NamedAfterJobs

LEMMA ReplyMoves ==
    ASSUME NEW reply, SchedulerNames, Orderly(db, github, reply), Reply(reply)
    PROVE  SchedulerMoves
BY StartedAreNamed DEF Reply, Orderly, SchedulerNames, SchedulerMoves

LEMMA SameRowsMove ==
    ASSUME SchedulerNames, db'.jobs = db.jobs, workflows' = workflows,
           alarm'.admissions = alarm.admissions \/ alarm'.admissions = {}
    PROVE  SchedulerMoves
<1>1. RowsKeep(db, db')
  BY DEF RowsKeep, RowKeeps
<1>2. Moves(db, db', github)
  BY <1>1, KeptRowsMove DEF SchedulerNames
<1> QED BY <1>2 DEF SchedulerMoves, SchedulerNames, NamedAfterJobs

\* The job in hand is released, or its cleanup is put off.
LEMMA FinishRowMoves ==
    ASSUME SchedulerTypeOK, SchedulerNames, NEW row \in StoppedRow, NEW retry \in BOOLEAN, FinishRow(row, retry)
    PROVE  SchedulerMoves
<1> DEFINE j == row.job
           new == [db.jobs[j] EXCEPT !.cleanup = retry]
           cleaned == [db EXCEPT !.jobs[j] = new]
           status == IF row.status = "releasing" THEN "completed" ELSE "failed"
           reply == IF alarm.phase = "recovering" THEN AdmitNext(ReleaseJob(cleaned, j, row.slot, status))
                                                  ELSE NoAdmission(cleaned)
<1>1. j \in Jobs /\ row.slot \in Slots \cup {None} /\ db \in Database /\ db.jobs \in [Jobs -> JobRow]
  BY DatabaseType DEF StoppedRow, SchedulerTypeOK
<1>2. new \in JobRow /\ RowKeeps(db.jobs[j], new)
  BY <1>1 DEF JobRow, RowKeeps
<1>3. [db EXCEPT !.jobs[row.job].cleanup = retry] = cleaned
  BY <1>1 DEF Database, JobRow
<1>4. db' = reply.db /\ workflows' = workflows
      /\ alarm' = [alarm EXCEPT !.work = @ \ {row}, !.current = None, !.admissions = @ \cup reply.admissions]
  BY <1>3 DEF FinishRow, RowDone
<1> HIDE DEF new
<1>5. cleaned \in Database /\ RowsKeep(db, cleaned)
  BY <1>1, <1>2, OneRowKeeps
<1> HIDE DEF cleaned
<1>6. NamesKept(cleaned, reply)
  BY <1>1, <1>5, ReleaseKeepsNames, Unmoved
<1> HIDE DEF reply
<1>7. Orderly(db, github, reply)
  BY <1>5, <1>6, KeptTwice, KeptNamesAreOrderly DEF SchedulerNames
<1>8. alarm'.admissions = alarm.admissions \cup reply.admissions
  BY <1>4 DEF SchedulerTypeOK, AlarmType
<1> QED BY <1>4, <1>7, <1>8 DEF SchedulerMoves, SchedulerNames, Orderly, NamedAfterJobs

\* Capacity changes and holds move no row.
LEMMA PlanCapacityMoves ==
    ASSUME SchedulerTypeOK, SchedulerNames, PlanCapacityUpdates
    PROVE  SchedulerMoves
<1>1. PICK stalled \in SUBSET UpdatingSlots(db) :
        LET d == [Awake EXCEPT !.slots = RecoverStalled(@, stalled)]
        IN  /\ db' = d
            /\ \E S \in SUBSET Increases(d) :
                 alarm' = [alarm EXCEPT !.phase = "updating",
                                        !.work = DueSlots(d, S \cup DueReductions(d))]
  BY DEF PlanCapacityUpdates
<1>2. Awake \in Database /\ Awake.jobs = db.jobs
  BY AwakeEffect DEF SameJobs
<1>3. db'.jobs = db.jobs
  BY <1>1, <1>2 DEF Database
<1>4. PICK S \in SUBSET Increases(db') :
        alarm' = [alarm EXCEPT !.phase = "updating", !.work = DueSlots(db', S \cup DueReductions(db'))]
  BY <1>1
<1>5. alarm'.admissions = alarm.admissions
  BY <1>4 DEF SchedulerTypeOK, AlarmType
<1>6. workflows' = workflows
  BY DEF PlanCapacityUpdates
<1> QED BY <1>3, <1>5, <1>6, SameRowsMove

LEMMA StartCapacityMoves ==
    ASSUME SchedulerTypeOK, SchedulerNames, StartCapacityUpdate
    PROVE  SchedulerMoves
<1>1. PICK due \in NextDue(alarm.work) :
        LET row == db.slots[due.slot]
        IN  IF row.generation = due.generation /\ ~row.updating
            THEN /\ db' = [db EXCEPT !.slots[due.slot].updating = TRUE,
                                     !.slots[due.slot].updateGeneration = due.generation]
                 /\ alarm' = [alarm EXCEPT !.work = @ \ {due}, !.current = due]
            ELSE /\ alarm' = [alarm EXCEPT !.work = @ \ {due}]
                 /\ UNCHANGED db
  BY DEF StartCapacityUpdate
<1>2. db'.jobs = db.jobs
  BY <1>1 DEF SchedulerTypeOK, Database
<1>3. \/ alarm' = [alarm EXCEPT !.work = @ \ {due}, !.current = due]
      \/ alarm' = [alarm EXCEPT !.work = @ \ {due}]
  BY <1>1
<1>4. alarm'.admissions = alarm.admissions
  BY <1>3 DEF SchedulerTypeOK, AlarmType
<1>5. workflows' = workflows
  BY DEF StartCapacityUpdate
<1> QED BY <1>2, <1>4, <1>5, SameRowsMove

LEMMA CapacityHoldMoves ==
    ASSUME SchedulerTypeOK, SchedulerNames, CheckCapacityHolds \/ CheckCapacityHold
    PROVE  SchedulerMoves
<1>1. db \in Database /\ Awake.jobs = db.jobs
  BY AwakeEffect DEF SchedulerTypeOK, SameJobs
<1>2. alarm \in [phase : Phases, work : SUBSET (StoppedRow \cup DueSlot \cup Slots),
              current : StoppedRow \cup DueSlot \cup {None}, admissions : SUBSET Admission]
  BY DEF SchedulerTypeOK, AlarmType
<1>3. CASE CheckCapacityHolds
  BY <1>1, <1>2, <1>3, SameRowsMove DEF CheckCapacityHolds
<1>4. CASE CheckCapacityHold
  <2>1. PICK s \in FirstById(alarm.work) : db' = ReleaseHold(db, s) /\ alarm' = [alarm EXCEPT !.work = @ \ {s}]
    BY <1>4 DEF CheckCapacityHold
  <2>2. db'.jobs = db.jobs
    BY <1>1, <2>1 DEF ReleaseHold, ScheduleCapacityReclamation, Database
  <2>3. alarm'.admissions = alarm.admissions /\ workflows' = workflows
    BY <1>2, <1>4, <2>1 DEF CheckCapacityHold
  <2> QED BY <2>2, <2>3, SameRowsMove
<1> QED BY <1>3, <1>4

LEMMA FinishCapacityMoves ==
    ASSUME SchedulerTypeOK, SchedulerNames, NEW succeeded \in BOOLEAN, FinishCapacityUpdate(succeeded)
    PROVE  SchedulerMoves
<1> DEFINE due == alarm.current
           row == db.slots[due.slot]
           failed == [db EXCEPT !.slots[due.slot].updating = @ /\ row.updateGeneration # due.generation]
           reply == IF succeeded THEN CapacityPrepared(db, due.slot, due.generation) ELSE NoAdmission(failed)
<1>1. db \in Database /\ due \in DueSlot /\ alarm.phase = "updating"
  BY DEF FinishCapacityUpdate, SchedulerTypeOK, AlarmType
<1>2. /\ db' = reply.db /\ workflows' = workflows
      /\ alarm' = [alarm EXCEPT !.current = None, !.admissions = @ \cup reply.admissions]
  BY DEF FinishCapacityUpdate
<1>3. NamesKept(db, reply)
  <2>1. CASE succeeded
    BY <1>1, <2>1, CapacityKeepsNames DEF DueSlot
  <2>2. CASE ~succeeded
    <3>1. failed.jobs = db.jobs
      BY <1>1 DEF Database
    <3> HIDE DEF failed
    <3>2. NoAdmission(failed).db.jobs = db.jobs /\ NoAdmission(failed).admissions = {}
      BY <3>1 DEF NoAdmission
    <3>3. reply = NoAdmission(failed)
      BY <2>2
    <3> QED BY <3>2, <3>3 DEF NamesKept, RowsKeep, RowKeeps
  <2> QED BY <2>1, <2>2
<1> HIDE DEF reply
<1>4. alarm'.admissions = alarm.admissions \cup reply.admissions
  BY <1>2 DEF SchedulerTypeOK, AlarmType
<1> QED BY <1>2, <1>3, <1>4, KeptNamesAreOrderly DEF SchedulerMoves, SchedulerNames, Orderly, NamedAfterJobs

LEMMA AlarmEndsMoves ==
    ASSUME SchedulerTypeOK, SchedulerNames, AlarmEnds
    PROVE  SchedulerMoves
<1> DEFINE reply == AdmitNext(Awake)
           admissions == alarm.admissions \cup ReadyAdmissions(db) \cup reply.admissions
<1>1. db \in Database /\ Awake \in Database /\ Awake.jobs = db.jobs
  BY AwakeEffect DEF SchedulerTypeOK, SameJobs
<1>2. alarm' = NoAlarm /\ db' = ScheduleWorkAlarm(reply.db) /\ StartWorkflows(admissions)
  BY DEF AlarmEnds, LastAdmissions
<1>3. RowsKeep(db, Awake) /\ NamesKept(Awake, reply) /\ reply.db \in Database
  BY <1>1, AdmitNextKeepsNames, AdmitNextPreserves DEF RowsKeep, RowKeeps, Preserves
<1> HIDE DEF reply
<1>4. Orderly(db, github, reply)
  BY <1>3, KeptTwice, KeptNamesAreOrderly DEF SchedulerNames
<1>5. RowsKeep(db, db')
  <2>1. NamesKept(db, reply)
    BY <1>3, KeptTwice
  <2>2. db'.jobs = reply.db.jobs
    BY <1>2, <1>3, ScheduleWorkAlarmEffect DEF SameJobs
  <2> QED BY <2>1, <2>2 DEF NamesKept, RowsKeep
<1>6. ASSUME NEW a \in ReadyAdmissions(db) PROVE a.name = RunnerName(a.job, a.attempt) /\ a.attempt \in Attempts
  <2>1. PICK j \in Jobs : db.jobs[j].status \in Waits /\ a = AdmissionFor(db, j)
    BY DEF ReadyAdmissions, WithStatus, Waits
  <2> QED BY <2>1 DEF AdmissionFor, SchedulerNames, RowsNamed
<1>7. NamedAfterJobs(admissions)
  BY <1>4, <1>6 DEF NamedAfterJobs, Orderly, SchedulerNames
<1>8. NamedAfterJobs(workflows')
  BY <1>2, <1>7, StartedAreNamed DEF SchedulerNames
<1>9. Moves(db, db', github)
  BY <1>5, KeptRowsMove DEF SchedulerNames
<1> QED BY <1>2, <1>8, <1>9 DEF SchedulerMoves, NoAlarm, NamedAfterJobs

LEMMA AlarmMoves ==
    ASSUME SchedulerTypeOK, SchedulerNames, AlarmNext
    PROVE  SchedulerMoves
<1>1. db \in Database /\ Awake.jobs = db.jobs
  BY AwakeEffect DEF SchedulerTypeOK, SameJobs
<1>2. alarm \in [phase : Phases, work : SUBSET (StoppedRow \cup DueSlot \cup Slots),
              current : StoppedRow \cup DueSlot \cup {None}, admissions : SUBSET Admission]
  BY DEF SchedulerTypeOK, AlarmType
<1>3. CASE RecoverStoppedRunners
  BY <1>1, <1>3, SameRowsMove DEF RecoverStoppedRunners, NoAlarm
<1>4. CASE DeleteRunner
  BY <1>1, <1>2, <1>4, SameRowsMove DEF DeleteRunner
<1>5. CASE RetryCleanups
  BY <1>1, <1>2, <1>5, SameRowsMove DEF RetryCleanups
<1>6. CASE \E gone \in BOOLEAN : RunnerDeleted(gone)
  BY <1>6, FinishRowMoves DEF RunnerDeleted, SchedulerTypeOK, AlarmType
<1>7. CASE NothingToDelete
  BY <1>7, FinishRowMoves DEF NothingToDelete, SchedulerTypeOK, AlarmType
<1>8. CASE \E succeeded \in BOOLEAN : FinishCapacityUpdate(succeeded)
  BY <1>8, FinishCapacityMoves
<1> QED BY <1>3, <1>4, <1>5, <1>6, <1>7, <1>8, PlanCapacityMoves, StartCapacityMoves,
           CapacityHoldMoves, AlarmEndsMoves DEF AlarmNext

\* The next instance closes the jobs that awaited their Container's stop.
LEMMA RestartMoves ==
    ASSUME SchedulerTypeOK, SchedulerNames, Restart
    PROVE  SchedulerMoves
<1>1. PICK stalled \in SUBSET UpdatingSlots(db) :
        db' = ScheduleWorkAlarm([Reconstructed(db, stalled) EXCEPT !.alarm = @ \/ alarm.phase # "idle"])
  BY DEF Restart
<1> DEFINE e == Reconstructed(db, stalled)
           completed(j) == [db.jobs[j] EXCEPT !.status = "completed", !.due = FALSE]
           jobs == [j \in Jobs |-> IF j \in WithStatus(db, {"releasing"}) THEN completed(j) ELSE db.jobs[j]]
<1>2. db \in Database /\ e \in Database /\ db.jobs \in [Jobs -> JobRow]
  BY ReconstructedEffect, DatabaseType DEF SchedulerTypeOK
<1>3. RowsKeep(db, e)
  <2>1. e.jobs = jobs
    <3> HIDE DEF jobs
    <3> QED BY <1>2 DEF Reconstructed, Database, jobs
  <2>2. \A row \in JobRow : RowKeeps(row, row) /\ RowKeeps(row, [row EXCEPT !.status = "completed", !.due = FALSE])
    BY DEF RowKeeps, JobRow, Owns
  <2> HIDE DEF e
  <2>3. ASSUME NEW j \in Jobs PROVE RowKeeps(db.jobs[j], e.jobs[j])
    <3>1. db.jobs[j] \in JobRow /\ (e.jobs[j] = completed(j) \/ e.jobs[j] = db.jobs[j])
      BY <1>2, <2>1
    <3> QED BY <2>2, <3>1
  <2> QED BY <2>3 DEF RowsKeep
<1> HIDE DEF e, jobs
<1>4. db'.jobs = e.jobs
  BY <1>1, <1>2 DEF ScheduleWorkAlarm, Database, e
<1>5. Moves(db, db', github)
  BY <1>3, <1>4, KeptRowsMove DEF SchedulerNames, RowsKeep
<1> QED BY <1>5 DEF Restart, SchedulerMoves, SchedulerNames, NoAlarm, NamedAfterJobs

-----------------------------------------------------------------------------
(* The names outside the scheduler: at GitHub, in the Containers and in the *)
(* workflow instances.                                                      *)

\* An instance that is past starting its Container, and one that holds a plan.
Past == {"started", "failing", "finished"}
Planned == {"preparing", "configured", "reporting", "checking", "creating", "recording", "starting",
            "started"}

\* No Container and no execution has the name, nor an instance that goes for one.
Unused(name, g, st, c) ==
    /\ st[name] \in {"claiming", "finished"}
    /\ \A x \in c : x.name # name
    /\ \A j \in Jobs : g[j].runner # name

\* Only the runner of an instance that started it is live or executes a job, and only
\* one job each.
WorldNames(g, st, c, reg, stp) ==
    /\ \A x \in c : x.name \in WorkflowIds /\ st[x.name] \in Past
    /\ stp \subseteq WorkflowIds
    /\ \A j \in Jobs :
         /\ g[j].status = "queued" => g[j].runner = None
         /\ g[j].runner # None => /\ g[j].runner \in WorkflowIds \ reg
                                  /\ st[g[j].runner] \in Past
                                  /\ \A k \in Jobs : g[k].runner = g[j].runner => k = j

NamesUnused(d, g, st, c) == \A name \in WorkflowIds : Ahead(d, name) => Unused(name, g, st, c)

PlansMade(st, p) ==
    \A w \in WorkflowIds : st[w] \in Planned => p[w] \in Plan /\ p[w].generation \in Generations

PoolNames ==
    /\ SchedulerNames
    /\ WorldNames(github, stage, containers, registered, stops)
    /\ NamesUnused(db, github, stage, containers)
    /\ PlansMade(stage, plan)

PoolTypes ==
    /\ stage \in [WorkflowIds -> Stages]
    /\ plan \in [WorkflowIds -> Plan \cup {None}]
    /\ github \in [Jobs -> GitHubJob]
    /\ registered \subseteq RunnerNames
    /\ containers \subseteq [name : RunnerNames, slot : Slots]
    /\ stops \subseteq RunnerNames
    /\ cloud \in [Slots -> [maxInstances : Nat, profile : Profiles \cup {None}]]
    /\ landed \in BOOLEAN
    /\ adrift \subseteq DueSlot

InOrder == SchedulerTypeOK /\ PoolTypes /\ PoolNames

\* A name that a job was admitted under is not going to be admitted again.
NamesStayUsed == \A name \in WorkflowIds : Ahead(db', name) => Ahead(db, name)

\* What every step of the pool does: the scheduler sees one of its own steps, and
\* the types and names stay in order.
PoolKeeps == [Next]_schedulerVars /\ PoolTypes' /\ PoolNames' /\ NamesStayUsed

LEMMA SameNamesUsed ==
    ASSUME UNCHANGED schedulerVars
    PROVE  NamesStayUsed
BY DEF NamesStayUsed, schedulerVars, Ahead

LEMMA NamesInBounds == WorkflowIds = BoundedNames /\ WorkflowIds \subseteq RunnerNames /\ None \notin WorkflowIds
BY SchedulerAssumption, NoneAssumption DEF WorkflowIds, BoundedNames, RunnerNames

\* An instance is called what its id says.
LEMMA InstanceNames ==
    ASSUME InOrder, NEW i \in Instances
    PROVE  i[1] \in WorkflowIds /\ i[2] = i[1]
<1>1. PICK a \in workflows : i = <<[job |-> a.job, attempt |-> a.attempt], a.name>>
  BY DEF Instances
<1>2. a.job \in Jobs /\ a.attempt \in Attempts /\ a.name = RunnerName(a.job, a.attempt)
  BY DEF InOrder, PoolNames, SchedulerNames, NamedAfterJobs, SchedulerTypeOK, Admission
<1> QED BY <1>1, <1>2 DEF RunnerName, WorkflowIds

\* The scheduler moves and the world stays.
LEMMA SchedulerAlone ==
    ASSUME InOrder, Next, SchedulerMoves, PoolTypes',
           UNCHANGED <<workflowVars, github, registered, containers>>, stops' \subseteq stops
    PROVE  PoolKeeps
<1>1. SchedulerNames'
  BY DEF SchedulerMoves, Moves, SchedulerNames
<1>2. WorldNames(github, stage, containers, registered, stops)'
  BY DEF InOrder, PoolNames, WorldNames, workflowVars
<1>3. NamesUnused(db, github, stage, containers)'
  BY DEF InOrder, PoolNames, NamesUnused, SchedulerMoves, Moves, workflowVars
<1>4. PlansMade(stage, plan)'
  BY DEF InOrder, PoolNames, PlansMade, workflowVars
<1>5. NamesStayUsed
  BY DEF NamesStayUsed, SchedulerMoves, Moves
<1> QED BY <1>1, <1>2, <1>3, <1>4, <1>5 DEF PoolKeeps, PoolNames

\* An instance goes on.
LEMMA StageMoves ==
    ASSUME NEW d, NEW g, NEW st, NEW c, NEW reg, NEW stp, NEW w \in WorkflowIds, NEW s,
           st \in [WorkflowIds -> Stages]
    PROVE  LET next == [st EXCEPT ![w] = s]
           IN  /\ WorldNames(g, st, c, reg, stp) /\ (st[w] \in Past => s \in Past)
                    => WorldNames(g, next, c, reg, stp)
               /\ NamesUnused(d, g, st, c) /\ (s = "finished" \/ ~Ahead(d, w))
                    => NamesUnused(d, g, next, c)
<1> DEFINE next == [st EXCEPT ![w] = s]
<1>1. \A name \in WorkflowIds : next[name] = IF name = w THEN s ELSE st[name]
  OBVIOUS
<1> HIDE DEF next
<1>2. ASSUME WorldNames(g, st, c, reg, stp), st[w] \in Past => s \in Past
      PROVE  WorldNames(g, next, c, reg, stp)
  BY <1>1, <1>2 DEF WorldNames
<1>3. ASSUME NamesUnused(d, g, st, c), s = "finished" \/ ~Ahead(d, w)
      PROVE  NamesUnused(d, g, next, c)
  BY <1>1, <1>3 DEF NamesUnused, Unused
<1> QED BY <1>2, <1>3 DEF next

\* ... and the scheduler may move with it, and its runner come into being.
LEMMA InstanceMoves ==
    ASSUME InOrder, PoolTypes', [Next]_schedulerVars, SchedulerMoves \/ UNCHANGED schedulerVars,
           NEW w \in WorkflowIds, NEW s \in Stages, Go(w, s),
           stage[w] \in Past => s \in Past,
           s = "finished" \/ ~Ahead(db, w) \/ ~Ahead(db', w),
           s \in Planned => plan'[w] \in Plan /\ plan'[w].generation \in Generations,
           \A v \in WorkflowIds \ {w} : plan'[v] = plan[v],
           UNCHANGED <<github, stops>>,
           \A name \in registered' \ registered : name = w /\ stage[w] \notin Past,
           \A x \in containers' \ containers : x.name = w /\ s \in Past /\ ~Ahead(db, w)
    PROVE  PoolKeeps
<1>0. stage \in [WorkflowIds -> Stages] /\ stage' = [stage EXCEPT ![w] = s]
  BY DEF InOrder, PoolTypes, Go
<1>1. SchedulerNames' /\ \A name \in WorkflowIds : Ahead(db', name) => Ahead(db, name)
  BY DEF InOrder, PoolNames, SchedulerMoves, Moves, SchedulerNames, schedulerVars
<1>2. WorldNames(github, stage', containers, registered, stops)
  BY <1>0, StageMoves DEF InOrder, PoolNames
<1>3. WorldNames(github, stage, containers, registered, stops)'
  <2>1. \A j \in Jobs : github[j].runner # None => github[j].runner \notin registered'
    BY DEF InOrder, PoolNames, WorldNames
  <2>2. stage'[w] = s
    BY <1>0
  <2>3. \A x \in containers' : x.name \in WorkflowIds /\ stage'[x.name] \in Past
    BY <1>2, <2>2 DEF WorldNames
  <2> QED BY <1>2, <2>1, <2>3 DEF WorldNames
<1>4. NamesUnused(db', github, stage, containers)
  BY <1>1 DEF InOrder, PoolNames, NamesUnused
<1>5. s = "finished" \/ ~Ahead(db', w)
  BY <1>1
<1>6. NamesUnused(db, github, stage, containers)'
  <2>1. NamesUnused(db', github, stage', containers)
    BY <1>0, <1>4, <1>5, StageMoves
  <2> QED BY <1>1, <2>1 DEF NamesUnused, Unused
<1>7. PlansMade(stage, plan)'
  BY <1>0 DEF InOrder, PoolNames, PlansMade
<1> QED BY <1>1, <1>3, <1>6, <1>7 DEF PoolKeeps, PoolNames, NamesStayUsed

-----------------------------------------------------------------------------
(* The calls that the pool makes. *)

SchedulerStep == Next /\ SchedulerMoves

LEMMA DeliveriesMove ==
    ASSUME InOrder, NEW j \in Jobs,
           \/ CallSubmit(j) \/ CallWorkflowJobCompleted(j) \/ CallConfigurationReady(j)
           \/ /\ github[j].runner # None
              /\ CallWorkflowJobStarted(j, github[j].runner) \/ CallCacheAssignment(j, github[j].runner)
    PROVE  SchedulerStep
<1>1. db \in Database /\ SchedulerNames /\ RowsNamed(db, github) /\ OwnersUnique(db)
  BY DEF InOrder, SchedulerTypeOK, PoolNames, SchedulerNames
<1>2. CASE CallSubmit(j)
  BY <1>1, <1>2, SubmissionIsOrderly, ReplyMoves DEF SchedulerStep, Next, Call, CallSubmit
<1>3. CASE CallWorkflowJobCompleted(j)
  BY <1>1, <1>3, CompletionKeepsNames, KeptNamesAreOrderly, ReplyMoves
     DEF SchedulerStep, Next, Call, CallWorkflowJobCompleted
<1>4. CASE CallConfigurationReady(j)
  BY <1>1, <1>4, ConfigurationKeepsNames, KeptNamesAreOrderly, ReplyMoves
     DEF SchedulerStep, Next, Call, CallConfigurationReady
<1>5. CASE /\ github[j].runner # None
           /\ CallWorkflowJobStarted(j, github[j].runner) \/ CallCacheAssignment(j, github[j].runner)
  <2> DEFINE name == github[j].runner
             reply == WorkflowJobStarted(db, j, name)
  <2>1. name \in WorkflowIds /\ \A k \in Jobs : github[k].runner = name => k = j
    BY <1>5 DEF InOrder, PoolNames, WorldNames
  <2>2. name \in BoundedNames /\ name \in RunnerNames
    BY <2>1, NamesInBounds
  <2>3. Reply(reply) /\ Bounded(reply.db)
    BY <1>5 DEF CallWorkflowJobStarted, CallCacheAssignment, Reply
  <2>4. Orderly(db, github, reply)
    BY <1>1, <1>5, <2>1, <2>2, <2>3, AssignmentIsOrderly
  <2>5. Next
    BY <1>5, <2>2 DEF Next, Call
  <2> QED BY <1>1, <2>3, <2>4, <2>5, ReplyMoves DEF SchedulerStep
<1> QED BY <1>2, <1>3, <1>4, <1>5

LEMMA RunnerCallsMove ==
    ASSUME InOrder, NEW j \in Jobs, NEW name \in WorkflowIds,
           \/ CallRunnerProvisioned(j, name) \/ CallProvisioningFailed(j, name)
           \/ CallRunnerStarted(name) \/ CallRunnerStopped(name)
    PROVE  SchedulerStep
<1>1. db \in Database /\ SchedulerNames /\ RowsNamed(db, github) /\ OwnersUnique(db)
  BY DEF InOrder, SchedulerTypeOK, PoolNames, SchedulerNames
<1>2. name \in BoundedNames /\ name \in RunnerNames
  BY NamesInBounds
<1>3. Next
  BY <1>2 DEF Next, Call
<1>4. PICK reply \in {NoAdmission(RunnerProvisioned(db, j, name)), ProvisioningFailed(db, j, name),
                      NoAdmission(RunnerStarted(db, name)), RunnerStopped(db, name)} : Reply(reply)
  BY DEF CallRunnerProvisioned, CallProvisioningFailed, CallRunnerStarted, CallRunnerStopped
<1>5. NamesKept(db, reply)
  BY <1>1, <1>2, <1>4, RecordingKeepsNames, FailureKeepsNames, StartKeepsNames, StopKeepsNames
<1> QED BY <1>1, <1>3, <1>4, <1>5, KeptNamesAreOrderly, ReplyMoves DEF SchedulerStep

LEMMA CapacityCallMoves ==
    ASSUME InOrder, NEW s \in Slots, NEW generation \in Generations, CallCapacityPrepared(s, generation)
    PROVE  SchedulerStep
<1>1. db \in Database /\ SchedulerNames /\ RowsNamed(db, github) /\ OwnersUnique(db)
  BY DEF InOrder, SchedulerTypeOK, PoolNames, SchedulerNames
<1>2. generation \in Nat
  BY SchedulerAssumption
<1>3. Next
  BY DEF Next, Call
<1>4. Orderly(db, github, CapacityPrepared(db, s, generation))
  BY <1>1, <1>2, CapacityKeepsNames, KeptNamesAreOrderly
<1> QED BY <1>1, <1>3, <1>4, ReplyMoves DEF SchedulerStep, CallCapacityPrepared

\* An instance that claims has a name of its own.
LEMMA ClaimMoves ==
    ASSUME InOrder, NEW w \in WorkflowIds, stage[w] \notin Past, ClaimKind(db, w.job, w) = "provision",
           CallClaimProvisioning(w.job, w)
    PROVE  /\ SchedulerStep /\ ~Ahead(db', w)
           /\ ProvisioningPlan(db, w.job) \in Plan /\ ProvisioningPlan(db, w.job).generation \in Generations
<1> DEFINE j == w.job
           slot == db.jobs[j].slot
           e == ClaimProvisioning(db, j, w)
<1>1. db \in Database /\ SchedulerNames /\ RowsNamed(db, github) /\ OwnersUnique(db)
  BY DEF InOrder, SchedulerTypeOK, PoolNames, SchedulerNames
<1>2. \A k \in Jobs : github[k].runner # w
  BY NamesInBounds DEF InOrder, PoolNames, WorldNames
<1>3. Orderly(db, github, NoAdmission(e)) /\ ~Ahead(e, w)
  BY <1>1, <1>2, ClaimIsOrderly
<1>4. w \in BoundedNames /\ j \in Jobs
  BY NamesInBounds DEF WorkflowIds
<1>5. SchedulerStep
  BY <1>1, <1>3, <1>4, ReplyMoves DEF SchedulerStep, Next, Call, CallClaimProvisioning
<1>6. db' = e /\ Bounded(e)
  BY DEF CallClaimProvisioning, Reply, NoAdmission
<1>7. e.slots = db.slots
  BY <1>1 DEF ClaimProvisioning, Database
<1>8. slot \in Slots
  <2>1. slot # None
    BY DEF ClaimKind
  <2> QED BY <1>1, <1>4, <2>1, DatabaseType DEF JobRow
<1>9. db.slots[slot] \in SlotRow /\ db.slots[slot].generation \in Generations
  BY <1>1, <1>6, <1>7, <1>8, DatabaseType DEF Bounded
<1>10. ProvisioningPlan(db, j) \in Plan /\ ProvisioningPlan(db, j).generation \in Generations
  <2> HIDE DEF slot, j
  <2>1. ProvisioningPlan(db, j) = [slot |-> slot, instances |-> Larger(1, db.slots[slot].reserved),
                                   generation |-> db.slots[slot].generation,
                                   configure |-> db.slots[slot].state = "configuring" /\ db.slots[slot].owner = j]
    BY DEF ProvisioningPlan, slot
  <2>2. Larger(1, db.slots[slot].reserved) \in Nat /\ db.slots[slot].generation \in Nat
    BY <1>9 DEF Larger, SlotRow
  <2>3. (db.slots[slot].state = "configuring" /\ db.slots[slot].owner = j) \in BOOLEAN
    OBVIOUS
  <2> QED BY <1>8, <1>9, <2>1, <2>2, <2>3 DEF Plan
<1> HIDE DEF e
<1> QED BY <1>3, <1>5, <1>6, <1>10

-----------------------------------------------------------------------------
(* The steps of the workflow instances. *)

\* A step that calls nobody but the scheduler, or nobody.
LEMMA QuietSteps ==
    ASSUME InOrder, NEW w \in WorkflowIds, UNCHANGED poolVars,
           \/ ClaimGranted(w, w)
           \/ \E kind \in {"cancelled", "missing", "wait"} : ClaimEnds(w, w, kind)
           \/ ReportConfiguration(w, w)
           \/ ReportCapacity(w, w)
           \/ CheckStart(w, w)
           \/ RecordJitRunner(w, w)
           \/ ReportStarted(w, w)
           \/ ReportFailure(w, w)
           \/ Err(w, w)
           \/ Replay(w, w)
    PROVE  PoolKeeps
<1> DEFINE Goes(s) == /\ Go(w, s)
                      /\ stage[w] \in Past => s \in Past
                      /\ s = "finished" \/ ~Ahead(db, w) \/ ~Ahead(db', w)
                      /\ s \in Planned => plan'[w] \in Plan /\ plan'[w].generation \in Generations
                      /\ [Next]_schedulerVars
                      /\ SchedulerMoves \/ UNCHANGED schedulerVars
           Plans == /\ plan' \in [WorkflowIds -> Plan \cup {None}]
                    /\ \A v \in WorkflowIds \ {w} : plan'[v] = plan[v]
<1>a. /\ w.job \in Jobs /\ stage \in [WorkflowIds -> Stages] /\ plan \in [WorkflowIds -> Plan \cup {None}]
      /\ stage[w] \notin {"claiming", "finished"} => ~Ahead(db, w)
      /\ stage[w] \in Planned => plan[w] \in Plan /\ plan[w].generation \in Generations
  BY DEF InOrder, PoolTypes, PoolNames, NamesUnused, Unused, PlansMade, WorkflowIds
<1>1. CASE ClaimGranted(w, w)
  <2>1. stage[w] \in {"claiming", "reclaiming"} /\ ClaimKind(db, w.job, w) = "provision" /\ CallClaimProvisioning(w.job, w)
    BY <1>1 DEF ClaimGranted, Claiming, At
  <2>2. /\ SchedulerStep /\ ~Ahead(db', w)
        /\ ProvisioningPlan(db, w.job) \in Plan /\ ProvisioningPlan(db, w.job).generation \in Generations
    BY <2>1, ClaimMoves DEF Past
  <2>3. plan' = [plan EXCEPT ![w] = ProvisioningPlan(db, w.job)]
    BY <1>1 DEF ClaimGranted
  <2>4. PICK s \in {"checking", "preparing", "configured"} : Go(w, s)
    BY <1>1 DEF ClaimGranted
  <2>5. Goes(s) /\ s \in Stages
    BY <1>a, <2>1, <2>2, <2>3, <2>4 DEF Past, SchedulerStep, Stages
  <2>6. Plans
    BY <1>a, <2>2, <2>3
  <2> QED BY <2>5, <2>6, InstanceMoves DEF InOrder, PoolTypes, Go, poolVars
<1>2. CASE \E kind \in {"cancelled", "missing", "wait"} : ClaimEnds(w, w, kind)
  <2>1. Go(w, "finished") /\ plan' = [plan EXCEPT ![w] = None] /\ UNCHANGED schedulerVars
    BY <1>2 DEF ClaimEnds, Finish
  <2>2. Goes("finished") /\ Plans /\ "finished" \in Stages
    BY <1>a, <2>1 DEF Past, Planned, Stages
  <2> QED BY <2>2, InstanceMoves DEF InOrder, PoolTypes, Go, poolVars
<1>3. CASE ReportConfiguration(w, w)
  <2>1. stage[w] = "configured" /\ CallConfigurationReady(w.job) /\ Go(w, "reporting") /\ plan' = plan
    BY <1>3 DEF ReportConfiguration, At
  <2>2. SchedulerStep
    BY <1>a, <2>1, DeliveriesMove
  <2>3. Goes("reporting") /\ Plans /\ "reporting" \in Stages
    BY <1>a, <2>1, <2>2 DEF Past, Planned, Stages, SchedulerStep
  <2> QED BY <2>3, InstanceMoves DEF InOrder, PoolTypes, Go, poolVars
<1>4. CASE ReportCapacity(w, w)
  <2>1. /\ stage[w] = "reporting" /\ CallCapacityPrepared(plan[w].slot, plan[w].generation)
        /\ Go(w, "checking") /\ plan' = plan
    BY <1>4 DEF ReportCapacity, At
  <2>2. plan[w].slot \in Slots /\ plan[w].generation \in Generations
    BY <1>a, <2>1 DEF Planned, Plan
  <2>3. SchedulerStep
    BY <2>1, <2>2, CapacityCallMoves
  <2>4. Goes("checking") /\ Plans /\ "checking" \in Stages
    BY <1>a, <2>1, <2>3 DEF Past, Planned, Stages, SchedulerStep
  <2> QED BY <2>4, InstanceMoves DEF InOrder, PoolTypes, Go, poolVars
<1>5. CASE CheckStart(w, w)
  <2>1. stage[w] = "checking" /\ plan' = plan /\ UNCHANGED schedulerVars
    BY <1>5 DEF CheckStart, At
  <2>2. PICK s \in {"creating", "failing"} : Go(w, s)
    BY <1>5 DEF CheckStart
  <2>3. Goes(s) /\ Plans /\ s \in Stages
    BY <1>a, <2>1, <2>2 DEF Past, Planned, Stages
  <2> QED BY <2>3, InstanceMoves DEF InOrder, PoolTypes, Go, poolVars
<1>6. CASE ReportStarted(w, w) \/ ReportFailure(w, w)
  <2>1. /\ CallRunnerStarted(w) \/ CallProvisioningFailed(w.job, w)
        /\ Go(w, "finished") /\ plan' = [plan EXCEPT ![w] = None]
    BY <1>6 DEF ReportStarted, ReportFailure, Finish
  <2>2. SchedulerStep
    BY <1>a, <2>1, RunnerCallsMove
  <2>3. Goes("finished") /\ Plans /\ "finished" \in Stages
    BY <1>a, <2>1, <2>2 DEF Past, Planned, Stages, SchedulerStep
  <2> QED BY <2>3, InstanceMoves DEF InOrder, PoolTypes, Go, poolVars
<1>7. CASE Err(w, w)
  <2>1. stage[w] \notin {"claiming", "finished"} /\ Go(w, "failing") /\ plan' = plan /\ UNCHANGED schedulerVars
    BY <1>7 DEF Err, At
  <2>2. Goes("failing") /\ Plans /\ "failing" \in Stages
    BY <1>a, <2>1 DEF Past, Planned, Stages
  <2> QED BY <2>2, InstanceMoves DEF InOrder, PoolTypes, Go, poolVars
<1>8. CASE Replay(w, w)
  <2>1. /\ stage[w] \notin Past \cup {"claiming"} /\ plan' = [plan EXCEPT ![w] = None] /\ UNCHANGED schedulerVars
        /\ Go(w, "claiming") \/ Go(w, "reclaiming")
    BY <1>8 DEF Replay, At, Past
  <2>2. PICK s \in {"claiming", "reclaiming"} : Go(w, s)
    BY <2>1
  <2>3. Goes(s) /\ Plans /\ s \in Stages
    BY <1>a, <2>1, <2>2 DEF Past, Planned, Stages
  <2> QED BY <2>3, InstanceMoves DEF InOrder, PoolTypes, Go, poolVars
<1>9. CASE RecordJitRunner(w, w)
  <2>1. stage[w] = "recording" /\ CallRunnerProvisioned(w.job, w) /\ Go(w, "starting") /\ plan' = plan
    BY <1>9 DEF RecordJitRunner, At
  <2>2. SchedulerStep
    BY <1>a, <2>1, RunnerCallsMove
  <2>3. Goes("starting") /\ Plans /\ "starting" \in Stages
    BY <1>a, <2>1, <2>2 DEF Past, Planned, Stages, SchedulerStep
  <2> QED BY <2>3, InstanceMoves DEF InOrder, PoolTypes, Go, poolVars
<1> QED BY <1>1, <1>2, <1>3, <1>4, <1>5, <1>6, <1>7, <1>8, <1>9

\* A step that changes what GitHub or Cloudflare knows.
LEMMA WorldSteps ==
    ASSUME InOrder, NEW w \in WorkflowIds,
           \/ Prepare(w, w) \/ CreateJitRunner(w, w) \/ StartContainer(w, w)
           \/ AlreadyActive(w, w) \/ RefuseContainer(w, w)
    PROVE  PoolKeeps
<1> DEFINE Goes(s) == /\ Go(w, s) /\ s \in Stages
                      /\ stage[w] \in Past => s \in Past
                      /\ ~Ahead(db, w)
                      /\ s \in Planned => plan'[w] \in Plan /\ plan'[w].generation \in Generations
                      /\ plan' = plan
                      /\ [Next]_schedulerVars
                      /\ SchedulerMoves \/ UNCHANGED schedulerVars
<1>a. /\ w.job \in Jobs /\ w \in RunnerNames
      /\ stage[w] \notin {"claiming", "finished"} => ~Ahead(db, w)
      /\ stage[w] \in Planned => plan[w] \in Plan /\ plan[w].generation \in Generations
  BY NamesInBounds DEF InOrder, PoolNames, NamesUnused, Unused, PlansMade, WorkflowIds
<1>1. CASE Prepare(w, w)
  <2>1. stage[w] = "preparing" /\ Go(w, "configured") /\ plan' = plan /\ UNCHANGED schedulerVars
    BY <1>1 DEF Prepare, Prepared, At
  <2>2. Goes("configured")
    BY <1>a, <2>1 DEF Past, Planned, Stages
  <2>3. JobProfile[w.job] \in Profiles /\ plan[w].instances \in Nat
    BY <1>a, <2>1, SchedulerAssumption DEF Planned, Plan
  <2>4. PoolTypes'
    BY <1>1, <2>2, <2>3 DEF InOrder, PoolTypes, Go, Prepare
  <2> QED BY <1>1, <2>2, <2>4, InstanceMoves DEF Prepare
<1>2. CASE CreateJitRunner(w, w)
  <2>1. stage[w] = "creating" /\ Go(w, "recording") /\ plan' = plan /\ UNCHANGED schedulerVars
    BY <1>2 DEF CreateJitRunner, JitRunnerCreated, At
  <2>2. Goes("recording")
    BY <1>a, <2>1 DEF Past, Planned, Stages
  <2>3. PoolTypes'
    BY <1>2, <1>a, <2>2 DEF InOrder, PoolTypes, Go, CreateJitRunner
  <2>4. stage[w] \notin Past
    BY <2>1 DEF Past
  <2> QED BY <1>2, <2>2, <2>3, <2>4, InstanceMoves DEF CreateJitRunner
<1>3. CASE StartContainer(w, w)
  <2>1. stage[w] = "starting" /\ Go(w, "started") /\ plan' = plan /\ UNCHANGED schedulerVars
    BY <1>3 DEF StartContainer, ContainerStarted, At
  <2>2. Goes("started")
    BY <1>a, <2>1 DEF Past, Planned, Stages
  <2>3. plan[w].slot \in Slots
    BY <1>a, <2>1 DEF Planned, Plan
  <2>4. PoolTypes'
    BY <1>3, <1>a, <2>2, <2>3 DEF InOrder, PoolTypes, Go, StartContainer
  <2>5. \A x \in containers' \ containers : x.name = w
    BY <1>3 DEF StartContainer
  <2> QED BY <1>3, <2>2, <2>4, <2>5, InstanceMoves DEF StartContainer, Past
<1>4. CASE AlreadyActive(w, w) \/ RefuseContainer(w, w)
  <2>1. /\ \/ stage[w] = "creating" /\ Go(w, "started")
           \/ stage[w] \in {"recording", "starting"} /\ (Go(w, "creating") \/ Go(w, "failing"))
        /\ plan' = plan /\ UNCHANGED schedulerVars
    BY <1>4 DEF AlreadyActive, RefuseContainer, ContainerStarted, ContainerRefused, At
  <2>2. PICK s \in {"started", "creating", "failing"} : Go(w, s)
    BY <2>1
  <2>3. Goes(s)
    BY <1>a, <2>1, <2>2 DEF Past, Planned, Stages
  <2>4. registered' \subseteq registered /\ UNCHANGED <<github, containers, stops, cloud, landed, adrift>>
    BY <1>4 DEF AlreadyActive, RefuseContainer, poolVars
  <2>5. PoolTypes'
    BY <2>3, <2>4 DEF InOrder, PoolTypes, Go
  <2> QED BY <2>3, <2>4, <2>5, InstanceMoves
<1> QED BY <1>1, <1>2, <1>3, <1>4

-----------------------------------------------------------------------------
(* The steps of GitHub, of the Containers and of the alarm. *)

LEMMA GitHubSteps ==
    ASSUME InOrder, NEW j \in Jobs,
           \/ GitHubCompletes(j) \/ GitHubCancels(j)
           \/ \E name \in registered : GitHubAssigns(j, name)
    PROVE  PoolKeeps
<1>a. /\ github \in [Jobs -> GitHubJob] /\ SchedulerNames /\ RowsNamed(db, github)
      /\ WorldNames(github, stage, containers, registered, stops)
      /\ NamesUnused(db, github, stage, containers) /\ PlansMade(stage, plan) /\ PoolTypes
  BY DEF InOrder, PoolTypes, PoolNames, SchedulerNames
<1>1. CASE GitHubCompletes(j) \/ GitHubCancels(j)
  <2>1. /\ github' = [github EXCEPT ![j].status = "completed"]
        /\ UNCHANGED <<schedulerVars, workflowVars, registered, containers, stops, cloud, landed, adrift>>
    BY <1>1 DEF GitHubCompletes, GitHubCancels
  <2>2. /\ github' \in [Jobs -> GitHubJob]
        /\ \A k \in Jobs : /\ github'[k].runner = github[k].runner
                           /\ github'[k].status = "queued" => github[k].status = "queued"
    BY <1>a, <2>1 DEF GitHubJob
  <2>3. PoolTypes'
    BY <1>a, <2>1, <2>2 DEF PoolTypes, workflowVars
  <2>4. SchedulerNames'
    BY <1>a, <2>1, <2>2 DEF SchedulerNames, RowsNamed, schedulerVars
  <2>5. WorldNames(github, stage, containers, registered, stops)'
    BY <1>a, <2>1, <2>2 DEF WorldNames, workflowVars
  <2>6. NamesUnused(db, github, stage, containers)'
    BY <1>a, <2>1, <2>2 DEF NamesUnused, Unused, schedulerVars, workflowVars
  <2>7. NamesStayUsed
    BY <2>1, SameNamesUsed
  <2> QED BY <1>a, <2>1, <2>3, <2>4, <2>5, <2>6, <2>7 DEF PoolKeeps, PoolNames, workflowVars
<1>2. CASE \E name \in registered : GitHubAssigns(j, name)
  <2>1. PICK name \in registered : GitHubAssigns(j, name)
    BY <1>2
  <2>2. /\ github[j].status = "queued" /\ Live(name)
        /\ github' = [github EXCEPT ![j] = [status |-> "in_progress", runner |-> name]]
        /\ registered' = registered \ {name}
        /\ UNCHANGED <<schedulerVars, workflowVars, containers, stops, cloud, landed, adrift>>
    BY <2>1 DEF GitHubAssigns
  <2>3. name \in WorkflowIds /\ name \in RunnerNames /\ stage[name] \in Past
    BY <1>a, <2>2, NamesInBounds DEF Live, WorldNames
  <2>4. /\ github' \in [Jobs -> GitHubJob]
        /\ github'[j].runner = name /\ github'[j].status = "in_progress"
        /\ \A k \in Jobs \ {j} : github'[k] = github[k]
    BY <1>a, <2>2, <2>3 DEF GitHubJob
  <2>5. github[j].runner = None /\ \A k \in Jobs : github[k].runner # name
    BY <1>a, <2>2, <2>3, NamesInBounds DEF WorldNames
  <2>6. PoolTypes'
    BY <1>a, <2>2, <2>4 DEF PoolTypes, workflowVars
  <2>7. RowsNamed(db, github')
    BY <1>a, <2>4, <2>5 DEF RowsNamed
  <2>8. SchedulerNames'
    BY <1>a, <2>2, <2>7 DEF SchedulerNames, schedulerVars
  <2>9. WorldNames(github', stage, containers, registered', stops)
    <3>1. ASSUME NEW k \in Jobs, github'[k].runner # None
          PROVE  /\ github'[k].runner \in WorkflowIds \ registered'
                 /\ stage[github'[k].runner] \in Past
                 /\ \A i \in Jobs : github'[i].runner = github'[k].runner => i = k
      <4>1. CASE k = j
        BY <2>2, <2>3, <2>4, <2>5, <4>1
      <4>2. CASE k # j
        BY <1>a, <2>2, <2>4, <2>5, <3>1, <4>2 DEF WorldNames
      <4> QED BY <4>1, <4>2
    <3>2. \A k \in Jobs : github'[k].status = "queued" => github'[k].runner = None
      BY <1>a, <2>4 DEF WorldNames
    <3> QED BY <1>a, <3>1, <3>2 DEF WorldNames
  <2>10. NamesUnused(db, github', stage, containers)
    <3>1. ~Ahead(db, name)
      BY <1>a, <2>2, <2>3 DEF NamesUnused, Unused, Live
    <3> QED BY <1>a, <2>4, <3>1 DEF NamesUnused, Unused
  <2>11. PoolNames'
    BY <1>a, <2>2, <2>8, <2>9, <2>10 DEF PoolNames, workflowVars, schedulerVars
  <2> QED BY <2>2, <2>6, <2>11, SameNamesUsed DEF PoolKeeps
<1> QED BY <1>1, <1>2

LEMMA DeliverySteps ==
    ASSUME InOrder, NEW j \in Jobs,
           DeliverQueued(j) \/ DeliverStarted(j) \/ DeliverCompleted(j) \/ HookPolls(j)
    PROVE  PoolKeeps
<1>1. UNCHANGED <<workflowVars, poolVars>>
  BY DEF DeliverQueued, DeliverStarted, DeliverCompleted, HookPolls
<1>2. SchedulerStep
  <2>1. CASE DeliverQueued(j) \/ DeliverCompleted(j)
    BY <2>1, DeliveriesMove DEF DeliverQueued, DeliverCompleted
  <2>2. CASE DeliverStarted(j)
    BY <2>2, DeliveriesMove DEF DeliverStarted
  <2>3. CASE HookPolls(j)
    <3>1. github[j].runner # None
      BY <2>3, NamesInBounds DEF HookPolls, Live, InOrder, PoolNames, WorldNames
    <3> QED BY <2>3, <3>1, DeliveriesMove DEF HookPolls
  <2> QED BY <2>1, <2>2, <2>3
<1>3. PoolTypes'
  BY <1>1 DEF InOrder, PoolTypes, workflowVars, poolVars
<1> QED BY <1>1, <1>2, <1>3, SchedulerAlone DEF SchedulerStep, poolVars

LEMMA ContainerSteps ==
    ASSUME InOrder,
           \/ \E c \in containers : OnStart(c.name) \/ ContainerStops(c)
           \/ \E name \in stops : OnStop(name)
    PROVE  PoolKeeps
<1>1. CASE \E c \in containers : OnStart(c.name)
  <2>1. PICK c \in containers : OnStart(c.name)
    BY <1>1
  <2>2. c.name \in WorkflowIds /\ UNCHANGED <<workflowVars, poolVars>> /\ CallRunnerStarted(c.name)
    BY <2>1 DEF OnStart, InOrder, PoolNames, WorldNames
  <2>3. SchedulerStep
    <3>1. c.name.job \in Jobs
      BY <2>2 DEF WorkflowIds
    <3> QED BY <2>2, <3>1, RunnerCallsMove
  <2>4. PoolTypes'
    BY <2>2 DEF InOrder, PoolTypes, workflowVars, poolVars
  <2> QED BY <2>2, <2>3, <2>4, SchedulerAlone DEF SchedulerStep, poolVars
<1>2. CASE \E name \in stops : OnStop(name)
  <2>1. PICK name \in stops : OnStop(name)
    BY <1>2
  <2>2. /\ name \in WorkflowIds /\ CallRunnerStopped(name) /\ stops' = stops \ {name}
        /\ UNCHANGED <<workflowVars, github, registered, containers, cloud, landed, adrift>>
    BY <2>1 DEF OnStop, InOrder, PoolNames, WorldNames
  <2>3. SchedulerStep
    <3>1. name.job \in Jobs
      BY <2>2 DEF WorkflowIds
    <3> QED BY <2>2, <3>1, RunnerCallsMove
  <2>4. PoolTypes'
    BY <2>2 DEF InOrder, PoolTypes, workflowVars
  <2> QED BY <2>2, <2>3, <2>4, SchedulerAlone DEF SchedulerStep
<1>3. CASE \E c \in containers : ContainerStops(c)
  <2>1. PICK c \in containers : ContainerStops(c)
    BY <1>3
  <2>2. /\ containers' = containers \ {c} /\ stops' = stops \cup {c.name}
        /\ UNCHANGED <<schedulerVars, workflowVars, github, registered, cloud, landed, adrift>>
    BY <2>1 DEF ContainerStops
  <2>3. c.name \in WorkflowIds /\ c.name \in RunnerNames
    BY NamesInBounds DEF InOrder, PoolNames, WorldNames
  <2>4. PoolTypes'
    BY <2>2, <2>3 DEF InOrder, PoolTypes, workflowVars
  <2>5. SchedulerNames'
    BY <2>2 DEF InOrder, PoolNames, SchedulerNames, schedulerVars
  <2>6. WorldNames(github, stage, containers, registered, stops)'
    BY <2>2, <2>3 DEF InOrder, PoolNames, WorldNames, workflowVars
  <2>7. NamesUnused(db, github, stage, containers)'
    BY <2>2 DEF InOrder, PoolNames, NamesUnused, Unused, schedulerVars, workflowVars
  <2>8. NamesStayUsed
    BY <2>2, SameNamesUsed
  <2> QED BY <2>2, <2>4, <2>5, <2>6, <2>7, <2>8 DEF PoolKeeps, InOrder, PoolNames, workflowVars
<1> QED BY <1>1, <1>2, <1>3

LEMMA AlarmSteps ==
    ASSUME InOrder, AlarmStep \/ AlarmFault \/ PoolRestart \/ \E due \in adrift : CapacityLandsLate(due)
    PROVE  PoolKeeps
<1>a. SchedulerTypeOK /\ SchedulerNames /\ PoolTypes
  BY DEF InOrder, PoolNames
<1>1. ASSUME NEW due \in DueSlot, cloud' = Resized(due), adrift' \subseteq adrift, landed' \in BOOLEAN,
             UNCHANGED <<schedulerVars, workflowVars, github, registered, containers, stops>>
      PROVE  PoolKeeps
  <2>1. PICK target \in {due.target, cloud[due.slot].maxInstances} :
          cloud' = [cloud EXCEPT ![due.slot].maxInstances = target]
    BY <1>1 DEF Resized
  <2>2. target \in Nat /\ due.slot \in Slots
    BY <1>a, <2>1 DEF DueSlot, PoolTypes
  <2>3. cloud' \in [Slots -> [maxInstances : Nat, profile : Profiles \cup {None}]]
    BY <1>a, <2>1, <2>2 DEF PoolTypes
  <2>4. PoolTypes'
    BY <1>a, <1>1, <2>3 DEF PoolTypes, workflowVars
  <2>5. PoolNames'
    BY <1>1 DEF InOrder, PoolNames, SchedulerNames, schedulerVars, workflowVars
  <2> QED BY <1>1, <2>4, <2>5, SameNamesUsed DEF PoolKeeps
<1>2. CASE /\ AlarmNext \/ Restart
           /\ registered' \subseteq registered /\ landed' \in BOOLEAN /\ adrift' \subseteq DueSlot
           /\ UNCHANGED <<workflowVars, github, containers, stops, cloud>>
           /\ \A j \in Jobs : github[j].runner # None => github[j].runner \notin registered'
  <2>1. Next /\ SchedulerMoves
    BY <1>a, <1>2, AlarmMoves, RestartMoves DEF Next
  <2>2. PoolTypes'
    BY <1>a, <1>2 DEF PoolTypes, workflowVars
  <2>3. SchedulerNames' /\ NamesUnused(db', github, stage, containers)
    BY <1>2, <2>1 DEF InOrder, PoolNames, SchedulerMoves, Moves, SchedulerNames, NamesUnused
  <2>4. WorldNames(github, stage, containers, registered, stops)'
    BY <1>2 DEF InOrder, PoolNames, WorldNames, workflowVars
  <2>5. NamesStayUsed
    BY <2>1 DEF NamesStayUsed, SchedulerMoves, Moves
  <2> QED BY <1>2, <2>1, <2>2, <2>3, <2>4, <2>5 DEF PoolKeeps, InOrder, PoolNames, workflowVars
<1>b. adrift \cup Unanswered \subseteq DueSlot
  <2>1. CapacityInFlight => alarm.current \in DueSlot
    BY <1>a DEF CapacityInFlight, SchedulerTypeOK, AlarmType
  <2> QED BY <1>a, <2>1 DEF Unanswered, PoolTypes
<1>3. CASE PoolRestart
  BY <1>b, <1>2, <1>3 DEF PoolRestart, InOrder, PoolNames, WorldNames
<1>4. CASE \E succeeded \in BOOLEAN : CapacityAnswered(succeeded)
  BY <1>b, <1>2, <1>4 DEF CapacityAnswered, AlarmNext, InOrder, PoolNames, WorldNames
<1>5. CASE \E gone, busy \in BOOLEAN : DeletionAnswered(gone, busy)
  <2>1. PICK gone, busy \in BOOLEAN : DeletionAnswered(gone, busy)
    BY <1>5
  <2>2. /\ RunnerDeleted(gone) /\ registered' \subseteq registered
        /\ UNCHANGED <<workflowVars, github, containers, stops, cloud, landed, adrift>>
    BY <2>1 DEF DeletionAnswered
  <2> QED BY <1>2, <1>a, <2>2 DEF AlarmNext, InOrder, PoolNames, WorldNames, PoolTypes
<1>6. CASE /\ AlarmNext
           /\ UNCHANGED <<workflowVars, poolVars>>
  BY <1>2, <1>6 DEF poolVars, InOrder, PoolNames, WorldNames, PoolTypes
<1>7. CASE CapacityLands
  <2>1. alarm.current \in DueSlot
    BY <1>a, <1>7 DEF CapacityLands, CapacityInFlight, SchedulerTypeOK, AlarmType
  <2> QED BY <1>1, <1>7, <2>1 DEF CapacityLands
<1>8. CASE \E due \in adrift : CapacityLandsLate(due)
  <2>1. PICK due \in adrift : CapacityLandsLate(due)
    BY <1>8
  <2>2. due \in DueSlot /\ landed \in BOOLEAN
    BY <1>a DEF PoolTypes
  <2> QED BY <1>1, <2>1, <2>2 DEF CapacityLandsLate
<1> QED BY <1>3, <1>4, <1>5, <1>6, <1>7, <1>8 DEF AlarmStep, AlarmFault, AlarmNext

-----------------------------------------------------------------------------
(* The theorems. *)

LEMMA PoolStartsInOrder ==
    ASSUME PoolInit
    PROVE  InOrder /\ faults \in 0 .. MaxFaults /\ misreleased = {}
<1>1. SchedulerTypeOK /\ Init /\ WorkflowInit
  BY InitialState DEF PoolInit
<1>2. /\ db.jobs = [j \in Jobs |-> NoJobRow(j)] /\ workflows = {} /\ alarm.admissions = {}
      /\ stage = [w \in WorkflowIds |-> "claiming"] /\ plan = [w \in WorkflowIds |-> None]
      /\ github = [j \in Jobs |-> [status |-> "queued", runner |-> None]]
      /\ registered = {} /\ containers = {} /\ stops = {} /\ landed = FALSE
      /\ adrift = {} /\ misreleased = {}
  BY <1>1 DEF PoolInit, Init, WorkflowInit, NoAlarm
<1>3. PoolTypes
  <2>1. \A s \in Slots : InitialSlot(s).profile \in Profiles \cup {None}
    BY InitialSlotType DEF SlotRow
  <2>2. cloud \in [Slots -> [maxInstances : Nat, profile : Profiles \cup {None}]]
    BY <2>1 DEF PoolInit
  <2>3. stage \in [WorkflowIds -> Stages]
    BY <1>2 DEF Stages
  <2>4. github \in [Jobs -> GitHubJob]
    BY <1>2 DEF GitHubJob
  <2> QED BY <1>2, <2>2, <2>3, <2>4 DEF PoolTypes
<1>4. \A j \in Jobs : /\ db.jobs[j].status = "unknown" /\ db.jobs[j].attempt = 1
                      /\ db.jobs[j].runner = RunnerName(j, 1)
  BY <1>2 DEF NoJobRow
<1>5. SchedulerNames
  <2>1. RowsNamed(db, github)
    BY <1>4, SchedulerAssumption DEF RowsNamed
  <2>2. OwnersUnique(db)
    BY <1>4 DEF OwnersUnique, WithStatus, Owns
  <2> QED BY <1>2, <2>1, <2>2 DEF SchedulerNames, NamedAfterJobs
<1>6. \A j \in Jobs : github[j].runner = None
  BY <1>2
<1>7. WorldNames(github, stage, containers, registered, stops)
  BY <1>2, <1>6 DEF WorldNames
<1>8. NamesUnused(db, github, stage, containers)
  BY <1>2, <1>6, NamesInBounds DEF NamesUnused, Unused
<1>9. PlansMade(stage, plan)
  BY <1>2 DEF PlansMade, Planned
<1>10. faults \in 0 .. MaxFaults
  <2>1. faults = 0
    BY DEF PoolInit
  <2>2. MaxFaults \in Nat
    BY PoolAssumption
  <2> QED BY <2>1, <2>2
<1> QED BY <1>1, <1>2, <1>3, <1>5, <1>7, <1>8, <1>9, <1>10 DEF InOrder, PoolNames

LEMMA PoolStep ==
    ASSUME InOrder, [PoolNext]_vars
    PROVE  PoolKeeps
<1>1. CASE UNCHANGED vars
  <2>1. UNCHANGED schedulerVars /\ UNCHANGED <<workflowVars, poolVars>>
    BY <1>1 DEF vars
  <2>2. PoolTypes'
    BY <2>1 DEF InOrder, PoolTypes, workflowVars, poolVars
  <2>3. PoolNames'
    BY <2>1 DEF InOrder, PoolNames, SchedulerNames, schedulerVars, workflowVars, poolVars
  <2> QED BY <2>1, <2>2, <2>3, SameNamesUsed DEF PoolKeeps
<1>2. ASSUME NEW i \in Instances, WorkflowStep(i[1], i[2]) \/ WorkflowFault(i[1], i[2])
      PROVE  PoolKeeps
  <2> DEFINE w == i[1]
  <2>1. w \in WorkflowIds /\ i[2] = w
    BY InstanceNames
  <2>2. WorkflowStep(w, w) \/ WorkflowFault(w, w)
    BY <1>2, <2>1
  <2> HIDE DEF w
  <2>3. \/ /\ UNCHANGED poolVars
           /\ \/ ClaimGranted(w, w)
              \/ \E kind \in {"cancelled", "missing", "wait"} : ClaimEnds(w, w, kind)
              \/ ReportConfiguration(w, w) \/ ReportCapacity(w, w) \/ CheckStart(w, w)
              \/ RecordJitRunner(w, w) \/ ReportStarted(w, w) \/ ReportFailure(w, w)
              \/ Err(w, w) \/ Replay(w, w)
        \/ Prepare(w, w) \/ CreateJitRunner(w, w) \/ StartContainer(w, w)
        \/ AlreadyActive(w, w) \/ RefuseContainer(w, w)
    BY <2>2 DEF WorkflowStep, WorkflowFault, NameInUse
  <2> QED BY <2>1, <2>3, QuietSteps, WorldSteps
<1>3. CASE Progress
  BY <1>2, <1>3, GitHubSteps, DeliverySteps, ContainerSteps, AlarmSteps DEF Progress
<1>4. CASE Fault
  BY <1>2, <1>4, GitHubSteps, ContainerSteps, AlarmSteps DEF Fault
<1> QED BY <1>1, <1>3, <1>4 DEF PoolNext

LEMMA PoolStaysInOrder ==
    ASSUME InOrder, [PoolNext]_vars
    PROVE  InOrder' /\ [Next]_schedulerVars /\ NamesStayUsed
<1>1. PoolKeeps
  BY PoolStep
<1>2. SchedulerTypeOK'
  BY <1>1, NextStep DEF PoolKeeps, InOrder, StepKeeps
<1> QED BY <1>1, <1>2 DEF PoolKeeps, InOrder

\* The inductive invariant: types and names.
THEOREM PoolIsInOrder == PoolSpec => []InOrder
<1>1. PoolInit => InOrder
  BY PoolStartsInOrder
<1>2. InOrder /\ [PoolNext]_vars => InOrder'
  BY PoolStaysInOrder
<1> QED BY <1>1, <1>2, PTL DEF PoolSpec

\* Whatever GitHub, the Containers, the workflow engine and the alarm do, everything
\* keeps its type: a Container is on a slot, a plan names one, no ceiling is negative.
THEOREM PoolKeepsTypes == PoolSpec => []TypeOK
<1>1. PoolInit => faults \in 0 .. MaxFaults /\ misreleased \subseteq Slots \cup {None}
  BY PoolStartsInOrder
<1>2. faults \in 0 .. MaxFaults /\ [PoolNext]_vars => (faults \in 0 .. MaxFaults)'
  <2> SUFFICES ASSUME faults \in 0 .. MaxFaults, [PoolNext]_vars PROVE faults' \in 0 .. MaxFaults
    OBVIOUS
  <2>1. faults' = faults \/ (faults < MaxFaults /\ faults' = faults + 1)
    BY DEF PoolNext, vars
  <2>2. MaxFaults \in Nat
    BY PoolAssumption
  <2> QED BY <2>1, <2>2
<1>3. /\ InOrder /\ misreleased \subseteq Slots \cup {None} /\ [PoolNext]_vars
      => (misreleased \subseteq Slots \cup {None})'
  <2>1. InOrder => Misreleases \subseteq Slots \cup {None}
    <3> SUFFICES ASSUME InOrder, NEW row \in InRecovery PROVE row.slot \in Slots \cup {None}
      BY DEF Misreleases
    <3>1. row \in StoppedRow
      BY DEF InRecovery, InOrder, SchedulerTypeOK, AlarmType
    <3> QED BY <3>1 DEF StoppedRow
  <2> QED BY <2>1 DEF PoolNext, Recorded, vars
<1>4. InOrder /\ faults \in 0 .. MaxFaults /\ misreleased \subseteq Slots \cup {None} => TypeOK
  BY DEF InOrder, PoolTypes, TypeOK
<1> QED BY <1>1, <1>2, <1>3, <1>4, PoolIsInOrder, PTL DEF PoolSpec

\* The pool is a refinement of the scheduler under calls from anyone: GitHub, the
\* Containers and the workflows make only calls that the scheduler is specified for,
\* with the names and capacity generations that it handed out.
THEOREM PoolRunsTheScheduler == PoolSpec => Spec
<1>1. PoolInit => Init
  BY DEF PoolInit
<1>2. InOrder /\ [PoolNext]_vars => [Next]_schedulerVars
  BY PoolStaysInOrder
<1> QED BY <1>1, <1>2, PoolIsInOrder, PTL DEF PoolSpec, Spec

\* ... so that it keeps the scheduler's reservations: in every behaviour a slot counts
\* at least the jobs that are active on it, or a stale row was released on it before.
THEOREM PoolReservationsAreCovered == PoolSpec => []ReservationsCoverActiveJobs
<1> DEFINE Counted == Consistent(db, Slots \ misreleased)
<1>1. PoolInit => Counted
  <2> SUFFICES ASSUME PoolInit PROVE Counted
    OBVIOUS
  <2>1. Consistent(db, Slots) /\ misreleased = {}
    BY InitialState DEF PoolInit
  <2> QED BY <2>1
<1>2. InOrder /\ Counted /\ [PoolNext]_vars => Counted'
  <2> SUFFICES ASSUME InOrder, Consistent(db, Slots \ misreleased), [PoolNext]_vars
               PROVE  Consistent(db', Slots \ misreleased')
    BY DEF Consistent, Waiting, WithStatus, CoveredOn, ActiveOn, Active
  <2>1. CASE UNCHANGED vars
    BY <2>1 DEF vars, schedulerVars
  <2>2. CASE PoolNext
    <3>1. [Next]_schedulerVars /\ SchedulerTypeOK
      BY PoolStaysInOrder DEF InOrder
    <3>2. Consistent(db', (Slots \ misreleased) \ Misreleases)
      BY <3>1, NextStep DEF StepKeeps
    <3>3. misreleased' = misreleased \cup Misreleases
      BY <2>2 DEF PoolNext, Recorded
    <3>4. Slots \ misreleased' = (Slots \ misreleased) \ Misreleases
      BY <3>3
    <3> QED BY <3>2, <3>4
  <2> QED BY <2>1, <2>2
<1>3. Counted => ReservationsCoverActiveJobs
  BY DEF Consistent, ReservationsCoverActiveJobs
<1> HIDE DEF Counted
<1> QED BY <1>1, <1>2, <1>3, PoolIsInOrder, PTL DEF PoolSpec

\* No runner has two owners, however often GitHub swaps the jobs of two runners and
\* whatever comes late: rows[0] of runnerOwner and runnerStarted is the only row.
THEOREM OwnersAreUnique == PoolSpec => []RunnerOwnersUnique
<1>1. InOrder => RunnerOwnersUnique
  BY DEF InOrder, PoolNames, SchedulerNames, OwnersUnique, Owns, RunnerOwnersUnique
<1> QED BY <1>1, PoolIsInOrder, PTL

\* No two workflow instances create runners under one name: an admission carries the
\* name that belongs to its id.
THEOREM WorkflowsAreUnique == PoolSpec => []OneWorkflowPerRunner
<1>1. InOrder => OneWorkflowPerRunner
  <2> SUFFICES ASSUME InOrder, NEW i \in workflows, NEW k \in workflows, i.name = k.name PROVE i = k
    BY DEF OneWorkflowPerRunner
  <2>1. i \in Admission /\ k \in Admission
    BY DEF InOrder, SchedulerTypeOK
  <2>2. RunnerName(i.job, i.attempt) = RunnerName(k.job, k.attempt)
    BY DEF InOrder, PoolNames, SchedulerNames, NamedAfterJobs
  <2>3. i.job = k.job /\ i.attempt = k.attempt
    BY <2>2 DEF RunnerName
  <2> QED BY <2>1, <2>3 DEF Admission
<1> QED BY <1>1, PoolIsInOrder, PTL

-----------------------------------------------------------------------------
(***************************************************************************)
(* A completed job stays completed: only its own in_progress delivery      *)
(* after the fact, or the release of a stale row, brings it back.          *)
(*                                                                         *)
(* Nothing in the scheduler says so: workflowJobStarted puts whichever job *)
(* it is told of on the runner.  What protects a completed job is GitHub's *)
(* history.  Only jobs that are over at GitHub are completed or on their   *)
(* way to it, in the table and in the alarm's copies of its rows; and the  *)
(* hook polls only jobs that are not.                                      *)
(***************************************************************************)
(* What an operation does to the rows of completed jobs. *)

Over == {"releasing", "completed"}

\* A completed row stays so, and no other one begins to be completed.
Settled(row, next) ==
    /\ row.status = "completed" => next.status = "completed"
    /\ next.status \in Over => row.status \in Over

Settles(d, e) == \A j \in Jobs : Settled(d.jobs[j], e.jobs[j])

\* The invariant: what the scheduler closes is over at GitHub (g).
EndedAtGitHub(d, g) ==
    \A j \in Jobs : d.jobs[j].status \in Over => g[j].status = "completed"

\* ... and so is what the alarm is going to close.
CopiesEnded == \A row \in InRecovery : row.status = "releasing" => github[row.job].status = "completed"

LEMMA SettlesTwice ==
    ASSUME NEW d, NEW m, NEW e, Settles(d, m), Settles(m, e)
    PROVE  Settles(d, e)
BY DEF Settles, Settled

LEMMA SameJobsSettle ==
    ASSUME NEW d, NEW e, e.jobs = d.jobs
    PROVE  Settles(d, e)
BY DEF Settles, Settled

\* An update of one row.
LEMMA OneRowSettles ==
    ASSUME NEW d \in Database, NEW j \in Jobs, NEW row \in JobRow, Settled(d.jobs[j], row)
    PROVE  [d EXCEPT !.jobs[j] = row] \in Database /\ Settles(d, [d EXCEPT !.jobs[j] = row])
<1> DEFINE e == [d EXCEPT !.jobs[j] = row]
<1>1. e \in Database /\ e.jobs[j] = row /\ \A k \in Jobs \ {j} : e.jobs[k] = d.jobs[k]
  BY SetJobType
<1> HIDE DEF e
<1>2. Settles(d, e)
  BY <1>1 DEF Settles, Settled
<1> QED BY <1>1, <1>2 DEF e

LEMMA AlarmSettles ==
    ASSUME NEW d, NEW m \in Database, Settles(d, m)
    PROVE  Settles(d, ScheduleWorkAlarm(m))
BY ScheduleWorkAlarmEffect DEF Settles, SameJobs

LEMMA AdmissionSettles ==
    ASSUME NEW d, NEW m \in Database, Settles(d, m)
    PROVE  Settles(d, AdmitNext(m).db) /\ Settles(d, ThenAdmitNext(m).db)
<1>1. Settles(m, AdmitNext(m).db)
  <2>1. CASE NextAdmission(m) = {}
    BY <2>1, SameJobsSettle DEF AdmitNext, AdmitOneOf, NoAdmission
  <2>2. CASE NextAdmission(m) # {}
    <3> DEFINE a == CHOOSE b \in NextAdmission(m) : TRUE
    <3>1. a \in NextAdmission(m) /\ AdmitNext(m) = Admit(m, a)
      BY <2>2 DEF AdmitNext, AdmitOneOf
    <3> HIDE DEF a
    <3>2. Admit(m, a).db.jobs = [m.jobs EXCEPT ![a.job] = [@ EXCEPT !.status = "admitted", !.slot = a.slot]]
      BY <3>1, AdmitEffect
    <3>3. a.job \in Jobs /\ a.slot \in Slots /\ m.jobs[a.job].status = "queued" /\ m.jobs \in [Jobs -> JobRow]
      BY <3>1, NextAdmissionType, DatabaseType
    <3> QED BY <3>1, <3>2, <3>3 DEF Settles, Settled, JobRow, Over
  <2> QED BY <2>1, <2>2
<1>2. Settles(d, AdmitNext(m).db)
  BY <1>1, SettlesTwice
<1>3. ThenAdmitNext(m).db = ScheduleWorkAlarm(AdmitNext(m).db)
  BY DEF ThenAdmitNext, AdmitNext, AdmitOneOf, NoAdmission, Admit, AdmitFor, AdmitWith
<1>4. AdmitNext(m).db \in Database
  BY AdmitNextPreserves DEF Preserves
<1> QED BY <1>2, <1>3, <1>4, AlarmSettles

LEMMA ReleaseSettles ==
    ASSUME NEW d \in Database, NEW j \in Jobs, NEW slot \in Slots \cup {None},
           NEW status \in {"completed", "cancelled", "failed"},
           Settled(d.jobs[j], [d.jobs[j] EXCEPT !.status = status, !.due = FALSE])
    PROVE  ReleaseJob(d, j, slot, status) \in Database /\ Settles(d, ReleaseJob(d, j, slot, status))
<1> DEFINE ended == [d.jobs[j] EXCEPT !.status = status, !.due = FALSE]
           e == ReleaseJob(d, j, slot, status)
<1>1. d.jobs \in [Jobs -> JobRow] /\ e \in Database
  BY ReleaseJobEffect, DatabaseType DEF ReleasesOne
<1>2. e.jobs = [d.jobs EXCEPT ![j] = ended]
  BY <1>1 DEF ReleaseJob, Database
<1> HIDE DEF ended, e
<1>3. Settles(d, e)
  BY <1>1, <1>2 DEF Settles, Settled, ended
<1> QED BY <1>1, <1>3 DEF e

\* releaseJob followed by admitNext.
LEMMA ReleaseThenAdmit ==
    ASSUME NEW d \in Database, NEW j \in Jobs, NEW slot \in Slots \cup {None},
           NEW status \in {"completed", "cancelled", "failed"}, d.jobs[j].status # "completed",
           status = "completed" => d.jobs[j].status = "releasing"
    PROVE  /\ Settles(d, AdmitNext(ReleaseJob(d, j, slot, status)).db)
           /\ Settles(d, ThenAdmitNext(ReleaseJob(d, j, slot, status)).db)
<1>1. d.jobs[j] \in JobRow
  BY DatabaseType
<1>2. Settled(d.jobs[j], [d.jobs[j] EXCEPT !.status = status, !.due = FALSE])
  BY <1>1 DEF Settled, JobRow, Over
<1> QED BY <1>2, ReleaseSettles, AdmissionSettles

-----------------------------------------------------------------------------
(* The operations. *)

LEMMA SubmitSettles ==
    ASSUME NEW d \in Database, NEW j \in Jobs
    PROVE  Settles(d, Submit(d, j).db)
<1> DEFINE row == [NoJobRow(j) EXCEPT !.status = "queued",
                                      !.created = Cardinality(Jobs \ WithStatus(d, {"unknown"})) + 1]
           m == [d EXCEPT !.jobs[j] = row]
<1>1. CASE d.jobs[j].status # "unknown"
  BY <1>1, SameJobsSettle DEF Submit, NoAdmission
<1>2. CASE d.jobs[j].status = "unknown"
  <2>1. Cardinality(Jobs \ WithStatus(d, {"unknown"})) \in Nat
    BY SchedulerAssumption, FS_Subset, FS_CardinalityType
  <2>2. row \in JobRow /\ row.status = "queued"
    <3>1. NoJobRow(j) \in JobRow
      BY NoJobRowType
    <3>2. Cardinality(Jobs \ WithStatus(d, {"unknown"})) + 1 \in Nat
      BY <2>1
    <3> QED BY <3>1, <3>2 DEF JobRow, JobStatus
  <2>3. Submit(d, j) = ThenAdmitNext(m)
    BY <1>2 DEF Submit
  <2> HIDE DEF row
  <2>4. Settled(d.jobs[j], row)
    BY <1>2, <2>2 DEF Settled, Over
  <2>5. m \in Database /\ Settles(d, m)
    BY <2>2, <2>4, OneRowSettles
  <2> QED BY <2>3, <2>5, AdmissionSettles
<1> QED BY <1>1, <1>2

\* GitHub reports a job completed: that job's row may begin to be, no other one.
LEMMA WorkflowJobCompletedSettles ==
    ASSUME NEW d \in Database, NEW j \in Jobs
    PROVE  LET e == WorkflowJobCompleted(d, j).db
           IN  /\ \A k \in Jobs : d.jobs[k].status = "completed" => e.jobs[k].status = "completed"
               /\ \A k \in Jobs \ {j} : e.jobs[k].status \in Over => d.jobs[k].status \in Over
<1> DEFINE row == d.jobs[j]
           released == [row EXCEPT !.status = "releasing", !.due = TRUE]
           e == WorkflowJobCompleted(d, j).db
           Good == /\ \A k \in Jobs : d.jobs[k].status = "completed" => e.jobs[k].status = "completed"
                   /\ \A k \in Jobs \ {j} : e.jobs[k].status \in Over => d.jobs[k].status \in Over
<1> SUFFICES Good
  OBVIOUS
<1>1. row \in JobRow /\ row.slot \in Slots \cup {None} /\ d.jobs \in [Jobs -> JobRow]
  BY DatabaseType DEF JobRow
<1>2. CASE row.status \in {"queued", "admitted", "stopped-awaiting-completion"}
  <2>1. PICK status \in {"cancelled", "completed"} : WorkflowJobCompleted(d, j) = ThenAdmitNext(ReleaseJob(d, j, row.slot, status))
    BY <1>2 DEF WorkflowJobCompleted
  <2> DEFINE m == ReleaseJob(d, j, row.slot, status)
             ended == [row EXCEPT !.status = status, !.due = FALSE]
  <2>2. m \in Database
    BY <1>1, ReleaseJobEffect DEF ReleasesOne
  <2>3. m.jobs = [d.jobs EXCEPT ![j] = ended]
    BY <1>1, <2>2 DEF ReleaseJob, Database
  <2>4. Settles(m, e)
    <3> HIDE DEF m
    <3> QED BY <2>1, <2>2, AdmissionSettles, SameJobsSettle DEF m
  <2> HIDE DEF m, ended, e
  <2>5. \A k \in Jobs \ {j} : m.jobs[k] = d.jobs[k]
    BY <1>1, <2>3
  <2>6. \A k \in Jobs \ {j} : Settled(d.jobs[k], e.jobs[k])
    BY <2>4, <2>5 DEF Settles, Settled
  <2>7. row.status # "completed"
    BY <1>2
  <2> HIDE DEF row
  <2> QED BY <2>6, <2>7 DEF Settled, row
<1>3. CASE row.status \in {"provisioning", "running"}
  <2>1. released \in JobRow
    BY <1>1 DEF JobRow, JobStatus, ACTIVE_JOB_STATES
  <2> DEFINE m == [d EXCEPT !.jobs[j] = released]
  <2>2. e = ScheduleWorkAlarm(m)
    BY <1>3 DEF WorkflowJobCompleted, NoAdmission
  <2> HIDE DEF released, e
  <2>3. m \in Database /\ \A k \in Jobs \ {j} : m.jobs[k] = d.jobs[k]
    BY <2>1, SetJobType
  <2> HIDE DEF m
  <2>4. e.jobs = m.jobs
    BY <2>2, <2>3, ScheduleWorkAlarmEffect DEF SameJobs
  <2>5. row.status # "completed"
    BY <1>3
  <2> HIDE DEF row
  <2> QED BY <2>3, <2>4, <2>5 DEF row
<1>4. CASE row.status \notin {"queued", "admitted", "stopped-awaiting-completion", "provisioning", "running"}
  <2>1. e = d
    BY <1>4 DEF WorkflowJobCompleted, NoAdmission
  <2> QED BY <2>1
<1> QED BY <1>2, <1>3, <1>4

\* GitHub reports that a runner executes a job: only that job can be brought back.
LEMMA WorkflowJobStartedSettles ==
    ASSUME NEW d \in Database, NEW j \in Jobs, NEW name \in RunnerNames
    PROVE  LET e == WorkflowJobStarted(d, j, name).db
           IN  /\ \A k \in Jobs \ {j} : Settled(d.jobs[k], e.jobs[k])
               /\ e.jobs[j].status \in Over => d.jobs[j].status \in Over
<1> DEFINE owners == RunnerOwners(d, name)
           owner == CHOOSE k \in owners : TRUE
           reply == WorkflowJobStarted(d, j, name)
           Good == /\ \A k \in Jobs \ {j} : Settled(d.jobs[k], reply.db.jobs[k])
                   /\ reply.db.jobs[j].status \in Over => d.jobs[j].status \in Over
<1> SUFFICES Good
  OBVIOUS
<1>1. d.jobs \in [Jobs -> JobRow]
  BY DatabaseType
<1>2. CASE reply = NoAdmission(d)
  BY <1>2 DEF NoAdmission, Settled
<1>3. CASE owners = {} /\ reply = NoAdmission(AdoptUnownedRunner(d, j, name))
  <2>1. \/ AdoptUnownedRunner(d, j, name) = d
        \/ AdoptUnownedRunner(d, j, name).jobs = [d.jobs EXCEPT ![j] = RunningOn(d.jobs[j], name, d.jobs[j].slot)]
    BY <1>1 DEF AdoptUnownedRunner, Database
  <2>2. RunningOn(d.jobs[j], name, d.jobs[j].slot).status = "running"
    BY <1>1 DEF RunningOn, JobRow
  <2>3. reply.db = AdoptUnownedRunner(d, j, name)
    BY <1>3 DEF NoAdmission
  <2> HIDE DEF reply
  <2> QED BY <1>1, <2>1, <2>2, <2>3 DEF Settled, Over
<1>4. CASE /\ owners # {} /\ owner # j /\ d.jobs[j].status # "unknown" /\ d.jobs[owner].slot # None
           /\ reply = ThenAdmitNext(TransferRunner(d, j, name, owner))
  <2> DEFINE m == TransferRunner(d, j, name, owner)
             mine == RunningOn(d.jobs[j], name, d.jobs[owner].slot)
             other == Requeued(d.jobs[owner])
  <2>1. owner \in owners
    BY <1>4
  <2> HIDE DEF owner
  <2>2. owner \in Jobs /\ d.jobs[owner].status \in {"provisioning", "running", "releasing"}
    BY <2>1, RunnerOwnersType
  <2>3. m \in Database
    BY <1>4, <2>2, TransferRunnerPreserves
  <2>4. m.jobs = [k \in Jobs |-> IF k = owner THEN other ELSE IF k = j THEN mine ELSE d.jobs[k]]
    BY DEF TransferRunner, Database
  <2>5. mine.status = "running" /\ other.status = "queued"
    BY <1>1, <2>2 DEF RunningOn, Requeued, JobRow
  <2> HIDE DEF m, mine, other
  <2>6. m.jobs[j].status = "running" /\ \A k \in Jobs \ {j} : Settled(d.jobs[k], m.jobs[k])
    BY <1>4, <2>2, <2>4, <2>5 DEF Settled, Over
  <2>7. Settles(m, ThenAdmitNext(m).db)
    BY <2>3, AdmissionSettles, SameJobsSettle
  <2>8. reply.db = ThenAdmitNext(m).db
    BY <1>4 DEF m
  <2> HIDE DEF reply
  <2> QED BY <2>6, <2>7, <2>8 DEF Settles, Settled, Over
<1> QED BY <1>2, <1>3, <1>4 DEF WorkflowJobStarted

LEMMA ClaimProvisioningSettles ==
    ASSUME NEW d \in Database, NEW j \in Jobs, NEW name
    PROVE  Settles(d, ClaimProvisioning(d, j, name))
<1> DEFINE claimed == [d.jobs[j] EXCEPT !.status = "provisioning"]
<1>1. d.jobs[j] \in JobRow
  BY DatabaseType
<1>2. d.jobs[j].status \in {"queued", "admitted"} => claimed \in JobRow /\ Settled(d.jobs[j], claimed)
  BY <1>1 DEF JobRow, JobStatus, ACTIVE_JOB_STATES, Settled, Over
<1>3. \/ ClaimProvisioning(d, j, name) = d
      \/ /\ ClaimProvisioning(d, j, name) = [d EXCEPT !.jobs[j] = claimed]
         /\ d.jobs[j].status \in {"queued", "admitted"}
  BY DEF ClaimProvisioning, Database
<1> HIDE DEF claimed
<1> QED BY <1>2, <1>3, OneRowSettles, SameJobsSettle

LEMMA ConfigurationReadySettles ==
    ASSUME NEW d \in Database, NEW j \in Jobs
    PROVE  Settles(d, ConfigurationReady(d, j).db)
<1> DEFINE slot == d.jobs[j].slot
           m == [d EXCEPT !.slots[slot] = ConfiguredSlot(d.slots[slot])]
<1>1. CASE d.jobs[j].status = "unknown" \/ slot = None
  BY <1>1, SameJobsSettle DEF ConfigurationReady, NoAdmission
<1>2. CASE ~(d.jobs[j].status = "unknown" \/ slot = None)
  <2>1. slot \in Slots /\ d.slots[slot] \in SlotRow
    BY <1>2, DatabaseType DEF JobRow
  <2>2. ConfiguredSlot(d.slots[slot]) \in SlotRow
    BY <2>1 DEF ConfiguredSlot, SlotRow, CONFIGURATION_STATES
  <2>3. m \in Database /\ m.jobs = d.jobs
    BY <2>1, <2>2, SetSlotType
  <2>4. ConfigurationReady(d, j) = ThenAdmitNext(m) \/ ConfigurationReady(d, j) = ThenAdmitNext(d)
    BY <1>2 DEF ConfigurationReady
  <2> HIDE DEF m
  <2> QED BY <2>3, <2>4, AdmissionSettles, SameJobsSettle
<1> QED BY <1>1, <1>2

LEMMA RunnerProvisionedSettles ==
    ASSUME NEW d \in Database, NEW j \in Jobs, NEW name \in RunnerNames
    PROVE  Settles(d, RunnerProvisioned(d, j, name))
<1> DEFINE e == RunnerProvisioned(d, j, name)
<1>1. d.jobs \in [Jobs -> JobRow]
  BY DatabaseType
<1>2. \A k \in Jobs : e.jobs[k].status = d.jobs[k].status
  BY <1>1 DEF RunnerProvisioned, Database, JobRow
<1> HIDE DEF e
<1> QED BY <1>2 DEF Settles, Settled, e

LEMMA RunnerStartedSettles ==
    ASSUME NEW d \in Database, NEW name
    PROVE  Settles(d, RunnerStarted(d, name))
<1> DEFINE e == RunnerStarted(d, name)
<1>1. d.jobs \in [Jobs -> JobRow]
  BY DatabaseType
<1>2. \A k \in Jobs : \/ e.jobs[k] = d.jobs[k]
                      \/ d.jobs[k].status = "provisioning" /\ e.jobs[k].status = "running"
  BY <1>1 DEF RunnerStarted, Database, JobRow, NamedRows, WithStatus
<1> HIDE DEF e
<1> QED BY <1>2 DEF Settles, Settled, Over, e

LEMMA ProvisioningFailedSettles ==
    ASSUME NEW d \in Database, NEW j \in Jobs, NEW name
    PROVE  Settles(d, ProvisioningFailed(d, j, name).db)
<1>1. d.jobs[j].slot \in Slots \cup {None}
  BY DatabaseType DEF JobRow
<1>2. CASE CanStart(d, j, name)
  <2>1. d.jobs[j].status = "provisioning"
    BY <1>2 DEF CanStart
  <2> QED BY <1>1, <1>2, <2>1, ReleaseThenAdmit DEF ProvisioningFailed
<1>3. CASE ~CanStart(d, j, name)
  BY <1>3, SameJobsSettle DEF ProvisioningFailed, NoAdmission
<1> QED BY <1>2, <1>3

LEMMA RunnerStoppedSettles ==
    ASSUME NEW d \in Database, NEW name
    PROVE  Settles(d, RunnerStopped(d, name).db)
<1> DEFINE rows == FirstRows(d, NamedRows(d, name, JobStatus \ {"unknown"}))
           j == CHOOSE k \in rows : TRUE
           row == d.jobs[j]
           stopped == [row EXCEPT !.status = "stopped-awaiting-completion", !.due = TRUE]
<1>1. CASE rows = {} \/ j \notin Active(d)
  BY <1>1, SameJobsSettle DEF RunnerStopped, NoAdmission
<1>2. CASE ~(rows = {} \/ j \notin Active(d))
  <2>1. j \in Active(d)
    BY <1>2
  <2>2. RunnerStopped(d, name) =
          IF row.status = "releasing"
          THEN ThenAdmitNext(ReleaseJob(d, j, row.slot, "completed"))
          ELSE NoAdmission(ScheduleWorkAlarm([d EXCEPT !.jobs[j] = stopped]))
    BY <1>2 DEF RunnerStopped
  <2> HIDE DEF j
  <2>3. j \in Jobs /\ row \in JobRow /\ row.slot \in Slots \cup {None} /\ row.status # "completed"
    BY <2>1, DatabaseType DEF Active, WithStatus, JobRow, ACTIVE_JOB_STATES
  <2>4. CASE row.status = "releasing"
    BY <2>2, <2>3, <2>4, ReleaseThenAdmit
  <2>5. CASE row.status # "releasing"
    <3>1. stopped \in JobRow /\ Settled(row, stopped)
      BY <2>3 DEF JobRow, JobStatus, ACTIVE_JOB_STATES, Settled, Over
    <3> HIDE DEF stopped
    <3>2. RunnerStopped(d, name).db = ScheduleWorkAlarm([d EXCEPT !.jobs[j] = stopped])
      BY <2>2, <2>5 DEF NoAdmission
    <3> QED BY <2>3, <3>1, <3>2, OneRowSettles, AlarmSettles
  <2> QED BY <2>4, <2>5
<1> QED BY <1>1, <1>2

-----------------------------------------------------------------------------
(* The alarm and the constructor. *)

\* What the alarm does to the rows of the jobs: a job that it brings back is the job of
\* a stale row, and one that it closes was about to be when the alarm read it.
Recovered ==
    /\ \A j \in Jobs : db.jobs[j].status = "completed" =>
          \/ db'.jobs[j].status = "completed"
          \/ \E row \in InRecovery : row.job = j /\ StaleRelease(row)
    /\ \A j \in Jobs : db'.jobs[j].status \in Over =>
          \/ db.jobs[j].status \in Over
          \/ \E row \in InRecovery : row.job = j /\ row.status = "releasing"

LEMMA SettledIsRecovered ==
    ASSUME Settles(db, db')
    PROVE  Recovered
BY DEF Recovered, Settles, Settled

LEMMA FinishRowSettles ==
    ASSUME SchedulerTypeOK, alarm.phase \in {"recovering", "cleaning"},
           NEW row \in StoppedRow, NEW retry \in BOOLEAN,
           row \in alarm.work \cup ({alarm.current} \ {None}), FinishRow(row, retry)
    PROVE  Recovered
<1> DEFINE j == row.job
           new == [db.jobs[j] EXCEPT !.cleanup = retry]
           cleaned == [db EXCEPT !.jobs[j] = new]
           status == IF row.status = "releasing" THEN "completed" ELSE "failed"
           m == ReleaseJob(cleaned, j, row.slot, status)
           ended == [new EXCEPT !.status = status, !.due = FALSE]
<1>1. j \in Jobs /\ row.slot \in Slots \cup {None} /\ db \in Database /\ db.jobs[j] \in JobRow
  BY DatabaseType DEF StoppedRow, SchedulerTypeOK
<1>2. new \in JobRow /\ new.status = db.jobs[j].status /\ Settled(db.jobs[j], new)
  BY <1>1 DEF JobRow, Settled
<1>3. [db EXCEPT !.jobs[row.job].cleanup = retry] = cleaned
  BY <1>1 DEF Database, JobRow
<1>4. db' = IF alarm.phase = "recovering" THEN AdmitNext(m).db ELSE cleaned
  BY <1>3 DEF FinishRow, RowDone, NoAdmission
<1>5. cleaned \in Database /\ cleaned.jobs[j] = new /\ Settles(db, cleaned)
  <2> HIDE DEF new
  <2> QED BY <1>1, <1>2, SetJobType, OneRowSettles
<1>6. CASE alarm.phase # "recovering"
  <2> HIDE DEF cleaned
  <2> QED BY <1>4, <1>5, <1>6, SettledIsRecovered
<1>7. CASE alarm.phase = "recovering"
  <2>1. row \in InRecovery
    BY <1>7 DEF InRecovery
  <2>2. db.jobs[j].status = "completed" => StaleRelease(row)
    BY <1>7 DEF StaleRelease, StaleRow, Active, WithStatus, ACTIVE_JOB_STATES
  <2> HIDE DEF cleaned, new
  <2>3. m \in Database /\ cleaned.jobs \in [Jobs -> JobRow]
    BY <1>1, <1>5, ReleaseJobEffect, DatabaseType DEF ReleasesOne
  <2>4. m.jobs = [cleaned.jobs EXCEPT ![j] = ended]
    BY <1>5, <2>3 DEF ReleaseJob, Database
  <2>5. ended.status = status
    BY <1>2 DEF JobRow
  <2> HIDE DEF m, ended
  <2>6. Settles(m, db')
    BY <1>4, <1>7, <2>3, AdmissionSettles, SameJobsSettle
  <2>7. \A k \in Jobs \ {j} : Settled(db.jobs[k], db'.jobs[k])
    BY <1>5, <2>3, <2>4, <2>6 DEF Settles, Settled
  <2>8. db'.jobs[j].status \in Over => row.status = "releasing"
    BY <1>1, <2>3, <2>4, <2>5, <2>6 DEF Settles, Settled, Over
  <2> QED BY <1>1, <2>1, <2>2, <2>7, <2>8 DEF Recovered, Settled
<1> QED BY <1>6, <1>7

LEMMA FinishCapacitySettles ==
    ASSUME SchedulerTypeOK, NEW succeeded \in BOOLEAN, FinishCapacityUpdate(succeeded)
    PROVE  Settles(db, db')
<1> DEFINE due == alarm.current
           row == db.slots[due.slot]
           failed == [db EXCEPT !.slots[due.slot].updating = @ /\ row.updateGeneration # due.generation]
<1>1. db \in Database /\ due \in DueSlot
  BY DEF FinishCapacityUpdate, SchedulerTypeOK, AlarmType
<1>2. db' = (IF succeeded THEN CapacityPrepared(db, due.slot, due.generation) ELSE NoAdmission(failed)).db
  BY DEF FinishCapacityUpdate
<1>3. failed.jobs = db.jobs
  BY <1>1 DEF Database
<1>4. CapacityPrepared(db, due.slot, due.generation).db.jobs = db.jobs
  BY <1>1, CapacityPreparedPreserves DEF DueSlot
<1> HIDE DEF failed, due
<1> QED BY <1>2, <1>3, <1>4, SameJobsSettle DEF NoAdmission

LEMMA AlarmNextSettles ==
    ASSUME SchedulerTypeOK, AlarmNext
    PROVE  Recovered
<1>1. db \in Database /\ Awake \in Database /\ Awake.jobs = db.jobs
  BY AwakeEffect DEF SchedulerTypeOK, SameJobs
<1>2. CASE RecoverStoppedRunners \/ DeleteRunner \/ RetryCleanups \/ CheckCapacityHolds
  BY <1>1, <1>2, SameJobsSettle, SettledIsRecovered DEF RecoverStoppedRunners, DeleteRunner, RetryCleanups, CheckCapacityHolds
<1>3. ASSUME NEW gone \in BOOLEAN, RunnerDeleted(gone) PROVE Recovered
  <2>1. /\ alarm.phase \in {"recovering", "cleaning"} /\ alarm.current # None
        /\ FinishRow(alarm.current, ~gone)
    BY <1>3 DEF RunnerDeleted
  <2>2. alarm.current \in StoppedRow /\ (~gone) \in BOOLEAN
    BY <2>1 DEF SchedulerTypeOK, AlarmType
  <2>3. alarm.current \in alarm.work \cup ({alarm.current} \ {None})
    BY <2>1
  <2> QED BY <2>1, <2>2, <2>3, FinishRowSettles
<1>4. CASE NothingToDelete
  <2>1. PICK row \in alarm.work : FinishRow(row, FALSE)
    BY <1>4 DEF NothingToDelete
  <2>2. row \in StoppedRow /\ alarm.phase \in {"recovering", "cleaning"}
    BY <1>4, <2>1 DEF NothingToDelete, SchedulerTypeOK, AlarmType
  <2>3. FALSE \in BOOLEAN /\ row \in alarm.work \cup ({alarm.current} \ {None})
    OBVIOUS
  <2> QED BY <2>1, <2>2, <2>3, FinishRowSettles
<1>5. CASE PlanCapacityUpdates
  <2>1. PICK stalled \in SUBSET UpdatingSlots(db) :
          db' = [Awake EXCEPT !.slots = RecoverStalled(@, stalled)]
    BY <1>5 DEF PlanCapacityUpdates
  <2>2. db'.jobs = db.jobs
    BY <1>1, <2>1 DEF Database
  <2> QED BY <2>2, SameJobsSettle, SettledIsRecovered
<1>6. CASE StartCapacityUpdate
  <2>1. PICK due \in NextDue(alarm.work) :
          \/ UNCHANGED db
          \/ db' = [db EXCEPT !.slots[due.slot].updating = TRUE,
                              !.slots[due.slot].updateGeneration = due.generation]
    BY <1>6 DEF StartCapacityUpdate
  <2>2. db'.jobs = db.jobs
    BY <1>1, <2>1 DEF Database
  <2> QED BY <2>2, SameJobsSettle, SettledIsRecovered
<1>7. CASE CheckCapacityHold
  <2>1. PICK s \in FirstById(alarm.work) : db' = ReleaseHold(db, s)
    BY <1>7 DEF CheckCapacityHold
  <2>2. db'.jobs = db.jobs
    BY <1>1, <2>1 DEF ReleaseHold, ScheduleCapacityReclamation, Database
  <2> QED BY <2>2, SameJobsSettle, SettledIsRecovered
<1>8. CASE AlarmEnds
  <2>1. db' = ScheduleWorkAlarm(AdmitNext(Awake).db)
    BY <1>8 DEF AlarmEnds, LastAdmissions
  <2>2. Settles(db, AdmitNext(Awake).db) /\ AdmitNext(Awake).db \in Database
    BY <1>1, AdmissionSettles, SameJobsSettle, AdmitNextPreserves DEF Preserves
  <2> QED BY <2>1, <2>2, AlarmSettles, SettledIsRecovered
<1> QED BY <1>2, <1>3, <1>4, <1>5, <1>6, <1>7, <1>8, FinishCapacitySettles,
           SettledIsRecovered DEF AlarmNext

\* The constructor closes the jobs that awaited their Container's stop.
LEMMA RestartSettles ==
    ASSUME SchedulerTypeOK, Restart
    PROVE  Settles(db, db')
<1>1. PICK stalled \in SUBSET UpdatingSlots(db) :
        db' = ScheduleWorkAlarm([Reconstructed(db, stalled) EXCEPT !.alarm = @ \/ alarm.phase # "idle"])
  BY DEF Restart
<1> DEFINE e == Reconstructed(db, stalled)
           completed(j) == [db.jobs[j] EXCEPT !.status = "completed", !.due = FALSE]
           jobs == [j \in Jobs |-> IF j \in WithStatus(db, {"releasing"}) THEN completed(j) ELSE db.jobs[j]]
<1>2. db \in Database /\ e \in Database /\ db.jobs \in [Jobs -> JobRow]
  BY ReconstructedEffect, DatabaseType DEF SchedulerTypeOK
<1>3. e.jobs = jobs
  <2> HIDE DEF jobs
  <2> QED BY <1>2 DEF Reconstructed, Database, jobs
<1>4. \A j \in Jobs : \/ jobs[j] = db.jobs[j]
                      \/ db.jobs[j].status = "releasing" /\ jobs[j].status = "completed"
  BY <1>2 DEF WithStatus, JobRow
<1> HIDE DEF e, jobs
<1>5. db'.jobs = e.jobs
  BY <1>1, <1>2 DEF ScheduleWorkAlarm, Database, e
<1> QED BY <1>3, <1>4, <1>5 DEF Settles, Settled, Over

-----------------------------------------------------------------------------
(* The pool. *)

\* What a step of the pool does to completed jobs, here and at GitHub.
Advances ==
    /\ \A j \in Jobs : github[j].status = "completed" => github'[j].status = "completed"
    /\ \A j \in Jobs : db.jobs[j].status = "completed" =>
          \/ db'.jobs[j].status = "completed"
          \/ github[j].status = "completed" /\ DeliverStarted(j)
          \/ \E row \in InRecovery : row.job = j /\ StaleRelease(row)
    /\ \A j \in Jobs : db'.jobs[j].status \in Over => db.jobs[j].status \in Over \/ github[j].status = "completed"

LEMMA SettledAdvances ==
    ASSUME UNCHANGED github, Settles(db, db')
    PROVE  Advances
BY DEF Advances, Settles, Settled

\* An instance of the workflow calls the scheduler, or does not.
LEMMA WorkflowAdvances ==
    ASSUME InOrder, NEW w \in WorkflowIds, WorkflowStep(w, w) \/ WorkflowFault(w, w)
    PROVE  Advances
<1>1. db \in Database /\ w.job \in Jobs /\ w \in RunnerNames
  BY NamesInBounds DEF InOrder, SchedulerTypeOK, WorkflowIds
<1>2. UNCHANGED github
  BY DEF WorkflowStep, WorkflowFault, Prepare, CreateJitRunner, NameInUse, StartContainer,
         AlreadyActive, RefuseContainer, poolVars
<1>3. CASE ReportCapacity(w, w) /\ UNCHANGED poolVars
  <2>1. stage[w] = "reporting" /\ db' = CapacityPrepared(db, plan[w].slot, plan[w].generation).db
    BY <1>3 DEF ReportCapacity, At, CallCapacityPrepared, Reply
  <2>2. plan[w] \in Plan
    BY <2>1 DEF InOrder, PoolNames, PlansMade, Planned
  <2>3. plan[w].slot \in Slots /\ plan[w].generation \in Nat
    BY <2>2 DEF Plan
  <2>4. db'.jobs = db.jobs
    BY <1>1, <2>1, <2>3, CapacityPreparedPreserves
  <2> QED BY <1>2, <2>4, SameJobsSettle, SettledAdvances
<1>4. CASE \/ db' = db
           \/ CallClaimProvisioning(w.job, w)
           \/ CallConfigurationReady(w.job)
           \/ CallRunnerProvisioned(w.job, w)
           \/ CallRunnerStarted(w)
           \/ CallProvisioningFailed(w.job, w)
  <2>1. \/ db' = db
        \/ db' = ClaimProvisioning(db, w.job, w)
        \/ db' = ConfigurationReady(db, w.job).db
        \/ db' = RunnerProvisioned(db, w.job, w)
        \/ db' = RunnerStarted(db, w)
        \/ db' = ProvisioningFailed(db, w.job, w).db
    BY <1>4 DEF CallClaimProvisioning, CallConfigurationReady, CallRunnerProvisioned,
                CallRunnerStarted, CallProvisioningFailed, Reply, NoAdmission
  <2>2. Settles(db, db')
    BY <1>1, <2>1, SameJobsSettle, ClaimProvisioningSettles, ConfigurationReadySettles,
       RunnerProvisionedSettles, RunnerStartedSettles, ProvisioningFailedSettles
  <2> QED BY <1>2, <2>2, SettledAdvances
<1> QED BY <1>3, <1>4
        DEF WorkflowStep, WorkflowFault, Prepare, Prepared, CreateJitRunner, JitRunnerCreated, RecordJitRunner,
            NameInUse, StartContainer, AlreadyActive, ContainerStarted, RefuseContainer,
            ContainerRefused, ClaimGranted, ClaimEnds, ReportConfiguration, CheckStart,
            ReportStarted, ReportFailure, Err, Replay, schedulerVars

\* GitHub goes on, and its deliveries say so.
LEMMA GitHubAdvances ==
    ASSUME InOrder, NEW j \in Jobs,
           \/ GitHubCompletes(j) \/ GitHubCancels(j)
           \/ \E name \in registered : GitHubAssigns(j, name)
    PROVE  Advances
<1>1. db' = db
  BY DEF GitHubCompletes, GitHubCancels, GitHubAssigns, schedulerVars
<1>2. github \in [Jobs -> GitHubJob]
  BY DEF InOrder, PoolTypes
<1>3. \A k \in Jobs : github[k].status = "completed" => github'[k].status = "completed"
  BY <1>2 DEF GitHubCompletes, GitHubCancels, GitHubAssigns, GitHubJob
<1> QED BY <1>1, <1>3 DEF Advances

LEMMA DeliveriesAdvance ==
    ASSUME InOrder, EndedAtGitHub(db, github), NEW j \in Jobs,
           DeliverQueued(j) \/ DeliverStarted(j) \/ DeliverCompleted(j) \/ HookPolls(j)
    PROVE  Advances
<1>1. db \in Database
  BY DEF InOrder, SchedulerTypeOK
<1>2. UNCHANGED github
  BY DEF DeliverQueued, DeliverStarted, DeliverCompleted, HookPolls, poolVars
<1>3. CASE DeliverQueued(j)
  <2>1. Settles(db, db')
    BY <1>1, <1>3, SubmitSettles DEF DeliverQueued, CallSubmit, Reply
  <2> QED BY <1>2, <2>1, SettledAdvances
<1>4. CASE DeliverStarted(j) \/ HookPolls(j)
  <2>1. /\ github[j].runner # None
        /\ CallWorkflowJobStarted(j, github[j].runner) \/ CallCacheAssignment(j, github[j].runner)
    BY <1>4, NamesInBounds DEF DeliverStarted, HookPolls, Live, InOrder, PoolNames, WorldNames
  <2>2. github[j].runner \in RunnerNames
    BY <2>1, NamesInBounds DEF InOrder, PoolNames, WorldNames
  <2>3. db' = WorkflowJobStarted(db, j, github[j].runner).db
    BY <2>1 DEF CallWorkflowJobStarted, CallCacheAssignment, Reply
  <2>4. /\ \A k \in Jobs \ {j} : Settled(db.jobs[k], db'.jobs[k])
        /\ db'.jobs[j].status \in Over => db.jobs[j].status \in Over
    BY <1>1, <2>2, <2>3, WorkflowJobStartedSettles
  <2>5. db.jobs[j].status = "completed" => github[j].status = "completed" /\ DeliverStarted(j)
    BY <1>4 DEF EndedAtGitHub, Over, HookPolls
  <2> QED BY <1>2, <2>4, <2>5 DEF Advances, Settled
<1>5. CASE DeliverCompleted(j)
  <2>1. github[j].status = "completed" /\ db' = WorkflowJobCompleted(db, j).db
    BY <1>5 DEF DeliverCompleted, CallWorkflowJobCompleted, Reply
  <2> QED BY <1>1, <1>2, <2>1, WorkflowJobCompletedSettles DEF Advances
<1> QED BY <1>3, <1>4, <1>5

LEMMA ContainersAdvance ==
    ASSUME InOrder,
           \/ \E c \in containers : ContainerStops(c) \/ OnStart(c.name)
           \/ \E name \in stops : OnStop(name)
    PROVE  Advances
<1>1. UNCHANGED github
  BY DEF ContainerStops, OnStart, OnStop, poolVars
<1>2. \/ db' = db
      \/ \E name : db' = RunnerStarted(db, name)
      \/ \E name : db' = RunnerStopped(db, name).db
  BY DEF ContainerStops, OnStart, OnStop, CallRunnerStarted, CallRunnerStopped, Reply,
         NoAdmission, schedulerVars
<1>3. db \in Database
  BY DEF InOrder, SchedulerTypeOK
<1>4. Settles(db, db')
  BY <1>2, <1>3, SameJobsSettle, RunnerStartedSettles, RunnerStoppedSettles
<1> QED BY <1>1, <1>4, SettledAdvances

LEMMA AlarmAdvances ==
    ASSUME InOrder, CopiesEnded, AlarmStep \/ AlarmFault \/ PoolRestart \/ \E due \in adrift : CapacityLandsLate(due)
    PROVE  Advances
<1>1. UNCHANGED github
  BY DEF AlarmStep, AlarmFault, PoolRestart, CapacityLands, CapacityAnswered, CapacityLandsLate,
         DeletionAnswered, poolVars
<1>2. db' = db \/ AlarmNext \/ Restart
  BY DEF AlarmStep, AlarmFault, PoolRestart, CapacityLands, CapacityAnswered, CapacityLandsLate,
         DeletionAnswered, AlarmNext, schedulerVars
<1>3. Recovered
  BY <1>2, SameJobsSettle, SettledIsRecovered, AlarmNextSettles, RestartSettles DEF InOrder
<1> QED BY <1>1, <1>3 DEF Advances, Recovered, CopiesEnded

LEMMA PoolAdvances ==
    ASSUME InOrder, EndedAtGitHub(db, github), CopiesEnded, [PoolNext]_vars
    PROVE  Advances
<1>1. CASE UNCHANGED vars
  BY <1>1, SameJobsSettle, SettledAdvances DEF vars, schedulerVars, poolVars
<1>2. ASSUME NEW i \in Instances, WorkflowStep(i[1], i[2]) \/ WorkflowFault(i[1], i[2])
      PROVE  Advances
  <2>1. i[1] \in WorkflowIds /\ i[2] = i[1]
    BY InstanceNames
  <2> QED BY <1>2, <2>1, WorkflowAdvances
<1>3. CASE Progress
  BY <1>2, <1>3, GitHubAdvances, DeliveriesAdvance, ContainersAdvance, AlarmAdvances DEF Progress
<1>4. CASE Fault
  BY <1>2, <1>4, GitHubAdvances, ContainersAdvance, AlarmAdvances DEF Fault
<1> QED BY <1>1, <1>3, <1>4 DEF PoolNext

\* The alarm's copies are of rows as they were when it read them.
LEMMA CopiesAreRead ==
    ASSUME SchedulerTypeOK, [Next]_schedulerVars, NEW row \in InRecovery'
    PROVE  row \in InRecovery \/ \E j \in Jobs : row.job = j /\ row.status = db.jobs[j].status
<1>1. CASE alarm' = alarm
  BY <1>1 DEF InRecovery
<1>2. CASE RecoverStoppedRunners
  <2>1. PICK S \in SUBSET Recoverable(db) :
          alarm' = [NoAlarm EXCEPT !.phase = "recovering", !.work = StoppedRows(db, S)]
    BY <1>2 DEF RecoverStoppedRunners
  <2>2. row \in StoppedRows(db, S)
    BY <2>1 DEF InRecovery, NoAlarm
  <2>3. S \subseteq Jobs
    BY DEF Recoverable, WithStatus
  <2> QED BY <2>2, <2>3 DEF StoppedRows
<1>3. CASE alarm'.phase # "recovering"
  BY <1>3 DEF InRecovery
<1>4. ASSUME NEW done \in alarm.work \cup ({alarm.current} \ {None}), NEW retry \in BOOLEAN, FinishRow(done, retry)
      PROVE  row \in InRecovery \/ alarm'.phase # "recovering"
  <2>1. PICK reply : RowDone(done, reply)
    BY <1>4 DEF FinishRow
  <2>2. /\ alarm'.phase = alarm.phase /\ alarm'.current = None
        /\ alarm'.work = alarm.work \ {done}
    BY <2>1 DEF RowDone, SchedulerTypeOK, AlarmType
  <2> QED BY <2>2 DEF InRecovery
<1>5. CASE DeleteRunner
  <2>1. PICK r \in alarm.work : alarm' = [alarm EXCEPT !.work = @ \ {r}, !.current = r]
    BY <1>5 DEF DeleteRunner
  <2>2. alarm'.phase = alarm.phase /\ alarm'.current = r /\ alarm'.work = alarm.work \ {r}
    BY <2>1 DEF SchedulerTypeOK, AlarmType
  <2> QED BY <2>1, <2>2 DEF InRecovery
<1>6. CASE \E gone \in BOOLEAN : RunnerDeleted(gone)
  <2>1. PICK gone \in BOOLEAN : RunnerDeleted(gone)
    BY <1>6
  <2>2. alarm.current # None /\ FinishRow(alarm.current, ~gone) /\ (~gone) \in BOOLEAN
    BY <2>1 DEF RunnerDeleted
  <2>3. alarm.current \in alarm.work \cup ({alarm.current} \ {None})
    BY <2>2
  <2> QED BY <1>3, <1>4, <2>2, <2>3
<1>7. CASE NothingToDelete
  <2>1. PICK r \in alarm.work : FinishRow(r, FALSE)
    BY <1>7 DEF NothingToDelete
  <2>2. r \in alarm.work \cup ({alarm.current} \ {None}) /\ FALSE \in BOOLEAN
    OBVIOUS
  <2> QED BY <1>3, <1>4, <2>1, <2>2
<1>8. CASE RetryCleanups \/ PlanCapacityUpdates \/ CheckCapacityHolds \/ AlarmEnds \/ Restart
  <2>1. CASE AlarmEnds \/ Restart
    <3>1. alarm' = NoAlarm
      BY <2>1 DEF AlarmEnds, Restart
    <3> QED BY <1>3, <3>1 DEF NoAlarm
  <2>2. CASE RetryCleanups
    <3>1. \E S : alarm' = [alarm EXCEPT !.phase = "cleaning", !.work = StoppedRows(db, S)]
      BY <2>2 DEF RetryCleanups
    <3> QED BY <1>3, <3>1 DEF SchedulerTypeOK, AlarmType
  <2>3. CASE PlanCapacityUpdates
    <3>1. \E work : alarm' = [alarm EXCEPT !.phase = "updating", !.work = work]
      BY <2>3 DEF PlanCapacityUpdates
    <3> QED BY <1>3, <3>1 DEF SchedulerTypeOK, AlarmType
  <2>4. CASE CheckCapacityHolds
    <3>1. alarm' = [alarm EXCEPT !.phase = "holding", !.work = HeldSlots(db)]
      BY <2>4 DEF CheckCapacityHolds
    <3> QED BY <1>3, <3>1 DEF SchedulerTypeOK, AlarmType
  <2> QED BY <1>8, <2>1, <2>2, <2>3, <2>4
<1>9. CASE StartCapacityUpdate \/ (\E succeeded \in BOOLEAN : FinishCapacityUpdate(succeeded)) \/ CheckCapacityHold
  <2>1. alarm'.phase = alarm.phase /\ alarm.phase # "recovering"
    BY <1>9 DEF StartCapacityUpdate, FinishCapacityUpdate, CheckCapacityHold, SchedulerTypeOK, AlarmType
  <2> QED BY <1>3, <2>1
<1>10. CASE Call
  <2>1. alarm' = alarm
    BY <1>10 DEF Call, CallSubmit, CallWorkflowJobCompleted, CallConfigurationReady, CallWorkflowJobStarted,
                 CallCacheAssignment, CallClaimProvisioning, CallRunnerProvisioned, CallProvisioningFailed,
                 CallRunnerStarted, CallRunnerStopped, CallCapacityPrepared, Reply
  <2> QED BY <1>1, <2>1
<1>11. CASE UNCHANGED schedulerVars
  BY <1>1, <1>11 DEF schedulerVars
<1> QED BY <1>2, <1>5, <1>6, <1>7, <1>8, <1>9, <1>10, <1>11 DEF Next, AlarmNext

-----------------------------------------------------------------------------
(* The theorems. *)

\* The inductive invariant.
LEMMA ClosedJobsInvariant == PoolSpec => [](EndedAtGitHub(db, github) /\ CopiesEnded)
<1>1. PoolInit => EndedAtGitHub(db, github) /\ CopiesEnded
  <2> SUFFICES ASSUME PoolInit PROVE EndedAtGitHub(db, github) /\ CopiesEnded
    OBVIOUS
  <2>1. db.jobs = [k \in Jobs |-> NoJobRow(k)] /\ alarm = NoAlarm
    BY DEF PoolInit, Init
  <2>2. \A j \in Jobs : db.jobs[j].status \notin Over
    BY <2>1 DEF NoJobRow, Over
  <2>3. InRecovery = {}
    BY <2>1 DEF InRecovery, NoAlarm
  <2> QED BY <2>2, <2>3 DEF EndedAtGitHub, CopiesEnded
<1>2. InOrder /\ EndedAtGitHub(db, github) /\ CopiesEnded /\ [PoolNext]_vars
        => EndedAtGitHub(db, github)' /\ CopiesEnded'
  <2> SUFFICES ASSUME InOrder, EndedAtGitHub(db, github), CopiesEnded, [PoolNext]_vars
               PROVE  EndedAtGitHub(db, github)' /\ CopiesEnded'
    OBVIOUS
  <2>1. Advances /\ [Next]_schedulerVars
    BY PoolAdvances, PoolStaysInOrder
  <2>2. ASSUME NEW row \in InRecovery', row.status = "releasing" PROVE github'[row.job].status = "completed"
    <3>1. row \in InRecovery \/ \E j \in Jobs : row.job = j /\ row.status = db.jobs[j].status
      BY <2>1, CopiesAreRead DEF InOrder
    <3>2. row.job \in Jobs
      <4>1. row \in InRecovery => row \in StoppedRow
        BY DEF InRecovery, InOrder, SchedulerTypeOK, AlarmType
      <4> QED BY <3>1, <4>1 DEF StoppedRow
    <3>3. github[row.job].status = "completed"
      BY <2>2, <3>1 DEF CopiesEnded, EndedAtGitHub, Over
    <3> QED BY <2>1, <3>2, <3>3 DEF Advances
  <2> QED BY <2>1, <2>2 DEF Advances, EndedAtGitHub, CopiesEnded
<1> QED BY <1>1, <1>2, PoolIsInOrder, PTL DEF PoolSpec

\* A row is closed only when its job is over at GitHub, whatever the alarm, the
\* constructor, a Container that stops and deliveries that come late make of it.
THEOREM ClosedJobsEndedAtGitHub == PoolSpec => []EndedAtGitHub(db, github)
BY ClosedJobsInvariant, PTL

\* No job comes back to life that the scheduler has completed: not through the hook, a
\* retry, a stop or the constructor, only through its own late assignment or through
\* the release of a stale row of it.
THEOREM CompletedJobsAreOver == PoolSpec => CompletedJobsStayCompleted
<1>1. InOrder /\ EndedAtGitHub(db, github) /\ CopiesEnded /\ [PoolNext]_vars
        => [\A j \in Jobs : db.jobs[j].status = "completed" =>
               \/ db'.jobs[j].status = "completed"
               \/ github[j].status = "completed" /\ DeliverStarted(j)
               \/ \E row \in InRecovery : row.job = j /\ StaleRelease(row)]_vars
  BY PoolAdvances DEF Advances
<1> QED BY <1>1, PoolIsInOrder, ClosedJobsInvariant, PTL DEF PoolSpec, CompletedJobsStayCompleted
=============================================================================
