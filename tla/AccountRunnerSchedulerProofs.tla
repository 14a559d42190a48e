-------------------- MODULE AccountRunnerSchedulerProofs --------------------
(***************************************************************************)
(* The scheduler's type invariant and its reservation invariant, for every *)
(* account, set of jobs, profiles and slots.                               *)
(***************************************************************************)
EXTENDS AccountRunnerScheduler, FiniteSetTheorems, TLAPS

-----------------------------------------------------------------------------
(* What the planner and the slot selection return. *)

\* A planned reduction names a slot and a target ceiling.
LEMMA PlannedReductionsType ==
    ASSUME NEW slots \in [Slots -> SlotRow], NEW released, NEW t, NEW p, NEW n
    PROVE  PlannedReductions(slots, released, t, p, n) \subseteq [slot : Slots, target : Nat]
  BY DEF PlannedReductions, Donors, SlotRow

\* Whatever slot is selected for a profile is one of the scheduler's slots.
LEMMA SelectSlotType ==
    ASSUME NEW d \in Database, NEW p \in Profiles
    PROVE  SelectSlot(d, p) \subseteq [slot : Slots, configure : BOOLEAN]
<1>1. CASE PresetSlot[p] # None
  BY <1>1, SchedulerAssumption DEF SelectSlot
<1>2. CASE PresetSlot[p] = None
  <2> DEFINE matching == MatchingSlots(d.slots, CustomSlots, p)
             least == LeastReserved(d.slots, matching)
             first == FirstById(IdleSlots(d.slots, CustomSlots))
  <2>1. least \subseteq Slots
    BY DEF LeastReserved, MatchingSlots, CustomSlots
  <2>2. first \subseteq Slots
    BY DEF FirstById, IdleSlots, CustomSlots
  <2>3. SelectSlot(d, p) = IF matching # {}
                           THEN {[slot |-> s, configure |-> FALSE] : s \in least}
                           ELSE {[slot |-> s, configure |-> TRUE] : s \in first}
    BY <1>2 DEF SelectSlot, SelectCustomSlot
  <2> HIDE DEF matching, least, first
  <2>4. \A s \in Slots, b \in BOOLEAN :
          [slot |-> s, configure |-> b] \in [slot : Slots, configure : BOOLEAN]
    OBVIOUS
  <2>. QED
    <3>1. \A s \in least : [slot |-> s, configure |-> FALSE] \in [slot : Slots, configure : BOOLEAN]
      BY <2>1, <2>4
    <3>2. \A s \in first : [slot |-> s, configure |-> TRUE] \in [slot : Slots, configure : BOOLEAN]
      BY <2>2, <2>4
    <3>3. CASE matching # {}
      <4>1. SelectSlot(d, p) = {[slot |-> s, configure |-> FALSE] : s \in least}
        BY <2>3, <3>3
      <4>. QED
        BY <3>1, <4>1
    <3>4. CASE matching = {}
      <4>1. SelectSlot(d, p) = {[slot |-> s, configure |-> TRUE] : s \in first}
        BY <2>3, <3>4
      <4>. QED
        BY <3>2, <4>1
    <3>. QED
      BY <3>3, <3>4
<1>. QED
  BY <1>1, <1>2

\* The job that can be admitted now is queued.
LEMMA NextAdmissionType ==
    ASSUME NEW d \in Database, NEW a \in NextAdmission(d)
    PROVE  /\ a.job \in Jobs /\ d.jobs[a.job].status = "queued"
           /\ a.slot \in Slots /\ a.configure \in BOOLEAN
<1>1. PICK j \in FirstRows(d, WithStatus(d, {"queued"})) :
        \E c \in SelectSlot(d, JobProfile[j]) :
          a = [job |-> j, slot |-> c.slot, configure |-> c.configure]
  BY DEF NextAdmission
<1>2. j \in Jobs /\ d.jobs[j].status = "queued"
  BY DEF FirstRows, WithStatus
<1>3. JobProfile[j] \in Profiles
  BY <1>2, SchedulerAssumption
<1>. QED
  BY <1>1, <1>2, <1>3, SelectSlotType

-----------------------------------------------------------------------------
(* Admission. *)

LEMMA DatabaseType ==
    ASSUME NEW d \in Database
    PROVE  /\ d.jobs \in [Jobs -> JobRow] /\ d.slots \in [Slots -> SlotRow]
           /\ d.operations \in SUBSET Operation /\ d.jitRunners \in SUBSET JitRunner
           /\ d.releasedBefore \in SUBSET (Slots \X Slots) /\ d.alarm \in BOOLEAN
  BY DEF Database

\* Scheduling reclamations leaves the jobs and the reservations alone.
LEMMA ReclamationEffect ==
    ASSUME NEW d \in Database, NEW reductions \in SUBSET [slot : Slots, target : Nat]
    PROVE  LET e == ScheduleCapacityReclamation(d, reductions)
           IN  /\ e \in Database
               /\ e.jobs = d.jobs
               /\ \A s \in Slots : e.slots[s].reserved = d.slots[s].reserved
<1> DEFINE taken == {r \in reductions : Reclaimable(d.slots[r.slot], r.target)}
           donors == {r.slot : r \in taken}
           target(s) == (CHOOSE r \in taken : r.slot = s).target
           slots == [s \in Slots |->
               IF s \in donors
               THEN [d.slots[s] EXCEPT !.desired = target(s), !.generation = @ + 1]
               ELSE d.slots[s]]
           new == {[slot |-> s, generation |-> d.slots[s].generation + 1,
                    target |-> target(s)] : s \in donors}
<1>1. donors \subseteq Slots /\ \A s \in donors : target(s) \in Nat
  OBVIOUS
<1>2. slots \in [Slots -> SlotRow] /\ \A s \in Slots : slots[s].reserved = d.slots[s].reserved
  <2>1. d.slots \in [Slots -> SlotRow]
    BY DatabaseType
  <2> HIDE DEF taken, donors, target
  <2>2. ASSUME NEW s \in Slots
        PROVE  slots[s] \in SlotRow /\ slots[s].reserved = d.slots[s].reserved
    <3>1. d.slots[s] \in SlotRow /\ d.slots[s].generation + 1 \in Nat
      BY <2>1 DEF SlotRow
    <3>3. CASE s \in donors
      <4>1. slots[s] = [d.slots[s] EXCEPT !.desired = target(s),
                                          !.generation = d.slots[s].generation + 1]
        BY <3>3, <3>1 DEF SlotRow
      <4> DEFINE row == d.slots[s]
                 m == row.generation + 1
                 n == target(s)
      <4>2. row \in SlotRow /\ m \in Nat /\ n \in Nat
        BY <1>1, <3>1, <3>3
      <4> HIDE DEF row, m, n
      <4>3. LET e == [row EXCEPT !.desired = n, !.generation = m]
            IN  e \in SlotRow /\ e.reserved = row.reserved
        BY <4>2 DEF SlotRow
      <4>. QED
        BY <4>1, <4>3 DEF row, m, n
    <3>4. CASE s \notin donors
      BY <3>1, <3>4
    <3>. QED
      BY <3>3, <3>4
  <2>. QED
    BY <2>2
<1>3. new \subseteq Operation
  BY <1>1, DatabaseType DEF Operation, SlotRow
<1>4. ScheduleCapacityReclamation(d, reductions)
        = [d EXCEPT !.slots = slots, !.operations = @ \cup new]
  BY DEF ScheduleCapacityReclamation
<1> HIDE DEF slots, new
<1>. QED
  BY <1>2, <1>3, <1>4, DatabaseType DEF Database

LEMMA AdmissionForType ==
    ASSUME NEW d \in Database, NEW j \in Jobs
    PROVE  AdmissionFor(d, j) \in Admission
  BY DatabaseType DEF AdmissionFor, Admission, JobRow

\* The ceiling asked for is a number.
LEMMA TargetMaxInstancesType ==
    ASSUME NEW row \in SlotRow, NEW configure
    PROVE  TargetMaxInstances(row, configure) \in Nat
  BY DEF TargetMaxInstances, RequiredMaxInstances, SlotRow

\* An admission moves one queued job onto one slot and reserves one instance there.
LEMMA AdmitEffect ==
    ASSUME NEW d \in Database, NEW a \in NextAdmission(d)
    PROVE  LET e == Admit(d, a).db
           IN  /\ e \in Database
               /\ Admit(d, a).admissions \subseteq Admission
               /\ e.jobs = [d.jobs EXCEPT ![a.job] = [@ EXCEPT !.status = "admitted", !.slot = a.slot]]
               /\ e.slots[a.slot].reserved = d.slots[a.slot].reserved + 1
               /\ \A s \in Slots \ {a.slot} : e.slots[s].reserved = d.slots[s].reserved
<1> DEFINE profile == JobProfile[a.job]
           row == d.slots[a.slot]
           target == TargetMaxInstances(row, a.configure)
           reductions == PlannedReductions(d.slots, d.releasedBefore, a.slot, profile, target)
           generation == row.generation + 1
           configuring == a.configure \/ row.state = "configuring"
           increase == ~configuring /\ target > row.applied
           deferred == configuring \/ row.updating \/ increase \/ reductions # {}
           reclaiming == ScheduleCapacityReclamation(d, reductions)
           newProfile == IF configuring THEN row.profile ELSE profile
           newState == IF configuring THEN "configuring" ELSE row.state
           newOwner == IF a.configure THEN a.job ELSE row.owner
           newReserved == row.reserved + 1
           newPending == IF configuring THEN profile ELSE None
           newHold == configuring /\ reductions # {}
           newRow == [row EXCEPT !.profile = newProfile, !.state = newState, !.owner = newOwner,
                                 !.reserved = newReserved, !.desired = target,
                                 !.pending = newPending, !.reclaimPending = newHold,
                                 !.generation = generation]
           newOperations == IF increase \/ configuring \/ row.updating
                            THEN RecordCapacityOperation(reclaiming.operations, a.slot, generation, target)
                            ELSE reclaiming.operations
           newJob == [reclaiming.jobs[a.job] EXCEPT !.status = "admitted", !.slot = a.slot]
<1>1. /\ a.job \in Jobs /\ a.slot \in Slots /\ a.configure \in BOOLEAN
      /\ profile \in Profiles
  BY NextAdmissionType, SchedulerAssumption
<1>2. row \in SlotRow /\ target \in Nat /\ generation \in Nat
  <2>1. row \in SlotRow
    BY <1>1, DatabaseType
  <2>. QED
    BY <2>1, TargetMaxInstancesType DEF SlotRow
<1>3. reductions \in SUBSET [slot : Slots, target : Nat]
  BY PlannedReductionsType, DatabaseType
<1>4. /\ reclaiming \in Database /\ reclaiming.jobs = d.jobs
      /\ \A s \in Slots : reclaiming.slots[s].reserved = d.slots[s].reserved
  BY <1>3, ReclamationEffect
<1>5. newRow \in SlotRow /\ newRow.reserved = row.reserved + 1
  <2>1. /\ newProfile \in Profiles \cup {None} /\ newState \in CONFIGURATION_STATES
        /\ newOwner \in Jobs \cup {None} /\ newReserved \in Nat
        /\ newPending \in Profiles \cup {None} /\ newHold \in BOOLEAN
    <3>1. /\ newProfile \in Profiles \cup {None}
          /\ newState \in CONFIGURATION_STATES
      BY <1>1, <1>2 DEF SlotRow, CONFIGURATION_STATES
    <3>2. newOwner \in Jobs \cup {None} /\ newReserved \in Nat
      BY <1>1, <1>2 DEF SlotRow
    <3>3. newPending \in Profiles \cup {None} /\ newHold \in BOOLEAN
      BY <1>1
    <3>. QED
      BY <3>1, <3>2, <3>3
  <2>2. row.reserved + 1 = newReserved
    OBVIOUS
  <2> HIDE DEF row, target, generation, newProfile, newState, newOwner, newReserved, newPending, newHold
  <2>. QED
    BY <1>2, <2>1, <2>2 DEF SlotRow
<1>6. newOperations \in SUBSET Operation
  <2>1. reclaiming.operations \in SUBSET Operation
    BY <1>4, DatabaseType
  <2> HIDE DEF reclaiming, target, generation
  <2>. QED
    BY <1>1, <1>2, <2>1 DEF RecordCapacityOperation, Operation
<1>7. newJob \in JobRow
  <2>1. reclaiming.jobs[a.job] \in JobRow
    BY <1>1, <1>4, DatabaseType
  <2> HIDE DEF reclaiming
  <2>. QED
    BY <1>1, <2>1 DEF JobRow, JobStatus, ACTIVE_JOB_STATES
<1>8. Admit(d, a).db = [reclaiming EXCEPT !.slots[a.slot] = newRow,
                                          !.operations = newOperations,
                                          !.jobs[a.job] = newJob]
  BY DEF Admit, AdmitFor, AdmitWith
<1>9. Admit(d, a).admissions \subseteq Admission
  <2>1. AdmissionFor(d, a.job) \in Admission
    BY <1>1, AdmissionForType
  <2>2. Admit(d, a).admissions = IF a.configure \/ ~deferred THEN {AdmissionFor(d, a.job)} ELSE {}
    BY DEF Admit, AdmitFor, AdmitWith
  <2>. QED
    BY <2>1, <2>2
<1>10. newJob = [d.jobs[a.job] EXCEPT !.status = "admitted", !.slot = a.slot]
  BY <1>4
<1> HIDE DEF reclaiming, newRow, newOperations, newJob
<1>11. LET e == Admit(d, a).db
       IN  /\ e.jobs = [reclaiming.jobs EXCEPT ![a.job] = newJob]
           /\ e.slots = [reclaiming.slots EXCEPT ![a.slot] = newRow]
           /\ e \in Database
  <2>1. /\ [reclaiming.jobs EXCEPT ![a.job] = newJob] \in [Jobs -> JobRow]
        /\ [reclaiming.slots EXCEPT ![a.slot] = newRow] \in [Slots -> SlotRow]
    BY <1>1, <1>4, <1>5, <1>7, DatabaseType
  <2>. QED
    BY <1>4, <1>6, <1>8, <2>1 DEF Database
<1>. QED
  BY <1>1, <1>4, <1>5, <1>9, <1>10, <1>11, DatabaseType

-----------------------------------------------------------------------------
(* What an operation must keep: the types, and the bookkeeping of reservations. *)

\* A job that waits holds no slot, so only its admission adds it to one.
Waiting(d) == \A j \in WithStatus(d, {"unknown", "queued"}) : d.jobs[j].slot = None

\* The bookkeeping, as far as the slots of T go.
Consistent(d, T) == Waiting(d) /\ \A s \in T : CoveredOn(d, s)
Keeps(d, e) == \A T \in SUBSET Slots : Consistent(d, T) => Consistent(e, T)

Preserves(d, reply) ==
    /\ reply.db \in Database
    /\ reply.admissions \subseteq Admission
    /\ Keeps(d, reply.db)

SameJobs(d, e) ==
    /\ e.jobs = d.jobs
    /\ \A s \in Slots : e.slots[s].reserved = d.slots[s].reserved

LEMMA ActiveOnType ==
    ASSUME NEW d, NEW s
    PROVE  IsFiniteSet(ActiveOn(d, s)) /\ Cardinality(ActiveOn(d, s)) \in Nat
<1>1. ActiveOn(d, s) \in SUBSET Jobs
  BY DEF ActiveOn, Active, WithStatus
<1>. QED
  BY <1>1, SchedulerAssumption, FS_Subset, FS_CardinalityType

LEMMA SameJobsConsistent ==
    ASSUME NEW d, NEW e, SameJobs(d, e)
    PROVE  Keeps(d, e)
  BY DEF SameJobs, Keeps, Consistent, CoveredOn, Waiting, ActiveOn, Active, WithStatus

LEMMA KeepsItself ==
    ASSUME NEW d
    PROVE  Keeps(d, d)
  BY DEF Keeps

\* Fewer active jobs on a slot with as many reservations stay covered.
LEMMA FewerStayCovered ==
    ASSUME NEW d \in Database, NEW e \in Database, NEW s \in Slots,
           CoveredOn(d, s), ActiveOn(e, s) \subseteq ActiveOn(d, s),
           e.slots[s].reserved >= d.slots[s].reserved
    PROVE  CoveredOn(e, s)
<1>1. Cardinality(ActiveOn(e, s)) <= Cardinality(ActiveOn(d, s))
  BY ActiveOnType, FS_Subset
<1>2. d.slots[s].reserved \in Nat /\ e.slots[s].reserved \in Nat
  BY DatabaseType DEF SlotRow
<1>. QED
  BY <1>1, <1>2, ActiveOnType DEF CoveredOn

LEMMA AddAtMostOne ==
    ASSUME NEW S, NEW x, IsFiniteSet(S)
    PROVE  /\ IsFiniteSet(S \cup {x})
           /\ Cardinality(S \cup {x}) \in Nat
           /\ Cardinality(S \cup {x}) <= Cardinality(S) + 1
<1>1. Cardinality(S) \in Nat
  BY FS_CardinalityType
<1>2. /\ IsFiniteSet(S \cup {x})
      /\ Cardinality(S \cup {x}) = IF x \in S THEN Cardinality(S) ELSE Cardinality(S) + 1
  BY FS_AddElement
<1>. QED
  BY <1>1, <1>2

\* One more job with one more reservation.
LEMMA OneMoreStaysCovered ==
    ASSUME NEW d \in Database, NEW e \in Database, NEW s \in Slots, NEW j,
           CoveredOn(d, s), ActiveOn(e, s) \subseteq ActiveOn(d, s) \cup {j},
           e.slots[s].reserved = d.slots[s].reserved + 1
    PROVE  CoveredOn(e, s)
<1>1. /\ IsFiniteSet(ActiveOn(d, s) \cup {j})
      /\ Cardinality(ActiveOn(d, s) \cup {j}) <= Cardinality(ActiveOn(d, s)) + 1
      /\ Cardinality(ActiveOn(d, s) \cup {j}) \in Nat
  BY ActiveOnType, AddAtMostOne
<1>2. Cardinality(ActiveOn(e, s)) <= Cardinality(ActiveOn(d, s) \cup {j})
  BY <1>1, FS_Subset
<1>3. d.slots[s].reserved \in Nat /\ e.slots[s].reserved \in Nat
  BY DatabaseType DEF SlotRow
<1>. QED
  BY <1>1, <1>2, <1>3, ActiveOnType DEF CoveredOn

\* One job less with one reservation less.
LEMMA OneLessStaysCovered ==
    ASSUME NEW d \in Database, NEW e \in Database, NEW s \in Slots, NEW j \in ActiveOn(d, s),
           CoveredOn(d, s), ActiveOn(e, s) \subseteq ActiveOn(d, s) \ {j},
           e.slots[s].reserved >= d.slots[s].reserved - 1
    PROVE  CoveredOn(e, s)
<1>1. /\ IsFiniteSet(ActiveOn(d, s) \ {j})
      /\ Cardinality(ActiveOn(d, s) \ {j}) = Cardinality(ActiveOn(d, s)) - 1
  BY ActiveOnType, FS_RemoveElement
<1>2. Cardinality(ActiveOn(e, s)) <= Cardinality(ActiveOn(d, s) \ {j})
  BY <1>1, FS_Subset
<1>3. d.slots[s].reserved \in Nat /\ e.slots[s].reserved \in Nat
  BY DatabaseType DEF SlotRow
<1>. QED
  BY <1>1, <1>2, <1>3, ActiveOnType DEF CoveredOn

\* One job in the place of another.
LEMMA SwapStaysCovered ==
    ASSUME NEW d \in Database, NEW e \in Database, NEW s \in Slots, NEW j, NEW k \in ActiveOn(d, s),
           CoveredOn(d, s), ActiveOn(e, s) \subseteq (ActiveOn(d, s) \ {k}) \cup {j},
           e.slots[s].reserved = d.slots[s].reserved
    PROVE  CoveredOn(e, s)
<1> DEFINE rest == ActiveOn(d, s) \ {k}
<1>1. IsFiniteSet(rest) /\ Cardinality(rest) = Cardinality(ActiveOn(d, s)) - 1
  BY ActiveOnType, FS_RemoveElement
<1>2. /\ IsFiniteSet(rest \cup {j})
      /\ Cardinality(rest \cup {j}) <= Cardinality(rest) + 1
      /\ Cardinality(rest \cup {j}) \in Nat /\ Cardinality(rest) \in Nat
  BY <1>1, AddAtMostOne, FS_CardinalityType
<1>3. Cardinality(ActiveOn(e, s)) <= Cardinality(rest \cup {j})
  BY <1>2, FS_Subset
<1>4. d.slots[s].reserved \in Nat /\ e.slots[s].reserved \in Nat
  BY DatabaseType DEF SlotRow
<1>. QED
  BY <1>1, <1>2, <1>3, <1>4, ActiveOnType DEF CoveredOn

\* Admission keeps everything, and touches no job but one that was queued.
LEMMA AdmitNextPreserves ==
    ASSUME NEW d \in Database
    PROVE  /\ Preserves(d, AdmitNext(d))
           /\ \A j \in Jobs : d.jobs[j].status # "queued" => AdmitNext(d).db.jobs[j] = d.jobs[j]
<1>1. CASE NextAdmission(d) = {}
  BY <1>1 DEF AdmitNext, AdmitOneOf, NoAdmission, Preserves, Keeps
<1>2. CASE NextAdmission(d) # {}
  <2> DEFINE a == CHOOSE b \in NextAdmission(d) : TRUE
             e == Admit(d, a).db
  <2>1. a \in NextAdmission(d) /\ AdmitNext(d) = Admit(d, a)
    BY <1>2 DEF AdmitNext, AdmitOneOf
  <2> HIDE DEF a
  <2>2. /\ e \in Database /\ Admit(d, a).admissions \subseteq Admission
        /\ e.jobs = [d.jobs EXCEPT ![a.job] = [@ EXCEPT !.status = "admitted", !.slot = a.slot]]
        /\ e.slots[a.slot].reserved = d.slots[a.slot].reserved + 1
        /\ \A s \in Slots \ {a.slot} : e.slots[s].reserved = d.slots[s].reserved
    BY <2>1, AdmitEffect
  <2>3. a.job \in Jobs /\ a.slot \in Slots /\ d.jobs[a.job].status = "queued"
    BY <2>1, NextAdmissionType
  <2> HIDE DEF e
  <2>4. ASSUME NEW j \in Jobs, j # a.job
        PROVE  e.jobs[j] = d.jobs[j]
    BY <2>2, <2>4, DatabaseType
  <2>5. e.jobs[a.job].status = "admitted" /\ e.jobs[a.job].slot = a.slot
    BY <2>2, <2>3, DatabaseType DEF JobRow
  <2>6. ASSUME NEW T \in SUBSET Slots, Consistent(d, T)
        PROVE  Consistent(e, T)
    <3>1. Waiting(e)
      BY <2>4, <2>5, <2>6 DEF Consistent, Waiting, WithStatus
    <3>2. ASSUME NEW s \in T
          PROVE  CoveredOn(e, s)
      <4>1. CASE s = a.slot
        <5>1. ActiveOn(e, s) \subseteq ActiveOn(d, s) \cup {a.job}
          BY <2>4 DEF ActiveOn, Active, WithStatus
        <5>. QED
          BY <2>2, <2>6, <4>1, <5>1, OneMoreStaysCovered DEF Consistent
      <4>2. CASE s # a.slot
        <5>1. ActiveOn(e, s) \subseteq ActiveOn(d, s)
          BY <2>4, <2>5, <4>2 DEF ActiveOn, Active, WithStatus
        <5>2. e.slots[s].reserved >= d.slots[s].reserved
          BY <2>2, <4>2, DatabaseType DEF SlotRow
        <5>. QED
          BY <2>2, <2>6, <5>1, <5>2, FewerStayCovered DEF Consistent
      <4>. QED
        BY <4>1, <4>2
    <3>. QED
      BY <3>1, <3>2 DEF Consistent
  <2>7. Preserves(d, AdmitNext(d))
    BY <2>1, <2>2, <2>6 DEF Preserves, Keeps, e
  <2>. QED
    BY <2>1, <2>3, <2>4, <2>7 DEF e
<1>. QED
  BY <1>1, <1>2

\* scheduleWorkAlarmIfNeeded sets nothing but the alarm.
LEMMA ScheduleWorkAlarmEffect ==
    ASSUME NEW d \in Database
    PROVE  ScheduleWorkAlarm(d) \in Database /\ SameJobs(d, ScheduleWorkAlarm(d))
<1>1. (d.alarm \/ WorkPending(d)) \in BOOLEAN
  OBVIOUS
<1>. QED
  BY <1>1 DEF ScheduleWorkAlarm, SameJobs, Database

\* An operation that ends in admitNext and scheduleWorkAlarmIfNeeded keeps what its
\* own updates keep.
LEMMA ThenAdmitNextPreserves ==
    ASSUME NEW d \in Database, NEW m \in Database, Keeps(d, m)
    PROVE  Preserves(d, ThenAdmitNext(m))
<1> DEFINE reply == AdmitNext(m)
<1>1. Preserves(m, reply)
  BY AdmitNextPreserves
<1>2. /\ ThenAdmitNext(m).db = ScheduleWorkAlarm(reply.db)
      /\ ThenAdmitNext(m).admissions = reply.admissions
  BY DEF ThenAdmitNext, AdmitNext, AdmitOneOf, NoAdmission, Admit, AdmitFor, AdmitWith
<1> HIDE DEF reply
<1>3. ScheduleWorkAlarm(reply.db) \in Database /\ SameJobs(reply.db, ScheduleWorkAlarm(reply.db))
  BY <1>1, ScheduleWorkAlarmEffect DEF Preserves
<1>. QED
  BY <1>1, <1>2, <1>3, SameJobsConsistent DEF Preserves, Keeps

LEMMA NoAdmissionPreserves ==
    ASSUME NEW d \in Database, NEW m \in Database, Keeps(d, m)
    PROVE  /\ Preserves(d, NoAdmission(m))
           /\ Preserves(d, NoAdmission(ScheduleWorkAlarm(m)))
  BY ScheduleWorkAlarmEffect, SameJobsConsistent DEF NoAdmission, Preserves, Keeps

\* An update that gives no job a slot, and puts no holder of one back in the queue.
LEMMA NoNewHolder ==
    ASSUME NEW d \in Database, NEW e \in Database,
           NEW T \in SUBSET Slots, Consistent(d, T),
           \A j \in Jobs :
               /\ e.jobs[j].status \in ACTIVE_JOB_STATES =>
                      \/ e.jobs[j].slot = None
                      \/ d.jobs[j].status \in ACTIVE_JOB_STATES /\ e.jobs[j].slot = d.jobs[j].slot
               /\ e.jobs[j].status \in {"unknown", "queued"} => e.jobs[j].slot = None,
           \A s \in Slots : e.slots[s].reserved = d.slots[s].reserved
    PROVE  Consistent(e, T)
<1>1. Waiting(e)
  BY DEF Waiting, WithStatus
<1>2. ASSUME NEW s \in T
      PROVE  CoveredOn(e, s)
  <2>1. ActiveOn(e, s) \subseteq ActiveOn(d, s)
    BY PolicyAssumption DEF ActiveOn, Active, WithStatus
  <2>2. e.slots[s].reserved >= d.slots[s].reserved
    BY DatabaseType DEF SlotRow
  <2>. QED
    BY <2>1, <2>2, FewerStayCovered DEF Consistent
<1>. QED
  BY <1>1, <1>2 DEF Consistent

-----------------------------------------------------------------------------
(* Release. *)

LEMMA ReleasedSlotType ==
    ASSUME NEW row \in SlotRow, NEW n \in Nat
    PROVE  ReleasedSlot(row, n) \in SlotRow /\ ReleasedSlot(row, n).reserved = n
<1> DEFINE desired == Larger(row.applied, n)
           abandoned == n = 0 /\ row.state = "configuring"
           newState == IF abandoned THEN "idle" ELSE row.state
           newOwner == IF abandoned THEN None ELSE row.owner
<1>1. /\ desired \in Nat /\ newState \in CONFIGURATION_STATES /\ newOwner \in Jobs \cup {None}
  BY DEF Larger, SlotRow, CONFIGURATION_STATES
<1>2. ReleasedSlot(row, n) = [row EXCEPT !.reserved = n, !.desired = desired,
                                         !.state = newState, !.owner = newOwner]
  BY DEF ReleasedSlot
<1> HIDE DEF desired, newState, newOwner
<1>. QED
  BY <1>1, <1>2 DEF SlotRow

\* releaseJob ends one job and takes at most one reservation from its slot.
ReleasesOne(d, e, j, slot, status) ==
    /\ e \in Database
    /\ e.jobs[j].status = status
    /\ \A k \in Jobs \ {j} : e.jobs[k] = d.jobs[k]
    /\ \A s \in Slots \ {slot} : e.slots[s].reserved = d.slots[s].reserved
    /\ slot # None => e.slots[slot].reserved >= d.slots[slot].reserved - 1

LEMMA ReleaseJobEffect ==
    ASSUME NEW d \in Database, NEW j \in Jobs, NEW slot \in Slots \cup {None},
           NEW status \in {"completed", "cancelled", "failed"}
    PROVE  ReleasesOne(d, ReleaseJob(d, j, slot, status), j, slot, status)
<1> DEFINE ended == [d.jobs[j] EXCEPT !.status = status, !.due = FALSE]
           jobs == [d.jobs EXCEPT ![j] = ended]
<1>1. ended \in JobRow /\ ended.status = status
  <2>1. d.jobs[j] \in JobRow
    BY DatabaseType
  <2>. QED
    BY <2>1 DEF JobRow, JobStatus
<1> HIDE DEF ended
<1>2. jobs \in [Jobs -> JobRow] /\ jobs[j] = ended /\ \A k \in Jobs \ {j} : jobs[k] = d.jobs[k]
  BY <1>1, DatabaseType
<1>3. CASE slot = None
  <2>1. ReleaseJob(d, j, slot, status) = [d EXCEPT !.jobs = jobs]
    BY <1>3 DEF ReleaseJob, ended
  <2> HIDE DEF jobs
  <2>. QED
    BY <1>1, <1>2, <1>3, <2>1 DEF Database, ReleasesOne
<1>4. CASE slot # None
  <2> DEFINE n == IF d.slots[slot].reserved > 0 THEN d.slots[slot].reserved - 1 ELSE 0
             slots == [d.slots EXCEPT ![slot] = ReleasedSlot(d.slots[slot], n)]
             released == ReleasedNow(d.releasedBefore, {slot})
  <2>1. n \in Nat /\ n >= d.slots[slot].reserved - 1
    BY <1>4, DatabaseType DEF SlotRow
  <2> HIDE DEF n
  <2>2. ReleasedSlot(d.slots[slot], n) \in SlotRow /\ ReleasedSlot(d.slots[slot], n).reserved = n
    BY <1>4, <2>1, DatabaseType, ReleasedSlotType
  <2>3. slots \in [Slots -> SlotRow] /\ slots[slot].reserved = n
        /\ \A s \in Slots \ {slot} : slots[s] = d.slots[s]
    BY <1>4, <2>2, DatabaseType
  <2>4. released \in SUBSET (Slots \X Slots)
    BY <1>4, DatabaseType DEF ReleasedNow
  <2>5. ReleaseJob(d, j, slot, status) = [d EXCEPT !.slots = slots, !.releasedBefore = released, !.jobs = jobs]
    BY <1>4 DEF ReleaseJob, ended, n
  <2> HIDE DEF slots, released, jobs
  <2>. QED
    BY <1>1, <1>2, <2>1, <2>3, <2>4, <2>5 DEF Database, ReleasesOne
<1>. QED
  BY <1>3, <1>4

\* Releasing a job from the slot it holds keeps the bookkeeping.
LEMMA ReleaseJobPreserves ==
    ASSUME NEW d \in Database, NEW j \in Jobs, NEW status \in {"completed", "cancelled", "failed"},
           d.jobs[j].status \in ACTIVE_JOB_STATES \cup {"queued"}
    PROVE  Keeps(d, ReleaseJob(d, j, d.jobs[j].slot, status))
<1> DEFINE slot == d.jobs[j].slot
           e == ReleaseJob(d, j, slot, status)
<1>1. slot \in Slots \cup {None}
  BY DatabaseType DEF JobRow
<1>2. /\ e \in Database
      /\ e.jobs[j].status = status
      /\ \A k \in Jobs \ {j} : e.jobs[k] = d.jobs[k]
      /\ \A s \in Slots \ {slot} : e.slots[s].reserved = d.slots[s].reserved
      /\ slot # None => e.slots[slot].reserved >= d.slots[slot].reserved - 1
  <2>1. ReleasesOne(d, e, j, slot, status)
    BY <1>1, ReleaseJobEffect
  <2>. QED
    BY <2>1 DEF ReleasesOne
<1> HIDE DEF e
<1>3. SUFFICES ASSUME NEW T \in SUBSET Slots, Consistent(d, T)
               PROVE  Consistent(e, T)
  BY DEF Keeps, e
<1>4. Waiting(e)
  BY <1>2, <1>3 DEF Consistent, Waiting, WithStatus
<1>5. ASSUME NEW s \in T
      PROVE  CoveredOn(e, s)
  <2>1. ActiveOn(e, s) \subseteq ActiveOn(d, s) \ {j}
    BY <1>2 DEF ActiveOn, Active, WithStatus, ACTIVE_JOB_STATES
  <2>2. CASE s = slot
    <3>1. j \in ActiveOn(d, s)
      BY <1>3, <2>2, PolicyAssumption DEF ActiveOn, Active, WithStatus, Consistent, Waiting
    <3>2. e.slots[s].reserved >= d.slots[s].reserved - 1
      BY <1>2, <2>2, PolicyAssumption
    <3>. QED
      BY <1>2, <1>3, <2>1, <3>1, <3>2, OneLessStaysCovered DEF Consistent
  <2>3. CASE s # slot
    <3>1. e.slots[s].reserved >= d.slots[s].reserved
      BY <1>2, <2>3, DatabaseType DEF SlotRow
    <3>. QED
      BY <1>2, <1>3, <2>1, <3>1, FewerStayCovered DEF Consistent
  <2>. QED
    BY <2>2, <2>3
<1>. QED
  BY <1>4, <1>5 DEF Consistent

-----------------------------------------------------------------------------
(* The RPC methods. *)

\* Replacing one job's row.
LEMMA SetJobType ==
    ASSUME NEW d \in Database, NEW j \in Jobs, NEW row \in JobRow
    PROVE  LET e == [d EXCEPT !.jobs[j] = row]
           IN  /\ e \in Database /\ e.slots = d.slots
               /\ e.jobs[j] = row /\ \A k \in Jobs \ {j} : e.jobs[k] = d.jobs[k]
<1>1. [d.jobs EXCEPT ![j] = row] \in [Jobs -> JobRow]
  BY DatabaseType
<1>. QED
  BY <1>1 DEF Database

\* Replacing one slot's row.
LEMMA SetSlotType ==
    ASSUME NEW d \in Database, NEW s \in Slots, NEW row \in SlotRow
    PROVE  LET e == [d EXCEPT !.slots[s] = row]
           IN  /\ e \in Database /\ e.jobs = d.jobs
               /\ e.slots[s] = row /\ \A t \in Slots \ {s} : e.slots[t] = d.slots[t]
<1>1. [d.slots EXCEPT ![s] = row] \in [Slots -> SlotRow]
  BY DatabaseType
<1>. QED
  BY <1>1 DEF Database

\* A new row of one job, of which it holds the slot that it held, if it holds one.
LEMMA SetJobConsistent ==
    ASSUME NEW d \in Database, NEW j \in Jobs, NEW row \in JobRow,
           Waiting(d) /\ row.status \in ACTIVE_JOB_STATES =>
               row.slot = None \/ (d.jobs[j].status \in ACTIVE_JOB_STATES /\ row.slot = d.jobs[j].slot),
           Waiting(d) /\ row.status \in {"unknown", "queued"} => row.slot = None
    PROVE  Keeps(d, [d EXCEPT !.jobs[j] = row])
<1> DEFINE e == [d EXCEPT !.jobs[j] = row]
<1>1. /\ e \in Database /\ e.slots = d.slots
      /\ e.jobs[j] = row /\ \A k \in Jobs \ {j} : e.jobs[k] = d.jobs[k]
  BY SetJobType
<1> HIDE DEF e
<1>0. SUFFICES ASSUME NEW T \in SUBSET Slots, Consistent(d, T)
               PROVE  Consistent(e, T)
  BY DEF Keeps, e
<1>2. ASSUME NEW k \in Jobs
      PROVE  /\ e.jobs[k].status \in ACTIVE_JOB_STATES =>
                    \/ e.jobs[k].slot = None
                    \/ d.jobs[k].status \in ACTIVE_JOB_STATES /\ e.jobs[k].slot = d.jobs[k].slot
             /\ e.jobs[k].status \in {"unknown", "queued"} => e.jobs[k].slot = None
  BY <1>0, <1>1 DEF Consistent, Waiting, WithStatus
<1>. QED
  BY <1>0, <1>1, <1>2, NoNewHolder

LEMMA SubmitPreserves ==
    ASSUME NEW d \in Database, NEW j \in Jobs
    PROVE  Preserves(d, Submit(d, j))
<1> DEFINE rank == Cardinality(Jobs \ WithStatus(d, {"unknown"})) + 1
           row == [NoJobRow(j) EXCEPT !.status = "queued", !.created = rank]
<1>1. CASE d.jobs[j].status # "unknown"
  BY <1>1, NoAdmissionPreserves, KeepsItself DEF Submit
<1>2. CASE d.jobs[j].status = "unknown"
  <2>1. rank \in Nat
    BY SchedulerAssumption, FS_Subset, FS_CardinalityType
  <2> HIDE DEF rank
  <2>2. row \in JobRow /\ row.status = "queued" /\ row.slot = None
    BY <2>1 DEF NoJobRow, RunnerName, RunnerNames, JobRow, JobStatus
  <2>3. Submit(d, j) = ThenAdmitNext([d EXCEPT !.jobs[j] = row])
    BY <1>2 DEF Submit, rank
  <2> HIDE DEF row
  <2>4. [d EXCEPT !.jobs[j] = row] \in Database
    BY <2>2, SetJobType
  <2>5. Keeps(d, [d EXCEPT !.jobs[j] = row])
    BY <2>2, SetJobConsistent DEF ACTIVE_JOB_STATES
  <2>. QED
    BY <2>3, <2>4, <2>5, ThenAdmitNextPreserves
<1>. QED
  BY <1>1, <1>2

LEMMA WorkflowJobCompletedPreserves ==
    ASSUME NEW d \in Database, NEW j \in Jobs
    PROVE  Preserves(d, WorkflowJobCompleted(d, j))
<1> DEFINE row == d.jobs[j]
<1>1. row \in JobRow /\ row.slot \in Slots \cup {None}
  BY DatabaseType DEF JobRow
<1>2. ASSUME NEW status \in {"completed", "cancelled", "failed"},
             row.status \in ACTIVE_JOB_STATES \cup {"queued"}
      PROVE  Preserves(d, ThenAdmitNext(ReleaseJob(d, j, row.slot, status)))
  <2>1. ReleaseJob(d, j, row.slot, status) \in Database
    BY <1>1, ReleaseJobEffect DEF ReleasesOne
  <2>2. Keeps(d, ReleaseJob(d, j, row.slot, status))
    BY <1>2, ReleaseJobPreserves
  <2>. QED
    BY <2>1, <2>2, ThenAdmitNextPreserves
<1>3. CASE row.status \in {"queued", "admitted"}
  BY <1>2, <1>3 DEF WorkflowJobCompleted, ACTIVE_JOB_STATES
<1>4. CASE row.status = "stopped-awaiting-completion"
  BY <1>2, <1>4 DEF WorkflowJobCompleted, ACTIVE_JOB_STATES
<1>5. CASE row.status \in {"provisioning", "running"}
  <2> DEFINE new == [row EXCEPT !.status = "releasing", !.due = TRUE]
  <2>1. new \in JobRow /\ new.status = "releasing" /\ new.slot = row.slot
    BY <1>1 DEF JobRow, JobStatus, ACTIVE_JOB_STATES
  <2>2. WorkflowJobCompleted(d, j) = NoAdmission(ScheduleWorkAlarm([d EXCEPT !.jobs[j] = new]))
    BY <1>5 DEF WorkflowJobCompleted
  <2> HIDE DEF new
  <2>3. [d EXCEPT !.jobs[j] = new] \in Database
    BY <2>1, SetJobType
  <2>4. Keeps(d, [d EXCEPT !.jobs[j] = new])
    BY <1>5, <2>1, SetJobConsistent DEF ACTIVE_JOB_STATES
  <2>. QED
    BY <2>2, <2>3, <2>4, NoAdmissionPreserves
<1>6. CASE row.status \notin {"queued", "admitted", "stopped-awaiting-completion", "provisioning", "running"}
  BY <1>6, NoAdmissionPreserves, KeepsItself DEF WorkflowJobCompleted
<1>. QED
  BY <1>3, <1>4, <1>5, <1>6

LEMMA ClaimProvisioningPreserves ==
    ASSUME NEW d \in Database, NEW j \in Jobs, NEW name
    PROVE  Preserves(d, NoAdmission(ClaimProvisioning(d, j, name)))
<1> DEFINE row == d.jobs[j]
           new == [row EXCEPT !.status = "provisioning"]
<1>1. row \in JobRow
  BY DatabaseType
<1>2. CASE ClaimKind(d, j, name) = "provision" /\ row.status \in {"queued", "admitted"}
  <2>1. new \in JobRow /\ new.status = "provisioning" /\ new.slot = row.slot
    BY <1>1 DEF JobRow, JobStatus, ACTIVE_JOB_STATES
  <2>2. ClaimProvisioning(d, j, name) = [d EXCEPT !.jobs[j] = new]
    BY <1>2 DEF ClaimProvisioning
  <2> HIDE DEF new
  <2>3. [d EXCEPT !.jobs[j] = new] \in Database
    BY <2>1, SetJobType
  <2>5. Waiting(d) /\ row.status = "queued" => row.slot = None
    BY DEF Waiting, WithStatus
  <2>4. Keeps(d, [d EXCEPT !.jobs[j] = new])
    BY <1>2, <2>1, <2>5, SetJobConsistent DEF ACTIVE_JOB_STATES
  <2>. QED
    BY <2>2, <2>3, <2>4, NoAdmissionPreserves
<1>3. CASE ~(ClaimKind(d, j, name) = "provision" /\ row.status \in {"queued", "admitted"})
  BY <1>3, NoAdmissionPreserves, KeepsItself DEF ClaimProvisioning
<1>. QED
  BY <1>2, <1>3

LEMMA ProvisioningFailedPreserves ==
    ASSUME NEW d \in Database, NEW j \in Jobs, NEW name
    PROVE  Preserves(d, ProvisioningFailed(d, j, name))
<1>1. CASE CanStart(d, j, name)
  <2>1. d.jobs[j].slot \in Slots \cup {None}
    BY DatabaseType DEF JobRow
  <2>2. ReleaseJob(d, j, d.jobs[j].slot, "failed") \in Database
    BY <2>1, ReleaseJobEffect DEF ReleasesOne
  <2>3. Keeps(d, ReleaseJob(d, j, d.jobs[j].slot, "failed"))
    BY <1>1, ReleaseJobPreserves DEF CanStart, ACTIVE_JOB_STATES
  <2>. QED
    BY <1>1, <2>2, <2>3, ThenAdmitNextPreserves DEF ProvisioningFailed
<1>2. CASE ~CanStart(d, j, name)
  BY <1>2, NoAdmissionPreserves, KeepsItself DEF ProvisioningFailed
<1>. QED
  BY <1>1, <1>2

LEMMA RunnerOwnersType ==
    ASSUME NEW d, NEW name, NEW owner \in RunnerOwners(d, name)
    PROVE  owner \in Jobs /\ d.jobs[owner].status \in {"provisioning", "running", "releasing"}
  BY DEF RunnerOwners, FirstRows, NamedRows, WithStatus

LEMMA RunningOnType ==
    ASSUME NEW row \in JobRow, NEW name \in RunnerNames, NEW slot \in Slots \cup {None}
    PROVE  LET new == RunningOn(row, name, slot)
           IN  new \in JobRow /\ new.status = "running" /\ new.slot = slot
  BY DEF RunningOn, JobRow, JobStatus, ACTIVE_JOB_STATES

LEMMA RequeuedType ==
    ASSUME NEW row \in JobRow
    PROVE  Requeued(row) \in JobRow /\ Requeued(row).status = "queued" /\ Requeued(row).slot = None
<1> DEFINE n == row.attempt + 1
           name == RunnerName(row.runner.job, n)
<1>1. n \in Nat /\ name \in RunnerNames
  BY DEF JobRow, RunnerName, RunnerNames
<1>2. Requeued(row) = [row EXCEPT !.status = "queued", !.runner = name, !.attempt = n, !.slot = None,
                                  !.runnerId = None, !.due = FALSE, !.cleanup = FALSE]
  BY DEF Requeued
<1> HIDE DEF n, name
<1>. QED
  BY <1>1, <1>2 DEF JobRow, JobStatus

LEMMA AdoptPreserves ==
    ASSUME NEW d \in Database, NEW j \in Jobs, NEW name \in RunnerNames
    PROVE  Preserves(d, NoAdmission(AdoptUnownedRunner(d, j, name)))
<1> DEFINE row == d.jobs[j]
           new == RunningOn(row, name, row.slot)
<1>1. row \in JobRow /\ row.slot \in Slots \cup {None}
  BY DatabaseType DEF JobRow
<1>2. CASE row.status \in {"queued", "admitted", "running"}
  <2>1. new \in JobRow /\ new.status = "running" /\ new.slot = row.slot
    BY <1>1, RunningOnType
  <2>2. AdoptUnownedRunner(d, j, name) = [d EXCEPT !.jobs[j] = new]
    BY <1>2 DEF AdoptUnownedRunner
  <2> HIDE DEF new
  <2>3. [d EXCEPT !.jobs[j] = new] \in Database
    BY <2>1, SetJobType
  <2>5. Waiting(d) /\ row.status = "queued" => row.slot = None
    BY DEF Waiting, WithStatus
  <2>4. Keeps(d, [d EXCEPT !.jobs[j] = new])
    BY <1>2, <2>1, <2>5, SetJobConsistent DEF ACTIVE_JOB_STATES
  <2>. QED
    BY <2>2, <2>3, <2>4, NoAdmissionPreserves
<1>3. CASE row.status \notin {"queued", "admitted", "running"}
  BY <1>3, NoAdmissionPreserves, KeepsItself DEF AdoptUnownedRunner
<1>. QED
  BY <1>2, <1>3

\* The runner's slot goes from its owner to the job that really runs, the owner back
\* to the queue.
LEMMA TransferRunnerPreserves ==
    ASSUME NEW d \in Database, NEW j \in Jobs, NEW name \in RunnerNames, NEW owner \in Jobs,
           owner # j, d.jobs[owner].status \in {"provisioning", "running", "releasing"},
           d.jobs[owner].slot # None
    PROVE  /\ TransferRunner(d, j, name, owner) \in Database
           /\ Keeps(d, TransferRunner(d, j, name, owner))
<1> DEFINE e == TransferRunner(d, j, name, owner)
           slot == d.jobs[owner].slot
           jobs == [k \in Jobs |-> IF k = owner THEN Requeued(d.jobs[owner])
                                   ELSE IF k = j THEN RunningOn(d.jobs[j], name, slot)
                                   ELSE d.jobs[k]]
<1>1. slot \in Slots
  BY DatabaseType DEF JobRow
<1>2. d.jobs \in [Jobs -> JobRow]
  BY DatabaseType
<1>3. /\ Requeued(d.jobs[owner]) \in JobRow /\ Requeued(d.jobs[owner]).status = "queued"
      /\ Requeued(d.jobs[owner]).slot = None
  BY <1>2, RequeuedType
<1>4. /\ RunningOn(d.jobs[j], name, slot) \in JobRow
      /\ RunningOn(d.jobs[j], name, slot).status = "running"
      /\ RunningOn(d.jobs[j], name, slot).slot = slot
  BY <1>1, <1>2, RunningOnType
<1>5. e = [d EXCEPT !.jobs = jobs]
  BY DEF TransferRunner
<1>6. /\ jobs \in [Jobs -> JobRow]
      /\ jobs[owner].status = "queued" /\ jobs[owner].slot = None
      /\ jobs[j].slot = slot /\ jobs[j].status = "running"
      /\ \A k \in Jobs \ {owner, j} : jobs[k] = d.jobs[k]
  BY <1>2, <1>3, <1>4
<1> HIDE DEF e, jobs
<1>7. e \in Database /\ e.jobs = jobs /\ e.slots = d.slots
  BY <1>5, <1>6 DEF Database
<1>8. ASSUME NEW T \in SUBSET Slots, Consistent(d, T)
      PROVE  Consistent(e, T)
  <2>1. Waiting(d) /\ \A s \in T : CoveredOn(d, s)
    BY <1>8 DEF Consistent
  <2>2. Waiting(e)
    BY <1>6, <1>7, <2>1 DEF Waiting, WithStatus
  <2>3. ASSUME NEW s \in T
        PROVE  CoveredOn(e, s)
    <3>1. CASE s = slot
      <4>1. owner \in ActiveOn(d, s)
        BY <3>1 DEF ActiveOn, Active, WithStatus, ACTIVE_JOB_STATES
      <4>2. ActiveOn(e, s) \subseteq (ActiveOn(d, s) \ {owner}) \cup {j}
        BY <1>6, <1>7 DEF ActiveOn, Active, WithStatus, ACTIVE_JOB_STATES
      <4>. QED
        BY <1>7, <2>1, <4>1, <4>2, SwapStaysCovered
    <3>2. CASE s # slot
      <4>1. ActiveOn(e, s) \subseteq ActiveOn(d, s)
        BY <1>6, <1>7, <3>2 DEF ActiveOn, Active, WithStatus, ACTIVE_JOB_STATES
      <4>2. e.slots[s].reserved >= d.slots[s].reserved
        BY <1>7, DatabaseType DEF SlotRow
      <4>. QED
        BY <1>7, <2>1, <4>1, <4>2, FewerStayCovered
    <3>. QED
      BY <3>1, <3>2
  <2>. QED
    BY <2>2, <2>3 DEF Consistent
<1>. QED
  BY <1>7, <1>8 DEF Keeps, e

LEMMA WorkflowJobStartedPreserves ==
    ASSUME NEW d \in Database, NEW j \in Jobs, NEW name \in RunnerNames
    PROVE  Preserves(d, WorkflowJobStarted(d, j, name))
<1> DEFINE owners == RunnerOwners(d, name)
           owner == CHOOSE k \in owners : TRUE
           unmatched == \/ d.jobs[j].status = "unknown"
                        \/ JobProfile[owner] # JobProfile[j]
                        \/ d.jobs[owner].slot = None
<1>1. CASE owners = {}
  <2>1. WorkflowJobStarted(d, j, name)
          = NoAdmission(IF RecordedJitRunner(d, j, name) THEN AdoptUnownedRunner(d, j, name) ELSE d)
    BY <1>1 DEF WorkflowJobStarted
  <2>. QED
    BY <2>1, AdoptPreserves, NoAdmissionPreserves, KeepsItself
<1>2. CASE owners # {} /\ (unmatched \/ owner = j)
  <2>1. WorkflowJobStarted(d, j, name) = NoAdmission(d)
    BY <1>2 DEF WorkflowJobStarted
  <2>. QED
    BY <2>1, NoAdmissionPreserves, KeepsItself
<1>3. CASE owners # {} /\ ~(unmatched \/ owner = j)
  <2>1. WorkflowJobStarted(d, j, name) = ThenAdmitNext(TransferRunner(d, j, name, owner))
    BY <1>3 DEF WorkflowJobStarted
  <2>2. owner \in RunnerOwners(d, name)
    BY <1>3
  <2>3. owner # j /\ d.jobs[owner].slot # None
    BY <1>3
  <2> HIDE DEF owner
  <2>4. owner \in Jobs /\ d.jobs[owner].status \in {"provisioning", "running", "releasing"}
    BY <2>2, RunnerOwnersType
  <2>5. /\ TransferRunner(d, j, name, owner) \in Database
        /\ Keeps(d, TransferRunner(d, j, name, owner))
    BY <2>3, <2>4, TransferRunnerPreserves
  <2>. QED
    BY <2>1, <2>5, ThenAdmitNextPreserves
<1>. QED
  BY <1>1, <1>2, <1>3

\* An update of the slots that leaves the reservations alone.
LEMMA SlotUpdateConsistent ==
    ASSUME NEW d \in Database, NEW s \in Slots, NEW row \in SlotRow, row.reserved = d.slots[s].reserved
    PROVE  /\ [d EXCEPT !.slots[s] = row] \in Database
           /\ Keeps(d, [d EXCEPT !.slots[s] = row])
<1> DEFINE e == [d EXCEPT !.slots[s] = row]
<1>1. /\ e \in Database /\ e.jobs = d.jobs
      /\ e.slots[s] = row /\ \A t \in Slots \ {s} : e.slots[t] = d.slots[t]
  BY SetSlotType
<1> HIDE DEF e
<1>2. SameJobs(d, e)
  BY <1>1 DEF SameJobs
<1>3. Keeps(d, e)
  BY <1>2, SameJobsConsistent
<1>. QED
  BY <1>1, <1>3 DEF e

LEMMA ConfigurationReadyPreserves ==
    ASSUME NEW d \in Database, NEW j \in Jobs
    PROVE  Preserves(d, ConfigurationReady(d, j))
<1> DEFINE slot == d.jobs[j].slot
           row == d.slots[slot]
           new == ConfiguredSlot(row)
           profile == IF row.pending = None THEN row.profile ELSE row.pending
<1>1. CASE d.jobs[j].status = "unknown" \/ slot = None
  BY <1>1, NoAdmissionPreserves, KeepsItself DEF ConfigurationReady
<1>2. CASE ~(d.jobs[j].status = "unknown" \/ slot = None)
  <2>1. slot \in Slots
    BY <1>2, DatabaseType DEF JobRow
  <2>2. row \in SlotRow /\ profile \in Profiles \cup {None}
    BY <2>1, DatabaseType DEF SlotRow
  <2>3. new \in SlotRow /\ new.reserved = row.reserved
    <3>1. new = [row EXCEPT !.profile = profile, !.state = "ready", !.owner = None,
                            !.pending = None, !.reclaimPending = FALSE]
      BY DEF ConfiguredSlot
    <3> HIDE DEF new, row, profile
    <3>. QED
      BY <2>2, <3>1 DEF SlotRow, CONFIGURATION_STATES
  <2>4. ConfigurationReady(d, j)
          = ThenAdmitNext(IF row.owner = j THEN [d EXCEPT !.slots[slot] = new] ELSE d)
    BY <1>2 DEF ConfigurationReady
  <2> HIDE DEF new, slot
  <2>5. /\ [d EXCEPT !.slots[slot] = new] \in Database
        /\ Keeps(d, [d EXCEPT !.slots[slot] = new])
    BY <2>1, <2>3, SlotUpdateConsistent
  <2>6. Preserves(d, ThenAdmitNext([d EXCEPT !.slots[slot] = new]))
    BY <2>5, ThenAdmitNextPreserves
  <2>7. Preserves(d, ThenAdmitNext(d))
    BY ThenAdmitNextPreserves, KeepsItself
  <2>. QED
    BY <2>4, <2>6, <2>7
<1>. QED
  BY <1>1, <1>2

LEMMA ReadyAdmissionsType ==
    ASSUME NEW d \in Database
    PROVE  ReadyAdmissions(d) \subseteq Admission
  BY AdmissionForType DEF ReadyAdmissions, WithStatus

LEMMA CapacityPreparedPreserves ==
    ASSUME NEW d \in Database, NEW s \in Slots, NEW generation \in Nat
    PROVE  Preserves(d, CapacityPrepared(d, s, generation))
           /\ CapacityPrepared(d, s, generation).db.jobs = d.jobs
<1> DEFINE operations == {o \in d.operations : o.slot = s /\ o.generation = generation}
           operation == CHOOSE o \in operations : TRUE
           target == operation.target
           row == d.slots[s]
           updating == row.updating /\ row.updateGeneration # generation
           new == [row EXCEPT !.applied = target, !.updating = updating]
           prepared == [d EXCEPT !.slots[s] = new]
<1>1. CASE operations = {}
  <2>1. CapacityPrepared(d, s, generation) = NoAdmission(d)
    BY <1>1 DEF CapacityPrepared
  <2>2. NoAdmission(d).db.jobs = d.jobs
    BY DEF NoAdmission
  <2>. QED
    BY <2>1, <2>2, NoAdmissionPreserves, KeepsItself
<1>2. CASE operations # {}
  <2>1. operation \in d.operations
    BY <1>2
  <2> HIDE DEF operation
  <2>2. target \in Nat
    BY <2>1, DatabaseType DEF Operation
  <2>3. row \in SlotRow /\ updating \in BOOLEAN
    BY DatabaseType
  <2>4. new \in SlotRow /\ new.reserved = row.reserved
    <3> HIDE DEF row, target, updating
    <3>. QED
      BY <2>2, <2>3 DEF SlotRow
  <2>5. CapacityPrepared(d, s, generation)
          = [db |-> ScheduleWorkAlarm(prepared), admissions |-> ReadyAdmissions(prepared)]
    <3>1. [d EXCEPT !.slots[s].applied = target,
                    !.slots[s].updating = @ /\ d.slots[s].updateGeneration # generation] = prepared
      BY DatabaseType DEF Database, SlotRow
    <3>. QED
      BY <1>2, <3>1 DEF CapacityPrepared, operation
  <2> HIDE DEF new
  <2>6. prepared \in Database /\ (Keeps(d, prepared)) /\ prepared.jobs = d.jobs
    BY <2>4, SlotUpdateConsistent DEF Database
  <2> HIDE DEF prepared
  <2>7. /\ ScheduleWorkAlarm(prepared) \in Database
        /\ SameJobs(prepared, ScheduleWorkAlarm(prepared))
        /\ Keeps(prepared, ScheduleWorkAlarm(prepared))
    BY <2>6, ScheduleWorkAlarmEffect, SameJobsConsistent
  <2>. QED
    BY <2>5, <2>6, <2>7, ReadyAdmissionsType DEF Preserves, Keeps, SameJobs
<1>. QED
  BY <1>1, <1>2

LEMMA RunnerProvisionedPreserves ==
    ASSUME NEW d \in Database, NEW j \in Jobs, NEW name \in RunnerNames
    PROVE  Preserves(d, NoAdmission(RunnerProvisioned(d, j, name)))
<1> DEFINE row == d.jobs[j]
           new == [row EXCEPT !.runnerId = name]
           m == [d EXCEPT !.jobs[j] = new]
           runners == {r \in d.jitRunners : r.name # name} \cup {[name |-> name, source |-> j]}
           e == [m EXCEPT !.jitRunners = runners]
<1>1. CASE CanStart(d, j, name)
  <2>1. new \in JobRow /\ new.status = row.status /\ new.slot = row.slot
    BY DatabaseType DEF JobRow
  <2>2. runners \in SUBSET JitRunner
    BY DatabaseType DEF JitRunner
  <2>3. RunnerProvisioned(d, j, name) = e
    BY <1>1, DatabaseType DEF RunnerProvisioned, Database
  <2> HIDE DEF new, runners
  <2>4. m \in Database
    BY <2>1, SetJobType
  <2>5. Keeps(d, m)
    BY <1>1, <2>1, SetJobConsistent DEF CanStart, ACTIVE_JOB_STATES
  <2> HIDE DEF m
  <2>6. e \in Database /\ SameJobs(m, e)
    BY <2>2, <2>4 DEF Database, SameJobs
  <2> HIDE DEF e
  <2>. QED
    BY <2>3, <2>5, <2>6, SameJobsConsistent, NoAdmissionPreserves DEF Keeps
<1>2. CASE ~CanStart(d, j, name)
  BY <1>2, NoAdmissionPreserves, KeepsItself DEF RunnerProvisioned
<1>. QED
  BY <1>1, <1>2

LEMMA RunnerStartedPreserves ==
    ASSUME NEW d \in Database, NEW name
    PROVE  Preserves(d, NoAdmission(RunnerStarted(d, name)))
<1> DEFINE named == NamedRows(d, name, {"provisioning"})
           running(j) == [d.jobs[j] EXCEPT !.status = "running"]
           jobs == [j \in Jobs |-> IF j \in named THEN running(j) ELSE d.jobs[j]]
           e == [d EXCEPT !.jobs = jobs]
<1>1. \A j \in named : d.jobs[j].status = "provisioning"
  BY DEF NamedRows, WithStatus
<1>2. \A j \in Jobs : running(j) \in JobRow /\ running(j).status = "running" /\ running(j).slot = d.jobs[j].slot
  BY DatabaseType DEF JobRow, JobStatus, ACTIVE_JOB_STATES
<1> HIDE DEF named, running
<1>3. /\ jobs \in [Jobs -> JobRow]
      /\ \A j \in Jobs : jobs[j] = IF j \in named THEN running(j) ELSE d.jobs[j]
  BY <1>2, DatabaseType
<1>4. RunnerStarted(d, name) = e
  BY DEF RunnerStarted, named, running
<1> HIDE DEF jobs
<1>5. e \in Database /\ e.jobs = jobs /\ e.slots = d.slots
  BY <1>3 DEF Database
<1> HIDE DEF e
<1>6. ASSUME NEW T \in SUBSET Slots, Consistent(d, T)
      PROVE  Consistent(e, T)
  <2>1. ASSUME NEW j \in Jobs
        PROVE  /\ e.jobs[j].status \in ACTIVE_JOB_STATES =>
                      \/ e.jobs[j].slot = None
                      \/ d.jobs[j].status \in ACTIVE_JOB_STATES /\ e.jobs[j].slot = d.jobs[j].slot
               /\ e.jobs[j].status \in {"unknown", "queued"} => e.jobs[j].slot = None
    BY <1>1, <1>2, <1>3, <1>5, <1>6 DEF Consistent, Waiting, WithStatus, ACTIVE_JOB_STATES
  <2>. QED
    BY <1>5, <1>6, <2>1, NoNewHolder
<1>. QED
  BY <1>4, <1>5, <1>6, NoAdmissionPreserves DEF Keeps

LEMMA RunnerStoppedPreserves ==
    ASSUME NEW d \in Database, NEW name
    PROVE  Preserves(d, RunnerStopped(d, name))
<1> DEFINE rows == FirstRows(d, NamedRows(d, name, JobStatus \ {"unknown"}))
           j == CHOOSE k \in rows : TRUE
           row == d.jobs[j]
           new == [row EXCEPT !.status = "stopped-awaiting-completion", !.due = TRUE]
<1>1. CASE rows = {} \/ j \notin Active(d)
  <2>1. RunnerStopped(d, name) = NoAdmission(d)
    BY <1>1 DEF RunnerStopped
  <2>. QED
    BY <2>1, NoAdmissionPreserves, KeepsItself
<1>2. CASE ~(rows = {} \/ j \notin Active(d))
  <2>1. j \in Active(d)
    BY <1>2
  <2>2. RunnerStopped(d, name) =
          IF row.status = "releasing"
          THEN ThenAdmitNext(ReleaseJob(d, j, row.slot, "completed"))
          ELSE NoAdmission(ScheduleWorkAlarm([d EXCEPT !.jobs[j] = new]))
    BY <1>2 DEF RunnerStopped
  <2> HIDE DEF j
  <2>3. j \in Jobs /\ row.status \in ACTIVE_JOB_STATES /\ row \in JobRow /\ row.slot \in Slots \cup {None}
    BY <2>1, DatabaseType DEF Active, WithStatus, JobRow
  <2>4. CASE row.status = "releasing"
    <3>1. ReleaseJob(d, j, row.slot, "completed") \in Database
      BY <2>3, ReleaseJobEffect DEF ReleasesOne
    <3>2. Keeps(d, ReleaseJob(d, j, row.slot, "completed"))
      BY <2>3, ReleaseJobPreserves
    <3>. QED
      BY <2>2, <2>4, <3>1, <3>2, ThenAdmitNextPreserves
  <2>5. CASE row.status # "releasing"
    <3>1. new \in JobRow /\ new.status = "stopped-awaiting-completion" /\ new.slot = row.slot
      BY <2>3 DEF JobRow, JobStatus, ACTIVE_JOB_STATES
    <3>2. RunnerStopped(d, name) = NoAdmission(ScheduleWorkAlarm([d EXCEPT !.jobs[j] = new]))
      BY <2>2, <2>5
    <3> HIDE DEF new
    <3>3. [d EXCEPT !.jobs[j] = new] \in Database
      BY <2>3, <3>1, SetJobType
    <3>4. Keeps(d, [d EXCEPT !.jobs[j] = new])
      BY <2>3, <3>1, SetJobConsistent DEF ACTIVE_JOB_STATES
    <3>. QED
      BY <3>2, <3>3, <3>4, NoAdmissionPreserves
  <2>. QED
    BY <2>4, <2>5
<1>. QED
  BY <1>1, <1>2

-----------------------------------------------------------------------------
(* The steps. *)

\* What every step keeps: the types, and the bookkeeping of every slot but those on
\* which it releases a stale row.
StepKeeps ==
    /\ SchedulerTypeOK'
    /\ \A T \in SUBSET Slots : Consistent(db, T) => Consistent(db', T \ Misreleases)

\* The bookkeeping of fewer slots.
LEMMA ConsistentOnFewer ==
    ASSUME NEW d, NEW T, NEW U, Consistent(d, T)
    PROVE  Consistent(d, T \ U)
  BY DEF Consistent

LEMMA StartWorkflowsType ==
    ASSUME NEW admissions, admissions \subseteq Admission, workflows \subseteq Admission,
           StartWorkflows(admissions)
    PROVE  workflows' \subseteq Admission
  BY DEF StartWorkflows, Created

\* A call that keeps the database in order keeps the state in order.
LEMMA ReplyStep ==
    ASSUME NEW reply, SchedulerTypeOK, Preserves(db, reply), Reply(reply)
    PROVE  StepKeeps
<1>1. db' = reply.db /\ alarm' = alarm /\ StartWorkflows(reply.admissions)
  BY DEF Reply
<1>2. SchedulerTypeOK'
  BY <1>1, StartWorkflowsType DEF SchedulerTypeOK, Preserves
<1>3. Keeps(db, db')
  BY <1>1 DEF Preserves
<1>. QED
  BY <1>2, <1>3, ConsistentOnFewer DEF StepKeeps, Keeps

LEMMA CallStep ==
    ASSUME SchedulerTypeOK, Call
    PROVE  StepKeeps
<1>1. db \in Database
  BY DEF SchedulerTypeOK
<1>2. ASSUME NEW j \in Jobs, CallSubmit(j) \/ CallWorkflowJobCompleted(j) \/ CallConfigurationReady(j)
      PROVE  StepKeeps
  BY <1>1, <1>2, ReplyStep, SubmitPreserves, WorkflowJobCompletedPreserves, ConfigurationReadyPreserves
     DEF CallSubmit, CallWorkflowJobCompleted, CallConfigurationReady
<1>3. BoundedNames \subseteq RunnerNames
  BY SchedulerAssumption DEF BoundedNames, RunnerNames
<1>4. ASSUME NEW j \in Jobs, NEW name \in RunnerNames,
             \/ CallWorkflowJobStarted(j, name)
             \/ CallCacheAssignment(j, name)
             \/ CallClaimProvisioning(j, name)
             \/ CallRunnerProvisioned(j, name)
             \/ CallProvisioningFailed(j, name)
      PROVE  StepKeeps
  <2>1. CASE CallWorkflowJobStarted(j, name) \/ CallCacheAssignment(j, name)
    BY <1>1, <2>1, ReplyStep, WorkflowJobStartedPreserves DEF CallWorkflowJobStarted, CallCacheAssignment
  <2>2. CASE CallClaimProvisioning(j, name)
    BY <1>1, <2>2, ReplyStep, ClaimProvisioningPreserves DEF CallClaimProvisioning
  <2>3. CASE CallRunnerProvisioned(j, name)
    BY <1>1, <2>3, ReplyStep, RunnerProvisionedPreserves DEF CallRunnerProvisioned
  <2>4. CASE CallProvisioningFailed(j, name)
    BY <1>1, <2>4, ReplyStep, ProvisioningFailedPreserves DEF CallProvisioningFailed
  <2>. QED
    BY <1>4, <2>1, <2>2, <2>3, <2>4
<1>5. ASSUME NEW name, CallRunnerStarted(name) \/ CallRunnerStopped(name)
      PROVE  StepKeeps
  BY <1>1, <1>5, ReplyStep, RunnerStartedPreserves, RunnerStoppedPreserves
     DEF CallRunnerStarted, CallRunnerStopped
<1>6. ASSUME NEW s \in Slots, NEW generation \in Nat, CallCapacityPrepared(s, generation)
      PROVE  StepKeeps
  BY <1>1, <1>6, ReplyStep, CapacityPreparedPreserves DEF CallCapacityPrepared
<1>7. Generations \subseteq Nat
  BY SchedulerAssumption
<1>. QED
  BY <1>2, <1>3, <1>4, <1>5, <1>6, <1>7 DEF Call

LEMMA StoppedRowsType ==
    ASSUME NEW d \in Database, NEW S \in SUBSET Jobs
    PROVE  StoppedRows(d, S) \subseteq StoppedRow
  BY DatabaseType DEF StoppedRows, StoppedRow, JobRow

LEMMA DueSlotsType ==
    ASSUME NEW d \in Database, NEW S \in SUBSET Slots
    PROVE  DueSlots(d, S) \subseteq DueSlot
<1>1. ASSUME NEW s \in S
      PROVE  [slot |-> s, target |-> d.slots[s].desired,
              reducing |-> d.slots[s].desired < d.slots[s].applied,
              generation |-> d.slots[s].generation] \in DueSlot
  <2>1. d.slots[s] \in SlotRow
    BY DatabaseType
  <2>2. (d.slots[s].desired < d.slots[s].applied) \in BOOLEAN
    OBVIOUS
  <2>. QED
    BY <2>1, <2>2 DEF DueSlot, SlotRow
<1>. QED
  BY <1>1 DEF DueSlots

LEMMA AwakeEffect ==
    ASSUME SchedulerTypeOK
    PROVE  Awake \in Database /\ SameJobs(db, Awake)
<1>1. (db.alarm /\ alarm.phase # "idle") \in BOOLEAN
  OBVIOUS
<1>. QED
  BY <1>1 DEF Awake, SchedulerTypeOK, Database, SameJobs

\* A step that keeps the bookkeeping of all slots.
LEMMA AlarmStepKeeps ==
    ASSUME SchedulerTypeOK, db' \in Database, Keeps(db, db'),
           AlarmType(alarm'), workflows' \subseteq Admission
    PROVE  StepKeeps
  BY ConsistentOnFewer DEF StepKeeps, SchedulerTypeOK, Keeps

LEMMA NoAlarmType == AlarmType(NoAlarm)
  BY DEF AlarmType, NoAlarm, Phases

LEMMA RecoverStoppedRunnersStep ==
    ASSUME SchedulerTypeOK, RecoverStoppedRunners
    PROVE  StepKeeps
<1>1. PICK S \in (SUBSET Recoverable(db)) \ {{}} :
        alarm' = [NoAlarm EXCEPT !.phase = "recovering", !.work = StoppedRows(db, S)]
  BY DEF RecoverStoppedRunners
<1>2. S \in SUBSET Jobs
  BY DEF Recoverable, WithStatus
<1>3. db' \in Database /\ SameJobs(db, db') /\ workflows' = workflows
  BY AwakeEffect DEF RecoverStoppedRunners
<1>4. StoppedRows(db, S) \subseteq StoppedRow
  BY <1>2, StoppedRowsType DEF SchedulerTypeOK
<1>5. AlarmType(alarm')
  BY <1>1, <1>4 DEF AlarmType, NoAlarm, Phases
<1>. QED
  BY <1>3, <1>5, SameJobsConsistent, AlarmStepKeeps DEF SchedulerTypeOK

LEMMA DeleteRunnerStep ==
    ASSUME SchedulerTypeOK, DeleteRunner
    PROVE  StepKeeps
<1>1. PICK row \in alarm.work :
        alarm' = [alarm EXCEPT !.work = @ \ {row}, !.current = row]
  BY DEF DeleteRunner
<1>2. db' = db /\ workflows' = workflows /\ alarm.phase \in {"recovering", "cleaning"}
  BY DEF DeleteRunner
<1>3. alarm.work \subseteq StoppedRow /\ AlarmType(alarm)
  BY <1>2 DEF SchedulerTypeOK, AlarmType
<1>4. AlarmType(alarm')
  BY <1>1, <1>2, <1>3 DEF AlarmType
<1>5. Keeps(db, db')
  BY <1>2 DEF Keeps
<1>. QED
  BY <1>2, <1>4, <1>5, AlarmStepKeeps DEF SchedulerTypeOK

\* A release from a slot that the job does not hold, or holds no more, takes at most
\* a reservation of that slot from other jobs.
LEMMA StaleReleaseKeeps ==
    ASSUME NEW d \in Database, NEW e, NEW j \in Jobs, NEW slot \in Slots \cup {None},
           NEW status \in {"completed", "failed"}, ReleasesOne(d, e, j, slot, status),
           NEW T \in SUBSET Slots, Consistent(d, T)
    PROVE  Consistent(e, T \ {slot})
<1>1. /\ e \in Database
      /\ e.jobs[j].status = status
      /\ \A k \in Jobs \ {j} : e.jobs[k] = d.jobs[k]
      /\ \A s \in Slots \ {slot} : e.slots[s].reserved = d.slots[s].reserved
  BY DEF ReleasesOne
<1>2. Waiting(e)
  BY <1>1 DEF Consistent, Waiting, WithStatus
<1>3. ASSUME NEW s \in T \ {slot}
      PROVE  CoveredOn(e, s)
  <2>1. ActiveOn(e, s) \subseteq ActiveOn(d, s)
    BY <1>1 DEF ActiveOn, Active, WithStatus, ACTIVE_JOB_STATES
  <2>2. e.slots[s].reserved >= d.slots[s].reserved
    BY <1>1, DatabaseType DEF SlotRow
  <2>. QED
    BY <1>1, <2>1, <2>2, FewerStayCovered DEF Consistent
<1>. QED
  BY <1>2, <1>3 DEF Consistent

\* The job in hand is released from the alarm's copy of its row.
LEMMA FinishRowStep ==
    ASSUME SchedulerTypeOK, alarm.phase \in {"recovering", "cleaning"},
           NEW row \in StoppedRow, NEW retry \in BOOLEAN,
           row \in alarm.work \cup ({alarm.current} \ {None}),
           alarm.current \in {row, None},
           FinishRow(row, retry)
    PROVE  StepKeeps
<1> DEFINE j == row.job
           new == [db.jobs[j] EXCEPT !.cleanup = retry]
           cleaned == [db EXCEPT !.jobs[j] = new]
           status == IF row.status = "releasing" THEN "completed" ELSE "failed"
           released == ReleaseJob(cleaned, j, row.slot, status)
           reply == IF alarm.phase = "recovering" THEN AdmitNext(released) ELSE NoAdmission(cleaned)
<1>1. j \in Jobs /\ row.slot \in Slots \cup {None} /\ db \in Database
  BY DEF StoppedRow, SchedulerTypeOK
<1>2. new \in JobRow /\ new.status = db.jobs[j].status /\ new.slot = db.jobs[j].slot
  BY <1>1, DatabaseType DEF JobRow
<1>3. [db EXCEPT !.jobs[row.job].cleanup = retry] = cleaned
  BY <1>1, DatabaseType DEF Database, JobRow
<1>4. db' = reply.db /\ workflows' = workflows
      /\ alarm' = [alarm EXCEPT !.work = @ \ {row}, !.current = None, !.admissions = @ \cup reply.admissions]
  BY <1>3 DEF FinishRow, RowDone
<1> HIDE DEF new
<1>5. /\ cleaned \in Database
      /\ cleaned.jobs[j] = new /\ \A k \in Jobs \ {j} : cleaned.jobs[k] = db.jobs[k]
  BY <1>1, <1>2, SetJobType
<1>6. Keeps(db, cleaned)
  <2>1. Waiting(db) /\ db.jobs[j].status \in {"unknown", "queued"} => db.jobs[j].slot = None
    BY <1>1 DEF Waiting, WithStatus
  <2>. QED
    BY <1>1, <1>2, <2>1, SetJobConsistent
<1> HIDE DEF cleaned
<1>7. ReleasesOne(cleaned, released, j, row.slot, status)
  BY <1>1, <1>5, ReleaseJobEffect
<1> HIDE DEF released
<1>8. /\ Preserves(released, AdmitNext(released))
      /\ \A k \in Jobs : released.jobs[k].status # "queued" => AdmitNext(released).db.jobs[k] = released.jobs[k]
  BY <1>7, AdmitNextPreserves DEF ReleasesOne
<1>9. reply.db \in Database /\ reply.admissions \subseteq Admission
  BY <1>5, <1>8 DEF Preserves, NoAdmission
<1>10. AlarmType(alarm) /\ alarm.work \subseteq StoppedRow
  BY DEF SchedulerTypeOK, AlarmType
<1> HIDE DEF reply
<1>11. /\ alarm'.phase = alarm.phase /\ alarm'.work = alarm.work \ {row}
       /\ alarm'.current = None /\ alarm'.admissions = alarm.admissions \cup reply.admissions
  BY <1>4, <1>10 DEF AlarmType
<1>12. AlarmType(alarm')
  BY <1>4, <1>9, <1>10, <1>11 DEF AlarmType
<1>13. SchedulerTypeOK'
  BY <1>4, <1>9, <1>12 DEF SchedulerTypeOK
<1>14. ASSUME NEW T \in SUBSET Slots, Consistent(db, T)
       PROVE  Consistent(db', T \ Misreleases)
  <2>1. Consistent(cleaned, T)
    BY <1>6, <1>14 DEF Keeps
  <2>2. CASE alarm.phase = "cleaning"
    <3>1. db' = cleaned
      BY <1>4, <2>2 DEF reply, NoAdmission
    <3>. QED
      BY <2>1, <3>1, ConsistentOnFewer
  <2>3. CASE alarm.phase = "recovering" /\ ~StaleRow(row)
    <3>1. cleaned.jobs[j].slot = row.slot /\ cleaned.jobs[j].status \in ACTIVE_JOB_STATES
      BY <1>2, <1>5, <2>3 DEF StaleRow, Active, WithStatus
    <3>2. Keeps(cleaned, released)
      BY <1>1, <1>5, <3>1, ReleaseJobPreserves DEF released
    <3>3. db' = AdmitNext(released).db /\ Consistent(released, T)
      BY <1>4, <2>1, <2>3, <3>2 DEF reply, Keeps
    <3>4. Consistent(db', T)
      BY <1>8, <3>3 DEF Preserves, Keeps
    <3>. QED
      BY <3>4, ConsistentOnFewer
  <2>4. CASE alarm.phase = "recovering" /\ StaleRow(row)
    <3>1. StaleRelease(row) /\ row \in InRecovery
      BY <2>4 DEF StaleRelease, InRecovery
    <3>2. row.slot \in Misreleases
      BY <3>1 DEF Misreleases
    <3>3. Consistent(released, T \ {row.slot})
      BY <1>1, <1>5, <1>7, <2>1, StaleReleaseKeeps
    <3>4. db' = AdmitNext(released).db /\ Consistent(db', T \ {row.slot})
      BY <1>4, <1>8, <2>4, <3>3 DEF reply, Preserves, Keeps
    <3>5. T \ Misreleases \subseteq T \ {row.slot}
      BY <3>2
    <3>. QED
      BY <3>4, <3>5 DEF Consistent
  <2>. QED
    BY <2>2, <2>3, <2>4
<1>. QED
  BY <1>13, <1>14 DEF StepKeeps

LEMMA RunnerDeletedStep ==
    ASSUME SchedulerTypeOK, NEW gone \in BOOLEAN, RunnerDeleted(gone)
    PROVE  StepKeeps
<1>1. /\ alarm.phase \in {"recovering", "cleaning"} /\ alarm.current # None
      /\ FinishRow(alarm.current, ~gone)
  BY DEF RunnerDeleted
<1>2. alarm.current \in StoppedRow
  BY <1>1 DEF SchedulerTypeOK, AlarmType
<1>3. (~gone) \in BOOLEAN
  OBVIOUS
<1>. QED
  BY <1>1, <1>2, <1>3, FinishRowStep

LEMMA NothingToDeleteStep ==
    ASSUME SchedulerTypeOK, NothingToDelete
    PROVE  StepKeeps
<1>1. PICK row \in alarm.work : FinishRow(row, FALSE)
  BY DEF NothingToDelete
<1>2. alarm.phase \in {"recovering", "cleaning"} /\ alarm.current = None
  BY DEF NothingToDelete
<1>3. row \in StoppedRow
  BY <1>2 DEF SchedulerTypeOK, AlarmType
<1>. QED
  BY <1>1, <1>2, <1>3, FinishRowStep

LEMMA RetryCleanupsStep ==
    ASSUME SchedulerTypeOK, RetryCleanups
    PROVE  StepKeeps
<1>1. PICK S \in (SUBSET CleanupRetries(db)) \ {{}} :
        alarm' = [alarm EXCEPT !.phase = "cleaning", !.work = StoppedRows(db, S)]
  BY DEF RetryCleanups
<1>2. StoppedRows(db, S) \subseteq StoppedRow
  BY StoppedRowsType DEF SchedulerTypeOK, CleanupRetries
<1>3. alarm.current = None /\ AlarmType(alarm)
  BY DEF RetryCleanups, AlarmAt, SchedulerTypeOK
<1>4. AlarmType(alarm') /\ alarm'.phase = "cleaning"
  BY <1>1, <1>2, <1>3 DEF AlarmType, Phases
<1>5. db' \in Database /\ SameJobs(db, db') /\ workflows' = workflows
  BY AwakeEffect DEF RetryCleanups
<1>. QED
  BY <1>4, <1>5, SameJobsConsistent, AlarmStepKeeps DEF SchedulerTypeOK

LEMMA RecoverStalledType ==
    ASSUME NEW slots \in [Slots -> SlotRow], NEW S
    PROVE  /\ RecoverStalled(slots, S) \in [Slots -> SlotRow]
           /\ \A s \in Slots : RecoverStalled(slots, S)[s].reserved = slots[s].reserved
<1>1. ASSUME NEW s \in Slots
      PROVE  LET row == [slots[s] EXCEPT !.updating = FALSE]
             IN  row \in SlotRow /\ row.reserved = slots[s].reserved
  BY DEF SlotRow
<1>. QED
  BY <1>1 DEF RecoverStalled

LEMMA PlanCapacityUpdatesStep ==
    ASSUME SchedulerTypeOK, PlanCapacityUpdates
    PROVE  StepKeeps
<1>1. PICK stalled \in SUBSET UpdatingSlots(db) :
        LET d == [Awake EXCEPT !.slots = RecoverStalled(@, stalled)]
        IN  /\ db' = d
            /\ \E S \in SUBSET Increases(d) :
                 alarm' = [alarm EXCEPT !.phase = "updating",
                                        !.work = DueSlots(d, S \cup DueReductions(d))]
  BY DEF PlanCapacityUpdates
<1>2. Awake \in Database /\ SameJobs(db, Awake)
  BY AwakeEffect
<1>3. db' \in Database /\ SameJobs(db, db')
  <2> DEFINE slots == RecoverStalled(Awake.slots, stalled)
  <2>1. slots \in [Slots -> SlotRow] /\ \A s \in Slots : slots[s].reserved = Awake.slots[s].reserved
    BY <1>2, DatabaseType, RecoverStalledType
  <2> HIDE DEF slots
  <2>2. db' = [Awake EXCEPT !.slots = slots]
    BY <1>1 DEF slots
  <2>. QED
    BY <1>2, <2>1, <2>2 DEF Database, SameJobs
<1>4. PICK S \in SUBSET Increases(db') :
        alarm' = [alarm EXCEPT !.phase = "updating", !.work = DueSlots(db', S \cup DueReductions(db'))]
  BY <1>1
<1>5. S \cup DueReductions(db') \in SUBSET Slots
  BY DEF Increases, DueReductions, CapacityChanges
<1>6. DueSlots(db', S \cup DueReductions(db')) \subseteq DueSlot
  BY <1>3, <1>5, DueSlotsType
<1>7. alarm.current = None /\ AlarmType(alarm) /\ workflows' = workflows
  BY DEF PlanCapacityUpdates, AlarmAt, SchedulerTypeOK
<1>8. AlarmType(alarm') /\ alarm'.phase = "updating"
  BY <1>4, <1>6, <1>7 DEF AlarmType, Phases
<1>. QED
  BY <1>3, <1>7, <1>8, SameJobsConsistent, AlarmStepKeeps DEF SchedulerTypeOK

LEMMA StartCapacityUpdateStep ==
    ASSUME SchedulerTypeOK, StartCapacityUpdate
    PROVE  StepKeeps
<1>1. /\ alarm.phase = "updating" /\ alarm.current = None /\ workflows' = workflows
      /\ AlarmType(alarm) /\ alarm.work \subseteq DueSlot /\ db \in Database
  BY DEF StartCapacityUpdate, SchedulerTypeOK, AlarmType
<1>2. PICK due \in NextDue(alarm.work) :
        \/ /\ db' = [db EXCEPT !.slots[due.slot].updating = TRUE,
                               !.slots[due.slot].updateGeneration = due.generation]
           /\ alarm' = [alarm EXCEPT !.work = @ \ {due}, !.current = due]
        \/ /\ alarm' = [alarm EXCEPT !.work = @ \ {due}]
           /\ db' = db
  BY DEF StartCapacityUpdate
<1>3. due \in alarm.work /\ due \in DueSlot
  BY <1>1 DEF NextDue
<1>4. AlarmType(alarm') /\ alarm'.phase = "updating"
  BY <1>1, <1>2, <1>3 DEF AlarmType
<1>5. db' \in Database /\ (Keeps(db, db'))
  <2>1. CASE db' = db
    BY <1>1, <2>1, KeepsItself
  <2>2. CASE db' = [db EXCEPT !.slots[due.slot].updating = TRUE,
                              !.slots[due.slot].updateGeneration = due.generation]
    <3> DEFINE s == due.slot
               row == [db.slots[s] EXCEPT !.updating = TRUE, !.updateGeneration = due.generation]
    <3>1. s \in Slots /\ due.generation \in Nat
      BY <1>3 DEF DueSlot
    <3>2. db.slots[s] \in SlotRow
      BY <1>1, <3>1, DatabaseType
    <3>3. row \in SlotRow /\ row.reserved = db.slots[s].reserved
      <4> HIDE DEF s
      <4>. QED
        BY <3>1, <3>2 DEF SlotRow
    <3>4. db' = [db EXCEPT !.slots[s] = row]
      BY <1>1, <2>2, <3>1, DatabaseType DEF Database, SlotRow
    <3> HIDE DEF row, s
    <3>. QED
      BY <1>1, <3>1, <3>3, <3>4, SlotUpdateConsistent
  <2>. QED
    BY <1>2, <2>1, <2>2
<1>. QED
  BY <1>1, <1>4, <1>5, AlarmStepKeeps DEF SchedulerTypeOK

LEMMA FinishCapacityUpdateStep ==
    ASSUME SchedulerTypeOK, NEW succeeded \in BOOLEAN, FinishCapacityUpdate(succeeded)
    PROVE  StepKeeps
<1> DEFINE due == alarm.current
           row == db.slots[due.slot]
           updating == row.updating /\ row.updateGeneration # due.generation
           new == [row EXCEPT !.updating = updating]
           reply == IF succeeded THEN CapacityPrepared(db, due.slot, due.generation)
                    ELSE NoAdmission([db EXCEPT !.slots[due.slot] = new])
<1>1. /\ alarm.phase = "updating" /\ due \in DueSlot /\ workflows' = workflows
      /\ AlarmType(alarm) /\ alarm.work \subseteq DueSlot /\ db \in Database
  BY DEF FinishCapacityUpdate, SchedulerTypeOK, AlarmType
<1>2. due.slot \in Slots /\ due.generation \in Nat /\ row \in SlotRow /\ updating \in BOOLEAN
  BY <1>1, DatabaseType DEF DueSlot
<1>3. new \in SlotRow /\ new.reserved = row.reserved
  <2> HIDE DEF row, updating
  <2>. QED
    BY <1>2 DEF SlotRow
<1>4. /\ db' = reply.db
      /\ alarm' = [alarm EXCEPT !.current = None, !.admissions = @ \cup reply.admissions]
  <2>1. [db EXCEPT !.slots[due.slot].updating = @ /\ row.updateGeneration # due.generation]
          = [db EXCEPT !.slots[due.slot] = new]
    BY <1>1, <1>2, DatabaseType DEF Database, SlotRow
  <2>. QED
    BY <2>1 DEF FinishCapacityUpdate
<1> HIDE DEF new
<1>5. Preserves(db, reply)
  <2>1. CASE succeeded
    BY <1>1, <1>2, <2>1, CapacityPreparedPreserves
  <2>2. CASE ~succeeded
    BY <1>1, <1>2, <1>3, <2>2, SlotUpdateConsistent, NoAdmissionPreserves
  <2>. QED
    BY <2>1, <2>2
<1> HIDE DEF reply
<1>6. AlarmType(alarm') /\ alarm'.phase = "updating"
  BY <1>1, <1>4, <1>5 DEF AlarmType, Preserves
<1>. QED
  BY <1>1, <1>4, <1>5, <1>6, AlarmStepKeeps DEF SchedulerTypeOK, Preserves

LEMMA CheckCapacityHoldsStep ==
    ASSUME SchedulerTypeOK, CheckCapacityHolds
    PROVE  StepKeeps
<1>1. /\ alarm' = [alarm EXCEPT !.phase = "holding", !.work = HeldSlots(db)]
      /\ workflows' = workflows /\ alarm.current = None /\ AlarmType(alarm)
  BY DEF CheckCapacityHolds, AlarmAtHolds, AlarmAt, SchedulerTypeOK
<1>2. HeldSlots(db) \subseteq Slots
  BY DEF HeldSlots
<1>3. AlarmType(alarm') /\ alarm'.phase = "holding"
  BY <1>1, <1>2 DEF AlarmType, Phases
<1>4. db' \in Database /\ SameJobs(db, db')
  BY AwakeEffect DEF CheckCapacityHolds
<1>. QED
  BY <1>1, <1>3, <1>4, SameJobsConsistent, AlarmStepKeeps DEF SchedulerTypeOK

LEMMA ReleaseHoldPreserves ==
    ASSUME NEW d \in Database, NEW s \in Slots
    PROVE  ReleaseHold(d, s) \in Database /\ (Keeps(d, ReleaseHold(d, s)))
<1> DEFINE row == d.slots[s]
           reductions == PlannedReductions(d.slots, d.releasedBefore, s, row.pending, row.desired)
           new == [row EXCEPT !.reclaimPending = FALSE]
<1>1. \/ ReleaseHold(d, s) = d
      \/ ReleaseHold(d, s) = ScheduleCapacityReclamation(d, reductions)
      \/ ReleaseHold(d, s) = [d EXCEPT !.slots[s].reclaimPending = FALSE]
  BY DEF ReleaseHold
<1>2. CASE ReleaseHold(d, s) = ScheduleCapacityReclamation(d, reductions)
  <2>1. reductions \in SUBSET [slot : Slots, target : Nat]
    BY DatabaseType, PlannedReductionsType
  <2> HIDE DEF reductions
  <2>2. ScheduleCapacityReclamation(d, reductions) \in Database
        /\ SameJobs(d, ScheduleCapacityReclamation(d, reductions))
    BY <2>1, ReclamationEffect DEF SameJobs
  <2>. QED
    BY <1>2, <2>2, SameJobsConsistent
<1>3. CASE ReleaseHold(d, s) = [d EXCEPT !.slots[s].reclaimPending = FALSE]
  <2>1. [d EXCEPT !.slots[s].reclaimPending = FALSE] = [d EXCEPT !.slots[s] = new]
    BY DatabaseType DEF Database, SlotRow
  <2>2. row \in SlotRow
    BY DatabaseType
  <2>3. new \in SlotRow /\ new.reserved = row.reserved
    <3> HIDE DEF row
    <3>. QED
      BY <2>2 DEF SlotRow
  <2> HIDE DEF new
  <2>. QED
    BY <1>3, <2>1, <2>3, SlotUpdateConsistent
<1>. QED
  BY <1>1, <1>2, <1>3, KeepsItself

LEMMA CheckCapacityHoldStep ==
    ASSUME SchedulerTypeOK, CheckCapacityHold
    PROVE  StepKeeps
<1>1. PICK s \in FirstById(alarm.work) :
        db' = ReleaseHold(db, s) /\ alarm' = [alarm EXCEPT !.work = @ \ {s}]
  BY DEF CheckCapacityHold
<1>2. /\ alarm.phase = "holding" /\ workflows' = workflows /\ AlarmType(alarm)
      /\ alarm.work \subseteq Slots /\ alarm.current = None /\ db \in Database
  BY DEF CheckCapacityHold, SchedulerTypeOK, AlarmType
<1>3. s \in Slots
  BY <1>2 DEF FirstById
<1>4. AlarmType(alarm') /\ alarm'.phase = "holding"
  BY <1>1, <1>2 DEF AlarmType
<1>. QED
  BY <1>1, <1>2, <1>3, <1>4, ReleaseHoldPreserves, AlarmStepKeeps DEF SchedulerTypeOK

LEMMA AlarmEndsStep ==
    ASSUME SchedulerTypeOK, AlarmEnds
    PROVE  StepKeeps
<1> DEFINE reply == AdmitNext(Awake)
           admissions == alarm.admissions \cup ReadyAdmissions(db) \cup reply.admissions
<1>1. alarm' = NoAlarm /\ db' = ScheduleWorkAlarm(reply.db) /\ StartWorkflows(admissions)
  BY DEF AlarmEnds, LastAdmissions
<1>2. Awake \in Database /\ SameJobs(db, Awake) /\ db \in Database
      /\ alarm.admissions \subseteq Admission /\ workflows \subseteq Admission
  BY AwakeEffect DEF SchedulerTypeOK, AlarmType
<1>3. Preserves(Awake, reply)
  BY <1>2, AdmitNextPreserves
<1>4. admissions \subseteq Admission
  BY <1>2, <1>3, ReadyAdmissionsType DEF Preserves
<1> HIDE DEF reply, admissions
<1>5. ScheduleWorkAlarm(reply.db) \in Database /\ SameJobs(reply.db, ScheduleWorkAlarm(reply.db))
  BY <1>3, ScheduleWorkAlarmEffect DEF Preserves
<1>6. Keeps(db, db')
  BY <1>1, <1>2, <1>3, <1>5, SameJobsConsistent DEF Preserves, Keeps
<1>7. workflows' \subseteq Admission
  BY <1>1, <1>2, <1>4, StartWorkflowsType
<1>8. AlarmType(alarm') /\ alarm'.phase = "idle"
  BY <1>1, NoAlarmType DEF NoAlarm
<1>. QED
  BY <1>1, <1>5, <1>6, <1>7, <1>8, AlarmStepKeeps

-----------------------------------------------------------------------------
(* The constructor, and the initial state. *)

\* reconcileSlotReservations counts every slot's reservations afresh.
LEMMA ReconstructedEffect ==
    ASSUME NEW d \in Database, NEW stalled
    PROVE  /\ Reconstructed(d, stalled) \in Database
           /\ Waiting(d) => Consistent(Reconstructed(d, stalled), Slots)
<1> DEFINE releasing == WithStatus(d, {"releasing"})
           vacated == {s \in Slots : \E j \in releasing : d.jobs[j].slot = s}
           held(s) == Cardinality(ActiveOn(d, s) \ releasing)
           counted(s) == [d.slots[s] EXCEPT !.reserved = held(s)]
           settled == [s \in Slots |-> IF s \in vacated THEN ReleasedSlot(counted(s), held(s))
                                       ELSE counted(s)]
           completed(j) == [d.jobs[j] EXCEPT !.status = "completed", !.due = FALSE]
           jobs == [j \in Jobs |-> IF j \in releasing THEN completed(j) ELSE d.jobs[j]]
           slots == RecoverStalled(settled, stalled)
           released == ReleasedNow(d.releasedBefore, vacated)
           e == Reconstructed(d, stalled)
<1>1. e = [d EXCEPT !.jobs = jobs, !.slots = slots, !.releasedBefore = released]
  BY DEF Reconstructed
<1>2. \A s \in Slots : held(s) \in Nat
  BY ActiveOnType, FS_Subset, FS_CardinalityType
<1>3. \A s \in Slots : settled[s] \in SlotRow /\ settled[s].reserved = held(s)
  <2>1. ASSUME NEW s \in Slots
        PROVE  settled[s] \in SlotRow /\ settled[s].reserved = held(s)
    <3> DEFINE row == d.slots[s]
               n == held(s)
    <3>1. row \in SlotRow /\ n \in Nat
      BY <1>2, DatabaseType
    <3>2. settled[s] = IF s \in vacated THEN ReleasedSlot([row EXCEPT !.reserved = n], n)
                       ELSE [row EXCEPT !.reserved = n]
      OBVIOUS
    <3> HIDE DEF row, n, vacated, settled
    <3>3. [row EXCEPT !.reserved = n] \in SlotRow /\ [row EXCEPT !.reserved = n].reserved = n
      BY <3>1 DEF SlotRow
    <3>4. settled[s] \in SlotRow /\ settled[s].reserved = n
      BY <3>1, <3>2, <3>3, ReleasedSlotType
    <3>. QED
      BY <3>4 DEF n
  <2>. QED
    BY <2>1
<1>4. settled \in [Slots -> SlotRow]
  BY <1>3
<1>5. jobs \in [Jobs -> JobRow]
  <2>1. ASSUME NEW j \in Jobs
        PROVE  completed(j) \in JobRow
    <3> DEFINE row == d.jobs[j]
    <3>1. row \in JobRow
      BY DatabaseType
    <3> HIDE DEF row
    <3>2. [row EXCEPT !.status = "completed", !.due = FALSE] \in JobRow
      BY <3>1 DEF JobRow, JobStatus
    <3>. QED
      BY <3>2 DEF row
  <2>. QED
    BY <2>1, DatabaseType
<1>6. released \in SUBSET (Slots \X Slots)
  BY DatabaseType DEF ReleasedNow
<1>7. \A j \in Jobs :
        /\ j \in releasing => jobs[j].status = "completed"
        /\ j \notin releasing => jobs[j] = d.jobs[j]
  BY DatabaseType DEF JobRow
<1>8. \A j \in Jobs : j \in releasing <=> d.jobs[j].status = "releasing"
  BY DEF WithStatus
<1> HIDE DEF settled, jobs, released, releasing, vacated
<1>9. /\ slots \in [Slots -> SlotRow]
      /\ \A s \in Slots : slots[s].reserved = Cardinality(ActiveOn(d, s) \ releasing)
  BY <1>3, <1>4, RecoverStalledType
<1> HIDE DEF slots, e
<1>10. e \in Database /\ e.jobs = jobs /\ e.slots = slots
  BY <1>1, <1>5, <1>6, <1>9 DEF Database
<1>11. ASSUME Waiting(d)
       PROVE  Consistent(e, Slots)
  <2>1. Waiting(e)
    BY <1>7, <1>8, <1>10, <1>11 DEF Waiting, WithStatus
  <2>2. ASSUME NEW s \in Slots
        PROVE  CoveredOn(e, s)
    <3>1. ActiveOn(e, s) = ActiveOn(d, s) \ releasing
      <4>1. ASSUME NEW j \in Jobs
            PROVE  j \in ActiveOn(e, s) <=> j \in ActiveOn(d, s) \ releasing
        BY <1>7, <1>8, <1>10 DEF ActiveOn, Active, WithStatus, ACTIVE_JOB_STATES
      <4>2. ActiveOn(e, s) \subseteq Jobs /\ ActiveOn(d, s) \subseteq Jobs
        BY DEF ActiveOn, Active, WithStatus
      <4>. QED
        BY <4>1, <4>2
    <3>2. Cardinality(ActiveOn(e, s)) \in Nat
      BY ActiveOnType
    <3>. QED
      BY <1>9, <1>10, <3>1, <3>2 DEF CoveredOn
  <2>. QED
    BY <2>1, <2>2 DEF Consistent
<1>. QED
  BY <1>10, <1>11 DEF e

LEMMA RestartStep ==
    ASSUME SchedulerTypeOK, Restart
    PROVE  StepKeeps /\ (Waiting(db) => Consistent(db', Slots))
<1>1. PICK stalled \in SUBSET UpdatingSlots(db) :
        db' = ScheduleWorkAlarm([Reconstructed(db, stalled) EXCEPT
                                   !.alarm = @ \/ alarm.phase # "idle"])
  BY DEF Restart
<1> DEFINE e == Reconstructed(db, stalled)
           woken == e.alarm \/ alarm.phase # "idle"
           f == [e EXCEPT !.alarm = woken]
<1>2. e \in Database /\ (Waiting(db) => Consistent(e, Slots))
  BY ReconstructedEffect DEF SchedulerTypeOK
<1>3. woken \in BOOLEAN
  OBVIOUS
<1>4. db' = ScheduleWorkAlarm(f)
  BY <1>1
<1> HIDE DEF e, woken
<1>5. f \in Database /\ SameJobs(e, f)
  BY <1>2, <1>3 DEF Database, SameJobs
<1> HIDE DEF f
<1>6. db' \in Database /\ SameJobs(f, db')
  BY <1>4, <1>5, ScheduleWorkAlarmEffect
<1>7. Waiting(db) => Consistent(db', Slots)
  BY <1>2, <1>5, <1>6, SameJobsConsistent DEF Keeps
<1>9. Keeps(db, db')
  BY <1>7 DEF Keeps, Consistent
<1>8. alarm' = NoAlarm /\ workflows' = workflows /\ NoAlarm.phase = "idle"
  BY DEF Restart, NoAlarm
<1>. QED
  BY <1>6, <1>7, <1>8, <1>9, NoAlarmType, AlarmStepKeeps DEF SchedulerTypeOK

LEMMA InitialSlotType ==
    ASSUME NEW s \in Slots
    PROVE  InitialSlot(s) \in SlotRow
<1> DEFINE profile == IF s \in CustomSlots THEN None ELSE CHOOSE p \in Profiles : PresetSlot[p] = s
           state == IF s \in CustomSlots THEN "idle" ELSE "ready"
<1>1. profile \in Profiles \cup {None}
  BY DEF CustomSlots
<1>2. state \in CONFIGURATION_STATES
  BY DEF CONFIGURATION_STATES
<1>3. InitialSlot(s) =
        [profile |-> profile, state |-> state, owner |-> None, reserved |-> 0, desired |-> 1,
         applied |-> 1, updating |-> FALSE, updateGeneration |-> 0, pending |-> None,
         reclaimPending |-> FALSE, generation |-> 0]
  BY DEF InitialSlot
<1> HIDE DEF profile, state
<1>. QED
  BY <1>1, <1>2, <1>3 DEF SlotRow

LEMMA NoJobRowType ==
    ASSUME NEW j \in Jobs
    PROVE  /\ NoJobRow(j) \in JobRow
           /\ NoJobRow(j).status = "unknown" /\ NoJobRow(j).slot = None
  BY DEF NoJobRow, JobRow, JobStatus, RunnerName, RunnerNames

\* The empty tables of a new Durable Object are in order.
LEMMA InitialState ==
    ASSUME Init
    PROVE  SchedulerTypeOK /\ Consistent(db, Slots)
<1>1. /\ db.jobs = [j \in Jobs |-> NoJobRow(j)] /\ db.slots = [s \in Slots |-> InitialSlot(s)]
      /\ db \in Database
  BY NoJobRowType, InitialSlotType DEF Init, Database
<1>2. SchedulerTypeOK
  BY <1>1, NoAlarmType DEF Init, SchedulerTypeOK
<1>3. \A s \in Slots : ActiveOn(db, s) = {} /\ db.slots[s].reserved = 0
  BY <1>1, NoJobRowType DEF ActiveOn, Active, WithStatus, ACTIVE_JOB_STATES, InitialSlot
<1>4. \A s \in Slots : CoveredOn(db, s)
  BY <1>3, FS_EmptySet DEF CoveredOn
<1>5. Waiting(db)
  BY <1>1, NoJobRowType DEF Waiting, WithStatus
<1>. QED
  BY <1>2, <1>4, <1>5 DEF Consistent

-----------------------------------------------------------------------------
(* The theorems. *)

LEMMA NextStep ==
    ASSUME SchedulerTypeOK, [Next]_schedulerVars
    PROVE  StepKeeps
<1>1. CASE UNCHANGED schedulerVars
  BY <1>1, ConsistentOnFewer DEF schedulerVars, StepKeeps, SchedulerTypeOK, AlarmType
<1>2. CASE Call
  BY <1>2, CallStep
<1>3. CASE AlarmNext
  <2>1. ASSUME NEW gone \in BOOLEAN, RunnerDeleted(gone)
        PROVE  StepKeeps
    BY <2>1, RunnerDeletedStep
  <2>2. ASSUME NEW succeeded \in BOOLEAN, FinishCapacityUpdate(succeeded)
        PROVE  StepKeeps
    BY <2>2, FinishCapacityUpdateStep
  <2>. QED
    BY <1>3, <2>1, <2>2, RecoverStoppedRunnersStep, DeleteRunnerStep, NothingToDeleteStep,
       RetryCleanupsStep, PlanCapacityUpdatesStep, StartCapacityUpdateStep,
       CheckCapacityHoldsStep, CheckCapacityHoldStep, AlarmEndsStep DEF AlarmNext
<1>4. CASE Restart
  BY <1>4, RestartStep
<1>. QED
  BY <1>1, <1>2, <1>3, <1>4 DEF Next

\* Whatever calls arrive, with whatever arguments, wherever the alarm waits and
\* wherever the instance dies: the tables and the rows in the alarm's hands keep
\* their types; no reservation count and no ceiling becomes negative.
THEOREM SchedulerTypes == Spec => []SchedulerTypeOK
<1>1. Init => SchedulerTypeOK
  BY InitialState
<1>2. SchedulerTypeOK /\ [Next]_schedulerVars => SchedulerTypeOK'
  BY NextStep DEF StepKeeps
<1>. QED
  BY <1>1, <1>2, PTL DEF Spec

\* A job that waits holds no slot, so that nothing but its admission adds it to one.
THEOREM WaitingJobsHoldNothing == Spec => []Waiting(db)
<1>1. Init => Waiting(db)
  BY InitialState DEF Consistent
<1>2. SchedulerTypeOK /\ Waiting(db) /\ [Next]_schedulerVars => Waiting(db)'
  <2> SUFFICES ASSUME SchedulerTypeOK, Waiting(db), [Next]_schedulerVars
               PROVE  Waiting(db')
    BY DEF Waiting, WithStatus
  <2>1. Consistent(db, {})
    BY DEF Consistent
  <2>2. Consistent(db', {} \ Misreleases)
    BY <2>1, NextStep DEF StepKeeps
  <2>. QED
    BY <2>2 DEF Consistent
<1>. QED
  BY <1>1, <1>2, SchedulerTypes, PTL DEF Spec

\* The scheduler forgets no reservation: whoever calls, in any order and with any
\* arguments, and wherever the instance dies, a slot that counts its active jobs goes on
\* to count them, unless the step releases a stale row on that slot
\* (recoverStoppedRunners).
THEOREM ReservationsAreCovered ==
    Spec => [][\A s \in Slots \ Misreleases : CoveredOn(db, s) => CoveredOn(db', s)]_schedulerVars
<1>1. ASSUME SchedulerTypeOK, Waiting(db), [Next]_schedulerVars
      PROVE  \A s \in Slots \ Misreleases : CoveredOn(db, s) => CoveredOn(db', s)
  <2> SUFFICES ASSUME NEW s \in Slots \ Misreleases, CoveredOn(db, s)
               PROVE  CoveredOn(db', s)
    OBVIOUS
  <2>1. Consistent(db, {s}) /\ {s} \in SUBSET Slots
    BY <1>1 DEF Consistent
  <2>. QED
    BY <1>1, <2>1, NextStep DEF StepKeeps, Consistent
<1>. QED
  BY <1>1, SchedulerTypes, WaitingJobsHoldNothing, PTL DEF Spec

\* What a stale row has taken from a slot is counted again by the next instance
\* (reconcileSlotReservations): after a restart every slot counts its active jobs.
THEOREM RestartsRecount == Spec => [][Restart => \A s \in Slots : CoveredOn(db', s)]_schedulerVars
<1>1. ASSUME SchedulerTypeOK, Waiting(db), Restart
      PROVE  \A s \in Slots : CoveredOn(db', s)
  BY <1>1, RestartStep DEF Consistent
<1>. QED
  BY <1>1, SchedulerTypes, WaitingJobsHoldNothing, PTL
=============================================================================
