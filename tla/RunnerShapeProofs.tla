-------------------------- MODULE RunnerShapeProofs --------------------------
(***************************************************************************)
(* No slot changes its machine shape under a job, for every account, set   *)
(* of jobs, profiles and slots, whoever calls the scheduler.               *)
(*                                                                         *)
(* A slot's shape is the profile it has or, while it is being configured,  *)
(* the one it is going to have.  It changes in two places: releaseJob      *)
(* gives up a configuration with its last reservation, and admitNext       *)
(* configures an idle slot.  That no job is there rests on the             *)
(* reservations: a slot without them has no active job (Consistent).       *)
(*                                                                         *)
(* The alarm may release a job from a copy that is stale: the slot of that *)
(* row is then out of the reckoning, and everything is stated of the other *)
(* slots, T.                                                               *)
(*                                                                         *)
(* That a slot being configured is never left without a job is proved on   *)
(* top of it (Held), as long as no stale row was released, and of the pool *)
(* only: a caller who sent the scheduler any name at any moment could take *)
(* the slot's one job away.                                                *)
(***************************************************************************)
EXTENDS RunnerPoolProofs

-----------------------------------------------------------------------------
(* The invariant. *)

\* A slot in use knows its profile, which is a custom one for a custom slot and the one
\* it was made for for a preset slot; only a slot being configured has an owner.
SlotShaped(row, s) ==
    /\ row.state # "idle" => CandidateProfile(row) \in Profiles
    /\ row.owner # None => row.state = "configuring"
    /\ s \in CustomSlots /\ row.state # "idle" => PresetSlot[CandidateProfile(row)] = None
    /\ s \notin CustomSlots =>
           row.state = "ready" /\ row.profile \in Profiles /\ PresetSlot[row.profile] = s

\* No two custom slots have, or are being given, the same profile.
ShapesDiffer(d) ==
    \A s, t \in CustomSlots :
        s # t /\ d.slots[s].state # "idle" /\ d.slots[t].state # "idle"
            => CandidateProfile(d.slots[s]) # CandidateProfile(d.slots[t])

HasShape(row, profile) == row.state # "idle" /\ CandidateProfile(row) = profile

JobsShaped(d, T) ==
    \A j \in Active(d) : d.jobs[j].slot \in T => HasShape(d.slots[d.jobs[j].slot], JobProfile[j])

InShape(d, T) ==
    /\ Consistent(d, T)
    /\ \A s \in Slots : SlotShaped(d.slots[s], s)
    /\ ShapesDiffer(d)
    /\ JobsShaped(d, T)

-----------------------------------------------------------------------------
(* What an update does to a slot and to the holders of slots. *)

SameShape(row, next) ==
    /\ next.profile = row.profile /\ next.state = row.state
    /\ next.owner = row.owner /\ next.pending = row.pending

\* releaseJob takes a configuration back with the last reservation.
Abandons(row, next) ==
    row.state = "configuring" /\ next.state = "idle" /\ next.owner = None /\ next.reserved = 0

\* configurationReady makes the slot what it was going to be.
Configures(row, next) ==
    /\ row.state = "configuring" /\ row.pending # None
    /\ next.state = "ready" /\ next.owner = None /\ next.profile = row.pending

SlotKeeps(row, next) == SameShape(row, next) \/ Abandons(row, next) \/ Configures(row, next)

\* Who holds a slot has it from a job of the same profile, most often from itself.
Follows(d, e, j) ==
    e.jobs[j].status \in ACTIVE_JOB_STATES /\ e.jobs[j].slot # None =>
        \E k \in Jobs : /\ d.jobs[k].status \in ACTIVE_JOB_STATES
                        /\ d.jobs[k].slot = e.jobs[j].slot /\ JobProfile[k] = JobProfile[j]

\* A slot whose reservations are all gone has no active job.
LEMMA NobodyHolds ==
    ASSUME NEW T \in SUBSET Slots, NEW d \in Database, Consistent(d, T), NEW s \in T, d.slots[s].reserved = 0
    PROVE  ActiveOn(d, s) = {}
<1>1. /\ IsFiniteSet(ActiveOn(d, s)) /\ Cardinality(ActiveOn(d, s)) \in Nat
      /\ Cardinality(ActiveOn(d, s)) <= 0
  BY ActiveOnType DEF Consistent, CoveredOn
<1>2. Cardinality(ActiveOn(d, s)) = 0
  BY <1>1
<1> QED BY <1>1, <1>2, FS_EmptySet

\* A slot that is in use after an update was in use before, and for the same profile.
LEMMA InUseBefore ==
    ASSUME NEW row, NEW next, SlotKeeps(row, next), next.state # "idle"
    PROVE  row.state # "idle" /\ CandidateProfile(next) = CandidateProfile(row)
BY DEF SlotKeeps, SameShape, Abandons, Configures, CandidateProfile

LEMMA KeepsShape ==
    ASSUME NEW T \in SUBSET Slots, NEW d \in Database, NEW e \in Database, InShape(d, T), Consistent(e, T),
           \A s \in Slots : SlotKeeps(d.slots[s], e.slots[s]),
           \A j \in Jobs : Follows(d, e, j)
    PROVE  InShape(e, T)
<1>1. ASSUME NEW s \in Slots PROVE SlotShaped(e.slots[s], s)
  <2>1. SlotShaped(d.slots[s], s) /\ SlotKeeps(d.slots[s], e.slots[s])
    BY DEF InShape
  <2>2. e.slots[s].state # "idle" =>
          d.slots[s].state # "idle" /\ CandidateProfile(e.slots[s]) = CandidateProfile(d.slots[s])
    BY <2>1, InUseBefore
  <2>3. e.slots[s].owner # None => e.slots[s].state = "configuring"
    BY <2>1 DEF SlotShaped, SlotKeeps, SameShape, Abandons, Configures
  <2>4. s \notin CustomSlots => SameShape(d.slots[s], e.slots[s])
    BY <2>1 DEF SlotShaped, SlotKeeps, Abandons, Configures
  <2> QED BY <2>1, <2>2, <2>3, <2>4 DEF SlotShaped, SameShape
<1>2. ASSUME NEW j \in Active(e), e.jobs[j].slot \in T
      PROVE  HasShape(e.slots[e.jobs[j].slot], JobProfile[j])
  <2> DEFINE s == e.jobs[j].slot
  <2>1. j \in Jobs /\ e.jobs[j].status \in ACTIVE_JOB_STATES
    BY DEF Active, WithStatus
  <2>2. s \in Slots /\ s # None
    BY <1>2, PolicyAssumption
  <2>3. PICK k \in Jobs : /\ d.jobs[k].status \in ACTIVE_JOB_STATES
                          /\ d.jobs[k].slot = s /\ JobProfile[k] = JobProfile[j]
    BY <2>1, <2>2 DEF Follows
  <2>4. HasShape(d.slots[s], JobProfile[j])
    BY <1>2, <2>3 DEF InShape, JobsShaped, Active, WithStatus
  <2>5. ~Abandons(d.slots[s], e.slots[s])
    <3>1. j \in ActiveOn(e, s)
      BY DEF ActiveOn
    <3> QED BY <1>2, <3>1, NobodyHolds DEF Abandons
  <2>6. SameShape(d.slots[s], e.slots[s]) \/ Configures(d.slots[s], e.slots[s])
    BY <2>2, <2>5 DEF SlotKeeps
  <2> QED BY <2>4, <2>6 DEF HasShape, CandidateProfile, SameShape, Configures
<1>3. ShapesDiffer(e)
  <2> SUFFICES ASSUME NEW s \in CustomSlots, NEW t \in CustomSlots, s # t,
                      e.slots[s].state # "idle", e.slots[t].state # "idle"
               PROVE  CandidateProfile(e.slots[s]) # CandidateProfile(e.slots[t])
    BY DEF ShapesDiffer
  <2>1. s \in Slots /\ t \in Slots
    BY DEF CustomSlots
  <2>2. /\ d.slots[s].state # "idle" /\ CandidateProfile(e.slots[s]) = CandidateProfile(d.slots[s])
        /\ d.slots[t].state # "idle" /\ CandidateProfile(e.slots[t]) = CandidateProfile(d.slots[t])
    BY <2>1, InUseBefore
  <2> QED BY <2>2 DEF InShape, ShapesDiffer
<1> QED BY <1>1, <1>2, <1>3 DEF InShape, JobsShaped

LEMMA InShapeOnFewer ==
    ASSUME NEW d, NEW T, NEW U, InShape(d, T)
    PROVE  InShape(d, T \ U)
BY ConsistentOnFewer DEF InShape, JobsShaped

-----------------------------------------------------------------------------
(* Who holds a slot that is being configured. *)

\* A job past its admission that has not given its reservation back.
Underway == ACTIVE_JOB_STATES \ {"admitted"}

OnConfiguring(d, j) ==
    /\ d.jobs[j].status \in Underway /\ d.jobs[j].slot # None
    /\ d.slots[d.jobs[j].slot].state = "configuring"

\* A slot being configured counts the jobs that hold it, and there is one.
HeldOn(d, s) ==
    d.slots[s].state = "configuring" =>
        d.slots[s].reserved # 0 /\ d.slots[s].reserved = Cardinality(ActiveOn(d, s))
Held(d) == \A s \in Slots : HeldOn(d, s)

OwnName(d, j) == RunnerName(j, d.jobs[j].attempt)

\* A job that is under way on a slot being configured was so before, under the same
\* name and beside the same owner, and its own runner has not begun to run.
Roots(d, e, j) ==
    OnConfiguring(e, j) =>
        /\ OnConfiguring(d, j) /\ e.jobs[j].slot = d.jobs[j].slot
        /\ e.jobs[j].runner = d.jobs[j].runner /\ e.jobs[j].attempt = d.jobs[j].attempt
        /\ e.slots[e.jobs[j].slot].owner = d.slots[e.jobs[j].slot].owner
        /\ e.jobs[j].status = "running" => d.jobs[j].status = "running" \/ d.jobs[j].runner # OwnName(d, j)
Rooted(d, e) == \A j \in Jobs : Roots(d, e, j)

\* What most updates do, where no stale row was released.
Sound(d, e, T) ==
    /\ InShape(e, T)
    /\ T = Slots => Rooted(d, e) /\ (Held(d) => Held(e))

LEMMA SoundTwice ==
    ASSUME NEW T \in SUBSET Slots, NEW d, NEW m, NEW e, Sound(d, m, T), Sound(m, e, T)
    PROVE  Sound(d, e, T)
BY DEF Sound, Rooted, Roots, OwnName

LEMMA NothingIsSound ==
    ASSUME NEW T \in SUBSET Slots, NEW d, InShape(d, T)
    PROVE  Sound(d, d, T)
BY DEF Sound, Rooted, Roots

Stays(d, e, j) ==
    e.jobs[j].status \in Underway /\ e.jobs[j].slot # None =>
        /\ d.jobs[j].status \in Underway /\ e.jobs[j].slot = d.jobs[j].slot
        /\ e.jobs[j].runner = d.jobs[j].runner /\ e.jobs[j].attempt = d.jobs[j].attempt
        /\ e.jobs[j].status = "running" => d.jobs[j].status = "running" \/ d.jobs[j].runner # OwnName(d, j)

LEMMA KeepsRoots ==
    ASSUME NEW d \in Database, NEW e \in Database,
           \A s \in Slots : SlotKeeps(d.slots[s], e.slots[s])
    PROVE  \A j \in Jobs : Stays(d, e, j) => Roots(d, e, j)
<1> SUFFICES ASSUME NEW j \in Jobs, Stays(d, e, j), OnConfiguring(e, j)
             PROVE  Roots(d, e, j)
  BY DEF Roots
<1> DEFINE s == e.jobs[j].slot
<1>1. s \in Slots /\ e.slots[s].state = "configuring"
  BY DatabaseType DEF OnConfiguring, JobRow
<1>2. SlotKeeps(d.slots[s], e.slots[s])
  BY <1>1
<1>3. SameShape(d.slots[s], e.slots[s])
  BY <1>1, <1>2 DEF SlotKeeps, Abandons, Configures
<1> QED BY <1>1, <1>3 DEF OnConfiguring, Stays, SameShape, Roots

Holding(row, s) == row.status \in ACTIVE_JOB_STATES /\ row.slot = s
SameHolder(d, e, j) == \A s \in Slots : Holding(e.jobs[j], s) <=> Holding(d.jobs[j], s)

LEMMA KeepsHeld ==
    ASSUME NEW d, NEW e, Held(d),
           \A s \in Slots : /\ SlotKeeps(d.slots[s], e.slots[s])
                            /\ e.slots[s].reserved = d.slots[s].reserved,
           \A j \in Jobs : SameHolder(d, e, j)
    PROVE  Held(e)
<1> SUFFICES ASSUME NEW s \in Slots PROVE HeldOn(e, s)
  BY DEF Held
<1>1. ActiveOn(e, s) = ActiveOn(d, s)
  BY DEF ActiveOn, Active, WithStatus, SameHolder, Holding
<1>2. e.slots[s].state = "configuring" => d.slots[s].state = "configuring"
  BY DEF SlotKeeps, SameShape, Abandons, Configures
<1> QED BY <1>1, <1>2 DEF Held, HeldOn

-----------------------------------------------------------------------------
(* Updates of one table. *)

\* Updates that leave the jobs and the reservations alone.
LEMMA SlotsKeepShape ==
    ASSUME NEW T \in SUBSET Slots, NEW d \in Database, NEW e \in Database, SameJobs(d, e), InShape(d, T),
           \A s \in Slots : SlotKeeps(d.slots[s], e.slots[s])
    PROVE  Sound(d, e, T)
<1>1. Consistent(e, T)
  BY SameJobsConsistent DEF InShape, Keeps
<1>2. \A j \in Jobs : Follows(d, e, j) /\ Stays(d, e, j) /\ SameHolder(d, e, j)
  BY DEF Follows, Stays, SameHolder, SameJobs
<1>3. InShape(e, T)
  BY <1>1, <1>2, KeepsShape
<1>4. Rooted(d, e)
  BY <1>2, KeepsRoots DEF Rooted
<1>5. Held(d) => Held(e)
  BY <1>2, KeepsHeld DEF SameJobs
<1> QED BY <1>3, <1>4, <1>5 DEF Sound

\* An update of one slot.
LEMMA SetSlotShape ==
    ASSUME NEW T \in SUBSET Slots, NEW d \in Database, NEW s \in Slots, NEW row \in SlotRow,
           row.reserved = d.slots[s].reserved, SlotKeeps(d.slots[s], row), InShape(d, T)
    PROVE  Sound(d, [d EXCEPT !.slots[s] = row], T)
<1> DEFINE e == [d EXCEPT !.slots[s] = row]
<1>1. /\ e \in Database /\ e.jobs = d.jobs
      /\ e.slots[s] = row /\ \A t \in Slots \ {s} : e.slots[t] = d.slots[t]
  BY SetSlotType
<1> HIDE DEF e
<1>2. SameJobs(d, e)
  BY <1>1 DEF SameJobs
<1>3. \A t \in Slots : SlotKeeps(d.slots[t], e.slots[t])
  BY <1>1 DEF SlotKeeps, SameShape
<1>4. Sound(d, e, T)
  BY <1>1, <1>2, <1>3, SlotsKeepShape
<1> QED BY <1>4 DEF e

\* An update of one job that gives it no slot; its holding may end.
LEMMA SetJobShape ==
    ASSUME NEW T \in SUBSET Slots, NEW d \in Database, NEW j \in Jobs, NEW row \in JobRow, InShape(d, T),
           row.status \in ACTIVE_JOB_STATES =>
               row.slot = None \/ (d.jobs[j].status \in ACTIVE_JOB_STATES /\ row.slot = d.jobs[j].slot),
           row.status \in {"unknown", "queued"} => row.slot = None
    PROVE  InShape([d EXCEPT !.jobs[j] = row], T)
<1> DEFINE e == [d EXCEPT !.jobs[j] = row]
<1>1. /\ e \in Database /\ e.slots = d.slots
      /\ e.jobs[j] = row /\ \A k \in Jobs \ {j} : e.jobs[k] = d.jobs[k]
  BY SetJobType
<1>2. Consistent(e, T)
  BY SetJobConsistent DEF InShape, Keeps
<1> HIDE DEF e
<1>3. \A s \in Slots : SlotKeeps(d.slots[s], e.slots[s])
  BY <1>1 DEF SlotKeeps, SameShape
<1>4. \A k \in Jobs : Follows(d, e, k)
  BY <1>1 DEF Follows
<1>5. InShape(e, T)
  BY <1>1, <1>2, <1>3, <1>4, KeepsShape
<1> QED BY <1>5 DEF e

\* An update of one job that changes nothing of what it holds.
LEMMA SetJobHolds ==
    ASSUME NEW d \in Database, NEW j \in Jobs, NEW row \in JobRow, Held(d),
           \A s \in Slots : Holding(row, s) <=> Holding(d.jobs[j], s)
    PROVE  Held([d EXCEPT !.jobs[j] = row])
<1> DEFINE e == [d EXCEPT !.jobs[j] = row]
<1>1. /\ e \in Database /\ e.slots = d.slots
      /\ e.jobs[j] = row /\ \A k \in Jobs \ {j} : e.jobs[k] = d.jobs[k]
  BY SetJobType
<1> HIDE DEF e
<1>2. \A s \in Slots : SlotKeeps(d.slots[s], e.slots[s]) /\ e.slots[s].reserved = d.slots[s].reserved
  BY <1>1 DEF SlotKeeps, SameShape
<1>3. \A k \in Jobs : SameHolder(d, e, k)
  BY <1>1 DEF SameHolder
<1>4. Held(e)
  BY <1>2, <1>3, KeepsHeld
<1> QED BY <1>4 DEF e

LEMMA SetJobSound ==
    ASSUME NEW T \in SUBSET Slots, NEW d \in Database, NEW j \in Jobs, NEW row \in JobRow, InShape(d, T),
           row.status \in ACTIVE_JOB_STATES <=> d.jobs[j].status \in ACTIVE_JOB_STATES,
           row.status \in Underway => d.jobs[j].status \in Underway,
           row.status = "running" => d.jobs[j].status = "running",
           row.status \in ACTIVE_JOB_STATES =>
               /\ row.slot = d.jobs[j].slot
               /\ row.runner = d.jobs[j].runner /\ row.attempt = d.jobs[j].attempt,
           row.status \in {"unknown", "queued"} => row.slot = None
    PROVE  Sound(d, [d EXCEPT !.jobs[j] = row], T)
<1> DEFINE e == [d EXCEPT !.jobs[j] = row]
<1>1. /\ e \in Database /\ e.slots = d.slots
      /\ e.jobs[j] = row /\ \A k \in Jobs \ {j} : e.jobs[k] = d.jobs[k]
  BY SetJobType
<1>2. InShape(e, T) /\ (Held(d) => Held(e))
  BY SetJobShape, SetJobHolds DEF Holding
<1> HIDE DEF e
<1>3. \A s \in Slots : SlotKeeps(d.slots[s], e.slots[s])
  BY <1>1 DEF SlotKeeps, SameShape
<1>4. \A k \in Jobs : Stays(d, e, k)
  BY <1>1 DEF Stays, Underway
<1>5. Rooted(d, e)
  BY <1>1, <1>3, <1>4, KeepsRoots DEF Rooted
<1> QED BY <1>2, <1>5 DEF Sound, e

-----------------------------------------------------------------------------
(* Admission. *)

\* A planned reduction changes a ceiling and no shape.
LEMMA ReclamationKeepsShapes ==
    ASSUME NEW d \in Database, NEW reductions \in SUBSET [slot : Slots, target : Nat]
    PROVE  \A s \in Slots : SameShape(d.slots[s], ScheduleCapacityReclamation(d, reductions).slots[s])
<1> DEFINE taken == {r \in reductions : Reclaimable(d.slots[r.slot], r.target)}
           donors == {r.slot : r \in taken}
           target(s) == (CHOOSE r \in taken : r.slot = s).target
           slots == [s \in Slots |->
               IF s \in donors
               THEN [d.slots[s] EXCEPT !.desired = target(s), !.generation = @ + 1]
               ELSE d.slots[s]]
           new == {[slot |-> s, generation |-> d.slots[s].generation + 1,
                    target |-> target(s)] : s \in donors}
<1>1. ScheduleCapacityReclamation(d, reductions)
        = [d EXCEPT !.slots = slots, !.operations = @ \cup new]
  BY DEF ScheduleCapacityReclamation
<1> HIDE DEF taken, donors, target, new
<1>2. ASSUME NEW s \in Slots PROVE SameShape(d.slots[s], slots[s])
  <2>1. d.slots[s] \in SlotRow
    BY DatabaseType
  <2> QED BY <2>1 DEF SameShape, SlotRow
<1> HIDE DEF slots
<1>3. ScheduleCapacityReclamation(d, reductions).slots = slots
  BY <1>1 DEF Database
<1> QED BY <1>2, <1>3

\* What an admission does to the shapes.
LEMMA AdmitShapes ==
    ASSUME NEW d \in Database, NEW a \in NextAdmission(d)
    PROVE  LET e == Admit(d, a).db
               row == d.slots[a.slot]
               next == e.slots[a.slot]
               configuring == a.configure \/ row.state = "configuring"
           IN  /\ next.profile = IF configuring THEN row.profile ELSE JobProfile[a.job]
               /\ next.state = IF configuring THEN "configuring" ELSE row.state
               /\ next.owner = IF a.configure THEN a.job ELSE row.owner
               /\ next.pending = IF configuring THEN JobProfile[a.job] ELSE None
               /\ \A s \in Slots \ {a.slot} : SameShape(d.slots[s], e.slots[s])
<1> DEFINE profile == JobProfile[a.job]
           row == d.slots[a.slot]
           target == TargetMaxInstances(row, a.configure)
           reductions == PlannedReductions(d.slots, d.releasedBefore, a.slot, profile, target)
           generation == row.generation + 1
           configuring == a.configure \/ row.state = "configuring"
           increase == ~configuring /\ target > row.applied
           reclaiming == ScheduleCapacityReclamation(d, reductions)
           newProfile == IF configuring THEN row.profile ELSE profile
           newState == IF configuring THEN "configuring" ELSE row.state
           newOwner == IF a.configure THEN a.job ELSE row.owner
           newReserved == row.reserved + 1
           newPending == IF configuring THEN profile ELSE None
           newHold == configuring /\ reductions # {}
           newRow == [row EXCEPT !.profile = newProfile, !.state = newState, !.owner = newOwner,
                                 !.reserved = newReserved, !.desired = target,
                                 !.pending = newPending, !.reclaimPending = newHold,
                                 !.generation = generation]
           newOperations == IF increase \/ configuring \/ row.updating
                            THEN RecordCapacityOperation(reclaiming.operations, a.slot, generation, target)
                            ELSE reclaiming.operations
           newJob == [reclaiming.jobs[a.job] EXCEPT !.status = "admitted", !.slot = a.slot]
<1>1. a.slot \in Slots /\ row \in SlotRow
  BY NextAdmissionType, DatabaseType
<1>2. reductions \in SUBSET [slot : Slots, target : Nat]
  BY PlannedReductionsType, DatabaseType
<1>3. reclaiming \in Database /\ \A s \in Slots : SameShape(d.slots[s], reclaiming.slots[s])
  BY <1>2, ReclamationEffect, ReclamationKeepsShapes
<1>4. Admit(d, a).db = [reclaiming EXCEPT !.slots[a.slot] = newRow,
                                          !.operations = newOperations,
                                          !.jobs[a.job] = newJob]
  BY DEF Admit, AdmitFor, AdmitWith
<1>5. /\ newRow.profile = newProfile /\ newRow.state = newState
      /\ newRow.owner = newOwner /\ newRow.pending = newPending
  <2> HIDE DEF row, newProfile, newState, newOwner, newReserved, target, newPending, newHold, generation
  <2> QED BY <1>1 DEF SlotRow
<1> HIDE DEF reclaiming, newRow, newOperations, newJob
<1>6. Admit(d, a).db.slots = [reclaiming.slots EXCEPT ![a.slot] = newRow]
  BY <1>3, <1>4 DEF Database
<1>7. Admit(d, a).db.slots[a.slot] = newRow
      /\ \A s \in Slots \ {a.slot} : Admit(d, a).db.slots[s] = reclaiming.slots[s]
  BY <1>1, <1>3, <1>6, DatabaseType
<1> QED BY <1>3, <1>5, <1>7

\* A selected slot is of the job's shape, or it is one to be configured for a custom
\* profile that no slot has.
Selected(d, s, profile, configure) ==
    \/ ~configure /\ HasShape(d.slots[s], profile)
    \/ /\ configure /\ s \in CustomSlots
       /\ d.slots[s].reserved = 0 /\ d.slots[s].state # "configuring"
       /\ PresetSlot[profile] = None
       /\ \A t \in CustomSlots : ~HasShape(d.slots[t], profile)

LEMMA SelectSlotFits ==
    ASSUME NEW d \in Database, NEW p \in Profiles, NEW c \in SelectSlot(d, p),
           \A s \in Slots : SlotShaped(d.slots[s], s)
    PROVE  Selected(d, c.slot, p, c.configure)
<1>1. CASE PresetSlot[p] # None
  <2> DEFINE s == PresetSlot[p]
  <2>1. c = [slot |-> s, configure |-> FALSE]
    BY <1>1 DEF SelectSlot
  <2>2. s \in Slots /\ s \notin CustomSlots
    BY <1>1, SchedulerAssumption DEF CustomSlots
  <2>3. d.slots[s].state = "ready" /\ d.slots[s].profile = p
    BY <1>1, <2>2, SchedulerAssumption DEF SlotShaped
  <2> QED BY <2>1, <2>3 DEF Selected, HasShape, CandidateProfile
<1>2. CASE PresetSlot[p] = None
  <2> DEFINE matching == MatchingSlots(d.slots, CustomSlots, p)
             least == LeastReserved(d.slots, matching)
             first == FirstById(IdleSlots(d.slots, CustomSlots))
  <2>1. SelectSlot(d, p) = IF matching # {}
                           THEN {[slot |-> s, configure |-> FALSE] : s \in least}
                           ELSE {[slot |-> s, configure |-> TRUE] : s \in first}
    BY <1>2 DEF SelectSlot, SelectCustomSlot
  <2>2. \A s \in least : HasShape(d.slots[s], p)
    BY DEF LeastReserved, MatchingSlots, HasShape
  <2>3. \A s \in first : s \in CustomSlots /\ d.slots[s].reserved = 0 /\ d.slots[s].state # "configuring"
    BY DEF FirstById, IdleSlots
  <2>4. matching = {} => \A t \in CustomSlots : ~HasShape(d.slots[t], p)
    <3> SUFFICES ASSUME NEW t \in CustomSlots, HasShape(d.slots[t], p) PROVE t \in matching
      OBVIOUS
    <3>1. d.slots[t].state \in CONFIGURATION_STATES
      BY DatabaseType DEF CustomSlots, SlotRow
    <3> QED BY <3>1 DEF HasShape, MatchingSlots, CONFIGURATION_STATES
  <2> HIDE DEF matching, least, first
  <2>5. CASE matching # {}
    <3>1. PICK s \in least : c = [slot |-> s, configure |-> FALSE]
      BY <2>1, <2>5
    <3> QED BY <2>2, <3>1 DEF Selected
  <2>6. CASE matching = {}
    <3>1. PICK s \in first : c = [slot |-> s, configure |-> TRUE]
      BY <2>1, <2>6
    <3> QED BY <1>2, <2>3, <2>4, <2>6, <3>1 DEF Selected
  <2> QED BY <2>5, <2>6
<1> QED BY <1>1, <1>2

LEMMA AdmissionFits ==
    ASSUME NEW d \in Database, NEW a \in NextAdmission(d), \A s \in Slots : SlotShaped(d.slots[s], s)
    PROVE  Selected(d, a.slot, JobProfile[a.job], a.configure)
<1>1. PICK j \in FirstRows(d, WithStatus(d, {"queued"})) :
        \E c \in SelectSlot(d, JobProfile[j]) :
          a = [job |-> j, slot |-> c.slot, configure |-> c.configure]
  BY DEF NextAdmission
<1>2. PICK c \in SelectSlot(d, JobProfile[j]) : a = [job |-> j, slot |-> c.slot, configure |-> c.configure]
  BY <1>1
<1>3. j \in Jobs /\ JobProfile[j] \in Profiles
  BY SchedulerAssumption DEF FirstRows, WithStatus
<1>4. Selected(d, c.slot, JobProfile[j], c.configure)
  BY <1>3, SelectSlotFits
<1> QED BY <1>2, <1>4

\* An admission finds or makes a slot of the job's shape, and only makes one of a
\* slot that nobody holds.
LEMMA AdmitKeepsShape ==
    ASSUME NEW T \in SUBSET Slots, NEW d \in Database, NEW a \in NextAdmission(d), InShape(d, T),
           Admit(d, a).db \in Database, Consistent(Admit(d, a).db, T)
    PROVE  InShape(Admit(d, a).db, T)
<1> DEFINE e == Admit(d, a).db
           row == d.slots[a.slot]
           next == e.slots[a.slot]
           profile == JobProfile[a.job]
           configuring == a.configure \/ row.state = "configuring"
<1>1. a.job \in Jobs /\ a.slot \in Slots /\ a.configure \in BOOLEAN /\ profile \in Profiles
  BY NextAdmissionType, SchedulerAssumption
<1>2. Selected(d, a.slot, profile, a.configure)
  BY AdmissionFits DEF InShape
<1>3. /\ next.profile = IF configuring THEN row.profile ELSE profile
      /\ next.state = IF configuring THEN "configuring" ELSE row.state
      /\ next.owner = IF a.configure THEN a.job ELSE row.owner
      /\ next.pending = IF configuring THEN profile ELSE None
      /\ \A s \in Slots \ {a.slot} : SameShape(d.slots[s], e.slots[s])
  BY AdmitShapes
<1>4. e.jobs = [d.jobs EXCEPT ![a.job] = [@ EXCEPT !.status = "admitted", !.slot = a.slot]]
  BY AdmitEffect
<1>5. SlotShaped(row, a.slot) /\ \A s \in Slots : d.slots[s].state \in CONFIGURATION_STATES
  BY <1>1, DatabaseType DEF InShape, SlotRow
<1> HIDE DEF e, row, next, profile
<1>6. SlotShaped(next, a.slot) /\ HasShape(next, profile)
  <2>1. CASE a.configure
    BY <1>1, <1>2, <1>3, <2>1 DEF Selected, SlotShaped, CandidateProfile, HasShape
  <2>2. CASE ~a.configure /\ row.state = "configuring"
    BY <1>1, <1>2, <1>3, <1>5, <2>2 DEF row, Selected, SlotShaped, CandidateProfile, HasShape
  <2>3. CASE ~a.configure /\ row.state = "ready"
    BY <1>1, <1>2, <1>3, <1>5, <2>3 DEF row, Selected, SlotShaped, CandidateProfile, HasShape
  <2>4. a.configure \/ row.state = "configuring" \/ row.state = "ready"
    BY <1>1, <1>2, <1>5 DEF row, Selected, HasShape, CONFIGURATION_STATES
  <2> QED BY <2>1, <2>2, <2>3, <2>4
<1>7. ASSUME NEW s \in Slots PROVE SlotShaped(e.slots[s], s)
  <2>1. SlotShaped(d.slots[s], s)
    BY DEF InShape
  <2> QED BY <1>3, <1>6, <2>1 DEF next, SlotShaped, SameShape, CandidateProfile
<1>8. ASSUME NEW j \in Active(e), e.jobs[j].slot \in T
      PROVE  HasShape(e.slots[e.jobs[j].slot], JobProfile[j])
  <2>1. j \in Jobs /\ e.jobs[j].status \in ACTIVE_JOB_STATES
    BY DEF Active, WithStatus
  <2>2. CASE j = a.job
    <3>1. e.jobs[j].slot = a.slot
      BY <1>1, <1>4, <2>2, DatabaseType DEF JobRow
    <3> QED BY <1>6, <2>2, <3>1 DEF next, profile
  <2>3. CASE j # a.job
    <3> DEFINE s == d.jobs[j].slot
    <3>1. e.jobs[j] = d.jobs[j]
      BY <1>4, <2>1, <2>3, DatabaseType
    <3>2. j \in Active(d) /\ s \in T
      BY <1>8, <2>1, <3>1 DEF Active, WithStatus
    <3>3. HasShape(d.slots[s], JobProfile[j])
      BY <3>2 DEF InShape, JobsShaped
    <3>4. CASE s = a.slot
      <4>1. row.reserved # 0
        <5>1. j \in ActiveOn(d, s)
          BY <3>2 DEF ActiveOn
        <5> QED BY <3>2, <3>4, <5>1, NobodyHolds DEF InShape, row
      <4>2. HasShape(row, profile)
        BY <1>2, <4>1 DEF Selected, row
      <4> QED BY <1>6, <3>1, <3>3, <3>4, <4>2 DEF next, row, HasShape
    <3>5. CASE s # a.slot
      <4>1. SameShape(d.slots[s], e.slots[s])
        BY <1>3, <3>2, <3>5
      <4> QED BY <3>1, <3>3, <4>1 DEF HasShape, CandidateProfile, SameShape
    <3> QED BY <3>4, <3>5
  <2> QED BY <2>2, <2>3
<1>9. ShapesDiffer(e)
  <2>1. CustomSlots \subseteq Slots
    BY DEF CustomSlots
  <2>2. ASSUME NEW s \in CustomSlots, s # a.slot, e.slots[s].state # "idle"
        PROVE  /\ d.slots[s].state # "idle"
               /\ CandidateProfile(e.slots[s]) = CandidateProfile(d.slots[s])
               /\ a.slot \in CustomSlots => CandidateProfile(d.slots[s]) # profile
    <3>1. SameShape(d.slots[s], e.slots[s])
      BY <1>3, <2>1, <2>2
    <3>2. d.slots[s].state # "idle" /\ CandidateProfile(e.slots[s]) = CandidateProfile(d.slots[s])
      BY <2>2, <3>1 DEF SameShape, CandidateProfile
    <3>3. CASE a.configure
      BY <1>2, <3>2, <3>3 DEF Selected, HasShape
    <3>4. CASE ~a.configure
      BY <1>2, <2>2, <3>2, <3>4 DEF Selected, HasShape, InShape, ShapesDiffer
    <3> QED BY <3>2, <3>3, <3>4
  <2>3. CandidateProfile(e.slots[a.slot]) = profile
    BY <1>6 DEF next, HasShape
  <2> QED BY <2>2, <2>3 DEF ShapesDiffer, InShape
<1>10. Consistent(e, T)
  BY DEF e
<1>11. InShape(e, T)
  BY <1>7, <1>8, <1>9, <1>10 DEF InShape, JobsShaped
<1> QED BY <1>11 DEF e

\* The job that an admission gives a slot to is one more that holds it, and a slot
\* that it begins to configure had none.
LEMMA AdmitHolds ==
    ASSUME NEW d \in Database, NEW a \in NextAdmission(d), InShape(d, Slots), Admit(d, a).db \in Database
    PROVE  Rooted(d, Admit(d, a).db) /\ (Held(d) => Held(Admit(d, a).db))
<1> DEFINE e == Admit(d, a).db
           j == a.job
           s == a.slot
           row == d.slots[s]
<1>1. j \in Jobs /\ s \in Slots /\ d.jobs[j].status = "queued"
  BY NextAdmissionType
<1>2. Selected(d, s, JobProfile[j], a.configure)
  BY AdmissionFits DEF InShape
<1>3. /\ e.slots[s].state = IF a.configure \/ row.state = "configuring" THEN "configuring" ELSE row.state
      /\ e.slots[s].owner = IF a.configure THEN j ELSE row.owner
      /\ \A t \in Slots \ {s} : SameShape(d.slots[t], e.slots[t])
  BY AdmitShapes
<1>4. /\ e.jobs = [d.jobs EXCEPT ![j] = [@ EXCEPT !.status = "admitted", !.slot = s]]
      /\ e.slots[s].reserved = row.reserved + 1
      /\ \A t \in Slots \ {s} : e.slots[t].reserved = d.slots[t].reserved
  BY AdmitEffect
<1>5. /\ e.jobs[j].status = "admitted" /\ e.jobs[j].slot = s
      /\ \A k \in Jobs \ {j} : e.jobs[k] = d.jobs[k]
  BY <1>1, <1>4, DatabaseType DEF JobRow
<1>6. a.configure => ActiveOn(d, s) = {} /\ row.reserved = 0
  <2>1. ASSUME a.configure PROVE row.reserved = 0
    BY <1>2, <2>1 DEF Selected
  <2> QED BY <1>1, <2>1, NobodyHolds DEF InShape
<1> HIDE DEF e, j, s
<1>7. Rooted(d, e)
  <2> SUFFICES ASSUME NEW k \in Jobs, OnConfiguring(e, k)
               PROVE  /\ OnConfiguring(d, k) /\ e.jobs[k].slot = d.jobs[k].slot
                      /\ e.jobs[k] = d.jobs[k]
                      /\ e.slots[e.jobs[k].slot].owner = d.slots[e.jobs[k].slot].owner
    BY DEF Rooted, Roots
  <2>1. k # j /\ e.jobs[k] = d.jobs[k]
    BY <1>5 DEF OnConfiguring, Underway
  <2>2. d.jobs[k].slot \in Slots /\ d.jobs[k].status \in ACTIVE_JOB_STATES
    BY <2>1, DatabaseType DEF OnConfiguring, JobRow, Underway
  <2>3. CASE d.jobs[k].slot = s
    <3>1. k \in ActiveOn(d, s)
      BY <2>2, <2>3 DEF ActiveOn, Active, WithStatus
    <3>2. ~a.configure
      BY <1>6, <3>1
    <3> QED BY <1>3, <2>1, <2>3, <3>2 DEF OnConfiguring
  <2>4. CASE d.jobs[k].slot # s
    BY <1>3, <2>1, <2>2, <2>4 DEF OnConfiguring, SameShape
  <2> QED BY <2>3, <2>4
<1>8. ASSUME Held(d), NEW t \in Slots PROVE HeldOn(e, t)
  <2>1. CASE t = s
    <3>1. ActiveOn(e, s) = ActiveOn(d, s) \cup {j} /\ j \notin ActiveOn(d, s)
      BY <1>1, <1>5 DEF ActiveOn, Active, WithStatus, ACTIVE_JOB_STATES
    <3>2. IsFiniteSet(ActiveOn(d, s)) /\ Cardinality(ActiveOn(d, s)) \in Nat
      BY ActiveOnType
    <3>3. Cardinality(ActiveOn(e, s)) = Cardinality(ActiveOn(d, s)) + 1
      BY <3>1, <3>2, FS_AddElement
    <3>4. e.slots[s].state = "configuring" => row.reserved = Cardinality(ActiveOn(d, s))
      <4>1. CASE a.configure
        BY <1>6, <4>1, FS_EmptySet
      <4>2. CASE ~a.configure
        BY <1>1, <1>3, <1>8, <4>2 DEF Held, HeldOn
      <4> QED BY <4>1, <4>2
    <3> QED BY <1>4, <2>1, <3>2, <3>3, <3>4 DEF HeldOn
  <2>2. CASE t # s
    <3>1. ActiveOn(e, t) = ActiveOn(d, t)
      BY <1>1, <1>5, <2>2 DEF ActiveOn, Active, WithStatus, ACTIVE_JOB_STATES
    <3>2. e.slots[t].state = d.slots[t].state /\ e.slots[t].reserved = d.slots[t].reserved
      BY <1>3, <1>4, <2>2 DEF SameShape
    <3> QED BY <1>8, <3>1, <3>2 DEF Held, HeldOn
  <2> QED BY <2>1, <2>2
<1> QED BY <1>7, <1>8 DEF Held, e

LEMMA AdmitNextKeepsShape ==
    ASSUME NEW T \in SUBSET Slots, NEW d \in Database, InShape(d, T)
    PROVE  Sound(d, AdmitNext(d).db, T)
<1>1. AdmitNext(d).db \in Database /\ Consistent(AdmitNext(d).db, T)
  BY AdmitNextPreserves DEF Preserves, Keeps, InShape
<1>2. CASE NextAdmission(d) = {}
  <2>1. AdmitNext(d).db = d
    BY <1>2 DEF AdmitNext, AdmitOneOf, NoAdmission
  <2> QED BY <2>1, NothingIsSound
<1>3. CASE NextAdmission(d) # {}
  <2> DEFINE a == CHOOSE b \in NextAdmission(d) : TRUE
  <2>1. a \in NextAdmission(d) /\ AdmitNext(d) = Admit(d, a)
    BY <1>3 DEF AdmitNext, AdmitOneOf
  <2> HIDE DEF a
  <2> QED BY <1>1, <2>1, AdmitKeepsShape, AdmitHolds DEF Sound
<1> QED BY <1>2, <1>3

LEMMA ScheduleWorkAlarmKeepsShape ==
    ASSUME NEW T \in SUBSET Slots, NEW d \in Database, InShape(d, T)
    PROVE  Sound(d, ScheduleWorkAlarm(d), T)
<1>1. ScheduleWorkAlarm(d) \in Database /\ SameJobs(d, ScheduleWorkAlarm(d))
  BY ScheduleWorkAlarmEffect
<1>2. ScheduleWorkAlarm(d).slots = d.slots
  BY DEF ScheduleWorkAlarm, Database
<1>3. \A s \in Slots : SlotKeeps(d.slots[s], ScheduleWorkAlarm(d).slots[s])
  BY <1>2 DEF SlotKeeps, SameShape
<1> QED BY <1>1, <1>3, SlotsKeepShape

LEMMA ThenAdmitNextKeepsShape ==
    ASSUME NEW T \in SUBSET Slots, NEW d \in Database, InShape(d, T)
    PROVE  Sound(d, ThenAdmitNext(d).db, T)
<1> DEFINE reply == AdmitNext(d)
<1>1. reply.db \in Database /\ Sound(d, reply.db, T)
  BY AdmitNextPreserves, AdmitNextKeepsShape DEF Preserves
<1>2. ThenAdmitNext(d).db = ScheduleWorkAlarm(reply.db)
  BY DEF ThenAdmitNext, AdmitNext, AdmitOneOf, NoAdmission, Admit, AdmitFor, AdmitWith
<1> HIDE DEF reply
<1>3. Sound(reply.db, ScheduleWorkAlarm(reply.db), T)
  BY <1>1, ScheduleWorkAlarmKeepsShape DEF Sound
<1> QED BY <1>1, <1>2, <1>3, SoundTwice

-----------------------------------------------------------------------------
(* The calls. *)

LEMMA ReleasedSlotKeeps ==
    ASSUME NEW row \in SlotRow, NEW n \in Nat
    PROVE  SlotKeeps(row, ReleasedSlot(row, n))
<1> DEFINE desired == Larger(row.applied, n)
           abandoned == n = 0 /\ row.state = "configuring"
           newState == IF abandoned THEN "idle" ELSE row.state
           newOwner == IF abandoned THEN None ELSE row.owner
           new == [row EXCEPT !.reserved = n, !.desired = desired, !.state = newState, !.owner = newOwner]
<1>1. ReleasedSlot(row, n) = new
  BY DEF ReleasedSlot
<1> HIDE DEF desired
<1>2. CASE abandoned
  BY <1>1, <1>2 DEF SlotRow, SlotKeeps, Abandons
<1>3. CASE ~abandoned
  BY <1>1, <1>3 DEF SlotRow, SlotKeeps, SameShape
<1> QED BY <1>2, <1>3

\* A release touches one slot.
LEMMA ReleaseSlots ==
    ASSUME NEW d \in Database, NEW j \in Jobs, NEW slot \in Slots \cup {None}, NEW status
    PROVE  LET e == ReleaseJob(d, j, slot, status)
               n == IF d.slots[slot].reserved > 0 THEN d.slots[slot].reserved - 1 ELSE 0
           IN  /\ slot # None => n \in Nat /\ e.slots[slot] = ReleasedSlot(d.slots[slot], n)
               /\ \A s \in Slots \ {slot} : e.slots[s] = d.slots[s]
               /\ \A s \in Slots : SlotKeeps(d.slots[s], e.slots[s])
<1> DEFINE e == ReleaseJob(d, j, slot, status)
           n == IF d.slots[slot].reserved > 0 THEN d.slots[slot].reserved - 1 ELSE 0
<1>1. slot = None => e.slots = d.slots
  BY DEF ReleaseJob, Database
<1>2. ASSUME slot # None
      PROVE  /\ d.slots[slot] \in SlotRow /\ n \in Nat
             /\ e.slots[slot] = ReleasedSlot(d.slots[slot], n)
             /\ \A s \in Slots \ {slot} : e.slots[s] = d.slots[s]
  <2> DEFINE ended == [d.jobs EXCEPT ![j] = [d.jobs[j] EXCEPT !.status = status, !.due = FALSE]]
  <2>1. slot \in Slots /\ d.slots[slot] \in SlotRow
    BY <1>2, DatabaseType
  <2>2. n \in Nat
    BY <2>1 DEF SlotRow
  <2>3. e = [d EXCEPT !.slots = [d.slots EXCEPT ![slot] = ReleasedSlot(d.slots[slot], n)],
                      !.releasedBefore = ReleasedNow(@, {slot}),
                      !.jobs = ended]
    BY <1>2 DEF ReleaseJob
  <2> HIDE DEF n, e, ended
  <2>4. e.slots = [d.slots EXCEPT ![slot] = ReleasedSlot(d.slots[slot], n)]
    BY <2>3 DEF Database
  <2> QED BY <2>1, <2>2, <2>4, DatabaseType
<1>3. ASSUME NEW s \in Slots PROVE SlotKeeps(d.slots[s], e.slots[s])
  <2>1. CASE slot = None \/ s # slot
    <3>1. e.slots[s] = d.slots[s]
      BY <1>1, <1>2, <2>1
    <3> QED BY <3>1 DEF SlotKeeps, SameShape
  <2>2. CASE slot # None /\ s = slot
    BY <1>2, <2>2, ReleasedSlotKeeps
  <2> QED BY <2>1, <2>2
<1> HIDE DEF e, n
<1>4. \A s \in Slots \ {slot} : e.slots[s] = d.slots[s]
  BY <1>1, <1>2
<1> QED BY <1>2, <1>3, <1>4 DEF e, n

\* A release of a job from the slot it holds.
LEMMA ReleaseKeepsShape ==
    ASSUME NEW T \in SUBSET Slots, NEW d \in Database, NEW j \in Jobs, NEW status \in {"completed", "cancelled", "failed"},
           d.jobs[j].status \in ACTIVE_JOB_STATES \cup {"queued"}, InShape(d, T)
    PROVE  /\ ReleaseJob(d, j, d.jobs[j].slot, status) \in Database
           /\ Sound(d, ReleaseJob(d, j, d.jobs[j].slot, status), T)
<1> DEFINE slot == d.jobs[j].slot
           e == ReleaseJob(d, j, slot, status)
           n == IF d.slots[slot].reserved > 0 THEN d.slots[slot].reserved - 1 ELSE 0
<1>1. slot \in Slots \cup {None}
  BY DatabaseType DEF JobRow
<1>2. ReleasesOne(d, e, j, slot, status) /\ Consistent(e, T)
  BY <1>1, ReleaseJobEffect, ReleaseJobPreserves DEF InShape, Keeps
<1>3. /\ slot # None => n \in Nat /\ e.slots[slot] = ReleasedSlot(d.slots[slot], n)
      /\ \A s \in Slots \ {slot} : e.slots[s] = d.slots[s]
      /\ \A s \in Slots : SlotKeeps(d.slots[s], e.slots[s])
  BY <1>1, ReleaseSlots
<1>4. \A s \in Slots : d.slots[s] \in SlotRow
  BY DatabaseType
<1>5. \A s \in Slots : SlotKeeps(d.slots[s], e.slots[s])
  BY <1>3
<1> HIDE DEF e, n
<1>6. ASSUME NEW k \in Jobs PROVE Follows(d, e, k) /\ Stays(d, e, k)
  <2>1. CASE k = j
    BY <1>2, <2>1 DEF Follows, Stays, ReleasesOne, Underway, ACTIVE_JOB_STATES
  <2>2. CASE k # j
    BY <1>2, <2>2 DEF Follows, Stays, ReleasesOne
  <2> QED BY <2>1, <2>2
<1>7. e \in Database /\ InShape(e, T) /\ Rooted(d, e)
  BY <1>2, <1>5, <1>6, KeepsShape, KeepsRoots DEF ReleasesOne, Rooted
<1>8. ASSUME Held(d), NEW s \in Slots, e.slots[s].state = "configuring"
      PROVE  e.slots[s].reserved # 0 /\ e.slots[s].reserved = Cardinality(ActiveOn(e, s))
  <2>1. /\ e.jobs[j].status \notin ACTIVE_JOB_STATES
        /\ \A k \in Jobs \ {j} : e.jobs[k] = d.jobs[k]
    BY <1>2 DEF ReleasesOne, ACTIVE_JOB_STATES
  <2>2. d.slots[s].state = "configuring"
    BY <1>5, <1>8 DEF SlotKeeps, SameShape, Abandons, Configures
  <2>3. d.slots[s].reserved # 0 /\ d.slots[s].reserved = Cardinality(ActiveOn(d, s))
    BY <1>8, <2>2 DEF Held, HeldOn
  <2>4. CASE slot # None /\ s = slot
    <3>1. /\ e.slots[s] = ReleasedSlot(d.slots[s], n) /\ d.slots[s] \in SlotRow /\ n \in Nat
          /\ n = d.slots[s].reserved - 1
      BY <1>3, <1>4, <2>3, <2>4 DEF n, SlotRow
    <3>2. e.slots[s].reserved = n /\ n # 0
      BY <1>8, <2>2, <3>1 DEF ReleasedSlot, SlotRow
    <3>3. d.jobs[j].status # "queued"
      BY <2>4 DEF InShape, Consistent, Waiting, WithStatus
    <3>4. j \in ActiveOn(d, s) /\ ActiveOn(e, s) = ActiveOn(d, s) \ {j}
      BY <2>1, <2>4, <3>3 DEF ActiveOn, Active, WithStatus
    <3>5. Cardinality(ActiveOn(e, s)) = Cardinality(ActiveOn(d, s)) - 1
      <4>1. IsFiniteSet(ActiveOn(d, s))
        BY ActiveOnType
      <4>2. Cardinality(ActiveOn(d, s) \ {j}) = Cardinality(ActiveOn(d, s)) - 1
        BY <3>4, <4>1, FS_RemoveElement
      <4> QED BY <3>4, <4>2
    <3> QED BY <2>3, <3>1, <3>2, <3>5
  <2>5. CASE slot = None \/ s # slot
    <3>1. e.slots[s] = d.slots[s]
      BY <1>3, <2>5, PolicyAssumption
    <3>2. ActiveOn(e, s) = ActiveOn(d, s)
      <4>1. j \notin ActiveOn(d, s)
        BY <1>8, <2>5, PolicyAssumption DEF ActiveOn
      <4> QED BY <2>1, <4>1 DEF ActiveOn, Active, WithStatus
    <3> QED BY <2>3, <3>1, <3>2
  <2> QED BY <2>4, <2>5
<1>9. Sound(d, e, T)
  BY <1>7, <1>8 DEF Sound, Held, HeldOn
<1> QED BY <1>7, <1>9 DEF e

\* A release from a slot that is not the job's any more: that slot's shape is lost.
LEMMA StaleReleaseKeepsShape ==
    ASSUME NEW T \in SUBSET Slots, NEW d \in Database, NEW j \in Jobs, NEW slot \in Slots \cup {None},
           NEW status \in {"completed", "failed"}, InShape(d, T)
    PROVE  InShape(ReleaseJob(d, j, slot, status), T \ {slot})
<1> DEFINE e == ReleaseJob(d, j, slot, status)
           U == T \ {slot}
<1>1. ReleasesOne(d, e, j, slot, status)
  BY ReleaseJobEffect
<1>2. \A s \in Slots : SlotKeeps(d.slots[s], e.slots[s])
  BY ReleaseSlots
<1> HIDE DEF e
<1>3. Consistent(e, U) /\ InShape(d, U) /\ e \in Database
  BY <1>1, StaleReleaseKeeps, InShapeOnFewer DEF ReleasesOne, InShape
<1>4. ASSUME NEW k \in Jobs PROVE Follows(d, e, k)
  <2>1. CASE k = j
    BY <1>1, <2>1 DEF Follows, ReleasesOne, ACTIVE_JOB_STATES
  <2>2. CASE k # j
    BY <1>1, <2>2 DEF Follows, ReleasesOne
  <2> QED BY <2>1, <2>2
<1>5. U \in SUBSET Slots
  OBVIOUS
<1> HIDE DEF U
<1>6. InShape(e, U)
  BY <1>2, <1>3, <1>4, <1>5, KeepsShape
<1> QED BY <1>6 DEF e, U

\* What a call may answer with.
Sounds(d, reply, T) == InShape(d, T) => Sound(d, reply.db, T)

LEMMA NothingSounds ==
    ASSUME NEW T \in SUBSET Slots, NEW d
    PROVE  Sounds(d, NoAdmission(d), T)
BY NothingIsSound DEF Sounds, NoAdmission

LEMMA NoAdmissionSounds ==
    ASSUME NEW T \in SUBSET Slots, NEW d, NEW m \in Database, InShape(d, T) => Sound(d, m, T)
    PROVE  Sounds(d, NoAdmission(m), T) /\ Sounds(d, NoAdmission(ScheduleWorkAlarm(m)), T)
<1>1. InShape(d, T) => Sound(m, ScheduleWorkAlarm(m), T)
  BY ScheduleWorkAlarmKeepsShape DEF Sound
<1> QED BY <1>1, SoundTwice DEF Sounds, NoAdmission

LEMMA ThenAdmitNextSounds ==
    ASSUME NEW T \in SUBSET Slots, NEW d, NEW m \in Database, InShape(d, T) => Sound(d, m, T)
    PROVE  Sounds(d, ThenAdmitNext(m), T)
<1>1. InShape(d, T) => Sound(m, ThenAdmitNext(m).db, T)
  BY ThenAdmitNextKeepsShape DEF Sound
<1> QED BY <1>1, SoundTwice DEF Sounds

LEMMA SubmitSounds ==
    ASSUME NEW T \in SUBSET Slots, NEW d \in Database, NEW j \in Jobs
    PROVE  Sounds(d, Submit(d, j), T)
<1> DEFINE rank == Cardinality(Jobs \ WithStatus(d, {"unknown"})) + 1
           row == [NoJobRow(j) EXCEPT !.status = "queued", !.created = rank]
<1>1. CASE d.jobs[j].status # "unknown"
  BY <1>1, NoAdmissionSounds, NothingSounds DEF Submit
<1>2. CASE d.jobs[j].status = "unknown"
  <2>1. rank \in Nat
    BY SchedulerAssumption, FS_Subset, FS_CardinalityType
  <2> HIDE DEF rank
  <2>2. row \in JobRow /\ row.status = "queued" /\ row.slot = None
    BY <2>1 DEF NoJobRow, RunnerName, RunnerNames, JobRow, JobStatus
  <2>3. Submit(d, j) = ThenAdmitNext([d EXCEPT !.jobs[j] = row])
    BY <1>2 DEF Submit, rank
  <2> HIDE DEF row
  <2>4. [d EXCEPT !.jobs[j] = row] \in Database
    BY <2>2, SetJobType
  <2>5. InShape(d, T) => Sound(d, [d EXCEPT !.jobs[j] = row], T)
    BY <1>2, <2>2, SetJobSound DEF ACTIVE_JOB_STATES, Underway
  <2> QED BY <2>3, <2>4, <2>5, ThenAdmitNextSounds
<1> QED BY <1>1, <1>2

\* A release, and then an admission.
LEMMA ReleaseSounds ==
    ASSUME NEW T \in SUBSET Slots, NEW d \in Database, NEW j \in Jobs, NEW status \in {"completed", "cancelled", "failed"},
           d.jobs[j].status \in ACTIVE_JOB_STATES \cup {"queued"}
    PROVE  Sounds(d, ThenAdmitNext(ReleaseJob(d, j, d.jobs[j].slot, status)), T)
<1>1. d.jobs[j].slot \in Slots \cup {None}
  BY DatabaseType DEF JobRow
<1>2. ReleaseJob(d, j, d.jobs[j].slot, status) \in Database
  BY <1>1, ReleaseJobEffect DEF ReleasesOne
<1> QED BY <1>2, ReleaseKeepsShape, ThenAdmitNextSounds

LEMMA WorkflowJobCompletedSounds ==
    ASSUME NEW T \in SUBSET Slots, NEW d \in Database, NEW j \in Jobs
    PROVE  Sounds(d, WorkflowJobCompleted(d, j), T)
<1> DEFINE row == d.jobs[j]
<1>1. row \in JobRow
  BY DatabaseType
<1>2. CASE row.status \in {"queued", "admitted"}
  BY <1>2, ReleaseSounds DEF WorkflowJobCompleted, ACTIVE_JOB_STATES
<1>3. CASE row.status = "stopped-awaiting-completion"
  BY <1>3, ReleaseSounds DEF WorkflowJobCompleted, ACTIVE_JOB_STATES
<1>4. CASE row.status \in {"provisioning", "running"}
  <2> DEFINE new == [row EXCEPT !.status = "releasing", !.due = TRUE]
  <2>1. /\ new \in JobRow /\ new.status = "releasing" /\ new.slot = row.slot
        /\ new.runner = row.runner /\ new.attempt = row.attempt
    BY <1>1 DEF JobRow, JobStatus, ACTIVE_JOB_STATES
  <2>2. WorkflowJobCompleted(d, j) = NoAdmission(ScheduleWorkAlarm([d EXCEPT !.jobs[j] = new]))
    BY <1>4 DEF WorkflowJobCompleted
  <2> HIDE DEF new
  <2>3. [d EXCEPT !.jobs[j] = new] \in Database
    BY <2>1, SetJobType
  <2>4. InShape(d, T) => Sound(d, [d EXCEPT !.jobs[j] = new], T)
    BY <1>4, <2>1, SetJobSound DEF ACTIVE_JOB_STATES, Underway
  <2> QED BY <2>2, <2>3, <2>4, NoAdmissionSounds, NothingSounds
<1>5. CASE row.status \notin {"queued", "admitted", "stopped-awaiting-completion", "provisioning", "running"}
  BY <1>5, NoAdmissionSounds, NothingSounds DEF WorkflowJobCompleted
<1> QED BY <1>2, <1>3, <1>4, <1>5

\* A claim puts an admitted job under way.
LEMMA ClaimProvisioningEffect ==
    ASSUME NEW d \in Database, NEW j \in Jobs, NEW name, Waiting(d)
    PROVE  LET e == ClaimProvisioning(d, j, name)
           IN  /\ Held(d) => Held(e)
               /\ e.slots = d.slots /\ \A k \in Jobs \ {j} : e.jobs[k] = d.jobs[k]
               /\ e.jobs[j] = [d.jobs[j] EXCEPT !.status = e.jobs[j].status]
               /\ e.jobs[j].status = d.jobs[j].status
                  \/ (e.jobs[j].status = "provisioning" /\ d.jobs[j].status = "admitted")
<1> DEFINE row == d.jobs[j]
           new == [row EXCEPT !.status = "provisioning"]
           e == ClaimProvisioning(d, j, name)
<1>1. row \in JobRow
  BY DatabaseType
<1>2. CASE ClaimKind(d, j, name) = "provision" /\ row.status \in {"queued", "admitted"}
  <2>1. new \in JobRow /\ new.status = "provisioning" /\ new.slot = row.slot
    BY <1>1 DEF JobRow, JobStatus, ACTIVE_JOB_STATES
  <2>2. e = [d EXCEPT !.jobs[j] = new]
    BY <1>2 DEF ClaimProvisioning
  <2>3. row.status = "admitted"
    <3>1. row.slot # None
      BY <1>2 DEF ClaimKind
    <3> QED BY <1>2, <3>1 DEF Waiting, WithStatus
  <2>4. e.slots = d.slots /\ e.jobs[j] = new /\ \A k \in Jobs \ {j} : e.jobs[k] = d.jobs[k]
    BY <2>1, <2>2, SetJobType
  <2>5. new = [row EXCEPT !.status = new.status]
    BY <1>1 DEF JobRow
  <2> HIDE DEF new
  <2>6. Held(d) => Held(e)
    BY <2>1, <2>2, <2>3, SetJobHolds DEF Holding, ACTIVE_JOB_STATES
  <2> HIDE DEF e
  <2> QED BY <2>1, <2>3, <2>4, <2>5, <2>6 DEF e
<1>3. CASE ~(ClaimKind(d, j, name) = "provision" /\ row.status \in {"queued", "admitted"})
  <2>1. e = d
    BY <1>3 DEF ClaimProvisioning
  <2>2. row = [row EXCEPT !.status = row.status]
    BY <1>1 DEF JobRow
  <2> HIDE DEF e
  <2>3. (Held(d) => Held(e)) /\ e.slots = d.slots /\ \A k \in Jobs \ {j} : e.jobs[k] = d.jobs[k]
    BY <2>1
  <2>4. e.jobs[j] = [row EXCEPT !.status = e.jobs[j].status] /\ e.jobs[j].status = row.status
    BY <2>1, <2>2
  <2> QED BY <2>3, <2>4 DEF e
<1> QED BY <1>2, <1>3

LEMMA ClaimProvisioningKeepsShape ==
    ASSUME NEW T \in SUBSET Slots, NEW d \in Database, NEW j \in Jobs, NEW name, InShape(d, T)
    PROVE  InShape(ClaimProvisioning(d, j, name), T)
<1> DEFINE row == d.jobs[j]
           new == [row EXCEPT !.status = "provisioning"]
<1>1. CASE ClaimKind(d, j, name) = "provision" /\ row.status \in {"queued", "admitted"}
  <2>1. new \in JobRow /\ new.status = "provisioning" /\ new.slot = row.slot
    BY DatabaseType DEF JobRow, JobStatus, ACTIVE_JOB_STATES
  <2>2. row.status = "admitted"
    <3>1. row.slot # None
      BY <1>1 DEF ClaimKind
    <3> QED BY <1>1, <3>1 DEF InShape, Consistent, Waiting, WithStatus
  <2> HIDE DEF new
  <2>3. InShape([d EXCEPT !.jobs[j] = new], T)
    BY <2>1, <2>2, SetJobShape DEF ACTIVE_JOB_STATES
  <2> QED BY <1>1, <2>3 DEF ClaimProvisioning, new
<1>2. CASE ~(ClaimKind(d, j, name) = "provision" /\ row.status \in {"queued", "admitted"})
  BY <1>2 DEF ClaimProvisioning
<1> QED BY <1>1, <1>2

LEMMA ProvisioningFailedSounds ==
    ASSUME NEW T \in SUBSET Slots, NEW d \in Database, NEW j \in Jobs, NEW name
    PROVE  Sounds(d, ProvisioningFailed(d, j, name), T)
<1>1. CASE CanStart(d, j, name)
  BY <1>1, ReleaseSounds DEF ProvisioningFailed, CanStart, ACTIVE_JOB_STATES
<1>2. CASE ~CanStart(d, j, name)
  BY <1>2, NoAdmissionSounds, NothingSounds DEF ProvisioningFailed
<1> QED BY <1>1, <1>2

\* A job that is put on a runner keeps the slot it has.
LEMMA AdoptShapes ==
    ASSUME NEW T \in SUBSET Slots, NEW d \in Database, NEW j \in Jobs, NEW name \in RunnerNames, InShape(d, T)
    PROVE  LET e == AdoptUnownedRunner(d, j, name)
           IN  /\ e \in Database /\ InShape(e, T) /\ (Held(d) => Held(e))
               /\ e.slots = d.slots /\ \A k \in Jobs \ {j} : e.jobs[k] = d.jobs[k]
               /\ \/ e = d
                  \/ /\ d.jobs[j].status \in {"queued", "admitted", "running"}
                     /\ e.jobs[j].runner = name /\ e.jobs[j].slot = d.jobs[j].slot
                     /\ e.jobs[j].attempt = d.jobs[j].attempt
<1> DEFINE row == d.jobs[j]
           new == RunningOn(row, name, row.slot)
           e == AdoptUnownedRunner(d, j, name)
<1>1. row \in JobRow /\ row.slot \in Slots \cup {None}
  BY DatabaseType DEF JobRow
<1>2. CASE row.status \in {"queued", "admitted", "running"}
  <2>1. /\ new \in JobRow /\ new.status = "running" /\ new.slot = row.slot
        /\ new.runner = name /\ new.attempt = row.attempt
    BY <1>1, RunningOnType DEF RunningOn, JobRow
  <2>2. e = [d EXCEPT !.jobs[j] = new]
    BY <1>2 DEF AdoptUnownedRunner
  <2>3. row.status = "queued" => row.slot = None
    BY DEF InShape, Consistent, Waiting, WithStatus
  <2> HIDE DEF new
  <2>4. e \in Database /\ e.slots = d.slots /\ e.jobs[j] = new /\ \A k \in Jobs \ {j} : e.jobs[k] = d.jobs[k]
    BY <2>1, <2>2, SetJobType
  <2>5. InShape(e, T)
    BY <1>2, <2>1, <2>2, <2>3, SetJobShape DEF ACTIVE_JOB_STATES
  <2>6. \A s \in Slots : Holding(new, s) <=> Holding(row, s)
    BY <1>2, <2>1, <2>3, PolicyAssumption DEF Holding, ACTIVE_JOB_STATES
  <2>7. Held(d) => Held(e)
    BY <2>1, <2>2, <2>6, SetJobHolds
  <2> HIDE DEF e
  <2> QED BY <1>2, <2>1, <2>4, <2>5, <2>7 DEF e
<1>3. CASE row.status \notin {"queued", "admitted", "running"}
  <2>1. e = d
    BY <1>3 DEF AdoptUnownedRunner
  <2> QED BY <2>1
<1> QED BY <1>2, <1>3

\* There is one slot of a shape.
LEMMA OneSlotPerShape ==
    ASSUME NEW T \in SUBSET Slots, NEW d, InShape(d, T), NEW p \in Profiles, NEW s \in Slots, NEW t \in Slots,
           HasShape(d.slots[s], p), HasShape(d.slots[t], p)
    PROVE  s = t
<1>1. SlotShaped(d.slots[s], s) /\ SlotShaped(d.slots[t], t)
  BY DEF InShape
<1>2. CASE s \in CustomSlots /\ t \in CustomSlots
  BY <1>2 DEF InShape, ShapesDiffer, HasShape
<1>3. CASE ~(s \in CustomSlots /\ t \in CustomSlots)
  BY <1>1, <1>3, PolicyAssumption DEF SlotShaped, HasShape, CandidateProfile
<1> QED BY <1>2, <1>3

\* A job only takes over a slot from an owner of its own profile.
LEMMA TransferKeepsShape ==
    ASSUME NEW T \in SUBSET Slots, NEW d \in Database, NEW j \in Jobs, NEW name \in RunnerNames, NEW owner \in Jobs,
           owner # j, d.jobs[owner].status \in {"provisioning", "running", "releasing"},
           d.jobs[owner].slot # None, JobProfile[owner] = JobProfile[j], InShape(d, T)
    PROVE  InShape(TransferRunner(d, j, name, owner), T)
<1> DEFINE e == TransferRunner(d, j, name, owner)
           slot == d.jobs[owner].slot
<1>1. e \in Database /\ Consistent(e, T)
  BY TransferRunnerPreserves DEF InShape, Keeps
<1>2. e.slots = d.slots /\ e.jobs = [k \in Jobs |->
                              IF k = owner THEN Requeued(d.jobs[owner])
                              ELSE IF k = j THEN RunningOn(d.jobs[j], name, slot)
                              ELSE d.jobs[k]]
  BY DEF TransferRunner, Database
<1>3. Requeued(d.jobs[owner]).status = "queued" /\ RunningOn(d.jobs[j], name, slot).slot = slot
  <2>1. d.jobs[owner] \in JobRow /\ d.jobs[j] \in JobRow /\ slot \in Slots \cup {None}
    BY DatabaseType DEF JobRow
  <2> QED BY <2>1, RequeuedType, RunningOnType
<1> HIDE DEF e
<1>4. ASSUME NEW k \in Jobs PROVE Follows(d, e, k)
  <2>1. CASE k = owner
    BY <1>2, <1>3, <2>1 DEF Follows, ACTIVE_JOB_STATES
  <2>2. CASE k = j
    BY <1>2, <1>3, <2>2 DEF Follows, ACTIVE_JOB_STATES
  <2>3. CASE k # owner /\ k # j
    BY <1>2, <2>3 DEF Follows
  <2> QED BY <2>1, <2>2, <2>3
<1>5. \A s \in Slots : SlotKeeps(d.slots[s], e.slots[s])
  BY <1>2 DEF SlotKeeps, SameShape
<1>6. InShape(e, T)
  BY <1>1, <1>4, <1>5, KeepsShape
<1> QED BY <1>6 DEF e

\* ... and what it leaves is that slot: who holds a slot being configured holds it still.
LEMMA TransferSounds ==
    ASSUME NEW T \in SUBSET Slots, NEW d \in Database, NEW j \in Jobs, NEW name \in RunnerNames, NEW owner \in Jobs,
           owner # j, d.jobs[owner].status \in {"provisioning", "running", "releasing"},
           d.jobs[owner].slot # None, JobProfile[owner] = JobProfile[j], InShape(d, T),
           d.slots[d.jobs[owner].slot].state # "configuring"
    PROVE  Sound(d, TransferRunner(d, j, name, owner), T)
<1> DEFINE e == TransferRunner(d, j, name, owner)
           slot == d.jobs[owner].slot
<1>1. e \in Database /\ InShape(e, T)
  BY TransferRunnerPreserves, TransferKeepsShape
<1>2. e.slots = d.slots /\ e.jobs = [k \in Jobs |->
                              IF k = owner THEN Requeued(d.jobs[owner])
                              ELSE IF k = j THEN RunningOn(d.jobs[j], name, slot)
                              ELSE d.jobs[k]]
  BY DEF TransferRunner, Database
<1>3. Requeued(d.jobs[owner]).status = "queued" /\ RunningOn(d.jobs[j], name, slot).slot = slot
  <2>1. d.jobs[owner] \in JobRow /\ d.jobs[j] \in JobRow /\ slot \in Slots \cup {None}
    BY DatabaseType DEF JobRow
  <2> QED BY <2>1, RequeuedType, RunningOnType
<1>4. /\ e.jobs[owner].status = "queued" /\ e.jobs[j].slot = slot
      /\ \A k \in Jobs \ {owner, j} : e.jobs[k] = d.jobs[k]
  BY <1>2, <1>3
<1> HIDE DEF e
<1>5. Rooted(d, e)
  <2> SUFFICES ASSUME NEW k \in Jobs, OnConfiguring(e, k) PROVE Roots(d, e, k)
    BY DEF Rooted, Roots
  <2>1. k \notin {owner, j}
    BY <1>2, <1>4 DEF OnConfiguring, Underway, ACTIVE_JOB_STATES
  <2> QED BY <1>2, <1>4, <2>1 DEF OnConfiguring, Roots
<1>6. ASSUME T = Slots, NEW s \in Slots, d.slots[s].state = "configuring"
      PROVE  ActiveOn(e, s) = ActiveOn(d, s)
  <2>1. s # slot /\ slot \in Slots
    BY <1>6, DatabaseType DEF JobRow
  <2>2. owner \in Active(d) /\ HasShape(d.slots[slot], JobProfile[owner])
    BY <1>6, <2>1 DEF InShape, JobsShaped, Active, WithStatus, ACTIVE_JOB_STATES
  <2>3. j \notin ActiveOn(d, s)
    <3> SUFFICES ASSUME j \in ActiveOn(d, s) PROVE FALSE
      OBVIOUS
    <3>1. HasShape(d.slots[s], JobProfile[j])
      BY <1>6 DEF InShape, JobsShaped, ActiveOn
    <3>2. JobProfile[j] \in Profiles
      BY SchedulerAssumption
    <3> QED BY <2>1, <2>2, <3>1, <3>2, OneSlotPerShape
  <2> QED BY <1>4, <2>1, <2>3 DEF ActiveOn, Active, WithStatus, ACTIVE_JOB_STATES
<1>7. T = Slots /\ Held(d) => Held(e)
  BY <1>2, <1>6 DEF Held, HeldOn
<1>8. Sound(d, e, T)
  BY <1>1, <1>5, <1>7 DEF Sound
<1> QED BY <1>8 DEF e

\* Only the job that is reported on a runner may be found on it.
Adopts(d, e, j, name) ==
    /\ Held(d) => Held(e)
    /\ \A k \in Jobs \ {j} : Roots(d, e, k)
    /\ OnConfiguring(e, j) =>
           /\ \/ d.jobs[j].status = "admitted"
              \/ OnConfiguring(d, j) /\ d.jobs[j].status = "running"
           /\ e.jobs[j].runner = name /\ e.jobs[j].attempt = d.jobs[j].attempt

LEMMA WorkflowJobStartedShapes ==
    ASSUME NEW T \in SUBSET Slots, NEW d \in Database, NEW j \in Jobs, NEW name \in RunnerNames, InShape(d, T)
    PROVE  LET e == WorkflowJobStarted(d, j, name).db
           IN  /\ InShape(e, T)
               /\ (\A k \in Jobs \ {j} : OnConfiguring(d, k) => d.jobs[k].runner # name)
                      => Sound(d, e, T) \/ Adopts(d, e, j, name)
<1> DEFINE owners == RunnerOwners(d, name)
           owner == CHOOSE k \in owners : TRUE
           unmatched == \/ d.jobs[j].status = "unknown"
                        \/ JobProfile[owner] # JobProfile[j]
                        \/ d.jobs[owner].slot = None
           e == WorkflowJobStarted(d, j, name).db
<1>1. CASE e = d
  <2>1. Sound(d, d, T)
    BY NothingIsSound
  <2> HIDE DEF e
  <2> QED BY <1>1, <2>1 DEF e
<1>2. CASE e = AdoptUnownedRunner(d, j, name)
  <2>1. /\ InShape(e, T) /\ (Held(d) => Held(e))
        /\ e.slots = d.slots /\ \A k \in Jobs \ {j} : e.jobs[k] = d.jobs[k]
        /\ \/ e = d
           \/ /\ d.jobs[j].status \in {"queued", "admitted", "running"}
              /\ e.jobs[j].runner = name /\ e.jobs[j].slot = d.jobs[j].slot
              /\ e.jobs[j].attempt = d.jobs[j].attempt
    <3> DEFINE f == AdoptUnownedRunner(d, j, name)
    <3>1. /\ InShape(f, T) /\ (Held(d) => Held(f))
          /\ f.slots = d.slots /\ \A k \in Jobs \ {j} : f.jobs[k] = d.jobs[k]
          /\ \/ f = d
             \/ /\ d.jobs[j].status \in {"queued", "admitted", "running"}
                /\ f.jobs[j].runner = name /\ f.jobs[j].slot = d.jobs[j].slot
                /\ f.jobs[j].attempt = d.jobs[j].attempt
      BY AdoptShapes
    <3> HIDE DEF e, f
    <3> QED BY <1>2, <3>1 DEF f
  <2> HIDE DEF e
  <2>2. d.jobs[j].status = "queued" => d.jobs[j].slot = None
    BY DEF InShape, Consistent, Waiting, WithStatus
  <2>3. \A k \in Jobs \ {j} : Roots(d, e, k)
    BY <2>1 DEF Roots, OnConfiguring
  <2>4. CASE e = d
    <3>1. Sound(d, d, T)
      BY NothingIsSound
    <3> QED BY <2>4, <3>1 DEF e
  <2>5. CASE e # d
    <3>1. OnConfiguring(e, j) => \/ d.jobs[j].status = "admitted"
                                 \/ OnConfiguring(d, j) /\ d.jobs[j].status = "running"
      BY <2>1, <2>2, <2>5 DEF OnConfiguring, Underway, ACTIVE_JOB_STATES
    <3>2. Adopts(d, e, j, name)
      BY <2>1, <2>3, <2>5, <3>1 DEF Adopts
    <3> QED BY <2>1, <3>2 DEF e
  <2> QED BY <2>4, <2>5
<1>3. CASE owners # {} /\ ~(unmatched \/ owner = j)
  <2>1. WorkflowJobStarted(d, j, name) = ThenAdmitNext(TransferRunner(d, j, name, owner))
    BY <1>3 DEF WorkflowJobStarted
  <2>2. owner \in RunnerOwners(d, name)
    BY <1>3
  <2>3. owner # j /\ d.jobs[owner].slot # None /\ JobProfile[owner] = JobProfile[j]
    BY <1>3
  <2> DEFINE m == TransferRunner(d, j, name, owner)
  <2> HIDE DEF owner
  <2>4. owner \in Jobs /\ d.jobs[owner].status \in {"provisioning", "running", "releasing"}
        /\ d.jobs[owner].runner = name
    BY <2>2, RunnerOwnersType DEF RunnerOwners, FirstRows, NamedRows
  <2>5. m \in Database /\ InShape(m, T)
    BY <2>3, <2>4, TransferRunnerPreserves, TransferKeepsShape
  <2>6. Sound(m, e, T)
    <3> HIDE DEF m
    <3> QED BY <2>1, <2>5, ThenAdmitNextKeepsShape DEF m
  <2>7. ASSUME \A k \in Jobs \ {j} : OnConfiguring(d, k) => d.jobs[k].runner # name
        PROVE  Sound(d, m, T)
    <3>1. ~OnConfiguring(d, owner)
      BY <2>3, <2>4, <2>7
    <3>2. d.slots[d.jobs[owner].slot].state # "configuring"
      BY <2>3, <2>4, <3>1 DEF OnConfiguring, Underway, ACTIVE_JOB_STATES
    <3> QED BY <2>3, <2>4, <3>2, TransferSounds
  <2> HIDE DEF m, e
  <2>8. InShape(e, T)
    BY <2>6 DEF Sound
  <2> QED BY <2>6, <2>7, <2>8, SoundTwice DEF e
<1>4. e = d \/ e = AdoptUnownedRunner(d, j, name) \/ (owners # {} /\ ~(unmatched \/ owner = j))
  BY DEF WorkflowJobStarted, NoAdmission
<1> QED BY <1>1, <1>2, <1>3, <1>4

LEMMA ConfigurationReadySounds ==
    ASSUME NEW T \in SUBSET Slots, NEW d \in Database, NEW j \in Jobs
    PROVE  /\ Sounds(d, ConfigurationReady(d, j), T)
           /\ T = Slots /\ InShape(d, T) /\ OnConfiguring(ConfigurationReady(d, j).db, j)
                => d.slots[d.jobs[j].slot].owner # j
<1> DEFINE slot == d.jobs[j].slot
           row == d.slots[slot]
           new == ConfiguredSlot(row)
           profile == IF row.pending = None THEN row.profile ELSE row.pending
<1>1. CASE d.jobs[j].status = "unknown" \/ slot = None
  <2>1. ConfigurationReady(d, j) = NoAdmission(d)
    BY <1>1 DEF ConfigurationReady
  <2>2. ~OnConfiguring(d, j)
    BY <1>1 DEF OnConfiguring, Underway, ACTIVE_JOB_STATES
  <2> QED BY <2>1, <2>2, NothingSounds DEF NoAdmission
<1>2. CASE ~(d.jobs[j].status = "unknown" \/ slot = None)
  <2>1. slot \in Slots
    BY <1>2, DatabaseType DEF JobRow
  <2>2. row \in SlotRow /\ profile \in Profiles \cup {None}
    BY <2>1, DatabaseType DEF SlotRow
  <2>3. /\ new \in SlotRow /\ new.reserved = row.reserved
        /\ new.state = "ready" /\ new.owner = None /\ new.profile = profile
    <3>1. new = [row EXCEPT !.profile = profile, !.state = "ready", !.owner = None,
                            !.pending = None, !.reclaimPending = FALSE]
      BY DEF ConfiguredSlot
    <3> HIDE DEF new, row, profile
    <3> QED BY <2>2, <3>1 DEF SlotRow, CONFIGURATION_STATES
  <2>4. ConfigurationReady(d, j)
          = ThenAdmitNext(IF row.owner = j THEN [d EXCEPT !.slots[slot] = new] ELSE d)
    BY <1>2 DEF ConfigurationReady
  <2>5. InShape(d, T) /\ row.owner = j => SlotKeeps(row, new)
    <3>1. InShape(d, T) => SlotShaped(row, slot)
      BY <2>1 DEF InShape
    <3>2. None \notin Jobs /\ None \notin Profiles
      BY SchedulerAssumption, PolicyAssumption
    <3> HIDE DEF new, row
    <3> QED BY <2>3, <3>1, <3>2 DEF SlotShaped, SlotKeeps, Configures, CandidateProfile
  <2> HIDE DEF new
  <2>6. [d EXCEPT !.slots[slot] = new] \in Database
    BY <2>1, <2>3, SetSlotType
  <2>7. row.owner = j /\ InShape(d, T) => Sound(d, [d EXCEPT !.slots[slot] = new], T)
    BY <2>1, <2>3, <2>5, SetSlotShape
  <2>8. CASE row.owner = j
    <3> DEFINE m == [d EXCEPT !.slots[slot] = new]
               e == ConfigurationReady(d, j).db
    <3>1. Sounds(d, ConfigurationReady(d, j), T)
      BY <2>4, <2>6, <2>7, <2>8, ThenAdmitNextSounds
    <3>2. InShape(d, T) => Sound(m, e, T)
      BY <2>4, <2>6, <2>7, <2>8, ThenAdmitNextKeepsShape DEF Sound
    <3>3. m.jobs[j] = d.jobs[j] /\ m.slots[slot].state = "ready"
      BY <2>1, <2>3, SetSlotType
    <3> HIDE DEF m, e
    <3>4. T = Slots /\ InShape(d, T) => ~OnConfiguring(e, j)
      BY <3>2, <3>3 DEF Sound, Rooted, Roots, OnConfiguring
    <3> QED BY <3>1, <3>4 DEF e
  <2>9. CASE row.owner # j
    <3>1. Sounds(d, ConfigurationReady(d, j), T)
      BY <2>4, <2>9, NothingIsSound, ThenAdmitNextSounds
    <3> QED BY <2>9, <3>1
  <2> QED BY <2>8, <2>9
<1> QED BY <1>1, <1>2

LEMMA CapacityPreparedSounds ==
    ASSUME NEW T \in SUBSET Slots, NEW d \in Database, NEW s \in Slots, NEW generation \in Nat
    PROVE  Sounds(d, CapacityPrepared(d, s, generation), T)
<1> DEFINE operations == {o \in d.operations : o.slot = s /\ o.generation = generation}
           operation == CHOOSE o \in operations : TRUE
           target == operation.target
           row == d.slots[s]
           updating == row.updating /\ row.updateGeneration # generation
           new == [row EXCEPT !.applied = target, !.updating = updating]
           prepared == [d EXCEPT !.slots[s] = new]
<1>1. CASE operations = {}
  <2>1. CapacityPrepared(d, s, generation) = NoAdmission(d)
    BY <1>1 DEF CapacityPrepared
  <2> QED BY <2>1, NoAdmissionSounds, NothingSounds
<1>2. CASE operations # {}
  <2>1. operation \in d.operations
    BY <1>2
  <2> HIDE DEF operation
  <2>2. target \in Nat
    BY <2>1, DatabaseType DEF Operation
  <2>3. row \in SlotRow /\ updating \in BOOLEAN
    BY DatabaseType
  <2>4. new \in SlotRow /\ new.reserved = row.reserved /\ SlotKeeps(row, new)
    <3> HIDE DEF row, target, updating
    <3> QED BY <2>2, <2>3 DEF SlotRow, SlotKeeps, SameShape
  <2>5. CapacityPrepared(d, s, generation).db = ScheduleWorkAlarm(prepared)
    <3>1. [d EXCEPT !.slots[s].applied = target,
                    !.slots[s].updating = @ /\ d.slots[s].updateGeneration # generation] = prepared
      BY DatabaseType DEF Database, SlotRow
    <3> QED BY <1>2, <3>1 DEF CapacityPrepared, operation
  <2> HIDE DEF new
  <2>6. prepared \in Database /\ (InShape(d, T) => Sound(d, prepared, T))
    BY <2>4, SetSlotType, SetSlotShape
  <2> HIDE DEF prepared
  <2>7. InShape(d, T) => Sound(prepared, ScheduleWorkAlarm(prepared), T)
    BY <2>6, ScheduleWorkAlarmKeepsShape DEF Sound
  <2> QED BY <2>5, <2>6, <2>7, SoundTwice DEF Sounds
<1> QED BY <1>1, <1>2

LEMMA RunnerProvisionedSounds ==
    ASSUME NEW T \in SUBSET Slots, NEW d \in Database, NEW j \in Jobs, NEW name \in RunnerNames
    PROVE  Sounds(d, NoAdmission(RunnerProvisioned(d, j, name)), T)
<1> DEFINE row == d.jobs[j]
           new == [row EXCEPT !.runnerId = name]
           m == [d EXCEPT !.jobs[j] = new]
           runners == {r \in d.jitRunners : r.name # name} \cup {[name |-> name, source |-> j]}
           e == [m EXCEPT !.jitRunners = runners]
<1>1. CASE CanStart(d, j, name)
  <2>1. /\ new \in JobRow /\ new.status = row.status /\ new.slot = row.slot
        /\ new.runner = row.runner /\ new.attempt = row.attempt
    BY DatabaseType DEF JobRow
  <2>2. runners \in SUBSET JitRunner
    BY DatabaseType DEF JitRunner
  <2>3. RunnerProvisioned(d, j, name) = e
    BY <1>1, DatabaseType DEF RunnerProvisioned, Database
  <2> HIDE DEF new, runners
  <2>4. m \in Database
    BY <2>1, SetJobType
  <2>5. InShape(d, T) => Sound(d, m, T)
    BY <1>1, <2>1, SetJobSound DEF CanStart, ACTIVE_JOB_STATES
  <2> HIDE DEF m
  <2>6. e \in Database /\ SameJobs(m, e) /\ e.slots = m.slots
    BY <2>2, <2>4 DEF Database, SameJobs
  <2> HIDE DEF e
  <2>7. \A s \in Slots : SlotKeeps(m.slots[s], e.slots[s])
    BY <2>6 DEF SlotKeeps, SameShape
  <2>8. InShape(d, T) => Sound(m, e, T)
    BY <2>4, <2>5, <2>6, <2>7, SlotsKeepShape DEF Sound
  <2>9. InShape(d, T) => Sound(d, e, T)
    BY <2>5, <2>8, SoundTwice
  <2> QED BY <2>3, <2>6, <2>9, NoAdmissionSounds
<1>2. CASE ~CanStart(d, j, name)
  BY <1>2, NoAdmissionSounds, NothingSounds DEF RunnerProvisioned
<1> QED BY <1>1, <1>2

LEMMA RunnerStartedShapes ==
    ASSUME NEW T \in SUBSET Slots, NEW d \in Database, NEW name, InShape(d, T)
    PROVE  LET e == RunnerStarted(d, name)
           IN  /\ InShape(e, T)
               /\ (\A k \in Jobs : OnConfiguring(d, k) /\ d.jobs[k].runner = name => name # OwnName(d, k))
                      => Sound(d, e, T)
<1> DEFINE e == RunnerStarted(d, name)
           named == NamedRows(d, name, {"provisioning"})
           jobs == [j \in Jobs |-> IF j \in named THEN [d.jobs[j] EXCEPT !.status = "running"] ELSE d.jobs[j]]
<1>1. e \in Database /\ Consistent(e, T)
  BY RunnerStartedPreserves DEF Preserves, Keeps, NoAdmission, InShape
<1>2. e.slots = d.slots /\ e.jobs = jobs
  BY DEF RunnerStarted, Database
<1> HIDE DEF e
<1>3. ASSUME NEW j \in Jobs
      PROVE  /\ e.jobs[j].slot = d.jobs[j].slot /\ e.jobs[j].runner = d.jobs[j].runner
             /\ e.jobs[j].attempt = d.jobs[j].attempt
             /\ \/ e.jobs[j].status = d.jobs[j].status
                \/ /\ d.jobs[j].status = "provisioning" /\ e.jobs[j].status = "running"
                   /\ d.jobs[j].runner = name
  <2>1. d.jobs[j] \in JobRow
    BY DatabaseType
  <2>2. j \in named => d.jobs[j].status = "provisioning" /\ d.jobs[j].runner = name
    BY DEF NamedRows, WithStatus
  <2> QED BY <1>2, <2>1, <2>2 DEF JobRow
<1>4. \A j \in Jobs : Follows(d, e, j) /\ SameHolder(d, e, j)
  BY <1>3 DEF Follows, SameHolder, Holding, ACTIVE_JOB_STATES
<1>5. \A s \in Slots : SlotKeeps(d.slots[s], e.slots[s]) /\ e.slots[s].reserved = d.slots[s].reserved
  BY <1>2 DEF SlotKeeps, SameShape
<1>6. InShape(e, T) /\ (Held(d) => Held(e))
  BY <1>1, <1>4, <1>5, KeepsShape, KeepsHeld
<1>7. ASSUME \A k \in Jobs : OnConfiguring(d, k) /\ d.jobs[k].runner = name => name # OwnName(d, k),
             NEW j \in Jobs
      PROVE  Roots(d, e, j)
  <2>1. OnConfiguring(e, j) => OnConfiguring(d, j)
    BY <1>2, <1>3 DEF OnConfiguring, Underway, ACTIVE_JOB_STATES
  <2> QED BY <1>2, <1>3, <1>7, <2>1 DEF Roots
<1>8. (\A k \in Jobs : OnConfiguring(d, k) /\ d.jobs[k].runner = name => name # OwnName(d, k))
         => Sound(d, e, T)
  BY <1>6, <1>7 DEF Sound, Rooted
<1> QED BY <1>6, <1>8 DEF e

LEMMA RunnerStoppedShapes ==
    ASSUME NEW T \in SUBSET Slots, NEW d \in Database, NEW name, InShape(d, T)
    PROVE  LET e == RunnerStopped(d, name).db
           IN  /\ InShape(e, T)
               /\ (\A k \in Jobs : d.jobs[k].status = "admitted" => d.jobs[k].runner # name) => Sound(d, e, T)
<1> DEFINE rows == FirstRows(d, NamedRows(d, name, JobStatus \ {"unknown"}))
           j == CHOOSE k \in rows : TRUE
           row == d.jobs[j]
           new == [row EXCEPT !.status = "stopped-awaiting-completion", !.due = TRUE]
           e == RunnerStopped(d, name).db
<1>1. CASE rows = {} \/ j \notin Active(d)
  <2>1. e = d
    BY <1>1 DEF RunnerStopped, NoAdmission
  <2> HIDE DEF e
  <2> QED BY <2>1, NothingIsSound DEF e
<1>2. CASE ~(rows = {} \/ j \notin Active(d))
  <2>1. j \in Active(d) /\ j \in rows
    BY <1>2
  <2>2. RunnerStopped(d, name) =
          IF row.status = "releasing"
          THEN ThenAdmitNext(ReleaseJob(d, j, row.slot, "completed"))
          ELSE NoAdmission(ScheduleWorkAlarm([d EXCEPT !.jobs[j] = new]))
    BY <1>2 DEF RunnerStopped
  <2> HIDE DEF j
  <2>3. j \in Jobs /\ row.status \in ACTIVE_JOB_STATES /\ row \in JobRow /\ row.runner = name
    BY <2>1, DatabaseType DEF Active, WithStatus, FirstRows, NamedRows
  <2>4. CASE row.status = "releasing"
    <3>1. Sounds(d, RunnerStopped(d, name), T)
      BY <2>2, <2>3, <2>4, ReleaseSounds
    <3> QED BY <3>1 DEF Sounds, Sound
  <2>5. CASE row.status # "releasing"
    <3> DEFINE m == [d EXCEPT !.jobs[j] = new]
    <3>1. /\ new \in JobRow /\ new.status = "stopped-awaiting-completion" /\ new.slot = row.slot
          /\ new.runner = row.runner /\ new.attempt = row.attempt
      BY <2>3 DEF JobRow, JobStatus, ACTIVE_JOB_STATES
    <3>2. e = ScheduleWorkAlarm(m)
      BY <2>2, <2>5 DEF NoAdmission
    <3> HIDE DEF new, e
    <3>3. m \in Database /\ InShape(m, T)
      BY <2>3, <3>1, SetJobType, SetJobShape DEF ACTIVE_JOB_STATES
    <3>4. row.status # "admitted" => Sound(d, m, T)
      BY <2>3, <3>1, SetJobSound DEF ACTIVE_JOB_STATES, Underway
    <3> HIDE DEF m
    <3>5. Sound(m, e, T)
      BY <3>2, <3>3, ScheduleWorkAlarmKeepsShape
    <3>6. InShape(e, T) /\ (row.status # "admitted" => Sound(d, e, T))
      BY <3>4, <3>5, SoundTwice DEF Sound
    <3> QED BY <2>3, <3>6 DEF e
  <2> QED BY <2>4, <2>5
<1> QED BY <1>1, <1>2

LEMMA CallsKeepShape ==
    ASSUME NEW T \in SUBSET Slots, SchedulerTypeOK, InShape(db, T), Call
    PROVE  InShape(db', T)
<1>1. db \in Database
  BY DEF SchedulerTypeOK
<1>2. ASSUME NEW reply, Sounds(db, reply, T) \/ InShape(reply.db, T), Reply(reply) PROVE InShape(db', T)
  BY <1>2 DEF Sounds, Sound, Reply
<1>3. ASSUME NEW j \in Jobs, CallSubmit(j) \/ CallWorkflowJobCompleted(j) \/ CallConfigurationReady(j)
      PROVE  InShape(db', T)
  BY <1>1, <1>2, <1>3, SubmitSounds, WorkflowJobCompletedSounds, ConfigurationReadySounds
     DEF CallSubmit, CallWorkflowJobCompleted, CallConfigurationReady
<1>4. BoundedNames \subseteq RunnerNames /\ Generations \subseteq Nat
  BY SchedulerAssumption DEF BoundedNames, RunnerNames
<1>5. ASSUME NEW j \in Jobs, NEW name \in RunnerNames,
             \/ CallWorkflowJobStarted(j, name)
             \/ CallCacheAssignment(j, name)
             \/ CallClaimProvisioning(j, name)
             \/ CallRunnerProvisioned(j, name)
             \/ CallProvisioningFailed(j, name)
      PROVE  InShape(db', T)
  <2>1. CASE CallWorkflowJobStarted(j, name) \/ CallCacheAssignment(j, name)
    BY <1>1, <1>2, <2>1, WorkflowJobStartedShapes DEF CallWorkflowJobStarted, CallCacheAssignment
  <2>2. CASE CallClaimProvisioning(j, name)
    BY <1>1, <1>2, <2>2, ClaimProvisioningKeepsShape DEF CallClaimProvisioning, NoAdmission
  <2>3. CASE CallRunnerProvisioned(j, name)
    BY <1>1, <1>2, <2>3, RunnerProvisionedSounds DEF CallRunnerProvisioned
  <2>4. CASE CallProvisioningFailed(j, name)
    BY <1>1, <1>2, <2>4, ProvisioningFailedSounds DEF CallProvisioningFailed
  <2> QED BY <1>5, <2>1, <2>2, <2>3, <2>4
<1>6. ASSUME NEW name, CallRunnerStarted(name) \/ CallRunnerStopped(name)
      PROVE  InShape(db', T)
  BY <1>1, <1>2, <1>6, RunnerStartedShapes, RunnerStoppedShapes DEF CallRunnerStarted, CallRunnerStopped, NoAdmission
<1>7. ASSUME NEW s \in Slots, NEW generation \in Nat, CallCapacityPrepared(s, generation)
      PROVE  InShape(db', T)
  BY <1>1, <1>2, <1>7, CapacityPreparedSounds DEF CallCapacityPrepared
<1> QED BY <1>3, <1>4, <1>5, <1>6, <1>7 DEF Call

-----------------------------------------------------------------------------
(* The alarm and the constructor. *)

LEMMA AwakeKeepsShape ==
    ASSUME NEW T \in SUBSET Slots, SchedulerTypeOK, InShape(db, T)
    PROVE  Awake \in Database /\ InShape(Awake, T) /\ Sound(db, Awake, T)
<1>1. Awake \in Database /\ SameJobs(db, Awake) /\ db \in Database
  BY AwakeEffect DEF SchedulerTypeOK
<1>2. Awake.slots = db.slots
  BY <1>1 DEF Awake, Database
<1>3. \A s \in Slots : SlotKeeps(db.slots[s], Awake.slots[s])
  BY <1>2 DEF SlotKeeps, SameShape
<1> QED BY <1>1, <1>3, SlotsKeepShape DEF Sound

\* What an alarm step leaves: the slots but those on which it releases a stale row.
AlarmKeeps(T) ==
    /\ InShape(db', T \ Misreleases)
    /\ Misreleases = {} => Sound(db, db', T)

LEMMA SoundAlarm ==
    ASSUME NEW T \in SUBSET Slots, Sound(db, db', T)
    PROVE  AlarmKeeps(T)
<1>1. InShape(db', T)
  BY DEF Sound
<1> HIDE DEF Misreleases
<1> QED BY <1>1, InShapeOnFewer DEF AlarmKeeps

\* The alarm releases a job from its copy of the row.
LEMMA FinishRowKeepsShape ==
    ASSUME NEW T \in SUBSET Slots, SchedulerTypeOK, InShape(db, T),
           NEW row \in StoppedRow, NEW retry \in BOOLEAN,
           row \in alarm.work \cup ({alarm.current} \ {None}),
           FinishRow(row, retry)
    PROVE  AlarmKeeps(T)
<1> DEFINE j == row.job
           new == [db.jobs[j] EXCEPT !.cleanup = retry]
           cleaned == [db EXCEPT !.jobs[j] = new]
           status == IF row.status = "releasing" THEN "completed" ELSE "failed"
<1>1. j \in Jobs /\ db \in Database
  BY DEF StoppedRow, SchedulerTypeOK
<1>2. /\ new \in JobRow /\ new.status = db.jobs[j].status /\ new.slot = db.jobs[j].slot
      /\ new.runner = db.jobs[j].runner /\ new.attempt = db.jobs[j].attempt
  BY <1>1, DatabaseType DEF JobRow
<1>3. [db EXCEPT !.jobs[row.job].cleanup = retry] = cleaned
  BY <1>1, DatabaseType DEF Database, JobRow
<1>4. db' = IF alarm.phase = "recovering" THEN AdmitNext(ReleaseJob(cleaned, j, row.slot, status)).db
            ELSE cleaned
  BY <1>3 DEF FinishRow, RowDone, NoAdmission
<1> HIDE DEF new
<1>5. cleaned \in Database /\ cleaned.jobs[j] = new
  BY <1>1, <1>2, SetJobType
<1>6. Sound(db, cleaned, T) /\ InShape(cleaned, T)
  <2>1. db.jobs[j].status \in {"unknown", "queued"} => db.jobs[j].slot = None
    BY <1>1 DEF InShape, Consistent, Waiting, WithStatus
  <2> QED BY <1>1, <1>2, <2>1, SetJobSound DEF Sound
<1> HIDE DEF cleaned
<1>7. CASE alarm.phase = "recovering" /\ ~StaleRow(row)
  <2>1. cleaned.jobs[j].slot = row.slot /\ cleaned.jobs[j].status \in ACTIVE_JOB_STATES
    BY <1>2, <1>5, <1>7 DEF StaleRow, Active, WithStatus
  <2>2. status \in {"completed", "cancelled", "failed"}
    OBVIOUS
  <2> HIDE DEF status
  <2> DEFINE released == ReleaseJob(cleaned, j, row.slot, status)
  <2>3. released \in Database /\ Sound(cleaned, released, T)
    BY <1>1, <1>5, <1>6, <2>1, <2>2, ReleaseKeepsShape
  <2>4. db' = AdmitNext(released).db
    BY <1>4, <1>7
  <2> HIDE DEF released
  <2>5. Sound(released, db', T)
    BY <2>3, <2>4, AdmitNextKeepsShape DEF Sound
  <2>6. Sound(db, db', T)
    BY <1>6, <2>3, <2>5, SoundTwice
  <2> QED BY <2>6, SoundAlarm
<1>8. CASE alarm.phase = "recovering" /\ StaleRow(row)
  <2>1. row.slot \in Misreleases
    <3>1. StaleRelease(row) /\ row \in InRecovery
      BY <1>8 DEF StaleRelease, InRecovery
    <3> QED BY <3>1 DEF Misreleases
  <2>2. status \in {"completed", "failed"} /\ row.slot \in Slots \cup {None}
    BY DEF StoppedRow
  <2> HIDE DEF status
  <2> DEFINE released == ReleaseJob(cleaned, j, row.slot, status)
             U == T \ {row.slot}
  <2>3. released \in Database /\ InShape(released, U)
    BY <1>1, <1>5, <1>6, <2>2, StaleReleaseKeepsShape, ReleaseJobEffect DEF ReleasesOne
  <2>4. db' = AdmitNext(released).db
    BY <1>4, <1>8
  <2>5. U \in SUBSET Slots
    OBVIOUS
  <2> HIDE DEF released, U, Misreleases
  <2>6. InShape(db', U)
    BY <2>3, <2>4, <2>5, AdmitNextKeepsShape DEF Sound
  <2>7. InShape(db', U \ Misreleases)
    BY <2>6, InShapeOnFewer
  <2>8. U \ Misreleases = T \ Misreleases
    BY <2>1 DEF U
  <2> QED BY <2>1, <2>7, <2>8 DEF AlarmKeeps
<1>9. CASE alarm.phase # "recovering"
  BY <1>4, <1>6, <1>9, SoundAlarm
<1> QED BY <1>7, <1>8, <1>9

LEMMA PlanCapacityUpdatesKeepsShape ==
    ASSUME NEW T \in SUBSET Slots, SchedulerTypeOK, InShape(db, T), PlanCapacityUpdates
    PROVE  Sound(db, db', T)
<1>1. PICK stalled \in SUBSET UpdatingSlots(db) : db' = [Awake EXCEPT !.slots = RecoverStalled(@, stalled)]
  BY DEF PlanCapacityUpdates
<1> DEFINE slots == RecoverStalled(Awake.slots, stalled)
<1>2. Awake \in Database /\ InShape(Awake, T) /\ Sound(db, Awake, T)
  BY AwakeKeepsShape
<1>3. slots \in [Slots -> SlotRow] /\ \A s \in Slots : slots[s].reserved = Awake.slots[s].reserved
  BY <1>2, DatabaseType, RecoverStalledType
<1>4. \A s \in Slots : SlotKeeps(Awake.slots[s], slots[s])
  <2>1. ASSUME NEW s \in Slots PROVE SlotKeeps(Awake.slots[s], slots[s])
    <3>1. Awake.slots[s] \in SlotRow
      BY <1>2, DatabaseType
    <3> QED BY <3>1 DEF RecoverStalled, SlotKeeps, SameShape, SlotRow
  <2> QED BY <2>1
<1> HIDE DEF slots
<1>5. db' = [Awake EXCEPT !.slots = slots]
  BY <1>1 DEF slots
<1>6. db' \in Database /\ SameJobs(Awake, db') /\ db'.slots = slots
  BY <1>2, <1>3, <1>5 DEF Database, SameJobs
<1>7. Sound(Awake, db', T)
  BY <1>2, <1>4, <1>6, SlotsKeepShape
<1> QED BY <1>2, <1>7, SoundTwice

LEMMA StartCapacityUpdateKeepsShape ==
    ASSUME NEW T \in SUBSET Slots, SchedulerTypeOK, InShape(db, T), StartCapacityUpdate
    PROVE  Sound(db, db', T)
<1>1. alarm.work \subseteq DueSlot /\ db \in Database
  BY DEF StartCapacityUpdate, SchedulerTypeOK, AlarmType
<1>2. PICK due \in NextDue(alarm.work) :
        \/ db' = [db EXCEPT !.slots[due.slot].updating = TRUE,
                            !.slots[due.slot].updateGeneration = due.generation]
        \/ db' = db
  BY DEF StartCapacityUpdate
<1> DEFINE s == due.slot
           row == [db.slots[s] EXCEPT !.updating = TRUE, !.updateGeneration = due.generation]
<1>3. s \in Slots /\ due.generation \in Nat
  BY <1>1 DEF NextDue, DueSlot
<1>4. db.slots[s] \in SlotRow
  BY <1>1, <1>3, DatabaseType
<1>5. row \in SlotRow /\ row.reserved = db.slots[s].reserved /\ SlotKeeps(db.slots[s], row)
  <2> HIDE DEF s
  <2> QED BY <1>3, <1>4 DEF SlotRow, SlotKeeps, SameShape
<1>6. db' = [db EXCEPT !.slots[s] = row] \/ db' = db
  BY <1>1, <1>2, <1>3, DatabaseType DEF Database, SlotRow
<1> HIDE DEF row, s
<1> QED BY <1>1, <1>3, <1>5, <1>6, SetSlotShape, NothingIsSound

LEMMA FinishCapacityUpdateKeepsShape ==
    ASSUME NEW T \in SUBSET Slots, SchedulerTypeOK, InShape(db, T), NEW succeeded \in BOOLEAN, FinishCapacityUpdate(succeeded)
    PROVE  Sound(db, db', T)
<1> DEFINE due == alarm.current
           row == db.slots[due.slot]
           updating == row.updating /\ row.updateGeneration # due.generation
           new == [row EXCEPT !.updating = updating]
<1>1. due \in DueSlot /\ db \in Database
  BY DEF FinishCapacityUpdate, SchedulerTypeOK, AlarmType
<1>2. due.slot \in Slots /\ due.generation \in Nat /\ row \in SlotRow /\ updating \in BOOLEAN
  BY <1>1, DatabaseType DEF DueSlot
<1>3. new \in SlotRow /\ new.reserved = row.reserved /\ SlotKeeps(row, new)
  <2> HIDE DEF row, updating
  <2> QED BY <1>2 DEF SlotRow, SlotKeeps, SameShape
<1>4. db' = IF succeeded THEN CapacityPrepared(db, due.slot, due.generation).db
            ELSE [db EXCEPT !.slots[due.slot] = new]
  <2>1. [db EXCEPT !.slots[due.slot].updating = @ /\ row.updateGeneration # due.generation]
          = [db EXCEPT !.slots[due.slot] = new]
    BY <1>1, <1>2, DatabaseType DEF Database, SlotRow
  <2> QED BY <2>1 DEF FinishCapacityUpdate, NoAdmission
<1> HIDE DEF new
<1>5. CASE succeeded
  BY <1>1, <1>2, <1>4, <1>5, CapacityPreparedSounds DEF Sounds
<1>6. CASE ~succeeded
  BY <1>1, <1>2, <1>3, <1>4, <1>6, SetSlotShape
<1> QED BY <1>5, <1>6

LEMMA ReleaseHoldKeepsShape ==
    ASSUME NEW T \in SUBSET Slots, NEW d \in Database, NEW s \in Slots, InShape(d, T)
    PROVE  Sound(d, ReleaseHold(d, s), T)
<1> DEFINE row == d.slots[s]
           reductions == PlannedReductions(d.slots, d.releasedBefore, s, row.pending, row.desired)
           new == [row EXCEPT !.reclaimPending = FALSE]
<1>1. \/ ReleaseHold(d, s) = d
      \/ ReleaseHold(d, s) = ScheduleCapacityReclamation(d, reductions)
      \/ ReleaseHold(d, s) = [d EXCEPT !.slots[s].reclaimPending = FALSE]
  BY DEF ReleaseHold
<1>2. CASE ReleaseHold(d, s) = ScheduleCapacityReclamation(d, reductions)
  <2> DEFINE e == ScheduleCapacityReclamation(d, reductions)
  <2>1. reductions \in SUBSET [slot : Slots, target : Nat]
    BY DatabaseType, PlannedReductionsType
  <2> HIDE DEF reductions
  <2>2. e \in Database /\ SameJobs(d, e)
    BY <2>1, ReclamationEffect DEF SameJobs
  <2>3. \A t \in Slots : SlotKeeps(d.slots[t], e.slots[t])
    BY <2>1, ReclamationKeepsShapes DEF SlotKeeps
  <2> HIDE DEF e
  <2>4. Sound(d, e, T)
    BY <2>2, <2>3, SlotsKeepShape
  <2> QED BY <1>2, <2>4 DEF e
<1>3. CASE ReleaseHold(d, s) = [d EXCEPT !.slots[s].reclaimPending = FALSE]
  <2>1. [d EXCEPT !.slots[s].reclaimPending = FALSE] = [d EXCEPT !.slots[s] = new]
    BY DatabaseType DEF Database, SlotRow
  <2>2. row \in SlotRow
    BY DatabaseType
  <2>3. new \in SlotRow /\ new.reserved = row.reserved /\ SlotKeeps(row, new)
    <3> HIDE DEF row
    <3> QED BY <2>2 DEF SlotRow, SlotKeeps, SameShape
  <2> HIDE DEF new
  <2>4. Sound(d, [d EXCEPT !.slots[s] = new], T)
    BY <2>3, SetSlotShape
  <2> QED BY <1>3, <2>1, <2>4
<1> QED BY <1>1, <1>2, <1>3, NothingIsSound

LEMMA AlarmKeepsShape ==
    ASSUME NEW T \in SUBSET Slots, SchedulerTypeOK, InShape(db, T), AlarmNext
    PROVE  AlarmKeeps(T)
<1>1. /\ Awake \in Database /\ InShape(Awake, T) /\ Sound(db, Awake, T)
      /\ db \in Database /\ AlarmType(alarm)
  BY AwakeKeepsShape DEF SchedulerTypeOK
<1>2. CASE RecoverStoppedRunners \/ RetryCleanups \/ CheckCapacityHolds
  BY <1>1, <1>2, SoundAlarm DEF RecoverStoppedRunners, RetryCleanups, CheckCapacityHolds
<1>3. CASE DeleteRunner
  BY <1>3, NothingIsSound, SoundAlarm DEF DeleteRunner
<1>4. ASSUME NEW gone \in BOOLEAN, RunnerDeleted(gone) PROVE AlarmKeeps(T)
  <2>1. /\ alarm.phase \in {"recovering", "cleaning"} /\ alarm.current # None
        /\ FinishRow(alarm.current, ~gone)
    BY <1>4 DEF RunnerDeleted
  <2>2. alarm.current \in StoppedRow
    BY <1>1, <2>1 DEF AlarmType
  <2>3. (~gone) \in BOOLEAN /\ alarm.current \in alarm.work \cup ({alarm.current} \ {None})
    BY <2>1
  <2> QED BY <2>1, <2>2, <2>3, FinishRowKeepsShape
<1>5. CASE NothingToDelete
  <2>1. PICK row \in alarm.work : FinishRow(row, FALSE)
    BY <1>5 DEF NothingToDelete
  <2>2. row \in StoppedRow
    BY <1>1, <1>5 DEF NothingToDelete, AlarmType
  <2>3. FALSE \in BOOLEAN /\ row \in alarm.work \cup ({alarm.current} \ {None})
    OBVIOUS
  <2> QED BY <2>1, <2>2, <2>3, FinishRowKeepsShape
<1>6. CASE PlanCapacityUpdates
  BY <1>6, PlanCapacityUpdatesKeepsShape, SoundAlarm
<1>7. CASE StartCapacityUpdate
  BY <1>7, StartCapacityUpdateKeepsShape, SoundAlarm
<1>8. ASSUME NEW succeeded \in BOOLEAN, FinishCapacityUpdate(succeeded) PROVE AlarmKeeps(T)
  BY <1>8, FinishCapacityUpdateKeepsShape, SoundAlarm
<1>9. CASE CheckCapacityHold
  <2>1. PICK s \in FirstById(alarm.work) : db' = ReleaseHold(db, s)
    BY <1>9 DEF CheckCapacityHold
  <2>2. s \in Slots
    BY <1>1, <1>9, <2>1 DEF CheckCapacityHold, AlarmType, FirstById
  <2> QED BY <1>1, <2>1, <2>2, ReleaseHoldKeepsShape, SoundAlarm
<1>10. CASE AlarmEnds
  <2>1. db' = ScheduleWorkAlarm(AdmitNext(Awake).db)
    BY <1>10 DEF AlarmEnds, LastAdmissions
  <2>2. AdmitNext(Awake).db \in Database /\ Sound(Awake, AdmitNext(Awake).db, T)
    BY <1>1, AdmitNextPreserves, AdmitNextKeepsShape DEF Preserves
  <2>3. Sound(AdmitNext(Awake).db, db', T)
    BY <2>1, <2>2, ScheduleWorkAlarmKeepsShape DEF Sound
  <2>4. Sound(db, db', T)
    BY <1>1, <2>2, <2>3, SoundTwice
  <2> QED BY <2>4, SoundAlarm
<1> QED BY <1>2, <1>3, <1>4, <1>5, <1>6, <1>7, <1>8, <1>9, <1>10 DEF AlarmNext

\* The constructor takes back the configurations whose last reservation it takes.
LEMMA ReconstructedKeepsShape ==
    ASSUME NEW T \in SUBSET Slots, NEW d \in Database, NEW stalled, InShape(d, T)
    PROVE  Sound(d, Reconstructed(d, stalled), T)
<1> DEFINE releasing == WithStatus(d, {"releasing"})
           vacated == {s \in Slots : \E j \in releasing : d.jobs[j].slot = s}
           held(s) == Cardinality(ActiveOn(d, s) \ releasing)
           counted(s) == [d.slots[s] EXCEPT !.reserved = held(s)]
           settled == [s \in Slots |-> IF s \in vacated THEN ReleasedSlot(counted(s), held(s))
                                       ELSE counted(s)]
           jobs == [j \in Jobs |-> IF j \in releasing
                                   THEN [d.jobs[j] EXCEPT !.status = "completed", !.due = FALSE]
                                   ELSE d.jobs[j]]
           slots == RecoverStalled(settled, stalled)
           released == ReleasedNow(d.releasedBefore, vacated)
           e == Reconstructed(d, stalled)
<1>1. e = [d EXCEPT !.jobs = jobs, !.slots = slots, !.releasedBefore = released]
  BY DEF Reconstructed
<1>2. e \in Database /\ Consistent(e, T)
  <2>1. e \in Database /\ Consistent(e, Slots)
    BY ReconstructedEffect DEF InShape, Consistent
  <2> QED BY <2>1 DEF Consistent
<1>3. ASSUME NEW s \in Slots PROVE SlotKeeps(d.slots[s], slots[s])
  <2> DEFINE row == d.slots[s]
             n == held(s)
             count == [row EXCEPT !.reserved = n]
             next == IF s \in vacated THEN ReleasedSlot(count, n) ELSE count
  <2>1. row \in SlotRow /\ n \in Nat
    BY DatabaseType, ActiveOnType, FS_Subset, FS_CardinalityType
  <2>2. slots[s] = IF s \in stalled THEN [next EXCEPT !.updating = FALSE] ELSE next
    BY DEF RecoverStalled
  <2> HIDE DEF row, n
  <2>3. count \in SlotRow /\ SameShape(row, count)
    BY <2>1 DEF SlotRow, SameShape
  <2> HIDE DEF count
  <2>4. SlotKeeps(count, ReleasedSlot(count, n)) /\ ReleasedSlot(count, n) \in SlotRow
    BY <2>1, <2>3, ReleasedSlotKeeps, ReleasedSlotType
  <2>5. next \in SlotRow /\ SlotKeeps(row, next)
    BY <2>3, <2>4 DEF SlotKeeps, SameShape, Abandons, Configures
  <2> HIDE DEF next, slots
  <2>6. LET settles == [next EXCEPT !.updating = FALSE]
        IN  SameShape(next, settles) /\ settles.reserved = next.reserved
    BY <2>5 DEF SlotRow, SameShape
  <2>7. SlotKeeps(row, slots[s])
    BY <2>2, <2>5, <2>6 DEF SlotKeeps, SameShape, Abandons, Configures
  <2> QED BY <2>7 DEF row
<1>4. ASSUME NEW j \in Jobs
      PROVE  IF j \in releasing THEN jobs[j].slot = d.jobs[j].slot /\ jobs[j].status = "completed"
             ELSE jobs[j] = d.jobs[j]
  <2>1. d.jobs[j] \in JobRow
    BY DatabaseType
  <2> HIDE DEF releasing
  <2> QED BY <2>1 DEF JobRow
<1>10. ASSUME NEW s \in Slots, slots[s].state = "configuring"
      PROVE  slots[s].reserved = held(s) /\ (s \in vacated => held(s) # 0)
  <2> DEFINE row == d.slots[s]
             n == held(s)
             count == [row EXCEPT !.reserved = n]
             next == IF s \in vacated THEN ReleasedSlot(count, n) ELSE count
  <2>1. row \in SlotRow /\ n \in Nat
    BY DatabaseType, ActiveOnType, FS_Subset, FS_CardinalityType
  <2>2. slots[s] = IF s \in stalled THEN [next EXCEPT !.updating = FALSE] ELSE next
    BY DEF RecoverStalled
  <2> HIDE DEF row, n
  <2>3. count \in SlotRow /\ count.reserved = n
    BY <2>1 DEF SlotRow
  <2> HIDE DEF count, slots
  <2>4. next \in SlotRow
    BY <2>1, <2>3, ReleasedSlotType
  <2> HIDE DEF next
  <2>5. slots[s].reserved = next.reserved /\ next.state = "configuring"
    BY <1>10, <2>2, <2>4 DEF SlotRow
  <2>6. ReleasedSlot(count, n).reserved = n /\ (n = 0 => ReleasedSlot(count, n).state # "configuring")
    BY <2>1, <2>3 DEF ReleasedSlot, SlotRow
  <2> QED BY <2>3, <2>5, <2>6 DEF next, n
<1> HIDE DEF jobs, slots, released, e, releasing, vacated, held
<1>5. e.jobs = jobs /\ e.slots = slots
  BY <1>1 DEF Database
<1>6. \A j \in Jobs : Follows(d, e, j)
  BY <1>4, <1>5 DEF Follows, ACTIVE_JOB_STATES
<1>7. InShape(e, T)
  BY <1>2, <1>3, <1>5, <1>6, KeepsShape
<1>8. Rooted(d, e)
  <2>1. \A j \in Jobs : Stays(d, e, j)
    BY <1>4, <1>5 DEF Stays, Underway, ACTIVE_JOB_STATES
  <2> QED BY <1>2, <1>3, <1>5, <2>1, KeepsRoots DEF Rooted
<1>9. ASSUME Held(d), NEW s \in Slots, e.slots[s].state = "configuring"
      PROVE  e.slots[s].reserved # 0 /\ e.slots[s].reserved = Cardinality(ActiveOn(e, s))
  <2>1. ActiveOn(e, s) = ActiveOn(d, s) \ releasing
    BY <1>4, <1>5 DEF ActiveOn, Active, WithStatus, ACTIVE_JOB_STATES
  <2>2. e.slots[s].reserved = held(s) /\ (s \in vacated => held(s) # 0)
    BY <1>5, <1>9, <1>10
  <2>3. held(s) = Cardinality(ActiveOn(e, s))
    BY <2>1 DEF held
  <2>4. CASE s \notin vacated
    <3>1. ActiveOn(e, s) = ActiveOn(d, s)
      BY <2>1, <2>4 DEF vacated, ActiveOn, releasing, WithStatus
    <3>2. d.slots[s].state = "configuring"
      BY <1>3, <1>5, <1>9 DEF SlotKeeps, SameShape, Abandons, Configures
    <3> QED BY <1>9, <2>2, <2>3, <3>1, <3>2 DEF Held, HeldOn
  <2> QED BY <2>2, <2>3, <2>4
<1>11. Sound(d, e, T)
  BY <1>7, <1>8, <1>9 DEF Sound, Held, HeldOn
<1> QED BY <1>11 DEF e

LEMMA RestartKeepsShape ==
    ASSUME NEW T \in SUBSET Slots, SchedulerTypeOK, InShape(db, T), Restart
    PROVE  Sound(db, db', T)
<1>1. PICK stalled \in SUBSET UpdatingSlots(db) :
        db' = ScheduleWorkAlarm([Reconstructed(db, stalled) EXCEPT
                                   !.alarm = @ \/ alarm.phase # "idle"])
  BY DEF Restart
<1> DEFINE e == Reconstructed(db, stalled)
           woken == e.alarm \/ alarm.phase # "idle"
           f == [e EXCEPT !.alarm = woken]
<1>2. e \in Database /\ Sound(db, e, T) /\ InShape(e, T)
  BY ReconstructedEffect, ReconstructedKeepsShape DEF SchedulerTypeOK, Sound
<1>3. db' = ScheduleWorkAlarm(f)
  BY <1>1
<1> HIDE DEF e
<1>4. woken \in BOOLEAN
  OBVIOUS
<1> HIDE DEF woken
<1>5. f \in Database /\ SameJobs(e, f) /\ f.slots = e.slots
  BY <1>2, <1>4 DEF Database, SameJobs
<1> HIDE DEF f
<1>6. \A s \in Slots : SlotKeeps(e.slots[s], f.slots[s])
  BY <1>5 DEF SlotKeeps, SameShape
<1>7. Sound(e, f, T)
  BY <1>2, <1>5, <1>6, SlotsKeepShape
<1>8. Sound(f, db', T)
  BY <1>3, <1>5, <1>7, ScheduleWorkAlarmKeepsShape DEF Sound
<1> QED BY <1>2, <1>7, <1>8, SoundTwice

-----------------------------------------------------------------------------
(* The theorem. *)

\* A new account has its preset slots, and custom slots without a shape.
LEMMA StartsInShape == Init => InShape(db, Slots)
<1> SUFFICES ASSUME Init PROVE InShape(db, Slots)
  OBVIOUS
<1>1. db.jobs = [j \in Jobs |-> NoJobRow(j)] /\ db.slots = [s \in Slots |-> InitialSlot(s)]
  BY DEF Init
<1>2. Consistent(db, Slots)
  BY InitialState
<1>3. ASSUME NEW s \in Slots PROVE SlotShaped(db.slots[s], s)
  <2>1. db.slots[s] = InitialSlot(s)
    BY <1>1
  <2>2. CASE s \in CustomSlots
    BY <2>1, <2>2 DEF InitialSlot, SlotShaped
  <2>3. CASE s \notin CustomSlots
    <3>1. \E p \in Profiles : PresetSlot[p] = s
      BY <2>3 DEF CustomSlots
    <3>2. InitialSlot(s).profile \in Profiles /\ PresetSlot[InitialSlot(s).profile] = s
      BY <2>3, <3>1 DEF InitialSlot
    <3>3. InitialSlot(s).state = "ready" /\ InitialSlot(s).owner = None
      BY <2>3 DEF InitialSlot
    <3> QED BY <2>1, <2>3, <3>2, <3>3 DEF SlotShaped, CandidateProfile
  <2> QED BY <2>2, <2>3
<1>4. Active(db) = {}
  BY <1>1, NoJobRowType DEF Active, WithStatus, ACTIVE_JOB_STATES
<1>5. ShapesDiffer(db)
  BY <1>1 DEF ShapesDiffer, InitialSlot, CustomSlots
<1> QED BY <1>2, <1>3, <1>4, <1>5 DEF InShape, JobsShaped

LEMMA StepsKeepShape ==
    ASSUME NEW T \in SUBSET Slots, SchedulerTypeOK, InShape(db, T), [Next]_schedulerVars
    PROVE  InShape(db', T \ Misreleases)
<1>1. CASE Call \/ Restart \/ UNCHANGED schedulerVars
  <2>1. InShape(db', T)
    BY <1>1, CallsKeepShape, RestartKeepsShape DEF Sound, schedulerVars
  <2> HIDE DEF Misreleases
  <2> QED BY <2>1, InShapeOnFewer
<1>2. CASE AlarmNext
  BY <1>2, AlarmKeepsShape DEF AlarmKeeps
<1> QED BY <1>1, <1>2 DEF Next

\* The inductive invariant of the pool about the shapes: the slots on which no stale
\* row was released have the shape of their jobs and count them.
THEOREM SlotsStayInShape == PoolSpec => []InShape(db, Slots \ misreleased)
<1> DEFINE Kept == InShape(db, Slots \ misreleased)
<1>1. PoolInit => Kept
  <2> SUFFICES ASSUME PoolInit PROVE Kept
    OBVIOUS
  <2>1. InShape(db, Slots) /\ misreleased = {}
    BY StartsInShape DEF PoolInit
  <2>2. Slots \ misreleased = Slots
    BY <2>1
  <2> QED BY <2>1, <2>2
<1>2. InOrder /\ Kept /\ [PoolNext]_vars => InShape(db', Slots \ misreleased')
  <2> SUFFICES ASSUME InOrder, InShape(db, Slots \ misreleased), [PoolNext]_vars
               PROVE  InShape(db', Slots \ misreleased')
    OBVIOUS
  <2>1. CASE UNCHANGED vars
    BY <2>1 DEF vars, schedulerVars
  <2>2. CASE PoolNext
    <3>1. [Next]_schedulerVars /\ SchedulerTypeOK
      BY PoolStaysInOrder DEF InOrder
    <3>2. InShape(db', (Slots \ misreleased) \ Misreleases)
      BY <3>1, StepsKeepShape
    <3>3. misreleased' = misreleased \cup Misreleases
      BY <2>2 DEF PoolNext, Recorded
    <3>4. Slots \ misreleased' = (Slots \ misreleased) \ Misreleases
      BY <3>3
    <3> QED BY <3>2, <3>4
  <2> QED BY <2>1, <2>2
<1>3. InShape(db', Slots \ misreleased') => Kept'
  BY DEF InShape, JobsShaped, ShapesDiffer, Consistent, Waiting, WithStatus, CoveredOn, ActiveOn, Active
<1> HIDE DEF Kept
<1>4. PoolSpec => []Kept
  BY <1>1, <1>2, <1>3, PoolIsInOrder, PTL DEF PoolSpec
<1> QED BY <1>4 DEF Kept

\* No custom slot is reconfigured under a job, whatever GitHub reassigns, whichever
\* calls fail or come late and wherever the instance dies (selectCustomSlot,
\* releaseJob), but for the slots on which a stale row was released.
THEOREM JobsKeepTheirShape == PoolSpec => []ActiveJobsKeepTheirShape
<1>1. InShape(db, Slots \ misreleased) => ActiveJobsKeepTheirShape
  BY DEF InShape, JobsShaped, HasShape, ActiveJobsKeepTheirShape
<1> QED BY <1>1, SlotsStayInShape, PTL

-----------------------------------------------------------------------------
(* Who holds a slot that is being configured, in the pool. *)

\* A runner is on its way once its instance has reported the configuration.
Begun(name, g, st, c) ==
    \/ st[name] \in {"reporting", "checking", "creating", "recording", "starting", "started"}
    \/ \E x \in c : x.name = name
    \/ \E j \in Jobs : g[j].runner = name

\* A job that is under way on a slot being configured owns the configuration, and its
\* runner has not begun; or it runs on another job's runner, and its own name is unused.
OwnerOrGuest(d, g, st, c, j) ==
    OnConfiguring(d, j) =>
        IF d.jobs[j].runner = OwnName(d, j)
        THEN /\ d.slots[d.jobs[j].slot].owner = j /\ d.jobs[j].status # "running"
             /\ ~Begun(OwnName(d, j), g, st, c)
        ELSE Unused(OwnName(d, j), g, st, c)
OnlyOwners(d, g, st, c) == \A j \in Jobs : OwnerOrGuest(d, g, st, c, j)

StopsAreOver == \A name \in stops : ~Ahead(db, name)

\* The pool's inductive invariant about the slots being configured.
PoolShape ==
    /\ InShape(db, Slots) /\ Held(db)
    /\ OnlyOwners(db, github, stage, containers)
    /\ StopsAreOver

\* What a step leaves of a runner: unused if it was, and not begun if it was not.
Undisturbed(name) ==
    /\ Begun(name, github', stage', containers') => Begun(name, github, stage, containers)
    /\ Unused(name, github, stage, containers) => Unused(name, github', stage', containers')

ShapeStep == InShape(db, Slots)' /\ Held(db)' /\ OnlyOwners(db, github, stage, containers)'

\* A row's own name is an instance's, and no other job's.
LEMMA OwnNames ==
    ASSUME NEW d, NEW g, RowsNamed(d, g), NEW j \in Jobs
    PROVE  /\ OwnName(d, j) \in WorkflowIds /\ OwnName(d, j).job = j
           /\ OwnName(d, j).attempt = d.jobs[j].attempt
BY DEF RowsNamed, OwnName, RunnerName, WorkflowIds

LEMMA WaitingOwnNames ==
    ASSUME InOrder, NEW j \in Jobs, db.jobs[j].status = "admitted"
    PROVE  /\ db.jobs[j].runner = OwnName(db, j) /\ Ahead(db, OwnName(db, j))
           /\ Unused(OwnName(db, j), github, stage, containers)
<1>1. RowsNamed(db, github) /\ NamesUnused(db, github, stage, containers)
  BY DEF InOrder, PoolNames, SchedulerNames
<1>2. OwnName(db, j) \in WorkflowIds /\ OwnName(db, j).job = j
      /\ OwnName(db, j).attempt = db.jobs[j].attempt
  BY <1>1, OwnNames
<1>3. db.jobs[j].runner = OwnName(db, j)
  BY <1>1 DEF RowsNamed, Waits, OwnName
<1>4. Ahead(db, OwnName(db, j))
  BY <1>2 DEF Ahead, Waits
<1> QED BY <1>1, <1>2, <1>3, <1>4 DEF NamesUnused

\* A step that is sound for the scheduler, and leaves the names at stake alone.
LEMMA SoundSteps ==
    ASSUME PoolShape, Sound(db, db', Slots),
           \A j \in Jobs : OnConfiguring(db, j) /\ OnConfiguring(db', j) => Undisturbed(OwnName(db, j))
    PROVE  ShapeStep
<1>1. ASSUME NEW j \in Jobs PROVE OwnerOrGuest(db', github', stage', containers', j)
  <2> SUFFICES ASSUME OnConfiguring(db', j) PROVE OwnerOrGuest(db', github', stage', containers', j)
    BY DEF OwnerOrGuest
  <2>1. OnConfiguring(db, j) /\ Roots(db, db', j)
    BY DEF Sound, Rooted, Roots
  <2>2. OwnName(db', j) = OwnName(db, j) /\ Undisturbed(OwnName(db, j))
    BY <2>1 DEF Roots, OwnName
  <2>3. OwnerOrGuest(db, github, stage, containers, j)
    BY DEF PoolShape, OnlyOwners
  <2>4. CASE db.jobs[j].runner = OwnName(db, j)
    BY <2>1, <2>2, <2>3, <2>4 DEF Roots, OwnerOrGuest, Undisturbed
  <2>5. CASE db.jobs[j].runner # OwnName(db, j)
    BY <2>1, <2>2, <2>3, <2>5 DEF Roots, OwnerOrGuest, Undisturbed
  <2> QED BY <2>4, <2>5
<1> QED BY <1>1 DEF PoolShape, ShapeStep, OnlyOwners, Sound

\* The scheduler moves and the world stays.
LEMMA AloneIsUndisturbed ==
    ASSUME UNCHANGED <<github, stage>>, containers' \subseteq containers, NEW name
    PROVE  Undisturbed(name)
BY DEF Undisturbed, Begun, Unused

LEMMA SoundAlone ==
    ASSUME PoolShape, Sound(db, db', Slots), UNCHANGED <<github, stage>>, containers' \subseteq containers
    PROVE  ShapeStep
BY SoundSteps, AloneIsUndisturbed

\* An instance goes on: a runner begins with a configuration that is reported or not
\* needed, and a name is used with a claim that is granted.
LEMMA InstanceIsUndisturbed ==
    ASSUME InOrder, NEW w \in WorkflowIds, NEW s \in Stages, Go(w, s), UNCHANGED github,
           NEW name \in WorkflowIds,
           \A x \in containers' \ containers : x.name = w /\ stage[w] = "starting",
           name = w =>
               /\ stage[w] \in {"reporting", "checking", "creating", "recording", "starting", "started"}
                  \/ s \notin {"reporting", "checking", "creating", "recording", "starting", "started"}
               /\ stage[w] \notin {"claiming", "finished"} \/ s \in {"claiming", "finished"}
    PROVE  Undisturbed(name)
<1>1. stage' = [stage EXCEPT ![w] = s] /\ stage \in [WorkflowIds -> Stages]
  BY DEF Go, InOrder, PoolTypes
<1>2. stage'[name] = IF name = w THEN s ELSE stage[name]
  BY <1>1
<1>3. Begun(name, github', stage', containers') => Begun(name, github, stage, containers)
  BY <1>2 DEF Begun
<1>4. Unused(name, github, stage, containers) => Unused(name, github', stage', containers')
  BY <1>2 DEF Unused
<1> QED BY <1>3, <1>4 DEF Undisturbed

LEMMA SoundInstance ==
    ASSUME InOrder, PoolShape, Sound(db, db', Slots),
           NEW w \in WorkflowIds, NEW s \in Stages, Go(w, s), UNCHANGED github,
           \A x \in containers' \ containers : x.name = w /\ stage[w] = "starting",
           stage[w] \in {"reporting", "checking", "creating", "recording", "starting", "started"}
               \/ s \notin {"reporting", "checking", "creating", "recording", "starting", "started"},
           stage[w] \notin {"claiming", "finished"} \/ s \in {"claiming", "finished"}
    PROVE  ShapeStep
<1>1. ASSUME NEW j \in Jobs PROVE Undisturbed(OwnName(db, j))
  <2>1. OwnName(db, j) \in WorkflowIds
    BY OwnNames DEF InOrder, PoolNames, SchedulerNames
  <2> QED BY <2>1, InstanceIsUndisturbed
<1> QED BY <1>1, SoundSteps

\* A granted claim puts the owner of the configuration under way, or nobody on such a slot.
LEMMA ClaimKeepsOwners ==
    ASSUME InOrder, PoolShape, NEW w \in WorkflowIds, ClaimGranted(w, w), UNCHANGED poolVars
    PROVE  ShapeStep
<1> DEFINE j == w.job
           e == ClaimProvisioning(db, j, w)
           slot == db.slots[db.jobs[j].slot]
           configure == slot.state = "configuring" /\ slot.owner = j
           s == CASE ~configure -> "checking"
                  [] configure /\ stage[w] = "claiming" -> "preparing"
                  [] OTHER -> "configured"
<1>1. /\ db \in Database /\ RowsNamed(db, github) /\ InShape(db, Slots) /\ Held(db) /\ j \in Jobs
      /\ WorldNames(github, stage, containers, registered, stops)
  BY DEF InOrder, SchedulerTypeOK, PoolNames, SchedulerNames, PoolShape, WorkflowIds
<1>2. /\ db' = e /\ stage[w] \in {"claiming", "reclaiming"} /\ UNCHANGED <<github, containers>>
      /\ ClaimKind(db, j, w) = "provision"
  BY DEF ClaimGranted, Claiming, At, CallClaimProvisioning, Reply, NoAdmission, poolVars
<1>3. Go(w, s) /\ s \in Stages
  BY DEF ClaimGranted, ProvisioningPlan, Stages
<1>4. /\ InShape(e, Slots) /\ Held(e) /\ e.slots = db.slots
      /\ \A k \in Jobs \ {j} : e.jobs[k] = db.jobs[k]
      /\ e.jobs[j] = [db.jobs[j] EXCEPT !.status = e.jobs[j].status]
      /\ e.jobs[j].status = db.jobs[j].status
         \/ (e.jobs[j].status = "provisioning" /\ db.jobs[j].status = "admitted")
  <2>1. Slots \in SUBSET Slots /\ Waiting(db)
    BY <1>1 DEF InShape, Consistent
  <2>2. InShape(e, Slots)
    BY <1>1, <2>1, ClaimProvisioningKeepsShape
  <2> QED BY <1>1, <2>1, <2>2, ClaimProvisioningEffect
<1>5. /\ db.jobs[j].runner = w
      /\ db.jobs[j].status \in {"queued", "admitted"} /\ slot.state = "configuring" => slot.owner = j
  BY <1>2 DEF ClaimKind
<1>6. w = OwnName(db, j)
  <2>1. \A k \in Jobs : github[k].runner # w
    BY <1>1, <1>2, NamesInBounds DEF WorldNames, Past
  <2> QED BY <1>1, <1>5, <2>1 DEF RowsNamed, OwnName
<1> HIDE DEF e, s
<1>7. ASSUME NEW k \in Jobs \ {j} PROVE OwnerOrGuest(e, github', stage', containers', k)
  <2>1. OwnName(e, k) = OwnName(db, k) /\ OwnName(db, k) \in WorkflowIds /\ OwnName(db, k) # w
    BY <1>1, <1>4, OwnNames DEF OwnName
  <2>2. Undisturbed(OwnName(db, k))
    BY <1>2, <1>3, <2>1, InstanceIsUndisturbed
  <2>3. OnConfiguring(e, k) => OnConfiguring(db, k)
    BY <1>4 DEF OnConfiguring
  <2>4. OwnerOrGuest(db, github, stage, containers, k)
    BY DEF PoolShape, OnlyOwners
  <2> QED BY <1>4, <2>1, <2>2, <2>3, <2>4 DEF OwnerOrGuest, Undisturbed
<1>8. ASSUME OnConfiguring(e, j) PROVE OwnerOrGuest(e, github', stage', containers', j)
  <2>1. /\ e.jobs[j].runner = w /\ e.jobs[j].slot = db.jobs[j].slot /\ OwnName(e, j) = w
        /\ slot.state = "configuring"
    <3>1. db.jobs[j] \in JobRow
      BY <1>1, DatabaseType
    <3>2. /\ e.jobs[j].runner = db.jobs[j].runner /\ e.jobs[j].slot = db.jobs[j].slot
          /\ e.jobs[j].attempt = db.jobs[j].attempt
      BY <1>4, <3>1 DEF JobRow
    <3> QED BY <1>4, <1>5, <1>6, <1>8, <3>2 DEF OwnName, OnConfiguring
  <2>2. slot.owner = j /\ e.jobs[j].status # "running"
        /\ (\A x \in containers : x.name # w) /\ (\A k \in Jobs : github[k].runner # w)
    <3>1. CASE db.jobs[j].status = "admitted"
      <4>1. Unused(w, github, stage, containers)
        BY <1>1, <1>6, <3>1, WaitingOwnNames
      <4>2. e.jobs[j].status # "running"
        BY <1>4, <3>1
      <4> QED BY <1>5, <2>1, <3>1, <4>1, <4>2 DEF Unused
    <3>2. CASE db.jobs[j].status # "admitted"
      <4>1. e.jobs[j].status = db.jobs[j].status /\ OnConfiguring(db, j)
        BY <1>4, <1>8, <2>1, <3>2 DEF OnConfiguring
      <4>2. OwnerOrGuest(db, github, stage, containers, j)
        BY <1>1 DEF PoolShape, OnlyOwners
      <4> QED BY <1>5, <1>6, <4>1, <4>2 DEF OwnerOrGuest, Begun
    <3> QED BY <3>1, <3>2
  <2>3. stage'[w] \in {"preparing", "configured"}
    <3>1. s \in {"preparing", "configured"}
      BY <2>1, <2>2 DEF s
    <3>2. stage' = [stage EXCEPT ![w] = s] /\ stage \in [WorkflowIds -> Stages]
      BY <1>3 DEF Go, InOrder, PoolTypes
    <3> QED BY <3>1, <3>2
  <2>4. ~Begun(w, github', stage', containers')
    BY <1>2, <2>2, <2>3 DEF Begun
  <2> QED BY <1>4, <2>1, <2>2, <2>4 DEF OwnerOrGuest
<1>9. OwnerOrGuest(e, github', stage', containers', j)
  BY <1>8 DEF OwnerOrGuest
<1> QED BY <1>2, <1>4, <1>7, <1>9 DEF ShapeStep, OnlyOwners

\* The owner reports its configuration, after which the slot is not being configured.
LEMMA ReportKeepsOwners ==
    ASSUME InOrder, PoolShape, NEW w \in WorkflowIds, ReportConfiguration(w, w), UNCHANGED poolVars
    PROVE  ShapeStep
<1> DEFINE e == ConfigurationReady(db, w.job).db
<1>1. /\ db \in Database /\ RowsNamed(db, github) /\ InShape(db, Slots) /\ w.job \in Jobs
  BY DEF InOrder, SchedulerTypeOK, PoolNames, SchedulerNames, PoolShape, WorkflowIds
<1>2. /\ db' = e /\ stage[w] = "configured" /\ Go(w, "reporting") /\ UNCHANGED <<github, containers>>
  BY DEF ReportConfiguration, At, CallConfigurationReady, Reply, poolVars
<1>3. /\ Sound(db, e, Slots)
      /\ OnConfiguring(e, w.job) => db.slots[db.jobs[w.job].slot].owner # w.job
  BY <1>1, ConfigurationReadySounds DEF Sounds
<1> HIDE DEF e
<1>4. ASSUME NEW j \in Jobs, OnConfiguring(db, j), OnConfiguring(e, j)
      PROVE  Undisturbed(OwnName(db, j))
  <2>1. OwnName(db, j) \in WorkflowIds /\ OwnName(db, j).job = j
    BY <1>1, OwnNames
  <2>2. OwnName(db, j) # w
    <3> SUFFICES ASSUME OwnName(db, j) = w PROVE FALSE
      OBVIOUS
    <3>1. j = w.job /\ OwnerOrGuest(db, github, stage, containers, j)
      BY <2>1 DEF PoolShape, OnlyOwners
    <3>2. db.slots[db.jobs[j].slot].owner # j
      BY <1>3, <1>4, <3>1
    <3>3. Unused(w, github, stage, containers)
      BY <1>4, <3>1, <3>2 DEF OwnerOrGuest
    <3> QED BY <1>2, <3>3 DEF Unused
  <2>3. "reporting" \in Stages
    BY DEF Stages
  <2> QED BY <1>2, <2>1, <2>2, <2>3, InstanceIsUndisturbed
<1> QED BY <1>2, <1>3, <1>4, SoundSteps

\* A runner that has begun is nobody's on a slot being configured, under its own name.
LEMMA BegunRunnersStart ==
    ASSUME InOrder, PoolShape, NEW name, Begun(name, github, stage, containers)
    PROVE  Sound(db, RunnerStarted(db, name), Slots)
<1>1. db \in Database /\ InShape(db, Slots)
  BY DEF InOrder, SchedulerTypeOK, PoolShape
<1>2. \A k \in Jobs : OnConfiguring(db, k) /\ db.jobs[k].runner = name => name # OwnName(db, k)
  BY DEF PoolShape, OnlyOwners, OwnerOrGuest
<1> QED BY <1>1, <1>2, RunnerStartedShapes

\* The other calls of an instance, and the steps without one.
LEMMA InstanceCalls ==
    ASSUME InOrder, PoolShape, NEW w \in WorkflowIds,
           \/ db' = db
           \/ \E s \in Slots, generation \in Nat : CallCapacityPrepared(s, generation)
           \/ CallRunnerProvisioned(w.job, w)
           \/ CallProvisioningFailed(w.job, w)
           \/ CallRunnerStarted(w) /\ stage[w] = "started"
    PROVE  Sound(db, db', Slots)
<1>1. db \in Database /\ InShape(db, Slots) /\ w.job \in Jobs /\ w \in RunnerNames
  BY NamesInBounds DEF InOrder, SchedulerTypeOK, PoolShape, WorkflowIds
<1>2. CASE db' = db
  BY <1>1, <1>2, NothingIsSound
<1>3. ASSUME NEW s \in Slots, NEW generation \in Nat, CallCapacityPrepared(s, generation) PROVE Sound(db, db', Slots)
  BY <1>1, <1>3, CapacityPreparedSounds DEF CallCapacityPrepared, Reply, Sounds
<1>4. CASE CallRunnerProvisioned(w.job, w)
  BY <1>1, <1>4, RunnerProvisionedSounds DEF CallRunnerProvisioned, Reply, Sounds
<1>5. CASE CallProvisioningFailed(w.job, w)
  BY <1>1, <1>5, ProvisioningFailedSounds DEF CallProvisioningFailed, Reply, Sounds
<1>6. CASE CallRunnerStarted(w) /\ stage[w] = "started"
  <2>1. Begun(w, github, stage, containers)
    BY <1>6 DEF Begun
  <2> QED BY <1>6, <2>1, BegunRunnersStart DEF CallRunnerStarted, Reply, NoAdmission
<1> QED BY <1>2, <1>3, <1>4, <1>5, <1>6

LEMMA WorkflowKeepsOwners ==
    ASSUME InOrder, PoolShape, NEW w \in WorkflowIds, WorkflowStep(w, w) \/ WorkflowFault(w, w)
    PROVE  ShapeStep
<1> DEFINE Goes(s) ==
             /\ Go(w, s) /\ s \in Stages /\ UNCHANGED github
             /\ \A x \in containers' \ containers : x.name = w /\ stage[w] = "starting"
             /\ stage[w] \in {"reporting", "checking", "creating", "recording", "starting", "started"}
                \/ s \notin {"reporting", "checking", "creating", "recording", "starting", "started"}
             /\ stage[w] \notin {"claiming", "finished"} \/ s \in {"claiming", "finished"}
<1>1. ASSUME NEW s, Goes(s), Sound(db, db', Slots) PROVE ShapeStep
  BY <1>1, SoundInstance
<1>2. CASE ClaimGranted(w, w) /\ UNCHANGED poolVars
  BY <1>2, ClaimKeepsOwners
<1>3. CASE ReportConfiguration(w, w) /\ UNCHANGED poolVars
  BY <1>3, ReportKeepsOwners
<1>4. CASE Prepare(w, w)
  <2>1. Goes("configured") /\ db' = db
    BY <1>4 DEF Prepare, Prepared, At, Stages, schedulerVars
  <2> QED BY <1>1, <2>1, InstanceCalls
<1>5. CASE CreateJitRunner(w, w)
  <2>1. Goes("recording") /\ db' = db
    BY <1>5 DEF CreateJitRunner, JitRunnerCreated, At, Stages, schedulerVars
  <2> QED BY <1>1, <2>1, InstanceCalls
<1>6. CASE StartContainer(w, w)
  <2>1. Goes("started") /\ db' = db
    BY <1>6 DEF StartContainer, ContainerStarted, At, Stages, schedulerVars
  <2> QED BY <1>1, <2>1, InstanceCalls
<1>7. CASE AlreadyActive(w, w)
  <2>1. Goes("started") /\ db' = db
    BY <1>7 DEF AlreadyActive, ContainerStarted, At, Stages, schedulerVars, poolVars
  <2> QED BY <1>1, <2>1, InstanceCalls
<1>8. CASE RefuseContainer(w, w)
  <2>1. (Goes("creating") \/ Goes("failing")) /\ db' = db
    BY <1>8 DEF RefuseContainer, ContainerRefused, At, Stages, schedulerVars
  <2> QED BY <1>1, <2>1, InstanceCalls
<1>9. CASE Err(w, w) /\ UNCHANGED poolVars
  <2>1. Goes("failing") /\ db' = db
    BY <1>9 DEF Err, At, Stages, schedulerVars, poolVars
  <2> QED BY <1>1, <2>1, InstanceCalls
<1>10. CASE Replay(w, w) /\ UNCHANGED poolVars
  <2>1. (Goes("reclaiming") \/ Goes("claiming")) /\ db' = db
    BY <1>10 DEF Replay, At, Stages, schedulerVars, poolVars
  <2> QED BY <1>1, <2>1, InstanceCalls
<1>11. CASE (\E kind \in {"cancelled", "missing", "wait"} : ClaimEnds(w, w, kind)) /\ UNCHANGED poolVars
  <2>1. Goes("finished") /\ db' = db
    BY <1>11 DEF ClaimEnds, Finish, Stages, schedulerVars, poolVars
  <2> QED BY <1>1, <2>1, InstanceCalls
<1>12. CASE ReportCapacity(w, w) /\ UNCHANGED poolVars
  <2>1. Goes("checking") /\ stage[w] = "reporting"
    BY <1>12 DEF ReportCapacity, At, Stages, poolVars
  <2>2. plan[w].slot \in Slots /\ plan[w].generation \in Nat
    BY <2>1 DEF InOrder, PoolNames, PlansMade, Planned, Plan
  <2>3. CallCapacityPrepared(plan[w].slot, plan[w].generation)
    BY <1>12 DEF ReportCapacity
  <2>4. Sound(db, db', Slots)
    BY <2>2, <2>3, InstanceCalls
  <2> QED BY <1>1, <2>1, <2>4
<1>13. CASE CheckStart(w, w) /\ UNCHANGED poolVars
  <2>1. (Goes("creating") \/ Goes("failing")) /\ db' = db
    BY <1>13 DEF CheckStart, At, Stages, schedulerVars, poolVars
  <2> QED BY <1>1, <2>1, InstanceCalls
<1>14. CASE ReportStarted(w, w) /\ UNCHANGED poolVars
  <2>1. Goes("finished") /\ CallRunnerStarted(w) /\ stage[w] = "started"
    BY <1>14 DEF ReportStarted, At, Finish, Stages, poolVars
  <2> QED BY <1>1, <2>1, InstanceCalls
<1>15. CASE ReportFailure(w, w) /\ UNCHANGED poolVars
  <2>1. Goes("finished") /\ CallProvisioningFailed(w.job, w)
    BY <1>15 DEF ReportFailure, At, Finish, Stages, poolVars
  <2> QED BY <1>1, <2>1, InstanceCalls
<1>16. CASE RecordJitRunner(w, w) /\ UNCHANGED poolVars
  <2>1. Goes("starting") /\ CallRunnerProvisioned(w.job, w)
    BY <1>16 DEF RecordJitRunner, At, Stages, poolVars
  <2> QED BY <1>1, <2>1, InstanceCalls
<1> HIDE DEF Goes
<1> QED BY <1>2, <1>3, <1>4, <1>5, <1>6, <1>7, <1>8, <1>9, <1>10, <1>11, <1>12, <1>13, <1>14, <1>15, <1>16
        DEF WorkflowStep, WorkflowFault, NameInUse

\* GitHub gives a job to a runner whose Container is live: it has begun.
LEMMA GitHubKeepsOwners ==
    ASSUME InOrder, PoolShape, NEW j \in Jobs,
           \/ GitHubCompletes(j) \/ GitHubCancels(j)
           \/ \E name \in registered : GitHubAssigns(j, name)
    PROVE  ShapeStep
<1>1. db' = db /\ UNCHANGED <<stage, containers>> /\ InShape(db, Slots) /\ github \in [Jobs -> GitHubJob]
  BY DEF GitHubCompletes, GitHubCancels, GitHubAssigns, schedulerVars, workflowVars, PoolShape,
         InOrder, PoolTypes
<1>2. \A k \in Jobs : github'[k].runner = github[k].runner
                      \/ (Live(github'[k].runner) /\ github[k].status = "queued")
  <2>1. CASE GitHubCompletes(j) \/ GitHubCancels(j)
    <3>1. github' = [github EXCEPT ![j].status = "completed"]
      BY <2>1 DEF GitHubCompletes, GitHubCancels
    <3> QED BY <1>1, <3>1 DEF GitHubJob
  <2>2. ASSUME NEW name \in registered, GitHubAssigns(j, name)
        PROVE  \A k \in Jobs : github'[k].runner = github[k].runner
                               \/ (Live(github'[k].runner) /\ github[k].status = "queued")
    BY <1>1, <2>2 DEF GitHubAssigns
  <2> QED BY <2>1, <2>2
<1>3. \A k \in Jobs : github[k].status = "queued" => github[k].runner = None
  BY DEF InOrder, PoolNames, WorldNames
<1>4. ASSUME NEW name \in WorkflowIds PROVE Undisturbed(name)
  <2>1. name # None
    BY NamesInBounds
  <2>2. Begun(name, github', stage', containers') => Begun(name, github, stage, containers)
    BY <1>1, <1>2 DEF Begun, Live
  <2>3. Unused(name, github, stage, containers) => Unused(name, github', stage', containers')
    BY <1>1, <1>2 DEF Unused, Live
  <2> QED BY <2>2, <2>3 DEF Undisturbed
<1>5. Sound(db, db', Slots)
  BY <1>1, NothingIsSound
<1>6. \A k \in Jobs : OwnName(db, k) \in WorkflowIds
  BY OwnNames DEF InOrder, PoolNames, SchedulerNames
<1> QED BY <1>4, <1>5, <1>6, SoundSteps

\* A job is found on a runner that has begun, which is not its own if it waits.
LEMMA AssignmentKeepsOwners ==
    ASSUME InOrder, PoolShape, NEW j \in Jobs, github[j].runner # None,
           db' = WorkflowJobStarted(db, j, github[j].runner).db,
           UNCHANGED <<github, stage, containers>>
    PROVE  ShapeStep
<1> DEFINE name == github[j].runner
<1>1. /\ db \in Database /\ InShape(db, Slots) /\ Held(db) /\ RowsNamed(db, github)
      /\ name \in RunnerNames /\ \A k \in Jobs : github[k].runner = name => k = j
  BY NamesInBounds DEF InOrder, SchedulerTypeOK, PoolNames, SchedulerNames, PoolShape, WorldNames
<1>2. Begun(name, github, stage, containers) /\ name # None
  BY DEF Begun
<1> HIDE DEF name
<1>3. ASSUME NEW k \in Jobs, OnConfiguring(db, k), k # j PROVE db.jobs[k].runner # name
  <2>1. OwnerOrGuest(db, github, stage, containers, k)
    BY DEF PoolShape, OnlyOwners
  <2>2. CASE db.jobs[k].runner = OwnName(db, k)
    BY <1>2, <1>3, <2>1, <2>2 DEF OwnerOrGuest
  <2>3. CASE db.jobs[k].runner # OwnName(db, k)
    <3>1. db.jobs[k].runner = github[k].runner
      BY <1>1, <2>3 DEF RowsNamed, OwnName
    <3> QED BY <1>1, <1>3, <3>1
  <2> QED BY <2>2, <2>3
<1>4. InShape(db', Slots) /\ (Sound(db, db', Slots) \/ Adopts(db, db', j, name))
  BY <1>1, <1>3, WorkflowJobStartedShapes DEF name
<1>5. CASE Sound(db, db', Slots)
  BY <1>5, SoundAlone
<1>6. CASE Adopts(db, db', j, name)
  <2>1. ASSUME NEW k \in Jobs \ {j} PROVE OwnerOrGuest(db', github', stage', containers', k)
    <3>1. Roots(db, db', k) /\ OwnerOrGuest(db, github, stage, containers, k)
      BY <1>6 DEF Adopts, PoolShape, OnlyOwners
    <3>2. OnConfiguring(db', k) => OwnName(db', k) = OwnName(db, k)
      BY <3>1 DEF Roots, OwnName
    <3> QED BY <3>1, <3>2 DEF Roots, OwnerOrGuest
  <2>2. ASSUME OnConfiguring(db', j) PROVE OwnerOrGuest(db', github', stage', containers', j)
    <3>1. /\ db.jobs[j].status = "admitted"
             \/ (OnConfiguring(db, j) /\ db.jobs[j].status = "running")
          /\ db'.jobs[j].runner = name /\ OwnName(db', j) = OwnName(db, j)
      BY <1>6, <2>2 DEF Adopts, OwnName
    <3>2. Unused(OwnName(db, j), github, stage, containers)
      <4>1. CASE db.jobs[j].status = "admitted"
        BY <4>1, WaitingOwnNames
      <4>2. CASE OnConfiguring(db, j) /\ db.jobs[j].status = "running"
        BY <4>2 DEF PoolShape, OnlyOwners, OwnerOrGuest
      <4> QED BY <3>1, <4>1, <4>2
    <3>3. name # OwnName(db, j)
      BY <3>2 DEF Unused, name
    <3> QED BY <3>1, <3>2, <3>3 DEF OwnerOrGuest
  <2>3. OwnerOrGuest(db', github', stage', containers', j)
    BY <2>2 DEF OwnerOrGuest
  <2> QED BY <1>1, <1>4, <1>6, <2>1, <2>3 DEF ShapeStep, OnlyOwners, Adopts
<1> QED BY <1>4, <1>5, <1>6

LEMMA DeliveriesKeepOwners ==
    ASSUME InOrder, PoolShape, NEW j \in Jobs,
           DeliverQueued(j) \/ DeliverStarted(j) \/ DeliverCompleted(j) \/ HookPolls(j)
    PROVE  ShapeStep
<1>1. db \in Database /\ InShape(db, Slots) /\ UNCHANGED <<github, stage, containers>>
  BY DEF InOrder, SchedulerTypeOK, PoolShape, DeliverQueued, DeliverStarted, DeliverCompleted,
         HookPolls, workflowVars, poolVars
<1>2. CASE DeliverQueued(j)
  <2>1. Sound(db, db', Slots)
    BY <1>1, <1>2, SubmitSounds DEF DeliverQueued, CallSubmit, Reply, Sounds
  <2> QED BY <1>1, <2>1, SoundAlone
<1>3. CASE DeliverCompleted(j)
  <2>1. Sound(db, db', Slots)
    BY <1>1, <1>3, WorkflowJobCompletedSounds DEF DeliverCompleted, CallWorkflowJobCompleted, Reply, Sounds
  <2> QED BY <1>1, <2>1, SoundAlone
<1>4. CASE DeliverStarted(j) \/ HookPolls(j)
  <2>1. CallWorkflowJobStarted(j, github[j].runner) \/ CallCacheAssignment(j, github[j].runner)
    BY <1>4 DEF DeliverStarted, HookPolls
  <2>2. github[j].runner # None
    BY <1>4, NamesInBounds DEF DeliverStarted, HookPolls, Live, InOrder, PoolNames, WorldNames
  <2>3. db' = WorkflowJobStarted(db, j, github[j].runner).db
    BY <2>1 DEF CallWorkflowJobStarted, CallCacheAssignment, Reply
  <2> QED BY <1>1, <2>2, <2>3, AssignmentKeepsOwners
<1> QED BY <1>2, <1>3, <1>4

LEMMA ContainersKeepOwners ==
    ASSUME InOrder, PoolShape,
           \/ \E c \in containers : OnStart(c.name) \/ ContainerStops(c)
           \/ \E name \in stops : OnStop(name)
    PROVE  ShapeStep
<1>1. db \in Database /\ InShape(db, Slots) /\ UNCHANGED <<github, stage>> /\ containers' \subseteq containers
  BY DEF InOrder, SchedulerTypeOK, PoolShape, OnStart, ContainerStops, OnStop, workflowVars, poolVars
<1>2. Sound(db, db', Slots)
  <2>1. ASSUME NEW c \in containers, OnStart(c.name) PROVE Sound(db, db', Slots)
    <3>1. Begun(c.name, github, stage, containers)
      BY DEF Begun
    <3> QED BY <2>1, <3>1, BegunRunnersStart DEF OnStart, CallRunnerStarted, Reply, NoAdmission
  <2>2. ASSUME NEW c \in containers, ContainerStops(c) PROVE Sound(db, db', Slots)
    BY <1>1, <2>2, NothingIsSound DEF ContainerStops, schedulerVars
  <2>3. ASSUME NEW name \in stops, OnStop(name) PROVE Sound(db, db', Slots)
    <3>1. \A k \in Jobs : db.jobs[k].status = "admitted" => db.jobs[k].runner # name
      BY WaitingOwnNames DEF PoolShape, StopsAreOver
    <3> QED BY <1>1, <2>3, <3>1, RunnerStoppedShapes DEF OnStop, CallRunnerStopped, Reply
  <2> QED BY <2>1, <2>2, <2>3
<1> QED BY <1>1, <1>2, SoundAlone

LEMMA AlarmKeepsOwners ==
    ASSUME InOrder, PoolShape, Misreleases = {},
           AlarmStep \/ AlarmFault \/ PoolRestart \/ \E due \in adrift : CapacityLandsLate(due)
    PROVE  ShapeStep
<1>1. SchedulerTypeOK /\ InShape(db, Slots) /\ UNCHANGED <<github, stage, containers>>
  BY DEF InOrder, PoolShape, AlarmStep, AlarmFault, PoolRestart, CapacityLands, CapacityAnswered,
         CapacityLandsLate, DeletionAnswered, workflowVars, poolVars
<1>2. db' = db \/ AlarmNext \/ Restart
  BY DEF AlarmStep, AlarmFault, PoolRestart, CapacityLands, CapacityAnswered, CapacityLandsLate,
         DeletionAnswered, AlarmNext, schedulerVars
<1>3. Sound(db, db', Slots)
  <2>1. Slots \in SUBSET Slots
    OBVIOUS
  <2> HIDE DEF Misreleases
  <2> QED BY <1>1, <1>2, <2>1, NothingIsSound, AlarmKeepsShape, RestartKeepsShape DEF AlarmKeeps
<1> QED BY <1>1, <1>3, SoundAlone

\* Only a Container that stops adds a name to those of onStop.
LEMMA StopsStayOver ==
    ASSUME InOrder, PoolShape, NamesStayUsed, [PoolNext]_vars
    PROVE  StopsAreOver'
<1>1. ASSUME NEW name \in stops' PROVE name \in WorkflowIds /\ ~Ahead(db, name)
  <2>1. name \in stops \/ \E c \in containers : c.name = name
    BY DEF PoolNext, Progress, Fault, GitHubCompletes, DeliverQueued, DeliverStarted, DeliverCompleted,
           HookPolls, GitHubAssigns, OnStart, ContainerStops, OnStop, WorkflowStep, Prepare,
           CreateJitRunner, NameInUse, StartContainer, AlreadyActive, AlarmStep, CapacityLands,
           CapacityAnswered, CapacityLandsLate, DeletionAnswered, GitHubCancels, WorkflowFault, RefuseContainer,
           AlarmFault, PoolRestart, poolVars, vars
  <2>2. CASE name \in stops
    BY <2>2 DEF PoolShape, StopsAreOver, InOrder, PoolNames, WorldNames
  <2>3. CASE \E c \in containers : c.name = name
    BY <2>3 DEF InOrder, PoolNames, WorldNames, NamesUnused, Unused
  <2> QED BY <2>1, <2>2, <2>3
<1> QED BY <1>1 DEF StopsAreOver, NamesStayUsed

LEMMA PoolKeepsOwners ==
    ASSUME InOrder, PoolShape, Misreleases = {}, [PoolNext]_vars
    PROVE  ShapeStep
<1>1. CASE UNCHANGED vars
  <2>1. Sound(db, db', Slots) /\ UNCHANGED <<github, stage, containers>>
    BY <1>1, NothingIsSound DEF vars, schedulerVars, workflowVars, poolVars, PoolShape
  <2> QED BY <1>1, <2>1, SoundAlone
<1>2. ASSUME NEW i \in Instances, WorkflowStep(i[1], i[2]) \/ WorkflowFault(i[1], i[2])
      PROVE  ShapeStep
  <2>1. i[1] \in WorkflowIds /\ i[2] = i[1]
    BY InstanceNames
  <2> QED BY <1>2, <2>1, WorkflowKeepsOwners
<1>3. CASE Progress
  BY <1>2, <1>3, GitHubKeepsOwners, DeliveriesKeepOwners, ContainersKeepOwners, AlarmKeepsOwners
     DEF Progress
<1>4. CASE Fault
  BY <1>2, <1>4, GitHubKeepsOwners, ContainersKeepOwners, AlarmKeepsOwners DEF Fault
<1> QED BY <1>1, <1>3, <1>4 DEF PoolNext

LEMMA PoolKeepsShape ==
    ASSUME InOrder, PoolShape, Misreleases = {}, [PoolNext]_vars
    PROVE  PoolShape'
<1>1. ShapeStep
  BY PoolKeepsOwners
<1>2. StopsAreOver'
  BY PoolStaysInOrder, StopsStayOver
<1> QED BY <1>1, <1>2 DEF PoolShape, ShapeStep

\* No slot is being configured in a new account.
LEMMA PoolStartsInShape ==
    ASSUME PoolInit
    PROVE  PoolShape
<1>1. Init /\ InShape(db, Slots) /\ stops = {}
  BY StartsInShape DEF PoolInit
<1>2. db.jobs = [j \in Jobs |-> NoJobRow(j)] /\ db.slots = [s \in Slots |-> InitialSlot(s)]
  BY <1>1 DEF Init
<1>3. Held(db)
  BY <1>2 DEF Held, HeldOn, InitialSlot
<1>4. OnlyOwners(db, github, stage, containers)
  BY <1>2 DEF OnlyOwners, OwnerOrGuest, OnConfiguring, NoJobRow
<1> QED BY <1>1, <1>3, <1>4 DEF PoolShape, StopsAreOver

\* A configuration never loses its last job: the owner that gives up, fails, stops or
\* is displaced takes the configuration back with its reservation, and a job that
\* GitHub puts on another runner takes its reservation along (releaseJob,
\* workflowJobStarted).  Only the release of a stale row can end a job that holds one.
THEOREM ConfiguringSlotsStayHeld == PoolSpec => []ConfiguringSlotsAreHeld
<1> DEFINE Inv == misreleased = {} => PoolShape
<1>1. PoolInit => Inv
  BY PoolStartsInShape
<1>2. InOrder /\ Inv /\ [PoolNext]_vars => Inv'
  <2> SUFFICES ASSUME InOrder, misreleased = {} => PoolShape, [PoolNext]_vars, misreleased' = {}
               PROVE  PoolShape'
    OBVIOUS
  <2>1. CASE PoolNext
    <3>1. misreleased = {} /\ Misreleases = {}
      BY <2>1 DEF PoolNext, Recorded
    <3> QED BY <3>1, PoolKeepsShape
  <2>2. CASE UNCHANGED vars
    BY <2>2 DEF vars, schedulerVars, workflowVars, poolVars, PoolShape, InShape, JobsShaped, ShapesDiffer,
                Consistent, Waiting, WithStatus, CoveredOn, ActiveOn, Active, Held, HeldOn,
                OnlyOwners, OwnerOrGuest, OnConfiguring, OwnName, Unused, Begun, StopsAreOver, Ahead
  <2> QED BY <2>1, <2>2
<1>3. Inv => ConfiguringSlotsAreHeld
  <2> SUFFICES ASSUME Held(db), NEW s \in Slots, db.slots[s].state = "configuring"
               PROVE  ActiveOn(db, s) # {}
    BY DEF PoolShape, ConfiguringSlotsAreHeld
  <2>1. Cardinality(ActiveOn(db, s)) # 0
    BY DEF Held, HeldOn
  <2> QED BY <2>1, FS_EmptySet
<1> HIDE DEF Inv
<1> QED BY <1>1, <1>2, <1>3, PoolIsInOrder, PTL DEF PoolSpec

=============================================================================
