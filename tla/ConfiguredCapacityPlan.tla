----------------------- MODULE ConfiguredCapacityPlan -----------------------
(***************************************************************************)
(* The donor loop of planConfiguredCapacity (scheduler-policy.ts), one     *)
(* iteration per step, on every input of a bounded domain.  It is the      *)
(* reference for the closed form of SchedulerPolicy that the scheduler's   *)
(* model is built on.                                                      *)
(***************************************************************************)
EXTENDS SchedulerPolicy

CONSTANTS MaxInstances   \* bound on the ceilings of the enumerated inputs

ASSUME PlanAssumption == MaxInstances \in Nat

VARIABLES
    slots, releasedBefore,        \* the persisted view the planner is given
    target, profile, instances,   \* the ceiling it is asked to make room for
    configured,                   \* the running total of the loop
    donors,                       \* the donors not visited yet
    reductions,                   \* the reductions pushed so far
    pc                            \* "loop" or "done"

input == <<slots, releasedBefore, target, profile, instances>>
vars == <<input, configured, donors, reductions, pc>>

Rows == [profile : Profiles, applied : 1 .. MaxInstances, reserved : {0, 1},
         state : {"ready"}, updating : BOOLEAN]
        \cup [profile : {None} \cup Profiles, applied : {MaxInstances}, reserved : {0},
              state : {"idle"}, updating : {FALSE}]

\* Every order in which distinct slots can have been released, or none yet.
ReleaseOrders ==
    {{}} \cup {{p \in Slots \X Slots : rank[p[1]] < rank[p[2]]} :
                  rank \in {r \in [Slots -> 1 .. Cardinality(Slots)] :
                               \A s, t \in Slots : r[s] = r[t] => s = t}}

TypeOK ==
    /\ slots \in [Slots -> Rows]
    /\ configured \in [Dimensions -> Int]
    /\ donors \subseteq Slots \ {target}
    /\ reductions \subseteq [slot : Slots, target : 1 .. MaxInstances]
    /\ pc \in {"loop", "done"}

Init ==
    /\ slots \in [Slots -> Rows]
    /\ releasedBefore \in ReleaseOrders
    /\ target \in Slots
    /\ profile \in Profiles
    /\ instances \in 1 .. MaxInstances
    /\ configured = ConfiguredWith(slots, target, profile, instances)
    /\ donors = Donors(slots, target)
    /\ reductions = {}
    /\ pc = "loop"

\* Mutant: the reduction is not capped at the donor's retained capacity.
VisitWithoutCap ==
    /\ pc = "loop"
    /\ ~FitsConfiguredCapacity(configured)
    /\ \E donor \in donors :
        LET resources == Resources[slots[donor].profile]
            needed == ReductionUnitsNeeded([d \in Dimensions |-> configured[d] - Limit[d]], resources)
        IN  /\ configured' = SubtractResources(configured, MultiplyResources(resources, needed))
            /\ reductions' = reductions \cup {[slot |-> donor, target |-> slots[donor].applied - needed]}
            /\ donors' = donors \ {donor}
    /\ UNCHANGED <<input, pc>>

\* One iteration for the next donor in least-recently-released order.
Visit ==
    /\ pc = "loop"
    /\ ~FitsConfiguredCapacity(configured)
    /\ \E donor \in donors :
        /\ \A other \in donors \ {donor} : DonorBefore(releasedBefore, donor, other)
        /\ LET resources == Resources[slots[donor].profile]
               needed == ReductionUnitsNeeded([d \in Dimensions |-> configured[d] - Limit[d]], resources)
               reduction == Min({slots[donor].applied - 1, needed})
           IN  /\ configured' = SubtractResources(configured, MultiplyResources(resources, reduction))
               /\ reductions' = reductions \cup
                      {[slot |-> donor, target |-> slots[donor].applied - reduction]}
        /\ donors' = donors \ {donor}
    /\ UNCHANGED <<input, pc>>

\* Mutant: the loop stops one donor early.
FinishEarly ==
    /\ pc = "loop"
    /\ FitsConfiguredCapacity(configured) \/ Cardinality(donors) <= 1
    /\ pc' = "done"
    /\ UNCHANGED <<input, configured, donors, reductions>>

\* The break when the total fits, or the end of the list.
Finish ==
    /\ pc = "loop"
    /\ FitsConfiguredCapacity(configured) \/ donors = {}
    /\ pc' = "done"
    /\ UNCHANGED <<input, configured, donors, reductions>>

Next == Visit \/ Finish

Spec == Init /\ [][Next]_vars

-----------------------------------------------------------------------------

\* The closed form used by the scheduler's model returns what the loop
\* returns: the same reductions, and a plan exactly when the loop's total fits.
LoopComputesClosedForm ==
    pc = "done" =>
        /\ PlanExists(slots, releasedBefore, target, profile, instances)
               <=> FitsConfiguredCapacity(configured)
        /\ FitsConfiguredCapacity(configured) =>
               reductions = PlannedReductions(slots, releasedBefore, target, profile, instances)

\* planConfiguredCapacity gives up only when no choice of idle ceilings could
\* make room: cutting every donor to one instance would not fit either.
RefusalIsComplete ==
    (pc = "done" /\ ~FitsConfiguredCapacity(configured)) =>
        ~FitsConfiguredCapacity(
            SubtractResources(
                ConfiguredWith(slots, target, profile, instances),
                Consumption(Donors(slots, target), LAMBDA s : slots[s].profile,
                            LAMBDA s : slots[s].applied - 1)))

\* A plan takes nothing it does not need: giving one instance back to the
\* donor that was cut last would exceed the account limit again.
LastCutIsNeeded ==
    (pc = "done" /\ FitsConfiguredCapacity(configured)) =>
        \A r \in reductions :
            (\A other \in reductions \ {r} : DonorBefore(releasedBefore, other.slot, r.slot)) =>
                ~FitsConfiguredCapacity(
                    AddResources(configured, Resources[slots[r.slot].profile]))
=============================================================================
