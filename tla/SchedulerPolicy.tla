--------------------------- MODULE SchedulerPolicy ---------------------------
(***************************************************************************)
(* The pure planning functions of src/src/scheduler-policy.ts.             *)
(*                                                                         *)
(* A resource vector (vCPU, memory, disk) is a function on Dimensions.  A  *)
(* machine shape is the profile it comes from, so the resources column of  *)
(* a slot is Resources[slot.profile], absent while profile = None.         *)
(***************************************************************************)
EXTENDS Integers, FiniteSets, FiniteSetsExt, Functions

CONSTANTS
    Dimensions,   \* what the account limits: vcpu, memoryMib, diskMb
    Limit,        \* DEFAULT_ACCOUNT_CAPACITY, as [Dimensions -> Nat]
    Profiles,     \* runner profiles, preset and custom
    Resources,    \* the vector one instance of a profile consumes
    Slots,        \* Container applications: preset:<key> and custom:<n>
    SlotRank,     \* the order localeCompare gives the slot ids
    None          \* SQL NULL

ASSUME PolicyAssumption ==
    /\ IsFiniteSet(Dimensions)
    /\ Limit \in [Dimensions -> Nat]
    /\ Resources \in [Profiles -> [Dimensions -> Nat \ {0}]]
    /\ IsFiniteSet(Slots)
    /\ SlotRank \in [Slots -> Nat]
    /\ \A s, t \in Slots : SlotRank[s] = SlotRank[t] => s = t
    /\ None \notin Profiles
    /\ None \notin Slots

CONFIGURATION_STATES == {"ready", "configuring", "idle"}

AddResources(left, right) == [d \in Dimensions |-> left[d] + right[d]]
SubtractResources(left, right) == [d \in Dimensions |-> left[d] - right[d]]
MultiplyResources(resources, instances) == [d \in Dimensions |-> resources[d] * instances]

FitsConfiguredCapacity(configured) == \A d \in Dimensions : configured[d] <= Limit[d]
FitsAccountCapacity(reserved, requested) == FitsConfiguredCapacity(AddResources(reserved, requested))

\* The vector that a family of instances consumes: count(x) machines of shape(x).
Consumption(S, shape(_), count(_)) ==
    [d \in Dimensions |-> SumFunctionOnSet([x \in S |-> Resources[shape(x)][d] * count(x)], S)]

(***************************************************************************)
(* slots is a function from slot ids to rows with the columns the planner  *)
(* reads: profile, applied, reserved, state and updating; releasedBefore   *)
(* holds <<s, t>> when s was last released strictly before t.              *)
(***************************************************************************)
Shaped(slots) == {s \in Slots : slots[s].profile # None}

ConfiguredCapacity(slots) ==
    Consumption(Shaped(slots), LAMBDA s : slots[s].profile, LAMBDA s : slots[s].applied)

\* What would be configured once the target slot runs instances machines of profile.
ConfiguredWith(slots, target, profile, instances) ==
    AddResources(Consumption(Shaped(slots) \ {target},
                             LAMBDA s : slots[s].profile, LAMBDA s : slots[s].applied),
                 MultiplyResources(Resources[profile], instances))

CeilDiv(n, d) == (n + d - 1) \div d

\* Mutant: rounds up one unit too far.
TooManyUnits(deficit, resources) ==
    Max({0} \cup {(deficit[d] + resources[d]) \div resources[d] : d \in {e \in Dimensions : deficit[e] > 0}})

ReductionUnitsNeeded(deficit, resources) ==
    Max({0} \cup {CeilDiv(deficit[d], resources[d]) : d \in {e \in Dimensions : deficit[e] > 0}})

Donors(slots, target) ==
    {s \in Slots \ {target} : /\ slots[s].state = "ready"
                              /\ slots[s].reserved = 0
                              /\ ~slots[s].updating
                              /\ slots[s].applied > 1
                              /\ slots[s].profile # None}

\* The donor order: least recently released first, ties by slot id.
DonorBefore(releasedBefore, s, t) ==
    \/ <<s, t>> \in releasedBefore
    \/ <<t, s>> \notin releasedBefore /\ SlotRank[s] < SlotRank[t]

(***************************************************************************)
(* The loop over the donors, in closed form.  While the plan does not fit, *)
(* every donor already visited gave all it could (a smaller cut would have *)
(* made the plan fit), so donor s sees what is configured less the whole   *)
(* retained capacity of the donors before it.                              *)
(***************************************************************************)
\* Mutant: counts on the last instance of the donors before, too.
SeenAfterWholeDonors(slots, releasedBefore, target, profile, instances, s) ==
    SubtractResources(
        ConfiguredWith(slots, target, profile, instances),
        Consumption({t \in Donors(slots, target) : DonorBefore(releasedBefore, t, s)},
                    LAMBDA t : slots[t].profile, LAMBDA t : slots[t].applied))

SeenByDonor(slots, releasedBefore, target, profile, instances, s) ==
    SubtractResources(
        ConfiguredWith(slots, target, profile, instances),
        Consumption({t \in Donors(slots, target) : DonorBefore(releasedBefore, t, s)},
                    LAMBDA t : slots[t].profile, LAMBDA t : slots[t].applied - 1))

Reduction(slots, releasedBefore, target, profile, instances, s) ==
    LET configured == SeenByDonor(slots, releasedBefore, target, profile, instances, s)
        needed == ReductionUnitsNeeded([d \in Dimensions |-> configured[d] - Limit[d]],
                                       Resources[slots[s].profile])
    IN  Min({needed, slots[s].applied - 1})

\* planConfiguredCapacity(...).reductions: {slotId, targetMaxInstances} per donor that is cut.
PlannedReductions(slots, releasedBefore, target, profile, instances) ==
    UNION {{[slot |-> s, target |-> n] :
               n \in {m \in 1 .. (slots[s].applied - 1) :
                         m = slots[s].applied
                             - Reduction(slots, releasedBefore, target, profile, instances, s)}} :
           s \in Donors(slots, target)}

\* planConfiguredCapacity(...) is not undefined: the plan fits once the donors are cut.
PlanExists(slots, releasedBefore, target, profile, instances) ==
    LET cuts == PlannedReductions(slots, releasedBefore, target, profile, instances)
        cut(r) == slots[r.slot].applied - r.target
    IN  /\ instances >= 1
        /\ FitsConfiguredCapacity(
               SubtractResources(ConfiguredWith(slots, target, profile, instances),
                                 Consumption(cuts, LAMBDA r : slots[r.slot].profile, cut)))

RequiredMaxInstances(reserved) == IF reserved >= 0 THEN reserved + 1 ELSE 1

(***************************************************************************)
(* selectCustomSlot.  A configuring slot is a candidate under the profile  *)
(* it is being configured for.                                             *)
(***************************************************************************)
CandidateProfile(row) == IF row.state = "configuring" THEN row.pending ELSE row.profile

MatchingSlots(slots, custom, profile) ==
    {s \in custom : /\ CandidateProfile(slots[s]) = profile
                    /\ slots[s].state \in {"ready", "configuring"}}

\* Mutant: a ready slot counts as idle even while it is reserved.
UnconfiguringSlots(slots, custom) == {s \in custom : slots[s].state # "configuring"}

IdleSlots(slots, custom) ==
    {s \in custom : slots[s].reserved = 0 /\ slots[s].state # "configuring"}

LeastReserved(slots, S) ==
    {s \in S : \A t \in S \ {s} : \/ slots[s].reserved < slots[t].reserved
                                  \/ /\ slots[s].reserved = slots[t].reserved
                                     /\ SlotRank[s] < SlotRank[t]}

FirstById(S) == {s \in S : \A t \in S \ {s} : SlotRank[s] < SlotRank[t]}

\* The selection, as a set of at most one {slot, requiresConfiguration}.
SelectCustomSlot(slots, custom, profile) ==
    LET matching == MatchingSlots(slots, custom, profile)
    IN  IF matching # {}
        THEN {[slot |-> s, configure |-> FALSE] : s \in LeastReserved(slots, matching)}
        ELSE {[slot |-> s, configure |-> TRUE] : s \in FirstById(IdleSlots(slots, custom))}
=============================================================================
