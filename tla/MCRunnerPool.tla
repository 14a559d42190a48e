---------------------------- MODULE MCRunnerPool ----------------------------
(***************************************************************************)
(* Instances of RunnerPool: one resource dimension, machines of one unit,  *)
(* preset slots for the profiles small and medium, custom slots for big.   *)
(***************************************************************************)
EXTENDS RunnerPool, TLC

CONSTANTS j1, j2, big1, small, medium, big, preset, spare, custom1, custom2

OneMachine == [d \in Dimensions |-> 1]
TwoMachines == [d \in Dimensions |-> 2]
ThreeMachines == [d \in Dimensions |-> 3]
UnitMachines == [p \in Profiles |-> [d \in Dimensions |-> 1]]
SlotOrder == [s \in Slots |-> CASE s = preset -> 1 [] s = spare -> 2 [] s = custom1 -> 3 [] s = custom2 -> 4]
ProfileOfJob == [j \in Jobs |-> IF j = big1 THEN big ELSE small]
SmallIsPreset == [p \in Profiles |-> IF p = small THEN preset ELSE None]
MediumIsPreset == [p \in Profiles |-> CASE p = small -> preset [] p = medium -> spare [] OTHER -> None]
NoPresets == [p \in Profiles |-> None]

Interchangeable == Permutations({j1, j2})

\* The pool after two earlier jobs on the preset slot: it has kept two machines.
ScaledInit ==
    /\ db = [jobs |-> [j \in Jobs |-> NoJobRow(j)],
             slots |-> [s \in Slots |->
                 IF s = preset
                 THEN [InitialSlot(s) EXCEPT !.applied = 2, !.desired = 2,
                                             !.generation = 2, !.updateGeneration = 2]
                 ELSE InitialSlot(s)],
             operations |-> {[slot |-> preset, generation |-> 2, target |-> 2]},
             jitRunners |-> {}, releasedBefore |-> (Slots \ {preset}) \X {preset}, alarm |-> FALSE]
    /\ cloud = [s \in Slots |-> [maxInstances |-> IF s = preset THEN 2 ELSE 1,
                                 profile |-> InitialSlot(s).profile]]
    /\ alarm = NoAlarm /\ workflows = {}
    /\ WorkflowInit
    /\ github = [j \in Jobs |-> [status |-> "queued", runner |-> None]]
    /\ registered = {} /\ containers = {} /\ stops = {}
    /\ landed = FALSE /\ adrift = {} /\ faults = 0 /\ misreleased = {}

ScaledPoolSpec == ScaledInit /\ [][PoolNext]_vars

\* The custom job, whose slot takes a machine from the preset one, outlasts the run.
CustomJobLasts == github[big1].status # "completed"
=============================================================================
