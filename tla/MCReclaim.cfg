SPECIFICATION ScaledPoolSpec
CONSTANTS
    j1 = j1
    j2 = j2
    big1 = big1
    small = small
    medium = medium
    big = big
    preset = preset
    spare = spare
    custom1 = custom1
    custom2 = custom2
    None = None
    Jobs = {j1, j2, big1}
    Slots = {preset, spare, custom1}
    Profiles = {small, medium, big}
    Dimensions = {"vcpu"}
    Limit <- ThreeMachines
    Resources <- UnitMachines
    SlotRank <- SlotOrder
    JobProfile <- ProfileOfJob
    PresetSlot <- MediumIsPreset
    Attempts = {1}
    Generations = {0, 1, 2, 3, 4, 5}
    CallersDie = FALSE
    Assignments = "in time"
    MaxFaults = 0
CONSTRAINT CustomJobLasts
SYMMETRY Interchangeable
INVARIANTS
    ReductionsSpareRunners
CHECK_DEADLOCK FALSE
