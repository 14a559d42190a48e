SPECIFICATION ScaledPoolSpec
CONSTANTS
    j1 = j1
    j2 = j2
    big1 = big1
    small = small
    medium = medium
    big = big
    preset = preset
    spare = spare
    custom1 = custom1
    custom2 = custom2
    None = None
    Jobs = {j1, big1}
    Slots = {preset, custom1}
    Profiles = {small, big}
    Dimensions = {"vcpu"}
    Limit <- TwoMachines
    Resources <- UnitMachines
    SlotRank <- SlotOrder
    JobProfile <- ProfileOfJob
    PresetSlot <- SmallIsPreset
    Attempts = {1, 2}
    Generations = {0, 1, 2, 3, 4, 5}
    CallersDie = FALSE
    Assignments = "late"
    MaxFaults = 0
INVARIANTS
    ConfiguredCapacityFits
CHECK_DEADLOCK FALSE
