SPECIFICATION PoolSpec
CONSTANTS
    j1 = j1
    j2 = j2
    big1 = big1
    small = small
    medium = medium
    big = big
    preset = preset
    spare = spare
    custom1 = custom1
    custom2 = custom2
    None = None
    Jobs = {j1, j2, big1}
    Slots = {custom1}
    Profiles = {small, big}
    Dimensions = {"vcpu"}
    Limit <- TwoMachines
    Resources <- UnitMachines
    SlotRank <- SlotOrder
    JobProfile <- ProfileOfJob
    PresetSlot <- NoPresets
    Attempts = {1}
    Generations = {0, 1, 2, 3, 4}
    CallersDie = FALSE
    Assignments = "in time"
    MaxFaults = 0
SYMMETRY Interchangeable
PROPERTIES
    CustomSlotsAreNotInterrupted
CHECK_DEADLOCK FALSE
