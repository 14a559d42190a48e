SPECIFICATION PoolSpec
CONSTANTS
    j1 = j1
    j2 = j2
    big1 = big1
    small = small
    medium = medium
    big = big
    preset = preset
    spare = spare
    custom1 = custom1
    custom2 = custom2
    None = None
    Jobs = {j1, j2}
    Slots = {preset}
    Profiles = {small}
    Dimensions = {"vcpu"}
    Limit <- TwoMachines
    Resources <- UnitMachines
    SlotRank <- SlotOrder
    JobProfile <- ProfileOfJob
    PresetSlot <- SmallIsPreset
    Attempts = {1, 2}
    Generations = {0, 1, 2, 3}
    CallersDie = FALSE
    Assignments = "late"
    MaxFaults = 0
INVARIANTS
    ReservationsReturned
CHECK_DEADLOCK FALSE
