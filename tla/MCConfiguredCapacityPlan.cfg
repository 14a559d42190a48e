SPECIFICATION MCSpec
CONSTANTS
    s1 = s1
    s2 = s2
    s3 = s3
    wide = wide
    tall = tall
    None = None
    Slots = {s1, s2, s3}
    Profiles = {wide, tall}
    Dimensions = {"cpu", "mem"}
    Limit <- MCLimit
    Resources <- MCResources
    SlotRank <- MCSlotRank
    MaxInstances = 3
INVARIANTS
    TypeOK
    LoopComputesClosedForm
    RefusalIsComplete
    LastCutIsNeeded
CHECK_DEADLOCK FALSE
