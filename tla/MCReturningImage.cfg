SPECIFICATION Spec
CONSTANTS
    w1 = w1
    w2 = w2
    w3 = w3
    i0 = i0
    i1 = i1
    i2 = i2
    s0 = s0
    s1 = s1
    custom = custom
    None = None
    config = config
    layer = layer
    Workflows = {w1}
    ImageOf <- MCImageOf
    MaxFaults = 0
    MaxRounds = 2
    Blobs = {config, layer}
    Applications = {custom}
    Images = {i0, i1, i2}
    Shapes = {s0, s1}
    FirstImage = i0
    FirstShape = s0
    RolledBefore = {i0, i1}
    MaxCeiling = 2
    MaxChanges = 0
    MaxRunners = 1
INVARIANTS
    DeployedImagesReachApplications
CHECK_DEADLOCK FALSE
