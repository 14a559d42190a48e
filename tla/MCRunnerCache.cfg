SPECIFICATION FairSpec
CONSTANTS
    old = old
    a1 = a1
    a2 = a2
    npm = npm
    r1 = r1
    r2 = r2
    push = push
    pull = pull
    lint = lint
    main = main
    pr = pr
    None = None
    Archives = {old, a1, a2}
    LegacyKeys = {npm}
    Scopes = {main, pr}
    Names = {"n"}
    Keys <- MCKeys
    Sizes <- MCSizes
    MaxBytes = 2
    Attempts <- MCAttempts
    MaxInterrupts = 1
    Runners = {r1, r2}
    Jobs = {push, pull, lint}
    Uploader <- MCUploader
    ClaimJob <- MCClaimJob
    Executes <- MCExecutes
    ScopeOf <- MCScopeOf
    FallbackOf <- MCFallbackOf
    MayWrite = {push, pull, lint}
    Inherited = {old}
INVARIANTS
    TypeOK
    StoredBytesAreCounted
    LookupsStayInScope
PROPERTIES
    Implementation
    CommitsKeepTheQuota
    CommittedArchivesStay
    CallsAreAnswered
CHECK_DEADLOCK FALSE
