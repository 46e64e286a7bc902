SPECIFICATION FairBlocksSpec
CONSTANTS
    r1 = r1
    r2 = r2
    r3 = r3
    u1 = u1
    k1 = k1
    b1 = b1
    b2 = b2
    key1 = key1
    None = None
    Malformed = Malformed
    Req = {r1, r2}
    Users = {u1}
    Kernels = {k1}
    UserOf <- OneUserOf
    KernelOf <- OneKernelOf
    CanExecute <- OneCanExecute
    DaemonFails = FALSE
    MaxQueue = 1
    BlockIds = {b1, b2}
    Keys = {key1}
    KeyOf <- OneKeyOf
    MaxRuns = 2
INVARIANTS
    NoNilLookup
    UnlocksOwn
    SeesEarlierBlocks
PROPERTIES
    FreshPlugin
    RunBlockReturns
    ImplementsSessions
