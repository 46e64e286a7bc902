SPECIFICATION FairLifeSpec
CONSTANTS
    r1 = r1
    u1 = u1
    k1 = k1
    None = None
    Malformed = Malformed
    Req = {r1}
    Users = {u1}
    Kernels = {k1}
    UserOf <- OneUserOf
    KernelOf <- OneKernelOf
    CanExecute <- OneCanExecute
    DaemonFails = TRUE
    MaxQueue = 2
INVARIANTS
    LifeTypeOK
    Drained
PROPERTIES
    ImplementsSessions
    SignalEnds
    ResultsTaken
