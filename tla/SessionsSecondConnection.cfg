SPECIFICATION Spec
CONSTANTS
    r1 = r1
    r2 = r2
    r3 = r3
    r4 = r4
    u1 = u1
    u2 = u2
    k1 = k1
    k2 = k2
    None = None
    Malformed = Malformed
    Req = {r1, r2, r3}
    Users = {u1, u2}
    Kernels = {k1, k2}
    UserOf <- ReturningUserOf
    KernelOf <- ReturningKernelOf
    CanExecute <- ReturningCanExecute
    DaemonFails = FALSE
    MaxQueue = 0
INVARIANT
    OneConnectionPerUser
