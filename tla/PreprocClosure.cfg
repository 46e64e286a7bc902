SPECIFICATION Spec
CONSTANTS
    Sources <- ClosureSources
    GoTypes <- KernelGoTypes
    MaxBlocks = 2
CHECK_DEADLOCK FALSE
INVARIANT
    InsideFunc
