SPECIFICATION Spec
CONSTANTS
    Sources <- TestSources
    GoTypes <- KernelGoTypes
    MaxBlocks = 2
CHECK_DEADLOCK FALSE
INVARIANT
    TestsParse
