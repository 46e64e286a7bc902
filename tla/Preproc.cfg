SPECIFICATION Spec
CONSTANTS
    Sources <- SessionSources
    GoTypes <- KernelGoTypes
    MaxBlocks = 3
CHECK_DEADLOCK FALSE
INVARIANTS
    TypeOK
    
    FuncsRebound
    PlainParses
    TypesRecorded
    CodeComplete
    BodiesWhole
    BodiesClosed
    NamedNeverPanics
