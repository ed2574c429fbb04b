SPECIFICATION Spec
CONSTANTS
    MaxInits = 2
    MaxEvents = 3
    Views = 2
INVARIANTS
    TypeOK
    HandlesNested
    FramesOnBegunSession
    FlagAgrees
PROPERTIES
    BeginOnlyWhenReady
    ReadyBegins
CHECK_DEADLOCK FALSE
