\* Two Inits, each of which may fail, with Cleanup in between or not.
SPECIFICATION FairSpec
CONSTANTS
    MaxInits = 2
INVARIANTS TypeOK DevicesOutliveUse NeverTerminates TracksWhileReady
PROPERTIES WholePoseReported CleanupReturns
CHECK_DEADLOCK FALSE
