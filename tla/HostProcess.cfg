SPECIFICATION Spec
CONSTANTS
    NUM_FRAMES = 2
    MaxWork = 4
    Formats <- MCFormats
    NoFormat <- MCNoFormat
    Second = 0
    MaxTime = 1
    MaxLaunches = 2
INVARIANTS
    TypeOK
    AllocatorNotInUse
    ReleasedWhenIdle
    CallbacksOnLiveObjects
    FrameOfItsDecoder
    WindowIsLastSecond
    LauncherKnows
PROPERTIES
    WaitEnds
    ImplementsReceivingThreads
CHECK_DEADLOCK FALSE
