SPECIFICATION Spec
CONSTANTS
    MaxSamples = 3
    MaxImages = 2
    MaxConnects = 2
INVARIANTS
    TypeOK
    FrameOfItsSample
    HandsOfOneImage
PROPERTIES
    FramesInOrder
    LatestPoseOffered
CHECK_DEADLOCK FALSE
