SPECIFICATION Spec
CONSTANTS
    NONCE_SIZE = 3
    TAG_SIZE = 4
    Sizes = {2, 5}
    MaxKeys = 2
    MaxPackets = 2
INVARIANTS
    SealedOpens
CHECK_DEADLOCK FALSE
