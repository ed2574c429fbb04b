\* Two connects, with the peer closing, failing and answering late.
SPECIFICATION FairSpec
CONSTANTS
    MaxConnects = 2
    MaxReceives = 1
    MaxQueue = 2
INVARIANTS TypeOK HeartbeatWhileConnected ListensWhileReady BufferOfOneConnection ConnectedUntilReported
PROPERTIES DisconnectSettles ShowsConnection
CHECK_DEADLOCK FALSE
