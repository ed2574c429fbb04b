\* Two TCP clients, no datagrams: integrity, order and shutdown.
SPECIFICATION FairSpec
CONSTANTS
    Clients = {c1, c2}
    Udp = udp
    NoClient = none
    TcpTraffic <- MCTwoTracking
    UdpTraffic <- MCNoTraffic
    MaxCopies = 0
    MaxBacklog = 2
    BufferUnits = 3
INVARIANTS PayloadMatchesHeader
PROPERTIES ImplementsControlChannel StopReturnsOrClientSilent ServedInTurn
