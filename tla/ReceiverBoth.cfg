\* One TCP client and a lossy, duplicating datagram sender.
SPECIFICATION Spec
CONSTANTS
    Clients = {c1}
    Udp = udp
    NoClient = none
    TcpTraffic <- MCMixedTcp
    UdpTraffic <- MCMixedUdp
    MaxCopies = 2
    MaxBacklog = 1
    BufferUnits = 3
INVARIANTS TypeOK NoSocketLeaked
PROPERTIES ImplementsReceivingThreads
