\* One recv is taken for one packet.
SPECIFICATION Spec
CONSTANTS
    Clients = {c1}
    Udp = udp
    NoClient = none
    TcpTraffic <- MCTwoTracking
    UdpTraffic <- MCNoTraffic
    MaxCopies = 0
    MaxBacklog = 1
    BufferUnits = 4
INVARIANTS NoPacketSkipped
