\* Both receiving threads at once on recv_buffer_.
SPECIFICATION Spec
CONSTANTS
    Clients = {c1}
    Udp = udp
    NoClient = none
    TcpTraffic <- MCOneTracking
    UdpTraffic <- MCOneVideo
    MaxCopies = 1
    MaxBacklog = 1
    BufferUnits = 2
INVARIANTS PayloadMatchesHeader
