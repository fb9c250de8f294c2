\* The Windows build of a udp_server and of a stream.
CONSTANTS
    Streams = {wstream}
    Clients = {}
    Servers = {wserver}
    Linux = {}
    Peers = {p, q}
    Nobody = nobody
    Letters = {a}
    Nul = nul
    BufferSize = 2
    MaxMessage = 3
    MaxArrivals = 3
SPECIFICATION Spec
CONSTRAINT OneAtATime
INVARIANTS StringsAreMessages
CHECK_DEADLOCK FALSE
