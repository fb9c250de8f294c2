\* Messages that are shorter than the buffer, fill it and exceed it.
CONSTANTS
    Streams = {lstream, wstream}
    Clients = {lclient, wclient}
    Servers = {lserver, wserver}
    Linux = {lstream, lclient, lserver}
    Peers = {p, q}
    Nobody = nobody
    Letters = {a}
    Nul = nul
    BufferSize = 2
    MaxMessage = 3
    MaxArrivals = 3
SPECIFICATION Spec
CONSTRAINT OneAtATime
INVARIANTS TypeOK WholeWithoutNul EchoBeginsWithRequest EchoIsRequestCut
\* Nothing more may arrive.
CHECK_DEADLOCK FALSE
