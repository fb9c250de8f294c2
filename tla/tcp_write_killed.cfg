\* main.cpp: no flags.
CONSTANTS
    Client = client
    Server = server
    NoSignal = {}
    BufferSize = 1
    SendRoom = 1
    ClientRoom = 1
    ServerRoom = 2
    Room <- Rooms
    ClientKind = "base"
    ServerKind = "tcp_active"
    Kind <- Kinds
    MaxMessage = 2
    ClientSends = 4
    ServerSends = 3
    MaxSent <- Sends
SPECIFICATION Spec
INVARIANTS WriteComesBack
CHECK_DEADLOCK FALSE
