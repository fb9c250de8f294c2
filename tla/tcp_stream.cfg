\* A message of two bytes takes two reads; one that is half read makes its
\* reader's destructor reset the connection.
CONSTANTS
    Client = client
    Server = server
    NoSignal = {server}
    BufferSize = 1
    SendRoom = 1
    ClientRoom = 1
    ServerRoom = 2
    Room <- Rooms
    ClientKind = "base"
    ServerKind = "tcp_active"
    Kind <- Kinds
    MaxMessage = 2
    ClientSends = 4
    ServerSends = 3
    MaxSent <- Sends
SPECIFICATION FairSpec
INVARIANTS TypeOK EndMeansAll LossNeedsUnread
PROPERTIES ImplementsPipes ReadEnds WriteEnds
\* Both ends may be gone.
CHECK_DEADLOCK FALSE
