\* A server and what it accepts, or two objects of any class; a third socket
\* gets a handle again that cleanup or a destructor has freed.
CONSTANTS
    Objects = {o1, o2}
    Handles = {1, 2}
    MaxSocks = 3
    MaxStarts = 2
    MaxPending = 1
    Kinds = {"base", "udp_server", "tcp_server", "tcp_client"}
SPECIFICATION FairSpec
INVARIANTS TypeOK ForeignNeedsRestart NoLeak FactoryReady AbortIsGarbage
PROPERTY CleanupReleasesAcceptor
\* The program may end.
CHECK_DEADLOCK FALSE
