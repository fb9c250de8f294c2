\* Objects are never copied: each descriptor has one owner for life.
CONSTANTS
    o1 = o1  o2 = o2  o3 = o3
    Objects = {o1, o2, o3}
    Fd = {3, 4}
    MaxSocks = 3
    MaxPending = 1
    Kinds = {"tcp_server", "udp_client"}
    Copies = {}
SPECIFICATION FairSpec
INVARIANTS TypeOK HandleFaithful SoleOwner NoLeak AbortOnlyAfterStop
PROPERTIES ShutdownBeforeClose ImplementsLife StopReleasesAcceptor
\* A failed assert ends the process.
CHECK_DEADLOCK FALSE
