\* One copy is enough for an object to act on a stranger's socket.
CONSTANTS
    o1 = o1  o2 = o2  o3 = o3
    Objects = {o1, o2, o3}
    Fd = {3, 4}
    MaxSocks = 3
    MaxPending = 1
    Kinds = {"tcp_server", "base"}
    Copies = {"construct"}
SPECIFICATION Spec
INVARIANT NoForeignSocket
CHECK_DEADLOCK FALSE
