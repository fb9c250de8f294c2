\* Objects are copied and assigned freely.
CONSTANTS
    o1 = o1  o2 = o2  o3 = o3
    Objects = {o1, o2, o3}
    Fd = {3, 4}
    MaxSocks = 2
    MaxPending = 1
    Kinds = {"tcp_server", "base"}
    Copies = {"construct", "assign"}
SPECIFICATION Spec
SYMMETRY ObjectSymmetry
INVARIANTS LeakOnlyByAssignment FactoryUsable
CHECK_DEADLOCK FALSE
