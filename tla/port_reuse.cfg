\* Servers of three classes come and go on one port.
CONSTANTS
    Systems = {"linux", "windows"}
    Objects = {o1, o2}
    Conns = {c1, c2}
    Ports = {port}
    NoPort = NoPort
    Kinds = {"udp_server", "tcp_server", "base"}
SPECIFICATION FairSpec
INVARIANTS TypeOK OneServer
PROPERTIES RefusedForAReason PortComesBack
