\* A server that calls reset() and binds while the rest of a connection is left.
CONSTANTS
    Systems = {"linux"}
    Objects = {o1, o2}
    Conns = {c1}
    Ports = {port}
    NoPort = NoPort
    Kinds = {"base"}
SPECIFICATION Spec
PROPERTY ResetReuses
