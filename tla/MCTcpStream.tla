----------------------------- MODULE MCTcpStream -----------------------------
(* TcpStream with each end's class, receive buffer and bound on what it    *)
(* writes.                                                                 *)
EXTENDS TcpStream

CONSTANTS ClientKind, ServerKind, ClientRoom, ServerRoom, ClientSends, ServerSends

OfEnd(c, s) == [e \in Ends |-> IF e = Client THEN c ELSE s]

Kinds == OfEnd(ClientKind, ServerKind)
Rooms == OfEnd(ClientRoom, ServerRoom)
Sends == OfEnd(ClientSends, ServerSends)
=============================================================================
