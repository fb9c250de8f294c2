--------------------------- MODULE MCWinsockSession ---------------------------
(* WinsockSession on small instances: objects are model values.            *)
EXTENDS WinsockSession
=============================================================================
