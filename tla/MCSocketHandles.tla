--------------------------- MODULE MCSocketHandles ---------------------------
(* SocketHandles on small instances: objects are model values.             *)
EXTENDS SocketHandles, TLC

ObjectSymmetry == Permutations(Objects)
=============================================================================
