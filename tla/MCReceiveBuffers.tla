-------------------------- MODULE MCReceiveBuffers ---------------------------
(* ReceiveBuffers on small instances.                                      *)
EXTENDS ReceiveBuffers, FiniteSets

(* The objects share nothing, so the behaviours of one at a time show all  *)
(* there is to see.                                                        *)
OneAtATime == Cardinality({o \in Objects : arrived[o] > 0}) <= 1
=============================================================================
