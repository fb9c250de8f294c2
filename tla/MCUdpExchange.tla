---------------------------- MODULE MCUdpExchange ----------------------------
(* UdpExchange on small instances: clients and workers are model values.   *)
EXTENDS UdpExchange, TLC

ClientSymmetry == Permutations(Clients)
=============================================================================
