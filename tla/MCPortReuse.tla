------------------------------ MODULE MCPortReuse ------------------------------
(* PortReuse on small instances: objects, connections and ports are model  *)
(* values.                                                                 *)
EXTENDS PortReuse
=============================================================================
