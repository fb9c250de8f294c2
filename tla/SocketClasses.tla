---------------------------- MODULE SocketClasses ----------------------------
(***************************************************************************)
(* The socket classes and what each lets its users call.  All derive from  *)
(* base_socket, which implements the whole interface; the products of the  *)
(* factory derive from it privately, so that a program reaches only what   *)
(* they declare themselves.                                                *)
(***************************************************************************)

(* The classes a program constructs.  A tcp_active_socket comes out of an  *)
(* accept call.                                                            *)
Classes == {"base", "udp_server", "udp_client", "tcp_server", "tcp_client"}

(* The pure virtual functions of socketable.                               *)
Interface ==
    {"connect_to", "bind_to", "be_listening", "is_listening",
     "accept_and_create_sockfd", "read", "write", "read_from", "write_back",
     "reset", "stop"}

Offers(k) ==
    CASE k = "base" -> Interface
      [] k = "udp_server" -> {"read_from", "write_back"}
      [] k = "tcp_server" -> {"accept_and_create_socket", "stop"}
      [] k \in {"udp_client", "tcp_client", "tcp_active"} -> {"read", "write"}

(* A base_socket's accept call returns a bare number, and the program      *)
(* builds the object around it.                                            *)
Accepts(k) ==
    Offers(k) \cap {"accept_and_create_sockfd", "accept_and_create_socket"} # {}

(* What the constructor of each class does after its base_socket is built. *)
FirstCall(k) ==
    CASE k \in {"udp_server", "tcp_server"} -> "bind_to"
      [] k \in {"udp_client", "tcp_client"} -> "connect_to"
      [] k = "base" -> "live"
=============================================================================
