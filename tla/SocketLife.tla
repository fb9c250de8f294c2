------------------------------ MODULE SocketLife ------------------------------
(***************************************************************************)
(* What base_socket and the classes derived from it promise to a program   *)
(* that does not copy them: an object is its socket.  A kernel socket gets *)
(* one owner, belongs to it alone, and is closed once, when that owner     *)
(* goes and after the peer was told.  How descriptors, throwing            *)
(* constructors, accept calls and destructors achieve this does not show.  *)
(***************************************************************************)

CONSTANTS
    Objects,   \* storage for socket objects
    Sockets,   \* kernel sockets
    None       \* what an object owns that has no socket

VARIABLES
    owns,      \* the socket of each object
    state      \* "new", "open", "informed" (shut down both ways) or "closed"

vars == <<owns, state>>

Init ==
    /\ owns = [o \in Objects |-> None]
    /\ state = [s \in Sockets |-> "new"]

Becomes(s, f, t) == state[s] = f /\ state' = [state EXCEPT ![s] = t]

(* A socket is made for an object, by socket() or by accept().             *)
Acquire(o, s) ==
    /\ owns[o] = None
    /\ owns' = [owns EXCEPT ![o] = s]
    /\ Becomes(s, "new", "open")

(* stop(READ_AND_WRITE), or the first half of a destructor.                *)
Inform(o, s) ==
    /\ owns[o] = s
    /\ Becomes(s, "open", "informed")
    /\ UNCHANGED owns

Release(o, s) ==
    /\ owns[o] = s
    /\ owns' = [owns EXCEPT ![o] = None]
    /\ Becomes(s, "informed", "closed")

Next == \E o \in Objects, s \in Sockets : Acquire(o, s) \/ Inform(o, s) \/ Release(o, s)

Spec == Init /\ [][Next]_vars
=============================================================================
