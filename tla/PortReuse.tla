------------------------------- MODULE PortReuse -------------------------------
(***************************************************************************)
(* Bound addresses: when bind_to is refused, what reset() does about it,   *)
(* and when a port is free again for a server that is started anew.        *)
(*                                                                         *)
(* Servers are objects of udp_server_socket, tcp_server_socket or a plain  *)
(* base_socket for streams, in any programs of one host.  Connections come *)
(* from other hosts; each is accepted into a tcp_active_socket.  A TCP     *)
(* port stays tied to what the kernel keeps of its connections after the   *)
(* objects are gone.  One action is one call of the program, or one step   *)
(* of a peer or of the kernel.                                             *)
(***************************************************************************)
EXTENDS SocketClasses

CONSTANTS
    Systems,      \* the systems considered, of "linux" and "windows"
    Objects,      \* storage in which programs construct server objects
    Conns,        \* bound: connections to the host's servers at a time
    Ports,        \* the ports servers bind to, on one address
    NoPort,       \* the socket is not bound
    Kinds         \* the classes the programs instantiate, of ServerClasses

ServerClasses == {"udp_server", "tcp_server", "base"}

ASSUME PortsAssumption ==
    /\ Systems \subseteq {"linux", "windows"}
    /\ Kinds \subseteq ServerClasses
    /\ NoPort \notin Ports

VARIABLES
    system,    \* what the library was built for
    obj,       \* each server object
    conn,      \* each connection, as the kernel of the servers' host sees it
    refused    \* history: objects whose last bind_to found the port in use;
               \* it makes a call that changes nothing else a step

vars == <<system, obj, conn, refused>>

(* An object being constructed is "open" and then "bound"; "throwing" is   *)
(* one whose constructor threw, before its destructor has run.             *)
Phases  == {"absent", "open", "bound", "listening", "stopped", "throwing"}
Options == {"REUSEADDR", "REUSEPORT"}

(* asked is history: the owner called reset().                             *)
Object(f, k, r) ==
    [phase |-> f, kind |-> k, port |-> NoPort, opts |-> r, asked |-> FALSE]
Absent == Object("absent", "none", {})

(* object: a tcp_active_socket holds the connection.  first and asked are  *)
(* history: which side closed it first, and that the listening socket had  *)
(* been asked.                                                             *)
ConnStates == {"none", "pending", "open", "peer_closed", "fin_wait",
               "time_wait", "last_ack", "reset"}

NoConn == [state |-> "none", port |-> NoPort, via |-> "none", opts |-> {},
           object |-> FALSE, first |-> "none", asked |-> FALSE]

Init ==
    /\ system \in Systems
    /\ obj = [o \in Objects |-> Absent]
    /\ conn = [c \in Conns |-> NoConn]
    /\ refused = {}

-----------------------------------------------------------------------------
(* What ties a port.                                                       *)

Stream(k) == k \in {"tcp_server", "base"}

(* Objects of k's protocol bound to port p, and connections of that port   *)
(* the kernel still keeps: a reset one is forgotten.                       *)
BoundTo(p, k) ==
    {q \in Objects : obj[q].port = p /\ Stream(obj[q].kind) = Stream(k)}

Tied(c) == conn[c].state \notin {"none", "reset"}

ConnsOn(p, k) == {c \in Conns : Stream(k) /\ Tied(c) /\ conn[c].port = p}

(* The kernels' rules for two sockets on one port, given the options set   *)
(* on both of them.                                                        *)
MayShare(both, listens) ==
    IF system = "windows" THEN "REUSEADDR" \in both
    ELSE "REUSEPORT" \in both \/ ("REUSEADDR" \in both /\ ~listens)

Available(o, p) ==
    /\ \A q \in BoundTo(p, obj[o].kind) :
           MayShare(obj[o].opts \cap obj[q].opts, obj[q].phase = "listening")
    /\ \A c \in ConnsOn(p, obj[o].kind) :
           MayShare(obj[o].opts \cap conn[c].opts, FALSE)

-----------------------------------------------------------------------------
(* Server objects.                                                         *)

SetPhase(o, f) == obj' = [obj EXCEPT ![o].phase = f]

(* Mutation: the Windows constructors without their setsockopt().          *)
PlainOptions == {}

(* The Windows constructors set SO_REUSEADDR; those for Linux nothing.     *)
FirstOptions == IF system = "windows" THEN {"REUSEADDR"} ELSE {}

Open(o, k) ==
    /\ obj[o].phase = "absent"
    /\ obj' = [obj EXCEPT ![o] = Object("open", k, FirstOptions)]
    /\ UNCHANGED <<system, conn, refused>>

(* Between socket() and the end of the constructor the object is not the   *)
(* program's yet.                                                          *)
InCtor(o) ==
    \/ obj[o].phase = "open" /\ obj[o].kind # "base"
    \/ obj[o].phase = "bound" /\ obj[o].kind = "tcp_server"

(* Mutations: an int for the option's value, so that option 15 is set; the *)
(* option's name and value exchanged.                                      *)
ValueOfFourBytes(opts) == opts \cup {"REUSEPORT"}
NameExchanged(opts)    == opts \cup {"DEBUG"}

(* _reset_socket() hands setsockopt() a value of one byte.  Linux takes no *)
(* less than an int (and the two names or-ed, 15 and 2, are SO_REUSEPORT   *)
(* alone), so nothing is set and reset() throws.  On Windows SO_REUSEADDR  *)
(* is set already, whatever becomes of the call.                           *)
AfterReset(opts) == opts

(* Only a plain base_socket offers it.                                     *)
Reset(o) ==
    /\ obj[o].phase # "absent" /\ "reset" \in Offers(obj[o].kind)
    /\ obj' = [obj EXCEPT ![o].opts = AfterReset(@), ![o].asked = TRUE]
    /\ UNCHANGED <<system, conn, refused>>

Bind(o, p) ==
    /\ obj[o].phase = "open" /\ Available(o, p)
    /\ obj' = [obj EXCEPT ![o].phase = "bound", ![o].port = p]
    /\ refused' = refused \ {o}
    /\ UNCHANGED <<system, conn>>

(* bind_to throws: out of a constructor, or to the base_socket's owner.    *)
BindThrows(o, p) ==
    /\ obj[o].phase = "open" /\ ~Available(o, p)
    /\ IF InCtor(o) THEN SetPhase(o, "throwing") ELSE UNCHANGED obj
    /\ refused' = refused \cup {o}
    /\ UNCHANGED <<system, conn>>

(* be_listening(), in the constructor of a tcp_server_socket or called on  *)
(* a base_socket, also on one that was stopped.                            *)
Listen(o) ==
    /\ Stream(obj[o].kind)
    /\ obj[o].phase = "bound" \/ (obj[o].phase = "stopped" /\ obj[o].kind = "base")
    /\ SetPhase(o, "listening")
    /\ UNCHANGED <<system, conn, refused>>

ListenThrows(o) ==
    /\ InCtor(o) /\ obj[o].phase = "bound"
    /\ SetPhase(o, "throwing")
    /\ UNCHANGED <<system, conn, refused>>

(* A listening socket that stops listening resets the connections nobody   *)
(* has accepted.                                                           *)
Dropped(o) ==
    conn' = [c \in Conns |->
        IF conn[c].state = "pending" /\ conn[c].via = o THEN NoConn ELSE conn[c]]

(* stop() of the receiving side, on Linux (on Windows it throws): the      *)
(* socket stays bound.                                                     *)
Stop(o) ==
    /\ system = "linux" /\ obj[o].phase = "listening" /\ "stop" \in Offers(obj[o].kind)
    /\ SetPhase(o, "stopped")
    /\ Dropped(o)
    /\ UNCHANGED <<system, refused>>

(* ~base_socket: called by the owner, or because the constructor threw.    *)
Destroy(o) ==
    /\ obj[o].phase # "absent" /\ ~InCtor(o)
    /\ obj' = [obj EXCEPT ![o] = Absent]
    /\ Dropped(o)
    /\ refused' = refused \ {o}
    /\ UNCHANGED system

-----------------------------------------------------------------------------
(* Connections.                                                            *)

Becomes(c, s) == conn' = [conn EXCEPT ![c].state = s]
ConnStep == UNCHANGED <<system, obj, refused>>

(* Where several sockets listen on one port any of them may get it.  The   *)
(* socket accept() returns inherits the listening socket's options.        *)
Arrive(c, o) ==
    /\ conn[c] = NoConn /\ obj[o].phase = "listening"
    /\ conn' = [conn EXCEPT ![c] =
           [NoConn EXCEPT !.state = "pending", !.port = obj[o].port,
                          !.via = o, !.opts = obj[o].opts, !.asked = obj[o].asked]]
    /\ ConnStep

(* accept_and_create_socket(): the object is built around the connection.  *)
Accept(c) ==
    /\ conn[c].state = "pending"
    /\ conn' = [conn EXCEPT ![c].state = "open", ![c].object = TRUE]
    /\ ConnStep

(* The peer's FIN.                                                         *)
PeerCloses(c) ==
    /\ \/ /\ conn[c].state = "open"
          /\ conn' = [conn EXCEPT ![c].state = "peer_closed", ![c].first = "peer"]
       \/ /\ conn[c].state = "fin_wait"
          /\ Becomes(c, "time_wait")
    /\ ConnStep

(* The peer's RST.                                                         *)
PeerResets(c) ==
    /\ Tied(c) /\ conn[c].state \notin {"pending", "time_wait"}
    /\ IF conn[c].object THEN Becomes(c, "reset")
       ELSE conn' = [conn EXCEPT ![c] = NoConn]
    /\ ConnStep

(* Mutation: a destructor without its shutdown() and close().              *)
LeftOpen(c) == conn' = [conn EXCEPT ![c].object = FALSE]

(* shutdown() and close() of a connection: a FIN, or an RST when something *)
(* came that nobody read.                                                  *)
Closed(c) ==
    \/ /\ conn[c].state = "open"
       /\ conn' = [conn EXCEPT ![c].state = "fin_wait", ![c].object = FALSE,
                               ![c].first = "self"]
    \/ /\ conn[c].state = "peer_closed"
       /\ conn' = [conn EXCEPT ![c].state = "last_ack", ![c].object = FALSE]
    \/ conn' = [conn EXCEPT ![c] = NoConn]

(* ~base_socket of the tcp_active_socket.                                  *)
ConnDestroyed(c) ==
    /\ conn[c].object
    /\ Closed(c)
    /\ ConnStep

(* The last acknowledgement comes or is given up, a time-out ends.         *)
Expires(c) ==
    /\ conn[c].state \in {"fin_wait", "time_wait", "last_ack"}
    /\ conn' = [conn EXCEPT ![c] = NoConn]
    /\ ConnStep

-----------------------------------------------------------------------------
Next ==
    \/ \E o \in Objects :
        \/ \E k \in Kinds : Open(o, k)
        \/ \E p \in Ports : Bind(o, p) \/ BindThrows(o, p)
        \/ \E c \in Conns : Arrive(c, o)
        \/ Reset(o) \/ Listen(o) \/ ListenThrows(o) \/ Stop(o) \/ Destroy(o)
    \/ \E c \in Conns :
        Accept(c) \/ PeerCloses(c) \/ PeerResets(c) \/ ConnDestroyed(c) \/ Expires(c)

Spec == Init /\ [][Next]_vars

(* The kernel's timers: a connection without an object does not stay.      *)
(* Nothing is assumed of peers and of what the programs do.                *)
FairSpec == Spec /\ \A c \in Conns : WF_vars(Expires(c))

-----------------------------------------------------------------------------
(* Properties.                                                             *)

(* The values the variables range over.                                    *)
TypeOK ==
    /\ system \in Systems
    /\ obj \in [Objects -> [phase : Phases, kind : ServerClasses \cup {"none"},
                            port : Ports \cup {NoPort}, opts : SUBSET Options,
                            asked : BOOLEAN]]
    /\ conn \in [Conns -> [state : ConnStates, port : Ports \cup {NoPort},
                           via : Objects \cup {"none"}, opts : SUBSET Options,
                           object : BOOLEAN, first : {"none", "self", "peer"},
                           asked : BOOLEAN]]
    /\ refused \subseteq Objects

(* A live object that ties port p for an object of class k: a server, or a *)
(* connection somebody still holds.                                        *)
LiveOn(p, k) == BoundTo(p, k) # {} \/ \E c \in ConnsOn(p, k) : conn[c].object

(* On Linux no two servers of a protocol are ever bound to one port, so    *)
(* that a client reaches the one server there is: it is the failure of     *)
(* reset() that keeps SO_REUSEPORT from breaking this.                     *)
OneServer ==
    system = "linux" =>
        \A o, q \in Objects :
            o # q /\ obj[o].port # NoPort /\ obj[o].port = obj[q].port
                => Stream(obj[o].kind) # Stream(obj[q].kind)

(* bind_to finds a port in use on Linux only, and there only while an      *)
(* object lives on it, for the rest of a connection this side closed       *)
(* first, or until a last acknowledgement: servers whose peers close first *)
(* start again at once.                                                    *)
RefusedForAReason ==
    [][\A o \in Objects, p \in Ports : BindThrows(o, p) =>
        /\ system = "linux"
        /\ \/ LiveOn(p, obj[o].kind)
           \/ \E c \in ConnsOn(p, obj[o].kind) :
                  conn[c].first = "self" \/ conn[c].state = "last_ack"]_vars

(* When the last object on a port is gone the port becomes free, unless    *)
(* somebody takes it before.                                               *)
PortComesBack ==
    \A p \in Ports, k \in Kinds :
        ~LiveOn(p, k) ~> (ConnsOn(p, k) = {} \/ LiveOn(p, k))

(* "reset - enable kernal reuse addresses and ports that may already be    *)
(* active/tied" (linux_socket.h:135), on a class whose constructors build  *)
(* "an easily restartable socket" (linux_socket.h:50, :56): programs that  *)
(* reset() their sockets find a port in use only while another object      *)
(* lives on it.                                                            *)
ResetReuses ==
    [][\A o \in Objects, p \in Ports :
        BindThrows(o, p) /\ obj[o].asked
            /\ (\A c \in ConnsOn(p, obj[o].kind) : conn[c].asked)
                => LiveOn(p, obj[o].kind)]_vars
=============================================================================
