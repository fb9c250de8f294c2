---------------------------- MODULE SocketHandles ----------------------------
(***************************************************************************)
(* The life of socket objects and of the descriptors they hold, on Linux.  *)
(*                                                                         *)
(* A net::base_socket keeps its descriptor as a plain number, _socket.     *)
(* The constructors take a number from the kernel, the destructor hands it *)
(* back with shutdown() and close(), the copy operations duplicate the     *)
(* number.  The kernel's table says which socket a number reaches at the   *)
(* moment a system call is made.  Several threads construct, use and       *)
(* destroy objects; one action is one system call of one of them, with the *)
(* code around it that no other thread can see.                            *)
(***************************************************************************)
EXTENDS Integers, SocketClasses

CONSTANTS
    Objects,      \* storage in which the program constructs socket objects
    Fd,           \* the descriptor numbers the process may use
    MaxSocks,     \* bound: kernel sockets created in a behaviour
    MaxPending,   \* the backlog: connections waiting on one listening socket
    Kinds,        \* the classes the program instantiates, a subset of Classes
    Copies        \* the copy operations it uses, of "construct" and "assign"

ASSUME HandlesAssumption ==
    /\ Fd \subseteq Nat
    /\ MaxSocks \in Nat
    /\ MaxPending \in Nat
    /\ Kinds \subseteq Classes
    /\ Copies \subseteq {"construct", "assign"}

BadFd  == -1           \* what socket() returns when it fails
NoSock == 0            \* no kernel socket
Sock   == 1..MaxSocks  \* kernel sockets, numbered as they are created

VARIABLES
    obj,       \* each object: its phase, class, _socket and origin
    via,       \* for an accept call: the object it was made on
    at,        \* for an accept call: the kernel socket it blocks on
    table,     \* the kernel's descriptor table
    made,      \* how many kernel sockets there have been
    mode,      \* the state of each kernel socket
    pending,   \* connections waiting to be accepted on it
    shut,      \* kernel sockets that had a shutdown(SHUT_RDWR)
    stopped,   \* history: listening sockets told to receive no more
    dropped,   \* history: those whose last number a copy assignment overwrote
    aborted    \* objects whose assert failed: the process is gone, and every
               \* action is disabled

calls == <<via, at>>
vars  == <<obj, calls, table, made, mode, pending, shut, stopped, dropped, aborted>>

(* bind_to, connect_to and be_listening name the call a constructor is     *)
(* about to make; doomed and shutdown are the two halves of ~base_socket;  *)
(* an accepting slot waits for the object accept_and_create_socket returns *)
CtorCalls == {"bind_to", "connect_to", "be_listening"}
Phases    == {"absent", "live", "doomed", "shutdown", "accepting"} \cup CtorCalls
Modes     == {"none", "stream", "dgram", "listening", "connected"}

(* origin is history: the kernel socket the object was built around.       *)
Object(p, k, f, s) == [phase |-> p, kind |-> k, handle |-> f, origin |-> s]
Absent == Object("absent", "none", BadFd, NoSock)

In(o, p) == obj[o].phase = p
SetPhase(o, p) == obj' = [obj EXCEPT ![o].phase = p]

(* An object stands behind its descriptor from socket() or accept() until  *)
(* its destructor has called close().                                      *)
Holds(o) == obj[o].phase \notin {"absent", "accepting"}

(* The kernel socket a system call on o's number reaches; NoSock: EBADF.   *)
Reaches(o) == IF obj[o].handle \in Fd THEN table[obj[o].handle] ELSE NoSock

Free == {f \in Fd : table[f] = NoSock}

(* is_listening(): SO_ACCEPTCONN of kernel socket s.                       *)
IsListening(s) == s \in Sock /\ mode[s] = "listening"

Init ==
    /\ obj     = [o \in Objects |-> Absent]
    /\ via     = [o \in Objects |-> o]
    /\ at      = [o \in Objects |-> NoSock]
    /\ table   = [f \in Fd |-> NoSock]
    /\ made    = 0
    /\ mode    = [s \in Sock |-> "none"]
    /\ pending = [s \in Sock |-> 0]
    /\ shut = {} /\ stopped = {} /\ dropped = {} /\ aborted = {}

-----------------------------------------------------------------------------
(* The kernel's part of the calls.                                         *)

(* socket() and accept() enter a new kernel socket in the table.  POSIX    *)
(* promises the lowest free number; any free one is allowed here, because  *)
(* a blocked accept() reserves a number before it returns.                 *)
NewSock(f, m) ==
    /\ f \in Free
    /\ made < MaxSocks
    /\ made' = made + 1
    /\ table' = [table EXCEPT ![f] = made + 1]
    /\ mode' = [mode EXCEPT ![made + 1] = m]

(* shutdown() of the given directions: a listening socket that may receive *)
(* no more leaves the listening state and drops its queue.                 *)
Shutdown(s, how) ==
    LET closes == IsListening(s) /\ "RD" \in how IN
    /\ mode' = IF closes THEN [mode EXCEPT ![s] = "stream"] ELSE mode
    /\ pending' = IF closes THEN [pending EXCEPT ![s] = 0] ELSE pending
    /\ shut' = IF s \in Sock /\ how = {"RD", "WR"} THEN shut \cup {s} ELSE shut

(* A listen() whose backlog argument does not limit the queue.             *)
HasRoomAlways(s) == TRUE

HasRoom(s) == pending[s] < MaxPending

(* A peer's connection reaches a listening socket, which lives as long as  *)
(* a number or a blocked accept() refers to it.                            *)
Arrive(s) ==
    /\ aborted = {} /\ IsListening(s) /\ HasRoom(s)
    /\ (\E f \in Fd : table[f] = s) \/ (\E o \in Objects : at[o] = s)
    /\ pending' = [pending EXCEPT ![s] = @ + 1]
    /\ UNCHANGED <<obj, calls, table, made, mode, shut, stopped, dropped, aborted>>

-----------------------------------------------------------------------------
(* Construction.                                                           *)

(* Mutation: a tcp_server_socket without its be_listening().               *)
AfterCallNoListen(o) == "live"

AfterCall(o) ==
    IF In(o, "bind_to") /\ obj[o].kind = "tcp_server" THEN "be_listening" ELSE "live"

SockType(k) == IF k \in {"udp_server", "udp_client"} THEN "dgram" ELSE "stream"

(* base_socket(family, type, protocol).  When socket() fails, _socket is   *)
(* 4294967295, which passes assert(_socket >= 0): the object is built.     *)
OpenSocket(o, k) ==
    /\ aborted = {} /\ In(o, "absent")
    /\ \/ \E f \in Fd :
            /\ NewSock(f, SockType(k))
            /\ obj' = [obj EXCEPT ![o] = Object(FirstCall(k), k, f, made + 1)]
       \/ /\ Free = {}
          /\ obj' = [obj EXCEPT ![o] = Object(FirstCall(k), k, BadFd, NoSock)]
          /\ UNCHANGED <<table, made, mode>>
    /\ UNCHANGED <<calls, pending, shut, stopped, dropped, aborted>>

(* The effect of a successful bind(), connect() or listen() on socket s.   *)
Established(call, s) ==
    \/ call = "bind_to" /\ UNCHANGED mode
    \/ call = "connect_to" /\ mode[s] = "dgram" /\ UNCHANGED mode
    \/ call = "connect_to" /\ mode[s] = "stream" /\ mode' = [mode EXCEPT ![s] = "connected"]
    \/ call = "be_listening" /\ mode[s] \in {"stream", "listening"}
       /\ mode' = [mode EXCEPT ![s] = "listening"]

(* Mutations of a failing constructor: one that closes the descriptor      *)
(* although ~base_socket is going to, one that leaves the base_socket      *)
(* undestroyed, and one that does not look at the call's result.           *)
ThrowsAfterClose(o) ==
    /\ SetPhase(o, "doomed")
    /\ table' = [f \in Fd |-> IF f = obj[o].handle THEN NoSock ELSE table[f]]

ThrowsWithoutDtor(o) ==
    obj' = [obj EXCEPT ![o] = Absent] /\ UNCHANGED table

ThrowsNothing(o) ==
    SetPhase(o, AfterCall(o)) /\ UNCHANGED table

(* A throw from the constructor's body destroys the base_socket, which is  *)
(* already built.                                                          *)
Throws(o) ==
    SetPhase(o, "doomed") /\ UNCHANGED table

(* The constructor's next call; it may always fail (bad address, address   *)
(* in use, connection refused).                                            *)
CtorCall(o) ==
    /\ aborted = {} /\ obj[o].phase \in CtorCalls
    /\ \/ /\ Reaches(o) # NoSock
          /\ Established(obj[o].phase, Reaches(o))
          /\ SetPhase(o, AfterCall(o))
          /\ UNCHANGED table
       \/ Throws(o) /\ UNCHANGED mode
    /\ UNCHANGED <<calls, made, pending, shut, stopped, dropped, aborted>>

(* connect_to, bind_to and be_listening called by the owner of a plain     *)
(* base_socket.  A failure throws and leaves the object as it was.         *)
BaseCall(o, call) ==
    /\ aborted = {} /\ In(o, "live") /\ call \in Offers(obj[o].kind)
    /\ Reaches(o) # NoSock
    /\ Established(call, Reaches(o))
    /\ UNCHANGED <<obj, calls, table, made, pending, shut, stopped, dropped, aborted>>

-----------------------------------------------------------------------------
(* Copying: the default operations duplicate every member.  An object is   *)
(* neither assigned to nor destroyed while an accept call on it runs.      *)

InCall(p) == \E o \in Objects : In(o, "accepting") /\ via[o] = p

CopyConstruct(o, p) ==
    /\ aborted = {} /\ "construct" \in Copies
    /\ In(o, "absent") /\ In(p, "live")
    /\ obj' = [obj EXCEPT ![o] = obj[p]]
    /\ UNCHANGED <<calls, table, made, mode, pending, shut, stopped, dropped, aborted>>

CopyAssign(o, p) ==
    /\ aborted = {} /\ "assign" \in Copies
    /\ o # p /\ In(o, "live") /\ In(p, "live") /\ obj[o].kind = obj[p].kind
    /\ ~InCall(o)
    /\ obj' = [obj EXCEPT ![o] = obj[p]]
    /\ dropped' = IF \E q \in Objects \ {o} : Holds(q) /\ obj[q].handle = obj[o].handle
                  THEN dropped ELSE dropped \cup {Reaches(o)}
    /\ UNCHANGED <<calls, table, made, mode, pending, shut, stopped, aborted>>

-----------------------------------------------------------------------------
(* accept_and_create_socket() on server p, into the storage o.             *)

(* assert(is_listening()): a socket that does not listen ends the process. *)
(* A number that reaches nothing makes is_listening throw: no change.      *)
AcceptCall(o, p) ==
    /\ aborted = {} /\ In(o, "absent")
    /\ In(p, "live") /\ Accepts(obj[p].kind)
    /\ Reaches(p) # NoSock
    /\ \/ /\ IsListening(Reaches(p))
          /\ SetPhase(o, "accepting")
          /\ via' = [via EXCEPT ![o] = p]
          /\ UNCHANGED aborted
       \/ /\ ~IsListening(Reaches(p))
          /\ aborted' = aborted \cup {p}
          /\ UNCHANGED <<obj, via>>
    /\ UNCHANGED <<at, table, made, mode, pending, shut, stopped, dropped>>

(* The call is over.                                                       *)
CallEnds(o) ==
    /\ via' = [via EXCEPT ![o] = o]
    /\ at' = [at EXCEPT ![o] = NoSock]

(* accept() looks the number up again, after is_listening() has returned;  *)
(* if that socket does not listen it fails and the call throws.            *)
AcceptEnter(o) ==
    LET s == Reaches(via[o]) IN
    /\ aborted = {} /\ In(o, "accepting") /\ at[o] = NoSock
    /\ \/ /\ IsListening(s)
          /\ at' = [at EXCEPT ![o] = s]
          /\ UNCHANGED <<obj, via>>
       \/ /\ ~IsListening(s)
          /\ SetPhase(o, "absent")
          /\ CallEnds(o)
    /\ UNCHANGED <<table, made, mode, pending, shut, stopped, dropped, aborted>>

(* Mutation: accept's result stored in the listening object as well.       *)
BuiltIntoServer(o, f) ==
    obj' = [obj EXCEPT ![o] = Object("live", "tcp_active", f, made + 1),
                       ![via[o]].handle = f]

(* tcp_active_socket(sockfd), built in place around accept()'s number.     *)
Built(o, f) ==
    obj' = [obj EXCEPT ![o] = Object("live", "tcp_active", f, made + 1)]

(* accept() fails for a reason of the system's, and the call throws.       *)
AcceptErrs(o) ==
    /\ aborted = {} /\ In(o, "accepting") /\ at[o] # NoSock
    /\ SetPhase(o, "absent") /\ CallEnds(o)
    /\ UNCHANGED <<table, made, mode, pending, shut, stopped, dropped, aborted>>

(* accept() returns the first pending connection; or it has to fail (no    *)
(* longer listening, out of descriptors) and the call throws.              *)
AcceptReturn(o) ==
    /\ aborted = {} /\ In(o, "accepting") /\ at[o] # NoSock
    /\ \/ /\ IsListening(at[o]) /\ pending[at[o]] > 0
          /\ \E f \in Fd : NewSock(f, "connected") /\ Built(o, f)
          /\ pending' = [pending EXCEPT ![at[o]] = @ - 1]
       \/ /\ ~IsListening(at[o]) \/ Free = {}
          /\ SetPhase(o, "absent")
          /\ UNCHANGED <<table, made, mode, pending>>
    /\ CallEnds(o)
    /\ UNCHANGED <<shut, stopped, dropped, aborted>>

-----------------------------------------------------------------------------
(* stop() and the destructor.                                              *)

Actions == {"READ", "WRITE", "READ_AND_WRITE"}

(* Mutation: the directions of READ and WRITE exchanged.                   *)
HowSwapped(a) ==
    CASE a = "READ" -> {"WR"}
      [] a = "WRITE" -> {"RD"}
      [] a = "READ_AND_WRITE" -> {"RD", "WR"}

How(a) ==
    CASE a = "READ" -> {"RD"}
      [] a = "WRITE" -> {"WR"}
      [] a = "READ_AND_WRITE" -> {"RD", "WR"}

(* A failure throws and changes nothing.                                   *)
Stop(o, a) ==
    LET s == Reaches(o) IN
    /\ aborted = {} /\ In(o, "live") /\ "stop" \in Offers(obj[o].kind)
    /\ s # NoSock
    /\ mode[s] \in {"listening", "connected"}
    /\ Shutdown(s, How(a))
    /\ stopped' = IF IsListening(s) /\ a # "WRITE" THEN stopped \cup {s} ELSE stopped
    /\ UNCHANGED <<obj, calls, table, made, dropped, aborted>>

Destroy(o) ==
    /\ aborted = {} /\ In(o, "live") /\ ~InCall(o)
    /\ SetPhase(o, "doomed")
    /\ UNCHANGED <<calls, table, made, mode, pending, shut, stopped, dropped, aborted>>

(* Mutation: a destructor that goes straight to close().                   *)
DtorShutdownSkipped(o) ==
    /\ aborted = {} /\ In(o, "doomed")
    /\ SetPhase(o, "shutdown")
    /\ UNCHANGED <<calls, table, made, mode, pending, shut, stopped, dropped, aborted>>

(* ~base_socket: shutdown(_socket, SHUT_RDWR), its result ignored ...      *)
DtorShutdown(o) ==
    /\ aborted = {} /\ In(o, "doomed")
    /\ SetPhase(o, "shutdown")
    /\ Shutdown(Reaches(o), {"RD", "WR"})
    /\ UNCHANGED <<calls, table, made, stopped, dropped, aborted>>

(* ... then close(_socket), of whatever the number reaches by now.  The    *)
(* kernel forgets a socket that no blocked accept() refers to.             *)
DtorClose(o) ==
    LET gone == {s \in {Reaches(o)} : s # NoSock /\ \A p \in Objects : at[p] # s} IN
    /\ aborted = {} /\ In(o, "shutdown")
    /\ obj' = [obj EXCEPT ![o] = Absent]
    /\ table' = [f \in Fd |-> IF f = obj[o].handle THEN NoSock ELSE table[f]]
    /\ mode' = [s \in Sock |-> IF s \in gone THEN "none" ELSE mode[s]]
    /\ pending' = [s \in Sock |-> IF s \in gone THEN 0 ELSE pending[s]]
    /\ shut' = shut \ gone
    /\ stopped' = stopped \ gone
    /\ UNCHANGED <<calls, made, dropped, aborted>>

-----------------------------------------------------------------------------
Step(o) ==
    \/ \E k \in Kinds : OpenSocket(o, k)
    \/ CtorCall(o)
    \/ \E call \in CtorCalls : BaseCall(o, call)
    \/ \E p \in Objects : CopyConstruct(o, p) \/ CopyAssign(o, p) \/ AcceptCall(o, p)
    \/ AcceptEnter(o)
    \/ AcceptErrs(o)
    \/ AcceptReturn(o)
    \/ \E a \in Actions : Stop(o, a)
    \/ Destroy(o)
    \/ DtorShutdown(o)
    \/ DtorClose(o)

Next ==
    \/ \E s \in Sock : Arrive(s)
    \/ \E o \in Objects : Step(o)

Spec == Init /\ [][Next]_vars

(* A thread inside a constructor, an accept call or a destructor goes on.  *)
(* Nothing is assumed of peers, of what the program decides to do next, or *)
(* of failures that nothing forces.                                        *)
Fairness ==
    \A o \in Objects :
        /\ WF_vars(CtorCall(o))
        /\ WF_vars(AcceptEnter(o)) /\ WF_vars(AcceptReturn(o))
        /\ WF_vars(DtorShutdown(o) \/ DtorClose(o))

FairSpec == Spec /\ Fairness

-----------------------------------------------------------------------------
(* Properties.                                                             *)

(* The values the variables range over.                                    *)
TypeOK ==
    /\ obj \in [Objects -> [phase  : Phases,
                            kind   : Classes \cup {"none", "tcp_active"},
                            handle : Fd \cup {BadFd},
                            origin : Sock \cup {NoSock}]]
    /\ via \in [Objects -> Objects]
    /\ at \in [Objects -> Sock \cup {NoSock}]
    /\ table \in [Fd -> Sock \cup {NoSock}]
    /\ made \in 0..MaxSocks
    /\ mode \in [Sock -> Modes]
    /\ pending \in [Sock -> 0..MaxPending]
    /\ shut \subseteq Sock /\ stopped \subseteq Sock
    /\ dropped \subseteq Sock \cup {NoSock}
    /\ aborted \subseteq Objects

(* An object's calls act on "this socket" (linux_socket.h, read, write,    *)
(* stop): from construction to close() the number an object holds reaches  *)
(* the kernel socket it was built around.                                  *)
HandleFaithful ==
    \A o \in Objects : Holds(o) => Reaches(o) = obj[o].origin

(* The weaker half of it: a number may have gone dead, but it does not     *)
(* reach another object's connection.                                      *)
NoForeignSocket ==
    \A o \in Objects : Holds(o) => Reaches(o) \in {NoSock, obj[o].origin}

(* No kernel socket is reached through two objects, so that none is shut   *)
(* down or closed while another object still uses it.                      *)
SoleOwner ==
    \A o, p \in Objects :
        o # p /\ Holds(o) /\ Holds(p) /\ obj[o].handle \in Fd
            => obj[o].handle # obj[p].handle

(* No descriptor leaks: each open number is held by an object that still   *)
(* has its close() ahead, also after a constructor threw half way and      *)
(* after accept() failed.                                                  *)
NoLeak ==
    \A f \in Fd : table[f] # NoSock => \E o \in Objects : Holds(o) /\ obj[o].handle = f

(* Whatever the program copies, an open number without an owner is one     *)
(* that a copy assignment overwrote: no other sequence of calls leaks.     *)
LeakOnlyByAssignment ==
    \A f \in Fd : table[f] # NoSock =>
        (\E o \in Objects : Holds(o) /\ obj[o].handle = f) \/ table[f] \in dropped

(* A socket() that failed goes unnoticed by the assertion, yet no class of *)
(* the factory hands out an object without a descriptor: bind_to and       *)
(* connect_to throw first.                                                 *)
FactoryUsable ==
    \A o \in Objects : In(o, "live") /\ obj[o].kind # "base" => obj[o].handle \in Fd

(* assert(is_listening()) ends the process only after somebody stopped the *)
(* receiving side of that very server.                                     *)
AbortOnlyAfterStop ==
    \A p \in aborted : obj[p].kind = "tcp_server" => obj[p].origin \in stopped

(* Peers hear of the end of a connection before its number can be used     *)
(* again: close() frees only sockets that had their shutdown().            *)
ShutdownBeforeClose ==
    [][\A f \in Fd : table[f] # NoSock /\ table'[f] = NoSock => table[f] \in shut]_vars

(* What SocketLife sees of this: an object owns the kernel socket it was   *)
(* built around until its close(); a socket without a number is closed.    *)
Owned == [o \in Objects |-> IF Holds(o) THEN obj[o].origin ELSE NoSock]

LifeOf(s) ==
    CASE s > made -> "new"
      [] s <= made /\ \A f \in Fd : table[f] # s -> "closed"
      [] OTHER -> IF s \in shut THEN "informed" ELSE "open"

Life == INSTANCE SocketLife
            WITH Sockets <- Sock, None <- NoSock,
                 owns <- Owned, state <- [s \in Sock |-> LifeOf(s)]

(* An object is its socket: through failing system calls, constructors     *)
(* that throw, accept calls and destructors of several threads each kernel *)
(* socket has one owner from its making on, is shut down by that owner     *)
(* alone and closed once, with the owner.                                  *)
ImplementsLife == Life!Spec

(* stop(READ) and stop(READ_AND_WRITE) release a thread blocked in         *)
(* accept_and_create_socket on that server: its call returns.              *)
StopReleasesAcceptor ==
    \A o \in Objects :
        (In(o, "accepting") /\ obj[via[o]].kind = "tcp_server"
            /\ obj[via[o]].origin \in stopped)
            ~> (~In(o, "accepting") \/ aborted # {})
=============================================================================
