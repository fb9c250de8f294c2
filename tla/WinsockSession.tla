---------------------------- MODULE WinsockSession ----------------------------
(***************************************************************************)
(* Socket objects of the Windows base_socket between net::startup() and    *)
(* net::cleanup().  An object keeps a plain SOCKET, a handle that Winsock  *)
(* looks up at each call; the last cleanup closes every socket, also those *)
(* of objects that are still alive, as the client of main.cpp is.          *)
(*                                                                         *)
(* One action is one Winsock call of a thread, with the code around it     *)
(* that no other thread can see.                                           *)
(***************************************************************************)
EXTENDS Integers, SocketClasses

CONSTANTS
    Objects,      \* storage in which the program constructs socket objects
    Handles,      \* the handle values Winsock gives out
    MaxSocks,     \* bound: sockets created in a behaviour
    MaxStarts,    \* bound: calls of startup()
    MaxPending,   \* the backlog: connections waiting on one listening socket
    Kinds         \* the classes the program instantiates, a subset of Classes

ASSUME SessionAssumption ==
    /\ Handles \subseteq Nat
    /\ MaxSocks \in Nat /\ MaxStarts \in Nat /\ MaxPending \in Nat
    /\ Kinds \subseteq Classes

InvalidSocket == -1        \* what socket() returns when it fails
NoSock == 0
Sock   == 1..MaxSocks

VARIABLES
    build,      \* how the program was compiled: with MinGW, with assertions
    starts,     \* calls of startup() so far
    dll,        \* those that no cleanup() has answered yet
    obj,        \* each object: its phase, class, _socket and origin
    via, at,    \* for an accept call: the object it was made on, and the
                \* socket it blocks on
    table,      \* which socket a handle reaches
    made, mode, \* how many sockets there have been, and the state of each
    pending,    \* connections waiting to be accepted on it
    restarted,  \* history: Winsock was started anew with objects left over
    aborted     \* objects whose assertion failed, and why: the process is
                \* gone, and every action is disabled

winsock == <<starts, dll, restarted>>
calls   == <<via, at>>
sockets == <<table, made, mode, pending>>
vars    == <<build, winsock, obj, calls, sockets, aborted>>

CtorCalls == {"bind_to", "connect_to", "be_listening"}
Phases    == {"absent", "live", "doomed", "shutdown", "accepting"} \cup CtorCalls
Modes     == {"none", "plain", "bound", "listening", "connected", "stopped"}

(* origin is history: the socket the object was built around.              *)
Object(p, k, h, s) == [phase |-> p, kind |-> k, handle |-> h, origin |-> s]
Absent == Object("absent", "none", InvalidSocket, NoSock)

In(o, p) == obj[o].phase = p
SetPhase(o, p) == obj' = [obj EXCEPT ![o].phase = p]
Holds(o) == obj[o].phase \notin {"absent", "accepting"}
Running  == aborted = {}

(* The socket a call on o's handle reaches; without a startup() it fails.  *)
Reaches(o) == IF obj[o].handle \in Handles THEN table[obj[o].handle] ELSE NoSock

IsListening(s) == s \in Sock /\ mode[s] = "listening"

Init ==
    /\ build \in [mingw : BOOLEAN, asserts : BOOLEAN]
    /\ starts = 0 /\ dll = 0 /\ restarted = FALSE
    /\ obj = [o \in Objects |-> Absent]
    /\ via = [o \in Objects |-> o] /\ at = [o \in Objects |-> NoSock]
    /\ table = [h \in Handles |-> NoSock] /\ made = 0
    /\ mode = [s \in Sock |-> "none"] /\ pending = [s \in Sock |-> 0]
    /\ aborted = {}

-----------------------------------------------------------------------------
(* startup() and cleanup().                                                *)

Startup ==
    /\ Running /\ starts < MaxStarts
    /\ starts' = starts + 1 /\ dll' = dll + 1
    /\ restarted' = (restarted \/ (dll = 0 /\ \E o \in Objects : obj[o].origin # NoSock))
    /\ UNCHANGED <<build, obj, calls, sockets, aborted>>

(* The last cleanup() closes every socket and makes blocked calls fail.    *)
Cleanup ==
    /\ Running /\ dll > 0
    /\ dll' = dll - 1
    /\ table' = [h \in Handles |-> IF dll = 1 THEN NoSock ELSE table[h]]
    /\ mode' = [s \in Sock |-> IF dll = 1 THEN "none" ELSE mode[s]]
    /\ pending' = [s \in Sock |-> IF dll = 1 THEN 0 ELSE pending[s]]
    /\ UNCHANGED <<build, starts, restarted, obj, calls, made, aborted>>

-----------------------------------------------------------------------------
(* Construction.                                                           *)

Free == {h \in Handles : table[h] = NoSock}

NewSock(h, m) ==
    /\ dll > 0 /\ h \in Free /\ made < MaxSocks
    /\ made' = made + 1
    /\ table' = [table EXCEPT ![h] = made + 1]
    /\ mode' = [mode EXCEPT ![made + 1] = m]

(* assert(_socket > 0) looks at the member before it is assigned: whatever *)
(* the storage holds decides, and only without assertions is it harmless.  *)
Garbage(o) ==
    /\ build.asserts
    /\ aborted' = {[who |-> o, why |-> "garbage"]}
    /\ UNCHANGED <<build, winsock, obj, calls, sockets>>

(* base_socket(family, type, protocol): a failed socket() goes unnoticed.  *)
OpenSocket(o, k) ==
    /\ Running /\ In(o, "absent")
    /\ \/ /\ \/ \E h \in Handles :
                   /\ NewSock(h, "plain")
                   /\ obj' = [obj EXCEPT ![o] = Object(FirstCall(k), k, h, made + 1)]
             \/ /\ dll = 0 \/ Free = {}
                /\ obj' = [obj EXCEPT ![o] = Object(FirstCall(k), k, InvalidSocket, NoSock)]
                /\ UNCHANGED <<table, made, mode>>
          /\ UNCHANGED <<build, winsock, calls, pending, aborted>>
       \/ Garbage(o)

(* _assign_address with the text of an address.  inet_pton reads it byte by*)
(* byte.  InetPtonW takes two bytes of it for one wide character, so that  *)
(* already the first it sees is no digit, and finds no address.            *)
Converts == build.mingw

(* The effect of a successful bind(), connect() or listen(); Winsock does  *)
(* not listen on a socket without an address.                              *)
Established(call, s) ==
    \/ call = "bind_to" /\ Converts /\ mode[s] = "plain" /\ mode' = [mode EXCEPT ![s] = "bound"]
    \/ call = "connect_to" /\ Converts /\ mode[s] \in {"plain", "bound"}
       /\ mode' = [mode EXCEPT ![s] = "connected"]
    \/ call = "be_listening" /\ mode[s] \in {"bound", "listening"}
       /\ mode' = [mode EXCEPT ![s] = "listening"]

(* Mutation: a tcp_server_socket without its be_listening().               *)
AfterCallNoListen(o) == "live"

AfterCall(o) ==
    IF In(o, "bind_to") /\ obj[o].kind = "tcp_server" THEN "be_listening" ELSE "live"

(* Mutations: the base_socket left undestroyed; its handle closed although *)
(* ~base_socket is going to; the call's result not looked at.              *)
ThrowsWithoutDtor(o) == obj' = [obj EXCEPT ![o] = Absent] /\ UNCHANGED table
ThrowsNothing(o) == SetPhase(o, AfterCall(o)) /\ UNCHANGED table
ThrowsAfterClose(o) ==
    /\ SetPhase(o, "doomed")
    /\ table' = [h \in Handles |-> IF h = obj[o].handle THEN NoSock ELSE table[h]]

(* A throw from the constructor's body destroys the base_socket.           *)
Throws(o) == SetPhase(o, "doomed") /\ UNCHANGED table

CtorCall(o) ==
    /\ Running /\ obj[o].phase \in CtorCalls
    /\ \/ /\ Reaches(o) # NoSock /\ Established(obj[o].phase, Reaches(o))
          /\ SetPhase(o, AfterCall(o)) /\ UNCHANGED table
       \/ Throws(o) /\ UNCHANGED mode
    /\ UNCHANGED <<build, winsock, calls, made, pending, aborted>>

(* connect_to, bind_to and be_listening of a plain base_socket; a failure  *)
(* throws and leaves everything as it was.                                 *)
BaseCall(o, call) ==
    /\ Running /\ In(o, "live") /\ call \in Offers(obj[o].kind)
    /\ Reaches(o) # NoSock /\ Established(call, Reaches(o))
    /\ UNCHANGED <<build, winsock, obj, calls, table, made, pending, aborted>>

-----------------------------------------------------------------------------
(* accept_and_create_socket() on server p, into the storage o.             *)

(* Mutation: a backlog argument that does not limit the queue.             *)
HasRoomAlways(s) == TRUE

HasRoom(s) == pending[s] < MaxPending

Arrive(s) ==
    /\ Running /\ IsListening(s) /\ HasRoom(s)
    /\ pending' = [pending EXCEPT ![s] = @ + 1]
    /\ UNCHANGED <<build, winsock, obj, calls, table, made, mode, aborted>>

(* assert(is_listening()), which a handle that reaches nothing makes throw;*)
(* without assertions the call goes straight to accept().  is_listening    *)
(* gives getsockopt() one byte for the answer: where Winsock refuses that, *)
(* it throws as well, and nothing has happened.                            *)
AcceptCall(o, p) ==
    /\ Running /\ In(o, "absent")
    /\ In(p, "live") /\ Accepts(obj[p].kind)
    /\ build.asserts => Reaches(p) # NoSock
    /\ \/ /\ build.asserts => IsListening(Reaches(p))
          /\ SetPhase(o, "accepting")
          /\ via' = [via EXCEPT ![o] = p]
          /\ UNCHANGED aborted
       \/ /\ build.asserts /\ ~IsListening(Reaches(p))
          /\ aborted' = {[who |-> p, why |-> "not_listening"]}
          /\ UNCHANGED <<obj, via>>
    /\ UNCHANGED <<build, winsock, at, sockets>>

CallEnds(o) ==
    /\ via' = [via EXCEPT ![o] = o]
    /\ at' = [at EXCEPT ![o] = NoSock]

AcceptEnter(o) ==
    LET s == Reaches(via[o]) IN
    /\ Running /\ In(o, "accepting") /\ at[o] = NoSock
    /\ \/ IsListening(s) /\ at' = [at EXCEPT ![o] = s] /\ UNCHANGED <<obj, via>>
       \/ ~IsListening(s) /\ SetPhase(o, "absent") /\ CallEnds(o)
    /\ UNCHANGED <<build, winsock, sockets, aborted>>

(* Mutation: a call that tries again instead of throwing.                  *)
AcceptFailsRetries(o) == UNCHANGED <<obj, via, at>>

(* accept() returns INVALID_SOCKET, and the call throws.                   *)
AcceptFails(o) == SetPhase(o, "absent") /\ CallEnds(o)

(* It may for reasons of the system's.                                     *)
AcceptErrs(o) ==
    /\ Running /\ In(o, "accepting") /\ at[o] # NoSock
    /\ AcceptFails(o)
    /\ UNCHANGED <<build, winsock, sockets, aborted>>

(* accept() returns a connection, around which a tcp_active_socket is      *)
(* built, with the same assertion; or it has to fail.                      *)
AcceptReturn(o) ==
    LET s == at[o] IN
    /\ Running /\ In(o, "accepting") /\ s # NoSock
    /\ \/ /\ IsListening(s) /\ pending[s] > 0
          /\ \/ /\ \E h \in Handles :
                      /\ NewSock(h, "connected")
                      /\ obj' = [obj EXCEPT ![o] = Object("live", "tcp_active", h, made + 1)]
                /\ pending' = [pending EXCEPT ![s] = @ - 1]
                /\ CallEnds(o)
                /\ UNCHANGED <<build, winsock, aborted>>
             \/ Garbage(o)
       \/ /\ ~IsListening(s) \/ Free = {}
          /\ AcceptFails(o)
          /\ UNCHANGED <<build, winsock, sockets, aborted>>

-----------------------------------------------------------------------------
(* stop(), whichever direction.                                            *)

(* Mutation: a shutdown() that ends listening, as on Linux.                *)
StoppableListening(m) == m \in {"connected", "listening"}

(* shutdown() needs a connection: on a listening socket it fails, and stop *)
(* throws.                                                                 *)
Stoppable(m) == m = "connected"

Stop(o) ==
    LET s == Reaches(o) IN
    /\ Running /\ In(o, "live") /\ "stop" \in Offers(obj[o].kind)
    /\ s # NoSock /\ Stoppable(mode[s])
    /\ mode' = [mode EXCEPT ![s] = "stopped"]
    /\ UNCHANGED <<build, winsock, obj, calls, table, made, pending, aborted>>

-----------------------------------------------------------------------------
(* The destructor.  No thread is inside an accept call on the object.      *)

Destroy(o) ==
    /\ Running /\ In(o, "live")
    /\ \A p \in Objects : In(p, "accepting") => via[p] # o
    /\ SetPhase(o, "doomed")
    /\ UNCHANGED <<build, winsock, calls, sockets, aborted>>

(* shutdown(_socket, SD_BOTH) tells a peer, and changes nothing here ...   *)
DtorShutdown(o) ==
    /\ Running /\ In(o, "doomed")
    /\ SetPhase(o, "shutdown")
    /\ UNCHANGED <<build, winsock, calls, sockets, aborted>>

(* ... closesocket(_socket), of whatever the handle reaches by now.        *)
DtorClose(o) ==
    LET s == Reaches(o) IN
    /\ Running /\ In(o, "shutdown")
    /\ obj' = [obj EXCEPT ![o] = Absent]
    /\ table' = [h \in Handles |-> IF h = obj[o].handle THEN NoSock ELSE table[h]]
    /\ mode' = [x \in Sock |-> IF x = s THEN "none" ELSE mode[x]]
    /\ pending' = [x \in Sock |-> IF x = s THEN 0 ELSE pending[x]]
    /\ UNCHANGED <<build, winsock, calls, made, aborted>>

-----------------------------------------------------------------------------
Step(o) ==
    \/ \E k \in Kinds : OpenSocket(o, k)
    \/ CtorCall(o)
    \/ \E call \in CtorCalls : BaseCall(o, call)
    \/ \E p \in Objects : AcceptCall(o, p)
    \/ AcceptEnter(o) \/ AcceptErrs(o) \/ AcceptReturn(o)
    \/ Stop(o)
    \/ Destroy(o) \/ DtorShutdown(o) \/ DtorClose(o)

Next ==
    \/ Startup \/ Cleanup
    \/ \E s \in Sock : Arrive(s)
    \/ \E o \in Objects : Step(o)

Spec == Init /\ [][Next]_vars

(* A thread inside an accept call goes on when it can.                     *)
Fairness == \A o \in Objects : WF_vars(AcceptEnter(o)) /\ WF_vars(AcceptReturn(o))

FairSpec == Spec /\ Fairness

-----------------------------------------------------------------------------
(* Properties.                                                             *)

(* The values the variables range over.                                    *)
TypeOK ==
    /\ build \in [mingw : BOOLEAN, asserts : BOOLEAN]
    /\ starts \in 0..MaxStarts /\ dll \in 0..starts /\ restarted \in BOOLEAN
    /\ obj \in [Objects -> [phase  : Phases,
                            kind   : Classes \cup {"none", "tcp_active"},
                            handle : Handles \cup {InvalidSocket},
                            origin : Sock \cup {NoSock}]]
    /\ via \in [Objects -> Objects] /\ at \in [Objects -> Sock \cup {NoSock}]
    /\ table \in [Handles -> Sock \cup {NoSock}]
    /\ made \in 0..MaxSocks /\ mode \in [Sock -> Modes]
    /\ pending \in [Sock -> 0..MaxPending]
    /\ aborted \subseteq [who : Objects, why : {"garbage", "not_listening"}]

(* Objects that outlive cleanup(), as in main.cpp, are harmless as long as *)
(* the program does not call startup() again while they are there: their   *)
(* destructors and calls reach their own socket or none.                   *)
ForeignNeedsRestart ==
    ~restarted => \A o \in Objects : Holds(o) => Reaches(o) \in {NoSock, obj[o].origin}

(* No handle leaks, whatever throws half way: each open one is held by an  *)
(* object whose destructor is to come, or cleanup() closes it.             *)
NoLeak ==
    \A h \in Handles : table[h] # NoSock => \E o \in Objects : Holds(o) /\ obj[o].handle = h

(* The assertions see no failed socket(), but an object that came out of a *)
(* constructor of the factory is ready: it has a socket that is bound,     *)
(* listening or connected, unless cleanup() has closed it since.           *)
Ready(k) ==
    CASE k = "udp_server" -> "bound"
      [] k = "tcp_server" -> "listening"
      [] k \in {"udp_client", "tcp_client", "tcp_active"} -> "connected"

FactoryReady ==
    \A o \in Objects :
        In(o, "live") /\ obj[o].kind # "base" =>
            \/ Reaches(o) = NoSock /\ obj[o].handle \in Handles
            \/ Reaches(o) # NoSock /\ mode[Reaches(o)] = Ready(obj[o].kind)
            \/ restarted

(* On Windows stop() cannot end listening, so assert(is_listening()) never *)
(* ends a program with a tcp_server_socket, while the assertion on the     *)
(* unassigned member may.                                                  *)
AbortIsGarbage ==
    \A a \in aborted :
        a.why = "not_listening" => obj[a.who].kind = "base" \/ restarted

(* The last cleanup() releases a thread blocked in accept().               *)
CleanupReleasesAcceptor ==
    \A o \in Objects : at[o] # NoSock /\ dll = 0 ~> at[o] = NoSock \/ ~Running
=============================================================================
