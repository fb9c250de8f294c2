------------------------- MODULE SocketHandlesProofs -------------------------
(***************************************************************************)
(* What holds of SocketHandles for every number of objects, descriptors,   *)
(* kernel sockets and pending connections.                                 *)
(***************************************************************************)
EXTENDS SocketHandles, TLAPS

-----------------------------------------------------------------------------
(* Facts about the operators the actions are built from.                   *)

(* A record of the four members is an object of the model.                 *)
ObjectSet == [phase  : Phases,
              kind   : Classes \cup {"none", "tcp_active"},
              handle : Fd \cup {BadFd},
              origin : Sock \cup {NoSock}]

(* What an object's number reaches is a kernel socket or nothing, and only *)
(* a number of the table reaches a kernel socket.                          *)
LEMMA ReachesType ==
    ASSUME TypeOK, NEW o \in Objects
    PROVE  /\ Reaches(o) \in Sock \cup {NoSock}
           /\ Reaches(o) # NoSock => /\ obj[o].handle \in Fd
                                     /\ Reaches(o) = table[obj[o].handle]
                                     /\ Reaches(o) \in Sock
  BY DEF TypeOK, Reaches, Sock, NoSock

(* The number of the next kernel socket is a number of Sock, not yet used. *)
LEMMA NewSockType ==
    ASSUME TypeOK, NEW f, NEW m \in Modes, NewSock(f, m)
    PROVE  /\ f \in Fd
           /\ table[f] = NoSock
           /\ made + 1 \in Sock
           /\ made' \in 0..MaxSocks
           /\ table' \in [Fd -> Sock \cup {NoSock}]
           /\ mode' \in [Sock -> Modes]
  BY HandlesAssumption DEF TypeOK, NewSock, Free, Sock

(* shutdown() keeps the kernel's state well formed.                        *)
LEMMA ShutdownType ==
    ASSUME TypeOK, NEW s \in Sock \cup {NoSock}, NEW how, Shutdown(s, how)
    PROVE  /\ mode' \in [Sock -> Modes]
           /\ pending' \in [Sock -> 0..MaxPending]
           /\ shut' \subseteq Sock
  BY HandlesAssumption DEF TypeOK, Shutdown, IsListening, Modes

(* A change of phase leaves objects well formed.                           *)
LEMMA SetPhaseType ==
    ASSUME TypeOK, NEW o \in Objects, NEW p \in Phases, SetPhase(o, p)
    PROVE  obj' \in [Objects -> ObjectSet]
  BY DEF TypeOK, SetPhase, ObjectSet

-----------------------------------------------------------------------------
(* Type correctness: SocketHandles never stores a value outside the ranges *)
(* of its variables; no descriptor of a failed call enters the table.      *)
THEOREM TypeCorrect == Spec => []TypeOK
<1>1. Init => TypeOK
  BY HandlesAssumption
     DEF Init, TypeOK, Absent, Object, Phases, Sock, NoSock, BadFd, Modes
<1>2. TypeOK /\ [Next]_vars => TypeOK'
  <2> SUFFICES ASSUME TypeOK, [Next]_vars PROVE TypeOK'
    OBVIOUS
  <2>1. ASSUME NEW s \in Sock, Arrive(s) PROVE TypeOK'
    BY <2>1, HandlesAssumption DEF Arrive, HasRoom, TypeOK, calls
  <2>2. ASSUME NEW o \in Objects, NEW k \in Kinds, OpenSocket(o, k) PROVE TypeOK'
    <3>1. k \in Classes /\ FirstCall(k) \in Phases /\ SockType(k) \in Modes
      BY HandlesAssumption DEF Classes, FirstCall, Phases, CtorCalls, SockType, Modes
    <3>2. CASE \E f \in Fd :
                   /\ NewSock(f, SockType(k))
                   /\ obj' = [obj EXCEPT ![o] = Object(FirstCall(k), k, f, made + 1)]
      <4>1. PICK f \in Fd : /\ NewSock(f, SockType(k))
                            /\ obj' = [obj EXCEPT ![o] = Object(FirstCall(k), k, f, made + 1)]
        BY <3>2
      <4>2. made + 1 \in Sock /\ made' \in 0..MaxSocks
            /\ table' \in [Fd -> Sock \cup {NoSock}] /\ mode' \in [Sock -> Modes]
        BY <3>1, <4>1, NewSockType
      <4>3. Object(FirstCall(k), k, f, made + 1) \in ObjectSet
        BY <3>1, <4>2 DEF Object, ObjectSet
      <4>. QED
        BY <2>2, <4>1, <4>2, <4>3 DEF OpenSocket, TypeOK, ObjectSet, calls
    <3>3. CASE /\ obj' = [obj EXCEPT ![o] = Object(FirstCall(k), k, BadFd, NoSock)]
               /\ UNCHANGED <<table, made, mode>>
      BY <2>2, <3>1, <3>3 DEF OpenSocket, TypeOK, Object, calls
    <3>. QED
      BY <2>2, <3>2, <3>3 DEF OpenSocket
  <2>3. ASSUME NEW o \in Objects, CtorCall(o) PROVE TypeOK'
    <3>1. AfterCall(o) \in Phases /\ "doomed" \in Phases
      BY DEF AfterCall, Phases, CtorCalls
    <3>2. mode' \in [Sock -> Modes]
      <4>1. Reaches(o) \in Sock \cup {NoSock}
        BY ReachesType
      <4>. QED
        BY <2>3, <4>1 DEF CtorCall, Established, TypeOK, Modes
    <3>. QED
      BY <2>3, <3>1, <3>2 DEF CtorCall, Throws, SetPhase, TypeOK, calls
  <2>4. ASSUME NEW o \in Objects, NEW call \in CtorCalls, BaseCall(o, call) PROVE TypeOK'
    <3>1. Reaches(o) \in Sock \cup {NoSock}
      BY ReachesType
    <3>. QED
      BY <2>4, <3>1 DEF BaseCall, Established, TypeOK, Modes, calls
  <2>5. ASSUME NEW o \in Objects, NEW p \in Objects, CopyConstruct(o, p) PROVE TypeOK'
    BY <2>5 DEF CopyConstruct, TypeOK, calls
  <2>6. ASSUME NEW o \in Objects, NEW p \in Objects, CopyAssign(o, p) PROVE TypeOK'
    <3>1. Reaches(o) \in Sock \cup {NoSock}
      BY ReachesType
    <3>. QED
      BY <2>6, <3>1 DEF CopyAssign, TypeOK, calls
  <2>7. ASSUME NEW o \in Objects, NEW p \in Objects, AcceptCall(o, p) PROVE TypeOK'
    <3>1. obj' \in [Objects -> ObjectSet]
      BY <2>7, SetPhaseType DEF AcceptCall, TypeOK, ObjectSet, Phases
    <3>2. via' \in [Objects -> Objects] /\ aborted' \subseteq Objects
      BY <2>7 DEF AcceptCall, TypeOK
    <3>. QED
      BY <2>7, <3>1, <3>2 DEF AcceptCall, TypeOK, ObjectSet
  <2>8. ASSUME NEW o \in Objects, AcceptEnter(o) \/ AcceptErrs(o) PROVE TypeOK'
    <3>1. Reaches(via[o]) \in Sock \cup {NoSock}
      BY ReachesType DEF TypeOK
    <3>2. obj' \in [Objects -> ObjectSet]
      BY <2>8, SetPhaseType DEF AcceptEnter, AcceptErrs, TypeOK, ObjectSet, Phases
    <3>3. via' \in [Objects -> Objects] /\ at' \in [Objects -> Sock \cup {NoSock}]
      <4>1. CASE CallEnds(o)
        BY <4>1 DEF CallEnds, TypeOK
      <4>2. CASE at' = [at EXCEPT ![o] = Reaches(via[o])] /\ via' = via
        BY <3>1, <4>2 DEF TypeOK
      <4>. QED
        BY <2>8, <4>1, <4>2 DEF AcceptEnter, AcceptErrs
    <3>. QED
      BY <2>8, <3>2, <3>3 DEF AcceptEnter, AcceptErrs, TypeOK, ObjectSet
  <2>9. ASSUME NEW o \in Objects, AcceptReturn(o) PROVE TypeOK'
    <3>1. via' \in [Objects -> Objects] /\ at' \in [Objects -> Sock \cup {NoSock}]
      BY <2>9 DEF AcceptReturn, CallEnds, TypeOK
    <3>2. CASE /\ IsListening(at[o]) /\ pending[at[o]] > 0
               /\ \E f \in Fd : NewSock(f, "connected") /\ Built(o, f)
               /\ pending' = [pending EXCEPT ![at[o]] = @ - 1]
      <4>1. PICK f \in Fd : NewSock(f, "connected") /\ Built(o, f)
        BY <3>2
      <4>2. made + 1 \in Sock /\ made' \in 0..MaxSocks
            /\ table' \in [Fd -> Sock \cup {NoSock}] /\ mode' \in [Sock -> Modes]
        BY <4>1, NewSockType DEF Modes
      <4>3. Object("live", "tcp_active", f, made + 1) \in ObjectSet
        BY <4>2 DEF Object, ObjectSet, Phases
      <4>4. pending' \in [Sock -> 0..MaxPending]
        BY <3>2, HandlesAssumption DEF TypeOK, IsListening
      <4>5. obj' \in [Objects -> ObjectSet]
        BY <4>1, <4>3 DEF Built, TypeOK, ObjectSet
      <4>. QED
        BY <2>9, <3>1, <4>2, <4>4, <4>5 DEF AcceptReturn, TypeOK, ObjectSet
    <3>3. CASE SetPhase(o, "absent") /\ UNCHANGED <<table, made, mode, pending>>
      <4>1. obj' \in [Objects -> ObjectSet]
        BY <3>3, SetPhaseType DEF Phases
      <4>. QED
        BY <2>9, <3>1, <3>3, <4>1 DEF AcceptReturn, TypeOK, ObjectSet
    <3>. QED
      BY <2>9, <3>2, <3>3 DEF AcceptReturn
  <2>10. ASSUME NEW o \in Objects, NEW a \in Actions, Stop(o, a) PROVE TypeOK'
    <3>1. Reaches(o) \in Sock
      BY <2>10, ReachesType DEF Stop
    <3>2. mode' \in [Sock -> Modes] /\ pending' \in [Sock -> 0..MaxPending] /\ shut' \subseteq Sock
      BY <2>10, <3>1, ShutdownType DEF Stop
    <3>. QED
      BY <2>10, <3>1, <3>2 DEF Stop, TypeOK, calls
  <2>11. ASSUME NEW o \in Objects, Destroy(o) PROVE TypeOK'
    BY <2>11 DEF Destroy, SetPhase, TypeOK, Phases, calls
  <2>12. ASSUME NEW o \in Objects, DtorShutdown(o) PROVE TypeOK'
    <3>1. mode' \in [Sock -> Modes] /\ pending' \in [Sock -> 0..MaxPending] /\ shut' \subseteq Sock
      BY <2>12, ReachesType, ShutdownType DEF DtorShutdown
    <3>. QED
      BY <2>12, <3>1 DEF DtorShutdown, SetPhase, TypeOK, Phases, calls
  <2>13. ASSUME NEW o \in Objects, DtorClose(o) PROVE TypeOK'
    <3>1. Absent \in ObjectSet
      BY DEF Absent, Object, ObjectSet, Phases
    <3>2. obj' \in [Objects -> ObjectSet]
      BY <2>13, <3>1 DEF DtorClose, TypeOK, ObjectSet
    <3>3. /\ table' \in [Fd -> Sock \cup {NoSock}]
          /\ mode' \in [Sock -> Modes]
          /\ pending' \in [Sock -> 0..MaxPending]
          /\ shut' \subseteq Sock /\ stopped' \subseteq Sock
      BY <2>13, HandlesAssumption DEF DtorClose, TypeOK, Modes
    <3>. QED
      BY <2>13, <3>2, <3>3 DEF DtorClose, TypeOK, ObjectSet, calls
  <2>14. CASE UNCHANGED vars
    BY <2>14 DEF vars, calls, TypeOK
  <2>. QED
    BY <2>1, <2>2, <2>3, <2>4, <2>5, <2>6, <2>7, <2>8, <2>9, <2>10, <2>11, <2>12, <2>13, <2>14
       DEF Next, Step
<1>. QED
  BY <1>1, <1>2, PTL DEF Spec
-----------------------------------------------------------------------------
(* Leaks.  LeakOnlyByAssignment is inductive: the only steps that end an   *)
(* object's claim to a number are close(), which empties the number's      *)
(* entry, and a copy assignment, which records what it overwrote.          *)

LEMMA LeakStep ==
    TypeOK /\ LeakOnlyByAssignment /\ [Next]_vars => LeakOnlyByAssignment'
<1> SUFFICES ASSUME TypeOK, LeakOnlyByAssignment, [Next]_vars,
                    NEW g \in Fd, table'[g] # NoSock
             PROVE  \/ \E o \in Objects : Holds(o)' /\ obj'[o].handle = g
                    \/ table'[g] \in dropped'
  BY DEF LeakOnlyByAssignment
<1> DEFINE Claimed == \E o \in Objects : Holds(o) /\ obj[o].handle = g
<1>1. table[g] # NoSock => Claimed \/ table[g] \in dropped
  BY DEF LeakOnlyByAssignment
<1>2. ASSUME NEW s \in Sock, Arrive(s) PROVE Claimed' \/ table'[g] \in dropped'
  BY <1>1, <1>2 DEF Arrive, Holds
<1>3. ASSUME NEW o \in Objects, NEW k \in Kinds, OpenSocket(o, k)
      PROVE  Claimed' \/ table'[g] \in dropped'
  <2>1. FirstCall(k) \notin {"absent", "accepting"}
    BY HandlesAssumption DEF FirstCall, Classes
  <2>2. CASE \E f \in Fd :
                 /\ NewSock(f, SockType(k))
                 /\ obj' = [obj EXCEPT ![o] = Object(FirstCall(k), k, f, made + 1)]
    BY <1>1, <1>3, <2>1, <2>2 DEF OpenSocket, NewSock, Free, Object, Holds, In, TypeOK
  <2>3. CASE /\ obj' = [obj EXCEPT ![o] = Object(FirstCall(k), k, BadFd, NoSock)]
             /\ UNCHANGED <<table, made, mode>>
    BY <1>1, <1>3, <2>1, <2>3 DEF OpenSocket, Object, Holds, In, TypeOK
  <2>. QED
    BY <1>3, <2>2, <2>3 DEF OpenSocket
<1>4. ASSUME NEW o \in Objects, CtorCall(o) PROVE Claimed' \/ table'[g] \in dropped'
  <2>1. AfterCall(o) \notin {"absent", "accepting"} /\ "doomed" \notin {"absent", "accepting"}
    BY DEF AfterCall
  <2>2. UNCHANGED <<table, dropped>>
    BY <1>4 DEF CtorCall, Throws
  <2>3. \E q \in {AfterCall(o), "doomed"} : SetPhase(o, q)
    BY <1>4 DEF CtorCall, Throws
  <2>4. Claimed => Claimed'
    BY <1>4, <2>1, <2>3 DEF CtorCall, CtorCalls, SetPhase, Holds, TypeOK
  <2>. QED
    BY <1>1, <2>2, <2>4
<1>5. ASSUME NEW o \in Objects, NEW call \in CtorCalls, BaseCall(o, call)
      PROVE  Claimed' \/ table'[g] \in dropped'
  BY <1>1, <1>5 DEF BaseCall, Holds
<1>6. ASSUME NEW o \in Objects, NEW p \in Objects, CopyConstruct(o, p)
      PROVE  Claimed' \/ table'[g] \in dropped'
  BY <1>1, <1>6 DEF CopyConstruct, Holds, In, TypeOK
<1>7. ASSUME NEW o \in Objects, NEW p \in Objects, CopyAssign(o, p)
      PROVE  Claimed' \/ table'[g] \in dropped'
  <2>1. table[g] \in dropped => table'[g] \in dropped'
    BY <1>7 DEF CopyAssign
  <2>2. ASSUME NEW q \in Objects, Holds(q), obj[q].handle = g, q # o PROVE Claimed'
    BY <1>7, <2>2 DEF CopyAssign, Holds, TypeOK
  <2>3. CASE Holds(o) /\ obj[o].handle = g
             /\ \A q \in Objects \ {o} : ~(Holds(q) /\ obj[q].handle = obj[o].handle)
    BY <1>7, <2>3 DEF CopyAssign, Reaches
  <2>. QED
    BY <1>1, <1>7, <2>1, <2>2, <2>3 DEF CopyAssign
<1>8. ASSUME NEW o \in Objects, NEW p \in Objects, AcceptCall(o, p)
      PROVE  Claimed' \/ table'[g] \in dropped'
  BY <1>1, <1>8 DEF AcceptCall, SetPhase, Holds, In, TypeOK
<1>9. ASSUME NEW o \in Objects, AcceptEnter(o) \/ AcceptErrs(o)
      PROVE  Claimed' \/ table'[g] \in dropped'
  <2>1. Claimed => Claimed'
    BY <1>9 DEF AcceptEnter, AcceptErrs, SetPhase, Holds, In, TypeOK
  <2>. QED
    BY <1>1, <1>9, <2>1 DEF AcceptEnter, AcceptErrs
<1>10. ASSUME NEW o \in Objects, AcceptReturn(o) PROVE Claimed' \/ table'[g] \in dropped'
  <2>1. CASE \E f \in Fd : NewSock(f, "connected") /\ Built(o, f)
    BY <1>1, <1>10, <2>1 DEF AcceptReturn, NewSock, Free, Built, Object, Holds, In, TypeOK
  <2>2. CASE SetPhase(o, "absent") /\ UNCHANGED <<table, made, mode, pending>>
    BY <1>1, <1>10, <2>2 DEF AcceptReturn, SetPhase, Holds, In, TypeOK
  <2>. QED
    BY <1>10, <2>1, <2>2 DEF AcceptReturn
<1>11. ASSUME NEW o \in Objects, NEW a \in Actions, Stop(o, a)
       PROVE  Claimed' \/ table'[g] \in dropped'
  BY <1>1, <1>11 DEF Stop, Holds
<1>12. ASSUME NEW o \in Objects, Destroy(o) \/ DtorShutdown(o)
       PROVE  Claimed' \/ table'[g] \in dropped'
  <2>1. Claimed => Claimed'
    BY <1>12 DEF Destroy, DtorShutdown, SetPhase, Holds, In, TypeOK
  <2>. QED
    BY <1>1, <1>12, <2>1 DEF Destroy, DtorShutdown
<1>13. ASSUME NEW o \in Objects, DtorClose(o) PROVE Claimed' \/ table'[g] \in dropped'
  <2>1. g # obj[o].handle /\ table'[g] = table[g]
    BY <1>13 DEF DtorClose, TypeOK
  <2>2. Claimed => Claimed'
    BY <1>13, <2>1 DEF DtorClose, Holds, TypeOK
  <2>. QED
    BY <1>1, <1>13, <2>1, <2>2 DEF DtorClose
<1>14. CASE UNCHANGED vars
  BY <1>1, <1>14 DEF vars, Holds
<1>. QED
  BY <1>2, <1>3, <1>4, <1>5, <1>6, <1>7, <1>8, <1>9, <1>10, <1>11, <1>12, <1>13, <1>14
     DEF Next, Step

(* Whatever the program copies, an open number that no object is going to  *)
(* close is one that a copy assignment overwrote: constructors that throw, *)
(* failing accepts and destructors leave none behind.                      *)
THEOREM LeaksAreAssignments == Spec => []LeakOnlyByAssignment
<1>1. Init => LeakOnlyByAssignment
  BY DEF Init, LeakOnlyByAssignment
<1>. QED
  BY <1>1, TypeCorrect, LeakStep, PTL DEF Spec

(* A program that never assigns one socket object to another leaks no      *)
(* descriptor, even when it copy-constructs.                               *)
THEOREM NoLeakWithoutAssignment ==
    ASSUME "assign" \notin Copies
    PROVE  Spec => []NoLeak
<1>1. Init => dropped = {}
  BY DEF Init
<1>2. dropped = {} /\ [Next]_vars => (dropped = {})'
  BY DEF Next, Step, vars, Arrive, OpenSocket, CtorCall, BaseCall, CopyConstruct, CopyAssign,
         AcceptCall, AcceptEnter, AcceptErrs, AcceptReturn, Stop, Destroy, DtorShutdown, DtorClose
<1>3. LeakOnlyByAssignment /\ dropped = {} => NoLeak
  BY DEF LeakOnlyByAssignment, NoLeak
<1>. QED
  BY <1>1, <1>2, <1>3, LeaksAreAssignments, PTL DEF Spec

-----------------------------------------------------------------------------
(* A factory object that its constructor hands out has a descriptor, though *)
(* the assertion after socket() lets a failed call through: the bind_to or  *)
(* connect_to that follows cannot succeed without one.                      *)
THEOREM FactoryObjectsUsable == Spec => []FactoryUsable
<1>1. Init => FactoryUsable
  BY DEF Init, FactoryUsable, In, Absent, Object
<1>2. TypeOK /\ FactoryUsable /\ [Next]_vars => FactoryUsable'
  <2> SUFFICES ASSUME TypeOK, FactoryUsable, [Next]_vars, NEW q \in Objects,
                      In(q, "live")', obj'[q].kind # "base"
               PROVE  obj'[q].handle \in Fd
    BY DEF FactoryUsable
  <2>1. ASSUME NEW o \in Objects, NEW k \in Kinds, OpenSocket(o, k)
        PROVE  obj'[q].handle \in Fd
    <3>1. k # "base" => FirstCall(k) # "live"
      BY HandlesAssumption DEF FirstCall, Classes
    <3>2. \E h, s : obj' = [obj EXCEPT ![o] = Object(FirstCall(k), k, h, s)]
      BY <2>1 DEF OpenSocket
    <3>. QED
      BY <3>1, <3>2 DEF Object, In, FactoryUsable, TypeOK
  <2>2. ASSUME NEW o \in Objects, CtorCall(o) PROVE obj'[q].handle \in Fd
    <3>1. CASE Reaches(o) # NoSock /\ SetPhase(o, AfterCall(o))
      BY <3>1, ReachesType DEF SetPhase, In, FactoryUsable, TypeOK
    <3>2. CASE Throws(o)
      BY <3>2 DEF Throws, SetPhase, In, FactoryUsable, TypeOK
    <3>. QED
      BY <2>2, <3>1, <3>2 DEF CtorCall
  <2>3. ASSUME NEW o \in Objects, NEW p \in Objects,
               CopyConstruct(o, p) \/ CopyAssign(o, p)
        PROVE  obj'[q].handle \in Fd
    BY <2>3 DEF CopyConstruct, CopyAssign, In, FactoryUsable, TypeOK
  <2>4. ASSUME NEW o \in Objects,
               \E p \in {"absent", "accepting", "doomed", "shutdown"} : SetPhase(o, p)
        PROVE  obj'[q].handle \in Fd
    BY <2>4 DEF SetPhase, In, FactoryUsable, TypeOK
  <2>5. ASSUME NEW o \in Objects, AcceptReturn(o) PROVE obj'[q].handle \in Fd
    <3>1. CASE \E f \in Fd : Built(o, f)
      BY <3>1 DEF Built, Object, In, FactoryUsable, TypeOK
    <3>. QED
      BY <2>4, <2>5, <3>1 DEF AcceptReturn
  <2>6. ASSUME NEW o \in Objects, DtorClose(o) PROVE obj'[q].handle \in Fd
    BY <2>6 DEF DtorClose, Absent, Object, In, FactoryUsable, TypeOK
  <2>7. ASSUME UNCHANGED obj PROVE obj'[q].handle \in Fd
    BY <2>7 DEF In, FactoryUsable
  <2>8. ASSUME NEW o \in Objects, NEW p \in Objects,
               AcceptCall(o, p) \/ AcceptEnter(o) \/ AcceptErrs(o)
        PROVE  obj'[q].handle \in Fd
    BY <2>4, <2>7, <2>8 DEF AcceptCall, AcceptEnter, AcceptErrs
  <2>9. ASSUME NEW o \in Objects, Destroy(o) \/ DtorShutdown(o)
        PROVE  obj'[q].handle \in Fd
    BY <2>4, <2>9 DEF Destroy, DtorShutdown
  <2>10. CASE \/ UNCHANGED vars
              \/ \E s \in Sock : Arrive(s)
              \/ \E o \in Objects, call \in CtorCalls : BaseCall(o, call)
              \/ \E o \in Objects, a \in Actions : Stop(o, a)
    BY <2>7, <2>10 DEF vars, Arrive, BaseCall, Stop
  <2>. QED
    BY <2>1, <2>2, <2>3, <2>5, <2>6, <2>8, <2>9, <2>10 DEF Next, Step
<1>. QED
  BY <1>1, <1>2, TypeCorrect, PTL DEF Spec
-----------------------------------------------------------------------------
(* Ownership, for programs that do not copy socket objects.  HandleFaithful *)
(* and SoleOwner are not inductive as they stand: that a number of the      *)
(* table's holder reaches its own socket has to be known of the numbers     *)
(* accept() and socket() are about to hand out as well.                     *)

(* The kernel sockets behind two numbers differ, and none is from the       *)
(* future.                                                                  *)
TableInjective ==
    /\ \A f \in Fd : table[f] <= made
    /\ \A f, g \in Fd : table[f] # NoSock /\ table[f] = table[g] => f = g

(* A descriptor was taken from the kernel with a socket behind it.          *)
OriginKnown ==
    \A o \in Objects : Holds(o) =>
        /\ obj[o].handle \in Fd <=> obj[o].origin # NoSock
        /\ obj[o].origin <= made

(* Between its two calls a destructor has shut its socket down.             *)
Informed ==
    \A o \in Objects : In(o, "shutdown") /\ obj[o].handle \in Fd => obj[o].origin \in shut

(* A tcp_server_socket goes through bind_to and be_listening, and once it   *)
(* is live it listens until stop() is called on it.                         *)
Serving ==
    \A o \in Objects : obj[o].kind = "tcp_server" =>
        /\ obj[o].phase \in {"bind_to", "be_listening", "live", "doomed", "shutdown"}
        /\ In(o, "live") => obj[o].origin \in Sock
        /\ In(o, "live") => mode[obj[o].origin] = "listening" \/ obj[o].origin \in stopped

Ownership == HandleFaithful /\ SoleOwner /\ TableInjective /\ OriginKnown

(* What the destructor and accept rely on: two objects, two kernel sockets. *)
LEMMA DistinctSockets ==
    ASSUME TypeOK, Ownership, NEW o \in Objects, NEW p \in Objects,
           o # p, Holds(o), Holds(p), obj[o].origin # NoSock
    PROVE  obj[o].origin # obj[p].origin
  BY DEF TypeOK, Ownership, HandleFaithful, SoleOwner, TableInjective, OriginKnown, Reaches

(* A change of phase that leaves an object's claim to its number alone.     *)
LEMMA PhaseKeepsOwnership ==
    ASSUME TypeOK, Ownership, NEW o \in Objects, NEW p,
           SetPhase(o, p), UNCHANGED <<table, made>>,
           Holds(o) <=> p \notin {"absent", "accepting"}
    PROVE  Ownership'
<1>1. \A q \in Objects : /\ Holds(q)' <=> Holds(q)
                         /\ obj'[q].handle = obj[q].handle
                         /\ obj'[q].origin = obj[q].origin
  BY DEF SetPhase, Holds, TypeOK
<1>. QED
  BY <1>1 DEF Ownership, HandleFaithful, SoleOwner, TableInjective, OriginKnown, Reaches

(* socket() or accept() succeeds and an object is built around the number.  *)
LEMMA NewSockKeepsOwnership ==
    ASSUME TypeOK, Ownership, NEW o \in Objects, NEW f \in Fd, NEW m, NEW p, NEW k,
           ~Holds(o), NewSock(f, m), obj' = [obj EXCEPT ![o] = Object(p, k, f, made + 1)]
    PROVE  Ownership'
<1>1. /\ \A q \in Objects : q # o => obj'[q] = obj[q]
      /\ obj'[o].handle = f /\ obj'[o].origin = made + 1
  BY DEF Object, TypeOK
<1>2. /\ made \in Nat /\ made' = made + 1 /\ table[f] = NoSock
      /\ \A g \in Fd : table'[g] = IF g = f THEN made + 1 ELSE table[g]
      /\ \A g \in Fd : table[g] \in Nat
  BY DEF TypeOK, NewSock, Free, Sock, NoSock
<1>3. \A q \in Objects : q # o => (Holds(q)' <=> Holds(q))
  BY <1>1 DEF Holds
<1>4. \A q \in Objects : Holds(q) => obj[q].handle # f
  BY <1>2 DEF Ownership, HandleFaithful, OriginKnown, Reaches
<1>5. HandleFaithful'
  BY <1>1, <1>2, <1>3, <1>4 DEF Ownership, HandleFaithful, Reaches
<1>6. SoleOwner'
  BY <1>1, <1>3, <1>4 DEF Ownership, SoleOwner
<1>7. TableInjective'
  BY <1>2 DEF Ownership, TableInjective, NoSock
<1>8. OriginKnown'
  BY <1>1, <1>2, <1>3 DEF Ownership, OriginKnown, NoSock, TypeOK, Sock
<1>. QED
  BY <1>5, <1>6, <1>7, <1>8 DEF Ownership

(* close() frees a number nobody else holds.                                *)
LEMMA CloseKeepsOwnership ==
    ASSUME TypeOK, Ownership, NEW o \in Objects, DtorClose(o)
    PROVE  Ownership'
<1>1. /\ \A q \in Objects : q # o => obj'[q] = obj[q]
      /\ ~Holds(o)' /\ Holds(o)
  BY DEF DtorClose, Absent, Object, Holds, In, TypeOK
<1>2. \A g \in Fd : table'[g] = IF g = obj[o].handle THEN NoSock ELSE table[g]
  BY DEF DtorClose, TypeOK
<1>3. \A q \in Objects : q # o => (Holds(q)' <=> Holds(q))
  BY <1>1 DEF Holds
<1>4. \A q \in Objects : q # o /\ Holds(q) /\ obj[q].handle \in Fd
                            => obj[q].handle # obj[o].handle
  BY <1>1 DEF Ownership, SoleOwner
<1>5. HandleFaithful'
  BY <1>1, <1>2, <1>3, <1>4 DEF Ownership, HandleFaithful, Reaches
<1>6. SoleOwner'
  BY <1>1, <1>3 DEF Ownership, SoleOwner
<1>7. TableInjective'
  BY <1>2 DEF DtorClose, Ownership, TableInjective, NoSock, TypeOK
<1>8. OriginKnown'
  BY <1>1, <1>3 DEF DtorClose, Ownership, OriginKnown
<1>. QED
  BY <1>5, <1>6, <1>7, <1>8 DEF Ownership

LEMMA OwnershipStep ==
    ASSUME Copies = {}, TypeOK, Ownership, [Next]_vars
    PROVE  Ownership'
<1>1. ASSUME UNCHANGED <<obj, table, made>> PROVE Ownership'
  BY <1>1 DEF Ownership, HandleFaithful, SoleOwner, TableInjective, OriginKnown, Holds, Reaches
<1>2. ASSUME NEW o \in Objects, NEW k \in Kinds, OpenSocket(o, k) PROVE Ownership'
  <2>1. ~Holds(o)
    BY <1>2 DEF OpenSocket, Holds, In
  <2>2. CASE \E f \in Fd :
                 /\ NewSock(f, SockType(k))
                 /\ obj' = [obj EXCEPT ![o] = Object(FirstCall(k), k, f, made + 1)]
    BY <2>1, <2>2, NewSockKeepsOwnership
  <2>3. CASE /\ obj' = [obj EXCEPT ![o] = Object(FirstCall(k), k, BadFd, NoSock)]
             /\ UNCHANGED <<table, made, mode>>
    <3>1. /\ \A q \in Objects : q # o => obj'[q] = obj[q]
          /\ obj'[o].handle \notin Fd /\ obj'[o].origin = NoSock
      BY <2>3, HandlesAssumption DEF Object, TypeOK, BadFd
    <3>2. \A q \in Objects : q # o => (Holds(q)' <=> Holds(q))
      BY <3>1 DEF Holds
    <3>3. HandleFaithful'
      BY <2>3, <3>1, <3>2 DEF Ownership, HandleFaithful, Reaches
    <3>4. SoleOwner'
      BY <3>1, <3>2 DEF Ownership, SoleOwner
    <3>5. TableInjective' /\ OriginKnown'
      BY <2>3, <3>1, <3>2 DEF Ownership, TableInjective, OriginKnown, NoSock, TypeOK
    <3>. QED
      BY <3>3, <3>4, <3>5 DEF Ownership
  <2>. QED
    BY <1>2, <2>2, <2>3 DEF OpenSocket
<1>3. ASSUME NEW o \in Objects, CtorCall(o) PROVE Ownership'
  <2>1. /\ UNCHANGED <<table, made>>
        /\ \E q \in {AfterCall(o), "doomed"} : SetPhase(o, q)
        /\ Holds(o)
    BY <1>3 DEF CtorCall, Throws, CtorCalls, Holds
  <2>2. AfterCall(o) \notin {"absent", "accepting"}
    BY DEF AfterCall
  <2>. QED
    BY <2>1, <2>2, PhaseKeepsOwnership
<1>4. ASSUME NEW o \in Objects, NEW p \in Objects, AcceptCall(o, p) PROVE Ownership'
  BY <1>1, <1>4, PhaseKeepsOwnership DEF AcceptCall, Holds, In
<1>5. ASSUME NEW o \in Objects, AcceptEnter(o) \/ AcceptErrs(o) PROVE Ownership'
  BY <1>1, <1>5, PhaseKeepsOwnership DEF AcceptEnter, AcceptErrs, Holds, In
<1>6. ASSUME NEW o \in Objects, AcceptReturn(o) PROVE Ownership'
  <2>1. ~Holds(o)
    BY <1>6 DEF AcceptReturn, Holds, In
  <2>2. CASE \E f \in Fd : NewSock(f, "connected") /\ Built(o, f)
    BY <2>1, <2>2, NewSockKeepsOwnership DEF Built
  <2>3. CASE SetPhase(o, "absent") /\ UNCHANGED <<table, made, mode, pending>>
    BY <2>1, <2>3, PhaseKeepsOwnership
  <2>. QED
    BY <1>6, <2>2, <2>3 DEF AcceptReturn
<1>7. ASSUME NEW o \in Objects, Destroy(o) \/ DtorShutdown(o) PROVE Ownership'
  <2>1. Holds(o) /\ UNCHANGED <<table, made>> /\ \E q \in {"doomed", "shutdown"} : SetPhase(o, q)
    BY <1>7 DEF Destroy, DtorShutdown, Holds, In
  <2>. QED
    BY <2>1, PhaseKeepsOwnership
<1>8. ASSUME NEW o \in Objects, DtorClose(o) PROVE Ownership'
  BY <1>8, CloseKeepsOwnership
<1>9. ASSUME NEW o \in Objects, NEW p \in Objects PROVE ~CopyConstruct(o, p) /\ ~CopyAssign(o, p)
  BY DEF CopyConstruct, CopyAssign
<1>10. CASE \/ UNCHANGED vars
            \/ \E s \in Sock : Arrive(s)
            \/ \E o \in Objects, call \in CtorCalls : BaseCall(o, call)
            \/ \E o \in Objects, a \in Actions : Stop(o, a)
  BY <1>1, <1>10 DEF vars, Arrive, BaseCall, Stop
<1>. QED
  BY <1>2, <1>3, <1>4, <1>5, <1>6, <1>7, <1>8, <1>9, <1>10 DEF Next, Step

LEMMA OwnershipInvariant ==
    ASSUME Copies = {}
    PROVE  Spec => []Ownership
<1>1. Init => Ownership
  BY DEF Init, Ownership, HandleFaithful, SoleOwner, TableInjective, OriginKnown, Holds,
         Absent, Object, NoSock
<1>2. TypeOK /\ Ownership /\ [Next]_vars => Ownership'
  BY OwnershipStep
<1>. QED
  BY <1>1, <1>2, TypeCorrect, PTL DEF Spec

(* Without copies the number an object holds reaches the kernel socket it   *)
(* was built around until its close(), however threads interleave.          *)
THEOREM CallsReachThisSocket ==
    ASSUME Copies = {}
    PROVE  Spec => []HandleFaithful
<1>1. Ownership => HandleFaithful
  BY DEF Ownership
<1>. QED
  BY <1>1, OwnershipInvariant, PTL

(* Without copies no two objects hold one number: no destructor shuts down  *)
(* or closes a socket that is in use elsewhere.                             *)
THEOREM OneOwner ==
    ASSUME Copies = {}
    PROVE  Spec => []SoleOwner
<1>1. Ownership => SoleOwner
  BY DEF Ownership
<1>. QED
  BY <1>1, OwnershipInvariant, PTL
-----------------------------------------------------------------------------
(* The destructor's order of calls and the listening server.                *)

(* An object between shutdown() and close() has its own socket shut down;   *)
(* nobody else can forget that socket.                                      *)
LEMMA InformedStep ==
    ASSUME Copies = {}, TypeOK, Ownership, Informed, [Next]_vars
    PROVE  Informed'
<1> SUFFICES ASSUME NEW q \in Objects, In(q, "shutdown")', obj'[q].handle \in Fd
             PROVE  obj'[q].origin \in shut'
  BY DEF Informed
<1>1. ASSUME obj'[q] = obj[q], shut \subseteq shut' PROVE obj'[q].origin \in shut'
  BY <1>1 DEF Informed, In
<1>2. ASSUME NEW o \in Objects, NEW k \in Kinds, OpenSocket(o, k)
      PROVE  obj'[q].origin \in shut'
  <2>1. FirstCall(k) # "shutdown"
    BY HandlesAssumption DEF FirstCall, Classes
  <2>2. \E h, s : obj' = [obj EXCEPT ![o] = Object(FirstCall(k), k, h, s)]
    BY <1>2 DEF OpenSocket
  <2>3. q # o => obj'[q] = obj[q]
    BY <2>2 DEF TypeOK
  <2>4. q # o
    BY <2>1, <2>2 DEF Object, In, TypeOK
  <2>. QED
    BY <1>1, <1>2, <2>3, <2>4 DEF OpenSocket
<1>3. ASSUME NEW o \in Objects, NEW p, SetPhase(o, p), p # "shutdown", shut' = shut
      PROVE  obj'[q].origin \in shut'
  BY <1>1, <1>3 DEF SetPhase, In, TypeOK
<1>4. ASSUME NEW o \in Objects, CtorCall(o) PROVE obj'[q].origin \in shut'
  <2>1. AfterCall(o) # "shutdown"
    BY DEF AfterCall
  <2>. QED
    BY <1>3, <1>4, <2>1 DEF CtorCall, Throws
<1>5. ASSUME NEW o \in Objects, NEW p \in Objects,
             AcceptCall(o, p) \/ AcceptEnter(o) \/ AcceptErrs(o)
      PROVE  obj'[q].origin \in shut'
  BY <1>1, <1>3, <1>5 DEF AcceptCall, AcceptEnter, AcceptErrs
<1>6. ASSUME NEW o \in Objects, AcceptReturn(o) PROVE obj'[q].origin \in shut'
  <2>1. CASE \E f \in Fd : Built(o, f)
    BY <1>1, <1>6, <2>1 DEF AcceptReturn, Built, Object, In, TypeOK
  <2>2. CASE SetPhase(o, "absent")
    BY <1>3, <1>6, <2>2 DEF AcceptReturn
  <2>. QED
    BY <1>6, <2>1, <2>2 DEF AcceptReturn
<1>7. ASSUME NEW o \in Objects, Destroy(o) PROVE obj'[q].origin \in shut'
  BY <1>3, <1>7 DEF Destroy
<1>8. ASSUME NEW o \in Objects, DtorShutdown(o) PROVE obj'[q].origin \in shut'
  <2>1. CASE q = o
    <3>1. obj'[q].handle = obj[q].handle /\ obj'[q].origin = obj[q].origin /\ Holds(q)
      BY <1>8, <2>1 DEF DtorShutdown, SetPhase, Holds, In, TypeOK
    <3>2. Reaches(q) = obj[q].origin /\ obj[q].origin \in Sock
      BY <3>1, ReachesType DEF Ownership, HandleFaithful, OriginKnown, TypeOK
    <3>. QED
      BY <1>8, <2>1, <3>1, <3>2 DEF DtorShutdown, Shutdown
  <2>2. CASE q # o
    BY <1>1, <1>8, <2>2 DEF DtorShutdown, Shutdown, SetPhase, TypeOK
  <2>. QED
    BY <2>1, <2>2
<1>9. ASSUME NEW o \in Objects, DtorClose(o) PROVE obj'[q].origin \in shut'
  <2>1. q # o /\ obj'[q] = obj[q]
    BY <1>9 DEF DtorClose, Absent, Object, In, TypeOK
  <2>2. /\ Holds(o) /\ Holds(q) /\ obj[q].handle \in Fd
        /\ obj[q].origin \in shut
    BY <1>9, <2>1 DEF DtorClose, Informed, Holds, In
  <2>3. obj[q].origin # NoSock /\ Reaches(o) = obj[o].origin
    BY <2>2 DEF Ownership, HandleFaithful, OriginKnown
  <2>4. obj[q].origin # Reaches(o)
    BY <2>1, <2>2, <2>3, DistinctSockets
  <2>. QED
    BY <1>9, <2>1, <2>2, <2>4 DEF DtorClose
<1>10. ASSUME NEW o \in Objects, NEW a \in Actions, Stop(o, a) PROVE obj'[q].origin \in shut'
  BY <1>1, <1>10 DEF Stop, Shutdown
<1>11. ASSUME NEW o \in Objects, NEW p \in Objects PROVE ~CopyConstruct(o, p) /\ ~CopyAssign(o, p)
  BY DEF CopyConstruct, CopyAssign
<1>12. CASE \/ UNCHANGED vars
            \/ \E s \in Sock : Arrive(s)
            \/ \E o \in Objects, call \in CtorCalls : BaseCall(o, call)
  BY <1>1, <1>12 DEF vars, Arrive, BaseCall
<1>. QED
  BY <1>2, <1>4, <1>5, <1>6, <1>7, <1>8, <1>9, <1>10, <1>11, <1>12 DEF Next, Step

(* Without copies no descriptor is closed before its socket was shut down,  *)
(* so the peer hears of the end before the number can be reused.            *)
THEOREM PeersHearBeforeReuse ==
    ASSUME Copies = {}
    PROVE  Spec => ShutdownBeforeClose
<1>1. Init => Informed
  BY DEF Init, Informed, In, Absent, Object
<1>2. TypeOK /\ Ownership /\ Informed /\ [Next]_vars => Informed'
  BY InformedStep
<1>3. TypeOK /\ Ownership /\ Informed /\ [Next]_vars
        => [\A f \in Fd : table[f] # NoSock /\ table'[f] = NoSock => table[f] \in shut]_vars
  <2> SUFFICES ASSUME TypeOK, Ownership, Informed, Next,
                      NEW f \in Fd, table[f] # NoSock, table'[f] = NoSock
               PROVE  table[f] \in shut
    BY DEF vars
  <2>1. ASSUME NEW s, NEW m, NewSock(s, m) PROVE FALSE
    BY <2>1 DEF NewSock, Free, NoSock, TypeOK
  <2>2. ASSUME UNCHANGED table PROVE FALSE
    BY <2>2
  <2>3. ASSUME NEW o \in Objects, DtorClose(o) PROVE table[f] \in shut
    <3>1. f = obj[o].handle
      BY <2>3 DEF DtorClose, TypeOK
    <3>2. table[f] = obj[o].origin /\ obj[o].origin \in shut
      BY <2>3, <3>1 DEF DtorClose, Ownership, HandleFaithful, Reaches, Informed, Holds, In
    <3>. QED
      BY <3>2
  <2>4. \/ \E o \in Objects : DtorClose(o)
        \/ UNCHANGED table
        \/ \E s, m : NewSock(s, m)
    BY DEF Next, Step, Arrive, OpenSocket, CtorCall, Throws, BaseCall, CopyConstruct, CopyAssign,
           AcceptCall, AcceptEnter, AcceptErrs, AcceptReturn, Stop, Destroy, DtorShutdown
  <2>. QED
    BY <2>1, <2>2, <2>3, <2>4
<1>. QED
  BY <1>1, <1>2, <1>3, TypeCorrect, OwnershipInvariant, PTL DEF Spec, ShutdownBeforeClose

(* A server in service keeps listening, or somebody stopped it: no other    *)
(* thread's constructor, accept, stop or destructor takes its socket out of *)
(* the listening state.                                                     *)
LEMMA ServingStep ==
    ASSUME Copies = {}, TypeOK, Ownership, Serving, [Next]_vars
    PROVE  Serving'
<1> DEFINE Ok(q) == /\ obj[q].phase \in {"bind_to", "be_listening", "live", "doomed", "shutdown"}
                    /\ In(q, "live") => obj[q].origin \in Sock
                    /\ In(q, "live") => \/ mode[obj[q].origin] = "listening"
                                        \/ obj[q].origin \in stopped
<1> SUFFICES ASSUME NEW q \in Objects, obj'[q].kind = "tcp_server" PROVE Ok(q)'
  BY DEF Serving
<1>1. obj[q].kind = "tcp_server" => Ok(q) /\ Holds(q)
  BY DEF Serving, Holds
(* The object stays, and its socket still listens or is recorded.           *)
<1>2. ASSUME obj'[q] = obj[q], stopped \subseteq stopped',
             \A s \in Sock : mode[s] = "listening" => mode'[s] = "listening" \/ s \in stopped'
      PROVE  Ok(q)'
  BY <1>1, <1>2 DEF In
(* The object leaves service or is not yet in it.                           *)
<1>3. ASSUME obj'[q].phase \in {"bind_to", "be_listening", "doomed", "shutdown"} PROVE Ok(q)'
  BY <1>3 DEF In
<1>4. ASSUME NEW f, NEW m, NewSock(f, m), m # "listening", stopped' = stopped, obj'[q] = obj[q]
      PROVE  Ok(q)'
  <2>1. obj[q].origin <= made /\ made \in Nat
    BY <1>1, <1>4 DEF Ownership, OriginKnown, TypeOK
  <2>2. \A s \in Sock : s # made + 1 => mode'[s] = mode[s]
    BY <1>4 DEF NewSock, TypeOK
  <2>3. obj[q].origin # made + 1
    BY <2>1 DEF TypeOK, Sock, NoSock
  <2>. QED
    BY <1>1, <1>4, <2>2, <2>3 DEF In
<1>5. ASSUME NEW o \in Objects, NEW k \in Kinds, OpenSocket(o, k) PROVE Ok(q)'
  <2>1. CASE q = o
    <3>1. obj'[q].kind = k /\ obj'[q].phase = FirstCall(k)
      BY <1>5, <2>1 DEF OpenSocket, Object, TypeOK
    <3>2. FirstCall("tcp_server") = "bind_to"
      BY DEF FirstCall
    <3>. QED
      BY <1>3, <3>1, <3>2
  <2>2. CASE q # o
    <3>1. obj'[q] = obj[q] /\ stopped' = stopped /\ SockType(k) # "listening"
      BY <1>5, <2>2 DEF OpenSocket, TypeOK, SockType
    <3>2. CASE UNCHANGED mode
      BY <1>2, <3>1, <3>2
    <3>3. CASE \E f \in Fd : NewSock(f, SockType(k))
      BY <1>4, <3>1, <3>3
    <3>. QED
      BY <1>5, <3>2, <3>3 DEF OpenSocket
  <2>. QED
    BY <2>1, <2>2
<1>6. ASSUME NEW s, NEW call, s \in Sock, Established(call, s)
      PROVE  \A x \in Sock : mode[x] = "listening" => mode'[x] = "listening"
  BY <1>6 DEF Established, TypeOK
<1>7. ASSUME NEW o \in Objects, CtorCall(o) PROVE Ok(q)'
  <2>1. stopped' = stopped
    BY <1>7 DEF CtorCall
  <2>2. CASE q # o
    <3>1. obj'[q] = obj[q]
      BY <1>7, <2>2 DEF CtorCall, Throws, SetPhase, TypeOK
    <3>2. \A x \in Sock : mode[x] = "listening" => mode'[x] = "listening"
      BY <1>6, <1>7, ReachesType DEF CtorCall
    <3>. QED
      BY <1>2, <2>1, <3>1, <3>2
  <2>3. CASE q = o /\ SetPhase(o, "doomed")
    BY <1>3, <2>3 DEF SetPhase, TypeOK
  <2>4. CASE /\ q = o /\ Reaches(o) # NoSock /\ Established(obj[o].phase, Reaches(o))
             /\ SetPhase(o, AfterCall(o))
    <3>1. /\ obj[q].kind = "tcp_server" /\ obj'[q].phase = AfterCall(o)
          /\ obj'[q].origin = obj[q].origin
      BY <2>4 DEF SetPhase, TypeOK
    <3>2. CASE In(o, "bind_to")
      BY <1>3, <2>4, <3>1, <3>2 DEF AfterCall
    <3>3. CASE In(o, "be_listening")
      <4>1. obj[q].origin = Reaches(q) /\ Reaches(q) \in Sock
        BY <1>1, <2>4, <3>1, ReachesType DEF Ownership, HandleFaithful
      <4>2. mode'[Reaches(q)] = "listening"
        BY <2>4, <3>3, <4>1 DEF Established, In, TypeOK
      <4>3. obj'[q].phase = "live"
        BY <2>4, <3>1, <3>3 DEF AfterCall, In
      <4>. QED
        BY <3>1, <4>1, <4>2, <4>3 DEF In
    <3>. QED
      BY <1>1, <1>7, <2>4, <3>1, <3>2, <3>3 DEF CtorCall, CtorCalls, In
  <2>. QED
    BY <1>7, <2>2, <2>3, <2>4 DEF CtorCall, Throws
<1>8. ASSUME NEW o \in Objects, NEW call \in CtorCalls, BaseCall(o, call) PROVE Ok(q)'
  BY <1>2, <1>6, <1>8, ReachesType DEF BaseCall
<1>9. ASSUME NEW o \in Objects, NEW p \in Objects, AcceptCall(o, p) PROVE Ok(q)'
  <2>1. q # o
    BY <1>1, <1>9 DEF AcceptCall, SetPhase, Holds, In, TypeOK
  <2>. QED
    BY <1>2, <1>9, <2>1 DEF AcceptCall, SetPhase, TypeOK
<1>10. ASSUME NEW o \in Objects, AcceptEnter(o) \/ AcceptErrs(o) PROVE Ok(q)'
  <2>1. q # o
    BY <1>1, <1>10 DEF AcceptEnter, AcceptErrs, SetPhase, Holds, In, TypeOK
  <2>. QED
    BY <1>2, <1>10, <2>1 DEF AcceptEnter, AcceptErrs, SetPhase, TypeOK
<1>11. ASSUME NEW o \in Objects, AcceptReturn(o) PROVE Ok(q)'
  <2>1. q # o
    BY <1>1, <1>11 DEF AcceptReturn, SetPhase, Built, Object, Holds, In, TypeOK
  <2>2. obj'[q] = obj[q] /\ stopped' = stopped
    BY <1>11, <2>1 DEF AcceptReturn, SetPhase, Built, TypeOK
  <2>3. CASE \E f \in Fd : NewSock(f, "connected")
    BY <1>4, <2>2, <2>3
  <2>. QED
    BY <1>2, <1>11, <2>2, <2>3 DEF AcceptReturn
<1>12. ASSUME NEW o \in Objects, NEW a \in Actions, Stop(o, a) PROVE Ok(q)'
  <2>1. Reaches(o) \in Sock
    BY <1>12, ReachesType DEF Stop
  <2>2. "RD" \in How(a) => a # "WRITE"
    BY DEF How, Actions
  <2>3. \A s \in Sock : mode[s] = "listening" => mode'[s] = "listening" \/ s \in stopped'
    BY <1>12, <2>1, <2>2 DEF Stop, Shutdown, TypeOK
  <2>. QED
    BY <1>2, <1>12, <2>3 DEF Stop
<1>13. ASSUME NEW o \in Objects, Destroy(o) PROVE Ok(q)'
  <2>1. CASE q = o
    BY <1>3, <1>13, <2>1 DEF Destroy, SetPhase, TypeOK
  <2>2. CASE q # o
    BY <1>2, <1>13, <2>2 DEF Destroy, SetPhase, TypeOK
  <2>. QED
    BY <2>1, <2>2
<1>14. ASSUME NEW o \in Objects, q # o, Holds(o), obj[q].kind = "tcp_server", In(q, "live")
       PROVE  obj[q].origin # Reaches(o)
  <2>1. Holds(q) /\ obj[q].origin # NoSock /\ Reaches(o) = obj[o].origin
    BY <1>1, <1>14 DEF Ownership, HandleFaithful, Sock, NoSock
  <2>. QED
    BY <1>14, <2>1, DistinctSockets
<1>15. ASSUME NEW o \in Objects, DtorShutdown(o) PROVE Ok(q)'
  <2>1. CASE q = o
    BY <1>3, <1>15, <2>1 DEF DtorShutdown, SetPhase, TypeOK
  <2>2. CASE q # o
    <3>1. obj'[q] = obj[q] /\ stopped' = stopped /\ Holds(o)
      BY <1>15, <2>2 DEF DtorShutdown, SetPhase, Holds, In, TypeOK
    <3>2. \A s \in Sock : s # Reaches(o) => mode'[s] = mode[s]
      BY <1>15 DEF DtorShutdown, Shutdown, TypeOK
    <3>. QED
      BY <1>1, <1>14, <2>2, <3>1, <3>2 DEF In
  <2>. QED
    BY <2>1, <2>2
<1>16. ASSUME NEW o \in Objects, DtorClose(o) PROVE Ok(q)'
  <2>1. q # o /\ obj'[q] = obj[q] /\ Holds(o)
    BY <1>16 DEF DtorClose, Absent, Object, Holds, In, TypeOK
  <2>2. \A s \in Sock : s # Reaches(o) => mode'[s] = mode[s] /\ (s \in stopped => s \in stopped')
    BY <1>16 DEF DtorClose
  <2>. QED
    BY <1>1, <1>14, <2>1, <2>2 DEF In
<1>17. ASSUME NEW o \in Objects, NEW p \in Objects PROVE ~CopyConstruct(o, p) /\ ~CopyAssign(o, p)
  BY DEF CopyConstruct, CopyAssign
<1>18. CASE UNCHANGED vars \/ \E s \in Sock : Arrive(s)
  BY <1>2, <1>18 DEF vars, Arrive
<1>. QED
  BY <1>5, <1>7, <1>8, <1>9, <1>10, <1>11, <1>12, <1>13, <1>15, <1>16, <1>17, <1>18
     DEF Next, Step

(* Without copies the assertion in accept_and_create_sockfd() ends the      *)
(* process only after a stop() of the receiving side of that same server.   *)
THEOREM AssertionIsTheCallersDoing ==
    ASSUME Copies = {}
    PROVE  Spec => []AbortOnlyAfterStop
<1>1. Init => Serving /\ AbortOnlyAfterStop
  BY DEF Init, Serving, AbortOnlyAfterStop, Absent, Object
<1>2. TypeOK /\ Ownership /\ Serving /\ [Next]_vars => Serving'
  BY ServingStep
<1>3. TypeOK /\ Ownership /\ Serving /\ AbortOnlyAfterStop /\ [Next]_vars => AbortOnlyAfterStop'
  <2> SUFFICES ASSUME TypeOK, Ownership, Serving, AbortOnlyAfterStop, [Next]_vars
               PROVE  AbortOnlyAfterStop'
    OBVIOUS
  <2>1. CASE UNCHANGED vars
    BY <2>1 DEF vars, AbortOnlyAfterStop
  <2>2. ASSUME NEW o \in Objects, NEW p \in Objects, AcceptCall(o, p), aborted = {}
        PROVE  AbortOnlyAfterStop'
    <3>1. CASE UNCHANGED aborted
      BY <2>2, <3>1 DEF AbortOnlyAfterStop
    <3>2. CASE ~IsListening(Reaches(p)) /\ aborted' = aborted \cup {p} /\ UNCHANGED <<obj, via>>
      <4>1. In(p, "live") /\ Holds(p) /\ stopped' = stopped
        BY <2>2 DEF AcceptCall, Holds, In
      <4>2. obj[p].kind = "tcp_server" => obj[p].origin \in stopped
        BY <3>2, <4>1 DEF Serving, Ownership, HandleFaithful, IsListening
      <4>. QED
        BY <2>2, <3>2, <4>1, <4>2 DEF AbortOnlyAfterStop
    <3>. QED
      BY <2>2, <3>1, <3>2 DEF AcceptCall
  <2>3. ASSUME aborted = {}, aborted' = aborted PROVE AbortOnlyAfterStop'
    BY <2>3 DEF AbortOnlyAfterStop
  <2>4. CASE Next
    <3>1. aborted = {}
      BY <2>4 DEF Next, Step, Arrive, OpenSocket, CtorCall, BaseCall, CopyConstruct, CopyAssign,
                  AcceptCall, AcceptEnter, AcceptErrs, AcceptReturn, Stop, Destroy,
                  DtorShutdown, DtorClose
    <3>2. aborted' = aborted \/ \E o, p \in Objects : AcceptCall(o, p)
      BY <2>4 DEF Next, Step, Arrive, OpenSocket, CtorCall, BaseCall, CopyConstruct, CopyAssign,
                  AcceptEnter, AcceptErrs, AcceptReturn, Stop, Destroy, DtorShutdown, DtorClose
    <3>. QED
      BY <2>2, <2>3, <3>1, <3>2
  <2>. QED
    BY <2>1, <2>4
<1>. QED
  BY <1>1, <1>2, <1>3, TypeCorrect, OwnershipInvariant, PTL DEF Spec
-----------------------------------------------------------------------------
(* SocketHandles implements SocketLife.                                     *)

(* Only sockets that were made have been shut down.                         *)
ShutKnown == \A s \in shut : s <= made

LifeInv == TypeOK /\ Ownership /\ Informed /\ ShutKnown

LEMMA ShutKnownStep ==
    ASSUME TypeOK, Ownership, ShutKnown, [Next]_vars
    PROVE  ShutKnown'
<1>1. made \in Nat /\ made' \in Nat /\ made <= made'
  BY DEF TypeOK, Next, Step, vars, Arrive, OpenSocket, NewSock, CtorCall, BaseCall, CopyConstruct,
         CopyAssign, AcceptCall, AcceptEnter, AcceptErrs, AcceptReturn, Stop, Destroy, DtorShutdown, DtorClose
<1>2. ASSUME shut' \subseteq shut PROVE ShutKnown'
  BY <1>1, <1>2 DEF ShutKnown, TypeOK, Sock
<1>3. ASSUME NEW o \in Objects, NEW how, Shutdown(Reaches(o), how), made' = made PROVE ShutKnown'
  <2>1. Reaches(o) # NoSock => Reaches(o) <= made
    BY ReachesType DEF Ownership, TableInjective
  <2>. QED
    BY <1>3, <2>1 DEF Shutdown, ShutKnown, Sock, NoSock
<1>4. \/ shut' \subseteq shut
      \/ \E o \in Objects : \E how : Shutdown(Reaches(o), how) /\ made' = made
  BY DEF Next, Step, vars, Arrive, OpenSocket, CtorCall, BaseCall, CopyConstruct, CopyAssign,
         AcceptCall, AcceptEnter, AcceptErrs, AcceptReturn, Stop, Destroy, DtorShutdown, DtorClose
<1>. QED
  BY <1>2, <1>3, <1>4

SameOwners == \A q \in Objects : (Holds(q)' <=> Holds(q)) /\ obj'[q].origin = obj[q].origin

LEMMA LifeStutters ==
    ASSUME SameOwners, UNCHANGED <<table, made, shut>>
    PROVE  UNCHANGED Life!vars
  BY DEF SameOwners, Life!vars, Owned, LifeOf

LEMMA OwnedIsFunction ==
    /\ Owned = [q \in Objects |-> Owned[q]] /\ DOMAIN Owned = Objects
    /\ Owned' = [q \in Objects |-> Owned'[q]]
  BY DEF Owned

LEMMA LifeAcquires ==
    ASSUME LifeInv, NEW o \in Objects, NEW f \in Fd, NEW m, NEW p, NEW k,
           ~Holds(o), p \notin {"absent", "accepting"}, shut' = shut,
           NewSock(f, m), obj' = [obj EXCEPT ![o] = Object(p, k, f, made + 1)]
    PROVE  Life!Next
<1>1. PICK n \in Sock : n = made + 1
  BY HandlesAssumption DEF LifeInv, TypeOK, NewSock, Sock
<1>2. /\ made \in Nat /\ n \in Nat /\ made' = n
      /\ \A g \in Fd : table[g] \in Nat /\ table[g] <= made
      /\ \A s \in shut : s <= made
  BY <1>1 DEF LifeInv, TypeOK, NewSock, Sock, NoSock, Ownership, TableInjective, ShutKnown
<1>3. table[f] = NoSock /\ table' = [table EXCEPT ![f] = n] /\ table \in [Fd -> Sock \cup {NoSock}]
  BY <1>1 DEF LifeInv, TypeOK, NewSock, Free
<1>4. Owned[o] = NoSock /\ Owned' = [Owned EXCEPT ![o] = n]
  <2>1. \A q \in Objects : q # o => obj'[q] = obj[q]
    BY DEF LifeInv, TypeOK
  <2>2. obj'[o].origin = n /\ obj'[o].phase = p
    BY <1>1 DEF LifeInv, TypeOK, Object
  <2>3. Owned[o] = NoSock /\ Owned'[o] = n
    BY <2>2 DEF Owned, Holds
  <2>4. \A q \in Objects : q # o => Owned'[q] = Owned[q]
    BY <2>1 DEF Owned, Holds
  <2>. QED
    BY <2>3, <2>4, OwnedIsFunction
<1>5. LifeOf(n) = "new"
  BY <1>1, <1>2 DEF LifeOf
<1>6. LifeOf(n)' = "open"
  <2>1. ~(n > made') /\ n \notin shut'
    BY <1>1, <1>2
  <2>2. table'[f] = n
    BY <1>3
  <2>. QED
    BY <2>1, <2>2 DEF LifeOf
<1>7. ASSUME NEW s \in Sock, s # n PROVE LifeOf(s)' = LifeOf(s)
  <2>1. s \in Nat /\ s # NoSock
    BY DEF Sock, NoSock
  <2>2. (s > made' <=> s > made) /\ (s <= made' <=> s <= made)
    BY <1>1, <1>2, <1>7, <2>1
  <2>3. (\A g \in Fd : table'[g] # s) <=> (\A g \in Fd : table[g] # s)
    BY <1>3, <1>7, <2>1
  <2>. QED
    BY <2>2, <2>3 DEF LifeOf
<1>8. Life!Acquire(o, n)
  BY <1>4, <1>5, <1>6, <1>7 DEF Life!Acquire, Life!Becomes
<1>. QED
  BY <1>8 DEF Life!Next

(* shutdown() of an object's own socket.                                    *)
LEMMA LifeInforms ==
    ASSUME LifeInv, NEW o \in Objects, Holds(o), NEW how, Shutdown(Reaches(o), how),
           SameOwners, UNCHANGED <<table, made>>
    PROVE  Life!Next \/ UNCHANGED Life!vars
<1>1. CASE shut' = shut
  BY <1>1, LifeStutters
<1>2. CASE shut' # shut
  <2>0. PICK s \in Sock : s = Reaches(o)
    BY <1>2 DEF Shutdown
  <2>1. shut' = shut \cup {s} /\ s \notin shut
    BY <1>2, <2>0 DEF Shutdown
  <2>2. obj[o].handle \in Fd /\ s = table[obj[o].handle] /\ s = obj[o].origin
    BY <2>0, ReachesType DEF LifeInv, Ownership, HandleFaithful, Sock, NoSock
  <2>3. s \in Nat /\ made \in Nat /\ s <= made /\ made' = made /\ table' = table
    <3>1. s \in Nat /\ made \in Nat
      BY <2>0 DEF LifeInv, TypeOK, Sock
    <3>2. \A f \in Fd : table[f] <= made
      BY DEF LifeInv, Ownership, TableInjective
    <3>. QED
      BY <2>2, <3>1, <3>2
  <2>4. LifeOf(s) = "open" /\ LifeOf(s)' = "informed"
    <3>0. \E f \in Fd : table[f] = s
      BY <2>2
    <3>1. ~(s > made) /\ ~(\A f \in Fd : table[f] # s)
      BY <2>3, <3>0
    <3>2. LifeOf(s) = "open"
      BY <2>1, <3>1 DEF LifeOf
    <3>3. ~(s > made') /\ ~(\A f \in Fd : table'[f] # s) /\ s \in shut'
      BY <2>1, <2>3, <3>1
    <3>. QED
      BY <3>2, <3>3 DEF LifeOf
  <2>5. ASSUME NEW x \in Sock, x # s PROVE LifeOf(x)' = LifeOf(x)
    BY <2>1, <2>5 DEF LifeOf
  <2>6. Owned[o] = s /\ Owned' = Owned
    BY <2>2 DEF Owned, SameOwners
  <2>7. Life!Inform(o, s)
    BY <2>4, <2>5, <2>6 DEF Life!Inform, Life!Becomes
  <2>. QED
    BY <2>7 DEF Life!Next
<1>. QED
  BY <1>1, <1>2

(* close(): of the object's own socket, or of nothing.                      *)
LEMMA LifeReleases ==
    ASSUME LifeInv, NEW o \in Objects, DtorClose(o)
    PROVE  Life!Next \/ UNCHANGED Life!vars
<1>0. PICK s \in Sock \cup {NoSock} : s = Reaches(o)
  BY ReachesType DEF LifeInv
<1>1. /\ In(o, "shutdown") /\ Holds(o) /\ s = obj[o].origin /\ made' = made
      /\ \A q \in Objects : q # o => obj'[q] = obj[q]
      /\ ~Holds(o)'
  BY <1>0 DEF DtorClose, LifeInv, Ownership, HandleFaithful, Holds, In, TypeOK, Absent, Object
<1>2. \A g \in Fd : table'[g] = IF g = obj[o].handle THEN NoSock ELSE table[g]
  BY DEF DtorClose
<1>3. Owned' = [Owned EXCEPT ![o] = NoSock] /\ Owned[o] = s
  BY <1>1 DEF Owned, Holds
<1>4. ASSUME NEW x \in Sock, x # s PROVE LifeOf(x)' = LifeOf(x)
  <2>1. x # NoSock /\ (x \in shut' <=> x \in shut)
    BY <1>0, <1>4 DEF DtorClose, Sock, NoSock
  <2>2. \A g \in Fd : g = obj[o].handle => table[g] = s
    BY <1>0 DEF Reaches
  <2>3. (\A g \in Fd : table'[g] # x) <=> (\A g \in Fd : table[g] # x)
    BY <1>2, <1>4, <2>1, <2>2
  <2>. QED
    BY <1>1, <2>1, <2>3 DEF LifeOf
<1>5. CASE s = NoSock
  <2>1. \A x \in Sock : x # s
    BY <1>5 DEF Sock, NoSock
  <2>2. Owned' = Owned
    BY <1>3, <1>5 DEF Owned
  <2>. QED
    BY <1>4, <2>1, <2>2 DEF Life!vars
<1>6. CASE s # NoSock
  <2>1. obj[o].handle \in Fd /\ s = table[obj[o].handle] /\ s \in Sock
    BY <1>0, <1>6, ReachesType DEF LifeInv
  <2>2. s \in shut
    BY <1>1, <2>1 DEF LifeInv, Informed
  <2>3. s \in Nat /\ made \in Nat /\ s <= made /\ made' = made
    BY <1>1, <2>1 DEF LifeInv, TypeOK, Ownership, TableInjective, Sock
  <2>4. LifeOf(s) = "informed"
    BY <2>1, <2>2, <2>3 DEF LifeOf
  <2>5. LifeOf(s)' = "closed"
    <3>1. \A g \in Fd : table'[g] # s
      BY <1>2, <1>6, <2>1 DEF LifeInv, Ownership, TableInjective, NoSock
    <3>. QED
      BY <2>3, <3>1 DEF LifeOf
  <2>6. Life!Release(o, s)
    BY <1>3, <1>4, <2>1, <2>4, <2>5 DEF Life!Release, Life!Becomes
  <2>. QED
    BY <2>1, <2>6 DEF Life!Next
<1>. QED
  BY <1>5, <1>6

(* Every step of SocketHandles is a step of SocketLife or none.             *)
LEMMA LifeStep ==
    ASSUME Copies = {}, LifeInv, [Next]_vars
    PROVE  Life!Next \/ UNCHANGED Life!vars
<1>1. TypeOK
  BY DEF LifeInv
<1>2. ASSUME NEW o \in Objects, NEW p, SetPhase(o, p), UNCHANGED <<table, made, shut>>,
             Holds(o) <=> p \notin {"absent", "accepting"}
      PROVE  UNCHANGED Life!vars
  <2>1. SameOwners
    BY <1>1, <1>2 DEF SameOwners, SetPhase, Holds, TypeOK
  <2>. QED
    BY <1>2, <2>1, LifeStutters
<1>3. ASSUME NEW o \in Objects, NEW k \in Kinds, OpenSocket(o, k)
      PROVE  Life!Next \/ UNCHANGED Life!vars
  <2>1. ~Holds(o) /\ shut' = shut
    BY <1>3 DEF OpenSocket, Holds, In
  <2>2. FirstCall(k) \notin {"absent", "accepting"}
    BY HandlesAssumption DEF FirstCall, Classes
  <2>3. CASE \E f \in Fd :
                 /\ NewSock(f, SockType(k))
                 /\ obj' = [obj EXCEPT ![o] = Object(FirstCall(k), k, f, made + 1)]
    BY <2>1, <2>2, <2>3, LifeAcquires
  <2>4. CASE /\ obj' = [obj EXCEPT ![o] = Object(FirstCall(k), k, BadFd, NoSock)]
             /\ UNCHANGED <<table, made, mode>>
    <3>1. /\ \A q \in Objects : q # o => obj'[q] = obj[q]
          /\ obj'[o].origin = NoSock
      BY <1>1, <2>4 DEF Object, TypeOK
    <3>2. Owned' = Owned
      BY <2>1, <3>1 DEF Owned, Holds
    <3>. QED
      BY <2>1, <2>4, <3>2 DEF Life!vars, LifeOf
  <2>. QED
    BY <1>3, <2>3, <2>4 DEF OpenSocket
<1>4. ASSUME NEW o \in Objects, CtorCall(o) PROVE UNCHANGED Life!vars
  <2>1. /\ UNCHANGED <<table, made, shut>>
        /\ \E q \in {AfterCall(o), "doomed"} : SetPhase(o, q)
        /\ Holds(o)
    BY <1>4 DEF CtorCall, Throws, CtorCalls, Holds
  <2>2. AfterCall(o) \notin {"absent", "accepting"}
    BY DEF AfterCall
  <2>. QED
    BY <1>2, <2>1, <2>2
<1>5. ASSUME UNCHANGED <<obj, table, made, shut>> PROVE UNCHANGED Life!vars
  BY <1>5, LifeStutters DEF SameOwners, Holds
<1>6. ASSUME NEW o \in Objects, NEW p \in Objects, AcceptCall(o, p) PROVE UNCHANGED Life!vars
  BY <1>2, <1>5, <1>6 DEF AcceptCall, Holds, In
<1>7. ASSUME NEW o \in Objects, AcceptEnter(o) \/ AcceptErrs(o) PROVE UNCHANGED Life!vars
  BY <1>2, <1>5, <1>7 DEF AcceptEnter, AcceptErrs, Holds, In
<1>8. ASSUME NEW o \in Objects, AcceptReturn(o) PROVE Life!Next \/ UNCHANGED Life!vars
  <2>1. ~Holds(o) /\ shut' = shut
    BY <1>8 DEF AcceptReturn, Holds, In
  <2>2. CASE \E f \in Fd : NewSock(f, "connected") /\ Built(o, f)
    <3>1. PICK f \in Fd : NewSock(f, "connected") /\ Built(o, f)
      BY <2>2
    <3>2. obj' = [obj EXCEPT ![o] = Object("live", "tcp_active", f, made + 1)]
      BY <3>1 DEF Built
    <3>3. "live" \notin {"absent", "accepting"}
      OBVIOUS
    <3>. QED
      BY <2>1, <3>1, <3>2, <3>3, LifeAcquires
  <2>3. CASE SetPhase(o, "absent") /\ UNCHANGED <<table, made, mode, pending>>
    BY <1>2, <2>1, <2>3
  <2>. QED
    BY <1>8, <2>2, <2>3 DEF AcceptReturn
<1>9. ASSUME NEW o \in Objects, Destroy(o) PROVE UNCHANGED Life!vars
  BY <1>2, <1>9 DEF Destroy, Holds, In
<1>10. ASSUME NEW o \in Objects, NEW a \in Actions, Stop(o, a)
       PROVE  Life!Next \/ UNCHANGED Life!vars
  <2>1. Holds(o) /\ SameOwners
    BY <1>10 DEF Stop, Holds, In, SameOwners
  <2>. QED
    BY <1>10, <2>1, LifeInforms DEF Stop
<1>11. ASSUME NEW o \in Objects, DtorShutdown(o) PROVE Life!Next \/ UNCHANGED Life!vars
  <2>1. Holds(o) /\ SameOwners
    BY <1>1, <1>11 DEF DtorShutdown, SetPhase, Holds, In, SameOwners, TypeOK
  <2>. QED
    BY <1>11, <2>1, LifeInforms DEF DtorShutdown
<1>12. ASSUME NEW o \in Objects, NEW p \in Objects PROVE ~CopyConstruct(o, p) /\ ~CopyAssign(o, p)
  BY DEF CopyConstruct, CopyAssign
<1>13. CASE \/ UNCHANGED vars
            \/ \E s \in Sock : Arrive(s)
            \/ \E o \in Objects, call \in CtorCalls : BaseCall(o, call)
  BY <1>5, <1>13 DEF vars, Arrive, BaseCall
<1>. QED
  BY <1>3, <1>4, <1>6, <1>7, <1>8, <1>9, <1>10, <1>11, <1>12, <1>13, LifeReleases DEF Next, Step

(* Without copies an object is its socket, whatever fails, throws or        *)
(* interleaves: SocketHandles implements SocketLife.                        *)
THEOREM ObjectsAreSockets ==
    ASSUME Copies = {}
    PROVE  Spec => ImplementsLife
<1>1. Init => Informed /\ ShutKnown
  BY DEF Init, Informed, ShutKnown, In, Absent, Object
<1>2. TypeOK /\ Ownership /\ Informed /\ [Next]_vars => Informed'
  BY InformedStep
<1>3. TypeOK /\ Ownership /\ ShutKnown /\ [Next]_vars => ShutKnown'
  BY ShutKnownStep
<1>4. Init => Life!Init
  BY HandlesAssumption DEF Init, Life!Init, Owned, LifeOf, Holds, Absent, Object, Sock
<1>5. TypeOK /\ Ownership /\ Informed /\ ShutKnown /\ [Next]_vars => [Life!Next]_(Life!vars)
  BY LifeStep DEF LifeInv
<1>. QED
  BY <1>1, <1>2, <1>3, <1>4, <1>5, TypeCorrect, OwnershipInvariant, PTL
     DEF Spec, ImplementsLife, Life!Spec
=============================================================================
