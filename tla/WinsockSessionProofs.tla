------------------------- MODULE WinsockSessionProofs -------------------------
(***************************************************************************)
(* Handles and objects on Windows, for every number of them, of sockets    *)
(* and of calls of startup() and cleanup().                                *)
(***************************************************************************)
EXTENDS WinsockSession, TLAPS

ObjectSet == [phase  : Phases,
              kind   : Classes \cup {"none", "tcp_active"},
              handle : Handles \cup {InvalidSocket},
              origin : Sock \cup {NoSock}]

(* An object was built around a socket exactly when it holds a handle; the *)
(* sockets were made before, and each for one object.                      *)
HandleKnown(o) ==
    /\ obj[o].origin # NoSock <=> Holds(o) /\ obj[o].handle \in Handles
    /\ obj[o].origin <= made

OriginsUnique ==
    \A o, p \in Objects : o # p /\ obj[o].origin = obj[p].origin => obj[o].origin = NoSock

(* Winsock is down: no handle reaches anything.                            *)
DownMeansNone == dll = 0 => \A h \in Handles : table[h] = NoSock

(* While it is up, objects of this session own what they were built around.*)
Owned ==
    ~restarted /\ dll > 0 =>
        \A o \in Objects : obj[o].origin # NoSock => table[obj[o].handle] = obj[o].origin

Ownership == /\ \A o \in Objects : HandleKnown(o)
             /\ OriginsUnique /\ DownMeansNone /\ Owned /\ NoLeak

-----------------------------------------------------------------------------
(* What a handle reaches, and what the next socket is.                     *)
LEMMA ReachesType ==
    ASSUME TypeOK, NEW o \in Objects
    PROVE  /\ Reaches(o) \in Sock \cup {NoSock}
           /\ Reaches(o) # NoSock => Reaches(o) \in Sock /\ obj[o].handle \in Handles
  BY DEF TypeOK, Reaches, Sock, NoSock

LEMMA NewSockType ==
    ASSUME TypeOK, NEW h, NEW m \in Modes, NewSock(h, m)
    PROVE  /\ h \in Handles /\ table[h] = NoSock /\ dll > 0
           /\ made + 1 \in Sock /\ made' = made + 1 /\ made' \in 0..MaxSocks
           /\ table' \in [Handles -> Sock \cup {NoSock}]
           /\ \A g \in Handles : table'[g] = IF g = h THEN made + 1 ELSE table[g]
           /\ mode' \in [Sock -> Modes]
           /\ \A s \in Sock : mode'[s] = IF s = made + 1 THEN m ELSE mode[s]
<1>1. dll > 0 /\ h \in Handles /\ table[h] = NoSock /\ made < MaxSocks
      /\ made' = made + 1 /\ table' = [table EXCEPT ![h] = made + 1]
      /\ mode' = [mode EXCEPT ![made + 1] = m]
  BY DEF NewSock, Free
<1>2. made + 1 \in Sock /\ made' \in 0..MaxSocks
  <2>1. made \in 0..MaxSocks
    BY DEF TypeOK
  <2> QED BY <1>1, <2>1, SessionAssumption DEF Sock
<1> QED BY <1>1, <1>2 DEF TypeOK

(* Types: every value stays in the range of its variable.                  *)
LEMMA TypeSteps == TypeOK /\ [Next]_vars => TypeOK'
<1> SUFFICES ASSUME TypeOK, [Next]_vars PROVE TypeOK'
  OBVIOUS
<1>1. CASE UNCHANGED vars
  BY <1>1 DEF TypeOK, vars, winsock, calls, sockets
<1>2. CASE Startup
  BY <1>2, SessionAssumption DEF Startup, TypeOK, calls, sockets
<1>3. CASE Cleanup
  BY <1>3, SessionAssumption DEF Cleanup, TypeOK, calls, Modes
<1>4. ASSUME NEW s \in Sock, Arrive(s) PROVE TypeOK'
  BY <1>4, SessionAssumption DEF Arrive, TypeOK, HasRoom, calls, winsock
<1>5. ASSUME NEW o \in Objects, Garbage(o) PROVE TypeOK'
  BY <1>5 DEF Garbage, TypeOK, calls, winsock, sockets
<1>6. ASSUME NEW o \in Objects, NEW k \in Kinds, OpenSocket(o, k) PROVE TypeOK'
  <2> DEFINE Built(h, s) == Object(FirstCall(k), k, h, s)
  <2>1. \A h \in Handles \cup {InvalidSocket}, s \in Sock \cup {NoSock} : Built(h, s) \in ObjectSet
    BY SessionAssumption DEF ObjectSet, Object, FirstCall, Classes, Phases, CtorCalls
  <2>2. "plain" \in Modes
    BY DEF Modes
  <2>3. CASE \E h \in Handles : NewSock(h, "plain") /\ obj' = [obj EXCEPT ![o] = Built(h, made + 1)]
    <3>1. PICK h \in Handles : NewSock(h, "plain") /\ obj' = [obj EXCEPT ![o] = Built(h, made + 1)]
      BY <2>3
    <3>2. CASE Garbage(o)
      BY <1>5, <3>2
    <3>3. CASE ~Garbage(o)
      BY <1>6, <2>1, <2>2, <3>1, <3>3, NewSockType
         DEF OpenSocket, TypeOK, ObjectSet, winsock, calls
    <3> QED BY <3>2, <3>3
  <2>4. CASE ~\E h \in Handles : NewSock(h, "plain") /\ obj' = [obj EXCEPT ![o] = Built(h, made + 1)]
    <3>1. CASE Garbage(o)
      BY <1>5, <3>1
    <3>2. CASE ~Garbage(o)
      <4>1. obj' = [obj EXCEPT ![o] = Built(InvalidSocket, NoSock)] /\ UNCHANGED <<table, made, mode>>
            /\ UNCHANGED <<build, winsock, calls, pending, aborted>>
        BY <1>6, <2>4, <3>2 DEF OpenSocket
      <4> QED BY <2>1, <4>1 DEF TypeOK, ObjectSet, winsock, calls
    <3> QED BY <3>1, <3>2
  <2> QED BY <2>3, <2>4
<1>7. ASSUME NEW call \in CtorCalls, NEW s \in Sock, Established(call, s)
      PROVE  mode' \in [Sock -> Modes]
  BY <1>7 DEF Established, TypeOK, Modes
<1>8. ASSUME NEW o \in Objects, NEW p \in Phases, SetPhase(o, p) PROVE obj' \in [Objects -> ObjectSet]
  BY <1>8 DEF SetPhase, TypeOK, ObjectSet
<1>9. ASSUME NEW o \in Objects, CtorCall(o) PROVE TypeOK'
  <2>1. mode' \in [Sock -> Modes]
    BY <1>9, <1>7, ReachesType DEF CtorCall, TypeOK
  <2>2. obj' \in [Objects -> ObjectSet]
    <3>1. AfterCall(o) \in Phases /\ "doomed" \in Phases
      BY DEF AfterCall, Phases, CtorCalls
    <3> QED BY <1>9, <1>8, <3>1 DEF CtorCall, Throws
  <2>3. UNCHANGED <<build, winsock, calls, table, made, pending, aborted>>
    BY <1>9 DEF CtorCall, Throws
  <2> QED BY <2>1, <2>2, <2>3 DEF TypeOK, ObjectSet, winsock, calls
<1>10. ASSUME NEW o \in Objects, NEW call \in CtorCalls, BaseCall(o, call) PROVE TypeOK'
  <2>1. mode' \in [Sock -> Modes]
    BY <1>10, <1>7, ReachesType DEF BaseCall
  <2> QED BY <1>10, <2>1 DEF BaseCall, TypeOK, winsock, calls
<1>18. ASSUME NEW o \in Objects, Stop(o) PROVE TypeOK'
  <2>1. mode' \in [Sock -> Modes]
    BY <1>18, ReachesType DEF Stop, TypeOK, Modes
  <2> QED BY <1>18, <2>1 DEF Stop, TypeOK, winsock, calls
<1>11. ASSUME NEW o \in Objects, NEW p \in Objects, AcceptCall(o, p) PROVE TypeOK'
  <2>1. "accepting" \in Phases
    BY DEF Phases
  <2>2. obj' \in [Objects -> ObjectSet]
    BY <1>11, <1>8, <2>1 DEF AcceptCall, TypeOK, ObjectSet
  <2> QED BY <1>11, <2>2 DEF AcceptCall, TypeOK, ObjectSet, winsock, sockets
<1>12. ASSUME NEW o \in Objects, AcceptEnter(o) \/ AcceptErrs(o) PROVE TypeOK'
  <2>1. "absent" \in Phases
    BY DEF Phases
  <2>2. obj' \in [Objects -> ObjectSet]
    BY <1>12, <1>8, <2>1 DEF AcceptEnter, AcceptErrs, AcceptFails, TypeOK, ObjectSet
  <2>3. via' \in [Objects -> Objects]
    BY <1>12 DEF AcceptEnter, AcceptErrs, AcceptFails, CallEnds, TypeOK
  <2>4. at' \in [Objects -> Sock \cup {NoSock}]
    <3>1. via[o] \in Objects
      BY DEF TypeOK
    <3>2. Reaches(via[o]) \in Sock \cup {NoSock}
      BY <3>1, ReachesType
    <3> QED BY <1>12, <3>2 DEF AcceptEnter, AcceptErrs, AcceptFails, CallEnds, TypeOK
  <2>5. UNCHANGED <<build, winsock, sockets, aborted>>
    BY <1>12 DEF AcceptEnter, AcceptErrs, AcceptFails
  <2> QED BY <2>2, <2>3, <2>4, <2>5 DEF TypeOK, ObjectSet, winsock, sockets
<1>13. ASSUME NEW o \in Objects, AcceptReturn(o) PROVE TypeOK'
  <2>1. "absent" \in Phases /\ "live" \in Phases /\ "connected" \in Modes
    BY DEF Phases, Modes
  <2>2. CASE Garbage(o)
    BY <1>5, <2>2
  <2>3. CASE AcceptFails(o) /\ UNCHANGED <<build, winsock, sockets, aborted>>
    BY <1>8, <2>1, <2>3 DEF AcceptFails, CallEnds, TypeOK, ObjectSet, winsock, sockets
  <2>4. ASSUME NEW h \in Handles, IsListening(at[o]), pending[at[o]] > 0, NewSock(h, "connected"),
               obj' = [obj EXCEPT ![o] = Object("live", "tcp_active", h, made + 1)],
               pending' = [pending EXCEPT ![at[o]] = @ - 1], CallEnds(o),
               UNCHANGED <<build, winsock, aborted>>
        PROVE  TypeOK'
    <3>1. Object("live", "tcp_active", h, made + 1) \in ObjectSet
      BY <2>1, <2>4, NewSockType DEF Object, ObjectSet
    <3>2. pending' \in [Sock -> 0..MaxPending]
      BY SessionAssumption, <2>4 DEF IsListening, TypeOK
    <3> QED BY <2>1, <2>4, <3>1, <3>2, NewSockType DEF CallEnds, TypeOK, ObjectSet, winsock
  <2> QED BY <1>13, <2>2, <2>3, <2>4 DEF AcceptReturn
<1>14. ASSUME NEW o \in Objects, Destroy(o) \/ DtorShutdown(o) PROVE TypeOK'
  <2>1. "doomed" \in Phases /\ "shutdown" \in Phases
    BY DEF Phases
  <2>2. obj' \in [Objects -> ObjectSet]
    BY <1>14, <1>8, <2>1 DEF Destroy, DtorShutdown
  <2> QED BY <1>14, <2>2 DEF Destroy, DtorShutdown, TypeOK, ObjectSet, winsock, calls, sockets
<1>15. ASSUME NEW o \in Objects, DtorClose(o) PROVE TypeOK'
  <2>1. Absent \in ObjectSet
    BY DEF Absent, Object, ObjectSet, Phases
  <2> QED BY <1>15, SessionAssumption, <2>1 DEF DtorClose, TypeOK, ObjectSet, Modes, winsock, calls
<1> QED BY <1>1, <1>2, <1>3, <1>4, <1>6, <1>9, <1>10, <1>11, <1>12, <1>13, <1>14, <1>15,
           <1>18 DEF Next, Step

(* No value leaves its range: handles come from Winsock, a failed call     *)
(* enters nothing, and cleanup() answers only calls of startup().          *)
THEOREM SessionTypeCorrect == Spec => []TypeOK
<1>1. Init => TypeOK
  <2>1. Absent \in ObjectSet
    BY DEF Absent, Object, ObjectSet, Phases
  <2>2. 0 \in 0..MaxStarts /\ 0 \in 0..0 /\ 0 \in 0..MaxSocks /\ 0 \in 0..MaxPending
    BY SessionAssumption
  <2> SUFFICES ASSUME Init PROVE TypeOK
    OBVIOUS
  <2>3. dll \in 0..starts /\ starts \in 0..MaxStarts
    BY <2>2 DEF Init
  <2>4. table \in [Handles -> Sock \cup {NoSock}] /\ at \in [Objects -> Sock \cup {NoSock}]
        /\ mode \in [Sock -> Modes] /\ pending \in [Sock -> 0..MaxPending]
    BY <2>2 DEF Init, Modes
  <2> QED BY <2>1, <2>2, <2>3, <2>4 DEF Init, TypeOK, ObjectSet
<1> QED BY <1>1, TypeSteps, PTL DEF Spec

-----------------------------------------------------------------------------
(* Steps after which everybody holds what they held.                       *)
LEMMA SameHoldings ==
    ASSUME TypeOK, Ownership,
           \A o \in Objects : /\ obj'[o].handle = obj[o].handle
                              /\ obj'[o].origin = obj[o].origin
                              /\ Holds(o)' <=> Holds(o),
           UNCHANGED <<dll, restarted, table, made>>
    PROVE  Ownership'
<1>1. \A o \in Objects : HandleKnown(o)'
  BY DEF Ownership, HandleKnown
<1>2. OriginsUnique' /\ DownMeansNone' /\ Owned'
  BY DEF Ownership, OriginsUnique, DownMeansNone, Owned
<1>3. NoLeak'
  BY DEF Ownership, NoLeak
<1> QED BY <1>1, <1>2, <1>3 DEF Ownership

(* A change of phase that does not begin or end a holding is such a step.  *)
LEMMA Rephased ==
    ASSUME TypeOK, Ownership, NEW o \in Objects, NEW p \in Phases,
           obj' = obj \/ SetPhase(o, p),
           Holds(o) <=> p \notin {"absent", "accepting"},
           UNCHANGED <<dll, restarted, table, made>>
    PROVE  Ownership'
<1>1. \A q \in Objects : /\ obj'[q].handle = obj[q].handle
                         /\ obj'[q].origin = obj[q].origin
                         /\ obj'[q].phase = obj[q].phase \/ (q = o /\ obj'[q].phase = p)
  BY DEF TypeOK, SetPhase
<1>2. \A q \in Objects : Holds(q)' <=> Holds(q)
  BY <1>1 DEF Holds
<1> QED BY <1>1, <1>2, SameHoldings

(* A new socket, for an object that held nothing.                          *)
LEMMA NewOwner ==
    ASSUME TypeOK, Ownership, NEW o \in Objects, ~Holds(o),
           NEW h, NEW m \in Modes, NEW p, p \notin {"absent", "accepting"}, NEW k,
           NewSock(h, m), obj' = [obj EXCEPT ![o] = Object(p, k, h, made + 1)],
           UNCHANGED <<dll, restarted>>
    PROVE  Ownership'
<1>1. /\ h \in Handles /\ table[h] = NoSock /\ dll > 0 /\ made' = made + 1 /\ made \in Nat
      /\ \A g \in Handles : table'[g] = IF g = h THEN made + 1 ELSE table[g]
  <2>1. made \in Nat
    BY SessionAssumption DEF TypeOK
  <2> QED BY <2>1, NewSockType
<1>2. /\ obj'[o].phase = p /\ obj'[o].handle = h /\ obj'[o].origin = made + 1
      /\ \A q \in Objects \ {o} : obj'[q] = obj[q]
  BY DEF TypeOK, Object
<1>3. Holds(o)' /\ \A q \in Objects \ {o} : Holds(q)' <=> Holds(q)
  BY <1>2 DEF Holds
<1>4. obj[o].origin = NoSock /\ \A q \in Objects : HandleKnown(q) /\ obj[q].origin \in Int
  BY DEF Ownership, HandleKnown, TypeOK, Sock, NoSock
<1>5. \A q \in Objects : HandleKnown(q)'
  BY <1>1, <1>2, <1>3, <1>4 DEF HandleKnown, NoSock
<1>6. OriginsUnique'
  BY <1>1, <1>2, <1>4 DEF Ownership, OriginsUnique, HandleKnown
<1>7. DownMeansNone'
  BY <1>1 DEF DownMeansNone
<1>8. Owned'
  <2> SUFFICES ASSUME ~restarted, NEW q \in Objects, obj'[q].origin # NoSock
               PROVE  table'[obj'[q].handle] = obj'[q].origin
    BY DEF Owned
  <2>1. CASE q = o
    BY <1>1, <1>2, <2>1
  <2>2. CASE q # o
    <3>1. table[obj[q].handle] = obj[q].origin /\ obj[q].handle \in Handles
      BY <1>1, <1>2, <1>4, <2>2 DEF Ownership, Owned, HandleKnown
    <3> QED BY <1>1, <1>2, <2>2, <3>1
  <2> QED BY <2>1, <2>2
<1>9. NoLeak'
  <2> SUFFICES ASSUME NEW g \in Handles, table'[g] # NoSock
               PROVE  \E q \in Objects : Holds(q)' /\ obj'[q].handle = g
    BY DEF NoLeak
  <2>1. CASE g = h
    BY <1>2, <1>3, <2>1
  <2>2. CASE g # h
    <3>1. PICK q \in Objects : Holds(q) /\ obj[q].handle = g
      BY <1>1, <2>2 DEF Ownership, NoLeak
    <3>2. q # o
      BY <3>1
    <3> QED BY <1>2, <1>3, <3>1, <3>2
  <2> QED BY <2>1, <2>2
<1> QED BY <1>5, <1>6, <1>7, <1>8, <1>9 DEF Ownership

(* socket() failed, and the object is built all the same.                  *)
LEMMA NewWithout ==
    ASSUME TypeOK, Ownership, NEW o \in Objects, ~Holds(o),
           NEW p, p \notin {"absent", "accepting"}, NEW k,
           obj' = [obj EXCEPT ![o] = Object(p, k, InvalidSocket, NoSock)],
           UNCHANGED <<dll, restarted, table, made>>
    PROVE  Ownership'
<1>0. InvalidSocket \notin Handles /\ made \in Nat
  BY SessionAssumption DEF InvalidSocket, TypeOK
<1>1. /\ obj'[o].phase = p /\ obj'[o].handle = InvalidSocket /\ obj'[o].origin = NoSock
      /\ \A q \in Objects \ {o} : obj'[q] = obj[q]
  BY DEF TypeOK, Object
<1>2. \A q \in Objects \ {o} : Holds(q)' <=> Holds(q)
  BY <1>1 DEF Holds
<1>3. \A q \in Objects : HandleKnown(q)'
  BY <1>0, <1>1, <1>2 DEF Ownership, HandleKnown, NoSock
<1>4. OriginsUnique' /\ DownMeansNone' /\ Owned'
  BY <1>1 DEF Ownership, OriginsUnique, DownMeansNone, Owned
<1>5. NoLeak'
  BY <1>1, <1>2 DEF Ownership, NoLeak
<1> QED BY <1>3, <1>4, <1>5 DEF Ownership

(* The destructor's end takes away no one else's handle, unless startup()  *)
(* was called again.                                                       *)
LEMMA Closed ==
    ASSUME TypeOK, Ownership, NEW o \in Objects, DtorClose(o)
    PROVE  Ownership'
<1>0. made \in Nat /\ InvalidSocket \notin Handles
  BY SessionAssumption DEF TypeOK, InvalidSocket
<1>1. /\ obj' = [obj EXCEPT ![o] = Absent] /\ Holds(o)
      /\ table' = [h \in Handles |-> IF h = obj[o].handle THEN NoSock ELSE table[h]]
      /\ UNCHANGED <<dll, restarted, made>>
  BY DEF DtorClose, In, Holds, winsock
<1>2. /\ obj'[o].phase = "absent" /\ obj'[o].handle = InvalidSocket /\ obj'[o].origin = NoSock
      /\ \A q \in Objects \ {o} : obj'[q] = obj[q]
  BY <1>1 DEF TypeOK, Absent, Object
<1>3. ~Holds(o)' /\ \A q \in Objects \ {o} : Holds(q)' <=> Holds(q)
  BY <1>2 DEF Holds
<1>4. \A q \in Objects : HandleKnown(q)'
  BY <1>0, <1>1, <1>2, <1>3 DEF Ownership, HandleKnown, NoSock
<1>5. OriginsUnique' /\ DownMeansNone'
  BY <1>1, <1>2 DEF Ownership, OriginsUnique, DownMeansNone
<1>6. Owned'
  <2> SUFFICES ASSUME ~restarted, dll > 0, NEW q \in Objects, obj'[q].origin # NoSock
               PROVE  table'[obj'[q].handle] = obj'[q].origin
    BY <1>1 DEF Owned
  <2>1. q # o /\ obj[q].origin # NoSock /\ obj'[q] = obj[q]
    BY <1>2
  <2>2. obj[q].handle \in Handles /\ table[obj[q].handle] = obj[q].origin
    BY <2>1 DEF Ownership, HandleKnown, Owned
  <2>3. obj[q].handle # obj[o].handle
    <3> SUFFICES ASSUME obj[q].handle = obj[o].handle PROVE FALSE
      OBVIOUS
    <3>1. obj[o].origin # NoSock
      BY <1>1, <2>2 DEF Ownership, HandleKnown
    <3>2. table[obj[o].handle] = obj[o].origin
      BY <3>1 DEF Ownership, Owned
    <3> QED BY <2>1, <2>2, <3>2 DEF Ownership, OriginsUnique
  <2> QED BY <1>1, <2>1, <2>2, <2>3
<1>7. NoLeak'
  <2> SUFFICES ASSUME NEW g \in Handles, table'[g] # NoSock
               PROVE  \E q \in Objects : Holds(q)' /\ obj'[q].handle = g
    BY DEF NoLeak
  <2>1. table[g] # NoSock /\ g # obj[o].handle
    BY <1>1
  <2>2. PICK q \in Objects : Holds(q) /\ obj[q].handle = g
    BY <2>1 DEF Ownership, NoLeak
  <2> QED BY <1>2, <1>3, <2>1, <2>2
<1> QED BY <1>4, <1>5, <1>6, <1>7 DEF Ownership

(* startup() and cleanup().                                                *)
LEMMA StartedOrCleaned ==
    ASSUME TypeOK, Ownership, Startup \/ Cleanup
    PROVE  Ownership'
<1>0. dll \in Nat
  BY SessionAssumption DEF TypeOK
<1>1. CASE Startup
  <2>1. /\ dll' = dll + 1 /\ UNCHANGED <<obj, table, made>>
        /\ restarted' = (restarted \/ (dll = 0 /\ \E o \in Objects : obj[o].origin # NoSock))
    BY <1>1 DEF Startup, sockets
  <2>2. \A o \in Objects : HandleKnown(o)'
    BY <2>1 DEF Ownership, HandleKnown, Holds
  <2>3. OriginsUnique' /\ DownMeansNone' /\ NoLeak'
    BY <1>0, <2>1 DEF Ownership, OriginsUnique, DownMeansNone, NoLeak, Holds
  <2>4. Owned'
    <3> SUFFICES ASSUME ~restarted', NEW o \in Objects, obj[o].origin # NoSock
                 PROVE  table[obj[o].handle] = obj[o].origin
      BY <2>1 DEF Owned
    <3>1. ~restarted /\ dll # 0
      BY <2>1
    <3> QED BY <1>0, <3>1 DEF Ownership, Owned
  <2> QED BY <2>2, <2>3, <2>4 DEF Ownership
<1>2. CASE Cleanup
  <2>1. /\ dll > 0 /\ dll' = dll - 1 /\ UNCHANGED <<obj, made, restarted>>
        /\ table' = [h \in Handles |-> IF dll = 1 THEN NoSock ELSE table[h]]
    BY <1>2 DEF Cleanup
  <2>2. \A o \in Objects : HandleKnown(o)'
    BY <2>1 DEF Ownership, HandleKnown, Holds
  <2>3. OriginsUnique' /\ DownMeansNone'
    BY <1>0, <2>1 DEF Ownership, OriginsUnique, DownMeansNone
  <2>4. Owned'
    <3>1. CASE dll = 1
      BY <2>1, <3>1 DEF Owned
    <3>2. CASE dll # 1
      <4>1. table' = table
        BY <2>1, <3>2 DEF TypeOK
      <4> QED BY <2>1, <4>1 DEF Ownership, Owned
    <3> QED BY <3>1, <3>2
  <2>5. NoLeak'
    BY <2>1 DEF Ownership, NoLeak, Holds
  <2> QED BY <2>2, <2>3, <2>4, <2>5 DEF Ownership
<1> QED BY <1>1, <1>2

-----------------------------------------------------------------------------
LEMMA OwnershipSteps == TypeOK /\ Ownership /\ [Next]_vars => Ownership'
<1> SUFFICES ASSUME TypeOK, Ownership, [Next]_vars PROVE Ownership'
  OBVIOUS
<1>1. CASE UNCHANGED vars
  BY <1>1, SameHoldings DEF vars, winsock, sockets, Holds
<1>2. CASE Startup \/ Cleanup
  BY <1>2, StartedOrCleaned
<1>3. ASSUME NEW s \in Sock, Arrive(s) PROVE Ownership'
  BY <1>3, SameHoldings DEF Arrive, winsock, Holds
<1>4. ASSUME NEW o \in Objects, Garbage(o) PROVE Ownership'
  BY <1>4, SameHoldings DEF Garbage, winsock, sockets, Holds
<1>5. ASSUME NEW o \in Objects, NEW k \in Kinds, OpenSocket(o, k) PROVE Ownership'
  <2>1. ~Holds(o) /\ FirstCall(k) \notin {"absent", "accepting"} /\ "plain" \in Modes
    BY <1>5, SessionAssumption DEF OpenSocket, In, Holds, FirstCall, Classes, Modes
  <2>2. CASE Garbage(o)
    BY <1>4, <2>2
  <2>3. CASE ~Garbage(o)
    <3>1. UNCHANGED <<dll, restarted>>
      BY <1>5, <2>3 DEF OpenSocket, winsock
    <3>2. ASSUME NEW h \in Handles, NewSock(h, "plain"),
                 obj' = [obj EXCEPT ![o] = Object(FirstCall(k), k, h, made + 1)]
          PROVE  Ownership'
      BY <2>1, <3>1, <3>2, NewOwner
    <3>3. CASE /\ obj' = [obj EXCEPT ![o] = Object(FirstCall(k), k, InvalidSocket, NoSock)]
               /\ UNCHANGED <<table, made, mode>>
      BY <2>1, <3>1, <3>3, NewWithout
    <3> QED BY <1>5, <2>3, <3>2, <3>3 DEF OpenSocket
  <2> QED BY <2>2, <2>3
<1>6. ASSUME NEW o \in Objects, CtorCall(o) PROVE Ownership'
  <2>1. /\ Holds(o) /\ UNCHANGED <<dll, restarted, table, made>>
        /\ SetPhase(o, AfterCall(o)) \/ SetPhase(o, "doomed")
    BY <1>6 DEF CtorCall, Throws, Holds, CtorCalls, winsock
  <2>2. AfterCall(o) \in Phases \ {"absent", "accepting"} /\ "doomed" \in Phases
    BY DEF AfterCall, Phases, CtorCalls
  <2> QED BY <2>1, <2>2, Rephased
<1>7. ASSUME NEW o \in Objects, NEW call \in CtorCalls, BaseCall(o, call) PROVE Ownership'
  BY <1>7, SameHoldings DEF BaseCall, winsock, Holds
<1>13. ASSUME NEW o \in Objects, Stop(o) PROVE Ownership'
  BY <1>13, SameHoldings DEF Stop, winsock, Holds
<1>8. ASSUME NEW o \in Objects, NEW p \in Objects, AcceptCall(o, p) PROVE Ownership'
  <2>1. /\ ~Holds(o) /\ (obj' = obj \/ SetPhase(o, "accepting"))
        /\ UNCHANGED <<dll, restarted, table, made>> /\ "accepting" \in Phases
    BY <1>8 DEF AcceptCall, Holds, In, winsock, sockets, Phases
  <2> QED BY <2>1, Rephased
<1>9. ASSUME NEW o \in Objects, AcceptEnter(o) \/ AcceptErrs(o) PROVE Ownership'
  <2>1. /\ ~Holds(o) /\ (obj' = obj \/ SetPhase(o, "absent"))
        /\ UNCHANGED <<dll, restarted, table, made>> /\ "absent" \in Phases
    BY <1>9 DEF AcceptEnter, AcceptErrs, AcceptFails, Holds, In, winsock, sockets, Phases
  <2> QED BY <2>1, Rephased
<1>10. ASSUME NEW o \in Objects, AcceptReturn(o) PROVE Ownership'
  <2>1. ~Holds(o) /\ "absent" \in Phases /\ "connected" \in Modes
    BY <1>10 DEF AcceptReturn, Holds, In, Phases, Modes
  <2>2. CASE Garbage(o)
    BY <1>4, <2>2
  <2>3. CASE AcceptFails(o) /\ UNCHANGED <<build, winsock, sockets, aborted>>
    BY <2>1, <2>3, Rephased DEF AcceptFails, winsock, sockets
  <2>4. ASSUME NEW h \in Handles, NewSock(h, "connected"),
               obj' = [obj EXCEPT ![o] = Object("live", "tcp_active", h, made + 1)],
               UNCHANGED <<build, winsock, aborted>>
        PROVE  Ownership'
    BY <2>1, <2>4, NewOwner DEF winsock
  <2> QED BY <1>10, <2>2, <2>3, <2>4 DEF AcceptReturn
<1>11. ASSUME NEW o \in Objects, Destroy(o) \/ DtorShutdown(o) PROVE Ownership'
  <2>1. /\ Holds(o) /\ (SetPhase(o, "doomed") \/ SetPhase(o, "shutdown"))
        /\ UNCHANGED <<dll, restarted, table, made>>
        /\ "doomed" \in Phases /\ "shutdown" \in Phases
    BY <1>11 DEF Destroy, DtorShutdown, Holds, In, winsock, sockets, Phases
  <2> QED BY <2>1, Rephased
<1>12. ASSUME NEW o \in Objects, DtorClose(o) PROVE Ownership'
  BY <1>12, Closed
<1> QED BY <1>1, <1>2, <1>3, <1>5, <1>6, <1>7, <1>8, <1>9, <1>10, <1>11, <1>12,
           <1>13 DEF Next, Step

LEMMA OwnershipInvariant == Spec => []Ownership
<1>1. Init => Ownership
  <2> SUFFICES ASSUME Init PROVE Ownership
    OBVIOUS
  <2>1. /\ \A o \in Objects : /\ obj[o].origin = NoSock /\ ~Holds(o)
        /\ \A h \in Handles : table[h] = NoSock
        /\ made = 0
    BY DEF Init, Absent, Object, Holds
  <2> QED BY <2>1 DEF Ownership, HandleKnown, OriginsUnique, DownMeansNone, Owned, NoLeak, NoSock
<1> QED BY <1>1, OwnershipSteps, SessionTypeCorrect, PTL DEF Spec

(* Objects left over by cleanup(), as the client of main.cpp is, do not    *)
(* touch another object's socket unless startup() is called again.         *)
THEOREM LeftoversAreHarmless == Spec => []ForeignNeedsRestart
<1>1. TypeOK /\ Ownership => ForeignNeedsRestart
  <2> SUFFICES ASSUME TypeOK, Ownership, ~restarted, NEW o \in Objects, Holds(o)
               PROVE  Reaches(o) \in {NoSock, obj[o].origin}
    BY DEF ForeignNeedsRestart
  <2>1. CASE obj[o].handle \notin Handles
    BY <2>1 DEF Reaches
  <2>2. CASE obj[o].handle \in Handles
    <3>1. Reaches(o) = table[obj[o].handle] /\ obj[o].origin # NoSock /\ dll \in Nat
      BY <2>2, SessionAssumption DEF Reaches, Ownership, HandleKnown, TypeOK
    <3>2. CASE dll = 0
      BY <2>2, <3>1, <3>2 DEF Ownership, DownMeansNone
    <3>3. CASE dll > 0
      BY <3>1, <3>3 DEF Ownership, Owned
    <3> QED BY <3>1, <3>2, <3>3
  <2> QED BY <2>1, <2>2
<1> QED BY <1>1, OwnershipInvariant, SessionTypeCorrect, PTL

(* Every open handle has an object whose destructor will close it, however *)
(* construction and accepting fail.                                        *)
THEOREM NoHandleLeaks == Spec => []NoLeak
<1>1. Ownership => NoLeak
  BY DEF Ownership
<1> QED BY <1>1, OwnershipInvariant, PTL

-----------------------------------------------------------------------------
(* What a constructor of the factory has behind it when it makes its next  *)
(* call, and when it is through: a handle ...                              *)
Built(o) ==
    /\ In(o, "bind_to") => obj[o].kind \in {"udp_server", "tcp_server"}
    /\ In(o, "connect_to") => obj[o].kind \in {"udp_client", "tcp_client"}
    /\ In(o, "be_listening") => obj[o].kind = "tcp_server" /\ obj[o].handle \in Handles
    /\ In(o, "live") => obj[o].kind = "base" \/ obj[o].handle \in Handles
    /\ In(o, "live") => obj[o].kind # "none"

(* ... and, unless cleanup() has closed it, a socket in the state that the *)
(* calls so far have led to.                                               *)
Reached(o) ==
    obj[o].kind # "base" /\ ~restarted /\ Reaches(o) # NoSock =>
        /\ In(o, "be_listening") => mode[Reaches(o)] = "bound"
        /\ In(o, "live") => mode[Reaches(o)] = Ready(obj[o].kind)

InOrder == \A o \in Objects : Built(o) /\ Reached(o)

(* In a single session two objects reach two sockets, which exist.         *)
LEMMA Apart ==
    ASSUME TypeOK, Ownership, ~restarted, NEW o \in Objects, Holds(o), Reaches(o) # NoSock
    PROVE  /\ dll > 0 /\ Reaches(o) = obj[o].origin /\ Reaches(o) <= made
           /\ \A q \in Objects : Holds(q) /\ q # o => Reaches(q) # Reaches(o)
<1>1. ASSUME NEW q \in Objects, Holds(q), Reaches(q) # NoSock
      PROVE  dll > 0 /\ Reaches(q) = obj[q].origin /\ Reaches(q) <= made
  <2>1. obj[q].handle \in Handles /\ Reaches(q) = table[obj[q].handle]
    BY <1>1 DEF Reaches
  <2>2. dll \in Nat /\ dll # 0
    <3>1. dll \in Nat
      BY SessionAssumption DEF TypeOK
    <3> QED BY <1>1, <2>1, <3>1 DEF Ownership, DownMeansNone
  <2>3. obj[q].origin # NoSock /\ obj[q].origin <= made
    BY <1>1, <2>1 DEF Ownership, HandleKnown
  <2> QED BY <2>1, <2>2, <2>3 DEF Ownership, Owned
<1> QED BY <1>1 DEF Ownership, OriginsUnique

(* An object that a step leaves alone, with the state of its socket.       *)
LEMMA LeftInOrder ==
    ASSUME NEW q \in Objects, Built(q), Reached(q), obj'[q] = obj[q], restarted => restarted',
           Holds(q) /\ ~restarted /\ Reaches(q)' # NoSock =>
               Reaches(q)' = Reaches(q) /\ mode'[Reaches(q)] = mode[Reaches(q)]
    PROVE  Built(q)' /\ Reached(q)'
<1>1. Built(q)'
  BY DEF Built, In
<1>2. CASE ~Holds(q)
  BY <1>1, <1>2 DEF Reached, Holds, In
<1>3. CASE Holds(q) /\ ~restarted /\ Reaches(q)' # NoSock
  <2>1. Reaches(q)' = Reaches(q) /\ mode'[Reaches(q)'] = mode[Reaches(q)]
    BY <1>3
  <2> QED BY <1>1, <1>3, <2>1 DEF Reached, In
<1>4. CASE restarted \/ Reaches(q)' = NoSock
  BY <1>1, <1>4 DEF Reached
<1> QED BY <1>2, <1>3, <1>4

(* Steps of o that change the state of o's own socket at most.             *)
LEMMA OthersInOrder ==
    ASSUME TypeOK, Ownership, InOrder, NEW o \in Objects, Holds(o),
           \A q \in Objects : q # o => obj'[q] = obj[q],
           UNCHANGED restarted,
           \A h \in Handles : table'[h] = table[h] \/ table'[h] = NoSock,
           \A s \in Sock : s # Reaches(o) => mode'[s] = mode[s]
    PROVE  \A q \in Objects : q # o => Built(q)' /\ Reached(q)'
<1> SUFFICES ASSUME NEW q \in Objects, q # o PROVE Built(q)' /\ Reached(q)'
  OBVIOUS
<1>1. ASSUME Holds(q), ~restarted, Reaches(q)' # NoSock
      PROVE  Reaches(q)' = Reaches(q) /\ mode'[Reaches(q)] = mode[Reaches(q)]
  <2>1. Reaches(q)' = Reaches(q) /\ Reaches(q) \in Sock
    BY <1>1, ReachesType DEF Reaches
  <2>2. Reaches(q) # Reaches(o)
    BY <1>1, <2>1, Apart
  <2> QED BY <2>1, <2>2
<1> QED BY <1>1, LeftInOrder DEF InOrder

(* socket() and accept() disturb nobody.                                   *)
LEMMA NewInOrder ==
    ASSUME TypeOK, Ownership, InOrder, NEW o \in Objects, NEW h, NEW m \in Modes,
           NewSock(h, m), \A q \in Objects : q # o => obj'[q] = obj[q], UNCHANGED restarted
    PROVE  \A q \in Objects : q # o => Built(q)' /\ Reached(q)'
<1> SUFFICES ASSUME NEW q \in Objects, q # o PROVE Built(q)' /\ Reached(q)'
  OBVIOUS
<1>1. /\ h \in Handles /\ table[h] = NoSock /\ dll > 0 /\ made \in Nat
      /\ \A g \in Handles : table'[g] = IF g = h THEN made + 1 ELSE table[g]
      /\ \A s \in Sock : mode'[s] = IF s = made + 1 THEN m ELSE mode[s]
  <2>1. made \in Nat
    BY SessionAssumption DEF TypeOK
  <2> QED BY <2>1, NewSockType
<1>2. ASSUME Holds(q), ~restarted, Reaches(q)' # NoSock
      PROVE  Reaches(q)' = Reaches(q) /\ mode'[Reaches(q)] = mode[Reaches(q)]
  <2>1. obj[q].handle \in Handles
    BY <1>2 DEF Reaches
  <2>2. table[obj[q].handle] # NoSock
    BY <1>1, <1>2, <2>1 DEF Ownership, HandleKnown, Owned
  <2>3. Reaches(q)' = Reaches(q) /\ Reaches(q) # NoSock
    BY <1>1, <2>1, <2>2 DEF Reaches
  <2>4. Reaches(q) \in Sock /\ Reaches(q) <= made
    BY <1>2, <2>3, ReachesType, Apart
  <2>5. Reaches(q) # made + 1
    BY <1>1, <2>4 DEF Sock
  <2> QED BY <1>1, <2>3, <2>4, <2>5
<1> QED BY <1>2, LeftInOrder DEF InOrder

(* What a successful call does to a socket.                                *)
LEMMA EstablishedMode ==
    ASSUME TypeOK, NEW call \in CtorCalls, NEW s \in Sock, Established(call, s)
    PROVE  /\ \A x \in Sock : x # s => mode'[x] = mode[x]
           /\ mode'[s] = CASE call = "bind_to" -> "bound"
                           [] call = "connect_to" -> "connected"
                           [] call = "be_listening" -> "listening"
BY DEF TypeOK, Established, CtorCalls

LEMMA InOrderSteps ==
    ASSUME TypeOK, Ownership, InOrder, [Next]_vars
    PROVE  InOrder'
<1>1. ASSUME UNCHANGED <<obj, table, mode>>, restarted => restarted' PROVE InOrder'
  BY <1>1, LeftInOrder DEF InOrder, Reaches
<1>2. CASE UNCHANGED vars \/ Startup \/ \E s \in Sock : Arrive(s)
  <2>1. CASE Startup
    <3>1. UNCHANGED <<obj, table, mode>> /\ (restarted => restarted')
      BY <2>1, Zenon DEF Startup, sockets
    <3> QED BY <1>1, <3>1, Zenon
  <2>2. CASE UNCHANGED vars \/ \E s \in Sock : Arrive(s)
    <3>1. UNCHANGED <<obj, table, mode, restarted>>
      BY <2>2 DEF vars, winsock, sockets, Arrive
    <3> QED BY <1>1, <3>1, Zenon
  <2> QED BY <1>2, <2>1, <2>2
<1>3. CASE Cleanup
  <2>1. UNCHANGED <<obj, restarted>> /\ (UNCHANGED <<table, mode>> \/ table' = [h \in Handles |-> NoSock])
    BY <1>3 DEF Cleanup, TypeOK
  <2>2. CASE UNCHANGED <<table, mode>>
    BY <1>1, <2>1, <2>2
  <2>3. CASE table' = [h \in Handles |-> NoSock]
    <3>1. \A q \in Objects : Reaches(q)' = NoSock
      BY <2>3 DEF Reaches
    <3> QED BY <2>1, <3>1, LeftInOrder DEF InOrder
  <2> QED BY <2>1, <2>2, <2>3
<1>4. ASSUME NEW o \in Objects, Garbage(o) PROVE InOrder'
  BY <1>1, <1>4 DEF Garbage, winsock, sockets
(* Phases of which nothing is asked.                                       *)
<1>5. ASSUME NEW o \in Objects, NEW p \in {"doomed", "shutdown", "absent", "accepting"},
             SetPhase(o, p), UNCHANGED <<table, mode, restarted>>
      PROVE  InOrder'
  <2>1. obj'[o].phase = p /\ \A q \in Objects : q # o => obj'[q] = obj[q]
    BY <1>5 DEF SetPhase, TypeOK
  <2>2. Built(o)' /\ Reached(o)'
    BY <2>1 DEF Built, Reached, In
  <2>3. \A q \in Objects : q # o => Built(q)' /\ Reached(q)'
    BY <1>5, <2>1, LeftInOrder DEF InOrder, Reaches
  <2> QED BY <2>2, <2>3 DEF InOrder
<1>6. ASSUME NEW o \in Objects, NEW k \in Kinds, OpenSocket(o, k), ~Garbage(o) PROVE InOrder'
  <2>1. k \in Classes /\ "plain" \in Modes
    BY SessionAssumption DEF Modes
  <2>2. PICK h, n : obj' = [obj EXCEPT ![o] = Object(FirstCall(k), k, h, n)]
    BY <1>6 DEF OpenSocket
  <2>3. /\ obj'[o].phase = FirstCall(k) /\ obj'[o].kind = k
        /\ \A q \in Objects : q # o => obj'[q] = obj[q]
    BY <2>2 DEF TypeOK, Object
  <2>4. Built(o)' /\ Reached(o)'
    BY <2>1, <2>3 DEF Built, Reached, In, FirstCall, Classes
  <2>5. restarted' = restarted
    BY <1>6 DEF OpenSocket, winsock
  <2>6. (\E g \in Handles : NewSock(g, "plain")) \/ UNCHANGED <<table, mode>>
    BY <1>6 DEF OpenSocket
  <2>7. CASE \E g \in Handles : NewSock(g, "plain")
    BY <2>1, <2>3, <2>4, <2>5, <2>7, NewInOrder DEF InOrder
  <2>8. CASE UNCHANGED <<table, mode>>
    BY <2>3, <2>4, <2>5, <2>8, LeftInOrder DEF InOrder, Reaches
  <2> QED BY <2>6, <2>7, <2>8
<1>7. ASSUME NEW o \in Objects, CtorCall(o) PROVE InOrder'
  <2>0. obj[o].phase \in CtorCalls /\ Holds(o) /\ UNCHANGED restarted
    BY <1>7 DEF CtorCall, CtorCalls, Holds, winsock
  <2>1. CASE Throws(o) /\ UNCHANGED mode
    BY <1>5, <2>0, <2>1 DEF Throws
  <2>2. ASSUME Reaches(o) # NoSock, Established(obj[o].phase, Reaches(o)),
               SetPhase(o, AfterCall(o)), UNCHANGED table
        PROVE  InOrder'
    <3>1. PICK s \in Sock : s = Reaches(o)
      BY <2>2, ReachesType
    <3>2. /\ \A x \in Sock : x # s => mode'[x] = mode[x]
          /\ mode'[s] = CASE obj[o].phase = "bind_to" -> "bound"
                          [] obj[o].phase = "connect_to" -> "connected"
                          [] obj[o].phase = "be_listening" -> "listening"
      BY <2>0, <2>2, <3>1, EstablishedMode
    <3>3. /\ obj'[o].phase = AfterCall(o) /\ obj'[o].kind = obj[o].kind
          /\ obj'[o].handle = obj[o].handle /\ obj[o].handle \in Handles
          /\ \A q \in Objects : q # o => obj'[q] = obj[q]
      BY <2>2, ReachesType DEF SetPhase, TypeOK
    <3>4. Reaches(o)' = s
      BY <2>2, <3>1, <3>3 DEF Reaches
    <3>5. Built(o)'
      BY <2>0, <3>3 DEF InOrder, Built, In, AfterCall, CtorCalls
    <3>6. Reached(o)'
      <4>1. CASE In(o, "bind_to")
        BY <3>2, <3>3, <3>4, <4>1 DEF InOrder, Built, Reached, In, AfterCall, Ready
      <4>2. CASE In(o, "connect_to")
        BY <3>2, <3>3, <3>4, <4>2 DEF InOrder, Built, Reached, In, AfterCall, Ready
      <4>3. CASE In(o, "be_listening")
        BY <3>2, <3>3, <3>4, <4>3 DEF InOrder, Built, Reached, In, AfterCall, Ready
      <4> QED BY <2>0, <4>1, <4>2, <4>3 DEF CtorCalls, In
    <3>7. \A q \in Objects : q # o => Built(q)' /\ Reached(q)'
      BY <2>0, <2>2, <3>1, <3>2, <3>3, OthersInOrder
    <3> QED BY <3>5, <3>6, <3>7 DEF InOrder
  <2> QED BY <1>7, <2>1, <2>2 DEF CtorCall
<1>8. ASSUME NEW o \in Objects, NEW call \in CtorCalls, BaseCall(o, call) PROVE InOrder'
  <2>1. Reaches(o) \in Sock /\ Established(call, Reaches(o)) /\ Holds(o)
        /\ UNCHANGED <<obj, table, restarted>>
    BY <1>8, ReachesType DEF BaseCall, Holds, In, winsock
  <2>2. obj[o].kind = "base"
    <3>1. obj[o].kind \in Classes \cup {"none", "tcp_active"} /\ call \in Offers(obj[o].kind)
      BY <1>8 DEF BaseCall, TypeOK
    <3>2. call \in {"bind_to", "connect_to", "be_listening"}
      BY DEF CtorCalls
    <3>3. obj[o].kind # "none"
      BY <1>8 DEF InOrder, Built, BaseCall
    <3> QED BY <3>1, <3>2, <3>3 DEF Offers, Classes
  <2>3. \A q \in Objects : q # o => Built(q)' /\ Reached(q)'
    BY <2>1, EstablishedMode, OthersInOrder
  <2>4. Built(o)' /\ Reached(o)'
    BY <2>1, <2>2 DEF InOrder, Built, Reached, In
  <2> QED BY <2>3, <2>4 DEF InOrder
<1>9. ASSUME NEW o \in Objects, NEW p \in Objects, AcceptCall(o, p) PROVE InOrder'
  BY <1>1, <1>5, <1>9 DEF AcceptCall, winsock, sockets
<1>10. ASSUME NEW o \in Objects, AcceptEnter(o) \/ AcceptErrs(o) PROVE InOrder'
  BY <1>1, <1>5, <1>10 DEF AcceptEnter, AcceptErrs, AcceptFails, winsock, sockets
<1>11. ASSUME NEW o \in Objects, AcceptReturn(o), ~Garbage(o) PROVE InOrder'
  <2>1. restarted' = restarted
    BY <1>11 DEF AcceptReturn, winsock
  <2>2. CASE AcceptFails(o) /\ UNCHANGED sockets
    BY <1>5, <2>1, <2>2 DEF AcceptFails, sockets
  <2>3. ASSUME NEW h \in Handles, NewSock(h, "connected"),
               obj' = [obj EXCEPT ![o] = Object("live", "tcp_active", h, made + 1)]
        PROVE  InOrder'
    <3>1. /\ obj'[o].phase = "live" /\ obj'[o].kind = "tcp_active" /\ obj'[o].handle = h
          /\ \A q \in Objects : q # o => obj'[q] = obj[q]
      BY <2>3 DEF TypeOK, Object
    <3>2. "connected" \in Modes
      BY DEF Modes
    <3>3. table'[h] = made + 1 /\ mode'[made + 1] = "connected"
      BY <2>3, <3>2, NewSockType
    <3>4. Reaches(o)' = made + 1
      BY <3>1, <3>3 DEF Reaches
    <3>5. Built(o)' /\ Reached(o)'
      BY <3>1, <3>3, <3>4 DEF Built, Reached, In, Ready
    <3> QED BY <2>1, <2>3, <3>1, <3>2, <3>5, NewInOrder DEF InOrder
  <2> QED BY <1>11, <2>2, <2>3 DEF AcceptReturn
<1>12. ASSUME NEW o \in Objects, Stop(o) PROVE InOrder'
  <2>1. PICK s \in Sock : s = Reaches(o)
    BY <1>12, ReachesType DEF Stop
  <2>2. /\ mode[s] = "connected" /\ In(o, "live") /\ Holds(o)
        /\ UNCHANGED <<obj, table, restarted>> /\ Reaches(o) # NoSock
        /\ \A x \in Sock : x # s => mode'[x] = mode[x]
    BY <1>12, <2>1 DEF Stop, Stoppable, Holds, In, winsock
  <2>3. obj[o].kind \in {"base", "tcp_server"}
    BY <1>12 DEF Stop, TypeOK, Offers, Classes, InOrder, Built
  <2>4. \A q \in Objects : q # o => Built(q)' /\ Reached(q)'
    BY <2>1, <2>2, OthersInOrder
  <2>5. Built(o)' /\ Reached(o)'
    BY <2>1, <2>2, <2>3 DEF InOrder, Built, Reached, In, Ready
  <2> QED BY <2>4, <2>5 DEF InOrder
<1>13. ASSUME NEW o \in Objects, Destroy(o) \/ DtorShutdown(o) PROVE InOrder'
  BY <1>5, <1>13 DEF Destroy, DtorShutdown, winsock, sockets
<1>14. ASSUME NEW o \in Objects, DtorClose(o) PROVE InOrder'
  <2>1. /\ obj' = [obj EXCEPT ![o] = Absent] /\ Holds(o) /\ UNCHANGED restarted
        /\ \A h \in Handles : table'[h] = table[h] \/ table'[h] = NoSock
        /\ \A s \in Sock : s # Reaches(o) => mode'[s] = mode[s]
    BY <1>14 DEF DtorClose, Holds, In, winsock
  <2>2. obj'[o].phase = "absent" /\ \A q \in Objects : q # o => obj'[q] = obj[q]
    BY <2>1 DEF TypeOK, Absent, Object
  <2>3. Built(o)' /\ Reached(o)'
    BY <2>2 DEF Built, Reached, In
  <2> QED BY <2>1, <2>2, <2>3, OthersInOrder DEF InOrder
<1> QED BY <1>2, <1>3, <1>4, <1>6, <1>7, <1>8, <1>9, <1>10, <1>11, <1>12, <1>13, <1>14
        DEF Next, Step

LEMMA OrderInvariant == Spec => []InOrder
<1>1. Init => InOrder
  BY DEF Init, InOrder, Built, Reached, In, Absent, Object
<1> QED BY <1>1, InOrderSteps, SessionTypeCorrect, OwnershipInvariant, PTL DEF Spec

(* An object that came out of a constructor of the factory is bound,       *)
(* listening or connected, or cleanup() has closed its socket, as long as  *)
(* Winsock was not started anew with objects left over.                    *)
THEOREM FactoryObjectsAreReady == Spec => []FactoryReady
<1>1. InOrder => FactoryReady
  BY DEF InOrder, Built, Reached, FactoryReady
<1> QED BY <1>1, OrderInvariant, PTL

(* assert(is_listening()) ends no program with a tcp_server_socket before  *)
(* Winsock was started anew; only the assertion on the member does.        *)
THEOREM ServersPassTheAssertion == Spec => []AbortIsGarbage
<1>1. Init => AbortIsGarbage
  BY DEF Init, AbortIsGarbage
<1>2. ASSUME TypeOK, InOrder, AbortIsGarbage, [Next]_vars PROVE AbortIsGarbage'
  <2>1. CASE UNCHANGED vars
    BY <1>2, <2>1 DEF vars, winsock, AbortIsGarbage
  <2>2. ASSUME aborted' = {} PROVE AbortIsGarbage'
    BY <2>2 DEF AbortIsGarbage
  <2>3. ASSUME NEW o \in Objects, aborted' = {[who |-> o, why |-> "garbage"]}
        PROVE  AbortIsGarbage'
    BY <2>3 DEF AbortIsGarbage
  <2>4. ASSUME NEW o \in Objects, NEW p \in Objects, AcceptCall(o, p) PROVE AbortIsGarbage'
    <3>1. CASE aborted' = aborted
      BY <2>2, <2>4, <3>1 DEF AcceptCall, Running
    <3>2. CASE /\ build.asserts /\ ~IsListening(Reaches(p))
               /\ aborted' = {[who |-> p, why |-> "not_listening"]}
               /\ UNCHANGED <<obj, via>>
      <4>1. /\ In(p, "live") /\ Accepts(obj[p].kind) /\ restarted' = restarted
            /\ Reaches(p) # NoSock /\ mode[Reaches(p)] # "listening"
        BY <2>4, <3>2, ReachesType, <1>2 DEF AcceptCall, winsock, IsListening
      <4>2. obj[p].kind \in {"base", "tcp_server"}
        BY <1>2, <4>1 DEF Accepts, Offers, TypeOK, Classes, InOrder, Built
      <4>3. obj[p].kind = "base" \/ restarted
        BY <1>2, <4>1, <4>2 DEF InOrder, Reached, Ready
      <4> QED BY <3>2, <4>1, <4>3 DEF AbortIsGarbage
    <3> QED BY <2>4, <3>1, <3>2 DEF AcceptCall
  <2>5. CASE Next
    <3>1. Running
      BY <2>5 DEF Next, Step, Startup, Cleanup, Arrive, OpenSocket, CtorCall, BaseCall,
                  AcceptCall, AcceptEnter, AcceptErrs, AcceptFails, AcceptReturn, Stop, Destroy,
                  DtorShutdown, DtorClose
    <3>2. \/ aborted' = aborted
          \/ \E o \in Objects : Garbage(o)
          \/ \E o, p \in Objects : AcceptCall(o, p)
      BY <2>5 DEF Next, Step, Startup, Cleanup, Arrive, OpenSocket, CtorCall, BaseCall,
                  AcceptEnter, AcceptErrs, AcceptFails, AcceptReturn, Stop, Destroy,
                  DtorShutdown, DtorClose
    <3> QED BY <2>2, <2>3, <2>4, <3>1, <3>2 DEF Running, Garbage
  <2> QED BY <1>2, <2>1, <2>5
<1> QED BY <1>1, <1>2, SessionTypeCorrect, OrderInvariant, PTL DEF Spec
=============================================================================
