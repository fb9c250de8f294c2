--------------------------- MODULE PortReuseProofs ---------------------------
(***************************************************************************)
(* Bound addresses for any number of servers, connections and ports.       *)
(***************************************************************************)
EXTENDS PortReuse, TLAPS

ObjectSet == [phase : Phases, kind : ServerClasses \cup {"none"},
              port : Ports \cup {NoPort}, opts : SUBSET Options, asked : BOOLEAN]

ConnSet == [state : ConnStates, port : Ports \cup {NoPort},
            via : Objects \cup {"none"}, opts : SUBSET Options,
            object : BOOLEAN, first : {"none", "self", "peer"}, asked : BOOLEAN]

(* An object has the options its constructor set, a port once it is bound, *)
(* and it listens on a port of TCP.                                        *)
ObjectOk(o) ==
    /\ obj[o].phase # "absent" => obj[o].opts = FirstOptions
    /\ obj[o].phase \in {"absent", "open"} => obj[o].port = NoPort
    /\ obj[o].phase \in {"bound", "listening", "stopped"} => obj[o].port \in Ports
    /\ obj[o].phase = "listening" => Stream(obj[o].kind)

(* A connection has the options of the server it came to; it waits only    *)
(* while that one listens on its port; without an object it is one this    *)
(* side closed.                                                            *)
ConnOk(c) ==
    /\ conn[c].state # "none" => conn[c].opts = FirstOptions
    /\ conn[c].state = "pending" =>
           /\ conn[c].via \in Objects
           /\ obj[conn[c].via].phase = "listening"
           /\ obj[conn[c].via].port = conn[c].port
    /\ conn[c].state \in {"open", "peer_closed", "reset"} => conn[c].object
    /\ conn[c].state \in {"none", "pending"} => ~conn[c].object
    /\ conn[c].state \in {"fin_wait", "time_wait"} => conn[c].first = "self"

PortInv ==
    /\ TypeOK
    /\ \A o \in Objects : ObjectOk(o)
    /\ \A c \in Conns : ConnOk(c)

-----------------------------------------------------------------------------
(* The kernel's rules, given the options the code sets.                    *)

LEMMA OptionsByPhase ==
    ASSUME PortInv, NEW o \in Objects, obj[o].phase = "open", NEW p \in Ports, ~Available(o, p)
    PROVE  /\ system = "linux"
           /\ BoundTo(p, obj[o].kind) # {} \/ ConnsOn(p, obj[o].kind) # {}
<1>1. obj[o].opts = FirstOptions /\ system \in {"linux", "windows"}
  BY PortsAssumption DEF PortInv, ObjectOk, TypeOK
<1>2. ASSUME NEW q \in BoundTo(p, obj[o].kind) PROVE obj[q].opts = FirstOptions
  BY <1>2, PortsAssumption DEF PortInv, ObjectOk, BoundTo
<1>3. ASSUME NEW c \in ConnsOn(p, obj[o].kind) PROVE conn[c].opts = FirstOptions
  BY <1>3 DEF PortInv, ConnOk, ConnsOn, Tied
<1>4. ASSUME system = "windows" PROVE FALSE
  BY <1>1, <1>2, <1>3, <1>4 DEF Available, MayShare, FirstOptions
<1>. QED
  BY <1>1, <1>4 DEF Available

(* On Linux no two sockets share a port.                                   *)
LEMMA NothingShared ==
    ASSUME PortInv, system = "linux", NEW o \in Objects, NEW p \in Ports, Available(o, p),
           obj[o].phase = "open"
    PROVE  BoundTo(p, obj[o].kind) = {}
  BY DEF PortInv, ObjectOk, Available, MayShare, FirstOptions

-----------------------------------------------------------------------------
(* Steps of an object that leave the connections alone.                    *)
LEMMA ObjectSteps ==
    ASSUME PortInv, NEW o \in Objects,
           \/ \E k \in Kinds : Open(o, k)
           \/ \E p \in Ports : Bind(o, p) \/ BindThrows(o, p)
           \/ Reset(o) \/ Listen(o) \/ ListenThrows(o)
    PROVE  PortInv'
<1>1. system' = system /\ conn' = conn /\ refused' \subseteq refused \cup {o}
  BY DEF Open, Bind, BindThrows, Reset, Listen, ListenThrows
<1>2. obj' \in [Objects -> ObjectSet] /\ \A q \in Objects : q # o => obj'[q] = obj[q]
  <2>1. CASE \E k \in Kinds : Open(o, k)
    BY <2>1, PortsAssumption
       DEF Open, Object, ObjectSet, PortInv, TypeOK, FirstOptions, Options, Phases
  <2>2. CASE \E p \in Ports : Bind(o, p) \/ BindThrows(o, p)
    BY <2>2 DEF Bind, BindThrows, SetPhase, ObjectSet, PortInv, TypeOK, Phases
  <2>3. CASE Reset(o) \/ Listen(o) \/ ListenThrows(o)
    BY <2>3 DEF Reset, AfterReset, Listen, ListenThrows, SetPhase, ObjectSet, PortInv, TypeOK, Phases
  <2>. QED
    BY <2>1, <2>2, <2>3
<1>3. FirstOptions' = FirstOptions
  BY <1>1 DEF FirstOptions
<1>4. ObjectOk(o)'
  <2>1. CASE \E k \in Kinds : Open(o, k)
    BY <2>1, <1>3 DEF Open, Object, PortInv, TypeOK, ObjectOk
  <2>2. CASE \E p \in Ports : Bind(o, p)
    <3>1. PICK p \in Ports : Bind(o, p)
      BY <2>2
    <3>2. /\ obj'[o].phase = "bound" /\ obj'[o].port = p
          /\ obj'[o].opts = obj[o].opts /\ obj[o].phase = "open"
      BY <3>1 DEF Bind, PortInv, TypeOK
    <3>. QED
      BY <1>3, <3>2 DEF PortInv, ObjectOk
  <2>3. CASE \E p \in Ports : BindThrows(o, p)
    BY <2>3, <1>3 DEF BindThrows, SetPhase, PortInv, TypeOK, ObjectOk
  <2>4. CASE Reset(o)
    BY <2>4, <1>3 DEF Reset, AfterReset, PortInv, TypeOK, ObjectOk, Stream
  <2>5. CASE Listen(o) \/ ListenThrows(o)
    BY <2>5, <1>3 DEF Listen, ListenThrows, SetPhase, PortInv, TypeOK, ObjectOk, Stream
  <2>. QED
    BY <2>1, <2>2, <2>3, <2>4, <2>5
<1>5. \A q \in Objects : ObjectOk(q)'
  BY <1>2, <1>3, <1>4 DEF PortInv, ObjectOk, Stream
<1>6. obj[o].phase = "listening" => obj'[o].phase = "listening" /\ obj'[o].port = obj[o].port
  BY DEF Open, Bind, BindThrows, Reset, Listen, ListenThrows, InCtor, PortInv, TypeOK
<1>7. \A c \in Conns : ConnOk(c)'
  BY <1>1, <1>2, <1>3, <1>6 DEF PortInv, ConnOk
<1>. QED
  BY <1>1, <1>2, <1>5, <1>7 DEF PortInv, TypeOK, ObjectSet

(* Steps that end a server's listening: no connection waits on it then.    *)
LEMMA EndOfService ==
    ASSUME PortInv, NEW o \in Objects, Stop(o) \/ Destroy(o)
    PROVE  PortInv'
<1>1. system' = system /\ refused' \subseteq refused /\ FirstOptions' = FirstOptions
  BY DEF Stop, Destroy, FirstOptions
<1>2. /\ obj' \in [Objects -> ObjectSet] /\ obj'[o].phase \in {"absent", "stopped"}
      /\ \A q \in Objects : q # o => obj'[q] = obj[q]
  <2>1. obj \in [Objects -> ObjectSet]
    BY DEF PortInv, TypeOK, ObjectSet
  <2>2. CASE Stop(o)
    BY <2>1, <2>2 DEF Stop, SetPhase, ObjectSet, Phases
  <2>3. CASE Destroy(o)
    <3>1. Absent \in ObjectSet /\ Absent.phase = "absent"
      BY DEF Absent, Object, ObjectSet, Phases
    <3>. QED
      BY <2>1, <2>3, <3>1 DEF Destroy
  <2>. QED
    BY <2>2, <2>3
<1>3. NoConn \in ConnSet
  BY DEF NoConn, ConnSet, ConnStates, Options
<1>4. conn' = [c \in Conns |->
          IF conn[c].state = "pending" /\ conn[c].via = o THEN NoConn ELSE conn[c]]
  BY DEF Stop, Destroy, Dropped
<1>5. conn' \in [Conns -> ConnSet]
  BY <1>3, <1>4 DEF PortInv, TypeOK, ConnSet
<1>6. \A q \in Objects : ObjectOk(q)'
  <2>1. ObjectOk(o)'
    BY <1>1 DEF Stop, Destroy, SetPhase, Absent, Object, PortInv, TypeOK, ObjectOk, Stream
  <2>. QED
    BY <1>1, <1>2, <2>1 DEF PortInv, ObjectOk, Stream
<1>7. ASSUME NEW c \in Conns PROVE ConnOk(c)'
  <2>1. CASE conn'[c] = NoConn
    BY <2>1 DEF ConnOk, NoConn
  <2>2. CASE conn'[c] = conn[c] /\ ~(conn[c].state = "pending" /\ conn[c].via = o)
    BY <1>1, <1>2, <2>2 DEF PortInv, ConnOk
  <2>. QED
    BY <1>4, <2>1, <2>2
<1>. QED
  BY <1>1, <1>2, <1>5, <1>6, <1>7 DEF PortInv, TypeOK, ObjectSet, ConnSet

(* Steps of a connection.                                                  *)
LEMMA ConnSteps ==
    ASSUME PortInv, NEW c \in Conns,
           \/ \E o \in Objects : Arrive(c, o)
           \/ Accept(c) \/ PeerCloses(c) \/ PeerResets(c) \/ ConnDestroyed(c) \/ Expires(c)
    PROVE  PortInv'
<1>1. UNCHANGED <<system, obj, refused>> /\ FirstOptions' = FirstOptions
  BY DEF Arrive, Accept, PeerCloses, PeerResets, ConnDestroyed, Expires, ConnStep, FirstOptions
<1>2. NoConn \in ConnSet /\ conn \in [Conns -> ConnSet] /\ obj \in [Objects -> ObjectSet]
  BY DEF NoConn, ConnSet, ConnStates, Options, PortInv, TypeOK, ObjectSet
<1>3. conn' \in [Conns -> ConnSet] /\ \A d \in Conns : d # c => conn'[d] = conn[d]
  <2>1. CASE \E o \in Objects : Arrive(c, o)
    <3>1. PICK o \in Objects : Arrive(c, o)
      BY <2>1
    <3>2. obj[o] \in ObjectSet
      BY <1>2
    <3>3. [NoConn EXCEPT !.state = "pending", !.port = obj[o].port, !.via = o,
                         !.opts = obj[o].opts, !.asked = obj[o].asked] \in ConnSet
      BY <1>2, <3>2 DEF NoConn, ConnSet, ObjectSet, ConnStates
    <3>. QED
      BY <1>2, <3>1, <3>3 DEF Arrive
  <2>2. CASE Accept(c) \/ PeerCloses(c)
    BY <1>2, <2>2 DEF Accept, PeerCloses, Becomes, ConnSet, ConnStates
  <2>3. CASE PeerResets(c) \/ Expires(c)
    BY <1>2, <2>3 DEF PeerResets, Expires, Becomes, ConnSet, ConnStates
  <2>4. CASE ConnDestroyed(c)
    BY <1>2, <2>4 DEF ConnDestroyed, Closed, ConnSet, ConnStates
  <2>. QED
    BY <2>1, <2>2, <2>3, <2>4
<1>4. ConnOk(c)'
  <2>0. conn'[c] = NoConn => ConnOk(c)'
    BY DEF ConnOk, NoConn
  <2>1. CASE \E o \in Objects : Arrive(c, o)
    <3>1. PICK o \in Objects : Arrive(c, o)
      BY <2>1
    <3>2. /\ conn'[c].state = "pending" /\ conn'[c].port = obj[o].port
          /\ conn'[c].via = o /\ conn'[c].opts = obj[o].opts /\ ~conn'[c].object
          /\ obj[o].phase = "listening"
      BY <1>2, <3>1 DEF Arrive, NoConn
    <3>. QED
      BY <1>1, <3>2 DEF ConnOk, PortInv, ObjectOk
  <2>2. CASE Accept(c)
    BY <1>1, <1>2, <2>2 DEF Accept, ConnOk, PortInv
  <2>3. CASE PeerCloses(c)
    <3>1. /\ conn'[c].opts = conn[c].opts /\ conn'[c].object = conn[c].object
          /\ \/ /\ conn[c].state = "open" /\ conn'[c].state = "peer_closed"
             \/ /\ conn[c].state = "fin_wait" /\ conn'[c].state = "time_wait"
                /\ conn'[c].first = conn[c].first
      BY <1>2, <2>3 DEF PeerCloses, Becomes, ConnSet
    <3>. QED
      BY <1>1, <3>1 DEF ConnOk, PortInv
  <2>4. CASE PeerResets(c)
    <3>1. \/ conn'[c] = NoConn
          \/ /\ conn'[c].state = "reset" /\ conn[c].object /\ conn[c].state # "none"
             /\ conn'[c].opts = conn[c].opts /\ conn'[c].object = conn[c].object
      BY <1>2, <2>4 DEF PeerResets, Becomes, Tied, ConnSet
    <3>. QED
      BY <1>1, <2>0, <3>1 DEF ConnOk, PortInv
  <2>5. CASE ConnDestroyed(c)
    <3>1. \/ conn'[c] = NoConn
          \/ /\ conn'[c].opts = conn[c].opts /\ conn[c].state \in {"open", "peer_closed"}
             /\ \/ conn'[c].state = "fin_wait" /\ conn'[c].first = "self"
                \/ conn'[c].state = "last_ack"
      BY <1>2, <2>5 DEF ConnDestroyed, Closed, ConnSet
    <3>. QED
      BY <1>1, <2>0, <3>1 DEF ConnOk, PortInv
  <2>6. CASE Expires(c)
    BY <1>2, <2>0, <2>6 DEF Expires
  <2>. QED
    BY <2>1, <2>2, <2>3, <2>4, <2>5, <2>6
<1>5. \A d \in Conns : ConnOk(d)'
  BY <1>1, <1>3, <1>4 DEF PortInv, ConnOk
<1>6. \A q \in Objects : ObjectOk(q)'
  BY <1>1 DEF PortInv, ObjectOk
<1>. QED
  BY <1>1, <1>3, <1>5, <1>6 DEF PortInv, TypeOK, ConnSet

LEMMA PortInvariant == Spec => []PortInv
<1>1. Init => PortInv
  BY DEF Init, PortInv, TypeOK, ObjectOk, ConnOk, Absent, Object, NoConn, Phases, ConnStates, Options
<1>2. PortInv /\ [Next]_vars => PortInv'
  <2> SUFFICES ASSUME PortInv, [Next]_vars PROVE PortInv'
    OBVIOUS
  <2>1. CASE Next
    BY <2>1, ObjectSteps, EndOfService, ConnSteps DEF Next
  <2>2. CASE UNCHANGED vars
    BY <2>2 DEF vars, PortInv, TypeOK, ObjectOk, ConnOk, FirstOptions
  <2>. QED
    BY <2>1, <2>2
<1>. QED
  BY <1>1, <1>2, PTL DEF Spec

(* The state of sockets and connections stays within its ranges; in        *)
(* particular no option other than the two is ever set.                    *)
THEOREM PortTypeCorrect == Spec => []TypeOK
<1>1. PortInv => TypeOK
  BY DEF PortInv
<1>. QED
  BY <1>1, PortInvariant, PTL

(* On Linux a port has one server per protocol, however many objects are   *)
(* reset, bound, stopped and destroyed in whatever order.                  *)
THEOREM OneServerPerPort == Spec => []OneServer
<1>1. Init => OneServer
  BY DEF Init, OneServer, Absent, Object
<1>2. PortInv /\ OneServer /\ [Next]_vars => OneServer'
  <2> SUFFICES ASSUME PortInv, OneServer, [Next]_vars, system' = "linux",
                      NEW o \in Objects, NEW q \in Objects, o # q,
                      obj'[o].port # NoPort, obj'[o].port = obj'[q].port
               PROVE  Stream(obj'[o].kind) # Stream(obj'[q].kind)
    BY DEF OneServer
  <2>0. system = "linux" /\ obj \in [Objects -> ObjectSet]
    BY DEF Next, vars, Open, Bind, BindThrows, Arrive, Reset, Listen, ListenThrows, Stop, Destroy,
           Accept, PeerCloses, PeerResets, ConnDestroyed, Expires, ConnStep, PortInv, TypeOK, ObjectSet
  <2>1. ASSUME \A r \in Objects :
                   obj'[r].port = NoPort \/ (obj'[r].port = obj[r].port /\ obj'[r].kind = obj[r].kind)
        PROVE  Stream(obj'[o].kind) # Stream(obj'[q].kind)
    BY <2>0, <2>1 DEF OneServer
  <2>2. ASSUME NEW r \in Objects, NEW p \in Ports, Bind(r, p)
        PROVE  Stream(obj'[o].kind) # Stream(obj'[q].kind)
    <3>1. BoundTo(p, obj[r].kind) = {}
      BY <2>0, <2>2, NothingShared DEF Bind
    <3>2. /\ obj'[r].port = p /\ obj'[r].kind = obj[r].kind
          /\ \A x \in Objects : x # r => obj'[x] = obj[x]
      BY <2>0, <2>2 DEF Bind, ObjectSet
    <3>3. CASE o # r /\ q # r
      BY <2>0, <3>2, <3>3 DEF OneServer
    <3>4. CASE o = r
      BY <3>1, <3>2, <3>4 DEF BoundTo
    <3>5. CASE q = r
      BY <3>1, <3>2, <3>5 DEF BoundTo
    <3>. QED
      BY <3>3, <3>4, <3>5
  <2>3. ASSUME NEW r \in Objects, NEW k \in Kinds, Open(r, k)
        PROVE  Stream(obj'[o].kind) # Stream(obj'[q].kind)
    BY <2>0, <2>1, <2>3 DEF Open, Object, ObjectSet
  <2>4. ASSUME NEW r \in Objects, Destroy(r)
        PROVE  Stream(obj'[o].kind) # Stream(obj'[q].kind)
    BY <2>0, <2>1, <2>4 DEF Destroy, Absent, Object, ObjectSet
  <2>5. ASSUME NEW r \in Objects, NEW f, SetPhase(r, f)
        PROVE  Stream(obj'[o].kind) # Stream(obj'[q].kind)
    BY <2>0, <2>1, <2>5 DEF SetPhase, ObjectSet
  <2>6. ASSUME NEW r \in Objects, Reset(r)
        PROVE  Stream(obj'[o].kind) # Stream(obj'[q].kind)
    BY <2>0, <2>1, <2>6 DEF Reset, AfterReset, ObjectSet
  <2>7. CASE UNCHANGED obj
    BY <2>1, <2>7
  <2>8. CASE Next
    BY <2>2, <2>3, <2>4, <2>5, <2>6, <2>7, <2>8
       DEF Next, BindThrows, Arrive, Listen, ListenThrows, Stop,
           Accept, PeerCloses, PeerResets, ConnDestroyed, Expires, ConnStep
  <2>. QED
    BY <2>7, <2>8 DEF vars
<1>. QED
  BY <1>1, <1>2, PortInvariant, PTL DEF Spec

(* bind_to finds a port in use for the reasons RefusedForAReason names and *)
(* for no other: a port whose peers closed first is free when its objects  *)
(* are gone and the last acknowledgement is in.                            *)
THEOREM RefusalsHaveReasons == Spec => RefusedForAReason
<1>1. PortInv /\ [Next]_vars =>
        [\A o \in Objects, p \in Ports : BindThrows(o, p) =>
            /\ system = "linux"
            /\ \/ LiveOn(p, obj[o].kind)
               \/ \E c \in ConnsOn(p, obj[o].kind) :
                      conn[c].first = "self" \/ conn[c].state = "last_ack"]_vars
  <2> SUFFICES ASSUME PortInv, NEW o \in Objects, NEW p \in Ports, BindThrows(o, p)
               PROVE  /\ system = "linux"
                      /\ \/ LiveOn(p, obj[o].kind)
                         \/ \E c \in ConnsOn(p, obj[o].kind) :
                                conn[c].first = "self" \/ conn[c].state = "last_ack"
    OBVIOUS
  <2>1. /\ system = "linux"
        /\ BoundTo(p, obj[o].kind) # {} \/ ConnsOn(p, obj[o].kind) # {}
    BY OptionsByPhase DEF BindThrows
  <2>2. ASSUME NEW c \in ConnsOn(p, obj[o].kind), conn[c].state = "pending"
        PROVE  conn[c].via \in BoundTo(p, obj[o].kind)
    BY <2>2 DEF PortInv, ObjectOk, ConnOk, ConnsOn, BoundTo
  <2>3. ASSUME NEW c \in ConnsOn(p, obj[o].kind)
        PROVE  \/ conn[c].state = "pending" \/ conn[c].object
               \/ conn[c].first = "self" \/ conn[c].state = "last_ack"
    BY <2>3 DEF PortInv, TypeOK, ConnOk, ConnsOn, Tied, ConnStates
  <2>. QED
    BY <2>1, <2>2, <2>3 DEF LiveOn
<1>. QED
  BY <1>1, PortInvariant, PTL DEF Spec, RefusedForAReason
=============================================================================
