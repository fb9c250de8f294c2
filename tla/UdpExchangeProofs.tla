-------------------------- MODULE UdpExchangeProofs --------------------------
(***************************************************************************)
(* What holds of UdpExchange for every number of clients, workers, writes  *)
(* and crashes.                                                            *)
(***************************************************************************)
EXTENDS UdpExchange, TLAPS

-----------------------------------------------------------------------------
(* The shapes of datagrams and workers.                                    *)

(* A datagram to the server is a client's request.                         *)
LEMMA RequestShape ==
    ASSUME NEW d \in Requests \cup Answers, d.to = Server
    PROVE  d.from \in Clients /\ d.payload \in Payloads
  BY UdpAssumption DEF Requests, Answers, Datagram

(* A worker that is not idle has a client's message in hand.               *)
LEMMA WorkerShape ==
    ASSUME NEW s \in WorkerStates, s.pc # "idle"
    PROVE  s.from \in Clients /\ s.payload \in Payloads
  BY DEF WorkerStates, Idle, Worker, Payloads

(* Whatever was read, the worker is idle or has text to answer.            *)
LEMMA AfterReadShape ==
    ASSUME NEW c \in Clients, NEW p \in Payloads
    PROVE  AfterRead(c, p) \in WorkerStates
  BY DEF AfterRead, WorkerStates, Payloads

-----------------------------------------------------------------------------
(* Type correctness: requests and answers keep their shape, and a worker   *)
(* never answers a message whose read call threw.                          *)
THEOREM UdpTypeCorrect == Spec => []TypeOK
<1>1. Init => TypeOK
  <2> SUFFICES ASSUME Init PROVE TypeOK
    OBVIOUS
  <2>1. worker \in [Workers -> WorkerStates]
    BY DEF Init, WorkerStates
  <2>2. client \in [Clients -> {"ready", "waiting"}]
    BY DEF Init
  <2>3. writes \in 0..MaxWrites /\ crashes \in 0..MaxCrashes
    BY UdpAssumption DEF Init
  <2>. QED
    BY <2>1, <2>2, <2>3 DEF Init, TypeOK
<1>2. TypeOK /\ [Next]_vars => TypeOK'
  <2> SUFFICES ASSUME TypeOK, [Next]_vars PROVE TypeOK'
    OBVIOUS
  <2>a. worker \in [Workers -> WorkerStates]
    BY DEF TypeOK
  <2>1. ASSUME NEW c \in Clients, NEW p \in Payloads, ClientWrite(c, p) PROVE TypeOK'
    <3>1. Datagram(c, Server, c, p) \in Requests
      BY DEF Requests
    <3>2. client' \in [Clients -> {"ready", "waiting"}] /\ writes' \in 0..MaxWrites
      BY <2>1, UdpAssumption DEF ClientWrite, AfterWrite, TypeOK
    <3>. QED
      BY <2>1, <3>1, <3>2 DEF ClientWrite, TypeOK
  <2>2. ASSUME NEW c \in Clients, NEW d \in wire, ClientRead(c, d) PROVE TypeOK'
    BY <2>2 DEF ClientRead, Taken, TypeOK
  <2>3. ASSUME NEW c \in Clients, ClientRefused(c) PROVE TypeOK'
    BY <2>3 DEF ClientRefused, TypeOK
  <2>4. ASSUME NEW w \in Workers, NEW d \in wire, Receive(w, d)
        PROVE  TypeOK'
    <3>1. d.from \in Clients /\ d.payload \in Payloads
      BY <2>4, RequestShape DEF Receive, TypeOK
    <3>2. Worker("receiving", d.from, d.payload) \in WorkerStates
      BY <3>1 DEF WorkerStates
    <3>3. worker' \in [Workers -> WorkerStates]
      BY <2>4, <2>a, <3>2 DEF Receive
    <3>4. wire' \subseteq wire
      BY <2>4 DEF Receive, Taken
    <3>. QED
      BY <2>4, <3>3, <3>4 DEF Receive, TypeOK
  <2>5. ASSUME NEW w \in Workers, Store(w) PROVE TypeOK'
    <3>1. worker[w].from \in Clients /\ worker[w].payload \in Payloads
      BY <2>5, <2>a, WorkerShape DEF Store
    <3>2. AfterRead(worker[w].from, worker[w].payload) \in WorkerStates
      BY <3>1, AfterReadShape
    <3>3. worker' \in [Workers -> WorkerStates]
      BY <2>5, <2>a, <3>2 DEF Store
    <3>. QED
      BY <2>5, <3>1, <3>3 DEF Store, TypeOK
  <2>6. ASSUME NEW w \in Workers, NEW p \in Payloads, Answer(w, p) PROVE TypeOK'
    <3>1. worker[w].from \in Clients /\ Destinations \subseteq Clients \cup {Nowhere}
      BY <2>6, <2>a, WorkerShape DEF Answer, Destinations, TypeOK
    <3>2. \A a \in Destinations : Datagram(Server, a, worker[w].from, p) \in Answers
      BY <3>1 DEF Answers
    <3>3. wire' \subseteq Requests \cup Answers
      BY <2>6, <3>2 DEF Answer, TypeOK
    <3>4. worker' \in [Workers -> WorkerStates]
      BY <2>6, <2>a DEF Answer, WorkerStates
    <3>. QED
      BY <2>6, <3>1, <3>3, <3>4 DEF Answer, TypeOK
  <2>7. ASSUME NEW d \in wire, Lose(d) PROVE TypeOK'
    <3>1. d.asker \in Clients
      BY DEF TypeOK, Requests, Answers, Datagram
    <3>. QED
      BY <2>7, <3>1 DEF Lose, TypeOK
  <2>8. ASSUME NEW d \in wire, Refuse(d) PROVE TypeOK'
    <3>1. d.from \in Clients
      BY <2>8, RequestShape DEF Refuse, TypeOK
    <3>. QED
      BY <2>8, <3>1 DEF Refuse, TypeOK
  <2>9. CASE Crash
    <3>1. worker' \in [Workers -> WorkerStates]
      BY <2>9 DEF Crash, WorkerStates
    <3>2. crashes' \in 0..MaxCrashes
      BY <2>9, UdpAssumption DEF Crash, TypeOK
    <3>. QED
      BY <2>9, <3>1, <3>2 DEF Crash, TypeOK
  <2>10. CASE Restart \/ UNCHANGED vars
    BY <2>10 DEF Restart, vars, TypeOK
  <2>. QED
    BY <2>1, <2>2, <2>3, <2>4, <2>5, <2>6, <2>7, <2>8, <2>9, <2>10 DEF Next
<1>. QED
  BY <1>1, <1>2, PTL DEF Spec

(* However many workers share the socket object, none of them ever answers *)
(* to an address nobody wrote into _raddr.                                 *)
THEOREM NoAnswerToNowhere == Spec => []AnswerHasAddress
<1>1. Init => AnswerHasAddress
  BY DEF Init, AnswerHasAddress, Idle, Worker
<1>2. TypeOK /\ AnswerHasAddress /\ [Next]_vars => AnswerHasAddress'
  <2> SUFFICES ASSUME TypeOK, AnswerHasAddress, [Next]_vars,
                      NEW v \in Workers, worker'[v].pc = "answering"
               PROVE  raddr' \in Clients
    BY DEF AnswerHasAddress
  <2>a. worker \in [Workers -> WorkerStates]
    BY DEF TypeOK
  <2>1. ASSUME NEW w \in Workers, NEW d \in wire, Receive(w, d)
        PROVE  raddr' \in Clients
    <3>1. v # w /\ worker'[v] = worker[v]
      BY <2>1, <2>a DEF Receive, Worker
    <3>. QED
      BY <2>1, <3>1 DEF Receive, AnswerHasAddress
  <2>2. ASSUME NEW w \in Workers, Store(w) PROVE raddr' \in Clients
    BY <2>2, <2>a, WorkerShape DEF Store
  <2>3. ASSUME NEW w \in Workers, NEW p \in Payloads, Answer(w, p) PROVE raddr' \in Clients
    BY <2>3 DEF Answer, AnswerHasAddress
  <2>4. CASE Crash
    BY <2>4 DEF Crash, Idle, Worker
  <2>5. ASSUME UNCHANGED <<worker, raddr>> PROVE raddr' \in Clients
    BY <2>5 DEF AnswerHasAddress
  <2>. QED
    BY <2>1, <2>2, <2>3, <2>4, <2>5
       DEF Next, vars, ClientWrite, ClientRead, ClientRefused, Lose, Refuse, Restart
<1>. QED
  BY <1>1, <1>2, UdpTypeCorrect, PTL DEF Spec

(* What makes AnswerGoesToAsker inductive: while the only worker has a     *)
(* message in hand, _raddr is that message's sender.                       *)
AddressOfMessage ==
    \A w \in Workers : worker[w].pc = "answering" => raddr = worker[w].from

LEMMA SingleWorkerAddresses ==
    ASSUME \A w, v \in Workers : w = v
    PROVE  Spec => [](AddressOfMessage /\ AnswerGoesToAsker)
<1> DEFINE Inv == AddressOfMessage /\ AnswerGoesToAsker
<1>1. Init => Inv
  BY DEF Init, AddressOfMessage, AnswerGoesToAsker, Idle, Worker
<1>2. TypeOK /\ Inv /\ [Next]_vars => Inv'
  <2> SUFFICES ASSUME TypeOK, Inv, [Next]_vars PROVE AddressOfMessage' /\ AnswerGoesToAsker'
    OBVIOUS
  <2>a. worker \in [Workers -> WorkerStates]
    BY DEF TypeOK
  <2>1. ASSUME wire' \subseteq wire PROVE AnswerGoesToAsker'
    BY <2>1 DEF AnswerGoesToAsker
  <2>2. ASSUME UNCHANGED <<worker, raddr>> PROVE AddressOfMessage'
    BY <2>2 DEF AddressOfMessage
  <2>3. ASSUME NEW c \in Clients, NEW p \in Payloads, ClientWrite(c, p)
        PROVE  AddressOfMessage' /\ AnswerGoesToAsker'
    BY <2>2, <2>3, UdpAssumption DEF ClientWrite, AnswerGoesToAsker, Datagram
  <2>4. ASSUME NEW w \in Workers, NEW d \in wire, Receive(w, d)
        PROVE  AddressOfMessage' /\ AnswerGoesToAsker'
    <3>1. AddressOfMessage'
      BY <2>4, <2>a DEF Receive, AddressOfMessage, Worker
    <3>. QED
      BY <2>1, <2>4, <3>1 DEF Receive, Taken
  <2>5. ASSUME NEW w \in Workers, Store(w) PROVE AddressOfMessage' /\ AnswerGoesToAsker'
    <3>1. AddressOfMessage'
      <4> SUFFICES ASSUME NEW v \in Workers, worker'[v].pc = "answering"
                   PROVE  raddr' = worker'[v].from
        BY DEF AddressOfMessage
      <4>1. v = w
        OBVIOUS
      <4>. QED
        BY <2>5, <2>a, <4>1 DEF Store, AfterRead, Worker, Idle
    <3>. QED
      BY <2>1, <2>5, <3>1 DEF Store
  <2>6. ASSUME NEW w \in Workers, NEW p \in Payloads, Answer(w, p)
        PROVE  AddressOfMessage' /\ AnswerGoesToAsker'
    <3>1. raddr = worker[w].from /\ raddr \in Clients
      BY <2>6, <2>a, WorkerShape DEF Answer, AddressOfMessage
    <3>2. wire' = wire \/ wire' = wire \cup {Datagram(Server, raddr, worker[w].from, p)}
      BY <2>6, <3>1, UdpAssumption DEF Answer, Destinations
    <3>3. AnswerGoesToAsker'
      BY <2>1, <3>1, <3>2 DEF AnswerGoesToAsker, Datagram
    <3>4. AddressOfMessage'
      BY <2>6, <2>a DEF Answer, AddressOfMessage, Worker, Idle
    <3>. QED
      BY <3>3, <3>4
  <2>7. CASE Crash
    BY <2>1, <2>7 DEF Crash, AddressOfMessage, Worker, Idle
  <2>8. CASE \/ \E c \in Clients : ClientRefused(c)
             \/ \E c \in Clients, d \in wire : ClientRead(c, d)
             \/ \E d \in wire : Lose(d) \/ Refuse(d)
             \/ Restart
             \/ UNCHANGED vars
    BY <2>1, <2>2, <2>8 DEF ClientRefused, ClientRead, Taken, Lose, Refuse, Restart, vars
  <2>. QED
    BY <2>3, <2>4, <2>5, <2>6, <2>7, <2>8 DEF Next
<1>. QED
  BY <1>1, <1>2, UdpTypeCorrect, PTL DEF Spec

(* A server with one worker sends every answer to the client it answers,   *)
(* whatever the network, the other clients and crashes do.                 *)
THEOREM SingleWorkerAnswersAsker ==
    ASSUME \A w, v \in Workers : w = v
    PROVE  Spec => []AnswerGoesToAsker
<1>1. Spec => [](AddressOfMessage /\ AnswerGoesToAsker)
  BY SingleWorkerAddresses
<1>. QED
  BY <1>1, PTL

(* While one worker serves them, a client that is blocked in read() has    *)
(* something to wait for, unless what it waited for was lost, by the       *)
(* network, by a sendto() that failed or with the server's process.        *)
THEOREM BlockedClientsHaveReason ==
    ASSUME \A w, v \in Workers : w = v
    PROVE  Spec => []WaitsForSomething
<1> DEFINE Addressed == AddressOfMessage /\ AnswerGoesToAsker
<1>1. Init => WaitsForSomething
  BY DEF Init, WaitsForSomething
<1>2. TypeOK /\ Addressed /\ WaitsForSomething /\ [Next]_vars => WaitsForSomething'
  <2> SUFFICES ASSUME TypeOK, AddressOfMessage, AnswerGoesToAsker, WaitsForSomething, [Next]_vars,
                      NEW c \in Clients, client'[c] = "waiting", c \notin forsaken'
               PROVE  Waiting(c)'
    BY DEF WaitsForSomething
  <2>a. worker \in [Workers -> WorkerStates] /\ client \in [Clients -> {"ready", "waiting"}]
    BY DEF TypeOK
  <2>b. ASSUME client[c] = "waiting", c \notin forsaken PROVE Waiting(c)
    BY <2>b DEF WaitsForSomething
  <2>c. c # Server /\ \A d \in wire : d.to = c => d.asker = c
    BY UdpAssumption DEF TypeOK, AnswerGoesToAsker, Requests, Answers, Datagram
  <2>d. ASSUME NEW d, d.to # c, d # Datagram(c, Server, c, "text"),
               wire \ {d} \subseteq wire', worker' = worker, Waiting(c), c \notin refused
        PROVE  Waiting(c)'
    BY <2>d DEF Waiting, Asks, InHand
  <2>1. ASSUME NEW b \in Clients, NEW p \in Payloads, ClientWrite(b, p) PROVE Waiting(c)'
    <3>1. CASE b = c
      <4>1. p = "text" /\ wire' = wire \cup {Datagram(c, Server, c, p)}
        BY <2>1, <2>a, <3>1 DEF ClientWrite, AfterWrite, Payloads
      <4>. QED
        BY <4>1 DEF Waiting, Asks
    <3>2. CASE b # c
      <4>1. client[c] = "waiting" /\ c \notin forsaken
        BY <2>1, <2>a, <3>2 DEF ClientWrite
      <4>2. wire \subseteq wire' /\ worker' = worker /\ (c \in refused => c \in refused')
        BY <2>1, <3>2 DEF ClientWrite
      <4>. QED
        BY <2>b, <4>1, <4>2 DEF Waiting, Asks, InHand
    <3>. QED
      BY <3>1, <3>2
  <2>2. ASSUME NEW b \in Clients, NEW d \in wire, ClientRead(b, d) PROVE Waiting(c)'
    <3>1. b # c /\ client[c] = "waiting" /\ c \notin forsaken
      BY <2>2, <2>a DEF ClientRead
    <3>2. d.to # c /\ d # Datagram(c, Server, c, "text")
      BY <2>2, <3>1, UdpAssumption DEF ClientRead, Datagram
    <3>3. wire \ {d} \subseteq wire' /\ worker' = worker /\ refused' = refused
      BY <2>2 DEF ClientRead, Taken
    <3>. QED
      BY <2>b, <2>d, <3>1, <3>2, <3>3 DEF Waiting
  <2>3. ASSUME NEW b \in Clients, ClientRefused(b) PROVE Waiting(c)'
    <3>1. b # c /\ client[c] = "waiting" /\ c \notin forsaken
      BY <2>3, <2>a DEF ClientRefused
    <3>. QED
      BY <2>3, <2>b, <3>1 DEF ClientRefused, Waiting, Asks, InHand
  <2>4. ASSUME NEW w \in Workers, NEW d \in wire, Receive(w, d) PROVE Waiting(c)'
    <3>1. Waiting(c) /\ d.to # c /\ worker[w].payload # "text"
      BY <2>4, <2>a, <2>b, <2>c DEF Receive, WorkerStates, Worker, Idle
    <3>2. wire \ {d} \subseteq wire' /\ refused' = refused
      BY <2>4 DEF Receive, Taken
    <3>3. InHand(c) => InHand(c)'
      BY <2>4, <2>a, <3>1 DEF Receive, InHand
    <3>4. d = Datagram(c, Server, c, "text") => InHand(c)'
      BY <2>4, <2>a DEF Receive, InHand, Datagram, Worker
    <3>. QED
      BY <3>1, <3>2, <3>3, <3>4 DEF Waiting, Asks
  <2>5. ASSUME NEW w \in Workers, Store(w) PROVE Waiting(c)'
    <3>1. Waiting(c) /\ wire' = wire /\ refused' = refused
      BY <2>5, <2>b DEF Store
    <3>2. worker[w].payload = "text" =>
              worker'[w].payload = "text" /\ worker'[w].from = worker[w].from
      BY <2>5, <2>a DEF Store, AfterRead, Worker
    <3>3. InHand(c) => InHand(c)'
      BY <2>5, <2>a, <3>2 DEF Store, InHand
    <3>. QED
      BY <3>1, <3>3 DEF Waiting, Asks
  <2>6. ASSUME NEW w \in Workers, NEW p \in Payloads, Answer(w, p) PROVE Waiting(c)'
    <3>1. client[c] = "waiting" /\ c \notin forsaken /\ refused' = refused /\ wire \subseteq wire'
      BY <2>6 DEF Answer
    <3>2. InHand(c) => \E d \in wire' : d.to = c
      <4> SUFFICES ASSUME InHand(c) PROVE \E d \in wire' : d.to = c
        OBVIOUS
      <4>1. worker[w].from = c /\ raddr = c
        BY <2>6 DEF InHand, AddressOfMessage, Answer
      <4>2. Datagram(Server, c, c, p) \in wire'
        BY <2>6, <4>1, UdpAssumption DEF Answer, Destinations
      <4>. QED
        BY <4>2 DEF Datagram
    <3>. QED
      BY <2>b, <3>1, <3>2 DEF Waiting, Asks
  <2>7. ASSUME NEW d \in wire, Lose(d) PROVE Waiting(c)'
    <3>1. client[c] = "waiting" /\ c \notin forsaken /\ d.asker # c
      BY <2>7 DEF Lose
    <3>2. d.to # c /\ d # Datagram(c, Server, c, "text")
      BY <2>c, <3>1 DEF Datagram
    <3>3. wire \ {d} \subseteq wire' /\ worker' = worker /\ refused' = refused
      BY <2>7 DEF Lose
    <3>. QED
      BY <2>b, <2>d, <3>1, <3>2, <3>3 DEF Waiting
  <2>8. ASSUME NEW d \in wire, Refuse(d) PROVE Waiting(c)'
    <3>1. Waiting(c) /\ d.to # c /\ worker' = worker /\ wire' = wire \ {d}
      BY <2>8, <2>b, <2>c DEF Refuse
    <3>2. refused \subseteq refused' /\ d.from \in refused'
      BY <2>8 DEF Refuse
    <3>3. d = Datagram(c, Server, c, "text") => c \in refused'
      BY <3>2 DEF Datagram
    <3>. QED
      BY <3>1, <3>2, <3>3 DEF Waiting, Asks, InHand
  <2>9. CASE Crash
    <3>1. Waiting(c) /\ ~InHand(c) /\ UNCHANGED <<wire, refused>>
      BY <2>9, <2>b DEF Crash
    <3>. QED
      BY <3>1 DEF Waiting, Asks
  <2>10. CASE Restart \/ UNCHANGED vars
    BY <2>10, <2>b DEF Restart, vars, Waiting, Asks, InHand
  <2>. QED
    BY <2>1, <2>2, <2>3, <2>4, <2>5, <2>6, <2>7, <2>8, <2>9, <2>10 DEF Next
<1>3. Spec => []Addressed
  BY SingleWorkerAddresses
<1>. QED
  BY <1>1, <1>2, <1>3, UdpTypeCorrect, PTL DEF Spec
=============================================================================
