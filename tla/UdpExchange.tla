----------------------------- MODULE UdpExchange -----------------------------
(***************************************************************************)
(* Requests and answers between udp_client_sockets and one                 *)
(* udp_server_socket, the conversation of main.cpp: a client writes and    *)
(* reads, a worker thread of the server reads from whoever comes next and  *)
(* writes back.  The object's only memory between the two calls is _raddr, *)
(* the sender's address as recvfrom() left it.  The network loses,         *)
(* duplicates and reorders datagrams; the server's process may end, by a   *)
(* crash or by an exception that it does not catch, and another one start  *)
(* on the same port.                                                       *)
(***************************************************************************)
EXTENDS Integers

CONSTANTS
    Clients,      \* processes with a udp_client_socket connected to the server
    Server,       \* the server's address
    Nowhere,      \* whatever an unwritten _raddr holds
    Workers,      \* threads that share the server's one socket object
    MaxWrites,    \* bound: writes of all clients together
    MaxCrashes    \* bound: ends of the server's process

ASSUME UdpAssumption ==
    /\ Server \notin Clients /\ Nowhere \notin Clients \cup {Server}
    /\ MaxWrites \in Nat /\ MaxCrashes \in Nat

(* A message is empty or not: only that decides whether a call throws.     *)
Payloads == {"empty", "text"}

(* asker is history: whose request an answer answers.                      *)
Datagram(f, t, a, p) == [from |-> f, to |-> t, asker |-> a, payload |-> p]

Requests == {Datagram(c, Server, c, p) : c \in Clients, p \in Payloads}
Answers  == {Datagram(Server, a, c, p) : a \in Clients \cup {Nowhere},
                                         c \in Clients, p \in Payloads}

VARIABLES
    wire,      \* datagrams on their way or in a receive buffer
    raddr,     \* _raddr of the server's socket object
    worker,    \* each worker: what it does, and the message it has in hand
    client,    \* each client: "ready", or "waiting" in read()
    refused,   \* clients whose socket has an ICMP refusal to report
    up,        \* the server's process runs
    writes,    \* writes so far
    crashes,   \* crashes so far
    forsaken   \* history: clients of whom a datagram was lost, or whose
               \* message the server threw away since they last wrote

vars == <<wire, raddr, worker, client, refused, up, writes, crashes, forsaken>>

(* receiving: recvfrom() has taken the datagram and not yet stored whose   *)
(* it is.  answering: the read call returned, write_back comes next.       *)
Worker(p, f, m) == [pc |-> p, from |-> f, payload |-> m]
Idle == Worker("idle", Nowhere, "empty")

WorkerStates ==
    {Idle} \cup {Worker("receiving", c, p) : c \in Clients, p \in Payloads}
           \cup {Worker("answering", c, "text") : c \in Clients}

Init ==
    /\ wire = {} /\ refused = {}
    /\ raddr = Nowhere
    /\ worker = [w \in Workers |-> Idle]
    /\ client = [c \in Clients |-> "ready"]
    /\ up = TRUE /\ forsaken = {}
    /\ writes = 0 /\ crashes = 0

-----------------------------------------------------------------------------
(* The client: c.write(...), then c.read().                                *)

(* Mutation: the call's result tested with < 0 instead of <= 0.            *)
AfterWriteAny(p) == "waiting"

(* An empty message is sent as well, but send() returns 0 and write throws:*)
(* the program does not go on to read.                                     *)
AfterWrite(p) == IF p = "empty" THEN "ready" ELSE "waiting"

(* write(): send() fails and nothing is sent, always when a refusal is     *)
(* pending, or the datagram goes out.                                      *)
ClientWrite(c, p) ==
    /\ client[c] = "ready" /\ writes < MaxWrites
    /\ writes' = writes + 1
    /\ \/ /\ refused' = refused \ {c}
          /\ UNCHANGED <<wire, client, forsaken>>
       \/ /\ c \notin refused
          /\ wire' = wire \cup {Datagram(c, Server, c, p)}
          /\ client' = [client EXCEPT ![c] = AfterWrite(p)]
          /\ forsaken' = forsaken \ {c}
          /\ UNCHANGED refused
    /\ UNCHANGED <<raddr, worker, up, crashes>>

(* A datagram leaves the network, or a duplicate of it does.               *)
Taken(d) == d \in wire /\ wire' \in {wire, wire \ {d}}

(* read() blocks without a timeout.  It returns the message, or throws on  *)
(* an empty one: the program goes on either way.                           *)
ClientRead(c, d) ==
    /\ client[c] = "waiting" /\ c \notin refused
    /\ d.to = c /\ Taken(d)
    /\ client' = [client EXCEPT ![c] = "ready"]
    /\ UNCHANGED <<raddr, worker, refused, up, writes, crashes, forsaken>>

(* read() throws "Connection refused".                                     *)
ClientRefused(c) ==
    /\ client[c] = "waiting" /\ c \in refused
    /\ client' = [client EXCEPT ![c] = "ready"]
    /\ refused' = refused \ {c}
    /\ UNCHANGED <<wire, raddr, worker, up, writes, crashes, forsaken>>

-----------------------------------------------------------------------------
(* The server's workers: s.read_from(), then s.write_back(...), as main.cpp*)
(* has them, and again as often as the program likes.  After a call that   *)
(* throws it may go on or end, which Crash stands for.                     *)

(* Mutation: the call's result tested with < 0 instead of <= 0.            *)
AfterReadAny(f, p) == Worker("answering", f, p)

(* An empty message makes the read call throw: there is nothing to answer. *)
AfterRead(f, p) == IF p = "empty" THEN Idle ELSE Worker("answering", f, p)

(* recvfrom() takes a datagram.                                            *)
Receive(w, d) ==
    /\ up /\ worker[w].pc = "idle"
    /\ d.to = Server /\ Taken(d)
    /\ worker' = [worker EXCEPT ![w] = Worker("receiving", d.from, d.payload)]
    /\ UNCHANGED <<raddr, client, refused, up, writes, crashes, forsaken>>

(* Mutations: read_from with an address of its own; one that leaves        *)
(* _raddr to the first sender.                                             *)
StoreLocal(w) ==
    /\ worker[w].pc = "receiving"
    /\ worker' = [worker EXCEPT ![w] = AfterRead(@.from, @.payload)]
    /\ UNCHANGED <<wire, raddr, client, refused, up, writes, crashes, forsaken>>

StoreOnce(w) ==
    /\ worker[w].pc = "receiving"
    /\ raddr' = IF raddr = Nowhere THEN worker[w].from ELSE raddr
    /\ worker' = [worker EXCEPT ![w] = AfterRead(@.from, @.payload)]
    /\ UNCHANGED <<wire, client, refused, up, writes, crashes, forsaken>>

(* recvfrom() stores the sender in _raddr, also when the message is empty  *)
(* and read_from is about to throw.                                        *)
Store(w) ==
    /\ worker[w].pc = "receiving"
    /\ raddr' = worker[w].from
    /\ worker' = [worker EXCEPT ![w] = AfterRead(@.from, @.payload)]
    /\ UNCHANGED <<wire, client, refused, up, writes, crashes, forsaken>>

(* Where write_back sends: an unwritten _raddr may hold any address.       *)
Destinations == IF raddr = Nowhere THEN Clients \cup {Nowhere} ELSE {raddr}

(* write_back(): an empty answer is sent and the call throws.  Where       *)
(* sendto() fails it throws as well, and nothing was sent.                 *)
Answer(w, p) ==
    /\ worker[w].pc = "answering"
    /\ \/ /\ \E a \in Destinations :
                 wire' = wire \cup {Datagram(Server, a, worker[w].from, p)}
          /\ UNCHANGED forsaken
       \/ /\ forsaken' = forsaken \cup {worker[w].from}
          /\ UNCHANGED wire
    /\ worker' = [worker EXCEPT ![w] = Idle]
    /\ UNCHANGED <<raddr, client, refused, up, writes, crashes>>

-----------------------------------------------------------------------------
(* The network and the server's process.                                   *)

Lose(d) ==
    /\ d \in wire
    /\ wire' = wire \ {d}
    /\ forsaken' = forsaken \cup {d.asker}
    /\ UNCHANGED <<raddr, worker, client, refused, up, writes, crashes>>

(* No socket is bound to the server's port: the sender will hear of it.    *)
Refuse(d) ==
    /\ ~up /\ d \in wire /\ d.to = Server
    /\ wire' = wire \ {d}
    /\ refused' = refused \cup {d.from}
    /\ UNCHANGED <<raddr, worker, client, up, writes, crashes, forsaken>>

(* The server has read a message of c and not answered it yet.             *)
InHand(c) == \E w \in Workers : worker[w].from = c /\ worker[w].payload = "text"

(* What the workers had in hand is lost with the process.                  *)
Crash ==
    /\ up /\ crashes < MaxCrashes
    /\ up' = FALSE
    /\ crashes' = crashes + 1
    /\ forsaken' = forsaken \cup {c \in Clients : InHand(c)}
    /\ raddr' = Nowhere
    /\ worker' = [w \in Workers |-> Idle]
    /\ UNCHANGED <<wire, client, refused, writes>>

(* The new process binds a new udp_server_socket to the same address.      *)
Restart ==
    /\ ~up
    /\ up' = TRUE
    /\ UNCHANGED <<wire, raddr, worker, client, refused, writes, crashes, forsaken>>

-----------------------------------------------------------------------------
Next ==
    \/ \E c \in Clients : ClientRefused(c)
    \/ \E c \in Clients, p \in Payloads : ClientWrite(c, p)
    \/ \E c \in Clients, d \in wire : ClientRead(c, d)
    \/ \E w \in Workers, d \in wire : Receive(w, d)
    \/ \E w \in Workers : Store(w)
    \/ \E w \in Workers, p \in Payloads : Answer(w, p)
    \/ \E d \in wire : Lose(d) \/ Refuse(d)
    \/ Crash
    \/ Restart

Spec == Init /\ [][Next]_vars

-----------------------------------------------------------------------------
(* Properties.                                                             *)

(* The values the variables range over.  Requests go from a client to the  *)
(* server, answers the other way, and a worker answers no message whose    *)
(* read call threw.                                                        *)
TypeOK ==
    /\ wire \subseteq Requests \cup Answers
    /\ raddr \in Clients \cup {Nowhere}
    /\ worker \in [Workers -> WorkerStates]
    /\ client \in [Clients -> {"ready", "waiting"}]
    /\ refused \subseteq Clients
    /\ up \in BOOLEAN /\ forsaken \subseteq Clients
    /\ writes \in 0..MaxWrites /\ crashes \in 0..MaxCrashes

(* "transmit a message to back the socket that has been read/read_from"    *)
(* (linux_socket.h:127): an answer goes to the client whose request it     *)
(* answers and to nobody else.                                             *)
AnswerGoesToAsker ==
    \A d \in wire : d.from = Server => d.to = d.asker

(* A worker that has something to answer has an address to send it to,     *)
(* after a crash and a restart too: an unwritten _raddr is never used.     *)
AnswerHasAddress ==
    \A w \in Workers : worker[w].pc = "answering" => raddr \in Clients

(* A client blocked in read() is blocked for a reason: its refusal, its    *)
(* request or an answer to it is on the way, the server has its message in *)
(* hand, or one of these was lost.  No write that throws is waited upon,   *)
(* and no call of another client, crash, restart, duplicate or late answer *)
(* leaves a client without its answer.                                     *)
Asks(c)    == Datagram(c, Server, c, "text") \in wire
Waiting(c) == \/ c \in refused \/ Asks(c) \/ InHand(c)
              \/ \E d \in wire : d.to = c

WaitsForSomething ==
    \A c \in Clients : client[c] = "waiting" => Waiting(c) \/ c \in forsaken
=============================================================================
