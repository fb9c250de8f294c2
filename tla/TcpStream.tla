------------------------------ MODULE TcpStream ------------------------------
(***************************************************************************)
(* One established connection and the two socket objects at its ends:      *)
(* read, write, stop and the destructor, with the kernels between them.    *)
(*                                                                         *)
(* Bytes are counted, not stored: TCP keeps their order, and what can go   *)
(* wrong is how many arrive.  At each end one thread may be in read() and  *)
(* another in write(), which covers programs of one thread; the ends       *)
(* belong to different processes.                                          *)
(***************************************************************************)
EXTENDS Integers, SocketClasses

CONSTANTS
    Client, Server,  \* the two ends of the connection
    Kind,         \* the class of the socket object at each end
    NoSignal,     \* those whose writes pass MSG_NOSIGNAL
    BufferSize,   \* DEFAULT_BUFFER_SIZE, in bytes
    SendRoom,     \* bound: bytes the kernel takes before it has sent any
    Room,         \* bound: Room[e] bytes fit into e's receive buffer
    MaxMessage,   \* bound: bytes of a write
    MaxSent       \* bound: MaxSent[e] bytes are written at e altogether

ASSUME StreamAssumption ==
    /\ Client # Server /\ NoSignal \subseteq {Client, Server}
    /\ Kind \in [{Client, Server} -> {"base", "tcp_client", "tcp_active"}]
    /\ BufferSize \in Nat \ {0} /\ SendRoom \in Nat \ {0}
    /\ Room \in [{Client, Server} -> Nat \ {0}]
    /\ MaxMessage \in Nat /\ MaxSent \in [{Client, Server} -> Nat]

Ends    == {Client, Server}
Peer(e) == IF e = Client THEN Server ELSE Client

VARIABLES
    obj,          \* each object: "live", "shutdown" half way through its
                  \* destructor, "closed", or "killed" with its process
    reading,      \* a thread is in read()
    left, took,   \* of the write() in progress: bytes the kernel has not yet
                  \* taken, and whether it has taken any
    sent,         \* bytes the kernel took from this end
    wire,         \* those of them still on their way
    queue,        \* bytes in this end's receive buffer
    got,          \* bytes read() has returned here
    fin,          \* this end's FIN: "none", "sent" or "arrived"
    conn,         \* the socket: "up", "reset" with ECONNRESET still to be
                  \* reported, or "dead"
    rst,          \* an RST is on its way to this end
    shut,         \* the directions shut down here
    ceased,       \* history: stop(WRITE) or stop(READ_AND_WRITE) was called here
    threw         \* history: a read() has thrown here

call   == <<reading, left, took>>
bytes  == <<sent, wire, queue, got>>
socket == <<fin, conn, rst, shut>>
vars   == <<obj, call, bytes, socket, ceased, threw>>

Both == {"RD", "WR"}

Init ==
    /\ obj = [e \in Ends |-> "live"]
    /\ reading = [e \in Ends |-> FALSE]
    /\ left = [e \in Ends |-> 0] /\ took = [e \in Ends |-> FALSE]
    /\ sent = [e \in Ends |-> 0] /\ wire = [e \in Ends |-> 0]
    /\ queue = [e \in Ends |-> 0] /\ got = [e \in Ends |-> 0]
    /\ fin = [e \in Ends |-> "none"] /\ conn = [e \in Ends |-> "up"]
    /\ rst = [e \in Ends |-> FALSE] /\ shut = [e \in Ends |-> {}]
    /\ ceased = [e \in Ends |-> FALSE] /\ threw = [e \in Ends |-> FALSE]

-----------------------------------------------------------------------------
(* Closing a socket: with bytes unread the kernel resets the connection,   *)
(* otherwise the FIN follows what is still to be sent.                     *)
Finished(e) == [fin EXCEPT ![e] = IF @ = "none" /\ conn[e] = "up" THEN "sent" ELSE @]

Close(e, how) ==
    LET unread == conn[e] = "up" /\ queue[e] > 0 IN
    /\ obj' = [obj EXCEPT ![e] = how]
    /\ reading' = [reading EXCEPT ![e] = FALSE]
    /\ left' = [left EXCEPT ![e] = 0]
    /\ queue' = [queue EXCEPT ![e] = 0]
    /\ fin' = IF unread THEN fin ELSE Finished(e)
    /\ conn' = [conn EXCEPT ![e] = IF unread THEN "dead" ELSE @]
    /\ rst' = [rst EXCEPT ![Peer(e)] = @ \/ unread]
    /\ UNCHANGED <<took, sent, wire, got, shut, ceased, threw>>

ShutDown(e, how) ==
    /\ shut' = [shut EXCEPT ![e] = @ \cup how]
    /\ fin' = IF "WR" \in how THEN Finished(e) ELSE fin
    /\ UNCHANGED <<conn, rst>>

-----------------------------------------------------------------------------
(* write(): send() blocks until the kernel has taken every byte, and it    *)
(* takes none while the buffer is full.                                    *)

MaySend(e) == conn[e] = "up" /\ "WR" \notin shut[e]

WriteCall(e, n) ==
    /\ obj[e] = "live" /\ left[e] = 0
    /\ sent[e] + n <= MaxSent[e]
    /\ left' = [left EXCEPT ![e] = n]
    /\ UNCHANGED <<obj, reading, took, bytes, socket, ceased, threw>>

(* With the last byte the call returns.                                    *)
Take(e) ==
    /\ left[e] > 0 /\ MaySend(e) /\ wire[e] < SendRoom
    /\ left' = [left EXCEPT ![e] = @ - 1]
    /\ took' = [took EXCEPT ![e] = left[e] > 1]
    /\ sent' = [sent EXCEPT ![e] = @ + 1]
    /\ wire' = [wire EXCEPT ![e] = @ + 1]
    /\ UNCHANGED <<obj, reading, queue, got, socket, ceased, threw>>

(* send() fails.  If it has taken bytes it returns their number and write  *)
(* does not throw; a reset that was not yet reported makes it throw; then, *)
(* and after a shutdown, EPIPE comes with SIGPIPE unless the flags say no. *)
Fails(e) ==
    /\ ~MaySend(e)
    /\ \/ /\ took[e] \/ conn[e] = "reset" \/ e \in NoSignal
          /\ left' = [left EXCEPT ![e] = 0]
          /\ conn' = [conn EXCEPT ![e] = IF @ = "reset" /\ ~took[e] THEN "dead" ELSE @]
          /\ took' = [took EXCEPT ![e] = FALSE]
          /\ UNCHANGED <<obj, reading, bytes, fin, rst, shut, ceased, threw>>
       \/ /\ ~(took[e] \/ conn[e] = "reset" \/ e \in NoSignal)
          /\ Close(e, "killed")

(* Mutation: a loop until everything is sent that does not look at errors. *)
WriteRetries(e) == left[e] > 0 /\ ~MaySend(e) /\ UNCHANGED vars

WriteFails(e) == left[e] > 0 /\ Fails(e)

(* A write of nothing fails in the same way.  Where it does not, send()    *)
(* returns 0 and write throws: nothing has changed.                        *)
WriteEmpty(e) == obj[e] = "live" /\ left[e] = 0 /\ Fails(e)

-----------------------------------------------------------------------------
(* read(): recv() into a buffer of BufferSize bytes.                       *)

ReadCall(e) ==
    /\ obj[e] = "live" /\ ~reading[e]
    /\ reading' = [reading EXCEPT ![e] = TRUE]
    /\ UNCHANGED <<obj, left, took, bytes, socket, ceased, threw>>

(* Mutations: what does not fit is dropped, as it is with datagrams; what  *)
(* is read also stays, as with MSG_PEEK.                                   *)
UnreadDropped(n) == 0
UnreadKept(n) == n

(* What recv() takes of n bytes, and what it leaves in the receive buffer. *)
Taken(n)  == IF n <= BufferSize THEN n ELSE BufferSize
Unread(n) == n - Taken(n)

ReadReturn(e) ==
    /\ reading[e] /\ queue[e] > 0
    /\ reading' = [reading EXCEPT ![e] = FALSE]
    /\ got' = [got EXCEPT ![e] = @ + Taken(queue[e])]
    /\ queue' = [queue EXCEPT ![e] = Unread(@)]
    /\ UNCHANGED <<obj, left, took, sent, wire, socket, ceased, threw>>

(* End of stream, a stopped direction and a reset all make read() throw.   *)
(* The FIN is reported before a reset that came after it.                  *)
ReadThrows(e) ==
    LET ended == fin[Peer(e)] = "arrived" IN
    /\ reading[e] /\ queue[e] = 0
    /\ ended \/ "RD" \in shut[e] \/ conn[e] # "up"
    /\ reading' = [reading EXCEPT ![e] = FALSE]
    /\ threw' = [threw EXCEPT ![e] = TRUE]
    /\ conn' = [conn EXCEPT ![e] = IF @ = "reset" /\ ~ended THEN "dead" ELSE @]
    /\ UNCHANGED <<obj, left, took, bytes, fin, rst, shut, ceased>>

-----------------------------------------------------------------------------
(* stop() and the destructor.                                              *)

Actions == {"READ", "WRITE", "READ_AND_WRITE"}

(* Mutation: the directions swapped, as the comments in stop() have them.  *)
HowSwapped(a) ==
    CASE a = "READ" -> {"WR"}
      [] a = "WRITE" -> {"RD"}
      [] a = "READ_AND_WRITE" -> Both

How(a) ==
    CASE a = "READ" -> {"RD"}
      [] a = "WRITE" -> {"WR"}
      [] a = "READ_AND_WRITE" -> Both

(* Of the classes with a stream only a base_socket offers stop().  Without *)
(* a connection shutdown() fails, and stop() throws.                       *)
Stop(e, a) ==
    /\ "stop" \in Offers(Kind[e])
    /\ obj[e] = "live" /\ conn[e] = "up"
    /\ ShutDown(e, How(a))
    /\ ceased' = [ceased EXCEPT ![e] = @ \/ a # "READ"]
    /\ UNCHANGED <<obj, call, bytes, threw>>

DtorShutdown(e) ==
    /\ obj[e] = "live" /\ ~reading[e] /\ left[e] = 0
    /\ obj' = [obj EXCEPT ![e] = "shutdown"]
    /\ IF conn[e] = "up" THEN ShutDown(e, Both) ELSE UNCHANGED socket
    /\ UNCHANGED <<call, bytes, ceased, threw>>

DtorClose(e) ==
    /\ obj[e] = "shutdown"
    /\ Close(e, "closed")

-----------------------------------------------------------------------------
(* The kernels and the network.                                            *)

Present(e)   == obj[e] \in {"live", "shutdown"}
Accepting(e) == Present(e) /\ conn[e] = "up" /\ shut[e] # Both

Deliver(e) ==
    LET p == Peer(e) IN
    /\ wire[e] > 0 /\ Accepting(p) /\ queue[p] < Room[p]
    /\ wire' = [wire EXCEPT ![e] = @ - 1]
    /\ queue' = [queue EXCEPT ![p] = @ + 1]
    /\ UNCHANGED <<obj, call, sent, got, socket, ceased, threw>>

(* Nobody will read these bytes: their sender gets an RST.                 *)
Refuse(e) ==
    LET p == Peer(e) IN
    /\ wire[e] > 0 /\ ~Accepting(p)
    /\ wire' = [wire EXCEPT ![e] = 0]
    /\ rst' = [rst EXCEPT ![e] = TRUE]
    /\ conn' = [conn EXCEPT ![p] = IF @ = "up" THEN "reset" ELSE @]
    /\ UNCHANGED <<obj, call, sent, queue, got, fin, shut, ceased, threw>>

FinArrive(e) ==
    /\ fin[e] = "sent" /\ wire[e] = 0 /\ conn[Peer(e)] = "up"
    /\ fin' = [fin EXCEPT ![e] = "arrived"]
    /\ UNCHANGED <<obj, call, bytes, conn, rst, shut, ceased, threw>>

(* An RST overtakes what was still to be sent, either way; received bytes  *)
(* stay readable.                                                          *)
RstArrive(e) ==
    /\ rst[e]
    /\ rst' = [rst EXCEPT ![e] = FALSE]
    /\ wire' = [x \in Ends |-> 0]
    /\ conn' = [conn EXCEPT ![e] = IF @ # "up" THEN @
                                   ELSE IF fin[Peer(e)] = "arrived" THEN "dead" ELSE "reset"]
    /\ UNCHANGED <<obj, call, sent, queue, got, fin, shut, ceased, threw>>

-----------------------------------------------------------------------------
Step(e) ==
    \/ \E n \in 1..MaxMessage : WriteCall(e, n)
    \/ Take(e) \/ WriteFails(e) \/ WriteEmpty(e)
    \/ ReadCall(e) \/ ReadReturn(e) \/ ReadThrows(e)
    \/ \E a \in Actions : Stop(e, a)
    \/ DtorShutdown(e) \/ DtorClose(e)
    \/ Deliver(e) \/ Refuse(e) \/ FinArrive(e) \/ RstArrive(e)

Next == \E e \in Ends : Step(e)

Spec == Init /\ [][Next]_vars

(* Threads inside a call or a destructor go on, and the network delivers   *)
(* what TCP keeps sending.  Nothing is assumed of when programs read,      *)
(* write, stop or destroy.                                                 *)
Fairness ==
    \A e \in Ends :
        /\ WF_vars(Take(e)) /\ WF_vars(WriteFails(e))
        /\ WF_vars(ReadReturn(e)) /\ WF_vars(ReadThrows(e)) /\ WF_vars(DtorClose(e))
        /\ WF_vars(Deliver(e)) /\ WF_vars(Refuse(e))
        /\ WF_vars(FinArrive(e)) /\ WF_vars(RstArrive(e))

FairSpec == Spec /\ Fairness

-----------------------------------------------------------------------------
(* Properties.                                                             *)

(* The values the variables range over; every byte is at most in one place *)
(* and none is read that was not sent.                                     *)
TypeOK ==
    /\ obj \in [Ends -> {"live", "shutdown", "closed", "killed"}]
    /\ reading \in [Ends -> BOOLEAN] /\ took \in [Ends -> BOOLEAN]
    /\ left \in [Ends -> 0..MaxMessage]
    /\ sent \in [Ends -> Nat] /\ got \in [Ends -> Nat]
    /\ wire \in [Ends -> Nat] /\ queue \in [Ends -> Nat]
    /\ \A e \in Ends : /\ wire[e] <= SendRoom /\ queue[e] <= Room[e]
                       /\ wire[e] + queue[Peer(e)] + got[Peer(e)] <= sent[e]
                       /\ sent[e] + left[e] <= MaxSent[e]
    /\ fin \in [Ends -> {"none", "sent", "arrived"}]
    /\ conn \in [Ends -> {"up", "reset", "dead"}]
    /\ rst \in [Ends -> BOOLEAN]
    /\ shut \in [Ends -> SUBSET Both]
    /\ ceased \in [Ends -> BOOLEAN] /\ threw \in [Ends -> BOOLEAN]

(* read() throws at the end of the stream as it does on an error.  What a  *)
(* caller may still conclude: unless it stopped reading itself or the      *)
(* connection was reset, it has got every byte the peer's writes took.     *)
EndMeansAll ==
    \A e \in Ends :
        threw[e] /\ "RD" \notin shut[e] /\ conn[e] = "up" => got[e] = sent[Peer(e)]

(* Bytes a write took never reach the reader only when the reader is away, *)
(* or when the writer went away before it had read all it was sent: the    *)
(* server of main.cpp loses its answer if it destroys its socket with part *)
(* of a long request unread.                                               *)
Away(e) == obj[e] # "live" \/ shut[e] = Both

LossNeedsUnread ==
    \A e \in Ends : LET p == Peer(e) IN
        sent[e] = wire[e] + queue[p] + got[p]
        \/ Away(p)
        \/ (Away(e) /\ got[e] < sent[p])

(* What StreamPipe sees of the direction in which e writes.                *)
StateFrom(e) ==
    LET p == Peer(e) IN
    IF obj[p] # "live" \/ "RD" \in shut[p] \/ conn[p] # "up" THEN "cut"
    ELSE IF threw[p] THEN "ended" ELSE "open"

InsideFrom(e) == wire[e] + queue[Peer(e)]

ToServer == INSTANCE StreamPipe
               WITH Chunk <- BufferSize, written <- sent[Client], read <- got[Server],
                    inside <- InsideFrom(Client), state <- StateFrom(Client)

ToClient == INSTANCE StreamPipe
               WITH Chunk <- BufferSize, written <- sent[Server], read <- got[Client],
                    inside <- InsideFrom(Server), state <- StateFrom(Server)

(* Each direction is a pipe: in no order of calls, deliveries, FINs and    *)
(* resets is a byte lost or read twice before the reader gives up or is    *)
(* reset, and a read that threw at the end stays right: nothing is written *)
(* after it.                                                               *)
ImplementsPipes == ToServer!Spec /\ ToClient!Spec

(* A read blocked when the peer stops writing or goes away ends.            *)
ReadEnds ==
    \A e \in Ends :
        reading[e] /\ (ceased[Peer(e)] \/ obj[Peer(e)] # "live") ~> ~reading[e]

(* A write that never ends has a live peer that never reads again, and has *)
(* filled the buffers on the way: resets, shutdowns, destructors and every *)
(* read of the peer bring it to its end.  Two ends that write to each other*)
(* without reading may both be jammed like this.                           *)
Jammed(e) ==
    LET p == Peer(e) IN
    /\ obj[p] = "live" /\ ~reading[p]
    /\ wire[e] = SendRoom /\ queue[p] = Room[p]

WriteEnds == \A e \in Ends : <>[](left[e] > 0) => <>[]Jammed(e)

(* "or -1 if an error occurred" (linux_socket.cpp:53): a write that cannot *)
(* send comes back, to throw.                                              *)
WriteComesBack ==
    \A e \in Ends : obj[e] # "killed"
=============================================================================
