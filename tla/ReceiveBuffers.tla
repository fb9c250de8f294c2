---------------------------- MODULE ReceiveBuffers ----------------------------
(***************************************************************************)
(* What read and read_from make of the bytes they receive, on Linux and on *)
(* Windows.  They receive into an array on the stack that nobody clears.   *)
(* On Linux both build their string from the bytes recv() counted.  On     *)
(* Windows read puts a zero byte behind what came and builds its string up *)
(* to the first zero byte, read_from builds it from the whole array.       *)
(*                                                                         *)
(* Streams and Clients read what their one peer sent; with a server of     *)
(* Servers a program calls read_from and passes the message to write_back, *)
(* once or again and again, and may go on after a call that throws.  The   *)
(* objects share nothing, so both systems are looked at together.          *)
(***************************************************************************)
EXTENDS Integers, Sequences

CONSTANTS
    Streams,      \* tcp objects with a connection
    Clients,      \* udp_client_socket objects
    Servers,      \* udp_server_socket objects
    Linux,        \* those of them in a program built for Linux
    Peers,        \* the addresses messages come from
    Nobody,       \* an address that was never written
    Letters,      \* bytes that are not zero
    Nul,          \* the zero byte
    BufferSize,   \* DEFAULT_BUFFER_SIZE
    MaxMessage,   \* bound: bytes of a message
    MaxArrivals   \* bound: messages that reach an object

ASSUME BuffersAssumption ==
    /\ Nul \notin Letters /\ Nobody \notin Peers
    /\ BufferSize \in Nat \ {0} /\ MaxMessage \in Nat /\ MaxArrivals \in Nat
    /\ Linux \subseteq Streams \cup Clients \cup Servers
    /\ Streams \cap (Clients \cup Servers) = {} /\ Clients \cap Servers = {}

Readers == Streams \cup Clients
Objects == Readers \cup Servers
Bytes   == Letters \cup {Nul}
Message == UNION {[1..n -> Bytes] : n \in 1..MaxMessage}
Packets == [from : Peers, data : Seq(Bytes)]

VARIABLES
    inbox,     \* what the kernel holds for each object, with the senders; of
               \* a stream one message, to which more bytes are added
    arrived,   \* how many messages came
    refused,   \* Windows servers with a WSAECONNRESET to report: an answer
               \* came back with "port unreachable"
    raddr,     \* each server's _raddr
    text,      \* the string that read_from returned to a server's program
    asked,     \* history: the message it came from; <<>> when none is in hand
    taken,     \* history: the bytes recv() delivered to a reader so far
    given,     \* history: the bytes read() returned of them
    overrun,   \* history: readers that stored a byte behind their buffer;
               \* what they do from then on is undefined
    answers    \* history: what write_back sent, with the message it answers

kernel  == <<inbox, arrived, refused>>
serving == <<raddr, text, asked, answers>>
reads   == <<taken, given, overrun>>
vars    == <<kernel, serving, reads>>

Nothing == [from |-> Nobody, data |-> <<>>]

Init ==
    /\ inbox = [o \in Objects |-> <<>>] /\ arrived = [o \in Objects |-> 0]
    /\ refused = {}
    /\ raddr = [o \in Servers |-> Nobody] /\ text = [o \in Servers |-> <<>>]
    /\ asked = [o \in Servers |-> Nothing] /\ answers = {}
    /\ taken = [o \in Readers |-> <<>>] /\ given = [o \in Readers |-> <<>>]
    /\ overrun = {}

-----------------------------------------------------------------------------
(* The kernel and the network.                                             *)

Packet(p, d) == [from |-> p, data |-> d]

Arrive(o, p, d) ==
    /\ arrived[o] < MaxArrivals
    /\ arrived' = [arrived EXCEPT ![o] = @ + 1]
    /\ inbox' = [inbox EXCEPT ![o] =
           IF o \in Streams /\ @ # <<>>
           THEN <<Packet(Head(@).from, Head(@).data \o d)>>
           ELSE Append(@, Packet(p, d))]
    /\ UNCHANGED <<refused, serving, reads>>

(* Linux tells an unconnected socket nothing of it.                        *)
Bounce(o) ==
    /\ o \notin Linux
    /\ \E a \in answers : a.by = o
    /\ refused' = refused \cup {o}
    /\ UNCHANGED <<inbox, arrived, serving, reads>>

(* What recv() puts into the buffer, and what it leaves to later calls: of *)
(* a stream the rest, of a datagram nothing.                               *)
Fits(d)      == Len(d) <= BufferSize

(* Mutation: a receive that is told of a longer buffer.                    *)
ReceivedBeyond(d) == d

Received(d)  == IF Fits(d) THEN d ELSE SubSeq(d, 1, BufferSize)
Remaining(o) ==
    LET d == Head(inbox[o]).data IN
    IF o \in Streams /\ ~Fits(d)
    THEN <<Packet(Head(inbox[o]).from, SubSeq(d, BufferSize + 1, Len(d)))>>
    ELSE Tail(inbox[o])

(* A datagram that does not fit is cut on Linux, an error on Windows.      *)
Accepted(o, d) == o \in Linux \cup Streams \/ Fits(d)

(* Mutation: a Linux string built from the whole array.                    *)
CountedNot(d, junk) == [i \in 1..BufferSize |-> IF i <= Len(d) THEN d[i] ELSE junk[i]]

(* std::string(buffer.begin(), i) on Linux: as many bytes as recv() said.  *)
Counted(d, junk) == d

-----------------------------------------------------------------------------
(* read() on Windows: junk is what the uninitialised array and the byte    *)
(* behind it may hold; a zero byte is stored behind what came.             *)
Junk == [1..(BufferSize + 1) -> Bytes]

(* Mutation: the zero byte in place of the last byte that came, where it   *)
(* always fits.                                                            *)
LastPlace(n) == n

ZeroPlace(n) == n + 1

Terminated(d, junk) ==
    [i \in 1..(BufferSize + 1) |->
        IF i = ZeroPlace(Len(d)) THEN Nul ELSE IF i <= Len(d) THEN d[i] ELSE junk[i]]

(* std::string(buffer.data()): up to the first zero byte.                  *)
CString(m) ==
    SubSeq(m, 1, CHOOSE n \in 0..Len(m) : /\ n = Len(m) \/ m[n + 1] = Nul
                                          /\ \A k \in 1..n : m[k] # Nul)

ReadText(d, junk) == CString(Terminated(d, junk))

(* read() on either system.                                                *)
Read(o, junk) ==
    LET d == Received(Head(inbox[o]).data) IN
    /\ inbox[o] # <<>>
    /\ Accepted(o, Head(inbox[o]).data)
    /\ inbox' = [inbox EXCEPT ![o] = Remaining(o)]
    /\ taken' = [taken EXCEPT ![o] = @ \o d]
    /\ given' = [given EXCEPT ![o] = @ \o
           (IF o \in Linux THEN Counted(d, junk) ELSE ReadText(d, junk))]
    /\ overrun' = IF o \notin Linux /\ ZeroPlace(Len(d)) > BufferSize
                  THEN overrun \cup {o} ELSE overrun
    /\ UNCHANGED <<arrived, refused, serving>>

(* On Windows a datagram that does not fit is lost with WSAEMSGSIZE, and   *)
(* read throws.                                                            *)
ReadThrows(o) ==
    /\ inbox[o] # <<>> /\ ~Accepted(o, Head(inbox[o]).data)
    /\ inbox' = [inbox EXCEPT ![o] = Tail(@)]
    /\ UNCHANGED <<arrived, refused, serving, reads>>

-----------------------------------------------------------------------------
(* read_from() and write_back() of a server.                               *)

(* Mutation: the string ended as read ends it.                             *)
WholeCut(d, junk) == ReadText(d, junk)

(* On Windows std::string{buffer.begin(), buffer.end()}: the array, junk   *)
(* included.                                                               *)
Whole(d, junk) ==
    [i \in 1..BufferSize |-> IF i <= Len(d) THEN d[i] ELSE junk[i]]

(* Mutation: an address that is stored by the first call alone.            *)
HeardOnce(o, p) == IF raddr[o] = Nobody THEN p ELSE raddr[o]

Heard(o, p) == p

ReadFrom(o, junk) ==
    LET m == Head(inbox[o]) IN
    /\ inbox[o] # <<>> /\ o \notin refused /\ Accepted(o, m.data)
    /\ asked[o] = Nothing
    /\ inbox' = [inbox EXCEPT ![o] = Tail(@)]
    /\ raddr' = [raddr EXCEPT ![o] = Heard(o, m.from)]
    /\ text' = [text EXCEPT ![o] =
           IF o \in Linux THEN Counted(Received(m.data), junk) ELSE Whole(m.data, junk)]
    /\ asked' = [asked EXCEPT ![o] = m]
    /\ UNCHANGED <<arrived, refused, answers, reads>>

(* read_from throws, on Windows: a message that does not fit has its       *)
(* sender stored all the same, a refusal is nobody's.                      *)
ReadFromThrows(o) ==
    /\ asked[o] = Nothing
    /\ \/ /\ o \in refused
          /\ refused' = refused \ {o}
          /\ UNCHANGED <<inbox, raddr>>
       \/ /\ inbox[o] # <<>> /\ o \notin refused /\ ~Accepted(o, Head(inbox[o]).data)
          /\ inbox' = [inbox EXCEPT ![o] = Tail(@)]
          /\ raddr' = [raddr EXCEPT ![o] = Heard(o, Head(inbox[o]).from)]
          /\ UNCHANGED refused
    /\ UNCHANGED <<arrived, text, asked, answers, reads>>

(* write_back(text): sendto() may fail, which throws with nothing sent.    *)
WriteBack(o) ==
    /\ asked[o] # Nothing
    /\ asked' = [asked EXCEPT ![o] = Nothing]
    /\ answers' \in {answers, answers \cup
           {[by |-> o, to |-> raddr[o], data |-> text[o], request |-> asked[o]]}}
    /\ UNCHANGED <<kernel, raddr, text, reads>>

-----------------------------------------------------------------------------
Next ==
    \/ \E o \in Objects, p \in Peers, d \in Message : Arrive(o, p, d)
    \/ \E o \in Readers : ReadThrows(o) \/ \E junk \in Junk : Read(o, junk)
    \/ \E o \in Servers : \/ Bounce(o) \/ ReadFromThrows(o) \/ WriteBack(o)
                          \/ \E junk \in Junk : ReadFrom(o, junk)

Spec == Init /\ [][Next]_vars

-----------------------------------------------------------------------------
(* Properties.                                                             *)

Texts == UNION {[1..n -> Bytes] : n \in 0..BufferSize}

(* The values the variables range over.                                    *)
TypeOK ==
    /\ inbox \in [Objects -> Seq(Packets)] /\ arrived \in [Objects -> 0..MaxArrivals]
    /\ refused \subseteq Servers
    /\ raddr \in [Servers -> Peers \cup {Nobody}]
    /\ text \in [Servers -> Texts]
    /\ asked \in [Servers -> Packets \cup {Nothing}]
    /\ answers \subseteq [by : Servers, to : Peers \cup {Nobody},
                         data : Texts, request : Packets]
    /\ taken \in [Readers -> Seq(Bytes)] /\ given \in [Readers -> Seq(Bytes)]
    /\ overrun \subseteq Readers

(* Whatever lay in the uninitialised buffer, the strings that read returns *)
(* are together what was received: always on Linux, on Windows as long as  *)
(* no zero byte was, which read takes for the end (winsock_socket.cpp:59), *)
(* and no receive filled the buffer, so that the zero byte of read landed  *)
(* in it (winsock_socket.cpp:58).                                          *)
WholeWithoutNul ==
    \A o \in Readers :
        \/ o \in Linux
        \/ o \notin overrun /\ \A i \in DOMAIN taken[o] : taken[o][i] # Nul
        => given[o] = taken[o]

(* An answer made of what read_from of a Windows server returned goes to   *)
(* the client that asked and holds its message whole, before whatever else *)
(* is in the string: no refusal and no message that was thrown away in     *)
(* between changes the address or the bytes.                               *)
EchoBeginsWithRequest ==
    \A a \in answers : a.by \notin Linux =>
        /\ a.to = a.request.from
        /\ Len(a.request.data) <= Len(a.data)
        /\ SubSeq(a.data, 1, Len(a.request.data)) = a.request.data

(* A Linux server's answer goes to the client that asked and holds its     *)
(* message and nothing else, less what did not fit into the buffer: that   *)
(* is cut off without a sign (linux_socket.cpp:60), but never a byte that  *)
(* did fit.                                                                *)
EchoIsRequestCut ==
    \A a \in answers : a.by \in Linux =>
        /\ a.to = a.request.from
        /\ \/ Len(a.data) = Len(a.request.data)
           \/ Len(a.data) = BufferSize /\ ~Fits(a.request.data)
        /\ a.data = SubSeq(a.request.data, 1, Len(a.data))

(* "@return string - the message" (winsock_socket.h:99 of read, and :114   *)
(* of read_from): on Windows too the strings that read returns are the     *)
(* bytes it received, out of a buffer it never left, and the string that   *)
(* read_from returns is the message it took.                               *)
StringsAreMessages ==
    /\ \A o \in Readers \ Linux : o \notin overrun /\ given[o] = taken[o]
    /\ \A o \in Servers \ Linux : asked[o] # Nothing => text[o] = asked[o].data
=============================================================================
