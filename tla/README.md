# Formal models of Easy Peasy Sockets

The repository is a small C++17 library of blocking sockets, `ep_sockets`: one
class, `net::base_socket`, in a Linux and a Windows version, and five thin
classes made from it by a template "factory". This directory holds TLA+ models
of it, the TLC configurations that check them and TLAPS proofs about them.

## Inventory

| Part | State | Operations | What is hard about it |
|---|---|---|---|
| `base_socket`, Linux (`linux_socket.{h,cpp}`) | a descriptor number `_socket`, the address `_raddr` of the last peer heard, the address `_addr` of the last bind or connect | two constructors, `connect_to`, `bind_to`, `be_listening`, `is_listening`, `accept_and_create_sockfd`, `read`, `write`, `read_from`, `write_back`, `reset`, `stop`, copy construction and assignment, destructor, `last_error` | the number is a plain integer: what it reaches is decided by the kernel at each call; default copies; throwing constructors; blocking calls in several threads |
| Factory classes (`socket_factory.{h,cpp}`) | that of `base_socket` | constructors (socket, then bind or connect, then listen), `accept_and_create_socket`, `stop`, forwarding of reads and writes | a throw half way through a constructor |
| `main.cpp` | - | four demonstrations: UDP client and server, TCP server and client | two programs that wait for each other over a network that loses |
| `inet_pton` for MinGW (`wsa_inetpton.h`) | pointers into a 4 or 16 byte buffer | two hand-written parsers | indices at the end of a buffer |
| `base_socket`, Windows (`winsock_socket.{h,cpp}`) | as on Linux | as on Linux | conversions of the receive buffer; an assertion on a member not yet assigned |
| Winsock start and cleanup (`winsock_specific.h`) | one count in the system | `startup`, `cleanup` | order with respect to the sockets' destructors |
| `socketable.h`, `socket_constants.h`, `socket_errors.h` | none | an interface, enumerations, message texts | - |

The parts interact by calls into the operating system only. What is shared
between threads is the kernel's descriptor table, and a socket object when the
program shares one. What connects processes is the network.

What makes each part correct:

- *descriptors*: every number taken from the kernel is given back exactly once,
  by the object that took it, and until then the object's calls reach the
  socket it was built around;
- *accepting*: a blocked `accept_and_create_socket` ends when the server is
  stopped; the assertion in it fails only through the caller's doing;
- *datagrams*: an answer goes to the client whose message it answers, and a
  client blocked in `read` still has something to wait for, unless the network
  or the server dropped it;
- *streams*: nothing written is lost while both ends stay, what an exception from
  `read` means, `stop` ends the direction it names, and only a peer that never
  reads again keeps a write blocked;
- *receive buffers*: the string returned is the message received (true on Linux,
  false on Windows);
- *addresses*: a port is free again when its owner is gone; the parser accepts
  the addresses of the grammar, stays inside its buffer and copies no byte it
  did not write.

## Plan

| Order | Modules | State |
|---|---|---|
| 1 | `SocketHandles`, with its proofs | done |
| 2 | `UdpExchange`, with its proofs | done |
| 3 | `DottedQuad` (abstract), `InetPton4` refining it, `InetPton6`, with their proofs | done |
| 4 | `TcpStream`, with its proofs | done |
| 5 | `ReceiveBuffers` (both systems), `WinsockSession`, with their proofs | done |
| 6 | `SocketLife` (abstract), implemented by `SocketHandles`: a TLC property and a proof | done |
| 7 | `SocketClasses`; `PortReuse`, with its proofs | done |
| 8 | `StreamPipe` (abstract), implemented by `TcpStream` in each direction; `inet_pton6` against the grammar of addresses: TLC properties and proofs | done |
| 9 | `InetPton`, the dispatcher over both parsers | done |

Modules that use others: `SocketHandles`, `WinsockSession`, `PortReuse` and
`TcpStream` extend `SocketClasses`; `SocketHandles` instantiates `SocketLife` and
`TcpStream`, once for each direction, `StreamPipe`; `InetPton4` and `InetPton6`
use `DottedQuad`, and `InetPton` composes the two. `DecimalDigits` declares the
digits that the address modules share. A module `MC...` extends the module of
that name with what its runs need, and `...Proofs` with its theorems.

## SocketClasses: what a program can call

`base_socket` implements every function of `socketable` (`Interface`). The
classes of the factory derive from it privately, so a program can call on them
only what they declare (`Offers`): no `reset`, no `bind_to` after construction,
and of a `udp_server_socket` `read_from` but not `read`. `Accepts` and
`FirstCall` say which classes accept connections and what the constructors do
once their `base_socket` is there. The guards of the other modules refer to these
operators, so that no model makes a call the compiler would refuse.

## SocketHandles: the life of a descriptor

A step is one system call of one thread, with the code around it that no other
thread can see.

| Code | Model |
|---|---|
| an object in storage `o`: class, `_socket` | `obj[o]`, whose `phase` is the place its thread has reached |
| the descriptor table and the sockets behind it | `table`, `made`, `mode`, `pending` |
| constructors of the factory | `OpenSocket`, then `CtorCall` for `bind_to` or `connect_to` and `be_listening`; any of these may throw, and then the destructor of the `base_socket` runs |
| `connect_to`, `bind_to`, `be_listening` on a `base_socket` | `BaseCall` |
| default copies | `CopyConstruct`, `CopyAssign` |
| `accept_and_create_socket` | `AcceptCall` (the assertion with `is_listening`), `AcceptEnter` (`accept` looks the number up again), `AcceptReturn` (a connection, or the failure of a call that can no longer succeed), `AcceptErrs` (a failure for any other reason, at any time) |
| `stop` | `Stop`, with `How` for the three actions |
| `~base_socket` | `DtorShutdown`, `DtorClose` |

A failed `socket()` is in the model: it happens when no number is free, and the
object goes on with number -1, as in the code (the assertion compares an
unsigned number with zero). A failed assertion ends the process: `aborted` then
stops every action.

The variables `origin` (a field of `obj`), `stopped`, `shut` and `dropped` are
history: no guard reads them.

`SocketLife` is what a program that does not copy may rely on, without
descriptors: an object *is* its socket. It acquires a new socket, the peer is
told, it releases that socket; no other object ever has it. The refinement
mapping is not code: `Owned` maps an object to the socket it was built around for as long as it holds a number,
`LifeOf` reads off a socket's state from `made`, `table` and `shut`, and
`ImplementsLife` says that every step of `SocketHandles` is one of those three or
changes neither.

What the model assumes of callers: an object is not destroyed or assigned to
while another thread is inside `accept_and_create_socket` on it, which is
already undefined in C++. What it abstracts: addresses (every bind, connect and
listen may fail), data, blocking of `connect`.

Runs:

- `handles_owned` - three objects (a server, what it accepts, a client in
  another thread), two numbers, so that the table runs full and numbers are
  reused at once, three sockets in a behaviour, no copies. Ownership
  (`HandleFaithful`, `SoleOwner`, `NoLeak`), the
  assertion (`AbortOnlyAfterStop`), the order of the destructor's calls
  (`ShutdownBeforeClose`), the refinement (`ImplementsLife`) and the release of a blocked acceptor
  (`StopReleasesAcceptor`).
- `handles_copied` - copies and assignments in any order, plain `base_socket`s
  too. Ownership is lost; that a leak comes from an assignment only, and that a
  factory object has a descriptor (`FactoryUsable`), are not. Two sockets are enough: a leak takes one number and
  a copy that overwrites it.
- `handles_copy_confuses` (violated) - one copy suffices for an object to act on
  a stranger's socket.

Fairness (`FairSpec`, used for `StopReleasesAcceptor` alone): a thread inside a
constructor, an accept call or a destructor takes its next step, which is what
a scheduler gives a runnable thread. Nothing is assumed about peers or about
what the program decides to do.

Bounds: `MaxSocks` limits the sockets of a behaviour and `MaxPending` is the
backlog. The properties relate at most two objects, one number and two sockets
that had it in turn; the third object and socket give room for a bystander.
The theorems have no bounds.

## UdpExchange: requests, answers and `_raddr`

The conversation of `main.cpp`: clients with a `udp_client_socket` write and
then read; a program with a `udp_server_socket` calls `read_from` and then
`write_back`. In `main.cpp` the server's half is commented out and does this
once. The model lets a worker thread do it any number of times or never, go on
after a call that throws, or end with the exception: `Crash` is the end of the
server's process for whatever reason, and no fairness is assumed, so that
nothing is claimed of a server that answers for ever.

| Code | Model |
|---|---|
| `write` of a client | `ClientWrite`: `send` may fail, and does when an ICMP refusal is pending: the call throws and nothing was sent; an empty message is sent and makes it throw (`AfterWrite`) |
| `read` of a client | `ClientRead`, `ClientRefused`; it blocks, without a timeout |
| `read_from` of a worker | `Receive` takes a datagram, `Store` leaves the sender in `_raddr`, also when the message is empty and the call is about to throw |
| `write_back` | `Answer`, to `_raddr` as it is then; an unwritten `_raddr` may hold any address. `sendto` may fail: the call throws and the client gets no answer |
| the network | a set: any order; `Taken` may leave a duplicate; `Lose` |
| the server's process | `Crash`, `Restart` with a fresh object; meanwhile `Refuse` |

`asker` in an answer and `forsaken` are history: a client is forsaken when one of
its datagrams is lost, the server ends with its message in hand, or the answer
to it cannot be sent; its next successful write starts anew.

`WaitsForSomething` says that a client blocked in `read` has a refusal, its
request or an answer on the way or its message in the server's hands, unless it
is forsaken. It breaks when a client waits upon a write that threw, or when any
other path lets a datagram disappear: a refusal that hits the wrong client, an
answer sent elsewhere, a restart that drops requests. That the wait ends is not
claimed: it does not when the server stops asking.

Run: `udp_exchange` has one worker, two clients, four writes and one crash:
enough for two requests of each client, repeated or empty ones among them, to be
on their way together around a restart. A `udp_server_socket` offers `read_from`
only, so the model has no `read` of a worker. On a `base_socket` a plain `read`
stores no address, and a `write_back` after it goes to whoever was heard last
by `read_from`. The clients are interchangeable (`ClientSymmetry`).

With two workers on one object `AnswerGoesToAsker` is false: the second
`read_from` overwrites `_raddr` before the first `write_back`. The library
does not promise otherwise, so this is a hazard without a property;
`AnswerHasAddress` is what still holds.

## TcpStream: one connection

Two ends, each an object with an established connection in a process of its own.
At each end one thread may be in `read` and another in `write`; `stop` may come
at any time, from a third; the destructor runs when no call does. `TcpStream`
counts bytes: TCP keeps their order, and what the code can do wrong is to lose,
repeat or misjudge them.

| Code | Model |
|---|---|
| `write`: `send()` blocks until the kernel has taken every byte | `WriteCall`, `Take` (a byte, when there is room), `WriteFails`: the part taken so far is returned without an exception, a reset is thrown, and EPIPE ends the process unless the flags hold MSG_NOSIGNAL; `WriteEmpty` |
| `read`: `recv()` into 512 bytes | `ReadCall`, `ReadReturn`, `ReadThrows` (the end of the stream, a stopped direction, a reset) |
| `stop` | `Stop`, with `How` |
| `~base_socket` | `DtorShutdown`, `DtorClose` |
| the kernels | `Deliver`, `Refuse`, `FinArrive`, `RstArrive`, and `Close`, which resets the connection when bytes are unread (Linux) |

`StreamPipe` is what the two programs may rely on, without kernels, FINs and
resets: a direction of the connection is a pipe. Each byte written is read once,
by reads of at most 512; a reader is told of the end when nothing is left, and
nothing is written afterwards; from the moment the reader stops reading, goes
away or is reset the pipe is cut, and what was inside may be lost. The mapping
counts what is inside as what is on its way or received (`InsideFrom`) and reads
the state off the reader (`StateFrom`): a pipe whose reader has thrown is
"ended" unless the reader itself or a reset cut it. `ImplementsPipes` says this of
both directions, `ToServer` and `ToClient`. It holds for each by itself: what the
writer does with its reading side does not show.

`conn` tells an error that is still to be reported ("reset") from a connection
that is gone, because the first write after a reset throws and the second one is
ended by SIGPIPE. `ceased` and `threw` are history.

`Kind` gives the class of the object at each end: of the classes with a stream
only a `base_socket` offers `stop`, so that `Stop` is guarded by `Offers`. In
the runs a `base_socket` that has connected faces a `tcp_active_socket`.

Runs: `tcp_stream` and, with the default flags, `tcp_write_killed` (violated).
Messages of one or two bytes against a read buffer of one: a read returns part
of a message, and a destructor finds the rest unread. The kernel takes one byte
before it has sent any (`SendRoom`), one fits into the client's receive buffer
and two into the server's (`Room`). The client may write four bytes and the
server three, one more than the buffers on the way hold: writes block on full
buffers, those of both ends at once too, and each can be stopped, half closed or
reset in that state.

`EndMeansAll` is what is left for a caller to conclude from an exception whose
text comes from a stale errno. `LossNeedsUnread` says when a successful write
was in vain: the server of `main.cpp` reads once, writes and leaves, and a
request longer than its buffer costs the client the answer.

Fairness: threads in calls and destructors go on, the network delivers bytes,
FINs and RSTs. That an RST arrives is an assumption (TCP does not repeat a lost
one), and so is that the peer's host does not vanish: there is no timeout.
Nothing is assumed of what programs do, in particular not that anybody reads.
`WriteEnds` says what keeps a write blocked for ever: the peer is alive, never
reads again, and the buffers towards it are full (`Jammed`). Two ends that write
more than the buffers hold before they read do block each other like this; any
other write ends.

The comments in `stop` (`linux_socket.cpp:175` and `:180`) have the directions
the wrong way round, against `linux_socket.h:141`; `How` follows the calls.

## DottedQuad, InetPton4, InetPton6, InetPton: the address parsers

A parser is sequential; what is hard is the range of texts and the arithmetic at
the ends of a buffer. The text is therefore an environment: an action reads one
character, any that could stand there, until the parser returns. `fields`, the
text so far split at its separators, is history and what the properties are
about.

`DottedQuad` says what `inet_pton` promises for AF_INET: which texts are
addresses, which bytes they denote, and that a reader gives up at the first
character with which the text stops being the beginning of an address.
`InetPton4` is the code: `tmp` (uninitialised bytes are `Unset`), the index
`tp`, `saw_digit`, `octets`, one action for each branch of the loop and one for
what follows it. It implements `DottedQuad` with the identity as refinement
mapping: `fields`, `verdict` and `dst` are variables of both.

`InetPton6` has `tmp`, `tp`, `colonp`, `saw_xdigit` and `val` as the code does.

| Code | Model |
|---|---|
| leading colons (lines 77-80) | `phase` first and second: a leading colon needs another one, which then is the first of the loop |
| a hexadecimal digit | `HexDigit`, returning 0 when the group passes 16 bits |
| a colon | `GapColon` when no digit precedes it, `GroupColon` otherwise; the look at the character behind it (line 104) fixes `ahead`, which the next action respects |
| a dot | `Dot`: `inet_pton4` on the current field and `Tails`, which stands for the three bytes after it. Since `InetPton4` is shown to accept dotted addresses only, its result is taken from `DottedQuad` |
| after the loop | `End`, `Expand`, `Shift` (a step per turn), `Copy` |
| characters the parser never looks at | `Unread`: the rest of the text after a return 0, so that a rejection is held against the whole text |

`Address` and `Bytes` define what a text denotes without the parser's means. The
code lets a group have any number of leading zeros (it tests the value, not the
digits); `Group` allows that, as the code does.

`InetPton` is `inet_pton`: `af` chooses the parser (`Inet4`, `Inet6`), and any
other family returns at once. It extends `InetPton6` and has an instance of
`InetPton4` with variables of its own.

Run: `inet_pton`. Dotted texts have digits that can write 255, 256 and leading
zeros; they need no bound, because the parser stops after at most fifteen
characters. The other texts have the digits 0 and f and seventeen characters:
nine one-digit groups, so that the buffer overruns if a test is missing, and
four-digit and five-digit groups in shorter texts. An accepted text is an address
and `dst` has its bytes; a rejected one is not, and `dst` is as the caller left
it. `Weight` makes a zero count as three characters, so that leading zeros occur
without multiplying the texts. Both parsers return, so deadlock is not checked,
and nothing is assumed fair.

The comment of `inet_pton` promises -1 for a text that is no address
(`wsa_inetpton.h:165`); both parsers return 0, as POSIX has it, and -1 is for an
unknown family.

## ReceiveBuffers: strings made of bytes received

`_read` and `_read_from` of both classes receive into an array of 512 bytes on
the stack that nobody clears. `Junk`, what is in it and in the byte behind it, is
chosen anew at each call. The set `Linux` says which objects belong to a program
built for Linux; the others have the Windows class.

| Code | Model |
|---|---|
| `recv`, `recvfrom`: a stream leaves the rest for later; a datagram that does not fit is cut on Linux, and on Windows lost with WSAEMSGSIZE | `Received`, `Remaining`, `Accepted`, `ReadThrows`, `ReadFromThrows` |
| Linux: `std::string(buffer.begin(), i)`, of the bytes counted | `Counted` |
| Windows `_read`: `buffer[i] = 0`, `std::string(buffer.data())` | `ZeroPlace`, `Terminated`, `CString` |
| Windows `_read_from`: `std::string{buffer.begin(), buffer.end()}` | `Whole` |
| `recvfrom` fills in `_raddr`, also when it fails for a message too long | `Heard` |
| a server's `read_from`, and `write_back` of the string: once, or again, also after a call that threw | `ReadFrom`, `ReadFromThrows`, `WriteBack` (`sendto` may fail) |

`taken`, `given`, `overrun`, `asked` and `answers` are history. A Windows read that
fills the array stores its zero byte one behind it (`winsock_socket.cpp:58`),
which is undefined behaviour: `overrun` marks the readers to which it happened,
and nothing is claimed of what they return from there on.

Runs:

`receive_buffers` has one object of each role for each system, a buffer of
two bytes and messages of one to three, so that each kind of length occurs, with
one letter and the zero byte; three messages per object, so that a read can
start in the middle of one and a server can have an exception between two. The
objects share nothing, and the constraint `OneAtATime` of the MC module keeps to
behaviours in which one of them gets messages. The two systems differ in what
holds: a Linux string is the bytes that came (`WholeWithoutNul`) and a Linux echo
is the request, cut at the buffer's end without a sign (`EchoIsRequestCut`); a
Windows `read` returns what came only if no zero byte did and the array was not
filled, and a Windows echo goes to the client that asked and has its request in
front (`EchoBeginsWithRequest`).

`receive_strings` (violated) has the Windows objects alone and asks for what
`winsock_socket.h:99` and `:114` promise of both calls, "string - the message"
(`StringsAreMessages`). TLC's shortest counterexample is a `read_from` that
returns the bytes behind a message of one byte. Each of the property's three
parts fails by itself: `read` leaves its array, `read` drops what follows a zero
byte, `read_from` adds what was on the stack.

## WinsockSession: objects between startup and cleanup

The counterpart of `SocketHandles` for the Windows class, where three things
differ: a handle is valid between `startup` and the last `cleanup` only; the
assertions read the member `_socket` before it is assigned; `shutdown` of a
listening socket fails.

| Code | Model |
|---|---|
| `net::startup`, `net::cleanup` | `Startup`, `Cleanup`, counted as Winsock does; the last cleanup empties the handle table and makes blocked calls fail |
| how the program was built (MinGW or not, NDEBUG or not) | `build`, fixed in `Init` |
| constructors | `OpenSocket`, `CtorCall`, and `Garbage` for the assertion, which may go either way |
| `_assign_address` | `Converts`: without MinGW `InetPtonW` gets bytes where it expects wide characters |
| `accept_and_create_socket` | `AcceptCall`, `AcceptEnter`, `AcceptReturn`, `AcceptErrs`, the last two failing with `AcceptFails` |
| `stop` | `Stop`; on a listening socket it throws and changes nothing |
| `~base_socket` | `DtorShutdown`, `DtorClose`, which closes whatever the handle reaches by then |

`origin` and `restarted` are history: `restarted` is set when `startup` comes
after the last `cleanup` while objects of the earlier time are still there.
`main.cpp` calls `cleanup` before the destructor of its client runs; it does not
call `startup` again, and then (`ForeignNeedsRestart`) no object ever touches
another's socket.

`socket_factory.h:6` announces the classes "(udp & tcp on linux and windows)".
In a build without MinGW that does not hold: `_assign_address` hands
`InetPtonW` the characters of a `std::string` as if they were wide ones
(`winsock_socket.cpp:35`), an address so read is rejected, and every constructor of the
factory throws. The model has this as the definition `Converts`, and no run
checks it, because a property would only repeat that definition.

`is_listening` gives `getsockopt` one byte for its answer
(`winsock_socket.cpp:135-140`). The model lets the call answer; a Winsock that
refuses the length makes it throw instead, before anything has changed.

Run: `winsock_session`, two objects, two handles, three sockets, two startups:
an object left over from the first session and one of the second that gets its
handle. Fairness: a thread inside an accept call goes on when it can, which
`CleanupReleasesAcceptor` needs; connections are not assumed to arrive.

## PortReuse: bound addresses

When `bind_to` is refused, what `reset` does about it, and when a port is free
again for a server that is started anew, on both systems.

| Code | Model |
|---|---|
| constructors of `base_socket`; the Windows ones set SO_REUSEADDR | `Open`, `FirstOptions` |
| `bind_to`, in a factory constructor or called on a `base_socket` | `Bind`, `BindThrows`; in a constructor an exception leaves the destructor of the `base_socket` to run |
| `be_listening` | `Listen`, `ListenThrows` |
| `reset`: an option value of one byte, which Linux refuses, under a name that is two names or-ed | `Reset`, `AfterReset`: nothing is set |
| `stop` of a listening socket (on Windows it throws) | `Stop`: no longer listening, still bound |
| `~base_socket` of a server | `Destroy` |
| `accept_and_create_socket`, `~base_socket` of its product | `Accept`, `ConnDestroyed` (`Closed`: FIN, or RST when something was unread) |
| the kernel and the peers | `Arrive`, `PeerCloses`, `PeerResets`, `Expires`; `Available` and `MayShare` are the kernels' rules for two sockets on one port |

`refused`, `asked` and `first` are history. A process that is killed closes its
sockets as the destructors do, so `Destroy` and `ConnDestroyed` at any time
stand for a crash of the server too.

Runs:

- `port_reuse` - two server objects of any of three classes, two connections,
  one port, either system: two servers compete for the port, one is replaced
  while an open connection and the rest of a closed one remain. At most one
  server of a protocol is bound to a port on Linux (`OneServer`); a refusal has
  one of the reasons a caller could expect (`RefusedForAReason`); a port nobody
  lives on becomes free (`PortComesBack`). One port is enough because ports do
  not interact.
- `port_stays_busy` (violated) - "enable kernal reuse addresses and ports that
  may already be active/tied" (`linux_socket.h:135`): a `base_socket` that calls
  `reset` is still refused by the rest of a connection its predecessor closed
  first.

Fairness: the kernel's timers (`Expires`), which `PortComesBack` needs. Nothing
is assumed of peers and of what programs do.

## Proofs

All proofs hold for every value of the constants that satisfies the modules'
assumptions.

*Types first* (`TypeCorrect`, `UdpTypeCorrect` and the like), one step per
action; every later proof takes the type invariant as given.

*Leaks.* `LeakOnlyByAssignment` is inductive by itself, for programs that copy
as they like: only `close()` ends a claim and it empties the entry, only an
assignment ends one without it. `NoLeakWithoutAssignment` follows because
`dropped` stays empty.

*Ownership*, for programs that do not copy. `HandleFaithful` and `SoleOwner` are
not inductive: a number about to be handed out must be known to have no holder,
and `close()` of one number must leave other entries' sockets alone. `Ownership`
adds `OriginKnown` (an object holds a number of the table exactly when it was
built around a socket, and no socket is from the future) and `TableInjective`
(two numbers never reach one socket). The lemmas follow the three ways a step
touches an object: a change of phase, a new number, a close. From `Ownership`
come `CallsReachThisSocket` and `OneOwner`; with `Informed` (between the
destructor's two calls the socket is shut down) `PeersHearBeforeReuse`; with
`Serving` (a live server listens or was stopped) `AssertionIsTheCallersDoing`.

*Refinement.* `ObjectsAreSockets`, also for programs that do not copy: `Ownership`
and `Informed` and, in addition, `ShutKnown` (no socket is shut down before it is
made), which with them is `LifeInv`. A new number is an `Acquire`, the call that
completes the shutdown of a socket an `Inform`, a `close()` a `Release`; every
other step leaves `Owned` and `LifeOf` as they are.

*Datagrams.* `NoAnswerToNowhere` needs no strengthening and holds for any number
of workers. `SingleWorkerAnswersAsker` needs `AddressOfMessage`: while the one
worker has a message in hand, `_raddr` is its sender. `BlockedClientsHaveReason`
builds on it, for one worker too: an answer that is sent goes to the client whose
message it takes out of the worker's hands, so each action that removes a reason
to wait puts another one in its place or marks the client forsaken.

*Streams.* `Conserved`: while a socket is up, what was sent to it is on its way,
received or read. `FinIsLast`: nothing is sent after a FIN, and when it has
arrived everything has. `ResetByAway`: an end that stays is reset only by one
that left and will never have all it was sent. These and `Shown`, which is
`EndMeansAll` with its reason, are inductive together with the types; each
action needs them at its own end and at its peer. `StreamsArePipes` uses the same
invariant: `Shown` and `FinIsLast` forbid a write after a read that threw at the
end, `FinIsLast` says that nothing is left when it throws, and `ResetKnown` that an
RST, which takes bytes from the wire, reaches a writer only when its reader is
already reset or gone. `WriterStep` and `ReaderStep` are what an action does to
the pipe its end writes to and to the one it reads from.

*Addresses.* `Pton4ImplementsQuad` is a refinement, step by step. Its invariant
`Follows` says what the pointer and the counters mean while the loop runs: the
text is the beginning of an address, `octets` counts its fields but an empty
last one, every byte up to `tp` is the number of its field. `FieldGrows` is the
lemma the two tests of the digit branch rest on. `PointerInBuffer` comes from the
same invariant. `Pton6InBuffer` needs only that bytes are shifted after a `::`.

`Pton6AcceptsAddresses` takes that and its own `Follows`, which says where in the
parse each phase is:

- in the loop the complete fields are groups around at most one gap (`Layout`),
  `colonp` is where the gap stands among the words, and the bytes up to `tp` are
  the words in their order, the rest zero (`Placed`);
- while bytes are shifted, those moved so far stand at the end and zeros where
  they were (`Moved`), so that after the last turn the buffer is that of the
  address with the gap filled;
- a text returned early is not an address whatever follows: it has too many
  fields, a group that passes 16 bits, two gaps or a single colon in front
  (`Dead`), or it was read to its end.

The lemmas about texts carry most of it: that a dead text is no address and stays
dead (`DeadIsNoAddress`, `DeadStays`), that a complete layout is one and which
words and bytes it denotes (`FinalAddress`, `FinalWords`, `FinalBytes`), that a
group grows by a digit exactly when the test on `val` lets it (`GroupGrows`).
`Follows` held on a TLC run of the parser before it was proved.

The caller reaches the parsers through `inet_pton`, so the results are stated of
`PtonSpec`. `InetPtonProofs` holds the proofs about `inet_pton6` and takes those
about `inet_pton4` from `InetPton4Proofs` with `P4 == INSTANCE ... WITH`; every
behaviour of the dispatcher is, seen by either parser, one of its own
(`SixIsReached`, `FourIsReached`: a step of the other parser is a stutter). So
`PtonInFourBytes`, `PtonInSixteenBytes`, `PtonImplementsQuad` and
`PtonAcceptsAddresses` follow from the parsers' theorems.

*Buffers.* In `ReceiveBuffersProofs` the lemma `ReadTextWhole` (without zero
bytes, the string a Windows read returns is what came) carries
`ReadsWholeWithoutNul`; the invariant behind `EchoesAnswerTheirSender` and
`LinuxEchoesAreRequests` is that while a message is in hand `_raddr` is its sender
and the string begins with it, or with as much of it as the buffer takes.

*Ports.* `PortInv` says that an object has the options its constructor set and no
others, and what each state of a connection implies about who closed it first
and whether an object holds it. `OneServerPerPort` follows from it and from the
kernel's rule; `RefusalsHaveReasons` says it of every step that throws.

*Windows.* In `WinsockSessionProofs`
`Ownership` says that an object was built around a socket exactly when it holds
a handle (`HandleKnown`), that no two were built around the same one
(`OriginsUnique`), that no handle reaches anything while Winsock is down
(`DownMeansNone`) and that without `restarted` each reaches its object's socket
while it is up (`Owned`). `NoHandleLeaks` needs it too: a close must not empty an
entry that another object answers for.
`InOrder` says what a constructor of the factory has behind it at each of its
calls and at its end: a handle (`Built`), and a socket in the state those calls led
to, unless `cleanup` closed it (`Reached`). It gives `FactoryObjectsAreReady`,
and, as `stop` cannot end listening, `ServersPassTheAssertion`: the assertion in
`accept_and_create_socket` never ends a program with a `tcp_server_socket`.

Only model-checked: the liveness properties `StopReleasesAcceptor`, `ReadEnds`,
`WriteEnds`, `CleanupReleasesAcceptor` and `PortComesBack`, because liveness is
beyond this prover. Every safety property a
passing run checks is also proved.

## Not modelled

- `last_error` and the tables of error texts: wording. That the lookup
  (`winsock_socket.cpp:206`) inserts unknown numbers into a map two threads may
  share is listed among the hazards without a property; the outcome of such a
  race is not a value a model could say anything about.
- Retries and timeouts: nothing in the library or in `main.cpp` has them.
- What threads do to each other inside one object beyond what is named above:
  two of them in `read_from` and `write_back` (see `UdpExchange`).
- What the assertion on an indeterminate member decides
  (`winsock_socket.cpp:22`): either outcome is possible at every construction
  (`Garbage`), and no property can require one.
- Flags of reads and writes other than MSG_NOSIGNAL, which programs may pass.
- `write` and copies of the Windows class, which are as on Linux.
- Failures of `bind()` other than an address in use, listening without a bind,
  and the ports the kernel gives to clients.
- `constants` and the output of `main.cpp`.
