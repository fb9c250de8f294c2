--------------------------- MODULE TcpStreamProofs ---------------------------
(***************************************************************************)
(* What a caller of read() may conclude from an exception, for every       *)
(* length of messages and buffers.                                         *)
(***************************************************************************)
EXTENDS TcpStream, TLAPS

(* A socket that lets the peer know it is gone is not up any more.         *)
ResetKnown(e) == rst[e] => conn[Peer(e)] # "up"

(* While an end's socket is up and present, every byte sent to it is on    *)
(* its way, received or read.                                              *)
Conserved(e) ==
    Present(e) /\ conn[e] = "up" =>
        sent[Peer(e)] = wire[Peer(e)] + queue[e] + got[e]

(* Nothing is sent after the FIN, and when it is there everything is.      *)
FinIsLast(e) ==
    /\ fin[e] # "none" => "WR" \in shut[e] \/ (left[e] = 0 /\ ~Present(e))
    /\ fin[e] = "arrived" /\ conn[Peer(e)] = "up" => wire[e] = 0

(* Calls are made on live objects.                                         *)
CallsLive(e) ==
    reading[e] \/ left[e] > 0 => obj[e] = "live"

(* What a read that threw has shown.                                       *)
Shown(e) ==
    threw[e] /\ "RD" \notin shut[e] /\ conn[e] = "up" =>
        fin[Peer(e)] = "arrived" /\ got[e] = sent[Peer(e)]

(* An end that is not away is reset only by a peer that is, and that will  *)
(* never have all it was sent.                                             *)
ResetByAway(e) ==
    (rst[e] \/ conn[e] # "up") /\ ~Away(e) =>
        Away(Peer(e)) /\ wire[e] + queue[Peer(e)] + got[Peer(e)] < sent[e]

Parts(e) ==
    /\ ResetKnown(e) /\ Conserved(e) /\ FinIsLast(e) /\ CallsLive(e)
    /\ Shown(e) /\ ResetByAway(e)

IInv == TypeOK /\ \A e \in Ends : Parts(e)

-----------------------------------------------------------------------------
LEMMA Peers ==
    ASSUME NEW e \in Ends
    PROVE  Peer(e) \in Ends /\ Peer(e) # e /\ Peer(Peer(e)) = e /\ Ends = {e, Peer(e)}
BY StreamAssumption DEF Ends, Peer

(* What Taken and Unread make of a receive buffer.                         *)
LEMMA Takes ==
    ASSUME NEW n \in Nat, n > 0
    PROVE  Taken(n) \in 1..n /\ Unread(n) \in Nat /\ Unread(n) + Taken(n) = n
BY StreamAssumption DEF Taken, Unread

(* Counters of bytes, as TypeOK has them.                                  *)
Counters ==
    /\ left \in [Ends -> 0..MaxMessage]
    /\ sent \in [Ends -> Nat] /\ got \in [Ends -> Nat]
    /\ wire \in [Ends -> Nat] /\ queue \in [Ends -> Nat]

(* The two ends of one direction.                                          *)
Within(e) ==
    /\ wire[e] <= SendRoom /\ queue[e] <= Room[e]
    /\ wire[e] + queue[Peer(e)] + got[Peer(e)] <= sent[e]
    /\ sent[e] + left[e] <= MaxSent[e]

Others ==
    /\ obj \in [Ends -> {"live", "shutdown", "closed", "killed"}]
    /\ reading \in [Ends -> BOOLEAN] /\ took \in [Ends -> BOOLEAN]
    /\ fin \in [Ends -> {"none", "sent", "arrived"}]
    /\ conn \in [Ends -> {"up", "reset", "dead"}]
    /\ rst \in [Ends -> BOOLEAN]
    /\ shut \in [Ends -> SUBSET Both]
    /\ ceased \in [Ends -> BOOLEAN] /\ threw \in [Ends -> BOOLEAN]

LEMMA TypeParts == TypeOK <=> Counters /\ Others /\ \A e \in Ends : Within(e)
BY DEF TypeOK, Counters, Others, Within

-----------------------------------------------------------------------------
LEMMA OthersStep ==
    ASSUME TypeOK, NEW e \in Ends, Step(e)
    PROVE  Others'
<1>1. Others
  BY TypeParts
<1>2. Peer(e) \in Ends
  BY Peers
<1>3. ASSUME NEW n \in 1..MaxMessage, WriteCall(e, n) PROVE Others'
  BY <1>1, <1>3 DEF Others, WriteCall, bytes, socket
<1>4. CASE Take(e)
  BY <1>1, <1>4 DEF Others, Take, socket
<1>5. ASSUME NEW how \in {"closed", "killed"}, Close(e, how) PROVE Others'
  BY <1>1, <1>2, <1>5 DEF Others, Close, Finished
<1>6. CASE WriteFails(e) \/ WriteEmpty(e)
  BY <1>1, <1>5, <1>6 DEF Others, WriteFails, WriteEmpty, Fails
<1>7. CASE ReadCall(e)
  BY <1>1, <1>7 DEF Others, ReadCall, socket
<1>8. CASE ReadReturn(e)
  BY <1>1, <1>8 DEF Others, ReadReturn, socket
<1>9. CASE ReadThrows(e)
  BY <1>1, <1>9 DEF Others, ReadThrows
<1>10. ASSUME NEW a \in Actions, Stop(e, a) PROVE Others'
  BY <1>1, <1>10 DEF Others, Stop, ShutDown, Finished, How, Actions, Both, call
<1>11. CASE DtorShutdown(e)
  BY <1>1, <1>11 DEF Others, DtorShutdown, ShutDown, Finished, Both, call, socket
<1>12. CASE DtorClose(e)
  BY <1>5, <1>12 DEF DtorClose
<1>13. CASE Deliver(e)
  BY <1>1, <1>13 DEF Others, Deliver, call, socket
<1>14. CASE Refuse(e)
  BY <1>1, <1>2, <1>14 DEF Others, Refuse, call
<1>15. CASE FinArrive(e)
  BY <1>1, <1>15 DEF Others, FinArrive, call
<1>16. CASE RstArrive(e)
  BY <1>1, <1>16 DEF Others, RstArrive, call
<1>. QED
  BY <1>3, <1>4, <1>6, <1>7, <1>8, <1>9, <1>10, <1>11, <1>12, <1>13, <1>14, <1>15, <1>16 DEF Step

-----------------------------------------------------------------------------
(* Bytes: an action of e changes what e sends, what its peer sends, or     *)
(* neither.                                                                *)
LEMMA BytesStep ==
    ASSUME TypeOK, NEW e \in Ends, Step(e)
    PROVE  Counters' /\ \A x \in Ends : Within(x)'
<1> DEFINE p == Peer(e)
<1>1. Counters /\ Within(e) /\ Within(p)
  BY TypeParts, Peers
<1>2. p \in Ends /\ p # e /\ Peer(p) = e /\ Ends = {e, p}
  BY Peers
<1>3. SUFFICES Counters' /\ Within(e)' /\ Within(p)'
  BY <1>2
<1> HIDE DEF p
<1>a. /\ SendRoom \in Nat /\ Room[e] \in Nat /\ Room[p] \in Nat /\ MaxMessage \in Nat
      /\ MaxSent[e] \in Nat /\ MaxSent[p] \in Nat
  BY <1>2, StreamAssumption DEF Ends
<1>b. Peer(e) = p
  BY DEF p
<1>4. CASE UNCHANGED <<left, bytes>>
  BY <1>1, <1>2, <1>4 DEF Counters, Within, bytes
<1>5. ASSUME NEW n \in 1..MaxMessage, WriteCall(e, n) PROVE Counters' /\ Within(e)' /\ Within(p)'
  BY <1>1, <1>2, <1>a, <1>b, <1>5 DEF Counters, Within, WriteCall, bytes
<1>6. CASE Take(e)
  BY <1>1, <1>2, <1>a, <1>b, <1>6 DEF Counters, Within, Take
<1>7. ASSUME NEW how, Close(e, how) PROVE Counters' /\ Within(e)' /\ Within(p)'
  BY <1>1, <1>2, <1>a, <1>b, <1>7 DEF Counters, Within, Close
<1>8. CASE WriteFails(e) \/ WriteEmpty(e)
  <2>1. CASE left' = [left EXCEPT ![e] = 0] /\ UNCHANGED bytes
    BY <1>1, <1>2, <1>a, <1>b, <2>1 DEF Counters, Within, bytes
  <2>. QED
    BY <1>7, <1>8, <2>1 DEF WriteFails, WriteEmpty, Fails
<1>9. CASE ReadReturn(e)
  <2> DEFINE t == Taken(queue[e])
             u == Unread(queue[e])
  <2>1. queue[e] \in Nat /\ queue[e] > 0
    BY <1>1, <1>9 DEF Counters, ReadReturn
  <2>2. t \in 1..queue[e] /\ u \in Nat /\ u + t = queue[e]
    BY <2>1, Takes
  <2>3. /\ got' = [got EXCEPT ![e] = got[e] + t] /\ queue' = [queue EXCEPT ![e] = u]
        /\ UNCHANGED <<left, sent, wire>>
    BY <1>9 DEF ReadReturn
  <2> HIDE DEF t, u
  <2>. QED
    BY <1>1, <1>2, <1>a, <1>b, <2>1, <2>2, <2>3 DEF Counters, Within
<1>10. CASE Deliver(e)
  BY <1>1, <1>2, <1>a, <1>b, <1>10 DEF Counters, Within, Deliver, call
<1>11. CASE Refuse(e)
  BY <1>1, <1>2, <1>a, <1>b, <1>11 DEF Counters, Within, Refuse, call
<1>12. CASE RstArrive(e)
  BY <1>1, <1>2, <1>a, <1>b, <1>12 DEF Counters, Within, RstArrive, call
<1>13. CASE \/ ReadCall(e) \/ ReadThrows(e) \/ (\E a \in Actions : Stop(e, a))
            \/ DtorShutdown(e) \/ FinArrive(e)
  BY <1>4, <1>13 DEF ReadCall, ReadThrows, Stop, DtorShutdown, FinArrive, call
<1>14. CASE DtorClose(e)
  BY <1>7, <1>14 DEF DtorClose
<1>. QED
  BY <1>5, <1>6, <1>8, <1>9, <1>10, <1>11, <1>12, <1>13, <1>14 DEF Step

LEMMA TypeStep ==
    ASSUME TypeOK, NEW e \in Ends, Step(e)
    PROVE  TypeOK'
<1>1. TypeOK' <=> Counters' /\ Others' /\ \A x \in Ends : Within(x)'
  BY DEF TypeOK, Counters, Others, Within
<1>. QED
  BY <1>1, OthersStep, BytesStep, Zenon

-----------------------------------------------------------------------------
(* An action of e concerns what is known at e and at its peer.             *)
LEMMA PartsStep ==
    ASSUME IInv, NEW e \in Ends, Step(e)
    PROVE  \A x \in Ends : Parts(x)'
<1> DEFINE p == Peer(e)
<1>1. p \in Ends /\ p # e /\ Peer(p) = e /\ Ends = {e, p}
  BY Peers
<1> SUFFICES Parts(e)' /\ Parts(p)'
  BY <1>1
<1>2. Peer(e) = p
  OBVIOUS
<1>3. Counters /\ Others /\ Within(e) /\ Within(p) /\ Parts(e) /\ Parts(p)
  BY <1>1, TypeParts DEF IInv
<1>4. SendRoom \in Nat /\ MaxMessage \in Nat
  BY StreamAssumption
<1> HIDE DEF p
<1> USE DEF Counters, Others, Within, Parts, ResetKnown, Conserved, FinIsLast, CallsLive, Shown,
            Present, ResetByAway, Away
<1>5. ASSUME NEW n \in 1..MaxMessage, WriteCall(e, n) PROVE Parts(e)' /\ Parts(p)'
  BY <1>1, <1>2, <1>3, <1>4, <1>5 DEF WriteCall, bytes, socket
<1>6. CASE Take(e)
  <2>1. Parts(e)'
    BY <1>1, <1>2, <1>3, <1>4, <1>6 DEF Take, MaySend, socket
  <2>2. Parts(p)'
    BY <1>1, <1>2, <1>3, <1>4, <1>6 DEF Take, MaySend, socket
  <2>. QED
    BY <2>1, <2>2
<1>7. ASSUME NEW how \in {"closed", "killed"}, Close(e, how) PROVE Parts(e)' /\ Parts(p)'
  BY <1>1, <1>2, <1>3, <1>4, <1>7 DEF Close, Finished
<1>8. CASE WriteFails(e) \/ WriteEmpty(e)
  <2>1. CASE /\ left' = [left EXCEPT ![e] = 0]
             /\ conn' = [conn EXCEPT ![e] = IF @ = "reset" /\ ~took[e] THEN "dead" ELSE @]
             /\ UNCHANGED <<obj, reading, bytes, fin, rst, shut, ceased, threw>>
    BY <1>1, <1>2, <1>3, <1>4, <2>1 DEF bytes
  <2>. QED
    BY <1>7, <1>8, <2>1 DEF WriteFails, WriteEmpty, Fails
<1>9. CASE ReadCall(e)
  BY <1>1, <1>2, <1>3, <1>4, <1>9 DEF ReadCall, bytes, socket
<1>10. CASE ReadReturn(e)
  <2> DEFINE t == Taken(queue[e])
             u == Unread(queue[e])
  <2>1. queue[e] \in Nat /\ queue[e] > 0
    BY <1>1, <1>3, <1>10 DEF ReadReturn
  <2>2. t \in 1..queue[e] /\ u \in Nat /\ u + t = queue[e]
    BY <2>1, Takes
  <2>3. /\ got' = [got EXCEPT ![e] = got[e] + t] /\ queue' = [queue EXCEPT ![e] = u]
        /\ reading' = [reading EXCEPT ![e] = FALSE]
        /\ UNCHANGED <<obj, left, sent, wire, socket, threw>>
    BY <1>10 DEF ReadReturn
  <2> HIDE DEF t, u
  <2>. QED
    BY <1>1, <1>2, <1>3, <1>4, <2>1, <2>2, <2>3 DEF socket
<1>11. CASE ReadThrows(e)
  BY <1>1, <1>2, <1>3, <1>4, <1>11 DEF ReadThrows, bytes
<1>12. ASSUME NEW a \in Actions, Stop(e, a) PROVE Parts(e)' /\ Parts(p)'
  <2>0. shut[e] = Both => shut'[e] = Both
    <3>1. How(a) \subseteq Both
      BY DEF How, Actions, Both
    <3>. QED
      BY <1>3, <1>12, <3>1 DEF Stop, ShutDown
  <2>1. Parts(e)'
    BY <1>1, <1>2, <1>3, <1>4, <1>12, <2>0 DEF Stop, ShutDown, Finished, call, bytes
  <2>2. Parts(p)'
    BY <1>1, <1>2, <1>3, <1>4, <1>12 DEF Stop, ShutDown, Finished, call, bytes
  <2>. QED
    BY <2>1, <2>2
<1>13. CASE DtorShutdown(e)
  BY <1>1, <1>2, <1>3, <1>4, <1>13 DEF DtorShutdown, ShutDown, Finished, Both, call, bytes, socket
<1>14. CASE DtorClose(e)
  BY <1>7, <1>14 DEF DtorClose
<1>15. CASE Deliver(e)
  BY <1>1, <1>2, <1>3, <1>4, <1>15 DEF Deliver, call, socket
<1>16. CASE Refuse(e)
  BY <1>1, <1>2, <1>3, <1>4, <1>16 DEF Refuse, Accepting, call
<1>17. CASE FinArrive(e)
  BY <1>1, <1>2, <1>3, <1>4, <1>17 DEF FinArrive, call, bytes
<1>18. CASE RstArrive(e)
  BY <1>1, <1>2, <1>3, <1>4, <1>18 DEF RstArrive, call
<1>. QED
  BY <1>5, <1>6, <1>8, <1>9, <1>10, <1>11, <1>12, <1>13, <1>14, <1>15, <1>16, <1>17, <1>18 DEF Step

-----------------------------------------------------------------------------
LEMMA Start == Init => IInv
<1> SUFFICES ASSUME Init PROVE IInv
  OBVIOUS
<1>1. \A e \in Ends : Peer(e) \in Ends
  BY Peers
<1>2. Counters
  BY StreamAssumption DEF Init, Counters
<1>3. Others
  BY DEF Init, Others
<1>4. \A e \in Ends : Within(e)
  BY <1>1, StreamAssumption DEF Init, Within, Ends
<1>5. \A e \in Ends : Parts(e)
  BY <1>1 DEF Init, Parts, ResetKnown, Conserved, FinIsLast, CallsLive, Shown, ResetByAway
<1>. QED
  BY <1>2, <1>3, <1>4, <1>5, TypeParts DEF IInv

LEMMA Steps == IInv /\ [Next]_vars => IInv'
<1> SUFFICES ASSUME IInv, [Next]_vars PROVE IInv'
  OBVIOUS
<1>1. CASE UNCHANGED vars
  BY <1>1 DEF vars, call, bytes, socket, IInv, TypeOK, Parts, ResetKnown, Conserved, FinIsLast,
     CallsLive, Shown, ResetByAway, Away, Present
<1>2. ASSUME NEW e \in Ends, Step(e) PROVE IInv'
  <2>1. TypeOK'
    BY <1>2, TypeStep DEF IInv
  <2>2. \A x \in Ends : Parts(x)'
    BY <1>2, PartsStep
  <2>. QED
    BY <2>1, <2>2 DEF IInv
<1>. QED
  BY <1>1, <1>2 DEF Next

(* Every byte is at most in one place: on its way, received or read; and   *)
(* none is read that was not sent.                                         *)
THEOREM StreamTypeCorrect == Spec => []TypeOK
<1>1. IInv => TypeOK
  BY DEF IInv
<1>. QED
  BY <1>1, Start, Steps, PTL DEF Spec

(* Though read() throws at the end of the stream as on an error, a caller  *)
(* that did not stop reading, on a connection that was not reset, has got  *)
(* everything the peer's writes took.                                      *)
THEOREM ThrowMeansAllRead == Spec => []EndMeansAll
<1>1. IInv => EndMeansAll
  BY DEF IInv, Parts, Shown, EndMeansAll
<1>. QED
  BY <1>1, Start, Steps, PTL DEF Spec

(* Bytes that a write took are lost only when the reader is away, or when  *)
(* the writer went away before it had read all it was sent.                *)
THEOREM LossIsTheWritersHaste == Spec => []LossNeedsUnread
<1>1. IInv => LossNeedsUnread
  <2> SUFFICES ASSUME IInv, NEW e \in Ends
               PROVE  LET p == Peer(e) IN
                      \/ sent[e] = wire[e] + queue[p] + got[p]
                      \/ Away(p)
                      \/ Away(e) /\ got[e] < sent[p]
    BY DEF LossNeedsUnread
  <2> DEFINE p == Peer(e)
  <2>1. p \in Ends /\ Peer(p) = e
    BY Peers
  <2>2. Parts(p) /\ Counters
    BY <2>1, TypeParts DEF IInv
  <2>3. CASE conn[p] = "up" /\ ~Away(p)
    BY <2>1, <2>2, <2>3 DEF Parts, Conserved, Present, Away
  <2>4. CASE conn[p] # "up" /\ ~Away(p)
    BY <2>1, <2>2, <2>4 DEF Parts, ResetByAway, Counters
  <2>. QED
    BY <2>3, <2>4
<1>. QED
  BY <1>1, Start, Steps, PTL DEF Spec
-----------------------------------------------------------------------------
(* A step as the pipe in which e writes has it.                            *)
Rests(e) ==
    /\ StateFrom(e)' = StateFrom(e) /\ InsideFrom(e)' = InsideFrom(e)
    /\ sent'[e] = sent[e] /\ got'[Peer(e)] = got[Peer(e)]

Writes(e) ==
    /\ StateFrom(e) # "ended" /\ StateFrom(e)' = StateFrom(e)
    /\ InsideFrom(e)' = InsideFrom(e) + 1
    /\ sent'[e] = sent[e] + 1 /\ got'[Peer(e)] = got[Peer(e)]

Reads(e) ==
    /\ StateFrom(e)' = StateFrom(e) /\ sent'[e] = sent[e]
    /\ \E n \in 1..BufferSize :
           /\ n <= InsideFrom(e) /\ InsideFrom(e)' = InsideFrom(e) - n
           /\ got'[Peer(e)] = got[Peer(e)] + n

Tells(e) ==
    /\ StateFrom(e) = "open" /\ InsideFrom(e) = 0 /\ StateFrom(e)' = "ended"
    /\ InsideFrom(e)' = InsideFrom(e)
    /\ sent'[e] = sent[e] /\ got'[Peer(e)] = got[Peer(e)]

Cuts(e) ==
    /\ StateFrom(e)' = "cut" /\ InsideFrom(e)' \in 0..InsideFrom(e)
    /\ sent'[e] = sent[e] /\ got'[Peer(e)] = got[Peer(e)]

PipeStep(e) == Rests(e) \/ Writes(e) \/ Reads(e) \/ Tells(e) \/ Cuts(e)

(* What the end that writes does: it adds to what is inside, or it learns  *)
(* that the pipe has been cut.                                             *)
LEMMA WriterStep ==
    ASSUME IInv, NEW e \in Ends, Step(e)
    PROVE  PipeStep(e)
<1> DEFINE p == Peer(e)
<1>1. p \in Ends /\ p # e /\ Peer(p) = e /\ Ends = {e, p}
  BY Peers
<1>2. Peer(e) = p
  OBVIOUS
<1>3. Counters /\ Others /\ Parts(e) /\ Parts(p)
  BY <1>1, TypeParts DEF IInv
<1> HIDE DEF p
<1>4. ASSUME UNCHANGED <<wire[e], queue[p], sent[e], got[p], obj[p], conn[p], shut[p], threw[p]>>
      PROVE  PipeStep(e)
  BY <1>2, <1>4 DEF PipeStep, Rests, StateFrom, InsideFrom
<1>5. ASSUME NEW n \in 1..MaxMessage, WriteCall(e, n) PROVE PipeStep(e)
  BY <1>4, <1>5 DEF WriteCall, bytes, socket
<1>6. CASE Take(e)
  <2>1. StateFrom(e) # "ended"
    BY <1>1, <1>2, <1>3, <1>6 DEF StateFrom, Take, MaySend, Parts, Shown, FinIsLast, Counters
  <2>2. StateFrom(e)' = StateFrom(e)
    BY <1>2, <1>6 DEF StateFrom, Take, socket
  <2>3. InsideFrom(e)' = InsideFrom(e) + 1
    BY <1>1, <1>2, <1>3, <1>6 DEF InsideFrom, Take, Counters
  <2>4. sent'[e] = sent[e] + 1 /\ got'[p] = got[p]
    BY <1>3, <1>6 DEF Take, Counters
  <2>. QED
    BY <1>2, <2>1, <2>2, <2>3, <2>4 DEF PipeStep, Writes
<1>7. ASSUME NEW how \in {"closed", "killed"}, Close(e, how) PROVE PipeStep(e)
  BY <1>1, <1>3, <1>4, <1>7 DEF Close, Counters, Others
<1>8. CASE WriteFails(e) \/ WriteEmpty(e)
  BY <1>1, <1>3, <1>4, <1>7, <1>8 DEF WriteFails, WriteEmpty, Fails, bytes, Counters, Others
<1>9. CASE ReadCall(e)
  BY <1>4, <1>9 DEF ReadCall, bytes, socket
<1>10. CASE ReadReturn(e)
  BY <1>1, <1>3, <1>4, <1>10 DEF ReadReturn, socket, Counters, Others
<1>11. CASE ReadThrows(e)
  BY <1>1, <1>3, <1>4, <1>11 DEF ReadThrows, bytes, Counters, Others
<1>12. ASSUME NEW a \in Actions, Stop(e, a) PROVE PipeStep(e)
  BY <1>1, <1>3, <1>4, <1>12 DEF Stop, ShutDown, call, bytes, Counters, Others
<1>13. CASE DtorShutdown(e)
  BY <1>1, <1>3, <1>4, <1>13 DEF DtorShutdown, ShutDown, call, bytes, socket, Counters, Others
<1>14. CASE DtorClose(e)
  BY <1>7, <1>14 DEF DtorClose
<1>15. CASE Deliver(e)
  <2>1. InsideFrom(e)' = InsideFrom(e)
    BY <1>1, <1>2, <1>3, <1>15 DEF InsideFrom, Deliver, Counters
  <2>. QED
    BY <1>2, <1>15, <2>1 DEF Deliver, socket, PipeStep, Rests, StateFrom
<1>16. CASE Refuse(e)
  <2>1. StateFrom(e)' = "cut"
    BY <1>1, <1>2, <1>3, <1>16 DEF StateFrom, Refuse, Accepting, Present, Both, Others
  <2>2. InsideFrom(e)' \in 0..InsideFrom(e)
    BY <1>1, <1>2, <1>3, <1>16, StreamAssumption DEF InsideFrom, Refuse, Counters
  <2>. QED
    BY <1>2, <1>16, <2>1, <2>2 DEF Refuse, PipeStep, Cuts
<1>17. CASE FinArrive(e)
  BY <1>4, <1>17 DEF FinArrive, call, bytes
<1>18. CASE RstArrive(e)
  <2>1. StateFrom(e)' = "cut"
    BY <1>1, <1>2, <1>3, <1>18 DEF StateFrom, RstArrive, Parts, ResetKnown, Others
  <2>2. InsideFrom(e)' \in 0..InsideFrom(e)
    BY <1>1, <1>2, <1>3, <1>18, StreamAssumption DEF InsideFrom, RstArrive, Counters
  <2>. QED
    BY <1>2, <1>18, <2>1, <2>2 DEF RstArrive, PipeStep, Cuts
<1>. QED
  BY <1>5, <1>6, <1>8, <1>9, <1>10, <1>11, <1>12, <1>13, <1>14, <1>15, <1>16, <1>17, <1>18 DEF Step

(* What the end p that reads does to the pipe in which its peer e writes:  *)
(* it takes out, is told of the end, or cuts.                              *)
LEMMA ReaderStep ==
    ASSUME IInv, NEW p \in Ends, Step(p)
    PROVE  PipeStep(Peer(p))
<1> DEFINE e == Peer(p)
<1>1. e \in Ends /\ p # e /\ Peer(e) = p /\ Ends = {e, p}
  BY Peers
<1>2. Peer(p) = e
  OBVIOUS
<1>3. Counters /\ Others /\ Parts(e) /\ Parts(p)
  BY <1>1, TypeParts DEF IInv
<1> SUFFICES PipeStep(e)
  OBVIOUS
<1> HIDE DEF e
<1>i. InsideFrom(e) = wire[e] + queue[p] /\ InsideFrom(e)' = wire'[e] + queue'[p]
  BY <1>1 DEF InsideFrom
<1>n. wire[e] \in Nat /\ queue[p] \in Nat /\ got[p] \in Nat
  BY <1>1, <1>3, StreamAssumption DEF Counters
<1>4. ASSUME UNCHANGED <<wire[e], queue[p], sent[e], got[p], obj[p], conn[p], shut[p], threw[p]>>
      PROVE  PipeStep(e)
  BY <1>1, <1>4 DEF PipeStep, Rests, StateFrom, InsideFrom
<1>c. ASSUME UNCHANGED <<sent[e], got[p]>>, wire'[e] + queue'[p] \in 0..(wire[e] + queue[p]),
             \/ obj'[p] # "live" \/ "RD" \in shut'[p] \/ conn'[p] # "up"
      PROVE  PipeStep(e)
  BY <1>1, <1>i, <1>c DEF PipeStep, Cuts, StateFrom
<1>5. ASSUME NEW n \in 1..MaxMessage, WriteCall(p, n) PROVE PipeStep(e)
  BY <1>4, <1>5 DEF WriteCall, bytes, socket
<1>6. CASE Take(p)
  BY <1>1, <1>3, <1>4, <1>6 DEF Take, socket, Counters
<1>7. ASSUME NEW how \in {"closed", "killed"}, Close(p, how) PROVE PipeStep(e)
  <2>1. UNCHANGED <<sent[e], got[p], wire[e]>> /\ queue'[p] = 0 /\ obj'[p] # "live"
    BY <1>1, <1>3, <1>7 DEF Close, Counters, Others
  <2>. QED
    BY <1>c, <1>n, <2>1
<1>8. CASE WriteFails(p) \/ WriteEmpty(p)
  <2>1. CASE /\ conn' = [conn EXCEPT ![p] = IF @ = "reset" /\ ~took[p] THEN "dead" ELSE @]
             /\ UNCHANGED <<obj, bytes, shut, threw>>
    <3>1. conn'[p] # "up" <=> conn[p] # "up"
      BY <1>1, <1>3, <2>1 DEF Others
    <3>. QED
      BY <1>1, <2>1, <3>1 DEF bytes, PipeStep, Rests, StateFrom, InsideFrom
  <2>. QED
    BY <1>7, <1>8, <2>1 DEF WriteFails, WriteEmpty, Fails
<1>9. CASE ReadCall(p)
  BY <1>4, <1>9 DEF ReadCall, bytes, socket
<1>10. CASE ReadReturn(p)
  <2> DEFINE t == Taken(queue[p])
             u == Unread(queue[p])
  <2>1. t \in 1..queue[p] /\ u \in Nat /\ u + t = queue[p] /\ t <= BufferSize
    <3>1. queue[p] \in Nat /\ queue[p] > 0
      BY <1>1, <1>3, <1>10 DEF Counters, ReadReturn
    <3>2. t <= BufferSize
      BY <3>1, StreamAssumption DEF Taken
    <3>. QED
      BY <3>1, <3>2, Takes
  <2>2. /\ got'[p] = got[p] + t /\ queue'[p] = u
        /\ UNCHANGED <<obj, sent, wire, shut, conn, threw>>
    BY <1>1, <1>3, <1>10 DEF ReadReturn, Counters, socket
  <2> HIDE DEF t, u
  <2>3. t \in 1..BufferSize
    BY <1>n, <2>1, StreamAssumption
  <2>4. t <= InsideFrom(e) /\ InsideFrom(e)' = InsideFrom(e) - t
    BY <1>i, <1>n, <2>1, <2>2
  <2>5. StateFrom(e)' = StateFrom(e)
    BY <1>1, <2>2 DEF StateFrom
  <2>. QED
    BY <1>1, <2>2, <2>3, <2>4, <2>5 DEF PipeStep, Reads
<1>11. CASE ReadThrows(p)
  <2>1. UNCHANGED <<obj, bytes, shut>> /\ queue[p] = 0 /\ threw'[p]
    BY <1>1, <1>3, <1>11 DEF ReadThrows, Others
  <2>2. conn'[p] # "up" <=> conn[p] # "up"
    BY <1>1, <1>3, <1>11 DEF ReadThrows, Others
  <2>3. CASE StateFrom(e) # "open"
    <3>1. StateFrom(e)' = StateFrom(e)
      BY <1>1, <2>1, <2>2, <2>3 DEF StateFrom
    <3>. QED
      BY <1>1, <2>1, <3>1 DEF bytes, PipeStep, Rests, InsideFrom
  <2>4. CASE StateFrom(e) = "open"
    <3>1. obj[p] = "live" /\ "RD" \notin shut[p] /\ conn[p] = "up"
      BY <1>1, <2>4 DEF StateFrom
    <3>2. fin[e] = "arrived"
      BY <1>2, <1>11, <3>1 DEF ReadThrows
    <3>3. wire[e] = 0
      BY <1>1, <1>3, <3>1, <3>2 DEF Parts, FinIsLast
    <3>4. StateFrom(e)' = "ended"
      BY <1>1, <2>1, <2>2, <3>1 DEF StateFrom
    <3>5. InsideFrom(e) = 0 /\ InsideFrom(e)' = InsideFrom(e)
      BY <1>i, <2>1, <3>3 DEF bytes
    <3>. QED
      BY <2>1, <2>4, <3>4, <3>5 DEF bytes, PipeStep, Tells
  <2>. QED
    BY <2>3, <2>4
<1>12. ASSUME NEW a \in Actions, Stop(p, a) PROVE PipeStep(e)
  <2>1. UNCHANGED <<obj, conn, bytes, threw>> /\ shut'[p] = shut[p] \cup How(a)
    BY <1>1, <1>3, <1>12 DEF Stop, ShutDown, Others
  <2>2. "RD" \in shut'[p] \/ ("RD" \in shut'[p] <=> "RD" \in shut[p])
    BY <2>1
  <2>3. CASE "RD" \in shut'[p]
    BY <1>c, <1>n, <2>1, <2>3 DEF bytes
  <2>4. CASE "RD" \notin shut'[p]
    BY <1>1, <2>1, <2>4 DEF bytes, PipeStep, Rests, StateFrom, InsideFrom
  <2>. QED
    BY <2>3, <2>4
<1>13. CASE DtorShutdown(p)
  <2>1. UNCHANGED bytes /\ obj'[p] # "live"
    BY <1>1, <1>3, <1>13 DEF DtorShutdown, Others
  <2>. QED
    BY <1>c, <1>n, <2>1 DEF bytes
<1>14. CASE DtorClose(p)
  BY <1>7, <1>14 DEF DtorClose
<1>15. CASE Deliver(p)
  BY <1>1, <1>2, <1>3, <1>4, <1>15 DEF Deliver, socket, Counters
<1>16. CASE Refuse(p)
  BY <1>1, <1>2, <1>3, <1>4, <1>16 DEF Refuse, Counters, Others
<1>17. CASE FinArrive(p)
  BY <1>4, <1>17 DEF FinArrive, bytes
<1>18. CASE RstArrive(p)
  <2>1. UNCHANGED <<sent, got, queue>> /\ wire'[e] = 0 /\ conn'[p] # "up"
    BY <1>1, <1>3, <1>18 DEF RstArrive, Others
  <2>. QED
    BY <1>c, <1>n, <2>1
<1>. QED
  BY <1>5, <1>6, <1>8, <1>9, <1>10, <1>11, <1>12, <1>13, <1>14, <1>15, <1>16, <1>17, <1>18 DEF Step

LEMMA PipeSteps ==
    ASSUME IInv, [Next]_vars, NEW e \in Ends
    PROVE  PipeStep(e)
<1>1. CASE UNCHANGED vars
  BY <1>1 DEF vars, bytes, socket, PipeStep, Rests, StateFrom, InsideFrom
<1>2. ASSUME NEW x \in Ends, Step(x) PROVE PipeStep(e)
  <2>1. CASE x = e
    BY <1>2, <2>1, WriterStep
  <2>2. CASE x # e
    <3>1. Peer(x) = e
      BY <2>2, Peers
    <3>. QED
      BY <1>2, <3>1, ReaderStep
  <2>. QED
    BY <2>1, <2>2
<1>. QED
  BY <1>1, <1>2 DEF Next

(* Each direction of a connection is a pipe: no order of calls, deliveries,*)
(* FINs and resets loses a byte or reads one twice before the reader gives *)
(* up or is reset, and after a read that threw at the end nothing is       *)
(* written.                                                                *)
THEOREM StreamsArePipes == Spec => ImplementsPipes
<1>1. /\ Client \in Ends /\ Server \in Ends
      /\ Peer(Client) = Server /\ Peer(Server) = Client
  BY StreamAssumption DEF Ends, Peer
<1>2. Init => ToServer!Init /\ ToClient!Init
  BY <1>1 DEF Init, ToServer!Init, ToClient!Init, StateFrom, InsideFrom
<1>3. IInv /\ [Next]_vars => [ToServer!Next]_(ToServer!vars)
  <2> SUFFICES ASSUME IInv, [Next]_vars PROVE [ToServer!Next]_(ToServer!vars)
    OBVIOUS
  <2>1. PipeStep(Client)
    BY <1>1, PipeSteps
  <2>. QED
    BY <1>1, <2>1 DEF PipeStep, Rests, Writes, Reads, Tells, Cuts, ToServer!vars, ToServer!Next,
       ToServer!Write, ToServer!Read, ToServer!End, ToServer!Cut
<1>4. IInv /\ [Next]_vars => [ToClient!Next]_(ToClient!vars)
  <2> SUFFICES ASSUME IInv, [Next]_vars PROVE [ToClient!Next]_(ToClient!vars)
    OBVIOUS
  <2>1. PipeStep(Server)
    BY <1>1, PipeSteps
  <2>. QED
    BY <1>1, <2>1 DEF PipeStep, Rests, Writes, Reads, Tells, Cuts, ToClient!vars, ToClient!Next,
       ToClient!Write, ToClient!Read, ToClient!End, ToClient!Cut
<1>. QED
  BY <1>2, <1>3, <1>4, Start, Steps, PTL DEF Spec, ImplementsPipes, ToServer!Spec, ToClient!Spec
=============================================================================
