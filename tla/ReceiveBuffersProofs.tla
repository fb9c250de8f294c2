------------------------- MODULE ReceiveBuffersProofs -------------------------
(***************************************************************************)
(* The strings of the receive calls, for every size of buffer and message  *)
(* and whatever the uninitialised array holds.                             *)
(***************************************************************************)
EXTENDS ReceiveBuffers, SequenceTheorems, WellFoundedInduction, TLAPS

(* Messages are sequences of bytes, and so is a filled array.              *)
LEMMA Arrays ==
    /\ Message \subseteq Seq(Bytes)
    /\ Texts \subseteq Seq(Bytes)
    /\ \A t \in Texts : Len(t) \in 0..BufferSize
    /\ \A n \in 0..BufferSize : \A t \in [1..n -> Bytes] : t \in Texts /\ Len(t) = n
<1>1. Message \subseteq Seq(Bytes) /\ Texts \subseteq Seq(Bytes)
  BY BuffersAssumption, SeqDef DEF Message, Texts
<1>2. ASSUME NEW n \in 0..BufferSize, NEW t \in [1..n -> Bytes]
      PROVE  t \in Texts /\ Len(t) = n
  <2>1. t \in Texts /\ n \in Nat
    BY BuffersAssumption DEF Texts
  <2>2. t \in Seq(Bytes)
    BY <1>1, <2>1
  <2> QED BY <1>2, <2>1, <2>2, LenProperties
<1>3. ASSUME NEW t \in Texts PROVE Len(t) \in 0..BufferSize
  <2>1. PICK n \in 0..BufferSize : t \in [1..n -> Bytes]
    BY DEF Texts
  <2> QED BY <1>2, <2>1
<1> QED BY <1>1, <1>2, <1>3

(* recv() delivers a prefix that fits the buffer.                          *)
LEMMA ReceivedFits ==
    ASSUME NEW d \in Seq(Bytes)
    PROVE  /\ Received(d) \in Seq(Bytes) /\ Len(Received(d)) \in 0..BufferSize
           /\ Received(d) = SubSeq(d, 1, Len(Received(d)))
           /\ \/ Len(Received(d)) = Len(d)
              \/ Len(Received(d)) = BufferSize /\ ~Fits(d)
  <1>0. SubSeq(d, 1, Len(d)) = d
    <2>1. Len(d) \in Nat /\ \A i \in 1..Len(d) : d[i] \in Bytes
      BY LenProperties, ElementOfSeq
    <2>2. SubSeq(d, 1, Len(d)) \in Seq(Bytes) /\ Len(SubSeq(d, 1, Len(d))) = Len(d)
          /\ \A i \in 1..Len(d) : SubSeq(d, 1, Len(d))[i] = d[i]
      BY <2>1, SubSeqProperties, SMT
    <2> QED BY <2>2, SeqEqual
  <1>1. CASE Fits(d)
    BY <1>0, <1>1, LenProperties DEF Received, Fits
  <1>2. CASE ~Fits(d)
    <2>1. Len(d) \in Nat /\ BufferSize \in Nat \ {0} /\ BufferSize < Len(d)
      BY <1>2, LenProperties, BuffersAssumption DEF Fits
    <2>2. \A i \in 1..BufferSize : d[i] \in Bytes
      BY <2>1, ElementOfSeq
    <2>3. /\ SubSeq(d, 1, BufferSize) \in Seq(Bytes)
          /\ Len(SubSeq(d, 1, BufferSize)) = BufferSize
      BY <2>1, <2>2, SubSeqProperties
    <2> QED BY <1>2, <2>1, <2>3 DEF Received
  <1> QED BY <1>1, <1>2

(* A set of natural numbers has a least element.                           *)
LEMMA LeastOfNat ==
    ASSUME NEW T \in SUBSET Nat, T # {}
    PROVE  \E x \in T : \A y \in T : x <= y
  <1> DEFINE R == {ss \in Nat \X Nat : ss[1] < ss[2]}
  <1>1. IsWellFoundedOn(R, Nat)
    BY NatLessThanWellFounded DEF OpToRel
  <1>2. \A x, y \in Nat : <<y, x>> \notin R => x <= y
    OBVIOUS
  <1> HIDE DEF R
  <1>3. \E x \in T : \A y \in T : <<y, x>> \notin R
    BY <1>1, WFMin
  <1> QED BY <1>2, <1>3

(* The string of read is a sequence of bytes; it is all of the bytes that  *)
(* came when none of them is zero.                                         *)
LEMMA ReadTextWhole ==
    ASSUME NEW d \in Seq(Bytes), Len(d) \in 0..BufferSize, NEW junk \in Junk
    PROVE  /\ ReadText(d, junk) \in Seq(Bytes)
           /\ (\A i \in DOMAIN d : d[i] # Nul) => ReadText(d, junk) = d
  <1> DEFINE m == Terminated(d, junk)
             Ends(n) == /\ n = Len(m) \/ m[n + 1] = Nul
                        /\ \A k \in 1..n : m[k] # Nul
             len == CHOOSE n \in 0..Len(m) : Ends(n)
  <1>1. BufferSize \in Nat \ {0} /\ Nul \in Bytes
    BY BuffersAssumption DEF Bytes
  <1>2. d \in [1..Len(d) -> Bytes] /\ DOMAIN d = 1..Len(d)
    BY LenProperties
  <1>3. m \in [1..(BufferSize + 1) -> Bytes]
    BY <1>1, <1>2 DEF Terminated, ZeroPlace, Junk
  <1>4. m \in Seq(Bytes) /\ Len(m) = BufferSize + 1
    <2>1. m \in Seq(Bytes)
      BY <1>1, <1>3, SeqDef
    <2> QED BY <1>1, <1>3, <2>1, LenProperties
  <1>5. m[Len(d) + 1] = Nul /\ \A i \in 1..Len(d) : m[i] = d[i]
    BY <1>1 DEF Terminated, ZeroPlace
  <1> HIDE DEF m
  <1>6. len \in 0..Len(m) => SubSeq(m, 1, len) \in Seq(Bytes)
    <2> SUFFICES ASSUME len \in 0..Len(m) PROVE SubSeq(m, 1, len) \in Seq(Bytes)
      OBVIOUS
    <2> HIDE DEF len
    <2>1. \A i \in 1..len : m[i] \in Bytes
      BY <1>1, <1>3, <1>4
    <2> QED BY <1>1, <1>4, <2>1, SubSeqProperties
  <1>7. \E n \in 0..Len(m) : Ends(n)
    <2> DEFINE Zero(n) == n \in 1..Len(m) /\ m[n] = Nul
    <2>1. Zero(Len(d) + 1)
      BY <1>1, <1>4, <1>5
    <2> DEFINE zeros == {n \in Nat : Zero(n)}
    <2>2. PICK z \in zeros : \A k \in zeros : z <= k
      <3>1. zeros # {} /\ zeros \in SUBSET Nat
        BY <1>1, <1>4, <2>1
      <3> HIDE DEF zeros
      <3> QED BY <3>1, LeastOfNat
    <2>3. z - 1 \in 0..Len(m) /\ Ends(z - 1)
      BY <1>1, <1>4, <2>2
    <2> QED BY <2>3
  <1>8. len \in 0..Len(m) /\ Ends(len)
    <2> HIDE DEF Ends
    <2> QED BY <1>7
  <1>9. ReadText(d, junk) = SubSeq(m, 1, len)
    BY DEF ReadText, CString, m
  <1>10. ASSUME \A i \in DOMAIN d : d[i] # Nul PROVE ReadText(d, junk) = d
    <2> HIDE DEF len
    <2>1. len = Len(d)
      <3>1. Len(m) \in Nat /\ Len(d) \in Nat /\ len \in Nat /\ Len(d) < Len(m)
        BY <1>1, <1>4, <1>8
      <3>2. ~(len < Len(d))
        <4> SUFFICES ASSUME len < Len(d) PROVE FALSE
          OBVIOUS
        <4>1. len + 1 \in 1..Len(d) /\ len # Len(m)
          BY <3>1
        <4>2. m[len + 1] = Nul
          BY <1>8, <4>1
        <4> QED BY <1>2, <1>5, <1>10, <4>1, <4>2
      <3>3. ~(Len(d) < len)
        <4> SUFFICES ASSUME Len(d) < len PROVE FALSE
          OBVIOUS
        <4>1. Len(d) + 1 \in 1..len
          BY <3>1
        <4> QED BY <1>5, <1>8, <4>1
      <3> QED BY <3>1, <3>2, <3>3
    <2>2. SubSeq(m, 1, len) \in Seq(Bytes) /\ Len(SubSeq(m, 1, len)) = Len(d)
          /\ \A i \in 1..Len(d) : SubSeq(m, 1, len)[i] = m[i]
      <3>1. \A i \in 1..len : m[i] \in Bytes
        BY <1>1, <1>3, <1>4, <1>8
      <3>2. len \in Int /\ 1 \in Int
        BY <1>1, <1>4, <1>8
      <3>3. \A i \in 1..len : SubSeq(m, 1, len)[i] = m[i]
        BY <3>1, <3>2, SubSeqProperties, SMT
      <3>4. Len(SubSeq(m, 1, len)) = len
        BY <3>1, <3>2, <2>1, SubSeqProperties, SMT
      <3> QED BY <1>6, <1>8, <2>1, <3>3, <3>4
    <2> HIDE DEF Ends
    <2> QED BY <1>2, <1>5, <1>9, <2>2, SeqEqual
  <1> QED BY <1>6, <1>8, <1>9, <1>10
-----------------------------------------------------------------------------
(* t is what fits of d.                                                    *)
Cut(t, d) ==
    /\ t = SubSeq(d, 1, Len(t))
    /\ Len(t) = Len(d) \/ (Len(t) = BufferSize /\ ~Fits(d))

(* What the loop of a server has in hand.                                  *)
InHand(o) ==
    asked[o] # Nothing =>
        /\ raddr[o] = asked[o].from /\ asked[o] \in Packets
        /\ text[o] \in Texts
        /\ IF o \in Linux THEN Cut(text[o], asked[o].data)
           ELSE /\ Len(asked[o].data) <= Len(text[o])
                /\ SubSeq(text[o], 1, Len(asked[o].data)) = asked[o].data

BuffersInv ==
    /\ TypeOK /\ WholeWithoutNul
    /\ \A o \in Servers : InHand(o)
    /\ EchoBeginsWithRequest /\ EchoIsRequestCut

(* What is left in the inbox after a receive is a sequence of packets.     *)
LEMMA RemainingPackets ==
    ASSUME TypeOK, NEW o \in Objects, inbox[o] # <<>>
    PROVE  /\ Head(inbox[o]) \in Packets /\ Head(inbox[o]).data \in Seq(Bytes)
           /\ Tail(inbox[o]) \in Seq(Packets) /\ Remaining(o) \in Seq(Packets)
  <1>1. inbox[o] \in Seq(Packets)
    BY DEF TypeOK
  <1>2. Head(inbox[o]) \in Packets /\ Tail(inbox[o]) \in Seq(Packets)
    BY <1>1, HeadTailProperties
  <1> DEFINE d == Head(inbox[o]).data
             p == Head(inbox[o]).from
             rest == SubSeq(d, BufferSize + 1, Len(d))
  <1>3. d \in Seq(Bytes) /\ p \in Peers
    BY <1>2 DEF Packets
  <1>4. rest \in Seq(Bytes)
    <2> HIDE DEF d
    <2>1. Len(d) \in Int /\ BufferSize + 1 \in Int /\ BufferSize \in Nat
      BY <1>3, LenProperties, BuffersAssumption
    <2>2. \A i \in (BufferSize + 1)..Len(d) : d[i] \in Bytes
      BY <1>3, <2>1, ElementOfSeq
    <2> QED BY <2>1, <2>2, SubSeqProperties
  <1>5. <<Packet(p, rest)>> \in Seq(Packets)
    <2>1. Packet(p, rest) \in Packets
      BY <1>3, <1>4 DEF Packet, Packets
    <2> HIDE DEF p, rest
    <2> QED BY <2>1
  <1> QED BY <1>2, <1>3, <1>5 DEF Remaining

(* A packet that arrives, alone or added to a stream.                      *)
LEMMA ArrivingPackets ==
    ASSUME TypeOK, NEW o \in Objects, NEW p \in Peers, NEW d \in Message, Arrive(o, p, d)
    PROVE  inbox' \in [Objects -> Seq(Packets)]
  <1>1. inbox[o] \in Seq(Packets) /\ d \in Seq(Bytes)
    BY Arrays DEF TypeOK
  <1>2. Append(inbox[o], Packet(p, d)) \in Seq(Packets)
    <2>1. Packet(p, d) \in Packets
      BY <1>1 DEF Packet, Packets
    <2> QED BY <1>1, <2>1, AppendProperties
  <1>3. inbox[o] # <<>> =>
            <<Packet(Head(inbox[o]).from, Head(inbox[o]).data \o d)>> \in Seq(Packets)
    <2> SUFFICES ASSUME inbox[o] # <<>>
                 PROVE <<Packet(Head(inbox[o]).from, Head(inbox[o]).data \o d)>> \in Seq(Packets)
      OBVIOUS
    <2>1. Head(inbox[o]) \in Packets
      BY RemainingPackets
    <2>2. Head(inbox[o]).data \o d \in Seq(Bytes)
      BY <1>1, <2>1, ConcatProperties DEF Packets
    <2>3. Packet(Head(inbox[o]).from, Head(inbox[o]).data \o d) \in Packets
      BY <2>1, <2>2 DEF Packet, Packets
    <2> QED BY <2>3
  <1> QED BY <1>1, <1>2, <1>3 DEF Arrive, TypeOK

(* A read: types, and what it adds to the two histories.                   *)
LEMMA ReadStep ==
    ASSUME BuffersInv, NEW o \in Readers, NEW junk \in Junk, Read(o, junk)
    PROVE  BuffersInv'
  <1> DEFINE d == Received(Head(inbox[o]).data)
             t == IF o \in Linux THEN Counted(d, junk) ELSE ReadText(d, junk)
  <1>0. TypeOK /\ o \in Objects
    BY DEF BuffersInv, Objects
  <1>1. d \in Seq(Bytes) /\ Len(d) \in 0..BufferSize /\ Remaining(o) \in Seq(Packets)
    BY <1>0, RemainingPackets, ReceivedFits DEF Read
  <1>2. t \in Seq(Bytes) /\ (o \in Linux \/ (\A i \in DOMAIN d : d[i] # Nul) => t = d)
    BY <1>1, ReadTextWhole DEF Counted
  <1>3. /\ inbox' = [inbox EXCEPT ![o] = Remaining(o)]
        /\ taken' = [taken EXCEPT ![o] = @ \o d]
        /\ given' = [given EXCEPT ![o] = @ \o t]
        /\ overrun' = IF o \notin Linux /\ ZeroPlace(Len(d)) > BufferSize
                      THEN overrun \cup {o} ELSE overrun
        /\ UNCHANGED <<arrived, refused, serving>>
    BY DEF Read
  <1> HIDE DEF d, t
  <1>4. taken[o] \in Seq(Bytes) /\ given[o] \in Seq(Bytes)
    BY <1>0 DEF TypeOK
  <1>5. taken[o] \o d \in Seq(Bytes) /\ given[o] \o t \in Seq(Bytes)
    BY <1>1, <1>2, <1>4, ConcatProperties
  <1>6. TypeOK'
    BY <1>0, <1>1, <1>3, <1>5 DEF TypeOK, serving
  <1>7. WholeWithoutNul'
    <2> SUFFICES ASSUME NEW r \in Readers,
                        \/ r \in Linux
                        \/ r \notin overrun' /\ \A i \in DOMAIN taken'[r] : taken'[r][i] # Nul
                 PROVE  given'[r] = taken'[r]
      BY DEF WholeWithoutNul
    <2>1. CASE r # o
      BY <1>0, <1>3, <2>1 DEF BuffersInv, WholeWithoutNul, TypeOK
    <2>2. CASE r = o
      <3>1. taken'[o] = taken[o] \o d /\ given'[o] = given[o] \o t
        BY <1>0, <1>3 DEF TypeOK
      <3>2. /\ DOMAIN taken[o] = 1..Len(taken[o]) /\ Len(taken[o]) \in Nat
            /\ DOMAIN d = 1..Len(d)
            /\ DOMAIN (taken[o] \o d) = 1..Len(taken[o] \o d)
        BY <1>1, <1>4, <1>5, LenProperties
      <3>3. /\ Len(taken[o] \o d) = Len(taken[o]) + Len(d)
            /\ \A i \in 1..(Len(taken[o]) + Len(d)) : (taken[o] \o d)[i] =
                    IF i <= Len(taken[o]) THEN taken[o][i] ELSE d[i - Len(taken[o])]
        BY <1>1, <1>4, ConcatProperties
      <3>4. \/ o \in Linux
            \/ o \notin overrun /\ \A i \in DOMAIN taken[o] : taken[o][i] # Nul
        BY <1>1, <1>3, <2>2, <3>1, <3>2, <3>3
      <3>5. o \in Linux \/ \A i \in DOMAIN d : d[i] # Nul
        <4> SUFFICES ASSUME o \notin Linux, NEW i \in DOMAIN d PROVE d[i] # Nul
          OBVIOUS
        <4>1. i + Len(taken[o]) \in 1..(Len(taken[o]) + Len(d))
              /\ ~(i + Len(taken[o]) <= Len(taken[o]))
              /\ (i + Len(taken[o])) - Len(taken[o]) = i
          BY <1>1, <3>2
        <4>2. (taken[o] \o d)[i + Len(taken[o])] = d[i]
          BY <3>3, <4>1
        <4> QED BY <2>2, <3>1, <3>2, <3>3, <4>1, <4>2
      <3> QED BY <1>2, <2>2, <3>1, <3>4, <3>5 DEF BuffersInv, WholeWithoutNul
    <2> QED BY <2>1, <2>2
  <1>8. (\A s \in Servers : InHand(s))' /\ EchoBeginsWithRequest' /\ EchoIsRequestCut'
    BY <1>3 DEF BuffersInv, InHand, EchoBeginsWithRequest, EchoIsRequestCut, serving
  <1> QED BY <1>6, <1>7, <1>8 DEF BuffersInv

(* The whole array of a Windows read_from begins with a message that fits. *)
LEMMA WholeBegins ==
    ASSUME NEW d \in Seq(Bytes), Fits(d), NEW junk \in Junk
    PROVE  /\ Whole(d, junk) \in Texts /\ Len(Whole(d, junk)) = BufferSize
           /\ SubSeq(Whole(d, junk), 1, Len(d)) = d
  <1> DEFINE w == Whole(d, junk)
  <1>1. BufferSize \in Nat \ {0} /\ Len(d) \in 0..BufferSize
    BY LenProperties, BuffersAssumption DEF Fits
  <1>2. \A i \in 1..Len(d) : d[i] \in Bytes
    BY ElementOfSeq
  <1>3. w \in [1..BufferSize -> Bytes] /\ \A i \in 1..Len(d) : w[i] = d[i]
    BY <1>1, <1>2 DEF Whole, Junk
  <1> HIDE DEF w
  <1>4. w \in Texts /\ Len(w) = BufferSize
    BY <1>1, <1>3, Arrays
  <1>5. SubSeq(w, 1, Len(d)) = d
    <2>1. \A i \in 1..Len(d) : w[i] \in Bytes
      BY <1>1, <1>3
    <2>2. Len(d) \in Int /\ Len(d) >= 0 /\ 1 \in Int
      BY <1>1
    <2>3. SubSeq(w, 1, Len(d)) \in Seq(Bytes)
      BY <2>1, <2>2, SubSeqProperties
    <2>4. Len(SubSeq(w, 1, Len(d))) = Len(d)
      BY <2>1, <2>2, SubSeqProperties, SMT
    <2>5. \A i \in 1..Len(d) : SubSeq(w, 1, Len(d))[i] = w[i]
      BY <2>1, <2>2, SubSeqProperties, SMT
    <2> QED BY <1>3, <2>3, <2>4, <2>5, SeqEqual
  <1> QED BY <1>4, <1>5 DEF w

(* A message taken by read_from names the sender; on Windows it begins the *)
(* string, on Linux the string is what fits of it.                         *)
LEMMA ReadFromStep ==
    ASSUME BuffersInv, NEW o \in Servers, NEW junk \in Junk, ReadFrom(o, junk)
    PROVE  BuffersInv'
  <1> DEFINE m == Head(inbox[o])
             w == IF o \in Linux THEN Counted(Received(m.data), junk) ELSE Whole(m.data, junk)
  <1>0. TypeOK /\ o \in Objects
    BY DEF BuffersInv, Objects
  <1>1. m \in Packets /\ m.data \in Seq(Bytes) /\ Tail(inbox[o]) \in Seq(Packets)
    BY <1>0, RemainingPackets DEF ReadFrom
  <1>2. ASSUME o \in Linux PROVE w \in Texts /\ Cut(w, m.data)
    <2>1. w = Received(m.data)
      BY <1>2 DEF Counted
    <2>2. w \in Seq(Bytes) /\ Len(w) \in 0..BufferSize /\ Cut(w, m.data)
      BY <1>1, <2>1, ReceivedFits DEF Cut
    <2> HIDE DEF w
    <2>3. w \in [1..Len(w) -> Bytes]
      BY <2>2, LenProperties
    <2> QED BY <1>2, <2>2, <2>3, Arrays
  <1>3. ASSUME o \notin Linux
        PROVE  w \in Texts /\ Len(m.data) <= Len(w) /\ SubSeq(w, 1, Len(m.data)) = m.data
    <2>1. Fits(m.data)
      BY <1>3, BuffersAssumption DEF ReadFrom, Accepted
    <2>2. w = Whole(m.data, junk)
      BY <1>3
    <2> HIDE DEF w, m
    <2> QED BY <1>1, <1>3, <2>1, <2>2, WholeBegins DEF Fits
  <1>4. /\ w \in Texts
        /\ IF o \in Linux THEN Cut(w, m.data)
           ELSE Len(m.data) <= Len(w) /\ SubSeq(w, 1, Len(m.data)) = m.data
    <2> HIDE DEF w, m
    <2> QED BY <1>2, <1>3
  <1>5. /\ inbox' = [inbox EXCEPT ![o] = Tail(@)]
        /\ raddr' = [raddr EXCEPT ![o] = m.from]
        /\ text' = [text EXCEPT ![o] = w]
        /\ asked' = [asked EXCEPT ![o] = m]
        /\ UNCHANGED <<arrived, refused, answers, reads>>
    BY DEF ReadFrom, Heard
  <1> HIDE DEF w, m
  <1>6. TypeOK'
    BY <1>0, <1>1, <1>4, <1>5 DEF TypeOK, Packets, reads
  <1>7. \A s \in Servers : InHand(s)'
    BY <1>0, <1>1, <1>4, <1>5 DEF BuffersInv, InHand, TypeOK, Cut
  <1> QED BY <1>5, <1>6, <1>7
      DEF BuffersInv, WholeWithoutNul, EchoBeginsWithRequest,
          EchoIsRequestCut, reads

(* An answer is made of what is in hand.                                   *)
LEMMA WriteBackStep ==
    ASSUME BuffersInv, NEW o \in Servers, WriteBack(o)
    PROVE  BuffersInv'
  <1> DEFINE a == [by |-> o, to |-> raddr[o], data |-> text[o], request |-> asked[o]]
  <1>0. TypeOK /\ asked[o] # Nothing /\ InHand(o) /\ BufferSize \in Nat
    BY BuffersAssumption DEF BuffersInv, WriteBack
  <1>1. /\ asked' = [asked EXCEPT ![o] = Nothing]
        /\ answers' \in {answers, answers \cup {a}}
        /\ UNCHANGED <<kernel, raddr, text, reads>>
    BY DEF WriteBack
  <1>2. raddr[o] = asked[o].from /\ asked[o] \in Packets /\ text[o] \in Texts
    BY <1>0 DEF InHand
  <1>3. IF o \in Linux THEN Cut(text[o], asked[o].data)
        ELSE /\ Len(asked[o].data) <= Len(text[o])
             /\ SubSeq(text[o], 1, Len(asked[o].data)) = asked[o].data
    BY <1>0 DEF InHand
  <1>4. TypeOK'
    BY <1>0, <1>1, <1>2 DEF TypeOK, kernel, reads
  <1>5. EchoBeginsWithRequest' /\ EchoIsRequestCut'
    BY <1>1, <1>2, <1>3 DEF BuffersInv, EchoBeginsWithRequest, EchoIsRequestCut, Cut
  <1>6. \A s \in Servers : InHand(s)'
    BY <1>0, <1>1 DEF BuffersInv, InHand, TypeOK
  <1> QED BY <1>1, <1>4, <1>5, <1>6
      DEF BuffersInv, WholeWithoutNul, reads

(* The steps that return no string.                                        *)
LEMMA OtherSteps ==
    ASSUME BuffersInv, NEW o \in Objects,
           \/ \E p \in Peers, d \in Message : Arrive(o, p, d)
           \/ o \in Servers /\ (Bounce(o) \/ ReadFromThrows(o))
           \/ o \in Readers /\ ReadThrows(o)
    PROVE  BuffersInv'
  <1>0. TypeOK
    BY DEF BuffersInv
  <1>1. CASE \E p \in Peers, d \in Message : Arrive(o, p, d)
    <2>1. PICK p \in Peers, d \in Message : Arrive(o, p, d)
      BY <1>1
    <2>2. inbox' \in [Objects -> Seq(Packets)]
      BY <1>0, <2>1, ArrivingPackets
    <2>3. arrived' \in [Objects -> 0..MaxArrivals] /\ UNCHANGED <<refused, serving, reads>>
      BY <1>0, <2>1, BuffersAssumption DEF Arrive, TypeOK
    <2> QED BY <2>2, <2>3 DEF BuffersInv, TypeOK, WholeWithoutNul,
                InHand, EchoBeginsWithRequest, EchoIsRequestCut, serving, reads
  <1>2. CASE o \in Servers /\ Bounce(o)
    BY <1>2 DEF Bounce, BuffersInv, TypeOK, WholeWithoutNul,
        InHand, EchoBeginsWithRequest, EchoIsRequestCut, serving, reads
  <1>3. CASE o \in Readers /\ ReadThrows(o)
    <2>1. Tail(inbox[o]) \in Seq(Packets)
      BY <1>0, <1>3, RemainingPackets DEF ReadThrows
    <2> QED BY <1>3, <2>1 DEF ReadThrows, BuffersInv, TypeOK, WholeWithoutNul,
                InHand, EchoBeginsWithRequest,
                EchoIsRequestCut, serving, reads
  <1>4. CASE o \in Servers /\ ReadFromThrows(o)
    <2>1. asked[o] = Nothing /\ UNCHANGED <<arrived, text, asked, answers, reads>>
          /\ refused' \subseteq refused
      BY <1>4 DEF ReadFromThrows
    <2>2. \/ UNCHANGED <<inbox, raddr>>
          \/ /\ inbox[o] # <<>> /\ inbox' = [inbox EXCEPT ![o] = Tail(@)]
             /\ raddr' = [raddr EXCEPT ![o] = Head(inbox[o]).from]
      BY <1>4 DEF ReadFromThrows, Heard
    <2>3. inbox[o] # <<>> =>
              Tail(inbox[o]) \in Seq(Packets) /\ Head(inbox[o]).from \in Peers
      BY <1>0, RemainingPackets DEF Packets
    <2>4. TypeOK'
      BY <1>0, <2>1, <2>2, <2>3 DEF TypeOK, reads
    <2>5. \A s \in Servers : s # o => raddr'[s] = raddr[s]
      BY <1>0, <2>2 DEF TypeOK
    <2>6. \A s \in Servers : InHand(s)'
      BY <2>1, <2>5 DEF BuffersInv, InHand
    <2> QED BY <2>1, <2>4, <2>6
        DEF BuffersInv, WholeWithoutNul, EchoBeginsWithRequest,
            EchoIsRequestCut, reads
  <1> QED BY <1>1, <1>2, <1>3, <1>4

LEMMA BuffersInvariant == Spec => []BuffersInv
  <1>1. Init => BuffersInv
    <2>1. <<>> \in Texts
      <3>1. <<>> \in [1..0 -> Bytes] /\ 0 \in 0..BufferSize
        BY EmptySeq, LenProperties, BuffersAssumption
      <3> QED BY <3>1 DEF Texts
    <2> QED BY <2>1, EmptySeq, BuffersAssumption DEF Init, BuffersInv, TypeOK,
           WholeWithoutNul, InHand, EchoBeginsWithRequest, EchoIsRequestCut,
           Nothing
  <1>2. BuffersInv /\ [Next]_vars => BuffersInv'
    <2> SUFFICES ASSUME BuffersInv, [Next]_vars PROVE BuffersInv'
      OBVIOUS
    <2>1. CASE UNCHANGED vars
      BY <2>1 DEF vars, kernel, serving, reads, BuffersInv, TypeOK, WholeWithoutNul,
          InHand, EchoBeginsWithRequest, EchoIsRequestCut
    <2>2. CASE Next
      BY <2>2, ReadStep, ReadFromStep, WriteBackStep, OtherSteps DEF Next, Objects
    <2> QED BY <2>1, <2>2
  <1> QED BY <1>1, <1>2, PTL DEF Spec

(* Read loses and adds nothing, on Windows on streams and datagrams        *)
(* without zero bytes that never fill the buffer: its strings are together *)
(* the bytes recv() delivered.                                             *)
THEOREM ReadsWholeWithoutNul == Spec => []WholeWithoutNul
  <1>1. BuffersInv => WholeWithoutNul
    BY DEF BuffersInv
  <1> QED BY <1>1, BuffersInvariant, PTL

(* A Windows echo goes to the sender and begins with its whole message,    *)
(* through messages that do not fit and refusals.                          *)
THEOREM EchoesAnswerTheirSender == Spec => []EchoBeginsWithRequest
  <1>1. BuffersInv => EchoBeginsWithRequest
    BY DEF BuffersInv
  <1> QED BY <1>1, BuffersInvariant, PTL

(* A Linux echo is the message, or the part of it that fills the buffer.   *)
THEOREM LinuxEchoesAreRequests == Spec => []EchoIsRequestCut
  <1>1. BuffersInv => EchoIsRequestCut
    BY DEF BuffersInv
  <1> QED BY <1>1, BuffersInvariant, PTL

(* The variables keep the values they are meant to range over.             *)
THEOREM BuffersTypeCorrect == Spec => []TypeOK
  <1>1. BuffersInv => TypeOK
    BY DEF BuffersInv
  <1> QED BY <1>1, BuffersInvariant, PTL
=============================================================================
