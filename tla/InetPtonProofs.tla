---------------------------- MODULE InetPtonProofs ----------------------------
(***************************************************************************)
(* inet_pton6 stays inside its sixteen bytes and accepts exactly the       *)
(* addresses, for every text: any digits, any dotted tail, any length.     *)
(* With the proofs about inet_pton4, inet_pton does what both promise.     *)
(***************************************************************************)
EXTENDS InetPton, SequenceTheorems, TLAPS

USE DEF NS_IN6ADDRSZ, NULL

(* Bytes are shifted only when there was a ::.                             *)
IInv == TypeOK /\ (phase = "shift" => colonp # NULL)

parser == <<phase, tmp, tp, colonp, saw_xdigit, val, i, dst>>

(* The first byte of a dotted tail, read from the current field.           *)
LEMMA OctetIsByte ==
    ASSUME NEW f, Quad!Octet(f)
    PROVE  Quad!Value(f) \in 0..255
<1> DEFINE p0 == Quad!Place(f, 0)
           p1 == Quad!Place(f, 1)
           p2 == Quad!Place(f, 2)
           v  == Quad!Value(f)
<1>1. Len(f) \in 1..3 /\ \A k \in 1..Len(f) : f[k] \in 0..9
  BY Zenon DEF Quad!Octet
<1>2. p0 \in 0..9 /\ p1 \in 0..9 /\ p2 \in 0..9
  BY <1>1 DEF Quad!Place
<1>3. v = 100 * p2 + 10 * p1 + p0 /\ v <= 255
  BY Zenon DEF Quad!Value, Quad!Octet
<1> HIDE DEF p0, p1, p2, v
<1>4. v \in 0..255
  BY <1>2, <1>3
<1>. QED
  BY <1>4 DEF v

(* A text grows within its bound.                                          *)
LEMMA TextStep ==
    ASSUME TypeOK, NEW t, NEW w \in Nat, Reads(t, w)
    PROVE  left' \in 0..MaxText /\ ahead' \in {"unknown", "more", "over"}
BY HexAssumption DEF Reads, TypeOK

LEMMA Return0Step ==
    ASSUME IInv, Return0, left' \in 0..MaxText, ahead' \in {"unknown", "more", "over"}
    PROVE  IInv'
BY DEF IInv, TypeOK, Return0, Phases

(* Storing a byte inside the buffer.                                       *)
LEMMA Stored ==
    ASSUME NEW b \in [0..15 -> 0..255], NEW k \in 0..15, NEW x \in 0..255
    PROVE  [b EXCEPT ![k] = x] \in [0..15 -> 0..255]
OBVIOUS

(* A group is stored only where two bytes are left.                        *)
LEMMA PushStep ==
    ASSUME TypeOK, ~NoPair, PushVal
    PROVE  /\ tmp' \in [0..(NS_IN6ADDRSZ - 1) -> 0..255]
           /\ tp' \in 0..NS_IN6ADDRSZ /\ tp' >= tp
<1>1. tp \in 0..14 /\ tp' = tp + 2
  BY DEF TypeOK, NoPair, PushVal
<1>2. val \div 256 \in 0..255 /\ val % 256 \in 0..255
  <2>1. val \in Nat /\ val <= 65535
    BY DEF TypeOK
  <2>. QED
    BY <2>1
<1>3. tmp' \in [0..15 -> 0..255]
  BY <1>1, <1>2 DEF TypeOK, PushVal
<1>. QED
  BY <1>1, <1>3 DEF TypeOK

LEMMA HexDigitStep ==
    ASSUME IInv, NEW h \in Hex, HexDigit(h)
    PROVE  IInv'
<1>1. left' \in 0..MaxText /\ ahead' \in {"unknown", "more", "over"}
  BY TextStep, HexAssumption DEF HexDigit, IInv, TypeOK
<1>2. CASE Return0
  BY <1>1, <1>2, Return0Step
<1>3. CASE /\ Accumulate(h) <= 65535 /\ phase' = "loop" /\ val' = Accumulate(h)
           /\ saw_xdigit' = 1 /\ UNCHANGED <<tmp, tp, colonp, i, dst>>
  <2>1. val' \in Nat /\ val' <= 65535
    BY <1>3, HexAssumption DEF IInv, TypeOK, Accumulate
  <2>. QED
    BY <1>1, <1>3, <2>1 DEF IInv, TypeOK, Phases, Loop
<1>. QED
  BY <1>2, <1>3 DEF HexDigit

LEMMA GapColonStep ==
    ASSUME IInv, GapColon
    PROVE  IInv'
<1>1. left' \in 0..MaxText /\ ahead' \in {"unknown", "more", "over"}
  BY TextStep DEF GapColon, IInv, TypeOK
<1>2. phase' \in {"second", "loop", "rejected"} /\ colonp' \in {colonp, tp}
  BY DEF GapColon
<1>3. tp \in 0..tp
  BY DEF IInv, TypeOK
<1>. QED
  BY <1>1, <1>2, <1>3 DEF GapColon, IInv, TypeOK, Phases, Loop

LEMMA GroupColonStep ==
    ASSUME IInv, GroupColon
    PROVE  IInv'
<1>1. left' \in 0..MaxText /\ ahead' \in {"unknown", "more", "over"}
  BY HexAssumption DEF GroupColon, IInv, TypeOK
<1>2. CASE Return0
  BY <1>1, <1>2, Return0Step
<1>3. CASE ~NoPair /\ PushVal /\ saw_xdigit' = 0 /\ val' = 0 /\ UNCHANGED <<phase, colonp, i, dst>>
  <2>1. phase # "shift"
    BY DEF GroupColon, Loop
  <2>2. colonp' \in {NULL} \cup 0..tp'
    BY <1>3, PushStep DEF IInv, TypeOK
  <2>. QED
    BY <1>1, <1>3, <2>1, <2>2, PushStep DEF IInv, TypeOK
<1>. QED
  BY <1>2, <1>3 DEF GroupColon

LEMMA DotStep ==
    ASSUME IInv, Dot
    PROVE  IInv'
<1>1. left' \in 0..MaxText /\ ahead' \in {"unknown", "more", "over"}
  BY DEF Dot, ReadsLast, IInv, TypeOK
<1>2. CASE Return0
  BY <1>1, <1>2, Return0Step
<1>3. ASSUME NEW rest \in Tails, QuadFollows(rest), tp + 4 <= NS_IN6ADDRSZ,
             tmp' = [tmp EXCEPT ![tp] = FirstOctet, ![tp + 1] = rest[1],
                                ![tp + 2] = rest[2], ![tp + 3] = rest[3]],
             tp' = tp + 4, saw_xdigit' = 0, phase' = "expand",
             UNCHANGED <<colonp, val, i, dst>>
      PROVE  IInv'
  <2>1. FirstOctet \in 0..255
    BY <1>3, OctetIsByte DEF QuadFollows, FirstOctet
  <2>2. rest[1] \in 0..255 /\ rest[2] \in 0..255 /\ rest[3] \in 0..255
    BY <1>3, HexAssumption
  <2>3. tp \in 0..12 /\ tp' \in 0..16 /\ tp' >= tp
    BY <1>3 DEF IInv, TypeOK
  <2>4. tmp' \in [0..15 -> 0..255]
    <3> DEFINE b1 == [tmp EXCEPT ![tp] = FirstOctet]
               b2 == [b1 EXCEPT ![tp + 1] = rest[1]]
               b3 == [b2 EXCEPT ![tp + 2] = rest[2]]
               b4 == [b3 EXCEPT ![tp + 3] = rest[3]]
    <3>0. tmp \in [0..15 -> 0..255]
      BY DEF IInv, TypeOK
    <3>i. tp \in 0..15 /\ tp + 1 \in 0..15 /\ tp + 2 \in 0..15 /\ tp + 3 \in 0..15
      BY <2>3
    <3>1. b1 \in [0..15 -> 0..255]
      BY <2>1, <3>0, <3>i, Stored, Zenon
    <3>2. b2 \in [0..15 -> 0..255]
      BY <2>2, <3>1, <3>i, Stored, Zenon
    <3>3. b3 \in [0..15 -> 0..255]
      BY <2>2, <3>2, <3>i, Stored, Zenon
    <3>4. b4 \in [0..15 -> 0..255]
      BY <2>2, <3>3, <3>i, Stored, Zenon
    <3>5. tmp' = b4
      BY <1>3, Zenon
    <3>. QED
      BY <3>4, <3>5, Zenon
  <2>5. colonp' \in {NULL} \cup 0..tp'
    BY <1>3, <2>3 DEF IInv, TypeOK
  <2>6. phase' \in Phases /\ phase' # "shift" /\ saw_xdigit' \in 0..1
    BY <1>3 DEF Phases
  <2>7. /\ val' \in Nat /\ val' <= 65535 /\ i' \in 1..(NS_IN6ADDRSZ + 1)
        /\ dst' \in [0..(NS_IN6ADDRSZ - 1) -> 0..255 \cup {Quad!Unset}]
    BY <1>3 DEF IInv, TypeOK
  <2>8. tmp' \in [0..(NS_IN6ADDRSZ - 1) -> 0..255] /\ tp' \in 0..NS_IN6ADDRSZ
    BY <2>3, <2>4
  <2>9. TypeOK'
    BY <1>1, <2>5, <2>6, <2>7, <2>8 DEF TypeOK
  <2>. QED
    BY <2>6, <2>9 DEF IInv
<1>. QED
  BY <1>2, <1>3 DEF Dot

LEMMA EndStep ==
    ASSUME IInv, End
    PROVE  IInv'
<1>1. left' \in 0..MaxText /\ ahead' \in {"unknown", "more", "over"}
  BY DEF End, Ends, ReadsLast, IInv, TypeOK
<1>2. CASE Return0
  BY <1>1, <1>2, Return0Step
<1>3. CASE /\ ~(saw_xdigit = 1 /\ NoPair)
           /\ \/ saw_xdigit = 1 /\ PushVal
              \/ saw_xdigit = 0 /\ UNCHANGED <<tmp, tp>>
           /\ phase' = "expand" /\ UNCHANGED <<colonp, saw_xdigit, val, i, dst>>
  <2>1. /\ tmp' \in [0..(NS_IN6ADDRSZ - 1) -> 0..255]
        /\ tp' \in 0..NS_IN6ADDRSZ /\ tp' >= tp
    BY <1>3, PushStep DEF IInv, TypeOK
  <2>2. colonp' \in {NULL} \cup 0..tp'
    BY <1>3, <2>1 DEF IInv, TypeOK
  <2>. QED
    BY <1>1, <1>3, <2>1, <2>2 DEF IInv, TypeOK, Phases
<1>. QED
  BY <1>2, <1>3 DEF End

(* The shift reads and writes between colonp and the end.                  *)
LEMMA ShiftStep ==
    ASSUME IInv, Shift
    PROVE  IInv'
<1> DEFINE n == tp - colonp
<1>1. tp \in 0..16 /\ colonp \in 0..tp /\ i \in 1..17 /\ tmp \in [0..15 -> 0..255]
  BY DEF Shift, IInv, TypeOK
<1>2. UNCHANGED <<text, colonp, saw_xdigit, val, dst>>
  BY DEF Shift
<1>3. CASE /\ i <= n
           /\ tmp' = [tmp EXCEPT ![NS_IN6ADDRSZ - i] = tmp[colonp + n - i], ![colonp + n - i] = 0]
           /\ i' = i + 1 /\ UNCHANGED <<tp, phase>>
  <2>1. NS_IN6ADDRSZ - i \in 0..15 /\ colonp + n - i \in 0..15 /\ i + 1 \in 1..17
    BY <1>1, <1>3
  <2>2. tmp' \in [0..15 -> 0..255]
    <3> DEFINE b1 == [tmp EXCEPT ![16 - i] = tmp[colonp + n - i]]
               b2 == [b1 EXCEPT ![colonp + n - i] = 0]
    <3>i. tmp[colonp + n - i] \in 0..255 /\ 0 \in 0..255 /\ 16 - i \in 0..15
      BY <1>1, <2>1
    <3>1. b1 \in [0..15 -> 0..255]
      BY <1>1, <3>i, Stored, Zenon
    <3>2. b2 \in [0..15 -> 0..255]
      BY <2>1, <3>i, <3>1, Stored, Zenon
    <3>3. tmp' = b2
      BY <1>3, Zenon
    <3>. QED
      BY <3>2, <3>3, Zenon
  <2>3. left' = left /\ ahead' = ahead /\ UNCHANGED <<phase, tp, colonp, saw_xdigit, val, dst>>
    BY <1>2, <1>3 DEF text
  <2>4. tmp' \in [0..(NS_IN6ADDRSZ - 1) -> 0..255] /\ i' \in 1..(NS_IN6ADDRSZ + 1)
    BY <1>3, <2>1, <2>2
  <2>5. colonp' # NULL
    BY <1>1, <2>3
  <2>6. /\ left' \in 0..MaxText /\ ahead' \in {"unknown", "more", "over"} /\ phase' \in Phases
        /\ tp' \in 0..NS_IN6ADDRSZ /\ colonp' \in {NULL} \cup 0..tp'
        /\ saw_xdigit' \in 0..1 /\ val' \in Nat /\ val' <= 65535
        /\ dst' \in [0..(NS_IN6ADDRSZ - 1) -> 0..255 \cup {Quad!Unset}]
    BY <2>3 DEF IInv, TypeOK
  <2>7. TypeOK'
    BY <2>4, <2>6 DEF TypeOK
  <2>. QED
    BY <2>5, <2>7 DEF IInv
<1>4. CASE i > n /\ tp' = NS_IN6ADDRSZ /\ phase' = "copy" /\ UNCHANGED <<tmp, i>>
  <2>1. tp' \in 0..16 /\ colonp \in 0..tp'
    BY <1>1, <1>4
  <2>. QED
    BY <1>2, <1>4, <2>1 DEF IInv, TypeOK, text, Phases
<1>. QED
  BY <1>3, <1>4 DEF Shift

LEMMA UnreadStep ==
    ASSUME IInv, Unread
    PROVE  IInv'
<1>1. UNCHANGED parser
  BY DEF Unread, parser
<1>2. left' \in 0..MaxText /\ ahead' \in {"unknown", "more", "over"}
  BY TextStep, HexAssumption DEF Unread, Ends, ReadsLast, IInv, TypeOK
<1>. QED
  BY <1>1, <1>2 DEF IInv, TypeOK, parser

-----------------------------------------------------------------------------
LEMMA Pton6Invariant == Spec => []IInv
<1>1. Init => IInv
  BY HexAssumption DEF Init, IInv, TypeOK, Phases, Loop
<1>2. IInv /\ [Next]_vars => IInv'
  <2> SUFFICES ASSUME IInv, [Next]_vars PROVE IInv'
    OBVIOUS
  <2>1. CASE OtherChar
    <3>1. left' \in 0..MaxText /\ ahead' \in {"unknown", "more", "over"}
      BY <2>1, TextStep DEF OtherChar, ReadsLast, IInv, TypeOK
    <3>. QED
      BY <2>1, <3>1, Return0Step DEF OtherChar
  <2>2. CASE Expand
    BY <2>2 DEF Expand, IInv, TypeOK, text, Phases
  <2>3. CASE Copy
    BY <2>3 DEF Copy, IInv, TypeOK, text, Phases
  <2>4. CASE UNCHANGED vars
    BY <2>4 DEF vars, text, IInv, TypeOK
  <2>. QED
    BY <2>1, <2>2, <2>3, <2>4, HexDigitStep, GapColonStep, GroupColonStep, DotStep, EndStep,
       ShiftStep, UnreadStep DEF Next
<1>. QED
  BY <1>1, <1>2, PTL DEF Spec

(* Whatever the text, tp and colonp stay inside the sixteen bytes, every   *)
(* byte stored is one, and the shift loop ends where the buffer does.      *)
THEOREM Pton6InBuffer == Spec => []TypeOK
<1>1. IInv => TypeOK
  BY DEF IInv
<1>. QED
  BY <1>1, Pton6Invariant, PTL

-----------------------------------------------------------------------------
(* What the parser's variables say of the text.  A text is laid out in     *)
(* groups with at most one gap: g is the field that stands for it, 0 if    *)
(* there is none, and n the number of fields that are complete.  Fields    *)
(* that are not words: the gap, and before a gap in front the first one.   *)
Layout(t, g, n) ==
    /\ g \in {0} \cup 2..n
    /\ g # 0 => t[g] = Quad!NoChars
    /\ \A k \in 1..n : IF t[k] = Quad!NoChars THEN k = g \/ (k = 1 /\ g = 2) ELSE Group(t[k])

Skipped(t, g) == IF g = 0 THEN 0 ELSE IF t[1] = Quad!NoChars THEN 2 ELSE 1

(* The field of the k-th word, and byte p of the words in their order.     *)
FieldOf(t, g, k) == IF g = 0 \/ k <= g - Skipped(t, g) THEN k ELSE k + Skipped(t, g)
ByteOf(t, g, p)  == Half(Word(t[FieldOf(t, g, p \div 2 + 1)]), p)

(* The bytes of all words and of those before the gap.                     *)
Filled(t, g, n) == 2 * (n - Skipped(t, g))
FrontOf(t, g)   == 2 * (g - Skipped(t, g))

(* The words stored in order, and with m of the bytes behind the gap moved *)
(* to the end.                                                             *)
InOrder(b, t, g, n) ==
    \A p \in 0..15 : b[p] = IF p < Filled(t, g, n) THEN ByteOf(t, g, p) ELSE 0

Shifted(b, t, g, n, m) ==
    LET e == Filled(t, g, n) IN
    \A p \in 0..15 : b[p] = IF p < e - m THEN ByteOf(t, g, p)
                           ELSE IF p >= 16 - m THEN ByteOf(t, g, p - 16 + e) ELSE 0

Placed(t, g, n) ==
    /\ Layout(t, g, n) /\ InOrder(tmp, t, g, n)
    /\ tp = Filled(t, g, n)
    /\ colonp = IF g = 0 THEN NULL ELSE FrontOf(t, g)
    /\ i = 1

Moved(t, g, n, m) ==
    /\ Layout(t, g, n) /\ g # 0 /\ Shifted(tmp, t, g, n, m)
    /\ Filled(t, g, n) < 16 /\ m \in 0..(Filled(t, g, n) - FrontOf(t, g))

(* In the loop all fields but the last are complete.                       *)
Looping ==
    LET n == Len(fields) - 1
        f == fields[n + 1] IN
    /\ \E g \in 0..n : /\ Placed(fields, g, n)
                       /\ saw_xdigit = 0 /\ ahead # "more" => g = n
    /\ ahead # "over"
    /\ IF saw_xdigit = 0 THEN f = Quad!NoChars ELSE Group(f)
    /\ val = Word(f)
    /\ phase = "first" => n = 0 /\ saw_xdigit = 0
    /\ phase = "loop" /\ saw_xdigit = 0 => n > 0

(* After it the last one is, or it is what follows a gap at the end.       *)
Complete(t, g, n) ==
    /\ Layout(t, g, n)
    /\ \/ n = Len(t) /\ t[n] # Quad!NoChars
       \/ n = Len(t) - 1 /\ g = n /\ t[n + 1] = Quad!NoChars

(* A field with which nothing becomes an address.                          *)
Hopeless(f) ==
    \E k \in 1..Len(f) : f[k] \notin 0..15 \/ (k <= Len(f) - 4 /\ f[k] # 0)

(* Texts that no continuation makes an address: too many fields, a field   *)
(* that is none, two gaps, a colon in front that is not doubled.           *)
Dead(t) ==
    \/ Len(t) > 9
    \/ \E k \in 1..Len(t) : Hopeless(t[k])
    \/ \E g, h \in 2..(Len(t) - 1) : g < h /\ t[g] = Quad!NoChars /\ t[h] = Quad!NoChars
    \/ Len(t) > 1 /\ t[1] = Quad!NoChars /\ t[2] # Quad!NoChars

Symbols == 0..15 \cup {Quad!Other}

Follows ==
    /\ fields \in Seq(Seq(Symbols)) /\ Len(fields) > 0
    /\ phase \in {"first", "loop"} => Looping
    /\ phase = "second" =>
           /\ fields = <<Quad!NoChars, Quad!NoChars>> /\ ahead # "over"
           /\ tp = 0 /\ colonp = NULL /\ saw_xdigit = 0 /\ val = 0 /\ i = 1
           /\ \A p \in 0..15 : tmp[p] = 0
    /\ phase = "expand" =>
           ahead = "over" /\ \E n \in 0..Len(fields), g \in 0..Len(fields) :
               Complete(fields, g, n) /\ Placed(fields, g, n)
    /\ phase = "shift" =>
           ahead = "over" /\ \E n \in 0..Len(fields), g \in 0..Len(fields) :
               /\ Complete(fields, g, n) /\ Moved(fields, g, n, i - 1)
               /\ tp = Filled(fields, g, n) /\ colonp = FrontOf(fields, g)
    /\ phase = "copy" =>
           ahead = "over" /\ \E n \in 0..Len(fields), g \in 0..Len(fields) :
               /\ Complete(fields, g, n)
               /\ IF g = 0 THEN Placed(fields, g, n)
                  ELSE tp = 16 /\ Moved(fields, g, n, Filled(fields, g, n) - FrontOf(fields, g))
    /\ phase = "accepted" => Address(fields) /\ dst = Bytes(fields)
    /\ phase # "accepted" => \A k \in DOMAIN dst : dst[k] = Quad!Unset
    /\ phase = "rejected" => Dead(fields) \/ (ahead = "over" /\ ~Address(fields))
-----------------------------------------------------------------------------
(* Fields.                                                                 *)

LEMMA EmptyField ==
    /\ Quad!NoChars \in Seq(Symbols) /\ Len(Quad!NoChars) = 0 /\ Word(Quad!NoChars) = 0
    /\ \A f \in Seq(Symbols) : f # Quad!NoChars => Len(f) \in Nat \ {0}
<1>1. Quad!NoChars \in Seq(Symbols) /\ Len(Quad!NoChars) = 0
  BY DEF Quad!NoChars
<1>2. Word(Quad!NoChars) = 0
  BY <1>1 DEF Word, Quad!Place
<1>3. \A f \in Seq(Symbols) : f # Quad!NoChars => Len(f) \in Nat \ {0}
  BY EmptySeq DEF Quad!NoChars
<1>. QED
  BY <1>1, <1>2, <1>3

LEMMA GroupIsField ==
    ASSUME NEW f, Group(f)
    PROVE  f # Quad!NoChars /\ ~Hopeless(f)
<1>1. f # Quad!NoChars
  BY EmptyField DEF Group
<1>2. ~Hopeless(f)
  BY DEF Group, Hopeless
<1>. QED
  BY <1>1, <1>2

(* A group grows by a digit, unless its number would pass sixteen bits:    *)
(* then it has a digit too many for good.                                  *)
LEMMA GroupGrows ==
    ASSUME NEW f \in Seq(Symbols), f = Quad!NoChars \/ Group(f), NEW h \in 0..15
    PROVE  /\ Word(f) \in Nat /\ Word(f) <= 65535
           /\ Word(f) * 16 + h <= 65535 =>
                  Group(Append(f, h)) /\ Word(Append(f, h)) = Word(f) * 16 + h
           /\ Word(f) * 16 + h > 65535 => Hopeless(Append(f, h))
<1> DEFINE e == Append(f, h)
           p0 == Quad!Place(f, 0)
           p1 == Quad!Place(f, 1)
           p2 == Quad!Place(f, 2)
           p3 == Quad!Place(f, 3)
           v  == Word(f)
           w  == Word(e)
<1>1. /\ Len(f) \in Nat /\ Len(e) = Len(f) + 1
      /\ \A k \in 1..Len(f) : e[k] = f[k]
      /\ e[Len(f) + 1] = h
  BY AppendProperties, LenProperties DEF Symbols
<1>2. \A k \in 1..Len(f) : f[k] \in 0..15 /\ (k <= Len(f) - 4 => f[k] = 0)
  BY EmptyField DEF Group
<1>3. p0 \in 0..15 /\ p1 \in 0..15 /\ p2 \in 0..15 /\ p3 \in 0..15
  BY <1>1, <1>2 DEF Quad!Place
<1>4. /\ Quad!Place(e, 0) = h /\ Quad!Place(e, 1) = p0
      /\ Quad!Place(e, 2) = p1 /\ Quad!Place(e, 3) = p2
  BY <1>1 DEF Quad!Place
<1>5. v = 4096 * p3 + 256 * p2 + 16 * p1 + p0 /\ w = 4096 * p2 + 256 * p1 + 16 * p0 + h
  BY <1>3, <1>4 DEF Word
<1>6. p3 = IF 3 < Len(f) THEN f[Len(f) - 3] ELSE 0
  BY DEF Quad!Place
<1>7. ASSUME p3 = 0 PROVE Group(e)
  <2> SUFFICES ASSUME NEW k \in 1..Len(e) PROVE e[k] \in 0..15 /\ (k <= Len(e) - 4 => e[k] = 0)
    BY <1>1 DEF Group
  <2>1. CASE k = Len(f) + 1
    BY <1>1, <2>1
  <2>2. CASE k \in 1..Len(f)
    BY <1>1, <1>2, <1>6, <1>7, <2>2
  <2>. QED
    BY <1>1, <2>1, <2>2
<1>8. ASSUME p3 # 0 PROVE Hopeless(e)
  <2>1. /\ Len(f) - 3 \in 1..Len(e) /\ Len(f) - 3 \in 1..Len(f)
        /\ Len(f) - 3 <= Len(e) - 4 /\ f[Len(f) - 3] # 0
    BY <1>1, <1>6, <1>8
  <2>. QED
    BY <1>1, <2>1 DEF Hopeless
<1> HIDE DEF e, p0, p1, p2, p3, v, w
<1>9. v \in Nat /\ v <= 65535 /\ (v * 16 + h <= 65535 <=> p3 = 0) /\ (p3 = 0 => w = v * 16 + h)
  BY <1>3, <1>5
<1>10. /\ v \in Nat /\ v <= 65535
       /\ v * 16 + h <= 65535 => Group(e) /\ w = v * 16 + h
       /\ v * 16 + h > 65535 => Hopeless(e)
  BY <1>7, <1>8, <1>9
<1>. QED
  BY <1>10 DEF e, v, w

LEMMA WordIsSixteenBits ==
    ASSUME NEW f \in Seq(Symbols), f = Quad!NoChars \/ Group(f)
    PROVE  Word(f) \in Nat /\ Word(f) <= 65535
<1>1. 0 \in 0..15
  OBVIOUS
<1>. QED
  BY <1>1, GroupGrows

(* Two bytes of a dotted tail written as a group.                          *)
LEMMA QuadGroup ==
    ASSUME NEW a \in 0..255, NEW b \in 0..255
    PROVE  /\ Nibbles(a, b) \in Seq(Symbols) /\ Group(Nibbles(a, b))
           /\ Word(Nibbles(a, b)) = 256 * a + b
<1> DEFINE f == Nibbles(a, b)
<1>1. /\ a \div 16 \in 0..15 /\ a % 16 \in 0..15 /\ a = 16 * (a \div 16) + (a % 16)
      /\ b \div 16 \in 0..15 /\ b % 16 \in 0..15 /\ b = 16 * (b \div 16) + (b % 16)
  OBVIOUS
<1>2. /\ f \in Seq(0..15) /\ Len(f) = 4 /\ f[1] = a \div 16 /\ f[2] = a % 16
      /\ f[3] = b \div 16 /\ f[4] = b % 16
  BY <1>1 DEF Nibbles
<1>3. f \in Seq(Symbols)
  BY <1>2, SeqMonotonic DEF Symbols
<1>4. Group(f)
  <2>1. \A k \in 1..4 : f[k] \in 0..15
    BY <1>2, ElementOfSeq
  <2>. QED
    BY <1>2, <2>1 DEF Group
<1>5. /\ Quad!Place(f, 0) = b % 16 /\ Quad!Place(f, 1) = b \div 16
      /\ Quad!Place(f, 2) = a % 16 /\ Quad!Place(f, 3) = a \div 16
  BY <1>2 DEF Quad!Place
<1>6. Word(f) = 4096 * (a \div 16) + 256 * (a % 16) + 16 * (b \div 16) + (b % 16)
  BY <1>1, <1>5 DEF Word
<1> DEFINE w == Word(f)
<1> HIDE DEF w
<1>7. w = 256 * a + b
  <2>1. w = 4096 * (a \div 16) + 256 * (a % 16) + 16 * (b \div 16) + (b % 16)
    BY <1>6 DEF w
  <2>. QED
    BY <1>1, <2>1
<1>. QED
  BY <1>3, <1>4, <1>7 DEF w

(* What decides about a field in a text that goes on.                      *)
LEMMA HopelessFields ==
    ASSUME NEW f \in Seq(Symbols), NEW c \in Symbols
    PROVE  /\ Append(f, c) \in Seq(Symbols) /\ Append(f, c) # Quad!NoChars
           /\ Hopeless(f) => Hopeless(Append(f, c)) /\ ~Quad!Octet(f)
           /\ c = Quad!Other => Hopeless(Append(f, c))
<1> DEFINE e == Append(f, c)
<1>1. /\ Len(f) \in Nat /\ e \in Seq(Symbols) /\ Len(e) = Len(f) + 1
      /\ \A k \in 1..Len(f) : e[k] = f[k]
      /\ e[Len(f) + 1] = c /\ e # <<>>
  BY AppendProperties, LenProperties
<1>2. ASSUME NEW k \in 1..Len(f), f[k] \notin 0..15 \/ (k <= Len(f) - 4 /\ f[k] # 0)
      PROVE  Hopeless(e)
  <2>1. k \in 1..Len(e) /\ (k <= Len(f) - 4 => k <= Len(e) - 4)
    BY <1>1
  <2>. QED
    BY <1>1, <1>2, <2>1 DEF Hopeless
<1>3. ASSUME Hopeless(f) PROVE ~Quad!Octet(f)
  <2> SUFFICES ASSUME Quad!Octet(f) PROVE FALSE
    OBVIOUS
  <2>1. Len(f) \in 1..3 /\ \A k \in 1..Len(f) : f[k] \in 0..9
    BY Zenon DEF Quad!Octet
  <2>2. PICK k \in 1..Len(f) : f[k] \notin 0..15 \/ (k <= Len(f) - 4 /\ f[k] # 0)
    BY <1>3 DEF Hopeless
  <2>. QED
    BY <2>1, <2>2
<1>4. c = Quad!Other => Hopeless(e)
  <2>1. Len(f) + 1 \in 1..Len(e)
    BY <1>1
  <2>. QED
    BY <1>1, <2>1 DEF Hopeless, Quad!Other
<1>. QED
  BY <1>1, <1>2, <1>3, <1>4 DEF Hopeless, Quad!NoChars
-----------------------------------------------------------------------------
(* Texts that are addresses.                                               *)

LEMMA TwoSides ==
    ASSUME NEW t \in Seq(Seq(Symbols)), NEW g \in 1..Len(t)
    PROVE  /\ Before(t, g) \in Seq(Seq(Symbols)) /\ Len(Before(t, g)) = g - 1
           /\ \A k \in 1..(g - 1) : Before(t, g)[k] = t[k]
           /\ After(t, g) \in Seq(Seq(Symbols)) /\ Len(After(t, g)) = Len(t) - g
           /\ \A k \in 1..(Len(t) - g) : After(t, g)[k] = t[g + k]
<1>1. Len(t) \in Nat /\ \A k \in 1..Len(t) : t[k] \in Seq(Symbols)
  BY ElementOfSeq, LenProperties
<1>2. \A k \in 1..(g - 1) : t[k] \in Seq(Symbols)
  BY <1>1
<1>3. \A k \in (g + 1)..Len(t) : t[k] \in Seq(Symbols)
  BY <1>1
<1>4. /\ SubSeq(t, 1, g - 1) \in Seq(Seq(Symbols)) /\ Len(SubSeq(t, 1, g - 1)) = g - 1
      /\ \A k \in 1..(g - 1) : SubSeq(t, 1, g - 1)[k] = t[k]
  BY <1>1, <1>2, SubSeqProperties
<1>5. /\ SubSeq(t, g + 1, Len(t)) \in Seq(Seq(Symbols))
      /\ Len(SubSeq(t, g + 1, Len(t))) = Len(t) - g
      /\ \A k \in 1..(Len(t) - g) : SubSeq(t, g + 1, Len(t))[k] = t[g + k]
  <2>1. g + 1 \in Int /\ Len(t) \in Int
    BY <1>1
  <2>2. /\ SubSeq(t, g + 1, Len(t)) \in Seq(Seq(Symbols))
        /\ Len(SubSeq(t, g + 1, Len(t))) = IF g + 1 <= Len(t) THEN Len(t) - (g + 1) + 1 ELSE 0
        /\ \A k \in 1..(Len(t) - (g + 1) + 1) : SubSeq(t, g + 1, Len(t))[k] = t[g + 1 + k - 1]
    BY <1>3, <2>1, SubSeqProperties
  <2>. QED
    BY <1>1, <2>2
<1>. QED
  BY <1>4, <1>5 DEF Before, After

LEMMA OneSide ==
    ASSUME NEW s \in Seq(Seq(Symbols))
    PROVE  /\ Bare(s) <=> Len(s) = 1 /\ s[1] = Quad!NoChars
           /\ Len(Words(s)) = IF Bare(s) THEN 0 ELSE Len(s)
           /\ ~Bare(s) => \A k \in 1..Len(s) : Words(s)[k] = Word(s[k])
           /\ Len(s) \in Nat
<1>1. Len(s) \in Nat
  BY LenProperties
<1>2. Bare(s) <=> Len(s) = 1 /\ s[1] = Quad!NoChars
  <2> DEFINE b == <<Quad!NoChars>>
  <2>1. b \in Seq(Seq(Symbols)) /\ Len(b) = 1 /\ b[1] = Quad!NoChars
    BY EmptyField
  <2>2. ASSUME Len(s) = 1, s[1] = Quad!NoChars PROVE s = b
    BY <2>1, <2>2, SeqEqual
  <2>. QED
    BY <2>1, <2>2 DEF Bare
<1>3. Bare(s) => Len(Words(s)) = 0
  BY DEF Words
<1>4. ~Bare(s) => /\ Len(Words(s)) = Len(s)
                  /\ \A k \in 1..Len(s) : Words(s)[k] = Word(s[k])
  BY <1>1 DEF Words
<1>. QED
  BY <1>1, <1>2, <1>3, <1>4

LEMMA SideFields ==
    ASSUME NEW s \in Seq(Seq(Symbols)), Side(s)
    PROVE  /\ Len(s) \in Nat \ {0}
           /\ \A k \in 1..Len(s) : Group(s[k]) \/ (Len(s) = 1 /\ s[k] = Quad!NoChars)
           /\ Len(Words(s)) \in Nat /\ Len(s) <= Len(Words(s)) + 1
           /\ Len(s) > 1 => Len(Words(s)) = Len(s)
<1>1. /\ Bare(s) <=> Len(s) = 1 /\ s[1] = Quad!NoChars
      /\ Len(Words(s)) = IF Bare(s) THEN 0 ELSE Len(s)
      /\ Len(s) \in Nat
  BY OneSide
<1>2. CASE Bare(s)
  <2>1. Len(s) = 1 /\ s[1] = Quad!NoChars /\ Len(Words(s)) = 0
    BY <1>1, <1>2
  <2>2. \A k \in 1..Len(s) : k = 1
    BY <2>1
  <2>3. \A k \in 1..Len(s) : Len(s) = 1 /\ s[k] = Quad!NoChars
    BY <2>1, <2>2
  <2>. QED
    BY <2>1, <2>3
<1>3. CASE ~Bare(s) /\ Len(s) > 0 /\ Groups(s)
  <2>1. \A k \in 1..Len(s) : Group(s[k])
    BY <1>3 DEF Groups
  <2>2. Len(Words(s)) = Len(s) /\ Len(s) \in Nat \ {0}
    BY <1>1, <1>3
  <2>. QED
    BY <2>1, <2>2
<1>. QED
  BY <1>2, <1>3 DEF Side

(* Where a gap can stand, and what stands beside it.                       *)
LEMMA GapInside ==
    ASSUME NEW t \in Seq(Seq(Symbols)), NEW g \in 1..Len(t), Gap(t, g)
    PROVE  /\ g \in 2..(Len(t) - 1) /\ t[g] = Quad!NoChars
           /\ \A k \in 1..(g - 1) : Group(t[k]) \/ (g = 2 /\ t[k] = Quad!NoChars)
           /\ \A k \in (g + 1)..Len(t) :
                  Group(t[k]) \/ (g = Len(t) - 1 /\ t[k] = Quad!NoChars)
           /\ Len(t) <= 9
<1> DEFINE b == Before(t, g)
           a == After(t, g)
<1>1. /\ b \in Seq(Seq(Symbols)) /\ Len(b) = g - 1 /\ \A k \in 1..(g - 1) : b[k] = t[k]
      /\ a \in Seq(Seq(Symbols)) /\ Len(a) = Len(t) - g
      /\ \A k \in 1..(Len(t) - g) : a[k] = t[g + k]
  BY TwoSides
<1>2. /\ t[g] = Quad!NoChars /\ Side(b) /\ Side(a)
      /\ Len(Words(b)) + Len(Words(a)) < 8
  BY DEF Gap
<1> HIDE DEF a, b
<1>3. Len(t) \in Nat
  BY LenProperties
<1>4. /\ Len(b) \in Nat \ {0}
      /\ \A k \in 1..Len(b) : Group(b[k]) \/ (Len(b) = 1 /\ b[k] = Quad!NoChars)
      /\ Len(Words(b)) \in Nat /\ Len(b) <= Len(Words(b)) + 1
      /\ Len(b) > 1 => Len(Words(b)) = Len(b)
  BY <1>1, <1>2, SideFields
<1>5. /\ Len(a) \in Nat \ {0}
      /\ \A k \in 1..Len(a) : Group(a[k]) \/ (Len(a) = 1 /\ a[k] = Quad!NoChars)
      /\ Len(Words(a)) \in Nat /\ Len(a) <= Len(Words(a)) + 1
      /\ Len(a) > 1 => Len(Words(a)) = Len(a)
  BY <1>1, <1>2, SideFields
<1>6. g \in 2..(Len(t) - 1)
  BY <1>1, <1>3, <1>4, <1>5
<1>7. ASSUME NEW k \in 1..(g - 1)
      PROVE  Group(t[k]) \/ (g = 2 /\ t[k] = Quad!NoChars)
  <2>1. b[k] = t[k] /\ (Len(b) = 1 => g = 2)
    BY <1>1
  <2>2. Group(b[k]) \/ (Len(b) = 1 /\ b[k] = Quad!NoChars)
    BY <1>1, <1>4
  <2>. QED
    BY <2>1, <2>2
<1>8. ASSUME NEW k \in (g + 1)..Len(t)
      PROVE  Group(t[k]) \/ (g = Len(t) - 1 /\ t[k] = Quad!NoChars)
  <2>1. k - g \in 1..(Len(t) - g) /\ g + (k - g) = k
    BY <1>3
  <2>2. a[k - g] = t[k]
    BY <1>1, <2>1
  <2>3. Group(a[k - g]) \/ (Len(a) = 1 /\ a[k - g] = Quad!NoChars)
    BY <1>1, <1>5, <2>1
  <2>. QED
    BY <1>1, <1>3, <2>2, <2>3
<1>9. Len(t) <= 9
  <2> DEFINE u == Len(Words(b))
             v == Len(Words(a))
  <2>1. /\ u \in Nat /\ v \in Nat /\ u + v < 8
        /\ g - 1 <= u + 1 /\ (g - 1 > 1 => u = g - 1)
        /\ Len(t) - g <= v + 1 /\ (Len(t) - g > 1 => v = Len(t) - g)
    BY <1>1, <1>2, <1>4, <1>5
  <2> HIDE DEF u, v
  <2>. QED
    BY <1>3, <2>1
<1>. QED
  BY <1>2, <1>6, <1>7, <1>8, <1>9

LEMMA DeadIsNoAddress ==
    ASSUME NEW t \in Seq(Seq(Symbols)), Dead(t)
    PROVE  ~Address(t)
<1>0. Len(t) \in Nat
  BY LenProperties
<1>1. ASSUME Whole(t) PROVE FALSE
  <2>1. Len(t) = 8 /\ \A k \in 1..8 : Group(t[k])
    BY <1>1 DEF Whole, Groups
  <2>2. \A k \in 1..8 : t[k] # Quad!NoChars /\ ~Hopeless(t[k])
    BY <2>1, GroupIsField
  <2>. QED
    BY <2>1, <2>2 DEF Dead
<1>2. ASSUME NEW x \in 1..Len(t), Gap(t, x) PROVE FALSE
  <2>1. /\ x \in 2..(Len(t) - 1) /\ t[x] = Quad!NoChars /\ Len(t) <= 9
        /\ \A k \in 1..(x - 1) : Group(t[k]) \/ (x = 2 /\ t[k] = Quad!NoChars)
        /\ \A k \in (x + 1)..Len(t) : Group(t[k]) \/ (x = Len(t) - 1 /\ t[k] = Quad!NoChars)
    BY <1>2, GapInside
  <2>2. \A k \in 1..Len(t) : t[k] = Quad!NoChars \/ Group(t[k])
    BY <1>0, <2>1
  <2>3. \A k \in 2..(Len(t) - 1) : t[k] = Quad!NoChars => k = x
    <3> SUFFICES ASSUME NEW k \in 2..(Len(t) - 1), k # x PROVE Group(t[k])
      BY GroupIsField
    <3>. QED
      BY <1>0, <2>1
  <2>4. ~\E k \in 1..Len(t) : Hopeless(t[k])
    <3>1. ~Hopeless(Quad!NoChars)
      BY EmptyField DEF Hopeless
    <3>. QED
      BY <2>2, <3>1, GroupIsField
  <2>5. t[1] = Quad!NoChars => x = 2
    <3>1. 1 \in 1..(x - 1)
      BY <1>0, <2>1
    <3>. QED
      BY <2>1, <3>1, GroupIsField
  <2>. QED
    BY <1>0, <2>1, <2>3, <2>4, <2>5 DEF Dead
<1>. QED
  BY <1>1, <1>2 DEF Address

-----------------------------------------------------------------------------
(* Texts that go on.                                                       *)

LEMMA Grown ==
    ASSUME NEW t \in Seq(Seq(Symbols)), Len(t) > 0, NEW c \in Symbols
    PROVE  LET e == Quad!Extended(t, c)
               d == Quad!Dotted(t) IN
           /\ e \in Seq(Seq(Symbols)) /\ Len(e) = Len(t)
           /\ e[Len(t)] = Append(t[Len(t)], c)
           /\ \A k \in 1..(Len(t) - 1) : e[k] = t[k]
           /\ d \in Seq(Seq(Symbols)) /\ Len(d) = Len(t) + 1
           /\ d[Len(t) + 1] = Quad!NoChars
           /\ \A k \in 1..Len(t) : d[k] = t[k]
<1>1. Len(t) \in 1..Len(t) /\ t[Len(t)] \in Seq(Symbols) /\ Len(t) \in Nat
  BY LenProperties, ElementOfSeq
<1>2. Append(t[Len(t)], c) \in Seq(Symbols)
  BY <1>1, AppendProperties
<1>3. LET e == Quad!Extended(t, c) IN
      /\ e \in Seq(Seq(Symbols)) /\ Len(e) = Len(t)
      /\ e[Len(t)] = Append(t[Len(t)], c)
      /\ \A k \in 1..(Len(t) - 1) : e[k] = t[k]
  BY <1>1, <1>2, ExceptSeq DEF Quad!Extended
<1>4. LET d == Quad!Dotted(t) IN
      /\ d \in Seq(Seq(Symbols)) /\ Len(d) = Len(t) + 1
      /\ d[Len(t) + 1] = Quad!NoChars
      /\ \A k \in 1..Len(t) : d[k] = t[k]
  BY EmptyField, AppendProperties DEF Quad!Dotted
<1>. QED
  BY <1>3, <1>4

(* A dotted tail adds two groups in the place of the last field.           *)
LEMMA QuadAdded ==
    ASSUME fields \in Seq(Seq(Symbols)), Len(fields) > 0,
           NEW rest \in Tails, QuadFollows(rest)
    PROVE  LET q == WithQuad(FirstOctet, rest)
               n == Len(fields) IN
           /\ q \in Seq(Seq(Symbols)) /\ Len(q) = n + 1
           /\ q[n] = Nibbles(FirstOctet, rest[1]) /\ q[n + 1] = Nibbles(rest[2], rest[3])
           /\ \A k \in 1..(n - 1) : q[k] = fields[k]
           /\ FirstOctet \in 0..255
           /\ \A k \in 1..3 : rest[k] \in 0..255
           /\ ~Hopeless(fields[n]) /\ fields[n] # Quad!NoChars
<1> DEFINE n == Len(fields)
           one == Nibbles(FirstOctet, rest[1])
           two == Nibbles(rest[2], rest[3])
           q1 == [fields EXCEPT ![n] = one]
<1>1. n \in 1..n /\ fields[n] \in Seq(Symbols) /\ n \in Nat
  BY LenProperties, ElementOfSeq
<1>2. FirstOctet \in 0..255 /\ \A k \in 1..3 : rest[k] \in 0..255
  BY OctetIsByte, HexAssumption DEF QuadFollows, FirstOctet
<1>3. one \in Seq(Symbols) /\ two \in Seq(Symbols)
  <2>1. rest[1] \in 0..255 /\ rest[2] \in 0..255 /\ rest[3] \in 0..255
    BY <1>2
  <2>. QED
    BY <1>2, <2>1, QuadGroup
<1>4. q1 \in Seq(Seq(Symbols)) /\ Len(q1) = n /\ q1[n] = one /\ \A k \in 1..(n - 1) : q1[k] = fields[k]
  BY <1>1, <1>3, ExceptSeq
<1>5. Quad!Octet(fields[n])
  BY DEF QuadFollows, Quad!LastField
<1>6. ~Hopeless(fields[n])
  <2>1. Quad!Other \in Symbols
    BY DEF Symbols
  <2>. QED
    BY <1>1, <1>5, <2>1, HopelessFields
<1>7. fields[n] # Quad!NoChars
  BY <1>5, EmptyField DEF Quad!Octet
<1>8. WithQuad(FirstOctet, rest) = Append(q1, two)
  BY DEF WithQuad
<1> HIDE DEF q1, one, two
<1>9. LET q == Append(q1, two) IN
      /\ q \in Seq(Seq(Symbols)) /\ Len(q) = n + 1 /\ q[n + 1] = two /\ q[n] = one
      /\ \A k \in 1..(n - 1) : q[k] = fields[k]
  BY <1>1, <1>3, <1>4, AppendProperties
<1>. QED
  BY <1>2, <1>6, <1>7, <1>8, <1>9 DEF one, two
LEMMA DeadFrame ==
    ASSUME NEW t \in Seq(Seq(Symbols)), NEW u \in Seq(Seq(Symbols)), Len(t) > 0,
           Len(u) >= Len(t), \A k \in 1..(Len(t) - 1) : u[k] = t[k],
           Hopeless(t[Len(t)]) => Hopeless(u[Len(t)]),
           t[Len(t)] # Quad!NoChars => u[Len(t)] # Quad!NoChars, Dead(t)
    PROVE  Dead(u)
<1> DEFINE n == Len(t)
           m == Len(u)
<1>1. n \in Nat \ {0} /\ m \in Nat /\ m >= n
  BY LenProperties
<1>2. /\ \A k \in 1..(n - 1) : u[k] = t[k]
      /\ Hopeless(t[n]) => Hopeless(u[n])
      /\ t[n] # Quad!NoChars => u[n] # Quad!NoChars
      /\ \/ n > 9
         \/ \E k \in 1..n : Hopeless(t[k])
         \/ \E g, h \in 2..(n - 1) : g < h /\ t[g] = Quad!NoChars /\ t[h] = Quad!NoChars
         \/ n > 1 /\ t[1] = Quad!NoChars /\ t[2] # Quad!NoChars
  BY DEF Dead
<1> SUFFICES \/ m > 9
             \/ \E k \in 1..m : Hopeless(u[k])
             \/ \E g, h \in 2..(m - 1) : g < h /\ u[g] = Quad!NoChars /\ u[h] = Quad!NoChars
             \/ m > 1 /\ u[1] = Quad!NoChars /\ u[2] # Quad!NoChars
  BY DEF Dead
<1> HIDE DEF n, m
<1>3. CASE n > 9
  BY <1>1, <1>3
<1>4. CASE \E k \in 1..n : Hopeless(t[k])
  <2>1. PICK k \in 1..n : Hopeless(t[k])
    BY <1>4
  <2>2. k \in 1..(n - 1) \/ k = n
    BY <1>1
  <2>3. k \in 1..m
    BY <1>1
  <2>4. Hopeless(u[k])
    BY <1>2, <2>1, <2>2, Zenon
  <2>. QED
    BY <2>3, <2>4
<1>5. CASE \E g, h \in 2..(n - 1) : g < h /\ t[g] = Quad!NoChars /\ t[h] = Quad!NoChars
  <2>1. PICK g \in 2..(n - 1), h \in 2..(n - 1) :
              g < h /\ t[g] = Quad!NoChars /\ t[h] = Quad!NoChars
    BY <1>5
  <2>2. g \in 2..(m - 1) /\ h \in 2..(m - 1) /\ u[g] = t[g] /\ u[h] = t[h]
    BY <1>1, <1>2
  <2>. QED
    BY <2>1, <2>2
<1>6. CASE n > 1 /\ t[1] = Quad!NoChars /\ t[2] # Quad!NoChars
  <2>1. m > 1 /\ u[1] = t[1] /\ (n # 2 => u[2] = t[2])
    BY <1>1, <1>2, <1>6
  <2>2. u[2] # Quad!NoChars
    BY <1>2, <1>6, <2>1
  <2>. QED
    BY <1>6, <2>1, <2>2
<1>. QED
  BY <1>2, <1>3, <1>4, <1>5, <1>6

(* A dead text stays dead, whatever follows.                               *)
LEMMA DeadStays ==
    ASSUME NEW t \in Seq(Seq(Symbols)), Len(t) > 0, Dead(t), NEW c \in Symbols
    PROVE  Dead(Quad!Extended(t, c)) /\ Dead(Quad!Dotted(t))
<1> DEFINE e == Quad!Extended(t, c)
           d == Quad!Dotted(t)
<1>1. /\ e \in Seq(Seq(Symbols)) /\ Len(e) = Len(t) /\ e[Len(t)] = Append(t[Len(t)], c)
      /\ \A k \in 1..(Len(t) - 1) : e[k] = t[k]
      /\ d \in Seq(Seq(Symbols)) /\ Len(d) = Len(t) + 1
      /\ \A k \in 1..Len(t) : d[k] = t[k]
  BY Grown
<1>2. Len(t) \in Nat /\ t[Len(t)] \in Seq(Symbols)
  BY LenProperties, ElementOfSeq
<1> HIDE DEF d, e
<1>3. Dead(e)
  <2>1. e[Len(t)] # Quad!NoChars /\ (Hopeless(t[Len(t)]) => Hopeless(e[Len(t)]))
    BY <1>1, <1>2, HopelessFields
  <2>2. Len(e) >= Len(t)
    BY <1>1, <1>2
  <2>. QED
    BY <1>1, <2>1, <2>2, DeadFrame
<1>4. Dead(d)
  <2>1. Len(t) \in 1..Len(t) /\ d[Len(t)] = t[Len(t)] /\ Len(d) >= Len(t)
    BY <1>1, <1>2
  <2>2. \A k \in 1..(Len(t) - 1) : d[k] = t[k]
    BY <1>1, <1>2
  <2>. QED
    BY <1>1, <2>1, <2>2, DeadFrame
<1>. QED
  BY <1>3, <1>4 DEF d, e

LEMMA DeadStaysWithQuad ==
    ASSUME fields \in Seq(Seq(Symbols)), Len(fields) > 0, Dead(fields),
           NEW rest \in Tails, QuadFollows(rest)
    PROVE  Dead(WithQuad(FirstOctet, rest))
<1> DEFINE q == WithQuad(FirstOctet, rest)
           n == Len(fields)
<1>1. /\ q \in Seq(Seq(Symbols)) /\ Len(q) = n + 1
      /\ q[n] = Nibbles(FirstOctet, rest[1])
      /\ \A k \in 1..(n - 1) : q[k] = fields[k]
      /\ FirstOctet \in 0..255 /\ rest[1] \in 0..255
      /\ ~Hopeless(fields[n])
  BY QuadAdded
<1>2. q[n] # Quad!NoChars
  BY <1>1, QuadGroup, GroupIsField
<1> HIDE DEF q
<1>3. Len(q) >= n
  BY <1>1, LenProperties
<1>. QED
  BY <1>1, <1>2, <1>3, DeadFrame DEF q

-----------------------------------------------------------------------------
(* Layouts.                                                                *)

LEMMA LayoutFacts ==
    ASSUME NEW t, NEW n \in Nat, NEW g, Layout(t, g, n)
    PROVE  /\ g \in Nat /\ (g # 0 => g \in 2..n /\ t[g] = Quad!NoChars)
           /\ Skipped(t, g) \in 0..2 /\ (Skipped(t, g) = 0 <=> g = 0)
           /\ Skipped(t, g) <= g /\ g <= n
           /\ Filled(t, g, n) \in Nat /\ Filled(t, g, n) = 2 * (n - Skipped(t, g))
           /\ g # 0 => FrontOf(t, g) \in 0..Filled(t, g, n)
           /\ FrontOf(t, g) = 2 * (g - Skipped(t, g))
           /\ \A k \in 1..(n - Skipped(t, g)) : /\ FieldOf(t, g, k) \in 1..n
                                                /\ Group(t[FieldOf(t, g, k)])
<1>1. g \in Nat /\ g <= n /\ (g # 0 => g \in 2..n /\ t[g] = Quad!NoChars)
  BY DEF Layout
<1>2. /\ Skipped(t, g) \in 0..2 /\ (Skipped(t, g) = 0 <=> g = 0) /\ Skipped(t, g) <= g
  BY <1>1 DEF Skipped
<1> DEFINE s == Skipped(t, g)
<1>3. ASSUME NEW k \in 1..(n - s) PROVE FieldOf(t, g, k) \in 1..n /\ Group(t[FieldOf(t, g, k)])
  <2>1. FieldOf(t, g, k) = IF g = 0 \/ k <= g - s THEN k ELSE k + s
    BY DEF FieldOf
  <2>2. FieldOf(t, g, k) \in 1..n /\ FieldOf(t, g, k) # g
    BY <1>1, <1>2, <2>1
  <2>3. FieldOf(t, g, k) = 1 /\ g = 2 => t[1] # Quad!NoChars
    BY <1>1, <1>2, <2>1 DEF Skipped
  <2>. QED
    BY <2>2, <2>3 DEF Layout
<1>4. /\ Filled(t, g, n) \in Nat /\ Filled(t, g, n) = 2 * (n - s)
      /\ g # 0 => FrontOf(t, g) \in 0..Filled(t, g, n)
      /\ FrontOf(t, g) = 2 * (g - s)
  BY <1>1, <1>2 DEF Filled, FrontOf
<1>. QED
  BY <1>1, <1>2, <1>3, <1>4
(* A layout concerns the complete fields only.                             *)
LEMMA LayoutFrame ==
    ASSUME NEW t, NEW u, NEW n \in Nat, NEW g, Layout(t, g, n),
           \A k \in 1..n : u[k] = t[k]
    PROVE  /\ Layout(u, g, n)
           /\ Filled(u, g, n) = Filled(t, g, n) /\ FrontOf(u, g) = FrontOf(t, g)
           /\ \A b : InOrder(b, t, g, n) => InOrder(b, u, g, n)
<1>1. /\ g \in Nat /\ (g # 0 => g \in 2..n) /\ Filled(t, g, n) \in Nat
      /\ Filled(t, g, n) = 2 * (n - Skipped(t, g)) /\ Skipped(t, g) \in 0..2
      /\ \A k \in 1..(n - Skipped(t, g)) : FieldOf(t, g, k) \in 1..n
  BY LayoutFacts
<1>2. Layout(u, g, n)
  <2>1. g # 0 => u[g] = t[g]
    BY <1>1
  <2>. QED
    BY <2>1 DEF Layout
<1>3. Skipped(u, g) = Skipped(t, g)
  <2>1. g # 0 => u[1] = t[1]
    BY <1>1
  <2>. QED
    BY <2>1 DEF Skipped
<1>4. Filled(u, g, n) = Filled(t, g, n) /\ FrontOf(u, g) = FrontOf(t, g)
  BY <1>3 DEF Filled, FrontOf
<1>5. ASSUME NEW p \in 0..15, p < Filled(t, g, n) PROVE ByteOf(u, g, p) = ByteOf(t, g, p)
  <2> DEFINE k == p \div 2 + 1
  <2>1. k \in 1..(n - Skipped(t, g))
    BY <1>1, <1>5
  <2>2. FieldOf(t, g, k) \in 1..n
    BY <1>1, <2>1
  <2>3. FieldOf(u, g, k) = FieldOf(t, g, k)
    BY <1>3, Zenon DEF FieldOf
  <2>. QED
    BY <2>2, <2>3 DEF ByteOf
<1>6. ASSUME NEW b, InOrder(b, t, g, n) PROVE InOrder(b, u, g, n)
  BY <1>4, <1>5, <1>6 DEF InOrder
<1>. QED
  BY <1>2, <1>4, <1>6

LEMMA LayoutGrows ==
    ASSUME NEW t, NEW n \in Nat, NEW g, Layout(t, g, n), Group(t[n + 1])
    PROVE  Layout(t, g, n + 1) /\ Filled(t, g, n + 1) = Filled(t, g, n) + 2
<1> DEFINE e == Filled(t, g, n)
           s == Skipped(t, g)
<1>1. /\ g \in Nat /\ g <= n /\ (g # 0 => g \in 2..n /\ t[g] = Quad!NoChars)
      /\ s \in 0..2 /\ e = 2 * (n - s)
  BY LayoutFacts
<1>2. t[n + 1] # Quad!NoChars
  BY GroupIsField
<1>3. Layout(t, g, n + 1)
  <2>1. g \in {0} \cup 2..(n + 1)
    BY <1>1
  <2>2. ASSUME NEW k \in 1..(n + 1)
        PROVE  IF t[k] = Quad!NoChars THEN k = g \/ (k = 1 /\ g = 2) ELSE Group(t[k])
    <3>1. k \in 1..n \/ k = n + 1
      OBVIOUS
    <3>. QED
      BY <1>2, <3>1 DEF Layout
  <2>. QED
    BY <1>1, <2>1, <2>2 DEF Layout
<1>4. Filled(t, g, n + 1) = e + 2
  <2>1. Filled(t, g, n + 1) = 2 * ((n + 1) - s)
    BY DEF Filled
  <2> HIDE DEF e, s
  <2>. QED
    BY <1>1, <2>1
<1>. QED
  BY <1>3, <1>4

(* One more group, stored behind the others.                               *)
LEMMA Pushed ==
    ASSUME NEW t, NEW n \in Nat, NEW g, Layout(t, g, n), Group(t[n + 1]),
           NEW b \in [0..15 -> 0..255], InOrder(b, t, g, n), Filled(t, g, n) + 2 <= 16
    PROVE  LET e == Filled(t, g, n)
               w == Word(t[n + 1])
               c == [b EXCEPT ![e] = w \div 256, ![e + 1] = w % 256] IN
           InOrder(c, t, g, n + 1)
<1> DEFINE e == Filled(t, g, n)
           w == Word(t[n + 1])
           c == [b EXCEPT ![e] = w \div 256, ![e + 1] = w % 256]
           s == Skipped(t, g)
<1>1. /\ g \in Nat /\ g <= n /\ s \in 0..2 /\ (s = 0 <=> g = 0) /\ s <= g
      /\ e \in Nat /\ e = 2 * (n - s)
  BY LayoutFacts
<1>4. Filled(t, g, n + 1) = e + 2
  BY LayoutGrows
<1>5. FieldOf(t, g, n + 1 - s) = n + 1
  BY <1>1 DEF FieldOf
<1>6. ASSUME NEW p \in 0..15
      PROVE  c[p] = IF p < e + 2 THEN ByteOf(t, g, p) ELSE 0
  <2>1. e \in 0..14 /\ e + 1 \in 0..15
    BY <1>1
  <2>2. c[p] = IF p = e + 1 THEN w % 256 ELSE IF p = e THEN w \div 256 ELSE b[p]
    BY <2>1
  <2>3. b[p] = IF p < e THEN ByteOf(t, g, p) ELSE 0
    BY DEF InOrder
  <2>4. ASSUME p = e \/ p = e + 1
        PROVE  ByteOf(t, g, p) = IF p = e THEN w \div 256 ELSE w % 256
    <3>1. p \div 2 + 1 = n + 1 - s /\ (p % 2 = 0 <=> p = e)
      <4> HIDE DEF e, s
      <4>. QED
        BY <1>1, <2>4
    <3>2. ByteOf(t, g, p) = Half(w, p)
      BY <1>5, <3>1 DEF ByteOf
    <3>. QED
      BY <3>1, <3>2 DEF Half
  <2> HIDE DEF c, e, w, s
  <2>. QED
    BY <2>1, <2>2, <2>3, <2>4
<1>. QED
  BY <1>4, <1>6 DEF InOrder

(* A gap behind groups that are all words.                                 *)
LEMMA GapOpens ==
    ASSUME NEW t, NEW n \in Nat \ {0}, Layout(t, 0, n), t[n + 1] = Quad!NoChars
    PROVE  /\ Layout(t, n + 1, n + 1)
           /\ Filled(t, n + 1, n + 1) = Filled(t, 0, n)
           /\ FrontOf(t, n + 1) = Filled(t, 0, n)
           /\ \A b : InOrder(b, t, 0, n) => InOrder(b, t, n + 1, n + 1)
<1>1. \A k \in 1..n : Group(t[k]) /\ t[k] # Quad!NoChars
  <2> SUFFICES ASSUME NEW k \in 1..n PROVE Group(t[k]) /\ t[k] # Quad!NoChars
    OBVIOUS
  <2>1. t[k] # Quad!NoChars
    BY DEF Layout
  <2>. QED
    BY <2>1 DEF Layout
<1>2. Layout(t, n + 1, n + 1)
  <2>1. ASSUME NEW k \in 1..(n + 1)
        PROVE  IF t[k] = Quad!NoChars THEN k = n + 1 \/ (k = 1 /\ n + 1 = 2) ELSE Group(t[k])
    <3>1. k \in 1..n \/ k = n + 1
      OBVIOUS
    <3>. QED
      BY <1>1, <3>1
  <2>2. n + 1 \in 2..(n + 1)
    OBVIOUS
  <2>. QED
    BY <2>1, <2>2 DEF Layout
<1>3. Skipped(t, n + 1) = 1 /\ Skipped(t, 0) = 0
  BY <1>1 DEF Skipped
<1>4. /\ Filled(t, n + 1, n + 1) = 2 * n /\ Filled(t, 0, n) = 2 * n
      /\ FrontOf(t, n + 1) = 2 * n
  BY <1>3 DEF Filled, FrontOf
<1>5. ASSUME NEW p \in 0..15, p < 2 * n PROVE ByteOf(t, n + 1, p) = ByteOf(t, 0, p)
  <2>1. p \div 2 + 1 <= n + 1 - 1
    BY <1>5
  <2>2. FieldOf(t, n + 1, p \div 2 + 1) = p \div 2 + 1 /\ FieldOf(t, 0, p \div 2 + 1) = p \div 2 + 1
    BY <1>3, <2>1 DEF FieldOf
  <2>. QED
    BY <2>2 DEF ByteOf
<1>6. ASSUME NEW b, InOrder(b, t, 0, n) PROVE InOrder(b, t, n + 1, n + 1)
  BY <1>4, <1>5, <1>6 DEF InOrder
<1>. QED
  BY <1>2, <1>4, <1>6
-----------------------------------------------------------------------------
(* Whether a complete text is an address, and its bytes.                   *)

LEMMA SideBeforeGap ==
    ASSUME NEW t \in Seq(Seq(Symbols)), NEW n \in 0..Len(t), NEW g, g # 0, Layout(t, g, n)
    PROVE  /\ Side(Before(t, g))
           /\ Len(Words(Before(t, g))) = g - Skipped(t, g)
           /\ \A k \in 1..(g - Skipped(t, g)) : Words(Before(t, g))[k] = Word(t[k])
<1> DEFINE b == Before(t, g)
<1>1. n \in Nat /\ Len(t) \in Nat /\ n <= Len(t)
  BY LenProperties
<1>2. g \in 2..n /\ g \in 1..Len(t)
  BY <1>1 DEF Layout
<1>3. /\ b \in Seq(Seq(Symbols)) /\ Len(b) = g - 1 /\ \A k \in 1..(g - 1) : b[k] = t[k]
  BY <1>2, TwoSides
<1> HIDE DEF b
<1>4. /\ Bare(b) <=> Len(b) = 1 /\ b[1] = Quad!NoChars
      /\ Len(Words(b)) = IF Bare(b) THEN 0 ELSE Len(b)
      /\ ~Bare(b) => \A k \in 1..Len(b) : Words(b)[k] = Word(b[k])
  BY <1>3, OneSide
<1>5. 1 \in 1..n /\ 1 \in 1..(g - 1)
  BY <1>1, <1>2
<1>6. CASE t[1] = Quad!NoChars
  <2>1. g = 2 /\ Skipped(t, g) = 2
    BY <1>2, <1>5, <1>6 DEF Layout, Skipped
  <2>2. Bare(b)
    BY <1>3, <1>4, <1>5, <1>6, <2>1
  <2>. QED
    BY <1>4, <2>1, <2>2 DEF b, Side
<1>7. CASE t[1] # Quad!NoChars
  <2>1. Skipped(t, g) = 1
    BY <1>2, <1>7 DEF Skipped
  <2>2. ~Bare(b)
    BY <1>3, <1>4, <1>5, <1>7
  <2>3. Len(b) > 0 /\ Len(Words(b)) = g - 1
    BY <1>2, <1>3, <1>4, <2>2
  <2>4. ASSUME NEW k \in 1..(g - 1) PROVE Group(b[k]) /\ Words(b)[k] = Word(t[k])
    <3>1. k \in 1..n /\ k # g /\ b[k] = t[k] /\ Words(b)[k] = Word(b[k])
      BY <1>1, <1>2, <1>3, <1>4, <2>2
    <3>2. t[k] # Quad!NoChars
      BY <1>7, <3>1 DEF Layout
    <3>. QED
      BY <3>1, <3>2 DEF Layout
  <2>5. Groups(b)
    BY <1>3, <2>4 DEF Groups
  <2>. QED
    BY <2>1, <2>3, <2>4, <2>5 DEF b, Side
<1>. QED
  BY <1>6, <1>7

LEMMA SideBehindGap ==
    ASSUME NEW t \in Seq(Seq(Symbols)), NEW n \in 0..Len(t), NEW g, g # 0, Complete(t, g, n)
    PROVE  /\ Side(After(t, g))
           /\ Len(Words(After(t, g))) = n - g
           /\ \A k \in 1..(n - g) : Words(After(t, g))[k] = Word(t[g + k])
<1> DEFINE a == After(t, g)
<1>1. n \in Nat /\ Len(t) \in Nat /\ n <= Len(t)
  BY LenProperties
<1>2. g \in 2..n /\ g \in 1..Len(t) /\ t[g] = Quad!NoChars
  BY <1>1 DEF Complete, Layout
<1>3. /\ a \in Seq(Seq(Symbols)) /\ Len(a) = Len(t) - g
      /\ \A k \in 1..(Len(t) - g) : a[k] = t[g + k]
  BY <1>2, TwoSides
<1> HIDE DEF a
<1>4. /\ Bare(a) <=> Len(a) = 1 /\ a[1] = Quad!NoChars
      /\ Len(Words(a)) = IF Bare(a) THEN 0 ELSE Len(a)
      /\ ~Bare(a) => \A k \in 1..Len(a) : Words(a)[k] = Word(a[k])
  BY <1>3, OneSide
<1>5. CASE n = Len(t) - 1 /\ g = n /\ t[n + 1] = Quad!NoChars
  <2>1. Len(a) = 1 /\ a[1] = Quad!NoChars
    BY <1>1, <1>3, <1>5
  <2>. QED
    BY <1>4, <1>5, <2>1 DEF a, Side
<1>6. CASE n = Len(t) /\ t[n] # Quad!NoChars
  <2>1. Len(a) > 0 /\ Len(a) = n - g
    BY <1>2, <1>3, <1>6
  <2>2. ASSUME NEW k \in 1..(n - g) PROVE Group(a[k]) /\ a[k] = t[g + k]
    <3>1. g \in Nat /\ n \in Nat /\ 2 <= g /\ g <= n /\ k \in Nat /\ 1 <= k /\ k <= n - g
      BY <1>1, <1>2
    <3>2. g + k \in 1..n /\ g + k # g /\ g + k # 1
      BY <3>1
    <3>3. k \in 1..(Len(t) - g)
      BY <1>6
    <3>4. a[k] = t[g + k]
      BY <1>3, <3>3
    <3>. QED
      BY <3>2, <3>4 DEF Complete, Layout
  <2>3. Groups(a)
    BY <2>1, <2>2 DEF Groups
  <2>4. ~Bare(a)
    <3>1. 1 \in 1..(n - g)
      BY <1>1, <1>2, <2>1
    <3>. QED
      BY <1>4, <2>2, <3>1, GroupIsField
  <2>. QED
    BY <1>4, <2>1, <2>2, <2>3, <2>4 DEF a, Side
<1>. QED
  BY <1>5, <1>6 DEF Complete

(* Eight groups are laid out without a gap, and a gap is where it is.      *)
LEMMA CompleteText ==
    ASSUME NEW t \in Seq(Seq(Symbols)), Len(t) > 0, NEW n \in 0..Len(t), NEW g, Complete(t, g, n)
    PROVE  /\ Whole(t) <=> g = 0 /\ n = 8
           /\ \A x \in 1..Len(t) : Gap(t, x) => x = g
<1>1. n \in Nat /\ Len(t) \in Nat /\ n <= Len(t)
  BY LenProperties
<1>2. g \in {0} \cup 2..n /\ (g # 0 => t[g] = Quad!NoChars)
  BY DEF Complete, Layout
<1>3. ASSUME g = 0 PROVE Whole(t) <=> n = 8
  <2>1. \A k \in 1..n : Group(t[k])
    BY <1>3 DEF Complete, Layout
  <2> DEFINE m == Len(t)
  <2>2. n = m \/ (n = m - 1 /\ g = n)
    BY DEF Complete
  <2>3. Whole(t) <=> m = 8 /\ \A k \in 1..m : Group(t[k])
    BY DEF Whole, Groups
  <2>4. m \in Nat
    BY <1>1
  <2> HIDE DEF m
  <2>5. n = m \/ (n = 0 /\ m = 1)
    BY <1>1, <1>3, <2>2, <2>4
  <2>. QED
    BY <2>1, <2>3, <2>5
<1>4. ASSUME g # 0, Whole(t) PROVE FALSE
  <2>1. g \in 1..Len(t)
    BY <1>1, <1>2, <1>4
  <2>. QED
    BY <1>2, <1>4, <2>1, GroupIsField DEF Whole, Groups
<1>5. ASSUME NEW x \in 1..Len(t), Gap(t, x) PROVE x = g
  <2>1. x \in 2..(Len(t) - 1) /\ t[x] = Quad!NoChars
    BY <1>5, GapInside
  <2>2. x \in 1..n /\ x # 1
    BY <1>1, <2>1 DEF Complete
  <2>. QED
    BY <2>1, <2>2 DEF Complete, Layout
<1>. QED
  BY <1>3, <1>4, <1>5

LEMMA FinalAddress ==
    ASSUME NEW t \in Seq(Seq(Symbols)), Len(t) > 0, NEW n \in 0..Len(t), NEW g, Complete(t, g, n)
    PROVE  Address(t) <=> IF g = 0 THEN Filled(t, g, n) = 16 ELSE Filled(t, g, n) < 16
<1>1. n \in Nat /\ Len(t) \in Nat /\ n <= Len(t) /\ Layout(t, g, n)
  BY LenProperties DEF Complete
<1>2. /\ g \in Nat /\ g <= n /\ (g # 0 => g \in 2..n /\ t[g] = Quad!NoChars)
      /\ Skipped(t, g) \in 0..2 /\ (Skipped(t, g) = 0 <=> g = 0)
      /\ Filled(t, g, n) = 2 * (n - Skipped(t, g))
  BY <1>1, LayoutFacts
<1>3. CASE g = 0
  <2>2. Address(t) <=> Whole(t)
    <3>1. ASSUME NEW x \in 1..Len(t), Gap(t, x) PROVE FALSE
      <4>1. x = 0
        BY <1>3, <3>1, CompleteText
      <4>. QED
        BY <1>1, <4>1
    <3>. QED
      BY <3>1 DEF Address
  <2>3. Whole(t) <=> n = 8
    BY <1>3, CompleteText
  <2>. QED
    BY <1>1, <1>2, <1>3, <2>2, <2>3
<1>4. CASE g # 0
  <2>1. g \in 1..Len(t)
    BY <1>1, <1>2, <1>4
  <2>2. /\ Side(Before(t, g)) /\ Len(Words(Before(t, g))) = g - Skipped(t, g)
        /\ Side(After(t, g)) /\ Len(Words(After(t, g))) = n - g
    BY <1>1, <1>4, SideBeforeGap, SideBehindGap
  <2>3. Gap(t, g) <=> Len(Words(Before(t, g))) + Len(Words(After(t, g))) < 8
    BY <1>2, <1>4, <2>2 DEF Gap
  <2>4. Gap(t, g) <=> Filled(t, g, n) < 16
    <3> DEFINE s == Skipped(t, g)
    <3>1. Gap(t, g) <=> (g - s) + (n - g) < 8
      BY <2>2, <2>3
    <3> HIDE DEF s
    <3>2. (g - s) + (n - g) < 8 <=> 2 * (n - s) < 16
      BY <1>1, <1>2 DEF s
    <3>. QED
      BY <1>2, <3>1, <3>2 DEF s
  <2>5. Address(t) <=> Gap(t, g)
    BY <1>4, <2>1, CompleteText DEF Address
  <2>. QED
    BY <1>4, <2>4, <2>5
<1>. QED
  BY <1>3, <1>4
LEMMA WordsAreNumbers ==
    ASSUME NEW s \in Seq(Seq(Symbols)), Side(s)
    PROVE  Words(s) \in Seq(Nat)
<1>1. CASE Bare(s)
  BY <1>1 DEF Words
<1>2. CASE ~Bare(s) /\ Groups(s)
  <2>1. Len(s) \in Nat
    BY LenProperties
  <2>2. \A k \in 1..Len(s) : Word(s[k]) \in Nat
    BY <1>2, WordIsSixteenBits, ElementOfSeq DEF Groups
  <2>. QED
    BY <1>2, <2>1, <2>2 DEF Words
<1>. QED
  BY <1>1, <1>2 DEF Side

(* The words of an address are those laid out, with zeros for the gap.     *)
LEMMA FinalWords ==
    ASSUME NEW t \in Seq(Seq(Symbols)), Len(t) > 0, NEW n \in 0..Len(t), NEW g,
           Complete(t, g, n), Address(t)
    PROVE  LET s == Skipped(t, g) IN
           \A k \in 1..8 : AddressWords(t)[k] =
               IF g = 0 \/ k <= g - s THEN Word(t[FieldOf(t, g, k)])
               ELSE IF k <= 8 - (n - g) THEN 0
               ELSE Word(t[FieldOf(t, g, (k - 8) + (n - s))])
<1> DEFINE s == Skipped(t, g)
<1>1. n \in Nat /\ Len(t) \in Nat /\ n <= Len(t) /\ Layout(t, g, n)
  BY LenProperties DEF Complete
<1>2. /\ g \in Nat /\ g <= n /\ (g # 0 => g \in 2..n)
      /\ s \in 0..2 /\ (s = 0 <=> g = 0) /\ s <= g
  BY <1>1, LayoutFacts
<1>3. CASE g = 0
  <2>1. Whole(t)
    <3>1. ASSUME NEW x \in 1..Len(t), Gap(t, x) PROVE FALSE
      <4>1. x = 0
        BY <1>3, <3>1, CompleteText
      <4>. QED
        BY <1>1, <4>1
    <3>. QED
      BY <3>1 DEF Address
  <2>2. Len(t) = 8 /\ ~Bare(t)
    <3>1. Len(t) = 8
      BY <2>1 DEF Whole
    <3>2. Bare(t) => Len(t) = 1
      BY OneSide
    <3>. QED
      BY <3>1, <3>2
  <2>3. \A k \in 1..8 : AddressWords(t)[k] = Word(t[k])
    BY <2>1, <2>2, OneSide DEF AddressWords
  <2>. QED
    BY <1>3, <2>3 DEF FieldOf
<1>4. CASE g # 0
  <2> DEFINE b == Words(Before(t, g))
             a == Words(After(t, g))
             z == Zeros(8 - Len(a) - Len(b))
  <2>1. g \in 1..Len(t)
    BY <1>1, <1>2, <1>4
  <2>2. ~Whole(t)
    BY <1>4, CompleteText
  <2>3. Gap(t, g)
    BY <2>1, <2>2, CompleteText DEF Address
  <2>4. (CHOOSE x \in 1..Len(t) : Gap(t, x)) = g
    BY <2>1, <2>3, CompleteText
  <2>5. AddressWords(t) = b \o z \o a
    BY <2>2, <2>4, Zenon DEF AddressWords
  <2>6. /\ Len(b) = g - s /\ \A k \in 1..(g - s) : b[k] = Word(t[k])
        /\ Len(a) = n - g /\ \A k \in 1..(n - g) : a[k] = Word(t[g + k])
    BY <1>1, <1>4, SideBeforeGap, SideBehindGap
  <2>7. b \in Seq(Nat) /\ a \in Seq(Nat)
    BY <2>1, <2>3, TwoSides, WordsAreNumbers DEF Gap
  <2>8. Len(b) + Len(a) < 8
    BY <2>3 DEF Gap
  <2> DEFINE r == 8 - Len(a) - Len(b)
  <2>9. r = (8 - (n - g)) - (g - s) /\ r \in Nat
    BY <1>2, <2>6, <2>8
  <2>10. z \in Seq(Nat) /\ Len(z) = r /\ \A k \in 1..r : z[k] = 0
    <3> HIDE DEF r
    <3>1. Zeros(r) \in Seq(Nat) /\ Len(Zeros(r)) = r /\ \A k \in 1..r : Zeros(r)[k] = 0
      BY <2>9 DEF Zeros
    <3>. QED
      BY <3>1 DEF r
  <2> HIDE DEF a, b, z, r
  <2>11. /\ b \o z \in Seq(Nat) /\ Len(b \o z) = Len(b) + Len(z)
         /\ \A k \in 1..(Len(b) + Len(z)) : (b \o z)[k] = IF k <= Len(b) THEN b[k] ELSE z[k - Len(b)]
    BY <2>7, <2>10, ConcatProperties
  <2>12. \A k \in 1..(Len(b \o z) + Len(a)) : ((b \o z) \o a)[k] =
              IF k <= Len(b \o z) THEN (b \o z)[k] ELSE a[k - Len(b \o z)]
    BY <2>7, <2>11, ConcatProperties
  <2> DEFINE w == AddressWords(t)
  <2>13. w = (b \o z) \o a
    BY <2>5
  <2>14. Len(b \o z) = 8 - (n - g) /\ 8 - (n - g) \in Nat
    <3>1. Len(b \o z) = (g - s) + ((8 - (n - g)) - (g - s))
      BY <2>6, <2>9, <2>10, <2>11
    <3> HIDE DEF s
    <3>. QED
      BY <1>1, <1>2, <2>6, <2>8, <3>1
  <2> HIDE DEF w, s
  <2>15. ASSUME NEW k \in 1..8, k <= g - s PROVE w[k] = Word(t[FieldOf(t, g, k)])
    <3>1. k \in 1..(g - s) /\ k \in 1..(Len(b) + Len(z)) /\ k <= Len(b \o z) /\ k <= Len(b)
          /\ k \in 1..(Len(b \o z) + Len(a))
      BY <1>1, <1>2, <2>6, <2>8, <2>9, <2>10, <2>11, <2>14, <2>15
    <3>2. w[k] = b[k] /\ b[k] = Word(t[k])
      BY <2>6, <2>11, <2>12, <2>13, <3>1
    <3>3. FieldOf(t, g, k) = k
      BY <2>15 DEF FieldOf, s
    <3>. QED
      BY <3>2, <3>3
  <2>16. ASSUME NEW k \in 1..8, ~(k <= g - s), k <= 8 - (n - g) PROVE w[k] = 0
    <3>1. k \in 1..(Len(b) + Len(z)) /\ k <= Len(b \o z) /\ ~(k <= Len(b)) /\ k - Len(b) \in 1..r
          /\ k \in 1..(Len(b \o z) + Len(a))
      BY <1>1, <1>2, <2>6, <2>8, <2>9, <2>10, <2>11, <2>14, <2>16
    <3>. QED
      BY <2>10, <2>11, <2>12, <2>13, <3>1
  <2>17. ASSUME NEW k \in 1..8, ~(k <= g - s), ~(k <= 8 - (n - g))
         PROVE  w[k] = Word(t[FieldOf(t, g, (k - 8) + (n - s))])
    <3> DEFINE j == k - (8 - (n - g))
    <3>1. /\ j \in 1..(n - g) /\ ~(k <= Len(b \o z)) /\ k - Len(b \o z) = j
          /\ k \in 1..(Len(b \o z) + Len(a))
      BY <1>1, <1>2, <2>6, <2>8, <2>14, <2>17
    <3>2. w[k] = a[j] /\ a[j] = Word(t[g + j])
      BY <2>6, <2>12, <2>13, <3>1
    <3>3. ~((k - 8) + (n - s) <= g - s) /\ ((k - 8) + (n - s)) + s = g + j
      <4>1. n \in Int /\ g \in Int /\ s \in Int
        BY <1>1, <1>2
      <4>. QED
        BY <2>17, <4>1
    <3>4. FieldOf(t, g, (k - 8) + (n - s)) = g + j
      BY <1>4, <3>3 DEF FieldOf, s
    <3>. QED
      BY <3>2, <3>4
  <2>. QED
    BY <1>4, <2>15, <2>16, <2>17 DEF s, w
<1>. QED
  BY <1>3, <1>4
LEMMA FinalBytes ==
    ASSUME NEW t \in Seq(Seq(Symbols)), Len(t) > 0, NEW n \in 0..Len(t), NEW g,
           Complete(t, g, n), Address(t), NEW b \in [0..15 -> 0..255],
           IF g = 0 THEN InOrder(b, t, g, n)
           ELSE Shifted(b, t, g, n, Filled(t, g, n) - FrontOf(t, g))
    PROVE  b = Bytes(t)
<1> DEFINE s == Skipped(t, g)
           e == Filled(t, g, n)
           d == FrontOf(t, g)
           w == AddressWords(t)
<1>1. n \in Nat /\ Layout(t, g, n)
  BY LenProperties DEF Complete
<1>2. /\ g \in Nat /\ g <= n /\ s \in 0..2 /\ s <= g
      /\ e = 2 * (n - s) /\ d = 2 * (g - s)
  BY <1>1, LayoutFacts
<1>3. \A k \in 1..8 : w[k] =
          IF g = 0 \/ k <= g - s THEN Word(t[FieldOf(t, g, k)])
          ELSE IF k <= 8 - (n - g) THEN 0
          ELSE Word(t[FieldOf(t, g, (k - 8) + (n - s))])
  BY FinalWords
<1>4. IF g = 0 THEN e = 16 ELSE e < 16
  BY FinalAddress
<1> HIDE DEF s, e, d, w
<1>5. ASSUME NEW p \in 0..15 PROVE b[p] = Half(w[p \div 2 + 1], p)
  <2> DEFINE k == p \div 2 + 1
  <2>1. k \in 1..8
    OBVIOUS
  <2>2. CASE g = 0
    <3>1. b[p] = ByteOf(t, g, p)
      <4>1. b[p] = IF p < e THEN ByteOf(t, g, p) ELSE 0
        BY <2>2 DEF InOrder, e
      <4>. QED
        BY <1>4, <2>2, <4>1
    <3>2. w[k] = Word(t[FieldOf(t, g, k)])
      BY <1>3, <2>1, <2>2
    <3>. QED
      BY <3>1, <3>2 DEF ByteOf
  <2>3. CASE g # 0
    <3>1. b[p] = IF p < e - (e - d) THEN ByteOf(t, g, p)
                 ELSE IF p >= 16 - (e - d) THEN ByteOf(t, g, p - 16 + e) ELSE 0
      BY <2>3 DEF Shifted, e, d
    <3>2. CASE p < d
      <4>1. k <= g - s /\ b[p] = ByteOf(t, g, p)
        BY <1>1, <1>2, <3>1, <3>2
      <4>2. w[k] = Word(t[FieldOf(t, g, k)])
        BY <1>3, <2>1, <4>1
      <4>. QED
        BY <4>1, <4>2 DEF ByteOf
    <3>3. CASE p >= d /\ p < 16 - (e - d)
      <4>1. ~(k <= g - s) /\ k <= 8 - (n - g) /\ b[p] = 0
        BY <1>1, <1>2, <3>1, <3>3
      <4>2. w[k] = 0
        BY <1>3, <2>1, <2>3, <4>1
      <4>. QED
        BY <4>1, <4>2 DEF Half
    <3>4. CASE p >= 16 - (e - d)
      <4> DEFINE q == p - 16 + e
      <4>1. /\ p >= d /\ ~(k <= g - s) /\ ~(k <= 8 - (n - g))
            /\ q \div 2 + 1 = (k - 8) + (n - s) /\ q % 2 = p % 2
        BY <1>1, <1>2, <1>4, <2>3, <3>4
      <4>2. b[p] = ByteOf(t, g, q)
        BY <1>1, <1>2, <3>1, <3>4, <4>1
      <4>3. w[k] = Word(t[FieldOf(t, g, (k - 8) + (n - s))])
        BY <1>3, <2>1, <2>3, <4>1
      <4> HIDE DEF q
      <4>. QED
        BY <4>1, <4>2, <4>3 DEF ByteOf, Half
    <3>. QED
      BY <1>1, <1>2, <3>2, <3>3, <3>4
  <2>. QED
    BY <2>2, <2>3
<1>. QED
  BY <1>5 DEF Bytes, w
-----------------------------------------------------------------------------
(* The steps.                                                              *)

LEMMA NowRejected ==
    ASSUME Follows, phase # "accepted", phase' = "rejected", dst' = dst,
           fields' \in Seq(Seq(Symbols)), Len(fields') > 0,
           Dead(fields') \/ (ahead' = "over" /\ ~Address(fields'))
    PROVE  Follows'
BY DEF Follows

LEMMA NowLooping ==
    ASSUME Follows, phase # "accepted", phase' \in {"first", "loop"}, dst' = dst,
           fields' \in Seq(Seq(Symbols)), Len(fields') > 0,
           NEW n \in Nat, Len(fields') = n + 1,
           NEW g \in Nat, g <= n, Layout(fields', g, n), InOrder(tmp', fields', g, n),
           tp' = Filled(fields', g, n),
           colonp' = IF g = 0 THEN NULL ELSE FrontOf(fields', g),
           i' = 1, saw_xdigit' = 0 /\ ahead' # "more" => g = n,
           ahead' # "over",
           IF saw_xdigit' = 0 THEN fields'[n + 1] = Quad!NoChars ELSE Group(fields'[n + 1]),
           val' = Word(fields'[n + 1]),
           phase' = "first" => n = 0 /\ saw_xdigit' = 0,
           phase' = "loop" /\ saw_xdigit' = 0 => n > 0
    PROVE  Follows'
<1>1. Len(fields') - 1 = n
  BY LenProperties
<1>2. Looping'
  BY <1>1 DEF Looping, Placed
<1>. QED
  BY <1>2 DEF Follows

LEMMA LoopingFacts ==
    ASSUME Follows, phase \in {"first", "loop"}
    PROVE  \E n, g \in Nat :
               /\ Len(fields) = n + 1 /\ g <= n
               /\ Layout(fields, g, n) /\ InOrder(tmp, fields, g, n)
               /\ tp = Filled(fields, g, n)
               /\ colonp = IF g = 0 THEN NULL ELSE FrontOf(fields, g)
               /\ i = 1 /\ (saw_xdigit = 0 /\ ahead # "more" => g = n) /\ ahead # "over"
               /\ IF saw_xdigit = 0 THEN fields[n + 1] = Quad!NoChars ELSE Group(fields[n + 1])
               /\ val = Word(fields[n + 1])
               /\ phase = "first" => n = 0 /\ saw_xdigit = 0
               /\ phase = "loop" /\ saw_xdigit = 0 => n > 0
<1> DEFINE n == Len(fields) - 1
<1>1. n \in Nat /\ Len(fields) = n + 1
  BY LenProperties DEF Follows
<1>2. Looping
  BY DEF Follows
<1>3. PICK g \in 0..n : /\ Placed(fields, g, n)
                        /\ saw_xdigit = 0 /\ ahead # "more" => g = n
  BY <1>2 DEF Looping
<1>4. /\ ahead # "over"
      /\ IF saw_xdigit = 0 THEN fields[n + 1] = Quad!NoChars ELSE Group(fields[n + 1])
      /\ val = Word(fields[n + 1])
      /\ phase = "first" => n = 0 /\ saw_xdigit = 0
      /\ phase = "loop" /\ saw_xdigit = 0 => n > 0
  BY <1>2 DEF Looping
<1> HIDE DEF n
<1>5. n \in Nat /\ g \in Nat /\ g <= n
  BY <1>1
<1>6. /\ Len(fields) = n + 1
      /\ Layout(fields, g, n) /\ InOrder(tmp, fields, g, n)
      /\ tp = Filled(fields, g, n)
      /\ colonp = IF g = 0 THEN NULL ELSE FrontOf(fields, g)
      /\ i = 1 /\ (saw_xdigit = 0 /\ ahead # "more" => g = n)
  BY <1>1, <1>3 DEF Placed
<1>. QED
  BY <1>4, <1>5, <1>6
LEMMA HexDigitFollows ==
    ASSUME IInv, Follows, NEW h \in Hex, HexDigit(h)
    PROVE  Follows'
<1> DEFINE u == Quad!Extended(fields, h)
           m == Len(fields)
<1>1. h \in 0..15 /\ h \in Symbols
  BY HexAssumption DEF Symbols
<1>2. /\ fields \in Seq(Seq(Symbols)) /\ m \in Nat \ {0} /\ Len(fields) > 0
      /\ fields[m] \in Seq(Symbols)
  BY LenProperties, ElementOfSeq DEF Follows
<1>3. /\ u \in Seq(Seq(Symbols)) /\ Len(u) = m /\ u[m] = Append(fields[m], h)
      /\ \A k \in 1..(m - 1) : u[k] = fields[k]
  BY <1>1, <1>2, Grown
<1>4. phase \in Loop /\ fields' = u /\ ahead' = "unknown" /\ phase # "accepted"
  BY DEF HexDigit, Reads, Loop
<1> HIDE DEF u
<1>5. CASE phase = "second"
  <2>1. Return0
    BY <1>5 DEF HexDigit
  <2>2. m = 2 /\ fields[1] = Quad!NoChars
    BY <1>5 DEF Follows
  <2>3. u[1] = Quad!NoChars /\ u[2] # Quad!NoChars /\ Len(u) > 1
    BY <1>1, <1>2, <1>3, <2>2, HopelessFields
  <2>4. Dead(u)
    BY <2>3 DEF Dead
  <2>. QED
    BY <1>2, <1>3, <1>4, <2>1, <2>4, NowRejected DEF Return0
<1>6. CASE phase # "second"
  <2>1. phase \in {"first", "loop"}
    BY <1>4, <1>6 DEF Loop
  <2>2. PICK n \in Nat, g \in Nat :
            /\ m = n + 1 /\ g <= n /\ Layout(fields, g, n) /\ InOrder(tmp, fields, g, n)
            /\ tp = Filled(fields, g, n)
            /\ colonp = IF g = 0 THEN NULL ELSE FrontOf(fields, g)
            /\ i = 1
            /\ IF saw_xdigit = 0 THEN fields[n + 1] = Quad!NoChars ELSE Group(fields[n + 1])
            /\ val = Word(fields[n + 1])
    BY <2>1, LoopingFacts
  <2> DEFINE v == Word(fields[m])
             w == Word(u[m])
  <2>3. /\ v \in Nat /\ v <= 65535
        /\ v * 16 + h <= 65535 => Group(u[m]) /\ w = v * 16 + h
        /\ v * 16 + h > 65535 => Hopeless(u[m])
    <3>1. fields[m] = Quad!NoChars \/ Group(fields[m])
      BY <2>2
    <3>. QED
      BY <1>1, <1>2, <1>3, <3>1, GroupGrows
  <2>4. Accumulate(h) = v * 16 + h
    BY <2>2 DEF Accumulate
  <2>5. CASE Accumulate(h) > 65535 /\ Return0
    <3>1. m \in 1..Len(u) /\ Hopeless(u[m])
      BY <1>2, <1>3, <2>3, <2>4, <2>5
    <3>2. Dead(u)
      BY <3>1 DEF Dead
    <3>. QED
      BY <1>2, <1>3, <1>4, <2>5, <3>2, NowRejected DEF Return0
  <2>6. CASE /\ Accumulate(h) <= 65535 /\ phase' = "loop" /\ val' = Accumulate(h)
             /\ saw_xdigit' = 1 /\ UNCHANGED <<tmp, tp, colonp, i, dst>>
    <3>1. Group(u[n + 1]) /\ val' = Word(u[n + 1])
      <4> HIDE DEF v, w
      <4>1. Group(u[m]) /\ val' = w
        BY <2>3, <2>4, <2>6
      <4>. QED
        BY <2>2, <4>1 DEF w
    <3>2. \A k \in 1..n : u[k] = fields[k]
      <4>1. m - 1 = n
        BY <2>2
      <4>. QED
        BY <1>3, <4>1
    <3>3. /\ Layout(u, g, n) /\ Filled(u, g, n) = Filled(fields, g, n)
          /\ FrontOf(u, g) = FrontOf(fields, g) /\ InOrder(tmp, u, g, n)
      <4>1. Layout(fields, g, n) /\ InOrder(tmp, fields, g, n)
        BY <2>2
      <4>. QED
        BY <3>2, <4>1, LayoutFrame
    <3>4. Len(u) = n + 1
      BY <1>3, <2>2
    <3> HIDE DEF v, w, m
    <3>. QED
      BY <1>3, <1>4, <2>2, <2>6, <3>1, <3>3, <3>4, NowLooping
  <2>. QED
    BY <1>4, <1>6, <2>5, <2>6 DEF HexDigit
<1>. QED
  BY <1>5, <1>6
(* A :: in front stands for everything before it.                          *)
LEMMA GapInFront ==
    ASSUME NEW t, t[1] = Quad!NoChars, t[2] = Quad!NoChars,
           NEW b, \A p \in 0..15 : b[p] = 0
    PROVE  /\ Layout(t, 2, 2) /\ Filled(t, 2, 2) = 0 /\ FrontOf(t, 2) = 0
           /\ InOrder(b, t, 2, 2)
<1>1. Layout(t, 2, 2)
  <2>1. \A k \in 1..2 : k = 2 \/ (k = 1 /\ 2 = 2)
    OBVIOUS
  <2>. QED
    BY <2>1 DEF Layout
<1>2. Skipped(t, 2) = 2
  BY DEF Skipped
<1>3. Filled(t, 2, 2) = 0 /\ FrontOf(t, 2) = 0
  BY <1>2 DEF Filled, FrontOf
<1>4. InOrder(b, t, 2, 2)
  BY <1>3 DEF InOrder
<1>. QED
  BY <1>1, <1>3, <1>4

LEMMA NothingStored ==
    ASSUME NEW t, NEW g, Layout(t, g, 0)
    PROVE  g = 0 /\ Filled(t, g, 0) = 0
<1>1. g = 0
  BY DEF Layout
<1>. QED
  BY <1>1 DEF Filled, Skipped

LEMMA GapColonFollows ==
    ASSUME IInv, Follows, GapColon
    PROVE  Follows'
<1> DEFINE u == Quad!Dotted(fields)
           m == Len(fields)
<1>1. /\ fields \in Seq(Seq(Symbols)) /\ m \in Nat \ {0} /\ Len(fields) > 0
      /\ 0 \in Symbols
  BY LenProperties DEF Follows, Symbols
<1>2. /\ u \in Seq(Seq(Symbols)) /\ Len(u) = m + 1 /\ u[m + 1] = Quad!NoChars
      /\ \A k \in 1..m : u[k] = fields[k]
  BY <1>1, Grown
<1>3. /\ phase \in Loop /\ saw_xdigit = 0 /\ fields' = u /\ ahead' = "unknown"
      /\ phase # "accepted" /\ UNCHANGED <<tmp, tp, saw_xdigit, val, i, dst>>
  BY DEF GapColon, Reads, Loop
<1>4. Word(Quad!NoChars) = 0
  BY EmptyField
<1> HIDE DEF u
<1>5. CASE phase = "second"
  <2>1. /\ m = 2 /\ fields[1] = Quad!NoChars /\ fields[2] = Quad!NoChars
        /\ tp = 0 /\ colonp = NULL /\ val = 0 /\ i = 1 /\ \A p \in 0..15 : tmp[p] = 0
    BY <1>5 DEF Follows
  <2>2. phase' = "loop" /\ colonp' = tp
    BY <1>5, <2>1 DEF GapColon
  <2>3. u[1] = Quad!NoChars /\ u[2] = Quad!NoChars /\ u[3] = Quad!NoChars /\ Len(u) = 2 + 1
    BY <1>2, <2>1
  <2>4. /\ Layout(u, 2, 2) /\ Filled(u, 2, 2) = 0 /\ FrontOf(u, 2) = 0
        /\ InOrder(tmp, u, 2, 2)
    BY <2>1, <2>3, GapInFront
  <2>5. 2 \in Nat /\ 2 <= 2 /\ 2 > 0 /\ 2 + 1 = 3 /\ 2 # 0 /\ Len(u) > 0
    BY <2>3
  <2>. QED
    BY <1>2, <1>3, <1>4, <2>1, <2>2, <2>3, <2>4, <2>5, NowLooping
<1>6. CASE phase # "second"
  <2>1. phase \in {"first", "loop"}
    BY <1>3, <1>6 DEF Loop
  <2>2. PICK n \in Nat, g \in Nat :
            /\ m = n + 1 /\ g <= n /\ Layout(fields, g, n) /\ InOrder(tmp, fields, g, n)
            /\ tp = Filled(fields, g, n)
            /\ colonp = IF g = 0 THEN NULL ELSE FrontOf(fields, g)
            /\ i = 1
            /\ fields[n + 1] = Quad!NoChars /\ val = Word(fields[n + 1])
            /\ phase = "first" => n = 0
            /\ phase = "loop" => n > 0
    BY <1>3, <2>1, LoopingFacts
  <2>3. /\ Layout(u, g, n) /\ Filled(u, g, n) = tp
        /\ FrontOf(u, g) = FrontOf(fields, g) /\ InOrder(tmp, u, g, n)
    <3>1. Layout(fields, g, n) /\ InOrder(tmp, fields, g, n)
      BY <2>2
    <3>2. \A k \in 1..n : u[k] = fields[k]
      BY <1>2, <2>2
    <3>. QED
      BY <2>2, <3>1, <3>2, LayoutFrame
  <2>4. /\ g # 0 => g \in 2..n /\ u[g] = Quad!NoChars /\ FrontOf(u, g) \in Nat
    BY <2>3, LayoutFacts
  <2>5. u[n + 1] = Quad!NoChars /\ u[n + 2] = Quad!NoChars /\ Len(u) = n + 2 /\ val = 0
    BY <1>2, <1>4, <2>2
  <2>6. CASE phase = "first"
    <3>1. n = 0 /\ phase' = "second" /\ colonp' = colonp
      BY <2>2, <2>6 DEF GapColon
    <3>2. g = 0 /\ tp = 0 /\ colonp = NULL
      BY <2>2, <2>3, <3>1, NothingStored
    <3>3. u = <<Quad!NoChars, Quad!NoChars>>
      <4> DEFINE z == <<Quad!NoChars, Quad!NoChars>>
      <4>1. z \in Seq(Seq(Symbols)) /\ Len(z) = 2 /\ z[1] = Quad!NoChars /\ z[2] = Quad!NoChars
        BY EmptyField
      <4>2. Len(u) = 2 /\ u[1] = Quad!NoChars /\ u[2] = Quad!NoChars
        BY <2>5, <3>1
      <4>3. \A k \in 1..2 : u[k] = z[k]
        BY <4>1, <4>2
      <4>. QED
        BY <1>2, <4>1, <4>2, <4>3, SeqEqual
    <3>4. \A p \in 0..15 : tmp[p] = 0
      BY <2>2, <3>2 DEF InOrder
    <3>5. Len(u) > 0
      BY <2>5
    <3>. QED
      BY <1>2, <1>3, <2>2, <2>5, <3>1, <3>2, <3>3, <3>4, <3>5 DEF Follows
  <2>7. CASE phase = "loop" /\ colonp = NULL
    <3>1. phase' = "loop" /\ colonp' = tp
      BY <2>7 DEF GapColon
    <3>2. g = 0 /\ n \in Nat \ {0}
      BY <2>2, <2>3, <2>4, <2>7
    <3>3. /\ Layout(u, n + 1, n + 1) /\ Filled(u, n + 1, n + 1) = tp
          /\ FrontOf(u, n + 1) = tp /\ InOrder(tmp, u, n + 1, n + 1)
      BY <2>3, <2>5, <3>2, GapOpens
    <3>4. /\ n + 1 \in Nat /\ n + 1 > 0 /\ n + 1 # 0 /\ n + 1 <= n + 1
          /\ Len(u) = (n + 1) + 1 /\ u[(n + 1) + 1] = Quad!NoChars /\ Len(u) > 0
      BY <2>5
    <3>. QED
      BY <1>2, <1>3, <1>4, <2>2, <2>5, <3>1, <3>3, <3>4, NowLooping
  <2>8. CASE phase = "loop" /\ colonp # NULL
    <3>1. phase' = "rejected"
      BY <2>8 DEF GapColon
    <3>2. g \in 2..n /\ u[g] = Quad!NoChars
      BY <2>2, <2>4, <2>8
    <3>3. /\ g \in 2..(Len(u) - 1) /\ n + 1 \in 2..(Len(u) - 1) /\ g < n + 1
          /\ Len(u) > 0
      BY <2>5, <3>2
    <3>4. Dead(u)
      BY <2>5, <3>2, <3>3 DEF Dead
    <3>. QED
      BY <1>2, <1>3, <3>1, <3>3, <3>4, NowRejected
  <2>. QED
    BY <2>1, <2>6, <2>7, <2>8
<1>. QED
  BY <1>5, <1>6
(* A single colon does not end an address.                                 *)
LEMMA LoneColon ==
    ASSUME NEW t \in Seq(Seq(Symbols)), NEW m \in Nat, Len(t) = m + 1, m > 0,
           t[m + 1] = Quad!NoChars, t[m] # Quad!NoChars
    PROVE  ~Address(t)
<1>1. ASSUME Whole(t) PROVE FALSE
  <2>1. m + 1 \in 1..Len(t)
    OBVIOUS
  <2>. QED
    BY <1>1, <2>1, GroupIsField DEF Whole, Groups
<1>2. ASSUME NEW x \in 1..Len(t), Gap(t, x) PROVE FALSE
  <2>1. /\ x \in 2..(Len(t) - 1) /\ t[x] = Quad!NoChars
        /\ \A k \in (x + 1)..Len(t) : Group(t[k]) \/ (x = Len(t) - 1 /\ t[k] = Quad!NoChars)
    BY <1>2, GapInside
  <2>2. m + 1 \in (x + 1)..Len(t)
    BY <2>1
  <2>3. x = m
    BY <2>1, <2>2, GroupIsField
  <2>. QED
    BY <2>1, <2>3
<1>. QED
  BY <1>1, <1>2 DEF Address

LEMMA GroupColonFollows ==
    ASSUME IInv, Follows, GroupColon
    PROVE  Follows'
<1> DEFINE u == Quad!Dotted(fields)
           m == Len(fields)
<1>1. /\ fields \in Seq(Seq(Symbols)) /\ m \in Nat \ {0} /\ Len(fields) > 0
      /\ 0 \in Symbols
  BY LenProperties DEF Follows, Symbols
<1>2. /\ u \in Seq(Seq(Symbols)) /\ Len(u) = m + 1 /\ u[m + 1] = Quad!NoChars
      /\ \A k \in 1..m : u[k] = fields[k]
  BY <1>1, Grown
<1>3. phase \in Loop /\ saw_xdigit = 1 /\ fields' = u /\ phase # "accepted"
  BY DEF GroupColon, Loop
<1>4. Word(Quad!NoChars) = 0
  BY EmptyField
<1> HIDE DEF u
<1>5. phase = "loop"
  <2>1. phase # "second"
    BY <1>3 DEF Follows
  <2>2. phase \in {"first", "loop"}
    BY <1>3, <2>1 DEF Loop
  <2>. QED
    BY <1>3, <2>2, LoopingFacts
<1>6. PICK n \in Nat, g \in Nat :
          /\ m = n + 1 /\ g <= n /\ Layout(fields, g, n) /\ InOrder(tmp, fields, g, n)
          /\ tp = Filled(fields, g, n)
          /\ colonp = IF g = 0 THEN NULL ELSE FrontOf(fields, g)
          /\ i = 1
          /\ Group(fields[n + 1]) /\ val = Word(fields[n + 1])
  BY <1>3, <1>5, LoopingFacts
<1>7. /\ Layout(u, g, n) /\ Filled(u, g, n) = tp
      /\ FrontOf(u, g) = FrontOf(fields, g) /\ InOrder(tmp, u, g, n)
  <2>1. Layout(fields, g, n) /\ InOrder(tmp, fields, g, n)
    BY <1>6
  <2>2. \A k \in 1..n : u[k] = fields[k]
    BY <1>2, <1>6
  <2>. QED
    BY <1>6, <2>1, <2>2, LayoutFrame
<1>8. /\ Group(u[n + 1]) /\ val = Word(u[n + 1]) /\ u[n + 2] = Quad!NoChars
      /\ Len(u) = n + 2 /\ Len(u) > 0
  BY <1>2, <1>6
<1>9. CASE ahead' = "over" /\ Return0
  <2>1. u[n + 1] # Quad!NoChars /\ Len(u) = (n + 1) + 1 /\ u[(n + 1) + 1] = Quad!NoChars
    BY <1>8, GroupIsField
  <2>2. n + 1 \in Nat /\ n + 1 > 0
    OBVIOUS
  <2>3. ~Address(u)
    BY <1>2, <2>1, <2>2, LoneColon
  <2>. QED
    BY <1>2, <1>3, <1>8, <1>9, <2>3, NowRejected DEF Return0
<1>10. CASE NoPair /\ Return0
  <2>1. /\ Skipped(u, g) \in Nat /\ tp = 2 * (n - Skipped(u, g))
    BY <1>7, LayoutFacts
  <2>2. tp + 2 > 16
    BY <1>10 DEF NoPair
  <2>3. Len(u) > 9
    BY <1>8, <2>1, <2>2
  <2>. QED
    BY <1>2, <1>3, <1>8, <1>10, <2>3, NowRejected DEF Return0, Dead
<1>11. CASE /\ ahead' = "more" /\ ~NoPair /\ PushVal /\ saw_xdigit' = 0 /\ val' = 0
            /\ UNCHANGED <<phase, colonp, i, dst>>
  <2>1. tp \in Nat /\ tp + 2 <= 16 /\ tmp \in [0..15 -> 0..255]
    BY <1>11 DEF NoPair, IInv, TypeOK
  <2>2. tmp' = [tmp EXCEPT ![tp] = val \div 256, ![tp + 1] = val % 256] /\ tp' = tp + 2
    BY <1>11 DEF PushVal
  <2>3. /\ Layout(u, g, n + 1) /\ Filled(u, g, n + 1) = tp'
        /\ InOrder(tmp', u, g, n + 1)
    BY <1>7, <1>8, <2>1, <2>2, LayoutGrows, Pushed
  <2>4. /\ n + 1 \in Nat /\ n + 1 > 0 /\ g <= n + 1
        /\ Len(u) = (n + 1) + 1 /\ u[(n + 1) + 1] = Quad!NoChars
    BY <1>6, <1>8
  <2>5. colonp' = IF g = 0 THEN NULL ELSE FrontOf(u, g)
    BY <1>6, <1>7, <1>11
  <2>. QED
    BY <1>2, <1>3, <1>4, <1>5, <1>6, <1>8, <1>11, <2>3, <2>4, <2>5, NowLooping
<1>. QED
  BY <1>9, <1>10, <1>11 DEF GroupColon

(* A character that belongs to no address.                                 *)
LEMMA OtherFollows ==
    ASSUME IInv, Follows, phase \in Loop, Return0,
           ReadsLast(Quad!Extended(fields, Quad!Other))
    PROVE  Follows'
<1> DEFINE u == Quad!Extended(fields, Quad!Other)
           m == Len(fields)
<1>1. /\ fields \in Seq(Seq(Symbols)) /\ m \in Nat \ {0} /\ Len(fields) > 0
      /\ fields[m] \in Seq(Symbols) /\ Quad!Other \in Symbols
  BY LenProperties, ElementOfSeq DEF Follows, Symbols
<1>2. /\ u \in Seq(Seq(Symbols)) /\ Len(u) = m
      /\ u[m] = Append(fields[m], Quad!Other)
  BY <1>1, Grown
<1>3. fields' = u /\ phase # "accepted"
  BY DEF ReadsLast, Loop
<1> HIDE DEF u
<1>4. m \in 1..Len(u) /\ Hopeless(u[m])
  BY <1>1, <1>2, HopelessFields
<1>5. Dead(u)
  BY <1>4 DEF Dead
<1>. QED
  BY <1>1, <1>2, <1>3, <1>5, NowRejected DEF Return0
LEMMA NowExpanding ==
    ASSUME Follows, phase # "accepted", phase' = "expand", dst' = dst, ahead' = "over",
           fields' \in Seq(Seq(Symbols)), Len(fields') > 0,
           NEW n \in 0..Len(fields'), NEW g \in 0..Len(fields'), Complete(fields', g, n),
           InOrder(tmp', fields', g, n), tp' = Filled(fields', g, n),
           colonp' = IF g = 0 THEN NULL ELSE FrontOf(fields', g), i' = 1
    PROVE  Follows'
<1>1. Layout(fields', g, n)
  BY DEF Complete
<1>2. (Complete(fields, g, n) /\ Placed(fields, g, n))'
  BY <1>1 DEF Placed
<1>. QED
  BY <1>2 DEF Follows

LEMMA DotFollows ==
    ASSUME IInv, Follows, Dot
    PROVE  Follows'
<1>1. phase \in Loop /\ phase # "accepted"
  BY DEF Dot, Loop
<1>2. ASSUME NEW rest \in Tails, QuadFollows(rest), ReadsLast(WithQuad(FirstOctet, rest)),
             \/ tp + 4 > 16 /\ Return0
             \/ /\ tp + 4 <= 16
                /\ tmp' = [tmp EXCEPT ![tp] = FirstOctet, ![tp + 1] = rest[1],
                                      ![tp + 2] = rest[2], ![tp + 3] = rest[3]]
                /\ tp' = tp + 4 /\ saw_xdigit' = 0 /\ phase' = "expand"
                /\ UNCHANGED <<colonp, val, i, dst>>
      PROVE  Follows'
  <2> DEFINE q == WithQuad(FirstOctet, rest)
             m == Len(fields)
             a == FirstOctet
  <2>1. fields \in Seq(Seq(Symbols)) /\ m \in Nat \ {0} /\ Len(fields) > 0
    BY LenProperties DEF Follows
  <2>2. /\ q \in Seq(Seq(Symbols)) /\ Len(q) = m + 1
        /\ q[m] = Nibbles(a, rest[1]) /\ q[m + 1] = Nibbles(rest[2], rest[3])
        /\ \A k \in 1..(m - 1) : q[k] = fields[k]
        /\ a \in 0..255 /\ \A k \in 1..3 : rest[k] \in 0..255
        /\ fields[m] # Quad!NoChars
    BY <1>2, <2>1, QuadAdded
  <2>3. rest[1] \in 0..255 /\ rest[2] \in 0..255 /\ rest[3] \in 0..255
    BY <2>2
  <2>4. /\ Group(q[m]) /\ Word(q[m]) = 256 * a + rest[1]
        /\ Group(q[m + 1]) /\ Word(q[m + 1]) = 256 * rest[2] + rest[3]
    <3> HIDE DEF q, a
    <3>1. /\ Group(Nibbles(a, rest[1])) /\ Word(Nibbles(a, rest[1])) = 256 * a + rest[1]
          /\ Group(Nibbles(rest[2], rest[3]))
          /\ Word(Nibbles(rest[2], rest[3])) = 256 * rest[2] + rest[3]
      BY <2>2, <2>3, QuadGroup
    <3>. QED
      BY <2>2, <3>1
  <2>5. fields' = q /\ ahead' = "over"
    BY <1>2 DEF ReadsLast
  <2> HIDE DEF q, a
  <2>6. phase = "loop"
    <3>1. phase # "second"
      <4> SUFFICES ASSUME phase = "second" PROVE FALSE
        OBVIOUS
      <4>1. m = 2 /\ fields[2] = Quad!NoChars
        BY DEF Follows
      <4>. QED
        BY <2>2, <4>1
    <3>2. phase # "first"
      <4> SUFFICES ASSUME phase = "first" PROVE FALSE
        OBVIOUS
      <4>1. PICK n \in Nat : m = n + 1 /\ fields[n + 1] = Quad!NoChars
        BY LoopingFacts
      <4>. QED
        BY <2>2, <4>1
    <3>. QED
      BY <1>1, <3>1, <3>2 DEF Loop
  <2>7. PICK n \in Nat, g \in Nat :
            /\ m = n + 1 /\ g <= n /\ Layout(fields, g, n) /\ InOrder(tmp, fields, g, n)
            /\ tp = Filled(fields, g, n)
            /\ colonp = IF g = 0 THEN NULL ELSE FrontOf(fields, g)
            /\ i = 1
    BY <2>6, LoopingFacts
  <2>8. /\ Layout(q, g, n) /\ Filled(q, g, n) = tp
        /\ FrontOf(q, g) = FrontOf(fields, g) /\ InOrder(tmp, q, g, n)
    <3>1. /\ Layout(fields, g, n) /\ InOrder(tmp, fields, g, n)
          /\ tp = Filled(fields, g, n)
      BY <2>7
    <3>2. \A k \in 1..n : q[k] = fields[k]
      BY <2>2, <2>7
    <3>. QED
      BY <3>1, <3>2, LayoutFrame
  <2> DEFINE v == Word(q[n + 1])
             w == Word(q[n + 2])
             b == [tmp EXCEPT ![tp] = v \div 256, ![tp + 1] = v % 256]
             c == [b EXCEPT ![tp + 2] = w \div 256, ![(tp + 2) + 1] = w % 256]
  <2>9. /\ Group(q[n + 1]) /\ Group(q[(n + 1) + 1])
        /\ v \div 256 = a /\ v % 256 = rest[1]
        /\ w \div 256 = rest[2] /\ w % 256 = rest[3]
    <3>1. v = 256 * a + rest[1] /\ w = 256 * rest[2] + rest[3]
      BY <2>4, <2>7
    <3>2. Group(q[n + 1]) /\ Group(q[(n + 1) + 1])
      BY <2>4, <2>7
    <3> HIDE DEF v, w
    <3>3. v \div 256 = a /\ v % 256 = rest[1]
      <4> DEFINE x == rest[1]
      <4>1. a \in 0..255 /\ x \in 0..255 /\ v = 256 * a + x
        BY <2>2, <2>3, <3>1
      <4> HIDE DEF x
      <4>2. v \div 256 = a /\ v % 256 = x
        BY <4>1
      <4>. QED
        BY <4>2 DEF x
    <3>4. w \div 256 = rest[2] /\ w % 256 = rest[3]
      <4> DEFINE x == rest[2]
                 y == rest[3]
      <4>1. x \in 0..255 /\ y \in 0..255 /\ w = 256 * x + y
        BY <2>3, <3>1
      <4> HIDE DEF x, y
      <4>2. w \div 256 = x /\ w % 256 = y
        BY <4>1
      <4>. QED
        BY <4>2 DEF x, y
    <3>. QED
      BY <3>2, <3>3, <3>4
  <2>10. tp \in Nat /\ tmp \in [0..15 -> 0..255]
    BY DEF IInv, TypeOK
  <2>11. /\ Layout(q, g, n + 1) /\ Filled(q, g, n + 1) = tp + 2
         /\ Layout(q, g, n + 2) /\ Filled(q, g, n + 2) = tp + 4
    <3>1. Layout(q, g, n + 1) /\ Filled(q, g, n + 1) = tp + 2
      BY <2>8, <2>9, LayoutGrows
    <3>2. Layout(q, g, (n + 1) + 1) /\ Filled(q, g, (n + 1) + 1) = (tp + 2) + 2
      BY <2>9, <3>1, LayoutGrows
    <3>. QED
      BY <2>10, <3>1, <3>2
  <2>12. /\ n + 2 \in 0..Len(q) /\ g \in 0..Len(q) /\ Len(q) > 0
         /\ n + 2 = Len(q) /\ q[n + 2] # Quad!NoChars
    BY <2>2, <2>7, <2>9, GroupIsField
  <2>13. Complete(q, g, n + 2)
    BY <2>11, <2>12 DEF Complete
  <2>14. CASE tp + 4 > 16 /\ Return0
    <3>1. Filled(q, g, n + 2) > 16
      BY <2>11, <2>14
    <3>2. ~Address(q)
      <4>1. Address(q) <=> IF g = 0 THEN Filled(q, g, n + 2) = 16 ELSE Filled(q, g, n + 2) < 16
        BY <2>2, <2>12, <2>13, FinalAddress
      <4>. QED
        BY <2>10, <2>11, <3>1, <4>1
    <3>. QED
      BY <1>1, <2>2, <2>5, <2>12, <2>14, <3>2, NowRejected DEF Return0
  <2>15. CASE /\ tp + 4 <= 16
              /\ tmp' = [tmp EXCEPT ![tp] = a, ![tp + 1] = rest[1],
                                    ![tp + 2] = rest[2], ![tp + 3] = rest[3]]
              /\ tp' = tp + 4 /\ phase' = "expand" /\ UNCHANGED <<colonp, i, dst>>
    <3>1. tp + 2 <= 16 /\ (tp + 2) + 2 <= 16 /\ tp \in 0..15 /\ tp + 1 \in 0..15
      BY <2>10, <2>15
    <3>2. InOrder(b, q, g, n + 1)
      BY <2>8, <2>9, <2>10, <3>1, Pushed
    <3>3. b \in [0..15 -> 0..255]
      <4> DEFINE d == [tmp EXCEPT ![tp] = a]
      <4>1. d \in [0..15 -> 0..255]
        BY <2>2, <2>10, <3>1, Stored
      <4>2. [d EXCEPT ![tp + 1] = rest[1]] \in [0..15 -> 0..255]
        BY <2>3, <3>1, <4>1, Stored
      <4>. QED
        BY <2>9, <4>2
    <3>4. InOrder(c, q, g, (n + 1) + 1)
      <4> DEFINE k == n + 1
                 j == Filled(q, g, k)
                 x == Word(q[k + 1])
                 d == [b EXCEPT ![j] = x \div 256, ![j + 1] = x % 256]
      <4>1. j = tp + 2 /\ x = w
        BY <2>11
      <4>2. k \in Nat /\ Layout(q, g, k) /\ Group(q[k + 1]) /\ InOrder(b, q, g, k) /\ j + 2 <= 16
        BY <2>9, <2>11, <3>1, <3>2
      <4> HIDE DEF b, k
      <4>3. InOrder(d, q, g, k + 1)
        BY <3>3, <4>2, Pushed
      <4> HIDE DEF j, x, w
      <4>4. d = c
        BY <4>1, Zenon
      <4>. QED
        BY <4>3, <4>4, Zenon DEF k
    <3>5. tmp' = c
      <4>1. (tp + 2) + 1 = tp + 3
        BY <2>10
      <4>2. c = [[[[tmp EXCEPT ![tp] = a] EXCEPT ![tp + 1] = rest[1]]
                  EXCEPT ![tp + 2] = rest[2]] EXCEPT ![tp + 3] = rest[3]]
        BY <2>9, <4>1, Zenon
      <4>. QED
        BY <2>15, <4>2, Zenon
    <3>6. InOrder(tmp', q, g, n + 2)
      <4>1. (n + 1) + 1 = n + 2
        OBVIOUS
      <4>. QED
        BY <3>4, <3>5, <4>1
    <3>7. colonp' = (IF g = 0 THEN NULL ELSE FrontOf(q, g)) /\ i' = 1
      BY <2>7, <2>8, <2>15
    <3>. QED
      BY <1>1, <2>2, <2>5, <2>11, <2>12, <2>13, <2>15, <3>6, <3>7, NowExpanding
  <2>. QED
    BY <1>2, <2>14, <2>15 DEF a
<1>3. CASE ReadsLast(Quad!Extended(fields, Quad!Other)) /\ Return0
  BY <1>1, <1>3, OtherFollows
<1>. QED
  BY <1>2, <1>3 DEF Dot
LEMMA EndFollows ==
    ASSUME IInv, Follows, End
    PROVE  Follows'
<1> DEFINE t == fields
           m == Len(fields)
<1>1. /\ t \in Seq(Seq(Symbols)) /\ m \in Nat \ {0} /\ Len(t) > 0
  BY LenProperties DEF Follows
<1>2. /\ phase \in Loop /\ fields' = t /\ phase # "accepted"
      /\ ahead = "unknown" /\ ahead' = "over"
  BY DEF End, Ends, Loop
<1> HIDE DEF t
<1>3. CASE phase = "second"
  <2>1. Return0
    BY <1>3 DEF End
  <2>2. Len(t) = 2
    BY <1>3 DEF Follows, t
  <2>3. ~Whole(t)
    BY <2>2 DEF Whole
  <2>4. ASSUME NEW x \in 1..Len(t), Gap(t, x) PROVE FALSE
    <3>1. x \in 2..(Len(t) - 1)
      BY <1>1, <2>4, GapInside
    <3>. QED
      BY <2>2, <3>1
  <2>5. ~Address(t)
    BY <2>3, <2>4 DEF Address
  <2>. QED
    BY <1>1, <1>2, <2>1, <2>5, NowRejected DEF Return0
<1>4. CASE phase # "second"
  <2>1. phase \in {"first", "loop"}
    BY <1>2, <1>4 DEF Loop
  <2>2. PICK n \in Nat, g \in Nat :
            /\ m = n + 1 /\ g <= n /\ Layout(t, g, n) /\ InOrder(tmp, t, g, n)
            /\ tp = Filled(t, g, n)
            /\ colonp = IF g = 0 THEN NULL ELSE FrontOf(t, g)
            /\ i = 1 /\ (saw_xdigit = 0 /\ ahead # "more" => g = n)
            /\ IF saw_xdigit = 0 THEN t[n + 1] = Quad!NoChars ELSE Group(t[n + 1])
            /\ val = Word(t[n + 1])
    BY <2>1, LoopingFacts DEF t
  <2>3. tp \in Nat /\ tmp \in [0..15 -> 0..255]
    BY DEF IInv, TypeOK
  <2>4. Len(t) = n + 1 /\ n + 1 \in 0..Len(t) /\ n \in 0..Len(t) /\ g \in 0..Len(t)
    BY <2>2 DEF t
  <2>5. CASE saw_xdigit = 1
    <3>1. Group(t[n + 1]) /\ t[n + 1] # Quad!NoChars
      BY <2>2, <2>5, GroupIsField
    <3>2. Layout(t, g, n + 1) /\ Filled(t, g, n + 1) = tp + 2
      BY <2>2, <3>1, LayoutGrows
    <3>3. Complete(t, g, n + 1)
      BY <2>4, <3>1, <3>2 DEF Complete
    <3>4. CASE NoPair /\ Return0
      <4>1. Filled(t, g, n + 1) > 16
        BY <2>3, <3>2, <3>4 DEF NoPair
      <4>2. ~Address(t)
        <5>1. Address(t) <=> IF g = 0 THEN Filled(t, g, n + 1) = 16 ELSE Filled(t, g, n + 1) < 16
          BY <1>1, <2>4, <3>3, FinalAddress
        <5>. QED
          BY <2>3, <3>2, <4>1, <5>1
      <4>. QED
        BY <1>1, <1>2, <3>4, <4>2, NowRejected DEF Return0
    <3>5. CASE /\ ~NoPair /\ PushVal /\ phase' = "expand" /\ UNCHANGED <<colonp, i, dst>>
      <4>1. tp + 2 <= 16
        BY <2>3, <3>5 DEF NoPair
      <4>2. tmp' = [tmp EXCEPT ![tp] = val \div 256, ![tp + 1] = val % 256] /\ tp' = tp + 2
        BY <3>5 DEF PushVal
      <4>3. InOrder(tmp', t, g, n + 1)
        BY <2>2, <2>3, <3>1, <4>1, <4>2, Pushed
      <4>. QED
        BY <1>1, <1>2, <2>2, <2>4, <3>2, <3>3, <3>5, <4>2, <4>3, NowExpanding
    <3>. QED
      BY <1>4, <2>5, <3>4, <3>5 DEF End
  <2>6. CASE saw_xdigit = 0
    <3>1. /\ UNCHANGED <<tmp, tp, colonp, i, dst>> /\ phase' = "expand"
      BY <1>4, <2>6 DEF End
    <3>2. Complete(t, g, n)
      <4>1. g = n /\ t[n + 1] = Quad!NoChars /\ n = Len(t) - 1
        BY <1>2, <2>2, <2>4, <2>6
      <4>. QED
        BY <2>2, <4>1 DEF Complete
    <3>. QED
      BY <1>1, <1>2, <2>2, <2>4, <3>1, <3>2, NowExpanding
  <2>. QED
    BY <2>5, <2>6 DEF IInv, TypeOK
<1>. QED
  BY <1>3, <1>4
LEMMA ExpandFollows ==
    ASSUME IInv, Follows, Expand
    PROVE  Follows'
<1> DEFINE t == fields
<1>1. /\ t \in Seq(Seq(Symbols)) /\ Len(t) > 0 /\ ahead = "over"
      /\ fields' = t /\ ahead' = "over"
      /\ UNCHANGED <<tmp, tp, colonp, i, dst>> /\ phase = "expand"
  BY DEF Follows, Expand, text
<1>2. PICK n \in 0..Len(t), g \in 0..Len(t) : Complete(t, g, n) /\ Placed(t, g, n)
  BY <1>1 DEF Follows
<1> HIDE DEF t
<1>3. /\ Layout(t, g, n) /\ InOrder(tmp, t, g, n) /\ tp = Filled(t, g, n) /\ i = 1
      /\ colonp = IF g = 0 THEN NULL ELSE FrontOf(t, g)
  BY <1>2 DEF Placed
<1>4. n \in Nat
  BY <1>1, LenProperties
<1>5. /\ g \in Nat /\ Filled(t, g, n) \in Nat
      /\ g # 0 => FrontOf(t, g) \in 0..Filled(t, g, n)
  BY <1>3, <1>4, LayoutFacts
<1>6. phase' = IF colonp = NULL THEN "copy" ELSE IF GapWithoutRoom THEN "rejected" ELSE "shift"
  BY DEF Expand
<1>7. g = 0 <=> colonp = NULL
  BY <1>3, <1>5
<1>8. CASE g = 0
  <2>1. phase' = "copy"
    BY <1>6, <1>7, <1>8
  <2>2. Placed(t, g, n)'
    BY <1>1, <1>3, <1>8 DEF Placed, t
  <2>3. (Complete(fields, g, n) /\ Placed(fields, g, n))'
    BY <1>1, <1>2, <1>3, <1>8 DEF Placed, t
  <2>4. /\ fields' \in Seq(Seq(Symbols)) /\ Len(fields') > 0
        /\ n \in 0..Len(fields') /\ g \in 0..Len(fields')
    BY <1>1, <1>2
  <2>. QED
    BY <1>1, <1>8, <2>1, <2>3, <2>4 DEF Follows
<1>9. CASE g # 0 /\ tp = 16
  <2>1. ~Address(t)
    <3>1. Address(t) <=> Filled(t, g, n) < 16
      BY <1>1, <1>2, <1>9, FinalAddress
    <3>. QED
      BY <1>3, <1>9, <3>1
  <2>. QED
    BY <1>1, <1>6, <1>7, <1>9, <2>1, NowRejected DEF GapWithoutRoom
<1>10. CASE g # 0 /\ tp # 16
  <2>1. phase' = "shift"
    BY <1>6, <1>7, <1>10 DEF GapWithoutRoom
  <2>2. Filled(t, g, n) < 16
    <3>1. tp \in 0..16
      BY DEF IInv, TypeOK
    <3>. QED
      BY <1>3, <1>10, <3>1
  <2>3. Shifted(tmp, t, g, n, 0)
    BY <1>3, <1>5 DEF InOrder, Shifted
  <2>4. 0 \in 0..(Filled(t, g, n) - FrontOf(t, g)) /\ i' - 1 = 0
    BY <1>1, <1>3, <1>5, <1>10
  <2>5. (/\ Complete(fields, g, n) /\ Moved(fields, g, n, i - 1)
         /\ tp = Filled(fields, g, n) /\ colonp = FrontOf(fields, g))'
    BY <1>1, <1>2, <1>3, <1>10, <2>2, <2>3, <2>4 DEF Moved
  <2>6. /\ fields' \in Seq(Seq(Symbols)) /\ Len(fields') > 0
        /\ n \in 0..Len(fields') /\ g \in 0..Len(fields')
    BY <1>1, <1>2
  <2>. QED
    BY <1>1, <1>10, <2>1, <2>5, <2>6 DEF Follows
<1>. QED
  BY <1>8, <1>9, <1>10

LEMMA CopyFollows ==
    ASSUME IInv, Follows, Copy
    PROVE  Follows'
<1> DEFINE t == fields
<1>1. /\ t \in Seq(Seq(Symbols)) /\ Len(t) > 0 /\ ahead = "over"
      /\ fields' = t /\ ahead' = "over" /\ phase = "copy"
  BY DEF Follows, Copy, text
<1>2. PICK n \in 0..Len(t), g \in 0..Len(t) :
          /\ Complete(t, g, n)
          /\ IF g = 0 THEN Placed(t, g, n)
             ELSE tp = 16 /\ Moved(t, g, n, Filled(t, g, n) - FrontOf(t, g))
  BY <1>1 DEF Follows
<1> HIDE DEF t
<1>3. Address(t) <=> IF g = 0 THEN Filled(t, g, n) = 16 ELSE Filled(t, g, n) < 16
  BY <1>1, <1>2, FinalAddress
<1>4. /\ g = 0 => InOrder(tmp, t, g, n) /\ tp = Filled(t, g, n)
      /\ g # 0 => /\ tp = 16 /\ Filled(t, g, n) < 16
                  /\ Shifted(tmp, t, g, n, Filled(t, g, n) - FrontOf(t, g))
  BY <1>2 DEF Placed, Moved
<1>5. Address(t) <=> tp = 16
  BY <1>3, <1>4
<1>6. CASE tp = 16
  <2>1. tmp \in [0..15 -> 0..255]
    BY DEF IInv, TypeOK
  <2>2. tmp = Bytes(t)
    BY <1>1, <1>2, <1>4, <1>5, <1>6, <2>1, FinalBytes
  <2>3. phase' = "accepted" /\ dst' = tmp
    BY <1>6 DEF Copy
  <2>. QED
    BY <1>1, <1>5, <1>6, <2>2, <2>3 DEF Follows
<1>7. CASE tp # 16
  <2>1. phase' = "rejected" /\ dst' = dst
    BY <1>7 DEF Copy
  <2>. QED
    BY <1>1, <1>5, <1>7, <2>1, NowRejected
<1>. QED
  BY <1>6, <1>7

LEMMA UnreadFollows ==
    ASSUME IInv, Follows, Unread
    PROVE  Follows'
<1>1. /\ fields \in Seq(Seq(Symbols)) /\ Len(fields) > 0 /\ phase = "rejected"
      /\ phase' = "rejected" /\ dst' = dst /\ 0 \in Symbols
  BY DEF Follows, Unread, Symbols
<1>2. ahead # "over"
  BY DEF Unread, Reads, ReadsLast, Ends
<1>3. Dead(fields)
  BY <1>1, <1>2 DEF Follows
<1>4. CASE \E h \in Hex : Reads(Quad!Extended(fields, h), Weight[h])
  <2>1. PICK h \in Hex : fields' = Quad!Extended(fields, h)
    BY <1>4 DEF Reads
  <2>2. h \in Symbols
    BY HexAssumption DEF Symbols
  <2>3. fields' \in Seq(Seq(Symbols)) /\ Len(fields') > 0
    BY <1>1, <2>1, <2>2, Grown
  <2>4. Dead(fields')
    BY <1>1, <1>3, <2>1, <2>2, DeadStays
  <2>. QED
    BY <1>1, <2>3, <2>4, NowRejected
<1>5. CASE Reads(Quad!Dotted(fields), 1)
  <2>1. fields' = Quad!Dotted(fields)
    BY <1>5 DEF Reads
  <2>2. fields' \in Seq(Seq(Symbols)) /\ Len(fields') > 0
    BY <1>1, <2>1, Grown
  <2>3. Dead(fields')
    BY <1>1, <1>3, <2>1, DeadStays
  <2>. QED
    BY <1>1, <2>2, <2>3, NowRejected
<1>6. CASE \E rest \in Tails : QuadFollows(rest) /\ ReadsLast(WithQuad(FirstOctet, rest))
  <2>1. PICK rest \in Tails : QuadFollows(rest) /\ fields' = WithQuad(FirstOctet, rest)
    BY <1>6 DEF ReadsLast
  <2>2. fields' \in Seq(Seq(Symbols)) /\ Len(fields') > 0
    BY <1>1, <2>1, QuadAdded
  <2>3. Dead(fields')
    BY <1>1, <1>3, <2>1, DeadStaysWithQuad
  <2>. QED
    BY <1>1, <2>2, <2>3, NowRejected
<1>7. CASE Ends
  <2>1. fields' = fields
    BY <1>7 DEF Ends
  <2>. QED
    BY <1>1, <1>3, <2>1, NowRejected
<1>. QED
  BY <1>4, <1>5, <1>6, <1>7 DEF Unread
(* A byte from the end of those in order moves to the front of those at    *)
(* the end of the buffer.                                                  *)
LEMMA OneMoreMoved ==
    ASSUME NEW t, NEW g, NEW n, NEW b \in [0..15 -> 0..255], NEW m \in Nat,
           Filled(t, g, n) \in Nat, Filled(t, g, n) < 16, m < Filled(t, g, n),
           Shifted(b, t, g, n, m)
    PROVE  LET e == Filled(t, g, n)
               c == [b EXCEPT ![15 - m] = b[(e - 1) - m], ![(e - 1) - m] = 0] IN
           Shifted(c, t, g, n, m + 1)
<1> DEFINE e == Filled(t, g, n)
           y == (e - 1) - m
           x == 15 - m
           c == [b EXCEPT ![x] = b[y], ![y] = 0]
<1>1. e \in 0..15 /\ x \in 0..15 /\ y \in 0..15 /\ y < x /\ y = (e - 1) - m /\ x = 15 - m
  OBVIOUS
<1>2. \A p \in 0..15 : b[p] = IF p < e - m THEN ByteOf(t, g, p)
                              ELSE IF p >= 16 - m THEN ByteOf(t, g, p - 16 + e) ELSE 0
  BY DEF Shifted
<1> HIDE DEF e, x, y
<1>3. \A p \in 0..15 : c[p] = IF p = y THEN 0 ELSE IF p = x THEN b[y] ELSE b[p]
  BY <1>1
<1>4. b[y] = ByteOf(t, g, y) /\ y = x - 16 + e
  BY <1>1, <1>2
<1> HIDE DEF c
<1>5. ASSUME NEW p \in 0..15
      PROVE  c[p] = IF p < e - (m + 1) THEN ByteOf(t, g, p)
                    ELSE IF p >= 16 - (m + 1) THEN ByteOf(t, g, p - 16 + e) ELSE 0
  <2>1. CASE p = y
    BY <1>1, <1>3, <2>1
  <2>2. CASE p = x
    BY <1>1, <1>3, <1>4, <2>2
  <2>3. CASE p # y /\ p # x
    <3>1. c[p] = b[p]
      BY <1>3, <2>3
    <3>. QED
      BY <1>1, <1>2, <2>3, <3>1
  <2>. QED
    BY <2>1, <2>2, <2>3
<1>. QED
  BY <1>5 DEF Shifted, c, e, x, y

LEMMA ShiftFollows ==
    ASSUME IInv, Follows, Shift
    PROVE  Follows'
<1> DEFINE t == fields
<1>1. /\ t \in Seq(Seq(Symbols)) /\ Len(t) > 0 /\ ahead = "over"
      /\ fields' = t /\ ahead' = "over" /\ colonp' = colonp /\ dst' = dst /\ phase = "shift"
  BY DEF Follows, Shift, text
<1>2. PICK n \in 0..Len(t), g \in 0..Len(t) :
          /\ Complete(t, g, n) /\ Moved(t, g, n, i - 1)
          /\ tp = Filled(t, g, n) /\ colonp = FrontOf(t, g)
  BY <1>1 DEF Follows
<1> HIDE DEF t
<1> DEFINE e == Filled(t, g, n)
           d == FrontOf(t, g)
<1>3. /\ Layout(t, g, n) /\ g # 0 /\ Shifted(tmp, t, g, n, i - 1) /\ e < 16
      /\ i - 1 \in 0..(e - d)
  BY <1>2 DEF Moved
<1>4. n \in Nat
  BY <1>1, LenProperties
<1>5. e \in Nat /\ d \in 0..e
  BY <1>3, <1>4, LayoutFacts
<1>6. tmp \in [0..15 -> 0..255] /\ i \in Nat
  BY DEF IInv, TypeOK
<1>7. /\ fields' \in Seq(Seq(Symbols)) /\ Len(fields') > 0
      /\ n \in 0..Len(fields') /\ g \in 0..Len(fields')
  BY <1>1, <1>2
<1> HIDE DEF e, d
<1>8. tp = e /\ colonp = d
  BY <1>2 DEF e, d
<1>9. CASE /\ i <= tp - colonp
           /\ tmp' = [tmp EXCEPT ![NS_IN6ADDRSZ - i] = tmp[colonp + (tp - colonp) - i],
                                 ![colonp + (tp - colonp) - i] = 0]
           /\ i' = i + 1 /\ UNCHANGED <<tp, phase>>
  <2> DEFINE m == i - 1
  <2>1. /\ m \in Nat /\ m < e /\ 16 - i = 15 - m /\ colonp + (tp - colonp) - i = (e - 1) - m
        /\ i' - 1 = m + 1 /\ m + 1 \in 0..(e - d)
    BY <1>3, <1>5, <1>6, <1>8, <1>9
  <2>2. tmp' = [tmp EXCEPT ![15 - m] = tmp[(e - 1) - m], ![(e - 1) - m] = 0]
    <3> HIDE DEF m
    <3>. QED
      BY <1>9, <2>1, Zenon
  <2>3. Shifted(tmp, t, g, n, m)
    BY <1>3
  <2> HIDE DEF m
  <2>4. Shifted(tmp', t, g, n, m + 1)
    BY <1>3, <1>5, <1>6, <2>1, <2>2, <2>3, OneMoreMoved DEF e
  <2>5. (/\ Complete(fields, g, n) /\ Moved(fields, g, n, i - 1)
         /\ tp = Filled(fields, g, n) /\ colonp = FrontOf(fields, g))'
    BY <1>1, <1>2, <1>3, <1>9, <2>1, <2>4 DEF Moved, e, d
  <2>. QED
    BY <1>1, <1>7, <1>9, <2>5 DEF Follows
<1>10. CASE i > tp - colonp /\ tp' = NS_IN6ADDRSZ /\ phase' = "copy" /\ UNCHANGED <<tmp, i>>
  <2>1. i - 1 = e - d
    BY <1>3, <1>5, <1>6, <1>8, <1>10
  <2>2. Shifted(tmp, t, g, n, e - d) /\ e - d \in 0..(e - d)
    BY <1>3, <2>1
  <2>3. (/\ Complete(fields, g, n) /\ tp = 16
         /\ Moved(fields, g, n, Filled(fields, g, n) - FrontOf(fields, g)))'
    BY <1>1, <1>2, <1>3, <1>10, <2>2 DEF Moved, e, d
  <2>. QED
    BY <1>1, <1>3, <1>7, <1>10, <2>3 DEF Follows
<1>. QED
  BY <1>9, <1>10 DEF Shift

LEMMA InitFollows == Init => Follows
<1> SUFFICES ASSUME Init PROVE Follows
  OBVIOUS
<1>1. /\ fields = <<Quad!NoChars>> /\ phase = "first" /\ ahead = "unknown"
      /\ tp = 0 /\ colonp = NULL /\ saw_xdigit = 0 /\ val = 0 /\ i = 1
      /\ \A p \in 0..15 : tmp[p] = 0
      /\ \A k \in DOMAIN dst : dst[k] = Quad!Unset
  BY DEF Init
<1>2. /\ fields \in Seq(Seq(Symbols)) /\ Len(fields) = 1 /\ fields[1] = Quad!NoChars
  BY <1>1, EmptyField
<1>3. Layout(fields, 0, 0)
  BY DEF Layout
<1>4. Filled(fields, 0, 0) = 0
  BY <1>3, NothingStored
<1>5. Placed(fields, 0, 0)
  BY <1>1, <1>3, <1>4 DEF Placed, InOrder
<1>6. Len(fields) - 1 = 0 /\ 0 \in 0..0 /\ val = Word(fields[1])
  BY <1>1, <1>2, EmptyField
<1>7. Looping
  BY <1>1, <1>2, <1>5, <1>6 DEF Looping
<1>. QED
  BY <1>1, <1>2, <1>7 DEF Follows

LEMMA StutterFollows ==
    ASSUME Follows, UNCHANGED vars
    PROVE  Follows'
<1>1. /\ fields' = fields /\ ahead' = ahead
      /\ UNCHANGED <<phase, tmp, tp, colonp, saw_xdigit, val, i, dst>>
  BY DEF vars, text
<1>. QED
  BY <1>1 DEF Follows, Looping, Placed, Moved

-----------------------------------------------------------------------------
(* inet_pton6 accepts exactly the addresses, and then dst holds the bytes  *)
(* they denote: with or without a ::, which stands for at least one group, *)
(* and with the last four bytes as groups or as a dotted quad.  A text     *)
(* that is none leaves dst alone.                                          *)
THEOREM Pton6AcceptsAddresses == Spec => []AcceptsAddresses
<1>1. IInv /\ Follows /\ [Next]_vars => Follows'
  <2> SUFFICES ASSUME IInv, Follows, [Next]_vars PROVE Follows'
    OBVIOUS
  <2>1. CASE OtherChar
    BY <2>1, OtherFollows DEF OtherChar
  <2>. QED
    BY <2>1, HexDigitFollows, GapColonFollows, GroupColonFollows, DotFollows, EndFollows,
       ExpandFollows, ShiftFollows, CopyFollows, UnreadFollows, StutterFollows DEF Next
<1>2. Follows => AcceptsAddresses
  <2> SUFFICES ASSUME Follows, phase = "rejected", ahead = "over", Dead(fields)
               PROVE  ~Address(fields)
    BY DEF Follows, AcceptsAddresses
  <2>. QED
    BY DeadIsNoAddress DEF Follows
<1>. QED
  BY <1>1, <1>2, InitFollows, Pton6Invariant, PTL DEF Spec

-----------------------------------------------------------------------------
(* The dispatcher.  The proofs about inet_pton4 are read with the          *)
(* variables it has here.                                                  *)
P4 == INSTANCE InetPton4Proofs
          WITH fields <- fields4, tmp <- tmp4, tp <- tp4, dst <- dst4

LEMMA SixIsReached == PtonSpec => Spec
<1>1. [PtonNext]_<<af, vars, vars4>> => [Next]_vars
  BY DEF PtonNext, Inet4, Inet6
<1>. QED
  BY <1>1, PTL DEF PtonSpec, PtonInit, Spec

(* P4 has its own copies of InetPton4's definitions: they say the same.    *)
LEMMA FourIsReached == PtonSpec => P4!Spec
<1>1. PtonInit => P4!Init
  BY DEF PtonInit, V4!Init, P4!Init, V4!Quad!Init, P4!Quad!Init, V4!Quad!NoChars,
         P4!Quad!NoChars, V4!Quad!Unset, P4!Quad!Unset
<1>2. V4!Next => P4!Next
  BY DEF V4!Next, P4!Next, V4!Digit, P4!Digit, V4!Dot, P4!Dot, V4!OtherChar, P4!OtherChar,
         V4!End, P4!End, V4!Reject, P4!Reject, V4!TooBig, P4!TooBig, V4!LeadingZero,
         P4!LeadingZero, V4!Full, P4!Full, V4!Quad!Extended, P4!Quad!Extended,
         V4!Quad!Dotted, P4!Quad!Dotted, V4!Quad!Other, P4!Quad!Other,
         V4!Quad!NoChars, P4!Quad!NoChars
<1>3. [PtonNext]_<<af, vars, vars4>> => [P4!Next]_(P4!vars)
  BY <1>2 DEF PtonNext, Inet4, Inet6, vars4, P4!vars
<1>. QED
  BY <1>1, <1>3, PTL DEF PtonSpec, P4!Spec

(* Whatever the family and the text, the index of inet_pton4 stays inside  *)
(* its four bytes ...                                                      *)
THEOREM PtonInFourBytes == PtonSpec => []InFourBytes
<1>1. P4!Spec => []P4!InFourBytes
  BY P4!PointerInBuffer, DigitsAssumption
<1>2. P4!InFourBytes => InFourBytes
  BY DEF InFourBytes, V4!InFourBytes, P4!InFourBytes, V4!Quad!Char, P4!Quad!Char,
         V4!Quad!Other, P4!Quad!Other, V4!Quad!Unset, P4!Quad!Unset
<1>. QED
  BY <1>1, <1>2, FourIsReached, PTL

(* ... and the indices of inet_pton6 inside its sixteen.                   *)
THEOREM PtonInSixteenBytes == PtonSpec => []TypeOK
BY SixIsReached, Pton6InBuffer, PTL

(* For AF_INET inet_pton accepts exactly the dotted addresses, gives up at *)
(* the first character that rules one out and stores the bytes denoted.    *)
THEOREM PtonImplementsQuad == PtonSpec => ImplementsQuad
<1>1. P4!Spec => P4!ImplementsQuad
  BY P4!Pton4ImplementsQuad, DigitsAssumption
<1>2. PtonInit => V4!Quad!Init
  BY DEF PtonInit, V4!Init
<1>3. [P4!Quad!Next]_(P4!Quad!vars) => [V4!Quad!Next]_(V4!Quad!vars)
  BY DEF P4!Quad!Next, V4!Quad!Next, P4!Quad!vars, V4!Quad!vars, P4!Quad!Read, V4!Quad!Read,
         P4!Quad!End, V4!Quad!End, P4!Quad!Beginning, V4!Quad!Beginning, P4!Quad!Address,
         V4!Quad!Address, P4!Quad!Octet, V4!Quad!Octet, P4!Quad!LastField, V4!Quad!LastField,
         P4!Quad!Value, V4!Quad!Value, P4!Quad!Place, V4!Quad!Place, V4!Quad!Extended,
         P4!Quad!Extended, V4!Quad!Dotted, P4!Quad!Dotted, V4!Quad!Other, P4!Quad!Other,
         V4!Quad!NoChars, P4!Quad!NoChars, V4!Quad!Char, P4!Quad!Char
<1>. QED
  BY <1>1, <1>2, <1>3, FourIsReached, PTL
     DEF PtonSpec, P4!ImplementsQuad, P4!Quad!Spec, ImplementsQuad, V4!ImplementsQuad, V4!Quad!Spec

(* For AF_INET6 it accepts exactly the addresses of that grammar, and dst  *)
(* is untouched after a rejection.                                         *)
THEOREM PtonAcceptsAddresses == PtonSpec => []AcceptsAddresses
BY SixIsReached, Pton6AcceptsAddresses, PTL
=============================================================================
