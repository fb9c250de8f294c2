--------------------------- MODULE InetPton4Proofs ---------------------------
(***************************************************************************)
(* inet_pton4 stays inside its buffer and implements DottedQuad, for every *)
(* text: whatever digits occur and however long the text is.               *)
(***************************************************************************)
EXTENDS InetPton4, SequenceTheorems, TLAPS

(* What the pointer, the counters and the bytes say of the text read so    *)
(* far, while the loop runs: it is the beginning of an address, octets     *)
(* counts its fields but an empty last one, and each byte up to tp is the  *)
(* number its field denotes.                                               *)
Follows ==
    verdict = "reading" =>
        /\ Quad!Beginning(fields)
        /\ tp = Len(fields) - 1
        /\ octets = tp + saw_digit
        /\ saw_digit = (IF Len(Quad!LastField(fields)) = 0 THEN 0 ELSE 1)
        /\ \A i \in 0..tp : tmp[i] = Quad!Value(fields[i + 1])
        /\ dst = [i \in 0..3 |-> Quad!Unset]

IInv == InFourBytes /\ Follows

-----------------------------------------------------------------------------
LEMMA EmptyField == Quad!NoChars \in Seq(Quad!Char) /\ Len(Quad!NoChars) = 0
BY DEF Quad!NoChars

LEMMA EmptyValue == Quad!Value(Quad!NoChars) = 0
BY EmptyField DEF Quad!Value, Quad!Place

(* What a digit at its end does to the digits of a field.                  *)
LEMMA Shifts ==
    ASSUME NEW f \in Seq(Quad!Char), Len(f) = 0 \/ Quad!Octet(f), NEW d \in Digits
    PROVE  LET g == Append(f, d) IN
           /\ Quad!Place(g, 0) = d
           /\ Quad!Place(g, 1) = Quad!Place(f, 0)
           /\ Quad!Place(g, 2) = Quad!Place(f, 1)
           /\ Quad!Place(f, 0) \in 0..9 /\ Quad!Place(f, 1) \in 0..9 /\ Quad!Place(f, 2) \in 0..9
           /\ Len(f) \in 0..3 /\ Len(g) = Len(f) + 1
           /\ Len(f) = 0 => Quad!Place(f, 0) = 0 /\ Quad!Place(f, 1) = 0 /\ g[1] = d
           /\ Len(f) = 1 => g[1] = Quad!Place(f, 0) /\ Quad!Place(f, 1) = 0
           /\ Len(f) = 2 => g[1] = Quad!Place(f, 1) /\ Quad!Place(f, 1) # 0
           /\ Len(f) = 3 => Quad!Place(f, 2) # 0
           /\ Len(f) < 3 => Quad!Place(f, 2) = 0
           /\ \A i \in 1..Len(g) : g[i] \in Digits
<1> DEFINE g == Append(f, d)
<1>1. Digits \subseteq 0..9 /\ d \in 0..9 /\ d \in Quad!Char
  BY DigitsAssumption DEF Quad!Char
<1>2. /\ Len(g) = Len(f) + 1 /\ Len(f) \in 0..3
      /\ g[Len(f) + 1] = d /\ \A i \in 1..Len(f) : g[i] = f[i]
  BY <1>1, AppendProperties DEF Quad!Octet
<1>3. \A i \in 1..Len(f) : f[i] \in Digits /\ f[i] \in 0..9
  <2>1. CASE Len(f) = 0
    BY <2>1
  <2>2. CASE Quad!Octet(f)
    BY <1>1, <2>2 DEF Quad!Octet
  <2>. QED
    BY <2>1, <2>2
<1>4. /\ Quad!Place(g, 0) = d
      /\ Quad!Place(g, 1) = Quad!Place(f, 0)
      /\ Quad!Place(g, 2) = Quad!Place(f, 1)
  BY <1>2 DEF Quad!Place
<1>5. Quad!Place(f, 0) \in 0..9 /\ Quad!Place(f, 1) \in 0..9 /\ Quad!Place(f, 2) \in 0..9
  BY <1>2, <1>3 DEF Quad!Place
<1>6. Len(f) > 1 => f[1] # 0
  BY DEF Quad!Octet
<1>7. /\ Len(f) = 0 => Quad!Place(f, 0) = 0 /\ Quad!Place(f, 1) = 0 /\ g[1] = d
      /\ Len(f) = 1 => g[1] = Quad!Place(f, 0) /\ Quad!Place(f, 1) = 0
      /\ Len(f) = 2 => g[1] = Quad!Place(f, 1) /\ Quad!Place(f, 1) # 0
      /\ Len(f) = 3 => Quad!Place(f, 2) # 0
      /\ Len(f) < 3 => Quad!Place(f, 2) = 0
  <2>1. CASE Len(f) = 0
    BY <1>2, <2>1 DEF Quad!Place
  <2>2. CASE Len(f) = 1
    BY <1>2, <2>2 DEF Quad!Place
  <2>3. CASE Len(f) = 2
    BY <1>2, <1>6, <2>3 DEF Quad!Place
  <2>4. CASE Len(f) = 3
    BY <1>2, <1>6, <2>4 DEF Quad!Place
  <2>. QED
    BY <1>2, <2>1, <2>2, <2>3, <2>4
<1>8. \A i \in 1..Len(g) : g[i] \in Digits
  BY <1>2, <1>3
<1>. QED
  BY <1>2, <1>4, <1>5, <1>7, <1>8

(* A field grows by a digit: what the two tests of the digit branch decide. *)
LEMMA FieldGrows ==
    ASSUME NEW f \in Seq(Quad!Char), Len(f) = 0 \/ Quad!Octet(f), NEW d \in Digits
    PROVE  /\ Quad!Value(f) \in 0..255
           /\ Quad!Octet(Append(f, d)) <=>
                 ~(Len(f) # 0 /\ Quad!Value(f) = 0) /\ Quad!Value(f) * 10 + d <= 255
           /\ Quad!Octet(Append(f, d)) => Quad!Value(Append(f, d)) = Quad!Value(f) * 10 + d
<1> DEFINE g  == Append(f, d)
           g1 == g[1]
           m  == Len(f)
           p0 == Quad!Place(f, 0)
           p1 == Quad!Place(f, 1)
           p2 == Quad!Place(f, 2)
           v  == Quad!Value(f)
           w  == Quad!Value(g)
<1>1. /\ d \in 0..9 /\ p0 \in 0..9 /\ p1 \in 0..9 /\ p2 \in 0..9 /\ m \in 0..3
      /\ m = 0 => p0 = 0 /\ p1 = 0 /\ g1 = d
      /\ m = 1 => g1 = p0 /\ p1 = 0
      /\ m = 2 => g1 = p1 /\ p1 # 0
      /\ m = 3 => p2 # 0
      /\ m < 3 => p2 = 0
  BY Shifts, DigitsAssumption
<1>2. v = 100 * p2 + 10 * p1 + p0 /\ w = 100 * p1 + 10 * p0 + d
  BY Shifts, Zenon DEF Quad!Value
<1>3. m # 0 => v <= 255
  BY DEF Quad!Octet
<1>4. Quad!Octet(g) <=> m < 3 /\ (g1 = 0 => m = 0) /\ w <= 255
  BY Shifts DEF Quad!Octet
<1> HIDE DEF g, g1, m, p0, p1, p2, v, w
<1>5. v \in 0..255
  BY <1>1, <1>2, <1>3
<1>6. m = 3 => v >= 100
  BY <1>1, <1>2
<1>7. m < 3 => w = v * 10 + d /\ (g1 = 0 /\ m # 0 <=> v = 0 /\ m # 0)
  BY <1>1, <1>2
<1>8. Quad!Octet(g) <=> ~(m # 0 /\ v = 0) /\ v * 10 + d <= 255
  BY <1>1, <1>4, <1>5, <1>6, <1>7
<1>9. Quad!Octet(g) => w = v * 10 + d
  BY <1>4, <1>7
<1>. QED
  BY <1>5, <1>8, <1>9, Zenon DEF g, m, v, w

(* The text after a character differs in its last field only.              *)
LEMMA TextGrows ==
    ASSUME NEW t \in Seq(Seq(Quad!Char)), Quad!Beginning(t), NEW c \in Quad!Char
    PROVE  /\ Quad!Extended(t, c) \in Seq(Seq(Quad!Char))
           /\ Len(Quad!Extended(t, c)) = Len(t)
           /\ \A i \in 1..(Len(t) - 1) : Quad!Extended(t, c)[i] = t[i]
           /\ Quad!LastField(Quad!Extended(t, c)) = Append(Quad!LastField(t), c)
           /\ Quad!Beginning(Quad!Extended(t, c)) <=> Quad!Octet(Append(Quad!LastField(t), c))
<1> DEFINE last == Quad!LastField(t)
           u == Quad!Extended(t, c)
<1>1. Len(t) \in 1..4 /\ last \in Seq(Quad!Char)
  <2>1. Len(t) \in 1..4
    BY Zenon DEF Quad!Beginning
  <2>. QED
    BY <2>1, ElementOfSeq DEF Quad!LastField
<1>2. Append(last, c) \in Seq(Quad!Char) /\ Len(Append(last, c)) # 0
  BY <1>1, AppendProperties
<1>3. u = [t EXCEPT ![Len(t)] = Append(last, c)]
  BY DEF Quad!Extended, Quad!LastField
<1>4. /\ u \in Seq(Seq(Quad!Char)) /\ Len(u) = Len(t)
      /\ \A i \in 1..Len(t) : u[i] = IF i = Len(t) THEN Append(last, c) ELSE t[i]
  <2>1. Len(t) \in 1..Len(t)
    BY <1>1
  <2>. QED
    BY <1>2, <1>3, <2>1, ExceptSeq
<1>5. \A i \in 1..(Len(t) - 1) : u[i] = t[i]
  BY <1>1, <1>4
<1>6. Quad!LastField(u) = Append(last, c)
  <2>1. Len(t) \in 1..Len(t)
    BY <1>1
  <2>. QED
    BY <1>4, <2>1, Zenon DEF Quad!LastField
<1>7. Quad!Beginning(u) <=> Quad!Octet(Append(last, c))
  BY <1>1, <1>2, <1>4, <1>5, <1>6 DEF Quad!Beginning
<1>. QED
  BY <1>4, <1>5, <1>6, <1>7

(* The text after a dot.                                                   *)
LEMMA TextDotted ==
    ASSUME NEW t \in Seq(Seq(Quad!Char)), Quad!Beginning(t)
    PROVE  /\ Quad!Dotted(t) \in Seq(Seq(Quad!Char))
           /\ Len(Quad!Dotted(t)) = Len(t) + 1
           /\ \A i \in 1..Len(t) : Quad!Dotted(t)[i] = t[i]
           /\ Quad!LastField(Quad!Dotted(t)) = Quad!NoChars
           /\ Quad!Beginning(Quad!Dotted(t)) <=> Len(t) < 4 /\ Len(Quad!LastField(t)) # 0
<1> DEFINE u == Quad!Dotted(t)
<1>1. Len(t) \in 1..4 /\ Quad!NoChars \in Seq(Quad!Char) /\ Len(Quad!NoChars) = 0
  BY EmptyField DEF Quad!Beginning
<1>2. /\ u \in Seq(Seq(Quad!Char)) /\ Len(u) = Len(t) + 1
      /\ \A i \in 1..Len(t) : u[i] = t[i]
      /\ u[Len(t) + 1] = Quad!NoChars
  BY <1>1, AppendProperties DEF Quad!Dotted
<1>3. Quad!LastField(u) = Quad!NoChars
  BY <1>2 DEF Quad!LastField
<1>4. Quad!LastField(t) = t[Len(t)]
  BY DEF Quad!LastField
<1>5. Quad!Octet(Quad!LastField(t)) <=> Len(Quad!LastField(t)) # 0
  BY DEF Quad!Beginning, Quad!Octet
<1>6. Quad!Beginning(u) <=> Len(t) < 4 /\ Quad!Octet(Quad!LastField(t))
  <2>0. \A i \in 1..(Len(t) - 1) : Quad!Octet(t[i])
    BY Zenon DEF Quad!Beginning
  <2>1. (\A i \in 1..(Len(u) - 1) : Quad!Octet(u[i])) <=> Quad!Octet(Quad!LastField(t))
    BY <1>1, <1>2, <1>4, <2>0
  <2>2. Len(Quad!LastField(u)) = 0 /\ Len(u) - 1 = Len(t)
    BY <1>1, <1>2, <1>3
  <2>3. Quad!Beginning(u) <=> Len(u) \in 1..4 /\ \A i \in 1..(Len(u) - 1) : Quad!Octet(u[i])
    BY <2>2, Zenon DEF Quad!Beginning
  <2>4. Len(u) \in 1..4 <=> Len(t) < 4
    BY <1>1, <1>2
  <2>. QED
    BY <2>1, <2>3, <2>4, Zenon
<1>. QED
  BY <1>2, <1>3, <1>5, <1>6

-----------------------------------------------------------------------------
(* The current byte, while the loop runs.                                  *)
LEMMA CurrentField ==
    ASSUME IInv, verdict = "reading"
    PROVE  LET f == Quad!LastField(fields) IN
           /\ f \in Seq(Quad!Char)
           /\ Len(f) = 0 \/ Quad!Octet(f)
           /\ tmp[tp] = Quad!Value(f)
           /\ saw_digit = 1 <=> Len(f) # 0
           /\ Len(fields) = tp + 1
<1>1. fields \in Seq(Seq(Quad!Char)) /\ Quad!Beginning(fields) /\ Len(fields) = tp + 1 /\ tp \in 0..3
  BY DEF IInv, InFourBytes, Follows
<1>2. Quad!LastField(fields) = fields[tp + 1] /\ Quad!LastField(fields) \in Seq(Quad!Char)
  BY <1>1 DEF Quad!LastField
<1>3. tmp[tp] = Quad!Value(fields[tp + 1])
  <2>1. \A i \in 0..tp : tmp[i] = Quad!Value(fields[i + 1])
    BY DEF IInv, Follows
  <2>2. tp \in 0..tp
    BY <1>1
  <2>. QED
    BY <2>1, <2>2, Zenon
<1>4. saw_digit = 1 <=> Len(Quad!LastField(fields)) # 0
  BY DEF IInv, Follows
<1>. QED
  BY <1>1, <1>2, <1>3, <1>4 DEF Quad!Beginning

LEMMA DigitStep ==
    ASSUME IInv, NEW d \in Digits, Digit(d)
    PROVE  IInv' /\ Quad!Read(Quad!Extended(fields, d))
<1> DEFINE f == Quad!LastField(fields)
           t == Quad!Extended(fields, d)
           n == tmp[tp] * 10 + d
<1>1. verdict = "reading" /\ d \in Quad!Char /\ d \in 0..9
  BY DigitsAssumption DEF Digit, Quad!Char
<1>2. /\ f \in Seq(Quad!Char) /\ (Len(f) = 0 \/ Quad!Octet(f))
      /\ tmp[tp] = Quad!Value(f) /\ (saw_digit = 1 <=> Len(f) # 0) /\ Len(fields) = tp + 1
  BY <1>1, CurrentField
<1>3. /\ n = Quad!Value(f) * 10 + d /\ n \in Nat
      /\ Quad!Octet(Append(f, d)) <=> ~LeadingZero /\ ~TooBig(n)
      /\ Quad!Octet(Append(f, d)) => Quad!Value(Append(f, d)) = n
  <2>1. n = Quad!Value(f) * 10 + d
    BY <1>2, Zenon
  <2>2. n \in Nat
    <3> DEFINE v == Quad!Value(f)
    <3>1. v \in 0..255
      BY <1>2, FieldGrows
    <3> HIDE DEF v
    <3>. QED
      BY <1>1, <2>1, <3>1 DEF v
  <2>3. n > 255 <=> ~(n <= 255)
    BY <2>2
  <2>. QED
    BY <1>2, <2>1, <2>2, <2>3, FieldGrows, Zenon DEF LeadingZero, TooBig
<1>4. /\ t \in Seq(Seq(Quad!Char)) /\ Len(t) = Len(fields)
      /\ \A i \in 1..(Len(fields) - 1) : t[i] = fields[i]
      /\ Quad!LastField(t) = Append(f, d)
      /\ Quad!Beginning(t) <=> Quad!Octet(Append(f, d))
  BY <1>1, TextGrows DEF IInv, InFourBytes, Follows
<1>5. CASE (LeadingZero \/ TooBig(n)) /\ Reject
  BY <1>1, <1>3, <1>4, <1>5 DEF IInv, InFourBytes, Follows, Digit, Reject, Quad!Read
<1>6. CASE ~LeadingZero /\ ~TooBig(n) /\ ~((LeadingZero \/ TooBig(n)) /\ Reject)
  <2>1. n \in 0..255
    BY <1>3, <1>6 DEF TooBig
  <2>2. /\ fields' = t /\ tmp' = [tmp EXCEPT ![tp] = n] /\ tp' = tp /\ saw_digit' = 1
        /\ octets' = octets + 1 - saw_digit /\ dst' = dst
        /\ verdict' = IF octets' > 4 THEN "rejected" ELSE verdict
    BY <1>6 DEF Digit
  <2>3. octets' = tp + 1 /\ tp \in 0..3 /\ saw_digit \in 0..1
    BY <1>1, <2>2 DEF IInv, InFourBytes, Follows
  <2>4. verdict' = "reading"
    BY <1>1, <2>2, <2>3
  <2>5. Quad!Beginning(t) /\ Len(Append(f, d)) # 0 /\ Quad!Value(Append(f, d)) = n
    BY <1>2, <1>3, <1>4, <1>6
  <2>6. InFourBytes'
    <3>1. fields' \in Seq(Seq(Quad!Char))
      BY <1>4, <2>2
    <3>2. tmp' \in [0..3 -> 0..255 \cup {Quad!Unset}]
      BY <2>1, <2>2 DEF IInv, InFourBytes
    <3>3. tp' \in 0..3 /\ saw_digit' \in 0..1 /\ octets' \in 0..4
      BY <2>2, <2>3
    <3>. QED
      BY <2>2, <2>4, <3>1, <3>2, <3>3 DEF IInv, InFourBytes
  <2>7. \A i \in 0..tp : tmp'[i] = Quad!Value(t[i + 1])
    <3> SUFFICES ASSUME NEW i \in 0..tp PROVE tmp'[i] = Quad!Value(t[i + 1])
      OBVIOUS
    <3>1. CASE i = tp
      <4>1. t[i + 1] = Append(f, d)
        BY <1>2, <1>4, <2>3, <3>1, Zenon DEF Quad!LastField
      <4>2. tmp'[i] = n
        BY <2>2, <2>3, <3>1 DEF IInv, InFourBytes
      <4>. QED
        BY <2>5, <4>1, <4>2, Zenon
    <3>2. CASE i # tp
      <4>1. i + 1 \in 1..(Len(fields) - 1) /\ i \in 0..3
        BY <1>2, <2>3, <3>2
      <4>2. t[i + 1] = fields[i + 1]
        BY <1>4, <4>1, Zenon
      <4>3. tmp'[i] = tmp[i]
        BY <2>2, <3>2, <4>1 DEF IInv, InFourBytes
      <4>4. tmp[i] = Quad!Value(fields[i + 1])
        BY <1>1, Zenon DEF IInv, Follows
      <4>. QED
        BY <4>2, <4>3, <4>4, Zenon
    <3>. QED
      BY <3>1, <3>2
  <2>8. Follows'
    BY <1>1, <1>2, <1>4, <2>2, <2>3, <2>5, <2>7 DEF IInv, Follows, Quad!Beginning
  <2>. QED
    BY <1>1, <2>2, <2>4, <2>5, <2>6, <2>8 DEF IInv, Quad!Read
<1>. QED
  BY <1>5, <1>6 DEF Digit

LEMMA DotStep ==
    ASSUME IInv, Dot
    PROVE  IInv' /\ Quad!Read(Quad!Dotted(fields))
<1> DEFINE f == Quad!LastField(fields)
           t == Quad!Dotted(fields)
<1>1. verdict = "reading"
  BY DEF Dot
<1>2. (saw_digit = 1 <=> Len(f) # 0) /\ Len(fields) = tp + 1 /\ tp \in 0..3 /\ saw_digit \in 0..1
  BY <1>1, CurrentField DEF IInv, InFourBytes
<1>3. octets = tp + saw_digit
  BY <1>1 DEF IInv, Follows
<1>4. /\ t \in Seq(Seq(Quad!Char)) /\ Len(t) = Len(fields) + 1
      /\ \A i \in 1..Len(fields) : t[i] = fields[i]
      /\ Quad!LastField(t) = Quad!NoChars
      /\ Quad!Beginning(t) <=> Len(fields) < 4 /\ Len(f) # 0
  BY <1>1, TextDotted DEF IInv, InFourBytes, Follows
<1>5. Quad!Beginning(t) <=> saw_digit = 1 /\ ~Full
  BY <1>2, <1>3, <1>4 DEF Full
<1>6. CASE (saw_digit = 0 \/ Full) /\ Reject
  BY <1>1, <1>2, <1>4, <1>5, <1>6 DEF IInv, InFourBytes, Follows, Dot, Reject, Quad!Read
<1>7. CASE saw_digit = 1 /\ ~Full /\ ~((saw_digit = 0 \/ Full) /\ Reject)
  <2>1. /\ fields' = t /\ tmp' = [tmp EXCEPT ![tp + 1] = 0] /\ tp' = tp + 1
        /\ saw_digit' = 0 /\ octets' = octets /\ verdict' = "reading" /\ dst' = dst
    BY <1>1, <1>7 DEF Dot
  <2>2. tp + 1 \in 0..3 /\ octets = tp + 1
    BY <1>2, <1>3, <1>7 DEF Full
  <2>3. InFourBytes'
    <3>1. tmp' \in [0..3 -> 0..255 \cup {Quad!Unset}]
      BY <2>1, 0 \in 0..255 DEF IInv, InFourBytes
    <3>2. tp' \in 0..3 /\ saw_digit' \in 0..1 /\ octets' \in 0..4
      BY <2>1, <2>2
    <3>. QED
      BY <1>4, <2>1, <3>1, <3>2 DEF IInv, InFourBytes
  <2>4. \A i \in 0..(tp + 1) : tmp'[i] = Quad!Value(t[i + 1])
    <3> SUFFICES ASSUME NEW i \in 0..(tp + 1) PROVE tmp'[i] = Quad!Value(t[i + 1])
      OBVIOUS
    <3>1. CASE i = tp + 1
      <4>1. i + 1 = Len(t)
        BY <1>2, <1>4, <3>1
      <4>2. t[i + 1] = Quad!NoChars
        BY <1>4, <4>1, Zenon DEF Quad!LastField
      <4>3. tmp'[i] = 0
        BY <2>1, <2>2, <3>1 DEF IInv, InFourBytes
      <4>. QED
        BY <4>2, <4>3, EmptyValue
    <3>2. CASE i # tp + 1
      <4>1. i + 1 \in 1..Len(fields) /\ i \in 0..tp /\ i \in 0..3
        BY <1>2, <3>2
      <4>2. t[i + 1] = fields[i + 1]
        BY <1>4, <4>1, Zenon
      <4>3. tmp'[i] = tmp[i]
        BY <2>1, <3>2, <4>1 DEF IInv, InFourBytes
      <4>4. tmp[i] = Quad!Value(fields[i + 1])
        BY <1>1, <4>1, Zenon DEF IInv, Follows
      <4>. QED
        BY <4>2, <4>3, <4>4, Zenon
    <3>. QED
      BY <3>1, <3>2
  <2>5. Follows'
    <3>1. Quad!Beginning(t) /\ Len(Quad!LastField(t)) = 0
      BY <1>4, <1>5, <1>7, EmptyField
    <3>2. tp' = Len(t) - 1 /\ octets' = tp' + saw_digit'
      BY <1>2, <1>4, <2>1, <2>2
    <3>. QED
      BY <1>1, <2>1, <2>4, <3>1, <3>2 DEF IInv, Follows
  <2>. QED
    BY <1>1, <1>5, <1>7, <2>1, <2>3, <2>5 DEF IInv, Quad!Read
<1>. QED
  BY <1>6, <1>7 DEF Dot

LEMMA OtherStep ==
    ASSUME IInv, OtherChar
    PROVE  IInv' /\ Quad!Read(Quad!Extended(fields, Quad!Other))
<1> DEFINE f == Quad!LastField(fields)
           t == Quad!Extended(fields, Quad!Other)
<1>1. verdict = "reading" /\ Quad!Other \in Quad!Char /\ Quad!Other \notin Digits
  BY DigitsAssumption DEF OtherChar, Quad!Char, Quad!Other
<1>2. f \in Seq(Quad!Char)
  BY <1>1, CurrentField
<1>3. ~Quad!Octet(Append(f, Quad!Other))
  <2> DEFINE g == Append(f, Quad!Other)
  <2>1. Len(g) = Len(f) + 1 /\ g[Len(f) + 1] = Quad!Other /\ Len(f) \in Nat
    BY <1>1, <1>2, AppendProperties
  <2>2. Len(g) \in 1..Len(g)
    BY <2>1
  <2>. QED
    BY <1>1, <2>1, <2>2, Zenon DEF Quad!Octet
<1>4. t \in Seq(Seq(Quad!Char)) /\ ~Quad!Beginning(t)
  BY <1>1, <1>3, TextGrows DEF IInv, InFourBytes, Follows
<1>. QED
  BY <1>1, <1>4 DEF IInv, InFourBytes, Follows, OtherChar, Reject, Quad!Read

(* At the end of the text four octets make an address.                     *)
LEMMA EndStep ==
    ASSUME IInv, End
    PROVE  IInv' /\ Quad!End
<1>1. verdict = "reading" /\ fields' = fields
  BY DEF End
<1>2. /\ Len(fields) = tp + 1 /\ tp \in 0..3 /\ saw_digit \in 0..1
      /\ octets = tp + saw_digit /\ Quad!Beginning(fields)
  BY <1>1 DEF IInv, InFourBytes, Follows
<1>3. saw_digit = 1 <=> Quad!Octet(Quad!LastField(fields))
  BY <1>1, CurrentField DEF Quad!Octet
<1>4. Quad!Address(fields) <=> octets >= 4
  <2>1. \A i \in 1..(Len(fields) - 1) : Quad!Octet(fields[i])
    BY <1>2, Zenon DEF Quad!Beginning
  <2>2. Quad!LastField(fields) = fields[tp + 1]
    BY <1>2, Zenon DEF Quad!LastField
  <2>3. octets >= 4 <=> tp = 3 /\ saw_digit = 1
    BY <1>2
  <2>4. Len(fields) = 4 <=> tp = 3
    BY <1>2
  <2>5. tp = 3 => ((\A i \in 1..4 : Quad!Octet(fields[i])) <=> Quad!Octet(fields[4]))
    <3> SUFFICES ASSUME tp = 3, Quad!Octet(fields[4]), NEW i \in 1..4 PROVE Quad!Octet(fields[i])
      OBVIOUS
    <3>1. i = 4 \/ i \in 1..(Len(fields) - 1)
      BY <1>2
    <3>. QED
      BY <2>1, <3>1, Zenon
  <2>6. tp = 3 => tp + 1 = 4
    OBVIOUS
  <2>. QED
    BY <1>3, <2>2, <2>3, <2>4, <2>5, <2>6, Zenon DEF Quad!Address
<1>5. CASE octets < 4 /\ Reject
  <2>1. ~Quad!Address(fields)
    BY <1>2, <1>4, <1>5
  <2>. QED
    BY <1>1, <1>5, <2>1 DEF IInv, InFourBytes, Follows, End, Reject, Quad!End
<1>6. CASE octets >= 4 /\ verdict' = "accepted" /\ dst' = tmp /\ UNCHANGED <<tmp, tp, saw_digit, octets>>
  <2>1. tmp = [i \in 0..3 |-> Quad!Value(fields[i + 1])]
    <3>1. tp = 3
      BY <1>2, <1>6
    <3>2. \A i \in 0..3 : tmp[i] = Quad!Value(fields[i + 1])
      BY <1>1, <3>1, Zenon DEF IInv, Follows
    <3>. QED
      BY <3>2, Zenon DEF IInv, InFourBytes
  <2>. QED
    BY <1>1, <1>4, <1>6, <2>1, Zenon DEF IInv, InFourBytes, Follows, Quad!End
<1>. QED
  BY <1>5, <1>6 DEF End

-----------------------------------------------------------------------------
LEMMA Start == Init => IInv /\ Quad!Init
<1> SUFFICES ASSUME Init PROVE IInv /\ Quad!Init
  OBVIOUS
<1>1. /\ fields = <<Quad!NoChars>> /\ verdict = "reading" /\ dst = [i \in 0..3 |-> Quad!Unset]
      /\ tmp = [i \in 0..3 |-> IF i = 0 THEN 0 ELSE Quad!Unset]
      /\ tp = 0 /\ saw_digit = 0 /\ octets = 0
  BY DEF Init, Quad!Init
<1>2. fields \in Seq(Seq(Quad!Char)) /\ Len(fields) = 1 /\ fields[1] = Quad!NoChars
  BY <1>1, EmptyField
<1>3. Quad!LastField(fields) = Quad!NoChars
  BY <1>2, Zenon DEF Quad!LastField
<1>4. Quad!Beginning(fields)
  BY <1>2, <1>3, EmptyField DEF Quad!Beginning
<1>5. \A i \in 0..tp : tmp[i] = Quad!Value(fields[i + 1])
  <2>1. tmp[0] = 0 /\ Quad!Value(fields[0 + 1]) = 0
    BY <1>1, <1>2, EmptyValue
  <2>. QED
    BY <1>1, <2>1
<1>6. InFourBytes
  BY <1>1, <1>2 DEF InFourBytes
<1>7. Follows
  BY <1>1, <1>2, <1>3, <1>4, <1>5, EmptyField DEF Follows
<1>. QED
  BY <1>6, <1>7 DEF IInv, Init

LEMMA Step ==
    IInv /\ [Next]_vars => IInv' /\ [Quad!Next]_(Quad!vars)
<1> SUFFICES ASSUME IInv, [Next]_vars PROVE IInv' /\ [Quad!Next]_(Quad!vars)
  OBVIOUS
<1>1. ASSUME NEW d \in Digits, Digit(d) PROVE IInv' /\ Quad!Next
  BY <1>1, DigitStep DEF Quad!Next, Quad!Char
<1>2. CASE Dot
  BY <1>2, DotStep DEF Quad!Next
<1>3. CASE OtherChar
  BY <1>3, OtherStep DEF Quad!Next, Quad!Char
<1>4. CASE End
  BY <1>4, EndStep DEF Quad!Next
<1>5. CASE UNCHANGED vars
  BY <1>5 DEF vars, Quad!vars, IInv, InFourBytes, Follows
<1>. QED
  BY <1>1, <1>2, <1>3, <1>4, <1>5 DEF Next

(* tp never leaves tmp and octets never reaches five, whatever the text.   *)
THEOREM PointerInBuffer == Spec => []InFourBytes
<1>1. IInv => InFourBytes
  BY DEF IInv
<1>. QED
  BY <1>1, Start, Step, PTL DEF Spec

(* inet_pton4 accepts exactly the addresses of the grammar, gives up at    *)
(* the first character that rules one out, and stores the bytes the fields *)
(* denote: none uninitialised.                                             *)
THEOREM Pton4ImplementsQuad == Spec => ImplementsQuad
BY Start, Step, PTL DEF Spec, ImplementsQuad, Quad!Spec
=============================================================================
