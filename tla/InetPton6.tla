------------------------------ MODULE InetPton6 ------------------------------
(***************************************************************************)
(* inet_pton6, the parser for IPv6 addresses that the MinGW build uses.    *)
(*                                                                         *)
(* As in InetPton4 the text is chosen character by character as it is      *)
(* read.  Where the code looks one character ahead, ahead remembers what   *)
(* it saw.  What follows a character that made the parser return is chosen *)
(* too (Unread), so that every return can be held against the whole text   *)
(* the caller passed.                                                      *)
(***************************************************************************)
EXTENDS Integers, Sequences

CONSTANTS
    Hex,            \* the hexadecimal digits that occur in texts
    Tails,          \* what follows the first dot: the last three bytes
    MaxText,        \* bound: characters of a text, not counting such a tail,
    Weight          \* a digit h counts as Weight[h] characters

ASSUME HexAssumption ==
    /\ Hex \subseteq 0..15 /\ Tails \subseteq [1..3 -> 0..255]
    /\ MaxText \in Nat /\ Weight \in [Hex -> Nat \ {0}]

VARIABLES
    fields,         \* history: the text so far, split at its colons; a
                    \* dotted tail stands there as the two groups it denotes
    left,           \* how many characters the text may still have
    ahead,          \* what is known of the next character: "unknown", that
                    \* it is not the NUL ("more"), or that it is ("over")
    phase,          \* where the parser is
    tmp,            \* the sixteen bytes
    tp, colonp,     \* indices of the next byte and of the place of the ::
    saw_xdigit, val,  \* the current group: has it digits, their number
    i,              \* the shift loop's variable
    dst             \* the caller's buffer

text == <<fields, left, ahead>>
vars == <<text, phase, tmp, tp, colonp, saw_xdigit, val, i, dst>>

(* DottedQuad gives fields their operations and the dotted tail its form.  *)
Quad == INSTANCE DottedQuad WITH Digits <- 0..9, verdict <- phase

NS_IN6ADDRSZ == 16
NULL == -1          \* colonp before a :: is seen

Loop   == {"first", "second", "loop"}    \* the loop over the characters
Phases == Loop \cup {"expand", "shift", "copy", "accepted", "rejected"}

Init ==
    /\ fields = <<Quad!NoChars>> /\ left = MaxText /\ ahead = "unknown"
    /\ phase = "first"
    /\ tmp = [k \in 0..(NS_IN6ADDRSZ - 1) |-> 0]
    /\ tp = 0 /\ colonp = NULL /\ saw_xdigit = 0 /\ val = 0 /\ i = 1
    /\ dst = [k \in 0..(NS_IN6ADDRSZ - 1) |-> Quad!Unset]

-----------------------------------------------------------------------------
(* The text.                                                               *)

Reads(t, w) ==
    /\ left >= w /\ ahead # "over"
    /\ fields' = t /\ left' = left - w
    /\ ahead' = "unknown"

(* With what it reads the text is over, or nothing after it matters.       *)
ReadsLast(t) == ahead # "over" /\ fields' = t /\ ahead' = "over" /\ UNCHANGED left

Ends == ahead = "unknown" /\ ahead' = "over" /\ UNCHANGED <<fields, left>>

(* The fields with the dotted quad that begins in the last of them written *)
(* as two groups of four digits.                                           *)
Nibbles(a, b) == <<a \div 16, a % 16, b \div 16, b % 16>>
WithQuad(a, rest) ==
    Append([fields EXCEPT ![Len(fields)] = Nibbles(a, rest[1])], Nibbles(rest[2], rest[3]))

QuadFollows(rest) == Quad!Octet(Quad!LastField(fields)) /\ rest \in Tails
FirstOctet == Quad!Value(Quad!LastField(fields))

-----------------------------------------------------------------------------
(* The parser.                                                             *)

Return0 == phase' = "rejected" /\ UNCHANGED <<tmp, tp, colonp, saw_xdigit, val, i, dst>>

(* Mutation: a pair of bytes is stored unchecked.                          *)
PairUnchecked == FALSE

(* tp + NS_INT16SZ > endp                                                  *)
NoPair == tp + 2 > NS_IN6ADDRSZ

PushVal ==
    /\ tmp' = [tmp EXCEPT ![tp] = val \div 256, ![tp + 1] = val % 256]
    /\ tp' = tp + 2

(* Mutation: the digits of a group are not limited, and its number wraps.  *)
AccumulateWraps(h) == (val * 16 + h) % 65536

Accumulate(h) == val * 16 + h

(* After a leading colon only a second one will do.                        *)
HexDigit(h) ==
    /\ phase \in Loop
    /\ Reads(Quad!Extended(fields, h), Weight[h])
    /\ \/ (phase = "second" \/ Accumulate(h) > 65535) /\ Return0
       \/ /\ phase # "second" /\ Accumulate(h) <= 65535
          /\ phase' = "loop"
          /\ val' = Accumulate(h)
          /\ saw_xdigit' = 1
          /\ UNCHANGED <<tmp, tp, colonp, i, dst>>

(* The first character, or a colon after a colon: a gap, of which there    *)
(* may be one.                                                             *)
GapColon ==
    /\ phase \in Loop /\ saw_xdigit = 0
    /\ Reads(Quad!Dotted(fields), 1)
    /\ \/ /\ phase = "first"
          /\ phase' = "second"
          /\ UNCHANGED colonp
       \/ /\ phase # "first" /\ colonp = NULL
          /\ phase' = "loop"
          /\ colonp' = tp
       \/ /\ phase # "first" /\ colonp # NULL
          /\ phase' = "rejected"
          /\ UNCHANGED colonp
    /\ UNCHANGED <<tmp, tp, saw_xdigit, val, i, dst>>

(* A colon after a group, with a look at the character behind it.          *)
GroupColon ==
    /\ phase \in Loop /\ saw_xdigit = 1
    /\ left > 0 /\ fields' = Quad!Dotted(fields) /\ left' = left - 1
    /\ \/ ahead' = "over" /\ Return0
       \/ /\ left > 1 /\ ahead' = "more"
          /\ \/ NoPair /\ Return0
             \/ /\ ~NoPair /\ PushVal
                /\ saw_xdigit' = 0 /\ val' = 0
                /\ UNCHANGED <<phase, colonp, i, dst>>

(* A dot: inet_pton4 reads the current field again, to the end of the text. *)
Dot ==
    /\ phase \in Loop
    /\ \/ \E rest \in Tails :
            /\ QuadFollows(rest)
            /\ ReadsLast(WithQuad(FirstOctet, rest))
            /\ \/ tp + 4 > NS_IN6ADDRSZ /\ Return0
               \/ /\ tp + 4 <= NS_IN6ADDRSZ
                  /\ tmp' = [tmp EXCEPT ![tp] = FirstOctet, ![tp + 1] = rest[1],
                                        ![tp + 2] = rest[2], ![tp + 3] = rest[3]]
                  /\ tp' = tp + 4
                  /\ saw_xdigit' = 0
                  /\ phase' = "expand"
                  /\ UNCHANGED <<colonp, val, i, dst>>
       \/ ReadsLast(Quad!Extended(fields, Quad!Other)) /\ Return0

OtherChar ==
    /\ phase \in Loop
    /\ ReadsLast(Quad!Extended(fields, Quad!Other))
    /\ Return0

(* The NUL: the last group is stored.                                      *)
End ==
    /\ phase \in Loop
    /\ Ends
    /\ \/ (phase = "second" \/ (saw_xdigit = 1 /\ NoPair)) /\ Return0
       \/ /\ phase # "second" /\ ~(saw_xdigit = 1 /\ NoPair)
          /\ \/ saw_xdigit = 1 /\ PushVal
             \/ saw_xdigit = 0 /\ UNCHANGED <<tmp, tp>>
          /\ phase' = "expand"
          /\ UNCHANGED <<colonp, saw_xdigit, val, i, dst>>

(* Mutation: a :: that stands for nothing is let through.                  *)
GapAlwaysRoom == FALSE

GapWithoutRoom == tp = NS_IN6ADDRSZ

Expand ==
    /\ phase = "expand"
    /\ phase' = IF colonp = NULL THEN "copy" ELSE IF GapWithoutRoom THEN "rejected" ELSE "shift"
    /\ UNCHANGED <<text, tmp, tp, colonp, saw_xdigit, val, i, dst>>

(* One turn of the loop that moves the bytes after the :: to the end, and  *)
(* its exit.                                                               *)
Shift ==
    LET n == tp - colonp IN
    /\ phase = "shift"
    /\ \/ /\ i <= n
          /\ tmp' = [tmp EXCEPT ![NS_IN6ADDRSZ - i] = tmp[colonp + n - i], ![colonp + n - i] = 0]
          /\ i' = i + 1
          /\ UNCHANGED <<tp, phase>>
       \/ /\ i > n
          /\ tp' = NS_IN6ADDRSZ
          /\ phase' = "copy"
          /\ UNCHANGED <<tmp, i>>
    /\ UNCHANGED <<text, colonp, saw_xdigit, val, dst>>

Copy ==
    /\ phase = "copy"
    /\ phase' = IF tp = NS_IN6ADDRSZ THEN "accepted" ELSE "rejected"
    /\ dst' = IF tp = NS_IN6ADDRSZ THEN tmp ELSE dst
    /\ UNCHANGED <<text, tmp, tp, colonp, saw_xdigit, val, i>>

(* The rest of a text that the parser has given up.                        *)
Unread ==
    /\ phase = "rejected"
    /\ \/ \E h \in Hex : Reads(Quad!Extended(fields, h), Weight[h])
       \/ Reads(Quad!Dotted(fields), 1)
       \/ \E rest \in Tails : QuadFollows(rest) /\ ReadsLast(WithQuad(FirstOctet, rest))
       \/ Ends
    /\ UNCHANGED <<phase, tmp, tp, colonp, saw_xdigit, val, i, dst>>

Next ==
    \/ \E h \in Hex : HexDigit(h)
    \/ GapColon \/ GroupColon \/ Dot \/ OtherChar \/ End
    \/ Expand \/ Shift \/ Copy
    \/ Unread

Spec == Init /\ [][Next]_vars

-----------------------------------------------------------------------------
(* The text form of an address, and the bytes it denotes.                  *)

(* A group is a number of sixteen bits; leading zeros do not count.        *)
Group(f) ==
    Len(f) > 0 /\ \A k \in 1..Len(f) : f[k] \in 0..15 /\ (k <= Len(f) - 4 => f[k] = 0)

Word(f) ==
    4096 * Quad!Place(f, 3) + 256 * Quad!Place(f, 2) + 16 * Quad!Place(f, 1) + Quad!Place(f, 0)

Groups(t) == \A k \in 1..Len(t) : Group(t[k])

(* What stands on one side of the ::, which may be nothing.                *)
Bare(t)  == t = <<Quad!NoChars>>
Words(t) == IF Bare(t) THEN <<>> ELSE [k \in 1..Len(t) |-> Word(t[k])]
Side(t)  == Bare(t) \/ (Len(t) > 0 /\ Groups(t))

Before(t, g) == SubSeq(t, 1, g - 1)
After(t, g)  == SubSeq(t, g + 1, Len(t))

(* The :: stands for at least one group of zeros.                          *)
Gap(t, g) ==
    /\ t[g] = Quad!NoChars
    /\ Side(Before(t, g)) /\ Side(After(t, g))
    /\ Len(Words(Before(t, g))) + Len(Words(After(t, g))) < 8

Whole(t)   == Len(t) = 8 /\ Groups(t)
Address(t) == Whole(t) \/ \E g \in 1..Len(t) : Gap(t, g)

Zeros(n) == [k \in 1..n |-> 0]

AddressWords(t) ==
    IF Whole(t) THEN Words(t)
    ELSE LET g == CHOOSE g \in 1..Len(t) : Gap(t, g)
             b == Words(Before(t, g))
             a == Words(After(t, g))
         IN  b \o Zeros(8 - Len(a) - Len(b)) \o a

(* The first and the second byte of a word.                                *)
Half(w, p) == IF p % 2 = 0 THEN w \div 256 ELSE w % 256
Bytes(t)   == [p \in 0..15 |-> Half(AddressWords(t)[p \div 2 + 1], p)]

-----------------------------------------------------------------------------
(* tp and colonp never pass the end of tmp, in the loop and in the shift,  *)
(* and a group's number fits its two bytes.                                *)
TypeOK ==
    /\ left \in 0..MaxText /\ ahead \in {"unknown", "more", "over"}
    /\ phase \in Phases
    /\ tmp \in [0..(NS_IN6ADDRSZ - 1) -> 0..255]
    /\ tp \in 0..NS_IN6ADDRSZ
    /\ colonp \in {NULL} \cup 0..tp
    /\ saw_xdigit \in 0..1
    /\ val \in Nat /\ val <= 65535
    /\ i \in 1..(NS_IN6ADDRSZ + 1)
    /\ dst \in [0..(NS_IN6ADDRSZ - 1) -> 0..255 \cup {Quad!Unset}]

(* inet_pton6 accepts a text exactly when it is an address, and then has   *)
(* stored the bytes the address denotes; otherwise it leaves dst alone.    *)
AcceptsAddresses ==
    /\ phase = "accepted" => Address(fields) /\ dst = Bytes(fields)
    /\ phase = "rejected" => \A k \in DOMAIN dst : dst[k] = Quad!Unset
    /\ phase = "rejected" /\ ahead = "over" => ~Address(fields)
=============================================================================
