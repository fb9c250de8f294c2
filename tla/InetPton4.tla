------------------------------ MODULE InetPton4 ------------------------------
(***************************************************************************)
(* inet_pton4, the parser for dotted addresses that the MinGW build uses.  *)
(*                                                                         *)
(* The loop looks at each character once and never ahead, so the text is   *)
(* not fixed beforehand: an action reads one character, any that a text    *)
(* could have there, and End reads the terminating NUL.  fields, the text  *)
(* so far, is history.                                                     *)
(***************************************************************************)
EXTENDS Sequences, DecimalDigits

VARIABLES
    fields,         \* history: the text read so far, split at its dots
    tmp,            \* the four bytes, uninitialised but for the first
    tp,             \* index of the byte tp points to
    saw_digit,      \* 1 when the current field has a digit
    octets,         \* how many fields have begun
    verdict,        \* "reading" until the return, then what is returned
    dst             \* the caller's buffer

vars == <<fields, tmp, tp, saw_digit, octets, verdict, dst>>

Quad == INSTANCE DottedQuad

Init ==
    /\ Quad!Init
    /\ tmp = [i \in 0..3 |-> IF i = 0 THEN 0 ELSE Quad!Unset]
    /\ tp = 0 /\ saw_digit = 0 /\ octets = 0

(* return 0                                                                *)
Reject ==
    verdict' = "rejected" /\ UNCHANGED <<tmp, tp, saw_digit, octets, dst>>

(* Mutation: the byte's limit off by one.                                  *)
TooBigOffByOne(n) == n > 256

TooBig(n) == n > 255

(* Mutation: leading zeros allowed.                                         *)
LeadingZeroAllowed == FALSE

LeadingZero == saw_digit = 1 /\ tmp[tp] = 0

(* A digit: leading zeros and values beyond a byte return 0.  The third    *)
(* test, ++octets > 4, comes after the byte is written.                    *)
Digit(d) ==
    LET n == tmp[tp] * 10 + d IN
    /\ verdict = "reading"
    /\ fields' = Quad!Extended(fields, d)
    /\ \/ /\ LeadingZero \/ TooBig(n)
          /\ Reject
       \/ /\ ~LeadingZero /\ ~TooBig(n)
          /\ tmp' = [tmp EXCEPT ![tp] = n]
          /\ octets' = octets + 1 - saw_digit
          /\ verdict' = IF octets' > 4 THEN "rejected" ELSE verdict
          /\ saw_digit' = 1
          /\ UNCHANGED <<tp, dst>>

(* Mutation: no limit on the dots.                                         *)
FullNever == FALSE

(* octets == 4 at a dot: four fields are there already.                    *)
Full == octets = 4

(* A dot starts the next byte, if the field before it has a digit.         *)
Dot ==
    /\ verdict = "reading"
    /\ fields' = Quad!Dotted(fields)
    /\ \/ (saw_digit = 0 \/ Full) /\ Reject
       \/ /\ saw_digit = 1 /\ ~Full
          /\ tmp' = [tmp EXCEPT ![tp + 1] = 0]
          /\ tp' = tp + 1
          /\ saw_digit' = 0
          /\ UNCHANGED <<octets, verdict, dst>>

OtherChar ==
    /\ verdict = "reading"
    /\ fields' = Quad!Extended(fields, Quad!Other)
    /\ Reject

(* The terminating NUL: fewer than four octets return 0, otherwise the     *)
(* bytes are copied out.                                                   *)
End ==
    /\ verdict = "reading"
    /\ \/ octets < 4 /\ Reject
       \/ /\ octets >= 4
          /\ verdict' = "accepted"
          /\ dst' = tmp
          /\ UNCHANGED <<tmp, tp, saw_digit, octets>>
    /\ UNCHANGED fields

Next ==
    \/ \E d \in Digits : Digit(d)
    \/ Dot
    \/ OtherChar
    \/ End

Spec == Init /\ [][Next]_vars

-----------------------------------------------------------------------------
(* The values the variables range over: tp stays inside tmp however many   *)
(* dots come, and octets never reaches the five that its test in the digit *)
(* branch is there for.                                                    *)
InFourBytes ==
    /\ fields \in Seq(Seq(Quad!Char))
    /\ tmp \in [0..3 -> 0..255 \cup {Quad!Unset}]
    /\ tp \in 0..3
    /\ saw_digit \in 0..1
    /\ octets \in 0..4
    /\ verdict \in {"reading", "accepted", "rejected"}
    /\ dst \in [0..3 -> 0..255 \cup {Quad!Unset}]

(* inet_pton4 accepts the addresses of the grammar and nothing else, stops *)
(* at the first character that rules one out, and stores the bytes that    *)
(* the fields denote, none of them left unwritten.                         *)
ImplementsQuad == Quad!Spec
=============================================================================
