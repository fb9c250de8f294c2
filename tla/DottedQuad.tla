------------------------------ MODULE DottedQuad ------------------------------
(***************************************************************************)
(* What inet_pton promises for AF_INET: a text that is an Internet address *)
(* in dotted form gives 1 and its four bytes, every other text gives 0 and *)
(* leaves dst alone.  The text comes one character at a time; a reader may *)
(* give up no earlier, and does so no later, than at the first character   *)
(* with which the text stops being the beginning of an address.            *)
(***************************************************************************)
EXTENDS Integers, Sequences

CONSTANT Digits     \* the digits that occur in texts

Other == -1         \* any character that is neither a digit nor a dot
Char  == Digits \cup {Other}
Unset == -1         \* a byte that was never written

NoChars == <<>>     \* a field before its first character

VARIABLES
    fields,         \* the text read so far, split at its dots
    verdict,        \* "reading" until the return, then what is returned
    dst             \* the caller's buffer

vars == <<fields, verdict, dst>>

(* The number a field of at most three digits denotes.                     *)
Place(f, k) == IF k < Len(f) THEN f[Len(f) - k] ELSE 0
Value(f)    == 100 * Place(f, 2) + 10 * Place(f, 1) + Place(f, 0)

(* A byte is written in decimal without leading zeros.                     *)
Octet(f) ==
    /\ Len(f) \in 1..3
    /\ \A i \in 1..Len(f) : f[i] \in Digits
    /\ f[1] = 0 => Len(f) = 1
    /\ Value(f) <= 255

Address(t) ==
    Len(t) = 4 /\ \A i \in 1..4 : Octet(t[i])

(* Texts with which an address can begin.                                  *)
LastField(t) == t[Len(t)]

Beginning(t) ==
    /\ Len(t) \in 1..4
    /\ \A i \in 1..(Len(t) - 1) : Octet(t[i])
    /\ Len(LastField(t)) = 0 \/ Octet(LastField(t))

(* The text after one more character, or one more dot.                     *)
Extended(t, c) == [t EXCEPT ![Len(t)] = Append(@, c)]
Dotted(t)      == Append(t, NoChars)

Init ==
    /\ fields = <<NoChars>>
    /\ verdict = "reading"
    /\ dst = [i \in 0..3 |-> Unset]

Read(t) ==
    /\ verdict = "reading"
    /\ fields' = t
    /\ verdict' = IF Beginning(t) THEN "reading" ELSE "rejected"
    /\ UNCHANGED dst

End ==
    /\ verdict = "reading"
    /\ verdict' = IF Address(fields) THEN "accepted" ELSE "rejected"
    /\ dst' = IF Address(fields) THEN [i \in 0..3 |-> Value(fields[i + 1])] ELSE dst
    /\ UNCHANGED fields

Next ==
    \/ \E c \in Char : Read(Extended(fields, c))
    \/ Read(Dotted(fields))
    \/ End

Spec == Init /\ [][Next]_vars
=============================================================================
