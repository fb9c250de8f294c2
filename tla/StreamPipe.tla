------------------------------ MODULE StreamPipe ------------------------------
(***************************************************************************)
(* What read and write promise the two programs at the ends of one         *)
(* direction of a connection: a pipe.  Until the reader gives it up or the *)
(* connection is reset, each byte a write took is read once; the reader is *)
(* told of the end only when there is nothing left to read, and then       *)
(* nothing more is written.  Kernels, FINs, RSTs and the direction back do *)
(* not show.                                                               *)
(***************************************************************************)
EXTENDS Integers

CONSTANT Chunk     \* what one read returns at most

VARIABLES
    written,       \* bytes the writes took
    read,          \* bytes the reads returned
    inside,        \* bytes that can still be read
    state          \* "open", "ended" once the reader knows that was all, or
                   \* "cut" when it reads no more or was reset

vars == <<written, read, inside, state>>

Init == written = 0 /\ read = 0 /\ inside = 0 /\ state = "open"

(* Who writes may not know that the pipe is cut.                           *)
Write ==
    /\ state # "ended"
    /\ written' = written + 1 /\ inside' = inside + 1
    /\ UNCHANGED <<read, state>>

(* Also when the pipe is cut, of what has arrived by then.                 *)
Read ==
    /\ \E n \in 1..Chunk :
           n <= inside /\ read' = read + n /\ inside' = inside - n
    /\ UNCHANGED <<written, state>>

End ==
    /\ state = "open" /\ inside = 0
    /\ state' = "ended"
    /\ UNCHANGED <<written, read, inside>>

(* For good, and now or later without a part of what was inside.           *)
Cut ==
    /\ state' = "cut"
    /\ inside' \in 0..inside
    /\ UNCHANGED <<written, read>>

Next == Write \/ Read \/ End \/ Cut

Spec == Init /\ [][Next]_vars
=============================================================================
