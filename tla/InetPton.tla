------------------------------ MODULE InetPton ------------------------------
(***************************************************************************)
(* inet_pton of the MinGW build: af says which of the two parsers reads    *)
(* src.  InetPton6 is extended, InetPton4 has variables of its own.        *)
(***************************************************************************)
EXTENDS InetPton6, DecimalDigits

VARIABLES
    af,                                      \* the address family asked for
    fields4, tmp4, tp4, saw_digit, octets,   \* the variables of inet_pton4
    verdict, dst4

vars4 == <<fields4, tmp4, tp4, saw_digit, octets, verdict, dst4>>

V4 == INSTANCE InetPton4 WITH fields <- fields4, tmp <- tmp4, tp <- tp4, dst <- dst4

Families == {"AF_INET", "AF_INET6", "other"}

PtonInit == af \in Families /\ V4!Init /\ Init

(* case AF_INET                                                            *)
Inet4 == af = "AF_INET" /\ V4!Next /\ UNCHANGED <<af, vars>>

(* case AF_INET6                                                           *)
Inet6 == af = "AF_INET6" /\ Next /\ UNCHANGED <<af, vars4>>

(* Any other family returns at once: neither parser is called.             *)
PtonNext == Inet4 \/ Inet6

PtonSpec == PtonInit /\ [][PtonNext]_<<af, vars, vars4>>

-----------------------------------------------------------------------------
(* InetPton4's properties, of the family that reaches it.                  *)

(* The index tp of inet_pton4 stays inside its four bytes.                 *)
InFourBytes == V4!InFourBytes

(* inet_pton4 accepts the addresses of the dotted grammar and nothing else,*)
(* and stores the bytes that the fields denote.                            *)
ImplementsQuad == V4!ImplementsQuad
=============================================================================
