----------------------------- MODULE MCInetPton ------------------------------
(* InetPton on few digits.  No bound on a dotted text is needed, because   *)
(* its parser stops at the first character past the longest address; the   *)
(* other's texts have two digits, and zeros are scarce.                    *)
EXTENDS InetPton

CONSTANT Scarce     \* what a zero counts for

SomeTails   == {<<2, 0, 255>>}
SomeWeights == [h \in Hex |-> IF h = 0 THEN Scarce ELSE 1]
=============================================================================
