---------------------------- MODULE DecimalDigits ----------------------------
(* The digits that occur in the texts of dotted addresses.                 *)
EXTENDS Integers

CONSTANT Digits

ASSUME DigitsAssumption == Digits \subseteq 0..9
=============================================================================
