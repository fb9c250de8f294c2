\* 255 and 256 can be written in decimal, and fields with a leading zero.
\* Nine groups of one digit need seventeen characters; 0 makes leading
\* zeros, ffff is the largest group.
CONSTANTS
    Digits = {0, 2, 5, 6}
    Hex = {0, 15}
    Tails <- SomeTails
    MaxText = 17
    Scarce = 3
    Weight <- SomeWeights
SPECIFICATION PtonSpec
INVARIANTS InFourBytes TypeOK AcceptsAddresses
PROPERTIES ImplementsQuad
\* The parsers return.
CHECK_DEADLOCK FALSE
