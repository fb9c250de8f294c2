\* One worker answers two clients over a network that may do anything.
CONSTANTS
    c1 = c1  c2 = c2
    Clients = {c1, c2}
    Server = Server
    Nowhere = Nowhere
    w1 = w1
    Workers = {w1}
    MaxWrites = 4
    MaxCrashes = 1
SPECIFICATION Spec
INVARIANTS TypeOK AnswerGoesToAsker AnswerHasAddress WaitsForSomething
SYMMETRY ClientSymmetry
\* Clients stop writing and wait for nothing.
CHECK_DEADLOCK FALSE
