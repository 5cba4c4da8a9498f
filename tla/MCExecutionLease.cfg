CONSTANTS
    Workers = {w1, w2, w3}
    Keys = {k1, k2}
    Nonces = {n1, n2}
    Fences = {f1, f2, f3, f4, f5}
    NoNonce = NoNonce
    NoFence = NoFence
    NoPermit = NoPermit
SPECIFICATION LeaseSpec
SYMMETRY Symmetry
INVARIANTS
    LeaseTypeOK
    SingleWinner
    NonceColumnUnique
PROPERTIES
    StalePermitIsInert
\* A store whose claims are all held by dead processes takes no further step.
CHECK_DEADLOCK FALSE
