CONSTANTS
    w1 = w1  w2 = w2  k1 = k1  k2 = k2  n1 = n1  n2 = n2  p1 = p1  p2 = p2
    Workers = {w1, w2}
    Keys = {k1, k2}
    Nonces = {n1, n2}
    Fences = {f1, f2, f3, f4}
    Packets = {p1, p2}
    NoNonce = NoNonce
    NoFence = NoFence
    NoPermit = NoPermit
    NoPacket = NoPacket
    NoJob = NoJob
    Outputs <- ChangingOutputs
    FileKeys = {k2}
    CallbackKeys = {k1}
    Dispatches <- SharedNonce
    Faults <- AllFaults
    MaxFaults = 1
    MaxCrashes = 1
SPECIFICATION Spec
SYMMETRY Symmetry
INVARIANTS
    StageTypeOK
    LeaseHeld
    SuccessIsPublished
    DoneIsNotRedone
PROPERTIES
    FulfilsContract
