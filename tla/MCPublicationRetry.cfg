CONSTANTS
    w1 = w1  w2 = w2  k1 = k1  k2 = k2  n1 = n1  n2 = n2  p1 = p1  p2 = p2
    Workers = {w1, w2}
    Keys = {k1}
    Nonces = {n1}
    Fences = {f1, f2, f3}
    Packets = {p1}
    NoNonce = NoNonce
    NoFence = NoFence
    NoPermit = NoPermit
    NoPacket = NoPacket
    NoJob = NoJob
    Outputs <- OneOutput
    FileKeys = {}
    CallbackKeys = {k1}
    Dispatches <- OneDispatch
    Faults <- PublicationFaults
    MaxFaults = 1
    MaxCrashes = 0
SPECIFICATION FairSpec
PROPERTIES
    StagePublished
