CONSTANTS
    r1 = r1  r2 = r2  r3 = r3  x = x  y = y
    Revisions = {r1, r2, r3}
    Configs = {x, y}
    ConfigOf <- MCConfigOf
    Flaws <- MCFlaws
    MaxClockSkew = 1
    MaxDispatchTTL = 1
    MaxTime = 3
    Addresses = {1, 2, 3}
    Forbidden = {2}
    Attempts = 2
SPECIFICATION FairSpec
INVARIANTS
    RunTypeOK
    OnlyTheAdmittedActs
    ZeroMeansAccepted
    TwoVoicesExplained
PROPERTIES
    RunEnds
\* The process ends.
CHECK_DEADLOCK FALSE
