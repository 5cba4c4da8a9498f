CONSTANTS
    m1 = m1  m2 = m2  m3 = m3  m4 = m4  x = x  y = y  bad = bad
    Committers = {m1, m2, m3, m4}
    Bundles = {x, y, bad}
    Valid = {x, y}
    Wanted <- MCWanted
    Absent = Absent
    Empty = Empty
    Torn = Torn
    MaxDeaths = 1
    MaxErrors = 1
SPECIFICATION FairSpec
INVARIANTS
    BundleTypeOK
    ExposedIsWhole
    WrittenIsDurable
PROPERTIES
    ExposedStays
    CommitSettles
\* Every committer has its receipt.
CHECK_DEADLOCK FALSE
