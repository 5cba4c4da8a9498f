CONSTANTS
    s1 = s1  s2 = s2  a = a  b = b  d = d  c1 = c1  c2 = c2
    Sinks = {s1, s2}
    Paths = {a, b, d}
    Contents = {c1, c2}
    Absent = Absent
    Other = Other
    AnyHash = AnyHash
    Intents <- MCIntents
    MaxEdits = 1
    MaxRuns = 2
SPECIFICATION Spec
INVARIANTS
    SinkTypeOK
    PassedIsOnDisk
    ResumesItsOwnWork
PROPERTIES
    NeverClobbers
\* Every sink has finished its last run.
CHECK_DEADLOCK FALSE
