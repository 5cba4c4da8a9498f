CONSTANTS
    d1 = d1  d2 = d2  d3 = d3  r1 = r1  r2 = r2
    readme = readme  notes = notes  x = x  y = y
    Documents <- MCDocuments
    Repositories = {r1, r2}
    Objects = {readme, notes, x, y}
    Home <- MCHome
    Path <- MCPath
    Level <- MCLevel
    Class <- MCClass
    Absent = Absent
    Contents <- MCContents
    Rank <- MCRank
    ClaimPredicates <- PolicyPredicates
    EdgeTypes <- PolicyEdgeTypes
    MaxCommits = 1
    MaxEvidenceRefs = 2
    MaxAdmitted = 1
    NoPlan = NoPlan
SPECIFICATION Spec
INVARIANTS
    PublicationTypeOK
    RefusedIsUnresolved
    NothingUnsettledIsEligible
    DuplicateIsTheSameWrite
PROPERTIES
    KeyFollowsLocalState
    DisputeIsContained
\* The bounds on commits and writes end every behaviour.
CHECK_DEADLOCK FALSE
