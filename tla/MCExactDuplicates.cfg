CONSTANTS
    d1 = d1  d2 = d2  d3 = d3  r1 = r1  r2 = r2  readme = readme  notes = notes  x = x
    y = y  n1 = n1  n2 = n2  pa = pa  pb = pb  pq = pq  ha = ha  ha2 = ha2
    hb = hb  hb2 = hb2  va = va  vb = vb  k1 = k1  k2 = k2  o1 = o1  corpus = corpus
    snapshot = snapshot  root1 = root1  root2 = root2  s1 = s1  s2 = s2  s3 = s3  s4 = s4  u1 = u1  u2 = u2
    twins = twins  hash = hash  pair = pair  topic = topic  project = project  consolidation = consolidation  m1 = m1
    Documents <- MCDocuments
    Repositories <- MCRepositories
    Objects = {readme, notes, x, y, n1, n2}
    Names <- MCNames
    Home <- MCHome
    Path <- MCPath
    Level <- MCLevel
    Class <- MCClass
    Rank <- MCRank
    Portable = {readme, notes}
    ShortName <- MCShortName
    RoleSignals <- MCRoleSignals
    RiskRules <- MCRiskRules
    Dimensions <- MCDimensions
    MaximumScore = 4
    Bands <- MCBands
    Absent = Absent
    ClaimRank <- MCClaimRank
    Shelf = {"a", "b"}
    CorpusShelf = {"q"}
    Catalogue <- MCCatalogue
    FirstEditions <- MCFirstEditions
    Selections <- MCSelections
    Queries <- MCQueries
    MaxProduced = 1
    MaxCompiles = 1
SPECIFICATION Spec
INVARIANTS
    ExactDuplicatesAreNotRouted
CHECK_DEADLOCK FALSE
