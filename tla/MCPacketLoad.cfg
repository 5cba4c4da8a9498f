CONSTANTS
    Bundles <- MCBundles
    Domains = {"records", "statements"}
    DomainOrder <- MCDomainOrder
    MaxReplacements = 2
    Missing = Missing
SPECIFICATION LoadSpec
INVARIANTS
    LoadTypeOK
    LoadedIsOneVersion
PROPERTIES
    LoadSettles
\* A load that has ended, with no replacement left, stops.
CHECK_DEADLOCK FALSE
