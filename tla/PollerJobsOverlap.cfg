SPECIFICATION Spec
CONSTANTS
    h1 = h1
    h2 = h2
    d1 = d1
    d2 = d2
    p1 = p1
    p2 = p2
    p3 = p3
    c1 = c1
    c2 = c2
    None = None
    Dynamic = Dynamic
    Hosts <- MCHosts
    DbIds = {d1, d2}
    DbId <- MCDbId
    Profiles <- MCProfiles
    Known <- MCKnown
    Confs <- MCConfs
    Files <- OverlapFiles
    Matches <- MCMatches
    Matchers = {m1, m2}
    JobIds = {j1, j2, j3, j4}
    MaxEnv = 1
    MaxFaults = 0
SYMMETRY Interchangeable
INVARIANTS
    OneJobPerKey
