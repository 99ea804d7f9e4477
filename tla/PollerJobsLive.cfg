SPECIFICATION FairSpec
CONSTANTS
    h1 = h1
    h2 = h2
    d1 = d1
    d2 = d2
    p1 = p1
    p2 = p2
    p3 = p3
    c1 = c1
    c2 = c2
    None = None
    Dynamic = Dynamic
    Hosts <- MCHosts
    DbIds = {d1}
    DbId <- SharedDbId
    Profiles <- MCProfiles
    Known <- MCKnown
    Confs <- MCConfs
    Files <- LiveFiles
    Matches <- MCMatches
    Matchers = {m1, m2}
    JobIds = {j1, j2, j3}
    MaxEnv = 1
    MaxFaults = 1
PROPERTIES
    DeletedOnlyIfUnlisted
    Converges
    DescribedIsServed
