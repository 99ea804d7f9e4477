SPECIFICATION FairSpec
CONSTANTS
    Polls = {p1, p2}
    Enrichers = {e1}
    Frequencies = {1, 4}
    Ttl = 1
    RefreshInterval = 2
    MaxBlock = 2
    MaxWait = 2
INVARIANTS
    TypeOK
    Punctual
    DelayBounded
PROPERTIES
    EditIsSeen
