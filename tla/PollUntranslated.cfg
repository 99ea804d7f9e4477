SPECIFICATION Spec
CONSTANTS
    Workers = {w1}
    Kinds = {"counter", "string"}
    Profiles <- SmallProfiles
    MaxRows = 1
    WithEnricher = FALSE
    Additional = FALSE
    MibFails = TRUE
    HecFails = FALSE
INVARIANTS
    SentUntranslated
