SPECIFICATION Spec
CONSTANTS
    Workers = {w1}
    Kinds = {"counter", "enum", "numeral", "string", "complaint", "missing"}
    Profiles <- MixedProfiles
    MaxRows = 2
    WithEnricher = TRUE
    Additional = FALSE
    MibFails = TRUE
    HecFails = TRUE
INVARIANTS
    TypeOK
    RoutedByMeaning
    InOrder
    NoneLeftOut
    BuiltUnlessFailed
PROPERTIES
    GetAfterBulk
    FlagEarned
