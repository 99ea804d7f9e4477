SPECIFICATION Spec
CONSTANTS
    descr = descr
    f = f
    None = None
    Main = Main
    Devices = {d1}
    Workers = {w1}
    Columns <- MCColumns
    Names = {"interface"}
    Families = {"IF-MIB", f}
    Configs <- MCConfigs
    Tables <- Growing
    MaxEvents = 2
    MaxFailures = 1
CONSTRAINT FewEvents
INVARIANTS
    TypeOK
    LabelsTrue
    ListedIsEnriched
CHECK_DEADLOCK FALSE
