SPECIFICATION Spec
CONSTANTS
    descr = descr
    f = f
    None = None
    Main = Main
    Devices = {d1}
    Workers = {w1}
    Columns <- MCColumns
    Names = {"interface"}
    Families = {"IF-MIB", f}
    Configs <- MCConfigs
    Tables <- WithGap
    MaxEvents = 0
    MaxFailures = 0
INVARIANTS
    IndexMapping
CHECK_DEADLOCK FALSE
