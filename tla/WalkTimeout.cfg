SPECIFICATION Spec
CONSTANTS
    Devices = {d1}
    Threads = {t1}
    Workers = {w1}
    None = None
    MaxUptime = 2
    MaxQueued = 1
    MaxTicks = 1
    MaxRestarts = 0
    MaxOutages = 1
    MaxFaults = 0
    MaxEdits = 0
SYMMETRY Interchangeable
PROPERTIES
    RedoOnlyAfterReset
