SPECIFICATION Spec
CONSTANTS
    Devices = {d1}
    Threads = {t1, t2}
    Workers = {w1}
    None = None
    MaxUptime = 2
    MaxQueued = 1
    MaxTicks = 1
    MaxRestarts = 1
    MaxOutages = 1
    MaxFaults = 0
    MaxEdits = 1
SYMMETRY Interchangeable
CONSTRAINT FewEvents
INVARIANTS
    TypeOK
    WalkNotForgotten
PROPERTIES
    RedoExplained
    KeepsPromise
