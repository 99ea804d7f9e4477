SPECIFICATION FairSpec
CONSTANTS
    Devices = {d1}
    Threads = {t1}
    Workers = {w1}
    None = None
    MaxUptime = 1
    MaxQueued = 1
    MaxTicks = 0
    MaxRestarts = 0
    MaxOutages = 0
    MaxFaults = 1
    MaxEdits = 0
PROPERTIES
    DiscoveredIsWalked
