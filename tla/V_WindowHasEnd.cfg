SPECIFICATION MatSpec
CONSTANTS
    MaxFabrics = 2
    Durations = {0, 1}
    DefaultDuration = 2
    MaxUptime = 4
INVARIANTS WindowHasEnd
