SPECIFICATION DbSpec
CONSTANTS
    DbVersions = {7, 8, 9, 10, 11, 12, 13, 14, 15}
    MaxCuts = 0
INVARIANT EveryVersionOpens
