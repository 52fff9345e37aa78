SPECIFICATION MCSpec
CONSTANTS
    Mods = {m1, m2}
    ZygiskMods = {m1}
    RiruMods = {m2}
    BadMods = {m1}
    Bridge = "nb"
    EnvStates = {"ok"}
    UserOps = {"remove", "toggle", "zygisk", "stop", "start"}
    PfdTimesOut = TRUE
    MaxUserOps = 2
    MaxReboots = 1
    MaxRestarts = 3
    MaxCompletes = 1
INVARIANTS LoopIsBroken SafeModeIsSafe LoaderAccountedFor
PROPERTIES RolledBackStays TimelyBootRecovers
CHECK_DEADLOCK FALSE
