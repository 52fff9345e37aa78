SPECIFICATION MCSpec
CONSTANTS
    Mods = {m1}
    ZygiskMods = {m1}
    RiruMods = {}
    BadMods = {}
    Bridge = "nb"
    EnvStates = {"ok"}
    UserOps = {"stop"}
    PfdTimesOut = FALSE
    MaxUserOps = 0
    MaxReboots = 0
    MaxRestarts = 5
    MaxCompletes = 1
INVARIANTS BridgeRestored
CHECK_DEADLOCK FALSE
