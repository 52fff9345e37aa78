SPECIFICATION Spec
CONSTANTS
    Modules = {"A", "B"}
    Common = {"c"}
    Scripted = {"A"}
    Ruled <- MCRuled
    MaxBoots = 2
    MaxUserOps = 3
INVARIANTS InstallIsKept ScriptsRunInTurn
PROPERTIES LoadedAsAsked RulesAreOfNextBoot 
CHECK_DEADLOCK FALSE
