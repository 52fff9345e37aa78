SPECIFICATION RequestSpec
CONSTANTS
    Clients <- MCClients
    Mixes <- WedgeMixes
    Companions = {1}
    MaxCrashes = 0
PROPERTY StopEnds
CHECK_DEADLOCK FALSE
