SPECIFICATION Spec
CONSTANTS
    Pkgs = {p1, iso}
    Isolated = iso
    Procs = {a, b}
    Handlers = {h1, h2}
    AppIds = {1, 2}
    Uses <- MCUses
SYMMETRY DenySymmetry
INVARIANTS MemMatchesTable IndexMatchesList
PROPERTY LockedEntriesStay
