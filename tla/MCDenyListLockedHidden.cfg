SPECIFICATION Spec
CONSTANTS
    Pkgs = {p1}
    Isolated = iso
    Procs = {a}
    Handlers = {h1}
    AppIds = {1}
    Uses <- LockedUse
INVARIANT ListedAppsAreIndexed
