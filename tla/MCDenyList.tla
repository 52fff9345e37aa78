----------------------------- MODULE MCDenyList -----------------------------
(* TLC instances of DenyList: ordinary packages, processes and handlers are  *)
(* interchangeable.                                                          *)
EXTENDS DenyList, TLC

AllOps == {"add", "rm", "lock", "ls", "restart"}
Use(concurrent, ops, changes, failures) ==
    [concurrent |-> concurrent, ops |-> ops, changes |-> changes, failures |-> failures]

(* One request at a time with app changes; overlapping requests with failing *)
(* statements, with and without locks.                                       *)
MCUses ==
    {Use(FALSE, AllOps, 2, 0), Use(TRUE, AllOps, 0, 0), Use(TRUE, AllOps \ {"lock"}, 0, 1)}

(* A locked package that is rescanned.                                       *)
LockedUse == {Use(FALSE, {"add", "lock", "ls"}, 0, 0)}

DenySymmetry ==
    Permutations(Pkgs \ {Isolated}) \cup Permutations(Procs) \cup Permutations(Handlers)
=============================================================================
