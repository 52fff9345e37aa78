---------------------------- MODULE MCMagicMount ----------------------------
(* TLC instances of MagicMount: every kind of entry in a module against      *)
(* every kind in the real directory, two levels below a partition's root,    *)
(* and modules that touch bin, lib64, vendor and the root itself.            *)
EXTENDS MagicMount

MCModules == <<"A", "B">>
MCPathEnv == <<<<"sbin">>, <<"vendor", "bin">>, <<"system", "bin">>>>

(* The directory with these entries, without those that are None.            *)
D(rec) == DirOf(DOMAIN rec, LAMBDA n : rec[n])

R == File("real")
RealEtc ==
    {D([a |-> x, b |-> y]) :
        x \in {None, R, Link(R), Link(D([c |-> R])), NewDir, D([c |-> R])}, y \in {None, R, D([c |-> R])}}

System(bin, etc, vendor) ==
    D([bin |-> bin, etc |-> etc, lib64 |-> D([libc |-> R]), vendor |-> vendor])
Bin == D([linker64 |-> R])

MCRealTrees ==
    {D([system |-> System(Bin, e, None)]) : e \in RealEtc \cup {None, R}}
    \cup {D([system |-> System(b, NewDir, Link(NewDir)), vendor |-> D([bin |-> v])]) :
             b \in {Bin, D([linker64 |-> R, su |-> R])}, v \in {None, NewDir, D([su |-> R])}}
    \cup {D([system |-> System(Bin, NewDir, D([bin |-> NewDir])), vendor |-> Link(D([bin |-> NewDir]))])}

Replace(m, yes) == IF yes THEN File(m) ELSE None

(* What a module may have for one name of a directory.                       *)
Entries(m) ==
    {None, File(m), Link(File(m)), Whiteout, NewDir, D([c |-> File(m)]), D([c |-> Whiteout]),
     DirOf({"c", ".replace"}, LAMBDA n : File(m))}

Etc(m, a, b, replace) ==
    D([etc |-> DirOf({"a", "b", ".replace"},
                     LAMBDA n : CASE n = "a" -> a [] n = "b" -> b [] OTHER -> Replace(m, replace))])

Elsewhere(m) ==
    {NewDir, D([etc |-> File(m)]), D([new |-> File(m)]), DirOf({".replace"}, LAMBDA n : File(m)),
     D([bin |-> File(m)]), D([bin |-> D([su |-> File(m)])]),
     D([bin |-> DirOf({"x", ".replace"}, LAMBDA n : File(m))]),
     D([lib64 |-> D([libc |-> File(m), libzygisk |-> File(m)])]),
     D([vendor |-> D([bin |-> D([x |-> File(m)])])]), D([vendor |-> D([bin |-> File(m)])])}

MCModuleTrees ==
    [A |-> Elsewhere("A") \cup
           {Etc("A", a, b, r) : a \in Entries("A"), b \in {None, File("A"), Whiteout, D([c |-> File("A")])},
                                r \in BOOLEAN},
     B |-> {NewDir, D([bin |-> D([su |-> File("B")])])} \cup
           {Etc("B", a, None, FALSE) : a \in {File("B"), Whiteout, NewDir, D([c |-> File("B")])}} \cup
           {Etc("B", D([c |-> File("B")]), None, TRUE)}]
=============================================================================
