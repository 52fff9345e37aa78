----------------------------- MODULE MagicMount -----------------------------
(***************************************************************************)
(* How modules change what the system partitions show: FsNode and          *)
(* apply_modules (native/src/core/module.rs).  The trees of the modules    *)
(* are collected into one tree, magisk's own files are injected, and the   *)
(* tree is committed to the real file system with bind mounts, through a   *)
(* tmpfs worker directory where a bind mount cannot do it.                 *)
(*                                                                         *)
(* A directory is a function from names to entries; a file is who provides *)
(* it; a link carries what it leads to.  Paths are sequences of names.     *)
(* Commits at different paths do not meet, so committing a node is a       *)
(* function from what its path shows before to what it shows after.        *)
(***************************************************************************)
EXTENDS Integers, Sequences, FiniteSets, SequencesExt

CONSTANTS
    RealTrees,    \* root directories of devices: <<"system">>, perhaps <<"vendor">>
    Modules,      \* module_list: the names of the modules, in order
    ModuleTrees,  \* ModuleTrees[m]: what m's "system" directory may hold
    PathEnv,      \* directories of PATH, as paths
    IsEmulator, ZygiskEnabled

ASSUME MagicMountAssumption == {IsEmulator, ZygiskEnabled} \subseteq BOOLEAN /\ DOMAIN ModuleTrees = ToSet(Modules)

None == [kind |-> "none"]
Dir(children) == [kind |-> "dir", children |-> children]
File(owner) == [kind |-> "file", src |-> owner]
Link(target) == [kind |-> "link", target |-> target]
MagiskLink == [kind |-> "magisklink"]
Whiteout == [kind |-> "whiteout"]
NewDir == Dir(<<>>)

IsDir(e) == e.kind = "dir"
Names(e) == IF IsDir(e) THEN DOMAIN e.children ELSE {}
Child(e, n) == IF n \in Names(e) THEN e.children[n] ELSE None
Follow(e) == IF e.kind = "link" THEN e.target ELSE e

(* The directory that holds the entries f gives to names, where there is one. *)
DirOf(names, f(_)) ==
    LET g == [n \in names |-> f(n)]
    IN  Dir([n \in {m \in names : g[m] # None} |-> g[n]])
WithChild(d, n, e) == DirOf(Names(d) \cup {n}, LAMBDA m : IF m = n THEN e ELSE Child(d, m))

RECURSIVE At(_, _)
(* The entry a path leads to; links on the way are followed.                 *)
At(e, path) == IF path = <<>> THEN e ELSE At(Child(Follow(e), Head(path)), Tail(path))

-----------------------------------------------------------------------------
(* collect: the union of the modules' trees *)

RECURSIVE Collect(_, _)
(* entry().or_insert_with: what an earlier module put there stays, and only  *)
(* directories are merged.                                                   *)
Collect(node, entry) ==
    IF IsDir(entry) /\ node.kind \in {"none", "dir"}
    THEN DirOf(Names(node) \cup Names(entry),
               LAMBDA n : IF n \in Names(entry) THEN Collect(Child(node, n), Child(entry, n))
                          ELSE Child(node, n))
    ELSE IF node = None THEN entry ELSE node

-----------------------------------------------------------------------------
(* commit: what a path shows, given the node for it and what it shows now.   *)
(* mods are the modules' trees: a replaced directory's are mounted as is.    *)

(* A mount on something of the other kind fails, and the failure is ignored. *)
BindMount(src, dest) ==
    IF src # None /\ dest # None /\ IsDir(src) = IsDir(dest) THEN src ELSE dest

(* Mutant of ParentShouldBeTmpfs: a target that does not exist is forgotten. *)
ParentShouldBeTmpfs_Exists(node, real) ==
    node.kind \in {"dir", "file"} => real.kind = "link"

ParentShouldBeTmpfs(node, real) ==
    node.kind \in {"dir", "file"} => real.kind \in {"none", "link"}

MagiskTarget(name) == Link(File(IF name = "supolicy" THEN "magiskpolicy" ELSE "magisk"))

Replaces(node) == Child(node, ".replace").kind = "file"

(* The names a tmpfs takes over from the real directory.                     *)
Mirrored(node, real) == IF Replaces(node) THEN {} ELSE Names(Follow(real)) \ Names(node)

RECURSIVE CommitTmpfs(_, _, _, _)
(* What the worker directory gets for a node; nothing for a whiteout.  The   *)
(* subdirectories of a replaced directory are the replacing module's.        *)
CommitTmpfs(node, real, mods, path) ==
    LET inside(n) == Child(Follow(real), n)
        replacement(n) == BindMount(At(mods[Child(node, ".replace").src], Append(path, n)), NewDir)
        entry(n) ==
            CASE n \in Mirrored(node, real) /\ IsDir(inside(n)) ->
                    CommitTmpfs(NewDir, inside(n), mods, Append(path, n))
              [] n \in Mirrored(node, real) /\ ~IsDir(inside(n)) -> inside(n)
              [] Replaces(node) /\ IsDir(Child(node, n)) -> replacement(n)
              [] OTHER -> CommitTmpfs(Child(node, n), inside(n), mods, Append(path, n))
    IN  CASE IsDir(node) -> DirOf((Names(node) \ {".replace"}) \cup Mirrored(node, real), entry)
          [] node.kind = "magisklink" -> MagiskTarget(Last(path))
          [] node.kind = "whiteout"   -> None
          [] OTHER                    -> node

NeedsTmpfs(node, real, n) ==
    n = ".replace" \/ ParentShouldBeTmpfs(Child(node, n), Child(real, n))

(* children.retain: a root directory cannot become a tmpfs, and ignores the  *)
(* children that need it.                                                    *)
Kept(node, real, isRootDir) == {n \in Names(node) : ~(isRootDir /\ NeedsTmpfs(node, real, n))}

RECURSIVE Commit(_, _, _, _, _)
(* A directory with a child that needs it becomes a tmpfs, which is then     *)
(* mounted on the real one.                                                  *)
Commit(node, real, mods, path, isRootDir) ==
    LET kept == Kept(node, real, isRootDir)
        tmpfs == \E n \in kept : NeedsTmpfs(node, real, n)
        entry(n) ==
            IF n \in kept THEN Commit(Child(node, n), Child(real, n), mods, Append(path, n), FALSE)
            ELSE Child(real, n)
    IN  CASE IsDir(node) /\ tmpfs ->
                BindMount(CommitTmpfs(DirOf(kept, LAMBDA n : Child(node, n)), real, mods, path), real)
          [] IsDir(node) /\ ~tmpfs -> IF IsDir(real) THEN DirOf(Names(real), entry) ELSE real
          [] node.kind = "file"    -> BindMount(node, real)
          [] OTHER                 -> real

-----------------------------------------------------------------------------
(* apply_modules.  magisk's directory is not on PATH, and magisk32 exists.   *)

MagiskBins ==
    [magisk |-> File("magisk"), magiskpolicy |-> File("magiskpolicy"),
     su |-> MagiskLink, resetprop |-> MagiskLink, supolicy |-> MagiskLink]

(* The tree with entries in the directory at path, made where there is none. *)
RECURSIVE Insert(_, _, _)
Insert(node, path, entries) ==
    IF path = <<>>
    THEN DirOf(Names(node) \cup DOMAIN entries,
               LAMBDA n : IF n \in DOMAIN entries THEN entries[n] ELSE Child(node, n))
    ELSE WithChild(node, Head(path), Insert(Child(node, Head(path)), Tail(path), entries))

(* Every node on the path that is there already is a directory.              *)
Suitable(system, path) ==
    \A i \in 1 .. Len(path) : At(system, SubSeq(path, 1, i)).kind \in {"none", "dir"}

RECURSIVE CountFiles(_)
CountFiles(e) ==
    IF IsDir(e)
    THEN FoldSet(LAMBDA n, sum : CountFiles(Child(e, n)) + sum, 0, Names(e))
    ELSE IF e.kind = "file" THEN 1 ELSE 0

StripSystem(path) == IF Head(path) = "system" THEN Tail(path) ELSE path

(* The directories of PATH on a partition, up to the first that has a su.    *)
Candidates(root) ==
    LET wanted(p) == /\ Head(p) \in {"system", "vendor", "product", "system_ext"}
                     /\ ~IsPrefix(<<"system", "apex">>, p)
                     /\ ~(IsEmulator /\ IsPrefix(<<"system", "xbin">>, p))
        hasSu(p) == At(root, Append(p, "su")) # None
        dirs == SelectSeq(PathEnv, wanted)
        first == {i \in DOMAIN dirs : hasSu(dirs[i])}
    IN  [dirs |-> dirs,
         use |-> {i \in DOMAIN dirs : /\ \A j \in first : i <= j
                                      /\ hasSu(dirs[i]) \/ IsDir(Follow(At(root, dirs[i])))},
         count |-> [i \in DOMAIN dirs |->
                       IF hasSu(dirs[i]) THEN 0 ELSE CountFiles(Follow(At(root, dirs[i])))]]

(* Mutant of InjectMagiskBins: a module's own files are kept.                *)
InjectMagiskBins_Keeps(system, root) ==
    LET bin == Child(system, "bin")
        new == [n \in DOMAIN MagiskBins \ Names(bin) |-> MagiskBins[n]]
    IN  IF Suitable(system, <<"bin">>) THEN Insert(system, <<"bin">>, new) ELSE system

(* The first suitable one of the candidates, sorted by their number of       *)
(* files, or else /system/bin.                                               *)
InjectMagiskBins(system, root) ==
    LET c == Candidates(root)
        ok == {i \in c.use : Suitable(system, StripSystem(c.dirs[i]))}
        best == CHOOSE i \in ok : \A j \in ok : c.count[i] < c.count[j] \/ (c.count[i] = c.count[j] /\ i <= j)
    IN  CASE ok # {} -> Insert(system, StripSystem(c.dirs[best]), MagiskBins)
          [] ok = {} /\ Suitable(system, <<"bin">>) -> Insert(system, <<"bin">>, MagiskBins)
          [] OTHER -> system

ZygiskLib == [n \in {"libzygisk"} |-> File("magisk")]

(* The loader goes to the library directory of every ABI that has a linker.  *)
InjectZygiskBins(system, root) ==
    LET inject(t, linker, lib) ==
            IF At(root, <<"system", "bin", linker>>) # None /\ Suitable(t, <<lib>>)
            THEN Insert(t, <<lib>>, ZygiskLib) ELSE t
    IN  inject(inject(system, "linker", "lib"), "linker64", "lib64")

SecondaryPartitions == {"vendor", "product", "system_ext"}

(* Step 3: the subtrees that are partitions of their own.                    *)
Roots(system, root) == {n \in SecondaryPartitions : IsDir(Child(root, n)) /\ n \in Names(system)}

(* Steps 3 and 4: the root directory after every tree is committed.          *)
CommitRoots(system, root, mods) ==
    LET roots == Roots(system, root)
        rest == DirOf(Names(system) \ roots, LAMBDA n : Child(system, n))
    IN  DirOf(Names(root), LAMBDA n :
            CASE n = "system"  -> Commit(rest, Child(root, n), mods, <<>>, TRUE)
              [] n \in roots   -> Commit(Child(system, n), Child(root, n), mods, <<n>>, TRUE)
              [] OTHER         -> Child(root, n))

VARIABLES
    real,    \* the root directory before modules are applied
    mods,    \* the trees of the modules collected so far
    tree,    \* the virtual tree
    shown    \* the root directory as processes see it, None before the mounts

magicVars == <<real, mods, tree, shown>>

MagicInit ==
    /\ real \in RealTrees
    /\ mods = <<>> /\ tree = NewDir /\ shown = None

(* Step 1: the next module; one with skip_mount has nothing to collect.      *)
CollectModule ==
    /\ shown = None /\ Cardinality(DOMAIN mods) < Len(Modules)
    /\ LET m == Modules[Cardinality(DOMAIN mods) + 1]
       IN  \E t \in ModuleTrees[m] :
              /\ mods' = [x \in DOMAIN mods \cup {m} |-> IF x = m THEN t ELSE mods[x]]
              /\ tree' = Collect(tree, t)
    /\ UNCHANGED <<real, shown>>

(* Steps 2 to 4.                                                             *)
ApplyModules ==
    /\ shown = None /\ Cardinality(DOMAIN mods) = Len(Modules)
    /\ tree' = LET t == InjectMagiskBins(tree, real)
               IN  IF ZygiskEnabled THEN InjectZygiskBins(t, real) ELSE t
    /\ shown' = CommitRoots(tree', real, mods)
    /\ UNCHANGED <<real, mods>>

MagicNext == CollectModule \/ ApplyModules

-----------------------------------------------------------------------------
(* Properties *)

RECURSIVE PathsOf(_)
PathsOf(e) == {<<>>} \cup UNION {{<<n>> \o p : p \in PathsOf(Child(e, n))} : n \in Names(e)}

UpTo(p) == {SubSeq(p, 1, i) : i \in 1 .. Len(p)}
Above(p) == UpTo(p) \ {p}

(* Where a path of the virtual tree is in the file system, and back.         *)
Place(p) == IF Head(p) \in Roots(tree, real) THEN p ELSE <<"system">> \o p
Claims(p) == {q \in PathsOf(tree) \ {<<>>} : Place(q) \in UpTo(p)}

(* An entry of a partition that no module, and nothing of magisk's, claims   *)
(* is shown as it was, however its neighbours are changed: a directory that  *)
(* becomes a tmpfs mirrors the real one (module.rs:389-420).                 *)
UnclaimedPathsStay ==
    shown # None => \A p \in PathsOf(real) :
        (\A q \in Claims(p) : /\ IsDir(At(tree, q))
                              /\ IsDir(At(real, Place(q)))
                              /\ Place(q) = p \/ ~Replaces(At(tree, q))) =>
            LET before == At(real, p)
                after == At(shown, p)
            IN  IF IsDir(before) THEN IsDir(after) ELSE after = before

(* Nothing is added to, removed from or replaced in the root directory of a  *)
(* partition: such requests are ignored (module.rs:304-318).                 *)
RootsKeepTheirEntries ==
    shown # None => \A n \in Names(real) :
        /\ Names(Child(shown, n)) = Names(Child(real, n))
        /\ \A m \in Names(Child(real, n)) :
              At(shown, <<n, m>>).kind = At(real, <<n, m>>).kind

(* The directory is replaced by module m, which is the only one whose        *)
(* subdirectories show up in it.                                             *)
ReplacedBy(q) == mods[Child(At(tree, q), ".replace").src]

(* What magic mount can do: a partition's own entries are not added or       *)
(* retyped, directories and files do not take each other's place, and a      *)
(* replaced directory's subdirectories are the replacing module's.           *)
Supported(p) ==
    /\ \A q \in UpTo(p) :
          LET t == At(tree, q)
              r == At(real, Place(q))
          IN  /\ Len(Place(q)) = 2 => ~ParentShouldBeTmpfs(t, r)
              /\ r.kind \in {"none", "link"} \/ IsDir(t) = IsDir(r)
    /\ \A q \in Above(p) : Replaces(At(tree, q)) /\ Len(Place(q)) > 1 =>
          \/ Len(q) = Len(p) - 1 /\ ~IsDir(At(tree, p))
          \/ At(ReplacedBy(q), p) = At(tree, p) /\ At(tree, p).kind \in {"file", "link"}

(* Every supported file, link, removal and replacement of the virtual tree   *)
(* takes effect: whether it is bind mounted in place, or its parent or a     *)
(* directory further up has to become a tmpfs, does not matter.              *)
ModulesAreShown ==
    shown # None => \A p \in PathsOf(tree) \ {<<>>} :
        Supported(p) /\ Last(p) # ".replace" =>
            LET t == At(tree, p)
                v == At(shown, Place(p))
            IN  CASE IsDir(t) -> IsDir(v) /\ (Replaces(t) /\ Len(Place(p)) > 1 => Names(v) \subseteq Names(t))
                  [] t.kind = "whiteout" -> v = None
                  [] t.kind = "magisklink" -> v = MagiskTarget(Last(p))
                  [] OTHER -> v = t

(* Of two modules with something at the same path the first one loaded wins, *)
(* unless a directory above is replaced (or_insert_with, module.rs:236-262). *)
FirstModuleWins ==
    shown # None => \A i, j \in DOMAIN Modules : i < j =>
        \A p \in (PathsOf(mods[Modules[i]]) \cap PathsOf(mods[Modules[j]])) \ {<<>>} :
            ~IsDir(At(mods[Modules[i]], p)) /\ (\A q \in Above(p) : ~Replaces(At(tree, q))) =>
                At(shown, Place(p)) # File(Modules[j])

(* su and magisk are in a directory of PATH after every boot whose modules   *)
(* leave bin a directory: a module's su, or a replaced bin, does not win     *)
(* (children.insert, module.rs:474-499).                                     *)
SuIsInstalled ==
    shown # None /\ IsDir(At(real, <<"system", "bin">>)) /\ Suitable(tree, <<"bin">>) =>
        \E d \in {<<"bin">>} \cup {StripSystem(p) : p \in ToSet(PathEnv)} :
            /\ At(shown, Place(Append(d, "su"))) = MagiskTarget("su")
            /\ At(shown, Place(Append(d, "magisk"))) = File("magisk")

(* With zygisk enabled the loader is in the library directory, so the        *)
(* native bridge property that set_prop has written can be loaded.           *)
LoaderIsInstalled ==
    shown # None /\ ZygiskEnabled =>
        \A a \in {<<"linker", "lib">>, <<"linker64", "lib64">>} :
            At(real, <<"system", "bin", a[1]>>) # None /\ IsDir(At(real, <<"system", a[2]>>))
                /\ Suitable(tree, <<a[2]>>) =>
                At(shown, <<"system", a[2], "libzygisk">>) = File("magisk")

(* What a device shows once the modules are mounted: nothing but directories *)
(* files and links, every change a module asks for and nothing else, the     *)
(* first module before the later ones (FsNode::collect and commit).          *)
OverlayIsShown ==
    /\ \A p \in PathsOf(shown) : At(shown, p).kind \in {"none", "dir", "file", "link", "whiteout"}
    /\ UnclaimedPathsStay /\ RootsKeepTheirEntries /\ ModulesAreShown /\ FirstModuleWins

(* Magisk's own files are there whatever the modules bring                   *)
(* (inject_magisk_bins, inject_zygisk_bins).                                 *)
MagiskIsInstalled == SuIsInstalled /\ LoaderIsInstalled
=============================================================================
