----------------------------- MODULE MCFileTree ----------------------------
(* A source with a file, a link and directories, and destinations that have *)
(* some of the same names.                                                  *)
EXTENDS FileTree

none == [kind |-> "none", data |-> "", attr |-> ""]
Of(kind, data) == [kind |-> kind, data |-> data, attr |-> "644"]
d0 == Of("dir", "")
Tree(m) == [p \in Paths |-> IF p \in DOMAIN m THEN m[p] ELSE none]

Sources == { (<<"src">> :> d0) @@ (<<"src", "a">> :> d0) @@ (<<"src", "a", "a">> :> Of("file", "s1"))
               @@ (<<"src", "b">> :> Of("file", "s2")),
             (<<"src">> :> d0) @@ (<<"src", "a">> :> d0) @@ (<<"src", "a", "b">> :> Of("link", "s1"))
               @@ (<<"src", "b">> :> d0) @@ (<<"src", "b", "a">> :> Of("file", "s2")),
             (<<"src">> :> d0) @@ (<<"src", "a">> :> Of("file", "s1")) @@ (<<"src", "b">> :> Of("link", "s2")) }
Dests == { <<"dest">> :> d0,
           (<<"dest">> :> d0) @@ (<<"dest", "a">> :> d0) @@ (<<"dest", "a", "a">> :> Of("file", "d1")),
           (<<"dest">> :> d0) @@ (<<"dest", "a">> :> Of("file", "d1")) @@ (<<"dest", "b">> :> d0),
           <<"dest">> :> Of("file", "d1") }
InitialTrees == {Tree(s @@ d) : s \in Sources, d \in Dests}
TSpec == TreeInit /\ [][TreeNext]_treeVars
=============================================================================
