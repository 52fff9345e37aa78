------------------------------ MODULE FileTree -----------------------------
(***************************************************************************)
(* The recursive file operations of base/files.rs and base/dir.rs:         *)
(* remove_all, mkdirs, copy_to, move_to, link_to, clone_attr.  A file      *)
(* system is a record of the inode at each path (0: none) and the inodes;  *)
(* a path is a tuple of names.  A directory is read in an unknown order.   *)
(***************************************************************************)
EXTENDS Integers, Sequences, FiniteSets, FiniteSetsExt, SequencesExt

CONSTANTS EntryNames,     \* names of entries
          Trees,     \* functions from paths to nodes, see MCFileTree
          MaxOps     \* bound on operations

VARIABLES fs,    \* [at, ino]
          op,    \* the last operation and how it ended
          before,\* the file system before it
          mirror,\* the paths linked so far, with what they held
          ops

treeVars == <<fs, op, before, mirror, ops>>

TreeRoots == {"src", "dest", "mirror"}
Paths == {<<r>> : r \in TreeRoots} \cup {<<r, x>> : r \in TreeRoots, x \in EntryNames}
         \cup {<<r, x, y>> : r \in TreeRoots, x \in EntryNames, y \in EntryNames}
Inodes == 1 .. 24

Done(f) == [fs |-> f, ok |-> TRUE]
Failed(f) == [fs |-> f, ok |-> FALSE]
Then(r, Next(_)) == IF r.ok THEN Next(r.fs) ELSE r

Exists(f, p) == p \in Paths /\ f.at[p] # 0
Node(f, p) == f.ino[f.at[p]]
Kind(f, p) == IF Exists(f, p) THEN Node(f, p).kind ELSE "none"
Beneath(p) == {q \in Paths : IsPrefix(p, q) /\ p # q}
IsEmpty(f, p) == \A q \in Beneath(p) : ~Exists(f, q)
Free(f) == Min({i \in Inodes : \A p \in Paths : f.at[p] # i})

-----------------------------------------------------------------------------
(* System calls *)

Create(f, p, node) ==
  IF Exists(f, p) THEN Failed(f)
  ELSE Done([at |-> [f.at EXCEPT ![p] = Free(f)], ino |-> [f.ino EXCEPT ![Free(f)] = node]])

\* mkdir: an existing path is fine.
Mkdir(f, p) == IF Exists(f, p) THEN Done(f) ELSE Create(f, p, [kind |-> "dir", data |-> "", attr |-> "777"])

\* remove, unlink: a directory must be empty.
Unlink(f, p) ==
  IF Exists(f, p) /\ IsEmpty(f, p) THEN Done([f EXCEPT !.at[p] = 0]) ELSE Failed(f)

\* rename: a file may replace a file, a directory an empty directory.
Rename(f, s, d) ==
  IF \/ ~Exists(f, s)
     \/ Exists(f, d) /\ ((Kind(f, s) = "dir") # (Kind(f, d) = "dir") \/ ~IsEmpty(f, d)) THEN Failed(f)
  ELSE Done([f EXCEPT !.at = [p \in Paths |->
         IF IsPrefix(s, p) THEN 0
         ELSE IF IsPrefix(d, p) THEN f.at[s \o SubSeq(p, Len(d) + 1, Len(p))] ELSE f.at[p]]])

SetAttr(f, p, attr) == IF Exists(f, p) THEN Done([f EXCEPT !.ino[f.at[p]].attr = attr]) ELSE Failed(f)

\* open with O_CREAT and O_TRUNC, write: an existing file keeps its inode.
WriteFile(f, p, data) ==
  CASE Kind(f, p) = "none" -> Create(f, p, [kind |-> "file", data |-> data, attr |-> "777"])
    [] Kind(f, p) = "file" -> Done([f EXCEPT !.ino[f.at[p]].data = data])
    [] OTHER -> Failed(f)

HardLink(f, s, d) == IF Exists(f, d) THEN Failed(f) ELSE Done([f EXCEPT !.at[d] = f.at[s]])

-----------------------------------------------------------------------------
(* dir.rs: the entries of src into dir, in the order they are read *)

\* Mutant of Merged: the directory is removed whatever became of its entries.
Merged_Force(r, s) == Done([r.fs EXCEPT !.at = [q \in Paths |-> IF IsPrefix(s, q) THEN 0 ELSE r.fs.at[q]]])

\* The emptied directory goes; with an entry left in it, that is an error.
Merged(r, s) == Then(r, LAMBDA g : Unlink(g, s))

RECURSIVE MoveInto(_, _, _, _, _)
MoveInto(f, src, dir, left, order) ==
  IF left = <<>> THEN Done(f)
  ELSE LET s == Append(src, Head(left))
           d == Append(dir, Head(left)) IN
       IF Kind(f, s) = "none" THEN MoveInto(f, src, dir, Tail(left), order)
       ELSE IF Kind(f, s) = "dir" /\ Exists(f, d)
       THEN IF Kind(f, d) # "dir" THEN Failed(f)
            \* the rest of src is not read
            ELSE Merged(MoveInto(f, s, d, order, order), s)
       ELSE Then(Rename(f, s, d), LAMBDA g : MoveInto(g, src, dir, Tail(left), order))

CopyAttr(f, p, attr) == SetAttr(f, p, attr)

RECURSIVE CopyInto(_, _, _, _, _)
CopyInto(f, src, dir, left, order) ==
  IF left = <<>> THEN Done(f)
  ELSE LET s == Append(src, Head(left))
           d == Append(dir, Head(left))
           copied ==
             CASE Kind(f, s) = "none" -> Done(f)
               [] Kind(f, s) = "dir" ->
                    Then(Mkdir(f, d), LAMBDA g : IF Kind(g, d) = "dir" THEN CopyInto(g, s, d, order, order) ELSE Failed(g))
               [] Kind(f, s) = "file" -> WriteFile(f, d, Node(f, s).data)
               [] Kind(f, s) = "link" -> Create(f, d, [Node(f, s) EXCEPT !.attr = "777"]) IN
       Then(IF Kind(f, s) = "none" THEN Done(f) ELSE Then(copied, LAMBDA g : CopyAttr(g, d, Node(f, s).attr)),
            LAMBDA g : CopyInto(g, src, dir, Tail(left), order))

RECURSIVE LinkInto(_, _, _, _, _)
LinkInto(f, src, dir, left, order) ==
  IF left = <<>> THEN Done(f)
  ELSE LET s == Append(src, Head(left))
           d == Append(dir, Head(left))
           linked ==
             CASE Kind(f, s) = "none" -> Done(f)
               [] Kind(f, s) = "dir" ->
                    Then(Mkdir(f, d), LAMBDA g : IF Kind(g, d) # "dir" THEN Failed(g)
                         ELSE Then(LinkInto(g, s, d, order, order), LAMBDA h : SetAttr(h, d, Node(f, s).attr)))
               [] OTHER -> HardLink(f, s, d) IN
       Then(linked, LAMBDA g : LinkInto(g, src, dir, Tail(left), order))

-----------------------------------------------------------------------------
(* files.rs *)

\* remove_all: everything below in post-order, then the path.
RemoveAll(f, p) ==
  IF ~Exists(f, p) THEN Done(f)
  ELSE Done([f EXCEPT !.at = [q \in Paths |-> IF IsPrefix(p, q) THEN 0 ELSE f.at[q]]])

RECURSIVE Mkdirs(_, _, _)
Mkdirs(f, p, n) ==
  IF n > Len(p) THEN Done(f)
  ELSE IF n > 1 /\ Kind(f, SubSeq(p, 1, n - 1)) # "dir" THEN Failed(f)
  ELSE Then(Mkdir(f, SubSeq(p, 1, n)), LAMBDA g : Mkdirs(g, p, n + 1))

\* "It's OK if remove failed"
Cleared(f, p) == Unlink(f, p).fs

CopyTo(f, s, d, order) ==
  LET attr == Node(f, s).attr IN
  IF ~Exists(f, s) THEN Failed(f)
  ELSE IF Kind(f, s) = "dir"
  THEN Then(Then(Mkdir(f, d), LAMBDA g : IF Kind(g, d) = "dir" THEN CopyInto(g, s, d, order, order) ELSE Failed(g)),
            LAMBDA g : SetAttr(g, d, attr))
  ELSE LET g == Cleared(f, d) IN
       Then(IF Kind(f, s) = "file" THEN WriteFile(g, d, Node(f, s).data) ELSE Create(g, d, Node(f, s)),
            LAMBDA h : SetAttr(h, d, attr))

MoveTo(f, s, d, order) ==
  IF Kind(f, d) = "dir" THEN IF Kind(f, s) = "dir" THEN MoveInto(f, s, d, order, order) ELSE Failed(f)
  ELSE IF Exists(f, d) THEN Then(Unlink(f, d), LAMBDA g : Rename(g, s, d))
  ELSE Rename(f, s, d)

LinkTo(f, s, d, order) ==
  LET attr == Node(f, s).attr IN
  IF ~Exists(f, s) THEN Failed(f)
  ELSE IF Kind(f, s) # "dir" THEN HardLink(f, s, d)
  ELSE Then(Then(Mkdir(f, d), LAMBDA g : SetAttr(g, d, attr)),
            LAMBDA g : IF Kind(g, d) = "dir" THEN LinkInto(g, s, d, order, order) ELSE Failed(g))

CloneAttr(f, a, b) == IF Exists(f, a) THEN SetAttr(f, b, Node(f, a).attr) ELSE Failed(f)

-----------------------------------------------------------------------------
(* The operations, one after the other *)

Orders == SetToSeqs(EntryNames)
Did(name, s, d, r) ==
  /\ fs' = r.fs /\ before' = fs /\ op' = [name |-> name, s |-> s, d |-> d, ok |-> r.ok]
  /\ ops < MaxOps /\ ops' = ops + 1

FileContent(f, p) == IF Exists(f, p) THEN Node(f, p) ELSE [kind |-> "none", data |-> "", attr |-> ""]

DoMove == \E s \in {<<"src">>} \cup {<<"src", x>> : x \in EntryNames}, o \in Orders :
  LET d == <<"dest">> \o Tail(s) IN Exists(fs, s) /\ Did("move", s, d, MoveTo(fs, s, d, o)) /\ UNCHANGED mirror

DoCopy == \E s \in {<<"src">>} \cup {<<"src", x>> : x \in EntryNames}, o \in Orders :
  LET d == <<"dest">> \o Tail(s) IN Exists(fs, s) /\ Did("copy", s, d, CopyTo(fs, s, d, o)) /\ UNCHANGED mirror

DoLink == \E o \in Orders :
  LET r == LinkTo(fs, <<"dest">>, <<"mirror">>, o) IN
  /\ Did("link", <<"dest">>, <<"mirror">>, r)
  /\ mirror' = IF r.ok THEN [p \in Beneath(<<"mirror">>) |-> FileContent(r.fs, p)] ELSE mirror

DoRemove == \E d \in {<<"dest">>} \cup {<<"dest", x>> : x \in EntryNames} :
  Exists(fs, d) /\ Did("remove", d, d, RemoveAll(fs, d)) /\ UNCHANGED mirror

DoMkdirs == \E x, y \in EntryNames :
  LET d == <<"dest", x, y>> IN Did("mkdirs", d, d, Mkdirs(fs, d, 1)) /\ UNCHANGED mirror

DoClone == \E x \in EntryNames :
  Did("clone", <<"src", x>>, <<"src">>, CloneAttr(fs, <<"src", x>>, <<"src">>)) /\ UNCHANGED mirror

\* The initial trees: file by file, the n-th path that exists has inode n.
TreeOf(t) ==
  LET there == FoldSet(LAMBDA p, s : Append(s, p), <<>>, {p \in Paths : t[p].kind # "none"})
      num == [p \in Paths |-> IF t[p].kind = "none" THEN 0 ELSE CHOOSE i \in 1 .. Len(there) : there[i] = p] IN
  [at |-> num,
   ino |-> [i \in Inodes |-> IF i <= Len(there) THEN t[there[i]] ELSE [kind |-> "none", data |-> "", attr |-> ""]]]

TreeInit ==
  /\ fs \in {TreeOf(t) : t \in Trees}
  /\ before = fs /\ op = [name |-> "none", s |-> <<>>, d |-> <<>>, ok |-> TRUE]
  /\ mirror = [p \in {} |-> fs.ino[1]] /\ ops = 0

TreeNext == DoMove \/ DoCopy \/ DoLink \/ DoRemove \/ DoMkdirs \/ DoClone

-----------------------------------------------------------------------------
(* Properties *)

Moved(p) == op.d \o SubSeq(p, Len(op.s) + 1, Len(p))
SourcePaths == {p \in Paths : IsPrefix(op.s, p) /\ Exists(before, p)}

\* A move never loses a file, whether it succeeds or fails half way: each file
\* of the source is afterwards in exactly one of the two places, unchanged.
MoveLosesNoFile ==
  op.name = "move" =>
    \A p \in SourcePaths : Kind(before, p) # "dir" =>
      (FileContent(fs, p) = FileContent(before, p)) # (FileContent(fs, Moved(p)) = FileContent(before, p) /\ ~Exists(fs, p))

\* A copy that succeeds has everything of the source, with content, mode, owner
\* and context, and leaves the source as it was.
CopyIsComplete ==
  op.name = "copy" /\ op.ok =>
    \A p \in SourcePaths : FileContent(fs, Moved(p)) = FileContent(before, p) /\ FileContent(fs, p) = FileContent(before, p)

\* What was linked away keeps its content when files are then moved or copied
\* over the originals one at a time, as patch_rw_root does with /sbin.
MirrorSurvives ==
  op.name \in {"move", "remove"} \/ (op.name = "copy" /\ Len(op.s) > 1 /\ Kind(before, op.s) # "dir") =>
    \A p \in DOMAIN mirror : FileContent(fs, p) = FileContent(before, p)

\* No operation on trees (move_to, copy_to, link_to) loses or damages a file.
NoFileIsLost == MoveLosesNoFile /\ CopyIsComplete /\ MirrorSurvives
=============================================================================
