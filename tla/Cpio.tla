-------------------------------- MODULE Cpio --------------------------------
(***************************************************************************)
(* `magiskboot cpio FILE CMD...`: the ramdisk archive, its commands and    *)
(* its backup.                                                             *)
(*                                                                         *)
(* A path is the sequence of its components; a trailing ".xz" suffix is a  *)
(* component of its own.  An archive maps paths to entries; mode, owner    *)
(* and device numbers are one value, attr.  Names and contents have        *)
(* lengths, because the image on disk is read back by computed offsets.    *)
(***************************************************************************)
EXTENDS Integers, Sequences, SequencesExt, FiniteSetsExt, TLC

CONSTANTS
  CompLen,          \* length of each path component
  Rank,             \* byte order of the path components
  Stock,            \* ramdisk images a device may come with
  CpioScripts,      \* command lists magiskboot is called with
  MaxCalls          \* bound on the number of calls of magiskboot cpio

VARIABLES
  cfile,    \* image of ramdisk.cpio on disk
  corig,    \* image of ramdisk.cpio.orig
  cpc,      \* "idle", or "run" while magiskboot runs
  cmem,     \* the entries in its memory
  ctodo,    \* commands it still has to execute
  cout,     \* entries extracted to the file system, by path
  ccalls,   \* calls so far
  cbacked   \* ghost: origin of the backup held in memory and in the file,
            \* as a set: empty when there is none or it was tampered with

cpioVars == <<cfile, corig, cpc, cmem, ctodo, cout, ccalls, cbacked>>

NormPath(p) == SelectSeq(p, LAMBDA c : c # "")

Under(dir, p) ==
  Len(p) > Len(dir) /\ IsPrefix(dir, p) /\ p[Len(dir) + 1] # ".xz" /\ dir # <<>>

BACKUP == <<".backup">>
RMLIST == <<".backup", ".rmlist">>
MAGISK == <<".backup", ".magisk">>

Entry(type, attr, data) == [type |-> type, attr |-> attr, data |-> data]

Put(a, p, e) == (NormPath(p) :> e) @@ a
Keep(a, S) == [p \in DOMAIN a \cap S |-> a[p]]

(* Before(p, q): the order of the BTreeMap.                                *)
Before(p, q) ==
  \/ IsStrictPrefix(p, q)
  \/ \E i \in 1 .. Min({Len(p), Len(q)}) :
       Rank[p[i]] < Rank[q[i]] /\ \A j \in 1 .. i - 1 : p[j] = q[j]

Sorted(a) ==
  [i \in 1 .. Cardinality(DOMAIN a) |->
     CHOOSE p \in DOMAIN a : Cardinality({q \in DOMAIN a : Before(q, p)}) = i - 1]

-----------------------------------------------------------------------------
(* The image: what stands at which offset.                                 *)

Align4(x) == ((x + 3) \div 4) * 4

HDR == 110

NameLen(p) ==
  FoldLeftDomain(LAMBDA n, i : n + CompLen[p[i]]
                   + (IF i > 1 /\ p[i] # ".xz" THEN 1 ELSE 0), 0, p)

DataLen(data) == data[2]

(* Mutant of DataOffset: the name is not padded.                           *)
DataOffset_Unpadded(name, p) == name + NameLen(p) + 1

(* Where the data of an entry whose name starts at `name` begins.          *)
DataOffset(name, p) == Align4(name + NameLen(p) + 1)

WriteEntry(img, p, e) ==
  LET name == img.end + HDR
      data == DataOffset(name, p)
  IN  [end |-> Align4(data + DataLen(e.data)),
       at  |-> img.at
               @@ (img.end :> [is |-> "hdr", namesize |-> NameLen(p) + 1, entry |-> e])
               @@ (name :> [is |-> "name", v |-> p])
               @@ (IF DataLen(e.data) > 0 THEN data :> [is |-> "data", v |-> e.data] ELSE <<>>)]

TRAILER == <<"TRAILER!!!">>

NoData == <<"", 0>>

Dump(img, a) ==
  WriteEntry(FoldLeft(LAMBDA i, p : WriteEntry(i, p, a[p]), img, Sorted(a)),
             TRAILER, Entry("none", "0755", NoData))

EmptyImage == [end |-> 0, at |-> <<>>]
MissingImage == [end |-> -1, at |-> <<>>]

(* What the slice of len bytes at pos holds.                               *)
ReadAt(img, pos, len) ==
  CASE len = 0 -> [is |-> "data", v |-> NoData]
    [] len > 0 /\ pos \in DOMAIN img.at -> img.at[pos]
    [] OTHER -> [is |-> "garbage"]

Headers(img, pos) == {x \in DOMAIN img.at : x >= pos /\ img.at[x].is = "hdr"}

(* load_from_data from offset pos; {} when it returns an error, else the   *)
(* singleton of the archive.                                               *)
RECURSIVE LoadFrom(_, _, _)
LoadFrom(img, pos, a) ==
  LET hdr  == ReadAt(img, pos, HDR)
      name == ReadAt(img, pos + HDR, hdr.namesize)
      data == Align4(pos + HDR + hdr.namesize)
      size == DataLen(hdr.entry.data)
      body == ReadAt(img, data, size)
  IN  CASE pos >= img.end -> {a}
        [] pos < img.end /\ (hdr.is # "hdr" \/ name.is # "name") -> {}
        [] OTHER ->
             CASE name.v \in {<<".">>, <<"..">>} -> LoadFrom(img, data, a)
               [] name.v = TRAILER ->
                    IF Headers(img, data) = {} THEN {a} ELSE LoadFrom(img, Min(Headers(img, data)), a)
               [] OTHER ->
                    IF body.is # "data" THEN {}
                    ELSE LoadFrom(img, Align4(data + size),
                                  (name.v :> [hdr.entry EXCEPT !.data = body.v]) @@ a)

(* A file that does not exist is an empty archive.                         *)
Load(img) == IF img.end < 0 THEN {<<>>} ELSE LoadFrom(img, 0, <<>>)

-----------------------------------------------------------------------------
(* The commands, as functions of the archive.                              *)

Rm(a, p, recursive) ==
  LET q == NormPath(p)
  IN  Keep(a, {k \in DOMAIN a : k # q /\ ~(recursive /\ Under(q, k))})

Compressed(data) == <<"xz", data[2] + 1, data>>
IsXz(data) == data[1] = "xz"
Decompressed(data) == data[3]

(* The data of .rmlist: the names, and a length.                           *)
RmData(names) == <<"names", Cardinality(names), names>>

VerityFlags == {"verify", "avb"}
EncryptFlags == {"forceencrypt"}

(* Where the value of the flag at position j ends: at the next blank.      *)
ValueEnd(buf, j) == Min({k \in j + 1 .. Len(buf) : buf[k] = " "} \cup {Len(buf) + 1})

(* match_patterns!: how many tokens of buf from position i a flag takes:   *)
(* one comma before it, the flag, and from a "=" on up to the next blank.  *)
MatchFlag(buf, i, flags) ==
  LET j == IF buf[i] = "," THEN i + 1 ELSE i
      Is(k, S) == k <= Len(buf) /\ buf[k] \in S
  IN  CASE ~Is(j, flags) -> 0
        [] Is(j, flags) /\ Is(j + 1, {"="}) -> ValueEnd(buf, j) - i
        [] OTHER -> j + 1 - i

(* remove_pattern: reads on after each match, copies what does not match.  *)
RECURSIVE RemoveFrom(_, _, _)
RemoveFrom(buf, i, flags) ==
  IF i > Len(buf) THEN <<>>
  ELSE LET len == MatchFlag(buf, i, flags)
       IN  IF len > 0 THEN RemoveFrom(buf, i + len, flags)
           ELSE <<buf[i]>> \o RemoveFrom(buf, i + 1, flags)

(* remove_pattern on the data of an entry, resized to what is left.        *)
RemovePattern(data, flags) ==
  LET left == RemoveFrom(data[3], 1, flags) IN <<data[1], Len(left), left>>

IsFstab(p, e) == p[1] = "fstab.qcom" /\ e.type = "reg"

PatchVerity(a, keep) ==
  IF keep THEN a
  ELSE [p \in DOMAIN a \ {<<"verity_key">>} |->
          IF IsFstab(p, a[p]) THEN [a[p] EXCEPT !.data = RemovePattern(@, VerityFlags)] ELSE a[p]]

PatchEncryption(a, keep) ==
  [p \in DOMAIN a |->
     IF ~keep /\ IsFstab(p, a[p])
     THEN [a[p] EXCEPT !.data = RemovePattern(@, EncryptFlags)] ELSE a[p]]

Patch(a, keepVerity, keepEncrypt) == PatchEncryption(PatchVerity(a, keepVerity), keepEncrypt)

(* test: 2 when another tool patched the ramdisk, 1 when Magisk did.       *)
Test(a) ==
  CASE DOMAIN a \cap {<<"sbin", "su">>, <<"init.xposed.rc">>} # {} -> 2
    [] DOMAIN a \cap {MAGISK, <<"init.magisk.rc">>} # {} -> 1
    [] OTHER -> 0

(* Where restore puts a backup, and with which content.                    *)
Unpack(p, e) ==
  IF Last(p) = ".xz" /\ e.type = "reg" /\ IsXz(e.data)
  THEN <<SubSeq(p, 2, Len(p) - 1), [e EXCEPT !.data = Decompressed(@)]>>
  ELSE <<Tail(p), e>>

Restore(a) ==
  LET saved   == {p \in DOMAIN a : Under(BACKUP, p)}
      rmlist  == IF RMLIST \in saved THEN a[RMLIST].data[3] ELSE {}
      backups == {p \in saved : p \notin {RMLIST, MAGISK}}
      rest    == Keep(a, DOMAIN a \ (saved \cup {BACKUP} \cup rmlist))
      \* the last of two backups of one name is the one inserted last
      From(n) == CHOOSE p \in backups : Unpack(p, a[p])[1] = n
                   /\ \A q \in backups : Unpack(q, a[q])[1] = n => Len(q) <= Len(p)
      back    == [n \in {Unpack(p, a[p])[1] : p \in backups} |-> Unpack(From(n), a[From(n)])[2]]
  IN  IF rmlist = {} /\ backups = {} THEN <<>> ELSE back @@ rest

(* Mutant of Lost: an entry that was only changed is not backed up.        *)
Lost_Missing(s, o) == DOMAIN o \ DOMAIN s

(* What the origin has and the archive no longer has as it was.            *)
Lost(s, o) == {p \in DOMAIN o : p \in DOMAIN s => s[p].data # o[p].data}

(* backup: the merge of the two sorted maps visits each name once.         *)
Backup(self, origin, skipCompress) ==
  LET o == Rm(origin, BACKUP, TRUE)
      s == Rm(self, BACKUP, TRUE)
      lost == Lost(s, o)
      new  == DOMAIN s \ DOMAIN o
      xz(p) == ~skipCompress /\ o[p].type = "reg"
      name(p) == BACKUP \o p \o (IF xz(p) THEN <<".xz">> ELSE <<>>)
      From(n) == CHOOSE p \in lost : name(p) = n
                   /\ \A q \in lost : name(q) = n => Len(q) <= Len(p)
      copies == [n \in {name(p) : p \in lost} |->
                   LET p == From(n) IN IF xz(p) THEN [o[p] EXCEPT !.data = Compressed(@)] ELSE o[p]]
  IN  (IF new = {} THEN <<>> ELSE RMLIST :> Entry("reg", "0", RmData(new)))
        @@ copies @@ (BACKUP :> Entry("dir", "0", NoData)) @@ s

-----------------------------------------------------------------------------
(* cpio_commands: the archive is changed in memory and dumped at the end.  *)

CpioInit ==
  /\ cfile \in Stock
  /\ corig = MissingImage
  /\ cpc = "idle" /\ cmem = <<>> /\ ctodo = <<>>
  /\ cout = <<>>
  /\ ccalls = 0
  /\ cbacked = [mem |-> {}, file |-> {}]

COpen ==
  /\ cpc = "idle" /\ ccalls < MaxCalls
  /\ ctodo' \in CpioScripts
  /\ cmem' \in Load(cfile)
  /\ cpc' = "run"
  /\ ccalls' = ccalls + 1
  /\ cbacked' = [cbacked EXCEPT !.mem = cbacked.file]
  /\ UNCHANGED <<cfile, corig, cout>>

(* cp ramdisk.cpio ramdisk.cpio.orig, in boot_patch.sh.                    *)
CopyOrig ==
  /\ cpc = "idle" /\ cfile # MissingImage
  /\ corig' = cfile
  /\ UNCHANGED <<cfile, cpc, cmem, ctodo, cout, ccalls, cbacked>>

Running(op) == cpc = "run" /\ ctodo # <<>> /\ Head(ctodo).op = op

(* The command leaves archive a; what it did to the backup is the ghost.   *)
Leaves(a, backed) ==
  /\ cmem' = a
  /\ ctodo' = Tail(ctodo)
  /\ cbacked' = [cbacked EXCEPT !.mem = backed]
  /\ UNCHANGED <<cfile, corig, cpc, ccalls>>

(* The function returns: an error, or a command that only looks.  Nothing  *)
(* is dumped.                                                              *)
Returns ==
  /\ cpc' = "idle" /\ cmem' = <<>> /\ ctodo' = <<>>
  /\ cbacked' = [cbacked EXCEPT !.mem = {}]
  /\ UNCHANGED <<cfile, corig, ccalls>>

BackedAfter(p) == IF NormPath(p) \in {BACKUP, MAGISK} THEN cbacked.mem ELSE {}

CAdd ==
  LET c == Head(ctodo) IN
  /\ Running("add") /\ UNCHANGED cout
  /\ IF Last(c.path) = "" \/ c.in.type \notin {"reg", "lnk", "blk", "chr"} THEN Returns
     ELSE Leaves(Put(cmem, c.path,
                     Entry(IF c.in.type = "lnk" THEN "reg" ELSE c.in.type, c.mode, c.in.data)),
                 BackedAfter(c.path))

CMkdir ==
  LET c == Head(ctodo) IN
  /\ Running("mkdir") /\ UNCHANGED cout
  /\ Leaves(Put(cmem, c.path, Entry("dir", c.mode, NoData)), BackedAfter(c.path))

(* The target is normalised too: a leading "/" of it is dropped.           *)
CLn ==
  LET c == Head(ctodo) IN
  /\ Running("ln") /\ UNCHANGED cout
  /\ Leaves(Put(cmem, c.path,
                Entry("lnk", "0", <<"path", NameLen(NormPath(c.src)), NormPath(c.src)>>)),
            BackedAfter(c.path))

CMv ==
  LET c == Head(ctodo)  from == NormPath(c.path) IN
  /\ Running("mv") /\ UNCHANGED cout
  /\ IF from \notin DOMAIN cmem THEN Returns
     ELSE Leaves(Put(Keep(cmem, DOMAIN cmem \ {from}), c.to, cmem[from]), {})

CRm ==
  LET c == Head(ctodo) IN
  /\ Running("rm") /\ UNCHANGED cout
  /\ Leaves(Rm(cmem, c.path, c.recursive), {})

CPatch ==
  LET c == Head(ctodo) IN
  /\ Running("patch") /\ UNCHANGED cout
  /\ Leaves(Patch(cmem, c.keepverity, c.keepencrypt), {})

(* Name and data of every entry outside .backup: what a backup is about.   *)
Content(a) == LET b == Rm(a, BACKUP, TRUE) IN [p \in DOMAIN b |-> b[p].data]

CBackup ==
  LET c == Head(ctodo)  origins == IF corig = MissingImage THEN {} ELSE Load(corig) IN
  /\ Running("backup") /\ UNCHANGED cout
  /\ \/ origins = {} /\ Returns
     \/ \E o \in origins :
          Leaves(Backup(cmem, o, c.skip), IF Content(cmem) # Content(o) THEN {Content(o)} ELSE {})

CRestore ==
  /\ Running("restore") /\ UNCHANGED cout
  /\ Leaves(Restore(cmem), {})

(* mkdirs of the parent of p.                                              *)
MadeDirs(p) == {SubSeq(p, 1, n) : n \in 1 .. Len(p) - 1}

(* extract_entry: the parent directories, then the entry; a directory that *)
(* exists is left alone, a file is truncated, a link fails.                *)
ExtractEntry(acc, p, e) ==
  LET dirs == MadeDirs(p) \ DOMAIN acc.out
      made == [d \in dirs |-> Entry("dir", "0755", NoData)] @@ acc.out
      old  == p \in DOMAIN made
  IN  CASE ~acc.ok \/ (old /\ e.type = "lnk") -> [acc EXCEPT !.ok = FALSE]
        [] acc.ok /\ ~old -> [acc EXCEPT !.out = (p :> e) @@ made]
        [] acc.ok /\ old /\ e.type = "reg" -> [acc EXCEPT !.out = [made EXCEPT ![p].data = e.data]]
        [] OTHER -> [acc EXCEPT !.out = made]

CExtract ==
  LET c == Head(ctodo)
      p == NormPath(c.path)
      start == [out |-> cout, ok |-> c.path = <<>> \/ p \in DOMAIN cmem]
      done == IF c.path = <<>>
              THEN FoldLeft(LAMBDA acc, q : ExtractEntry(acc, q, cmem[q]), start, Sorted(cmem))
              ELSE IF start.ok THEN ExtractEntry(start, c.out, cmem[p]) ELSE start
  IN
  /\ Running("extract")
  /\ cout' = done.out
  /\ IF done.ok THEN Leaves(cmem, cbacked.mem) ELSE Returns

(* test exits with a status; exists and ls return: nothing is dumped.      *)
CLook == Running("look") /\ Returns /\ UNCHANGED cout

CDump ==
  /\ cpc = "run" /\ ctodo = <<>>
  /\ cfile' = Dump(EmptyImage, cmem)
  /\ cpc' = "idle" /\ cmem' = <<>>
  /\ cbacked' = [mem |-> {}, file |-> cbacked.mem]
  /\ UNCHANGED <<corig, ctodo, cout, ccalls>>

CpioNext ==
  \/ COpen \/ CopyOrig \/ CDump
  \/ CAdd \/ CMkdir \/ CLn \/ CMv \/ CRm \/ CPatch \/ CBackup \/ CRestore
  \/ CExtract \/ CLook

-----------------------------------------------------------------------------
(* Property: an archive written by dump is read back by load_from_data as  *)
(* it was.  The offsets of load (header, name, padding, data, padding)     *)
(* must agree with those dump pads to, whatever the lengths.               *)
LoadInvertsDump == cpc = "run" => Load(Dump(EmptyImage, cmem)) = {cmem}

(* Property: restore after backup brings every name and content of the     *)
(* origin back, across the commands before the backup, the patched image   *)
(* written and read in between, the compression of the copies and a second *)
(* round of patching, and the result tests as stock; unless the archive    *)
(* did not differ from the origin, in which case restore finds nothing to  *)
(* restore and empties it.                                                 *)
RestoreUndoesBackup ==
  [][Running("restore") => \A o \in cbacked.mem : Content(cmem') = o /\ Test(cmem') = 0]_cpioVars

(* Property: extracting the whole archive gives every entry its own mode:  *)
(* the 0755 directories extract_entry makes for a path whose parent is     *)
(* missing never take the place of a directory the archive has.            *)
ExtractKeepsModes ==
  [][Running("extract") /\ Head(ctodo).path = <<>> /\ cout = <<>>
       => \A p \in DOMAIN cmem : p \in DOMAIN cout' /\ cout'[p] = cmem[p]]_cpioVars

Blanks(e) == Len(SelectSeq(e.data[3], LAMBDA t : t = " "))

(* Property: patch leaves no dm-verity or encryption flag in an fstab and  *)
(* keeps the columns of its line: a value "=..." ends at the next blank.   *)
PatchKeepsColumns ==
  [][Running("patch") =>
       \A p \in DOMAIN cmem : IsFstab(p, cmem[p]) =>
         /\ Blanks(cmem'[p]) = Blanks(cmem[p])
         /\ ~Head(ctodo).keepverity => VerityFlags \cap Range(cmem'[p].data[3]) = {}
         /\ ~Head(ctodo).keepencrypt => EncryptFlags \cap Range(cmem'[p].data[3]) = {}]_cpioVars

(* Property: no command of cpio_commands loses or garbles what it is to      *)
(* keep: restore, extract and patch as above.                                *)
CommandsKeepEntries == RestoreUndoesBackup /\ ExtractKeepsModes /\ PatchKeepsColumns
=============================================================================
