------------------------------- MODULE Mounts ------------------------------
(***************************************************************************)
(* What core/mount.rs does with the mounts it finds in mountinfo: choose   *)
(* the partition for preinit files, link its directory at boot, mount the  *)
(* modules directory, and take Magisk's mounts out of a process's          *)
(* namespace.  A mount is a record of target (a tuple of names), root,     *)
(* source, device, fs and options; a namespace is a sequence of them.      *)
(***************************************************************************)
EXTENDS Integers, Sequences, FiniteSets, SequencesExt

CONSTANTS Namespaces,  \* what may be mounted when the daemon starts
          TargetOrder, \* all targets, in the order of their strings
          FileTargets, \* the targets modules mount files on
          CryptStates  \* subset of {"none", "block", "file", "metadata"}

VARIABLES ns,      \* the daemon's namespace
          crypt,   \* ro.crypto.*
          preinit, \* [dev, link]: PREINITDEV's device and where PREINITMIRR leads
          app,     \* the namespace of a process on the denylist, its mounts before, and whether it was cleaned
          mphase   \* how far the daemon got

mountVars == <<ns, crypt, preinit, app, mphase>>

PartOf == [data |-> 1, cache |-> 2, klogdump |-> 3, metadata |-> 4, persist |-> 5]

\* parse_mount_info: up to the first line that does not parse.
ParseMountInfo(mounts) ==
  LET bad == {i \in 1 .. Len(mounts) : ~mounts[i].parses} IN
  IF bad = {} THEN mounts ELSE SubSeq(mounts, 1, (CHOOSE i \in bad : \A j \in bad : i <= j) - 1)

-----------------------------------------------------------------------------
(* find_preinit_device *)

EncryptedData(info) == info.part = "data" /\ crypt \in {"block", "metadata"}

\* A writable partition that can be mounted by name before anything is decrypted.
Candidate(info) ==
  /\ info.root = "/" /\ info.source \in {"by-name", "block"} /\ info.fs \in {"ext4", "f2fs"} /\ info.rw
  /\ ~(info.mapper /\ info.source # "by-name")
  /\ info.part \in DOMAIN PartOf /\ ~EncryptedData(info)

\* Mutant of Preferred: only the order of the partitions counts.
Preferred_NoFs(a, b) == PartOf[a.part] < PartOf[b.part]

\* The comparison: ext4 first, but metadata against ext4 by the order of the partitions.
Preferred(a, b) ==
  IF (a.part = "metadata" /\ b.fs = "ext4") \/ (b.part = "metadata" /\ a.fs = "ext4") \/ a.fs = b.fs
  THEN PartOf[a.part] < PartOf[b.part]
  ELSE a.fs = "ext4"

\* select_nth_unstable_by(0): keep the first, replace it by what is less.
LeastOf(infos) == FoldLeft(LAMBDA least, info : IF Preferred(info, least) THEN info ELSE least, Head(infos), Tail(infos))

Matched == SelectSeq(ParseMountInfo(ns), Candidate)

\* magisk --preinit-device with MAKEDEV, as the app runs it.
MFindPreinit ==
  /\ mphase = "install"
  /\ preinit' = IF Matched = <<>> THEN preinit
                ELSE [dev |-> {LeastOf(Matched).dev}, link |-> {LeastOf(Matched).target}]
  /\ mphase' = "boot"
  /\ UNCHANGED <<ns, crypt, app>>

\* setup_preinit_dir: the first writable mount of that device's root, or none.
MSetupPreinit ==
  /\ mphase = "boot"
  /\ LET infos == ParseMountInfo(ns)
         found == {i \in 1 .. Len(infos) : infos[i].root = "/" /\ infos[i].dev \in preinit.dev /\ infos[i].rw} IN
     preinit' = [preinit EXCEPT !.link =
                   IF found = {} THEN {} ELSE {infos[CHOOSE i \in found : \A j \in found : i <= j].target}]
  /\ mphase' = "modules"
  /\ UNCHANGED <<ns, crypt, app>>

-----------------------------------------------------------------------------

IsUnder(t, p) == Len(p) <= Len(t) /\ SubSeq(t, 1, Len(p)) = p
IsMagisk(info) == info.source = "magisk" \/ info.root = "/adb/modules"

\* MNT_DETACH of what is seen at t: the last mount there, with all that is on it.
Detach(mounts, t) ==
  LET at == {i \in 1 .. Len(mounts) : mounts[i].target = t}
      top == CHOOSE i \in at : \A j \in at : j <= i IN
  IF at = {} THEN mounts
  ELSE SubSeq(mounts, 1, top - 1)
       \o SelectSeq(SubSeq(mounts, top + 1, Len(mounts)), LAMBDA m : ~IsUnder(m.target, t))

Magisk0 == [root |-> "/", source |-> "magisk", dev |-> 0, fs |-> "tmpfs", rw |-> TRUE, mapper |-> FALSE,
            part |-> "none", parses |-> TRUE]

\* setup_module_mount, and module files over the system's.
MMountModules ==
  /\ mphase = "modules"
  /\ ns' = ns \o << [Magisk0 EXCEPT !.root = "/adb/modules", !.source = "block"] @@ [target |-> <<"modules">>] >>
  /\ mphase' = "up"
  /\ UNCHANGED <<crypt, preinit, app>>

MMountFile ==
  /\ mphase = "up" /\ ~app.started
  /\ \E t \in FileTargets :
       /\ \A i \in 1 .. Len(ns) : ~IsUnder(ns[i].target, t)
       /\ \E kind \in {"magisk", "module"} :
            ns' = Append(ns, [Magisk0 EXCEPT !.root = IF kind = "module" THEN "/adb/modules" ELSE "/",
                                             !.source = IF kind = "module" THEN "block" ELSE "magisk"] @@ [target |-> t])
  /\ UNCHANGED <<crypt, preinit, app, mphase>>

\* clean_mounts, when the daemon is stopped.
MCleanMounts ==
  /\ mphase = "up"
  /\ ns' = Detach(Detach(ns, <<"modules">>), <<"worker">>)
  /\ mphase' = "stopped"
  /\ UNCHANGED <<crypt, preinit, app>>

\* A process with a namespace of its own.
MFork ==
  /\ mphase = "up" /\ ~app.started
  /\ app' = [mounts |-> ns, before |-> ns, started |-> TRUE, cleaned |-> FALSE]
  /\ UNCHANGED <<ns, crypt, preinit, mphase>>

\* Mutant of Covers: a mount in the same top directory is enough.
Covers_TopDir(prev, t) == prev[1] = t[1]

Covers(prev, t) == IsUnder(t, prev)

\* The sorted targets, less those under the one kept before them.
Targets(mounts) ==
  LET mine == SelectSeq(ParseMountInfo(mounts), IsMagisk)
      sorted == SelectSeq(TargetOrder, LAMBDA t : \E i \in 1 .. Len(mine) : mine[i].target = t) IN
  FoldLeft(LAMBDA kept, t : IF kept # <<>> /\ Covers(Last(kept), t) THEN kept ELSE Append(kept, t), <<>>, sorted)

\* revert_unmount
MRevert ==
  /\ app.started /\ ~app.cleaned
  /\ app' = [app EXCEPT !.mounts = FoldLeft(Detach, @, Targets(@)), !.cleaned = TRUE]
  /\ UNCHANGED <<ns, crypt, preinit, mphase>>

-----------------------------------------------------------------------------

MountInit ==
  /\ ns \in Namespaces /\ crypt \in CryptStates
  /\ preinit = [dev |-> {}, link |-> {}]
  /\ app = [mounts |-> <<>>, before |-> <<>>, started |-> FALSE, cleaned |-> FALSE]
  /\ mphase = "install"

MountNext == MFindPreinit \/ MSetupPreinit \/ MMountModules \/ MMountFile \/ MCleanMounts \/ MFork \/ MRevert

-----------------------------------------------------------------------------
(* Properties *)

\* The preinit partition is one magiskinit can use, never encrypted data; and
\* unless metadata is among the candidates nothing else would have been better:
\* no ext4 partition before an f2fs one, no partition listed earlier.
PreinitIsBest ==
  mphase = "boot" /\ Matched # <<>> =>
    \E i \in 1 .. Len(Matched) :
      /\ preinit.dev = {Matched[i].dev} /\ ~EncryptedData(Matched[i])
      /\ (\A j \in 1 .. Len(Matched) : Matched[j].part # "metadata") =>
           \A j \in 1 .. Len(Matched) :
             \/ Matched[i].fs = "ext4" /\ Matched[j].fs = "f2fs"
             \/ Matched[i].fs = Matched[j].fs /\ PartOf[Matched[i].part] <= PartOf[Matched[j].part]

\* A process on the denylist sees nothing of Magisk once its namespace was
\* reverted, and it keeps every other mount that is not on one of Magisk's
\* (when every line of mountinfo parses).
RevertHidesAll ==
  app.cleaned /\ ParseMountInfo(app.before) = app.before =>
    /\ \A i \in 1 .. Len(app.mounts) : ~IsMagisk(app.mounts[i])
    /\ \A i \in 1 .. Len(app.before) :
         \/ \E j \in 1 .. Len(app.mounts) : app.mounts[j] = app.before[i]
         \/ \E k \in 1 .. i : IsMagisk(app.before[k]) /\ IsUnder(app.before[i].target, app.before[k].target)
=============================================================================
