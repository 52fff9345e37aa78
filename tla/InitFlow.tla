------------------------------ MODULE InitFlow -----------------------------
(***************************************************************************)
(* How magiskinit gets through a boot (init/{init,twostage,mount}.rs,      *)
(* getinfo.rs, mount_system_root): which program is process 1, which file  *)
(* each exec finds, and what is mounted over it.  magiskinit runs once or  *)
(* twice; in between runs the stock init, which is external.               *)
(*                                                                         *)
(* Files hold "magiskinit", "stock" (the init of the ramdisk or of a       *)
(* single-stage root), "hexed" (stock, with /system/bin/init replaced by   *)
(* /data/magiskinit), "second" (the second stage init) or "link" (to       *)
(* /system/bin/init).                                                      *)
(***************************************************************************)
EXTENDS Integers, Sequences, FiniteSets

CONSTANTS BootDevices, \* the kinds of device, see MCInitFlow
          MountTables, \* what may be mounted when the root is switched, in mountinfo order
          ByteOrder    \* all paths of MountTables, in the order of their strings

VARIABLES bdev,    \* the device booting
          root,    \* "ramdisk" or "system"
          file,    \* the files of the ramdisk, /data included
          bind,    \* what is mounted over /init, /sdcard and /system/bin/init
          sysroot, \* /system/bin/init is the one of the system image
          proc1,   \* the program that is process 1 and its argument
          mlist,   \* mount_list
          mounted, \* what magiskinit mounted for itself
          patches, \* 0, 1 or several calls of patch_ro_root and patch_rw_root
          table    \* [before, moved]: the mounts the switch of roots met and moved

flowVars == <<bdev, root, file, bind, sysroot, proc1, mlist, mounted, patches, table>>

\* The file below a mount: the system image has its own inits.
Below(path) ==
  CASE path = "/init" /\ root = "system" -> IF bdev.twostage THEN "link" ELSE "stock"
    [] path = "/system/bin/init" /\ sysroot -> IF bdev.twostage THEN "second" ELSE "none"
    [] OTHER -> file[path]

View(path) ==
  IF path \in DOMAIN bind /\ bind[path] # "none" THEN bind[path] ELSE Below(path)

\* A path after its symbolic link: what mount, open and exec work on.
Resolve(path) == IF View(path) = "link" THEN "/system/bin/init" ELSE path

Magisk(arg) == [prog |-> "magiskinit", pc |-> "start", arg |-> arg]

\* execve: the program found, or a dead boot.
Exec(path, arg) ==
  [prog |-> View(Resolve(path)), pc |-> "start", arg |-> arg]

\* patches counts 0, 1, several.
Once == [n \in 0 .. 2 |-> IF n < 2 THEN n + 1 ELSE 2]

-----------------------------------------------------------------------------
(* magiskinit *)

\* check_two_stage: directories of the ramdisk, or a string of the stock init.
CheckTwoStage == bdev.hints \/ file["/system/bin/init"] # "none" \/ (file["/.backup/init"] # "none" /\ bdev.twostage)

\* start: proc and sys, unless the kernel or the stock first stage mounted them; then the kind of boot.
Start ==
  /\ proc1.prog = "magiskinit" /\ proc1.pc = "start"
  /\ LET own == IF proc1.arg = "" /\ ~bdev.early THEN <<"/proc", "/sys">> ELSE <<>> IN
     /\ mlist' = own
     /\ mounted' = mounted \cup {own[i] : i \in 1 .. Len(own)}
  /\ proc1' = [proc1 EXCEPT !.pc =
       CASE proc1.arg = "selinux_setup" -> "second_stage"
         [] proc1.arg = "" /\ bdev.skip_initramfs -> "legacy_sar"
         [] proc1.arg = "" /\ ~bdev.skip_initramfs /\ bdev.force_normal_boot -> "first_stage"
         [] proc1.arg = "" /\ ~bdev.skip_initramfs /\ ~bdev.force_normal_boot ->
              IF bdev.recovery THEN "recovery" ELSE IF CheckTwoStage THEN "first_stage" ELSE "rootfs"]
  /\ UNCHANGED <<bdev, root, file, bind, sysroot, patches, table>>

\* prepare_data: a copy of magiskinit on a tmpfs that survives.
PrepareData(f) == [f EXCEPT !["/data/magiskinit"] = View("/init")]

\* restore_ramdisk_init
RestoreRamdiskInit(f) ==
  IF f["/.backup/init"] # "none"
  THEN [f EXCEPT !["/init"] = f["/.backup/init"], !["/.backup/init"] = "none"]
  ELSE [f EXCEPT !["/init"] = "link"]

\* hijack_init_with_switch_root, the file part: magiskinit becomes /sdcard.
MoveToSdcard(f) == [f EXCEPT !["/sdcard"] = f["/init"], !["/init"] = "none"]

HexPatch(content) == IF content = "stock" THEN "hexed" ELSE content

\* hexpatch_init_for_second_stage(true): through the link, if it is one.
HexPatchInPlace(f) ==
  LET target == IF f["/init"] = "link" THEN "/system/bin/init" ELSE "/init" IN
  [f EXCEPT ![target] = HexPatch(@)]

\* /sdcard in the ramdisk is the sign of a device that does not switch root.
SwitchRootWillHelp == ~bdev.sdcard

FirstStage ==
  /\ proc1.prog = "magiskinit" /\ proc1.pc = "first_stage"
  /\ IF SwitchRootWillHelp
     THEN /\ file' = RestoreRamdiskInit(MoveToSdcard(PrepareData(file)))
          /\ bind' = [bind EXCEPT !["/sdcard"] = MoveToSdcard(PrepareData(file))["/sdcard"]]
     ELSE /\ file' = HexPatchInPlace(RestoreRamdiskInit(PrepareData(file)))
          /\ UNCHANGED bind
  /\ mounted' = mounted \cup {"/data"}
  /\ proc1' = [proc1 EXCEPT !.pc = "exec_init"]
  /\ UNCHANGED <<bdev, root, sysroot, mlist, patches, table>>

\* Mutant of Unhijacked: only /init is uncovered.
Unhijacked_InitOnly == [bind EXCEPT !["/init"] = "none"]

\* second_stage uncovers both places the first stage may have hijacked.
Unhijacked == [bind EXCEPT !["/init"] = "none", !["/system/bin/init"] = "none"]

SecondStage ==
  /\ proc1.prog = "magiskinit" /\ proc1.pc = "second_stage"
  /\ bind' = Unhijacked
  /\ file' = IF root = "ramdisk" THEN [file EXCEPT !["/data/init"] = "none", !["/init"] = "link"]
             ELSE [file EXCEPT !["/data/init"] = "none"]
  /\ patches' = Once[patches] /\ mlist' = Append(mlist, "/data")
  /\ proc1' = [proc1 EXCEPT !.pc = "exec_init"]
  /\ UNCHANGED <<bdev, root, sysroot, mounted, table>>

\* The greatest path already moved that comes before t, if any.
LastBefore(moved, t) ==
  {p \in moved : LET at(q) == CHOOSE i \in 1 .. Len(ByteOrder) : ByteOrder[i] = q IN
                 at(p) < at(t) /\ \A q \in moved : at(q) < at(t) => at(q) <= at(p)}

IsBelow(t, p) == Len(p) < Len(t) /\ SubSeq(t, 1, Len(p)) = p

\* Mutant of TravelsAlong: every path moves by itself.
TravelsAlong_Never(moved, t) == FALSE

\* A mount that moves with the one above it.
TravelsAlong(moved, t) == \E p \in LastBefore(moved, t) : IsBelow(t, p)

\* switch_root: the mounts to move one by one, in order; the set moved so far is in m[i].
SwitchRootMoves(mounts) ==
  LET m[i \in 0 .. Len(mounts)] ==
        IF i = 0 THEN <<>>
        ELSE LET done == {m[i - 1][j] : j \in 1 .. Len(m[i - 1])} IN
             IF TravelsAlong(done, mounts[i]) THEN m[i - 1] ELSE Append(m[i - 1], mounts[i])
  IN m[Len(mounts)]

\* legacy_system_as_root, mount_system_root and switch_root: the ramdisk is gone.
LegacySystemAsRoot ==
  /\ proc1.prog = "magiskinit" /\ proc1.pc = "legacy_sar"
  /\ bdev.partition \/ ~bdev.rootwait
  /\ IF ~bdev.partition
     THEN proc1' = [proc1 EXCEPT !.pc = "dead"] /\ UNCHANGED <<root, file, bind, sysroot, mlist, mounted, patches, table>>
     ELSE /\ \E t \in MountTables : table' = [before |-> t, moved |-> SwitchRootMoves(t)]
          /\ root' = "system" /\ sysroot' = TRUE
          /\ file' = [f \in DOMAIN file |->
                        CASE f = "/data/magiskinit" -> View("/init")
                          [] f = "/data/init" -> IF bdev.twostage THEN "hexed" ELSE "none"
                          [] OTHER -> "none"]
          /\ IF bdev.twostage
             THEN bind' = [bind EXCEPT !["/system/bin/init"] = "hexed"] /\ UNCHANGED patches  \* /init is a link there
             ELSE patches' = Once[patches] /\ UNCHANGED bind
          /\ mlist' = mlist \o (IF bdev.twostage THEN <<"/dev">> ELSE <<"/dev", "/data">>)
          /\ mounted' = mounted \cup {"/data", "/dev"}
          /\ proc1' = [proc1 EXCEPT !.pc = "exec_init"]
  /\ UNCHANGED bdev

\* find_block keeps looking while the cmdline says rootwait.
PartitionAppears ==
  /\ proc1.prog = "magiskinit" /\ proc1.pc = "legacy_sar" /\ bdev.rootwait /\ ~bdev.partition
  /\ bdev' = [bdev EXCEPT !.partition = TRUE]
  /\ UNCHANGED <<root, file, bind, sysroot, proc1, mlist, mounted, patches, table>>

Rootfs ==
  /\ proc1.prog = "magiskinit" /\ proc1.pc = "rootfs"
  /\ file' = [RestoreRamdiskInit(PrepareData(file)) EXCEPT !["/.backup/init"] = "none"]
  /\ patches' = Once[patches] /\ mlist' = Append(mlist, "/data") /\ mounted' = mounted \cup {"/data"}
  /\ proc1' = [proc1 EXCEPT !.pc = "exec_init"]
  /\ UNCHANGED <<bdev, root, bind, sysroot, table>>

RecoveryOrCharger ==
  /\ proc1.prog = "magiskinit" /\ proc1.pc = "recovery"
  /\ file' = [RestoreRamdiskInit(file) EXCEPT !["/.backup/init"] = "none"]
  /\ proc1' = [proc1 EXCEPT !.pc = "exec_init"]
  /\ UNCHANGED <<bdev, root, bind, sysroot, mlist, mounted, patches, table>>

\* exec_init: unmount what is listed, become /init.
ExecInit ==
  /\ proc1.prog = "magiskinit" /\ proc1.pc = "exec_init"
  /\ mounted' = mounted \ {mlist[i] : i \in 1 .. Len(mlist)}
  /\ proc1' = Exec("/init", proc1.arg)
  /\ UNCHANGED <<bdev, root, file, bind, sysroot, mlist, patches, table>>

-----------------------------------------------------------------------------
(* The stock init, as twostage.rs describes it: external. *)

\* First stage: mount system; if it switches root, every mount moves along, and
\* the one on /sdcard follows the links to /system/bin/init; exec the second.
StockFirstStage ==
  /\ proc1.prog \in {"stock", "hexed"} /\ bdev.twostage /\ ~bdev.recovery
  /\ sysroot' = TRUE
  /\ IF bdev.switchroot /\ root = "ramdisk"
     THEN root' = "system" /\ bind' = [bind EXCEPT !["/system/bin/init"] = bind["/sdcard"], !["/sdcard"] = "none"]
     ELSE UNCHANGED <<root, bind>>
  /\ proc1' = IF proc1.prog = "hexed" THEN Magisk("selinux_setup")
              ELSE LET seen == bind'["/system/bin/init"] IN
                   [prog |-> IF seen = "none" THEN "second" ELSE seen, pc |-> "start", arg |-> "selinux_setup"]
  /\ UNCHANGED <<bdev, file, mlist, mounted, patches, table>>

\* The program that starts Android, or the recovery.
Up == proc1.pc = "up"

StockRuns ==
  /\ proc1.pc = "start"
  /\ \/ proc1.prog = "second" /\ proc1.arg = "selinux_setup"
     \/ proc1.prog = "stock" /\ (~bdev.twostage \/ bdev.recovery)
  /\ proc1' = [proc1 EXCEPT !.pc = "up"]
  /\ UNCHANGED <<bdev, root, file, bind, sysroot, mlist, mounted, patches, table>>

-----------------------------------------------------------------------------

FlowInit ==
  /\ bdev \in BootDevices /\ root = "ramdisk" /\ sysroot = FALSE
  /\ file = [f \in {"/init", "/sdcard", "/.backup/init", "/data/magiskinit", "/data/init", "/system/bin/init"} |->
               CASE f = "/init" -> "magiskinit"
                 [] f = "/.backup/init" /\ bdev.backup -> "stock"
                 [] f = "/system/bin/init" /\ ~bdev.backup -> "stock"
                 [] OTHER -> "none"]
  /\ bind = [f \in {"/init", "/sdcard", "/system/bin/init"} |-> "none"]
  /\ proc1 = Magisk("") /\ mlist = <<>> /\ mounted = {} /\ patches = 0
  /\ table = [before |-> <<>>, moved |-> <<>>]

FlowNext == \/ Start \/ FirstStage \/ SecondStage \/ LegacySystemAsRoot \/ PartitionAppears \/ Rootfs
            \/ RecoveryOrCharger \/ ExecInit \/ StockFirstStage \/ StockRuns

\* Process 1 keeps running, and a partition waited for appears.
FlowFairness == WF_flowVars(FlowNext)

-----------------------------------------------------------------------------
(* Properties *)

\* Every boot that started ends in the stock init, or in the exit of a
\* system-as-root boot that has no partition to wait for: magiskinit never
\* keeps executing itself.  Whatever the boot scheme, Android then comes up
\* with the root patched exactly once, a recovery or charger boot with nothing
\* patched, and what was started is an untouched stock init with no hijack left
\* over it.
BootEndsPatched ==
  proc1 # Magisk("") ~>
    \/ proc1.pc = "dead"
    \/ /\ Up /\ proc1.prog \in {"stock", "second"}
       /\ patches = IF bdev.recovery /\ ~bdev.force_normal_boot /\ ~bdev.skip_initramfs THEN 0 ELSE 1
       /\ \A path \in DOMAIN bind : bind[path] = "none"

\* switch_root moves each mount once: by itself, or with one above it.
MountsMoveOnce ==
  LET moved == {table.moved[i] : i \in 1 .. Len(table.moved)} IN
  \A i \in 1 .. Len(table.before) :
    LET t == table.before[i] IN
    (t \in moved) # (\E p \in moved : IsBelow(t, p))
=============================================================================
