----------------------------- MODULE MCInitFlow ----------------------------
(* Every consistent kind of device.  A device with two stages that does not  *)
(* switch root has /sdcard in its ramdisk (twostage.rs); a ramdisk without a *)
(* backup of init has the real one at /system/bin/init; a system-as-root     *)
(* boot has no recovery in its ramdisk.                                      *)
EXTENDS InitFlow

BootKinds ==
  {d \in [twostage : BOOLEAN, hints : BOOLEAN, switchroot : BOOLEAN, sdcard : BOOLEAN, backup : BOOLEAN,
          skip_initramfs : BOOLEAN, force_normal_boot : BOOLEAN, recovery : BOOLEAN, rootwait : BOOLEAN,
          partition : BOOLEAN, early : BOOLEAN] :
     /\ d.twostage /\ ~d.switchroot => d.sdcard
     /\ ~d.twostage => ~d.switchroot /\ ~d.hints /\ ~d.force_normal_boot /\ (d.backup \/ d.recovery)
     /\ d.force_normal_boot => ~d.recovery
     /\ d.skip_initramfs => ~d.recovery /\ ~d.switchroot /\ ~d.force_normal_boot /\ d.backup /\ ~d.hints
     /\ ~d.skip_initramfs => d.partition /\ ~d.rootwait}

dev == <<"dev">>
pts == <<"dev", "pts">>
sys == <<"sys">>
selinux == <<"sys", "fs", "selinux">>
InByteOrder == << <<"data">>, dev, pts, <<"proc">>, sys, selinux >>
\* Parents come before what is mounted on them.
Tables == { << <<"data">> >>, <<dev, sys, pts>>, <<sys, selinux, dev, pts>>, <<pts, selinux>>,
            <<sys, <<"proc">>, selinux>> }

FSpec == FlowInit /\ [][FlowNext]_flowVars /\ FlowFairness
=============================================================================
