---------------------------- MODULE MCBootStages ----------------------------
(* TLC instances of BootStages.  A timely boot is one whose post-fs-data     *)
(* always ends within POST_FS_DATA_WAIT_TIME.                                *)
EXTENDS BootStages, TLC

VARIABLE timely

Timely ==
    INSTANCE BootStages WITH
        PfdTimesOut <- FALSE, RiruMods <- {}, ZygiskMods <- Mods \ BadMods, EnvStates <- {"ok", "no_dir"},
        UserOps <- {"toggle", "install"}, MaxReboots <- 2, MaxRestarts <- 1

MCInit == timely \in BOOLEAN /\ IF timely THEN Timely!Init ELSE Init
MCNext == UNCHANGED timely /\ IF timely THEN Timely!Next ELSE Next
MCSpec ==
    /\ MCInit /\ [][MCNext]_<<vars, timely>>
    /\ WF_vars(timely /\ Timely!Handler) /\ WF_vars(timely /\ Timely!InitStep) /\ WF_vars(timely /\ Timely!BootFails)

(* A device that a module keeps from booting recovers by itself, as long as  *)
(* its boots are timely: in the end a boot completes with no bad module      *)
(* mounted.                                                                  *)
TimelyBootRecovers == timely => Recovers
=============================================================================
