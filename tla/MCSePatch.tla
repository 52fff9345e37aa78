----------------------------- MODULE MCSePatch -----------------------------
(* Every kind of device; an overlay with a file to replace and a new one.   *)
EXTENDS SePatch

DeviceKinds == [bininit : BOOLEAN, split : BOOLEAN, selinux_version : BOOLEAN, sepolicy_version : BOOLEAN,
                selinuxfs : BOOLEAN]
SSpec == SeSpec /\ SeFairness
=============================================================================
