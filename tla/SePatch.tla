------------------------------ MODULE SePatch ------------------------------
(***************************************************************************)
(* How magiskinit gets a patched SELinux policy into the kernel            *)
(* (init/selinux.rs, preload.c, mount_overlay of rootdir.rs).  It hijacks  *)
(* the nodes init will use, forks a child, and becomes init; the child     *)
(* captures the policy init writes, patches and loads it and lets init go  *)
(* on.  What the stock init does is external: the order in which it uses   *)
(* the nodes is the one selinux.rs relies on.                              *)
(***************************************************************************)
EXTENDS Integers, Sequences, FiniteSets

CONSTANTS Devices,     \* [bininit, split, selinux_version, sepolicy_version, selinuxfs]
          Overlay,     \* files of ROOTOVL, by path
          RootPaths,   \* paths that exist in the root being booted
          Chunks,      \* the policy is written in this many pieces
          MaxFailures, \* bound on failing calls
          SlowInit     \* whether init may stand still while 100 ms pass

ASSUME SePatchAssumption == Chunks \in Nat \ {0} /\ MaxFailures \in Nat /\ SlowInit \in BOOLEAN

VARIABLES sdev,     \* the device booting
          spc,      \* magiskinit until it executes init, then init
          cpc,      \* the forked child
          mocks,    \* nodes with a mock bind mounted over them, preload's files
          selmnt,   \* selinuxfs is mounted
          captured, \* pieces of the policy in the mock file or preload's file
          kernel,   \* the policy the kernel has: none, stock, partial, patched
          sz,       \* the size the child saw last
          moved,    \* init made a step since then
          ocon,     \* overlay_con of the process that becomes init
          ccon,     \* the child's copy of overlay_con
          restored, \* paths whose context was set again after the load
          failures

seVars == <<sdev, spc, cpc, mocks, selmnt, captured, kernel, sz, moved, ocon, ccon, restored, failures>>

\* Step 0: what the device's init tells about its sepolicy setup.
Strategy(d) ==
  CASE d.bininit -> "preload"
    [] ~d.bininit /\ d.split -> "selinuxfs"
    [] ~d.bininit /\ ~d.split /\ (d.selinux_version \/ d.sepolicy_version) -> "legacy"
    [] OTHER -> "unknown"

strat == Strategy(sdev)

-----------------------------------------------------------------------------
(* magiskinit: handle_sepolicy_impl up to the fork, mount_overlay, exec_init *)

\* Step 1: the nodes each strategy replaces, in the order it replaces them.
Hijacks == CASE strat = "preload" -> <<"lib", "ack">>
             [] strat = "selinuxfs" -> <<"load", "enforce">>
             [] strat = "legacy" -> <<"version">>
             [] OTHER -> <<>>

SSetup ==
  /\ spc = "setup"
  /\ mocks' = {Hijacks[i] : i \in 1 .. Len(Hijacks)}
  /\ selmnt' = (selmnt \/ strat = "selinuxfs")
  /\ spc' = IF strat = "unknown" THEN "overlay" ELSE "fork"
  /\ UNCHANGED <<sdev, cpc, captured, kernel, sz, moved, ocon, ccon, restored, failures>>

\* A call of step 1 fails: what was replaced before it stays, nobody is forked.
SSetupFails ==
  /\ spc = "setup" /\ failures < MaxFailures /\ strat # "unknown"
  /\ \E n \in 0 .. Len(Hijacks) - 1 : mocks' = {Hijacks[i] : i \in 1 .. n}
  /\ selmnt' \in {selmnt, selmnt \/ strat = "selinuxfs"} /\ (mocks' = {"load"} => selmnt')
  /\ failures' = failures + 1 /\ spc' = "overlay"
  /\ UNCHANGED <<sdev, cpc, captured, kernel, sz, moved, ocon, ccon, restored>>

\* Mutant of ChildStart: the legacy child does not release /selinux_version.
ChildStart_NoRelease == CASE strat = "preload" -> "ack" [] strat = "selinuxfs" -> "enforce" [] OTHER -> "poll"

\* Step 2 is for the legacy strategy only.
ChildStart == CASE strat = "preload" -> "ack" [] strat = "selinuxfs" -> "enforce" [] OTHER -> "waitfs"

\* fork: the child has the memory of this moment.
SFork ==
  /\ spc = "fork"
  /\ cpc' = ChildStart /\ ccon' = ocon /\ spc' = "overlay"
  /\ UNCHANGED <<sdev, mocks, selmnt, captured, kernel, sz, moved, ocon, restored, failures>>

\* mount_impl: the files of the overlay that replace a file of the root.
MountImpl == Overlay \cap RootPaths

SMountOverlay ==
  /\ spc = "overlay"
  /\ ocon' = ocon \cup MountImpl /\ spc' = "exec"
  /\ UNCHANGED <<sdev, cpc, mocks, selmnt, captured, kernel, sz, moved, ccon, restored, failures>>

SExecInit ==
  /\ spc = "exec"
  /\ spc' = "mount"
  /\ UNCHANGED <<sdev, cpc, mocks, selmnt, captured, kernel, sz, moved, ocon, ccon, restored, failures>>

-----------------------------------------------------------------------------
(* init, from mounting selinuxfs to restorecon; it blocks on opening a FIFO. *)

InitGoesTo(pc) == spc' = pc /\ moved' = TRUE

IMount ==
  /\ spc = "mount"
  /\ selmnt' = TRUE
  /\ InitGoesTo(IF strat = "legacy" THEN "version" ELSE "load")
  /\ UNCHANGED <<sdev, cpc, mocks, captured, kernel, sz, ocon, ccon, restored, failures>>

IVersion ==
  /\ spc = "version"
  /\ InitGoesTo(IF "version" \in mocks THEN "at_version" ELSE "load")
  /\ UNCHANGED <<sdev, cpc, mocks, selmnt, captured, kernel, sz, ocon, ccon, restored, failures>>

\* security_load_policy, or preload.c's: a file that is a mock gets the pieces.
ILoad ==
  LET mocked == captured > 0 \/ mocks \cap {"load", "lib"} # {} IN
  /\ spc = "load"
  /\ captured' = IF mocked THEN captured + 1 ELSE captured
  /\ kernel' = IF mocked THEN kernel ELSE "stock"
  /\ InitGoesTo(IF mocked /\ captured' < Chunks THEN "load"
                ELSE IF strat = "preload" THEN IF "ack" \in mocks THEN "at_ack" ELSE "boot"
                ELSE IF strat = "legacy" THEN "reqprot" ELSE "enforce")
  /\ UNCHANGED <<sdev, cpc, mocks, selmnt, sz, ocon, ccon, restored, failures>>

INode ==
  /\ spc \in {"enforce", "reqprot"}
  /\ InitGoesTo(IF spc \in mocks THEN IF spc = "enforce" THEN "at_enforce" ELSE "at_reqprot" ELSE "boot")
  /\ UNCHANGED <<sdev, cpc, mocks, selmnt, captured, kernel, sz, ocon, ccon, restored, failures>>

-----------------------------------------------------------------------------
(* The child; opening a FIFO meets init at the other end. *)

\* Legacy: once selinuxfs is there, hijack load and checkreqprot ...
CWaitFs ==
  /\ cpc = "waitfs" /\ selmnt
  /\ mocks' = mocks \cup {"load", "reqprot"} /\ cpc' = "version"
  /\ UNCHANGED <<sdev, spc, selmnt, captured, kernel, sz, moved, ocon, ccon, restored, failures>>

\* ... and let init past the version file.
CVersion ==
  /\ cpc = "version" /\ spc = "at_version"
  /\ InitGoesTo("load") /\ cpc' = "poll" /\ mocks' = mocks \ {"version"}
  /\ UNCHANGED <<sdev, selmnt, captured, kernel, sz, ocon, ccon, restored, failures>>

InitBlocked == spc \in {"at_version", "at_ack", "at_enforce", "at_reqprot", "boot"}

\* Mutant of FullyWritten: any piece will do.
FullyWritten_AnySize == captured # 0

\* The policy has not grown since the last look.
FullyWritten == sz # 0 /\ sz = captured

\* Legacy: look at the size every 100 ms.
CPoll ==
  /\ cpc = "poll" /\ (moved \/ InitBlocked \/ SlowInit)
  /\ IF FullyWritten THEN cpc' = "clean" /\ UNCHANGED <<sz, moved>>
     ELSE sz' = captured /\ moved' = FALSE /\ UNCHANGED cpc
  /\ UNCHANGED <<sdev, spc, mocks, selmnt, captured, kernel, ocon, ccon, restored, failures>>

\* LdPreload and SelinuxFs: init has written all of it when it opens the FIFO.
CMeet ==
  /\ \/ cpc = "ack" /\ spc = "at_ack" /\ cpc' = "store" /\ mocks' = mocks \ {"ack"}
     \/ cpc = "enforce" /\ spc = "at_enforce" /\ cpc' = "clean" /\ UNCHANGED mocks
  /\ InitGoesTo("reading")
  /\ UNCHANGED <<sdev, selmnt, captured, kernel, sz, ocon, ccon, restored, failures>>

\* cleanup_and_load: remove the hijacks, ...
CClean ==
  /\ cpc = "clean"
  /\ mocks' = mocks \ {"load", "enforce", "reqprot"} /\ cpc' = "store"
  /\ UNCHANGED <<sdev, spc, selmnt, captured, kernel, sz, moved, ocon, ccon, restored, failures>>

\* ... load the patched policy and restore the contexts of the overlay.
CStore ==
  /\ cpc = "store"
  /\ kernel' = IF captured = Chunks THEN "patched" ELSE "partial"
  /\ restored' = ccon
  /\ cpc' = IF strat = "legacy" THEN "reqprot" ELSE "reply"
  /\ UNCHANGED <<sdev, spc, mocks, selmnt, captured, sz, moved, ocon, ccon, failures>>

\* Let init go on: the answer it reads, or the reader it waits for.
CRelease ==
  /\ \/ cpc = "reply" /\ spc = "reading"
     \/ cpc = "reqprot" /\ spc = "at_reqprot"
  /\ InitGoesTo("boot") /\ cpc' = "exit"
  /\ UNCHANGED <<sdev, mocks, selmnt, captured, kernel, sz, ocon, ccon, restored, failures>>

\* An error in the child: it returns into patch_ro_root or patch_rw_root as a
\* second magiskinit; its end of a FIFO is closed.
CFails ==
  /\ cpc \notin {"none", "exit", "escaped"} /\ failures < MaxFailures
  /\ cpc' = "escaped" /\ failures' = failures + 1
  /\ IF spc = "reading" THEN InitGoesTo("boot") ELSE UNCHANGED <<spc, moved>>
  /\ UNCHANGED <<sdev, mocks, selmnt, captured, kernel, sz, ocon, ccon, restored>>

-----------------------------------------------------------------------------

SeInit ==
  /\ sdev \in Devices /\ spc = "setup" /\ cpc = "none" /\ mocks = {} /\ selmnt = sdev.selinuxfs
  /\ captured = 0 /\ kernel = "none" /\ sz = 0 /\ moved = TRUE
  /\ ocon = {} /\ ccon = {} /\ restored = {} /\ failures = 0

InitProcess == SSetup \/ SFork \/ SMountOverlay \/ SExecInit \/ IMount \/ IVersion \/ ILoad \/ INode
ChildProcess == CWaitFs \/ CVersion \/ CPoll \/ CMeet \/ CClean \/ CStore \/ CRelease

SeNext == InitProcess \/ ChildProcess \/ SSetupFails \/ CFails

SeSpec == SeInit /\ [][SeNext]_seVars

\* Both processes keep running when they can.
SeFairness == WF_seVars(InitProcess) /\ WF_seVars(ChildProcess)

-----------------------------------------------------------------------------
(* Properties *)

\* init only goes on to restorecon and re-exec with the whole policy, patched,
\* in the kernel, whichever strategy the device needs, unless a call failed or
\* the setup is unknown (selinux.rs: "make sure the actual init process is
\* blocked until sepolicy is loaded").
InitWaitsForPolicy ==
  spc = "boot" /\ failures = 0 /\ strat # "unknown" => kernel = "patched"

\* init is never left at a FIFO nobody opens, and the child does not stay
\* behind: once set up, and unless a call fails, both get through.
BothGetThrough ==
  spc # "setup" ~> (failures > 0 \/ (spc = "boot" /\ cpc \in {"none", "exit"}))

\* After the patched policy is loaded, the context of every file mounted from
\* the overlay is restored before init goes on.
OverlayContextsRestored ==
  spc = "boot" /\ kernel = "patched" => ocon \subseteq restored
=============================================================================
