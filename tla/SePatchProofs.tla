---------------------------- MODULE SePatchProofs ----------------------------
(***************************************************************************)
(* A proof about SePatch for every device, and a policy written in any     *)
(* number of pieces.                                                       *)
(***************************************************************************)
EXTENDS SePatch, TLAPS

(* Where magiskinit, init and the child can be together when no call failed: *)
(* one predicate for each strategy once the child is forked.                 *)
PreloadInv ==
  \/ /\ spc \in {"overlay", "exec", "mount", "load"}
     /\ cpc = "ack" /\ mocks = {"lib", "ack"} /\ captured < Chunks
  \/ spc = "at_ack" /\ cpc = "ack" /\ captured = Chunks
  \/ spc = "reading" /\ cpc = "store" /\ captured = Chunks
  \/ spc = "reading" /\ cpc = "reply" /\ kernel = "patched"
  \/ spc = "boot" /\ cpc = "exit" /\ kernel = "patched"

SelinuxFsInv ==
  \/ /\ spc \in {"overlay", "exec", "mount", "load"}
     /\ cpc = "enforce" /\ mocks = {"load", "enforce"} /\ captured < Chunks
  \/ /\ spc \in {"enforce", "at_enforce"}
     /\ cpc = "enforce" /\ mocks = {"load", "enforce"} /\ captured = Chunks
  \/ spc = "reading" /\ cpc \in {"clean", "store"} /\ captured = Chunks
  \/ spc = "reading" /\ cpc = "reply" /\ kernel = "patched"
  \/ spc = "boot" /\ cpc = "exit" /\ kernel = "patched"

(* The child that polls has seen less than there is now, or init has not     *)
(* moved since it looked.                                                    *)
Behind == sz <= captured /\ (moved /\ sz # 0 => sz < captured)

LegacyInv ==
  \/ /\ spc \in {"overlay", "exec", "mount", "version", "at_version"}
     /\ captured = 0 /\ sz = 0
     /\ \/ cpc = "waitfs" /\ mocks = {"version"}
        \/ cpc = "version" /\ mocks = {"version", "load", "reqprot"}
  \/ /\ spc = "load" /\ cpc = "poll" /\ mocks = {"load", "reqprot"}
     /\ captured < Chunks /\ Behind
  \/ /\ spc = "reqprot" /\ cpc = "poll" /\ mocks = {"load", "reqprot"}
     /\ captured = Chunks /\ Behind
  \/ spc = "at_reqprot" /\ cpc \in {"poll", "clean", "store"} /\ captured = Chunks
  \/ spc = "at_reqprot" /\ cpc = "reqprot" /\ kernel = "patched"
  \/ spc = "boot" /\ cpc = "exit" /\ kernel = "patched"

(* Before the fork: nothing is captured, and the child comes with its nodes. *)
SetupInv ==
  /\ cpc = "none" /\ captured = 0 /\ sz = 0
  /\ \/ spc = "setup"
     \/ spc = "fork" /\ mocks = {Hijacks[i] : i \in 1 .. Len(Hijacks)}

SeInv ==
  /\ captured \in Nat /\ sz \in Nat /\ failures \in Nat
  /\ failures = 0 =>
       \/ strat = "unknown"
       \/ SetupInv
       \/ strat = "preload" /\ PreloadInv
       \/ strat = "selinuxfs" /\ SelinuxFsInv
       \/ strat = "legacy" /\ LegacyInv

-----------------------------------------------------------------------------
(* The device's setup is one of four. *)
LEMMA Strategies == strat \in {"preload", "selinuxfs", "legacy", "unknown"}
BY DEF strat, Strategy

(* The nodes that are replaced before the fork. *)
LEMMA HijackedNodes ==
    /\ strat = "preload" => {Hijacks[i] : i \in 1 .. Len(Hijacks)} = {"lib", "ack"}
    /\ strat = "selinuxfs" => {Hijacks[i] : i \in 1 .. Len(Hijacks)} = {"load", "enforce"}
    /\ strat = "legacy" => {Hijacks[i] : i \in 1 .. Len(Hijacks)} = {"version"}
BY DEF Hijacks

(* A step of magiskinit before it becomes init. *)
LEMMA SetupStep ==
    ASSUME SeInv, SSetup \/ SFork \/ SMountOverlay \/ SExecInit
    PROVE  SeInv'
<1>1. sdev' = sdev /\ strat' = strat /\ Hijacks' = Hijacks
  BY DEF SSetup, SFork, SMountOverlay, SExecInit, strat, Hijacks
<1>2. Chunks \in Nat \ {0}
  BY SePatchAssumption
<1>3. CASE SSetup
  <2>1. UNCHANGED <<captured, sz, failures, cpc>>
    BY <1>3 DEF SSetup
  <2>2. failures = 0 => strat = "unknown" \/ SetupInv
    BY <1>3 DEF SSetup, SeInv, PreloadInv, SelinuxFsInv, LegacyInv
  <2>3. strat # "unknown" => spc' = "fork" /\ mocks' = {Hijacks[i] : i \in 1 .. Len(Hijacks)}
    BY <1>3 DEF SSetup
  <2>4. mocks' = {Hijacks[i] : i \in 1 .. Len(Hijacks)} =>
          mocks' = {Hijacks'[i] : i \in 1 .. Len(Hijacks')}
    BY <1>1
  <2>5. QED
    BY <1>1, <2>1, <2>2, <2>3, <2>4 DEF SeInv, SetupInv
<1>4. CASE SFork
  <2>1. UNCHANGED <<captured, sz, failures, mocks>> /\ spc' = "overlay" /\ cpc' = ChildStart
    BY <1>4 DEF SFork
  <2>2. failures = 0 /\ strat # "unknown" =>
          mocks = {Hijacks[i] : i \in 1 .. Len(Hijacks)} /\ captured = 0 /\ sz = 0
    BY <1>4 DEF SFork, SeInv, SetupInv, PreloadInv, SelinuxFsInv, LegacyInv
  <2>3. captured \in Nat /\ sz \in Nat /\ failures \in Nat
    BY DEF SeInv
  <2>4. ASSUME failures = 0, strat = "preload" PROVE PreloadInv'
    BY <1>2, <2>1, <2>2, <2>4, HijackedNodes DEF ChildStart, PreloadInv
  <2>5. ASSUME failures = 0, strat = "selinuxfs" PROVE SelinuxFsInv'
    BY <1>2, <2>1, <2>2, <2>5, HijackedNodes DEF ChildStart, SelinuxFsInv
  <2>6. ASSUME failures = 0, strat = "legacy" PROVE LegacyInv'
    BY <2>1, <2>2, <2>6, HijackedNodes DEF ChildStart, LegacyInv
  <2>7. QED
    BY <1>1, <2>1, <2>3, <2>4, <2>5, <2>6, Strategies DEF SeInv
<1>5. CASE SMountOverlay \/ SExecInit
  BY <1>1, <1>5
  DEF SMountOverlay, SExecInit, SeInv, SetupInv, PreloadInv, SelinuxFsInv, LegacyInv
<1>6. QED
  BY <1>3, <1>4, <1>5

(* A step of init. *)
LEMMA InitStep ==
    ASSUME SeInv, IMount \/ IVersion \/ ILoad \/ INode
    PROVE  SeInv'
<1>1. sdev' = sdev /\ strat' = strat /\ Hijacks' = Hijacks
  BY DEF IMount, IVersion, ILoad, INode, strat, Hijacks
<1>2. Chunks \in Nat \ {0}
  BY SePatchAssumption
<1> USE DEF SeInv, SetupInv, InitGoesTo
<1>3. CASE IMount
  BY <1>1, <1>3 DEF IMount, PreloadInv, SelinuxFsInv, LegacyInv
<1>4. CASE IVersion
  BY <1>1, <1>4 DEF IVersion, PreloadInv, SelinuxFsInv, LegacyInv
<1>5. CASE ILoad
  <2>1. captured' \in Nat /\ sz' = sz /\ failures' = failures
    BY <1>5 DEF ILoad
  <2>2. CASE strat = "preload" /\ PreloadInv
    BY <1>1, <1>2, <1>5, <2>1, <2>2 DEF ILoad, PreloadInv
  <2>3. CASE strat = "selinuxfs" /\ SelinuxFsInv
    BY <1>1, <1>2, <1>5, <2>1, <2>3 DEF ILoad, SelinuxFsInv
  <2>4. CASE strat = "legacy" /\ LegacyInv
    BY <1>1, <1>2, <1>5, <2>1, <2>4 DEF ILoad, LegacyInv, Behind
  <2>5. CASE failures # 0 \/ strat = "unknown" \/ SetupInv
    BY <1>1, <1>5, <2>1, <2>5 DEF ILoad
  <2>6. QED
    BY <2>2, <2>3, <2>4, <2>5
<1>6. CASE INode
  BY <1>1, <1>6 DEF INode, PreloadInv, SelinuxFsInv, LegacyInv
<1>7. QED
  BY <1>3, <1>4, <1>5, <1>6

(* A step of the child, which looks at the size no sooner than init moved. *)
LEMMA ChildStep ==
    ASSUME SeInv, ~SlowInit, ChildProcess
    PROVE  SeInv'
<1>1. sdev' = sdev /\ strat' = strat /\ Hijacks' = Hijacks /\ UNCHANGED failures
  BY DEF ChildProcess, CWaitFs, CVersion, CPoll, CMeet, CClean, CStore, CRelease, strat, Hijacks
<1> USE DEF SeInv, SetupInv, InitGoesTo
<1>2. CASE CWaitFs
  BY <1>1, <1>2 DEF CWaitFs, PreloadInv, SelinuxFsInv, LegacyInv
<1>3. CASE CVersion
  <2>1. Chunks > 0
    BY SePatchAssumption
  <2>2. QED
    BY <1>1, <1>3, <2>1 DEF CVersion, PreloadInv, SelinuxFsInv, LegacyInv, Behind
<1>4. CASE CPoll
  BY <1>1, <1>4 DEF CPoll, FullyWritten, InitBlocked, PreloadInv, SelinuxFsInv, LegacyInv, Behind
<1>5. CASE CMeet
  BY <1>1, <1>5 DEF CMeet, PreloadInv, SelinuxFsInv, LegacyInv
<1>6. CASE CClean
  BY <1>1, <1>6 DEF CClean, PreloadInv, SelinuxFsInv, LegacyInv
<1>7. CASE CStore
  BY <1>1, <1>7 DEF CStore, PreloadInv, SelinuxFsInv, LegacyInv
<1>8. CASE CRelease
  BY <1>1, <1>8 DEF CRelease, PreloadInv, SelinuxFsInv, LegacyInv
<1>9. QED
  BY <1>2, <1>3, <1>4, <1>5, <1>6, <1>7, <1>8 DEF ChildProcess

(* Every step. *)
LEMMA SeStep ==
    ASSUME SeInv, ~SlowInit, [SeNext]_seVars
    PROVE  SeInv'
<1>1. CASE InitProcess
  BY <1>1, SetupStep, InitStep DEF InitProcess
<1>2. CASE ChildProcess
  BY <1>2, ChildStep
<1>3. CASE SSetupFails \/ CFails
  BY <1>3 DEF SSetupFails, CFails, SeInv
<1>4. CASE UNCHANGED seVars
  BY <1>4 DEF seVars, SeInv, SetupInv, PreloadInv, SelinuxFsInv, LegacyInv, Behind, strat, Hijacks
<1>5. QED
  BY <1>1, <1>2, <1>3, <1>4 DEF SeNext

(* "make sure the actual init process is blocked until sepolicy is loaded"   *)
(* (selinux.rs): on every kind of device, init goes on only with the whole   *)
(* policy, patched, in the kernel, unless a call fails.  The legacy strategy *)
(* needs an init that does not stand still for the child's 100 ms.           *)
THEOREM InitAlwaysWaits ==
    ASSUME ~SlowInit
    PROVE  SeSpec => []InitWaitsForPolicy
<1>1. SeInit => SeInv
  BY DEF SeInit, SeInv, SetupInv
<1>2. SeInv /\ [SeNext]_seVars => SeInv'
  BY SeStep
<1>3. SeInv => InitWaitsForPolicy
  BY Strategies DEF SeInv, SetupInv, PreloadInv, SelinuxFsInv, LegacyInv, InitWaitsForPolicy
<1>4. QED
  BY <1>1, <1>2, <1>3, PTL DEF SeSpec
=============================================================================
