--------------------------- MODULE BootStagesProofs ---------------------------
(***************************************************************************)
(* Proofs about BootStages for every set of modules, every native bridge   *)
(* and any number of boots, restarts and user operations.                  *)
(***************************************************************************)
EXTENDS BootStages, SequenceTheorems, TLAPS

(* The steps of post_fs_data after the boot was counted.                     *)
CountedStages == {"check", "disable", "enable", "upgrade", "apply"}

(* What the counter on disk owes the loads it stands for: it was stored      *)
(* before them, and only a completed boot takes it back.                     *)
LoopInv ==
    /\ loads \in Nat /\ bootloop_count \in Nat /\ boot_cnt \in Nat
    /\ loads <= 2 /\ loads <= bootloop_count
    /\ stage \in CountedStages => bootloop_count = boot_cnt + 1 /\ loads <= boot_cnt
    /\ stage \in {"enable", "upgrade", "apply"} => boot_cnt < 2

-----------------------------------------------------------------------------
(* A step that moves neither counter nor stage. *)
LEMMA LoopFrame ==
    LoopInv /\ UNCHANGED <<loads, bootloop_count, boot_cnt, stage>> => LoopInv'
BY DEF LoopInv

(* A daemon that starts anew forgets boot_cnt and is at no stage. *)
LEMMA LoopNewDaemon ==
    LoopInv /\ UNCHANGED <<loads, bootloop_count>> /\ stage' = "idle" /\ boot_cnt' = 0 => LoopInv'
BY DEF LoopInv, CountedStages

(* Every step of a handler keeps the counters in step. *)
LEMMA LoopHandler ==
    ASSUME LoopInv, Handler
    PROVE  LoopInv'
<1>1. CASE ZygoteRestart
  BY <1>1, LoopFrame DEF ZygoteRestart, disk, local, watch
<1>2. CASE BeginPostFsData
  BY <1>2 DEF BeginPostFsData, disk, local, watch, LoopInv, CountedStages
<1>3. CASE SetupEnv
  BY <1>3 DEF SetupEnv, PostFsDataDone, disk, local, watch, LoopInv, CountedStages
<1>4. CASE CountBoot
  BY <1>4 DEF CountBoot, watch, LoopInv, CountedStages
<1>5. CASE CheckSafeMode
  BY <1>5 DEF CheckSafeMode, disk, watch, LoopInv, CountedStages
<1>6. CASE \E m \in Mods : DisableModule(m)
  BY <1>6, LoopFrame DEF DisableModule, watch
<1>7. CASE EnterSafeMode
  BY <1>7 DEF EnterSafeMode, PostFsDataDone, local, LoopInv, CountedStages
<1>8. CASE EnableZygisk
  BY <1>8 DEF EnableZygisk, disk, local, watch, LoopInv, CountedStages
<1>9. CASE UpgradeModules
  BY <1>9 DEF UpgradeModules, local, watch, LoopInv, CountedStages
<1>10. CASE ApplyModules
  BY <1>10 DEF ApplyModules, PostFsDataDone, local, LoopInv, CountedStages
<1>11. CASE LateStart
  BY <1>11, LoopFrame DEF LateStart, disk, local, watch
<1>12. CASE BeginBootComplete
  BY <1>12 DEF BeginBootComplete, disk, local, watch, LoopInv, CountedStages
<1>13. CASE ResetCount
  BY <1>13 DEF ResetCount, local, LoopInv, CountedStages
<1>14. CASE ResetZygisk
  BY <1>14 DEF ResetZygisk, disk, local, watch, LoopInv, CountedStages
<1>15. QED
  BY <1>1, <1>2, <1>3, <1>4, <1>5, <1>6, <1>7, <1>8, <1>9, <1>10, <1>11, <1>12, <1>13, <1>14
  DEF Handler

(* init's steps and the zygote's restarts only send requests. *)
LEMMA InitKeeps ==
    InitStep \/ ZygoteRestarts =>
        UNCHANGED <<disk, mounted, flags, zygisk, stage, local, runs, watch>>
BY DEF InitStep, InitPostFsData, InitContinues, Decrypt, InitService, BootCompleted,
       ZygoteRestarts, FromInit

(* So do the user's, but for what is on disk and for STOP_DAEMON. *)
LEMMA UserKeeps ==
    User => \/ UNCHANGED <<bootloop_count, flags, zygisk, stage, local, runs, loads>>
            \/ /\ NewDaemon(RestoreProp(zygisk).nbprop)
               /\ UNCHANGED <<disk, watch>>
BY DEF User, UserInstalls, UserRemoves, UserToggles, UserSetsZygisk, UserStarts, StopDaemon,
       UserOp, OnDisk, disk, watch

(* Every step keeps the counters in step. *)
LEMMA LoopNext == LoopInv /\ [Next]_vars => LoopInv'
<1> SUFFICES ASSUME LoopInv, [Next]_vars PROVE LoopInv'
  OBVIOUS
<1>1. CASE InitStep \/ ZygoteRestarts
  BY <1>1, InitKeeps, LoopFrame DEF disk, local, watch
<1>2. CASE Handler
  BY <1>2, LoopHandler
<1>3. CASE User
  <2>1. CASE UNCHANGED <<bootloop_count, flags, zygisk, stage, local, runs, loads>>
    BY <2>1, LoopFrame DEF local
  <2>2. CASE NewDaemon(RestoreProp(zygisk).nbprop) /\ UNCHANGED <<disk, watch>>
    BY <2>2, LoopNewDaemon DEF NewDaemon, disk, watch
  <2>3. QED
    BY <1>3, <2>1, <2>2, UserKeeps
<1>4. CASE Reboot \/ BootFails
  BY <1>4, LoopNewDaemon DEF Reboot, BootFails, PowerOn, NewDaemon, disk, watch
<1>5. CASE UNCHANGED vars
  BY <1>5, LoopFrame DEF vars, disk, local, watch
<1>6. QED
  BY <1>1, <1>2, <1>3, <1>4, <1>5 DEF Next

(* post_fs_data stores the incremented count before it loads anything        *)
(* (bootstages.rs:152-168), so however boots and daemons are cut short,      *)
(* modules are loaded at most twice between two completed boots.             *)
THEOREM LoopAlwaysBroken == Spec => []LoopIsBroken
<1>1. Init => LoopInv
  BY DEF Init, LoopInv, CountedStages
<1>2. LoopInv => LoopIsBroken
  BY DEF LoopInv, LoopIsBroken
<1>3. QED
  BY <1>1, <1>2, LoopNext, PTL DEF Spec

-----------------------------------------------------------------------------
(* The stages post_fs_data is at while its handler holds boot_stage_lock.    *)
PostFsDataStages == {"env", "count"} \cup CountedStages

(* What boot_state says of the daemon's past: post_fs_data ran to its end    *)
(* exactly once or not yet, and before its end nothing was loaded, nothing   *)
(* enabled but by the two steps before the mount, and no service started.    *)
StageInv ==
    /\ runs \in [Stages -> Nat] /\ runs["POST_FS_DATA"] <= 1
    /\ stage \in PostFsDataStages \cup {"idle", "reset_count", "reset_zygisk"}
    /\ stage \in PostFsDataStages => "PostFsDataDone" \notin boot_state
    /\ stage \in {"reset_count", "reset_zygisk"} => "PostFsDataDone" \in boot_state
    /\ "PostFsDataDone" \notin boot_state =>
          /\ "SafeMode" \notin boot_state
          /\ module_list = {} /\ runs["LATE_START"] = 0
          /\ stage = "idle" => runs["POST_FS_DATA"] = 0
          /\ stage \notin {"upgrade", "apply"} => zygisk_enabled = FALSE
    /\ "SafeMode" \in boot_state =>
          module_list = {} /\ zygisk_enabled = FALSE /\ runs["LATE_START"] = 0

(* A step that leaves the stage and what boot_state speaks of alone. *)
LEMMA StageFrame ==
    StageInv /\ UNCHANGED <<runs, stage, flags>> => StageInv'
BY DEF StageInv, flags

(* A new daemon has no past. *)
LEMMA StageNewDaemon ==
    ASSUME NEW prop, NewDaemon(prop)
    PROVE  StageInv'
BY DEF NewDaemon, StageInv, PostFsDataStages, CountedStages, Stages

(* Every step of a handler keeps boot_state true to the daemon's past. *)
LEMMA StageHandler ==
    ASSUME StageInv, Handler
    PROVE  StageInv'
<1> USE DEF StageInv, PostFsDataStages, CountedStages, flags
<1>1. CASE ZygoteRestart
  BY <1>1 DEF ZygoteRestart
<1>2. CASE BeginPostFsData
  <2>1. CASE data /\ "PostFsDataDone" \notin boot_state
    BY <1>2, <2>1 DEF BeginPostFsData, Stages
  <2>2. CASE ~(data /\ "PostFsDataDone" \notin boot_state)
    BY <1>2, <2>2 DEF BeginPostFsData
  <2>3. QED
    BY <2>1, <2>2
<1>3. CASE SetupEnv
  BY <1>3 DEF SetupEnv, PostFsDataDone
<1>4. CASE CountBoot
  BY <1>4 DEF CountBoot
<1>5. CASE CheckSafeMode
  BY <1>5 DEF CheckSafeMode
<1>6. CASE \E m \in Mods : DisableModule(m)
  BY <1>6 DEF DisableModule
<1>7. CASE EnterSafeMode
  BY <1>7 DEF EnterSafeMode, PostFsDataDone
<1>8. CASE EnableZygisk
  BY <1>8 DEF EnableZygisk
<1>9. CASE UpgradeModules
  BY <1>9 DEF UpgradeModules
<1>10. CASE ApplyModules
  BY <1>10 DEF ApplyModules, PostFsDataDone
<1>11. CASE LateStart
  <2>1. CASE "PostFsDataDone" \in boot_state /\ "SafeMode" \notin boot_state
    BY <1>11, <2>1 DEF LateStart, Stages
  <2>2. CASE ~("PostFsDataDone" \in boot_state /\ "SafeMode" \notin boot_state)
    BY <1>11, <2>2 DEF LateStart
  <2>3. QED
    BY <2>1, <2>2
<1>12. CASE BeginBootComplete
  <2>1. CASE "PostFsDataDone" \in boot_state
    BY <1>12, <2>1 DEF BeginBootComplete, Stages
  <2>2. CASE "PostFsDataDone" \notin boot_state
    BY <1>12, <2>2 DEF BeginBootComplete
  <2>3. QED
    BY <2>1, <2>2
<1>13. CASE ResetCount
  BY <1>13 DEF ResetCount
<1>14. CASE ResetZygisk
  BY <1>14 DEF ResetZygisk
<1>15. QED
  BY <1>1, <1>2, <1>3, <1>4, <1>5, <1>6, <1>7, <1>8, <1>9, <1>10, <1>11, <1>12, <1>13, <1>14
  DEF Handler

(* Every step does. *)
LEMMA StageNext == StageInv /\ [Next]_vars => StageInv'
<1> SUFFICES ASSUME StageInv, [Next]_vars PROVE StageInv'
  OBVIOUS
<1>1. CASE InitStep \/ ZygoteRestarts
  BY <1>1, InitKeeps, StageFrame
<1>2. CASE Handler
  BY <1>2, StageHandler
<1>3. CASE User
  BY <1>3, UserKeeps, StageFrame, StageNewDaemon
<1>4. CASE Reboot \/ BootFails
  BY <1>4, StageNewDaemon DEF Reboot, BootFails, PowerOn
<1>5. CASE UNCHANGED vars
  BY <1>5, StageFrame DEF vars
<1>6. QED
  BY <1>1, <1>2, <1>3, <1>4, <1>5 DEF Next

(* The first state has no past either. *)
LEMMA StageInit == Init => StageInv
BY DEF Init, StageInv, PostFsDataStages, CountedStages, Stages

(* boot_stage_handler's guard (bootstages.rs:230) under boot_stage_lock      *)
(* mounts modules at most once per daemon, however often it is asked to.     *)
THEOREM AlwaysMountedOnce == Spec => []ModulesMountedOnce
<1>1. StageInv => ModulesMountedOnce
  BY DEF StageInv, ModulesMountedOnce
<1>2. QED
  BY <1>1, StageInit, StageNext, PTL DEF Spec

-----------------------------------------------------------------------------
(* The strings the property and the daemon's copy of it can be.              *)
Names == {<<>>, <<"0">>, <<Bridge>>, <<ZYGISKLDR>>, <<ZYGISKLDR, Bridge>>}

(* Either the loader is nowhere, or the daemon's copy and the property are   *)
(* the same string with the loader once, in front.                           *)
PropInv(z) ==
    /\ z \in [lib_name : Names, sockets : {NoSockets}, start_count : Nat, nbprop : Names]
    /\ \/ z.lib_name = <<>> /\ z.nbprop \in {<<>>, <<"0">>, <<Bridge>>}
       \/ z.lib_name = z.nbprop /\ z.nbprop \in {<<ZYGISKLDR>>, <<ZYGISKLDR, Bridge>>}

LoaderInv == PropInv(zygisk) /\ (zygisk.lib_name # <<>> => zygisk_enabled)

(* Two strings of one part each make one of two parts. *)
LEMMA TwoParts ==
    ASSUME NEW a, NEW b
    PROVE  <<a>> \o <<b>> = <<a, b>>
<1> DEFINE S == {a, b}
           s == <<a>> \o <<b>>
           t == <<a, b>>
<1>1. <<a>> \in Seq(S) /\ <<b>> \in Seq(S) /\ t \in Seq(S)
  OBVIOUS
<1>2. s \in Seq(S) /\ Len(s) = 2 /\ s[1] = a /\ s[2] = b
  BY <1>1, ConcatProperties
<1>3. Len(t) = 2 /\ t[1] = a /\ t[2] = b
  OBVIOUS
<1> HIDE DEF s, t
<1>4. \A i \in 1 .. Len(s) : s[i] = t[i]
  BY <1>2, <1>3
<1>5. s = t
  BY <1>1, <1>2, <1>3, <1>4, SeqEqual
<1>6. QED
  BY <1>5 DEF s, t

(* set_prop keeps the two in agreement. *)
LEMMA SetPropKeeps ==
    ASSUME NEW z, PropInv(z)
    PROVE  PropInv(SetProp(z))
<1> DEFINE lib == IF NoBridge(z.nbprop) THEN <<ZYGISKLDR>> ELSE <<ZYGISKLDR>> \o z.nbprop
<1>1. CASE z.lib_name # <<>>
  BY <1>1 DEF SetProp
<1>2. CASE z.lib_name = <<>>
  <2>1. lib \in {<<ZYGISKLDR>>, <<ZYGISKLDR, Bridge>>}
    <3>1. <<ZYGISKLDR>> \o <<Bridge>> = <<ZYGISKLDR, Bridge>>
      BY TwoParts
    <3>2. QED
      BY <1>2, <3>1 DEF PropInv, NoBridge, ZYGISKLDR
  <2>2. SetProp(z) = [z EXCEPT !.lib_name = lib, !.nbprop = lib]
    BY <1>2 DEF SetProp
  <2> HIDE DEF lib
  <2>3. QED
    BY <2>1, <2>2 DEF PropInv, Names
<1>3. QED
  BY <1>1, <1>2

(* restore_prop takes the loader out of both. *)
LEMMA RestorePropKeeps ==
    ASSUME NEW z, PropInv(z)
    PROVE  PropInv(RestoreProp(z)) /\ RestoreProp(z).lib_name = <<>>
<1> DEFINE rest == IF Len(z.lib_name) > 1 THEN Tail(z.lib_name) ELSE <<"0">>
<1>1. rest \in {<<"0">>, <<Bridge>>}
  <2>1. Tail(<<ZYGISKLDR, Bridge>>) = <<Bridge>>
    OBVIOUS
  <2>2. Len(<<>>) = 0 /\ Len(<<ZYGISKLDR>>) = 1
    OBVIOUS
  <2>3. z.lib_name \in {<<>>, <<ZYGISKLDR>>, <<ZYGISKLDR, Bridge>>}
    BY DEF PropInv
  <2>4. CASE z.lib_name = <<ZYGISKLDR, Bridge>>
    BY <2>1, <2>4
  <2>5. CASE z.lib_name \in {<<>>, <<ZYGISKLDR>>}
    <3>1. Len(z.lib_name) = 0 \/ Len(z.lib_name) = 1
      BY <2>2, <2>5
    <3>2. ~(Len(z.lib_name) > 1)
      <4>1. \A k : k = 0 \/ k = 1 => ~(k > 1)
        OBVIOUS
      <4>2. QED
        BY ONLY <3>1, <4>1, Zenon
    <3>3. rest = <<"0">>
      BY <3>2
    <3>4. QED
      BY <3>3
  <2>6. QED
    BY <2>3, <2>4, <2>5
<1>2. RestoreProp(z) = [z EXCEPT !.nbprop = rest, !.lib_name = <<>>]
  BY DEF RestoreProp
<1> HIDE DEF rest
<1>3. QED
  BY <1>1, <1>2 DEF PropInv, Names

(* So does reset, whichever of the two it calls. *)
LEMMA ResetKeeps ==
    ASSUME NEW z, PropInv(z), NEW restore \in BOOLEAN
    PROVE  PropInv(Reset(z, restore))
<1> DEFINE n == z.start_count + 1
           y == [z EXCEPT !.start_count = n, !.sockets = NoSockets]
           x == [z EXCEPT !.start_count = 1]
<1>1. PropInv(x)
  BY DEF PropInv
<1>2. PropInv(y)
  <2>1. n \in Nat
    BY DEF PropInv
  <2> HIDE DEF n
  <2>2. QED
    BY <2>1 DEF PropInv
<1>3. Reset(z, restore) \in {RestoreProp(x), RestoreProp(y), SetProp(y)}
  BY DEF Reset
<1> HIDE DEF x, y
<1>4. QED
  BY <1>1, <1>2, <1>3, SetPropKeeps, RestorePropKeeps

(* A daemon that starts with the loader in neither remembers none. *)
LEMMA NewZygiskKeeps ==
    ASSUME NEW prop \in {<<>>, <<"0">>, <<Bridge>>}
    PROVE  PropInv(NewZygisk(prop)) /\ NewZygisk(prop).lib_name = <<>>
BY DEF NewZygisk, PropInv, Names

(* Every step keeps the property and the daemon's copy in agreement: only    *)
(* four handlers touch them, and only with zygisk enabled.                   *)
LEMMA LoaderNext == StageInv /\ LoaderInv /\ [Next]_vars => LoaderInv'
<1> SUFFICES ASSUME StageInv, LoaderInv, [Next]_vars PROVE LoaderInv'
  OBVIOUS
<1>1. CASE UNCHANGED <<zygisk, zygisk_enabled>>
  BY <1>1 DEF LoaderInv
<1>2. CASE ZygoteRestart
  BY <1>2, ResetKeeps DEF ZygoteRestart, LoaderInv, flags
<1>3. CASE EnableZygisk
  <2>1. zygisk_enabled = FALSE
    BY <1>3 DEF EnableZygisk, StageInv, PostFsDataStages, CountedStages
  <2>2. QED
    BY <1>3, <2>1 DEF EnableZygisk, LoaderInv
<1>4. CASE ApplyModules
  BY <1>4, SetPropKeeps DEF ApplyModules, LoaderInv
<1>5. CASE ResetZygisk
  BY <1>5, ResetKeeps DEF ResetZygisk, LoaderInv, flags
<1>6. CASE NewDaemon(RestoreProp(zygisk).nbprop)
  <2>1. RestoreProp(zygisk).nbprop \in {<<>>, <<"0">>, <<Bridge>>}
    BY RestorePropKeeps DEF LoaderInv, PropInv, ZYGISKLDR
  <2>2. QED
    BY <1>6, <2>1, NewZygiskKeeps DEF NewDaemon, LoaderInv
<1>7. CASE NewDaemon(<<Bridge>>)
  BY <1>7, NewZygiskKeeps DEF NewDaemon, LoaderInv
<1>8. CASE InitStep \/ ZygoteRestarts
  BY <1>1, <1>8, InitKeeps DEF flags
<1>9. CASE Handler
  BY <1>1, <1>2, <1>3, <1>4, <1>5, <1>9
  DEF Handler, BeginPostFsData, SetupEnv, CountBoot, CheckSafeMode, DisableModule, EnterSafeMode,
      UpgradeModules, LateStart, BeginBootComplete, ResetCount, flags
<1>10. CASE User
  BY <1>1, <1>6, <1>10, UserKeeps DEF flags
<1>11. CASE Reboot \/ BootFails
  BY <1>7, <1>11 DEF Reboot, BootFails, PowerOn
<1>12. CASE UNCHANGED vars
  BY <1>1, <1>12 DEF vars, flags
<1>13. QED
  BY <1>8, <1>9, <1>10, <1>11, <1>12 DEF Next

(* The loader's first place is in front. *)
LEMMA LoaderInFront ==
    ASSUME LoaderInv
    PROVE  /\ Injected(zygisk) <=> zygisk.lib_name # <<>>
           /\ \A i \in 2 .. Len(zygisk.nbprop) : zygisk.nbprop[i] # ZYGISKLDR
<1> DEFINE p == zygisk.nbprop
<1>1. CASE zygisk.lib_name = <<>>
  <2>1. p \in {<<>>, <<"0">>, <<Bridge>>}
    BY <1>1 DEF LoaderInv, PropInv, ZYGISKLDR
  <2>2. Len(p) <= 1 /\ ~Injected(zygisk)
    <3>1. CASE p = <<>>
      BY <3>1 DEF Injected
    <3>2. CASE p = <<"0">>
      BY <3>2 DEF Injected, ZYGISKLDR
    <3>3. CASE p = <<Bridge>>
      BY <3>3, BootAssumption DEF Injected
    <3>4. QED
      BY <2>1, <3>1, <3>2, <3>3
  <2>3. QED
    BY <1>1, <2>1, <2>2
<1>2. CASE zygisk.lib_name # <<>>
  <2>1. p \in {<<ZYGISKLDR>>, <<ZYGISKLDR, Bridge>>}
    BY <1>2 DEF LoaderInv, PropInv
  <2>2. Injected(zygisk)
    BY <2>1 DEF Injected
  <2>3. \A i \in 2 .. Len(p) : p[i] # ZYGISKLDR
    BY <2>1, BootAssumption
  <2>4. QED
    BY <1>2, <2>2, <2>3
<1>3. QED
  BY <1>1, <1>2

(* Both invariants hold throughout. *)
LEMMA AlwaysBoth == Spec => [](StageInv /\ LoaderInv)
<1>1. Init => LoaderInv
  BY NewZygiskKeeps DEF Init, LoaderInv
<1>2. QED
  BY <1>1, StageInit, StageNext, LoaderNext, PTL DEF Spec

(* The native bridge property holds the loader exactly when the daemon       *)
(* remembers putting it there (zygisk/daemon.rs:136-160): restarts of        *)
(* zygote, boot-complete and STOP_DAEMON in any order cannot part the two.   *)
THEOREM LoaderAlwaysAccountedFor == Spec => []LoaderAccountedFor
<1>1. StageInv /\ LoaderInv => LoaderAccountedFor
  BY LoaderInFront DEF LoaderAccountedFor, LoaderInv, PropInv
<1>2. QED
  BY <1>1, AlwaysBoth, PTL

(* A daemon in safe mode stays inert (bootstages.rs:162-168, 239): no        *)
(* module, no loader, no service script, in every order of requests.         *)
LEMMA SafeModeAlwaysInert == Spec => []SafeModeIsInert
<1>1. StageInv /\ LoaderInv => SafeModeIsInert
  BY LoaderInFront DEF SafeModeIsInert, LoaderInv, StageInv
<1>2. QED
  BY <1>1, AlwaysBoth, PTL

-----------------------------------------------------------------------------
(* What safe mode leaves on disk, and what a daemon does with it: every      *)
(* module is disabled, an update only replaces one, and zygisk is off.       *)
CleanInv ==
    /\ stage = "disable" => installed \ todo \subseteq disable
    /\ stage = "apply" => modules_update = {}
    /\ clean = "yes" =>
          /\ zygisk_config = 0 /\ zygisk_enabled = FALSE
          /\ installed \subseteq disable /\ modules_update \subseteq installed
          /\ \A list \in module_list : list = {}

(* Power is lost: the disk is as it was, the daemon new. *)
LEMMA CleanNewDaemon ==
    ASSUME CleanInv, NEW prop, NewDaemon(prop), UNCHANGED <<disk, watch>>
    PROVE  CleanInv'
BY DEF NewDaemon, disk, watch, CleanInv

(* Handlers keep it so; only EnterSafeMode makes it so. *)
LEMMA CleanHandler ==
    ASSUME StageInv, CleanInv, Handler
    PROVE  CleanInv'
<1> USE DEF CleanInv, flags, local, disk, watch
<1>1. CASE ZygoteRestart \/ BeginPostFsData \/ LateStart \/ BeginBootComplete \/ ResetZygisk
  BY <1>1 DEF ZygoteRestart, BeginPostFsData, LateStart, BeginBootComplete, ResetZygisk
<1>2. CASE SetupEnv \/ CountBoot \/ ResetCount
  BY <1>2 DEF SetupEnv, CountBoot, ResetCount, PostFsDataDone
<1>3. CASE CheckSafeMode
  BY <1>3 DEF CheckSafeMode
<1>4. CASE \E m \in Mods : DisableModule(m)
  BY <1>4 DEF DisableModule
<1>5. CASE EnterSafeMode
  <2>1. zygisk_enabled = FALSE /\ module_list = {}
    BY <1>5 DEF EnterSafeMode, StageInv, PostFsDataStages, CountedStages
  <2>2. UNCHANGED <<zygisk_enabled, module_list, installed, disable, modules_update>>
    BY <1>5 DEF EnterSafeMode
  <2>3. installed \subseteq disable /\ zygisk_config' = 0 /\ stage' = "idle"
    BY <1>5 DEF EnterSafeMode, PostFsDataDone
  <2>4. clean' = "yes" => modules_update \subseteq installed
    BY <1>5 DEF EnterSafeMode
  <2>5. QED
    BY <2>1, <2>2, <2>3, <2>4
<1>6. CASE EnableZygisk
  BY <1>6 DEF EnableZygisk
<1>7. CASE UpgradeModules
  BY <1>7 DEF UpgradeModules, RemoveMarked
<1>8. CASE ApplyModules
  <2>1. installed \subseteq disable => Collect(installed) = {}
    BY DEF Collect
  <2>2. QED
    <3>1. /\ UNCHANGED <<zygisk_config, zygisk_enabled, modules_update, clean>> /\ stage' = "idle"
          /\ module_list' = {Collect(installed)}
          /\ installed' = installed \ remove /\ disable' = disable \ remove
      BY <1>8 DEF ApplyModules, RemoveMarked, PostFsDataDone
    <3>2. modules_update = {}
      BY <1>8 DEF ApplyModules
    <3>3. QED
      BY <2>1, <3>1, <3>2
<1>9. QED
  BY <1>1, <1>2, <1>3, <1>4, <1>5, <1>6, <1>7, <1>8 DEF Handler

(* The user may remove a module without being said to change anything. *)
LEMMA CleanUser ==
    ASSUME CleanInv, User
    PROVE  CleanInv'
<1>1. CASE \E m \in Mods : UserInstalls(m) \/ UserToggles(m)
  BY <1>1 DEF UserInstalls, UserToggles, OnDisk, CleanInv
<1>2. CASE \E m \in Mods : UserRemoves(m)
  BY <1>2 DEF UserRemoves, OnDisk, CleanInv, flags
<1>3. CASE UserSetsZygisk
  BY <1>3 DEF UserSetsZygisk, OnDisk, CleanInv
<1>4. CASE UserStarts
  BY <1>4 DEF UserStarts, CleanInv, flags, local, disk, watch
<1>5. CASE StopDaemon
  BY <1>5, CleanNewDaemon DEF StopDaemon
<1>6. QED
  BY <1>1, <1>2, <1>3, <1>4, <1>5 DEF User

(* "Disable all modules and zygisk so next boot will be clean"               *)
(* (bootstages.rs:164): once safe mode has finished no boot loads a module   *)
(* or enables zygisk until the user changes something, provided that no new  *)
(* module was waiting in modules_update.                                     *)
LEMMA NextBootAlwaysClean == Spec => []NextBootIsClean
<1>1. Init => CleanInv
  BY DEF Init, CleanInv
<1>2. StageInv /\ CleanInv /\ [Next]_vars => CleanInv'
  <2> SUFFICES ASSUME StageInv, CleanInv, [Next]_vars PROVE CleanInv'
    OBVIOUS
  <2>1. CASE InitStep \/ ZygoteRestarts \/ UNCHANGED vars
    BY <2>1, InitKeeps DEF vars, CleanInv, flags, local, disk, watch
  <2>2. CASE Reboot \/ BootFails
    BY <2>2, CleanNewDaemon DEF Reboot, BootFails, PowerOn
  <2>3. QED
    BY <2>1, <2>2, CleanHandler, CleanUser DEF Next
<1>3. CleanInv => NextBootIsClean
  BY DEF CleanInv, NextBootIsClean
<1>4. QED
  BY <1>1, <1>2, <1>3, StageInit, StageNext, PTL DEF Spec

(* Safe mode keeps its promise (bootstages.rs:162-168, 239): the boot that   *)
(* enters it loads nothing, and the boots after it load nothing either until *)
(* the user changes something.                                               *)
THEOREM SafeModeAlwaysSafe == Spec => []SafeModeIsSafe
<1>1. SafeModeIsInert /\ NextBootIsClean => SafeModeIsSafe
  BY DEF SafeModeIsSafe
<1>2. QED
  BY <1>1, SafeModeAlwaysInert, NextBootAlwaysClean, PTL

-----------------------------------------------------------------------------
(* Only handlers that find zygisk enabled change the property, and a         *)
(* restored one does not begin with the loader.                              *)
LEMMA RestoredIsClean ==
    ASSUME NEW z, PropInv(z), z.lib_name = <<>>
    PROVE  ~Injected(z)
<1>1. z.nbprop \in {<<>>, <<"0">>, <<Bridge>>}
  BY DEF PropInv, ZYGISKLDR
<1>2. CASE z.nbprop = <<>>
  BY <1>2 DEF Injected
<1>3. CASE z.nbprop = <<"0">>
  BY <1>3 DEF Injected, ZYGISKLDR
<1>4. CASE z.nbprop = <<Bridge>>
  BY <1>4, BootAssumption DEF Injected
<1>5. QED
  BY <1>1, <1>2, <1>3, <1>4

(* reset at the fourth start, or at boot-complete, restores. *)
LEMMA ResetRestores ==
    ASSUME NEW z, PropInv(z), NEW restore \in BOOLEAN, restore \/ Reset(z, restore).start_count > 3
    PROVE  ~Injected(Reset(z, restore))
<1> DEFINE n == z.start_count + 1
           y == [z EXCEPT !.start_count = n, !.sockets = NoSockets]
           x == [z EXCEPT !.start_count = 1]
<1>1. n \in Nat
  BY DEF PropInv
<1>2. PropInv(x) /\ PropInv(y) /\ y.start_count = n
  <2> HIDE DEF n
  <2>1. QED
    BY <1>1 DEF PropInv
<1>3. CASE restore
  <2>1. Reset(z, restore) = RestoreProp(x)
    BY <1>3 DEF Reset
  <2> HIDE DEF x
  <2>2. QED
    BY <1>2, <2>1, RestorePropKeeps, RestoredIsClean
<1>4. CASE ~restore
  <2>1. Reset(z, restore) = IF n > 3 THEN RestoreProp(y) ELSE SetProp(y)
    BY <1>4 DEF Reset
  <2> HIDE DEF y
  <2>2. SetProp(y).start_count = n
    BY <1>2 DEF SetProp, PropInv
  <2>3. n > 3
    BY <1>1, <1>4, <2>1, <2>2
  <2>4. QED
    BY <1>2, <2>1, <2>3, RestorePropKeeps, RestoredIsClean
<1>5. QED
  BY <1>3, <1>4

(* "zygote crashed too many times, rolling-back" (zygisk/daemon.rs:123-126): *)
(* from the third restart without a completed boot on, no step but the mount *)
(* of the modules puts the loader into the property.                         *)
THEOREM AlwaysRolledBack == Spec => RolledBackStays
<1>1. ASSUME LoaderInv, [Next]_vars, zygisk'.start_count > 3, stage # "apply", Injected(zygisk')
      PROVE  Injected(zygisk) /\ zygisk.start_count > 3
  <2>1. CASE zygisk' = zygisk
    BY <1>1, <2>1
  <2>2. CASE ZygoteRestart
    BY <1>1, <2>1, <2>2, ResetRestores DEF ZygoteRestart, LoaderInv
  <2>3. CASE ResetZygisk
    BY <1>1, <2>1, <2>3, ResetRestores DEF ResetZygisk, LoaderInv
  <2>4. CASE \E prop : NewDaemon(prop)
    BY <1>1, <2>4 DEF NewDaemon, NewZygisk
  <2>5. CASE Handler
    BY <1>1, <2>1, <2>2, <2>3, <2>5
    DEF Handler, BeginPostFsData, SetupEnv, CountBoot, CheckSafeMode, DisableModule,
        EnterSafeMode, EnableZygisk, UpgradeModules, ApplyModules, LateStart, BeginBootComplete,
        ResetCount
  <2>6. CASE InitStep \/ ZygoteRestarts \/ UNCHANGED vars
    BY <2>1, <2>6, InitKeeps DEF vars
  <2>7. CASE User
    BY <2>1, <2>4, <2>7, UserKeeps
  <2>8. CASE Reboot \/ BootFails
    BY <2>4, <2>8 DEF Reboot, BootFails, PowerOn
  <2>9. QED
    BY <1>1, <2>5, <2>6, <2>7, <2>8 DEF Next
<1>2. LoaderInv /\ [Next]_vars =>
         [zygisk'.start_count > 3 /\ stage # "apply" /\ Injected(zygisk') =>
             Injected(zygisk) /\ zygisk.start_count > 3]_vars
  BY <1>1
<1>3. QED
  BY <1>2, AlwaysBoth, PTL DEF Spec, RolledBackStays
=============================================================================
