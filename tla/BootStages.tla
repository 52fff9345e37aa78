------------------------------ MODULE BootStages ------------------------------
(***************************************************************************)
(* The boot stages of magiskd (native/src/core/bootstages.rs) over many    *)
(* boots of one device: boot_stage_handler and the three stages it         *)
(* dispatches, what they leave in /data/adb and magisk.db, the module      *)
(* steps they call (native/src/core/module.rs), and the requests of init's *)
(* injected rc file (native/src/init/rootdir.rs) and of ZYGOTE_RESTART and *)
(* STOP_DAEMON (native/src/core/daemon.rs) that share their state.         *)
(*                                                                         *)
(* A request waits in `queue` until a pool thread takes it; the boot stage *)
(* requests then hold boot_stage_lock for as long as `stage` is not idle.  *)
(* Power can fail between any two steps.  Scripts, file copies and the     *)
(* magic mount itself are left out: they change nothing modelled here.     *)
(***************************************************************************)
EXTENDS ZygiskState, FiniteSets

CONSTANTS
    Mods,         \* module names
    ZygiskMods,   \* modules with a zygisk directory
    RiruMods,     \* riru-core and modules with a riru directory
    BadMods,      \* modules that keep the device from finishing its boot
    Bridge,       \* the device's native bridge, or "0" for none
    EnvStates,    \* initial states of /data/adb: "ok", "no_busybox", "no_dir"
    UserOps,      \* what the user does: "install" "remove" "toggle" "zygisk"
                  \* "stop" (magisk --stop) "start" (magisk --post-fs-data)
    PfdTimesOut,  \* whether post-fs-data can outlast POST_FS_DATA_WAIT_TIME
    MaxUserOps,   \* bound: user operations
    MaxReboots,   \* bound: reboots the modules did not cause
    MaxRestarts,  \* bound: zygote restarts per boot
    MaxCompletes  \* bound: times sys.boot_completed is set per boot

ASSUME BootAssumption ==
    /\ ZygiskMods \subseteq Mods
    /\ RiruMods \subseteq Mods
    /\ BadMods \subseteq Mods
    /\ PfdTimesOut \in BOOLEAN
    /\ Bridge # ZYGISKLDR
    /\ {MaxUserOps, MaxReboots, MaxRestarts, MaxCompletes} \subseteq Nat

Stages == {"POST_FS_DATA", "LATE_START", "BOOT_COMPLETE"}
Codes == Stages \cup {"ZYGOTE_RESTART"}

VARIABLES
    \* /data/adb and magisk.db
    bootloop_count, zygisk_config,
    installed, disable, remove,  \* module directories, and those with the file
    modules_update,              \* directories in modules_update
    env,                         \* what setup_magisk_env finds
    \* the device in this boot
    data,         \* check_data(): /data is mounted and decrypted
    safe_key,     \* a safe mode property or the key combination is set
    init,         \* what init has executed: "pfd" "wait" "service" "running"
    restarts, completes,
    mounted,      \* modules loaded since power-on
    \* the daemon
    up, boot_state, zygisk_enabled, zygisk, queue,
    module_list,  \* a OnceLock: {} until set, then {the loaded modules}
    stage,        \* step of the thread that holds boot_stage_lock
    boot_cnt, todo,
    \* observation
    runs,         \* how often each stage's handler ran in this daemon
    loads,        \* times modules were loaded since a boot last completed, up to 3
    clean,        \* "no", or safe mode finished and the user changed nothing since:
                  \* "yes", or "pending" when a new module was waiting then
    ops, reboots

disk   == <<bootloop_count, zygisk_config, installed, disable, remove, modules_update, env>>
device == <<data, safe_key, init, restarts, completes>>
local  == <<boot_cnt, todo>>
flags  == <<boot_state, zygisk_enabled, module_list>>
bounds == <<ops, reboots>>
watch  == <<loads, clean>>
vars == <<disk, device, mounted, up, flags, zygisk, queue, stage, local, runs, watch, bounds>>

NoRequests == [c \in Codes |-> 0]

(* A daemon process that has just started; the property outlives it.         *)
NewDaemon(prop) ==
    /\ boot_state' = {} /\ zygisk_enabled' = FALSE /\ module_list' = {}
    /\ zygisk' = NewZygisk(prop)
    /\ queue' = NoRequests /\ stage' = "idle"
    /\ boot_cnt' = 0 /\ todo' = {}
    /\ runs' = [s \in Stages |-> 0]

Init ==
    /\ bootloop_count = 0 /\ zygisk_config \in {0, 1}
    /\ installed \in {{}, Mods} /\ modules_update = {}
    /\ disable = {} /\ remove = {} /\ env \in EnvStates
    /\ data \in BOOLEAN /\ safe_key \in BOOLEAN /\ init = "pfd"
    /\ restarts = 0 /\ completes = 0 /\ mounted = {}
    /\ up = TRUE /\ boot_state = {} /\ zygisk_enabled = FALSE /\ module_list = {}
    /\ zygisk = NewZygisk(<<Bridge>>) /\ queue = NoRequests /\ stage = "idle"
    /\ boot_cnt = 0 /\ todo = {} /\ runs = [s \in Stages |-> 0]
    /\ loads = 0 /\ clean = "no" /\ ops = 0 /\ reboots = 0

-----------------------------------------------------------------------------
(* Requests from init's rc file and from the user *)

(* connect_daemon: with `create` a client starts the daemon if it is down.   *)
Request(c, create) ==
    IF up \/ create
    THEN /\ up' = TRUE
         /\ queue' = [queue EXCEPT ![c] = @ + 1]
    ELSE UNCHANGED <<up, queue>>

FromInit == UNCHANGED <<disk, mounted, flags, zygisk, stage, local, runs, watch, bounds>>

(* on post-fs-data: exec magisk --post-fs-data                               *)
InitPostFsData ==
    /\ init = "pfd"
    /\ init' = "wait"
    /\ Request("POST_FS_DATA", TRUE)
    /\ UNCHANGED <<data, safe_key, restarts, completes>> /\ FromInit

(* The exec'd client polls its socket: it returns when the handler closes    *)
(* it, or after POST_FS_DATA_WAIT_TIME with the handler still at work.       *)
InitContinues ==
    /\ init = "wait" /\ data /\ queue["POST_FS_DATA"] = 0
    /\ stage = "idle" \/ PfdTimesOut
    /\ init' = "service"
    /\ UNCHANGED <<data, safe_key, restarts, completes, up, queue>> /\ FromInit

(* An encrypted /data is decrypted, and post-fs-data is triggered again.     *)
Decrypt ==
    /\ init = "wait" /\ ~data /\ queue["POST_FS_DATA"] = 0 /\ stage = "idle"
    /\ init' = "pfd" /\ data' = TRUE
    /\ UNCHANGED <<safe_key, restarts, completes, up, queue>> /\ FromInit

(* on nonencrypted, on trigger_restart_framework: magisk --service           *)
InitService ==
    /\ init = "service"
    /\ init' = "running"
    /\ Request("LATE_START", TRUE)
    /\ UNCHANGED <<data, safe_key, restarts, completes>> /\ FromInit

(* on property:sys.boot_completed=1, each time the framework sets it         *)
BootCompleted ==
    /\ init = "running" /\ completes < MaxCompletes /\ mounted \cap BadMods = {}
    /\ completes' = completes + 1
    /\ Request("BOOT_COMPLETE", FALSE)
    /\ UNCHANGED <<data, safe_key, init, restarts>> /\ FromInit

(* onrestart of the zygote service: magisk --zygote-restart                  *)
ZygoteRestarts ==
    /\ init = "running" /\ restarts < MaxRestarts
    /\ restarts' = restarts + 1
    /\ Request("ZYGOTE_RESTART", FALSE)
    /\ UNCHANGED <<data, safe_key, init, completes>> /\ FromInit

UserOp(op) ==
    /\ op \in UserOps /\ ops < MaxUserOps
    /\ ops' = ops + 1
    /\ UNCHANGED <<device, mounted, reboots>>

(* The manager app changes the disk while the framework runs and no boot     *)
(* stage is at work.                                                         *)
OnDisk ==
    /\ init = "running" /\ stage = "idle"
    /\ UNCHANGED <<up, flags, zygisk, queue, stage, local, runs, loads>>

(* A module archive is unpacked into modules_update.                         *)
UserInstalls(m) ==
    /\ UserOp("install")
    /\ modules_update' = modules_update \cup {m} /\ clean' = "no"
    /\ UNCHANGED <<bootloop_count, zygisk_config, installed, disable, remove, env>> /\ OnDisk

UserRemoves(m) ==
    /\ UserOp("remove") /\ m \in installed
    /\ remove' = remove \cup {m}
    /\ UNCHANGED <<bootloop_count, zygisk_config, installed, disable, modules_update, env, clean>>
    /\ OnDisk

UserToggles(m) ==
    /\ UserOp("toggle") /\ m \in installed
    /\ disable' = IF m \in disable THEN disable \ {m} ELSE disable \cup {m}
    /\ clean' = "no"
    /\ UNCHANGED <<bootloop_count, zygisk_config, installed, remove, modules_update, env>>
    /\ OnDisk

UserSetsZygisk ==
    /\ UserOp("zygisk")
    /\ zygisk_config' = 1 - zygisk_config /\ clean' = "no"
    /\ UNCHANGED <<bootloop_count, installed, disable, remove, modules_update, env>> /\ OnDisk

(* magisk --post-fs-data by hand, as scripts/live_setup.sh does.             *)
UserStarts ==
    /\ UserOp("start")
    /\ Request("POST_FS_DATA", TRUE)
    /\ UNCHANGED <<disk, flags, zygisk, stage, local, runs, watch>>

(* STOP_DAEMON: restore_prop, then exit(0), whatever the other threads do.   *)
StopDaemon ==
    /\ UserOp("stop") /\ up
    /\ up' = FALSE
    /\ NewDaemon(RestoreProp(zygisk).nbprop)
    /\ UNCHANGED <<disk, watch>>

-----------------------------------------------------------------------------
(* Handlers on pool threads *)

Taken(c) == queue[c] > 0 /\ queue' = [queue EXCEPT ![c] = @ - 1]

(* ZYGOTE_RESTART (the denylist scan it starts with is DenyList's).          *)
ZygoteRestart ==
    /\ Taken("ZYGOTE_RESTART")
    /\ zygisk' = IF zygisk_enabled THEN Reset(zygisk, FALSE) ELSE zygisk
    /\ UNCHANGED <<disk, device, mounted, up, flags, stage, local, runs, watch, bounds>>

Env == UNCHANGED <<device, up, bounds>>

(* boot_stage_handler has the lock and dispatches its request.  A stage that *)
(* is not due ends at once.                                                  *)
BeginPostFsData ==
    /\ stage = "idle" /\ Taken("POST_FS_DATA")
    /\ IF data /\ "PostFsDataDone" \notin boot_state
       THEN /\ stage' = "env"
            /\ runs' = [runs EXCEPT !["POST_FS_DATA"] = @ + 1]
       ELSE UNCHANGED <<stage, runs>>
    /\ UNCHANGED <<disk, mounted, flags, zygisk, local, watch>> /\ Env

(* post_fs_data returned `safe`.                                             *)
PostFsDataDone(safe) ==
    /\ stage' = "idle"
    /\ boot_state' = boot_state \cup {"PostFsDataDone"} \cup IF safe THEN {"SafeMode"} ELSE {}

(* setup_magisk_env: without the secure directory or busybox, give up.       *)
SetupEnv ==
    /\ stage = "env"
    /\ IF env = "ok" THEN stage' = "count" /\ UNCHANGED boot_state ELSE PostFsDataDone(TRUE)
    /\ UNCHANGED <<disk, mounted, zygisk_enabled, module_list, zygisk, queue, local, runs, watch>>
    /\ Env

(* Mutant of CountBoot: the incremented count is not stored.                 *)
CountBoot_NotStored ==
    /\ stage = "count"
    /\ boot_cnt' = bootloop_count
    /\ stage' = "check"
    /\ UNCHANGED <<disk, mounted, flags, zygisk, queue, todo, runs, watch>> /\ Env

(* Read the boot count and store its successor, before anything can crash.   *)
CountBoot ==
    /\ stage = "count"
    /\ boot_cnt' = bootloop_count
    /\ bootloop_count' = bootloop_count + 1
    /\ stage' = "check"
    /\ UNCHANGED <<zygisk_config, installed, disable, remove, modules_update, env>>
    /\ UNCHANGED <<mounted, flags, zygisk, queue, todo, runs, watch>> /\ Env

(* Two boots in a row did not complete, or safe mode is asked for.           *)
CheckSafeMode ==
    /\ stage = "check"
    /\ IF boot_cnt >= 2 \/ safe_key
       THEN stage' = "disable" /\ todo' = installed
       ELSE stage' = "enable" /\ UNCHANGED todo
    /\ UNCHANGED <<disk, mounted, flags, zygisk, queue, boot_cnt, runs, watch>> /\ Env

(* Mutant of DisableModule: the disable file is not created.                 *)
DisableModule_Skips(m) ==
    /\ stage = "disable" /\ m \in todo
    /\ todo' = todo \ {m}
    /\ UNCHANGED <<disk, mounted, flags, zygisk, queue, stage, boot_cnt, runs, watch>> /\ Env

(* disable_modules, one directory after the other.                           *)
DisableModule(m) ==
    /\ stage = "disable" /\ m \in todo
    /\ todo' = todo \ {m}
    /\ disable' = disable \cup {m}
    /\ UNCHANGED <<bootloop_count, zygisk_config, installed, remove, modules_update, env>>
    /\ UNCHANGED <<mounted, flags, zygisk, queue, stage, boot_cnt, runs, watch>> /\ Env

EnterSafeMode ==
    /\ stage = "disable" /\ todo = {}
    /\ zygisk_config' = 0 /\ clean' = IF modules_update \subseteq installed THEN "yes" ELSE "pending"
    /\ PostFsDataDone(TRUE)
    /\ UNCHANGED <<bootloop_count, installed, disable, remove, modules_update, env>>
    /\ UNCHANGED <<mounted, zygisk_enabled, module_list, zygisk, queue, local, runs, loads>> /\ Env

EnableZygisk ==
    /\ stage = "enable"
    /\ zygisk_enabled' = (zygisk_config # 0)
    /\ stage' = "upgrade"
    /\ UNCHANGED <<disk, mounted, boot_state, module_list, zygisk, queue, local, runs, watch>> /\ Env

(* collect_modules over the directories `dirs`: what it loads.               *)
Collect(dirs) ==
    {m \in dirs \ (remove \cup disable) :
        IF zygisk_enabled THEN m \notin RiruMods ELSE m \notin ZygiskMods}

(* collect_modules deletes the directories marked for removal.               *)
RemoveMarked(dirs, marked) ==
    /\ installed' = dirs \ marked
    /\ disable' = disable \ marked
    /\ remove' = {}

(* upgrade_modules, then the first collect_modules.  A directory that        *)
(* replaces an old one takes over its disable file and nothing else.         *)
UpgradeModules ==
    /\ stage = "upgrade"
    /\ modules_update' = {}
    /\ RemoveMarked(installed \cup modules_update, remove \ modules_update)
    /\ stage' = "apply"
    /\ UNCHANGED <<bootloop_count, zygisk_config, env>>
    /\ UNCHANGED <<mounted, flags, zygisk, queue, local, runs, watch>> /\ Env

(* The second collect_modules, apply_modules with its set_prop, and the      *)
(* module list.                                                              *)
ApplyModules ==
    /\ stage = "apply"
    /\ module_list' = {Collect(installed)}
    /\ RemoveMarked(installed, remove)
    /\ mounted' = mounted \cup Collect(installed)
    /\ zygisk' = IF zygisk_enabled THEN SetProp(zygisk) ELSE zygisk
    /\ loads' = IF loads > 2 THEN loads ELSE loads + 1
    /\ PostFsDataDone(FALSE)
    /\ UNCHANGED <<bootloop_count, zygisk_config, modules_update, env>>
    /\ UNCHANGED <<zygisk_enabled, queue, local, runs, clean>> /\ Env

(* late_start: the service scripts.                                          *)
LateStart ==
    /\ stage = "idle" /\ Taken("LATE_START")
    /\ IF "PostFsDataDone" \in boot_state /\ "SafeMode" \notin boot_state
       THEN /\ boot_state' = boot_state \cup {"LateStartDone"}
            /\ runs' = [runs EXCEPT !["LATE_START"] = @ + 1]
       ELSE UNCHANGED <<boot_state, runs>>
    /\ UNCHANGED <<disk, mounted, zygisk_enabled, module_list, zygisk, stage, local, watch>> /\ Env

BeginBootComplete ==
    /\ stage = "idle" /\ Taken("BOOT_COMPLETE")
    /\ IF "PostFsDataDone" \in boot_state
       THEN /\ boot_state' = boot_state \cup {"BootComplete"}
            /\ stage' = "reset_count"
            /\ runs' = [runs EXCEPT !["BOOT_COMPLETE"] = @ + 1]
       ELSE UNCHANGED <<boot_state, stage, runs>>
    /\ UNCHANGED <<disk, mounted, zygisk_enabled, module_list, zygisk, local, watch>> /\ Env

(* boot_complete, its storage half: counter, secure directory.               *)
ResetCount ==
    /\ stage = "reset_count"
    /\ bootloop_count' = 0 /\ loads' = 0
    /\ env' = IF env = "no_dir" THEN "no_busybox" ELSE env
    /\ stage' = "reset_zygisk"
    /\ UNCHANGED <<zygisk_config, installed, disable, remove, modules_update>>
    /\ UNCHANGED <<mounted, flags, zygisk, queue, local, runs, clean>> /\ Env

(* boot_complete, its last call.                                             *)
ResetZygisk ==
    /\ stage = "reset_zygisk"
    /\ zygisk' = IF zygisk_enabled THEN Reset(zygisk, TRUE) ELSE zygisk
    /\ stage' = "idle"
    /\ UNCHANGED <<disk, mounted, flags, queue, local, runs, watch>> /\ Env

-----------------------------------------------------------------------------
(* Power is lost or the device is rebooted; the next boot finds the disk.    *)
PowerOn ==
    /\ data' \in BOOLEAN /\ safe_key' \in BOOLEAN
    /\ init' = "pfd" /\ restarts' = 0 /\ completes' = 0 /\ mounted' = {}
    /\ up' = TRUE /\ NewDaemon(<<Bridge>>)
    /\ UNCHANGED <<disk, watch, ops>>

Reboot ==
    /\ reboots < MaxReboots
    /\ reboots' = reboots + 1
    /\ PowerOn

(* A bad module is mounted: the framework never comes up, and a watchdog or  *)
(* the user restarts the device once init is past post-fs-data.              *)
BootFails ==
    /\ init = "running" /\ mounted \cap BadMods # {}
    /\ UNCHANGED reboots
    /\ PowerOn

InitStep == InitPostFsData \/ InitContinues \/ Decrypt \/ InitService \/ BootCompleted

Handler ==
    \/ ZygoteRestart
    \/ BeginPostFsData \/ SetupEnv \/ CountBoot \/ CheckSafeMode
    \/ (\E m \in Mods : DisableModule(m))
    \/ EnterSafeMode \/ EnableZygisk \/ UpgradeModules \/ ApplyModules
    \/ LateStart
    \/ BeginBootComplete \/ ResetCount \/ ResetZygisk

User ==
    \/ (\E m \in Mods : UserInstalls(m) \/ UserRemoves(m) \/ UserToggles(m))
    \/ UserSetsZygisk \/ UserStarts \/ StopDaemon

Next == InitStep \/ ZygoteRestarts \/ Handler \/ User \/ Reboot \/ BootFails

Spec == Init /\ [][Next]_vars

(* Pool threads and init are scheduled, and a device that hangs is           *)
(* restarted.  Nothing is assumed of the user, of zygote or of power cuts.   *)
FairSpec == Spec /\ WF_vars(Handler) /\ WF_vars(InitStep) /\ WF_vars(BootFails)

-----------------------------------------------------------------------------
(* Properties *)

(* The bootloop counter breaks the loop: modules are loaded at most twice    *)
(* between two completed boots, wherever power fails or the daemon is        *)
(* stopped in between (post_fs_data, bootstages.rs:152-168).                 *)
LoopIsBroken == loads <= 2

(* A daemon in safe mode has loaded no module, injected nothing into zygote  *)
(* and run no service script, and none of these happens later                *)
(* (bootstages.rs:162-168, 239).                                             *)
SafeModeIsInert ==
    "SafeMode" \in boot_state =>
        /\ module_list = {}
        /\ ~zygisk_enabled /\ ~Injected(zygisk)
        /\ runs["LATE_START"] = 0

(* "Disable all modules and zygisk so next boot will be clean"               *)
(* (bootstages.rs:164): once safe mode has finished, no boot loads a module  *)
(* or enables zygisk until the user changes something.  A new module that    *)
(* waits in modules_update is the exception: disable_modules only looks at   *)
(* modules (an update of an installed module takes its mark over).           *)
NextBootIsClean ==
    clean = "yes" => \A list \in module_list : list = {} /\ ~zygisk_enabled

(* Safe mode keeps its promise, in the boot that enters it and in the next   *)
(* ones (post_fs_data, disable_modules).                                     *)
SafeModeIsSafe == SafeModeIsInert /\ NextBootIsClean

(* boot_stage_handler's guard on PostFsDataDone: modules are mounted at most *)
(* once per daemon, although the request can come again                      *)
(* (bootstages.rs:230).                                                      *)
ModulesMountedOnce == runs["POST_FS_DATA"] <= 1

(* The loader is in the native bridge property exactly when the daemon       *)
(* remembers having put it there, once, in front of what was there, and only *)
(* with zygisk enabled (set_prop, zygisk/daemon.rs:136-146).                 *)
LoaderAccountedFor ==
    /\ Injected(zygisk) <=> zygisk.lib_name # <<>>
    /\ Injected(zygisk) => zygisk_enabled /\ zygisk.nbprop = zygisk.lib_name
    /\ \A i \in 2 .. Len(zygisk.nbprop) : zygisk.nbprop[i] # ZYGISKLDR

(* "zygote crashed too many times, rolling-back" (zygisk/daemon.rs:123-126): *)
(* from the third zygote restart without a completed boot on, no step puts   *)
(* the loader into the property.  The mount of the modules is excepted: it   *)
(* can come last, if post_fs_data outlasts POST_FS_DATA_WAIT_TIME.           *)
RolledBackStays ==
    [][zygisk'.start_count > 3 /\ stage # "apply" /\ Injected(zygisk') =>
          Injected(zygisk) /\ zygisk.start_count > 3]_vars

(* "Restore native bridge property" (daemon.rs:142): whenever the loader is  *)
(* not injected the property names the device's own native bridge.           *)
BridgeRestored ==
    ~Injected(zygisk) =>
        zygisk.nbprop = <<Bridge>> \/ (NoBridge(zygisk.nbprop) /\ NoBridge(<<Bridge>>))

(* A device that a module keeps from booting recovers by itself: in the end  *)
(* a boot completes with no bad module mounted.  It needs post_fs_data to    *)
(* end within POST_FS_DATA_WAIT_TIME: otherwise a boot completes, and resets *)
(* the counter, with the module mounted under the running framework.         *)
Recovers == <>[]("BootComplete" \in boot_state /\ mounted \cap BadMods = {})
=============================================================================
