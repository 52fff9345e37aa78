--------------------------- MODULE ModuleLifecycle ---------------------------
(***************************************************************************)
(* The life of a module's directory, from its installation to its removal, *)
(* over boots that power can cut at any step: the installer                *)
(* (scripts/util_functions.sh), the manager's switches (LocalModule.kt),   *)
(* handle_modules (native/src/core/module.rs) and the post-fs-data scripts *)
(* with their timer (native/src/core/scripting.cpp).                       *)
(*                                                                         *)
(* Files other than the marks disable, remove and update and the presence  *)
(* of sepolicy.rule are summed up as "whole".  A directory is erased file  *)
(* by file in no particular order, so a cut can leave any part of it.      *)
(***************************************************************************)
EXTENDS Integers, FiniteSets

CONSTANTS
    Modules,      \* module ids
    Common,       \* scripts in post-fs-data.d
    Scripted,     \* modules with a post-fs-data.sh
    Ruled,        \* <<m, v>>: version v of module m has a sepolicy.rule
    MaxBoots,     \* bound: reboots and power cuts
    MaxUserOps    \* bound: what the user does to modules

NoModule == "none"

ASSUME ModuleLifecycleAssumption ==
    /\ NoModule \notin Modules
    /\ Scripted \subseteq Modules /\ Common \cap Modules = {}
    /\ Ruled \subseteq Modules \X {"old", "new"}
    /\ {MaxBoots, MaxUserOps} \subseteq Nat

Marks == {"disable", "remove", "update"}
NoDir == [ver |-> "none", whole |-> FALSE, marks |-> {}]
Fresh(v) == [ver |-> v, whole |-> TRUE, marks |-> {}]
Scripts == Common \cup Scripted

VARIABLES
    root,     \* root[m]: m's directory in modules
    staged,   \* staged[m]: m's directory in modules_update: "none", "partial", "full"
    rules,    \* sepolicy.rule in the preinit directory: whose rules are in it
    pc,       \* magiskd: "common", "upgrade", ..., and "up" once it has started
    cur,      \* the module that an upgrade or a removal is about
    keep,     \* upgrade_modules' local: disable
    todo,     \* the entries for_each_module has yet to visit
    list,     \* the modules collected
    child,    \* the process that runs scripts in turn: "none", "next", "wait", "exited"
    left,     \* scripts it has yet to start
    timer,    \* its timer: "none", "armed", "zombie", "gone" (timer_pid is -1)
    late,     \* the deadline of the post-fs-data scripts has passed
    scr,      \* scr[s]: "idle", "running", "zombie", "done"
    want,     \* ghost: what m is meant to be: "none", "old", "new", "removed", "any"
    off,      \* ghost: modules that are meant to be disabled
    torn,     \* ghost: modules that were being changed when power failed
    ops, boots

dirs == <<root, staged, rules>>
daemon == <<pc, cur, keep, todo, list>>
pfs == <<child, left, timer>>
user == <<want, off, ops>>
vars == <<dirs, daemon, pfs, late, scr, user, torn, boots>>

Init ==
    /\ root \in [Modules -> {NoDir, Fresh("old"), [Fresh("old") EXCEPT !.marks = {"disable"}]}]
    /\ staged = [m \in Modules |-> "none"]
    /\ rules = {r \in Ruled : root[r[1]] = Fresh(r[2])}
    /\ pc = "up" /\ cur = NoModule /\ keep = FALSE /\ todo = {} /\ list = {}
    /\ child = "none" /\ left = {} /\ timer = "none" /\ late = FALSE
    /\ scr = [s \in Scripts |-> "idle"]
    /\ want = [m \in Modules |-> root[m].ver]
    /\ off = {m \in Modules : "disable" \in root[m].marks}
    /\ torn = {} /\ ops = 0 /\ boots = 0

-----------------------------------------------------------------------------
(* The user, on a running system *)

(* Mutant of PreinitRules: the update mark is not looked at.                 *)
PreinitRules_KeepsOld(rt, st) ==
    {r \in Ruled : \/ rt[r[1]].ver = r[2] /\ rt[r[1]].whole /\ rt[r[1]].marks \subseteq {"update"}
                   \/ r[2] = "new" /\ st[r[1]] = "full"}

(* copy_preinit_files: the rules of every directory of modules and           *)
(* modules_update that has none of the marks.                                *)
PreinitRules(rt, st) ==
    {r \in Ruled : \/ rt[r[1]].ver = r[2] /\ rt[r[1]].whole /\ rt[r[1]].marks = {}
                   \/ r[2] = "new" /\ st[r[1]] = "full"}

(* What a directory with nothing staged beside it will be.                   *)
Meant(d) ==
    IF "remove" \in d.marks THEN "removed" ELSE IF d.whole \/ d = NoDir THEN d.ver ELSE "any"

Idle == pc = "up" /\ cur = NoModule
Op == ops < MaxUserOps /\ ops' = ops + 1

(* install_module: rm -rf and refill the directory in modules_update.        *)
InstallBegin(m) ==
    /\ Idle /\ Op
    /\ staged' = [staged EXCEPT ![m] = "partial"]
    /\ cur' = m
    /\ want' = [want EXCEPT ![m] = "any"]
    /\ UNCHANGED <<root, rules, pc, keep, todo, list, pfs, late, scr, off, torn, boots>>

(* Its end: mark the old directory, or make one for the mark, clear the      *)
(* other marks, and copy the rules if the module has any.                    *)
InstallEnd(m) ==
    /\ pc = "up" /\ cur = m
    /\ staged' = [staged EXCEPT ![m] = "full"]
    /\ root' = [root EXCEPT ![m].marks = {"update"},
                            ![m].ver = IF @ = "none" THEN "stub" ELSE @]
    /\ rules' = IF <<m, "new">> \in Ruled THEN PreinitRules(root', staged') ELSE rules
    /\ cur' = NoModule
    /\ want' = [want EXCEPT ![m] = "new"]
    /\ off' = off \ {m} /\ torn' = torn \ {m}
    /\ UNCHANGED <<pc, keep, todo, list, pfs, late, scr, ops, boots>>

(* abort: what was staged is dropped.                                        *)
InstallAborts(m) ==
    /\ pc = "up" /\ cur = m
    /\ staged' = [staged EXCEPT ![m] = "none"]
    /\ cur' = NoModule
    /\ want' = [want EXCEPT ![m] = Meant(root[m])]
    /\ UNCHANGED <<root, rules, pc, keep, todo, list, pfs, late, scr, off, ops, torn, boots>>

Mark(m, mark, on) ==
    /\ root' = [root EXCEPT ![m].marks = IF on THEN @ \cup {mark} ELSE @ \ {mark}]
    /\ rules' = PreinitRules(root', staged)

(* LocalModule.enable = on.                                                  *)
SetEnable(m, on) ==
    /\ Idle /\ Op /\ root[m] # NoDir
    /\ Mark(m, "disable", ~on)
    /\ off' = IF on THEN off \ {m} ELSE off \cup {m}
    /\ UNCHANGED <<staged, daemon, pfs, late, scr, want, torn, boots>>

(* LocalModule.remove = on: a module with an update pending is not removed.  *)
SetRemove(m, on) ==
    /\ Idle /\ Op /\ root[m] # NoDir
    /\ IF on THEN root[m].marks \cap {"update", "remove"} = {} ELSE "remove" \in root[m].marks
    /\ Mark(m, "remove", on)
    /\ want' = [want EXCEPT ![m] = CASE staged[m] = "full" -> "new"
                                      [] staged[m] = "partial" -> "any"
                                      [] staged[m] = "none" -> Meant(root'[m])]
    /\ UNCHANGED <<staged, daemon, pfs, late, scr, off, torn, boots>>

-----------------------------------------------------------------------------
(* Reboots and power cuts *)

(* The module that is half removed, half replaced or half installed if power *)
(* fails now.                                                                *)
AtRisk == IF pc = "clear" THEN {} ELSE {cur} \ {NoModule}

Reboot ==
    /\ boots < MaxBoots /\ boots' = boots + 1
    /\ torn' = torn \cup AtRisk
    /\ pc' = "common" /\ cur' = NoModule /\ keep' = FALSE /\ todo' = {} /\ list' = {}
    /\ child' = "none" /\ left' = {} /\ timer' = "none" /\ late' = FALSE
    /\ scr' = [s \in Scripts |-> "idle"]
    /\ UNCHANGED <<dirs, user>>

(* post_fs_data in safe mode: disable_modules, and nothing is loaded.        *)
SafeMode ==
    /\ pc = "common" /\ child = "none"
    /\ root' = [m \in Modules |-> IF root[m] = NoDir THEN NoDir
                                   ELSE [root[m] EXCEPT !.marks = @ \cup {"disable"}]]
    /\ off' = off \cup {m \in Modules : root[m] # NoDir}
    /\ pc' = "up"
    /\ UNCHANGED <<staged, rules, cur, keep, todo, list, pfs, late, scr, want, torn, ops, boots>>

-----------------------------------------------------------------------------
(* Scripts: PFS_SETUP, PFS_WAIT and PFS_DONE *)

Files == UNCHANGED <<dirs, user, torn, boots>>

(* The scripts of a stage, run by a child with a timer for the deadline;     *)
(* after the deadline they are started without waiting.                      *)
Fork(queue, next) ==
    /\ child = "none"
    /\ \/ /\ queue # {} /\ ~late
          /\ child' = "next" /\ left' = queue /\ timer' = "armed"
          /\ UNCHANGED <<pc, scr, todo>>
       \/ /\ queue = {} \/ late
          /\ scr' = [s \in Scripts |-> IF s \in queue THEN "running" ELSE scr[s]]
          /\ pc' = next /\ todo' = {m \in Modules : root[m] # NoDir}
          /\ UNCHANGED pfs

(* waitpid on the child.                                                     *)
Join(next) ==
    /\ child = "exited"
    /\ child' = "none" /\ timer' = "none"
    /\ pc' = next /\ todo' = {m \in Modules : root[m] # NoDir}
    /\ UNCHANGED <<left, scr>>

ExecCommonScripts ==
    /\ pc = "common" /\ (Fork(Common, "upgrade") \/ Join("upgrade"))
    /\ UNCHANGED <<cur, keep, list, late>> /\ Files

(* A directory that was half erased may have lost its script.                *)
ExecModuleScripts ==
    /\ pc = "scripts"
    /\ \/ \E lost \in SUBSET {m \in Modules : ~root[m].whole} :
             Fork((list \cap Scripted) \ lost, "collect2")
       \/ Join("collect2")
    /\ list' = IF pc' = "collect2" THEN {} ELSE list
    /\ UNCHANGED <<cur, keep, late>> /\ Files

(* Mutant of StartScript: the next script is started without a wait.         *)
StartScript_NoWait(s) ==
    /\ child = "next" /\ s \in left
    /\ scr' = [scr EXCEPT ![s] = "running"]
    /\ left' = left \ {s}
    /\ UNCHANGED <<child, timer>> /\ UNCHANGED <<daemon, late>> /\ Files

StartScript(s) ==
    /\ child = "next" /\ s \in left
    /\ scr' = [scr EXCEPT ![s] = "running"]
    /\ left' = left \ {s}
    /\ child' = IF timer = "gone" THEN "next" ELSE "wait"
    /\ UNCHANGED timer /\ UNCHANGED <<daemon, late>> /\ Files

(* waitpid(-1) returns a script.                                             *)
ReapScript(s) ==
    /\ child = "wait" /\ scr[s] = "zombie"
    /\ scr' = [scr EXCEPT ![s] = "done"]
    /\ child' = "next"
    /\ UNCHANGED <<left, timer>> /\ UNCHANGED <<daemon, late>> /\ Files

(* Mutant of ReapTimer: the end of the timer is taken for a script's.        *)
ReapTimer_Ignored ==
    /\ child = "wait" /\ timer = "zombie"
    /\ timer' = "none"
    /\ UNCHANGED <<child, left, scr, daemon, late>> /\ Files

(* waitpid(-1) returns the timer: do not block any more.                     *)
ReapTimer ==
    /\ child = "wait" /\ timer = "zombie"
    /\ timer' = "gone" /\ child' = "next"
    /\ UNCHANGED <<left, scr, daemon, late>> /\ Files

ChildExits ==
    /\ child = "next" /\ left = {}
    /\ child' = "exited"
    /\ timer' = IF timer = "gone" THEN "gone" ELSE "none"
    /\ UNCHANGED <<left, scr, daemon, late>> /\ Files

DeadlinePasses ==
    /\ pc # "up" /\ ~late
    /\ pc = "common" => child # "none"
    /\ late' = TRUE
    /\ UNCHANGED <<pfs, scr, daemon>> /\ Files

TimerFires ==
    /\ timer = "armed" /\ late
    /\ timer' = "zombie"
    /\ UNCHANGED <<child, left, scr, daemon, late>> /\ Files

(* A script ends, or first marks its own module.                             *)
ScriptEnds(s) ==
    /\ scr[s] = "running"
    /\ scr' = [scr EXCEPT ![s] = "zombie"]
    /\ UNCHANGED <<pfs, daemon, late>> /\ Files

ScriptMarks(m, mark) ==
    /\ scr[m] = "running" /\ root[m] # NoDir
    /\ root' = [root EXCEPT ![m].marks = @ \cup {mark}]
    /\ off' = IF mark = "disable" THEN off \cup {m} ELSE off
    /\ want' = IF mark = "remove" /\ staged[m] = "none" THEN [want EXCEPT ![m] = "removed"] ELSE want
    /\ UNCHANGED <<staged, rules, pfs, scr, daemon, late, ops, torn, boots>>

-----------------------------------------------------------------------------
(* handle_modules *)

Boot == UNCHANGED <<rules, pfs, late, scr, user, torn, boots>>

UpgradeModule(m) ==
    /\ pc = "upgrade" /\ staged[m] # "none"
    /\ cur' = m /\ keep' = ("disable" \in root[m].marks)
    /\ pc' = IF root[m] = NoDir THEN "rename" ELSE "clear"
    /\ UNCHANGED <<root, staged, todo, list>> /\ Boot

(* remove_all, and then the directory itself.                                *)
Erase(from, to) ==
    /\ pc = from
    /\ \E gone \in SUBSET Marks :
          root' = [root EXCEPT ![cur].whole = FALSE, ![cur].marks = @ \ gone]
    /\ pc' = to
    /\ UNCHANGED <<staged, cur, keep, todo, list>> /\ Boot

Unlink ==
    /\ pc = "unlink"
    /\ root' = [root EXCEPT ![cur] = NoDir]
    /\ pc' = "rename"
    /\ UNCHANGED <<staged, cur, keep, todo, list>> /\ Boot

UnlinkRemoved(from, to) ==
    /\ pc = from
    /\ root' = [root EXCEPT ![cur] = NoDir]
    /\ pc' = to /\ cur' = NoModule
    /\ off' = off \ {cur}
    /\ UNCHANGED <<staged, rules, keep, todo, list, pfs, late, scr, want, ops, torn, boots>>

Rename ==
    /\ pc = "rename"
    /\ root' = [root EXCEPT ![cur] = [Fresh("new") EXCEPT !.whole = (staged[cur] = "full")]]
    /\ staged' = [staged EXCEPT ![cur] = "none"]
    /\ pc' = IF keep THEN "mark" ELSE "upgrade"
    /\ cur' = IF keep THEN cur ELSE NoModule
    /\ UNCHANGED <<keep, todo, list>> /\ Boot

KeepDisabled ==
    /\ pc = "mark"
    /\ root' = [root EXCEPT ![cur].marks = @ \cup {"disable"}]
    /\ pc' = "upgrade" /\ cur' = NoModule
    /\ UNCHANGED <<staged, keep, todo, list>> /\ Boot

(* Mutant of UpgradeDone: modules_update is emptied after the first entry.   *)
UpgradeDone_First ==
    /\ pc = "upgrade"
    /\ staged' = [m \in Modules |-> "none"]
    /\ pc' = "collect1" /\ todo' = {m \in Modules : root[m] # NoDir}
    /\ UNCHANGED <<root, cur, keep, list>> /\ Boot

UpgradeDone ==
    /\ pc = "upgrade" /\ \A m \in Modules : staged[m] = "none"
    /\ pc' = "collect1" /\ todo' = {m \in Modules : root[m] # NoDir}
    /\ UNCHANGED <<root, staged, cur, keep, list>> /\ Boot

(* Mutant of CollectModule: marks are not looked at again.                   *)
CollectModule_Trusts(m) ==
    /\ pc \in {"collect1", "collect2"} /\ m \in todo
    /\ todo' = todo \ {m}
    /\ root' = [root EXCEPT ![m].marks = @ \ {"update"}]
    /\ list' = IF "disable" \in root[m].marks /\ pc = "collect1" THEN list ELSE list \cup {m}
    /\ UNCHANGED <<staged, pc, cur, keep>> /\ Boot

(* One entry of collect_modules; a removal runs uninstall.sh first.          *)
CollectModule(m) ==
    /\ pc \in {"collect1", "collect2"} /\ m \in todo
    /\ todo' = todo \ {m}
    /\ IF "remove" \in root[m].marks
       THEN /\ cur' = m /\ pc' = IF pc = "collect1" THEN "erase1" ELSE "erase2"
            /\ UNCHANGED <<root, list>>
       ELSE /\ root' = [root EXCEPT ![m].marks = @ \ {"update"}]
            /\ list' = IF "disable" \in root[m].marks THEN list ELSE list \cup {m}
            /\ UNCHANGED <<pc, cur>>
    /\ UNCHANGED <<staged, keep>> /\ Boot

(* The second collection is what is mounted and becomes module_list.         *)
CollectDone ==
    /\ pc \in {"collect1", "collect2"} /\ todo = {}
    /\ pc' = IF pc = "collect1" THEN "scripts" ELSE "up"
    /\ UNCHANGED <<root, staged, cur, keep, todo, list>> /\ Boot

HandleModules ==
    \/ \E m \in Modules : UpgradeModule(m) \/ CollectModule(m)
    \/ Erase("clear", "unlink") \/ Unlink \/ Rename \/ KeepDisabled
    \/ UpgradeDone \/ CollectDone
    \/ \E n \in {<<"erase1", "erased1", "collect1">>, <<"erase2", "erased2", "collect2">>} :
          Erase(n[1], n[2]) \/ UnlinkRemoved(n[2], n[3])

Scheduled ==
    \/ ExecCommonScripts \/ ExecModuleScripts \/ HandleModules
    \/ \E s \in Scripts : StartScript(s) \/ ReapScript(s)
    \/ ReapTimer \/ ChildExits \/ DeadlinePasses \/ TimerFires

Next ==
    \/ \E m \in Modules : \/ InstallBegin(m) \/ InstallEnd(m) \/ InstallAborts(m)
                          \/ \E on \in BOOLEAN : SetEnable(m, on) \/ SetRemove(m, on)
    \/ Reboot \/ SafeMode
    \/ \E s \in Scripts : ScriptEnds(s)
    \/ \E m \in Scripted, mark \in {"disable", "remove"} : ScriptMarks(m, mark)
    \/ Scheduled

(* magiskd, its child and the clock go on; scripts may hang for ever.        *)
Spec == Init /\ [][Next]_vars /\ WF_vars(Scheduled)

-----------------------------------------------------------------------------
(* Properties *)

(* Once install_module has ended, the version it installed is complete in    *)
(* modules_update or in modules, however often power fails while             *)
(* upgrade_modules replaces the old directory, until it is removed.          *)
InstallIsKept ==
    \A m \in Modules : want[m] = "new" => staged[m] = "full" \/ (root[m].ver = "new" /\ root[m].whole)

(* PFS_WAIT: before the deadline post-fs-data scripts run one at a time, the *)
(* directories are not changed while a common script runs, and modules are   *)
(* not collected for mounting while one of their scripts runs.               *)
ScriptsRunInTurn ==
    ~late => /\ Cardinality({s \in Scripts : scr[s] \in {"running", "zombie"}}) <= 1
             /\ \A s \in Scripts : scr[s] \in {"running", "zombie"} => pc \in {"common", "scripts"}

(* The modules handle_modules mounts.                                        *)
Loads == pc = "collect2" /\ pc' = "up"

(* handle_modules loads a module only in the version that was asked for, and *)
(* neither a disabled nor a removed one, whoever left the mark: the user,    *)
(* safe mode or the module's own script.  Excused: modules that were being   *)
(* changed when power failed, and scripts past the deadline, which can leave *)
(* a mark after it was looked at.                                            *)
LoadedAsAsked ==
    [][Loads /\ ~late => \A m \in list \ torn : want[m] \in {root[m].ver, "any"} /\ m \notin off]_vars

(* A boot, however its scripts hang, gets to the end of post-fs-data.        *)
BootEnds == pc # "up" ~> pc = "up"

(* When copy_preinit_files rewrites sepolicy.rule, it holds the rules of the *)
(* versions the next boot loads and no others: an old version's are gone as  *)
(* soon as an update is pending.  Two exceptions, because the marks are in   *)
(* modules and the update in modules_update: an update that was disabled     *)
(* while pending has its rules in, and an old version has not, although it   *)
(* will be loaded, when a second update was aborted and its mark left.       *)
RulesAreOfNextBoot ==
    [][rules' # rules =>
         \A r \in Ruled : LET m == r[1] IN
            /\ m \notin torn /\ want'[m] # "any"
            /\ "update" \in root'[m].marks => staged'[m] = "full"
            => (r \in rules' <=> want'[m] = r[2] /\ (m \notin off' \/ staged'[m] = "full"))]_vars
=============================================================================
