------------------------ MODULE ModuleLifecycleProofs ------------------------
(***************************************************************************)
(* Proofs about ModuleLifecycle for every set of modules and scripts and   *)
(* any number of power cuts, boots and user operations.                    *)
(***************************************************************************)
EXTENDS ModuleLifecycle, FiniteSetTheorems, TLAPS

Dirs == [ver : {"none", "stub", "old", "new"}, whole : BOOLEAN, marks : SUBSET Marks]

(* The steps of one upgrade before its rename, those of one removal, and     *)
(* all that follow the upgrades.                                             *)
Replacing == {"clear", "unlink", "rename"}
Erasing == {"erase1", "erased1", "erase2", "erased2"}
Upgraded == Erasing \cup {"collect1", "scripts", "collect2"}

(* Where a module's newest version is.                                       *)
KeptInv ==
    /\ root \in [Modules -> Dirs]
    /\ staged \in [Modules -> {"none", "partial", "full"}]
    /\ DOMAIN want = Modules
    /\ \A m \in Modules : want[m] = "new" =>
          staged[m] = "full" \/ (staged[m] = "none" /\ root[m].ver = "new" /\ root[m].whole = TRUE)
    /\ \A m \in Modules : staged[m] = "none" /\ "remove" \in root[m].marks => want[m] # "new"
    /\ pc \in Replacing \cup {"mark"} => cur \in Modules
    /\ pc \in Replacing => staged[cur] # "none"
    /\ pc \in Erasing => cur \in Modules /\ want[cur] # "new"
    /\ pc \in Upgraded => \A m \in Modules : staged[m] = "none"

(* A step that changes none of this, and does not begin one of the phases. *)
LEMMA KeptFrame ==
    ASSUME KeptInv, UNCHANGED <<root, staged, want>>,
           \/ UNCHANGED <<pc, cur>>
           \/ pc' \notin Replacing \cup {"mark"} \cup Upgraded
           \/ pc \in Upgraded /\ pc' \notin Replacing \cup {"mark"} \cup Erasing
    PROVE  KeptInv'
BY DEF KeptInv, Upgraded

-----------------------------------------------------------------------------
(* The installer and the manager's switches, on a running system. *)
LEMMA UserKept ==
    ASSUME KeptInv, NEW m \in Modules,
           \/ InstallBegin(m) \/ InstallEnd(m) \/ InstallAborts(m)
           \/ \E on \in BOOLEAN : SetEnable(m, on) \/ SetRemove(m, on)
    PROVE  KeptInv'
<1> USE DEF KeptInv, Replacing, Erasing, Upgraded, Dirs, Marks
<1>1. CASE InstallBegin(m)
  BY <1>1 DEF InstallBegin, Idle
<1>2. CASE InstallEnd(m)
  BY <1>2 DEF InstallEnd
<1>3. CASE InstallAborts(m)
  <2>1. Meant(root[m]) = "new" =>
          root[m].ver = "new" /\ root[m].whole = TRUE /\ "remove" \notin root[m].marks
    BY DEF Meant, NoDir
  <2>2. QED
    BY <1>3, <2>1 DEF InstallAborts
<1>4. ASSUME NEW on \in BOOLEAN, SetEnable(m, on) PROVE KeptInv'
  BY <1>4 DEF SetEnable, Mark, Idle, daemon
<1>5. ASSUME NEW on \in BOOLEAN, SetRemove(m, on) PROVE KeptInv'
  <2>1. pc' = "up" /\ UNCHANGED staged
    BY <1>5 DEF SetRemove, Idle, daemon
  <2>2. PICK marks \in SUBSET Marks : root' = [root EXCEPT ![m].marks = marks]
    BY <1>5 DEF SetRemove, Mark
  <2>3. root'[m] = [root[m] EXCEPT !.marks = marks]
    BY <2>2
  <2>4. Meant(root'[m]) = "new" =>
          root'[m].ver = "new" /\ root'[m].whole = TRUE /\ "remove" \notin root'[m].marks
    BY <2>2, <2>3 DEF Meant, NoDir
  <2>5. /\ DOMAIN want' = Modules /\ \A n \in Modules \ {m} : want'[n] = want[n]
        /\ want'[m] = "new" => staged[m] = "full" \/ (staged[m] = "none" /\ Meant(root'[m]) = "new")
    BY <1>5 DEF SetRemove
  <2>6. QED
    BY <2>1, <2>2, <2>4, <2>5
<1>6. QED
  BY <1>1, <1>2, <1>3, <1>4, <1>5

(* Power cuts and safe mode. *)
LEMMA RebootKept ==
    ASSUME KeptInv, Reboot \/ SafeMode
    PROVE  KeptInv'
<1>1. CASE Reboot
  BY <1>1, KeptFrame DEF Reboot, dirs, user, Replacing, Upgraded, Erasing
<1>2. CASE SafeMode
  BY <1>2 DEF SafeMode, KeptInv, Replacing, Erasing, Upgraded, Dirs, Marks, NoDir
<1>3. QED
  BY <1>1, <1>2

(* The scripts, their timer and the marks they leave. *)
LEMMA ScriptsKept ==
    ASSUME KeptInv,
           \/ ExecCommonScripts \/ ExecModuleScripts
           \/ \E s \in Scripts : StartScript(s) \/ ReapScript(s) \/ ScriptEnds(s)
           \/ ReapTimer \/ ChildExits \/ DeadlinePasses \/ TimerFires
    PROVE  KeptInv'
<1> USE DEF Files, dirs, user, daemon
<1>1. CASE ExecCommonScripts
  BY <1>1, KeptFrame DEF ExecCommonScripts, Fork, Join, Replacing, Upgraded, Erasing
<1>2. CASE ExecModuleScripts
  BY <1>2, KeptFrame DEF ExecModuleScripts, Fork, Join, Replacing, Upgraded, Erasing
<1>3. CASE \E s \in Scripts : StartScript(s) \/ ReapScript(s) \/ ScriptEnds(s)
  BY <1>3, KeptFrame DEF StartScript, ReapScript, ScriptEnds
<1>4. CASE ReapTimer \/ ChildExits \/ DeadlinePasses \/ TimerFires
  BY <1>4, KeptFrame DEF ReapTimer, ChildExits, DeadlinePasses, TimerFires
<1>5. QED
  BY <1>1, <1>2, <1>3, <1>4

(* A script that marks a module (ScriptMarks) keeps every installed version. *)
LEMMA MarksKept ==
    ASSUME KeptInv, NEW m \in Scripted, NEW mark \in {"disable", "remove"}, ScriptMarks(m, mark)
    PROVE  KeptInv'
<1>1. m \in Modules
  BY ModuleLifecycleAssumption
<1>2. QED
  BY <1>1 DEF ScriptMarks, daemon, KeptInv, Replacing, Erasing, Upgraded, Dirs, Marks

-----------------------------------------------------------------------------
(* handle_modules: the old directory is given up only once the new one is    *)
(* complete beside it, and only a removal gives up the newest.               *)
LEMMA HandleKept ==
    ASSUME KeptInv, HandleModules
    PROVE  KeptInv'
<1> USE DEF Boot, user
<1>1. ASSUME NEW m \in Modules, UpgradeModule(m) PROVE KeptInv'
  BY <1>1 DEF UpgradeModule, KeptInv, Replacing, Erasing, Upgraded
<1>2. ASSUME NEW m \in Modules, CollectModule(m) PROVE KeptInv'
  <2>1. UNCHANGED <<staged, want>> /\ \A n \in Modules : staged[n] = "none"
    BY <1>2 DEF CollectModule, KeptInv, Upgraded
  <2>2. CASE "remove" \in root[m].marks
    <3>1. UNCHANGED root /\ cur' = m /\ pc' \in {"erase1", "erase2"} /\ want[m] # "new"
      BY <1>2, <2>1, <2>2 DEF CollectModule, KeptInv
    <3>2. QED
      BY <2>1, <3>1 DEF KeptInv, Replacing
  <2>3. CASE "remove" \notin root[m].marks
    <3>1. pc' \in {"collect1", "collect2"}
      BY <1>2, <2>3 DEF CollectModule
    <3>2. PICK marks \in SUBSET root[m].marks : root' = [root EXCEPT ![m].marks = marks]
      BY <1>2, <2>3 DEF CollectModule
    <3>3. QED
      BY <2>1, <3>1, <3>2 DEF KeptInv, Replacing, Erasing, Dirs
  <2>4. QED
    BY <2>2, <2>3
<1>3. ASSUME NEW from, NEW to, Erase(from, to),
             \/ from = "clear" /\ to = "unlink"
             \/ from = "erase1" /\ to = "erased1"
             \/ from = "erase2" /\ to = "erased2"
      PROVE  KeptInv'
  <2>1. pc = from /\ pc' = to /\ UNCHANGED <<staged, want, cur>>
    BY <1>3 DEF Erase
  <2>2. PICK gone \in SUBSET Marks :
          root' = [root EXCEPT ![cur].whole = FALSE, ![cur].marks = @ \ gone]
    BY <1>3 DEF Erase
  <2>3. cur \in Modules /\ (want[cur] = "new" => staged[cur] = "full")
    BY <1>3, <2>1 DEF KeptInv, Replacing, Erasing
  <2>4. /\ root' \in [Modules -> Dirs] /\ \A n \in Modules \ {cur} : root'[n] = root[n]
        /\ \A n \in Modules : root'[n].marks \subseteq root[n].marks
    <3> DEFINE d == [root[cur] EXCEPT !.whole = FALSE, !.marks = @ \ gone]
    <3>1. d \in Dirs /\ d.marks \subseteq root[cur].marks
      BY <2>3, ZenonT(60) DEF KeptInv, Dirs
    <3>2. root' = [root EXCEPT ![cur] = d]
      BY <2>2, <2>3 DEF KeptInv, Dirs
    <3> HIDE DEF d
    <3>3. QED
      BY <2>3, <3>1, <3>2 DEF KeptInv
  <2>5. QED
    BY <1>3, <2>1, <2>3, <2>4 DEF KeptInv, Replacing, Erasing, Upgraded
<1>4. CASE Unlink
  BY <1>4 DEF Unlink, NoDir, KeptInv, Replacing, Erasing, Upgraded, Dirs, Marks
<1>5. CASE Rename
  BY <1>5 DEF Rename, Fresh, KeptInv, Replacing, Erasing, Upgraded, Dirs, Marks
<1>6. CASE KeepDisabled
  BY <1>6 DEF KeepDisabled, KeptInv, Replacing, Erasing, Upgraded, Dirs, Marks
<1>7. CASE UpgradeDone
  BY <1>7 DEF UpgradeDone, KeptInv, Replacing, Erasing, Upgraded
<1>8. CASE CollectDone
  BY <1>8 DEF CollectDone, KeptInv, Replacing, Erasing, Upgraded
<1>9. ASSUME NEW from, NEW to, UnlinkRemoved(from, to),
             \/ from = "erased1" /\ to = "collect1"
             \/ from = "erased2" /\ to = "collect2"
      PROVE  KeptInv'
  BY <1>9 DEF UnlinkRemoved, NoDir, KeptInv, Replacing, Erasing, Upgraded, Dirs, Marks
<1>10. ASSUME NEW n \in {<<"erase1", "erased1", "collect1">>, <<"erase2", "erased2", "collect2">>},
              Erase(n[1], n[2]) \/ UnlinkRemoved(n[2], n[3])
       PROVE  KeptInv'
  <2>1. CASE n = <<"erase1", "erased1", "collect1">>
    BY <1>3, <1>9, <1>10, <2>1
  <2>2. CASE n = <<"erase2", "erased2", "collect2">>
    BY <1>3, <1>9, <1>10, <2>2
  <2>3. QED
    BY <1>10, <2>1, <2>2
<1>11. CASE Erase("clear", "unlink")
  BY <1>3, <1>11
<1>12. QED
  BY <1>1, <1>2, <1>4, <1>5, <1>6, <1>7, <1>8, <1>10, <1>11 DEF HandleModules

(* At first every module that is installed is complete.                      *)
LEMMA KeptInit == Init => KeptInv
<1> SUFFICES ASSUME Init PROVE KeptInv
  OBVIOUS
<1>1. ASSUME NEW m \in Modules
      PROVE  root[m] \in Dirs /\ root[m].marks \subseteq {"disable"} /\ root[m].ver # "new"
  <2>1. CASE root[m] = NoDir
    BY <2>1 DEF NoDir, Dirs, Marks
  <2>2. CASE root[m] = Fresh("old")
    BY <2>2 DEF Fresh, Dirs, Marks
  <2>3. CASE root[m] = [Fresh("old") EXCEPT !.marks = {"disable"}]
    BY <2>3 DEF Fresh, Dirs, Marks
  <2>4. root[m] \in {NoDir, Fresh("old"), [Fresh("old") EXCEPT !.marks = {"disable"}]}
    BY DEF Init
  <2>5. QED
    BY <2>1, <2>2, <2>3, <2>4
<1>2. root \in [Modules -> Dirs]
  BY <1>1 DEF Init
<1>3. QED
  BY <1>1, <1>2 DEF Init, KeptInv, Replacing, Erasing, Upgraded

(* Every step of users, boots and scripts keeps what was installed.          *)
LEMMA KeptStep == KeptInv /\ [Next]_vars => KeptInv'
<1> SUFFICES ASSUME KeptInv, [Next]_vars PROVE KeptInv'
  OBVIOUS
<1>1. CASE UNCHANGED vars
  BY <1>1, KeptFrame DEF vars, dirs, daemon, user
<1>2. CASE Scheduled
  BY <1>2, ScriptsKept, HandleKept DEF Scheduled
<1>3. QED
  BY <1>1, <1>2, UserKept, RebootKept, ScriptsKept, MarksKept DEF Next

(* Once install_module has ended, the version it installed is complete in    *)
(* modules_update or in modules until it is removed: upgrade_modules         *)
(* (module.rs) replaces a directory only by a complete one, wherever power   *)
(* fails.                                                                    *)
THEOREM InstallAlwaysKept == Spec => []InstallIsKept
<1>1. KeptInv => InstallIsKept
  BY DEF KeptInv, InstallIsKept
<1>2. QED
  BY <1>1, KeptInit, KeptStep, PTL DEF Spec

-----------------------------------------------------------------------------
(* Scripts and their timer *)

Active == {s \in Scripts : scr[s] \in {"running", "zombie"}}

(* Before the deadline nothing runs but the script the child waits for.      *)
TurnInv ==
    /\ scr \in [Scripts -> {"idle", "running", "zombie", "done"}]
    /\ child \in {"none", "next", "wait", "exited"}
    /\ child # "none" => pc \in {"common", "scripts"}
    /\ ~late => /\ timer \in {"none", "armed"}
                /\ child # "wait" => Active = {}
                /\ \A s, t \in Active : s = t

(* No script runs when the device starts.                                    *)
LEMMA TurnInit == Init => TurnInv
  BY DEF Init, TurnInv, Active

(* A step of the rest: the user, safe mode and handle_modules.               *)
LEMMA TurnFrame ==
    ASSUME TurnInv, UNCHANGED <<scr, child, timer, late>>, pc \notin {"common", "scripts"} \/ pc' = pc
    PROVE  TurnInv'
  BY DEF TurnInv, Active

(* Every step keeps the turns of scripting.cpp.                              *)
LEMMA TurnStep == TurnInv /\ [Next]_vars => TurnInv'
<1> SUFFICES ASSUME TurnInv, [Next]_vars PROVE TurnInv'
  OBVIOUS
<1> USE DEF pfs, daemon, Files
<1>1. ASSUME NEW m \in Modules,
             \/ InstallBegin(m) \/ InstallEnd(m) \/ InstallAborts(m)
             \/ \E on \in BOOLEAN : SetEnable(m, on) \/ SetRemove(m, on)
      PROVE  TurnInv'
  BY <1>1, TurnFrame DEF InstallBegin, InstallEnd, InstallAborts, SetEnable, SetRemove
<1>2. CASE Reboot
  BY <1>2 DEF Reboot, TurnInv, Active
<1>3. CASE SafeMode
  BY <1>3 DEF SafeMode, TurnInv, Active
<1>4. ASSUME NEW s \in Scripts, ScriptEnds(s) PROVE TurnInv'
  BY <1>4 DEF ScriptEnds, TurnInv, Active
<1>5. ASSUME NEW m \in Scripted, NEW mark \in {"disable", "remove"}, ScriptMarks(m, mark) PROVE TurnInv'
  BY <1>5, TurnFrame DEF ScriptMarks
<1>6. CASE ExecCommonScripts
  BY <1>6 DEF ExecCommonScripts, Fork, Join, TurnInv, Active
<1>7. CASE ExecModuleScripts
  BY <1>7 DEF ExecModuleScripts, Fork, Join, TurnInv, Active
<1>8. CASE HandleModules
  <2>1. UNCHANGED <<scr, child, timer, late>>
    BY <1>8 DEF HandleModules, UpgradeModule, CollectModule, Erase, Unlink, Rename, KeepDisabled, UpgradeDone,
       CollectDone, UnlinkRemoved, Boot
  <2>2. pc \notin {"common", "scripts"}
    BY <1>8 DEF HandleModules, UpgradeModule, CollectModule, Erase, Unlink, Rename, KeepDisabled, UpgradeDone,
       CollectDone, UnlinkRemoved
  <2>3. QED
    BY <2>1, <2>2, TurnFrame
<1>9. ASSUME NEW s \in Scripts, StartScript(s) PROVE TurnInv'
  BY <1>9 DEF StartScript, TurnInv, Active
<1>10. ASSUME NEW s \in Scripts, ReapScript(s) PROVE TurnInv'
  BY <1>10 DEF ReapScript, TurnInv, Active
<1>11. CASE ReapTimer \/ ChildExits \/ DeadlinePasses \/ TimerFires
  BY <1>11 DEF ReapTimer, ChildExits, DeadlinePasses, TimerFires, TurnInv, Active
<1>12. CASE UNCHANGED vars
  BY <1>12, TurnFrame DEF vars
<1>13. QED
  BY <1>1, <1>2, <1>3, <1>4, <1>5, <1>6, <1>7, <1>8, <1>9, <1>10, <1>11, <1>12 DEF Next, Scheduled

(* PFS_WAIT (scripting.cpp): for any scripts and modules, before the         *)
(* deadline scripts run one at a time, and only while magiskd does nothing   *)
(* but wait for them.                                                        *)
THEOREM ScriptsAlwaysInTurn == Spec => []ScriptsRunInTurn
<1>1. TurnInv => ScriptsRunInTurn
  <2> SUFFICES ASSUME TurnInv, ~late PROVE ScriptsRunInTurn
    BY DEF ScriptsRunInTurn
  <2>1. Active = {} \/ \E s \in Scripts : Active = {s}
    BY DEF TurnInv, Active
  <2>2. Cardinality(Active) <= 1
    <3>1. Cardinality({}) = 0 /\ \A s : Cardinality({s}) = 1
      BY FS_EmptySet, FS_Singleton
    <3>2. Cardinality(Active) \in {0, 1}
      BY <2>1, <3>1
    <3>3. QED
      BY <3>2
  <2>3. \A s \in Active : pc \in {"common", "scripts"}
    BY DEF TurnInv
  <2>4. QED
    BY <2>2, <2>3 DEF ScriptsRunInTurn, Active
<1>2. QED
  BY <1>1, TurnInit, TurnStep, PTL DEF Spec

-----------------------------------------------------------------------------
(* What a module is meant to be *)

(* From boot to the modules' own scripts; and a directory half replaced or   *)
(* half removed.                                                             *)
Early == {"common", "upgrade", "clear", "unlink", "rename", "mark", "collect1", "erase1", "erased1"}
Second == {"collect2", "erase2", "erased2"}
InTransit(m) == cur = m /\ pc \in Erasing \cup {"unlink", "rename", "mark"}

(* The ghosts want and off say of m what its directories and marks say.      *)
MeantOf(m) ==
    /\ staged[m] = "full" => want[m] = "new" /\ (InTransit(m) \/ "update" \in root[m].marks)
    /\ staged[m] = "partial" => want[m] = "any"
    /\ staged[m] = "none" /\ ~(cur = m /\ pc \in Erasing) =>
          want[m] \in {Meant(root[m]), "any"} \/ (root[m] = NoDir /\ want[m] = "removed")
    /\ cur = m /\ pc \in Erasing => want[m] \in {"removed", "any"}
    /\ ~InTransit(m) => (m \in off <=> "disable" \in root[m].marks)
    /\ cur = m /\ pc \in Replacing \cup {"mark"} => (m \in off <=> keep = TRUE)

(* Which scripts can run, and which entries are left, in each phase.         *)
PhaseInv ==
    /\ off \subseteq Modules /\ list \subseteq Modules /\ keep \in BOOLEAN
    /\ \A m \in Modules : root[m].ver = "none" => root[m] = NoDir
    /\ pc \in {"clear", "erase1", "erase2"} => root[cur].ver # "none"
    /\ pc = "mark" => keep = TRUE /\ root[cur].ver = "new" /\ staged[cur] = "none"
    /\ pc \in Early => \A m \in Scripted : scr[m] = "idle"
    /\ pc = "common" => left \subseteq Common
    /\ pc \in Erasing \cup {"collect1", "collect2"} =>
         todo \subseteq {m \in Modules : root[m] # NoDir} /\ (pc \in Erasing => cur \notin todo)
    /\ pc \in Second => list \cap todo = {} /\ (pc \in Erasing => cur \notin list)
    /\ pc \in Second /\ ~late =>
         \A m \in list : root[m] # NoDir /\ root[m].marks \cap {"disable", "remove"} = {}

(* It holds of every module that no power cut has torn.                      *)
MeantInv == PhaseInv /\ \A m \in Modules \ torn : MeantOf(m)

(* At first every module is as it is asked for, and no boot is under way.    *)
LEMMA MeantInit == Init => MeantInv
<1> SUFFICES ASSUME Init PROVE MeantInv
  OBVIOUS
<1>1. ASSUME NEW m \in Modules
      PROVE  /\ root[m].ver = "none" => root[m] = NoDir
             /\ Meant(root[m]) = root[m].ver
  <2>1. CASE root[m] = NoDir
    BY <2>1 DEF NoDir, Meant
  <2>2. CASE root[m] = Fresh("old")
    BY <2>2 DEF Fresh, Meant
  <2>3. CASE root[m] = [Fresh("old") EXCEPT !.marks = {"disable"}]
    BY <2>3 DEF Fresh, Meant
  <2>4. root[m] \in {NoDir, Fresh("old"), [Fresh("old") EXCEPT !.marks = {"disable"}]}
    BY DEF Init
  <2>5. QED
    BY <2>1, <2>2, <2>3, <2>4
<1>2. PhaseInv
  BY <1>1 DEF Init, PhaseInv, Early, Second, Erasing
<1>3. \A m \in Modules : MeantOf(m)
  BY <1>1 DEF Init, MeantOf, InTransit, Erasing, Replacing
<1>4. QED
  BY <1>2, <1>3 DEF MeantInv

(* Marks other than remove do not change what a directory is meant to be.    *)
LEMMA MeantSame ==
    ASSUME NEW d \in Dirs, NEW e \in Dirs, d.ver # "none", e.ver = d.ver, e.whole = d.whole,
           "remove" \in e.marks <=> "remove" \in d.marks
    PROVE  Meant(e) = Meant(d)
  BY DEF Meant, NoDir

(* MeantOf while no directory is being replaced or removed.                  *)
Settled(m) ==
    /\ staged[m] = "full" => want[m] = "new" /\ "update" \in root[m].marks
    /\ staged[m] = "partial" => want[m] = "any"
    /\ staged[m] = "none" => want[m] \in {Meant(root[m]), "any"} \/ (root[m] = NoDir /\ want[m] = "removed")
    /\ m \in off <=> "disable" \in root[m].marks

Busy == Erasing \cup Replacing \cup {"mark"}

(* Between two boots what is meant of a module is what its directories and   *)
(* marks say.                                                                *)
LEMMA MeantIsSettled ==
    /\ pc \notin Busy => \A m : MeantOf(m) <=> Settled(m)
    /\ pc' \notin Busy => \A m : MeantOf(m)' <=> Settled(m)'
<1>1. ASSUME NEW m, pc \notin Busy PROVE MeantOf(m) <=> Settled(m)
  BY <1>1 DEF MeantOf, Settled, Busy, InTransit, Erasing, Replacing
<1>2. ASSUME NEW m, pc' \notin Busy PROVE MeantOf(m)' <=> Settled(m)'
  BY <1>2 DEF MeantOf, Settled, Busy, InTransit, Erasing, Replacing
<1>3. QED
  BY <1>1, <1>2

(* A step that leaves the directories, their marks and the ghosts alone.     *)
LEMMA MeantFrame ==
    ASSUME MeantInv, UNCHANGED <<root, staged, want, off, keep>>, torn \subseteq torn',
           UNCHANGED <<pc, cur>> \/ {pc, pc'} \cap Busy = {}
    PROVE  \A m \in Modules \ torn' : MeantOf(m)'
<1>1. CASE UNCHANGED <<pc, cur>>
  BY <1>1 DEF MeantInv, MeantOf, InTransit
<1>2. CASE {pc, pc'} \cap Busy = {}
  <2>1. \A m \in Modules \ torn : Settled(m)
    BY <1>2, MeantIsSettled DEF MeantInv
  <2>2. \A m \in Modules \ torn' : Settled(m)'
    BY <2>1 DEF Settled
  <2>3. QED
    BY <1>2, <2>2, MeantIsSettled
<1>3. QED
  BY <1>1, <1>2

-----------------------------------------------------------------------------
(* The installer and the manager's switches change a module's marks together *)
(* with what is meant.                                                       *)
LEMMA UserMeant ==
    ASSUME KeptInv, MeantInv, NEW m \in Modules,
           \/ InstallBegin(m) \/ InstallEnd(m) \/ InstallAborts(m)
           \/ \E on \in BOOLEAN : SetEnable(m, on) \/ SetRemove(m, on)
    PROVE  MeantInv' /\ \A n \in Modules \ torn' : Settled(n)'
<1> DEFINE Goal == /\ \A n \in Modules \ torn' : Settled(n)'
                   /\ \A n \in Modules : root'[n].ver = "none" => root'[n] = NoDir
                   /\ off' \subseteq Modules
<1>1. pc = "up" /\ pc' = "up" /\ UNCHANGED <<keep, list>>
  BY DEF InstallBegin, InstallEnd, InstallAborts, SetEnable, SetRemove, Idle, daemon
<1>2. "up" \notin Busy
  BY DEF Busy, Erasing, Replacing
<1>3. /\ \A n \in Modules \ torn : Settled(n)
      /\ \A n \in Modules : root[n].ver = "none" => root[n] = NoDir
      /\ off \subseteq Modules /\ list \subseteq Modules /\ keep \in BOOLEAN
      /\ root \in [Modules -> Dirs] /\ DOMAIN want = Modules
      /\ staged \in [Modules -> {"none", "partial", "full"}]
  BY <1>1, <1>2, MeantIsSettled DEF MeantInv, PhaseInv, KeptInv
<1>4. SUFFICES Goal
  <2>1. PhaseInv'
    BY <1>1, <1>3 DEF PhaseInv, Erasing, Early, Second
  <2>2. QED
    BY <1>1, <1>2, <2>1, MeantIsSettled DEF MeantInv
<1>5. CASE InstallBegin(m)
  BY <1>3, <1>5 DEF InstallBegin, Settled
<1>6. CASE InstallEnd(m)
  BY <1>3, <1>6 DEF InstallEnd, Dirs, Settled
<1>7. CASE InstallAborts(m)
  BY <1>3, <1>7 DEF InstallAborts, Settled
<1>8. ASSUME NEW mark \in {"disable", "remove"}, NEW on \in BOOLEAN, root[m] # NoDir, Mark(m, mark, on)
      PROVE  /\ root'[m] \in Dirs /\ \A n \in Modules \ {m} : root'[n] = root[n]
             /\ root'[m].ver = root[m].ver /\ root'[m].whole = root[m].whole /\ root[m].ver # "none"
             /\ mark \in root'[m].marks <=> on
             /\ \A k \in Marks \ {mark} : k \in root'[m].marks <=> k \in root[m].marks
  BY <1>3, <1>8 DEF Mark, Dirs, Marks
<1>9. ASSUME NEW on \in BOOLEAN, SetEnable(m, on) PROVE Goal
  <2>1. root[m] # NoDir /\ Mark(m, "disable", ~on) /\ UNCHANGED <<staged, want, torn>>
        /\ off' = IF on THEN off \ {m} ELSE off \cup {m}
    BY <1>9 DEF SetEnable
  <2>2. Meant(root'[m]) = Meant(root[m])
    BY <1>3, <1>8, <2>1, MeantSame DEF Marks
  <2>3. m \in off' <=> "disable" \in root'[m].marks
    <3>1. CASE on = TRUE
      BY <1>8, <2>1, <3>1
    <3>2. CASE on = FALSE
      BY <1>8, <2>1, <3>2
    <3>3. QED
      BY <3>1, <3>2
  <2>4. \A n \in Modules \ {m} : n \in off' <=> n \in off
    BY <2>1
  <2>5. off' \subseteq Modules
    BY <1>3, <2>1
  <2>6. /\ \A n \in Modules \ {m} : root'[n] = root[n]
        /\ root'[m].ver = root[m].ver /\ root[m].ver # "none"
        /\ "update" \in root[m].marks => "update" \in root'[m].marks
    BY <1>8, <2>1 DEF Marks
  <2>7. root[m] # NoDir /\ UNCHANGED <<staged, want, torn>>
    BY <2>1
  <2>8. QED
    BY <1>3, <2>2, <2>3, <2>4, <2>5, <2>6, <2>7, SMTT(30) DEF Settled
<1>10. ASSUME NEW on \in BOOLEAN, SetRemove(m, on) PROVE Goal
  <2>1. /\ root[m] # NoDir /\ Mark(m, "remove", on) /\ UNCHANGED <<staged, off, torn>>
        /\ want' = [want EXCEPT ![m] = CASE staged[m] = "full" -> "new"
                                         [] staged[m] = "partial" -> "any"
                                         [] staged[m] = "none" -> Meant(root'[m])]
    BY <1>10 DEF SetRemove
  <2>2. QED
    BY <1>3, <1>8, <2>1 DEF Settled, Marks
<1>11. QED
  BY <1>5, <1>6, <1>7, <1>9, <1>10

(* What power cuts interrupt is torn; safe mode disables what is there.      *)
LEMMA RebootMeant ==
    ASSUME KeptInv, MeantInv, Reboot \/ SafeMode
    PROVE  MeantInv'
<1>1. CASE Reboot
  <2>1. /\ UNCHANGED <<root, staged, want, off>> /\ torn' = torn \cup AtRisk
        /\ pc' = "common" /\ keep' = FALSE /\ list' = {} /\ left' = {} /\ scr' = [s \in Scripts |-> "idle"]
    BY <1>1 DEF Reboot, dirs, user
  <2>2. "common" \notin Busy
    BY DEF Busy, Erasing, Replacing
  <2>3. ASSUME NEW m \in Modules \ torn' PROVE Settled(m)
    <3>1. m \in Modules \ torn /\ MeantOf(m)
      BY <2>1 DEF MeantInv
    <3>2. pc \in Erasing \cup {"unlink", "rename", "mark"} => cur # m
      BY <2>1, <2>3, ModuleLifecycleAssumption DEF AtRisk, Erasing
    <3>3. QED
      BY <3>1, <3>2 DEF MeantOf, InTransit, Settled
  <2>4. \A m \in Modules \ torn' : Settled(m)'
    BY <2>1, <2>3 DEF Settled
  <2>5. PhaseInv'
    BY <2>1 DEF MeantInv, PhaseInv, Early, Second, Erasing, Scripts
  <2>6. QED
    BY <2>1, <2>2, <2>4, <2>5, MeantIsSettled DEF MeantInv
<1>2. CASE SafeMode
  <2>1. /\ pc = "common" /\ pc' = "up" /\ UNCHANGED <<staged, want, torn, keep, list>>
        /\ root' = [m \in Modules |-> IF root[m] = NoDir THEN NoDir
                                       ELSE [root[m] EXCEPT !.marks = @ \cup {"disable"}]]
        /\ off' = off \cup {m \in Modules : root[m] # NoDir}
    BY <1>2 DEF SafeMode
  <2>2. "common" \notin Busy /\ "up" \notin Busy
    BY DEF Busy, Erasing, Replacing
  <2>3. \A m \in Modules \ torn : Settled(m)
    BY <2>1, <2>2, MeantIsSettled DEF MeantInv
  <2>4. ASSUME NEW m \in Modules, root[m] # NoDir
        PROVE  /\ root[m].ver # "none" /\ root'[m].ver = root[m].ver /\ root'[m].marks = root[m].marks \cup {"disable"}
               /\ Meant(root'[m]) = Meant(root[m])
    <3>1. root[m] \in Dirs /\ root[m].ver # "none"
      BY <2>4 DEF KeptInv, MeantInv, PhaseInv
    <3>2. /\ root'[m] \in Dirs /\ root'[m].ver = root[m].ver /\ root'[m].whole = root[m].whole
          /\ root'[m].marks = root[m].marks \cup {"disable"}
      BY <2>1, <2>4, <3>1 DEF Dirs, Marks
    <3>3. Meant(root'[m]) = Meant(root[m])
      BY <3>1, <3>2, MeantSame
    <3>4. QED
      BY <3>1, <3>2, <3>3
  <2>5. \A m \in Modules : root[m] = NoDir => root'[m] = NoDir
    BY <2>1
  <2>6. ASSUME NEW m \in Modules \ torn' PROVE Settled(m)'
    <3>1. CASE root[m] = NoDir
      BY <2>1, <2>3, <2>5, <3>1 DEF Settled, NoDir
    <3>2. CASE root[m] # NoDir
      BY <2>1, <2>3, <2>4, <3>2 DEF Settled
    <3>3. QED
      BY <3>1, <3>2
  <2>7. PhaseInv'
    BY <2>1, <2>4, <2>5 DEF MeantInv, PhaseInv, Early, Second, Erasing
  <2>8. QED
    BY <2>1, <2>2, <2>6, <2>7, MeantIsSettled DEF MeantInv
<1>3. QED
  BY <1>1, <1>2

(* The scripts and their timer.                                              *)
LEMMA ScriptsMeant ==
    ASSUME KeptInv, TurnInv, MeantInv,
           \/ ExecCommonScripts \/ ExecModuleScripts
           \/ \E s \in Scripts : StartScript(s) \/ ReapScript(s) \/ ScriptEnds(s)
           \/ ReapTimer \/ ChildExits \/ DeadlinePasses \/ TimerFires
    PROVE  MeantInv'
<1> USE DEF Files, dirs, user, daemon, pfs
<1>1. UNCHANGED <<root, staged, want, off, keep, torn, cur>>
  BY DEF ExecCommonScripts, ExecModuleScripts, StartScript, ReapScript, ScriptEnds, ReapTimer, ChildExits,
     DeadlinePasses, TimerFires
<1>2. pc' = pc \/ (pc = "common" /\ pc' = "upgrade") \/ (pc = "scripts" /\ pc' = "collect2")
  BY DEF ExecCommonScripts, ExecModuleScripts, StartScript, ReapScript, ScriptEnds, ReapTimer, ChildExits,
     DeadlinePasses, TimerFires, Fork, Join
<1>3. \A m \in Modules \ torn' : MeantOf(m)'
  <2>1. {"common", "upgrade", "scripts", "collect2"} \cap Busy = {}
    BY DEF Busy, Erasing, Replacing
  <2>2. QED
    BY <1>1, <1>2, <2>1, MeantFrame
<1>4. PhaseInv'
  <2> USE DEF MeantInv, PhaseInv
  <2>1. CASE ExecCommonScripts
    BY <1>1, <2>1, ModuleLifecycleAssumption DEF ExecCommonScripts, Fork, Join, Early, Second, Erasing, Scripts
  <2>2. CASE ExecModuleScripts
    BY <1>1, <2>2 DEF ExecModuleScripts, Fork, Join, Early, Second, Erasing
  <2>3. ASSUME NEW s \in Scripts, StartScript(s) PROVE PhaseInv'
    <3>1. pc \in {"common", "scripts"} /\ s \in left
      BY <2>3 DEF StartScript, TurnInv
    <3>2. /\ UNCHANGED <<pc, todo, list, late>> /\ left' \subseteq left
          /\ \A t \in Scripts \ {s} : scr'[t] = scr[t]
      BY <2>3 DEF StartScript, TurnInv
    <3>3. pc \in Early => pc = "common"
      BY <3>1 DEF Early
    <3>4. pc = "common" => s \notin Scripted
      BY <3>1, ModuleLifecycleAssumption
    <3>5. pc \in Early => \A m \in Scripted : scr'[m] = "idle"
      BY <3>2, <3>3, <3>4 DEF Scripts
    <3>6. pc \notin Second /\ pc \notin Erasing \cup {"collect1", "collect2"}
      BY <3>1 DEF Second, Erasing
    <3>7. QED
      BY <1>1, <3>1, <3>2, <3>5, <3>6
  <2>4. ASSUME NEW s \in Scripts, ReapScript(s) \/ ScriptEnds(s) PROVE PhaseInv'
    <3>1. scr[s] # "idle" /\ \A t \in Scripts \ {s} : scr'[t] = scr[t]
      BY <2>4 DEF ReapScript, ScriptEnds, TurnInv
    <3>2. UNCHANGED <<pc, todo, list, left, late>>
      BY <2>4 DEF ReapScript, ScriptEnds
    <3>3. pc \in Early => \A m \in Scripted : scr'[m] = "idle"
      BY <3>1 DEF Scripts
    <3>4. QED
      BY <1>1, <3>2, <3>3
  <2>5. CASE ReapTimer \/ ChildExits \/ DeadlinePasses \/ TimerFires
    BY <1>1, <2>5, ZenonT(60) DEF ReapTimer, ChildExits, DeadlinePasses, TimerFires
  <2>6. QED
    BY <2>1, <2>2, <2>3, <2>4, <2>5
<1>5. QED
  BY <1>3, <1>4 DEF MeantInv

(* A script marks its own module, which is not one being replaced.           *)
LEMMA MarksMeant ==
    ASSUME KeptInv, TurnInv, MeantInv, NEW m \in Scripted, NEW mark \in {"disable", "remove"}, ScriptMarks(m, mark)
    PROVE  MeantInv'
<1>1. /\ scr[m] = "running" /\ root[m] # NoDir /\ root' = [root EXCEPT ![m].marks = @ \cup {mark}]
      /\ off' = IF mark = "disable" THEN off \cup {m} ELSE off
      /\ want' = IF mark = "remove" /\ staged[m] = "none" THEN [want EXCEPT ![m] = "removed"] ELSE want
      /\ UNCHANGED <<staged, pc, cur, keep, todo, list, left, late, scr, torn>>
  BY DEF ScriptMarks, daemon, pfs
<1>2. m \in Modules /\ m \in Scripts /\ root \in [Modules -> Dirs] /\ DOMAIN want = Modules
  BY ModuleLifecycleAssumption DEF Scripts, KeptInv
<1>3. root[m].ver # "none" /\ pc \notin Early /\ (pc \in Second => late)
  <2>1. m \in Active
    BY <1>1, <1>2 DEF Active
  <2>2. pc \notin Early
    BY <1>1 DEF MeantInv, PhaseInv
  <2>3. ~late => pc \in {"common", "scripts"}
    BY <2>1 DEF TurnInv
  <2>4. QED
    BY <1>1, <1>2, <2>2, <2>3 DEF MeantInv, PhaseInv, Second
<1>4. /\ root'[m] \in Dirs /\ \A n \in Modules \ {m} : root'[n] = root[n]
      /\ root'[m].ver = root[m].ver /\ root'[m].whole = root[m].whole
      /\ root'[m].marks = root[m].marks \cup {mark} /\ root'[m] # NoDir
  BY <1>1, <1>2, <1>3 DEF Dirs, Marks, NoDir
<1>5. PhaseInv'
  BY <1>1, <1>2, <1>3, <1>4 DEF MeantInv, PhaseInv, Second
<1>6. ASSUME NEW n \in Modules \ torn' PROVE MeantOf(n)'
  <2>1. MeantOf(n)
    BY <1>1 DEF MeantInv
  <2>2. CASE n # m
    BY <1>1, <1>2, <1>4, <2>1, <2>2 DEF MeantOf, InTransit
  <2>3. CASE n = m /\ mark = "disable"
    <3>1. Meant(root'[m]) = Meant(root[m])
      BY <1>2, <1>3, <1>4, <2>3, MeantSame
    <3>2. pc \notin Replacing \cup {"mark"}
      BY <1>3 DEF Replacing, Early
    <3>3. QED
      BY <1>1, <1>4, <2>1, <2>3, <3>1, <3>2 DEF MeantOf, InTransit
  <2>4. CASE n = m /\ mark = "remove"
    <3>1. Meant(root'[m]) = "removed"
      BY <1>4, <2>4 DEF Meant
    <3>2. pc \notin Replacing \cup {"mark"}
      BY <1>3 DEF Replacing, Early
    <3>3. staged[m] = "none" => want'[m] = "removed"
      BY <1>1, <1>2, <2>4
    <3>4. staged[m] # "none" => want' = want
      BY <1>1
    <3>5. QED
      BY <1>1, <1>4, <2>1, <2>4, <3>1, <3>2, <3>3, <3>4 DEF MeantOf, InTransit
  <2>5. QED
    BY <2>2, <2>3, <2>4
<1>7. QED
  BY <1>5, <1>6 DEF MeantInv

(* Removing a directory file by file touches that module only, not its       *)
(* version.                                                                  *)
LEMMA ErasedPart ==
    ASSUME KeptInv, cur \in Modules, NEW from, NEW to, Erase(from, to)
    PROVE  root'[cur].ver = root[cur].ver /\ \A n \in Modules \ {cur} : root'[n] = root[n]
<1>1. PICK gone \in SUBSET Marks : root' = [root EXCEPT ![cur].whole = FALSE, ![cur].marks = @ \ gone]
  BY DEF Erase
<1>2. root \in [Modules -> Dirs] /\ root[cur] \in Dirs
  BY DEF KeptInv
<1>3. root'[cur] = [root[cur] EXCEPT !.whole = FALSE, !.marks = @ \ gone]
  BY <1>1, <1>2 DEF Dirs
<1>4. QED
  BY <1>1, <1>2, <1>3 DEF Dirs

(* handle_modules, upgrades: the mark that the new directory must get is in  *)
(* keep while the old one is erased.                                         *)
LEMMA UpgradeMeant ==
    ASSUME KeptInv, MeantInv,
           \/ \E m \in Modules : UpgradeModule(m)
           \/ Erase("clear", "unlink") \/ Unlink \/ Rename \/ KeepDisabled \/ UpgradeDone
    PROVE  MeantInv'
<1> USE DEF Boot, user, pfs
<1>1. ASSUME NEW m \in Modules, UpgradeModule(m) PROVE MeantInv'
  <2>1. /\ pc = "upgrade" /\ staged[m] # "none" /\ cur' = m /\ keep' = ("disable" \in root[m].marks)
        /\ UNCHANGED <<root, staged, todo, list, left, late, scr, want, off, torn>>
        /\ pc' = (IF root[m] = NoDir THEN "rename" ELSE "clear")
    BY <1>1 DEF UpgradeModule
  <2>2. PhaseInv'
    <3>1. pc' \in {"rename", "clear"} /\ (pc' = "clear" => root[m] # NoDir) /\ keep' \in BOOLEAN
      BY <2>1
    <3>2. pc' = "clear" => root[m].ver # "none"
      BY <3>1 DEF MeantInv, PhaseInv
    <3>3. \A n \in Scripted : scr[n] = "idle"
      BY <2>1 DEF MeantInv, PhaseInv, Early
    <3>4. pc' \notin Second /\ pc' \notin Erasing \cup {"collect1", "collect2"} /\ pc' \notin {"mark", "common"}
      BY <3>1 DEF Second, Erasing
    <3>5. QED
      BY <2>1, <3>1, <3>2, <3>3, <3>4 DEF MeantInv, PhaseInv, Erasing
  <2>3. \A n \in Modules \ torn : Settled(n)
    BY <2>1, MeantIsSettled DEF MeantInv, Busy, Erasing, Replacing
  <2>4. keep' = TRUE <=> "disable" \in root[m].marks
    BY <2>1
  <2>5. \A n \in Modules \ torn' : MeantOf(n)'
    BY <2>1, <2>3, <2>4 DEF Settled, MeantOf, InTransit, Erasing, Replacing
  <2>6. QED
    BY <2>2, <2>5 DEF MeantInv
<1>2. CASE Erase("clear", "unlink")
  <2>1. /\ pc = "clear" /\ pc' = "unlink" /\ cur \in Modules /\ staged[cur] # "none"
        /\ UNCHANGED <<staged, cur, keep, todo, list, left, late, scr, want, off, torn>>
    BY <1>2 DEF Erase, KeptInv, Replacing
  <2>2. root'[cur].ver = root[cur].ver /\ \A n \in Modules \ {cur} : root'[n] = root[n]
    BY <1>2, <2>1, ErasedPart
  <2>3. root[cur].ver # "none"
    BY <2>1 DEF MeantInv, PhaseInv
  <2>4. PhaseInv'
    BY <2>1, <2>2, <2>3 DEF MeantInv, PhaseInv, Early, Second, Erasing
  <2>5. \A n \in Modules \ torn' : MeantOf(n)'
    BY <2>1, <2>2 DEF MeantInv, MeantOf, InTransit, Erasing, Replacing
  <2>6. QED
    BY <2>4, <2>5 DEF MeantInv
<1>3. CASE Unlink
  <2>1. /\ pc = "unlink" /\ pc' = "rename" /\ cur \in Modules /\ staged[cur] # "none"
        /\ UNCHANGED <<staged, cur, keep, todo, list, left, late, scr, want, off, torn>>
    BY <1>3 DEF Unlink, KeptInv, Replacing
  <2>2. root'[cur] = NoDir /\ \A n \in Modules \ {cur} : root'[n] = root[n]
    BY <1>3, <2>1 DEF Unlink, KeptInv
  <2>3. PhaseInv'
    BY <2>1, <2>2 DEF MeantInv, PhaseInv, Early, Second, Erasing
  <2>4. \A n \in Modules \ torn' : MeantOf(n)'
    BY <2>1, <2>2 DEF MeantInv, MeantOf, InTransit, Erasing, Replacing
  <2>5. QED
    BY <2>3, <2>4 DEF MeantInv
<1>4. CASE Rename
  <2>1. /\ pc = "rename" /\ cur \in Modules /\ staged[cur] # "none" /\ UNCHANGED <<keep, todo, list, left, late, scr, want, off, torn>>
        /\ pc' = (IF keep THEN "mark" ELSE "upgrade") /\ cur' = (IF keep THEN cur ELSE NoModule)
    BY <1>4 DEF Rename, KeptInv, Replacing
  <2>2. /\ staged'[cur] = "none"
        /\ \A n \in Modules \ {cur} : root'[n] = root[n] /\ staged'[n] = staged[n]
    BY <1>4, <2>1 DEF Rename, KeptInv
  <2>3. root'[cur].ver = "new" /\ root'[cur].marks = {} /\ (root'[cur].whole <=> staged[cur] = "full")
    BY <1>4, <2>1 DEF Rename, KeptInv, Fresh
  <2>4. Meant(root'[cur]) = (IF staged[cur] = "full" THEN "new" ELSE "any")
    BY <2>3 DEF Meant, NoDir
  <2>5. PhaseInv'
    BY <2>1, <2>2, <2>3 DEF MeantInv, PhaseInv, Early, Second, Erasing
  <2>6. staged[cur] \in {"partial", "full"}
    BY <2>1 DEF KeptInv
  <2>7. ASSUME NEW n \in Modules \ torn' PROVE MeantOf(n)'
    <3>1. MeantOf(n)
      BY <2>1 DEF MeantInv
    <3>2. CASE n # cur
      BY <2>1, <2>2, <3>1, <3>2 DEF MeantOf, InTransit, Erasing, Replacing
    <3>3. CASE n = cur /\ keep = TRUE
      BY <2>1, <2>2, <2>3, <2>4, <2>6, <3>1, <3>3 DEF MeantOf, InTransit, Erasing, Replacing
    <3>4. CASE n = cur /\ keep = FALSE
      BY <2>1, <2>2, <2>3, <2>4, <2>6, <3>1, <3>4 DEF MeantOf, InTransit, Erasing, Replacing
    <3>5. QED
      BY <3>2, <3>3, <3>4 DEF MeantInv, PhaseInv
  <2>8. QED
    BY <2>5, <2>7 DEF MeantInv
<1>5. CASE KeepDisabled
  <2>1. /\ pc = "mark" /\ pc' = "upgrade" /\ cur \in Modules /\ cur' = NoModule
        /\ UNCHANGED <<staged, keep, todo, list, left, late, scr, want, off, torn>>
    BY <1>5 DEF KeepDisabled, KeptInv, Replacing
  <2>2. /\ root'[cur] \in Dirs /\ root'[cur].ver = root[cur].ver /\ root'[cur].whole = root[cur].whole
        /\ root'[cur].marks = root[cur].marks \cup {"disable"} /\ root[cur].ver = "new" /\ root[cur] \in Dirs
        /\ \A n \in Modules \ {cur} : root'[n] = root[n]
    BY <1>5, <2>1 DEF KeepDisabled, KeptInv, Dirs, Marks, MeantInv, PhaseInv
  <2>3. Meant(root'[cur]) = Meant(root[cur]) /\ root[cur] # NoDir
    <3>1. root[cur].ver # "none" /\ ("remove" \in root'[cur].marks <=> "remove" \in root[cur].marks)
      BY <2>2
    <3>2. Meant(root'[cur]) = Meant(root[cur])
      BY <2>2, <3>1, MeantSame
    <3>3. QED
      BY <3>1, <3>2 DEF NoDir
  <2>4. PhaseInv'
    BY <2>1, <2>2 DEF MeantInv, PhaseInv, Early, Second, Erasing
  <2>5. ASSUME NEW n \in Modules \ torn' PROVE MeantOf(n)'
    <3>1. MeantOf(n)
      BY <2>1 DEF MeantInv
    <3>2. CASE n # cur
      BY <2>1, <2>2, <3>1, <3>2 DEF MeantOf, InTransit, Erasing, Replacing
    <3>3. CASE n = cur
      <4>1. n \in off /\ staged[n] = "none"
        BY <2>1, <3>1, <3>3 DEF MeantOf, MeantInv, PhaseInv, KeptInv
      <4>2. QED
        BY <2>1, <2>2, <2>3, <3>1, <3>3, <4>1 DEF MeantOf, InTransit, Erasing, Replacing
    <3>4. QED
      BY <3>2, <3>3
  <2>6. QED
    BY <2>4, <2>5 DEF MeantInv
<1>6. CASE UpgradeDone
  <2>1. /\ pc = "upgrade" /\ pc' = "collect1" /\ todo' = {m \in Modules : root[m] # NoDir}
        /\ UNCHANGED <<root, staged, cur, keep, list, left, late, scr, want, off, torn>>
    BY <1>6 DEF UpgradeDone
  <2>2. PhaseInv'
    BY <2>1 DEF MeantInv, PhaseInv, Early, Second, Erasing
  <2>3. \A n \in Modules \ torn' : MeantOf(n)'
    BY <2>1, MeantFrame DEF Busy, Erasing, Replacing
  <2>4. QED
    BY <2>2, <2>3 DEF MeantInv
<1>7. QED
  BY <1>1, <1>2, <1>3, <1>4, <1>5, <1>6

(* handle_modules, collections: a removal is meant, and what gets into the   *)
(* list is neither removed nor disabled.                                     *)
LEMMA CollectMeant ==
    ASSUME KeptInv, MeantInv,
           \/ \E m \in Modules : CollectModule(m)
           \/ Erase("erase1", "erased1") \/ Erase("erase2", "erased2")
           \/ UnlinkRemoved("erased1", "collect1") \/ UnlinkRemoved("erased2", "collect2")
           \/ CollectDone
    PROVE  MeantInv'
<1> USE DEF Boot, user, pfs
<1>1. ASSUME NEW m \in Modules, CollectModule(m), "remove" \in root[m].marks PROVE MeantInv'
  <2>1. /\ pc \in {"collect1", "collect2"} /\ m \in todo /\ todo' = todo \ {m} /\ cur' = m
        /\ pc' = (IF pc = "collect1" THEN "erase1" ELSE "erase2")
        /\ UNCHANGED <<root, staged, keep, list, left, late, scr, want, off, torn>>
    BY <1>1 DEF CollectModule
  <2>2. staged[m] = "none" /\ Meant(root[m]) = "removed"
    BY <1>1, <2>1 DEF KeptInv, Upgraded, Meant
  <2>3. \A n \in Modules \ torn : Settled(n)
    BY <2>1, MeantIsSettled DEF MeantInv, Busy, Erasing, Replacing
  <2>4. root[m] # NoDir /\ root[m].ver # "none"
    BY <2>1 DEF MeantInv, PhaseInv
  <2>5. PhaseInv'
    BY <2>1, <2>4 DEF MeantInv, PhaseInv, Early, Second, Erasing
  <2>6. \A n \in Modules \ torn' : MeantOf(n)'
    BY <2>1, <2>2, <2>3, <2>4 DEF MeantOf, Settled, InTransit, Erasing, Replacing
  <2>7. QED
    BY <2>5, <2>6 DEF MeantInv
<1>2. ASSUME NEW m \in Modules, CollectModule(m), "remove" \notin root[m].marks PROVE MeantInv'
  <2>1. /\ pc \in {"collect1", "collect2"} /\ m \in todo /\ todo' = todo \ {m}
        /\ root' = [root EXCEPT ![m].marks = @ \ {"update"}]
        /\ list' = (IF "disable" \in root[m].marks THEN list ELSE list \cup {m})
        /\ UNCHANGED <<staged, pc, cur, keep, left, late, scr, want, off, torn>>
    BY <1>2 DEF CollectModule
  <2>2. \A n \in Modules : staged[n] = "none"
    BY <2>1 DEF KeptInv, Upgraded
  <2>3. root[m] # NoDir /\ root[m].ver # "none" /\ root[m] \in Dirs
    BY <2>1 DEF MeantInv, PhaseInv, KeptInv
  <2>4. /\ root'[m] \in Dirs /\ root'[m].ver = root[m].ver /\ root'[m].whole = root[m].whole
        /\ root'[m].marks = root[m].marks \ {"update"} /\ root'[m] # NoDir
        /\ \A n \in Modules \ {m} : root'[n] = root[n]
    BY <2>1, <2>3 DEF KeptInv, Dirs, Marks, NoDir
  <2>5. Meant(root'[m]) = Meant(root[m])
    BY <2>3, <2>4, MeantSame
  <2>6. \A n \in Modules \ torn : Settled(n)
    BY <2>1, MeantIsSettled DEF MeantInv, Busy, Erasing, Replacing
  <2>7. \A n \in Modules \ torn' : Settled(n)'
    BY <2>1, <2>2, <2>3, <2>4, <2>5, <2>6, ZenonT(60) DEF Settled
  <2>8. PhaseInv'
    BY <1>2, <2>1, <2>3, <2>4 DEF MeantInv, PhaseInv, Early, Second, Erasing
  <2>9. QED
    BY <2>1, <2>7, <2>8, MeantIsSettled DEF MeantInv, Busy, Erasing, Replacing
<1>3. ASSUME NEW from, NEW to, Erase(from, to), <<from, to>> \in {<<"erase1", "erased1">>, <<"erase2", "erased2">>}
      PROVE  MeantInv'
  <2>1. /\ pc = from /\ pc' = to /\ UNCHANGED <<staged, cur, keep, todo, list, left, late, scr, want, off, torn>>
        /\ from \in {"erase1", "erase2"} /\ to = (IF from = "erase1" THEN "erased1" ELSE "erased2")
    BY <1>3 DEF Erase
  <2>2. cur \in Modules /\ staged[cur] = "none" /\ root[cur].ver # "none"
    BY <2>1 DEF KeptInv, Erasing, Upgraded, MeantInv, PhaseInv
  <2>3. root'[cur].ver = root[cur].ver /\ \A n \in Modules \ {cur} : root'[n] = root[n]
    BY <1>3, <2>2, ErasedPart
  <2>4. PhaseInv'
    BY <2>1, <2>2, <2>3 DEF MeantInv, PhaseInv, Early, Second, Erasing
  <2>5. \A n \in Modules \ torn' : MeantOf(n)'
    BY <2>1, <2>2, <2>3 DEF MeantInv, MeantOf, InTransit, Erasing, Replacing
  <2>6. QED
    BY <2>4, <2>5 DEF MeantInv
<1>4. ASSUME NEW from, NEW to, UnlinkRemoved(from, to),
             <<from, to>> \in {<<"erased1", "collect1">>, <<"erased2", "collect2">>}
      PROVE  MeantInv'
  <2>1. /\ pc = from /\ pc' = to /\ UNCHANGED <<staged, keep, todo, list, left, late, scr, want, torn>>
        /\ cur' = NoModule /\ off' = off \ {cur}
        /\ from \in {"erased1", "erased2"} /\ to = (IF from = "erased1" THEN "collect1" ELSE "collect2")
    BY <1>4 DEF UnlinkRemoved
  <2>2. cur \in Modules /\ root'[cur] = NoDir /\ \A n \in Modules \ {cur} : root'[n] = root[n]
    BY <1>4, <2>1 DEF UnlinkRemoved, KeptInv, Erasing
  <2>3. staged[cur] = "none"
    BY <2>1, <2>2 DEF KeptInv, Erasing, Upgraded
  <2>4. PhaseInv'
    BY <2>1, <2>2 DEF MeantInv, PhaseInv, Early, Second, Erasing
  <2>5. \A n \in Modules \ torn' : MeantOf(n)'
    <3>1. NoDir.marks = {} /\ Meant(NoDir) = "none"
      BY DEF NoDir, Meant
    <3>2. QED
      BY <2>1, <2>2, <2>3, <3>1 DEF MeantInv, MeantOf, InTransit, Erasing, Replacing
  <2>6. QED
    BY <2>4, <2>5 DEF MeantInv
<1>5. CASE CollectDone
  <2>1. /\ pc \in {"collect1", "collect2"} /\ pc' = (IF pc = "collect1" THEN "scripts" ELSE "up")
        /\ UNCHANGED <<root, staged, cur, keep, todo, list, left, late, scr, want, off, torn>>
    BY <1>5 DEF CollectDone
  <2>2. PhaseInv'
    BY <2>1 DEF MeantInv, PhaseInv, Early, Second, Erasing
  <2>3. \A n \in Modules \ torn' : MeantOf(n)'
    BY <2>1, MeantFrame DEF Busy, Erasing, Replacing
  <2>4. QED
    BY <2>2, <2>3 DEF MeantInv
<1>6. QED
  BY <1>1, <1>2, <1>3, <1>4, <1>5

(* Every step keeps what the next list of modules is to be.                  *)
LEMMA MeantStep == KeptInv /\ TurnInv /\ MeantInv /\ [Next]_vars => MeantInv'
<1> SUFFICES ASSUME KeptInv, TurnInv, MeantInv, [Next]_vars PROVE MeantInv'
  OBVIOUS
<1>1. CASE UNCHANGED vars
  <2>1. UNCHANGED <<root, staged, pc, cur, keep, todo, list, left, late, scr, want, off, torn>>
    BY <1>1 DEF vars, dirs, daemon, pfs, user
  <2>2. PhaseInv'
    BY <2>1 DEF MeantInv, PhaseInv
  <2>3. QED
    BY <2>1, <2>2, MeantFrame DEF MeantInv
<1>2. CASE HandleModules
  BY <1>2, UpgradeMeant, CollectMeant DEF HandleModules
<1>3. CASE Scheduled
  BY <1>2, <1>3, ScriptsMeant DEF Scheduled
<1>4. QED
  BY <1>1, <1>3, UserMeant, RebootMeant, ScriptsMeant, MarksMeant DEF Next

(* The second collect_modules of handle_modules (module.rs) leaves in the    *)
(* list only modules in the version that was asked for, and no disabled or   *)
(* removed one, whoever left the mark; excused are modules torn by a power   *)
(* cut and scripts past the deadline.                                        *)
THEOREM LoadedAlwaysAsAsked == Spec => LoadedAsAsked
<1> DEFINE A == Loads /\ ~late => \A m \in list \ torn : want[m] \in {root[m].ver, "any"} /\ m \notin off
<1>1. KeptInv /\ MeantInv => A
  <2> SUFFICES ASSUME KeptInv, MeantInv, pc = "collect2", ~late, NEW m \in list \ torn
               PROVE  want[m] \in {root[m].ver, "any"} /\ m \notin off
    BY DEF Loads
  <2>1. m \in Modules \ torn /\ staged[m] = "none"
    BY DEF MeantInv, PhaseInv, KeptInv, Upgraded
  <2>2. Settled(m)
    BY <2>1, MeantIsSettled DEF MeantInv, Busy, Erasing, Replacing
  <2>3. root[m] # NoDir /\ root[m].marks \cap {"disable", "remove"} = {}
    BY DEF MeantInv, PhaseInv, Second
  <2>4. QED
    BY <2>1, <2>2, <2>3 DEF Settled, Meant
<1>2. QED
  BY <1>1, KeptInit, KeptStep, TurnInit, TurnStep, MeantInit, MeantStep, PTL DEF Spec, LoadedAsAsked

(* Only copy_preinit_files writes sepolicy.rule.                             *)
LEMMA RulesAreCopied ==
    ASSUME [Next]_vars, rules' # rules
    PROVE  /\ rules' = PreinitRules(root', staged') /\ torn' \subseteq torn
           /\ \E m \in Modules : InstallEnd(m) \/ \E on \in BOOLEAN : SetEnable(m, on) \/ SetRemove(m, on)
<1>1. \E m \in Modules : InstallEnd(m) \/ \E on \in BOOLEAN : SetEnable(m, on) \/ SetRemove(m, on)
  <2>1. ~HandleModules
    BY DEF HandleModules, UpgradeModule, CollectModule, Erase, Unlink, Rename, KeepDisabled, UpgradeDone, CollectDone,
       UnlinkRemoved, Boot
  <2>2. ~Scheduled
    BY <2>1 DEF Scheduled, ExecCommonScripts, ExecModuleScripts, StartScript, ReapScript, ReapTimer, ChildExits,
       DeadlinePasses, TimerFires, Files, dirs
  <2>3. QED
    BY <2>2 DEF Next, vars, dirs, InstallBegin, InstallAborts, Reboot, SafeMode, ScriptEnds, ScriptMarks, Files
<1>2. QED
  BY <1>1 DEF InstallEnd, SetEnable, SetRemove, Mark

(* copy_preinit_files (util_functions.sh, LocalModule.kt) leaves in          *)
(* sepolicy.rule the rules of the versions the next boot loads and no        *)
(* others, up to the two exceptions that RulesAreOfNextBoot names.           *)
THEOREM RulesAlwaysOfNextBoot == Spec => RulesAreOfNextBoot
<1> DEFINE A == rules' # rules =>
         \A r \in Ruled : LET m == r[1] IN
            /\ m \notin torn /\ want'[m] # "any"
            /\ "update" \in root'[m].marks => staged'[m] = "full"
            => (r \in rules' <=> want'[m] = r[2] /\ (m \notin off' \/ staged'[m] = "full"))
<1>1. KeptInv /\ KeptInv' /\ MeantInv /\ [Next]_vars => A
  <2> SUFFICES ASSUME KeptInv, KeptInv', MeantInv, [Next]_vars, rules' # rules, NEW r \in Ruled, NEW m, m = r[1],
                      m \notin torn, want'[m] # "any", "update" \in root'[m].marks => staged'[m] = "full"
               PROVE  r \in rules' <=> want'[m] = r[2] /\ (m \notin off' \/ staged'[m] = "full")
    OBVIOUS
  <2>1. m \in Modules /\ r[2] \in {"old", "new"}
    BY ModuleLifecycleAssumption
  <2>2. Settled(m)' /\ m \notin torn'
    BY <2>1, RulesAreCopied, UserMeant
  <2>3. root'[m] \in Dirs /\ staged'[m] \in {"none", "partial", "full"}
    BY <2>1 DEF KeptInv
  <2>4. r \in rules' <=> \/ root'[m].ver = r[2] /\ root'[m].whole /\ root'[m].marks = {}
                         \/ r[2] = "new" /\ staged'[m] = "full"
    BY RulesAreCopied DEF PreinitRules
  <2>5. CASE staged'[m] = "full"
    BY <2>2, <2>4, <2>5 DEF Settled
  <2>6. CASE staged'[m] = "none"
    <3>1. root'[m].marks = {} <=> "remove" \notin root'[m].marks /\ m \notin off'
      BY <2>2, <2>3, <2>6 DEF Settled, Dirs, Marks
    <3>2. want'[m] = Meant(root'[m]) \/ (root'[m] = NoDir /\ want'[m] = "removed")
      BY <2>2, <2>6 DEF Settled
    <3>3. CASE root'[m] = NoDir
      <4>1. root'[m].ver = "none" /\ Meant(root'[m]) = "none"
        BY <3>3 DEF Meant, NoDir
      <4>2. QED
        BY <2>1, <2>4, <2>6, <3>2, <4>1
    <3>4. CASE root'[m] # NoDir
      <4>1. want'[m] = Meant(root'[m])
        BY <3>2, <3>4
      <4>2. Meant(root'[m]) = r[2] <=> root'[m].ver = r[2] /\ root'[m].whole /\ "remove" \notin root'[m].marks
        BY <2>1, <2>3, <3>4 DEF Meant
      <4>3. QED
        BY <2>4, <2>6, <3>1, <4>1, <4>2
    <3>5. QED
      BY <3>3, <3>4
  <2>7. QED
    BY <2>2, <2>3, <2>5, <2>6 DEF Settled
<1>2. QED
  BY <1>1, KeptInit, KeptStep, TurnInit, TurnStep, MeantInit, MeantStep, PTL DEF Spec, RulesAreOfNextBoot
=============================================================================
