------------------------------ MODULE MCTools ------------------------------
(* Small instances of the parts that run alone: magiskboot's cpio, the      *)
(* policy tool, the command lines, the file library, the mount table, the   *)
(* module mounts and the database.  They share no state: a behaviour runs   *)
(* one of them.                                                             *)
EXTENDS MCCpio, MCPolicy, MCArgh, MCFileTree, MCMounts, MCMagicMount, Database

VARIABLE tool

vars == <<tool, cpioVars, policyVars, arghVars, treeVars, mountVars, magicVars, dbVars>>

\* The parts that do not run hold no data.
Init ==
  /\ tool \in {"cpio", "policy", "argh", "tree", "mounts", "magic", "db"}
  /\ CpioInit /\ (tool = "cpio" \/ cfile = CHOOSE f \in Stock : TRUE)
  /\ ArghInit
  /\ IF tool = "policy" THEN PolicyInit
     ELSE ppc = "off" /\ pargs = <<>> /\ pol = <<>> /\ ptodo = <<>> /\ pstored = <<>>
  /\ IF tool = "tree" THEN TreeInit
     ELSE fs = <<>> /\ before = <<>> /\ op = [name |-> "none"] /\ mirror = <<>> /\ ops = 0
  /\ IF tool = "mounts" THEN MountInit
     ELSE ns = <<>> /\ crypt = "none" /\ preinit = {} /\ app = [cleaned |-> FALSE] /\ mphase = "off"
  /\ IF tool = "magic" THEN MagicInit ELSE real = (CHOOSE r \in RealTrees : TRUE) /\ mods = <<>> /\ tree = NewDir /\ shown = None
  /\ DbInit /\ (tool = "db" \/ origin = 0)

Next ==
  /\ UNCHANGED tool
  /\ \/ tool = "cpio" /\ CpioNext /\ UNCHANGED <<policyVars, arghVars, treeVars, mountVars, magicVars, dbVars>>
     \/ tool = "policy" /\ PolicyNext /\ UNCHANGED <<cpioVars, arghVars, treeVars, mountVars, magicVars, dbVars>>
     \/ tool = "argh" /\ ArghNext /\ UNCHANGED <<cpioVars, policyVars, treeVars, mountVars, magicVars, dbVars>>
     \/ tool = "tree" /\ TreeNext /\ UNCHANGED <<cpioVars, policyVars, arghVars, mountVars, magicVars, dbVars>>
     \/ tool = "mounts" /\ MountNext /\ UNCHANGED <<cpioVars, policyVars, arghVars, treeVars, magicVars, dbVars>>
     \/ tool = "magic" /\ MagicNext /\ UNCHANGED <<cpioVars, policyVars, arghVars, treeVars, mountVars, dbVars>>
     \/ tool = "db" /\ DbNext /\ UNCHANGED <<cpioVars, policyVars, arghVars, treeVars, mountVars, magicVars>>

Spec == Init /\ [][Next]_vars
=============================================================================
