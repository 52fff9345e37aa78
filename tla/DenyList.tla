------------------------------- MODULE DenyList -------------------------------
(***************************************************************************)
(* The denylist's data (native/src/core/deny/utils.cpp): the in-memory     *)
(* package map, lock set and app-id index guarded by data_lock, and the    *)
(* `denylist` table behind it.  A handler runs on a pool thread: its       *)
(* section under data_lock is one step, the SQL statement it executes      *)
(* after releasing the lock is another, so handlers interleave in between. *)
(*                                                                         *)
(* Names are opaque and valid (validate() filters them before any state is *)
(* touched).  A package is a key of pkg_to_procs iff its process set is    *)
(* not empty, as in the code, which erases a key with its last process.    *)
(***************************************************************************)
EXTENDS Integers, FiniteSets

CONSTANTS
    Pkgs,          \* package names
    Isolated,      \* ISOLATED_MAGIC, a member of Pkgs or not
    Procs,         \* process names
    Handlers,      \* concurrent DENYLIST requests
    AppIds,        \* app ids the package manager hands out (positive)
    Uses           \* the ways the list is used, one of them per behaviour:
                   \*   concurrent: requests overlap
                   \*   ops: request kinds: "add" "rm" "lock" "ls" "restart"
                   \*   changes: bound on installs, uninstalls, re-installs
                   \*   failures: bound on failing db_exec calls

ASSUME DenyAssumption ==
    /\ AppIds \subseteq Nat \ {0}
    /\ Uses \subseteq [concurrent : BOOLEAN, changes : Nat, failures : Nat,
                        ops : SUBSET {"add", "rm", "lock", "ls", "restart"}]

EmptyName == "empty"  \* the empty process name: a lock-only row, or "all of it"
ASSUME EmptyNameAssumption == EmptyName \notin Procs

NoStmt == [kind |-> "none"]

VARIABLES
    mem,        \* pkg_to_procs, locked_pkgs, app_id_to_pkgs
    rows,       \* table denylist, primary key (package_name, process)
    pending,    \* pending[h]: the statement h executes after unlocking
    installed,  \* installed[p]: app id owning p's data directory, 0 if none
    appChanges, dbFailures,
    use         \* the member of Uses this behaviour follows

vars == <<mem, rows, pending, installed, appChanges, dbFailures, use>>

Row(p, c, l) == [pkg |-> p, proc |-> c, locked |-> l]

(* clear_data: the unique_ptrs are null. *)
Unloaded == [loaded |-> FALSE, procs |-> [p \in Pkgs |-> {}], locked |-> {}, index |-> {}]

Init ==
    /\ mem = Unloaded
    /\ rows = {}
    /\ pending = [h \in Handlers |-> NoStmt]
    /\ installed \in [Pkgs -> AppIds \cup {0}]
    /\ appChanges = 0
    /\ dbFailures = 0
    /\ use \in Uses

-----------------------------------------------------------------------------
(* Helpers *)

(* get_app_id(pkg): -1 for the isolated wildcard, 0 when no user has it.     *)
AppId(p) == IF p = Isolated THEN -1 ELSE installed[p]

(* update_app_id: non-positive ids are not indexed.                          *)
UpdateAppId(index, id, p, remove) ==
    IF id <= 0 THEN index
    ELSE IF remove THEN index \ {<<id, p>>} ELSE index \cup {<<id, p>>}

(* Mutant of Scan: locked packages that are not installed are dropped too.   *)
Scan_DropsLocked(m, rs) ==
    LET scanned == {p \in Pkgs \ {Isolated} : m.procs[p] # {}}
        gone    == {p \in scanned : installed[p] = 0}
    IN  [mem  |-> [m EXCEPT !.procs = [p \in Pkgs |-> IF p \in gone THEN {} ELSE @[p]],
                            !.index = {<<installed[p], p>> : p \in scanned \ gone}],
         rows |-> {r \in rs : r.pkg \notin gone}]

(* scan_deny_apps: rebuild the index; packages that are gone are dropped     *)
(* from memory and table.  The wildcard and locked packages are skipped.     *)
Scan(m, rs) ==
    LET scanned == {p \in Pkgs \ ({Isolated} \cup m.locked) : m.procs[p] # {}}
        gone    == {p \in scanned : installed[p] = 0}
    IN  [mem  |-> [m EXCEPT !.procs = [p \in Pkgs |-> IF p \in gone THEN {} ELSE @[p]],
                            !.index = {<<installed[p], p>> : p \in scanned \ gone}],
         rows |-> {r \in rs : r.pkg \notin gone}]

(* The SELECT of ensure_data: sentinel rows only carry the lock state.       *)
Load(rs) ==
    [loaded |-> TRUE,
     procs  |-> [p \in Pkgs |-> {c \in Procs : \E r \in rs : r.pkg = p /\ r.proc = c}],
     locked |-> {p \in Pkgs : \E r \in rs : r.pkg = p /\ r.locked},
     index  |-> {}]

(* ensure_data, when it succeeds.                                            *)
Ensured == IF mem.loaded THEN [mem |-> mem, rows |-> rows] ELSE Scan(Load(rows), rows)

(* What every section under data_lock leaves alone.                          *)
Env == UNCHANGED <<installed, appChanges, dbFailures, use>>

(* Leave the section: new memory and table, statement s still to execute.    *)
Leave(h, m, rs, s) ==
    /\ mem' = m
    /\ rows' = rs
    /\ pending' = [pending EXCEPT ![h] = s]
    /\ Env

(* No handler is between its two steps.                                      *)
Quiet == \A h \in Handlers : pending[h] = NoStmt

Free(h, op) ==
    /\ op \in use.ops
    /\ IF use.concurrent THEN pending[h] = NoStmt ELSE Quiet

-----------------------------------------------------------------------------
(* Requests *)

(* add_list: refused when the package is not installed or already listed.    *)
AddList(h, p, c) ==
    /\ Free(h, "add")
    /\ LET e == Ensured
           m == e.mem
       IN  IF AppId(p) = 0 \/ c \in m.procs[p]
           THEN Leave(h, m, e.rows, NoStmt)
           ELSE Leave(h, [m EXCEPT !.procs[p] = @ \cup {c},
                                   !.index = UpdateAppId(@, AppId(p), p, FALSE)],
                      e.rows, [kind |-> "insert", pkg |-> p, proc |-> c])

(* The processes that `rm pkg proc` names; no process means all of them.     *)
Named(c) == IF c = EmptyName THEN Procs \cup {EmptyName} ELSE {c}

(* Mutant of RmList: the index entry is kept when the last process goes.     *)
RmList_KeepsIndex(h, p, c) ==
    /\ Free(h, "rm")
    /\ LET e == Ensured
           m == e.mem
           left == m.procs[p] \ Named(c)
       IN  IF p \in m.locked \/ left = m.procs[p]
           THEN Leave(h, m, e.rows, NoStmt)
           ELSE Leave(h, [m EXCEPT !.procs[p] = left], e.rows,
                      [kind |-> "delete", pkg |-> p, procs |-> Named(c)])

(* rm_list: refused while locked.  The key and its index entry go with the   *)
(* last process; the index is looked up by the app id the package has now.   *)
RmList(h, p, c) ==
    /\ Free(h, "rm")
    /\ LET e == Ensured
           m == e.mem
           left == m.procs[p] \ Named(c)
       IN  IF p \in m.locked \/ left = m.procs[p]
           THEN Leave(h, m, e.rows, NoStmt)
           ELSE Leave(h, [m EXCEPT !.procs[p] = left,
                                   !.index = IF left = {}
                                             THEN UpdateAppId(@, AppId(p), p, TRUE)
                                             ELSE @],
                      e.rows, [kind |-> "delete", pkg |-> p, procs |-> Named(c)])

LockStmt(p, l) == [kind |-> "update", pkg |-> p, locked |-> l]

(* Mutant of Lock: no sentinel row for a package without processes.          *)
Lock_NoSentinel(h, p) ==
    /\ Free(h, "lock")
    /\ p # Isolated
    /\ LET e == Ensured
       IN  Leave(h, [e.mem EXCEPT !.locked = @ \cup {p}], e.rows, LockStmt(p, TRUE))

(* set_locked(pkg, true): a package without processes gets a sentinel row,   *)
(* inserted under data_lock; the insert fails if a sentinel is still there.  *)
Lock(h, p) ==
    /\ Free(h, "lock")
    /\ p # Isolated
    /\ LET e == Ensured
           m == e.mem
           locked == [m EXCEPT !.locked = @ \cup {p}]
       IN  IF p \in m.locked \/ m.procs[p] # {}
           THEN Leave(h, locked, e.rows, LockStmt(p, TRUE))
           ELSE IF \E r \in e.rows : r.pkg = p /\ r.proc = EmptyName
           THEN Leave(h, m, e.rows, NoStmt)
           ELSE Leave(h, locked, e.rows \cup {Row(p, EmptyName, TRUE)}, LockStmt(p, TRUE))

(* set_locked(pkg, false): drops the sentinel row if no process is left.     *)
Unlock(h, p) ==
    /\ Free(h, "lock")
    /\ p # Isolated
    /\ LET e == Ensured
           m == e.mem
           drop == {r \in e.rows : m.procs[p] = {} /\ r.pkg = p /\ r.proc = EmptyName}
       IN  Leave(h, [m EXCEPT !.locked = @ \ {p}], e.rows \ drop, LockStmt(p, FALSE))

(* ls_list, which rescans; also SU requests' queries, which only load.       *)
LsList(h) ==
    /\ Free(h, "ls")
    /\ LET e == Ensured
           s == Scan(e.mem, e.rows)
       IN  Leave(h, s.mem, s.rows, NoStmt)

IsDenyTarget(h) ==
    /\ Free(h, "ls")
    /\ ~mem.loaded
    /\ Leave(h, Ensured.mem, Ensured.rows, NoStmt)

(* ZYGOTE_RESTART rescans if the data is loaded (daemon.rs:168).             *)
ZygoteRestart(h) ==
    /\ Free(h, "ls")
    /\ mem.loaded
    /\ LET s == Scan(mem, rows) IN Leave(h, s.mem, s.rows, NoStmt)

(* The effect of a handler's final statement on the table rs.                *)
Executed(rs, s) ==
    CASE s.kind = "insert" ->
             IF \E r \in rs : r.pkg = s.pkg /\ r.proc = s.proc
             THEN rs ELSE rs \cup {Row(s.pkg, s.proc, FALSE)}
      [] s.kind = "delete" -> {r \in rs : r.pkg # s.pkg \/ r.proc \notin s.procs}
      [] s.kind = "update" ->
             {IF r.pkg = s.pkg THEN [r EXCEPT !.locked = s.locked] ELSE r : r \in rs}

(* db_exec after data_lock was released, and its failure.                    *)
DbExec(h) ==
    /\ pending[h] # NoStmt
    /\ \/ rows' = Executed(rows, pending[h]) /\ UNCHANGED dbFailures
       \/ /\ dbFailures < use.failures
          /\ dbFailures' = dbFailures + 1
          /\ UNCHANGED rows
    /\ pending' = [pending EXCEPT ![h] = NoStmt]
    /\ UNCHANGED <<mem, installed, appChanges, use>>

-----------------------------------------------------------------------------
(* The daemon dies (with the device or alone) and is started again.          *)
Restart ==
    /\ "restart" \in use.ops
    /\ mem.loaded
    /\ mem' = Unloaded
    /\ pending' = [h \in Handlers |-> NoStmt]
    /\ UNCHANGED <<rows, installed, appChanges, dbFailures, use>>

(* The package manager installs, updates the app id of, or removes p.        *)
AppChange(p) ==
    /\ appChanges < use.changes
    /\ appChanges' = appChanges + 1
    /\ \E id \in (AppIds \cup {0}) \ {installed[p]} : installed' = [installed EXCEPT ![p] = id]
    /\ UNCHANGED <<mem, rows, pending, dbFailures, use>>

Request(h) ==
    \/ \E p \in Pkgs :
          \/ \E c \in Procs : AddList(h, p, c)
          \/ \E c \in Procs \cup {EmptyName} : RmList(h, p, c)
          \/ Lock(h, p)
          \/ Unlock(h, p)
    \/ LsList(h)
    \/ IsDenyTarget(h)
    \/ ZygoteRestart(h)

Next ==
    \/ \E h \in Handlers : Request(h) \/ DbExec(h)
    \/ Restart
    \/ \E p \in Pkgs : AppChange(p)

Spec == Init /\ [][Next]_vars

-----------------------------------------------------------------------------
Memory ==
    [loaded : BOOLEAN, procs : [Pkgs -> SUBSET Procs], locked : SUBSET Pkgs,
     index : SUBSET (AppIds \X Pkgs)]

(* The containers of deny/utils.cpp and the table hold only packages,        *)
(* processes and app ids.                                                    *)
TypeOK ==
    /\ mem \in Memory
    /\ rows \subseteq [pkg : Pkgs, proc : Procs \cup {EmptyName}, locked : BOOLEAN]
    /\ installed \in [Pkgs -> AppIds \cup {0}]
    /\ appChanges \in 0..use.changes
    /\ dbFailures \in 0..use.failures

(* Memory and table agree between requests that do not overlap: what the     *)
(* daemon enforces now is what it will load after a restart (add_list:       *)
(* "persist to DB, and update in-memory data", rm_list: "remove from         *)
(* in-memory data and DB", set_locked: "persisting it in the database").     *)
MemMatchesTable ==
    ~use.concurrent /\ use.failures = 0 /\ mem.loaded /\ Quiet =>
        /\ mem.procs = Load(rows).procs
        /\ mem.locked = Load(rows).locked

(* is_deny_target(_uid) finds an app by its app id only: every installed     *)
(* package with an entry must be in the index, or its processes count as not *)
(* denied ("an app covered by a denylist entry is never given root",         *)
(* su/daemon.rs:38-39).                                                      *)
ListedAppsAreIndexed ==
    mem.loaded =>
        \A p \in Pkgs \ {Isolated} :
            mem.procs[p] # {} /\ installed[p] # 0 => <<installed[p], p>> \in mem.index

(* The same, as long as no package is locked or changes its app id; it holds *)
(* under overlapping requests, rescans, restarts and failing statements.     *)
UnlockedAppsAreIndexed ==
    "lock" \notin use.ops /\ use.changes = 0 => ListedAppsAreIndexed

(* "string_view points to a pkg_to_procs key" (utils.cpp:31): is_deny_target *)
(* dereferences the lookup of every indexed package without a check.  It     *)
(* holds as long as the app ids stay what they are.                          *)
IndexPointsToKeys ==
    use.changes = 0 => \A e \in mem.index : mem.procs[e[2]] # {}

(* The app-id index and the list are two views of one set (is_deny_target    *)
(* reads the one, add_list, rm_list and scan_deny_apps write both).          *)
IndexMatchesList == UnlockedAppsAreIndexed /\ IndexPointsToKeys

(* "Locked entries cannot be removed until unlocked" and "persist even if    *)
(* the app is uninstalled": no step of a running daemon takes a process away *)
(* from a locked package.                                                    *)
LockedEntriesStay ==
    [][mem'.loaded => \A p \in mem.locked : mem.procs[p] \subseteq mem'.procs[p]]_vars
=============================================================================
