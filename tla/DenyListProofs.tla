---------------------------- MODULE DenyListProofs ----------------------------
(***************************************************************************)
(* Proofs about DenyList for any number of packages, processes, app ids    *)
(* and overlapping requests.                                               *)
(***************************************************************************)
EXTENDS DenyList, TLAPS

(* Rows of the table, and the statements a handler can still owe it.         *)
RowSet == [pkg : Pkgs, proc : Procs \cup {EmptyName}, locked : BOOLEAN]
Inserts == [kind : {"insert"}, pkg : Pkgs, proc : Procs]
Deletes == [kind : {"delete"}, pkg : Pkgs, procs : SUBSET (Procs \cup {EmptyName})]
Updates == [kind : {"update"}, pkg : Pkgs, locked : BOOLEAN]

NoLocks == "lock" \notin use.ops
FixedApps == use.changes = 0

(* Every index entry stands for the app id its package has and for a key of  *)
(* the package map.                                                          *)
KeysOK(m) ==
    \A e \in m.index : e[1] = installed[e[2]] /\ e[2] # Isolated /\ m.procs[e[2]] # {}

(* Every installed package with a process is indexed.                        *)
IndexedOK(m) ==
    \A p \in Pkgs \ {Isolated} :
        m.procs[p] # {} /\ installed[p] # 0 => <<installed[p], p>> \in m.index

(* What a section under data_lock leaves behind.                             *)
GoodMem(m) ==
    /\ m \in Memory /\ m.loaded = TRUE
    /\ FixedApps => KeysOK(m)
    /\ NoLocks => m.locked = {}
    /\ NoLocks /\ FixedApps => IndexedOK(m)

GoodRows(rs) == rs \subseteq RowSet /\ (NoLocks => \A r \in rs : r.locked = FALSE)

GoodStmt(s) == s \in {NoStmt} \cup Inserts \cup Deletes \/ (~NoLocks /\ s \in Updates)

(* The environment's part.                                                   *)
EnvOK ==
    /\ use \in Uses
    /\ installed \in [Pkgs -> AppIds \cup {0}]
    /\ appChanges \in 0 .. use.changes /\ dbFailures \in 0 .. use.failures

DenyInv ==
    /\ EnvOK
    /\ mem = Unloaded \/ GoodMem(mem)
    /\ GoodRows(rows)
    /\ DOMAIN pending = Handlers /\ \A h \in Handlers : GoodStmt(pending[h])

(* A package locked in the memory now has its processes in the memory m.     *)
KeepsLocked(m) == \A p \in mem.locked : mem.procs[p] \subseteq m.procs[p]

-----------------------------------------------------------------------------
(* A daemon without data still has the containers' types. *)
LEMMA UnloadedTyped == Unloaded \in Memory
BY DEF Unloaded, Memory

(* scan_deny_apps: the index it rebuilds is exact for the packages it looks  *)
(* at, and locked packages keep what they have.                              *)
LEMMA ScanKeeps ==
    ASSUME EnvOK, NEW m \in Memory, NEW rs
    PROVE  /\ Scan(m, rs).mem \in Memory
           /\ Scan(m, rs).mem.loaded = m.loaded
           /\ Scan(m, rs).mem.locked = m.locked
           /\ \A p \in m.locked : Scan(m, rs).mem.procs[p] = m.procs[p]
           /\ KeysOK(Scan(m, rs).mem)
           /\ m.locked = {} => IndexedOK(Scan(m, rs).mem)
           /\ Scan(m, rs).rows \subseteq rs
<1> DEFINE scanned == {p \in Pkgs \ ({Isolated} \cup m.locked) : m.procs[p] # {}}
           gone    == {p \in scanned : installed[p] = 0}
           procs   == [p \in Pkgs |-> IF p \in gone THEN {} ELSE m.procs[p]]
           index   == {<<installed[p], p>> : p \in scanned \ gone}
<1>1. /\ Scan(m, rs).mem = [m EXCEPT !.procs = procs, !.index = index]
      /\ Scan(m, rs).rows = {r \in rs : r.pkg \notin gone}
  BY DEF Scan
<1>2. index \subseteq AppIds \X Pkgs
  BY DEF EnvOK
<1>3. procs \in [Pkgs -> SUBSET Procs]
  BY DEF Memory
<1>4. \A p \in m.locked : procs[p] = m.procs[p]
  BY DEF Memory
<1>5. \A e \in index : e[1] = installed[e[2]] /\ e[2] # Isolated /\ procs[e[2]] # {}
  OBVIOUS
<1>6. m.locked = {} =>
        \A p \in Pkgs \ {Isolated} : procs[p] # {} /\ installed[p] # 0 => <<installed[p], p>> \in index
  OBVIOUS
<1> HIDE DEF procs, index
<1>7. /\ Scan(m, rs).mem \in Memory
      /\ Scan(m, rs).mem.loaded = m.loaded /\ Scan(m, rs).mem.locked = m.locked
      /\ Scan(m, rs).mem.procs = procs /\ Scan(m, rs).mem.index = index
  BY <1>1, <1>2, <1>3 DEF Memory
<1>8. Scan(m, rs).rows \subseteq rs
  BY <1>1
<1>9. QED
  BY <1>4, <1>5, <1>6, <1>7, <1>8 DEF KeysOK, IndexedOK

(* ensure_data: whatever was in memory, what is there afterwards is good,    *)
(* and it only loads when nothing was locked in memory.                      *)
LEMMA EnsuredKeeps ==
    ASSUME DenyInv
    PROVE  GoodMem(Ensured.mem) /\ GoodRows(Ensured.rows) /\ KeepsLocked(Ensured.mem)
<1>1. CASE mem = Unloaded
  <2>1. Ensured = Scan(Load(rows), rows)
    BY <1>1 DEF Ensured, Unloaded
  <2>2. Load(rows) \in Memory /\ Load(rows).loaded = TRUE
    BY DEF Load, Memory
  <2>3. NoLocks => Load(rows).locked = {}
    BY DEF Load, DenyInv, GoodRows
  <2>4. mem.locked = {}
    BY <1>1 DEF Unloaded
  <2>5. QED
    BY <2>1, <2>2, <2>3, <2>4, ScanKeeps DEF DenyInv, GoodMem, GoodRows, KeepsLocked
<1>2. CASE GoodMem(mem)
  BY <1>2 DEF Ensured, GoodMem, DenyInv, KeepsLocked
<1>3. QED
  BY <1>1, <1>2 DEF DenyInv

(* A section that leaves good memory, rows and a good statement is fine. *)
LEMMA LeaveKeeps ==
    ASSUME DenyInv, NEW h \in Handlers, NEW m, NEW rs, NEW s, Leave(h, m, rs, s),
           GoodMem(m), GoodRows(rs), GoodStmt(s)
    PROVE  DenyInv'
<1>1. EnvOK' /\ (NoLocks' <=> NoLocks) /\ (FixedApps' <=> FixedApps)
  BY DEF Leave, Env, DenyInv, EnvOK, NoLocks, FixedApps
<1>2. GoodMem(mem)'
  BY <1>1 DEF Leave, Env, GoodMem, KeysOK, IndexedOK, Memory
<1>3. GoodRows(rows)'
  BY <1>1 DEF Leave, GoodRows, RowSet
<1>4. DOMAIN pending' = Handlers /\ \A g \in Handlers : GoodStmt(pending[g])'
  BY <1>1 DEF Leave, DenyInv, GoodStmt
<1>5. QED
  BY <1>1, <1>2, <1>3, <1>4 DEF DenyInv

(* get_app_id: the wildcard's -1, or what the package manager says. *)
LEMMA AppIdIs ==
    ASSUME EnvOK, NEW p \in Pkgs
    PROVE  /\ p = Isolated => AppId(p) = -1
           /\ p # Isolated => AppId(p) = installed[p] /\ AppId(p) \in AppIds \cup {0}
           /\ \A id \in AppIds : id \in Nat /\ id > 0
BY DenyAssumption DEF EnvOK, AppId

(* update_app_id touches one entry, of a positive app id. *)
LEMMA UpdateIs ==
    ASSUME EnvOK, NEW p \in Pkgs, NEW index, NEW remove \in BOOLEAN
    PROVE  /\ p = Isolated \/ installed[p] = 0 => UpdateAppId(index, AppId(p), p, remove) = index
           /\ p # Isolated /\ installed[p] # 0 =>
                UpdateAppId(index, AppId(p), p, remove) =
                    IF remove THEN index \ {<<installed[p], p>>}
                    ELSE index \cup {<<installed[p], p>>}
<1>1. CASE p = Isolated
  BY <1>1, AppIdIs DEF UpdateAppId
<1>2. CASE p # Isolated /\ installed[p] = 0
  <2>1. AppId(p) = 0
    BY <1>2, AppIdIs
  <2>2. QED
    BY <1>2, <2>1 DEF UpdateAppId
<1>3. CASE p # Isolated /\ installed[p] # 0
  <2>1. AppId(p) = installed[p] /\ installed[p] \in Nat /\ ~(installed[p] <= 0)
    BY <1>3, AppIdIs
  <2>2. QED
    BY <1>3, <2>1 DEF UpdateAppId
<1>4. QED
  BY <1>1, <1>2, <1>3

(* add_list adds one process, and the package's index entry. *)
LEMMA AddKeeps ==
    ASSUME DenyInv, NEW h \in Handlers, NEW p \in Pkgs, NEW c \in Procs, AddList(h, p, c)
    PROVE  DenyInv' /\ KeepsLocked(mem')
<1> DEFINE e == Ensured
           index == UpdateAppId(e.mem.index, AppId(p), p, FALSE)
           m == [e.mem EXCEPT !.procs[p] = @ \cup {c}, !.index = index]
<1>1. GoodMem(e.mem) /\ GoodRows(e.rows) /\ KeepsLocked(e.mem)
  BY EnsuredKeeps
<1>2. CASE AppId(p) = 0 \/ c \in e.mem.procs[p]
  <2>1. Leave(h, e.mem, e.rows, NoStmt)
    BY <1>2 DEF AddList
  <2> HIDE DEF e
  <2>2. QED
    BY <1>1, <2>1, LeaveKeeps DEF GoodStmt, Leave
<1>3. CASE ~(AppId(p) = 0 \/ c \in e.mem.procs[p])
  <2> DEFINE stmt == [kind |-> "insert", pkg |-> p, proc |-> c]
  <2>1. Leave(h, m, e.rows, stmt)
    BY <1>3 DEF AddList
  <2> HIDE DEF e
  <2>2. p # Isolated => installed[p] # 0 /\ installed[p] \in AppIds
    BY <1>3, AppIdIs DEF DenyInv
  <2>3. /\ p = Isolated => index = e.mem.index
        /\ p # Isolated => index = e.mem.index \cup {<<installed[p], p>>} /\ installed[p] \in AppIds
    BY <2>2, UpdateIs DEF DenyInv
  <2> HIDE DEF index
  <2>4. /\ m.procs = [e.mem.procs EXCEPT ![p] = @ \cup {c}] /\ m.index = index
        /\ m.locked = e.mem.locked /\ m.loaded = TRUE
    BY <1>1 DEF GoodMem, Memory
  <2>5. m \in Memory
    <3>1. index \subseteq AppIds \X Pkgs
      BY <1>1, <2>3 DEF GoodMem, Memory
    <3>2. [e.mem.procs EXCEPT ![p] = @ \cup {c}] \in [Pkgs -> SUBSET Procs]
      BY <1>1 DEF GoodMem, Memory
    <3>3. QED
      BY <1>1, <3>1, <3>2 DEF GoodMem, Memory
  <2> HIDE DEF m
  <2>6. e.mem.procs \in [Pkgs -> SUBSET Procs] /\ e.mem.index \subseteq AppIds \X Pkgs
    BY <1>1 DEF GoodMem, Memory
  <2>7. KeysOK(e.mem) => KeysOK(m)
    BY <2>3, <2>4, <2>6 DEF KeysOK
  <2>8. IndexedOK(e.mem) => IndexedOK(m)
    BY <2>3, <2>4, <2>6 DEF IndexedOK
  <2>9. GoodMem(m)
    BY <1>1, <2>4, <2>5, <2>7, <2>8 DEF GoodMem
  <2>10. KeepsLocked(m)
    <3>1. \A q \in Pkgs : e.mem.procs[q] \subseteq m.procs[q]
      BY <2>4, <2>6
    <3>2. mem.locked \subseteq Pkgs
      BY UnloadedTyped DEF DenyInv, GoodMem, Memory
    <3>3. QED
      BY <1>1, <3>1, <3>2 DEF KeepsLocked
  <2>11. GoodStmt(stmt)
    BY DEF GoodStmt, Inserts
  <2>12. DenyInv'
    BY <1>1, <2>1, <2>9, <2>11, LeaveKeeps
  <2>13. QED
    BY <2>1, <2>10, <2>12 DEF Leave
<1>4. QED
  BY <1>2, <1>3

(* rm_list takes processes from an unlocked package only, and its index      *)
(* entry with the last of them.                                              *)
LEMMA RmKeeps ==
    ASSUME DenyInv, NEW h \in Handlers, NEW p \in Pkgs, NEW c \in Procs \cup {EmptyName},
           RmList(h, p, c)
    PROVE  DenyInv' /\ KeepsLocked(mem')
<1> DEFINE e == Ensured
           left == e.mem.procs[p] \ Named(c)
           index == IF left = {} THEN UpdateAppId(e.mem.index, AppId(p), p, TRUE) ELSE e.mem.index
           m == [e.mem EXCEPT !.procs[p] = left, !.index = index]
<1>1. GoodMem(e.mem) /\ GoodRows(e.rows) /\ KeepsLocked(e.mem)
  BY EnsuredKeeps
<1>2. CASE p \in e.mem.locked \/ left = e.mem.procs[p]
  <2>1. Leave(h, e.mem, e.rows, NoStmt)
    BY <1>2 DEF RmList
  <2> HIDE DEF e
  <2>2. QED
    BY <1>1, <2>1, LeaveKeeps DEF GoodStmt, Leave
<1>3. CASE ~(p \in e.mem.locked \/ left = e.mem.procs[p])
  <2> DEFINE stmt == [kind |-> "delete", pkg |-> p, procs |-> Named(c)]
  <2>1. Leave(h, m, e.rows, stmt)
    BY <1>3 DEF RmList
  <2>2. p \notin mem.locked
    <3>1. CASE mem = Unloaded
      BY <3>1 DEF Unloaded
    <3>2. CASE GoodMem(mem)
      BY <1>3, <3>2 DEF GoodMem, Ensured
    <3>3. QED
      BY <3>1, <3>2 DEF DenyInv
  <2> HIDE DEF e
  <2>3. 0 \notin AppIds
    BY DenyAssumption
  <2>4. e.mem.procs \in [Pkgs -> SUBSET Procs] /\ e.mem.index \subseteq AppIds \X Pkgs
    BY <1>1 DEF GoodMem, Memory
  <2>5. left \subseteq Procs
    BY <2>4
  <2>6. /\ index \subseteq e.mem.index
        /\ left = {} /\ p # Isolated => <<installed[p], p>> \notin index
        /\ \A q \in e.mem.index \ index : q = <<installed[p], p>>
        /\ left # {} => index = e.mem.index
    <3>1. CASE left # {}
      BY <3>1
    <3>2. CASE left = {} /\ (p = Isolated \/ installed[p] = 0)
      <4>1. index = e.mem.index
        BY <3>2, UpdateIs DEF DenyInv
      <4>2. installed[p] = 0 => <<installed[p], p>> \notin e.mem.index
        BY <2>3, <2>4
      <4> HIDE DEF index
      <4>3. QED
        BY <3>2, <4>1, <4>2
    <3>3. CASE left = {} /\ p # Isolated /\ installed[p] # 0
      <4>1. index = e.mem.index \ {<<installed[p], p>>}
        BY <3>3, UpdateIs DEF DenyInv
      <4> HIDE DEF index
      <4>2. QED
        BY <3>3, <4>1
    <3>4. QED
      BY <3>1, <3>2, <3>3
  <2> HIDE DEF index, left
  <2>7. /\ m.procs = [e.mem.procs EXCEPT ![p] = left] /\ m.index = index
        /\ m.locked = e.mem.locked /\ m.loaded = TRUE
    BY <1>1 DEF GoodMem, Memory
  <2>8. m \in Memory
    BY <1>1, <2>5, <2>6, <2>7 DEF GoodMem, Memory
  <2> HIDE DEF m
  <2>9. KeysOK(e.mem) => KeysOK(m)
    <3> SUFFICES ASSUME KeysOK(e.mem), NEW q \in index
                 PROVE  q[1] = installed[q[2]] /\ q[2] # Isolated /\ m.procs[q[2]] # {}
      BY <2>7 DEF KeysOK
    <3>1. q \in e.mem.index /\ q = <<q[1], q[2]>> /\ q[2] \in Pkgs
      BY <2>4, <2>6
    <3>2. q[1] = installed[q[2]] /\ q[2] # Isolated /\ e.mem.procs[q[2]] # {}
      BY <3>1 DEF KeysOK
    <3>3. q[2] = p => left # {}
      BY <2>6, <3>1, <3>2
    <3>4. QED
      BY <2>4, <2>7, <3>1, <3>2, <3>3
  <2>10. IndexedOK(e.mem) => IndexedOK(m)
    <3> SUFFICES ASSUME IndexedOK(e.mem), NEW q \in Pkgs \ {Isolated},
                        m.procs[q] # {}, installed[q] # 0
                 PROVE  <<installed[q], q>> \in index
      BY <2>7 DEF IndexedOK
    <3>1. q = p => left # {} /\ e.mem.procs[q] # {}
      BY <2>4, <2>7 DEF left
    <3>2. e.mem.procs[q] # {}
      BY <2>4, <2>7, <3>1
    <3>3. <<installed[q], q>> \in e.mem.index
      BY <3>2 DEF IndexedOK
    <3>4. QED
      BY <2>6, <3>1, <3>3
  <2>11. GoodMem(m)
    BY <1>1, <2>7, <2>8, <2>9, <2>10 DEF GoodMem
  <2>12. KeepsLocked(m)
    <3>1. mem.locked \subseteq Pkgs
      BY UnloadedTyped DEF DenyInv, GoodMem, Memory
    <3>2. \A q \in Pkgs \ {p} : m.procs[q] = e.mem.procs[q]
      BY <2>4, <2>7
    <3>3. QED
      BY <1>1, <2>2, <3>1, <3>2 DEF KeepsLocked
  <2>13. GoodStmt(stmt)
    BY DEF GoodStmt, Deletes, Named
  <2>14. DenyInv'
    BY <1>1, <2>1, <2>11, <2>13, LeaveKeeps
  <2>15. QED
    BY <2>1, <2>12, <2>14 DEF Leave
<1>4. QED
  BY <1>2, <1>3

(* set_locked: only with locks in use, so nothing is owed to the index. *)
LEMMA LockKeeps ==
    ASSUME DenyInv, NEW h \in Handlers, NEW p \in Pkgs, Lock(h, p) \/ Unlock(h, p)
    PROVE  DenyInv' /\ KeepsLocked(mem')
<1> DEFINE e == Ensured
<1>1. GoodMem(e.mem) /\ GoodRows(e.rows) /\ KeepsLocked(e.mem)
  BY EnsuredKeeps
<1>2. ~NoLocks
  BY DEF Lock, Unlock, Free, NoLocks
<1>3. PICK l \in SUBSET Pkgs, rs \in SUBSET RowSet, s \in {NoStmt} \cup Updates :
         Leave(h, [e.mem EXCEPT !.locked = l], rs, s)
  <2>1. e.rows \subseteq RowSet /\ e.mem.locked \subseteq Pkgs
    BY <1>1 DEF GoodMem, GoodRows, Memory
  <2>2. LockStmt(p, TRUE) \in Updates /\ LockStmt(p, FALSE) \in Updates
    BY DEF LockStmt, Updates
  <2>3. CASE Unlock(h, p)
    <3> DEFINE drop == {r \in e.rows : e.mem.procs[p] = {} /\ r.pkg = p /\ r.proc = EmptyName}
    <3>1. Leave(h, [e.mem EXCEPT !.locked = @ \ {p}], e.rows \ drop, LockStmt(p, FALSE))
      BY <2>3 DEF Unlock
    <3>2. e.rows \ drop \in SUBSET RowSet /\ e.mem.locked \ {p} \in SUBSET Pkgs
      BY <2>1
    <3> HIDE DEF e, drop
    <3>3. QED
      BY <2>2, <3>1, <3>2
  <2>4. CASE Lock(h, p)
    <3> DEFINE locked == [e.mem EXCEPT !.locked = @ \cup {p}]
               more == e.rows \cup {Row(p, EmptyName, TRUE)}
    <3>1. \/ Leave(h, locked, e.rows, LockStmt(p, TRUE))
          \/ Leave(h, e.mem, e.rows, NoStmt)
          \/ Leave(h, locked, more, LockStmt(p, TRUE))
      BY <2>4 DEF Lock
    <3>2. more \in SUBSET RowSet /\ e.rows \in SUBSET RowSet
      <4>1. Row(p, EmptyName, TRUE) \in RowSet
        BY DEF Row, RowSet
      <4>2. QED
        BY <2>1, <4>1
    <3>3. e.mem.locked \cup {p} \in SUBSET Pkgs /\ e.mem.locked \in SUBSET Pkgs
      BY <2>1
    <3>4. e.mem = [e.mem EXCEPT !.locked = e.mem.locked]
      BY <1>1 DEF GoodMem, Memory
    <3> HIDE DEF e, more
    <3>5. QED
      BY <2>2, <3>1, <3>2, <3>3, <3>4
  <2>5. QED
    BY <2>3, <2>4
<1> DEFINE m == [e.mem EXCEPT !.locked = l]
<1> HIDE DEF e
<1>4. m \in Memory /\ m.loaded = TRUE /\ m.procs = e.mem.procs /\ m.index = e.mem.index
  BY <1>1 DEF GoodMem, Memory
<1>5. Leave(h, m, rs, s)
  BY <1>3
<1> HIDE DEF m
<1>6. GoodMem(m) /\ KeepsLocked(m)
  BY <1>1, <1>2, <1>4 DEF GoodMem, KeysOK, KeepsLocked
<1>7. GoodRows(rs) /\ GoodStmt(s)
  BY <1>2 DEF GoodRows, GoodStmt
<1>8. QED
  BY <1>5, <1>6, <1>7, LeaveKeeps DEF Leave

(* The requests that only load or rescan. *)
LEMMA RescanKeeps ==
    ASSUME DenyInv, NEW h \in Handlers, LsList(h) \/ IsDenyTarget(h) \/ ZygoteRestart(h)
    PROVE  DenyInv' /\ KeepsLocked(mem')
<1> DEFINE e == Ensured
           s == Scan(e.mem, e.rows)
<1>1. GoodMem(e.mem) /\ GoodRows(e.rows) /\ KeepsLocked(e.mem)
  BY EnsuredKeeps
<1>2. Leave(h, s.mem, s.rows, NoStmt) \/ Leave(h, e.mem, e.rows, NoStmt)
  BY DEF LsList, IsDenyTarget, ZygoteRestart, Ensured
<1>3. mem.locked \subseteq e.mem.locked
  <2>1. CASE mem = Unloaded
    BY <2>1 DEF Unloaded
  <2>2. CASE GoodMem(mem)
    BY <2>2 DEF GoodMem, Ensured
  <2>3. QED
    BY <2>1, <2>2 DEF DenyInv
<1> HIDE DEF e
<1>4. GoodMem(s.mem) /\ GoodRows(s.rows) /\ KeepsLocked(s.mem)
  BY <1>1, <1>3, ScanKeeps DEF DenyInv, GoodMem, GoodRows, KeepsLocked
<1> HIDE DEF s
<1>5. GoodStmt(NoStmt)
  BY DEF GoodStmt
<1>6. QED
  BY <1>1, <1>2, <1>4, <1>5, LeaveKeeps DEF Leave

(* The statement a handler owed changes the table alone. *)
LEMMA DbExecKeeps ==
    ASSUME DenyInv, NEW h \in Handlers, DbExec(h)
    PROVE  DenyInv' /\ KeepsLocked(mem')
<1> DEFINE s == pending[h]
<1>1. GoodRows(Executed(rows, s))
  <2>1. s \in Inserts \cup Deletes \/ (~NoLocks /\ s \in Updates)
    BY DEF DbExec, DenyInv, GoodStmt
  <2>2. CASE s \in Inserts
    <3>1. Executed(rows, s) \subseteq rows \cup {Row(s.pkg, s.proc, FALSE)}
      BY <2>2 DEF Executed, Inserts
    <3>2. Row(s.pkg, s.proc, FALSE) \in RowSet /\ Row(s.pkg, s.proc, FALSE).locked = FALSE
      BY <2>2 DEF Row, RowSet, Inserts
    <3> HIDE DEF s
    <3>3. QED
      BY <3>1, <3>2 DEF GoodRows, DenyInv
  <2>3. CASE s \in Deletes
    BY <2>3 DEF Executed, Deletes, GoodRows, DenyInv
  <2>4. CASE ~NoLocks /\ s \in Updates
    <3>1. Executed(rows, s) = {IF r.pkg = s.pkg THEN [r EXCEPT !.locked = s.locked] ELSE r : r \in rows}
      BY <2>4 DEF Executed, Updates
    <3>2. rows \subseteq RowSet /\ s.locked \in BOOLEAN
      BY <2>4 DEF DenyInv, GoodRows, Updates
    <3>3. \A r \in RowSet : [r EXCEPT !.locked = s.locked] \in RowSet
      BY <3>2 DEF RowSet
    <3> HIDE DEF s
    <3>4. Executed(rows, s) \subseteq RowSet
      BY <3>1, <3>2, <3>3
    <3>5. QED
      BY <2>4, <3>4 DEF GoodRows
  <2>5. QED
    BY <2>1, <2>2, <2>3, <2>4
<1> HIDE DEF s
<1>2. EnvOK' /\ (NoLocks' <=> NoLocks) /\ (FixedApps' <=> FixedApps)
  <2>1. use.failures \in Nat
    BY DenyAssumption DEF DenyInv, EnvOK
  <2>2. QED
    BY <2>1 DEF DbExec, DenyInv, EnvOK, NoLocks, FixedApps
<1>3. (mem = Unloaded \/ GoodMem(mem))'
  BY <1>2 DEF DbExec, DenyInv, GoodMem, KeysOK, IndexedOK, Memory, Unloaded
<1>4. GoodRows(rows)'
  BY <1>1, <1>2 DEF DbExec, DenyInv, GoodRows, RowSet, s
<1>5. DOMAIN pending' = Handlers /\ \A g \in Handlers : GoodStmt(pending[g])'
  BY <1>2 DEF DbExec, DenyInv, GoodStmt
<1>6. QED
  BY <1>2, <1>3, <1>4, <1>5 DEF DenyInv, KeepsLocked, DbExec

(* Every step is fine, and none but the daemon's restart takes a process     *)
(* from a locked package.                                                    *)
LEMMA DenyNext ==
    ASSUME DenyInv, [Next]_vars
    PROVE  DenyInv' /\ (mem'.loaded => KeepsLocked(mem'))
<1>1. CASE \E h \in Handlers : Request(h) \/ DbExec(h)
  BY <1>1, AddKeeps, RmKeeps, LockKeeps, RescanKeeps, DbExecKeeps DEF Request
<1>2. CASE Restart
  <2>1. mem' = Unloaded /\ Unloaded' = Unloaded /\ ~mem'.loaded
    BY <1>2 DEF Restart, Unloaded
  <2>2. DOMAIN pending' = Handlers /\ \A h \in Handlers : GoodStmt(pending[h])'
    BY <1>2 DEF Restart, GoodStmt
  <2>3. EnvOK' /\ GoodRows(rows)'
    BY <1>2 DEF Restart, DenyInv, EnvOK, GoodRows, NoLocks
  <2>4. QED
    BY <2>1, <2>2, <2>3 DEF DenyInv
<1>3. CASE \E p \in Pkgs : AppChange(p)
  <2>1. use.changes \in Nat /\ ~FixedApps
    BY <1>3, DenyAssumption DEF AppChange, DenyInv, EnvOK, FixedApps
  <2>2. UNCHANGED <<mem, rows, pending, use>> /\ EnvOK'
    BY <1>3, <2>1 DEF AppChange, DenyInv, EnvOK
  <2>3. (mem = Unloaded \/ GoodMem(mem))'
    BY <2>1, <2>2 DEF DenyInv, GoodMem, FixedApps, NoLocks, Unloaded, Memory
  <2>4. QED
    BY <2>2, <2>3 DEF DenyInv, GoodRows, GoodStmt, NoLocks, KeepsLocked
<1>4. CASE UNCHANGED vars
  BY <1>4 DEF vars, DenyInv, EnvOK, GoodMem, KeysOK, IndexedOK, GoodRows, GoodStmt, FixedApps,
              NoLocks, Unloaded, KeepsLocked
<1>5. QED
  BY <1>1, <1>2, <1>3, <1>4 DEF Next

(* It holds at first. *)
LEMMA DenyInit == Init => DenyInv
<1> SUFFICES ASSUME Init PROVE DenyInv
  OBVIOUS
<1>1. use.changes \in Nat /\ use.failures \in Nat
  BY DenyAssumption DEF Init
<1>2. QED
  BY <1>1 DEF Init, DenyInv, EnvOK, GoodRows, GoodStmt

(* And always. *)
LEMMA DenyAlways == Spec => []DenyInv
BY DenyInit, DenyNext, PTL DEF Spec

-----------------------------------------------------------------------------
(* The containers and the table hold only what they are meant to hold. *)
THEOREM DenyTyped == Spec => []TypeOK
<1>1. DenyInv => TypeOK
  BY UnloadedTyped DEF DenyInv, EnvOK, GoodMem, GoodRows, RowSet, TypeOK
<1>2. QED
  BY <1>1, DenyAlways, PTL

(* "Locked entries cannot be removed until unlocked", even by a rescan that  *)
(* finds the app uninstalled (rm_list, scan_deny_apps): no step of a running *)
(* daemon takes a process from a locked package.                             *)
THEOREM LockedAlwaysStay == Spec => LockedEntriesStay
<1>1. DenyInv /\ [Next]_vars =>
         [mem'.loaded => \A p \in mem.locked : mem.procs[p] \subseteq mem'.procs[p]]_vars
  BY DenyNext DEF KeepsLocked
<1>2. QED
  BY <1>1, DenyAlways, PTL DEF Spec, LockedEntriesStay

(* While app ids are fixed the index never names a package without a key, as *)
(* is_deny_target assumes when it dereferences the lookup (utils.cpp:31);    *)
(* and without locks every installed app with an entry is found by it, under *)
(* overlapping requests and failing statements.                              *)
THEOREM IndexAlwaysMatchesList == Spec => []IndexMatchesList
<1>1. DenyInv => IndexPointsToKeys
  BY DEF DenyInv, GoodMem, KeysOK, FixedApps, IndexPointsToKeys, Unloaded
<1>2. DenyInv => UnlockedAppsAreIndexed
  BY DEF DenyInv, GoodMem, IndexedOK, FixedApps, NoLocks, UnlockedAppsAreIndexed,
         ListedAppsAreIndexed, Unloaded
<1>3. QED
  BY <1>1, <1>2, DenyAlways, PTL DEF IndexMatchesList

-----------------------------------------------------------------------------
(* Memory m and table rs agree, entry by entry and lock by lock.             *)
ProcsAgree(m, rs) ==
    \A p \in Pkgs, c \in Procs : c \in m.procs[p] <=> \E r \in rs : r.pkg = p /\ r.proc = c
LocksAgree(m, rs) ==
    \A p \in Pkgs : p \in m.locked <=> \E r \in rs : r.pkg = p /\ r.locked = TRUE
Agrees(m, rs) == ProcsAgree(m, rs) /\ LocksAgree(m, rs)

(* The table once statement s is executed.                                   *)
After(rs, s) == IF s = NoStmt THEN rs ELSE Executed(rs, s)

(* Requests do not overlap and no statement fails.                           *)
Orderly == ~use.concurrent /\ use.failures = 0

(* Then at most one statement is owed, and with it executed memory and table *)
(* agree.                                                                    *)
SyncInv ==
    Orderly =>
        /\ \A g, h \in Handlers : pending[g] # NoStmt /\ pending[h] # NoStmt => g = h
        /\ mem.loaded =>
             /\ Quiet => Agrees(mem, rows)
             /\ \A h \in Handlers : pending[h] # NoStmt => Agrees(mem, Executed(rows, pending[h]))

(* The SELECT of ensure_data makes them agree. *)
LEMMA LoadAgrees ==
    ASSUME NEW rs \in SUBSET RowSet
    PROVE  Agrees(Load(rs), rs)
BY DEF Agrees, ProcsAgree, LocksAgree, Load, RowSet

(* scan_deny_apps drops the same packages from both, and no lock. *)
LEMMA ScanAgrees ==
    ASSUME EnvOK, NEW m \in Memory, NEW rs \in SUBSET RowSet, Agrees(m, rs)
    PROVE  Agrees(Scan(m, rs).mem, Scan(m, rs).rows)
<1> DEFINE scanned == {p \in Pkgs \ ({Isolated} \cup m.locked) : m.procs[p] # {}}
           gone    == {p \in scanned : installed[p] = 0}
           procs   == [p \in Pkgs |-> IF p \in gone THEN {} ELSE m.procs[p]]
           index   == {<<installed[p], p>> : p \in scanned \ gone}
           left    == {r \in rs : r.pkg \notin gone}
<1>1. Scan(m, rs).mem = [m EXCEPT !.procs = procs, !.index = index] /\ Scan(m, rs).rows = left
  BY DEF Scan
<1>2. gone \subseteq Pkgs \ m.locked
  OBVIOUS
<1> HIDE DEF gone, index
<1>3. Scan(m, rs).mem.procs = procs /\ Scan(m, rs).mem.locked = m.locked
  BY <1>1 DEF Memory
<1>4. ProcsAgree(Scan(m, rs).mem, left)
  <2> SUFFICES ASSUME NEW p \in Pkgs, NEW c \in Procs
               PROVE  c \in procs[p] <=> \E r \in left : r.pkg = p /\ r.proc = c
    BY <1>3 DEF ProcsAgree
  <2>1. c \in m.procs[p] <=> \E r \in rs : r.pkg = p /\ r.proc = c
    BY DEF Agrees, ProcsAgree
  <2>2. QED
    BY <2>1
<1>5. LocksAgree(Scan(m, rs).mem, left)
  <2> SUFFICES ASSUME NEW p \in Pkgs
               PROVE  p \in m.locked <=> \E r \in left : r.pkg = p /\ r.locked = TRUE
    BY <1>3 DEF LocksAgree
  <2>1. p \in m.locked <=> \E r \in rs : r.pkg = p /\ r.locked = TRUE
    BY DEF Agrees, LocksAgree
  <2>2. QED
    BY <1>2, <2>1
<1>6. QED
  BY <1>1, <1>4, <1>5 DEF Agrees

(* So does all of ensure_data, when no other request is under way. *)
LEMMA EnsuredAgrees ==
    ASSUME DenyInv, SyncInv, Orderly, Quiet
    PROVE  Agrees(Ensured.mem, Ensured.rows)
<1>1. rows \in SUBSET RowSet
  BY DEF DenyInv, GoodRows
<1>2. CASE mem.loaded
  BY <1>2 DEF SyncInv, Ensured
<1>3. CASE ~mem.loaded
  <2>1. Load(rows) \in Memory
    BY DEF Load, Memory
  <2>2. QED
    BY <1>1, <1>3, <2>1, LoadAgrees, ScanAgrees DEF Ensured, DenyInv
<1>4. QED
  BY <1>2, <1>3

(* A section that leaves them in agreement, but for its statement, is fine. *)
LEMMA LeaveSyncs ==
    ASSUME DenyInv, Quiet, NEW h \in Handlers, NEW m, NEW rs, NEW s, Leave(h, m, rs, s),
           Agrees(m, After(rs, s))
    PROVE  SyncInv'
<1>1. \A g \in Handlers : pending'[g] # NoStmt => g = h
  BY DEF Leave, DenyInv, Quiet
<1>2. pending'[h] = s
  BY DEF Leave, DenyInv
<1>3. Quiet' => s = NoStmt
  BY <1>2 DEF Quiet
<1>4. mem' = m /\ rows' = rs
  BY DEF Leave
<1>5. Quiet' => Agrees(mem', rows')
  BY <1>3, <1>4 DEF After
<1>6. \A g \in Handlers : pending'[g] # NoStmt => Agrees(mem', Executed(rows', pending'[g]))
  BY <1>1, <1>2, <1>4 DEF After
<1>7. QED
  BY <1>1, <1>5, <1>6, ZenonT(60) DEF SyncInv, Agrees, ProcsAgree, LocksAgree, Executed, Row

(* add_list: the row its INSERT adds is the process it added. *)
LEMMA AddSyncs ==
    ASSUME DenyInv, SyncInv, Orderly, NEW h \in Handlers, NEW p \in Pkgs, NEW c \in Procs,
           AddList(h, p, c)
    PROVE  SyncInv'
<1> DEFINE e == Ensured
           index == UpdateAppId(e.mem.index, AppId(p), p, FALSE)
           m == [e.mem EXCEPT !.procs[p] = @ \cup {c}, !.index = index]
           s == [kind |-> "insert", pkg |-> p, proc |-> c]
<1>1. Quiet /\ Agrees(e.mem, e.rows) /\ e.mem \in Memory
  BY EnsuredAgrees, EnsuredKeeps DEF AddList, Free, Orderly, GoodMem
<1>2. CASE AppId(p) = 0 \/ c \in e.mem.procs[p]
  <2>1. Leave(h, e.mem, e.rows, NoStmt)
    BY <1>2 DEF AddList
  <2> HIDE DEF e
  <2>2. QED
    BY <1>1, <2>1, LeaveSyncs DEF After
<1>3. CASE ~(AppId(p) = 0 \/ c \in e.mem.procs[p])
  <2>1. Leave(h, m, e.rows, s)
    BY <1>3 DEF AddList
  <2> HIDE DEF e
  <2>2. \A r \in e.rows : ~(r.pkg = p /\ r.proc = c)
    BY <1>1, <1>3 DEF Agrees, ProcsAgree
  <2>3. After(e.rows, s) = e.rows \cup {Row(p, c, FALSE)}
    BY <2>2 DEF After, Executed, NoStmt
  <2>4. m.procs = [e.mem.procs EXCEPT ![p] = @ \cup {c}] /\ m.locked = e.mem.locked
    BY <1>1 DEF Memory
  <2>5. e.mem.procs \in [Pkgs -> SUBSET Procs]
    BY <1>1 DEF Memory
  <2> DEFINE new == Row(p, c, FALSE)
  <2>6. new.pkg = p /\ new.proc = c /\ new.locked = FALSE
    BY DEF Row
  <2> HIDE DEF m, new
  <2>7. ProcsAgree(m, e.rows \cup {new})
    BY <1>1, <2>4, <2>5, <2>6 DEF Agrees, ProcsAgree
  <2>8. LocksAgree(m, e.rows \cup {new})
    BY <1>1, <2>4, <2>6 DEF Agrees, LocksAgree
  <2>9. Agrees(m, After(e.rows, s))
    BY <2>3, <2>7, <2>8 DEF Agrees, new
  <2>10. QED
    BY <1>1, <2>1, <2>9, LeaveSyncs
<1>4. QED
  BY <1>2, <1>3

(* rm_list: the rows its DELETE takes are the processes it removed, and none *)
(* of them carried a lock.                                                   *)
LEMMA RmSyncs ==
    ASSUME DenyInv, SyncInv, Orderly, NEW h \in Handlers, NEW p \in Pkgs,
           NEW c \in Procs \cup {EmptyName}, RmList(h, p, c)
    PROVE  SyncInv'
<1> DEFINE e == Ensured
           left == e.mem.procs[p] \ Named(c)
           index == IF left = {} THEN UpdateAppId(e.mem.index, AppId(p), p, TRUE) ELSE e.mem.index
           m == [e.mem EXCEPT !.procs[p] = left, !.index = index]
           s == [kind |-> "delete", pkg |-> p, procs |-> Named(c)]
           kept == {r \in e.rows : r.pkg # p \/ r.proc \notin Named(c)}
<1>1. Quiet /\ Agrees(e.mem, e.rows) /\ e.mem \in Memory
  BY EnsuredAgrees, EnsuredKeeps DEF RmList, Free, Orderly, GoodMem
<1>2. CASE p \in e.mem.locked \/ left = e.mem.procs[p]
  <2>1. Leave(h, e.mem, e.rows, NoStmt)
    BY <1>2 DEF RmList
  <2> HIDE DEF e
  <2>2. QED
    BY <1>1, <2>1, LeaveSyncs DEF After
<1>3. CASE ~(p \in e.mem.locked \/ left = e.mem.procs[p])
  <2>1. Leave(h, m, e.rows, s)
    BY <1>3 DEF RmList
  <2> HIDE DEF e
  <2>2. After(e.rows, s) = kept
    BY DEF After, Executed, NoStmt
  <2>3. e.mem.procs \in [Pkgs -> SUBSET Procs]
    BY <1>1 DEF Memory
  <2>4. m.procs = [e.mem.procs EXCEPT ![p] = left] /\ m.locked = e.mem.locked
    BY <1>1 DEF Memory
  <2>5. \A q \in Pkgs : m.procs[q] = IF q = p THEN e.mem.procs[p] \ Named(c) ELSE e.mem.procs[q]
    BY <2>3, <2>4
  <2> HIDE DEF m
  <2>6. ProcsAgree(m, kept)
    BY <1>1, <2>5 DEF Agrees, ProcsAgree
  <2>7. LocksAgree(m, kept)
    BY <1>1, <1>3, <2>4 DEF Agrees, LocksAgree
  <2>8. Agrees(m, After(e.rows, s))
    BY <2>2, <2>6, <2>7 DEF Agrees
  <2> HIDE DEF s
  <2>9. QED
    BY <1>1, <2>1, <2>8, LeaveSyncs
<1>4. QED
  BY <1>2, <1>3

(* The UPDATE of set_locked: the processes stay, the locks of p become l. *)
LEMMA UpdateSyncs ==
    ASSUME NEW rs \in SUBSET RowSet, NEW p \in Pkgs, NEW l \in BOOLEAN, NEW m, NEW n,
           ProcsAgree(m, rs), n.procs = m.procs,
           \A q \in Pkgs : q # p => (q \in n.locked <=> \E r \in rs : r.pkg = q /\ r.locked = TRUE),
           p \in n.locked <=> l, l => \E r \in rs : r.pkg = p
    PROVE  Agrees(n, After(rs, LockStmt(p, l)))
<1> DEFINE upd(r) == IF r.pkg = p THEN [r EXCEPT !.locked = l] ELSE r
           new == {upd(r) : r \in rs}
<1>1. After(rs, LockStmt(p, l)) = new
  BY DEF After, Executed, LockStmt, NoStmt
<1>2. \A r \in rs : /\ upd(r).pkg = r.pkg /\ upd(r).proc = r.proc
                     /\ upd(r).locked = IF r.pkg = p THEN l ELSE r.locked
  BY DEF RowSet
<1> HIDE DEF upd
<1>3. ProcsAgree(n, new)
  BY <1>2 DEF ProcsAgree
<1>4. LocksAgree(n, new)
  <2> SUFFICES ASSUME NEW q \in Pkgs
               PROVE  q \in n.locked <=> \E r \in new : r.pkg = q /\ r.locked = TRUE
    BY DEF LocksAgree
  <2>1. CASE q = p
    <3>1. ASSUME l PROVE \E r \in new : r.pkg = q /\ r.locked = TRUE
      <4>1. PICK r \in rs : r.pkg = p
        BY <3>1
      <4>2. upd(r) \in new /\ upd(r).pkg = q /\ upd(r).locked = TRUE
        BY <1>2, <2>1, <3>1, <4>1
      <4>3. QED
        BY <4>2
    <3>2. ASSUME NEW r \in new, r.pkg = q, r.locked = TRUE PROVE l
      BY <1>2, <2>1, <3>2
    <3>3. QED
      BY <2>1, <3>1, <3>2
  <2>2. CASE q # p
    <3>1. \A r \in rs : r.pkg = q => upd(r) \in new /\ upd(r).pkg = q /\ upd(r).locked = r.locked
      BY <1>2, <2>2
    <3>2. \A x \in new : x.pkg = q => \E r \in rs : r.pkg = q /\ r.locked = x.locked
      BY <1>2, <2>2
    <3>3. QED
      BY <2>2, <3>1, <3>2
  <2>3. QED
    BY <2>1, <2>2
<1>5. QED
  BY <1>1, <1>3, <1>4 DEF Agrees

(* set_locked leaves them in agreement, sentinel row and all. *)
LEMMA LockSyncs ==
    ASSUME DenyInv, SyncInv, Orderly, NEW h \in Handlers, NEW p \in Pkgs,
           Lock(h, p) \/ Unlock(h, p)
    PROVE  SyncInv'
<1> DEFINE e == Ensured
           drop == {r \in e.rows : e.mem.procs[p] = {} /\ r.pkg = p /\ r.proc = EmptyName}
           locked == [e.mem EXCEPT !.locked = @ \cup {p}]
           unlocked == [e.mem EXCEPT !.locked = @ \ {p}]
           new == Row(p, EmptyName, TRUE)
<1>1. Quiet /\ Agrees(e.mem, e.rows) /\ e.mem \in Memory /\ e.rows \in SUBSET RowSet
  BY EnsuredAgrees, EnsuredKeeps DEF Lock, Unlock, Free, Orderly, GoodMem, GoodRows
<1>2. \/ Leave(h, unlocked, e.rows \ drop, LockStmt(p, FALSE))
      \/ Leave(h, e.mem, e.rows, NoStmt)
      \/ Leave(h, locked, e.rows, LockStmt(p, TRUE)) /\ (p \in e.mem.locked \/ e.mem.procs[p] # {})
      \/ Leave(h, locked, e.rows \cup {new}, LockStmt(p, TRUE))
  BY DEF Lock, Unlock
<1> HIDE DEF e
<1>3. /\ locked.procs = e.mem.procs /\ locked.locked = e.mem.locked \cup {p}
      /\ unlocked.procs = e.mem.procs /\ unlocked.locked = e.mem.locked \ {p}
  BY <1>1 DEF Memory
<1>4. new \in RowSet /\ new.pkg = p /\ new.proc = EmptyName
  BY DEF Row, RowSet
<1> HIDE DEF locked, unlocked, new
<1>5. CASE Leave(h, unlocked, e.rows \ drop, LockStmt(p, FALSE))
  <2>1. e.rows \ drop \in SUBSET RowSet
    BY <1>1
  <2>2. ProcsAgree(e.mem, e.rows \ drop)
    BY <1>1, EmptyNameAssumption DEF Agrees, ProcsAgree
  <2>3. \A q \in Pkgs : q # p =>
           (q \in unlocked.locked <=> \E r \in e.rows \ drop : r.pkg = q /\ r.locked = TRUE)
    BY <1>1, <1>3 DEF Agrees, LocksAgree
  <2> HIDE DEF drop
  <2>4. Agrees(unlocked, After(e.rows \ drop, LockStmt(p, FALSE)))
    BY <1>3, <2>1, <2>2, <2>3, UpdateSyncs
  <2>5. QED
    BY <1>1, <1>5, <2>4, LeaveSyncs
<1>6. CASE Leave(h, e.mem, e.rows, NoStmt)
  BY <1>1, <1>6, LeaveSyncs DEF After
<1>7. CASE /\ Leave(h, locked, e.rows, LockStmt(p, TRUE))
           /\ p \in e.mem.locked \/ e.mem.procs[p] # {}
  <2>1. \E r \in e.rows : r.pkg = p
    BY <1>1, <1>7 DEF Agrees, ProcsAgree, LocksAgree, Memory
  <2>2. \A q \in Pkgs : q # p =>
           (q \in locked.locked <=> \E r \in e.rows : r.pkg = q /\ r.locked = TRUE)
    BY <1>1, <1>3 DEF Agrees, LocksAgree
  <2>3. Agrees(locked, After(e.rows, LockStmt(p, TRUE)))
    BY <1>1, <1>3, <2>1, <2>2, UpdateSyncs DEF Agrees
  <2>4. QED
    BY <1>1, <1>7, <2>3, LeaveSyncs
<1>8. CASE Leave(h, locked, e.rows \cup {new}, LockStmt(p, TRUE))
  <2> DEFINE rs == e.rows \cup {new}
  <2>1. rs \in SUBSET RowSet /\ \E r \in rs : r.pkg = p
    BY <1>1, <1>4
  <2>2. ProcsAgree(e.mem, rs)
    BY <1>1, <1>4, EmptyNameAssumption DEF Agrees, ProcsAgree
  <2>3. \A q \in Pkgs : q # p =>
           (q \in locked.locked <=> \E r \in rs : r.pkg = q /\ r.locked = TRUE)
    BY <1>1, <1>3, <1>4 DEF Agrees, LocksAgree
  <2> HIDE DEF rs
  <2>4. Agrees(locked, After(rs, LockStmt(p, TRUE)))
    BY <1>3, <2>1, <2>2, <2>3, UpdateSyncs
  <2>5. QED
    BY <1>1, <1>8, <2>4, LeaveSyncs DEF rs
<1>9. QED
  BY <1>2, <1>5, <1>6, <1>7, <1>8

(* Loading and rescanning too. *)
LEMMA RescanSyncs ==
    ASSUME DenyInv, SyncInv, Orderly, NEW h \in Handlers,
           LsList(h) \/ IsDenyTarget(h) \/ ZygoteRestart(h)
    PROVE  SyncInv'
<1> DEFINE e == Ensured
           s == Scan(e.mem, e.rows)
<1>1. Quiet /\ Agrees(e.mem, e.rows) /\ e.mem \in Memory /\ e.rows \in SUBSET RowSet
  BY EnsuredAgrees, EnsuredKeeps
  DEF LsList, IsDenyTarget, ZygoteRestart, Free, Orderly, GoodMem, GoodRows
<1>2. Leave(h, s.mem, s.rows, NoStmt) \/ Leave(h, e.mem, e.rows, NoStmt)
  BY DEF LsList, IsDenyTarget, ZygoteRestart, Ensured
<1> HIDE DEF e
<1>3. Agrees(s.mem, s.rows)
  BY <1>1, ScanAgrees DEF DenyInv
<1> HIDE DEF s
<1>4. QED
  BY <1>1, <1>2, <1>3, LeaveSyncs DEF After

(* The statement owed is executed, as no statement fails. *)
LEMMA DbExecSyncs ==
    ASSUME DenyInv, SyncInv, Orderly, NEW h \in Handlers, DbExec(h)
    PROVE  SyncInv'
<1>1. rows' = Executed(rows, pending[h]) /\ mem' = mem
  BY DEF DbExec, DenyInv, EnvOK, Orderly
<1>2. \A g \in Handlers : pending'[g] = NoStmt
  BY DEF DbExec, DenyInv, SyncInv
<1>3. mem.loaded => Agrees(mem, rows')
  BY <1>1 DEF DbExec, SyncInv
<1>4. QED
  BY <1>1, <1>2, <1>3 DEF SyncInv, Agrees, ProcsAgree, LocksAgree

(* Every step keeps them in agreement. *)
LEMMA SyncNext ==
    ASSUME DenyInv, SyncInv, [Next]_vars
    PROVE  SyncInv'
<1>1. CASE ~Orderly
  <2>1. use' = use
    <3>1. \A h, m, rs, s : Leave(h, m, rs, s) => use' = use
      BY DEF Leave, Env
    <3>2. ASSUME NEW h \in Handlers, Request(h) PROVE use' = use
      BY <3>1, <3>2, Zenon DEF Request, AddList, RmList, Lock, Unlock, LsList, IsDenyTarget, ZygoteRestart
    <3>3. QED
      BY <3>2 DEF Next, DbExec, Restart, AppChange, vars
  <2>2. QED
    BY <1>1, <2>1 DEF SyncInv, Orderly
<1>2. CASE Orderly /\ \E h \in Handlers : Request(h) \/ DbExec(h)
  BY <1>2, AddSyncs, RmSyncs, LockSyncs, RescanSyncs, DbExecSyncs DEF Request
<1>3. CASE Restart
  BY <1>3 DEF Restart, Unloaded, SyncInv
<1>4. CASE (\E p \in Pkgs : AppChange(p)) \/ UNCHANGED vars
  <2>1. UNCHANGED <<mem, rows, pending, use>>
    BY <1>4 DEF AppChange, vars
  <2>2. Orderly' = Orderly /\ Quiet' = Quiet
    BY <2>1 DEF Orderly, Quiet
  <2>3. QED
    BY <2>1, <2>2 DEF SyncInv
<1>5. QED
  BY <1>1, <1>2, <1>3, <1>4 DEF Next

(* add_list, rm_list and set_locked "persist" what they change: without      *)
(* overlapping requests and failing statements, memory and table agree       *)
(* whenever no request is under way, so a restart changes nothing.           *)
THEOREM MemAlwaysMatchesTable == Spec => []MemMatchesTable
<1>1. Init => SyncInv
  BY DEF Init, SyncInv, Unloaded
<1>2. DenyInv /\ SyncInv => MemMatchesTable
  <2> SUFFICES ASSUME DenyInv, SyncInv, Orderly, mem.loaded, Quiet
               PROVE  mem.procs = Load(rows).procs /\ mem.locked = Load(rows).locked
    BY DEF MemMatchesTable, Orderly
  <2>1. Agrees(mem, rows) /\ mem \in Memory /\ rows \subseteq RowSet
    BY UnloadedTyped DEF SyncInv, DenyInv, GoodMem, GoodRows
  <2>2. mem.locked = {p \in Pkgs : \E r \in rows : r.pkg = p /\ r.locked}
    BY <2>1 DEF Agrees, LocksAgree, Memory, RowSet
  <2>3. mem.procs = [p \in Pkgs |-> {c \in Procs : \E r \in rows : r.pkg = p /\ r.proc = c}]
    BY <2>1 DEF Agrees, ProcsAgree, Memory
  <2>4. QED
    BY <2>2, <2>3 DEF Load
<1>3. QED
  BY <1>1, <1>2, DenyInit, DenyNext, SyncNext, PTL DEF Spec
=============================================================================
