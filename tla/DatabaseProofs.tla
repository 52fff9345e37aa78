--------------------------- MODULE DatabaseProofs ---------------------------
(* Proofs about Database for every set of versions devices come with and any *)
(* number of power failures.                                                 *)
EXTENDS Database, TLAPS

-----------------------------------------------------------------------------
(* Inductive invariant *)

Locked == HideColumns \cup {"locked"}
ColumnNames == KeyValue \cup Locked \cup PolicyColumns \cup {"time"}
Files == [ver : Nat \ (1 .. 6), cols : [Tables -> SUBSET ColumnNames], settings : [Rows -> Int], deny : SUBSET {"app"}]

(* What the version in a file says of its tables, whatever migrations were   *)
(* begun on it.                                                              *)
Held(d) ==
    /\ d \in Files
    /\ d.cols["settings"] = KeyValue \/ (d.ver = 0 /\ d.cols["settings"] = {})
    /\ d.cols["strings"] = KeyValue \/ (d.ver = 0 /\ d.cols["strings"] = {})
    /\ \/ d.cols["denylist"] = Locked
       \/ d.ver < 13 /\ d.cols["denylist"] = {}
       \/ d.ver \in 1 .. 12 /\ d.cols["denylist"] = HideColumns
    /\ d.ver \notin 1 .. 9 => d.cols["logs"] = {}
    /\ d.ver \notin 1 .. 10 => d.cols["hidelist"] = {}
    /\ d.ver \notin 1 .. 14 => d.cols["policies"] = {}

(* What it says of the rows.                                                 *)
Keeps(d, w) == /\ \A k \in Keys : Row(d, k) = w.settings[k]
               /\ d.deny = w.deny

(* Statement j of the migration from n comes before statement i of v.        *)
Past(v, i, n, j) == v > n \/ (v = n /\ i > j)

(* What the statements before statement i of v have established, since       *)
(* open_and_init_db began.                                                   *)
Reached(v, i, d) ==
    /\ d.ver <= v /\ (d.ver = 0 => v \in {0, 15})
    /\ Past(v, i, 0, 1) => d.cols["settings"] = KeyValue
    /\ Past(v, i, 0, 2) => d.cols["strings"] = KeyValue
    /\ d.ver = 0 /\ Past(v, i, 0, 3) => d.cols["denylist"] = Locked
    /\ Past(v, i, 9, 1) => d.cols["logs"] = {}
    /\ Past(v, i, 10, 1) => d.cols["hidelist"] = {}
    /\ Past(v, i, 12, 2) => d.cols["denylist"] = Locked
    /\ Past(v, i, 14, 1) => d.cols["policies"] = {}

RunInv ==
    /\ dver \in {0} \cup 7 .. 15 /\ dstep \in 1 .. Len(Migration(dver)) + 1
    /\ tx.ver = db.ver /\ Reached(dver, dstep, tx)

DbInv ==
    /\ wanted.settings \in [Keys -> Int] /\ wanted = [settings |-> wanted.settings, deny |-> wanted.deny]
    /\ conn \in BOOLEAN /\ cuts \in Nat /\ origin \in DbVersions
    /\ Held(db) /\ Keeps(db, wanted) /\ Held(tx) /\ Keeps(tx, wanted)
    /\ dpc = "migrate" => RunInv /\ ~conn
    /\ dpc # "migrate" => tx = db
    /\ conn => db.ver = DB_VERSION

(* No migration was interrupted, and none began below version 11.            *)
Recent == origin \notin 7 .. 10 /\ cuts = 0

(* The columns statement i of v and those after it rely on.                  *)
Ready(v, i, d) ==
    LET policies == d.cols["policies"]
        denylist == d.cols["denylist"]
    IN  /\ d.ver \notin 7 .. 10
        /\ v = 11 /\ i = 1 => PolicyColumns \subseteq policies /\ denylist = HideColumns
        /\ (v = 11 /\ i = 2) \/ (v = 12 /\ i = 1) => policies = PolicyColumns /\ denylist = HideColumns
        /\ v = 12 /\ i = 2 => policies = PolicyColumns \cup {"locked"} /\ denylist = HideColumns
        /\ (v = 12 /\ i = 3) \/ (v = 13 /\ i = 1) => policies = PolicyColumns \cup {"locked"}

RecentInv ==
    Recent =>
      /\ opened # "failed"
      /\ dpc # "migrate" /\ ~conn => db = Released(origin)
      /\ dpc = "migrate" => Ready(dver, dstep, tx)

-----------------------------------------------------------------------------
(* Statements *)

(* e is d with the columns N for the table t, and no setting changed.        *)
Sets(d, e, t, N) ==
    /\ e \in Files /\ e.ver = d.ver /\ e.deny = d.deny
    /\ e.cols = [d.cols EXCEPT ![t] = N]
    /\ \A k \in Keys : Row(e, k) = Row(d, k)

(* CREATE TABLE IF NOT EXISTS is always accepted, and leaves a table that is *)
(* there as it is.                                                           *)
LEMMA CreateMakes ==
    ASSUME NEW d \in Files, NEW t \in Tables, NEW cs \in SUBSET ColumnNames
    PROVE  /\ Accepts(d, CreateTable(t, cs))
           /\ Sets(d, Effect(d, CreateTable(t, cs)), t, IF d.cols[t] = {} THEN cs ELSE d.cols[t])
<1> DEFINE s == CreateTable(t, cs)
<1>1. s.op = "create" /\ s.table = t /\ s.cols = cs
  BY DEF CreateTable, Statement
<1> HIDE DEF s
<1>2. Deleted(s) = {}
  BY <1>1 DEF Deleted
<1>3. Columns(d, s) = [d.cols EXCEPT ![t] = IF d.cols[t] = {} THEN cs ELSE d.cols[t]]
  BY <1>1 DEF Columns
<1>4. Columns(d, s) \in [Tables -> SUBSET ColumnNames]
  BY <1>3 DEF Files
<1>5. Effect(d, s) = [ver |-> d.ver, cols |-> Columns(d, s),
                      settings |-> [k \in Rows |-> d.settings[k]], deny |-> d.deny]
  BY <1>1, <1>2 DEF Effect
<1>6. Sets(d, Effect(d, s), t, IF d.cols[t] = {} THEN cs ELSE d.cols[t])
  BY <1>3, <1>4, <1>5 DEF Sets, Files, Row, Rows
<1>7. Accepts(d, s)
  BY <1>1 DEF Accepts
<1> QED
  BY <1>6, <1>7 DEF s

(* DROP TABLE IF EXISTS is always accepted; the settings and the denylist    *)
(* are in other tables.                                                      *)
LEMMA DropMakes ==
    ASSUME NEW d \in Files, NEW t \in Tables \ {"settings", "denylist"}
    PROVE  /\ Accepts(d, DropTable(t))
           /\ Sets(d, Effect(d, DropTable(t)), t, {})
<1> DEFINE s == DropTable(t)
<1>1. s.op = "drop" /\ s.table = t
  BY DEF DropTable, Statement
<1> HIDE DEF s
<1>2. Deleted(s) = {}
  BY <1>1 DEF Deleted
<1>3. Columns(d, s) = [d.cols EXCEPT ![t] = {}]
  BY <1>1 DEF Columns
<1>4. Columns(d, s) \in [Tables -> SUBSET ColumnNames]
  BY <1>3 DEF Files
<1>5. Effect(d, s) = [ver |-> d.ver, cols |-> Columns(d, s),
                      settings |-> [k \in Rows |-> d.settings[k]], deny |-> d.deny]
  BY <1>1, <1>2 DEF Effect
<1>6. Sets(d, Effect(d, s), t, {})
  BY <1>3, <1>4, <1>5 DEF Sets, Files, Row, Rows
<1>7. Accepts(d, s)
  BY <1>1 DEF Accepts
<1> QED
  BY <1>6, <1>7 DEF s

(* ALTER TABLE ADD COLUMN needs the table, without the column; inside a      *)
(* transaction or not, it adds the column.                                   *)
LEMMA AddMakes ==
    ASSUME NEW d \in Files, NEW t \in Tables, NEW c \in ColumnNames, NEW s,
           s \in {AddColumn(t, c), Within(AddColumn(t, c))}
    PROVE  /\ Accepts(d, s) <=> d.cols[t] # {} /\ c \notin d.cols[t]
           /\ Sets(d, Effect(d, s), t, d.cols[t] \cup {c})
<1>1. s.op = "add" /\ s.table = t /\ s.cols = {c}
  BY DEF AddColumn, Statement, Within
<1>2. Deleted(s) = {}
  BY <1>1 DEF Deleted
<1>3. Columns(d, s) = [d.cols EXCEPT ![t] = d.cols[t] \cup {c}]
  BY <1>1 DEF Columns
<1>4. Columns(d, s) \in [Tables -> SUBSET ColumnNames]
  BY <1>3 DEF Files
<1>5. Effect(d, s) = [ver |-> d.ver, cols |-> Columns(d, s),
                      settings |-> [k \in Rows |-> d.settings[k]], deny |-> d.deny]
  BY <1>1, <1>2 DEF Effect
<1>6. Sets(d, Effect(d, s), t, d.cols[t] \cup {c})
  BY <1>3, <1>4, <1>5 DEF Sets, Files, Row, Rows
<1>7. Accepts(d, s) <=> d.cols[t] # {} /\ c \notin d.cols[t]
  BY <1>1 DEF Accepts
<1> QED
  BY <1>6, <1>7

(* A table that is rebuilt needs the columns that are copied, and has the    *)
(* new ones.                                                                 *)
LEMMA RebuildMakes ==
    ASSUME NEW d \in Files, NEW t \in Tables, NEW select, NEW cs \in SUBSET ColumnNames
    PROVE  /\ Accepts(d, Rebuild(t, select, cs)) <=> d.cols[t] # {} /\ select \subseteq d.cols[t]
           /\ Sets(d, Effect(d, Rebuild(t, select, cs)), t, cs)
<1> DEFINE s == Rebuild(t, select, cs)
<1>1. s.op = "rebuild" /\ s.table = t /\ s.cols = cs /\ s.select = select
  BY DEF Rebuild, Statement
<1> HIDE DEF s
<1>2. Deleted(s) = {}
  BY <1>1 DEF Deleted
<1>3. Columns(d, s) = [d.cols EXCEPT ![t] = cs]
  BY <1>1 DEF Columns
<1>4. Columns(d, s) \in [Tables -> SUBSET ColumnNames]
  BY <1>3 DEF Files
<1>5. Effect(d, s) = [ver |-> d.ver, cols |-> Columns(d, s),
                      settings |-> [k \in Rows |-> d.settings[k]], deny |-> d.deny]
  BY <1>1, <1>2 DEF Effect
<1>6. Sets(d, Effect(d, s), t, cs)
  BY <1>3, <1>4, <1>5 DEF Sets, Files, Row, Rows
<1>7. Accepts(d, s) <=> d.cols[t] # {} /\ select \subseteq d.cols[t]
  BY <1>1 DEF Accepts
<1> QED
  BY <1>6, <1>7 DEF s

(* DELETE FROM settings needs the table, and spares the settings in use.     *)
LEMMA DeleteMakes ==
    ASSUME NEW d \in Files, NEW ks \in SUBSET (Rows \ Keys)
    PROVE  /\ Accepts(d, DeleteKeys(ks)) <=> d.cols["settings"] # {}
           /\ Sets(d, Effect(d, DeleteKeys(ks)), "settings", d.cols["settings"])
<1> DEFINE s == DeleteKeys(ks)
           e == Effect(d, s)
<1>1. s.op = "delete" /\ s.table = "settings" /\ s.cols = ks
  BY DEF DeleteKeys, Statement
<1> HIDE DEF s
<1>2. Deleted(s) = ks
  BY <1>1 DEF Deleted
<1>3. Columns(d, s) = [d.cols EXCEPT !["settings"] = d.cols["settings"]]
  BY <1>1 DEF Columns
<1>4. Columns(d, s) \in [Tables -> SUBSET ColumnNames]
  BY <1>3 DEF Files, Tables
<1>5. e = [ver |-> d.ver, cols |-> Columns(d, s),
           settings |-> [k \in Rows |-> IF k \in ks THEN NoRow ELSE d.settings[k]], deny |-> d.deny]
  BY <1>1, <1>2 DEF Effect
<1>6. e \in Files /\ e.ver = d.ver /\ e.deny = d.deny
  BY <1>4, <1>5 DEF Files, NoRow
<1>7. \A k \in Keys : Row(e, k) = Row(d, k)
  BY <1>5 DEF Row, Rows
<1>8. Sets(d, e, "settings", d.cols["settings"])
  BY <1>3, <1>5, <1>6, <1>7 DEF Sets
<1>9. Accepts(d, s) <=> d.cols["settings"] # {}
  BY <1>1 DEF Accepts
<1> QED
  BY <1>8, <1>9 DEF s

(* The statements of the migrations.                                         *)
Listed(v, i, s) ==
    \/ v = 0 /\ i = 1 /\ s = CreateTable("settings", KeyValue)
    \/ v = 0 /\ i = 2 /\ s = CreateTable("strings", KeyValue)
    \/ v = 0 /\ i = 3 /\ s = CreateTable("denylist", Locked)
    \/ v = 7 /\ i = 1 /\ s = Rebuild("hidelist", {"process"}, HideColumns)
    \/ v = 8 /\ i = 1 /\ s = Rebuild("hidelist", HideColumns, HideColumns)
    \/ v = 9 /\ i = 1 /\ s = DropTable("logs")
    \/ v = 10 /\ i = 1 /\ s = DropTable("hidelist")
    \/ v = 10 /\ i = 2 /\ s = DeleteKeys({"magiskhide"})
    \/ v = 10 /\ i = 3 /\ s = CreateTable("denylist", Locked)
    \/ v = 11 /\ i = 1 /\ s = Rebuild("policies", PolicyColumns, PolicyColumns)
    \/ v = 12 /\ i = 1 /\ s = Within(AddColumn("policies", "locked"))
    \/ v = 12 /\ i = 2 /\ s = AddColumn("denylist", "locked")
    \/ v = 13 /\ i = 1 /\ s = AddColumn("policies", "package_name")
    \/ v = 14 /\ i = 1 /\ s = DropTable("policies")
    \/ v = 14 /\ i = 2 /\ s = DeleteKeys({"root_access", "multiuser_mode", "su_biometric"})

(* They are what open_and_init_db runs.                                      *)
LEMMA StatementAt ==
    ASSUME NEW v \in {0} \cup 7 .. 15, NEW i \in 1 .. Len(Migration(v))
    PROVE  Listed(v, i, Migration(v)[i])
<1>1. CASE v = 0
  BY <1>1 DEF Listed, Migration, CreateDenylist, Locked
<1>2. CASE v \in 7 .. 9
  BY <1>2 DEF Listed, Migration
<1>3. CASE v = 10
  BY <1>3 DEF Listed, Migration, CreateDenylist, Locked
<1>4. CASE v \in 11 .. 13
  BY <1>4 DEF Listed, Migration, RebuildPolicies
<1>5. CASE v = 14
  BY <1>5 DEF Listed, Migration
<1>6. CASE v = 15
  BY <1>6 DEF Listed, Migration
<1> QED
  BY <1>1, <1>2, <1>3, <1>4, <1>5, <1>6

(* Where each migration ends, and where it leads.                            *)
LEMMA MigrationLength ==
    ASSUME NEW v \in {0} \cup 7 .. 15
    PROVE  /\ Len(Migration(v)) = CASE v \in {0, 10} -> 3 [] v \in {12, 14} -> 2 [] v = 15 -> 0 [] OTHER -> 1
           /\ v # 15 => NextVersion(v) = CASE v \in {0, 14} -> 15 [] v \in {7, 8} -> 9 [] OTHER -> v + 1
<1>1. v = 0 => Len(Migration(v)) = 3
  BY DEF Migration
<1>2. v = 10 => Len(Migration(v)) = 3
  BY DEF Migration
<1>3. v = 12 => Len(Migration(v)) = 2
  BY DEF Migration
<1>4. v = 14 => Len(Migration(v)) = 2
  BY DEF Migration
<1>5. v = 15 => Len(Migration(v)) = 0
  BY DEF Migration
<1>6. v \in {7, 8, 9, 11, 13} => Len(Migration(v)) = 1
  BY DEF Migration
<1>7. v # 15 => NextVersion(v) = CASE v \in {0, 14} -> 15 [] v \in {7, 8} -> 9 [] OTHER -> v + 1
  BY DEF NextVersion, DB_VERSION
<1> QED
  BY <1>1, <1>2, <1>3, <1>4, <1>5, <1>6, <1>7

(* e keeps what the version in d promises, and has reached statement i of v. *)
Follows(v, i, d, e) ==
    /\ Held(e) /\ Reached(v, i, e) /\ e.ver = d.ver /\ e.deny = d.deny
    /\ \A k \in Keys : Row(e, k) = Row(d, k)

(* An accepted statement keeps what the version in the file promises, and    *)
(* establishes its part of the current schema.                               *)
LEMMA StatementKeeps ==
    ASSUME NEW v \in {0} \cup 7 .. 15, NEW i \in 1 .. Len(Migration(v)), NEW d, NEW s, NEW e,
           s = Migration(v)[i], e = Effect(d, s),
           Held(d), Reached(v, i, d), Accepts(d, s)
    PROVE  Follows(v, i + 1, d, e)
<1> DEFINE Kept(t, N) == /\ e.cols["settings"] = IF t = "settings" THEN N ELSE d.cols["settings"]
                         /\ e.cols["strings"] = IF t = "strings" THEN N ELSE d.cols["strings"]
                         /\ e.cols["denylist"] = IF t = "denylist" THEN N ELSE d.cols["denylist"]
                         /\ e.cols["hidelist"] = IF t = "hidelist" THEN N ELSE d.cols["hidelist"]
                         /\ e.cols["policies"] = IF t = "policies" THEN N ELSE d.cols["policies"]
                         /\ e.cols["logs"] = IF t = "logs" THEN N ELSE d.cols["logs"]
                         /\ e \in Files /\ e.ver = d.ver /\ e.deny = d.deny
                         /\ \A k \in Keys : Row(e, k) = Row(d, k)
<1>1. d \in Files /\ d.cols \in [Tables -> SUBSET ColumnNames] /\ d.ver \in Nat
  BY DEF Held, Files
<1>2. ASSUME NEW t \in Tables, NEW N, Sets(d, e, t, N)
      PROVE  Kept(t, N)
  <2>1. \A u \in Tables : e.cols[u] = IF t = u THEN N ELSE d.cols[u]
    BY <1>1, <1>2 DEF Sets
  <2> QED
    BY <1>2, <2>1 DEF Sets, Tables
<1>3. \A c \in {KeyValue, HideColumns, Locked, PolicyColumns} : c \in SUBSET ColumnNames
  BY DEF ColumnNames, Locked
<1>4. {"locked", "package_name"} \subseteq ColumnNames
  BY DEF ColumnNames, Locked, HideColumns
<1>5. KeyValue # {} /\ HideColumns # {} /\ Locked # {} /\ "locked" \in Locked
  BY DEF KeyValue, HideColumns, Locked
<1>5a. \A w \in 7 .. 14 : v = w => d.ver \in 1 .. w
  BY <1>1 DEF Reached
<1>6. CASE v = 0 /\ i = 1 /\ s = CreateTable("settings", KeyValue)
  <2>0. Sets(d, e, "settings", IF d.cols["settings"] = {} THEN KeyValue ELSE d.cols["settings"])
    BY <1>1, <1>3, <1>6, CreateMakes DEF Tables
  <2>1. Kept("settings", IF d.cols["settings"] = {} THEN KeyValue ELSE d.cols["settings"])
    BY <1>2, <2>0 DEF Tables
  <2>8. Held(e)
    BY <1>1, <1>5, <1>6, <2>1 DEF Held, Reached, Past
  <2>9. Reached(v, i + 1, e)
    BY <1>1, <1>5, <1>6, <2>1 DEF Held, Reached, Past
  <2> QED
    BY <2>8, <2>9, <2>1 DEF Follows
<1>7. CASE v = 0 /\ i = 2 /\ s = CreateTable("strings", KeyValue)
  <2>0. Sets(d, e, "strings", IF d.cols["strings"] = {} THEN KeyValue ELSE d.cols["strings"])
    BY <1>1, <1>3, <1>7, CreateMakes DEF Tables
  <2>1. Kept("strings", IF d.cols["strings"] = {} THEN KeyValue ELSE d.cols["strings"])
    BY <1>2, <2>0 DEF Tables
  <2>8. Held(e)
    BY <1>1, <1>5, <1>7, <2>1 DEF Held, Reached, Past
  <2>9. Reached(v, i + 1, e)
    BY <1>1, <1>5, <1>7, <2>1 DEF Held, Reached, Past
  <2> QED
    BY <2>8, <2>9, <2>1 DEF Follows
<1>8. CASE v = 0 /\ i = 3 /\ s = CreateTable("denylist", Locked)
  <2>0. Sets(d, e, "denylist", IF d.cols["denylist"] = {} THEN Locked ELSE d.cols["denylist"])
    BY <1>1, <1>3, <1>8, CreateMakes DEF Tables
  <2>1. Kept("denylist", IF d.cols["denylist"] = {} THEN Locked ELSE d.cols["denylist"])
    BY <1>2, <2>0 DEF Tables
  <2>8. Held(e)
    BY <1>1, <1>5, <1>8, <2>1 DEF Held, Reached, Past
  <2>9. Reached(v, i + 1, e)
    BY <1>1, <1>5, <1>8, <2>1 DEF Held, Reached, Past
  <2> QED
    BY <2>8, <2>9, <2>1 DEF Follows
<1>9. CASE v \in {7, 8} /\ i = 1 /\ s \in {Rebuild("hidelist", {"process"}, HideColumns),
                                           Rebuild("hidelist", HideColumns, HideColumns)}
  <2>0. Sets(d, e, "hidelist", HideColumns)
    BY <1>1, <1>3, <1>9, RebuildMakes DEF Tables
  <2>1. Kept("hidelist", HideColumns)
    BY <1>2, <2>0 DEF Tables
  <2>7. d.ver \in 1 .. 8
    BY <1>1, <1>9 DEF Reached
  <2>8. Held(e)
    BY <2>7, <2>1 DEF Held
  <2>9. Reached(v, i + 1, e)
    BY <1>1, <1>9, <2>1 DEF Held, Reached, Past
  <2> QED
    BY <2>8, <2>9, <2>1 DEF Follows
<1>10. CASE v = 9 /\ i = 1 /\ s = DropTable("logs")
  <2>1. Kept("logs", {})
    BY <1>1, <1>2, <1>10, DropMakes DEF Tables
  <2>8. Held(e)
    BY <1>1, <1>10, <2>1 DEF Held, Reached, Past
  <2>9. Reached(v, i + 1, e)
    BY <1>1, <1>10, <2>1 DEF Held, Reached, Past
  <2> QED
    BY <2>8, <2>9, <2>1 DEF Follows
<1>11. CASE v = 10 /\ i = 1 /\ s = DropTable("hidelist")
  <2>1. Kept("hidelist", {})
    BY <1>1, <1>2, <1>11, DropMakes DEF Tables
  <2>8. Held(e)
    BY <1>1, <1>11, <2>1 DEF Held, Reached, Past
  <2>9. Reached(v, i + 1, e)
    BY <1>1, <1>11, <2>1 DEF Held, Reached, Past
  <2> QED
    BY <2>8, <2>9, <2>1 DEF Follows
<1>12. CASE v = 10 /\ i = 3 /\ s = CreateTable("denylist", Locked)
  <2>0. Sets(d, e, "denylist", IF d.cols["denylist"] = {} THEN Locked ELSE d.cols["denylist"])
    BY <1>1, <1>3, <1>12, CreateMakes DEF Tables
  <2>1. Kept("denylist", IF d.cols["denylist"] = {} THEN Locked ELSE d.cols["denylist"])
    BY <1>2, <2>0 DEF Tables
  <2>8. Held(e)
    BY <1>1, <1>5, <1>12, <2>1 DEF Held, Reached, Past
  <2>9. Reached(v, i + 1, e)
    BY <1>1, <1>5, <1>12, <2>1 DEF Held, Reached, Past
  <2> QED
    BY <2>8, <2>9, <2>1 DEF Follows
<1>13. CASE v = 11 /\ i = 1 /\ s = Rebuild("policies", PolicyColumns, PolicyColumns)
  <2>0. Sets(d, e, "policies", PolicyColumns)
    BY <1>1, <1>3, <1>13, RebuildMakes DEF Tables
  <2>1. Kept("policies", PolicyColumns)
    BY <1>2, <2>0 DEF Tables
  <2>7. d.ver \in 1 .. 11
    BY <1>13, <1>5a
  <2>8. Held(e)
    BY <2>7, <2>1 DEF Held
  <2>9. Reached(v, i + 1, e)
    BY <1>1, <1>13, <2>1 DEF Held, Reached, Past
  <2> QED
    BY <2>8, <2>9, <2>1 DEF Follows
<1>14. CASE \/ v = 12 /\ i = 1 /\ s = Within(AddColumn("policies", "locked"))
            \/ v = 13 /\ i = 1 /\ s = AddColumn("policies", "package_name")
  <2>1. PICK c \in ColumnNames : s \in {AddColumn("policies", c), Within(AddColumn("policies", c))}
    BY <1>4, <1>14
  <2>2. Sets(d, e, "policies", d.cols["policies"] \cup {c})
    BY <1>1, <2>1, AddMakes DEF Tables
  <2>3. Kept("policies", d.cols["policies"] \cup {c})
    BY <1>2, <2>2 DEF Tables
  <2>7. d.ver \in 1 .. 13
    BY <1>14, <1>5a
  <2>8. Held(e)
    BY <2>7, <2>3 DEF Held
  <2>9. Reached(v, i + 1, e)
    BY <1>1, <1>14, <2>3 DEF Held, Reached, Past
  <2> QED
    BY <2>8, <2>9, <2>3 DEF Follows
<1>15. CASE v = 12 /\ i = 2 /\ s = AddColumn("denylist", "locked")
  <2>0. /\ Sets(d, e, "denylist", d.cols["denylist"] \cup {"locked"})
        /\ d.cols["denylist"] # {} /\ "locked" \notin d.cols["denylist"]
    BY <1>1, <1>4, <1>15, AddMakes DEF Tables
  <2>1. Kept("denylist", d.cols["denylist"] \cup {"locked"})
    BY <1>2, <2>0 DEF Tables
  <2>2. e.cols["denylist"] = Locked
    BY <1>5, <2>0, <2>1 DEF Held, Locked
  <2>8. Held(e)
    BY <1>1, <1>15, <2>1, <2>2 DEF Held, Reached, Past
  <2>9. Reached(v, i + 1, e)
    BY <1>1, <1>15, <2>1, <2>2 DEF Held, Reached, Past
  <2> QED
    BY <2>8, <2>9, <2>1 DEF Follows
<1>16. CASE v = 14 /\ i = 1 /\ s = DropTable("policies")
  <2>1. Kept("policies", {})
    BY <1>1, <1>2, <1>16, DropMakes DEF Tables
  <2>8. Held(e)
    BY <1>1, <1>16, <2>1 DEF Held, Reached, Past
  <2>9. Reached(v, i + 1, e)
    BY <1>1, <1>16, <2>1 DEF Held, Reached, Past
  <2> QED
    BY <2>8, <2>9, <2>1 DEF Follows
<1>17. CASE v \in {10, 14} /\ i = 2 /\ s \in {DeleteKeys({"magiskhide"}),
                                             DeleteKeys({"root_access", "multiuser_mode", "su_biometric"})}
  <2>1. {"magiskhide"} \in SUBSET (Rows \ Keys) /\ {"root_access", "multiuser_mode", "su_biometric"} \in SUBSET (Rows \ Keys)
    BY DEF Rows, Keys
  <2>2. Kept("settings", d.cols["settings"])
    BY <1>1, <1>2, <1>17, <2>1, DeleteMakes DEF Tables
  <2>8. Held(e)
    BY <1>1, <1>17, <2>2 DEF Held, Reached, Past
  <2>9. Reached(v, i + 1, e)
    BY <1>1, <1>17, <2>2 DEF Held, Reached, Past
  <2> QED
    BY <2>8, <2>9, <2>2 DEF Follows
<1>18. Listed(v, i, s)
  BY StatementAt
<1> QED
  BY <1>6, <1>7, <1>8, <1>9, <1>10, <1>11, <1>12, <1>13, <1>14, <1>15, <1>16, <1>17, <1>18 DEF Listed

(* On a recent database no statement is refused: every table is there, and   *)
(* no column is added twice.                                                 *)
LEMMA StatementAccepted ==
    ASSUME NEW v \in {0} \cup 7 .. 15, NEW i \in 1 .. Len(Migration(v)), NEW d, NEW s, NEW e,
           s = Migration(v)[i], e = Effect(d, s),
           Held(d), Reached(v, i, d), Ready(v, i, d)
    PROVE  Accepts(d, s) /\ Ready(v, i + 1, e)
<1>1. d \in Files /\ d.cols \in [Tables -> SUBSET ColumnNames] /\ d.ver \in Nat \ (1 .. 6)
  BY DEF Held, Files
<1>2. v = 0 \/ v \in 11 .. 15
  <2>1. d.ver \notin 7 .. 10
    BY DEF Ready
  <2>2. d.ver = 0 \/ d.ver > 10
    <3>1. \A n \in Nat \ (1 .. 6) : n \notin 7 .. 10 => n = 0 \/ n > 10
      OBVIOUS
    <3> QED
      BY <1>1, <2>1, <3>1
  <2>3. d.ver <= v /\ (d.ver = 0 => v = 0 \/ v = 15)
    BY DEF Reached
  <2> QED
    BY <1>1, <2>2, <2>3
<1>3. ASSUME NEW t \in Tables, NEW N, Sets(d, e, t, N)
      PROVE  /\ \A u \in Tables \ {t} : e.cols[u] = d.cols[u]
             /\ e.cols[t] = N /\ e.ver = d.ver
  BY <1>1, <1>3 DEF Sets, Files
<1>4. PolicyColumns \in SUBSET ColumnNames /\ PolicyColumns # {} /\ HideColumns # {}
  BY DEF ColumnNames, PolicyColumns, HideColumns
<1>5. "locked" \notin PolicyColumns /\ "locked" \notin HideColumns
      /\ "package_name" \notin PolicyColumns \cup {"locked"} /\ {"locked", "package_name"} \subseteq ColumnNames
  BY DEF PolicyColumns, HideColumns, ColumnNames, Locked
<1>6. CASE v = 0
  <2>0. \/ s = CreateTable("settings", KeyValue) \/ s = CreateTable("strings", KeyValue)
        \/ s = CreateTable("denylist", Locked)
    <3>1. Listed(v, i, s)
      BY StatementAt
    <3> QED
      BY <1>6, <3>1 DEF Listed
  <2>1. PICK t \in Tables, cs \in SUBSET ColumnNames : s = CreateTable(t, cs)
    <3>1. {"settings", "strings", "denylist"} \subseteq Tables
      BY DEF Tables
    <3>2. KeyValue \in SUBSET ColumnNames /\ Locked \in SUBSET ColumnNames
      BY DEF ColumnNames
    <3> QED
      BY <2>0, <3>1, <3>2
  <2>2. Accepts(d, s) /\ Sets(d, e, t, IF d.cols[t] = {} THEN cs ELSE d.cols[t])
    BY <1>1, <2>1, CreateMakes
  <2>3. e.ver = d.ver
    BY <2>2 DEF Sets
  <2> QED
    BY <1>6, <2>2, <2>3 DEF Ready
<1>7. CASE v = 11
  <2>1. i = 1 /\ s = Rebuild("policies", PolicyColumns, PolicyColumns)
    BY StatementAt, <1>7 DEF Listed
  <2>2. PolicyColumns \subseteq d.cols["policies"] /\ d.cols["denylist"] = HideColumns
    BY <1>7, <2>1 DEF Ready
  <2>3. Accepts(d, s) /\ Sets(d, e, "policies", PolicyColumns)
    BY <1>1, <1>4, <2>1, <2>2, RebuildMakes DEF Tables
  <2>4. e.cols["policies"] = PolicyColumns /\ e.cols["denylist"] = HideColumns /\ e.ver = d.ver
    BY <1>3, <2>2, <2>3 DEF Tables
  <2> QED
    BY <1>7, <2>1, <2>3, <2>4 DEF Ready
<1>8. CASE v = 12 /\ i = 1
  <2>1. s = Within(AddColumn("policies", "locked"))
    BY StatementAt, <1>8 DEF Listed
  <2>2. d.cols["policies"] = PolicyColumns /\ d.cols["denylist"] = HideColumns
    BY <1>8 DEF Ready
  <2>3. Accepts(d, s) /\ Sets(d, e, "policies", PolicyColumns \cup {"locked"})
    BY <1>1, <1>4, <1>5, <2>1, <2>2, AddMakes DEF Tables
  <2>4. /\ e.cols["policies"] = PolicyColumns \cup {"locked"}
        /\ e.cols["denylist"] = HideColumns /\ e.ver = d.ver
    BY <1>3, <2>2, <2>3 DEF Tables
  <2> QED
    BY <1>8, <2>3, <2>4 DEF Ready
<1>9. CASE v = 12 /\ i = 2
  <2>1. s = AddColumn("denylist", "locked")
    BY StatementAt, <1>9 DEF Listed
  <2>2. d.cols["policies"] = PolicyColumns \cup {"locked"} /\ d.cols["denylist"] = HideColumns
    BY <1>9 DEF Ready
  <2>3. Accepts(d, s) /\ Sets(d, e, "denylist", d.cols["denylist"] \cup {"locked"})
    BY <1>1, <1>4, <1>5, <2>1, <2>2, AddMakes DEF Tables
  <2>4. e.cols["policies"] = PolicyColumns \cup {"locked"} /\ e.ver = d.ver
    BY <1>3, <2>2, <2>3 DEF Tables
  <2> QED
    BY <1>9, <2>3, <2>4 DEF Ready
<1>10. CASE v = 13
  <2>1. i = 1 /\ s = AddColumn("policies", "package_name")
    BY StatementAt, <1>10 DEF Listed
  <2>2. d.cols["policies"] = PolicyColumns \cup {"locked"}
    BY <1>10, <2>1 DEF Ready
  <2>3. Accepts(d, s) /\ Sets(d, e, "policies", d.cols["policies"] \cup {"package_name"})
    BY <1>1, <1>5, <2>1, <2>2, AddMakes DEF Tables
  <2>4. e.ver = d.ver
    BY <2>3 DEF Sets
  <2> QED
    BY <1>10, <2>3, <2>4 DEF Ready
<1>11. CASE v = 14 /\ i = 1
  <2>1. s = DropTable("policies")
    BY StatementAt, <1>11 DEF Listed
  <2>2. Accepts(d, s) /\ Sets(d, e, "policies", {})
    BY <1>1, <2>1, DropMakes DEF Tables
  <2>3. e.ver = d.ver
    BY <2>2 DEF Sets
  <2> QED
    BY <1>11, <2>2, <2>3 DEF Ready
<1>12. CASE v = 14 /\ i = 2
  <2>1. s = DeleteKeys({"root_access", "multiuser_mode", "su_biometric"})
    BY StatementAt, <1>12 DEF Listed
  <2>2. {"root_access", "multiuser_mode", "su_biometric"} \in SUBSET (Rows \ Keys)
    BY DEF Rows, Keys
  <2>3. d.cols["settings"] # {}
    BY <1>12 DEF Reached, Past, KeyValue
  <2>4. Accepts(d, s) /\ Sets(d, e, "settings", d.cols["settings"])
    BY <1>1, <2>1, <2>2, <2>3, DeleteMakes
  <2>5. e.ver = d.ver
    BY <2>4 DEF Sets
  <2> QED
    BY <1>12, <2>4, <2>5 DEF Ready
<1>13. v # 12 \/ i \in {1, 2}
  BY MigrationLength
<1>14. v # 14 \/ i \in {1, 2}
  BY MigrationLength
<1>15. v # 15
  BY MigrationLength
<1> QED
  BY <1>2, <1>6, <1>7, <1>8, <1>9, <1>10, <1>11, <1>12, <1>13, <1>14, <1>15

-----------------------------------------------------------------------------
(* The invariant *)

(* A database that is not there promises nothing.                            *)
LEMMA NoFileHeld == Held(NoFile) /\ NoFile.ver = 0 /\ NoFile.deny = {} /\ \A k \in Keys : Row(NoFile, k) = 0
<1>1. NoFile.cols = [t \in Tables |-> {}] /\ NoFile.cols \in [Tables -> SUBSET ColumnNames]
  BY DEF NoFile
<1>2. NoFile \in Files
  BY <1>1 DEF NoFile, Files, NoRow
<1>3. \A t \in Tables : NoFile.cols[t] = {}
  BY <1>1
<1>4. Held(NoFile)
  <2>1. /\ NoFile.cols["settings"] = {} /\ NoFile.cols["strings"] = {} /\ NoFile.cols["denylist"] = {}
        /\ NoFile.cols["hidelist"] = {} /\ NoFile.cols["policies"] = {} /\ NoFile.cols["logs"] = {}
    BY <1>3 DEF Tables
  <2>2. NoFile.ver = 0
    BY DEF NoFile
  <2> QED
    BY <1>2, <2>1, <2>2 DEF Held
<1> QED
  BY <1>4 DEF NoFile, Row, Rows

(* A released database is as its version says.                               *)
LEMMA ReleasedHeld ==
    ASSUME NEW v \in Nat \ (1 .. 6)
    PROVE  Held(Released(v)) /\ Released(v).ver = v
<1>1. CASE v = 0
  BY <1>1, NoFileHeld DEF Released
<1>2. CASE v # 0
  <2> DEFINE C == ReleasedColumns(v)
  <2>1. Released(v).cols = C /\ Released(v).ver = v
    BY <1>2 DEF Released
  <2>2. C \in [Tables -> SUBSET ColumnNames]
    BY DEF ReleasedColumns, ColumnNames, Locked, HideColumns, PolicyColumns
  <2>3. Released(v) \in Files
    <3>1. Released(v).settings \in [Rows -> Int] /\ Released(v).deny \in SUBSET {"app"}
      BY <1>2 DEF Released, NoRow
    <3> QED
      BY <1>2, <2>1, <2>2, <3>1 DEF Released, Files
  <2>4. C["settings"] = KeyValue /\ C["strings"] = KeyValue
    BY DEF ReleasedColumns, Tables
  <2>5. C["denylist"] = IF v \in 11 .. 12 THEN HideColumns ELSE IF v >= 13 THEN Locked ELSE {}
    BY DEF ReleasedColumns, Tables, Locked
  <2>6. v \notin 7 .. 9 => C["logs"] = {}
    BY DEF ReleasedColumns, Tables
  <2>7. v \notin 7 .. 10 => C["hidelist"] = {}
    BY DEF ReleasedColumns, Tables
  <2>8. v \notin 7 .. 14 => C["policies"] = {}
    BY DEF ReleasedColumns, Tables
  <2> HIDE DEF C
  <2> QED
    BY <1>2, <2>1, <2>3, <2>4, <2>5, <2>6, <2>7, <2>8 DEF Held
<1> QED
  BY <1>1, <1>2

(* What a released database of a recent version offers the first statement.  *)
LEMMA ReleasedReady ==
    ASSUME NEW v \in Nat \ (1 .. 10)
    PROVE  Ready(v, 1, Released(v))
<1>1. CASE v = 0
  BY <1>1, NoFileHeld DEF Released, Ready
<1>2. CASE v # 0
  <2> DEFINE C == ReleasedColumns(v)
  <2>1. Released(v).cols = C /\ Released(v).ver = v
    BY <1>2 DEF Released
  <2>2. v = 11 => C["policies"] = PolicyColumns \cup {"package_name"} /\ C["denylist"] = HideColumns
    BY DEF ReleasedColumns, Tables
  <2>3. v = 12 => C["policies"] = PolicyColumns /\ C["denylist"] = HideColumns
    BY DEF ReleasedColumns, Tables
  <2>4. v = 13 => C["policies"] = PolicyColumns \cup {"locked"}
    BY DEF ReleasedColumns, Tables
  <2> HIDE DEF C
  <2> QED
    BY <1>2, <2>1, <2>2, <2>3, <2>4 DEF Ready
<1> QED
  BY <1>1, <1>2

(* A database starts with what its version promises.                         *)
LEMMA HeldReached ==
    ASSUME NEW d, Held(d), d.ver <= 15
    PROVE  d.ver \in {0} \cup 7 .. 15 /\ Reached(d.ver, 1, d)
<1>1. d.ver \in Nat \ (1 .. 6)
  BY DEF Held, Files
<1>2. d.ver \in {0} \cup 7 .. 15
  <2>1. \A n \in Nat \ (1 .. 6) : n <= 15 => n \in {0} \cup 7 .. 15
    OBVIOUS
  <2> QED
    BY <1>1, <2>1
<1>3. CASE d.ver = 0
  BY <1>2, <1>3 DEF Reached, Past
<1>4. CASE d.ver \in 7 .. 15
  BY <1>4 DEF Held, Reached, Past
<1> QED
  BY <1>2, <1>3, <1>4

(* The invariant holds of the database a device comes with.                  *)
LEMMA DbInitInv == DbInit => DbInv /\ RecentInv
<1> SUFFICES ASSUME DbInit
             PROVE  DbInv /\ RecentInv
  OBVIOUS
<1>1. origin \in Nat \ (1 .. 6) /\ origin \in DbVersions
  BY DatabaseAssumption DEF DbInit
<1>2. db = Released(origin) /\ tx = db /\ Held(db)
  BY <1>1, ReleasedHeld DEF DbInit
<1>3. \A k \in Keys : Row(db, k) \in Int
  BY <1>2 DEF Held, Files, Row, Rows
<1>4. wanted.settings = [k \in Keys |-> Row(db, k)] /\ wanted.deny = db.deny
      /\ wanted = [settings |-> wanted.settings, deny |-> wanted.deny]
  BY DEF DbInit
<1>5. wanted.settings \in [Keys -> Int] /\ Keeps(db, wanted)
  BY <1>3, <1>4 DEF Keeps
<1>6. DbInv
  BY <1>1, <1>2, <1>4, <1>5 DEF DbInit, DbInv
<1>7. RecentInv
  BY <1>2 DEF DbInit, RecentInv
<1> QED
  BY <1>6, <1>7

(* What is left to do after the last statement of a migration is what the    *)
(* next one does.                                                            *)
LEMMA MigrationDone ==
    ASSUME NEW v \in {0} \cup 7 .. 14, NEW i, i = Len(Migration(v)) + 1, NEW d, Held(d), Reached(v, i, d)
    PROVE  /\ NextVersion(v) \in {0} \cup 7 .. 15
           /\ Reached(NextVersion(v), 1, d)
           /\ Ready(v, i, d) => Ready(NextVersion(v), 1, d)
<1>1. d.ver \in Nat
  BY DEF Held, Files
<1> DEFINE last == Len(Migration(v))
           next == NextVersion(v)
<1>1a. /\ last = CASE v \in {0, 10} -> 3 [] v \in {12, 14} -> 2 [] v = 15 -> 0 [] OTHER -> 1
       /\ v # 15 => next = CASE v \in {0, 14} -> 15 [] v \in {7, 8} -> 9 [] OTHER -> v + 1
  BY MigrationLength
<1>1b. i = last + 1
  OBVIOUS
<1> HIDE DEF last, next
<1>1c. /\ i = CASE v \in {0, 10} -> 4 [] v \in {12, 14} -> 3 [] OTHER -> 2
       /\ next = CASE v \in {0, 14} -> 15 [] v \in {7, 8} -> 9 [] OTHER -> v + 1
  BY <1>1a, <1>1b
<1>2. CASE v = 0
  <2>1. i = 4 /\ NextVersion(v) = 15
    BY <1>2, <1>1c DEF next
  <2>2. d.ver = 0
    BY <1>1, <1>2 DEF Reached
  <2> QED
    BY <1>2, <2>1, <2>2 DEF Held, Reached, Past, Ready
<1>3. CASE v = 7
  <2>1. i = 2 /\ NextVersion(v) = 9
    BY <1>3, <1>1c DEF next
  <2> QED
    BY <1>1, <1>3, <2>1 DEF Reached, Past, Ready
<1>4. CASE v = 8
  <2>1. i = 2 /\ NextVersion(v) = 9
    BY <1>4, <1>1c DEF next
  <2> QED
    BY <1>1, <1>4, <2>1 DEF Reached, Past, Ready
<1>5. CASE v = 9
  <2>1. i = 2 /\ NextVersion(v) = 10
    BY <1>5, <1>1c DEF next
  <2> QED
    BY <1>1, <1>5, <2>1 DEF Reached, Past, Ready
<1>6. CASE v = 10
  <2>1. i = 4 /\ NextVersion(v) = 11
    BY <1>6, <1>1c DEF next
  <2>2. d.ver \in 1 .. 10
    BY <1>1, <1>6 DEF Reached
  <2> QED
    BY <1>1, <1>6, <2>1, <2>2 DEF Held, Files, Reached, Past, Ready
<1>7. CASE v = 11
  <2>1. i = 2 /\ NextVersion(v) = 12
    BY <1>7, <1>1c DEF next
  <2> QED
    BY <1>1, <1>7, <2>1 DEF Reached, Past, Ready
<1>8. CASE v = 12
  <2>1. i = 3 /\ NextVersion(v) = 13
    BY <1>8, <1>1c DEF next
  <2> QED
    BY <1>1, <1>8, <2>1 DEF Reached, Past, Ready
<1>9. CASE v = 13
  <2>1. i = 2 /\ NextVersion(v) = 14
    BY <1>9, <1>1c DEF next
  <2> QED
    BY <1>1, <1>9, <2>1 DEF Reached, Past, Ready
<1>10. CASE v = 14
  <2>1. i = 3 /\ NextVersion(v) = 15
    BY <1>10, <1>1c DEF next
  <2> QED
    BY <1>1, <1>10, <2>1 DEF Reached, Past, Ready
<1> QED
  BY <1>2, <1>3, <1>4, <1>5, <1>6, <1>7, <1>8, <1>9, <1>10

(* Every step keeps the invariant.                                           *)
LEMMA DbStepInv == DbInv /\ [DbNext]_dbVars => DbInv'
<1> SUFFICES ASSUME DbInv, [DbNext]_dbVars
             PROVE  DbInv'
  OBVIOUS
<1> USE DEF DB_VERSION
<1>1. CASE OpenDb
  <2>1. CASE db.ver > DB_VERSION
    <3>1. db' = NoFile /\ tx' = NoFile /\ wanted'.settings = [k \in Keys |-> 0] /\ wanted'.deny = {}
          /\ wanted' = [settings |-> wanted'.settings, deny |-> wanted'.deny]
      BY <1>1, <2>1 DEF OpenDb
    <3>2. Held(db') /\ db'.ver = 0 /\ Keeps(db', wanted') /\ wanted'.settings \in [Keys -> Int]
      BY <3>1, NoFileHeld DEF Keeps
    <3> QED
      <4>1. dver' = 0 /\ dstep' = 1 /\ Len(Migration(0)) = 3
        BY <1>1, <3>2, MigrationLength DEF OpenDb
      <4>2. Reached(0, 1, tx')
        BY <3>1, <3>2, HeldReached
      <4>3. RunInv'
        BY <3>1, <4>1, <4>2 DEF RunInv
      <4> QED
        BY <1>1, <3>1, <3>2, <4>3 DEF OpenDb, DbInv
  <2>2. CASE ~(db.ver > DB_VERSION)
    <3>1. db' = db /\ tx' = db /\ wanted' = wanted /\ dver' = db.ver /\ dstep' = 1
      BY <1>1, <2>2 DEF OpenDb
    <3>2. db.ver \in Nat /\ Held(db) /\ Keeps(db, wanted)
      BY DEF DbInv, Held, Files
    <3>3. db.ver \in {0} \cup 7 .. 15 /\ Reached(db.ver, 1, db)
      BY <2>2, <3>2, HeldReached
    <3>4. Len(Migration(db.ver)) \in Nat
      BY <3>3, MigrationLength
    <3>5. RunInv'
      BY <3>1, <3>3, <3>4 DEF RunInv
    <3> QED
      BY <1>1, <3>1, <3>2, <3>5 DEF OpenDb, DbInv
  <2> QED
    BY <2>1, <2>2
<1>2. CASE Migrate
  <2> DEFINE s == Migration(dver)[dstep]
  <2>1. /\ RunInv /\ ~conn /\ Held(tx) /\ Held(db) /\ Keeps(tx, wanted) /\ Keeps(db, wanted)
        /\ UNCHANGED <<conn, origin, wanted, cuts>>
    BY <1>2 DEF Migrate, DbInv
  <2>2. dver \in {0} \cup 7 .. 15 /\ dstep \in 1 .. Len(Migration(dver)) /\ Len(Migration(dver)) \in Nat
    <3>1. dver \in {0} \cup 7 .. 15 /\ dstep \in 1 .. Len(Migration(dver)) + 1
      BY <2>1 DEF RunInv
    <3>2. Len(Migration(dver)) \in Nat
      BY <3>1, MigrationLength
    <3>3. dstep <= Len(Migration(dver))
      BY <1>2 DEF Migrate
    <3> QED
      BY <3>1, <3>2, <3>3
  <2>3. CASE Accepts(tx, s)
    <3>1. tx' = Effect(tx, s) /\ (db' = tx' \/ db' = db) /\ dstep' = dstep + 1 /\ UNCHANGED <<dver, dpc, opened>>
      BY <1>2, <2>3 DEF Migrate
    <3>2. /\ Held(tx') /\ Reached(dver, dstep + 1, tx') /\ tx'.ver = tx.ver /\ tx'.deny = tx.deny
          /\ \A k \in Keys : Row(tx', k) = Row(tx, k)
      <4> DEFINE e == Effect(tx, s)
      <4>0. Held(tx) /\ Reached(dver, dstep, tx) /\ s = Migration(dver)[dstep] /\ e = Effect(tx, s)
        BY <2>1 DEF RunInv
      <4>1. Follows(dver, dstep + 1, tx, e)
        <5> HIDE DEF s, e
        <5> QED
          BY <2>2, <2>3, <4>0, StatementKeeps
      <4>2. tx' = e
        BY <3>1
      <4> HIDE DEF e
      <4> QED
        BY <4>1, <4>2 DEF Follows
    <3>3. Keeps(tx', wanted)
      BY <2>1, <3>2 DEF Keeps
    <3>4. dstep' \in 1 .. Len(Migration(dver)) + 1
      BY <2>2, <3>1
    <3>5. tx'.ver = db'.ver
      BY <2>1, <3>1, <3>2 DEF RunInv
    <3>6. RunInv'
      BY <2>2, <3>1, <3>2, <3>4, <3>5 DEF RunInv
    <3>7. Held(db') /\ Keeps(db', wanted)
      BY <2>1, <3>1, <3>2, <3>3
    <3> QED
      BY <1>2, <2>1, <3>1, <3>2, <3>3, <3>6, <3>7 DEF Migrate, DbInv
  <2>4. CASE ~Accepts(tx, s)
    <3>1. tx' = db /\ db' = db /\ dpc' = "idle"
      BY <1>2, <2>4 DEF Migrate
    <3> QED
      BY <2>1, <3>1 DEF DbInv
  <2> QED
    BY <2>3, <2>4
<1>3. CASE MigrateOn
  <2>1. /\ RunInv /\ ~conn /\ Held(tx) /\ dver \in {0} \cup 7 .. 15 /\ dver < 15
        /\ UNCHANGED <<db, tx, dpc, conn, opened, origin, wanted, cuts>>
    BY <1>3 DEF MigrateOn, DbInv, RunInv
  <2>2. dver \in {0} \cup 7 .. 14 /\ Len(Migration(dver)) \in Nat
    BY <2>1, MigrationLength
  <2>3. dstep = Len(Migration(dver)) + 1
    BY <1>3, <2>1, <2>2 DEF RunInv, MigrateOn
  <2>4. NextVersion(dver) \in {0} \cup 7 .. 15 /\ Reached(NextVersion(dver), 1, tx)
    BY <2>1, <2>2, <2>3, MigrationDone DEF RunInv
  <2>5. Len(Migration(NextVersion(dver))) \in Nat
    BY <2>4, MigrationLength
  <2>6. dver' = NextVersion(dver) /\ dstep' = 1
    BY <1>3 DEF MigrateOn
  <2>7. RunInv'
    BY <2>1, <2>4, <2>5, <2>6 DEF RunInv
  <2> QED
    BY <2>1, <2>7 DEF DbInv
<1>4. CASE OpenDone
  <2>1. RunInv /\ Held(tx) /\ Keeps(tx, wanted) /\ dver = 15
    BY <1>4 DEF OpenDone, DbInv
  <2>2. db' = [tx EXCEPT !.ver = 15] /\ tx' = db' /\ conn' = TRUE /\ dpc' = "idle" /\ UNCHANGED <<origin, wanted, cuts>>
    BY <1>4 DEF OpenDone
  <2>3. /\ db' \in Files /\ db'.ver = 15 /\ db'.cols = tx.cols /\ db'.settings = tx.settings /\ db'.deny = tx.deny
    BY <2>1, <2>2 DEF Held, Files
  <2>4. Held(db')
    BY <2>1, <2>3 DEF RunInv, Reached, Past, Held
  <2>5. Keeps(db', wanted)
    BY <2>1, <2>3 DEF Keeps, Row
  <2> QED
    BY <2>2, <2>3, <2>4, <2>5 DEF DbInv
<1>5. CASE PowerCut
  <2>1. tx' = db /\ db' = db /\ dpc' = "idle" /\ conn' = FALSE /\ cuts' = cuts + 1 /\ UNCHANGED <<origin, wanted>>
    BY <1>5 DEF PowerCut
  <2>2. cuts' \in Nat
    BY <2>1 DEF DbInv
  <2> QED
    BY <2>1, <2>2 DEF DbInv
<1>6. CASE \E k \in Keys, v \in 0 .. 1 : SetDbSetting(k, v)
  <2>1. PICK k \in Keys, v \in 0 .. 1 : SetDbSetting(k, v)
    BY <1>6
  <2>2. /\ db' = [db EXCEPT !.settings[k] = v] /\ tx' = db' /\ conn
        /\ wanted' = [wanted EXCEPT !.settings[k] = v] /\ UNCHANGED <<dpc, conn, origin, cuts>>
    BY <2>1 DEF SetDbSetting
  <2>3. Held(db) /\ Keeps(db, wanted) /\ db \in Files /\ db.ver = 15 /\ dpc # "migrate"
    BY <2>2 DEF DbInv, Held
  <2>4. /\ db' \in Files /\ db'.ver = db.ver /\ db'.cols = db.cols /\ db'.deny = db.deny
        /\ db'.settings = [db.settings EXCEPT ![k] = v]
    BY <2>2, <2>3 DEF Files
  <2>5. Held(db')
    BY <2>3, <2>4 DEF Held
  <2>6. /\ wanted'.settings = [wanted.settings EXCEPT ![k] = v] /\ wanted'.deny = wanted.deny
        /\ wanted'.settings \in [Keys -> Int]
        /\ wanted' = [settings |-> wanted'.settings, deny |-> wanted'.deny]
    BY <2>2 DEF DbInv
  <2>7. Keeps(db', wanted')
    <3>1. db.settings \in [Rows -> Int] /\ Keys \subseteq Rows /\ wanted.settings \in [Keys -> Int]
      BY <2>3 DEF Files, Rows, DbInv
    <3>2. \A j \in Keys : Row(db', j) = IF j = k THEN v ELSE Row(db, j)
      BY <2>4, <3>1 DEF Row, NoRow
    <3>3. \A j \in Keys : wanted'.settings[j] = IF j = k THEN v ELSE wanted.settings[j]
      BY <2>6, <3>1
    <3> QED
      BY <2>3, <2>4, <2>6, <3>2, <3>3 DEF Keeps
  <2> QED
    BY <2>2, <2>3, <2>4, <2>5, <2>6, <2>7 DEF DbInv
<1>7. CASE UNCHANGED dbVars
  BY <1>7 DEF dbVars, DbInv, RunInv
<1> QED
  BY <1>1, <1>2, <1>3, <1>4, <1>5, <1>6, <1>7 DEF DbNext

(* Theorem 1: for every set of versions devices come with and any number of  *)
(* power failures during the migrations, a connection that open_and_init_db  *)
(* hands out has the current schema, and the settings and the entries of the *)
(* denylist are those the device had or was given since.                     *)
THEOREM OpenedAlwaysCurrent == DbSpec => []OpenedIsCurrent
<1>1. DbInit => DbInv
  BY DbInitInv
<1>2. DbInv /\ [DbNext]_dbVars => DbInv'
  BY DbStepInv
<1>3. DbInv => OpenedIsCurrent
  <2> SUFFICES ASSUME DbInv, conn
               PROVE  OpenedIsCurrent
    BY DEF OpenedIsCurrent
  <2>1. db.ver = 15 /\ Held(db) /\ Keeps(db, wanted)
    BY DEF DbInv, DB_VERSION
  <2>2. /\ db.cols["settings"] = KeyValue /\ db.cols["strings"] = KeyValue /\ db.cols["denylist"] = Locked
        /\ db.cols["logs"] = {} /\ db.cols["hidelist"] = {} /\ db.cols["policies"] = {}
    BY <2>1 DEF Held
  <2>3. KeyValue # {} /\ Locked = {"package_name", "process", "locked"}
    BY DEF KeyValue, Locked, HideColumns
  <2>4. {t \in Tables : db.cols[t] # {}} = {"settings", "strings", "denylist"}
    BY <2>2, <2>3 DEF Tables
  <2>5. \A k \in Keys : GetDbSetting(k) = wanted.settings[k]
    BY <2>1 DEF Keeps, GetDbSetting
  <2> QED
    BY <2>1, <2>2, <2>3, <2>4, <2>5 DEF OpenedIsCurrent, DB_VERSION, Keeps
<1> QED
  BY <1>1, <1>2, <1>3, PTL DEF DbSpec

(* Without power failures, a recent database stays one whose migrations      *)
(* succeed.                                                                  *)
LEMMA RecentStepInv == DbInv /\ RecentInv /\ [DbNext]_dbVars => RecentInv'
<1> SUFFICES ASSUME DbInv, RecentInv, [DbNext]_dbVars, Recent'
             PROVE  /\ opened' # "failed"
                    /\ dpc' # "migrate" /\ ~conn' => db' = Released(origin')
                    /\ dpc' = "migrate" => Ready(dver', dstep', tx')
  BY DEF RecentInv
<1> USE DEF DB_VERSION
<1>0. origin' = origin /\ (cuts' = cuts \/ PowerCut)
  BY DEF DbNext, OpenDb, Migrate, MigrateOn, OpenDone, PowerCut, SetDbSetting, dbVars
<1>1. ~PowerCut
  <2> SUFFICES ASSUME PowerCut
               PROVE  FALSE
    OBVIOUS
  <2>1. cuts' = cuts + 1 /\ cuts \in Nat
    BY DEF PowerCut, DbInv
  <2> QED
    BY <2>1 DEF Recent
<1>2. Recent
  BY <1>0, <1>1 DEF Recent
<1>3. /\ opened # "failed"
      /\ dpc # "migrate" /\ ~conn => db = Released(origin)
      /\ dpc = "migrate" => Ready(dver, dstep, tx)
  BY <1>2 DEF RecentInv
<1>4. CASE OpenDb
  <2>1. db = Released(origin) /\ opened' = opened /\ dpc' = "migrate" /\ tx' = db' /\ dver' = db'.ver /\ dstep' = 1
    BY <1>3, <1>4 DEF OpenDb
  <2>2. origin \in Nat \ (1 .. 10)
    <3>1. origin \in Nat \ (1 .. 6) /\ origin \notin 7 .. 10
      BY <1>2, DatabaseAssumption DEF DbInv, Recent
    <3>2. \A n \in Nat \ (1 .. 6) : n \notin 7 .. 10 => n \in Nat \ (1 .. 10)
      OBVIOUS
    <3> QED
      BY <3>1, <3>2
  <2>3. Ready(db.ver, 1, db)
    BY <2>1, <2>2, ReleasedHeld, ReleasedReady
  <2>4. Ready(0, 1, NoFile) /\ NoFile.ver = 0
    BY NoFileHeld DEF Ready
  <2>5. db' = db \/ db' = NoFile
    BY <1>4 DEF OpenDb
  <2>6. Ready(dver', dstep', tx')
    BY <2>1, <2>3, <2>4, <2>5
  <2> QED
    BY <1>3, <2>1, <2>6
<1>5. CASE Migrate
  <2> DEFINE s == Migration(dver)[dstep]
             e == Effect(tx, s)
  <2>1. dver \in {0} \cup 7 .. 15 /\ dstep \in 1 .. Len(Migration(dver))
    <3>1. dver \in {0} \cup 7 .. 15 /\ dstep \in 1 .. Len(Migration(dver)) + 1
      BY <1>5 DEF Migrate, DbInv, RunInv
    <3>2. Len(Migration(dver)) \in Nat
      BY <3>1, MigrationLength
    <3>3. dstep <= Len(Migration(dver))
      BY <1>5 DEF Migrate
    <3> QED
      BY <3>1, <3>2, <3>3
  <2>2. /\ Held(tx) /\ Reached(dver, dstep, tx) /\ Ready(dver, dstep, tx)
        /\ s = Migration(dver)[dstep] /\ e = Effect(tx, s)
    BY <1>3, <1>5 DEF Migrate, DbInv, RunInv
  <2>3. Accepts(tx, s) /\ Ready(dver, dstep + 1, e)
    <3> HIDE DEF s, e
    <3> QED
      BY <2>1, <2>2, StatementAccepted
  <2>4. tx' = e /\ dstep' = dstep + 1 /\ UNCHANGED <<dver, dpc, opened>>
    BY <1>5, <2>3 DEF Migrate
  <2>5. dpc' = "migrate"
    BY <1>5, <2>4 DEF Migrate
  <2> HIDE DEF s, e
  <2> QED
    BY <1>3, <2>3, <2>4, <2>5
<1>6. CASE MigrateOn
  <2>1. /\ RunInv /\ Held(tx) /\ dver \in {0} \cup 7 .. 15 /\ dver < 15 /\ dpc = "migrate"
        /\ UNCHANGED <<tx, dpc, opened>> /\ dver' = NextVersion(dver) /\ dstep' = 1
    BY <1>6 DEF MigrateOn, DbInv, RunInv
  <2>2. dver \in {0} \cup 7 .. 14 /\ Len(Migration(dver)) \in Nat
    BY <2>1, MigrationLength
  <2>3. dstep = Len(Migration(dver)) + 1
    BY <1>6, <2>1, <2>2 DEF RunInv, MigrateOn
  <2>4. Ready(NextVersion(dver), 1, tx)
    BY <1>3, <2>1, <2>2, <2>3, MigrationDone DEF RunInv
  <2> QED
    BY <1>3, <2>1, <2>4
<1>7. CASE OpenDone
  BY <1>7 DEF OpenDone
<1>8. CASE \E k \in Keys, v \in 0 .. 1 : SetDbSetting(k, v)
  <2>1. conn /\ conn' = conn /\ dpc' = dpc /\ opened' = opened
    BY <1>8 DEF SetDbSetting
  <2>2. dpc # "migrate"
    BY <2>1 DEF DbInv
  <2> QED
    BY <1>3, <2>1, <2>2
<1>9. CASE UNCHANGED dbVars
  BY <1>3, <1>9 DEF dbVars
<1> QED
  BY <1>1, <1>4, <1>5, <1>6, <1>7, <1>8, <1>9 DEF DbNext

(* Theorem 2: a device without a database, or with one of version 11 or      *)
(* later, opens it: unless power failed, open_and_init_db is not refused a   *)
(* statement, and the migrations of the versions 11 to 14 fit together.      *)
THEOREM RecentAlwaysOpen == DbSpec => []RecentVersionsOpen
<1>1. DbInit => DbInv /\ RecentInv
  BY DbInitInv
<1>2. DbInv /\ RecentInv /\ [DbNext]_dbVars => (DbInv /\ RecentInv)'
  BY DbStepInv, RecentStepInv
<1>3. RecentInv => RecentVersionsOpen
  BY DEF RecentInv, Recent, RecentVersionsOpen, EveryVersionOpens
<1> QED
  BY <1>1, <1>2, <1>3, PTL DEF DbSpec
=============================================================================
