------------------------------ MODULE Database ------------------------------
(* magisk.db: open_and_init_db with its schema migrations (core/sqlite.cpp)  *)
(* and the settings read and written through with_db (core/db.rs).  A table  *)
(* is the set of its columns.  Each transaction, and each statement outside  *)
(* one, reaches the disk as a whole or not at all; power may fail between    *)
(* any two.                                                                  *)
EXTENDS Integers, Sequences

CONSTANTS
    DbVersions,  \* versions a device may come with; 0 is no database
    MaxCuts      \* bound on the power failures

(* Versions 1 to 6 were in the app's private data (the changelog).           *)
ASSUME DatabaseAssumption == DbVersions \subseteq Nat \ (1 .. 6) /\ MaxCuts \in Nat

VARIABLES
    db,       \* the file: [ver, cols : table -> columns, settings, deny : rows]
    tx,       \* the same as the connection sees it, inside a transaction
    dver,     \* ver of open_and_init_db
    dstep,    \* the next statement of the migration from dver
    dpc,      \* "idle", or "migrate" inside open_and_init_db
    conn,     \* sql_connection is there
    opened,   \* how the last open_and_init_db ended: "none", "ok", "failed"
    origin,   \* the version the device came with
    wanted,   \* the settings and the entries of the denylist to be kept
    cuts      \* power failures so far

dbVars == <<db, tx, dver, dstep, dpc, conn, opened, origin, wanted, cuts>>

DB_VERSION == 15

(* A table that is not there has no columns, a key without a row NoRow.      *)
Tables == {"settings", "strings", "denylist", "hidelist", "policies", "logs"}
Keys == {"zygisk", "bootloop"}
Rows == Keys \cup {"magiskhide", "root_access", "multiuser_mode", "su_biometric"}
NoRow == -1

-----------------------------------------------------------------------------
(* Statements *)

(* A statement of its own, or the last of a transaction.                     *)
Statement(op, t, cs) == [op |-> op, table |-> t, cols |-> cs, select |-> {}, commit |-> TRUE]
CreateTable(t, cs) == Statement("create", t, cs)
AddColumn(t, c) == Statement("add", t, {c})
DropTable(t) == Statement("drop", t, {})
DeleteKeys(ks) == Statement("delete", "settings", ks)
(* RENAME, CREATE, INSERT ... SELECT and DROP of the renamed table.  Of the  *)
(* old columns it needs the selected ones.                                   *)
Rebuild(t, select, cs) == [Statement("rebuild", t, cs) EXCEPT !.select = select]
(* A statement of a transaction that goes on.                                *)
Within(s) == [s EXCEPT !.commit = FALSE]

(* sqlite refuses a statement on a table that is not there, or that already  *)
(* has the column to be added, or has not the columns to be copied.          *)
Accepts(d, s) ==
    LET has == d.cols[s.table]
    IN  \/ s.op \in {"create", "drop"}     \* IF NOT EXISTS, IF EXISTS
        \/ s.op = "delete" /\ has # {}
        \/ s.op = "add" /\ has # {} /\ s.cols \cap has = {}
        \/ s.op = "rebuild" /\ has # {} /\ s.select \subseteq has

(* What it makes of the columns, and of the rows.                            *)
Columns(d, s) ==
    LET has == d.cols[s.table]
    IN  [d.cols EXCEPT ![s.table] = CASE s.op = "create" -> IF has = {} THEN s.cols ELSE has
                                      [] s.op = "add" -> has \cup s.cols
                                      [] s.op = "rebuild" -> s.cols
                                      [] s.op = "drop" -> {}
                                      [] s.op = "delete" -> has]

Deleted(s) == CASE s.op = "delete" -> s.cols
                [] s.op = "drop" /\ s.table = "settings" -> Rows
                [] OTHER -> {}

Effect(d, s) ==
    [ver |-> d.ver, cols |-> Columns(d, s),
     settings |-> [k \in Rows |-> IF k \in Deleted(s) THEN NoRow ELSE d.settings[k]],
     deny |-> IF s.op = "drop" /\ s.table = "denylist" THEN {} ELSE d.deny]

-----------------------------------------------------------------------------
(* Migrations *)

KeyValue == {"key", "value"}
HideColumns == {"package_name", "process"}
PolicyColumns == {"uid", "policy", "until", "logging", "notification"}

(* Mutant of CreateDenylist: the table as version 11 had it.                 *)
CreateDenylist_Unlocked == CreateTable("denylist", HideColumns)

CreateDenylist == CreateTable("denylist", HideColumns \cup {"locked"})

(* Mutant of RebuildPolicies: the column package_name is kept.               *)
RebuildPolicies_KeepsName ==
    Rebuild("policies", PolicyColumns, PolicyColumns \cup {"package_name"})

RebuildPolicies == Rebuild("policies", PolicyColumns, PolicyColumns)

(* The statements that lead from a version to the next.                      *)
Migration(v) ==
    CASE v <= 6  -> <<CreateTable("settings", KeyValue), CreateTable("strings", KeyValue), CreateDenylist>>
      [] v = 7   -> <<Rebuild("hidelist", {"process"}, HideColumns)>>
      [] v = 8   -> <<Rebuild("hidelist", HideColumns, HideColumns)>>
      [] v = 9   -> <<DropTable("logs")>>
      [] v = 10  -> <<DropTable("hidelist"), DeleteKeys({"magiskhide"}), CreateDenylist>>
      [] v = 11  -> <<RebuildPolicies>>
      [] v = 12  -> <<Within(AddColumn("policies", "locked")), AddColumn("denylist", "locked")>>
      [] v = 13  -> <<AddColumn("policies", "package_name")>>
      [] v = 14  -> <<DropTable("policies"), DeleteKeys({"root_access", "multiuser_mode", "su_biometric"})>>
      [] OTHER   -> <<>>

NextVersion(v) == CASE v <= 6 -> DB_VERSION [] v \in {7, 8} -> 9 [] OTHER -> v + 1

NoFile == [ver |-> 0, cols |-> [t \in Tables |-> {}], settings |-> [k \in Rows |-> NoRow], deny |-> {}]

(* The tables as a release of version v left them (the changelog).           *)
ReleasedColumns(v) ==
    [t \in Tables |->
       CASE t \in {"settings", "strings"}             -> KeyValue
         [] t = "logs" /\ v \in 7 .. 9                -> {"time"}
         [] t = "hidelist" /\ v = 7                   -> {"process"}
         [] t = "hidelist" /\ v \in 8 .. 10           -> HideColumns
         [] t = "policies" /\ v \in 7 .. 11           -> PolicyColumns \cup {"package_name"}
         [] t = "policies" /\ v = 12                  -> PolicyColumns
         [] t = "policies" /\ v = 13                  -> PolicyColumns \cup {"locked"}
         [] t = "policies" /\ v = 14                  -> PolicyColumns \cup {"locked", "package_name"}
         [] t = "denylist" /\ v \in 11 .. 12          -> HideColumns
         [] t = "denylist" /\ v >= 13                 -> HideColumns \cup {"locked"}
         [] OTHER                                     -> {}]

Released(v) ==
    IF v = 0 THEN NoFile
    ELSE [ver |-> v, cols |-> ReleasedColumns(v),
          settings |-> [k \in Rows |-> CASE k = "zygisk" -> 1
                                        [] k = "magiskhide" /\ v <= 10 -> 1
                                        [] k = "root_access" /\ v <= 14 -> 3
                                        [] OTHER -> NoRow],
          deny |-> IF v >= 11 THEN {"app"} ELSE {}]

-----------------------------------------------------------------------------
(* Settings *)

(* get_db_setting: the default stands whenever the database gives no row.    *)
Row(d, k) == IF d.settings[k] = NoRow THEN 0 ELSE d.settings[k]
GetDbSetting(k) == IF conn THEN Row(db, k) ELSE 0

(* set_db_setting, INSERT OR REPLACE; without a connection it fails.         *)
SetDbSetting(k, v) ==
    /\ conn
    /\ db' = [db EXCEPT !.settings[k] = v] /\ tx' = db'
    /\ wanted' = [wanted EXCEPT !.settings[k] = v]
    /\ UNCHANGED <<dver, dstep, dpc, conn, opened, origin, cuts>>

-----------------------------------------------------------------------------
(* with_db: the first use of the database, and every one after a failure,    *)
(* opens it under the lock of sql_connection.                                *)

(* A newer database is deleted, and an empty one opened in its place.        *)
OpenDb ==
    /\ dpc = "idle" /\ ~conn
    /\ IF db.ver > DB_VERSION
       THEN db' = NoFile /\ wanted' = [settings |-> [k \in Keys |-> 0], deny |-> {}]
       ELSE UNCHANGED <<db, wanted>>
    /\ tx' = db' /\ dver' = db'.ver /\ dstep' = 1 /\ dpc' = "migrate"
    /\ UNCHANGED <<conn, opened, origin, cuts>>

(* The next statement; the connection is closed at the first error, which    *)
(* rolls back what was begun.                                                *)
Migrate ==
    /\ dpc = "migrate" /\ dstep <= Len(Migration(dver))
    /\ LET s == Migration(dver)[dstep] IN
       \/ /\ Accepts(tx, s)
          /\ tx' = Effect(tx, s) /\ db' = IF s.commit THEN tx' ELSE db
          /\ dstep' = dstep + 1 /\ UNCHANGED <<dver, dpc, opened>>
       \/ /\ ~Accepts(tx, s)
          /\ tx' = db /\ UNCHANGED db
          /\ opened' = "failed" /\ dpc' = "idle" /\ dstep' = 1 /\ dver' = 0
    /\ UNCHANGED <<conn, origin, wanted, cuts>>

MigrateOn ==
    /\ dpc = "migrate" /\ dstep > Len(Migration(dver)) /\ dver < DB_VERSION
    /\ dver' = NextVersion(dver) /\ dstep' = 1
    /\ UNCHANGED <<db, tx, dpc, conn, opened, origin, wanted, cuts>>

(* The version is written once, after the last migration.                    *)
OpenDone ==
    /\ dpc = "migrate" /\ dver = DB_VERSION
    /\ db' = [tx EXCEPT !.ver = DB_VERSION] /\ tx' = db'
    /\ conn' = TRUE /\ opened' = "ok" /\ dpc' = "idle" /\ dver' = 0 /\ dstep' = 1
    /\ UNCHANGED <<origin, wanted, cuts>>

PowerCut ==
    /\ cuts < MaxCuts /\ cuts' = cuts + 1
    /\ conn' = FALSE /\ dpc' = "idle" /\ dstep' = 1 /\ dver' = 0 /\ opened' = "none" /\ tx' = db
    /\ UNCHANGED <<db, origin, wanted>>

DbInit ==
    /\ origin \in DbVersions /\ db = Released(origin) /\ tx = db
    /\ wanted = [settings |-> [k \in Keys |-> Row(db, k)], deny |-> db.deny]
    /\ dver = 0 /\ dstep = 1 /\ dpc = "idle" /\ conn = FALSE /\ opened = "none" /\ cuts = 0

DbNext ==
    \/ OpenDb \/ Migrate \/ MigrateOn \/ OpenDone \/ PowerCut
    \/ \E k \in Keys, v \in 0 .. 1 : SetDbSetting(k, v)

DbSpec == DbInit /\ [][DbNext]_dbVars

-----------------------------------------------------------------------------
(* Properties *)

(* A connection that open_and_init_db hands out has the current schema, with *)
(* which every statement of the daemon is valid, whatever version it started *)
(* from and wherever power failed; and no migration lost a setting or an     *)
(* entry of the denylist.                                                    *)
OpenedIsCurrent ==
    conn => /\ db.ver = DB_VERSION
            /\ {t \in Tables : db.cols[t] # {}} = {"settings", "strings", "denylist"}
            /\ db.cols["denylist"] = {"package_name", "process", "locked"}
            /\ \A k \in Keys : GetDbSetting(k) = wanted.settings[k]
            /\ wanted.deny \subseteq db.deny

(* "manages schema migrations (versions 7-15)" (sqlite.cpp:5): unless power  *)
(* failed, a database of any of these versions can be opened.                *)
EveryVersionOpens == cuts = 0 => opened # "failed"

(* The same from version 11 on, for a device without a database, and for a   *)
(* newer one.                                                                *)
RecentVersionsOpen == origin \notin 7 .. 10 => EveryVersionOpens
=============================================================================
