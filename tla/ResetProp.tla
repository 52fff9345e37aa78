------------------------------ MODULE ResetProp ------------------------------
(***************************************************************************)
(* resetprop (core/resetprop/*.rs): command lines that read, set, delete   *)
(* and wait for system properties, run as processes beside each other and  *)
(* beside init's property_service.  The shared property area and bionic's  *)
(* calls on it are external; the persistent storage is either the protobuf *)
(* file persistent_properties or one flat file per property.               *)
(***************************************************************************)
EXTENDS Integers, Sequences, FiniteSets, TLC, SequencesExt

CONSTANTS Names,        \* property names, a sequence in their sort order
          RoNames,      \* those that start with "ro."
          PersistNames, \* those that start with "persist."
          LongValues,   \* the values of PROP_VALUE_MAX bytes or more
          PropLines,  \* process -> the command lines it may be given
          ServiceSets,  \* <<name, value>> other programs set meanwhile
          StoredProto, StoredFiles, \* storage at boot: {} or {records}; name -> value
          MaxArea       \* bound on changes of the property area

VARIABLES infos,  \* prop_info blocks ever allocated: [val, serial]
          live,   \* name -> index in infos, for the properties that exist
          area,   \* the serial of the whole property area
          pfile,  \* {} or {the protobuf file's records, in file order}
          pdir,   \* flat files of /data/property: name -> value
          rproc   \* process -> its progress

resetVars == <<infos, live, area, pfile, pdir, rproc>>

Procs == DOMAIN PropLines
NameRank(k) == CHOOSE i \in DOMAIN Names : Names[i] = k
Idle == [pc |-> "idle"]

-----------------------------------------------------------------------------
(* Persistent storage: persist.rs *)

\* Mutant of ProtoReadProps: the records are searched in file order.
ProtoReadProps_Unsorted(f) == f

\* Records are sorted after decoding so that they can be searched by bisection.
ProtoReadProps(f) == SortSeq(f, LAMBDA a, b : NameRank(a.name) < NameRank(b.name))

\* The position of a name, or the one it would be inserted at.
FindIndex(props, k) ==
  LET bisect[r \in (1 .. Len(props) + 1) \X (1 .. Len(props) + 1)] ==
        LET mid == (r[1] + r[2]) \div 2 IN
        IF r[1] = r[2] THEN [ok |-> FALSE, at |-> r[1]]
        ELSE IF props[mid].name = k THEN [ok |-> TRUE, at |-> mid]
        ELSE IF NameRank(props[mid].name) < NameRank(k) THEN bisect[<<mid + 1, r[2]>>]
        ELSE bisect[<<r[1], mid>>]
  IN bisect[<<1, Len(props) + 1>>]

PersistSetProp(props, k, v) ==
  LET i == FindIndex(props, k) IN
  IF i.ok THEN [props EXCEPT ![i.at].value = {v}]
  ELSE InsertAt(props, i.at, [name |-> k, value |-> {v}])

PersistDeleteProp(props, k) ==
  LET i == FindIndex(props, k) IN IF i.ok THEN RemoveAt(props, i.at) ELSE props

\* {} or {the stored value}, from whichever storage the device has.
PersistGetProp(k) ==
  IF pfile # {}
  THEN LET props == ProtoReadProps(CHOOSE f \in pfile : TRUE)
           i == FindIndex(props, k)
       IN IF i.ok THEN props[i.at].value ELSE {}
  ELSE IF k \in DOMAIN pdir THEN {pdir[k]} ELSE {}

PersistGetAllProps ==
  [k \in {n \in ToSet(Names) : PersistGetProp(n) # {}} |-> CHOOSE v \in PersistGetProp(k) : TRUE]

FileSetProp(k, change) ==
  IF change = {} THEN [n \in DOMAIN pdir \ {k} |-> pdir[n]]
  ELSE [n \in {k} |-> CHOOSE v \in change : TRUE] @@ pdir

-----------------------------------------------------------------------------
(* The property area: bionic's functions as SysProp calls them. *)

SysRead(k) == infos[live[k]].val

\* Only a name that does not exist is added, and only ro. names may be long.
SysAdd(k, v) ==
  IF k \in DOMAIN live \/ (v \in LongValues /\ k \notin RoNames)
  THEN UNCHANGED <<infos, live, area>>
  ELSE /\ infos' = Append(infos, [val |-> v, serial |-> 0])
       /\ live' = (k :> Len(infos')) @@ live
       /\ area' = area + 1

\* A long property, or a long value, cannot be updated in place.
SysUpdate(i, v) ==
  IF v \in LongValues \/ infos[i].val \in LongValues
  THEN UNCHANGED <<infos, live, area>>
  ELSE /\ infos' = [infos EXCEPT ![i] = [val |-> v, serial |-> @.serial + 1]]
       /\ area' = area + 1
       /\ UNCHANGED live

SysDelete(k) ==
  /\ live' = [n \in DOMAIN live \ {k} |-> live[n]]
  /\ area' = IF k \in DOMAIN live THEN area + 1 ELSE area
  /\ UNCHANGED infos

\* property_service: init changes the area and stores persist. names itself.
SysSet(k, v) ==
  /\ IF k \in DOMAIN live THEN SysUpdate(live[k], v) ELSE SysAdd(k, v)
  /\ IF k \notin PersistNames \/ v \in LongValues THEN UNCHANGED <<pfile, pdir>>
     ELSE IF pfile = {} THEN pdir' = FileSetProp(k, {v}) /\ UNCHANGED pfile
     ELSE /\ pfile' = {PersistSetProp(ProtoReadProps(f), k, v) : f \in pfile}
          /\ UNCHANGED pdir

-----------------------------------------------------------------------------
(* cli.rs: resetprop_main and the operations of ResetProp. *)

\* for_each_prop: comment lines and lines without "=" are passed over.
LoadFile(lines) == SelectSeq(lines, LAMBDA l : l[1] = "prop")

\* The flags and arguments of a command line that gives none.
NoFlags == [wait |-> FALSE, file |-> {}, delete |-> {}, args |-> <<>>, persist |-> FALSE,
            persist_only |-> FALSE, context |-> FALSE, skip |-> FALSE]

\* set_prop, load_prop_file and get_prop, as magiskd itself calls them.
OwnCalls(k, v, f) ==
  {[NoFlags EXCEPT !.skip = TRUE, !.args = <<k, v>>], [NoFlags EXCEPT !.skip = TRUE, !.file = {f}],
   [NoFlags EXCEPT !.persist = k \in PersistNames, !.args = <<k>>]}

\* resetprop_main: the combinations of arguments it refuses.
Accepted(q) ==
  /\ q.wait => q.args # <<>>
  /\ Cardinality({m \in {"wait", "file", "delete"} :
        \/ m = "wait" /\ q.wait
        \/ m = "file" /\ q.file # {}
        \/ m = "delete" /\ q.delete # {}}) <= 1
  /\ Len(q.args) <= 2

Job(q, pc, k, todo) ==
  [pc |-> pc, q |-> q, key |-> k, todo |-> todo, info |-> {}, serial |-> 0,
   change |-> {}, snap |-> {}, ret |-> 0, out |-> {}]

\* run: wait mode, then a file, then a deletion, then by number of arguments.
Run(q) ==
  CASE q.wait -> Job(q, "wait_find", q.args[1], <<>>)
    [] ~q.wait /\ q.file # {} ->
         Job(q, "next", "", LoadFile(CHOOSE f \in q.file : TRUE))
    [] ~q.wait /\ q.file = {} /\ q.delete # {} ->
         Job(q, "delete", CHOOSE k \in q.delete : TRUE, <<>>)
    [] OTHER -> CASE Len(q.args) = 0 -> Job(q, "list", "", <<>>)
                  [] Len(q.args) = 1 -> Job(q, "get", q.args[1], <<>>)
                  [] Len(q.args) = 2 -> Job(q, "next", "", <<<<"prop", q.args[1], q.args[2]>>>>)

RMain(p) ==
  /\ rproc[p].pc = "idle"
  /\ \E q \in PropLines[p] :
       rproc' = [rproc EXCEPT ![p] =
                   IF Accepted(q) THEN Run(q) ELSE [Job(q, "done", "", <<>>) EXCEPT !.ret = 1]]
  /\ UNCHANGED <<infos, live, area, pfile, pdir>>

Get(j) ==
  LET k == j.key
      val == IF ~j.q.persist_only /\ k \in DOMAIN live THEN {SysRead(k)} ELSE {}
  IN IF j.q.context THEN {"context"}
     ELSE IF val = {} /\ (j.q.persist \/ j.q.persist_only) /\ k \in PersistNames
     THEN PersistGetProp(k) ELSE val

RGet(p) ==
  /\ rproc[p].pc = "get"
  /\ rproc' = [rproc EXCEPT ![p].pc = "done", ![p].out = Get(rproc[p]),
                            ![p].ret = IF Get(rproc[p]) = {} THEN 1 ELSE 0]
  /\ UNCHANGED <<infos, live, area, pfile, pdir>>

\* print_all: the stored properties are put into the map over the live ones.
PrintAll(q) ==
  (IF q.persist \/ q.persist_only THEN PersistGetAllProps ELSE <<>>)
    @@ (IF q.persist_only THEN <<>> ELSE [k \in DOMAIN live |-> SysRead(k)])

RPrintAll(p) ==
  /\ rproc[p].pc = "list"
  /\ rproc' = [rproc EXCEPT ![p].pc = "done", ![p].out = {PrintAll(rproc[p].q)}]
  /\ UNCHANGED <<infos, live, area, pfile, pdir>>

\* set: find the property; a long ro. property is deleted first.
MustDelete(k, v) ==
  k \in RoNames /\ k \in DOMAIN live /\ (SysRead(k) \in LongValues \/ v \in LongValues)

RSetFind(p) ==
  LET todo == rproc[p].todo IN
  /\ rproc[p].pc = "next"
  /\ IF todo = <<>>
     THEN rproc' = [rproc EXCEPT ![p].pc = "done"] /\ UNCHANGED <<infos, live, area>>
     ELSE LET k == todo[1][2] IN
          /\ area < MaxArea
          /\ IF MustDelete(k, todo[1][3]) THEN SysDelete(k) ELSE UNCHANGED <<infos, live, area>>
          /\ rproc' = [rproc EXCEPT ![p].pc = "set", ![p].key = k,
                         ![p].info = IF k \in DOMAIN live' THEN {live'[k]} ELSE {}]
  /\ UNCHANGED <<pfile, pdir>>

SkipService(p) == rproc[p].q.skip \/ rproc[p].key \in RoNames

RSetApply(p) ==
  LET j == rproc[p]
      v == j.todo[1][3]
      stores == SkipService(p) /\ j.q.persist /\ j.key \in PersistNames
  IN
  /\ j.pc = "set" /\ area < MaxArea
  /\ IF SkipService(p)
     THEN /\ IF j.info # {} THEN SysUpdate(CHOOSE i \in j.info : TRUE, v) ELSE SysAdd(j.key, v)
          /\ UNCHANGED <<pfile, pdir>>
     ELSE SysSet(j.key, v)
  /\ rproc' = [rproc EXCEPT ![p].pc = IF stores THEN "store" ELSE "next",
                            ![p].change = {v}, ![p].todo = Tail(@)]

\* delete: from the area, and with -p from storage; either one counts.
RDelete(p) ==
  LET j == rproc[p]
      stores == j.q.persist /\ j.key \in PersistNames
  IN
  /\ j.pc = "delete" /\ area < MaxArea
  /\ SysDelete(j.key)
  /\ rproc' = [rproc EXCEPT ![p].pc = IF stores THEN "store" ELSE "done", ![p].change = {},
                            ![p].ret = IF j.key \in DOMAIN live THEN 0 ELSE 1]
  /\ UNCHANGED <<pfile, pdir>>

AfterStore(j) == IF j.q.delete # {} THEN "done" ELSE "next"

\* persist_set_prop, persist_delete_prop: flat files are changed at once, the
\* protobuf file is read now and replaced by a later step.
RStore(p) ==
  LET j == rproc[p]
      props == {ProtoReadProps(f) : f \in pfile}
  IN
  /\ j.pc = "store"
  /\ IF pfile = {}
     THEN /\ pdir' = FileSetProp(j.key, j.change)
          /\ rproc' = [rproc EXCEPT ![p].pc = AfterStore(j),
                         ![p].ret = IF j.change = {} /\ j.key \in DOMAIN pdir THEN 0 ELSE @]
     ELSE /\ UNCHANGED pdir
          /\ rproc' = IF j.change = {} /\ \A f \in props : ~FindIndex(f, j.key).ok
                      THEN [rproc EXCEPT ![p].pc = AfterStore(j)]
                      ELSE [rproc EXCEPT ![p].pc = "write", ![p].snap = props]
  /\ UNCHANGED <<infos, live, area, pfile>>

\* proto_write_props: a temporary file renamed over the old one, or an error.
RWrite(p) ==
  LET j == rproc[p]
      new == {IF j.change = {} THEN PersistDeleteProp(f, j.key)
              ELSE PersistSetProp(f, j.key, CHOOSE v \in j.change : TRUE) : f \in j.snap}
  IN
  /\ j.pc = "write"
  /\ \/ pfile' = new
        /\ rproc' = [rproc EXCEPT ![p].pc = AfterStore(j), ![p].snap = {},
                                  ![p].ret = IF j.change = {} THEN 0 ELSE @]
     \/ rproc' = [rproc EXCEPT ![p].pc = AfterStore(j), ![p].snap = {}] /\ UNCHANGED pfile
  /\ UNCHANGED <<infos, live, area, pdir>>

\* wait: until the property exists ...
RWaitFind(p) ==
  LET j == rproc[p] IN
  /\ j.pc = "wait_find"
  /\ rproc' = [rproc EXCEPT
       ![p].info = IF j.key \in DOMAIN live THEN {live[j.key]} ELSE {},
       ![p].pc = IF j.key \notin DOMAIN live THEN "wait_serial"
                 ELSE IF Len(j.q.args) = 2 THEN "wait_read" ELSE "done"]
  /\ UNCHANGED <<infos, live, area, pfile, pdir>>

RWaitSerial(p) ==
  /\ rproc[p].pc = "wait_serial"
  /\ rproc' = [rproc EXCEPT ![p].pc = "wait_area", ![p].serial = area]
  /\ UNCHANGED <<infos, live, area, pfile, pdir>>

RWaitArea(p) ==
  /\ rproc[p].pc = "wait_area" /\ area # rproc[p].serial
  /\ rproc' = [rproc EXCEPT ![p].pc = "wait_find"]
  /\ UNCHANGED <<infos, live, area, pfile, pdir>>

\* Mutant of RWaitRead: it then waits on the area, with a serial read afterwards.
RWaitRead_AreaSerial(p) ==
  /\ rproc[p].pc = "wait_read"
  /\ \E i \in rproc[p].info :
       rproc' = [rproc EXCEPT
         ![p].pc = IF infos[i].val # rproc[p].q.args[2] THEN "done" ELSE "wait_serial",
         ![p].out = {infos[i].val}]
  /\ UNCHANGED <<infos, live, area, pfile, pdir>>

\* ... and then until its value is not the given one, from the serial that was
\* read together with the value.
RWaitRead(p) ==
  /\ rproc[p].pc = "wait_read"
  /\ \E i \in rproc[p].info :
       rproc' = [rproc EXCEPT
         ![p].pc = IF infos[i].val # rproc[p].q.args[2] THEN "done" ELSE "wait_value",
         ![p].serial = infos[i].serial, ![p].out = {infos[i].val}]
  /\ UNCHANGED <<infos, live, area, pfile, pdir>>

RWaitValue(p) ==
  /\ rproc[p].pc = "wait_value"
  /\ \E i \in rproc[p].info : infos[i].serial # rproc[p].serial
  /\ rproc' = [rproc EXCEPT ![p].pc = "wait_read"]
  /\ UNCHANGED <<infos, live, area, pfile, pdir>>

-----------------------------------------------------------------------------

\* Another program sets a property through property_service.
RServiceSet ==
  /\ area < MaxArea
  /\ \E s \in ServiceSets : SysSet(s[1], s[2])
  /\ UNCHANGED rproc

\* A reboot ends every process; init loads what is stored.
RReboot ==
  LET kept == SetToSeq(DOMAIN PersistGetAllProps) IN
  /\ area > 0
  /\ infos' = [i \in DOMAIN kept |-> [val |-> PersistGetAllProps[kept[i]], serial |-> 0]]
  /\ live' = [k \in ToSet(kept) |-> CHOOSE i \in DOMAIN kept : kept[i] = k]
  /\ rproc' = [p \in Procs |-> IF rproc[p].pc = "idle" THEN Idle ELSE [Job(rproc[p].q, "done", "", <<>>) EXCEPT !.ret = 1]]
  /\ UNCHANGED <<area, pfile, pdir>>

ResetInit ==
  /\ infos = <<>> /\ live = <<>> /\ area = 0
  /\ pfile \in StoredProto /\ pdir = StoredFiles
  /\ rproc = [p \in Procs |-> Idle]

RStep(p) ==
  \/ RGet(p) \/ RPrintAll(p) \/ RSetFind(p) \/ RSetApply(p) \/ RDelete(p)
  \/ RStore(p) \/ RWrite(p)
  \/ RWaitFind(p) \/ RWaitSerial(p) \/ RWaitArea(p) \/ RWaitRead(p) \/ RWaitValue(p)

ResetNext == RServiceSet \/ RReboot \/ \E p \in Procs : RMain(p) \/ RStep(p)

\* The kernel runs every process that is not blocked.
ResetFairness == \A p \in Procs : WF_resetVars(RStep(p))

-----------------------------------------------------------------------------
(* Properties *)

\* The value stored under a name, wherever its record is in the file.
Stored(f, k) == UNION {r.value : r \in {x \in ToSet(f) : x.name = k}}

\* Replacing the protobuf file (proto_write_props) changes the one property
\* the command names and keeps every other, provided nobody replaced the file
\* since it was read; the records may be in any order in the file.
StorageKeepsOthers ==
  [][\A p \in Procs : \A old \in pfile, new \in pfile' :
       /\ rproc[p].pc = "write" /\ rproc'[p].pc # "write" /\ pfile' # pfile
       /\ \A s \in rproc[p].snap : ToSet(s) = ToSet(old)
       => \A k \in ToSet(Names) :
            Stored(new, k) = IF k = rproc[p].key THEN rproc[p].change ELSE Stored(old, k)]_resetVars

\* A set that bypasses property_service leaves the property with the new value
\* whenever the property area can hold it, whatever length the previous value
\* had (cli.rs deletes long ro. properties first); only another program that
\* creates or deletes the same property between the two steps of the set can
\* get in the way.
DirectSetTakesEffect ==
  [][\A p \in Procs :
       LET j == rproc[p] IN
       /\ j.pc = "set" /\ rproc'[p].pc \in {"next", "store"}
       /\ SkipService(p)
       /\ j.info = (IF j.key \in DOMAIN live THEN {live[j.key]} ELSE {})
       /\ j.todo[1][3] \in LongValues => j.key \in RoNames
       => j.key \in DOMAIN live' /\ infos'[live'[j.key]].val = j.todo[1][3]]_resetVars

\* A set changes what it names, in the persistent storage and in the property
\* area, and nothing else (persist_set_prop, set_prop).
SetsAreExact == StorageKeepsOthers /\ DirectSetTakesEffect

\* resetprop -w NAME OLD_VALUE, once it has found the property, does not sleep
\* through a change of it: if the property it watches keeps a value other than
\* OLD_VALUE, the command ends.
WaiterWakes ==
  \A p \in Procs :
    ~<>[](/\ rproc[p].pc \notin {"idle", "done"} /\ rproc[p].q.wait
          /\ \E i \in rproc[p].info : infos[i].val # rproc[p].q.args[2])
=============================================================================
