------------------------------- MODULE Requests -------------------------------
(***************************************************************************)
(* Concurrent requests to magiskd: the main thread that accepts them       *)
(* (native/src/core/daemon.rs), the locks their handlers take, and the     *)
(* zygiskd companion processes that ConnectCompanion starts and hands its  *)
(* clients to (native/src/core/zygisk/daemon.rs, zygisk/entry.cpp).        *)
(*                                                                         *)
(* A handler is the sequence of the locks it takes and releases and of the *)
(* work it does in between, in the order of the code.  A handler holds its *)
(* locks while it waits, so its steps are interleaved with every other     *)
(* thread's.  Every asynchronous request has a thread of its own: that the *)
(* pool provides one is ThreadPool's subject.                              *)
(***************************************************************************)
EXTENDS ZygiskState, FiniteSets

CONSTANTS
    Clients,       \* connections
    Mixes,         \* mixes[c]: the kind of c's request, in each mix considered
    Companions,    \* bound: zygiskd processes ever started
    MaxCrashes     \* bound: zygiskd processes that die after their ack

ASSUME RequestsAssumption ==
    /\ Clients \subseteq Nat \ {0}
    /\ Companions \subseteq Nat \ {NoSocket}
    /\ MaxCrashes \in Nat

Locks == {"boot_stage", "data", "sql", "zygisk"}
Nobody == 0

Lock(l) == <<"lock", l>>
Unlock(l) == <<"unlock", l>>
Do(work) == <<"do", work>>

(* with_db: every statement takes sql_connection for itself, and no other    *)
(* lock inside it, so it is one step, which waits for the lock.              *)
Sql == Do("sql")

(* db_exec_for_cli: the rows are written to the client with the lock held.   *)
SqliteCmd == <<Lock("sql"), Do("write"), Unlock("sql")>>

BootComplete ==
    <<Lock("boot_stage"), Sql, Lock("zygisk"), Do("restore"), Unlock("zygisk"), Unlock("boot_stage")>>

(* post_fs_data: boot count, enable_deny, set_prop in apply_modules.         *)
PostFsData ==
    <<Lock("boot_stage"), Sql, Lock("data"), Sql, Unlock("data"), Sql,
      Lock("zygisk"), Do("inject"), Unlock("zygisk"), Unlock("boot_stage")>>

(* ZYGOTE_RESTART scans the denylist without data_lock, then resets zygisk.  *)
ZygoteRestart == <<Sql, Lock("zygisk"), Do("restart"), Unlock("zygisk")>>

(* denylist_handler: memory and ensure_data's SELECT under data_lock, a      *)
(* statement after.                                                          *)
DenyListHandler == <<Lock("data"), Sql, Unlock("data"), Sql>>

(* ls_list: the list is written to the client with data_lock held.           *)
ListDenyList == <<Lock("data"), Sql, Do("write"), Unlock("data")>>

(* su_daemon_handler: is_deny_target as above, the mount namespace setting,  *)
(* then the child.                                                           *)
SuDaemonHandler == <<Lock("data"), Sql, Unlock("data"), Sql, Do("shell")>>

(* get_process_info: deny flags, then uid_granted_root, each with data_lock. *)
GetProcessInfo == <<Lock("data"), Sql, Unlock("data"), Lock("data"), Sql, Unlock("data")>>

(* connect_zygiskd: read the ABI from the client, poll, send; "send" skips   *)
(* "ack" when the companion is there already.                                *)
ConnectZygiskd ==
    <<Lock("zygisk"), Do("read"), Do("poll"), Do("send"), Do("ack"), Unlock("zygisk")>>

(* STOP_DAEMON, on the main thread.                                          *)
StopDaemon == <<Lock("zygisk"), Do("stop")>>

(* What the requests of handle_request_sync, handle_request_async, the boot  *)
(* stages and zygisk_handler run.                                            *)
Program ==
    [post      |-> PostFsData,      complete  |-> BootComplete,
     restart   |-> ZygoteRestart,   sql       |-> SqliteCmd,
     deny      |-> DenyListHandler, list      |-> ListDenyList,
     su        |-> SuDaemonHandler, info      |-> GetProcessInfo,
     connect32 |-> ConnectZygiskd,  connect64 |-> ConnectZygiskd,
     stop      |-> StopDaemon]

ASSUME MixesAssumption == Mixes \subseteq [Clients -> DOMAIN Program]

VARIABLES
    main,     \* the main thread: "accept", "stop" or "exited"
    kind,     \* kind[c]: what c asks for
    pc,       \* pc[c]: next step of its handler, 0 before it is accepted
    holder,   \* holder[l]: the client whose handler holds l
    zygisk,   \* ZygiskState
    comp,     \* comp[i]: state, acked, clients in its socket buffer, when born
    started,  \* started[c]: the companion c's handler has forked
    reply,    \* reply[c]: what became of a connection to a companion
    restarts, \* zygote restarts handled so far
    excused,  \* clients that died, or lost their connection to a dying companion
    crashes

requestVars == <<main, kind, pc, holder, zygisk, comp, started, reply, restarts, excused, crashes>>
watch == <<restarts, excused, crashes>>

Step(c) == IF pc[c] \in 1 .. Len(Program[kind[c]]) THEN Program[kind[c]][pc[c]] ELSE <<"none", "none">>
Ended(c) == pc[c] > Len(Program[kind[c]])
Abi(c) == IF kind[c] = "connect32" THEN "32" ELSE "64"

NoCompanion == [state |-> "none", acked |-> FALSE, inbox |-> {}, born |-> 0]

RequestInit ==
    /\ main = "accept"
    /\ kind \in Mixes
    /\ pc = [c \in Clients |-> 0]
    /\ holder = [l \in Locks |-> Nobody]
    /\ zygisk = NewZygisk(<<"0">>)
    /\ comp = [i \in Companions |-> NoCompanion]
    /\ started = [c \in Clients |-> NoSocket]
    /\ reply = [c \in Clients |-> "none"]
    /\ restarts = 0 /\ excused = {} /\ crashes = 0

-----------------------------------------------------------------------------
(* Threads of the daemon *)

(* handle_requests: asynchronous requests get a thread; STOP_DAEMON keeps    *)
(* the main thread.                                                          *)
Accept(c) ==
    /\ main = "accept" /\ pc[c] = 0
    /\ pc' = [pc EXCEPT ![c] = 1]
    /\ main' = IF kind[c] = "stop" THEN "stop" ELSE main
    /\ UNCHANGED <<kind, holder, zygisk, comp, started, reply, watch>>

Advance(c, n) == pc' = [pc EXCEPT ![c] = @ + n]

Acquire(c) ==
    /\ Step(c)[1] = "lock" /\ holder[Step(c)[2]] = Nobody
    /\ holder' = [holder EXCEPT ![Step(c)[2]] = c]
    /\ Advance(c, 1)
    /\ UNCHANGED <<main, kind, zygisk, comp, started, reply, watch>>

Release(c) ==
    /\ Step(c)[1] = "unlock"
    /\ holder' = [holder EXCEPT ![Step(c)[2]] = Nobody]
    /\ Advance(c, 1)
    /\ UNCHANGED <<main, kind, zygisk, comp, started, reply, watch>>

(* Mutant of Work: a zygote restart keeps the companions' sockets.           *)
Work_KeepsSockets(c) ==
    /\ Step(c) \in {Do(w) : w \in {"inject", "restore", "restart"}}
    /\ zygisk' = CASE Step(c)[2] = "inject"  -> SetProp(zygisk)
                   [] Step(c)[2] = "restore" -> Reset(zygisk, TRUE)
                   [] Step(c)[2] = "restart" -> [Reset(zygisk, FALSE) EXCEPT !.sockets = zygisk.sockets]
    /\ restarts' = IF Step(c)[2] = "restart" THEN restarts + 1 ELSE restarts
    /\ Advance(c, 1)
    /\ UNCHANGED <<main, kind, holder, comp, started, reply, excused, crashes>>

(* A statement.                                                              *)
Statement(c) ==
    /\ Step(c) = Sql /\ holder["sql"] = Nobody
    /\ Advance(c, 1)
    /\ UNCHANGED <<main, kind, holder, zygisk, comp, started, reply, watch>>

(* The client takes what is written to it, or is gone: a failed write is     *)
(* only logged.  A client sends what is read from it.                        *)
Talk(c) ==
    /\ Step(c) \in {Do("write"), Do("read")}
    /\ Advance(c, 1)
    /\ UNCHANGED <<main, kind, holder, zygisk, comp, started, reply, watch>>

(* The client dies before it has sent its ABI: connect_zygiskd returns.      *)
ReadFails(c) ==
    /\ Step(c) = Do("read")
    /\ reply' = [reply EXCEPT ![c] = "closed"]
    /\ excused' = excused \cup {c}
    /\ Advance(c, 4)
    /\ UNCHANGED <<main, kind, holder, zygisk, comp, started, restarts, crashes>>

(* Work that always ends; on zygisk it is ZygiskState's.                     *)
Work(c) ==
    /\ Step(c) \in {Do(w) : w \in {"inject", "restore", "restart"}}
    /\ zygisk' = CASE Step(c)[2] = "inject"  -> SetProp(zygisk)
                   [] Step(c)[2] = "restore" -> Reset(zygisk, TRUE)
                   [] Step(c)[2] = "restart" -> Reset(zygisk, FALSE)
    /\ restarts' = IF Step(c)[2] = "restart" THEN restarts + 1 ELSE restarts
    /\ Advance(c, 1)
    /\ UNCHANGED <<main, kind, holder, comp, started, reply, excused, crashes>>

(* waitpid on the root shell: it lasts as long as its user likes.            *)
ShellEnds(c) ==
    /\ Step(c) = Do("shell")
    /\ Advance(c, 1)
    /\ UNCHANGED <<main, kind, holder, zygisk, comp, started, reply, watch>>

Alive(i) == comp[i].state \in {"starting", "ready"}

(* Mutant of Poll: the socket is taken to be valid.                          *)
Poll_Trusts(c) ==
    /\ Step(c) = Do("poll")
    /\ Advance(c, 1)
    /\ UNCHANGED <<main, kind, holder, zygisk, comp, started, reply, watch>>

(* Poll the ABI's socket; its companion is gone if there is any event.       *)
Poll(c) ==
    /\ Step(c) = Do("poll")
    /\ LET i == zygisk.sockets[Abi(c)]
       IN  zygisk' = IF i # NoSocket /\ ~Alive(i)
                     THEN [zygisk EXCEPT !.sockets[Abi(c)] = NoSocket] ELSE zygisk
    /\ Advance(c, 1)
    /\ UNCHANGED <<main, kind, holder, comp, started, reply, watch>>

(* Companion i gets client c, or c is closed because nobody reads any more.  *)
HandTo(i, c) ==
    /\ comp' = IF Alive(i) THEN [comp EXCEPT ![i].inbox = @ \cup {c}] ELSE comp
    /\ reply' = [reply EXCEPT ![c] = IF Alive(i) THEN "handed" ELSE "closed"]

(* Send the client to the companion that is there.                           *)
Send(c) ==
    /\ Step(c) = Do("send") /\ zygisk.sockets[Abi(c)] # NoSocket
    /\ HandTo(zygisk.sockets[Abi(c)], c)
    /\ Advance(c, 2)
    /\ UNCHANGED <<main, kind, holder, zygisk, started, watch>>

(* No companion: create the socket pair, fork and exec zygiskd, send it the  *)
(* modules.                                                                  *)
ForkZygiskd(c) ==
    /\ Step(c) = Do("send") /\ zygisk.sockets[Abi(c)] = NoSocket
    /\ \E i \in Companions :
          /\ comp[i].state = "none"
          /\ comp' = [comp EXCEPT ![i] = [NoCompanion EXCEPT !.state = "starting", !.born = restarts]]
          /\ started' = [started EXCEPT ![c] = i]
    /\ Advance(c, 1)
    /\ UNCHANGED <<main, kind, holder, zygisk, reply, watch>>

(* Read the ack with the lock held.  This end keeps `remote` open, so the    *)
(* read does not fail when zygiskd dies: it blocks until there is an ack.    *)
ReadAck(c) ==
    /\ Step(c) = Do("ack") /\ comp[started[c]].acked
    /\ HandTo(started[c], c)
    /\ zygisk' = [zygisk EXCEPT !.sockets[Abi(c)] = started[c]]
    /\ started' = [started EXCEPT ![c] = NoSocket]
    /\ Advance(c, 1)
    /\ UNCHANGED <<main, kind, holder, watch>>

(* restore_prop and exit(0): every thread, lock and socket of the daemon     *)
(* goes with it.                                                             *)
Exit(c) ==
    /\ Step(c) = Do("stop")
    /\ main' = "exited"
    /\ pc' = [d \in Clients |-> Len(Program[kind[d]]) + 1]
    /\ holder' = [l \in Locks |-> Nobody]
    /\ zygisk' = [RestoreProp(zygisk) EXCEPT !.sockets = NoSockets]
    /\ started' = [d \in Clients |-> NoSocket]
    /\ UNCHANGED <<kind, comp, reply, watch>>

-----------------------------------------------------------------------------
(* zygiskd *)

DaemonStays == UNCHANGED <<main, kind, pc, holder, zygisk, started, restarts>>

(* Load the modules and write the ack.                                       *)
Ready(i) ==
    /\ comp[i].state = "starting"
    /\ comp' = [comp EXCEPT ![i].state = "ready", ![i].acked = TRUE]
    /\ UNCHANGED <<reply, excused, crashes>> /\ DaemonStays

(* exec fails, or loading a module kills the process.                        *)
StartFails(i) ==
    /\ comp[i].state = "starting"
    /\ comp' = [comp EXCEPT ![i].state = "dead"]
    /\ UNCHANGED <<reply, excused, crashes>> /\ DaemonStays

(* recv_fd, and the module's companion entry on a pool thread.               *)
Serve(i, c) ==
    /\ comp[i].state = "ready" /\ c \in comp[i].inbox
    /\ comp' = [comp EXCEPT ![i].inbox = @ \ {c}]
    /\ reply' = [reply EXCEPT ![c] = "served"]
    /\ UNCHANGED <<excused, crashes>> /\ DaemonStays

(* A module's companion code kills the process: clients it has not served    *)
(* are closed, and a handler that has already polled may still pick it.      *)
Crash(i) ==
    /\ comp[i].state = "ready" /\ crashes < MaxCrashes
    /\ crashes' = crashes + 1
    /\ comp' = [comp EXCEPT ![i].state = "dead", ![i].inbox = {}]
    /\ reply' = [c \in Clients |-> IF c \in comp[i].inbox THEN "closed" ELSE reply[c]]
    /\ excused' = excused \cup comp[i].inbox
                     \cup {c \in Clients : Step(c) \in {Do("send"), Do("ack")}}
    /\ DaemonStays

(* magiskd has closed its end and no client is left in the buffer.           *)
HungUp(i) ==
    /\ \A a \in Abis : zygisk.sockets[a] # i
    /\ \A c \in Clients : started[c] # i
    /\ comp[i].inbox = {}

(* Mutant of ExitHungUp: the result of recv_fd is not looked at.             *)
ExitHungUp_Spins(i) ==
    /\ comp[i].state = "ready" /\ HungUp(i)
    /\ UNCHANGED <<comp, reply, excused, crashes>> /\ DaemonStays

ExitHungUp(i) ==
    /\ comp[i].state = "ready" /\ HungUp(i)
    /\ comp' = [comp EXCEPT ![i].state = "dead"]
    /\ UNCHANGED <<reply, excused, crashes>> /\ DaemonStays

-----------------------------------------------------------------------------
Handle(c) ==
    \/ Acquire(c) \/ Release(c) \/ Statement(c) \/ Talk(c) \/ Work(c)
    \/ Poll(c) \/ Send(c) \/ ForkZygiskd(c) \/ ReadAck(c)
    \/ Exit(c)

Zygiskd(i) == Ready(i) \/ (\E c \in Clients : Serve(i, c)) \/ ExitHungUp(i)

RequestNext ==
    \/ \E c \in Clients : Accept(c) \/ Handle(c) \/ ReadFails(c) \/ ShellEnds(c)
    \/ \E i \in Companions : Zygiskd(i) \/ StartFails(i) \/ Crash(i)

(* Threads and companions that can go on do so.  Every step takes a request  *)
(* or a companion further, so a behaviour has finitely many and fairness of  *)
(* their union is fairness of each.  The clients, which are magisk itself    *)
(* and the zygote processes, take part in the requests they have made; a     *)
(* root shell may last for ever.                                             *)
Scheduled ==
    \/ \E c \in Clients : Accept(c) \/ Handle(c)
    \/ \E i \in Companions : Zygiskd(i)

RequestSpec == RequestInit /\ [][RequestNext]_requestVars /\ WF_requestVars(Scheduled)

-----------------------------------------------------------------------------
(* Properties.  A behaviour comes to rest, so "in the end" is what it comes  *)
(* to rest in.                                                               *)

(* A stored socket leads to a companion that acknowledged its modules and    *)
(* was started after the last zygote restart: connect_zygiskd keeps the      *)
(* zygisk lock from the poll to the store, and reset(false) drops both       *)
(* sockets (zygisk/daemon.rs:97-113, 121).                                   *)
SocketsAreFresh ==
    \A a \in Abis : zygisk.sockets[a] # NoSocket =>
        LET i == zygisk.sockets[a]
        IN  comp[i].acked /\ comp[i].born = restarts

StartFailed == \E i \in Companions : comp[i].state = "dead" /\ ~comp[i].acked

(* No request waits for ever, unless a companion died before its ack: the    *)
(* order in which the handlers of daemon.rs:158-189 and bootstages.rs:224    *)
(* take the locks has no cycle, nothing waits for a root shell, and what     *)
(* they wait for with a lock held is the client or the companion.            *)
EveryRequestEnds ==
    <>[](\A c \in Clients : pc[c] > 0 => Ended(c) \/ Step(c) = Do("shell") \/ StartFailed)

(* STOP_DAEMON is one of the requests that "complete instantly without       *)
(* blocking" the main thread (daemon.rs:120-121): it ends.                   *)
StopEnds == main = "stop" ~> main = "exited"

(* A companion that died earlier costs nobody a connection: every client of  *)
(* ConnectCompanion is served, unless it dies itself, a companion dies under *)
(* its handler or at its start, or the daemon is stopped ("Make sure the     *)
(* socket is still valid", zygisk/daemon.rs:85).                             *)
ConnectIsServed ==
    <>[](\A c \in Clients : kind[c] \in {"connect32", "connect64"} /\ pc[c] > 0 =>
            reply[c] = "served" \/ c \in excused \/ main = "exited" \/ StartFailed)

(* Every request gets its answer: none hangs, and a companion's client is    *)
(* not turned away for a companion that is long dead.                        *)
EveryRequestIsAnswered == EveryRequestEnds /\ ConnectIsServed

(* A companion that the daemon has dropped, by a zygote restart or with      *)
(* itself, terminates ("Something bad happened in magiskd, terminate         *)
(* zygiskd", zygisk/entry.cpp:65).                                           *)
DroppedCompanionsExit ==
    <>[](\A i \in Companions : HungUp(i) => comp[i].state # "ready")
=============================================================================
