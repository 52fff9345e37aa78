---------------------------- MODULE RequestsProofs ----------------------------
(***************************************************************************)
(* Proofs about Requests: for any number of requests of any kinds, and any *)
(* number of companions, a handler holds the locks it has taken and not    *)
(* given back, it waits for a lock only with lower ones in hand, and the   *)
(* sockets of the companions are those of the current zygote.              *)
(***************************************************************************)
EXTENDS Requests, TLAPS

(* The locks a handler of kind k has taken and not released before step n.   *)
Held(k, n) ==
    {l \in Locks : \E i \in 1 .. n - 1 :
        /\ Program[k][i] = Lock(l)
        /\ \A j \in i + 1 .. n - 1 : Program[k][j] # Unlock(l)}

Works == {"sql", "write", "read", "restore", "inject", "restart", "shell", "poll", "send", "ack", "stop"}
Instructions == {Lock(l) : l \in Locks} \cup {Unlock(l) : l \in Locks} \cup {Do(w) : w \in Works}

(* The order in which the locks nest.                                        *)
Rank(l) == CASE l = "boot_stage" -> 1 [] l = "data" -> 2 [] l = "zygisk" -> 3 [] l = "sql" -> 4

(* Work on ZygiskState, and what connect_zygiskd does with the lock held.    *)
OnZygisk == {"restore", "inject", "restart", "poll", "send", "ack", "stop"}

-----------------------------------------------------------------------------
(* The handlers' programs *)

(* The kinds of requests.                                                    *)
LEMMA Kinds ==
  DOMAIN Program = {"post", "complete", "restart", "sql", "deny", "list", "su", "info",
                    "connect32", "connect64", "stop"}
  BY DEF Program

(* The handlers are finite sequences of locks and work.                      *)
LEMMA Programs ==
  ASSUME NEW k \in DOMAIN Program
  PROVE  /\ Len(Program[k]) \in Nat
         /\ \A n \in 1 .. Len(Program[k]) : Program[k][n] \in Instructions
<1> USE DEF Instructions, Works, Locks, Lock, Unlock, Do, Sql
<1>1. CASE k = "post"
  BY <1>1 DEF Program, PostFsData
<1>2. CASE k = "complete"
  BY <1>2 DEF Program, BootComplete
<1>3. CASE k = "restart"
  BY <1>3 DEF Program, ZygoteRestart
<1>4. CASE k = "sql"
  BY <1>4 DEF Program, SqliteCmd
<1>5. CASE k = "deny"
  BY <1>5 DEF Program, DenyListHandler
<1>6. CASE k = "list"
  BY <1>6 DEF Program, ListDenyList
<1>7. CASE k = "su"
  BY <1>7 DEF Program, SuDaemonHandler
<1>8. CASE k = "info"
  BY <1>8 DEF Program, GetProcessInfo
<1>9. CASE k = "connect32"
  BY <1>9 DEF Program, ConnectZygiskd
<1>10. CASE k = "connect64"
  BY <1>10 DEF Program, ConnectZygiskd
<1>11. CASE k = "stop"
  BY <1>11 DEF Program, StopDaemon
<1> QED
  BY <1>1, <1>2, <1>3, <1>4, <1>5, <1>6, <1>7, <1>8, <1>9, <1>10, <1>11, Kinds

(* Where connect_zygiskd's steps stand.                                      *)
LEMMA ConnectSteps ==
  ASSUME NEW k \in DOMAIN Program, NEW n \in 1 .. Len(Program[k])
  PROVE  /\ Program[k][n] = Do("read") => Program[k] = ConnectZygiskd /\ n = 2
         /\ Program[k][n] = Do("send") => Program[k] = ConnectZygiskd /\ n = 4
         /\ Program[k][n] = Do("ack") => Program[k] = ConnectZygiskd /\ n = 5
<1> USE DEF Lock, Unlock, Do, Sql
<1>1. CASE k = "post"
  BY <1>1 DEF Program, PostFsData
<1>2. CASE k = "complete"
  BY <1>2 DEF Program, BootComplete
<1>3. CASE k = "restart"
  BY <1>3 DEF Program, ZygoteRestart
<1>4. CASE k = "sql"
  BY <1>4 DEF Program, SqliteCmd
<1>5. CASE k = "deny"
  BY <1>5 DEF Program, DenyListHandler
<1>6. CASE k = "list"
  BY <1>6 DEF Program, ListDenyList
<1>7. CASE k = "su"
  BY <1>7 DEF Program, SuDaemonHandler
<1>8. CASE k = "info"
  BY <1>8 DEF Program, GetProcessInfo
<1>9. CASE k = "connect32"
  BY <1>9 DEF Program, ConnectZygiskd
<1>10. CASE k = "connect64"
  BY <1>10 DEF Program, ConnectZygiskd
<1>11. CASE k = "stop"
  BY <1>11 DEF Program, StopDaemon
<1> QED
  BY <1>1, <1>2, <1>3, <1>4, <1>5, <1>6, <1>7, <1>8, <1>9, <1>10, <1>11, Kinds

(* Work on ZygiskState is done with its lock held.                           *)
LEMMA ZygiskIsLocked ==
  ASSUME NEW k \in DOMAIN Program, NEW n \in 1 .. Len(Program[k]),
         NEW w \in OnZygisk, Program[k][n] = Do(w)
  PROVE  "zygisk" \in Held(k, n)
<1> USE DEF Lock, Unlock, Do, Sql, Held, OnZygisk, Locks
<1>1. CASE k = "post"
  BY <1>1 DEF Program, PostFsData
<1>2. CASE k = "complete"
  BY <1>2 DEF Program, BootComplete
<1>3. CASE k = "restart"
  BY <1>3 DEF Program, ZygoteRestart
<1>4. CASE k = "sql"
  BY <1>4 DEF Program, SqliteCmd
<1>5. CASE k = "deny"
  BY <1>5 DEF Program, DenyListHandler
<1>6. CASE k = "list"
  BY <1>6 DEF Program, ListDenyList
<1>7. CASE k = "su"
  BY <1>7 DEF Program, SuDaemonHandler
<1>8. CASE k = "info"
  BY <1>8 DEF Program, GetProcessInfo
<1>9. CASE k = "connect32"
  BY <1>9 DEF Program, ConnectZygiskd
<1>10. CASE k = "connect64"
  BY <1>10 DEF Program, ConnectZygiskd
<1>11. CASE k = "stop"
  BY <1>11 DEF Program, StopDaemon
<1> QED
  BY <1>1, <1>2, <1>3, <1>4, <1>5, <1>6, <1>7, <1>8, <1>9, <1>10, <1>11, Kinds

(* A handler only gives back a lock it holds.                                *)
LEMMA UnlocksAreOwned ==
  ASSUME NEW k \in DOMAIN Program, NEW n \in 1 .. Len(Program[k]), NEW l, Program[k][n] = Unlock(l)
  PROVE  l \in Held(k, n)
<1> USE DEF Lock, Unlock, Do, Sql, Held, Locks
<1>1. CASE k = "post"
  BY <1>1 DEF Program, PostFsData
<1>2. CASE k = "complete"
  BY <1>2 DEF Program, BootComplete
<1>3. CASE k = "restart"
  BY <1>3 DEF Program, ZygoteRestart
<1>4. CASE k = "sql"
  BY <1>4 DEF Program, SqliteCmd
<1>5. CASE k = "deny"
  BY <1>5 DEF Program, DenyListHandler
<1>6. CASE k = "list"
  BY <1>6 DEF Program, ListDenyList
<1>7. CASE k = "su"
  BY <1>7 DEF Program, SuDaemonHandler
<1>8. CASE k = "info"
  BY <1>8 DEF Program, GetProcessInfo
<1>9. CASE k = "connect32"
  BY <1>9 DEF Program, ConnectZygiskd
<1>10. CASE k = "connect64"
  BY <1>10 DEF Program, ConnectZygiskd
<1>11. CASE k = "stop"
  BY <1>11 DEF Program, StopDaemon
<1> QED
  BY <1>1, <1>2, <1>3, <1>4, <1>5, <1>6, <1>7, <1>8, <1>9, <1>10, <1>11, Kinds

(* Every handler takes its locks in one order.                               *)
LEMMA OrderOfLocks ==
  ASSUME NEW k \in DOMAIN Program, NEW n \in 1 .. Len(Program[k]), NEW m \in Held(k, n)
  PROVE  /\ \A l \in Locks : Program[k][n] = Lock(l) => Rank(m) < Rank(l)
         /\ Program[k][n] = Sql => Rank(m) < Rank("sql")
<1> USE DEF Lock, Unlock, Do, Sql, Held, Locks, Rank
<1>1. CASE k = "post"
  BY <1>1 DEF Program, PostFsData
<1>2. CASE k = "complete"
  BY <1>2 DEF Program, BootComplete
<1>3. CASE k = "restart"
  BY <1>3 DEF Program, ZygoteRestart
<1>4. CASE k = "sql"
  BY <1>4 DEF Program, SqliteCmd
<1>5. CASE k = "deny"
  BY <1>5 DEF Program, DenyListHandler
<1>6. CASE k = "list"
  BY <1>6 DEF Program, ListDenyList
<1>7. CASE k = "su"
  BY <1>7 DEF Program, SuDaemonHandler
<1>8. CASE k = "info"
  BY <1>8 DEF Program, GetProcessInfo
<1>9. CASE k = "connect32"
  BY <1>9 DEF Program, ConnectZygiskd
<1>10. CASE k = "connect64"
  BY <1>10 DEF Program, ConnectZygiskd
<1>11. CASE k = "stop"
  BY <1>11 DEF Program, StopDaemon
<1> QED
  BY <1>1, <1>2, <1>3, <1>4, <1>5, <1>6, <1>7, <1>8, <1>9, <1>10, <1>11, Kinds

-----------------------------------------------------------------------------
(* The inductive invariant *)

Companion == [state : {"none", "starting", "ready", "dead"}, acked : BOOLEAN, inbox : SUBSET Clients, born : Nat]
Names == Seq({"0", ZYGISKLDR})
Zygisk == [lib_name : Names, sockets : [Abis -> Companions \cup {NoSocket}], start_count : Nat, nbprop : Names]

RequestTypeOK ==
    /\ kind \in [Clients -> DOMAIN Program]
    /\ pc \in [Clients -> Nat]
    /\ holder \in [Locks -> Clients \cup {Nobody}]
    /\ zygisk \in Zygisk
    /\ comp \in [Companions -> Companion]
    /\ started \in [Clients -> Companions \cup {NoSocket}]
    /\ restarts \in Nat

(* A handler holds the locks it has taken, and no others.                    *)
HoldersHold ==
    /\ \A c \in Clients : pc[c] <= Len(Program[kind[c]]) => \A l \in Held(kind[c], pc[c]) : holder[l] = c
    /\ \A l \in Locks : holder[l] # Nobody => l \in Held(kind[holder[l]], pc[holder[l]])

(* What a handler waits for with the lock held belongs to this zygote.       *)
ForksAreFresh ==
    /\ \A c \in Clients : Step(c) = Do("ack") =>
          /\ started[c] \in Companions
          /\ comp[started[c]].state # "none" /\ comp[started[c]].born = restarts
    /\ \A i \in Companions : comp[i].acked => comp[i].state # "none"

FreshInv == RequestTypeOK /\ HoldersHold /\ ForksAreFresh /\ SocketsAreFresh

-----------------------------------------------------------------------------
(* How the locks of a handler change *)

(* A handler begins without locks.                                           *)
LEMMA HeldAtStart == \A k : Held(k, 0) = {} /\ Held(k, 1) = {}
  BY DEF Held

(* How one instruction changes the locks held.                               *)
LEMMA HeldNext ==
  ASSUME NEW k, NEW n \in Nat \ {0}, NEW l \in Locks
  PROVE  l \in Held(k, n + 1) <=>
           \/ Program[k][n] = Lock(l)
           \/ l \in Held(k, n) /\ Program[k][n] # Unlock(l)
<1> USE DEF Held
<1>1. ASSUME l \in Held(k, n + 1), Program[k][n] # Lock(l)
      PROVE  l \in Held(k, n) /\ Program[k][n] # Unlock(l)
  <2>1. PICK i \in 1 .. n : Program[k][i] = Lock(l) /\ \A j \in i + 1 .. n : Program[k][j] # Unlock(l)
    BY <1>1
  <2>2. i \in 1 .. n - 1
    BY <1>1, <2>1
  <2>3. QED
    BY <2>1, <2>2
<1>2. ASSUME Program[k][n] = Lock(l) PROVE l \in Held(k, n + 1)
  BY <1>2
<1>3. ASSUME l \in Held(k, n), Program[k][n] # Unlock(l) PROVE l \in Held(k, n + 1)
  <2>1. PICK i \in 1 .. n - 1 : Program[k][i] = Lock(l) /\ \A j \in i + 1 .. n - 1 : Program[k][j] # Unlock(l)
    BY <1>3
  <2>2. i \in 1 .. n /\ \A j \in i + 1 .. n : Program[k][j] # Unlock(l)
    BY <1>3, <2>1
  <2>3. QED
    BY <2>1, <2>2
<1>4. QED
  BY <1>1, <1>2, <1>3

(* The same for each kind of instruction.                                    *)
LEMMA HeldStep ==
  ASSUME NEW k \in DOMAIN Program, NEW n \in 1 .. Len(Program[k])
  PROVE  /\ \A l \in Locks : Program[k][n] = Lock(l) => Held(k, n + 1) = Held(k, n) \cup {l}
         /\ \A l \in Locks : Program[k][n] = Unlock(l) => Held(k, n + 1) = Held(k, n) \ {l}
         /\ \A w \in Works : Program[k][n] = Do(w) => Held(k, n + 1) = Held(k, n)
<1>1. n \in Nat \ {0}
  BY Programs
<1>2. Held(k, n) \subseteq Locks /\ Held(k, n + 1) \subseteq Locks
  BY DEF Held
<1>3. ASSUME NEW l \in Locks, Program[k][n] = Lock(l) PROVE Held(k, n + 1) = Held(k, n) \cup {l}
  <2>1. \A m \in Locks : (Program[k][n] = Lock(m) <=> m = l) /\ Program[k][n] # Unlock(m)
    BY <1>3 DEF Lock, Unlock
  <2>2. QED
    BY <1>1, <1>2, <2>1, HeldNext
<1>4. ASSUME NEW l \in Locks, Program[k][n] = Unlock(l) PROVE Held(k, n + 1) = Held(k, n) \ {l}
  <2>1. \A m \in Locks : Program[k][n] # Lock(m) /\ (Program[k][n] = Unlock(m) <=> m = l)
    BY <1>4 DEF Lock, Unlock
  <2>2. QED
    BY <1>1, <1>2, <2>1, HeldNext
<1>5. ASSUME NEW w \in Works, Program[k][n] = Do(w) PROVE Held(k, n + 1) = Held(k, n)
  <2>1. \A m \in Locks : Program[k][n] # Lock(m) /\ Program[k][n] # Unlock(m)
    BY <1>5 DEF Lock, Unlock, Do
  <2>2. \A m \in Locks : m \in Held(k, n + 1) <=> m \in Held(k, n)
    BY <1>1, <2>1, HeldNext
  <2>3. QED
    BY <1>2, <2>2
<1>6. QED
  BY <1>3, <1>4, <1>5

(* connect_zygiskd holds the zygisk lock from the poll to the end.           *)
LEMMA HeldInConnect ==
  ASSUME NEW k, Program[k] = ConnectZygiskd, NEW n \in 2 .. 6
  PROVE  Held(k, n) = {"zygisk"}
  BY DEF Held, ConnectZygiskd, Lock, Unlock, Do, Locks

(* A step that takes and gives back no lock.                                 *)
LEMMA MoveKeepsLocks ==
  ASSUME RequestTypeOK, HoldersHold, UNCHANGED <<kind, holder>>,
         NEW c \in Clients, NEW m \in Nat, pc' = [pc EXCEPT ![c] = m],
         pc[c] <= Len(Program[kind[c]]), Held(kind[c], m) = Held(kind[c], pc[c])
  PROVE  HoldersHold'
  BY DEF RequestTypeOK, HoldersHold

(* set_prop, restore_prop and reset(true) leave the sockets alone.           *)
LEMMA ZygiskTypes ==
  ASSUME NEW z \in Zygisk
  PROVE  /\ SetProp(z) \in Zygisk /\ SetProp(z).sockets = z.sockets
         /\ RestoreProp(z) \in Zygisk /\ RestoreProp(z).sockets = z.sockets
         /\ Reset(z, TRUE) \in Zygisk /\ Reset(z, TRUE).sockets = z.sockets
         /\ Reset(z, FALSE) \in Zygisk /\ Reset(z, FALSE).sockets = NoSockets
<1>1. ASSUME NEW y \in Zygisk, NEW lib \in Names, NEW prop \in Names
      PROVE  LET x == [y EXCEPT !.lib_name = lib, !.nbprop = prop] IN x \in Zygisk /\ x.sockets = y.sockets
  BY DEF Zygisk
<1>2. ASSUME NEW y \in Zygisk PROVE SetProp(y) \in Zygisk /\ SetProp(y).sockets = y.sockets
  <2>1. <<ZYGISKLDR>> \in Names /\ <<ZYGISKLDR>> \o y.nbprop \in Names
    BY DEF Names, Zygisk
  <2>2. QED
    BY <1>1, <2>1, ZenonT(60) DEF SetProp
<1>3. ASSUME NEW y \in Zygisk PROVE RestoreProp(y) \in Zygisk /\ RestoreProp(y).sockets = y.sockets
  <2>1. <<>> \in Names /\ <<"0">> \in Names /\ (Len(y.lib_name) > 1 => Tail(y.lib_name) \in Names)
    BY DEF Names, Zygisk
  <2> DEFINE prop == IF Len(y.lib_name) > 1 THEN Tail(y.lib_name) ELSE <<"0">>
             x == [y EXCEPT !.nbprop = prop, !.lib_name = <<>>]
  <2>2. RestoreProp(y) = x
    BY DEF RestoreProp
  <2>3. prop \in Names
    BY <2>1
  <2>4. x \in Zygisk /\ x.sockets = y.sockets
    <3> HIDE DEF prop
    <3> QED
      BY <2>1, <2>3 DEF Zygisk
  <2>5. QED
    BY <2>2, <2>4
<1>4. [z EXCEPT !.start_count = 1] \in Zygisk /\ [z EXCEPT !.start_count = 1].sockets = z.sockets
  BY DEF Zygisk
<1>5. Reset(z, TRUE) \in Zygisk /\ Reset(z, TRUE).sockets = z.sockets
  BY <1>3, <1>4 DEF Reset
<1>6. ASSUME NEW n \in Nat
      PROVE  LET y == [z EXCEPT !.start_count = n, !.sockets = NoSockets] IN y \in Zygisk /\ y.sockets = NoSockets
  <2>1. NoSockets \in [Abis -> Companions \cup {NoSocket}]
    BY DEF NoSockets
  <2>2. QED
    BY <2>1 DEF Zygisk
<1>7. Reset(z, FALSE) \in Zygisk /\ Reset(z, FALSE).sockets = NoSockets
  <2>1. z.start_count + 1 \in Nat
    BY DEF Zygisk
  <2>2. QED
    BY <1>2, <1>3, <1>6, <2>1 DEF Reset
<1>8. QED
  BY <1>2, <1>3, <1>5, <1>7

(* At first no socket is stored and no companion runs.                       *)
LEMMA FreshInit == RequestInit => FreshInv
<1> SUFFICES ASSUME RequestInit PROVE FreshInv
  OBVIOUS
<1>1. RequestTypeOK
  BY MixesAssumption DEF RequestInit, RequestTypeOK, Zygisk, Names, NewZygisk, NoSockets, Companion, NoCompanion
<1>2. HoldersHold
  BY HeldAtStart DEF RequestInit, HoldersHold
<1>3. ForksAreFresh
  <2>1. \A c \in Clients : Step(c) # Do("ack")
    BY DEF RequestInit, Step, Do
  <2>2. QED
    BY <2>1 DEF RequestInit, ForksAreFresh, NoCompanion
<1>4. SocketsAreFresh
  BY DEF RequestInit, SocketsAreFresh, NewZygisk, NoSockets
<1>5. QED
  BY <1>1, <1>2, <1>3, <1>4 DEF FreshInv

-----------------------------------------------------------------------------
(* Steps of the handlers *)

(* Instructions of different kinds differ.                                   *)
LEMMA Distinct ==
  /\ \A v, w : Do(v) = Do(w) <=> v = w
  /\ \A l, w : Lock(l) # Do(w) /\ Unlock(l) # Do(w)
  /\ \A w : Do(w) # <<"none", "none">> /\ Do(w)[1] = "do" /\ Do(w)[2] = w
  /\ \A l : Lock(l) # <<"none", "none">> /\ Lock(l)[1] = "lock" /\ Lock(l)[2] = l
  /\ \A l : Unlock(l) # <<"none", "none">> /\ Unlock(l)[1] = "unlock" /\ Unlock(l)[2] = l
  BY DEF Lock, Unlock, Do

(* A client with a next instruction is inside its program.                   *)
LEMMA StepOf ==
  ASSUME RequestTypeOK, NEW c \in Clients, Step(c) # <<"none", "none">>
  PROVE  /\ kind[c] \in DOMAIN Program /\ pc[c] \in 1 .. Len(Program[kind[c]]) /\ pc[c] \in Nat
         /\ Len(Program[kind[c]]) \in Nat /\ pc[c] <= Len(Program[kind[c]])
         /\ Step(c) = Program[kind[c]][pc[c]] /\ Step(c) \in Instructions
  BY Programs DEF RequestTypeOK, Step

(* What the kind of the next instruction says of it.                         *)
LEMMA StepKinds ==
  ASSUME RequestTypeOK, NEW c \in Clients
  PROVE  /\ Step(c)[1] = "lock" => Step(c)[2] \in Locks /\ Step(c) = Lock(Step(c)[2]) /\ Step(c) # <<"none", "none">>
         /\ Step(c)[1] = "unlock" => Step(c)[2] \in Locks /\ Step(c) = Unlock(Step(c)[2]) /\ Step(c) # <<"none", "none">>
<1>1. CASE Step(c) = <<"none", "none">>
  BY <1>1
<1>2. CASE Step(c) # <<"none", "none">>
  <2>1. \/ \E l \in Locks : Step(c) = Lock(l)
        \/ \E l \in Locks : Step(c) = Unlock(l)
        \/ \E w \in Works : Step(c) = Do(w)
    BY <1>2, StepOf DEF Instructions
  <2>2. QED
    BY <2>1, Distinct
<1>3. QED
  BY <1>1, <1>2

(* A handler gets to the ack only from the send before it.                   *)
LEMMA AckFollowsSend ==
  ASSUME RequestTypeOK, NEW c \in Clients, Step(c) # <<"none", "none">>, Step(c) # Do("send"),
         pc[c] + 1 <= Len(Program[kind[c]])
  PROVE  Program[kind[c]][pc[c] + 1] # Do("ack")
<1>1. /\ kind[c] \in DOMAIN Program /\ pc[c] \in Nat /\ Len(Program[kind[c]]) \in Nat
      /\ Step(c) = Program[kind[c]][pc[c]]
  BY StepOf
<1>2. pc[c] + 1 \in 1 .. Len(Program[kind[c]])
  BY <1>1
<1>3. SUFFICES ASSUME Program[kind[c]][pc[c] + 1] = Do("ack") PROVE FALSE
  OBVIOUS
<1>4. Program[kind[c]] = ConnectZygiskd /\ pc[c] + 1 = 5
  BY <1>1, <1>2, <1>3, ConnectSteps
<1>5. pc[c] = 4 /\ ConnectZygiskd[4] = Do("send")
  BY <1>1, <1>4 DEF ConnectZygiskd
<1>6. QED
  BY <1>1, <1>4, <1>5

(* Nobody else works on zygisk.                                              *)
LEMMA ZygiskIsOwned ==
  ASSUME RequestTypeOK, HoldersHold, NEW c \in Clients, NEW w \in OnZygisk, Step(c) = Do(w)
  PROVE  holder["zygisk"] = c
<1>1. Step(c) # <<"none", "none">>
  BY Distinct
<1>2. pc[c] <= Len(Program[kind[c]]) /\ "zygisk" \in Held(kind[c], pc[c])
  BY <1>1, StepOf, ZygiskIsLocked
<1>3. QED
  BY <1>2 DEF HoldersHold

(* A move to an instruction other than the wait for the ack keeps what is    *)
(* known of companions that start.                                           *)
LEMMA ForksStay ==
  ASSUME RequestTypeOK, ForksAreFresh, UNCHANGED <<kind, comp, started, restarts>>,
         NEW c \in Clients, NEW m \in Nat, pc' = [pc EXCEPT ![c] = m],
         m <= Len(Program[kind[c]]) => Program[kind[c]][m] # Do("ack")
  PROVE  ForksAreFresh'
<1>1. ASSUME NEW d \in Clients, Step(d)' = Do("ack") PROVE Step(d) = Do("ack")
  <2>1. kind[d] \in DOMAIN Program /\ pc[d] \in Nat /\ Len(Program[kind[d]]) \in Nat
    BY Programs DEF RequestTypeOK
  <2>2. CASE d # c
    BY <1>1, <2>2 DEF Step, RequestTypeOK
  <2>3. CASE d = c
    <3>1. pc'[c] = m
      BY DEF RequestTypeOK
    <3>2. Step(c)' = Program[kind[c]][m] /\ m <= Len(Program[kind[c]])
      BY <1>1, <2>1, <2>3, <3>1, Distinct DEF Step
    <3>3. QED
      BY <1>1, <2>3, <3>2
  <2>4. QED
    BY <2>2, <2>3
<1>2. QED
  BY <1>1 DEF ForksAreFresh

(* A step on nothing but the handler's own position.                         *)
LEMMA PlainStep ==
  ASSUME FreshInv, NEW c \in Clients, NEW w \in Works \ {"send"}, Step(c) = Do(w), Advance(c, 1),
         UNCHANGED <<kind, holder>>
  PROVE  /\ pc' \in [Clients -> Nat] /\ HoldersHold'
         /\ UNCHANGED <<comp, started, restarts>> => ForksAreFresh'
<1>1. RequestTypeOK /\ HoldersHold /\ ForksAreFresh
  BY DEF FreshInv
<1>2. Step(c) # <<"none", "none">> /\ Step(c) # Do("send")
  BY Distinct
<1>3. /\ kind[c] \in DOMAIN Program /\ pc[c] \in Nat /\ pc[c] \in 1 .. Len(Program[kind[c]])
      /\ pc[c] <= Len(Program[kind[c]])
      /\ Program[kind[c]][pc[c]] = Do(w)
  BY <1>1, <1>2, StepOf
<1>4. Held(kind[c], pc[c] + 1) = Held(kind[c], pc[c])
  BY <1>3, HeldStep
<1>5. pc' = [pc EXCEPT ![c] = pc[c] + 1] /\ pc[c] + 1 \in Nat
  BY <1>3 DEF Advance
<1>6. HoldersHold'
  BY <1>1, <1>3, <1>4, <1>5, MoveKeepsLocks
<1>7. UNCHANGED <<comp, started, restarts>> => ForksAreFresh'
  BY <1>1, <1>2, <1>5, AckFollowsSend, ForksStay
<1>8. QED
  BY <1>1, <1>5, <1>6, <1>7 DEF RequestTypeOK

(* The accept loop takes a request.                                          *)
LEMMA AcceptStep ==
  ASSUME FreshInv, NEW c \in Clients, Accept(c)
  PROVE  FreshInv'
<1> USE DEF FreshInv
<1>1. pc' = [pc EXCEPT ![c] = 1] /\ pc[c] = 0 /\ UNCHANGED <<kind, holder, zygisk, comp, started, restarts>>
  BY DEF Accept, watch
<1>2. kind[c] \in DOMAIN Program /\ Len(Program[kind[c]]) \in Nat
  BY Programs DEF RequestTypeOK
<1>3. RequestTypeOK'
  BY <1>1 DEF RequestTypeOK
<1>4. HoldersHold'
  <2>1. Held(kind[c], 1) = Held(kind[c], pc[c]) /\ pc[c] <= Len(Program[kind[c]])
    BY <1>1, <1>2, HeldAtStart
  <2>2. QED
    BY <1>1, <2>1, MoveKeepsLocks
<1>5. 1 <= Len(Program[kind[c]]) => Program[kind[c]][1] # Do("ack")
  BY <1>2, ConnectSteps
<1>6. ForksAreFresh'
  BY <1>1, <1>5, ForksStay
<1>7. SocketsAreFresh'
  BY <1>1 DEF SocketsAreFresh
<1>8. QED
  BY <1>3, <1>4, <1>6, <1>7

(* A handler gets a lock.                                                    *)
LEMMA AcquireStep ==
  ASSUME FreshInv, NEW c \in Clients, Acquire(c)
  PROVE  FreshInv'
<1> USE DEF FreshInv
<1> DEFINE l == Step(c)[2]
<1>1. l \in Locks /\ Step(c) = Lock(l) /\ Step(c) # <<"none", "none">>
  BY StepKinds DEF Acquire
<1>2. /\ kind[c] \in DOMAIN Program /\ pc[c] \in 1 .. Len(Program[kind[c]])
      /\ pc[c] + 1 \in Nat /\ pc[c] \in Nat /\ pc[c] <= Len(Program[kind[c]])
      /\ Program[kind[c]][pc[c]] = Lock(l) /\ Step(c) # Do("send")
  BY <1>1, StepOf, Distinct
<1>3. /\ holder[l] = Nobody /\ holder' = [holder EXCEPT ![l] = c] /\ pc' = [pc EXCEPT ![c] = pc[c] + 1]
      /\ UNCHANGED <<kind, zygisk, comp, started, restarts>>
  BY DEF Acquire, Advance, watch
<1> HIDE DEF l
<1>4. RequestTypeOK'
  BY <1>1, <1>2, <1>3 DEF RequestTypeOK
<1>5. HoldersHold'
  <2>1. Held(kind[c], pc[c] + 1) = Held(kind[c], pc[c]) \cup {l}
    BY <1>1, <1>2, HeldStep
  <2>2. ASSUME NEW d \in Clients, pc'[d] <= Len(Program[kind[d]]), NEW m \in Held(kind[d], pc'[d])
        PROVE  holder'[m] = d
    <3>1. m \in Locks
      BY DEF Held
    <3>2. CASE d = c
      BY <1>1, <1>2, <1>3, <2>1, <2>2, <3>1, <3>2 DEF HoldersHold, RequestTypeOK
    <3>3. CASE d # c
      BY <1>1, <1>3, <2>2, <3>1, <3>3, RequestsAssumption DEF HoldersHold, RequestTypeOK, Nobody
    <3>4. QED
      BY <3>2, <3>3
  <2>3. ASSUME NEW m \in Locks, holder'[m] # Nobody PROVE m \in Held(kind[holder'[m]], pc'[holder'[m]])
    BY <1>1, <1>2, <1>3, <2>1, <2>3 DEF HoldersHold, RequestTypeOK
  <2>4. QED
    BY <1>3, <2>2, <2>3 DEF HoldersHold
<1>6. ForksAreFresh'
  BY <1>1, <1>2, <1>3, AckFollowsSend, ForksStay
<1>7. SocketsAreFresh'
  BY <1>3 DEF SocketsAreFresh
<1>8. QED
  BY <1>4, <1>5, <1>6, <1>7

(* A handler gives a lock back.                                              *)
LEMMA ReleaseStep ==
  ASSUME FreshInv, NEW c \in Clients, Release(c)
  PROVE  FreshInv'
<1> USE DEF FreshInv
<1> DEFINE l == Step(c)[2]
<1>1. l \in Locks /\ Step(c) = Unlock(l) /\ Step(c) # <<"none", "none">>
  BY StepKinds DEF Release
<1>2. /\ kind[c] \in DOMAIN Program /\ pc[c] \in 1 .. Len(Program[kind[c]])
      /\ pc[c] + 1 \in Nat /\ pc[c] \in Nat /\ pc[c] <= Len(Program[kind[c]])
      /\ Program[kind[c]][pc[c]] = Unlock(l) /\ Step(c) # Do("send")
  BY <1>1, StepOf, Distinct
<1>3. /\ holder' = [holder EXCEPT ![l] = Nobody] /\ pc' = [pc EXCEPT ![c] = pc[c] + 1]
      /\ UNCHANGED <<kind, zygisk, comp, started, restarts>>
  BY DEF Release, Advance, watch
<1> HIDE DEF l
<1>4. RequestTypeOK'
  BY <1>1, <1>2, <1>3 DEF RequestTypeOK
<1>5. HoldersHold'
  <2>1. Held(kind[c], pc[c] + 1) = Held(kind[c], pc[c]) \ {l}
    BY <1>1, <1>2, HeldStep
  <2>2. l \in Held(kind[c], pc[c])
    BY <1>2, UnlocksAreOwned
  <2>3. holder[l] = c
    BY <1>1, <1>2, <2>2, StepOf DEF HoldersHold
  <2>4. QED
    BY <1>1, <1>2, <1>3, <2>1, <2>3, StepOf, SMTT(30) DEF HoldersHold, RequestTypeOK
<1>6. ForksAreFresh'
  BY <1>1, <1>2, <1>3, AckFollowsSend, ForksStay
<1>7. SocketsAreFresh'
  BY <1>3 DEF SocketsAreFresh
<1>8. QED
  BY <1>4, <1>5, <1>6, <1>7

(* Statement, Talk and ShellEnds move on and do nothing else.                *)
LEMMA QuietStep ==
  ASSUME FreshInv, NEW c \in Clients, Statement(c) \/ Talk(c) \/ ShellEnds(c)
  PROVE  FreshInv'
<1> USE DEF FreshInv
<1>1. PICK w \in Works \ {"send"} : Step(c) = Do(w)
  BY DEF Statement, Talk, ShellEnds, Works, Sql
<1>2. Advance(c, 1) /\ UNCHANGED <<kind, holder, zygisk, comp, started, restarts>>
  BY DEF Statement, Talk, ShellEnds, watch
<1>3. pc' \in [Clients -> Nat] /\ HoldersHold' /\ ForksAreFresh'
  BY <1>1, <1>2, PlainStep
<1>4. RequestTypeOK' /\ SocketsAreFresh'
  BY <1>2, <1>3 DEF RequestTypeOK, SocketsAreFresh
<1>5. QED
  BY <1>3, <1>4

(* A client is gone before its request was read.                             *)
LEMMA ReadFailsStep ==
  ASSUME FreshInv, NEW c \in Clients, ReadFails(c)
  PROVE  FreshInv'
<1> USE DEF FreshInv
<1>1. Step(c) = Do("read") /\ Step(c) # <<"none", "none">>
  BY Distinct DEF ReadFails
<1>2. kind[c] \in DOMAIN Program /\ Program[kind[c]] = ConnectZygiskd /\ pc[c] = 2 /\ pc[c] <= Len(Program[kind[c]])
  BY <1>1, StepOf, ConnectSteps
<1>3. pc' = [pc EXCEPT ![c] = 6] /\ UNCHANGED <<kind, holder, zygisk, comp, started, restarts>>
  BY <1>2 DEF ReadFails, Advance
<1>4. RequestTypeOK' /\ SocketsAreFresh'
  BY <1>3 DEF RequestTypeOK, SocketsAreFresh
<1>5. HoldersHold'
  <2>1. Held(kind[c], 6) = {"zygisk"} /\ Held(kind[c], 2) = {"zygisk"}
    BY <1>2, HeldInConnect
  <2>2. QED
    BY <1>2, <1>3, <2>1, MoveKeepsLocks
<1>6. Program[kind[c]][6] # Do("ack")
  BY <1>2, Distinct DEF ConnectZygiskd
<1>7. ForksAreFresh'
  BY <1>3, <1>6, ForksStay
<1>8. QED
  BY <1>4, <1>5, <1>7

(* A handler works under its locks; a zygote restart drops the sockets.      *)
LEMMA WorkStep ==
  ASSUME FreshInv, NEW c \in Clients, Work(c)
  PROVE  FreshInv'
<1> USE DEF FreshInv
<1>1. PICK w \in {"inject", "restore", "restart"} : Step(c) = Do(w) /\ Step(c)[2] = w
  BY Distinct DEF Work
<1>2. Advance(c, 1) /\ UNCHANGED <<kind, holder, comp, started>>
  BY DEF Work
<1>3. pc' \in [Clients -> Nat] /\ HoldersHold' /\ (UNCHANGED restarts => ForksAreFresh')
  BY <1>1, <1>2, PlainStep DEF Works
<1>4. zygisk \in Zygisk /\ restarts \in Nat
  BY DEF RequestTypeOK
<1>5. CASE w # "restart"
  <2>1. restarts' = restarts /\ zygisk' \in Zygisk /\ zygisk'.sockets = zygisk.sockets
    BY <1>1, <1>4, <1>5, ZygiskTypes DEF Work
  <2>2. RequestTypeOK' /\ SocketsAreFresh'
    BY <1>2, <1>3, <2>1 DEF RequestTypeOK, SocketsAreFresh
  <2>3. QED
    BY <1>3, <2>1, <2>2
<1>6. CASE w = "restart"
  <2>1. restarts' \in Nat /\ zygisk' \in Zygisk /\ zygisk'.sockets = NoSockets
    <3>1. restarts' = restarts + 1 /\ zygisk' = Reset(zygisk, FALSE)
      BY <1>1, <1>6 DEF Work
    <3>2. restarts' \in Nat
      BY <1>4, <3>1
    <3>3. Reset(zygisk, FALSE) \in Zygisk /\ Reset(zygisk, FALSE).sockets = NoSockets
      BY <1>4, ZygiskTypes
    <3>4. QED
      BY <3>1, <3>2, <3>3
  <2>2. RequestTypeOK' /\ SocketsAreFresh'
    BY <1>2, <1>3, <2>1 DEF RequestTypeOK, SocketsAreFresh, NoSockets
  <2>3. ASSUME NEW d \in Clients, Step(d)' = Do("ack") PROVE FALSE
    <3>1. CASE d # c
      <4>1. Step(d) = Do("ack")
        BY <1>2, <2>3, <3>1 DEF Step, Advance, RequestTypeOK
      <4>2. holder["zygisk"] = d /\ holder["zygisk"] = c
        BY <1>1, <1>6, <4>1, ZygiskIsOwned DEF OnZygisk
      <4>3. QED
        BY <3>1, <4>2
    <3>2. CASE d = c
      <4>1. Step(c) # <<"none", "none">> /\ Step(c) # Do("send") /\ Do("ack") # <<"none", "none">>
        BY <1>1, Distinct
      <4>2. pc'[c] = pc[c] + 1 /\ Step(c)' = Program[kind[c]][pc[c] + 1] /\ pc[c] + 1 <= Len(Program[kind[c]])
        <5>1. pc'[c] = pc[c] + 1 /\ kind' = kind
          BY <1>2 DEF Advance, RequestTypeOK
        <5>2. Step(c)' = Do("ack")
          BY <2>3, <3>2
        <5>3. /\ pc'[c] \in 1 .. Len(Program[kind[c]])
              /\ Step(c)' = Program[kind[c]][pc'[c]]
          BY <4>1, <5>1, <5>2 DEF Step
        <5>4. QED
          BY <4>1, <5>1, <5>3, StepOf
      <4>3. QED
        BY <2>3, <3>2, <4>1, <4>2, AckFollowsSend
    <3>3. QED
      BY <3>1, <3>2
  <2>4. ForksAreFresh'
    BY <1>2, <2>3 DEF ForksAreFresh
  <2>5. QED
    BY <1>3, <2>2, <2>4
<1>7. QED
  BY <1>5, <1>6

(* connect_zygiskd looks at the stored socket.                               *)
LEMMA PollStep ==
  ASSUME FreshInv, NEW c \in Clients, Poll(c)
  PROVE  FreshInv'
<1> USE DEF FreshInv
<1>1. Step(c) = Do("poll") /\ Advance(c, 1) /\ UNCHANGED <<kind, holder, comp, started, restarts>>
  BY DEF Poll, watch
<1>2. pc' \in [Clients -> Nat] /\ HoldersHold' /\ ForksAreFresh'
  BY <1>1, PlainStep DEF Works
<1>3. zygisk' = zygisk \/ zygisk' = [zygisk EXCEPT !.sockets[Abi(c)] = NoSocket]
  BY DEF Poll
<1>4. zygisk' \in Zygisk /\ \A a \in Abis : zygisk'.sockets[a] \in {zygisk.sockets[a], NoSocket}
  <2>1. zygisk \in Zygisk /\ zygisk.sockets \in [Abis -> Companions \cup {NoSocket}]
    BY DEF RequestTypeOK, Zygisk
  <2>2. QED
    BY <1>3, <2>1 DEF Zygisk
<1>5. RequestTypeOK' /\ SocketsAreFresh'
  BY <1>1, <1>2, <1>4 DEF RequestTypeOK, SocketsAreFresh
<1>6. QED
  BY <1>2, <1>5

(* The companions change, but not when they were born, and no ack is undone. *)
CompanionsGoOn ==
  /\ comp' \in [Companions -> Companion]
  /\ \A i \in Companions :
       /\ comp'[i].born = comp[i].born
       /\ comp[i].acked => comp'[i].acked
       /\ comp[i].state # "none" => comp'[i].state # "none"
       /\ comp'[i].acked => comp'[i].state # "none"

(* Handing a connection to a companion leaves the companion as it was        *)
(* otherwise.                                                                *)
LEMMA HandedTo ==
  ASSUME RequestTypeOK, ForksAreFresh, NEW i \in Companions, NEW c \in Clients, HandTo(i, c)
  PROVE  CompanionsGoOn
  BY DEF RequestTypeOK, ForksAreFresh, HandTo, CompanionsGoOn, Companion

(* connect_zygiskd hands the connection over.                                *)
LEMMA SendStep ==
  ASSUME FreshInv, NEW c \in Clients, Send(c)
  PROVE  FreshInv'
<1> USE DEF FreshInv
<1>1. Step(c) = Do("send") /\ Step(c) # <<"none", "none">>
  BY Distinct DEF Send
<1>2. kind[c] \in DOMAIN Program /\ Program[kind[c]] = ConnectZygiskd /\ pc[c] = 4 /\ pc[c] <= Len(Program[kind[c]])
  BY <1>1, StepOf, ConnectSteps
<1>3. pc' = [pc EXCEPT ![c] = 6] /\ UNCHANGED <<kind, holder, zygisk, started, restarts>>
  BY <1>2 DEF Send, Advance, watch
<1>4. CompanionsGoOn
  <2>1. Abi(c) \in Abis
    BY DEF Abi, Abis
  <2>2. zygisk.sockets[Abi(c)] \in Companions
    BY <2>1 DEF Send, RequestTypeOK, Zygisk
  <2>3. QED
    BY <2>2, HandedTo DEF Send
<1>5. RequestTypeOK'
  BY <1>3, <1>4 DEF RequestTypeOK, CompanionsGoOn
<1>6. SocketsAreFresh'
  BY <1>3, <1>4 DEF RequestTypeOK, SocketsAreFresh, CompanionsGoOn, Zygisk
<1>7. HoldersHold'
  <2>1. Held(kind[c], 6) = {"zygisk"} /\ Held(kind[c], 4) = {"zygisk"}
    BY <1>2, HeldInConnect
  <2>2. QED
    BY <1>2, <1>3, <2>1, MoveKeepsLocks
<1>8. ASSUME NEW d \in Clients, Step(d)' = Do("ack") PROVE Step(d) = Do("ack")
  <2>1. CASE d # c
    BY <1>3, <1>8, <2>1 DEF Step, RequestTypeOK
  <2>2. CASE d = c
    <3>1. Step(c)' = Unlock("zygisk")
      BY <1>2, <1>3 DEF Step, RequestTypeOK, ConnectZygiskd
    <3>2. QED
      BY <1>8, <2>2, <3>1, Distinct
  <2>3. QED
    BY <2>1, <2>2
<1>9. ForksAreFresh'
  BY <1>3, <1>4, <1>8 DEF ForksAreFresh, CompanionsGoOn
<1>10. QED
  BY <1>5, <1>6, <1>7, <1>9

(* connect_zygiskd starts a companion, with the zygisk lock held.            *)
LEMMA ForkStep ==
  ASSUME FreshInv, NEW c \in Clients, ForkZygiskd(c)
  PROVE  FreshInv'
<1> USE DEF FreshInv
<1>1. Step(c) = Do("send") /\ Step(c) # <<"none", "none">>
  BY Distinct DEF ForkZygiskd
<1>2. kind[c] \in DOMAIN Program /\ Program[kind[c]] = ConnectZygiskd /\ pc[c] = 4 /\ pc[c] <= Len(Program[kind[c]])
  BY <1>1, StepOf, ConnectSteps
<1>3. pc' = [pc EXCEPT ![c] = 5] /\ UNCHANGED <<kind, holder, zygisk, restarts>>
  BY <1>2 DEF ForkZygiskd, Advance, watch
<1> DEFINE new == [NoCompanion EXCEPT !.state = "starting", !.born = restarts]
<1>4. PICK i \in Companions :
        comp[i].state = "none" /\ started' = [started EXCEPT ![c] = i] /\ comp' = [comp EXCEPT ![i] = new]
  BY DEF ForkZygiskd
<1>5. new \in Companion /\ new.state = "starting" /\ ~new.acked /\ new.born = restarts
  BY DEF NoCompanion, Companion, RequestTypeOK
<1> HIDE DEF new
<1>6. RequestTypeOK'
  BY <1>3, <1>4, <1>5 DEF RequestTypeOK
<1>7. HoldersHold'
  <2>1. Held(kind[c], 5) = {"zygisk"} /\ Held(kind[c], 4) = {"zygisk"}
    BY <1>2, HeldInConnect
  <2>2. QED
    BY <1>2, <1>3, <2>1, MoveKeepsLocks
<1>8. SocketsAreFresh'
  <2>1. ~comp[i].acked
    BY <1>4 DEF ForksAreFresh
  <2>2. QED
    BY <1>3, <1>4, <2>1 DEF SocketsAreFresh, RequestTypeOK, Zygisk
<1>9. ForksAreFresh'
  <2>1. ASSUME NEW d \in Clients, Step(d)' = Do("ack")
        PROVE  started'[d] \in Companions /\ comp'[started'[d]].state # "none" /\ comp'[started'[d]].born = restarts
    <3>1. CASE d # c
      <4>1. Step(d) = Do("ack")
        BY <1>3, <2>1, <3>1 DEF Step, RequestTypeOK
      <4>2. QED
        BY <1>4, <3>1, <4>1 DEF ForksAreFresh, RequestTypeOK
    <3>2. CASE d = c
      BY <1>4, <1>5, <3>2 DEF RequestTypeOK
    <3>3. QED
      BY <3>1, <3>2
  <2>2. \A j \in Companions : comp'[j].acked => comp'[j].state # "none"
    BY <1>4, <1>5 DEF ForksAreFresh, RequestTypeOK
  <2>3. QED
    BY <1>3, <2>1, <2>2 DEF ForksAreFresh
<1>10. QED
  BY <1>6, <1>7, <1>8, <1>9

(* The companion answers, and its socket is stored.                          *)
LEMMA AckStep ==
  ASSUME FreshInv, NEW c \in Clients, ReadAck(c)
  PROVE  FreshInv'
<1> USE DEF FreshInv
<1>1. Step(c) = Do("ack") /\ Step(c) # <<"none", "none">>
  BY Distinct DEF ReadAck
<1>2. kind[c] \in DOMAIN Program /\ Program[kind[c]] = ConnectZygiskd /\ pc[c] = 5 /\ pc[c] <= Len(Program[kind[c]])
  BY <1>1, StepOf, ConnectSteps
<1>3. /\ pc' = [pc EXCEPT ![c] = 6] /\ UNCHANGED <<kind, holder, restarts>>
      /\ started' = [started EXCEPT ![c] = NoSocket]
      /\ zygisk' = [zygisk EXCEPT !.sockets[Abi(c)] = started[c]]
  BY <1>2 DEF ReadAck, Advance, watch
<1>4. started[c] \in Companions /\ comp[started[c]].acked /\ comp[started[c]].born = restarts
  BY <1>1 DEF ForksAreFresh, ReadAck
<1>5. CompanionsGoOn
  BY <1>4, HandedTo DEF ReadAck
<1>6. zygisk' \in Zygisk /\ \A a \in Abis : zygisk'.sockets[a] \in {zygisk.sockets[a], started[c]}
  <2>1. zygisk \in Zygisk /\ zygisk.sockets \in [Abis -> Companions \cup {NoSocket}]
    BY DEF RequestTypeOK, Zygisk
  <2>2. QED
    BY <1>3, <1>4, <2>1 DEF Zygisk
<1>7. RequestTypeOK'
  BY <1>3, <1>5, <1>6 DEF RequestTypeOK, CompanionsGoOn
<1>8. SocketsAreFresh'
  BY <1>3, <1>4, <1>5, <1>6 DEF RequestTypeOK, SocketsAreFresh, CompanionsGoOn, Zygisk
<1>9. HoldersHold'
  <2>1. Held(kind[c], 6) = {"zygisk"} /\ Held(kind[c], 5) = {"zygisk"}
    BY <1>2, HeldInConnect
  <2>2. QED
    BY <1>2, <1>3, <2>1, MoveKeepsLocks
<1>10. ASSUME NEW d \in Clients, Step(d)' = Do("ack") PROVE Step(d) = Do("ack") /\ d # c
  <2>1. CASE d # c
    BY <1>3, <1>10, <2>1 DEF Step, RequestTypeOK
  <2>2. CASE d = c
    <3>1. Step(c)' = Unlock("zygisk")
      BY <1>2, <1>3 DEF Step, RequestTypeOK, ConnectZygiskd
    <3>2. QED
      BY <1>10, <2>2, <3>1, Distinct
  <2>3. QED
    BY <2>1, <2>2
<1>11. ForksAreFresh'
  BY <1>3, <1>5, <1>10 DEF ForksAreFresh, CompanionsGoOn, RequestTypeOK
<1>12. QED
  BY <1>7, <1>8, <1>9, <1>11

(* STOP_DAEMON ends magiskd and with it every handler.                       *)
LEMMA ExitStep ==
  ASSUME FreshInv, NEW c \in Clients, Exit(c)
  PROVE  FreshInv'
<1> USE DEF FreshInv
<1>1. /\ pc' = [d \in Clients |-> Len(Program[kind[d]]) + 1] /\ holder' = [l \in Locks |-> Nobody]
      /\ zygisk' = [RestoreProp(zygisk) EXCEPT !.sockets = NoSockets]
      /\ started' = [d \in Clients |-> NoSocket] /\ UNCHANGED <<kind, comp, restarts>>
  BY DEF Exit, watch
<1>2. \A d \in Clients : Len(Program[kind[d]]) \in Nat
  BY Programs DEF RequestTypeOK
<1>3. zygisk' \in Zygisk /\ zygisk'.sockets = NoSockets
  <2>1. RestoreProp(zygisk) \in Zygisk
    BY ZygiskTypes DEF RequestTypeOK
  <2>2. NoSockets \in [Abis -> Companions \cup {NoSocket}]
    BY DEF NoSockets
  <2>3. QED
    BY <1>1, <2>1, <2>2 DEF Zygisk
<1>4. RequestTypeOK'
  BY <1>1, <1>2, <1>3 DEF RequestTypeOK
<1>5. HoldersHold'
  BY <1>1, <1>2 DEF HoldersHold
<1>6. \A d \in Clients : Step(d)' # Do("ack")
  BY <1>1, <1>2, Distinct DEF Step
<1>7. ForksAreFresh' /\ SocketsAreFresh'
  BY <1>1, <1>3, <1>6 DEF ForksAreFresh, SocketsAreFresh, NoSockets
<1>8. QED
  BY <1>4, <1>5, <1>7

(* A zygiskd process gets ready, serves, or ends.                            *)
LEMMA CompanionStep ==
  ASSUME FreshInv, NEW i \in Companions, Zygiskd(i) \/ StartFails(i) \/ Crash(i)
  PROVE  FreshInv'
<1> USE DEF FreshInv
<1>1. UNCHANGED <<kind, pc, holder, zygisk, started, restarts>>
  BY DEF Zygiskd, Ready, Serve, ExitHungUp, StartFails, Crash, DaemonStays
<1>2. CompanionsGoOn
  <2> USE DEF CompanionsGoOn, RequestTypeOK, ForksAreFresh, Companion
  <2>1. CASE Ready(i)
    BY <2>1, ZenonT(60) DEF Ready
  <2>2. CASE \E c \in Clients : Serve(i, c)
    BY <2>2 DEF Serve
  <2>3. CASE ExitHungUp(i)
    BY <2>3 DEF ExitHungUp
  <2>4. CASE StartFails(i)
    BY <2>4 DEF StartFails
  <2>5. CASE Crash(i)
    <3>1. comp[i].state = "ready" /\ comp' = [comp EXCEPT ![i].state = "dead", ![i].inbox = {}]
      BY <2>5 DEF Crash
    <3>2. comp \in [Companions -> Companion] /\ comp[i] \in Companion
      OBVIOUS
    <3>3. QED
      BY <3>1, <3>2
  <2>6. QED
    BY <2>1, <2>2, <2>3, <2>4, <2>5 DEF Zygiskd
<1>3. \A c \in Clients : Step(c)' = Step(c)
  BY <1>1 DEF Step
<1>4. RequestTypeOK'
  BY <1>1, <1>2 DEF RequestTypeOK, CompanionsGoOn
<1>5. HoldersHold'
  BY <1>1 DEF HoldersHold
<1>6. ForksAreFresh'
  BY <1>1, <1>2, <1>3 DEF ForksAreFresh, CompanionsGoOn
<1>7. SocketsAreFresh'
  BY <1>1, <1>2 DEF RequestTypeOK, SocketsAreFresh, CompanionsGoOn, Zygisk
<1>8. QED
  BY <1>4, <1>5, <1>6, <1>7

(* Every step of magiskd and of the companions keeps the invariant.          *)
LEMMA FreshStep == FreshInv /\ [RequestNext]_requestVars => FreshInv'
<1> SUFFICES ASSUME FreshInv, [RequestNext]_requestVars PROVE FreshInv'
  OBVIOUS
<1>1. ASSUME NEW c \in Clients, Accept(c) \/ Handle(c) \/ ReadFails(c) \/ ShellEnds(c) PROVE FreshInv'
  BY <1>1, AcceptStep, AcquireStep, ReleaseStep, QuietStep, ReadFailsStep, WorkStep, PollStep, SendStep,
     ForkStep, AckStep, ExitStep DEF Handle
<1>2. ASSUME NEW i \in Companions, Zygiskd(i) \/ StartFails(i) \/ Crash(i) PROVE FreshInv'
  BY <1>2, CompanionStep
<1>3. CASE UNCHANGED requestVars
  BY <1>3 DEF requestVars, FreshInv, RequestTypeOK, HoldersHold, ForksAreFresh, SocketsAreFresh, Step
<1>4. QED
  BY <1>1, <1>2, <1>3 DEF RequestNext

-----------------------------------------------------------------------------
(* Theorems *)

(* The invariant holds in every behaviour.                                   *)
LEMMA FreshAlways == RequestSpec => []FreshInv
  BY FreshInit, FreshStep, PTL DEF RequestSpec

(* For any number of clients, requests and companions: a stored socket leads *)
(* to a companion that acknowledged its modules and was started after the    *)
(* last zygote restart (connect_zygiskd, zygisk/daemon.rs:75-121).           *)
THEOREM SocketsStayFresh == RequestSpec => []SocketsAreFresh
<1>1. FreshInv => SocketsAreFresh
  BY DEF FreshInv
<1>2. QED
  BY <1>1, FreshAlways, PTL

(* The locks a client waits for: that of its next step, or of a statement.   *)
WaitsFor(c) == {l \in Locks : Step(c) = Lock(l) \/ (l = "sql" /\ Step(c) = Sql)}

(* A handler waits for a lock only while every lock it holds is before that  *)
(* one in the order boot_stage, data, zygisk, sql; so handlers never wait    *)
(* for each other in a circle (bootstages.rs:224, daemon.rs:158-189).        *)
LocksAreOrdered ==
  \A c \in Clients : \A l \in WaitsFor(c), m \in Locks : holder[m] = c => Rank(m) < Rank(l)

(* For any number of requests of any kinds: no circular wait for the locks   *)
(* of MagiskD, ZygiskState, the denylist and the database.                   *)
THEOREM LocksStayOrdered == RequestSpec => []LocksAreOrdered
<1>1. FreshInv => LocksAreOrdered
  <2> SUFFICES ASSUME FreshInv, NEW c \in Clients, NEW l \in WaitsFor(c), NEW m \in Locks, holder[m] = c
               PROVE  Rank(m) < Rank(l)
    BY DEF LocksAreOrdered
  <2>1. m \in Held(kind[c], pc[c])
    BY RequestsAssumption DEF FreshInv, HoldersHold, Nobody
  <2>2. Step(c) # <<"none", "none">>
    BY Distinct DEF WaitsFor, Sql
  <2>3. kind[c] \in DOMAIN Program /\ pc[c] \in 1 .. Len(Program[kind[c]]) /\ Step(c) = Program[kind[c]][pc[c]]
    BY <2>2, StepOf DEF FreshInv
  <2>4. QED
    BY <2>1, <2>3, OrderOfLocks DEF WaitsFor
<1>2. QED
  BY <1>1, FreshAlways, PTL
=============================================================================
