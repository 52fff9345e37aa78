--------------------------- MODULE ThreadPoolProofs ---------------------------
(***************************************************************************)
(* Proofs about ThreadPool for every finite set of threads, every core     *)
(* size and every number of tasks.                                         *)
(***************************************************************************)
EXTENDS ThreadPool, FiniteSetTheorems, TLAPS

IdlePc == {"wait", "woken", "timedout"}

CoreCounted == {t \in Counted : core[t]}

(* What an interrupted exec_task remembers: it has a task to submit.         *)
MainHasTask == main # "ready" => submitted < MaxTasks

(* Only expendable threads time out, and a thread runs iff it has a closure. *)
ThreadState ==
    \A t \in Threads :
        /\ pc[t] = "timedout" => ~core[t]
        /\ pc[t] = "run" <=> running[t] # NoTask

(* TypeOK without the two counters, whose ranges follow from CountersExact.  *)
Shape ==
    /\ idle_threads \in Int
    /\ total_threads \in Int
    /\ task \in Tasks \cup {NoTask}
    /\ pc \in [Threads -> PcValues]
    /\ core \in [Threads -> BOOLEAN]
    /\ running \in [Threads -> Tasks \cup {NoTask}]
    /\ main \in {"ready", "wait", "woken"}
    /\ submitted \in 0..MaxTasks
    /\ done \subseteq Tasks
    /\ MainHasTask
    /\ ThreadState

(* The inductive invariant for the counters.                                 *)
CountInv == Shape /\ CountersExact /\ CorePoolFilled

-----------------------------------------------------------------------------
(* The sets the counters count are finite. *)
LEMMA FiniteCounts ==
    /\ IsFiniteSet(Idle) /\ Cardinality(Idle) \in 0..Cardinality(Threads)
    /\ IsFiniteSet(Counted) /\ Cardinality(Counted) \in 0..Cardinality(Threads)
    /\ IsFiniteSet(CoreCounted) /\ Cardinality(CoreCounted) \in Nat
<1>1. Idle \subseteq Threads /\ Counted \subseteq Threads /\ CoreCounted \subseteq Threads
  BY DEF Idle, Counted, CoreCounted
<1>2. QED
  BY <1>1, FS_Subset, FS_CardinalityType, PoolAssumption

(* Cardinality after adding or removing one element of a finite set. *)
LEMMA CardStep ==
    ASSUME NEW S, IsFiniteSet(S), NEW x
    PROVE  /\ x \notin S => Cardinality(S \cup {x}) = Cardinality(S) + 1
           /\ x \in S => Cardinality(S \ {x}) = Cardinality(S) - 1
           /\ Cardinality(S) \in Nat
BY FS_AddElement, FS_RemoveElement, FS_CardinalityType

(* How a change of one thread's pc changes the counted sets. *)
LEMMA PcMove ==
    ASSUME Shape, NEW t \in Threads, NEW b \in PcValues,
           pc' = [pc EXCEPT ![t] = b]
    PROVE  /\ Idle' = IF b \in IdlePc THEN Idle \cup {t} ELSE Idle \ {t}
           /\ Counted' = IF b # "none" THEN Counted \cup {t} ELSE Counted \ {t}
           /\ core' = core => CoreCounted' =
                  IF b # "none" /\ core[t] THEN CoreCounted \cup {t} ELSE CoreCounted \ {t}
           /\ pc' \in [Threads -> PcValues]
BY DEF Shape, Idle, IdlePc, Counted, CoreCounted

(* A step that changes one thread's pc between two idle places, or between   *)
(* two places that are not idle, changes no counted set, provided the thread *)
(* exists before and after it.                                               *)
LEMMA PcMoveSame ==
    ASSUME CountInv, NEW t \in Threads, NEW b \in PcValues,
           pc' = [pc EXCEPT ![t] = b], core' = core,
           pc[t] # "none", b # "none", pc[t] \in IdlePc <=> b \in IdlePc,
           UNCHANGED <<idle_threads, total_threads>>
    PROVE  CountersExact' /\ CorePoolFilled' /\ pc' \in [Threads -> PcValues]
<1>1. Idle' = Idle
  BY PcMove DEF CountInv, Shape, Idle, IdlePc
<1>2. Counted' = Counted
  BY PcMove DEF CountInv, Shape, Counted
<1>3. CoreCounted' = CoreCounted
  BY <1>2 DEF CoreCounted
<1>4. QED
  BY <1>1, <1>2, <1>3, PcMove DEF CountInv, CountersExact, CorePoolFilled, CoreCounted

-----------------------------------------------------------------------------
(* The counters' invariant holds initially. *)
LEMMA CountInit == Init => CountInv
<1> SUFFICES ASSUME Init PROVE CountInv
  OBVIOUS
<1>1. Idle = {} /\ Counted = {} /\ CoreCounted = {}
  BY DEF Init, Idle, Counted, CoreCounted
<1>2. Shape
  BY PoolAssumption DEF Init, Shape, Tasks, NoTask, PcValues, MainHasTask, ThreadState
<1>3. QED
  BY <1>1, <1>2, FS_EmptySet, PoolAssumption
  DEF Init, CountInv, CountersExact, CorePoolFilled, CoreCounted

(* Taking the task: used at the loop head and by a woken thread. *)
LEMMA TakeTaskShape ==
    ASSUME CountInv, NEW t \in Threads, TakeTask(t),
           UNCHANGED <<total_threads, core, submitted, done>>,
           idle_threads' \in Int
    PROVE  Shape'
<1>1. PICK b \in {"start", "run"} : pc' = [pc EXCEPT ![t] = b]
  BY DEF TakeTask
<1>2. pc' \in [Threads -> PcValues]
  BY <1>1, PcMove DEF CountInv, PcValues
<1>3. ThreadState'
  BY DEF TakeTask, CountInv, Shape, ThreadState
<1>4. QED
  BY <1>2, <1>3 DEF TakeTask, NotifyTaskIsNone, CountInv, Shape, MainHasTask

(* Pool-thread steps keep the counters' invariant. *)
LEMMA CountPoolThread ==
    ASSUME CountInv, NEW t \in Threads, PoolThread(t)
    PROVE  CountInv'
<1> USE DEF CountInv
<1>1. CASE LoopHead(t)
  <2>1. CASE task = NoTask
    <3>1. /\ pc' = [pc EXCEPT ![t] = "wait"] /\ pc[t] = "start"
          /\ idle_threads' = idle_threads + 1
          /\ UNCHANGED <<task, running, main, total_threads, core, submitted, done>>
      BY <1>1, <2>1 DEF LoopHead
    <3>2. Idle' = Idle \cup {t} /\ t \notin Idle /\ Counted' = Counted
      BY <3>1, PcMove DEF Shape, PcValues, IdlePc, Idle, Counted
    <3>3. CoreCounted' = CoreCounted
      BY <3>1, <3>2 DEF CoreCounted
    <3>4. Cardinality(Idle') = Cardinality(Idle) + 1
      BY <3>2, FiniteCounts, CardStep
    <3>5. pc' \in [Threads -> PcValues]
      BY <3>1, PcMove DEF PcValues
    <3>6. Shape'
      BY <3>1, <3>5 DEF Shape, MainHasTask, ThreadState
    <3>7. QED
      BY <3>1, <3>2, <3>3, <3>4, <3>6 DEF CountersExact, CorePoolFilled, CoreCounted
  <2>2. CASE task # NoTask
    <3>1. /\ pc[t] = "start" /\ TakeTask(t)
          /\ UNCHANGED <<idle_threads, total_threads, core, submitted, done>>
      BY <1>1, <2>2 DEF LoopHead
    <3>2. Shape'
      BY <3>1, TakeTaskShape DEF Shape
    <3>3. pc' = [pc EXCEPT ![t] = "run"]
      BY <3>1, <2>2 DEF TakeTask
    <3>4. QED
      BY <3>1, <3>2, <3>3, PcMoveSame DEF IdlePc, PcValues
  <2>3. QED
    BY <2>1, <2>2
<1>2. CASE SpuriousWake(t)
  <2>1. CountersExact' /\ CorePoolFilled' /\ pc' \in [Threads -> PcValues]
    BY <1>2, PcMoveSame DEF SpuriousWake, IdlePc, PcValues
  <2>2. QED
    BY <1>2, <2>1 DEF SpuriousWake, Shape, MainHasTask, ThreadState
<1>3. CASE WaitTimesOut(t)
  <2>1. CountersExact' /\ CorePoolFilled' /\ pc' \in [Threads -> PcValues]
    BY <1>3, PcMoveSame DEF WaitTimesOut, IdlePc, PcValues
  <2>2. QED
    BY <1>3, <2>1 DEF WaitTimesOut, Shape, MainHasTask, ThreadState
<1>4. CASE ResumeWoken(t)
  <2>1. PICK b \in {"start", "run"} : pc' = [pc EXCEPT ![t] = b]
    BY <1>4 DEF ResumeWoken, TakeTask
  <2>2. Idle' = Idle \ {t} /\ t \in Idle /\ Counted' = Counted
    BY <1>4, <2>1, PcMove DEF ResumeWoken, Shape, PcValues, IdlePc, Idle, Counted
  <2>3. CoreCounted' = CoreCounted
    BY <1>4, <2>2 DEF ResumeWoken, CoreCounted
  <2>4. Cardinality(Idle') = Cardinality(Idle) - 1
    BY <2>2, FiniteCounts, CardStep
  <2>5. Shape'
    BY <1>4, TakeTaskShape DEF ResumeWoken, Shape
  <2>6. QED
    BY <1>4, <2>2, <2>3, <2>4, <2>5
    DEF ResumeWoken, CountersExact, CorePoolFilled, CoreCounted
<1>5. CASE ResumeTimedOut(t)
  \* Counted shrinks by t.  If t is not core there are more than
  \* CORE_POOL_SIZE counted threads; a core thread never times out.
  <2>1. Idle' = Idle \ {t} /\ t \in Idle /\ Counted' = Counted \ {t} /\ t \in Counted
    BY <1>5, PcMove DEF ResumeTimedOut, Shape, PcValues, IdlePc, Idle, Counted
  <2>2. t \in Counted \ CoreCounted
    BY <1>5, <2>1 DEF ResumeTimedOut, Shape, ThreadState, CoreCounted
  <2>3. CoreCounted' = CoreCounted
    BY <1>5, <2>1, <2>2 DEF ResumeTimedOut, CoreCounted
  <2>4. /\ Cardinality(Idle') = Cardinality(Idle) - 1
        /\ Cardinality(Counted') = Cardinality(Counted) - 1
    BY <2>1, FiniteCounts, CardStep
  <2>5. Cardinality(CoreCounted) <= Cardinality(Counted')
    <3>1. CoreCounted \in SUBSET Counted'
      BY <2>1, <2>2 DEF CoreCounted
    <3>2. IsFiniteSet(Counted')
      BY <2>1, FiniteCounts, FS_RemoveElement
    <3>3. QED
      BY <3>1, <3>2, FS_Subset
  <2>6. Shape'
    <3>1. pc' \in [Threads -> PcValues]
      BY <1>5, PcMove DEF ResumeTimedOut, PcValues
    <3>2. ThreadState'
      BY <1>5 DEF ResumeTimedOut, Shape, ThreadState
    <3>3. QED
      BY <1>5, <3>1, <3>2 DEF ResumeTimedOut, Shape, MainHasTask
  <2>7. QED
    BY <1>5, <2>3, <2>4, <2>5, <2>6, FiniteCounts, PoolAssumption
    DEF ResumeTimedOut, Shape, CountersExact, CorePoolFilled, CoreCounted
<1>6. CASE TaskReturns(t)
  <2>1. CountersExact' /\ CorePoolFilled' /\ pc' \in [Threads -> PcValues]
    BY <1>6, PcMoveSame DEF TaskReturns, IdlePc, PcValues
  <2>2. done' \subseteq Tasks
    BY <1>6 DEF TaskReturns, Shape, ThreadState
  <2>3. running' \in [Threads -> Tasks \cup {NoTask}] /\ ThreadState'
    BY <1>6 DEF TaskReturns, Shape, ThreadState
  <2>4. QED
    BY <1>6, <2>1, <2>2, <2>3 DEF TaskReturns, Shape, MainHasTask
<1>7. QED
  BY <1>1, <1>2, <1>3, <1>4, <1>5, <1>6 DEF PoolThread

(* Starting a thread keeps the counters exact and the core set filled. *)
LEMMA CountSpawn ==
    ASSUME CountInv, SpawnThread, UNCHANGED <<idle_threads, running>>
    PROVE  /\ CountersExact' /\ CorePoolFilled' /\ ThreadState'
           /\ pc' \in [Threads -> PcValues] /\ core' \in [Threads -> BOOLEAN]
           /\ total_threads' \in Int
<1> USE DEF CountInv
<1>1. PICK t \in Threads, b \in {"start", "lost"} :
        /\ pc[t] = "none"
        /\ pc' = [pc EXCEPT ![t] = b]
        /\ core' = [core EXCEPT ![t] = total_threads + 1 <= CORE_POOL_SIZE]
        /\ total_threads' = total_threads + 1
  BY DEF SpawnThread
<1>2. Idle' = Idle /\ t \notin Counted /\ Counted' = Counted \cup {t}
  BY <1>1, PcMove DEF Shape, PcValues, IdlePc, Idle, Counted
<1>3. t \notin CoreCounted /\
      CoreCounted' = IF total_threads + 1 <= CORE_POOL_SIZE
                     THEN CoreCounted \cup {t} ELSE CoreCounted
  BY <1>1, <1>2 DEF Shape, CoreCounted, Counted
<1>4. /\ Cardinality(Counted') = Cardinality(Counted) + 1
      /\ Cardinality(CoreCounted \cup {t}) = Cardinality(CoreCounted) + 1
  BY <1>2, <1>3, FiniteCounts, CardStep
<1>5. ThreadState'
  BY <1>1 DEF Shape, ThreadState
<1>6. pc' \in [Threads -> PcValues] /\ core' \in [Threads -> BOOLEAN] /\ total_threads' \in Int
  BY <1>1 DEF Shape, PcValues
<1>7. CountersExact'
  BY <1>1, <1>2, <1>4 DEF CountersExact
<1>8. CorePoolFilled'
  <2>1. Cardinality(CoreCounted) =
          IF total_threads <= CORE_POOL_SIZE THEN total_threads ELSE CORE_POOL_SIZE
    BY DEF CorePoolFilled, CoreCounted
  <2>2. Cardinality(CoreCounted') =
          IF total_threads' <= CORE_POOL_SIZE THEN total_threads' ELSE CORE_POOL_SIZE
    <3>1. CASE total_threads + 1 <= CORE_POOL_SIZE
      BY <1>1, <1>3, <1>4, <2>1, <3>1, PoolAssumption DEF Shape
    <3>2. CASE ~(total_threads + 1 <= CORE_POOL_SIZE)
      BY <1>1, <1>3, <2>1, <3>2, PoolAssumption DEF Shape
    <3>3. QED
      BY <3>1, <3>2
  <2>3. QED
    BY <2>2 DEF CorePoolFilled, CoreCounted
<1>9. QED
  BY <1>5, <1>6, <1>7, <1>8

(* Waking a waiter changes no counted set. *)
LEMMA CountNotify ==
    ASSUME CountInv, NotifyTaskIsSome, UNCHANGED <<idle_threads, total_threads, core, running>>
    PROVE  CountersExact' /\ CorePoolFilled' /\ ThreadState' /\ pc' \in [Threads -> PcValues]
<1> USE DEF CountInv
<1>1. CASE UNCHANGED pc
  BY <1>1 DEF CountersExact, CorePoolFilled, Idle, Counted, Shape, ThreadState
<1>2. CASE \E t \in Threads : pc[t] = "wait" /\ pc' = [pc EXCEPT ![t] = "woken"]
  <2>1. PICK t \in Threads : pc[t] = "wait" /\ pc' = [pc EXCEPT ![t] = "woken"]
    BY <1>2
  <2>2. ThreadState'
    BY <2>1 DEF Shape, ThreadState
  <2>3. QED
    BY <2>1, <2>2, PcMoveSame DEF IdlePc, PcValues
<1>3. QED
  BY <1>1, <1>2 DEF NotifyTaskIsSome

(* The submitting thread's steps keep the counters' invariant. *)
LEMMA CountTestSlot ==
    ASSUME CountInv, TestSlot, submitted < MaxTasks
    PROVE  CountInv'
<1> USE DEF CountInv
<1>1. CASE WaitUntilNone
  BY <1>1 DEF WaitUntilNone, Shape, MainHasTask, ThreadState, CountersExact,
              CorePoolFilled, Idle, Counted
<1>2. CASE FillSlot
  <2>1. /\ CountersExact' /\ CorePoolFilled' /\ ThreadState'
        /\ pc' \in [Threads -> PcValues] /\ core' \in [Threads -> BOOLEAN]
        /\ total_threads' \in Int
    <3>1. CASE SpawnThread
      BY <1>2, <3>1, CountSpawn DEF FillSlot
    <3>2. CASE NotifyTaskIsSome /\ UNCHANGED <<core, total_threads>>
      BY <1>2, <3>2, CountNotify DEF FillSlot, Shape
    <3>3. QED
      BY <1>2, <3>1, <3>2 DEF FillSlot
  <2>2. QED
    BY <1>2, <2>1, PoolAssumption DEF FillSlot, Shape, MainHasTask, Tasks
<1>3. QED
  BY <1>1, <1>2 DEF TestSlot

(* Every step keeps the counters' invariant. *)
LEMMA CountNext == CountInv /\ [Next]_vars => CountInv'
<1> SUFFICES ASSUME CountInv, [Next]_vars PROVE CountInv'
  OBVIOUS
<1>1. CASE \E t \in Threads : PoolThread(t)
  BY <1>1, CountPoolThread
<1>2. CASE ExecTask
  BY <1>2, CountTestSlot DEF ExecTask
<1>3. CASE ExecTaskResume
  BY <1>3, CountTestSlot DEF ExecTaskResume, CountInv, Shape, MainHasTask
<1>4. CASE MainSpuriousWake
  BY <1>4 DEF MainSpuriousWake, CountInv, Shape, MainHasTask, ThreadState,
              CountersExact, CorePoolFilled, Idle, Counted
<1>5. CASE UNCHANGED vars
  BY <1>5 DEF vars, CountInv, Shape, MainHasTask, ThreadState, CountersExact,
              CorePoolFilled, Idle, Counted
<1>6. QED
  BY <1>1, <1>2, <1>3, <1>4, <1>5 DEF Next

(* The counters' invariant implies the type invariant. *)
LEMMA CountImpliesType == CountInv => TypeOK
BY FiniteCounts DEF CountInv, Shape, CountersExact, TypeOK

(* thread.rs keeps idle_threads and total_threads equal to the numbers of    *)
(* idle and of counted threads, for any number of threads and any core size. *)
THEOREM CountersAreExact == Spec => []CountersExact
<1>1. CountInv => CountersExact
  BY DEF CountInv
<1>2. QED
  BY <1>1, CountInit, CountNext, PTL DEF Spec

(* Type correctness of the pool: in particular idle_threads and              *)
(* total_threads never become negative.                                      *)
THEOREM PoolTypeCorrect == Spec => []TypeOK
BY CountInit, CountNext, CountImpliesType, PTL DEF Spec

(* The core set is filled first and never depleted (thread.rs:48).           *)
THEOREM CorePoolStaysFilled == Spec => []CorePoolFilled
<1>1. CountInv => CorePoolFilled
  BY DEF CountInv
<1>2. QED
  BY <1>1, CountInit, CountNext, PTL DEF Spec

-----------------------------------------------------------------------------
(* Task ids are handed out in order: nothing beyond `submitted` is in use.   *)
OnlySubmitted ==
    /\ task \in 0..submitted
    /\ \A t \in Threads : running[t] \in 0..submitted
    /\ done \subseteq 1..submitted

(* The inductive invariant for the hand-over.                                *)
OnceInv == CountInv /\ OnlySubmitted /\ ExactlyOnce

(* Moving the task from the slot to an idle thread keeps exactly-once. *)
LEMMA OnceTakeTask ==
    ASSUME OnceInv, NEW t \in Threads, running[t] = NoTask, TakeTask(t),
           UNCHANGED <<submitted, done>>
    PROVE  OnlySubmitted' /\ ExactlyOnce'
<1> USE DEF OnceInv, NoTask
<1>1. running' = [running EXCEPT ![t] = task] /\ task' = NoTask
  BY DEF TakeTask
<1>2. OnlySubmitted'
  BY <1>1 DEF OnlySubmitted, CountInv, Shape
<1>3. ASSUME NEW k \in 1..submitted, task = k
      PROVE  Runners(k)' = {t}
  BY <1>1, <1>3 DEF ExactlyOnce, Runners, CountInv, Shape
<1>4. ASSUME NEW k \in 1..submitted, task # k
      PROVE  Runners(k)' = Runners(k)
  BY <1>1, <1>4 DEF Runners, CountInv, Shape
<1>5. QED
  BY <1>1, <1>2, <1>3, <1>4 DEF ExactlyOnce

(* A step that moves no task keeps exactly-once. *)
LEMMA OnceFrame ==
    ASSUME OnceInv, UNCHANGED <<task, running, submitted, done>>
    PROVE  OnlySubmitted' /\ ExactlyOnce'
BY DEF OnceInv, OnlySubmitted, ExactlyOnce, Runners

(* Filling the empty slot with a fresh task keeps exactly-once. *)
LEMMA OnceFillSlot ==
    ASSUME OnceInv, task = NoTask, FillSlot
    PROVE  OnlySubmitted' /\ ExactlyOnce'
<1> USE DEF OnceInv, NoTask
<1>0. submitted \in Nat
  BY PoolAssumption DEF CountInv, Shape
<1>1. /\ task' = submitted + 1 /\ submitted' = submitted + 1
      /\ running' = running /\ done' = done
  BY DEF FillSlot
<1>2. OnlySubmitted'
  BY <1>0, <1>1 DEF OnlySubmitted
<1>3. \A k : Runners(k)' = Runners(k)
  BY <1>1 DEF Runners
<1>4. Runners(submitted + 1) = {} /\ submitted + 1 \notin done
  BY <1>0 DEF OnlySubmitted, Runners
<1>5. ASSUME NEW k \in 1..submitted' PROVE k = submitted + 1 \/ (k \in 1..submitted /\ task # k /\ task' # k)
  BY <1>0, <1>1
<1>6. QED
  BY <1>0, <1>1, <1>2, <1>3, <1>4, <1>5 DEF ExactlyOnce

(* Every step keeps the hand-over's invariant. *)
LEMMA OnceNext == OnceInv /\ [Next]_vars => OnceInv'
<1> SUFFICES ASSUME OnceInv, [Next]_vars PROVE OnlySubmitted' /\ ExactlyOnce'
  BY CountNext DEF OnceInv
<1>1. ASSUME NEW t \in Threads, PoolThread(t) PROVE OnlySubmitted' /\ ExactlyOnce'
  <2>1. CASE LoopHead(t)
    <3>1. CASE task = NoTask
      BY <2>1, <3>1, OnceFrame DEF LoopHead
    <3>2. CASE task # NoTask
      <4>1. running[t] = NoTask
        BY <2>1 DEF LoopHead, OnceInv, CountInv, Shape, ThreadState
      <4>2. QED
        BY <2>1, <3>2, <4>1, OnceTakeTask DEF LoopHead
    <3>3. QED
      BY <3>1, <3>2
  <2>2. CASE ResumeWoken(t)
    <3>1. running[t] = NoTask
      BY <2>2 DEF ResumeWoken, OnceInv, CountInv, Shape, ThreadState
    <3>2. QED
      BY <2>2, <3>1, OnceTakeTask DEF ResumeWoken
  <2>3. CASE TaskReturns(t)
    <3>1. PICK j \in 1..submitted : running[t] = j
      BY <2>3 DEF TaskReturns, OnceInv, CountInv, Shape, ThreadState, OnlySubmitted, NoTask
    <3>2. Runners(j) = {t} /\ task # j
      BY <3>1 DEF OnceInv, ExactlyOnce, Runners
    <3>3. /\ running' = [running EXCEPT ![t] = NoTask] /\ done' = done \cup {j}
          /\ UNCHANGED <<task, submitted>>
      BY <2>3, <3>1 DEF TaskReturns
    <3>4. Runners(j)' = {}
      BY <3>2, <3>3 DEF Runners, OnceInv, CountInv, Shape, NoTask
    <3>5. ASSUME NEW k \in 1..submitted, k # j PROVE Runners(k)' = Runners(k)
      BY <3>1, <3>3, <3>5 DEF Runners, OnceInv, CountInv, Shape, NoTask
    <3>6. OnlySubmitted'
      BY <3>1, <3>3 DEF OnceInv, OnlySubmitted, CountInv, Shape, NoTask
    <3>7. QED
      BY <3>2, <3>3, <3>4, <3>5, <3>6 DEF OnceInv, ExactlyOnce
  <2>4. CASE SpuriousWake(t) \/ WaitTimesOut(t) \/ ResumeTimedOut(t)
    BY <2>4, OnceFrame DEF SpuriousWake, WaitTimesOut, ResumeTimedOut
  <2>5. QED
    BY <1>1, <2>1, <2>2, <2>3, <2>4 DEF PoolThread
<1>2. CASE ExecTask \/ ExecTaskResume
  <2>1. CASE task # NoTask /\ WaitUntilNone
    BY <2>1, OnceFrame DEF WaitUntilNone
  <2>2. CASE task = NoTask /\ FillSlot
    BY <2>2, OnceFillSlot
  <2>3. QED
    BY <1>2, <2>1, <2>2 DEF ExecTask, ExecTaskResume, TestSlot
<1>3. CASE MainSpuriousWake \/ UNCHANGED vars
  BY <1>3, OnceFrame DEF MainSpuriousWake, vars
<1>4. QED
  BY <1>1, <1>2, <1>3 DEF Next

(* The hand-over's invariant holds initially. *)
LEMMA OnceInit == Init => OnceInv
<1>1. Init => OnlySubmitted /\ ExactlyOnce
  BY DEF Init, OnlySubmitted, ExactlyOnce, NoTask
<1>2. QED
  BY <1>1, CountInit DEF OnceInv

(* Every submitted request is in exactly one place: the slot is never        *)
(* overwritten (the while loop of exec_task_impl) and no task runs twice.    *)
THEOREM HandOverExactlyOnce == Spec => []ExactlyOnce
<1>1. OnceInv => ExactlyOnce
  BY DEF OnceInv
<1>2. QED
  BY <1>1, OnceInit, OnceNext, PTL DEF Spec

-----------------------------------------------------------------------------
(* The slot holds the task submitted last, or nothing.                       *)
SlotIsLast == task \in {NoTask, submitted}

ServiceInv == OnceInv /\ SlotIsLast

(* The number of tasks that have begun, as TaskService counts them.          *)
Begun == IF task = NoTask THEN submitted ELSE submitted - 1

(* Only FillSlot puts a task into the slot, and it is the latest one. *)
LEMMA SlotNext == ServiceInv /\ [Next]_vars => SlotIsLast'
<1> SUFFICES ASSUME ServiceInv, [Next]_vars PROVE SlotIsLast'
  OBVIOUS
<1> USE DEF ServiceInv, SlotIsLast
<1>1. ASSUME NEW t \in Threads, PoolThread(t) PROVE SlotIsLast'
  BY <1>1 DEF PoolThread, LoopHead, TakeTask, SpuriousWake, WaitTimesOut, ResumeWoken,
              ResumeTimedOut, TaskReturns
<1>2. CASE ExecTask \/ ExecTaskResume
  BY <1>2 DEF ExecTask, ExecTaskResume, TestSlot, FillSlot, WaitUntilNone
<1>3. CASE MainSpuriousWake \/ UNCHANGED vars
  BY <1>3 DEF MainSpuriousWake, vars
<1>4. QED
  BY <1>1, <1>2, <1>3 DEF Next

(* Taking the task out of the slot is Begin; finding it empty is no step. *)
LEMMA ServiceTakes ==
    ASSUME ServiceInv, NEW t \in Threads, TakeTask(t), UNCHANGED <<submitted, done>>
    PROVE  Service!Begin \/ UNCHANGED <<submitted, Begun, done>>
<1>1. submitted \in Nat
  BY PoolAssumption DEF ServiceInv, OnceInv, CountInv, Shape
<1>2. task' = NoTask
  BY DEF TakeTask
<1>3. QED
  BY <1>1, <1>2 DEF Service!Begin, Begun, ServiceInv, SlotIsLast, NoTask

(* A closure that returns was running: it has begun and had not ended. *)
LEMMA ServiceEnds ==
    ASSUME ServiceInv, NEW t \in Threads, TaskReturns(t)
    PROVE  Service!End
<1> USE DEF ServiceInv, OnceInv
<1>1. PICK k \in 1..submitted : running[t] = k
  BY DEF TaskReturns, CountInv, Shape, ThreadState, OnlySubmitted, NoTask
<1>2. task # k /\ k \notin done
  BY <1>1 DEF ExactlyOnce, Runners
<1>3. submitted \in Nat
  BY PoolAssumption DEF CountInv, Shape
<1>4. k \in (1..Begun) \ done
  BY <1>1, <1>2, <1>3 DEF Begun, SlotIsLast
<1>5. done' = done \cup {k} /\ UNCHANGED <<submitted, task>>
  BY <1>1 DEF TaskReturns
<1>6. QED
  BY <1>4, <1>5 DEF Service!End, Begun

(* Every step of the pool is a step of TaskService or leaves it as it is. *)
LEMMA ServiceStep ==
    ASSUME ServiceInv, [Next]_vars
    PROVE  Service!Next \/ UNCHANGED <<submitted, Begun, done>>
<1>1. ASSUME NEW t \in Threads, PoolThread(t)
      PROVE  Service!Next \/ UNCHANGED <<submitted, Begun, done>>
  <2>1. CASE TaskReturns(t)
    BY <2>1, ServiceEnds DEF Service!Next
  <2>2. CASE TakeTask(t) /\ UNCHANGED <<submitted, done>>
    BY <2>2, ServiceTakes DEF Service!Next
  <2>3. CASE UNCHANGED <<task, submitted, done>>
    BY <2>3 DEF Begun
  <2>4. QED
    BY <1>1, <2>1, <2>2, <2>3
    DEF PoolThread, LoopHead, SpuriousWake, WaitTimesOut, ResumeWoken, ResumeTimedOut
<1>2. CASE ExecTask \/ ExecTaskResume
  <2>1. submitted \in Nat
    BY PoolAssumption DEF ServiceInv, OnceInv, CountInv, Shape
  <2>2. CASE WaitUntilNone
    BY <2>2 DEF WaitUntilNone, Begun
  <2>3. CASE task = NoTask /\ FillSlot
    BY <2>1, <2>3 DEF FillSlot, Service!Next, Service!Accept, Begun, NoTask
  <2>4. QED
    BY <1>2, <2>2, <2>3 DEF ExecTask, ExecTaskResume, TestSlot
<1>3. CASE MainSpuriousWake \/ UNCHANGED vars
  BY <1>3 DEF MainSpuriousWake, vars, Begun
<1>4. QED
  BY <1>1, <1>2, <1>3 DEF Next

(* The thread pool of thread.rs implements the abstract service: every       *)
(* behaviour of it, seen through the slot and the finished tasks, accepts    *)
(* one task at a time, begins them in order and ends each at most once.      *)
THEOREM PoolImplementsService == Spec => ImplementsService
<1>1. Init => ServiceInv
  BY OnceInit DEF Init, ServiceInv, SlotIsLast
<1>2. ServiceInv /\ [Next]_vars => ServiceInv'
  BY OnceNext, SlotNext DEF ServiceInv
<1>3. Init => Service!Init
  BY DEF Init, Service!Init
<1>4. ServiceInv /\ [Next]_vars => [Service!Next]_<<submitted, Begun, done>>
  BY ServiceStep
<1>5. QED
  BY <1>1, <1>2, <1>3, <1>4, PTL DEF Spec, ImplementsService, Service!Spec, Begun

-----------------------------------------------------------------------------
(* Without time-outs and failed spawns an idle thread waits or is woken.     *)
NoneGone == \A t \in Threads : pc[t] \notin {"timedout", "lost"}

TakerInv == CountInv /\ NoneGone /\ TaskHasTaker

(* Filling the slot leaves a thread on its way to it. *)
LEMMA TakerFillSlot ==
    ASSUME MaxSpawnFailures = 0, TakerInv, FillSlot
    PROVE  NoneGone' /\ TaskHasTaker'
<1> USE DEF TakerInv
<1>1. CASE idle_threads = 0 /\ SpawnThread
  <2>1. IsFiniteSet(Lost) /\ ~(Cardinality(Lost) < 0)
    BY FS_Subset, FS_CardinalityType, PoolAssumption DEF Lost
  <2>2. PICK t \in Threads : pc' = [pc EXCEPT ![t] = "start"]
    BY <1>1, <2>1 DEF SpawnThread
  <2>3. QED
    BY <2>2 DEF CountInv, Shape, NoneGone, TaskHasTaker
<1>2. CASE idle_threads # 0 /\ NotifyTaskIsSome
  <2>1. Idle # {}
    BY <1>2, FS_EmptySet DEF CountInv, CountersExact
  <2>2. PICK t \in Threads : pc[t] \in {"wait", "woken"}
    BY <2>1 DEF Idle, NoneGone
  <2>3. CASE UNCHANGED pc /\ {u \in Threads : pc[u] = "wait"} = {}
    BY <2>2, <2>3 DEF NoneGone, TaskHasTaker
  <2>4. CASE \E u \in Threads : pc' = [pc EXCEPT ![u] = "woken"]
    BY <2>4 DEF CountInv, Shape, NoneGone, TaskHasTaker
  <2>5. QED
    BY <1>2, <2>3, <2>4 DEF NotifyTaskIsSome
<1>3. QED
  BY <1>1, <1>2 DEF FillSlot

(* While requests never leave a gap of THREAD_IDLE_MAX_SEC and no spawn      *)
(* fails, a full slot always has a thread on its way to it: the test         *)
(* `idle_threads == 0` of exec_task_impl (thread.rs:87) is then sufficient.  *)
THEOREM FullSlotHasTaker ==
    ASSUME ~TimeoutsFire, MaxSpawnFailures = 0
    PROVE  Spec => []TaskHasTaker
<1>1. Init => TakerInv
  BY CountInit DEF Init, TakerInv, NoneGone, TaskHasTaker
<1>2. TakerInv /\ [Next]_vars => TakerInv'
  <2> SUFFICES ASSUME TakerInv, [Next]_vars PROVE NoneGone' /\ TaskHasTaker'
    BY CountNext DEF TakerInv
  <2> USE DEF TakerInv
  <2>1. ASSUME NEW t \in Threads, PoolThread(t) PROVE NoneGone' /\ TaskHasTaker'
    <3>1. CASE LoopHead(t)
      BY <3>1 DEF LoopHead, TakeTask, CountInv, Shape, NoneGone, TaskHasTaker
    <3>2. CASE ResumeWoken(t)
      BY <3>2 DEF ResumeWoken, TakeTask, CountInv, Shape, NoneGone, TaskHasTaker
    <3>3. CASE SpuriousWake(t)
      BY <3>3 DEF SpuriousWake, CountInv, Shape, NoneGone, TaskHasTaker
    <3>4. CASE TaskReturns(t)
      BY <3>4 DEF TaskReturns, CountInv, Shape, NoneGone, TaskHasTaker
    <3>5. CASE WaitTimesOut(t) \/ ResumeTimedOut(t)
      BY <3>5 DEF WaitTimesOut, ResumeTimedOut, NoneGone
    <3>6. QED
      BY <2>1, <3>1, <3>2, <3>3, <3>4, <3>5 DEF PoolThread
  <2>2. CASE ExecTask \/ ExecTaskResume
    <3>1. CASE WaitUntilNone
      BY <3>1 DEF WaitUntilNone, NoneGone, TaskHasTaker
    <3>2. CASE FillSlot
      BY <3>2, TakerFillSlot
    <3>3. QED
      BY <2>2, <3>1, <3>2 DEF ExecTask, ExecTaskResume, TestSlot
  <2>3. CASE MainSpuriousWake \/ UNCHANGED vars
    BY <2>3 DEF MainSpuriousWake, vars, NoneGone, TaskHasTaker
  <2>4. QED
    BY <2>1, <2>2, <2>3 DEF Next
<1>3. TakerInv => TaskHasTaker
  BY DEF TakerInv
<1>4. QED
  BY <1>1, <1>2, <1>3, PTL DEF Spec
=============================================================================
