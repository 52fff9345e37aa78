------------------------------ MODULE ThreadPool ------------------------------
(***************************************************************************)
(* The daemon's thread pool (native/src/core/thread.rs): a one-slot task   *)
(* hand-over between the single thread that calls exec_task (the accept    *)
(* loop of magiskd, or the main loop of a zygiskd companion) and the pool  *)
(* threads.                                                                *)
(*                                                                         *)
(* Every stretch of code that holds the `info` mutex is one atomic step; a *)
(* wait on a condition variable ends the stretch, because it releases the  *)
(* mutex.  A thread whose wait is over ("woken", "timedout") has not yet   *)
(* taken the mutex back, so other threads can run in between.              *)
(***************************************************************************)
EXTENDS Integers, FiniteSets

CONSTANTS
    Threads,           \* identities of pool threads (reused after an exit)
    CORE_POOL_SIZE,    \* threads that never time out
    MaxTasks,          \* bound: requests submitted in a behaviour
    MaxSpawnFailures,  \* bound: pthread_create failures in a behaviour
    TimeoutsFire       \* can a gap of THREAD_IDLE_MAX_SEC between requests occur

ASSUME PoolAssumption ==
    /\ IsFiniteSet(Threads)
    /\ CORE_POOL_SIZE \in Nat \ {0}
    /\ MaxTasks \in Nat \ {0}
    /\ MaxSpawnFailures \in Nat
    /\ TimeoutsFire \in BOOLEAN

NoTask == 0
Tasks  == 1..MaxTasks

VARIABLES
    idle_threads, total_threads, task,  \* PoolInfo, guarded by the mutex
    pc,         \* pc[t]: where pool thread t is
    core,       \* core[t]: the is_core_pool argument t was started with
    running,    \* running[t]: the closure t is executing
    main,       \* the submitting thread: "ready", "wait" or "woken"
    submitted,  \* number of tasks handed to the slot so far (task ids count up)
    done        \* tasks whose closure returned

vars == <<idle_threads, total_threads, task, pc, core, running, main,
          submitted, done>>

(* pc values: "none" not existing; "start" about to lock at the loop head;  *)
(* "wait" in task_is_some.wait; "woken"/"timedout" wait is over, mutex not   *)
(* yet re-acquired; "run" executing a task; "lost" pthread_create failed,    *)
(* the thread is counted but never existed.                                  *)
PcValues == {"none", "start", "wait", "woken", "timedout", "run", "lost"}

Idle    == {t \in Threads : pc[t] \in {"wait", "woken", "timedout"}}
Counted == {t \in Threads : pc[t] # "none"}
Lost    == {t \in Threads : pc[t] = "lost"}

Init ==
    /\ idle_threads = 0
    /\ total_threads = 0
    /\ task = NoTask
    /\ pc = [t \in Threads |-> "none"]
    /\ core = [t \in Threads |-> FALSE]
    /\ running = [t \in Threads |-> NoTask]
    /\ main = "ready"
    /\ submitted = 0
    /\ done = {}

-----------------------------------------------------------------------------
(* pool_loop *)

(* task_is_none.notify_one(): only the submitting thread ever waits there.   *)
NotifyTaskIsNone == main' = IF main = "wait" THEN "woken" ELSE main

(* Mutant of TakeTask: the closure is shared, not taken out of the slot.     *)
TakeTask_Shares(t) ==
    /\ running' = [running EXCEPT ![t] = task]
    /\ pc' = [pc EXCEPT ![t] = IF task = NoTask THEN "start" ELSE "run"]
    /\ UNCHANGED task
    /\ NotifyTaskIsNone

(* lines 60-66: info.task.take(), notify, and run what was taken, if any.    *)
TakeTask(t) ==
    /\ running' = [running EXCEPT ![t] = task]
    /\ pc' = [pc EXCEPT ![t] = IF task = NoTask THEN "start" ELSE "run"]
    /\ task' = NoTask
    /\ NotifyTaskIsNone

(* Loop head: a thread that finds the slot full takes the task straight      *)
(* away (idle_threads goes up and down again), otherwise it waits.           *)
LoopHead(t) ==
    /\ pc[t] = "start"
    /\ \/ /\ task = NoTask
          /\ idle_threads' = idle_threads + 1
          /\ pc' = [pc EXCEPT ![t] = "wait"]
          /\ UNCHANGED <<task, running, main>>
       \/ /\ task # NoTask
          /\ TakeTask(t)
          /\ UNCHANGED idle_threads
    /\ UNCHANGED <<total_threads, core, submitted, done>>

(* A wait may end without a notification: std's Condvar documents spurious   *)
(* wake-ups, and line 46 is an `if`, not a loop.                             *)
SpuriousWake(t) ==
    /\ pc[t] = "wait"
    /\ pc' = [pc EXCEPT ![t] = "woken"]
    /\ UNCHANGED <<idle_threads, total_threads, task, core, running, main,
                   submitted, done>>

(* wait_timeout runs out; the thread still has to re-acquire the mutex.      *)
WaitTimesOut(t) ==
    /\ TimeoutsFire
    /\ pc[t] = "wait"
    /\ ~core[t]
    /\ pc' = [pc EXCEPT ![t] = "timedout"]
    /\ UNCHANGED <<idle_threads, total_threads, task, core, running, main,
                   submitted, done>>

(* A woken thread re-acquires the mutex and takes the task.                  *)
ResumeWoken(t) ==
    /\ pc[t] = "woken"
    /\ TakeTask(t)
    /\ idle_threads' = idle_threads - 1
    /\ UNCHANGED <<total_threads, core, submitted, done>>

(* Mutant of ResumeTimedOut: the exiting thread is not uncounted.            *)
ResumeTimedOut_StaysCounted(t) ==
    /\ pc[t] = "timedout"
    /\ idle_threads' = idle_threads - 1
    /\ pc' = [pc EXCEPT ![t] = "none"]
    /\ UNCHANGED <<total_threads, task, core, running, main, submitted, done>>

(* timed_out(): the thread ends without looking at the slot.                 *)
ResumeTimedOut(t) ==
    /\ pc[t] = "timedout"
    /\ idle_threads' = idle_threads - 1
    /\ total_threads' = total_threads - 1
    /\ pc' = [pc EXCEPT ![t] = "none"]
    /\ UNCHANGED <<task, core, running, main, submitted, done>>

(* The closure returns.  (A task that forked exits in the child, which is    *)
(* another process; the pool of this process sees only the return.)          *)
TaskReturns(t) ==
    /\ pc[t] = "run"
    /\ pc' = [pc EXCEPT ![t] = "start"]
    /\ done' = done \cup {running[t]}
    /\ running' = [running EXCEPT ![t] = NoTask]
    /\ UNCHANGED <<idle_threads, total_threads, task, core, main, submitted>>

-----------------------------------------------------------------------------
(* exec_task_impl *)

(* Line 95: the result of new_daemon_thread is ignored, so a thread that     *)
(* could not be created stays counted in total_threads.                      *)
SpawnThread ==
    \E t \in Threads :
        /\ pc[t] = "none"
        /\ \/ pc' = [pc EXCEPT ![t] = "start"]
           \/ /\ Cardinality(Lost) < MaxSpawnFailures
              /\ pc' = [pc EXCEPT ![t] = "lost"]
        /\ core' = [core EXCEPT ![t] = total_threads + 1 <= CORE_POOL_SIZE]
        /\ total_threads' = total_threads + 1

(* Mutant of NotifyTaskIsSome: the notification is missing.                  *)
NotifyTaskIsSome_Missing == UNCHANGED pc

(* task_is_some.notify_one(): wakes one waiter, or nobody if none waits.     *)
NotifyTaskIsSome ==
    LET waiting == {t \in Threads : pc[t] = "wait"}
    IN  \/ /\ waiting = {}
           /\ UNCHANGED pc
        \/ \E t \in waiting : pc' = [pc EXCEPT ![t] = "woken"]

(* The body after the while loop: fill the slot, then spawn or notify.       *)
FillSlot ==
    /\ task' = submitted + 1
    /\ submitted' = submitted + 1
    /\ main' = "ready"
    /\ \/ /\ idle_threads = 0
          /\ SpawnThread
       \/ /\ idle_threads # 0
          /\ NotifyTaskIsSome
          /\ UNCHANGED <<core, total_threads>>
    /\ UNCHANGED <<idle_threads, running, done>>

WaitUntilNone ==
    /\ main' = "wait"
    /\ UNCHANGED <<idle_threads, total_threads, task, pc, core, running,
                   submitted, done>>

(* The while loop tests the slot on entry and after every wake-up.           *)
TestSlot ==
    \/ /\ task # NoTask
       /\ WaitUntilNone
    \/ /\ task = NoTask
       /\ FillSlot

ExecTask ==
    /\ main = "ready"
    /\ submitted < MaxTasks
    /\ TestSlot

ExecTaskResume ==
    /\ main = "woken"
    /\ TestSlot

MainSpuriousWake ==
    /\ main = "wait"
    /\ main' = "woken"
    /\ UNCHANGED <<idle_threads, total_threads, task, pc, core, running,
                   submitted, done>>

-----------------------------------------------------------------------------
PoolThread(t) ==
    \/ LoopHead(t)
    \/ SpuriousWake(t)
    \/ WaitTimesOut(t)
    \/ ResumeWoken(t)
    \/ ResumeTimedOut(t)
    \/ TaskReturns(t)

Next ==
    \/ \E t \in Threads : PoolThread(t)
    \/ ExecTask
    \/ ExecTaskResume
    \/ MainSpuriousWake

Spec == Init /\ [][Next]_vars

(* A runnable thread is eventually scheduled and gets the mutex.  Nothing is *)
(* assumed of spurious wake-ups, of time-outs, of new requests, or of the    *)
(* tasks: an su session lasts as long as its shell.                          *)
Fairness ==
    /\ \A t \in Threads : WF_vars(LoopHead(t) \/ ResumeWoken(t) \/ ResumeTimedOut(t))
    /\ WF_vars(ExecTaskResume)

FairSpec == Spec /\ Fairness

(* As FairSpec, when in addition every task ends.                            *)
FiniteTasksSpec == FairSpec /\ \A t \in Threads : WF_vars(TaskReturns(t))

-----------------------------------------------------------------------------
(* PoolInfo and the threads stay within their types; no counter of thread.rs *)
(* goes below zero or beyond the number of threads.                          *)
TypeOK ==
    /\ idle_threads \in 0..Cardinality(Threads)
    /\ total_threads \in 0..Cardinality(Threads)
    /\ task \in Tasks \cup {NoTask}
    /\ pc \in [Threads -> PcValues]
    /\ core \in [Threads -> BOOLEAN]
    /\ running \in [Threads -> Tasks \cup {NoTask}]
    /\ main \in {"ready", "wait", "woken"}
    /\ submitted \in 0..MaxTasks
    /\ done \subseteq Tasks

(* PoolInfo's counters agree with the threads that exist: idle_threads is    *)
(* what exec_task decides on (spawn or notify), so a drift in either         *)
(* direction would strand tasks or grow the pool for ever.                   *)
CountersExact ==
    /\ idle_threads = Cardinality(Idle)
    /\ total_threads = Cardinality(Counted)

(* "Core pool never closes": the core set is filled before the first         *)
(* expendable thread is created and is never depleted by time-outs.          *)
CorePoolFilled ==
    Cardinality({t \in Counted : core[t]}) =
        IF total_threads <= CORE_POOL_SIZE THEN total_threads ELSE CORE_POOL_SIZE

(* The threads executing task k.                                             *)
Runners(k) == {t \in Threads : running[t] = k}

(* Every request handed to exec_task is in exactly one place: in the slot,   *)
(* being executed by exactly one thread, or finished.  The slot is never     *)
(* overwritten and no two threads take the same task.                        *)
ExactlyOnce ==
    \A k \in 1..submitted :
        \/ task = k /\ Runners(k) = {} /\ k \notin done
        \/ task # k /\ k \notin done /\ \E t \in Threads : Runners(k) = {t}
        \/ task # k /\ Runners(k) = {} /\ k \in done

(* Seen from outside, the pool is a TaskService with room for one task: the  *)
(* task in the slot is the latest one submitted, all before it have begun.   *)
Service == INSTANCE TaskService WITH
    Capacity <- 1,
    accepted <- submitted,
    begun <- IF task = NoTask THEN submitted ELSE submitted - 1,
    ended <- done

(* thread.rs implements TaskService: however its threads start, wait, time   *)
(* out and fail to start, tasks begin in the order of exec_task, each once.  *)
ImplementsService == Service!Spec

(* While no wait times out and no spawn fails, a full slot always has a      *)
(* thread on its way to it: a freshly started or returning thread, or one    *)
(* that was woken.  This is what makes line 87's "idle_threads == 0" test    *)
(* sufficient.                                                               *)
TaskHasTaker ==
    task # NoTask => \E t \in Threads : pc[t] \in {"start", "woken"}

(* The module doc (thread.rs:5-6): tasks run "without blocking the main      *)
(* accept loop".  exec_task may have to wait for the one-slot hand-over, but *)
(* it always gets out again.                                                 *)
AcceptLoopProceeds == main # "ready" ~> main = "ready"

(* Every task handed to the slot is eventually taken by a pool thread.       *)
TasksAreTaken == \A k \in Tasks : task = k ~> task # k
=============================================================================
