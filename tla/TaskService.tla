----------------------------- MODULE TaskService -----------------------------
(***************************************************************************)
(* What ThreadPool::exec_task promises its callers, without threads,       *)
(* counters or condition variables: tasks begin in the order in which they *)
(* were accepted, each begins once and ends at most once, after it began,  *)
(* and at most Capacity accepted tasks have not begun.                     *)
(***************************************************************************)
EXTENDS Integers

CONSTANT Capacity

VARIABLES accepted, \* number of tasks accepted; a task's name is its number
          begun,    \* tasks 1 .. begun have begun
          ended     \* tasks whose closure returned

Init == accepted = 0 /\ begun = 0 /\ ended = {}

Accept ==
    /\ accepted - begun < Capacity
    /\ accepted' = accepted + 1
    /\ UNCHANGED <<begun, ended>>

Begin ==
    /\ begun < accepted
    /\ begun' = begun + 1
    /\ UNCHANGED <<accepted, ended>>

End ==
    /\ \E k \in (1 .. begun) \ ended : ended' = ended \cup {k}
    /\ UNCHANGED <<accepted, begun>>

Next == Accept \/ Begin \/ End

Spec == Init /\ [][Next]_<<accepted, begun, ended>>
=============================================================================
