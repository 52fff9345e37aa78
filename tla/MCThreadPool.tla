---------------------------- MODULE MCThreadPool ----------------------------
(* TLC instance of ThreadPool.  A busy pool is one where no idle wait times  *)
(* out and no thread fails to start.                                         *)
EXTENDS ThreadPool

VARIABLE busy

Busy == INSTANCE ThreadPool WITH TimeoutsFire <- FALSE, MaxSpawnFailures <- 0

MCInit == busy \in BOOLEAN /\ Init
MCNext == UNCHANGED busy /\ IF busy THEN Busy!Next ELSE Next
MCSpec == MCInit /\ [][MCNext]_<<vars, busy>> /\ Fairness

(* A busy pool never blocks the accept loop for good, however long its tasks *)
(* last: exec_task returns, and every task put into the slot is taken.       *)
BusyPoolProceeds ==
    /\ busy /\ main # "ready" ~> main = "ready"
    /\ \A k \in Tasks : busy /\ task = k ~> task # k
=============================================================================
