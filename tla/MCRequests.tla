----------------------------- MODULE MCRequests -----------------------------
(* TLC instances of Requests: every choice of three requests, in one order.  *)
(* SUPERUSER takes the locks of every GetInfo and DENYLIST request but LIST. *)
EXTENDS Requests, TLC

MCClients == 1 .. 3
AllKinds == <<"post", "complete", "restart", "list", "sql", "su", "connect64", "stop">>
MCMixes ==
    {[c \in MCClients |-> AllKinds[f[c]]] :
        f \in {f \in [MCClients -> 1 .. Len(AllKinds)] : f[1] <= f[2] /\ f[2] <= f[3]}}
(* A client of a companion that dies while it starts, and magisk --stop.     *)
WedgeMixes == {[c \in MCClients |-> <<"connect64", "restart", "stop">>[c]]}
=============================================================================
