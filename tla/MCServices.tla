----------------------------- MODULE MCServices ----------------------------
(* Small instances of the parts that run beside others: requests to the     *)
(* daemon, resetprop, the log pipe, the su terminal, and magiskinit's       *)
(* stages and sepolicy hand-over.                                           *)
(* They share no state: a behaviour runs one of them.                       *)
EXTENDS MCRequests, MCResetProp, MCSePatch, MCInitFlow, LogDaemon, PtyPump

VARIABLE service

vars == <<service, requestVars, resetVars, seVars, flowVars, logVars, ptyVars>>

One(S) == CHOOSE x \in S : TRUE

Init ==
  /\ service \in {"request", "reset", "se", "flow", "log", "pty"}
  /\ RequestInit /\ (service # "request" => kind = One(Mixes))
  /\ ResetInit /\ (service # "reset" => pfile = One(StoredProto))
  /\ SeInit /\ (service # "se" => sdev = One(Devices))
  /\ FlowInit /\ (service # "flow" => bdev = One(BootDevices))
  /\ LogInit /\ PtyInit

Next ==
  /\ UNCHANGED service
  /\ \/ service = "request" /\ RequestNext /\ UNCHANGED <<resetVars, seVars, flowVars, logVars, ptyVars>>
     \/ service = "reset" /\ ResetNext /\ UNCHANGED <<requestVars, seVars, flowVars, logVars, ptyVars>>
     \/ service = "se" /\ SeNext /\ UNCHANGED <<requestVars, resetVars, flowVars, logVars, ptyVars>>
     \/ service = "flow" /\ FlowNext /\ UNCHANGED <<requestVars, resetVars, seVars, logVars, ptyVars>>
     \/ service = "log" /\ LogNext /\ UNCHANGED <<requestVars, resetVars, seVars, flowVars, ptyVars>>
     \/ service = "pty" /\ PtyNext /\ UNCHANGED <<requestVars, resetVars, seVars, flowVars, logVars>>

(* The fairness of the part that runs: RequestSpec's, ResetFairness,         *)
(* SeFairness, FlowFairness and LogFairness.                                 *)
Fairness ==
  /\ WF_requestVars(service = "request" /\ Scheduled)
  /\ \A p \in Procs : WF_resetVars(service = "reset" /\ RStep(p))
  /\ WF_seVars(service = "se" /\ InitProcess) /\ WF_seVars(service = "se" /\ ChildProcess)
  /\ WF_flowVars(service = "flow" /\ FlowNext)
  /\ WF_logVars(service = "log" /\ RMeta) /\ WF_logVars(service = "log" /\ RBody)
  /\ SF_logVars(service = "log" /\ LWrite) /\ WF_logVars(service = "log" /\ LWriteFails)

Spec == Init /\ [][Next]_vars /\ Fairness
=============================================================================
