------------------------------ MODULE MCCloudTask ------------------------------
(***************************************************************************)
(* Small instances of the Cloud task's life cycle and of its event log for *)
(* TLC.  The two models share no variable, so their union is checked: a    *)
(* behaviour is one of the part it starts with.                            *)
(***************************************************************************)
EXTENDS CloudTask, TaskEvents

CONSTANTS r1, r2

VARIABLE part   \* the part that runs

\* Two different disturbances, once each.
MCBudgets ==
  {[d \in Disturbances |-> IF d \in D THEN 1 ELSE 0] :
     D \in {{"read", "cancel"}, {"write", "cancel"}, {"cancel", "withdraw"}, {"crash", "expiry"}}}

\* r2 is a retry of r1, or another request under its idempotency key.
MCPrints == [r \in Reqs |-> IF r = r1 THEN {"f"} ELSE {"f", "g"}]

\* Admission reads one gate and the worker reads it again.
MCGates == <<"subscription">>

\* The stream's process is the worker's; the cancel comes from another replica.
MCProcess == {"worker"}

ASSUME TaskAssumption /\ EventAssumption

partVars == <<part, vars, logVars>>

PartInit == part \in {"task", "events"} /\ Init /\ LogInit

OfTask(A) == part = "task" /\ A /\ UNCHANGED <<part, logVars>>
OfLog(A) == part = "events" /\ A /\ UNCHANGED <<part, vars>>

PartNext == OfTask(Next) \/ OfLog(LogNext)

\* The fairness of FairSpec and of LogFairSpec.
PartSpec ==
  /\ PartInit /\ [][PartNext]_partVars
  /\ \A r \in Reqs : WF_vars(part = "task" /\ Request(r)) /\ WF_vars(part = "task" /\ Worker(r))
  /\ \A c \in Cancels : WF_vars(part = "task" /\ Cancel(c))
  /\ \A a \in Actors : WF_logVars(part = "events" /\ (TakeId(a) \/ Visible(a) \/ Notify(a)))
  /\ WF_logVars(part = "events" /\ Connect) /\ WF_logVars(part = "events" /\ Subscribe)
  /\ WF_logVars(part = "events" /\ Disconnect)
=============================================================================
