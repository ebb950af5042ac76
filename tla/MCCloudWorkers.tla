---------------------------- MODULE MCCloudWorkers ----------------------------
(***************************************************************************)
(* Small instances of the workers behind the Cloud API for TLC: the worker *)
(* of the billing outbox and the Executor.  The two models share no        *)
(* variable, so their union is checked: a behaviour is one of the part it  *)
(* starts with.                                                            *)
(***************************************************************************)
EXTENDS BillingOutbox, Executor

VARIABLE part   \* the part that runs

\* One token more than two events and two workers can hold.
MCTokens == 1..5

ASSUME OutboxAssumption /\ ExecutorAssumption

partVars == <<part, vars, execVars>>

PartInit == part \in {"outbox", "executor"} /\ Init /\ ExecInit

OfOutbox(A) == part = "outbox" /\ A /\ UNCHANGED <<part, execVars>>
OfExec(A) == part = "executor" /\ A /\ UNCHANGED <<part, vars>>

PartNext == OfOutbox(Next) \/ OfExec(ExecNext)

\* The fairness of FairSpec and of ExecFairSpec.
PartSpec ==
  /\ PartInit /\ [][PartNext]_partVars
  /\ \A w \in Workers : WF_vars(part = "outbox" /\ Step(w))
  /\ \A e \in Events : /\ WF_vars(part = "outbox" /\ FallDue(e))
                       /\ WF_vars(part = "outbox" /\ Orphaned(e) /\ Expire(e))
  /\ WF_execVars(part = "executor" /\ Tick)
  /\ \A r \in Reqs : /\ WF_execVars(part = "executor" /\ BodyDue(r) /\ BodyFails(r))
                     /\ WF_execVars(part = "executor" /\ SkillTimesOut(r))
                     /\ WF_execVars(part = "executor" /\ Reply(r))

-----------------------------------------------------------------------------
\* BillingOutboxWorker: when the outbox runs, every event is published or
\* dead-lettered.
OutboxSettles == part = "outbox" => EverySettles
=============================================================================
