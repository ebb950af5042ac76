--------------------------- MODULE ReservationLedger ---------------------------
(***************************************************************************)
(* What Cloud Skill admission promises, whichever store keeps the ledger:  *)
(* a task gets at most one row and keeps it; a row appears only under an   *)
(* active subscription and entitlement, stamped with a time that is not in *)
(* the future, and only while fewer leases are active than some plan       *)
(* allowed.  How requests interleave to get there is left open.            *)
(***************************************************************************)
EXTENDS UsageRules

VARIABLES
  clock,     \* the servers' clock
  resv,      \* cloud_skill_execution_reservation, one row per task
  status,    \* subscription -> "active" or not
  entitled,  \* active entitlements
  plan,      \* limits of the plan as configured now
  peak       \* history: greatest value of every limit so far

ledger == <<clock, resv, status, entitled, plan, peak>>

LedgerInit ==
  /\ clock = 0
  /\ resv = [t \in Tasks |-> NoRow]
  /\ status = [s \in Subs |-> "active"]
  /\ entitled = Entitlement
  /\ plan \in Limits
  /\ peak = plan

Admit(t, b, at) ==
  /\ resv[t] = NoRow
  /\ at \in 0..clock /\ InPeriod(at)
  /\ status[b.sub] = "active"
  /\ <<b.sub, b.skill>> \in entitled
  /\ Cardinality(ActiveLeases(resv, b.sub, b.device, at)) < peak.max_concurrency
  /\ resv'[t] = NewRow(b, at)
  /\ FreedOnly(resv, [resv' EXCEPT ![t] = NoRow])
  /\ UNCHANGED <<clock, status, entitled, plan, peak>>

Free ==
  /\ FreedOnly(resv, resv')
  /\ UNCHANGED <<clock, status, entitled, plan, peak>>

Administer ==
  /\ status' \in [Subs -> {"active", "inactive"}]
  /\ entitled' \subseteq Entitlement
  /\ \/ UNCHANGED <<plan, peak>>
     \/ plan' \in Limits /\ peak' = Raise(peak, plan')
  /\ UNCHANGED <<clock, resv>>

LedgerTick ==
  /\ clock' = clock + 1
  /\ UNCHANGED <<resv, status, entitled, plan, peak>>

LedgerNext ==
  \/ \E t \in Tasks, b \in Binding, at \in 0..clock : Admit(t, b, at)
  \/ Free
  \/ Administer
  \/ LedgerTick

LedgerSpec == LedgerInit /\ [][LedgerNext]_ledger

-----------------------------------------------------------------------------
(* What is asked of either store, over the ledger's variables.              *)

\* reserveCloudSkillExecution and releaseCloudSkillExecution of either store keep
\* every promise of the abstract ledger.
RefinesLedger == LedgerSpec

\* The calls of one subscription and Skill never exceed the greatest allowance the
\* plan ever had: the usage rows reserveCloudSkillExecution writes are never refunded,
\* not by a release, a cancellation or a plan change.  The in-memory store keeps it; of
\* the PostgreSQL one pg-store.ts:2364 says "two API replicas cannot both pass the same
\* plan limits".
CycleQuotaBound ==
  \A s \in Subs, k \in Skills :
    Cardinality({t \in Tasks : /\ resv[t] # NoRow
                               /\ resv[t].binding.sub = s
                               /\ resv[t].binding.skill = k})
      <= peak.included_calls
=============================================================================
