------------------------------ MODULE UsageRules ------------------------------
(***************************************************************************)
(* The vocabulary of Cloud Skill admission that both stores of the Cloud   *)
(* API share: the usage ledger's rows and the three counts the plan limits *)
(* are compared with.  One ledger row per task_id, as the UNIQUE           *)
(* constraint on cloud_skill_execution_reservation.task_id demands.        *)
(*                                                                         *)
(* A subscription stands for its (user, tenant, plan) triple, which is     *)
(* fixed when it is created; times are ticks of the servers' clock.        *)
(***************************************************************************)
EXTENDS Integers, FiniteSets

CONSTANTS
  Tasks,      \* task_id values
  Subs,       \* subscriptions
  Devices,    \* devices of the subscribing user
  Skills,     \* cloud Skills
  Limits,     \* plan limits an administrator may configure
  SubStart,   \* starts_at of every subscription
  SubEnd,     \* expires_at of every subscription and of its entitlements
  LeaseTtl,   \* DEFAULT_CLOUD_SKILL_LEASE_TTL_MS
  Minute,     \* length of the rate window
  MaxClock,   \* bound: the clock stops here
  NoRow       \* "no reservation for this task"

\* The three limits of a plan that admission enforces.
LimitSet == [included_calls: Nat, requests_per_minute: Nat, max_concurrency: Nat]

\* The fields of a reservation request that a replay must repeat exactly.
Binding == [sub: Subs, device: Devices, skill: Skills]

\* A row of the usage ledger.
Row == [binding: Binding, reserved_at: Nat, lease_expires_at: Nat, released: BOOLEAN]

ASSUME UsageAssumption ==
  /\ IsFiniteSet(Tasks)
  /\ Limits \subseteq LimitSet
  /\ SubStart \in Nat /\ SubEnd \in Nat
  /\ LeaseTtl \in Nat \ {0}
  /\ Minute \in Nat \ {0}
  /\ MaxClock \in Nat
  /\ NoRow \notin Row

Entitlement == Subs \X Skills

-----------------------------------------------------------------------------
(* The counts, each over the whole ledger rows.                             *)

\* Calls already counted against included_calls at time now.
CycleCalls(rows, b, now) ==
  {t \in Tasks : /\ rows[t] # NoRow
                 /\ rows[t].binding.sub = b.sub
                 /\ rows[t].binding.skill = b.skill
                 /\ rows[t].reserved_at >= SubStart
                 /\ rows[t].reserved_at <= now}

MinuteStart(now) == (now \div Minute) * Minute

\* Calls already counted against requests_per_minute at time now.
MinuteCalls(rows, b, now) ==
  {t \in Tasks : /\ rows[t] # NoRow
                 /\ rows[t].binding.sub = b.sub
                 /\ rows[t].binding.device = b.device
                 /\ rows[t].reserved_at >= MinuteStart(now)
                 /\ rows[t].reserved_at <= now}

\* Leases that occupy concurrency at time now.
ActiveLeases(rows, s, d, now) ==
  {t \in Tasks : /\ rows[t] # NoRow
                 /\ rows[t].binding.sub = s
                 /\ rows[t].binding.device = d
                 /\ ~rows[t].released
                 /\ rows[t].lease_expires_at > now}

\* The admission verdict: the limits are tried in this order.
LimitVerdict(rows, plan, b, now) ==
  IF Cardinality(CycleCalls(rows, b, now)) >= plan.included_calls
    THEN "QUOTA_EXCEEDED"
  ELSE IF Cardinality(MinuteCalls(rows, b, now)) >= plan.requests_per_minute
    THEN "RATE_LIMITED"
  ELSE IF Cardinality(ActiveLeases(rows, b.sub, b.device, now)) >= plan.max_concurrency
    THEN "CONCURRENCY_LIMIT"
  ELSE "OK"

\* The row admission writes.
NewRow(b, now) ==
  [binding |-> b, reserved_at |-> now, lease_expires_at |-> now + LeaseTtl,
   released |-> FALSE]

\* The ledger after the leases of the subscriptions S that expired by now are freed.
ExpireLeases(rows, S, now) ==
  [t \in Tasks |->
     IF rows[t] # NoRow /\ rows[t].binding.sub \in S /\ rows[t].lease_expires_at <= now
       THEN [rows[t] EXCEPT !.released = TRUE]
       ELSE rows[t]]

\* Variant: releasing refunds the call.
ReleaseLeaseRefund(rows, t) == [rows EXCEPT ![t] = NoRow]

\* The ledger after task t's lease is freed; the row itself always stays.
ReleaseLease(rows, t) ==
  IF rows[t] = NoRow THEN rows ELSE [rows EXCEPT ![t].released = TRUE]

\* From old to new only leases were freed: every row stays as it was written.
FreedOnly(old, new) ==
  \A t \in Tasks : \/ new[t] = old[t]
                   \/ old[t] # NoRow /\ new[t] = [old[t] EXCEPT !.released = TRUE]

\* The greatest value each limit has had, old being the greatest so far.
Raise(old, l) ==
  [included_calls      |-> IF l.included_calls > old.included_calls
                             THEN l.included_calls ELSE old.included_calls,
   requests_per_minute |-> IF l.requests_per_minute > old.requests_per_minute
                             THEN l.requests_per_minute ELSE old.requests_per_minute,
   max_concurrency     |-> IF l.max_concurrency > old.max_concurrency
                             THEN l.max_concurrency ELSE old.max_concurrency]

\* The subscription is inside its period at time now.
InPeriod(now) == SubStart <= now /\ now < SubEnd

\* The entitlements left active when subscription s takes status st.
EntitlementsAfter(entitled, s, st) ==
  IF st = "active" THEN entitled ELSE {e \in entitled : e[1] # s}
=============================================================================
