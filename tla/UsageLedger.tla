------------------------------ MODULE UsageLedger ------------------------------
(***************************************************************************)
(* Cloud Skill admission in the in-memory store (memory-store.ts): every   *)
(* operation runs to its end in one turn of the event loop, so it is one   *)
(* action and its `now` is the clock of that turn.                         *)
(***************************************************************************)
EXTENDS ReservationLedger

MemoryInit ==
  /\ clock = 0
  /\ resv = [t \in Tasks |-> NoRow]
  /\ status = [s \in Subs |-> "active"]
  /\ entitled = Entitlement
  /\ plan \in Limits
  /\ peak = plan

\* The reasons reserveCloudSkillExecution tries before the limits, in order.
ReserveVerdict(rows, b) ==
  IF status[b.sub] # "active" \/ ~InPeriod(clock) THEN "SUBSCRIPTION_INACTIVE"
  ELSE IF <<b.sub, b.skill>> \notin entitled THEN "SKILL_NOT_ENTITLED"
  ELSE LimitVerdict(rows, plan, b, clock)

\* Expired leases are freed first, even when the request is then refused.
MemoryReserve(t, b) ==
  LET rows == ExpireLeases(resv, Subs, clock)
      verdict == IF rows[t] = NoRow THEN ReserveVerdict(rows, b)
                 ELSE IF rows[t].binding = b THEN "REPLAY"
                 ELSE "IDEMPOTENCY_CONFLICT"
  IN  /\ resv' = IF verdict = "OK" THEN [rows EXCEPT ![t] = NewRow(b, clock)] ELSE rows
      /\ UNCHANGED <<clock, status, entitled, plan, peak>>

MemoryRelease(t) ==
  /\ resv' = ReleaseLease(ExpireLeases(resv, Subs, clock), t)
  /\ UNCHANGED <<clock, status, entitled, plan, peak>>

MemoryUpdateSubscriptionStatus(s, st) ==
  /\ status' = [status EXCEPT ![s] = st]
  /\ entitled' = EntitlementsAfter(entitled, s, st)
  /\ UNCHANGED <<clock, resv, plan, peak>>

\* Granting under a subscription that is not active leaves a revoked row revoked.
MemoryGrantEntitlement(s, k) ==
  /\ entitled' = IF status[s] = "active" THEN entitled \cup {<<s, k>>} ELSE entitled
  /\ UNCHANGED <<clock, resv, status, plan, peak>>

MemoryRevokeEntitlement(s, k) ==
  /\ entitled' = entitled \ {<<s, k>>}
  /\ UNCHANGED <<clock, resv, status, plan, peak>>

\* The limits change; the plan keeps the Skills its entitlements refer to.
MemoryUpdatePlan(l) ==
  /\ plan' = l
  /\ peak' = Raise(peak, l)
  /\ UNCHANGED <<clock, resv, status, entitled>>

MemoryTick ==
  /\ clock < MaxClock
  /\ clock' = clock + 1
  /\ UNCHANGED <<resv, status, entitled, plan, peak>>

MemoryNext ==
  \/ \E t \in Tasks, b \in Binding : MemoryReserve(t, b)
  \/ \E t \in Tasks : MemoryRelease(t)
  \/ \E s \in Subs, st \in {"active", "inactive"} : MemoryUpdateSubscriptionStatus(s, st)
  \/ \E s \in Subs, k \in Skills : MemoryGrantEntitlement(s, k) \/ MemoryRevokeEntitlement(s, k)
  \/ \E l \in Limits : MemoryUpdatePlan(l)
  \/ MemoryTick

MemorySpec == MemoryInit /\ [][MemoryNext]_ledger

-----------------------------------------------------------------------------
\* The rows and maps of the in-memory store have their types.
MemoryTypeOK ==
  /\ clock \in Nat
  /\ resv \in [Tasks -> Row \cup {NoRow}]
  /\ status \in [Subs -> {"active", "inactive"}]
  /\ entitled \subseteq Entitlement
  /\ plan \in Limits
  /\ peak \in LimitSet

\* No clock minute holds more calls of one device than the rate limit allowed.
RateBound ==
  \A s \in Subs, d \in Devices, m \in 0..MaxClock :
    Cardinality({t \in Tasks : /\ resv[t] # NoRow
                               /\ resv[t].binding.sub = s
                               /\ resv[t].binding.device = d
                               /\ MinuteStart(resv[t].reserved_at) = MinuteStart(m)})
      <= peak.requests_per_minute

\* The state of the in-memory store is well formed and within every limit the
\* plan ever allowed, whatever order calls, releases, cancellations and plan
\* changes come in.
PlanLimitsHold == MemoryTypeOK /\ CycleQuotaBound /\ RateBound

\* memory-store.ts: within its limits at every moment, and a ledger throughout.
LimitsHoldAndRefine == []PlanLimitsHold /\ RefinesLedger
=============================================================================
