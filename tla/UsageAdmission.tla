---------------------------- MODULE UsageAdmission ----------------------------
(***************************************************************************)
(* Cloud Skill admission in the PostgreSQL store (pg-store.ts), which any  *)
(* number of API replicas share.  reserveCloudSkillExecution is a READ     *)
(* COMMITTED transaction of several statements: each statement is an       *)
(* action, and between two of them every other transaction may commit.     *)
(*                                                                         *)
(* lock[s] is the subscription row's lock (SELECT ... FOR UPDATE); an      *)
(* entitlement row is locked by whoever reached "entitled" under lock[s].  *)
(* Times are read on the API host when the call starts (req[p].now).       *)
(***************************************************************************)
EXTENDS ReservationLedger

CONSTANTS
  Procs,   \* concurrent calls of reserveCloudSkillExecution
  NoProc   \* "row not locked"

ASSUME ProcAssumption == NoProc \notin Procs

VARIABLES
  pc,       \* next statement of every call
  req,      \* its task, binding and start time
  seen,     \* the plan row it has read
  lock,     \* holder of every subscription row's lock
  verdict   \* the answer of its last call

vars == <<clock, resv, status, entitled, plan, peak, pc, req, seen, lock, verdict>>

PCs == {"idle", "begun", "unknown", "planned", "locked", "entitled", "counted"}
Verdicts == {"none", "OK", "REPLAY", "IDEMPOTENCY_CONFLICT", "SUBSCRIPTION_INACTIVE",
             "SKILL_NOT_ENTITLED", "QUOTA_EXCEEDED", "RATE_LIMITED",
             "CONCURRENCY_LIMIT", "STORAGE_UNAVAILABLE"}
Request == [task: Tasks, binding: Binding, now: Nat]

Init ==
  /\ clock = 0
  /\ resv = [t \in Tasks |-> NoRow]
  /\ status = [s \in Subs |-> "active"]
  /\ entitled = Entitlement
  /\ plan \in Limits
  /\ peak = plan
  /\ pc = [p \in Procs |-> "idle"]
  /\ req \in [Procs -> {[task |-> t, binding |-> b, now |-> 0] : t \in Tasks, b \in Binding}]
  /\ seen = [p \in Procs |-> plan]
  /\ lock = [s \in Subs |-> NoProc]
  /\ verdict = [p \in Procs |-> "none"]

-----------------------------------------------------------------------------
(* reserveCloudSkillExecution                                               *)

Sub(p) == req[p].binding.sub
LocksAfter(p) == [s \in Subs |-> IF lock[s] = p THEN NoProc ELSE lock[s]]

\* The call ends: COMMIT or ROLLBACK drops its locks, the caller gets v.
Answer(p, v) ==
  /\ pc' = [pc EXCEPT ![p] = "idle"]
  /\ lock' = LocksAfter(p)
  /\ verdict' = [verdict EXCEPT ![p] = v]
  /\ UNCHANGED <<req, seen>>

Proceed(p, next) ==
  /\ pc' = [pc EXCEPT ![p] = next]
  /\ UNCHANGED <<req, verdict>>

\* The answer to a request whose task already has row r.
ReplayVerdict(r, b) == IF r.binding = b THEN "REPLAY" ELSE "IDEMPOTENCY_CONFLICT"

\* The call reads the clock, then waits for a connection and BEGINs.
Begin(p, t, b) ==
  /\ pc[p] = "idle"
  /\ pc' = [pc EXCEPT ![p] = "begun"]
  /\ req' = [req EXCEPT ![p] = [task |-> t, binding |-> b, now |-> clock]]
  /\ verdict' = [verdict EXCEPT ![p] = "none"]
  /\ UNCHANGED <<ledger, seen, lock>>

\* SELECT ... WHERE task_id FOR UPDATE: a known task is answered from its row.
Lookup(p) ==
  LET t == req[p].task IN
  /\ pc[p] = "begun"
  /\ \/ /\ resv[t] = NoRow
        /\ Proceed(p, "unknown")
        /\ UNCHANGED <<ledger, seen, lock>>
     \/ /\ resv[t] # NoRow
        /\ resv' = IF resv[t].lease_expires_at <= req[p].now
                     THEN ReleaseLease(resv, t) ELSE resv
        /\ Answer(p, ReplayVerdict(resv[t], req[p].binding))
        /\ UNCHANGED <<clock, status, entitled, plan, peak>>

\* The plan is read before, and without, the subscription's lock.
ReadPlan(p) ==
  /\ pc[p] = "unknown"
  /\ seen' = [seen EXCEPT ![p] = plan]
  /\ Proceed(p, "planned")
  /\ UNCHANGED <<ledger, lock>>

\* Variant: the row is read without waiting for its lock.
LockSubscriptionUnlocked(p) ==
  /\ pc[p] = "planned"
  /\ status[Sub(p)] = "active" /\ InPeriod(req[p].now)
  /\ lock' = [lock EXCEPT ![Sub(p)] = p]
  /\ Proceed(p, "locked")
  /\ UNCHANGED <<ledger, seen>>

\* SELECT ... cloud_skill_subscription FOR UPDATE waits for the row's lock.
LockSubscription(p) ==
  /\ pc[p] = "planned"
  /\ lock[Sub(p)] = NoProc
  /\ \/ /\ status[Sub(p)] = "active" /\ InPeriod(req[p].now)
        /\ lock' = [lock EXCEPT ![Sub(p)] = p]
        /\ Proceed(p, "locked")
        /\ UNCHANGED <<ledger, seen>>
     \/ /\ ~(status[Sub(p)] = "active" /\ InPeriod(req[p].now))
        /\ Answer(p, "SUBSCRIPTION_INACTIVE")
        /\ UNCHANGED ledger

\* SELECT ... cloud_skill_entitlement FOR UPDATE.
LockEntitlement(p) ==
  /\ pc[p] = "locked"
  /\ \/ /\ <<Sub(p), req[p].binding.skill>> \in entitled
        /\ Proceed(p, "entitled")
        /\ UNCHANGED <<ledger, seen, lock>>
     \/ /\ <<Sub(p), req[p].binding.skill>> \notin entitled
        /\ Answer(p, "SKILL_NOT_ENTITLED")
        /\ UNCHANGED ledger

\* The three counts.  A refusal rolls the freeing of expired leases back too.
CheckLimits(p) ==
  LET v == LimitVerdict(resv, seen[p], req[p].binding, req[p].now) IN
  /\ pc[p] = "entitled"
  /\ \/ /\ v = "OK"
        /\ Proceed(p, "counted")
        /\ UNCHANGED <<ledger, seen, lock>>
     \/ /\ v # "OK"
        /\ Answer(p, v)
        /\ UNCHANGED ledger

\* INSERT and COMMIT; the caller may not hear of the COMMIT.
InsertReservation(p) ==
  LET t == req[p].task IN
  /\ pc[p] = "counted"
  /\ resv[t] = NoRow
  /\ resv' = [ExpireLeases(resv, {Sub(p)}, req[p].now)
                EXCEPT ![t] = NewRow(req[p].binding, req[p].now)]
  /\ \E v \in {"OK", "STORAGE_UNAVAILABLE"} : Answer(p, v)
  /\ UNCHANGED <<clock, status, entitled, plan, peak>>

\* The INSERT meets the UNIQUE task_id (23505): roll back, answer from the row.
InsertConflict(p) ==
  LET t == req[p].task IN
  /\ pc[p] = "counted"
  /\ resv[t] # NoRow
  /\ Answer(p, ReplayVerdict(resv[t], req[p].binding))
  /\ UNCHANGED ledger

\* Any statement may throw: ROLLBACK and STORAGE_UNAVAILABLE.
ReserveFail(p) ==
  /\ pc[p] # "idle"
  /\ Answer(p, "STORAGE_UNAVAILABLE")
  /\ UNCHANGED ledger

-----------------------------------------------------------------------------
(* The other writers: each is one transaction that waits for the rows.      *)

CallVars == <<pc, req, seen, lock, verdict>>

\* releaseCloudSkillExecution
Release(t) ==
  /\ resv' = ReleaseLease(resv, t)
  /\ UNCHANGED <<clock, status, entitled, plan, peak, CallVars>>

\* A cancellation, refund or expiry, or an administrator's change.
UpdateSubscriptionStatus(s, st) ==
  /\ lock[s] = NoProc
  /\ status' = [status EXCEPT ![s] = st]
  /\ entitled' = EntitlementsAfter(entitled, s, st)
  /\ UNCHANGED <<clock, resv, plan, peak, CallVars>>

GrantEntitlement(s, k) ==
  /\ lock[s] = NoProc
  /\ entitled' = IF status[s] = "active" THEN entitled \cup {<<s, k>>}
                                         ELSE entitled \ {<<s, k>>}
  /\ UNCHANGED <<clock, resv, status, plan, peak, CallVars>>

EntitlementLocked(s, k) ==
  \E p \in Procs : /\ pc[p] \in {"entitled", "counted"}
                   /\ Sub(p) = s /\ req[p].binding.skill = k

\* Variant: the entitlement is revoked under an admission that holds its row.
RevokeEntitlementUnlocked(s, k) ==
  /\ entitled' = entitled \ {<<s, k>>}
  /\ UNCHANGED <<clock, resv, status, plan, peak, CallVars>>

\* revokeCloudSkillEntitlement locks the entitlement row only.
RevokeEntitlement(s, k) ==
  /\ ~EntitlementLocked(s, k)
  /\ entitled' = entitled \ {<<s, k>>}
  /\ UNCHANGED <<clock, resv, status, plan, peak, CallVars>>

\* updateCloudSkillPlan takes no lock a reservation holds.  The foreign key of
\* the entitlements keeps the Skills they refer to in the plan.
UpdatePlan(l) ==
  /\ plan' = l
  /\ peak' = Raise(peak, l)
  /\ UNCHANGED <<clock, resv, status, entitled, CallVars>>

Tick ==
  /\ clock < MaxClock
  /\ clock' = clock + 1
  /\ UNCHANGED <<resv, status, entitled, plan, peak, CallVars>>

Reserve(p) ==
  \/ Lookup(p) \/ ReadPlan(p) \/ LockSubscription(p) \/ LockEntitlement(p)
  \/ CheckLimits(p) \/ InsertReservation(p) \/ InsertConflict(p)

Next ==
  \/ \E p \in Procs, t \in Tasks, b \in Binding : Begin(p, t, b)
  \/ \E p \in Procs : Reserve(p) \/ ReserveFail(p)
  \/ \E t \in Tasks : Release(t)
  \/ \E s \in Subs, st \in {"active", "inactive"} : UpdateSubscriptionStatus(s, st)
  \/ \E s \in Subs, k \in Skills : GrantEntitlement(s, k) \/ RevokeEntitlement(s, k)
  \/ \E l \in Limits : UpdatePlan(l)
  \/ Tick

Spec == Init /\ [][Next]_vars

-----------------------------------------------------------------------------
\* Tables, row locks and the calls' local variables have their types.
TypeOK ==
  /\ clock \in Nat
  /\ resv \in [Tasks -> Row \cup {NoRow}]
  /\ status \in [Subs -> {"active", "inactive"}]
  /\ entitled \subseteq Entitlement
  /\ plan \in Limits
  /\ peak \in LimitSet
  /\ pc \in [Procs -> PCs]
  /\ req \in [Procs -> Request]
  /\ seen \in [Procs -> Limits]
  /\ lock \in [Subs -> Procs \cup {NoProc}]
  /\ verdict \in [Procs -> Verdicts]

\* The leases active on one device of a subscription never exceed the greatest
\* max_concurrency the plan has had, whichever replicas admit them: the count
\* and the insert of reserveCloudSkillExecution happen under one row lock.
ConcurrencyBound ==
  \A s \in Subs, d \in Devices :
    Cardinality(ActiveLeases(resv, s, d, clock)) <= peak.max_concurrency

\* A row appears only while its subscription is active and its Skill entitled:
\* a cancellation or refund waits for the admission's row locks, or comes first.
AdmittedUnderActiveSubscription ==
  [][\A t \in Tasks : resv[t] = NoRow /\ resv'[t] # NoRow =>
       /\ status[resv'[t].binding.sub] = "active"
       /\ <<resv'[t].binding.sub, resv'[t].binding.skill>> \in entitled]_vars

\* Rows are the usage ledger: once written, a row is never removed, rebound,
\* re-stamped or extended, and a freed lease is never taken again.
LedgerAppendOnly ==
  [][\A t \in Tasks : resv[t] # NoRow =>
       \/ resv'[t] = resv[t]
       \/ resv'[t] = [resv[t] EXCEPT !.released = TRUE]]_vars

\* The subscription's lock: whoever checked the row holds it, and nobody else.
LockHeld ==
  \A p \in Procs, s \in Subs :
    (lock[s] = p) <=> (pc[p] \in {"locked", "entitled", "counted"} /\ Sub(p) = s)

\* What a call has checked under its locks still holds when it inserts: the
\* subscription is active, the Skill entitled, and the leases it counted fit.
CallChecks(p) ==
  /\ pc[p] # "idle" => req[p].now <= clock
  /\ pc[p] \in {"planned", "locked", "entitled", "counted"} =>
       seen[p].max_concurrency <= peak.max_concurrency
  /\ pc[p] \in {"locked", "entitled", "counted"} =>
       status[Sub(p)] = "active" /\ InPeriod(req[p].now)
  /\ pc[p] \in {"entitled", "counted"} => <<Sub(p), req[p].binding.skill>> \in entitled
  /\ pc[p] = "counted" =>
       Cardinality(ActiveLeases(resv, Sub(p), req[p].binding.device, req[p].now))
         < peak.max_concurrency

ChecksStillHold ==
  /\ plan.max_concurrency <= peak.max_concurrency
  /\ \A p \in Procs : CallChecks(p)

\* The inductive invariant behind ConcurrencyBound: the row lock makes the
\* checks of reserveCloudSkillExecution stable until its INSERT.
AdmissionInv == LockHeld /\ ChecksStillHold

\* Rows, locks and checks are as they should be, and no interleaving of replicas
\* passes a plan's concurrency limit.
AdmissionSafe == TypeOK /\ AdmissionInv /\ ConcurrencyBound
=============================================================================
