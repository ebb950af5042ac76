------------------------- MODULE UsageAdmissionProofs -------------------------
(***************************************************************************)
(* Proofs about Cloud Skill admission in the PostgreSQL store, for any     *)
(* number of replicas, tasks, subscriptions, devices and Skills, and in    *)
(* the in-memory store.                                                    *)
(***************************************************************************)
EXTENDS UsageAdmission, UsageLedger, FiniteSetTheorems, TLAPS

-----------------------------------------------------------------------------
(* The counts                                                               *)

\* A set of tasks is finite, and its size is a number.
LEMMA ActiveFinite ==
  ASSUME NEW rows, NEW s, NEW d, NEW n
  PROVE  /\ IsFiniteSet(ActiveLeases(rows, s, d, n))
         /\ Cardinality(ActiveLeases(rows, s, d, n)) \in Nat
  <1>1. ActiveLeases(rows, s, d, n) \subseteq Tasks
    BY DEF ActiveLeases
  <1>2. IsFiniteSet(Tasks)
    BY UsageAssumption
  <1>. QED  BY <1>1, <1>2, FS_Subset, FS_CardinalityType

\* Freeing leases and the passing of time only shrink the set of active leases.
LEMMA ActiveShrinks ==
  ASSUME NEW old \in [Tasks -> Row \cup {NoRow}],
         NEW new \in [Tasks -> Row \cup {NoRow}],
         NEW s, NEW d, NEW n1 \in Nat, NEW n2 \in Nat,
         n1 <= n2, FreedOnly(old, new)
  PROVE  Cardinality(ActiveLeases(new, s, d, n2)) <= Cardinality(ActiveLeases(old, s, d, n1))
  <1>1. ActiveLeases(new, s, d, n2) \subseteq ActiveLeases(old, s, d, n1)
    <2>1. SUFFICES ASSUME NEW t \in ActiveLeases(new, s, d, n2)
                   PROVE  t \in ActiveLeases(old, s, d, n1)
      OBVIOUS
    <2>2. t \in Tasks /\ new[t] # NoRow /\ new[t].binding.sub = s /\ new[t].binding.device = d
          /\ ~new[t].released /\ new[t].lease_expires_at > n2
      BY DEF ActiveLeases
    <2>3. new[t] = old[t]
      <3>1. new[t] = old[t] \/ (old[t] # NoRow /\ new[t] = [old[t] EXCEPT !.released = TRUE])
        BY <2>2 DEF FreedOnly
      <3>2. CASE old[t] # NoRow /\ new[t] = [old[t] EXCEPT !.released = TRUE]
        <4>1. old[t] \in Row
          BY <2>2, <3>2
        <4>2. new[t].released
          BY <3>2, <4>1 DEF Row
        <4>. QED  BY <4>2, <2>2
      <3>. QED  BY <3>1, <3>2
    <2>4. old[t] \in Row
      BY <2>2, <2>3
    <2>5. old[t].lease_expires_at \in Nat
      BY <2>4 DEF Row
    <2>6. old[t].lease_expires_at > n1
      BY <2>2, <2>3, <2>5
    <2>. QED  BY <2>2, <2>3, <2>6 DEF ActiveLeases
  <1>. QED  BY <1>1, ActiveFinite, FS_Subset

\* Writing one row adds at most that task to the active leases.
LEMMA ActiveGrowsByOne ==
  ASSUME NEW old, NEW new, NEW t \in Tasks, NEW s, NEW d, NEW n,
         \A u \in Tasks \ {t} : new[u] = old[u]
  PROVE  Cardinality(ActiveLeases(new, s, d, n)) <= Cardinality(ActiveLeases(old, s, d, n)) + 1
  <1>. DEFINE O == ActiveLeases(old, s, d, n)
              N == ActiveLeases(new, s, d, n)
  <1>1. N \subseteq O \cup {t}
    BY DEF ActiveLeases
  <1>2. IsFiniteSet(O) /\ Cardinality(O) \in Nat /\ Cardinality(N) \in Nat
    BY ActiveFinite
  <1>. HIDE DEF O, N
  <1>3. IsFiniteSet(O \cup {t}) /\ Cardinality(O \cup {t}) <= Cardinality(O) + 1
    <2>1. /\ IsFiniteSet(O \cup {t})
          /\ Cardinality(O \cup {t}) = IF t \in O THEN Cardinality(O) ELSE Cardinality(O) + 1
      BY <1>2, FS_AddElement, Zenon
    <2>. QED  BY <2>1, <1>2
  <1>4. Cardinality(N) <= Cardinality(O \cup {t}) /\ Cardinality(O \cup {t}) \in Nat
    BY <1>1, <1>3, FS_Subset, FS_CardinalityType
  <1>5. Cardinality(N) <= Cardinality(O) + 1
    BY <1>2, <1>3, <1>4
  <1>. QED  BY <1>5 DEF O, N

-----------------------------------------------------------------------------
(* Facts about single operators                                             *)

\* Admission never stamps a row wrongly: NewRow is a ledger row.
LEMMA NewRowType ==
  ASSUME NEW b \in Binding, NEW n \in Nat
  PROVE  NewRow(b, n) \in Row
  BY UsageAssumption DEF NewRow, Row

\* Freeing expired leases keeps the ledger's shape and changes nothing else.
LEMMA ExpireLeasesFreesOnly ==
  ASSUME NEW rows \in [Tasks -> Row \cup {NoRow}], NEW S, NEW n
  PROVE  /\ ExpireLeases(rows, S, n) \in [Tasks -> Row \cup {NoRow}]
         /\ FreedOnly(rows, ExpireLeases(rows, S, n))
  BY DEF ExpireLeases, FreedOnly, Row

\* Releasing a lease keeps the ledger's shape and changes nothing else.
LEMMA ReleaseLeaseFreesOnly ==
  ASSUME NEW rows \in [Tasks -> Row \cup {NoRow}], NEW t \in Tasks
  PROVE  /\ ReleaseLease(rows, t) \in [Tasks -> Row \cup {NoRow}]
         /\ FreedOnly(rows, ReleaseLease(rows, t))
  BY DEF ReleaseLease, FreedOnly, Row

\* The history of the limits never falls and stays above the limits set.
LEMMA RaiseBounds ==
  ASSUME NEW old \in LimitSet, NEW l \in LimitSet
  PROVE  /\ Raise(old, l) \in LimitSet
         /\ old.max_concurrency <= Raise(old, l).max_concurrency
         /\ l.max_concurrency <= Raise(old, l).max_concurrency
  BY DEF Raise, LimitSet

\* An admission that passes the limits found room for one more lease.
LEMMA VerdictOKFits ==
  ASSUME NEW rows, NEW l \in LimitSet, NEW b \in Binding, NEW n,
         LimitVerdict(rows, l, b, n) = "OK"
  PROVE  Cardinality(ActiveLeases(rows, b.sub, b.device, n)) < l.max_concurrency
  <1>1. ~(Cardinality(ActiveLeases(rows, b.sub, b.device, n)) >= l.max_concurrency)
    BY DEF LimitVerdict
  <1>2. l.max_concurrency \in Nat
    BY DEF LimitSet
  <1>. QED  BY <1>1, <1>2, ActiveFinite

\* The reasons the limits answer with are verdicts of the store.
LEMMA VerdictType ==
  ASSUME NEW rows, NEW l, NEW b, NEW n
  PROVE  LimitVerdict(rows, l, b, n) \in Verdicts
  BY DEF LimitVerdict, Verdicts

-----------------------------------------------------------------------------
(* Type correctness                                                         *)

\* Every step of a call, and of every other writer, keeps the types: rows,
\* locks, program counters and verdicts are what pg-store.ts can hold.
LEMMA TypeStep ==
  ASSUME TypeOK, [Next]_vars
  PROVE  TypeOK'
  <1>. USE DEF TypeOK
  <1>1. CASE \E p \in Procs, t \in Tasks, b \in Binding : Begin(p, t, b)
    BY <1>1 DEF Begin, ledger, PCs, Verdicts, Request
  <1>2. ASSUME NEW p \in Procs, Lookup(p)
        PROVE  TypeOK'
    <2>1. CASE resv[req[p].task] = NoRow
      BY <1>2, <2>1 DEF Lookup, Proceed, ledger, PCs
    <2>2. CASE resv[req[p].task] # NoRow
      <3>1. req[p].task \in Tasks
        BY DEF Request
      <3>2. resv' \in [Tasks -> Row \cup {NoRow}]
        BY <1>2, <2>2, <3>1, ReleaseLeaseFreesOnly DEF Lookup
      <3>. QED  BY <1>2, <2>2, <3>2 DEF Lookup, Answer, LocksAfter, ReplayVerdict, PCs, Verdicts
    <2>. QED  BY <2>1, <2>2
  <1>3. ASSUME NEW p \in Procs, ReadPlan(p)
        PROVE  TypeOK'
    BY <1>3 DEF ReadPlan, Proceed, ledger, PCs
  <1>4. ASSUME NEW p \in Procs, LockSubscription(p)
        PROVE  TypeOK'
    <2>1. Sub(p) \in Subs
      BY DEF Sub, Request, Binding
    <2>2. CASE status[Sub(p)] = "active" /\ InPeriod(req[p].now)
      BY <1>4, <2>1, <2>2 DEF LockSubscription, Proceed, ledger, PCs
    <2>3. CASE ~(status[Sub(p)] = "active" /\ InPeriod(req[p].now))
      BY <1>4, <2>3 DEF LockSubscription, Answer, LocksAfter, ledger, PCs, Verdicts
    <2>. QED  BY <2>2, <2>3
  <1>5. ASSUME NEW p \in Procs, LockEntitlement(p)
        PROVE  TypeOK'
    BY <1>5 DEF LockEntitlement, Proceed, Answer, LocksAfter, ledger, PCs, Verdicts
  <1>6. ASSUME NEW p \in Procs, CheckLimits(p)
        PROVE  TypeOK'
    BY <1>6, VerdictType DEF CheckLimits, Proceed, Answer, LocksAfter, ledger, PCs
  <1>7. ASSUME NEW p \in Procs, InsertReservation(p)
        PROVE  TypeOK'
    <2>1. req[p].task \in Tasks /\ req[p].binding \in Binding /\ req[p].now \in Nat
      BY DEF Request
    <2>2. resv' \in [Tasks -> Row \cup {NoRow}]
      BY <1>7, <2>1, ExpireLeasesFreesOnly, NewRowType DEF InsertReservation
    <2>3. PICK v \in {"OK", "STORAGE_UNAVAILABLE"} : Answer(p, v)
      BY <1>7 DEF InsertReservation
    <2>4. v \in Verdicts
      BY DEF Verdicts
    <2>. QED  BY <1>7, <2>2, <2>3, <2>4 DEF InsertReservation, Answer, LocksAfter, PCs
  <1>8. ASSUME NEW p \in Procs, InsertConflict(p)
        PROVE  TypeOK'
    BY <1>8 DEF InsertConflict, Answer, LocksAfter, ReplayVerdict, ledger, PCs, Verdicts
  <1>9. ASSUME NEW p \in Procs, ReserveFail(p)
        PROVE  TypeOK'
    BY <1>9 DEF ReserveFail, Answer, LocksAfter, ledger, PCs, Verdicts
  <1>10. ASSUME NEW t \in Tasks, Release(t)
         PROVE  TypeOK'
    BY <1>10, ReleaseLeaseFreesOnly DEF Release, CallVars
  <1>11. ASSUME NEW s \in Subs, NEW st \in {"active", "inactive"}, UpdateSubscriptionStatus(s, st)
         PROVE  TypeOK'
    BY <1>11 DEF UpdateSubscriptionStatus, EntitlementsAfter, CallVars
  <1>12. ASSUME NEW s \in Subs, NEW k \in Skills, GrantEntitlement(s, k) \/ RevokeEntitlement(s, k)
         PROVE  TypeOK'
    BY <1>12 DEF GrantEntitlement, RevokeEntitlement, Entitlement, CallVars
  <1>13. ASSUME NEW l \in Limits, UpdatePlan(l)
         PROVE  TypeOK'
    <2>1. l \in LimitSet
      BY UsageAssumption
    <2>. QED  BY <1>13, <2>1, RaiseBounds DEF UpdatePlan, CallVars
  <1>14. CASE Tick
    BY <1>14 DEF Tick, CallVars
  <1>15. CASE UNCHANGED vars
    BY <1>15 DEF vars
  <1>. QED
    BY <1>1, <1>2, <1>3, <1>4, <1>5, <1>6, <1>7, <1>8, <1>9, <1>10, <1>11, <1>12, <1>13,
       <1>14, <1>15 DEF Next, Reserve

\* The states reserveCloudSkillExecution and its rivals reach are well typed.
THEOREM TypeCorrect == Spec => []TypeOK
  <1>1. Init => TypeOK
    BY UsageAssumption DEF Init, TypeOK, Entitlement, PCs, Verdicts, Request
  <1>. QED  BY <1>1, TypeStep, PTL DEF Spec

-----------------------------------------------------------------------------
(* The row lock keeps the checks true until the INSERT                      *)

\* Only the call that locked a subscription row, and still holds it, has it.
LEMMA LockStep ==
  ASSUME TypeOK, LockHeld, [Next]_vars
  PROVE  LockHeld'
  <1>. USE DEF TypeOK, LockHeld, Sub
  <1>0. ASSUME NEW p \in Procs, NEW v, Answer(p, v)
        PROVE  LockHeld'
    BY <1>0, ProcAssumption DEF Answer, LocksAfter, PCs
  <1>1. ASSUME NEW p \in Procs, NEW t \in Tasks, NEW b \in Binding, Begin(p, t, b)
        PROVE  LockHeld'
    BY <1>1 DEF Begin, PCs
  <1>2. ASSUME NEW p \in Procs, Lookup(p)
        PROVE  LockHeld'
    <2>1. CASE resv[req[p].task] = NoRow
      BY <1>2, <2>1 DEF Lookup, Proceed, PCs
    <2>2. CASE resv[req[p].task] # NoRow
      BY <1>2, <2>2, <1>0 DEF Lookup
    <2>. QED  BY <2>1, <2>2
  <1>3. ASSUME NEW p \in Procs, ReadPlan(p)
        PROVE  LockHeld'
    BY <1>3 DEF ReadPlan, Proceed, PCs
  <1>4. ASSUME NEW p \in Procs, LockSubscription(p)
        PROVE  LockHeld'
    <2>1. CASE status[Sub(p)] = "active" /\ InPeriod(req[p].now)
      <3>1. Sub(p) \in Subs
        BY DEF Request, Binding
      <3>2. /\ pc[p] = "planned" /\ lock[Sub(p)] = NoProc
            /\ lock' = [lock EXCEPT ![Sub(p)] = p]
            /\ pc' = [pc EXCEPT ![p] = "locked"]
            /\ req' = req
        BY <1>4, <2>1 DEF LockSubscription, Proceed
      <3>. QED  BY <3>1, <3>2, ProcAssumption DEF PCs
    <2>2. CASE ~(status[Sub(p)] = "active" /\ InPeriod(req[p].now))
      BY <1>4, <2>2, <1>0 DEF LockSubscription
    <2>. QED  BY <2>1, <2>2
  <1>5. ASSUME NEW p \in Procs, LockEntitlement(p)
        PROVE  LockHeld'
    <2>1. CASE <<Sub(p), req[p].binding.skill>> \in entitled
      BY <1>5, <2>1 DEF LockEntitlement, Proceed, PCs
    <2>2. CASE <<Sub(p), req[p].binding.skill>> \notin entitled
      BY <1>5, <2>2, <1>0 DEF LockEntitlement
    <2>. QED  BY <2>1, <2>2
  <1>6. ASSUME NEW p \in Procs, CheckLimits(p)
        PROVE  LockHeld'
    <2>. DEFINE v == LimitVerdict(resv, seen[p], req[p].binding, req[p].now)
    <2>1. CASE v = "OK"
      BY <1>6, <2>1 DEF CheckLimits, Proceed, PCs
    <2>2. CASE v # "OK"
      BY <1>6, <2>2, <1>0 DEF CheckLimits
    <2>. QED  BY <2>1, <2>2
  <1>7. ASSUME NEW p \in Procs, InsertReservation(p) \/ InsertConflict(p) \/ ReserveFail(p)
        PROVE  LockHeld'
    BY <1>7, <1>0 DEF InsertReservation, InsertConflict, ReserveFail
  <1>8. CASE UNCHANGED CallVars
    BY <1>8 DEF CallVars
  <1>9. CASE UNCHANGED vars
    BY <1>9 DEF vars
  <1>10. ASSUME \/ \E t \in Tasks : Release(t)
                \/ \E s \in Subs, st \in {"active", "inactive"} : UpdateSubscriptionStatus(s, st)
                \/ \E s \in Subs, k \in Skills : GrantEntitlement(s, k) \/ RevokeEntitlement(s, k)
                \/ \E l \in Limits : UpdatePlan(l)
                \/ Tick
         PROVE  UNCHANGED CallVars
    BY <1>10 DEF Release, UpdateSubscriptionStatus, GrantEntitlement, RevokeEntitlement,
                 UpdatePlan, Tick, CallVars
  <1>. QED
    BY <1>1, <1>2, <1>3, <1>4, <1>5, <1>6, <1>7, <1>8, <1>9, <1>10 DEF Next, Reserve

\* Time and freed leases never raise a count.
LEMMA CountNeverRises ==
  ASSUME TypeOK, resv' \in [Tasks -> Row \cup {NoRow}], FreedOnly(resv, resv'),
         NEW s, NEW d, NEW n \in Nat
  PROVE  Cardinality(ActiveLeases(resv', s, d, n)) <= Cardinality(ActiveLeases(resv, s, d, n))
  BY ActiveShrinks DEF TypeOK

\* The INSERT as the other subscriptions and devices see it: freed leases only.
LEMMA InsertElsewhere ==
  ASSUME TypeOK, NEW p \in Procs, InsertReservation(p),
         NEW s, NEW d, NEW n \in Nat,
         s # Sub(p) \/ d # req[p].binding.device
  PROVE  Cardinality(ActiveLeases(resv', s, d, n)) <= Cardinality(ActiveLeases(resv, s, d, n))
  <1>. DEFINE E == ExpireLeases(resv, {Sub(p)}, req[p].now)
              t == req[p].task
  <1>1. t \in Tasks /\ req[p].binding \in Binding /\ req[p].now \in Nat
    BY DEF TypeOK, Request
  <1>2. E \in [Tasks -> Row \cup {NoRow}] /\ FreedOnly(resv, E)
    BY ExpireLeasesFreesOnly DEF TypeOK
  <1>4. E[t] = NoRow
    BY <1>1 DEF InsertReservation, ExpireLeases
  <1>5. resv' = [E EXCEPT ![t] = NewRow(req[p].binding, req[p].now)]
    BY DEF InsertReservation
  <1>. HIDE DEF E
  <1>3. Cardinality(ActiveLeases(E, s, d, n)) <= Cardinality(ActiveLeases(resv, s, d, n))
    BY <1>2, ActiveShrinks DEF TypeOK
  <1>6. ActiveLeases(resv', s, d, n) \subseteq ActiveLeases(E, s, d, n)
    <2>1. SUFFICES ASSUME NEW u \in ActiveLeases(resv', s, d, n)
                   PROVE  u \in ActiveLeases(E, s, d, n)
      OBVIOUS
    <2>2. u # t
      <3>1. SUFFICES ASSUME u = t PROVE FALSE
        OBVIOUS
      <3>2. resv'[u] = NewRow(req[p].binding, req[p].now)
        BY <1>1, <1>2, <1>5, <3>1
      <3>. QED  BY <3>2 DEF ActiveLeases, NewRow, Sub
    <2>3. u \in Tasks /\ resv'[u] = E[u]
      BY <1>2, <1>5, <2>2 DEF ActiveLeases
    <2>. QED  BY <2>3 DEF ActiveLeases
  <1>7. Cardinality(ActiveLeases(resv', s, d, n)) <= Cardinality(ActiveLeases(E, s, d, n))
    BY <1>6, ActiveFinite, FS_Subset
  <1>. QED  BY <1>3, <1>7, ActiveFinite

\* The INSERT as its own subscription and device see it: at most one lease more.
LEMMA InsertHere ==
  ASSUME TypeOK, NEW p \in Procs, InsertReservation(p), NEW s, NEW d, NEW n \in Nat,
         req[p].now <= n
  PROVE  Cardinality(ActiveLeases(resv', s, d, n))
           <= Cardinality(ActiveLeases(resv, s, d, req[p].now)) + 1
  <1>. DEFINE E == ExpireLeases(resv, {Sub(p)}, req[p].now)
              t == req[p].task
  <1>1. t \in Tasks /\ req[p].now \in Nat
    BY DEF TypeOK, Request
  <1>2. E \in [Tasks -> Row \cup {NoRow}] /\ FreedOnly(resv, E)
    BY ExpireLeasesFreesOnly DEF TypeOK
  <1>3. Cardinality(ActiveLeases(E, s, d, n)) <= Cardinality(ActiveLeases(resv, s, d, req[p].now))
    BY <1>1, <1>2, ActiveShrinks DEF TypeOK
  <1>4. resv' = [E EXCEPT ![t] = NewRow(req[p].binding, req[p].now)]
    BY DEF InsertReservation
  <1>. HIDE DEF E
  <1>5. \A u \in Tasks \ {t} : resv'[u] = E[u]
    BY <1>2, <1>4
  <1>6. Cardinality(ActiveLeases(resv', s, d, n)) <= Cardinality(ActiveLeases(E, s, d, n)) + 1
    BY <1>1, <1>5, ActiveGrowsByOne
  <1>. QED  BY <1>3, <1>6, ActiveFinite

\* A call that does not move keeps what it has checked, if its subscription,
\* its entitlement and its count are left alone.
LEMMA WaitingCall ==
  ASSUME TypeOK, TypeOK', NEW q \in Procs, CallChecks(q),
         pc'[q] = pc[q], req'[q] = req[q], seen'[q] = seen[q], clock <= clock',
         peak.max_concurrency <= peak'.max_concurrency,
         pc[q] \in {"locked", "entitled", "counted"} => status'[Sub(q)] = status[Sub(q)],
         pc[q] \in {"entitled", "counted"} =>
           (<<Sub(q), req[q].binding.skill>> \in entitled
              => <<Sub(q), req[q].binding.skill>> \in entitled'),
         pc[q] = "counted" =>
           Cardinality(ActiveLeases(resv', Sub(q), req[q].binding.device, req[q].now))
             <= Cardinality(ActiveLeases(resv, Sub(q), req[q].binding.device, req[q].now))
  PROVE  CallChecks(q)'
  <1>. DEFINE C == Cardinality(ActiveLeases(resv, Sub(q), req[q].binding.device, req[q].now))
              D == Cardinality(ActiveLeases(resv', Sub(q), req[q].binding.device, req[q].now))
  <1>1. Sub(q)' = Sub(q)
    BY DEF Sub
  <1>2. C \in Nat /\ D \in Nat
    BY ActiveFinite
  <1>3. /\ clock \in Nat /\ clock' \in Nat /\ req[q].now \in Nat
        /\ peak.max_concurrency \in Nat /\ peak'.max_concurrency \in Nat
        /\ seen[q].max_concurrency \in Nat
    BY UsageAssumption DEF TypeOK, Request, LimitSet
  <1>4. pc[q] = "counted" => D < peak'.max_concurrency
    <2>1. pc[q] = "counted" => C < peak.max_concurrency /\ D <= C
      BY DEF CallChecks
    <2>. HIDE DEF C, D
    <2>. QED  BY <2>1, <1>2, <1>3
  <1>5. pc[q] # "idle" => req[q].now <= clock'
    BY <1>3 DEF CallChecks
  <1>6. pc[q] \in {"planned", "locked", "entitled", "counted"}
          => seen[q].max_concurrency <= peak'.max_concurrency
    BY <1>3 DEF CallChecks
  <1>. QED  BY <1>1, <1>4, <1>5, <1>6 DEF CallChecks

\* The acting call: what it has just checked holds.
LEMMA ActingCall ==
  ASSUME TypeOK, TypeOK', NEW p \in Procs, CallChecks(p),
         plan.max_concurrency <= peak.max_concurrency,
         \/ \E t \in Tasks, b \in Binding : Begin(p, t, b)
         \/ Reserve(p)
         \/ ReserveFail(p)
  PROVE  CallChecks(p)'
  <1>0. ASSUME NEW v, Answer(p, v)
        PROVE  CallChecks(p)'
    BY <1>0 DEF Answer, CallChecks, TypeOK
  <1>1. ASSUME NEW t \in Tasks, NEW b \in Binding, Begin(p, t, b)
        PROVE  CallChecks(p)'
    BY <1>1 DEF Begin, CallChecks, TypeOK, ledger
  <1>2. CASE Lookup(p)
    <2>1. CASE resv[req[p].task] = NoRow
      BY <1>2, <2>1 DEF Lookup, Proceed, CallChecks, TypeOK, ledger
    <2>2. CASE resv[req[p].task] # NoRow
      BY <1>2, <2>2, <1>0 DEF Lookup
    <2>. QED  BY <2>1, <2>2
  <1>3. CASE ReadPlan(p)
    BY <1>3 DEF ReadPlan, Proceed, CallChecks, TypeOK, ledger
  <1>4. CASE LockSubscription(p)
    <2>1. CASE status[Sub(p)] = "active" /\ InPeriod(req[p].now)
      BY <1>4, <2>1 DEF LockSubscription, Proceed, CallChecks, TypeOK, ledger, Sub
    <2>2. CASE ~(status[Sub(p)] = "active" /\ InPeriod(req[p].now))
      BY <1>4, <2>2, <1>0 DEF LockSubscription
    <2>. QED  BY <2>1, <2>2
  <1>5. CASE LockEntitlement(p)
    <2>1. CASE <<Sub(p), req[p].binding.skill>> \in entitled
      BY <1>5, <2>1 DEF LockEntitlement, Proceed, CallChecks, TypeOK, ledger, Sub
    <2>2. CASE <<Sub(p), req[p].binding.skill>> \notin entitled
      BY <1>5, <2>2, <1>0 DEF LockEntitlement
    <2>. QED  BY <2>1, <2>2
  <1>6. CASE CheckLimits(p)
    <2>. DEFINE v == LimitVerdict(resv, seen[p], req[p].binding, req[p].now)
    <2>1. CASE v = "OK"
      <3>1. seen[p] \in LimitSet /\ req[p].binding \in Binding
        BY UsageAssumption DEF TypeOK, Request
      <3>. DEFINE C == Cardinality(ActiveLeases(resv, Sub(p), req[p].binding.device, req[p].now))
      <3>2. C < seen[p].max_concurrency
        BY <2>1, <3>1, VerdictOKFits DEF Sub
      <3>3. C \in Nat
        BY ActiveFinite
      <3>4. seen[p].max_concurrency <= peak.max_concurrency
        BY <1>6 DEF CheckLimits, CallChecks
      <3>5. seen[p].max_concurrency \in Nat /\ peak.max_concurrency \in Nat
        BY <3>1 DEF TypeOK, LimitSet
      <3>6. C < peak.max_concurrency
        <4>. HIDE DEF C
        <4>. QED  BY <3>2, <3>3, <3>4, <3>5
      <3>7. /\ pc[p] = "entitled" /\ pc' = [pc EXCEPT ![p] = "counted"]
            /\ UNCHANGED <<clock, resv, status, entitled, plan, peak, req, seen>>
        BY <1>6, <2>1 DEF CheckLimits, Proceed, ledger
      <3>. QED  BY <3>6, <3>7 DEF CallChecks, TypeOK, Sub
    <2>2. CASE v # "OK"
      BY <1>6, <2>2, <1>0 DEF CheckLimits
    <2>. QED  BY <2>1, <2>2
  <1>7. CASE InsertReservation(p) \/ InsertConflict(p) \/ ReserveFail(p)
    BY <1>7, <1>0 DEF InsertReservation, InsertConflict, ReserveFail
  <1>. QED  BY <1>1, <1>2, <1>3, <1>4, <1>5, <1>6, <1>7 DEF Reserve

\* What every call has checked under the lock stays true until it inserts.
LEMMA ChecksStep ==
  ASSUME TypeOK, TypeOK', LockHeld, ChecksStillHold, [Next]_vars
  PROVE  ChecksStillHold'
  <1>. DEFINE Calls == \E p \in Procs :
                         \/ \E t \in Tasks, b \in Binding : Begin(p, t, b)
                         \/ Reserve(p)
                         \/ ReserveFail(p)
  <1>1. plan'.max_concurrency <= peak'.max_concurrency
    <2>1. ASSUME NEW l \in Limits, UpdatePlan(l)
          PROVE  plan'.max_concurrency <= peak'.max_concurrency
      BY <2>1, UsageAssumption, RaiseBounds DEF UpdatePlan, TypeOK
    <2>2. CASE UNCHANGED <<plan, peak>>
      BY <2>2 DEF ChecksStillHold
    <2>. QED
      BY <2>1, <2>2 DEF Next, vars, Begin, Reserve, Lookup, ReadPlan, LockSubscription,
         LockEntitlement, CheckLimits, InsertReservation, InsertConflict, ReserveFail, Release,
         UpdateSubscriptionStatus, GrantEntitlement, RevokeEntitlement, Tick, ledger, CallVars
  <1>2. ASSUME NEW q \in Procs
        PROVE  CallChecks(q)'
    <2>0. CallChecks(q) /\ req[q] \in Request
      BY DEF ChecksStillHold, TypeOK
    <2>1. peak.max_concurrency \in Nat /\ clock \in Nat /\ req[q].now \in Nat
      BY <2>0 DEF TypeOK, LimitSet, Request
    <2>2. ASSUME NEW p \in Procs,
                 \/ \E t \in Tasks, b \in Binding : Begin(p, t, b)
                 \/ Reserve(p)
                 \/ ReserveFail(p)
          PROVE  CallChecks(q)'
      <3>1. CASE p = q
        BY <2>0, <2>2, <3>1, ActingCall DEF ChecksStillHold
      <3>2. CASE p # q
        <4>1. pc'[q] = pc[q] /\ req'[q] = req[q] /\ seen'[q] = seen[q]
          BY <2>2, <3>2 DEF TypeOK, Begin, Reserve, Lookup, ReadPlan, LockSubscription,
             LockEntitlement, CheckLimits, InsertReservation, InsertConflict, ReserveFail,
             Proceed, Answer
        <4>2. UNCHANGED <<clock, status, entitled, peak>>
          BY <2>2 DEF Begin, Reserve, Lookup, ReadPlan, LockSubscription, LockEntitlement,
             CheckLimits, InsertReservation, InsertConflict, ReserveFail, ledger
        <4>3. pc[q] = "counted" =>
                Cardinality(ActiveLeases(resv', Sub(q), req[q].binding.device, req[q].now))
                  <= Cardinality(ActiveLeases(resv, Sub(q), req[q].binding.device, req[q].now))
          <5>1. CASE InsertReservation(p)
            <6>1. pc[p] = "counted" /\ Sub(p) \in Subs
              BY <5>1 DEF InsertReservation, TypeOK, Sub, Request, Binding
            <6>2. pc[q] = "counted" => Sub(q) # Sub(p)
              BY <3>2, <6>1 DEF LockHeld
            <6>. QED  BY <5>1, <6>2, <2>1, InsertElsewhere
          <5>2. CASE Lookup(p) /\ resv[req[p].task] # NoRow
            <6>1. req[p].task \in Tasks
              BY DEF TypeOK, Request
            <6>2. FreedOnly(resv, resv')
              <7>1. resv' = resv \/ resv' = ReleaseLease(resv, req[p].task)
                BY <5>2 DEF Lookup
              <7>2. FreedOnly(resv, ReleaseLease(resv, req[p].task))
                BY <6>1, ReleaseLeaseFreesOnly DEF TypeOK
              <7>3. FreedOnly(resv, resv)
                BY DEF FreedOnly
              <7>. QED  BY <7>1, <7>2, <7>3
            <6>. QED  BY <6>2, <2>1, CountNeverRises DEF TypeOK
          <5>3. CASE resv' = resv
            BY <5>3, <2>1, ActiveFinite
          <5>. QED
            BY <2>2, <5>1, <5>2, <5>3 DEF Begin, Reserve, Lookup, ReadPlan, LockSubscription,
               LockEntitlement, CheckLimits, InsertConflict, ReserveFail, ledger
        <4>4. clock <= clock' /\ peak.max_concurrency <= peak'.max_concurrency
          BY <2>1, <4>2
        <4>5. status' = status /\ entitled' = entitled
          BY <4>2
        <4>. QED  BY <2>0, <4>1, <4>3, <4>4, <4>5, WaitingCall
      <3>. QED  BY <3>1, <3>2
    <2>3. ASSUME UNCHANGED CallVars, UNCHANGED resv, clock <= clock',
                 peak.max_concurrency <= peak'.max_concurrency,
                 pc[q] \in {"locked", "entitled", "counted"} => status'[Sub(q)] = status[Sub(q)],
                 pc[q] \in {"entitled", "counted"} =>
                   (<<Sub(q), req[q].binding.skill>> \in entitled
                      => <<Sub(q), req[q].binding.skill>> \in entitled')
          PROVE  CallChecks(q)'
      <3>1. Cardinality(ActiveLeases(resv', Sub(q), req[q].binding.device, req[q].now))
              <= Cardinality(ActiveLeases(resv, Sub(q), req[q].binding.device, req[q].now))
        BY <2>3, ActiveFinite
      <3>2. pc'[q] = pc[q] /\ req'[q] = req[q] /\ seen'[q] = seen[q]
        BY <2>3 DEF CallVars
      <3>. QED  BY <2>0, <2>3, <3>1, <3>2, WaitingCall
    <2>4. ASSUME NEW t \in Tasks, Release(t)
          PROVE  CallChecks(q)'
      <3>1. FreedOnly(resv, resv')
        BY <2>4, ReleaseLeaseFreesOnly DEF Release, TypeOK
      <3>2. Cardinality(ActiveLeases(resv', Sub(q), req[q].binding.device, req[q].now))
              <= Cardinality(ActiveLeases(resv, Sub(q), req[q].binding.device, req[q].now))
        BY <3>1, <2>1, CountNeverRises DEF TypeOK
      <3>3. pc'[q] = pc[q] /\ req'[q] = req[q] /\ seen'[q] = seen[q]
        BY <2>4 DEF Release, CallVars
      <3>4. clock <= clock' /\ peak.max_concurrency <= peak'.max_concurrency
        BY <2>1, <2>4 DEF Release
      <3>5. status' = status /\ entitled' = entitled
        BY <2>4 DEF Release
      <3>. QED  BY <2>0, <3>2, <3>3, <3>4, <3>5, WaitingCall
    <2>5. ASSUME NEW s \in Subs, NEW st \in {"active", "inactive"}, UpdateSubscriptionStatus(s, st)
          PROVE  CallChecks(q)'
      <3>1. pc[q] \in {"locked", "entitled", "counted"} => Sub(q) # s
        BY <2>5, ProcAssumption DEF UpdateSubscriptionStatus, LockHeld
      <3>2. pc[q] \in {"locked", "entitled", "counted"} => status'[Sub(q)] = status[Sub(q)]
        BY <2>5, <3>1 DEF UpdateSubscriptionStatus, TypeOK
      <3>3. pc[q] \in {"entitled", "counted"} =>
              (<<Sub(q), req[q].binding.skill>> \in entitled
                 => <<Sub(q), req[q].binding.skill>> \in entitled')
        BY <2>5, <3>1 DEF UpdateSubscriptionStatus, EntitlementsAfter
      <3>. QED  BY <2>1, <2>3, <2>5, <3>2, <3>3 DEF UpdateSubscriptionStatus, CallVars
    <2>6. ASSUME NEW s \in Subs, NEW k \in Skills, GrantEntitlement(s, k) \/ RevokeEntitlement(s, k)
          PROVE  CallChecks(q)'
      <3>1. CASE GrantEntitlement(s, k)
        <4>1. pc[q] \in {"entitled", "counted"} => Sub(q) # s
          BY <3>1, ProcAssumption DEF GrantEntitlement, LockHeld
        <4>2. pc[q] \in {"entitled", "counted"} =>
                (<<Sub(q), req[q].binding.skill>> \in entitled
                   => <<Sub(q), req[q].binding.skill>> \in entitled')
          BY <3>1, <4>1 DEF GrantEntitlement
        <4>. QED  BY <2>1, <2>3, <3>1, <4>2 DEF GrantEntitlement, CallVars
      <3>2. CASE RevokeEntitlement(s, k)
        <4>1. pc[q] \in {"entitled", "counted"} =>
                (<<Sub(q), req[q].binding.skill>> \in entitled
                   => <<Sub(q), req[q].binding.skill>> \in entitled')
          BY <3>2 DEF RevokeEntitlement, EntitlementLocked
        <4>. QED  BY <2>1, <2>3, <3>2, <4>1 DEF RevokeEntitlement, CallVars
      <3>. QED  BY <2>6, <3>1, <3>2
    <2>7. ASSUME NEW l \in Limits, UpdatePlan(l)
          PROVE  CallChecks(q)'
      <3>1. peak.max_concurrency <= peak'.max_concurrency
        BY <2>7, UsageAssumption, RaiseBounds DEF UpdatePlan, TypeOK
      <3>. QED  BY <2>1, <2>3, <2>7, <3>1 DEF UpdatePlan, CallVars
    <2>8. CASE Tick
      BY <2>1, <2>3, <2>8 DEF Tick, CallVars
    <2>9. CASE UNCHANGED vars
      BY <2>1, <2>3, <2>9 DEF vars, CallVars
    <2>. QED  BY <2>2, <2>4, <2>5, <2>6, <2>7, <2>8, <2>9 DEF Next
  <1>. QED  BY <1>1, <1>2 DEF ChecksStillHold

\* The checks of reserveCloudSkillExecution are protected by its row locks,
\* however many replicas run it: the inductive invariant.
THEOREM AdmissionProtected == Spec => []AdmissionInv
  <1>. DEFINE Inv == TypeOK /\ LockHeld /\ ChecksStillHold
  <1>1. Init => Inv
    <2>. SUFFICES ASSUME Init PROVE Inv
      OBVIOUS
    <2>1. TypeOK
      BY UsageAssumption DEF Init, TypeOK, Entitlement, PCs, Verdicts, Request
    <2>2. LockHeld
      BY ProcAssumption DEF Init, LockHeld
    <2>3. ChecksStillHold
      BY <2>1 DEF Init, ChecksStillHold, CallChecks, TypeOK, LimitSet
    <2>. QED  BY <2>1, <2>2, <2>3
  <1>2. Inv /\ [Next]_vars => Inv'
    BY TypeStep, LockStep, ChecksStep
  <1>3. Inv => AdmissionInv
    BY DEF AdmissionInv
  <1>. QED  BY <1>1, <1>2, <1>3, PTL DEF Spec

\* Inserting under the lock after a count that fits stays within the limit.
LEMMA ConcurrencyStep ==
  ASSUME TypeOK, TypeOK', ChecksStillHold, ConcurrencyBound, [Next]_vars
  PROVE  ConcurrencyBound'
  <1>. SUFFICES ASSUME NEW s \in Subs, NEW d \in Devices
                PROVE  Cardinality(ActiveLeases(resv', s, d, clock')) <= peak'.max_concurrency
    BY DEF ConcurrencyBound
  <1>. DEFINE C == Cardinality(ActiveLeases(resv, s, d, clock))
              D == Cardinality(ActiveLeases(resv', s, d, clock'))
  <1>0. /\ C \in Nat /\ D \in Nat /\ C <= peak.max_concurrency
        /\ clock \in Nat /\ clock' \in Nat
        /\ peak.max_concurrency \in Nat /\ peak'.max_concurrency \in Nat
    BY ActiveFinite DEF ConcurrencyBound, TypeOK, LimitSet
  <1>1. ASSUME NEW p \in Procs, InsertReservation(p)
        PROVE  D <= peak'.max_concurrency
    <2>1. clock' = clock /\ peak' = peak
      BY <1>1 DEF InsertReservation
    <2>2. CASE s # Sub(p) \/ d # req[p].binding.device
      <3>1. D <= C
        BY <1>0, <1>1, <2>1, <2>2, InsertElsewhere
      <3>. HIDE DEF C, D
      <3>. QED  BY <1>0, <2>1, <3>1
    <2>3. CASE s = Sub(p) /\ d = req[p].binding.device
      <3>. DEFINE K == Cardinality(ActiveLeases(resv, s, d, req[p].now))
      <3>1. req[p].now <= clock /\ K < peak.max_concurrency
        BY <1>1, <2>3 DEF InsertReservation, ChecksStillHold, CallChecks
      <3>2. D <= K + 1
        BY <1>0, <1>1, <2>1, <3>1, InsertHere
      <3>3. K \in Nat
        BY ActiveFinite
      <3>. HIDE DEF C, D, K
      <3>. QED  BY <1>0, <2>1, <3>1, <3>2, <3>3
    <2>. QED  BY <2>2, <2>3
  <1>2. ASSUME FreedOnly(resv, resv'), clock <= clock',
               peak.max_concurrency <= peak'.max_concurrency
        PROVE  D <= peak'.max_concurrency
    <2>1. D <= C
      BY <1>0, <1>2, ActiveShrinks DEF TypeOK
    <2>. HIDE DEF C, D
    <2>. QED  BY <1>0, <1>2, <2>1
  <1>3. FreedOnly(resv, resv)
    BY DEF FreedOnly
  <1>4. ASSUME NEW p \in Procs, Lookup(p)
        PROVE  D <= peak'.max_concurrency
    <2>1. req[p].task \in Tasks
      BY DEF TypeOK, Request
    <2>2. resv' = resv \/ resv' = ReleaseLease(resv, req[p].task)
      BY <1>4 DEF Lookup, ledger
    <2>3. FreedOnly(resv, resv')
      BY <1>3, <2>1, <2>2, ReleaseLeaseFreesOnly DEF TypeOK
    <2>4. clock' = clock /\ peak' = peak
      BY <1>4 DEF Lookup, ledger
    <2>. QED  BY <1>0, <1>2, <2>3, <2>4
  <1>5. ASSUME NEW t \in Tasks, Release(t)
        PROVE  D <= peak'.max_concurrency
    <2>1. FreedOnly(resv, resv') /\ clock' = clock /\ peak' = peak
      BY <1>5, ReleaseLeaseFreesOnly DEF Release, TypeOK
    <2>. QED  BY <1>0, <1>2, <2>1
  <1>6. ASSUME NEW l \in Limits, UpdatePlan(l)
        PROVE  D <= peak'.max_concurrency
    <2>1. peak.max_concurrency <= peak'.max_concurrency
      BY <1>6, UsageAssumption, RaiseBounds DEF UpdatePlan, TypeOK
    <2>. QED  BY <1>0, <1>2, <1>3, <1>6, <2>1 DEF UpdatePlan
  <1>7. ASSUME Tick
        PROVE  D <= peak'.max_concurrency
    BY <1>0, <1>2, <1>3, <1>7 DEF Tick
  <1>8. ASSUME UNCHANGED <<resv, clock, peak>>
        PROVE  D <= peak'.max_concurrency
    BY <1>0, <1>8
  <1>. HIDE DEF D
  <1>9. D <= peak'.max_concurrency
    BY <1>1, <1>4, <1>5, <1>6, <1>7, <1>8 DEF Next, vars, Begin, Reserve, ReadPlan,
       LockSubscription, LockEntitlement, CheckLimits, InsertConflict, ReserveFail,
       UpdateSubscriptionStatus, GrantEntitlement, RevokeEntitlement, ledger, CallVars
  <1>. QED  BY <1>9 DEF D

\* No interleaving of replicas admits more concurrent leases on a device than
\* the plan allowed.
THEOREM ConcurrencyHolds == Spec => []ConcurrencyBound
  <1>1. Init => ConcurrencyBound
    <2>. SUFFICES ASSUME Init, NEW s \in Subs, NEW d \in Devices
                  PROVE  Cardinality(ActiveLeases(resv, s, d, clock)) <= peak.max_concurrency
      BY DEF ConcurrencyBound
    <2>1. ActiveLeases(resv, s, d, clock) = {}
      BY DEF Init, ActiveLeases
    <2>2. peak.max_concurrency \in Nat
      BY UsageAssumption DEF Init, LimitSet
    <2>. QED  BY <2>1, <2>2, FS_EmptySet
  <1>2. TypeOK /\ TypeOK' /\ AdmissionInv /\ ConcurrencyBound /\ [Next]_vars => ConcurrencyBound'
    BY ConcurrencyStep DEF AdmissionInv
  <1>. QED  BY <1>1, <1>2, TypeCorrect, AdmissionProtected, PTL DEF Spec

\* The admission transactions keep types, locks, checks and the concurrency limit,
\* for any number of replicas, tasks, devices and subscriptions.
THEOREM AdmissionIsSafe == Spec => []AdmissionSafe
  <1>1. TypeOK /\ AdmissionInv /\ ConcurrencyBound => AdmissionSafe
    BY DEF AdmissionSafe
  <1>. QED  BY <1>1, TypeCorrect, AdmissionProtected, ConcurrencyHolds, PTL

\* Nothing is admitted under a subscription that was cancelled, refunded or
\* expired first, or for a Skill whose entitlement was revoked first.
THEOREM AdmissionNeedsSubscription == Spec => AdmittedUnderActiveSubscription
  <1>. DEFINE A == \A t \in Tasks : resv[t] = NoRow /\ resv'[t] # NoRow =>
                     /\ status[resv'[t].binding.sub] = "active"
                     /\ <<resv'[t].binding.sub, resv'[t].binding.skill>> \in entitled
  <1>1. ASSUME TypeOK, AdmissionInv, [Next]_vars
        PROVE  A
    <2>1. ASSUME NEW p \in Procs, InsertReservation(p)
          PROVE  A
      <3>1. status[Sub(p)] = "active" /\ <<Sub(p), req[p].binding.skill>> \in entitled
        BY <1>1, <2>1 DEF AdmissionInv, ChecksStillHold, CallChecks, InsertReservation
      <3>2. ASSUME NEW t \in Tasks, resv[t] = NoRow, resv'[t] # NoRow
            PROVE  resv'[t] = NewRow(req[p].binding, req[p].now)
        BY <2>1, <3>2 DEF InsertReservation, ExpireLeases
      <3>. QED  BY <3>1, <3>2 DEF NewRow, Sub
    <2>2. CASE \A t \in Tasks : resv[t] = NoRow => resv'[t] = NoRow
      BY <2>2
    <2>3. ASSUME NEW t \in Tasks, resv' = ReleaseLease(resv, t)
          PROVE  \A u \in Tasks : resv[u] = NoRow => resv'[u] = NoRow
      BY <1>1, <2>3 DEF ReleaseLease, TypeOK
    <2>4. \A p \in Procs : req[p].task \in Tasks
      BY <1>1 DEF TypeOK, Request
    <2>. QED
      BY <1>1, <2>1, <2>2, <2>3, <2>4 DEF Next, vars, Begin, Reserve, Lookup, ReadPlan,
         LockSubscription, LockEntitlement, CheckLimits, InsertConflict, ReserveFail, Release,
         UpdateSubscriptionStatus, GrantEntitlement, RevokeEntitlement, UpdatePlan, Tick,
         ledger, CallVars
  <1>. QED  BY <1>1, TypeCorrect, AdmissionProtected, PTL DEF Spec, AdmittedUnderActiveSubscription

\* A step of any other action than the INSERT only frees leases.
LEMMA OthersFreeOnly ==
  ASSUME TypeOK, [Next]_vars, ~ \E p \in Procs : InsertReservation(p)
  PROVE  FreedOnly(resv, resv')
  <1>1. FreedOnly(resv, resv)
    BY DEF FreedOnly
  <1>2. \A t \in Tasks : FreedOnly(resv, ReleaseLease(resv, t))
    BY ReleaseLeaseFreesOnly DEF TypeOK
  <1>3. \A p \in Procs : req[p].task \in Tasks
    BY DEF TypeOK, Request
  <1>. QED
    BY <1>1, <1>2, <1>3 DEF Next, vars, Begin, Reserve, Lookup, ReadPlan,
       LockSubscription, LockEntitlement, CheckLimits, InsertConflict, ReserveFail, Release,
       UpdateSubscriptionStatus, GrantEntitlement, RevokeEntitlement, UpdatePlan, Tick,
       ledger, CallVars

\* The usage ledger only grows: no release, retry or cancellation removes,
\* rebinds or extends a row.
THEOREM LedgerOnlyGrows == Spec => LedgerAppendOnly
  <1>. DEFINE A == \A t \in Tasks : resv[t] # NoRow =>
                     \/ resv'[t] = resv[t]
                     \/ resv'[t] = [resv[t] EXCEPT !.released = TRUE]
  <1>1. ASSUME TypeOK, [Next]_vars
        PROVE  A
    <2>1. ASSUME NEW p \in Procs, InsertReservation(p)
          PROVE  A
      BY <1>1, <2>1 DEF InsertReservation, ExpireLeases
    <2>2. CASE FreedOnly(resv, resv')
      BY <2>2 DEF FreedOnly
    <2>. QED  BY <1>1, <2>1, <2>2, OthersFreeOnly
  <1>. QED  BY <1>1, TypeCorrect, PTL DEF Spec, LedgerAppendOnly

\* The transactions of pg-store.ts implement the abstract ledger: every INSERT
\* is an abstract admission, every other write frees leases or administers.
THEOREM Refinement == Spec => RefinesLedger
  <1>1. Init => LedgerInit
    BY DEF Init, LedgerInit
  <1>2. ASSUME TypeOK, TypeOK', AdmissionInv, [Next]_vars
        PROVE  [LedgerNext]_ledger
    <2>1. ASSUME NEW p \in Procs, InsertReservation(p)
          PROVE  LedgerNext
      <3>. DEFINE t == req[p].task
                  b == req[p].binding
                  at == req[p].now
                  E == ExpireLeases(resv, {Sub(p)}, at)
      <3>1. t \in Tasks /\ b \in Binding /\ at \in Nat /\ clock \in Nat
        BY <1>2 DEF TypeOK, Request
      <3>2. /\ at <= clock /\ InPeriod(at) /\ status[b.sub] = "active"
            /\ <<b.sub, b.skill>> \in entitled
            /\ Cardinality(ActiveLeases(resv, b.sub, b.device, at)) < peak.max_concurrency
        BY <1>2, <2>1 DEF AdmissionInv, ChecksStillHold, CallChecks, InsertReservation, Sub
      <3>3. E \in [Tasks -> Row \cup {NoRow}] /\ FreedOnly(resv, E)
        BY <1>2, ExpireLeasesFreesOnly DEF TypeOK
      <3>4. resv[t] = NoRow /\ E[t] = NoRow
        BY <2>1, <3>1 DEF InsertReservation, ExpireLeases
      <3>5. resv' = [E EXCEPT ![t] = NewRow(b, at)]
        BY <2>1 DEF InsertReservation
      <3>6. UNCHANGED <<clock, status, entitled, plan, peak>>
        BY <2>1 DEF InsertReservation
      <3>. HIDE DEF E
      <3>7. resv'[t] = NewRow(b, at)
        BY <3>1, <3>3, <3>5
      <3>8. [resv' EXCEPT ![t] = NoRow] = E
        BY <3>1, <3>3, <3>4, <3>5
      <3>9. FreedOnly(resv, [resv' EXCEPT ![t] = NoRow])
        BY <3>3, <3>8
      <3>10. at \in 0..clock
        BY <3>1, <3>2
      <3>. HIDE DEF t, b, at
      <3>11. Admit(t, b, at)
        BY <3>2, <3>4, <3>6, <3>7, <3>9, <3>10 DEF Admit
      <3>. QED  BY <3>1, <3>10, <3>11 DEF LedgerNext
    <2>2. ASSUME FreedOnly(resv, resv'), UNCHANGED <<clock, status, entitled, plan, peak>>
          PROVE  LedgerNext
      BY <2>2 DEF LedgerNext, Free
    <2>3. ASSUME UNCHANGED <<clock, resv>>,
                 \/ UNCHANGED <<plan, peak>>
                 \/ plan' \in Limits /\ peak' = Raise(peak, plan')
          PROVE  LedgerNext
      <3>1. status' \in [Subs -> {"active", "inactive"}] /\ entitled' \subseteq Entitlement
        BY <1>2 DEF TypeOK
      <3>. QED  BY <2>3, <3>1 DEF LedgerNext, Administer
    <2>4. CASE \E s \in Subs, st \in {"active", "inactive"} : UpdateSubscriptionStatus(s, st)
      BY <2>3, <2>4 DEF UpdateSubscriptionStatus
    <2>5. CASE \E s \in Subs, k \in Skills : GrantEntitlement(s, k) \/ RevokeEntitlement(s, k)
      BY <2>3, <2>5 DEF GrantEntitlement, RevokeEntitlement
    <2>6. CASE \E l \in Limits : UpdatePlan(l)
      BY <2>3, <2>6 DEF UpdatePlan
    <2>7. CASE Tick
      BY <2>7 DEF Tick, LedgerNext, LedgerTick
    <2>8. CASE UNCHANGED vars
      BY <2>8 DEF vars, ledger
    <2>9. CASE \/ \E p \in Procs, t \in Tasks, b \in Binding : Begin(p, t, b)
               \/ \E p \in Procs : Reserve(p) \/ ReserveFail(p)
               \/ \E t \in Tasks : Release(t)
      <3>1. CASE \E p \in Procs : InsertReservation(p)
        BY <2>1, <3>1
      <3>2. CASE ~ \E p \in Procs : InsertReservation(p)
        <4>1. FreedOnly(resv, resv')
          BY <1>2, <3>2, OthersFreeOnly
        <4>2. UNCHANGED <<clock, status, entitled, plan, peak>>
          BY <2>9, <3>2 DEF Begin, Reserve, Lookup, ReadPlan, LockSubscription, LockEntitlement,
             CheckLimits, InsertConflict, ReserveFail, Release, ledger
        <4>. QED  BY <2>2, <4>1, <4>2
      <3>. QED  BY <3>1, <3>2
    <2>. QED  BY <1>2, <2>4, <2>5, <2>6, <2>7, <2>8, <2>9 DEF Next
  <1>. QED  BY <1>1, <1>2, TypeCorrect, AdmissionProtected, PTL DEF Spec, RefinesLedger, LedgerSpec

-----------------------------------------------------------------------------
(* The in-memory store: every operation is one action, and the quota and    *)
(* the rate hold as well.                                                   *)

\* The rows of one subscription and Skill, and of one device in the minute that starts at m.
CallsOf(rows, s, k) ==
  {t \in Tasks : rows[t] # NoRow /\ rows[t].binding.sub = s /\ rows[t].binding.skill = k}
CallsIn(rows, s, d, m) ==
  {t \in Tasks : /\ rows[t] # NoRow /\ rows[t].binding.sub = s /\ rows[t].binding.device = d
                 /\ MinuteStart(rows[t].reserved_at) = m}

\* Rows are stamped inside the period and not in the future, and their numbers are
\* within the limits l.
Within(rows, now, l) ==
  /\ \A t \in Tasks : rows[t] # NoRow => SubStart <= rows[t].reserved_at /\ rows[t].reserved_at <= now
  /\ \A s \in Subs, k \in Skills : Cardinality(CallsOf(rows, s, k)) <= l.included_calls
  /\ \A s \in Subs, d \in Devices, m \in Nat : Cardinality(CallsIn(rows, s, d, m)) <= l.requests_per_minute

AtMost(l, h) ==
  /\ l.included_calls <= h.included_calls
  /\ l.requests_per_minute <= h.requests_per_minute
  /\ l.max_concurrency <= h.max_concurrency

Ledgers == [Tasks -> Row \cup {NoRow}]

\* The inductive invariant of the in-memory store: shapes, the peak of each limit, and the
\* number of rows within it.
MemoryInv ==
  /\ clock \in Nat /\ resv \in Ledgers
  /\ status \in [Subs -> {"active", "inactive"}] /\ entitled \subseteq Entitlement
  /\ plan \in Limits /\ peak \in LimitSet /\ AtMost(plan, peak)
  /\ Within(resv, clock, peak)

\* A set of tasks has a size, a part of it has no more, and one task adds at most one.
LEMMA TaskSets ==
  ASSUME NEW S, S \subseteq Tasks
  PROVE  /\ IsFiniteSet(S) /\ Cardinality(S) \in Nat
         /\ \A T : T \subseteq S => Cardinality(T) \in Nat /\ Cardinality(T) <= Cardinality(S)
         /\ \A T, t : T \subseteq S \cup {t} => Cardinality(T) \in Nat /\ Cardinality(T) <= Cardinality(S) + 1
  <1>1. IsFiniteSet(S) /\ Cardinality(S) \in Nat
    BY UsageAssumption, FS_Subset, FS_CardinalityType
  <1>2. \A T : T \subseteq S => Cardinality(T) \in Nat /\ Cardinality(T) <= Cardinality(S)
    BY <1>1, FS_Subset, FS_CardinalityType
  <1>3. ASSUME NEW T, NEW t, T \subseteq S \cup {t}
        PROVE  Cardinality(T) \in Nat /\ Cardinality(T) <= Cardinality(S) + 1
    <2>1. /\ IsFiniteSet(S \cup {t})
          /\ Cardinality(S \cup {t}) = IF t \in S THEN Cardinality(S) ELSE Cardinality(S) + 1
      BY <1>1, FS_AddElement, Zenon
    <2>2. Cardinality(T) \in Nat /\ Cardinality(T) <= Cardinality(S \cup {t})
      BY <1>3, <2>1, FS_Subset, FS_CardinalityType
    <2>. QED  BY <1>1, <2>1, <2>2
  <1>. QED  BY <1>1, <1>2, <1>3

\* Freed leases count like held ones.
LEMMA FreeingCountsAlike ==
  ASSUME NEW old \in Ledgers, NEW new \in Ledgers, FreedOnly(old, new), NEW now, NEW l, Within(old, now, l)
  PROVE  Within(new, now, l)
  <1>1. \A t \in Tasks : /\ new[t] = NoRow <=> old[t] = NoRow
                         /\ old[t] # NoRow => new[t].binding = old[t].binding /\ new[t].reserved_at = old[t].reserved_at
    <2>1. SUFFICES ASSUME NEW t \in Tasks
                   PROVE  /\ new[t] = NoRow <=> old[t] = NoRow
                          /\ old[t] # NoRow => new[t].binding = old[t].binding /\ new[t].reserved_at = old[t].reserved_at
      OBVIOUS
    <2>2. CASE new[t] = old[t]
      BY <2>2
    <2>3. CASE old[t] # NoRow /\ new[t] = [old[t] EXCEPT !.released = TRUE]
      <3>. DEFINE w == old[t]
                  x == [w EXCEPT !.released = TRUE]
      <3>1. w \in Row /\ new[t] = x /\ w = old[t]
        BY <2>3 DEF Ledgers
      <3>. HIDE DEF w
      <3>2. x \in Row
        BY <3>1 DEF Row
      <3>3. x.binding = w.binding /\ x.reserved_at = w.reserved_at
        BY <3>1 DEF Row
      <3>. QED  BY <2>3, <3>1, <3>2, <3>3, UsageAssumption
    <2>. QED  BY <2>2, <2>3 DEF FreedOnly
  <1>2. \A s, k : CallsOf(new, s, k) = CallsOf(old, s, k)
    BY <1>1 DEF CallsOf
  <1>3. \A s, d, m : CallsIn(new, s, d, m) = CallsIn(old, s, d, m)
    BY <1>1 DEF CallsIn
  <1>. QED  BY <1>1, <1>2, <1>3 DEF Within

\* Time passes and limits are raised.
LEMMA WithinMore ==
  ASSUME NEW rows \in Ledgers, NEW n \in Nat, NEW m \in Nat, n <= m, NEW l \in LimitSet, NEW h \in LimitSet,
         AtMost(l, h), Within(rows, n, l)
  PROVE  Within(rows, m, h)
  <1>1. l.included_calls \in Nat /\ l.requests_per_minute \in Nat /\ h.included_calls \in Nat /\ h.requests_per_minute \in Nat
    BY DEF LimitSet
  <1>2. \A s, k : Cardinality(CallsOf(rows, s, k)) \in Nat
    BY TaskSets DEF CallsOf
  <1>3. \A s, d, i : Cardinality(CallsIn(rows, s, d, i)) \in Nat
    BY TaskSets DEF CallsIn
  <1>4. \A t \in Tasks : rows[t] # NoRow => rows[t].reserved_at \in Nat
    BY DEF Ledgers, Row
  <1>5. \A t \in Tasks : rows[t] # NoRow => SubStart <= rows[t].reserved_at /\ rows[t].reserved_at <= m
    BY <1>4 DEF Within
  <1>6. \A s \in Subs, k \in Skills : Cardinality(CallsOf(rows, s, k)) <= h.included_calls
    BY <1>1, <1>2 DEF Within, AtMost
  <1>7. \A s \in Subs, d \in Devices, i \in Nat : Cardinality(CallsIn(rows, s, d, i)) <= h.requests_per_minute
    BY <1>1, <1>3 DEF Within, AtMost
  <1>. QED  BY <1>5, <1>6, <1>7 DEF Within

\* The start of a minute is not after it.
LEMMA MinuteBegins ==
  ASSUME NEW n \in Nat
  PROVE  MinuteStart(n) \in Nat /\ MinuteStart(n) <= n
  BY UsageAssumption DEF MinuteStart

\* An admission within the limits of the plan leaves the rows within the greatest ones.
LEMMA AdmittedWithin ==
  ASSUME NEW rows \in Ledgers, NEW now \in Nat, NEW l \in LimitSet, NEW h \in LimitSet, AtMost(l, h),
         Within(rows, now, h), NEW t \in Tasks, rows[t] = NoRow, NEW b \in Binding, InPeriod(now),
         LimitVerdict(rows, l, b, now) = "OK"
  PROVE  Within([rows EXCEPT ![t] = NewRow(b, now)], now, h)
  <1>. DEFINE new == [rows EXCEPT ![t] = NewRow(b, now)]
              r == NewRow(b, now)
  <1>1. /\ r \in Row /\ r # NoRow /\ r.binding = b /\ r.reserved_at = now
        /\ new[t] = r /\ \A u \in Tasks \ {t} : new[u] = rows[u]
    BY NewRowType, UsageAssumption DEF NewRow, Ledgers
  <1>2. SubStart <= now /\ SubStart \in Nat
    BY UsageAssumption DEF InPeriod
  <1>3. /\ l.included_calls \in Nat /\ l.requests_per_minute \in Nat /\ h.included_calls \in Nat
        /\ h.requests_per_minute \in Nat /\ l.included_calls <= h.included_calls
        /\ l.requests_per_minute <= h.requests_per_minute
    BY DEF LimitSet, AtMost
  <1>4. Cardinality(CycleCalls(rows, b, now)) \in Nat /\ Cardinality(MinuteCalls(rows, b, now)) \in Nat
    BY TaskSets DEF CycleCalls, MinuteCalls
  <1>5. Cardinality(CycleCalls(rows, b, now)) < l.included_calls /\ Cardinality(MinuteCalls(rows, b, now)) < l.requests_per_minute
    <2>1. ~(Cardinality(CycleCalls(rows, b, now)) >= l.included_calls)
      BY DEF LimitVerdict
    <2>2. ~(Cardinality(MinuteCalls(rows, b, now)) >= l.requests_per_minute)
      BY DEF LimitVerdict
    <2>. QED  BY <1>3, <1>4, <2>1, <2>2
  <1>6. \A u \in Tasks : rows[u] # NoRow =>
          rows[u].reserved_at \in Nat /\ SubStart <= rows[u].reserved_at /\ rows[u].reserved_at <= now
    BY DEF Within, Ledgers, Row
  <1>. HIDE DEF new, r
  <1>7. \A u \in Tasks : new[u] # NoRow => SubStart <= new[u].reserved_at /\ new[u].reserved_at <= now
    BY <1>1, <1>2, <1>6
  <1>8. \A s \in Subs, k \in Skills : Cardinality(CallsOf(new, s, k)) <= h.included_calls
    <2>1. SUFFICES ASSUME NEW s \in Subs, NEW k \in Skills PROVE Cardinality(CallsOf(new, s, k)) <= h.included_calls
      OBVIOUS
    <2>2. CallsOf(rows, s, k) \subseteq Tasks
      BY DEF CallsOf
    <2>3. CASE s = b.sub /\ k = b.skill
      <3>1. CallsOf(new, s, k) \subseteq CycleCalls(rows, b, now) \cup {t}
        BY <1>1, <1>6, <2>3 DEF CallsOf, CycleCalls
      <3>2. CycleCalls(rows, b, now) \subseteq Tasks
        BY DEF CycleCalls
      <3>3. /\ Cardinality(CallsOf(new, s, k)) \in Nat
            /\ Cardinality(CallsOf(new, s, k)) <= Cardinality(CycleCalls(rows, b, now)) + 1
        BY <3>1, <3>2, TaskSets
      <3>. QED  BY <1>3, <1>4, <1>5, <3>3
    <2>4. CASE ~(s = b.sub /\ k = b.skill)
      <3>1. CallsOf(new, s, k) = CallsOf(rows, s, k)
        BY <1>1, <2>4 DEF CallsOf
      <3>. QED  BY <3>1 DEF Within
    <2>. QED  BY <2>3, <2>4
  <1>9. \A s \in Subs, d \in Devices, m \in Nat : Cardinality(CallsIn(new, s, d, m)) <= h.requests_per_minute
    <2>1. SUFFICES ASSUME NEW s \in Subs, NEW d \in Devices, NEW m \in Nat
                   PROVE  Cardinality(CallsIn(new, s, d, m)) <= h.requests_per_minute
      OBVIOUS
    <2>2. CASE s = b.sub /\ d = b.device /\ m = MinuteStart(now)
      <3>1. \A u \in Tasks : rows[u] # NoRow /\ MinuteStart(rows[u].reserved_at) = m => rows[u].reserved_at >= MinuteStart(now)
        BY <1>6, <2>2, MinuteBegins
      <3>2. CallsIn(new, s, d, m) \subseteq MinuteCalls(rows, b, now) \cup {t}
        BY <1>1, <1>6, <2>2, <3>1 DEF CallsIn, MinuteCalls
      <3>3. MinuteCalls(rows, b, now) \subseteq Tasks
        BY DEF MinuteCalls
      <3>4. /\ Cardinality(CallsIn(new, s, d, m)) \in Nat
            /\ Cardinality(CallsIn(new, s, d, m)) <= Cardinality(MinuteCalls(rows, b, now)) + 1
        BY <3>2, <3>3, TaskSets
      <3>. QED  BY <1>3, <1>4, <1>5, <3>4
    <2>3. CASE ~(s = b.sub /\ d = b.device /\ m = MinuteStart(now))
      <3>1. CallsIn(new, s, d, m) = CallsIn(rows, s, d, m)
        BY <1>1, <2>3 DEF CallsIn
      <3>. QED  BY <3>1 DEF Within
    <2>. QED  BY <2>2, <2>3
  <1>10. Within(new, now, h)
    BY <1>7, <1>8, <1>9 DEF Within
  <1>. QED  BY <1>10 DEF new, r

\* Freeing leases, in the middle of an operation too, is a step of the ledger.
LEMMA FreeingKeeps ==
  ASSUME MemoryInv, resv' \in Ledgers, FreedOnly(resv, resv'), UNCHANGED <<clock, status, entitled, plan, peak>>
  PROVE  MemoryInv' /\ LedgerNext
  <1>1. Within(resv', clock, peak)
    BY FreeingCountsAlike DEF MemoryInv
  <1>2. MemoryInv'
    BY <1>1 DEF MemoryInv
  <1>3. Free
    BY DEF Free
  <1>. QED  BY <1>2, <1>3 DEF LedgerNext

\* Subscriptions, entitlements and limits are administered, the rows stay.
LEMMA AdministeringKeeps ==
  ASSUME MemoryInv, UNCHANGED <<clock, resv>>, status' \in [Subs -> {"active", "inactive"}],
         entitled' \subseteq Entitlement,
         \/ UNCHANGED <<plan, peak>>
         \/ plan' \in Limits /\ peak' = Raise(peak, plan')
  PROVE  MemoryInv' /\ LedgerNext
  <1>1. Administer
    BY DEF Administer
  <1>2. ASSUME UNCHANGED <<plan, peak>>
        PROVE  MemoryInv'
    <2>1. Within(resv, clock, peak) /\ plan \in Limits /\ peak \in LimitSet /\ AtMost(plan, peak)
      BY DEF MemoryInv
    <2>2. resv' = resv /\ clock' = clock /\ plan' = plan /\ peak' = peak
      BY <1>2
    <2>3. Within(resv', clock', peak') /\ plan' \in Limits /\ peak' \in LimitSet /\ AtMost(plan', peak')
      BY ONLY <2>1, <2>2
    <2>. QED  BY <2>2, <2>3 DEF MemoryInv
  <1>3. ASSUME plan' \in Limits, peak' = Raise(peak, plan')
        PROVE  MemoryInv'
    <2>1. plan' \in LimitSet /\ peak \in LimitSet
      BY <1>3, UsageAssumption DEF MemoryInv
    <2>2. peak' \in LimitSet /\ AtMost(plan', peak') /\ AtMost(peak, peak')
      BY <1>3, <2>1 DEF Raise, LimitSet, AtMost
    <2>3. Within(resv, clock, peak')
      BY <2>1, <2>2, WithinMore DEF MemoryInv
    <2>4. resv' = resv /\ clock' = clock
      OBVIOUS
    <2>5. Within(resv', clock', peak')
      BY ONLY <2>3, <2>4
    <2>. QED  BY <1>3, <2>2, <2>4, <2>5 DEF MemoryInv
  <1>4. MemoryInv'
    BY <1>2, <1>3
  <1>. QED  BY <1>1, <1>4 DEF LedgerNext

\* A reservation frees expired leases and inserts its row only within the limits of the plan.
LEMMA MemoryReserveKeeps ==
  ASSUME MemoryInv, NEW t \in Tasks, NEW b \in Binding, MemoryReserve(t, b)
  PROVE  MemoryInv' /\ LedgerNext
  <1>. DEFINE rows == ExpireLeases(resv, Subs, clock)
              answer == IF rows[t] = NoRow THEN ReserveVerdict(rows, b)
                         ELSE IF rows[t].binding = b THEN "REPLAY"
                         ELSE "IDEMPOTENCY_CONFLICT"
  <1>1. /\ resv' = IF answer = "OK" THEN [rows EXCEPT ![t] = NewRow(b, clock)] ELSE rows
        /\ UNCHANGED <<clock, status, entitled, plan, peak>>
    BY DEF MemoryReserve
  <1>2. /\ rows \in Ledgers /\ FreedOnly(resv, rows) /\ clock \in Nat
        /\ plan \in LimitSet /\ peak \in LimitSet /\ AtMost(plan, peak)
    BY ExpireLeasesFreesOnly, UsageAssumption DEF MemoryInv, Ledgers
  <1>3. CASE answer # "OK"
    BY <1>1, <1>2, <1>3, FreeingKeeps
  <1>4. CASE answer = "OK"
    <2>1. rows[t] = NoRow /\ ReserveVerdict(rows, b) = "OK"
      BY <1>4
    <2>2. /\ status[b.sub] = "active" /\ InPeriod(clock) /\ <<b.sub, b.skill>> \in entitled
          /\ LimitVerdict(rows, plan, b, clock) = "OK"
      <3>1. \A n : LimitVerdict(rows, plan, b, n) = LimitVerdict(rows, plan, b, n)
        <4>1. \A n : /\ CycleCalls(rows, b, n) = CycleCalls(rows, b, n)
                     /\ MinuteCalls(rows, b, n) = MinuteCalls(rows, b, n)
                     /\ ActiveLeases(rows, b.sub, b.device, n) = ActiveLeases(rows, b.sub, b.device, n)
          BY DEF CycleCalls, MinuteCalls, MinuteStart, ActiveLeases
        <4>. QED  BY <4>1 DEF LimitVerdict
      <3>. QED  BY <2>1, <3>1 DEF ReserveVerdict
    <2>. DEFINE r == NewRow(b, clock)
    <2>3. r \in Row /\ r # NoRow /\ resv' = [rows EXCEPT ![t] = r]
      BY <1>1, <1>2, <1>4, NewRowType, UsageAssumption
    <2>4. Within(rows, clock, peak)
      BY <1>2, FreeingCountsAlike DEF MemoryInv
    <2>5. Within(resv', clock, peak)
      BY <1>2, <2>1, <2>2, <2>3, <2>4, AdmittedWithin
    <2>6. Cardinality(ActiveLeases(resv, b.sub, b.device, clock)) < peak.max_concurrency
      <3>1. ActiveLeases(resv, b.sub, b.device, clock) \subseteq ActiveLeases(rows, b.sub, b.device, clock)
        <4>1. \A u \in Tasks : resv[u] # NoRow /\ resv[u].lease_expires_at > clock => rows[u] = resv[u]
          <5>1. \A u \in Tasks : resv[u] # NoRow => resv[u].lease_expires_at \in Nat
            BY DEF MemoryInv, Ledgers, Row
          <5>. QED  BY <1>2, <5>1 DEF ExpireLeases
        <4>. QED  BY <4>1 DEF ActiveLeases
      <3>2. /\ Cardinality(ActiveLeases(rows, b.sub, b.device, clock)) \in Nat
            /\ Cardinality(ActiveLeases(resv, b.sub, b.device, clock)) \in Nat
            /\ Cardinality(ActiveLeases(resv, b.sub, b.device, clock)) <= Cardinality(ActiveLeases(rows, b.sub, b.device, clock))
        BY <3>1, ActiveFinite, FS_Subset
      <3>3. Cardinality(ActiveLeases(rows, b.sub, b.device, clock)) < plan.max_concurrency
        BY <1>2, <2>2, VerdictOKFits
      <3>4. plan.max_concurrency \in Nat /\ peak.max_concurrency \in Nat /\ plan.max_concurrency <= peak.max_concurrency
        BY <1>2 DEF LimitSet, AtMost
      <3>. QED  BY <3>2, <3>3, <3>4
    <2>. HIDE DEF rows, r
    <2>7. resv' \in Ledgers
      BY <1>2, <2>3 DEF Ledgers
    <2>8. resv'[t] = r /\ [resv' EXCEPT ![t] = NoRow] = rows
      BY <1>2, <2>1, <2>3 DEF Ledgers
    <2>9. MemoryInv'
      BY <1>1, <2>5, <2>7 DEF MemoryInv
    <2>10. resv[t] = NoRow
      <3>. DEFINE w == resv[t]
      <3>1. w = NoRow \/ w \in Row
        BY DEF MemoryInv, Ledgers
      <3>2. rows[t] = w \/ (w # NoRow /\ rows[t] = [w EXCEPT !.released = TRUE])
        BY <1>2 DEF FreedOnly
      <3>. HIDE DEF w
      <3>3. w \in Row => [w EXCEPT !.released = TRUE] \in Row
        BY DEF Row
      <3>4. w = NoRow
        BY <2>1, <3>1, <3>2, <3>3, UsageAssumption
      <3>. QED  BY <3>4 DEF w
    <2>11. Admit(t, b, clock)
      <3>1. clock \in 0..clock /\ InPeriod(clock) /\ resv'[t] = NewRow(b, clock)
        BY <1>2, <2>2, <2>8 DEF r
      <3>2. Cardinality(ActiveLeases(resv, b.sub, b.device, clock)) < peak.max_concurrency
        BY <2>6
      <3>3. FreedOnly(resv, [resv' EXCEPT ![t] = NoRow])
        BY <1>2, <2>8
      <3>. QED  BY <1>1, <2>2, <2>10, <3>1, <3>2, <3>3 DEF Admit
    <2>12. clock \in 0..clock
      BY <1>2
    <2>. QED  BY <2>9, <2>11, <2>12 DEF LedgerNext
  <1>. QED  BY <1>3, <1>4

\* A release frees one lease and the expired ones.
LEMMA MemoryReleaseKeeps ==
  ASSUME MemoryInv, NEW t \in Tasks, MemoryRelease(t)
  PROVE  MemoryInv' /\ LedgerNext
  <1>. DEFINE rows == ExpireLeases(resv, Subs, clock)
  <1>1. resv' = ReleaseLease(rows, t) /\ UNCHANGED <<clock, status, entitled, plan, peak>>
    BY DEF MemoryRelease
  <1>2. rows \in Ledgers /\ FreedOnly(resv, rows)
    BY ExpireLeasesFreesOnly DEF MemoryInv, Ledgers
  <1>. HIDE DEF rows
  <1>3. resv' \in Ledgers /\ FreedOnly(rows, resv')
    BY <1>1, <1>2, ReleaseLeaseFreesOnly DEF Ledgers
  <1>4. FreedOnly(resv, resv')
    <2>1. SUFFICES ASSUME NEW u \in Tasks
                   PROVE  resv'[u] = resv[u] \/ (resv[u] # NoRow /\ resv'[u] = [resv[u] EXCEPT !.released = TRUE])
      BY DEF FreedOnly
    <2>2. resv[u] # NoRow => resv[u] \in Row
      BY DEF MemoryInv, Ledgers
    <2>3. CASE rows[u] = resv[u]
      BY <1>3, <2>3 DEF FreedOnly
    <2>4. CASE resv[u] # NoRow /\ rows[u] = [resv[u] EXCEPT !.released = TRUE]
      <3>. DEFINE w == resv[u]
                  x == [w EXCEPT !.released = TRUE]
      <3>1. w \in Row /\ rows[u] = x /\ (resv'[u] = x \/ resv'[u] = [x EXCEPT !.released = TRUE])
        BY <1>3, <2>2, <2>4 DEF FreedOnly
      <3>. HIDE DEF w
      <3>2. [x EXCEPT !.released = TRUE] = x
        BY <3>1 DEF Row
      <3>3. resv'[u] = x
        BY <3>1, <3>2
      <3>. QED  BY <2>4, <3>3 DEF w
    <2>. QED  BY <1>2, <2>3, <2>4 DEF FreedOnly
  <1>. QED  BY <1>1, <1>3, <1>4, FreeingKeeps

\* Every operation of the store keeps the limits and is a step of the ledger.
LEMMA MemoryStepKeeps ==
  ASSUME MemoryInv, [MemoryNext]_ledger
  PROVE  MemoryInv' /\ [LedgerNext]_ledger
  <1>1. CASE UNCHANGED ledger
    BY <1>1 DEF ledger, ledger, MemoryInv
  <1>2. ASSUME NEW t \in Tasks, NEW b \in Binding, MemoryReserve(t, b)
        PROVE  MemoryInv' /\ LedgerNext
    BY <1>2, MemoryReserveKeeps
  <1>3. ASSUME NEW t \in Tasks, MemoryRelease(t)
        PROVE  MemoryInv' /\ LedgerNext
    BY <1>3, MemoryReleaseKeeps
  <1>4. ASSUME NEW s \in Subs, NEW st \in {"active", "inactive"}, MemoryUpdateSubscriptionStatus(s, st)
        PROVE  MemoryInv' /\ LedgerNext
    <2>1. /\ UNCHANGED <<clock, resv, plan, peak>> /\ status' \in [Subs -> {"active", "inactive"}]
          /\ entitled' \subseteq Entitlement
      BY <1>4 DEF MemoryUpdateSubscriptionStatus, EntitlementsAfter, MemoryInv
    <2>. QED  BY <2>1, AdministeringKeeps
  <1>5. ASSUME NEW s \in Subs, NEW k \in Skills, MemoryGrantEntitlement(s, k) \/ MemoryRevokeEntitlement(s, k)
        PROVE  MemoryInv' /\ LedgerNext
    <2>1. /\ UNCHANGED <<clock, resv, plan, peak>> /\ status' \in [Subs -> {"active", "inactive"}]
          /\ entitled' \subseteq Entitlement
      BY <1>5 DEF MemoryGrantEntitlement, MemoryRevokeEntitlement, MemoryInv, Entitlement
    <2>. QED  BY <2>1, AdministeringKeeps
  <1>6. ASSUME NEW l \in Limits, MemoryUpdatePlan(l)
        PROVE  MemoryInv' /\ LedgerNext
    <2>1. /\ UNCHANGED <<clock, resv, status, entitled>> /\ plan' \in Limits /\ peak' = Raise(peak, plan')
          /\ status' \in [Subs -> {"active", "inactive"}] /\ entitled' \subseteq Entitlement
      BY <1>6 DEF MemoryUpdatePlan, MemoryInv
    <2>. QED  BY <2>1, AdministeringKeeps
  <1>7. CASE MemoryTick
    <2>1. clock' = clock + 1 /\ UNCHANGED <<resv, status, entitled, plan, peak>>
      BY <1>7 DEF MemoryTick
    <2>2. clock \in Nat /\ clock' \in Nat /\ clock <= clock'
      BY <2>1 DEF MemoryInv
    <2>3. AtMost(peak, peak)
      BY DEF MemoryInv, AtMost, LimitSet
    <2>4. Within(resv, clock', peak)
      BY <2>2, <2>3, WithinMore DEF MemoryInv
    <2>5. MemoryInv'
      BY <2>1, <2>2, <2>4 DEF MemoryInv
    <2>6. LedgerTick
      BY <2>1 DEF LedgerTick
    <2>. QED  BY <2>5, <2>6 DEF LedgerNext
  <1>. QED  BY <1>1, <1>2, <1>3, <1>4, <1>5, <1>6, <1>7 DEF MemoryNext

\* An empty store is within its limits.
LEMMA MemoryStarts ==
  ASSUME MemoryInit
  PROVE  MemoryInv /\ LedgerInit
  <1>1. /\ clock = 0 /\ resv = [t \in Tasks |-> NoRow] /\ status = [s \in Subs |-> "active"]
        /\ entitled = Entitlement /\ plan \in Limits /\ peak = plan
    BY DEF MemoryInit
  <1>2. plan \in LimitSet /\ AtMost(plan, peak)
    BY <1>1, UsageAssumption DEF AtMost, LimitSet
  <1>3. Within(resv, clock, peak)
    <2>1. \A s, k : CallsOf(resv, s, k) = {}
      BY <1>1 DEF CallsOf
    <2>2. \A s, d, m : CallsIn(resv, s, d, m) = {}
      BY <1>1 DEF CallsIn
    <2>3. Cardinality({}) = 0 /\ 0 <= peak.included_calls /\ 0 <= peak.requests_per_minute
      BY <1>1, <1>2, FS_EmptySet DEF LimitSet
    <2>. QED  BY <1>1, <2>1, <2>2, <2>3 DEF Within
  <1>4. MemoryInv
    BY <1>1, <1>2, <1>3 DEF MemoryInv, Ledgers
  <1>5. LedgerInit
    BY <1>1 DEF LedgerInit
  <1>. QED  BY <1>4, <1>5

\* The limits the runs check are the ones the invariant counts.
LEMMA MemoryLimits ==
  ASSUME MemoryInv
  PROVE  PlanLimitsHold
  <1>1. MemoryTypeOK
    BY DEF MemoryInv, MemoryTypeOK, Ledgers
  <1>2. CycleQuotaBound
    BY DEF MemoryInv, Within, CallsOf, CycleQuotaBound
  <1>3. RateBound
    <2>1. SUFFICES ASSUME NEW s \in Subs, NEW d \in Devices, NEW m \in 0..MaxClock
                   PROVE  Cardinality(CallsIn(resv, s, d, MinuteStart(m))) <= peak.requests_per_minute
      BY DEF RateBound, CallsIn, MinuteStart
    <2>2. MinuteStart(m) \in Nat
      BY MinuteBegins, UsageAssumption
    <2>. QED  BY <2>2 DEF MemoryInv, Within
  <1>. QED  BY <1>1, <1>2, <1>3 DEF PlanLimitsHold

\* The in-memory store is within the quota and the rate at every moment, for any
\* tasks, devices, Skills and changes of the plan, and each of its operations is one
\* step of the abstract ledger.
THEOREM MemoryLimitsHoldAndRefine == MemorySpec => LimitsHoldAndRefine
  <1>1. MemoryInit => MemoryInv /\ LedgerInit
    BY MemoryStarts
  <1>2. MemoryInv /\ [MemoryNext]_ledger => MemoryInv' /\ [LedgerNext]_ledger
    BY MemoryStepKeeps
  <1>3. MemoryInv => PlanLimitsHold
    BY MemoryLimits
  <1>. QED  BY <1>1, <1>2, <1>3, PTL DEF MemorySpec, LimitsHoldAndRefine, RefinesLedger, LedgerSpec
=============================================================================
