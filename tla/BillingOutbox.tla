----------------------------- MODULE BillingOutbox -----------------------------
(***************************************************************************)
(* The durable billing outbox and the workers that publish it: claim a     *)
(* batch under one fencing token, publish each event, acknowledge it, or   *)
(* give it back for a retry and finally to the dead letters.  Time appears *)
(* as the two things it decides: a lease runs out, a retry falls due.      *)
(***************************************************************************)
EXTENDS Integers, FiniteSets

CONSTANTS
  Events,
  Workers,
  BatchSize,     \* batch_size
  MaxAttempts,   \* max_attempts
  MaxExpiries,   \* bound: leases that run out before their worker is done
  MaxCrashes,    \* bound: worker processes that die
  Tokens         \* lock tokens: random, so one in use is never handed out again

OutboxAssumption ==
  /\ BatchSize \in Nat \ {0} /\ MaxAttempts \in Nat \ {0}
  /\ MaxExpiries \in Nat /\ MaxCrashes \in Nat
  /\ IsFiniteSet(Events) /\ IsFiniteSet(Workers) /\ IsFiniteSet(Tokens)
  /\ Tokens \subseteq Nat \ {0}
  /\ Cardinality(Tokens) > Cardinality(Events) + Cardinality(Workers)

VARIABLES
  rec,        \* billing_outbox rows
  worker,     \* runOnce of each worker
  delivered,  \* events the downstream has received at least once
  budget

vars == <<rec, worker, delivered, budget>>

\* attempts is only compared with max_attempts, so it saturates above it.
AttemptCap == MaxAttempts + 1
FreshRecord == [state |-> "waiting", attempts |-> 0, due |-> TRUE, lock |-> 0, expired |-> FALSE]
IdleWorker == [pc |-> "idle", batch |-> {}, cur |-> "none", tok |-> 0, tries |-> [e \in Events |-> 0]]

Init ==
  /\ rec = [e \in Events |-> FreshRecord]
  /\ worker = [w \in Workers |-> IdleWorker]
  /\ delivered = {}
  /\ budget = [expiry |-> MaxExpiries, crash |-> MaxCrashes]

-----------------------------------------------------------------------------
(* The store                                                                *)

\* Variant: rows under a running lease are taken as well.
ClaimableWhileLeased(e) == rec[e].state = "waiting" /\ rec[e].due

\* published_at and dead_lettered_at unset, due, and no lease that still runs.
Claimable(e) ==
  rec[e].state = "waiting" /\ rec[e].due /\ (rec[e].lock = 0 \/ rec[e].expired)

\* The row is still this worker's: same token, lease running, not finished.
HoldsLease(w, e) ==
  rec[e].state = "waiting" /\ rec[e].lock = worker[w].tok /\ ~rec[e].expired

\* lock_token and locked_until are cleared.
Unlocked(r) == [r EXCEPT !.lock = 0, !.expired = FALSE]

-----------------------------------------------------------------------------
(* BillingOutboxWorker.runOnce                                              *)

\* A token that no row and no worker holds; which one does not matter.
FreshToken ==
  CHOOSE t \in Tokens : (\A e \in Events : rec[e].lock # t) /\ (\A w \in Workers : worker[w].tok # t)

\* UPDATE ... FROM claimable (FOR UPDATE SKIP LOCKED LIMIT): one statement, one
\* token; rows come back in no particular order.
Claim(w) ==
  LET free == {e \in Events : Claimable(e)} IN
  /\ worker[w].pc = "idle"
  /\ \E B \in SUBSET free :
       /\ B # {}
       /\ Cardinality(B) = IF Cardinality(free) < BatchSize THEN Cardinality(free) ELSE BatchSize
       /\ rec' = [e \in Events |->
                    IF e \in B
                      THEN [rec[e] EXCEPT !.attempts = IF @ < AttemptCap THEN @ + 1 ELSE @,
                                          !.lock = FreshToken, !.expired = FALSE]
                      ELSE rec[e]]
       /\ worker' = [worker EXCEPT ![w] = [pc |-> "next", batch |-> B, cur |-> "none", tok |-> FreshToken,
                                           tries |-> [e \in Events |-> rec'[e].attempts]]]
  /\ UNCHANGED <<delivered, budget>>

TakeNext(w) ==
  /\ worker[w].pc = "next"
  /\ IF worker[w].batch = {}
       THEN worker' = [worker EXCEPT ![w] = IdleWorker]
       ELSE \E e \in worker[w].batch :
              worker' = [worker EXCEPT ![w].pc = "publish", ![w].cur = e, ![w].batch = @ \ {e}]
  /\ UNCHANGED <<rec, delivered, budget>>

\* The downstream takes the event or not, and the worker hears of it or not.
Publish(w) ==
  /\ worker[w].pc = "publish"
  /\ \/ /\ delivered' = delivered \cup {worker[w].cur}
        /\ \E p \in {"complete", "fail"} : worker' = [worker EXCEPT ![w].pc = p]
     \/ /\ worker' = [worker EXCEPT ![w].pc = "fail"]
        /\ UNCHANGED delivered
  /\ UNCHANGED <<rec, budget>>

\* completeBillingOutbox: acknowledged, lease lost, or a throw (the catch block).
Complete(w) ==
  LET e == worker[w].cur IN
  /\ worker[w].pc = "complete"
  /\ \/ /\ rec' = IF HoldsLease(w, e)
                    THEN [rec EXCEPT ![e] = Unlocked([rec[e] EXCEPT !.state = "published"])] ELSE rec
        /\ worker' = [worker EXCEPT ![w].pc = "next"]
     \/ /\ worker' = [worker EXCEPT ![w].pc = "fail"]
        /\ UNCHANGED rec
  /\ UNCHANGED <<delivered, budget>>

\* Variant: a failure is always retried.
DeadLettersNever(w, e) == FALSE

\* Variant: the first failure is the last.
DeadLettersAtOnce(w, e) == TRUE

\* The claimed copy's attempts decide between a retry and the dead letters.
DeadLetters(w, e) == worker[w].tries[e] >= MaxAttempts

\* failBillingOutbox; if it throws too, runOnce rejects and drops the batch.
Fail(w) ==
  LET e == worker[w].cur IN
  /\ worker[w].pc = "fail"
  /\ \/ /\ rec' = IF HoldsLease(w, e)
                    THEN [rec EXCEPT ![e] = Unlocked([rec[e] EXCEPT
                            !.due = FALSE, !.state = IF DeadLetters(w, e) THEN "dead" ELSE @])]
                    ELSE rec
        /\ worker' = [worker EXCEPT ![w].pc = "next"]
        /\ UNCHANGED budget
     \/ /\ budget.crash > 0
        /\ budget' = [budget EXCEPT !.crash = @ - 1]
        /\ worker' = [worker EXCEPT ![w] = IdleWorker]
        /\ UNCHANGED rec
  /\ UNCHANGED <<delivered>>

Step(w) == Claim(w) \/ TakeNext(w) \/ Publish(w) \/ Complete(w) \/ Fail(w)

-----------------------------------------------------------------------------
(* Time and crashes                                                         *)

\* The lease of a worker that is gone or slow runs out.
Orphaned(e) == \A w \in Workers : worker[w].tok # rec[e].lock \/ e \notin worker[w].batch \cup {worker[w].cur}

Expire(e) ==
  /\ rec[e].lock # 0 /\ ~rec[e].expired
  /\ \/ Orphaned(e) /\ UNCHANGED budget
     \/ ~Orphaned(e) /\ budget.expiry > 0 /\ budget' = [budget EXCEPT !.expiry = @ - 1]
  /\ rec' = [rec EXCEPT ![e].expired = TRUE]
  /\ UNCHANGED <<worker, delivered>>

\* retry_at passes.
FallDue(e) ==
  /\ ~rec[e].due
  /\ rec' = [rec EXCEPT ![e].due = TRUE]
  /\ UNCHANGED <<worker, delivered, budget>>

Crash(w) ==
  /\ worker[w].pc # "idle" /\ budget.crash > 0
  /\ worker' = [worker EXCEPT ![w] = IdleWorker]
  /\ budget' = [budget EXCEPT !.crash = @ - 1]
  /\ UNCHANGED <<rec, delivered>>

Next ==
  \/ \E w \in Workers : Step(w) \/ Crash(w)
  \/ \E e \in Events : Expire(e) \/ FallDue(e)

Spec == Init /\ [][Next]_vars

\* The worker is run again and again and its calls settle; time passes.
FairSpec ==
  /\ Spec
  /\ \A w \in Workers : WF_vars(Step(w))
  /\ \A e \in Events : WF_vars(FallDue(e)) /\ WF_vars(Orphaned(e) /\ Expire(e))

-----------------------------------------------------------------------------
\* Every variable has its type; a finished row carries no lease.
TypeOK ==
  /\ rec \in [Events -> [state: {"waiting", "published", "dead"}, attempts: 0..AttemptCap,
                         due: BOOLEAN, lock: Tokens \cup {0}, expired: BOOLEAN]]
  /\ \A e \in Events : rec[e].state # "waiting" => rec[e].lock = 0
  /\ delivered \subseteq Events

\* No event is marked published that the downstream has not received, and none
\* goes to the dead letters before max_attempts claims.
NothingIsLost ==
  \A e \in Events : /\ rec[e].state = "published" => e \in delivered
                    /\ rec[e].state = "dead" => rec[e].attempts >= MaxAttempts

\* The outbox table is well formed and its final states are earned.
OutboxInv == TypeOK /\ NothingIsLost

\* "concurrent workers cannot claim the same row": while a worker's lease on an
\* event runs, no other worker's late acknowledgement, failure or claim touches
\* the row.
LeaseKeepsOthersOut ==
  [][\A w \in Workers, e \in Events :
       /\ worker[w].pc # "idle" /\ e \in worker[w].batch \cup {worker[w].cur} /\ HoldsLease(w, e)
       /\ rec'[e] # rec[e]
       => worker'[w] # worker[w] \/ rec'[e] = [rec[e] EXCEPT !.expired = TRUE]]_vars

\* Published and dead-lettered are final: nothing is claimed or sent again.
SettledIsFinal ==
  [][\A e \in Events : rec[e].state # "waiting" => rec'[e].state = rec[e].state /\ rec'[e].attempts = rec[e].attempts]_vars

\* A row changes only by the hand of the worker that leased it, and not at all
\* once it is settled.
RowsStayOwned == LeaseKeepsOthersOut /\ SettledIsFinal

\* Every event is published or dead-lettered, although workers die, answers are
\* lost and leases run out under slow workers (finitely often).
EverySettles == <>(\A e \in Events : rec[e].state # "waiting")
=============================================================================
