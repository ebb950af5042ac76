-------------------------- MODULE CloudWorkersProofs --------------------------
(***************************************************************************)
(* The workers behind the Cloud API.                                       *)
(*                                                                         *)
(* The outbox for any number of events and workers.  OutboxInv speaks of   *)
(* the rows alone; the invariant under it also says what a worker may      *)
(* still believe: its token is nobody else's, the attempts it copied are   *)
(* no more than the row's, and what it is about to acknowledge was         *)
(* delivered.  A leased row is due, so only its lease can touch it.        *)
(*                                                                         *)
(* POST /execute for any number of requests, keys and inputs.  RunInv      *)
(* compares runs with each other and with the answers given; what makes it *)
(* inductive is the cache between them: a run whose entry has not run out  *)
(* is the entry of its key, so a lookup that finds nothing finds that      *)
(* every earlier run of the key is at least an entry's life old.           *)
(***************************************************************************)
EXTENDS BillingOutbox, Executor, FiniteSetTheorems, TLAPS

(***************************************************************************)
(* The outbox                                                              *)
(***************************************************************************)
Rows == [state: {"waiting", "published", "dead"}, attempts: 0..AttemptCap,
         due: BOOLEAN, lock: Tokens \cup {0}, expired: BOOLEAN]

WorkerStates == [pc: {"idle", "next", "publish", "complete", "fail"}, batch: SUBSET Events,
                 cur: Events \cup {"none"}, tok: Tokens \cup {0}, tries: [Events -> 0..AttemptCap]]

\* What a worker that holds an event may rely on.
WorkerKnows(w) ==
  /\ worker[w].pc # "idle" => worker[w].tok # 0
  /\ worker[w].pc \in {"publish", "complete", "fail"} => worker[w].cur \in Events
  /\ worker[w].pc = "complete" => worker[w].cur \in delivered
  /\ \A e \in Events : worker[w].tries[e] <= rec[e].attempts

TokensDiffer ==
  \A v, w \in Workers : v # w /\ worker[w].tok # 0 => worker[v].tok # worker[w].tok

LeasedIsDue == \A e \in Events : rec[e].lock # 0 => rec[e].due

\* The inductive invariant: a worker's picture of the rows it leased is still true of them.
OutboxIInv ==
  /\ OutboxInv
  /\ worker \in [Workers -> WorkerStates]
  /\ \A w \in Workers : WorkerKnows(w)
  /\ TokensDiffer
  /\ LeasedIsDue

-----------------------------------------------------------------------------
(* Tokens                                                                   *)

\* A function has no more values than arguments.
LEMMA ImageIsSmall ==
  ASSUME NEW S, IsFiniteSet(S), NEW f
  PROVE  IsFiniteSet({f[x] : x \in S}) /\ Cardinality({f[x] : x \in S}) <= Cardinality(S)
<1> DEFINE T == {f[x] : x \in S}
           g == [x \in S |-> f[x]]
<1>1. g \in Surjection(S, T)
  BY DEF Surjection
<1> QED
  BY <1>1, FS_Surjection

\* There are more tokens than rows and workers can hold, so the fresh token exists.
LEMMA FreshTokenIsFresh ==
  ASSUME OutboxAssumption
  PROVE  /\ FreshToken \in Tokens
         /\ \A e \in Events : rec[e].lock # FreshToken
         /\ \A w \in Workers : worker[w].tok # FreshToken
<1> DEFINE locks == [e \in Events |-> rec[e].lock]
           toks == [w \in Workers |-> worker[w].tok]
           L == {locks[e] : e \in Events}
           K == {toks[w] : w \in Workers}
           n == Cardinality(Events)
           m == Cardinality(Workers)
<1>1. IsFiniteSet(L) /\ Cardinality(L) <= n
  <2> HIDE DEF locks
  <2> QED BY ImageIsSmall DEF OutboxAssumption
<1>2. IsFiniteSet(K) /\ Cardinality(K) <= m
  <2> HIDE DEF toks
  <2> QED BY ImageIsSmall DEF OutboxAssumption
<1>3. n \in Nat /\ m \in Nat /\ Cardinality(Tokens) \in Nat /\ Cardinality(L) \in Nat /\ Cardinality(K) \in Nat
  BY <1>1, <1>2, FS_CardinalityType DEF OutboxAssumption
<1> HIDE DEF L, K
<1>4. IsFiniteSet(L \cup K) /\ Cardinality(L \cup K) <= Cardinality(L) + Cardinality(K)
  <2>1. IsFiniteSet(L \cap K) /\ Cardinality(L \cap K) \in Nat
    BY <1>1, FS_Intersection, FS_CardinalityType
  <2>2. IsFiniteSet(L \cup K) /\ Cardinality(L \cup K) = Cardinality(L) + Cardinality(K) - Cardinality(L \cap K)
    BY <1>1, <1>2, FS_Union
  <2> QED
    BY <1>3, <2>1, <2>2
<1>5. Cardinality(L \cup K) \in Nat
  BY <1>4, FS_CardinalityType
<1>6. ~(Tokens \subseteq L \cup K)
  <2>1. ASSUME Tokens \subseteq L \cup K PROVE FALSE
    <3>1. Cardinality(Tokens) <= Cardinality(L \cup K)
      BY <2>1, <1>4, FS_Subset
    <3>2. Cardinality(Tokens) > n + m
      BY DEF OutboxAssumption
    <3> QED
      BY <3>1, <3>2, <1>1, <1>2, <1>3, <1>4, <1>5
  <2> QED
    BY <2>1
<1>7. \E t \in Tokens : (\A e \in Events : rec[e].lock # t) /\ (\A w \in Workers : worker[w].tok # t)
  BY <1>6 DEF L, K
<1> QED
  BY <1>7 DEF FreshToken

-----------------------------------------------------------------------------
(* The invariant                                                            *)

\* An outbox of fresh rows and idle workers satisfies it.
LEMMA OutboxStarts == ASSUME OutboxAssumption, Init PROVE OutboxIInv
<1>1. FreshRecord \in Rows /\ IdleWorker \in WorkerStates
  BY DEF FreshRecord, IdleWorker, Rows, WorkerStates, OutboxAssumption, AttemptCap
<1>2. rec \in [Events -> Rows] /\ worker \in [Workers -> WorkerStates]
  BY <1>1 DEF Init
<1>3. OutboxInv
  BY <1>2 DEF Init, OutboxInv, TypeOK, NothingIsLost, FreshRecord, Rows
<1>4. \A w \in Workers : WorkerKnows(w)
  BY DEF Init, WorkerKnows, FreshRecord, IdleWorker
<1>5. TokensDiffer /\ LeasedIsDue
  BY DEF Init, TokensDiffer, LeasedIsDue, FreshRecord, IdleWorker
<1> QED
  BY <1>2, <1>3, <1>4, <1>5 DEF OutboxIInv

\* Rows that only grow older keep what the workers know.
LEMMA ClaimKeeps ==
  ASSUME OutboxAssumption, OutboxIInv, NEW w \in Workers, Claim(w)
  PROVE  OutboxIInv'
<1> DEFINE t == FreshToken
<1>0. t \in Tokens /\ t # 0 /\ (\A e \in Events : rec[e].lock # t) /\ (\A v \in Workers : worker[v].tok # t)
  BY FreshTokenIsFresh DEF OutboxAssumption
<1>1. PICK B \in SUBSET {e \in Events : Claimable(e)} :
        /\ rec' = [e \in Events |->
                     IF e \in B
                       THEN [rec[e] EXCEPT !.attempts = IF @ < AttemptCap THEN @ + 1 ELSE @,
                                           !.lock = t, !.expired = FALSE]
                       ELSE rec[e]]
        /\ worker' = [worker EXCEPT ![w] = [pc |-> "next", batch |-> B, cur |-> "none", tok |-> t,
                                            tries |-> [e \in Events |-> rec'[e].attempts]]]
  BY DEF Claim
<1>2. delivered' = delivered
  BY DEF Claim
<1> HIDE DEF t
<1>3. rec \in [Events -> Rows] /\ worker \in [Workers -> WorkerStates] /\ AttemptCap \in Nat
  BY DEF OutboxIInv, OutboxInv, TypeOK, Rows, OutboxAssumption, AttemptCap
<1>4. \A e \in B : rec[e].state = "waiting" /\ rec[e].due
  BY DEF Claimable
<1>5. \A e \in Events :
        /\ rec'[e] \in Rows
        /\ rec'[e].state = rec[e].state /\ rec'[e].due = rec[e].due /\ rec[e].attempts <= rec'[e].attempts
        /\ rec'[e].lock = IF e \in B THEN t ELSE rec[e].lock
  <2> TAKE e \in Events
  <2>1. rec[e] \in Rows
    BY <1>3
  <2>2. CASE e \in B
    <3> DEFINE a == IF rec[e].attempts < AttemptCap THEN rec[e].attempts + 1 ELSE rec[e].attempts
    <3>1. rec'[e] = [rec[e] EXCEPT !.attempts = a, !.lock = t, !.expired = FALSE]
      BY <1>1, <2>2
    <3>2. a \in 0..AttemptCap /\ rec[e].attempts <= a
      BY <1>3, <2>1 DEF Rows
    <3> HIDE DEF a
    <3> QED
      BY <1>0, <2>1, <2>2, <3>1, <3>2 DEF Rows
  <2>3. CASE e \notin B
    <3>1. rec'[e] = rec[e]
      BY <1>1, <2>3
    <3> QED
      BY <1>3, <2>1, <2>3, <3>1 DEF Rows
  <2> QED
    BY <2>2, <2>3
<1>6. rec' \in [Events -> Rows]
  BY <1>1, <1>5
<1>7. OutboxInv'
  <2>1. TypeOK'
    BY <1>2, <1>4, <1>5, <1>6 DEF OutboxIInv, OutboxInv, TypeOK, Rows
  <2>2. NothingIsLost'
    BY <1>2, <1>3, <1>5, <1>6 DEF OutboxIInv, OutboxInv, NothingIsLost, Rows, OutboxAssumption
  <2> QED
    BY <2>1, <2>2 DEF OutboxInv
<1>8. worker' \in [Workers -> WorkerStates]
  <2>1. [pc |-> "next", batch |-> B, cur |-> "none", tok |-> t, tries |-> [e \in Events |-> rec'[e].attempts]]
        \in WorkerStates
    <3>1. [e \in Events |-> rec'[e].attempts] \in [Events -> 0..AttemptCap]
      BY <1>5 DEF Rows
    <3> QED
      BY <1>0, <3>1 DEF WorkerStates
  <2> QED
    BY <1>1, <1>3, <2>1
<1>9. ASSUME NEW v \in Workers PROVE WorkerKnows(v)'
  <2>1. CASE v = w
    <3>1. worker'[v].pc = "next" /\ worker'[v].tok = t /\ worker'[v].tries = [e \in Events |-> rec'[e].attempts]
      BY <1>1, <1>3, <2>1
    <3>2. \A e \in Events : worker'[v].tries[e] = rec'[e].attempts /\ rec'[e].attempts \in Nat
      BY <1>3, <1>5, <3>1 DEF Rows
    <3> QED
      BY <1>0, <3>1, <3>2 DEF WorkerKnows
  <2>2. CASE v # w
    <3>1. worker'[v] = worker[v] /\ WorkerKnows(v)
      BY <1>1, <1>3, <2>2 DEF OutboxIInv
    <3>2. \A e \in Events : worker[v].tries[e] <= rec'[e].attempts
      BY <1>3, <1>5, <3>1 DEF WorkerKnows, Rows, WorkerStates
    <3> QED
      BY <1>2, <3>1, <3>2 DEF WorkerKnows
  <2> QED
    BY <2>1, <2>2
<1>10. TokensDiffer'
  BY <1>0, <1>1, <1>3 DEF OutboxIInv, TokensDiffer
<1>11. LeasedIsDue'
  BY <1>4, <1>5 DEF OutboxIInv, LeasedIsDue
<1> QED
  BY <1>7, <1>8, <1>9, <1>10, <1>11 DEF OutboxIInv

\* A step that leaves the rows alone: what it does to its own worker, the worker must
\* be allowed to know.
LEMMA WorkerMoves ==
  ASSUME OutboxAssumption, OutboxIInv, NEW w \in Workers, NEW x \in WorkerStates,
         rec' = rec, worker' = [worker EXCEPT ![w] = x],
         delivered \subseteq delivered', delivered' \subseteq Events,
         x.tok \in {0, worker[w].tok}, x.pc # "idle" => x.tok # 0,
         x.pc \in {"publish", "complete", "fail"} => x.cur \in Events,
         x.pc = "complete" => x.cur \in delivered',
         \A e \in Events : x.tries[e] <= rec[e].attempts
  PROVE  OutboxIInv'
<1>1. worker \in [Workers -> WorkerStates] /\ worker' \in [Workers -> WorkerStates]
  BY DEF OutboxIInv
<1>2. worker'[w] = x /\ \A v \in Workers : v # w => worker'[v] = worker[v]
  BY <1>1
<1>3. OutboxInv' /\ LeasedIsDue'
  BY DEF OutboxIInv, OutboxInv, TypeOK, NothingIsLost, LeasedIsDue
<1>4. \A v \in Workers : WorkerKnows(v)'
  BY <1>2 DEF OutboxIInv, WorkerKnows
<1>5. TokensDiffer'
  BY <1>2 DEF OutboxIInv, TokensDiffer
<1> QED
  BY <1>1, <1>3, <1>4, <1>5 DEF OutboxIInv

\* A step that changes one row without its attempts, and perhaps the pc of a worker
\* that goes on to the next event.
LEMMA RowMoves ==
  ASSUME OutboxAssumption, OutboxIInv, NEW e \in Events, NEW r \in Rows,
         rec' = [rec EXCEPT ![e] = r], delivered' = delivered,
         \/ worker' = worker
         \/ \E w \in Workers : worker' = [worker EXCEPT ![w].pc = "next"] /\ worker[w].pc # "idle",
         r.attempts = rec[e].attempts, r.state # "waiting" => r.lock = 0, r.lock # 0 => r.due,
         r.state = "published" => e \in delivered, r.state = "dead" => r.attempts >= MaxAttempts
  PROVE  OutboxIInv'
<1>1. worker \in [Workers -> WorkerStates] /\ rec \in [Events -> Rows]
  BY DEF OutboxIInv, OutboxInv, TypeOK, Rows
<1>2. rec'[e] = r /\ (\A f \in Events : f # e => rec'[f] = rec[f]) /\ rec' \in [Events -> Rows]
  BY <1>1
<1>3. \A f \in Events : rec'[f].attempts = rec[f].attempts
  BY <1>2
<1>4. OutboxInv'
  <2>1. TypeOK'
    BY <1>2 DEF OutboxIInv, OutboxInv, TypeOK, Rows
  <2>2. NothingIsLost'
    BY <1>2 DEF OutboxIInv, OutboxInv, NothingIsLost
  <2> QED
    BY <2>1, <2>2 DEF OutboxInv
<1>5. LeasedIsDue'
  BY <1>2 DEF OutboxIInv, LeasedIsDue
<1>6. CASE worker' = worker
  BY <1>1, <1>3, <1>4, <1>5, <1>6 DEF OutboxIInv, WorkerKnows, TokensDiffer
<1>7. ASSUME NEW w \in Workers, worker' = [worker EXCEPT ![w].pc = "next"], worker[w].pc # "idle"
      PROVE  OutboxIInv'
  <2>1. worker' \in [Workers -> WorkerStates]
    <3>1. [worker[w] EXCEPT !.pc = "next"] \in WorkerStates
      BY <1>1 DEF WorkerStates
    <3>2. worker' = [worker EXCEPT ![w] = [worker[w] EXCEPT !.pc = "next"]]
      BY <1>7
    <3> QED
      BY <1>1, <3>1, <3>2
  <2>2. \A v \in Workers : /\ worker'[v].tok = worker[v].tok /\ worker'[v].tries = worker[v].tries
                           /\ worker'[v].cur = worker[v].cur
                           /\ worker'[v].pc = IF v = w THEN "next" ELSE worker[v].pc
    BY <1>1, <1>7 DEF WorkerStates
  <2>3. \A v \in Workers : WorkerKnows(v)'
    BY <1>3, <1>7, <2>2 DEF OutboxIInv, WorkerKnows
  <2>4. TokensDiffer'
    BY <2>2 DEF OutboxIInv, TokensDiffer
  <2> QED
    BY <1>4, <1>5, <2>1, <2>3, <2>4 DEF OutboxIInv
<1> QED
  BY <1>6, <1>7

\* Every step of a worker, of time and of a crash keeps the invariant.
LEMMA OutboxKeeps == ASSUME OutboxAssumption, OutboxIInv, [Next]_vars PROVE OutboxIInv'
<1>0. worker \in [Workers -> WorkerStates] /\ rec \in [Events -> Rows] /\ delivered \subseteq Events
  BY DEF OutboxIInv, OutboxInv, TypeOK, Rows
<1>idle. IdleWorker \in WorkerStates
  BY DEF IdleWorker, WorkerStates, OutboxAssumption, AttemptCap
<1>tries. \A e \in Events : IdleWorker.tries[e] <= rec[e].attempts
  BY <1>0 DEF IdleWorker, Rows
<1>idles. ASSUME NEW w \in Workers, rec' = rec, delivered' = delivered, worker' = [worker EXCEPT ![w] = IdleWorker]
          PROVE  OutboxIInv'
  BY <1>0, <1>idle, <1>tries, <1>idles, WorkerMoves DEF IdleWorker
<1>1. ASSUME NEW w \in Workers, Claim(w) PROVE OutboxIInv'
  BY <1>1, ClaimKeeps
<1>2. ASSUME NEW w \in Workers, TakeNext(w) PROVE OutboxIInv'
  <2>1. rec' = rec /\ delivered' = delivered
    BY <1>2 DEF TakeNext
  <2>2. CASE worker' = [worker EXCEPT ![w] = IdleWorker]
    BY <1>idles, <2>1, <2>2
  <2>3. ASSUME NEW e \in worker[w].batch,
               worker' = [worker EXCEPT ![w].pc = "publish", ![w].cur = e, ![w].batch = @ \ {e}]
        PROVE  OutboxIInv'
    <3> DEFINE x == [worker[w] EXCEPT !.pc = "publish", !.cur = e, !.batch = @ \ {e}]
    <3>1. e \in Events /\ worker[w] \in WorkerStates
      BY <1>0, <2>3 DEF WorkerStates
    <3>2. worker' = [worker EXCEPT ![w] = x]
      BY <2>3
    <3>3. /\ x \in WorkerStates /\ x.pc = "publish" /\ x.cur = e /\ x.tok = worker[w].tok
          /\ x.tries = worker[w].tries
      BY <3>1 DEF WorkerStates
    <3>4. worker[w].tok # 0 /\ \A f \in Events : worker[w].tries[f] <= rec[f].attempts
      BY <1>2 DEF TakeNext, OutboxIInv, WorkerKnows
    <3> HIDE DEF x
    <3> QED
      BY <1>0, <2>1, <3>1, <3>2, <3>3, <3>4, WorkerMoves
  <2> QED
    BY <1>2, <2>2, <2>3 DEF TakeNext
<1>pc. ASSUME NEW w \in Workers, NEW p \in {"complete", "fail"}, worker' = [worker EXCEPT ![w].pc = p],
              worker[w].pc \in {"publish", "complete"}, rec' = rec,
              delivered \subseteq delivered', delivered' \subseteq Events,
              p = "complete" => worker[w].cur \in delivered'
       PROVE  OutboxIInv'
  <2> DEFINE x == [worker[w] EXCEPT !.pc = p]
  <2>1. worker' = [worker EXCEPT ![w] = x]
    BY <1>pc
  <2>2. /\ x \in WorkerStates /\ x.pc = p /\ x.cur = worker[w].cur /\ x.tok = worker[w].tok
        /\ x.tries = worker[w].tries
    BY <1>0 DEF WorkerStates
  <2>3. /\ worker[w].tok # 0 /\ worker[w].cur \in Events
        /\ \A f \in Events : worker[w].tries[f] <= rec[f].attempts
    BY <1>pc DEF OutboxIInv, WorkerKnows
  <2> HIDE DEF x
  <2> QED
    BY <1>pc, <2>1, <2>2, <2>3, WorkerMoves
<1>3. ASSUME NEW w \in Workers, Publish(w) PROVE OutboxIInv'
  <2>1. worker[w].cur \in Events
    BY <1>3 DEF Publish, OutboxIInv, WorkerKnows
  <2> QED
    BY <1>0, <1>3, <1>pc, <2>1 DEF Publish
<1>unlock. \A r \in Rows : /\ Unlocked(r) \in Rows /\ Unlocked(r).lock = 0 /\ Unlocked(r).attempts = r.attempts
                          /\ Unlocked(r).state = r.state
  BY DEF Unlocked, Rows
<1>next. ASSUME NEW w \in Workers, worker' = [worker EXCEPT ![w].pc = "next"],
                worker[w].pc \in {"complete", "fail"}, rec' = rec, delivered' = delivered
         PROVE  OutboxIInv'
  <2>1. worker[w].cur \in Events
    BY <1>next DEF OutboxIInv, WorkerKnows
  <2>2. rec' = [rec EXCEPT ![worker[w].cur] = rec[worker[w].cur]]
    BY <1>0, <1>next
  <2> DEFINE r == rec[worker[w].cur]
  <2>3. /\ r \in Rows /\ (r.state # "waiting" => r.lock = 0) /\ (r.lock # 0 => r.due)
        /\ (r.state = "published" => worker[w].cur \in delivered) /\ (r.state = "dead" => r.attempts >= MaxAttempts)
    BY <1>0, <2>1 DEF OutboxIInv, OutboxInv, TypeOK, NothingIsLost, LeasedIsDue
  <2> HIDE DEF r
  <2> QED
    BY <1>next, <2>1, <2>2, <2>3, RowMoves DEF r
<1>4. ASSUME NEW w \in Workers, Complete(w) PROVE OutboxIInv'
  <2> DEFINE e == worker[w].cur
             r == [rec[e] EXCEPT !.state = "published"]
  <2>1. e \in Events /\ e \in delivered /\ worker[w].pc = "complete" /\ delivered' = delivered
    BY <1>4 DEF Complete, OutboxIInv, WorkerKnows
  <2>2. CASE worker' = [worker EXCEPT ![w].pc = "fail"] /\ UNCHANGED rec
    BY <1>0, <1>pc, <2>1, <2>2
  <2>3. CASE worker' = [worker EXCEPT ![w].pc = "next"] /\ rec' = rec
    BY <1>next, <2>1, <2>3
  <2>4. CASE worker' = [worker EXCEPT ![w].pc = "next"] /\ rec' = [rec EXCEPT ![e] = Unlocked(r)]
    <3>1. r \in Rows /\ r.state = "published" /\ r.attempts = rec[e].attempts
      BY <1>0, <2>1 DEF Rows
    <3> HIDE DEF e, r
    <3> QED
      BY <1>unlock, <2>1, <2>4, <3>1, RowMoves
  <2> QED
    BY <1>4, <2>2, <2>3, <2>4 DEF Complete
<1>5. ASSUME NEW w \in Workers, Fail(w) PROVE OutboxIInv'
  <2> DEFINE e == worker[w].cur
             r == [rec[e] EXCEPT !.due = FALSE, !.state = IF DeadLetters(w, e) THEN "dead" ELSE @]
  <2>1. e \in Events /\ worker[w].pc = "fail" /\ delivered' = delivered
    BY <1>5 DEF Fail, OutboxIInv, WorkerKnows
  <2>2. CASE worker' = [worker EXCEPT ![w] = IdleWorker] /\ UNCHANGED rec
    BY <1>idles, <2>1, <2>2
  <2>3. CASE worker' = [worker EXCEPT ![w].pc = "next"] /\ rec' = rec
    BY <1>next, <2>1, <2>3
  <2>4. CASE /\ worker' = [worker EXCEPT ![w].pc = "next"] /\ rec' = [rec EXCEPT ![e] = Unlocked(r)]
             /\ HoldsLease(w, e)
    <3>1. rec[e].state = "waiting" /\ rec[e] \in Rows
      BY <1>0, <2>1, <2>4 DEF HoldsLease
    <3>2. r \in Rows /\ r.attempts = rec[e].attempts /\ r.state = IF DeadLetters(w, e) THEN "dead" ELSE "waiting"
      BY <3>1 DEF Rows
    <3>3. DeadLetters(w, e) => rec[e].attempts >= MaxAttempts
      <4>1. worker[w].tries[e] \in Nat /\ rec[e].attempts \in Nat /\ MaxAttempts \in Nat
        BY <1>0, <2>1, <3>1 DEF WorkerStates, Rows, OutboxAssumption
      <4>2. worker[w].tries[e] <= rec[e].attempts
        BY <2>1 DEF OutboxIInv, WorkerKnows
      <4> QED
        BY <4>1, <4>2 DEF DeadLetters
    <3> HIDE DEF e, r
    <3> QED
      BY <1>unlock, <2>1, <2>4, <3>2, <3>3, RowMoves
  <2> QED
    BY <1>5, <2>2, <2>3, <2>4 DEF Fail
<1>6. ASSUME NEW e \in Events, Expire(e) PROVE OutboxIInv'
  <2> DEFINE r == [rec[e] EXCEPT !.expired = TRUE]
  <2>1. rec' = [rec EXCEPT ![e] = r] /\ worker' = worker /\ delivered' = delivered
    BY <1>6 DEF Expire
  <2>2. /\ r \in Rows /\ r.attempts = rec[e].attempts /\ r.state = rec[e].state /\ r.lock = rec[e].lock
        /\ r.due = rec[e].due
    BY <1>0 DEF Rows
  <2> HIDE DEF r
  <2> QED
    BY <2>1, <2>2, RowMoves DEF OutboxIInv, OutboxInv, TypeOK, NothingIsLost, LeasedIsDue
<1>7. ASSUME NEW e \in Events, FallDue(e) PROVE OutboxIInv'
  <2> DEFINE r == [rec[e] EXCEPT !.due = TRUE]
  <2>1. rec' = [rec EXCEPT ![e] = r] /\ worker' = worker /\ delivered' = delivered
    BY <1>7 DEF FallDue
  <2>2. /\ r \in Rows /\ r.attempts = rec[e].attempts /\ r.state = rec[e].state /\ r.lock = rec[e].lock
        /\ r.due
    BY <1>0 DEF Rows
  <2> HIDE DEF r
  <2> QED
    BY <2>1, <2>2, RowMoves DEF OutboxIInv, OutboxInv, TypeOK, NothingIsLost, LeasedIsDue
<1>8. ASSUME NEW w \in Workers, Crash(w) PROVE OutboxIInv'
  BY <1>8, <1>idles DEF Crash
<1>9. CASE UNCHANGED vars
  BY <1>9 DEF vars, OutboxIInv, OutboxInv, TypeOK, NothingIsLost, WorkerKnows, TokensDiffer, LeasedIsDue
<1> QED
  BY <1>1, <1>2, <1>3, <1>4, <1>5, <1>6, <1>7, <1>8, <1>9 DEF Next, Step

-----------------------------------------------------------------------------
(* Results                                                                  *)

\* The inductive invariant holds throughout.
THEOREM IInvHolds == ASSUME OutboxAssumption PROVE Spec => []OutboxIInv
<1>1. Init => OutboxIInv
  BY OutboxStarts
<1>2. OutboxIInv /\ [Next]_vars => OutboxIInv'
  BY OutboxKeeps
<1> QED
  BY <1>1, <1>2, PTL DEF Spec

\* BillingOutboxWorker, for any events, workers, batch size and attempts: rows are well
\* formed, nothing is marked published that was not delivered, and nothing is
\* dead-lettered before max_attempts claims.
THEOREM OutboxIsSafe == ASSUME OutboxAssumption PROVE Spec => []OutboxInv
<1>1. OutboxIInv => OutboxInv
  BY DEF OutboxIInv
<1> QED
  BY <1>1, IInvHolds, PTL

\* The step of LeaseKeepsOthersOut.
LeaseStep ==
  \A w \in Workers, e \in Events :
    /\ worker[w].pc # "idle" /\ e \in worker[w].batch \cup {worker[w].cur} /\ HoldsLease(w, e)
    /\ rec'[e] # rec[e]
    => worker'[w] # worker[w] \/ rec'[e] = [rec[e] EXCEPT !.expired = TRUE]

\* The step of SettledIsFinal.
SettledStep ==
  \A e \in Events : rec[e].state # "waiting" => rec'[e].state = rec[e].state /\ rec'[e].attempts = rec[e].attempts

\* A running lease is not claimable, its token is no other worker's, and it is due
\* already: whoever changes the row is the worker that holds it.
LEMMA LeaseStepHolds == ASSUME OutboxIInv, Next PROVE LeaseStep
<1> SUFFICES ASSUME NEW w \in Workers, NEW e \in Events,
                    worker[w].pc # "idle", HoldsLease(w, e), rec'[e] # rec[e]
             PROVE  worker'[w] # worker[w] \/ rec'[e] = [rec[e] EXCEPT !.expired = TRUE]
  BY DEF LeaseStep
<1>0. worker \in [Workers -> WorkerStates] /\ rec \in [Events -> Rows]
  BY DEF OutboxIInv, OutboxInv, TypeOK, Rows
<1>1. /\ worker[w].tok # 0 /\ rec[e].lock = worker[w].tok /\ rec[e].lock # 0 /\ ~rec[e].expired
      /\ rec[e].state = "waiting" /\ rec[e].due
  BY DEF OutboxIInv, WorkerKnows, HoldsLease, LeasedIsDue
<1>2. ASSUME NEW v \in Workers, Claim(v) PROVE FALSE
  BY <1>1, <1>2 DEF Claim, Claimable
<1>3. ASSUME NEW v \in Workers, HoldsLease(v, worker[v].cur), worker[v].pc \in {"complete", "fail"},
             NEW r, rec' = [rec EXCEPT ![worker[v].cur] = r], worker' = [worker EXCEPT ![v].pc = "next"]
      PROVE  worker'[w] # worker[w]
  <2>1. worker[v].cur = e
    BY <1>0, <1>3
  <2>2. v = w
    BY <1>1, <1>3, <2>1 DEF HoldsLease, OutboxIInv, TokensDiffer
  <2>3. worker'[w].pc = "next" /\ worker[w].pc # "next"
    BY <1>0, <1>3, <2>2 DEF WorkerStates
  <2> QED
    BY <2>3
<1>4. ASSUME NEW v \in Workers, Complete(v) PROVE worker'[w] # worker[w]
  BY <1>3, <1>4 DEF Complete
<1>5. ASSUME NEW v \in Workers, Fail(v) PROVE worker'[w] # worker[w]
  BY <1>3, <1>5 DEF Fail
<1>6. ASSUME NEW v \in Workers, TakeNext(v) \/ Publish(v) \/ Crash(v) PROVE FALSE
  BY <1>6 DEF TakeNext, Publish, Crash
<1>7. ASSUME NEW f \in Events, Expire(f) PROVE rec'[e] = [rec[e] EXCEPT !.expired = TRUE]
  BY <1>0, <1>7 DEF Expire
<1>8. ASSUME NEW f \in Events, FallDue(f) PROVE FALSE
  BY <1>0, <1>1, <1>8 DEF FallDue
<1> QED
  BY <1>2, <1>4, <1>5, <1>6, <1>7, <1>8 DEF Next, Step

\* Only a waiting row is claimed, completed or failed; the others change at most in
\* what does not matter any more.
LEMMA SettledStepHolds == ASSUME OutboxIInv, Next PROVE SettledStep
<1> SUFFICES ASSUME NEW e \in Events, rec[e].state # "waiting"
             PROVE  rec'[e].state = rec[e].state /\ rec'[e].attempts = rec[e].attempts
  BY DEF SettledStep
<1>0. rec \in [Events -> Rows]
  BY DEF OutboxIInv, OutboxInv, TypeOK, Rows
<1>1. ASSUME NEW v \in Workers, Claim(v) PROVE rec'[e] = rec[e]
  BY <1>1 DEF Claim, Claimable
<1>2. ASSUME NEW v \in Workers, HoldsLease(v, worker[v].cur), NEW r, rec' = [rec EXCEPT ![worker[v].cur] = r]
      PROVE  rec'[e] = rec[e]
  BY <1>0, <1>2 DEF HoldsLease
<1>3. ASSUME NEW v \in Workers, Complete(v) PROVE rec'[e] = rec[e]
  BY <1>2, <1>3 DEF Complete
<1>4. ASSUME NEW v \in Workers, Fail(v) PROVE rec'[e] = rec[e]
  BY <1>2, <1>4 DEF Fail
<1>5. ASSUME NEW v \in Workers, TakeNext(v) \/ Publish(v) \/ Crash(v) PROVE rec'[e] = rec[e]
  BY <1>5 DEF TakeNext, Publish, Crash
<1>6. ASSUME NEW f \in Events, Expire(f) \/ FallDue(f)
      PROVE  rec'[e].state = rec[e].state /\ rec'[e].attempts = rec[e].attempts
  BY <1>0, <1>6 DEF Expire, FallDue, Rows
<1> QED
  BY <1>1, <1>3, <1>4, <1>5, <1>6 DEF Next, Step

\* claimBillingOutbox, for any events and workers: while a worker's lease runs nobody
\* else's late call touches its row, and a settled row is left alone for good.
THEOREM RowsAreOwned == ASSUME OutboxAssumption PROVE Spec => RowsStayOwned
<1>1. OutboxIInv /\ [Next]_vars => [LeaseStep]_vars /\ [SettledStep]_vars
  BY LeaseStepHolds, SettledStepHolds
<1>2. Spec => [][LeaseStep]_vars /\ [][SettledStep]_vars
  BY <1>1, IInvHolds, PTL DEF Spec
<1> QED
  BY <1>2 DEF RowsStayOwned, LeaseKeepsOthersOut, SettledIsFinal, LeaseStep, SettledStep

(***************************************************************************)
(* The Executor                                                            *)
(***************************************************************************)
Outs == {"none", "expired", "mismatch", "request_timeout", "conflict", "busy", "timeout"} \cup Results

ReqStates == [pc : {"idle", "body", "await", "done"}, claims : Calls \cup {NoCall}, expires : Nat,
              body : Calls \cup {NoCall}, at : Nat, of : Reqs \cup {None}, out : Outs]

RunStates == [state : {"none", "running", "timeout"} \cup Results, call : Calls \cup {NoCall},
              start : Nat, ended : Nat, expires : Nat]

Typed ==
  /\ clock \in 0..MaxClock
  /\ req \in [Reqs -> ReqStates]
  /\ run \in [Reqs -> RunStates]
  /\ cache \in [Keys -> Entries \cup {None}]

\* A body that is still read was admitted with a live credential, and its timer
\* has not been missed.
BodyInTime(p) ==
  req[p].pc = "body" =>
    /\ req[p].claims \in Calls /\ req[p].body \in Calls
    /\ req[p].at < req[p].expires
    /\ clock <= req[p].at + BodyTimeout

\* A request has a run, its own or another's, exactly from the end of its body on.
RunOfRequest(p) ==
  /\ req[p].pc \in {"idle", "body"} => req[p].of = None
  /\ req[p].pc = "await" => req[p].of # None
  /\ run[p].state # "none" => req[p].of = p
  /\ req[p].of # None =>
       /\ run[req[p].of].state # "none"
       /\ run[req[p].of].call = req[p].claims
       /\ req[p].pc = "done" => /\ req[p].out = run[req[p].of].state
                                /\ run[req[p].of].state # "running"

\* What a run that was started carries.
RunInTime(p) ==
  run[p].state # "none" =>
    /\ run[p].call \in Calls
    /\ run[p].start <= clock
    /\ run[p].start < run[p].expires + BodyTimeout
    /\ IF run[p].state = "running" THEN clock <= run[p].start + ExecTimeout
                                   ELSE run[p].ended <= run[p].start + ExecTimeout

\* An entry is the run of its key that was started last ...
EntryOfRun(k) ==
  cache[k] # None =>
    /\ run[cache[k].of].state # "none"
    /\ run[cache[k].of].call = cache[k].call
    /\ cache[k].call.key = k
    /\ cache[k].expires = run[cache[k].of].start + CacheTtl

\* ... and a run stays the entry of its key for an entry's life.
RunHasEntry(p) ==
  run[p].state # "none" /\ run[p].start + CacheTtl > clock =>
    /\ cache[run[p].call.key] # None
    /\ cache[run[p].call.key].of = p

\* The inductive invariant: what runs has its cache entry, and an entry its run.
ExecIInv ==
  /\ Typed
  /\ \A p \in Reqs : BodyInTime(p) /\ RunOfRequest(p) /\ RunInTime(p) /\ RunHasEntry(p)
  /\ \A k \in Keys : EntryOfRun(k)
  /\ OneRunPerKeyLife

-----------------------------------------------------------------------------
(* One lemma for each kind of step                                          *)

\* Before the first request nothing has run.
LEMMA ExecStarts == ASSUME ExecutorAssumption, ExecInit PROVE ExecIInv
<1>1. Fresh \in ReqStates
  BY DEF ReqStates, Fresh, Outs, NoCall
<1>2. NoRun \in RunStates
  BY DEF RunStates, NoRun, NoCall
<1>3. Typed
  BY <1>1, <1>2 DEF ExecInit, Typed, ExecutorAssumption
<1>4. \A p \in Reqs : BodyInTime(p) /\ RunOfRequest(p) /\ RunInTime(p) /\ RunHasEntry(p)
  BY DEF ExecInit, BodyInTime, RunOfRequest, RunInTime, RunHasEntry, Fresh, NoRun
<1>5. (\A k \in Keys : EntryOfRun(k)) /\ OneRunPerKeyLife
  BY DEF ExecInit, EntryOfRun, OneRunPerKeyLife, Started, NoRun
<1> QED
  BY <1>3, <1>4, <1>5 DEF ExecIInv

\* The sweep drops entries whose run is too old to matter and keeps the others.
LEMMA SweptKeeps ==
  ASSUME ExecutorAssumption, ExecIInv
  PROVE  /\ Swept \in [Keys -> Entries \cup {None}]
         /\ \A k \in Keys : Swept[k] # None => Swept[k] = cache[k] /\ cache[k] # None
         /\ \A p \in Reqs : run[p].state # "none" /\ run[p].start + CacheTtl > clock =>
              /\ run[p].call.key \in Keys
              /\ Swept[run[p].call.key] = cache[run[p].call.key]
              /\ Swept[run[p].call.key] # None
<1>1. Swept \in [Keys -> Entries \cup {None}]
  BY DEF Swept, ExecIInv, Typed
<1>2. \A k \in Keys : Swept[k] # None => Swept[k] = cache[k] /\ cache[k] # None
  BY DEF Swept
<1>3. ASSUME NEW p \in Reqs, run[p].state # "none", run[p].start + CacheTtl > clock
      PROVE  /\ run[p].call.key \in Keys
             /\ Swept[run[p].call.key] = cache[run[p].call.key]
             /\ Swept[run[p].call.key] # None
  <2> DEFINE k == run[p].call.key
  <2>1. k \in Keys
    BY <1>3 DEF ExecIInv, RunInTime, Calls
  <2>2. cache[k] # None /\ cache[k].of = p
    BY <1>3 DEF ExecIInv, RunHasEntry
  <2>3. cache[k].expires = run[p].start + CacheTtl
    BY <2>1, <2>2 DEF ExecIInv, EntryOfRun
  <2>4. ~(cache[k].expires <= clock)
    BY <1>3, <2>3 DEF ExecIInv, Typed, RunStates, ExecutorAssumption
  <2> QED
    BY <2>1, <2>2, <2>4 DEF Swept
<1> QED
  BY <1>1, <1>2, <1>3

\* A request moves before or without a run of its own.
LEMMA RequestMoves ==
  ASSUME ExecutorAssumption, ExecIInv, NEW p \in Reqs, NEW x \in ReqStates,
         req[p].pc \in {"idle", "body"}, req' = [req EXCEPT ![p] = x],
         x.pc # "idle",
         x.of # None => run[x.of].state # "none" /\ run[x.of].call = x.claims /\ x.pc = "await",
         x.pc = "await" => x.of # None,
         x.pc = "body" => x.of = None /\ x.claims \in Calls /\ x.body \in Calls /\ x.at < x.expires /\ x.at = clock,
         run' = run, clock' = clock, cache' = cache \/ cache' = Swept
  PROVE  ExecIInv'
<1>1. run[p].state = "none"
  BY DEF ExecIInv, RunOfRequest, ExecutorAssumption
<1>2. Typed'
  BY SweptKeeps DEF ExecIInv, Typed
<1>3. req'[p] = x /\ \A q \in Reqs \ {p} : req'[q] = req[q]
  BY DEF ExecIInv, Typed
<1>4. clock \in Nat /\ BodyTimeout \in Nat
  BY DEF ExecIInv, Typed, ExecutorAssumption
<1>5. ASSUME NEW q \in Reqs PROVE BodyInTime(q)'
  BY <1>3, <1>4 DEF ExecIInv, BodyInTime
<1>6. ASSUME NEW q \in Reqs PROVE RunOfRequest(q)'
  BY <1>1, <1>3 DEF ExecIInv, RunOfRequest
<1>7. ASSUME NEW q \in Reqs PROVE RunInTime(q)'
  BY DEF ExecIInv, RunInTime
<1>8. ASSUME NEW q \in Reqs PROVE RunHasEntry(q)'
  BY SweptKeeps DEF ExecIInv, RunHasEntry
<1>9. ASSUME NEW k \in Keys PROVE EntryOfRun(k)'
  BY SweptKeeps DEF ExecIInv, EntryOfRun
<1>10. OneRunPerKeyLife'
  BY DEF ExecIInv, OneRunPerKeyLife, Started
<1> QED
  BY <1>2, <1>5, <1>6, <1>7, <1>8, <1>9, <1>10 DEF ExecIInv

\* A request is refused, or its body is awaited.
LEMMA ArriveKeeps ==
  ASSUME ExecutorAssumption, ExecIInv, NEW p \in Reqs, NEW claims \in Calls, NEW body \in Calls,
         NEW issued \in 0..clock, Arrive(p, claims, body, issued)
  PROVE  ExecIInv'
<1> DEFINE expires == issued + CredTtl
           r == [Fresh EXCEPT !.claims = claims, !.expires = expires, !.body = body, !.at = clock]
           x == IF ~Live(expires) THEN [Fresh EXCEPT !.pc = "done", !.out = "expired"]
                ELSE IF claims.key # body.key THEN [Fresh EXCEPT !.pc = "done", !.out = "mismatch"]
                ELSE [r EXCEPT !.pc = "body"]
<1>1. req[p].pc = "idle" /\ req' = [req EXCEPT ![p] = x] /\ UNCHANGED <<clock, run, cache>>
  BY DEF Arrive
<1>2. expires \in Nat /\ clock \in Nat
  BY DEF ExecIInv, Typed, ExecutorAssumption
<1>3. x \in ReqStates
  BY <1>2 DEF ReqStates, Fresh, Outs, NoCall
<1>4. x.of = None /\ x.pc \in {"body", "done"}
  BY DEF Fresh
<1>5. x.pc = "body" => x.claims \in Calls /\ x.body \in Calls /\ x.at < x.expires /\ x.at = clock
  BY DEF Fresh, Live
<1> HIDE DEF x
<1> QED
  BY <1>1, <1>3, <1>4, <1>5, RequestMoves

\* A request whose body has not led to a run is answered without one.
LEMMA RefusedKeeps ==
  ASSUME ExecutorAssumption, ExecIInv, NEW p \in Reqs, req[p].pc = "body",
         NEW what \in Outs, req' = Answered(p, what),
         run' = run, clock' = clock, cache' = cache \/ cache' = Swept
  PROVE  ExecIInv'
<1> DEFINE x == [Fresh EXCEPT !.pc = "done", !.out = what, !.of = req[p].of,
                              !.claims = IF req[p].of = None THEN NoCall ELSE req[p].claims]
<1>1. req' = [req EXCEPT ![p] = x]
  BY DEF Answered
<1>2. req[p].of = None
  BY DEF ExecIInv, RunOfRequest
<1>3. x \in ReqStates /\ x.pc = "done" /\ x.of = None
  BY <1>2 DEF ReqStates, Fresh, NoCall
<1> HIDE DEF x
<1> QED
  BY <1>1, <1>3, RequestMoves

\* A retry or duplicate joins the run that its entry names.
LEMMA JoinKeeps ==
  ASSUME ExecutorAssumption, ExecIInv, NEW p \in Reqs, req[p].pc = "body",
         Bound(p), Swept[req[p].body.key] # None, SameRequest(p, req[p].body.key),
         req' = Await(p, Swept[req[p].body.key].of), run' = run, clock' = clock, cache' = Swept
  PROVE  ExecIInv'
<1> DEFINE k == req[p].body.key
           e == Swept[k]
           x == [Fresh EXCEPT !.pc = "await", !.claims = req[p].claims, !.of = e.of]
<1>1. req[p].body \in Calls /\ k \in Keys /\ req[p].claims = req[p].body
  BY DEF ExecIInv, BodyInTime, Calls, Bound
<1>2. e \in Entries /\ e = cache[k] /\ e.of \in Reqs
  <2>1. e = cache[k] /\ e \in Entries \cup {None}
    BY <1>1, SweptKeeps, SMTT(60)
  <2> QED
    BY <2>1 DEF Entries
<1>3. run[e.of].state # "none" /\ run[e.of].call = req[p].claims
  BY <1>1, <1>2 DEF ExecIInv, EntryOfRun, SameRequest
<1>4. req' = [req EXCEPT ![p] = x]
  BY SMTT(60) DEF Await
<1>5. x \in ReqStates /\ x.pc = "await" /\ x.of = e.of /\ x.claims = req[p].claims
  BY <1>1, <1>2 DEF ReqStates, Fresh, Outs, NoCall
<1>6. x.of # None
  BY <1>2, <1>5 DEF ExecutorAssumption
<1> HIDE DEF x, e
<1> QED
  BY <1>3, <1>4, <1>5, <1>6, RequestMoves

\* The first request of a key starts the Skill; no younger run of the key exists.
LEMMA StartKeeps ==
  ASSUME ExecutorAssumption, ExecIInv, NEW p \in Reqs, req[p].pc = "body",
         Bound(p), Swept[req[p].body.key] = None,
         req' = Await(p, p), clock' = clock, cache' = Stored(p, req[p].body.key),
         run' = [run EXCEPT ![p] = [state |-> "running", call |-> req[p].body, start |-> clock,
                                    ended |-> 0, expires |-> req[p].expires]]
  PROVE  ExecIInv'
<1> DEFINE k == req[p].body.key
           x == [Fresh EXCEPT !.pc = "await", !.claims = req[p].claims, !.of = p]
           y == [state |-> "running", call |-> req[p].body, start |-> clock,
                 ended |-> 0, expires |-> req[p].expires]
           e == [call |-> req[p].body, expires |-> clock + CacheTtl, of |-> p]
<1>1. req[p].body \in Calls /\ k \in Keys /\ req[p].claims = req[p].body
  BY DEF ExecIInv, BodyInTime, Calls, Bound
<1>2. /\ clock \in Nat /\ CacheTtl \in Nat \ {0} /\ BodyTimeout \in Nat /\ ExecTimeout \in Nat
      /\ req[p].expires \in Nat /\ req[p].at \in Nat
  BY DEF ExecIInv, Typed, ExecutorAssumption, ReqStates
<1>3. x \in ReqStates /\ x.pc = "await" /\ x.of = p /\ x.claims = req[p].body
  BY <1>1 DEF ReqStates, Fresh, Outs, NoCall
<1>4. y \in RunStates /\ e \in Entries /\ e # None
  BY <1>1, <1>2 DEF RunStates, Entries, ExecutorAssumption
<1>5. req'[p] = x /\ run'[p] = y /\ cache'[k] = e
  BY <1>1, SweptKeeps DEF ExecIInv, Typed, Await, Stored
<1>6. /\ \A q \in Reqs \ {p} : req'[q] = req[q] /\ run'[q] = run[q]
      /\ \A l \in Keys \ {k} : cache'[l] = Swept[l]
  BY SweptKeeps DEF ExecIInv, Typed, Await, Stored
<1>7. Typed'
  <2>1. req' \in [Reqs -> ReqStates]
    BY <1>3 DEF ExecIInv, Typed, Await
  <2>2. run' \in [Reqs -> RunStates]
    BY <1>4 DEF ExecIInv, Typed
  <2>3. cache' \in [Keys -> Entries \cup {None}]
    BY <1>4, SweptKeeps DEF Stored
  <2> QED
    BY <2>1, <2>2, <2>3 DEF ExecIInv, Typed
<1>8. run[p].state = "none" /\ p # None
  BY DEF ExecIInv, RunOfRequest, ExecutorAssumption
<1>9. \A q \in Reqs : run[q].state # "none" /\ run[q].call.key = k => run[q].start + CacheTtl <= clock
  <2> SUFFICES ASSUME NEW q \in Reqs, run[q].state # "none", run[q].call.key = k, ~(run[q].start + CacheTtl <= clock)
               PROVE  FALSE
    OBVIOUS
  <2>1. run[q].start \in Nat
    BY DEF ExecIInv, Typed, RunStates
  <2>2. run[q].start + CacheTtl > clock
    BY <1>2, <2>1
  <2> QED
    BY <2>2, SweptKeeps
<1>10. /\ y.state = "running" /\ y.call = req[p].body /\ y.start = clock /\ y.expires = req[p].expires
       /\ e.call = req[p].body /\ e.expires = clock + CacheTtl /\ e.of = p
  OBVIOUS
<1> HIDE DEF x, y, e
<1>11. ASSUME NEW q \in Reqs PROVE BodyInTime(q)'
  BY <1>3, <1>5, <1>6 DEF ExecIInv, BodyInTime
<1>12. ASSUME NEW q \in Reqs PROVE RunOfRequest(q)'
  BY <1>3, <1>5, <1>6, <1>8, <1>10 DEF ExecIInv, RunOfRequest
<1>13. ASSUME NEW q \in Reqs PROVE RunInTime(q)'
  <2>1. CASE q = p
    <3>1. clock < req[p].expires + BodyTimeout
      BY <1>2 DEF ExecIInv, BodyInTime
    <3> QED
      BY <1>1, <1>2, <1>5, <1>10, <2>1, <3>1 DEF RunInTime
  <2>2. CASE q # p
    BY <1>6, <2>2 DEF ExecIInv, RunInTime
  <2> QED
    BY <2>1, <2>2
<1>14. ASSUME NEW q \in Reqs PROVE RunHasEntry(q)'
  <2>1. CASE q = p
    BY <1>4, <1>5, <1>10, <2>1 DEF RunHasEntry
  <2>2. CASE q # p
    <3> SUFFICES ASSUME run[q].state # "none", run[q].start + CacheTtl > clock
                 PROVE  cache'[run[q].call.key] # None /\ cache'[run[q].call.key].of = q
      BY <1>6, <2>2 DEF RunHasEntry
    <3>1. run[q].call.key # k /\ run[q].call.key \in Keys
      BY SweptKeeps
    <3> QED
      BY <1>6, <3>1, SweptKeeps DEF ExecIInv, RunHasEntry
  <2> QED
    BY <2>1, <2>2
<1>15. ASSUME NEW l \in Keys PROVE EntryOfRun(l)'
  <2>1. CASE l = k
    BY <1>5, <1>10, <2>1 DEF EntryOfRun
  <2>2. CASE l # k
    <3> SUFFICES ASSUME cache'[l] # None PROVE EntryOfRun(l)'
      BY DEF EntryOfRun
    <3>1. cache'[l] = cache[l] /\ cache[l] # None
      BY <1>6, <2>2, SweptKeeps
    <3>2. cache[l].of # p /\ cache[l].of \in Reqs
      <4>1. cache[l] \in Entries
        BY <3>1 DEF ExecIInv, Typed
      <4> QED
        BY <1>8, <3>1, <4>1 DEF ExecIInv, EntryOfRun, Entries
    <3> QED
      BY <1>6, <3>1, <3>2, SMTT(60) DEF ExecIInv, EntryOfRun
  <2> QED
    BY <2>1, <2>2, SMTT(60)
<1>16. OneRunPerKeyLife'
  <2> SUFFICES ASSUME NEW q \in Reqs, NEW s \in Reqs, run'[q].state # "none", run'[s].state # "none",
                      q # s, run'[q].call.key = run'[s].call.key
               PROVE  run'[q].start >= run'[s].start + CacheTtl \/ run'[s].start >= run'[q].start + CacheTtl
    BY DEF OneRunPerKeyLife, Started
  <2>1. CASE q = p
    <3>1. run[s].start + CacheTtl <= clock
      BY <1>5, <1>6, <1>9, <1>10, <2>1
    <3> QED
      BY <1>2, <1>5, <1>6, <1>10, <2>1, <3>1 DEF ExecIInv, Typed, RunStates
  <2>2. CASE s = p
    <3>1. run[q].start + CacheTtl <= clock
      BY <1>5, <1>6, <1>9, <1>10, <2>2
    <3> QED
      BY <1>2, <1>5, <1>6, <1>10, <2>2, <3>1 DEF ExecIInv, Typed, RunStates
  <2>3. CASE q # p /\ s # p
    BY <1>6, <2>3 DEF ExecIInv, OneRunPerKeyLife, Started
  <2> QED
    BY <2>1, <2>2, <2>3
<1> QED
  BY <1>7, <1>11, <1>12, <1>13, <1>14, <1>15, <1>16 DEF ExecIInv

\* The body is complete: refused, joined or started.
LEMMA ExecuteKeeps ==
  ASSUME ExecutorAssumption, ExecIInv, NEW p \in Reqs, Execute(p)
  PROVE  ExecIInv'
<1> DEFINE k == req[p].body.key
<1>1. req[p].pc = "body" /\ clock' = clock
  BY DEF Execute
<1>2. CASE ~Bound(p) /\ req' = Answered(p, "mismatch") /\ UNCHANGED <<run, cache>>
  BY <1>1, <1>2, RefusedKeeps DEF Outs
<1>3. CASE req' = Answered(p, "conflict") /\ cache' = Swept /\ UNCHANGED run
  BY <1>1, <1>3, RefusedKeeps DEF Outs
<1>4. CASE req' = Answered(p, "busy") /\ cache' = Swept /\ UNCHANGED run
  BY <1>1, <1>4, RefusedKeeps DEF Outs
<1>5. CASE Bound(p) /\ Swept[k] # None /\ SameRequest(p, k) /\ req' = Await(p, Swept[k].of) /\ cache' = Swept /\ UNCHANGED run
  BY <1>1, <1>5, JoinKeeps
<1>6. CASE /\ Bound(p) /\ Swept[k] = None
           /\ req' = Await(p, p) /\ cache' = Stored(p, k)
           /\ run' = [run EXCEPT ![p] = [state |-> "running", call |-> req[p].body, start |-> clock,
                                         ended |-> 0, expires |-> req[p].expires]]
  BY <1>1, <1>6, StartKeeps
<1> QED
  BY <1>2, <1>3, <1>4, <1>5, <1>6 DEF Execute

\* A run takes its last state.
LEMMA RunSettles ==
  ASSUME ExecutorAssumption, ExecIInv, NEW p \in Reqs, run[p].state = "running",
         NEW y \in RunStates, y.state \notin {"none", "running"}, y.ended = clock,
         y.call = run[p].call, y.start = run[p].start, y.expires = run[p].expires,
         run' = [run EXCEPT ![p] = y], UNCHANGED <<clock, req, cache>>
  PROVE  ExecIInv'
<1>1. run'[p] = y /\ \A q \in Reqs \ {p} : run'[q] = run[q]
  BY DEF ExecIInv, Typed
<1>2. Typed'
  BY DEF ExecIInv, Typed
<1>3. ASSUME NEW q \in Reqs PROVE BodyInTime(q)'
  BY DEF ExecIInv, BodyInTime
<1>4. ASSUME NEW q \in Reqs PROVE RunOfRequest(q)'
  <2>1. req[q].of \in Reqs \cup {None}
    BY DEF ExecIInv, Typed, ReqStates
  <2> QED
    BY <1>1, <2>1 DEF ExecIInv, RunOfRequest
<1>5. ASSUME NEW q \in Reqs PROVE RunInTime(q)'
  BY <1>1 DEF ExecIInv, RunInTime
<1>6. ASSUME NEW q \in Reqs PROVE RunHasEntry(q)'
  BY <1>1 DEF ExecIInv, RunHasEntry
<1>7. ASSUME NEW k \in Keys PROVE EntryOfRun(k)'
  <2>1. cache[k] # None => cache[k].of \in Reqs
    BY DEF ExecIInv, Typed, Entries
  <2> QED
    BY <1>1, <2>1 DEF ExecIInv, EntryOfRun
<1>8. OneRunPerKeyLife'
  BY <1>1 DEF ExecIInv, OneRunPerKeyLife, Started
<1> QED
  BY <1>2, <1>3, <1>4, <1>5, <1>6, <1>7, <1>8 DEF ExecIInv

\* A run ends, by its Skill or by its timer, before its time is up.
LEMMA RunEnds ==
  ASSUME ExecutorAssumption, ExecIInv, NEW p \in Reqs, run[p].state = "running",
         NEW result \in {"timeout"} \cup Results,
         run' = [run EXCEPT ![p].state = result, ![p].ended = clock],
         UNCHANGED <<clock, req, cache>>
  PROVE  ExecIInv'
<1> DEFINE z == run[p]
           y == [z EXCEPT !.state = result, !.ended = clock]
<1>1. result \notin {"none", "running"}
  BY DEF Results
<1>2. clock \in Nat /\ z \in RunStates /\ run \in [Reqs -> RunStates]
  BY DEF ExecIInv, Typed
<1>3. run' = [run EXCEPT ![p] = y]
  BY <1>2
<1> HIDE DEF z
<1>4. y \in RunStates
  BY <1>2 DEF RunStates
<1>5. y.state = result /\ y.ended = clock
  BY <1>2 DEF RunStates
<1>6. y.call = z.call /\ y.start = z.start /\ y.expires = z.expires
  BY <1>2 DEF RunStates
<1> HIDE DEF y
<1> QED
  BY <1>1, <1>3, <1>4, <1>5, <1>6, RunSettles DEF z

\* A settled run is delivered to a request that awaits it.
LEMMA ReplyKeeps ==
  ASSUME ExecutorAssumption, ExecIInv, NEW p \in Reqs, Reply(p)
  PROVE  ExecIInv'
<1> DEFINE s == run[req[p].of].state
           x == [Fresh EXCEPT !.pc = "done", !.out = s, !.of = req[p].of,
                              !.claims = IF req[p].of = None THEN NoCall ELSE req[p].claims]
<1>1. /\ req[p].pc = "await" /\ s \notin {"none", "running"}
      /\ req' = [req EXCEPT ![p] = x] /\ UNCHANGED <<clock, run, cache>>
  BY DEF Reply, Answered
<1>2. req[p].of # None /\ req[p].of \in Reqs /\ req[p].claims \in Calls \cup {NoCall}
  BY <1>1 DEF ExecIInv, RunOfRequest, Typed, ReqStates
<1>3. s \in Outs
  BY <1>1, <1>2 DEF ExecIInv, Typed, RunStates, Outs
<1>4. x \in ReqStates /\ x.pc = "done" /\ x.out = s /\ x.of = req[p].of /\ x.claims = req[p].claims
  BY <1>2, <1>3 DEF ReqStates, Fresh, NoCall
<1> HIDE DEF x
<1>5. req'[p] = x /\ \A q \in Reqs \ {p} : req'[q] = req[q]
  BY <1>1 DEF ExecIInv, Typed
<1>6. Typed'
  BY <1>1, <1>4 DEF ExecIInv, Typed
<1>7. ASSUME NEW q \in Reqs PROVE BodyInTime(q)' /\ RunOfRequest(q)'
  BY <1>1, <1>2, <1>4, <1>5 DEF ExecIInv, BodyInTime, RunOfRequest
<1>8. ASSUME NEW q \in Reqs PROVE RunInTime(q)' /\ RunHasEntry(q)'
  BY <1>1 DEF ExecIInv, RunInTime, RunHasEntry
<1>9. (\A k \in Keys : EntryOfRun(k)') /\ OneRunPerKeyLife'
  BY <1>1 DEF ExecIInv, EntryOfRun, OneRunPerKeyLife, Started
<1> QED
  BY <1>6, <1>7, <1>8, <1>9 DEF ExecIInv

\* Time passes only while no timer is due.
LEMMA TickKeeps ==
  ASSUME ExecutorAssumption, ExecIInv, Tick
  PROVE  ExecIInv'
<1>1. clock \in Nat /\ clock' = clock + 1 /\ clock < MaxClock /\ UNCHANGED <<req, run, cache>>
  BY DEF Tick, ExecIInv, Typed
<1>2. Typed'
  BY <1>1 DEF ExecIInv, Typed, ExecutorAssumption
<1>3. ASSUME NEW q \in Reqs PROVE BodyInTime(q)'
  <2>1. req[q].at \in Nat /\ BodyTimeout \in Nat
    BY DEF ExecIInv, Typed, ReqStates, ExecutorAssumption
  <2>2. req[q].pc = "body" => clock < req[q].at + BodyTimeout
    BY <1>1, <2>1 DEF Tick, BodyDue
  <2> QED
    BY <1>1, <2>1, <2>2 DEF ExecIInv, BodyInTime
<1>4. ASSUME NEW q \in Reqs PROVE RunOfRequest(q)'
  BY <1>1 DEF ExecIInv, RunOfRequest
<1>5. ASSUME NEW q \in Reqs PROVE RunInTime(q)' /\ RunHasEntry(q)'
  <2>1. run[q].start \in Nat /\ ExecTimeout \in Nat /\ CacheTtl \in Nat
    BY DEF ExecIInv, Typed, RunStates, ExecutorAssumption
  <2>2. run[q].state = "running" => clock < run[q].start + ExecTimeout
    BY <1>1, <2>1 DEF Tick, TimedOut
  <2>3. RunInTime(q)'
    BY <1>1, <2>1, <2>2 DEF ExecIInv, RunInTime
  <2>4. RunHasEntry(q)'
    BY <1>1, <2>1 DEF ExecIInv, RunHasEntry
  <2> QED
    BY <2>3, <2>4
<1>6. (\A k \in Keys : EntryOfRun(k)') /\ OneRunPerKeyLife'
  BY <1>1 DEF ExecIInv, EntryOfRun, OneRunPerKeyLife, Started
<1> QED
  BY <1>2, <1>3, <1>4, <1>5, <1>6 DEF ExecIInv

\* Every step keeps the invariant.
LEMMA ExecKeeps ==
  ASSUME ExecutorAssumption, ExecIInv, [ExecNext]_execVars
  PROVE  ExecIInv'
<1>1. CASE UNCHANGED execVars
  BY <1>1 DEF execVars, ExecIInv, Typed, BodyInTime, RunOfRequest, RunInTime, RunHasEntry, EntryOfRun,
              OneRunPerKeyLife, Started
<1>2. ASSUME NEW p \in Reqs, NEW claims \in Calls, NEW body \in Calls, NEW issued \in 0..clock,
             Arrive(p, claims, body, issued)
      PROVE  ExecIInv'
  BY <1>2, ArriveKeeps
<1>3. ASSUME NEW p \in Reqs, BodyFails(p) PROVE ExecIInv'
  BY <1>3, RefusedKeeps DEF BodyFails, Outs
<1>4. ASSUME NEW p \in Reqs, Execute(p) PROVE ExecIInv'
  BY <1>4, ExecuteKeeps
<1>5. ASSUME NEW p \in Reqs, SkillTimesOut(p) PROVE ExecIInv'
  BY <1>5, RunEnds DEF SkillTimesOut, TimedOut
<1>6. ASSUME NEW p \in Reqs, Reply(p) PROVE ExecIInv'
  BY <1>6, ReplyKeeps
<1>7. ASSUME NEW p \in Reqs, NEW r \in Results, SkillEnds(p, r) PROVE ExecIInv'
  BY <1>7, RunEnds DEF SkillEnds
<1>8. CASE Tick
  BY <1>8, TickKeeps
<1> QED
  BY <1>1, <1>2, <1>3, <1>4, <1>5, <1>6, <1>7, <1>8 DEF ExecNext

\* The invariant says what RunInv says.
LEMMA IInvImpliesRunInv ==
  ASSUME ExecutorAssumption, ExecIInv
  PROVE  RunInv
<1>1. ExecTypeOK
  <2>1. \A p \in Reqs : req[p] \in ReqStates /\ run[p] \in RunStates
    BY DEF ExecIInv, Typed
  <2>2. \A p \in Reqs : req[p].pc = "await" => req[p].of # None
    BY DEF ExecIInv, RunOfRequest
  <2>3. \A k \in Keys : cache[k] = None \/ (cache[k].of \in Reqs /\ run[cache[k].of].state # "none")
    BY DEF ExecIInv, Typed, EntryOfRun, Entries
  <2> QED
    BY <2>1, <2>2, <2>3 DEF ExecIInv, Typed, ExecTypeOK, ReqStates, RunStates, Outs
<1>2. RunsWhatWasSigned
  BY DEF ExecIInv, RunOfRequest, RunInTime, RunsWhatWasSigned, Started, ExecutorAssumption
<1>3. RunsAreShort
  BY DEF ExecIInv, RunInTime, RunsAreShort, Started
<1>4. RetriesAgree
  BY DEF ExecIInv, RunOfRequest, RetriesAgree
<1> QED
  BY <1>1, <1>2, <1>3, <1>4 DEF RunInv, ExecIInv

\* POST /execute: what runs was signed, starts at most once in the life of a key's
\* entry and is over in time, and all its retries are given one answer, for any number
\* of requests, keys and inputs and for all time limits.
THEOREM RunsAreSafe ==
  ASSUME ExecutorAssumption
  PROVE  ExecSpec => []RunInv
<1>1. ExecInit => ExecIInv
  BY ExecStarts
<1>2. ExecIInv /\ [ExecNext]_execVars => ExecIInv'
  BY ExecKeeps
<1>3. ExecIInv => RunInv
  BY IInvImpliesRunInv
<1> QED
  BY <1>1, <1>2, <1>3, PTL DEF ExecSpec

-----------------------------------------------------------------------------
(* The limit of the cache                                                   *)

CacheInLimit == Size(cache) <= MaxEntries

\* Sweeping drops entries and storing adds one.
LEMMA CacheSizes ==
  ASSUME ExecutorAssumption, ExecIInv, NEW p \in Reqs, NEW k \in Keys
  PROVE  /\ Size(cache) \in Nat /\ Size(Swept) \in Nat
         /\ Size(Swept) <= Size(cache)
         /\ Size(Stored(p, k)) \in Nat /\ Size(Stored(p, k)) <= Size(Swept) + 1
<1> DEFINE C == {l \in Keys : cache[l] # None}
           S == {l \in Keys : Swept[l] # None}
           T == {l \in Keys : Stored(p, k)[l] # None}
<1>1. IsFiniteSet(C) /\ Cardinality(C) \in Nat
  BY FS_Subset, FS_CardinalityType DEF ExecutorAssumption
<1>2. S \subseteq C
  BY SweptKeeps
<1>3. IsFiniteSet(S) /\ Cardinality(S) <= Cardinality(C) /\ Cardinality(S) \in Nat
  BY <1>1, <1>2, FS_Subset, FS_CardinalityType
<1>4. T \subseteq S \cup {k}
  BY SweptKeeps DEF Stored
<1>5. IsFiniteSet(S \cup {k}) /\ Cardinality(S \cup {k}) <= Cardinality(S) + 1 /\ Cardinality(S \cup {k}) \in Nat
  <2> HIDE DEF S
  <2>1. IsFiniteSet(S \cup {k}) /\ Cardinality(S \cup {k}) \in {Cardinality(S), Cardinality(S) + 1}
    BY <1>3, FS_AddElement
  <2> QED
    BY <1>3, <2>1
<1>6. IsFiniteSet(T) /\ Cardinality(T) <= Cardinality(S \cup {k}) /\ Cardinality(T) \in Nat
  BY <1>4, <1>5, FS_Subset, FS_CardinalityType
<1>7. Size(cache) = Cardinality(C) /\ Size(Swept) = Cardinality(S) /\ Size(Stored(p, k)) = Cardinality(T)
  BY DEF Size
<1> HIDE DEF C, S, T
<1> QED
  BY <1>1, <1>3, <1>5, <1>6, <1>7

\* Only Execute touches the cache, and it looks at the limit before it stores.
LEMMA LimitKept ==
  ASSUME ExecutorAssumption, ExecIInv, CacheInLimit, [ExecNext]_execVars
  PROVE  CacheInLimit'
<1>1. CASE UNCHANGED cache
  BY <1>1 DEF CacheInLimit, Size
<1>2. ASSUME NEW p \in Reqs, Execute(p) PROVE CacheInLimit'
  <2> DEFINE k == req[p].body.key
  <2>1. k \in Keys
    BY <1>2 DEF ExecIInv, BodyInTime, Calls, Execute
  <2>2. /\ Size(cache) \in Nat /\ Size(Swept) \in Nat /\ Size(Swept) <= Size(cache)
        /\ Size(Stored(p, k)) \in Nat /\ Size(Stored(p, k)) <= Size(Swept) + 1
    BY <2>1, CacheSizes
  <2>3. \/ cache' = cache \/ cache' = Swept
        \/ cache' = Stored(p, k) /\ Size(Swept) < MaxEntries
    BY <1>2 DEF Execute
  <2>4. CacheInLimit' <=> Size(cache') <= MaxEntries
    BY DEF CacheInLimit, Size
  <2> HIDE DEF k
  <2> QED
    BY <2>2, <2>3, <2>4 DEF CacheInLimit, ExecutorAssumption
<1> QED
  BY <1>1, <1>2 DEF ExecNext, execVars, Arrive, BodyFails, SkillTimesOut, SkillEnds, Reply, Tick

\* A request that is told "busy" met a cache full of entries that have not run out.
LEMMA BusyStep ==
  ASSUME ExecutorAssumption, ExecIInv, CacheInLimit, [ExecNext]_execVars,
         NEW p \in Reqs, req[p].out # "busy", req'[p].out = "busy"
  PROVE  Cardinality({k \in Keys : cache'[k] # None /\ cache'[k].expires > clock}) = MaxEntries
<1>1. \A q \in Reqs : req[q] \in ReqStates
  BY DEF ExecIInv, Typed
<1>2. ASSUME NEW q \in Reqs, NEW x, req' = [req EXCEPT ![q] = x], x.out # "busy"
      PROVE  FALSE
  BY <1>2 DEF ExecIInv, Typed
<1>3. ASSUME NEW q \in Reqs, NEW what, what # "busy", req' = Answered(q, what)
      PROVE  FALSE
  <2> DEFINE x == [Fresh EXCEPT !.pc = "done", !.out = what, !.of = req[q].of,
                                !.claims = IF req[q].of = None THEN NoCall ELSE req[q].claims]
  <2>1. req' = [req EXCEPT ![q] = x] /\ x.out = what
    BY <1>3 DEF Answered, Fresh
  <2> HIDE DEF x
  <2> QED
    BY <1>2, <1>3, <2>1
<1>4. ASSUME NEW q \in Reqs, NEW s, req' = Await(q, s)
      PROVE  FALSE
  <2> DEFINE x == [Fresh EXCEPT !.pc = "await", !.claims = req[q].claims, !.of = s]
  <2>1. req' = [req EXCEPT ![q] = x] /\ x.out # "busy"
    BY <1>4 DEF Await, Fresh
  <2> HIDE DEF x
  <2> QED
    BY <1>2, <2>1
<1>5. ~UNCHANGED req
  OBVIOUS
<1>6. \A q \in Reqs, claims, body \in Calls, issued \in 0..clock : ~Arrive(q, claims, body, issued)
  <2> SUFFICES ASSUME NEW q \in Reqs, NEW claims \in Calls, NEW body \in Calls, NEW issued \in 0..clock,
                      Arrive(q, claims, body, issued)
               PROVE  FALSE
    OBVIOUS
  <2> DEFINE expires == issued + CredTtl
             r == [Fresh EXCEPT !.claims = claims, !.expires = expires, !.body = body, !.at = clock]
             x == IF ~Live(expires) THEN [Fresh EXCEPT !.pc = "done", !.out = "expired"]
                  ELSE IF claims.key # body.key THEN [Fresh EXCEPT !.pc = "done", !.out = "mismatch"]
                  ELSE [r EXCEPT !.pc = "body"]
  <2>1. req' = [req EXCEPT ![q] = x]
    BY DEF Arrive
  <2>2. x.out # "busy"
    BY DEF Fresh
  <2> HIDE DEF x
  <2> QED
    BY <1>2, <2>1, <2>2
<1>7. \A q \in Reqs : ~BodyFails(q)
  BY <1>3 DEF BodyFails
<1>8. \A q \in Reqs : ~Reply(q)
  <2> SUFFICES ASSUME NEW q \in Reqs, Reply(q) PROVE FALSE
    OBVIOUS
  <2>1. run[req[q].of].state # "busy"
    <3>1. req[q].of \in Reqs
      BY <1>1 DEF Reply, ExecIInv, RunOfRequest, ReqStates
    <3> QED
      BY <3>1 DEF ExecIInv, Typed, RunStates, Results
  <2> QED
    BY <1>3, <2>1 DEF Reply
<1>9. PICK q \in Reqs : Execute(q)
  BY <1>5, <1>6, <1>7, <1>8 DEF ExecNext, execVars, SkillTimesOut, SkillEnds, Tick
<1>10. cache' = Swept /\ Size(Swept) >= MaxEntries
  BY <1>3, <1>4, <1>9 DEF Execute
<1>11. \A k \in Keys : cache'[k] # None => cache'[k].expires > clock
  <2> SUFFICES ASSUME NEW k \in Keys, Swept[k] # None PROVE Swept[k].expires > clock
    BY <1>10
  <2>1. Swept[k] = cache[k] /\ cache[k] # None /\ ~(cache[k].expires <= clock)
    BY DEF Swept
  <2>2. cache[k].expires \in Nat /\ clock \in Nat
    BY <2>1 DEF ExecIInv, Typed, Entries
  <2> QED
    BY <2>1, <2>2
<1>12. {k \in Keys : cache'[k] # None /\ cache'[k].expires > clock} = {k \in Keys : Swept[k] # None}
  BY <1>10, <1>11
<1>13. Size(Swept) = MaxEntries
  <2>1. req[q].body.key \in Keys
    BY <1>9 DEF ExecIInv, BodyInTime, Calls, Execute
  <2> QED
    BY <1>10, <2>1, CacheSizes DEF CacheInLimit, ExecutorAssumption
<1> QED
  BY <1>12, <1>13 DEF Size

\* POST /execute refuses a request for want of room only when the cache holds its
\* limit of entries that are all still alive, however large the limit.
THEOREM OnlyAFullCacheRefuses ==
  ASSUME ExecutorAssumption
  PROVE  ExecSpec => BusyMeansFull
<1>1. ExecInit => ExecIInv /\ CacheInLimit
  <2> SUFFICES ASSUME ExecInit PROVE CacheInLimit
    BY ExecStarts
  <2>1. {k \in Keys : cache[k] # None} = {}
    BY DEF ExecInit
  <2> QED
    BY <2>1, FS_EmptySet DEF CacheInLimit, Size, ExecutorAssumption
<1>2. ExecIInv /\ CacheInLimit /\ [ExecNext]_execVars => (ExecIInv /\ CacheInLimit)'
  BY ExecKeeps, LimitKept
<1>3. ExecIInv /\ CacheInLimit /\ [ExecNext]_execVars =>
        [\A p \in Reqs : req[p].out # "busy" /\ req'[p].out = "busy" =>
           Cardinality({k \in Keys : cache'[k] # None /\ cache'[k].expires > clock}) = MaxEntries]_execVars
  BY BusyStep
<1> QED
  BY <1>1, <1>2, <1>3, PTL DEF ExecSpec, BusyMeansFull
================================================================================
