----------------------------- MODULE ModelGateway -----------------------------
(***************************************************************************)
(* The model proxy of the Cloud API, for the requests of one device        *)
(* (model-gateway.ts, model-usage.ts): the model policy is resolved, the   *)
(* body and the fallback policy are awaited, and each candidate in turn    *)
(* takes its place in the device's chain of admission promises, checks the *)
(* rate, concurrency and token limits, takes a concurrency slot, calls its *)
(* upstream with retries, and books its usage.  An answer is streamed as   *)
(* fast as the client reads it.                                            *)
(*                                                                         *)
(* A request may be aborted, by its client or by its timer, at every await *)
(* of this.  What runs between two awaits is one step.                     *)
(***************************************************************************)
EXTENDS Integers, FiniteSets, Sequences

CONSTANTS
  Reqs,        \* model requests of the device
  Fallbacks,   \* the requests whose policy names a fallback policy
  MaxRetries,  \* max_retries
  Threshold,   \* circuit_breaker_threshold
  Cooldown,    \* circuit_breaker_cooldown_ms, in ticks
  Window,      \* the minute of device_requests_per_minute, in ticks
  Rate,        \* device_requests_per_minute
  Slots,       \* max_device_concurrency
  Tokens,      \* the smaller of device_daily_tokens and tenant_monthly_tokens
  MaxClock,    \* bound: ticks
  Faults,      \* bound: aborts, stalls, and store calls that fail
  Nil

\* One place in the chain for each candidate a request tries.
Calls == Reqs \X {1, 2}

ASSUME GatewayAssumption ==
  /\ IsFiniteSet(Reqs) /\ Nil \notin Reqs \cup Calls /\ Fallbacks \subseteq Reqs
  /\ {MaxRetries, MaxClock, Faults} \subseteq Nat
  /\ {Threshold, Cooldown, Window, Rate, Slots, Tokens} \subseteq Nat \ {0}

VARIABLES
  clock,
  breaker,   \* circuitStatesByStore: candidate -> failures, openUntil
  link,      \* admission promises: call -> the promise it waits for, unresolved?
  tail,      \* admissionLocks
  active,    \* concurrency
  recent,    \* minuteRequests: an array whose order is never read, as a set
  admitted,  \* every admission so far, of which minuteRequests remembers some
  used,      \* booked tokens of the day
  rq,        \* proxyModelRequest of every request
  budget     \* faults left

vars == <<clock, breaker, link, tail, active, recent, admitted, used, rq, budget>>

Candidates == {"primary", "fallback"}
\* n counts the places taken in the chain, k the attempts at an upstream; tried
\* says that one reached the network.
Fresh == [pc |-> "idle", todo |-> <<>>, n |-> 0, at |-> 0, seen |-> 0, k |-> 0,
          tried |-> FALSE, lease |-> "none", abort |-> FALSE]

Init ==
  /\ clock = 0
  /\ breaker = [c \in Candidates |-> [failures |-> 0, until |-> 0]]
  /\ link = [c \in Calls |-> [prev |-> Nil, open |-> FALSE]]
  /\ tail = Nil
  /\ active = 0
  /\ recent = {}
  /\ admitted = {}
  /\ used = 0
  /\ rq = [r \in Reqs |-> Fresh]
  /\ budget = Faults

-----------------------------------------------------------------------------
(* The chain of admission promises                                          *)

Call(r) == <<r, rq[r].n>>
Resolved(p) == IF p = Nil THEN TRUE ELSE ~link[p].open

\* A new promise goes to the end of the chain and remembers its predecessor.
Queued(c) == [link EXCEPT ![c] = [prev |-> tail, open |-> TRUE]]

\* finish(): the promise resolves; the map forgets it if nobody came after.
Finish(c) ==
  /\ link' = [link EXCEPT ![c] = [prev |-> Nil, open |-> FALSE]]
  /\ tail' = IF tail = c THEN Nil ELSE tail

\* Variant: the waiter resolves its promise at once.
LeaveChainAtOnce(r) == Finish(Call(r))

\* A waiter that was aborted leaves; its promise resolves when the one before
\* it does.
LeaveChain(r) == UNCHANGED <<link, tail>>

\* Variant: a waiter that left never resolves its promise.
LeftForgotten(c) == FALSE

\* The request of the promise no longer waits or holds it.
Left(c) == link[c].open /\ ~(rq[c[1]].pc \in {"wait", "list", "check"} /\ Call(c[1]) = c)

PassOn(c) ==
  /\ Left(c) /\ Resolved(link[c].prev)
  /\ Finish(c)
  /\ UNCHANGED <<clock, breaker, active, recent, admitted, used, rq, budget>>

-----------------------------------------------------------------------------
(* Slots and the circuit breaker                                            *)

\* release(): at most once for a lease.
Released(r) == IF rq[r].lease = "held" THEN active - 1 ELSE active

\* circuitOpen, and what it leaves in the map: an entry whose openUntil is not
\* in the future is deleted.
CircuitOpen(c) == breaker[c].until > clock
Looked(c) == IF CircuitOpen(c) THEN breaker ELSE [breaker EXCEPT ![c] = [failures |-> 0, until |-> 0]]

Succeeds(c) ==
  breaker' = [breaker EXCEPT ![c] = [failures |-> 0, until |-> 0]]

Fails(c) ==
  LET failures == breaker[c].failures + 1
      opens == failures >= Threshold
  IN  breaker' = [breaker EXCEPT ![c] =
                    [failures |-> failures, until |-> IF opens THEN clock + Cooldown ELSE 0]]

-----------------------------------------------------------------------------
(* A request                                                                *)

Done(r) == [rq EXCEPT ![r] = [Fresh EXCEPT !.pc = "done", !.abort = rq[r].abort]]
Aborted(r) == rq[r].abort

\* configuredModel: administrators edit policies at any time; the one that applies
\* to the device now is usable, or the request is refused.
Arrive(r) ==
  /\ rq[r].pc = "idle"
  /\ \/ rq' = [rq EXCEPT ![r].pc = "body"]
     \/ rq' = Done(r)
  /\ UNCHANGED <<clock, breaker, link, tail, active, recent, admitted, used, budget>>

\* The loop takes the next candidate: it joins the chain with `now` read first.
Try(r, todo, base) ==
  LET c == <<r, rq[r].n + 1>> IN
  /\ rq' = [base EXCEPT ![r].pc = "wait", ![r].todo = todo, ![r].n = c[2], ![r].at = clock,
                        ![r].k = 0, ![r].tried = FALSE, ![r].lease = "none"]
  /\ link' = Queued(c)
  /\ tail' = c

\* readLimitedJson, then the fallback policy: no JSON or an abort end the request
\* here.  The candidates are fixed; only the primary's circuit is asked.
Prepare(r) ==
  /\ rq[r].pc = "body"
  /\ \/ /\ rq' = Done(r)
        /\ UNCHANGED <<breaker, link, tail>>
     \/ /\ ~Aborted(r)
        /\ \E fallback \in {<<>>} \cup {<<"fallback">> : x \in Fallbacks \cap {r}} :
             LET todo == (IF CircuitOpen("primary") THEN <<>> ELSE <<"primary">>) \o fallback IN
             /\ breaker' = Looked("primary")
             /\ IF todo = <<>> THEN rq' = Done(r) /\ UNCHANGED <<link, tail>>
                               ELSE Try(r, todo, rq)
  /\ UNCHANGED <<clock, active, recent, admitted, used, budget>>

\* withDeviceAdmissionLock: the promise before this one has resolved.
Acquire(r) ==
  /\ rq[r].pc = "wait" /\ ~Aborted(r)
  /\ Resolved(link[Call(r)].prev)
  /\ rq' = [rq EXCEPT ![r].pc = "list"]
  /\ UNCHANGED <<clock, breaker, link, tail, active, recent, admitted, used, budget>>

\* waitForAbort rejects while the request waits, or holds the chain.
AbortWait(r) ==
  /\ Aborted(r)
  /\ \/ rq[r].pc = "wait" /\ LeaveChain(r)
     \/ rq[r].pc \in {"list", "check"} /\ Finish(Call(r))
  /\ rq' = Done(r)
  /\ UNCHANGED <<clock, breaker, active, recent, admitted, used, budget>>

\* listModelUsage reads the rows; they may change before the promise settles.
ListUsage(r) ==
  /\ rq[r].pc = "list" /\ ~Aborted(r)
  /\ rq' = [rq EXCEPT ![r].pc = "check", ![r].seen = used]
  /\ UNCHANGED <<clock, breaker, link, tail, active, recent, admitted, used, budget>>

ListUsageFails(r) ==
  /\ rq[r].pc = "list" /\ ~Aborted(r)
  /\ budget > 0 /\ budget' = budget - 1
  /\ Finish(Call(r))
  /\ rq' = Done(r)
  /\ UNCHANGED <<clock, breaker, active, recent, admitted, used>>

InWindow(now) == {a \in recent : a.at > now - Window}

\* The limits in the order they are tried.
Verdict(r) ==
  IF Cardinality(InWindow(rq[r].at)) >= Rate THEN "rate"
  ELSE IF active >= Slots THEN "concurrency"
  ELSE IF rq[r].seen >= Tokens THEN "quota"
  ELSE "ok"

Check(r) ==
  /\ rq[r].pc = "check" /\ ~Aborted(r)
  /\ Finish(Call(r))
  /\ IF Verdict(r) = "ok"
       THEN /\ LET this == [call |-> Call(r), at |-> rq[r].at]
               IN  recent' = InWindow(rq[r].at) \cup {this} /\ admitted' = admitted \cup {this}
            /\ active' = active + 1
            /\ rq' = [rq EXCEPT ![r].pc = "register", ![r].at = 0, ![r].seen = 0]
       ELSE /\ rq' = Done(r)
            /\ UNCHANGED <<recent, admitted, active>>
  /\ UNCHANGED <<clock, breaker, used, budget>>

\* The lease is made and listens to the abort signal; a signal that came
\* before gives the slot back at once.
Register(r) ==
  /\ rq[r].pc = "register"
  /\ IF Aborted(r)
       THEN rq' = Done(r) /\ active' = active - 1
       ELSE rq' = [rq EXCEPT ![r].pc = "call", ![r].lease = "held"] /\ UNCHANGED active
  /\ UNCHANGED <<clock, breaker, link, tail, recent, admitted, used, budget>>

Last(r) == Len(rq[r].todo) = 1
Spent(r) == rq[r].k = MaxRetries

\* Once the attempts of a candidate are over without an answer, a call that
\* reached the network is booked, one that did not only gives its slot back.
Over(r, tried) ==
  IF tried THEN rq' = [rq EXCEPT ![r].pc = "book", ![r].k = 0, ![r].tried = FALSE] /\ UNCHANGED <<active, link, tail>>
  ELSE /\ active' = Released(r)
       /\ LET freed == [rq EXCEPT ![r].lease = "released"] IN
          IF Aborted(r) \/ Last(r) THEN rq' = Done(r) /\ UNCHANGED <<link, tail>>
          ELSE Try(r, Tail(rq[r].todo), freed)

\* The upstream answers with a success or a refusal that is final.
Answered(r) ==
  /\ rq[r].pc = "call" /\ ~Aborted(r)
  /\ \/ Succeeds(Head(rq[r].todo))
     \/ UNCHANGED breaker
     \/ Last(r) /\ Spent(r) /\ Fails(Head(rq[r].todo))
  /\ rq' = [rq EXCEPT ![r].pc = "stream", ![r].k = 0, ![r].tried = FALSE]
  /\ UNCHANGED <<clock, link, tail, active, recent, admitted, used, budget>>

\* A busy or failing upstream, or no connection (tried says whether the request
\* was ever started): the same candidate again, or the next one.
Unanswered(r, tried) ==
  /\ rq[r].pc = "call" /\ ~Aborted(r)
  /\ IF Spent(r) THEN Fails(Head(rq[r].todo)) /\ Over(r, tried)
     ELSE /\ rq' = [rq EXCEPT ![r].k = @ + 1, ![r].tried = tried]
          /\ UNCHANGED <<breaker, active, link, tail>>
  /\ UNCHANGED <<clock, recent, admitted, used, budget>>

AbortCall(r, tried) ==
  /\ rq[r].pc = "call" /\ Aborted(r)
  /\ Over(r, tried)
  /\ UNCHANGED <<clock, breaker, recent, admitted, used, budget>>

\* lease.complete(): the tokens of the call are added to the usage rows, unless
\* the store fails.
Booked ==
  \/ used' = used + 1 /\ UNCHANGED budget
  \/ budget > 0 /\ budget' = budget - 1 /\ UNCHANGED used

\* The response has been streamed to its end or broke off, or the candidate
\* failed.  Usage is booked or not, and in any case the slot is given back.  A
\* failed candidate is followed by the next one.
Complete(r) ==
  /\ rq[r].pc \in {"book", "stream"}
  /\ Booked
  /\ active' = Released(r)
  /\ LET freed == [rq EXCEPT ![r].lease = "released"] IN
     IF rq[r].pc = "stream" \/ Aborted(r) \/ Last(r)
       THEN rq' = Done(r) /\ UNCHANGED <<link, tail>>
       ELSE Try(r, Tail(rq[r].todo), freed)
  /\ UNCHANGED <<clock, breaker, recent, admitted>>

\* res.write() returns false, and waitForResponseDrain awaits the client.
Stalls(r) ==
  /\ rq[r].pc = "stream" /\ budget > 0
  /\ rq' = [rq EXCEPT ![r].pc = "drain"]
  /\ budget' = budget - 1
  /\ UNCHANGED <<clock, breaker, link, tail, active, recent, admitted, used>>

\* The client reads on ("drain") or hangs up ("close"); nothing else ends the wait.
Resumes(r) ==
  /\ rq[r].pc = "drain"
  /\ rq' = [rq EXCEPT ![r].pc = "stream"]
  /\ UNCHANGED <<clock, breaker, link, tail, active, recent, admitted, used, budget>>

\* controller.abort(): a lease that listens gives its slot back in the same turn.
Signal(r) ==
  /\ rq' = [rq EXCEPT ![r].abort = TRUE, ![r].lease = IF @ = "held" THEN "released" ELSE @]
  /\ active' = Released(r)
  /\ UNCHANGED <<clock, breaker, link, tail, recent, admitted, used>>

\* The client leaves, or the timer fires.
Abort(r) ==
  /\ rq[r].pc \notin {"idle", "done"} /\ ~Aborted(r)
  /\ budget > 0 /\ budget' = budget - 1
  /\ Signal(r)

\* The timer fires while the client does not read: only the upstream is aborted.
TimerFires(r) ==
  /\ rq[r].pc = "drain" /\ ~Aborted(r)
  /\ Signal(r)
  /\ UNCHANGED budget

Tick ==
  /\ clock < MaxClock
  /\ clock' = clock + 1
  /\ UNCHANGED <<breaker, link, tail, active, recent, admitted, used, rq, budget>>

\* What the server does for a request by itself.
Step(r) ==
  \/ Prepare(r) \/ Acquire(r) \/ AbortWait(r) \/ ListUsage(r) \/ Check(r)
  \/ Register(r) \/ Answered(r) \/ Complete(r)
  \/ \E tried \in BOOLEAN : (tried \/ ~rq[r].tried) /\ (Unanswered(r, tried) \/ AbortCall(r, tried))

Next ==
  \/ \E r \in Reqs :
       Arrive(r) \/ Step(r) \/ ListUsageFails(r) \/ Abort(r) \/ Stalls(r) \/ Resumes(r) \/ TimerFires(r)
  \/ \E c \in Calls : PassOn(c)
  \/ Tick

Spec == Init /\ [][Next]_vars

\* Promises settle: the body by its timeout, upstream calls and the upstream's
\* stream by the request's timer at the latest.  A client need not read.
FairSpec ==
  /\ Spec
  /\ \A r \in Reqs : WF_vars(Step(r)) /\ WF_vars(TimerFires(r))
  /\ \A c \in Calls : WF_vars(PassOn(c))

-----------------------------------------------------------------------------
Holds(r) == rq[r].pc \in {"list", "check"}

\* Every variable has its type.
TypeOK ==
  /\ clock \in 0..MaxClock /\ used \in Nat /\ active \in 0..Slots
  /\ \A c \in Calls : link[c].open \in BOOLEAN /\ link[c].prev \in Calls \cup {Nil}
  /\ tail \in Calls \cup {Nil}
  /\ recent \subseteq admitted /\ admitted \subseteq [call : Calls, at : 0..clock]
  /\ \A r \in Reqs : rq[r].lease \in {"none", "held", "released"}

\* withDeviceAdmissionLock excludes: two requests of a device never count
\* against the limits at once, although waiters in between may be aborted.
OneAdmission == \A p, q \in Reqs : Holds(p) /\ Holds(q) => p = q

\* The concurrency counter is the number of requests between their admission
\* and their end: no abort, retry, fallback or failed booking loses a slot or
\* gives one back twice.
SlotsConserved ==
  active = Cardinality({r \in Reqs : rq[r].pc = "register" \/ rq[r].lease = "held"})

\* No window of a minute holds more admissions of the device than its rate,
\* although each admission forgets what is older than a minute at the time that
\* its request read before it waited.
RateHolds == \A t \in 0..clock : Cardinality({a \in admitted : t - Window < a.at /\ a.at <= t}) <= Rate

\* The chain is never broken: a promise that waits for nobody is the oldest
\* unresolved one, so the last one resolved lets exactly one waiter in.
ChainInOrder ==
  \A c, d \in Calls : c # d /\ link[c].open /\ link[d].open => ~(Resolved(link[c].prev) /\ Resolved(link[d].prev))

\* Booked usage passes the quota by no more than the calls that had a slot when
\* the last admission read it, that one, and the calls that were aborted, which
\* give their slot back before they are booked.
OvershootBounded == used <= Tokens + Slots + Cardinality({r \in Reqs : Aborted(r)})

\* model-usage.ts and model-gateway.ts: admission, slots, rate and fallback, whatever
\* is aborted or fails at any await.
GatewayInv == TypeOK /\ OneAdmission /\ SlotsConserved /\ RateHolds /\ ChainInOrder /\ OvershootBounded

\* Every request is answered or dropped, or waits for its own client to read on and holds
\* no slot of the device meanwhile; when that client reads on, the same holds again.
\* Nobody waits for ever behind a request that left or that stalls.
RequestsEnd ==
  \A r \in Reqs :
    rq[r].pc # "idle" ~> (rq[r].pc = "done" \/ (rq[r].pc = "drain" /\ rq[r].lease # "held"))
=============================================================================
