------------------------------ MODULE Executor ------------------------------
(***************************************************************************)
(* POST /execute of the Cloud Skill Executor: a request carries a short    *)
(* lived credential bound to one call, its body may take a while to        *)
(* arrive, and the first request of a tenant and idempotency key starts    *)
(* the Skill while later ones wait for the same promise.  The cache of     *)
(* promises is bounded and its entries run out.                            *)
(*                                                                         *)
(* Time is counted in ticks.  The two timers of a request (reading the     *)
(* body, running the Skill) fire when they are due: the clock does not     *)
(* pass them.                                                              *)
(***************************************************************************)
EXTENDS Integers, FiniteSets

CONSTANTS
  Keys,         \* idempotency keys the clients choose
  Inputs,       \* input digests
  Reqs,         \* HTTP requests: first attempts, retries and duplicates
  CredTtl,      \* EXECUTOR_CREDENTIAL_TTL_MS
  BodyTimeout,  \* bodyTimeoutMs
  ExecTimeout,  \* executionTimeoutMs
  CacheTtl,     \* idempotencyTtlMs
  MaxEntries,   \* maxIdempotencyEntries
  MaxClock,     \* bound: ticks explored
  None

\* What a credential is bound to and a body asks for, all of one tenant.
Calls == [key : Keys, input : Inputs]

\* IdempotencyEntry: what was asked, until when it is kept, and whose promise it is.
Entries == [call : Calls, expires : Nat, of : Reqs]

ExecutorAssumption ==
  /\ IsFiniteSet(Keys)
  /\ CredTtl \in Nat \ {0} /\ BodyTimeout \in Nat \ {0} /\ ExecTimeout \in Nat \ {0}
  /\ CacheTtl \in Nat \ {0} /\ MaxEntries \in Nat \ {0} /\ MaxClock \in Nat
  /\ None \notin Reqs \cup Entries

VARIABLES
  clock,
  req,     \* what each request is doing and how it was answered
  run,     \* the Skill run a request started, by that request
  cache    \* idempotency: key to entry, or None

execVars == <<clock, req, run, cache>>

NoCall == [key |-> None, input |-> None]
Fresh == [pc |-> "idle", claims |-> NoCall, expires |-> 0, body |-> NoCall, at |-> 0, of |-> None, out |-> "none"]
NoRun == [state |-> "none", call |-> NoCall, start |-> 0, ended |-> 0, expires |-> 0]

ExecInit ==
  /\ clock = 0
  /\ req = [p \in Reqs |-> Fresh]
  /\ run = [p \in Reqs |-> NoRun]
  /\ cache = [k \in Keys |-> None]

\* A request is answered; what it asked for matters if it was answered from a run.
Answered(p, what) ==
  [req EXCEPT ![p] = [Fresh EXCEPT !.pc = "done", !.out = what, !.of = req[p].of,
                                   !.claims = IF req[p].of = None THEN NoCall ELSE req[p].claims]]
Await(p, q) == [req EXCEPT ![p] = [Fresh EXCEPT !.pc = "await", !.claims = req[p].claims, !.of = q]]

-----------------------------------------------------------------------------
\* verifyExecutorCredential on the clock: expires_at <= now is expired.
Live(expires) == clock < expires

\* The head of a request: a credential for one call, issued at some earlier tick,
\* and the Idempotency-Key of the body that follows.
Arrive(p, claims, body, issued) ==
  /\ req[p].pc = "idle"
  /\ LET expires == issued + CredTtl
         r == [Fresh EXCEPT !.claims = claims, !.expires = expires, !.body = body, !.at = clock]
     IN req' = [req EXCEPT ![p] =
          IF ~Live(expires) THEN [Fresh EXCEPT !.pc = "done", !.out = "expired"]
          ELSE IF claims.key # body.key THEN [Fresh EXCEPT !.pc = "done", !.out = "mismatch"]
          ELSE [r EXCEPT !.pc = "body"]]
  /\ UNCHANGED <<clock, run, cache>>

\* readBoundedBody gives up when its timer fires, or when the client aborts.
BodyFails(p) ==
  /\ req[p].pc = "body"
  /\ req' = Answered(p, "request_timeout")
  /\ UNCHANGED <<clock, run, cache>>

\* Entries that have run out are dropped before the lookup.
Swept == [k \in Keys |-> IF cache[k] # None /\ cache[k].expires <= clock THEN None ELSE cache[k]]

\* The credential binds task, tenant, Skill, key and input digest.
Bound(p) == req[p].claims = req[p].body

\* Variant: the cached promise is stored only once it has been fulfilled.
StoredLate(p, k) == Swept

\* The entry is stored in the same turn that starts the Skill.
Stored(p, k) ==
  [Swept EXCEPT ![k] = [call |-> req[p].body, expires |-> clock + CacheTtl, of |-> p]]

\* requestFingerprint: task, tenant, Skill and input digest.
SameRequest(p, k) == Swept[k].call = req[p].body

Size(c) == Cardinality({k \in Keys : c[k] # None})

\* The whole body has arrived; from here to the first await of the promise the
\* handler runs in one turn.
Execute(p) ==
  LET k == req[p].body.key
  IN /\ req[p].pc = "body"
     /\ UNCHANGED clock
     /\ \/ /\ ~Bound(p)
           /\ req' = Answered(p, "mismatch")
           /\ UNCHANGED <<run, cache>>
        \/ /\ Bound(p) /\ Swept[k] # None /\ ~SameRequest(p, k)
           /\ req' = Answered(p, "conflict")
           /\ cache' = Swept
           /\ UNCHANGED run
        \/ /\ Bound(p) /\ Swept[k] # None /\ SameRequest(p, k)
           /\ req' = Await(p, Swept[k].of)
           /\ cache' = Swept
           /\ UNCHANGED run
        \/ /\ Bound(p) /\ Swept[k] = None /\ Size(Swept) >= MaxEntries
           /\ req' = Answered(p, "busy")
           /\ cache' = Swept
           /\ UNCHANGED run
        \/ /\ Bound(p) /\ Swept[k] = None /\ Size(Swept) < MaxEntries
           /\ req' = Await(p, p)
           /\ run' = [run EXCEPT ![p] = [state |-> "running", call |-> req[p].body, start |-> clock,
                                         ended |-> 0, expires |-> req[p].expires]]
           /\ cache' = Stored(p, k)

\* The Skill returns, refuses its input, throws, or returns too much.
SkillEnds(p, result) ==
  /\ run[p].state = "running"
  /\ run' = [run EXCEPT ![p].state = result, ![p].ended = clock]
  /\ UNCHANGED <<clock, req, cache>>

TimedOut(p) == run[p].state = "running" /\ clock >= run[p].start + ExecTimeout

\* Variant: the timer is never armed.
SkillTimesOutNever(p) ==
  /\ FALSE
  /\ UNCHANGED execVars

\* runWithTimeout: the race is lost, the Skill is told to abort.
SkillTimesOut(p) ==
  /\ TimedOut(p)
  /\ run' = [run EXCEPT ![p].state = "timeout", ![p].ended = clock]
  /\ UNCHANGED <<clock, req, cache>>

Reply(p) ==
  /\ req[p].pc = "await"
  /\ run[req[p].of].state \notin {"none", "running"}
  /\ req' = Answered(p, run[req[p].of].state)
  /\ UNCHANGED <<clock, run, cache>>

BodyDue(p) == req[p].pc = "body" /\ clock >= req[p].at + BodyTimeout

Tick ==
  /\ clock < MaxClock
  /\ \A p \in Reqs : ~BodyDue(p) /\ ~TimedOut(p)
  /\ clock' = clock + 1
  /\ UNCHANGED <<req, run, cache>>

Results == {"ok", "failed"}

ExecNext ==
  \/ \E p \in Reqs, claims, body \in Calls, issued \in 0..clock : Arrive(p, claims, body, issued)
  \/ \E p \in Reqs : BodyFails(p) \/ Execute(p) \/ SkillTimesOut(p) \/ Reply(p)
  \/ \E p \in Reqs, r \in Results : SkillEnds(p, r)
  \/ Tick

ExecSpec == ExecInit /\ [][ExecNext]_execVars

\* Timers fire and settled promises are delivered; neither the client's body nor the
\* Skill is owed any progress.
ExecFairSpec ==
  /\ ExecSpec
  /\ WF_execVars(Tick)
  /\ \A p \in Reqs : /\ WF_execVars(BodyDue(p) /\ BodyFails(p))
                     /\ WF_execVars(SkillTimesOut(p))
                     /\ WF_execVars(Reply(p))

-----------------------------------------------------------------------------
\* Properties

\* Types of requests, runs and cache.
ExecTypeOK ==
  /\ clock \in 0..MaxClock
  /\ \A p \in Reqs :
       /\ req[p].pc \in {"idle", "body", "await", "done"}
       /\ req[p].claims \in Calls \cup {NoCall} /\ req[p].body \in Calls \cup {NoCall}
       /\ req[p].of \in Reqs \cup {None} /\ req[p].pc = "await" => req[p].of # None
       /\ req[p].out \in {"none", "expired", "mismatch", "request_timeout", "conflict", "busy", "timeout"} \cup Results
       /\ run[p].state \in {"none", "running", "timeout"} \cup Results
  /\ \A k \in Keys : cache[k] = None \/ (cache[k].of \in Reqs /\ run[cache[k].of].state # "none")

Started == {p \in Reqs : run[p].state # "none"}

\* An idempotency key starts the Skill once in the life of its entry, however many
\* retries and duplicates arrive and whatever they interleave with.
OneRunPerKeyLife ==
  \A p, q \in Started : p # q /\ run[p].call.key = run[q].call.key =>
    run[p].start >= run[q].start + CacheTtl \/ run[q].start >= run[p].start + CacheTtl

\* All answers a call's retries get from one run are the same answer, and no request
\* is answered from the run of another call.
RetriesAgree ==
  \A p \in Reqs : req[p].of # None =>
    /\ run[req[p].of].call = req[p].claims
    /\ req[p].pc = "done" => req[p].out = run[req[p].of].state

\* What runs is what the Cloud API signed, and it starts no later than the body
\* timeout after the credential has run out: the credential is checked before the
\* body is read and not again.
RunsWhatWasSigned ==
  \A p \in Started : /\ run[p].call = req[p].claims
                     /\ run[p].start < run[p].expires + BodyTimeout

\* No Skill run is waited for longer than the execution timeout.
RunsAreShort == \A p \in Started : run[p].state # "running" => run[p].ended <= run[p].start + ExecTimeout

\* Every run is of a call the Cloud API signed and is over when its time is up, a
\* key runs once in the life of its entry, and its retries get one answer.
RunInv ==
  ExecTypeOK /\ RunsWhatWasSigned /\ RunsAreShort /\ OneRunPerKeyLife /\ RetriesAgree

\* The cache never holds more than its limit and a full cache of entries that have
\* run out does not refuse anyone.
BusyMeansFull ==
  [][\A p \in Reqs : req[p].out # "busy" /\ req'[p].out = "busy" =>
       Cardinality({k \in Keys : cache'[k] # None /\ cache'[k].expires > clock}) = MaxEntries]_execVars

\* Every accepted request is answered although neither client nor Skill has to move.
RequestsEnd == \A p \in Reqs : req[p].pc \in {"body", "await"} ~> (req[p].pc = "done" \/ clock = MaxClock)

\* POST /execute refuses for want of room only when it is full, and answers whatever
\* it accepts.
RequestsServed == BusyMeansFull /\ RequestsEnd
=============================================================================
