------------------------------- MODULE CloudTask -------------------------------
(***************************************************************************)
(* The life of a Cloud Skill task: the POST /v1/tasks handler that stages, *)
(* meters and admits it, the worker (runTask) that claims and executes it, *)
(* and the cancel handler.  Requests are retries of ONE idempotency key;   *)
(* every await of a handler is a step, so handlers, workers and cancels    *)
(* interleave, in one process or in several replicas over one store.       *)
(*                                                                         *)
(* A task row is "staged" while its input is the admission placeholder and *)
(* "admitted" once the real input is in it.  The usage reservation is the  *)
(* one of UsageAdmission, here only as far as a task sees it.              *)
(***************************************************************************)
EXTENDS Integers, Sequences, FiniteSets

CONSTANTS
  Reqs,            \* concurrent requests with the same idempotency key
  Cancels,         \* cancel requests
  AdmissionGates,  \* gates POST /v1/tasks reads, in order
  WorkerGates,     \* gates runTask reads again before the Executor, in order
  MaxTasks,        \* bound: task ids
  Prints,          \* the fingerprints each request may have
  Budgets          \* bound: how many disturbances of each kind may come together

Ids == 1..MaxTasks
Gates == {AdmissionGates[i] : i \in DOMAIN AdmissionGates}
           \cup {WorkerGates[i] : i \in DOMAIN WorkerGates}
\* Reads and writes of the store that throw, deaths of the API process,
\* reservation leases that run out, cancels, and gates that close.
Disturbances == {"read", "write", "crash", "expiry", "cancel", "withdraw"}
Terminal == {"succeeded", "failed", "timed_out", "cancelled"}

TaskAssumption ==
  /\ MaxTasks \in Nat
  /\ DOMAIN Prints = Reqs
  /\ AdmissionGates \in Seq(Gates) /\ WorkerGates \in Seq(Gates)
  /\ Budgets \subseteq [Disturbances -> Nat]

VARIABLES
  row,      \* cloud_task: id -> status, admitted (real input), fp
  keyRow,   \* the row the idempotency key is bound to, 0 if none
  resv,     \* usage reservation of every id
  rq,       \* POST handlers
  wk,       \* workers, one per handler that admitted
  cn,       \* cancel handlers
  closed,   \* gates that no longer let the task pass
  execs,    \* id -> requests sent to the Executor
  acked,    \* ids whose cancel was acknowledged by the worker's own process
  spent     \* how often each disturbance has happened

vars == <<row, keyRow, resv, rq, wk, cn, closed, execs, acked, spent>>

NoRow == [status |-> "absent", admitted |-> FALSE, fp |-> "none"]
IdleRequest == [pc |-> "idle", id |-> 0, k |-> 1, found |-> FALSE, fp |-> "none"]
IdleWorker == [pc |-> "none", id |-> 0, k |-> 0, open |-> TRUE, running |-> FALSE,
               outcome |-> "none", aborted |-> FALSE, closedAtClaim |-> {}]
IdleCancel == [pc |-> "idle", id |-> 0, local |-> FALSE]

Init ==
  /\ row = [i \in Ids |-> NoRow]
  /\ keyRow = 0
  /\ resv = [i \in Ids |-> "none"]
  /\ rq = [r \in Reqs |-> IdleRequest]
  /\ wk = [r \in Reqs |-> IdleWorker]
  /\ cn = [c \in Cancels |-> IdleCancel]
  /\ closed = {}
  /\ execs = [i \in Ids |-> 0]
  /\ acked = {}
  /\ spent = [d \in Disturbances |-> 0]

-----------------------------------------------------------------------------
(* The task store (pg-store.ts): every operation is one SQL statement       *)

Exists(i) == i # 0 /\ row[i].status \notin {"absent", "discarded"}
Staged(i) == Exists(i) /\ row[i].status = "pending" /\ ~row[i].admitted

\* DELETE ... WHERE status = 'pending' AND input = the placeholder
DiscardPendingTask(i) ==
  IF Staged(i)
    THEN row' = [row EXCEPT ![i].status = "discarded"] /\ keyRow' = 0
    ELSE UNCHANGED <<row, keyRow>>

\* Variant: the update does not look at the current status.
TransitionAnyStatus(i, from, to) ==
  row' = IF Exists(i) THEN [row EXCEPT ![i].status = to] ELSE row

\* UPDATE ... WHERE status = ANY(from)
TransitionIfStatus(i, from, to) ==
  row' = IF row[i].status \in from THEN [row EXCEPT ![i].status = to] ELSE row

\* releaseCloudSkillExecution; a lease that ran out stays run out
ReleaseReservation(i) ==
  resv' = IF resv[i] = "held" THEN [resv EXCEPT ![i] = "released"] ELSE resv

\* One more disturbance (a store call that throws, say), if the budgets of the model allow it.
Spend(kind) ==
  /\ spent' = [spent EXCEPT ![kind] = @ + 1]
  /\ \E b \in Budgets : \A k \in Disturbances : spent'[k] <= b[k]

-----------------------------------------------------------------------------
(* POST /v1/tasks                                                           *)

\* The handler goes on at pc; one that answered is forgotten.
RqGoto(r, pc) ==
  rq' = [rq EXCEPT ![r] = IF pc = "answered" THEN [IdleRequest EXCEPT !.pc = pc] ELSE [@ EXCEPT !.pc = pc]]

\* A client sends its request, or another one under the same key.
Post(r, fp) ==
  /\ rq[r].pc = "idle"
  /\ rq' = [rq EXCEPT ![r].pc = "find", ![r].fp = fp]
  /\ UNCHANGED <<row, keyRow, resv, wk, cn, closed, execs, acked, spent>>

\* The request may go on with the row its key is bound to: not a conflict
\* (another fingerprint) and not a replay (admitted, or cancelled while staged).
Resumable(r) == Staged(keyRow) /\ row[keyRow].fp = rq[r].fp

\* findTaskByIdempotency: replay an admitted task, resume a staged one.
FindTask(r) ==
  /\ rq[r].pc = "find"
  /\ \/ /\ keyRow = 0 \/ Resumable(r)
        /\ rq' = [rq EXCEPT ![r].pc = "gates", ![r].id = keyRow]
     \/ /\ keyRow # 0 /\ ~Resumable(r)
        /\ RqGoto(r, "answered")
  /\ UNCHANGED <<row, keyRow, resv, wk, cn, closed, execs, acked, spent>>

\* Feature Policy, plan, binding, account, subscription and release, in turn.
AdmissionGate(r) ==
  /\ rq[r].pc = "gates"
  /\ \/ /\ rq[r].k > Len(AdmissionGates)
        /\ RqGoto(r, IF rq[r].id = 0 THEN "create" ELSE "lookup")
     \/ /\ rq[r].k <= Len(AdmissionGates)
        /\ IF AdmissionGates[rq[r].k] \in closed
             THEN RqGoto(r, "answered")
             ELSE rq' = [rq EXCEPT ![r].k = @ + 1]
  /\ UNCHANGED <<row, keyRow, resv, wk, cn, closed, execs, acked, spent>>

\* INSERT ... ON CONFLICT DO NOTHING, else the row that is there.
CreateTask(r) ==
  /\ rq[r].pc = "create"
  /\ \/ /\ keyRow = 0
        /\ \E i \in Ids :
             /\ row[i] = NoRow /\ \A j \in 1..(i - 1) : row[j] # NoRow
             /\ row' = [row EXCEPT ![i] = [status |-> "pending", admitted |-> FALSE, fp |-> rq[r].fp]]
             /\ keyRow' = i
             /\ \/ rq' = [rq EXCEPT ![r].pc = "lookup", ![r].id = i] /\ UNCHANGED spent
                \/ RqGoto(r, "answered") /\ Spend("write")   \* appendEvent fails
     \/ /\ keyRow # 0
        /\ IF Resumable(r)
             THEN rq' = [rq EXCEPT ![r].pc = "lookup", ![r].id = keyRow]
             ELSE RqGoto(r, "answered")
        /\ UNCHANGED <<row, keyRow, spent>>
  /\ UNCHANGED <<resv, wk, cn, closed, execs, acked>>

\* reserveCloudSkillExecution looks the task up before it takes its locks ...
ReserveLookup(r) ==
  /\ rq[r].pc = "lookup"
  /\ rq' = [rq EXCEPT ![r].pc = "reserve", ![r].found = resv[rq[r].id] # "none"]
  /\ UNCHANGED <<row, keyRow, resv, wk, cn, closed, execs, acked, spent>>

\* ... and then admits, replays, refuses at a limit or fails (UsageAdmission).
Reserve(r) ==
  LET i == rq[r].id IN
  /\ rq[r].pc = "reserve"
  /\ \/ /\ resv' = IF resv[i] = "none" THEN [resv EXCEPT ![i] = "held"] ELSE resv
        /\ RqGoto(r, IF resv'[i] = "held" THEN "admit" ELSE "stale")
        /\ UNCHANGED spent
     \/ /\ ~rq[r].found
        /\ RqGoto(r, "discard")
        /\ UNCHANGED <<resv, spent>>
     \/ /\ Spend("write")
        /\ resv' \in {resv, IF resv[i] = "none" THEN [resv EXCEPT ![i] = "held"] ELSE resv}
        /\ RqGoto(r, "discard")
  /\ UNCHANGED <<row, keyRow, wk, cn, closed, execs, acked>>

\* The lease is gone, or the input CAS was lost: who owns the task?
Reread(r) ==
  LET i == rq[r].id IN
  /\ rq[r].pc \in {"stale", "lost"}
  /\ \/ /\ IF Exists(i) /\ row[i].admitted
             THEN RqGoto(r, "answered")
             ELSE RqGoto(r, IF rq[r].pc = "stale" THEN "undo" ELSE "release")
        /\ UNCHANGED spent
     \/ /\ Spend("read")
        /\ RqGoto(r, IF rq[r].pc = "stale" THEN "undo" ELSE "release")
  /\ UNCHANGED <<row, keyRow, resv, wk, cn, closed, execs, acked>>

\* Release the reservation; on the "undo" path the staged row goes as well.
HandlerRelease(r) ==
  /\ rq[r].pc \in {"undo", "release"}
  /\ \/ ReleaseReservation(rq[r].id) /\ UNCHANGED spent
     \/ Spend("write") /\ UNCHANGED resv                 \* swallowed
  /\ RqGoto(r, IF rq[r].pc = "undo" THEN "discard" ELSE "answered")
  /\ UNCHANGED <<row, keyRow, wk, cn, closed, execs, acked>>

Discard(r) ==
  /\ rq[r].pc = "discard"
  /\ \/ DiscardPendingTask(rq[r].id) /\ UNCHANGED spent
     \/ Spend("write") /\ UNCHANGED <<row, keyRow>>       \* swallowed
  /\ RqGoto(r, "answered")
  /\ UNCHANGED <<resv, wk, cn, closed, execs, acked>>

\* Variant: the input is written without comparing it with the placeholder.
AdmitUnconditionally(r) ==
  LET i == rq[r].id IN
  /\ rq[r].pc = "admit"
  /\ Exists(i)
  /\ row' = [row EXCEPT ![i].admitted = TRUE, ![i].status = "pending"]
  /\ wk' = [wk EXCEPT ![r] = [IdleWorker EXCEPT !.pc = "spawned", !.id = i]]
  /\ RqGoto(r, "answered")
  /\ UNCHANGED <<keyRow, resv, cn, closed, execs, acked, spent>>

\* admitPendingTaskInput: whoever replaces the placeholder starts the worker.
Admit(r) ==
  LET i == rq[r].id IN
  /\ rq[r].pc = "admit"
  /\ \/ /\ Staged(i)
        /\ row' = [row EXCEPT ![i].admitted = TRUE]
        /\ wk' = [wk EXCEPT ![r] = [IdleWorker EXCEPT !.pc = "spawned", !.id = i]]
        /\ RqGoto(r, "answered")
        /\ UNCHANGED spent
     \/ /\ ~Staged(i)
        /\ RqGoto(r, "lost")
        /\ UNCHANGED <<row, wk, spent>>
     \/ /\ Spend("write")
        /\ row' \in {row, IF Staged(i) THEN [row EXCEPT ![i].admitted = TRUE] ELSE row}
        /\ RqGoto(r, "undo")
        /\ UNCHANGED wk
  /\ UNCHANGED <<keyRow, resv, cn, closed, execs, acked>>

Request(r) ==
  \/ FindTask(r) \/ AdmissionGate(r) \/ CreateTask(r) \/ ReserveLookup(r) \/ Reserve(r)
  \/ Reread(r) \/ HandlerRelease(r) \/ Discard(r) \/ Admit(r)

-----------------------------------------------------------------------------
(* runTask                                                                  *)

\* The worker goes on at pc; one that ended is forgotten.
WkGoto(r, pc) ==
  wk' = [wk EXCEPT ![r] = IF pc = "done" THEN [IdleWorker EXCEPT !.pc = pc] ELSE [@ EXCEPT !.pc = pc]]
Close(r, pc, outcome) == wk' = [wk EXCEPT ![r].pc = pc, ![r].outcome = outcome]

\* The pending -> running CAS, or a throw that goes to the catch block.
Claim(r) ==
  LET i == wk[r].id IN
  /\ wk[r].pc = "spawned"
  /\ \/ /\ row[i].status = "pending"
        /\ TransitionIfStatus(i, {"pending"}, "running")
        /\ wk' = [wk EXCEPT ![r].pc = "claimed", ![r].closedAtClaim = closed]
        /\ UNCHANGED spent
     \/ /\ row[i].status # "pending"
        /\ WkGoto(r, "release")
        /\ UNCHANGED <<row, spent>>
     \/ /\ Spend("write")
        /\ \/ TransitionIfStatus(i, {"pending"}, "running")   \* the event's INSERT threw
           \/ UNCHANGED row
        /\ Close(r, "catch", "failed")
  /\ UNCHANGED <<keyRow, resv, rq, cn, closed, execs, acked>>

\* The worker resumes and registers its AbortController.
Register(r) ==
  /\ wk[r].pc = "claimed"
  /\ WkGoto(r, "check")
  /\ UNCHANGED <<row, keyRow, resv, rq, cn, closed, execs, acked, spent>>

\* Variant: a failed read ends the worker and leaves the task as it is.
ReadStatusAbandoning(r) ==
  /\ wk[r].pc = "check"
  /\ \/ /\ wk' = [wk EXCEPT ![r].pc = "decide",
                            ![r].running = row[wk[r].id].status = "running"]
        /\ UNCHANGED spent
     \/ /\ Spend("read")
        /\ WkGoto(r, "release")
  /\ UNCHANGED <<row, keyRow, resv, rq, cn, closed, execs, acked>>

\* stopIfNotRunning reads the row ...
ReadStatus(r) ==
  /\ wk[r].pc = "check"
  /\ \/ /\ wk' = [wk EXCEPT ![r].pc = "decide",
                            ![r].running = row[wk[r].id].status = "running"]
        /\ UNCHANGED spent
     \/ /\ Spend("read")
        /\ Close(r, "catch", "failed")
  /\ UNCHANGED <<row, keyRow, resv, rq, cn, closed, execs, acked>>

\* ... and, resumed, stops, fails the task on a closed gate, or goes on.
Decide(r) ==
  /\ wk[r].pc = "decide"
  /\ IF wk[r].aborted \/ ~wk[r].running THEN WkGoto(r, "release")
     ELSE IF ~wk[r].open THEN Close(r, "close", "failed")
     ELSE WkGoto(r, IF wk[r].k <= Len(WorkerGates) THEN "gate" ELSE "ready")
  /\ UNCHANGED <<row, keyRow, resv, rq, cn, closed, execs, acked, spent>>

\* Account, grant, policy, release and binding are read again, in turn; after
\* the last one the row is read once more.
ReadGate(r) ==
  /\ wk[r].pc = "gate"
  /\ \/ /\ wk' = [wk EXCEPT ![r].pc = "check", ![r].k = @ + 1,
                 ![r].open = \/ wk[r].k = Len(WorkerGates)
                             \/ WorkerGates[wk[r].k + 1] \notin closed]
        /\ UNCHANGED spent
     \/ /\ wk[r].k < Len(WorkerGates) /\ Spend("read")
        /\ Close(r, "catch", "failed")
  /\ UNCHANGED <<row, keyRow, resv, rq, cn, closed, execs, acked>>

\* The credential is issued and the request sent unless the signal is aborted.
StartCall(r) ==
  LET i == wk[r].id IN
  /\ wk[r].pc = "ready"
  /\ IF wk[r].aborted
       THEN WkGoto(r, "release") /\ UNCHANGED execs
       ELSE execs' = [execs EXCEPT ![i] = @ + 1] /\ WkGoto(r, "calling")
  /\ UNCHANGED <<row, keyRow, resv, rq, cn, closed, acked, spent>>

\* The Executor answers, or the request fails, times out or is aborted.
CallReturns(r) ==
  /\ wk[r].pc = "calling"
  /\ \/ ~wk[r].aborted /\ \E o \in {"succeeded", "failed"} : Close(r, "answer", o)
     \/ ~wk[r].aborted /\ Close(r, "close", "failed")      \* unusable response
     \/ ~wk[r].aborted /\ Close(r, "catch", "failed")      \* unreachable
     \/ Close(r, "catch", "timed_out")                     \* deadline or abort
  /\ UNCHANGED <<row, keyRow, resv, rq, cn, closed, execs, acked, spent>>

\* The row is read before the result is recorded.
ReadBeforeClose(r) ==
  /\ wk[r].pc = "answer"
  /\ \/ WkGoto(r, IF row[wk[r].id].status = "cancelled" THEN "release" ELSE "close")
        /\ UNCHANGED spent
     \/ Spend("read") /\ Close(r, "catch", "failed")
  /\ UNCHANGED <<row, keyRow, resv, rq, cn, closed, execs, acked>>

\* completeRunningTask; its throw runs the catch block, whose own is swallowed.
CloseTask(r) ==
  LET i == wk[r].id IN
  /\ wk[r].pc \in {"close", "catch"}
  /\ \/ /\ TransitionIfStatus(i, {"running"}, wk[r].outcome)
        /\ WkGoto(r, "release")
        /\ UNCHANGED spent
     \/ /\ Spend("write")
        /\ UNCHANGED row
        /\ IF wk[r].pc = "close" THEN Close(r, "catch", "failed") ELSE WkGoto(r, "release")
  /\ UNCHANGED <<keyRow, resv, rq, cn, closed, execs, acked>>

\* releaseReservation, then `finally` forgets the controller.
WorkerRelease(r) ==
  /\ wk[r].pc = "release"
  /\ \/ ReleaseReservation(wk[r].id) /\ UNCHANGED spent
     \/ Spend("write") /\ UNCHANGED resv                 \* swallowed
  /\ WkGoto(r, "done")
  /\ UNCHANGED <<row, keyRow, rq, cn, closed, execs, acked>>

Worker(r) ==
  \/ Claim(r) \/ Register(r) \/ ReadStatus(r) \/ Decide(r) \/ ReadGate(r) \/ StartCall(r)
  \/ CallReturns(r) \/ ReadBeforeClose(r) \/ CloseTask(r) \/ WorkerRelease(r)

-----------------------------------------------------------------------------
(* POST /v1/tasks/{id}/cancel                                               *)

\* The handler goes on at pc; one that answered is forgotten.
CnGoto(c, pc) ==
  cn' = [cn EXCEPT ![c] = IF pc = "answered" THEN [IdleCancel EXCEPT !.pc = pc] ELSE [@ EXCEPT !.pc = pc]]

\* The handler may run in the worker's process (local) or in another replica.
CancelRead(c, i, local) ==
  /\ cn[c].pc = "idle"
  /\ Exists(i)
  /\ Spend("cancel")
  /\ cn' = [cn EXCEPT ![c] = [pc |-> IF row[i].status \in {"pending", "running"} THEN "cas" ELSE "answered",
                              id |-> i, local |-> local]]
  /\ UNCHANGED <<row, keyRow, resv, rq, wk, closed, execs, acked>>

\* A throw may hide a committed CAS: the handler then aborts, frees the lease and
\* looks at the row before it goes on.
CancelCas(c) ==
  LET i == cn[c].id IN
  /\ cn[c].pc = "cas"
  /\ \/ /\ TransitionIfStatus(i, {"pending", "running"}, "cancelled")
        /\ CnGoto(c, IF row[i].status \in {"pending", "running"} THEN "abort" ELSE "answered")
        /\ UNCHANGED spent
     \/ /\ Spend("write")
        /\ \/ TransitionIfStatus(i, {"pending", "running"}, "cancelled")
           \/ UNCHANGED row
        /\ CnGoto(c, "thrown")
  /\ UNCHANGED <<keyRow, resv, rq, wk, closed, execs, acked>>

Registered(r) == wk[r].pc \notin {"none", "spawned", "claimed", "done"}

\* activeTaskControllers.get(task_id)?.abort(), after the CAS or after its throw
CancelAbort(c) ==
  /\ cn[c].pc \in {"thrown", "abort"}
  /\ wk' = [r \in Reqs |->
              IF cn[c].local /\ Registered(r) /\ wk[r].id = cn[c].id
                THEN [wk[r] EXCEPT !.aborted = TRUE] ELSE wk[r]]
  /\ CnGoto(c, IF cn[c].pc = "thrown" THEN "free" ELSE "release")
  /\ UNCHANGED <<row, keyRow, resv, rq, closed, execs, acked, spent>>

\* The lease is freed and the caller hears "cancelled".
CancelRelease(c) ==
  LET i == cn[c].id IN
  /\ cn[c].pc \in {"free", "release"}
  /\ \/ ReleaseReservation(i) /\ UNCHANGED spent
     \/ Spend("write") /\ UNCHANGED resv                 \* swallowed
  /\ CnGoto(c, IF cn[c].pc = "free" THEN "reread" ELSE "answered")
  /\ acked' = IF cn[c].pc = "release" /\ cn[c].local THEN acked \cup {i} ELSE acked
  /\ UNCHANGED <<row, keyRow, rq, wk, closed, execs>>

\* After a throw: a row that is cancelled is aborted and freed again, any other
\* answer of the store rethrows.
CancelReread(c) ==
  /\ cn[c].pc = "reread"
  /\ \/ CnGoto(c, IF row[cn[c].id].status = "cancelled" THEN "abort" ELSE "answered") /\ UNCHANGED spent
     \/ Spend("read") /\ CnGoto(c, "answered")
  /\ UNCHANGED <<row, keyRow, resv, rq, wk, closed, execs, acked>>

Cancel(c) == CancelCas(c) \/ CancelAbort(c) \/ CancelRelease(c) \/ CancelReread(c)

-----------------------------------------------------------------------------
(* The environment                                                          *)

\* A subscription, account, policy, release or binding is withdrawn.
CloseGate(g) ==
  /\ g \notin closed
  /\ Spend("withdraw")
  /\ closed' = closed \cup {g}
  /\ UNCHANGED <<row, keyRow, resv, rq, wk, cn, execs, acked>>

\* lease_expires_at passes.
Expire(i) ==
  /\ resv[i] = "held"
  /\ Spend("expiry")
  /\ resv' = [resv EXCEPT ![i] = "expired"]
  /\ UNCHANGED <<row, keyRow, rq, wk, cn, closed, execs, acked>>

\* The process dies with every handler, worker and controller; nothing restarts
\* them.  Every client may retry, also one whose answer was lost.
Crash ==
  /\ Spend("crash")
  /\ rq' = [r \in Reqs |-> IdleRequest]
  /\ wk' = [r \in Reqs |-> IF wk[r].pc = "none" THEN wk[r] ELSE [IdleWorker EXCEPT !.pc = "done"]]
  /\ cn' = [c \in Cancels |-> IF cn[c].pc = "idle" THEN cn[c] ELSE [IdleCancel EXCEPT !.pc = "answered"]]
  /\ UNCHANGED <<row, keyRow, resv, closed, execs, acked>>

Next ==
  \/ \E r \in Reqs : Request(r) \/ Worker(r) \/ \E fp \in Prints[r] : Post(r, fp)
  \/ \E c \in Cancels : Cancel(c) \/ \E i \in Ids, l \in BOOLEAN : CancelRead(c, i, l)
  \/ \E g \in Gates : CloseGate(g)
  \/ \E i \in Ids : Expire(i)
  \/ Crash

Spec == Init /\ [][Next]_vars

\* Every handler and worker that started goes on until it ends: promises settle
\* and the Executor call has a deadline.
FairSpec ==
  /\ Spec
  /\ \A r \in Reqs : WF_vars(Request(r)) /\ WF_vars(Worker(r))
  /\ \A c \in Cancels : WF_vars(Cancel(c))

-----------------------------------------------------------------------------
\* Every variable has its type, and the key is bound to a row that is there.
TypeOK ==
  /\ row \in [Ids -> [status: {"absent", "pending", "running", "discarded"} \cup Terminal,
                      admitted: BOOLEAN, fp: {"none"} \cup UNION {Prints[r] : r \in Reqs}]]
  /\ keyRow \in {0} \cup {i \in Ids : Exists(i)}
  /\ resv \in [Ids -> {"none", "held", "expired", "released"}]
  /\ closed \subseteq Gates
  /\ execs \in [Ids -> Nat]
  /\ acked \subseteq Ids

\* However often the request is retried, whichever replica serves it, and
\* wherever a process dies, the Executor hears of one idempotency key at most
\* once: the placeholder CAS picks one worker and an admitted row never goes.
ExecutedAtMostOnce ==
  \A i, j \in Ids : execs[i] <= 1 /\ (i # j => execs[i] = 0 \/ execs[j] = 0)

\* A finished task stays as it ended: no late answer, timeout, cancel or retry
\* overwrites it, and no row of an admitted task is deleted.
FinishedIsFinal ==
  [][\A i \in Ids : /\ row[i].status \in Terminal => row'[i].status = row[i].status
                    /\ row[i].admitted => row'[i].admitted /\ row'[i].status # "discarded"]_vars

\* The Executor is only called for metered tasks, and only if none of the gates
\* runTask reads again had been closed when the worker claimed the task.
CallIsAuthorised ==
  [][\A r \in Reqs : wk[r].pc = "ready" /\ wk'[r].pc = "calling" =>
       /\ resv[wk[r].id] # "none"
       /\ \A k \in DOMAIN WorkerGates : WorkerGates[k] \notin wk[r].closedAtClaim]_vars

\* Once the worker's own process has acknowledged a cancel, the Executor is not
\* called for that task any more.
CancelIsHeeded ==
  [][\A i \in acked : execs'[i] = execs[i]]_vars

\* A row that is executable (admitted) has been metered: usage is reserved
\* before the placeholder is replaced.
AdmittedIsMetered == \A i \in Ids : row[i].admitted => resv[i] # "none"

\* The store is well formed, no request, retry, throw or crash leaves an admitted
\* task that was never metered, and the Executor is called at most once.
TaskInv == TypeOK /\ AdmittedIsMetered /\ ExecutedAtMostOnce

\* Outcomes, acknowledged cancels and closed gates stand: no late write, retry or
\* call of runTask, of the handlers or of cancel goes behind them.
DecisionsStand == FinishedIsFinal /\ CancelIsHeeded /\ CallIsAuthorised

\* No write threw and no process died so far.
Undisturbed == spent["write"] = 0 /\ spent["crash"] = 0

\* An admitted task ends even if status or gate reads throw: they fail it
\* closed.  Nothing resumes it after a crash or a lost write.
AdmittedTaskEnds ==
  \A i \in Ids : row[i].admitted ~> (row[i].status \in Terminal \/ ~Undisturbed)

\* The concurrency lease is given back by a handler, the worker or a cancel,
\* without waiting for it to run out.
LeaseIsReturned ==
  \A i \in Ids : (resv[i] = "held") ~> (resv[i] # "held" \/ ~Undisturbed)

\* Nothing of a task is left hanging: it ends and its lease is given back.
TasksEnd == AdmittedTaskEnds /\ LeaseIsReturned
=============================================================================
