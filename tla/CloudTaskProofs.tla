---------------------------- MODULE CloudTaskProofs ----------------------------
(***************************************************************************)
(* The life of a task for any number of retries, cancels and gates, any    *)
(* number of throws, crashes and expired leases.  The argument: a key is   *)
(* bound to the one row that exists, an admitted row never goes, and the   *)
(* placeholder CAS that admits it makes its only worker; so at most one    *)
(* worker ever stands before the Executor with a key.  A worker that is    *)
(* about to call has read every gate since its claim, and one that a       *)
(* cancel could not abort has yet to read the cancelled row.               *)
(***************************************************************************)
EXTENDS CloudTask, TaskEvents, TLAPS

Fingerprints == {"none"} \cup UNION {Prints[r] : r \in Reqs}

Rows == [status: {"absent", "pending", "running", "discarded"} \cup Terminal,
         admitted: BOOLEAN, fp: Fingerprints]

Leases == {"none", "held", "expired", "released"}

\* The handler has a task in hand.
WithTask == {"lookup", "reserve", "admit", "stale", "discard", "undo", "lost", "release"}

RequestStates == [pc: {"idle", "find", "gates", "create", "answered"} \cup WithTask,
                  id: Ids \cup {0}, k: Nat, found: BOOLEAN, fp: Fingerprints]

\* The worker may still send its request to the Executor.
Preparing == {"spawned", "claimed", "check", "decide", "gate", "ready"}

WorkerStates == [pc: {"none", "calling", "answer", "close", "catch", "release", "done"} \cup Preparing,
                 id: Ids \cup {0}, k: Nat, open: BOOLEAN, running: BOOLEAN,
                 outcome: {"none", "succeeded", "failed", "timed_out"},
                 aborted: BOOLEAN, closedAtClaim: SUBSET Gates]

CancelStates == [pc: {"idle", "cas", "thrown", "abort", "free", "release", "reread", "answered"},
                 id: Ids \cup {0}, local: BOOLEAN]

\* The key is bound to the one row there is; admitted rows are there and metered.
StoreOK ==
  /\ row \in [Ids -> Rows] /\ keyRow \in Ids \cup {0} /\ resv \in [Ids -> Leases]
  /\ keyRow # 0 => Exists(keyRow)
  /\ \A i \in Ids : Exists(i) => keyRow = i
  /\ \A i \in Ids : row[i].admitted => Exists(i) /\ resv[i] # "none"

\* What a handler has in hand, and that it has not started a worker yet.
RequestFits(q) ==
  /\ q.pc \in WithTask => q.id \in Ids
  /\ q.pc = "admit" => resv[q.id] # "none"

RequestKnows(r) == RequestFits(rq[r]) /\ (rq[r].pc # "answered" => wk[r].pc \in {"none", "done"})

\* A worker's task is admitted and, up to the call, unknown to the Executor.
WorkerFits(w) ==
  w.pc \notin {"none", "done"} =>
    /\ w.id \in Ids /\ row[w.id].admitted
    /\ w.pc \in Preparing => execs[w.id] = 0
    /\ w.pc \in {"answer", "close", "catch"} => w.outcome # "none"

\* The gates read so far were open when the task was claimed.
GatesRead(w) ==
  /\ w.pc = "spawned" => w.k = 0 /\ w.open
  /\ w.pc \in Preparing \ {"spawned"} =>
       /\ w.closedAtClaim \subseteq closed
       /\ \A j \in DOMAIN WorkerGates : j < w.k \/ (j = w.k /\ w.open) => WorkerGates[j] \notin w.closedAtClaim
  /\ w.pc = "gate" => w.open /\ w.k <= Len(WorkerGates)
  /\ w.pc = "ready" => w.open /\ w.k > Len(WorkerGates)

OneWorker ==
  \A r, s \in Reqs : r # s /\ wk[r].pc \notin {"none", "done"} /\ wk[s].pc \notin {"none", "done"} =>
    wk[r].id # wk[s].id

\* A worker that will not call the Executor once its row is cancelled.
Calm(w) == (w.pc = "decide" => w.aborted \/ ~w.running) /\ (w.pc = "ready" => w.aborted)

Heeded(i) == row[i].status = "cancelled" /\ \A r \in Reqs : wk[r].id = i => Calm(wk[r])

CancelKnows(c) ==
  /\ cn[c].pc \notin {"idle", "answered"} => cn[c].id \in Ids
  /\ cn[c].pc \in {"abort", "release"} => row[cn[c].id].status = "cancelled"
  /\ cn[c].pc = "release" /\ cn[c].local => Heeded(cn[c].id)

\* The Executor hears of a task at most once, and only of admitted ones.
CallsCounted ==
  /\ execs \in [Ids -> Nat]
  /\ \A i \in Ids : execs[i] <= 1 /\ (execs[i] # 0 => row[i].admitted)

\* The inductive invariant: the store, and what each request, worker and cancel knows of it.
TaskIInv ==
  /\ StoreOK
  /\ rq \in [Reqs -> RequestStates] /\ \A r \in Reqs : RequestKnows(r)
  /\ wk \in [Reqs -> WorkerStates] /\ \A r \in Reqs : WorkerFits(wk[r]) /\ GatesRead(wk[r])
  /\ OneWorker
  /\ cn \in [Cancels -> CancelStates] /\ \A c \in Cancels : CancelKnows(c)
  /\ closed \subseteq Gates
  /\ CallsCounted
  /\ acked \subseteq Ids /\ \A i \in acked : Heeded(i)

\* Outcomes, admissions and reservations are never taken back.
StoreGrows ==
  \A i \in Ids : /\ row[i].status \in Terminal => row'[i].status = row[i].status
                 /\ row[i].admitted => row'[i].admitted
                 /\ resv[i] # "none" => resv'[i] # "none"

-----------------------------------------------------------------------------
(* What a step may do to the store                                          *)

\* Before the first request the store is empty.
LEMMA InitIInv == ASSUME TaskAssumption, Init PROVE TaskIInv
<1>1. NoRow \in Rows /\ IdleRequest \in RequestStates /\ IdleWorker \in WorkerStates /\ IdleCancel \in CancelStates
  BY DEF NoRow, IdleRequest, IdleWorker, IdleCancel, Rows, RequestStates, WorkerStates, CancelStates, Fingerprints
<1>2. StoreOK
  BY <1>1 DEF Init, StoreOK, Leases, Exists, NoRow
<1>3. rq \in [Reqs -> RequestStates] /\ \A r \in Reqs : RequestKnows(r)
  BY <1>1 DEF Init, RequestKnows, RequestFits, IdleRequest, IdleWorker, WithTask
<1>4. wk \in [Reqs -> WorkerStates] /\ (\A r \in Reqs : WorkerFits(wk[r]) /\ GatesRead(wk[r])) /\ OneWorker
  BY <1>1 DEF Init, WorkerFits, GatesRead, OneWorker, IdleWorker, Preparing
<1>5. cn \in [Cancels -> CancelStates] /\ \A c \in Cancels : CancelKnows(c)
  BY <1>1 DEF Init, CancelKnows, IdleCancel
<1> QED
  BY <1>2, <1>3, <1>4, <1>5 DEF Init, TaskIInv, CallsCounted

\* Steps that leave rows and reservations alone.
LEMMA StoreStill ==
  ASSUME TaskIInv, UNCHANGED <<row, keyRow, resv>>
  PROVE  StoreOK' /\ StoreGrows
BY DEF TaskIInv, StoreOK, StoreGrows, Exists

\* A reservation is taken, released or runs out.
LEMMA LeaseMoves ==
  ASSUME TaskIInv, NEW i \in Ids, NEW s \in Leases \ {"none"},
         resv' = [resv EXCEPT ![i] = s], UNCHANGED <<row, keyRow>>
  PROVE  StoreOK' /\ StoreGrows
BY DEF TaskIInv, StoreOK, StoreGrows, Exists, Leases

\* releaseCloudSkillExecution.
LEMMA ReleaseMoves ==
  ASSUME TaskIInv, NEW i \in Ids, ReleaseReservation(i), UNCHANGED <<row, keyRow>>
  PROVE  StoreOK' /\ StoreGrows
BY StoreStill, LeaseMoves DEF ReleaseReservation, Leases

\* A row changes its status, and nothing else of it.
LEMMA StatusMoves ==
  ASSUME TaskIInv, NEW i \in Ids, NEW s \in {"running"} \cup Terminal, row[i].status \in {"pending", "running"},
         row' = [row EXCEPT ![i].status = s], UNCHANGED <<keyRow, resv>>
  PROVE  StoreOK' /\ StoreGrows
<1>1. row \in [Ids -> Rows]
  BY DEF TaskIInv, StoreOK
<1>2. row[i] \in Rows
  BY <1>1
<1>3. row'[i] \in Rows /\ row'[i].status = s /\ row'[i].admitted = row[i].admitted
  BY <1>1, <1>2 DEF Rows
<1>4. \A j \in Ids \ {i} : row'[j] = row[j]
  BY <1>1
<1>5. row' \in [Ids -> Rows]
  BY <1>1, <1>3, <1>4
<1>6. \A j \in Ids : Exists(j)' <=> Exists(j)
  BY <1>3, <1>4 DEF Exists, Terminal
<1>7. StoreOK'
  BY <1>3, <1>4, <1>5, <1>6 DEF TaskIInv, StoreOK
<1> QED
  BY <1>3, <1>4, <1>7 DEF StoreGrows, Terminal

\* UPDATE ... WHERE status = ANY(from), from statuses that are not final.
LEMMA TransitionMoves ==
  ASSUME TaskIInv, NEW i \in Ids, NEW from \in SUBSET {"pending", "running"}, NEW s \in {"running"} \cup Terminal,
         TransitionIfStatus(i, from, s), UNCHANGED <<keyRow, resv>>
  PROVE  StoreOK' /\ StoreGrows
BY StoreStill, StatusMoves DEF TransitionIfStatus

\* The first row of the key, or the next one after the staged row was discarded.
LEMMA CreateMoves ==
  ASSUME TaskIInv, NEW i \in Ids, NEW f \in Fingerprints, keyRow = 0, row[i] = NoRow,
         row' = [row EXCEPT ![i] = [status |-> "pending", admitted |-> FALSE, fp |-> f]],
         keyRow' = i, UNCHANGED resv
  PROVE  StoreOK' /\ StoreGrows
<1> DEFINE x == [status |-> "pending", admitted |-> FALSE, fp |-> f]
<1>1. x \in Rows /\ x.status = "pending" /\ ~x.admitted
  BY DEF Rows
<1>2. row' = [row EXCEPT ![i] = x]
  OBVIOUS
<1> HIDE DEF x
<1>3. row'[i] = x /\ \A j \in Ids \ {i} : row'[j] = row[j]
  BY <1>2 DEF TaskIInv, StoreOK
<1>4. row' \in [Ids -> Rows]
  BY <1>1, <1>2 DEF TaskIInv, StoreOK
<1>5. i # 0 /\ \A j \in Ids : ~Exists(j)
  BY DEF TaskIInv, StoreOK, Ids
<1>6. \A j \in Ids : Exists(j)' => j = i
  BY <1>3, <1>5 DEF Exists
<1>7. Exists(i)'
  BY <1>1, <1>3, <1>5 DEF Exists
<1>8. \A j \in Ids : row'[j].admitted => row[j].admitted
  BY <1>1, <1>3
<1>9. StoreOK'
  <2>1. (\A j \in Ids : Exists(j) => keyRow = j)'
    BY <1>6
  <2>2. (keyRow # 0 => Exists(keyRow))'
    BY <1>7 DEF Exists
  <2>3. (\A j \in Ids : row[j].admitted => Exists(j) /\ resv[j] # "none")'
    BY <1>5, <1>8 DEF TaskIInv, StoreOK
  <2> QED
    BY <1>4, <2>1, <2>2, <2>3 DEF TaskIInv, StoreOK
<1> QED
  BY <1>3, <1>9 DEF StoreGrows, NoRow, Terminal

\* A staged row goes, and the key with it.
LEMMA DiscardMoves ==
  ASSUME TaskAssumption, TaskIInv, NEW i \in Ids, DiscardPendingTask(i), UNCHANGED resv
  PROVE  StoreOK' /\ StoreGrows
<1>1. CASE ~Staged(i)
  BY <1>1, StoreStill DEF DiscardPendingTask
<1>2. CASE Staged(i)
  <2>1. row \in [Ids -> Rows] /\ row[i] \in Rows
    BY DEF TaskIInv, StoreOK
  <2>2. row' = [row EXCEPT ![i].status = "discarded"] /\ keyRow' = 0
    BY <1>2 DEF DiscardPendingTask
  <2>3. row'[i] \in Rows /\ row'[i].status = "discarded" /\ row'[i].admitted = row[i].admitted
    BY <2>1, <2>2 DEF Rows
  <2>4. \A j \in Ids \ {i} : row'[j] = row[j]
    BY <2>1, <2>2
  <2>5. row' \in [Ids -> Rows]
    BY <2>1, <2>2, <2>3, <2>4
  <2>6. ~row[i].admitted /\ row[i].status = "pending" /\ keyRow = i
    BY <1>2 DEF Staged, TaskIInv, StoreOK
  <2>7. \A j \in Ids : Exists(j)' => Exists(j) /\ j # i
    BY <2>3, <2>4 DEF Exists
  <2>8. \A j \in Ids : ~Exists(j)'
    BY <2>6, <2>7 DEF TaskIInv, StoreOK
  <2>9. \A j \in Ids : ~row'[j].admitted
    <3>1. \A j \in Ids \ {i} : ~row[j].admitted
      BY <2>6 DEF TaskIInv, StoreOK
    <3> QED
      BY <2>3, <2>4, <2>6, <3>1
  <2>10. StoreOK'
    BY <2>2, <2>5, <2>8, <2>9 DEF TaskIInv, StoreOK
  <2> QED
    BY <2>3, <2>4, <2>6, <2>10 DEF StoreGrows, Terminal
<1> QED
  BY <1>1, <1>2

\* The placeholder CAS.
LEMMA AdmitMoves ==
  ASSUME TaskIInv, NEW i \in Ids, Staged(i), resv[i] # "none",
         row' = [row EXCEPT ![i].admitted = TRUE], UNCHANGED <<keyRow, resv>>
  PROVE  /\ StoreOK' /\ StoreGrows /\ row'[i].admitted
         /\ \A j \in Ids \ {i} : row'[j] = row[j]
<1>1. row \in [Ids -> Rows] /\ row[i] \in Rows
  BY DEF TaskIInv, StoreOK
<1>2. row'[i] \in Rows /\ row'[i].status = row[i].status /\ row'[i].admitted
  BY <1>1 DEF Rows
<1>3. \A j \in Ids \ {i} : row'[j] = row[j]
  BY <1>1
<1>4. row' \in [Ids -> Rows]
  BY <1>1, <1>2, <1>3
<1>5. \A j \in Ids : Exists(j)' <=> Exists(j)
  BY <1>2, <1>3 DEF Exists
<1>6. StoreOK'
  BY <1>2, <1>3, <1>4, <1>5 DEF TaskIInv, StoreOK, Staged
<1> QED
  BY <1>2, <1>3, <1>6 DEF StoreGrows

-----------------------------------------------------------------------------
(* What a step may do to handlers and workers                               *)

\* What workers and cancels rely on in the store survives a step of the store.
LEMMA KnowledgeLasts ==
  ASSUME TaskIInv, StoreOK', StoreGrows, UNCHANGED <<wk, closed, execs, acked>>
  PROVE  /\ wk' \in [Reqs -> WorkerStates]
         /\ \A r \in Reqs : WorkerFits(wk[r])' /\ GatesRead(wk[r])'
         /\ OneWorker' /\ (closed \subseteq Gates)' /\ CallsCounted'
         /\ (acked \subseteq Ids)' /\ \A i \in Ids : Heeded(i) => Heeded(i)'
         /\ \A i \in acked' : Heeded(i)'
<1>1. \A i \in Ids : Heeded(i) => Heeded(i)'
  BY DEF Heeded, StoreGrows, Terminal
<1>2. \A r \in Reqs : WorkerFits(wk[r])'
  BY DEF TaskIInv, WorkerFits, StoreGrows
<1>3. CallsCounted'
  BY DEF TaskIInv, CallsCounted, StoreGrows
<1> QED
  BY <1>1, <1>2, <1>3 DEF TaskIInv, GatesRead, OneWorker

\* A handler moves on, whatever it did to the store.
LEMMA RequestStep ==
  ASSUME TaskIInv, StoreOK', StoreGrows, UNCHANGED <<wk, cn, closed, execs, acked>>,
         NEW r \in Reqs, rq[r].pc # "answered", NEW x \in RequestStates,
         rq' = [rq EXCEPT ![r] = x], x.pc \in WithTask => x.id \in Ids, x.pc = "admit" => resv'[x.id] # "none"
  PROVE  TaskIInv'
<1>1. rq' \in [Reqs -> RequestStates] /\ rq'[r] = x /\ \A s \in Reqs \ {r} : rq'[s] = rq[s]
  BY DEF TaskIInv
<1>2. ASSUME NEW s \in Reqs PROVE RequestKnows(s)'
  <2>1. CASE s = r
    BY <1>1, <2>1 DEF TaskIInv, RequestKnows, RequestFits
  <2>2. CASE s # r
    BY <1>1, <2>2 DEF TaskIInv, RequestKnows, RequestFits, StoreGrows, WithTask
  <2> QED
    BY <2>1, <2>2
<1>3. ASSUME NEW c \in Cancels PROVE CancelKnows(c)'
  BY KnowledgeLasts DEF TaskIInv, CancelKnows, StoreGrows, Terminal
<1> QED
  BY <1>1, <1>2, <1>3, KnowledgeLasts DEF TaskIInv

\* A handler moves on and leaves the store alone.
LEMMA RequestOnly ==
  ASSUME TaskIInv, UNCHANGED <<row, keyRow, resv, wk, cn, closed, execs, acked>>,
         NEW r \in Reqs, rq[r].pc # "answered", NEW x \in RequestStates,
         rq' = [rq EXCEPT ![r] = x], x.pc \in WithTask => x.id \in Ids, x.pc = "admit" => resv[x.id] # "none"
  PROVE  TaskIInv' /\ StoreGrows
<1>1. StoreOK' /\ StoreGrows
  BY StoreStill
<1> QED
  BY <1>1, RequestStep

\* RqGoto to a place that needs no more than the handler has.
LEMMA GotoStep ==
  ASSUME TaskIInv, StoreOK', StoreGrows, UNCHANGED <<wk, cn, closed, execs, acked>>,
         NEW r \in Reqs, rq[r].pc # "answered", NEW where \in {"answered", "create"} \cup WithTask,
         RqGoto(r, where), where \in WithTask => rq[r].id \in Ids,
         where = "admit" => resv'[rq[r].id] # "none"
  PROVE  TaskIInv'
<1> DEFINE q == rq[r]
           x == IF where = "answered" THEN [IdleRequest EXCEPT !.pc = where] ELSE [q EXCEPT !.pc = where]
<1>1. q \in RequestStates
  BY DEF TaskIInv
<1>2. rq' = [rq EXCEPT ![r] = x]
  BY DEF RqGoto
<1> HIDE DEF q
<1>3. x \in RequestStates
  BY <1>1 DEF RequestStates, IdleRequest, Fingerprints
<1>4. x.pc = where /\ (where # "answered" => x.id = q.id)
  BY <1>1 DEF RequestStates, IdleRequest
<1> HIDE DEF x
<1> QED
  BY <1>2, <1>3, <1>4, RequestStep DEF q, WithTask

\* Steps of a handler that do not touch the store.
LEMMA GotoOnly ==
  ASSUME TaskIInv, UNCHANGED <<row, keyRow, resv, wk, cn, closed, execs, acked>>,
         NEW r \in Reqs, rq[r].pc # "answered", NEW where \in {"answered", "create"} \cup WithTask,
         RqGoto(r, where), where \in WithTask => rq[r].id \in Ids,
         where = "admit" => resv[rq[r].id] # "none"
  PROVE  TaskIInv' /\ StoreGrows
<1>1. StoreOK' /\ StoreGrows
  BY StoreStill
<1> QED
  BY <1>1, GotoStep

-----------------------------------------------------------------------------
(* POST /v1/tasks                                                           *)

\* The handler has a task in hand wherever it needs one.
LEMMA TaskInHand ==
  ASSUME TaskIInv, NEW r \in Reqs, rq[r].pc \in WithTask
  PROVE  rq[r].id \in Ids /\ rq[r].pc # "answered"
BY DEF TaskIInv, RequestKnows, RequestFits, WithTask

\* Post: nothing is in hand yet.
LEMMA PostKeeps ==
  ASSUME TaskAssumption, TaskIInv, NEW r \in Reqs, NEW fp \in Prints[r], Post(r, fp)
  PROVE  TaskIInv' /\ StoreGrows
<1> DEFINE q == rq[r]
           x == [q EXCEPT !.pc = "find", !.fp = fp]
<1>1. q \in RequestStates /\ q.pc = "idle" /\ fp \in Fingerprints
  BY DEF TaskIInv, Post, Fingerprints
<1>2. rq' = [rq EXCEPT ![r] = x]
  BY <1>1 DEF Post, TaskIInv
<1> HIDE DEF q
<1>3. x \in RequestStates
  BY <1>1 DEF RequestStates
<1>4. x.pc = "find"
  BY <1>1 DEF RequestStates
<1> HIDE DEF x
<1>5. rq[r].pc = "idle" /\ "find" \notin WithTask
  BY <1>1 DEF q, WithTask
<1> QED
  BY <1>2, <1>3, <1>4, <1>5, RequestOnly DEF Post, WithTask

\* findTaskByIdempotency: the staged row is resumed, or the request is over.
LEMMA FindTaskKeeps ==
  ASSUME TaskIInv, NEW r \in Reqs, FindTask(r)
  PROVE  TaskIInv' /\ StoreGrows
<1>1. rq[r].pc = "find" /\ UNCHANGED <<row, keyRow, resv, wk, cn, closed, execs, acked>>
  BY DEF FindTask
<1>2. CASE RqGoto(r, "answered")
  BY <1>1, <1>2, GotoOnly DEF WithTask
<1>3. CASE rq' = [rq EXCEPT ![r].pc = "gates", ![r].id = keyRow]
  <2> DEFINE q == rq[r]
             x == [q EXCEPT !.pc = "gates", !.id = keyRow]
  <2>1. q \in RequestStates /\ keyRow \in Ids \cup {0}
    BY DEF TaskIInv, StoreOK
  <2>2. rq' = [rq EXCEPT ![r] = x]
    BY <1>3 DEF TaskIInv
  <2> HIDE DEF q
  <2>3. x \in RequestStates
    BY <2>1 DEF RequestStates
  <2>4. x.pc = "gates"
    BY <2>1 DEF RequestStates
  <2> HIDE DEF x
  <2> QED
    BY <1>1, <2>2, <2>3, <2>4, RequestOnly DEF WithTask
<1> QED
  BY <1>2, <1>3 DEF FindTask

\* The gates of admission are read; after the last one the row is created or resumed.
LEMMA AdmissionGateKeeps ==
  ASSUME TaskIInv, NEW r \in Reqs, AdmissionGate(r)
  PROVE  TaskIInv' /\ StoreGrows
<1>1. rq[r].pc = "gates" /\ UNCHANGED <<row, keyRow, resv, wk, cn, closed, execs, acked>>
  BY DEF AdmissionGate
<1>2. CASE RqGoto(r, IF rq[r].id = 0 THEN "create" ELSE "lookup")
  <2>1. rq[r].id \in Ids \cup {0}
    BY DEF TaskIInv, RequestStates
  <2> QED
    BY <1>1, <1>2, <2>1, GotoOnly DEF WithTask
<1>3. CASE RqGoto(r, "answered")
  BY <1>1, <1>3, GotoOnly DEF WithTask
<1>4. CASE rq' = [rq EXCEPT ![r].k = @ + 1]
  <2> DEFINE q == rq[r]
             x == [q EXCEPT !.k = @ + 1]
  <2>1. q \in RequestStates
    BY DEF TaskIInv
  <2>2. rq' = [rq EXCEPT ![r] = x]
    BY <1>4 DEF TaskIInv
  <2> HIDE DEF q
  <2>3. x \in RequestStates
    BY <2>1 DEF RequestStates
  <2>4. x.pc = q.pc
    BY <2>1 DEF RequestStates
  <2> HIDE DEF x
  <2> QED
    BY <1>1, <2>2, <2>3, <2>4, RequestOnly DEF q, WithTask
<1> QED
  BY <1>2, <1>3, <1>4 DEF AdmissionGate

\* A handler takes the row i that it created or found.
LEMMA TakeTask ==
  ASSUME TaskIInv, NEW r \in Reqs, rq[r].pc = "create", NEW i \in Ids,
         rq' = [rq EXCEPT ![r].pc = "lookup", ![r].id = i],
         StoreOK', StoreGrows, UNCHANGED <<wk, cn, closed, execs, acked>>
  PROVE  TaskIInv'
<1> DEFINE q == rq[r]
           x == [q EXCEPT !.pc = "lookup", !.id = i]
<1>1. q \in RequestStates
  BY DEF TaskIInv
<1>2. rq' = [rq EXCEPT ![r] = x]
  BY DEF TaskIInv
<1> HIDE DEF q
<1>3. x \in RequestStates
  BY <1>1 DEF RequestStates, WithTask
<1>4. x.pc = "lookup" /\ x.id = i
  BY <1>1 DEF RequestStates
<1> HIDE DEF x
<1> QED
  BY <1>2, <1>3, <1>4, RequestStep DEF WithTask

\* createTask: a new row binds the key, a row that is there is resumed.
LEMMA CreateTaskKeeps ==
  ASSUME TaskIInv, NEW r \in Reqs, CreateTask(r)
  PROVE  TaskIInv' /\ StoreGrows
<1>1. rq[r].pc = "create" /\ UNCHANGED <<resv, wk, cn, closed, execs, acked>>
  BY DEF CreateTask
<1>2. ASSUME keyRow = 0, NEW i \in Ids, row[i] = NoRow, keyRow' = i,
             row' = [row EXCEPT ![i] = [status |-> "pending", admitted |-> FALSE, fp |-> rq[r].fp]],
             \/ rq' = [rq EXCEPT ![r].pc = "lookup", ![r].id = i]
             \/ RqGoto(r, "answered")
      PROVE  TaskIInv' /\ StoreGrows
  <2>1. rq[r].fp \in Fingerprints
    BY DEF TaskIInv, RequestStates
  <2>2. StoreOK' /\ StoreGrows
    BY <1>1, <1>2, <2>1, CreateMoves
  <2> QED
    BY <1>1, <1>2, <2>2, TakeTask, GotoStep DEF WithTask
<1>3. CASE keyRow # 0 /\ RqGoto(r, "answered") /\ UNCHANGED <<row, keyRow>>
  BY <1>1, <1>3, GotoOnly DEF WithTask
<1>4. CASE keyRow # 0 /\ rq' = [rq EXCEPT ![r].pc = "lookup", ![r].id = keyRow] /\ UNCHANGED <<row, keyRow>>
  <2>1. keyRow \in Ids
    BY <1>4 DEF TaskIInv, StoreOK
  <2>2. StoreOK' /\ StoreGrows
    BY <1>1, <1>4, StoreStill
  <2> QED
    BY <1>1, <1>4, <2>1, <2>2, TakeTask
<1> QED
  BY <1>2, <1>3, <1>4 DEF CreateTask

\* The reservation is looked up before its locks are taken.
LEMMA ReserveLookupKeeps ==
  ASSUME TaskIInv, NEW r \in Reqs, ReserveLookup(r)
  PROVE  TaskIInv' /\ StoreGrows
<1> DEFINE q == rq[r]
           b == resv[rq[r].id] # "none"
           x == [q EXCEPT !.pc = "reserve", !.found = b]
<1>1. q \in RequestStates /\ q.pc = "lookup" /\ q.id \in Ids
  BY TaskInHand DEF TaskIInv, ReserveLookup, WithTask
<1>2. rq' = [rq EXCEPT ![r] = x]
  BY DEF TaskIInv, ReserveLookup
<1>3. b \in BOOLEAN
  OBVIOUS
<1> HIDE DEF q, b
<1>4. x \in RequestStates
  BY <1>1, <1>3 DEF RequestStates, WithTask
<1>5. x.pc = "reserve" /\ x.id = q.id
  BY <1>1 DEF RequestStates
<1> HIDE DEF x
<1> QED
  BY <1>1, <1>2, <1>4, <1>5, RequestOnly DEF q, ReserveLookup

\* A handler goes on to admit only with a reservation it holds.
LEMMA ReserveKeeps ==
  ASSUME TaskIInv, NEW r \in Reqs, Reserve(r)
  PROVE  TaskIInv' /\ StoreGrows
<1> DEFINE i == rq[r].id
<1>1. rq[r].pc = "reserve" /\ i \in Ids /\ UNCHANGED <<row, keyRow, wk, cn, closed, execs, acked>>
  BY TaskInHand DEF Reserve, WithTask
<1>2. resv' = resv \/ resv' = [resv EXCEPT ![i] = "held"]
  BY DEF Reserve
<1>3. StoreOK' /\ StoreGrows
  BY <1>1, <1>2, StoreStill, LeaseMoves DEF Leases
<1>4. CASE RqGoto(r, IF resv'[i] = "held" THEN "admit" ELSE "stale")
  BY <1>1, <1>3, <1>4, GotoStep DEF WithTask
<1>5. CASE RqGoto(r, "discard")
  BY <1>1, <1>3, <1>5, GotoStep DEF WithTask
<1> QED
  BY <1>3, <1>4, <1>5 DEF Reserve

\* Whoever owns the task, the handler that lost it writes nothing.
LEMMA RereadKeeps ==
  ASSUME TaskIInv, NEW r \in Reqs, Reread(r)
  PROVE  TaskIInv' /\ StoreGrows
<1>1. rq[r].id \in Ids /\ rq[r].pc # "answered" /\ UNCHANGED <<row, keyRow, resv, wk, cn, closed, execs, acked>>
  BY TaskInHand DEF Reread, WithTask
<1>2. RqGoto(r, "answered") \/ RqGoto(r, "undo") \/ RqGoto(r, "release")
  BY DEF Reread
<1> QED
  BY <1>1, <1>2, GotoOnly DEF WithTask

\* A handler frees the lease of a task it could not admit.
LEMMA HandlerReleaseKeeps ==
  ASSUME TaskIInv, NEW r \in Reqs, HandlerRelease(r)
  PROVE  TaskIInv' /\ StoreGrows
<1>1. rq[r].id \in Ids /\ rq[r].pc # "answered" /\ UNCHANGED <<row, keyRow, wk, cn, closed, execs, acked>>
  BY TaskInHand DEF HandlerRelease, WithTask
<1>2. StoreOK' /\ StoreGrows
  BY <1>1, StoreStill, ReleaseMoves DEF HandlerRelease
<1>3. RqGoto(r, "answered") \/ RqGoto(r, "discard")
  BY DEF HandlerRelease
<1> QED
  BY <1>1, <1>2, <1>3, GotoStep DEF WithTask

\* Only a staged row is deleted.
LEMMA DiscardKeeps ==
  ASSUME TaskAssumption, TaskIInv, NEW r \in Reqs, Discard(r)
  PROVE  TaskIInv' /\ StoreGrows
<1>1. rq[r].id \in Ids /\ rq[r].pc # "answered" /\ UNCHANGED <<resv, wk, cn, closed, execs, acked>>
  BY TaskInHand DEF Discard, WithTask
<1>2. StoreOK' /\ StoreGrows
  BY <1>1, StoreStill, DiscardMoves DEF Discard
<1> QED
  BY <1>1, <1>2, GotoStep DEF Discard, WithTask

\* The CAS makes the only worker of the task: nobody else has it, and the Executor
\* has not heard of it.
LEMMA SpawnStep ==
  ASSUME TaskIInv, NEW r \in Reqs, rq[r].pc = "admit", NEW i \in Ids, rq[r].id = i, Staged(i),
         row' = [row EXCEPT ![i].admitted = TRUE], RqGoto(r, "answered"),
         NEW x \in WorkerStates, wk' = [wk EXCEPT ![r] = x],
         x.pc = "spawned", x.id = i, x.k = 0, x.open,
         UNCHANGED <<keyRow, resv, cn, closed, execs, acked>>
  PROVE  TaskIInv' /\ StoreGrows
<1>1. resv[i] # "none" /\ wk[r].pc \in {"none", "done"}
  BY DEF TaskIInv, RequestKnows, RequestFits
<1>2. StoreOK' /\ StoreGrows /\ row'[i].admitted /\ \A j \in Ids \ {i} : row'[j] = row[j]
  BY <1>1, AdmitMoves
<1>3. ~row[i].admitted /\ row[i].status = "pending"
  BY DEF Staged
<1>4. wk' \in [Reqs -> WorkerStates] /\ wk'[r] = x /\ \A s \in Reqs \ {r} : wk'[s] = wk[s]
  BY DEF TaskIInv
<1>5. execs[i] = 0
  BY <1>3 DEF TaskIInv, CallsCounted
<1>6. ASSUME NEW s \in Reqs PROVE WorkerFits(wk[s])' /\ GatesRead(wk[s])'
  <2>1. CASE s = r
    BY <1>2, <1>4, <1>5, <2>1 DEF WorkerFits, GatesRead, Preparing
  <2>2. CASE s # r
    BY <1>2, <1>4, <2>2 DEF TaskIInv, WorkerFits, GatesRead, StoreGrows
  <2> QED
    BY <2>1, <2>2
<1>7. OneWorker'
  <2>1. \A s \in Reqs \ {r} : wk[s].pc \notin {"none", "done"} => wk[s].id # i
    BY <1>3 DEF TaskIInv, WorkerFits
  <2> QED
    BY <1>4, <2>1 DEF TaskIInv, OneWorker
<1>8. \A j \in Ids : Heeded(j) => Heeded(j)'
  <2> SUFFICES ASSUME NEW j \in Ids, Heeded(j) PROVE Heeded(j)'
    OBVIOUS
  <2>1. row'[j].status = "cancelled"
    BY <1>2 DEF Heeded, StoreGrows, Terminal
  <2>2. Calm(x)
    BY DEF Calm
  <2> QED
    BY <1>4, <2>1, <2>2 DEF Heeded, Calm
<1>9. rq' \in [Reqs -> RequestStates] /\ rq'[r].pc = "answered" /\ \A s \in Reqs \ {r} : rq'[s] = rq[s]
  <2>1. [IdleRequest EXCEPT !.pc = "answered"] \in RequestStates
    BY DEF RequestStates, IdleRequest, Fingerprints
  <2>2. [IdleRequest EXCEPT !.pc = "answered"].pc = "answered"
    BY DEF IdleRequest
  <2> QED
    BY <2>1, <2>2 DEF TaskIInv, RqGoto
<1>10. ASSUME NEW s \in Reqs PROVE RequestKnows(s)'
  <2>1. CASE s = r
    BY <1>9, <2>1 DEF RequestKnows, RequestFits, WithTask
  <2>2. CASE s # r
    BY <1>4, <1>9, <2>2 DEF TaskIInv, RequestKnows, RequestFits
  <2> QED
    BY <2>1, <2>2
<1>11. ASSUME NEW c \in Cancels PROVE CancelKnows(c)'
  BY <1>2, <1>8 DEF TaskIInv, CancelKnows, StoreGrows, Terminal
<1>12. CallsCounted'
  BY <1>2 DEF TaskIInv, CallsCounted, StoreGrows
<1>13. \A j \in acked' : Heeded(j)'
  BY <1>8 DEF TaskIInv
<1> QED
  BY <1>2, <1>4, <1>6, <1>7, <1>9, <1>10, <1>11, <1>12, <1>13 DEF TaskIInv

\* admitPendingTaskInput: won, lost, or thrown with the input written or not.
LEMMA AdmitKeeps ==
  ASSUME TaskIInv, NEW r \in Reqs, Admit(r)
  PROVE  TaskIInv' /\ StoreGrows
<1> DEFINE i == rq[r].id
           x == [IdleWorker EXCEPT !.pc = "spawned", !.id = i]
<1>1. rq[r].pc = "admit" /\ i \in Ids /\ UNCHANGED <<keyRow, resv, cn, closed, execs, acked>>
  BY TaskInHand DEF Admit, WithTask
<1>2. CASE /\ Staged(i) /\ row' = [row EXCEPT ![i].admitted = TRUE] /\ RqGoto(r, "answered")
           /\ wk' = [wk EXCEPT ![r] = x]
  <2>1. x \in WorkerStates
    BY <1>1 DEF WorkerStates, IdleWorker, Preparing
  <2>2. x.pc = "spawned" /\ x.id = i /\ x.k = 0 /\ x.open
    BY DEF IdleWorker
  <2> HIDE DEF x
  <2> QED
    BY <1>1, <1>2, <2>1, <2>2, SpawnStep
<1>3. CASE RqGoto(r, "lost") /\ UNCHANGED <<row, wk>>
  BY <1>1, <1>3, GotoOnly DEF WithTask
<1>4. CASE /\ row' \in {row, IF Staged(i) THEN [row EXCEPT ![i].admitted = TRUE] ELSE row}
           /\ RqGoto(r, "undo") /\ UNCHANGED wk
  <2>1. resv[i] # "none"
    BY <1>1 DEF TaskIInv, RequestKnows, RequestFits
  <2>2. StoreOK' /\ StoreGrows
    BY <1>1, <1>4, <2>1, StoreStill, AdmitMoves
  <2> QED
    BY <1>1, <1>4, <2>2, GotoStep DEF WithTask
<1> QED
  BY <1>2, <1>3, <1>4 DEF Admit

-----------------------------------------------------------------------------
(* runTask                                                                  *)

\* A worker moves on with its task, whatever it did to the store.
LEMMA WorkerStep ==
  ASSUME TaskIInv, StoreOK', StoreGrows, UNCHANGED <<rq, cn, closed, execs, acked>>,
         NEW r \in Reqs, wk[r].pc \notin {"none", "done"},
         NEW x \in WorkerStates, wk' = [wk EXCEPT ![r] = x],
         x.pc \notin {"none", "done"} =>
           /\ x.id = wk[r].id
           /\ x.pc \in Preparing => wk[r].pc \in Preparing
           /\ x.pc \in {"answer", "close", "catch"} => x.outcome # "none",
         GatesRead(x), x.pc # "none", row'[wk[r].id].status = "cancelled" => Calm(x) \/ ~Calm(wk[r])
  PROVE  TaskIInv'
<1>1. wk' \in [Reqs -> WorkerStates] /\ wk'[r] = x /\ \A s \in Reqs \ {r} : wk'[s] = wk[s]
  BY DEF TaskIInv
<1>2. wk[r].id \in Ids /\ row[wk[r].id].admitted
  BY DEF TaskIInv, WorkerFits
<1>3. ASSUME NEW s \in Reqs PROVE WorkerFits(wk[s])' /\ GatesRead(wk[s])'
  <2>1. CASE s = r
    BY <1>1, <1>2, <2>1 DEF TaskIInv, WorkerFits, GatesRead, StoreGrows
  <2>2. CASE s # r
    BY <1>1, <2>2 DEF TaskIInv, WorkerFits, GatesRead, StoreGrows
  <2> QED
    BY <2>1, <2>2
<1>4. OneWorker'
  BY <1>1 DEF TaskIInv, OneWorker
<1>5. \A j \in Ids : Heeded(j) => Heeded(j)'
  <2> SUFFICES ASSUME NEW j \in Ids, Heeded(j) PROVE Heeded(j)'
    OBVIOUS
  <2>1. row'[j].status = "cancelled"
    BY DEF Heeded, StoreGrows, Terminal
  <2>2. x.id = j => Calm(x)
    <3>1. CASE x.pc = "done"
      BY <3>1 DEF Calm
    <3>2. CASE x.pc # "done"
      BY <2>1, <3>2 DEF Heeded
    <3> QED
      BY <3>1, <3>2
  <2> QED
    BY <1>1, <2>1, <2>2 DEF Heeded, Calm
<1>6. ASSUME NEW s \in Reqs PROVE RequestKnows(s)'
  BY <1>1 DEF TaskIInv, RequestKnows, RequestFits, StoreGrows, WithTask
<1>7. ASSUME NEW c \in Cancels PROVE CancelKnows(c)'
  BY <1>5 DEF TaskIInv, CancelKnows, StoreGrows, Terminal
<1>8. CallsCounted'
  BY DEF TaskIInv, CallsCounted, StoreGrows
<1>9. \A j \in acked' : Heeded(j)'
  BY <1>5 DEF TaskIInv
<1> QED
  BY <1>1, <1>3, <1>4, <1>6, <1>7, <1>8, <1>9 DEF TaskIInv

\* A worker on its way out: it has called, will not call, or is gone.
Past == {"calling", "answer", "close", "catch", "release", "done"}

\* The worker goes on past the point where it could call.
LEMMA LeaveStep ==
  ASSUME TaskIInv, StoreOK', StoreGrows, UNCHANGED <<rq, cn, closed, execs, acked>>,
         NEW r \in Reqs, wk[r].pc \notin {"none", "done"}, NEW x \in WorkerStates,
         wk' = [wk EXCEPT ![r] = x], x.pc \in Past, x.pc # "done" => x.id = wk[r].id,
         x.pc \in {"answer", "close", "catch"} => x.outcome # "none"
  PROVE  TaskIInv'
<1>1. GatesRead(x) /\ Calm(x) /\ x.pc # "none" /\ x.pc \notin Preparing
  BY DEF GatesRead, Calm, Past, Preparing
<1> QED
  BY <1>1, WorkerStep

\* WkGoto past the call.
LEMMA WkGotoStep ==
  ASSUME TaskIInv, StoreOK', StoreGrows, UNCHANGED <<rq, cn, closed, execs, acked>>,
         NEW r \in Reqs, wk[r].pc \notin {"none", "done"}, NEW where \in Past, WkGoto(r, where),
         where \in {"answer", "close", "catch"} => wk[r].outcome # "none"
  PROVE  TaskIInv'
<1> DEFINE w == wk[r]
           x == IF where = "done" THEN [IdleWorker EXCEPT !.pc = where] ELSE [w EXCEPT !.pc = where]
<1>1. w \in WorkerStates
  BY DEF TaskIInv
<1>2. wk' = [wk EXCEPT ![r] = x]
  BY DEF WkGoto
<1> HIDE DEF w
<1>3. x \in WorkerStates
  BY <1>1 DEF WorkerStates, IdleWorker, Past
<1>4. x.pc = where /\ (where # "done" => x.id = w.id /\ x.outcome = w.outcome)
  BY <1>1 DEF WorkerStates, IdleWorker
<1> HIDE DEF x
<1> QED
  BY <1>2, <1>3, <1>4, LeaveStep DEF w

\* Close: the outcome is known, the row is still to be written.
LEMMA CloseStep ==
  ASSUME TaskIInv, StoreOK', StoreGrows, UNCHANGED <<rq, cn, closed, execs, acked>>,
         NEW r \in Reqs, wk[r].pc \notin {"none", "done"}, NEW where \in {"answer", "close", "catch"},
         NEW outcome \in {"succeeded", "failed", "timed_out"}, Close(r, where, outcome)
  PROVE  TaskIInv'
<1> DEFINE w == wk[r]
           x == [w EXCEPT !.pc = where, !.outcome = outcome]
<1>1. w \in WorkerStates
  BY DEF TaskIInv
<1>2. wk' = [wk EXCEPT ![r] = x]
  BY DEF Close, TaskIInv
<1> HIDE DEF w
<1>3. x \in WorkerStates
  BY <1>1 DEF WorkerStates
<1>4. x.pc = where /\ x.id = w.id /\ x.outcome = outcome
  BY <1>1 DEF WorkerStates
<1> HIDE DEF x
<1> QED
  BY <1>2, <1>3, <1>4, LeaveStep DEF w, Past

\* The worker's task is a row, and admitted.
LEMMA WorkersTask ==
  ASSUME TaskIInv, NEW r \in Reqs, wk[r].pc \notin {"none", "done"}
  PROVE  wk[r].id \in Ids /\ wk[r] \in WorkerStates
BY DEF TaskIInv, WorkerFits

\* The gates of the worker are numbered from one.
LEMMA GatesAreNumbered ==
  ASSUME TaskAssumption
  PROVE  Len(WorkerGates) \in Nat /\ DOMAIN WorkerGates = 1..Len(WorkerGates)
BY DEF TaskAssumption

\* claimPendingTask: claimed, beaten by a cancel, or thrown.
LEMMA ClaimKeeps ==
  ASSUME TaskAssumption, TaskIInv, NEW r \in Reqs, Claim(r)
  PROVE  TaskIInv' /\ StoreGrows
<1> DEFINE w == wk[r]
           i == wk[r].id
<1>1. wk[r].pc = "spawned" /\ UNCHANGED <<keyRow, resv, rq, cn, closed, execs, acked>>
  BY DEF Claim
<1>2. i \in Ids /\ w \in WorkerStates
  BY <1>1, WorkersTask
<1>3. CASE row[i].status # "pending" /\ WkGoto(r, "release") /\ UNCHANGED row
  BY <1>1, <1>3, StoreStill, WkGotoStep DEF Past
<1>4. CASE (TransitionIfStatus(i, {"pending"}, "running") \/ UNCHANGED row) /\ Close(r, "catch", "failed")
  <2>1. StoreOK' /\ StoreGrows
    BY <1>1, <1>2, <1>4, StoreStill, TransitionMoves
  <2> QED
    BY <1>1, <1>4, <2>1, CloseStep
<1>5. CASE /\ row[i].status = "pending" /\ TransitionIfStatus(i, {"pending"}, "running")
           /\ wk' = [wk EXCEPT ![r].pc = "claimed", ![r].closedAtClaim = closed]
  <2> DEFINE x == [w EXCEPT !.pc = "claimed", !.closedAtClaim = closed]
  <2>1. StoreOK' /\ StoreGrows
    BY <1>1, <1>2, <1>5, TransitionMoves
  <2>2. wk' = [wk EXCEPT ![r] = x] /\ w.pc = "spawned" /\ w.k = 0 /\ w.open
    BY <1>1, <1>5 DEF TaskIInv, GatesRead
  <2>3. closed \subseteq Gates
    BY DEF TaskIInv
  <2> HIDE DEF w
  <2>4. x \in WorkerStates
    BY <1>2, <2>3 DEF WorkerStates, Preparing
  <2>5. x.pc = "claimed" /\ x.id = w.id /\ x.closedAtClaim = closed /\ x.k = w.k
    BY <1>2 DEF WorkerStates
  <2> HIDE DEF x
  <2>6. GatesRead(x) /\ Calm(x)
    <3>1. \A j \in DOMAIN WorkerGates : ~(j < x.k) /\ j # x.k
      BY <2>2, <2>5, GatesAreNumbered
    <3> QED
      BY <2>5, <3>1 DEF GatesRead, Calm, Preparing
  <2> QED
    BY <1>1, <2>1, <2>2, <2>4, <2>5, <2>6, WorkerStep DEF w, Preparing
<1> QED
  BY <1>3, <1>4, <1>5 DEF Claim

\* The worker moves on among the steps before the call, and leaves the store alone.
LEMMA PrepareStep ==
  ASSUME TaskIInv, UNCHANGED <<row, keyRow, resv, rq, cn, closed, execs, acked>>,
         NEW r \in Reqs, wk[r].pc \in Preparing, NEW x \in WorkerStates,
         wk' = [wk EXCEPT ![r] = x], x.pc \in Preparing, x.id = wk[r].id, GatesRead(x),
         row[wk[r].id].status = "cancelled" => Calm(x) \/ ~Calm(wk[r])
  PROVE  TaskIInv' /\ StoreGrows
<1>1. StoreOK' /\ StoreGrows
  BY StoreStill
<1>2. wk[r].pc \notin {"none", "done"} /\ x.pc \notin {"none", "done", "answer", "close", "catch"}
  BY DEF Preparing
<1> QED
  BY <1>1, <1>2, WorkerStep

\* The controller is registered.
LEMMA RegisterKeeps ==
  ASSUME TaskIInv, NEW r \in Reqs, Register(r)
  PROVE  TaskIInv' /\ StoreGrows
<1> DEFINE w == wk[r]
           x == [w EXCEPT !.pc = "check"]
<1>1. wk[r].pc = "claimed" /\ UNCHANGED <<row, keyRow, resv, rq, cn, closed, execs, acked>>
  BY DEF Register
<1>2. w \in WorkerStates /\ GatesRead(w) /\ w.pc = "claimed" /\ wk' = [wk EXCEPT ![r] = x]
  BY <1>1 DEF TaskIInv, Register, WkGoto
<1> HIDE DEF w
<1>3. x \in WorkerStates
  BY <1>2 DEF WorkerStates, Preparing
<1>4. x.pc = "check" /\ x.id = w.id /\ x.k = w.k /\ x.open = w.open /\ x.closedAtClaim = w.closedAtClaim
  BY <1>2 DEF WorkerStates
<1> HIDE DEF x
<1>5. GatesRead(x) /\ Calm(x)
  BY <1>2, <1>4 DEF GatesRead, Calm, Preparing
<1> QED
  BY <1>1, <1>2, <1>3, <1>4, <1>5, PrepareStep DEF w, Preparing

\* stopIfNotRunning reads the row; a cancelled one is not running.
LEMMA ReadStatusKeeps ==
  ASSUME TaskIInv, NEW r \in Reqs, ReadStatus(r)
  PROVE  TaskIInv' /\ StoreGrows
<1> DEFINE w == wk[r]
           b == row[wk[r].id].status = "running"
           x == [w EXCEPT !.pc = "decide", !.running = b]
<1>1. wk[r].pc = "check" /\ UNCHANGED <<row, keyRow, resv, rq, cn, closed, execs, acked>>
  BY DEF ReadStatus
<1>2. CASE Close(r, "catch", "failed")
  BY <1>1, <1>2, StoreStill, CloseStep
<1>3. CASE wk' = [wk EXCEPT ![r].pc = "decide", ![r].running = row[wk[r].id].status = "running"]
  <2>1. w \in WorkerStates /\ GatesRead(w) /\ w.pc = "check" /\ wk' = [wk EXCEPT ![r] = x] /\ b \in BOOLEAN
    BY <1>1, <1>3 DEF TaskIInv
  <2>2. row[wk[r].id].status = "cancelled" => ~b
    OBVIOUS
  <2> HIDE DEF w, b
  <2>3. x \in WorkerStates
    BY <2>1 DEF WorkerStates, Preparing
  <2>4. x.pc = "decide" /\ x.id = w.id /\ x.k = w.k /\ x.open = w.open /\ x.closedAtClaim = w.closedAtClaim /\ x.running = b
    BY <2>1 DEF WorkerStates
  <2> HIDE DEF x
  <2>5. GatesRead(x) /\ (~b => Calm(x))
    BY <2>1, <2>4 DEF GatesRead, Calm, Preparing
  <2> QED
    BY <1>1, <2>1, <2>2, <2>3, <2>4, <2>5, PrepareStep DEF w, Preparing
<1> QED
  BY <1>2, <1>3 DEF ReadStatus

\* A worker that goes on from its decision was not calm.
LEMMA DecideKeeps ==
  ASSUME TaskAssumption, TaskIInv, NEW r \in Reqs, Decide(r)
  PROVE  TaskIInv' /\ StoreGrows
<1> DEFINE w == wk[r]
           where == IF wk[r].k <= Len(WorkerGates) THEN "gate" ELSE "ready"
           x == [w EXCEPT !.pc = where]
<1>1. wk[r].pc = "decide" /\ UNCHANGED <<row, keyRow, resv, rq, cn, closed, execs, acked>>
  BY DEF Decide
<1>2. StoreOK' /\ StoreGrows
  BY <1>1, StoreStill
<1>3. CASE WkGoto(r, "release")
  BY <1>1, <1>2, <1>3, WkGotoStep DEF Past
<1>4. CASE Close(r, "close", "failed")
  BY <1>1, <1>2, <1>4, CloseStep
<1>5. CASE ~wk[r].aborted /\ wk[r].running /\ wk[r].open /\ WkGoto(r, where)
  <2>1. w \in WorkerStates /\ GatesRead(w) /\ w.pc = "decide" /\ ~Calm(w) /\ w.open /\ wk' = [wk EXCEPT ![r] = x]
    BY <1>1, <1>5 DEF TaskIInv, WkGoto, Calm
  <2>2. where \in {"gate", "ready"} /\ (where = "gate" <=> w.k <= Len(WorkerGates))
    OBVIOUS
  <2>3. w.k \in Nat /\ Len(WorkerGates) \in Nat
    BY <2>1, GatesAreNumbered DEF WorkerStates
  <2> HIDE DEF w, where
  <2>4. x \in WorkerStates
    BY <2>1, <2>2 DEF WorkerStates, Preparing
  <2>5. x.pc = where /\ x.id = w.id /\ x.k = w.k /\ x.open = w.open /\ x.closedAtClaim = w.closedAtClaim
    BY <2>1 DEF WorkerStates
  <2> HIDE DEF x
  <2>6. GatesRead(x)
    BY <2>1, <2>2, <2>3, <2>5 DEF GatesRead, Preparing
  <2> QED
    BY <1>1, <2>1, <2>2, <2>4, <2>5, <2>6, PrepareStep DEF w, Preparing
<1> QED
  BY <1>3, <1>4, <1>5 DEF Decide

\* One more gate is read; those before it were open.
LEMMA ReadGateKeeps ==
  ASSUME TaskAssumption, TaskIInv, NEW r \in Reqs, ReadGate(r)
  PROVE  TaskIInv' /\ StoreGrows
<1> DEFINE w == wk[r]
           b == wk[r].k = Len(WorkerGates) \/ WorkerGates[wk[r].k + 1] \notin closed
           n == wk[r].k + 1
           x == [w EXCEPT !.pc = "check", !.k = n, !.open = b]
<1>1. wk[r].pc = "gate" /\ UNCHANGED <<row, keyRow, resv, rq, cn, closed, execs, acked>>
  BY DEF ReadGate
<1>2. CASE Close(r, "catch", "failed")
  BY <1>1, <1>2, StoreStill, CloseStep
<1>3. CASE wk' = [wk EXCEPT ![r].pc = "check", ![r].k = @ + 1, ![r].open = b]
  <2>1. w \in WorkerStates /\ GatesRead(w) /\ w.pc = "gate" /\ wk' = [wk EXCEPT ![r] = x] /\ b \in BOOLEAN
    BY <1>1, <1>3 DEF TaskIInv
  <2>2. b => w.k = Len(WorkerGates) \/ WorkerGates[w.k + 1] \notin closed
    OBVIOUS
  <2>3. w.k \in Nat /\ Len(WorkerGates) \in Nat /\ DOMAIN WorkerGates = 1..Len(WorkerGates)
    BY <2>1, GatesAreNumbered DEF WorkerStates
  <2>31. n \in Nat /\ n = w.k + 1
    BY <2>3
  <2> HIDE DEF w, b, n
  <2>4. x \in WorkerStates
    BY <2>1, <2>31 DEF WorkerStates, Preparing
  <2>5. x.pc = "check" /\ x.id = w.id /\ x.k = n /\ x.open = b /\ x.closedAtClaim = w.closedAtClaim
    BY <2>1 DEF WorkerStates
  <2> HIDE DEF x
  <2>6. GatesRead(x) /\ Calm(x)
    <3>1. w.closedAtClaim \subseteq closed /\ w.open
      BY <2>1 DEF GatesRead, Preparing
    <3>2. \A j \in DOMAIN WorkerGates : j < w.k \/ j = w.k => WorkerGates[j] \notin w.closedAtClaim
      BY <2>1 DEF GatesRead, Preparing
    <3>3. \A j \in DOMAIN WorkerGates : j < x.k \/ (j = x.k /\ x.open) => WorkerGates[j] \notin x.closedAtClaim
      BY <2>2, <2>3, <2>5, <2>31, <3>1, <3>2
    <3> QED
      BY <2>5, <3>1, <3>3 DEF GatesRead, Calm, Preparing
  <2> QED
    BY <1>1, <2>1, <2>4, <2>5, <2>6, PrepareStep DEF w, Preparing
<1> QED
  BY <1>2, <1>3 DEF ReadGate

\* The one step that counts a call; a worker whose cancel was acknowledged does not
\* take it.
LEMMA StartCallKeeps ==
  ASSUME TaskIInv, NEW r \in Reqs, StartCall(r)
  PROVE  TaskIInv' /\ StoreGrows
<1> DEFINE w == wk[r]
           i == wk[r].id
           x == [w EXCEPT !.pc = "calling"]
<1>1. wk[r].pc = "ready" /\ UNCHANGED <<row, keyRow, resv, rq, cn, closed, acked>>
  BY DEF StartCall
<1>2. StoreOK' /\ StoreGrows
  BY <1>1, StoreStill
<1>3. CASE WkGoto(r, "release") /\ UNCHANGED execs
  BY <1>1, <1>2, <1>3, WkGotoStep DEF Past
<1>4. CASE execs' = [execs EXCEPT ![i] = @ + 1] /\ WkGoto(r, "calling")
  <2>1. w \in WorkerStates /\ i \in Ids /\ row[i].admitted /\ execs[i] = 0 /\ wk' = [wk EXCEPT ![r] = x]
    BY <1>1, <1>4 DEF TaskIInv, WorkerFits, WkGoto, Preparing
  <2> HIDE DEF w
  <2>2. x \in WorkerStates
    BY <2>1 DEF WorkerStates
  <2>3. x.pc = "calling" /\ x.id = w.id
    BY <2>1 DEF WorkerStates
  <2> HIDE DEF x
  <2>4. wk' \in [Reqs -> WorkerStates] /\ wk'[r] = x /\ \A s \in Reqs \ {r} : wk'[s] = wk[s]
    BY <2>1, <2>2 DEF TaskIInv
  <2>5. execs' \in [Ids -> Nat] /\ execs'[i] = 1 /\ \A j \in Ids \ {i} : execs'[j] = execs[j]
    BY <1>4, <2>1 DEF TaskIInv, CallsCounted
  <2>6. CallsCounted'
    BY <1>1, <2>1, <2>5 DEF TaskIInv, CallsCounted
  <2>7. ASSUME NEW s \in Reqs PROVE WorkerFits(wk[s])' /\ GatesRead(wk[s])'
    <3>1. CASE s = r
      BY <1>1, <2>1, <2>3, <2>4, <3>1 DEF WorkerFits, GatesRead, Preparing, w
    <3>2. CASE s # r
      <4>1. wk[s].pc \notin {"none", "done"} => wk[s].id # i
        BY <1>1, <3>2 DEF TaskIInv, OneWorker
      <4> QED
        BY <1>1, <2>4, <2>5, <3>2, <4>1 DEF TaskIInv, WorkerFits, GatesRead
    <3> QED
      BY <3>1, <3>2
  <2>8. OneWorker'
    BY <1>1, <2>3, <2>4 DEF TaskIInv, OneWorker, w
  <2>9. \A j \in Ids : Heeded(j) => Heeded(j)'
    BY <1>1, <2>3, <2>4 DEF Heeded, Calm
  <2>10. \A s \in Reqs : RequestKnows(s)'
    BY <1>1, <2>3, <2>4 DEF TaskIInv, RequestKnows, RequestFits
  <2>11. \A c \in Cancels : CancelKnows(c)'
    BY <1>1, <2>9 DEF TaskIInv, CancelKnows
  <2>12. (acked \subseteq Ids)' /\ \A j \in acked' : Heeded(j)'
    BY <1>1, <2>9 DEF TaskIInv
  <2> QED
    BY <1>1, <1>2, <2>4, <2>6, <2>7, <2>8, <2>10, <2>11, <2>12 DEF TaskIInv
<1> QED
  BY <1>3, <1>4 DEF StartCall

\* The Executor answers, or not.
LEMMA CallReturnsKeeps ==
  ASSUME TaskIInv, NEW r \in Reqs, CallReturns(r)
  PROVE  TaskIInv' /\ StoreGrows
<1>1. wk[r].pc = "calling" /\ UNCHANGED <<row, keyRow, resv, rq, cn, closed, execs, acked>>
  BY DEF CallReturns
<1>2. \E where \in {"answer", "close", "catch"}, o \in {"succeeded", "failed", "timed_out"} : Close(r, where, o)
  BY DEF CallReturns
<1> QED
  BY <1>1, <1>2, StoreStill, CloseStep

\* The row is read before the result is recorded.
LEMMA ReadBeforeCloseKeeps ==
  ASSUME TaskIInv, NEW r \in Reqs, ReadBeforeClose(r)
  PROVE  TaskIInv' /\ StoreGrows
<1>1. wk[r].pc = "answer" /\ UNCHANGED <<row, keyRow, resv, rq, cn, closed, execs, acked>>
  BY DEF ReadBeforeClose
<1>2. wk[r].outcome # "none"
  BY <1>1 DEF TaskIInv, WorkerFits
<1>3. WkGoto(r, "release") \/ WkGoto(r, "close") \/ Close(r, "catch", "failed")
  BY DEF ReadBeforeClose
<1> QED
  BY <1>1, <1>2, <1>3, StoreStill, WkGotoStep, CloseStep DEF Past

\* completeRunningTask writes over a running row only.
LEMMA CloseTaskKeeps ==
  ASSUME TaskIInv, NEW r \in Reqs, CloseTask(r)
  PROVE  TaskIInv' /\ StoreGrows
<1>1. wk[r].pc \in {"close", "catch"} /\ UNCHANGED <<keyRow, resv, rq, cn, closed, execs, acked>>
  BY DEF CloseTask
<1>2. wk[r].id \in Ids /\ wk[r].outcome \in Terminal
  BY <1>1 DEF TaskIInv, WorkerFits, WorkerStates, Terminal
<1>3. StoreOK' /\ StoreGrows
  BY <1>1, <1>2, StoreStill, TransitionMoves DEF CloseTask
<1>4. WkGoto(r, "release") \/ Close(r, "catch", "failed")
  BY DEF CloseTask
<1> QED
  BY <1>1, <1>3, <1>4, WkGotoStep, CloseStep DEF Past

\* The worker frees the lease and is gone.
LEMMA WorkerReleaseKeeps ==
  ASSUME TaskIInv, NEW r \in Reqs, WorkerRelease(r)
  PROVE  TaskIInv' /\ StoreGrows
<1>1. wk[r].pc = "release" /\ UNCHANGED <<row, keyRow, rq, cn, closed, execs, acked>>
  BY DEF WorkerRelease
<1>2. StoreOK' /\ StoreGrows
  BY <1>1, WorkersTask, StoreStill, ReleaseMoves DEF WorkerRelease
<1> QED
  BY <1>1, <1>2, WkGotoStep DEF WorkerRelease, Past

-----------------------------------------------------------------------------
(* Cancel                                                                   *)

\* A cancel moves on, whatever it did to the store.
LEMMA CancelStep ==
  ASSUME TaskIInv, StoreOK', StoreGrows, UNCHANGED <<rq, wk, closed, execs>>,
         NEW c \in Cancels, NEW x \in CancelStates, cn' = [cn EXCEPT ![c] = x],
         x.pc \notin {"idle", "answered"} => x.id \in Ids,
         x.pc = "abort" => row'[x.id].status = "cancelled", x.pc # "release",
         acked' = acked \/ \E i \in Ids : Heeded(i) /\ acked' = acked \cup {i}
  PROVE  TaskIInv'
<1>1. cn' \in [Cancels -> CancelStates] /\ cn'[c] = x /\ \A d \in Cancels \ {c} : cn'[d] = cn[d]
  BY DEF TaskIInv
<1>2. \A i \in Ids : Heeded(i) => Heeded(i)'
  BY DEF Heeded, StoreGrows, Terminal
<1>3. ASSUME NEW d \in Cancels PROVE CancelKnows(d)'
  <2>1. CASE d = c
    BY <1>1, <2>1 DEF CancelKnows
  <2>2. CASE d # c
    BY <1>1, <1>2, <2>2 DEF TaskIInv, CancelKnows, StoreGrows, Terminal
  <2> QED
    BY <2>1, <2>2
<1>4. \A r \in Reqs : RequestKnows(r)'
  BY DEF TaskIInv, RequestKnows, RequestFits, StoreGrows, WithTask
<1>5. \A r \in Reqs : WorkerFits(wk[r])' /\ GatesRead(wk[r])'
  BY DEF TaskIInv, WorkerFits, GatesRead, StoreGrows
<1>6. OneWorker' /\ CallsCounted'
  BY DEF TaskIInv, OneWorker, CallsCounted, StoreGrows
<1>7. (acked \subseteq Ids)' /\ \A i \in acked' : Heeded(i)'
  BY <1>2 DEF TaskIInv
<1> QED
  BY <1>1, <1>3, <1>4, <1>5, <1>6, <1>7 DEF TaskIInv

\* CnGoto, with an acknowledgement or without.
LEMMA CnGotoStep ==
  ASSUME TaskIInv, StoreOK', StoreGrows, UNCHANGED <<rq, wk, closed, execs>>,
         NEW c \in Cancels, cn[c].id \in Ids, NEW where \in {"thrown", "abort", "free", "reread", "answered"},
         CnGoto(c, where), where = "abort" => row'[cn[c].id].status = "cancelled",
         acked' = acked \/ \E i \in Ids : Heeded(i) /\ acked' = acked \cup {i}
  PROVE  TaskIInv'
<1> DEFINE y == cn[c]
           x == IF where = "answered" THEN [IdleCancel EXCEPT !.pc = where] ELSE [y EXCEPT !.pc = where]
<1>1. y \in CancelStates
  BY DEF TaskIInv
<1>2. cn' = [cn EXCEPT ![c] = x]
  BY DEF CnGoto
<1> HIDE DEF y
<1>3. x \in CancelStates
  BY <1>1 DEF CancelStates, IdleCancel
<1>4. x.pc = where /\ (where # "answered" => x.id = y.id)
  BY <1>1 DEF CancelStates, IdleCancel
<1> HIDE DEF x
<1>5. /\ x.pc \notin {"idle", "answered"} => x.id \in Ids
      /\ x.pc = "abort" => row'[x.id].status = "cancelled"
      /\ x.pc # "release"
  BY <1>4 DEF y
<1> QED
  BY <1>2, <1>3, <1>5, CancelStep

\* The handler reads the row and goes on if it is not final.
LEMMA CancelReadKeeps ==
  ASSUME TaskIInv, NEW c \in Cancels, NEW i \in Ids, NEW local \in BOOLEAN, CancelRead(c, i, local)
  PROVE  TaskIInv' /\ StoreGrows
<1> DEFINE where == IF row[i].status \in {"pending", "running"} THEN "cas" ELSE "answered"
           x == [pc |-> where, id |-> i, local |-> local]
<1>1. UNCHANGED <<row, keyRow, resv, rq, wk, closed, execs, acked>> /\ cn' = [cn EXCEPT ![c] = x]
  BY DEF CancelRead
<1>2. where \in {"cas", "answered"}
  OBVIOUS
<1> HIDE DEF where
<1>3. x \in CancelStates /\ x.pc = where /\ x.id = i
  BY <1>2 DEF CancelStates
<1> HIDE DEF x
<1>4. StoreOK' /\ StoreGrows
  BY <1>1, StoreStill
<1>5. x.pc \notin {"abort", "release"} /\ x.id \in Ids
  BY <1>2, <1>3
<1> QED
  BY <1>1, <1>3, <1>4, <1>5, CancelStep

\* The CAS: only a handler whose row is cancelled goes on to abort.
LEMMA CancelCasKeeps ==
  ASSUME TaskIInv, NEW c \in Cancels, CancelCas(c)
  PROVE  TaskIInv' /\ StoreGrows
<1> DEFINE i == cn[c].id
<1>1. cn[c].pc = "cas" /\ UNCHANGED <<keyRow, resv, rq, wk, closed, execs, acked>>
  BY DEF CancelCas
<1>2. i \in Ids
  BY <1>1 DEF TaskIInv, CancelKnows
<1>3. StoreOK' /\ StoreGrows
  <2>1. TransitionIfStatus(i, {"pending", "running"}, "cancelled") \/ UNCHANGED row
    BY DEF CancelCas
  <2> QED
    BY <1>1, <1>2, <2>1, StoreStill, TransitionMoves DEF Terminal
<1>4. CASE CnGoto(c, "thrown")
  BY <1>1, <1>2, <1>3, <1>4, CnGotoStep
<1>5. CASE /\ TransitionIfStatus(i, {"pending", "running"}, "cancelled")
           /\ CnGoto(c, IF row[i].status \in {"pending", "running"} THEN "abort" ELSE "answered")
  <2>1. CASE row[i].status \in {"pending", "running"}
    <3>1. row \in [Ids -> Rows] /\ row[i] \in Rows
      BY <1>2 DEF TaskIInv, StoreOK
    <3>2. row'[i].status = "cancelled"
      BY <1>2, <1>5, <2>1, <3>1 DEF TransitionIfStatus, Rows
    <3> QED
      BY <1>1, <1>2, <1>3, <1>5, <2>1, <3>2, CnGotoStep
  <2>2. CASE row[i].status \notin {"pending", "running"}
    BY <1>1, <1>2, <1>3, <1>5, <2>2, CnGotoStep
  <2> QED
    BY <2>1, <2>2
<1> QED
  BY <1>4, <1>5 DEF CancelCas

\* The controllers of the task's workers are aborted.  If its row is cancelled by
\* then, a worker that is not aborted has yet to read it.
LEMMA CancelAbortKeeps ==
  ASSUME TaskIInv, NEW c \in Cancels, CancelAbort(c)
  PROVE  TaskIInv' /\ StoreGrows
<1> DEFINE i == cn[c].id
           y == cn[c]
           Hit(r) == cn[c].local /\ Registered(r) /\ wk[r].id = cn[c].id
           where == IF cn[c].pc = "thrown" THEN "free" ELSE "release"
           x == [y EXCEPT !.pc = where]
<1>1. cn[c].pc \in {"thrown", "abort"} /\ UNCHANGED <<row, keyRow, resv, rq, closed, execs, acked>>
  BY DEF CancelAbort
<1>2. y \in CancelStates /\ i \in Ids /\ cn' = [cn EXCEPT ![c] = x] /\ cn \in [Cancels -> CancelStates]
  BY <1>1 DEF TaskIInv, CancelKnows, CancelAbort, CnGoto
<1>3. StoreOK' /\ StoreGrows
  BY <1>1, StoreStill
<1>4. ASSUME NEW r \in Reqs
      PROVE  /\ wk'[r] \in WorkerStates
             /\ wk'[r].pc = wk[r].pc /\ wk'[r].id = wk[r].id /\ wk'[r].k = wk[r].k /\ wk'[r].open = wk[r].open
             /\ wk'[r].running = wk[r].running /\ wk'[r].outcome = wk[r].outcome
             /\ wk'[r].closedAtClaim = wk[r].closedAtClaim
             /\ wk[r].aborted => wk'[r].aborted
             /\ Hit(r) => wk'[r].aborted
  <2> DEFINE w == wk[r]
  <2>1. w \in WorkerStates
    BY DEF TaskIInv
  <2>2. wk'[r] = w \/ wk'[r] = [w EXCEPT !.aborted = TRUE]
    BY DEF CancelAbort
  <2>3. Hit(r) => wk'[r] = [w EXCEPT !.aborted = TRUE]
    BY DEF CancelAbort
  <2> HIDE DEF w, Hit
  <2>4. [w EXCEPT !.aborted = TRUE] \in WorkerStates
    BY <2>1 DEF WorkerStates
  <2>5. /\ [w EXCEPT !.aborted = TRUE].pc = w.pc /\ [w EXCEPT !.aborted = TRUE].id = w.id
        /\ [w EXCEPT !.aborted = TRUE].k = w.k /\ [w EXCEPT !.aborted = TRUE].open = w.open
        /\ [w EXCEPT !.aborted = TRUE].running = w.running
        /\ [w EXCEPT !.aborted = TRUE].outcome = w.outcome
        /\ [w EXCEPT !.aborted = TRUE].closedAtClaim = w.closedAtClaim
        /\ [w EXCEPT !.aborted = TRUE].aborted
    BY <2>1 DEF WorkerStates
  <2> QED
    BY <2>1, <2>2, <2>3, <2>4, <2>5 DEF w
<1>5. wk' \in [Reqs -> WorkerStates]
  BY <1>4 DEF CancelAbort
<1>6. \A r \in Reqs : WorkerFits(wk[r])' /\ GatesRead(wk[r])'
  BY <1>1, <1>4 DEF TaskIInv, WorkerFits, GatesRead
<1>7. OneWorker'
  BY <1>4 DEF TaskIInv, OneWorker
<1>8. \A j \in Ids : Heeded(j) => Heeded(j)'
  BY <1>1, <1>4 DEF Heeded, Calm
<1>9. row[i].status = "cancelled" /\ cn[c].local => Heeded(i)'
  <2> SUFFICES ASSUME row[i].status = "cancelled", cn[c].local, NEW r \in Reqs, wk'[r].id = i PROVE Calm(wk'[r])
    BY <1>1, <1>2 DEF Heeded, Calm, CancelAbort, CnGoto
  <2>1. wk[r].pc \in {"decide", "ready"} => Hit(r)
    BY <1>4 DEF Registered
  <2> QED
    BY <1>4, <2>1 DEF Calm
<1>10. where \in {"free", "release"} /\ (where = "release" => cn[c].pc = "abort")
  BY <1>1
<1> HIDE DEF y, where
<1>11. x \in CancelStates
  BY <1>2, <1>10 DEF CancelStates
<1>12. x.pc = where /\ x.id = y.id /\ x.local = y.local
  BY <1>2 DEF CancelStates
<1> HIDE DEF x
<1>13. cn' \in [Cancels -> CancelStates] /\ cn'[c] = x /\ \A d \in Cancels \ {c} : cn'[d] = cn[d]
  BY <1>2, <1>11
<1>14. ASSUME NEW d \in Cancels PROVE CancelKnows(d)'
  <2>1. CASE d = c
    <3>1. where = "release" => row[i].status = "cancelled"
      BY <1>10 DEF TaskIInv, CancelKnows
    <3> QED
      BY <1>1, <1>2, <1>9, <1>10, <1>12, <1>13, <2>1, <3>1 DEF CancelKnows, y
  <2>2. CASE d # c
    BY <1>1, <1>8, <1>13, <2>2 DEF TaskIInv, CancelKnows
  <2> QED
    BY <2>1, <2>2
<1>15. \A r \in Reqs : RequestKnows(r)'
  BY <1>1, <1>4 DEF TaskIInv, RequestKnows, RequestFits
<1>16. CallsCounted' /\ (acked \subseteq Ids)' /\ \A j \in acked' : Heeded(j)'
  BY <1>1, <1>8 DEF TaskIInv, CallsCounted
<1> QED
  BY <1>1, <1>3, <1>5, <1>6, <1>7, <1>13, <1>14, <1>15, <1>16 DEF TaskIInv

\* The lease is freed and, at the end, the cancel acknowledged.
LEMMA CancelReleaseKeeps ==
  ASSUME TaskIInv, NEW c \in Cancels, CancelRelease(c)
  PROVE  TaskIInv' /\ StoreGrows
<1>1. cn[c].pc \in {"free", "release"} /\ UNCHANGED <<row, keyRow, rq, wk, closed, execs>>
  BY DEF CancelRelease
<1>2. cn[c].id \in Ids /\ (cn[c].pc = "release" /\ cn[c].local => Heeded(cn[c].id))
  BY <1>1 DEF TaskIInv, CancelKnows
<1>3. StoreOK' /\ StoreGrows
  BY <1>1, <1>2, StoreStill, ReleaseMoves DEF CancelRelease
<1>4. acked' = acked \/ \E i \in Ids : Heeded(i) /\ acked' = acked \cup {i}
  BY <1>2 DEF CancelRelease
<1>5. CnGoto(c, "reread") \/ CnGoto(c, "answered")
  BY DEF CancelRelease
<1> QED
  BY <1>1, <1>2, <1>3, <1>4, <1>5, CnGotoStep

\* After a throw the row decides.
LEMMA CancelRereadKeeps ==
  ASSUME TaskIInv, NEW c \in Cancels, CancelReread(c)
  PROVE  TaskIInv' /\ StoreGrows
<1>1. cn[c].pc = "reread" /\ UNCHANGED <<row, keyRow, resv, rq, wk, closed, execs, acked>>
  BY DEF CancelReread
<1>2. cn[c].id \in Ids
  BY <1>1 DEF TaskIInv, CancelKnows
<1>3. CnGoto(c, "answered") \/ (CnGoto(c, "abort") /\ row[cn[c].id].status = "cancelled")
  BY DEF CancelReread
<1>4. StoreOK' /\ StoreGrows
  BY <1>1, StoreStill
<1> QED
  BY <1>1, <1>2, <1>3, <1>4, CnGotoStep

-----------------------------------------------------------------------------
(* The environment                                                          *)

\* What was closed at the claim stays closed.
LEMMA CloseGateKeeps ==
  ASSUME TaskIInv, NEW g \in Gates, CloseGate(g)
  PROVE  TaskIInv' /\ StoreGrows
<1>1. UNCHANGED <<row, keyRow, resv, rq, wk, cn, execs, acked>> /\ closed' = closed \cup {g}
  BY DEF CloseGate
<1>2. StoreOK' /\ StoreGrows
  BY <1>1, StoreStill
<1>3. \A r \in Reqs : WorkerFits(wk[r])' /\ GatesRead(wk[r])'
  BY <1>1 DEF TaskIInv, WorkerFits, GatesRead
<1>4. (\A r \in Reqs : RequestKnows(r)') /\ OneWorker' /\ CallsCounted' /\ (closed \subseteq Gates)'
  BY <1>1 DEF TaskIInv, RequestKnows, RequestFits, OneWorker, CallsCounted
<1>5. \A i : Heeded(i)' <=> Heeded(i)
  BY <1>1 DEF Heeded
<1>6. \A c \in Cancels : CancelKnows(c)'
  BY <1>1, <1>5 DEF TaskIInv, CancelKnows
<1> QED
  BY <1>1, <1>2, <1>3, <1>4, <1>5, <1>6 DEF TaskIInv

\* A lease runs out under whoever holds it.
LEMMA ExpireKeeps ==
  ASSUME TaskIInv, NEW i \in Ids, Expire(i)
  PROVE  TaskIInv' /\ StoreGrows
<1>1. UNCHANGED <<row, keyRow, rq, wk, cn, closed, execs, acked>>
  BY DEF Expire
<1>2. StoreOK' /\ StoreGrows
  BY <1>1, LeaseMoves DEF Expire, Leases
<1>3. \A r \in Reqs : RequestKnows(r)'
  BY <1>1, <1>2 DEF TaskIInv, RequestKnows, RequestFits, StoreGrows, WithTask
<1>4. \A c \in Cancels : CancelKnows(c)'
  BY <1>1, <1>2, KnowledgeLasts DEF TaskIInv, CancelKnows
<1> QED
  BY <1>1, <1>2, <1>3, <1>4, KnowledgeLasts DEF TaskIInv

\* The process dies: nobody is left to call, the store stays as it is.
LEMMA CrashKeeps ==
  ASSUME TaskIInv, Crash
  PROVE  TaskIInv' /\ StoreGrows
<1>1. UNCHANGED <<row, keyRow, resv, closed, execs, acked>>
  BY DEF Crash
<1>2. StoreOK' /\ StoreGrows
  BY <1>1, StoreStill
<1>3. /\ IdleRequest \in RequestStates /\ IdleRequest.pc = "idle"
      /\ [IdleWorker EXCEPT !.pc = "done"] \in WorkerStates /\ [IdleWorker EXCEPT !.pc = "done"].pc = "done"
      /\ [IdleCancel EXCEPT !.pc = "answered"] \in CancelStates
      /\ [IdleCancel EXCEPT !.pc = "answered"].pc = "answered"
  BY DEF IdleRequest, RequestStates, IdleWorker, WorkerStates, IdleCancel, CancelStates, Fingerprints
<1>4. rq' \in [Reqs -> RequestStates] /\ \A r \in Reqs : rq'[r].pc = "idle"
  BY <1>3 DEF Crash
<1>5. wk' \in [Reqs -> WorkerStates] /\ \A r \in Reqs : wk'[r].pc \in {"none", "done"}
  BY <1>3 DEF Crash, TaskIInv
<1>6. cn' \in [Cancels -> CancelStates] /\ \A c \in Cancels : cn'[c].pc \in {"idle", "answered"}
  BY <1>3 DEF Crash, TaskIInv
<1>7. \A r \in Reqs : RequestKnows(r)' /\ WorkerFits(wk[r])' /\ GatesRead(wk[r])'
  BY <1>4, <1>5 DEF RequestKnows, RequestFits, WorkerFits, GatesRead, WithTask, Preparing
<1>8. OneWorker' /\ CallsCounted'
  BY <1>1, <1>5 DEF TaskIInv, OneWorker, CallsCounted
<1>9. \A c \in Cancels : CancelKnows(c)'
  BY <1>6 DEF CancelKnows
<1>10. \A i \in Ids : Heeded(i) => Heeded(i)'
  BY <1>1, <1>5 DEF Heeded, Calm
<1> QED
  BY <1>1, <1>2, <1>4, <1>5, <1>6, <1>7, <1>8, <1>9, <1>10 DEF TaskIInv

-----------------------------------------------------------------------------
(* The theorems                                                             *)

\* Every step keeps the invariant and takes nothing back.
LEMMA NextKeeps ==
  ASSUME TaskAssumption, TaskIInv, [Next]_vars
  PROVE  TaskIInv' /\ StoreGrows
<1>1. CASE UNCHANGED vars
  <2>1. StoreOK' /\ StoreGrows
    BY <1>1, StoreStill DEF vars
  <2>2. (\A r \in Reqs : RequestKnows(r)') /\ \A c \in Cancels : CancelKnows(c)'
    BY <1>1 DEF vars, TaskIInv, RequestKnows, RequestFits, CancelKnows, Heeded
  <2> QED
    BY <1>1, <2>1, <2>2, KnowledgeLasts DEF vars, TaskIInv
<1>2. ASSUME NEW r \in Reqs, Request(r) PROVE TaskIInv' /\ StoreGrows
  BY <1>2, FindTaskKeeps, AdmissionGateKeeps, CreateTaskKeeps, ReserveLookupKeeps, ReserveKeeps,
     RereadKeeps, HandlerReleaseKeeps, DiscardKeeps, AdmitKeeps DEF Request
<1>3. ASSUME NEW r \in Reqs, Worker(r) PROVE TaskIInv' /\ StoreGrows
  BY <1>3, ClaimKeeps, RegisterKeeps, ReadStatusKeeps, DecideKeeps, ReadGateKeeps, StartCallKeeps,
     CallReturnsKeeps, ReadBeforeCloseKeeps, CloseTaskKeeps, WorkerReleaseKeeps DEF Worker
<1>4. ASSUME NEW r \in Reqs, NEW fp \in Prints[r], Post(r, fp) PROVE TaskIInv' /\ StoreGrows
  BY <1>4, PostKeeps
<1>5. ASSUME NEW c \in Cancels, Cancel(c) PROVE TaskIInv' /\ StoreGrows
  BY <1>5, CancelCasKeeps, CancelAbortKeeps, CancelReleaseKeeps, CancelRereadKeeps DEF Cancel
<1>6. ASSUME NEW c \in Cancels, NEW i \in Ids, NEW l \in BOOLEAN, CancelRead(c, i, l)
      PROVE  TaskIInv' /\ StoreGrows
  BY <1>6, CancelReadKeeps
<1>7. ASSUME NEW g \in Gates, CloseGate(g) PROVE TaskIInv' /\ StoreGrows
  BY <1>7, CloseGateKeeps
<1>8. ASSUME NEW i \in Ids, Expire(i) PROVE TaskIInv' /\ StoreGrows
  BY <1>8, ExpireKeeps
<1>9. CASE Crash
  BY <1>9, CrashKeeps
<1> QED
  BY <1>1, <1>2, <1>3, <1>4, <1>5, <1>6, <1>7, <1>8, <1>9 DEF Next

\* One row exists, so one task was ever executed, and once.
LEMMA IInvImpliesTaskInv ==
  ASSUME TaskAssumption, TaskIInv
  PROVE  TaskInv
<1>1. TypeOK
  BY DEF TaskIInv, StoreOK, CallsCounted, TypeOK, Rows, Leases, Fingerprints
<1>2. AdmittedIsMetered
  BY DEF TaskIInv, StoreOK, AdmittedIsMetered
<1>3. ExecutedAtMostOnce
  <2> SUFFICES ASSUME NEW i \in Ids, NEW j \in Ids
               PROVE  execs[i] <= 1 /\ (i # j => execs[i] = 0 \/ execs[j] = 0)
    BY DEF ExecutedAtMostOnce
  <2>1. execs[i] <= 1
    BY DEF TaskIInv, CallsCounted
  <2>2. ASSUME execs[i] # 0, execs[j] # 0 PROVE i = j
    <3>1. keyRow = i /\ keyRow = j
      BY <2>2 DEF TaskIInv, CallsCounted, StoreOK
    <3> QED
      BY <3>1
  <2> QED
    BY <2>1, <2>2
<1> QED
  BY <1>1, <1>2, <1>3 DEF TaskInv

\* The invariant of the life cycle, for every behaviour.
THEOREM TaskIInvHolds ==
  ASSUME TaskAssumption
  PROVE  Spec => []TaskIInv
<1>1. Init => TaskIInv
  BY InitIInv
<1>2. TaskIInv /\ [Next]_vars => TaskIInv'
  BY NextKeeps
<1> QED
  BY <1>1, <1>2, PTL DEF Spec

\* POST /v1/tasks and runTask: rows are well formed, an admitted task has been
\* metered, and the Executor hears of one idempotency key at most once, for any
\* number of retries, replicas, cancels, throws, crashes and expired leases.
THEOREM TaskIsSafe ==
  ASSUME TaskAssumption
  PROVE  Spec => []TaskInv
<1>1. TaskIInv => TaskInv
  BY IInvImpliesTaskInv
<1> QED
  BY <1>1, TaskIInvHolds, PTL

\* Only StartCall counts a call, for a worker that is ready and was not aborted.
LEMMA CallStep ==
  ASSUME TaskIInv, [Next]_vars, NEW i \in Ids, execs'[i] # execs[i]
  PROVE  \E r \in Reqs : wk[r].pc = "ready" /\ ~wk[r].aborted /\ wk[r].id = i
<1>1. ~UNCHANGED execs
  OBVIOUS
<1>2. PICK r \in Reqs : StartCall(r)
  BY <1>1, ZenonT(60) DEF Next, vars, Request, FindTask, AdmissionGate, CreateTask, ReserveLookup, Reserve, Reread,
     HandlerRelease, Discard, Admit, Worker, Claim, Register, ReadStatus, Decide, ReadGate, CallReturns,
     ReadBeforeClose, CloseTask, WorkerRelease, Post, Cancel, CancelCas, CancelAbort, CancelRelease,
     CancelReread, CancelRead, CloseGate, Expire, Crash
<1>3. wk[r].pc = "ready" /\ ~wk[r].aborted /\ execs' = [execs EXCEPT ![wk[r].id] = @ + 1]
  BY <1>1, <1>2 DEF StartCall
<1>4. wk[r].id = i
  BY <1>3 DEF TaskIInv, CallsCounted
<1> QED
  BY <1>3, <1>4

\* Outcomes and admissions stand.
LEMMA FinishedStep ==
  ASSUME TaskAssumption, TaskIInv, [Next]_vars, NEW i \in Ids
  PROVE  /\ row[i].status \in Terminal => row'[i].status = row[i].status
         /\ row[i].admitted => row'[i].admitted /\ row'[i].status # "discarded"
<1>1. TaskIInv' /\ StoreGrows
  BY NextKeeps
<1>2. row'[i].admitted => row'[i].status # "discarded"
  BY <1>1 DEF TaskIInv, StoreOK, Exists
<1> QED
  BY <1>1, <1>2 DEF StoreGrows

\* A worker that calls has read every gate.
LEMMA AuthorisedStep ==
  ASSUME TaskAssumption, TaskIInv, NEW r \in Reqs, wk[r].pc = "ready"
  PROVE  /\ resv[wk[r].id] # "none"
         /\ \A k \in DOMAIN WorkerGates : WorkerGates[k] \notin wk[r].closedAtClaim
<1>1. resv[wk[r].id] # "none"
  BY DEF TaskIInv, WorkerFits, StoreOK
<1>2. GatesRead(wk[r]) /\ wk[r].k \in Nat
  BY DEF TaskIInv, WorkerStates
<1>3. \A k \in DOMAIN WorkerGates : k < wk[r].k
  BY <1>2, GatesAreNumbered DEF GatesRead
<1> QED
  BY <1>1, <1>2, <1>3 DEF GatesRead, Preparing

\* runTask, its handlers and cancel: a finished task stays as it ended, an admitted
\* row is never deleted, the Executor is not called once the worker's own process
\* acknowledged a cancel, and never with a gate that was closed at the claim.
THEOREM DecisionsAreKept ==
  ASSUME TaskAssumption
  PROVE  Spec => DecisionsStand
<1>1. TaskIInv /\ [Next]_vars =>
        [\A i \in Ids : /\ row[i].status \in Terminal => row'[i].status = row[i].status
                        /\ row[i].admitted => row'[i].admitted /\ row'[i].status # "discarded"]_vars
  BY FinishedStep
<1>2. TaskIInv /\ [Next]_vars => [\A i \in acked : execs'[i] = execs[i]]_vars
  <2> SUFFICES ASSUME TaskIInv, [Next]_vars, NEW i \in acked, execs'[i] # execs[i] PROVE FALSE
    OBVIOUS
  <2>1. i \in Ids /\ Heeded(i)
    BY DEF TaskIInv
  <2> QED
    BY <2>1, CallStep DEF Heeded, Calm
<1>3. TaskIInv /\ [Next]_vars =>
        [\A r \in Reqs : wk[r].pc = "ready" /\ wk'[r].pc = "calling" =>
           /\ resv[wk[r].id] # "none"
           /\ \A k \in DOMAIN WorkerGates : WorkerGates[k] \notin wk[r].closedAtClaim]_vars
  BY AuthorisedStep
<1>4. Spec => FinishedIsFinal
  BY <1>1, TaskIInvHolds, PTL DEF Spec, FinishedIsFinal
<1>5. Spec => CancelIsHeeded
  BY <1>2, TaskIInvHolds, PTL DEF Spec, CancelIsHeeded
<1>6. Spec => CallIsAuthorised
  BY <1>3, TaskIInvHolds, PTL DEF Spec, CallIsAuthorised
<1> QED
  BY <1>4, <1>5, <1>6 DEF DecisionsStand

-----------------------------------------------------------------------------
(* The event log of a task, for any process the stream may be in.  Every    *)
(* status is appended by one writer, so there are at most four events; a    *)
(* writer of an outcome that no other writer was behind takes the highest   *)
(* id there will ever be.                                                   *)

EventIds == 1..MaxEvents
Writing == [pc: Places, type: Statuses, id: 0..MaxEvents]

\* The ids a writer may have taken (a statement whose INSERT threw has taken one or
\* none): the worker's second event follows its first.
Taken(w) == (IF w.type \in {"succeeded", "failed"} THEN 1 ELSE 0)
            + (IF w.type # "none" /\ w.pc # "append" THEN 1 ELSE 0)

\* Which writer wrote the status, and what the others had written before.
WhoWrote(s, c, w, x) ==
  \/ s = "none" /\ c.type = "none" /\ w.type = "none" /\ x.type = "none"
  \/ s = "pending" /\ c.type = "pending" /\ w.type = "none" /\ x.type = "none"
  \/ s = "running" /\ c.type = "pending" /\ w.type = "running" /\ x.type = "none"
  \/ s \in {"succeeded", "failed"} /\ c.type = "pending" /\ w.type = s /\ x.type = "none"
  \/ s = "cancelled" /\ c.type = "pending" /\ w.type \in {"none", "running"} /\ x.type = "cancelled"

\* The types of the log's variables.
LogTypes ==
  /\ status \in Statuses /\ overtook \in BOOLEAN /\ nextId \in 1..(MaxEvents + 1)
  /\ log \in [EventIds -> Statuses]
  /\ actor \in [Actors -> Writing]
  /\ client = [pc |-> client.pc, history |-> client.history, got |-> client.got, last |-> client.last]

\* What a writer has under way: an id that was handed out, and an event once it tells of it.
WriterKnows(w) ==
  /\ w.id < nextId
  /\ w.pc # "idle" => w.type # "none"
  /\ w.pc \in {"insert", "notify"} => w.id # 0
  /\ w.pc = "append" => w.id = 0
  /\ w.pc = "notify" => log[w.id] # "none"

\* The ids are counted, and nothing is visible or known to the client without one.
IdsInOrder ==
  /\ nextId <= 1 + Taken(actor["creator"]) + Taken(actor["worker"]) + Taken(actor["canceller"])
  /\ \A a \in Actors : WriterKnows(actor[a])
  /\ \A e \in EventIds : log[e] # "none" => e < nextId
  /\ client.got \subseteq EventIds /\ client.history \subseteq EventIds
  /\ \A e \in client.got \cup client.history : log[e] # "none"

\* A visible outcome is its writer's event.
OutcomeHasWriter ==
  \A e \in EventIds : log[e] \in Outcomes =>
    \E t \in Actors : actor[t].type = log[e] /\ actor[t].id = e

\* An outcome that overtook nothing has the highest id, once it has one.
Highest(t) ==
  /\ \A b \in Actors \ {t} : actor[b].pc # "append"
  /\ actor[t].id # 0 => /\ \A b \in Actors : actor[b].id <= actor[t].id
                        /\ \A e \in EventIds : log[e] # "none" => e <= actor[t].id
OutcomeIsHighest ==
  \A t \in Actors : actor[t].type \in Outcomes /\ ~overtook => Highest(t)

\* The inductive invariant of the log.
LogIInv ==
  /\ LogTypes
  /\ WhoWrote(status, actor["creator"], actor["worker"], actor["canceller"])
  /\ IdsInOrder
  /\ OutcomeHasWriter
  /\ OutcomeIsHighest

\* It holds before the task is created.
LEMMA LogStarts == ASSUME LogInit PROVE LogIInv
<1>1. LogTypes /\ \A a \in Actors : actor[a] = [pc |-> "idle", type |-> "none", id |-> 0]
  <2>1. actor \in [Actors -> Writing] /\ \A a \in Actors : actor[a] = [pc |-> "idle", type |-> "none", id |-> 0]
    BY DEF LogInit, Idle, Writing, Places, Statuses, MaxEvents
  <2>2. /\ status \in Statuses /\ overtook \in BOOLEAN /\ nextId \in 1..(MaxEvents + 1)
        /\ log \in [EventIds -> Statuses]
    <3>1. status \in Statuses /\ overtook \in BOOLEAN
      BY DEF LogInit, Statuses
    <3>2. nextId \in 1..(MaxEvents + 1)
      BY DEF LogInit, MaxEvents
    <3>3. log \in [EventIds -> Statuses]
      BY DEF LogInit, Statuses, EventIds
    <3> QED
      BY <3>1, <3>2, <3>3
  <2>3. client = [pc |-> client.pc, history |-> client.history, got |-> client.got, last |-> client.last]
    BY DEF LogInit
  <2> QED
    BY <2>1, <2>2, <2>3 DEF LogTypes
<1>2. "creator" \in Actors /\ "worker" \in Actors /\ "canceller" \in Actors
  BY DEF Actors
<1>3. WhoWrote(status, actor["creator"], actor["worker"], actor["canceller"])
  BY <1>1, <1>2 DEF LogInit, WhoWrote
<1>4. IdsInOrder
  BY <1>1, <1>2 DEF LogInit, IdsInOrder, WriterKnows, Taken, EventIds
<1>5. OutcomeHasWriter /\ OutcomeIsHighest
  BY <1>1 DEF LogInit, OutcomeHasWriter, OutcomeIsHighest, Outcomes, EventIds
<1> QED
  BY <1>1, <1>3, <1>4, <1>5 DEF LogIInv

\* One writer moves and the others stay; all three have their types.
LEMMA OneWriterMoves ==
  ASSUME LogIInv, NEW a \in Actors, NEW x \in Writing, actor' = [actor EXCEPT ![a] = x]
  PROVE  /\ actor' \in [Actors -> Writing] /\ actor'[a] = x
         /\ \A b \in Actors \ {a} : actor'[b] = actor[b]
         /\ \A b \in Actors : actor[b] \in Writing
  BY DEF LogIInv, LogTypes

\* How many ids each writer may take: four in all.
LEMMA AtMostFour ==
  ASSUME LogIInv
  PROVE  /\ \A b \in Actors : Taken(actor[b]) \in 0..2
         /\ \A b \in {"creator", "canceller"} : Taken(actor[b]) <= 1 /\ actor[b].type \notin {"succeeded", "failed"}
<1>1. \A b \in Actors : Taken(actor[b]) \in 0..2
  BY DEF Taken
<1>2. \A b \in {"creator", "canceller"} : actor[b].type \notin {"succeeded", "failed"}
  BY DEF LogIInv, WhoWrote
<1> QED
  BY <1>1, <1>2 DEF Taken

\* The counter of ids follows what one writer takes.
LEMMA OneTakes ==
  ASSUME LogIInv, NEW a \in Actors, NEW d \in {0, 1},
         Taken(actor'[a]) = Taken(actor[a]) + d, \A b \in Actors \ {a} : actor'[b] = actor[b],
         nextId' <= nextId + d, nextId \in Nat, nextId' \in Nat
  PROVE  nextId' <= 1 + Taken(actor'["creator"]) + Taken(actor'["worker"]) + Taken(actor'["canceller"])
<1>1. nextId <= 1 + Taken(actor["creator"]) + Taken(actor["worker"]) + Taken(actor["canceller"])
  BY DEF LogIInv, IdsInOrder
<1>2. \A b \in Actors : Taken(actor[b]) \in Nat
  BY AtMostFour
<1>3. \A b \in Actors \ {a} : Taken(actor'[b]) = Taken(actor[b])
  OBVIOUS
<1>4. CASE a = "creator"
  BY <1>1, <1>2, <1>3, <1>4 DEF Actors
<1>5. CASE a = "worker"
  BY <1>1, <1>2, <1>3, <1>5 DEF Actors
<1>6. CASE a = "canceller"
  BY <1>1, <1>2, <1>3, <1>6 DEF Actors
<1> QED
  BY <1>4, <1>5, <1>6 DEF Actors

\* A status is written while there is no outcome, and an outcome tells who was behind.
LEMMA SetStatusKeeps ==
  ASSUME LogIInv, NEW a \in Actors, NEW s \in Statuses, SetStatus(a, s)
  PROVE  LogIInv'
<1> DEFINE x == [pc |-> "append", type |-> s, id |-> 0]
<1>1. /\ actor[a].pc \in {"idle", "thrown"} /\ MayMove(a, s) /\ status' = s /\ actor' = [actor EXCEPT ![a] = x]
      /\ overtook' = (overtook \/ (s \in Outcomes /\ \E b \in Actors \ {a} : actor[b].pc = "append"))
      /\ UNCHANGED <<nextId, log, client>>
  BY DEF SetStatus, MayMove
<1>2. x \in Writing
  BY DEF Writing, Places, MaxEvents
<1>3. /\ actor' \in [Actors -> Writing] /\ actor'[a] = x /\ \A b \in Actors \ {a} : actor'[b] = actor[b]
      /\ \A b \in Actors : actor[b] \in Writing
  BY <1>1, <1>2, OneWriterMoves
<1>4. /\ a = "creator" => status = "none" /\ s = "pending"
      /\ a = "worker" => \/ status = "pending" /\ s = "running"
                         \/ status = "running" /\ s \in {"succeeded", "failed"}
      /\ a = "canceller" => status \in {"pending", "running"} /\ s = "cancelled"
  <2>1. CASE a = "creator"
    BY <1>1, <2>1 DEF MayMove
  <2>2. CASE a = "worker"
    <3>1. MayMove("worker", s)
      BY <1>1, <2>2
    <3>2. \/ status = "pending" /\ s = "running"
          \/ status = "running" /\ s \in {"succeeded", "failed"}
      BY <3>1, Zenon DEF MayMove
    <3> QED
      BY <2>2, <3>2
  <2>3. CASE a = "canceller"
    BY <1>1, <2>3 DEF MayMove
  <2> QED
    BY <2>1, <2>2, <2>3 DEF Actors
<1>5. WhoWrote(status, actor["creator"], actor["worker"], actor["canceller"])
  BY DEF LogIInv
<1>6. /\ \A t \in Actors : actor[t].type \notin Outcomes
      /\ actor["creator"].type = IF status = "none" THEN "none" ELSE "pending"
      /\ actor["worker"].type = IF status = "running" THEN "running" ELSE "none"
      /\ actor["canceller"].type = "none"
  BY <1>4, <1>5 DEF WhoWrote, Actors, Outcomes
<1>7. /\ WhoWrote(s, actor'["creator"], actor'["worker"], actor'["canceller"])
      /\ Taken(x) = Taken(actor[a]) + 0
  <2>1. CASE a = "creator"
    BY <1>1, <1>3, <1>4, <1>6, <2>1 DEF WhoWrote, Taken, Actors
  <2>2. CASE a = "worker" /\ status = "pending"
    BY <1>1, <1>3, <1>4, <1>6, <2>2 DEF WhoWrote, Taken, Actors
  <2>3. CASE a = "worker" /\ status = "running"
    BY <1>1, <1>3, <1>4, <1>6, <2>3 DEF WhoWrote, Taken, Actors
  <2>4. CASE a = "canceller"
    BY <1>1, <1>3, <1>4, <1>6, <2>4 DEF WhoWrote, Taken, Actors
  <2> QED
    BY <1>4, <2>1, <2>2, <2>3, <2>4 DEF Actors
<1> HIDE DEF x
<1>8. LogTypes'
  BY <1>1, <1>3 DEF LogIInv, LogTypes
<1>9. IdsInOrder'
  <2>1. nextId' <= 1 + Taken(actor'["creator"]) + Taken(actor'["worker"]) + Taken(actor'["canceller"])
    BY <1>1, <1>3, <1>7, OneTakes DEF LogIInv, LogTypes, MaxEvents
  <2>2. \A b \in Actors : WriterKnows(actor[b]) /\ x.pc = "append" /\ x.id = 0 /\ x.type # "none" /\ nextId >= 1
    BY <1>4 DEF LogIInv, IdsInOrder, LogTypes, x, Actors
  <2>3. \A b \in Actors \ {a} : WriterKnows(actor[b])'
    BY <1>1, <1>3, <2>2 DEF WriterKnows
  <2>4. WriterKnows(actor[a])'
    BY <1>1, <1>3, <2>2 DEF WriterKnows, LogIInv, LogTypes
  <2> QED
    BY <1>1, <2>1, <2>3, <2>4 DEF LogIInv, IdsInOrder
<1>10. OutcomeHasWriter'
  BY <1>1, <1>6 DEF LogIInv, OutcomeHasWriter
<1>11. OutcomeIsHighest'
  BY <1>1, <1>3, <1>6 DEF OutcomeIsHighest, Highest, x
<1> QED
  BY <1>1, <1>7, <1>8, <1>9, <1>10, <1>11 DEF LogIInv

\* The next id is higher than all there are, and there are four at most.
LEMMA TakeIdKeeps ==
  ASSUME LogIInv, NEW a \in Actors, TakeId(a)
  PROVE  LogIInv'
<1> DEFINE w == actor[a]
           x == [w EXCEPT !.pc = "insert", !.id = nextId]
<1>1. /\ w.pc = "append" /\ nextId' = nextId + 1 /\ UNCHANGED <<status, overtook, log, client>>
      /\ actor' = [actor EXCEPT ![a] = x]
  BY DEF TakeId, LogIInv, LogTypes
<1>2. w \in Writing /\ w.type # "none" /\ nextId \in Nat \ {0} /\ IdsInOrder
  BY <1>1 DEF LogIInv, LogTypes, IdsInOrder, WriterKnows
<1>3. nextId <= MaxEvents
  <2>1. Taken(w) = IF w.type \in {"succeeded", "failed"} THEN 1 ELSE 0
    BY <1>1, <1>2 DEF Taken
  <2>2. nextId <= 1 + Taken(actor["creator"]) + Taken(actor["worker"]) + Taken(actor["canceller"])
    BY <1>2 DEF IdsInOrder
  <2>3. CASE a = "worker"
    BY <1>2, <2>1, <2>2, <2>3, AtMostFour DEF Actors, MaxEvents
  <2>4. CASE a # "worker"
    BY <1>2, <2>1, <2>2, <2>4, AtMostFour DEF Actors, MaxEvents
  <2> QED
    BY <2>3, <2>4
<1> HIDE DEF w
<1>4. /\ x \in Writing /\ x.pc = "insert" /\ x.id = nextId /\ x.type = w.type
  <2>1. nextId \in 0..MaxEvents
    BY <1>2, <1>3 DEF MaxEvents
  <2> QED
    BY <1>2, <2>1 DEF Writing, Places
<1>5. Taken(x) = Taken(w) + 1
  BY <1>1, <1>2, <1>4 DEF Taken
<1> HIDE DEF x
<1>6. /\ actor' \in [Actors -> Writing] /\ actor'[a] = x /\ \A b \in Actors \ {a} : actor'[b] = actor[b]
      /\ \A b \in Actors : actor[b] \in Writing
  BY <1>1, <1>4, OneWriterMoves
<1>7. LogTypes'
  BY <1>1, <1>2, <1>3, <1>6 DEF LogIInv, LogTypes, MaxEvents
<1>8. \A b \in Actors : actor'[b].type = actor[b].type
  BY <1>4, <1>6 DEF w
<1>9. WhoWrote(status', actor'["creator"], actor'["worker"], actor'["canceller"])
  BY <1>1, <1>8 DEF LogIInv, WhoWrote, Actors
<1>10. IdsInOrder'
  <2>1. nextId' <= 1 + Taken(actor'["creator"]) + Taken(actor'["worker"]) + Taken(actor'["canceller"])
    BY <1>1, <1>2, <1>5, <1>6, OneTakes DEF w
  <2>2. \A b \in Actors : actor[b].id \in Nat
    BY <1>6 DEF Writing, Places
  <2>3. \A b \in Actors : WriterKnows(actor[b])'
    BY <1>1, <1>2, <1>4, <1>6, <2>2 DEF WriterKnows, IdsInOrder
  <2>4. \A e \in EventIds : log'[e] # "none" => e < nextId'
    BY <1>1, <1>2 DEF IdsInOrder, EventIds
  <2> QED
    BY <1>1, <1>2, <2>1, <2>3, <2>4 DEF IdsInOrder
<1>11. OutcomeHasWriter'
  <2>1. w.id = 0
    BY <1>1, <1>2 DEF IdsInOrder, WriterKnows, w
  <2> QED
    BY <1>1, <1>6, <1>8, <2>1 DEF LogIInv, OutcomeHasWriter, EventIds, w
<1>12. OutcomeIsHighest'
  <2>1. SUFFICES ASSUME NEW t \in Actors, actor[t].type \in Outcomes, ~overtook
                 PROVE  Highest(t)'
    BY <1>1, <1>8 DEF OutcomeIsHighest
  <2>2. Highest(t)
    BY <2>1 DEF LogIInv, OutcomeIsHighest
  <2>3. t = a
    BY <1>1, <2>2 DEF Highest, w
  <2>4. \A b \in Actors \ {a} : actor'[b].pc # "append"
    BY <1>6, <2>2, <2>3 DEF Highest
  <2>5. \A b \in Actors : actor[b].id \in Nat /\ actor[b].id < nextId
    BY <1>2, <1>6 DEF IdsInOrder, WriterKnows, Writing, Places
  <2>6. \A b \in Actors : actor'[b].id <= nextId
    BY <1>2, <1>4, <1>6, <2>5
  <2>7. \A e \in EventIds : log'[e] # "none" => e <= nextId
    BY <1>1, <1>2 DEF IdsInOrder, EventIds
  <2> QED
    BY <1>4, <1>6, <2>3, <2>4, <2>6, <2>7 DEF Highest
<1> QED
  BY <1>7, <1>9, <1>10, <1>11, <1>12 DEF LogIInv

\* The event becomes visible under the id its writer took.
LEMMA VisibleKeeps ==
  ASSUME LogIInv, NEW a \in Actors, Visible(a)
  PROVE  LogIInv'
<1> DEFINE w == actor[a]
           x == [w EXCEPT !.pc = "notify"]
<1>1. /\ w.pc = "insert" /\ log' = [log EXCEPT ![w.id] = w.type] /\ UNCHANGED <<status, nextId, overtook, client>>
      /\ actor' = [actor EXCEPT ![a] = x]
  BY DEF Visible, LogIInv, LogTypes
<1>2. /\ w \in Writing /\ w.type # "none" /\ w.id \in EventIds /\ w.id < nextId /\ IdsInOrder
      /\ log \in [EventIds -> Statuses]
  <2>1. w \in Writing /\ WriterKnows(w) /\ IdsInOrder /\ log \in [EventIds -> Statuses]
    BY DEF LogIInv, LogTypes, IdsInOrder
  <2>2. w.type # "none" /\ w.id # 0 /\ w.id < nextId
    BY <1>1, <2>1 DEF WriterKnows
  <2> QED
    BY <2>1, <2>2 DEF Writing, Places, EventIds, MaxEvents
<1> HIDE DEF w
<1>3. x \in Writing /\ x.pc = "notify" /\ x.id = w.id /\ x.type = w.type
  BY <1>2 DEF Writing, Places
<1>4. Taken(x) = Taken(w) + 0
  BY <1>1, <1>2, <1>3 DEF Taken
<1> HIDE DEF x
<1>5. /\ actor' \in [Actors -> Writing] /\ actor'[a] = x /\ \A b \in Actors \ {a} : actor'[b] = actor[b]
      /\ \A b \in Actors : actor[b] \in Writing
  BY <1>1, <1>3, OneWriterMoves
<1>6. \A b \in Actors : actor'[b].type = actor[b].type /\ actor'[b].id = actor[b].id
                        /\ (actor'[b].pc = "append" <=> actor[b].pc = "append")
  BY <1>1, <1>3, <1>5 DEF w
<1>7. /\ log' \in [EventIds -> Statuses] /\ log'[w.id] = w.type
      /\ \A e \in EventIds : e # w.id => log'[e] = log[e]
  BY <1>1, <1>2 DEF Writing, Places
<1>8. LogTypes'
  BY <1>1, <1>5, <1>7 DEF LogIInv, LogTypes
<1>9. WhoWrote(status', actor'["creator"], actor'["worker"], actor'["canceller"])
  BY <1>1, <1>6 DEF LogIInv, WhoWrote, Actors
<1>10. \A e \in EventIds : log[e] # "none" => log'[e] # "none"
  BY <1>2, <1>7
<1>11. IdsInOrder'
  <2>1. nextId' <= 1 + Taken(actor'["creator"]) + Taken(actor'["worker"]) + Taken(actor'["canceller"])
    BY <1>1, <1>4, <1>5, OneTakes DEF w, LogIInv, LogTypes, MaxEvents
  <2>2. \A b \in Actors \ {a} : WriterKnows(actor[b])'
    <3>1. SUFFICES ASSUME NEW b \in Actors \ {a} PROVE WriterKnows(actor[b])'
      OBVIOUS
    <3>2. actor'[b] = actor[b] /\ WriterKnows(actor[b]) /\ actor[b] \in Writing /\ nextId' = nextId
      BY <1>1, <1>2, <1>5 DEF IdsInOrder
    <3>3. actor[b].pc = "notify" => actor[b].id \in EventIds /\ log[actor[b].id] # "none"
      BY <3>2 DEF WriterKnows, Writing, Places, EventIds
    <3>4. actor[b].pc = "notify" => log'[actor[b].id] # "none"
      BY <1>10, <3>3
    <3> QED
      BY <3>2, <3>4 DEF WriterKnows
  <2>3. WriterKnows(actor[a])'
    <3>1. actor'[a] = x /\ x.pc = "notify" /\ x.id < nextId' /\ x.type # "none" /\ x.id # 0 /\ log'[x.id] # "none"
      BY <1>1, <1>2, <1>3, <1>5, <1>7 DEF EventIds
    <3> QED
      BY <3>1 DEF WriterKnows
  <2>4. \A e \in EventIds : log'[e] # "none" => e < nextId'
    BY <1>1, <1>2, <1>7 DEF IdsInOrder
  <2>5. /\ client'.got \subseteq EventIds /\ client'.history \subseteq EventIds
        /\ \A e \in client'.got \cup client'.history : log'[e] # "none"
    BY <1>1, <1>2, <1>10 DEF IdsInOrder
  <2> QED
    BY <2>1, <2>2, <2>3, <2>4, <2>5 DEF IdsInOrder
<1>12. OutcomeHasWriter'
  <2>1. SUFFICES ASSUME NEW e \in EventIds, log'[e] \in Outcomes
                 PROVE  \E t \in Actors : actor'[t].type = log'[e] /\ actor'[t].id = e
    BY DEF OutcomeHasWriter
  <2>2. CASE e = w.id
    BY <1>3, <1>5, <1>7, <2>2
  <2>3. CASE e # w.id
    <3>1. PICK t \in Actors : actor[t].type = log[e] /\ actor[t].id = e
      BY <1>7, <2>1, <2>3 DEF LogIInv, OutcomeHasWriter
    <3> QED
      BY <1>6, <1>7, <2>3, <3>1
  <2> QED
    BY <2>2, <2>3
<1>13. OutcomeIsHighest'
  <2>1. SUFFICES ASSUME NEW t \in Actors, actor[t].type \in Outcomes, ~overtook
                 PROVE  Highest(t)'
    BY <1>1, <1>6 DEF OutcomeIsHighest
  <2>2. Highest(t)
    BY <2>1 DEF LogIInv, OutcomeIsHighest
  <2>3. \A b \in Actors \ {t} : actor'[b].pc # "append"
    BY <1>6, <2>2 DEF Highest
  <2>4. ASSUME actor'[t].id # 0
        PROVE  /\ \A b \in Actors : actor'[b].id <= actor'[t].id
               /\ \A e \in EventIds : log'[e] # "none" => e <= actor'[t].id
    <3>1. actor[t].id # 0
      BY <1>6, <2>4
    <3>2. /\ \A b \in Actors : actor[b].id <= actor[t].id
          /\ \A e \in EventIds : log[e] # "none" => e <= actor[t].id
      BY <2>2, <3>1 DEF Highest
    <3> QED
      BY <1>6, <1>7, <3>2 DEF w
  <2> QED
    BY <2>3, <2>4 DEF Highest
<1> QED
  BY <1>8, <1>9, <1>11, <1>12, <1>13 DEF LogIInv

\* A step of the client or of a listener, or a statement that throws, changes
\* nothing that the log says.
LEMMA ClientKeeps ==
  ASSUME LogIInv, UNCHANGED <<status, nextId, overtook, log>>,
         client' = [pc |-> client'.pc, history |-> client'.history, got |-> client'.got, last |-> client'.last],
         client'.got \subseteq EventIds, client'.history \subseteq EventIds,
         \A e \in client'.got \cup client'.history : log[e] # "none",
         actor' \in [Actors -> Writing],
         \A b \in Actors : /\ actor'[b].type = actor[b].type /\ actor'[b].id = actor[b].id
                           /\ \/ actor'[b].pc = actor[b].pc
                              \/ actor[b].pc = "notify" /\ actor'[b].pc = "idle"
                              \/ actor[b].type # "none" /\ actor'[b].pc = "thrown"
  PROVE  LogIInv'
<1>1. LogTypes' /\ WhoWrote(status', actor'["creator"], actor'["worker"], actor'["canceller"])
  BY DEF LogIInv, LogTypes, WhoWrote, Actors
<1>2. \A b \in Actors : /\ actor'[b].pc = "append" => actor[b].pc = "append"
                        /\ Taken(actor'[b]) >= Taken(actor[b]) /\ Taken(actor'[b]) \in 0..2 /\ Taken(actor[b]) \in 0..2
  BY DEF Taken
<1>3. IdsInOrder'
  <2>1. \A b \in Actors : WriterKnows(actor[b])'
    BY DEF LogIInv, IdsInOrder, WriterKnows
  <2>2. nextId' <= 1 + Taken(actor'["creator"]) + Taken(actor'["worker"]) + Taken(actor'["canceller"])
    BY <1>2 DEF LogIInv, LogTypes, IdsInOrder, Actors, MaxEvents
  <2> QED
    BY <2>1, <2>2 DEF LogIInv, IdsInOrder
<1>4. OutcomeHasWriter'
  BY <1>2 DEF LogIInv, OutcomeHasWriter
<1>5. OutcomeIsHighest'
  BY <1>2 DEF LogIInv, OutcomeIsHighest, Highest
<1> QED
  BY <1>1, <1>3, <1>4, <1>5 DEF LogIInv

\* The writer's promise settles, and a listener of its process gets the event.
LEMMA NotifyKeeps ==
  ASSUME LogIInv, NEW a \in Actors, Notify(a)
  PROVE  LogIInv'
<1> DEFINE w == actor[a]
           x == [w EXCEPT !.pc = "idle"]
<1>1. /\ w.pc = "notify" /\ actor' = [actor EXCEPT ![a] = x] /\ UNCHANGED <<status, nextId, overtook, log>>
      /\ client' = client \/ client' = Receive(client, {w.id})
  BY DEF Notify, LogIInv, LogTypes
<1>2. w \in Writing /\ w.id \in EventIds /\ log[w.id] # "none"
  BY <1>1 DEF LogIInv, LogTypes, IdsInOrder, WriterKnows, Writing, Places, EventIds
<1> HIDE DEF w
<1>3. x \in Writing /\ x.pc = "idle" /\ x.id = w.id /\ x.type = w.type
  BY <1>2 DEF Writing, Places
<1> HIDE DEF x
<1>4. /\ actor' \in [Actors -> Writing] /\ actor'[a] = x /\ \A b \in Actors \ {a} : actor'[b] = actor[b]
  BY <1>1, <1>3, OneWriterMoves
<1>5. client = [pc |-> client.pc, history |-> client.history, got |-> client.got, last |-> client.last]
  BY DEF LogIInv, LogTypes
<1>6. /\ client' = [pc |-> client'.pc, history |-> client'.history, got |-> client'.got, last |-> client'.last]
      /\ client'.got \subseteq client.got \cup {w.id} /\ client'.history = client.history
  BY <1>1, <1>5 DEF Receive
<1>7. /\ client.got \subseteq EventIds /\ client.history \subseteq EventIds
      /\ \A e \in client.got \cup client.history : log[e] # "none"
  BY DEF LogIInv, IdsInOrder
<1>8. \A b \in Actors : /\ actor'[b].type = actor[b].type /\ actor'[b].id = actor[b].id
                        /\ \/ actor'[b].pc = actor[b].pc
                           \/ actor[b].pc = "notify" /\ actor'[b].pc = "idle"
                           \/ actor[b].type # "none" /\ actor'[b].pc = "thrown"
  BY <1>1, <1>3, <1>4 DEF w
<1> QED
  BY <1>1, <1>2, <1>4, <1>6, <1>7, <1>8, ClientKeeps

\* A statement that throws leaves its status, and its event if it is visible.
LEMMA AppendThrowsKeeps ==
  ASSUME LogIInv, NEW a \in Actors, AppendThrows(a)
  PROVE  LogIInv'
<1> DEFINE x == [actor[a] EXCEPT !.pc = "thrown"]
<1>1. /\ actor[a].pc # "idle" /\ UNCHANGED <<status, nextId, overtook, log, client>>
      /\ actor' = [actor EXCEPT ![a] = x]
  BY DEF AppendThrows, LogIInv, LogTypes
<1>2. actor[a] \in Writing /\ actor[a].type # "none"
  BY <1>1 DEF LogIInv, LogTypes, IdsInOrder, WriterKnows
<1>3. x \in Writing /\ x.pc = "thrown" /\ x.id = actor[a].id /\ x.type = actor[a].type
  BY <1>2 DEF Writing, Places
<1> HIDE DEF x
<1>4. actor' \in [Actors -> Writing] /\ actor'[a] = x /\ \A b \in Actors \ {a} : actor'[b] = actor[b]
  BY <1>1, <1>3, OneWriterMoves
<1>5. /\ client = [pc |-> client.pc, history |-> client.history, got |-> client.got, last |-> client.last]
      /\ client.got \subseteq EventIds /\ client.history \subseteq EventIds
      /\ \A e \in client.got \cup client.history : log[e] # "none"
  BY DEF LogIInv, LogTypes, IdsInOrder
<1>6. \A b \in Actors : /\ actor'[b].type = actor[b].type /\ actor'[b].id = actor[b].id
                        /\ \/ actor'[b].pc = actor[b].pc
                           \/ actor[b].pc = "notify" /\ actor'[b].pc = "idle"
                           \/ actor[b].type # "none" /\ actor'[b].pc = "thrown"
  BY <1>2, <1>3, <1>4
<1> QED
  BY <1>1, <1>4, <1>5, <1>6, ClientKeeps

\* The stream reads what is visible, sends what it read and closes.
LEMMA StreamKeeps ==
  ASSUME LogIInv, Connect \/ Subscribe \/ Disconnect
  PROVE  LogIInv'
<1>1. client = [pc |-> client.pc, history |-> client.history, got |-> client.got, last |-> client.last]
  BY DEF LogIInv, LogTypes
<1>2. /\ client.got \subseteq EventIds /\ client.history \subseteq EventIds
      /\ \A e \in client.got \cup client.history : log[e] # "none"
  BY DEF LogIInv, IdsInOrder
<1>3. /\ UNCHANGED <<status, actor, nextId, overtook, log>>
      /\ client' = [pc |-> client'.pc, history |-> client'.history, got |-> client'.got, last |-> client'.last]
      /\ client'.got \subseteq EventIds /\ client'.history \subseteq EventIds
      /\ \A e \in client'.got \cup client'.history : log[e] # "none"
  <2>1. CASE Connect
    BY <1>1, <1>2, <2>1 DEF Connect, EventsAfter, EventIds
  <2>2. CASE Subscribe
    BY <1>1, <1>2, <2>2 DEF Subscribe, Receive
  <2>3. CASE Disconnect
    BY <1>1, <1>2, <2>3 DEF Disconnect
  <2> QED
    BY <2>1, <2>2, <2>3
<1>4. actor' \in [Actors -> Writing]
  BY <1>3 DEF LogIInv, LogTypes
<1> QED
  BY <1>3, <1>4, ClientKeeps

\* It survives every step.
LEMMA LogStepKeeps ==
  ASSUME LogIInv, [LogNext]_logVars
  PROVE  LogIInv'
<1>1. CASE UNCHANGED logVars
  <2>1. actor' \in [Actors -> Writing] /\ UNCHANGED <<status, actor, nextId, overtook, log, client>>
    BY <1>1 DEF LogIInv, LogTypes, logVars
  <2>2. /\ client = [pc |-> client.pc, history |-> client.history, got |-> client.got, last |-> client.last]
        /\ client.got \subseteq EventIds /\ client.history \subseteq EventIds
        /\ \A e \in client.got \cup client.history : log[e] # "none"
    BY DEF LogIInv, LogTypes, IdsInOrder
  <2> QED
    BY <2>1, <2>2, ClientKeeps
<1>2. ASSUME NEW a \in Actors, Write(a)
      PROVE  LogIInv'
  BY <1>2, SetStatusKeeps, TakeIdKeeps, VisibleKeeps, AppendThrowsKeeps, NotifyKeeps DEF Write
<1>3. CASE Connect \/ Subscribe \/ Disconnect
  BY <1>3, StreamKeeps
<1> QED
  BY <1>1, <1>2, <1>3 DEF LogNext

\* Whatever order the writers' statements, the reads of the stream and its
\* reconnections come in, and whichever of them throw, nothing is told before it is visible, and nothing follows
\* an outcome in the log unless a cancel overtook it; for any process of the stream.
THEOREM LogTellsOneStory == LogSpec => []LogInv
<1>1. LogInit => LogIInv
  BY LogStarts
<1>2. LogIInv /\ [LogNext]_logVars => LogIInv'
  BY LogStepKeeps
<1>3. LogIInv => LogInv
  <2> SUFFICES ASSUME LogIInv PROVE LogInv
    OBVIOUS
  <2>1. LogTypeOK
    <3>1. actor \in [Actors -> Writing]
      BY DEF LogIInv, LogTypes
    <3>2. actor \in [Actors -> [pc: Places, type: Statuses, id: 0..MaxEvents]]
      BY <3>1 DEF Writing
    <3> QED
      BY <3>2 DEF LogIInv, LogTypes, IdsInOrder, LogTypeOK, EventIds
  <2>2. OutcomeIsLastInLog
    <3>1. SUFFICES ASSUME NEW d \in EventIds, NEW e \in EventIds, log[d] \in Outcomes, log[e] # "none", ~overtook
                   PROVE  e <= d
      BY DEF OutcomeIsLastInLog, EventIds
    <3>2. PICK t \in Actors : actor[t].type = log[d] /\ actor[t].id = d
      BY <3>1 DEF LogIInv, OutcomeHasWriter
    <3>3. Highest(t)
      BY <3>1, <3>2 DEF LogIInv, OutcomeIsHighest
    <3> QED
      BY <3>1, <3>2, <3>3 DEF Highest, EventIds
  <2> QED
    BY <2>1, <2>2 DEF LogInv
<1> QED
  BY <1>1, <1>2, <1>3, PTL DEF LogSpec
=============================================================================
