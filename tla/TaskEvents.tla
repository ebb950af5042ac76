------------------------------ MODULE TaskEvents ------------------------------
(***************************************************************************)
(* The event log of one task and the SSE stream GET /v1/tasks/{id}/events  *)
(* that follows it.  A status change is one statement, its event another:  *)
(* the INSERT takes its id from a sequence, becomes visible when it        *)
(* commits, and only when the writer's promise settles are the listeners   *)
(* of that process called.  Between any two of them a store call can throw *)
(* or the process can end.  The stream reads the history, awaits, sends it *)
(* and only then subscribes; a client that reconnects sends the id of the  *)
(* last event it received.  "failed" stands for "timed_out" as well.       *)
(***************************************************************************)
EXTENDS Integers, FiniteSets, FiniteSetsExt

CONSTANTS
  StreamProcess     \* the actors whose events reach this stream's listeners

Actors == {"creator", "worker", "canceller"}
Outcomes == {"succeeded", "failed", "cancelled"}
Statuses == {"none", "pending", "running"} \cup Outcomes
Places == {"idle", "append", "insert", "notify", "thrown"}
MaxEvents == 4

EventAssumption ==
  StreamProcess \subseteq Actors

VARIABLES
  status,   \* cloud_task.status
  actor,    \* each writer: pc, the event it is appending and its id
  nextId,   \* the sequence behind event_id
  overtook, \* an outcome committed before another status's event had its id
  log,      \* committed events: id -> type, "none" while not visible
  client    \* the SSE connection: pc, the history it read, the events and the last
            \* id it received

logVars == <<status, actor, nextId, overtook, log, client>>

Idle == [pc |-> "idle", type |-> "none", id |-> 0]

LogInit ==
  /\ status = "none"
  /\ actor = [a \in Actors |-> Idle]
  /\ nextId = 1
  /\ overtook = FALSE
  /\ log = [e \in 1..MaxEvents |-> "none"]
  /\ client = [pc |-> "closed", history |-> {}, got |-> {}, last |-> 0]

-----------------------------------------------------------------------------
(* Writers: createTask, claimPendingTask, transitionIfStatus, appendEvent   *)

\* Variant: a cancel does not look at the status.
MayMoveAnyStatus(a, s) ==
  /\ actor[a].pc = "idle"
  /\ CASE a = "creator" -> status = "none" /\ s = "pending"
       [] a = "worker" -> \/ status = "pending" /\ s = "running"
                          \/ status = "running" /\ s = "succeeded"
       [] a = "canceller" -> status # "none" /\ actor[a].type = "none" /\ s = "cancelled"

\* The predicates of the status statements; a writer does one thing after the
\* other, and a worker whose claim threw can only record a failure.  A retry finds
\* the row as soon as it is there, so the worker does not wait for the creator.
MayMove(a, s) ==
  \/ /\ actor[a].pc = "idle"
     /\ CASE a = "creator" -> status = "none" /\ s = "pending"
          [] a = "worker" -> \/ status = "pending" /\ s = "running"
                             \/ status = "running" /\ s \in {"succeeded", "failed"}
          [] a = "canceller" -> status \in {"pending", "running"} /\ s = "cancelled"
  \/ actor[a].pc = "thrown" /\ a = "worker" /\ status = "running" /\ s = "failed"

\* UPDATE cloud_task ... RETURNING: the status commits before its event exists.
SetStatus(a, s) ==
  /\ MayMove(a, s)
  /\ status' = s
  /\ actor' = [actor EXCEPT ![a] = [pc |-> "append", type |-> s, id |-> 0]]
  /\ overtook' = (overtook \/ (s \in Outcomes /\ \E b \in Actors \ {a} : actor[b].pc = "append"))
  /\ UNCHANGED <<nextId, log, client>>

\* INSERT INTO cloud_task_event: the id is taken ...
TakeId(a) ==
  /\ actor[a].pc = "append"
  /\ actor' = [actor EXCEPT ![a].pc = "insert", ![a].id = nextId]
  /\ nextId' = nextId + 1
  /\ UNCHANGED <<status, overtook, log, client>>

\* ... and the row becomes visible.
Visible(a) ==
  /\ actor[a].pc = "insert"
  /\ log' = [log EXCEPT ![actor[a].id] = actor[a].type]
  /\ actor' = [actor EXCEPT ![a].pc = "notify"]
  /\ UNCHANGED <<status, nextId, overtook, client>>

\* Events sent to the client, in the order of their ids.
Receive(c, es) ==
  [c EXCEPT !.got = @ \cup es,
            !.last = IF es = {} THEN @ ELSE Max(es)]

\* The INSERT fails, its answer is lost or the process ends: the status stands, and
\* its event is there only if the row had become visible.  Nobody appends it later.
AppendThrows(a) ==
  /\ actor[a].pc \in {"append", "insert", "notify"}
  /\ actor' = [actor EXCEPT ![a].pc = "thrown"]
  /\ UNCHANGED <<status, nextId, overtook, log, client>>

\* The writer resumes and calls the listeners of its own process.
Notify(a) ==
  /\ actor[a].pc = "notify"
  /\ actor' = [actor EXCEPT ![a].pc = "idle"]
  /\ client' = IF a \in StreamProcess /\ client.pc = "live" THEN Receive(client, {actor[a].id}) ELSE client
  /\ UNCHANGED <<status, nextId, overtook, log>>

-----------------------------------------------------------------------------
(* The stream                                                               *)

\* Variant: a reconnect goes on after every id handed out so far.
EventsAfterNewest(after) == {e \in 1..MaxEvents : log[e] # "none" /\ e >= nextId}

\* SELECT ... WHERE event_id > after ORDER BY event_id
EventsAfter(after) == {e \in 1..MaxEvents : log[e] # "none" /\ e > after}

\* Connect with Last-Event-ID; the history is read as of now.
Connect ==
  /\ client.pc = "closed"
  /\ status # "none"
  /\ client' = [client EXCEPT !.pc = "await", !.history = EventsAfter(client.last)]
  /\ UNCHANGED <<status, actor, nextId, overtook, log>>

\* The handler resumes: it sends the history and subscribes.
Subscribe ==
  /\ client.pc = "await"
  /\ client' = [Receive(client, client.history) EXCEPT !.pc = "live", !.history = {}]
  /\ UNCHANGED <<status, actor, nextId, overtook, log>>

\* The connection ends and the listener is removed.
Disconnect ==
  /\ client.pc = "live"
  /\ client' = [client EXCEPT !.pc = "closed"]
  /\ UNCHANGED <<status, actor, nextId, overtook, log>>

Write(a) ==
  (\E s \in Statuses : SetStatus(a, s)) \/ TakeId(a) \/ Visible(a) \/ AppendThrows(a) \/ Notify(a)

LogNext == (\E a \in Actors : Write(a)) \/ Connect \/ Subscribe \/ Disconnect

LogSpec == LogInit /\ [][LogNext]_logVars

\* A store call settles or throws; a connection ends some time and the client reconnects.
LogFairSpec ==
  /\ LogSpec
  /\ \A a \in Actors : WF_logVars(TakeId(a) \/ Visible(a) \/ Notify(a))
  /\ WF_logVars(Connect) /\ WF_logVars(Subscribe) /\ WF_logVars(Disconnect)

-----------------------------------------------------------------------------
\* Every variable has its type, ids are handed out before they are visible,
\* and nothing is received that is not in the log.
LogTypeOK ==
  /\ status \in Statuses
  /\ actor \in [Actors -> [pc: Places, type: Statuses, id: 0..MaxEvents]]
  /\ nextId \in 1..(MaxEvents + 1)
  /\ overtook \in BOOLEAN
  /\ \A e \in 1..MaxEvents : log[e] # "none" => e < nextId
  /\ \A e \in client.got : log[e] # "none"

\* The log tells one story: no event of a status follows the outcome, unless the
\* outcome overtook the event of an earlier status (a cancel that committed between
\* the worker's statement and its INSERT).
OutcomeIsLastInLog ==
  \A d, e \in 1..MaxEvents : log[d] \in Outcomes /\ log[e] # "none" => e <= d \/ overtook

\* The event log is well formed, reveals nothing before it is visible and tells
\* one story.
LogInv == LogTypeOK /\ OutcomeIsLastInLog

\* The outcome has no event and never will: its writer's INSERT failed.
Unlogged ==
  /\ \E a \in Actors : actor[a].type \in Outcomes /\ actor[a].pc = "thrown"
  /\ \A e \in 1..MaxEvents : log[e] \notin Outcomes

\* The client has received an event with a higher id than the outcome's.
PassedOver == \E d \in 1..MaxEvents, e \in client.got : log[d] \in Outcomes /\ d < e

\* A client that keeps reconnecting with Last-Event-ID learns the outcome although
\* events between the history and the subscription, events of other processes and
\* events whose writer died before it called its listeners never reach it.  It does
\* not if appendEvent left the status without an event, or if it was sent a later
\* event before the outcome's row became visible.
OutcomeIsTold ==
  status \in Outcomes ~> (Unlogged \/ PassedOver \/ \E e \in client.got : log[e] \in Outcomes)
=============================================================================
