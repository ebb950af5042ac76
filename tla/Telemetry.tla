------------------------------- MODULE Telemetry -------------------------------
(***************************************************************************)
(* Anonymous telemetry: ClientTelemetryReporter of the desktop client      *)
(* (client-telemetry.ts), the parser of the shared contract and the route  *)
(* POST /v1/client/telemetry (server.ts), which limits the rate of a       *)
(* device in memory and adds a batch to the hourly counts of the store.    *)
(* Events are numbered in the order they are recorded.  A fetch may fail   *)
(* while the server still gets the request, so a batch lives on its own    *)
(* once it is sent.  Windows of an hour end at any time.                   *)
(***************************************************************************)
EXTENDS Naturals, Sequences, FiniteSets, SequencesExt

CONSTANTS
  MaxEvents,      \* CLIENT_TELEMETRY_MAX_EVENTS
  OtherDevices,   \* devices that report as well
  MaxDevices,     \* entries of telemetryAttempts
  RateLimit,      \* batches of a device per hour
  MaxRecords,     \* bound on events
  MaxOthers,      \* bound on the batches of other devices
  TlFaults        \* bound on failures of the network and the store

Me == "me"
TelemetryAssumption ==
  /\ MaxEvents \in Nat \ {0} /\ MaxDevices \in Nat \ {0} /\ RateLimit \in Nat \ {0}
  /\ MaxRecords \in Nat /\ Me \notin OtherDevices

VARIABLES
  rep,        \* the reporter: queue, timer, the batch it waits for (0: none), stopped
  posts,      \* posts[i]: the i-th batch: its events and how far the server is with it
  seen,       \* events recorded so far
  refused,    \* events the full queue refused, each reported by onDrop
  told,       \* batches for which onDrop was called
  old,        \* events recorded more than fifteen minutes ago
  attempts,   \* telemetryAttempts: device -> count and whether its hour is over
  accepted,   \* batches let through in the device's current hour, a history variable
  counted,    \* events added to client_telemetry_hourly
  others, tlfaults

telemetryVars == <<rep, posts, seen, refused, told, old, attempts, accepted, counted, others, tlfaults>>

Reporters == {Me} \cup OtherDevices
Range1(s) == {s[i] : i \in 1..Len(s)}

\* The shapes of the queue, the posts and the attempts.
TelemetryTypeOK ==
  /\ rep \in [queue : Seq(1..MaxRecords), timer : BOOLEAN, sending : 0..Len(posts), stopped : BOOLEAN]
  /\ \A i \in 1..Len(posts) : posts[i].st \in {"sent", "admitted", "stored", "unsure", "refused"}
  /\ seen \in 0..MaxRecords /\ refused \subseteq 1..MaxRecords /\ told \subseteq 1..Len(posts)
  /\ DOMAIN attempts \subseteq Reporters

TelemetryInit ==
  /\ rep = [queue |-> <<>>, timer |-> FALSE, sending |-> 0, stopped |-> FALSE]
  /\ posts = <<>> /\ seen = 0 /\ refused = {} /\ told = {} /\ old = {}
  /\ attempts = [d \in {} |-> [count |-> 0, over |-> FALSE]]
  /\ accepted = 0 /\ counted = 0 /\ others = 0 /\ tlfaults = 0

-----------------------------------------------------------------------------
(* The reporter.                                                            *)

\* schedule(): at most one timer, none after stop().
Schedule(r) == IF r.timer \/ r.stopped THEN r ELSE [r EXCEPT !.timer = TRUE]

\* flush(): nothing while a batch is under way; otherwise the queue becomes a batch.
Flushes(r) == r.sending = 0 /\ r.queue # <<>>
Batch(r) == SubSeq(r.queue, 1, IF Len(r.queue) < MaxEvents THEN Len(r.queue) ELSE MaxEvents)
Flush(r) ==
  IF Flushes(r)
    THEN /\ rep' = [r EXCEPT !.timer = FALSE, !.queue = SubSeq(@, Len(Batch(r)) + 1, Len(@)),
                             !.sending = Len(posts) + 1]
         /\ posts' = Append(posts, [events |-> Batch(r), st |-> "sent"])
    ELSE rep' = r /\ UNCHANGED posts

\* record(): a full queue refuses; the event that fills it flushes, any other starts
\* the timer.
Record ==
  /\ ~rep.stopped /\ seen < MaxRecords
  /\ seen' = seen + 1
  /\ IF Len(rep.queue) >= MaxEvents
       THEN refused' = refused \cup {seen + 1} /\ UNCHANGED <<rep, posts>>
       ELSE LET q == [rep EXCEPT !.queue = Append(@, seen + 1)] IN
            /\ UNCHANGED refused
            /\ IF Len(q.queue) >= MaxEvents THEN Flush(q) ELSE rep' = Schedule(q) /\ UNCHANGED posts
  /\ UNCHANGED <<told, old, attempts, accepted, counted, others, tlfaults>>

TimerFires ==
  /\ rep.timer
  /\ Flush([rep EXCEPT !.timer = FALSE])
  /\ UNCHANGED <<seen, refused, told, old, attempts, accepted, counted, others, tlfaults>>

\* stop(): a last flush, which does nothing while a batch is under way.
StopReporter ==
  /\ ~rep.stopped
  /\ Flush([rep EXCEPT !.stopped = TRUE, !.timer = FALSE])
  /\ UNCHANGED <<seen, refused, told, old, attempts, accepted, counted, others, tlfaults>>

\* The end of flush(): onDrop unless the answer was positive, and the timer again if
\* events have come meanwhile.
FetchEnds(ok) ==
  LET done == [rep EXCEPT !.sending = 0] IN
  /\ rep' = IF done.queue # <<>> /\ ~done.stopped THEN Schedule(done) ELSE done
  /\ told' = IF ok THEN told ELSE told \cup {rep.sending}

\* The answer arrives: 202 or an error.
Answered ==
  /\ rep.sending # 0 /\ posts[rep.sending].st \in {"stored", "unsure", "refused"}
  /\ FetchEnds(posts[rep.sending].st = "stored")
  /\ UNCHANGED <<posts, seen, refused, old, attempts, accepted, counted, others, tlfaults>>

\* The connection fails; the server may not notice.
FetchFails ==
  /\ rep.sending # 0 /\ tlfaults < TlFaults /\ tlfaults' = tlfaults + 1
  /\ FetchEnds(FALSE)
  /\ UNCHANGED <<posts, seen, refused, old, attempts, accepted, counted, others>>

-----------------------------------------------------------------------------
(* The route.                                                               *)

\* Entries whose hour is over are swept only when there are too many.
Swept(a) ==
  IF Cardinality(DOMAIN a) > MaxDevices
    THEN [d \in {x \in DOMAIN a : ~a[x].over} |-> a[d]] ELSE a

\* The limit of a device: 429, a new hour, or one more in this hour.
RateVerdict(a, d) ==
  IF d \in DOMAIN a /\ ~a[d].over
    THEN IF a[d].count >= RateLimit THEN "limited" ELSE "again"
    ELSE IF d \notin DOMAIN a /\ Cardinality(DOMAIN a) >= MaxDevices THEN "busy" ELSE "first"

Entry(a, d) ==
  LET n == IF RateVerdict(a, d) = "first" THEN 1 ELSE a[d].count + 1
  IN [x \in DOMAIN a \cup {d} |-> IF x = d THEN [count |-> n, over |-> FALSE] ELSE a[x]]
Passes(a, d) == RateVerdict(a, d) \in {"first", "again"}

\* Authentication and the rate limit, before the body is read.
Admit(i) ==
  LET a == Swept(attempts) IN
  /\ posts[i].st = "sent"
  /\ \/ /\ Passes(a, Me)
        /\ attempts' = Entry(a, Me)
        /\ accepted' = IF RateVerdict(a, Me) = "first" THEN 1 ELSE accepted + 1
        /\ posts' = [posts EXCEPT ![i].st = "admitted"]
        /\ UNCHANGED tlfaults
     \/ /\ ~Passes(a, Me)
        /\ attempts' = a
        /\ posts' = [posts EXCEPT ![i].st = "refused"]
        /\ UNCHANGED <<accepted, tlfaults>>
     \/ /\ tlfaults < TlFaults /\ tlfaults' = tlfaults + 1  \* the credential is refused
        /\ posts' = [posts EXCEPT ![i].st = "refused"]
        /\ UNCHANGED <<attempts, accepted>>
  /\ UNCHANGED <<rep, seen, refused, told, old, counted, others>>

\* parseClientTelemetryBatch(): one event outside the window refuses the whole batch.
Parses(events) ==
  /\ Len(events) \in 1..MaxEvents
  /\ Range1(events) \cap old = {}

\* The body is parsed and added in one transaction, which fails as a whole; the
\* acknowledgement of its COMMIT may be lost.
Increment(i) ==
  /\ posts[i].st = "admitted"
  /\ \/ /\ ~Parses(posts[i].events)
        /\ posts' = [posts EXCEPT ![i].st = "refused"]
        /\ UNCHANGED <<counted, tlfaults>>
     \/ /\ Parses(posts[i].events)
        /\ posts' = [posts EXCEPT ![i].st = "stored"]
        /\ counted' = counted + Len(posts[i].events)
        /\ UNCHANGED tlfaults
     \/ /\ Parses(posts[i].events) /\ tlfaults < TlFaults /\ tlfaults' = tlfaults + 1
        /\ \/ posts' = [posts EXCEPT ![i].st = "refused"] /\ UNCHANGED counted
           \/ /\ posts' = [posts EXCEPT ![i].st = "unsure"]
              /\ counted' = counted + Len(posts[i].events)
  /\ UNCHANGED <<rep, seen, refused, told, old, attempts, accepted, others>>

\* Another device reports.
OtherReports(d) ==
  /\ others < MaxOthers /\ others' = others + 1
  /\ attempts' = IF Passes(Swept(attempts), d) THEN Entry(Swept(attempts), d) ELSE Swept(attempts)
  /\ UNCHANGED <<rep, posts, seen, refused, told, old, accepted, counted, tlfaults>>

\* resetsAt passes.
HourEnds(d) ==
  /\ d \in DOMAIN attempts /\ ~attempts[d].over
  /\ attempts' = [attempts EXCEPT ![d].over = TRUE]
  /\ UNCHANGED <<rep, posts, seen, refused, told, old, accepted, counted, others, tlfaults>>

\* Fifteen minutes pass before what is waiting is handled.
EventsAge ==
  /\ old # 1..seen /\ old' = 1..seen
  /\ UNCHANGED <<rep, posts, seen, refused, told, attempts, accepted, counted, others, tlfaults>>

TelemetryNext ==
  \/ Record \/ TimerFires \/ StopReporter \/ Answered \/ FetchFails \/ EventsAge
  \/ \E i \in 1..Len(posts) : Admit(i) \/ Increment(i)
  \/ \E d \in OtherDevices : OtherReports(d)
  \/ \E d \in Reporters : HourEnds(d)

TelemetrySpec == TelemetryInit /\ [][TelemetryNext]_telemetryVars

-----------------------------------------------------------------------------
(* Properties.                                                              *)

\* client-telemetry.ts: what was recorded and not refused is, in order and once, in
\* the batches and the queue: none is lost on the way from the queue to a batch and
\* none is sent twice.
SentInOrderOnce ==
  LET all == FlattenSeq([i \in 1..Len(posts) |-> posts[i].events]) \o rep.queue
  IN all = SetToSortSeq(1..seen \ refused, <)

\* client-telemetry.ts: while the reporter runs, waiting events have a timer or a
\* batch under way that will look at them; stop() is the only way to leave some.
NothingStranded ==
  rep.queue # <<>> /\ ~rep.stopped => rep.timer \/ rep.sending # 0

\* client-telemetry.ts: a batch the reporter is done with was either counted or reported
\* as dropped.
EveryLossIsTold ==
  \A i \in 1..Len(posts) : i # rep.sending /\ posts[i].st # "stored" => i \in told

\* server.ts: every counted event comes from one batch, and a batch is counted once.
CountedOnce ==
  counted = FoldLeft(LAMBDA sum, p : sum + (IF p.st \in {"stored", "unsure"} THEN Len(p.events) ELSE 0),
                     0, posts)

\* server.ts: no hour of a device lets more batches through than the limit, and the
\* map of attempts keeps to its size.
RateHolds ==
  /\ accepted <= RateLimit
  /\ Cardinality(DOMAIN attempts) <= MaxDevices

\* Records are sent in order and once, none is stranded, a loss is told, and the rate holds.
TelemetryInv == TelemetryTypeOK /\ SentInOrderOnce /\ NothingStranded /\ EveryLossIsTold /\ CountedOnce /\ RateHolds
=============================================================================
