---------------------------- MODULE FeaturePolicy ----------------------------
(***************************************************************************)
(* Feature policy V2: the administrator's records in the cloud store, the  *)
(* short-lived document the API builds from them for one device, the       *)
(* device-side coordinator that fetches, caches and applies it, and the    *)
(* server-side gate.  The tool bridge's grants, derived from the client's  *)
(* decision, are in CoreBridge.                                            *)
(*                                                                         *)
(* One feature is modelled (features never mix: every operator filters by  *)
(* feature id first).  A tick of "now" stands for a fraction of the        *)
(* refresh interval; the two sides share one clock.                        *)
(***************************************************************************)
EXTENDS Naturals, FiniteSets

CONSTANTS
  MaxPolicies,   \* FEATURE_POLICY_MAX_FEATURES
  Validity,      \* FEATURE_POLICY_MAX_VALIDITY_MS, in ticks
  Interval,      \* FEATURE_POLICY_REFRESH_INTERVAL_MS, in ticks
  MaxTime,       \* bound: ticks of the run
  MaxRevision,   \* bound: policy writes of the run
  PolicyFaults   \* bound: subscription changes, restarts and failures

\* A document lasts for a while and every record has room somewhere; the first
\* record is there when a run begins.
ASSUME PolicyAssumption ==
  /\ MaxPolicies \in Nat \ {0} /\ Validity \in Nat /\ Interval \in Nat \ {0}
  /\ MaxTime \in Nat /\ MaxRevision \in Nat \ {0} /\ PolicyFaults \in Nat

VARIABLES
  pol,      \* the store: target -> the record of the policy, or Absent
  rev,      \* feature_policy_revision_seq
  adm,      \* the administrators' POSTs between the route's check and the store
  holder,   \* does the device's user hold an active subscription of the plan
  now,
  lastOpen, \* history: the last tick without an emergency stop in force
  snap,     \* FeaturePolicyCoordinator.snapshotValue
  pcache,   \* feature-policy-cache.json
  flight,   \* FeaturePolicyCoordinator.inFlight and the server's half of it
  gate,     \* one protected server call on its way through the policy check
  pevents

policyVars == <<pol, rev, adm, holder, now, lastOpen, snap, pcache, flight, gate, pevents>>

Absent == [rev |-> 0, is |-> "none"]

\* "other" is a record that never concerns this device; it only takes room.
Targets == {"global", "device", "plan", "other"}

\* What a stored entry says: allowed at low or high risk, not enabled, stopped,
\* allowed for holders of the plan, or stopped for newer clients only.
EntryKinds(t) ==
  CASE t = "global" -> {"low", "stop"}
    [] t = "device" -> {"high", "newer"}
    [] t = "plan"   -> {"needs", "off"}
    [] t = "other"  -> {"low"}

Nothing == [is |-> "none"]
Idle    == [st |-> "idle"]

(***************************************************************************)
(* Resolution of a document for one feature (resolution.ts).               *)
(***************************************************************************)
\* Targets whose entries the context of the caller names.
Applicable(recs, scopes) ==
  {r \in recs : r.on \in scopes /\ r.is # "newer"}

Fresh(doc) == doc.issued <= now /\ now < doc.issued + Validity

\* decideFeatureAccess(resolveFeaturePolicy(...)) for the given entries.
Allowed(es, entitled) ==
  /\ es # {}
  /\ \A r \in es : r.is \notin {"stop", "off"}
  /\ (\E r \in es : r.is = "needs") => entitled

HighRisk(es) == \E r \in es : r.is \in {"high", "stop"}

\* A numeric limit of each kind of entry, and mergeLimits: the smallest counts
\* (retention, export, deletion and location merge in the same way).
Limit(r) == CASE r.is = "low" -> 3 [] r.is = "high" -> 2 [] OTHER -> 1

MergedLimit(es) ==
  CHOOSE n \in {Limit(r) : r \in es} : \A r \in es : n <= Limit(r)

(***************************************************************************)
(* The cloud: administrator writes and the document of the device.         *)
(***************************************************************************)
StoredPolicies == {t \in Targets : pol[t] # Absent}

\* An emergency stop that reaches every client of this device's version.
Stopped(ps) == \E t \in {"global", "device"} : ps[t].is = "stop"

\* POST /v1/admin/feature-policies up to its call of the store.
AdminPosts(t, k) ==
  /\ rev + Cardinality(adm) < MaxRevision
  /\ pol[t] # Absent \/ Cardinality(StoredPolicies) < MaxPolicies
  /\ adm' = adm \cup {[on |-> t, is |-> k]}
  /\ UNCHANGED <<pol, rev, holder, now, lastOpen, snap, pcache, flight, gate, pevents>>

\* The capacity check that upsertFeaturePolicy repeats under its lock.
Room(t) == pol[t] # Absent \/ Cardinality(StoredPolicies) < MaxPolicies

\* upsertFeaturePolicy: one transaction under the advisory lock.
AdminSaves(post) ==
  /\ adm' = adm \ {post}
  /\ IF Room(post.on)
       THEN /\ rev' = rev + 1
            /\ pol' = [pol EXCEPT ![post.on] = [rev |-> rev + 1, is |-> post.is]]
       ELSE UNCHANGED <<rev, pol>>
  /\ lastOpen' = IF Stopped(pol') THEN lastOpen ELSE now
  /\ UNCHANGED <<holder, now, snap, pcache, flight, gate, pevents>>

\* The records relevantPolicies keeps, given the plans read before.
Relevant(plan) ==
  {[on |-> t, rev |-> pol[t].rev, is |-> pol[t].is] :
      t \in {u \in StoredPolicies : u \in {"global", "device"} \/ (u = "plan" /\ plan)}}

\* issued_at is rounded down to the interval, so that retries get one ETag.
DocumentAt(time, plan) ==
  [issued |-> (time \div Interval) * Interval, recs |-> Relevant(plan)]

\* The subscription starts, ends or is cancelled.
SubscriptionChanges ==
  /\ pevents < PolicyFaults
  /\ holder' = ~holder
  /\ pevents' = pevents + 1
  /\ UNCHANGED <<pol, rev, adm, now, lastOpen, snap, pcache, flight, gate>>

\* deviceEntitlements: of the plans read before, and of what is entitled by now.
Entitled(plan) == plan \/ holder

\* checkDeviceFeaturePolicy / enforceDeviceFeaturePolicy: the plans are read ...
GateReadsPlans(missingOk) ==
  /\ gate.st = "idle"
  /\ gate' = [st |-> "plans", plan |-> holder, began |-> now, missingOk |-> missingOk]
  /\ UNCHANGED <<pol, rev, adm, holder, now, lastOpen, snap, pcache, flight,
                 pevents>>

\* ... then the policies, and the entitlements last.
GateDecides ==
  /\ gate.st = "plans"
  /\ LET es == Applicable(Relevant(gate.plan), {"global", "device", "plan"})
         ok == (es = {} /\ gate.missingOk) \/ Allowed(es, Entitled(gate.plan))
     IN gate' = IF ok THEN [st |-> "allowed", began |-> gate.began] ELSE Idle
  /\ UNCHANGED <<pol, rev, adm, holder, now, lastOpen, snap, pcache, flight,
                 pevents>>

\* The call goes on.
GateLeaves ==
  /\ gate.st = "allowed"
  /\ gate' = Idle
  /\ UNCHANGED <<pol, rev, adm, holder, now, lastOpen, snap, pcache, flight,
                 pevents>>

(***************************************************************************)
(* The coordinator on the device.                                          *)
(***************************************************************************)
\* Variant: whatever was published last.
CurrentAny(s) == s # Nothing

\* current(): a snapshot that has not expired.
Current(s) == s # Nothing /\ now < s.doc.issued + Validity

\* decide(): main.ts gives the coordinator no plan, tenant or entitlements, so
\* entries of those scopes stay out and an entitlement is always missing.
Decide(s) ==
  LET es == Applicable(s.doc.recs, {"global", "device"})
  IN /\ Current(s)
     /\ s.src = "cache" => ~HighRisk(es)
     /\ Allowed(es, FALSE)

Up == flight.st \notin {"down", "unused"}

\* publish: the new snapshot, from which every later decision is taken.
Publish(doc, src) ==
  snap' = [is |-> "doc", doc |-> doc, src |-> src] /\ UNCHANGED pevents

\* readCache: bound to this cloud and device, not expired, at most Validity old.
Readable == /\ pcache # Nothing
            /\ now < pcache.doc.issued + Validity
            /\ now < pcache.at + Validity

\* refresh() and the first half of performRefresh.
RefreshStarts ==
  /\ flight.st = "idle"
  /\ flight' = [st |-> "sent", cached |-> IF Readable THEN pcache ELSE Nothing]
  /\ UNCHANGED <<pol, rev, adm, holder, now, lastOpen, snap, pcache, gate,
                 pevents>>

\* GET /v1/client/feature-policy: the time is taken and the plans are read ...
ServerReadsPlans ==
  /\ flight.st = "sent"
  /\ flight' = [st |-> "plans", cached |-> flight.cached, plan |-> holder, time |-> now]
  /\ UNCHANGED <<pol, rev, adm, holder, now, lastOpen, snap, pcache, gate,
                 pevents>>

\* ... the policies are read, the document is built and compared with the ETag.
ServerAnswers ==
  /\ flight.st = "plans"
  /\ LET doc == DocumentAt(flight.time, flight.plan)
     IN flight' = [st |-> "answer", cached |-> flight.cached, doc |-> doc,
                   code |-> IF flight.cached # Nothing /\ flight.cached.doc = doc
                              THEN "304" ELSE "200"]
  /\ UNCHANGED <<pol, rev, adm, holder, now, lastOpen, snap, pcache, gate,
                 pevents>>

\* The request fails: no answer in time, 429 or 5xx, 401 or 403, or a body or
\* status that breaks the protocol.
RequestFails(code) ==
  /\ flight.st \in {"sent", "plans", "answer"}
  /\ flight.st = "answer" => flight.code \in {"200", "304"}
  /\ pevents < PolicyFaults
  /\ pevents' = pevents + 1
  /\ flight' = [st |-> "answer", cached |-> flight.cached, code |-> code]
  /\ UNCHANGED <<pol, rev, adm, holder, now, lastOpen, snap, pcache, gate>>

Answered(code) == flight.st = "answer" /\ flight.code = code

Receives ==
  /\ flight' = Idle
  /\ UNCHANGED <<pol, rev, adm, holder, now, lastOpen, gate>>

\* The catch of performRefresh for "auth" and "protocol": everything is forgotten.
Forget == snap' = Nothing /\ pcache' = Nothing /\ UNCHANGED pevents

\* Network failure, 429 or 5xx: fall back to the cache that was read at the start.
ReceivesUnavailable ==
  /\ Answered("unavailable")
  /\ IF flight.cached # Nothing
       THEN Publish(flight.cached.doc, "cache")
       ELSE UNCHANGED <<snap, pevents>>
  /\ UNCHANGED pcache
  /\ Receives

ReceivesRefused ==
  /\ Answered("auth") \/ Answered("protocol")
  /\ Forget
  /\ Receives

\* 304 or 200: the document must be current; it is cached, then published.  The
\* cache file that cannot be written fails the refresh and changes nothing else.
ReceivesDocument ==
  /\ Answered("304") \/ Answered("200")
  /\ IF Fresh(flight.doc)
       THEN \/ /\ pcache' = [is |-> "doc", doc |-> flight.doc, at |-> now]
               /\ Publish(flight.doc, "network")
            \/ /\ pevents < PolicyFaults
               /\ pevents' = pevents + 1
               /\ UNCHANGED <<snap, pcache>>
       ELSE Forget
  /\ Receives

\* stop() for an update or on quitting.
StopClient ==
  /\ Up
  /\ pevents < PolicyFaults
  /\ pevents' = pevents + 1
  /\ flight' = [st |-> "down"]
  /\ snap' = Nothing
  /\ UNCHANGED <<pol, rev, adm, holder, now, lastOpen, pcache, gate>>

StartClient ==
  /\ flight.st = "down"
  /\ flight' = Idle
  /\ UNCHANGED <<pol, rev, adm, holder, now, lastOpen, snap, pcache, gate,
                 pevents>>

Tick ==
  /\ now < MaxTime
  /\ now' = now + 1
  /\ lastOpen' = IF Stopped(pol) THEN lastOpen ELSE now + 1
  /\ UNCHANGED <<pol, rev, adm, holder, snap, pcache, flight, gate, pevents>>

\* A behaviour follows either the device's client or one protected call at the
\* server: both only read the cloud's records, so they cannot disturb each other.
PolicyInit ==
  /\ pol = [[t \in Targets |-> Absent] EXCEPT !["global"] = [rev |-> 1, is |-> "low"]]
  /\ rev = 1
  /\ adm = {}
  /\ holder \in BOOLEAN
  /\ now = 0 /\ lastOpen = 0
  /\ snap = Nothing /\ pcache = Nothing
  /\ \/ flight = Idle /\ gate = [st |-> "unused"]
     \/ flight = [st |-> "unused"] /\ gate = Idle
  /\ pevents = 0

CloudNext ==
  \/ \E t \in Targets : \E k \in EntryKinds(t) : AdminPosts(t, k)
  \/ \E post \in adm : AdminSaves(post)
  \/ SubscriptionChanges
  \/ \E m \in BOOLEAN : GateReadsPlans(m)
  \/ GateDecides
  \/ GateLeaves

ClientNext ==
  \/ RefreshStarts
  \/ ServerReadsPlans
  \/ ServerAnswers
  \/ \E c \in {"unavailable", "auth", "protocol"} : RequestFails(c)
  \/ ReceivesUnavailable
  \/ ReceivesRefused
  \/ ReceivesDocument
  \/ StopClient
  \/ StartClient

PolicyNext == Tick \/ CloudNext \/ ClientNext

PolicySpec == PolicyInit /\ [][PolicyNext]_policyVars

(***************************************************************************)
(* Properties.                                                             *)
(***************************************************************************)
PolicyTypeOK ==
  /\ rev \in 0..MaxRevision /\ now \in 0..MaxTime /\ lastOpen \in 0..now
  /\ \A t \in Targets : pol[t] = Absent \/ (pol[t].rev \in 1..rev /\ pol[t].is \in EntryKinds(t))
  /\ snap # Nothing => snap.src \in {"network", "cache"}

\* Two administrators who both passed the route's check cannot fill the store
\* past the size a client document may have.
CapacityHolds == Cardinality(StoredPolicies) <= MaxPolicies

\* An emergency stop reaches the device at the latest when the document that was
\* built before it expires, whatever is lost, cached, confirmed by an ETag or
\* restarted in between.
StopReachesClient == Decide(snap) => now - lastOpen < Validity

\* A protected server call that the policy let through did not start after the
\* emergency stop was stored.
StopReachesServer == gate.st = "allowed" => gate.began <= lastOpen

\* More policies never allow more: what all applicable entries allow together,
\* any of them allow with a limit at least as large and a risk at most as high, so
\* a record for a narrower scope cannot open what a wider one closes.
MergeNarrows ==
  \A plan \in BOOLEAN :
    LET all == Applicable(Relevant(plan), Targets)
    IN \A es \in (SUBSET all) \ {{}} :
         /\ Allowed(all, plan) => Allowed(es, plan)
         /\ MergedLimit(all) <= MergedLimit(es)
         /\ HighRisk(es) => HighRisk(all)

\* The emergency stop is timely on both sides, and the store's capacity and the
\* narrowing merge that the documents rely on hold (resolution.ts,
\* feature-policy-routes.ts and feature-policy-coordinator.ts).
PolicyInv ==
  /\ PolicyTypeOK
  /\ CapacityHolds
  /\ StopReachesClient
  /\ StopReachesServer
  /\ MergeNarrows
==============================================================================
