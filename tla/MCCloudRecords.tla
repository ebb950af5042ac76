---------------------------- MODULE MCCloudRecords ----------------------------
(***************************************************************************)
(* Small instances of what the Cloud keeps on record, for TLC: billing,    *)
(* the in-memory usage ledger, the releases of installers and archives,    *)
(* the releases of Skill adapters, the feature policies, accounts with     *)
(* their sessions, and the service's own measurements.  The models share   *)
(* no variable, so their union is checked: a behaviour is one of the part  *)
(* it starts with.                                                         *)
(***************************************************************************)
EXTENDS BillingSettlement, AdapterReleases, UsageLedger, FeaturePolicy

VARIABLES
  part,                                                \* the part that runs
  astore, acct, sess, areq, offer, owners, audits, acfaults,  \* Accounts
  measured, finished, slow, bursts                     \* RouteMetrics

\* Two plan configurations: a raise and a cut of the limits are both possible.
MCLimits ==
  {[included_calls |-> 2, requests_per_minute |-> 1, max_concurrency |-> 1],
   [included_calls |-> 2, requests_per_minute |-> 2, max_concurrency |-> 2]}

\* Three requests for one address with two passwords and two prices; one failure,
\* expiry or change of devices.
Account == INSTANCE Accounts WITH
  plan <- offer, bound <- owners, Emails <- {"e1"}, Passwords <- {"p1", "p2"},
  MaxRequests <- 3, Prices <- {1, 2}, AcFaults <- 1

\* Three buckets; 1 and 19 requests at a time, so that the rank falls on a whole number.
Metrics == INSTANCE RouteMetrics WITH
  rows <- measured, Buckets <- 3, Objective <- 2, Bursts <- {1, 19}, MaxBursts <- 2
ASSUME Metrics!RouteAssumption

\* The other bounds are in the configuration.  Releases: two uploads at a time of two versions
\* into two channels, and one failure.  Policies: room for two, two writes after the first, and
\* one lifetime of a document.

accountVars == <<astore, acct, sess, areq, offer, owners, audits, acfaults>>
metricVars == <<measured, finished, slow, bursts>>
storeVars == <<accountVars, metricVars>>
partVars == <<part, vars, ledger, relVars, adapterVars, policyVars, storeVars>>

\* A part that does not run stays in one of its initial states.
PartInit ==
  /\ part \in {"billing", "usage", "releases", "adapters", "policy", "accounts", "metrics"}
  /\ Init /\ (part # "billing" => store = "postgres")
  /\ MemoryInit /\ (part # "usage" => plan = CHOOSE l \in MCLimits : TRUE)
  /\ RelInit /\ (part # "releases" => surface = "client")
  /\ AdInit /\ (part # "adapters" => device = 1 /\ access = "none")
  /\ PolicyInit /\ (part # "policy" => ~holder /\ gate.st = "unused")
  /\ Account!AccountInit /\ offer.price = 1 /\ (part # "accounts" => astore = "postgres")
  /\ Metrics!RouteInit

PartNext ==
  \/ /\ part = "billing" /\ Next
     /\ UNCHANGED <<part, ledger, relVars, adapterVars, policyVars, storeVars>>
  \/ /\ part = "usage" /\ MemoryNext
     /\ UNCHANGED <<part, vars, relVars, adapterVars, policyVars, storeVars>>
  \/ /\ part = "releases" /\ RelNext
     /\ UNCHANGED <<part, vars, ledger, adapterVars, policyVars, storeVars>>
  \/ /\ part = "adapters" /\ AdNext
     /\ UNCHANGED <<part, vars, ledger, relVars, policyVars, storeVars>>
  \/ /\ part = "policy" /\ PolicyNext
     /\ UNCHANGED <<part, vars, ledger, relVars, adapterVars, storeVars>>
  \/ /\ part = "accounts" /\ Account!AccountNext
     /\ UNCHANGED <<part, vars, ledger, relVars, adapterVars, policyVars, metricVars>>
  \/ /\ part = "metrics" /\ Metrics!RouteNext
     /\ UNCHANGED <<part, vars, ledger, relVars, adapterVars, policyVars, accountVars>>

PartSpec == PartInit /\ [][PartNext]_partVars

-----------------------------------------------------------------------------
(* The properties of billing, of the usage ledger, of the releases and of  *)
(* the policies come with their modules; the others are those of the part  *)
(* that runs.                                                              *)

\* account-routes.ts, admin-routes.ts: an account, a session, a write and a price go
\* only to who is entitled to them, and what the service says of its own response
\* times is true of the requests it answered.
ServiceInv ==
  /\ part = "accounts" => Account!AccountsInv
  /\ part = "metrics" => Metrics!RouteMetricsInv
=============================================================================
