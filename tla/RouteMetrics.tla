----------------------------- MODULE RouteMetrics -----------------------------
(***************************************************************************)
(* The service's own measurements: observeHttpRoute() of                   *)
(* http-route-metrics.ts adds one row per matching route when a response   *)
(* has finished, and the console reads them back (admin-routes.ts) as a    *)
(* 95th percentile per route and as service objectives.  A latency is the  *)
(* bucket it falls into, numbered from the fastest; requests of one kind   *)
(* may finish several at a time.                                           *)
(***************************************************************************)
EXTENDS Naturals, Sequences, FiniteSets, FiniteSetsExt

CONSTANTS
  Buckets,      \* number of latency buckets; the last has no upper bound
  Objective,    \* the bucket whose upper bound is the objective
  Bursts,       \* how many equal requests may finish in one step
  MaxBursts     \* bound on steps

RouteAssumption == Buckets \in Nat \ {0, 1} /\ Objective \in 1..(Buckets - 1) /\ Bursts \subseteq Nat \ {0}

VARIABLES
  rows,      \* rows[r][c][b]: count of route r, status class c, bucket b, last 24 hours
  finished,  \* finished[r]: requests of route r that finished and were not dropped
  slow,      \* slow[r]: those of them above the objective, a history variable
  bursts

routeVars == <<rows, finished, slow, bursts>>

Routes == {"cloud_api", "client_feature_policy", "skill_catalog", "skill_download"}
SkillRoutes == {"skill_catalog", "skill_download"}
Classes == {"ok", "5xx"}
Bucket == 1..Buckets

\* Counts are naturals.
RouteTypeOK ==
  /\ rows \in [Routes -> [Classes -> [Bucket -> Nat]]]
  /\ finished \in [Routes -> Nat] /\ slow \in [Routes -> Nat]

RouteInit ==
  /\ rows = [r \in Routes |-> [c \in Classes |-> [b \in Bucket |-> 0]]]
  /\ finished = [r \in Routes |-> 0] /\ slow = finished
  /\ bursts = 0

\* classifiedHttpRoutes(): every route of the API, and one surface it may belong to.
ClassifiedRoutes(surface) == {"cloud_api"} \cup (Routes \cap {surface})

\* incrementHttpRouteMetrics(): the rows of a request are added in one transaction.
Observed(routes, c, b, n) ==
  rows' = [r \in Routes |-> IF r \in routes THEN [rows[r] EXCEPT ![c][b] = @ + n] ELSE rows[r]]

\* n requests of a kind finish; the write is not awaited and may be dropped.
Finish(surface, c, b, n) ==
  LET routes == ClassifiedRoutes(surface) IN
  /\ bursts < MaxBursts /\ bursts' = bursts + 1
  /\ \/ /\ Observed(routes, c, b, n)
        /\ finished' = [r \in Routes |-> finished[r] + IF r \in routes THEN n ELSE 0]
        /\ slow' = [r \in Routes |-> slow[r] + IF r \in routes /\ b > Objective THEN n ELSE 0]
     \/ UNCHANGED <<rows, finished, slow>>

\* A day passes: the reading takes the last 24 hours, and these rows are older.
DayPasses ==
  /\ finished["cloud_api"] # 0 /\ bursts < MaxBursts
  /\ rows' = [r \in Routes |-> [c \in Classes |-> [b \in Bucket |-> 0]]]
  /\ finished' = [r \in Routes |-> 0] /\ slow' = [r \in Routes |-> 0]
  /\ bursts' = bursts + 1

RouteNext ==
  \/ \E s \in Routes \cup {"other"}, c \in Classes, b \in Bucket, n \in Bursts : Finish(s, c, b, n)
  \/ DayPasses

RouteSpec == RouteInit /\ [][RouteNext]_routeVars

-----------------------------------------------------------------------------
(* buildHttpRouteMetric(), over the rows of one route or of several.        *)

InBucket(routes, b) == MapThenSumSet(LAMBDA rc : rows[rc[1]][rc[2]][b], routes \X Classes)
Requests(routes) == MapThenSumSet(LAMBDA b : InBucket(routes, b), Bucket)
UpTo(routes, b) == MapThenSumSet(LAMBDA x : InBucket(routes, x), 1..b)

\* Math.ceil(requests * 0.95).
Target(n) == (95 * n + 99) \div 100

NoData == 0

\* The first bucket at which the running total reaches the rank.
P95(routes) ==
  LET n == Requests(routes)
      reached == {b \in Bucket : UpTo(routes, b) >= Target(n)}
  IN IF n = 0 THEN NoData ELSE Min(reached)

\* upperBoundSlo(): the last bucket has no upper bound and never passes.
UpperBoundSlo(routes) ==
  CASE P95(routes) = NoData -> "no_data"
    [] P95(routes) # NoData /\ P95(routes) # Buckets /\ P95(routes) <= Objective -> "pass"
    [] OTHER -> "fail"

-----------------------------------------------------------------------------
(* Properties.                                                              *)

\* admin-routes.ts, buildHttpRouteMetric(): the rows the console reads add up to the
\* requests that finished in the window, and no route has more than the whole API.
RowsAddUp ==
  /\ \A r \in Routes : Requests({r}) = finished[r] /\ Requests({r}) <= Requests({"cloud_api"})
  /\ Requests(SkillRoutes) = finished["skill_catalog"] + finished["skill_download"]

\* admin-routes.ts, upperBoundSlo(): the objective passes exactly when at least 95 of
\* 100 requests kept to it, for a route and for the Skill surface made of several.
SloIsTrue ==
  \A routes \in {{"cloud_api"}, {"client_feature_policy"}, SkillRoutes} :
    LET n == MapThenSumSet(LAMBDA r : finished[r], routes)
        late == MapThenSumSet(LAMBDA r : slow[r], routes)
    IN UpperBoundSlo(routes) = IF n = 0 THEN "no_data"
                               ELSE IF 100 * (n - late) >= 95 * n THEN "pass" ELSE "fail"

\* The rows of the histogram add up to the requests, and the verdict on the objective is true.
RouteMetricsInv == RouteTypeOK /\ RowsAddUp /\ SloIsTrue
=============================================================================
