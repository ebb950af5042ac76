--------------------------- MODULE MCUsageAdmission ---------------------------
(* Small instances of the PostgreSQL admission model for TLC.               *)
EXTENDS UsageAdmission, TLC

\* Two plan configurations: a raise and a cut of every limit are both possible.
MCLimits ==
  {[included_calls |-> 2, requests_per_minute |-> 2, max_concurrency |-> 1],
   [included_calls |-> 3, requests_per_minute |-> 3, max_concurrency |-> 2]}

\* One call of allowance, and room for it in every other limit.
MCQuotaLimits == {[included_calls |-> 1, requests_per_minute |-> 9, max_concurrency |-> 9]}

MCSymmetry == Permutations(Procs) \cup Permutations(Tasks)
=============================================================================
