--------------------------- MODULE MCPrintSystem ---------------------------
(* PrintSystem for TLC: two claims of a job and one crash; the same with    *)
(* reprint_after_crash on; and one claim while both clocks run through all  *)
(* their thresholds.                                                        *)
EXTENDS PrintSystem

MaxSent == 3     \* bound: different requests the agent sends for a job

\* Bounds: claims of a job, how old updated_at becomes, how far the clock runs
\* past expires_at.
Within(tokens, age, ttl) ==
    \A j \in Jobs : minted[j] <= tokens /\ row[j].age <= age /\ row[j].ttl <= ttl

\* The agent stays admitted: what a lifecycle that holds it back can do to a job
\* is explored by the runs of GatewayJobs.
Bounded ==
    /\ admission = "admitted"
    /\ \A j \in Jobs : Cardinality(sent[j]) <= MaxSent
    /\ IF reprint THEN Within(2, 0, 0) ELSE Within(2, 1, 0) \/ Within(1, 3, 2)

=============================================================================
