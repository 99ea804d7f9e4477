--------------------------- MODULE MCEnricherJobs ---------------------------
(* Instances of EnricherJobs for TLC. *)
EXTENDS EnricherJobs

CONSTANTS descr, f

MCColumns == <<descr>>
(* A family of additional variables comes and goes. *)
MCConfigs == [existing : {<<[id |-> descr, name |-> "interface"]>>},
              additional : {{}, {f}}]

Growing == {{1}, {1, 2}}
WithGap == {{1, 3, 4}}

\* Bound of enricher: with one column a job of the main thread walks as a worker does,
\* so after two events and a failure only workers walk.
FewEvents == walk[Main] # None => events + failures <= 2
=============================================================================
