-------------------------- MODULE MCWalkLifecycle --------------------------
(* Instances of WalkLifecycle for TLC. *)
EXTENDS WalkLifecycle, TLC

Interchangeable == Permutations(Devices) \cup Permutations(Threads)
                       \cup Permutations(Workers)

Overlap == \E t, u \in Threads : t # u /\ ~At(t, "off") /\ ~At(u, "off")

\* Bound of walk_safety: the counter moves (a tick, a restart) or the device goes (an
\* outage, an edit), not both; while realtime tasks overlap there are only ticks; and a
\* walk waits as a job or as a task, another of the same kind being with the worker.
FewEvents ==
    /\ ticks + restarts = 0 \/ outages + edits = 0
    /\ Overlap => restarts + outages + edits = 0
    /\ \A k \in Tasks : onetime[k] + queue[k] <= MaxQueued
=============================================================================
