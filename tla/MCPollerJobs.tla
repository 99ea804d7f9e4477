---------------------------- MODULE MCPollerJobs ----------------------------
(* Instances of PollerJobs for TLC. *)
EXTENDS PollerJobs, TLC

CONSTANTS h1, h2, d1, d2, p1, p2, p3, c1, c2

line(h, p, c) == [host |-> h, profile |-> p, conf |-> c]

MCHosts == {h1, h2}
MCProfiles == {p1, p2, p3}
MCKnown == {p1, p2}
MCConfs == {c1, c2}
MCDbId == h1 :> d1 @@ h2 :> d2
MCMatches == h1 :> {} @@ h2 :> {p2}

\* h1 listed by profile and h2 left to matching; a duplicated key, an unknown
\* profile and h2 gone; h1 gone.
MCFiles == { <<line(h1, p1, c1), line(h2, Dynamic, c1)>>,
             <<line(h1, p1, c2), line(h1, p1, c1), line(h1, p3, c1)>>,
             <<line(h2, Dynamic, c2)>> }

\* The two hosts are "10.0.0.1" and "10.0.0.1:161".
SharedDbId == h1 :> d1 @@ h2 :> d1

\* h2 is first left to matching, then listed with the profile it would match.
OverlapFiles == { <<line(h2, Dynamic, c1)>>, <<line(h2, p2, c1)>> }

\* Both hosts are listed, one of them to be matched; then h1 alone, with a
\* duplicated key and an unknown profile.
LiveFiles == { <<line(h1, p1, c1), line(h2, Dynamic, c1)>>,
               <<line(h1, p1, c2), line(h1, p1, c1), line(h1, p3, c1)>> }

Interchangeable == Permutations(Matchers)

\* Bound of jobs_safety: at most two edits, forced refreshes and faults together, and
\* of the two devices only the one that is left to matching is described.
FewEvents == envs + faults <= 2 /\ described \subseteq {MCDbId[h2]}
=============================================================================
