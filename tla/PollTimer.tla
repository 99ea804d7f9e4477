------------------------------ MODULE PollTimer ------------------------------
(***************************************************************************)
(* When the jobs of the scheduler run: the loop of Poller.run, the next_run *)
(* of each job, and the refreshes that move it (manager/poller.py and the  *)
(* schedule library).                                                      *)
(*                                                                         *)
(* One thread does everything: it refreshes the inventory when its counter *)
(* reaches 0, runs the jobs that are due, sleeps for a second.  A polling  *)
(* job only queues a Celery task; an enricher job walks the device itself, *)
(* and a refresh waits for the MIB server, so both keep the others waiting.*)
(*                                                                         *)
(* next_run is kept relative to now, as the seconds left: no clock is      *)
(* needed, the state is finite, and edits and crashes need no bound.       *)
(***************************************************************************)
EXTENDS Integers, FiniteSets

CONSTANTS
    Polls,           \* entry keys of polling jobs
    Enrichers,       \* entry keys of enricher jobs
    Frequencies,     \* frequencies a line of the inventory can have
    Ttl,             \* the ttl of every enricher job
    RefreshInterval, \* --refresh_interval
    MaxBlock,        \* bound: seconds of a walk by an enricher job
    MaxWait          \* bound: seconds until the MIB server answers a refresh

Jobs == Polls \cup Enrichers

ASSUME JobsAssumption == Polls \cap Enrichers = {} /\ IsFiniteSet(Enrichers)
ASSUME FrequencyAssumption == Frequencies \cup {Ttl} \subseteq Nat \ {0}
ASSUME RefreshAssumption == RefreshInterval \in Nat
ASSUME BoundsAssumption == MaxBlock \in Nat /\ MaxWait \in Nat

VARIABLES
    file,      \* the inventory: a frequency for each entry, or 0
    pending,   \* a modification time is newer than recorded, or _force_refresh
    pc,        \* where the main thread is
    counter,   \* the counter of Poller.run; -1 stands for every negative value
    todo,      \* run_pending: due jobs it has still to run
    interval,  \* schedule.jobs: the interval of each job, 0 when there is none
    due,       \* seconds until its next_run, 0 when that is past
    waited,    \* history: seconds since the job last ran or was created
    overdue,   \* history: seconds it has been due
    shortest,  \* history: the smallest interval it has had in that time
    longest    \* history: the largest

job     == <<interval, due>>
history == <<waited, overdue, shortest, longest>>
vars    == <<file, pending, pc, counter, todo, job, history>>

Smaller(a, b) == IF a < b THEN a ELSE b
Larger(a, b)  == IF a > b THEN a ELSE b

Zero == [j \in Jobs |-> 0]
Scheduled == {j \in Jobs : interval[j] # 0}

TypeOK ==
    /\ file \in [Polls -> Frequencies \cup {0}]
    /\ pending \in BOOLEAN
    /\ pc \in {"loop", "refresh", "pending", "run", "sleep"}
    /\ counter \in {-1} \cup 0 .. RefreshInterval
    /\ todo \subseteq Scheduled
    /\ interval \in [Jobs -> Frequencies \cup {0, Ttl}]
    /\ \A f \in {due, waited, overdue, shortest, longest} : f \in [Jobs -> Nat]

Init ==
    /\ file \in [Polls -> Frequencies \cup {0}]
    /\ pending = TRUE /\ pc = "loop" /\ counter = 0 /\ todo = {}
    /\ interval = Zero /\ due = Zero
    /\ waited = Zero /\ overdue = Zero /\ shortest = Zero /\ longest = Zero

-----------------------------------------------------------------------------
(* n seconds later. *)
DueAfter(n)     == [j \in Jobs |-> Larger(due[j] - n, 0)]
WaitedAfter(n)  == [j \in Jobs |-> IF j \in Scheduled THEN waited[j] + n ELSE 0]
OverdueAfter(n) == [j \in Jobs |-> IF j \in Scheduled
                                   THEN overdue[j] + Larger(n - due[j], 0) ELSE 0]

Elapse(n) ==
    /\ due' = DueAfter(n) /\ waited' = WaitedAfter(n) /\ overdue' = OverdueAfter(n)
    /\ UNCHANGED <<interval, shortest, longest>>

(* __check_inventory, when the counter is at 0 and there is something new:
   the modification times are recorded ... *)
RefreshBegins ==
    /\ pc = "loop" /\ counter = 0 /\ pending
    /\ pending' = FALSE /\ pc' = "refresh"
    /\ UNCHANGED <<file, counter, todo, job, history>>

(* The interval a refresh gives a job: that of its line; enricher jobs are
   created once and never changed. *)
Wanted(j) == IF j \in Polls THEN file[j] ELSE Ttl

\* Mutant: a job that is updated waits for its whole new interval.
NextRunRestarted(left, new) == new

(* __update_schedule: the earlier of the two next_run is kept. *)
NextRun(left, new) == Smaller(left, new)

(* ... get_profiles takes n seconds, and the jobs follow the lines: those of
   new lines are created, those of other lines updated, the rest cancelled. *)
RefreshEnds ==
    /\ pc = "refresh"
    /\ \E n \in 0 .. MaxWait :
        LET new(j)  == interval[j] = 0
            gone(j) == Wanted(j) = 0 IN
        /\ interval' = [j \in Jobs |-> Wanted(j)]
        /\ due' = [j \in Jobs |-> IF gone(j) THEN 0 ELSE IF new(j) THEN Wanted(j)
                                  ELSE NextRun(DueAfter(n)[j], Wanted(j))]
        /\ waited' = [j \in Jobs |-> IF gone(j) THEN 0 ELSE WaitedAfter(n)[j]]
        /\ overdue' = [j \in Jobs |-> IF gone(j) THEN 0 ELSE OverdueAfter(n)[j]]
        /\ shortest' = [j \in Jobs |-> IF gone(j) \/ new(j) THEN Wanted(j)
                                       ELSE Smaller(shortest[j], Wanted(j))]
        /\ longest' = [j \in Jobs |-> IF gone(j) \/ new(j) THEN Wanted(j)
                                      ELSE Larger(longest[j], Wanted(j))]
    /\ counter' = RefreshInterval /\ pc' = "pending"
    /\ UNCHANGED <<file, pending, todo>>

\* Mutant: only a refresh winds the counter up.
NothingNewNoReset ==
    /\ pc = "loop" /\ counter = 0 /\ ~pending
    /\ pc' = "pending"
    /\ UNCHANGED <<file, pending, counter, todo, job, history>>

NothingNew ==
    /\ pc = "loop" /\ counter = 0 /\ ~pending
    /\ counter' = RefreshInterval /\ pc' = "pending"
    /\ UNCHANGED <<file, pending, todo, job, history>>

NotYet ==
    /\ pc = "loop" /\ counter # 0
    /\ pc' = "pending"
    /\ UNCHANGED <<file, pending, counter, todo, job, history>>

\* Mutant: a cancelled job is run, too.
RunPendingCancelled ==
    /\ pc = "pending"
    /\ todo' = {j \in Jobs : due[j] = 0}
    /\ pc' = "run"
    /\ UNCHANGED <<file, pending, counter, job, history>>

(* schedule.run_pending: the jobs that are due now ... *)
RunPending ==
    /\ pc = "pending"
    /\ todo' = {j \in Scheduled : due[j] = 0}
    /\ pc' = "run"
    /\ UNCHANGED <<file, pending, counter, job, history>>

\* Mutant: one job a second.
AllRunEarly ==
    /\ pc = "run"
    /\ todo' = {} /\ pc' = "sleep"
    /\ UNCHANGED <<file, pending, counter, job, history>>

(* ... one by one; next_run is set when the job has ended. *)
RunJob ==
    /\ pc = "run"
    /\ \E j \in todo, n \in 0 .. MaxBlock :
        /\ j \in Polls => n = 0
        /\ todo' = todo \ {j}
        /\ due' = [DueAfter(n) EXCEPT ![j] = interval[j]]
        /\ waited' = [WaitedAfter(n) EXCEPT ![j] = 0]
        /\ overdue' = [OverdueAfter(n) EXCEPT ![j] = 0]
        /\ shortest' = [shortest EXCEPT ![j] = interval[j]]
        /\ longest' = [longest EXCEPT ![j] = interval[j]]
    /\ UNCHANGED <<file, pending, pc, counter, interval>>

AllRun ==
    /\ pc = "run" /\ todo = {}
    /\ pc' = "sleep"
    /\ UNCHANGED <<file, pending, counter, todo, job, history>>

(* time.sleep(1); counter -= 1 *)
Sleep ==
    /\ pc = "sleep"
    /\ Elapse(1)
    /\ counter' = Larger(counter - 1, -1)
    /\ pc' = "loop"
    /\ UNCHANGED <<file, pending, todo>>

Main == RefreshBegins \/ RefreshEnds \/ NothingNew \/ NotYet \/ RunPending \/ RunJob
            \/ AllRun \/ Sleep

-----------------------------------------------------------------------------
(* The inventory is saved, or config.yaml: any frequencies. *)
Edit ==
    /\ file' \in [Polls -> Frequencies \cup {0}] /\ pending' = TRUE
    /\ UNCHANGED <<pc, counter, todo, job, history>>

(* force_inventory_refresh, two minutes after a realtime thread found a walk
   to do. *)
ForceRefresh ==
    /\ pending' = TRUE
    /\ UNCHANGED <<file, pc, counter, todo, job, history>>

(* The process ends, as it does when a job or a refresh raises, and starts
   again without jobs. *)
Crash ==
    /\ pending' = TRUE /\ pc' = "loop" /\ counter' = 0 /\ todo' = {}
    /\ interval' = Zero /\ due' = Zero
    /\ waited' = Zero /\ overdue' = Zero /\ shortest' = Zero /\ longest' = Zero
    /\ UNCHANGED file

Next == Main \/ Edit \/ ForceRefresh \/ Crash

Spec == Init /\ [][Next]_vars
(* The main thread goes on: every walk and sleep ends, and the MIB server answers,
   for get_profiles repeats its requests without end. *)
FairSpec == Spec /\ WF_vars(Main)

-----------------------------------------------------------------------------
(* Properties. *)

(* A job runs again no sooner than the smallest interval it was given since its
   last run, and is due no later than the largest, however often refreshes move
   its next_run: it is neither polled too often nor put off for ever. *)
Punctual ==
    \A j \in Scheduled :
        /\ shortest[j] <= waited[j] + due[j]
        /\ waited[j] + due[j] <= longest[j] + overdue[j]

(* A job that is due runs in the pass that follows: it waits for the walks of two
   passes and one refresh.  A device that keeps an enricher job busy delays every
   other device, but by no more than that -- where the MIB server answers the refresh
   within MaxWait, for the refresh waits as long as it does not. *)
DelayBounded ==
    \A j \in Scheduled :
        overdue[j] <= 2 * Cardinality(Enrichers) * MaxBlock + MaxWait

(* An edit of the files, or a forced refresh, is taken up -- with a refresh
   interval of 0 the counter passes 0 once and for all. *)
EditIsSeen == RefreshInterval > 0 => (pending ~> ~pending)

=============================================================================
