--------------------------- MODULE PollTimerProofs ---------------------------
(***************************************************************************)
(* Theorems about PollTimer, for any jobs, frequencies, ttl, refresh        *)
(* interval and bounds.                                                    *)
(***************************************************************************)
EXTENDS PollTimer, FiniteSetTheorems, TLAPS

LEMMA Constants ==
    /\ Frequencies \subseteq Nat \ {0} /\ Ttl \in Nat \ {0}
    /\ RefreshInterval \in Nat /\ MaxBlock \in Nat /\ MaxWait \in Nat
    /\ \A f \in Frequencies \cup {0, Ttl} : f \in Nat
    /\ IsFiniteSet(Enrichers) /\ \A j \in Polls : j \notin Enrichers
    BY FrequencyAssumption, RefreshAssumption, BoundsAssumption, JobsAssumption

LEMMA Minimum ==
    ASSUME NEW a \in Int, NEW b \in Int
    PROVE  /\ Smaller(a, b) \in {a, b} /\ Smaller(a, b) <= a /\ Smaller(a, b) <= b
           /\ Larger(a, b) \in {a, b} /\ Larger(a, b) >= a /\ Larger(a, b) >= b
    BY DEF Smaller, Larger

LEMMA WantedType ==
    ASSUME TypeOK, NEW j \in Jobs
    PROVE  Wanted(j) \in Frequencies \cup {0, Ttl} /\ Wanted(j) \in Nat
<1>1. CASE j \in Polls
    <2>1. file[j] \in Frequencies \cup {0}
        BY <1>1 DEF TypeOK
    <2> QED
        BY <1>1, <2>1, Constants DEF Wanted, Jobs
<1>2. CASE j \notin Polls
    BY <1>2, Constants DEF Wanted
<1> QED
    BY <1>1, <1>2

(* What n seconds do to one job. *)
LEMMA Later ==
    ASSUME TypeOK, NEW n \in Nat, NEW j \in Jobs
    PROVE  /\ DueAfter(n)[j] \in Nat /\ WaitedAfter(n)[j] \in Nat
           /\ OverdueAfter(n)[j] \in Nat
           /\ DueAfter(n)[j] = IF due[j] > n THEN due[j] - n ELSE 0
           /\ j \in Scheduled => /\ WaitedAfter(n)[j] = waited[j] + n
                                 /\ OverdueAfter(n)[j] = IF n > due[j]
                                        THEN overdue[j] + (n - due[j]) ELSE overdue[j]
           /\ j \notin Scheduled => WaitedAfter(n)[j] = 0 /\ OverdueAfter(n)[j] = 0
<1>1. due[j] \in Nat /\ waited[j] \in Nat /\ overdue[j] \in Nat
    BY DEF TypeOK
<1>2. Larger(due[j] - n, 0) = IF due[j] > n THEN due[j] - n ELSE 0
    BY <1>1 DEF Larger
<1>3. Larger(n - due[j], 0) = IF n > due[j] THEN n - due[j] ELSE 0
    BY <1>1 DEF Larger
<1> QED
    BY <1>1, <1>2, <1>3 DEF DueAfter, WaitedAfter, OverdueAfter

LEMMA AfterType ==
    ASSUME TypeOK, NEW n \in Nat
    PROVE  {DueAfter(n), WaitedAfter(n), OverdueAfter(n)} \subseteq [Jobs -> Nat]
<1>1. \A j \in Jobs : /\ DueAfter(n)[j] \in Nat /\ WaitedAfter(n)[j] \in Nat
                      /\ OverdueAfter(n)[j] \in Nat
    BY Later
<1>2. /\ DueAfter(n) = [j \in Jobs |-> DueAfter(n)[j]]
      /\ WaitedAfter(n) = [j \in Jobs |-> WaitedAfter(n)[j]]
      /\ OverdueAfter(n) = [j \in Jobs |-> OverdueAfter(n)[j]]
    BY DEF DueAfter, WaitedAfter, OverdueAfter
<1> QED
    BY <1>1, <1>2

-----------------------------------------------------------------------------
(* Jobs wait to be run only while run_pending runs them. *)
TypeInv == TypeOK /\ (pc # "run" => todo = {})

LEMMA TypeInit == Init => TypeInv
    BY Constants DEF Init, TypeInv, TypeOK, Zero

LEMMA TypeNext == TypeInv /\ [Next]_vars => TypeInv'
<1> SUFFICES ASSUME TypeInv, [Next]_vars PROVE TypeInv'
    OBVIOUS
<1> USE DEF job, history, TypeInv
<1>1. CASE RefreshBegins \/ ForceRefresh \/ Edit \/ UNCHANGED vars
    <2>1. pending' \in BOOLEAN /\ file' \in [Polls -> Frequencies \cup {0}]
        BY <1>1 DEF RefreshBegins, ForceRefresh, Edit, TypeOK, vars
    <2>2. /\ pc' \in {"loop", "refresh", "pending", "run", "sleep"}
          /\ pc' # "run" => todo' = {}
        BY <1>1 DEF RefreshBegins, ForceRefresh, Edit, TypeOK, vars
    <2>3. UNCHANGED <<counter, todo, interval, due, waited, overdue, shortest, longest>>
        BY <1>1 DEF RefreshBegins, ForceRefresh, Edit, vars
    <2> QED
        BY <2>1, <2>2, <2>3 DEF TypeOK, Scheduled
<1>2. CASE NothingNew \/ NotYet \/ AllRun
    <2>1. counter' \in {-1} \cup 0 .. RefreshInterval
        BY <1>2, Constants DEF NothingNew, NotYet, AllRun, TypeOK
    <2>2. pc' \in {"pending", "sleep"} /\ todo' = {}
        BY <1>2 DEF NothingNew, NotYet, AllRun
    <2> QED
        BY <1>2, <2>1, <2>2 DEF NothingNew, NotYet, AllRun, TypeOK
<1>3. CASE RunPending
    BY <1>3 DEF RunPending, TypeOK, Scheduled
<1>4. CASE RefreshEnds
    <2> PICK n \in 0 .. MaxWait : RefreshEnds!2!(n)
        BY <1>4 DEF RefreshEnds
    <2>0. n \in Nat
        BY Constants
    <2>1. interval' \in [Jobs -> Frequencies \cup {0, Ttl}]
        BY WantedType
    <2>2. \A f \in {due', waited', overdue', shortest', longest'} : f \in [Jobs -> Nat]
        <3>1. \A j \in Jobs :
                /\ Wanted(j) \in Nat /\ DueAfter(n)[j] \in Nat
                /\ WaitedAfter(n)[j] \in Nat /\ OverdueAfter(n)[j] \in Nat
                /\ shortest[j] \in Nat /\ longest[j] \in Nat
            BY <2>0, WantedType, Later DEF TypeOK
        <3>2. \A j \in Jobs :
                /\ NextRun(DueAfter(n)[j], Wanted(j)) \in Nat
                /\ Smaller(shortest[j], Wanted(j)) \in Nat
                /\ Larger(longest[j], Wanted(j)) \in Nat
            BY <3>1 DEF NextRun, Smaller, Larger
        <3> QED
            BY <3>1, <3>2
    <2>3. counter' \in {-1} \cup 0 .. RefreshInterval /\ pc' = "pending" /\ todo' = {}
        BY <1>4, Constants DEF RefreshEnds
    <2>4. UNCHANGED <<file, pending>>
        BY <1>4 DEF RefreshEnds
    <2> QED
        BY <2>1, <2>2, <2>3, <2>4 DEF TypeOK, Scheduled
<1>5. CASE RunJob
    <2> PICK j \in todo, n \in 0 .. MaxBlock : RunJob!2!(j, n)
        BY <1>5 DEF RunJob
    <2>0. n \in Nat /\ j \in Jobs /\ interval[j] \in Nat
        <3>1. n \in Nat /\ j \in Jobs
            BY Constants DEF TypeOK, Scheduled
        <3>2. interval[j] \in Frequencies \cup {0, Ttl}
            BY <3>1 DEF TypeOK
        <3> QED
            BY <3>1, <3>2, Constants
    <2>1. {DueAfter(n), WaitedAfter(n), OverdueAfter(n)} \subseteq [Jobs -> Nat]
        BY <2>0, AfterType
    <2>2. \A f \in {due', waited', overdue', shortest', longest'} : f \in [Jobs -> Nat]
        BY <2>0, <2>1 DEF TypeOK
    <2>3. todo' \subseteq todo
        OBVIOUS
    <2> QED
        BY <1>5, <2>2, <2>3 DEF RunJob, TypeOK, Scheduled
<1>6. CASE Sleep
    <2>1. {due', waited', overdue'} \subseteq [Jobs -> Nat]
        BY <1>6, AfterType DEF Sleep, Elapse
    <2>2. counter' \in {-1} \cup 0 .. RefreshInterval
        BY <1>6, Constants DEF Sleep, TypeOK, Larger
    <2> QED
        BY <1>6, <2>1, <2>2 DEF Sleep, Elapse, TypeOK, Scheduled
<1>7. CASE Crash
    BY <1>7, Constants DEF Crash, Zero, TypeOK, Scheduled
<1> QED
    BY <1>1, <1>2, <1>3, <1>4, <1>5, <1>6, <1>7 DEF Next, Main

(* Every behaviour stays within the types. *)
THEOREM TypeCorrect == Spec => []TypeOK
<1>1. TypeInv => TypeOK
    BY DEF TypeInv
<1> QED
    BY TypeInit, TypeNext, <1>1, PTL DEF Spec

-----------------------------------------------------------------------------
(* Punctual, with the fact that only a job whose time has come is overdue. *)

OnTime(j) == /\ shortest[j] <= waited[j] + due[j]
             /\ waited[j] + due[j] <= longest[j] + overdue[j]
             /\ due[j] > 0 => overdue[j] = 0

PunctualInv == \A j \in Scheduled : OnTime(j)

LEMMA JobType ==
    ASSUME TypeOK, NEW j \in Jobs
    PROVE  /\ interval[j] \in Nat /\ due[j] \in Nat /\ waited[j] \in Nat
           /\ overdue[j] \in Nat /\ shortest[j] \in Nat /\ longest[j] \in Nat
<1>1. interval[j] \in Frequencies \cup {0, Ttl}
    BY DEF TypeOK
<1> QED
    BY <1>1, Constants DEF TypeOK

LEMMA ScheduledJobs == TypeOK => \A j \in Scheduled : j \in Jobs /\ interval[j] # 0
    BY DEF Scheduled

(* Time alone keeps a job on time. *)
LEMMA OnTimeLater ==
    ASSUME TypeOK, NEW j \in Scheduled, OnTime(j), NEW n \in Nat
    PROVE  /\ shortest[j] <= WaitedAfter(n)[j] + DueAfter(n)[j]
           /\ WaitedAfter(n)[j] + DueAfter(n)[j] <= longest[j] + OverdueAfter(n)[j]
           /\ DueAfter(n)[j] > 0 => OverdueAfter(n)[j] = 0
<1>1. j \in Jobs
    BY DEF Scheduled
<1> QED
    BY <1>1, JobType, Later DEF OnTime

LEMMA OnTimeRefresh ==
    ASSUME TypeOK, PunctualInv, RefreshEnds
    PROVE  PunctualInv'
<1> SUFFICES ASSUME NEW j \in Scheduled' PROVE OnTime(j)'
    BY DEF PunctualInv
<1> PICK n \in 0 .. MaxWait : RefreshEnds!2!(n)
    BY DEF RefreshEnds
<1>0. n \in Nat /\ j \in Jobs /\ Wanted(j) \in Nat /\ Wanted(j) # 0
    BY Constants, WantedType DEF Scheduled
<1>1. CASE interval[j] = 0
    <2>1. j \notin Scheduled
        BY <1>1 DEF Scheduled
    <2>2. waited'[j] = 0 /\ overdue'[j] = 0
        BY <1>0, <2>1, Later
    <2>3. due'[j] = Wanted(j) /\ shortest'[j] = Wanted(j) /\ longest'[j] = Wanted(j)
        BY <1>0, <1>1
    <2> QED
        BY <1>0, <2>2, <2>3 DEF OnTime
<1>2. CASE interval[j] # 0
    <2>1. j \in Scheduled
        BY <1>0, <1>2 DEF Scheduled
    <2>2. /\ due'[j] = Smaller(DueAfter(n)[j], Wanted(j))
          /\ waited'[j] = WaitedAfter(n)[j] /\ overdue'[j] = OverdueAfter(n)[j]
          /\ shortest'[j] = Smaller(shortest[j], Wanted(j))
          /\ longest'[j] = Larger(longest[j], Wanted(j))
        BY <1>0, <1>2 DEF NextRun
    <2>3. /\ DueAfter(n)[j] \in Nat /\ WaitedAfter(n)[j] \in Nat
          /\ OverdueAfter(n)[j] \in Nat /\ shortest[j] \in Nat /\ longest[j] \in Nat
        BY <1>0, Later, JobType
    <2>4. /\ shortest[j] <= WaitedAfter(n)[j] + DueAfter(n)[j]
          /\ WaitedAfter(n)[j] + DueAfter(n)[j] <= longest[j] + OverdueAfter(n)[j]
          /\ DueAfter(n)[j] > 0 => OverdueAfter(n)[j] = 0
        BY <1>0, <2>1, OnTimeLater DEF PunctualInv
    <2> QED
        BY <1>0, <2>2, <2>3, <2>4 DEF OnTime, Smaller, Larger
<1> QED
    BY <1>1, <1>2

LEMMA OnTimeRun ==
    ASSUME TypeOK, PunctualInv, RunJob
    PROVE  PunctualInv'
<1> SUFFICES ASSUME NEW j \in Scheduled' PROVE OnTime(j)'
    BY DEF PunctualInv
<1> PICK i \in todo, n \in 0 .. MaxBlock : RunJob!2!(i, n)
    BY DEF RunJob
<1>0. n \in Nat /\ j \in Jobs /\ j \in Scheduled /\ interval[j] \in Nat /\ i \in Jobs
    BY Constants, JobType DEF RunJob, Scheduled, TypeOK
<1>1. CASE j = i
    <2>1. {DueAfter(n), WaitedAfter(n), OverdueAfter(n)} \subseteq [Jobs -> Nat]
        BY <1>0, AfterType
    <2>2. /\ due'[j] = interval[j] /\ waited'[j] = 0 /\ overdue'[j] = 0
          /\ shortest'[j] = interval[j] /\ longest'[j] = interval[j]
        BY <1>0, <1>1, <2>1 DEF TypeOK
    <2> QED
        BY <1>0, <2>2 DEF OnTime
<1>2. CASE j # i
    <2>1. {DueAfter(n), WaitedAfter(n), OverdueAfter(n)} \subseteq [Jobs -> Nat]
        BY <1>0, AfterType
    <2>2. /\ due'[j] = DueAfter(n)[j] /\ waited'[j] = WaitedAfter(n)[j]
          /\ overdue'[j] = OverdueAfter(n)[j]
          /\ shortest'[j] = shortest[j] /\ longest'[j] = longest[j]
        BY <1>0, <1>2, <2>1 DEF TypeOK
    <2> QED
        BY <1>0, <2>2, OnTimeLater DEF OnTime, PunctualInv
<1> QED
    BY <1>1, <1>2

LEMMA OnTimeNext == TypeOK /\ PunctualInv /\ [Next]_vars => PunctualInv'
<1> SUFFICES ASSUME TypeOK, PunctualInv, [Next]_vars PROVE PunctualInv'
    OBVIOUS
<1>1. CASE RefreshEnds \/ RunJob
    BY <1>1, OnTimeRefresh, OnTimeRun
<1>2. CASE Sleep
    <2> SUFFICES ASSUME NEW j \in Scheduled' PROVE OnTime(j)'
        BY DEF PunctualInv
    <2>1. j \in Scheduled /\ OnTime(j)
        BY <1>2 DEF Sleep, Elapse, Scheduled, PunctualInv
    <2> QED
        BY <1>2, <2>1, OnTimeLater DEF Sleep, Elapse, OnTime
<1>3. CASE Crash
    BY <1>3 DEF Crash, Zero, Scheduled, PunctualInv
<1>4. CASE \/ RefreshBegins \/ NothingNew \/ NotYet \/ RunPending \/ AllRun
           \/ Edit \/ ForceRefresh \/ UNCHANGED vars
    <2>1. UNCHANGED <<interval, due, waited, overdue, shortest, longest>>
        BY <1>4 DEF RefreshBegins, NothingNew, NotYet, RunPending, AllRun, Edit,
            ForceRefresh, vars, job, history
    <2> QED
        BY <2>1 DEF PunctualInv, OnTime, Scheduled
<1> QED
    BY <1>1, <1>2, <1>3, <1>4 DEF Next, Main

(* No schedule of edits, forced refreshes, waits and crashes makes a job run too
   often or puts it off beyond its longest interval: that __update_schedule
   keeps the earlier next_run is enough. *)
THEOREM PunctualCorrect == Spec => []Punctual
<1>1. Init => TypeInv /\ PunctualInv
    <2> SUFFICES ASSUME Init PROVE PunctualInv
        BY TypeInit
    <2> QED
        BY DEF Init, Zero, Scheduled, PunctualInv
<1>2. TypeInv /\ PunctualInv /\ [Next]_vars => (TypeInv /\ PunctualInv)'
    BY TypeNext, OnTimeNext DEF TypeInv
<1>3. PunctualInv => Punctual
    BY DEF PunctualInv, OnTime, Punctual
<1> QED
    BY <1>1, <1>2, <1>3, PTL DEF Spec

-----------------------------------------------------------------------------
(* DelayBounded.  A pass has a budget: the walks of all the enricher jobs.  What
   is spent of it are those of the jobs that are not in todo any more. *)

Budget == Cardinality(Enrichers) * MaxBlock
Spent  == (Cardinality(Enrichers) - Cardinality(todo \cap Enrichers)) * MaxBlock

LEMMA Left ==
    ASSUME NEW S
    PROVE  /\ Cardinality(Enrichers) \in Nat /\ Cardinality(S \cap Enrichers) \in Nat
           /\ Cardinality(S \cap Enrichers) <= Cardinality(Enrichers)
<1>1. IsFiniteSet(Enrichers)
    BY Constants
<1>2. IsFiniteSet(S \cap Enrichers)
      /\ Cardinality(S \cap Enrichers) <= Cardinality(Enrichers)
    <2>1. (S \cap Enrichers) \in SUBSET Enrichers
        OBVIOUS
    <2> QED
        BY <1>1, <2>1, FS_Subset
<1> QED
    BY <1>1, <1>2, FS_CardinalityType

LEMMA Product ==
    ASSUME NEW a \in Nat, NEW b \in Nat, NEW c \in Nat, b <= a
    PROVE  /\ a * c \in Nat /\ (a - b) * c \in Nat /\ (a - b) * c <= a * c
           /\ b > 0 => (a - (b - 1)) * c = (a - b) * c + c
<1>1. a * c \in Nat /\ b * c \in Nat /\ (a - b) * c = a * c - b * c
    OBVIOUS
<1>2. (a - b) * c \in Nat
    OBVIOUS
<1>3. (a - (b - 1)) * c = (a - b) * c + c
    OBVIOUS
<1> QED
    BY <1>1, <1>2, <1>3

LEMMA SpentType ==
    /\ Budget \in Nat /\ Spent \in Nat /\ Spent <= Budget
    /\ todo = {} => Spent = Budget
<1>1. Budget \in Nat /\ Spent \in Nat /\ Spent <= Budget
    BY Left, Constants, Product DEF Budget, Spent
<1>2. ASSUME todo = {} PROVE Spent = Budget
    <2>1. Cardinality(todo \cap Enrichers) = 0
        <3>1. todo \cap Enrichers = {}
            BY <1>2
        <3> QED
            BY <3>1, FS_EmptySet
    <2> QED
        BY <2>1, Left, Constants DEF Budget, Spent
<1> QED
    BY <1>1, <1>2

(* The walk of one enricher job is spent when it has run. *)
LEMMA SpentRun ==
    ASSUME NEW i \in todo, todo' = todo \ {i}
    PROVE  /\ i \in Enrichers => Spent' = Spent + MaxBlock
           /\ i \notin Enrichers => Spent' = Spent
<1> DEFINE S == todo \cap Enrichers
<1>1. IsFiniteSet(S)
    <2>1. S \in SUBSET Enrichers
        OBVIOUS
    <2> QED
        BY <2>1, Constants, FS_Subset
<1>2. ASSUME i \in Enrichers PROVE Spent' = Spent + MaxBlock
    <2>1. todo' \cap Enrichers = S \ {i} /\ i \in S
        BY <1>2
    <2>2. Cardinality(todo' \cap Enrichers) = Cardinality(S) - 1
        BY <1>1, <2>1, FS_RemoveElement
    <2>3. Cardinality(S) \in Nat /\ Cardinality(todo' \cap Enrichers) \in Nat
        BY <1>1, <2>1, Left, FS_RemoveElement, FS_CardinalityType
    <2>4. Cardinality(S) > 0 /\ Cardinality(S) <= Cardinality(Enrichers)
          /\ Cardinality(Enrichers) \in Nat
        BY <2>2, <2>3, Left
    <2> QED
        BY <2>2, <2>3, <2>4, Constants, Product DEF Spent
<1>3. ASSUME i \notin Enrichers PROVE Spent' = Spent
    <2>1. todo' \cap Enrichers = S
        BY <1>3
    <2> QED
        BY <2>1 DEF Spent
<1> QED
    BY <1>2, <1>3

(* How long a job can have been due, at each point of a pass.  One that waits in
   todo may have missed the pass before; one that does not was not due yet when
   this pass began, or has run in it. *)
DelayInv ==
    \A j \in Scheduled :
        /\ pc \in {"loop", "refresh"} => overdue[j] <= Budget
        /\ pc = "pending" => overdue[j] <= Budget + MaxWait
        /\ pc = "run" /\ j \in todo => overdue[j] <= Budget + MaxWait + Spent
        /\ pc = "run" /\ j \notin todo => overdue[j] + 1 <= Spent + due[j]
        /\ pc = "sleep" => overdue[j] + 1 <= Budget + due[j]

LEMMA DelayRun ==
    ASSUME TypeInv, PunctualInv, DelayInv, RunJob
    PROVE  DelayInv'
<1> USE DEF TypeInv
<1> SUFFICES ASSUME NEW j \in Scheduled'
             PROVE  /\ j \in todo' => overdue'[j] <= Budget + MaxWait + Spent'
                    /\ j \notin todo' => overdue'[j] + 1 <= Spent' + due'[j]
    BY DEF DelayInv, RunJob, Budget
<1> PICK i \in todo, n \in 0 .. MaxBlock : RunJob!2!(i, n)
    BY DEF RunJob
<1>0. /\ n \in Nat /\ n <= MaxBlock /\ MaxBlock \in Nat /\ MaxWait \in Nat
      /\ j \in Jobs /\ j \in Scheduled /\ i \in Jobs /\ i \in Scheduled
      /\ pc = "run"
    BY Constants DEF RunJob, Scheduled, TypeOK
<1>1. Spent \in Nat /\ Spent' \in Nat /\ Budget \in Nat /\ Spent + n <= Spent'
    <2>1. Spent \in Nat /\ Budget \in Nat
        BY SpentType
    <2>2. Spent' = Spent + MaxBlock \/ (Spent' = Spent /\ n = 0)
        <3>1. i \in Enrichers \/ i \in Polls
            BY <1>0 DEF Jobs
        <3> QED
            BY <3>1, Constants, SpentRun
    <2> QED
        BY <1>0, <2>1, <2>2
<1>2. {DueAfter(n), WaitedAfter(n), OverdueAfter(n)} \subseteq [Jobs -> Nat]
    BY <1>0, AfterType
<1>3. CASE j = i
    <2>1. overdue'[j] = 0 /\ due'[j] = interval[j] /\ interval[j] \in Nat /\ interval[j] # 0
        BY <1>0, <1>2, <1>3, JobType DEF TypeOK, Scheduled
    <2> QED
        BY <1>1, <1>3, <2>1
<1>4. CASE j # i
    <2>1. overdue'[j] = OverdueAfter(n)[j] /\ due'[j] = DueAfter(n)[j]
        BY <1>0, <1>2, <1>4
    <2>2. /\ overdue'[j] = IF n > due[j] THEN overdue[j] + (n - due[j]) ELSE overdue[j]
          /\ due'[j] = IF due[j] > n THEN due[j] - n ELSE 0
        BY <1>0, <2>1, Later
    <2>3. overdue[j] \in Nat /\ due[j] \in Nat /\ (due[j] > 0 => overdue[j] = 0)
        BY <1>0, JobType DEF PunctualInv, OnTime
    <2>4. j \in todo' <=> j \in todo
        BY <1>4
    <2>5. CASE j \in todo
        <3>1. overdue[j] <= Budget + MaxWait + Spent
            BY <1>0, <2>5 DEF DelayInv
        <3> QED
            BY <1>0, <1>1, <2>2, <2>3, <2>4, <2>5, <3>1
    <2>6. CASE j \notin todo
        <3>1. overdue[j] + 1 <= Spent + due[j]
            BY <1>0, <2>6 DEF DelayInv
        <3> QED
            BY <1>0, <1>1, <2>2, <2>3, <2>4, <2>6, <3>1
    <2> QED
        BY <2>5, <2>6
<1> QED
    BY <1>3, <1>4

LEMMA DelayRefresh ==
    ASSUME TypeInv, PunctualInv, DelayInv, RefreshEnds
    PROVE  DelayInv'
<1> USE DEF TypeInv
<1> SUFFICES ASSUME NEW j \in Scheduled' PROVE overdue'[j] <= Budget + MaxWait
    BY DEF DelayInv, RefreshEnds, Budget
<1> PICK n \in 0 .. MaxWait : RefreshEnds!2!(n)
    BY DEF RefreshEnds
<1>0. /\ n \in Nat /\ n <= MaxWait /\ MaxWait \in Nat /\ Budget \in Nat
      /\ j \in Jobs /\ Wanted(j) # 0
    BY Constants, SpentType DEF Scheduled
<1>1. overdue'[j] = OverdueAfter(n)[j]
    BY <1>0
<1>2. CASE j \notin Scheduled
    BY <1>0, <1>1, <1>2, Later
<1>3. CASE j \in Scheduled
    <2>1. overdue[j] \in Nat /\ due[j] \in Nat /\ overdue[j] <= Budget
        BY <1>0, <1>3, JobType DEF DelayInv, RefreshEnds
    <2> QED
        BY <1>0, <1>1, <1>3, <2>1, Later
<1> QED
    BY <1>2, <1>3

LEMMA DelayNext ==
    TypeInv /\ PunctualInv /\ DelayInv /\ [Next]_vars => DelayInv'
<1> SUFFICES ASSUME TypeInv, PunctualInv, DelayInv, [Next]_vars PROVE DelayInv'
    OBVIOUS
<1> USE DEF TypeInv
<1>b. Budget \in Nat /\ Budget' = Budget /\ MaxWait \in Nat
    BY SpentType, Constants DEF Budget
<1>1. CASE RefreshEnds \/ RunJob
    BY <1>1, DelayRefresh, DelayRun
<1>2. CASE RunPending
    <2> SUFFICES ASSUME NEW j \in Scheduled'
                 PROVE  /\ j \in todo' => overdue'[j] <= Budget + MaxWait + Spent'
                        /\ j \notin todo' => overdue'[j] + 1 <= Spent' + due'[j]
        BY <1>2, <1>b DEF DelayInv, RunPending
    <2>1. /\ j \in Scheduled /\ j \in Jobs /\ overdue' = overdue /\ due' = due
          /\ overdue[j] <= Budget + MaxWait /\ (j \in todo' <=> due[j] = 0)
        BY <1>2 DEF RunPending, Scheduled, job, history, DelayInv
    <2>2. overdue[j] \in Nat /\ due[j] \in Nat /\ (due[j] > 0 => overdue[j] = 0)
        BY <2>1, JobType DEF PunctualInv, OnTime
    <2>3. Spent' \in Nat
        BY Left, Product, Constants DEF Spent
    <2> QED
        BY <1>b, <2>1, <2>2, <2>3
<1>3. CASE AllRun
    <2> SUFFICES ASSUME NEW j \in Scheduled' PROVE overdue'[j] + 1 <= Budget + due'[j]
        BY <1>3, <1>b DEF DelayInv, AllRun
    <2>1. /\ j \in Scheduled /\ overdue' = overdue /\ due' = due
          /\ overdue[j] + 1 <= Spent + due[j] /\ Spent = Budget
        BY <1>3, SpentType DEF AllRun, Scheduled, job, history, DelayInv
    <2> QED
        BY <2>1
<1>4. CASE Sleep
    <2> SUFFICES ASSUME NEW j \in Scheduled' PROVE overdue'[j] <= Budget
        BY <1>4, <1>b DEF DelayInv, Sleep
    <2>1. /\ j \in Scheduled /\ j \in Jobs /\ overdue[j] + 1 <= Budget + due[j]
          /\ overdue'[j] = OverdueAfter(1)[j]
        BY <1>4 DEF Sleep, Elapse, Scheduled, DelayInv
    <2>2. overdue[j] \in Nat /\ due[j] \in Nat /\ (due[j] > 0 => overdue[j] = 0)
        BY <2>1, JobType DEF PunctualInv, OnTime
    <2>3. OverdueAfter(1)[j] = IF 1 > due[j] THEN overdue[j] + (1 - due[j]) ELSE overdue[j]
        BY <2>1, Later
    <2> QED
        BY <1>b, <2>1, <2>2, <2>3
<1>5. CASE Crash
    BY <1>5 DEF Crash, Zero, Scheduled, DelayInv
<1>6. CASE RefreshBegins \/ NothingNew \/ NotYet
    <2> SUFFICES ASSUME NEW j \in Scheduled'
                 PROVE  overdue'[j] <= Budget /\ overdue'[j] <= Budget + MaxWait
        BY <1>6, <1>b DEF DelayInv, RefreshBegins, NothingNew, NotYet
    <2>1. j \in Scheduled /\ j \in Jobs /\ overdue' = overdue /\ overdue[j] <= Budget
        BY <1>6 DEF RefreshBegins, NothingNew, NotYet, Scheduled, job, history, DelayInv
    <2> QED
        BY <1>b, <2>1, JobType
<1>7. CASE Edit \/ ForceRefresh \/ UNCHANGED vars
    <2>1. UNCHANGED <<pc, todo, interval, due, overdue>>
        BY <1>7 DEF Edit, ForceRefresh, vars, job, history
    <2> QED
        BY <2>1 DEF DelayInv, Scheduled, Budget, Spent
<1> QED
    BY <1>1, <1>2, <1>3, <1>4, <1>5, <1>6, <1>7 DEF Next, Main

(* However many enricher jobs walk slow devices in the main thread, a job that
   is due waits for two walks of each, and one refresh, at most. *)
THEOREM DelayCorrect == Spec => []DelayBounded
<1>1. Init => TypeInv /\ PunctualInv /\ DelayInv
    <2> SUFFICES ASSUME Init PROVE PunctualInv /\ DelayInv
        BY TypeInit
    <2> QED
        BY DEF Init, Zero, Scheduled, PunctualInv, DelayInv
<1>2. TypeInv /\ PunctualInv /\ DelayInv /\ [Next]_vars
          => (TypeInv /\ PunctualInv /\ DelayInv)'
    BY TypeNext, OnTimeNext, DelayNext DEF TypeInv
<1>3. TypeInv /\ PunctualInv /\ DelayInv => DelayBounded
    <2> SUFFICES ASSUME TypeInv, PunctualInv, DelayInv, NEW j \in Scheduled
                 PROVE  overdue[j] <= 2 * Cardinality(Enrichers) * MaxBlock + MaxWait
        BY DEF DelayBounded
    <2>1. /\ Budget \in Nat /\ Spent \in Nat /\ Spent <= Budget /\ MaxWait \in Nat
          /\ Cardinality(Enrichers) \in Nat /\ MaxBlock \in Nat
        BY SpentType, Left, Constants
    <2>2. overdue[j] <= Budget + Budget + MaxWait
        <3>1. j \in Jobs /\ overdue[j] \in Nat /\ due[j] \in Nat
              /\ (due[j] > 0 => overdue[j] = 0)
            BY JobType DEF TypeInv, PunctualInv, OnTime, Scheduled
        <3>2. pc \in {"loop", "refresh", "pending", "run", "sleep"}
            BY DEF TypeInv, TypeOK
        <3> QED
            BY <2>1, <3>1, <3>2 DEF DelayInv
    <2>3. Budget + Budget = 2 * Cardinality(Enrichers) * MaxBlock
        BY <2>1 DEF Budget
    <2> QED
        BY <2>2, <2>3
<1> QED
    BY <1>1, <1>2, <1>3, PTL DEF Spec

=============================================================================
