--------------------------- MODULE WalkRefinement ---------------------------
(***************************************************************************)
(* WalkLifecycle implements WalkPromise, for any devices, number of        *)
(* realtime threads and workers, and bounds.                               *)
(***************************************************************************)
EXTENDS WalkLifecycleProofs

(* What WalkPromise sees as marked and as owed. *)
Marked == {d \in Devices : HasFlag(d)}
Owed   == {d \in Devices : Outstanding(d)}

LEMMA FirstWalkIs ==
    ASSUME NEW d \in Devices
    PROVE  /\ FirstWalk(d) \in Tasks /\ FirstWalk(d) # None
           /\ FirstWalk(d).dev = d /\ FirstWalk(d).flag = "first_time"
           /\ FirstWalk(d)' = FirstWalk(d)
    BY TaskType, NoneAssumption DEF FirstWalk, Flags, Task

LEMMA FirstWalkOf ==
    ASSUME NEW k \in Tasks, k.flag = "first_time"
    PROVE  k.dev \in Devices /\ k = FirstWalk(k.dev)
    BY DEF Tasks, FirstWalk, Task

(* Steps that move no job or task leave what is owed alone. *)
LEMMA OwedSame ==
    ASSUME UNCHANGED <<onetime, queue>>,
           \A u \in Workers : proc'[u].task = proc[u].task
    PROVE  Owed' = Owed
    BY FirstWalkIs DEF Owed, Outstanding

LEMMA MarkedSame ==
    ASSUME walkedHosts' = walkedHosts
    PROVE  Marked' = Marked
    BY DEF Marked, HasFlag

(* Writing the stored data keeps the flag. *)
LEMMA MarkedUpdate ==
    ASSUME TypeOK, NEW d \in Devices, NEW data \in Realtime, NEW s \in Nat,
           update_real_time_data_for(d, data, s)
    PROVE  Marked' = Marked
<1>1. CASE walkedHosts[d] = None
    BY <1>1, MarkedSame DEF update_real_time_data_for
<1>2. CASE walkedHosts[d] # None
    <2>1. walkedHosts[d] \in Documents
        BY <1>2 DEF TypeOK
    <2>2. /\ walkedHosts'[d] = [walkedHosts[d] EXCEPT !.data = data]
          /\ \A e \in Devices : e # d => walkedHosts'[e] = walkedHosts[e]
        BY <1>2 DEF update_real_time_data_for, TypeOK
    <2>3. walkedHosts'[d].walked = walkedHosts[d].walked /\ walkedHosts'[d] # None
        <3>1. walkedHosts'[d] = [walked |-> walkedHosts[d].walked, data |-> data]
            BY <2>1, <2>2 DEF Documents
        <3>2. walkedHosts'[d] \in Documents
            BY <2>1, <3>1 DEF Documents
        <3> QED
            BY <3>1, <3>2, NoneAssumption
    <2> QED
        BY <1>2, <2>2, <2>3 DEF Marked, HasFlag
<1> QED
    BY <1>1, <1>2

(* A worker that ends a task ends the first walk of its device, or no first
   walk at all. *)
LEMMA OwedEnds ==
    ASSUME TypeInv, NEW w \in Workers, proc[w].pc # "idle",
           proc' = [proc EXCEPT ![w] = Idle], UNCHANGED <<onetime, queue>>
    PROVE  /\ proc[w].task.flag = "first_time" => Promise!Ends({proc[w].task.dev})
           /\ proc[w].task.flag # "first_time" => Owed' = Owed
<1> DEFINE k == proc[w].task
<1>1. k \in Tasks /\ \A u \in Workers : proc'[u] = IF u = w THEN Idle ELSE proc[u]
    BY DEF TypeInv, TypeOK, WorkerShape
<1>2. Owed' \subseteq Owed
    <2> SUFFICES ASSUME NEW d \in Devices, Outstanding(d)' PROVE Outstanding(d)
        BY DEF Owed
    <2>1. CASE \E u \in Workers : proc'[u].task = FirstWalk(d)
        BY <1>1, <2>1, FirstWalkIs, LocalsType DEF Outstanding
    <2>2. CASE ~\E u \in Workers : proc'[u].task = FirstWalk(d)
        BY <2>2, FirstWalkIs DEF Outstanding
    <2> QED
        BY <2>1, <2>2
<1>3. ASSUME NEW d \in Devices, Outstanding(d), ~Outstanding(d)'
      PROVE  k = FirstWalk(d)
    BY <1>1, <1>3, FirstWalkIs DEF Outstanding
<1>4. k.flag # "first_time" => Owed' = Owed
    BY <1>2, <1>3, FirstWalkIs DEF Owed
<1>5. ASSUME k.flag = "first_time" PROVE Promise!Ends({k.dev})
    <2>1. k.dev \in Owed
        BY <1>1, <1>5, FirstWalkOf DEF Owed, Outstanding
    <2>2. Owed \ Owed' \subseteq {k.dev}
        BY <1>3, FirstWalkIs DEF Owed
    <2> QED
        BY <1>2, <2>1, <2>2 DEF Owed, Promise!Ends
<1> QED
    BY <1>4, <1>5

-----------------------------------------------------------------------------
PromiseStep == Promise!Next \/ UNCHANGED Promise!vars

(* A realtime thread schedules, marks, or is not seen. *)
LEMMA RefineRealtime ==
    ASSUME IInv, NEW t \in Threads, RealtimeTask(t) \/ RealtimeFails(t)
    PROVE  PromiseStep
<1> USE DEF mongo, history, inventory, device, counters
<1>t. TypeInv /\ TypeOK
    BY DEF IInv, TypeInv
<1>d. ~At(t, "off") /\ ~At(t, "next") => thread[t].dev \in Devices
    BY <1>t DEF TypeInv, ThreadShape, At
<1>1. CASE ScheduleWalk(t)
    <2> DEFINE d == thread[t].dev
    <2>1. d \in Devices
        BY <1>1, <1>d DEF ScheduleWalk, At
    <2>2. Marked' = Marked
        BY <1>1, MarkedSame DEF ScheduleWalk
    <2>3. /\ onetime'[FirstWalk(d)] > 0
          /\ \A e \in Devices : e # d => onetime'[FirstWalk(e)] = onetime[FirstWalk(e)]
        <3>1. onetime' = [onetime EXCEPT ![FirstWalk(d)] = @ + 1]
            BY <1>1 DEF ScheduleWalk, FirstWalk, Add
        <3> QED
            BY <1>t, <2>1, <3>1, FirstWalkIs DEF TypeOK
    <2>4. Owed' = Owed \cup {d}
        BY <1>1, <2>1, <2>3, FirstWalkIs DEF ScheduleWalk, Owed, Outstanding
    <2>5. Promise!Schedule(d)
        BY <1>1, <2>2, <2>4 DEF ScheduleWalk, Owed, Marked, Promise!Schedule
    <2> QED
        BY <2>1, <2>5 DEF PromiseStep, Promise!Next
<1>2. CASE MarkWalked(t)
    <2> DEFINE d == thread[t].dev
    <2>1. d \in Devices
        BY <1>2, <1>d DEF MarkWalked, At
    <2>2. Owed' = Owed
        BY <1>2, OwedSame DEF MarkWalked
    <2>3. Marked' = Marked \cup {d}
        <3> DEFINE doc == [walked |-> TRUE, data |-> real_time_data_for(d)]
        <3>1. walkedHosts' = [walkedHosts EXCEPT ![d] = doc]
            BY <1>2 DEF MarkWalked, update_walked_host
        <3>2. doc \in Documents /\ None \notin Documents
            BY <1>t, <2>1, StoredType, NoneAssumption DEF Documents
        <3>3. /\ walkedHosts'[d] # None /\ walkedHosts'[d].walked
              /\ \A e \in Devices : e # d => walkedHosts'[e] = walkedHosts[e]
            <4>1. walkedHosts'[d] = doc /\ doc.walked = TRUE
                BY <1>t, <2>1, <3>1 DEF TypeOK
            <4>2. \A e \in Devices : e # d => walkedHosts'[e] = walkedHosts[e]
                BY <1>t, <3>1 DEF TypeOK
            <4> QED
                BY <3>2, <4>1, <4>2
        <3> QED
            BY <2>1, <3>3 DEF Marked, HasFlag
    <2>4. Covered(d)
        <3>1. t \in Marking(d)
            BY <1>2 DEF MarkWalked, At, Marking, IInv, MarkInv
        <3> QED
            BY <2>1, <3>1 DEF IInv, FlagInv
    <2>5. Promise!Mark(d)
        BY <1>2, <2>1, <2>2, <2>3, <2>4
           DEF MarkWalked, Owed, Marked, Covered, Promise!Mark
    <2> QED
        BY <2>1, <2>5 DEF PromiseStep, Promise!Next
<1>3. CASE ~ScheduleWalk(t) /\ ~MarkWalked(t)
    <2>1. UNCHANGED <<onetime, queue, proc, unwalkedHosts, done, lost>>
        BY <1>3 DEF RealtimeTask, RealtimeFails, StartRealtime, NextLine, EndRealtime,
                    ReadUptime, ReadFlag, Compare, AddHost, ReadPrevious, WriteUptime
    <2>2. Owed' = Owed
        BY <2>1, OwedSame
    <2>3. Marked' = Marked
        <3>1. CASE WriteUptime(t)
            <4>1. /\ thread[t] \in ThreadStates /\ thread[t].dev \in Devices
                BY <1>t, <1>d, <3>1 DEF WriteUptime, At, TypeOK
            <4>2. /\ [thread[t].prev EXCEPT !.uptime = thread[t].val] \in Realtime
                  /\ thread[t].stamp \in Nat
                BY <4>1 DEF ThreadStates, Realtime
            <4> QED
                BY <1>t, <3>1, <4>1, <4>2, MarkedUpdate DEF WriteUptime
        <3>2. CASE AddHost(t)
            BY <1>t, <1>d, <3>2 DEF AddHost, At, Marked, HasFlag, TypeOK
        <3>3. CASE ~WriteUptime(t) /\ ~AddHost(t)
            BY <1>3, <3>3, MarkedSame DEF RealtimeTask, RealtimeFails, StartRealtime,
                NextLine, EndRealtime, ReadUptime, ReadFlag, Compare, ReadPrevious
        <3> QED
            BY <3>1, <3>2, <3>3
    <2> QED
        BY <2>1, <2>2, <2>3 DEF PromiseStep, Promise!vars, Owed, Marked
<1> QED
    BY <1>1, <1>2, <1>3

(* A worker takes a walk unseen, and ends it as one of the outcomes. *)
LEMMA RefineWorker ==
    ASSUME IInv, NEW w \in Workers, Worker(w) \/ WalkAborted(w)
    PROVE  PromiseStep
<1> USE DEF mongo, history, inventory, device, counters
<1>t. TypeInv /\ TypeOK
    BY DEF IInv, TypeInv
<1> DEFINE k == proc[w].task
           first == k.flag = "first_time"
<1>d. proc[w].pc # "idle" => k \in Tasks /\ k.dev \in Devices
    BY <1>t DEF TypeInv, WorkerShape, Tasks
<1>1. CASE TakeTask(w)
    <2> PICK j \in Tasks : /\ queue[j] > 0
                           /\ queue' = Remove(queue, j)
                           /\ proc' = [proc EXCEPT ![w].pc = "walk", ![w].task = j]
        BY <1>1 DEF TakeTask
    <2>1. proc'[w].task = j /\ \A u \in Workers : u # w => proc'[u] = proc[u]
        BY <1>t DEF TypeOK, WorkerStates
    <2>2. k = None /\ None \notin Tasks
        BY <1>1, <1>t, NoneAssumption DEF TakeTask, TypeInv, WorkerShape
    <2>3. ASSUME NEW d \in Devices PROVE Outstanding(d)' <=> Outstanding(d)
        <3>1. CASE j = FirstWalk(d)
            BY <2>1, <3>1, FirstWalkIs DEF Outstanding
        <3>2. CASE j # FirstWalk(d)
            <4>1. queue'[FirstWalk(d)] = queue[FirstWalk(d)]
                BY <1>t, <3>2, FirstWalkIs DEF Remove, TypeOK
            <4>2. \A u \in Workers : proc'[u].task = FirstWalk(d)
                                         <=> proc[u].task = FirstWalk(d)
                BY <2>1, <2>2, <3>2, FirstWalkIs
            <4> QED
                BY <1>1, <4>1, <4>2, FirstWalkIs DEF TakeTask, Outstanding
        <3> QED
            BY <3>1, <3>2
    <2>4. Owed' = Owed
        BY <2>3 DEF Owed
    <2>5. Marked' = Marked
        BY <1>1, MarkedSame DEF TakeTask
    <2> QED
        BY <1>1, <2>4, <2>5 DEF TakeTask, PromiseStep, Promise!vars, Owed, Marked
<1>2. CASE ReadForDescr(w) \/ WriteDescr(w)
    <2>1. \A u \in Workers : proc'[u].task = proc[u].task
        <3>1. proc[w] \in WorkerStates /\ proc \in [Workers -> WorkerStates]
            BY <1>t DEF TypeOK
        <3>2. proc'[w].task = proc[w].task
            <4>1. CASE ReadForDescr(w)
                BY <3>1, <4>1 DEF ReadForDescr, WorkerStates
            <4>2. CASE WriteDescr(w)
                BY <3>1, <4>2 DEF WriteDescr, WorkerStates
            <4> QED
                BY <1>2, <4>1, <4>2
        <3>3. \A u \in Workers : u # w => proc'[u] = proc[u]
            BY <1>2, <3>1 DEF ReadForDescr, WriteDescr
        <3> QED
            BY <3>2, <3>3
    <2>2. Owed' = Owed
        BY <1>2, <2>1, OwedSame DEF ReadForDescr, WriteDescr
    <2>3. Marked' = Marked
        <3>1. CASE ReadForDescr(w)
            BY <3>1, MarkedSame DEF ReadForDescr
        <3>2. CASE WriteDescr(w)
            <4>1. /\ proc[w] \in WorkerStates /\ k.dev \in Devices
                BY <1>t, <1>d, <3>2 DEF WriteDescr, TypeOK
            <4>2. /\ [proc[w].prev EXCEPT !.descr = TRUE] \in Realtime
                  /\ proc[w].stamp \in Nat
                BY <4>1 DEF WorkerStates, Realtime
            <4> QED
                BY <1>t, <3>2, <4>1, <4>2, MarkedUpdate DEF WriteDescr
        <3> QED
            BY <1>2, <3>1, <3>2
    <2> QED
        BY <1>2, <2>2, <2>3
           DEF ReadForDescr, WriteDescr, PromiseStep, Promise!vars, Owed, Marked
<1>3. CASE WalkError(w) \/ WalkComplete(w) \/ WalkAborted(w)
    <2>0. /\ k \in Tasks /\ k.dev \in Devices
          /\ proc' = [proc EXCEPT ![w] = Idle] /\ UNCHANGED <<onetime, queue>>
        BY <1>3, <1>d DEF WalkError, WalkComplete, WalkAborted
    <2>1. /\ first => Promise!Ends({k.dev})
          /\ ~first => Owed' = Owed
        <3>1. proc[w].pc # "idle"
            BY <1>3 DEF WalkError, WalkComplete, WalkAborted
        <3> QED
            BY <1>t, <2>0, <3>1, OwedEnds
    <2>2. Marked' = Marked
        BY <1>3, MarkedSame DEF WalkError, WalkComplete, WalkAborted
    <2>3. ~first <=> k.flag = "after_fail"
        BY <2>0 DEF Tasks, Flags
    <2>4. CASE WalkError(w)
        <3>1. CASE first
            <4>1. Promise!Fail(k.dev)
                BY <2>1, <2>2, <2>4, <3>1 DEF WalkError, Marked, Promise!Fail
            <4> QED
                BY <2>0, <4>1 DEF PromiseStep, Promise!Next
        <3>2. CASE ~first
            BY <2>1, <2>2, <2>4, <3>2
               DEF WalkError, PromiseStep, Promise!vars, Owed, Marked
        <3> QED
            BY <3>1, <3>2
    <2>5. CASE WalkComplete(w)
        <3>1. CASE first
            <4>1. Promise!Finish(k.dev)
                BY <2>1, <2>2, <2>5, <3>1 DEF WalkComplete, Marked, Promise!Finish
            <4> QED
                BY <2>0, <4>1 DEF PromiseStep, Promise!Next
        <3>2. CASE ~first
            <4>1. Promise!Retry(k.dev)
                BY <2>1, <2>2, <2>3, <2>5, <3>2
                   DEF WalkComplete, Owed, Marked, Promise!Retry
            <4> QED
                BY <2>0, <4>1 DEF PromiseStep, Promise!Next
        <3> QED
            BY <3>1, <3>2
    <2>6. CASE WalkAborted(w)
        <3>1. CASE first
            <4>1. Promise!Lose({k.dev})
                BY <2>1, <2>2, <2>6, <3>1 DEF WalkAborted, Marked, Promise!Lose
            <4> QED
                BY <2>0, <4>1 DEF PromiseStep, Promise!Next
        <3>2. CASE ~first
            BY <2>1, <2>2, <2>6, <3>2
               DEF WalkAborted, PromiseStep, Promise!vars, Owed, Marked
        <3> QED
            BY <3>1, <3>2
    <2> QED
        BY <1>3, <2>4, <2>5, <2>6
<1> QED
    BY <1>1, <1>2, <1>3 DEF Worker

(* Clean forgets a device, then drops its record; a crash loses the walks that
   wait in schedule.jobs; nothing else is seen. *)
LEMMA RefineOthers ==
    ASSUME IInv, Scheduler \/ Tick \/ Restart \/ Outage \/ Recover \/ Edit \/ Crash
    PROVE  PromiseStep
<1> USE DEF mongo, history, inventory, device, counters
<1>t. TypeInv /\ TypeOK
    BY DEF IInv, TypeInv
<1>1. CASE onetime_task
    <2> PICK j \in Tasks : /\ onetime[j] > 0
                           /\ onetime' = Remove(onetime, j)
                           /\ queue' = Add(queue, j)
        BY <1>1 DEF onetime_task
    <2>1. ASSUME NEW d \in Devices PROVE Outstanding(d)' <=> Outstanding(d)
        <3>1. CASE j = FirstWalk(d)
            <4>1. queue'[FirstWalk(d)] > 0
                BY <1>t, <3>1 DEF Add, TypeOK
            <4> QED
                BY <3>1, <4>1, FirstWalkIs DEF Outstanding
        <3>2. CASE j # FirstWalk(d)
            <4>1. /\ queue'[FirstWalk(d)] = queue[FirstWalk(d)]
                  /\ onetime'[FirstWalk(d)] = onetime[FirstWalk(d)]
                BY <1>t, <3>2, FirstWalkIs DEF Add, Remove, TypeOK
            <4> QED
                BY <1>1, <4>1, FirstWalkIs DEF onetime_task, Outstanding
        <3> QED
            BY <3>1, <3>2
    <2>2. Owed' = Owed /\ Marked' = Marked
        BY <1>1, <2>1, MarkedSame DEF onetime_task, Owed
    <2> QED
        BY <1>1, <2>2 DEF onetime_task, PromiseStep, Promise!vars, Owed, Marked
<1>2. CASE ScheduleRetry
    <2> PICK e \in retries : onetime' = Add(onetime, Task(e, "after_fail"))
        BY <1>2 DEF ScheduleRetry
    <2>1. e \in Devices /\ Task(e, "after_fail").flag = "after_fail"
        BY <1>t, TaskType DEF TypeOK, Flags
    <2>2. \A d \in Devices : onetime'[FirstWalk(d)] = onetime[FirstWalk(d)]
        BY <1>t, <2>1, FirstWalkIs DEF Add, TypeOK
    <2>3. Owed' = Owed /\ Marked' = Marked
        BY <1>2, <2>2, FirstWalkIs, MarkedSame DEF ScheduleRetry, Owed, Outstanding
    <2> QED
        BY <1>2, <2>3 DEF ScheduleRetry, PromiseStep, Promise!vars, Owed, Marked
<1>3. CASE DeleteHost
    <2> PICK d \in toClean :
            /\ walkedHosts' = [walkedHosts EXCEPT ![d] = None]
            /\ done' = done \ {d}
            /\ lost' = IF Marking(d) = {} THEN lost \ {d} ELSE lost \cup {d}
        BY <1>3 DEF DeleteHost
    <2>1. d \in Devices
        BY <1>t DEF TypeOK
    <2>2. Owed' = Owed
        BY <1>3, OwedSame DEF DeleteHost
    <2>3. Marked' = Marked \ {d}
        BY <1>t, <2>1 DEF Marked, HasFlag, TypeOK
    <2>4. Promise!Forget(d)
        BY <1>3, <2>2, <2>3 DEF DeleteHost, Owed, Marked, Promise!Forget
    <2> QED
        BY <2>1, <2>4 DEF PromiseStep, Promise!Next
<1>6. CASE DeleteUnwalked
    <2>1. cleaning \in Devices
        BY <1>6, <1>t DEF DeleteUnwalked, TypeOK
    <2>2. Owed' = Owed /\ Marked' = Marked
        BY <1>6, OwedSame, MarkedSame DEF DeleteUnwalked
    <2>3. /\ lost' \in {lost, lost \cup {cleaning}}
          /\ cleaning \in Marked \cap unwalkedHosts => cleaning \in lost'
        BY <1>6 DEF DeleteUnwalked, Marked
    <2>4. Promise!Drop(cleaning)
        BY <1>6, <2>2, <2>3 DEF DeleteUnwalked, Owed, Marked, Promise!Drop
    <2> QED
        BY <2>1, <2>4 DEF PromiseStep, Promise!Next
<1>4. CASE Crash
    <2> DEFINE S == {d \in Devices : onetime[FirstWalk(d)] > 0}
    <2>1. Marked' = Marked
        BY <1>4, MarkedSame DEF Crash
    <2>2. S \subseteq Owed
        BY DEF Owed, Outstanding
    <2>3. ASSUME NEW d \in Devices
          PROVE  /\ Outstanding(d)' => Outstanding(d)
                 /\ Outstanding(d) /\ ~Outstanding(d)' => d \in S
        <3>1. ~(onetime'[FirstWalk(d)] > 0)
            BY <1>4, FirstWalkIs DEF Crash, NoTasks
        <3> QED
            BY <1>4, <3>1, FirstWalkIs DEF Crash, Outstanding
    <2>4. Promise!Ends(S)
        BY <2>2, <2>3 DEF Owed, Promise!Ends
    <2>5. Promise!Lose(S)
        BY <1>4, <2>1, <2>4 DEF Crash, Marked, FirstWalk, Promise!Lose
    <2> QED
        BY <2>5 DEF PromiseStep, Promise!Next
<1>5. CASE ReadUnwalked \/ Tick \/ Restart \/ Outage \/ Recover \/ Edit
    <2>1. UNCHANGED <<onetime, queue, proc, walkedHosts, unwalkedHosts, done, lost>>
        BY <1>5 DEF ReadUnwalked, Tick, Restart, Outage, Recover, Edit
    <2>2. Owed' = Owed /\ Marked' = Marked
        BY <2>1, OwedSame, MarkedSame
    <2> QED
        BY <2>1, <2>2 DEF PromiseStep, Promise!vars, Owed, Marked
<1> QED
    BY <1>1, <1>2, <1>3, <1>4, <1>5, <1>6 DEF Scheduler, Clean

LEMMA RefineInit == Init => Promise!Init
<1> SUFFICES ASSUME Init PROVE Promise!Init
    OBVIOUS
<1>1. Marked = {}
    BY DEF Init, Marked, HasFlag
<1>2. Owed = {}
    BY FirstWalkIs, LocalsType DEF Init, NoTasks, Owed, Outstanding
<1> QED
    BY <1>1, <1>2 DEF Init, Marked, Owed, Promise!Init

LEMMA RefineNext == IInv /\ [Next]_vars => [Promise!Next]_(Promise!vars)
<1> SUFFICES ASSUME IInv, [Next]_vars PROVE PromiseStep
    BY DEF PromiseStep
<1>1. CASE UNCHANGED vars
    <2>1. UNCHANGED <<onetime, queue, proc, walkedHosts, unwalkedHosts, done, lost>>
        BY <1>1 DEF vars, mongo, history
    <2>2. Owed' = Owed /\ Marked' = Marked
        BY <2>1, OwedSame, MarkedSame
    <2> QED
        BY <2>1, <2>2 DEF PromiseStep, Promise!vars, Owed, Marked
<1> QED
    BY <1>1, RefineRealtime, RefineWorker, RefineOthers DEF Next

(* The realtime threads, the one-time jobs, the queue, the workers, the two
   collections and the faults keep the promise of WalkPromise: whatever they
   do is a step of it, or invisible. *)
THEOREM PromiseKept == Spec => KeepsPromise
<1>1. Spec => []IInv
    BY InvInit, InvNext, PTL DEF Spec
<1> QED
    BY <1>1, RefineInit, RefineNext, PTL DEF Spec, KeepsPromise, Promise!Spec

-----------------------------------------------------------------------------
(* What the promise is good for: whoever keeps it never marks a device whose
   walk nobody will make or account for ... *)
THEOREM PromiseMarks == Promise!Spec => []Promise!MarkMeansWalk
<1>1. Promise!Init => Promise!MarkMeansWalk
    BY DEF Promise!Init, Promise!MarkMeansWalk
<1>2. Promise!MarkMeansWalk /\ [Promise!Next]_(Promise!vars) => Promise!MarkMeansWalk'
    BY DEF Promise!MarkMeansWalk, Promise!Next, Promise!vars, Promise!Schedule,
           Promise!Mark, Promise!Ends, Promise!Finish, Promise!Fail, Promise!Lose,
           Promise!Retry, Promise!Forget, Promise!Drop
<1> QED
    BY <1>1, <1>2, PTL DEF Promise!Spec

(* ... and no walk that is owed vanishes without an outcome. *)
THEOREM PromiseSettles == Promise!Spec => Promise!OwedIsSettled
<1>1. [Promise!Next]_(Promise!vars) =>
          [\A d \in Owed \ Owed' : d \in (unwalkedHosts' \cup done' \cup lost')]_(Promise!vars)
    BY DEF Owed, Promise!Next, Promise!vars, Promise!Schedule,
           Promise!Mark, Promise!Ends, Promise!Finish, Promise!Fail, Promise!Lose,
           Promise!Retry, Promise!Forget, Promise!Drop
<1> QED
    BY <1>1, PTL DEF Promise!Spec, Promise!OwedIsSettled, Owed

=============================================================================
