------------------------ MODULE WalkLifecycleProofs ------------------------
(***************************************************************************)
(* Theorems about WalkLifecycle, for any devices, number of realtime       *)
(* threads and workers, and bounds.                                        *)
(***************************************************************************)
EXTENDS WalkLifecycle, TLAPS

(* A thread works on a device, and a busy worker on a task. *)
ThreadShape == \A t \in Threads : thread[t].pc \notin {"off", "next"} =>
                                      thread[t].dev \in Devices
WorkerShape == \A w \in Workers : IF proc[w].pc = "idle" THEN proc[w].task = None
                                                         ELSE proc[w].task \in Tasks

TypeInv == TypeOK /\ ThreadShape /\ WorkerShape

(* A first walk of d is on its way, done, recorded as failed, or lost. *)
Covered(d) == Outstanding(d) \/ d \in done \cup unwalkedHosts \cup lost

(* Only a thread that has scheduled a walk sets the flag. *)
MarkInv == \A t \in Threads : thread[t].pc = "mark" => thread[t].walk

(* The flag, and a thread that is about to set it, come after the walk. *)
FlagInv == \A d \in Devices : HasFlag(d) \/ Marking(d) # {} => Covered(d)

-----------------------------------------------------------------------------
LEMMA TaskType ==
    ASSUME NEW d \in Devices, NEW f \in Flags
    PROVE  Task(d, f) \in Tasks /\ Task(d, f).dev = d /\ Task(d, f).flag = f
    BY DEF Task, Tasks

LEMMA BagType ==
    ASSUME NEW b \in [Tasks -> Nat], NEW k \in Tasks
    PROVE  /\ Add(b, k) \in [Tasks -> Nat]
           /\ b[k] > 0 => Remove(b, k) \in [Tasks -> Nat]
    BY DEF Add, Remove

LEMMA LocalsType ==
    /\ NoData \in Realtime /\ None \notin Devices
    /\ Off \in ThreadStates /\ Off.pc = "off" /\ Off.dev = None
    /\ Idle \in WorkerStates /\ Idle.pc = "idle" /\ Idle.task = None
    /\ \A todo \in SUBSET Devices :
           /\ Between(todo) \in ThreadStates
           /\ Between(todo).pc = "next" /\ Between(todo).dev = None
<1>1. NoData \in Realtime /\ 0 \in Uptimes
    BY UptimeAssumption DEF NoData, Realtime, Uptimes
<1>2. None \notin Devices
    BY NoneAssumption
<1>3. ASSUME NEW todo \in SUBSET Devices
      PROVE  /\ Between(todo) \in ThreadStates
             /\ Between(todo).pc = "next" /\ Between(todo).dev = None
    BY <1>1 DEF Between, ThreadStates, ThreadPcs
<1>4. Off \in ThreadStates /\ Off.pc = "off" /\ Off.dev = None
    BY <1>1 DEF Off, Between, ThreadStates, ThreadPcs
<1>5. Idle \in WorkerStates /\ Idle.pc = "idle" /\ Idle.task = None
    BY <1>1 DEF Idle, WorkerStates, WorkerPcs
<1> QED
    BY <1>1, <1>2, <1>3, <1>4, <1>5

LEMMA StoredType ==
    ASSUME TypeOK, NEW d \in Devices
    PROVE  real_time_data_for(d) \in Realtime
<1>1. walkedHosts[d] \in Documents \cup {None}
    BY DEF TypeOK
<1> QED
    BY <1>1, LocalsType DEF real_time_data_for, Documents

(* What one step can store with update_real_time_data_for. *)
LEMMA UpdateType ==
    ASSUME TypeOK, NEW d \in Devices, NEW data \in Realtime, NEW s \in Nat,
           update_real_time_data_for(d, data, s)
    PROVE  /\ walkedHosts' \in [Devices -> Documents \cup {None}]
           /\ stamp' \in [Devices -> Nat]
           /\ \A e \in Devices : HasFlag(e)' => HasFlag(e)
<1>1. CASE walkedHosts[d] = None
    BY <1>1 DEF update_real_time_data_for, TypeOK, HasFlag
<1>2. CASE walkedHosts[d] # None
    <2>1. walkedHosts[d] \in Documents
        BY <1>2 DEF TypeOK
    <2>2. /\ walkedHosts' = [walkedHosts EXCEPT ![d].data = data]
          /\ stamp' = [stamp EXCEPT ![d] = s]
        BY <1>2 DEF update_real_time_data_for
    <2>3. [walkedHosts[d] EXCEPT !.data = data] \in Documents
        BY <2>1 DEF Documents
    <2>4. walkedHosts'[d].walked = walkedHosts[d].walked
        BY <2>1, <2>2 DEF Documents, TypeOK
    <2>5. \A e \in Devices : e # d => walkedHosts'[e] = walkedHosts[e]
        BY <2>2 DEF TypeOK
    <2>6. walkedHosts' \in [Devices -> Documents \cup {None}]
        BY <2>2, <2>3 DEF TypeOK
    <2>7. \A e \in Devices : HasFlag(e)' => HasFlag(e)
        BY <1>2, <2>4, <2>5 DEF HasFlag
    <2> QED
        BY <2>2, <2>6, <2>7 DEF TypeOK
<1> QED
    BY <1>1, <1>2

(* A new state of one thread, or of one worker. *)
LEMMA ThreadUpdate ==
    ASSUME TypeOK, ThreadShape, NEW t \in Threads, NEW l \in ThreadStates,
           thread' = [thread EXCEPT ![t] = l],
           l.pc \notin {"off", "next"} => l.dev \in Devices
    PROVE  thread' \in [Threads -> ThreadStates] /\ ThreadShape'
<1>1. thread' \in [Threads -> ThreadStates]
    BY DEF TypeOK
<1>2. thread'[t] = l /\ \A u \in Threads : u # t => thread'[u] = thread[u]
    BY DEF TypeOK
<1> QED
    BY <1>1, <1>2 DEF ThreadShape

LEMMA ProcUpdate ==
    ASSUME TypeOK, WorkerShape, NEW w \in Workers, NEW l \in WorkerStates,
           proc' = [proc EXCEPT ![w] = l],
           IF l.pc = "idle" THEN l.task = None ELSE l.task \in Tasks
    PROVE  proc' \in [Workers -> WorkerStates] /\ WorkerShape'
<1>1. proc' \in [Workers -> WorkerStates]
    BY DEF TypeOK
<1>2. proc'[w] = l /\ \A u \in Workers : u # w => proc'[u] = proc[u]
    BY DEF TypeOK
<1> QED
    BY <1>1, <1>2 DEF WorkerShape

-----------------------------------------------------------------------------
LEMMA TypeInit == Init => TypeInv
<1> SUFFICES ASSUME Init PROVE TypeInv
    OBVIOUS
<1>1. 0 \in Uptimes
    BY UptimeAssumption DEF Uptimes
<1>2. /\ uptime \in [Devices -> Uptimes] /\ resets \in [Devices -> Nat]
      /\ stamp \in [Devices -> Nat]
    BY <1>1 DEF Init
<1>3. walkedHosts \in [Devices -> Documents \cup {None}]
    BY DEF Init
<1>4. onetime \in [Tasks -> Nat] /\ queue \in [Tasks -> Nat]
    BY DEF Init, NoTasks
<1>5. thread \in [Threads -> ThreadStates] /\ proc \in [Workers -> WorkerStates]
    BY LocalsType DEF Init
<1>6. ThreadShape /\ WorkerShape
    BY LocalsType DEF Init, ThreadShape, WorkerShape
<1> QED
    BY <1>2, <1>3, <1>4, <1>5, <1>6 DEF Init, TypeInv, TypeOK

(* A step of a realtime thread. *)
LEMMA TypeRealtime ==
    ASSUME TypeInv, NEW t \in Threads, RealtimeTask(t) \/ RealtimeFails(t)
    PROVE  TypeInv'
<1> USE DEF TypeInv, inventory, device, mongo, history, counters
<1> DEFINE l == thread[t]
<1>0. l \in ThreadStates /\ (l.pc \notin {"off", "next"} => l.dev \in Devices)
    BY DEF TypeOK, ThreadShape
<1>1. CASE StartRealtime(t)
    <2>1. Between(listed) \in ThreadStates /\ Between(listed).pc = "next"
        BY LocalsType DEF TypeOK
    <2>2. thread' \in [Threads -> ThreadStates] /\ ThreadShape'
        BY <1>1, <2>1, ThreadUpdate DEF StartRealtime
    <2> QED
        BY <1>1, <2>2 DEF StartRealtime, TypeOK, WorkerShape
<1>2. CASE NextLine(t)
    <2> PICK d \in l.todo :
            thread' = [thread EXCEPT ![t].pc = "uptime", ![t].dev = d,
                                     ![t].todo = @ \ {d}]
        BY <1>2 DEF NextLine
    <2> DEFINE new == [l EXCEPT !.pc = "uptime", !.dev = d, !.todo = @ \ {d}]
    <2>1. d \in Devices
        BY <1>0 DEF ThreadStates
    <2>2. new \in ThreadStates /\ new.dev = d
        BY <1>0, <2>1 DEF ThreadStates, ThreadPcs
    <2>3. thread' = [thread EXCEPT ![t] = new]
        BY DEF TypeOK
    <2>4. thread' \in [Threads -> ThreadStates] /\ ThreadShape'
        BY <2>1, <2>2, <2>3, ThreadUpdate
    <2> QED
        BY <1>2, <2>4 DEF NextLine, TypeOK, WorkerShape
<1>3. CASE EndRealtime(t)
    <2>1. thread' \in [Threads -> ThreadStates] /\ ThreadShape'
        BY <1>3, LocalsType, ThreadUpdate DEF EndRealtime
    <2> QED
        BY <1>3, <2>1 DEF EndRealtime, TypeOK, WorkerShape
<1>4. CASE ReadUptime(t)
    <2> DEFINE new == [l EXCEPT !.pc = "walked",
                                !.val = IF l.dev \in up THEN uptime[l.dev] ELSE 0,
                                !.stamp = resets[l.dev]]
    <2>1. l.dev \in Devices
        BY <1>0, <1>4 DEF ReadUptime, At
    <2>2. /\ (IF l.dev \in up THEN uptime[l.dev] ELSE 0) \in Uptimes
          /\ resets[l.dev] \in Nat
        BY <2>1, UptimeAssumption DEF TypeOK, Uptimes
    <2>3. new \in ThreadStates /\ new.dev = l.dev
        BY <1>0, <2>2 DEF ThreadStates, ThreadPcs
    <2>4. thread' = [thread EXCEPT ![t] = new]
        BY <1>4 DEF ReadUptime
    <2>5. thread' \in [Threads -> ThreadStates] /\ ThreadShape'
        BY <2>1, <2>3, <2>4, ThreadUpdate
    <2> QED
        BY <1>4, <2>5 DEF ReadUptime, TypeOK, WorkerShape
<1>5. CASE ReadFlag(t)
    <2> DEFINE already == HasFlag(l.dev)
               new == [l EXCEPT !.pc = IF already THEN "compare" ELSE "schedule",
                                !.walked = already, !.walk = ~already]
    <2>1. l.dev \in Devices
        BY <1>0, <1>5 DEF ReadFlag, At
    <2>2. already \in BOOLEAN
        BY <2>1 DEF HasFlag, TypeOK, Documents
    <2>3. new \in ThreadStates /\ new.dev = l.dev
        BY <1>0, <2>2 DEF ThreadStates, ThreadPcs
    <2>4. thread' = [thread EXCEPT ![t] = new]
        BY <1>5 DEF ReadFlag
    <2>5. thread' \in [Threads -> ThreadStates] /\ ThreadShape'
        BY <2>1, <2>3, <2>4, ThreadUpdate
    <2> QED
        BY <1>5, <2>5 DEF ReadFlag, TypeOK, WorkerShape
<1>6. CASE Compare(t)
    <2> DEFINE stored == real_time_data_for(l.dev).uptime
               redo == stored # None /\ stored > l.val
               new == [l EXCEPT !.pc = IF redo THEN "schedule" ELSE "prev",
                                !.walk = redo]
    <2>1. l.dev \in Devices
        BY <1>0, <1>6 DEF Compare, At
    <2>2. redo \in BOOLEAN
        OBVIOUS
    <2>3. new \in ThreadStates /\ new.dev = l.dev
        BY <1>0, <2>2 DEF ThreadStates, ThreadPcs
    <2>4. thread' = [thread EXCEPT ![t] = new]
        BY <1>6 DEF Compare
    <2>5. thread' \in [Threads -> ThreadStates] /\ ThreadShape'
        BY <2>1, <2>3, <2>4, ThreadUpdate
    <2> QED
        BY <1>6, <2>5 DEF Compare, TypeOK, WorkerShape
<1>7. CASE ScheduleWalk(t)
    <2> DEFINE new == [l EXCEPT !.pc = IF l.walked THEN "prev" ELSE "add"]
    <2>1. l.dev \in Devices
        BY <1>0, <1>7 DEF ScheduleWalk, At
    <2>2. onetime' \in [Tasks -> Nat]
        BY <1>7, <2>1, TaskType, BagType DEF ScheduleWalk, TypeOK, Flags
    <2>3. new \in ThreadStates /\ new.dev = l.dev
        BY <1>0 DEF ThreadStates, ThreadPcs
    <2>4. thread' = [thread EXCEPT ![t] = new]
        BY <1>7 DEF ScheduleWalk
    <2>5. thread' \in [Threads -> ThreadStates] /\ ThreadShape'
        BY <2>1, <2>3, <2>4, ThreadUpdate
    <2> QED
        BY <1>7, <2>2, <2>5 DEF ScheduleWalk, TypeOK, WorkerShape
<1>8. CASE AddHost(t)
    <2> DEFINE new == [l EXCEPT !.pc = "prev"]
    <2>1. l.dev \in Devices
        BY <1>0, <1>8 DEF AddHost, At
    <2>2. walkedHosts' \in [Devices -> Documents \cup {None}]
        <3>1. [walked |-> FALSE, data |-> NoData] \in Documents
            BY LocalsType DEF Documents
        <3> QED
            BY <1>8, <3>1 DEF AddHost, TypeOK
    <2>3. new \in ThreadStates /\ new.dev = l.dev
        BY <1>0 DEF ThreadStates, ThreadPcs
    <2>4. thread' = [thread EXCEPT ![t] = new]
        BY <1>8 DEF AddHost
    <2>5. thread' \in [Threads -> ThreadStates] /\ ThreadShape'
        BY <2>1, <2>3, <2>4, ThreadUpdate
    <2> QED
        BY <1>8, <2>2, <2>5 DEF AddHost, TypeOK, WorkerShape
<1>9. CASE ReadPrevious(t)
    <2> DEFINE new == [l EXCEPT !.pc = "write", !.prev = real_time_data_for(l.dev)]
    <2>1. l.dev \in Devices
        BY <1>0, <1>9 DEF ReadPrevious, At
    <2>2. new \in ThreadStates /\ new.dev = l.dev
        BY <1>0, <2>1, StoredType DEF ThreadStates, ThreadPcs
    <2>3. thread' = [thread EXCEPT ![t] = new]
        BY <1>9 DEF ReadPrevious
    <2>4. thread' \in [Threads -> ThreadStates] /\ ThreadShape'
        BY <2>1, <2>2, <2>3, ThreadUpdate
    <2> QED
        BY <1>9, <2>4 DEF ReadPrevious, TypeOK, WorkerShape
<1>10. CASE WriteUptime(t)
    <2> DEFINE mark == [Between(l.todo) EXCEPT !.pc = "mark", !.dev = l.dev, !.walk = TRUE]
               new == IF l.walk THEN mark ELSE Between(l.todo)
    <2>1. l.dev \in Devices
        BY <1>0, <1>10 DEF WriteUptime, At
    <2>2. l.prev \in Realtime /\ l.val \in Uptimes /\ l.stamp \in Nat
          /\ l.todo \in SUBSET Devices
        BY <1>0 DEF ThreadStates
    <2>3. [l.prev EXCEPT !.uptime = l.val] \in Realtime
        BY <2>2 DEF Realtime
    <2>4. walkedHosts' \in [Devices -> Documents \cup {None}]
          /\ stamp' \in [Devices -> Nat]
        BY <1>10, <2>1, <2>2, <2>3, UpdateType DEF WriteUptime
    <2>5. /\ new \in ThreadStates
          /\ new.pc \notin {"off", "next"} => new.dev \in Devices
        <3>1. mark \in ThreadStates /\ mark.dev = l.dev
            BY <2>1, <2>2, LocalsType DEF ThreadStates, ThreadPcs
        <3> QED
            BY <2>1, <2>2, <3>1, LocalsType
    <2>6. thread' = [thread EXCEPT ![t] = new]
        BY <1>10 DEF WriteUptime
    <2>7. thread' \in [Threads -> ThreadStates] /\ ThreadShape'
        BY <2>5, <2>6, ThreadUpdate
    <2> QED
        BY <1>10, <2>4, <2>7 DEF WriteUptime, TypeOK, WorkerShape
<1>11. CASE MarkWalked(t)
    <2>1. l.dev \in Devices /\ l.todo \in SUBSET Devices
        BY <1>0, <1>11 DEF MarkWalked, At, ThreadStates
    <2>2. [walked |-> TRUE, data |-> real_time_data_for(l.dev)] \in Documents
        BY <2>1, StoredType DEF Documents
    <2>3. walkedHosts' \in [Devices -> Documents \cup {None}]
        BY <1>11, <2>2 DEF MarkWalked, update_walked_host, TypeOK
    <2>4. Between(l.todo) \in ThreadStates /\ Between(l.todo).pc = "next"
        BY <2>1, LocalsType
    <2>5. thread' \in [Threads -> ThreadStates] /\ ThreadShape'
        BY <1>11, <2>4, ThreadUpdate DEF MarkWalked
    <2> QED
        BY <1>11, <2>3, <2>5 DEF MarkWalked, TypeOK, WorkerShape
<1>12. CASE RealtimeFails(t)
    <2>1. thread' \in [Threads -> ThreadStates] /\ ThreadShape'
        BY <1>12, LocalsType, ThreadUpdate DEF RealtimeFails
    <2> QED
        BY <1>12, <2>1 DEF RealtimeFails, TypeOK, WorkerShape
<1> QED
    BY <1>1, <1>2, <1>3, <1>4, <1>5, <1>6, <1>7, <1>8, <1>9, <1>10, <1>11, <1>12
       DEF RealtimeTask

(* A step of a worker. *)
LEMMA TypeWorker ==
    ASSUME TypeInv, NEW w \in Workers, Worker(w) \/ WalkAborted(w)
    PROVE  TypeInv'
<1> USE DEF TypeInv, inventory, device, mongo, history, counters
<1> DEFINE l == proc[w]
<1>0. /\ l \in WorkerStates
      /\ l.pc # "idle" => l.task \in Tasks /\ l.task.dev \in Devices
    BY DEF TypeOK, WorkerShape, Tasks
<1>1. CASE TakeTask(w)
    <2> PICK k \in Tasks : /\ queue[k] > 0
                           /\ queue' = Remove(queue, k)
                           /\ proc' = [proc EXCEPT ![w].pc = "walk", ![w].task = k]
        BY <1>1 DEF TakeTask
    <2> DEFINE new == [l EXCEPT !.pc = "walk", !.task = k]
    <2>1. queue' \in [Tasks -> Nat]
        BY BagType DEF TypeOK
    <2>2. new \in WorkerStates /\ new.pc = "walk" /\ new.task = k
        BY <1>0 DEF WorkerStates, WorkerPcs
    <2>3. proc' = [proc EXCEPT ![w] = new]
        BY DEF TypeOK
    <2>4. proc' \in [Workers -> WorkerStates] /\ WorkerShape'
        BY <2>2, <2>3, ProcUpdate
    <2> QED
        BY <1>1, <2>1, <2>4 DEF TakeTask, TypeOK, ThreadShape
<1>2. CASE ReadForDescr(w)
    <2> DEFINE d == l.task.dev
               new == [l EXCEPT !.pc = "describe", !.prev = real_time_data_for(d),
                                !.stamp = stamp[d]]
    <2>1. d \in Devices /\ l.task \in Tasks
        BY <1>0, <1>2 DEF ReadForDescr
    <2>2. real_time_data_for(d) \in Realtime /\ stamp[d] \in Nat
        BY <2>1, StoredType DEF TypeOK
    <2>3. new \in WorkerStates /\ new.pc = "describe" /\ new.task = l.task
        BY <1>0, <2>2 DEF WorkerStates, WorkerPcs
    <2>4. proc' = [proc EXCEPT ![w] = new]
        BY <1>2 DEF ReadForDescr
    <2>5. proc' \in [Workers -> WorkerStates] /\ WorkerShape'
        BY <2>1, <2>3, <2>4, ProcUpdate
    <2> QED
        BY <1>2, <2>5 DEF ReadForDescr, TypeOK, ThreadShape
<1>3. CASE WriteDescr(w)
    <2> DEFINE new == [l EXCEPT !.pc = "end", !.prev = NoData, !.stamp = 0]
    <2>1. l.task.dev \in Devices /\ l.task \in Tasks
        BY <1>0, <1>3 DEF WriteDescr
    <2>2. [l.prev EXCEPT !.descr = TRUE] \in Realtime /\ l.stamp \in Nat
        BY <1>0 DEF WorkerStates, Realtime
    <2>3. walkedHosts' \in [Devices -> Documents \cup {None}]
          /\ stamp' \in [Devices -> Nat]
        BY <1>3, <2>1, <2>2, UpdateType DEF WriteDescr
    <2>4. new \in WorkerStates /\ new.pc = "end" /\ new.task = l.task
        BY <1>0, LocalsType DEF WorkerStates, WorkerPcs
    <2>5. proc' = [proc EXCEPT ![w] = new]
        BY <1>3 DEF WriteDescr
    <2>6. proc' \in [Workers -> WorkerStates] /\ WorkerShape'
        BY <2>1, <2>4, <2>5, ProcUpdate
    <2> QED
        BY <1>3, <2>3, <2>6 DEF WriteDescr, TypeOK, ThreadShape
<1>4. CASE WalkError(w)
    <2>1. l.task.dev \in Devices
        BY <1>0, <1>4 DEF WalkError
    <2>2. proc' \in [Workers -> WorkerStates] /\ WorkerShape'
        BY <1>4, LocalsType, ProcUpdate DEF WalkError
    <2> QED
        BY <1>4, <2>1, <2>2 DEF WalkError, TypeOK, ThreadShape
<1>5. CASE WalkComplete(w)
    <2>1. l.task.dev \in Devices
        BY <1>0, <1>5 DEF WalkComplete
    <2>2. proc' \in [Workers -> WorkerStates] /\ WorkerShape'
        BY <1>5, LocalsType, ProcUpdate DEF WalkComplete
    <2> QED
        BY <1>5, <2>1, <2>2 DEF WalkComplete, TypeOK, ThreadShape
<1>6. CASE WalkAborted(w)
    <2>1. l.task.dev \in Devices
        BY <1>0, <1>6 DEF WalkAborted
    <2>2. proc' \in [Workers -> WorkerStates] /\ WorkerShape'
        BY <1>6, LocalsType, ProcUpdate DEF WalkAborted
    <2> QED
        BY <1>6, <2>1, <2>2 DEF WalkAborted, TypeOK, ThreadShape
<1> QED
    BY <1>1, <1>2, <1>3, <1>4, <1>5, <1>6 DEF Worker

(* The main thread, the one-time thread, the devices and the faults. *)
LEMMA TypeOthers ==
    ASSUME TypeInv, \/ Scheduler \/ Tick \/ Restart \/ Outage \/ Recover \/ Edit
                    \/ Crash
    PROVE  TypeInv'
<1> USE DEF TypeInv, inventory, device, mongo, history, counters
<1>1. CASE onetime_task
    <2>1. onetime' \in [Tasks -> Nat] /\ queue' \in [Tasks -> Nat]
        BY <1>1, BagType DEF onetime_task, TypeOK
    <2> QED
        BY <1>1, <2>1 DEF onetime_task, TypeOK, ThreadShape, WorkerShape
<1>2. CASE ReadUnwalked
    BY <1>2 DEF ReadUnwalked, TypeOK, ThreadShape, WorkerShape
<1>3. CASE ScheduleRetry
    <2>1. onetime' \in [Tasks -> Nat]
        BY <1>3, TaskType, BagType DEF ScheduleRetry, TypeOK, Flags
    <2> QED
        BY <1>3, <2>1 DEF ScheduleRetry, TypeOK, ThreadShape, WorkerShape
<1>4. CASE Clean
    <2>1. CASE DeleteHost
        BY <2>1 DEF DeleteHost, TypeOK, ThreadShape, WorkerShape
    <2>2. CASE DeleteUnwalked
        BY <2>2 DEF DeleteUnwalked, TypeOK, ThreadShape, WorkerShape
    <2> QED
        BY <1>4, <2>1, <2>2 DEF Clean
<1>5. CASE Tick
    <2>1. uptime' \in [Devices -> Uptimes] /\ resets' \in [Devices -> Nat]
        <3> PICK d \in Devices :
              /\ uptime' = [uptime EXCEPT ![d] = (@ + 1) % (MaxUptime + 1)]
              /\ resets' = IF uptime[d] = MaxUptime THEN [resets EXCEPT ![d] = @ + 1]
                                                    ELSE resets
            BY <1>5 DEF Tick
        <3>1. (uptime[d] + 1) % (MaxUptime + 1) \in Uptimes
            BY UptimeAssumption DEF TypeOK, Uptimes
        <3> QED
            BY <3>1 DEF TypeOK
    <2> QED
        BY <1>5, <2>1 DEF Tick, TypeOK, ThreadShape, WorkerShape
<1>6. CASE Restart
    <2>1. uptime' \in [Devices -> Uptimes] /\ resets' \in [Devices -> Nat]
        <3>1. 0 \in Uptimes
            BY UptimeAssumption DEF Uptimes
        <3> QED
            BY <1>6, <3>1 DEF Restart, TypeOK
    <2> QED
        BY <1>6, <2>1 DEF Restart, TypeOK, ThreadShape, WorkerShape
<1>7. CASE Outage
    BY <1>7 DEF Outage, TypeOK, ThreadShape, WorkerShape
<1>8. CASE Recover
    BY <1>8 DEF Recover, TypeOK, ThreadShape, WorkerShape
<1>9. CASE Edit
    BY <1>9 DEF Edit, TypeOK, ThreadShape, WorkerShape
<1>10. CASE Crash
    <2>1. thread' \in [Threads -> ThreadStates] /\ ThreadShape'
        BY <1>10, LocalsType DEF Crash, ThreadShape
    <2>2. onetime' \in [Tasks -> Nat]
        BY <1>10 DEF Crash, NoTasks
    <2> QED
        BY <1>10, <2>1, <2>2 DEF Crash, TypeOK, WorkerShape
<1> QED
    BY <1>1, <1>2, <1>3, <1>4, <1>5, <1>6, <1>7, <1>8, <1>9, <1>10 DEF Scheduler

LEMMA TypeNext == TypeInv /\ [Next]_vars => TypeInv'
<1> SUFFICES ASSUME TypeInv, [Next]_vars PROVE TypeInv'
    OBVIOUS
<1>1. CASE UNCHANGED vars
    BY <1>1 DEF vars, inventory, device, mongo, history, counters, TypeInv, TypeOK,
                ThreadShape, WorkerShape
<1> QED
    BY <1>1, TypeRealtime, TypeWorker, TypeOthers DEF Next

(* Every behaviour stays within the types. *)
THEOREM TypeCorrect == Spec => []TypeOK
<1>1. TypeInv => TypeOK
    BY DEF TypeInv
<1> QED
    BY TypeInit, TypeNext, <1>1, PTL DEF Spec

-----------------------------------------------------------------------------
(* WalkNotForgotten.  Two facts about each step: a first walk that is covered
   stays covered, and the flag, or a thread that will set it, does not come
   without one. *)

LEMMA FirstWalkType == \A d \in Devices : FirstWalk(d) \in Tasks
    BY TaskType DEF FirstWalk, Flags

(* A step of a realtime thread does not touch what covers a walk. *)
LEMMA CoveredRealtime ==
    ASSUME TypeInv, NEW d \in Devices, Covered(d),
           NEW t \in Threads, RealtimeTask(t) \/ RealtimeFails(t)
    PROVE  Covered(d)'
<1> USE DEF mongo, history, inventory, device, counters
<1>1. CASE ScheduleWalk(t)
    <2> DEFINE k == Task(thread[t].dev, "first_time")
    <2>1. k \in Tasks
        BY <1>1, TaskType DEF ScheduleWalk, At, TypeInv, ThreadShape, Flags
    <2>2. onetime'[FirstWalk(d)] >= onetime[FirstWalk(d)]
        BY <1>1, <2>1, FirstWalkType DEF ScheduleWalk, Add, TypeInv, TypeOK
    <2>3. onetime'[FirstWalk(d)] \in Nat /\ onetime[FirstWalk(d)] \in Nat
        BY <1>1, <2>1, FirstWalkType, BagType DEF ScheduleWalk, TypeInv, TypeOK
    <2> QED
        BY <1>1, <2>2, <2>3 DEF ScheduleWalk, Covered, Outstanding, FirstWalk, Task
<1>2. CASE ~ScheduleWalk(t)
    <2>1. UNCHANGED <<onetime, queue, proc, done, lost, unwalkedHosts>>
        BY <1>2 DEF RealtimeTask, RealtimeFails, StartRealtime, NextLine, EndRealtime,
                    ReadUptime, ReadFlag, Compare, AddHost, ReadPrevious, WriteUptime,
                    MarkWalked
    <2> QED
        BY <2>1 DEF Covered, Outstanding, FirstWalk, Task
<1> QED
    BY <1>1, <1>2

(* A worker takes the walk from the queue, or ends it with an outcome. *)
LEMMA CoveredWorker ==
    ASSUME TypeInv, NEW d \in Devices, Covered(d),
           NEW w \in Workers, Worker(w) \/ WalkAborted(w)
    PROVE  Covered(d)'
<1> USE DEF mongo, history, inventory, device, counters
<1> DEFINE k == FirstWalk(d)
<1>0. /\ k \in Tasks /\ k.dev = d /\ k.flag = "first_time"
      /\ k' = k /\ None \notin Tasks
    BY TaskType, FirstWalkType, NoneAssumption DEF FirstWalk, Flags, Task
<1>t. /\ onetime \in [Tasks -> Nat] /\ queue \in [Tasks -> Nat]
      /\ proc \in [Workers -> WorkerStates]
    BY DEF TypeInv, TypeOK
<1>1. CASE TakeTask(w)
    <2> PICK j \in Tasks : /\ queue[j] > 0
                           /\ queue' = Remove(queue, j)
                           /\ proc' = [proc EXCEPT ![w].pc = "walk", ![w].task = j]
        BY <1>1 DEF TakeTask
    <2>1. proc'[w].task = j /\ \A u \in Workers : u # w => proc'[u] = proc[u]
        BY <1>t DEF WorkerStates
    <2>2. proc[w].task = None
        BY <1>1 DEF TakeTask, TypeInv, WorkerShape
    <2>3. CASE j = k
        BY <2>1, <2>3, <1>0 DEF Covered, Outstanding
    <2>4. CASE j # k
        <3>1. queue'[k] = queue[k]
            BY <2>4, <1>0, <1>t DEF Remove
        <3>2. \A u \in Workers : proc[u].task = k => proc'[u].task = k
            BY <2>1, <2>2, <1>0
        <3> QED
            BY <1>0, <1>1, <3>1, <3>2 DEF TakeTask, Covered, Outstanding
    <2> QED
        BY <2>3, <2>4
<1>2. CASE ReadForDescr(w) \/ WriteDescr(w)
    <2>1. \A u \in Workers : proc'[u].task = proc[u].task
        <3>1. proc[w] \in WorkerStates
            BY <1>t
        <3>2. proc'[w].task = proc[w].task
            <4>1. CASE ReadForDescr(w)
                BY <4>1, <1>t, <3>1 DEF ReadForDescr, WorkerStates
            <4>2. CASE WriteDescr(w)
                BY <4>2, <1>t, <3>1 DEF WriteDescr, WorkerStates
            <4> QED
                BY <1>2, <4>1, <4>2
        <3>3. \A u \in Workers : u # w => proc'[u] = proc[u]
            BY <1>2, <1>t DEF ReadForDescr, WriteDescr
        <3> QED
            BY <3>2, <3>3
    <2>2. UNCHANGED <<onetime, queue, done, lost, unwalkedHosts>>
        BY <1>2 DEF ReadForDescr, WriteDescr
    <2> QED
        BY <1>0, <2>1, <2>2 DEF Covered, Outstanding
<1>3. CASE WalkError(w) \/ WalkComplete(w) \/ WalkAborted(w)
    <2>1. /\ \A u \in Workers : u # w => proc'[u] = proc[u]
          /\ UNCHANGED <<onetime, queue>>
        BY <1>3, <1>t DEF WalkError, WalkComplete, WalkAborted
    <2>2. done \cup unwalkedHosts \cup lost \subseteq done' \cup unwalkedHosts' \cup lost'
        BY <1>3 DEF WalkError, WalkComplete, WalkAborted
    <2>3. CASE proc[w].task = k
        <3>1. d \in done' \cup unwalkedHosts' \cup lost'
            BY <1>0, <1>3, <2>3 DEF WalkError, WalkComplete, WalkAborted
        <3> QED
            BY <3>1 DEF Covered
    <2>4. CASE proc[w].task # k
        BY <1>0, <2>1, <2>2, <2>4 DEF Covered, Outstanding
    <2> QED
        BY <2>3, <2>4
<1> QED
    BY <1>1, <1>2, <1>3 DEF Worker

(* The other steps; Clean may uncover a walk, and Crash loses what waits in
   schedule.jobs but remembers it in lost. *)
LEMMA CoveredOthers ==
    ASSUME TypeInv, NEW d \in Devices, Covered(d),
           \/ onetime_task \/ ReadUnwalked \/ ScheduleRetry
           \/ Tick \/ Restart \/ Outage \/ Recover \/ Edit \/ Crash
    PROVE  Covered(d)'
<1> USE DEF mongo, history, inventory, device, counters
<1> DEFINE k == FirstWalk(d)
<1>0. k \in Tasks /\ k = Task(d, "first_time") /\ k' = k
    BY FirstWalkType DEF FirstWalk, Task
<1>t. onetime \in [Tasks -> Nat] /\ queue \in [Tasks -> Nat]
    BY DEF TypeInv, TypeOK
<1>1. CASE onetime_task
    <2> PICK j \in Tasks : /\ onetime[j] > 0
                           /\ onetime' = Remove(onetime, j)
                           /\ queue' = Add(queue, j)
        BY <1>1 DEF onetime_task
    <2>1. CASE j = k
        <3>1. queue'[k] > 0
            BY <1>0, <1>t, <2>1 DEF Add
        <3> QED
            BY <1>0, <3>1 DEF Covered, Outstanding
    <2>2. CASE j # k
        <3>1. onetime'[k] = onetime[k] /\ queue'[k] = queue[k]
            BY <1>0, <1>t, <2>2 DEF Add, Remove
        <3> QED
            BY <1>0, <1>1, <3>1 DEF onetime_task, Covered, Outstanding
    <2> QED
        BY <2>1, <2>2
<1>2. CASE ScheduleRetry
    <2> PICK e \in retries : onetime' = Add(onetime, Task(e, "after_fail"))
        BY <1>2 DEF ScheduleRetry
    <2>1. e \in Devices /\ Task(e, "after_fail") \in Tasks
        BY TaskType DEF TypeInv, TypeOK, Flags
    <2>2. onetime[k] > 0 => onetime'[k] > 0
        BY <1>0, <1>t, <2>1 DEF Add
    <2> QED
        BY <1>0, <1>2, <2>2 DEF ScheduleRetry, Covered, Outstanding
<1>3. CASE Crash
    <2>1. CASE onetime[k] > 0
        BY <1>0, <1>3, <2>1 DEF Crash, Covered
    <2>2. CASE ~(onetime[k] > 0)
        BY <1>0, <1>3, <2>2 DEF Crash, Covered, Outstanding
    <2> QED
        BY <2>1, <2>2
<1>4. CASE ReadUnwalked \/ Tick \/ Restart \/ Outage \/ Recover \/ Edit
    <2>1. UNCHANGED <<onetime, queue, proc, done, lost, unwalkedHosts>>
        BY <1>4 DEF ReadUnwalked, Tick, Restart, Outage, Recover, Edit
    <2> QED
        BY <1>0, <2>1 DEF Covered, Outstanding
<1> QED
    BY <1>1, <1>2, <1>3, <1>4

(* The flag appears, or a thread gets ready to set it, only where one of the two
   was there already, or the thread schedules the walk. *)
LEMMA FlagRealtime ==
    ASSUME TypeInv, MarkInv, FlagInv, NEW t \in Threads, RealtimeTask(t) \/ RealtimeFails(t)
    PROVE  FlagInv'
<1> USE DEF mongo, history, inventory, device, counters
<1> SUFFICES ASSUME NEW d \in Devices, HasFlag(d)' \/ Marking(d)' # {}
             PROVE  Covered(d)'
    BY DEF FlagInv
<1>t. /\ thread \in [Threads -> ThreadStates] /\ thread[t] \in ThreadStates
      /\ walkedHosts \in [Devices -> Documents \cup {None}]
    BY DEF TypeInv, TypeOK
<1>o. \A u \in Threads : u # t => thread'[u] = thread[u]
    BY <1>t DEF RealtimeTask, RealtimeFails, StartRealtime, NextLine, EndRealtime,
                ReadUptime, ReadFlag, Compare, ScheduleWalk, AddHost, ReadPrevious,
                WriteUptime, MarkWalked
<1>1. CASE HasFlag(d) \/ Marking(d) # {}
    BY <1>1, CoveredRealtime DEF FlagInv
<1>2. CASE ScheduleWalk(t) /\ thread[t].dev = d
    <2> DEFINE k == FirstWalk(d)
    <2>1. onetime'[k] = onetime[k] + 1 /\ onetime[k] \in Nat
        BY <1>2, FirstWalkType DEF ScheduleWalk, Add, FirstWalk, TypeInv, TypeOK
    <2> QED
        BY <2>1 DEF Covered, Outstanding, FirstWalk, Task
<1>3. CASE HasFlag(d)' /\ ~HasFlag(d)
    <2>1. CASE MarkWalked(t)
        <3>1. walkedHosts'[d] = walkedHosts[d] \/ thread[t].dev = d
            BY <1>t, <2>1 DEF MarkWalked, update_walked_host
        <3>2. thread[t].dev = d
            BY <1>3, <3>1 DEF HasFlag
        <3>3. t \in Marking(d) \/ ~thread[t].walk
            BY <2>1, <3>2 DEF MarkWalked, At, Marking
        <3>4. thread[t].walk
            BY <2>1 DEF MarkInv, MarkWalked, At
        <3> QED
            BY <1>1, <3>3, <3>4
    <2>2. CASE WriteUptime(t)
        <3> DEFINE l == thread[t]
        <3>1. /\ l.dev \in Devices /\ l.stamp \in Nat
              /\ [l.prev EXCEPT !.uptime = l.val] \in Realtime
            BY <1>t, <2>2 DEF WriteUptime, At, TypeInv, ThreadShape, ThreadStates, Realtime
        <3>2. \A e \in Devices : HasFlag(e)' => HasFlag(e)
            BY <2>2, <3>1, UpdateType DEF WriteUptime, TypeInv
        <3> QED
            BY <1>3, <3>2
    <2>3. CASE AddHost(t)
        <3>1. walkedHosts'[d] = walkedHosts[d]
              \/ walkedHosts'[d] = [walked |-> FALSE, data |-> NoData]
            BY <1>t, <2>3 DEF AddHost
        <3> QED
            BY <1>3, <3>1 DEF HasFlag
    <2>4. CASE ~(MarkWalked(t) \/ WriteUptime(t) \/ AddHost(t))
        <3>1. walkedHosts' = walkedHosts
            BY <2>4 DEF RealtimeTask, RealtimeFails, StartRealtime, NextLine,
                        EndRealtime, ReadUptime, ReadFlag, Compare, ScheduleWalk,
                        ReadPrevious
        <3> QED
            BY <1>3, <3>1 DEF HasFlag
    <2> QED
        BY <2>1, <2>2, <2>3, <2>4
<1>4. CASE Marking(d)' # {} /\ Marking(d) = {} /\ ~(ScheduleWalk(t) /\ thread[t].dev = d)
    <2>1. t \in Marking(d)' /\ t \notin Marking(d)
        BY <1>4, <1>o DEF Marking
    <2>2. /\ thread'[t].dev = d /\ thread'[t].walk
          /\ thread'[t].pc \in {"add", "prev", "write", "mark"}
        BY <2>1 DEF Marking
    <2>3. CASE Compare(t)
        BY <1>t, <2>2, <2>3 DEF Compare, ThreadStates
    <2>4. CASE WriteUptime(t)
        BY <1>t, <2>1, <2>2, <2>4, LocalsType DEF WriteUptime, At, Marking, ThreadStates
    <2>5. CASE ScheduleWalk(t)
        BY <1>4, <1>t, <2>2, <2>5 DEF ScheduleWalk, ThreadStates
    <2>6. CASE AddHost(t) \/ ReadPrevious(t)
        BY <1>t, <2>1, <2>2, <2>6 DEF AddHost, ReadPrevious, At, Marking, ThreadStates
    <2>7. CASE \/ StartRealtime(t) \/ EndRealtime(t) \/ MarkWalked(t)
               \/ RealtimeFails(t)
        <3>1. thread'[t].pc \in {"off", "next"}
            BY <1>t, <2>7, LocalsType DEF StartRealtime, EndRealtime, MarkWalked,
                RealtimeFails, ThreadStates, TypeInv, TypeOK
        <3> QED
            BY <2>2, <3>1
    <2>8. CASE NextLine(t) \/ ReadUptime(t) \/ ReadFlag(t)
        <3>1. CASE NextLine(t)
            BY <1>t, <2>2, <3>1 DEF NextLine, ThreadStates
        <3>2. CASE ReadUptime(t)
            BY <1>t, <2>2, <3>2 DEF ReadUptime, ThreadStates
        <3>3. CASE ReadFlag(t)
            BY <1>t, <2>2, <3>3 DEF ReadFlag, ThreadStates
        <3> QED
            BY <2>8, <3>1, <3>2, <3>3
    <2> QED
        BY <2>3, <2>4, <2>5, <2>6, <2>7, <2>8 DEF RealtimeTask
<1> QED
    BY <1>1, <1>2, <1>3, <1>4

LEMMA MarkNext == TypeInv /\ MarkInv /\ [Next]_vars => MarkInv'
<1> SUFFICES ASSUME TypeInv, MarkInv, [Next]_vars, NEW t \in Threads,
                    thread'[t].pc = "mark"
             PROVE  thread'[t].walk
    BY DEF MarkInv
<1>t. thread \in [Threads -> ThreadStates] /\ thread[t] \in ThreadStates
    BY DEF TypeInv, TypeOK
<1>1. CASE UNCHANGED vars
    BY <1>1 DEF vars, MarkInv
<1>2. ASSUME NEW u \in Threads, RealtimeTask(u) \/ RealtimeFails(u)
      PROVE  thread'[t].walk
    <2>1. CASE u # t
        <3>1. thread'[t] = thread[t]
            BY <1>2, <1>t, <2>1 DEF RealtimeTask, RealtimeFails, StartRealtime, NextLine,
                EndRealtime, ReadUptime, ReadFlag, Compare, ScheduleWalk, AddHost,
                ReadPrevious, WriteUptime, MarkWalked
        <3> QED
            BY <3>1 DEF MarkInv
    <2>2. CASE u = t
        <3>1. CASE WriteUptime(t)
            BY <1>t, <3>1, LocalsType DEF WriteUptime, ThreadStates
        <3>2. CASE \/ StartRealtime(t) \/ EndRealtime(t) \/ MarkWalked(t)
                   \/ RealtimeFails(t)
            <4>1. thread'[t].pc \in {"off", "next"}
                BY <1>t, <3>2, LocalsType DEF StartRealtime, EndRealtime, MarkWalked,
                    RealtimeFails, ThreadStates, TypeInv, TypeOK
            <4> QED
                BY <4>1
        <3>3. CASE NextLine(t)
            BY <1>t, <3>3 DEF NextLine, ThreadStates
        <3>6. CASE ReadUptime(t)
            BY <1>t, <3>6 DEF ReadUptime, ThreadStates
        <3>4. CASE ReadFlag(t) \/ Compare(t)
            BY <1>t, <3>4 DEF ReadFlag, Compare, ThreadStates
        <3>5. CASE ScheduleWalk(t) \/ AddHost(t) \/ ReadPrevious(t)
            BY <1>t, <3>5 DEF ScheduleWalk, AddHost, ReadPrevious, ThreadStates
        <3> QED
            BY <1>2, <2>2, <3>1, <3>2, <3>3, <3>4, <3>5, <3>6 DEF RealtimeTask
    <2> QED
        BY <2>1, <2>2
<1>3. CASE Crash
    BY <1>3, LocalsType DEF Crash
<1>4. CASE \/ Scheduler \/ Tick \/ Restart \/ Outage \/ Recover \/ Edit
           \/ \E w \in Workers : Worker(w) \/ WalkAborted(w)
    <2>1. thread' = thread
        BY <1>4 DEF Scheduler, onetime_task, ReadUnwalked, ScheduleRetry, Clean,
            DeleteHost, DeleteUnwalked, Tick,
            Restart, Outage, Recover, Edit, Worker, TakeTask, ReadForDescr, WriteDescr,
            WalkError, WalkComplete, WalkAborted
    <2> QED
        BY <2>1 DEF MarkInv
<1> QED
    BY <1>1, <1>2, <1>3, <1>4 DEF Next

LEMMA FlagWorker ==
    ASSUME TypeInv, FlagInv, NEW w \in Workers, Worker(w) \/ WalkAborted(w)
    PROVE  FlagInv'
<1> USE DEF mongo, history, inventory, device, counters
<1> SUFFICES ASSUME NEW d \in Devices, HasFlag(d)' \/ Marking(d)' # {}
             PROVE  Covered(d)'
    BY DEF FlagInv
<1>1. Marking(d)' = Marking(d)
    BY DEF Marking, Worker, TakeTask, ReadForDescr, WriteDescr, WalkError, WalkComplete,
           WalkAborted
<1>2. HasFlag(d)' => HasFlag(d)
    <2>1. CASE WriteDescr(w)
        <3> DEFINE l == proc[w]
        <3>1. l \in WorkerStates /\ l.task \in Tasks
            BY <2>1 DEF TypeInv, TypeOK, WorkerShape, WriteDescr
        <3>2. /\ l.task.dev \in Devices /\ l.stamp \in Nat
              /\ [l.prev EXCEPT !.descr = TRUE] \in Realtime
            BY <3>1 DEF Tasks, WorkerStates, Realtime
        <3> QED
            BY <2>1, <3>2, UpdateType DEF WriteDescr, TypeInv
    <2>2. CASE ~WriteDescr(w)
        BY <2>2 DEF HasFlag, Worker, TakeTask, ReadForDescr, WalkError, WalkComplete,
                    WalkAborted
    <2> QED
        BY <2>1, <2>2
<1> QED
    BY <1>1, <1>2, CoveredWorker DEF FlagInv

LEMMA FlagOthers ==
    ASSUME TypeInv, FlagInv,
           Scheduler \/ Tick \/ Restart \/ Outage \/ Recover \/ Edit \/ Crash
    PROVE  FlagInv'
<1> USE DEF mongo, history, inventory, device, counters
<1> SUFFICES ASSUME NEW d \in Devices, HasFlag(d)' \/ Marking(d)' # {}
             PROVE  Covered(d)'
    BY DEF FlagInv
<1>1. CASE DeleteHost
    <2> PICK e \in toClean :
            /\ walkedHosts' = [walkedHosts EXCEPT ![e] = None]
            /\ done' = done \ {e}
            /\ lost' = IF Marking(e) = {} THEN lost \ {e} ELSE lost \cup {e}
        BY <1>1 DEF DeleteHost
    <2>1. Marking(d)' = Marking(d)
        BY <1>1 DEF DeleteHost, Marking
    <2>2. CASE d = e
        <3>1. ~HasFlag(d)'
            BY <2>2 DEF HasFlag, TypeInv, TypeOK
        <3>2. d \in lost'
            BY <2>1, <2>2, <3>1
        <3> QED
            BY <3>2 DEF Covered
    <2>3. CASE d # e
        <3>1. HasFlag(d)' => HasFlag(d)
            BY <2>3 DEF HasFlag, TypeInv, TypeOK
        <3>2. Covered(d)
            BY <2>1, <3>1 DEF FlagInv
        <3> QED
            BY <1>1, <2>3, <3>2 DEF DeleteHost, Covered, Outstanding, FirstWalk, Task
    <2> QED
        BY <2>2, <2>3
<1>4. CASE DeleteUnwalked
    <2>1. Marking(d)' = Marking(d) /\ (HasFlag(d)' <=> HasFlag(d))
        BY <1>4 DEF DeleteUnwalked, Marking, HasFlag
    <2>2. Covered(d)
        BY <2>1 DEF FlagInv
    <2>3. lost \subseteq lost' /\ (d = cleaning /\ d \in unwalkedHosts => d \in lost')
        BY <1>4, <2>1 DEF DeleteUnwalked
    <2> QED
        BY <1>4, <2>2, <2>3 DEF DeleteUnwalked, Covered, Outstanding, FirstWalk, Task
<1>2. CASE ~Clean
    <2>1. walkedHosts' = walkedHosts
        BY <1>2 DEF Scheduler, onetime_task, ReadUnwalked, ScheduleRetry, Tick, Restart,
                    Outage, Recover, Edit, Crash
    <2>2. CASE Crash
        <3>1. Marking(d)' = {}
            BY <2>2, LocalsType DEF Crash, Marking
        <3> QED
            BY <2>1, <2>2, <3>1, CoveredOthers DEF FlagInv, HasFlag
    <2>3. CASE ~Crash
        <3>1. Marking(d)' = Marking(d)
            BY <1>2, <2>3 DEF Marking, Scheduler, onetime_task, ReadUnwalked,
                ScheduleRetry, Tick, Restart, Outage, Recover, Edit
        <3> QED
            BY <1>2, <2>1, <2>3, <3>1, CoveredOthers DEF FlagInv, HasFlag, Scheduler
    <2> QED
        BY <2>2, <2>3
<1> QED
    BY <1>1, <1>2, <1>4 DEF Clean

IInv == TypeInv /\ MarkInv /\ FlagInv

LEMMA InvInit == Init => IInv
<1> SUFFICES ASSUME Init PROVE IInv
    OBVIOUS
<1>1. TypeInv
    BY TypeInit
<1>2. MarkInv
    BY LocalsType DEF Init, MarkInv
<1>3. FlagInv
    BY LocalsType DEF Init, FlagInv, HasFlag, Marking
<1> QED
    BY <1>1, <1>2, <1>3 DEF IInv

LEMMA InvNext == IInv /\ [Next]_vars => IInv'
<1> SUFFICES ASSUME IInv, [Next]_vars PROVE IInv'
    OBVIOUS
<1>1. TypeInv' /\ MarkInv'
    BY TypeNext, MarkNext DEF IInv
<1>2. FlagInv'
    <2>1. CASE UNCHANGED vars
        BY <2>1 DEF vars, inventory, device, mongo, history, counters, IInv, FlagInv,
                    HasFlag, Marking, Covered, Outstanding, FirstWalk, Task
    <2> QED
        BY <2>1, FlagRealtime, FlagWorker, FlagOthers DEF IInv, Next
<1> QED
    BY <1>1, <1>2 DEF IInv

(* The flag onetime_walk is set only over a first walk that is on its way, done,
   recorded as failed, or known to be lost: _walk_info and update_walked_host
   can be trusted for any number of overlapping realtime threads and workers. *)
THEOREM FlagCorrect == Spec => []WalkNotForgotten
<1>1. IInv => WalkNotForgotten
    BY DEF IInv, FlagInv, Covered, WalkNotForgotten
<1> QED
    BY InvInit, InvNext, <1>1, PTL DEF Spec

-----------------------------------------------------------------------------
(* RedoExplained.  Readings of one device are ordered by the resets of its
   counter, and between resets by the uptime read. *)

(* The uptime u read after s resets is not later than v read after r. *)
Precedes(u, s, v, r) == u = None \/ s < r \/ (s = r /\ u <= v)
Past(u, s, d) == Precedes(u, s, uptime[d], resets[d])

Stored(d) == real_time_data_for(d).uptime

StoredPast  == \A d \in Devices : Past(Stored(d), stamp[d], d)
DescrPast   == \A w \in Workers : proc[w].pc = "describe" =>
                   Past(proc[w].prev.uptime, proc[w].stamp, proc[w].task.dev)
ReadPast    == \A t \in Threads : Reading(t) =>
                   Past(thread[t].val, thread[t].stamp, thread[t].dev)

(* What is stored, and what a worker will write back, was read before what a
   thread holds, unless the device did not answer the thread, or another thread
   has stored a reading of the device since. *)
Fresh(t) == Reading(t) /\ thread[t].val # 0 /\ t \notin overtaken

StoredFirst == \A t \in Threads : Fresh(t) =>
                   Precedes(Stored(thread[t].dev), stamp[thread[t].dev],
                            thread[t].val, thread[t].stamp)
DescrFirst  == \A t \in Threads, w \in Workers :
                   Fresh(t) /\ proc[w].pc = "describe"
                       /\ proc[w].task.dev = thread[t].dev =>
                   Precedes(proc[w].prev.uptime, proc[w].stamp,
                            thread[t].val, thread[t].stamp)

ReadingInv == StoredPast /\ DescrPast /\ ReadPast /\ StoredFirst /\ DescrFirst

LEMMA PrecedesTrans ==
    ASSUME NEW u \in Uptimes \cup {None}, NEW v \in Uptimes, NEW x \in Uptimes,
           NEW s \in Nat, NEW r \in Nat, NEW q \in Nat,
           Precedes(u, s, v, r), Precedes(v, r, x, q)
    PROVE  Precedes(u, s, x, q)
<1>1. v # None /\ Uptimes \subseteq Int
    BY NoneAssumption, UptimeAssumption DEF Uptimes
<1> QED
    BY <1>1 DEF Precedes

LEMMA ReadingType ==
    ASSUME TypeInv
    PROVE  /\ \A d \in Devices : /\ Stored(d) \in Uptimes \cup {None}
                                 /\ stamp[d] \in Nat /\ uptime[d] \in Uptimes
                                 /\ resets[d] \in Nat
           /\ \A w \in Workers : /\ proc[w].prev.uptime \in Uptimes \cup {None}
                                 /\ proc[w].stamp \in Nat
                                 /\ proc[w].pc # "idle" => proc[w].task.dev \in Devices
           /\ \A t \in Threads : /\ thread[t].val \in Uptimes /\ thread[t].stamp \in Nat
                                 /\ Reading(t) => thread[t].dev \in Devices
<1>1. \A d \in Devices : Stored(d) \in Uptimes \cup {None}
    BY StoredType DEF TypeInv, Stored, Realtime
<1>2. ASSUME NEW w \in Workers
      PROVE  /\ proc[w].prev.uptime \in Uptimes \cup {None} /\ proc[w].stamp \in Nat
             /\ proc[w].pc # "idle" => proc[w].task.dev \in Devices
    <2>1. proc[w] \in WorkerStates
        BY DEF TypeInv, TypeOK
    <2>2. proc[w].pc # "idle" => proc[w].task \in Tasks
        BY DEF TypeInv, WorkerShape
    <2> QED
        BY <2>1, <2>2 DEF WorkerStates, Realtime, Tasks
<1>3. ASSUME NEW t \in Threads
      PROVE  /\ thread[t].val \in Uptimes /\ thread[t].stamp \in Nat
             /\ Reading(t) => thread[t].dev \in Devices
    <2>1. thread[t] \in ThreadStates
        BY DEF TypeInv, TypeOK
    <2> QED
        BY <2>1 DEF ThreadStates, TypeInv, ThreadShape, Reading
<1> QED
    BY <1>1, <1>2, <1>3 DEF TypeInv, TypeOK

(* The clock of a device goes forward, and with it the past grows. *)
LEMMA ClockForward ==
    ASSUME TypeInv, [Next]_vars, NEW d \in Devices
    PROVE  Precedes(uptime[d], resets[d], uptime'[d], resets'[d])
<1> USE DEF inventory, device, mongo, history, counters
<1>t. /\ uptime \in [Devices -> Uptimes] /\ resets \in [Devices -> Nat]
      /\ uptime[d] \in Nat /\ resets[d] \in Nat /\ uptime[d] <= MaxUptime
      /\ MaxUptime \in Nat
    BY UptimeAssumption DEF TypeInv, TypeOK, Uptimes
<1>1. CASE Tick
    <2> PICK e \in Devices :
          /\ uptime' = [uptime EXCEPT ![e] = (@ + 1) % (MaxUptime + 1)]
          /\ resets' = IF uptime[e] = MaxUptime THEN [resets EXCEPT ![e] = @ + 1]
                                                ELSE resets
        BY <1>1 DEF Tick
    <2>1. CASE e # d
        <3>1. uptime'[d] = uptime[d] /\ resets'[d] = resets[d]
            BY <1>t, <2>1
        <3> QED
            BY <1>t, <3>1 DEF Precedes
    <2>2. CASE e = d /\ uptime[d] = MaxUptime
        <3>1. resets'[d] = resets[d] + 1
            BY <1>t, <2>2
        <3> QED
            BY <1>t, <3>1 DEF Precedes
    <2>3. CASE e = d /\ uptime[d] # MaxUptime
        <3>1. (uptime[d] + 1) % (MaxUptime + 1) = uptime[d] + 1
            BY <1>t, <2>3
        <3>2. uptime'[d] = uptime[d] + 1 /\ resets'[d] = resets[d]
            BY <1>t, <2>3, <3>1
        <3> QED
            BY <1>t, <3>2 DEF Precedes
    <2> QED
        BY <2>1, <2>2, <2>3
<1>2. CASE Restart
    <2>1. \/ uptime'[d] = uptime[d] /\ resets'[d] = resets[d]
          \/ resets'[d] = resets[d] + 1
        BY <1>t, <1>2 DEF Restart
    <2> QED
        BY <1>t, <2>1 DEF Precedes
<1>3. CASE ~Tick /\ ~Restart
    <2>1. uptime' = uptime /\ resets' = resets
        BY <1>3 DEF Next, vars, Scheduler, onetime_task, ReadUnwalked, ScheduleRetry,
            Clean, DeleteHost, DeleteUnwalked, Outage, Recover, Edit, Crash, RealtimeTask,
            RealtimeFails,
            StartRealtime, NextLine, EndRealtime, ReadUptime, ReadFlag, Compare,
            ScheduleWalk, AddHost, ReadPrevious, WriteUptime, MarkWalked, Worker,
            TakeTask, ReadForDescr, WriteDescr, WalkError, WalkComplete, WalkAborted
    <2> QED
        BY <1>t, <2>1 DEF Precedes
<1> QED
    BY <1>1, <1>2, <1>3

LEMMA PastGrows ==
    ASSUME TypeInv, [Next]_vars, NEW d \in Devices, NEW u \in Uptimes \cup {None},
           NEW s \in Nat, Past(u, s, d)
    PROVE  Precedes(u, s, uptime'[d], resets'[d])
<1>1. /\ uptime[d] \in Uptimes /\ resets[d] \in Nat
      /\ uptime'[d] \in Uptimes /\ resets'[d] \in Nat
    BY TypeNext DEF TypeInv, TypeOK
<1>2. Precedes(uptime[d], resets[d], uptime'[d], resets'[d])
    BY ClockForward
<1> QED
    BY <1>1, <1>2, PrecedesTrans DEF Past

(* What one call stores: the pair of an uptime and its stamp. *)
LEMMA UpdateStored ==
    ASSUME TypeOK, NEW d \in Devices, NEW data \in Realtime, NEW s \in Nat,
           update_real_time_data_for(d, data, s), NEW e \in Devices
    PROVE  \/ Stored(e)' = Stored(e) /\ stamp'[e] = stamp[e]
           \/ /\ e = d /\ walkedHosts[d] # None
              /\ Stored(e)' = data.uptime /\ stamp'[e] = s
<1>1. CASE walkedHosts[d] = None
    BY <1>1 DEF update_real_time_data_for, Stored, real_time_data_for
<1>2. CASE walkedHosts[d] # None /\ e # d
    <2>1. walkedHosts'[e] = walkedHosts[e] /\ stamp'[e] = stamp[e]
        BY <1>2 DEF update_real_time_data_for, TypeOK
    <2> QED
        BY <2>1 DEF Stored, real_time_data_for
<1>3. CASE walkedHosts[d] # None /\ e = d
    <2>1. walkedHosts[d] \in Documents
        BY <1>3 DEF TypeOK
    <2>2. walkedHosts'[d] = [walkedHosts[d] EXCEPT !.data = data] /\ stamp'[d] = s
        BY <1>3 DEF update_real_time_data_for, TypeOK
    <2>3. walkedHosts'[d] = [walked |-> walkedHosts[d].walked, data |-> data]
        BY <2>1, <2>2 DEF Documents
    <2>4. walkedHosts'[d] # None
        BY <2>1, <2>3, NoneAssumption DEF Documents
    <2> QED
        BY <1>3, <2>2, <2>3, <2>4 DEF Stored, real_time_data_for
<1> QED
    BY <1>1, <1>2, <1>3

(* A stored uptime is kept, or deleted, or written by a thread that ends its
   reading with it and overtakes the other readings, or by a worker. *)
Overtakes(t) ==
    \A u \in Threads \ {t} :
        Reading(u) /\ thread[u].dev = thread[t].dev => u \in overtaken'

LEMMA StoredNext ==
    ASSUME TypeInv, [Next]_vars, NEW d \in Devices
    PROVE  \/ Stored(d)' = Stored(d) /\ stamp'[d] = stamp[d]
           \/ Stored(d)' = None
           \/ \E t \in Threads :
                 /\ Reading(t) /\ ~Reading(t)' /\ thread[t].dev = d /\ Overtakes(t)
                 /\ Stored(d)' = thread[t].val /\ stamp'[d] = thread[t].stamp
           \/ \E w \in Workers :
                 /\ proc[w].pc = "describe" /\ proc[w].task.dev = d
                 /\ Stored(d)' = proc[w].prev.uptime /\ stamp'[d] = proc[w].stamp
<1> USE DEF inventory, device, mongo, history, counters
<1>t. walkedHosts \in [Devices -> Documents \cup {None}] /\ TypeOK
    BY DEF TypeInv, TypeOK
<1>1. ASSUME NEW t \in Threads, WriteUptime(t)
      PROVE  \/ Stored(d)' = Stored(d) /\ stamp'[d] = stamp[d]
             \/ /\ Reading(t) /\ ~Reading(t)' /\ thread[t].dev = d /\ Overtakes(t)
                /\ Stored(d)' = thread[t].val /\ stamp'[d] = thread[t].stamp
    <2> DEFINE l == thread[t]
               data == [l.prev EXCEPT !.uptime = l.val]
               mark == [Between(l.todo) EXCEPT !.pc = "mark", !.dev = l.dev, !.walk = TRUE]
               new == IF l.walk THEN mark ELSE Between(l.todo)
    <2>1. l \in ThreadStates /\ l.dev \in Devices /\ Reading(t)
        BY <1>1 DEF WriteUptime, At, TypeInv, TypeOK, ThreadShape, Reading
    <2>2. /\ l.prev \in Realtime /\ l.val \in Uptimes /\ l.stamp \in Nat
          /\ l.todo \in SUBSET Devices
        BY <2>1 DEF ThreadStates
    <2>3. data \in Realtime /\ data.uptime = l.val
        BY <2>2 DEF Realtime
    <2>4. update_real_time_data_for(l.dev, data, l.stamp)
          /\ thread' = [thread EXCEPT ![t] = new]
        BY <1>1 DEF WriteUptime
    <2>5. new.pc \in {"mark", "next"}
        BY <2>1, <2>2, LocalsType DEF ThreadStates
    <2>6. ~Reading(t)'
        BY <2>4, <2>5 DEF Reading, TypeInv, TypeOK
    <2>7. walkedHosts[l.dev] # None => Overtakes(t)
        BY <1>1 DEF WriteUptime, Overtakes
    <2> HIDE DEF data, new
    <2> QED
        BY <1>t, <2>1, <2>2, <2>3, <2>4, <2>6, <2>7, UpdateStored
<1>2. ASSUME NEW w \in Workers, WriteDescr(w)
      PROVE  \/ Stored(d)' = Stored(d) /\ stamp'[d] = stamp[d]
             \/ /\ proc[w].pc = "describe" /\ proc[w].task.dev = d
                /\ Stored(d)' = proc[w].prev.uptime /\ stamp'[d] = proc[w].stamp
    <2> DEFINE l == proc[w]
               data == [l.prev EXCEPT !.descr = TRUE]
    <2>1. l \in WorkerStates /\ l.task \in Tasks /\ l.pc = "describe"
        BY <1>2 DEF WriteDescr, TypeInv, TypeOK, WorkerShape
    <2>2. l.prev \in Realtime /\ l.stamp \in Nat /\ l.task.dev \in Devices
        BY <2>1 DEF WorkerStates, Tasks
    <2>3. data \in Realtime /\ data.uptime = l.prev.uptime
        BY <2>2 DEF Realtime
    <2>4. update_real_time_data_for(l.task.dev, data, l.stamp)
        BY <1>2 DEF WriteDescr
    <2> HIDE DEF data
    <2> QED
        BY <1>t, <2>1, <2>2, <2>3, <2>4, UpdateStored
<1>3. ASSUME NEW t \in Threads, AddHost(t)
      PROVE  Stored(d)' = Stored(d) /\ stamp'[d] = stamp[d]
    <2>1. \/ walkedHosts'[d] = walkedHosts[d]
          \/ walkedHosts[d] = None
             /\ walkedHosts'[d] = [walked |-> FALSE, data |-> NoData]
        BY <1>t, <1>3 DEF AddHost
    <2>2. [walked |-> FALSE, data |-> NoData] \in Documents
        BY LocalsType DEF Documents
    <2>3. [walked |-> FALSE, data |-> NoData] # None
        BY <2>2, NoneAssumption
    <2> QED
        BY <1>3, <2>1, <2>3 DEF AddHost, Stored, real_time_data_for
<1>4. ASSUME NEW t \in Threads, MarkWalked(t)
      PROVE  Stored(d)' = Stored(d) /\ stamp'[d] = stamp[d]
    <2> DEFINE e == thread[t].dev
               doc == [walked |-> TRUE, data |-> real_time_data_for(e)]
    <2>1. e \in Devices
        BY <1>4 DEF MarkWalked, At, TypeInv, ThreadShape
    <2>2. doc \in Documents /\ doc # None
        <3>1. doc \in Documents
            BY <1>t, <2>1, StoredType DEF Documents
        <3> QED
            BY <3>1, NoneAssumption
    <2>3. walkedHosts' = [walkedHosts EXCEPT ![e] = doc] /\ stamp' = stamp
        BY <1>4 DEF MarkWalked, update_walked_host
    <2>4. CASE d = e
        <3>1. walkedHosts'[d] = doc
            BY <1>t, <2>3, <2>4
        <3>2. real_time_data_for(d)' = doc.data
            BY <2>2, <3>1 DEF real_time_data_for
        <3> QED
            BY <2>3, <2>4, <3>2 DEF Stored
    <2>5. CASE d # e
        BY <1>t, <2>3, <2>5 DEF Stored, real_time_data_for
    <2> QED
        BY <2>4, <2>5
<1>5. CASE Clean
    <2>1. walkedHosts'[d] \in {None, walkedHosts[d]} /\ stamp' = stamp
        BY <1>t, <1>5 DEF Clean, DeleteHost, DeleteUnwalked
    <2> QED
        BY <2>1 DEF Stored, real_time_data_for, NoData
<1>6. CASE /\ ~Clean
           /\ \A t \in Threads : ~WriteUptime(t) /\ ~AddHost(t) /\ ~MarkWalked(t)
           /\ \A w \in Workers : ~WriteDescr(w)
    <2>1. walkedHosts' = walkedHosts /\ stamp' = stamp
        BY <1>6 DEF Next, vars, Scheduler, onetime_task, ReadUnwalked, ScheduleRetry,
            Tick, Restart, Outage, Recover, Edit, Crash, RealtimeTask, RealtimeFails,
            StartRealtime, NextLine, EndRealtime, ReadUptime, ReadFlag, Compare,
            ScheduleWalk, ReadPrevious, Worker, TakeTask, ReadForDescr, WalkError,
            WalkComplete, WalkAborted
    <2> QED
        BY <2>1 DEF Stored, real_time_data_for
<1> QED
    BY <1>1, <1>2, <1>3, <1>4, <1>5, <1>6

(* What a worker will write back it had already, or has just read. *)
LEMMA DescrNext ==
    ASSUME TypeInv, [Next]_vars, NEW w \in Workers, proc'[w].pc = "describe"
    PROVE  \/ /\ proc[w].pc = "describe" /\ proc'[w].task = proc[w].task
              /\ proc'[w].prev = proc[w].prev /\ proc'[w].stamp = proc[w].stamp
           \/ LET d == proc'[w].task.dev IN
              /\ d \in Devices
              /\ proc'[w].prev.uptime = Stored(d) /\ proc'[w].stamp = stamp[d]
              /\ UNCHANGED <<thread, uptime, resets>>
<1> USE DEF inventory, device, mongo, history, counters
<1>t. proc \in [Workers -> WorkerStates] /\ proc[w] \in WorkerStates
    BY DEF TypeInv, TypeOK
<1>1. CASE ReadForDescr(w)
    <2>1. proc[w].task.dev \in Devices
        BY <1>1, ReadingType DEF ReadForDescr
    <2> QED
        BY <1>1, <1>t, <2>1 DEF ReadForDescr, WorkerStates, Stored
<1>2. ASSUME NEW u \in Workers, Worker(u) \/ WalkAborted(u), u # w
      PROVE  proc'[w] = proc[w]
    BY <1>2, <1>t DEF Worker, TakeTask, ReadForDescr, WriteDescr, WalkError,
        WalkComplete, WalkAborted
<1>3. CASE (Worker(w) \/ WalkAborted(w)) /\ ~ReadForDescr(w)
    <2>1. CASE TakeTask(w)
        BY <1>t, <2>1 DEF TakeTask, WorkerStates
    <2>2. CASE WriteDescr(w)
        BY <1>t, <2>2 DEF WriteDescr, WorkerStates
    <2>3. CASE WalkError(w) \/ WalkComplete(w) \/ WalkAborted(w)
        BY <1>t, <2>3, LocalsType DEF WalkError, WalkComplete, WalkAborted
    <2> QED
        BY <1>3, <2>1, <2>2, <2>3 DEF Worker
<1>4. CASE \A u \in Workers : ~Worker(u) /\ ~WalkAborted(u)
    <2>1. proc' = proc
        BY <1>4 DEF Next, vars, Scheduler, onetime_task, ReadUnwalked, ScheduleRetry,
            Clean, DeleteHost, DeleteUnwalked, Tick, Restart, Outage, Recover, Edit, Crash,
            RealtimeTask, RealtimeFails, StartRealtime, NextLine, EndRealtime,
            ReadUptime, ReadFlag,
            Compare, ScheduleWalk, AddHost, ReadPrevious, WriteUptime, MarkWalked
    <2> QED
        BY <2>1
<1> QED
    BY <1>1, <1>2, <1>3, <1>4

(* A thread holds the reading it had, or takes one of the device as it is, or 0. *)
LEMMA ReadingNext ==
    ASSUME TypeInv, [Next]_vars, NEW t \in Threads, Reading(t)'
    PROVE  \/ /\ Reading(t) /\ thread'[t].dev = thread[t].dev
              /\ thread'[t].val = thread[t].val /\ thread'[t].stamp = thread[t].stamp
              /\ t \in overtaken => t \in overtaken'
           \/ LET d == thread'[t].dev IN
              /\ d \in Devices
              /\ thread'[t].val \in {uptime[d], 0} /\ thread'[t].stamp = resets[d]
              /\ UNCHANGED <<uptime, resets, walkedHosts, stamp, proc>>
<1> USE DEF inventory, device, mongo, history, counters
<1>t. thread \in [Threads -> ThreadStates] /\ thread[t] \in ThreadStates
    BY DEF TypeInv, TypeOK
<1>1. CASE ReadUptime(t)
    <2>1. thread[t].dev \in Devices
        BY <1>1 DEF ReadUptime, At, TypeInv, ThreadShape
    <2> QED
        BY <1>1, <1>t, <2>1 DEF ReadUptime, ThreadStates
<1>2. ASSUME NEW u \in Threads, RealtimeTask(u) \/ RealtimeFails(u), u # t
      PROVE  thread'[t] = thread[t] /\ (t \in overtaken => t \in overtaken')
    BY <1>2, <1>t DEF RealtimeTask, RealtimeFails, StartRealtime, NextLine, EndRealtime,
        ReadUptime, ReadFlag, Compare, ScheduleWalk, AddHost, ReadPrevious, WriteUptime,
        MarkWalked
<1>3. CASE (RealtimeTask(t) /\ ~ReadUptime(t)) \/ RealtimeFails(t)
    <2>1. CASE ReadFlag(t)
        BY <1>t, <2>1 DEF ReadFlag, At, Reading, ThreadStates
    <2>2. CASE Compare(t)
        BY <1>t, <2>2 DEF Compare, At, Reading, ThreadStates
    <2>3. CASE ScheduleWalk(t)
        BY <1>t, <2>3 DEF ScheduleWalk, At, Reading, ThreadStates
    <2>4. CASE AddHost(t)
        BY <1>t, <2>4 DEF AddHost, At, Reading, ThreadStates
    <2>5. CASE ReadPrevious(t)
        BY <1>t, <2>5 DEF ReadPrevious, At, Reading, ThreadStates
    <2>6. CASE \/ StartRealtime(t) \/ EndRealtime(t) \/ MarkWalked(t)
               \/ RealtimeFails(t)
        <3>1. thread'[t].pc \in {"off", "next"}
            BY <1>t, <2>6, LocalsType DEF StartRealtime, EndRealtime, MarkWalked,
                RealtimeFails, ThreadStates, TypeInv, TypeOK
        <3> QED
            BY <3>1 DEF Reading
    <2>7. CASE NextLine(t)
        BY <1>t, <2>7 DEF NextLine, Reading, ThreadStates
    <2>8. CASE WriteUptime(t)
        <3>1. thread'[t].pc \in {"mark", "next"}
            BY <1>t, <2>8, LocalsType DEF WriteUptime, ThreadStates
        <3> QED
            BY <3>1 DEF Reading
    <2> QED
        BY <1>3, <2>1, <2>2, <2>3, <2>4, <2>5, <2>6, <2>7, <2>8 DEF RealtimeTask
<1>4. CASE Crash
    BY <1>4, LocalsType DEF Crash, Reading
<1>5. CASE ~Crash /\ \A u \in Threads : ~RealtimeTask(u) /\ ~RealtimeFails(u)
    <2>1. thread' = thread /\ overtaken' = overtaken
        BY <1>5 DEF Next, vars, Scheduler, onetime_task, ReadUnwalked, ScheduleRetry,
            Clean, DeleteHost, DeleteUnwalked, Tick, Restart, Outage, Recover, Edit, Worker,
            TakeTask, ReadForDescr,
            WriteDescr, WalkError, WalkComplete, WalkAborted
    <2> QED
        BY <2>1 DEF Reading
<1> QED
    BY <1>1, <1>2, <1>3, <1>4, <1>5 DEF Reading

(* Every step keeps the order of the readings. *)
LEMMA ReadingKept == TypeInv /\ ReadingInv /\ [Next]_vars => ReadingInv'
<1> SUFFICES ASSUME TypeInv, ReadingInv, [Next]_vars PROVE ReadingInv'
    OBVIOUS
<1>1. StoredPast'
    <2> SUFFICES ASSUME NEW d \in Devices PROVE Past(Stored(d), stamp[d], d)'
        BY DEF StoredPast
    <2>1. CASE Stored(d)' = None
        BY <2>1 DEF Past, Precedes
    <2>2. CASE Stored(d)' = Stored(d) /\ stamp'[d] = stamp[d]
        BY <2>2, PastGrows, ReadingType DEF ReadingInv, StoredPast, Past
    <2>3. ASSUME NEW t \in Threads, Reading(t), thread[t].dev = d,
                 Stored(d)' = thread[t].val, stamp'[d] = thread[t].stamp
          PROVE  Past(Stored(d), stamp[d], d)'
        <3>1. Past(thread[t].val, thread[t].stamp, d)
            BY <2>3 DEF ReadingInv, ReadPast
        <3> QED
            BY <2>3, <3>1, PastGrows, ReadingType DEF Past
    <2>4. ASSUME NEW w \in Workers, proc[w].pc = "describe", proc[w].task.dev = d,
                 Stored(d)' = proc[w].prev.uptime, stamp'[d] = proc[w].stamp
          PROVE  Past(Stored(d), stamp[d], d)'
        <3>1. Past(proc[w].prev.uptime, proc[w].stamp, d)
            BY <2>4 DEF ReadingInv, DescrPast
        <3> QED
            BY <2>4, <3>1, PastGrows, ReadingType DEF Past
    <2> QED
        BY <2>1, <2>2, <2>3, <2>4, StoredNext
<1>2. DescrPast'
    <2> SUFFICES ASSUME NEW w \in Workers, proc'[w].pc = "describe"
                 PROVE  Past(proc[w].prev.uptime, proc[w].stamp, proc[w].task.dev)'
        BY DEF DescrPast
    <2> PICK d : d = proc'[w].task.dev
        OBVIOUS
    <2>1. CASE /\ proc[w].pc = "describe" /\ proc'[w].task = proc[w].task
               /\ proc'[w].prev = proc[w].prev /\ proc'[w].stamp = proc[w].stamp
        <3>1. Past(proc[w].prev.uptime, proc[w].stamp, d) /\ d \in Devices
            BY <2>1, ReadingType DEF ReadingInv, DescrPast
        <3> QED
            BY <2>1, <3>1, PastGrows, ReadingType DEF Past
    <2>2. CASE /\ d \in Devices
               /\ proc'[w].prev.uptime = Stored(d) /\ proc'[w].stamp = stamp[d]
               /\ UNCHANGED <<thread, uptime, resets>>
        BY <2>2 DEF ReadingInv, StoredPast, Past
    <2> QED
        BY <2>1, <2>2, DescrNext
<1>3. ReadPast'
    <2> SUFFICES ASSUME NEW t \in Threads, Reading(t)'
                 PROVE  Past(thread[t].val, thread[t].stamp, thread[t].dev)'
        BY DEF ReadPast
    <2> PICK d : d = thread'[t].dev
        OBVIOUS
    <2>1. CASE /\ Reading(t) /\ d = thread[t].dev
               /\ thread'[t].val = thread[t].val /\ thread'[t].stamp = thread[t].stamp
        <3>1. Past(thread[t].val, thread[t].stamp, d) /\ d \in Devices
            BY <2>1, ReadingType DEF ReadingInv, ReadPast
        <3> QED
            BY <2>1, <3>1, PastGrows, ReadingType DEF Past
    <2>2. CASE /\ d \in Devices
               /\ thread'[t].val \in {uptime[d], 0} /\ thread'[t].stamp = resets[d]
               /\ UNCHANGED <<uptime, resets, walkedHosts, stamp, proc>>
        <3>1. uptime[d] \in Int /\ 0 <= uptime[d]
            BY <2>2, ReadingType, UptimeAssumption DEF Uptimes
        <3> QED
            BY <2>2, <3>1 DEF Past, Precedes
    <2> QED
        BY <2>1, <2>2, ReadingNext
<1>4. StoredFirst'
    <2> SUFFICES ASSUME NEW t \in Threads, Fresh(t)'
                 PROVE  Precedes(Stored(thread[t].dev), stamp[thread[t].dev],
                                 thread[t].val, thread[t].stamp)'
        BY DEF StoredFirst
    <2> PICK d : d = thread'[t].dev
        OBVIOUS
    <2>0. Reading(t)' /\ thread'[t].val # 0 /\ t \notin overtaken'
        BY DEF Fresh
    <2> SUFFICES Precedes(Stored(d)', stamp'[d], thread'[t].val, thread'[t].stamp)
        BY DEF Precedes, Stored, real_time_data_for
    <2>1. CASE /\ Reading(t) /\ d = thread[t].dev
               /\ thread'[t].val = thread[t].val /\ thread'[t].stamp = thread[t].stamp
               /\ t \in overtaken => t \in overtaken'
        <3>0. Fresh(t)
            BY <2>0, <2>1 DEF Fresh
        <3>1. d \in Devices /\ Precedes(Stored(d), stamp[d], thread[t].val, thread[t].stamp)
            BY <2>1, <3>0, ReadingType DEF ReadingInv, StoredFirst
        <3>2. CASE Stored(d)' = None
            BY <3>2 DEF Precedes
        <3>3. CASE Stored(d)' = Stored(d) /\ stamp'[d] = stamp[d]
            BY <2>1, <3>1, <3>3
        <3>4. ASSUME NEW u \in Threads, ~Reading(u)', thread[u].dev = d, Overtakes(u)
              PROVE  FALSE
            BY <2>0, <2>1, <3>4 DEF Overtakes
        <3>5. ASSUME NEW w \in Workers, proc[w].pc = "describe", proc[w].task.dev = d,
                     Stored(d)' = proc[w].prev.uptime, stamp'[d] = proc[w].stamp
              PROVE  Precedes(Stored(d)', stamp'[d], thread'[t].val, thread'[t].stamp)
            BY <2>1, <3>0, <3>5 DEF ReadingInv, DescrFirst
        <3> QED
            BY <3>1, <3>2, <3>3, <3>4, <3>5, StoredNext
    <2>2. CASE /\ d \in Devices
               /\ thread'[t].val \in {uptime[d], 0} /\ thread'[t].stamp = resets[d]
               /\ UNCHANGED <<uptime, resets, walkedHosts, stamp, proc>>
        <3>1. Stored(d)' = Stored(d)
            BY <2>2 DEF Stored, real_time_data_for
        <3> QED
            BY <2>0, <2>2, <3>1 DEF ReadingInv, StoredPast, Past
    <2> QED
        BY <2>0, <2>1, <2>2, ReadingNext
<1>5. DescrFirst'
    <2> SUFFICES ASSUME NEW t \in Threads, NEW w \in Workers, Fresh(t)',
                        proc'[w].pc = "describe", proc'[w].task.dev = thread'[t].dev
                 PROVE  Precedes(proc'[w].prev.uptime, proc'[w].stamp,
                                 thread'[t].val, thread'[t].stamp)
        BY DEF DescrFirst, Precedes
    <2> PICK d : d = thread'[t].dev
        OBVIOUS
    <2>0. Reading(t)' /\ thread'[t].val # 0 /\ t \notin overtaken'
        BY DEF Fresh
    <2>1. CASE /\ Reading(t) /\ d = thread[t].dev
               /\ thread'[t].val = thread[t].val /\ thread'[t].stamp = thread[t].stamp
               /\ t \in overtaken => t \in overtaken'
        <3>0. Fresh(t)
            BY <2>0, <2>1 DEF Fresh
        <3>1. CASE /\ proc[w].pc = "describe" /\ proc'[w].task = proc[w].task
                   /\ proc'[w].prev = proc[w].prev /\ proc'[w].stamp = proc[w].stamp
            BY <2>1, <3>0, <3>1 DEF ReadingInv, DescrFirst
        <3>2. CASE proc'[w].prev.uptime = Stored(d) /\ proc'[w].stamp = stamp[d]
            BY <2>1, <3>0, <3>2 DEF ReadingInv, StoredFirst
        <3> QED
            BY <3>1, <3>2, DescrNext
    <2>2. CASE /\ d \in Devices
               /\ thread'[t].val \in {uptime[d], 0} /\ thread'[t].stamp = resets[d]
               /\ UNCHANGED <<uptime, resets, walkedHosts, stamp, proc>>
        BY <2>0, <2>2 DEF ReadingInv, DescrPast, Past
    <2> QED
        BY <2>0, <2>1, <2>2, ReadingNext
<1> QED
    BY <1>1, <1>2, <1>3, <1>4, <1>5 DEF ReadingInv

LEMMA ReadingInit == Init => ReadingInv
<1> SUFFICES ASSUME Init PROVE ReadingInv
    OBVIOUS
<1>1. \A d \in Devices : Stored(d) = None
    BY DEF Init, Stored, real_time_data_for, NoData
<1>2. \A t \in Threads : ~Reading(t)
    BY LocalsType DEF Init, Reading
<1>3. \A w \in Workers : proc[w].pc # "describe"
    BY LocalsType DEF Init
<1> QED
    BY <1>1, <1>2, <1>3 DEF ReadingInv, StoredPast, DescrPast, ReadPast,
        StoredFirst, DescrFirst, Fresh, Past, Precedes

(* should_redo_walk asks for a second walk only after a reset of the device's
   counter, a reading without an answer, or a reading during which another
   realtime task has stored its own: what is stored otherwise, by an earlier
   realtime task or by a worker that stores the description, never comes from
   after the reading it is compared with.  automatic_realtime_job does not wait
   for the previous task, and any number of them may overlap. *)
THEOREM RedoCorrect == Spec => RedoExplained
<1> DEFINE Redo(t) == At(t, "compare") /\ thread'[t].pc = "schedule" =>
                          \/ stamp[thread[t].dev] < thread[t].stamp
                          \/ thread[t].val = 0
                          \/ t \in overtaken
<1>1. ASSUME TypeInv, ReadingInv, [Next]_vars, NEW t \in Threads
      PROVE  Redo(t)
    <2> SUFFICES ASSUME At(t, "compare"), thread'[t].pc = "schedule", thread[t].val # 0,
                        t \notin overtaken
                 PROVE  stamp[thread[t].dev] < thread[t].stamp
        OBVIOUS
    <2> DEFINE d == thread[t].dev
    <2>1. Fresh(t) /\ d \in Devices
        BY <1>1, ReadingType DEF At, Reading, Fresh
    <2>2. Stored(d) # None /\ Stored(d) > thread[t].val
        <3>1. thread \in [Threads -> ThreadStates] /\ thread[t] \in ThreadStates
            BY <1>1 DEF TypeInv, TypeOK
        <3>2. Compare(t)
            <4>1. ASSUME NEW u \in Threads, RealtimeTask(u) \/ RealtimeFails(u), u # t
                  PROVE  thread'[t] = thread[t]
                BY <3>1, <4>1 DEF RealtimeTask, RealtimeFails, StartRealtime, NextLine,
                    EndRealtime, ReadUptime, ReadFlag, Compare, ScheduleWalk, AddHost,
                    ReadPrevious, WriteUptime, MarkWalked
            <4>2. CASE RealtimeFails(t)
                BY <3>1, <4>2, LocalsType DEF RealtimeFails
            <4>3. CASE RealtimeTask(t)
                BY <4>3 DEF At, RealtimeTask, StartRealtime, NextLine, EndRealtime,
                    ReadUptime, ReadFlag, ScheduleWalk, AddHost, ReadPrevious,
                    WriteUptime, MarkWalked
            <4>4. CASE Crash
                BY <4>4, LocalsType DEF Crash
            <4>5. CASE ~Crash /\ \A u \in Threads : ~RealtimeTask(u) /\ ~RealtimeFails(u)
                <5>1. thread' = thread
                    BY <1>1, <4>5 DEF Next, vars, mongo, inventory, device, history, counters,
                        Scheduler, onetime_task, ReadUnwalked, ScheduleRetry, Clean,
                        DeleteHost, DeleteUnwalked, Tick, Restart, Outage, Recover,
                        Edit, Worker, TakeTask, ReadForDescr, WriteDescr, WalkError,
                        WalkComplete, WalkAborted
                <5> QED
                    BY <5>1 DEF At
            <4> QED
                BY <1>1, <4>1, <4>2, <4>3, <4>4, <4>5 DEF At
        <3> QED
            BY <3>1, <3>2 DEF Compare, Stored, ThreadStates
    <2>3. Precedes(Stored(d), stamp[d], thread[t].val, thread[t].stamp)
        BY <1>1, <2>1 DEF ReadingInv, StoredFirst
    <2>4. Stored(d) \in Int /\ thread[t].val \in Int
        BY <1>1, <2>1, <2>2, ReadingType, UptimeAssumption DEF Uptimes
    <2> QED
        BY <2>2, <2>3, <2>4 DEF Precedes
<1>2. TypeInv /\ ReadingInv /\ [Next]_vars => [\A t \in Threads : Redo(t)]_vars
    BY <1>1
<1> QED
    BY TypeInit, TypeNext, ReadingInit, ReadingKept, <1>2, PTL DEF Spec, RedoExplained

=============================================================================
