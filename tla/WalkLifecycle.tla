--------------------------- MODULE WalkLifecycle ---------------------------
(***************************************************************************)
(* The walk of a whole device, from the realtime task of the scheduler to  *)
(* the documents the workers leave in Mongo (manager/poller_utilities.py,  *)
(* manager/tasks.py, manager/task_utilities.py, mongo.py).                 *)
(*                                                                         *)
(* A realtime thread reads every device's uptime and, when the device is   *)
(* new or its uptime went back, adds a one-time job to schedule.jobs.  The *)
(* main thread runs the job, which puts a task on the Celery queue.  A     *)
(* worker walks the device, storing its description on the way, and        *)
(* records a failed first walk as "unwalked"; the one-time task turns the  *)
(* unwalked documents into retries.  Each call to Mongo is a step: there   *)
(* are no transactions, and a document is read, changed in memory and      *)
(* written back.                                                           *)
(*                                                                         *)
(* Jobs and tasks are counted by device and flag; Celery acknowledges a    *)
(* task when a worker takes it, so one that fails is not delivered again.  *)
(***************************************************************************)
EXTENDS Integers, FiniteSets

CONSTANTS
    Devices,      \* return_database_id of the hosts
    Threads,      \* identities of realtime threads
    Workers,      \* Celery worker processes
    None,
    MaxUptime,    \* sysUpTime counts from 0 to MaxUptime and wraps
    MaxQueued,    \* bound: jobs, and tasks, of one device and flag
    MaxTicks,     \* bound: ticks of the devices' clocks
    MaxRestarts,  \* bound: restarts of devices
    MaxOutages,   \* bound: times a device stops answering
    MaxFaults,    \* bound: crashes and exceptions
    MaxEdits      \* bound: inventory edits

ASSUME UptimeAssumption == MaxUptime \in Nat
ASSUME BoundsAssumption ==
    {MaxQueued, MaxTicks, MaxRestarts, MaxOutages, MaxFaults, MaxEdits} \subseteq Nat

Flags == {"first_time", "after_fail"}          \* OnetimeFlag
Tasks == [dev : Devices, flag : Flags]
Uptimes == 0 .. MaxUptime

(* A document of walked_hosts: the flag onetime_walk, and what
   MIB-REAL-TIME-DATA holds: an uptime and whether sysDescr is there. *)
Realtime  == [uptime : Uptimes \cup {None}, descr : BOOLEAN]
Documents == [walked : BOOLEAN, data : Realtime]
NoData    == [uptime |-> None, descr |-> FALSE]

ASSUME NoneAssumption == None \notin Devices \cup Uptimes \cup Tasks \cup Documents

VARIABLES
    listed,     \* devices of the inventory file
    toClean,    \* devices with jobs that the file does not list any more
    cleaning,   \* the device whose document the main thread has just deleted
    up,         \* devices that answer
    uptime,     \* sysUpTime of each device
    resets,     \* history: how often that counter went back to 0
    walkedHosts,   \* the collection of walked hosts: a document or None
    unwalkedHosts, \* the collection of unwalked hosts
    onetime,    \* schedule.jobs: number of onetime_task jobs per task
    retries,    \* unwalked hosts the one-time thread has still to schedule
    queue,      \* Celery: number of snmp_polling tasks per task
    thread,     \* state of each realtime thread
    proc,       \* state of each worker process
    done,       \* history: devices walked to the end since their document was deleted
    lost,       \* history: devices whose walk a crash or a deletion may have lost
    stamp,      \* history: resets of the device when the stored uptime was read
    overtaken,  \* history: threads that hold a reading of a device while another
                \* thread has stored one of its own
    ticks, restarts, outages, faults, edits

inventory == <<listed, toClean, cleaning>>
device   == <<up, uptime, resets>>
mongo    == <<walkedHosts, unwalkedHosts>>
history  == <<done, lost, overtaken>>
counters == <<ticks, restarts, outages, faults, edits>>
vars == <<inventory, device, mongo, onetime, retries, queue, thread, proc, history,
          stamp, counters>>

ThreadPcs == {"off", "next", "uptime", "walked", "compare", "schedule", "add", "prev",
              "write", "mark"}
WorkerPcs == {"idle", "walk", "describe", "end"}

(* The local variables of automatic_realtime_task: the lines still to read, the
   device, its uptime (0 for no answer), host_already_walked, should_do_walk and
   prev_content.  stamp is history: the resets when the uptime was read. *)
ThreadStates == [pc : ThreadPcs, todo : SUBSET Devices, dev : Devices \cup {None},
                 val : Uptimes, walked : BOOLEAN, walk : BOOLEAN, prev : Realtime,
                 stamp : Nat]
(* Those of a worker: its task and the prev_content of extract_data_to_mongo. *)
WorkerStates == [pc : WorkerPcs, task : Tasks \cup {None}, prev : Realtime, stamp : Nat]

Between(todo) == [pc |-> "next", todo |-> todo, dev |-> None, val |-> 0,
                  walked |-> FALSE, walk |-> FALSE, prev |-> NoData, stamp |-> 0]
Off  == [Between({}) EXCEPT !.pc = "off"]
Idle == [pc |-> "idle", task |-> None, prev |-> NoData, stamp |-> 0]

TypeOK ==
    /\ listed \subseteq Devices /\ toClean \subseteq Devices /\ up \subseteq Devices
    /\ uptime \in [Devices -> Uptimes] /\ resets \in [Devices -> Nat]
    /\ walkedHosts \in [Devices -> Documents \cup {None}]
    /\ unwalkedHosts \subseteq Devices
    /\ onetime \in [Tasks -> Nat] /\ queue \in [Tasks -> Nat]
    /\ retries \subseteq Devices /\ cleaning \in Devices \cup {None}
    /\ thread \in [Threads -> ThreadStates]
    /\ proc \in [Workers -> WorkerStates]
    /\ done \subseteq Devices /\ lost \subseteq Devices
    /\ stamp \in [Devices -> Nat] /\ overtaken \subseteq Threads
    /\ {ticks, restarts, outages, faults, edits} \subseteq Nat

NoTasks == [k \in Tasks |-> 0]

Init ==
    /\ listed \in SUBSET Devices /\ toClean = {} /\ cleaning = None /\ up = Devices
    /\ uptime \in [Devices -> Uptimes] /\ resets = [d \in Devices |-> 0]
    /\ walkedHosts = [d \in Devices |-> None] /\ unwalkedHosts = {}
    /\ onetime = NoTasks /\ queue = NoTasks /\ retries = {}
    /\ thread = [t \in Threads |-> Off]
    /\ proc = [w \in Workers |-> Idle]
    /\ done = {} /\ lost = {} /\ overtaken = {}
    /\ stamp = [d \in Devices |-> 0]
    /\ ticks = 0 /\ restarts = 0 /\ outages = 0 /\ faults = 0 /\ edits = 0

-----------------------------------------------------------------------------
(* Calls to Mongo: mongo.py. *)

HasFlag(d) == walkedHosts[d] # None /\ walkedHosts[d].walked
real_time_data_for(d) == IF walkedHosts[d] = None THEN NoData ELSE walkedHosts[d].data

(* No upsert: nothing is stored when the document does not exist. *)
update_real_time_data_for(d, data, s) ==
    IF walkedHosts[d] = None
    THEN UNCHANGED <<walkedHosts, stamp>>
    ELSE /\ walkedHosts' = [walkedHosts EXCEPT ![d].data = data]
         /\ stamp' = [stamp EXCEPT ![d] = s]

(* Upsert: a document that was deleted comes back with the flag alone. *)
update_walked_host(d) ==
    walkedHosts' = [walkedHosts EXCEPT ![d] =
        [walked |-> TRUE, data |-> real_time_data_for(d)]]

Add(bag, k) == [bag EXCEPT ![k] = @ + 1]
Remove(bag, k) == [bag EXCEPT ![k] = @ - 1]
Task(d, f) == [dev |-> d, flag |-> f]

-----------------------------------------------------------------------------
(* A realtime thread: automatic_realtime_task. *)

At(t, pc) == thread[t].pc = pc

(* It has read the uptime of its device and not written it yet. *)
Reading(t) == thread[t].pc \in {"walked", "compare", "schedule", "add", "prev", "write"}

(* automatic_realtime_job starts it and does not wait for the previous one. *)
StartRealtime(t) ==
    /\ At(t, "off")
    /\ thread' = [thread EXCEPT ![t] = Between(listed)]
    /\ UNCHANGED <<inventory, device, mongo, onetime, retries, queue, proc, history,
                   stamp, counters>>

(* parse_inventory_file yields the next line. *)
NextLine(t) ==
    /\ At(t, "next")
    /\ \E d \in thread[t].todo :
        thread' = [thread EXCEPT ![t].pc = "uptime", ![t].dev = d, ![t].todo = @ \ {d}]
    /\ UNCHANGED <<inventory, device, mongo, onetime, retries, queue, proc, history,
                   stamp, counters>>

EndRealtime(t) ==
    /\ At(t, "next") /\ thread[t].todo = {}
    /\ thread' = [thread EXCEPT ![t] = Off]
    /\ UNCHANGED <<inventory, device, mongo, onetime, retries, queue, proc, history,
                   stamp, counters>>

(* _extract_sys_uptime_instance: without an answer the value stays 0. *)
ReadUptime(t) ==
    /\ At(t, "uptime")
    /\ LET d == thread[t].dev IN
        thread' = [thread EXCEPT ![t].pc = "walked",
                                 ![t].val = IF d \in up THEN uptime[d] ELSE 0,
                                 ![t].stamp = resets[d]]
    /\ overtaken' = overtaken \ {t}
    /\ UNCHANGED <<inventory, device, mongo, onetime, retries, queue, proc, done, lost,
                   stamp, counters>>

(* _walk_info: first the flag, then, if it is set, the stored uptime. *)
ReadFlag(t) ==
    /\ At(t, "walked")
    /\ LET already == HasFlag(thread[t].dev) IN
        thread' = [thread EXCEPT ![t].pc = IF already THEN "compare" ELSE "schedule",
                                 ![t].walked = already, ![t].walk = ~already]
    /\ UNCHANGED <<inventory, device, mongo, onetime, retries, queue, proc, history,
                   stamp, counters>>

\* Mutant: an uptime equal to the stored one counts as a restart.
CompareNotLess(t) ==
    /\ At(t, "compare")
    /\ LET stored == real_time_data_for(thread[t].dev).uptime
           redo == stored # None /\ stored >= thread[t].val IN
        thread' = [thread EXCEPT ![t].pc = IF redo THEN "schedule" ELSE "prev",
                                 ![t].walk = redo]
    /\ UNCHANGED <<inventory, device, mongo, onetime, retries, queue, proc, history,
                   stamp, counters>>

(* should_redo_walk: the stored uptime is greater than the one just read. *)
Compare(t) ==
    /\ At(t, "compare")
    /\ LET stored == real_time_data_for(thread[t].dev).uptime
           redo == stored # None /\ stored > thread[t].val IN
        thread' = [thread EXCEPT ![t].pc = IF redo THEN "schedule" ELSE "prev",
                                 ![t].walk = redo]
    /\ UNCHANGED <<inventory, device, mongo, onetime, retries, queue, proc, history,
                   stamp, counters>>

(* schedule.every().second.do(onetime_task, ..); the job that forces an
   inventory refresh two minutes later is in PollerJobs. *)
ScheduleWalk(t) ==
    /\ At(t, "schedule")
    /\ LET k == Task(thread[t].dev, "first_time") IN
        /\ onetime[k] < MaxQueued
        /\ onetime' = Add(onetime, k)
    /\ thread' = [thread EXCEPT ![t].pc = IF thread[t].walked THEN "prev" ELSE "add"]
    /\ UNCHANGED <<inventory, device, mongo, retries, queue, proc, history, stamp,
                   counters>>

(* _update_mongo: add_host, quiet when the document exists ... *)
AddHost(t) ==
    /\ At(t, "add")
    /\ walkedHosts' = [walkedHosts EXCEPT ![thread[t].dev] =
            IF @ = None THEN [walked |-> FALSE, data |-> NoData] ELSE @]
    /\ thread' = [thread EXCEPT ![t].pc = "prev"]
    /\ UNCHANGED <<inventory, device, unwalkedHosts, onetime, retries, queue, proc,
                   history, stamp, counters>>

\* Mutant: a missing document reads as nothing at all, not as empty data.
ReadPreviousRaw(t) ==
    /\ At(t, "prev")
    /\ thread' = [thread EXCEPT ![t].pc = "write",
                                ![t].prev = IF walkedHosts[thread[t].dev] = None THEN None
                                            ELSE real_time_data_for(thread[t].dev)]
    /\ UNCHANGED <<inventory, device, mongo, onetime, retries, queue, proc, history,
                   stamp, counters>>

(* ... the stored data is read ... *)
ReadPrevious(t) ==
    /\ At(t, "prev")
    /\ thread' = [thread EXCEPT ![t].pc = "write",
                                ![t].prev = real_time_data_for(thread[t].dev)]
    /\ UNCHANGED <<inventory, device, mongo, onetime, retries, queue, proc, history,
                   stamp, counters>>

(* ... and written back with the new uptime. *)
WriteUptime(t) ==
    /\ At(t, "write")
    /\ LET l == thread[t] IN
        /\ update_real_time_data_for(l.dev, [l.prev EXCEPT !.uptime = l.val], l.stamp)
        /\ thread' = [thread EXCEPT ![t] =
               IF l.walk THEN [Between(l.todo) EXCEPT !.pc = "mark", !.dev = l.dev,
                                                      !.walk = TRUE]
                         ELSE Between(l.todo)]
        /\ overtaken' = IF walkedHosts[l.dev] = None THEN overtaken \ {t}
                        ELSE (overtaken \cup {u \in Threads : Reading(u)
                                                 /\ thread[u].dev = l.dev}) \ {t}
    /\ UNCHANGED <<inventory, device, unwalkedHosts, onetime, retries, queue, proc,
                   done, lost, counters>>

(* The flag is set last. *)
MarkWalked(t) ==
    /\ At(t, "mark")
    /\ update_walked_host(thread[t].dev)
    /\ thread' = [thread EXCEPT ![t] = Between(thread[t].todo)]
    /\ UNCHANGED <<inventory, device, unwalkedHosts, onetime, retries, queue, proc,
                   history, stamp, counters>>

(* An exception: the thread logs it and gives up the rest of the inventory. *)
RealtimeFails(t) ==
    /\ ~At(t, "off") /\ faults < MaxFaults /\ faults' = faults + 1
    /\ thread' = [thread EXCEPT ![t] = Off]
    /\ UNCHANGED <<inventory, device, mongo, onetime, retries, queue, proc, history,
                   stamp, ticks, restarts, outages, edits>>

RealtimeTask(t) ==
    \/ StartRealtime(t) \/ NextLine(t) \/ EndRealtime(t) \/ ReadUptime(t)
    \/ ReadFlag(t) \/ Compare(t) \/ ScheduleWalk(t) \/ AddHost(t)
    \/ ReadPrevious(t) \/ WriteUptime(t) \/ MarkWalked(t)

-----------------------------------------------------------------------------
(* The scheduler's one-time jobs. *)

(* onetime_task: a job of the main thread that queues its task and is cancelled. *)
onetime_task ==
    /\ cleaning = None
    /\ \E k \in Tasks :
        /\ onetime[k] > 0 /\ queue[k] < MaxQueued
        /\ onetime' = Remove(onetime, k)
        /\ queue' = Add(queue, k)
    /\ UNCHANGED <<inventory, device, mongo, retries, thread, proc, history, stamp,
                   counters>>

(* automatic_onetime_task: a thread reads the unwalked hosts ... *)
ReadUnwalked ==
    /\ retries = {} /\ unwalkedHosts # {}
    /\ retries' = unwalkedHosts
    /\ UNCHANGED <<inventory, device, mongo, onetime, queue, thread, proc, history,
                   stamp, counters>>

\* Mutants: the retry is dropped; it carries the flag of a first walk.
ScheduleRetryDropped ==
    /\ \E d \in retries : retries' = retries \ {d}
    /\ UNCHANGED <<inventory, device, mongo, onetime, queue, thread, proc, history, stamp,
                   counters>>

ScheduleRetryFirst ==
    /\ \E d \in retries :
        /\ onetime[Task(d, "first_time")] < MaxQueued
        /\ retries' = retries \ {d}
        /\ onetime' = Add(onetime, Task(d, "first_time"))
    /\ UNCHANGED <<inventory, device, mongo, queue, thread, proc, history, stamp, counters>>

(* ... and adds a job for each, whether or not an earlier retry is pending. *)
ScheduleRetry ==
    /\ \E d \in retries :
        /\ onetime[Task(d, "after_fail")] < MaxQueued
        /\ retries' = retries \ {d}
        /\ onetime' = Add(onetime, Task(d, "after_fail"))
    /\ UNCHANGED <<inventory, device, mongo, queue, thread, proc, history, stamp, counters>>

-----------------------------------------------------------------------------
(* A worker: snmp_polling of the whole tree, walk_handler. *)

TakeTask(w) ==
    /\ proc[w].pc = "idle"
    /\ \E k \in Tasks :
        /\ queue[k] > 0
        /\ queue' = Remove(queue, k)
        /\ proc' = [proc EXCEPT ![w].pc = "walk", ![w].task = k]
    /\ UNCHANGED <<inventory, device, mongo, onetime, retries, thread, history, stamp,
                   counters>>

(* extract_data_to_mongo on sysDescr: read the stored data ... *)
ReadForDescr(w) ==
    /\ proc[w].pc = "walk" /\ proc[w].task.dev \in up
    /\ LET d == proc[w].task.dev IN
        proc' = [proc EXCEPT ![w].pc = "describe", ![w].prev = real_time_data_for(d),
                             ![w].stamp = stamp[d]]
    /\ UNCHANGED <<inventory, device, mongo, onetime, retries, queue, thread, history,
                   stamp, counters>>

(* ... and write it back with the description. *)
WriteDescr(w) ==
    /\ proc[w].pc = "describe"
    /\ LET l == proc[w] IN
        /\ update_real_time_data_for(l.task.dev, [l.prev EXCEPT !.descr = TRUE], l.stamp)
        /\ proc' = [proc EXCEPT ![w] = [l EXCEPT !.pc = "end", !.prev = NoData,
                                                 !.stamp = 0]]
    /\ UNCHANGED <<inventory, device, unwalkedHosts, onetime, retries, queue, thread,
                   history, counters>>

\* Mutant: the two flags are swapped when a failure is recorded.
WalkErrorSwapped(w) ==
    /\ proc[w].pc \in {"walk", "end"} /\ proc[w].task.dev \notin up
    /\ unwalkedHosts' = IF proc[w].task.flag = "after_fail"
                        THEN unwalkedHosts \cup {proc[w].task.dev} ELSE unwalkedHosts
    /\ proc' = [proc EXCEPT ![w] = Idle]
    /\ UNCHANGED <<inventory, device, walkedHosts, onetime, retries, queue, thread,
                   history, stamp, counters>>

\* Mutant: a first walk that fails before the description is not recorded.
WalkErrorLate(w) ==
    /\ proc[w].pc \in {"walk", "end"} /\ proc[w].task.dev \notin up
    /\ unwalkedHosts' = IF proc[w].task.flag = "first_time" /\ proc[w].pc = "end"
                        THEN unwalkedHosts \cup {proc[w].task.dev} ELSE unwalkedHosts
    /\ proc' = [proc EXCEPT ![w] = Idle]
    /\ UNCHANGED <<inventory, device, walkedHosts, onetime, retries, queue, thread,
                   history, stamp, counters>>

(* process_one_time_flag.  The device stopped answering: a first walk is
   recorded (insert_one raises when it is there already, which changes
   nothing), a retry leaves the record ... *)
WalkError(w) ==
    /\ proc[w].pc \in {"walk", "end"} /\ proc[w].task.dev \notin up
    /\ unwalkedHosts' = IF proc[w].task.flag = "first_time"
                        THEN unwalkedHosts \cup {proc[w].task.dev} ELSE unwalkedHosts
    /\ proc' = [proc EXCEPT ![w] = Idle]
    /\ UNCHANGED <<inventory, device, walkedHosts, onetime, retries, queue, thread,
                   history, stamp, counters>>

(* ... or the walk reached the end: a retry deletes the record. *)
WalkComplete(w) ==
    /\ proc[w].pc = "end" /\ proc[w].task.dev \in up
    /\ unwalkedHosts' = IF proc[w].task.flag = "after_fail"
                        THEN unwalkedHosts \ {proc[w].task.dev} ELSE unwalkedHosts
    /\ done' = done \cup {proc[w].task.dev}
    /\ proc' = [proc EXCEPT ![w] = Idle]
    /\ UNCHANGED <<inventory, device, walkedHosts, onetime, retries, queue, thread, lost,
                   overtaken, stamp, counters>>

(* An exception in the handler, HEC not answering in time among others, or the
   death of the worker: neither outcome is recorded. *)
WalkAborted(w) ==
    /\ proc[w].pc # "idle" /\ faults < MaxFaults /\ faults' = faults + 1
    /\ lost' = IF proc[w].task.flag = "first_time" THEN lost \cup {proc[w].task.dev}
                                                   ELSE lost
    /\ proc' = [proc EXCEPT ![w] = Idle]
    /\ UNCHANGED <<inventory, device, mongo, onetime, retries, queue, thread, done,
                   overtaken, stamp, ticks, restarts, outages, edits>>

Worker(w) == TakeTask(w) \/ ReadForDescr(w) \/ WriteDescr(w) \/ WalkError(w)
                \/ WalkComplete(w)

-----------------------------------------------------------------------------
(* The devices and the network. *)

(* The counter advances; it has 32 bits and wraps. *)
Tick ==
    /\ ticks < MaxTicks /\ ticks' = ticks + 1
    /\ \E d \in Devices :
        /\ uptime' = [uptime EXCEPT ![d] = (@ + 1) % (MaxUptime + 1)]
        /\ resets' = IF uptime[d] = MaxUptime THEN [resets EXCEPT ![d] = @ + 1] ELSE resets
    /\ UNCHANGED <<inventory, up, mongo, onetime, retries, queue, thread, proc,
                   history, stamp, restarts, outages, faults, edits>>

Restart ==
    /\ restarts < MaxRestarts /\ restarts' = restarts + 1
    /\ \E d \in Devices :
        /\ uptime' = [uptime EXCEPT ![d] = 0]
        /\ resets' = [resets EXCEPT ![d] = @ + 1]
    /\ UNCHANGED <<inventory, up, mongo, onetime, retries, queue, thread, proc,
                   history, stamp, ticks, outages, faults, edits>>

(* The device, or the path to it, does not answer, and does again. *)
Outage ==
    /\ outages < MaxOutages /\ outages' = outages + 1
    /\ \E d \in up : up' = up \ {d}
    /\ UNCHANGED <<inventory, uptime, resets, mongo, onetime, retries, queue, thread,
                   proc, history, stamp, ticks, restarts, faults, edits>>

Recover ==
    /\ \E d \in Devices \ up : up' = up \cup {d}
    /\ UNCHANGED <<inventory, uptime, resets, mongo, onetime, retries, queue, thread,
                   proc, history, stamp, counters>>

-----------------------------------------------------------------------------
(* The inventory and the scheduler process. *)

Edit ==
    /\ edits < MaxEdits /\ edits' = edits + 1
    /\ \E d \in Devices :
        \/ d \in listed /\ listed' = listed \ {d} /\ toClean' = toClean \cup {d}
        \/ d \notin listed /\ listed' = listed \cup {d} /\ toClean' = toClean \ {d}
    /\ UNCHANGED <<cleaning, device, mongo, onetime, retries, queue, thread, proc,
                   history, stamp, ticks, restarts, outages, faults>>

(* Threads that have scheduled the walk of d and not set its flag yet. *)
Marking(d) == {t \in Threads : thread[t].dev = d /\ thread[t].walk
                                /\ thread[t].pc \in {"add", "prev", "write", "mark"}}

(* clean_job_inventory of a refresh, which the main thread does as it runs the
   jobs: delete_host for a device ... *)
DeleteHost ==
    /\ cleaning = None
    /\ \E d \in toClean :
        /\ toClean' = toClean \ {d} /\ cleaning' = d
        /\ walkedHosts' = [walkedHosts EXCEPT ![d] = None]
        /\ done' = done \ {d}
        /\ lost' = IF Marking(d) = {} THEN lost \ {d} ELSE lost \cup {d}
    /\ UNCHANGED <<listed, device, unwalkedHosts, onetime, retries, queue, thread, proc,
                   overtaken, stamp, counters>>

(* ... then delete_onetime_walk_result.  Where the device was marked again in
   between, or is about to be, this deletes the only trace of a failure. *)
DeleteUnwalked ==
    /\ cleaning # None
    /\ unwalkedHosts' = unwalkedHosts \ {cleaning} /\ cleaning' = None
    /\ lost' = IF cleaning \in unwalkedHosts /\ (HasFlag(cleaning) \/ Marking(cleaning) # {})
               THEN lost \cup {cleaning} ELSE lost
    /\ UNCHANGED <<listed, toClean, device, walkedHosts, onetime, retries, queue, thread,
                   proc, done, overtaken, stamp, counters>>

Clean == DeleteHost \/ DeleteUnwalked

(* The scheduler dies and is started again; Mongo and Celery's broker survive. *)
Crash ==
    /\ faults < MaxFaults /\ faults' = faults + 1
    /\ lost' = lost \cup {d \in Devices : onetime[Task(d, "first_time")] > 0}
    /\ onetime' = NoTasks /\ retries' = {} /\ toClean' = {} /\ cleaning' = None
    /\ thread' = [t \in Threads |-> Off]
    /\ UNCHANGED <<listed, device, mongo, queue, proc, done, overtaken, stamp, ticks,
                   restarts, outages, edits>>

Scheduler == onetime_task \/ ReadUnwalked \/ ScheduleRetry \/ Clean

Next ==
    \/ Scheduler
    \/ \E t \in Threads : RealtimeTask(t) \/ RealtimeFails(t)
    \/ \E w \in Workers : Worker(w) \/ WalkAborted(w)
    \/ Tick \/ Restart \/ Outage \/ Recover \/ Edit \/ Crash

Spec == Init /\ [][Next]_vars

(* The scheduler is kept running and each of its jobs comes due; the queue is
   first in, first out, so each task is taken, and a worker goes on with the one
   it has; an outage ends. *)
Queued(k) == onetime_task /\ onetime'[k] < onetime[k]
Taken(k)  == \E w \in Workers : TakeTask(w) /\ proc'[w].task = k

FairSpec ==
    /\ Spec
    /\ WF_vars(ReadUnwalked) /\ WF_vars(ScheduleRetry)
    /\ WF_vars(Clean) /\ WF_vars(Recover)
    /\ \A k \in Tasks : WF_vars(Queued(k)) /\ SF_vars(Taken(k))
    /\ \A t \in Threads : WF_vars(RealtimeTask(t))
    /\ \A w \in Workers : WF_vars(ReadForDescr(w) \/ WriteDescr(w) \/ WalkError(w)
                                       \/ WalkComplete(w))

-----------------------------------------------------------------------------
(* Properties. *)

FirstWalk(d) == Task(d, "first_time")
Outstanding(d) == \/ onetime[FirstWalk(d)] > 0 \/ queue[FirstWalk(d)] > 0
                  \/ \E w \in Workers : proc[w].task = FirstWalk(d)

(* The flag onetime_walk stops a device from ever being new again.  It is set
   only while the first walk is on its way, or has reached the end, or has
   failed and is recorded to be retried -- apart from the walks that a dying
   scheduler, an exception in a worker, or a document deleted between the
   scheduling and the flag, has lost. *)
WalkNotForgotten ==
    \A d \in Devices :
        HasFlag(d) => Outstanding(d) \/ d \in done \cup unwalkedHosts \cup lost

(* Every step of the threads, workers and documents keeps the promises of
   WalkPromise: what is marked is owed, done, recorded or lost, and what is owed
   ends as one of these; the rest is invisible there. *)
Promise == INSTANCE WalkPromise WITH
               marked <- {d \in Devices : HasFlag(d)},
               owed   <- {d \in Devices : Outstanding(d)},
               failed <- unwalkedHosts,
               walked <- done

KeepsPromise == Promise!Spec

(* A device that was walked before is walked again only if its uptime counter
   went back to 0 after the stored reading was taken. *)
RedoOnlyAfterReset ==
    [][\A t \in Threads : At(t, "compare") /\ thread'[t].pc = "schedule" =>
          stamp[thread[t].dev] < thread[t].stamp]_vars

(* The other reasons are a reading without an answer, which is 0 -- the stored
   uptime an earlier one has left behind, 0 too, never asks for a walk -- and one
   that is overtaken: realtime tasks overlap, and before this one compares, another
   has stored a reading of the device. *)
RedoExplained ==
    [][\A t \in Threads : At(t, "compare") /\ thread'[t].pc = "schedule" =>
          \/ stamp[thread[t].dev] < thread[t].stamp
          \/ thread[t].val = 0
          \/ t \in overtaken]_vars

(* A listed device is walked to the end, unless a crash, an exception in a
   worker or a deletion lost its first walk. *)
WalkedOrLost ==
    \A d \in Devices : d \in listed ~> d \in done \cup lost \/ d \notin listed

(* "executing an SNMPWALK when we discover an host for the first time": a
   listed device is walked to the end. *)
DiscoveredIsWalked ==
    \A d \in Devices : d \in listed ~> d \in done \/ d \notin listed

(* A failed first walk is retried until it succeeds, across restarts of the
   scheduler and exceptions in the workers, or until the host is removed. *)
UnwalkedIsRetried ==
    \A d \in Devices : d \in unwalkedHosts ~> d \notin unwalkedHosts

=============================================================================
