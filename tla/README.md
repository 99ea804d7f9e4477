# Splunk Connect for SNMP poller: a TLA+ verification project

The poller reads an inventory of SNMP devices, polls each on a schedule through
Celery workers and sends what it gets to Splunk. This directory models its
scheduling and walking protocols in TLA+, checks them with TLC on small
instances, and proves the most important safety properties with TLAPS.

Paths below are relative to `src/splunk_connect_for_snmp_poller/`; `schedule`
is version 1.1.0, pysnmp 4.4.12, Celery 5.1.2.

## 1. Inventory of the system

| Part | Where | State it keeps | Operations |
|---|---|---|---|
| Job table | `manager/poller.py` 101-311 | `schedule.jobs`, `_jobs_map`, `_dynamic_jobs`, the two modification times, `_force_refresh` | refresh from the inventory: new, changed, duplicate, dynamic and removed entries |
| Profile matching | `poller.py` 348-398, `profile_matching.py` | `_unmatched_devices`, `_lock` | add a device; a periodic thread matches waiting devices |
| Realtime task, one-time walks | `poller_utilities.py` 66-105, 139-291, `realtime/real_time_data.py` | one-time jobs; flag and realtime data in Mongo | a periodic thread reads uptimes, decides on walks; another retries unwalked hosts |
| Walk in a worker | `tasks.py` 116-240, `task_utilities.py` 444-542 | documents of Mongo | walk the tree, store the description, record the outcome |
| Mongo repository | `mongo.py` | `walked_hosts`, `unwalked_hosts` | single-document reads and writes, some with upsert |
| Main loop | `poller.py` 89-99, `snmp_poller_server.py` | refresh counter, `next_run` of each job | one iteration per second |
| Enricher | `poller.py` 159-195, 205-210, 246-270, `poller_utilities.py` 294-398 | `_enricher_jobs_map`, `_old_enricher`, MIB-STATIC-DATA | add jobs and static data per host, compare configurations |
| Poll handlers | `task_utilities.py` 216-441, 545-657, `tasks.py` 44-108 | none | GET, BULK, WALK; failure checks; enrichment |
| Translation, Splunk | `task_utilities.py` 67-204, `hec_sender.py`, `mib_server_client.py` | none | translate, choose event or metric, post |
| Interface enrichment | `static/`, `realtime/interface_mib.py` | none | look an interface up by the index of an OID |
| Inventory lines, profiles | `validator/`, `poller_utilities.py` 54-63, 113-136, `profile_matching.py` | none | accept a line, find its frequency, match a description |
| Credentials, Celery application, command line | `task_utilities.py` 674-861, `celery_client.py`, `snmp_poller_server.py` | none | configuration |

How the parts interact. The scheduler is one process. Its main thread runs the
refresh and, between refreshes, the due jobs of the `schedule` library. Three of
those jobs start a thread and return: the realtime task, the matching of waiting
devices, the retry of unwalked hosts. Nothing stops a thread from still running
when the next one of its kind starts. The threads add jobs to `schedule.jobs`;
only the main thread removes some. Polling jobs and one-time jobs put a task on
the Celery queue; workers, other processes, take the tasks (acknowledged when
taken), ask the device, post to Splunk, and write to Mongo. Mongo carries
information back: the description lets a device be matched, the flag
`onetime_walk` stops a second first walk, the stored uptime triggers a new walk,
an "unwalked" document triggers a retry.

What is hard here:

* threads share dictionaries, and the lock protects only one of them;
* the lock is released by whoever finds it locked in a `finally` clause;
* a refresh records modification times first and reads the files later;
* an exception leaves a matcher or a realtime thread in the middle of its work;
* documents are read, changed in memory and written back by several processes;
* some updates insert a document that was deleted, others silently do nothing;
* a crash loses the jobs and keeps the documents; a failing worker loses the task;
* a device that does not answer looks like a device that has just started;
* a handler makes several calls to other services for each value, and any may fail;
* one thread does the refreshes, the due jobs and the walks of the enricher, so each
  delays the others, and a refresh moves the time of every job;
* a name that does not resolve at the moment of a refresh looks like a removed host;
* the stored lists of interfaces are replaced piece by piece by walks that overlap,
  are interrupted, or end after their device was removed.

What makes each part correct:

* job table: between refreshes it is what the file asks for; nothing scheduled is
  beyond the reach of `_jobs_map`; nothing known of a listed host is deleted;
* matching: the lock excludes and is not leaked; a waiting device is served once
  its description is known; a dynamic device is never forgotten;
* walks: a new device is walked; one that was walked is walked again only after
  it restarted; a failed first walk is retried until it succeeds;
* polling: each value reaches Splunk once, in order, at the endpoint and index its
  meaning asks for, and what fails in one half of a profile spares the other;
* main loop: no refresh starves a job or runs it too soon, the delay of a due job is
  bounded, every edit is taken up;
* enricher: a listed device has its enricher jobs, and a metric is labelled only with
  what belongs to its own interface.

The hazards, each at its line and with the properties that watch it, are in
`PROJECT.json`.

## 2. Modules

| Module | What it is |
|---|---|
| `PollerJobs` | the refresh by the main thread and the matcher threads, with the table, the lock and the waiting devices they share |
| `MCPollerJobs` | instances of it: hosts, profiles, inventory files |
| `PollerJobsProofs` | its theorems on types, lock, map and deletion |
| `PollTable` | abstract: what the file asks for and what is polled, key by key; what the refreshes promise |
| `PollerJobsSync` | the proofs that `PollerJobs` keeps the table in step with the file and implements `PollTable`, and that no dynamic job or device is lost; the theorems of `PollTable` |
| `WalkLifecycle` | the realtime threads, the one-time jobs, the queue, the workers, the documents of Mongo, the devices |
| `MCWalkLifecycle` | symmetry and a bound on events for its instances |
| `WalkLifecycleProofs` | its theorems: types, the flag, repeated walks |
| `WalkPromise` | abstract: a device is marked, owed a walk, failed, walked, lost; what the flag promises |
| `WalkRefinement` | the proof that `WalkLifecycle` implements `WalkPromise`, and the theorems of `WalkPromise` |
| `PollHandlers` | one polling task in a worker: the handlers, the translation, the posts, with the static data other processes change |
| `MCPollHandlers` | profiles for its instances |
| `PollHandlersProofs` | its theorems on types, routing and forms |
| `PollHandlersOrder` | its theorems on order, completeness and ends |
| `PollTimer` | the main loop in time: the refresh counter, `next_run`, jobs and refreshes that block |
| `PollTimerProofs` | its theorems |
| `EnricherJobs` | the enricher: refresh, jobs, walks of IF-MIB, static data, labels |
| `MCEnricherJobs` | sections, tables of interfaces and a bound on events for its instances |
| `EnricherJobsProofs` | its theorems |

How they fit. The five models share their borders by name: what one treats as an event
of its environment is an action of another. `Describe` of `PollerJobs` is `WriteDescr`
of `WalkLifecycle`; its `force_inventory_refresh` follows `ScheduleWalk`; `DeleteHost`
and `DeleteUnwalked` of `WalkLifecycle` are the deletion in `CleanCancel`;
`DeleteStatic` of `PollHandlers` is `EnricherRemoved` or `clean_job_inventory` of
`EnricherJobs`, whose `RetryWalk` is the task `ScheduleRetry` puts on its way.
`PollTimer` says when the main thread of `PollerJobs` and `EnricherJobs` gets to do what
they let it do at any time.

Operators named after the source (`process_new_job`, `update_walked_host`, ...)
translate the function of that name. Operators introduced by a comment
"Mutant" change one definition the way a bug would; no specification uses them.

### PollerJobs

State: `jobs` is `schedule.jobs`; `jobsMap`, `dynamicJobs`, `unmatched` and
`locked` are `_jobs_map`, `_dynamic_jobs`, `_unmatched_devices` and `_lock`;
`modified` says that a file is newer than the recorded modification time;
`described` is what Mongo contributes to matching. `mpc` and `tpc` say where the
main thread and each matcher are; the other variables are their locals.

| Code | Actions |
|---|---|
| `__check_inventory`, the times, then the file | `StatFiles`, `ReadInventory` |
| its loop over the lines | `SkipUnresolved`, `SkipDuplicate`, `StaticNew`, `StaticUpdate`, `DynamicLine` |
| `delete_all_dynamic_entries_per_host` | `DropCancel`, `DropForget`, `DropUnmark`, `DropDone` |
| `add_device_for_profile_matching` | `AcquireToAdd`, `AddDevice`, `MainReleaseFails` |
| `clean_job_inventory` | `LinesDone`, `CleanCancel`, `CleanForget`, `CleanDone` |
| `process_unmatched_devices` | `Check`, `ConfigOk`, `ConfigFails`, `Acquire`, `Visit`, `Create`, `Mark`, `CreateDone`, `SizeChanged`, `ScanDone`, `Pop`, `PopDone`, `MatchFails`, `FinallyLocked`, `FinallyUnlocked`, `Release` |
| users, walks, crashes | `EditInventory`, `force_inventory_refresh`, `Describe`, `Crash` |

A step is as large as the code between two accesses to shared state that another
thread can observe. `is_conf_changed` compares tuples of different shapes and so
is always true: `StaticUpdate` always updates. `mishaps` is history: it records
the kinds of failure a property has to except, and nothing reads it. Neither does
anything read `unresolved`, the hosts whose lines the last refresh dropped because
their names did not resolve; a line dropped counts as a fault, for the bound.

`Table` maps the model to `PollTable`, for the keys that no match can give: `asked` is
what the first line of a key says, `polled` the configurations of the scheduled jobs of
the key, whether or not `_jobs_map` names them, `newer` is `modified`, `excused` are the
keys of hosts whose names did not resolve. `PollTable` may change one key at a time, only
while it applies the file, and leaves each key it touches as the file asks: so a job of
a line that stands in the file is never taken away and given back on the way.

Left out: the enricher calls of the refresh (they are in `EnricherJobs`); the checks of
a line that depend on its text alone (`Files` holds lines that pass them); profiles
that change; what a job does when it runs.

### WalkLifecycle

State: `walkedHosts` and `unwalkedHosts` are the two collections; `onetime` and
`queue` count one-time jobs and Celery tasks by device and flag; `thread` and
`proc` hold the locals of each realtime thread and worker; `up` and `uptime` are
the devices; `toClean` and `cleaning` are the devices a refresh has still to clean,
and the one it is at. `done`, `lost`, `overtaken`, `resets` and `stamp` are history:
devices walked to the end, devices whose walk was lost, realtime threads that hold a
reading of a device while another thread has stored one of its own, how often a counter
went back to 0, and that number when the stored uptime was read.

| Code | Actions |
|---|---|
| `automatic_realtime_job`, `automatic_realtime_task` | `StartRealtime`, `NextLine`, `EndRealtime`, `RealtimeFails` |
| `_extract_sys_uptime_instance` | `ReadUptime` |
| `_walk_info`, `should_redo_walk` | `ReadFlag`, `Compare` |
| the one-time job | `ScheduleWalk`, `onetime_task` |
| `_update_mongo`, the flag | `AddHost`, `ReadPrevious`, `WriteUptime`, `MarkWalked` |
| `iterate_through_unwalked_hosts_scheduler` | `ReadUnwalked`, `ScheduleRetry` |
| `snmp_polling`, `walk_handler` | `TakeTask`, `ReadForDescr`, `WriteDescr`, `WalkError`, `WalkComplete`, `WalkAborted` |
| devices | `Tick`, `Restart`, `Outage`, `Recover` |
| inventory, crash | `Edit`, `Crash` |
| `delete_host`, `delete_onetime_walk_result` in `clean_job_inventory` | `DeleteHost`, `DeleteUnwalked` |

Each call to Mongo is a step of its own. A walk is abstracted to one answer that carries
the description and one that ends it. `DeleteHost` and `DeleteUnwalked` are what a
refresh does to the documents of a device that is no longer listed, while threads and
workers go on; the one-time jobs wait, for they run in the same main thread. The table
that decides what is deleted is in `PollerJobs`, where the two calls are one step: it
has only the description. `Promise` maps the model to `WalkPromise`: a device is
`marked` when its flag is set, `owed` when a first walk of it is scheduled, queued or
running, `failed` when an unwalked document exists, `walked` and `lost` as the history
says. Left out: the posts to Splunk (their exceptions are `WalkAborted`), the small
IF-MIB walk an enricher adds to a retry (it is in `PollHandlers`), overlapping one-time
threads, the refresh scheduled two minutes after a walk (it is `force_inventory_refresh`
in `PollerJobs`).

### PollHandlers

State: `static` and `ifWalked` are MIB-STATIC-DATA and the flag `onetime_if_walk` of
the device; `mibUp` and `hec` say how the two services answer at the moment; `worker`
holds the locals of each worker: the handlers still to run (`plan`), the response being
worked on (`varbinds`), and the locals of the loop. `answered`, `posts` and `cut` are
history of the current handler: what the device said, what was handed to
`requests.post`, and whether an exception ended it.

| Code | Actions |
|---|---|
| `snmp_polling`, `sort_varbinds`, `get_snmp_data` | `PollProfile`, `PollOid`; the operators `Start`, `NextStage`, `Raise` |
| the loops of the four handlers | `Answer`, `DeviceError`, `NoMoreAnswers`; the operators `Proceed`, `HandlerEnds` |
| `_enrich_response` | `_enrich_response` |
| `get_translated_string`, `get_translation` | `Translate`, `TranslateAgain`, `TranslationFails` |
| `post_data_to_splunk_hec`, `HecSender`, `_sort_walk_data` | `Post`, `PostTimesOut`, `BuildFails` |
| the end of `walk_handler_with_enricher` | `MarkIfWalked`, `update_mib_static_data_for` |
| other processes | `MibServer`, `SplunkEndpoint`, `DeleteStatic` |

A value is abstracted to six kinds, by whether it is a number before and after
translation and by the two texts the code looks for ("error", "NoSuchInstance"). The
result of a translation is abstracted to its form: JSON of a metric, JSON of both
forms, a line of text, or a Python boolean. Of the MIB server the model takes what
the code and its tests rely on (`src/tests/test_task_utilities.py`, the docstring at
`hec_sender.py:147`): `METRIC` gives the JSON of a metric; `MULTIMETRIC` gives both
forms, of which the first call keeps `metric` and the second call everything;
`TEXT` gives a line. Left out: the content of the static data and of the events,
credentials, and what walks store in Mongo, which is in `WalkLifecycle` and
`EnricherJobs`.

### PollTimer

State: `counter` is the counter of `run()`, cut off at -1; `interval` and `due` are the
interval and `next_run` of each job, the latter as the seconds left, so that no clock
is needed and the state is finite without a bound on edits or crashes; `pending` says
that the next `__check_inventory` has something to do. `waited`, `overdue`, `shortest`
and `longest` are history: the time since the last run, the time a job is due, and the
intervals it has had since.

| Code | Actions |
|---|---|
| `run` | `NothingNew`, `NotYet`, `RunPending`, `AllRun`, `Sleep` |
| `__check_inventory`, `process_new_job`, `__update_schedule` | `RefreshBegins`, `RefreshEnds` with `NextRun` |
| a due job | `RunJob`: at once for a polling job, up to `MaxBlock` seconds for an enricher job |
| users, threads, crashes | `Edit`, `ForceRefresh`, `Crash` |

A refresh waits for the profiles of the MIB server, up to `MaxWait` seconds. The code sets
no limit: `retry_getting_mib_profile` (`mib_server_client.py:135-140`) asks again every
ten seconds until it has an answer. `MaxWait` is thus an assumption on the MIB server, and
`DelayBounded` is relative to it. Left out:
the three jobs that start threads, and the jobs of dynamic devices, which a refresh
deletes and creates anew: for these `next_run` is not kept, and refreshes that come
more often than the interval starve them.

### EnricherJobs

State: `section`, `config` and `old` are the enricher section of the file, of
`_server_config` and of `_old_enricher`; `static`, `dynamic` and `unmatched` are what
`PollerJobs` has in detail; `jobs` is `_enricher_jobs_map` with the section each job was
created with; `onetime` and `queue` hold the walks of IF-MIB; `walk` what each worker,
or the main thread, has read and stored; `ifWalked`, `stored` and `families` are the
flag and MIB-STATIC-DATA; `table` is the device.

| Code | Actions |
|---|---|
| `__check_inventory` | `RefreshBegins`, `DynamicLine`, `NewLine`, `KnownLine`, `LinesDone` |
| `check_if_new_host_was_added`, `__add_enricher_to_a_host`, `update_enricher_config` | the operators `CheckIfNew`, `AddEnricher`, `process_jobs_for_enricher`, `update_enricher_config` |
| `run_enricher_changed_check` | `EnricherRemoved`, `EnricherChanged`, `Host`, `HostsDone`, `EnricherSame` |
| `clean_job_inventory` | `clean_job_inventory` |
| enricher jobs, `onetime_task`, `snmp_polling` | `RunEnricherJob`, `RunOnetimeTask`, `TakeTask`, `RetryWalk`, `Abort` |
| `walk_handler_with_enricher` | `ReadRow`, `ColumnEnds`, `WalkEnds`, `Flag` |
| `update_mib_static_data_for` | `StoreExisting`, `StoreAdditional` |
| `MibEnricher` | the operators `Label`, `Number` |
| others | `Match`, `EditInventory`, `EditConfig`, `TableChanges`, `Crash` |

Abstractions: a device has at most one line, and its host is its id; the value of an
interface is its `ifIndex`, because the properties ask whose value a label is; a family
is in a section when it has `additionalVarBinds`; which lines a refresh takes, or drops
because the host does not resolve, is decided when it begins (`unresolved` is history,
and a dropped line counts as a failure, for the bound); a retry of a failed walk is put
on the queue directly, since the record behind it is in `WalkLifecycle`; a profile that
does not exist is in `PollerJobs`; the posts of a walk are in `PollHandlers`. `sorted`
at `interface_mib.py:68` returns a list nobody uses, so the order of a list is that of
the walk.

## 3. Runs

| Run | Question | Bounds | Result |
|---|---|---|---|
| `jobs_safety` | Do lock, map, dynamic jobs and waiting devices stay consistent? Is the table what the file asks for, and does it follow the file as `PollTable` does? | 2 matchers, 4 jobs, 3 files; 2 edits or forced refreshes, or 1 and 1 fault, only the dynamic device described (`FewEvents`) | holds |
| `jobs_live` | Does the table become what the file asks for and stay so, is only what is not listed deleted, is a described device served? | 2 matchers, 3 jobs, 2 files, 1 edit or forced refresh, 1 fault, two hosts with one document | holds |
| `jobs_overlap` | One job per device and profile? | a profile both listed and matched | violated |
| `walk_safety` | Can the flag hide a walk nobody will do? Is a walk repeated without cause? Are the promises of `WalkPromise` kept? | 1 device, 2 threads, 1 worker, a counter that wraps after 2; 1 tick and 1 restart, or 1 outage and 1 edit, and only the tick while the threads overlap (`FewEvents`) | holds |
| `walk_timeout` | Is a walk repeated only after a reset? | 1 outage | violated |
| `walk_crash` | Is every listed device walked to the end? | 1 fault | violated |
| `walk_retry` | Is every listed device walked unless its walk was lost, and a recorded failure retried until it succeeds? | 1 fault, 1 outage | holds |
| `poll_routing` | Does each value reach the right place once, in order, through all failures? | 1 worker, 6 kinds of values, 3 profiles, 2 responses | holds |
| `poll_untranslated` | Is a value sent as it is when its translation fails? | 1 worker, no enricher, Splunk answers | violated |
| `timer` | Does a refresh starve a job, or run it too soon? How long does a due job wait? Is every edit seen? | 2 polling jobs of interval 1 or 4, 1 enricher job, refresh every 2 s, blocks of up to 2 s; edits and crashes unbounded | holds |
| `enricher` | Are labels true, is every listed device enriched? | 1 device with a growing table, 1 worker, 2 sections, 2 events, 1 failure (a walk, a restart or a name that does not resolve), after all three only workers walk (`FewEvents`) | holds |
| `enricher_gap` | Are labels true on any device? | interfaces 1, 3, 4 | violated |

Why the bounds are enough. The races of `PollerJobs` are between the main thread and a
matcher, or two matchers, over one host; two matchers, two hosts and files with a static
and a dynamic entry give each pair. In `jobs_live` too there are two matchers: one that
fails before it holds the lock releases the lock of the other, and both may then iterate
over the dictionary and pop the same device, so the `KeyError` and the `RuntimeError` of
`poller.py:366` are among its behaviours. Two edits let a second one arrive while the
refresh for the first runs (`jobs_safety`); one fault at each place shows what it leaves
behind. The devices of `WalkLifecycle` share only the inventory loop, which treats one
after the other, so one device and several actors on it exhibit the races; a counter
that wraps after one or two ticks meets the boundary at once, and after a restart one
that reads up to 2 can be seen at 1, less than what is stored and not 0: the repeated
walk that only the reset explains. `walk_safety` has two realtime threads, since one is
started on each period whether or not the last one has ended; a tick between their
readings is what makes one overtake the other, and a restart or an outage during the
overlap would only add a cause that `RedoExplained` names anyway. The theorems on
`WalkLifecycle` are free of all these bounds: any number of threads, devices, events and
faults. `MaxQueued` bounds jobs and tasks of one kind, and in `walk_safety` both
together; with the one at the worker that leaves two walks of a device at a time. The
workers of `PollHandlers` share nothing but the document of the device; TLC runs one of
them against `DeleteStatic`, and the theorems cover any number. Two responses of two
columns reach every turn of the loops. In `PollTimer` an interval below and one above
the refresh interval, and blocks as long as the refresh interval, make refreshes more
frequent and less frequent than runs. In `EnricherJobs` the devices meet only in the
loops of a refresh, which treat one after the other; two events put a change of the
inventory or the section before, into and after a walk. The theorems of section 5 hold
without any of these bounds' values.

Deadlock is checked everywhere but in the runs of `EnricherJobs`: without a section, with
nothing to refresh and with the events and failures of the bounds spent, the modelled
part of the system has nothing to do.

What the five violated properties show:

* `OneJobPerKey` (`poller.py:288`). The refresh rejects a second line with the same
  key because one "cannot use the same profile twice for the same device". A
  profile that is listed for a host and also matched for it gets two jobs:
  `process_new_job` overwrites the entry and the first job polls for ever.
* `RedoOnlyAfterReset` with outages (`poller_utilities.py:158`). A request that
  times out leaves uptime 0, smaller than any stored one. The comment in
  `real_time_data.py:37` means a device that was re-deployed.
* `DiscoveredIsWalked` with a fault (`poller_utilities.py:289`). The flag is
  persistent, the walk it stands for is a job in memory and then an acknowledged
  task. If either is lost, no later realtime task walks the device, though the
  comment at `poller_utilities.py:197-201` promises a walk when a host is discovered.
* `SentUntranslated` (`task_utilities.py:114`). After a failed translation the pair
  built at line 94 is returned, a boolean and a string in the places of a string and
  a boolean, though the docstring at line 87 promises the original value. All callers
  then fail on it: `json.loads` of a boolean in GET, BULK and the walk of IF-MIB, `in`
  on a boolean in the walk of the tree. While the MIB server is down nothing of what
  a device answers is sent, and a first walk is lost (`WalkAborted` in `WalkLifecycle`).
* `IndexMapping` (`mib_enricher.py:27`). The number of an interface, minus one, is the
  position at which its value is looked up, but the lists hold the values in the order
  of the walk, whatever their numbers. `mongo.py:54` shows such a list as an "INDEX
  MAPPING FOR OIDs", and its example is a device with the interfaces 1 and 2. With 1, 3
  and 4, a metric of 3 carries the name of 4. Where numbers have no gap the labels are
  true, and stay true through interrupted walks: `LabelsTrue`.

Exceptions the properties state, because the code really has them: `LockExclusion`
excepts matchers that failed before they asked for the lock; `DynamicAccounted` excepts
those too, and matches that ran during a refresh; `DynamicJobsTracked` excepts in
addition matches that failed half way and profiles both listed and matched; the
properties of the table, and `ListedIsEnriched`, except hosts whose names did not
resolve, which a refresh drops with their documents and which stay away until the next
edit or forced refresh; `RedoExplained` excepts readings without an answer, and readings
that are overtaken: where two realtime tasks overlap, the thread that read the uptime
first may compare it last, with what the other has stored, and repeats the walk though
nothing was restarted, once; `ListedIsEnriched` excepts devices whose flag is in Mongo
from an earlier walk, as after a restart or a removal that a walk outlived;
`WalkNotForgotten` excepts walks in `lost`; `BuiltUnlessFailed` excepts the failed
translation above and a text that translates to a number: with an enricher the metric
part of the answer is kept (`task_utilities.py:100`) for a value that is then built as
an event, which needs both parts.

## 4. Fairness

`PollerJobs!FairSpec` asks weak fairness of the main thread and of each matcher's
start and steps: the loop of `run()` never ends and the operating system
schedules its threads. It includes the end of `get_profiles`, in the refresh and in
`ConfigOk` of a matcher. A request of it has a time limit but is repeated every ten
seconds for ever (`mib_server_client.py:135-140`), so `Converges` and `DescribedIsServed`
hold while the MIB server answers in the end; while it does not, the main thread runs
no job at all. Edits, descriptions, faults and crashes are never forced.
`WalkLifecycle!FairSpec` asks it of each realtime thread (one is started on each
period), of the one-time jobs and their thread, of cleaning, of each worker, and
of the end of an outage: a property about retries assumes the device comes back. A
Celery queue is first in, first out, which the count per device and flag loses:
strong fairness of taking each kind of task, and weak fairness of putting each on the
queue, stand for it.
`PollTimer!FairSpec` asks weak fairness of the main thread: each walk ends, since every
request of pysnmp has a time limit, and so does each sleep; each refresh ends if the
MIB server answers, and within `MaxWait`, which only that server can keep. `EditIsSeen`
and `DelayBounded` depend on it.
`EnricherJobs` has safety properties only, like `PollHandlers`.

## 5. Proofs

TLAPS proves, for every value of the constants (any number of hosts, profiles,
files, threads, workers, devices, and any bounds), from the named assumptions of
the five models:

| Theorem | Statement |
|---|---|
| `PollerJobsProofs!TypeCorrect` | `Spec => []TypeOK` |
| `PollerJobsProofs!LockCorrect`, `NoLeak` | `LockExclusion` and `LockNotLeaked` always hold |
| `PollerJobsProofs!MapCorrect`, `TrackingCorrect` | `JobsMapSound` and `StaticJobsTracked` always hold |
| `PollerJobsProofs!DeletionCorrect` | `Spec => DeletedOnlyIfUnlisted` |
| `PollerJobsSync!InSyncCorrect` | `Spec => []InSyncUnlessModified` |
| `PollerJobsSync!TableFollows` | `Spec => FollowsFile`: `PollerJobs` implements `PollTable` |
| `PollerJobsSync!TableSettled`, `TableUninterrupted` | what `PollTable`, and so `PollerJobs`, guarantees |
| `PollerJobsSync!DynamicTrackingCorrect` | `Spec => []DynamicJobsTracked` |
| `PollerJobsSync!DynamicAccountedCorrect` | `Spec => []DynamicAccounted` |
| `WalkLifecycleProofs!TypeCorrect` | `Spec => []TypeOK` |
| `WalkLifecycleProofs!FlagCorrect` | `Spec => []WalkNotForgotten` |
| `WalkLifecycleProofs!RedoCorrect` | `Spec => RedoExplained` |
| `WalkRefinement!PromiseKept` | `Spec => KeepsPromise`: `WalkLifecycle` implements `WalkPromise` |
| `WalkRefinement!PromiseMarks`, `PromiseSettles` | what `WalkPromise`, and so `WalkLifecycle`, guarantees |
| `PollHandlersProofs!TypeCorrect` | `Spec => []TypeOK` |
| `PollHandlersProofs!RoutingCorrect` | `Spec => []RoutedByMeaning` |
| `PollHandlersProofs!BuildingCorrect` | `Spec => []BuiltUnlessFailed` |
| `PollHandlersOrder!OrderCorrect`, `NothingLeftOut` | `InOrder` and `NoneLeftOut` always hold |
| `PollHandlersOrder!GetCorrect`, `FlagCorrect` | `Spec => GetAfterBulk` and `Spec => FlagEarned` |
| `PollTimerProofs!TypeCorrect` | `Spec => []TypeOK` |
| `PollTimerProofs!PunctualCorrect`, `DelayCorrect` | `Punctual` and `DelayBounded` always hold |
| `EnricherJobsProofs!TypeCorrect` | `Spec => []TypeOK` |
| `EnricherJobsProofs!LabelsCorrect`, `ListedCorrect` | `LabelsTrue` and `ListedIsEnriched` always hold |

The arguments. Each starts from `TypeInv`: the types, and what a control point
says about the locals (a thread past `next` works on a device; a main thread in
the middle of a dynamic line has that line at the head).

*Lock.* The invariant adds that a thread in the bail-out path implies the mishap
`config`; so without that mishap every release is made by a holder, and at most
one thread holds the lock.

*Table.* `JobsMapSound` is inductive with the facts that map entries are
distinct jobs and that the key under removal is not visited again.
`StaticJobsTracked` needs that a matcher only creates jobs for keys in
`Matches`, so that it can overwrite only entries of dynamic keys; the main
thread creates a job only for a key the map does not know.

*Deletion.* The invariant relates the lines still to read and the accepted entries
to the file: while the file was not saved again, together they are the file.
When the loop ends, the accepted entries list every host of the file.

*Flag.* `FlagInv` says of each device that the flag, or a realtime thread between
scheduling a walk and setting the flag, comes with a first walk that is
outstanding, done, recorded or lost (`Covered`). A walk that is covered stays
covered through every step except a deletion. `DeleteHost` removes the flag and notes in
`lost` the device a thread is about to mark; `DeleteUnwalked`, a step later, notes a
device that was marked again in between, or is about to be, and loses its record.
`MarkInv`, that a thread about to set
the flag decided to walk, closes the induction.

*Synchrony.* Between refreshes the table is in step with the file. In the middle of one
it is not, so the invariant follows the refresh: `Reading` says that each line read so
far is accepted, or its host did not resolve, that the first line of each key is
served with its configuration, and that the lines left are the rest of the file;
`Cleaning` that an entry which does not belong in the table is still to be visited.
`OriginInv` keeps the matchers out: a matcher works on hosts that a file leaves to
matching, so what it makes, and what is dropped before such a host is added, has a key
in `ForeignKeys`: one a match can give, and, where no file lists a key that is also
matched, no key of a line. `Reading` and `Cleaning` speak of the other keys. Unless the
file was saved meanwhile, they carry `Synced` from one end of the refresh to the other.

*Following the file.* Under `Table` each step of the refresh is one step of `PollTable`:
`StatFiles` is `Look`, `ReadInventory` is `Read`, `SkipUnresolved` is `Excuse`, a line
or a cancelled job is `Apply` of its key, `CleanDone` is `Done`, a crash is `Die`. A step
touches the jobs of one key (`Touches`), and that key is right behind the step because
`Reading` holds there (`AcceptedRight`), or because no line that was passed has it
(`CleanedRight`); that all keys are right at the end follows from the same two lemmas.
Matchers touch only keys that a match can give, which the mapping leaves out. Unlike
`InSyncCorrect` this asks nothing of the files: `Disjoint` is not assumed.

*Dynamic devices.* A job of a device left to matching is *owed* (`Owed`) from
`AddDevice` until a matcher creates it: the device waits, and each thread that has
processed it still has the profile in hand. Two facts carry both theorems. While
nothing but matches fails, the thread that holds the lock is alone in taking devices out
of the dictionary, so what it has processed still waits (`HoldInv`), and a device leaves
only when nothing of it is owed. And a finished refresh leaves no key but those of
accepted lines, so a job that is owed has no entry yet: `Create` never writes over a
live one, and nothing is lost (`TrackInv`, `OweInv`). For a dynamic line of a finished
refresh each match is owed or has its job (`AccountInv`): nothing is forgotten.

*Repeated walks.* `ReadingInv` orders the readings of a counter: what is stored, or held
by a thread or a worker to be stored, was read no later than now (`Past`), and no
later than the reading of a thread that is about to compare and is not overtaken
(`Fresh`): a worker writes back what it found, and a thread that stores a reading
overtakes all others that hold one of the device (`Overtakes`), so for them nothing is
claimed. No assumption on the threads is left. Between two
readings in order the counter falls only through a reset (`ClockForward`). A
reading that was not answered is 0, which is no later than any: it may be stored, and
only the comparison with such a reading is left out (`StoredFirst`, `DescrFirst`).

*Promise.* Each action of `WalkLifecycle` is shown to be one action of `WalkPromise`
under the mapping, or to leave the mapped variables alone; `ScheduleWalk` is `Schedule`,
`MarkWalked` is `Mark`, whose guard is `Covered` of the flag proof, `DeleteHost` is
`Forget`, `DeleteUnwalked` is `Drop`, and a crash is `Lose` of all devices with a first
walk in memory.

*Time.* `Punctual` is inductive once the types are known: a refresh takes `next_run` to
the smaller of what is left and the new interval, and both bounds move with
`shortest` and `longest`. `DelayInv` follows the main thread through a pass:
`Budget` is what the walks of one pass can take, `Spent` what those already run in
this pass have taken, counted with `Cardinality`; a job that is still to run has waited
for one budget, one refresh and what is spent, one that has run for what was spent
since.

*Labels.* Where the numbers of every table have no gap, the rows read of a column are
always an initial segment of 1, 2, 3, ...: `ReadInv` for the walks, `StoredInv` for the
lists, whatever changed in the table between two rows, and a prefix is right at each
of its positions.

*Enriched.* A device is `Covered` when it has an enricher job, or the flag, or the section
asks for no job. `ListedInv` follows the refresh: before it, a device with a polling
job is covered as long as the section is the old one (`KnownInv`), so that a known line
needs no look; the lines done are covered (`SeenInv`), then the hosts done when the
section is another one (`HostsInv`), then every listed device (`CleanInv`, `IdleInv`).
Cleaning takes the jobs and the flag only of devices that are not listed, or that the
refresh could not resolve (`PhaseInv` says that the lines it works on are the others).

*Routing.* The heart is `Form`: at the post, the form of the result, the flag
`is_metric` and the kind of the value fit each other in one of five ways, two of which
cannot be built. It is inductive with `Shape` (the plan belongs to the task and has
variable bindings) and with the fact that a second call is made only for a value whose
translation is not a number. `enriched` is a local: the static data may change
without touching `Form`, which is why no assumption on other processes is needed.

*Order.* `Told` says that the posts are the first of the answers; `Left` that in the
middle of a stage the bindings to look at are exactly the answers that follow. A step
of the loop moves one value from `Left` to `Told`. That an error comes alone (`Alone`)
is needed because a handler that met one returns without looking at what else is left:
nothing is. `Earned` ties the flag of merged results to an answer, and `EndsWithGet`
says that the plan of a profile with something to GET has it last; since an exception
in a stage of a profile drops that stage only, the task ends with it.

Only model-checked: the liveness properties `Converges`, `DescribedIsServed`,
`WalkedOrLost`, `UnwalkedIsRetried` and `EditIsSeen`, which are out of the prover's reach.
Every invariant and every safety action property of a passing run is proved, and both
refinements are.

## 6. Not modelled, and what is left

Every component with a protocol of its own has a module. Not modelled: the merge of the
profiles of the MIB server and the configuration, and the matching of patterns
(functions of texts, without state: their results are constants); the checks of an
inventory line that depend on its text alone; the starvation of dynamic jobs by
frequent refreshes, the loss of the time of the last poll at a restart, enricher jobs
that keep the section they were created with, and families that stay when the IF-MIB
part of a section changes with them. These last four the code really does, and no
document of the repository promises otherwise; they are listed as hazards, each with
its line. A remark of the documentation that no model needs: `utilities.py:121` gives the
frequency of the one-time task in seconds, `poller.py:341` takes it in minutes.

Next, if the project goes on: an abstract specification of the handlers in
`PollHandlers` (the answers of a device, sent in order) beside `InOrder` and
`NoneLeftOut`, and of the matching (what a device left to matching is owed).

Not planned: credentials and contexts (tables without state), Celery and command
line configuration, packaging, logging.
