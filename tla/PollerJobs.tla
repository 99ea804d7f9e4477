----------------------------- MODULE PollerJobs -----------------------------
(***************************************************************************)
(* The job table of the scheduler process (manager/poller.py).             *)
(*                                                                         *)
(* One main thread refreshes the table from the inventory file; it is the  *)
(* only thread that removes jobs.  Matcher threads, one started on every   *)
(* matching period, give a job per matching profile to the devices listed  *)
(* with the profile "*", once Mongo knows how the device describes itself. *)
(* The two share schedule.jobs, _jobs_map, _dynamic_jobs and               *)
(* _unmatched_devices; the lock protects only the last of them.            *)
(*                                                                         *)
(* Modelled with the configuration's enricher section absent, where the    *)
(* enricher calls of the refresh do nothing, and with a fixed set of       *)
(* profiles.  A "job" is an entry of schedule.jobs, the library's list.    *)
(***************************************************************************)
EXTENDS Integers, FiniteSets, Sequences, SequencesExt

CONSTANTS
    Hosts,        \* host strings of inventory lines ("10.0.0.1", "10.0.0.1:161")
    DbIds,        \* keys of Mongo documents ("host:port")
    DbId,         \* return_database_id
    Profiles,     \* profile names a line can carry, other than "*"
    Known,        \* the profiles that the configuration and the MIB server define
    Dynamic,      \* the profile "*"
    Confs,        \* what else a line says: version, community, frequency
    Files,        \* contents the inventory file may be given: sequences of lines
    Matches,      \* profiles whose patterns match the description of a host
    Matchers,     \* identities of matcher threads
    JobIds,       \* identities of schedule.Job objects
    None,
    MaxEnv,       \* bound: file edits and forced refreshes
    MaxFaults     \* bound: crashes, exceptions in a matcher, lines dropped

Lines == [host : Hosts, profile : Profiles \cup {Dynamic}, conf : Confs]
Keys  == Hosts \X Profiles                     \* create_poller_scheduler_entry_key
EntryKeys == Hosts \X (Profiles \cup {Dynamic})
Jobs  == [key : Keys, conf : Confs]
Devices == [host : Hosts, conf : Confs]

ASSUME HostsAssumption    == IsFiniteSet(Hosts) /\ DbId \in [Hosts -> DbIds]
ASSUME ProfilesAssumption == Known \subseteq Profiles /\ Dynamic \notin Profiles
ASSUME MatchesAssumption  == Matches \in [Hosts -> SUBSET Known]
ASSUME FilesAssumption    == Files \subseteq Seq(Lines)
ASSUME NoneAssumption     == None \notin JobIds \cup Jobs \cup Devices \cup Confs \cup Keys
ASSUME BoundsAssumption   == MaxEnv \in Nat /\ MaxFaults \in Nat

VARIABLES
    inventory,    \* the file's content
    modified,     \* a file is newer than the modification time last recorded
    forceRefresh, \* _force_refresh
    unresolved,   \* history: hosts the refresh dropped, their names not resolving
    jobs,         \* schedule.jobs
    jobsMap,      \* _jobs_map
    dynamicJobs,  \* _dynamic_jobs
    unmatched,    \* _unmatched_devices: the configuration each device waits with
    locked,       \* _lock, which like any threading.Lock has no owner
    described,    \* documents whose MIB-REAL-TIME-DATA describes the device
    mpc,          \* where the main thread is
    mlines,       \* lines __check_inventory has still to read
    accepted,     \* inventory_entry_keys, and through it inventory_hosts
    mtodo,        \* keys the loop in progress has still to visit
    mkey,         \* the key whose removal is in progress
    tpc,          \* where each matcher is
    tsize,        \* length of _unmatched_devices when the iteration began
    tdone,        \* processed_devices
    tseen,        \* devices the iteration has visited
    tdev,         \* the device being given its jobs
    ttodo,        \* profiles assigned to it and not turned into jobs yet
    tkey,         \* the key of the job just created
    mishaps,      \* history: what went wrong since the process started
    envs, faults  \* counters of the bounds

env      == <<inventory, modified, forceRefresh, unresolved>>
table    == <<jobs, jobsMap, dynamicJobs>>
mainVars == <<mpc, mlines, accepted, mtodo, mkey>>
matcherVars == <<tpc, tsize, tdone, tseen, tdev, ttodo, tkey>>
counters == <<envs, faults>>
vars == <<env, table, unmatched, locked, described, mainVars, matcherVars,
          mishaps, counters>>

MainPcs == {"idle", "read", "lines", "drop", "dropDel", "dropUnmark",
            "acquire", "add", "clean", "cleanDel"}
MatcherPcs == {"off", "check", "config", "acquire", "scan", "create", "mark",
               "pop", "finally", "release", "bail", "bailRelease"}
Mishaps == {"config",   \* a matcher failed before it asked for the lock
            "match",    \* a matcher failed in its loop
            "overlap"}  \* a matcher created a job during a refresh

TypeOK ==
    /\ inventory \in Seq(Lines)
    /\ modified \in BOOLEAN /\ forceRefresh \in BOOLEAN /\ locked \in BOOLEAN
    /\ jobs \in [JobIds -> Jobs \cup {None}]
    /\ jobsMap \in [Keys -> JobIds \cup {None}]
    /\ dynamicJobs \subseteq Keys /\ unresolved \subseteq Hosts
    /\ unmatched \in [Hosts -> Confs \cup {None}]
    /\ described \subseteq DbIds
    /\ mpc \in MainPcs
    /\ mlines \in Seq(Lines)
    /\ accepted \subseteq EntryKeys
    /\ mtodo \subseteq Keys
    /\ mkey \in Keys \cup {None}
    /\ tpc \in [Matchers -> MatcherPcs]
    /\ tsize \in [Matchers -> Nat]
    /\ tdone \in [Matchers -> SUBSET Hosts]
    /\ tseen \in [Matchers -> SUBSET Hosts]
    /\ tdev \in [Matchers -> Devices \cup {None}]
    /\ ttodo \in [Matchers -> SUBSET Profiles]
    /\ tkey \in [Matchers -> Keys \cup {None}]
    /\ mishaps \subseteq Mishaps
    /\ envs \in Nat /\ faults \in Nat

-----------------------------------------------------------------------------
(* The process has just been started. *)
FreshProcess(pc) ==
    /\ forceRefresh' = FALSE /\ unresolved' = {} /\ locked' = FALSE
    /\ jobs' = [j \in JobIds |-> None]
    /\ jobsMap' = [k \in Keys |-> None]
    /\ dynamicJobs' = {}
    /\ unmatched' = [h \in Hosts |-> None]
    /\ mpc' = pc /\ mlines' = <<>> /\ accepted' = {} /\ mtodo' = {} /\ mkey' = None
    /\ tpc' = [t \in Matchers |-> "off"]
    /\ tsize' = [t \in Matchers |-> 0]
    /\ tdone' = [t \in Matchers |-> {}]
    /\ tseen' = [t \in Matchers |-> {}]
    /\ tdev' = [t \in Matchers |-> None]
    /\ ttodo' = [t \in Matchers |-> {}]
    /\ tkey' = [t \in Matchers |-> None]
    /\ mishaps' = {}

Init ==
    /\ inventory \in Files
    /\ modified = TRUE           \* both modification times start at 0
    /\ forceRefresh = FALSE /\ unresolved = {} /\ locked = FALSE
    /\ jobs = [j \in JobIds |-> None]
    /\ jobsMap = [k \in Keys |-> None]
    /\ dynamicJobs = {}
    /\ unmatched = [h \in Hosts |-> None]
    /\ described = {}
    /\ mpc = "idle" /\ mlines = <<>> /\ accepted = {} /\ mtodo = {} /\ mkey = None
    /\ tpc = [t \in Matchers |-> "off"]
    /\ tsize = [t \in Matchers |-> 0]
    /\ tdone = [t \in Matchers |-> {}]
    /\ tseen = [t \in Matchers |-> {}]
    /\ tdev = [t \in Matchers |-> None]
    /\ ttodo = [t \in Matchers |-> {}]
    /\ tkey = [t \in Matchers |-> None]
    /\ mishaps = {}
    /\ envs = 0 /\ faults = 0

-----------------------------------------------------------------------------
(* Operators on the shared structures. *)

EntryKey(l) == <<l.host, l.profile>>
Mapped   == {k \in Keys : jobsMap[k] # None}
Waiting  == {h \in Hosts : unmatched[h] # None}
InventoryDbIds == {DbId[k[1]] : k \in accepted}          \* inventory_hosts
FreeIds  == {j \in JobIds : jobs[j] = None /\ \A k \in Keys : jobsMap[k] # j}

(* schedule.every(..).do(..) and the new map entry, which is written over an
   existing one without cancelling its job; nothing for an unknown profile.  Which
   unused identity the new Job object gets does not matter. *)
process_new_job(k, c) ==
    IF k[2] \in Known
    THEN LET j == CHOOSE i \in FreeIds : TRUE IN
            /\ FreeIds # {}
            /\ jobs' = [jobs EXCEPT ![j] = [key |-> k, conf |-> c]]
            /\ jobsMap' = [jobsMap EXCEPT ![k] = j]
    ELSE UNCHANGED <<jobs, jobsMap>>

(* schedule.cancel_job: quiet when the job is not scheduled any more. *)
cancel_job(k) == jobs' = [j \in JobIds |-> IF j = jobsMap[k] THEN None ELSE jobs[j]]

-----------------------------------------------------------------------------
(* The main thread: __check_inventory. *)

(* Stat both files and record their times, before any of them is read. *)
StatFiles ==
    /\ mpc = "idle" /\ (modified \/ forceRefresh)
    /\ modified' = FALSE /\ forceRefresh' = FALSE
    /\ mpc' = "read"
    /\ UNCHANGED <<inventory, unresolved, table, unmatched, locked, described, mlines,
                   accepted, mtodo, mkey, matcherVars, mishaps, counters>>

\* Mutant: the refresh starts from an empty schedule.
ReadInventoryAfresh ==
    /\ mpc = "read"
    /\ mlines' = inventory /\ accepted' = {} /\ unresolved' = {}
    /\ jobs' = [j \in JobIds |-> None] /\ jobsMap' = [k \in Keys |-> None]
    /\ mpc' = "lines"
    /\ UNCHANGED <<inventory, modified, forceRefresh, dynamicJobs, unmatched, locked,
                   described, mtodo, mkey, matcherVars, mishaps, counters>>

ReadInventory ==
    /\ mpc = "read"
    /\ mlines' = inventory /\ accepted' = {} /\ unresolved' = {}
    /\ mpc' = "lines"
    /\ UNCHANGED <<inventory, modified, forceRefresh, table, unmatched, locked,
                   described, mtodo, mkey, matcherVars, mishaps, counters>>

(* is_valid_host resolves the name of every line; parse_inventory_file passes over
   a line whose name does not resolve just now, as over one that is not valid. *)
SkipUnresolved ==
    /\ mpc = "lines" /\ mlines # <<>>
    /\ faults < MaxFaults /\ faults' = faults + 1
    /\ unresolved' = unresolved \cup {Head(mlines).host}
    /\ mlines' = Tail(mlines)
    /\ UNCHANGED <<inventory, modified, forceRefresh, table, unmatched, locked,
                   described, mpc, accepted, mtodo, mkey, matcherVars, mishaps, envs>>

SkipDuplicate ==
    /\ mpc = "lines" /\ mlines # <<>>
    /\ EntryKey(Head(mlines)) \in accepted
    /\ mlines' = Tail(mlines)
    /\ UNCHANGED <<env, table, unmatched, locked, described, mpc, accepted, mtodo,
                   mkey, matcherVars, mishaps, counters>>

(* A line whose key the map does not know. *)
StaticNew ==
    /\ mpc = "lines" /\ mlines # <<>>
    /\ LET l == Head(mlines) IN
        /\ l.profile # Dynamic
        /\ EntryKey(l) \notin accepted \cup Mapped
        /\ accepted' = accepted \cup {EntryKey(l)}
        /\ process_new_job(EntryKey(l), l.conf)
    /\ mlines' = Tail(mlines)
    /\ UNCHANGED <<env, dynamicJobs, unmatched, locked, described, mpc, mtodo, mkey,
                   matcherVars, mishaps, counters>>

\* Mutant: is_conf_changed never sees a change.
StaticUpdateNever ==
    /\ mpc = "lines" /\ mlines # <<>>
    /\ LET l == Head(mlines) IN
        /\ l.profile # Dynamic
        /\ EntryKey(l) \in Mapped \ accepted
        /\ accepted' = accepted \cup {EntryKey(l)}
    /\ mlines' = Tail(mlines)
    /\ UNCHANGED <<env, table, unmatched, locked, described, mpc, mtodo, mkey,
                   matcherVars, mishaps, counters>>

(* A line whose key has a job: is_conf_changed compares tuples of different
   shapes, so the job is always given the line's function and interval. *)
StaticUpdate ==
    /\ mpc = "lines" /\ mlines # <<>>
    /\ LET l == Head(mlines) IN
        /\ l.profile # Dynamic
        /\ EntryKey(l) \in Mapped \ accepted
        /\ accepted' = accepted \cup {EntryKey(l)}
        /\ jobs' = [j \in JobIds |->
                        IF j = jobsMap[EntryKey(l)] /\ jobs[j] # None
                        THEN [jobs[j] EXCEPT !.conf = l.conf] ELSE jobs[j]]
    /\ mlines' = Tail(mlines)
    /\ UNCHANGED <<env, jobsMap, dynamicJobs, unmatched, locked, described, mpc,
                   mtodo, mkey, matcherVars, mishaps, counters>>

(* A line with profile "*": first delete_all_dynamic_entries_per_host. *)
DynamicLine ==
    /\ mpc = "lines" /\ mlines # <<>>
    /\ LET l == Head(mlines) IN
        /\ l.profile = Dynamic
        /\ EntryKey(l) \notin accepted
        /\ accepted' = accepted \cup {EntryKey(l)}
        /\ mtodo' = {k \in Mapped : k[1] = l.host}
    /\ mpc' = "drop"
    /\ UNCHANGED <<env, table, unmatched, locked, described, mlines, mkey,
                   matcherVars, mishaps, counters>>

\* Mutant: a dynamic job leaves the map without being cancelled.
DropCancelNot ==
    /\ mpc = "drop"
    /\ \E k \in mtodo :
        /\ mtodo' = mtodo \ {k}
        /\ IF k \in dynamicJobs
           THEN mkey' = k /\ mpc' = "dropDel"
           ELSE UNCHANGED <<mkey, mpc>>
    /\ UNCHANGED <<env, table, unmatched, locked, described, mlines, accepted,
                   matcherVars, mishaps, counters>>

DropCancel ==
    /\ mpc = "drop"
    /\ \E k \in mtodo :
        /\ mtodo' = mtodo \ {k}
        /\ IF k \in dynamicJobs
           THEN cancel_job(k) /\ mkey' = k /\ mpc' = "dropDel"
           ELSE UNCHANGED <<jobs, mkey, mpc>>
    /\ UNCHANGED <<env, jobsMap, dynamicJobs, unmatched, locked, described, mlines,
                   accepted, matcherVars, mishaps, counters>>

DropForget ==
    /\ mpc = "dropDel"
    /\ jobsMap' = [jobsMap EXCEPT ![mkey] = None]
    /\ mpc' = "dropUnmark"
    /\ UNCHANGED <<env, jobs, dynamicJobs, unmatched, locked, described, mlines,
                   accepted, mtodo, mkey, matcherVars, mishaps, counters>>

DropUnmark ==
    /\ mpc = "dropUnmark"
    /\ dynamicJobs' = dynamicJobs \ {mkey}
    /\ mkey' = None /\ mpc' = "drop"
    /\ UNCHANGED <<env, jobs, jobsMap, unmatched, locked, described, mlines,
                   accepted, mtodo, matcherVars, mishaps, counters>>

DropDone ==
    /\ mpc = "drop" /\ mtodo = {}
    /\ mpc' = "acquire"
    /\ UNCHANGED <<env, table, unmatched, locked, described, mlines, accepted,
                   mtodo, mkey, matcherVars, mishaps, counters>>

(* add_device_for_profile_matching. *)
AcquireToAdd ==
    /\ mpc = "acquire" /\ ~locked
    /\ locked' = TRUE /\ mpc' = "add"
    /\ UNCHANGED <<env, table, unmatched, described, mlines, accepted, mtodo, mkey,
                   matcherVars, mishaps, counters>>

\* Mutant: the device waits with its profile instead of its configuration.
AddDeviceProfile ==
    /\ mpc = "add" /\ locked
    /\ unmatched' = [unmatched EXCEPT ![Head(mlines).host] = Head(mlines).profile]
    /\ locked' = FALSE
    /\ mlines' = Tail(mlines) /\ mpc' = "lines"
    /\ UNCHANGED <<env, table, described, accepted, mtodo, mkey, matcherVars,
                   mishaps, counters>>

AddDevice ==
    /\ mpc = "add" /\ locked
    /\ unmatched' = [unmatched EXCEPT ![Head(mlines).host] = Head(mlines).conf]
    /\ locked' = FALSE
    /\ mlines' = Tail(mlines) /\ mpc' = "lines"
    /\ UNCHANGED <<env, table, described, accepted, mtodo, mkey, matcherVars,
                   mishaps, counters>>

(* clean_job_inventory. *)
LinesDone ==
    /\ mpc = "lines" /\ mlines = <<>>
    /\ mtodo' = Mapped /\ mpc' = "clean"
    /\ UNCHANGED <<env, table, unmatched, locked, described, mlines, accepted,
                   mkey, matcherVars, mishaps, counters>>

\* Mutants: the job is not cancelled; the document is deleted though another
\* entry of the inventory is about the same host.
CleanCancelNot ==
    /\ mpc = "clean"
    /\ \E k \in mtodo :
        /\ mtodo' = mtodo \ {k}
        /\ IF k \in accepted THEN UNCHANGED <<mkey, mpc>>
                             ELSE mkey' = k /\ mpc' = "cleanDel"
    /\ UNCHANGED <<env, table, described, unmatched, locked, mlines, accepted,
                   matcherVars, mishaps, counters>>
CleanCancelAnyHost ==
    /\ mpc = "clean"
    /\ \E k \in mtodo :
        /\ mtodo' = mtodo \ {k}
        /\ IF k \in accepted
           THEN UNCHANGED <<jobs, described, mkey, mpc>>
           ELSE /\ cancel_job(k)
                /\ described' = described \ {DbId[k[1]]}
                /\ mkey' = k /\ mpc' = "cleanDel"
    /\ UNCHANGED <<env, jobsMap, dynamicJobs, unmatched, locked, mlines, accepted,
                   matcherVars, mishaps, counters>>

CleanCancel ==
    /\ mpc = "clean"
    /\ \E k \in mtodo :
        /\ mtodo' = mtodo \ {k}
        /\ IF k \in accepted
           THEN UNCHANGED <<jobs, described, mkey, mpc>>
           ELSE /\ cancel_job(k)
                /\ described' = IF DbId[k[1]] \in InventoryDbIds
                                THEN described ELSE described \ {DbId[k[1]]}
                /\ mkey' = k /\ mpc' = "cleanDel"
    /\ UNCHANGED <<env, jobsMap, dynamicJobs, unmatched, locked, mlines, accepted,
                   matcherVars, mishaps, counters>>

\* Mutant: the entry stays in the map.
CleanForgetNot ==
    /\ mpc = "cleanDel"
    /\ mkey' = None /\ mpc' = "clean"
    /\ UNCHANGED <<env, table, unmatched, locked, described, mlines, accepted, mtodo,
                   matcherVars, mishaps, counters>>

CleanForget ==
    /\ mpc = "cleanDel"
    /\ jobsMap' = [jobsMap EXCEPT ![mkey] = None]
    /\ mkey' = None /\ mpc' = "clean"
    /\ UNCHANGED <<env, jobs, dynamicJobs, unmatched, locked, described, mlines,
                   accepted, mtodo, matcherVars, mishaps, counters>>

\* Mutant: the modification times are recorded when the refresh ends.
CleanDoneRecordsTimes ==
    /\ mpc = "clean" /\ mtodo = {}
    /\ mpc' = "idle" /\ accepted' = {} /\ modified' = FALSE
    /\ UNCHANGED <<inventory, forceRefresh, unresolved, table, unmatched, locked, described,
                   mlines, mtodo, mkey, matcherVars, mishaps, counters>>

CleanDone ==
    /\ mpc = "clean" /\ mtodo = {}
    /\ mpc' = "idle" /\ accepted' = {}
    /\ UNCHANGED <<env, table, unmatched, locked, described, mlines, mtodo, mkey,
                   matcherVars, mishaps, counters>>

Main == \/ StatFiles \/ ReadInventory \/ SkipDuplicate \/ SkipUnresolved
        \/ StaticNew \/ StaticUpdate \/ DynamicLine \/ DropCancel \/ DropForget \/ DropUnmark \/ DropDone
        \/ AcquireToAdd \/ AddDevice
        \/ LinesDone \/ CleanCancel \/ CleanForget \/ CleanDone

-----------------------------------------------------------------------------
(* A matcher thread: process_unmatched_devices. *)

Goto(t, pc) == tpc' = [tpc EXCEPT ![t] = pc]
locals == <<tsize, tdone, tseen, tdev, ttodo, tkey>>

(* The thread returns; its local variables are gone. *)
Return(t) ==
    /\ Goto(t, "off")
    /\ tsize' = [tsize EXCEPT ![t] = 0]
    /\ tdone' = [tdone EXCEPT ![t] = {}]
    /\ tseen' = [tseen EXCEPT ![t] = {}]
    /\ tdev'  = [tdev EXCEPT ![t] = None]
    /\ ttodo' = [ttodo EXCEPT ![t] = {}]
    /\ tkey'  = [tkey EXCEPT ![t] = None]

(* run_pending, in the main thread, starts a thread whether or not the
   previous one is still running. *)
Start(t) ==
    /\ mpc = "idle" /\ tpc[t] = "off"
    /\ Goto(t, "check")
    /\ UNCHANGED <<env, table, unmatched, locked, described, mainVars, locals,
                   mishaps, counters>>

\* Mutant: the test is the wrong way round.
CheckInverted(t) ==
    /\ tpc[t] = "check"
    /\ Goto(t, IF Waiting = {} THEN "config" ELSE "off")
    /\ UNCHANGED <<env, table, unmatched, locked, described, mainVars, locals,
                   mishaps, counters>>

(* The emptiness test, made without the lock. *)
Check(t) ==
    /\ tpc[t] = "check"
    /\ Goto(t, IF Waiting = {} THEN "off" ELSE "config")
    /\ UNCHANGED <<env, table, unmatched, locked, described, mainVars, locals,
                   mishaps, counters>>

(* parse_config_file and get_profiles, still without the lock. *)
ConfigOk(t) ==
    /\ tpc[t] = "config"
    /\ Goto(t, "acquire")
    /\ UNCHANGED <<env, table, unmatched, locked, described, mainVars, locals,
                   mishaps, counters>>

ConfigFails(t) ==
    /\ tpc[t] = "config" /\ faults < MaxFaults
    /\ Goto(t, "bail")
    /\ mishaps' = mishaps \cup {"config"} /\ faults' = faults + 1
    /\ UNCHANGED <<env, table, unmatched, locked, described, mainVars, locals, envs>>

\* Mutant: acquire(blocking=False), and its result ignored.
AcquireNonBlocking(t) ==
    /\ tpc[t] = "acquire"
    /\ locked' = TRUE
    /\ Goto(t, "scan")
    /\ tsize' = [tsize EXCEPT ![t] = Cardinality(Waiting)]
    /\ UNCHANGED <<env, table, unmatched, described, mainVars, tdone, tseen, tdev,
                   ttodo, tkey, mishaps, counters>>

Acquire(t) ==
    /\ tpc[t] = "acquire" /\ ~locked
    /\ locked' = TRUE
    /\ Goto(t, "scan")
    /\ tsize' = [tsize EXCEPT ![t] = Cardinality(Waiting)]
    /\ UNCHANGED <<env, table, unmatched, described, mainVars, tdone, tseen, tdev,
                   ttodo, tkey, mishaps, counters>>

\* Mutant: a device counts as processed before it has a description.
VisitProcessesAll(t) ==
    /\ tpc[t] = "scan" /\ Cardinality(Waiting) = tsize[t]
    /\ \E h \in Waiting \ tseen[t] :
        /\ tseen' = [tseen EXCEPT ![t] = @ \cup {h}]
        /\ tdone' = [tdone EXCEPT ![t] = @ \cup {h}]
        /\ IF DbId[h] \in described
           THEN /\ tdev' = [tdev EXCEPT ![t] = [host |-> h, conf |-> unmatched[h]]]
                /\ ttodo' = [ttodo EXCEPT ![t] = Matches[h]]
                /\ Goto(t, "create")
           ELSE UNCHANGED <<tdev, ttodo, tpc>>
    /\ UNCHANGED <<env, table, unmatched, locked, described, mainVars, tsize, tkey,
                   mishaps, counters>>

(* The next device of the iteration; one without a description stays. *)
Visit(t) ==
    /\ tpc[t] = "scan" /\ Cardinality(Waiting) = tsize[t]
    /\ \E h \in Waiting \ tseen[t] :
        /\ tseen' = [tseen EXCEPT ![t] = @ \cup {h}]
        /\ IF DbId[h] \in described
           THEN /\ tdone' = [tdone EXCEPT ![t] = @ \cup {h}]
                /\ tdev' = [tdev EXCEPT ![t] = [host |-> h, conf |-> unmatched[h]]]
                /\ ttodo' = [ttodo EXCEPT ![t] = Matches[h]]
                /\ Goto(t, "create")
           ELSE UNCHANGED <<tdone, tdev, ttodo, tpc>>
    /\ UNCHANGED <<env, table, unmatched, locked, described, mainVars, tsize, tkey,
                   mishaps, counters>>

(* One profile of the device becomes a job: process_new_job, then the mark in
   _dynamic_jobs. *)
Create(t) ==
    /\ tpc[t] = "create"
    /\ \E p \in ttodo[t] :
        LET k == <<tdev[t].host, p>> IN
        /\ process_new_job(k, tdev[t].conf)
        /\ ttodo' = [ttodo EXCEPT ![t] = @ \ {p}]
        /\ tkey' = [tkey EXCEPT ![t] = k]
    /\ Goto(t, "mark")
    /\ mishaps' = IF mpc = "idle" THEN mishaps ELSE mishaps \cup {"overlap"}
    /\ UNCHANGED <<env, dynamicJobs, unmatched, locked, described, mainVars, tsize,
                   tdone, tseen, tdev, counters>>

Mark(t) ==
    /\ tpc[t] = "mark"
    /\ dynamicJobs' = dynamicJobs \cup {tkey[t]}
    /\ tkey' = [tkey EXCEPT ![t] = None]
    /\ Goto(t, "create")
    /\ UNCHANGED <<env, jobs, jobsMap, unmatched, locked, described, mainVars, tsize,
                   tdone, tseen, tdev, ttodo, mishaps, counters>>

CreateDone(t) ==
    /\ tpc[t] = "create" /\ ttodo[t] = {}
    /\ tdev' = [tdev EXCEPT ![t] = None]
    /\ Goto(t, "scan")
    /\ UNCHANGED <<env, table, unmatched, locked, described, mainVars, tsize, tdone,
                   tseen, ttodo, tkey, mishaps, counters>>

\* Mutant: an exception in the loop ends the thread without the finally clause.
MatchFailsDies(t) ==
    /\ tpc[t] \in {"scan", "create"} /\ faults < MaxFaults
    /\ Return(t)
    /\ mishaps' = mishaps \cup {"match"} /\ faults' = faults + 1
    /\ UNCHANGED <<env, table, unmatched, locked, described, mainVars, envs>>

(* Mongo, a pattern or a frequency raises while the lock is held. *)
MatchFails(t) ==
    /\ tpc[t] \in {"scan", "create"} /\ faults < MaxFaults
    /\ Goto(t, "finally")
    /\ mishaps' = mishaps \cup {"match"} /\ faults' = faults + 1
    /\ UNCHANGED <<env, table, unmatched, locked, described, mainVars, locals, envs>>

(* "dictionary changed size during iteration". *)
SizeChanged(t) ==
    /\ tpc[t] = "scan" /\ Cardinality(Waiting) # tsize[t]
    /\ Goto(t, "finally")
    /\ UNCHANGED <<env, table, unmatched, locked, described, mainVars, locals,
                   mishaps, counters>>

ScanDone(t) ==
    /\ tpc[t] = "scan" /\ Cardinality(Waiting) = tsize[t] /\ Waiting \subseteq tseen[t]
    /\ Goto(t, "pop")
    /\ UNCHANGED <<env, table, unmatched, locked, described, mainVars, locals,
                   mishaps, counters>>

(* _unmatched_devices.pop(d), a KeyError when the device is gone. *)
Pop(t) ==
    /\ tpc[t] = "pop"
    /\ \E h \in tdone[t] :
        IF h \in Waiting
        THEN /\ unmatched' = [unmatched EXCEPT ![h] = None]
             /\ tdone' = [tdone EXCEPT ![t] = @ \ {h}]
             /\ tpc' = tpc
        ELSE Goto(t, "finally") /\ UNCHANGED <<unmatched, tdone>>
    /\ UNCHANGED <<env, table, locked, described, mainVars, tsize, tseen, tdev,
                   ttodo, tkey, mishaps, counters>>

PopDone(t) ==
    /\ tpc[t] = "pop" /\ tdone[t] = {}
    /\ Goto(t, "finally")
    /\ UNCHANGED <<env, table, unmatched, locked, described, mainVars, locals,
                   mishaps, counters>>

(* finally: if self._lock.locked(): -- whoever holds it. *)
FinallyLocked(t) ==
    /\ tpc[t] \in {"finally", "bail"} /\ locked
    /\ Goto(t, IF tpc[t] = "finally" THEN "release" ELSE "bailRelease")
    /\ UNCHANGED <<env, table, unmatched, locked, described, mainVars, locals,
                   mishaps, counters>>

FinallyUnlocked(t) ==
    /\ tpc[t] \in {"finally", "bail"} /\ ~locked
    /\ Return(t)
    /\ UNCHANGED <<env, table, unmatched, locked, described, mainVars, mishaps, counters>>

(* self._lock.release(); if somebody released it in between, the thread dies
   of a RuntimeError instead. *)
Release(t) ==
    /\ tpc[t] \in {"release", "bailRelease"}
    /\ locked' = FALSE
    /\ Return(t)
    /\ UNCHANGED <<env, table, unmatched, described, mainVars, mishaps, counters>>

Matcher(t) == \/ Check(t) \/ ConfigOk(t) \/ Acquire(t) \/ Visit(t) \/ Create(t)
              \/ Mark(t) \/ CreateDone(t) \/ SizeChanged(t) \/ ScanDone(t)
              \/ Pop(t) \/ PopDone(t)
              \/ FinallyLocked(t) \/ FinallyUnlocked(t) \/ Release(t)

-----------------------------------------------------------------------------
(* The environment and the faults. *)

(* The administrator saves the inventory, or the configuration (same content). *)
EditInventory ==
    /\ envs < MaxEnv /\ envs' = envs + 1
    /\ inventory' \in Files
    /\ modified' = TRUE
    /\ UNCHANGED <<forceRefresh, unresolved, table, unmatched, locked, described, mainVars,
                   matcherVars, mishaps, faults>>

(* The refresh_inventory job the realtime task scheduled comes due. *)
force_inventory_refresh ==
    /\ envs < MaxEnv /\ envs' = envs + 1
    /\ mpc = "idle"
    /\ forceRefresh' = TRUE
    /\ UNCHANGED <<inventory, modified, unresolved, table, unmatched, locked, described,
                   mainVars, matcherVars, mishaps, faults>>

(* A walk has stored the description of a device. *)
Describe ==
    /\ \E d \in DbIds \ described : described' = described \cup {d}
    /\ UNCHANGED <<env, table, unmatched, locked, mainVars, matcherVars, mishaps,
                   counters>>

(* The process dies and is started again: files and Mongo survive, and the
   modification times are 0 again. *)
Crash ==
    /\ faults < MaxFaults /\ faults' = faults + 1
    /\ FreshProcess("idle")
    /\ modified' = TRUE
    /\ UNCHANGED <<inventory, described, envs>>

(* The main thread releases a lock that is not locked: an uncaught
   RuntimeError, which leaves run() and ends the process. *)
MainReleaseFails ==
    /\ mpc = "add" /\ ~locked
    /\ FreshProcess("idle")
    /\ modified' = TRUE
    /\ UNCHANGED <<inventory, described, counters>>

Environment == EditInventory \/ force_inventory_refresh \/ Describe \/ Crash
                  \/ MainReleaseFails

Next == \/ Main
        \/ \E t \in Matchers : \/ Start(t) \/ Matcher(t)
                               \/ ConfigFails(t) \/ MatchFails(t)
        \/ Environment

Spec == Init /\ [][Next]_vars

(* The threads keep running: Mongo and the MIB server answer, the latter after any
   number of retries of get_profiles.  Nothing is asked of users, devices or
   faults. *)
FairSpec == /\ Spec
            /\ WF_vars(Main \/ MainReleaseFails)
            /\ \A t \in Matchers : WF_vars(Start(t)) /\ WF_vars(Matcher(t))

-----------------------------------------------------------------------------
(* Properties. *)

(* The threads that are between an acquire of the lock and its release. *)
Holders == {t \in Matchers : tpc[t] \in {"scan", "create", "mark", "pop",
                                         "finally", "release"}}

(* The critical sections of add_device_for_profile_matching and
   process_unmatched_devices exclude each other, and the release at the end of
   each finds the lock held -- as long as no matcher failed between try: and
   acquire(), since finally: then releases the lock of somebody else. *)
LockExclusion ==
    "config" \notin mishaps =>
        /\ \A t, u \in Holders : t = u
        /\ mpc = "add" => Holders = {}
        /\ Holders # {} \/ mpc = "add" => locked

(* Whatever fails, the lock is never left locked with nobody to release it:
   the next refresh would wait for ever in add_device_for_profile_matching. *)
LockNotLeaked == locked => Holders # {} \/ mpc = "add"

(* Every entry of _jobs_map is a scheduled job of that key, except the entry
   whose job has just been cancelled and is about to be deleted. *)
JobsMapSound ==
    \A k \in Mapped : \/ jobs[jobsMap[k]] # None /\ jobs[jobsMap[k]].key = k
                      \/ k = mkey /\ mpc \in {"dropDel", "cleanDel"}

Scheduled == {j \in JobIds : jobs[j] # None}
Tracked(j) == jobsMap[jobs[j].key] = j
DynamicKeys == {k \in Keys : k[2] \in Matches[k[1]]}

(* A scheduled job that _jobs_map has lost can never be cancelled.  That never
   happens to a job no dynamic match could have made: the main thread alone
   cannot lose one. *)
StaticJobsTracked ==
    \A j \in Scheduled : jobs[j].key \notin DynamicKeys => Tracked(j)

(* No file lists a profile for a host that another line, of that file or of
   another version of it, leaves to matching. *)
Disjoint == \A f, g \in Files : \A l \in ToSet(f), m \in ToSet(g) :
                l.host = m.host /\ l.profile = Dynamic => m.profile \notin Matches[l.host]

(* Nor does it happen to a job of a dynamic device, when no matcher failed in
   its loop, none lost the lock, none created a job during a refresh, and no
   profile is both listed and matched. *)
DynamicJobsTracked ==
    mishaps = {} /\ Disjoint => \A j \in Scheduled : Tracked(j)

(* What the inventory asks for: for each static line with a known profile, the
   first with its key, a job with that line's configuration.  A host whose name
   did not resolve has lost what it had, until the next refresh. *)
IsFirst(f, i) == \A n \in 1 .. i - 1 : EntryKey(f[n]) # EntryKey(f[i])
Wanted(f) == {f[i] : i \in {n \in DOMAIN f : f[n].profile \in Known /\ IsFirst(f, n)}}
Listed(f) == {EntryKey(l) : l \in ToSet(f)}
InSync ==
    /\ \A l \in Wanted(inventory) :
        LET k == EntryKey(l) IN
        \/ l.host \in unresolved
        \/ k \in Mapped /\ jobs[jobsMap[k]] = [key |-> k, conf |-> l.conf]
    /\ \A k \in Mapped : k \in Listed(inventory) \/ k \in DynamicKeys

(* Between refreshes the static jobs are those the file asks for, unless the
   file is newer than the recorded time, and so will be read again: an edit
   that arrives at any point of a refresh is not missed. *)
InSyncUnlessModified ==
    mpc = "idle" /\ ~modified /\ Disjoint => InSync

(* The keys that no match can give are polled as PollTable promises: the table
   follows the file, and no refresh takes away, even for a moment, the job of a
   line that stands in the file, or gives it another configuration. *)
ListedKeys == Keys \ DynamicKeys
Asked   == [k \in ListedKeys |->
               {l.conf : l \in {m \in Wanted(inventory) : EntryKey(m) = k}}]
Polled  == [k \in ListedKeys |->
               {jobs[j].conf : j \in {i \in Scheduled : jobs[i].key = k}}]
Excused == {k \in ListedKeys : k[1] \in unresolved}
Phase   == CASE mpc = "idle" -> "rest" [] mpc = "read" -> "look" [] OTHER -> "apply"

Table == INSTANCE PollTable WITH
             Keys <- ListedKeys, asked <- Asked, polled <- Polled, newer <- modified,
             phase <- Phase, excused <- Excused

FollowsFile == Table!Spec

(* A dynamic device is not forgotten: between refreshes it waits for its
   description or has a job for each matching profile (or is being given them).
   A matcher that fails in its loop loses none; one that lost the lock, or made a
   job during a refresh, may. *)
DynamicAccounted ==
    mpc = "idle" /\ ~modified /\ mishaps \subseteq {"match"} =>
        \A l \in ToSet(inventory) : l.profile = Dynamic =>
            \/ l.host \in Waiting \cup unresolved
            \/ \A p \in Matches[l.host] :
                LET k == <<l.host, p>> IN k \in Mapped /\ jobs[jobsMap[k]].key = k

(* What Mongo knows of a host is deleted only when the file does not list the
   host, or has been saved since the refresh began to read it, or when the name of
   the host did not resolve during this very refresh. *)
DeletedOnlyIfUnlisted ==
    [][\A d \in described \ described' :
          modified \/ \A l \in ToSet(inventory) : DbId[l.host] # d
                                                  \/ l.host \in unresolved]_vars

(* Once the edits and the crashes stop, the static jobs become those of the file
   -- of the hosts that resolved at the last refresh -- and stay so. *)
Converges == <>[]InSync

(* A waiting device that Mongo describes is taken out of the dictionary, though the
   matcher that works for it may fail: a fault of its own, a RuntimeError because
   the dictionary grew or shrank under its iteration, or a KeyError because another
   matcher, or the main thread, popped the device first. *)
DescribedIsServed ==
    \A h \in Hosts : (h \in Waiting /\ DbId[h] \in described)
                         ~> (h \notin Waiting \/ DbId[h] \notin described)

(* A device is polled by at most one job per profile: the refresh refuses a
   second line for a key because one "cannot use the same profile twice for the
   same device". *)
OneJobPerKey == \A i, j \in Scheduled : jobs[i].key = jobs[j].key => i = j

=============================================================================
