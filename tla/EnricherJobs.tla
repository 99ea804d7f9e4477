---------------------------- MODULE EnricherJobs ----------------------------
(***************************************************************************)
(* The enricher: how the interfaces of a device come to label its metrics  *)
(* (manager/poller.py, manager/poller_utilities.py, manager/static/,       *)
(* walk_handler_with_enricher of manager/task_utilities.py, mongo.py).     *)
(*                                                                         *)
(* A refresh of the scheduler gives each new device enricher jobs, one per *)
(* attribute of the enricher section of config.yaml, and one walk of       *)
(* IF-MIB, which a worker does.  A job walks one column, in the scheduler  *)
(* itself.  Every walk ends by storing in MIB-STATIC-DATA what it read, as *)
(* lists, and metrics are labelled from these lists.  Workers go on while  *)
(* a refresh adds and removes devices, and scheduler and workers fail.     *)
(*                                                                         *)
(* A value of an interface is abstracted to the ifIndex of the interface:  *)
(* the properties ask whose value a metric is labelled with.  A device has *)
(* one line in the inventory at most, and its host is its id (PollerJobs   *)
(* has both in full).                                                      *)
(***************************************************************************)
EXTENDS Integers, Sequences, FiniteSets

CONSTANTS
    Devices,
    Workers,
    Columns,     \* the attributes in IF-MIB, in the order of their OIDs
    Names,       \* dimension names
    Families,    \* keys of oidFamily
    None,        \* no enricher section, no job
    Main,        \* the main thread of the scheduler, when it walks a device
    Configs,     \* enricher sections
    Tables,      \* the interfaces a device can have: sets of ifIndex
    MaxEvents,   \* bound: edits, changes of devices, retries of failed walks
    MaxFailures  \* bound: walks that fail and restarts of the scheduler

Attributes == {Columns[i] : i \in DOMAIN Columns}
Sections   == [existing : Seq([id : Attributes, name : Names]),
               additional : SUBSET Families]
Walkers    == Workers \cup {Main}

ASSUME ColumnsAssumption == Columns \in Seq(Attributes)
ASSUME ConfigsAssumption == Configs \subseteq Sections /\ None \notin Sections
ASSUME TablesAssumption == Tables \subseteq SUBSET (Nat \ {0})
ASSUME MainAssumption == Main \notin Workers
ASSUME BoundsAssumption == {MaxEvents, MaxFailures} \subseteq Nat

VARIABLES
    listing,   \* the inventory: the line of each device
    section,   \* the enricher section of config.yaml
    touched,   \* files that are newer than the refresh knows
    pc,        \* where the refresh is
    lines,     \* the lines it read
    unresolved,\* history: the devices whose name it could not resolve
    todo,      \* devices its current loop has still to do
    reparsed,  \* server_config_modified
    config,    \* enricher section of self._server_config
    old,       \* self._old_enricher
    static,    \* devices with a polling job for their line in _jobs_map
    dynamic,   \* devices with polling jobs for matched profiles
    unmatched, \* _unmatched_devices
    jobs,      \* _enricher_jobs_map: the section each job was created with
    onetime,   \* scheduled walks of IF-MIB
    queue,     \* those in the Celery queue
    walk,      \* what each walker does
    table,     \* the interfaces each device has now
    ifWalked,  \* Mongo: devices with the flag onetime_if_walk
    stored,    \* MIB-STATIC-DATA: the list of each dimension, <<>> if none
    families,  \* the families with additionalVarBinds in MIB-STATIC-DATA
    events,    \* how many of each, for the bounds
    failures

files   == <<listing, section, touched>>
inventory == <<lines, unresolved>>
refresh == <<pc, inventory, todo, reparsed, config, old>>
polling == <<static, dynamic, unmatched>>
bounds  == <<events, failures>>
mongo   == <<ifWalked, stored, families>>
vars    == <<files, refresh, polling, jobs, onetime, queue, walk, table, mongo,
             bounds>>

Kinds   == {"absent", "static", "dynamic"}
Enricher == Configs \cup {None}
Requests == Devices \X Configs
Lists   == Seq(Nat)

(* dev, cfg: the device and the section of the task; cols: the columns to walk;
   read: what was read of each; n: the dimension to store next. *)
Walks == [stage : {"none", "read", "flag", "store"}, dev : Devices, cfg : Configs,
          cols : Seq(Attributes), read : [Attributes -> Lists], n : Nat \ {0}]

TypeOK ==
    /\ listing \in [Devices -> Kinds] /\ lines \in [Devices -> Kinds]
    /\ {section, config, old} \subseteq Enricher
    /\ touched \subseteq {"inventory", "config"} /\ reparsed \in BOOLEAN
    /\ pc \in {"idle", "lines", "compare", "hosts", "clean"}
    /\ {unresolved, todo, static, dynamic, unmatched, ifWalked}
           \subseteq SUBSET Devices
    /\ jobs \in [Devices \X Attributes -> Enricher]
    /\ onetime \subseteq Requests /\ queue \subseteq Requests
    /\ walk \in [Walkers -> Walks \cup {None}]
    /\ table \in [Devices -> Tables]
    /\ stored \in [Devices -> [Names -> Lists]]
    /\ families \in [Devices -> SUBSET Families]
    /\ events \in 0 .. MaxEvents /\ failures \in 0 .. MaxFailures

NoJobs == [k \in Devices \X Attributes |-> None]
Empty  == [n \in Names |-> <<>>]
NoLines == [d \in Devices |-> "absent"]

Init ==
    /\ listing \in [Devices -> Kinds] /\ section \in Enricher
    /\ table \in [Devices -> Tables]
    /\ touched = {"inventory", "config"}
    /\ pc = "idle" /\ lines = NoLines /\ unresolved = {} /\ todo = {}
    /\ reparsed = FALSE /\ config = None /\ old = None
    /\ static = {} /\ dynamic = {} /\ unmatched = {}
    /\ jobs = NoJobs /\ onetime = {} /\ queue = {}
    /\ walk = [w \in Walkers |-> None]
    /\ ifWalked = {} /\ stored = [d \in Devices |-> Empty]
    /\ families = [d \in Devices |-> {}]
    /\ events = 0 /\ failures = 0

Listed(f) == {d \in Devices : f[d] # "absent"}

-----------------------------------------------------------------------------
(* The refresh: __check_inventory. *)

(* Something is new: config.yaml is parsed if that is what changed, and the
   inventory is read: a line whose host is not resolved is as good as absent
   (is_valid_host). *)
RefreshBegins ==
    /\ pc = "idle" /\ walk[Main] = None /\ touched # {} /\ pc' = "lines"
    /\ touched' = {}
    /\ unresolved' \in SUBSET Listed(listing)
    /\ \/ unresolved' = {} /\ UNCHANGED failures
       \/ unresolved' # {} /\ failures < MaxFailures /\ failures' = failures + 1
    /\ lines' = [d \in Devices |-> IF d \in unresolved' THEN "absent" ELSE listing[d]]
    /\ todo' = Listed(listing) \ unresolved'
    /\ reparsed' = ("config" \in touched)
    /\ config' = IF "config" \in touched THEN section ELSE config
    /\ UNCHANGED <<listing, section, old, polling, jobs, onetime, queue, walk,
                   table, mongo, events>>

(* process_jobs_for_enricher returns at the first attribute that has a job. *)
Without(d) == {i \in DOMAIN config.existing :
                  \A j \in 1 .. i : jobs[<<d, config.existing[j].id>>] = None}

process_jobs_for_enricher(d) ==
    LET new == {<<d, config.existing[i].id>> : i \in Without(d)} IN
    jobs' = [k \in DOMAIN jobs |-> IF k \in new THEN config ELSE jobs[k]]

(* is_ifmib_different compares existing and additional variables of IF-MIB. *)
IfMib(c) == IF c = None THEN None ELSE <<c.existing, "IF-MIB" \in c.additional>>
is_ifmib_different(before) == IfMib(before) # IfMib(config)

deleted_oid_families(before) ==
    IF before = None THEN {} ELSE (before.additional \ config.additional) \ {"IF-MIB"}
modified_oid_families == config.additional \ {"IF-MIB"}

\* Mutant: the walk is done with the section that is replaced.
update_enricher_config_before(d, before) ==
    \/ /\ is_ifmib_different(before)
       /\ onetime' = onetime \cup {<<d, before>>}
       /\ UNCHANGED families
    \/ /\ ~is_ifmib_different(before)
       /\ families' = [families EXCEPT ![d] =
                          (@ \ deleted_oid_families(before)) \cup modified_oid_families]
       /\ UNCHANGED onetime

(* update_enricher_config: a walk if IF-MIB differs, otherwise the families. *)
update_enricher_config(d, before) ==
    \/ /\ is_ifmib_different(before)
       /\ onetime' = onetime \cup {<<d, config>>}
       /\ UNCHANGED families
    \/ /\ ~is_ifmib_different(before)
       /\ families' = [families EXCEPT ![d] =
                          (@ \ deleted_oid_families(before)) \cup modified_oid_families]
       /\ UNCHANGED onetime

(* __add_enricher_to_a_host *)
AddEnricher(d, before) ==
    IF config = None THEN UNCHANGED <<jobs, onetime, families>>
    ELSE process_jobs_for_enricher(d) /\ update_enricher_config(d, before)

(* check_if_new_host_was_added: new is who has no flag. *)
CheckIfNew(d) ==
    IF old # None /\ d \notin ifWalked THEN AddEnricher(d, None)
    ELSE UNCHANGED <<jobs, onetime, families>>

(* One line of the inventory. *)
DynamicLine(d) ==
    /\ pc = "lines" /\ d \in todo /\ lines[d] = "dynamic"
    /\ todo' = todo \ {d}
    /\ dynamic' = dynamic \ {d} /\ unmatched' = unmatched \cup {d}
    /\ CheckIfNew(d)
    /\ UNCHANGED <<files, pc, inventory, reparsed, config, old, static, queue, walk,
                   table, ifWalked, stored, bounds>>

NewLine(d) ==
    /\ pc = "lines" /\ d \in todo /\ lines[d] = "static" /\ d \notin static
    /\ todo' = todo \ {d}
    /\ static' = static \cup {d}
    /\ CheckIfNew(d)
    /\ UNCHANGED <<files, pc, inventory, reparsed, config, old, dynamic, unmatched,
                   queue, walk, table, ifWalked, stored, bounds>>

KnownLine(d) ==
    /\ pc = "lines" /\ d \in todo /\ lines[d] = "static" /\ d \in static
    /\ todo' = todo \ {d}
    /\ UNCHANGED <<files, pc, inventory, reparsed, config, old, polling, jobs,
                   onetime, queue, walk, table, mongo, bounds>>

LinesDone ==
    /\ pc = "lines" /\ todo = {}
    /\ pc' = "compare"
    /\ UNCHANGED <<files, inventory, todo, reparsed, config, old, polling, jobs,
                   onetime, queue, walk, table, mongo, bounds>>

(* run_enricher_changed_check: no section any more ... *)
EnricherRemoved ==
    /\ pc = "compare" /\ reparsed /\ config # old /\ config = None
    /\ stored' = [d \in Devices |-> Empty] /\ families' = [d \in Devices |-> {}]
    /\ old' = None /\ pc' = "clean"
    /\ UNCHANGED <<files, inventory, todo, reparsed, config, polling, jobs, onetime,
                   queue, walk, table, ifWalked, bounds>>

(* ... or another one: every listed device gets it. *)
EnricherChanged ==
    /\ pc = "compare" /\ reparsed /\ config # old /\ config # None
    /\ todo' = Listed(lines) /\ pc' = "hosts"
    /\ UNCHANGED <<files, inventory, reparsed, config, old, polling, jobs, onetime,
                   queue, walk, table, mongo, bounds>>

EnricherSame ==
    /\ pc = "compare" /\ ~(reparsed /\ config # old)
    /\ pc' = "clean"
    /\ UNCHANGED <<files, inventory, todo, reparsed, config, old, polling, jobs,
                   onetime, queue, walk, table, mongo, bounds>>

Host(d) ==
    /\ pc = "hosts" /\ d \in todo
    /\ todo' = todo \ {d}
    /\ AddEnricher(d, old)
    /\ UNCHANGED <<files, pc, inventory, reparsed, config, old, polling, queue, walk,
                   table, ifWalked, stored, bounds>>

HostsDone ==
    /\ pc = "hosts" /\ todo = {}
    /\ old' = config /\ pc' = "clean"
    /\ UNCHANGED <<files, inventory, todo, reparsed, config, polling, jobs, onetime,
                   queue, walk, table, mongo, bounds>>

(* clean_job_inventory: the jobs without a line go, and the document and the
   enricher jobs of a host that has lost a job and is not in the inventory. *)
Unlisted == {d \in static \cup dynamic : lines[d] = "absent"}

\* Mutant: a polling job that is cancelled keeps its entry.
clean_job_inventory_entry ==
    /\ pc = "clean"
    /\ ifWalked' = ifWalked \ Unlisted
    /\ stored' = [d \in Devices |-> IF d \in Unlisted THEN Empty ELSE stored[d]]
    /\ families' = [d \in Devices |-> IF d \in Unlisted THEN {} ELSE families[d]]
    /\ jobs' = [k \in DOMAIN jobs |-> IF k[1] \in Unlisted THEN None ELSE jobs[k]]
    /\ pc' = "idle" /\ lines' = NoLines /\ reparsed' = FALSE
    /\ UNCHANGED <<files, unresolved, todo, config, old, polling, onetime, queue,
                   walk, table, bounds>>

clean_job_inventory ==
    /\ pc = "clean"
    /\ static' = {d \in static : lines[d] = "static"} /\ dynamic' = {}
    /\ ifWalked' = ifWalked \ Unlisted
    /\ stored' = [d \in Devices |-> IF d \in Unlisted THEN Empty ELSE stored[d]]
    /\ families' = [d \in Devices |-> IF d \in Unlisted THEN {} ELSE families[d]]
    /\ jobs' = [k \in DOMAIN jobs |-> IF k[1] \in Unlisted THEN None ELSE jobs[k]]
    /\ pc' = "idle" /\ lines' = NoLines /\ reparsed' = FALSE
    /\ UNCHANGED <<files, unresolved, todo, config, old, unmatched, onetime, queue,
                   walk, table, bounds>>

Refresh ==
    \/ RefreshBegins \/ LinesDone \/ EnricherRemoved \/ EnricherChanged \/ EnricherSame
    \/ HostsDone \/ clean_job_inventory
    \/ \E d \in Devices : DynamicLine(d) \/ NewLine(d) \/ KnownLine(d) \/ Host(d)

-----------------------------------------------------------------------------
(* Walks. *)

NewWalk(d, c, cols) ==
    [stage |-> "read", dev |-> d, cfg |-> c, cols |-> cols,
     read |-> [a \in Attributes |-> <<>>], n |-> 1]

(* An enricher job that is due walks its column, in the main thread. *)
RunEnricherJob(d, a) ==
    /\ pc = "idle" /\ walk[Main] = None /\ jobs[<<d, a>>] # None
    /\ walk' = [walk EXCEPT ![Main] = NewWalk(d, jobs[<<d, a>>], <<a>>)]
    /\ UNCHANGED <<files, refresh, polling, jobs, onetime, queue, table, mongo,
                   bounds>>

(* onetime_task hands the walk to the workers. *)
RunOnetimeTask(r) ==
    /\ pc = "idle" /\ walk[Main] = None /\ r \in onetime
    /\ onetime' = onetime \ {r} /\ queue' = queue \cup {r}
    /\ UNCHANGED <<files, refresh, polling, jobs, walk, table, mongo, bounds>>

TakeTask(w) ==
    /\ walk[w] = None
    /\ \E r \in queue :
        /\ queue' = queue \ {r}
        /\ walk' = [walk EXCEPT ![w] = NewWalk(r[1], r[2], Columns)]
    /\ UNCHANGED <<files, refresh, polling, jobs, onetime, table, mongo, bounds>>

At(w, stage) == walk[w] # None /\ walk[w].stage = stage

(* The rows of the current column that nextCmd has not returned. *)
RowsLeft(x) == {i \in table[x.dev] : \A k \in 1 .. Len(x.read[Head(x.cols)]) :
                                        x.read[Head(x.cols)][k] < i}

ReadRow(w) ==
    /\ At(w, "read") /\ walk[w].cols # <<>>
    /\ \E i \in RowsLeft(walk[w]) :
        /\ \A k \in RowsLeft(walk[w]) : i <= k
        /\ walk' = [walk EXCEPT ![w].read[Head(walk[w].cols)] = Append(@, i)]
    /\ UNCHANGED <<files, refresh, polling, jobs, onetime, queue, table, mongo,
                   bounds>>

ColumnEnds(w) ==
    /\ At(w, "read") /\ walk[w].cols # <<>> /\ RowsLeft(walk[w]) = {}
    /\ walk' = [walk EXCEPT ![w].cols = Tail(@)]
    /\ UNCHANGED <<files, refresh, polling, jobs, onetime, queue, table, mongo,
                   bounds>>

(* The walk is complete, or the device stops answering. *)
WalkEnds(w) ==
    /\ At(w, "read")
    /\ \/ walk[w].cols = <<>> /\ UNCHANGED failures
       \/ walk[w].cols # <<>> /\ failures < MaxFailures /\ failures' = failures + 1
    /\ walk' = [walk EXCEPT ![w].stage = "flag"]
    /\ UNCHANGED <<files, refresh, polling, jobs, onetime, queue, table, mongo,
                   events>>

(* update_walked_host, if there was a row; the document is made if it is gone. *)
Flag(w) ==
    /\ At(w, "flag")
    /\ ifWalked' = IF \E a \in Attributes : walk[w].read[a] # <<>>
                   THEN ifWalked \cup {walk[w].dev} ELSE ifWalked
    /\ walk' = [walk EXCEPT ![w].stage = "store"]
    /\ UNCHANGED <<files, refresh, polling, jobs, onetime, queue, table, stored,
                   families, bounds>>

(* update_static_data_for_one_existing, for the dimensions that have values ... *)
StoreExisting(w) ==
    /\ At(w, "store") /\ walk[w].n <= Len(walk[w].cfg.existing)
    /\ LET e == walk[w].cfg.existing[walk[w].n] IN
        stored' = [stored EXCEPT ![walk[w].dev][e.name] =
                      IF walk[w].read[e.id] = <<>> THEN @ ELSE walk[w].read[e.id]]
    /\ walk' = [walk EXCEPT ![w].n = @ + 1]
    /\ UNCHANGED <<files, refresh, polling, jobs, onetime, queue, table, ifWalked,
                   families, bounds>>

(* ... then update_static_data_for_one for the families. *)
StoreAdditional(w) ==
    /\ At(w, "store") /\ walk[w].n > Len(walk[w].cfg.existing)
    /\ families' = [families EXCEPT ![walk[w].dev] = @ \cup walk[w].cfg.additional]
    /\ walk' = [walk EXCEPT ![w] = None]
    /\ UNCHANGED <<files, refresh, polling, jobs, onetime, queue, table, ifWalked,
                   stored, bounds>>

(* An exception: snmp_polling logs it and ends; or the worker dies. *)
Abort(w) ==
    /\ walk[w] # None /\ failures < MaxFailures
    /\ failures' = failures + 1
    /\ walk' = [walk EXCEPT ![w] = None]
    /\ UNCHANGED <<files, refresh, polling, jobs, onetime, queue, table, mongo,
                   events>>

Walking(w) == ReadRow(w) \/ ColumnEnds(w) \/ WalkEnds(w) \/ Flag(w) \/ StoreExisting(w)
                  \/ StoreAdditional(w)

-----------------------------------------------------------------------------
(* What others do. *)

Event == events < MaxEvents /\ events' = events + 1 /\ UNCHANGED failures

(* A matching thread finds profiles for a device. *)
Match(d) ==
    /\ d \in unmatched
    /\ unmatched' = unmatched \ {d} /\ dynamic' = dynamic \cup {d}
    /\ UNCHANGED <<files, refresh, static, jobs, onetime, queue, walk, table, mongo,
                   bounds>>

(* The retry of a failed walk of a device (AFTER_FAIL) walks IF-MIB first. *)
RetryWalk(d) ==
    /\ Event /\ section # None
    /\ queue' = queue \cup {<<d, section>>}
    /\ UNCHANGED <<files, refresh, polling, jobs, onetime, walk, table, mongo>>

EditInventory ==
    /\ Event
    /\ listing' \in [Devices -> Kinds]
    /\ touched' = touched \cup {"inventory"}
    /\ UNCHANGED <<section, refresh, polling, jobs, onetime, queue, walk, table,
                   mongo>>

EditConfig ==
    /\ Event
    /\ section' \in Enricher
    /\ touched' = touched \cup {"config"}
    /\ UNCHANGED <<listing, refresh, polling, jobs, onetime, queue, walk, table,
                   mongo>>

(* Interfaces come and go. *)
TableChanges(d) ==
    /\ Event
    /\ \E t \in Tables : table' = [table EXCEPT ![d] = t]
    /\ UNCHANGED <<files, refresh, polling, jobs, onetime, queue, walk, mongo>>

(* The scheduler ends, wherever it is, and starts again with what Mongo has. *)
Crash ==
    /\ failures < MaxFailures /\ failures' = failures + 1
    /\ touched' = {"inventory", "config"}
    /\ pc' = "idle" /\ lines' = NoLines /\ todo' = {} /\ reparsed' = FALSE
    /\ config' = None /\ old' = None
    /\ static' = {} /\ dynamic' = {} /\ unmatched' = {}
    /\ jobs' = NoJobs /\ onetime' = {}
    /\ walk' = [walk EXCEPT ![Main] = None]
    /\ UNCHANGED <<listing, section, unresolved, queue, table, mongo, events>>

Next ==
    \/ Refresh
    \/ \E d \in Devices, a \in Attributes : RunEnricherJob(d, a)
    \/ \E r \in Requests : RunOnetimeTask(r)
    \/ \E w \in Workers : TakeTask(w)
    \/ \E w \in Walkers : Walking(w) \/ Abort(w)
    \/ \E d \in Devices : Match(d) \/ RetryWalk(d) \/ TableChanges(d)
    \/ EditInventory \/ EditConfig \/ Crash

Spec == Init /\ [][Next]_vars

-----------------------------------------------------------------------------
(* Labelling a metric of the interface i: MibEnricher.  A dimension is looked up
   in its list, a family of additional variables adds the number itself. *)

\* Mutant: the lists are taken to start at 1.
extract_current_index_from_metric_1(i) == i

extract_current_index_from_metric(i) == i - 1

\* 0 stands for no label.
extract_dimension_name_and_value(values, index) ==
    IF 0 <= index /\ index < Len(values) THEN values[index + 1] ELSE 0

Label(d, name, i) ==
    extract_dimension_name_and_value(stored[d][name],
                                     extract_current_index_from_metric(i))

Number(d, i) ==
    IF families[d] # {} THEN extract_current_index_from_metric(i) + 1 ELSE 0

-----------------------------------------------------------------------------
(* Properties. *)

Contiguous(t) == \A i \in t : \A k \in 1 .. i : k \in t

(* A metric of an interface is labelled with a value of that interface, though
   the list it is taken from is that of a walk that may have been interrupted,
   or overtaken by changes of the device -- provided that the interfaces of the
   device are numbered 1, 2, 3 and so on. *)
LabelsTrue ==
    (\A t \in Tables : Contiguous(t)) =>
        \A d \in Devices, name \in Names : \A i \in 0 .. Len(stored[d][name]) + 1 :
            Label(d, name, i) \in {0, i} /\ Number(d, i) \in {0, i}

(* mongo.py says of the stored lists "INDEX MAPPING FOR OIDs (IF-MIB*.1 -> "lo",
   IF-MIB*.2 -> "eth0", ...)". *)
IndexMapping ==
    \A d \in Devices, name \in Names : \A i \in table[d] : Label(d, name, i) \in {0, i}

(* When a refresh is over, a listed device has an enricher job, or a flag in Mongo
   from an earlier walk keeps it from being new -- but one whose name this refresh
   could not resolve, which it treats as removed.  Whatever refreshes, restarts,
   matching threads and late walks do to the inventory, the job tables and the
   documents, no other device falls between them. *)
ListedIsEnriched ==
    pc = "idle" /\ touched = {} /\ config # None =>
        \A d \in Listed(listing) \ unresolved :
            \/ config.existing = <<>>
            \/ \E a \in Attributes : jobs[<<d, a>>] # None
            \/ d \in ifWalked

=============================================================================
