------------------------- MODULE EnricherJobsProofs -------------------------
(***************************************************************************)
(* Theorems about EnricherJobs, for any devices, workers, columns, names,  *)
(* sections, tables and bounds.                                            *)
(***************************************************************************)
EXTENDS EnricherJobs, TLAPS

LEMMA Constants ==
    /\ Columns \in Seq(Attributes)
    /\ Configs \subseteq Sections /\ None \notin Configs
    /\ Tables \subseteq SUBSET (Nat \ {0})
    /\ Main \in Walkers /\ Main \notin Workers /\ Workers \subseteq Walkers
    /\ MaxEvents \in Nat /\ MaxFailures \in Nat
    BY ColumnsAssumption, ConfigsAssumption, TablesAssumption, MainAssumption,
       BoundsAssumption DEF Walkers

(* An invariant that an inductive step may assume without unfolding it. *)
TypeInv == TypeOK

LEMMA TypeInit == Init => TypeInv
<1> SUFFICES ASSUME Init PROVE TypeOK
    BY DEF TypeInv
<1>1. Empty \in [Names -> Lists] /\ NoJobs \in [Devices \X Attributes -> Enricher]
      /\ NoLines \in [Devices -> Kinds]
    BY DEF Empty, NoJobs, NoLines, Lists, Enricher, Kinds
<1>2. /\ listing \in [Devices -> Kinds] /\ lines \in [Devices -> Kinds]
      /\ {section, config, old} \subseteq Enricher
      /\ jobs \in [Devices \X Attributes -> Enricher]
      /\ walk \in [Walkers -> Walks \cup {None}]
      /\ stored \in [Devices -> [Names -> Lists]]
      /\ families \in [Devices -> SUBSET Families]
    BY <1>1 DEF Init, Enricher
<1>3. events \in 0 .. MaxEvents /\ failures \in 0 .. MaxFailures
    BY Constants DEF Init
<1>4. /\ touched \subseteq {"inventory", "config"} /\ reparsed \in BOOLEAN
      /\ pc \in {"idle", "lines", "compare", "hosts", "clean"}
      /\ {unresolved, todo, static, dynamic, unmatched, ifWalked}
             \subseteq SUBSET Devices
      /\ onetime \subseteq Requests /\ queue \subseteq Requests
      /\ table \in [Devices -> Tables]
    BY DEF Init
<1> QED
    BY <1>2, <1>3, <1>4 DEF TypeOK

LEMMA EventType ==
    /\ TypeOK /\ Event => events' \in 0 .. MaxEvents /\ failures' \in 0 .. MaxFailures
    /\ TypeOK /\ Crash => failures' \in 0 .. MaxFailures
<1>1. /\ TypeOK => events \in 0 .. MaxEvents /\ failures \in 0 .. MaxFailures
      /\ MaxEvents \in Nat /\ MaxFailures \in Nat
    BY Constants DEF TypeOK
<1> QED
    BY <1>1 DEF Event, Crash

(* What a refresh does to one device. *)
LEMMA AddType ==
    ASSUME TypeOK, NEW d \in Devices, NEW before \in Enricher, AddEnricher(d, before)
    PROVE  /\ jobs' \in [Devices \X Attributes -> Enricher]
           /\ onetime' \subseteq Requests /\ families' \in [Devices -> SUBSET Families]
<1>1. CASE config = None
    BY <1>1 DEF AddEnricher, TypeOK
<1>2. CASE config # None
    <2>1. config \in Configs /\ config \in Sections
        BY <1>2, Constants DEF TypeOK, Enricher
    <2>2. jobs' \in [Devices \X Attributes -> Enricher]
        BY <1>2, <2>1 DEF AddEnricher, process_jobs_for_enricher, TypeOK, Enricher
    <2>3. config.additional \in SUBSET Families
        BY <2>1 DEF Sections
    <2> QED
        BY <1>2, <2>1, <2>2, <2>3
           DEF AddEnricher, update_enricher_config, TypeOK, Requests,
               modified_oid_families
<1> QED
    BY <1>1, <1>2

LEMMA CheckType ==
    ASSUME TypeOK, NEW d \in Devices, CheckIfNew(d)
    PROVE  /\ jobs' \in [Devices \X Attributes -> Enricher]
           /\ onetime' \subseteq Requests /\ families' \in [Devices -> SUBSET Families]
<1>1. None \in Enricher
    BY DEF Enricher
<1> QED
    BY <1>1, AddType DEF CheckIfNew, TypeOK

LEMMA WalkType ==
    ASSUME TypeOK, NEW w \in Walkers, walk[w] # None
    PROVE  /\ walk[w] \in Walks /\ walk[w].dev \in Devices /\ walk[w].cfg \in Configs
           /\ walk[w].read \in [Attributes -> Lists] /\ walk[w].cols \in Seq(Attributes)
           /\ walk[w].cfg.existing \in Seq([id : Attributes, name : Names])
           /\ walk[w].cfg.additional \in SUBSET Families
           /\ walk[w].n \in Nat \ {0}
<1>1. walk[w] \in Walks
    BY DEF TypeOK
<1>2. walk[w].cfg \in Sections
    BY <1>1, Constants DEF Walks
<1> QED
    BY <1>1, <1>2 DEF Walks, Sections

LEMMA NewWalkType ==
    ASSUME NEW d \in Devices, NEW c \in Configs, NEW cols \in Seq(Attributes)
    PROVE  NewWalk(d, c, cols) \in Walks
<1>1. [a \in Attributes |-> <<>>] \in [Attributes -> Lists]
    BY DEF Lists
<1> QED
    BY <1>1 DEF NewWalk, Walks

LEMMA StartType ==
    ASSUME TypeOK,
           \/ \E d \in Devices, a \in Attributes : RunEnricherJob(d, a)
           \/ \E r \in Requests : RunOnetimeTask(r)
           \/ \E w \in Workers : TakeTask(w)
    PROVE  /\ walk' \in [Walkers -> Walks \cup {None}]
           /\ onetime' \subseteq Requests /\ queue' \subseteq Requests
<1>1. ASSUME NEW d \in Devices, NEW a \in Attributes, RunEnricherJob(d, a)
      PROVE  walk' \in [Walkers -> Walks \cup {None}]
    <2>1. jobs[<<d, a>>] \in Configs
        BY <1>1 DEF RunEnricherJob, TypeOK, Enricher
    <2>2. <<a>> \in Seq(Attributes)
        BY <1>1
    <2>3. NewWalk(d, jobs[<<d, a>>], <<a>>) \in Walks
        BY <2>1, <2>2, NewWalkType
    <2> QED
        BY <1>1, <2>3 DEF RunEnricherJob, TypeOK
<1>2. ASSUME NEW w \in Workers, NEW r \in queue,
             walk' = [walk EXCEPT ![w] = NewWalk(r[1], r[2], Columns)]
      PROVE  walk' \in [Walkers -> Walks \cup {None}]
    <2>1. r \in Devices \X Configs
        BY DEF TypeOK, Requests
    <2>2. NewWalk(r[1], r[2], Columns) \in Walks
        BY <2>1, Constants, NewWalkType
    <2> QED
        BY <1>2, <2>2 DEF TypeOK
<1>3. ASSUME NEW w \in Workers, TakeTask(w)
      PROVE  walk' \in [Walkers -> Walks \cup {None}] /\ queue' \subseteq Requests
             /\ onetime' \subseteq Requests
    BY <1>2, <1>3 DEF TakeTask, TypeOK
<1>4. ASSUME NEW r \in Requests, RunOnetimeTask(r)
      PROVE  walk' \in [Walkers -> Walks \cup {None}] /\ queue' \subseteq Requests
             /\ onetime' \subseteq Requests
    BY <1>4 DEF RunOnetimeTask, TypeOK
<1>5. ASSUME NEW d \in Devices, NEW a \in Attributes, RunEnricherJob(d, a)
      PROVE  queue' \subseteq Requests /\ onetime' \subseteq Requests
    BY <1>5 DEF RunEnricherJob, TypeOK
<1> QED
    BY <1>1, <1>3, <1>4, <1>5

LEMMA Element ==
    ASSUME NEW R, NEW s \in Seq(R), NEW n \in 1 .. Len(s)
    PROVE  s[n] \in R
    OBVIOUS

LEMMA WalkingType ==
    ASSUME TypeOK, NEW w \in Walkers, Walking(w) \/ Abort(w)
    PROVE  /\ walk' \in [Walkers -> Walks \cup {None}]
           /\ ifWalked' \in SUBSET Devices
           /\ stored' \in [Devices -> [Names -> Lists]]
           /\ families' \in [Devices -> SUBSET Families]
           /\ failures' \in 0 .. MaxFailures
<1>0. walk[w] # None
    BY DEF Walking, Abort, ReadRow, ColumnEnds, WalkEnds, Flag, StoreExisting,
           StoreAdditional, At
<1> DEFINE x == walk[w]
<1>1. /\ x \in Walks /\ x.dev \in Devices /\ x.cfg \in Configs
      /\ x.read \in [Attributes -> Lists] /\ x.cols \in Seq(Attributes)
      /\ x.cfg.existing \in Seq([id : Attributes, name : Names])
      /\ x.cfg.additional \in SUBSET Families /\ x.n \in Nat \ {0}
    BY <1>0, WalkType
<1> HIDE DEF x
<1>2. CASE ReadRow(w)
    <2>1. PICK i \in RowsLeft(x) :
              walk' = [walk EXCEPT ![w].read[Head(walk[w].cols)] = Append(@, i)]
        BY <1>2 DEF ReadRow, x
    <2>2. Head(x.cols) \in Attributes
        BY <1>1, <1>2 DEF ReadRow, x
    <2>3. i \in Nat
        BY <1>1, <2>1, Constants DEF RowsLeft, TypeOK
    <2>4. Append(x.read[Head(x.cols)], i) \in Lists
        BY <1>1, <2>2, <2>3 DEF Lists
    <2>5. [x EXCEPT !.read[Head(x.cols)] = Append(@, i)] \in Walks
        BY <1>1, <2>2, <2>4 DEF Walks
    <2>6. walk' = [walk EXCEPT ![w] = [x EXCEPT !.read[Head(x.cols)] = Append(@, i)]]
        BY <2>1 DEF x
    <2> QED
        BY <1>2, <2>5, <2>6 DEF ReadRow, TypeOK, mongo, bounds
<1>3. CASE ColumnEnds(w)
    <2>1. Tail(x.cols) \in Seq(Attributes)
        BY <1>1, <1>3 DEF ColumnEnds, x
    <2>2. [x EXCEPT !.cols = Tail(@)] \in Walks
        BY <1>1, <2>1 DEF Walks
    <2> QED
        BY <1>3, <2>2 DEF ColumnEnds, TypeOK, mongo, bounds, x
<1>4. CASE WalkEnds(w)
    <2>1. [x EXCEPT !.stage = "flag"] \in Walks
        BY <1>1 DEF Walks
    <2>2. failures' \in 0 .. MaxFailures
        BY <1>4, Constants DEF WalkEnds, TypeOK
    <2> QED
        BY <1>4, <2>1, <2>2 DEF WalkEnds, TypeOK, mongo, x
<1>5. CASE Flag(w)
    <2>1. [x EXCEPT !.stage = "store"] \in Walks
        BY <1>1 DEF Walks
    <2>2. ifWalked' \in SUBSET Devices
        BY <1>1, <1>5 DEF Flag, TypeOK, x
    <2> QED
        BY <1>5, <2>1, <2>2 DEF Flag, TypeOK, bounds, x
<1>6. CASE StoreExisting(w)
    <2>1. [x EXCEPT !.n = @ + 1] \in Walks
        BY <1>1 DEF Walks
    <2>2. stored' \in [Devices -> [Names -> Lists]]
        <3>1. x.n \in 1 .. Len(x.cfg.existing)
            <4>1. x.n <= Len(x.cfg.existing)
                BY <1>6 DEF StoreExisting, x
            <4> QED
                BY <1>1, <4>1 DEF Walks
        <3>2. PICK e \in [id : Attributes, name : Names] :
                  stored' = [stored EXCEPT ![x.dev][e.name] =
                                IF x.read[e.id] = <<>> THEN @ ELSE x.read[e.id]]
            <4>1. x.cfg.existing[x.n] \in [id : Attributes, name : Names]
                BY <1>1, <3>1, Element
            <4>2. stored' = [stored EXCEPT ![x.dev][x.cfg.existing[x.n].name] =
                                IF x.read[x.cfg.existing[x.n].id] = <<>> THEN @
                                ELSE x.read[x.cfg.existing[x.n].id]]
                BY <1>6 DEF StoreExisting, x
            <4> QED
                BY <4>1, <4>2
        <3>3. x.read[e.id] \in Lists
            BY <1>1
        <3> QED
            BY <1>1, <3>2, <3>3 DEF TypeOK
    <2> QED
        BY <1>6, <2>1, <2>2 DEF StoreExisting, TypeOK, bounds, x
<1>7. CASE StoreAdditional(w)
    <2>1. families' \in [Devices -> SUBSET Families]
        BY <1>1, <1>7 DEF StoreAdditional, TypeOK, x
    <2> QED
        BY <1>7, <2>1 DEF StoreAdditional, TypeOK, bounds
<1>8. CASE Abort(w)
    BY <1>8, Constants DEF Abort, TypeOK, mongo
<1> QED
    BY <1>2, <1>3, <1>4, <1>5, <1>6, <1>7, <1>8 DEF Walking

LEMMA TypeNext == TypeInv /\ [Next]_vars => TypeInv'
<1> SUFFICES ASSUME TypeOK, [Next]_vars PROVE TypeOK'
    BY DEF TypeInv
<1>0. /\ Empty \in [Names -> Lists] /\ NoJobs \in [Devices \X Attributes -> Enricher]
      /\ NoLines \in [Devices -> Kinds] /\ None \in Enricher
    BY DEF Empty, NoJobs, NoLines, Lists, Enricher, Kinds
<1>1. ASSUME NEW d \in Devices, DynamicLine(d) \/ NewLine(d) PROVE TypeOK'
    <2>1. CheckIfNew(d)
        BY <1>1 DEF DynamicLine, NewLine
    <2>2. UNCHANGED <<files, pc, inventory, reparsed, config, old, queue, walk, table,
                      ifWalked, stored, bounds>>
        BY <1>1 DEF DynamicLine, NewLine
    <2>3. {todo', static', dynamic', unmatched'} \subseteq SUBSET Devices
        BY <1>1 DEF DynamicLine, NewLine, TypeOK
    <2>4. /\ jobs' \in [Devices \X Attributes -> Enricher]
          /\ onetime' \subseteq Requests /\ families' \in [Devices -> SUBSET Families]
        BY <2>1, CheckType
    <2> QED
        BY <2>2, <2>3, <2>4 DEF TypeOK, files, inventory, bounds
<1>2. ASSUME NEW d \in Devices, Host(d) PROVE TypeOK'
    <2>1. AddEnricher(d, old) /\ old \in Enricher
        BY <1>2 DEF Host, TypeOK
    <2> QED
        BY <1>2, <2>1, AddType DEF Host, TypeOK, files, inventory, polling, bounds
<1>3. CASE RefreshBegins
    <2>1. /\ unresolved' \in SUBSET Devices /\ todo' \in SUBSET Devices
          /\ lines' \in [Devices -> Kinds]
        BY <1>0, <1>3 DEF RefreshBegins, Listed, TypeOK, Kinds
    <2>2. events' \in 0 .. MaxEvents /\ failures' \in 0 .. MaxFailures
        BY <1>3, Constants DEF RefreshBegins, TypeOK
    <2> QED
        BY <1>3, <2>1, <2>2 DEF RefreshBegins, TypeOK, polling, mongo
<1>4. CASE \E d \in Devices : KnownLine(d)
    BY <1>4 DEF KnownLine, TypeOK, files, inventory, polling, mongo, bounds
<1>5. CASE LinesDone \/ EnricherChanged \/ EnricherSame \/ HostsDone
    BY <1>5 DEF LinesDone, EnricherChanged, EnricherSame, HostsDone, Listed, TypeOK,
        files, inventory, polling, mongo, bounds
<1>6. CASE EnricherRemoved
    BY <1>0, <1>6 DEF EnricherRemoved, TypeOK, files, inventory, polling, bounds
<1>7. CASE clean_job_inventory
    <2>1. jobs' \in [Devices \X Attributes -> Enricher]
        BY <1>0, <1>7 DEF clean_job_inventory, TypeOK
    <2>2. stored' \in [Devices -> [Names -> Lists]]
          /\ families' \in [Devices -> SUBSET Families]
        BY <1>0, <1>7 DEF clean_job_inventory, TypeOK
    <2> QED
        BY <1>0, <1>7, <2>1, <2>2 DEF clean_job_inventory, TypeOK, files, bounds
<1>8. CASE \/ \E d \in Devices, a \in Attributes : RunEnricherJob(d, a)
           \/ \E r \in Requests : RunOnetimeTask(r)
           \/ \E w \in Workers : TakeTask(w)
    <2>1. UNCHANGED <<files, refresh, polling, jobs, table, mongo, bounds>>
        BY <1>8 DEF RunEnricherJob, RunOnetimeTask, TakeTask
    <2> QED
        BY <1>8, <2>1, StartType DEF TypeOK, files, refresh, inventory, polling, mongo,
            bounds
<1>9. ASSUME NEW w \in Walkers, Walking(w) \/ Abort(w) PROVE TypeOK'
    <2>1. UNCHANGED <<files, refresh, polling, jobs, onetime, queue, table, events>>
        <3>1. CASE WalkEnds(w)
            BY <3>1 DEF WalkEnds
        <3>2. CASE Abort(w)
            BY <3>2 DEF Abort
        <3>3. CASE ReadRow(w) \/ ColumnEnds(w) \/ Flag(w)
            BY <3>3 DEF ReadRow, ColumnEnds, Flag, bounds
        <3>4. CASE StoreExisting(w) \/ StoreAdditional(w)
            BY <3>4 DEF StoreExisting, StoreAdditional, bounds
        <3> QED
            BY <1>9, <3>1, <3>2, <3>3, <3>4 DEF Walking
    <2> QED
        BY <1>9, <2>1, WalkingType DEF TypeOK, files, refresh, inventory, polling
<1>10. CASE \E d \in Devices : Match(d)
    BY <1>10 DEF Match, TypeOK, files, refresh, inventory, mongo, bounds
<1>11. ASSUME NEW d \in Devices, RetryWalk(d) PROVE TypeOK'
    <2>1. <<d, section>> \in Requests
        BY <1>11 DEF RetryWalk, TypeOK, Enricher, Requests
    <2> QED
        BY <1>11, <2>1, EventType DEF RetryWalk, TypeOK, files, refresh, inventory,
            polling, mongo
<1>12. CASE EditInventory \/ EditConfig \/ \E d \in Devices : TableChanges(d)
    BY <1>12, EventType DEF EditInventory, EditConfig, TableChanges, TypeOK, files,
        refresh, inventory, polling, mongo
<1>13. CASE Crash
    BY <1>0, <1>13, EventType DEF Crash, TypeOK, mongo
<1>14. CASE UNCHANGED vars
    BY <1>14 DEF vars, TypeOK, files, refresh, inventory, polling, mongo, bounds
<1> QED
    BY <1>1, <1>2, <1>3, <1>4, <1>5, <1>6, <1>7, <1>8, <1>9, <1>10, <1>11, <1>12, <1>13,
       <1>14 DEF Next, Refresh

(* Every variable stays of its type. *)
THEOREM TypeCorrect == Spec => []TypeOK
    BY TypeInit, TypeNext, PTL DEF Spec, TypeInv

-----------------------------------------------------------------------------
(* LabelsTrue.  Where interfaces are numbered from 1 on, whatever a walk has read
   of a column is 1, 2, 3 ... up to somewhere, and so is what is stored. *)

Prefix(s) == \A k \in 1 .. Len(s) : s[k] = k

ReadInv   == \A w \in Walkers : walk[w] # None =>
                 \A a \in Attributes : Prefix(walk[w].read[a])
StoredInv == \A d \in Devices, name \in Names : Prefix(stored[d][name])

LabelInv == (\A t \in Tables : Contiguous(t)) => ReadInv /\ StoredInv

LEMMA EmptyPrefix == Prefix(<<>>)
    BY DEF Prefix

(* The next row of a contiguous table is the next number. *)
LEMMA NextRow ==
    ASSUME NEW s \in Lists, Prefix(s), NEW t \in Tables, Contiguous(t),
           NEW i \in t, \A k \in 1 .. Len(s) : s[k] < i,
           \A m \in t : (\A k \in 1 .. Len(s) : s[k] < m) => i <= m
    PROVE  Prefix(Append(s, i))
<1>1. s \in Seq(Nat) /\ Len(s) \in Nat /\ i \in Nat /\ i # 0
    BY Constants DEF Lists
<1>2. \A k \in 1 .. Len(s) : k < i
    BY DEF Prefix
<1>3. Len(s) + 1 <= i
    <2>1. CASE Len(s) = 0
        BY <1>1, <2>1
    <2>2. CASE Len(s) # 0
        <3>1. Len(s) \in 1 .. Len(s)
            BY <1>1, <2>2
        <3> QED
            BY <1>1, <1>2, <3>1
    <2> QED
        BY <2>1, <2>2
<1>4. Len(s) + 1 \in t
    BY <1>1, <1>3 DEF Contiguous
<1>5. \A k \in 1 .. Len(s) : s[k] < Len(s) + 1
    BY <1>1 DEF Prefix
<1>6. i = Len(s) + 1
    <2>1. i <= Len(s) + 1
        BY <1>4, <1>5
    <2> QED
        BY <1>1, <1>3, <2>1
<1> SUFFICES ASSUME NEW k \in 1 .. Len(Append(s, i)) PROVE Append(s, i)[k] = k
    BY DEF Prefix
<1>7. CASE k = Len(s) + 1
    BY <1>1, <1>6, <1>7
<1>8. CASE k # Len(s) + 1
    <2>1. k \in 1 .. Len(s)
        BY <1>1, <1>8
    <2>2. Append(s, i)[k] = s[k]
        BY <1>1, <2>1
    <2> QED
        BY <2>1, <2>2 DEF Prefix
<1> QED
    BY <1>7, <1>8

LEMMA NewWalkRead ==
    ASSUME NEW d, NEW c, NEW cols, NEW a \in Attributes
    PROVE  Prefix(NewWalk(d, c, cols).read[a])
    BY EmptyPrefix DEF NewWalk

LEMMA LabelRow ==
    ASSUME TypeOK, ReadInv, \A t \in Tables : Contiguous(t),
           NEW w \in Walkers, ReadRow(w)
    PROVE  ReadInv'
<1>0. walk[w] # None /\ walk[w].cols # <<>>
    BY DEF ReadRow, At
<1> DEFINE x == walk[w]
           c == Head(x.cols)
<1>1. x.read \in [Attributes -> Lists] /\ x.dev \in Devices /\ c \in Attributes
      /\ x \in Walks
    BY <1>0, WalkType
<1>2. PICK i \in RowsLeft(x) :
          /\ \A k \in RowsLeft(x) : i <= k
          /\ walk' = [walk EXCEPT ![w].read[Head(walk[w].cols)] = Append(@, i)]
    BY DEF ReadRow
<1>3. /\ i \in table[x.dev] /\ table[x.dev] \in Tables /\ x.read[c] \in Lists
      /\ \A k \in 1 .. Len(x.read[c]) : x.read[c][k] < i
      /\ \A m \in table[x.dev] : (\A k \in 1 .. Len(x.read[c]) : x.read[c][k] < m) => i <= m
    BY <1>1, <1>2 DEF RowsLeft, TypeOK
<1>4. Prefix(x.read[c])
    BY <1>0, <1>1 DEF ReadInv
<1>5. Prefix(Append(x.read[c], i))
    BY <1>3, <1>4, NextRow
<1> SUFFICES ASSUME NEW v \in Walkers, walk'[v] # None, NEW a \in Attributes
             PROVE  Prefix(walk'[v].read[a])
    BY DEF ReadInv
<1>6. CASE v # w
    <2>1. walk'[v] = walk[v]
        BY <1>2, <1>6 DEF TypeOK
    <2> QED
        BY <2>1 DEF ReadInv
<1>7. CASE v = w
    <2>1. walk'[w] = [x EXCEPT !.read = [x.read EXCEPT ![c] = Append(x.read[c], i)]]
        BY <1>2 DEF TypeOK
    <2>2. walk'[w].read = [x.read EXCEPT ![c] = Append(x.read[c], i)]
        BY <1>1, <2>1 DEF Walks
    <2>3. walk'[w].read[a] = IF a = c THEN Append(x.read[c], i) ELSE x.read[a]
        BY <1>1, <2>2
    <2> QED
        BY <1>0, <1>5, <1>7, <2>3 DEF ReadInv
<1> QED
    BY <1>6, <1>7

(* The other steps of a walk read nothing. *)
LEMMA LabelWalking ==
    ASSUME TypeOK, ReadInv, StoredInv, NEW w \in Walkers,
           Walking(w) \/ Abort(w), ~ReadRow(w)
    PROVE  ReadInv' /\ StoredInv'
<1>0. walk[w] # None
    BY DEF Walking, Abort, ReadRow, ColumnEnds, WalkEnds, Flag, StoreExisting,
           StoreAdditional, At
<1> DEFINE x == walk[w]
<1>1. x \in Walks /\ x.cfg.existing \in Seq([id : Attributes, name : Names])
    BY <1>0, WalkType
<1>2. walk'[w] = None \/ walk'[w].read = x.read
    <2>1. CASE ColumnEnds(w)
        BY <1>1, <2>1 DEF ColumnEnds, TypeOK, Walks
    <2>2. CASE WalkEnds(w)
        BY <1>1, <2>2 DEF WalkEnds, TypeOK, Walks
    <2>3. CASE Flag(w)
        BY <1>1, <2>3 DEF Flag, TypeOK, Walks
    <2>4. CASE StoreExisting(w)
        BY <1>1, <2>4 DEF StoreExisting, TypeOK, Walks
    <2>5. CASE StoreAdditional(w) \/ Abort(w)
        BY <2>5 DEF StoreAdditional, Abort, TypeOK
    <2> QED
        BY <2>1, <2>2, <2>3, <2>4, <2>5 DEF Walking
<1>3. \A v \in Walkers : v # w => walk'[v] = walk[v]
    BY DEF Walking, Abort, ColumnEnds, WalkEnds, Flag, StoreExisting, StoreAdditional,
           TypeOK
<1>4. ReadInv'
    BY <1>0, <1>2, <1>3 DEF ReadInv
<1>5. CASE StoreExisting(w)
    <2> DEFINE e == x.cfg.existing[x.n]
    <2>1. x.n \in 1 .. Len(x.cfg.existing)
        <3>1. x.n \in Nat \ {0} /\ x.n <= Len(x.cfg.existing)
            BY <1>0, <1>5, WalkType DEF StoreExisting
        <3> QED
            BY <1>1, <3>1
    <2>2. e \in [id : Attributes, name : Names]
        BY <1>1, <2>1, Element
    <2>3. stored' = [stored EXCEPT ![x.dev][e.name] =
                         IF x.read[e.id] = <<>> THEN @ ELSE x.read[e.id]]
        BY <1>5 DEF StoreExisting
    <2>4. Prefix(x.read[e.id])
        BY <1>0, <2>2 DEF ReadInv
    <2> HIDE DEF e
    <2>5. \A d \in Devices, name \in Names :
              stored'[d][name] \in {stored[d][name], x.read[e.id]}
        BY <2>3 DEF TypeOK
    <2> QED
        BY <1>4, <2>4, <2>5 DEF StoredInv
<1>6. CASE ~StoreExisting(w)
    <2>1. stored' = stored
        BY <1>6 DEF Walking, Abort, ColumnEnds, WalkEnds, Flag, StoreAdditional, mongo
    <2> QED
        BY <1>4, <2>1 DEF StoredInv
<1> QED
    BY <1>5, <1>6

LEMMA LabelNext == TypeInv /\ LabelInv /\ [Next]_vars => LabelInv'
<1> SUFFICES ASSUME TypeOK, ReadInv, StoredInv, [Next]_vars,
                    \A t \in Tables : Contiguous(t)
             PROVE  ReadInv' /\ StoredInv'
    BY DEF TypeInv, LabelInv
<1>1. ASSUME NEW w \in Walkers, ReadRow(w) PROVE ReadInv' /\ StoredInv'
    <2>1. stored' = stored
        BY <1>1 DEF ReadRow, mongo
    <2> QED
        BY <1>1, <2>1, LabelRow DEF StoredInv
<1>2. ASSUME NEW w \in Walkers, Walking(w) \/ Abort(w) PROVE ReadInv' /\ StoredInv'
    BY <1>1, <1>2, LabelWalking
<1>3. ASSUME stored' = stored,
             \/ \E d \in Devices, a \in Attributes : RunEnricherJob(d, a)
             \/ \E w \in Workers : TakeTask(w)
      PROVE  ReadInv' /\ StoredInv'
    <2>1. PICK w \in Walkers :
              \E d, c, cols : walk' = [walk EXCEPT ![w] = NewWalk(d, c, cols)]
        BY <1>3, Constants DEF RunEnricherJob, TakeTask
    <2>2. PICK d, c, cols : walk' = [walk EXCEPT ![w] = NewWalk(d, c, cols)]
        BY <2>1
    <2>3. \A v \in Walkers : walk'[v] = walk[v] \/ walk'[v] = NewWalk(d, c, cols)
        BY <2>2 DEF TypeOK
    <2> QED
        BY <1>3, <2>3, NewWalkRead DEF ReadInv, StoredInv
<1>4. ASSUME \A v \in Walkers : walk'[v] \in {walk[v], None},
             \A d \in Devices : stored'[d] \in {stored[d], Empty}
      PROVE  ReadInv' /\ StoredInv'
    <2>1. ReadInv'
        BY <1>4 DEF ReadInv
    <2>2. \A name \in Names : Prefix(Empty[name])
        BY EmptyPrefix DEF Empty
    <2> QED
        BY <1>4, <2>1, <2>2 DEF StoredInv
<1>5. CASE EnricherRemoved \/ clean_job_inventory
    BY <1>4, <1>5 DEF EnricherRemoved, clean_job_inventory
<1>6. CASE Crash
    BY <1>4, <1>6 DEF Crash, TypeOK, mongo
<1>7. CASE Refresh /\ ~EnricherRemoved /\ ~clean_job_inventory
    <2>1. UNCHANGED <<walk, stored>>
        BY <1>7 DEF Refresh, RefreshBegins, LinesDone, EnricherChanged, EnricherSame,
            HostsDone, DynamicLine, NewLine, KnownLine, Host, mongo
    <2> QED
        BY <2>1, <1>4
<1>8. CASE UNCHANGED vars
    BY <1>4, <1>8 DEF vars, mongo
<1>9. CASE \/ \E r \in Requests : RunOnetimeTask(r)
           \/ \E d \in Devices : Match(d) \/ RetryWalk(d) \/ TableChanges(d)
           \/ EditInventory \/ EditConfig
    <2>1. UNCHANGED <<walk, stored>>
        BY <1>9 DEF RunOnetimeTask, Match, RetryWalk, TableChanges, EditInventory,
            EditConfig, mongo
    <2> QED
        BY <2>1, <1>4
<1>10. CASE \/ \E d \in Devices, a \in Attributes : RunEnricherJob(d, a)
            \/ \E w \in Workers : TakeTask(w)
    <2>1. stored' = stored
        BY <1>10 DEF RunEnricherJob, TakeTask, mongo
    <2> QED
        BY <1>3, <1>10, <2>1
<1> QED
    BY <1>2, <1>5, <1>6, <1>7, <1>8, <1>9, <1>10 DEF Next

(* A metric is labelled with a value of its own interface, for all devices whose
   interfaces are numbered 1, 2, 3 and so on. *)
THEOREM LabelsCorrect == Spec => []LabelsTrue
<1>1. Init => LabelInv
    <2> SUFFICES ASSUME Init PROVE ReadInv /\ StoredInv
        BY DEF LabelInv
    <2>1. ReadInv
        BY DEF Init, ReadInv
    <2>2. StoredInv
        BY EmptyPrefix DEF Init, StoredInv, Empty
    <2> QED
        BY <2>1, <2>2
<1>2. TypeInv /\ LabelInv => LabelsTrue
    <2> SUFFICES ASSUME TypeOK, StoredInv, NEW d \in Devices, NEW name \in Names,
                        NEW i \in 0 .. Len(stored[d][name]) + 1
                 PROVE  Label(d, name, i) \in {0, i} /\ Number(d, i) \in {0, i}
        BY DEF LabelsTrue, LabelInv, TypeInv
    <2>1. stored[d][name] \in Seq(Nat) /\ Prefix(stored[d][name])
        BY DEF TypeOK, Lists, StoredInv
    <2>2. i \in Int /\ Len(stored[d][name]) \in Nat
        BY <2>1
    <2>3. Number(d, i) \in {0, i}
        BY <2>2 DEF Number, extract_current_index_from_metric
    <2>4. CASE 0 <= i - 1 /\ i - 1 < Len(stored[d][name])
        <3>1. i \in 1 .. Len(stored[d][name]) /\ (i - 1) + 1 = i
            BY <2>2, <2>4
        <3>2. stored[d][name][i] = i
            BY <2>1, <3>1 DEF Prefix
        <3>3. Label(d, name, i) = stored[d][name][(i - 1) + 1]
            BY <2>4 DEF Label, extract_dimension_name_and_value,
                extract_current_index_from_metric
        <3> QED
            BY <2>3, <3>1, <3>2, <3>3
    <2>5. CASE ~(0 <= i - 1 /\ i - 1 < Len(stored[d][name]))
        BY <2>3, <2>5 DEF Label, extract_dimension_name_and_value,
            extract_current_index_from_metric
    <2> QED
        BY <2>4, <2>5
<1> QED
    BY TypeInit, TypeNext, LabelNext, <1>1, <1>2, PTL DEF Spec

-----------------------------------------------------------------------------
(* ListedIsEnriched.  What a refresh establishes of the devices it has seen is
   kept until the next one for every device with a static polling job: that one
   takes them for known and asks nothing.  While a new section is being taken up
   nothing is known, and the loop over all listed devices will run. *)

HasJob(d)  == \E a \in Attributes : jobs[<<d, a>>] # None
Covered(d) == config.existing = <<>> \/ HasJob(d) \/ d \in ifWalked

KnownInv == pc \in {"idle", "lines"} /\ config = old /\ config # None =>
                \A d \in static : Covered(d)
SeenInv  == pc \in {"lines", "compare"} /\ config = old /\ config # None =>
                \A d \in Listed(lines) \ todo : Covered(d)
HostsInv == pc = "hosts" => config # None /\ \A d \in Listed(lines) \ todo : Covered(d)
CleanInv == pc = "clean" /\ config # None => \A d \in Listed(lines) : Covered(d)
IdleInv  == pc = "idle" /\ "inventory" \notin touched /\ config # None =>
                \A d \in Listed(listing) \ unresolved : Covered(d)
PhaseInv == /\ pc \in {"idle", "clean"} => config = old
            /\ pc \in {"lines", "compare"} => config = old \/ reparsed
            /\ pc # "idle" /\ "inventory" \notin touched =>
                   Listed(lines) = Listed(listing) \ unresolved
            /\ pc = "compare" => todo = {}

ListedInv == KnownInv /\ SeenInv /\ HostsInv /\ CleanInv /\ IdleInv /\ PhaseInv

(* Nothing but the end of a refresh and a restart takes jobs or flags away. *)
Grows == /\ config' = config /\ ifWalked \subseteq ifWalked'
         /\ \A k \in Devices \X Attributes : jobs[k] # None => jobs'[k] # None

LEMMA CoveredGrows ==
    ASSUME Grows, NEW d \in Devices, Covered(d)
    PROVE  Covered(d)'
    BY DEF Grows, Covered, HasJob

LEMMA Added ==
    ASSUME TypeOK, NEW d \in Devices, NEW before \in Enricher, AddEnricher(d, before),
           config' = config, ifWalked' = ifWalked
    PROVE  Grows /\ (config # None => Covered(d)')
<1>1. CASE config = None
    BY <1>1 DEF AddEnricher, Grows
<1>2. CASE config # None
    <2>1. /\ config \in Sections
          /\ config.existing \in Seq([id : Attributes, name : Names])
        BY <1>2, Constants DEF TypeOK, Enricher, Sections
    <2>2. process_jobs_for_enricher(d)
        BY <1>2 DEF AddEnricher
    <2>3. \A k \in Devices \X Attributes : jobs'[k] \in {jobs[k], config}
        BY <2>2 DEF process_jobs_for_enricher, TypeOK
    <2>4. Grows
        BY <1>2, <2>3 DEF Grows
    <2>5. ASSUME config.existing # <<>> PROVE HasJob(d)'
        <3> DEFINE first == <<d, config.existing[1].id>>
        <3>1. /\ 1 \in 1 .. Len(config.existing)
              /\ 1 \in DOMAIN config.existing
            BY <2>1, <2>5
        <3>2. config.existing[1] \in [id : Attributes, name : Names]
            BY <2>1, <3>1, Element
        <3>3. config.existing[1].id \in Attributes /\ first \in Devices \X Attributes
            BY <3>2
        <3>4. CASE jobs[first] # None
            BY <2>4, <3>3, <3>4 DEF Grows, HasJob
        <3>5. CASE jobs[first] = None
            <4>1. \A j \in 1 .. 1 : j = 1
                OBVIOUS
            <4>2. 1 \in Without(d)
                BY <3>1, <3>5, <4>1 DEF Without
            <4>3. jobs'[first] = config
                BY <2>2, <3>3, <4>2 DEF process_jobs_for_enricher, TypeOK
            <4> QED
                BY <1>2, <3>3, <4>3 DEF HasJob
        <3> QED
            BY <3>4, <3>5
    <2> QED
        BY <2>4, <2>5 DEF Covered
<1> QED
    BY <1>1, <1>2

(* A device that is new to a refresh is covered when its line is done, if the
   section is the one that was taken up before. *)
LEMMA Checked ==
    ASSUME TypeOK, NEW d \in Devices, CheckIfNew(d), config' = config,
           ifWalked' = ifWalked
    PROVE  Grows /\ (config = old /\ config # None => Covered(d)')
<1>1. CASE old # None /\ d \notin ifWalked
    <2>1. AddEnricher(d, None) /\ None \in Enricher
        BY <1>1 DEF CheckIfNew, Enricher
    <2> QED
        BY <2>1, Added
<1>2. CASE ~(old # None /\ d \notin ifWalked)
    BY <1>2 DEF CheckIfNew, Grows, Covered
<1> QED
    BY <1>1, <1>2

(* Steps of others, and of the walks. *)
LEMMA ListedKept ==
    ASSUME TypeOK, ListedInv, Grows,
           UNCHANGED <<pc, inventory, todo, reparsed, old, static>>,
           \/ touched' = touched /\ listing' = listing
           \/ touched' = touched \cup {"config"} /\ listing' = listing
           \/ touched' = touched \cup {"inventory"}
    PROVE  ListedInv'
<1>1. \A d \in Devices : Covered(d) => Covered(d)'
    BY CoveredGrows
<1>2. "inventory" \notin touched' => "inventory" \notin touched /\ listing' = listing
    OBVIOUS
<1>3. /\ static \subseteq Devices /\ Listed(lines) \subseteq Devices
      /\ Listed(listing) \subseteq Devices /\ config' = config
      /\ Listed(lines)' = Listed(lines)
      /\ UNCHANGED <<lines, unresolved>>
    BY DEF TypeOK, Listed, Grows, inventory
<1>4. "inventory" \notin touched' => Listed(listing)' = Listed(listing)
    BY <1>2 DEF Listed
<1>5. KnownInv' /\ SeenInv'
    BY <1>1, <1>3 DEF ListedInv, KnownInv, SeenInv
<1>6. HostsInv' /\ CleanInv'
    BY <1>1, <1>3 DEF ListedInv, HostsInv, CleanInv
<1>7. IdleInv'
    BY <1>1, <1>2, <1>3, <1>4 DEF ListedInv, IdleInv
<1>8. PhaseInv'
    BY <1>2, <1>3, <1>4 DEF ListedInv, PhaseInv
<1> QED
    BY <1>5, <1>6, <1>7, <1>8 DEF ListedInv

(* The lines of the inventory. *)
LEMMA ListedLine ==
    ASSUME TypeOK, ListedInv, NEW d \in Devices,
           DynamicLine(d) \/ NewLine(d) \/ KnownLine(d)
    PROVE  ListedInv'
<1>0. /\ pc = "lines" /\ d \in todo /\ todo' = todo \ {d}
      /\ static' \subseteq static \cup {d}
      /\ UNCHANGED <<listing, touched, pc, lines, unresolved, reparsed, config, old,
                      ifWalked>>
    BY DEF DynamicLine, NewLine, KnownLine, files, inventory, mongo, polling
<1>1. Grows /\ (config = old /\ config # None => Covered(d)')
    <2>1. CASE DynamicLine(d) \/ NewLine(d)
        <3>1. CheckIfNew(d)
            BY <2>1 DEF DynamicLine, NewLine
        <3> QED
            BY <1>0, <3>1, Checked
    <2>2. CASE KnownLine(d)
        <3>1. jobs' = jobs /\ d \in static
            BY <2>2 DEF KnownLine
        <3>2. Grows
            BY <1>0, <3>1 DEF Grows
        <3> QED
            BY <1>0, <3>1, <3>2, CoveredGrows DEF ListedInv, KnownInv
    <2> QED
        BY <2>1, <2>2
<1>2. \A e \in Devices : Covered(e) => Covered(e)'
    BY <1>1, CoveredGrows
<1>3. /\ static \subseteq Devices /\ Listed(lines) \subseteq Devices
      /\ Listed(lines)' = Listed(lines) /\ Listed(listing)' = Listed(listing)
    BY <1>0 DEF TypeOK, Listed
<1>4. KnownInv' /\ SeenInv'
    BY <1>0, <1>1, <1>2, <1>3 DEF ListedInv, KnownInv, SeenInv
<1>5. HostsInv' /\ CleanInv' /\ IdleInv'
    BY <1>0 DEF HostsInv, CleanInv, IdleInv
<1>6. PhaseInv'
    BY <1>0, <1>3 DEF ListedInv, PhaseInv
<1> QED
    BY <1>4, <1>5, <1>6 DEF ListedInv

LEMMA ListedHost ==
    ASSUME TypeOK, ListedInv, NEW d \in Devices, Host(d)
    PROVE  ListedInv'
<1>0. /\ pc = "hosts" /\ d \in todo /\ todo' = todo \ {d} /\ config # None
      /\ UNCHANGED <<listing, touched, pc, lines, unresolved, reparsed, config, old,
                      ifWalked>>
    BY DEF Host, files, inventory, ListedInv, HostsInv
<1>1. Grows /\ Covered(d)'
    <2>1. AddEnricher(d, old) /\ old \in Enricher
        BY DEF Host, TypeOK
    <2> QED
        BY <1>0, <2>1, Added
<1>2. \A e \in Devices : Covered(e) => Covered(e)'
    BY <1>1, CoveredGrows
<1>3. /\ Listed(lines) \subseteq Devices /\ Listed(lines)' = Listed(lines)
      /\ Listed(listing)' = Listed(listing)
    BY <1>0 DEF Listed
<1>4. HostsInv'
    BY <1>0, <1>1, <1>2, <1>3 DEF ListedInv, HostsInv
<1>5. KnownInv' /\ SeenInv' /\ CleanInv' /\ IdleInv'
    BY <1>0 DEF KnownInv, SeenInv, CleanInv, IdleInv
<1>6. PhaseInv'
    BY <1>0, <1>3 DEF ListedInv, PhaseInv
<1> QED
    BY <1>4, <1>5, <1>6 DEF ListedInv

(* The other steps of a refresh. *)
LEMMA ListedPhase ==
    ASSUME TypeOK, ListedInv,
           LinesDone \/ EnricherRemoved \/ EnricherChanged \/ EnricherSame \/ HostsDone
    PROVE  ListedInv'
<1>0. UNCHANGED <<listing, touched, lines, unresolved, reparsed, config, static, jobs,
                  ifWalked>>
    BY DEF LinesDone, EnricherRemoved, EnricherChanged, EnricherSame, HostsDone, files,
           inventory, polling, mongo
<1>1. \A d \in Devices : Covered(d)' <=> Covered(d)
    BY <1>0 DEF Covered, HasJob
<1>2. /\ Listed(lines) \subseteq Devices /\ Listed(lines)' = Listed(lines)
      /\ Listed(listing)' = Listed(listing)
    BY <1>0 DEF Listed
<1>3. PhaseInv'
    BY <1>0, <1>2 DEF ListedInv, PhaseInv, LinesDone, EnricherRemoved, EnricherChanged,
        EnricherSame, HostsDone
<1>4. KnownInv' /\ IdleInv'
    BY DEF KnownInv, IdleInv, LinesDone, EnricherRemoved, EnricherChanged, EnricherSame,
           HostsDone
<1>5. SeenInv'
    BY <1>0, <1>1, <1>2 DEF ListedInv, SeenInv, LinesDone, EnricherRemoved,
        EnricherChanged, EnricherSame, HostsDone
<1>6. HostsInv'
    BY <1>0, <1>1, <1>2 DEF ListedInv, HostsInv, LinesDone, EnricherRemoved,
        EnricherChanged, EnricherSame, HostsDone
<1>7. CleanInv'
    <2>1. CASE EnricherSame
        BY <1>0, <1>1, <1>2, <2>1 DEF ListedInv, SeenInv, PhaseInv, CleanInv, EnricherSame
    <2>2. CASE HostsDone
        BY <1>0, <1>1, <1>2, <2>2 DEF ListedInv, HostsInv, CleanInv, HostsDone
    <2>3. CASE LinesDone \/ EnricherRemoved \/ EnricherChanged
        BY <1>0, <2>3 DEF CleanInv, LinesDone, EnricherRemoved, EnricherChanged
    <2> QED
        BY <2>1, <2>2, <2>3
<1> QED
    BY <1>3, <1>4, <1>5, <1>6, <1>7 DEF ListedInv

LEMMA ListedBegin ==
    ASSUME TypeOK, ListedInv, RefreshBegins
    PROVE  ListedInv'
<1>0. /\ pc = "idle" /\ pc' = "lines" /\ todo' = Listed(listing) \ unresolved'
      /\ lines' = [d \in Devices |-> IF d \in unresolved' THEN "absent" ELSE listing[d]]
      /\ UNCHANGED <<listing, old, static, jobs, ifWalked>>
      /\ reparsed' = ("config" \in touched)
      /\ config' = IF "config" \in touched THEN section ELSE config
    BY DEF RefreshBegins, polling, mongo
<1>1. config = old
    BY <1>0 DEF ListedInv, PhaseInv
<1>2. /\ Listed(lines)' = Listed(listing) \ unresolved'
      /\ Listed(listing)' = Listed(listing)
    BY <1>0 DEF Listed
<1>3. SeenInv' /\ HostsInv' /\ CleanInv' /\ IdleInv'
    BY <1>0, <1>2 DEF SeenInv, HostsInv, CleanInv, IdleInv
<1>4. PhaseInv'
    <2>1. config' = old' \/ reparsed'
        BY <1>0, <1>1
    <2> QED
        BY <1>0, <1>2, <2>1 DEF PhaseInv
<1>5. KnownInv'
    <2>1. config' = old' => config' = config
        BY <1>0, <1>1
    <2>2. config' = config => \A d : Covered(d) => Covered(d)'
        BY <1>0 DEF Covered, HasJob
    <2> QED
        BY <1>0, <1>1, <2>1, <2>2 DEF ListedInv, KnownInv
<1> QED
    BY <1>3, <1>4, <1>5 DEF ListedInv

LEMMA ListedClean ==
    ASSUME TypeOK, ListedInv, clean_job_inventory
    PROVE  ListedInv'
<1>0. /\ pc = "clean" /\ pc' = "idle" /\ config = old /\ config' = config /\ old' = old
      /\ static' \subseteq Listed(lines) /\ UNCHANGED <<listing, touched, unresolved>>
    BY DEF clean_job_inventory, files, ListedInv, PhaseInv, Listed, TypeOK
<1>1. ASSUME NEW d \in Listed(lines), Covered(d) PROVE Covered(d)'
    <2>1. d \notin Unlisted /\ d \in Devices
        BY DEF Unlisted, Listed
    <2>2. \A a \in Attributes : jobs'[<<d, a>>] = jobs[<<d, a>>]
        BY <2>1 DEF clean_job_inventory, TypeOK
    <2> QED
        BY <1>0, <1>1, <2>1, <2>2 DEF clean_job_inventory, Covered, HasJob
<1>2. KnownInv'
    BY <1>0, <1>1 DEF ListedInv, CleanInv, KnownInv
<1>3. IdleInv'
    <2>1. "inventory" \notin touched => Listed(listing)' \ unresolved' = Listed(lines)
        BY <1>0 DEF ListedInv, PhaseInv, Listed
    <2> QED
        BY <1>0, <1>1, <2>1 DEF ListedInv, CleanInv, IdleInv
<1>4. SeenInv' /\ HostsInv' /\ CleanInv' /\ PhaseInv'
    BY <1>0 DEF SeenInv, HostsInv, CleanInv, PhaseInv
<1> QED
    BY <1>2, <1>3, <1>4 DEF ListedInv

LEMMA ListedNext == TypeInv /\ ListedInv /\ [Next]_vars => ListedInv'
<1> SUFFICES ASSUME TypeOK, ListedInv, [Next]_vars PROVE ListedInv'
    BY DEF TypeInv
<1>1. CASE Refresh
    BY <1>1, ListedLine, ListedHost, ListedPhase, ListedBegin, ListedClean DEF Refresh
<1>2. CASE Crash
    BY <1>2 DEF Crash, ListedInv, KnownInv, SeenInv, HostsInv, CleanInv, IdleInv, PhaseInv
<1>3. ASSUME NEW w \in Walkers, Walking(w) \/ Abort(w) PROVE ListedInv'
    <2>1. UNCHANGED <<files, refresh, polling, jobs>> /\ ifWalked \subseteq ifWalked'
        <3>1. CASE WalkEnds(w) \/ Abort(w)
            BY <3>1 DEF WalkEnds, Abort, mongo
        <3>2. CASE ReadRow(w) \/ ColumnEnds(w) \/ Flag(w)
            BY <3>2 DEF ReadRow, ColumnEnds, Flag, mongo
        <3>3. CASE StoreExisting(w) \/ StoreAdditional(w)
            BY <3>3 DEF StoreExisting, StoreAdditional
        <3> QED
            BY <1>3, <3>1, <3>2, <3>3 DEF Walking
    <2> QED
        BY <2>1, ListedKept DEF Grows, files, refresh, polling
<1>4. CASE \/ \E d \in Devices, a \in Attributes : RunEnricherJob(d, a)
           \/ \E r \in Requests : RunOnetimeTask(r)
           \/ \E w \in Workers : TakeTask(w)
           \/ \E d \in Devices : Match(d) \/ RetryWalk(d) \/ TableChanges(d)
    <2>1. UNCHANGED <<files, refresh, static, jobs, ifWalked>>
        BY <1>4 DEF RunEnricherJob, RunOnetimeTask, TakeTask, Match, RetryWalk,
            TableChanges, polling, mongo
    <2> QED
        BY <2>1, ListedKept DEF Grows, files, refresh
<1>5. CASE EditInventory \/ EditConfig
    <2>1. /\ UNCHANGED <<refresh, static, jobs, ifWalked>>
          /\ \/ touched' = touched \cup {"config"} /\ listing' = listing
             \/ touched' = touched \cup {"inventory"}
        BY <1>5 DEF EditInventory, EditConfig, polling, mongo
    <2> QED
        BY <2>1, ListedKept DEF Grows, refresh
<1>6. CASE UNCHANGED vars
    <2>1. UNCHANGED <<files, refresh, static, jobs, ifWalked>>
        BY <1>6 DEF vars, polling, mongo
    <2> QED
        BY <2>1, ListedKept DEF Grows, files, refresh
<1> QED
    BY <1>1, <1>2, <1>3, <1>4, <1>5, <1>6 DEF Next

(* No listed device is left without enricher jobs but those a flag in Mongo makes
   look old, whatever the order of edits, refreshes, restarts and walks. *)
THEOREM ListedCorrect == Spec => []ListedIsEnriched
<1>1. Init => ListedInv
    BY DEF Init, ListedInv, KnownInv, SeenInv, HostsInv, CleanInv, IdleInv, PhaseInv
<1>2. ListedInv => ListedIsEnriched
    BY DEF ListedInv, IdleInv, ListedIsEnriched, Covered, HasJob
<1> QED
    BY TypeInit, TypeNext, ListedNext, <1>1, <1>2, PTL DEF Spec

=============================================================================
