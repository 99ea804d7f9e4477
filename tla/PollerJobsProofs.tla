-------------------------- MODULE PollerJobsProofs --------------------------
(***************************************************************************)
(* Theorems about PollerJobs, for any hosts, profiles, files, number of    *)
(* matcher threads and bounds.                                             *)
(***************************************************************************)
EXTENDS PollerJobs, FiniteSetTheorems, TLAPS

(* What the control points imply about the local variables. *)
MainShape ==
    /\ mpc \in {"drop", "dropDel", "dropUnmark", "acquire", "add"} =>
           mlines # <<>> /\ EntryKey(Head(mlines)) \in accepted
    /\ mpc \in {"dropDel", "dropUnmark", "cleanDel"} => mkey \in Keys

MatcherShape ==
    \A t \in Matchers :
        /\ tpc[t] \in {"create", "mark"} => tdev[t] # None
        /\ tpc[t] = "mark" => tkey[t] # None
        /\ tdev[t] # None => ttodo[t] \subseteq Matches[tdev[t].host]

TypeInv == TypeOK /\ MainShape /\ MatcherShape

-----------------------------------------------------------------------------
(* The number of waiting devices is a natural number. *)
LEMMA WaitingCount == Cardinality(Waiting) \in Nat
<1>1. Waiting \subseteq Hosts
    BY DEF Waiting
<1>2. IsFiniteSet(Waiting)
    BY <1>1, FS_Subset, HostsAssumption
<1> QED
    BY <1>2, FS_CardinalityType

(* The tail and the head of the lines still to read. *)
LEMMA LinesLeft ==
    ASSUME NEW s \in Seq(Lines), s # <<>>
    PROVE  /\ Tail(s) \in Seq(Lines)
           /\ Head(s) \in Lines
           /\ Head(s).host \in Hosts /\ Head(s).conf \in Confs
           /\ EntryKey(Head(s)) \in EntryKeys
           /\ Head(s).profile # Dynamic => EntryKey(Head(s)) \in Keys
<1>1. Tail(s) \in Seq(Lines) /\ Head(s) \in Lines
    OBVIOUS
<1> QED
    BY <1>1 DEF Lines, EntryKey, EntryKeys, Keys

(* process_new_job keeps the table typed. *)
LEMMA NewJobType ==
    ASSUME NEW k \in Keys, NEW c \in Confs, TypeOK, process_new_job(k, c)
    PROVE  /\ jobs' \in [JobIds -> Jobs \cup {None}]
           /\ jobsMap' \in [Keys -> JobIds \cup {None}]
<1>1. [key |-> k, conf |-> c] \in Jobs
    BY DEF Jobs
<1>2. CASE k[2] \in Known
    <2> PICK j \in FreeIds :
            /\ jobs' = [jobs EXCEPT ![j] = [key |-> k, conf |-> c]]
            /\ jobsMap' = [jobsMap EXCEPT ![k] = j]
        BY <1>2 DEF process_new_job
    <2>1. j \in JobIds
        BY DEF FreeIds
    <2> QED
        BY <1>1, <2>1 DEF TypeOK
<1>3. CASE k[2] \notin Known
    BY <1>3 DEF process_new_job, TypeOK
<1> QED
    BY <1>2, <1>3

LEMMA CancelType ==
    ASSUME NEW k, TypeOK, cancel_job(k)
    PROVE  jobs' \in [JobIds -> Jobs \cup {None}]
    BY DEF TypeOK, cancel_job

-----------------------------------------------------------------------------
LEMMA TypeInit == Init => TypeInv
<1> SUFFICES ASSUME Init PROVE TypeInv
    OBVIOUS
<1>1. inventory \in Seq(Lines)
    BY FilesAssumption DEF Init
<1>2. TypeOK
    <2>1. /\ jobs \in [JobIds -> Jobs \cup {None}]
          /\ jobsMap \in [Keys -> JobIds \cup {None}]
          /\ unmatched \in [Hosts -> Confs \cup {None}]
        BY DEF Init
    <2>2. /\ tpc \in [Matchers -> MatcherPcs]
          /\ tsize \in [Matchers -> Nat]
          /\ tdone \in [Matchers -> SUBSET Hosts]
          /\ tseen \in [Matchers -> SUBSET Hosts]
        BY DEF Init, MatcherPcs
    <2>3. /\ tdev \in [Matchers -> Devices \cup {None}]
          /\ ttodo \in [Matchers -> SUBSET Profiles]
          /\ tkey \in [Matchers -> Keys \cup {None}]
        BY DEF Init
    <2>4. /\ modified \in BOOLEAN /\ forceRefresh \in BOOLEAN /\ locked \in BOOLEAN
          /\ dynamicJobs = {} /\ described = {} /\ unresolved = {} /\ mpc \in MainPcs
          /\ mlines = <<>> /\ accepted = {} /\ mtodo = {} /\ mkey = None
          /\ mishaps = {} /\ envs = 0 /\ faults = 0
        BY Zenon DEF Init, MainPcs
    <2> QED
        BY <1>1, <2>1, <2>2, <2>3, <2>4 DEF TypeOK
<1> QED
    BY <1>2 DEF Init, TypeInv, MainShape, MatcherShape

LEMMA TypeNext == TypeInv /\ [Next]_vars => TypeInv'
<1> SUFFICES ASSUME TypeInv, [Next]_vars PROVE TypeInv'
    OBVIOUS
<1> USE DEF TypeInv, env, table, mainVars, matcherVars, counters, locals
<1>1. CASE StatFiles
    BY <1>1 DEF StatFiles, TypeOK, MainShape, MatcherShape, MainPcs
<1>2. CASE ReadInventory
    BY <1>2 DEF ReadInventory, TypeOK, MainShape, MatcherShape, MainPcs
<1>3. CASE SkipDuplicate
    <2>1. Tail(mlines) \in Seq(Lines)
        BY <1>3, LinesLeft DEF SkipDuplicate, TypeOK
    <2> QED
        BY <1>3, <2>1 DEF SkipDuplicate, TypeOK, MainShape, MatcherShape
<1>33. CASE SkipUnresolved
    <2>1. Tail(mlines) \in Seq(Lines) /\ Head(mlines).host \in Hosts
        BY <1>33, LinesLeft DEF SkipUnresolved, TypeOK
    <2> QED
        BY <1>33, <2>1 DEF SkipUnresolved, TypeOK, MainShape, MatcherShape
<1>4. CASE StaticNew
    <2> DEFINE l == Head(mlines)
    <2>1. /\ Tail(mlines) \in Seq(Lines)
          /\ EntryKey(l) \in Keys /\ EntryKey(l) \in EntryKeys /\ l.conf \in Confs
        BY <1>4, LinesLeft DEF StaticNew, TypeOK
    <2>2. process_new_job(EntryKey(l), l.conf)
        BY <1>4 DEF StaticNew
    <2>3. /\ jobs' \in [JobIds -> Jobs \cup {None}]
          /\ jobsMap' \in [Keys -> JobIds \cup {None}]
        BY <2>1, <2>2, NewJobType
    <2>4. accepted' \subseteq EntryKeys
        BY <1>4, <2>1 DEF StaticNew, TypeOK
    <2> QED
        BY <1>4, <2>1, <2>3, <2>4 DEF StaticNew, TypeOK, MainShape, MatcherShape
<1>5. CASE StaticUpdate
    <2> DEFINE l == Head(mlines)
    <2>1. /\ Tail(mlines) \in Seq(Lines)
          /\ EntryKey(l) \in EntryKeys /\ l.conf \in Confs
        BY <1>5, LinesLeft DEF StaticUpdate, TypeOK
    <2>2. jobs' \in [JobIds -> Jobs \cup {None}]
        BY <1>5, <2>1 DEF StaticUpdate, TypeOK, Jobs
    <2>3. accepted' \subseteq EntryKeys
        BY <1>5, <2>1 DEF StaticUpdate, TypeOK
    <2> QED
        BY <1>5, <2>1, <2>2, <2>3 DEF StaticUpdate, TypeOK, MainShape, MatcherShape
<1>6. CASE DynamicLine
    <2>1. EntryKey(Head(mlines)) \in EntryKeys
        BY <1>6, LinesLeft DEF DynamicLine, TypeOK
    <2>2. mtodo' \subseteq Keys
        BY <1>6 DEF DynamicLine, Mapped
    <2> QED
        BY <1>6, <2>1, <2>2 DEF DynamicLine, TypeOK, MainShape, MatcherShape, MainPcs
<1>7. CASE DropCancel
    <2> PICK k \in mtodo :
            /\ mtodo' = mtodo \ {k}
            /\ IF k \in dynamicJobs
               THEN cancel_job(k) /\ mkey' = k /\ mpc' = "dropDel"
               ELSE UNCHANGED <<jobs, mkey, mpc>>
        BY <1>7 DEF DropCancel
    <2>1. k \in Keys
        BY DEF TypeOK
    <2>2. jobs' \in [JobIds -> Jobs \cup {None}]
        BY CancelType DEF TypeOK
    <2> QED
        BY <1>7, <2>1, <2>2 DEF DropCancel, TypeOK, MainShape, MatcherShape, MainPcs
<1>8. CASE DropForget
    BY <1>8 DEF DropForget, TypeOK, MainShape, MatcherShape, MainPcs
<1>9. CASE DropUnmark
    BY <1>9 DEF DropUnmark, TypeOK, MainShape, MatcherShape, MainPcs
<1>10. CASE DropDone
    BY <1>10 DEF DropDone, TypeOK, MainShape, MatcherShape, MainPcs
<1>11. CASE AcquireToAdd
    BY <1>11 DEF AcquireToAdd, TypeOK, MainShape, MatcherShape, MainPcs
<1>12. CASE AddDevice
    <2>1. mlines # <<>>
        BY <1>12 DEF AddDevice, MainShape
    <2>2. /\ Tail(mlines) \in Seq(Lines)
          /\ Head(mlines).host \in Hosts /\ Head(mlines).conf \in Confs
        BY <2>1, LinesLeft DEF TypeOK
    <2> QED
        BY <1>12, <2>2 DEF AddDevice, TypeOK, MainShape, MatcherShape, MainPcs
<1>13. CASE LinesDone
    BY <1>13 DEF LinesDone, Mapped, TypeOK, MainShape, MatcherShape, MainPcs
<1>14. CASE CleanCancel
    <2> PICK k \in mtodo :
            /\ mtodo' = mtodo \ {k}
            /\ IF k \in accepted
               THEN UNCHANGED <<jobs, described, mkey, mpc>>
               ELSE /\ cancel_job(k)
                    /\ described' = IF DbId[k[1]] \in InventoryDbIds
                                    THEN described ELSE described \ {DbId[k[1]]}
                    /\ mkey' = k /\ mpc' = "cleanDel"
        BY <1>14 DEF CleanCancel
    <2>1. k \in Keys
        BY DEF TypeOK
    <2>2. jobs' \in [JobIds -> Jobs \cup {None}]
        BY CancelType DEF TypeOK
    <2>3. described' \subseteq DbIds
        BY DEF TypeOK
    <2> QED
        BY <1>14, <2>1, <2>2, <2>3 DEF CleanCancel, TypeOK, MainShape, MatcherShape,
           MainPcs
<1>15. CASE CleanForget
    BY <1>15 DEF CleanForget, TypeOK, MainShape, MatcherShape, MainPcs
<1>16. CASE CleanDone
    BY <1>16 DEF CleanDone, TypeOK, MainShape, MatcherShape, MainPcs
<1>17. CASE \E t \in Matchers : Start(t) \/ Check(t) \/ ConfigOk(t)
    <2>1. tpc' \in [Matchers -> MatcherPcs]
        BY <1>17 DEF Start, Check, ConfigOk, Goto, TypeOK, MatcherPcs
    <2>2. TypeOK' /\ MainShape'
        BY <1>17, <2>1 DEF Start, Check, ConfigOk, TypeOK, MainShape
    <2>3. MatcherShape'
        BY <1>17 DEF Start, Check, ConfigOk, Goto, TypeOK, MatcherShape
    <2> QED
        BY <2>2, <2>3
<1>18. CASE \E t \in Matchers : ConfigFails(t) \/ MatchFails(t)
    <2>1. mishaps' \subseteq Mishaps /\ faults' \in Nat
        <3>1. \/ mishaps' = mishaps \cup {"config"} /\ faults' = faults + 1
              \/ mishaps' = mishaps \cup {"match"} /\ faults' = faults + 1
            BY <1>18 DEF ConfigFails, MatchFails
        <3>2. mishaps \subseteq Mishaps /\ faults \in Nat
            BY DEF TypeOK
        <3>3. mishaps' \subseteq Mishaps
            BY <3>1, <3>2, Zenon DEF Mishaps
        <3> QED
            BY <3>1, <3>2, <3>3
    <2>2. tpc' \in [Matchers -> MatcherPcs]
        BY <1>18 DEF ConfigFails, MatchFails, Goto, TypeOK, MatcherPcs
    <2>3. TypeOK'
        BY <1>18, <2>1, <2>2 DEF ConfigFails, MatchFails, TypeOK
    <2> QED
        BY <1>18, <2>3 DEF ConfigFails, MatchFails, Goto, TypeOK, MainShape, MatcherShape
<1>19. CASE \E t \in Matchers : Acquire(t)
    BY <1>19, WaitingCount DEF Acquire, Goto, TypeOK, MainShape, MatcherShape,
       MatcherPcs
<1>20. ASSUME NEW t \in Matchers, Visit(t) PROVE TypeInv'
    <2> PICK h \in Waiting \ tseen[t] :
            /\ tseen' = [tseen EXCEPT ![t] = @ \cup {h}]
            /\ IF DbId[h] \in described
               THEN /\ tdone' = [tdone EXCEPT ![t] = @ \cup {h}]
                    /\ tdev' = [tdev EXCEPT ![t] = [host |-> h, conf |-> unmatched[h]]]
                    /\ ttodo' = [ttodo EXCEPT ![t] = Matches[h]]
                    /\ Goto(t, "create")
               ELSE UNCHANGED <<tdone, tdev, ttodo, tpc>>
        BY <1>20 DEF Visit
    <2>1. h \in Hosts /\ unmatched[h] \in Confs
        BY DEF Waiting, TypeOK
    <2>2. Matches[h] \subseteq Profiles
        BY <2>1, MatchesAssumption, ProfilesAssumption
    <2>3. [host |-> h, conf |-> unmatched[h]] # None
        BY <2>1, NoneAssumption DEF Devices
    <2>4. CASE DbId[h] \in described
        <3>1. TypeOK'
            <4>1. /\ tseen' \in [Matchers -> SUBSET Hosts]
                  /\ tdone' \in [Matchers -> SUBSET Hosts]
                <5>1. /\ tseen \in [Matchers -> SUBSET Hosts]
                      /\ tdone \in [Matchers -> SUBSET Hosts]
                    BY DEF TypeOK
                <5> QED
                    BY <2>1, <2>4, <5>1
            <4>2. tdev' \in [Matchers -> Devices \cup {None}]
                <5>1. [host |-> h, conf |-> unmatched[h]] \in Devices
                    BY <2>1 DEF Devices
                <5> QED
                    BY <2>4, <5>1 DEF TypeOK
            <4>3. /\ ttodo' \in [Matchers -> SUBSET Profiles]
                  /\ tpc' \in [Matchers -> MatcherPcs]
                BY <2>2, <2>4 DEF TypeOK, Goto, MatcherPcs
            <4> QED
                BY <1>20, <4>1, <4>2, <4>3 DEF Visit, TypeOK
        <3>2. MainShape'
            BY <1>20 DEF Visit, MainShape
        <3>3. MatcherShape'
            BY <1>20, <2>1, <2>3, <2>4 DEF Visit, Goto, TypeOK, MatcherShape
        <3> QED
            BY <3>1, <3>2, <3>3
    <2>5. CASE DbId[h] \notin described
        BY <1>20, <2>1, <2>5 DEF Visit, TypeOK, MainShape, MatcherShape
    <2> QED
        BY <2>4, <2>5
<1>21. ASSUME NEW t \in Matchers, Create(t) PROVE TypeInv'
    <2> PICK p \in ttodo[t] :
            /\ process_new_job(<<tdev[t].host, p>>, tdev[t].conf)
            /\ ttodo' = [ttodo EXCEPT ![t] = @ \ {p}]
            /\ tkey' = [tkey EXCEPT ![t] = <<tdev[t].host, p>>]
        BY <1>21 DEF Create
    <2>1. tdev[t] # None
        BY <1>21 DEF Create, MatcherShape
    <2>2. <<tdev[t].host, p>> \in Keys /\ tdev[t].conf \in Confs
        <3>1. tdev[t] \in Devices /\ p \in Profiles
            BY <2>1 DEF TypeOK
        <3> QED
            BY <3>1 DEF Devices, Keys
    <2>3. /\ jobs' \in [JobIds -> Jobs \cup {None}]
          /\ jobsMap' \in [Keys -> JobIds \cup {None}]
        BY <2>2, NewJobType
    <2>4. <<tdev[t].host, p>> # None
        BY <2>2, NoneAssumption
    <2>5. TypeOK'
        BY <1>21, <2>2, <2>3 DEF Create, Goto, TypeOK, MatcherPcs, Mishaps
    <2>6. MainShape'
        BY <1>21 DEF Create, MainShape
    <2>7. MatcherShape'
        BY <1>21, <2>1, <2>4 DEF Create, Goto, TypeOK, MatcherShape
    <2> QED
        BY <2>5, <2>6, <2>7
<1>22. CASE \E t \in Matchers : Mark(t)
    BY <1>22 DEF Mark, Goto, TypeOK, MainShape, MatcherShape, MatcherPcs
<1>23. CASE \E t \in Matchers : CreateDone(t)
    BY <1>23 DEF CreateDone, Goto, TypeOK, MainShape, MatcherShape, MatcherPcs
<1>24. CASE \E t \in Matchers : SizeChanged(t) \/ ScanDone(t) \/ PopDone(t)
    <2>1. tpc' \in [Matchers -> MatcherPcs]
        BY <1>24 DEF SizeChanged, ScanDone, PopDone, Goto, TypeOK, MatcherPcs
    <2>2. TypeOK' /\ MainShape'
        BY <1>24, <2>1 DEF SizeChanged, ScanDone, PopDone, TypeOK, MainShape
    <2>3. MatcherShape'
        BY <1>24 DEF SizeChanged, ScanDone, PopDone, Goto, TypeOK, MatcherShape
    <2> QED
        BY <2>2, <2>3
<1>32. CASE \E t \in Matchers : Pop(t)
    <2> PICK t \in Matchers : Pop(t)
        BY <1>32
    <2> PICK h \in tdone[t] :
            IF h \in Waiting
            THEN /\ unmatched' = [unmatched EXCEPT ![h] = None]
                 /\ tdone' = [tdone EXCEPT ![t] = @ \ {h}]
                 /\ tpc' = tpc
            ELSE Goto(t, "finally") /\ UNCHANGED <<unmatched, tdone>>
        BY DEF Pop
    <2>1. unmatched' \in [Hosts -> Confs \cup {None}]
        BY DEF TypeOK
    <2>4. tdone' \in [Matchers -> SUBSET Hosts]
        <3>1. tdone \in [Matchers -> SUBSET Hosts]
            BY DEF TypeOK
        <3> QED
            BY <3>1
    <2>2. tpc' \in [Matchers -> MatcherPcs]
        BY DEF TypeOK, Goto, MatcherPcs
    <2>3. TypeOK'
        BY <2>1, <2>2, <2>4 DEF Pop, TypeOK
    <2> QED
        BY <2>3 DEF Pop, Goto, TypeOK, MainShape, MatcherShape
<1>25. CASE \E t \in Matchers : FinallyLocked(t)
    BY <1>25 DEF FinallyLocked, Goto, TypeOK, MainShape, MatcherShape, MatcherPcs
<1>26. ASSUME NEW t \in Matchers, FinallyUnlocked(t) \/ Release(t) PROVE TypeInv'
    <2>1. TypeOK'
        <3>1. tpc' \in [Matchers -> MatcherPcs]
            BY <1>26 DEF FinallyUnlocked, Release, Return, Goto, TypeOK, MatcherPcs
        <3>2. /\ tsize' \in [Matchers -> Nat]
              /\ tdone' \in [Matchers -> SUBSET Hosts]
              /\ tseen' \in [Matchers -> SUBSET Hosts]
              /\ ttodo' \in [Matchers -> SUBSET Profiles]
            <4>1. Return(t)
                BY <1>26 DEF FinallyUnlocked, Release
            <4> QED
                BY <4>1 DEF Return, TypeOK
        <3>3. /\ tdev' \in [Matchers -> Devices \cup {None}]
              /\ tkey' \in [Matchers -> Keys \cup {None}]
            BY <1>26 DEF FinallyUnlocked, Release, Return, TypeOK
        <3> QED
            BY <1>26, <3>1, <3>2, <3>3 DEF FinallyUnlocked, Release, TypeOK
    <2>2. MainShape'
        BY <1>26 DEF FinallyUnlocked, Release, MainShape
    <2>3. MatcherShape'
        BY <1>26 DEF FinallyUnlocked, Release, Return, Goto, TypeOK, MatcherShape
    <2> QED
        BY <2>1, <2>2, <2>3
<1>27. CASE EditInventory
    <2>1. inventory' \in Seq(Lines)
        BY <1>27, FilesAssumption DEF EditInventory
    <2> QED
        BY <1>27, <2>1 DEF EditInventory, TypeOK, MainShape, MatcherShape
<1>28. CASE force_inventory_refresh
    BY <1>28 DEF force_inventory_refresh, TypeOK, MainShape, MatcherShape
<1>29. CASE Describe
    BY <1>29 DEF Describe, TypeOK, MainShape, MatcherShape
<1>30. CASE Crash \/ MainReleaseFails
    <2>1. FreshProcess("idle") /\ modified' = TRUE
        BY <1>30 DEF Crash, MainReleaseFails
    <2>2. /\ inventory' = inventory /\ described' = described
          /\ envs' \in Nat /\ faults' \in Nat
        BY <1>30 DEF Crash, MainReleaseFails, TypeOK
    <2>3. /\ jobs' \in [JobIds -> Jobs \cup {None}]
          /\ jobsMap' \in [Keys -> JobIds \cup {None}]
          /\ unmatched' \in [Hosts -> Confs \cup {None}]
        BY <2>1 DEF FreshProcess
    <2>4. /\ tpc' \in [Matchers -> MatcherPcs]
          /\ tsize' \in [Matchers -> Nat]
          /\ tdone' \in [Matchers -> SUBSET Hosts]
          /\ tseen' \in [Matchers -> SUBSET Hosts]
        BY <2>1 DEF FreshProcess, MatcherPcs
    <2>5. /\ tdev' \in [Matchers -> Devices \cup {None}]
          /\ ttodo' \in [Matchers -> SUBSET Profiles]
          /\ tkey' \in [Matchers -> Keys \cup {None}]
        BY <2>1 DEF FreshProcess
    <2>7. /\ forceRefresh' \in BOOLEAN /\ locked' \in BOOLEAN /\ dynamicJobs' = {}
          /\ unresolved' = {}
          /\ mpc' \in MainPcs /\ mlines' = <<>> /\ accepted' = {}
          /\ mtodo' = {} /\ mkey' = None /\ mishaps' = {}
        BY <2>1, Zenon DEF FreshProcess, MainPcs
    <2>6. TypeOK'
        BY <2>1, <2>2, <2>3, <2>4, <2>5, <2>7 DEF TypeOK
    <2> QED
        BY <2>1, <2>6 DEF FreshProcess, MainShape, MatcherShape
<1>31. CASE UNCHANGED vars
    BY <1>31 DEF vars, TypeOK, MainShape, MatcherShape
<1> QED
    BY <1>1, <1>2, <1>3, <1>4, <1>5, <1>6, <1>7, <1>8, <1>9, <1>10, <1>11, <1>12,
       <1>13, <1>14, <1>15, <1>16, <1>17, <1>18, <1>19, <1>20, <1>21, <1>22, <1>23,
       <1>24, <1>25, <1>26, <1>27, <1>28, <1>29, <1>30, <1>31, <1>32, <1>33
       DEF Next, Main, Matcher, Environment

(* Every variable keeps its type. *)
THEOREM TypeCorrect == Spec => []TypeOK
<1>1. Spec => []TypeInv
    BY TypeInit, TypeNext, PTL DEF Spec
<1>2. TypeInv => TypeOK
    BY DEF TypeInv
<1> QED
    BY <1>1, <1>2, PTL

-----------------------------------------------------------------------------
(* The lock.  A matcher reaches its finally: clause without having acquired
   the lock only after the mishap "config". *)
LockInv ==
    /\ LockExclusion /\ LockNotLeaked
    /\ \A t \in Matchers : tpc[t] \in {"bail", "bailRelease"} => "config" \in mishaps

LEMMA LockInit == Init => LockInv
    BY DEF Init, LockInv, LockExclusion, LockNotLeaked, Holders

LEMMA LockNext == TypeInv /\ LockInv /\ [Next]_vars => LockInv'
<1> SUFFICES ASSUME TypeInv, LockInv, [Next]_vars PROVE LockInv'
    OBVIOUS
<1> USE DEF LockInv, LockExclusion, LockNotLeaked, Holders, env, table, mainVars,
            matcherVars, counters, locals
<1>0. tpc \in [Matchers -> MatcherPcs]
    BY DEF TypeInv, TypeOK
<1>1. ASSUME UNCHANGED <<tpc, locked, mishaps>>, mpc # "add", mpc' # "add"
      PROVE  LockInv'
    BY <1>1
<1>2. CASE \/ StatFiles \/ ReadInventory \/ SkipDuplicate \/ SkipUnresolved
           \/ StaticNew \/ StaticUpdate \/ DynamicLine \/ DropForget \/ DropUnmark \/ DropDone \/ LinesDone
           \/ CleanForget \/ CleanDone
    BY <1>1, <1>2 DEF StatFiles, ReadInventory, SkipDuplicate, SkipUnresolved, StaticNew,
       StaticUpdate, DynamicLine, DropForget, DropUnmark, DropDone, LinesDone,
       CleanForget, CleanDone
<1>3. CASE DropCancel \/ CleanCancel
    BY <1>1, <1>3 DEF DropCancel, CleanCancel
<1>4. CASE AcquireToAdd
    BY <1>4 DEF AcquireToAdd
<1>5. CASE AddDevice
    BY <1>5 DEF AddDevice
<1>6. ASSUME NEW t \in Matchers, UNCHANGED <<mpc, locked, mishaps>>,
             tpc' = [tpc EXCEPT ![t] = tpc'[t]],
             t \in Holders <=> t \in Holders',
             tpc'[t] \in {"bail", "bailRelease"} => "config" \in mishaps
      PROVE  LockInv'
    BY <1>0, <1>6
<1>7. ASSUME NEW t \in Matchers,
             Start(t) \/ Check(t) \/ ConfigOk(t)
      PROVE  LockInv'
    BY <1>0, <1>7, <1>6 DEF Start, Check, ConfigOk, Goto
<1>8. ASSUME NEW t \in Matchers,
             CreateDone(t) \/ SizeChanged(t) \/ ScanDone(t) \/ PopDone(t) \/ Mark(t)
      PROVE  LockInv'
    BY <1>0, <1>8, <1>6 DEF CreateDone, SizeChanged, ScanDone, PopDone, Mark, Goto
<1>9. ASSUME NEW t \in Matchers, Visit(t) \/ Pop(t)
      PROVE  LockInv'
    BY <1>0, <1>9, <1>6 DEF Visit, Pop, Goto
<1>10. ASSUME NEW t \in Matchers, FinallyLocked(t)
       PROVE  LockInv'
    BY <1>0, <1>10, <1>6 DEF FinallyLocked, Goto
<1>11. ASSUME NEW t \in Matchers, Create(t)
       PROVE  LockInv'
    BY <1>0, <1>11 DEF Create, Goto
<1>12. ASSUME NEW t \in Matchers, ConfigFails(t)
       PROVE  LockInv'
    BY <1>0, <1>12 DEF ConfigFails, Goto
<1>13. ASSUME NEW t \in Matchers, MatchFails(t)
       PROVE  LockInv'
    BY <1>0, <1>13 DEF MatchFails, Goto
<1>14. ASSUME NEW t \in Matchers, Acquire(t)
       PROVE  LockInv'
    BY <1>0, <1>14 DEF Acquire, Goto
<1>15. ASSUME NEW t \in Matchers, FinallyUnlocked(t) \/ Release(t)
       PROVE  LockInv'
    BY <1>0, <1>15 DEF FinallyUnlocked, Release, Return, Goto
<1>16. CASE EditInventory \/ force_inventory_refresh \/ Describe
    BY <1>16 DEF EditInventory, force_inventory_refresh, Describe
<1>17. CASE Crash \/ MainReleaseFails
    BY <1>17 DEF Crash, MainReleaseFails, FreshProcess
<1>18. CASE UNCHANGED vars
    BY <1>18 DEF vars
<1> QED
    BY <1>2, <1>3, <1>4, <1>5, <1>7, <1>8, <1>9, <1>10, <1>11, <1>12, <1>13, <1>14,
       <1>15, <1>16, <1>17, <1>18 DEF Next, Main, Matcher, Environment

LEMMA LockAlways == Spec => [](TypeInv /\ LockInv)
    BY TypeInit, TypeNext, LockInit, LockNext, PTL DEF Spec

(* The critical sections of the lock exclude each other, unless a matcher failed
   before it acquired it ... *)
THEOREM LockCorrect == Spec => []LockExclusion
<1>1. LockInv => LockExclusion
    BY DEF LockInv
<1> QED
    BY <1>1, LockAlways, PTL

(* ... and even then it is never left locked by nobody. *)
THEOREM NoLeak == Spec => []LockNotLeaked
<1>1. LockInv => LockNotLeaked
    BY DEF LockInv
<1> QED
    BY <1>1, LockAlways, PTL

-----------------------------------------------------------------------------
(* The job table.  The invariant is strengthened with what is true between a
   cancel_job and the deletion of the entry: a job that only the main thread
   makes has not been replaced meanwhile. *)
TableInv ==
    /\ JobsMapSound /\ StaticJobsTracked
    /\ mpc \in {"dropDel", "cleanDel"} /\ mkey \notin DynamicKeys =>
           jobsMap[mkey] = None \/ jobs[jobsMap[mkey]] = None

(* The table and what the invariant says of the main thread do not change. *)
LEMMA TableKept ==
    ASSUME TableInv, UNCHANGED <<jobs, jobsMap>>,
           \/ UNCHANGED <<mpc, mkey>>
           \/ {mpc, mpc'} \cap {"dropDel", "cleanDel"} = {}
    PROVE  TableInv'
    BY DEF TableInv, JobsMapSound, StaticJobsTracked, Mapped, Scheduled, Tracked,
           DynamicKeys

(* A new job: for a key without one, or for one a matcher may give twice. *)
LEMMA NewJobTable ==
    ASSUME TypeOK, TableInv, NEW k \in Keys, NEW c \in Confs, process_new_job(k, c),
           k \in DynamicKeys \/ (k \notin Mapped /\ mpc = "lines"),
           UNCHANGED <<mpc, mkey>>, MainShape
    PROVE  TableInv'
<1>1. CASE k[2] \in Known
    <2> PICK j \in FreeIds :
            /\ jobs' = [jobs EXCEPT ![j] = [key |-> k, conf |-> c]]
            /\ jobsMap' = [jobsMap EXCEPT ![k] = j]
        BY <1>1 DEF process_new_job
    <2>1. j \in JobIds /\ jobs[j] = None /\ \A kk \in Keys : jobsMap[kk] # j
        BY DEF FreeIds
    <2>2. jobs \in [JobIds -> Jobs \cup {None}] /\ jobsMap \in [Keys -> JobIds \cup {None}]
        BY DEF TypeOK
    <2>3. [key |-> k, conf |-> c] # None /\ None \notin JobIds
        BY NoneAssumption DEF Jobs
    <2>4. JobsMapSound'
        BY <2>1, <2>2, <2>3 DEF TableInv, JobsMapSound, Mapped
    <2>5. StaticJobsTracked'
        <3> SUFFICES ASSUME NEW i \in Scheduled', jobs'[i].key \notin DynamicKeys
                     PROVE  jobsMap'[jobs'[i].key] = i
            BY DEF StaticJobsTracked, Tracked, DynamicKeys
        <3>1. CASE i = j
            BY <2>1, <2>2, <3>1
        <3>2. CASE i # j
            <4>1. /\ i \in Scheduled /\ jobs[i] = jobs'[i]
                  /\ jobs[i] \in Jobs
                BY <2>1, <2>2, <3>2 DEF Scheduled
            <4>2. jobsMap[jobs[i].key] = i
                BY <4>1 DEF TableInv, StaticJobsTracked, Tracked
            <4>3. jobs[i].key # k
                BY <4>1, <4>2, <2>3 DEF Mapped, Scheduled
            <4> QED
                BY <2>2, <4>1, <4>2, <4>3 DEF Jobs
        <3> QED
            BY <3>1, <3>2
    <2>6. ASSUME mpc \in {"dropDel", "cleanDel"}, mkey \notin DynamicKeys
          PROVE  jobsMap'[mkey] = None \/ jobs'[jobsMap'[mkey]] = None
        <3>1. mkey \in Keys /\ mkey # k
            BY <2>6 DEF MainShape
        <3>2. jobsMap'[mkey] = jobsMap[mkey] /\ jobsMap[mkey] \in JobIds \cup {None}
            BY <2>2, <3>1
        <3>3. jobsMap[mkey] = None \/ jobs[jobsMap[mkey]] = None
            BY <2>6 DEF TableInv
        <3> QED
            BY <2>1, <2>2, <3>1, <3>2, <3>3
    <2> QED
        BY <2>4, <2>5, <2>6 DEF TableInv, DynamicKeys
<1>2. CASE k[2] \notin Known
    BY <1>2, TableKept DEF process_new_job
<1> QED
    BY <1>1, <1>2

(* cancel_job, and the entry that is going to be deleted. *)
LEMMA CancelTable ==
    ASSUME TypeOK, TableInv, NEW k \in Keys, cancel_job(k), mkey' = k,
           mpc \in {"drop", "clean"}, mpc' \in {"dropDel", "cleanDel"},
           UNCHANGED jobsMap
    PROVE  TableInv'
<1>1. jobs \in [JobIds -> Jobs \cup {None}] /\ jobsMap \in [Keys -> JobIds \cup {None}]
    BY DEF TypeOK
<1>2. None \notin JobIds
    BY NoneAssumption
<1>3. \A i \in JobIds : jobs'[i] = IF i = jobsMap[k] THEN None ELSE jobs[i]
    BY DEF cancel_job
<1>4. \A kk \in Mapped : jobsMap[kk] \in JobIds /\ jobs[jobsMap[kk]] # None
                            /\ jobs[jobsMap[kk]].key = kk
    BY <1>1 DEF TableInv, JobsMapSound, Mapped
<1>5. JobsMapSound'
    <2> SUFFICES ASSUME NEW kk \in Mapped, kk # k
                 PROVE  jobs'[jobsMap[kk]] # None /\ jobs'[jobsMap[kk]].key = kk
        BY DEF JobsMapSound, Mapped
    <2>1. jobsMap[kk] # jobsMap[k]
        BY <1>1, <1>2, <1>4 DEF Mapped
    <2> QED
        BY <1>3, <1>4, <2>1
<1>6. StaticJobsTracked'
    BY <1>3 DEF TableInv, StaticJobsTracked, Scheduled, Tracked, DynamicKeys
<1> QED
    BY <1>1, <1>3, <1>5, <1>6 DEF TableInv

(* The deletion of the entry. *)
LEMMA ForgetTable ==
    ASSUME TypeOK, TableInv, mkey \in Keys, mpc \in {"dropDel", "cleanDel"},
           jobsMap' = [jobsMap EXCEPT ![mkey] = None],
           mpc' \notin {"dropDel", "cleanDel"}, UNCHANGED jobs
    PROVE  TableInv'
<1>1. jobs \in [JobIds -> Jobs \cup {None}] /\ jobsMap \in [Keys -> JobIds \cup {None}]
    BY DEF TypeOK
<1>2. JobsMapSound'
    BY <1>1 DEF TableInv, JobsMapSound, Mapped
<1>3. StaticJobsTracked'
    <2> SUFFICES ASSUME NEW j \in Scheduled, jobs[j].key \notin DynamicKeys
                 PROVE  jobsMap'[jobs[j].key] = j
        BY DEF StaticJobsTracked, Scheduled, Tracked, DynamicKeys
    <2>1. jobsMap[jobs[j].key] = j /\ jobs[j] # None /\ j # None
        BY NoneAssumption DEF TableInv, StaticJobsTracked, Scheduled, Tracked
    <2>2. jobs[j].key # mkey
        BY <2>1 DEF TableInv
    <2>3. jobs[j].key \in Keys
        BY <1>1, <2>1 DEF Scheduled, Jobs
    <2> QED
        BY <1>1, <2>1, <2>2, <2>3
<1> QED
    BY <1>2, <1>3 DEF TableInv

(* The job keeps its key when it is given another configuration. *)
LEMMA UpdateTable ==
    ASSUME TypeOK, TableInv, NEW x, NEW c,
           jobs' = [j \in JobIds |-> IF j = x /\ jobs[j] # None
                                     THEN [jobs[j] EXCEPT !.conf = c] ELSE jobs[j]],
           UNCHANGED jobsMap, c \in Confs, mpc = "lines", mpc' = "lines"
    PROVE  TableInv'
<1>1. jobs \in [JobIds -> Jobs \cup {None}] /\ jobsMap \in [Keys -> JobIds \cup {None}]
    BY DEF TypeOK
<1>2. \A j \in JobIds : (jobs'[j] # None <=> jobs[j] # None)
                            /\ (jobs[j] # None => jobs'[j].key = jobs[j].key)
    <2> TAKE j \in JobIds
    <2>1. CASE j = x /\ jobs[j] # None
        <3>1. jobs[j] \in Jobs /\ jobs'[j] = [jobs[j] EXCEPT !.conf = c]
            BY <1>1, <2>1
        <3>2. jobs'[j] \in Jobs /\ jobs'[j].key = jobs[j].key
            BY <3>1 DEF Jobs
        <3> QED
            BY <2>1, <3>2, NoneAssumption
    <2>2. CASE ~ (j = x /\ jobs[j] # None)
        BY <2>2
    <2> QED
        BY <2>1, <2>2
<1> QED
    BY <1>1, <1>2 DEF TableInv, JobsMapSound, StaticJobsTracked, Mapped, Scheduled,
       Tracked, DynamicKeys

LEMMA TableInit == Init => TableInv
<1> SUFFICES ASSUME Init PROVE TableInv
    OBVIOUS
<1>1. Mapped = {} /\ Scheduled = {}
    BY DEF Init, Mapped, Scheduled
<1> QED
    BY <1>1 DEF Init, TableInv, JobsMapSound, StaticJobsTracked

LEMMA TableNext == TypeInv /\ TableInv /\ [Next]_vars => TableInv'
<1> SUFFICES ASSUME TypeInv, TableInv, [Next]_vars PROVE TableInv'
    OBVIOUS
<1> USE DEF TypeInv, env, table, mainVars, matcherVars, counters, locals
<1>1. CASE \/ StatFiles \/ ReadInventory \/ SkipDuplicate \/ SkipUnresolved
           \/ DynamicLine \/ DropDone \/ AcquireToAdd \/ AddDevice \/ LinesDone \/ CleanDone
    BY <1>1, TableKept DEF StatFiles, ReadInventory, SkipDuplicate, SkipUnresolved, DynamicLine,
       DropDone, AcquireToAdd, AddDevice, LinesDone, CleanDone
<1>2. CASE DropUnmark
    BY <1>2, TableKept DEF DropUnmark
<1>3. CASE StaticNew
    <2> DEFINE l == Head(mlines)
    <2>1. EntryKey(l) \in Keys /\ l.conf \in Confs
        BY <1>3, LinesLeft DEF StaticNew, TypeOK
    <2> QED
        BY <1>3, <2>1, NewJobTable DEF StaticNew
<1>4. CASE StaticUpdate
    <2>1. Head(mlines).conf \in Confs
        BY <1>4, LinesLeft DEF StaticUpdate, TypeOK
    <2> QED
        BY <1>4, <2>1, UpdateTable DEF StaticUpdate
<1>5. CASE DropCancel
    <2> PICK k \in mtodo :
            IF k \in dynamicJobs
            THEN cancel_job(k) /\ mkey' = k /\ mpc' = "dropDel"
            ELSE UNCHANGED <<jobs, mkey, mpc>>
        BY <1>5 DEF DropCancel
    <2>1. k \in Keys
        BY DEF TypeOK
    <2> QED
        BY <1>5, <2>1, CancelTable, TableKept DEF DropCancel
<1>6. CASE CleanCancel
    <2> PICK k \in mtodo :
            IF k \in accepted
            THEN UNCHANGED <<jobs, mkey, mpc>>
            ELSE cancel_job(k) /\ mkey' = k /\ mpc' = "cleanDel"
        BY <1>6 DEF CleanCancel
    <2>1. k \in Keys
        BY DEF TypeOK
    <2> QED
        BY <1>6, <2>1, CancelTable, TableKept DEF CleanCancel
<1>7. CASE DropForget \/ CleanForget
    BY <1>7, ForgetTable DEF DropForget, CleanForget, MainShape
<1>8. ASSUME NEW t \in Matchers, Create(t) PROVE TableInv'
    <2> PICK p \in ttodo[t] : process_new_job(<<tdev[t].host, p>>, tdev[t].conf)
        BY <1>8 DEF Create
    <2>1. tdev[t] # None
        BY <1>8 DEF Create, MatcherShape
    <2>2. tdev[t] \in Devices /\ p \in Profiles /\ p \in Matches[tdev[t].host]
        BY <2>1 DEF TypeOK, MatcherShape
    <2>3. <<tdev[t].host, p>> \in Keys /\ tdev[t].conf \in Confs
        BY <2>2 DEF Devices, Keys
    <2>4. <<tdev[t].host, p>> \in DynamicKeys
        BY <2>2, <2>3 DEF DynamicKeys
    <2> QED
        BY <1>8, <2>3, <2>4, NewJobTable DEF Create
<1>9. CASE \E t \in Matchers : \/ Start(t) \/ Check(t) \/ ConfigOk(t) \/ ConfigFails(t)
                               \/ Acquire(t) \/ Visit(t) \/ Mark(t) \/ CreateDone(t)
    BY <1>9, TableKept DEF Start, Check, ConfigOk, ConfigFails, Acquire, Visit, Mark,
       CreateDone
<1>10. CASE \E t \in Matchers : \/ MatchFails(t) \/ SizeChanged(t) \/ ScanDone(t)
                                \/ Pop(t) \/ PopDone(t) \/ FinallyLocked(t)
                                \/ FinallyUnlocked(t) \/ Release(t)
    BY <1>10, TableKept DEF MatchFails, SizeChanged, ScanDone, Pop, PopDone,
       FinallyLocked, FinallyUnlocked, Release
<1>11. CASE EditInventory \/ force_inventory_refresh \/ Describe
    BY <1>11, TableKept DEF EditInventory, force_inventory_refresh, Describe
<1>12. CASE Crash \/ MainReleaseFails
    <2>1. FreshProcess("idle")
        BY <1>12 DEF Crash, MainReleaseFails
    <2>2. Mapped' = {} /\ Scheduled' = {} /\ mpc' = "idle"
        BY <2>1 DEF FreshProcess, Mapped, Scheduled
    <2> QED
        BY <2>2 DEF TableInv, JobsMapSound, StaticJobsTracked
<1>13. CASE UNCHANGED vars
    BY <1>13, TableKept DEF vars
<1> QED
    BY <1>1, <1>2, <1>3, <1>4, <1>5, <1>6, <1>7, <1>8, <1>9, <1>10, <1>11, <1>12,
       <1>13 DEF Next, Main, Matcher, Environment

LEMMA TableAlways == Spec => [](TypeInv /\ TableInv)
    BY TypeInit, TypeNext, TableInit, TableNext, PTL DEF Spec

(* _jobs_map names only scheduled jobs, each under its own key ... *)
THEOREM MapCorrect == Spec => []JobsMapSound
<1>1. TableInv => JobsMapSound
    BY DEF TableInv
<1> QED
    BY <1>1, TableAlways, PTL

(* ... and the main thread never loses a job: one that is scheduled and that no
   entry of the map names has a key that matching gives. *)
THEOREM TrackingCorrect == Spec => []StaticJobsTracked
<1>1. TableInv => StaticJobsTracked
    BY DEF TableInv
<1> QED
    BY <1>1, TableAlways, PTL

-----------------------------------------------------------------------------
(* The refresh and the file.  While it runs, every line of a file that has not
   been saved since is accepted, still to read or dropped; when it cleans, none is
   left to read. *)
Pending(l) == \E n \in DOMAIN mlines : mlines[n] = l

FileInv ==
    /\ mpc \notin {"idle", "read"} /\ ~modified =>
           \A i \in DOMAIN inventory :
               \/ EntryKey(inventory[i]) \in accepted
               \/ Pending(inventory[i])
               \/ inventory[i].host \in unresolved
    /\ mpc \in {"clean", "cleanDel"} => mlines = <<>>

(* One line is done: its key is accepted, or its host does not resolve. *)
LEMMA LineDone ==
    ASSUME TypeOK, FileInv, mpc \notin {"idle", "read", "clean", "cleanDel"},
           mlines # <<>>, mlines' = Tail(mlines), mpc' = "lines",
           accepted \subseteq accepted', unresolved \subseteq unresolved',
           \/ EntryKey(Head(mlines)) \in accepted'
           \/ Head(mlines).host \in unresolved',
           UNCHANGED <<inventory, modified>>
    PROVE  FileInv'
<1> SUFFICES ASSUME ~modified, NEW i \in DOMAIN inventory
             PROVE  \/ EntryKey(inventory[i]) \in accepted'
                    \/ Pending(inventory[i])'
                    \/ inventory[i].host \in unresolved'
    BY DEF FileInv, EntryKey, Pending
<1>1. CASE EntryKey(inventory[i]) \in accepted \/ inventory[i].host \in unresolved
    BY <1>1
<1>2. CASE Pending(inventory[i])
    <2> PICK n \in DOMAIN mlines : mlines[n] = inventory[i]
        BY <1>2 DEF Pending
    <2>1. mlines \in Seq(Lines) /\ n \in 1 .. Len(mlines)
        BY DEF TypeOK
    <2>2. CASE n = 1
        BY <2>1, <2>2
    <2>3. CASE n # 1
        <3>1. n - 1 \in DOMAIN Tail(mlines) /\ Tail(mlines)[n - 1] = mlines[n]
            BY <2>1, <2>3
        <3> QED
            BY <3>1 DEF Pending
    <2> QED
        BY <2>2, <2>3
<1> QED
    BY <1>1, <1>2 DEF FileInv

(* Nothing the invariant speaks of gets worse. *)
LEMMA FileKept ==
    ASSUME FileInv, UNCHANGED <<inventory, modified, mlines, unresolved>>,
           mpc' \in {"idle", "read"}
               \/ ((mpc = "idle" <=> mpc' = "idle") /\ (mpc = "read" <=> mpc' = "read")
                       /\ accepted \subseteq accepted'),
           mpc' \in {"clean", "cleanDel"} => mlines = <<>>
    PROVE  FileInv'
    BY DEF FileInv, EntryKey, Pending

LEMMA FileNext == TypeInv /\ FileInv /\ [Next]_vars => FileInv'
<1> SUFFICES ASSUME TypeInv, FileInv, [Next]_vars PROVE FileInv'
    OBVIOUS
<1> USE DEF TypeInv, env, table, mainVars, matcherVars, counters, locals
<1>1. CASE StatFiles
    BY <1>1 DEF StatFiles, FileInv
<1>2. CASE ReadInventory
    <2>1. \A i \in DOMAIN inventory : Pending(inventory[i])'
        BY <1>2 DEF ReadInventory, Pending
    <2> QED
        BY <1>2, <2>1 DEF ReadInventory, FileInv, Pending
<1>3. CASE SkipDuplicate \/ SkipUnresolved \/ StaticNew \/ StaticUpdate
    BY <1>3, LineDone DEF SkipDuplicate, SkipUnresolved, StaticNew, StaticUpdate
<1>4. CASE AddDevice
    BY <1>4, LineDone DEF AddDevice, MainShape
<1>5. CASE DynamicLine \/ DropForget \/ DropUnmark \/ DropDone \/ AcquireToAdd
    BY <1>5, FileKept DEF DynamicLine, DropForget, DropUnmark, DropDone, AcquireToAdd
<1>6. CASE DropCancel
    BY <1>6, FileKept DEF DropCancel
<1>7. CASE CleanCancel
    BY <1>7, FileKept DEF CleanCancel, FileInv
<1>8. CASE LinesDone \/ CleanForget \/ CleanDone
    BY <1>8, FileKept DEF LinesDone, CleanForget, CleanDone, FileInv
<1>9. CASE \E t \in Matchers : \/ Start(t) \/ Check(t) \/ ConfigOk(t) \/ ConfigFails(t)
                               \/ Acquire(t) \/ Visit(t) \/ Create(t) \/ Mark(t)
                               \/ CreateDone(t) \/ MatchFails(t) \/ SizeChanged(t)
                               \/ ScanDone(t) \/ Pop(t) \/ PopDone(t)
                               \/ FinallyLocked(t) \/ FinallyUnlocked(t) \/ Release(t)
    <2>1. UNCHANGED <<inventory, modified, unresolved, mpc, mlines, accepted>>
        BY <1>9 DEF Start, Check, ConfigOk, ConfigFails, Acquire, Visit, Create, Mark,
           CreateDone, MatchFails, SizeChanged, ScanDone, Pop, PopDone, FinallyLocked,
           FinallyUnlocked, Release
    <2> QED
        BY <2>1, FileKept DEF FileInv
<1>10. CASE EditInventory
    BY <1>10 DEF EditInventory, FileInv
<1>11. CASE force_inventory_refresh \/ Describe \/ UNCHANGED vars
    BY <1>11, FileKept DEF force_inventory_refresh, Describe, vars, FileInv
<1>12. CASE Crash \/ MainReleaseFails
    BY <1>12 DEF Crash, MainReleaseFails, FreshProcess, FileInv
<1> QED
    BY <1>1, <1>2, <1>3, <1>4, <1>5, <1>6, <1>7, <1>8, <1>9, <1>10, <1>11, <1>12
       DEF Next, Main, Matcher, Environment

(* The refresh deletes what Mongo knows of a host only if the file lists no line
   for that host, or has been saved since the refresh looked at it, or if the name
   of the host did not resolve. *)
THEOREM DeletionCorrect == Spec => DeletedOnlyIfUnlisted
<1> DEFINE A == \A d \in described \ described' :
                    modified \/ \A l \in ToSet(inventory) :
                                   DbId[l.host] # d \/ l.host \in unresolved
<1>1. Init => FileInv
    BY DEF Init, FileInv
<1>2. TypeInv /\ FileInv /\ [Next]_vars => [A]_vars
    <2> SUFFICES ASSUME TypeInv, FileInv, Next, NEW d \in described \ described',
                        ~modified, NEW l \in ToSet(inventory), l.host \notin unresolved
                 PROVE  DbId[l.host] # d
        OBVIOUS
    <2>1. CASE CleanCancel
        <3> PICK k \in mtodo : described' = IF DbId[k[1]] \in InventoryDbIds
                                            THEN described ELSE described \ {DbId[k[1]]}
            BY <2>1 DEF CleanCancel
        <3>1. d = DbId[k[1]] /\ d \notin InventoryDbIds
            OBVIOUS
        <3>2. EntryKey(l) \in accepted
            BY <2>1 DEF CleanCancel, FileInv, Pending, ToSet
        <3> QED
            BY <3>1, <3>2 DEF InventoryDbIds, EntryKey
    <2>2. CASE ~CleanCancel
        <3>1. described \subseteq described'
            BY <2>2 DEF Next, Main, Matcher, Environment, StatFiles, ReadInventory,
               SkipDuplicate, SkipUnresolved, StaticNew, StaticUpdate, DynamicLine,
               DropCancel, DropForget, DropUnmark, DropDone, AcquireToAdd, AddDevice, LinesDone,
               CleanForget, CleanDone, Start, Check, ConfigOk, ConfigFails, Acquire,
               Visit, Create, Mark, CreateDone, MatchFails, SizeChanged, ScanDone, Pop,
               PopDone, FinallyLocked, FinallyUnlocked, Release, EditInventory,
               force_inventory_refresh, Describe, Crash, MainReleaseFails
        <3> QED
            BY <3>1
    <2> QED
        BY <2>1, <2>2
<1> QED
    BY <1>1, <1>2, TypeInit, TypeNext, FileNext, PTL DEF Spec, DeletedOnlyIfUnlisted
=============================================================================
