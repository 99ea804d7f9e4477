--------------------------- MODULE PollerJobsSync ---------------------------
(***************************************************************************)
(* What the refreshes and the matchers of PollerJobs achieve together.     *)
(* The refresh misses no edit: between refreshes the static jobs are those *)
(* of the inventory, unless it was saved again.  And the devices left to   *)
(* matching: none is forgotten, and no job of theirs is lost.              *)
(***************************************************************************)
EXTENDS PollerJobsProofs

(* Where keys come from.  What matchers make, and what
   delete_all_dynamic_entries_per_host removes, has a key that a match can give;
   when no profile is both listed and matched for one host, never that of a line. *)
AllLines == UNION {ToSet(f) : f \in Files}
StaticKeys == {EntryKey(l) : l \in {m \in AllLines : m.profile # Dynamic}}
DynamicHosts == {l.host : l \in {m \in AllLines : m.profile = Dynamic}}
ForeignKeys == {k \in DynamicKeys : Disjoint => k \notin StaticKeys}

OriginInv ==
    /\ inventory \in Files
    /\ \A n \in DOMAIN mlines : mlines[n] \in AllLines
    /\ Waiting \subseteq DynamicHosts
    /\ \A t \in Matchers : tdev[t] # None => tdev[t].host \in DynamicHosts
    /\ \A t \in Matchers : tkey[t] # None => tkey[t] \in ForeignKeys
    /\ dynamicJobs \subseteq ForeignKeys
    /\ mpc \in {"drop", "dropDel", "dropUnmark", "acquire", "add"} =>
           Head(mlines).profile = Dynamic
    /\ mpc \in {"dropDel", "dropUnmark"} => mkey \in ForeignKeys

LEMMA Separate ==
    ASSUME Disjoint, NEW h \in DynamicHosts, NEW p \in Matches[h]
    PROVE  <<h, p>> \notin StaticKeys
<1> PICK l \in AllLines : l.host = h /\ l.profile = Dynamic
    BY DEF DynamicHosts
<1> PICK f \in Files : l \in ToSet(f)
    BY DEF AllLines
<1> SUFFICES ASSUME NEW g \in Files, NEW m \in ToSet(g), EntryKey(m) = <<h, p>>
             PROVE  FALSE
    BY DEF StaticKeys, AllLines
<1>1. m.host = h /\ m.profile = p
    BY DEF EntryKey
<1> QED
    BY <1>1 DEF Disjoint

LEMMA MatchForeign ==
    ASSUME NEW h \in DynamicHosts, NEW p \in Matches[h]
    PROVE  <<h, p>> \in ForeignKeys
<1> PICK l \in AllLines : l.host = h
    BY DEF DynamicHosts
<1> PICK f \in Files : l \in ToSet(f)
    BY DEF AllLines
<1>1. l \in Lines
    BY FilesAssumption DEF ToSet
<1>2. h \in Hosts /\ p \in Profiles
    BY <1>1, MatchesAssumption, ProfilesAssumption DEF Lines
<1>3. <<h, p>> \in DynamicKeys
    BY <1>2 DEF DynamicKeys, Keys
<1> QED
    BY <1>3, Separate DEF ForeignKeys

(* Lines that are read are lines of a file. *)
LEMMA HeadLine ==
    ASSUME TypeOK, OriginInv, mlines # <<>>
    PROVE  /\ Head(mlines) \in AllLines
           /\ \A n \in DOMAIN Tail(mlines) : Tail(mlines)[n] \in AllLines
<1>1. mlines \in Seq(Lines)
    BY DEF TypeOK
<1>2. Head(mlines) = mlines[1] /\ 1 \in DOMAIN mlines
    BY <1>1
<1>3. \A n \in DOMAIN Tail(mlines) : n + 1 \in DOMAIN mlines
                                     /\ Tail(mlines)[n] = mlines[n + 1]
    BY <1>1
<1> QED
    BY <1>2, <1>3 DEF OriginInv

LEMMA OriginInit == Init => OriginInv
    BY DEF Init, OriginInv, Waiting

(* Matchers that touch nothing the invariant speaks of. *)
LEMMA OriginKept ==
    ASSUME OriginInv, UNCHANGED <<inventory, mlines, unmatched, tdev, tkey, dynamicJobs>>,
           UNCHANGED <<mpc, mkey>> \/ mpc' \in {"idle", "read", "lines", "clean", "cleanDel"}
    PROVE  OriginInv'
    BY DEF OriginInv, Waiting

LEMMA OriginNext ==
    ASSUME TypeInv, OriginInv, [Next]_vars
    PROVE  OriginInv'
<1> USE DEF TypeInv, env, table, mainVars, matcherVars, counters, locals
<1>1. CASE StatFiles \/ LinesDone \/ CleanForget \/ CleanDone
    BY <1>1, OriginKept DEF StatFiles, LinesDone, CleanForget, CleanDone
<1>2. CASE CleanCancel
    BY <1>2, OriginKept DEF CleanCancel
<1>3. CASE ReadInventory
    <2>1. \A n \in DOMAIN inventory : inventory[n] \in AllLines
        BY DEF OriginInv, AllLines, ToSet
    <2> QED
        BY <1>3, <2>1 DEF ReadInventory, OriginInv, Waiting
<1>4. CASE SkipDuplicate \/ SkipUnresolved \/ StaticNew \/ StaticUpdate
    BY <1>4, HeadLine DEF SkipDuplicate, SkipUnresolved, StaticNew, StaticUpdate,
       OriginInv, Waiting
<1>5. CASE DynamicLine
    BY <1>5 DEF DynamicLine, OriginInv, Waiting
<1>6. CASE DropCancel
    BY <1>6 DEF DropCancel, OriginInv, Waiting
<1>7. CASE DropForget \/ DropDone \/ AcquireToAdd
    BY <1>7 DEF DropForget, DropDone, AcquireToAdd, OriginInv, Waiting
<1>8. CASE DropUnmark
    BY <1>8 DEF DropUnmark, OriginInv, Waiting
<1>9. CASE AddDevice
    <2>1. mlines # <<>> /\ Head(mlines).profile = Dynamic
        BY <1>9 DEF AddDevice, MainShape, OriginInv
    <2>2. Head(mlines).host \in DynamicHosts
        BY <2>1, HeadLine DEF DynamicHosts
    <2>3. Waiting' \subseteq Waiting \cup {Head(mlines).host}
        BY <1>9 DEF AddDevice, Waiting, TypeOK
    <2> QED
        BY <1>9, <2>1, <2>2, <2>3, HeadLine DEF AddDevice, OriginInv
<1>10. CASE \E t \in Matchers :
              \/ Start(t) \/ Check(t) \/ ConfigOk(t) \/ ConfigFails(t) \/ Acquire(t)
              \/ MatchFails(t) \/ SizeChanged(t) \/ ScanDone(t) \/ PopDone(t)
              \/ FinallyLocked(t)
    BY <1>10, OriginKept DEF Start, Check, ConfigOk, ConfigFails, Acquire, MatchFails,
       SizeChanged, ScanDone, PopDone, FinallyLocked
<1>11. ASSUME NEW t \in Matchers, Visit(t) PROVE OriginInv'
    <2> PICK h \in Waiting :
            \/ tdev' = [tdev EXCEPT ![t] = [host |-> h, conf |-> unmatched[h]]]
            \/ tdev' = tdev
        BY <1>11 DEF Visit
    <2>1. \A u \in Matchers : tdev'[u] # None => tdev'[u].host \in DynamicHosts
        BY DEF OriginInv, TypeOK
    <2> QED
        BY <1>11, <2>1 DEF Visit, OriginInv, Waiting
<1>12. ASSUME NEW t \in Matchers, Create(t) PROVE OriginInv'
    <2> PICK p \in ttodo[t] : tkey' = [tkey EXCEPT ![t] = <<tdev[t].host, p>>]
        BY <1>12 DEF Create
    <2>1. tdev[t] # None
        BY <1>12 DEF Create, MatcherShape
    <2>2. p \in Matches[tdev[t].host] /\ tdev[t].host \in DynamicHosts
        BY <2>1 DEF MatcherShape, OriginInv
    <2>3. <<tdev[t].host, p>> \in ForeignKeys
        BY <2>2, MatchForeign
    <2>4. \A u \in Matchers : tkey'[u] # None => tkey'[u] \in ForeignKeys
        BY <2>3 DEF OriginInv, TypeOK
    <2> QED
        BY <1>12, <2>4 DEF Create, OriginInv, Waiting
<1>13. ASSUME NEW t \in Matchers, Mark(t) PROVE OriginInv'
    <2>1. tkey[t] # None
        BY <1>13 DEF Mark, MatcherShape
    <2>2. dynamicJobs' \subseteq ForeignKeys
        BY <1>13, <2>1 DEF Mark, OriginInv
    <2>3. \A u \in Matchers : tkey'[u] # None => tkey'[u] \in ForeignKeys
        BY <1>13 DEF Mark, OriginInv, TypeOK
    <2> QED
        BY <1>13, <2>2, <2>3 DEF Mark, OriginInv, Waiting
<1>14. ASSUME NEW t \in Matchers,
              CreateDone(t) \/ Pop(t) \/ FinallyUnlocked(t) \/ Release(t)
       PROVE  OriginInv'
    <2>1. Waiting' \subseteq Waiting
        BY <1>14 DEF CreateDone, Pop, FinallyUnlocked, Release, Waiting, TypeOK
    <2>2. \A u \in Matchers : /\ tdev'[u] # None => tdev'[u] = tdev[u]
                              /\ tkey'[u] # None => tkey'[u] = tkey[u]
        BY <1>14 DEF CreateDone, Pop, FinallyUnlocked, Release, Return, TypeOK
    <2> QED
        BY <1>14, <2>1, <2>2 DEF CreateDone, Pop, FinallyUnlocked, Release, OriginInv
<1>15. CASE EditInventory
    BY <1>15 DEF EditInventory, OriginInv, Waiting
<1>16. CASE force_inventory_refresh \/ Describe \/ UNCHANGED vars
    BY <1>16, OriginKept DEF force_inventory_refresh, Describe, vars
<1>17. CASE Crash \/ MainReleaseFails
    BY <1>17 DEF Crash, MainReleaseFails, FreshProcess, OriginInv, Waiting
<1> QED
    BY <1>1, <1>2, <1>3, <1>4, <1>5, <1>6, <1>7, <1>8, <1>9, <1>10, <1>11, <1>12,
       <1>13, <1>14, <1>15, <1>16, <1>17 DEF Next, Main, Matcher, Environment

-----------------------------------------------------------------------------
(* How far the refresh is: the lines it has passed are accepted or dropped, and
   the first line of each key that matchers leave alone has given its job the
   configuration it asks for. *)
Passed == Len(inventory) - Len(mlines)

Served(l) == EntryKey(l) \in Mapped
                 /\ jobs[jobsMap[EntryKey(l)]] = [key |-> EntryKey(l), conf |-> l.conf]

First(n) == /\ inventory[n].profile \in Known /\ IsFirst(inventory, n)
            /\ EntryKey(inventory[n]) \notin ForeignKeys

Reading ==
    /\ Passed \in Nat
    /\ \A n \in DOMAIN mlines : mlines[n] = inventory[Passed + n]
    /\ \A n \in 1 .. Passed : \/ EntryKey(inventory[n]) \in accepted
                              \/ inventory[n].host \in unresolved
    /\ \A k \in accepted :
           \/ k[2] = Dynamic
           \/ \E n \in 1 .. Passed : /\ EntryKey(inventory[n]) = k
                                     /\ IsFirst(inventory, n) \/ k[1] \in unresolved
    /\ \A n \in 1 .. Passed : First(n) => \/ inventory[n].host \in unresolved
                                          \/ Served(inventory[n])

Cleaning ==
    /\ mlines = <<>>
    /\ Mapped \subseteq mtodo \cup accepted \cup DynamicKeys
                            \cup (IF mpc = "cleanDel" THEN {mkey} ELSE {})
    /\ mpc = "cleanDel" => mkey \notin accepted

Synced ==
    /\ \A n \in DOMAIN inventory : First(n) => \/ inventory[n].host \in unresolved
                                               \/ Served(inventory[n])
    /\ \A k \in Mapped : k \in Listed(inventory) \/ k \in DynamicKeys

SyncInv ==
    /\ mpc \notin {"idle", "read"} /\ ~modified => Reading
    /\ mpc \in {"clean", "cleanDel"} => Cleaning
    /\ mpc = "idle" /\ ~modified => Synced

(* What a change of the table must leave alone for a line to stay served. *)
LEMMA ServedSame ==
    ASSUME NEW l, Served(l), EntryKey(l) \in Keys,
           jobsMap'[EntryKey(l)] = jobsMap[EntryKey(l)],
           jobs'[jobsMap[EntryKey(l)]] = jobs[jobsMap[EntryKey(l)]]
    PROVE  Served(l)'
    BY DEF Served, Mapped, EntryKey

(* The job of another key. *)
LEMMA ServedNewJob ==
    ASSUME TypeOK, NEW l, Served(l), EntryKey(l) \in Keys, NEW k \in Keys, NEW c,
           k # EntryKey(l), process_new_job(k, c)
    PROVE  Served(l)'
<1>1. CASE k[2] \in Known
    <2> PICK j \in FreeIds :
            /\ jobs' = [jobs EXCEPT ![j] = [key |-> k, conf |-> c]]
            /\ jobsMap' = [jobsMap EXCEPT ![k] = j]
        BY <1>1 DEF process_new_job
    <2>1. jobsMap[EntryKey(l)] # j
        BY DEF FreeIds
    <2>2. jobsMap'[EntryKey(l)] = jobsMap[EntryKey(l)]
        BY DEF TypeOK
    <2>3. jobsMap[EntryKey(l)] \in JobIds
        BY DEF TypeOK, Served, Mapped
    <2>4. jobs'[jobsMap[EntryKey(l)]] = jobs[jobsMap[EntryKey(l)]]
        BY <2>1, <2>3 DEF TypeOK
    <2> QED
        BY <2>2, <2>4, ServedSame
<1>2. CASE k[2] \notin Known
    BY <1>2, ServedSame DEF process_new_job
<1> QED
    BY <1>1, <1>2

(* Two keys do not share a job. *)
LEMMA ServedAlone ==
    ASSUME TypeOK, JobsMapSound, NEW l, Served(l), EntryKey(l) \in Keys, NEW k \in Keys,
           k # EntryKey(l), mpc \notin {"dropDel", "cleanDel"}
    PROVE  jobsMap[k] # jobsMap[EntryKey(l)]
<1>1. jobsMap[EntryKey(l)] # None
    BY DEF Served, Mapped
<1>2. CASE k \in Mapped
    BY <1>2 DEF JobsMapSound, Served
<1>3. CASE k \notin Mapped
    BY <1>1, <1>3 DEF Mapped
<1> QED
    BY <1>2, <1>3

LEMMA ServedCancel ==
    ASSUME TypeOK, JobsMapSound, NEW l, Served(l), EntryKey(l) \in Keys, NEW k \in Keys,
           k # EntryKey(l), mpc \notin {"dropDel", "cleanDel"}, cancel_job(k),
           UNCHANGED jobsMap
    PROVE  Served(l)'
<1>1. jobsMap[k] # jobsMap[EntryKey(l)]
    BY ServedAlone
<1>2. jobsMap[EntryKey(l)] \in JobIds
    BY DEF TypeOK, Served, Mapped
<1> QED
    BY <1>1, <1>2, ServedSame DEF cancel_job

LEMMA ServedForget ==
    ASSUME TypeOK, NEW l, Served(l), EntryKey(l) \in Keys, mkey # EntryKey(l),
           jobsMap' = [jobsMap EXCEPT ![mkey] = None], UNCHANGED jobs
    PROVE  Served(l)'
    BY ServedSame DEF TypeOK

LEMMA ServedUpdate ==
    ASSUME TypeOK, JobsMapSound, NEW l, Served(l), EntryKey(l) \in Keys, NEW k \in Keys,
           k # EntryKey(l), mpc \notin {"dropDel", "cleanDel"}, NEW c,
           jobs' = [j \in JobIds |-> IF j = jobsMap[k] /\ jobs[j] # None
                                     THEN [jobs[j] EXCEPT !.conf = c] ELSE jobs[j]],
           UNCHANGED jobsMap
    PROVE  Served(l)'
<1>1. jobsMap[k] # jobsMap[EntryKey(l)]
    BY ServedAlone
<1>2. jobsMap[EntryKey(l)] \in JobIds
    BY DEF TypeOK, Served, Mapped
<1> QED
    BY <1>1, <1>2, ServedSame

(* A line that is the first of its key. *)
LEMMA FirstLine ==
    ASSUME TypeOK, inventory \in Files, NEW n \in DOMAIN inventory, First(n)
    PROVE  /\ inventory[n] \in Lines /\ inventory[n].profile # Dynamic
           /\ EntryKey(inventory[n]) \in Keys
           /\ EntryKey(inventory[n]) \in StaticKeys \ ForeignKeys
           /\ EntryKey(inventory[n])[2] = inventory[n].profile
<1>1. inventory[n] \in Lines
    BY DEF TypeOK
<1>2. inventory[n].profile \in Profiles /\ inventory[n].profile # Dynamic
    BY ProfilesAssumption DEF First
<1>3. EntryKey(inventory[n]) \in Keys
    BY <1>1, <1>2 DEF EntryKey, Keys, Lines
<1>4. inventory[n] \in AllLines
    BY DEF AllLines, ToSet
<1> QED
    BY <1>1, <1>2, <1>3, <1>4 DEF StaticKeys, EntryKey, First

(* InSync by positions. *)
LEMMA InSyncByPosition ==
    ASSUME Disjoint, inventory \in Files, Synced
    PROVE  InSync
<1> SUFFICES ASSUME NEW n \in DOMAIN inventory, inventory[n].profile \in Known,
                    IsFirst(inventory, n)
             PROVE  EntryKey(inventory[n]) \notin ForeignKeys
    BY DEF Synced, InSync, Wanted, First, Served
<1>1. inventory[n] \in AllLines
    BY DEF AllLines, ToSet
<1>2. inventory[n].profile # Dynamic
    BY ProfilesAssumption
<1> QED
    BY <1>1, <1>2 DEF ForeignKeys, StaticKeys

(* Lines that are served stay so. *)
Kept == \A n \in DOMAIN inventory :
            First(n) /\ inventory[n].host \notin unresolved' /\ Served(inventory[n])
                => Served(inventory[n])'

LEMMA ReadingKept ==
    ASSUME TypeOK, Reading, Kept, UNCHANGED <<inventory, mlines, unresolved>>,
           accepted \subseteq accepted', \A k \in accepted' \ accepted : k[2] = Dynamic
    PROVE  Reading'
<1>1. Passed' = Passed /\ \A n : First(n)' <=> First(n)
    BY DEF Passed, First, IsFirst, EntryKey
<1>2. \A n \in 1 .. Passed : n \in DOMAIN inventory
    BY DEF Passed, Reading, TypeOK
<1> QED
    BY <1>1, <1>2 DEF Reading, Kept, EntryKey, IsFirst

LEMMA SyncedKept ==
    ASSUME TypeOK, Synced, Kept, UNCHANGED <<inventory, unresolved>>,
           Mapped' \subseteq Mapped \cup DynamicKeys
    PROVE  Synced'
<1>1. \A n : First(n)' <=> First(n)
    BY DEF First, IsFirst, EntryKey
<1>2. \A n \in DOMAIN inventory' :
          First(n)' => inventory'[n].host \in unresolved' \/ Served(inventory[n])'
    BY <1>1 DEF Kept, Synced
<1>3. Listed(inventory)' = Listed(inventory) /\ DynamicKeys' = DynamicKeys
    BY DEF Listed, EntryKey, DynamicKeys
<1>4. \A k \in Mapped' : k \in Listed(inventory)' \/ k \in DynamicKeys'
    BY <1>3 DEF Synced
<1> QED
    BY <1>2, <1>4 DEF Synced

(* The refresh passes a line. *)
LEMMA LinePassed ==
    ASSUME TypeOK, Reading, mlines # <<>>, mlines' = Tail(mlines), UNCHANGED inventory,
           NEW l, l = Head(mlines),
           accepted \subseteq accepted', unresolved \subseteq unresolved',
           EntryKey(l) \in accepted' \/ l.host \in unresolved',
           \A k \in accepted' \ accepted : k = EntryKey(l),
           \A n \in 1 .. Passed :
               First(n) /\ inventory[n].host \notin unresolved' /\ Served(inventory[n])
                   => Served(inventory[n])',
           First(Passed + 1) => l.host \in unresolved' \/ Served(l)'
    PROVE  Reading'
<1>1. mlines \in Seq(Lines) /\ inventory \in Seq(Lines)
    BY DEF TypeOK
<1>2. /\ Passed' = Passed + 1 /\ Passed \in Nat
      /\ l = inventory[Passed + 1]
    <2>1. Len(mlines') = Len(mlines) - 1 /\ 1 \in DOMAIN mlines /\ Head(mlines) = mlines[1]
        BY <1>1
    <2>2. Passed \in Nat /\ mlines[1] = inventory[Passed + 1]
        BY <2>1 DEF Reading
    <2> QED
        BY <1>1, <2>1, <2>2 DEF Passed
<1>3. \A n \in DOMAIN mlines' : mlines'[n] = inventory'[Passed' + n]
    <2> SUFFICES ASSUME NEW n \in DOMAIN mlines' PROVE mlines'[n] = inventory[Passed' + n]
        OBVIOUS
    <2>1. n + 1 \in DOMAIN mlines /\ mlines'[n] = mlines[n + 1] /\ n \in Nat
        BY <1>1
    <2>2. mlines[n + 1] = inventory[Passed + (n + 1)]
        BY <2>1 DEF Reading
    <2> QED
        BY <1>2, <2>1, <2>2
<1>4. \A n \in 1 .. Passed' : n \in 1 .. Passed \/ n = Passed + 1
    BY <1>2
<1>5. \A n : First(n)' <=> First(n)
    BY DEF First, IsFirst, EntryKey
<1>6. \A n \in 1 .. Passed' : \/ EntryKey(inventory[n])' \in accepted'
                              \/ inventory'[n].host \in unresolved'
    BY <1>2, <1>4 DEF Reading, EntryKey
<1>7. ASSUME NEW k \in accepted', k[2] # Dynamic
      PROVE  \E n \in 1 .. Passed' : /\ EntryKey(inventory[n])' = k
                                     /\ IsFirst(inventory, n)' \/ k[1] \in unresolved'
    <2>1. CASE k \in accepted
        BY <1>2, <1>7, <2>1 DEF Reading, EntryKey, IsFirst
    <2>2. CASE k \notin accepted
        <3>1. k = EntryKey(inventory[Passed + 1])
            BY <1>2, <2>2
        <3>2. IsFirst(inventory, Passed + 1) \/ k[1] \in unresolved
            <4> SUFFICES ASSUME NEW m \in 1 .. Passed, EntryKey(inventory[m]) = k
                         PROVE  k[1] \in unresolved
                BY <1>2, <3>1 DEF IsFirst
            <4>1. inventory[m].host \in unresolved
                BY <2>2 DEF Reading
            <4> QED
                BY <4>1 DEF EntryKey
        <3> QED
            BY <1>2, <3>1, <3>2 DEF IsFirst, EntryKey
    <2> QED
        BY <2>1, <2>2
<1>8. \A n \in 1 .. Passed' : First(n)' => \/ inventory'[n].host \in unresolved'
                                           \/ Served(inventory[n])'
    <2> SUFFICES ASSUME NEW n \in 1 .. Passed', First(n),
                        inventory[n].host \notin unresolved'
                 PROVE  Served(inventory[n])'
        BY <1>5
    <2>1. CASE n \in 1 .. Passed
        BY <2>1 DEF Reading
    <2>2. CASE n = Passed + 1
        <3>1. Served(l)'
            BY <1>2, <2>2
        <3> QED
            BY <1>2, <2>2, <3>1 DEF Served, EntryKey
    <2> QED
        BY <1>4, <2>1, <2>2
<1> QED
    BY <1>2, <1>3, <1>6, <1>7, <1>8 DEF Reading, EntryKey

-----------------------------------------------------------------------------
(* The steps that pass a line. *)
LEMMA LineSteps ==
    ASSUME TypeInv, TableInv, OriginInv, Reading,
           SkipDuplicate \/ SkipUnresolved \/ StaticNew \/ StaticUpdate \/ AddDevice
    PROVE  Reading'
<1> USE DEF TypeInv, env, table, mainVars, matcherVars, counters
<1> DEFINE l == Head(mlines)
<1>1. mlines # <<>>
    BY DEF SkipDuplicate, SkipUnresolved, StaticNew, StaticUpdate, AddDevice, MainShape
<1>2. mlines \in Seq(Lines) /\ inventory \in Seq(Lines) /\ Passed \in Nat
    BY DEF TypeOK, Reading
<1>3. Passed + 1 \in DOMAIN inventory /\ l = inventory[Passed + 1]
    <2>1. 1 \in DOMAIN mlines /\ l = mlines[1] /\ Len(mlines) \in Nat /\ Len(mlines) >= 1
        BY <1>1, <1>2
    <2> QED
        BY <1>2, <2>1 DEF Passed, Reading
<1>4. \A n \in 1 .. Passed : n \in DOMAIN inventory
    BY <1>2, <1>3
<1>5. First(Passed + 1) => EntryKey(l) \in Keys /\ l.profile \in Known
                               /\ EntryKey(l)[2] = l.profile /\ l \in Lines
    BY <1>3, FirstLine DEF OriginInv, First
<1>6. First(Passed + 1) => \A n \in 1 .. Passed : EntryKey(inventory[n]) # EntryKey(l)
    BY <1>2, <1>3 DEF First, IsFirst
<1>7. First(Passed + 1) => EntryKey(l) \notin accepted
    BY <1>5, <1>6, ProfilesAssumption DEF Reading
<1>8. CASE SkipDuplicate
    <2>1. \A n \in 1 .. Passed : Served(inventory[n]) => Served(inventory[n])'
        BY <1>8 DEF SkipDuplicate, Served, Mapped, EntryKey
    <2>2. ~First(Passed + 1)
        BY <1>7, <1>8 DEF SkipDuplicate
    <2> QED
        BY <1>1, <1>8, <2>1, <2>2, LinePassed DEF SkipDuplicate
<1>9. CASE SkipUnresolved
    <2>1. \A n \in 1 .. Passed : Served(inventory[n]) => Served(inventory[n])'
        BY <1>9 DEF SkipUnresolved, Served, Mapped, EntryKey
    <2> QED
        BY <1>1, <1>9, <2>1, LinePassed DEF SkipUnresolved
<1>10. CASE AddDevice
    <2>1. \A n \in 1 .. Passed : Served(inventory[n]) => Served(inventory[n])'
        BY <1>10 DEF AddDevice, Served, Mapped, EntryKey
    <2>2. l.profile = Dynamic /\ EntryKey(l) \in accepted
        BY <1>10 DEF AddDevice, OriginInv, MainShape
    <2>3. ~First(Passed + 1)
        BY <1>7, <2>2
    <2> QED
        BY <1>1, <1>10, <2>1, <2>2, <2>3, LinePassed DEF AddDevice
<1>11. CASE StaticNew
    <2>1. /\ EntryKey(l) \in Keys /\ EntryKey(l) \notin Mapped
          /\ process_new_job(EntryKey(l), l.conf)
        BY <1>1, <1>2, <1>11, LinesLeft DEF StaticNew
    <2>2. ASSUME NEW n \in 1 .. Passed, First(n), Served(inventory[n])
          PROVE  Served(inventory[n])'
        <3> DEFINE m == inventory[n]
        <3>1. EntryKey(m) \in Keys /\ EntryKey(m) \in Mapped
            BY <1>4, <2>2, FirstLine DEF OriginInv, Served
        <3>2. inventory' = inventory
            BY <1>11 DEF StaticNew
        <3> HIDE DEF m, l
        <3>3. ASSUME NEW x, x = m PROVE Served(x)'
            BY <2>1, <2>2, <3>1, <3>3, ServedNewJob DEF m
        <3>4. PICK x : x = m
            OBVIOUS
        <3>5. Served(x)'
            BY <3>3, <3>4
        <3> QED
            BY <3>2, <3>4, <3>5 DEF m, Served, EntryKey
    <2>3. ASSUME First(Passed + 1), NEW x, x = l PROVE Served(x)'
        <3>1. EntryKey(l)[2] \in Known
            BY <1>5, <2>3
        <3> PICK j \in FreeIds :
                /\ jobs' = [jobs EXCEPT ![j] = [key |-> EntryKey(l), conf |-> l.conf]]
                /\ jobsMap' = [jobsMap EXCEPT ![EntryKey(l)] = j]
            BY <2>1, <3>1 DEF process_new_job
        <3>2. j \in JobIds /\ j # None
            BY NoneAssumption DEF FreeIds
        <3>3. jobsMap'[EntryKey(x)] = j
            BY <2>1, <2>3, <3>2 DEF TypeOK
        <3>4. jobs'[j] = [key |-> EntryKey(x), conf |-> x.conf]
            BY <2>3, <3>2 DEF TypeOK
        <3> QED
            BY <2>1, <2>3, <3>2, <3>3, <3>4 DEF Served, Mapped, EntryKey
    <2>4. PICK x : x = l
        OBVIOUS
    <2> HIDE DEF l
    <2>5. /\ mlines' = Tail(mlines) /\ accepted' = accepted \cup {EntryKey(x)}
          /\ UNCHANGED <<inventory, unresolved>>
        BY <1>11, <2>4 DEF StaticNew, l
    <2> QED
        BY <1>1, <2>2, <2>3, <2>4, <2>5, LinePassed DEF l
<1>12. CASE StaticUpdate
    <2>1. /\ EntryKey(l) \in Mapped /\ EntryKey(l) \notin accepted
          /\ EntryKey(l) \in Keys /\ mpc = "lines" /\ UNCHANGED jobsMap
          /\ jobs' = [j \in JobIds |->
                          IF j = jobsMap[EntryKey(l)] /\ jobs[j] # None
                          THEN [jobs[j] EXCEPT !.conf = l.conf] ELSE jobs[j]]
        BY <1>12 DEF StaticUpdate, Mapped
    <2>2. ASSUME NEW n \in 1 .. Passed, First(n), Served(inventory[n]),
                 inventory[n].host \notin unresolved'
          PROVE  Served(inventory[n])'
        <3> DEFINE m == inventory[n]
        <3>1. EntryKey(m) \in Keys /\ EntryKey(m) # EntryKey(l)
            <4>1. EntryKey(m) \in accepted
                BY <1>12, <2>2 DEF StaticUpdate, Reading
            <4> QED
                BY <1>4, <2>1, <2>2, <4>1, FirstLine DEF OriginInv
        <3>2. inventory' = inventory
            BY <1>12 DEF StaticUpdate
        <3> HIDE DEF m, l
        <3>3. ASSUME NEW x, x = m PROVE Served(x)'
            BY <2>1, <2>2, <3>1, <3>3, ServedUpdate DEF m, TableInv
        <3>4. PICK x : x = m
            OBVIOUS
        <3>5. Served(x)'
            BY <3>3, <3>4
        <3> QED
            BY <3>2, <3>4, <3>5 DEF m, Served, EntryKey
    <2>3. ASSUME First(Passed + 1), NEW x, x = l PROVE Served(x)'
        <3> DEFINE j == jobsMap[EntryKey(l)]
        <3>1. j \in JobIds /\ jobs[j] # None /\ jobs[j].key = EntryKey(l)
            BY <2>1 DEF TableInv, JobsMapSound, TypeOK, Mapped
        <3>2. jobs[j] \in Jobs
            BY <3>1 DEF TypeOK
        <3>3. [jobs[j] EXCEPT !.conf = l.conf] = [key |-> EntryKey(l), conf |-> l.conf]
            BY <3>1, <3>2 DEF Jobs
        <3>4. jobs'[j] = [key |-> EntryKey(l), conf |-> l.conf]
            BY <2>1, <3>1, <3>3
        <3> QED
            BY <2>1, <2>3, <3>4 DEF Served, Mapped, EntryKey
    <2>4. PICK x : x = l
        OBVIOUS
    <2> HIDE DEF l
    <2>5. /\ mlines' = Tail(mlines) /\ accepted' = accepted \cup {EntryKey(x)}
          /\ UNCHANGED <<inventory, unresolved>>
        BY <1>12, <2>4 DEF StaticUpdate, l
    <2> QED
        BY <1>1, <2>2, <2>3, <2>4, <2>5, LinePassed DEF l
<1> QED
    BY <1>8, <1>9, <1>10, <1>11, <1>12

(* Steps that change nothing the invariant speaks of. *)
LEMMA SyncKept ==
    ASSUME SyncInv, UNCHANGED <<inventory, modified, unresolved, jobs, jobsMap, mpc,
                                mlines, accepted, mtodo, mkey>>
    PROVE  SyncInv'
<1>1. /\ Mapped' = Mapped /\ DynamicKeys' = DynamicKeys
      /\ \A n : First(n)' <=> First(n)
      /\ \A n : Served(inventory[n])' <=> Served(inventory[n])
    BY DEF Mapped, DynamicKeys, First, IsFirst, Served, EntryKey
<1>2. Reading => Reading'
    BY <1>1 DEF Reading, Passed, EntryKey, IsFirst
<1>3. Cleaning => Cleaning'
    BY <1>1 DEF Cleaning
<1>4. Synced => Synced'
    BY <1>1 DEF Synced, Listed, EntryKey
<1> QED
    BY <1>2, <1>3, <1>4 DEF SyncInv

(* A step that takes the entry of a key, which no line in force has, away from
   the table, or its job. *)
LEMMA KeptByRemoval ==
    ASSUME TypeOK, JobsMapSound, inventory \in Files, UNCHANGED <<inventory, unresolved>>,
           NEW k \in Keys,
           \/ /\ cancel_job(k) /\ UNCHANGED jobsMap
              /\ mpc \notin {"dropDel", "cleanDel"}
           \/ k = mkey /\ jobsMap' = [jobsMap EXCEPT ![mkey] = None] /\ UNCHANGED jobs,
           \A n \in DOMAIN inventory :
               First(n) /\ inventory[n].host \notin unresolved => EntryKey(inventory[n]) # k
    PROVE  Kept
<1> SUFFICES ASSUME NEW n \in DOMAIN inventory, First(n),
                    inventory[n].host \notin unresolved, Served(inventory[n])
             PROVE  Served(inventory[n])'
    BY DEF Kept
<1> PICK x : x = inventory[n]
    OBVIOUS
<1>1. Served(x) /\ EntryKey(x) \in Keys /\ EntryKey(x) # k
    BY FirstLine
<1>2. Served(x)'
    BY <1>1, ServedCancel, ServedForget
<1> QED
    BY <1>2 DEF Served, EntryKey

LEMMA SyncNext ==
    ASSUME TypeInv, TableInv, OriginInv, SyncInv, [Next]_vars
    PROVE  SyncInv'
<1> USE DEF TypeInv, env, table, mainVars, matcherVars, counters, locals
<1>0. JobsMapSound /\ inventory \in Files
    BY DEF TableInv, OriginInv
<1>1. CASE StatFiles
    BY <1>1 DEF StatFiles, SyncInv
<1>2. CASE ReadInventory
    <2>1. Passed' = 0 /\ mpc' = "lines" /\ mlines' = inventory /\ inventory' = inventory
              /\ accepted' = {}
        BY <1>2 DEF ReadInventory, Passed, TypeOK
    <2>2. \A n \in DOMAIN mlines' : mlines'[n] = inventory'[Passed' + n]
        BY <2>1 DEF TypeOK
    <2>3. Reading'
        BY <2>1, <2>2 DEF Reading
    <2> QED
        BY <2>1, <2>3 DEF SyncInv
<1>3. CASE SkipDuplicate \/ SkipUnresolved \/ StaticNew \/ StaticUpdate \/ AddDevice
    <2>1. mpc \in {"lines", "add"} /\ mpc' = "lines" /\ modified' = modified
        BY <1>3 DEF SkipDuplicate, SkipUnresolved, StaticNew, StaticUpdate, AddDevice
    <2> QED
        BY <1>3, <2>1, LineSteps DEF SyncInv
<1>4. CASE DynamicLine \/ DropUnmark \/ DropDone \/ AcquireToAdd
    <2>1. Kept
        BY <1>4 DEF DynamicLine, DropUnmark, DropDone, AcquireToAdd, Kept, Served,
           Mapped, EntryKey
    <2>2. /\ UNCHANGED <<inventory, mlines, unresolved, modified>>
          /\ accepted \subseteq accepted'
          /\ mpc \notin {"idle", "read"}
          /\ mpc' \notin {"idle", "read", "clean", "cleanDel"}
        BY <1>4 DEF DynamicLine, DropUnmark, DropDone, AcquireToAdd
    <2>3. \A k \in accepted' \ accepted : k[2] = Dynamic
        BY <1>4 DEF DynamicLine, DropUnmark, DropDone, AcquireToAdd, EntryKey
    <2> QED
        BY <2>1, <2>2, <2>3, ReadingKept DEF SyncInv
<1>5. CASE DropCancel
    <2> PICK k \in mtodo :
            IF k \in dynamicJobs
            THEN cancel_job(k) /\ mkey' = k /\ mpc' = "dropDel"
            ELSE UNCHANGED <<jobs, mkey, mpc>>
        BY <1>5 DEF DropCancel
    <2>1. k \in Keys
        BY DEF TypeOK
    <2>2. Kept
        <3>1. CASE k \in dynamicJobs
            <4>1. \A n \in DOMAIN inventory : First(n) => EntryKey(inventory[n]) # k
                BY <1>0, <3>1, FirstLine DEF OriginInv
            <4> QED
                BY <1>0, <1>5, <2>1, <3>1, <4>1, KeptByRemoval DEF DropCancel
        <3>2. CASE k \notin dynamicJobs
            BY <1>5, <3>2 DEF DropCancel, Kept, Served, Mapped, EntryKey
        <3> QED
            BY <3>1, <3>2
    <2>3. /\ UNCHANGED <<inventory, mlines, unresolved, modified, accepted>>
          /\ mpc = "drop" /\ mpc' \in {"drop", "dropDel"}
        BY <1>5 DEF DropCancel
    <2> QED
        BY <2>2, <2>3, ReadingKept DEF SyncInv
<1>6. CASE DropForget
    <2>1. \A n \in DOMAIN inventory : First(n) => EntryKey(inventory[n]) # mkey
        BY <1>0, <1>6, FirstLine DEF DropForget, OriginInv
    <2>2. Kept
        BY <1>0, <1>6, <2>1, KeptByRemoval DEF DropForget, MainShape
    <2> QED
        BY <1>6, <2>2, ReadingKept DEF DropForget, SyncInv
<1>7. CASE LinesDone
    <2>1. Kept
        BY <1>7 DEF LinesDone, Kept, Served, Mapped, EntryKey
    <2>2. Cleaning'
        BY <1>7 DEF LinesDone, Cleaning, Mapped
    <2> QED
        BY <1>7, <2>1, <2>2, ReadingKept DEF LinesDone, SyncInv
(* While it cleans, the lines in force are accepted. *)
<1>8. ASSUME mpc \in {"clean", "cleanDel"}, ~modified,
             NEW n \in DOMAIN inventory
      PROVE  EntryKey(inventory[n]) \in accepted \/ inventory[n].host \in unresolved
    <2>1. Reading /\ mlines = <<>>
        BY <1>8 DEF SyncInv, Cleaning
    <2>2. n \in 1 .. Passed
        BY <2>1 DEF Passed, TypeOK
    <2> QED
        BY <2>1, <2>2 DEF Reading
<1>9. CASE CleanCancel
    <2> PICK k \in mtodo :
            /\ mtodo' = mtodo \ {k}
            /\ IF k \in accepted
               THEN UNCHANGED <<jobs, mkey, mpc>>
               ELSE cancel_job(k) /\ mkey' = k /\ mpc' = "cleanDel"
        BY <1>9 DEF CleanCancel
    <2>1. k \in Keys
        BY DEF TypeOK
    <2>2. mpc = "clean" /\ UNCHANGED <<inventory, modified, unresolved, mlines, accepted,
                                       jobsMap>>
        BY <1>9 DEF CleanCancel
    <2>3. ~modified => Kept
        <3>1. CASE k \in accepted
            BY <2>2, <3>1 DEF Kept, Served, Mapped, EntryKey
        <3>2. CASE k \notin accepted /\ ~modified
            BY <1>0, <1>8, <2>1, <2>2, <3>2, KeptByRemoval
        <3> QED
            BY <3>1, <3>2
    <2>4. Cleaning'
        BY <2>2 DEF SyncInv, Cleaning, Mapped, DynamicKeys
    <2>5. mpc' \in {"clean", "cleanDel"}
        BY <2>2
    <2> QED
        BY <2>2, <2>3, <2>4, <2>5, ReadingKept DEF SyncInv
<1>10. CASE CleanForget
    <2>1. mpc = "cleanDel" /\ mpc' = "clean" /\ mkey \in Keys /\ mkey \notin accepted
        BY <1>10 DEF CleanForget, MainShape, SyncInv, Cleaning
    <2>2. UNCHANGED <<inventory, modified, unresolved, mlines, accepted, jobs, mtodo>>
              /\ jobsMap' = [jobsMap EXCEPT ![mkey] = None]
        BY <1>10 DEF CleanForget
    <2>3. ~modified => Kept
        BY <1>0, <1>8, <2>1, <2>2, KeptByRemoval
    <2>4. Cleaning'
        <3>1. Mapped' \subseteq Mapped \ {mkey}
            BY <2>1, <2>2 DEF Mapped, TypeOK
        <3> QED
            BY <2>1, <2>2, <3>1 DEF SyncInv, Cleaning, DynamicKeys
    <2> QED
        BY <2>1, <2>2, <2>3, <2>4, ReadingKept DEF SyncInv
<1>11. CASE CleanDone
    <2>1. mpc = "clean" /\ mtodo = {} /\ mpc' = "idle"
              /\ UNCHANGED <<inventory, modified, unresolved, jobs, jobsMap>>
        BY <1>11 DEF CleanDone
    <2>2. ASSUME ~modified PROVE Synced
        <3>1. Reading /\ Cleaning
            BY <2>1, <2>2 DEF SyncInv
        <3>2. \A n \in DOMAIN inventory : n \in 1 .. Passed
            BY <3>1 DEF Cleaning, Passed, TypeOK
        <3>3. ASSUME NEW k \in Mapped, k \notin DynamicKeys
              PROVE  k \in Listed(inventory)
            <4>1. k \in accepted /\ k \in Keys
                BY <2>1, <3>1, <3>3 DEF Cleaning, Mapped
            <4>2. k[2] # Dynamic
                BY <4>1, ProfilesAssumption DEF Keys
            <4>3. PICK n \in 1 .. Passed : EntryKey(inventory[n]) = k
                BY <3>1, <4>1, <4>2 DEF Reading
            <4>4. n \in DOMAIN inventory
                BY <3>1, <4>3 DEF Cleaning, Passed, TypeOK
            <4> QED
                BY <4>3, <4>4 DEF Listed, ToSet
        <3> QED
            BY <3>1, <3>2, <3>3 DEF Reading, Synced
    <2>3. ~modified => Synced'
        <3>1. Kept /\ Mapped' = Mapped
            BY <2>1 DEF Kept, Served, Mapped, EntryKey
        <3> QED
            BY <2>1, <2>2, <3>1, SyncedKept
    <2> QED
        BY <2>1, <2>3 DEF SyncInv
<1>12. ASSUME NEW t \in Matchers, Create(t) PROVE SyncInv'
    <2> PICK p \in ttodo[t] : process_new_job(<<tdev[t].host, p>>, tdev[t].conf)
        BY <1>12 DEF Create
    <2> DEFINE k == <<tdev[t].host, p>>
    <2>1. tdev[t] # None
        BY <1>12 DEF Create, MatcherShape
    <2>2. /\ tdev[t] \in Devices /\ p \in Profiles
          /\ p \in Matches[tdev[t].host] /\ tdev[t].host \in DynamicHosts
        BY <2>1 DEF TypeOK, MatcherShape, OriginInv
    <2>3. k \in Keys /\ k \in DynamicKeys /\ k \in ForeignKeys
        BY <2>2, MatchForeign DEF Devices, Keys, DynamicKeys
    <2>4. UNCHANGED <<inventory, modified, unresolved, mlines, accepted, mpc, mtodo, mkey>>
        BY <1>12 DEF Create
    <2>5. Kept
        <3> SUFFICES ASSUME NEW n \in DOMAIN inventory, First(n), Served(inventory[n])
                     PROVE  Served(inventory[n])'
            BY DEF Kept
        <3> PICK x : x = inventory[n]
            OBVIOUS
        <3>1. Served(x) /\ EntryKey(x) \in Keys /\ EntryKey(x) # k
            BY <1>0, <2>3, FirstLine
        <3>2. Served(x)'
            BY <2>3, <3>1, ServedNewJob
        <3> QED
            BY <2>4, <3>2 DEF Served, EntryKey
    <2>6. Mapped' \subseteq Mapped \cup DynamicKeys
        BY <2>3 DEF process_new_job, Mapped, TypeOK
    <2>7. Cleaning => Cleaning'
        BY <2>4, <2>6 DEF Cleaning, DynamicKeys
    <2> QED
        BY <2>4, <2>5, <2>6, <2>7, ReadingKept, SyncedKept DEF SyncInv
<1>13. CASE \E t \in Matchers : \/ Start(t) \/ Check(t) \/ ConfigOk(t) \/ ConfigFails(t)
                                \/ Acquire(t) \/ Visit(t) \/ Mark(t) \/ CreateDone(t)
    BY <1>13, SyncKept DEF Start, Check, ConfigOk, ConfigFails, Acquire, Visit, Mark,
       CreateDone
<1>14. CASE \E t \in Matchers : \/ MatchFails(t) \/ SizeChanged(t) \/ ScanDone(t)
                                \/ Pop(t) \/ PopDone(t) \/ FinallyLocked(t)
                                \/ FinallyUnlocked(t) \/ Release(t)
    BY <1>14, SyncKept DEF MatchFails, SizeChanged, ScanDone, Pop, PopDone,
       FinallyLocked, FinallyUnlocked, Release
<1>15. CASE EditInventory
    <2>1. modified' /\ UNCHANGED <<mpc, mlines, accepted, mtodo, mkey, jobsMap>>
        BY <1>15 DEF EditInventory
    <2>2. Cleaning => Cleaning'
        BY <2>1 DEF Cleaning, Mapped, DynamicKeys
    <2> QED
        BY <2>1, <2>2 DEF SyncInv
<1>16. CASE force_inventory_refresh \/ Describe \/ UNCHANGED vars
    BY <1>16, SyncKept DEF force_inventory_refresh, Describe, vars
<1>17. CASE Crash \/ MainReleaseFails
    BY <1>17 DEF Crash, MainReleaseFails, FreshProcess, SyncInv
<1> QED
    BY <1>1, <1>2, <1>3, <1>4, <1>5, <1>6, <1>7, <1>9, <1>10, <1>11, <1>12, <1>13,
       <1>14, <1>15, <1>16, <1>17 DEF Next, Main, Matcher, Environment

(* Between refreshes the static jobs are those the file asks for, unless it is
   newer than the recorded time: for any files, any number of matchers and
   however edits, faults and refreshes interleave. *)
THEOREM InSyncCorrect == Spec => []InSyncUnlessModified
<1> DEFINE I == TypeInv /\ TableInv /\ OriginInv /\ SyncInv
<1>1. Init => I
    <2>1. Init => SyncInv
        BY DEF Init, SyncInv
    <2> QED
        BY <2>1, TypeInit, TableInit, OriginInit
<1>2. I /\ [Next]_vars => I'
    BY TypeNext, TableNext, OriginNext, SyncNext
<1>3. I => InSyncUnlessModified
    BY InSyncByPosition DEF OriginInv, SyncInv, InSyncUnlessModified
<1> QED
    BY <1>1, <1>2, <1>3, PTL DEF Spec

-----------------------------------------------------------------------------
(* The table of the listed keys follows the file: PollerJobs implements PollTable.
   A refresh step changes the jobs of one key, and leaves it right: an accepted key
   because Reading holds behind the step, a key that is cleaned away because no line
   that was passed has it.  Only jobs of known profiles are ever scheduled. *)
KnownInv == \A j \in Scheduled : jobs[j].key[2] \in Known

FollowInv == TypeInv /\ TableInv /\ OriginInv /\ SyncInv /\ KnownInv

LEMMA NewJobKnown ==
    ASSUME TypeOK, KnownInv, NEW k \in Keys, NEW c, process_new_job(k, c)
    PROVE  KnownInv'
<1>1. CASE k[2] \in Known
    <2> PICK j \in FreeIds : jobs' = [jobs EXCEPT ![j] = [key |-> k, conf |-> c]]
        BY <1>1 DEF process_new_job
    <2>1. \A i \in JobIds : jobs'[i] = jobs[i] \/ jobs'[i].key = k
        BY DEF TypeOK
    <2> QED
        BY <1>1, <2>1 DEF KnownInv, Scheduled
<1>2. CASE k[2] \notin Known
    BY <1>2 DEF process_new_job, KnownInv, Scheduled
<1> QED
    BY <1>1, <1>2

LEMMA KnownNext ==
    ASSUME TypeInv, KnownInv, [Next]_vars
    PROVE  KnownInv'
<1> USE DEF TypeInv, env, table, mainVars, matcherVars, counters, locals
<1>1. CASE \/ StatFiles \/ ReadInventory \/ SkipDuplicate \/ SkipUnresolved
           \/ DynamicLine \/ DropForget \/ DropUnmark \/ DropDone \/ AcquireToAdd
           \/ AddDevice \/ LinesDone \/ CleanForget \/ CleanDone
    BY <1>1 DEF StatFiles, ReadInventory, SkipDuplicate, SkipUnresolved, DynamicLine,
       DropForget, DropUnmark, DropDone, AcquireToAdd, AddDevice, LinesDone,
       CleanForget, CleanDone, KnownInv, Scheduled
<1>2. CASE StaticNew
    <2>1. EntryKey(Head(mlines)) \in Keys
        BY <1>2, LinesLeft DEF StaticNew, TypeOK
    <2> QED
        BY <1>2, <2>1, NewJobKnown DEF StaticNew
<1>3. CASE StaticUpdate
    <2> SUFFICES ASSUME NEW j \in Scheduled' PROVE jobs'[j].key[2] \in Known
        BY DEF KnownInv
    <2>1. j \in Scheduled /\ jobs[j] \in Jobs
        BY <1>3 DEF StaticUpdate, Scheduled, TypeOK
    <2>2. jobs'[j].key = jobs[j].key
        BY <1>3, <2>1 DEF StaticUpdate, Scheduled, Jobs
    <2> QED
        BY <2>1, <2>2 DEF KnownInv
<1>4. CASE DropCancel \/ CleanCancel
    BY <1>4 DEF DropCancel, CleanCancel, cancel_job, KnownInv, Scheduled
<1>5. ASSUME NEW t \in Matchers, Create(t) PROVE KnownInv'
    <2> PICK p \in ttodo[t] : process_new_job(<<tdev[t].host, p>>, tdev[t].conf)
        BY <1>5 DEF Create
    <2>1. tdev[t] \in Devices /\ p \in Profiles
        BY <1>5 DEF Create, MatcherShape, TypeOK
    <2>2. <<tdev[t].host, p>> \in Keys
        BY <2>1 DEF Devices, Keys
    <2> QED
        BY <2>2, NewJobKnown
<1>6. CASE \E t \in Matchers : \/ Start(t) \/ Check(t) \/ ConfigOk(t) \/ ConfigFails(t)
                                \/ Acquire(t) \/ Visit(t) \/ Mark(t) \/ CreateDone(t)
    BY <1>6 DEF Start, Check, ConfigOk, ConfigFails, Acquire, Visit, Mark, CreateDone,
       KnownInv, Scheduled
<1>7. CASE \E t \in Matchers : \/ MatchFails(t) \/ SizeChanged(t) \/ ScanDone(t)
                                \/ Pop(t) \/ PopDone(t) \/ FinallyLocked(t)
                                \/ FinallyUnlocked(t) \/ Release(t)
    BY <1>7 DEF MatchFails, SizeChanged, ScanDone, Pop, PopDone, FinallyLocked,
       FinallyUnlocked, Release, KnownInv, Scheduled
<1>8. CASE EditInventory \/ force_inventory_refresh \/ Describe \/ UNCHANGED vars
    BY <1>8 DEF EditInventory, force_inventory_refresh, Describe, vars, KnownInv, Scheduled
<1>9. CASE Crash \/ MainReleaseFails
    BY <1>9 DEF Crash, MainReleaseFails, FreshProcess, KnownInv, Scheduled
<1> QED
    BY <1>1, <1>2, <1>3, <1>4, <1>5, <1>6, <1>7, <1>8, <1>9
       DEF Next, Main, Matcher, Environment

LEMMA FollowInit == Init => FollowInv
<1>1. Init => SyncInv /\ KnownInv
    BY DEF Init, SyncInv, KnownInv, Scheduled
<1> QED
    BY <1>1, TypeInit, TableInit, OriginInit DEF FollowInv

LEMMA FollowNext == FollowInv /\ [Next]_vars => FollowInv'
    BY TypeNext, TableNext, OriginNext, SyncNext, KnownNext DEF FollowInv

(* What the file asks for a key is what its first line says. *)
LEMMA AskedIs ==
    ASSUME inventory \in Seq(Lines), NEW k \in ListedKeys,
           NEW n \in DOMAIN inventory, EntryKey(inventory[n]) = k, IsFirst(inventory, n)
    PROVE  Asked[k] = IF k[2] \in Known THEN {inventory[n].conf} ELSE {}
<1>1. \A i \in DOMAIN inventory : inventory[i].profile = EntryKey(inventory[i])[2]
    BY DEF EntryKey
<1>2. ASSUME NEW i \in DOMAIN inventory, IsFirst(inventory, i), EntryKey(inventory[i]) = k
      PROVE  i = n
    <2>1. i \in Nat /\ n \in Nat /\ i >= 1 /\ n >= 1
        OBVIOUS
    <2>2. ~(i < n) /\ ~(n < i)
        BY <1>2, <2>1 DEF IsFirst
    <2> QED
        BY <2>1, <2>2
<1> QED
    BY <1>1, <1>2 DEF Asked, Wanted

LEMMA AskedNone ==
    ASSUME NEW k \in ListedKeys, \A n \in DOMAIN inventory : EntryKey(inventory[n]) # k
    PROVE  Asked[k] = {}
    BY DEF Asked, Wanted

LEMMA AskedType == inventory \in Seq(Lines) => Asked \in [ListedKeys -> SUBSET Confs]
<1> SUFFICES ASSUME inventory \in Seq(Lines), NEW k \in ListedKeys,
                    NEW l \in Wanted(inventory)
             PROVE  l.conf \in Confs
    BY DEF Asked
<1>1. l \in Lines
    BY DEF Wanted
<1> QED
    BY <1>1 DEF Lines

LEMMA PolledType == TypeOK => Polled \in [ListedKeys -> SUBSET Confs]
    BY DEF Polled, Scheduled, TypeOK, Jobs

(* A listed key is polled by the job that its entry names, or not at all. *)
LEMMA PolledServed ==
    ASSUME TypeOK, StaticJobsTracked, NEW k \in ListedKeys, NEW c \in Confs, k \in Mapped,
           jobs[jobsMap[k]] = [key |-> k, conf |-> c]
    PROVE  Polled[k] = {c}
<1>1. k \in Keys /\ jobsMap[k] \in JobIds
    BY DEF TypeOK, Mapped, ListedKeys
<1>2. [key |-> k, conf |-> c] \in Jobs
    BY <1>1 DEF Jobs
<1>3. jobsMap[k] \in Scheduled
    BY <1>1, <1>2, NoneAssumption DEF Scheduled
<1>4. \A j \in Scheduled : jobs[j].key = k => j = jobsMap[k]
    BY DEF StaticJobsTracked, Tracked, ListedKeys
<1> QED
    BY <1>3, <1>4 DEF Polled

LEMMA PolledNone ==
    ASSUME StaticJobsTracked, NEW k \in ListedKeys,
           k \notin Mapped \/ jobs[jobsMap[k]] = None \/ (KnownInv /\ k[2] \notin Known)
    PROVE  Polled[k] = {}
<1>1. ASSUME NEW j \in Scheduled, jobs[j].key = k PROVE FALSE
    <2>1. jobsMap[k] = j /\ j \in JobIds /\ jobs[j] # None
        BY <1>1 DEF StaticJobsTracked, Tracked, ListedKeys, Scheduled
    <2>2. k \in Mapped
        BY <2>1, NoneAssumption DEF Mapped, ListedKeys
    <2> QED
        BY <1>1, <2>1, <2>2 DEF KnownInv
<1> QED
    BY <1>1 DEF Polled

-----------------------------------------------------------------------------
(* The keys that the refresh has accepted are right, and so are, when it cleans, the
   others as soon as their jobs are cancelled. *)
RightAccepted == \A k \in ListedKeys : k \in accepted => Table!Right(k)
RightCleaned  == \A k \in ListedKeys :
                    k \notin accepted /\ (k \notin Mapped \/ jobs[jobsMap[k]] = None)
                        => Table!Right(k)

LEMMA AcceptedRight == FollowInv /\ mpc \notin {"idle", "read"} => RightAccepted
<1> SUFFICES ASSUME FollowInv, mpc \notin {"idle", "read"}, ~modified,
                    NEW k \in ListedKeys, k \in accepted, k[1] \notin unresolved
             PROVE  Polled[k] = Asked[k]
    BY DEF RightAccepted, Table!Right, Excused
<1>1. Reading /\ TypeOK /\ StaticJobsTracked /\ inventory \in Files
    BY DEF FollowInv, SyncInv, TypeInv, TableInv, OriginInv
<1>2. k[2] # Dynamic
    BY ProfilesAssumption DEF ListedKeys, Keys
<1> PICK n \in 1 .. Passed : EntryKey(inventory[n]) = k /\ IsFirst(inventory, n)
    BY <1>1, <1>2 DEF Reading
<1>3. n \in DOMAIN inventory /\ inventory[n] \in Lines /\ inventory \in Seq(Lines)
    BY <1>1 DEF Passed, Reading, TypeOK
<1>4. k[1] = inventory[n].host /\ k[2] = inventory[n].profile /\ inventory[n].conf \in Confs
    BY <1>3 DEF EntryKey, Lines
<1>5. CASE k[2] \in Known
    <2>1. First(n)
        BY <1>4, <1>5 DEF First, ForeignKeys, ListedKeys
    <2>2. Served(inventory[n])
        BY <1>1, <1>4, <2>1 DEF Reading
    <2>3. Polled[k] = {inventory[n].conf}
        BY <1>1, <1>4, <2>2, PolledServed DEF Served
    <2> QED
        BY <1>3, <1>5, <2>3, AskedIs
<1>6. CASE k[2] \notin Known
    <2>1. Polled[k] = {}
        BY <1>1, <1>6, PolledNone DEF FollowInv
    <2> QED
        BY <1>3, <1>6, <2>1, AskedIs
<1> QED
    BY <1>5, <1>6

LEMMA CleanedRight == FollowInv /\ mpc \in {"clean", "cleanDel"} => RightCleaned
<1> SUFFICES ASSUME FollowInv, mpc \in {"clean", "cleanDel"}, ~modified,
                    NEW k \in ListedKeys, k \notin accepted, k[1] \notin unresolved,
                    k \notin Mapped \/ jobs[jobsMap[k]] = None
             PROVE  Polled[k] = Asked[k]
    BY DEF RightCleaned, Table!Right, Excused
<1>1. Reading /\ mlines = <<>> /\ TypeOK /\ StaticJobsTracked
    BY DEF FollowInv, SyncInv, Cleaning, TypeInv, TableInv
<1>2. \A n \in DOMAIN inventory : n \in 1 .. Passed
    BY <1>1 DEF Passed, TypeOK
<1>3. \A n \in DOMAIN inventory : EntryKey(inventory[n]) # k
    BY <1>1, <1>2 DEF Reading, EntryKey
<1>4. Asked[k] = {}
    BY <1>3, AskedNone
<1> QED
    BY <1>1, <1>4, PolledNone

-----------------------------------------------------------------------------
TableStep == [Table!Next]_(Table!vars)

(* The step changes no job but those of one key. *)
Touches(k) ==
    \A j \in JobIds : \/ jobs'[j] = jobs[j]
                      \/ /\ jobs[j] = None \/ jobs[j].key = k
                         /\ jobs'[j] = None \/ jobs'[j].key = k

OthersSame(k) == \A i \in ListedKeys : i # k => Polled'[i] = Polled[i]

LEMMA TouchesOne ==
    ASSUME NEW k, Touches(k)
    PROVE  OthersSame(k)
<1> SUFFICES ASSUME NEW i \in ListedKeys, i # k
             PROVE  Polled'[i] = Polled[i]
    BY DEF OthersSame
<1>1. \A j \in JobIds :
          (jobs[j] # None /\ jobs[j].key = i) <=> (jobs'[j] # None /\ jobs'[j].key = i)
    BY DEF Touches
<1>2. \A j \in JobIds : jobs[j] # None /\ jobs[j].key = i => jobs'[j] = jobs[j]
    BY DEF Touches
<1>3. {j \in Scheduled : jobs[j].key = i}' = {j \in Scheduled : jobs[j].key = i}
    BY <1>1 DEF Scheduled
<1>4. ListedKeys' = ListedKeys
    BY DEF ListedKeys, DynamicKeys, Keys
<1> QED
    BY <1>2, <1>3, <1>4 DEF Polled, Scheduled

LEMMA SameView ==
    /\ UNCHANGED inventory => Asked' = Asked
    /\ UNCHANGED jobs => Polled' = Polled
    /\ UNCHANGED unresolved => Excused' = Excused
    /\ UNCHANGED mpc \/ {mpc, mpc'} \cap {"idle", "read"} = {} => Phase' = Phase
    /\ mpc \notin {"idle", "read"} => Phase = "apply"
<1>1. UNCHANGED inventory => Asked' = Asked
    BY DEF Asked, Wanted, IsFirst, EntryKey, ListedKeys, DynamicKeys
<1>2. UNCHANGED jobs => Polled' = Polled
    BY DEF Polled, Scheduled, ListedKeys, DynamicKeys
<1>3. UNCHANGED unresolved => Excused' = Excused
    BY DEF Excused, ListedKeys, DynamicKeys
<1>4. UNCHANGED mpc \/ {mpc, mpc'} \cap {"idle", "read"} = {} => Phase' = Phase
    BY DEF Phase
<1>5. mpc \notin {"idle", "read"} => Phase = "apply"
    BY DEF Phase
<1> QED
    BY <1>1, <1>2, <1>3, <1>4, <1>5

(* A step that the abstract table does not see, and one that changes a key. *)
LEMMA Unseen ==
    ASSUME UNCHANGED <<inventory, unresolved, modified>>, Polled' = Polled,
           UNCHANGED mpc \/ {mpc, mpc'} \cap {"idle", "read"} = {}
    PROVE  TableStep
    BY SameView DEF TableStep, Table!vars

LEMMA ForeignStep ==
    ASSUME NEW k \in DynamicKeys, OthersSame(k), UNCHANGED <<inventory, unresolved, modified>>,
           UNCHANGED mpc \/ {mpc, mpc'} \cap {"idle", "read"} = {}
    PROVE  TableStep
<1>1. \A i \in ListedKeys : Polled'[i] = Polled[i]
    BY DEF OthersSame, ListedKeys
<1>2. Polled' = Polled
    BY <1>1 DEF Polled, ListedKeys, DynamicKeys
<1> QED
    BY <1>2, Unseen

LEMMA KeyStep ==
    ASSUME TypeOK', NEW k, OthersSame(k), UNCHANGED <<inventory, unresolved, modified>>,
           {mpc, mpc'} \cap {"idle", "read"} = {},
           k \in ListedKeys => Table!Right(k)'
    PROVE  TableStep
<1>0. ListedKeys' = ListedKeys /\ Confs' = Confs
    BY DEF ListedKeys, DynamicKeys, Keys
<1>1. CASE k \in ListedKeys
    <2>1. Polled' \in [ListedKeys -> SUBSET Confs]
        <3>1. (TypeOK => Polled \in [ListedKeys -> SUBSET Confs])'
            BY PolledType, PTL
        <3> QED
            BY <1>0, <3>1
    <2>2. Polled' = [Polled EXCEPT ![k] = Polled'[k]]
        BY <1>1, <2>1 DEF OthersSame, Polled
    <2>3. /\ Asked' = Asked /\ Excused' = Excused /\ Phase' = Phase /\ Phase = "apply"
          /\ Polled'[k] \in SUBSET Confs
        BY <1>1, <2>1, SameView
    <2>4. Table!Apply(k)
        BY <1>1, <2>2, <2>3 DEF Table!Apply
    <2> QED
        BY <1>1, <2>4 DEF TableStep, Table!Next
<1>2. CASE k \notin ListedKeys
    <2>1. Polled' = Polled
        BY <1>0, <1>2 DEF OthersSame, Polled
    <2> QED
        BY <2>1, Unseen
<1> QED
    BY <1>1, <1>2


(* The jobs that a step of the refresh or of a matcher touches. *)
LEMMA NewJobTouches ==
    ASSUME TypeOK, NEW k, NEW c, process_new_job(k, c)
    PROVE  Touches(k)
<1>1. CASE k[2] \in Known
    <2> PICK j \in FreeIds : jobs' = [jobs EXCEPT ![j] = [key |-> k, conf |-> c]]
        BY <1>1 DEF process_new_job
    <2>1. jobs[j] = None /\ j \in JobIds
        BY DEF FreeIds
    <2>2. \A i \in JobIds : jobs'[i] = jobs[i] \/ (i = j /\ jobs'[i].key = k)
        BY <2>1 DEF TypeOK
    <2> QED
        BY <2>1, <2>2 DEF Touches
<1>2. CASE k[2] \notin Known
    BY <1>2 DEF process_new_job, Touches
<1> QED
    BY <1>1, <1>2

LEMMA CancelTouches ==
    ASSUME TypeOK, JobsMapSound, NEW k \in Keys, cancel_job(k),
           mpc \notin {"dropDel", "cleanDel"}
    PROVE  Touches(k)
<1> SUFFICES ASSUME NEW j \in JobIds, j = jobsMap[k]
             PROVE  jobs[j].key = k
    BY DEF cancel_job, Touches
<1>1. k \in Mapped
    BY NoneAssumption DEF Mapped
<1> QED
    BY <1>1 DEF JobsMapSound

LEMMA UpdateTouches ==
    ASSUME TypeOK, JobsMapSound, NEW k \in Mapped, NEW c, mpc = "lines",
           jobs' = [j \in JobIds |-> IF j = jobsMap[k] /\ jobs[j] # None
                                     THEN [jobs[j] EXCEPT !.conf = c] ELSE jobs[j]]
    PROVE  Touches(k)
<1> SUFFICES ASSUME NEW j \in JobIds, j = jobsMap[k], jobs[j] # None
             PROVE  jobs[j].key = k /\ jobs'[j].key = k
    BY DEF Touches
<1>1. jobs[j].key = k /\ jobs[j] \in Jobs
    BY DEF JobsMapSound, TypeOK
<1>2. jobs'[j] = [jobs[j] EXCEPT !.conf = c]
    OBVIOUS
<1> QED
    BY <1>1, <1>2 DEF Jobs

(* The steps of the main thread ... *)
LEMMA FollowLine ==
    ASSUME FollowInv, FollowInv', StaticNew \/ StaticUpdate
    PROVE  TableStep
<1> DEFINE k == EntryKey(Head(mlines))
<1> USE DEF env, table, mainVars
<1>1. TypeOK /\ TypeOK' /\ JobsMapSound
    BY DEF FollowInv, TypeInv, TableInv
<1>2. /\ UNCHANGED <<inventory, unresolved, modified, mpc>> /\ mpc = "lines"
      /\ k \in accepted'
    BY DEF StaticNew, StaticUpdate
<1>3. Touches(k)
    <2>1. CASE StaticNew
        BY <1>1, <2>1, NewJobTouches DEF StaticNew
    <2>2. CASE StaticUpdate
        BY <1>1, <2>2, UpdateTouches DEF StaticUpdate
    <2> QED
        BY <2>1, <2>2
<1>4. RightAccepted'
    <2>1. (FollowInv /\ mpc \notin {"idle", "read"} => RightAccepted)'
        BY AcceptedRight, PTL
    <2> QED
        BY <1>2, <2>1
<1> PICK i : i = k
    OBVIOUS
<1>5. i \in ListedKeys => Table!Right(i)'
    BY <1>2, <1>4 DEF RightAccepted, ListedKeys, DynamicKeys, Keys
<1>6. OthersSame(i)
    BY <1>3, TouchesOne
<1> HIDE DEF k
<1> QED
    BY <1>1, <1>2, <1>5, <1>6, KeyStep

LEMMA FollowClean ==
    ASSUME FollowInv, FollowInv', CleanCancel
    PROVE  TableStep
<1> USE DEF env, table, mainVars
<1> PICK k \in mtodo :
        IF k \in accepted
        THEN UNCHANGED <<jobs, mpc>>
        ELSE cancel_job(k) /\ mpc' = "cleanDel"
    BY DEF CleanCancel
<1>1. TypeOK /\ TypeOK' /\ JobsMapSound /\ k \in Keys
    BY DEF FollowInv, TypeInv, TableInv, TypeOK
<1>2. /\ UNCHANGED <<inventory, unresolved, modified, accepted, jobsMap>>
      /\ mpc = "clean" /\ mpc' \in {"clean", "cleanDel"}
    BY DEF CleanCancel
<1>3. CASE k \in accepted
    BY <1>2, <1>3, SameView, Unseen
<1>4. CASE k \notin accepted
    <2>1. OthersSame(k)
        BY <1>1, <1>2, <1>4, CancelTouches, TouchesOne
    <2>2. (FollowInv /\ mpc \in {"clean", "cleanDel"} => RightCleaned)'
        BY CleanedRight, PTL
    <2>3. k \notin Mapped' \/ jobs'[jobsMap'[k]] = None
        BY <1>1, <1>2, <1>4 DEF cancel_job, Mapped, TypeOK
    <2>4. k \in ListedKeys => Table!Right(k)'
        BY <1>2, <1>4, <2>2, <2>3 DEF RightCleaned, ListedKeys, DynamicKeys, Keys
    <2> QED
        BY <1>1, <1>2, <2>1, <2>4, KeyStep
<1> QED
    BY <1>3, <1>4

LEMMA FollowDone ==
    ASSUME FollowInv, CleanDone
    PROVE  TableStep
<1> USE DEF env, table, mainVars
<1>1. /\ UNCHANGED <<inventory, unresolved, modified, jobs>>
      /\ mpc = "clean" /\ mtodo = {} /\ mpc' = "idle"
    BY DEF CleanDone
<1>2. ASSUME NEW k \in ListedKeys PROVE Table!Right(k)
    <2>1. CASE k \in accepted
        BY <1>1, <2>1, AcceptedRight DEF RightAccepted
    <2>2. CASE k \notin accepted
        <3>1. k \notin Mapped
            BY <1>1, <2>2 DEF FollowInv, SyncInv, Cleaning, ListedKeys
        <3> QED
            BY <1>1, <2>2, <3>1, CleanedRight DEF RightCleaned
    <2> QED
        BY <2>1, <2>2
<1>3. Phase = "apply" /\ Phase' = "rest"
    BY <1>1 DEF Phase
<1>4. Table!Done
    BY <1>1, <1>2, <1>3, SameView DEF Table!Done
<1> QED
    BY <1>4 DEF TableStep, Table!Next

LEMMA FollowMain ==
    ASSUME FollowInv, FollowInv', Main
    PROVE  TableStep
<1> USE DEF env, table, mainVars, matcherVars, counters
<1>0. TypeOK /\ JobsMapSound /\ MainShape /\ OriginInv
    BY DEF FollowInv, TypeInv, TableInv
<1>1. CASE StatFiles
    <2>1. Phase = "rest" /\ Phase' = "look"
        BY <1>1 DEF StatFiles, Phase
    <2>2. Table!Look
        BY <1>1, <2>1, SameView DEF StatFiles, Table!Look
    <2> QED
        BY <2>2 DEF TableStep, Table!Next
<1>2. CASE ReadInventory
    <2>1. Phase = "look" /\ Phase' = "apply" /\ Excused' = {}
        BY <1>2 DEF ReadInventory, Phase, Excused
    <2>2. Table!Read
        BY <1>2, <2>1, SameView DEF ReadInventory, Table!Read
    <2> QED
        BY <2>2 DEF TableStep, Table!Next
<1>3. CASE SkipUnresolved
    <2> DEFINE S == {k \in ListedKeys : k[1] = Head(mlines).host}
    <2>1. Excused' = Excused \cup S
        BY <1>3 DEF SkipUnresolved, Excused, ListedKeys, DynamicKeys
    <2>2. Phase = "apply" /\ Phase' = Phase
        BY <1>3, SameView DEF SkipUnresolved
    <2>3. Table!Excuse(S)
        BY <1>3, <2>1, <2>2, SameView DEF SkipUnresolved, Table!Excuse
    <2> QED
        BY <2>3 DEF TableStep, Table!Next
<1>4. CASE SkipDuplicate \/ DynamicLine \/ DropUnmark \/ DropDone \/ AcquireToAdd
               \/ AddDevice \/ LinesDone \/ CleanForget \/ DropForget
    BY <1>4, SameView, Unseen DEF SkipDuplicate, DynamicLine, DropUnmark, DropDone,
       AcquireToAdd, AddDevice, LinesDone, CleanForget, DropForget
<1>5. CASE DropCancel
    <2> PICK k \in mtodo :
            IF k \in dynamicJobs
            THEN cancel_job(k) /\ mpc' = "dropDel"
            ELSE UNCHANGED <<jobs, mpc>>
        BY <1>5 DEF DropCancel
    <2>1. /\ UNCHANGED <<inventory, unresolved, modified>>
          /\ mpc = "drop" /\ mpc' \in {"drop", "dropDel"} /\ k \in Keys
        BY <1>0, <1>5 DEF DropCancel, TypeOK
    <2>2. CASE k \in dynamicJobs
        <3>1. k \in DynamicKeys
            BY <1>0, <2>2 DEF OriginInv, ForeignKeys
        <3>2. OthersSame(k)
            BY <1>0, <2>1, <2>2, CancelTouches, TouchesOne
        <3> QED
            BY <2>1, <3>1, <3>2, ForeignStep
    <2>3. CASE k \notin dynamicJobs
        BY <2>1, <2>3, SameView, Unseen
    <2> QED
        BY <2>2, <2>3
<1>6. CASE StaticNew \/ StaticUpdate \/ CleanCancel \/ CleanDone
    BY <1>6, FollowLine, FollowClean, FollowDone
<1> QED
    BY <1>1, <1>2, <1>3, <1>4, <1>5, <1>6 DEF Main

(* ... of the matchers, none of which the table of the listed keys sees ... *)
LEMMA FollowMatchers ==
    ASSUME FollowInv, NEW t \in Matchers,
           Start(t) \/ Matcher(t) \/ ConfigFails(t) \/ MatchFails(t)
    PROVE  TableStep
<1> USE DEF env, table, mainVars, matcherVars, counters, locals
<1>1. CASE Create(t)
    <2> PICK p \in ttodo[t] : process_new_job(<<tdev[t].host, p>>, tdev[t].conf)
        BY <1>1 DEF Create
    <2> DEFINE k == <<tdev[t].host, p>>
    <2>1. p \in Matches[tdev[t].host] /\ tdev[t].host \in DynamicHosts /\ TypeOK
        BY <1>1 DEF Create, FollowInv, TypeInv, MatcherShape, OriginInv
    <2>2. k \in DynamicKeys
        BY <2>1, MatchForeign DEF ForeignKeys
    <2>3. OthersSame(k)
        BY <2>1, NewJobTouches, TouchesOne
    <2>4. UNCHANGED <<inventory, unresolved, modified, mpc>>
        BY <1>1 DEF Create
    <2> QED
        BY <2>2, <2>3, <2>4, ForeignStep
<1>2. CASE Start(t) \/ Check(t) \/ ConfigOk(t) \/ ConfigFails(t) \/ Acquire(t) \/ Visit(t)
              \/ Mark(t) \/ CreateDone(t)
    BY <1>2, SameView, Unseen DEF Start, Check, ConfigOk, ConfigFails, Acquire, Visit,
       Mark, CreateDone
<1>3. CASE MatchFails(t) \/ SizeChanged(t) \/ ScanDone(t) \/ Pop(t) \/ PopDone(t)
              \/ FinallyLocked(t) \/ FinallyUnlocked(t) \/ Release(t)
    BY <1>3, SameView, Unseen DEF MatchFails, SizeChanged, ScanDone, Pop, PopDone,
       FinallyLocked, FinallyUnlocked, Release
<1> QED
    BY <1>1, <1>2, <1>3 DEF Matcher

(* ... and of the environment. *)
LEMMA FollowEnvironment ==
    ASSUME FollowInv, FollowInv', Environment
    PROVE  TableStep
<1> USE DEF env, table, mainVars, matcherVars, counters
<1>1. CASE EditInventory
    <2>1. Asked' \in [ListedKeys -> SUBSET Confs]
        <3>1. (inventory \in Seq(Lines) => Asked \in [ListedKeys -> SUBSET Confs])'
            BY AskedType, PTL
        <3>2. inventory' \in Seq(Lines)
            BY DEF FollowInv, TypeInv, TypeOK
        <3> QED
            BY <3>1, <3>2 DEF ListedKeys, DynamicKeys, Keys
    <2>2. Table!Save
        BY <1>1, <2>1, SameView DEF EditInventory, Table!Save, Table!Tables
    <2> QED
        BY <2>2 DEF TableStep, Table!Next
<1>2. CASE force_inventory_refresh \/ Describe
    BY <1>2, SameView, Unseen DEF force_inventory_refresh, Describe
<1>3. CASE Crash \/ MainReleaseFails
    <2>1. Polled' = Table!Empty
        BY <1>3 DEF Crash, MainReleaseFails, FreshProcess, Polled, Scheduled, Table!Empty,
           ListedKeys, DynamicKeys
    <2>2. Phase' = "rest" /\ Excused' = {}
        BY <1>3 DEF Crash, MainReleaseFails, FreshProcess, Phase, Excused
    <2>3. Table!Die
        BY <1>3, <2>1, <2>2, SameView DEF Crash, MainReleaseFails, Table!Die
    <2> QED
        BY <2>3 DEF TableStep, Table!Next
<1> QED
    BY <1>1, <1>2, <1>3 DEF Environment

LEMMA TableStart == Init => Table!Init
<1> SUFFICES ASSUME Init PROVE Table!Init
    OBVIOUS
<1>1. Asked \in [ListedKeys -> SUBSET Confs]
    BY AskedType, TypeInit DEF TypeInv, TypeOK
<1>2. Polled = Table!Empty
    BY DEF Init, Polled, Scheduled, Table!Empty
<1>3. modified = TRUE /\ Phase = "rest" /\ Excused = {}
    BY DEF Init, Phase, Excused
<1> QED
    BY <1>1, <1>2, <1>3 DEF Table!Init, Table!Tables

(* Whatever the administrator, the matchers, the devices and the faults do: the
   jobs of the keys that no match can give follow the file, as PollTable does. *)
THEOREM TableFollows == Spec => FollowsFile
<1>1. FollowInv /\ FollowInv' /\ [Next]_vars => [Table!Next]_(Table!vars)
    <2> SUFFICES ASSUME FollowInv, FollowInv', [Next]_vars PROVE TableStep
        BY DEF TableStep
    <2>1. CASE UNCHANGED vars
        BY <2>1, SameView, Unseen DEF vars, env, table, mainVars
    <2> QED
        BY <2>1, FollowMain, FollowMatchers, FollowEnvironment DEF Next
<1> QED
    BY <1>1, FollowInit, FollowNext, TableStart, PTL DEF Spec, FollowsFile, Table!Spec

(* What following is good for: between refreshes what is polled is what the file
   asks for ... *)
THEOREM TableSettled == Table!Spec => []Table!Settled
<1> USE DEF Table!Settled, Table!Right
<1>1. Table!Init => Table!Settled
    BY DEF Table!Init
<1>2. Table!Settled /\ [Table!Next]_(Table!vars) => Table!Settled'
    BY DEF Table!Next, Table!vars, Table!Save, Table!Look, Table!Read, Table!Excuse,
       Table!Apply, Table!Done, Table!Die
<1> QED
    BY <1>1, <1>2, PTL DEF Table!Spec

(* ... and what stands in the file and is polled is not interrupted by a refresh. *)
THEOREM TableUninterrupted == Table!Spec => Table!Uninterrupted
<1> DEFINE A == \A k \in ListedKeys : Polled[k] = Asked[k] /\ Polled'[k] # Polled[k] =>
                   modified' \/ k \in Excused
<1>1. [Table!Next]_(Table!vars) => [A]_(Table!vars)
    <2> SUFFICES ASSUME Table!Next PROVE A
        OBVIOUS
    <2>1. CASE Table!Save \/ Table!Look \/ Table!Read \/ Table!Done \/ Table!Die
                  \/ \E S \in SUBSET ListedKeys : Table!Excuse(S)
        BY <2>1 DEF Table!Save, Table!Look, Table!Read, Table!Done, Table!Die, Table!Excuse
    <2>2. ASSUME NEW k \in ListedKeys, Table!Apply(k) PROVE A
        <3> PICK S \in SUBSET Confs : Polled' = [Polled EXCEPT ![k] = S]
            BY <2>2 DEF Table!Apply
        <3>1. \A i \in ListedKeys : i # k => Polled'[i] = Polled[i]
            BY DEF Polled
        <3>2. \/ Polled'[k] = Asked[k] \/ k \in Excused \/ modified'
            BY <2>2 DEF Table!Apply, Table!Right
        <3> QED
            BY <3>1, <3>2
    <2> QED
        BY <2>1, <2>2 DEF Table!Next
<1> QED
    BY <1>1, PTL DEF Table!Spec, Table!Uninterrupted

-----------------------------------------------------------------------------
(* The devices left to matching, while no matcher has failed outside its loop or
   made a job during a refresh.  The thread that holds the lock sees the dictionary
   shrink by what it takes out itself, and nothing else: it visits each device
   once, and as long as nothing fails it takes out all it has processed. *)
Ordinary == mishaps \subseteq {"match"}

Held(t) ==
    /\ t \notin Holders => tdone[t] = {} /\ tseen[t] = {}
    /\ tdone[t] \subseteq tseen[t] \cap Waiting
    /\ tdev[t] # None => /\ tpc[t] \in {"create", "mark", "finally", "release"}
                         /\ tdev[t].host \in tdone[t]
    /\ tpc[t] \in {"finally", "release"} => tdone[t] = {} \/ mishaps # {}
    /\ tpc[t] \in {"scan", "create", "mark"} => Cardinality(Waiting) = tsize[t]

HoldInv == Ordinary => \A t \in Matchers : Held(t)

LEMMA HoldInit == Init => HoldInv
    BY DEF Init, HoldInv, Held, Holders, Waiting

(* What went wrong is remembered until the process starts again. *)
LEMMA MishapsGrow ==
    ASSUME [Next]_vars
    PROVE  mishaps \subseteq mishaps' \/ Crash \/ MainReleaseFails
<1> USE DEF env, table, mainVars, matcherVars, counters, locals
<1>1. CASE Main
    BY <1>1 DEF Main, StatFiles, ReadInventory, SkipDuplicate, SkipUnresolved, StaticNew,
       StaticUpdate, DynamicLine, DropCancel, DropForget, DropUnmark, DropDone,
       AcquireToAdd, AddDevice, LinesDone, CleanCancel, CleanForget, CleanDone
<1>2. ASSUME NEW t \in Matchers, Start(t) \/ Matcher(t)
      PROVE  mishaps \subseteq mishaps'
    BY <1>2 DEF Start, Matcher, Check, ConfigOk, Acquire, Visit, Create, Mark, CreateDone,
       SizeChanged, ScanDone, Pop, PopDone, FinallyLocked, FinallyUnlocked, Release
<1>3. ASSUME NEW t \in Matchers, ConfigFails(t) \/ MatchFails(t)
      PROVE  mishaps \subseteq mishaps'
    BY <1>3 DEF ConfigFails, MatchFails
<1>4. CASE EditInventory \/ force_inventory_refresh \/ Describe \/ UNCHANGED vars
    BY <1>4 DEF EditInventory, force_inventory_refresh, Describe, vars
<1> QED
    BY <1>1, <1>2, <1>3, <1>4 DEF Next, Environment

(* A step that changes the locals of at most one matcher. *)
OthersKeep(t) ==
    \A u \in Matchers \ {t} :
        /\ tpc'[u] = tpc[u] /\ tsize'[u] = tsize[u] /\ tdone'[u] = tdone[u]
        /\ tseen'[u] = tseen[u] /\ tdev'[u] = tdev[u]

LEMMA HoldStep ==
    ASSUME HoldInv, Ordinary, NEW t \in Matchers, OthersKeep(t), Held(t)',
           UNCHANGED unmatched, mishaps \subseteq mishaps'
    PROVE  HoldInv'
<1>1. Waiting' = Waiting
    BY DEF Waiting
<1>2. ASSUME NEW u \in Matchers, u # t PROVE Held(u)'
    BY <1>1, <1>2 DEF HoldInv, Held, Holders, OthersKeep
<1> QED
    BY <1>2 DEF HoldInv

LEMMA HoldSame ==
    ASSUME HoldInv, UNCHANGED <<tpc, tsize, tdone, tseen, tdev, unmatched, mishaps>>
    PROVE  HoldInv'
    BY DEF HoldInv, Held, Holders, Waiting, Ordinary

LEMMA HoldNext ==
    ASSUME TypeInv, LockInv, HoldInv, [Next]_vars
    PROVE  HoldInv'
<1> USE DEF TypeInv, env, table, mainVars, matcherVars, counters, locals
<1>1. CASE Crash \/ MainReleaseFails
    BY <1>1 DEF Crash, MainReleaseFails, FreshProcess, HoldInv, Held, Holders, Waiting
<1> SUFFICES ASSUME Ordinary, Ordinary', mishaps \subseteq mishaps' PROVE HoldInv'
    BY <1>1, MishapsGrow DEF HoldInv, Ordinary
<1>2. \A t \in Matchers : Held(t)
    BY DEF HoldInv
<1>3. CASE \/ StatFiles \/ ReadInventory \/ SkipDuplicate \/ SkipUnresolved
           \/ StaticNew \/ StaticUpdate \/ DynamicLine \/ DropCancel \/ DropForget
           \/ DropUnmark
    BY <1>3, HoldSame DEF StatFiles, ReadInventory, SkipDuplicate, SkipUnresolved,
       StaticNew, StaticUpdate, DynamicLine, DropCancel, DropForget, DropUnmark
<1>4. CASE \/ DropDone \/ AcquireToAdd \/ LinesDone \/ CleanCancel \/ CleanForget
           \/ CleanDone \/ EditInventory \/ force_inventory_refresh \/ Describe
           \/ UNCHANGED vars
    BY <1>4, HoldSame DEF DropDone, AcquireToAdd, LinesDone, CleanCancel, CleanForget,
       CleanDone, EditInventory, force_inventory_refresh, Describe, vars
<1>5. CASE AddDevice
    <2>1. Holders = {} /\ UNCHANGED <<tpc, tsize, tdone, tseen, tdev>>
        BY <1>5 DEF AddDevice, LockInv, LockExclusion, Ordinary
    <2> QED
        BY <1>2, <2>1 DEF HoldInv, Held, Holders
<1>6. ASSUME NEW t \in Matchers, Start(t) \/ Check(t) \/ ConfigOk(t)
      PROVE  HoldInv'
    <2>1. OthersKeep(t) /\ UNCHANGED unmatched
        BY <1>6 DEF Start, Check, ConfigOk, Goto, OthersKeep, TypeOK
    <2>2. Held(t)'
        BY <1>2, <1>6 DEF Start, Check, ConfigOk, Goto, Held, Holders, Waiting, TypeOK
    <2> QED
        BY <2>1, <2>2, HoldStep
<1>7. ASSUME NEW t \in Matchers, ConfigFails(t) PROVE FALSE
    BY <1>7 DEF ConfigFails, Ordinary
<1>16. ASSUME NEW t \in Matchers, MatchFails(t) PROVE HoldInv'
    <2>1. OthersKeep(t) /\ UNCHANGED unmatched /\ mishaps' # {}
        BY <1>16 DEF MatchFails, Goto, OthersKeep, TypeOK
    <2>2. Held(t)'
        BY <1>2, <1>16 DEF MatchFails, Goto, Held, Holders, Waiting, TypeOK
    <2> QED
        BY <2>1, <2>2, HoldStep
<1>8. ASSUME NEW t \in Matchers, Acquire(t)
      PROVE  HoldInv'
    <2>1. OthersKeep(t) /\ UNCHANGED unmatched
        BY <1>8 DEF Acquire, Goto, OthersKeep, TypeOK
    <2>2. Held(t)'
        BY <1>2, <1>8 DEF Acquire, Goto, Held, Holders, Waiting, TypeOK
    <2> QED
        BY <2>1, <2>2, HoldStep
<1>9. ASSUME NEW t \in Matchers, Visit(t)
      PROVE  HoldInv'
    <2>1. OthersKeep(t) /\ UNCHANGED unmatched
        BY <1>9 DEF Visit, Goto, OthersKeep, TypeOK
    <2> PICK h \in Waiting \ tseen[t] :
            /\ tseen' = [tseen EXCEPT ![t] = @ \cup {h}]
            /\ \/ /\ tdone' = [tdone EXCEPT ![t] = @ \cup {h}]
                  /\ tdev' = [tdev EXCEPT ![t] = [host |-> h, conf |-> unmatched[h]]]
                  /\ Goto(t, "create")
               \/ UNCHANGED <<tdone, tdev, tpc>>
        BY <1>9 DEF Visit
    <2>2. Held(t)'
        <3>1. Waiting' = Waiting /\ tsize' = tsize /\ tpc[t] = "scan"
            BY <1>9 DEF Visit, Waiting
        <3>2. tdone[t] \in SUBSET Hosts /\ tseen[t] \in SUBSET Hosts
            BY DEF TypeOK
        <3> QED
            BY <1>2, <3>1, <3>2 DEF Goto, Held, Holders, TypeOK
    <2> QED
        BY <2>1, <2>2, HoldStep
<1>10. ASSUME NEW t \in Matchers, Create(t) \/ Mark(t) \/ CreateDone(t)
       PROVE  HoldInv'
    <2>1. OthersKeep(t) /\ UNCHANGED unmatched
        BY <1>10 DEF Create, Mark, CreateDone, Goto, OthersKeep, TypeOK
    <2>2. /\ tpc[t] \in {"create", "mark"} /\ UNCHANGED <<tdone, tseen, tsize, unmatched>>
          /\ \/ tpc'[t] \in {"create", "mark"} /\ tdev' = tdev
             \/ tpc'[t] = "scan" /\ tdev'[t] = None
        BY <1>10 DEF Create, Mark, CreateDone, Goto, TypeOK
    <2>3. Held(t)'
        BY <1>2, <2>2 DEF Held, Holders, Waiting
    <2> QED
        BY <2>1, <2>3, HoldStep
<1>11. ASSUME NEW t \in Matchers, SizeChanged(t) PROVE FALSE
    BY <1>2, <1>11 DEF SizeChanged, Held
<1>12. ASSUME NEW t \in Matchers, ScanDone(t) \/ PopDone(t)
       PROVE  HoldInv'
    <2>1. OthersKeep(t) /\ UNCHANGED unmatched
        BY <1>12 DEF ScanDone, PopDone, Goto, OthersKeep, TypeOK
    <2>2. Held(t)'
        BY <1>2, <1>12 DEF ScanDone, PopDone, Goto, Held, Holders, Waiting, TypeOK
    <2> QED
        BY <2>1, <2>2, HoldStep
<1>13. ASSUME NEW t \in Matchers, Pop(t) PROVE HoldInv'
    <2> PICK h \in tdone[t] :
            IF h \in Waiting
            THEN /\ unmatched' = [unmatched EXCEPT ![h] = None]
                 /\ tdone' = [tdone EXCEPT ![t] = @ \ {h}]
                 /\ tpc' = tpc
            ELSE Goto(t, "finally") /\ UNCHANGED <<unmatched, tdone>>
        BY <1>13 DEF Pop
    <2>1. h \in Waiting /\ UNCHANGED <<tpc, tsize, tseen, tdev>> /\ tpc[t] = "pop"
        BY <1>2, <1>13 DEF Pop, Held
    <2>2. tdone'[t] = tdone[t] \ {h} /\ \A u \in Matchers \ {t} : tdone'[u] = tdone[u]
        BY <2>1 DEF TypeOK
    <2>3. Waiting' = Waiting \ {h}
        BY <2>1 DEF TypeOK, Waiting
    <2>4. \A u \in Matchers \ {t} : u \notin Holders
        BY <2>1 DEF LockInv, LockExclusion, Holders, Ordinary
    <2>5. Held(t)'
        BY <1>2, <2>1, <2>2, <2>3 DEF Held, Holders
    <2>6. ASSUME NEW u \in Matchers, u # t PROVE Held(u)'
        BY <1>2, <2>1, <2>2, <2>4, <2>6 DEF Held, Holders
    <2> QED
        BY <2>5, <2>6 DEF HoldInv
<1>14. ASSUME NEW t \in Matchers, FinallyLocked(t)
       PROVE  HoldInv'
    <2>1. OthersKeep(t) /\ UNCHANGED unmatched
        BY <1>14 DEF FinallyLocked, Goto, OthersKeep, TypeOK
    <2>2. tpc[t] = "finally"
        BY <1>14 DEF FinallyLocked, LockInv, Ordinary
    <2>3. Held(t)'
        BY <1>2, <1>14, <2>2 DEF FinallyLocked, Goto, Held, Holders, Waiting, TypeOK
    <2> QED
        BY <2>1, <2>3, HoldStep
<1>15. ASSUME NEW t \in Matchers, FinallyUnlocked(t) \/ Release(t)
       PROVE  HoldInv'
    <2>1. Return(t) /\ UNCHANGED unmatched
        BY <1>15 DEF FinallyUnlocked, Release
    <2>2. OthersKeep(t) /\ Held(t)'
        BY <2>1 DEF Return, Goto, OthersKeep, Held, Holders, TypeOK
    <2> QED
        BY <2>1, <2>2, HoldStep
<1> QED
    BY <1>1, <1>3, <1>4, <1>5, <1>6, <1>7, <1>8, <1>9, <1>10, <1>11, <1>12, <1>13, <1>14,
       <1>15, <1>16 DEF Next, Main, Matcher, Environment

-----------------------------------------------------------------------------
(* The jobs that are still owed to a waiting device: all of its matches until a
   matcher has visited it, then those that matcher has not turned into jobs. *)
InHand(t, h, p) == tdev[t] # None /\ tdev[t].host = h /\ p \in ttodo[t]
Owed(h, p) == h \in Waiting /\ \A t \in Matchers : h \in tdone[t] => InHand(t, h, p)

LEMMA OwedSame ==
    ASSUME NEW h, NEW p, UNCHANGED <<unmatched, tdone, tdev, ttodo>>
    PROVE  Owed(h, p)' <=> Owed(h, p)
    BY DEF Owed, InHand, Waiting

(* A device that the refresh adds is owed all its jobs: nobody holds the lock. *)
LEMMA AddOwed ==
    ASSUME TypeInv, LockInv, HoldInv, Ordinary, AddDevice, NEW h, h = Head(mlines).host
    PROVE  Waiting' = Waiting \cup {h} /\ \A p : Owed(h, p)'
<1> USE DEF TypeInv
<1>1. Holders = {} /\ UNCHANGED <<tdone, tdev, ttodo>> /\ mlines # <<>>
    BY DEF AddDevice, LockInv, LockExclusion, Ordinary, MainShape, matcherVars
<1>2. \A t \in Matchers : tdone[t] = {}
    BY <1>1 DEF HoldInv, Held
<1>3. Head(mlines).conf # None /\ h \in Hosts
    BY <1>1, LinesLeft, NoneAssumption DEF TypeOK
<1>4. Waiting' = Waiting \cup {h}
    BY <1>3 DEF AddDevice, Waiting, TypeOK
<1> QED
    BY <1>1, <1>2, <1>4 DEF Owed

(* A matcher makes a job that is owed, and then it is not owed any more. *)
LEMMA CreateOwed ==
    ASSUME TypeInv, LockInv, HoldInv, Ordinary, NEW t \in Matchers, Create(t)
    PROVE  \E h \in Hosts : \E q \in Matches[h] :
               /\ process_new_job(<<h, q>>, tdev[t].conf)
               /\ Owed(h, q) /\ ~Owed(h, q)'
               /\ Mapped' = Mapped \cup {<<h, q>>}
<1> USE DEF TypeInv
<1> PICK q \in ttodo[t] :
        /\ process_new_job(<<tdev[t].host, q>>, tdev[t].conf)
        /\ ttodo' = [ttodo EXCEPT ![t] = @ \ {q}]
    BY DEF Create
<1> PICK h : h = tdev[t].host
    OBVIOUS
<1>1. UNCHANGED <<unmatched, tdone, tdev>> /\ tdev[t] # None /\ tpc[t] = "create"
    BY DEF Create, MatcherShape
<1>2. h \in Hosts /\ q \in Matches[h] /\ h \in tdone[t]
    BY <1>1 DEF MatcherShape, TypeOK, Devices, HoldInv, Held
<1>3. \A u \in Matchers \ {t} : tdone[u] = {}
    BY <1>1 DEF HoldInv, Held, LockInv, LockExclusion, Holders, Ordinary
<1>4. InHand(t, h, q) /\ ~InHand(t, h, q)'
    BY <1>1 DEF InHand, TypeOK
<1>5. Owed(h, q) /\ ~Owed(h, q)'
    BY <1>1, <1>2, <1>3, <1>4 DEF Owed, HoldInv, Held
<1>6. Mapped' = Mapped \cup {<<h, q>>}
    <2>1. q \in Known /\ <<h, q>> \in Keys
        BY <1>2, MatchesAssumption, ProfilesAssumption DEF Keys
    <2> PICK j \in FreeIds : jobsMap' = [jobsMap EXCEPT ![<<h, q>>] = j]
        BY <2>1 DEF process_new_job
    <2>2. j # None
        BY NoneAssumption DEF FreeIds
    <2> QED
        BY <2>1, <2>2 DEF Mapped, TypeOK
<1> QED
    BY <1>2, <1>5, <1>6

(* A job is owed from the moment the refresh adds the device until a matcher makes
   the job, and no other step of the process has a part in it. *)
LEMMA OwedStep ==
    ASSUME TypeInv, LockInv, HoldInv, [Next]_vars, Ordinary, Ordinary',
           ~Crash, ~MainReleaseFails, NEW h \in Hosts, NEW p \in Matches[h]
    PROVE  \/ Owed(h, p)' <=> Owed(h, p)
           \/ AddDevice /\ Head(mlines).host = h /\ Owed(h, p)'
           \/ \E t \in Matchers :
                 Create(t) /\ tkey'[t] = <<h, p>> /\ Owed(h, p) /\ ~Owed(h, p)'
           \/ mishaps # {} /\ UNCHANGED <<mpc, jobsMap>> /\ Owed(h, p)'
<1> USE DEF TypeInv, env, table, mainVars, matcherVars, counters, locals
<1>0. /\ tdone \in [Matchers -> SUBSET Hosts] /\ ttodo \in [Matchers -> SUBSET Profiles]
      /\ tdev \in [Matchers -> Devices \cup {None}] /\ tkey \in [Matchers -> Keys \cup {None}]
      /\ unmatched \in [Hosts -> Confs \cup {None}]
    BY DEF TypeOK
<1>1. \A t \in Matchers : Held(t)
    BY DEF HoldInv
<1>2. CASE \/ StatFiles \/ ReadInventory \/ SkipDuplicate \/ SkipUnresolved
           \/ StaticNew \/ StaticUpdate \/ DynamicLine \/ DropCancel \/ DropForget
           \/ DropUnmark
    BY <1>2, OwedSame DEF StatFiles, ReadInventory, SkipDuplicate, SkipUnresolved,
       StaticNew, StaticUpdate, DynamicLine, DropCancel, DropForget, DropUnmark
<1>3. CASE \/ DropDone \/ AcquireToAdd \/ LinesDone \/ CleanCancel \/ CleanForget
           \/ CleanDone \/ EditInventory \/ force_inventory_refresh \/ Describe
           \/ UNCHANGED vars
    BY <1>3, OwedSame DEF DropDone, AcquireToAdd, LinesDone, CleanCancel, CleanForget,
       CleanDone, EditInventory, force_inventory_refresh, Describe, vars
<1>4. CASE AddDevice
    <2>1. /\ UNCHANGED <<tdone, tdev, ttodo>>
          /\ Waiting' = Waiting \cup {Head(mlines).host}
          /\ h = Head(mlines).host => Owed(h, p)'
        BY <1>4, AddOwed DEF AddDevice
    <2> QED
        BY <1>4, <2>1 DEF Owed, InHand
<1>5. ASSUME NEW t \in Matchers,
             \/ Start(t) \/ Check(t) \/ ConfigOk(t) \/ Acquire(t) \/ Mark(t)
             \/ SizeChanged(t) \/ ScanDone(t) \/ PopDone(t) \/ FinallyLocked(t)
      PROVE  Owed(h, p)' <=> Owed(h, p)
    BY <1>5, OwedSame DEF Start, Check, ConfigOk, Acquire, Mark, SizeChanged, ScanDone,
       PopDone, FinallyLocked
<1>6. ASSUME NEW t \in Matchers, ConfigFails(t)
      PROVE  FALSE
    BY <1>6 DEF ConfigFails, Ordinary
<1>12. ASSUME NEW t \in Matchers, MatchFails(t)
       PROVE  Owed(h, p)' <=> Owed(h, p)
    BY <1>12, OwedSame DEF MatchFails
<1>7. ASSUME NEW t \in Matchers, Visit(t)
      PROVE  Owed(h, p)' <=> Owed(h, p)
    <2> PICK g \in Waiting \ tseen[t] :
            \/ /\ tdone' = [tdone EXCEPT ![t] = @ \cup {g}]
               /\ tdev' = [tdev EXCEPT ![t] = [host |-> g, conf |-> unmatched[g]]]
               /\ ttodo' = [ttodo EXCEPT ![t] = Matches[g]]
            \/ UNCHANGED <<tdone, tdev, ttodo>>
        BY <1>7 DEF Visit
    <2>1. tdev[t] = None /\ g \notin tdone[t] /\ Waiting' = Waiting
        BY <1>1, <1>7 DEF Visit, Held, Waiting
    <2>2. [host |-> g, conf |-> unmatched[g]] # None
        <3>1. g \in Hosts /\ unmatched[g] \in Confs
            BY <1>0 DEF Waiting
        <3> QED
            BY <3>1, NoneAssumption DEF Devices
    <2>3. CASE UNCHANGED <<tdone, tdev, ttodo>>
        BY <1>7, <2>3, OwedSame DEF Visit
    <2>4. CASE /\ tdone' = [tdone EXCEPT ![t] = @ \cup {g}]
               /\ tdev' = [tdev EXCEPT ![t] = [host |-> g, conf |-> unmatched[g]]]
               /\ ttodo' = [ttodo EXCEPT ![t] = Matches[g]]
        <3>1. /\ tdone'[t] = tdone[t] \cup {g} /\ ttodo'[t] = Matches[g]
              /\ tdev'[t].host = g /\ tdev'[t] # None
            BY <1>0, <2>2, <2>4
        <3>2. \A u \in Matchers \ {t} : /\ tdone'[u] = tdone[u] /\ tdev'[u] = tdev[u]
                                         /\ ttodo'[u] = ttodo[u]
            BY <1>0, <2>4
        <3>3. (h \in tdone'[t] => InHand(t, h, p)') <=> (h \in tdone[t] => InHand(t, h, p))
            BY <2>1, <3>1 DEF InHand
        <3>4. \A u \in Matchers \ {t} :
                  (h \in tdone'[u] => InHand(u, h, p)') <=> (h \in tdone[u] => InHand(u, h, p))
            BY <3>2 DEF InHand
        <3> QED
            BY <2>1, <3>3, <3>4 DEF Owed
    <2> QED
        BY <2>3, <2>4
<1>8. ASSUME NEW t \in Matchers, Create(t)
      PROVE  \/ Owed(h, p)' <=> Owed(h, p)
             \/ tkey'[t] = <<h, p>> /\ Owed(h, p) /\ ~Owed(h, p)'
    <2> PICK q \in ttodo[t] :
            /\ ttodo' = [ttodo EXCEPT ![t] = @ \ {q}]
            /\ tkey' = [tkey EXCEPT ![t] = <<tdev[t].host, q>>]
        BY <1>8 DEF Create
    <2>1. UNCHANGED <<unmatched, tdone, tdev>> /\ tdev[t] # None
        BY <1>8 DEF Create, MatcherShape
    <2>2. ttodo'[t] = ttodo[t] \ {q} /\ \A u \in Matchers \ {t} : ttodo'[u] = ttodo[u]
        BY <1>0
    <2>3. CASE tdev[t].host = h /\ q = p
        <3>1. tkey'[t] = <<h, p>>
            BY <1>0, <2>3
        <3>2. h \in tdone[t]
            BY <1>1, <2>1, <2>3 DEF Held
        <3>3. ~InHand(t, h, p)'
            BY <2>2, <2>3 DEF InHand
        <3>4. ~Owed(h, p)'
            BY <2>1, <3>2, <3>3 DEF Owed
        <3> QED
            BY <3>1, <3>4
    <2>4. CASE tdev[t].host # h \/ q # p
        <3>1. \A u \in Matchers : InHand(u, h, p)' <=> InHand(u, h, p)
            BY <2>1, <2>2, <2>4 DEF InHand
        <3> QED
            BY <2>1, <3>1 DEF Owed, Waiting
    <2> QED
        BY <2>3, <2>4
<1>9. ASSUME NEW t \in Matchers, CreateDone(t)
      PROVE  Owed(h, p)' <=> Owed(h, p)
    <2>1. \A u \in Matchers : InHand(u, h, p)' <=> InHand(u, h, p)
        BY <1>0, <1>9 DEF CreateDone, InHand
    <2> QED
        BY <1>9, <2>1 DEF CreateDone, Owed, Waiting
<1>10. ASSUME NEW t \in Matchers, Pop(t)
       PROVE  Owed(h, p)' <=> Owed(h, p)
    <2> PICK g \in tdone[t] :
            IF g \in Waiting
            THEN /\ unmatched' = [unmatched EXCEPT ![g] = None]
                 /\ tdone' = [tdone EXCEPT ![t] = @ \ {g}]
            ELSE UNCHANGED <<unmatched, tdone>>
        BY <1>10 DEF Pop
    <2>1. g \in Waiting /\ tdev[t] = None /\ UNCHANGED <<tdev, ttodo>>
        BY <1>1, <1>10 DEF Pop, Held
    <2>2. Waiting' = Waiting \ {g} /\ \A u \in Matchers : g # h =>
              (h \in tdone'[u] <=> h \in tdone[u])
        BY <1>0, <2>1 DEF Waiting
    <2>3. ~InHand(t, h, p) /\ \A u \in Matchers : InHand(u, h, p)' <=> InHand(u, h, p)
        BY <2>1 DEF InHand
    <2> QED
        BY <2>2, <2>3 DEF Owed
<1>11. ASSUME NEW t \in Matchers, FinallyUnlocked(t) \/ Release(t)
       PROVE  \/ Owed(h, p)' <=> Owed(h, p)
              \/ mishaps # {} /\ UNCHANGED <<mpc, jobsMap>> /\ Owed(h, p)'
    <2>1. Return(t) /\ UNCHANGED <<unmatched, mpc, jobsMap>>
        BY <1>11 DEF FinallyUnlocked, Release
    <2>2. tdone[t] = {} \/ mishaps # {}
        BY <1>1, <1>11 DEF FinallyUnlocked, Release, LockInv, Held, Ordinary
    <2>3. tdone'[t] = {} /\ \A u \in Matchers \ {t} : tdone'[u] = tdone[u]
        BY <1>0, <2>1 DEF Return
    <2>4. \A u \in Matchers \ {t} : InHand(u, h, p)' <=> InHand(u, h, p)
        BY <1>0, <2>1 DEF Return, InHand
    <2>5. Owed(h, p) => Owed(h, p)'
        BY <2>1, <2>3, <2>4 DEF Owed, Waiting
    <2>6. tdone[t] = {} /\ Owed(h, p)' => Owed(h, p)
        BY <2>1, <2>3, <2>4 DEF Owed, Waiting
    <2> QED
        BY <2>1, <2>2, <2>5, <2>6
<1> QED
    BY <1>2, <1>3, <1>4, <1>5, <1>6, <1>7, <1>8, <1>9, <1>10, <1>11, <1>12
       DEF Next, Main, Matcher, Environment

-----------------------------------------------------------------------------
(* No scheduled job is lost, the dynamic ones included, while nothing has gone
   wrong.  Once the main thread has cancelled a job nobody replaces it before the
   entry is deleted ... *)
AllTracked == \A j \in Scheduled : Tracked(j)

Cancelled(k) == jobsMap[k] = None \/ jobs[jobsMap[k]] = None

TrackInv == mishaps = {} =>
    /\ AllTracked
    /\ mpc \in {"dropDel", "cleanDel"} => Cancelled(mkey)

(* ... a refresh leaves no job but those of accepted keys, which lines have ... *)
CleanInv ==
    /\ accepted \cap Keys \subseteq StaticKeys
    /\ mishaps = {} /\ mpc \in {"clean", "cleanDel"} =>
           Mapped \subseteq mtodo \cup accepted
                                \cup (IF mpc = "cleanDel" THEN {mkey} ELSE {})

(* ... and so a job that is still owed does not exist yet. *)
OweInv == mishaps = {} /\ mpc = "idle" =>
    \A h \in Hosts : \A p \in Matches[h] : Owed(h, p) => <<h, p>> \notin Mapped

LEMMA NewJobTracked ==
    ASSUME TypeOK, AllTracked, NEW k \in Keys, NEW c, k \notin Mapped, process_new_job(k, c)
    PROVE  AllTracked'
<1>1. CASE k[2] \in Known
    <2> PICK j \in FreeIds :
            /\ jobs' = [jobs EXCEPT ![j] = [key |-> k, conf |-> c]]
            /\ jobsMap' = [jobsMap EXCEPT ![k] = j]
        BY <1>1 DEF process_new_job
    <2>1. j \in JobIds /\ jobsMap'[k] = j /\ jobs'[j].key = k
        BY DEF FreeIds, TypeOK
    <2>2. ASSUME NEW i \in Scheduled', i # j
          PROVE  jobsMap'[jobs'[i].key] = i
        <3>1. i \in Scheduled /\ jobs'[i] = jobs[i]
            BY <2>1, <2>2 DEF Scheduled, TypeOK
        <3>2. jobsMap[jobs[i].key] = i /\ jobs[i].key \in Keys
            BY <3>1 DEF AllTracked, Tracked, Scheduled, TypeOK, Jobs
        <3>3. jobs[i].key # k
            BY <3>1, <3>2, NoneAssumption DEF Mapped, Scheduled
        <3> QED
            BY <3>1, <3>2, <3>3 DEF TypeOK
    <2> QED
        BY <2>1, <2>2 DEF AllTracked, Tracked
<1>2. CASE k[2] \notin Known
    BY <1>2 DEF process_new_job, AllTracked, Tracked, Scheduled
<1> QED
    BY <1>1, <1>2

LEMMA CancelTracked ==
    ASSUME TypeOK, AllTracked, NEW k \in Keys, cancel_job(k), UNCHANGED jobsMap
    PROVE  AllTracked' /\ (jobsMap'[k] = None \/ jobs'[jobsMap'[k]] = None)
<1>1. \A j \in JobIds : jobs'[j] = None \/ jobs'[j] = jobs[j]
    BY DEF cancel_job
<1>2. AllTracked'
    BY <1>1 DEF AllTracked, Tracked, Scheduled
<1> QED
    BY <1>2 DEF cancel_job, TypeOK

LEMMA ForgetTracked ==
    ASSUME TypeOK, AllTracked, Cancelled(mkey),
           jobsMap' = [jobsMap EXCEPT ![mkey] = None], UNCHANGED jobs
    PROVE  AllTracked'
<1> SUFFICES ASSUME NEW j \in Scheduled PROVE jobsMap'[jobs[j].key] = j
    BY DEF AllTracked, Tracked, Scheduled
<1>1. /\ jobsMap[jobs[j].key] = j /\ jobs[j] # None /\ j # None
      /\ jobs[j].key \in Keys
    BY NoneAssumption DEF AllTracked, Tracked, Scheduled, TypeOK, Jobs
<1> QED
    BY <1>1 DEF Cancelled, TypeOK

LEMMA UpdateTracked ==
    ASSUME TypeOK, AllTracked, NEW x, NEW c \in Confs,
           jobs' = [j \in JobIds |-> IF j = x /\ jobs[j] # None
                                     THEN [jobs[j] EXCEPT !.conf = c] ELSE jobs[j]],
           UNCHANGED jobsMap
    PROVE  AllTracked'
<1> SUFFICES ASSUME NEW j \in Scheduled' PROVE jobsMap[jobs'[j].key] = j
    BY DEF AllTracked, Tracked
<1>1. j \in Scheduled /\ jobs[j] \in Jobs
    BY DEF Scheduled, TypeOK
<1>2. jobs'[j].key = jobs[j].key
    BY <1>1 DEF Scheduled, Jobs
<1> QED
    BY <1>1, <1>2 DEF AllTracked, Tracked

LEMMA TrackSame ==
    ASSUME TrackInv, UNCHANGED <<jobs, jobsMap, mishaps>>,
           UNCHANGED <<mpc, mkey>> \/ mpc' \notin {"dropDel", "cleanDel"}
    PROVE  TrackInv'
    BY DEF TrackInv, AllTracked, Tracked, Scheduled, Cancelled

LEMMA TrackNext ==
    ASSUME TypeInv, LockInv, HoldInv, OweInv, TrackInv, [Next]_vars
    PROVE  TrackInv'
<1> USE DEF TypeInv, env, table, mainVars, matcherVars, counters, locals
<1>1. CASE Crash \/ MainReleaseFails
    BY <1>1 DEF Crash, MainReleaseFails, FreshProcess, TrackInv, AllTracked, Scheduled
<1> SUFFICES ASSUME mishaps = {}, mishaps' = {} PROVE TrackInv'
    BY <1>1, MishapsGrow DEF TrackInv
<1>2. AllTracked
    BY DEF TrackInv
<1>3. CASE \/ StatFiles \/ ReadInventory \/ SkipDuplicate \/ SkipUnresolved
           \/ DynamicLine \/ DropUnmark \/ DropDone \/ AcquireToAdd \/ AddDevice
           \/ LinesDone \/ CleanDone
    BY <1>3, TrackSame DEF StatFiles, ReadInventory, SkipDuplicate, SkipUnresolved,
       DynamicLine, DropUnmark, DropDone, AcquireToAdd, AddDevice, LinesDone, CleanDone
<1>4. CASE StaticNew
    <2>1. EntryKey(Head(mlines)) \in Keys
        BY <1>4, LinesLeft DEF StaticNew, TypeOK
    <2>2. AllTracked'
        BY <1>2, <1>4, <2>1, NewJobTracked DEF StaticNew
    <2> QED
        BY <1>4, <2>2 DEF StaticNew, TrackInv
<1>5. CASE StaticUpdate
    <2>1. Head(mlines).conf \in Confs
        BY <1>5, LinesLeft DEF StaticUpdate, TypeOK
    <2>2. AllTracked'
        BY <1>2, <1>5, <2>1, UpdateTracked DEF StaticUpdate
    <2> QED
        BY <1>5, <2>2 DEF StaticUpdate, TrackInv
<1>6. CASE DropCancel \/ CleanCancel
    <2> PICK k \in mtodo :
            IF cancel_job(k) /\ mkey' = k
            THEN TRUE
            ELSE UNCHANGED <<jobs, mkey, mpc>>
        BY <1>6 DEF DropCancel, CleanCancel
    <2>1. k \in Keys /\ UNCHANGED <<jobsMap, mishaps>>
        BY <1>6 DEF DropCancel, CleanCancel, TypeOK
    <2>2. CASE cancel_job(k) /\ mkey' = k
        BY <1>2, <2>1, <2>2, CancelTracked DEF TrackInv, Cancelled
    <2>3. CASE ~(cancel_job(k) /\ mkey' = k)
        BY <2>1, <2>3, TrackSame
    <2> QED
        BY <2>2, <2>3
<1>7. CASE DropForget \/ CleanForget
    <2>1. Cancelled(mkey) /\ mpc' \notin {"dropDel", "cleanDel"}
        BY <1>7 DEF DropForget, CleanForget, TrackInv
    <2>2. AllTracked'
        BY <1>2, <1>7, <2>1, ForgetTracked DEF DropForget, CleanForget
    <2> QED
        BY <2>1, <2>2 DEF TrackInv
<1>8. ASSUME NEW t \in Matchers, Create(t) PROVE TrackInv'
    <2> PICK h \in Hosts : \E q \in Matches[h] :
            process_new_job(<<h, q>>, tdev[t].conf) /\ Owed(h, q)
        BY <1>8, CreateOwed DEF Ordinary
    <2> PICK q \in Matches[h] : process_new_job(<<h, q>>, tdev[t].conf) /\ Owed(h, q)
        OBVIOUS
    <2>1. mpc = "idle" /\ mpc' = "idle"
        BY <1>8 DEF Create
    <2>2. <<h, q>> \in Keys /\ <<h, q>> \notin Mapped
        BY <2>1, MatchesAssumption, ProfilesAssumption DEF OweInv, Keys
    <2>3. AllTracked'
        BY <1>2, <2>2, NewJobTracked
    <2> QED
        BY <2>1, <2>3 DEF TrackInv
<1>9. CASE \E t \in Matchers : \/ Start(t) \/ Check(t) \/ ConfigOk(t) \/ ConfigFails(t)
                                \/ Acquire(t) \/ Visit(t) \/ Mark(t) \/ CreateDone(t)
    BY <1>9, TrackSame DEF Start, Check, ConfigOk, ConfigFails, Acquire, Visit, Mark,
       CreateDone
<1>10. CASE \E t \in Matchers : \/ MatchFails(t) \/ SizeChanged(t) \/ ScanDone(t)
                                 \/ Pop(t) \/ PopDone(t) \/ FinallyLocked(t)
                                 \/ FinallyUnlocked(t) \/ Release(t)
    BY <1>10, TrackSame DEF MatchFails, SizeChanged, ScanDone, Pop, PopDone,
       FinallyLocked, FinallyUnlocked, Release
<1>11. CASE EditInventory \/ force_inventory_refresh \/ Describe \/ UNCHANGED vars
    BY <1>11, TrackSame DEF EditInventory, force_inventory_refresh, Describe, vars
<1> QED
    BY <1>1, <1>3, <1>4, <1>5, <1>6, <1>7, <1>8, <1>9, <1>10, <1>11
       DEF Next, Main, Matcher, Environment

LEMMA CleanSame ==
    ASSUME CleanInv, UNCHANGED <<accepted, mtodo, mkey>>, Mapped' \subseteq Mapped,
           mpc' = mpc \/ mpc' \notin {"clean", "cleanDel"},
           mishaps \subseteq mishaps'
    PROVE  CleanInv'
    BY DEF CleanInv, StaticKeys, AllLines, EntryKey

LEMMA CleanNext ==
    ASSUME TypeInv, LockInv, HoldInv, OriginInv, CleanInv, [Next]_vars
    PROVE  CleanInv'
<1> USE DEF TypeInv, env, table, mainVars, matcherVars, counters, locals
<1>0. StaticKeys' = StaticKeys
    BY DEF StaticKeys, AllLines, EntryKey
<1>1. CASE Crash \/ MainReleaseFails
    BY <1>1 DEF Crash, MainReleaseFails, FreshProcess, CleanInv
<1>2. CASE StatFiles \/ SkipDuplicate \/ SkipUnresolved \/ DropUnmark \/ DropDone
               \/ AcquireToAdd \/ AddDevice \/ CleanDone \/ ReadInventory
    BY <1>0, <1>2 DEF StatFiles, SkipDuplicate, SkipUnresolved, DropUnmark, DropDone,
       AcquireToAdd, AddDevice, CleanDone, ReadInventory, CleanInv
<1>3. CASE StaticNew \/ StaticUpdate
    <2>1. EntryKey(Head(mlines)) \in StaticKeys
        BY <1>3, HeadLine DEF StaticNew, StaticUpdate, StaticKeys
    <2> QED
        BY <1>0, <1>3, <2>1 DEF StaticNew, StaticUpdate, CleanInv
<1>4. CASE DynamicLine
    <2>1. EntryKey(Head(mlines)) \notin Keys
        BY <1>4, ProfilesAssumption DEF DynamicLine, EntryKey, Keys
    <2> QED
        BY <1>0, <1>4, <2>1 DEF DynamicLine, CleanInv
<1>5. CASE DropCancel \/ DropForget
    BY <1>0, <1>5 DEF DropCancel, DropForget, CleanInv
<1>6. CASE LinesDone
    BY <1>0, <1>6 DEF LinesDone, CleanInv, Mapped
<1>7. CASE CleanCancel
    <2> PICK k \in mtodo :
            /\ mtodo' = mtodo \ {k}
            /\ IF k \in accepted THEN UNCHANGED <<mkey, mpc>>
                                 ELSE mkey' = k /\ mpc' = "cleanDel"
        BY <1>7 DEF CleanCancel
    <2>1. Mapped' = Mapped /\ accepted' = accepted /\ mishaps' = mishaps /\ mpc = "clean"
        BY <1>7 DEF CleanCancel, Mapped
    <2> QED
        BY <1>0, <2>1 DEF CleanInv
<1>8. CASE CleanForget
    <2>1. Mapped' \subseteq Mapped \ {mkey}
        BY <1>8 DEF CleanForget, Mapped, MainShape, TypeOK
    <2> QED
        BY <1>0, <1>8, <2>1 DEF CleanForget, CleanInv
<1>9. ASSUME NEW t \in Matchers, Create(t) PROVE CleanInv'
    <2>1. UNCHANGED <<accepted, mpc>> /\ (mpc # "idle" => mishaps' # {})
        BY <1>9 DEF Create
    <2> QED
        BY <1>0, <2>1 DEF CleanInv
<1>10. CASE \E t \in Matchers : \/ Start(t) \/ Check(t) \/ ConfigOk(t) \/ ConfigFails(t)
                                 \/ Acquire(t) \/ Visit(t) \/ Mark(t) \/ CreateDone(t)
    BY <1>10, CleanSame DEF Start, Check, ConfigOk, ConfigFails, Acquire, Visit, Mark,
       CreateDone, Mapped
<1>11. CASE \E t \in Matchers : \/ MatchFails(t) \/ SizeChanged(t) \/ ScanDone(t)
                                 \/ Pop(t) \/ PopDone(t) \/ FinallyLocked(t)
                                 \/ FinallyUnlocked(t) \/ Release(t)
    BY <1>11, CleanSame DEF MatchFails, SizeChanged, ScanDone, Pop, PopDone,
       FinallyLocked, FinallyUnlocked, Release, Mapped
<1>12. CASE EditInventory \/ force_inventory_refresh \/ Describe \/ UNCHANGED vars
    BY <1>12, CleanSame DEF EditInventory, force_inventory_refresh, Describe, vars, Mapped
<1> QED
    BY <1>1, <1>2, <1>3, <1>4, <1>5, <1>6, <1>7, <1>8, <1>9, <1>10, <1>11, <1>12
       DEF Next, Main, Matcher, Environment

(* Between refreshes only matchers change which keys have a job, and they only add. *)
LEMMA IdleMapped ==
    ASSUME TypeInv, LockInv, HoldInv, Ordinary, [Next]_vars, ~Crash, ~MainReleaseFails,
           mpc = "idle", mpc' = "idle"
    PROVE  \/ Mapped' = Mapped
           \/ \E h \in Hosts : \E q \in Matches[h] :
                 ~Owed(h, q)' /\ Mapped' = Mapped \cup {<<h, q>>}
<1> USE DEF TypeInv, env, table, mainVars, matcherVars, counters, locals
<1>1. ~Main
    BY DEF Main, StatFiles, ReadInventory, SkipDuplicate, SkipUnresolved, StaticNew,
       StaticUpdate, DynamicLine, DropCancel, DropForget, DropUnmark, DropDone,
       AcquireToAdd, AddDevice, LinesDone, CleanCancel, CleanForget, CleanDone
<1>2. CASE \E t \in Matchers : Create(t)
    BY <1>2, CreateOwed
<1>3. CASE \E t \in Matchers : \/ Start(t) \/ Check(t) \/ ConfigOk(t) \/ ConfigFails(t)
                                \/ Acquire(t) \/ Visit(t) \/ Mark(t) \/ CreateDone(t)
    BY <1>3 DEF Start, Check, ConfigOk, ConfigFails, Acquire, Visit, Mark, CreateDone,
       Mapped
<1>4. CASE \E t \in Matchers : \/ MatchFails(t) \/ SizeChanged(t) \/ ScanDone(t)
                                \/ Pop(t) \/ PopDone(t) \/ FinallyLocked(t)
                                \/ FinallyUnlocked(t) \/ Release(t)
    BY <1>4 DEF MatchFails, SizeChanged, ScanDone, Pop, PopDone, FinallyLocked,
       FinallyUnlocked, Release, Mapped
<1>5. CASE EditInventory \/ force_inventory_refresh \/ Describe \/ UNCHANGED vars
    BY <1>5 DEF EditInventory, force_inventory_refresh, Describe, vars, Mapped
<1> QED
    BY <1>1, <1>2, <1>3, <1>4, <1>5 DEF Next, Matcher, Environment

LEMMA OweNext ==
    ASSUME Disjoint, TypeInv, LockInv, HoldInv, OriginInv, CleanInv, OweInv, [Next]_vars
    PROVE  OweInv'
<1> USE DEF env, table, mainVars, matcherVars, counters, locals
<1>1. CASE Crash \/ MainReleaseFails
    BY <1>1 DEF Crash, MainReleaseFails, FreshProcess, OweInv, Owed, Waiting
<1> SUFFICES ASSUME mishaps = {}, mishaps' = {}, mpc' = "idle",
                    ~Crash, ~MainReleaseFails,
                    NEW h \in Hosts, NEW p \in Matches[h], Owed(h, p)'
             PROVE  <<h, p>> \notin Mapped'
    BY <1>1, MishapsGrow DEF OweInv
<1>2. Ordinary /\ Ordinary'
    BY DEF Ordinary
<1>3. Owed(h, p) \/ AddDevice
    BY <1>2, OwedStep
<1>4. CASE mpc = "idle"
    <2>1. <<h, p>> \notin Mapped
        BY <1>3, <1>4 DEF OweInv, AddDevice
    <2>2. CASE Mapped' = Mapped
        BY <2>1, <2>2
    <2>3. CASE \E g \in Hosts : \E q \in Matches[g] :
                   ~Owed(g, q)' /\ Mapped' = Mapped \cup {<<g, q>>}
        <3> PICK g \in Hosts : \E q \in Matches[g] :
                   ~Owed(g, q)' /\ Mapped' = Mapped \cup {<<g, q>>}
            BY <2>3
        <3> PICK q \in Matches[g] : ~Owed(g, q)' /\ Mapped' = Mapped \cup {<<g, q>>}
            OBVIOUS
        <3>1. CASE <<g, q>> = <<h, p>>
            <4>1. g = h /\ q = p
                BY <3>1
            <4> QED
                BY <4>1
        <3>2. CASE <<g, q>> # <<h, p>>
            BY <2>1, <3>2
        <3> QED
            BY <3>1, <3>2
    <2> QED
        BY <1>2, <1>4, <2>2, <2>3, IdleMapped
<1>5. CASE mpc # "idle"
    <2>1. CleanDone
        BY <1>5 DEF Next, Main, Matcher, Environment, vars, StatFiles, ReadInventory,
           SkipDuplicate, SkipUnresolved, StaticNew, StaticUpdate, DynamicLine,
           DropCancel, DropForget, DropUnmark, DropDone, AcquireToAdd, AddDevice,
           LinesDone, CleanCancel, CleanForget, Start, Check, ConfigOk, ConfigFails,
           Acquire, Visit, Create, Mark, CreateDone, MatchFails, SizeChanged, ScanDone,
           Pop, PopDone, FinallyLocked, FinallyUnlocked, Release, EditInventory,
           force_inventory_refresh, Describe
    <2>2. h \in DynamicHosts
        BY <1>3, <2>1 DEF CleanDone, AddDevice, Owed, OriginInv
    <2>3. Mapped' \subseteq StaticKeys
        BY <2>1 DEF CleanDone, CleanInv, Mapped
    <2> QED
        BY <2>2, <2>3, Separate
<1> QED
    BY <1>4, <1>5

(* The scheduler loses no job that it has scheduled, of any host, when no matcher
   failed, none lost the lock, none created a job during a refresh, and no profile
   is both listed and matched. *)
THEOREM DynamicTrackingCorrect == Spec => []DynamicJobsTracked
<1> DEFINE I == /\ TypeInv /\ LockInv /\ HoldInv
                /\ Disjoint => OriginInv /\ CleanInv /\ OweInv /\ TrackInv
<1>1. Init => I
    <2>1. Init => CleanInv /\ OweInv /\ TrackInv
        BY DEF Init, CleanInv, OweInv, TrackInv, AllTracked, Scheduled, Mapped
    <2> QED
        BY <2>1, TypeInit, LockInit, HoldInit, OriginInit
<1>2. I /\ [Next]_vars => I'
    <2> SUFFICES ASSUME I, [Next]_vars PROVE I'
        OBVIOUS
    <2>1. TypeInv' /\ LockInv' /\ HoldInv'
        BY TypeNext, LockNext, HoldNext
    <2>2. ASSUME Disjoint PROVE OriginInv' /\ CleanInv' /\ OweInv' /\ TrackInv'
        BY <2>2, OriginNext, CleanNext, OweNext, TrackNext
    <2>3. Disjoint' <=> Disjoint
        BY DEF Disjoint
    <2> QED
        BY <2>1, <2>2, <2>3
<1>3. I => DynamicJobsTracked
    BY DEF TrackInv, AllTracked, DynamicJobsTracked
<1> QED
    BY <1>1, <1>2, <1>3, PTL DEF Spec

-----------------------------------------------------------------------------
(* What a refresh must leave behind for the host of a dynamic line: the jobs of its
   matches are owed to it, or made since the refresh has ended.  The line in
   progress is the one whose device has not been added yet. *)
Accounted(h) ==
    h \in unresolved
        \/ \A p \in Matches[h] : Owed(h, p) \/ (mpc = "idle" /\ <<h, p>> \in Mapped)

InProgress(k) == mpc \in {"drop", "dropDel", "dropUnmark", "acquire", "add"}
                     /\ k = EntryKey(Head(mlines))

AccountInv == Ordinary =>
    /\ mpc \notin {"idle", "read"} =>
           \A k \in accepted : k[2] = Dynamic /\ ~InProgress(k) => Accounted(k[1])
    /\ mpc = "idle" /\ ~modified =>
           \A l \in ToSet(inventory) : l.profile = Dynamic => Accounted(l.host)

LEMMA AccountedKept ==
    ASSUME TypeInv, LockInv, HoldInv, [Next]_vars, Ordinary, Ordinary', ~Crash,
           ~MainReleaseFails, NEW h \in Hosts, Accounted(h), unresolved \subseteq unresolved',
           mpc = "idle" => mpc' = "idle"
    PROVE  Accounted(h)'
<1> SUFFICES ASSUME h \notin unresolved, NEW p \in Matches[h]
             PROVE  Owed(h, p)' \/ (mpc' = "idle" /\ <<h, p>> \in Mapped')
    BY DEF Accounted
<1>1. CASE mpc = "idle" /\ <<h, p>> \in Mapped
    BY <1>1, IdleMapped
<1>2. CASE Owed(h, p)
    <2>1. CASE \E t \in Matchers : Create(t) /\ tkey'[t] = <<h, p>>
        <3> PICK t \in Matchers : Create(t) /\ tkey'[t] = <<h, p>>
            BY <2>1
        <3>1. mpc = "idle" /\ mpc' = "idle"
            BY DEF Create, Ordinary, mainVars
        <3> PICK q \in ttodo[t] :
                /\ process_new_job(<<tdev[t].host, q>>, tdev[t].conf)
                /\ tkey' = [tkey EXCEPT ![t] = <<tdev[t].host, q>>]
            BY DEF Create
        <3>2. <<tdev[t].host, q>> = <<h, p>>
            BY DEF TypeInv, TypeOK
        <3>3. process_new_job(<<h, p>>, tdev[t].conf)
            BY <3>2
        <3>4. p \in Known /\ <<h, p>> \in Keys
            BY MatchesAssumption, ProfilesAssumption DEF Keys
        <3> PICK j \in FreeIds : jobsMap' = [jobsMap EXCEPT ![<<h, p>>] = j]
            BY <3>3, <3>4 DEF process_new_job
        <3>5. <<h, p>> \in Mapped'
            BY <3>4, NoneAssumption DEF Mapped, FreeIds, TypeInv, TypeOK
        <3> QED
            BY <3>1, <3>5
    <2>2. CASE ~\E t \in Matchers : Create(t) /\ tkey'[t] = <<h, p>>
        BY <1>2, <2>2, OwedStep
    <2> QED
        BY <2>1, <2>2
<1> QED
    BY <1>1, <1>2 DEF Accounted

LEMMA AccountNext ==
    ASSUME TypeInv, LockInv, HoldInv, FileInv, AccountInv, [Next]_vars
    PROVE  AccountInv'
<1> USE DEF TypeInv, env, table, mainVars, matcherVars, counters, locals
<1>1. CASE Crash \/ MainReleaseFails
    BY <1>1 DEF Crash, MainReleaseFails, FreshProcess, AccountInv
<1> SUFFICES ASSUME Ordinary, Ordinary', ~Crash, ~MainReleaseFails PROVE AccountInv'
    BY <1>1, MishapsGrow DEF AccountInv, Ordinary
<1>2. ASSUME NEW h \in Hosts, Accounted(h), unresolved \subseteq unresolved',
             mpc = "idle" => mpc' = "idle"
      PROVE  Accounted(h)'
    BY <1>2, AccountedKept
<1>3. \A k \in accepted : k[1] \in Hosts
    BY DEF TypeOK, EntryKeys
<1>4. \A l \in ToSet(inventory) : l.host \in Hosts
    <2>1. inventory \in Seq(Lines)
        BY DEF TypeOK
    <2>2. \A l \in ToSet(inventory) : l \in Lines
        BY <2>1 DEF ToSet
    <2> QED
        BY <2>2 DEF Lines
(* A refresh goes on: the dynamic lines it is through with stay accounted for. *)
<1>5. ASSUME mpc \notin {"idle", "read"}, mpc' \notin {"idle", "read"},
             unresolved \subseteq unresolved',
             \A k \in accepted' \ accepted : k[2] = Dynamic => InProgress(k)',
             \A k \in accepted : InProgress(k) => InProgress(k)' \/ AddDevice
      PROVE  AccountInv'
    <2> SUFFICES ASSUME NEW k \in accepted', k[2] = Dynamic, ~InProgress(k)'
                 PROVE  Accounted(k[1])'
        BY <1>5 DEF AccountInv
    <2>1. k \in accepted /\ k[1] \in Hosts
        BY <1>3, <1>5
    <2> PICK h \in Hosts : h = k[1]
        BY <2>1
    <2>2. CASE ~InProgress(k)
        <3>1. Accounted(h)
            BY <1>5, <2>1, <2>2 DEF AccountInv
        <3>2. Accounted(h)'
            BY <1>2, <1>5, <3>1
        <3> QED
            BY <3>2
    <2>3. CASE InProgress(k)
        <3>1. AddDevice /\ h = Head(mlines).host
            BY <1>5, <2>1, <2>3 DEF InProgress, EntryKey
        <3>2. \A p : Owed(h, p)'
            BY <3>1, AddOwed
        <3> QED
            BY <3>2 DEF Accounted
    <2> QED
        BY <2>2, <2>3
<1>6. CASE StatFiles \/ ReadInventory
    BY <1>6 DEF StatFiles, ReadInventory, AccountInv
<1>7. CASE SkipDuplicate \/ SkipUnresolved \/ StaticNew \/ StaticUpdate \/ LinesDone
    <2>1. /\ mpc = "lines" /\ mpc' \in {"lines", "clean"} /\ unresolved \subseteq unresolved'
          /\ \A k \in accepted' \ accepted : k[2] # Dynamic
        BY <1>7 DEF SkipDuplicate, SkipUnresolved, StaticNew, StaticUpdate, LinesDone,
           EntryKey
    <2> QED
        BY <1>5, <2>1 DEF InProgress
<1>8. CASE DynamicLine
    BY <1>5, <1>8 DEF DynamicLine, InProgress
<1>9. CASE DropForget \/ DropUnmark \/ DropDone \/ AcquireToAdd
    BY <1>5, <1>9 DEF DropForget, DropUnmark, DropDone, AcquireToAdd, InProgress, EntryKey
<1>10. CASE DropCancel
    <2>1. /\ mpc = "drop" /\ mpc' \in {"drop", "dropDel"}
          /\ UNCHANGED <<accepted, unresolved, mlines>>
        BY <1>10 DEF DropCancel
    <2> QED
        BY <1>5, <2>1 DEF InProgress, EntryKey
<1>11. CASE AddDevice
    BY <1>5, <1>11 DEF AddDevice, InProgress
<1>12. CASE CleanCancel \/ CleanForget
    <2>1. /\ mpc \in {"clean", "cleanDel"} /\ mpc' \in {"clean", "cleanDel"}
          /\ UNCHANGED <<accepted, unresolved>>
        BY <1>12 DEF CleanCancel, CleanForget
    <2> QED
        BY <1>5, <2>1 DEF InProgress
<1>13. CASE CleanDone
    <2> SUFFICES ASSUME ~modified, NEW l \in ToSet(inventory), l.profile = Dynamic
                 PROVE  Accounted(l.host)'
        BY <1>13 DEF CleanDone, AccountInv
    <2> PICK h \in Hosts : h = l.host
        BY <1>4
    <2>1. mpc = "clean" /\ mlines = <<>> /\ unresolved' = unresolved
        BY <1>13 DEF CleanDone, FileInv
    <2>2. EntryKey(l) \in accepted \/ h \in unresolved
        BY <2>1 DEF FileInv, Pending, ToSet
    <2>3. Accounted(h)
        BY <2>1, <2>2 DEF AccountInv, InProgress, EntryKey, Accounted
    <2>4. Accounted(h)'
        BY <1>2, <2>1, <2>3
    <2> QED
        BY <2>4
<1>14. ASSUME UNCHANGED <<mpc, mlines, accepted, unresolved, inventory, modified>>
       PROVE  AccountInv'
    <2>1. CASE mpc \notin {"idle", "read"}
        BY <1>5, <1>14, <2>1 DEF InProgress, EntryKey
    <2>2. CASE mpc = "idle"
        <3> SUFFICES ASSUME ~modified, NEW l \in ToSet(inventory), l.profile = Dynamic
                     PROVE  Accounted(l.host)'
            BY <1>14, <2>2 DEF AccountInv
        <3> PICK h \in Hosts : h = l.host
            BY <1>4
        <3>1. Accounted(h)'
            BY <1>2, <1>14, <2>2 DEF AccountInv
        <3> QED
            BY <3>1
    <2>3. CASE mpc = "read"
        BY <1>14, <2>3 DEF AccountInv
    <2> QED
        BY <2>1, <2>2, <2>3
<1>15. CASE \E t \in Matchers : \/ Start(t) \/ Check(t) \/ ConfigOk(t) \/ ConfigFails(t)
                                 \/ Acquire(t) \/ Visit(t) \/ Create(t) \/ Mark(t)
                                 \/ CreateDone(t)
    BY <1>14, <1>15 DEF Start, Check, ConfigOk, ConfigFails, Acquire, Visit, Create, Mark,
       CreateDone
<1>16. CASE \E t \in Matchers : \/ MatchFails(t) \/ SizeChanged(t) \/ ScanDone(t)
                                 \/ Pop(t) \/ PopDone(t) \/ FinallyLocked(t)
                                 \/ FinallyUnlocked(t) \/ Release(t)
    BY <1>14, <1>16 DEF MatchFails, SizeChanged, ScanDone, Pop, PopDone, FinallyLocked,
       FinallyUnlocked, Release
<1>17. CASE EditInventory
    <2>1. modified' /\ UNCHANGED <<mpc, mlines, accepted, unresolved>>
        BY <1>17 DEF EditInventory
    <2> QED
        BY <1>5, <2>1 DEF InProgress, AccountInv, EntryKey
<1>18. CASE force_inventory_refresh \/ Describe \/ UNCHANGED vars
    BY <1>14, <1>18 DEF force_inventory_refresh, Describe, vars
<1> QED
    BY <1>1, <1>6, <1>7, <1>8, <1>9, <1>10, <1>11, <1>12, <1>13, <1>15, <1>16, <1>17,
       <1>18 DEF Next, Main, Matcher, Environment

(* No device of a dynamic line is forgotten: between refreshes it waits, or has a
   job per matching profile.  A matcher that fails while it matches loses none, and
   it does not matter here whether the file lists a profile that matching gives. *)
THEOREM DynamicAccountedCorrect == Spec => []DynamicAccounted
<1> DEFINE I == TypeInv /\ LockInv /\ HoldInv /\ TableInv /\ FileInv /\ AccountInv
<1>1. Init => I
    <2>1. Init => FileInv /\ AccountInv
        BY DEF Init, FileInv, AccountInv
    <2> QED
        BY <2>1, TypeInit, LockInit, HoldInit, TableInit
<1>2. I /\ [Next]_vars => I'
    BY TypeNext, LockNext, HoldNext, TableNext, FileNext, AccountNext
<1>3. I => DynamicAccounted
    <2> SUFFICES ASSUME I, mpc = "idle", ~modified, Ordinary,
                        NEW l \in ToSet(inventory), l.profile = Dynamic,
                        l.host \notin Waiting \cup unresolved, NEW p \in Matches[l.host]
                 PROVE  <<l.host, p>> \in Mapped /\ jobs[jobsMap[<<l.host, p>>]].key = <<l.host, p>>
        BY DEF DynamicAccounted, Ordinary
    <2>1. <<l.host, p>> \in Mapped
        BY DEF AccountInv, Accounted, Owed
    <2> QED
        BY <2>1 DEF TableInv, JobsMapSound
<1> QED
    BY <1>1, <1>2, <1>3, PTL DEF Spec

=============================================================================
