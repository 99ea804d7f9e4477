----------------------------- MODULE PollTable -----------------------------
(***************************************************************************)
(* What the job table promises about the devices that are listed with a    *)
(* profile: it follows the file.  Here are no lines, jobs, maps, locks and *)
(* threads, only what the file asks for and what is polled: for each key   *)
(* the configurations, one or none of them in the file.  PollerJobs        *)
(* implements it.                                                          *)
(***************************************************************************)
CONSTANTS Keys, Confs

VARIABLES
    asked,    \* what the file asks for
    polled,   \* what is polled
    newer,    \* the file was saved after a refresh last looked at its time
    phase,    \* of the refresh: at rest, about to read, or applying the file
    excused   \* keys that the refresh could not resolve

vars == <<asked, polled, newer, phase, excused>>

Tables == [Keys -> SUBSET Confs]
Empty  == [k \in Keys |-> {}]

TypeOK == /\ asked \in Tables /\ polled \in Tables
          /\ newer \in BOOLEAN /\ phase \in {"rest", "look", "apply"}
          /\ excused \subseteq Keys

Init == /\ asked \in Tables /\ polled = Empty
        /\ newer = TRUE /\ phase = "rest" /\ excused = {}

Save ==
    /\ asked' \in Tables /\ newer' = TRUE
    /\ UNCHANGED <<polled, phase, excused>>

(* A refresh looks at the time of the file, then reads it. *)
Look ==
    /\ phase = "rest" /\ phase' = "look" /\ newer' = FALSE
    /\ UNCHANGED <<asked, polled, excused>>

Read ==
    /\ phase = "look" /\ phase' = "apply" /\ excused' = {}
    /\ UNCHANGED <<asked, polled, newer>>

Excuse(S) ==
    /\ phase = "apply" /\ excused' = excused \cup S
    /\ UNCHANGED <<asked, polled, newer, phase>>

(* One key at a time is brought to what the file asks for; to what it asked for,
   when it has been saved in the meantime. *)
Right(k) == polled[k] = asked[k] \/ k \in excused \/ newer

Apply(k) ==
    /\ phase = "apply"
    /\ \E S \in SUBSET Confs : polled' = [polled EXCEPT ![k] = S]
    /\ UNCHANGED <<asked, newer, phase, excused>>
    /\ Right(k)'

Done ==
    /\ phase = "apply" /\ phase' = "rest"
    /\ \A k \in Keys : Right(k)
    /\ UNCHANGED <<asked, polled, newer, excused>>

(* The process dies and is started again: the table is empty. *)
Die ==
    /\ polled' = Empty /\ newer' = TRUE /\ phase' = "rest" /\ excused' = {}
    /\ UNCHANGED asked

Next == \/ Save \/ Look \/ Read \/ Done \/ Die
        \/ \E S \in SUBSET Keys : Excuse(S)
        \/ \E k \in Keys : Apply(k)

Spec == Init /\ [][Next]_vars

(* Between refreshes what is polled is what the file asks for. *)
Settled == phase = "rest" => \A k \in Keys : Right(k)

(* What the file asks for and is polled stays so through every refresh, without
   interruption, until the file is saved or the process dies. *)
Uninterrupted ==
    [][\A k \in Keys : polled[k] = asked[k] /\ polled'[k] # polled[k] =>
          newer' \/ k \in excused]_vars

=============================================================================
