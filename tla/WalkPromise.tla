---------------------------- MODULE WalkPromise ----------------------------
(***************************************************************************)
(* What the walks of a device promise, without threads, jobs, queues and   *)
(* documents: a device marked as known is never new again, so the mark     *)
(* must stand for a first walk that is owed, was made, has failed and is   *)
(* recorded, or is known to be lost.  WalkLifecycle implements it.         *)
(***************************************************************************)
CONSTANT Devices

VARIABLES
    marked,   \* devices that are not new any more
    owed,     \* devices with a first walk scheduled, queued or running
    failed,   \* devices whose first walk failed and will be tried again
    walked,   \* devices walked to the end
    lost      \* devices with a walk that nobody will make

vars == <<marked, owed, failed, walked, lost>>

TypeOK == {marked, owed, failed, walked, lost} \subseteq SUBSET Devices

Init == marked = {} /\ owed = {} /\ failed = {} /\ walked = {} /\ lost = {}

(* A realtime thread decides that a device is to be walked ... *)
Schedule(d) ==
    /\ owed' = owed \cup {d}
    /\ UNCHANGED <<marked, failed, walked, lost>>

(* ... and marks it, which must not outlive the walk unnoticed. *)
Mark(d) ==
    /\ d \in owed \cup failed \cup walked \cup lost
    /\ marked' = marked \cup {d}
    /\ UNCHANGED <<owed, failed, walked, lost>>

(* The first walks that end, one way or another, were owed; more than one walk
   of a device may be under way, so it may still be owed one afterwards. *)
Ends(S) == S \subseteq owed /\ owed' \subseteq owed /\ owed \ owed' \subseteq S

Finish(d) ==
    /\ Ends({d})
    /\ walked' = walked \cup {d}
    /\ UNCHANGED <<marked, failed, lost>>

Fail(d) ==
    /\ Ends({d})
    /\ failed' = failed \cup {d}
    /\ UNCHANGED <<marked, walked, lost>>

(* A crash loses several at once. *)
Lose(S) ==
    /\ Ends(S)
    /\ lost' = lost \cup S
    /\ UNCHANGED <<marked, failed, walked>>

(* A later walk succeeds: the failure is settled. *)
Retry(d) ==
    /\ walked' = walked \cup {d}
    /\ failed' = failed \ {d}
    /\ UNCHANGED <<marked, owed, lost>>

(* The device leaves the inventory.  What is owed is not called back; a walk
   whose mark comes after this is noted as lost ... *)
Forget(d) ==
    /\ marked' = marked \ {d} /\ walked' = walked \ {d}
    /\ lost' \in {lost \ {d}, lost \cup {d}}
    /\ UNCHANGED <<owed, failed>>

(* ... and so is a failure that had been recorded anew before the record goes. *)
Drop(d) ==
    /\ failed' = failed \ {d}
    /\ lost' \in {lost, lost \cup {d}}
    /\ d \in marked \cap failed => d \in lost'
    /\ UNCHANGED <<marked, owed, walked>>

Next ==
    \/ \E d \in Devices : Schedule(d) \/ Mark(d) \/ Finish(d) \/ Fail(d)
                              \/ Retry(d) \/ Forget(d) \/ Drop(d)
    \/ \E S \in SUBSET Devices : Lose(S)

Spec == Init /\ [][Next]_vars

(* The mark stands for a walk. *)
MarkMeansWalk == marked \subseteq owed \cup failed \cup walked \cup lost

(* A walk that is owed does not vanish. *)
OwedIsSettled ==
    [][\A d \in owed \ owed' : d \in failed' \cup walked' \cup lost']_vars

=============================================================================
