------------------------------ MODULE LogQueue ------------------------------
(***************************************************************************)
(* What the stored-record log of the tracker promises to its users,        *)
(* whatever the flash underneath goes through.  Records are numbered in    *)
(* the order in which they are stored.  `kept' is the set of records that  *)
(* are still intact in flash, `pending' the ones that the ring still has   *)
(* to hand to the reporter.                                                *)
(*                                                                         *)
(* The log is a queue that may lose data in two ways only: it forgets its  *)
(* oldest records when it runs out of room, and a power cut may set it     *)
(* back to an earlier (or to an empty) stretch of what is intact.  It      *)
(* never hands records out of order, never makes a hole in the middle of   *)
(* what is pending, and never loses a pending record while it appends.     *)
(* All this up to the moment it is released from it.                       *)
(***************************************************************************)
EXTENDS Naturals

CONSTANT Record      \* the records, numbered in the order they are stored

VARIABLES kept, pending,
          cleared,    \* flips whenever the owner empties the log
          cuts,       \* how often the power was cut
          released    \* nothing is promised any more

calls == <<cleared, cuts>>
avars == <<kept, pending, calls>>

StretchOf(S, lo, hi) == {r \in S : lo < r /\ r <= hi}

Init == kept = {} /\ pending = {} /\ cleared = FALSE /\ cuts = 0

(* A record newer than all the others is in flash, and not pending yet.    *)
Write(r) == /\ \A q \in kept : q < r
            /\ kept' = kept \cup {r}
            /\ UNCHANGED <<pending, calls>>

(* The newest intact record becomes pending.                               *)
Append(r) == /\ r \in kept
             /\ \A q \in kept : q <= r
             /\ pending' = pending \cup {r}
             /\ UNCHANGED <<kept, calls>>

(* Room is made by erasing records: of what is pending only the oldest go, *)
(* and nothing stops being pending that has not been erased.               *)
Discard == \E gone \in SUBSET kept :
             /\ kept' = kept \ gone
             /\ pending' = pending \ gone
             /\ \A r \in gone \cap pending, q \in pending' : r < q
             /\ UNCHANGED calls

(* The oldest pending record is taken off the queue.                       *)
Advance == \E r \in pending :
             /\ \A q \in pending : r <= q
             /\ pending' = pending \ {r}
             /\ UNCHANGED <<kept, calls>>

(* The owner empties the log.                                              *)
Clear == /\ cleared' = ~cleared
         /\ pending' = {}
         /\ UNCHANGED <<kept, cuts>>

(* After a power cut the queue is a gap-free stretch of what is intact.    *)
Recover == /\ cuts' = cuts + 1
           /\ \E gone \in SUBSET kept, lo, hi \in {0} \cup Record :
                /\ kept' = kept \ gone
                /\ pending' = StretchOf(kept', lo, hi)
           /\ UNCHANGED cleared

Next == \/ \E r \in Record : Write(r) \/ Append(r)
        \/ Discard
        \/ Advance
        \/ Clear
        \/ Recover

Spec == Init /\ [][released' \/ Next]_avars
=============================================================================
