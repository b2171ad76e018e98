----------------------------- MODULE ImageSlot -----------------------------
(***************************************************************************)
(* What updating the firmware promises: the tracker runs one image until a *)
(* complete one has been offered, and then, at once and for good, that     *)
(* one.  There is no state in which it runs neither, until it is released  *)
(* from this.                                                              *)
(***************************************************************************)
CONSTANTS Images, NoImage

VARIABLES running, ready, released

Init == running \in Images /\ ready = NoImage

Offer == /\ ready = NoImage /\ ready' \in Images
         /\ UNCHANGED running

(* A new download begins before the last one is installed.                 *)
Withdraw == ready' = NoImage /\ UNCHANGED running

Install == /\ ready # NoImage
           /\ running' = ready /\ ready' = NoImage

Next == Offer \/ Withdraw \/ Install

Spec == Init /\ [][released' \/ Next]_<<running, ready>>
=============================================================================
