------------------------------ MODULE RingOps -------------------------------
(***************************************************************************)
(* ampm_lib/lib/ringbuf.c: the byte ring between an interrupt handler and  *)
(* the main loop, as a record of its cells and its two indices.  The       *)
(* fields are volatile: an index that is bumped and then wrapped is seen   *)
(* out of range in between by whoever interrupts.                          *)
(***************************************************************************)
EXTENDS Integers

CONSTANT Size      \* RINGBUF.size; RINGBUF_Init refuses less than 2

ASSUME SizeAtLeastTwo == Size \in Nat /\ Size >= 2

Index == 0 .. Size - 1

EmptyRing(byte) == [pt |-> [k \in Index |-> byte], head |-> 0, tail |-> 0]

Wrap(x) == IF x >= Size THEN 0 ELSE x
After(x) == Wrap(x + 1)

(* Mutants of IsFull and IsEmpty: the wrap is forgotten, the test dropped. *)
IsFullUnwrapped(r) == r.head + 1 = r.tail
IsEmptyUnchecked(r) == FALSE

IsFull(r) == After(r.head) = r.tail
IsEmpty(r) == r.tail = r.head

(* RINGBUF_Put, for whoever is not interrupted: a full ring stays as it is.*)
Put(r, c) == IF IsFull(r) THEN r
             ELSE [r EXCEPT !.pt[r.head] = c, !.head = After(r.head)]

(* RINGBUF_Get, for whoever is not interrupted: the byte, and the ring.    *)
Oldest(r) == r.pt[r.tail]
Drop(r) == [r EXCEPT !.tail = After(r.tail)]

(* RINGBUF_GetFill.                                                        *)
Fill(r) == IF r.head >= r.tail THEN r.head - r.tail
           ELSE Size - r.tail + r.head
=============================================================================
