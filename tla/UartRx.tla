------------------------------- MODULE UartRx -------------------------------
(***************************************************************************)
(* The receive side of a UART (uart1.c, uart3.c, uart5.c): the interrupt   *)
(* handler puts bytes into the ring while the main loop takes them out.    *)
(* RINGBUF_Put runs to its end inside the handler; RINGBUF_Get runs in the *)
(* main loop and the handler can come between any two of its accesses.     *)
(*                                                                         *)
(* A byte's content is its number among the bytes the ring has accepted.   *)
(* Any number of them may come while the tail is out of range: the main    *)
(* loop may have been stopped there by another handler (TIM2 reads the     *)
(* accelerometer) that the receive handler preempts.  IsFull then compares *)
(* with an index that is none, and the head may run over the whole ring.   *)
(***************************************************************************)
EXTENDS RingOps

CONSTANT MaxByte   \* bound: bytes accepted

ASSUME RxAssumption == MaxByte \in Nat

VARIABLES
  ring,
  getPc,       \* the access of RINGBUF_Get that comes next, or "idle"
  c,           \* the byte RINGBUF_Get hands out
  accepted,    \* how many times RINGBUF_Put has returned 0
  got,         \* how many bytes RINGBUF_Get has taken
  overrun      \* history: bytes the head has run over, a ringful at a time

vars == <<ring, getPc, c, accepted, got, overrun>>

Init == /\ ring = EmptyRing(0) /\ getPc = "idle" /\ c = 0
        /\ accepted = 0 /\ got = 0 /\ overrun = 0

(* The byte that fills the last cell while RINGBUF_Get has yet to wrap.    *)
RunsOver == ring.tail = Size /\ After(ring.head) = 0

(* USART1_IRQHandler on RXNE.  A byte that finds the ring full is dropped. *)
RxInterrupt ==
  /\ accepted < MaxByte /\ ~IsFull(ring)
  /\ overrun' = overrun + (IF RunsOver THEN Size ELSE 0)
  /\ ring' = Put(ring, accepted + 1) /\ accepted' = accepted + 1
  /\ UNCHANGED <<getPc, c, got>>

(* RINGBUF_Get: test, read, bump, wrap.                                    *)
GetTest == /\ getPc = "idle" /\ ~IsEmpty(ring)
           /\ getPc' = "read"
           /\ UNCHANGED <<ring, c, accepted, got, overrun>>

GetRead == /\ getPc = "read"
           /\ c' = Oldest(ring) /\ getPc' = "bump"
           /\ UNCHANGED <<ring, accepted, got, overrun>>

GetBump == /\ getPc = "bump"
           /\ ring' = [ring EXCEPT !.tail = @ + 1]
           /\ got' = got + 1 /\ getPc' = "wrap"
           /\ UNCHANGED <<c, accepted, overrun>>

GetWrap == /\ getPc = "wrap"
           /\ ring' = [ring EXCEPT !.tail = Wrap(@)]
           /\ getPc' = "idle"
           /\ UNCHANGED <<c, accepted, got, overrun>>

Get == GetTest \/ GetRead \/ GetBump \/ GetWrap

Next == RxInterrupt \/ Get

Spec == Init /\ [][Next]_vars
-----------------------------------------------------------------------------
(* Types.  The tail leaves the ring's indices only between bump and wrap.  *)
TypeOK ==
  /\ ring \in [pt : [Index -> 0 .. MaxByte], head : Index, tail : 0 .. Size]
  /\ getPc \in {"idle", "read", "bump", "wrap"}
  /\ c \in 0 .. MaxByte /\ accepted \in 0 .. MaxByte /\ got \in Nat
  /\ overrun \in Nat
  /\ ring.tail = Size => getPc = "wrap"

(* What RINGBUF_GetFill counts is what RINGBUF_Put accepted and RINGBUF_Get*)
(* has not handed out, even in the middle of RINGBUF_Get: but for a whole  *)
(* ringful each time the head has run over the ring, nothing is lost, and  *)
(* nothing is counted twice.                                               *)
FillCountsAccepted == Fill(ring) = accepted - got - overrun

(* RINGBUF_Get hands the accepted bytes out one by one in the order of     *)
(* their arrival: none twice, none overtaken, and none passed over but     *)
(* those the head has run over.                                            *)
InOrder == [][got' # got => c = got' + overrun]_vars
=============================================================================
