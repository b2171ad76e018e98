------------------------------- MODULE UartTx -------------------------------
(***************************************************************************)
(* The transmit side of a UART (uart1.c, uart3.c, uart5.c): PutChar runs in*)
(* the main loop and puts characters into the ring, the interrupt handler  *)
(* moves them to the data register.  The handler runs to its end; it can   *)
(* come between any two accesses of PutChar.                               *)
(*                                                                         *)
(* uart1.c has the modem's CTS line, too: the hardware holds the data      *)
(* register while the line is high, and the handler is called on each of   *)
(* its edges.  The behaviours without an edge are those of uart3.c and     *)
(* uart5.c.  A character's content is its number.                          *)
(***************************************************************************)
EXTENDS RingOps

CONSTANTS
  MaxChar,     \* bound: characters handed to PutChar
  MaxRaise     \* bound: times the modem raises CTS

ASSUME TxAssumption == MaxChar \in Nat /\ MaxRaise \in Nat

VARIABLES
  txRing,
  dr,           \* the data register, None when TXE is set
  txeie,        \* TXEIE in CR1: interrupt while the register is empty
  cts, ctsFlag, \* the line is high; an edge is not handled yet
  putPc,        \* the access of PutChar that comes next, or "idle"
  chars,        \* history: characters handed to PutChar
  txAccepted,   \* history: characters that RINGBUF_Put took
  last, sent,   \* history: the last character on the line, and how many
  edges         \* history: edges of CTS

uart == <<dr, txeie, cts, ctsFlag>>
txVars == <<txRing, uart, putPc, chars, txAccepted, last, sent, edges>>

None == -1                    \* no character

TxInit == /\ txRing = EmptyRing(0)
          /\ dr = None /\ txeie = TRUE /\ cts = FALSE /\ ctsFlag = FALSE
          /\ putPc = "idle"
          /\ chars = 0 /\ txAccepted = 0 /\ last = 0 /\ sent = 0 /\ edges = 0
-----------------------------------------------------------------------------
(* PutChar.  It waits while the fill is at least the ring's size, which it *)
(* never is, so a character that finds the ring full is dropped.           *)
PutTest == /\ putPc = "idle" /\ chars < MaxChar
           /\ chars' = chars + 1
           /\ putPc' = IF IsFull(txRing) THEN "test" ELSE "store"
           /\ UNCHANGED <<txRing, uart, txAccepted, last, sent, edges>>

PutStore == /\ putPc = "store"
            /\ txRing' = [txRing EXCEPT !.pt[txRing.head] = chars,
                                        !.head = After(txRing.head)]
            /\ txAccepted' = txAccepted + 1 /\ putPc' = "test"
            /\ UNCHANGED <<uart, chars, last, sent, edges>>

(* Mutant of TestTxeie: the interrupt is not enabled again.                *)
TestNothing == /\ putPc = "test" /\ putPc' = "idle"
               /\ UNCHANGED <<txRing, uart, chars, txAccepted, last, sent, edges>>

TestTxeie == /\ putPc = "test"
             /\ putPc' = IF txeie THEN "idle" ELSE "set"
             /\ UNCHANGED <<txRing, uart, chars, txAccepted, last, sent, edges>>

SetTxeie == /\ putPc = "set"
            /\ txeie' = TRUE /\ putPc' = "idle"
            /\ UNCHANGED <<txRing, dr, cts, ctsFlag, chars, txAccepted, last, sent,
                           edges>>

PutChar == PutTest \/ PutStore \/ TestTxeie \/ SetTxeie
-----------------------------------------------------------------------------
(* The interrupt handler.                                                  *)

SendOldest == /\ dr' = Oldest(txRing) /\ txRing' = Drop(txRing)

(* An edge of CTS: a high line disables the interrupt, a low one sends the *)
(* next character.                                                         *)
CtsBranch ==
  /\ ctsFlag /\ ctsFlag' = FALSE
  /\ \/ /\ cts /\ txeie' = FALSE
        /\ UNCHANGED <<txRing, dr>>
     \/ /\ ~cts /\ ~IsEmpty(txRing)
        /\ SendOldest /\ txeie' = TRUE
     \/ /\ ~cts /\ IsEmpty(txRing)
        /\ UNCHANGED <<txRing, dr, txeie>>

(* Mutant of TxeBranch: the register is not looked at.                     *)
TxeUnchecked ==
  /\ ~ctsFlag /\ UNCHANGED ctsFlag
  /\ \/ /\ ~IsEmpty(txRing) /\ SendOldest
        /\ UNCHANGED txeie
     \/ /\ IsEmpty(txRing) /\ txeie' = FALSE
        /\ UNCHANGED <<txRing, dr>>

(* The register is empty: the next character, or no interrupt any more.    *)
TxeBranch ==
  /\ ~ctsFlag /\ dr = None /\ UNCHANGED ctsFlag
  /\ \/ /\ ~IsEmpty(txRing) /\ SendOldest
        /\ UNCHANGED txeie
     \/ /\ IsEmpty(txRing) /\ txeie' = FALSE
        /\ UNCHANGED <<txRing, dr>>

(* The handler also runs when a byte has been received, so it may find the *)
(* register empty while TXEIE is off.                                      *)
Handler == /\ CtsBranch \/ TxeBranch
           /\ UNCHANGED <<cts, putPc, chars, txAccepted, last, sent, edges>>
Interrupt == (ctsFlag \/ txeie) /\ Handler
WithByte == ~ctsFlag /\ ~txeie /\ Handler
-----------------------------------------------------------------------------
(* The hardware and the modem.                                             *)

(* The register goes to the line unless CTS is high.                       *)
Shift == /\ dr # None /\ ~cts
         /\ last' = dr /\ sent' = sent + 1 /\ dr' = None
         /\ UNCHANGED <<txRing, txeie, cts, ctsFlag, putPc, chars, txAccepted, edges>>

CtsEdge == /\ cts' = ~cts /\ ctsFlag' = TRUE /\ edges' = edges + 1
           /\ UNCHANGED <<txRing, dr, txeie, putPc, chars, txAccepted, last, sent>>
RaiseCts == ~cts /\ edges < 2 * MaxRaise /\ CtsEdge
LowerCts == cts /\ CtsEdge

TxNext == PutChar \/ Interrupt \/ WithByte \/ Shift \/ RaiseCts \/ LowerCts

TxSpec == TxInit /\ [][TxNext]_txVars
-----------------------------------------------------------------------------
(* Types.                                                                  *)
TxTypeOK ==
  /\ txRing \in [pt : [Index -> 0 .. MaxChar], head : Index, tail : Index]
  /\ dr \in {None} \cup 0 .. MaxChar /\ txeie \in BOOLEAN
  /\ cts \in BOOLEAN /\ ctsFlag \in BOOLEAN
  /\ putPc \in {"idle", "store", "test", "set"}
  /\ chars \in 0 .. MaxChar /\ txAccepted \in Nat /\ last \in 0 .. MaxChar
  /\ sent \in Nat /\ edges \in Nat

(* Of the characters that RINGBUF_Put took, those that are neither sent nor*)
(* waiting were overwritten in the data register, at most one for each time*)
(* CTS went low (CTS branch of USART1_IRQHandler): without CTS, none.      *)
Waiting == Fill(txRing) + (IF dr = None THEN 0 ELSE 1)
LossBounded == txAccepted - sent - Waiting \in 0 .. edges \div 2

(* The characters are sent in the order in which they were handed in.      *)
SentInOrder == [][sent' # sent => last' > last]_txVars

(* Whatever PutChar and the handler do to TXEIE in between, the ring never *)
(* keeps a character for ever: no character is left for which the interrupt*)
(* stays off.                                                              *)
NeverStuck == ~IsEmpty(txRing) ~> IsEmpty(txRing)
=============================================================================
