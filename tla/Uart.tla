-------------------------------- MODULE Uart --------------------------------
(***************************************************************************)
(* A UART with both its rings (uart1.c, uart3.c, uart5.c).  One interrupt  *)
(* handler serves them: when a byte has been received it is put into the   *)
(* receive ring, and the same call goes on with the line's edges and the   *)
(* transmit ring.  The main loop is in RINGBUF_Get or in PutChar, never in *)
(* both, and the handler comes between any two accesses of either.         *)
(***************************************************************************)
EXTENDS UartRx, UartTx

uartVars == <<vars, txVars>>

UartInit == Init /\ TxInit

(* The main loop.                                                          *)
Reads  == putPc = "idle" /\ Get /\ UNCHANGED txVars
Writes == getPc = "idle" /\ PutChar /\ UNCHANGED vars

(* The handler: a byte received, one that finds the ring full, or neither. *)
NothingToSend == ~ctsFlag /\ dr # None /\ UNCHANGED txVars

Received == RxInterrupt /\ (Handler \/ NothingToSend)
Dropped  == IsFull(ring) /\ UNCHANGED vars /\ Handler
Served   == Interrupt /\ UNCHANGED vars

(* The line and the modem.                                                 *)
Line == (Shift \/ RaiseCts \/ LowerCts) /\ UNCHANGED vars

UartNext == Reads \/ Writes \/ Received \/ Dropped \/ Served \/ Line

UartSpec == UartInit /\ [][UartNext]_uartVars

(* The main loop comes to the end of PutChar, a pending interrupt is       *)
(* served, the line sends, and the modem lowers CTS again.                 *)
FairSpec == /\ UartSpec
            /\ WF_uartVars(putPc # "idle" /\ Writes)
            /\ WF_uartVars(Served)
            /\ WF_uartVars(Shift /\ UNCHANGED vars)
            /\ WF_uartVars(LowerCts /\ UNCHANGED vars)
=============================================================================
