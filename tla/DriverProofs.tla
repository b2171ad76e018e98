---------------------------- MODULE DriverProofs ----------------------------
(***************************************************************************)
(* The rings of a UART for every ring size and every number of bytes,      *)
(* characters and CTS edges: the receive side, the transmit side, and then *)
(* both behind the one interrupt handler.  And the timers of SysTick, for a tick*)
(* of any width and any number of its wraps.                               *)
(***************************************************************************)
EXTENDS Uart, SysTick, TLAPS

(* The receive side.                                                       *)
RingType == [pt : [Index -> 0 .. MaxByte], head : Index, tail : 0 .. Size]

LEMMA RxTypeCorrect == Spec => []TypeOK
<1> USE SizeAtLeastTwo, RxAssumption
<1>1. Init => TypeOK
  BY DEF Init, TypeOK, EmptyRing, Index
<1>2. TypeOK /\ [Next]_vars => TypeOK'
  <2> SUFFICES ASSUME TypeOK, [Next]_vars PROVE TypeOK'
    OBVIOUS
  <2>1. CASE RxInterrupt
    <3>1. After(ring.head) \in Index
      BY DEF TypeOK, After, Wrap, Index
    <3>2. ring' = [ring EXCEPT !.pt[ring.head] = accepted + 1,
                               !.head = After(ring.head)]
      BY <2>1 DEF RxInterrupt, Put
    <3>3. accepted + 1 \in 0 .. MaxByte
      BY <2>1 DEF RxInterrupt, TypeOK
    <3>4. ring' \in RingType /\ ring'.tail = ring.tail
      BY <3>1, <3>2, <3>3 DEF TypeOK, RingType
    <3>5. overrun' \in Nat
      BY <2>1 DEF RxInterrupt, TypeOK
    <3> QED
      BY <2>1, <3>3, <3>4, <3>5 DEF RxInterrupt, TypeOK, RingType
  <2>2. CASE GetTest
    BY <2>2 DEF GetTest, TypeOK
  <2>3. CASE GetRead
    <3>1. ring.tail \in Index
      BY <2>3 DEF GetRead, TypeOK, Index
    <3> QED
      BY <2>3, <3>1 DEF GetRead, Oldest, TypeOK
  <2>4. CASE GetBump
    <3>1. ring.tail + 1 \in 0 .. Size
      BY <2>4 DEF GetBump, TypeOK
    <3>2. ring' \in RingType /\ getPc' = "wrap"
      BY <2>4, <3>1 DEF GetBump, TypeOK, RingType
    <3> QED
      BY <2>4, <3>2 DEF GetBump, TypeOK, RingType
  <2>5. CASE GetWrap
    <3>1. Wrap(ring.tail) \in 0 .. Size /\ Wrap(ring.tail) # Size
      BY DEF Wrap, TypeOK
    <3>2. ring' \in RingType /\ ring'.tail # Size
      BY <2>5, <3>1 DEF GetWrap, TypeOK, RingType
    <3> QED
      BY <2>5, <3>2 DEF GetWrap, TypeOK, RingType
  <2>6. CASE UNCHANGED vars
    BY <2>6 DEF vars, TypeOK
  <2> QED
    BY <2>1, <2>2, <2>3, <2>4, <2>5, <2>6 DEF Next, Get
<1> QED
  BY <1>1, <1>2, PTL DEF Spec
-----------------------------------------------------------------------------
Held == accepted - got - overrun
Start == Wrap(ring.tail)
Cell(x) == IF x >= Size THEN x - Size ELSE x     \* x places after cell 0

(* The ring holds the last Held bytes, from the tail up to the head.       *)
CountInv == /\ Held \in 0 .. Size - 1
            /\ ring.head = Cell(Start + Held)
            /\ getPc \in {"read", "bump"} => Held # 0
BytesInv == /\ \A j \in 0 .. Held - 1 :
                 ring.pt[Cell(Start + j)] = got + overrun + 1 + j
            /\ getPc = "bump" => c = got + overrun + 1
IInv == TypeOK /\ CountInv /\ BytesInv

LEMMA InitInv == Init => CountInv /\ BytesInv
BY SizeAtLeastTwo
   DEF Init, CountInv, BytesInv, EmptyRing, Held, Start, Wrap, Cell, Index

LEMMA StepInv ==
  ASSUME IInv, TypeOK', [Next]_vars
  PROVE  CountInv' /\ BytesInv'
<1> USE SizeAtLeastTwo, RxAssumption DEF IInv
<1>1. /\ ring.tail \in 0 .. Size /\ Start \in Index /\ ring.head \in Index
      /\ accepted \in Nat /\ got \in Nat /\ overrun \in Nat
  <2>1. TypeOK
    OBVIOUS
  <2>2. ring \in RingType
    BY <2>1 DEF TypeOK, RingType
  <2>3. ring.tail \in 0 .. Size /\ ring.head \in Index
    BY ONLY <2>2 DEF RingType
  <2>4. accepted \in Nat /\ got \in Nat
    BY ONLY <2>1, RxAssumption DEF TypeOK
  <2>5. overrun \in Nat
    BY ONLY <2>1 DEF TypeOK
  <2>6. Start \in Index
    BY ONLY <2>3, SizeAtLeastTwo DEF Start, Wrap, Index
  <2> QED
    BY ONLY <2>3, <2>4, <2>5, <2>6
<1>2. CASE RxInterrupt
  <2>1. /\ ring'.pt = [ring.pt EXCEPT ![ring.head] = accepted + 1]
        /\ ring'.head = After(ring.head) /\ ring'.tail = ring.tail
        /\ accepted' = accepted + 1 /\ got' = got /\ getPc' = getPc /\ c' = c
    BY <1>2 DEF RxInterrupt, Put, TypeOK
  <2>2. CASE RunsOver
    (* The head comes to cell 0 with the whole ring behind it: none held. *)
    <3>1. ring.tail = Size /\ ring.head = Size - 1 /\ overrun' = overrun + Size
      BY <1>1, <1>2, <2>2 DEF RxInterrupt, RunsOver, After, Wrap, Index
    <3>2. Start = 0 /\ Start' = 0 /\ ring'.head = 0
      BY <2>1, <2>2, <3>1 DEF RunsOver, Start, Wrap
    <3>3. Held = Size - 1
      BY <1>1, <3>1, <3>2 DEF CountInv, Cell
    <3>4. Held' = 0
      BY <1>1, <2>1, <3>1, <3>3 DEF Held
    <3>5. getPc = "wrap"
      BY <3>1 DEF TypeOK
    <3> QED
      BY <2>1, <3>2, <3>4, <3>5 DEF CountInv, BytesInv, Cell
  <2>3. CASE ~RunsOver
    <3>1. Start' = Start /\ Held' = Held + 1 /\ overrun' = overrun
      BY <1>1, <1>2, <2>1, <2>3 DEF RxInterrupt, Start, Held
    <3>2. Held <= Size - 2
      <4>1. CASE ring.tail = Size
        <5>1. Start = 0 /\ ring.head # Size - 1
          BY <1>1, <2>3, <4>1 DEF Start, RunsOver, After, Wrap, Index
        <5> QED
          BY <1>1, <5>1 DEF CountInv, Cell, Index
      <4>2. CASE ring.tail # Size
        <5>1. Start = ring.tail
          BY <1>1, <4>2 DEF Start, Wrap
        <5>2. After(ring.head) # ring.tail
          BY <1>2 DEF RxInterrupt, IsFull
        <5> QED
          BY <1>1, <5>1, <5>2 DEF CountInv, After, Wrap, Cell, Index
      <4> QED
        BY <4>1, <4>2
    <3>3. ring'.head = Cell(Start' + Held')
      BY <1>1, <2>1, <3>1, <3>2 DEF CountInv, After, Wrap, Cell, Index
    <3>4. CountInv'
      BY <1>1, <2>1, <3>1, <3>2, <3>3 DEF CountInv
    <3>5. ASSUME NEW j \in 0 .. Held' - 1
          PROVE  ring'.pt[Cell(Start' + j)] = got' + overrun' + 1 + j
      <4>1. Cell(Start + j) \in Index
        BY <1>1, <3>1, <3>2, <3>5 DEF CountInv, Cell, Index
      <4>2. CASE j = Held
        <5>1. ring'.pt[ring.head] = accepted + 1
          BY <1>1, <2>1 DEF TypeOK
        <5> QED
          BY <1>1, <2>1, <3>1, <4>2, <5>1 DEF CountInv, Held
      <4>3. CASE j # Held
        <5>1. j \in 0 .. Held - 1
          BY <1>1, <3>1, <3>5, <4>3 DEF CountInv
        <5>2. Cell(Start + j) # ring.head
          BY <1>1, <5>1 DEF CountInv, Cell, Index
        <5>3. ring'.pt[Cell(Start + j)] = ring.pt[Cell(Start + j)]
          BY <2>1, <4>1, <5>2 DEF TypeOK
        <5> QED
          BY <2>1, <3>1, <5>1, <5>3 DEF BytesInv
      <4> QED
        BY <4>2, <4>3
    <3> QED
      BY <2>1, <3>1, <3>4, <3>5 DEF BytesInv
  <2> QED
    BY <2>2, <2>3
<1>3. CASE GetTest
  <2>1. /\ ring' = ring /\ accepted' = accepted /\ got' = got /\ c' = c
        /\ overrun' = overrun /\ getPc' = "read"
    BY <1>3 DEF GetTest
  <2>2. Held # 0
    <3>1. ring.head # ring.tail /\ ring.tail # Size
      BY <1>3 DEF GetTest, IsEmpty, TypeOK
    <3> QED
      BY <1>1, <3>1 DEF CountInv, Cell, Start, Wrap, Index
  <2> QED
    BY <2>1, <2>2 DEF CountInv, BytesInv, Held, Start
<1>4. CASE GetRead
  <2>1. /\ ring' = ring /\ accepted' = accepted /\ got' = got
        /\ overrun' = overrun /\ getPc' = "bump" /\ c' = ring.pt[ring.tail]
    BY <1>4 DEF GetRead, Oldest
  <2>2. 0 \in 0 .. Held - 1 /\ Cell(Start + 0) = ring.tail
    <3>1. ring.tail # Size
      BY <1>4 DEF GetRead, TypeOK
    <3> QED
      BY <1>1, <1>4, <3>1 DEF GetRead, CountInv, Cell, Start, Wrap, Index
  <2>3. c' = got + overrun + 1
    BY <1>1, <2>1, <2>2 DEF BytesInv
  <2> QED
    BY <1>4, <2>1, <2>3 DEF GetRead, CountInv, BytesInv, Held, Start
<1>5. CASE GetBump
  <2>1. /\ ring'.pt = ring.pt /\ ring'.head = ring.head
        /\ ring'.tail = ring.tail + 1 /\ accepted' = accepted
        /\ got' = got + 1 /\ overrun' = overrun /\ getPc' = "wrap"
    <3>1. ring \in RingType
      BY DEF TypeOK, RingType
    <3>2. ring' = [ring EXCEPT !.tail = ring.tail + 1]
      BY <1>5 DEF GetBump
    <3>3. ring'.pt = ring.pt /\ ring'.head = ring.head /\ ring'.tail = ring.tail + 1
      BY ONLY <3>1, <3>2 DEF RingType
    <3> QED
      BY <1>5, <3>3 DEF GetBump
  <2>2. ring.tail \in Index /\ Start = ring.tail
    <3>1. ring.tail # Size
      BY <1>5 DEF GetBump, TypeOK
    <3> QED
      BY ONLY <1>1, <3>1, SizeAtLeastTwo DEF Start, Wrap, Index
  <2>3. Held' = Held - 1 /\ Held \in 1 .. Size - 1
    BY <1>1, <1>5, <2>1 DEF GetBump, Held, CountInv
  <2>4. Start' = Cell(Start + 1)
    BY <2>1, <2>2 DEF Start, Wrap, Cell, Index
  <2>5. CountInv'
    <3>1. ring.head = Cell(Start + Held) /\ Held \in Int /\ Start \in Index
      BY <1>1, <2>2, <2>3 DEF CountInv
    <3>2. ring'.head = Cell(Start' + Held')
      BY <2>1, <2>3, <2>4, <3>1 DEF Cell, Index
    <3>3. Held' \in 0 .. Size - 1
      BY <2>1, <2>3
    <3> QED
      BY <2>1, <3>2, <3>3 DEF CountInv
  <2>6. ASSUME NEW j \in 0 .. Held' - 1
        PROVE  ring'.pt[Cell(Start' + j)] = got' + overrun' + 1 + j
    <3>1. j + 1 \in 0 .. Held - 1
      BY <2>3, <2>6
    <3>2. Cell(Start' + j) = Cell(Start + (j + 1))
      BY <1>1, <2>3, <2>4, <2>6 DEF Cell, Index
    <3> QED
      BY <1>1, <2>1, <3>1, <3>2 DEF BytesInv
  <2> QED
    BY <2>1, <2>5, <2>6 DEF BytesInv
<1>6. CASE GetWrap
  <2>1. /\ ring'.pt = ring.pt /\ ring'.head = ring.head
        /\ ring'.tail = Wrap(ring.tail) /\ accepted' = accepted
        /\ got' = got /\ overrun' = overrun /\ getPc' = "idle"
    BY <1>6 DEF GetWrap, TypeOK
  <2>2. Start' = Start /\ ring'.tail # Size /\ Held' = Held
    BY <1>1, <2>1 DEF Start, Wrap, Held
  <2> QED
    BY <2>1, <2>2 DEF CountInv, BytesInv
<1>7. CASE UNCHANGED vars
  BY <1>7 DEF vars, CountInv, BytesInv, Held, Start
<1> QED
  BY <1>2, <1>3, <1>4, <1>5, <1>6, <1>7 DEF Next, Get

LEMMA Invariance == Spec => [](CountInv /\ BytesInv)
<1>1. IInv /\ TypeOK' /\ [Next]_vars => CountInv' /\ BytesInv'
  BY StepInv
<1> QED
  BY <1>1, InitInv, RxTypeCorrect, PTL DEF Spec, IInv

(* The count that RINGBUF_GetFill returns is right at every moment, for    *)
(* every ring size and any number of bytes at any time: it is what was     *)
(* accepted and not taken, less a whole ringful each time the head has run *)
(* over the ring while the tail was out of range.                          *)
THEOREM FillCorrect == Spec => []FillCountsAccepted
<1>1. TypeOK /\ CountInv => FillCountsAccepted
  <2> SUFFICES ASSUME TypeOK, CountInv PROVE FillCountsAccepted
    OBVIOUS
  <2> USE SizeAtLeastTwo, RxAssumption
  <2>1. /\ ring.tail \in 0 .. Size /\ ring.head \in Index /\ Start \in Index
        /\ Held \in 0 .. Size - 1
    BY DEF TypeOK, CountInv, Start, Wrap, Index
  <2>2. CASE ring.tail = Size
    <3>1. Start = 0
      BY <2>2 DEF Start, Wrap
    <3> QED
      BY <2>1, <2>2, <3>1 DEF CountInv, FillCountsAccepted, Fill, Held, Cell, Index
  <2>3. CASE ring.tail # Size
    <3>1. Start = ring.tail
      BY <2>1, <2>3 DEF Start, Wrap
    <3> QED
      BY <2>1, <2>3, <3>1 DEF CountInv, FillCountsAccepted, Fill, Held, Cell, Index
  <2> QED
    BY <2>2, <2>3
<1> QED
  BY <1>1, RxTypeCorrect, Invariance, PTL

(* Bytes come out of the ring in the order they went in, for every ring    *)
(* size and any number of bytes at any time; what is passed over is what   *)
(* the head has run over.                                                  *)
THEOREM OrderCorrect == Spec => InOrder
<1>1. TypeOK /\ BytesInv /\ [Next]_vars => [got' # got => c = got' + overrun]_vars
  BY DEF Next, Get, RxInterrupt, GetTest, GetRead, GetBump, GetWrap, BytesInv, TypeOK
<1> QED
  BY <1>1, RxTypeCorrect, Invariance, PTL DEF Spec, InOrder
-----------------------------------------------------------------------------
(* The transmit side.                                                      *)
LEMMA Indices ==
  ASSUME TxTypeOK PROVE txRing.head \in 0 .. Size - 1 /\ txRing.tail \in 0 .. Size - 1
BY DEF TxTypeOK, Index

(* The type invariant.                                                     *)
LEMMA TxTypeCorrect == TxSpec => []TxTypeOK
<1> USE SizeAtLeastTwo, TxAssumption DEF None, Index
<1>1. TxInit => TxTypeOK
  <2>1. EmptyRing(0) \in [pt : [0 .. Size - 1 -> 0 .. MaxChar],
                          head : 0 .. Size - 1, tail : 0 .. Size - 1]
    BY DEF EmptyRing
  <2>2. TxInit => /\ txRing \in [pt : [Index -> 0 .. MaxChar], head : Index,
                             tail : Index]
                /\ dr \in {None} \cup 0 .. MaxChar
    BY <2>1 DEF TxInit
  <2>3. TxInit => /\ chars \in 0 .. MaxChar /\ txAccepted \in Nat
                /\ last \in 0 .. MaxChar /\ sent \in Nat /\ edges \in Nat
    BY DEF TxInit
  <2> QED
    BY <2>2, <2>3 DEF TxInit, TxTypeOK
<1>2. TxTypeOK /\ [TxNext]_txVars => TxTypeOK'
  <2> SUFFICES ASSUME TxTypeOK, [TxNext]_txVars PROVE TxTypeOK'
    OBVIOUS
  <2>1. CASE PutTest
    BY <2>1 DEF PutTest, uart, TxTypeOK
  <2>2. CASE PutStore
    <3>1. After(txRing.head) \in 0 .. Size - 1
      BY Indices DEF After, Wrap
    <3>2. [txRing.pt EXCEPT ![txRing.head] = chars] \in [Index -> 0 .. MaxChar]
      BY DEF TxTypeOK
    <3>3. txRing' = [pt |-> [txRing.pt EXCEPT ![txRing.head] = chars],
                   head |-> After(txRing.head), tail |-> txRing.tail]
      BY <2>2 DEF PutStore, TxTypeOK
    <3>4. txRing' \in [pt : [Index -> 0 .. MaxChar], head : Index, tail : Index]
      <4>1. \A p \in [Index -> 0 .. MaxChar], h \in Index, k \in Index :
              [pt |-> p, head |-> h, tail |-> k]
                \in [pt : [Index -> 0 .. MaxChar], head : Index, tail : Index]
        OBVIOUS
      <4> QED
        BY <3>1, <3>2, <3>3, <4>1, Indices
    <3>5. /\ txAccepted' = txAccepted + 1 /\ putPc' = "test"
          /\ UNCHANGED <<uart, chars, last, sent, edges>>
      BY <2>2 DEF PutStore
    <3> QED
      BY <3>4, <3>5 DEF uart, TxTypeOK
  <2>3. CASE TestTxeie
    BY <2>3 DEF TestTxeie, uart, TxTypeOK
  <2>4. CASE SetTxeie
    BY <2>4 DEF SetTxeie, TxTypeOK
  <2>5. CASE Handler
    <3>1. ASSUME SendOldest
          PROVE  /\ dr' \in 0 .. MaxChar
                 /\ txRing' \in [pt : [Index -> 0 .. MaxChar], head : Index,
                               tail : Index]
      <4>1. After(txRing.tail) \in 0 .. Size - 1
        BY Indices DEF After, Wrap
      <4> QED
        BY <3>1, <4>1 DEF SendOldest, Oldest, Drop, TxTypeOK
    <3>2. CASE CtsBranch
      BY <2>5, <3>1, <3>2 DEF Handler, CtsBranch, TxTypeOK
    <3>3. CASE TxeBranch
      BY <2>5, <3>1, <3>3 DEF Handler, TxeBranch, TxTypeOK
    <3> QED
      BY <2>5, <3>2, <3>3 DEF Handler
  <2>6. CASE Shift
    BY <2>6 DEF Shift, TxTypeOK
  <2>7. CASE RaiseCts
    BY <2>7 DEF RaiseCts, CtsEdge, TxTypeOK
  <2>8. CASE LowerCts
    BY <2>8 DEF LowerCts, CtsEdge, TxTypeOK
  <2>9. CASE UNCHANGED txVars
    BY <2>9 DEF txVars, uart, TxTypeOK
  <2> QED
    BY <2>1, <2>2, <2>3, <2>4, <2>5, <2>6, <2>7, <2>8, <2>9
       DEF TxNext, PutChar, Interrupt, WithByte
<1> QED
  BY <1>1, <1>2, PTL DEF TxSpec
-----------------------------------------------------------------------------
(* A character is overwritten only when the handler serves a falling edge; *)
(* an edge that waits to be served has not cost one yet.  PutChar stores   *)
(* into a ring that still has room, for the handler only takes out.        *)
Lost == txAccepted - sent - Waiting
Unserved == IF ctsFlag /\ ~cts THEN 1 ELSE 0
LossInv == /\ Lost \in Nat
           /\ cts <=> edges % 2 = 1
           /\ Lost + Unserved <= edges \div 2
           /\ putPc = "store" => Fill(txRing) <= Size - 2

(* What putting and taking does to the fill.                               *)
LEMMA FillBounds ==
  ASSUME TxTypeOK PROVE Fill(txRing) \in 0 .. Size - 1
BY SizeAtLeastTwo, Indices DEF Fill

LEMMA FillOfFull ==
  ASSUME TxTypeOK PROVE ~IsFull(txRing) => Fill(txRing) <= Size - 2
BY SizeAtLeastTwo, Indices DEF Fill, IsFull, After, Wrap

LEMMA FillOfPut ==
  ASSUME TxTypeOK, Fill(txRing) <= Size - 2,
         txRing'.head = After(txRing.head), txRing'.tail = txRing.tail
  PROVE  Fill(txRing') = Fill(txRing) + 1
BY SizeAtLeastTwo, Indices DEF Fill, After, Wrap

LEMMA FillOfDrop ==
  ASSUME TxTypeOK, ~IsEmpty(txRing), txRing' = Drop(txRing)
  PROVE  Fill(txRing') = Fill(txRing) - 1
<1>1. txRing'.head = txRing.head /\ txRing'.tail = After(txRing.tail)
  BY DEF TxTypeOK, Drop
<1> QED
  BY <1>1, SizeAtLeastTwo, Indices DEF Fill, IsEmpty, After, Wrap

LEMMA LossStep ==
  ASSUME TxTypeOK, TxTypeOK', LossInv, [TxNext]_txVars PROVE LossInv'
<1> USE SizeAtLeastTwo, TxAssumption DEF None
<1>1. /\ Fill(txRing) \in 0 .. Size - 1 /\ edges \in Nat
      /\ txAccepted \in Nat /\ sent \in Nat
  BY FillBounds DEF TxTypeOK
<1>2. CASE PutTest
  <2>1. ~IsFull(txRing) => Fill(txRing) <= Size - 2
    BY FillOfFull
  <2>2. txRing' = txRing /\ (putPc' = "store" => ~IsFull(txRing))
    BY <1>2 DEF PutTest
  <2>3. Lost' = Lost /\ Unserved' = Unserved /\ edges' = edges /\ cts' = cts
    BY <1>2 DEF PutTest, uart, Lost, Waiting, Unserved
  <2> QED
    BY <2>1, <2>2, <2>3 DEF LossInv
<1>3. CASE PutStore
  <2>1. /\ txRing'.head = After(txRing.head) /\ txRing'.tail = txRing.tail
        /\ txAccepted' = txAccepted + 1 /\ sent' = sent /\ dr' = dr
        /\ edges' = edges /\ cts' = cts /\ ctsFlag' = ctsFlag
        /\ putPc' = "test"
    BY <1>3 DEF PutStore, uart, TxTypeOK
  <2>2. Fill(txRing') = Fill(txRing) + 1
    BY <1>3, <2>1, FillOfPut DEF PutStore, LossInv
  <2>3. Lost' = Lost /\ Unserved' = Unserved
    BY <1>1, <2>1, <2>2 DEF Lost, Waiting, Unserved
  <2> QED
    BY <2>1, <2>3 DEF LossInv
<1>4. CASE TestTxeie
  <2>1. /\ Lost' = Lost /\ Unserved' = Unserved /\ edges' = edges /\ cts' = cts
        /\ putPc' # "store"
    BY <1>4 DEF TestTxeie, uart, Lost, Waiting, Unserved
  <2> QED
    BY <2>1 DEF LossInv
<1>5. CASE SetTxeie
  <2>1. /\ Lost' = Lost /\ Unserved' = Unserved /\ edges' = edges /\ cts' = cts
        /\ putPc' # "store"
    BY <1>5 DEF SetTxeie, Lost, Waiting, Unserved
  <2> QED
    BY <2>1 DEF LossInv
<1>6. CASE Handler
  <2>1. /\ txAccepted' = txAccepted /\ sent' = sent /\ cts' = cts
        /\ edges' = edges /\ putPc' = putPc
    BY <1>6 DEF Handler
  <2>2. CASE SendOldest /\ ~IsEmpty(txRing)
    <3>1. txRing' = Drop(txRing)
      BY <2>2 DEF SendOldest
    <3>2. Fill(txRing') = Fill(txRing) - 1
      BY <2>2, <3>1, FillOfDrop
    <3>5. dr' # None
      <4>1. txRing.pt \in [0 .. Size - 1 -> 0 .. MaxChar]
        BY DEF TxTypeOK, Index
      <4>2. txRing.pt[txRing.tail] \in 0 .. MaxChar
        BY <4>1, Indices
      <4> QED
        BY <2>2, <4>2 DEF SendOldest, Oldest
    <3>6. Waiting' = Fill(txRing)
      BY <1>1, <3>2, <3>5 DEF Waiting
    <3>3. CASE TxeBranch
      <4>1. dr = None /\ Unserved' = Unserved
        BY <2>1, <3>3 DEF TxeBranch, Unserved
      <4>2. Waiting = Fill(txRing)
        BY <1>1, <4>1 DEF Waiting
      <4>3. Lost' = Lost
        BY <2>1, <3>6, <4>2 DEF Lost
      <4> QED
        BY <1>1, <2>1, <3>2, <4>1, <4>3 DEF LossInv
    <3>4. CASE CtsBranch
      <4>1. Unserved = 1 /\ Unserved' = 0
        <5>1. txRing' # txRing
          BY <1>1, <3>2
        <5>2. ctsFlag /\ ~ctsFlag' /\ ~cts
          BY <2>2, <3>4, <5>1 DEF CtsBranch
        <5> QED
          BY <5>2 DEF Unserved
      <4>2. Lost' \in {Lost, Lost + 1}
        <5>1. Waiting \in {Fill(txRing), Fill(txRing) + 1}
          BY <1>1 DEF Waiting
        <5> QED
          BY <1>1, <2>1, <3>6, <5>1 DEF Lost
      <4>3. Lost' \in Nat /\ Lost' + Unserved' <= edges' \div 2
        <5>1. edges \div 2 \in Nat
          BY <1>1
        <5> QED
          BY <2>1, <4>1, <4>2, <5>1 DEF LossInv
      <4>4. putPc' = "store" => Fill(txRing') <= Size - 2
        BY <1>1, <2>1, <3>2 DEF LossInv
      <4> QED
        BY <2>1, <4>3, <4>4 DEF LossInv
    <3> QED
      BY <1>6, <3>3, <3>4 DEF Handler
  <2>3. CASE UNCHANGED <<txRing, dr>>
    <3>1. Lost' = Lost /\ Unserved' \in {0, Unserved}
      BY <1>6, <2>1, <2>3
         DEF Handler, CtsBranch, TxeBranch, Lost, Waiting, Unserved
    <3> QED
      BY <1>1, <2>1, <2>3, <3>1 DEF LossInv, Unserved
  <2> QED
    BY <1>6, <2>2, <2>3 DEF Handler, CtsBranch, TxeBranch
<1>7. CASE Shift
  <2>1. /\ Lost' = Lost /\ Unserved' = Unserved /\ edges' = edges /\ cts' = cts
        /\ putPc' = putPc /\ txRing' = txRing
    BY <1>1, <1>7 DEF Shift, Lost, Waiting, Unserved
  <2> QED
    BY <2>1 DEF LossInv
<1>8. CASE RaiseCts \/ LowerCts
  <2>1. /\ Lost' = Lost /\ edges' = edges + 1 /\ cts' = ~cts /\ ctsFlag'
        /\ putPc' = putPc /\ txRing' = txRing
    BY <1>8 DEF RaiseCts, LowerCts, CtsEdge, Lost, Waiting
  <2>2. Unserved' = IF cts THEN 1 ELSE 0
    BY <2>1 DEF Unserved
  <2>3. edges' % 2 = 1 <=> edges % 2 # 1
    BY <1>1, <2>1
  <2>4. edges' \div 2 = edges \div 2 + (IF edges % 2 = 1 THEN 1 ELSE 0)
    BY <1>1, <2>1
  <2>5. Unserved \in {0, 1} /\ (cts => Unserved = 0)
    BY DEF Unserved
  <2>6. Lost' + Unserved' <= edges' \div 2
    BY <1>1, <2>1, <2>2, <2>4, <2>5 DEF LossInv
  <2> QED
    BY <2>1, <2>3, <2>6 DEF LossInv
<1>9. CASE UNCHANGED txVars
  <2>1. /\ Lost' = Lost /\ Unserved' = Unserved /\ edges' = edges /\ cts' = cts
        /\ putPc' = putPc /\ txRing' = txRing
    BY <1>9 DEF txVars, uart, Lost, Waiting, Unserved
  <2> QED
    BY <2>1 DEF LossInv
<1> QED
  BY <1>2, <1>3, <1>4, <1>5, <1>6, <1>7, <1>8, <1>9
     DEF TxNext, PutChar, Interrupt, WithByte

LEMMA LossInvariance == TxSpec => []LossInv
<1>1. TxInit => LossInv
  BY SizeAtLeastTwo, TxAssumption
     DEF TxInit, LossInv, Lost, Waiting, Unserved, Fill, EmptyRing, Index, None
<1>2. TxTypeOK /\ TxTypeOK' /\ LossInv /\ [TxNext]_txVars => LossInv'
  BY LossStep
<1> QED
  BY <1>1, <1>2, TxTypeCorrect, PTL DEF TxSpec

(* At most one character is lost for each time CTS goes low, and none on a *)
(* UART without CTS (LossBounded).                                         *)
THEOREM LossCorrect == TxSpec => []LossBounded
<1>1. TxTypeOK /\ LossInv => LossBounded
  BY DEF TxTypeOK, LossInv, LossBounded, Lost, Unserved
<1> QED
  BY <1>1, TxTypeCorrect, LossInvariance, PTL
-----------------------------------------------------------------------------
(* Characters are numbered as they are handed in, so order is less-than.   *)
(* The ring, the register and the line are one queue: whatever waits in the*)
(* ring is younger than the character in the register, and that one younger*)
(* than the last on the line.  A character on its way into the ring is     *)
(* younger than all of these.                                              *)
Waits(j) == txRing.pt[Cell(txRing.tail + j)]       \* the j-th that waits
Places == 0 .. Fill(txRing) - 1
Youngest == IF putPc = "store" THEN chars - 1 ELSE chars
Ahead == IF dr = None THEN last ELSE dr            \* leaves before the ring
OrderInv == /\ last <= Ahead /\ (dr # None => last < dr) /\ Ahead <= Youngest
            /\ \A j \in Places : Ahead < Waits(j) /\ Waits(j) <= Youngest
            /\ \A j, k \in Places : j < k => Waits(j) < Waits(k)

(* Putting and taking move no character that waits past another.           *)
LEMMA WaitsType ==
  ASSUME TxTypeOK, NEW j \in Places PROVE Waits(j) \in Nat /\ Cell(txRing.tail + j) \in Index
<1>1. Cell(txRing.tail + j) \in Index
  BY SizeAtLeastTwo, Indices, FillBounds DEF Places, Cell, Index
<1> QED
  BY <1>1, TxAssumption DEF TxTypeOK, Waits

LEMMA WaitsOfPut ==
  ASSUME TxTypeOK, PutStore, NEW n \in Nat, n = Fill(txRing), n <= Size - 2
  PROVE  /\ Fill(txRing') = n + 1
         /\ \A j \in Places : Waits(j)' = Waits(j)
         /\ Waits(n)' = chars
<1>1. /\ txRing'.pt = [txRing.pt EXCEPT ![txRing.head] = chars]
      /\ txRing'.head = After(txRing.head) /\ txRing'.tail = txRing.tail
  BY DEF PutStore, TxTypeOK
<1>2. Fill(txRing') = n + 1
  BY <1>1, FillOfPut
<1>3. ASSUME NEW j \in Places PROVE Waits(j)' = Waits(j)
  <2>1. Cell(txRing.tail + j) # txRing.head
    BY SizeAtLeastTwo, Indices DEF Places, Cell, Fill
  <2> QED
    BY <1>1, <2>1, WaitsType DEF Waits, TxTypeOK
<1>4. Cell(txRing.tail + n) = txRing.head
  BY SizeAtLeastTwo, Indices DEF Cell, Fill
<1>5. txRing'.pt[txRing.head] = chars
  BY <1>1, Indices DEF TxTypeOK, Index
<1> QED
  BY <1>1, <1>2, <1>3, <1>4, <1>5 DEF Waits

LEMMA WaitsOfDrop ==
  ASSUME TxTypeOK, ~IsEmpty(txRing), SendOldest
  PROVE  /\ Fill(txRing') = Fill(txRing) - 1
         /\ Fill(txRing) # 0 /\ dr' = Waits(0) /\ dr' # None
         /\ \A j \in Places' : j + 1 \in Places /\ Waits(j)' = Waits(j + 1)
<1>1. /\ txRing'.pt = txRing.pt /\ txRing'.head = txRing.head
      /\ txRing'.tail = After(txRing.tail)
  BY DEF SendOldest, Drop, TxTypeOK
<1>2. Fill(txRing') = Fill(txRing) - 1
  BY FillOfDrop DEF SendOldest
<1>3. Fill(txRing) # 0
  BY SizeAtLeastTwo, Indices DEF Fill, IsEmpty
<1>4. dr' = Waits(0) /\ dr' # None
  <2>1. 0 \in Places /\ Cell(txRing.tail + 0) = txRing.tail
    BY <1>3, FillBounds, Indices, SizeAtLeastTwo DEF Places, Cell
  <2> QED
    BY <2>1, WaitsType DEF SendOldest, Oldest, Waits, None
<1>5. ASSUME NEW j \in Places' PROVE j + 1 \in Places /\ Waits(j)' = Waits(j + 1)
  <2>1. j \in Nat /\ j + 1 \in Places
    BY <1>2, FillBounds DEF Places
  <2>2. Cell(txRing'.tail + j) = Cell(txRing.tail + (j + 1))
    BY <1>1, <2>1, FillBounds, Indices, SizeAtLeastTwo DEF Places, Cell, After, Wrap
  <2> QED
    BY <1>1, <2>1, <2>2 DEF Waits
<1> QED
  BY <1>2, <1>3, <1>4, <1>5

LEMMA OrderStep ==
  ASSUME TxTypeOK, TxTypeOK', LossInv, OrderInv, [TxNext]_txVars PROVE OrderInv'
<1>1. /\ Fill(txRing) \in 0 .. Size - 1 /\ last \in Nat /\ chars \in Nat /\ chars' \in Nat
      /\ dr \in {None} \cup Nat /\ Youngest \in Int /\ Ahead \in Nat
      /\ \A j \in Places : Waits(j) \in Nat
  BY FillBounds, WaitsType, TxAssumption DEF TxTypeOK, Youngest, Ahead, None
<1>2. ASSUME UNCHANGED <<txRing, dr, last>>, Youngest' \in Int, Youngest' >= Youngest
      PROVE  OrderInv'
  <2>1. Places' = Places /\ Ahead' = Ahead /\ \A j \in Places : Waits(j)' = Waits(j)
    BY <1>2 DEF Places, Ahead, Waits
  <2> QED
    BY <1>1, <1>2, <2>1 DEF OrderInv
<1>3. CASE PutTest
  BY <1>1, <1>2, <1>3 DEF PutTest, uart, Youngest
<1>4. CASE PutStore
  <2>1. /\ UNCHANGED <<dr, last, chars>> /\ putPc = "store" /\ putPc' = "test"
    BY <1>4 DEF PutStore, uart
  <2>2. Ahead' = Ahead /\ Youngest = chars - 1 /\ Youngest' = chars
    BY <2>1 DEF Ahead, Youngest
  <2>3. PICK n \in Nat : n = Fill(txRing)
    BY <1>1
  <2>4. /\ Fill(txRing') = n + 1
        /\ \A j \in Places : Waits(j)' = Waits(j)
        /\ Waits(n)' = chars
    BY <1>4, <2>1, <2>3, WaitsOfPut DEF LossInv
  <2>5. ASSUME NEW j \in Places', j \notin Places PROVE j = n
    BY <2>3, <2>4, <2>5 DEF Places
  <2>6. \A j \in Places : Waits(j) < chars /\ j < n
    BY <1>1, <2>2, <2>3 DEF OrderInv, Places
  <2>7. last' <= Ahead' /\ (dr' # None => last' < dr') /\ Ahead' <= Youngest'
    BY <1>1, <2>1, <2>2 DEF OrderInv
  <2>8. ASSUME NEW j \in Places' PROVE Ahead' < Waits(j)' /\ Waits(j)' <= Youngest'
    BY <1>1, <2>2, <2>4, <2>5, <2>8 DEF OrderInv
  <2>9. ASSUME NEW j \in Places', NEW k \in Places', j < k PROVE Waits(j)' < Waits(k)'
    <3>1. j \in Nat /\ k \in Nat
      BY <2>4 DEF Places
    <3>2. j \in Places
      BY <2>5, <2>6, <2>9, <3>1
    <3> QED
      BY <2>4, <2>5, <2>6, <2>9, <3>2 DEF OrderInv
  <2> QED
    BY <2>7, <2>8, <2>9 DEF OrderInv
<1>5. CASE TestTxeie
  BY <1>1, <1>2, <1>5 DEF TestTxeie, uart, Youngest
<1>6. CASE SetTxeie
  BY <1>1, <1>2, <1>6 DEF SetTxeie, Youngest
<1>7. CASE Handler
  <2>1. UNCHANGED <<putPc, chars, last>> /\ Youngest' = Youngest
    BY <1>7 DEF Handler, Youngest
  <2>2. CASE SendOldest /\ ~IsEmpty(txRing)
    <3>1. /\ Fill(txRing') = Fill(txRing) - 1
          /\ Fill(txRing) # 0 /\ dr' = Waits(0) /\ dr' # None
          /\ \A j \in Places' : j + 1 \in Places /\ Waits(j)' = Waits(j + 1)
      BY <2>2, WaitsOfDrop
    <3>2. 0 \in Places /\ Places' \subseteq Nat
      BY <1>1, <3>1 DEF Places
    <3>3. Ahead' = Waits(0) /\ last <= Ahead
      BY <3>1 DEF Ahead, OrderInv
    <3>4. last' < Ahead' /\ Ahead' <= Youngest'
      BY <1>1, <2>1, <3>2, <3>3 DEF OrderInv
    <3>5. ASSUME NEW j \in Places' PROVE Ahead' < Waits(j)' /\ Waits(j)' <= Youngest'
      BY <2>1, <3>1, <3>2, <3>3, <3>5 DEF OrderInv
    <3>6. ASSUME NEW j \in Places', NEW k \in Places', j < k PROVE Waits(j)' < Waits(k)'
      <4>1. j + 1 \in Places /\ k + 1 \in Places /\ j + 1 < k + 1
        BY <3>1, <3>2, <3>6
      <4> QED
        BY <3>1, <4>1 DEF OrderInv
    <3>7. dr' # None => last' < dr'
      BY <3>1, <3>3, <3>4
    <3>8. last' <= Ahead'
      BY <1>1, <2>1, <3>2, <3>3, <3>4
    <3> QED
      BY <3>4, <3>5, <3>6, <3>7, <3>8 DEF OrderInv
  <2>3. CASE UNCHANGED <<txRing, dr>>
    BY <1>1, <1>2, <2>1, <2>3
  <2> QED
    BY <1>7, <2>2, <2>3 DEF Handler, CtsBranch, TxeBranch
<1>8. CASE Shift
  <2>1. /\ UNCHANGED <<txRing, putPc, chars>> /\ last' = dr /\ dr' = None /\ dr # None
    BY <1>8 DEF Shift
  <2>2. /\ Places' = Places /\ Ahead' = Ahead /\ Youngest' = Youngest /\ last' = Ahead
        /\ \A j \in Places : Waits(j)' = Waits(j)
    BY <2>1 DEF Places, Ahead, Youngest, Waits
  <2> QED
    BY <1>1, <2>1, <2>2 DEF OrderInv
<1>9. CASE RaiseCts \/ LowerCts
  <2>1. UNCHANGED <<txRing, dr, last, putPc, chars>>
    BY <1>9 DEF RaiseCts, LowerCts, CtsEdge
  <2> QED
    BY <1>1, <1>2, <2>1 DEF Youngest
<1>10. CASE UNCHANGED txVars
  BY <1>1, <1>2, <1>10 DEF txVars, uart, Youngest
<1> QED
  BY <1>3, <1>4, <1>5, <1>6, <1>7, <1>8, <1>9, <1>10
     DEF TxNext, PutChar, Interrupt, WithByte

(* The line never sends a character after a younger one, nor one twice     *)
(* (SentInOrder), though the data register may be overwritten.             *)
THEOREM SentOrderCorrect == TxSpec => SentInOrder
<1>1. TxInit => OrderInv
  BY SizeAtLeastTwo DEF TxInit, OrderInv, Ahead, Youngest, Places, Fill, EmptyRing, None
<1>2. TxTypeOK /\ TxTypeOK' /\ LossInv /\ OrderInv /\ [TxNext]_txVars => OrderInv'
  BY OrderStep
<1>3. TxTypeOK /\ OrderInv /\ [TxNext]_txVars => [sent' # sent => last' > last]_txVars
  <2> SUFFICES ASSUME TxTypeOK, OrderInv, TxNext, sent' # sent PROVE last' > last
    OBVIOUS
  <2>1. Shift
    BY DEF TxNext, PutChar, PutTest, PutStore, TestTxeie, SetTxeie, Interrupt, WithByte,
           Handler, RaiseCts, LowerCts, CtsEdge
  <2> QED
    BY <2>1, TxAssumption DEF Shift, OrderInv, TxTypeOK, None
<1> QED
  BY <1>1, <1>2, <1>3, TxTypeCorrect, LossInvariance, PTL DEF TxSpec, SentInOrder
-----------------------------------------------------------------------------
(* A UART is its two sides at once: what holds of each holds of the whole, *)
(* although one handler serves both and the main loop is in one at a time. *)
THEOREM Components == UartSpec => Spec /\ TxSpec
<1>1. UartInit => Init /\ TxInit
  BY DEF UartInit
<1>2. [UartNext]_uartVars => [Next]_vars
  BY DEF UartNext, uartVars, Reads, Writes, Received, Dropped, Served, Line, Next
<1>3. [UartNext]_uartVars => [TxNext]_txVars
  <2>1. Handler => Interrupt \/ WithByte
    BY DEF Handler, CtsBranch, TxeBranch, Interrupt, WithByte
  <2> QED
    BY <2>1 DEF UartNext, uartVars, Reads, Writes, Received, NothingToSend, Dropped,
                Served, Line, TxNext
<1> QED
  BY <1>1, <1>2, <1>3, PTL DEF UartSpec, Spec, TxSpec

(* Of a UART that receives as well: what RINGBUF_GetFill returns is right, *)
(* and bytes are read in order, but for the ringfuls the head has run over;*)
(* at most one character is lost for each time CTS goes low, and characters*)
(* are sent in order.                                                      *)
THEOREM UartFillCorrect == UartSpec => []FillCountsAccepted
BY Components, FillCorrect, PTL

THEOREM UartOrderCorrect == UartSpec => InOrder
BY Components, OrderCorrect, PTL

THEOREM UartLossCorrect == UartSpec => []LossBounded
BY Components, LossCorrect, PTL

THEOREM UartSentCorrect == UartSpec => SentInOrder
BY Components, SentOrderCorrect, PTL
-----------------------------------------------------------------------------
(* The timers.                                                             *)

(* A timer that is running holds its start and its timeout, and as long as *)
(* the tick has not come round the ticks since the start are those that    *)
(* went by.                                                                *)
Started ==
  running => /\ t.crc = Plus(t.start_time, t.timeout)
             /\ elapsed < Ticks => now = Plus(t.start_time, elapsed)
             /\ expired => elapsed >= t.timeout
             /\ expired /\ elapsed < Ticks => Remaining = 0

TickInv == TickTypeOK /\ Started

(* The sum of two words is a word.                                         *)
LEMMA PlusIsWord ==
  ASSUME NEW a \in Word, NEW b \in Word
  PROVE  Plus(a, b) \in Word
BY TickAssumption DEF Plus, Word

(* What Since makes of a timer that has run for less than a whole turn of  *)
(* the tick: the ticks that went by, or one less after the wrap.           *)
LEMMA SinceIsElapsed ==
  ASSUME TickInv, running, elapsed < Ticks
  PROVE  IF t.start_time + elapsed < Ticks THEN Since = elapsed ELSE Since = elapsed - 1
<1>1. t.start_time \in 0 .. Ticks - 1 /\ elapsed \in Nat /\ Ticks \in Nat
  BY TickAssumption DEF TickInv, TickTypeOK, Timeout_Type, Word
<1>2. now = IF t.start_time + elapsed >= Ticks THEN t.start_time + elapsed - Ticks ELSE t.start_time + elapsed
  BY DEF TickInv, Started, Plus
<1> QED BY <1>1, <1>2 DEF Since

(* A timer of the right content has run out when Since says so.            *)
LEMMA RemainingIsSince ==
  ASSUME TickInv, running
  PROVE  Remaining = 0 <=> Since >= t.timeout
<1>1. now \in Word /\ t.start_time \in Word /\ t.timeout \in Word /\ Ticks \in Nat
  BY TickAssumption DEF TickInv, TickTypeOK, Timeout_Type
<1>2. Since \in Int /\ t.timeout \in Int
  BY <1>1 DEF Since, Word
<1>3. t.crc = Plus(t.start_time, t.timeout)
  BY DEF TickInv, Started
<1>4. ASSUME Since >= t.timeout PROVE Remaining = 0
  BY <1>4 DEF Remaining
<1>5. ASSUME ~(Since >= t.timeout) PROVE Remaining # 0
  <2>1. Remaining = t.timeout - Since
    BY <1>3, <1>5 DEF Remaining
  <2> QED BY <1>2, <1>5, <2>1
<1> QED BY <1>4, <1>5

LEMMA TickInitially == TickInit => TickInv
<1> SUFFICES ASSUME TickInit PROVE TickInv
  OBVIOUS
<1>1. 0 \in Word
  BY TickAssumption DEF Word
<1> QED BY <1>1 DEF TickInit, TickInv, TickTypeOK, Started

(* The answer is a word.                                                   *)
LEMMA RemainingIsWord == TickTypeOK => Remaining \in Word
<1> SUFFICES ASSUME TickTypeOK PROVE Remaining \in Word
  OBVIOUS
<1>1. now \in 0 .. Ticks - 1 /\ t.start_time \in 0 .. Ticks - 1 /\ t.timeout \in 0 .. Ticks - 1 /\ Ticks \in Nat
  BY TickAssumption DEF TickTypeOK, Timeout_Type, Word
<1>2. Since \in Nat
  BY <1>1 DEF Since
<1>3. CASE Plus(t.start_time, t.timeout) # t.crc \/ Since >= t.timeout
  BY <1>1, <1>3 DEF Remaining, Word
<1>4. CASE ~(Plus(t.start_time, t.timeout) # t.crc \/ Since >= t.timeout)
  BY <1>1, <1>2, <1>4 DEF Remaining, Word
<1> QED BY <1>3, <1>4

(* What the two properties say, from the invariant.                        *)
LEMMA TickEarly == TickInv => NeverEarly
<1> SUFFICES ASSUME TickInv, running, Remaining = 0 PROVE elapsed >= t.timeout
  BY DEF NeverEarly
<1>1. t.timeout \in 0 .. Ticks - 1 /\ elapsed \in Nat /\ Ticks \in Nat
  BY TickAssumption DEF TickInv, TickTypeOK, Timeout_Type, Word
<1>2. CASE elapsed < Ticks
  BY <1>1, <1>2, SinceIsElapsed, RemainingIsSince
<1>3. CASE elapsed >= Ticks
  BY <1>1, <1>3
<1> QED BY <1>1, <1>2, <1>3

LEMMA TickStays ==
  ASSUME TickInv, running, elapsed < Ticks, elapsed > t.timeout
  PROVE  Remaining = 0
<1>1. t.timeout \in 0 .. Ticks - 1 /\ elapsed \in Nat
  BY TickAssumption DEF TickInv, TickTypeOK, Timeout_Type, Word
<1>2. Since = elapsed \/ Since = elapsed - 1
  BY SinceIsElapsed
<1> QED BY <1>1, <1>2, RemainingIsSince

(* Every step keeps the invariant.                                         *)
LEMMA TickInductive == TickInv /\ [TickNext]_tickVars => TickInv'
<1> SUFFICES ASSUME TickInv, [TickNext]_tickVars PROVE TickInv'
  OBVIOUS
<1> USE TickAssumption
<1>1. TickTypeOK'
  <2>1. CASE SysTick_Task
    BY <2>1, PlusIsWord DEF TickInv, TickTypeOK, SysTick_Task, Word
  <2>2. ASSUME NEW timeout \in Word, InitTimeout(timeout) PROVE TickTypeOK'
    BY <2>2, PlusIsWord DEF TickInv, TickTypeOK, InitTimeout, Timeout_Type
  <2>3. CASE CheckTimeout
    BY <2>3, RemainingIsWord DEF TickInv, TickTypeOK, CheckTimeout
  <2>4. CASE UNCHANGED tickVars
    BY <2>4 DEF TickInv, TickTypeOK, tickVars
  <2> QED BY <2>1, <2>2, <2>3, <2>4 DEF TickNext
<1>2. ASSUME running' PROVE (t.crc = Plus(t.start_time, t.timeout))' /\ (elapsed < Ticks => now = Plus(t.start_time, elapsed))'
  <2>1. CASE SysTick_Task
    <3>1. running /\ elapsed' = elapsed + 1 /\ now' = Plus(now, 1) /\ t' = t
      BY <1>2, <2>1 DEF SysTick_Task
    <3>2. now \in 0 .. Ticks - 1 /\ t.start_time \in 0 .. Ticks - 1 /\ elapsed \in Nat
      BY DEF TickInv, TickTypeOK, Timeout_Type, Word
    <3>3. elapsed < Ticks => now = Plus(t.start_time, elapsed)
      BY <3>1 DEF TickInv, Started
    <3>4. elapsed + 1 < Ticks => Plus(now, 1) = Plus(t.start_time, elapsed + 1)
      BY <3>2, <3>3 DEF Plus
    <3> QED BY <3>1, <3>4 DEF TickInv, Started, Plus
  <2>2. ASSUME NEW timeout \in Word, InitTimeout(timeout)
        PROVE (t.crc = Plus(t.start_time, t.timeout))' /\ (elapsed < Ticks => now = Plus(t.start_time, elapsed))'
    BY <2>2 DEF TickInv, TickTypeOK, InitTimeout, Plus, Word
  <2>3. CASE CheckTimeout
    BY <1>2, <2>3 DEF TickInv, Started, CheckTimeout, Plus
  <2>4. CASE UNCHANGED tickVars
    BY <1>2, <2>4 DEF TickInv, Started, tickVars, Plus
  <2> QED BY <2>1, <2>2, <2>3, <2>4 DEF TickNext
<1>3. ASSUME running', expired' PROVE (elapsed >= t.timeout)' /\ (elapsed < Ticks => Remaining = 0)'
  <2>0. elapsed \in Nat /\ t.timeout \in 0 .. Ticks - 1
    BY DEF TickInv, TickTypeOK, Timeout_Type, Word
  <2>1. CASE SysTick_Task
    <3>1. running /\ expired /\ elapsed' = elapsed + 1 /\ t' = t
      BY <1>3, <2>1 DEF SysTick_Task
    <3>2. elapsed >= t.timeout
      BY <3>1 DEF TickInv, Started
    <3>3. Since' = elapsed' \/ Since' = elapsed' - 1 \/ elapsed' >= Ticks
      <4>1. now' \in 0 .. Ticks - 1 /\ t'.start_time \in 0 .. Ticks - 1 /\ elapsed' \in Nat
        BY <1>1 DEF TickTypeOK, Timeout_Type, Word
      <4>2. elapsed' < Ticks => now' = Plus(t'.start_time, elapsed')
        BY <1>2, <1>3 DEF Plus
      <4> QED BY <4>1, <4>2 DEF Since, Plus
    <3>4. elapsed' < Ticks => Since' >= t'.timeout
      BY <2>0, <3>1, <3>2, <3>3
    <3> QED BY <2>0, <3>1, <3>2, <3>4 DEF Remaining
  <2>2. ASSUME NEW timeout \in Word, InitTimeout(timeout) PROVE FALSE
    BY <1>3, <2>2 DEF InitTimeout
  <2>3. CASE CheckTimeout
    <3>1. running /\ (expired \/ Remaining = 0) /\ elapsed' = elapsed /\ t' = t /\ now' = now
      BY <1>3, <2>3 DEF CheckTimeout
    <3>2. CASE Remaining = 0
      BY <3>1, <3>2, TickEarly DEF NeverEarly, Remaining, Since
    <3>3. CASE expired
      BY <3>1, <3>3 DEF TickInv, Started, Remaining, Since
    <3> QED BY <3>1, <3>2, <3>3
  <2>4. CASE UNCHANGED tickVars
    BY <1>3, <2>4 DEF TickInv, Started, tickVars, Remaining, Since
  <2> QED BY <2>1, <2>2, <2>3, <2>4 DEF TickNext
<1> QED BY <1>1, <1>2, <1>3 DEF TickInv, Started

-----------------------------------------------------------------------------
(* The timer's content and its history keep their types.                   *)
THEOREM TickTypeCorrect == TickSpec => []TickTypeOK
<1>1. TickInit => TickInv
  BY TickInitially
<1>2. TickInv /\ [TickNext]_tickVars => TickInv'
  BY TickInductive
<1>3. TickInv => TickTypeOK
  BY DEF TickInv
<1> QED BY <1>1, <1>2, <1>3, PTL DEF TickSpec

(* CheckTimeout never finds a timer expired before its time.               *)
THEOREM AlwaysNeverEarly == TickSpec => []NeverEarly
<1>1. TickInit => TickInv
  BY TickInitially
<1>2. TickInv /\ [TickNext]_tickVars => TickInv'
  BY TickInductive
<1>3. TickInv => NeverEarly
  BY TickEarly
<1> QED BY <1>1, <1>2, <1>3, PTL DEF TickSpec

(* It finds it expired at most one tick late, and keeps to it until the    *)
(* tick has come round.                                                    *)
THEOREM AlwaysExpiredStays == TickSpec => []ExpiredStays
<1>1. TickInit => TickInv
  BY TickInitially
<1>2. TickInv /\ [TickNext]_tickVars => TickInv'
  BY TickInductive
<1>3. TickInv => ExpiredStays
  <2> SUFFICES ASSUME TickInv, running, elapsed < Ticks, expired \/ elapsed > t.timeout
               PROVE Remaining = 0
    BY DEF ExpiredStays
  <2>1. CASE expired
    BY <2>1 DEF TickInv, Started
  <2>2. CASE elapsed > t.timeout
    BY <2>2, TickStays
  <2> QED BY <2>1, <2>2
<1> QED BY <1>1, <1>2, <1>3, PTL DEF TickSpec
=============================================================================
