--------------------------- MODULE FlashLogProofs ---------------------------
(***************************************************************************)
(* What holds of the flash log for every record size, sector size, log     *)
(* size, position sector and number of restarts and failed programs.       *)
(***************************************************************************)
EXTENDS FlashLog, FiniteSetTheorems, TLAPS

(* A product grows with its left factor.                                   *)
LEMMA TimesMonotone ==
  ASSUME NEW a \in Nat, NEW b \in Nat, NEW c \in Nat, a <= b
  PROVE  a * c <= b * c
OBVIOUS

(* The quotient of a by b, and what it leaves.                             *)
LEMMA Division ==
  ASSUME NEW a \in Nat, NEW b \in Nat \ {0}
  PROVE  /\ a \div b \in Nat /\ a % b \in 0 .. b - 1
         /\ a = b * (a \div b) + (a % b)
         /\ (a \div b) * b <= a /\ a < (a \div b + 1) * b
OBVIOUS

(* q is the quotient of a by b when a lies in the q-th stretch of b.       *)
LEMMA QuotientBounds ==
  ASSUME NEW a \in Nat, NEW b \in Nat \ {0}, NEW q \in Nat
  PROVE  /\ q * b <= a <=> q <= a \div b
         /\ a < q * b <=> a \div b < q
OBVIOUS

(* A non-empty set of numbers has a least element, and a largest one when  *)
(* there is a bound.                                                       *)
LEMMA MinExists ==
  ASSUME NEW S \in SUBSET Nat, S # {}
  PROVE  \E x \in S : \A y \in S : x <= y
<1> DEFINE Less == {ss \in Nat \X Nat : ss[1] < ss[2]}
<1>1. IsWellFoundedOn(Less, Nat)
  BY NatLessThanWellFounded DEF OpToRel
<1>2. PICK x \in S : \A y \in S : <<y, x>> \notin Less
  BY <1>1, WFMin
<1>3. \A y \in S : y \in Nat /\ x \in Nat /\ ~(y < x)
  BY <1>2
<1> HIDE DEF Less
<1> QED
  BY <1>3

LEMMA MaxExists ==
  ASSUME NEW n \in Nat, NEW S \in SUBSET (0 .. n), S # {}
  PROVE  Max(S) \in S /\ \A y \in S : Max(S) >= y
<1> DEFINE R == {n - x : x \in S}
<1>1. \A x \in S : x \in 0 .. n /\ n - x \in Nat
  OBVIOUS
<1>2. R \in SUBSET Nat /\ R # {}
  BY <1>1
<1>3. PICK m \in R : \A y \in R : m <= y
  BY <1>2, MinExists
<1>4. PICK x \in S : m = n - x
  OBVIOUS
<1>5. \A y \in S : x >= y
  BY <1>1, <1>3, <1>4
<1> QED
  BY <1>5 DEF Max

(* The ring has three slots or more, and they fit in the record area.      *)
LEMMA RingSize ==
  /\ N \in Nat /\ N >= 3
  /\ N * RecSize <= DataSize /\ DataSize < (N + 1) * RecSize
<1> USE SizeAssumption DEF N
<1>1. N \in Nat /\ N * RecSize <= DataSize /\ DataSize < (N + 1) * RecSize
  BY Division
<1>2. 3 * RecSize <= DataSize
  OBVIOUS
<1>3. 3 <= N
  BY <1>2, QuotientBounds
<1> QED
  BY <1>1, <1>3

(* Every chunk of every slot is a cell of the record area.                 *)
LEMMA SlotCells ==
  ASSUME NEW s \in Slot, NEW k \in 0 .. RecSize - 1
  PROVE  s * RecSize + k \in 0 .. DataSize - 1
<1>1. (s + 1) * RecSize <= N * RecSize
  BY RingSize, TimesMonotone, SizeAssumption DEF Slot
<1>2. (s + 1) * RecSize = s * RecSize + RecSize /\ s * RecSize \in Nat
  BY SizeAssumption DEF Slot
<1>3. N * RecSize \in Nat /\ N * RecSize <= DataSize
  BY RingSize, SizeAssumption
<1> QED
  BY <1>1, <1>2, <1>3, SizeAssumption

(* The slot after a slot is one.                                           *)
LEMMA SuccType == ASSUME NEW s \in Slot PROVE Succ(s) \in Slot
BY RingSize DEF Succ, Slot

(* A slot begins in a sector.                                              *)
LEMMA SectorType == ASSUME NEW s \in Slot PROVE SectorOf(s) \in Nat
<1>1. s * RecSize \in Nat
  BY SizeAssumption DEF Slot
<1> QED
  BY <1>1, Division, SizeAssumption DEF SectorOf

(* FirstSlotIn(k) is a slot; when it is not slot 0 it starts in sector k   *)
(* or later.                                                               *)
LEMMA FirstSlot ==
  ASSUME NEW k \in Nat
  PROVE  /\ FirstSlotIn(k) \in Slot
         /\ FirstSlotIn(k) # 0 => k * SectorSize <= FirstSlotIn(k) * RecSize
<1> DEFINE a == k * SectorSize
           q == a \div RecSize
           r == a % RecSize
           f == IF r # 0 THEN q + 1 ELSE q
<1>1. a \in Nat
  BY SizeAssumption
<1>2. /\ q \in Nat /\ r \in 0 .. RecSize - 1
      /\ a = RecSize * q + r /\ q * RecSize <= a /\ a < (q + 1) * RecSize
  BY <1>1, Division, SizeAssumption
<1>3. f \in Nat /\ a <= f * RecSize
  <2> HIDE DEF a, q, r
  <2> QED
    BY <1>1, <1>2, SizeAssumption
<1>4. FirstSlotIn(k) = IF f >= N THEN 0 ELSE f
  BY DEF FirstSlotIn
<1> HIDE DEF f, a
<1>5. FirstSlotIn(k) \in Slot
  BY <1>3, <1>4, RingSize DEF Slot
<1>6. FirstSlotIn(k) # 0 => a <= FirstSlotIn(k) * RecSize
  BY <1>3, <1>4
<1> QED
  BY <1>5, <1>6 DEF a
-----------------------------------------------------------------------------
Cells == {Junk, Blank} \cup Records
DataType == [0 .. DataSize - 1 -> Cells]
PosType == [0 .. NPos - 1 -> PosEntry]

(* An erased flash is a flash.                                             *)
LEMMA EraseType ==
  ASSUME NEW d \in DataType, NEW k \in Nat
  PROVE  EraseSector(d, k) \in DataType
BY DEF EraseSector, DataType, Cells

(* A flash with one more chunk programmed is a flash.                      *)
LEMMA WriteType ==
  ASSUME NEW d \in DataType, NEW a \in 0 .. DataSize - 1, NEW c \in Cells
  PROVE  WriteChunk(d, a, c) \in DataType
<1> DEFINE e == IF a % SectorSize = 0
                THEN EraseSector(d, a \div SectorSize) ELSE d
<1>1. e \in DataType
  <2>1. a \div SectorSize \in Nat
    BY Division, SizeAssumption
  <2> QED
    BY <2>1, EraseType
<1>2. WriteChunk(d, a, c) =
        [e EXCEPT ![a] = IF @ \in {Blank, c} THEN c ELSE Junk]
  BY DEF WriteChunk
<1> HIDE DEF e
<1> QED
  BY <1>1, <1>2 DEF DataType, Cells

(* A slot reads as a record or as none.                                    *)
LEMMA RecordType ==
  ASSUME NEW d \in DataType, NEW s \in Slot
  PROVE  RecordAt(d, s) \in {Blank} \cup Records
<1>1. s * RecSize + 0 \in 0 .. DataSize - 1
  BY SlotCells, SizeAssumption
<1>2. s * RecSize = s * RecSize + 0
  BY SizeAssumption DEF Slot
<1> QED
  BY <1>1, <1>2 DEF RecordAt, DataType, Cells

(* The sum of a journal entry is a byte, which a bad program is not.       *)
LEMMA ChecksumType ==
  ASSUME NEW h \in Slot, NEW t \in Slot
  PROVE  Checksum(h, t) \in 0 .. Byte - 1
<1>1. \A x \in Slot : ByteSum(x) \in Nat
  <2> TAKE x \in Slot
  <2>1. x \in Nat /\ x % Byte \in Nat /\ x \div Byte \in Nat
    <3>1. x \in Nat
      BY RingSize DEF Slot
    <3>2. Byte \in Nat \ {0}
      BY BoundAssumption
    <3>3. x % Byte \in 0 .. Byte - 1 /\ x \div Byte \in Nat
      BY <3>1, <3>2, Division
    <3> QED
      BY <3>1, <3>2, <3>3
  <2> QED
    BY <2>1 DEF ByteSum
<1>2. ByteSum(h) + ByteSum(t) \in Nat
  BY <1>1
<1>3. Byte \in Nat \ {0}
  BY BoundAssumption
<1> QED
  BY <1>2, <1>3, Division DEF Checksum

(* An erased journal is a journal.                                         *)
LEMMA BlankType == BlankSector \in PosType /\ BlankPos \in PosEntry
BY FieldAssumption, BoundAssumption
   DEF BlankSector, PosType, PosEntry, BlankPos

(* What a restart reads from the position sector is a ring and an entry.   *)
LEMMA RecoveredType ==
  ASSUME pos \in PosType
  PROVE  /\ RecoveredRing.head \in Slot /\ RecoveredRing.tail \in Slot
         /\ RecoveredCnt \in 0 .. NPos - 1
<1> USE BoundAssumption
<1>0. NPos - 1 \in Nat
  OBVIOUS
<1>1. GoodEntries \in SUBSET (0 .. NPos - 1)
      /\ InRangeEntries \in SUBSET (0 .. NPos - 1)
  BY DEF GoodEntries, InRangeEntries
<1>2. RecoveredCnt \in 0 .. NPos - 1
  <2>1. CASE InRangeEntries = {}
    BY <2>1 DEF RecoveredCnt
  <2>2. CASE InRangeEntries # {}
    <3>1. Max(InRangeEntries) \in InRangeEntries
      BY <1>0, <1>1, <2>2, MaxExists
    <3> QED
      BY <3>1, <1>1, <2>2 DEF RecoveredCnt
  <2> QED
    BY <2>1, <2>2
<1>3. CASE GoodEntries = {}
  BY <1>2, <1>3, RingSize DEF RecoveredRing, Slot
<1>4. CASE GoodEntries # {}
  <2> DEFINE m == Max(GoodEntries)
  <2>1. m \in GoodEntries
    BY <1>0, <1>1, <1>4, MaxExists
  <2>2. pos[m] \in PosEntry /\ InRange(pos[m])
    BY <2>1 DEF GoodEntries, Good, PosType
  <2>3. pos[m].head \in Slot /\ pos[m].tail \in Slot
    BY <2>2, RingSize, FieldAssumption DEF PosEntry, InRange, Slot
  <2>4. RecoveredRing = [head |-> pos[m].head, tail |-> pos[m].tail]
    BY <1>4 DEF RecoveredRing
  <2> HIDE DEF m
  <2> QED
    BY <1>2, <2>3, <2>4
<1> QED
  BY <1>3, <1>4

(* The record that DB_LoadEndLog finds behind the head.                    *)
LEMMA EndLogType ==
  ASSUME NEW d \in DataType, NEW h \in Slot, NEW t \in Slot
  PROVE  EndLog(d, h, t) \in {Blank} \cup Records
<1> DEFINE F == {s \in Slot : Behind(h, s) < Behind(h, t) /\ Readable(d, s)}
           P(s) == s \in F /\ \A r \in F : Behind(h, s) <= Behind(h, r)
<1>1. CASE F = {}
  BY <1>1 DEF EndLog
<1>2. CASE F # {}
  <2> DEFINE D == {Behind(h, s) : s \in F}
  <2>1. \A s \in Slot : Behind(h, s) \in 0 .. N - 1
    <3> TAKE s \in Slot
    <3>1. h - 1 - s + N \in Nat
      BY RingSize DEF Slot
    <3>2. N \in Nat \ {0}
      BY RingSize
    <3>3. (h - 1 - s + N) % N \in 0 .. N - 1
      BY <3>1, <3>2, Division
    <3> QED
      BY <3>3 DEF Behind
  <2>2. D \in SUBSET Nat /\ D # {}
    BY <1>2, <2>1, RingSize
  <2>3. PICK b \in D : \A y \in D : b <= y
    BY <2>2, MinExists
  <2>4. \E s \in F : \A r \in F : Behind(h, s) <= Behind(h, r)
    BY <2>3
  <2>5. (CHOOSE s \in F : \A r \in F : Behind(h, s) <= Behind(h, r)) \in Slot
    BY <2>4
  <2> HIDE DEF F
  <2>6. EndLog(d, h, t) =
          RecordAt(d, CHOOSE s \in F : \A r \in F : Behind(h, s) <= Behind(h, r))
    BY <1>2 DEF EndLog, F
  <2> QED
    BY <2>5, <2>6, RecordType
<1> QED
  BY <1>1, <1>2

(* The ring's slots are slots, and the head is not one of them.            *)
LEMMA WindowType ==
  ASSUME NEW t \in Slot, NEW h \in Slot
  PROVE  Window(t, h) \subseteq Slot /\ h \notin Window(t, h)
BY RingSize DEF Window, Slot

(* The slot that DB_LoadNextLog stops at, or the head.                     *)
LEMMA LoadedTail ==
  ASSUME TypeOK, LoadNextLog
  PROVE  /\ tail' \in Window(tail, head) \cup {head}
         /\ head' = head /\ tail' \in Slot
         /\ pc' # "posHead" => tail' \in {tail, head}
         /\ \A s \in Window(tail, head) : Readable(data, s) =>
              /\ tail' # head /\ Readable(data, tail')
              /\ (tail' - tail + N) % N <= (s - tail + N) % N
<1> DEFINE D(s) == (s - tail + N) % N
           F == {s \in Window(tail, head) : Readable(data, s)}
           first == CHOOSE s \in F : \A r \in F : D(s) <= D(r)
<1>0. head' = head /\ tail \in Slot /\ head \in Slot
      /\ Window(tail, head) \subseteq Slot /\ head \notin Window(tail, head)
  BY WindowType DEF LoadNextLog, TypeOK
<1>1. CASE F = {}
  <2>1. tail' = head
    BY <1>1 DEF LoadNextLog
  <2> QED
    BY <1>0, <1>1, <2>1
<1>2. CASE F # {}
  <2>1. \A s \in Slot : D(s) \in 0 .. N - 1
    <3> TAKE s \in Slot
    <3>1. s - tail + N \in Nat /\ N \in Nat \ {0}
      BY <1>0, RingSize DEF Slot
    <3> QED
      BY <3>1, Division
  <2>2. tail' = first /\ (pc' # "posHead" => tail' = tail)
    BY <1>2 DEF LoadNextLog
  <2> HIDE DEF D
  <2>3. {D(s) : s \in F} \in SUBSET Nat /\ {D(s) : s \in F} # {}
    BY <1>0, <1>2, <2>1, RingSize
  <2>4. \E s \in F : \A r \in F : D(s) <= D(r)
    <3>1. PICK b \in {D(s) : s \in F} : \A y \in {D(s) : s \in F} : b <= y
      BY <2>3, MinExists
    <3> QED
      BY <3>1
  <2>5. first \in F /\ \A r \in F : D(first) <= D(r)
    BY <2>4
  <2> HIDE DEF first
  <2> QED
    BY <1>0, <2>2, <2>5 DEF D
<1> QED
  BY <1>1, <1>2

(* Type correctness.  The restart is the case with content: whatever the   *)
(* position sector holds, DB_InitLog leaves indices in range.              *)
THEOREM TypeCorrect == Spec => []TypeOK
<1> USE DEF DataType, PosType, Cells
<1>1. Init => TypeOK
  <2> SUFFICES ASSUME Init PROVE TypeOK
    OBVIOUS
  <2>1. pos \in PosType
    BY BlankType DEF Init
  <2>2. 0 \in Slot /\ 0 \in 0 .. NPos - 1 /\ 0 \in 0 .. MaxTry - 1
    BY RingSize, BoundAssumption DEF Slot
  <2>3. data \in DataType
    BY DEF Init
  <2>4. 0 \in 0 .. RecSize /\ 0 < RecSize
    BY SizeAssumption
  <2>5. 1 \in 1 .. MaxRec + 1 /\ 0 \in 0 .. MaxRestart /\ 0 \in 0 .. MaxFault
    BY BoundAssumption
  <2> QED
    BY <2>1, <2>2, <2>3, <2>4, <2>5 DEF Init, TypeOK
<1>2. TypeOK /\ [Next]_vars => TypeOK'
  <2> SUFFICES ASSUME TypeOK, [Next]_vars
               PROVE  TypeOK'
    OBVIOUS
  <2> USE DEF TypeOK
  <2>1. CASE SaveLog
    <3>1. nextRec \in Records /\ nextRec + 1 \in 1 .. MaxRec + 1
      BY <2>1, BoundAssumption DEF SaveLog, Records
    <3>2. 0 \in 0 .. MaxTry - 1
      BY BoundAssumption
    <3> QED
      BY <2>1, <3>1, <3>2 DEF SaveLog
  <2>2. CASE GiveUp
    <3>1. 0 \in 0 .. MaxTry - 1
      BY BoundAssumption
    <3> QED
      BY <2>2, <3>1 DEF GiveUp, counters
  <2>3. CASE MakeRoom
    <3> DEFINE k == SectorOf(Succ(head))
    <3>1. k \in Nat
      BY SuccType, SectorType
    <3>2. EraseSector(data, k) \in DataType
      BY <3>1, EraseType
    <3>3. FirstSlotIn(k + 1) \in Slot
      BY <3>1, FirstSlot
    <3>4. tryCnt + 1 \in 0 .. MaxTry - 1 /\ 0 \in 0 .. RecSize /\ 0 < RecSize
      BY <2>3, BoundAssumption, SizeAssumption DEF MakeRoom
    <3>5. data' \in DataType /\ tail' \in Slot
      BY <2>3, <3>2, <3>3 DEF MakeRoom
    <3> QED
      BY <2>3, <3>4, <3>5 DEF MakeRoom, counters
  <2>4. CASE ProgramChunk
    <3> DEFINE a == head * RecSize + i
               d == WriteChunk(data, a, logRecord)
    <3>1. i \in 0 .. RecSize - 1
      BY <2>4, SizeAssumption DEF ProgramChunk
    <3>2. a \in 0 .. DataSize - 1
      BY <3>1, SlotCells
    <3>3. d \in DataType /\ [d EXCEPT ![a] = Junk] \in DataType
      BY <3>2, WriteType
    <3>4. data' \in DataType /\ faults' \in 0 .. MaxFault
      <4>1. data' = d \/ data' = [d EXCEPT ![a] = Junk]
        BY <2>4 DEF ProgramChunk
      <4>2. faults' \in 0 .. MaxFault
        BY <2>4, BoundAssumption DEF ProgramChunk
      <4> HIDE DEF d
      <4> QED
        BY <4>1, <4>2, <3>3
    <3>5. i + 1 \in 0 .. RecSize
      BY <3>1, SizeAssumption
    <3> QED
      BY <2>4, <3>4, <3>5 DEF ProgramChunk
  <2>5. CASE CheckRecord
    <3>1. Succ(head) \in Slot
      BY SuccType
    <3> QED
      BY <2>5, <3>1 DEF CheckRecord, counters
  <2>6. CASE ProgramHead \/ ProgramTail \/ ProgramCrc
    <3>1. Checksum(head, tail) \in 0 .. Byte - 1
      BY ChecksumType
    <3>2. pos' \in PosType
      <4> DEFINE sector(from) == IF from = "posHead" /\ logPositionCnt = 0
                                 THEN BlankSector ELSE pos
      <4>1. \A from : sector(from) \in PosType
        BY BlankType
      <4>2. \A h \in Slot, x \in 0 .. Erased : Program(x, h) \in 0 .. Erased
        <5> TAKE h \in Slot, x \in 0 .. Erased
        <5>1. h \in 0 .. Erased
          BY RingSize, FieldAssumption DEF Slot
        <5>2. Program(x, h) \in 0 .. h
          BY <5>1, FieldAssumption
        <5> QED
          BY <5>1, <5>2, FieldAssumption
      <4>3. \A x \in 0 .. Byte - 1 :
              Program(x, Checksum(head, tail)) \in 0 .. Byte - 1
        <5> TAKE x \in 0 .. Byte - 1
        <5> DEFINE c == Checksum(head, tail)
        <5> HIDE DEF c
        <5>0. Byte \in Nat /\ Erased \in Nat /\ Byte <= Erased + 1
          BY FieldAssumption, BoundAssumption
        <5>1. x \in 0 .. Erased /\ c \in 0 .. Erased
          BY <3>1, <5>0 DEF c
        <5>2. Program(x, c) \in 0 .. c
          BY <5>1, FieldAssumption
        <5> QED
          BY <3>1, <5>0, <5>2 DEF c
      <4>4. CASE ProgramHead
        <5>1. \/ pos' = sector("posHead")
              \/ pos' = [sector("posHead") EXCEPT
                            ![logPositionCnt]["head"] = Program(@, head)]
          BY <4>4 DEF ProgramHead, ProgramPos
        <5>2. PICK p : p = sector("posHead")
          OBVIOUS
        <5>3. p \in PosType
          BY <4>1, <5>2
        <5>4. pos' = p \/ pos' = [p EXCEPT ![logPositionCnt].head =
                                              Program(@, head)]
          BY <5>1, <5>2
        <5> HIDE DEF sector
        <5>5. [p[logPositionCnt] EXCEPT !.head = Program(@, head)] \in PosEntry
          BY <4>2, <5>3 DEF PosEntry
        <5> QED
          BY <5>3, <5>4, <5>5
      <4>5. CASE ProgramTail
        BY <2>6, <4>1, <4>2, <4>5 DEF ProgramTail, ProgramPos, PosEntry
      <4>6. CASE ProgramCrc
        BY <2>6, <4>1, <4>3, <4>6 DEF ProgramCrc, ProgramPos, PosEntry
      <4> QED
        BY <2>6, <4>4, <4>5, <4>6
    <3>3. faults' \in 0 .. MaxFault
      BY <2>6, BoundAssumption DEF ProgramHead, ProgramTail, ProgramCrc, ProgramPos
    <3> QED
      BY <2>6, <3>2, <3>3 DEF ProgramHead, ProgramTail, ProgramCrc, ProgramPos
  <2>7. CASE CheckPos
    <3>1. pos' \in PosType
      BY <2>7, BlankType DEF CheckPos
    <3>2. logPositionCnt' \in 0 .. NPos - 1
      BY <2>7, BoundAssumption DEF CheckPos
    <3> QED
      BY <2>7, <3>1, <3>2 DEF CheckPos, counters
  <2>8. CASE RingLogNext
    BY <2>8, SuccType DEF RingLogNext, counters
  <2>9. CASE LoadNextLog
    BY <2>9, LoadedTail DEF LoadNextLog, counters
  <2>10. CASE RingLogReset
    <3>1. 0 \in Slot
      BY RingSize DEF Slot
    <3> QED
      BY <2>10, <3>1, BlankType DEF RingLogReset, counters
  <2>11. CASE Restart
    <3>1. head' \in Slot /\ tail' \in Slot /\ logPositionCnt' \in 0 .. NPos - 1
      BY <2>11, RecoveredType DEF Restart
    <3>2. data' \in DataType
      BY <2>11 DEF Restart
    <3>3. logRecord' \in {Blank} \cup Records
      BY <2>11, <3>1, <3>2, EndLogType DEF Restart
    <3>4. 0 \in 0 .. MaxTry - 1 /\ 0 \in 0 .. RecSize
          /\ restarts' \in 0 .. MaxRestart
      BY <2>11, BoundAssumption, SizeAssumption DEF Restart
    <3> QED
      BY <2>11, <3>1, <3>2, <3>3, <3>4 DEF Restart
  <2>12. CASE UNCHANGED vars
    BY <2>12 DEF vars, ram, counters
  <2> QED
    BY <2>1, <2>2, <2>3, <2>4, <2>5, <2>6, <2>7, <2>8, <2>9, <2>10, <2>11,
       <2>12 DEF Next, Step, Call
<1> QED
  BY <1>1, <1>2, PTL DEF Spec
-----------------------------------------------------------------------------
(* Where a slot starts, as bounds on its sector.                           *)
LEMMA SectorBounds ==
  ASSUME NEW s \in Slot
  PROVE  /\ s * RecSize \in Nat
         /\ SectorOf(s) * SectorSize <= s * RecSize
         /\ s * RecSize < (SectorOf(s) + 1) * SectorSize
<1>1. s * RecSize \in Nat
  BY SizeAssumption DEF Slot
<1>2. SectorSize \in Nat \ {0}
  BY SizeAssumption
<1>3. LET a == s * RecSize
      IN (a \div SectorSize) * SectorSize <= a
         /\ a < (a \div SectorSize + 1) * SectorSize
  BY <1>1, <1>2, Division
<1> QED
  BY <1>1, <1>3 DEF SectorOf

(* Sector 1 starts a slot: a record never fills more than a third of the   *)
(* log, so the first slot past sector 0 is not slot 0 again.               *)
LEMMA SecondSector == FirstSlotIn(1) # 0
<1> DEFINE q == SectorSize \div RecSize
           f == IF SectorSize % RecSize # 0 THEN q + 1 ELSE q
<1>1. q \in Nat /\ q * RecSize <= SectorSize
  BY Division, SizeAssumption
<1>2. 1 <= q
  BY QuotientBounds, SizeAssumption
<1>3. (q + 2) * RecSize <= DataSize
  <2> HIDE DEF q
  <2>1. (q + 2) * RecSize = q * RecSize + 2 * RecSize
    BY <1>1, SizeAssumption
  <2> QED
    BY <1>1, <2>1, SizeAssumption
<1>4. q + 2 <= N
  <2> HIDE DEF q
  <2> QED
    BY <1>1, <1>3, QuotientBounds, SizeAssumption DEF N
<1>5. 1 * SectorSize = SectorSize
  BY SizeAssumption
<1>6. FirstSlotIn(1) = IF f >= N THEN 0 ELSE f
  BY <1>5 DEF FirstSlotIn
<1> QED
  BY <1>1, <1>2, <1>4, <1>6, RingSize

(* The tail after DB_SaveLog has made room behind head h.                  *)
PushedTail(h, t) ==
  IF SectorOf(Succ(h)) = SectorOf(t) /\ Succ(h) <= t
  THEN FirstSlotIn(SectorOf(Succ(h)) + 1) ELSE t

(* It is a slot, and not the one the head moves to.                        *)
LEMMA PushedTailApart ==
  ASSUME NEW h \in Slot, NEW t \in Slot
  PROVE  PushedTail(h, t) \in Slot /\ PushedTail(h, t) # Succ(h)
<1> DEFINE n == Succ(h)
           k == SectorOf(n)
           T == PushedTail(h, t)
<1>1. n \in Slot /\ k \in Nat
  BY SuccType, SectorType
<1>2. CASE ~(k = SectorOf(t) /\ n <= t)
  <2>1. T = t
    BY <1>2 DEF PushedTail
  <2>2. t # n
    BY <1>1, <1>2, RingSize DEF Slot
  <2> QED
    BY <2>1, <2>2
<1>3. CASE k = SectorOf(t) /\ n <= t
  <2>1. T = FirstSlotIn(k + 1)
    BY <1>3 DEF PushedTail
  <2>2. T \in Slot
    BY <1>1, <2>1, FirstSlot
  <2>3. CASE T # 0
    <3>1. (k + 1) * SectorSize <= T * RecSize
      BY <1>1, <2>1, <2>3, FirstSlot
    <3>2. n * RecSize < (k + 1) * SectorSize /\ n * RecSize \in Nat
      BY <1>1, SectorBounds
    <3> HIDE DEF T, n, k
    <3> QED
      BY <2>2, <3>1, <3>2, <1>1, SizeAssumption DEF Slot, T, n
  <2>4. CASE T = 0
    <3>1. n # 0
      <4> SUFFICES ASSUME n = 0 PROVE FALSE
        OBVIOUS
      <4>1. 0 * RecSize = 0 /\ 0 \div SectorSize = 0
        BY SizeAssumption
      <4>2. k = 0
        BY <4>1 DEF SectorOf
      <4> QED
        BY <2>1, <2>4, <4>2, SecondSector
    <3> QED
      BY <2>2, <2>4, <3>1
  <2> QED
    BY <2>3, <2>4
<1> QED
  BY <1>2, <1>3

(* Once room is made, and until the record is checked, the next slot is    *)
(* not the tail.                                                           *)
RoomInv == pc \in {"chunk", "check"} => Succ(head) # tail

(* Each step leaves the slot after the head free during a write.           *)
LEMMA RoomStep ==
  ASSUME TypeOK, RoomInv, [Next]_vars
  PROVE  RoomInv'
<1>1. CASE MakeRoom
  <2>1. tail' = PushedTail(head, tail) /\ head' = head
    BY <1>1 DEF MakeRoom, PushedTail
  <2>2. PushedTail(head, tail) # Succ(head)
    BY PushedTailApart DEF TypeOK
  <2> QED
    BY <2>1, <2>2 DEF RoomInv
<1>2. CASE ProgramChunk
  BY <1>2 DEF ProgramChunk, RoomInv
<1>3. CASE UNCHANGED vars
  BY <1>3 DEF vars, ram, RoomInv
<1>4. CASE pc' \notin {"chunk", "check"}
  BY <1>4 DEF RoomInv
<1>5. MakeRoom \/ ProgramChunk \/ UNCHANGED vars \/ pc' \notin {"chunk", "check"}
  BY DEF Next, Step, Call, Restart, SaveLog, GiveUp, CheckRecord, ProgramHead,
         ProgramTail, ProgramCrc, ProgramPos, CheckPos, RingLogNext,
         LoadNextLog, RingLogReset
<1> QED
  BY <1>1, <1>2, <1>3, <1>4, <1>5

(* The property of the same name, for every size of log: no step of        *)
(* DB_SaveLog makes a ring with records in it look empty.                  *)
THEOREM HeadApart == Spec => HeadNeverMeetsTail
<1>1. Init => RoomInv
  BY DEF Init, RoomInv
<1>2. TypeOK /\ RoomInv /\ [Next]_vars => RoomInv'
  BY RoomStep
<1>3. TypeOK /\ RoomInv /\ [Next]_vars
        => [pc = "check" /\ pc' # "idle" => head' # tail']_vars
  <2> SUFFICES ASSUME RoomInv, Next, pc = "check", pc' # "idle"
               PROVE  head' # tail'
    BY DEF vars
  <2>1. CheckRecord
    BY DEF Next, Step, Call, Restart, SaveLog, GiveUp, MakeRoom, ProgramChunk,
           ProgramHead, ProgramTail, ProgramCrc, ProgramPos, CheckPos,
           RingLogNext, LoadNextLog, RingLogReset
  <2> QED
    BY <2>1 DEF CheckRecord, RoomInv
<1> QED
  BY <1>1, <1>2, <1>3, TypeCorrect, PTL DEF Spec, HeadNeverMeetsTail
-----------------------------------------------------------------------------
(* A later slot starts in the same sector or in a later one.               *)
LEMMA SectorMonotone ==
  ASSUME NEW r \in Slot, NEW s \in Slot, r <= s
  PROVE  SectorOf(r) <= SectorOf(s)
<1>1. r * RecSize <= s * RecSize
  BY TimesMonotone, SizeAssumption DEF Slot
<1>2. /\ SectorOf(r) \in Nat /\ s * RecSize \in Nat /\ r * RecSize \in Nat
      /\ SectorOf(r) * SectorSize <= r * RecSize
      /\ SectorOf(r) * SectorSize \in Nat
  BY SectorType, SectorBounds, SizeAssumption
<1>3. SectorOf(r) * SectorSize <= s * RecSize
  BY <1>1, <1>2
<1> QED
  BY <1>2, <1>3, QuotientBounds, SizeAssumption DEF SectorOf

(* A tail ahead of the head starts past the sector that the head enters.   *)
LEMMA PushedTailStart ==
  ASSUME NEW h \in Slot, NEW t \in Slot, Succ(h) <= PushedTail(h, t)
  PROVE  (SectorOf(Succ(h)) + 1) * SectorSize <= PushedTail(h, t) * RecSize
<1> DEFINE n == Succ(h)
           k == SectorOf(n)
           T == PushedTail(h, t)
<1>1. n \in Slot /\ k \in Nat /\ SectorOf(t) \in Nat
  BY SuccType, SectorType
<1>2. T \in Slot /\ n < T
  <2>1. T \in Slot /\ T # n
    BY PushedTailApart
  <2> HIDE DEF T, n
  <2> QED
    BY <1>1, <2>1, RingSize DEF Slot, T, n
<1>3. CASE ~(k = SectorOf(t) /\ n <= t)
  <2>1. T = t
    BY <1>3 DEF PushedTail
  <2>2. k <= SectorOf(t) /\ k # SectorOf(t)
    <3>1. n <= t
      BY <1>2, <2>1 DEF Slot
    <3> QED
      BY <1>1, <1>3, <3>1, SectorMonotone
  <2>3. k + 1 <= SectorOf(t)
    BY <1>1, <2>2
  <2>4. (k + 1) * SectorSize <= SectorOf(t) * SectorSize
    BY <1>1, <2>3, TimesMonotone, SizeAssumption
  <2>5. SectorOf(t) * SectorSize <= t * RecSize
    BY SectorBounds
  <2>6. /\ (k + 1) * SectorSize \in Nat /\ SectorOf(t) * SectorSize \in Nat
        /\ t * RecSize \in Nat
    BY <1>1, SectorBounds, SizeAssumption
  <2> HIDE DEF k
  <2>7. (k + 1) * SectorSize <= t * RecSize
    BY <2>4, <2>5, <2>6
  <2> QED
    BY <2>1, <2>7 DEF k
<1>4. CASE k = SectorOf(t) /\ n <= t
  <2>1. T = FirstSlotIn(k + 1)
    BY <1>4 DEF PushedTail
  <2>2. T # 0
    BY <1>1, <1>2 DEF Slot
  <2> QED
    BY <1>1, <2>1, <2>2, FirstSlot
<1> QED
  BY <1>3, <1>4

(* The chunks of a slot that starts past sector k, or ends before it, do   *)
(* not lie in it.                                                          *)
LEMMA SlotOutside ==
  ASSUME NEW s \in Slot, NEW j \in 0 .. RecSize - 1, NEW k \in Nat,
         \/ (k + 1) * SectorSize <= s * RecSize
         \/ (s + 1) * RecSize <= k * SectorSize
  PROVE  (s * RecSize + j) \div SectorSize # k
<1> DEFINE a == s * RecSize + j
<1>1. /\ a \in Nat /\ s * RecSize \in Nat /\ s * RecSize <= a
      /\ (s + 1) * RecSize \in Nat /\ a < (s + 1) * RecSize
  BY SizeAssumption DEF Slot
<1>2. /\ SectorSize \in Nat \ {0}
      /\ (k + 1) * SectorSize \in Nat /\ k * SectorSize \in Nat
  BY SizeAssumption
<1> HIDE DEF a
<1>3. CASE (k + 1) * SectorSize <= s * RecSize
  <2>1. (k + 1) * SectorSize <= a
    BY <1>1, <1>2, <1>3
  <2>2. k + 1 <= a \div SectorSize
    BY <1>1, <1>2, <2>1, QuotientBounds
  <2> QED
    BY <1>1, <1>2, <2>2, Division DEF a
<1>4. CASE (s + 1) * RecSize <= k * SectorSize
  <2>1. a < k * SectorSize
    BY <1>1, <1>2, <1>4
  <2>2. a \div SectorSize < k
    BY <1>1, <1>2, <2>1, QuotientBounds
  <2> QED
    BY <1>1, <1>2, <2>2, Division DEF a
<1> QED
  BY <1>3, <1>4

(* No chunk of a slot that stays in the ring lies in the sector that is    *)
(* erased, even when the slot lies across two sectors.                     *)
LEMMA ErasedApart ==
  ASSUME NEW h \in Slot, NEW t \in Slot,
         SectorOf(Succ(h)) # SectorOf(h),
         NEW s \in Window(PushedTail(h, t), h), NEW j \in 0 .. RecSize - 1
  PROVE  (s * RecSize + j) \div SectorSize # SectorOf(Succ(h))
<1> DEFINE n == Succ(h)
           k == SectorOf(n)
           T == PushedTail(h, t)
<1>1. n \in Slot /\ k \in Nat /\ SectorOf(h) \in Nat /\ T \in Slot
  BY SuccType, SectorType, PushedTailApart
<1>2. s \in Slot /\ s # h /\ (s < h \/ T <= s) /\ (h < T \/ T <= s \/ s < h)
  BY <1>1, RingSize DEF Window, Slot
<1>3. CASE n <= T /\ T <= s
  <2>1. (k + 1) * SectorSize <= T * RecSize
    BY <1>3, PushedTailStart
  <2>2. T * RecSize <= s * RecSize
    BY <1>1, <1>2, <1>3, TimesMonotone, SizeAssumption DEF Slot
  <2>3. /\ (k + 1) * SectorSize \in Nat /\ T * RecSize \in Nat
        /\ s * RecSize \in Nat
    BY <1>1, <1>2, SizeAssumption DEF Slot
  <2> HIDE DEF T, k
  <2>4. (k + 1) * SectorSize <= s * RecSize
    BY <2>1, <2>2, <2>3
  <2> QED
    BY <1>1, <1>2, <2>4, SlotOutside DEF k
<1>4. CASE n = h + 1 /\ s < h
  <2>1. SectorOf(h) <= k
    BY <1>1, <1>4, SectorMonotone DEF Slot
  <2>2. SectorOf(h) + 1 <= k
    BY <1>1, <2>1
  <2>3. (SectorOf(h) + 1) * SectorSize <= k * SectorSize
    BY <1>1, <2>2, TimesMonotone, SizeAssumption
  <2>4. h * RecSize < (SectorOf(h) + 1) * SectorSize /\ h * RecSize \in Nat
    BY SectorBounds
  <2>5. (s + 1) * RecSize <= h * RecSize
    BY <1>2, <1>4, TimesMonotone, SizeAssumption DEF Slot
  <2>6. /\ (SectorOf(h) + 1) * SectorSize \in Nat /\ k * SectorSize \in Nat
        /\ (s + 1) * RecSize \in Nat
    BY <1>1, <1>2, SizeAssumption DEF Slot
  <2> HIDE DEF k
  <2>7. (s + 1) * RecSize <= k * SectorSize
    BY <2>3, <2>4, <2>5, <2>6
  <2> QED
    BY <1>1, <1>2, <2>7, SlotOutside DEF k
<1>5. (n <= T /\ T <= s) \/ (n = h + 1 /\ s < h)
  <2>1. CASE h + 1 >= N
    <3>1. n = 0 /\ h = N - 1
      BY <2>1, RingSize DEF Succ, Slot
    <3>2. T <= s
      BY <1>1, <3>1, RingSize DEF Window, Slot
    <3> QED
      BY <1>1, <3>1, <3>2 DEF Slot
  <2>2. CASE h + 1 < N
    <3>1. n = h + 1
      BY <2>2, RingSize DEF Succ, Slot
    <3> HIDE DEF T
    <3>2. s < h \/ (h < T /\ T <= s)
      BY <1>1, RingSize DEF Window, Slot, T
    <3> QED
      BY <1>1, <3>1, <3>2 DEF Slot
  <2> QED
    BY <2>1, <2>2, RingSize DEF Slot
<1> QED
  BY <1>3, <1>4, <1>5

(* The property of the same name, for every size: making room for the next *)
(* record does not touch the records that stay in the ring.                *)
THEOREM RoomSafe == Spec => RoomKeepsPending
<1>1. TypeOK /\ [Next]_vars
        => [pc = "try" => \A s \in Window(tail', head) : SameSlot(s)]_vars
  <2> SUFFICES ASSUME TypeOK, Next, pc = "try", NEW s \in Window(tail', head),
                      NEW j \in 0 .. RecSize - 1
               PROVE  data'[s * RecSize + j] = data[s * RecSize + j]
    BY DEF SameSlot
  <2>1. CASE MakeRoom
    <3>1. tail' = PushedTail(head, tail)
      BY <2>1 DEF MakeRoom, PushedTail
    <3>2. CASE SectorOf(Succ(head)) = SectorOf(head)
      BY <2>1, <3>2 DEF MakeRoom
    <3>3. CASE SectorOf(Succ(head)) # SectorOf(head)
      <4>1. data' = EraseSector(data, SectorOf(Succ(head)))
        BY <2>1, <3>3 DEF MakeRoom
      <4>2. s \in Slot
        <5>1. tail' \in Slot /\ head \in Slot
          BY <3>1, PushedTailApart DEF TypeOK
        <5> QED
          BY <5>1, RingSize DEF Window, Slot
      <4>3. s * RecSize + j \in DOMAIN data
        BY <4>2, SlotCells DEF TypeOK
      <4>4. (s * RecSize + j) \div SectorSize # SectorOf(Succ(head))
        BY <3>1, <3>3, ErasedApart DEF TypeOK
      <4> QED
        BY <4>1, <4>3, <4>4 DEF EraseSector
    <3> QED
      BY <3>2, <3>3
  <2>2. CASE data' = data
    BY <2>2
  <2>3. MakeRoom \/ data' = data
    BY DEF Next, Step, Call, Restart, SaveLog, GiveUp, CheckRecord, ProgramChunk,
           ProgramHead, ProgramTail, ProgramCrc, ProgramPos, CheckPos,
           RingLogNext, LoadNextLog, RingLogReset
  <2> QED
    BY <2>1, <2>2, <2>3
<1> QED
  BY <1>1, TypeCorrect, PTL DEF Spec, RoomKeepsPending
-----------------------------------------------------------------------------
(* Slots that start in the same sector are fewer than SlotsPerSector apart.*)
LEMMA SameSectorClose ==
  ASSUME NEW r \in Slot, NEW s \in Slot, r <= s, SectorOf(r) = SectorOf(s)
  PROVE  s - r <= SlotsPerSector - 1
<1> DEFINE k == SectorOf(r)
           d == s - r
<1>1. d \in Nat /\ k \in Nat
  BY SectorType DEF Slot
<1>2. d * RecSize = s * RecSize - r * RecSize
  BY SizeAssumption DEF Slot
<1>3. /\ k * SectorSize <= r * RecSize /\ s * RecSize < (k + 1) * SectorSize
      /\ r * RecSize \in Nat /\ s * RecSize \in Nat
  BY SectorBounds
<1>4. (k + 1) * SectorSize = k * SectorSize + SectorSize /\ k * SectorSize \in Nat
  BY <1>1, SizeAssumption
<1>5. d * RecSize \in Nat /\ (d + 1) * RecSize = d * RecSize + RecSize
  BY <1>1, SizeAssumption
<1> HIDE DEF d, k
<1>6. (d + 1) * RecSize <= SectorSize + RecSize - 1
  BY <1>2, <1>3, <1>4, <1>5, SizeAssumption
<1>7. d + 1 <= SlotsPerSector
  BY <1>1, <1>6, QuotientBounds, SizeAssumption DEF SlotsPerSector
<1>8. SlotsPerSector \in Nat
  BY Division, SizeAssumption DEF SlotsPerSector
<1>9. d <= SlotsPerSector - 1
  BY <1>1, <1>7, <1>8
<1> QED
  BY <1>9 DEF d

(* The property of the same name, for every size: the oldest records are   *)
(* given up only when less than a sector of the ring is free.              *)
THEOREM EvictsWhenFull == Spec => EvictsOnlyWhenFull
<1>1. TypeOK /\ [Next]_vars
        => [pc = "try" /\ pc' = "chunk" /\ tail' # tail =>
              Fill >= N - SlotsPerSector]_vars
  <2> SUFFICES ASSUME TypeOK, Next, pc = "try", pc' = "chunk", tail' # tail
               PROVE  Fill >= N - SlotsPerSector
    OBVIOUS
  <2>1. MakeRoom
    BY DEF Next, Step, Call, Restart, SaveLog, GiveUp, CheckRecord, ProgramChunk,
           ProgramHead, ProgramTail, ProgramCrc, ProgramPos, CheckPos,
           RingLogNext, LoadNextLog, RingLogReset
  <2>2. SectorOf(Succ(head)) = SectorOf(tail) /\ Succ(head) <= tail
    BY <2>1 DEF MakeRoom
  <2>3. Succ(head) \in Slot /\ head \in Slot /\ tail \in Slot
    BY SuccType DEF TypeOK
  <2>4. tail - Succ(head) <= SlotsPerSector - 1
    BY <2>2, <2>3, SameSectorClose
  <2>5. SlotsPerSector \in Nat
    BY Division, SizeAssumption DEF SlotsPerSector
  <2>6. Fill = N - 1 - (tail - Succ(head))
    <3>1. head - tail + N \in Nat /\ N \in Nat \ {0}
      BY <2>3, RingSize DEF Slot
    <3>2. CASE head + 1 >= N
      <4>1. Succ(head) = 0 /\ head = N - 1
        BY <2>3, <3>2, RingSize DEF Succ, Slot
      <4>2. (N - 1 - tail + N) % N = N - 1 - tail
        BY <2>3, RingSize DEF Slot
      <4> QED
        BY <4>1, <4>2, <2>3, RingSize DEF Fill, Slot
    <3>3. CASE head + 1 < N
      <4>1. Succ(head) = head + 1
        BY <2>3, <3>3, RingSize DEF Succ, Slot
      <4>2. head - tail + N \in 0 .. N - 1
        BY <2>2, <2>3, <4>1, RingSize DEF Slot
      <4>3. (head - tail + N) % N = head - tail + N
        BY <4>2, RingSize
      <4> QED
        BY <4>1, <4>3, <2>3, RingSize DEF Fill, Slot
    <3> QED
      BY <3>2, <3>3, <2>3, RingSize DEF Slot
  <2> QED
    BY <2>3, <2>4, <2>5, <2>6, RingSize DEF Slot
<1> QED
  BY <1>1, TypeCorrect, PTL DEF Spec, EvictsOnlyWhenFull
-----------------------------------------------------------------------------
(* A tail ahead of the head does not start in the head's sector.           *)
TailClear(h, t) == h < t => SectorOf(h) # SectorOf(t)

(* A tail that lies clear ahead starts after the head's sector.            *)
LEMMA ClearStart ==
  ASSUME NEW h \in Slot, NEW t \in Slot, h < t, TailClear(h, t)
  PROVE  /\ SectorOf(h) < SectorOf(t)
         /\ (SectorOf(h) + 1) * SectorSize <= t * RecSize
<1>1. /\ SectorOf(h) \in Nat /\ SectorOf(t) \in Nat
      /\ SectorOf(h) <= SectorOf(t) /\ SectorOf(h) # SectorOf(t)
  BY SectorType, SectorMonotone DEF TailClear, Slot
<1>2. SectorOf(h) + 1 <= SectorOf(t)
  BY <1>1
<1>3. (SectorOf(h) + 1) * SectorSize <= SectorOf(t) * SectorSize
  BY <1>1, <1>2, TimesMonotone, SizeAssumption
<1>4. /\ SectorOf(t) * SectorSize <= t * RecSize /\ t * RecSize \in Nat
      /\ SectorOf(t) * SectorSize \in Nat /\ (SectorOf(h) + 1) * SectorSize \in Nat
  BY <1>1, SectorBounds, SizeAssumption
<1> QED
  BY <1>1, <1>3, <1>4

(* It stays so when the tail moves towards the head.                       *)
LEMMA ClearForward ==
  ASSUME NEW h \in Slot, NEW t \in Slot, TailClear(h, t),
         NEW u \in Window(t, h) \cup {h}
  PROVE  TailClear(h, u)
<1> SUFFICES ASSUME h < u PROVE SectorOf(h) # SectorOf(u)
  BY DEF TailClear
<1>1. u \in Slot
  BY WindowType
<1>2. h < t /\ t <= u
  BY <1>1, RingSize DEF Window, Slot
<1>3. SectorOf(h) < SectorOf(t) /\ SectorOf(t) <= SectorOf(u)
  BY <1>1, <1>2, ClearStart, SectorMonotone
<1> QED
  BY <1>1, <1>3, SectorType

(* Making room keeps the tail clear of the head, and of where it goes next.*)
LEMMA PushedTailClear ==
  ASSUME NEW h \in Slot, NEW t \in Slot
  PROVE  /\ TailClear(h, PushedTail(h, t))
         /\ TailClear(Succ(h), PushedTail(h, t))
<1> DEFINE n == Succ(h)
           T == PushedTail(h, t)
<1>1. n \in Slot /\ T \in Slot
  BY SuccType, PushedTailApart
<1>2. n <= T => SectorOf(n) < SectorOf(T)
  <2> SUFFICES ASSUME n <= T PROVE SectorOf(n) < SectorOf(T)
    OBVIOUS
  <2>1. (SectorOf(n) + 1) * SectorSize <= T * RecSize
    BY PushedTailStart
  <2>2. /\ SectorOf(n) \in Nat /\ SectorOf(T) \in Nat
        /\ T * RecSize \in Nat /\ SectorSize \in Nat \ {0}
    BY <1>1, SectorType, SizeAssumption DEF Slot
  <2>3. SectorOf(n) + 1 <= SectorOf(T)
    <3> HIDE DEF n, T
    <3> QED
      BY <2>1, <2>2, QuotientBounds DEF SectorOf
  <2> HIDE DEF n, T
  <2> QED
    BY <2>2, <2>3
<1>3. TailClear(n, T)
  <2> HIDE DEF n, T
  <2> QED
    BY <1>1, <1>2, SectorType DEF TailClear, Slot
<1>4. TailClear(h, T)
  <2> SUFFICES ASSUME h < T PROVE SectorOf(h) # SectorOf(T)
    BY DEF TailClear
  <2>1. n = h + 1 /\ h < n
    <3> HIDE DEF T
    <3> QED
      BY <1>1, RingSize DEF Succ, Slot
  <2>2. n <= T
    <3> HIDE DEF n, T
    <3> QED
      BY <1>1, <2>1 DEF Slot
  <2>3. SectorOf(h) <= SectorOf(n)
    BY <1>1, <2>1, SectorMonotone DEF Slot
  <2>4. SectorOf(h) \in Nat /\ SectorOf(n) \in Nat /\ SectorOf(T) \in Nat
    BY <1>1, SectorType
  <2> HIDE DEF n, T
  <2> QED
    BY <1>2, <2>2, <2>3, <2>4
<1> QED
  BY <1>3, <1>4

(* The sector that SST25_Write erases on its own, when a chunk of the      *)
(* record at the head opens it, holds no chunk of a slot of the ring.      *)
LEMMA ChunkApart ==
  ASSUME NEW h \in Slot, NEW t \in Slot,
         TailClear(h, t), Succ(h) # t, TailClear(Succ(h), t),
         NEW c \in 0 .. RecSize - 1, (h * RecSize + c) % SectorSize = 0,
         NEW s \in Window(t, h), NEW j \in 0 .. RecSize - 1
  PROVE  (s * RecSize + j) \div SectorSize # (h * RecSize + c) \div SectorSize
<1> DEFINE a == h * RecSize + c
           k == a \div SectorSize
<1>0. a \in Nat /\ h * RecSize \in Nat /\ h * RecSize <= a
      /\ SectorSize \in Nat \ {0} /\ a % SectorSize = 0
  BY SizeAssumption DEF Slot
<1>1. /\ a \in Nat /\ k \in Nat
      /\ h * RecSize \in Nat /\ h * RecSize <= a
  <2> HIDE DEF a
  <2> QED
    BY <1>0, Division
<1>2. k * SectorSize = a
  <2> HIDE DEF a
  <2>1. a = SectorSize * (a \div SectorSize) + (a % SectorSize)
    BY <1>0, Division
  <2> QED
    BY <1>0, <1>1, <2>1
<1>3. s \in Slot /\ (s < h \/ (h < t /\ t <= s))
  BY WindowType, RingSize DEF Window, Slot
<1>4. CASE s < h
  <2>1. (s + 1) * RecSize <= h * RecSize
    BY <1>3, <1>4, TimesMonotone, SizeAssumption DEF Slot
  <2>2. (s + 1) * RecSize \in Nat
    BY <1>3, SizeAssumption DEF Slot
  <2> HIDE DEF a, k
  <2>3. (s + 1) * RecSize <= k * SectorSize
    BY <1>1, <1>2, <2>1, <2>2
  <2> QED
    BY <1>1, <1>3, <2>3, SlotOutside DEF k, a
<1>5. CASE h < t /\ t <= s
  <2>0. t * RecSize <= s * RecSize /\ t * RecSize \in Nat /\ s * RecSize \in Nat
    BY <1>3, <1>5, TimesMonotone, SizeAssumption DEF Slot
  <2>1. (k + 1) * SectorSize <= t * RecSize
    <3>1. CASE c = 0
      <4>1. k = SectorOf(h)
        BY <3>1, SizeAssumption DEF SectorOf, Slot
      <4> QED
        BY <1>5, <4>1, ClearStart
    <3>2. CASE c # 0
      <4> DEFINE n == Succ(h)
      <4>1. n = h + 1 /\ n \in Slot /\ n < t
        BY <1>5, RingSize DEF Succ, Slot
      <4>2. n * RecSize = h * RecSize + RecSize
        BY <4>1, SizeAssumption DEF Slot
      <4>3. (k + 1) * SectorSize = k * SectorSize + SectorSize
        BY <1>1, SizeAssumption
      <4>4. SectorOf(n) = k
        <5> HIDE DEF k, a, n
        <5>1. n * RecSize \in Nat /\ SectorSize \in Nat \ {0}
          BY <4>2, <1>1, SizeAssumption
        <5>2. k * SectorSize <= n * RecSize /\ n * RecSize < (k + 1) * SectorSize
          BY <1>1, <1>2, <4>2, <4>3, <3>2, SizeAssumption DEF a
        <5>3. /\ k <= (n * RecSize) \div SectorSize
              /\ (n * RecSize) \div SectorSize < k + 1
          BY <1>1, <5>1, <5>2, QuotientBounds
        <5>4. (n * RecSize) \div SectorSize \in Nat
          BY <5>1, Division
        <5> QED
          BY <1>1, <5>3, <5>4 DEF SectorOf
      <4> QED
        BY <4>1, <4>4, ClearStart
    <3> QED
      BY <3>1, <3>2
  <2>2. (k + 1) * SectorSize \in Nat
    BY <1>1, SizeAssumption
  <2> HIDE DEF k, a
  <2>3. (k + 1) * SectorSize <= s * RecSize
    BY <2>0, <2>1, <2>2
  <2> QED
    BY <1>1, <1>3, <2>3, SlotOutside DEF k, a
<1> QED
  BY <1>3, <1>4, <1>5
-----------------------------------------------------------------------------
(* During a write the tail is clear of the head, and of where the head     *)
(* goes next; until a second restart it is clear of the head at all times. *)
ClearInv ==
  /\ restarts <= 1 => TailClear(head, tail)
  /\ pc \in {"chunk", "check"} =>
       TailClear(head, tail) /\ TailClear(Succ(head), tail)

(* What is in the position sector before the first restart: above the      *)
(* entry to write nothing, in it at most the ring's indices, and below it  *)
(* a good entry or nothing.                                                *)
Programming == {"posTail", "posCrc", "posCheck"}
Saved == pos[logPositionCnt - 1]
AboveBlank == \A k \in 0 .. NPos - 1 : k > logPositionCnt => pos[k] = BlankPos
BelowSaved == \/ \A k \in 0 .. logPositionCnt - 1 : pos[k] = BlankPos
              \/ logPositionCnt > 0 /\ Good(Saved)
JournalInv ==
  restarts = 0 =>
    /\ AboveBlank /\ BelowSaved
    /\ pc \notin Programming => pos[logPositionCnt] = BlankPos
    /\ pc \in Programming =>
         /\ pos[logPositionCnt].head \in {head, Erased}
         /\ pos[logPositionCnt].tail \in {tail, Erased}
         /\ pc = "posTail" => pos[logPositionCnt].tail = Erased

Filled == restarts = 0 /\ logPositionCnt > 0 /\ Good(Saved)
SavedClearInv == Filled => TailClear(Saved.head, Saved.tail)

(* A blank journal entry is not a good one.                                *)
LEMMA BlankIsBad ==
  /\ BlankPos.head = Erased /\ BlankPos.tail = Erased
  /\ ~Good(BlankPos)
  /\ \A x \in Nat : x < N => x # Erased
BY RingSize, FieldAssumption DEF BlankPos, Good, InRange

(* Each step leaves the journal in order.                                  *)
LEMMA JournalStep ==
  ASSUME TypeOK, JournalInv, Next
  PROVE  JournalInv'
<1> SUFFICES ASSUME restarts' = 0
             PROVE  JournalInv'
  BY DEF JournalInv
<1>0. restarts = 0 /\ logPositionCnt \in 0 .. NPos - 1 /\ NPos \in Nat
  <2>1. restarts \in Nat
    BY BoundAssumption DEF TypeOK
  <2> QED
    BY <2>1, BoundAssumption DEF TypeOK, Next, Step, Call, SaveLog, GiveUp, MakeRoom, ProgramChunk,
       CheckRecord, ProgramHead, ProgramTail, ProgramCrc, ProgramPos, CheckPos,
       RingLogNext, LoadNextLog, RingLogReset, Restart, counters
<1> DEFINE c == logPositionCnt
<1>10. ASSUME logPositionCnt' = c,
              \A k \in 0 .. NPos - 1 : k # c => pos'[k] = pos[k]
       PROVE  (AboveBlank /\ BelowSaved)'
  <2>1. AboveBlank /\ BelowSaved
    BY <1>0 DEF JournalInv
  <2>2. AboveBlank'
    BY <1>0, <1>10, <2>1 DEF AboveBlank
  <2>3. CASE \A k \in 0 .. c - 1 : pos[k] = BlankPos
    BY <1>0, <1>10, <2>2, <2>3 DEF BelowSaved
  <2>4. CASE c > 0 /\ Good(Saved)
    <3>1. Saved' = Saved
      <4>1. c - 1 \in 0 .. NPos - 1 /\ c - 1 # c
        BY <1>0, <2>4
      <4>2. pos'[c - 1] = pos[c - 1]
        BY <4>1, <1>10
      <4>3. Saved' = pos'[c - 1] /\ Saved = pos[c - 1]
        BY <1>10 DEF Saved
      <4> QED
        BY <4>2, <4>3
    <3> QED
      BY <1>10, <2>2, <2>4, <3>1 DEF BelowSaved, Good, InRange, Checksum, ByteSum
  <2> QED
    BY <2>1, <2>3, <2>4 DEF BelowSaved
<1>1. CASE /\ pos' = pos /\ logPositionCnt' = logPositionCnt
           /\ pc \notin Programming /\ pc' \notin Programming
  BY <1>0, <1>1, <1>10 DEF JournalInv
<1>2. ASSUME NEW field \in {"head", "tail", "crc"}, NEW value,
             NEW from, NEW to, ProgramPos(field, value, from, to)
      PROVE  /\ logPositionCnt' = c /\ head' = head /\ tail' = tail
             /\ pc = from /\ pc' = to
             /\ \A k \in 0 .. NPos - 1 : k # c => pos'[k] = pos[k]
             /\ \/ pos'[c] = [pos[c] EXCEPT ![field] = Program(@, value)]
                \/ pos'[c] = pos[c]
  <2> DEFINE sector == IF from = "posHead" /\ c = 0 THEN BlankSector ELSE pos
  <2>0. PICK p : p = sector
    OBVIOUS
  <2>1. p \in PosType /\ \A k \in 0 .. NPos - 1 : p[k] = pos[k]
    <3>1. CASE from = "posHead" /\ c = 0
      <4>1. \A k \in 0 .. NPos - 1 : pos[k] = BlankPos
        BY <1>0, <1>2, <3>1 DEF JournalInv, AboveBlank, Programming, ProgramPos
      <4> QED
        BY <4>1, <3>1, <2>0, BlankType DEF BlankSector
    <3>2. CASE ~(from = "posHead" /\ c = 0)
      BY <3>2, <2>0 DEF TypeOK, PosType
    <3> QED
      BY <3>1, <3>2
  <2>2. pos' = p \/ pos' = [p EXCEPT ![c][field] = Program(@, value)]
    BY <1>2, <2>0 DEF ProgramPos
  <2>3. DOMAIN p = 0 .. NPos - 1
    BY <2>1 DEF PosType
  <2>4. /\ \A k \in 0 .. NPos - 1 : k # c => pos'[k] = pos[k]
        /\ \/ pos'[c] = [pos[c] EXCEPT ![field] = Program(@, value)]
           \/ pos'[c] = pos[c]
    <3> HIDE DEF sector
    <3>1. CASE pos' = p
      BY <3>1, <2>1, <1>0
    <3>2. CASE pos' = [p EXCEPT ![c][field] = Program(@, value)]
      BY <3>2, <2>1, <2>3, <1>0
    <3> QED
      BY <2>2, <3>1, <3>2
  <2> QED
    BY <1>2, <2>4 DEF ProgramPos
<1>3. \A k \in 0 .. NPos - 1 : pos[k] \in PosEntry
  BY DEF TypeOK
<1>4. \A h \in Slot : Program(Erased, h) = h
  BY RingSize, FieldAssumption DEF Slot
<1>5. CASE ProgramHead
  <2>1. /\ logPositionCnt' = c /\ head' = head /\ tail' = tail
        /\ pc = "posHead" /\ pc' = "posTail"
        /\ \A k \in 0 .. NPos - 1 : k # c => pos'[k] = pos[k]
        /\ \/ pos'[c] = [pos[c] EXCEPT !["head"] = Program(@, head)]
           \/ pos'[c] = pos[c]
    BY <1>2, <1>5 DEF ProgramHead
  <2>2. pos[c] = BlankPos
    BY <1>0, <2>1 DEF JournalInv, Programming
  <2>3. pos'[c].head \in {head, Erased} /\ pos'[c].tail = Erased
    BY <2>1, <2>2, <1>4 DEF BlankPos, TypeOK
  <2> QED
    BY <1>0, <1>10, <2>1, <2>3 DEF JournalInv, Programming
<1>6. CASE ProgramTail
  <2>1. /\ logPositionCnt' = c /\ head' = head /\ tail' = tail
        /\ pc = "posTail" /\ pc' = "posCrc"
        /\ \A k \in 0 .. NPos - 1 : k # c => pos'[k] = pos[k]
        /\ \/ pos'[c] = [pos[c] EXCEPT !["tail"] = Program(@, tail)]
           \/ pos'[c] = pos[c]
    BY <1>2, <1>6 DEF ProgramTail
  <2>2. pos[c].head \in {head, Erased} /\ pos[c].tail = Erased
    BY <1>0, <2>1 DEF JournalInv, Programming
  <2>3. pos'[c].head \in {head, Erased} /\ pos'[c].tail \in {tail, Erased}
    BY <2>1, <2>2, <1>0, <1>3, <1>4 DEF TypeOK, PosEntry
  <2> QED
    BY <1>0, <1>10, <2>1, <2>3 DEF JournalInv, Programming
<1>7. CASE ProgramCrc
  <2>1. /\ logPositionCnt' = c /\ head' = head /\ tail' = tail
        /\ pc = "posCrc" /\ pc' = "posCheck"
        /\ \A k \in 0 .. NPos - 1 : k # c => pos'[k] = pos[k]
        /\ \/ pos'[c] = [pos[c] EXCEPT !["crc"] = Program(@, Checksum(head, tail))]
           \/ pos'[c] = pos[c]
    BY <1>2, <1>7 DEF ProgramCrc
  <2>2. pos[c].head \in {head, Erased} /\ pos[c].tail \in {tail, Erased}
    BY <1>0, <2>1 DEF JournalInv, Programming
  <2>3. pos'[c].head \in {head, Erased} /\ pos'[c].tail \in {tail, Erased}
    BY <2>1, <2>2, <1>0, <1>3 DEF TypeOK, PosEntry
  <2> QED
    BY <1>0, <1>10, <2>1, <2>3 DEF JournalInv, Programming
<1>8. CASE CheckPos
  <2> DEFINE e == [head |-> head, tail |-> tail, crc |-> Checksum(head, tail)]
             good == pos[c] = e
             full == c + 1 >= NPos
  <2>1. /\ pos' = IF full \/ ~good THEN BlankSector ELSE pos
        /\ logPositionCnt' = IF full \/ ~good THEN 0 ELSE c + 1
        /\ pc' \notin Programming
    BY <1>8 DEF CheckPos, Programming
  <2>2. CASE full \/ ~good
    BY <1>0, <2>1, <2>2, BoundAssumption
       DEF JournalInv, BlankSector, AboveBlank, BelowSaved
  <2>3. CASE ~full /\ good
    <3>1. Good(e)
      BY RingSize DEF Good, InRange, TypeOK, Slot
    <3>2. pos' = pos /\ logPositionCnt' = c + 1 /\ c + 1 \in 0 .. NPos - 1
      BY <1>0, <2>1, <2>3, BoundAssumption
    <3>3. Saved' = e
      BY <3>2, <2>3, <1>0 DEF Saved
    <3>4. Good(Saved)'
      <4>1. Good(Saved')
        BY <3>1, <3>3
      <4> QED
        BY <4>1 DEF Good, InRange, Checksum, ByteSum
    <3> QED
      BY <1>0, <2>1, <3>2, <3>4 DEF JournalInv, AboveBlank, BelowSaved
  <2> QED
    BY <2>2, <2>3
<1>9. CASE RingLogReset
  BY <1>0, <1>9
     DEF JournalInv, RingLogReset, BlankSector, Programming, AboveBlank, BelowSaved
<1> QED
  BY <1>0, <1>1, <1>5, <1>6, <1>7, <1>8, <1>9 DEF Next, Step, Call, SaveLog, GiveUp,
     MakeRoom, ProgramChunk, CheckRecord, RingLogNext, LoadNextLog, Restart,
     counters, Programming

(* What DB_InitLog recovers at the first restart: the ring's indices if    *)
(* they are already in the entry being written, or else those of the last  *)
(* save, or else an empty ring.                                            *)
LEMMA Recovered ==
  ASSUME TypeOK, JournalInv, restarts = 0
  PROVE  \/ pc \in Programming /\ RecoveredRing = [head |-> head, tail |-> tail]
         \/ Filled /\ RecoveredRing = [head |-> Saved.head, tail |-> Saved.tail]
         \/ /\ RecoveredRing = [head |-> 0, tail |-> 0]
            /\ pc \notin Programming => pos = BlankSector
<1> DEFINE c == logPositionCnt
<1>0. c \in 0 .. NPos - 1 /\ NPos - 1 \in Nat
  BY BoundAssumption DEF TypeOK
<1>1. \A k \in 0 .. NPos - 1 : pos[k] = BlankPos => k \notin GoodEntries
  BY BlankIsBad DEF GoodEntries
<1>2. CASE GoodEntries = {}
  <2>1. RecoveredRing = [head |-> 0, tail |-> 0]
    BY <1>2 DEF RecoveredRing
  <2>2. ASSUME pc \notin Programming PROVE pos = BlankSector
    <3>1. c > 0 => ~Good(Saved)
      BY <1>0, <1>2 DEF GoodEntries, Saved
    <3>2. \A k \in 0 .. NPos - 1 : pos[k] = BlankPos
      BY <1>0, <2>2, <3>1 DEF JournalInv, AboveBlank, BelowSaved, Saved
    <3> QED
      BY <3>2 DEF BlankSector, TypeOK
  <2> QED
    BY <2>1, <2>2
<1>3. CASE GoodEntries # {}
  <2> DEFINE m == Max(GoodEntries)
  <2>1. m \in GoodEntries /\ \A y \in GoodEntries : m >= y
    BY <1>0, <1>3, MaxExists DEF GoodEntries
  <2>2. RecoveredRing = [head |-> pos[m].head, tail |-> pos[m].tail]
    BY <1>3 DEF RecoveredRing
  <2> HIDE DEF m
  <2>3. m \in 0 .. NPos - 1 /\ Good(pos[m]) /\ pos[m] # BlankPos
    BY <1>1, <2>1 DEF GoodEntries
  <2>4. m <= c
    BY <1>0, <2>3 DEF JournalInv, AboveBlank, BelowSaved, Saved
  <2>5. CASE m = c
    <3>1. pc \in Programming
      BY <2>3, <2>5 DEF JournalInv, AboveBlank, BelowSaved, Saved
    <3>2. pos[c].head # Erased /\ pos[c].tail # Erased
      BY <1>0, <2>3, <2>5, BlankIsBad DEF Good, InRange, TypeOK, PosEntry
    <3> QED
      BY <2>2, <2>5, <3>1, <3>2 DEF JournalInv, AboveBlank, BelowSaved, Saved
  <2>6. CASE m < c
    <3>1. c > 0 /\ Good(Saved)
      BY <1>0, <2>3, <2>6 DEF JournalInv, AboveBlank, BelowSaved, Saved
    <3>2. c - 1 \in GoodEntries
      BY <1>0, <3>1 DEF GoodEntries, Saved
    <3>3. m = c - 1
      BY <1>0, <2>1, <2>3, <2>6, <3>2
    <3> QED
      BY <2>2, <3>1, <3>3 DEF Filled, Saved
  <2> QED
    BY <1>0, <2>3, <2>4, <2>5, <2>6
<1> QED
  BY <1>2, <1>3

(* The entry of the last save stays as it is until the next one is good.   *)
LEMMA SavedStep ==
  ASSUME TypeOK, Next, Filled'
  PROVE  \/ Filled /\ Saved' = Saved /\ ~CheckPos
         \/ CheckPos /\ pc' = "idle" /\ Saved'.head = head' /\ Saved'.tail = tail'
<1> DEFINE c == logPositionCnt
<1>0. /\ c \in 0 .. NPos - 1 /\ NPos \in Nat /\ restarts \in Nat
      /\ restarts' = 0 /\ logPositionCnt' > 0 /\ Good(Saved)'
  BY BoundAssumption DEF TypeOK, Filled
<1>1. CASE CheckPos
  <2> DEFINE e == [head |-> head, tail |-> tail, crc |-> Checksum(head, tail)]
  <2>1. pos[c] = e /\ pos' = pos /\ logPositionCnt' = c + 1 /\ pc' = "idle"
        /\ head' = head /\ tail' = tail
    BY <1>0, <1>1 DEF CheckPos
  <2>2. Saved' = e
    BY <1>0, <2>1 DEF Saved
  <2> QED
    BY <1>1, <2>1, <2>2
<1>2. ASSUME ~CheckPos, restarts' = restarts, logPositionCnt' = c,
             \A k \in 0 .. NPos - 1 : k # c => pos'[k] = pos[k]
      PROVE  Filled /\ Saved' = Saved
  <2>1. c - 1 \in 0 .. NPos - 1 /\ c - 1 # c /\ c > 0
    BY <1>0, <1>2
  <2>2. Saved' = pos'[c - 1] /\ Saved = pos[c - 1]
    BY <1>2 DEF Saved
  <2>3. Saved' = Saved
    BY <1>2, <2>1, <2>2
  <2> QED
    BY <1>0, <1>2, <2>1, <2>3 DEF Filled, Good, InRange, Checksum, ByteSum
<1>3. ASSUME NEW field \in {"head", "tail", "crc"}, NEW value,
             NEW from, NEW to, ProgramPos(field, value, from, to)
      PROVE  \A k \in 0 .. NPos - 1 : k # c => pos'[k] = pos[k]
  <2>1. c > 0 /\ restarts' = restarts
    BY <1>0, <1>3 DEF ProgramPos
  <2>2. \/ pos' = [pos EXCEPT ![c][field] = Program(@, value)]
        \/ pos' = pos
    BY <1>3, <2>1 DEF ProgramPos
  <2> QED
    BY <1>0, <2>2 DEF TypeOK
<1>4. CASE ProgramHead \/ ProgramTail \/ ProgramCrc
  <2>1. restarts' = restarts /\ logPositionCnt' = c /\ ~CheckPos
    BY <1>4 DEF ProgramHead, ProgramTail, ProgramCrc, ProgramPos, CheckPos
  <2>2. \A k \in 0 .. NPos - 1 : k # c => pos'[k] = pos[k]
    BY <1>3, <1>4 DEF ProgramHead, ProgramTail, ProgramCrc
  <2> QED
    BY <1>2, <2>1, <2>2
<1>5. ~RingLogReset
  <2> SUFFICES ASSUME RingLogReset PROVE FALSE
    OBVIOUS
  <2>1. pos' = BlankSector /\ logPositionCnt' - 1 \in 0 .. NPos - 1
    BY <1>0 DEF RingLogReset
  <2>2. Saved' = BlankPos
    BY <2>1 DEF Saved, BlankSector
  <2>3. ~Good(Saved')
    BY <2>2, BlankIsBad
  <2> QED
    BY <1>0, <2>3 DEF Good, InRange, Checksum, ByteSum
<1>6. ~Restart
  BY <1>0 DEF Restart
<1>7. CASE SaveLog \/ GiveUp \/ MakeRoom \/ ProgramChunk \/ CheckRecord
           \/ RingLogNext \/ LoadNextLog
  <2>1. /\ restarts' = restarts /\ logPositionCnt' = c /\ pos' = pos
        /\ pc # "posCheck"
    BY <1>7 DEF SaveLog, GiveUp, MakeRoom, ProgramChunk, CheckRecord,
       RingLogNext, LoadNextLog, counters
  <2>2. ~CheckPos
    BY <2>1 DEF CheckPos
  <2> QED
    BY <1>2, <2>1, <2>2
<1> QED
  BY <1>1, <1>4, <1>5, <1>6, <1>7 DEF Next, Step, Call

(* Each step leaves the saved tail clear of the saved head's sector.       *)
LEMMA SavedClearStep ==
  ASSUME TypeOK, ClearInv, SavedClearInv, Next
  PROVE  SavedClearInv'
<1> SUFFICES ASSUME Filled'
             PROVE  TailClear(Saved.head, Saved.tail)'
  BY DEF SavedClearInv
<1>1. CASE Filled /\ Saved' = Saved
  <2>1. TailClear(Saved'.head, Saved'.tail)
    BY <1>1 DEF SavedClearInv
  <2> QED
    BY <2>1 DEF TailClear, SectorOf
<1>2. CASE CheckPos /\ Saved'.head = head' /\ Saved'.tail = tail'
  <2>1. TailClear(Saved'.head, Saved'.tail)
    BY <1>2 DEF ClearInv, CheckPos, Filled, counters
  <2> QED
    BY <2>1 DEF TailClear, SectorOf
<1> QED
  BY <1>1, <1>2, SavedStep

(* Each step leaves the tail clear of the head's sector.                   *)
LEMMA ClearStep ==
  ASSUME TypeOK, ClearInv, JournalInv, SavedClearInv, Next
  PROVE  ClearInv'
<1>0. head \in Slot /\ tail \in Slot /\ restarts \in Nat
  BY BoundAssumption DEF TypeOK
<1>1. CASE /\ head' = head /\ tail' = tail /\ restarts' = restarts
           /\ pc' \in {"chunk", "check"} => pc \in {"chunk", "check"}
  BY <1>1 DEF ClearInv, TailClear, SectorOf, Succ
<1>2. ASSUME NEW t \in Slot, NEW h \in Slot, restarts' <= 1 => TailClear(h, t),
             head' = h, tail' = t, pc' \notin {"chunk", "check"}
      PROVE  ClearInv'
  BY <1>2 DEF ClearInv, TailClear, SectorOf
<1>3. CASE MakeRoom
  <2>1. head' = head /\ tail' = PushedTail(head, tail)
    BY <1>3 DEF MakeRoom, PushedTail
  <2>2. /\ TailClear(head', tail') /\ TailClear(Succ(head'), tail')
    BY <1>0, <2>1, PushedTailClear
  <2> QED
    BY <2>2 DEF ClearInv, TailClear, SectorOf, Succ
<1>4. CASE CheckRecord
  <2>1. TailClear(Succ(head), tail) /\ Succ(head) \in Slot
    BY <1>0, <1>4, SuccType DEF ClearInv, CheckRecord
  <2> QED
    BY <1>0, <1>2, <1>4, <2>1 DEF CheckRecord
<1>5. CASE RingLogNext
  <2>1. Succ(tail) \in Window(tail, head) \cup {head}
    BY <1>0, <1>5, RingSize DEF RingLogNext, Succ, Window, Slot
  <2>2. restarts <= 1 => TailClear(head, Succ(tail))
    BY <1>0, <2>1, ClearForward DEF ClearInv
  <2> QED
    BY <1>0, <1>2, <1>5, <2>2, SuccType DEF RingLogNext, counters
<1>6. CASE LoadNextLog
  <2>1. restarts <= 1 => TailClear(head, tail')
    BY <1>0, <1>6, LoadedTail, ClearForward DEF ClearInv
  <2>2. pc' \notin {"chunk", "check"} /\ head' = head /\ restarts' = restarts
    BY <1>6 DEF LoadNextLog, counters
  <2> QED
    BY <2>1, <2>2 DEF ClearInv, TailClear, SectorOf
<1>7. CASE RingLogReset
  <2>1. 0 \in Slot /\ TailClear(0, 0)
    BY RingSize DEF Slot, TailClear
  <2> QED
    BY <1>2, <1>7, <2>1 DEF RingLogReset
<1>8. CASE Restart
  <2>1. restarts' <= 1 => TailClear(RecoveredRing.head, RecoveredRing.tail)
    <3> SUFFICES ASSUME restarts' <= 1
                 PROVE  TailClear(RecoveredRing.head, RecoveredRing.tail)
      OBVIOUS
    <3>1. restarts = 0 /\ restarts <= 1
      BY <1>0, <1>8 DEF Restart
    <3>2. TailClear(0, 0)
      BY DEF TailClear
    <3> QED
      BY <3>1, <3>2, Recovered DEF ClearInv, SavedClearInv
  <2>2. RecoveredRing.head \in Slot /\ RecoveredRing.tail \in Slot
    BY RecoveredType DEF TypeOK, PosType
  <2> QED
    BY <1>2, <1>8, <2>1, <2>2 DEF Restart
<1>9. CASE SaveLog \/ GiveUp \/ ProgramChunk \/ ProgramHead \/ ProgramTail
           \/ ProgramCrc \/ CheckPos
  BY <1>1, <1>9 DEF SaveLog, GiveUp, ProgramChunk, ProgramHead, ProgramTail,
     ProgramCrc, ProgramPos, CheckPos, counters
<1> QED
  BY <1>3, <1>4, <1>5, <1>6, <1>7, <1>8, <1>9 DEF Next, Step, Call

(* The ring's indices, in RAM and in the last save, over all steps.        *)
RingInv == TypeOK /\ RoomInv /\ ClearInv /\ JournalInv /\ SavedClearInv

(* An empty log meets the invariant of the ring.                           *)
LEMMA RingInit == ASSUME Init PROVE RoomInv /\ ClearInv /\ JournalInv /\ SavedClearInv
<1>1. head = 0 /\ tail = 0 /\ logPositionCnt = 0 /\ pc = "idle"
      /\ pos = BlankSector
  BY DEF Init
<1>2. 0 \in 0 .. NPos - 1
  BY BoundAssumption
<1>3. RoomInv /\ ClearInv
  BY <1>1 DEF RoomInv, ClearInv, TailClear
<1>4. JournalInv
  BY <1>1, <1>2 DEF JournalInv, AboveBlank, BelowSaved, Programming, BlankSector
<1>5. SavedClearInv
  BY <1>1 DEF SavedClearInv, Filled
<1> QED
  BY <1>3, <1>4, <1>5

(* Each step keeps the invariant of the ring.                              *)
LEMMA RingStep ==
  ASSUME RingInv, [Next]_vars, TypeOK'
  PROVE  RingInv'
<1>1. CASE Next
  BY <1>1, RoomStep, ClearStep, JournalStep, SavedClearStep DEF RingInv
<1>2. CASE UNCHANGED vars
  BY <1>2 DEF vars, ram, counters, RingInv, RoomInv, ClearInv, TailClear, SectorOf,
     Succ, JournalInv, AboveBlank, BelowSaved, SavedClearInv, Saved, Filled, Good,
     InRange, Checksum, ByteSum
<1> QED
  BY <1>1, <1>2

(* The invariant of the ring holds at all times.                           *)
LEMMA RingCorrect == Spec => []RingInv
<1>1. Init /\ TypeOK => RingInv
  BY RingInit DEF RingInv
<1>2. RingInv /\ [Next]_vars /\ TypeOK' => RingInv'
  BY RingStep
<1> QED
  BY <1>1, <1>2, TypeCorrect, PTL DEF Spec

(* A cell that neither is the one programmed nor lies in a sector erased   *)
(* with it keeps its content.                                              *)
LEMMA WriteFrame ==
  ASSUME NEW d \in DataType, NEW a \in 0 .. DataSize - 1, NEW v,
         NEW b \in 0 .. DataSize - 1, b # a,
         a % SectorSize = 0 => b \div SectorSize # a \div SectorSize
  PROVE  WriteChunk(d, a, v)[b] = d[b]
BY DEF WriteChunk, EraseSector, DataType

(* Distinct slots have no chunk in common.                                 *)
LEMMA SlotsDisjoint ==
  ASSUME NEW r \in Slot, NEW s \in Slot, r # s,
         NEW j \in 0 .. RecSize - 1, NEW k \in 0 .. RecSize - 1
  PROVE  r * RecSize + j # s * RecSize + k
<1>1. \A x, y \in Slot : x < y => x * RecSize + RecSize <= y * RecSize
  <2> SUFFICES ASSUME NEW x \in Slot, NEW y \in Slot, x < y
               PROVE  x * RecSize + RecSize <= y * RecSize
    OBVIOUS
  <2>1. (x + 1) * RecSize <= y * RecSize
    BY TimesMonotone, SizeAssumption DEF Slot
  <2> QED
    BY <2>1, SizeAssumption DEF Slot
<1>2. r * RecSize \in Nat /\ s * RecSize \in Nat
  BY SizeAssumption DEF Slot
<1>3. r < s \/ s < r
  BY RingSize DEF Slot
<1> QED
  BY <1>1, <1>2, <1>3, SizeAssumption

(* While a record is programmed, the slots of the ring stay as they were.  *)
LEMMA ChunkKeeps ==
  ASSUME RingInv, ProgramChunk,
         NEW s \in Window(tail, head), NEW j \in 0 .. RecSize - 1
  PROVE  data'[s * RecSize + j] = data[s * RecSize + j]
<1> DEFINE a == head * RecSize + i
           b == s * RecSize + j
           d == WriteChunk(data, a, logRecord)
<1>1. /\ head \in Slot /\ tail \in Slot /\ data \in DataType
      /\ i \in 0 .. RecSize - 1 /\ pc = "chunk"
  BY SizeAssumption DEF ProgramChunk, RingInv, TypeOK, DataType, Cells
<1>2. s \in Slot /\ s # head
  BY <1>1, WindowType
<1>3. a \in 0 .. DataSize - 1 /\ b \in 0 .. DataSize - 1 /\ b # a
  BY <1>1, <1>2, SlotCells, SlotsDisjoint
<1>4. a % SectorSize = 0 => b \div SectorSize # a \div SectorSize
  BY <1>1, ChunkApart DEF RingInv, RoomInv, ClearInv
<1>5. d[b] = data[b]
  BY <1>1, <1>3, <1>4, WriteFrame
<1>6. data' = d \/ data' = [d EXCEPT ![a] = Junk]
  BY DEF ProgramChunk
<1>7. d \in DataType
  BY <1>1, <1>3, WriteType DEF RingInv, TypeOK, Cells
<1> HIDE DEF a, b, d
<1>8. data'[b] = d[b]
  BY <1>3, <1>6, <1>7 DEF DataType
<1> QED
  BY <1>5, <1>8 DEF b

(* WriteKeepsPending for every size of record, sector and log and any      *)
(* number of restarts and of programs that fail: while a record is         *)
(* programmed, the records that are pending stay as they were.             *)
THEOREM WriteSafe == Spec => WriteKeepsPending
<1>1. RingInv /\ [Next]_vars
        => [pc = "chunk" /\ pc' # "idle" =>
              \A s \in Window(tail, head) : SameSlot(s)]_vars
  <2> SUFFICES ASSUME RingInv, Next, pc = "chunk", pc' # "idle"
               PROVE  \A s \in Window(tail, head) : SameSlot(s)
    OBVIOUS
  <2>1. ProgramChunk
    BY DEF Next, Step, Call, Restart, SaveLog, GiveUp, MakeRoom, CheckRecord,
           ProgramHead, ProgramTail, ProgramCrc, ProgramPos, CheckPos,
           RingLogNext, LoadNextLog, RingLogReset
  <2> QED
    BY <2>1, ChunkKeeps DEF SameSlot
<1> QED
  BY <1>1, RingCorrect, PTL DEF Spec, WriteKeepsPending
-----------------------------------------------------------------------------
Rec(s) == RecordAt(data, s)

(* A slot some of whose chunks are erased holds its record or none.        *)
LEMMA ErasedRecord ==
  ASSUME NEW d \in DataType, NEW e \in DataType, NEW s \in Slot,
         \A j \in 0 .. RecSize - 1 :
           e[s * RecSize + j] \in {d[s * RecSize + j], Blank}
  PROVE  RecordAt(e, s) \in {RecordAt(d, s), Blank}
<1> DEFINE c == e[s * RecSize]
<1>1. s * RecSize = s * RecSize + 0 /\ 0 \in 0 .. RecSize - 1
  BY SizeAssumption DEF Slot
<1>2. c \in {d[s * RecSize], Blank}
  BY <1>1
<1>3. CASE RecordAt(e, s) # Blank
  <2>1. /\ RecordAt(e, s) = c /\ c # Junk /\ c # Blank
        /\ \A j \in 0 .. RecSize - 1 : e[s * RecSize + j] = c
    BY <1>3 DEF RecordAt
  <2>2. \A j \in 0 .. RecSize - 1 : d[s * RecSize + j] = c
    BY <2>1
  <2> QED
    BY <1>2, <2>1, <2>2 DEF RecordAt
<1> QED
  BY <1>3

(* The slots of an erased sector hold none.                                *)
LEMMA ErasedUnreadable ==
  ASSUME NEW d \in DataType, NEW s \in Slot
  PROVE  ~Readable(EraseSector(d, SectorOf(s)), s)
<1>1. s * RecSize + 0 \in 0 .. DataSize - 1 /\ s * RecSize + 0 = s * RecSize
  BY SlotCells, SizeAssumption DEF Slot
<1>2. EraseSector(d, SectorOf(s))[s * RecSize] = Blank
  BY <1>1 DEF EraseSector, SectorOf, DataType
<1> QED
  BY <1>2 DEF Readable, RecordAt

(* An erasure leaves a record as it is or takes it away.                   *)
LEMMA EraseKeeps ==
  ASSUME NEW d \in DataType, NEW k \in Nat, NEW s \in Slot
  PROVE  RecordAt(EraseSector(d, k), s) \in {RecordAt(d, s), Blank}
<1>1. EraseSector(d, k) \in DataType
  BY EraseType
<1>2. \A j \in 0 .. RecSize - 1 :
        EraseSector(d, k)[s * RecSize + j] \in {d[s * RecSize + j], Blank}
  BY SlotCells DEF EraseSector, DataType
<1> QED
  BY <1>1, <1>2, ErasedRecord

(* Programming a chunk of one slot leaves the record of another or, when   *)
(* it erases a sector, none.                                               *)
LEMMA WriteKeeps ==
  ASSUME NEW d \in DataType, NEW h \in Slot, NEW c \in 0 .. RecSize - 1,
         NEW v \in Cells, NEW e,
         \/ e = WriteChunk(d, h * RecSize + c, v)
         \/ e = [WriteChunk(d, h * RecSize + c, v)
                   EXCEPT ![h * RecSize + c] = Junk],
         NEW s \in Slot, s # h
  PROVE  RecordAt(e, s) \in {RecordAt(d, s), Blank}
<1> DEFINE a == h * RecSize + c
           w == WriteChunk(d, a, v)
<1>1. a \in 0 .. DataSize - 1 /\ w \in DataType
  BY SlotCells, WriteType
<1>2. \A b \in 0 .. DataSize - 1 : b # a => w[b] \in {d[b], Blank}
  BY DEF WriteChunk, EraseSector, DataType
<1>3. \A j \in 0 .. RecSize - 1 :
        s * RecSize + j \in 0 .. DataSize - 1 /\ s * RecSize + j # a
  BY SlotCells, SlotsDisjoint
<1>4. e \in DataType /\ \A b \in 0 .. DataSize - 1 : b # a => e[b] = w[b]
  <2> HIDE DEF w, a
  <2>1. e = w \/ e = [w EXCEPT ![a] = Junk]
    BY DEF w, a
  <2> QED
    BY <1>1, <2>1 DEF DataType, Cells
<1>5. \A j \in 0 .. RecSize - 1 :
        e[s * RecSize + j] \in {d[s * RecSize + j], Blank}
  BY <1>2, <1>3, <1>4
<1> QED
  BY <1>4, <1>5, ErasedRecord

(* Every slot before FirstSlotIn(k) starts before sector k.                *)
LEMMA FirstSlotLeast ==
  ASSUME NEW k \in Nat \ {0}, NEW s \in Slot,
         FirstSlotIn(k) = 0 \/ s < FirstSlotIn(k)
  PROVE  s * RecSize < k * SectorSize
<1> DEFINE a == k * SectorSize
           q == a \div RecSize
           r == a % RecSize
           f == IF r # 0 THEN q + 1 ELSE q
<1>1. a \in Nat /\ a # 0
  BY SizeAssumption
<1>2. /\ q \in Nat /\ r \in 0 .. RecSize - 1
      /\ a = RecSize * q + r /\ RecSize * q = q * RecSize
  <2> HIDE DEF a
  <2>1. q \in Nat /\ r \in 0 .. RecSize - 1 /\ a = RecSize * q + r
    BY <1>1, Division, SizeAssumption
  <2> HIDE DEF q, r
  <2> QED
    BY <2>1, SizeAssumption
<1>3. f \in Nat /\ f # 0
  <2> HIDE DEF a, q, r
  <2> QED
    BY <1>1, <1>2, SizeAssumption
<1>4. FirstSlotIn(k) = IF f >= N THEN 0 ELSE f
  BY DEF FirstSlotIn
<1>5. s < f
  <2> HIDE DEF f
  <2> QED
    BY <1>3, <1>4, RingSize DEF Slot
<1>6. CASE r # 0
  <2>1. s <= q /\ s \in Nat
    <3> HIDE DEF q, r, a
    <3> QED
      BY <1>2, <1>5, <1>6 DEF Slot
  <2>2. s * RecSize <= q * RecSize /\ s * RecSize \in Nat /\ q * RecSize \in Nat
    BY <1>2, <2>1, TimesMonotone, SizeAssumption
  <2> HIDE DEF q, r, a
  <2>3. s * RecSize < a
    BY <1>1, <1>2, <1>6, <2>2
  <2> QED
    BY <2>3 DEF a
<1>7. CASE r = 0
  <2>1. s + 1 <= q /\ s \in Nat
    <3> HIDE DEF q, r, a
    <3> QED
      BY <1>2, <1>5, <1>7 DEF Slot
  <2>2. (s + 1) * RecSize <= q * RecSize /\ (s + 1) * RecSize = s * RecSize + RecSize
        /\ s * RecSize \in Nat /\ q * RecSize \in Nat
    BY <1>2, <2>1, TimesMonotone, SizeAssumption
  <2> HIDE DEF q, r, a
  <2>3. s * RecSize < a
    BY <1>1, <1>2, <1>7, <2>2, SizeAssumption
  <2> QED
    BY <2>3 DEF a
<1> QED
  BY <1>6, <1>7

(* Only slots of the sector that MakeRoom erases leave the ring, from its  *)
(* tail.                                                                   *)
LEMMA PushedOut ==
  ASSUME NEW h \in Slot, NEW t \in Slot, TailClear(h, t)
  PROVE  /\ Window(PushedTail(h, t), h) \subseteq Window(t, h)
         /\ \A s \in Window(t, h) \ Window(PushedTail(h, t), h) :
              /\ SectorOf(s) = SectorOf(Succ(h))
              /\ SectorOf(Succ(h)) # SectorOf(h)
<1> DEFINE n == Succ(h)
           k == SectorOf(n)
           T == PushedTail(h, t)
<1>0. /\ n \in Slot /\ k \in Nat /\ T \in Slot /\ T # n
      /\ SectorOf(t) \in Nat /\ SectorOf(h) \in Nat
  BY SuccType, SectorType, PushedTailApart
<1>1. CASE ~(k = SectorOf(t) /\ n <= t)
  BY <1>1 DEF PushedTail
<1>2. CASE k = SectorOf(t) /\ n <= t
  <2>0. T = FirstSlotIn(k + 1) /\ k + 1 \in Nat \ {0}
    BY <1>0, <1>2 DEF PushedTail
  <2>1. ASSUME NEW s \in Slot, t <= s, T = 0 \/ s < T
        PROVE  SectorOf(s) = k
    <3>1. s * RecSize < (k + 1) * SectorSize
      BY <2>0, <2>1, FirstSlotLeast
    <3>2. s * RecSize \in Nat /\ SectorSize \in Nat \ {0}
      BY SizeAssumption DEF Slot
    <3>3. SectorOf(s) < k + 1
      <4> HIDE DEF k
      <4> QED
        BY <1>0, <3>1, <3>2, QuotientBounds DEF SectorOf
    <3>4. k <= SectorOf(s)
      BY <1>2, <2>1, SectorMonotone
    <3> HIDE DEF k
    <3> QED
      BY <1>0, <3>3, <3>4, SectorType
  <2>2. T # 0 => t < T
    <3> SUFFICES ASSUME T # 0, T <= t PROVE FALSE
      BY <1>0 DEF Slot
    <3>1. (k + 1) * SectorSize <= T * RecSize
      BY <2>0, FirstSlot
    <3>2. t * RecSize < (k + 1) * SectorSize
      BY <1>2, SectorBounds
    <3>3. T * RecSize <= t * RecSize /\ T * RecSize \in Nat /\ t * RecSize \in Nat
          /\ (k + 1) * SectorSize \in Nat
      BY <1>0, TimesMonotone, SizeAssumption DEF Slot
    <3> HIDE DEF T, k
    <3> QED
      BY <3>1, <3>2, <3>3
  <2>3. CASE n = 0
    <3>1. h = N - 1 /\ 0 * RecSize = 0 /\ 0 \div SectorSize = 0
      BY <2>3, RingSize, SizeAssumption DEF Succ, Slot
    <3>2. k = 0
      BY <2>3, <3>1 DEF SectorOf
    <3>3. T # 0
      BY <2>0, <3>2, SecondSector
    <3>4. SectorOf(h) # 0
      <4> SUFFICES ASSUME SectorOf(h) = 0 PROVE FALSE
        OBVIOUS
      <4>1. T \in Slot /\ T <= h
        BY <1>0, <3>1 DEF Slot
      <4>2. 1 * SectorSize <= T * RecSize
        BY <2>0, <3>2, <3>3, FirstSlot
      <4>3. T * RecSize <= h * RecSize /\ T * RecSize \in Nat /\ h * RecSize \in Nat
        BY <4>1, TimesMonotone, SizeAssumption DEF Slot
      <4>4. h * RecSize < (0 + 1) * SectorSize
        BY SectorBounds
      <4> HIDE DEF T
      <4> QED
        BY <4>2, <4>3, <4>4, SizeAssumption
    <3>5. \A s \in Window(t, h) : s \in Slot /\ t <= s /\ s < h
      BY <3>1, RingSize DEF Window, Slot
    <3>6. \A s \in Slot : T <= s /\ s < h => s \in Window(t, h) /\ s \in Window(T, h)
      <4> HIDE DEF T
      <4> QED
        BY <1>0, <2>2, <3>1, <3>3, RingSize DEF Window, Slot
    <3>7. \A s \in Window(T, h) : s \in Slot /\ T <= s /\ s < h
      <4> HIDE DEF T
      <4> QED
        BY <1>0, <3>1, RingSize DEF Window, Slot
    <3>8. \A s \in Slot : T <= s \/ s < T
      <4> HIDE DEF T
      <4> QED
        BY <1>0 DEF Slot
    <3> HIDE DEF T, n
    <3> QED
      BY <2>1, <3>2, <3>4, <3>5, <3>6, <3>7, <3>8 DEF T, n
  <2>4. CASE n # 0
    <3>1. n = h + 1 /\ h < t
      BY <1>2, <2>4, RingSize DEF Succ, Slot
    <3>2. SectorOf(h) # k
      BY <1>2, <3>1 DEF TailClear
    <3>3. \A s \in Slot : s \in Window(t, h) <=> t <= s \/ s < h
      BY <3>1, RingSize DEF Window, Slot
    <3>4. \A s \in Slot : s \in Window(T, h) <=> (T # 0 /\ T <= s) \/ s < h
      <4> HIDE DEF T, n
      <4>1. T = 0 \/ h < T
        BY <1>0, <2>2, <3>1 DEF Slot
      <4> QED
        BY <1>0, <4>1, RingSize DEF Window, Slot
    <3>5. Window(t, h) \subseteq Slot /\ Window(T, h) \subseteq Slot
      BY <1>0, WindowType
    <3>6. \A s \in Slot : /\ T # 0 /\ T <= s => t <= s
                          /\ (T # 0 /\ T <= s) \/ T = 0 \/ s < T
      <4> HIDE DEF T
      <4> QED
        BY <1>0, <2>2 DEF Slot
    <3> HIDE DEF T, n
    <3> QED
      BY <2>1, <3>2, <3>3, <3>4, <3>5, <3>6 DEF T, n
  <2> QED
    BY <2>3, <2>4
<1> QED
  BY <1>1, <1>2

(* The ring grows by the slot at the head.                                 *)
LEMMA WindowGrows ==
  ASSUME NEW t \in Slot, NEW h \in Slot, Succ(h) # t
  PROVE  Window(t, Succ(h)) = Window(t, h) \cup {h}
BY RingSize DEF Window, Succ, Slot

(* Nothing above the entry to write next could pass for a save.            *)
AboveInv == \A k \in 0 .. NPos - 1 : k > logPositionCnt => ~InRange(pos[k])

(* An erased journal entry does not pass for one.                          *)
LEMMA BlankOutOfRange ==
  /\ ~InRange(BlankPos)
  /\ \A k \in 0 .. NPos - 1 : ~InRange(BlankSector[k])
BY RingSize, FieldAssumption DEF BlankPos, InRange, BlankSector

(* Each step leaves the journal above the entry to write next so.          *)
LEMMA AboveStep ==
  ASSUME TypeOK, AboveInv, Next
  PROVE  AboveInv'
<1> DEFINE c == logPositionCnt
<1>0. c \in 0 .. NPos - 1 /\ NPos - 1 \in Nat /\ DOMAIN pos = 0 .. NPos - 1
  BY BoundAssumption DEF TypeOK
<1>1. CASE pos' = BlankSector
  BY <1>1, BlankOutOfRange DEF AboveInv, InRange
<1>2. ASSUME logPositionCnt' \in Nat, logPositionCnt' >= c,
             \A k \in 0 .. NPos - 1 : k # c => pos'[k] = pos[k]
      PROVE  AboveInv'
  <2> SUFFICES ASSUME NEW k \in 0 .. NPos - 1, k > logPositionCnt'
               PROVE  ~InRange(pos'[k])
    BY DEF AboveInv, InRange
  <2>1. k > c /\ k # c
    BY <1>0, <1>2
  <2> QED
    BY <1>2, <2>1 DEF AboveInv
<1>3. CASE CheckPos
  <2>1. pos' = BlankSector \/ (pos' = pos /\ logPositionCnt' = c + 1)
    BY <1>3 DEF CheckPos
  <2> QED
    BY <1>0, <1>1, <1>2, <2>1
<1>4. ASSUME NEW field \in {"head", "tail", "crc"}, NEW value,
             NEW from, NEW to, ProgramPos(field, value, from, to)
      PROVE  AboveInv'
  <2> DEFINE sector == IF from = "posHead" /\ c = 0 THEN BlankSector ELSE pos
  <2>1. logPositionCnt' = c /\ (sector = pos \/ sector = BlankSector)
    BY <1>4 DEF ProgramPos
  <2>2. \/ pos' = [sector EXCEPT ![c][field] = Program(@, value)]
        \/ pos' = sector
    BY <1>4 DEF ProgramPos
  <2> HIDE DEF sector
  <2>3. \A k \in 0 .. NPos - 1 : k # c => pos'[k] = sector[k]
    <3>1. DOMAIN sector = 0 .. NPos - 1
      BY <1>0, <2>1 DEF BlankSector
    <3> QED
      BY <2>2, <3>1
  <2>4. \A k \in 0 .. NPos - 1 : k > c => ~InRange(sector[k])
    BY <2>1, BlankOutOfRange DEF AboveInv
  <2> SUFFICES ASSUME NEW k \in 0 .. NPos - 1, k > c PROVE ~InRange(pos'[k])
    BY <2>1 DEF AboveInv, InRange
  <2>5. k # c
    BY <1>0
  <2> QED
    BY <2>3, <2>4, <2>5
<1>5. CASE ProgramHead \/ ProgramTail \/ ProgramCrc
  BY <1>4, <1>5 DEF ProgramHead, ProgramTail, ProgramCrc
<1>6. CASE RingLogReset
  BY <1>1, <1>6 DEF RingLogReset
<1>7. CASE Restart
  <2>1. pos' = pos /\ logPositionCnt' = RecoveredCnt
    BY <1>7 DEF Restart
  <2> SUFFICES ASSUME NEW k \in 0 .. NPos - 1, k > RecoveredCnt, InRange(pos[k])
               PROVE  FALSE
    BY <2>1 DEF AboveInv, InRange
  <2>2. k \in InRangeEntries /\ InRangeEntries \in SUBSET (0 .. NPos - 1)
    BY DEF InRangeEntries
  <2>3. RecoveredCnt = Max(InRangeEntries)
    BY <2>2 DEF RecoveredCnt
  <2>4. RecoveredCnt \in 0 .. NPos - 1 /\ RecoveredCnt >= k
    BY <1>0, <2>2, <2>3, MaxExists
  <2> QED
    BY <2>4
<1>8. CASE SaveLog \/ GiveUp \/ MakeRoom \/ ProgramChunk \/ CheckRecord
           \/ RingLogNext \/ LoadNextLog
  <2>1. logPositionCnt' = c /\ pos' = pos
    BY <1>8 DEF SaveLog, GiveUp, MakeRoom, ProgramChunk, CheckRecord,
       RingLogNext, LoadNextLog
  <2> QED
    BY <1>0, <1>2, <2>1
<1> QED
  BY <1>3, <1>5, <1>6, <1>7, <1>8 DEF Next, Step, Call

(* The ring that a restart would find is the one just saved.               *)
LEMMA SaveIsFound ==
  ASSUME TypeOK, AboveInv, CheckPos, pc' = "idle", pos' # BlankSector
  PROVE  /\ pos' = pos /\ head' = head /\ tail' = tail
         /\ RecoveredRing = [head |-> head, tail |-> tail]
<1> DEFINE c == logPositionCnt
           e == [head |-> head, tail |-> tail, crc |-> Checksum(head, tail)]
<1>0. c \in 0 .. NPos - 1 /\ NPos - 1 \in Nat
  BY BoundAssumption DEF TypeOK
<1>1. pos' = pos /\ head' = head /\ tail' = tail /\ pos[c] = e
  BY DEF CheckPos
<1>2. head < N /\ tail < N
  BY RingSize DEF TypeOK, Slot
<1>3. c \in GoodEntries /\ GoodEntries \in SUBSET (0 .. NPos - 1)
  BY <1>0, <1>1, <1>2 DEF GoodEntries, Good, InRange
<1> DEFINE m == Max(GoodEntries)
<1>4. m \in GoodEntries /\ m >= c
  BY <1>0, <1>3, MaxExists
<1>5. ~(m > c)
  BY <1>4 DEF AboveInv, GoodEntries, Good
<1>6. m = c
  <2> HIDE DEF m
  <2> QED
    BY <1>0, <1>3, <1>4, <1>5
<1> QED
  BY <1>1, <1>3, <1>6 DEF RecoveredRing

(* Between two saves the records in the ring are those of the ring that a  *)
(* restart would find, the slot being programmed aside.                    *)
Storing == {"idle", "try", "chunk", "check"}
Writing(s) == s = head /\ pc \in {"chunk", "check"} /\ i > 0
SameRing ==
  \A s \in Slot : Readable(data, s) /\ ~Writing(s) =>
    (s \in Window(RecoveredRing.tail, RecoveredRing.head)
       <=> s \in Window(tail, head))
SavedRingInv ==
  restarts <= 1 /\ pc \in Storing /\ pos # BlankSector => SameRing

(* Each step leaves the records of the last save in the ring.              *)
LEMMA SavedRingStep ==
  ASSUME RingInv, AboveInv, SavedRingInv, Next
  PROVE  SavedRingInv'
<1> DEFINE old == RecoveredRing
<1> SUFFICES ASSUME restarts' <= 1, pc' \in Storing, pos' # BlankSector,
                    NEW s \in Slot, Readable(data', s), ~Writing(s)'
             PROVE  s \in Window(old'.tail, old'.head)
                      <=> s \in Window(tail', head')
  BY DEF SavedRingInv, SameRing, Slot, N, Window, Readable, RecordAt
<1> USE DEF Storing
<1>0. /\ TypeOK /\ head \in Slot /\ tail \in Slot /\ data \in DataType
      /\ i \in Nat /\ logRecord \in Cells /\ restarts \in Nat
      /\ restarts <= 1 => TailClear(head, tail)
  BY SizeAssumption, BoundAssumption
     DEF RingInv, ClearInv, TypeOK, DataType, Cells
<1>1. ASSUME pos' = pos PROVE old' = old
  BY <1>1 DEF RecoveredRing, GoodEntries, Good, InRange, Checksum, ByteSum, N
<1>2. CASE CheckPos
  <2>1. old = [head |-> head', tail |-> tail'] /\ pos' = pos
    BY <1>0, <1>2, SaveIsFound DEF CheckPos
  <2> QED
    BY <1>1, <2>1
<1>3. CASE Restart
  <2>1. pos' = pos /\ head' = old.head /\ tail' = old.tail
    BY <1>3 DEF Restart
  <2> QED
    BY <1>1, <2>1
<1>4. CASE ~CheckPos /\ ~Restart
  <2>1. /\ pos' = pos /\ restarts' = restarts /\ old' = old
        /\ TailClear(head, tail)
    <3>1. ~(ProgramHead \/ ProgramTail \/ ProgramCrc \/ RingLogNext \/ RingLogReset)
      BY DEF ProgramHead, ProgramTail, ProgramCrc, ProgramPos, RingLogNext,
             RingLogReset
    <3>2. pos' = pos /\ restarts' = restarts
      BY <1>4, <3>1 DEF Next, Step, Call, SaveLog, GiveUp, MakeRoom,
         ProgramChunk, CheckRecord, LoadNextLog, counters
    <3> QED
      BY <1>0, <1>1, <3>2
  <2> HIDE DEF old
  <2>2. ASSUME pc \in Storing, Readable(data, s), ~Writing(s)
        PROVE  s \in Window(old'.tail, old'.head) <=> s \in Window(tail, head)
    BY <2>1, <2>2 DEF SavedRingInv, SameRing, old
  <2>3. CASE SaveLog \/ GiveUp
    <3>1. /\ data' = data /\ tail' = tail /\ head' = head
          /\ pc \in {"idle", "try"}
      BY <2>3 DEF SaveLog, GiveUp
    <3> QED
      BY <2>2, <3>1 DEF Writing
  <2>4. CASE MakeRoom
    <3>1. pc = "try" /\ head' = head /\ tail' = PushedTail(head, tail)
          /\ data' = IF SectorOf(Succ(head)) # SectorOf(head)
                     THEN EraseSector(data, SectorOf(Succ(head))) ELSE data
      BY <2>4 DEF MakeRoom, PushedTail
    <3>2. SectorOf(Succ(head)) \in Nat
      BY <1>0, SuccType, SectorType
    <3>3. Readable(data, s)
      BY <1>0, <3>1, <3>2, EraseKeeps DEF Readable
    <3>4. ~(SectorOf(s) = SectorOf(Succ(head)) /\ SectorOf(Succ(head)) # SectorOf(head))
      BY <1>0, <3>1, ErasedUnreadable
    <3>5. s \in Window(tail, head) <=> s \in Window(tail', head)
      BY <1>0, <2>1, <3>1, <3>4, PushedOut
    <3> QED
      BY <2>2, <3>1, <3>3, <3>5 DEF Writing
  <2>5. CASE ProgramChunk
    <3>1. /\ pc = "chunk" /\ head' = head /\ tail' = tail /\ i' = i + 1
          /\ pc' \in {"chunk", "check"} /\ i \in 0 .. RecSize - 1
      BY <1>0, <2>5, SizeAssumption DEF ProgramChunk, TypeOK
    <3>2. s # head
      BY <1>0, <3>1 DEF Writing
    <3>3. RecordAt(data', s) \in {Rec(s), Blank}
      BY <1>0, <2>5, <3>1, <3>2, WriteKeeps DEF ProgramChunk, Rec
    <3>4. Readable(data, s)
      BY <3>3 DEF Readable, Rec
    <3> QED
      BY <2>2, <3>1, <3>2, <3>4 DEF Writing
  <2>6. CASE CheckRecord
    <3>1. /\ pc = "check" /\ head' = Succ(head) /\ tail' = tail /\ data' = data
          /\ ~Readable(data, head) /\ Succ(head) # tail
      BY <2>6 DEF CheckRecord, RingInv, RoomInv
    <3>2. s # head
      BY <3>1
    <3>3. s \in Window(tail, head) <=> s \in Window(tail', head')
      BY <1>0, <3>1, <3>2, WindowGrows
    <3> QED
      BY <2>2, <3>1, <3>2, <3>3 DEF Writing
  <2>7. CASE LoadNextLog
    <3>1. pc = "idle" /\ data' = data /\ head' = head
      BY <2>7 DEF LoadNextLog
    <3>2. tail' \in {tail, head}
      BY <1>0, <2>7, LoadedTail
    <3>3. tail' = head => s \notin Window(tail, head) /\ s \notin Window(tail', head)
      <4>1. s \in Window(tail, head) => tail' # head
        BY <1>0, <2>7, <3>1, LoadedTail
      <4>2. Window(head, head) = {}
        BY <1>0, RingSize DEF Window, Slot
      <4> QED
        BY <4>1, <4>2
    <3> QED
      BY <2>2, <3>1, <3>2, <3>3 DEF Writing
  <2>8. ~(ProgramHead \/ ProgramTail \/ ProgramCrc \/ RingLogNext \/ RingLogReset)
    BY DEF ProgramHead, ProgramTail, ProgramCrc, ProgramPos, RingLogNext, RingLogReset
  <2> QED
    BY <1>4, <2>3, <2>4, <2>5, <2>6, <2>7, <2>8 DEF Next, Step, Call
<1> QED
  BY <1>2, <1>3, <1>4

(* The last save and the ring agree at all times.                          *)
LEMMA SavedRingCorrect == Spec => [](RingInv /\ AboveInv /\ SavedRingInv)
<1>1. Init => AboveInv /\ SavedRingInv
  BY BlankOutOfRange DEF Init, AboveInv, SavedRingInv
<1>2. RingInv /\ AboveInv /\ SavedRingInv /\ [Next]_vars
      => AboveInv' /\ SavedRingInv'
  <2>1. ASSUME AboveInv, SavedRingInv, UNCHANGED vars
        PROVE  AboveInv' /\ SavedRingInv'
    <3>1. AboveInv'
      BY <2>1 DEF vars, AboveInv, InRange, ram
    <3>2. RecoveredRing' = RecoveredRing
      BY <2>1 DEF vars, RecoveredRing, GoodEntries, Good, InRange, Checksum,
         ByteSum, N
    <3>3. SavedRingInv'
      BY <2>1, <3>2 DEF vars, ram, counters, SavedRingInv, SameRing,
         Storing, Writing, Readable, RecordAt, Window
    <3> QED
      BY <3>1, <3>3
  <2> QED
    BY <2>1, AboveStep, SavedRingStep DEF RingInv
<1> QED
  BY <1>1, <1>2, RingCorrect, PTL DEF Spec

(* QuietRestart for every size and any number of bad programs: one of the  *)
(* first two restarts that comes between two calls loses and repeats       *)
(* nothing, unless the position sector is blank (DB_InitLog).              *)
THEOREM RestartQuiet == Spec => QuietRestart
<1>1. RingInv /\ AboveInv /\ SavedRingInv /\ [Next]_vars
        => [pc = "idle" /\ restarts' # restarts /\ restarts <= 1
              /\ pos # BlankSector => Pending' = Pending]_vars
  <2> SUFFICES ASSUME RingInv, SavedRingInv, Next, restarts <= 1,
                      pc = "idle", restarts' # restarts, pos # BlankSector
               PROVE  Pending' = Pending
    OBVIOUS
  <2>1. Restart
    BY DEF Next, Step, Call, SaveLog, GiveUp, MakeRoom, ProgramChunk, CheckRecord,
           ProgramHead, ProgramTail, ProgramCrc, ProgramPos, CheckPos,
           RingLogNext, LoadNextLog, RingLogReset, counters
  <2>2. /\ data' = data
        /\ head' = RecoveredRing.head /\ tail' = RecoveredRing.tail
    BY <2>1 DEF Restart
  <2>3. /\ tail \in Slot /\ head \in Slot /\ tail' \in Slot /\ head' \in Slot
    BY <2>2, RecoveredType DEF RingInv, TypeOK, PosType
  <2>4. Window(tail, head) \subseteq Slot /\ Window(tail', head') \subseteq Slot
    BY <2>3, WindowType
  <2>5. \A s \in Slot : RecordAt(data, s) # Blank =>
          (s \in Window(tail', head') <=> s \in Window(tail, head))
    BY <2>2 DEF SavedRingInv, SameRing, Storing, Writing, Readable
  <2>6. Pending' = {RecordAt(data, s) : s \in Window(tail', head')} \ {Blank}
    BY <2>2 DEF Pending, Window, RecordAt
  <2> QED
    BY <2>4, <2>5, <2>6 DEF Pending
<1> QED
  BY <1>1, SavedRingCorrect, PTL DEF Spec, QuietRestart
-----------------------------------------------------------------------------
(* A ring whose tail has moved towards its head: what it keeps, and what   *)
(* it has lost comes before all of it.                                     *)
LEMMA WindowSuffix ==
  ASSUME NEW t \in Slot, NEW h \in Slot, NEW u \in Window(t, h) \cup {h}
  PROVE  /\ Window(u, h) \subseteq Window(t, h)
         /\ \A r \in Window(u, h) : Window(u, r) \subseteq Window(t, r)
         /\ \A r \in Window(u, h), s \in Window(t, h) \ Window(u, h) :
              s \in Window(t, r)
<1>1. u \in Slot
  BY WindowType
<1>2. Window(u, h) \subseteq Window(t, h)
  BY <1>1, RingSize DEF Window, Slot
<1>3. ASSUME NEW r \in Window(u, h) PROVE Window(u, r) \subseteq Window(t, r)
  BY <1>1, <1>3, RingSize DEF Window, Slot
<1>4. ASSUME NEW r \in Window(u, h), NEW s \in Window(t, h) \ Window(u, h)
      PROVE  s \in Window(t, r)
  BY <1>1, <1>4, RingSize DEF Window, Slot
<1> QED
  BY <1>2, <1>3, <1>4

(* The tail is only pushed on to a slot of the ring, or to the head.       *)
LEMMA PushedTailInside ==
  ASSUME NEW h \in Slot, NEW t \in Slot, TailClear(h, t)
  PROVE  PushedTail(h, t) \in Window(t, h) \cup {h}
<1>1. PushedTail(h, t) \in Slot
  BY PushedTailApart
<1>2. PushedTail(h, t) # h => PushedTail(h, t) \in Window(PushedTail(h, t), h)
  <2> DEFINE T == PushedTail(h, t)
  <2> HIDE DEF T
  <2>1. T \in Slot /\ T # h => T \in Window(T, h)
    BY RingSize DEF Window, Slot
  <2> QED
    BY <1>1, <2>1 DEF T
<1> QED
  BY <1>2, PushedOut

(* The slot after the tail is in the ring, or the head.                    *)
LEMMA NextTailInside ==
  ASSUME NEW t \in Slot, NEW h \in Slot, t # h
  PROVE  /\ Succ(t) \in Window(t, h) \cup {h} /\ t \in Window(t, h)
         /\ Window(Succ(t), h) = Window(t, h) \ {t}
BY RingSize DEF Succ, Window, Slot

(* A slot no nearer to the tail than u is still in the ring from u on.     *)
LEMMA NotSkipped ==
  ASSUME NEW t \in Slot, NEW h \in Slot,
         NEW u \in Window(t, h), NEW s \in Window(t, h),
         (u - t + N) % N <= (s - t + N) % N
  PROVE  s \in Window(u, h)
<1>1. u \in Slot /\ s \in Slot
  BY WindowType
<1>2. \A x \in Slot : (x - t + N) % N = IF t <= x THEN x - t ELSE x - t + N
  <2> TAKE x \in Slot
  <2>1. CASE t <= x
    <3>1. x - t \in 0 .. N - 1
      BY <2>1, RingSize DEF Slot
    <3>2. (x - t + N) % N = x - t
      BY <3>1, RingSize
    <3> QED
      BY <2>1, <3>2
  <2>2. CASE ~(t <= x)
    <3>1. x - t + N \in 0 .. N - 1
      BY <2>2, RingSize DEF Slot
    <3>2. (x - t + N) % N = x - t + N
      BY <3>1, RingSize
    <3> QED
      BY <2>2, <3>2
  <2> QED
    BY <2>1, <2>2
<1>3. (IF t <= u THEN u - t ELSE u - t + N) <= (IF t <= s THEN s - t ELSE s - t + N)
  BY <1>1, <1>2
<1> QED
  BY <1>1, <1>3, RingSize DEF Window, Slot

(* What DB_LoadNextLog skips is unreadable.                                *)
LEMMA SkippedUnreadable ==
  ASSUME TypeOK, LoadNextLog
  PROVE  \A s \in Window(tail, head) \ Window(tail', head) : ~Readable(data, s)
<1> SUFFICES ASSUME NEW s \in Window(tail, head), Readable(data, s)
             PROVE  s \in Window(tail', head)
  OBVIOUS
<1>1. /\ tail' \in Window(tail, head)
      /\ (tail' - tail + N) % N <= (s - tail + N) % N
  BY LoadedTail
<1>2. tail \in Slot /\ head \in Slot
  BY DEF TypeOK
<1> QED
  BY <1>1, <1>2, NotSkipped
-----------------------------------------------------------------------------
(* Records are numbered, so that a slot's record is comparable with        *)
(* another's, and with none.                                               *)
LEMMA RecordNumber ==
  ASSUME NEW d \in DataType, NEW s \in Slot
  PROVE  /\ RecordAt(d, s) \in Nat /\ Blank = 0
         /\ RecordAt(d, s) # Blank => RecordAt(d, s) \in Records
BY RecordType, BoundAssumption DEF Records, Blank

(* Slots lose their records, and gain none.                                *)
Fades(d, e) == \A s \in Slot : RecordAt(e, s) \in {RecordAt(d, s), Blank}

UniqueIn(d) ==
  \A r, s \in Slot : r # s /\ RecordAt(d, r) = RecordAt(d, s)
                       => RecordAt(d, r) = Blank
SortedIn(d, t, h) ==
  \A r \in Window(t, h) : \A s \in Window(t, r) :
    RecordAt(d, s) # Blank /\ RecordAt(d, r) # Blank
      => RecordAt(d, s) < RecordAt(d, r)
ApartFrom(d, q, t, h) ==
  \/ \A s \in Window(t, h) : RecordAt(d, s) # Blank
                               => RecordAt(d, q) < RecordAt(d, s)
  \/ \A s \in Window(t, h) : RecordAt(d, s) < RecordAt(d, q)
ApartIn(d, t, h) == \A q \in Slot \ Window(t, h) : ApartFrom(d, q, t, h)

(* Records that go away leave the others unique.                           *)
LEMMA FadedUnique ==
  ASSUME NEW d, NEW e, Fades(d, e), UniqueIn(d)
  PROVE  UniqueIn(e)
BY DEF Fades, UniqueIn

(* Records that go away leave the others sorted.                           *)
LEMMA FadedSorted ==
  ASSUME NEW d, NEW e, NEW t \in Slot, NEW h \in Slot,
         \A s \in Window(t, h) : RecordAt(e, s) \in {RecordAt(d, s), Blank},
         SortedIn(d, t, h)
  PROVE  SortedIn(e, t, h)
<1>1. \A r \in Window(t, h) : Window(t, r) \subseteq Window(t, h)
  BY RingSize DEF Window, Slot
<1> QED
  BY <1>1 DEF SortedIn

(* Records that go away leave a slot outside older or newer.               *)
LEMMA FadedApart ==
  ASSUME NEW d \in DataType, NEW e, NEW t \in Slot, NEW h \in Slot, NEW q \in Slot,
         \A s \in Window(t, h) : RecordAt(e, s) \in {RecordAt(d, s), Blank},
         RecordAt(e, q) \in {RecordAt(d, q), Blank},
         ApartFrom(d, q, t, h)
  PROVE  ApartFrom(e, q, t, h)
<1>1. Window(t, h) \subseteq Slot
  BY WindowType
<1>2. \A s \in Slot : RecordAt(d, s) \in Nat
  BY RecordNumber
<1>3. CASE RecordAt(e, q) = 0
  BY <1>1, <1>2, <1>3 DEF ApartFrom, Blank
<1>4. CASE RecordAt(e, q) = RecordAt(d, q) /\ RecordAt(d, q) # 0
  BY <1>1, <1>2, <1>4 DEF ApartFrom, Blank
<1> QED
  BY <1>3, <1>4 DEF Blank

(* The ring from a later slot on is sorted.                                *)
LEMMA SortedSuffix ==
  ASSUME NEW d, NEW t \in Slot, NEW h \in Slot, SortedIn(d, t, h),
         NEW u \in Window(t, h) \cup {h}
  PROVE  SortedIn(d, u, h)
BY WindowSuffix DEF SortedIn

(* The ring takes in the newest record, or none.                           *)
LEMMA SortedGrows ==
  ASSUME NEW d, NEW t \in Slot, NEW h \in Slot, Succ(h) # t, SortedIn(d, t, h),
         RecordAt(d, h) # Blank =>
           \A s \in Slot \ {h} : RecordAt(d, s) < RecordAt(d, h)
  PROVE  SortedIn(d, t, Succ(h))
<1>1. Window(t, Succ(h)) = Window(t, h) \cup {h}
  BY WindowGrows
<1>2. Window(t, h) \subseteq Slot \ {h}
  BY WindowType
<1> QED
  BY <1>1, <1>2 DEF SortedIn
-----------------------------------------------------------------------------
Area == 0 .. DataSize - 1
Cursor == head * RecSize + i               \* where the next chunk goes
Point == head * RecSize + (IF pc \in {"chunk", "check"} THEN i ELSE 0)

(* Records are numbered in the order they are stored: what is in the flash *)
(* is older than the record being stored.                                  *)
NumberInv ==
  /\ \A s \in Slot : Rec(s) < nextRec
  /\ pc \in {"try", "chunk", "check"} =>
       /\ logRecord \in Records /\ logRecord < nextRec
       /\ \A s \in Slot : Rec(s) < logRecord \/ (Writing(s) /\ Rec(s) = logRecord)

(* The slot being programmed: its first chunk, and all of them as long as  *)
(* nothing failed.                                                         *)
ChunkInv ==
  pc \in {"chunk", "check"} =>
    /\ i > 0 => data[head * RecSize] \in {logRecord, Junk}
    /\ restarts = 0 /\ faults = 0 =>
         \A j \in 0 .. i - 1 : data[head * RecSize + j] = logRecord
    /\ pc = "check" => i = RecSize

(* The sector that the record runs over into has been erased.              *)
SpillInv ==
  pc = "chunk" /\ SectorOf(Succ(head)) # SectorOf(head) =>
    \A a \in Area : a >= Cursor /\ a \div SectorSize = SectorOf(Succ(head))
                      => data[a] = Blank

(* As long as nothing failed, the rest of the sector is blank.             *)
FreshInv ==
  restarts = 0 /\ faults = 0 /\ Point % SectorSize # 0 =>
    \A a \in Area : a >= Point /\ a \div SectorSize = Point \div SectorSize
                      => data[a] = Blank

(* What one programmed chunk does to the flash.                            *)
LEMMA ChunkWritten ==
  ASSUME TypeOK, logRecord \in Records, ProgramChunk
  PROVE  /\ i \in 0 .. RecSize - 1 /\ Cursor \in Area /\ head \in Slot
         /\ \A b \in Area \ {Cursor} :
              data'[b] = IF Cursor % SectorSize = 0
                            /\ b \div SectorSize = Cursor \div SectorSize
                         THEN Blank ELSE data[b]
         /\ data'[Cursor] \in {logRecord, Junk}
         /\ faults' = faults /\ (Cursor % SectorSize = 0 \/ data[Cursor] = Blank)
              => data'[Cursor] = logRecord
         /\ Cursor % SectorSize # 0 /\ data'[Cursor] = logRecord
              => data[Cursor] \in {Blank, logRecord}
         /\ faults \in Nat /\ faults' \in Nat /\ faults <= faults'
         /\ \A s \in Slot \ {head} : RecordAt(data', s) \in {Rec(s), Blank}
<1> DEFINE a == Cursor
           e == IF a % SectorSize = 0
                THEN EraseSector(data, a \div SectorSize) ELSE data
           w == WriteChunk(data, a, logRecord)
<1>1. i \in 0 .. RecSize - 1 /\ head \in Slot /\ data \in DataType
      /\ logRecord \in Cells
  BY SizeAssumption DEF ProgramChunk, TypeOK, DataType, Cells
<1>2. a \in Area
  BY <1>1, SlotCells DEF Area, Cursor
<1>3. /\ e \in [Area -> Cells]
      /\ \A b \in Area : e[b] = IF a % SectorSize = 0
                                   /\ b \div SectorSize = a \div SectorSize
                                THEN Blank ELSE data[b]
  <2>1. a \div SectorSize \in Nat
    BY <1>2, Division, SizeAssumption DEF Area
  <2>2. e \in DataType
    BY <1>1, <2>1, EraseType
  <2> QED
    BY <1>1, <2>2 DEF EraseSector, DataType, Area
<1>4. w = [e EXCEPT ![a] = IF @ \in {Blank, logRecord} THEN logRecord ELSE Junk]
  BY DEF WriteChunk
<1>5. /\ \/ data' = w /\ faults' = faults
         \/ data' = [w EXCEPT ![a] = Junk] /\ faults' = faults + 1
      /\ faults \in Nat
  BY BoundAssumption DEF ProgramChunk, TypeOK, Cursor
<1>6. \A s \in Slot \ {head} : RecordAt(data', s) \in {Rec(s), Blank}
  BY <1>1, WriteKeeps DEF ProgramChunk, Rec
<1>7. logRecord # Junk /\ logRecord # Blank
  BY BoundAssumption DEF Records, Junk, Blank
<1>8. e[a] = IF a % SectorSize = 0 THEN Blank ELSE data[a]
  BY <1>2, <1>3
<1> HIDE DEF a, e, w
<1>9. \A b \in Area : b # a => w[b] = e[b]
  BY <1>3, <1>4
<1>10. w[a] = IF e[a] \in {Blank, logRecord} THEN logRecord ELSE Junk
  BY <1>2, <1>3, <1>4
<1>11. w \in [Area -> Cells]
  BY <1>1, <1>2, <1>3, <1>4 DEF Cells
<1>12. \A b \in Area : b # a => data'[b] = e[b]
  BY <1>5, <1>9, <1>11
<1>13. \/ data'[a] = w[a] /\ faults' = faults
       \/ data'[a] = Junk /\ faults' = faults + 1
  BY <1>2, <1>5, <1>11
<1> QED
  BY <1>1, <1>2, <1>3, <1>5, <1>6, <1>7, <1>8, <1>10, <1>12, <1>13 DEF a

(* A cell before one that opens a sector lies in an earlier sector.        *)
LEMMA EarlierSector ==
  ASSUME NEW a \in Nat, NEW b \in Nat, a % SectorSize = 0, b < a
  PROVE  b \div SectorSize # a \div SectorSize
<1>1. SectorSize \in Nat \ {0}
  BY SizeAssumption
<1>2. a = SectorSize * (a \div SectorSize) + 0 /\ a \div SectorSize \in Nat
  BY <1>1, Division
<1>3. b < (a \div SectorSize) * SectorSize
  BY <1>1, <1>2
<1>4. b \div SectorSize < a \div SectorSize
  BY <1>1, <1>2, <1>3, QuotientBounds
<1> QED
  BY <1>1, <1>2, <1>4, Division

(* A slot whose first chunk was programmed reads as that record or none.   *)
LEMMA HeadRecord ==
  ASSUME NEW d, NEW s \in Slot, NEW v, d[s * RecSize] \in {v, Junk}
  PROVE  RecordAt(d, s) \in {v, Blank}
BY DEF RecordAt

(* Each step leaves the chunks of the record that is written in place.     *)
LEMMA ChunkStep ==
  ASSUME TypeOK, NumberInv, ChunkInv, FreshInv, Next
  PROVE  ChunkInv'
<1>1. CASE pc' \notin {"chunk", "check"}
  BY <1>1 DEF ChunkInv
<1>2. CASE MakeRoom
  BY <1>2 DEF MakeRoom, ChunkInv
<1>3. CASE ProgramChunk
  <2> DEFINE h == head * RecSize
  <2>0. /\ pc = "chunk" /\ head' = head /\ logRecord' = logRecord /\ i' = i + 1
        /\ pc' = IF i + 1 < RecSize THEN "chunk" ELSE "check"
        /\ restarts' = restarts
    BY <1>3 DEF ProgramChunk
  <2>1. logRecord \in Records
    BY <2>0 DEF NumberInv
  <2>2. i \in 0 .. RecSize - 1 /\ Cursor \in Area /\ head \in Slot /\ faults \in Nat
        /\ faults' \in Nat /\ faults <= faults'
    BY <1>3, <2>1, ChunkWritten
  <2>3. h \in Nat /\ Cursor = h + i /\ RecSize \in Nat
    BY <2>2, SizeAssumption DEF Slot, Cursor
  <2>4. \A j \in 0 .. i - 1 : data'[h + j] = data[h + j]
    <3> TAKE j \in 0 .. i - 1
    <3>1. h + j \in Nat /\ h + j < Cursor /\ Cursor \in Nat
      BY <2>2, <2>3
    <3>2. h + j \in Area
      BY <2>2, <3>1, SizeAssumption DEF Area
    <3>3. Cursor % SectorSize = 0
            => (h + j) \div SectorSize # Cursor \div SectorSize
      BY <3>1, EarlierSector
    <3> HIDE DEF h
    <3> QED
      BY <1>3, <2>1, <3>1, <3>2, <3>3, ChunkWritten
  <2>5. data'[h] \in {logRecord, Junk}
    <3>1. CASE i = 0
      BY <1>3, <2>1, <2>3, <3>1, ChunkWritten
    <3>2. CASE i > 0
      <4>1. data'[h + 0] = data[h + 0]
        BY <2>2, <2>4, <3>2
      <4> QED
        BY <2>0, <2>3, <4>1, <3>2 DEF ChunkInv
    <3> QED
      BY <2>2, <3>1, <3>2
  <2>6. ASSUME restarts = 0, faults' = 0
        PROVE  \A j \in 0 .. i : data'[h + j] = logRecord
    <3>1. faults = 0 /\ faults' = faults
      BY <2>2, <2>6
    <3>2. Point = Cursor
      BY <2>0 DEF Point, Cursor
    <3>3. Cursor % SectorSize = 0 \/ data[Cursor] = Blank
      BY <2>2, <2>6, <3>1, <3>2 DEF FreshInv, Area
    <3>4. data'[h + i] = logRecord
      BY <1>3, <2>1, <2>3, <3>1, <3>3, ChunkWritten
    <3>5. \A j \in 0 .. i - 1 : data'[h + j] = logRecord
      BY <2>0, <2>4, <2>6, <3>1 DEF ChunkInv
    <3> QED
      BY <2>2, <3>4, <3>5
  <2> HIDE DEF h
  <2>7. i' - 1 = i /\ (i + 1 < RecSize \/ i + 1 = RecSize)
    BY <2>0, <2>2, <2>3
  <2>8. /\ data'[h] \in {logRecord', Junk}
        /\ restarts' = 0 /\ faults' = 0 =>
              \A j \in 0 .. i' - 1 : data'[h + j] = logRecord'
        /\ pc' = "check" => i' = RecSize
    BY <2>0, <2>5, <2>6, <2>7
  <2> QED
    BY <2>0, <2>8 DEF ChunkInv, h
<1> QED
  BY <1>1, <1>2, <1>3 DEF Next, Step, Call, Restart, SaveLog, GiveUp, CheckRecord,
     ProgramHead, ProgramTail, ProgramCrc, ProgramPos, CheckPos, RingLogNext,
     LoadNextLog, RingLogReset

(* Each step leaves the chunks past a sector's end erased.                 *)
LEMMA SpillStep ==
  ASSUME TypeOK, NumberInv, SpillInv, Next
  PROVE  SpillInv'
<1>1. CASE pc' # "chunk"
  BY <1>1 DEF SpillInv
<1>2. CASE MakeRoom
  <2>1. /\ head' = head
        /\ data' = IF SectorOf(Succ(head)) # SectorOf(head)
                   THEN EraseSector(data, SectorOf(Succ(head))) ELSE data
    BY <1>2 DEF MakeRoom
  <2>2. SectorOf(Succ(head)) # SectorOf(head) =>
          \A a \in Area : a \div SectorSize = SectorOf(Succ(head))
                            => data'[a] = Blank
    BY <2>1 DEF EraseSector, TypeOK, Area
  <2>3. SectorOf(Succ(head'))  = SectorOf(Succ(head))
        /\ SectorOf(head') = SectorOf(head)
    BY <2>1
  <2> QED
    BY <2>2, <2>3 DEF SpillInv, SectorOf, Succ
<1>3. CASE ProgramChunk
  <2>0. pc = "chunk" /\ head' = head /\ i' = i + 1
    BY <1>3 DEF ProgramChunk
  <2>1. logRecord \in Records
    BY <2>0 DEF NumberInv
  <2>2. Cursor \in Area /\ Cursor' = Cursor + 1
    <3>1. i \in 0 .. RecSize - 1 /\ Cursor \in Area /\ head \in Slot
      BY <1>3, <2>1, ChunkWritten
    <3>2. head * RecSize \in Nat /\ i \in Nat
      BY <3>1, SizeAssumption DEF Slot
    <3> QED
      BY <2>0, <3>1, <3>2 DEF Cursor
  <2> SUFFICES ASSUME SectorOf(Succ(head)) # SectorOf(head), NEW b \in Area,
                      b >= Cursor + 1, b \div SectorSize = SectorOf(Succ(head))
               PROVE  data'[b] = Blank
    BY <2>0, <2>2 DEF SpillInv, SectorOf, Succ, Area
  <2>3. b >= Cursor /\ b # Cursor
    BY <2>2 DEF Area
  <2>4. data[b] = Blank
    BY <2>0, <2>3 DEF SpillInv
  <2> QED
    BY <1>3, <2>1, <2>3, <2>4, ChunkWritten
<1> QED
  BY <1>1, <1>2, <1>3 DEF Next, Step, Call, Restart, SaveLog, GiveUp, CheckRecord,
     ProgramHead, ProgramTail, ProgramCrc, ProgramPos, CheckPos, RingLogNext,
     LoadNextLog, RingLogReset

(* Two cells are of one sector unless the second begins one.               *)
LEMMA NextInSector ==
  ASSUME NEW a \in Nat, (a + 1) % SectorSize # 0
  PROVE  (a + 1) \div SectorSize = a \div SectorSize
<1> DEFINE q == (a + 1) \div SectorSize
<1>1. SectorSize \in Nat \ {0} /\ a + 1 \in Nat
  BY SizeAssumption
<1>2. /\ q \in Nat /\ (a + 1) % SectorSize \in 0 .. SectorSize - 1
      /\ a + 1 = SectorSize * q + ((a + 1) % SectorSize)
      /\ q * SectorSize <= a + 1 /\ a + 1 < (q + 1) * SectorSize
  BY <1>1, Division
<1> HIDE DEF q
<1>3. q * SectorSize <= a /\ a < (q + 1) * SectorSize /\ q + 1 \in Nat
  BY <1>1, <1>2
<1>4. q <= a \div SectorSize /\ a \div SectorSize < q + 1
  BY <1>1, <1>2, <1>3, QuotientBounds
<1>5. a \div SectorSize \in Nat
  BY <1>1, Division
<1> QED
  BY <1>2, <1>4, <1>5 DEF q

(* Each step leaves the rest of the head's sector erased.                  *)
LEMMA FreshStep ==
  ASSUME TypeOK, NumberInv, ChunkInv, FreshInv, Next
  PROVE  FreshInv'
<1> SUFFICES ASSUME restarts' = 0, faults' = 0, Point' % SectorSize # 0,
                    NEW b \in Area, b >= Point',
                    b \div SectorSize = Point' \div SectorSize
             PROVE  data'[b] = Blank
  BY DEF FreshInv, Area
<1>0. head \in Slot /\ SectorSize \in Nat \ {0} /\ restarts \in Nat
      /\ faults \in Nat
  BY SizeAssumption, BoundAssumption DEF TypeOK
<1>1. CASE /\ Point' = Point /\ restarts = 0 /\ faults = 0
           /\ data'[b] \in {data[b], Blank}
  BY <1>1 DEF FreshInv
<1>2. CASE ProgramChunk
  <2>0. pc = "chunk" /\ head' = head /\ i' = i + 1 /\ restarts' = restarts
        /\ pc' \in {"chunk", "check"}
    BY <1>2 DEF ProgramChunk
  <2>1. logRecord \in Records
    BY <2>0 DEF NumberInv
  <2>2. /\ Cursor \in Area /\ i \in 0 .. RecSize - 1 /\ faults = 0
    BY <1>2, <2>1, ChunkWritten
  <2>3. head * RecSize \in Nat /\ i \in Nat
    BY <1>0, <2>2, SizeAssumption DEF Slot
  <2>4. Point = Cursor /\ Point' = Cursor + 1 /\ Cursor \in Nat
    BY <2>0, <2>3 DEF Point, Cursor
  <2>5. Point' \div SectorSize = Cursor \div SectorSize
    BY <2>4, NextInSector
  <2>6. b >= Cursor /\ b # Cursor
    BY <2>4 DEF Area
  <2>7. Cursor % SectorSize # 0 => data[b] = Blank
    BY <2>0, <2>2, <2>4, <2>5, <2>6 DEF FreshInv
  <2> QED
    BY <1>2, <2>1, <2>5, <2>6, <2>7, ChunkWritten
<1>3. CASE CheckRecord
  <2>1. /\ pc = "check" /\ head' = Succ(head) /\ data' = data
        /\ pc' \notin {"chunk", "check"} /\ restarts' = restarts /\ faults' = faults
    BY <1>3 DEF CheckRecord, counters
  <2>2. Point = head * RecSize + RecSize /\ Point' = Succ(head) * RecSize
    <3>1. Succ(head) * RecSize \in Nat
      BY <1>0, SuccType, SizeAssumption DEF Slot
    <3>2. Point' = Succ(head) * RecSize + 0
      BY <2>1 DEF Point
    <3>3. Point = head * RecSize + RecSize
      BY <2>1 DEF Point, ChunkInv
    <3> QED
      BY <3>1, <3>2, <3>3
  <2>3. CASE Succ(head) = 0
    <3>1. Point' = 0 /\ 0 % SectorSize = 0
      BY <1>0, <2>2, <2>3, SizeAssumption
    <3> QED
      BY <3>1
  <2>4. CASE Succ(head) # 0
    <3>1. Succ(head) = head + 1 /\ head \in Nat
      BY <1>0, <2>4, RingSize DEF Succ, Slot
    <3>2. Point' = Point
      BY <2>2, <3>1, SizeAssumption
    <3> QED
      BY <1>1, <2>1, <3>2
  <2> QED
    BY <2>3, <2>4
<1>4. CASE RingLogReset
  <2>1. Point' = 0 * RecSize + 0
    BY <1>4 DEF RingLogReset, Point
  <2>2. 0 % SectorSize = 0 /\ 0 * RecSize + 0 = 0
    BY <1>0, SizeAssumption
  <2> QED
    BY <2>1, <2>2
<1>5. ~Restart
  BY <1>0 DEF Restart
<1>6. CASE MakeRoom
  <2>1. Point' = Point /\ restarts = 0 /\ faults = 0
    BY <1>6 DEF MakeRoom, Point, counters
  <2>2. data'[b] \in {data[b], Blank}
    BY <1>6 DEF MakeRoom, EraseSector, TypeOK, Area
  <2> QED
    BY <1>1, <2>1, <2>2
<1>7. CASE SaveLog \/ GiveUp \/ ProgramHead \/ ProgramTail \/ ProgramCrc
           \/ CheckPos \/ RingLogNext \/ LoadNextLog
  <2>1. /\ data' = data /\ restarts' = restarts /\ faults' \in {faults, faults + 1}
        /\ head' = head
        /\ pc \notin {"chunk", "check"} /\ pc' \notin {"chunk", "check"}
    BY <1>7 DEF SaveLog, GiveUp, ProgramHead, ProgramTail, ProgramCrc, ProgramPos,
       CheckPos, RingLogNext, LoadNextLog, counters
  <2>2. Point' = Point /\ restarts = 0 /\ faults = 0
    BY <1>0, <2>1 DEF Point
  <2> QED
    BY <1>1, <2>1, <2>2
<1> QED
  BY <1>2, <1>3, <1>4, <1>5, <1>6, <1>7 DEF Next, Step, Call

(* What a step does to the records in flash: at most it completes the one  *)
(* being stored, and none comes back.                                      *)
LEMMA DataStep ==
  ASSUME TypeOK, TypeOK', NumberInv, ChunkInv', Next
  PROVE  \/ Fades(data, data') /\ ~ProgramChunk
         \/ /\ ProgramChunk
            /\ RecordAt(data', head) \in {logRecord, Blank}
            /\ \A s \in Slot \ {head} : RecordAt(data', s) \in {Rec(s), Blank}
<1>0. data \in DataType /\ data' \in DataType /\ head \in Slot
  BY DEF TypeOK, DataType, Cells
<1>1. CASE ProgramChunk
  <2>0. pc = "chunk" /\ head' = head /\ logRecord' = logRecord /\ i' = i + 1
        /\ pc' \in {"chunk", "check"}
    BY <1>1 DEF ProgramChunk
  <2>1. logRecord \in Records
    BY <2>0 DEF NumberInv
  <2>2. i + 1 > 0
    BY <1>1, <2>1, ChunkWritten, SizeAssumption
  <2>3. data'[head * RecSize] \in {logRecord, Junk}
    BY <2>0, <2>2 DEF ChunkInv
  <2>4. RecordAt(data', head) \in {logRecord, Blank}
    BY <1>0, <2>3, HeadRecord
  <2> QED
    BY <1>1, <2>1, <2>4, ChunkWritten
<1>2. CASE MakeRoom
  <2>1. SectorOf(Succ(head)) \in Nat
    BY <1>0, SuccType, SectorType
  <2>2. data' = EraseSector(data, SectorOf(Succ(head))) \/ data' = data
    BY <1>2 DEF MakeRoom
  <2>3. Fades(data, data')
    BY <1>0, <2>1, <2>2, EraseKeeps DEF Fades
  <2> QED
    BY <1>2, <2>3 DEF MakeRoom, ProgramChunk
<1>3. CASE Restart
  <2>1. ~ProgramChunk
    BY <1>3, BoundAssumption DEF Restart, ProgramChunk, TypeOK
  <2>2. CASE data' = data
    BY <2>1, <2>2 DEF Fades
  <2>3. CASE pc = "chunk" /\ data' = [data EXCEPT ![head * RecSize + i] = Junk]
    <3>1. i \in 0 .. RecSize - 1
      BY <2>3, SizeAssumption DEF TypeOK
    <3>2. head * RecSize + i \in 0 .. DataSize - 1
      BY <1>0, <3>1, SlotCells
    <3> DEFINE a == head * RecSize + i
    <3>3. data'[a] = Junk /\ \A b \in 0 .. DataSize - 1 : b # a => data'[b] = data[b]
      BY <1>0, <2>3, <3>2 DEF DataType
    <3>4. RecordAt(data', head) = Blank
      BY <3>1, <3>3 DEF RecordAt
    <3>5. ASSUME NEW s \in Slot, s # head
          PROVE  RecordAt(data', s) \in {RecordAt(data, s), Blank}
      <4>1. \A j \in 0 .. RecSize - 1 : data'[s * RecSize + j] = data[s * RecSize + j]
        BY <1>0, <3>1, <3>3, <3>5, SlotCells, SlotsDisjoint
      <4> QED
        BY <1>0, <3>5, <4>1, ErasedRecord
    <3> QED
      BY <2>1, <3>4, <3>5 DEF Fades
  <2> QED
    BY <1>3, <2>2, <2>3 DEF Restart
<1>4. CASE data' = data /\ pc # "chunk"
  BY <1>4 DEF Fades, ProgramChunk
<1> QED
  BY <1>1, <1>2, <1>3, <1>4 DEF Next, Step, Call, SaveLog, GiveUp, CheckRecord,
     ProgramHead, ProgramTail, ProgramCrc, ProgramPos, CheckPos, RingLogNext,
     LoadNextLog, RingLogReset

(* Each step leaves all records numbered below the next.                   *)
LEMMA NumberStep ==
  ASSUME TypeOK, TypeOK', NumberInv, ChunkInv, ChunkInv', Next
  PROVE  NumberInv'
<1>0. /\ head \in Slot /\ nextRec \in Nat /\ logRecord \in Nat
      /\ \A s \in Slot : /\ Rec(s) \in Nat
                         /\ RecordAt(data', s) \in Nat
  BY RecordNumber, BoundAssumption DEF TypeOK, DataType, Cells, Rec, Records, Blank
<1>1. Fades(data, data') =>
        \A s \in Slot : RecordAt(data', s) = Rec(s) \/ RecordAt(data', s) = 0
  BY DEF Fades, Rec, Blank
<1>2. CASE Fades(data, data') /\ nextRec' = nextRec
           /\ pc' \notin {"try", "chunk", "check"}
  <2>1. \A s \in Slot : RecordAt(data', s) < nextRec
    BY <1>0, <1>1, <1>2, BoundAssumption DEF NumberInv, TypeOK
  <2> QED
    BY <1>2, <2>1 DEF NumberInv, Rec
<1>3. CASE SaveLog
  <2>1. /\ pc = "idle" /\ pc' = "try" /\ logRecord' = nextRec /\ data' = data
        /\ nextRec' = nextRec + 1 /\ nextRec \in Records
    BY <1>0, <1>3, BoundAssumption DEF SaveLog, Records, TypeOK
  <2>2. \A s \in Slot : RecordAt(data', s) < nextRec /\ nextRec < nextRec + 1
                        /\ RecordAt(data', s) < nextRec + 1
    BY <1>0, <2>1 DEF NumberInv, Rec
  <2> QED
    BY <1>0, <2>1, <2>2 DEF NumberInv, Rec
<1>4. CASE MakeRoom
  <2>1. /\ pc = "try" /\ pc' = "chunk" /\ logRecord' = logRecord
        /\ nextRec' = nextRec /\ Fades(data, data')
    BY <1>4, DataStep DEF MakeRoom, ProgramChunk, counters
  <2>2. \A s \in Slot : Rec(s) < logRecord /\ Rec(s) < nextRec
    BY <2>1 DEF NumberInv, Writing
  <2>3. logRecord \in Records /\ logRecord < nextRec
    BY <2>1 DEF NumberInv
  <2>4. \A s \in Slot : RecordAt(data', s) < logRecord /\ RecordAt(data', s) < nextRec
    BY <1>0, <1>1, <2>1, <2>2, <2>3
  <2> QED
    BY <2>1, <2>3, <2>4 DEF NumberInv, Rec
<1>5. CASE ProgramChunk
  <2>1. /\ pc = "chunk" /\ pc' \in {"chunk", "check"} /\ logRecord' = logRecord
        /\ nextRec' = nextRec /\ head' = head /\ i' = i + 1
    BY <1>5 DEF ProgramChunk
  <2>2. /\ logRecord \in Records /\ logRecord < nextRec /\ i + 1 > 0
        /\ \A s \in Slot \ {head} : Rec(s) < logRecord
    BY <1>5, <2>1, ChunkWritten, SizeAssumption DEF NumberInv, Writing
  <2>3. /\ RecordAt(data', head) \in {logRecord, Blank}
        /\ \A s \in Slot \ {head} : RecordAt(data', s) \in {Rec(s), Blank}
    BY <1>5, DataStep
  <2>4. 0 < logRecord
    BY <2>2, BoundAssumption DEF Records
  <2>5. \A s \in Slot : /\ RecordAt(data', s) < nextRec
                        /\ \/ RecordAt(data', s) < logRecord
                           \/ s = head /\ RecordAt(data', s) = logRecord
    BY <1>0, <2>2, <2>3, <2>4 DEF Blank
  <2> QED
    BY <2>1, <2>2, <2>5 DEF NumberInv, Rec, Writing
<1>6. CASE CheckRecord
  <2>1. /\ pc = "check" /\ data' = data /\ nextRec' = nextRec
        /\ logRecord' = logRecord
        /\ pc' = IF Readable(data, head) THEN "posHead" ELSE "try"
    BY <1>6 DEF CheckRecord, counters
  <2>2. CASE Readable(data, head)
    BY <1>2, <2>1, <2>2 DEF Fades
  <2>3. CASE ~Readable(data, head)
    <3>1. logRecord \in Records /\ logRecord < nextRec
      BY <2>1 DEF NumberInv
    <3>2. \A s \in Slot : Rec(s) < logRecord
      BY <2>1, <2>3, <3>1, BoundAssumption
         DEF NumberInv, Writing, Readable, Rec, Blank, Records
    <3> QED
      BY <2>1, <2>3, <3>1, <3>2 DEF NumberInv, Rec
  <2> QED
    BY <2>2, <2>3
<1>7. CASE Restart
  <2>1. Fades(data, data')
    BY <1>7, DataStep, BoundAssumption DEF Restart, ProgramChunk, TypeOK
  <2> QED
    BY <1>2, <1>7, <2>1 DEF Restart
<1>8. CASE GiveUp \/ ProgramHead \/ ProgramTail \/ ProgramCrc
           \/ CheckPos \/ RingLogNext \/ LoadNextLog \/ RingLogReset
  <2>1. data' = data /\ nextRec' = nextRec /\ pc' \notin {"try", "chunk", "check"}
    BY <1>8 DEF GiveUp, ProgramHead, ProgramTail, ProgramCrc, ProgramPos, CheckPos,
       RingLogNext, LoadNextLog, RingLogReset, counters
  <2> QED
    BY <1>2, <2>1 DEF Fades
<1> QED
  BY <1>3, <1>4, <1>5, <1>6, <1>7, <1>8 DEF Next, Step, Call

(* The queue's promise holds: no second restart, and no bad program with   *)
(* the first.                                                              *)
Promised == restarts <= 1 /\ (restarts = 0 \/ faults = 0)

(* It held before it holds now, and the tail was clear of the head.        *)
LEMMA PromisedBefore ==
  ASSUME RingInv, Next, Promised'
  PROVE  /\ Promised /\ TailClear(head, tail)
         /\ Restart => restarts = 0 /\ faults = 0
<1>1. restarts \in Nat /\ faults \in Nat
  BY BoundAssumption DEF RingInv, TypeOK
<1>2. CASE Restart
  BY <1>1, <1>2 DEF Restart, Promised, RingInv, ClearInv
<1>3. CASE ~Restart
  <2>1. restarts' = restarts /\ faults' \in {faults, faults + 1}
    BY <1>3 DEF Next, Step, Call, SaveLog, GiveUp, MakeRoom, ProgramChunk,
       CheckRecord, ProgramHead, ProgramTail, ProgramCrc, ProgramPos, CheckPos,
       RingLogNext, LoadNextLog, RingLogReset, counters
  <2> QED
    BY <1>1, <1>3, <2>1 DEF Promised, RingInv, ClearInv
<1> QED
  BY <1>2, <1>3

(* The ring holds the records in the order they were stored, as long as    *)
(* that is promised; before the first restart it holds the newest, and the *)
(* last save is a stretch of all.                                          *)
SortedInv == Promised => SortedIn(data, tail, head)
Older ==
  \A s \in Window(tail, head), q \in Slot \ Window(tail, head) :
    Rec(s) # Blank => Rec(q) < Rec(s) \/ Writing(q)
OlderInv == restarts = 0 => Older
SavedOrderInv ==
  Filled /\ faults = 0 =>
    /\ SortedIn(data, Saved.tail, Saved.head)
    /\ ApartIn(data, Saved.tail, Saved.head)
    /\ pc \in Storing => Saved.head = head

OrderInv == /\ NumberInv /\ ChunkInv /\ SpillInv /\ FreshInv
            /\ UniqueIn(data) /\ SortedInv /\ OlderInv /\ SavedOrderInv

(* No step gives a number to two records.                                  *)
LEMMA UniqueStep ==
  ASSUME TypeOK, TypeOK', NumberInv, ChunkInv', UniqueIn(data), Next
  PROVE  UniqueIn(data')
<1>1. CASE Fades(data, data')
  BY <1>1, FadedUnique
<1>2. CASE ProgramChunk
  <2>1. /\ RecordAt(data', head) \in {logRecord, Blank}
        /\ \A s \in Slot \ {head} : RecordAt(data', s) \in {Rec(s), Blank}
    BY <1>2, DataStep
  <2>2. /\ logRecord \in Nat /\ \A s \in Slot : Rec(s) \in Nat
        /\ \A s \in Slot \ {head} : Rec(s) < logRecord
    BY <1>2, RecordNumber, BoundAssumption
       DEF ProgramChunk, NumberInv, Writing, TypeOK, DataType, Cells, Records, Rec,
           Blank
  <2> QED
    BY <2>1, <2>2 DEF UniqueIn, Rec
<1> QED
  BY <1>1, <1>2, DataStep

(* The record just checked is newer than the others.                       *)
LEMMA CheckedNewest ==
  ASSUME TypeOK, NumberInv, ChunkInv, CheckRecord
  PROVE  Rec(head) # Blank =>
           /\ Rec(head) = logRecord /\ logRecord \in Records
           /\ \A s \in Slot \ {head} : Rec(s) < Rec(head)
<1>1. pc = "check" /\ head \in Slot /\ i > 0
  BY SizeAssumption DEF CheckRecord, TypeOK, ChunkInv
<1>2. Rec(head) \in {logRecord, Blank}
  BY <1>1, HeadRecord DEF ChunkInv, Rec
<1> QED
  BY <1>1, <1>2 DEF NumberInv, Writing

(* Each step leaves the ring sorted by age.                                *)
LEMMA SortedStep ==
  ASSUME RingInv, TypeOK', OrderInv, ChunkInv', Next
  PROVE  SortedInv'
<1> SUFFICES ASSUME Promised'
             PROVE  SortedIn(data', tail', head')
  BY DEF SortedInv
<1>1. Promised /\ TailClear(head, tail)
  BY PromisedBefore
<1>0. /\ head \in Slot /\ tail \in Slot /\ TailClear(head, tail)
      /\ head' \in Slot /\ tail' \in Slot
      /\ TypeOK /\ head \notin Window(tail, head)
      /\ Window(tail, head) \subseteq Slot
      /\ restarts \in Nat /\ faults \in Nat
  BY <1>1, WindowType, BoundAssumption DEF RingInv, TypeOK
<1>2. SortedIn(data, tail, head)
  BY <1>1 DEF OrderInv, SortedInv
<1>3. \A s \in Window(tail, head) : RecordAt(data', s) \in {RecordAt(data, s), Blank}
  BY <1>0, DataStep DEF OrderInv, Fades, Rec
<1>4. SortedIn(data', tail, head)
  BY <1>0, <1>2, <1>3, FadedSorted
<1>5. CASE head' = head /\ tail' \in Window(tail, head) \cup {head}
  BY <1>0, <1>4, <1>5, SortedSuffix
<1>6. CASE head' = head /\ tail' = tail
  BY <1>4, <1>6
<1>7. CASE MakeRoom
  <2>1. tail' = PushedTail(head, tail) /\ head' = head
    BY <1>7 DEF MakeRoom, PushedTail
  <2> QED
    BY <1>0, <1>5, <2>1, PushedTailInside
<1>8. CASE CheckRecord
  <2>1. data' = data /\ head' = Succ(head) /\ tail' = tail /\ Succ(head) # tail
    BY <1>8 DEF CheckRecord, RingInv, RoomInv
  <2> QED
    BY <1>0, <1>2, <1>8, <2>1, CheckedNewest, SortedGrows DEF OrderInv, Rec
<1>9. CASE RingLogNext
  BY <1>0, <1>5, <1>9, NextTailInside DEF RingLogNext
<1>10. CASE LoadNextLog
  BY <1>0, <1>5, <1>10, LoadedTail
<1>11. CASE head' = 0 /\ tail' = 0
  <2>1. Window(0, 0) = {}
    BY RingSize DEF Window
  <2> QED
    BY <1>11, <2>1 DEF SortedIn
<1>12. CASE Restart
  <2>1. restarts = 0 /\ faults = 0
    BY <1>12, PromisedBefore
  <2>2. head' = RecoveredRing.head /\ tail' = RecoveredRing.tail
    BY <1>12 DEF Restart
  <2>3. CASE RecoveredRing = [head |-> head, tail |-> tail]
    BY <1>4, <2>2, <2>3
  <2>4. CASE Filled /\ RecoveredRing = [head |-> Saved.head, tail |-> Saved.tail]
    <3>1. SortedIn(data, tail', head')
      BY <2>1, <2>2, <2>4 DEF OrderInv, SavedOrderInv
    <3>2. Fades(data, data')
      BY <1>0, <1>12, DataStep, BoundAssumption DEF OrderInv, Restart, ProgramChunk
    <3>3. Window(tail', head') \subseteq Slot
      BY <1>0, WindowType
    <3> QED
      BY <1>0, <3>1, <3>2, <3>3, FadedSorted DEF Fades
  <2>5. CASE RecoveredRing = [head |-> 0, tail |-> 0]
    BY <1>11, <2>2, <2>5
  <2> QED
    BY <2>1, <2>3, <2>4, <2>5, Recovered DEF RingInv
<1>13. CASE SaveLog \/ GiveUp \/ ProgramChunk \/ ProgramHead \/ ProgramTail
            \/ ProgramCrc \/ CheckPos
  BY <1>6, <1>13 DEF SaveLog, GiveUp, ProgramChunk, ProgramHead, ProgramTail,
     ProgramCrc, ProgramPos, CheckPos
<1>14. CASE RingLogReset
  BY <1>11, <1>14 DEF RingLogReset
<1> QED
  BY <1>7, <1>8, <1>9, <1>10, <1>12, <1>13, <1>14 DEF Next, Step, Call

(* Each step leaves the slots outside the ring older.                      *)
LEMMA OlderStep ==
  ASSUME RingInv, TypeOK', OrderInv, ChunkInv', Next
  PROVE  OlderInv'
<1> SUFFICES ASSUME restarts' = 0, NEW s \in Window(tail', head'),
                    NEW q \in Slot \ Window(tail', head'),
                    RecordAt(data', s) # Blank
             PROVE  RecordAt(data', q) < RecordAt(data', s) \/ Writing(q)'
  BY DEF OlderInv, Older, Rec
<1>1. restarts = 0 /\ ~Restart
  <2>1. restarts \in Nat
    BY BoundAssumption DEF RingInv, TypeOK
  <2> QED
    BY <2>1, BoundAssumption DEF Next, Step, Call, SaveLog, GiveUp, MakeRoom,
       ProgramChunk, CheckRecord, ProgramHead, ProgramTail, ProgramCrc, ProgramPos,
       CheckPos, RingLogNext, LoadNextLog, RingLogReset, Restart, counters
<1>0. /\ head \in Slot /\ tail \in Slot /\ TailClear(head, tail)
      /\ head' \in Slot /\ tail' \in Slot
      /\ TypeOK /\ head \notin Window(tail, head)
      /\ Window(tail, head) \subseteq Slot /\ Window(tail', head') \subseteq Slot
  BY <1>1, WindowType DEF RingInv, TypeOK, ClearInv
<1>2. Older /\ SortedIn(data, tail, head)
  BY <1>1 DEF OrderInv, OlderInv, SortedInv, Promised
<1>3. \A r \in Slot : /\ Rec(r) \in Nat /\ RecordAt(data', r) \in Nat
                      /\ Rec(r) # Blank => Rec(r) > 0
  <2>1. data \in DataType /\ data' \in DataType
    BY <1>0 DEF TypeOK, DataType, Cells
  <2> QED
    BY <2>1, RecordNumber DEF Rec
<1>4. Blank = 0
  BY DEF Blank
<1>5. CASE s \in Window(tail, head) /\ RecordAt(data', s) = Rec(s)
           /\ RecordAt(data', q) = Blank
  BY <1>0, <1>3, <1>4, <1>5
<1>6. CASE /\ s \in Window(tail, head) /\ RecordAt(data', s) = Rec(s)
           /\ RecordAt(data', q) \in {Rec(q), Blank}
           /\ q \notin Window(tail, head) /\ ~Writing(q)
  BY <1>2, <1>5, <1>6 DEF Older
<1>7. CASE SaveLog \/ GiveUp \/ ProgramHead \/ ProgramTail \/ ProgramCrc \/ CheckPos
  <2>1. /\ data' = data /\ head' = head /\ tail' = tail
        /\ pc \notin {"chunk", "check"}
    BY <1>7 DEF SaveLog, GiveUp, ProgramHead, ProgramTail, ProgramCrc, ProgramPos,
       CheckPos
  <2> QED
    BY <1>6, <2>1 DEF Writing, Rec
<1>8. CASE MakeRoom
  <2>1. /\ pc = "try" /\ tail' = PushedTail(head, tail) /\ head' = head
        /\ data' = IF SectorOf(Succ(head)) # SectorOf(head)
                   THEN EraseSector(data, SectorOf(Succ(head))) ELSE data
    BY <1>8 DEF MakeRoom, PushedTail
  <2>2. Fades(data, data')
    BY <1>0, <1>8, DataStep DEF OrderInv, MakeRoom, ProgramChunk
  <2>3. s \in Window(tail, head)
    BY <1>0, <2>1, PushedOut
  <2>4. q \in Window(tail, head) => RecordAt(data', q) = Blank
    BY <1>0, <2>1, PushedOut, ErasedUnreadable DEF Readable, TypeOK, DataType, Cells
  <2>5. RecordAt(data', s) = Rec(s) /\ RecordAt(data', q) \in {Rec(q), Blank}
    BY <1>0, <2>2 DEF Fades, Rec
  <2> QED
    BY <1>5, <1>6, <2>1, <2>3, <2>4, <2>5 DEF Writing
<1>9. CASE ProgramChunk
  <2>1. /\ pc = "chunk" /\ head' = head /\ tail' = tail /\ i' = i + 1
        /\ pc' \in {"chunk", "check"} /\ logRecord \in Records
    BY <1>9 DEF ProgramChunk, OrderInv, NumberInv
  <2>2. i \in Nat
    BY <1>9, <2>1, ChunkWritten, <1>0, SizeAssumption
  <2>3. CASE q = head
    BY <2>1, <2>2, <2>3 DEF Writing
  <2>4. CASE q # head
    <3>1. /\ RecordAt(data', s) \in {Rec(s), Blank}
          /\ RecordAt(data', q) \in {Rec(q), Blank}
      BY <1>0, <1>9, <2>1, <2>4, DataStep DEF OrderInv
    <3> QED
      BY <1>6, <2>1, <2>4, <3>1 DEF Writing
  <2> QED
    BY <2>3, <2>4
<1>10. CASE CheckRecord
  <2>1. /\ pc = "check" /\ data' = data /\ head' = Succ(head) /\ tail' = tail
        /\ Succ(head) # tail
    BY <1>10 DEF CheckRecord, RingInv, RoomInv
  <2>2. Window(tail', head') = Window(tail, head) \cup {head}
    BY <1>0, <2>1, WindowGrows
  <2>3. CASE s = head
    BY <1>0, <1>10, <2>1, <2>2, <2>3, CheckedNewest DEF OrderInv, Rec
  <2>4. CASE s # head
    BY <1>6, <2>1, <2>2, <2>4 DEF Writing, Rec
  <2> QED
    BY <2>3, <2>4
<1>11. CASE RingLogNext
  <2>1. /\ pc = "idle" /\ data' = data /\ head' = head /\ tail' = Succ(tail)
        /\ tail # head
    BY <1>11 DEF RingLogNext
  <2>2. s \in Window(tail, head)
    BY <1>0, <2>1, NextTailInside
  <2>3. CASE q \in Window(tail, head)
    <3>1. q \in Window(tail, s)
      BY <1>0, <2>1, <2>2, <2>3, NextTailInside, WindowSuffix
    <3>2. Rec(q) = Blank \/ Rec(q) < Rec(s)
      BY <1>2, <2>1, <2>2, <3>1 DEF SortedIn, Rec
    <3> QED
      BY <1>0, <1>3, <1>4, <2>1, <2>2, <3>2 DEF Rec
  <2>4. CASE q \notin Window(tail, head)
    BY <1>6, <2>1, <2>2, <2>4 DEF Writing, Rec
  <2> QED
    BY <2>3, <2>4
<1>12. CASE LoadNextLog
  <2>1. pc = "idle" /\ data' = data /\ head' = head
    BY <1>12 DEF LoadNextLog
  <2>2. s \in Window(tail, head)
    BY <1>0, <1>12, <2>1, LoadedTail, WindowSuffix
  <2>3. q \in Window(tail, head) => RecordAt(data', q) = Blank
    BY <1>0, <1>12, <2>1, SkippedUnreadable DEF Readable
  <2> QED
    BY <1>5, <1>6, <2>1, <2>2, <2>3 DEF Writing, Rec
<1>13. CASE RingLogReset
  <2>1. Window(tail', head') = {}
    BY <1>13, RingSize DEF RingLogReset, Window
  <2> QED
    BY <2>1
<1> QED
  BY <1>1, <1>7, <1>8, <1>9, <1>10, <1>11, <1>12, <1>13 DEF Next, Step, Call

(* The indices of the last save are slots.                                 *)
LEMMA SavedType ==
  ASSUME TypeOK, Filled
  PROVE  Saved.head \in Slot /\ Saved.tail \in Slot
<1>1. logPositionCnt - 1 \in 0 .. NPos - 1
  BY BoundAssumption DEF TypeOK, Filled
<1>2. Saved \in PosEntry /\ Saved.head < N /\ Saved.tail < N
  BY <1>1 DEF TypeOK, Saved, Filled, Good, InRange
<1> QED
  BY <1>2, RingSize, FieldAssumption DEF PosEntry, Slot

(* Each step leaves the ring of the last save in order.                    *)
LEMMA SavedOrderStep ==
  ASSUME RingInv, TypeOK', OrderInv, ChunkInv', Next
  PROVE  SavedOrderInv'
<1> SUFFICES ASSUME Filled', faults' = 0
             PROVE  /\ SortedIn(data', Saved'.tail, Saved'.head)
                    /\ ApartIn(data', Saved'.tail, Saved'.head)
                    /\ pc' \in Storing => Saved'.head = head'
  BY DEF SavedOrderInv
<1>0. /\ TypeOK /\ data \in DataType /\ data' \in DataType
      /\ restarts \in Nat /\ faults \in Nat
  BY BoundAssumption DEF RingInv, TypeOK, DataType, Cells
<1>1. restarts = 0 /\ faults = 0 /\ ~Restart
  BY <1>0, BoundAssumption DEF Filled, Next, Step, Call, SaveLog, GiveUp, MakeRoom,
     ProgramChunk, CheckRecord, ProgramHead, ProgramTail, ProgramCrc, ProgramPos,
     CheckPos, RingLogNext, LoadNextLog, RingLogReset, Restart, counters
<1>2. CASE /\ CheckPos /\ pc' = "idle"
           /\ Saved'.head = head' /\ Saved'.tail = tail'
  <2>1. data' = data /\ head' = head /\ tail' = tail /\ pc = "posCheck"
    BY <1>2 DEF CheckPos
  <2>2. SortedIn(data, tail, head) /\ Older
    BY <1>1 DEF OrderInv, SortedInv, OlderInv, Promised
  <2>3. ApartIn(data, tail, head)
    BY <2>1, <2>2 DEF ApartIn, ApartFrom, Older, Writing, Rec
  <2> QED
    BY <1>2, <2>1, <2>2, <2>3
<1>3. CASE Filled /\ Saved' = Saved /\ ~CheckPos
  <2> DEFINE h == Saved.head
             t == Saved.tail
  <2>0. h \in Slot /\ t \in Slot
    BY <1>0, <1>3, SavedType
  <2>1. /\ SortedIn(data, t, h) /\ ApartIn(data, t, h)
        /\ pc \in Storing => h = head
    BY <1>1, <1>3 DEF OrderInv, SavedOrderInv
  <2>2. Window(t, h) \subseteq Slot /\ h \notin Window(t, h)
    BY <2>0, WindowType
  <2> HIDE DEF h, t
  <2>3. SortedIn(data', t, h) /\ ApartIn(data', t, h)
    <3>1. CASE Fades(data, data')
      <4>1. SortedIn(data', t, h)
        BY <2>0, <2>1, <2>2, <3>1, FadedSorted DEF Fades
      <4>2. ApartIn(data', t, h)
        BY <1>0, <2>0, <2>1, <2>2, <3>1, FadedApart DEF Fades, ApartIn
      <4> QED
        BY <4>1, <4>2
    <3>2. CASE ProgramChunk
      <4>1. pc = "chunk" /\ h = head
        BY <2>1, <3>2 DEF ProgramChunk, Storing
      <4>2. /\ RecordAt(data', head) \in {logRecord, Blank}
            /\ \A s \in Slot \ {head} : RecordAt(data', s) \in {Rec(s), Blank}
        BY <1>0, <3>2, DataStep DEF OrderInv
      <4>3. /\ logRecord \in Records /\ logRecord \in Nat
            /\ \A s \in Slot : Rec(s) \in Nat
            /\ \A s \in Slot \ {head} : Rec(s) < logRecord
        BY <1>0, <4>1, RecordNumber, BoundAssumption
           DEF OrderInv, NumberInv, Writing, Records, Rec
      <4>4. SortedIn(data', t, h)
        BY <2>0, <2>1, <2>2, <4>1, <4>2, FadedSorted DEF Rec
      <4>5. ASSUME NEW q \in Slot \ Window(t, h)
            PROVE  ApartFrom(data', q, t, h)
        <5>1. CASE q # head
          BY <1>0, <2>0, <2>1, <2>2, <4>1, <4>2, <4>5, <5>1, FadedApart
             DEF Rec, ApartIn
        <5>2. CASE q = head /\ RecordAt(data', q) = logRecord
          <6>1. \A s \in Window(t, h) : RecordAt(data', s) < RecordAt(data', q)
            BY <2>2, <4>1, <4>2, <4>3, <5>2, BoundAssumption DEF Rec, Blank, Records
          <6> QED
            BY <6>1 DEF ApartFrom
        <5>3. CASE q = head /\ RecordAt(data', q) = Blank
          <6>1. \A s \in Window(t, h) : RecordAt(data', s) # Blank
                  => RecordAt(data', q) < RecordAt(data', s)
            BY <2>2, <4>1, <4>2, <4>3, <5>3 DEF Rec, Blank
          <6> QED
            BY <6>1 DEF ApartFrom
        <5> QED
          BY <4>2, <5>1, <5>2, <5>3
      <4> QED
        BY <4>4, <4>5 DEF ApartIn
    <3> QED
      BY <1>0, <3>1, <3>2, DataStep DEF OrderInv
  <2>4. ASSUME pc' \in Storing PROVE h = head'
    <3>1. CASE CheckRecord
      <4>1. pc = "check" /\ ~Readable(data, head)
        BY <2>4, <3>1 DEF CheckRecord, Storing
      <4>2. /\ \A j \in 0 .. RecSize - 1 : data[head * RecSize + j] = logRecord
            /\ logRecord \in Records
        BY <1>1, <4>1 DEF OrderInv, ChunkInv, NumberInv
      <4>3. data[head * RecSize] = logRecord
        <5>1. 0 \in 0 .. RecSize - 1 /\ head * RecSize + 0 = head * RecSize
          BY <1>0, SizeAssumption DEF TypeOK, Slot
        <5> QED
          BY <4>2, <5>1
      <4>4. Readable(data, head)
        BY <4>2, <4>3, BoundAssumption
           DEF Readable, RecordAt, Records, Junk, Blank
      <4> QED
        BY <4>1, <4>4
    <3>2. CASE head' = head /\ pc \in Storing
      BY <2>1, <3>2
    <3> QED
      BY <1>1, <1>3, <2>4, <3>1, <3>2 DEF Storing, Next, Step, Call, SaveLog, GiveUp,
         MakeRoom, ProgramChunk, ProgramHead, ProgramTail, ProgramCrc, ProgramPos,
         RingLogNext, LoadNextLog, RingLogReset
  <2> QED
    BY <1>3, <2>3, <2>4 DEF h, t
<1> QED
  BY <1>0, <1>2, <1>3, SavedStep

(* An empty log is in order.                                               *)
LEMMA OrderInit == ASSUME Init PROVE OrderInv
<1>1. /\ head = 0 /\ tail = 0 /\ pc = "idle" /\ logPositionCnt = 0 /\ nextRec = 1
      /\ \A a \in Area : data[a] = Blank
  BY DEF Init, Area
<1>2. \A s \in Slot : RecordAt(data, s) = Blank
  <2> TAKE s \in Slot
  <2>1. s * RecSize = s * RecSize + 0 /\ s * RecSize + 0 \in Area
    BY SlotCells, SizeAssumption DEF Slot, Area
  <2> QED
    BY <1>1, <2>1 DEF RecordAt
<1>3. Window(tail, head) = {}
  BY <1>1, RingSize DEF Window
<1>4. NumberInv /\ ChunkInv /\ SpillInv
  BY <1>1, <1>2 DEF NumberInv, ChunkInv, SpillInv, Rec, Blank
<1>5. FreshInv /\ UniqueIn(data)
  BY <1>1, <1>2 DEF FreshInv, UniqueIn
<1>6. SortedInv /\ OlderInv
  BY <1>3 DEF SortedInv, SortedIn, OlderInv, Older
<1>7. SavedOrderInv
  BY <1>1 DEF SavedOrderInv, Filled
<1> QED
  BY <1>4, <1>5, <1>6, <1>7 DEF OrderInv

(* The ring is in order at all times.                                      *)
LEMMA OrderCorrect == Spec => [](RingInv /\ OrderInv)
<1>1. RingInv /\ OrderInv /\ RingInv' /\ [Next]_vars => OrderInv'
  <2> SUFFICES ASSUME RingInv, OrderInv, RingInv', [Next]_vars
               PROVE  OrderInv'
    OBVIOUS
  <2>1. CASE Next
    <3>1. TypeOK /\ TypeOK' /\ NumberInv /\ ChunkInv /\ FreshInv /\ SpillInv
          /\ UniqueIn(data)
      BY DEF RingInv, OrderInv
    <3>2. ChunkInv'
      BY <2>1, <3>1, ChunkStep
    <3>3. NumberInv' /\ SpillInv' /\ FreshInv' /\ UniqueIn(data')
      BY <2>1, <3>1, <3>2, NumberStep, SpillStep, FreshStep, UniqueStep
    <3>4. SortedInv' /\ OlderInv' /\ SavedOrderInv'
      BY <2>1, <3>1, <3>2, SortedStep, OlderStep, SavedOrderStep
    <3> QED
      BY <3>2, <3>3, <3>4 DEF OrderInv
  <2>2. CASE UNCHANGED vars
    BY <2>2 DEF vars, ram, counters, OrderInv, NumberInv, ChunkInv, SpillInv, FreshInv,
       SortedInv, Promised, OlderInv, Older, SavedOrderInv, Rec, Writing, Cursor, Point, Saved,
       Filled, Good, InRange, Checksum, ByteSum
  <2> QED
    BY <2>1, <2>2
<1> QED
  BY <1>1, OrderInit, RingCorrect, PTL DEF Spec
-----------------------------------------------------------------------------
(* Erasing slots from the tail on, and slots that are not in the ring, is  *)
(* a Discard of the queue.                                                 *)
LEMMA ErasingDiscards ==
  ASSUME TypeOK, UniqueIn(data), SortedIn(data, tail, head), Fades(data, data'),
         head' = head, tail' \in Window(tail, head) \cup {head},
         UNCHANGED <<cleared, restarts>>,
         \A s \in Window(tail', head) : RecordAt(data', s) = Rec(s),
         \A s \in Window(tail, head) \ Window(tail', head) :
           RecordAt(data', s) = Blank
  PROVE  Abs!Discard
<1> DEFINE gone == Intact \ Intact'
<1>0. head \in Slot /\ tail \in Slot
  BY DEF TypeOK
<1>1. /\ Window(tail, head) \subseteq Slot
      /\ Window(tail', head) \subseteq Window(tail, head)
  BY <1>0, WindowType, WindowSuffix
<1>2. Intact' = {RecordAt(data', s) : s \in Slot} \ {Blank}
  BY DEF Intact
<1>3. Pending' = {RecordAt(data', s) : s \in Window(tail', head)} \ {Blank}
  BY DEF Pending
<1>4. Intact' \subseteq Intact
  BY <1>2 DEF Fades, Intact
<1>5. Pending \subseteq Intact /\ Pending' \subseteq Intact'
  BY <1>1, <1>2, <1>3 DEF Pending, Intact
<1>6. Pending' = Pending \ gone
  <2>1. ASSUME NEW x \in Pending' PROVE x \in Pending \ gone
    <3>1. PICK s \in Window(tail', head) : x = RecordAt(data', s) /\ x # Blank
      BY <1>3
    <3>2. x = Rec(s) /\ s \in Window(tail, head)
      BY <1>1, <3>1
    <3> QED
      BY <1>5, <2>1, <3>1, <3>2 DEF Pending, Rec
  <2>2. ASSUME NEW x \in Pending, x \notin gone PROVE x \in Pending'
    <3>1. PICK s \in Window(tail, head) : x = Rec(s) /\ x # Blank
      BY DEF Pending, Rec
    <3>2. x \in Intact'
      BY <1>5, <2>2
    <3>3. PICK q \in Slot : x = RecordAt(data', q)
      BY <1>2, <3>2
    <3>4. x = Rec(q)
      BY <3>1, <3>3 DEF Fades, Rec
    <3>5. q = s
      BY <1>1, <3>1, <3>4 DEF UniqueIn, Rec
    <3>6. s \in Window(tail', head)
      BY <3>1, <3>3, <3>5
    <3> QED
      BY <1>3, <3>1, <3>3, <3>5, <3>6
  <2> QED
    BY <2>1, <2>2
<1>7. ASSUME NEW r \in gone \cap Pending, NEW q \in Pending' PROVE r < q
  <2>1. PICK s \in Window(tail, head) : r = Rec(s) /\ r # Blank
    BY DEF Pending, Rec
  <2>2. PICK u \in Window(tail', head) : q = RecordAt(data', u) /\ q # Blank
    BY <1>3
  <2>3. s \notin Window(tail', head)
    <3> SUFFICES ASSUME s \in Window(tail', head) PROVE FALSE
      OBVIOUS
    <3>1. RecordAt(data', s) = r /\ s \in Slot
      BY <1>1, <2>1
    <3>2. r \in Intact'
      BY <1>2, <2>1, <3>1
    <3> QED
      BY <3>2
  <2>4. s \in Window(tail, u) /\ u \in Window(tail, head)
    BY <1>0, <1>1, <2>3, WindowSuffix
  <2>5. q = Rec(u)
    BY <2>2
  <2> QED
    BY <2>1, <2>2, <2>4, <2>5 DEF SortedIn, Rec
<1>8. Intact' = Intact \ gone /\ gone \in SUBSET Intact
  BY <1>4
<1> HIDE DEF gone
<1>9. UNCHANGED Abs!calls
  BY DEF Abs!calls
<1> QED
  BY <1>6, <1>7, <1>8, <1>9 DEF Abs!Discard

(* The chunk that completes a record erases nothing on the way.            *)
LEMMA CompletingKeeps ==
  ASSUME RecSize >= 2, RingInv, OrderInv, ProgramChunk,
         RecordAt(data', head) = logRecord, Rec(head) # logRecord
  PROVE  /\ Rec(head) = Blank
         /\ \A s \in Slot \ {head} : RecordAt(data', s) = Rec(s)
<1> DEFINE h == head * RecSize
<1>0. /\ TypeOK /\ pc = "chunk" /\ logRecord \in Records
      /\ data \in DataType /\ SectorSize \in Nat \ {0} /\ RecSize \in Nat
  BY SizeAssumption DEF RingInv, OrderInv, NumberInv, ProgramChunk, TypeOK, DataType, Cells
<1>1. /\ i \in 0 .. RecSize - 1 /\ Cursor \in Area /\ head \in Slot
      /\ \A b \in Area \ {Cursor} :
           data'[b] = IF Cursor % SectorSize = 0
                         /\ b \div SectorSize = Cursor \div SectorSize
                      THEN Blank ELSE data[b]
      /\ Cursor % SectorSize # 0 /\ data'[Cursor] = logRecord
           => data[Cursor] \in {Blank, logRecord}
  BY <1>0, ChunkWritten
<1>2. h \in Nat /\ Cursor = h + i /\ Cursor \in Nat
  BY <1>1, SizeAssumption DEF Slot, Cursor
<1>3. logRecord # Junk /\ logRecord # Blank
  BY <1>0, BoundAssumption DEF Records, Junk, Blank
<1>4. /\ data'[h] = logRecord
      /\ \A j \in 0 .. RecSize - 1 : data'[h + j] = logRecord
  BY <1>3 DEF RecordAt
<1>5. i = 0 => Cursor % SectorSize # 0
  <2> SUFFICES ASSUME i = 0, Cursor % SectorSize = 0 PROVE FALSE
    OBVIOUS
  <2>1. Cursor = h /\ h + 1 \in Area /\ h + 1 # Cursor
    <3>1. 1 \in 0 .. RecSize - 1
      BY <1>0
    <3>2. h + 1 \in Area
      BY <1>1, <3>1, SlotCells DEF Area
    <3> HIDE DEF h
    <3> QED
      BY <1>2, <3>2
  <2>2. (h + 1) \div SectorSize = h \div SectorSize
    <3>1. SectorSize >= 2
      BY <1>0, SizeAssumption
    <3>2. h = SectorSize * (h \div SectorSize) + 0 /\ h \div SectorSize \in Nat
          /\ (h \div SectorSize) * SectorSize <= h
      <4> HIDE DEF h
      <4> QED
        BY <1>0, <1>2, <2>1, Division
    <3> DEFINE q == h \div SectorSize
    <3>3. (q + 1) * SectorSize = SectorSize * q + SectorSize
      BY <3>2, <1>0
    <3> HIDE DEF q, h
    <3>4. q * SectorSize <= h + 1 /\ h + 1 < (q + 1) * SectorSize
          /\ q \in Nat /\ h + 1 \in Nat
      BY <1>0, <1>2, <3>1, <3>2, <3>3 DEF q
    <3>5. q <= (h + 1) \div SectorSize /\ (h + 1) \div SectorSize < q + 1
      BY <1>0, <3>4, QuotientBounds
    <3>6. (h + 1) \div SectorSize \in Nat
      BY <1>0, <3>4, Division
    <3> QED
      BY <3>4, <3>5, <3>6 DEF q
  <2>3. data'[h + 1] = Blank
    BY <1>1, <2>1, <2>2
  <2>4. data'[h + 1] = logRecord
    <3>1. 1 \in 0 .. RecSize - 1
      BY <1>0
    <3> QED
      BY <1>4, <3>1
  <2> QED
    BY <1>3, <2>3, <2>4
<1>6. Rec(head) = Blank
  <2>1. CASE i > 0
    <3>1. Rec(head) \in {logRecord, Blank}
      BY <1>0, <1>1, <2>1, HeadRecord DEF OrderInv, ChunkInv, Rec
    <3> QED
      BY <3>1
  <2>2. CASE i = 0
    <3>1. data[h] \in {Blank, logRecord}
      BY <1>1, <1>2, <1>4, <1>5, <2>2
    <3>2. Rec(head) \in {Blank, logRecord}
      BY <3>1 DEF Rec, RecordAt
    <3> QED
      BY <3>2
  <2> QED
    BY <1>1, <2>1, <2>2
<1>7. ASSUME NEW s \in Slot \ {head}, NEW j \in 0 .. RecSize - 1
      PROVE  data'[s * RecSize + j] = data[s * RecSize + j]
  <2> DEFINE b == s * RecSize + j
  <2>1. b \in Area /\ b # Cursor
    BY <1>1, SlotCells, SlotsDisjoint DEF Area, Cursor
  <2>2. CASE ~(Cursor % SectorSize = 0 /\ b \div SectorSize = Cursor \div SectorSize)
    BY <1>1, <2>1, <2>2
  <2>3. CASE Cursor % SectorSize = 0 /\ b \div SectorSize = Cursor \div SectorSize
    <3>1. i > 0
      BY <1>1, <1>5, <2>3
    <3>2. b >= Cursor
      <4> SUFFICES ASSUME b < Cursor PROVE FALSE
        BY <1>2, <2>1 DEF Area
      <4>1. b \in Nat
        BY <2>1 DEF Area
      <4> QED
        BY <1>2, <2>3, <4>1, EarlierSector
    <3>3. s > head
      <4> SUFFICES ASSUME s < head PROVE FALSE
        BY <1>1, RingSize DEF Slot
      <4>1. (s + 1) * RecSize <= head * RecSize
        BY <1>0, <1>1, TimesMonotone DEF Slot
      <4>2. (s + 1) * RecSize = s * RecSize + RecSize /\ s * RecSize \in Nat
        BY <1>0 DEF Slot
      <4>3. h \in Nat /\ (s + 1) * RecSize <= h /\ Cursor = h + i /\ i \in Nat
        BY <1>1, <1>2, <4>1
      <4> HIDE DEF h
      <4> QED
        BY <1>0, <3>2, <4>2, <4>3
    <3>4. Succ(head) = head + 1 /\ Succ(head) \in Slot
      BY <1>1, <3>3, RingSize DEF Succ, Slot
    <3>5. SectorOf(Succ(head)) = Cursor \div SectorSize
          /\ SectorOf(Succ(head)) # SectorOf(head)
      <4> DEFINE q == Cursor \div SectorSize
                 n == (head + 1) * RecSize
      <4>1. n = h + RecSize /\ n \in Nat
        BY <1>0, <1>1 DEF Slot
      <4>2. Cursor = SectorSize * q + 0 /\ q \in Nat
        <5>1. Cursor % SectorSize = 0
          BY <2>3
        <5> QED
          BY <1>0, <1>2, <5>1, Division
      <4>3. q * SectorSize = Cursor /\ (q + 1) * SectorSize = Cursor + SectorSize
        <5> HIDE DEF q
        <5> QED
          BY <1>0, <4>2
      <4>4. RecSize <= SectorSize
        BY SizeAssumption
      <4> HIDE DEF q, n, h
      <4>5. q * SectorSize <= n /\ n < (q + 1) * SectorSize /\ h < q * SectorSize
        BY <1>0, <1>1, <1>2, <3>1, <4>1, <4>3, <4>4
      <4>6. q <= n \div SectorSize /\ n \div SectorSize < q + 1
            /\ h \div SectorSize < q
        BY <1>0, <1>2, <4>1, <4>2, <4>5, QuotientBounds
      <4>7. n \div SectorSize \in Nat /\ h \div SectorSize \in Nat
        BY <1>0, <1>2, <4>1, Division
      <4>8. n \div SectorSize = q /\ h \div SectorSize # q
        BY <4>2, <4>6, <4>7
      <4> QED
        BY <3>4, <4>8 DEF SectorOf, n, h, q
    <3>6. data[b] = Blank
      BY <1>0, <2>1, <2>3, <3>2, <3>5 DEF OrderInv, SpillInv
    <3> QED
      BY <1>1, <2>1, <2>3, <3>6
  <2> QED
    BY <2>2, <2>3
<1>8. ASSUME NEW s \in Slot \ {head}
      PROVE  RecordAt(data', s) = RecordAt(data, s)
  <2>1. s * RecSize = s * RecSize + 0 /\ 0 \in 0 .. RecSize - 1
    BY <1>0 DEF Slot
  <2>2. data'[s * RecSize] = data[s * RecSize]
    BY <1>7, <2>1
  <2> QED
    BY <1>7, <2>2 DEF RecordAt
<1> QED
  BY <1>6, <1>8 DEF Rec

(* A ring set apart from the rest of the flash is a stretch of what is     *)
(* intact.                                                                 *)
InSlots(d, S) == {RecordAt(d, s) : s \in S} \ {Blank}

(* A ring apart from the other slots is a stretch of the records.          *)
LEMMA ApartStretch ==
  ASSUME NEW d \in DataType, NEW t \in Slot, NEW h \in Slot, ApartIn(d, t, h)
  PROVE  \E lo, hi \in {0} \cup Records :
           InSlots(d, Window(t, h)) = Abs!StretchOf(InSlots(d, Slot), lo, hi)
<1> DEFINE P == InSlots(d, Window(t, h))
           K == InSlots(d, Slot)
<1>1. Window(t, h) \subseteq Slot
  BY WindowType
<1>2. \A s \in Slot : RecordAt(d, s) \in {Blank} \cup Records
  BY RecordType
<1>3. P \subseteq K /\ P \subseteq Records /\ K \subseteq Records
  BY <1>1, <1>2 DEF InSlots
<1>4. CASE P = {}
  <2>1. Abs!StretchOf(K, 0, 0) = {}
    BY <1>3, BoundAssumption DEF Abs!StretchOf, Records
  <2> QED
    BY <1>4, <2>1
<1>5. CASE P # {}
  <2>1. MaxRec \in Nat /\ P \in SUBSET (0 .. MaxRec)
    BY <1>3, BoundAssumption DEF Records
  <2> HIDE DEF P, K
  <2>2. PICK a \in P : \A y \in P : a <= y
    BY <1>5, <2>1, MinExists
  <2>3. PICK b \in P : \A y \in P : b >= y
    BY <1>5, <2>1, MaxExists
  <2>4. a \in Records /\ b \in Records /\ a - 1 \in {0} \cup Records
    BY <1>3, <2>2, <2>3, BoundAssumption DEF Records
  <2>5. ASSUME NEW x \in P PROVE x \in K /\ a - 1 < x /\ x <= b
    BY <1>3, <2>2, <2>3, <2>5, BoundAssumption DEF Records
  <2>6. ASSUME NEW x \in K, a - 1 < x, x <= b PROVE x \in P
    <3>1. PICK q \in Slot : x = RecordAt(d, q) /\ x # Blank
      BY <2>6 DEF K, InSlots
    <3>2. CASE q \in Window(t, h)
      BY <3>1, <3>2 DEF P, InSlots
    <3>3. CASE q \notin Window(t, h)
      <4>1. PICK s \in Window(t, h) : a = RecordAt(d, s) /\ a # Blank
        BY DEF P, InSlots
      <4>2. PICK u \in Window(t, h) : b = RecordAt(d, u)
        BY DEF P, InSlots
      <4>3. x < a \/ b < x
        BY <3>1, <3>3, <4>1, <4>2 DEF ApartIn, ApartFrom
      <4>4. x \in Nat /\ a \in Nat /\ b \in Nat
        BY <1>3, <2>4, <2>6, BoundAssumption DEF Records
      <4> QED
        BY <2>6, <4>3, <4>4
    <3> QED
      BY <3>2, <3>3
  <2>7. P = Abs!StretchOf(K, a - 1, b)
    BY <2>5, <2>6 DEF Abs!StretchOf
  <2> QED
    BY <2>4, <2>7 DEF P, K
<1> QED
  BY <1>4, <1>5

(* The first restart, when no program has failed, is a Recover of the      *)
(* queue.                                                                  *)
LEMMA RestartRecovers ==
  ASSUME RingInv, TypeOK', OrderInv, ChunkInv', Restart,
         restarts = 0, faults = 0
  PROVE  Abs!Recover
<1>0. /\ TypeOK /\ data \in DataType /\ data' \in DataType
      /\ head \in Slot /\ tail \in Slot /\ head' \in Slot /\ tail' \in Slot
  BY DEF RingInv, TypeOK, DataType, Cells
<1>1. Fades(data, data')
  <2>1. Next /\ ~ProgramChunk
    BY DEF Next, Restart, ProgramChunk
  <2> QED
    BY <1>0, <2>1, DataStep DEF OrderInv
<1>2. head' = RecoveredRing.head /\ tail' = RecoveredRing.tail
      /\ cleared' = cleared /\ restarts' = restarts + 1
  BY DEF Restart
<1>3. ASSUME ApartIn(data, tail', head') PROVE ApartIn(data', tail', head')
  <2>1. Window(tail', head') \subseteq Slot
    BY <1>0, WindowType
  <2> QED
    BY <1>0, <1>1, <1>3, <2>1, FadedApart DEF Fades, ApartIn
<1>4. ApartIn(data', tail', head')
  <2>1. CASE pc \in Programming /\ RecoveredRing = [head |-> head, tail |-> tail]
    <3>1. ApartIn(data, tail, head)
      BY <2>1 DEF OrderInv, OlderInv, Older, ApartIn, ApartFrom, Writing, Rec,
         Programming
    <3> QED
      BY <1>2, <1>3, <2>1, <3>1
  <2>2. CASE Filled /\ RecoveredRing = [head |-> Saved.head, tail |-> Saved.tail]
    BY <1>2, <1>3, <2>2 DEF OrderInv, SavedOrderInv
  <2>3. CASE RecoveredRing = [head |-> 0, tail |-> 0]
    <3>1. Window(tail', head') = {}
      BY <1>2, <2>3, RingSize DEF Window
    <3> QED
      BY <3>1 DEF ApartIn, ApartFrom
  <2> QED
    BY <1>0, <2>1, <2>2, <2>3, Recovered DEF RingInv
<1>5. /\ Intact' = InSlots(data', Slot)
      /\ Pending' = InSlots(data', Window(tail', head'))
  BY DEF Intact, Pending, InSlots
<1>6. Intact' \subseteq Intact
  BY <1>1, <1>5 DEF Intact, InSlots, Fades
<1>7. \E lo, hi \in {0} \cup Records : Pending' = Abs!StretchOf(Intact', lo, hi)
  BY <1>0, <1>4, <1>5, ApartStretch
<1> DEFINE gone == Intact \ Intact'
<1>8. gone \in SUBSET Intact /\ Intact' = Intact \ gone
  BY <1>6
<1> HIDE DEF gone
<1> QED
  BY <1>2, <1>7, <1>8 DEF Abs!Recover

(* Every step of the ring is a step of the queue, or none of its business. *)
LEMMA QueueStep ==
  ASSUME RecSize >= 2, RingInv, RingInv', OrderInv, OrderInv', Next
  PROVE  \/ (restarts > 1 \/ (restarts > 0 /\ faults > 0))'
         \/ Abs!Next
         \/ UNCHANGED Abs!avars
<1> SUFFICES ASSUME Promised'
             PROVE  Abs!Next \/ UNCHANGED Abs!avars
  BY BoundAssumption DEF RingInv, TypeOK, Promised
<1>1. Promised /\ TailClear(head, tail)
  BY PromisedBefore
<1>0. /\ TypeOK /\ TypeOK' /\ head \in Slot /\ tail \in Slot
      /\ data \in DataType /\ restarts \in Nat /\ faults \in Nat
      /\ NumberInv /\ ChunkInv' /\ UniqueIn(data) /\ TailClear(head, tail)
  BY <1>1, BoundAssumption DEF RingInv, TypeOK, OrderInv, DataType, Cells
<1>2. SortedIn(data, tail, head)
  BY <1>1 DEF OrderInv, SortedInv
<1>3. ASSUME Intact' = Intact, Pending' = Pending, UNCHANGED <<cleared, restarts>>
      PROVE  UNCHANGED Abs!avars
  BY <1>3 DEF Abs!avars, Abs!calls
<1>4. Window(tail, head) \subseteq Slot /\ head \notin Window(tail, head)
  BY <1>0, WindowType
<1>5. CASE UNCHANGED <<data, head, tail, cleared, restarts>>
  BY <1>3, <1>5 DEF Intact, Pending, Window
<1>6. CASE MakeRoom
  <2>1. /\ pc = "try" /\ tail' = PushedTail(head, tail) /\ head' = head
        /\ UNCHANGED <<cleared, restarts>>
        /\ data' = IF SectorOf(Succ(head)) # SectorOf(head)
                   THEN EraseSector(data, SectorOf(Succ(head))) ELSE data
    BY <1>6 DEF MakeRoom, PushedTail, counters
  <2>2. Fades(data, data')
    BY <1>0, <1>6, DataStep DEF MakeRoom, ProgramChunk
  <2>3. tail' \in Window(tail, head) \cup {head}
    BY <1>0, <2>1, PushedTailInside
  <2>4. ASSUME NEW s \in Window(tail', head) PROVE RecordAt(data', s) = Rec(s)
    <3>1. CASE SectorOf(Succ(head)) = SectorOf(head)
      BY <2>1, <3>1 DEF Rec
    <3>2. CASE SectorOf(Succ(head)) # SectorOf(head)
      <4>1. s \in Slot
        BY <1>0, <2>1, PushedTailApart, WindowType
      <4>2. \A j \in 0 .. RecSize - 1 : data'[s * RecSize + j] = data[s * RecSize + j]
        <5> TAKE j \in 0 .. RecSize - 1
        <5>1. (s * RecSize + j) \div SectorSize # SectorOf(Succ(head))
          BY <1>0, <2>1, <2>4, <3>2, ErasedApart
        <5>2. s * RecSize + j \in 0 .. DataSize - 1
          BY <4>1, SlotCells
        <5> QED
          BY <1>0, <2>1, <3>2, <5>1, <5>2 DEF EraseSector, DataType
      <4>3. s * RecSize = s * RecSize + 0 /\ 0 \in 0 .. RecSize - 1
        BY <4>1, SizeAssumption DEF Slot
      <4>4. data'[s * RecSize] = data[s * RecSize]
        BY <4>2, <4>3
      <4> QED
        BY <4>2, <4>4 DEF Rec, RecordAt
    <3> QED
      BY <3>1, <3>2
  <2>5. ASSUME NEW s \in Window(tail, head) \ Window(tail', head)
        PROVE  RecordAt(data', s) = Blank
    BY <1>0, <1>4, <2>1, <2>5, PushedOut, ErasedUnreadable DEF Readable
  <2>6. Abs!Discard
    BY <1>0, <1>2, <2>1, <2>2, <2>3, <2>4, <2>5, ErasingDiscards
  <2> QED
    BY <2>6 DEF Abs!Next
<1>7. CASE ProgramChunk
  <2>1. /\ pc = "chunk" /\ head' = head /\ tail' = tail
        /\ UNCHANGED <<cleared, restarts>> /\ logRecord \in Records
    BY <1>0, <1>7 DEF ProgramChunk, NumberInv
  <2>2. /\ RecordAt(data', head) \in {logRecord, Blank}
        /\ \A s \in Slot \ {head} : RecordAt(data', s) \in {Rec(s), Blank}
    BY <1>0, <1>7, DataStep
  <2>3. CASE RecordAt(data', head) \in {Rec(head), Blank}
    <3>1. Fades(data, data')
      BY <2>2, <2>3 DEF Fades, Rec
    <3>2. \A s \in Window(tail, head) : RecordAt(data', s) = Rec(s)
      <4> SUFFICES ASSUME NEW s \in Window(tail, head)
                   PROVE  RecordAt(data', s) = RecordAt(data, s)
        BY DEF Rec
      <4>1. \A j \in 0 .. RecSize - 1 : data'[s * RecSize + j] = data[s * RecSize + j]
        BY <1>0, <1>4, <1>7, ChunkKeeps DEF RingInv
      <4>2. s * RecSize = s * RecSize + 0 /\ 0 \in 0 .. RecSize - 1
        BY <1>4, SizeAssumption DEF Slot
      <4>3. data'[s * RecSize] = data[s * RecSize]
        BY <4>1, <4>2
      <4> QED
        BY <4>1, <4>3 DEF RecordAt
    <3>3. tail' \in Window(tail, head) \cup {head}
      BY <1>0, <2>1, NextTailInside
    <3>4. Abs!Discard
      BY <1>0, <1>2, <2>1, <3>1, <3>2, <3>3, ErasingDiscards
    <3> QED
      BY <3>4 DEF Abs!Next
  <2>4. CASE RecordAt(data', head) = logRecord /\ Rec(head) # logRecord
    <3>1. Rec(head) = Blank /\ \A s \in Slot \ {head} : RecordAt(data', s) = Rec(s)
      BY <1>7, <2>4, CompletingKeeps
    <3>2. logRecord # Blank
      BY <2>1, BoundAssumption DEF Records, Blank
    <3>3. Intact' = Intact \cup {logRecord}
      <4>1. Intact' = {RecordAt(data', s) : s \in Slot} \ {Blank}
        BY DEF Intact
      <4> QED
        BY <1>0, <2>4, <3>1, <3>2, <4>1 DEF Intact, Rec
    <3>4. Pending' = Pending
      <4>1. Pending' = {RecordAt(data', s) : s \in Window(tail, head)} \ {Blank}
        BY <2>1 DEF Pending
      <4>2. \A s \in Window(tail, head) : RecordAt(data', s) = RecordAt(data, s)
        BY <1>4, <3>1 DEF Rec
      <4> QED
        BY <4>1, <4>2 DEF Pending
    <3>5. \A q \in Intact : q < logRecord
      BY <1>0, <2>1, <2>4 DEF NumberInv, Intact, Rec, Writing
    <3>6. Abs!Write(logRecord)
      BY <2>1, <3>3, <3>4, <3>5 DEF Abs!Write, Abs!calls
    <3> QED
      BY <2>1, <3>6 DEF Abs!Next
  <2> QED
    BY <2>2, <2>3, <2>4
<1>8. CASE CheckRecord
  <2>1. /\ data' = data /\ head' = Succ(head) /\ tail' = tail /\ Succ(head) # tail
        /\ UNCHANGED <<cleared, restarts>>
    BY <1>8 DEF CheckRecord, RingInv, RoomInv, counters
  <2>2. Window(tail', head') = Window(tail, head) \cup {head}
    BY <1>0, <2>1, WindowGrows
  <2>3. Intact' = Intact
    BY <2>1 DEF Intact
  <2>4. Pending' = {RecordAt(data, s) : s \in Window(tail', head')} \ {Blank}
    BY <2>1 DEF Pending
  <2>5. CASE Rec(head) = Blank
    <3>1. Pending' = Pending
      BY <2>2, <2>4, <2>5 DEF Pending, Rec
    <3> QED
      BY <1>3, <2>1, <2>3, <3>1
  <2>6. CASE Rec(head) # Blank
    <3> DEFINE r == Rec(head)
    <3>1. r \in Records /\ \A s \in Slot \ {head} : Rec(s) < r
      BY <1>0, <1>8, <2>6, CheckedNewest DEF OrderInv
    <3>2. r \in Intact /\ \A q \in Intact : q <= r
      <4>1. r \in Intact
        BY <1>0, <2>6 DEF Intact, Rec
      <4>2. ASSUME NEW s \in Slot PROVE Rec(s) <= r
        BY <1>0, <3>1, RecordNumber DEF Rec
      <4> QED
        BY <4>1, <4>2 DEF Intact, Rec
    <3>3. Pending' = Pending \cup {r}
      BY <2>2, <2>4, <2>6 DEF Pending, Rec
    <3>4. Abs!Append(r)
      BY <2>1, <2>3, <3>2, <3>3 DEF Abs!Append, Abs!calls
    <3> QED
      BY <3>1, <3>4 DEF Abs!Next
  <2> QED
    BY <2>5, <2>6
<1>9. CASE RingLogNext
  <2>1. /\ data' = data /\ head' = head /\ tail' = Succ(tail) /\ tail # head
        /\ UNCHANGED <<cleared, restarts>>
    BY <1>9 DEF RingLogNext, counters
  <2>2. /\ tail \in Window(tail, head)
        /\ Window(tail', head') = Window(tail, head) \ {tail}
    BY <1>0, <2>1, NextTailInside
  <2>3. Intact' = Intact
    BY <2>1 DEF Intact
  <2>4. Pending' = {RecordAt(data, s) : s \in Window(tail', head')} \ {Blank}
    BY <2>1 DEF Pending
  <2>5. CASE Rec(tail) = Blank
    <3>1. Pending' = Pending
      BY <2>2, <2>4, <2>5 DEF Pending, Rec
    <3> QED
      BY <1>3, <2>1, <2>3, <3>1
  <2>6. CASE Rec(tail) # Blank
    <3> DEFINE r == Rec(tail)
    <3>1. \A s \in Window(tail, head) \ {tail} : Rec(s) # Blank => r < Rec(s)
      <4> TAKE s \in Window(tail, head) \ {tail}
      <4>1. tail \in Window(tail, s)
        BY <1>0, <1>4, RingSize DEF Window, Slot
      <4> QED
        BY <1>2, <2>6, <4>1 DEF SortedIn, Rec
    <3>2. r \in Pending /\ r \in Nat
      BY <1>0, <2>2, <2>6, RecordNumber DEF Pending, Rec
    <3>3. \A q \in Pending : q = r \/ r < q
      BY <3>1 DEF Pending, Rec
    <3>4. Pending' = Pending \ {r}
      <4>1. \A s \in Window(tail, head) \ {tail} : Rec(s) # r
        BY <2>6, <3>1, <3>2
      <4> QED
        BY <2>2, <2>4, <4>1 DEF Pending, Rec
    <3>5. \A q \in Pending : r <= q
      <4>1. Pending \subseteq Nat
        BY <1>0, <1>4, RecordNumber DEF Pending
      <4> QED
        BY <3>2, <3>3, <4>1
    <3>6. Abs!Advance
      BY <2>1, <2>3, <3>2, <3>4, <3>5 DEF Abs!Advance, Abs!calls
    <3> QED
      BY <3>6 DEF Abs!Next
  <2> QED
    BY <2>5, <2>6
<1>10. CASE LoadNextLog
  <2>1. data' = data /\ head' = head /\ UNCHANGED <<cleared, restarts>>
    BY <1>10 DEF LoadNextLog, counters
  <2>2. Window(tail', head) \subseteq Window(tail, head)
    BY <1>0, <1>10, LoadedTail, WindowSuffix
  <2>3. \A s \in Window(tail, head) \ Window(tail', head) : RecordAt(data, s) = Blank
    BY <1>0, <1>10, SkippedUnreadable DEF Readable
  <2>4. Pending' = {RecordAt(data, s) : s \in Window(tail', head)} \ {Blank}
    BY <2>1 DEF Pending
  <2>5. Pending' = Pending
    BY <2>2, <2>3, <2>4 DEF Pending
  <2>6. Intact' = Intact
    BY <2>1 DEF Intact
  <2> QED
    BY <1>3, <2>1, <2>5, <2>6
<1>11. CASE RingLogReset
  <2>1. /\ data' = data /\ head' = 0 /\ tail' = 0 /\ cleared' = ~cleared
        /\ restarts' = restarts
    BY <1>11 DEF RingLogReset
  <2>2. Pending' = {} /\ Intact' = Intact
    BY <2>1, RingSize DEF Pending, Intact, Window
  <2>3. Abs!Clear
    BY <2>1, <2>2 DEF Abs!Clear
  <2> QED
    BY <2>3 DEF Abs!Next
<1>12. CASE Restart
  <2>1. restarts = 0 /\ faults = 0
    BY <1>12, PromisedBefore
  <2>2. Abs!Recover
    BY <1>0, <1>12, <2>1, RestartRecovers
  <2> QED
    BY <2>2 DEF Abs!Next
<1>13. CASE SaveLog \/ GiveUp \/ ProgramHead \/ ProgramTail \/ ProgramCrc \/ CheckPos
  BY <1>5, <1>13 DEF SaveLog, GiveUp, ProgramHead, ProgramTail, ProgramCrc,
     ProgramPos, CheckPos, counters
<1> QED
  BY <1>6, <1>7, <1>8, <1>9, <1>10, <1>11, <1>12, <1>13 DEF Next, Step, Call

(* The ring implements the queue (db.c, sst25.c), for every size of record *)
(* (two chunks or more: a chunk that opens a sector is erased and written  *)
(* in one step), of sector, log and position sector, and any number of     *)
(* restarts and failed programs, up to the exception LogQueue names.       *)
THEOREM RingIsLogQueue ==
  ASSUME RecSize >= 2
  PROVE  Spec => RefinesLogQueue
<1>1. Init => Abs!Init
  <2> SUFFICES ASSUME Init PROVE Abs!Init
    OBVIOUS
  <2>1. \A s \in Slot : RecordAt(data, s) = Blank
    <3> TAKE s \in Slot
    <3>1. s * RecSize = s * RecSize + 0 /\ s * RecSize + 0 \in 0 .. DataSize - 1
      BY SlotCells, SizeAssumption DEF Slot
    <3> QED
      BY <3>1 DEF RecordAt, Init
  <2>2. Window(tail, head) = {}
    BY RingSize DEF Init, Window
  <2> QED
    BY <2>1, <2>2 DEF Abs!Init, Init, Intact, Pending
<1>2. /\ RingInv /\ RingInv' /\ OrderInv /\ OrderInv' /\ [Next]_vars
      => [(restarts > 1 \/ (restarts > 0 /\ faults > 0))' \/ Abs!Next]_(Abs!avars)
  <2>1. ASSUME UNCHANGED vars PROVE UNCHANGED Abs!avars
    BY <2>1 DEF vars, ram, counters, Abs!avars, Abs!calls, Intact, Pending
  <2> QED
    BY <2>1, QueueStep
<1> QED
  BY <1>1, <1>2, OrderCorrect, PTL DEF Spec, RefinesLogQueue, Abs!Spec
=============================================================================
