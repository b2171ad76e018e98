------------------------------ MODULE FlashLog ------------------------------
(***************************************************************************)
(* ampm_lib/db/db.c: the ring of status records that the tracker keeps in  *)
(* the SPI flash, and the sector in which it journals the ring's two       *)
(* indices.  One action is one flash operation of the code, so a restart   *)
(* can fall between any two of them.                                       *)
(*                                                                         *)
(* A record is RecSize chunks (LOG_WRITE_BYTES = 4 bytes each); sizes and  *)
(* addresses are counted in chunks.  A record's content is its number.     *)
(* Two different records programmed over each other leave Junk: that such  *)
(* a mixture happens to satisfy the 8-bit checksum is left out.  The       *)
(* journal's entries are kept to the bit: programming ANDs.                *)
(***************************************************************************)
EXTENDS Integers, FiniteSetsExt

CONSTANTS
  RecSize,      \* sizeof(MSG_STATUS_RECORD), in chunks
  SectorSize,   \* SECTOR_SIZE, in chunks
  DataSize,     \* LOG_DATA_SIZE_MAX, in chunks
  NPos,         \* entries that fit in the position sector (455)
  MaxTry,       \* DB_SaveLog gives up when tryCnt reaches it (10)
  Byte,         \* the checksum is a sum modulo Byte (256)
  Erased,       \* what an erased index field reads as (0xffffffff)
  Program(_, _),    \* programming a field without an erase
  MaxRec,       \* bound: records stored
  MaxRestart,   \* bound: restarts
  MaxFault      \* bound: flash programs that fail

(* Records are no larger than a sector, and the log has three sectors or   *)
(* more (src: 28 chunks, 1024 chunks, 25 sectors).                         *)
ASSUME SizeAssumption ==
  /\ RecSize \in Nat \ {0} /\ SectorSize \in Nat /\ DataSize \in Nat
  /\ RecSize <= SectorSize
  /\ DataSize >= 3 * SectorSize

ASSUME BoundAssumption ==
  /\ NPos \in Nat \ {0} /\ MaxTry \in Nat \ {0} /\ Byte \in Nat \ {0}
  /\ MaxRec \in Nat /\ MaxRestart \in Nat /\ MaxFault \in Nat

N == DataSize \div RecSize                                \* RINGLOG_MAX
Slot == 0 .. N - 1

(* An erased field is no index and takes any value that is programmed; a   *)
(* program only clears bits.                                               *)
ASSUME FieldAssumption ==
  /\ Erased \in Nat /\ N <= Erased /\ Byte <= Erased + 1
  /\ \A a, b \in 0 .. Erased : Program(a, b) \in 0 .. b
  /\ \A b \in 0 .. Erased : Program(Erased, b) = b

VARIABLES
  data,            \* the record area, one cell per chunk
  pos,             \* the position sector, one cell per LOG_RING_TYPE
  head, tail,      \* ringLog, in RAM
  logPositionCnt,  \* the entry that the next DB_RingLogSave writes
  logRecord,       \* the record in RAM that DB_SaveLog stores
  tryCnt, i,       \* locals of DB_SaveLog
  pc,              \* the flash operation that comes next, or "idle"
  nextRec, restarts, faults,  \* counters that bound the model
  cleared       \* history: flips whenever DB_RingLogReset empties the log

ram == <<head, tail, logPositionCnt, logRecord, tryCnt, i, pc>>
counters == <<nextRec, restarts, faults, cleared>>
vars == <<data, pos, ram, counters>>

Blank == 0
Junk == -1
Records == 1 .. MaxRec
BlankPos == [head |-> Erased, tail |-> Erased, crc |-> Byte - 1]
-----------------------------------------------------------------------------
(* Slots, sectors and records.                                             *)
Succ(s) == IF s + 1 >= N THEN 0 ELSE s + 1
SectorOf(s) == (s * RecSize) \div SectorSize

(* Mutants of FirstSlotIn: not wrapped, not rounded up.                    *)
FirstSlotUnwrapped(k) == (k * SectorSize + RecSize - 1) \div RecSize
FirstSlotRoundedDown(k) ==
  LET f == (k * SectorSize) \div RecSize IN IF f >= N THEN 0 ELSE f

(* The first slot that starts in sector k or later, or slot 0.             *)
FirstSlotIn(k) ==
  LET q == (k * SectorSize) \div RecSize
      f == IF (k * SectorSize) % RecSize # 0 THEN q + 1 ELSE q
  IN IF f >= N THEN 0 ELSE f

EraseSector(d, k) ==
  [a \in DOMAIN d |-> IF a \div SectorSize = k THEN Blank ELSE d[a]]

(* Mutant of WriteChunk: every write erases its sector.                    *)
WriteChunkErasing(d, a, c) ==
  [EraseSector(d, a \div SectorSize) EXCEPT ![a] = c]

(* SST25_Write erases the sector first when the address opens one.         *)
WriteChunk(d, a, c) ==
  LET e == IF a % SectorSize = 0 THEN EraseSector(d, a \div SectorSize) ELSE d
  IN [e EXCEPT ![a] = IF @ \in {Blank, c} THEN c ELSE Junk]

(* The record that slot s holds, or Blank when its checksum is wrong.      *)
RecordAt(d, s) ==
  LET c == d[s * RecSize]
  IN IF c # Junk /\ \A k \in 0 .. RecSize - 1 : d[s * RecSize + k] = c
       THEN c ELSE Blank
Readable(d, s) == RecordAt(d, s) # Blank

(* The slots from t up to, and without, h.                                 *)
Window(t, h) == IF t <= h THEN t .. h - 1 ELSE (t .. N - 1) \cup (0 .. h - 1)
-----------------------------------------------------------------------------
(* The position sector.                                                    *)
ByteSum(x) == (x % Byte) + (x \div Byte)        \* indices fit in two bytes
Checksum(h, t) == (ByteSum(h) + ByteSum(t)) % Byte    \* DbCalcCheckSum

InRange(c) == c.head < N /\ c.tail < N
Good(c) == InRange(c) /\ c.crc = Checksum(c.head, c.tail)
GoodEntries == {k \in 0 .. NPos - 1 : Good(pos[k])}
InRangeEntries == {k \in 0 .. NPos - 1 : InRange(pos[k])}

BlankSector == [k \in 0 .. NPos - 1 |-> BlankPos]

(* DB_InitLog: the last entry with a good checksum, or an empty ring; the  *)
(* next save goes where the last entry with indices in range is.           *)
RecoveredRing ==
  IF GoodEntries = {} THEN [head |-> 0, tail |-> 0]
  ELSE LET c == pos[Max(GoodEntries)] IN [head |-> c.head, tail |-> c.tail]
RecoveredCnt == IF InRangeEntries = {} THEN 0 ELSE Max(InRangeEntries)

(* DB_LoadEndLog: the newest readable record behind h, looked for down to, *)
(* and without, slot t.                                                    *)
Behind(h, s) == (h - 1 - s + N) % N
EndLog(d, h, t) ==
  LET found == {s \in Slot : Behind(h, s) < Behind(h, t) /\ Readable(d, s)}
  IN IF found = {} THEN Blank
     ELSE RecordAt(d, CHOOSE s \in found :
                        \A r \in found : Behind(h, s) <= Behind(h, r))
-----------------------------------------------------------------------------
Init ==
  /\ data = [a \in 0 .. DataSize - 1 |-> Blank]
  /\ pos = BlankSector
  /\ head = 0 /\ tail = 0 /\ logPositionCnt = 0
  /\ logRecord = Blank /\ tryCnt = 0 /\ i = 0 /\ pc = "idle"
  /\ nextRec = 1 /\ restarts = 0 /\ faults = 0 /\ cleared = FALSE

(* TrackerTask calls DB_SaveLog with a new status record.                  *)
SaveLog ==
  /\ pc = "idle" /\ nextRec <= MaxRec
  /\ logRecord' = nextRec /\ nextRec' = nextRec + 1
  /\ tryCnt' = 0 /\ pc' = "try"
  /\ UNCHANGED <<data, pos, head, tail, logPositionCnt, i, restarts, faults,
                 cleared>>

(* One turn of DB_SaveLog's loop, up to the erase: give up after MaxTry    *)
(* turns, else free the sector that the head is about to enter and push    *)
(* the tail out of it.                                                     *)
GiveUp ==
  /\ pc = "try" /\ tryCnt + 1 >= MaxTry
  /\ tryCnt' = 0 /\ pc' = "idle"
  /\ UNCHANGED <<data, pos, head, tail, logPositionCnt, logRecord, i, counters>>

(* Mutants of MakeRoom: the tail is pushed too late, from anywhere, never. *)
RoomWith(push(_, _)) ==
  /\ pc = "try" /\ tryCnt + 1 < MaxTry
  /\ LET next == Succ(head)
         k == SectorOf(next)
     IN /\ data' = IF k # SectorOf(head) THEN EraseSector(data, k) ELSE data
        /\ tail' = IF push(next, k) THEN FirstSlotIn(k + 1) ELSE tail
  /\ tryCnt' = tryCnt + 1 /\ i' = 0 /\ pc' = "chunk"
  /\ UNCHANGED <<pos, head, logPositionCnt, logRecord, counters>>
MakeRoomAnySector == RoomWith(LAMBDA next, k : next <= tail)
MakeRoomInPlace == RoomWith(LAMBDA next, k : FALSE)

MakeRoom ==
  /\ pc = "try" /\ tryCnt + 1 < MaxTry
  /\ LET next == Succ(head)
         k == SectorOf(next)
     IN /\ data' = IF k # SectorOf(head) THEN EraseSector(data, k) ELSE data
        /\ tail' = IF k = SectorOf(tail) /\ next <= tail
                   THEN FirstSlotIn(k + 1) ELSE tail
  /\ tryCnt' = tryCnt + 1 /\ i' = 0 /\ pc' = "chunk"
  /\ UNCHANGED <<pos, head, logPositionCnt, logRecord, counters>>

(* A program that fails leaves the cell damaged.                           *)
ProgramChunk ==
  LET a == head * RecSize + i
      d == WriteChunk(data, a, logRecord)
  IN /\ pc = "chunk"
     /\ \/ data' = d /\ UNCHANGED faults
        \/ /\ faults < MaxFault /\ faults' = faults + 1
           /\ data' = [d EXCEPT ![a] = Junk]
     /\ i' = i + 1
     /\ pc' = IF i + 1 < RecSize THEN "chunk" ELSE "check"
     /\ UNCHANGED <<pos, head, tail, logPositionCnt, logRecord, tryCnt,
                    nextRec, restarts, cleared>>

(* Read back; the head moves on whether the record is good or not.         *)
CheckRecord ==
  /\ pc = "check"
  /\ head' = Succ(head)
  /\ pc' = IF Readable(data, head) THEN "posHead" ELSE "try"
  /\ UNCHANGED <<data, pos, tail, logPositionCnt, logRecord, tryCnt, i, counters>>

(* DB_RingLogSave: the three programs of one entry.  The first one erases  *)
(* the sector when it opens it.                                            *)
ProgramPos(field, value, from, to) ==
  LET sector == IF from = "posHead" /\ logPositionCnt = 0 THEN BlankSector ELSE pos
  IN /\ pc = from /\ pc' = to
     /\ \/ /\ pos' = [sector EXCEPT ![logPositionCnt][field] = Program(@, value)]
           /\ UNCHANGED faults
        \/ /\ faults < MaxFault /\ faults' = faults + 1
           /\ pos' = sector
     /\ UNCHANGED <<data, head, tail, logPositionCnt, logRecord, tryCnt, i,
                    nextRec, restarts, cleared>>
ProgramHead == ProgramPos("head", head, "posHead", "posTail")
ProgramTail == ProgramPos("tail", tail, "posTail", "posCrc")
ProgramCrc == ProgramPos("crc", Checksum(head, tail), "posCrc", "posCheck")

(* Mutants of CheckPos: nothing is read back; a bad entry is written again *)
(* in its place.                                                           *)
CheckPosBlindly ==
  /\ pc = "posCheck" /\ pc' = "idle"
  /\ LET full == logPositionCnt + 1 >= NPos
     IN /\ pos' = IF full THEN BlankSector ELSE pos
        /\ logPositionCnt' = IF full THEN 0 ELSE logPositionCnt + 1
  /\ UNCHANGED <<data, head, tail, logRecord, tryCnt, i, counters>>
CheckPosInPlace ==
  /\ pc = "posCheck"
  /\ LET good == pos[logPositionCnt] =
                   [head |-> head, tail |-> tail, crc |-> Checksum(head, tail)]
         full == logPositionCnt + 1 >= NPos
     IN /\ pos' = IF full /\ good THEN BlankSector ELSE pos
        /\ logPositionCnt' = IF ~good THEN logPositionCnt
                             ELSE IF full THEN 0 ELSE logPositionCnt + 1
        /\ pc' = IF good THEN "idle" ELSE "posHead"
  /\ UNCHANGED <<data, head, tail, logRecord, tryCnt, i, counters>>

(* Read back; a full sector is erased even though the entry is good, a bad *)
(* entry erases the sector and is tried again.                             *)
CheckPos ==
  /\ pc = "posCheck"
  /\ LET good == pos[logPositionCnt] =
                   [head |-> head, tail |-> tail, crc |-> Checksum(head, tail)]
         full == logPositionCnt + 1 >= NPos
     IN /\ pos' = IF full \/ ~good THEN BlankSector ELSE pos
        /\ logPositionCnt' = IF full \/ ~good THEN 0 ELSE logPositionCnt + 1
        /\ pc' = IF good THEN "idle" ELSE "posHead"
  /\ UNCHANGED <<data, head, tail, logRecord, tryCnt, i, counters>>

(* DB_RingLogNext: the record at the tail is done with.                    *)
RingLogNext ==
  /\ pc = "idle" /\ tail # head
  /\ tail' = Succ(tail) /\ pc' = "posHead"
  /\ UNCHANGED <<data, pos, head, logPositionCnt, logRecord, tryCnt, i, counters>>

(* DB_LoadNextLog: the tail skips the slots whose checksum is wrong.  The  *)
(* skip is saved only when a record is found.                              *)
LoadNextLog ==
  /\ pc = "idle" /\ tail # head
  /\ LET found == {s \in Window(tail, head) : Readable(data, s)}
         first == CHOOSE s \in found : \A r \in found :
                    (s - tail + N) % N <= (r - tail + N) % N
     IN /\ tail' = IF found = {} THEN head ELSE first
        /\ pc' = IF found # {} /\ first # tail THEN "posHead" ELSE "idle"
  /\ UNCHANGED <<data, pos, head, logPositionCnt, logRecord, tryCnt, i, counters>>

(* DB_RingLogReset, on a command by SMS.                                   *)
RingLogReset ==
  /\ pc = "idle" /\ cleared' = ~cleared
  /\ pos' = BlankSector /\ head' = 0 /\ tail' = 0 /\ pc' = "posHead"
  /\ UNCHANGED <<data, logPositionCnt, logRecord, tryCnt, i, nextRec, restarts,
                 faults>>

(* Power cut or watchdog reset between two flash operations, or inside the *)
(* program of a chunk; then TrackerInit runs DB_InitLog.                   *)
Restart ==
  /\ restarts < MaxRestart /\ restarts' = restarts + 1
  /\ \/ UNCHANGED data
     \/ pc = "chunk" /\ data' = [data EXCEPT ![head * RecSize + i] = Junk]
  /\ head' = RecoveredRing.head /\ tail' = RecoveredRing.tail
  /\ logPositionCnt' = RecoveredCnt
  /\ logRecord' = EndLog(data', head', tail')
  /\ tryCnt' = 0 /\ i' = 0 /\ pc' = "idle"
  /\ UNCHANGED <<pos, nextRec, faults, cleared>>

(* The steps inside a call, and the calls.                                 *)
Step == \/ GiveUp \/ MakeRoom \/ ProgramChunk \/ CheckRecord
        \/ ProgramHead \/ ProgramTail \/ ProgramCrc \/ CheckPos
Call == SaveLog \/ RingLogNext \/ LoadNextLog \/ RingLogReset

Next == Step \/ Call \/ Restart

Spec == Init /\ [][Next]_vars

(* A call of the main loop runs to its end unless the power is cut.        *)
FairSpec == Spec /\ WF_vars(Step)
-----------------------------------------------------------------------------
(* Types.  The ring's indices are slots and the entry to write next is in  *)
(* the position sector, whatever a restart recovers from flash.            *)
PosEntry == [head : 0 .. Erased, tail : 0 .. Erased, crc : 0 .. Byte - 1]
TypeOK ==
  /\ data \in [0 .. DataSize - 1 -> {Junk, Blank} \cup Records]
  /\ pos \in [0 .. NPos - 1 -> PosEntry]
  /\ head \in Slot /\ tail \in Slot
  /\ logPositionCnt \in 0 .. NPos - 1
  /\ logRecord \in {Blank} \cup Records
  /\ tryCnt \in 0 .. MaxTry - 1
  /\ i \in 0 .. RecSize
  /\ pc \in {"idle", "try", "chunk", "check",
             "posHead", "posTail", "posCrc", "posCheck"}
  /\ pc = "chunk" => i < RecSize
  /\ nextRec \in 1 .. MaxRec + 1 /\ restarts \in 0 .. MaxRestart
  /\ faults \in 0 .. MaxFault /\ cleared \in BOOLEAN

Intact == {RecordAt(data, s) : s \in Slot} \ {Blank}
Pending == {RecordAt(data, s) : s \in Window(tail, head)} \ {Blank}

(* The ring is a LogQueue: records come out in the order they were stored, *)
(* without a hole, only the oldest are given up, and only by erasing them, *)
(* and a restart finds a stretch of what is intact (DB_InitLog, DB_SaveLog,*)
(* DB_LoadNextLog).  One restart, or programs that fail: two restarts, or  *)
(* both together, can recover a tail that the head has passed (see         *)
(* README), so that from then on nothing is claimed.                       *)
Abs == INSTANCE LogQueue WITH Record <- Records, kept <- Intact,
                              pending <- Pending, cleared <- cleared,
                              cuts <- restarts,
                              released <- \/ restarts > 1
                                          \/ restarts > 0 /\ faults > 0
RefinesLogQueue == Abs!Spec

(* Storing a record never makes the ring look empty: the tail is out of    *)
(* the way before DB_SaveLog moves the head.                               *)
HeadNeverMeetsTail ==
  [][pc = "check" /\ pc' # "idle" => head' # tail']_vars

(* The erase that makes room for the next record leaves every record that  *)
(* stays in the ring as it was, those that lie across two sectors included *)
(* (DB_SaveLog).                                                           *)
SameSlot(s) == \A k \in 0 .. RecSize - 1 :
                 data'[s * RecSize + k] = data[s * RecSize + k]
RoomKeepsPending ==
  [][pc = "try" => \A s \in Window(tail', head) : SameSlot(s)]_vars

(* Programming the record at the head, with the erase SST25_Write adds on  *)
(* its own, leaves the records that are pending as they were.              *)
WriteKeepsPending ==
  [][pc = "chunk" /\ pc' # "idle" =>
       \A s \in Window(tail, head) : SameSlot(s)]_vars

(* DB_SaveLog gives old records up only when the ring is full but for one  *)
(* sector.                                                                 *)
Fill == (head - tail + N) % N                    \* DB_LogFill
SlotsPerSector == (SectorSize + RecSize - 1) \div RecSize
EvictsOnlyWhenFull ==
  [][pc = "try" /\ pc' = "chunk" /\ tail' # tail =>
       Fill >= N - SlotsPerSector]_vars

(* One of the first two restarts that comes between two calls loses and    *)
(* repeats nothing, except just after the save that filled the position    *)
(* sector.  A restart in the middle of a save after another restart may    *)
(* leave an entry mixed of two that passes for one (see README).           *)
QuietRestart ==
  [][pc = "idle" /\ restarts' # restarts /\ restarts <= 1
       /\ pos # BlankSector => Pending' = Pending]_vars

(* Every call comes to an end, the loops of DB_SaveLog and DB_RingLogSave  *)
(* included.                                                               *)
CallsReturn == pc # "idle" ~> pc = "idle"
=============================================================================
