--------------------------- MODULE FirmwareProofs ---------------------------
(***************************************************************************)
(* The bootloader starts a complete image whatever resets and bad reads    *)
(* come, and so does the update of the firmware as a whole, which is the   *)
(* abstract ImageSlot: for every size of flash and sector, set of images   *)
(* and number of attempts.                                                 *)
(***************************************************************************)
EXTENDS FirmwareUpdate, FiniteSetTheorems, TLAPS

(***************************************************************************)
(* 1. The bootloader, on whatever flash an application may have left.      *)
(***************************************************************************)

allVars == <<spi, info, bootVars>>

BootRec ==
  [step : Steps \ {"stuck"}, from : {"new"}, tries : 0 .. Tries, i : 0 .. Cells + 4,
   size : 0 .. NoSize, crc : Images \cup {NoSum, <<>>}, sum : Seq(Cell) \cup {NoSum}]

(* The bootloader never falls back on the backup, nor gets stuck.          *)
TypeInv ==
  /\ spi \in [Area -> Cell] /\ info \in Info
  /\ mcu \in [Area -> Cell] /\ base \in [Area -> Cell] /\ baseInfo \in Info
  /\ mode \in {"run", "boot"} /\ boot \in BootRec /\ glitches \in 0 .. MaxGlitch

(* Attempts are paid for with bad reads.                                   *)
Spare(tries) == tries + glitches >= Tries

(* What has been summed up is what is in the MCU.                          *)
Programmed ==
  /\ boot.sum \in Seq(Cell) /\ Len(boot.sum) <= boot.size
  /\ \A k \in 1 .. Len(boot.sum) : mcu[k - 1] = boot.sum[k]

Saving == {"saveTry", "save", "saveTest", "saveInfo"}

(* The words describe the download, and without them the MCU is complete.  *)
WordsInv ==
  /\ Described(spi, info)
  /\ mode = "run" \/ info.status # "ready" => Whole(mcu)
  /\ mode = "boot" /\ boot.step # "check" => info.status = "ready"
  /\ mode = "boot" /\ boot.step \notin {"check", "try"}
       => boot.size = info.size /\ boot.crc = info.crc

AttemptInv ==
  /\ At("check") \/ At("try") => Spare(boot.tries)
  /\ At("copy") =>
       /\ Programmed /\ boot.i = Len(boot.sum)
       /\ Spare(boot.tries + 1)
       /\ (\A k \in 1 .. boot.i : boot.sum[k] = boot.crc[k]) \/ Spare(boot.tries)
  /\ At("test") => Programmed /\ (boot.sum = boot.crc \/ Spare(boot.tries))

DoneInv == mode = "boot" /\ boot.step \in Saving \cup {"erase"} => Holds(mcu, info.crc)

(* With reads that are right, the backup is written under words that do    *)
(* not call it ready yet.                                                  *)
BackupInv ==
  /\ BackupIsWhole
  /\ mode = "boot" /\ glitches = 0 /\ boot.step \in Saving
       => baseInfo.status # "ready" \/ (At("saveInfo") /\ boot.i > 0)
  /\ At("save") => boot.sum = <<>>
  /\ At("saveTest") /\ boot.sum = boot.crc => Holds(base, boot.crc)
  /\ At("saveInfo") => Holds(base, boot.crc)
  /\ At("saveInfo") /\ boot.i \in 1 .. 3 => baseInfo.crc = NoSum

Inv == TypeInv /\ WordsInv /\ AttemptInv /\ DoneInv /\ BackupInv
-----------------------------------------------------------------------------
(* An image is made of cells, and no mark of the flash's is one.           *)
LEMMA ImageCells ==
  ASSUME NEW image \in Images
  PROVE  /\ image \in Seq(Cell) /\ Len(image) \in 1 .. Cells
         /\ image # NoSum /\ image # <<>>
         /\ \A k \in 1 .. Len(image) : image[k] \in Nat \ {0}
<1>1. image \in Seq(Nat \ {0}) /\ Len(image) \in 1 .. Cells
  BY FirmwareFlashAssumption
<1>2. \A k \in 1 .. Len(image) : image[k] \in ToSet(image) /\ image[k] \in Nat \ {0}
  BY <1>1 DEF ToSet
<1>3. \A k \in 1 .. Len(image) : image[k] \in Cell
  BY <1>2 DEF Cell
<1>4. image \in Seq(Cell)
  BY <1>1, <1>3
<1>5. image # NoSum
  BY <1>1 DEF NoSum
<1> QED BY <1>1, <1>2, <1>4, <1>5

(* An image is held when each of its cells is in its place.                *)
LEMMA HoldsCells ==
  ASSUME NEW image \in Images, NEW flash
  PROVE  Holds(flash, image) <=> \A k \in 1 .. Len(image) : flash[k - 1] = image[k]
<1>1. image \in Seq(Cell) /\ Len(image) \in Nat
  BY ImageCells
<1>2. image = [k \in 1 .. Len(image) |-> image[k]]
  BY <1>1
<1> QED BY <1>1, <1>2 DEF Holds, Sum

(* The sum over part of a flash is a sequence of cells.                    *)
LEMMA SumCells ==
  ASSUME NEW flash \in [Area -> Cell], NEW n \in 0 .. Cells
  PROVE  Sum(flash, n) \in Seq(Cell) /\ Len(Sum(flash, n)) = n
<1>1. \A k \in 1 .. n : flash[k - 1] \in Cell
  BY FirmwareFlashAssumption DEF Area
<1>2. Sum(flash, n) \in [1 .. n -> Cell]
  BY <1>1 DEF Sum
<1> QED BY <1>2

(* Writing one cell leaves cells.                                          *)
LEMMA WrittenCells ==
  ASSUME NEW flash \in [Area -> Cell], NEW k \in Area, NEW cell \in Cell
  PROVE  Written(flash, k, cell) \in [Area -> Cell]
<1>1. EraseSector(flash, k) \in [Area -> Cell]
  BY DEF EraseSector, Cell
<1>2. Garbage \in Cell
  BY DEF Cell
<1> QED BY <1>1, <1>2 DEF Written

(* A MCU with a complete image has something to start.                     *)
LEMMA WholeRuns == ASSUME NEW image \in Images, Holds(mcu, image) PROVE Runnable /\ Whole(mcu)
<1>1. 1 \in 1 .. Len(image) /\ image[1] \in Nat \ {0}
  BY ImageCells
<1>2. mcu[0] = image[1]
  BY <1>1, HoldsCells
<1> QED BY <1>1, <1>2 DEF Runnable, Erased, Garbage, Whole

(* Each read that goes wrong counts.                                       *)
LEMMA WrongReads ==
  ASSUME NEW n \in Nat, NEW reads, NEW there, DOMAIN reads = 1 .. n
  PROVE  LET bad == Cardinality({k \in DOMAIN reads : reads[k] # there[k]})
         IN bad \in Nat /\ ((\E k \in 1 .. n : reads[k] # there[k]) => bad # 0)
<1> DEFINE wrong == {k \in DOMAIN reads : reads[k] # there[k]}
<1>1. wrong \subseteq 1 .. n /\ IsFiniteSet(1 .. n)
  BY FS_Interval
<1>2. IsFiniteSet(wrong) /\ Cardinality(wrong) \in Nat
  BY <1>1, FS_Subset, FS_CardinalityType
<1>3. wrong # {} => Cardinality(wrong) # 0
  BY <1>2, FS_EmptySet
<1>4. (\E k \in 1 .. n : reads[k] # there[k]) => wrong # {}
  OBVIOUS
<1> QED BY <1>2, <1>3, <1>4

LEMMA TwoReads ==
  ASSUME glitches \in 0 .. MaxGlitch, NEW a, NEW b, NEW c, NEW d,
         Glitch(<<a, b>>, <<c, d>>)
  PROVE  /\ glitches' \in 0 .. MaxGlitch /\ glitches' >= glitches
         /\ a # c \/ b # d => glitches' > glitches
<1> DEFINE reads == <<a, b>>  there == <<c, d>>
           bad == Cardinality({k \in DOMAIN reads : reads[k] # there[k]})
<1>1. DOMAIN reads = 1 .. 2 /\ reads[1] = a /\ reads[2] = b /\ there[1] = c /\ there[2] = d
  OBVIOUS
<1>2. glitches + bad <= MaxGlitch /\ glitches' = glitches + bad
  BY DEF Glitch
<1> HIDE DEF reads, there
<1>3. bad \in Nat /\ ((\E k \in 1 .. 2 : reads[k] # there[k]) => bad # 0)
  BY <1>1, WrongReads, 2 \in Nat
<1>4. a # c \/ b # d => \E k \in 1 .. 2 : reads[k] # there[k]
  BY <1>1
<1> HIDE DEF bad
<1> QED BY <1>2, <1>3, <1>4, BootloaderAssumption

LEMMA OneRead ==
  ASSUME glitches \in 0 .. MaxGlitch, NEW a, NEW c, Glitch(<<a>>, <<c>>)
  PROVE  /\ glitches' \in 0 .. MaxGlitch /\ glitches' >= glitches
         /\ a # c => glitches' > glitches
<1> DEFINE reads == <<a>>  there == <<c>>
           bad == Cardinality({k \in DOMAIN reads : reads[k] # there[k]})
<1>1. DOMAIN reads = 1 .. 1 /\ reads[1] = a /\ there[1] = c
  OBVIOUS
<1>2. glitches + bad <= MaxGlitch /\ glitches' = glitches + bad
  BY DEF Glitch
<1> HIDE DEF reads, there
<1>3. bad \in Nat /\ ((\E k \in 1 .. 1 : reads[k] # there[k]) => bad # 0)
  BY <1>1, WrongReads, 1 \in Nat
<1>4. a # c => \E k \in 1 .. 1 : reads[k] # there[k]
  BY <1>1
<1> HIDE DEF bad
<1> QED BY <1>2, <1>3, <1>4, BootloaderAssumption
-----------------------------------------------------------------------------
(* The words of an image that is ready.                                    *)
LEMMA ReadyWords ==
  ASSUME Inv, info.status = "ready"
  PROVE  /\ info.crc \in Images /\ info.size = Len(info.crc) /\ info.size \in 1 .. Cells
         /\ info.size # NoSize /\ Holds(spi, info.crc)
<1>1. info.crc \in Images /\ info.size = Len(info.crc) /\ Holds(spi, info.crc)
  BY DEF Inv, WordsInv, Described
<1>2. Len(info.crc) \in 1 .. Cells
  BY <1>1, ImageCells
<1> QED BY <1>1, <1>2, FirmwareFlashAssumption DEF NoSize

LEMMA InitInv == BootInit => Inv
<1> SUFFICES ASSUME BootInit PROVE Inv
  OBVIOUS
<1> USE BootloaderAssumption, FirmwareFlashAssumption
<1>1. \A flash \in Flashes : flash \in [Area -> Cell]
  <2> SUFFICES ASSUME NEW image \in Images \cup {<<>>} PROVE With(image) \in [Area -> Cell]
    BY DEF Flashes
  <2>1. CASE image = <<>>
    BY <2>1 DEF With, Area, Cell
  <2>2. CASE image \in Images
    <3>1. image \in Seq(Cell) /\ Len(image) \in 1 .. Cells
      BY <2>2, ImageCells
    <3>2. \A k \in Area : k < Len(image) => image[k + 1] \in Cell
      BY <3>1 DEF Area
    <3> QED BY <3>2 DEF With, Cell
  <2> QED BY <2>1, <2>2
<1>2. Fresh \in BootRec
  BY DEF Fresh, BootRec, Steps, NoSize
<1>3. TypeInv
  BY <1>1, <1>2 DEF BootInit, TypeInv
<1>4. mode = "boot" /\ boot.step = "check" /\ boot.tries = Tries /\ glitches = 0
  BY DEF BootInit, Fresh
<1>5. WordsInv
  BY <1>4 DEF BootInit, WordsInv
<1>6. AttemptInv /\ DoneInv
  BY <1>4 DEF AttemptInv, DoneInv, At, Spare, Saving
<1>7. BackupIsWhole
  BY DEF BootInit, Described, BackupIsWhole
<1>8. BackupInv
  BY <1>4, <1>7 DEF BackupInv, At, Saving
<1> QED BY <1>3, <1>5, <1>6, <1>8 DEF Inv

(* The parts of the invariant that a change of step alone can disturb.     *)
LEMMA CheckInv == ASSUME Inv, Check PROVE Inv'
<1> USE BootloaderAssumption, FirmwareFlashAssumption
<1>0. mode = "boot" /\ boot.step = "check"
  BY DEF Check, At
<1>1. CASE info.status # "ready" /\ Runnable /\ Execute
  <2>1. mode' = "run" /\ boot' = Fresh /\ UNCHANGED <<spi, info, mcu, base, baseInfo, glitches>>
    BY <1>1 DEF Execute, Check
  <2>2. Fresh \in BootRec
    BY DEF Fresh, BootRec, Steps, NoSize
  <2>3. TypeInv'
    BY <2>1, <2>2 DEF Inv, TypeInv
  <2>4. WordsInv'
    BY <1>1, <2>1 DEF Inv, WordsInv, Described, Holds, Sum, Whole
  <2>5. AttemptInv' /\ DoneInv'
    BY <2>1 DEF AttemptInv, DoneInv, At
  <2>6. BackupInv'
    BY <2>1 DEF Inv, BackupInv, BackupIsWhole, At, Holds, Sum
  <2> QED BY <2>3, <2>4, <2>5, <2>6 DEF Inv
<1>2. CASE (info.status = "ready" \/ ~Runnable) /\ boot' = Go("try") /\ UNCHANGED mode
  <2>1. UNCHANGED <<mode, spi, info, mcu, base, baseInfo, glitches>>
    BY <1>2 DEF Check
  <2>2. info.status = "ready"
    BY <1>2, WholeRuns DEF Inv, WordsInv, Whole
  <2>3. boot' = [boot EXCEPT !.step = "try"] /\ boot \in BootRec
    BY <1>2 DEF Go, Inv, TypeInv
  <2>4. boot' \in BootRec /\ boot'.step = "try" /\ boot'.tries = boot.tries
    BY <2>3 DEF BootRec, Steps
  <2>5. TypeInv'
    BY <2>1, <2>4 DEF Inv, TypeInv
  <2>6. WordsInv'
    BY <2>1, <2>2, <2>4 DEF Inv, WordsInv, Described, Holds, Sum, Whole
  <2>7. AttemptInv' /\ DoneInv'
    BY <1>0, <2>1, <2>4 DEF Inv, AttemptInv, DoneInv, At, Spare, Saving
  <2>8. BackupInv'
    BY <2>1, <2>4 DEF Inv, BackupInv, BackupIsWhole, At, Holds, Sum, Saving
  <2> QED BY <2>5, <2>6, <2>7, <2>8 DEF Inv
<1> QED BY <1>1, <1>2 DEF Check

(* There is always an attempt left, because a failed one cost a bad read.  *)
LEMMA TryInv == ASSUME Inv, Try PROVE Inv'
<1> USE BootloaderAssumption, FirmwareFlashAssumption
<1>0. /\ mode = "boot" /\ boot.step = "try" /\ boot \in BootRec
      /\ UNCHANGED <<spi, info, mcu, base, baseInfo, mode, glitches>>
  BY DEF Try, At, Inv, TypeInv
<1>1. info.status = "ready"
  BY <1>0 DEF Inv, WordsInv
<1>2. boot.tries > 0 /\ boot.tries \in 1 .. Tries
  BY <1>0 DEF Inv, AttemptInv, At, Spare, TypeInv, BootRec
<1>3. boot.from = "new" /\ SourceInfo[boot.from] = info
  BY <1>0 DEF BootRec, SourceInfo
<1>4. boot' = [boot EXCEPT !.tries = @ - 1, !.i = 0, !.sum = <<>>,
                           !.size = info.size, !.crc = info.crc, !.step = "copy"]
  BY <1>0, <1>1, <1>2, <1>3, ReadyWords DEF Try
<1>5. info.crc \in Images /\ info.size \in 1 .. Cells
  BY <1>1, ReadyWords
<1>6. /\ boot'.step = "copy" /\ boot'.size = info.size /\ boot'.crc = info.crc
      /\ boot'.i = 0 /\ boot'.sum = <<>> /\ boot'.tries = boot.tries - 1
  BY <1>0, <1>4 DEF BootRec
<1>7. boot' \in BootRec
  <2>1. boot.tries - 1 \in 0 .. Tries /\ info.size \in 0 .. NoSize /\ 0 \in 0 .. Cells + 4
    BY <1>2, <1>5 DEF NoSize
  <2>2. "copy" \in Steps \ {"stuck"} /\ info.crc \in Images \cup {NoSum, <<>>}
        /\ <<>> \in Seq(Cell) \cup {NoSum}
    BY <1>5 DEF Steps
  <2> QED BY <1>0, <1>4, <2>1, <2>2 DEF BootRec
<1>8. TypeInv'
  BY <1>0, <1>7 DEF Inv, TypeInv
<1>9. WordsInv'
  BY <1>0, <1>1, <1>6 DEF Inv, WordsInv, Described, Holds, Sum, Whole
<1>10. Spare(boot.tries + 0)
  BY <1>0, <1>2 DEF Inv, AttemptInv, At, Spare
<1>11. AttemptInv' /\ DoneInv'
  <2>1. Programmed'
    BY <1>5, <1>6 DEF Programmed
  <2>2. (Spare(boot.tries + 1))'
    BY <1>0, <1>2, <1>6, <1>10 DEF Spare
  <2> QED BY <1>6, <2>1, <2>2 DEF AttemptInv, DoneInv, At, Saving
<1>12. BackupInv'
  BY <1>0, <1>6 DEF Inv, BackupInv, BackupIsWhole, At, Holds, Sum, Saving
<1> QED BY <1>8, <1>9, <1>11, <1>12 DEF Inv

(* What a step of the copying and the backing up finds.                    *)
LEMMA BusyWords ==
  ASSUME Inv, mode = "boot", boot.step \notin {"check", "try"}
  PROVE  /\ boot \in BootRec /\ info.status = "ready"
         /\ boot.crc = info.crc /\ boot.size = info.size
         /\ boot.crc \in Images /\ boot.size = Len(boot.crc) /\ boot.size \in 1 .. Cells
         /\ Holds(spi, boot.crc)
<1>1. boot \in BootRec
  BY DEF Inv, TypeInv
<1>2. info.status = "ready" /\ boot.crc = info.crc /\ boot.size = info.size
  BY DEF Inv, WordsInv
<1> QED BY <1>1, <1>2, ReadyWords

LEMMA CopyInv == ASSUME Inv, Copy PROVE Inv'
<1> USE BootloaderAssumption, FirmwareFlashAssumption
<1>0. mode = "boot" /\ boot.step = "copy" /\ UNCHANGED <<spi, info, base, baseInfo, mode>>
  BY DEF Copy, At
<1>1. /\ boot \in BootRec /\ info.status = "ready"
      /\ boot.crc = info.crc /\ boot.size = info.size
      /\ boot.crc \in Images /\ boot.size = Len(boot.crc) /\ boot.size \in 1 .. Cells
      /\ Holds(spi, boot.crc)
  BY <1>0, BusyWords
<1>2. /\ Programmed /\ boot.i = Len(boot.sum) /\ Spare(boot.tries + 1)
      /\ (\A k \in 1 .. boot.i : boot.sum[k] = boot.crc[k]) \/ Spare(boot.tries)
  BY <1>0 DEF Inv, AttemptInv, At
<1>3. boot.crc \in Seq(Cell)
  BY <1>1, ImageCells
<1>4. CASE boot.i >= boot.size /\ boot' = Go("test") /\ UNCHANGED <<mcu, glitches>>
  <2>1. boot' = [boot EXCEPT !.step = "test"]
    BY <1>4 DEF Go
  <2>2. /\ boot' \in BootRec /\ boot'.step = "test" /\ boot'.size = boot.size
        /\ boot'.crc = boot.crc /\ boot'.sum = boot.sum /\ boot'.tries = boot.tries
    BY <1>1, <2>1 DEF BootRec, Steps
  <2>3. boot.sum = boot.crc \/ Spare(boot.tries)
    <3>1. boot.sum \in Seq(Cell) /\ Len(boot.sum) = Len(boot.crc)
      BY <1>1, <1>2, <1>4 DEF Programmed
    <3> QED BY <1>2, <1>3, <3>1
  <2>4. TypeInv'
    BY <1>0, <1>4, <2>2 DEF Inv, TypeInv
  <2>5. WordsInv'
    BY <1>0, <1>1, <1>4, <2>2 DEF Inv, WordsInv, Described, Holds, Sum, Whole
  <2>6. AttemptInv' /\ DoneInv'
    BY <1>0, <1>2, <1>4, <2>2, <2>3 DEF AttemptInv, DoneInv, At, Spare, Programmed, Saving
  <2>7. BackupInv'
    BY <1>0, <1>4, <2>2 DEF Inv, BackupInv, BackupIsWhole, At, Holds, Sum, Saving
  <2> QED BY <2>4, <2>5, <2>6, <2>7 DEF Inv
<1>5. ASSUME boot.i < boot.size, NEW first \in Reads(spi[boot.i]), NEW second \in Reads(spi[boot.i]),
             Glitch(<<first, second>>, <<spi[boot.i], spi[boot.i]>>),
             mcu' = [mcu EXCEPT ![boot.i] = first],
             boot' = [boot EXCEPT !.sum = Append(@, first),
                                  !.step = IF first = second THEN "copy" ELSE "test",
                                  !.i = IF first = second THEN @ + 1 ELSE @]
      PROVE  Inv'
  <2>1. boot.i \in Area /\ boot.i + 1 \in 1 .. Len(boot.crc) /\ boot.i \in Nat
    <3>1. boot.i < boot.size
      BY <1>5
    <3> QED BY ONLY <1>1, <1>2, <3>1, FirmwareFlashAssumption DEF Area, BootRec
  <2>2. spi[boot.i] = boot.crc[boot.i + 1] /\ spi[boot.i] \in Cell
    <3>1. \A k \in 1 .. Len(boot.crc) : spi[k - 1] = boot.crc[k]
      BY <1>1, HoldsCells
    <3>2. (boot.i + 1) - 1 = boot.i
      BY <2>1
    <3>3. spi[boot.i] = boot.crc[boot.i + 1]
      BY <2>1, <3>1, <3>2
    <3> QED BY <2>1, <3>3 DEF Inv, TypeInv
  <2>3. first \in Cell
    BY <2>2 DEF Reads, Cell
  <2>4. /\ glitches' \in 0 .. MaxGlitch /\ glitches' >= glitches
        /\ first # spi[boot.i] \/ second # spi[boot.i] => glitches' > glitches
    BY <1>5, TwoReads DEF Inv, TypeInv
  <2>5. /\ boot.sum \in Seq(Cell) /\ Append(boot.sum, first) \in Seq(Cell)
        /\ Len(Append(boot.sum, first)) = boot.i + 1
        /\ Append(boot.sum, first)[boot.i + 1] = first
        /\ \A k \in 1 .. boot.i : Append(boot.sum, first)[k] = boot.sum[k]
    BY <1>2, <2>3 DEF Programmed
  <2>6. /\ boot'.sum = Append(boot.sum, first) /\ boot'.size = boot.size
        /\ boot'.crc = boot.crc /\ boot'.tries = boot.tries
        /\ boot'.step = IF first = second THEN "copy" ELSE "test"
        /\ boot'.i = IF first = second THEN boot.i + 1 ELSE boot.i
    BY <1>1, <1>5 DEF BootRec
  <2>7. boot' \in BootRec
    <3>1. boot.i + 1 \in 0 .. Cells + 4
      BY <1>1, <2>1
    <3> QED BY <1>1, <1>5, <2>5, <3>1 DEF BootRec, Steps
  <2>8. mcu' \in [Area -> Cell]
    BY <1>5, <2>1, <2>3 DEF Inv, TypeInv
  <2>9. TypeInv'
    BY <1>0, <2>4, <2>7, <2>8 DEF Inv, TypeInv
  <2>10. WordsInv'
    BY <1>0, <1>1, <2>6 DEF Inv, WordsInv, Described, Holds, Sum
  <2>11. Programmed'
    <3>1. boot'.sum \in Seq(Cell) /\ Len(boot'.sum) = boot.i + 1 /\ Len(boot'.sum) <= boot'.size
      BY <1>1, <2>1, <2>5, <2>6
    <3>2. \A k \in 1 .. boot.i : mcu'[k - 1] = mcu[k - 1] /\ mcu[k - 1] = boot.sum[k]
      <4>1. mcu \in [Area -> Cell]
        BY DEF Inv, TypeInv
      <4> QED BY <1>2, <1>5, <2>1, <4>1 DEF Programmed, Area
    <3>3. mcu'[boot.i] = first
      BY <1>5, <2>1 DEF Inv, TypeInv
    <3>4. \A k \in 1 .. boot.i + 1 : mcu'[k - 1] = boot'.sum[k]
      <4> SUFFICES ASSUME NEW k \in 1 .. boot.i + 1 PROVE mcu'[k - 1] = boot'.sum[k]
        OBVIOUS
      <4>1. CASE k = boot.i + 1
        BY <2>1, <2>5, <2>6, <3>3, <4>1
      <4>2. CASE k # boot.i + 1
        BY <2>1, <2>5, <2>6, <3>2, <4>2
      <4> QED BY <4>1, <4>2
    <3> QED BY <3>1, <3>4 DEF Programmed
  <2>12. boot.tries \in Nat /\ glitches \in Nat /\ glitches' \in Nat
    BY <1>1, <2>4 DEF BootRec, Inv, TypeInv
  <2>13. CASE first = spi[boot.i] /\ second = spi[boot.i]
    <3>1. (\A k \in 1 .. boot.i + 1 : boot'.sum[k] = boot.crc[k]) \/ Spare(boot.tries)
      BY <1>2, <2>1, <2>2, <2>5, <2>6, <2>13
    <3>2. Spare(boot.tries) => (Spare(boot.tries))'
      BY <2>4, <2>6, <2>12 DEF Spare
    <3>3. (Spare(boot.tries + 1))'
      BY <1>2, <2>4, <2>6, <2>12 DEF Spare
    <3>4. boot'.step = "copy" /\ boot'.i = Len(boot'.sum) /\ boot'.i = boot.i + 1
      BY <2>5, <2>6, <2>13
    <3>5. AttemptInv'
      <4>1. (\A k \in 1 .. boot'.i : boot'.sum[k] = boot'.crc[k]) \/ (Spare(boot.tries))'
        BY <2>6, <3>1, <3>2, <3>4
      <4> QED BY <2>11, <3>3, <3>4, <4>1 DEF AttemptInv, At
    <3>6. DoneInv'
      BY <3>4 DEF DoneInv, Saving
    <3>7. BackupIsWhole'
      <4>1. glitches' = 0 => glitches = 0
        BY <2>4, <2>12
      <4> QED BY <1>0, <4>1 DEF Inv, BackupInv, BackupIsWhole, Holds, Sum
    <3>8. BackupInv'
      BY <3>4, <3>7 DEF BackupInv, At, Saving
    <3> QED BY <2>9, <2>10, <3>5, <3>6, <3>8 DEF Inv
  <2>14. CASE first # spi[boot.i] \/ second # spi[boot.i]
    <3>1. (Spare(boot.tries))' /\ (Spare(boot.tries + 1))'
      BY <1>2, <2>4, <2>6, <2>12, <2>14 DEF Spare
    <3>2. AttemptInv'
      BY <1>0, <2>5, <2>6, <2>11, <3>1 DEF AttemptInv, At
    <3>3. DoneInv'
      BY <2>6 DEF DoneInv, Saving
    <3>4. BackupInv'
      <4>1. BackupIsWhole'
        BY <1>0, <2>4, <2>12, <2>14
      DEF BackupIsWhole
      <4> QED BY <2>6, <4>1 DEF BackupInv, At, Saving
    <3> QED BY <2>9, <2>10, <3>2, <3>3, <3>4 DEF Inv
  <2> QED BY <2>13, <2>14
<1> QED
  <2>1. Source[boot.from][boot.i] = spi[boot.i]
    BY <1>1 DEF BootRec, Source
  <2> QED BY <1>4, <1>5, <2>1 DEF Copy

LEMMA TestInv == ASSUME Inv, Test PROVE Inv'
<1> USE BootloaderAssumption, FirmwareFlashAssumption
<1>0. /\ mode = "boot" /\ boot.step = "test"
      /\ UNCHANGED <<spi, info, mcu, base, baseInfo, mode, glitches>>
  BY DEF Test, At
<1>1. /\ boot \in BootRec /\ info.status = "ready"
      /\ boot.crc = info.crc /\ boot.size = info.size
      /\ boot.crc \in Images /\ boot.size = Len(boot.crc)
  BY <1>0, BusyWords
<1>2. Programmed /\ (boot.sum = boot.crc \/ Spare(boot.tries))
  BY <1>0 DEF Inv, AttemptInv, At
<1>3. /\ boot' \in BootRec /\ boot'.size = boot.size /\ boot'.crc = boot.crc
      /\ \/ boot.sum # boot.crc /\ boot'.step = "try" /\ boot'.tries = boot.tries
         \/ boot.sum = boot.crc /\ baseInfo.status # "ready" /\ boot'.step = "saveTry"
         \/ boot.sum = boot.crc /\ boot'.step = "erase"
  <2>1. CASE boot.sum # boot.crc
    <3>1. boot' = [boot EXCEPT !.step = "try"]
      BY <2>1 DEF Test, Go
    <3> QED BY <1>1, <2>1, <3>1 DEF BootRec, Steps
  <2>2. CASE boot.sum = boot.crc /\ boot.from = "new" /\ baseInfo.status # "ready"
    <3>1. boot' = [boot EXCEPT !.step = "saveTry", !.tries = Tries]
      BY <2>2 DEF Test
    <3>2. Tries \in 0 .. Tries /\ "saveTry" \in Steps \ {"stuck"}
      BY DEF Steps
    <3> QED BY <1>1, <2>2, <3>1, <3>2 DEF BootRec
  <2>3. CASE boot.sum = boot.crc /\ ~(boot.from = "new" /\ baseInfo.status # "ready")
    <3>1. boot' = [boot EXCEPT !.step = "erase"]
      BY <2>3 DEF Test, Go
    <3> QED BY <1>1, <2>3, <3>1 DEF BootRec, Steps
  <2> QED BY <2>1, <2>2, <2>3
<1>4. TypeInv'
  BY <1>0, <1>3 DEF Inv, TypeInv
<1>5. WordsInv'
  BY <1>0, <1>1, <1>3 DEF Inv, WordsInv, Described, Holds, Sum, Whole
<1>6. AttemptInv'
  BY <1>0, <1>2, <1>3 DEF AttemptInv, At, Spare
<1>7. DoneInv'
  <2>1. boot.sum = boot.crc => Holds(mcu, boot.crc)
    BY <1>1, <1>2, HoldsCells DEF Programmed
  <2> QED BY <1>0, <1>1, <1>3, <2>1 DEF DoneInv, Saving, Holds, Sum
<1>8. BackupInv'
  BY <1>0, <1>3 DEF Inv, BackupInv, BackupIsWhole, At, Holds, Sum, Saving
<1> QED BY <1>4, <1>5, <1>6, <1>7, <1>8 DEF Inv

(* The steps of the backing up leave the MCU and the words alone.          *)
LEMMA SavingInv ==
  ASSUME Inv, mode = "boot", boot.step \in Saving, UNCHANGED <<spi, info, mcu, mode>>,
         boot' \in BootRec, boot'.size = boot.size, boot'.crc = boot.crc,
         boot'.step \in Saving \cup {"erase"},
         base' \in [Area -> Cell], baseInfo' \in Info, glitches' \in 0 .. MaxGlitch
  PROVE  TypeInv' /\ WordsInv' /\ AttemptInv' /\ DoneInv'
<1>1. TypeInv'
  BY DEF Inv, TypeInv
<1>2. WordsInv'
  BY DEF Inv, WordsInv, Described, Holds, Sum, Whole, Saving
<1>3. AttemptInv'
  BY DEF AttemptInv, At, Saving
<1>4. DoneInv'
  BY DEF Inv, DoneInv, Holds, Sum
<1> QED BY <1>1, <1>2, <1>3, <1>4

LEMMA SaveTryInv == ASSUME Inv, SaveTry PROVE Inv'
<1> USE BootloaderAssumption
<1>0. /\ mode = "boot" /\ boot.step = "saveTry" /\ boot \in BootRec
      /\ UNCHANGED <<spi, info, mcu, base, baseInfo, mode, glitches>>
  BY DEF SaveTry, At, Inv, TypeInv
<1>1. /\ boot' \in BootRec /\ boot'.size = boot.size /\ boot'.crc = boot.crc
      /\ boot'.step = "erase" \/ (boot'.step = "save" /\ boot'.sum = <<>>)
  <2>1. CASE boot.tries = 0
    <3>1. boot' = [boot EXCEPT !.step = "erase"]
      BY <2>1 DEF SaveTry, Go
    <3> QED BY <1>0, <3>1 DEF BootRec, Steps
  <2>2. CASE boot.tries # 0
    <3>1. boot' = [boot EXCEPT !.tries = @ - 1, !.i = 0, !.sum = <<>>, !.step = "save"]
      BY <2>2 DEF SaveTry
    <3>2. boot.tries - 1 \in 0 .. Tries /\ 0 \in 0 .. Cells + 4
      BY <1>0, <2>2, FirmwareFlashAssumption DEF BootRec
    <3>3. "save" \in Steps \ {"stuck"} /\ <<>> \in Seq(Cell) \cup {NoSum}
      BY DEF Steps
    <3> QED BY <1>0, <3>1, <3>2, <3>3 DEF BootRec
  <2> QED BY <2>1, <2>2
<1>2. TypeInv' /\ WordsInv' /\ AttemptInv' /\ DoneInv'
  BY <1>0, <1>1, SavingInv DEF Saving, Inv, TypeInv
<1>3. BackupInv'
  BY <1>0, <1>1 DEF Inv, BackupInv, BackupIsWhole, At, Holds, Sum, Saving
<1> QED BY <1>2, <1>3 DEF Inv

LEMMA SaveInv == ASSUME Inv, Save PROVE Inv'
<1> USE BootloaderAssumption
<1>0. mode = "boot" /\ boot.step = "save" /\ UNCHANGED <<spi, info, mcu, baseInfo, mode>>
  BY DEF Save, At
<1>1. /\ boot \in BootRec /\ boot.crc \in Images /\ boot.size = Len(boot.crc)
      /\ boot.size \in 1 .. Cells
  BY <1>0, BusyWords
<1>2. boot.sum = <<>> /\ (glitches = 0 => baseInfo.status # "ready")
  BY <1>0 DEF Inv, BackupInv, At, Saving
<1>3. boot.crc # <<>> /\ boot.crc # NoSum
  BY <1>1, ImageCells
<1>4. ASSUME /\ boot' \in BootRec /\ boot'.size = boot.size /\ boot'.crc = boot.crc
             /\ boot'.step \in {"save", "saveTest"}
             /\ boot'.step = "save" => boot'.sum = <<>>
             /\ boot'.step = "saveTest" /\ boot'.sum = boot'.crc => (Holds(base, boot.crc))',
             base' \in [Area -> Cell], glitches' \in 0 .. MaxGlitch, glitches' >= glitches
      PROVE  Inv'
  <2>1. TypeInv' /\ WordsInv' /\ AttemptInv' /\ DoneInv'
    BY <1>0, <1>4, SavingInv DEF Saving, Inv, TypeInv
  <2>2. glitches' = 0 => glitches = 0
    BY <1>4 DEF Inv, TypeInv
  <2>3. BackupInv'
    BY <1>0, <1>2, <1>4, <2>2 DEF BackupInv, BackupIsWhole, At, Saving
  <2> QED BY <2>1, <2>3 DEF Inv
<1>5. ASSUME boot.i < boot.size, NEW first \in Reads(spi[boot.i]),
             base' = Written(base, boot.i, first), NEW second \in Reads(base'[boot.i]),
             Glitch(<<first, second>>, <<spi[boot.i], base'[boot.i]>>),
             boot' = IF second = first THEN [boot EXCEPT !.i = @ + 1] ELSE Go("saveTest")
      PROVE  Inv'
  <2>1. boot.i \in Area /\ boot.i + 1 \in 0 .. Cells + 4
    BY <1>1, <1>5, FirmwareFlashAssumption DEF Area, BootRec
  <2>2. first \in Cell
    BY <2>1 DEF Reads, Cell, Inv, TypeInv
  <2>3. base' \in [Area -> Cell]
    BY <1>5, <2>1, <2>2, WrittenCells DEF Inv, TypeInv
  <2>4. glitches' \in 0 .. MaxGlitch /\ glitches' >= glitches
    BY <1>5, TwoReads DEF Inv, TypeInv
  <2>5. /\ boot' \in BootRec /\ boot'.size = boot.size /\ boot'.crc = boot.crc
        /\ boot'.step \in {"save", "saveTest"} /\ boot'.sum = boot.sum
    <3>1. CASE second = first
      BY <1>0, <1>1, <1>5, <2>1, <3>1 DEF BootRec
    <3>2. CASE second # first
      <4>1. boot' = [boot EXCEPT !.step = "saveTest"]
        BY <1>5, <3>2 DEF Go
      <4> QED BY <1>1, <4>1 DEF BootRec, Steps
    <3> QED BY <3>1, <3>2
  <2> QED BY <1>2, <1>3, <1>4, <2>3, <2>4, <2>5
<1>6. ASSUME boot.i >= boot.size, UNCHANGED base, NEW sum \in {Sum(base, boot.size), NoSum},
             Glitch(<<sum>>, <<Sum(base, boot.size)>>),
             boot' = [boot EXCEPT !.sum = sum, !.step = "saveTest"]
      PROVE  Inv'
  <2>1. sum \in Seq(Cell) \cup {NoSum}
    BY <1>1, <1>6, SumCells DEF Inv, TypeInv
  <2>2. glitches' \in 0 .. MaxGlitch /\ glitches' >= glitches
    BY <1>6, OneRead DEF Inv, TypeInv
  <2>3. /\ boot' \in BootRec /\ boot'.size = boot.size /\ boot'.crc = boot.crc
        /\ boot'.step = "saveTest" /\ boot'.sum = sum
    BY <1>1, <1>6, <2>1 DEF BootRec, Steps
  <2>4. boot'.sum = boot'.crc => (Holds(base, boot.crc))'
    <3>1. boot'.sum = sum /\ boot'.crc = boot.crc /\ boot.crc # NoSum
      BY <1>3, <2>3
    <3>2. boot'.sum = boot'.crc => Sum(base, boot.size) = boot.crc
      BY <1>6, <3>1
    <3>3. base' = base /\ boot.size = Len(boot.crc)
      BY <1>1, <1>6
    <3> QED BY <3>1, <3>2, <3>3 DEF Holds
  <2> QED BY <1>4, <1>6, <2>2, <2>3, <2>4 DEF Inv, TypeInv
<1> QED BY <1>5, <1>6 DEF Save

LEMMA SaveTestInv == ASSUME Inv, SaveTest PROVE Inv'
<1> USE BootloaderAssumption
<1>0. /\ mode = "boot" /\ boot.step = "saveTest" /\ boot \in BootRec
      /\ UNCHANGED <<spi, info, mcu, base, baseInfo, mode, glitches>>
  BY DEF SaveTest, At, Inv, TypeInv
<1>1. /\ boot' \in BootRec /\ boot'.size = boot.size /\ boot'.crc = boot.crc
      /\ \/ boot.sum = boot.crc /\ boot'.step = "saveInfo" /\ boot'.i = 0
         \/ boot'.step = "saveTry"
  <2>1. CASE boot.sum = boot.crc
    <3>1. boot' = [boot EXCEPT !.step = "saveInfo", !.i = 0]
      BY <2>1 DEF SaveTest
    <3>2. 0 \in 0 .. Cells + 4
      BY FirmwareFlashAssumption
    <3> QED BY <1>0, <2>1, <3>1, <3>2 DEF BootRec, Steps
  <2>2. CASE boot.sum # boot.crc
    <3>1. boot' = [boot EXCEPT !.step = "saveTry"]
      BY <2>2 DEF SaveTest, Go
    <3> QED BY <1>0, <3>1 DEF BootRec, Steps
  <2> QED BY <2>1, <2>2
<1>2. TypeInv' /\ WordsInv' /\ AttemptInv' /\ DoneInv'
  BY <1>0, <1>1, SavingInv DEF Saving, Inv, TypeInv
<1>3. BackupInv'
  BY <1>0, <1>1 DEF Inv, BackupInv, BackupIsWhole, At, Holds, Sum, Saving
<1> QED BY <1>2, <1>3 DEF Inv

LEMMA SaveInfoInv == ASSUME Inv, SaveInfo PROVE Inv'
<1> USE BootloaderAssumption, FirmwareFlashAssumption
<1>0. /\ mode = "boot" /\ boot.step = "saveInfo" /\ UNCHANGED <<spi, info, mcu, base, mode>>
  BY DEF SaveInfo, At
<1>1. /\ boot \in BootRec /\ boot.crc = info.crc /\ boot.crc \in Images /\ info \in Info
      /\ baseInfo \in Info
  BY <1>0, BusyWords DEF Inv, TypeInv
<1>2. Holds(base, boot.crc) /\ boot.crc # NoSum
  BY <1>0, <1>1, ImageCells DEF Inv, BackupInv, At
<1>3. CASE boot.i < 4 /\ boot' = [boot EXCEPT !.i = @ + 1] /\ UNCHANGED glitches
  <2>1. boot.i + 1 \in 1 .. 4 /\ boot.i + 1 \in 0 .. Cells + 4
    <3>1. boot.i \in 0 .. Cells + 4 /\ boot.i < 4 /\ Cells \in Nat
      BY <1>1, <1>3 DEF BootRec
    <3> QED BY ONLY <3>1
  <2>2. /\ boot' \in BootRec /\ boot'.size = boot.size /\ boot'.crc = boot.crc
        /\ boot'.step = "saveInfo" /\ boot'.i = boot.i + 1
    BY <1>0, <1>1, <1>3, <2>1 DEF BootRec
  <2>3. baseInfo' \in Info /\ (boot.i < 3 => baseInfo'.crc = NoSum)
        /\ (boot.i = 3 => baseInfo'.crc = info.crc)
        /\ (boot.i = 0 => baseInfo'.status = "none")
    <3>1. CASE boot.i = 0
      BY <3>1, <1>3 DEF SaveInfo, Blank, Info, NoSize
    <3>2. CASE boot.i = 1
      <4>1. baseInfo' = [baseInfo EXCEPT !["status"] = info["status"]] /\ baseInfo.crc = NoSum
        BY <1>0, <1>3, <3>2 DEF SaveInfo, Inv, BackupInv, At
      <4> QED BY <1>1, <3>2, <4>1 DEF Info
    <3>3. CASE boot.i = 2
      <4>1. baseInfo' = [baseInfo EXCEPT !["size"] = info["size"]] /\ baseInfo.crc = NoSum
        BY <1>0, <1>3, <3>3 DEF SaveInfo, Inv, BackupInv, At
      <4> QED BY <1>1, <3>3, <4>1 DEF Info
    <3>4. CASE boot.i = 3
      <4>1. baseInfo' = [baseInfo EXCEPT !["crc"] = info["crc"]]
        BY <1>3, <3>4 DEF SaveInfo
      <4>2. baseInfo' \in Info /\ baseInfo'.crc = info.crc
        BY <1>1, <4>1 DEF Info
      <4> QED BY <3>4, <4>2
    <3> QED BY <1>1, <2>1, <3>1, <3>2, <3>3, <3>4 DEF BootRec
  <2>4. TypeInv' /\ WordsInv' /\ AttemptInv' /\ DoneInv'
    <3>1. base' \in [Area -> Cell] /\ glitches' \in 0 .. MaxGlitch
      BY <1>0, <1>3 DEF Inv, TypeInv
    <3>2. boot.step \in Saving /\ boot'.step \in Saving
      BY <1>0, <2>2 DEF Saving
    <3> QED BY <1>0, <2>2, <2>3, <3>1, <3>2, SavingInv
  <2>5. BackupIsWhole'
    <3>1. boot.i < 3 \/ boot.i = 3
      BY <2>1, <1>1 DEF BootRec
    <3>2. Holds(base, boot.crc)' /\ boot'.crc = boot.crc
      BY <1>0, <1>2, <2>2 DEF Holds, Sum
    <3>3. CASE boot.i < 3
      BY <2>3, <3>3 DEF BackupIsWhole
    <3>4. CASE boot.i = 3
      <4>1. baseInfo'.crc = boot'.crc
        BY <1>1, <2>3, <3>2, <3>4
      <4> QED BY <3>2, <4>1 DEF BackupIsWhole, Holds, Sum
    <3> QED BY <3>1, <3>3, <3>4
  <2>6. BackupInv'
    <3>1. Holds(base, boot.crc)' /\ boot'.i > 0
      BY <1>0, <1>2, <2>1, <2>2 DEF Holds, Sum
    <3>2. boot'.i \in 1 .. 3 => baseInfo'.crc = NoSum
      BY <1>1, <2>2, <2>3 DEF BootRec
    <3> QED BY <1>0, <2>2, <2>5, <3>1, <3>2 DEF BackupInv, At
  <2> QED BY <2>4, <2>6 DEF Inv
<1>4. ASSUME boot.i = 4, NEW equal \in BOOLEAN, Glitch(<<equal>>, <<TRUE>>),
             boot' = Go(IF equal THEN "erase" ELSE "saveTry"), UNCHANGED baseInfo
      PROVE  Inv'
  <2>1. glitches' \in 0 .. MaxGlitch /\ glitches' >= glitches /\ (equal # TRUE => glitches' > glitches)
    BY <1>4, OneRead DEF Inv, TypeInv
  <2>2. boot' = [boot EXCEPT !.step = IF equal THEN "erase" ELSE "saveTry"]
    BY <1>4 DEF Go
  <2>3. /\ boot' \in BootRec /\ boot'.size = boot.size /\ boot'.crc = boot.crc
        /\ \/ boot'.step = "erase"
           \/ boot'.step = "saveTry" /\ glitches' > glitches
    BY <1>1, <2>1, <2>2 DEF BootRec, Steps
  <2>4. TypeInv' /\ WordsInv' /\ AttemptInv' /\ DoneInv'
    BY <1>0, <1>4, <2>1, <2>3, SavingInv DEF Saving, Inv, TypeInv
  <2>5. glitches' = 0 => glitches = 0
    BY <2>1 DEF Inv, TypeInv
  <2>6. BackupIsWhole'
    BY <1>0, <1>4, <2>5 DEF Inv, BackupInv, BackupIsWhole, Holds, Sum
  <2>7. BackupInv'
    BY <2>1, <2>3, <2>5, <2>6 DEF BackupInv, At, Saving, Inv, TypeInv
  <2> QED BY <2>4, <2>7 DEF Inv
<1>5. CASE boot.i < 4
  BY <1>3, <1>5 DEF SaveInfo
<1>6. CASE boot.i >= 4
  <2>1. boot.i = 4 /\ UNCHANGED baseInfo
    BY <1>1, <1>6 DEF SaveInfo, BootRec
  <2>2. PICK equal \in BOOLEAN : Glitch(<<equal>>, <<TRUE>>)
                                /\ boot' = Go(IF equal THEN "erase" ELSE "saveTry")
    <3>1. ~(boot.i < 4)
      BY <2>1
    <3> QED BY <3>1, Zenon DEF SaveInfo
  <2> QED BY <1>4, <2>1, <2>2
<1> QED BY <1>1, <1>5, <1>6 DEF BootRec

(* The application is there when the bootloader is done.                   *)
LEMMA EraseInv == ASSUME Inv, Erase PROVE Inv'
<1> USE BootloaderAssumption, FirmwareFlashAssumption
<1>0. /\ mode = "boot" /\ boot.step = "erase" /\ info' = Blank
      /\ UNCHANGED <<spi, mcu, base, baseInfo, glitches>>
  BY DEF Erase, At
<1>1. Runnable /\ Whole(mcu)
  <2>1. info.crc \in Images /\ Holds(mcu, info.crc)
    BY <1>0, BusyWords DEF Inv, DoneInv, Saving
  <2> QED BY <2>1, WholeRuns
<1>2. mode' = "run" /\ boot' = Fresh
  BY <1>1 DEF Erase, Execute
<1>3. Fresh \in BootRec /\ Blank \in Info
  BY DEF Fresh, BootRec, Steps, NoSize, Blank, Info
<1>4. TypeInv'
  BY <1>0, <1>2, <1>3 DEF Inv, TypeInv
<1>5. WordsInv'
  BY <1>0, <1>1, <1>2 DEF WordsInv, Described, Blank, Whole, Holds, Sum
<1>6. AttemptInv' /\ DoneInv'
  BY <1>2 DEF AttemptInv, DoneInv, At
<1>7. BackupInv'
  BY <1>0, <1>2 DEF Inv, BackupInv, BackupIsWhole, At, Holds, Sum
<1> QED BY <1>4, <1>5, <1>6, <1>7 DEF Inv

(* A reset finds the words that make the bootloader begin again.           *)
LEMMA RestartInv == ASSUME Inv, Restart PROVE Inv'
<1> USE BootloaderAssumption, FirmwareFlashAssumption
<1>0. /\ mode' = "boot" /\ boot' = Fresh /\ UNCHANGED <<spi, info, baseInfo, glitches>>
      /\ mcu' \in Torn(mcu, "copy") /\ base' \in Torn(base, "save")
  BY DEF Restart, Reset
<1>1. Fresh \in BootRec
  BY DEF Fresh, BootRec, Steps, NoSize
<1>2. ASSUME NEW flash \in [Area -> Cell], NEW step, NEW torn \in Torn(flash, step)
      PROVE  torn \in [Area -> Cell] /\ (~At(step) => torn = flash)
  BY <1>2 DEF Torn, Cell
<1>3. /\ mcu' \in [Area -> Cell] /\ (~At("copy") => mcu' = mcu)
      /\ base' \in [Area -> Cell] /\ (~At("save") => base' = base)
  BY <1>0, <1>2 DEF Inv, TypeInv
<1>4. TypeInv'
  BY <1>0, <1>1, <1>3 DEF Inv, TypeInv
<1>5. boot'.step = "check" /\ boot'.tries = Tries
  BY <1>0 DEF Fresh
<1>6. WordsInv'
  <2>1. At("copy") => info.status = "ready"
    BY DEF Inv, WordsInv, At
  <2> QED BY <1>0, <1>3, <1>5, <2>1 DEF Inv, WordsInv, Described, Whole, Holds, Sum
<1>7. AttemptInv' /\ DoneInv'
  BY <1>0, <1>5 DEF Inv, TypeInv, AttemptInv, DoneInv, At, Spare, Saving
<1>8. BackupIsWhole'
  <2>1. At("save") /\ glitches = 0 => baseInfo.status # "ready"
    BY DEF Inv, BackupInv, At, Saving
  <2> QED BY <1>0, <1>3, <2>1 DEF Inv, BackupInv, BackupIsWhole, Holds, Sum
<1>9. BackupInv'
  BY <1>5, <1>8 DEF BackupInv, At, Saving
<1> QED BY <1>4, <1>6, <1>7, <1>9 DEF Inv

LEMMA StutterInv == ASSUME Inv, UNCHANGED allVars PROVE Inv'
BY DEF allVars, bootVars, Inv, TypeInv, WordsInv, AttemptInv, DoneInv, BackupInv, BackupIsWhole,
       Described, Whole, Holds, Sum, At, Spare, Programmed
-----------------------------------------------------------------------------
(* The inductive invariant of the bootloader, under any number of resets.  *)
THEOREM Invariant == BootSpec => []Inv
<1>1. BootInit => Inv
  BY InitInv
<1>2. Inv /\ [BootNext]_allVars => Inv'
  <2> SUFFICES ASSUME Inv, [BootNext]_allVars PROVE Inv'
    OBVIOUS
  <2>1. CASE BootStep
    BY <2>1, CheckInv, TryInv, CopyInv, TestInv, SaveTryInv, SaveInv, SaveTestInv,
       SaveInfoInv, EraseInv DEF BootStep
  <2>2. CASE Restart
    BY <2>2, RestartInv
  <2>3. CASE UNCHANGED allVars
    BY <2>3, StutterInv
  <2> QED BY <2>1, <2>2, <2>3 DEF BootNext
<1> QED BY <1>1, <1>2, PTL DEF BootSpec, allVars

(* The variables keep their types, and the fall back is never needed.      *)
THEOREM TypeCorrect == BootSpec => []BootTypeOK
<1>1. Inv => BootTypeOK
  BY DEF Inv, TypeInv, BootTypeOK, BootRec
<1> QED BY <1>1, Invariant, PTL

(* The application that is started is a complete image.                    *)
THEOREM AlwaysRunsWhole == BootSpec => []RunsWhole
<1>1. Inv => RunsWhole
  BY DEF Inv, WordsInv, RunsWhole
<1> QED BY <1>1, Invariant, PTL

(* Half a copy is never forgotten.                                         *)
THEOREM AlwaysPending == BootSpec => []CopyIsPending
<1>1. Inv => CopyIsPending
  BY DEF Inv, WordsInv, CopyIsPending
<1> QED BY <1>1, Invariant, PTL

(* The new image is the one that gets programmed.                          *)
THEOREM AlwaysNewImage == BootSpec => []NewImageRuns
<1>1. Inv => NewImageRuns
  BY DEF Inv, DoneInv, NewImageRuns, At, Saving
<1> QED BY <1>1, Invariant, PTL

(* The backup is complete once its words are, as long as reads are right.  *)
THEOREM AlwaysBackup == BootSpec => []BackupIsWhole
<1>1. Inv => BackupIsWhole
  BY DEF Inv, BackupInv
<1> QED BY <1>1, Invariant, PTL
-----------------------------------------------------------------------------
(***************************************************************************)
(* 2. The download, the power cuts and the bootloader together.            *)
(***************************************************************************)

(* What the application keeps: the sector the offset may go back to, the   *)
(* cells ahead of it, and the words of an image that is ready.             *)
ErasedFrom(flash, offset) ==
  offset \in Area /\ ~OpensSector(offset)
    => \A i \in Sector(offset) : i >= offset => flash[i] = Erased

(* Only what the server may still send counts: what a packet that was too  *)
(* short to be stored leaves is the end.                                   *)
Ahead(flash, offset) == offset < Len(serving) => ErasedFrom(flash, offset)
ErasedAhead == Ahead(spi, dl.offset)

DownloadInv ==
  /\ spi \in [Area -> Cell] /\ info \in Info /\ dl \in Download /\ serving \in Images
  /\ OpensSector(dl.old) /\ (mode = "run" => ErasedAhead)
  /\ info.status = "ready" =>
       info.crc \in Images \cup {<<>>} /\ info.size = Len(info.crc)

(* The words of the backup, of which the checksum is written last.         *)
BackupWords ==
  /\ baseInfo.crc # NoSum => baseInfo.crc \in Images /\ baseInfo.size = Len(baseInfo.crc)
  /\ At("saveInfo") /\ boot.i = 3 => baseInfo.size = boot.size

UsedInv ==
  /\ DOMAIN used = DOMAIN Bounds
  /\ \A kind \in DOMAIN Bounds : used[kind] \in 0 .. Bounds[kind]

(* The MCU holds what the application was started with.                    *)
RanInv == ran \in Images /\ (mode = "run" \/ info.status # "ready" => Holds(mcu, ran))
-----------------------------------------------------------------------------
(* After a packet that was not due: the download may be damaged, and the   *)
(* bootloader may have to fall back on the backup, which is not changed    *)
(* any more.                                                               *)
Good(from) == from = "base" \/ Holds(spi, info.crc)

StrayRec ==
  [step : {"check", "try", "copy", "test", "erase"}, from : {"new", "base"}, tries : 0 .. Tries,
   i : 0 .. Cells, size : 0 .. NoSize, crc : Images \cup {NoSum, <<>>}, sum : Seq(Cell)]

StrayType ==
  /\ mcu \in [Area -> Cell] /\ base \in [Area -> Cell] /\ baseInfo \in Info
  /\ mode \in {"run", "boot"} /\ boot \in StrayRec /\ glitches \in 0 .. MaxGlitch
  /\ HasBackup /\ baseInfo.crc \in Images /\ baseInfo.size = Len(baseInfo.crc)

StrayWords ==
  /\ mode = "run" \/ info.status # "ready" \/ info.crc = <<>> => Whole(mcu)
  /\ mode = "boot" /\ boot.step # "check" => info.status = "ready"
  /\ mode = "boot" /\ boot.step \in {"copy", "test"} =>
       boot.size = SourceInfo[boot.from].size /\ boot.crc = SourceInfo[boot.from].crc
  /\ mode = "boot" /\ boot.from = "base" => ~Good("new")

StrayAttempt ==
  /\ At("check") => boot.from = "new"
  /\ At("check") \/ At("try") => (Good(boot.from) => Spare(boot.tries))
  /\ At("copy") =>
       /\ Programmed /\ boot.i = Len(boot.sum)
       /\ Good(boot.from) =>
            /\ Spare(boot.tries + 1)
            /\ (\A k \in 1 .. boot.i : boot.sum[k] = boot.crc[k]) \/ Spare(boot.tries)
  /\ At("test") => Programmed /\ (Good(boot.from) => boot.sum = boot.crc \/ Spare(boot.tries))
  /\ At("erase") => Whole(mcu) /\ (Good("new") => Holds(mcu, info.crc))

StrayInv == StrayType /\ StrayWords /\ StrayAttempt

UpdateInv ==
  /\ mode = "run" => boot = Fresh
  /\ DownloadInv /\ UsedInv /\ ran \in Images \cup {NoImage}
  /\ used.stray = 0 => Inv /\ BackupWords /\ RanInv
  /\ used.stray > 0 => StrayInv
-----------------------------------------------------------------------------
(* The orders in which words are written: a download's start, its end when *)
(* the sum is right, and when it is not.                                   *)
StartOrder == <<"size", "status", "crc">>
ReadyOrder == <<"size", "crc", "status">>
FailedOrder == <<"size", "status">>

(* Only the whole of the words that end a download call it ready.          *)
LEMMA PutWords ==
  ASSUME NEW words \in Download, NEW order \in {StartOrder, ReadyOrder, FailedOrder},
         words.status = "ready" => order = ReadyOrder, NEW n \in 0 .. Len(order)
  PROVE  /\ Put(words, order, n) \in Info
         /\ Put(words, order, n).status = "ready" =>
              /\ n = Len(order) /\ words.status = "ready"
              /\ Put(words, order, n).size = words.size
              /\ Put(words, order, n).crc = words.crc
<1> DEFINE Has(word) == \E j \in 1 .. n : order[j] = word
           put == Put(words, order, n)
<1>1. put = [status |-> IF Has("status") THEN words.status ELSE "none",
             size |-> IF Has("size") THEN words.size ELSE NoSize,
             crc |-> IF Has("crc") THEN words.crc ELSE NoSum]
  BY DEF Put, Blank
<1>2. /\ words.status \in {"none", "downloading", "ready"} /\ words.size \in 0 .. Cells
      /\ words.crc \in Images \cup {NoSum, <<>>}
  BY DEF Download
<1>3. put \in Info
  BY <1>1, <1>2, FirmwareFlashAssumption DEF Info, NoSize
<1>4. ASSUME order = ReadyOrder, Has("status")
      PROVE  n = Len(order) /\ Has("size") /\ Has("crc")
  <2>1. Len(order) = 3 /\ order[1] = "size" /\ order[2] = "crc" /\ order[3] = "status"
    BY <1>4 DEF ReadyOrder
  <2>2. n = 3
    BY <1>4, <2>1
  <2> QED  BY <2>1, <2>2
<1>5. put.status = "ready" => Has("status") /\ words.status = "ready"
  BY <1>1
<1> HIDE DEF Has
<1> QED  BY <1>1, <1>3, <1>4, <1>5

LEMMA SumOfSize ==
  ASSUME NEW flash \in [Area -> Cell], NEW n \in 0 .. Cells, NEW crc \in Images \cup {NoSum, <<>>},
         Sum(flash, n) = crc
  PROVE  crc \in Images \cup {<<>>} /\ n = Len(crc) /\ Holds(flash, crc)
<1>1. Sum(flash, n) \in Seq(Cell) /\ Len(Sum(flash, n)) = n
  BY SumCells
<1>2. crc # NoSum
  <2>1. Len(NoSum) = 1 /\ NoSum[1] = -2
    BY DEF NoSum
  <2>2. -2 \notin Cell
    <3>1. \A image \in Images : \A k \in 1 .. Len(image) : image[k] \in Nat \ {0}
      BY ImageCells
    <3>2. \A image \in Images : ToSet(image) = {image[k] : k \in 1 .. Len(image)}
      BY FirmwareFlashAssumption DEF ToSet
    <3> QED  BY <3>1, <3>2 DEF Cell, Erased, Garbage
  <2> QED  BY <1>1, <2>1, <2>2
<1> QED  BY <1>1, <1>2 DEF Holds
-----------------------------------------------------------------------------
(* Sectors.                                                                *)
LEMMA SectorFacts ==
  ASSUME NEW k \in Nat
  PROVE  /\ OpensSector(0) /\ OpensSector((k \div SectorCells) * SectorCells)
         /\ (k \div SectorCells) * SectorCells \in 0 .. k
         /\ ~OpensSector(k + 1) => (k + 1) \div SectorCells = k \div SectorCells
<1> USE FirmwareFlashAssumption
<1> DEFINE q == k \div SectorCells
<1>1. q \in Nat /\ q * SectorCells <= k /\ k < (q + 1) * SectorCells
  OBVIOUS
<1>2. OpensSector(0) /\ OpensSector(q * SectorCells)
  BY <1>1 DEF OpensSector
<1>3. q * SectorCells \in 0 .. k
  BY <1>1
<1>4. ASSUME ~OpensSector(k + 1) PROVE (k + 1) \div SectorCells = q
  <2>1. k + 1 # (q + 1) * SectorCells
    <3>1. OpensSector((q + 1) * SectorCells)
      BY <1>1 DEF OpensSector
    <3> QED  BY <1>4, <3>1
  <2>2. (q + 1) * SectorCells \in Nat
    BY <1>1
  <2>3. q * SectorCells <= k + 1 /\ k + 1 < (q + 1) * SectorCells
    BY <1>1, <2>1, <2>2
  <2>4. q <= (k + 1) \div SectorCells
    BY <1>1, <2>3
  <2>5. (k + 1) \div SectorCells < q + 1
    BY <1>1, <2>3
  <2>6. (k + 1) \div SectorCells \in Nat
    OBVIOUS
  <2> QED  BY ONLY <1>1, <2>4, <2>5, <2>6
<1> QED  BY <1>2, <1>3, <1>4

(* A cell written where all ahead was erased leaves what is ahead of the   *)
(* next one erased.                                                        *)
LEMMA WrittenAhead ==
  ASSUME NEW flash \in [Area -> Cell], NEW k \in Area, NEW cell, ErasedFrom(flash, k)
  PROVE  ErasedFrom(Written(flash, k, cell), k + 1)
<1>1. k \in Nat /\ \A i \in Area : i \in Nat
  BY FirmwareFlashAssumption DEF Area
<1> SUFFICES ASSUME k + 1 \in Area, ~OpensSector(k + 1), NEW i \in Sector(k + 1), i >= k + 1
             PROVE  Written(flash, k, cell)[i] = Erased
  BY DEF ErasedFrom
<1>2. Sector(k + 1) = Sector(k)
  BY <1>1, SectorFacts DEF Sector
<1>3. i \in Sector(k) /\ i \in Area /\ i # k /\ i >= k
  BY <1>1, <1>2 DEF Sector
<1>4. CASE OpensSector(k)
  BY <1>3, <1>4 DEF Written, EraseSector
<1>5. CASE ~OpensSector(k)
  BY <1>3, <1>5 DEF Written, ErasedFrom
<1> QED  BY <1>4, <1>5

LEMMA WipedCells ==
  ASSUME NEW flash \in [Area -> Cell], NEW opened
  PROVE  Wiped(flash, opened) \in [Area -> Cell]
  BY DEF Wiped, Cell

(* The sector the offset may go back to is the one of an offset.           *)
LEMMA NewOldOpens ==
  ASSUME DownloadInv, NEW offset \in 0 .. Cells
  PROVE  NewOld(offset) \in 0 .. Cells /\ OpensSector(NewOld(offset))
<1>1. dl.old \in 0 .. Cells /\ OpensSector(dl.old)
  BY DEF DownloadInv, Download
<1>2. offset \in Nat /\ Cells \in Nat
  BY FirmwareFlashAssumption
<1>3. /\ OpensSector((offset \div SectorCells) * SectorCells)
      /\ (offset \div SectorCells) * SectorCells \in 0 .. offset
  BY <1>2, SectorFacts
<1>4. (offset \div SectorCells) * SectorCells \in 0 .. Cells
  BY <1>2, <1>3
<1> QED  BY <1>1, <1>3, <1>4 DEF NewOld

(* What a packet comes to: nothing of it in the words, or the download's   *)
(* end with the sum over what is stored.                                   *)
LEMMA StoreResult ==
  ASSUME DownloadInv, mode = "run", NEW k \in Area, NEW cell \in Cell, NEW readsBack \in BOOLEAN,
         k < Len(serving), cell \in ShortCells => k + 1 = Len(serving),
         NEW store, store = Store(k, cell, readsBack)
  PROVE  /\ store.spi \in [Area -> Cell]
         /\ store = [spi |-> store.spi, wipes |-> {}, order |-> <<>>, dl |-> store.dl]
         /\ store.dl \in Download /\ store.dl.size = dl.size /\ store.dl.crc = dl.crc
         /\ OpensSector(store.dl.old) /\ Ahead(store.spi, store.dl.offset)
<1> USE FirmwareFlashAssumption
<1>0. /\ spi \in [Area -> Cell] /\ dl \in Download /\ OpensSector(dl.old) /\ ErasedAhead
      /\ dl.old \in 0 .. Cells /\ dl.offset \in 0 .. Cells
  BY DEF DownloadInv, Download
<1>1. CASE k # dl.offset
  <2>1. store = [spi |-> spi, wipes |-> {}, order |-> <<>>, dl |-> dl]
    BY <1>1 DEF Store, Handled
  <2> QED  BY <1>0, <2>1 DEF ErasedAhead
<1>2. CASE k = dl.offset /\ cell \in ShortCells
  <2> DEFINE next == [dl EXCEPT !.offset = k + 1, !.old = NewOld(k)]
  <2>1. store = [spi |-> spi, wipes |-> {}, order |-> <<>>, dl |-> next]
    BY <1>2 DEF Store, Handled
  <2>2. k + 1 \in 0 .. Cells /\ k \in 0 .. Cells
    BY DEF Area
  <2>3. NewOld(k) \in 0 .. Cells /\ OpensSector(NewOld(k))
    BY <2>2, NewOldOpens
  <2>4. next \in Download /\ next.size = dl.size /\ next.crc = dl.crc
        /\ next.offset = k + 1 /\ next.old = NewOld(k)
    BY <1>0, <2>2, <2>3 DEF Download
  <2>5. Ahead(spi, k + 1)
    BY <1>2, <2>2 DEF Ahead
  <2> HIDE DEF next
  <2> QED  BY <1>0, <2>1, <2>3, <2>4, <2>5
<1>3. CASE k = dl.offset /\ cell \notin ShortCells
  <2> DEFINE offset == IF readsBack THEN k + 1 ELSE dl.old
             next == [dl EXCEPT !.offset = offset, !.old = NewOld(offset)]
  <2>1. store = [spi |-> Written(spi, k, cell), wipes |-> {}, order |-> <<>>, dl |-> next]
    BY <1>3 DEF Store, Handled
  <2>2. offset \in 0 .. Cells /\ k \in Nat
    BY <1>0 DEF Area
  <2>3. NewOld(offset) \in 0 .. Cells /\ OpensSector(NewOld(offset))
    BY <2>2, NewOldOpens
  <2>4. next \in Download /\ next.size = dl.size /\ next.crc = dl.crc
        /\ next.offset = offset /\ next.old = NewOld(offset)
    <3> HIDE DEF offset
    <3> QED  BY <1>0, <2>2, <2>3 DEF Download
  <2>5. Written(spi, k, cell) \in [Area -> Cell]
    BY <1>0, WrittenCells
  <2>6. ErasedFrom(Written(spi, k, cell), offset)
    <3>1. CASE readsBack
      BY <1>0, <1>3, <3>1, WrittenAhead DEF ErasedAhead, Ahead
    <3>2. CASE ~readsBack
      BY <1>0, <3>2 DEF ErasedFrom
    <3> QED  BY <3>1, <3>2
  <2> HIDE DEF offset, next
  <2> QED  BY <2>1, <2>3, <2>4, <2>5, <2>6 DEF Ahead
<1> QED  BY <1>1, <1>2, <1>3

LEMMA ReceivedResult ==
  ASSUME DownloadInv, mode = "run", NEW k \in Area, NEW cell \in Cell, NEW readsBack \in BOOLEAN,
         k < Len(serving), cell \in ShortCells => k + 1 = Len(serving),
         NEW r, r = Received(k, cell, readsBack)
  PROVE  /\ r.spi \in [Area -> Cell] /\ r.dl \in Download /\ OpensSector(r.dl.old)
         /\ \/ r.order = <<>> /\ r.wipes = {} /\ Ahead(r.spi, r.dl.offset)
            \/ r.order = FailedOrder /\ r.dl.status # "ready" /\ r.dl.offset = 0
            \/ /\ r.order = ReadyOrder /\ r.dl.offset = 0
               /\ r.dl.size = dl.size /\ Sum(Wiped(r.spi, r.wipes), r.dl.size) = r.dl.crc
<1> DEFINE store == Store(k, cell, readsBack)
           padded == [store EXCEPT !.wipes = Padding(store.dl.size)]
           sum == Sum(Wiped(padded.spi, padded.wipes), store.dl.size)
<1>1. /\ store.spi \in [Area -> Cell]
      /\ store = [spi |-> store.spi, wipes |-> {}, order |-> <<>>, dl |-> store.dl]
      /\ store.dl \in Download /\ store.dl.size = dl.size /\ store.dl.crc = dl.crc
      /\ OpensSector(store.dl.old) /\ Ahead(store.spi, store.dl.offset)
  <2> HIDE DEF store
  <2>1. store = Store(k, cell, readsBack)
    BY DEF store
  <2> QED  BY <2>1, StoreResult
<1>2. r = IF store.dl.offset < store.dl.size THEN store ELSE Verdict(padded, sum)
  BY DEF Received
<1>3. padded = [spi |-> store.spi, wipes |-> Padding(store.dl.size), order |-> <<>>,
                dl |-> store.dl]
  <2> HIDE DEF store
  <2> QED  BY <1>1
<1>4. sum = Sum(Wiped(store.spi, Padding(store.dl.size)), store.dl.size)
  <2> HIDE DEF store, padded
  <2> QED  BY <1>3
<1> HIDE DEF store, padded, sum
<1>5. PICK got \in Download : got = store.dl
  BY <1>1
<1>6. CASE store.dl.offset < store.dl.size
  BY <1>1, <1>2, <1>6
<1>7. CASE ~(store.dl.offset < store.dl.size) /\ sum = store.dl.crc
  <2>1. r = [spi |-> store.spi, wipes |-> Padding(store.dl.size), order |-> ReadyOrder,
             dl |-> [store.dl EXCEPT !.status = "ready", !.offset = 0]]
    BY <1>2, <1>3, <1>7 DEF Verdict, ReadyOrder
  <2>2. r.dl \in Download /\ r.dl.old = store.dl.old /\ r.dl.offset = 0
        /\ r.dl.size = store.dl.size /\ r.dl.crc = store.dl.crc
    <3>0. 0 \in 0 .. Cells
      BY FirmwareFlashAssumption
    <3>1. r.dl = [got EXCEPT !.status = "ready", !.offset = 0]
      BY <1>5, <2>1
    <3>2. r.dl \in Download /\ r.dl.old = got.old /\ r.dl.offset = 0
          /\ r.dl.status = "ready" /\ r.dl.size = got.size /\ r.dl.crc = got.crc
      BY <1>5, <3>1, <3>0 DEF Download
    <3> QED  BY ONLY <1>5, <3>2
  <2>3. r.spi = store.spi /\ r.wipes = Padding(store.dl.size) /\ r.order = ReadyOrder
    BY <2>1
  <2> QED  BY <1>1, <1>4, <1>7, <2>2, <2>3
<1>8. CASE ~(store.dl.offset < store.dl.size) /\ sum # store.dl.crc
  <2>1. r = [spi |-> store.spi, wipes |-> Padding(store.dl.size), order |-> FailedOrder,
             dl |-> [store.dl EXCEPT !.status = "downloading", !.offset = 0]]
    BY <1>2, <1>3, <1>8 DEF Verdict, FailedOrder
  <2>2. r.dl \in Download /\ r.dl.old = store.dl.old /\ r.dl.offset = 0
        /\ r.dl.status = "downloading"
    <3>0. 0 \in 0 .. Cells
      BY FirmwareFlashAssumption
    <3>1. r.dl = [got EXCEPT !.status = "downloading", !.offset = 0]
      BY <1>5, <2>1
    <3>2. r.dl \in Download /\ r.dl.old = got.old /\ r.dl.offset = 0
          /\ r.dl.status = "downloading" /\ r.dl.size = got.size /\ r.dl.crc = got.crc
      BY <1>5, <3>1, <3>0 DEF Download
    <3> QED  BY ONLY <1>5, <3>2
  <2>3. r.spi = store.spi /\ r.order = FailedOrder
    BY <2>1
  <2> QED  BY <1>1, <2>2, <2>3
<1> QED  BY <1>6, <1>7, <1>8

LEMMA StartedResult ==
  ASSUME DownloadInv, NEW image \in Images, NEW r, r = Started(image)
  PROVE  /\ r.spi = spi /\ r.wipes = {} /\ r.order = StartOrder
         /\ r.dl \in Download /\ r.dl.old = dl.old /\ r.dl.offset = 0
         /\ r.dl.status = "downloading"
<1>1. dl \in Download /\ Len(image) \in 0 .. Cells /\ 0 \in 0 .. Cells
  BY ImageCells, FirmwareFlashAssumption DEF DownloadInv
<1> DEFINE next == [dl EXCEPT !.status = "downloading", !.offset = 0,
                              !.size = Len(image), !.crc = image]
<1>2. next \in Download /\ next.old = dl.old /\ next.offset = 0 /\ next.status = "downloading"
  BY <1>1 DEF Download
<1>3. r = [[spi |-> spi, wipes |-> {}, order |-> <<>>, dl |-> next]
             EXCEPT !.order = <<"size", "status", "crc">>]
  BY DEF Started, Handled
<1> HIDE DEF next
<1>4. r = [spi |-> spi, wipes |-> {}, order |-> StartOrder, dl |-> next]
  BY <1>3 DEF StartOrder
<1> QED  BY <1>2, <1>4
-----------------------------------------------------------------------------
(* The bounds.                                                             *)
LEMMA UseInv ==
  ASSUME UsedInv, NEW kinds, Use(kinds), kinds \subseteq DOMAIN Bounds,
         UNCHANGED <<base, baseInfo>> \/ (used.stray = 0 /\ "stray" \notin kinds)
  PROVE  /\ UsedInv'
         /\ used'.stray = IF "stray" \in kinds THEN used.stray + 1 ELSE used.stray
         /\ "stray" \in kinds => HasBackup
<1>1. UNCHANGED <<base, baseInfo>> => Bounds' = Bounds
  BY DEF HasBackup, Holds, Sum, Bounds
<1>2. /\ \A kind \in DOMAIN Bounds : Bounds[kind] \in Nat /\ Bounds'[kind] \in Nat
      /\ \A kind \in DOMAIN Bounds \ {"stray"} : Bounds'[kind] = Bounds[kind]
      /\ DOMAIN Bounds' = DOMAIN Bounds /\ "stray" \in DOMAIN Bounds
      /\ ~HasBackup => Bounds.stray = 0
  BY FirmwareUpdateAssumption DEF Bounds
<1>3. used' = [kind \in DOMAIN Bounds |-> IF kind \in kinds THEN used[kind] + 1 ELSE used[kind]]
      /\ \A kind \in kinds : used[kind] < Bounds[kind]
  BY DEF Use
<1> HIDE DEF Bounds
<1>4. DOMAIN used = DOMAIN Bounds /\ \A kind \in DOMAIN Bounds : used[kind] \in 0 .. Bounds[kind]
  BY DEF UsedInv
<1>5. \A kind \in DOMAIN Bounds : used'[kind] \in 0 .. Bounds[kind]
  BY <1>2, <1>3, <1>4
<1>6. ASSUME NEW kind \in DOMAIN Bounds PROVE used'[kind] \in 0 .. Bounds'[kind]
  <2>1. CASE UNCHANGED <<base, baseInfo>> \/ kind # "stray"
    BY <1>1, <1>2, <1>5, <2>1
  <2>2. CASE kind = "stray" /\ used.stray = 0 /\ "stray" \notin kinds
    BY <1>2, <1>3, <2>2
  <2> QED  BY <2>1, <2>2
<1> QED  BY <1>2, <1>3, <1>4, <1>6 DEF UsedInv
-----------------------------------------------------------------------------
(* What a handler may come to.                                             *)
Handles(r) ==
  /\ r.spi \in [Area -> Cell] /\ r.dl \in Download /\ OpensSector(r.dl.old)
  /\ \/ r.order = <<>> /\ r.wipes = {} /\ Ahead(r.spi, r.dl.offset)
     \/ r.order \in {StartOrder, FailedOrder} /\ r.dl.status # "ready" /\ r.dl.offset = 0
     \/ /\ r.order = ReadyOrder /\ r.dl.offset = 0
        /\ r.dl.size = dl.size /\ Sum(Wiped(r.spi, r.wipes), r.dl.size) = r.dl.crc

(* Words that call a download ready are those of what is stored.           *)
LEMMA WordsResult ==
  ASSUME NEW r, Handles(r), r.order # <<>>, NEW n \in 0 .. Len(r.order), NEW words,
         words = Put(r.dl, r.order, n)
  PROVE  /\ words \in Info
         /\ words.status = "ready" =>
              /\ words.crc \in Images \cup {<<>>} /\ words.size = Len(words.crc)
              /\ words.size = dl.size /\ Holds(Wiped(r.spi, r.wipes), words.crc)
<1>1. r.order \in {StartOrder, ReadyOrder, FailedOrder} /\ r.dl \in Download
      /\ (r.dl.status = "ready" => r.order = ReadyOrder)
  BY DEF Handles
<1>2. /\ words \in Info
      /\ words.status = "ready" =>
           r.dl.status = "ready" /\ words.size = r.dl.size /\ words.crc = r.dl.crc
  BY <1>1, PutWords
<1>3. ASSUME words.status = "ready"
      PROVE  /\ words.crc \in Images \cup {<<>>} /\ words.size = Len(words.crc)
             /\ words.size = dl.size /\ Holds(Wiped(r.spi, r.wipes), words.crc)
  <2>1. r.order = ReadyOrder
    BY <1>1, <1>2, <1>3
  <2>2. r.dl.size = dl.size /\ Sum(Wiped(r.spi, r.wipes), r.dl.size) = r.dl.crc
    BY <2>1 DEF Handles, ReadyOrder, StartOrder, FailedOrder
  <2>3. Wiped(r.spi, r.wipes) \in [Area -> Cell]
    BY WipedCells DEF Handles
  <2>4. r.dl.size \in 0 .. Cells /\ r.dl.crc \in Images \cup {NoSum, <<>>}
    BY <1>1 DEF Download
  <2> QED  BY <1>2, <1>3, <2>2, <2>3, <2>4, SumOfSize
<1> QED  BY <1>2, <1>3

(* A request that comes when it is due.                                   *)
Due(r) ==
  \/ info.status # "ready" /\ dl.size > 0
  \/ Described(spi, info) /\ r.spi = spi /\ r.wipes = {} /\ r.order = StartOrder

(* The words after a handler, complete or cut short.                       *)
LEMMA DueWords ==
  ASSUME DownloadInv, NEW r, Handles(r), Due(r), r.order # <<>>, NEW n \in 0 .. Len(r.order),
         spi' = Wiped(r.spi, r.wipes), info' = Put(r.dl, r.order, n)
  PROVE  (Described(spi, info))'
<1> SUFFICES ASSUME info'.status = "ready"
             PROVE  info'.crc \in Images /\ info'.size = Len(info'.crc) /\ (Holds(spi, info.crc))'
  BY DEF Described
<1>1. /\ info'.crc \in Images \cup {<<>>} /\ info'.size = Len(info'.crc)
      /\ info'.size = dl.size /\ Holds(Wiped(r.spi, r.wipes), info'.crc)
  BY WordsResult
<1>2. (Holds(spi, info.crc))'
  BY <1>1 DEF Holds, Sum
<1>3. dl.size > 0
  <2>1. CASE r.order = StartOrder
    <3>1. r.order \in {StartOrder, FailedOrder} => r.dl.status # "ready"
      BY <2>1 DEF Handles, StartOrder, ReadyOrder
    <3>2. r.dl \in Download /\ n \in 0 .. Len(StartOrder)
      BY <2>1 DEF Handles
    <3> QED  BY <2>1, <3>1, <3>2, PutWords
  <2>2. CASE r.order # StartOrder
    BY <2>2 DEF Due
  <2> QED  BY <2>1, <2>2
<1>4. info'.crc # <<>>
  <2> SUFFICES ASSUME info'.crc = <<>> PROVE FALSE
    OBVIOUS
  <2>1. dl.size = Len(<<>>)
    BY ONLY <1>1, info'.crc = <<>>
  <2>2. dl.size = 0
    BY <2>1
  <2> QED  BY <1>3, <2>2
<1> QED  BY <1>1, <1>2, <1>4

(* The whole of a handler.                                                 *)
LEMMA DoneInvs ==
  ASSUME DownloadInv, NEW r, Handles(r), Done(r), dl' = r.dl, serving' \in Images,
         r.order = <<>> => serving' = serving
  PROVE  DownloadInv' /\ (Due(r) => (Described(spi, info))')
<1>1. spi' = Wiped(r.spi, r.wipes) /\ spi' \in [Area -> Cell]
  BY WipedCells DEF Done, Handles
<1>2. r.dl \in Download /\ OpensSector(r.dl.old)
  BY DEF Handles
<1>3. CASE r.order = <<>>
  <2>1. r.wipes = {} /\ Ahead(r.spi, r.dl.offset) /\ r.spi \in [Area -> Cell]
    BY <1>3 DEF Handles, StartOrder, ReadyOrder, FailedOrder
  <2>2. spi' = r.spi
    BY <1>1, <2>1 DEF Wiped
  <2>3. info' = info
    BY <1>3 DEF Done
  <2>4. (Due(r) => (Described(spi, info))')
    BY <1>3, <2>3 DEF Due, Described, StartOrder
  <2>5. ErasedAhead'
    BY <1>3, <2>1, <2>2 DEF ErasedAhead, Ahead, ErasedFrom
  <2> QED  BY <1>1, <1>2, <2>3, <2>4, <2>5 DEF DownloadInv
<1>4. CASE r.order # <<>>
  <2>1. info' = Put(r.dl, r.order, Len(r.order)) /\ Len(r.order) \in 0 .. Len(r.order)
    BY <1>4 DEF Done, Handles, StartOrder, ReadyOrder, FailedOrder
  <2>2. /\ info' \in Info
        /\ info'.status = "ready" => info'.crc \in Images \cup {<<>>} /\ info'.size = Len(info'.crc)
    BY <1>4, <2>1, WordsResult
  <2>3. dl'.offset = 0 /\ OpensSector(0)
    BY <1>4, SectorFacts DEF Handles
  <2>4. Due(r) => (Described(spi, info))'
    BY <1>1, <1>4, <2>1, DueWords
  <2> QED  BY <1>1, <1>2, <2>2, <2>3, <2>4 DEF DownloadInv, ErasedAhead, Ahead, ErasedFrom
<1> QED  BY <1>3, <1>4

(* A handler cut short: the MCU is reset, the globals do not count.        *)
LEMMA CutInvs ==
  ASSUME DownloadInv, NEW r, Handles(r), CutShort(r), UNCHANGED dl, serving' \in Images,
         mode' = "boot"
  PROVE  DownloadInv' /\ (Due(r) => (Described(spi, info))')
<1>1. \A opened : Wiped(r.spi, opened) \in [Area -> Cell]
  BY WipedCells DEF Handles
<1>2. ASSUME spi' \in [Area -> Cell], info' = info
      PROVE  DownloadInv'
  BY <1>2 DEF DownloadInv
<1>3. CASE UNCHANGED <<spi, info>>
  BY <1>2, <1>3 DEF DownloadInv, Due, Described, Holds, Sum
<1>4. CASE /\ \E m \in 0 .. Cells : spi' = Wiped(r.spi, {k \in r.wipes : k < m})
           /\ UNCHANGED info
  <2>1. PICK m \in 0 .. Cells : spi' = Wiped(r.spi, {k \in r.wipes : k < m})
    BY <1>4
  <2>2. DownloadInv'
    BY <1>1, <1>2, <1>4, <2>1
  <2>3. ASSUME r.spi = spi, r.wipes = {} PROVE spi' = spi
    BY <2>1, <2>3 DEF Wiped, DownloadInv
  <2>4. Due(r) => (Described(spi, info))'
    BY <1>4, <2>3 DEF Due, Described, Holds, Sum
  <2> QED  BY <2>2, <2>4
<1>5. CASE /\ r.order # <<>> /\ spi' = Wiped(r.spi, r.wipes)
           /\ \E n \in 0 .. Len(r.order) : info' = Put(r.dl, r.order, n)
  <2>1. PICK n \in 0 .. Len(r.order) : info' = Put(r.dl, r.order, n)
    BY <1>5
  <2>2. /\ info' \in Info
        /\ info'.status = "ready" => info'.crc \in Images \cup {<<>>} /\ info'.size = Len(info'.crc)
    BY <1>5, <2>1, WordsResult
  <2>3. Due(r) => (Described(spi, info))'
    BY <1>5, <2>1, DueWords
  <2> QED  BY <1>1, <1>5, <2>2, <2>3 DEF DownloadInv
<1> QED  BY <1>3, <1>4, <1>5 DEF CutShort
-----------------------------------------------------------------------------
(* Nothing of the MCU's, nor the backup, is touched by the application.    *)
StrayStarts == used.stray = 0 /\ used'.stray > 0 => HasBackup

LEMMA BackupTold ==
  ASSUME UpdateInv, HasBackup, used.stray = 0
  PROVE  baseInfo.crc \in Images /\ baseInfo.size = Len(baseInfo.crc)
<1>1. base \in [Area -> Cell] /\ Cells >= 1 /\ 1 \in 0 .. Cells
  <2>1. Len(Factory) \in 1 .. Cells
    BY ImageCells, FirmwareUpdateAssumption
  <2> QED  BY <2>1, FirmwareFlashAssumption DEF UpdateInv, Inv, TypeInv
<1>2. baseInfo.crc # NoSum
  <2> SUFFICES ASSUME baseInfo.crc = NoSum PROVE FALSE
    OBVIOUS
  <2>1. Sum(base, 1) = NoSum
    BY DEF HasBackup, Holds, NoSum
  <2>2. NoSum \in Images \cup {NoSum, <<>>}
    OBVIOUS
  <2>3. NoSum \in Images \cup {<<>>}
    BY <1>1, <2>1, <2>2, SumOfSize
  <2> QED  BY <2>3, ImageCells DEF NoSum
<1> QED  BY <1>2 DEF UpdateInv, BackupWords

(* The application's steps.                                                *)
LEMMA RunStep ==
  ASSUME UpdateInv, mode = "run", UNCHANGED <<ran, bootVars>>,
         DownloadInv', UsedInv', StrayStarts,
         used'.stray = 0 => used.stray = 0 /\ (Described(spi, info))'
  PROVE  UpdateInv'
<1>0. UNCHANGED <<mcu, base, baseInfo, mode, boot, glitches>>
  BY DEF bootVars
<1>1. boot = Fresh /\ ran \in Images \cup {NoImage} /\ spi' \in [Area -> Cell] /\ info' \in Info
      /\ used'.stray \in Nat /\ used.stray \in Nat
  BY FirmwareUpdateAssumption DEF UpdateInv, DownloadInv, UsedInv, Bounds
<1>2. Whole(mcu) /\ Whole(mcu)'
  <2>1. Whole(mcu)
    BY <1>1 DEF UpdateInv, Inv, WordsInv, StrayInv, StrayWords
  <2> QED  BY <1>0, <2>1 DEF Whole, Holds, Sum
<1>3. ASSUME used'.stray = 0 PROVE Inv' /\ BackupWords' /\ RanInv'
  <2>1. Inv /\ BackupWords /\ RanInv /\ (Described(spi, info))'
    BY <1>3 DEF UpdateInv
  <2>2. TypeInv' /\ WordsInv' /\ AttemptInv' /\ DoneInv'
    BY <1>0, <1>1, <1>2, <2>1 DEF Inv, TypeInv, WordsInv, AttemptInv, DoneInv, At
  <2>3. BackupInv' /\ BackupWords'
    BY <1>0, <2>1 DEF Inv, BackupInv, BackupIsWhole, BackupWords, At, Holds, Sum
  <2>4. RanInv'
    BY <1>0, <2>1 DEF RanInv, Holds, Sum
  <2> QED  BY <2>1, <2>2, <2>3, <2>4 DEF Inv
<1>4. ASSUME used'.stray > 0 PROVE StrayInv'
  <2>1. /\ mcu \in [Area -> Cell] /\ base \in [Area -> Cell] /\ baseInfo \in Info
        /\ HasBackup /\ baseInfo.crc \in Images /\ baseInfo.size = Len(baseInfo.crc)
        /\ glitches \in 0 .. MaxGlitch
    <3>1. CASE used.stray > 0
      BY <3>1 DEF UpdateInv, StrayInv, StrayType
    <3>2. CASE used.stray = 0
      BY <1>4, <3>2, BackupTold DEF UpdateInv, StrayStarts, Inv, TypeInv
    <3> QED  BY <1>1, <3>1, <3>2
  <2>2. Fresh \in StrayRec
    BY FirmwareFlashAssumption, BootloaderAssumption DEF Fresh, StrayRec, NoSize
  <2>3. StrayType'
    BY <1>0, <1>1, <2>1, <2>2 DEF StrayType, HasBackup, Holds, Sum
  <2>4. StrayWords' /\ StrayAttempt'
    BY <1>0, <1>2 DEF StrayWords, StrayAttempt, At
  <2> QED  BY <2>3, <2>4 DEF StrayInv
<1> QED  BY <1>0, <1>1, <1>3, <1>4 DEF UpdateInv

(* A reset finds what the application leaves, or what the bootloader has   *)
(* come to.                                                                *)
LEMMA ResetFlashes ==
  ASSUME mcu \in [Area -> Cell], base \in [Area -> Cell], Reset
  PROVE  /\ mcu' \in [Area -> Cell] /\ base' \in [Area -> Cell]
         /\ (~At("copy") => mcu' = mcu) /\ (~At("save") => base' = base)
         /\ ~(boot.i < boot.size) => mcu' = mcu
<1> ASSUME NEW flash \in [Area -> Cell], NEW step, NEW torn \in Torn(flash, step)
    PROVE  /\ torn \in [Area -> Cell] /\ (~At(step) => torn = flash)
           /\ ~(boot.i < boot.size) => torn = flash
  BY DEF Torn, Cell
<1> QED  BY DEF Reset

(* The reset of the application, also in the middle of a handler.          *)
LEMMA RunReset ==
  ASSUME UpdateInv, mode = "run", UNCHANGED ran, Reset,
         DownloadInv', UsedInv', StrayStarts,
         used'.stray = 0 => used.stray = 0 /\ (Described(spi, info))'
  PROVE  UpdateInv'
<1>1. boot = Fresh /\ ran \in Images \cup {NoImage} /\ spi' \in [Area -> Cell] /\ info' \in Info
      /\ used'.stray \in Nat /\ used.stray \in Nat
  BY FirmwareUpdateAssumption DEF UpdateInv, DownloadInv, UsedInv, Bounds
<1>0. /\ mode' = "boot" /\ boot' = Fresh /\ UNCHANGED <<mcu, base, baseInfo, glitches>>
      /\ mcu \in [Area -> Cell] /\ base \in [Area -> Cell] /\ baseInfo \in Info
      /\ glitches \in 0 .. MaxGlitch
  <2>1. /\ mcu \in [Area -> Cell] /\ base \in [Area -> Cell] /\ baseInfo \in Info
        /\ glitches \in 0 .. MaxGlitch
    BY <1>1 DEF UpdateInv, Inv, TypeInv, StrayInv, StrayType
  <2>2. ~At("copy") /\ ~At("save")
    BY DEF At
  <2> QED  BY <2>1, <2>2, ResetFlashes DEF Reset
<1>2. Whole(mcu) /\ Whole(mcu)'
  <2>1. Whole(mcu)
    BY <1>1 DEF UpdateInv, Inv, WordsInv, StrayInv, StrayWords
  <2> QED  BY <1>0, <2>1 DEF Whole, Holds, Sum
<1>3. /\ Fresh.step = "check" /\ Fresh.tries = Tries /\ Fresh.from = "new"
      /\ Fresh \in BootRec /\ Fresh \in StrayRec
  BY FirmwareFlashAssumption, BootloaderAssumption DEF Fresh, StrayRec, BootRec, Steps, NoSize
<1>4. ASSUME used'.stray = 0 PROVE Inv' /\ BackupWords' /\ RanInv'
  <2>1. Inv /\ BackupWords /\ RanInv /\ (Described(spi, info))'
    BY <1>4 DEF UpdateInv
  <2>2. TypeInv' /\ WordsInv' /\ DoneInv'
    BY <1>0, <1>1, <1>2, <1>3, <2>1 DEF TypeInv, WordsInv, DoneInv, Saving
  <2>3. AttemptInv'
    BY <1>0, <1>3, BootloaderAssumption DEF AttemptInv, At, Spare
  <2>4. BackupInv' /\ BackupWords'
    BY <1>0, <1>3, <2>1 DEF Inv, BackupInv, BackupIsWhole, BackupWords, At, Holds, Sum, Saving
  <2>5. RanInv'
    BY <1>0, <2>1 DEF RanInv, Holds, Sum
  <2> QED  BY <2>2, <2>3, <2>4, <2>5 DEF Inv
<1>5. ASSUME used'.stray > 0 PROVE StrayInv'
  <2>1. HasBackup /\ baseInfo.crc \in Images /\ baseInfo.size = Len(baseInfo.crc)
    <3>1. CASE used.stray > 0
      BY <3>1 DEF UpdateInv, StrayInv, StrayType
    <3>2. CASE used.stray = 0
      BY <1>5, <3>2, BackupTold DEF StrayStarts
    <3> QED  BY <1>1, <3>1, <3>2
  <2>2. StrayType'
    BY <1>0, <1>3, <2>1 DEF StrayType, HasBackup, Holds, Sum
  <2>3. StrayWords'
    BY <1>0, <1>2, <1>3 DEF StrayWords
  <2>4. StrayAttempt'
    BY <1>0, <1>3, BootloaderAssumption DEF StrayAttempt, At, Spare
  <2> QED  BY <2>2, <2>3, <2>4 DEF StrayInv
<1> QED  BY <1>0, <1>1, <1>4, <1>5 DEF UpdateInv

(* The bootloader's: only a copy is torn, of an image that is pending.     *)
LEMMA BootReset ==
  ASSUME UpdateInv, mode = "boot", Reset, UsedInv',
         UNCHANGED <<spi, info, dl, serving, ran>>, used'.stray = used.stray
  PROVE  UpdateInv'
<1>1. /\ ran \in Images \cup {NoImage} /\ used.stray \in Nat
      /\ mode' = "boot" /\ boot' = Fresh /\ UNCHANGED <<baseInfo, glitches>>
  BY FirmwareUpdateAssumption DEF UpdateInv, DownloadInv, UsedInv, Bounds, Reset
<1>2. /\ Fresh.step = "check" /\ Fresh.tries = Tries /\ Fresh.from = "new" /\ Fresh \in StrayRec
  BY FirmwareFlashAssumption, BootloaderAssumption DEF Fresh, StrayRec, NoSize
<1>3. DownloadInv'
  BY <1>1 DEF UpdateInv, DownloadInv
<1>4. ASSUME used.stray = 0 PROVE Inv' /\ BackupWords' /\ RanInv'
  <2>1. Inv /\ BackupWords /\ RanInv
    BY <1>4 DEF UpdateInv
  <2>2. Inv'
    BY <2>1, RestartInv DEF Restart
  <2>3. BackupWords'
    BY <1>1, <1>2, <2>1 DEF BackupWords, At
  <2>4. info.status # "ready" => mcu' = mcu
    <3>1. At("copy") => info.status = "ready"
      BY <2>1 DEF Inv, WordsInv, At
    <3> QED  BY <2>1, <3>1, ResetFlashes DEF Inv, TypeInv
  <2>5. RanInv'
    BY <1>1, <2>1, <2>4 DEF RanInv, Holds, Sum
  <2> QED  BY <2>2, <2>3, <2>5
<1>5. ASSUME used.stray > 0 PROVE StrayInv'
  <2>1. StrayType /\ StrayWords /\ StrayAttempt
    BY <1>5 DEF UpdateInv, StrayInv
  <2>2. /\ mcu' \in [Area -> Cell] /\ base' = base
        /\ (~At("copy") => mcu' = mcu) /\ (~(boot.i < boot.size) => mcu' = mcu)
    <3>1. ~At("save")
      BY <2>1 DEF StrayType, StrayRec, At
    <3> QED  BY <2>1, <3>1, ResetFlashes DEF StrayType
  <2>3. StrayType'
    BY <1>1, <1>2, <2>1, <2>2 DEF StrayType, HasBackup, Holds, Sum
  <2>4. ASSUME At("copy"), boot.i < boot.size
        PROVE  info.status = "ready" /\ info.crc # <<>>
    <3>1. /\ info.status = "ready" /\ boot.size = SourceInfo[boot.from].size
          /\ boot.from = "base" => ~Good("new")
      BY <2>1, <2>4 DEF StrayWords, At
    <3>2. info.size = Len(info.crc)
      BY <3>1 DEF UpdateInv, DownloadInv
    <3>3. CASE boot.from = "new" /\ info.crc = <<>>
      <4>1. boot.size = 0
        BY <3>1, <3>2, <3>3 DEF SourceInfo
      <4>2. boot.i \in Nat
        BY <2>1 DEF StrayType, StrayRec
      <4> QED  BY <2>4, <4>1, <4>2
    <3>4. CASE boot.from = "base" /\ info.crc = <<>>
      BY <3>1, <3>4 DEF Good, Holds, Sum, Source, SourceInfo
    <3> QED  BY <2>1, <3>1, <3>3, <3>4 DEF StrayType, StrayRec
  <2>5. (info.status # "ready" \/ info.crc = <<>> => Whole(mcu))'
    <3>1. info.status # "ready" \/ info.crc = <<>> => Whole(mcu) /\ mcu' = mcu
      BY <2>1, <2>2, <2>4 DEF StrayWords
    <3> QED  BY <3>1 DEF Whole, Holds, Sum
  <2>6. StrayWords'
    BY <1>1, <1>2, <2>5 DEF StrayWords
  <2>7. StrayAttempt'
    BY <1>1, <1>2, BootloaderAssumption, <2>1 DEF StrayAttempt, StrayType, At, Spare
  <2> QED  BY <2>3, <2>6, <2>7 DEF StrayInv
<1> QED  BY <1>1, <1>3, <1>4, <1>5 DEF UpdateInv
-----------------------------------------------------------------------------
(* The tracker as it is delivered.                                         *)
LEMMA WithHolds ==
  ASSUME NEW image \in Images
  PROVE  With(image) \in [Area -> Cell] /\ Holds(With(image), image)
<1>1. image \in Seq(Cell) /\ Len(image) \in 1 .. Cells /\ Cells \in Nat
  BY ImageCells, FirmwareFlashAssumption
<1>2. \A k \in Area : k < Len(image) => image[k + 1] \in Cell
  BY <1>1 DEF Area
<1>3. With(image) \in [Area -> Cell]
  BY <1>2 DEF With, Cell
<1>4. ASSUME NEW k \in 1 .. Len(image) PROVE With(image)[k - 1] = image[k]
  <2>1. k - 1 \in Area /\ k - 1 < Len(image) /\ (k - 1) + 1 = k
    BY <1>1 DEF Area
  <2> QED  BY <2>1 DEF With
<1> QED  BY <1>3, <1>4, HoldsCells

LEMMA InitUpdate == Init => UpdateInv
<1> SUFFICES ASSUME Init PROVE UpdateInv
  OBVIOUS
<1> USE FirmwareFlashAssumption, BootloaderAssumption, FirmwareUpdateAssumption
<1>1. /\ With(Factory) \in [Area -> Cell] /\ Holds(With(Factory), Factory) /\ Factory \in Images
      /\ Len(Factory) \in 1 .. Cells /\ Factory # NoSum
  BY WithHolds, ImageCells
<1>2. With(<<>>) \in [Area -> Cell]
  BY DEF With, Area, Cell
<1>3. Blank \in Info /\ Blank.status = "none" /\ Blank.crc = NoSum
  BY DEF Blank, Info, NoSize
<1>4. /\ Fresh.step = "check" /\ Fresh \in BootRec
  BY DEF Fresh, BootRec, Steps, NoSize
<1>5. /\ spi = With(<<>>) /\ info = Blank /\ mcu = With(Factory) /\ mode = "run" /\ boot = Fresh
      /\ glitches = 0 /\ serving = Factory /\ ran = Factory
  BY DEF Init
<1>6. /\ base \in [Area -> Cell] /\ baseInfo \in Info
      /\ baseInfo.crc # NoSum =>
           /\ baseInfo.crc \in Images /\ baseInfo.size = Len(baseInfo.crc)
           /\ Holds(base, baseInfo.crc)
  <2>1. CASE base = With(<<>>) /\ baseInfo = Blank
    BY <1>2, <1>3, <2>1
  <2>2. CASE /\ base = With(Factory)
             /\ baseInfo = [status |-> "ready", size |-> Len(Factory), crc |-> Factory]
    BY <1>1, <2>2 DEF Info, NoSize
  <2> QED  BY <2>1, <2>2 DEF Init
<1>7. TypeInv
  BY <1>1, <1>2, <1>3, <1>4, <1>5, <1>6 DEF TypeInv
<1>8. WordsInv
  BY <1>1, <1>3, <1>5 DEF WordsInv, Described, Whole
<1>9. AttemptInv /\ DoneInv
  BY <1>5 DEF AttemptInv, DoneInv, At
<1>10. BackupInv /\ BackupWords
  BY <1>5, <1>6 DEF BackupInv, BackupIsWhole, BackupWords, At
<1>11. RanInv
  BY <1>1, <1>5 DEF RanInv
<1>12. dl \in Download /\ dl.offset = 0 /\ dl.old = 0
  BY DEF Init, Forgotten, Download
<1>13. DownloadInv
  <2>1. OpensSector(0)
    BY SectorFacts
  <2> QED  BY <1>1, <1>2, <1>3, <1>5, <1>12, <2>1 DEF DownloadInv, ErasedAhead, Ahead, ErasedFrom
<1>14. UsedInv /\ used.stray = 0
  <2>1. used = [kind \in DOMAIN Bounds |-> 0]
    BY DEF Init
  <2>2. "stray" \in DOMAIN Bounds /\ \A kind \in DOMAIN Bounds : Bounds[kind] \in Nat
    BY DEF Bounds
  <2> QED  BY <2>1, <2>2 DEF UsedInv
<1> QED  BY <1>5, <1>7, <1>8, <1>9, <1>10, <1>11, <1>13, <1>14 DEF UpdateInv, Inv, RanInv

(* The application that starts loads the words.                            *)
LEMMA LoadedResult ==
  ASSUME info' \in Info
  PROVE  Loaded' \in Download /\ Loaded'.offset = 0 /\ Loaded'.old = 0
<1>1. 0 \in 0 .. Cells /\ Cells \in Nat
  BY FirmwareFlashAssumption
<1>2. \A status \in {"none", "downloading", "ready"} : \A crc \in Images \cup {NoSum, <<>>} :
        /\ Forgotten(status, crc) \in Download
        /\ Forgotten(status, crc).offset = 0 /\ Forgotten(status, crc).old = 0
  BY <1>1 DEF Forgotten, Download
<1>3. /\ info'.status \in {"none", "downloading", "ready"} /\ info'.size \in 0 .. NoSize
      /\ info'.crc \in Images \cup {NoSum, <<>>}
  BY DEF Info
<1>4. CASE info'.status # "downloading"
  BY <1>2, <1>3, <1>4 DEF Loaded
<1>5. CASE info'.status = "downloading" /\ info'.size = NoSize
  BY <1>2, <1>3, <1>5 DEF Loaded
<1>6. CASE info'.status = "downloading" /\ info'.size # NoSize /\ info'.crc = NoSum
  BY <1>2, <1>3, <1>6 DEF Loaded
<1>7. CASE info'.status = "downloading" /\ info'.size # NoSize /\ info'.crc # NoSum
  <2> DEFINE words == Forgotten("downloading", info'.crc)
  <2>1. Loaded' = [words EXCEPT !.size = info'.size]
    BY <1>7 DEF Loaded
  <2>2. words \in Download /\ words.offset = 0 /\ words.old = 0
    BY <1>2, <1>3
  <2>3. info'.size \in 0 .. Cells
    BY <1>1, <1>3, <1>7 DEF NoSize
  <2> HIDE DEF words
  <2> QED  BY <2>1, <2>2, <2>3 DEF Download
<1> QED  BY <1>4, <1>5, <1>6, <1>7
-----------------------------------------------------------------------------
(* What every step of the bootloader leaves alone.                         *)
LEMMA BootFrame ==
  ASSUME BootStep
  PROVE  /\ mode = "boot" /\ spi' = spi
         /\ info' = info \/ (At("erase") /\ info' = Blank)
         /\ mode' = "boot" \/ (mode' = "run" /\ boot' = Fresh)
         /\ mcu' = mcu \/ At("copy")
<1>1. ASSUME Check \/ Erase
      PROVE  /\ mode = "boot" /\ UNCHANGED <<spi, mcu>>
             /\ info' = info \/ (At("erase") /\ info' = Blank)
             /\ mode' = "boot" \/ (mode' = "run" /\ boot' = Fresh)
  BY <1>1 DEF Check, Erase, Execute, At
<1>2. ASSUME Try \/ Test \/ SaveTry \/ Save \/ SaveTest \/ SaveInfo
      PROVE  mode = "boot" /\ UNCHANGED <<spi, info, mode, mcu>>
  BY <1>2 DEF Try, Test, SaveTry, Save, SaveTest, SaveInfo, At
<1>3. ASSUME Copy PROVE At("copy") /\ UNCHANGED <<spi, info, base, baseInfo, mode>>
  BY <1>3, Zenon DEF Copy
<1>4. ASSUME At("copy") PROVE mode = "boot"
  BY <1>4 DEF At
<1> QED  BY <1>1, <1>2, <1>3, <1>4 DEF BootStep

LEMMA BootDownload == ASSUME DownloadInv, Boot PROVE DownloadInv'
<1>1. /\ mode = "boot" /\ spi' = spi /\ (info' = info \/ info' = Blank)
      /\ mode' = "boot" \/ mode' = "run"
  BY BootFrame DEF Boot
<1>2. Blank \in Info /\ Blank.status = "none"
  BY FirmwareFlashAssumption DEF Blank, Info, NoSize
<1>3. info' \in Info
  BY <1>1, <1>2 DEF DownloadInv
<1>4. info'.status = "ready" => info' = info
  BY <1>1, <1>2
<1>5. serving' = serving
  BY DEF Boot
<1>8. info'.status = "ready" => info'.crc \in Images \cup {<<>>} /\ info'.size = Len(info'.crc)
  BY <1>4 DEF DownloadInv
<1>6. CASE mode' = "boot"
  <2>1. mode' # "run"
    BY <1>6
  <2>2. dl' = dl
    BY <2>1 DEF Boot
  <2>3. OpensSector(dl'.old) /\ dl' \in Download
    BY <2>2 DEF DownloadInv
  <2>4. spi' \in [Area -> Cell] /\ serving' \in Images
    BY <1>1, <1>5 DEF DownloadInv
  <2> QED  BY <1>3, <1>8, <2>1, <2>3, <2>4 DEF DownloadInv
<1>7. CASE mode' = "run"
  <2>1. dl' \in Download /\ dl'.offset = 0 /\ dl'.old = 0
    BY <1>3, <1>7, LoadedResult DEF Boot
  <2>2. OpensSector(0)
    BY SectorFacts
  <2>3. ErasedAhead'
    BY <2>1, <2>2 DEF ErasedAhead, Ahead, ErasedFrom
  <2> QED  BY <1>1, <1>3, <1>8, <1>5, <2>1, <2>2, <2>3 DEF DownloadInv
<1> QED  BY <1>1, <1>6, <1>7

(* The image that is started is one of them.                               *)
LEMMA StartedIs ==
  /\ (Whole(mcu))' => InMcu' \in Images /\ (Holds(mcu, InMcu))'
  /\ InMcu' \in Images \cup {NoImage}
BY DEF InMcu, Whole

(* The words of the backup.                                                *)
LEMMA BackupWordsStep == ASSUME Inv, BackupWords, BootStep PROVE BackupWords'
<1>1. CASE SaveInfo
  <2>0. /\ boot \in BootRec /\ boot.crc = info.crc /\ boot.size = info.size
        /\ boot.crc \in Images /\ boot.size = Len(boot.crc)
        /\ boot.step = "saveInfo" /\ mode = "boot" /\ baseInfo \in Info
    BY <1>1, BusyWords DEF SaveInfo, At, Inv, TypeInv
  <2>1. boot.i \in 1 .. 3 => baseInfo.crc = NoSum
    BY <2>0 DEF Inv, BackupInv, At
  <2>2. CASE boot.i = 0
    <3>1. baseInfo' = Blank /\ boot'.i = 1
      BY <1>1, <2>0, <2>2 DEF SaveInfo, BootRec
    <3> QED  BY <3>1 DEF BackupWords, Blank
  <2>3. CASE boot.i = 1
    <3>1. baseInfo' = [baseInfo EXCEPT !["status"] = info["status"]] /\ boot'.i = 2
      BY <1>1, <2>0, <2>3 DEF SaveInfo, BootRec
    <3> QED  BY <2>0, <2>1, <2>3, <3>1 DEF BackupWords, Info
  <2>4. CASE boot.i = 2
    <3>1. baseInfo' = [baseInfo EXCEPT !["size"] = info["size"]]
          /\ boot' = [boot EXCEPT !.i = @ + 1]
      BY <1>1, <2>0, <2>4 DEF SaveInfo
    <3>2. baseInfo'.crc = NoSum /\ baseInfo'.size = info.size
      <4>1. baseInfo.crc = NoSum
        BY <2>1, <2>4
      <4> QED  BY <2>0, <3>1, <4>1 DEF Info
    <3>3. boot'.size = boot.size
      BY <2>0, <3>1 DEF BootRec
    <3> QED  BY <2>0, <3>2, <3>3 DEF BackupWords
  <2>5. CASE boot.i = 3
    <3>1. baseInfo' = [baseInfo EXCEPT !["crc"] = info["crc"]] /\ boot'.i = 4
      BY <1>1, <2>0, <2>5 DEF SaveInfo, BootRec
    <3>2. baseInfo'.crc = info.crc /\ baseInfo'.size = baseInfo.size
      BY <2>0, <3>1 DEF Info
    <3>3. baseInfo.size = boot.size
      BY <2>0, <2>5 DEF BackupWords, At
    <3> QED  BY <2>0, <3>1, <3>2, <3>3 DEF BackupWords
  <2>6. CASE boot.i = 4
    <3>1. baseInfo' = baseInfo
      BY <1>1, <2>6 DEF SaveInfo
    <3>2. ~(boot.i < 4)
      BY <2>6
    <3>3. PICK step \in {"erase", "saveTry"} : boot' = Go(step)
      <4>1. \E equal \in BOOLEAN : /\ Glitch(<<equal>>, <<TRUE>>)
                                   /\ boot' = Go(IF equal THEN "erase" ELSE "saveTry")
        BY <1>1, <3>2, Zenon DEF SaveInfo
      <4> QED  BY <4>1
    <3>4. boot'.step # "saveInfo"
      BY <2>0, <3>3 DEF Go, BootRec
    <3> QED  BY <3>1, <3>4 DEF BackupWords, At
  <2>7. boot.i \in {0, 1, 2, 3, 4}
    BY <1>1, <2>0 DEF SaveInfo, BootRec
  <2> QED  BY <2>2, <2>3, <2>4, <2>5, <2>6, <2>7
<1>2. CASE SaveTest
  <2>1. boot \in BootRec /\ baseInfo' = baseInfo
    BY <1>2 DEF SaveTest, Inv, TypeInv
  <2>2. boot'.step = "saveInfo" => boot'.i = 0
    BY <1>2, <2>1 DEF SaveTest, Go, BootRec
  <2> QED  BY <2>1, <2>2 DEF BackupWords, At
<1>3. CASE Check \/ Try \/ Copy \/ Test \/ SaveTry \/ Save \/ Erase
  <2>1. boot \in BootRec
    BY DEF Inv, TypeInv
  <2>2. baseInfo' = baseInfo
    <3>1. CASE Check \/ Erase
      BY <3>1 DEF Check, Erase
    <3>2. CASE Try \/ Test \/ SaveTry
      BY <3>2 DEF Try, Test, SaveTry
    <3>3. CASE Copy
      <4>1. UNCHANGED <<spi, info, base, baseInfo, mode>>
        BY <3>3, Zenon DEF Copy
      <4> QED  BY <4>1
    <3>4. CASE Save
      <4>1. UNCHANGED <<spi, info, mcu, baseInfo, mode>>
        BY <3>4, Zenon DEF Save
      <4> QED  BY <4>1
    <3> QED  BY <1>3, <3>1, <3>2, <3>3, <3>4
  <2>3. boot'.step # "saveInfo"
    <3>1. CASE Check \/ Erase
      BY <2>1, <3>1 DEF Check, Erase, Execute, Go, Fresh, BootRec
    <3>2. CASE Try
      BY <2>1, <3>2 DEF Try, At, Go, BootRec
    <3>3. CASE Copy
      <4>1. CASE boot' = Go("test")
        BY <2>1, <4>1 DEF Go, BootRec
      <4>2. ASSUME NEW first, NEW second,
                   boot' = [boot EXCEPT !.sum = Append(@, first),
                                        !.step = IF first = second THEN "copy" ELSE "test",
                                        !.i = IF first = second THEN @ + 1 ELSE @]
            PROVE  boot'.step # "saveInfo"
        BY <2>1, <4>2 DEF BootRec
      <4> QED  BY <3>3, <4>1, <4>2, Zenon DEF Copy
    <3>4. CASE Test \/ SaveTry
      BY <2>1, <3>4 DEF Test, SaveTry, Go, BootRec
    <3>5. CASE Save
      <4>1. CASE boot' = Go("saveTest")
        BY <2>1, <4>1 DEF Go, BootRec
      <4>2. CASE boot' = [boot EXCEPT !.i = @ + 1]
        BY <2>1, <3>5, <4>2 DEF BootRec, Save, At
      <4>3. ASSUME NEW sum, boot' = [boot EXCEPT !.sum = sum, !.step = "saveTest"]
            PROVE  boot'.step # "saveInfo"
        BY <2>1, <4>3 DEF BootRec
      <4> QED  BY <3>5, <4>1, <4>2, <4>3, Zenon DEF Save
    <3> QED  BY <1>3, <3>1, <3>2, <3>3, <3>4, <3>5
  <2> QED  BY <2>2, <2>3 DEF BackupWords, At
<1> QED  BY <1>1, <1>2, <1>3 DEF BootStep

(* The bootloader on what the application left it.                         *)
LEMMA CleanBoot == ASSUME UpdateInv, Boot, used.stray = 0 PROVE UpdateInv'
<1>0. Inv /\ BackupWords /\ RanInv /\ DownloadInv /\ BootStep /\ UsedInv
      /\ ran \in Images \cup {NoImage}
  BY DEF UpdateInv, Boot
<1>1. Inv'
  BY <1>0, CheckInv, TryInv, CopyInv, TestInv, SaveTryInv, SaveInv, SaveTestInv,
     SaveInfoInv, EraseInv DEF BootStep
<1>2. /\ mode = "boot" /\ spi' = spi
      /\ info' = info \/ (At("erase") /\ info' = Blank)
      /\ mode' = "boot" \/ (mode' = "run" /\ boot' = Fresh)
      /\ mcu' = mcu \/ At("copy")
  BY <1>0, BootFrame
<1>3. BackupWords' /\ DownloadInv'
  BY <1>0, BackupWordsStep, BootDownload
<1>4. RanInv'
  <2>1. CASE mode' = "run"
    <3>1. (Whole(mcu))' /\ ran' = InMcu'
      BY <1>1, <2>1 DEF Inv, WordsInv, Boot
    <3> QED  BY <3>1, StartedIs DEF RanInv, Holds, Sum
  <2>2. CASE mode' = "boot" /\ info'.status # "ready"
    <3>1. boot'.step = "check" \/ info'.status = "ready"
      BY <1>1, <2>2 DEF Inv, WordsInv
    <3>2. mode' # "run" /\ ran' = ran
      BY <2>2 DEF Boot
    <3>3. At("erase") => mode' = "run"
      <4> SUFFICES ASSUME At("erase") PROVE mode' = "run"
        OBVIOUS
      <4>1. info.crc \in Images /\ Holds(mcu, info.crc)
        BY <1>0, BusyWords DEF At, Inv, DoneInv, Saving
      <4>2. Runnable
        BY <4>1, WholeRuns
      <4>3. Erase
        BY <1>0 DEF BootStep, Check, Try, Copy, Test, SaveTry, Save, SaveTest, SaveInfo, At
      <4> QED  BY <4>2, <4>3 DEF Erase, Execute
    <3>4. info' = info /\ info.status # "ready"
      BY <1>2, <2>2, <3>2, <3>3
    <3>5. ~At("copy")
      BY <1>0, <3>4 DEF Inv, WordsInv, At
    <3> QED  BY <1>0, <1>2, <3>2, <3>4, <3>5 DEF RanInv, Holds, Sum
  <2>3. CASE mode' = "boot" /\ info'.status = "ready"
    BY <1>0, <2>3 DEF RanInv, Boot
  <2> QED  BY <1>2, <2>1, <2>2, <2>3
<1>5. UsedInv' /\ used' = used
  <2>1. used' = used /\ used.stray = 0
    BY DEF Boot
  <2>2. \A kind \in DOMAIN Bounds \ {"stray"} : Bounds'[kind] = Bounds[kind]
    BY DEF Bounds
  <2>3. DOMAIN Bounds' = DOMAIN Bounds /\ Bounds'.stray \in Nat /\ "stray" \in DOMAIN Bounds
    BY FirmwareUpdateAssumption DEF Bounds
  <2> HIDE DEF Bounds
  <2> QED  BY <1>0, <2>1, <2>2, <2>3 DEF UsedInv
<1> QED  BY <1>1, <1>2, <1>3, <1>4, <1>5 DEF UpdateInv, RanInv
-----------------------------------------------------------------------------
(* The bootloader after a packet that was not due: what a step finds.      *)
LEMMA StrayFacts ==
  ASSUME StrayInv, DownloadInv, mode = "boot"
  PROVE  /\ boot \in StrayRec /\ glitches \in 0 .. MaxGlitch
         /\ spi \in [Area -> Cell] /\ mcu \in [Area -> Cell] /\ base \in [Area -> Cell]
         /\ boot.step # "check" =>
              /\ info.status = "ready" /\ info.crc \in Images \cup {<<>>}
              /\ info.size = Len(info.crc) /\ info.size \in 0 .. Cells
         /\ baseInfo.crc \in Images /\ baseInfo.size = Len(baseInfo.crc)
         /\ baseInfo.size \in 1 .. Cells
         /\ baseInfo.status = "ready" /\ Holds(base, baseInfo.crc)
<1>1. StrayType /\ StrayWords
  BY DEF StrayInv
<1>2. baseInfo.crc \in Images /\ baseInfo.size = Len(baseInfo.crc) /\ baseInfo.size \in 1 .. Cells
  BY <1>1, ImageCells DEF StrayType
<1>3. ASSUME boot.step # "check"
      PROVE  /\ info.status = "ready" /\ info.crc \in Images \cup {<<>>}
             /\ info.size = Len(info.crc) /\ info.size \in 0 .. Cells
  <2>1. /\ info.status = "ready" /\ info.crc \in Images \cup {<<>>}
        /\ info.size = Len(info.crc)
    BY <1>1, <1>3 DEF StrayWords, DownloadInv
  <2>2. CASE info.crc = <<>>
    BY <2>1, <2>2, FirmwareFlashAssumption
  <2>3. CASE info.crc \in Images
    BY <2>1, <2>3, ImageCells
  <2> QED  BY <2>1, <2>2, <2>3
<1> QED  BY <1>1, <1>2, <1>3 DEF StrayType, HasBackup, DownloadInv

LEMMA StrayCheck == ASSUME StrayInv, DownloadInv, Check PROVE StrayInv'
<1>0. /\ mode = "boot" /\ boot.step = "check"
      /\ UNCHANGED <<spi, info, mcu, base, baseInfo, glitches>>
  BY DEF Check, At
<1>1. StrayType /\ StrayWords /\ StrayAttempt /\ boot \in StrayRec
  BY DEF StrayInv, StrayType
<1>2. CASE info.status # "ready" /\ Runnable /\ Execute
  <2>1. mode' = "run" /\ boot' = Fresh
    BY <1>2 DEF Execute
  <2>2. Fresh \in StrayRec
    BY FirmwareFlashAssumption, BootloaderAssumption DEF Fresh, StrayRec, NoSize
  <2>3. StrayType'
    BY <1>0, <1>1, <2>1, <2>2 DEF StrayType, HasBackup, Holds, Sum
  <2>4. Whole(mcu) /\ (Whole(mcu))'
    BY <1>0, <1>1, <1>2 DEF StrayWords, Whole, Holds, Sum
  <2>5. StrayWords' /\ StrayAttempt'
    BY <2>1, <2>4 DEF StrayWords, StrayAttempt, At
  <2> QED  BY <2>3, <2>5 DEF StrayInv
<1>3. CASE (info.status = "ready" \/ ~Runnable) /\ boot' = Go("try") /\ UNCHANGED mode
  <2>1. info.status = "ready"
    BY <1>1, <1>3, WholeRuns DEF StrayWords, Whole
  <2>2. boot' = [boot EXCEPT !.step = "try"]
    BY <1>3 DEF Go
  <2>3. /\ boot' \in StrayRec /\ boot'.step = "try" /\ boot'.tries = boot.tries
        /\ boot'.from = boot.from
    BY <1>1, <2>2 DEF StrayRec
  <2>4. boot.from = "new" /\ (Good("new") => Spare(boot.tries))
    BY <1>0, <1>1 DEF StrayAttempt, At
  <2>5. StrayType'
    BY <1>0, <1>1, <1>3, <2>3 DEF StrayType, HasBackup, Holds, Sum
  <2>6. StrayWords'
    <3>1. (info.status # "ready" \/ info.crc = <<>> => Whole(mcu))'
      BY <1>0, <1>1 DEF StrayWords, Whole, Holds, Sum
    <3> QED  BY <1>0, <1>3, <2>1, <2>3, <2>4, <3>1 DEF StrayWords
  <2>7. StrayAttempt'
    BY <1>0, <1>3, <2>3, <2>4 DEF StrayAttempt, At, Good, Spare, Holds, Sum
  <2> QED  BY <2>5, <2>6, <2>7 DEF StrayInv
<1> QED  BY <1>2, <1>3 DEF Check

(* All attempts at a download that is whole cannot have failed, nor those  *)
(* at the backup.                                                          *)
LEMMA StrayTry == ASSUME StrayInv, DownloadInv, Try PROVE StrayInv'
<1> USE BootloaderAssumption, FirmwareFlashAssumption
<1>0. /\ mode = "boot" /\ boot.step = "try" /\ UNCHANGED <<spi, info, mcu, base, baseInfo, mode, glitches>>
  BY DEF Try, At
<1>1. /\ StrayType /\ StrayWords /\ StrayAttempt /\ boot \in StrayRec /\ glitches \in 0 .. MaxGlitch
      /\ info.status = "ready" /\ info.crc \in Images \cup {<<>>} /\ info.size \in 0 .. Cells
      /\ baseInfo.crc \in Images /\ baseInfo.size \in 0 .. Cells
  BY <1>0, StrayFacts DEF StrayInv
<1>2. Good(boot.from) => Spare(boot.tries)
  BY <1>0, <1>1 DEF StrayAttempt, At
<1>3. boot.tries = 0 => ~Good(boot.from)
  BY <1>1, <1>2 DEF Spare
<1>4. (info.status # "ready" \/ info.crc = <<>> => Whole(mcu))'
  BY <1>0, <1>1 DEF StrayWords, Whole, Holds, Sum
<1>5. (Good("new"))' <=> Good("new")
  BY <1>0 DEF Good, Holds, Sum
<1>6. ASSUME boot' \in StrayRec PROVE StrayType'
  BY <1>0, <1>1, <1>6 DEF StrayType, HasBackup, Holds, Sum
<1>7. CASE boot.tries > 0
  <2> DEFINE words == SourceInfo[boot.from]
  <2>1. words \in {info, baseInfo} /\ words.size # NoSize /\ words.size \in 0 .. NoSize
        /\ words.crc \in Images \cup {NoSum, <<>>}
    <3>1. words = IF boot.from = "new" THEN info ELSE baseInfo
      <4>1. boot.from \in {"new", "base"}
        BY <1>1 DEF StrayRec
      <4>2. /\ boot.from = "new" => words = info
            /\ boot.from = "base" => words = baseInfo
        BY DEF SourceInfo
      <4> QED  BY <4>1, <4>2
    <3> HIDE DEF words
    <3> QED  BY <1>1, <3>1 DEF NoSize
  <2>2. boot' = [[boot EXCEPT !.tries = @ - 1, !.i = 0, !.sum = <<>>,
                              !.size = words.size, !.crc = words.crc] EXCEPT !.step = "copy"]
    BY <1>0, <1>7, <2>1 DEF Try
  <2> HIDE DEF words
  <2>4. boot.tries - 1 \in 0 .. Tries /\ 0 \in 0 .. Cells /\ <<>> \in Seq(Cell)
    BY <1>1, <1>7 DEF StrayRec
  <2>5. /\ boot' \in StrayRec /\ boot'.step = "copy" /\ boot'.from = boot.from
        /\ boot'.tries = boot.tries - 1 /\ boot'.i = 0 /\ boot'.sum = <<>>
        /\ boot'.size = words.size /\ boot'.crc = words.crc
    BY <1>1, <2>1, <2>2, <2>4 DEF StrayRec
  <2>6. boot.from = "base" => ~Good("new")
    BY <1>0, <1>1 DEF StrayWords
  <2>7. StrayWords'
    <3>1. SourceInfo'[boot'.from] = words
      BY <1>0, <2>5 DEF SourceInfo, words
    <3> QED  BY <1>0, <1>1, <1>4, <1>5, <2>5, <2>6, <3>1 DEF StrayWords
  <2>8. Programmed'
    BY <2>1, <2>5 DEF Programmed
  <2>9. StrayAttempt'
    <3>1. (Good(boot.from))' => Spare(boot.tries)
      BY <1>0, <1>2, <2>5 DEF Good, Holds, Sum
    <3>2. Spare(boot.tries) => (Spare(boot.tries + 1))'
      BY <1>0, <1>1, <2>5 DEF Spare, StrayRec
    <3> QED  BY <1>0, <2>5, <2>8, <3>1, <3>2 DEF StrayAttempt, At
  <2> QED  BY <1>6, <2>5, <2>7, <2>9 DEF StrayInv
<1>8. CASE boot.tries = 0
  <2>1. boot.from = "new" /\ ~Good("new")
    <3>1. boot.from # "base"
      BY <1>3, <1>8 DEF Good
    <3> QED  BY <1>1, <1>3, <1>8, <3>1 DEF StrayRec
  <2>2. boot' = [boot EXCEPT !.from = "base", !.tries = Tries]
    BY <1>8, <2>1 DEF Try
  <2>3. boot' \in StrayRec /\ boot'.step = "try" /\ boot'.from = "base" /\ boot'.tries = Tries
    <3>1. Tries \in 0 .. Tries
      OBVIOUS
    <3> QED  BY <1>0, <1>1, <2>2, <3>1 DEF StrayRec
  <2>4. StrayWords'
    BY <1>0, <1>1, <1>4, <1>5, <2>1, <2>3 DEF StrayWords
  <2>5. StrayAttempt'
    BY <1>0, <1>1, <2>3 DEF StrayAttempt, At, Spare
  <2> QED  BY <1>6, <2>3, <2>4, <2>5 DEF StrayInv
<1> QED  BY <1>1, <1>7, <1>8 DEF StrayRec

(* A cell is copied and read again.                                        *)
LEMMA StrayCopy == ASSUME StrayInv, DownloadInv, Copy PROVE StrayInv'
<1>0. mode = "boot" /\ boot.step = "copy" /\ UNCHANGED <<spi, info, base, baseInfo, mode>>
  <2>1. At("copy") /\ UNCHANGED <<spi, info, base, baseInfo, mode>>
    BY Zenon DEF Copy
  <2> QED  BY <2>1 DEF At
<1> USE BootloaderAssumption, FirmwareFlashAssumption
<1> DEFINE flash == IF boot.from = "new" THEN spi ELSE base
           words == IF boot.from = "new" THEN info ELSE baseInfo
<1>1. /\ StrayType /\ StrayWords /\ StrayAttempt /\ boot \in StrayRec /\ glitches \in 0 .. MaxGlitch
      /\ info.status = "ready" /\ mcu \in [Area -> Cell]
  BY <1>0, StrayFacts DEF StrayInv
<1>2. Source[boot.from] = flash /\ SourceInfo[boot.from] = words
  BY <1>1 DEF Source, SourceInfo, StrayRec
<1>3. /\ flash \in [Area -> Cell] /\ words.crc \in Images \cup {<<>>}
      /\ words.size = Len(words.crc) /\ words.size \in 0 .. Cells
      /\ Good(boot.from) => Holds(flash, words.crc)
      /\ boot.from = "new" => words = info
  <2>1. CASE boot.from = "new"
    BY <1>0, <2>1, StrayFacts DEF Good
  <2>2. CASE boot.from # "new"
    BY <1>0, <2>2, StrayFacts
  <2> QED  BY <2>1, <2>2
<1> HIDE DEF flash, words
<1>4. boot.size = words.size /\ boot.crc = words.crc /\ (boot.from = "base" => ~Good("new"))
  BY <1>0, <1>1, <1>2 DEF StrayWords
<1>5. /\ Programmed /\ boot.i = Len(boot.sum)
      /\ Good(boot.from) =>
            /\ Spare(boot.tries + 1)
            /\ (\A k \in 1 .. boot.i : boot.sum[k] = boot.crc[k]) \/ Spare(boot.tries)
  BY <1>0, <1>1 DEF StrayAttempt, At
<1>6. boot'.from = boot.from => ((Good(boot.from))' <=> Good(boot.from))
  BY <1>0 DEF Good, Holds, Sum
<1>7. (Good("new"))' <=> Good("new")
  BY <1>0 DEF Good, Holds, Sum
<1>8. SourceInfo' = SourceInfo
  BY <1>0 DEF SourceInfo
<1>9. ASSUME boot' \in StrayRec, boot'.step \in {"copy", "test"}, boot'.from = boot.from,
             boot'.size = boot.size, boot'.crc = boot.crc, mcu' \in [Area -> Cell],
             glitches' \in 0 .. MaxGlitch, mcu' = mcu \/ info.crc # <<>>
      PROVE  StrayType' /\ StrayWords'
  <2>1. StrayType'
    BY <1>0, <1>1, <1>9 DEF StrayType, HasBackup, Holds, Sum
  <2>2. (info.status # "ready" \/ info.crc = <<>> => Whole(mcu))'
    BY <1>0, <1>1, <1>9 DEF StrayWords, Whole, Holds, Sum
  <2>3. StrayWords'
    BY <1>0, <1>1, <1>2, <1>4, <1>7, <1>8, <1>9, <2>2 DEF StrayWords
  <2> QED  BY <2>1, <2>3
<1>10. CASE boot.i >= boot.size /\ boot' = Go("test") /\ UNCHANGED <<mcu, glitches>>
  <2>1. boot' = [boot EXCEPT !.step = "test"]
    BY <1>10 DEF Go
  <2>2. /\ boot' \in StrayRec /\ boot'.step = "test" /\ boot'.size = boot.size
        /\ boot'.crc = boot.crc /\ boot'.sum = boot.sum /\ boot'.tries = boot.tries
        /\ boot'.from = boot.from
    BY <1>1, <2>1 DEF StrayRec
  <2>3. Good(boot.from) => boot.sum = boot.crc \/ Spare(boot.tries)
    <3>1. boot.sum \in Seq(Cell) /\ Len(boot.sum) = Len(boot.crc)
      BY <1>3, <1>4, <1>5, <1>10 DEF Programmed
    <3>2. boot.crc \in Seq(Cell)
      <4>1. boot.crc \in Images \cup {<<>>}
        BY <1>3, <1>4
      <4>2. CASE boot.crc \in Images
        BY <4>2, ImageCells
      <4>3. CASE boot.crc = <<>>
        BY <4>3
      <4> QED  BY <4>1, <4>2, <4>3
    <3> QED  BY <1>5, <3>1, <3>2
  <2>4. StrayAttempt'
    BY <1>5, <1>6, <1>10, <2>2, <2>3 DEF StrayAttempt, At, Spare, Programmed
  <2> QED  BY <1>1, <1>9, <1>10, <2>2, <2>4 DEF StrayInv
<1>11. ASSUME boot.i < boot.size, NEW first \in Reads(flash[boot.i]), NEW second \in Reads(flash[boot.i]),
             Glitch(<<first, second>>, <<flash[boot.i], flash[boot.i]>>),
             mcu' = [mcu EXCEPT ![boot.i] = first],
             boot' = [boot EXCEPT !.sum = Append(@, first),
                                  !.step = IF first = second THEN "copy" ELSE "test",
                                  !.i = IF first = second THEN @ + 1 ELSE @]
      PROVE  StrayInv'
  <2>1. boot.i \in Area /\ boot.i + 1 \in 1 .. Len(boot.crc) /\ boot.i \in Nat /\ boot.crc # <<>>
    <3>1. boot.i < boot.size /\ boot.i \in Nat /\ boot.size = Len(boot.crc) /\ boot.size \in 0 .. Cells
      BY <1>1, <1>3, <1>4, <1>11 DEF StrayRec
    <3>2. boot.i \in Area /\ boot.i + 1 \in 1 .. Len(boot.crc)
      BY ONLY <3>1, FirmwareFlashAssumption DEF Area
    <3> QED  BY <3>1, <3>2
  <2>2. flash[boot.i] \in Cell /\ (Good(boot.from) => flash[boot.i] = boot.crc[boot.i + 1])
    <3>1. boot.crc \in Images
      BY <1>3, <1>4, <2>1
    <3>2. Good(boot.from) => \A k \in 1 .. Len(boot.crc) : flash[k - 1] = boot.crc[k]
      BY <1>3, <1>4, <3>1, HoldsCells
    <3>3. (boot.i + 1) - 1 = boot.i
      BY <2>1
    <3> QED  BY <1>3, <2>1, <3>2, <3>3
  <2>3. first \in Cell
    BY <2>2 DEF Reads, Cell
  <2>4. /\ glitches' \in 0 .. MaxGlitch /\ glitches' >= glitches
        /\ first # flash[boot.i] \/ second # flash[boot.i] => glitches' > glitches
    BY <1>1, <1>11, TwoReads
  <2>5. /\ boot.sum \in Seq(Cell) /\ Append(boot.sum, first) \in Seq(Cell)
        /\ Len(Append(boot.sum, first)) = boot.i + 1
        /\ Append(boot.sum, first)[boot.i + 1] = first
        /\ \A k \in 1 .. boot.i : Append(boot.sum, first)[k] = boot.sum[k]
    BY <1>5, <2>3 DEF Programmed
  <2>6. /\ boot'.sum = Append(boot.sum, first) /\ boot'.size = boot.size
        /\ boot'.crc = boot.crc /\ boot'.tries = boot.tries /\ boot'.from = boot.from
        /\ boot'.step = IF first = second THEN "copy" ELSE "test"
        /\ boot'.i = IF first = second THEN boot.i + 1 ELSE boot.i
    BY <1>1, <1>11 DEF StrayRec
  <2>7. boot' \in StrayRec
    <3>1. boot.i + 1 \in 0 .. Cells
      <4>1. boot.i \in Nat /\ boot.i < Cells /\ Cells \in Nat
        BY <2>1 DEF Area
      <4> QED  BY ONLY <4>1
    <3> QED  BY <1>1, <1>11, <2>5, <3>1 DEF StrayRec
  <2>8. mcu' \in [Area -> Cell]
    BY <1>1, <1>11, <2>1, <2>3
  <2>9. info.crc # <<>>
    <3>1. CASE boot.from = "new"
      BY <1>3, <1>4, <2>1, <3>1
    <3>2. CASE boot.from = "base"
      BY <1>4, <3>2 DEF Good, Holds, Sum
    <3> QED  BY <1>1, <3>1, <3>2 DEF StrayRec
  <2>10. StrayType' /\ StrayWords'
    BY <1>9, <2>4, <2>6, <2>7, <2>8, <2>9
  <2>11. Programmed'
    <3>1. boot'.sum \in Seq(Cell) /\ Len(boot'.sum) = boot.i + 1 /\ Len(boot'.sum) <= boot'.size
      BY <1>3, <1>4, <2>1, <2>5, <2>6
    <3>2. \A k \in 1 .. boot.i : mcu'[k - 1] = mcu[k - 1] /\ mcu[k - 1] = boot.sum[k]
      BY <1>1, <1>5, <1>11, <2>1 DEF Programmed, Area
    <3>3. mcu'[boot.i] = first
      BY <1>1, <1>11, <2>1
    <3>4. \A k \in 1 .. boot.i + 1 : mcu'[k - 1] = boot'.sum[k]
      <4> SUFFICES ASSUME NEW k \in 1 .. boot.i + 1 PROVE mcu'[k - 1] = boot'.sum[k]
        OBVIOUS
      <4>1. CASE k = boot.i + 1
        BY <2>1, <2>5, <2>6, <3>3, <4>1
      <4>2. CASE k # boot.i + 1
        BY <2>1, <2>5, <2>6, <3>2, <4>2
      <4> QED BY <4>1, <4>2
    <3> QED BY <3>1, <3>4 DEF Programmed
  <2>12. boot.tries \in Nat /\ glitches \in Nat /\ glitches' \in Nat
    BY <1>1, <2>4 DEF StrayRec
  <2>13. (Good(boot.from))' => Good(boot.from)
    BY <1>6, <2>6
  <2>14. CASE first = flash[boot.i] /\ second = flash[boot.i]
    <3>1. Good(boot.from) =>
            (\A k \in 1 .. boot.i + 1 : boot'.sum[k] = boot.crc[k]) \/ Spare(boot.tries)
      BY <1>5, <2>1, <2>2, <2>5, <2>6, <2>14
    <3>2. Spare(boot.tries) => (Spare(boot.tries))'
      BY <2>4, <2>6, <2>12 DEF Spare
    <3>3. Spare(boot.tries + 1) => (Spare(boot.tries + 1))'
      BY <2>4, <2>6, <2>12 DEF Spare
    <3>4. boot'.step = "copy" /\ boot'.i = Len(boot'.sum) /\ boot'.i = boot.i + 1
      BY <2>5, <2>6, <2>14
    <3>5. Good(boot.from) =>
            (\A k \in 1 .. boot'.i : boot'.sum[k] = boot'.crc[k]) \/ (Spare(boot.tries))'
      BY <2>6, <3>1, <3>2, <3>4
    <3>6. StrayAttempt'
      BY <1>5, <2>11, <2>13, <3>3, <3>4, <3>5 DEF StrayAttempt, At
    <3> QED  BY <2>10, <3>6 DEF StrayInv
  <2>15. CASE first # flash[boot.i] \/ second # flash[boot.i]
    <3>1. Good(boot.from) => (Spare(boot.tries))' /\ (Spare(boot.tries + 1))'
      <4> SUFFICES ASSUME Good(boot.from) PROVE (Spare(boot.tries))' /\ (Spare(boot.tries + 1))'
        OBVIOUS
      <4>1. Spare(boot.tries + 1) /\ glitches' > glitches /\ boot'.tries = boot.tries
        BY <1>5, <2>4, <2>6, <2>15
      <4> QED  BY ONLY <2>12, <4>1, BootloaderAssumption DEF Spare
    <3>2. boot'.step = "copy" => boot'.i = Len(boot'.sum)
      BY <2>5, <2>6
    <3>3. boot'.step \in {"copy", "test"}
      BY <2>6
    <3>4. StrayAttempt'
      BY <2>11, <2>13, <3>1, <3>2, <3>3 DEF StrayAttempt, At
    <3> QED  BY <2>10, <3>4 DEF StrayInv
  <2> QED  BY <2>14, <2>15
<1> QED
  <2>1. Source[boot.from][boot.i] = flash[boot.i]
    BY <1>2
  <2>2. CASE ~(boot.i >= boot.size /\ boot' = Go("test") /\ UNCHANGED <<mcu, glitches>>)
    <3>1. boot.i < boot.size
          /\ \E first, second \in Reads(Source[boot.from][boot.i]) :
               /\ Glitch(<<first, second>>, <<Source[boot.from][boot.i], Source[boot.from][boot.i]>>)
               /\ mcu' = [mcu EXCEPT ![boot.i] = first]
               /\ boot' = [boot EXCEPT !.sum = Append(@, first),
                                       !.step = IF first = second THEN "copy" ELSE "test",
                                       !.i = IF first = second THEN @ + 1 ELSE @]
      BY <2>2, Zenon DEF Copy
    <3>2. boot.i < boot.size
          /\ \E first, second \in Reads(flash[boot.i]) :
               /\ Glitch(<<first, second>>, <<flash[boot.i], flash[boot.i]>>)
               /\ mcu' = [mcu EXCEPT ![boot.i] = first]
               /\ boot' = [boot EXCEPT !.sum = Append(@, first),
                                       !.step = IF first = second THEN "copy" ELSE "test",
                                       !.i = IF first = second THEN @ + 1 ELSE @]
      BY <2>1, <3>1, Zenon
    <3> QED  BY <1>11, <3>2, Zenon
  <2> QED  BY <1>10, <2>2

(* A copy that is compared is kept, of the backup or of the download.      *)
LEMMA StrayTest == ASSUME StrayInv, DownloadInv, Test PROVE StrayInv'
<1>0. mode = "boot" /\ boot.step = "test" /\ UNCHANGED <<spi, info, mcu, base, baseInfo, mode, glitches>>
  BY DEF Test, At
<1>1. /\ StrayType /\ StrayWords /\ StrayAttempt /\ boot \in StrayRec
      /\ info.status = "ready" /\ info.crc \in Images \cup {<<>>} /\ info.size = Len(info.crc)
      /\ baseInfo.status = "ready" /\ baseInfo.crc \in Images
  BY <1>0, StrayFacts DEF StrayInv
<1>2. /\ boot.crc = IF boot.from = "new" THEN info.crc ELSE baseInfo.crc
      /\ boot.from = "base" => ~Good("new")
  BY <1>0, <1>1 DEF StrayWords, SourceInfo, StrayRec
<1>3. Programmed /\ (Good(boot.from) => boot.sum = boot.crc \/ Spare(boot.tries))
  BY <1>0, <1>1 DEF StrayAttempt, At
<1>4. boot' = [boot EXCEPT !.step = IF boot.sum # boot.crc THEN "try" ELSE "erase"]
  BY <1>1 DEF Test, Go
<1>5. /\ boot' \in StrayRec /\ boot'.from = boot.from /\ boot'.tries = boot.tries
      /\ boot'.step = IF boot.sum # boot.crc THEN "try" ELSE "erase"
  BY <1>1, <1>4 DEF StrayRec
<1>6. ((Good("new"))' <=> Good("new")) /\ ((Good(boot.from))' <=> Good(boot.from))
  BY <1>0, <1>5 DEF Good, Holds, Sum
<1>7. StrayType'
  BY <1>0, <1>1, <1>5 DEF StrayType, HasBackup, Holds, Sum
<1>8. (Whole(mcu))' <=> Whole(mcu)
  BY <1>0 DEF Whole, Holds, Sum
<1>9. StrayWords'
  BY <1>0, <1>1, <1>2, <1>5, <1>6, <1>8 DEF StrayWords
<1>10. ASSUME boot.sum = boot.crc
       PROVE  Whole(mcu) /\ (Good("new") => Holds(mcu, info.crc))
  <2>1. boot.crc \in Images => Holds(mcu, boot.crc)
    BY <1>3, <1>10, HoldsCells DEF Programmed
  <2>2. boot.crc \in Images => Whole(mcu)
    BY <2>1 DEF Whole
  <2>3. CASE boot.from = "new"
    <3>1. boot.crc = info.crc
      BY <1>2, <2>3
    <3>2. CASE info.crc = <<>>
      <4>1. Whole(mcu)
        BY <1>1, <3>2 DEF StrayWords
      <4> QED  BY <3>2, <4>1 DEF Holds, Sum
    <3> QED  BY <1>1, <2>1, <2>2, <3>1, <3>2
  <2>4. CASE boot.from # "new"
    <3>1. boot.from = "base"
      BY <1>1, <2>4 DEF StrayRec
    <3> QED  BY <1>1, <1>2, <2>2, <2>4, <3>1
  <2> QED  BY <2>3, <2>4
<1>11. (Holds(mcu, info.crc))' <=> Holds(mcu, info.crc)
  BY <1>0 DEF Holds, Sum
<1>12. StrayAttempt'
  <2>1. CASE boot.sum # boot.crc
    <3>1. Good(boot.from) => (Spare(boot.tries))'
      BY <1>0, <1>3, <1>5, <2>1 DEF Spare
    <3> QED  BY <1>5, <1>6, <2>1, <3>1 DEF StrayAttempt, At
  <2>2. CASE boot.sum = boot.crc
    BY <1>5, <1>6, <1>8, <1>10, <1>11, <2>2 DEF StrayAttempt, At
  <2> QED  BY <2>1, <2>2
<1> QED  BY <1>7, <1>9, <1>12 DEF StrayInv

LEMMA StrayErase == ASSUME StrayInv, DownloadInv, Erase PROVE StrayInv'
<1>0. /\ mode = "boot" /\ boot.step = "erase" /\ info' = Blank
      /\ UNCHANGED <<spi, mcu, base, baseInfo, glitches>>
  BY DEF Erase, At
<1>1. StrayType /\ Whole(mcu)
  BY <1>0 DEF StrayInv, StrayAttempt, At
<1>2. mode' = "run" /\ boot' = Fresh
  BY <1>1, WholeRuns DEF Erase, Execute, Whole
<1>3. Fresh \in StrayRec
  BY FirmwareFlashAssumption, BootloaderAssumption DEF Fresh, StrayRec, NoSize
<1>4. StrayType'
  BY <1>0, <1>1, <1>2, <1>3 DEF StrayType, HasBackup, Holds, Sum
<1>5. (Whole(mcu))'
  BY <1>0, <1>1 DEF Whole, Holds, Sum
<1> QED  BY <1>2, <1>4, <1>5 DEF StrayInv, StrayWords, StrayAttempt, At

LEMMA StrayBoot == ASSUME UpdateInv, Boot, used.stray > 0 PROVE UpdateInv'
<1>0. StrayInv /\ DownloadInv /\ UsedInv /\ BootStep /\ ran \in Images \cup {NoImage}
  BY DEF UpdateInv, Boot
<1>1. mode = "boot" /\ (mode' = "boot" \/ (mode' = "run" /\ boot' = Fresh))
  BY <1>0, BootFrame
<1>2. boot.step \in {"check", "try", "copy", "test", "erase"}
  BY <1>0 DEF StrayInv, StrayType, StrayRec
<1>3. ~SaveTry /\ ~Save /\ ~SaveTest /\ ~SaveInfo
  BY <1>2, Zenon DEF SaveTry, Save, SaveTest, SaveInfo, At
<1>4. StrayInv'
  BY <1>0, <1>3, StrayCheck, StrayTry, StrayCopy, StrayTest, StrayErase DEF BootStep
<1>5. UNCHANGED <<base, baseInfo>>
  <2>1. CASE Check \/ Try \/ Test \/ Erase
    BY <2>1 DEF Check, Try, Test, Erase
  <2>2. CASE Copy
    <3>1. UNCHANGED <<spi, info, base, baseInfo, mode>>
      BY <2>2, Zenon DEF Copy
    <3> QED  BY <3>1
  <2> QED  BY <1>0, <1>3, <2>1, <2>2 DEF BootStep
<1>6. UsedInv' /\ used' = used
  BY <1>0, <1>5 DEF UsedInv, Boot, Bounds, HasBackup, Holds, Sum
<1>7. ran' \in Images \cup {NoImage}
  BY <1>0, StartedIs DEF Boot
<1>8. DownloadInv'
  BY <1>0, BootDownload
<1> QED  BY <1>1, <1>4, <1>6, <1>7, <1>8 DEF UpdateInv
-----------------------------------------------------------------------------
(* A handler of the application, complete or cut short.                    *)
LEMMA HandleInv ==
  ASSUME UpdateInv, mode = "run", NEW r, Handles(r), NEW kinds \in SUBSET {"start", "fault", "stray"},
         Handle(r, kinds), serving' \in Images, r.order = <<>> => serving' = serving, UNCHANGED ran,
         used.stray = 0 /\ "stray" \notin kinds => Due(r)
  PROVE  UpdateInv'
<1>0. DownloadInv /\ UsedInv /\ used.stray \in Nat
  BY FirmwareUpdateAssumption DEF UpdateInv, UsedInv, Bounds
<1>1. kinds \subseteq DOMAIN Bounds /\ kinds \cup {"cut"} \subseteq DOMAIN Bounds
  BY DEF Bounds
<1>2. ASSUME UsedInv', NEW used1 \in {kinds, kinds \cup {"cut"}},
             used'.stray = IF "stray" \in used1 THEN used.stray + 1 ELSE used.stray,
             "stray" \in used1 => HasBackup
      PROVE  StrayStarts /\ (used'.stray = 0 => used.stray = 0 /\ Due(r))
  BY <1>0, <1>2 DEF StrayStarts
<1>3. CASE Complete(r, kinds)
  <2>1. Done(r) /\ dl' = r.dl /\ Use(kinds) /\ UNCHANGED bootVars
    BY <1>3 DEF Complete
  <2>2. UNCHANGED <<base, baseInfo>>
    BY <2>1 DEF bootVars
  <2>3. /\ UsedInv' /\ ("stray" \in kinds => HasBackup)
        /\ used'.stray = IF "stray" \in kinds THEN used.stray + 1 ELSE used.stray
    BY <1>0, <1>1, <2>1, <2>2, UseInv
  <2>4. StrayStarts /\ (used'.stray = 0 => used.stray = 0 /\ Due(r))
    BY <1>2, <2>3
  <2>5. DownloadInv' /\ (Due(r) => (Described(spi, info))')
    BY <1>0, <2>1, DoneInvs
  <2> QED  BY <2>1, <2>3, <2>4, <2>5, RunStep
<1>4. CASE CutShort(r) /\ Use(kinds \cup {"cut"}) /\ Reset /\ UNCHANGED dl
  <2>1. UNCHANGED <<base, baseInfo>> /\ mode' = "boot"
    <3>1. mcu \in [Area -> Cell] /\ base \in [Area -> Cell]
      BY <1>0 DEF UpdateInv, Inv, TypeInv, StrayInv, StrayType
    <3>2. ~At("save")
      BY DEF At
    <3> QED  BY <1>4, <3>1, <3>2, ResetFlashes DEF Reset
  <2> DEFINE all == kinds \cup {"cut"}
  <2>2. /\ UsedInv' /\ ("stray" \in all => HasBackup)
        /\ used'.stray = IF "stray" \in all THEN used.stray + 1 ELSE used.stray
    BY <1>0, <1>1, <1>4, <2>1, UseInv
  <2>3. StrayStarts /\ (used'.stray = 0 => used.stray = 0 /\ Due(r))
    BY <1>2, <2>2
  <2>4. DownloadInv' /\ (Due(r) => (Described(spi, info))')
    BY <1>0, <1>4, <2>1, CutInvs
  <2> QED  BY <1>4, <2>2, <2>3, <2>4, RunReset
<1> QED  BY <1>3, <1>4 DEF Handle

LEMMA StartInv == ASSUME UpdateInv, Start PROVE UpdateInv'
<1>1. PICK image \in Images : Handle(Started(image), {"start"}) /\ serving' = image /\ UNCHANGED ran
  BY DEF Start
<1> DEFINE r == Started(image)
<1>2. mode = "run" /\ DownloadInv
  BY DEF Start, UpdateInv
<1>3. /\ r.spi = spi /\ r.wipes = {} /\ r.order = StartOrder
      /\ r.dl \in Download /\ r.dl.old = dl.old /\ r.dl.offset = 0
      /\ r.dl.status = "downloading"
  <2> HIDE DEF r
  <2>1. r = Started(image)
    BY DEF r
  <2> QED  BY <1>2, <2>1, StartedResult
<1> HIDE DEF r
<1>4. Handles(r)
  BY <1>2, <1>3 DEF Handles, DownloadInv
<1>5. used.stray = 0 => Due(r)
  BY <1>3 DEF UpdateInv, Inv, WordsInv, Due
<1>6. Handle(r, {"start"}) /\ r.order # <<>>
  BY <1>1, <1>3 DEF r, StartOrder
<1> QED  BY <1>1, <1>2, <1>4, <1>5, <1>6, HandleInv

LEMMA PacketInv ==
  ASSUME UpdateInv, NEW k \in 0 .. Len(serving) - 1, Packet(k) PROVE UpdateInv'
<1>1. mode = "run" /\ DownloadInv /\ UNCHANGED <<serving, ran>> /\ serving \in Images
  BY DEF Packet, UpdateInv, DownloadInv
<1> DEFINE stray == IF Expecting THEN {} ELSE {"stray"}
           cell == serving[k + 1]
<1>2. /\ k \in Area /\ cell \in Cell /\ Garbage \in Cell /\ k < Len(serving)
      /\ Garbage \notin ShortCells /\ (cell \in ShortCells => k + 1 = Len(serving))
  <2>1. serving \in Seq(Cell) /\ Len(serving) \in 1 .. Cells /\ Cells \in Nat
    BY <1>1, ImageCells, FirmwareFlashAssumption
  <2>2. k \in Area /\ k + 1 \in 1 .. Len(serving)
    BY <2>1 DEF Area
  <2>3. Garbage \notin ShortCells
    BY FirmwareUpdateAssumption DEF Garbage
  <2>4. k + 1 \in 1 .. Len(serving) - 1 => cell \notin ShortCells
    BY <1>1, FirmwareUpdateAssumption
  <2> QED  BY <2>1, <2>2, <2>3, <2>4 DEF Cell
<1>3. PICK stored \in Cell, readsBack \in BOOLEAN, kinds \in {stray, stray \cup {"fault"}} :
        /\ stored \in {cell, Garbage}
        /\ Handle(Received(k, stored, readsBack), kinds)
  <2>1. CASE Handle(Received(k, cell, TRUE), stray)
    BY <1>2, <2>1
  <2>2. CASE \E stored \in {cell, Garbage} : Handle(Received(k, stored, FALSE), stray \cup {"fault"})
    BY <1>2, <2>2
  <2> QED  BY <2>1, <2>2 DEF Packet
<1> DEFINE r == Received(k, stored, readsBack)
<1>4. Handles(r)
  <2> HIDE DEF r
  <2>1. r = Received(k, stored, readsBack)
    BY DEF r
  <2>2. /\ r.spi \in [Area -> Cell] /\ r.dl \in Download /\ OpensSector(r.dl.old)
        /\ \/ r.order = <<>> /\ r.wipes = {} /\ Ahead(r.spi, r.dl.offset)
           \/ r.order = FailedOrder /\ r.dl.status # "ready" /\ r.dl.offset = 0
           \/ /\ r.order = ReadyOrder /\ r.dl.offset = 0
              /\ r.dl.size = dl.size /\ Sum(Wiped(r.spi, r.wipes), r.dl.size) = r.dl.crc
    BY <1>1, <1>2, <1>3, <2>1, ReceivedResult
  <2> QED  BY <2>2 DEF Handles
<1>5. Handle(r, kinds)
  BY <1>3
<1> HIDE DEF r, cell
<1>6. "stray" \notin kinds => Due(r)
  BY <1>3 DEF Due, Expecting
<1>7. kinds \in SUBSET {"start", "fault", "stray"} /\ serving' \in Images /\ serving' = serving
  BY <1>1, <1>3
<1> QED  BY <1>1, <1>4, <1>5, <1>6, <1>7, HandleInv

LEMMA TimeoutInv == ASSUME UpdateInv, Timeout PROVE UpdateInv'
<1>1. /\ mode = "run" /\ Use({"timeout"}) /\ dl' = TimedOut
      /\ UNCHANGED <<spi, info, serving, ran, bootVars>>
      /\ DownloadInv /\ UsedInv /\ used.stray \in Nat
  BY FirmwareUpdateAssumption DEF Timeout, UpdateInv, UsedInv, Bounds
<1>2. UNCHANGED <<mcu, base, baseInfo, mode, boot, glitches>>
  BY <1>1 DEF bootVars
<1>3. UsedInv' /\ used'.stray = used.stray
  <2>1. {"timeout"} \subseteq DOMAIN Bounds
    BY DEF Bounds
  <2> QED  BY <1>1, <1>2, <2>1, UseInv
<1>4. DownloadInv'
  <2>1. dl' \in Download /\ dl'.offset = 0 /\ dl'.old = dl.old
    <3>1. 0 \in 0 .. Cells /\ dl \in Download
      BY <1>1, FirmwareFlashAssumption DEF DownloadInv
    <3> QED  BY <1>1, <3>1 DEF TimedOut, Download
  <2>2. OpensSector(0)
    BY SectorFacts
  <2>3. ErasedAhead'
    BY <2>1, <2>2 DEF ErasedAhead, Ahead, ErasedFrom
  <2> QED  BY <1>1, <2>1, <2>3 DEF DownloadInv
<1>5. StrayStarts /\ (used'.stray = 0 => used.stray = 0 /\ (Described(spi, info))')
  BY <1>1, <1>3 DEF StrayStarts, UpdateInv, Inv, WordsInv, Described, Holds, Sum
<1> QED  BY <1>1, <1>3, <1>4, <1>5, RunStep

LEMMA RebootInv == ASSUME UpdateInv, Reboot PROVE UpdateInv'
<1>1. /\ mode = "run" /\ Reset /\ UNCHANGED <<spi, info, dl, serving, ran, used>>
      /\ DownloadInv /\ UsedInv /\ mode' = "boot"
  BY DEF Reboot, Reset, UpdateInv
<1>2. base' = base /\ baseInfo' = baseInfo
  BY <1>1 DEF Reset, Torn, At
<1>3. UsedInv'
  BY <1>1, <1>2 DEF UsedInv, Bounds, HasBackup, Holds, Sum
<1>4. DownloadInv'
  BY <1>1 DEF DownloadInv
<1>5. StrayStarts /\ (used'.stray = 0 => used.stray = 0 /\ (Described(spi, info))')
  BY <1>1 DEF StrayStarts, UpdateInv, Inv, WordsInv, Described, Holds, Sum
<1> QED  BY <1>1, <1>3, <1>4, <1>5, RunReset

LEMMA PowerCutInv == ASSUME UpdateInv, PowerCut PROVE UpdateInv'
<1>1. /\ Use({"cut"}) /\ Reset /\ UNCHANGED <<spi, info, dl, serving, ran>>
      /\ DownloadInv /\ UsedInv /\ used.stray \in Nat /\ mode' = "boot"
  BY FirmwareUpdateAssumption DEF PowerCut, Reset, UpdateInv, UsedInv, Bounds
<1>2. {"cut"} \subseteq DOMAIN Bounds
  BY DEF Bounds
<1>3. used.stray > 0 \/ mode = "run" => UNCHANGED <<base, baseInfo>>
  <2>1. used.stray > 0 \/ mode = "run" => ~At("save")
    BY DEF UpdateInv, StrayInv, StrayType, StrayRec, At
  <2>2. mcu \in [Area -> Cell] /\ base \in [Area -> Cell]
    BY <1>1 DEF UpdateInv, Inv, TypeInv, StrayInv, StrayType
  <2> QED  BY <1>1, <2>1, <2>2, ResetFlashes DEF Reset
<1>4. UsedInv' /\ used'.stray = used.stray
  BY <1>1, <1>2, <1>3, UseInv
<1>5. CASE mode = "run"
  <2>1. DownloadInv'
    BY <1>1 DEF DownloadInv
  <2>2. StrayStarts /\ (used'.stray = 0 => used.stray = 0 /\ (Described(spi, info))')
    BY <1>1, <1>4 DEF StrayStarts, UpdateInv, Inv, WordsInv, Described, Holds, Sum
  <2> QED  BY <1>1, <1>4, <1>5, <2>1, <2>2, RunReset
<1>6. CASE mode = "boot"
  BY <1>1, <1>4, <1>6, BootReset
<1> QED  BY <1>1, <1>5, <1>6 DEF UpdateInv, Inv, TypeInv, StrayInv, StrayType
-----------------------------------------------------------------------------
LEMMA StillInv == ASSUME UpdateInv, UNCHANGED vars PROVE UpdateInv'
<1>1. UNCHANGED <<spi, info, dl, serving, ran, used, mcu, base, baseInfo, mode, boot, glitches>>
  BY DEF vars, bootVars
<1>2. DownloadInv' /\ UsedInv' /\ (mode' = "run" => boot' = Fresh)
  BY <1>1 DEF UpdateInv, DownloadInv, ErasedAhead, Ahead, UsedInv, Bounds, HasBackup, Holds, Sum
<1>3. used.stray = 0 => Inv' /\ BackupWords' /\ RanInv'
  <2>1. used.stray = 0 => Inv'
    BY <1>1, StutterInv DEF UpdateInv, allVars, bootVars
  <2> QED  BY <1>1, <2>1 DEF UpdateInv, BackupWords, RanInv, At, Holds, Sum
<1>4. used.stray > 0 => StrayInv'
  BY <1>1 DEF UpdateInv, StrayInv, StrayType, StrayWords, StrayAttempt, HasBackup, Good, At, Spare,
              Programmed, SourceInfo, Whole, Holds, Sum
<1> QED  BY <1>1, <1>2, <1>3, <1>4 DEF UpdateInv

(* The inductive invariant of the whole update.                            *)
THEOREM UpdateInvariant == Spec => []UpdateInv
<1>1. Init => UpdateInv
  BY InitUpdate
<1>2. UpdateInv /\ [Next]_vars => UpdateInv'
  <2> SUFFICES ASSUME UpdateInv, [Next]_vars PROVE UpdateInv'
    OBVIOUS
  <2>1. CASE Data
    BY <2>1, PacketInv DEF Data
  <2>2. CASE Boot
    <3>1. used.stray = 0 \/ used.stray > 0
      BY FirmwareUpdateAssumption DEF UpdateInv, UsedInv, Bounds
    <3> QED  BY <2>2, <3>1, CleanBoot, StrayBoot
  <2> QED  BY <2>1, <2>2, StartInv, TimeoutInv, RebootInv, PowerCutInv, StillInv DEF Next
<1> QED  BY <1>1, <1>2, PTL DEF Spec

(* The variables keep their types.                                         *)
THEOREM UpdateTypeCorrect == Spec => []TypeOK
<1>1. UpdateInv => TypeOK
  <2> SUFFICES ASSUME UpdateInv PROVE TypeOK
    OBVIOUS
  <2>1. used.stray = 0 \/ used.stray > 0
    BY FirmwareUpdateAssumption DEF UpdateInv, UsedInv, Bounds
  <2>2. ASSUME used.stray = 0 PROVE BootTypeOK
    BY <2>2 DEF UpdateInv, Inv, TypeInv, BootRec, BootTypeOK
  <2>3. ASSUME used.stray > 0 PROVE BootTypeOK
    <3>1. StrayType
      BY <2>3 DEF UpdateInv, StrayInv
    <3>2. boot.i \in 0 .. Cells + 4
      <4>1. boot.i \in 0 .. Cells
        BY <3>1 DEF StrayType, StrayRec
      <4> QED  BY <4>1, FirmwareFlashAssumption
    <3>3. boot.step \in Steps /\ boot.from \in {"new", "base"} /\ boot.tries \in 0 .. Tries
          /\ boot.size \in 0 .. NoSize /\ boot.crc \in Images \cup {NoSum, <<>>}
          /\ boot.sum \in Seq(Cell) \cup {NoSum}
      BY <3>1 DEF StrayType, StrayRec, Steps
    <3> QED  BY <3>1, <3>2, <3>3 DEF StrayType, BootTypeOK
  <2>4. DownloadInv /\ UsedInv /\ ran \in Images \cup {NoImage}
    BY DEF UpdateInv
  <2> QED  BY <2>1, <2>2, <2>3, <2>4 DEF DownloadInv, UsedInv, TypeOK
<1> QED  BY <1>1, UpdateInvariant, PTL

(* A download that is marked ready is complete.                            *)
THEOREM ReadyCorrect == Spec => []ReadyIsWhole
<1>1. UpdateInv => ReadyIsWhole
  BY DEF UpdateInv, Inv, WordsInv, Described, ReadyIsWhole
<1> QED  BY <1>1, UpdateInvariant, PTL

(* As long as an image is not all there its next cell is erased, or its    *)
(* sector is erased with it.                                               *)
THEOREM ErasedCorrect == Spec => []NextIsErased
<1>1. UpdateInv => NextIsErased
  <2> SUFFICES ASSUME UpdateInv, mode = "run", dl.offset < Len(serving), ~OpensSector(dl.offset)
               PROVE  spi[dl.offset] = Erased
    BY DEF NextIsErased
  <2>1. dl.offset \in Area
    <3>1. serving \in Images /\ dl.offset \in 0 .. Cells
      BY DEF UpdateInv, DownloadInv, Download
    <3>2. Len(serving) \in 1 .. Cells /\ Cells \in Nat
      BY <3>1, ImageCells, FirmwareFlashAssumption
    <3> QED  BY <3>1, <3>2 DEF Area
  <2>2. dl.offset \in Sector(dl.offset) /\ dl.offset >= dl.offset
    BY <2>1, FirmwareFlashAssumption DEF Sector, Area
  <2> QED  BY <2>1, <2>2 DEF UpdateInv, DownloadInv, ErasedAhead, Ahead, ErasedFrom
<1> QED  BY <1>1, UpdateInvariant, PTL

(* The application that is started is a complete image, also after the     *)
(* packets that were not due, of a tracker that has a backup.              *)
THEOREM UpdateRunsWhole == Spec => []RunsWhole
<1>1. UpdateInv => RunsWhole
  <2>1. UpdateInv => used.stray = 0 \/ used.stray > 0
    BY FirmwareUpdateAssumption DEF UpdateInv, UsedInv, Bounds
  <2> QED  BY <2>1 DEF UpdateInv, Inv, WordsInv, StrayInv, StrayWords, RunsWhole
<1> QED  BY <1>1, UpdateInvariant, PTL

(* A download that is there whole is what gets programmed.                 *)
THEOREM UpdateNewImage == Spec => []NewImageRuns
<1>1. UpdateInv => NewImageRuns
  <2> SUFFICES ASSUME UpdateInv, At("erase"), info.status = "ready", Holds(spi, info.crc)
               PROVE  Holds(mcu, info.crc)
    BY DEF NewImageRuns
  <2>1. used.stray = 0 \/ used.stray > 0
    BY FirmwareUpdateAssumption DEF UpdateInv, UsedInv, Bounds
  <2>2. CASE used.stray = 0
    BY <2>2 DEF UpdateInv, Inv, DoneInv, At, Saving
  <2>3. CASE used.stray > 0
    BY <2>3 DEF UpdateInv, StrayInv, StrayAttempt, Good
  <2> QED  BY <2>1, <2>2, <2>3
<1> QED  BY <1>1, UpdateInvariant, PTL

(* The backup is complete once its words are, as long as reads are right.  *)
THEOREM UpdateBackup == Spec => []BackupIsWhole
<1>1. UpdateInv => BackupIsWhole
  <2>1. UpdateInv => used.stray = 0 \/ used.stray > 0
    BY FirmwareUpdateAssumption DEF UpdateInv, UsedInv, Bounds
  <2> QED  BY <2>1 DEF UpdateInv, Inv, BackupInv, StrayInv, StrayType, HasBackup, BackupIsWhole
<1> QED  BY <1>1, UpdateInvariant, PTL
-----------------------------------------------------------------------------
(* The abstract slot.  What the MCU runs can be told when no image begins  *)
(* another.                                                                *)
NoneBegins ==
  \A one, other \in Images :
    Len(one) <= Len(other) /\ (\A k \in 1 .. Len(one) : one[k] = other[k]) => one = other

Ready == IF info.status = "ready" THEN info.crc ELSE NoImage

LEMMA HeldOnce ==
  ASSUME NoneBegins, NEW flash, NEW one \in Images, NEW other \in Images,
         Holds(flash, one), Holds(flash, other)
  PROVE  one = other
<1>1. /\ \A k \in 1 .. Len(one) : flash[k - 1] = one[k]
      /\ \A k \in 1 .. Len(other) : flash[k - 1] = other[k]
      /\ Len(one) \in Nat /\ Len(other) \in Nat
  BY HoldsCells, ImageCells
<1>2. CASE Len(one) <= Len(other)
  BY <1>1, <1>2 DEF NoneBegins
<1>3. CASE Len(other) <= Len(one)
  BY <1>1, <1>3 DEF NoneBegins
<1> QED  BY <1>1, <1>2, <1>3

(* What a start of a download leaves of the one that is ready.             *)
LEMMA StartWords ==
  ASSUME UpdateInv, Start
  PROVE  info' = info \/ info'.status # "ready"
<1>1. PICK image \in Images : Handle(Started(image), {"start"})
  BY DEF Start
<1> DEFINE r == Started(image)
<1>2. r.order = StartOrder /\ r.dl \in Download /\ r.dl.status = "downloading"
  <2> HIDE DEF r
  <2>1. r = Started(image)
    BY DEF r
  <2> QED  BY <2>1, StartedResult DEF UpdateInv
<1>3. Handle(r, {"start"})
  BY <1>1
<1> HIDE DEF r
<1>4. info' = info \/ \E n \in 0 .. Len(r.order) : info' = Put(r.dl, r.order, n)
  <2>1. Len(r.order) \in 0 .. Len(r.order)
    BY <1>2 DEF StartOrder
  <2> QED  BY <1>3, <2>1 DEF Handle, Complete, Done, CutShort
<1>5. ASSUME NEW n \in 0 .. Len(r.order), info' = Put(r.dl, r.order, n)
      PROVE  info'.status # "ready"
  <2>1. n \in 0 .. Len(StartOrder)
    BY <1>2
  <2>2. Put(r.dl, StartOrder, n).status = "ready" => r.dl.status = "ready"
    BY <1>2, <2>1, PutWords
  <2> QED  BY <1>2, <1>5, <2>2
<1> QED  BY <1>4, <1>5

(* The bounds are used up one by one.                                      *)
LEMMA StrayGrows ==
  ASSUME UpdateInv, UpdateInv', Next, used'.stray = 0
  PROVE  /\ used.stray = 0
         /\ \A k \in 0 .. Len(serving) - 1 : Packet(k) => info.status # "ready"
<1>1. used.stray \in Nat /\ "stray" \in DOMAIN Bounds
  BY FirmwareUpdateAssumption DEF UpdateInv, UsedInv, Bounds
<1>2. ASSUME NEW kinds, Use(kinds) PROVE used.stray = 0 /\ "stray" \notin kinds
  <2>1. used'.stray = IF "stray" \in kinds THEN used.stray + 1 ELSE used.stray
    BY <1>1, <1>2 DEF Use
  <2> QED  BY <1>1, <2>1
<1>3. ASSUME NEW r, NEW kinds, Handle(r, kinds) PROVE used.stray = 0 /\ "stray" \notin kinds
  BY <1>2, <1>3 DEF Handle, Complete
<1>4. ASSUME NEW k \in 0 .. Len(serving) - 1, Packet(k)
      PROVE  used.stray = 0 /\ info.status # "ready"
  <2> DEFINE stray == IF Expecting THEN {} ELSE {"stray"}
  <2>1. used.stray = 0 /\ "stray" \notin stray
    <3>1. CASE Handle(Received(k, serving[k + 1], TRUE), stray)
      BY <1>3, <3>1
    <3>2. ASSUME NEW stored, Handle(Received(k, stored, FALSE), stray \cup {"fault"})
          PROVE  used.stray = 0 /\ "stray" \notin stray
      <4> HIDE DEF stray
      <4>1. used.stray = 0 /\ "stray" \notin stray \cup {"fault"}
        BY <1>3, <3>2
      <4> QED  BY <4>1
    <3> QED  BY <1>4, <3>1, <3>2 DEF Packet
  <2> QED  BY <2>1 DEF Expecting
<1>5. used.stray = 0
  <2>1. CASE Start
    BY <1>3, <2>1 DEF Start
  <2>2. CASE Data
    BY <1>4, <2>2 DEF Data
  <2>3. CASE Timeout \/ PowerCut
    BY <1>2, <2>3 DEF Timeout, PowerCut
  <2>4. CASE Reboot \/ Boot
    BY <2>4 DEF Reboot, Boot
  <2> QED  BY <2>1, <2>2, <2>3, <2>4 DEF Next
<1> QED  BY <1>4, <1>5

LEMMA SlotStep ==
  ASSUME NoneBegins, UpdateInv, UpdateInv', [Next]_vars
  PROVE  [(used.stray > 0)' \/ Slot!Next]_<<ran, Ready>>
<1> SUFFICES ASSUME Next, used'.stray = 0
             PROVE  Slot!Next \/ UNCHANGED <<ran, Ready>>
  <2>1. used'.stray = 0 \/ used'.stray > 0
    BY FirmwareUpdateAssumption DEF UpdateInv, UsedInv, Bounds
  <2>2. UNCHANGED vars => UNCHANGED <<ran, Ready>>
    BY DEF vars, Ready
  <2> QED  BY <2>1, <2>2
<1>1. Inv /\ RanInv /\ Inv' /\ RanInv' /\ used.stray = 0
  BY StrayGrows DEF UpdateInv
<1>2. /\ Ready \in Images \cup {NoImage} /\ (info.status # "ready" => Ready = NoImage)
      /\ Ready' \in Images \cup {NoImage} /\ (info'.status # "ready" => Ready' = NoImage)
      /\ info' = info => Ready' = Ready
  BY <1>1 DEF Inv, WordsInv, Described, Ready
<1>3. ASSUME ran' = ran, info' = info \/ info'.status # "ready" \/ info.status # "ready"
      PROVE  Slot!Next \/ UNCHANGED <<ran, Ready>>
  <2>1. CASE info' = info
    BY <1>2, <1>3, <2>1
  <2>2. CASE Ready' = NoImage
    BY <1>3, <2>2 DEF Slot!Next, Slot!Withdraw, Ready
  <2>3. CASE info.status # "ready" /\ Ready' # NoImage
    BY <1>2, <1>3, <2>3 DEF Slot!Next, Slot!Offer, Ready
  <2> QED  BY <1>2, <1>3, <2>1, <2>2, <2>3
<1>4. CASE Start
  BY <1>3, <1>4, StartWords DEF Start
<1>5. CASE Data
  <2>1. info.status # "ready" /\ ran' = ran
    BY <1>5, StrayGrows DEF Data, Packet
  <2> QED  BY <1>3, <2>1
<1>6. CASE Timeout \/ Reboot \/ PowerCut
  BY <1>3, <1>6 DEF Timeout, Reboot, PowerCut
<1>7. CASE Boot
  <2>1. /\ mode = "boot" /\ BootStep
        /\ info' = info \/ (At("erase") /\ info' = Blank)
        /\ mode' = "boot" \/ mode' = "run"
        /\ mcu' = mcu \/ At("copy")
    BY <1>7, BootFrame DEF Boot
  <2>2. Blank.status # "ready"
    BY DEF Blank
  <2>3. CASE mode' = "boot"
    <3>1. ran' = ran
      BY <1>7, <2>3 DEF Boot
    <3> QED  BY <1>3, <2>1, <2>2, <3>1
  <2>4. CASE mode' = "run"
    <3>1. mode' # mode
      BY <2>1, <2>4
    <3>2. Check \/ Erase
      <4>1. Try \/ Test \/ SaveTry \/ SaveTest => mode' = mode
        BY DEF Try, Test, SaveTry, SaveTest
      <4>2. Copy => UNCHANGED <<spi, info, base, baseInfo, mode>>
        BY Zenon DEF Copy
      <4>3. Save => UNCHANGED <<spi, info, mcu, baseInfo, mode>>
        BY Zenon DEF Save
      <4>4. SaveInfo => UNCHANGED <<spi, info, mcu, base, mode>>
        BY Zenon DEF SaveInfo
      <4> QED  BY <2>1, <3>1, <4>1, <4>2, <4>3, <4>4 DEF BootStep
    <3>3. mcu' = mcu /\ ran' \in Images /\ Holds(mcu, ran')
      <4>1. mcu' = mcu
        BY <3>2 DEF Check, Erase
      <4> QED  BY <1>1, <2>4, <4>1 DEF RanInv, Holds, Sum
    <3>4. CASE Check
      <4>1. info' = info /\ info.status # "ready"
        BY <3>1, <3>4 DEF Check
      <4>2. ran' = ran
        BY <1>1, <3>3, <4>1, HeldOnce DEF RanInv
      <4> QED  BY <1>3, <4>1, <4>2
    <3>5. CASE Erase
      <4>1. info.status = "ready" /\ info.crc \in Images /\ Holds(mcu, info.crc)
        BY <1>1, <3>5, BusyWords DEF Erase, At, Inv, DoneInv, Saving
      <4>2. ran' = info.crc
        BY <3>3, <4>1, HeldOnce
      <4>3. info' = Blank
        BY <3>5 DEF Erase
      <4>4. Ready = info.crc /\ Ready' = NoImage /\ info.crc # NoImage
        BY <2>2, <4>1, <4>3, ImageCells DEF Ready, NoImage
      <4> QED  BY <4>2, <4>4 DEF Slot!Next, Slot!Install, Ready
    <3> QED  BY <3>2, <3>4, <3>5
  <2> QED  BY <2>1, <2>3, <2>4
<1> QED  BY <1>4, <1>5, <1>6, <1>7 DEF Next

(* Until a packet comes that is not due, an update is one step to one who  *)
(* sees which image runs and which is ready.                               *)
THEOREM UpdateSlot == ASSUME NoneBegins PROVE Spec => RefinesImageSlot
<1>1. Init => Slot!Init
  BY FirmwareUpdateAssumption DEF Init, Slot!Init, Blank
<1>2. UpdateInv /\ UpdateInv' /\ [Next]_vars => [(used.stray > 0)' \/ Slot!Next]_<<ran, Ready>>
  BY SlotStep
<1> QED  BY <1>1, <1>2, UpdateInvariant, PTL DEF Spec, RefinesImageSlot, Slot!Spec, Ready
=============================================================================
