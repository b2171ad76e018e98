--------------------------- MODULE FirmwareFlash ---------------------------
(***************************************************************************)
(* What the tracker's application and the bootloader share: the image that *)
(* is downloaded into the SPI flash and the words that describe it.        *)
(*                                                                         *)
(* A cell is what one download packet holds.  A checksum is represented by *)
(* the cells it sums up, so that only a sum over the same cells equals it: *)
(* collisions of the sum of bytes are left out, the sum 0 of nothing is    *)
(* not.                                                                    *)
(***************************************************************************)
EXTENDS Integers, Sequences, SequencesExt

CONSTANTS
  Cells,         \* cells of the area of an image
  SectorCells,   \* cells of a sector, the unit of erasure
  Images         \* images that may be downloaded

VARIABLES
  spi,           \* the cells at FIRMWARE_BASE_ADDR
  info           \* the words at FIRMWARE_INFO_ADDR

Erased == 0
Garbage == -1
Cell == {Erased, Garbage} \cup UNION {ToSet(image) : image \in Images}
Area == 0 .. Cells - 1

ASSUME FirmwareFlashAssumption ==
  /\ Cells \in Nat /\ SectorCells \in Nat \ {0}
  /\ \A image \in Images : /\ image \in Seq(Nat \ {0})
                           /\ Len(image) \in 1 .. Cells

(* A blank word reads as 0xffffffff: no status, too large for a size, no   *)
(* checksum of an image.                                                   *)
NoSize == Cells + 1
NoSum == <<-2>>
Blank == [status |-> "none", size |-> NoSize, crc |-> NoSum]
Info == [status : {"none", "downloading", "ready"}, size : 0 .. NoSize,
         crc : Images \cup {NoSum, <<>>}]

With(image) == [k \in Area |-> IF k < Len(image) THEN image[k + 1] ELSE Erased]
Sum(flash, n) == [i \in 1 .. n |-> flash[i - 1]]
Holds(flash, image) == Sum(flash, Len(image)) = image
Whole(flash) == \E image \in Images : Holds(flash, image)
-----------------------------------------------------------------------------
(* SST25_Write of one cell.  It erases a sector the address opens; without *)
(* that, programming can only clear bits.                                  *)
Sector(k) == {i \in Area : i \div SectorCells = k \div SectorCells}
OpensSector(k) == k % SectorCells = 0

EraseSector(flash, k) == [i \in Area |-> IF i \in Sector(k) THEN Erased ELSE flash[i]]

Written(flash, k, cell) ==
  LET there == IF OpensSector(k) THEN EraseSector(flash, k) ELSE flash
  IN [there EXCEPT ![k] = IF @ \in {Erased, cell} THEN cell ELSE Garbage]

(* What a handler does to the two flashes, in this order: it programs a    *)
(* cell of the image's area or none, erases sectors there from below, and  *)
(* erases the words and writes some of them again, in the order given.     *)
Wiped(flash, opened) ==
  [i \in Area |-> IF \E k \in opened : i \in Sector(k) THEN Erased ELSE flash[i]]

Put(words, order, n) ==
  [word \in DOMAIN Blank |-> IF \E j \in 1 .. n : order[j] = word THEN words[word] ELSE Blank[word]]

(* The whole of it, and what a power cut leaves of it.                     *)
Done(handled) ==
  /\ spi' = Wiped(handled.spi, handled.wipes)
  /\ info' = IF handled.order = <<>> THEN info
             ELSE Put(handled.dl, handled.order, Len(handled.order))

CutShort(handled) ==
  \/ UNCHANGED <<spi, info>>
  \/ /\ \E m \in 0 .. Cells : spi' = Wiped(handled.spi, {k \in handled.wipes : k < m})
     /\ UNCHANGED info
  \/ /\ handled.order # <<>> /\ spi' = Wiped(handled.spi, handled.wipes)
     /\ \E n \in 0 .. Len(handled.order) : info' = Put(handled.dl, handled.order, n)
=============================================================================
