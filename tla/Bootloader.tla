---------------------------- MODULE Bootloader ----------------------------
(***************************************************************************)
(* The bootloader's main: it programs a downloaded image into the MCU's    *)
(* flash, keeps the first one as a backup, and falls back on the backup.   *)
(*                                                                         *)
(* Each action handles one page.  Any read of a page from the SPI flash    *)
(* may go wrong (the words that describe an image are read right); a page  *)
(* of the MCU that does not program resets the MCU, which is a cut like    *)
(* that of the power.                                                      *)
(***************************************************************************)
EXTENDS FirmwareFlash

CONSTANTS
  Tries,         \* attempts at a copy (10)
  MaxGlitch      \* bound: reads of the SPI flash that go wrong

(* The promise is for fewer bad reads than attempts.                       *)
ASSUME BootloaderAssumption ==
  Tries \in Nat \ {0} /\ MaxGlitch \in Nat /\ MaxGlitch < Tries

VARIABLES
  mcu,           \* the application's cells in the MCU's flash
  base,          \* the cells at BASE_FIRMWARE_BASE_ADDR: the backup
  baseInfo,      \* the words at BASE_FIRMWARE_INFO_ADDR
  mode,          \* who runs: the application or the bootloader
  boot,          \* the bootloader's local variables
  glitches       \* reads that went wrong

bootVars == <<mcu, base, baseInfo, mode, boot, glitches>>

Steps == {"check", "try", "copy", "test", "saveTry", "save", "saveTest", "saveInfo",
          "erase", "stuck"}
(* Mutant: one attempt only.                                               *)
FreshOnce == [step |-> "check", from |-> "new", tries |-> 1, i |-> 0,
              size |-> NoSize, crc |-> NoSum, sum |-> <<>>]

Fresh == [step |-> "check", from |-> "new", tries |-> Tries, i |-> 0,
          size |-> NoSize, crc |-> NoSum, sum |-> <<>>]

Source == [new |-> spi, base |-> base]
SourceInfo == [new |-> info, base |-> baseInfo]

(* The word at the image's start is a stack address.                       *)
Runnable == mcu[0] \notin {Erased, Garbage}

(* The reads of one step: what is there, or not, at most MaxGlitch times.  *)
Reads(there) == {there, Garbage}
Glitch(reads, there) ==
  LET bad == Cardinality({n \in DOMAIN reads : reads[n] # there[n]})
  IN glitches + bad <= MaxGlitch /\ glitches' = glitches + bad

At(step) == mode = "boot" /\ boot.step = step
Go(step) == [boot EXCEPT !.step = step]
-----------------------------------------------------------------------------
(* execute_user_code returns when the MCU holds nothing that looks like an *)
(* application.                                                            *)
Execute == mode' = "run" /\ boot' = Fresh

Check ==
  /\ At("check")
  /\ \/ /\ info.status # "ready" /\ Runnable /\ Execute
     \/ /\ info.status = "ready" \/ ~Runnable
        /\ boot' = Go("try") /\ UNCHANGED mode
  /\ UNCHANGED <<spi, info, mcu, base, baseInfo, glitches>>

(* Mutant: the application is started after one attempt.                   *)
TryAndExecute ==
  /\ At("try")
  /\ IF boot.tries < Tries THEN Execute
     ELSE /\ boot' = [boot EXCEPT !.tries = @ - 1, !.i = 0, !.sum = <<>>, !.step = "copy",
                                  !.size = info.size, !.crc = info.crc]
          /\ UNCHANGED mode
  /\ UNCHANGED <<spi, info, mcu, base, baseInfo, glitches>>

(* while (!exit && tryNum--), and the fall back on the backup.             *)
Try ==
  /\ At("try")
  /\ LET words == SourceInfo[boot.from]
         next == [boot EXCEPT !.tries = @ - 1, !.i = 0, !.sum = <<>>,
                              !.size = words.size, !.crc = words.crc]
     IN \/ /\ boot.tries > 0 /\ words.size # NoSize
           /\ boot' = [next EXCEPT !.step = "copy"]
        \/ /\ boot.tries > 0 /\ words.size = NoSize
           /\ boot' = next
        \/ /\ boot.tries = 0 /\ boot.from = "new"
           /\ boot' = [boot EXCEPT !.from = "base", !.tries = Tries]
        \/ /\ boot.tries = 0 /\ boot.from = "base"
           /\ boot' = Go("erase")
  /\ UNCHANGED <<spi, info, mcu, base, baseInfo, mode, glitches>>

(* A page is read, summed up, programmed, and read again to be compared.   *)
Copy ==
  /\ At("copy")
  /\ \/ /\ boot.i < boot.size
        /\ LET there == Source[boot.from][boot.i]
           IN \E first, second \in Reads(there) :
                /\ Glitch(<<first, second>>, <<there, there>>)
                /\ mcu' = [mcu EXCEPT ![boot.i] = first]
                /\ boot' = [boot EXCEPT !.sum = Append(@, first),
                                        !.step = IF first = second THEN "copy" ELSE "test",
                                        !.i = IF first = second THEN @ + 1 ELSE @]
     \/ boot.i >= boot.size /\ boot' = Go("test") /\ UNCHANGED <<mcu, glitches>>
  /\ UNCHANGED <<spi, info, base, baseInfo, mode>>

(* Mutants: a copy counts without its sum; every image becomes the backup. *)
TestUnchecked ==
  /\ At("test") /\ boot' = Go("erase")
  /\ UNCHANGED <<spi, info, mcu, base, baseInfo, mode, glitches>>

TestSavingAlways ==
  /\ At("test")
  /\ boot' = IF boot.sum = boot.crc THEN [boot EXCEPT !.step = "saveTry", !.tries = Tries]
             ELSE Go("try")
  /\ UNCHANGED <<spi, info, mcu, base, baseInfo, mode, glitches>>

(* A complete copy of a new image is kept as a backup if there is none.    *)
Test ==
  /\ At("test")
  /\ boot' = CASE boot.sum # boot.crc -> Go("try")
               [] boot.sum = boot.crc /\ boot.from = "new" /\ baseInfo.status # "ready"
                    -> [boot EXCEPT !.step = "saveTry", !.tries = Tries]
               [] OTHER -> Go("erase")
  /\ UNCHANGED <<spi, info, mcu, base, baseInfo, mode, glitches>>

SaveTry ==
  /\ At("saveTry")
  /\ boot' = IF boot.tries = 0 THEN Go("erase")
             ELSE [boot EXCEPT !.tries = @ - 1, !.i = 0, !.sum = <<>>, !.step = "save"]
  /\ UNCHANGED <<spi, info, mcu, base, baseInfo, mode, glitches>>

(* The sum is taken only of a backup whose cells all read back.            *)
Save ==
  /\ At("save")
  /\ \/ /\ boot.i < boot.size
        /\ \E first \in Reads(spi[boot.i]) :
             /\ base' = Written(base, boot.i, first)
             /\ \E second \in Reads(base'[boot.i]) :
                  /\ Glitch(<<first, second>>, <<spi[boot.i], base'[boot.i]>>)
                  /\ boot' = IF second = first THEN [boot EXCEPT !.i = @ + 1] ELSE Go("saveTest")
     \/ /\ boot.i >= boot.size /\ UNCHANGED base
        /\ \E sum \in {Sum(base, boot.size), NoSum} :
             /\ Glitch(<<sum>>, <<Sum(base, boot.size)>>)
             /\ boot' = [boot EXCEPT !.sum = sum, !.step = "saveTest"]
  /\ UNCHANGED <<spi, info, mcu, baseInfo, mode>>

SaveTest ==
  /\ At("saveTest")
  /\ boot' = IF boot.sum = boot.crc THEN [boot EXCEPT !.step = "saveInfo", !.i = 0]
             ELSE Go("saveTry")
  /\ UNCHANGED <<spi, info, mcu, base, baseInfo, mode, glitches>>

(* The words follow in the order of their addresses, the status first; the *)
(* comparison at the end may read them wrong and begin again.              *)
SaveInfo ==
  /\ At("saveInfo")
  /\ LET word == <<"status", "size", "crc">>
     IN \/ /\ boot.i = 0 /\ baseInfo' = Blank
        \/ /\ boot.i \in 1 .. 3
           /\ baseInfo' = [baseInfo EXCEPT ![word[boot.i]] = info[word[boot.i]]]
        \/ /\ boot.i = 4 /\ UNCHANGED baseInfo
  /\ \/ /\ boot.i < 4 /\ boot' = [boot EXCEPT !.i = @ + 1] /\ UNCHANGED glitches
     \/ /\ boot.i = 4
        /\ \E equal \in BOOLEAN :
             /\ Glitch(<<equal>>, <<TRUE>>)
             /\ boot' = Go(IF equal THEN "erase" ELSE "saveTry")
  /\ UNCHANGED <<spi, info, mcu, base, mode>>

(* The download is done with, copied or not, and the application started.  *)
Erase ==
  /\ At("erase")
  /\ info' = Blank
  /\ IF Runnable THEN Execute ELSE boot' = Go("stuck") /\ UNCHANGED mode
  /\ UNCHANGED <<spi, mcu, base, baseInfo, glitches>>

(* What a cut leaves of the page that was being programmed.                *)
Torn(flash, step) ==
  {flash} \cup IF At(step) /\ boot.i < boot.size
               THEN {[flash EXCEPT ![boot.i] = cell] : cell \in {Erased, Garbage}} ELSE {}

Reset ==
  /\ mode' = "boot" /\ boot' = Fresh
  /\ mcu' \in Torn(mcu, "copy") /\ base' \in Torn(base, "save")
  /\ UNCHANGED <<baseInfo, glitches>>

BootStep == \/ Check \/ Try \/ Copy \/ Test \/ SaveTry \/ Save \/ SaveTest
            \/ SaveInfo \/ Erase
-----------------------------------------------------------------------------
(* The bootloader by itself, on whatever the application may have left:    *)
(* an image that is ready is complete, and one is in the MCU.  The MCU may *)
(* be reset at any time, any number of times.                              *)
Flashes == {With(image) : image \in Images \cup {<<>>}}
Described(flash, words) ==
  words.status = "ready" =>
    words.crc \in Images /\ words.size = Len(words.crc) /\ Holds(flash, words.crc)

BootInit ==
  /\ spi \in Flashes /\ info \in Info /\ Described(spi, info)
  /\ mcu \in Flashes /\ Whole(mcu)
  /\ base \in Flashes /\ baseInfo \in Info /\ Described(base, baseInfo)
  /\ mode = "boot" /\ boot = Fresh /\ glitches = 0

Restart == Reset /\ UNCHANGED <<spi, info>>
BootNext == BootStep \/ Restart
BootSpec == BootInit /\ [][BootNext]_<<spi, info, bootVars>>
-----------------------------------------------------------------------------
BootTypeOK ==
  /\ mcu \in [Area -> Cell] /\ base \in [Area -> Cell] /\ baseInfo \in Info
  /\ mode \in {"run", "boot"} /\ boot.step \in Steps
  /\ boot.from \in {"new", "base"} /\ boot.tries \in 0 .. Tries /\ boot.i \in 0 .. Cells + 4
  /\ boot.size \in 0 .. NoSize /\ boot.crc \in Images \cup {NoSum, <<>>}
  /\ boot.sum \in Seq(Cell) \cup {NoSum} /\ glitches \in 0 .. MaxGlitch

(* The application that is started is a complete image, whatever power     *)
(* cuts and bad reads came between (fewer of them than the attempts).      *)
RunsWhole == mode = "run" => Whole(mcu)

(* As long as the MCU holds parts of images, the words that make the       *)
(* bootloader go on with its copy are there.                               *)
CopyIsPending == mode = "boot" /\ ~Whole(mcu) => info.status = "ready"

(* An image that is there whole is what the bootloader has programmed when *)
(* it is done, not the backup.                                             *)
NewImageRuns ==
  At("erase") /\ info.status = "ready" /\ Holds(spi, info.crc) => Holds(mcu, info.crc)

(* The backup is a complete image once all its words are there.  A power  *)
(* cut between them leaves one that is marked ready and has no checksum;   *)
(* and a comparison of the words that reads them wrong has the image       *)
(* written again under words that call it ready, so that a power cut then  *)
(* leaves a part of it: the promise is for reads that are right.           *)
BackupIsWhole ==
  glitches = 0 /\ baseInfo.status = "ready" /\ baseInfo.crc # NoSum
    => Holds(base, baseInfo.crc)
=============================================================================
