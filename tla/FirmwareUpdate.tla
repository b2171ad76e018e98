--------------------------- MODULE FirmwareUpdate ---------------------------
(***************************************************************************)
(* The update of the firmware as a whole: the server's downloads, the      *)
(* application that stores them, the reset, the bootloader, and the power  *)
(* that may fail between any two operations on a flash.                    *)
(***************************************************************************)
EXTENDS FirmwareDownload, Bootloader

CONSTANTS
  Factory,       \* the image the tracker is delivered with
  Backups,       \* whether it is delivered with a backup
  MaxStart,      \* bound: downloads the server starts
  MaxCut,        \* bound: cuts of the power
  MaxFault,      \* bound: cells that do not read back
  MaxTimeout,    \* bound: timeouts of the firmware connection
  MaxStray       \* bound: packets when no download is in progress, for a
                 \* tracker that has a backup: nothing would save another

ASSUME FirmwareUpdateAssumption ==
  /\ Factory \in Images /\ Backups \subseteq BOOLEAN
  /\ PadCells \in Nat /\ ShortCells \subseteq Nat \ {0}
  /\ \A image \in Images : \A k \in 1 .. Len(image) - 1 : image[k] \notin ShortCells
  /\ MaxStart \in Nat /\ MaxCut \in Nat /\ MaxFault \in Nat
  /\ MaxTimeout \in Nat /\ MaxStray \in Nat

VARIABLES
  serving,       \* the image the server sends
  ran,           \* history: the image the application was started with
  used           \* how much of each bound is used up

vars == <<spi, info, dl, serving, ran, used, bootVars>>

HasBackup == baseInfo.status = "ready" /\ Holds(base, baseInfo.crc)
Bounds == [start |-> MaxStart, cut |-> MaxCut, fault |-> MaxFault,
           timeout |-> MaxTimeout, stray |-> IF HasBackup THEN MaxStray ELSE 0]
Use(kinds) == /\ \A kind \in kinds : used[kind] < Bounds[kind]
              /\ used' = [kind \in DOMAIN Bounds |->
                            IF kind \in kinds THEN used[kind] + 1 ELSE used[kind]]

Init ==
  /\ spi = With(<<>>) /\ info = Blank /\ mcu = With(Factory)
  /\ \/ /\ FALSE \in Backups /\ base = With(<<>>) /\ baseInfo = Blank
     \/ /\ TRUE \in Backups /\ base = With(Factory)
        /\ baseInfo = [status |-> "ready", size |-> Len(Factory), crc |-> Factory]
  /\ dl = Forgotten("none", <<>>)
  /\ mode = "run" /\ boot = Fresh /\ glitches = 0
  /\ serving = Factory /\ ran = Factory /\ used = [kind \in DOMAIN Bounds |-> 0]
-----------------------------------------------------------------------------
(* The application handles a request, all of it or up to a power cut.      *)
Complete(handled, kinds) ==
  /\ Done(handled) /\ dl' = handled.dl /\ Use(kinds) /\ UNCHANGED bootVars

Handle(handled, kinds) ==
  \/ Complete(handled, kinds)
  \/ CutShort(handled) /\ Use(kinds \cup {"cut"}) /\ Reset /\ UNCHANGED dl

Start ==
  /\ mode = "run"
  /\ \E image \in Images : Handle(Started(image), {"start"}) /\ serving' = image /\ UNCHANGED ran

(* A download is in progress.                                              *)
Expecting == dl.size > 0 /\ info.status # "ready"

Packet(k) ==
  /\ mode = "run"
  /\ LET stray == IF Expecting THEN {} ELSE {"stray"}
         cell == serving[k + 1]
     IN \/ Handle(Received(k, cell, TRUE), stray)
        \/ /\ k = dl.offset /\ cell \notin ShortCells
           /\ \E stored \in {cell, Garbage} :
                Handle(Received(k, stored, FALSE), stray \cup {"fault"})
  /\ UNCHANGED <<serving, ran>>

Data == \E k \in 0 .. Len(serving) - 1 : Packet(k)

Timeout ==
  /\ mode = "run" /\ Use({"timeout"})
  /\ dl' = TimedOut /\ UNCHANGED <<spi, info, serving, ran, bootVars>>

(* rtc.c resets the MCU some seconds after a complete download.            *)
Reboot ==
  /\ mode = "run" /\ info.status = "ready" /\ Reset
  /\ UNCHANGED <<spi, info, dl, serving, ran, used>>

PowerCut ==
  /\ Use({"cut"}) /\ Reset
  /\ UNCHANGED <<spi, info, dl, serving, ran>>

NoImage == <<>>
InMcu == IF Whole(mcu) THEN CHOOSE image \in Images : Holds(mcu, image) ELSE NoImage

(* The application that starts loads what it finds.                        *)
Boot ==
  /\ BootStep
  /\ IF mode' = "run" THEN dl' = Loaded' /\ ran' = InMcu' ELSE UNCHANGED <<dl, ran>>
  /\ UNCHANGED <<serving, used>>

Next == Start \/ Data \/ Timeout \/ Reboot \/ PowerCut \/ Boot

Spec == Init /\ [][Next]_vars

(* The bootloader has nothing to wait for, the reset comes, and the server *)
(* sends the packet the tracker asks for until it is stored.  Each is weak *)
(* fairness, with the condition under which the action is enabled.         *)
Booting == mode = "boot" /\ boot.step # "stuck"
Pending == mode = "run" /\ info.status = "ready"
Asking == mode = "run" /\ Expecting /\ dl.offset < Len(serving)

Asked ==
  /\ Asking
  /\ Complete(Received(dl.offset, serving[dl.offset + 1], TRUE), {})
  /\ UNCHANGED <<serving, ran>>

FairSpec ==
  /\ Spec
  /\ []<>~Booting \/ []<><<Boot>>_vars
  /\ []<>~Pending \/ []<><<Reboot>>_vars
  /\ []<>~Asking \/ []<><<Asked>>_vars
-----------------------------------------------------------------------------
TypeOK ==
  /\ spi \in [Area -> Cell] /\ info \in Info /\ dl \in Download /\ BootTypeOK
  /\ serving \in Images /\ ran \in Images \cup {NoImage}
  /\ \A kind \in DOMAIN Bounds : used[kind] \in 0 .. Bounds[kind]

(* A download that is marked ready is complete, however its packets came,  *)
(* as long as none comes when no download is in progress.                  *)
ReadyIsWhole ==
  info.status = "ready" /\ used.stray = 0
    => Len(info.crc) = info.size /\ Holds(spi, info.crc)

(* To one who sees only which image the tracker runs and which is ready,   *)
(* an update is one step (until a packet comes that is not due).           *)
Slot == INSTANCE ImageSlot WITH
          running <- ran, ready <- IF info.status = "ready" THEN info.crc ELSE NoImage,
          released <- used.stray > 0
RefinesImageSlot == Slot!Spec

(* The next cell to program is erased, or its sector is erased with it,    *)
(* wherever the offset has gone back to: programming can only clear bits.  *)
NextIsErased ==
  mode = "run" /\ dl.offset < Len(serving) => OpensSector(dl.offset) \/ spi[dl.offset] = Erased

(* A download in progress comes to a reset, as long as it is of the image  *)
(* the server sends and the last packet of that is not too short to be     *)
(* stored: one that is makes the sum wrong, whenever the download begins   *)
(* again.                                                                  *)
Storable(image) == Last(image) \notin ShortCells
DownloadEnds ==
  mode = "run" /\ Expecting /\ dl.crc = serving /\ Storable(serving)
    ~> mode = "boot" \/ ~Storable(serving)
=============================================================================
