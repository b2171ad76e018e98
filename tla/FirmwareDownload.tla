-------------------------- MODULE FirmwareDownload --------------------------
(***************************************************************************)
(* The download of an image by the application: LoadFirmwareFile and the   *)
(* handler of opcode 0x12 in CfgProcessData, with the timeout of the       *)
(* firmware connection.                                                    *)
(*                                                                         *)
(* Packets come in any order, lost, repeated or late: the handler knows    *)
(* them by their offset alone.                                             *)
(***************************************************************************)
EXTENDS FirmwareFlash

CONSTANTS
  PadCells,      \* cells that are filled behind an image (1024 bytes)
  ShortCells     \* cells of fewer bytes than a packet of the flash (32)

VARIABLE dl           \* firmwareStatus, ...FileSize, ...FileCrc, ...FileOffSet(Old)

Download == [status : {"none", "downloading", "ready"}, size : 0 .. Cells,
             crc : Images \cup {NoSum, <<>>}, offset : 0 .. Cells, old : 0 .. Cells]

(* LoadFirmwareFile, after a restart, in which the globals are zero.  A    *)
(* download goes on from its beginning, unless its checksum is not there.  *)
Forgotten(status, crc) ==
  [status |-> status, size |-> 0, crc |-> crc, offset |-> 0, old |-> 0]

Loaded ==
  CASE info.status # "downloading"   -> Forgotten(info.status, <<>>)
    [] info.status = "downloading" /\ info.size = NoSize -> Forgotten("downloading", <<>>)
    [] info.status = "downloading" /\ info.size # NoSize /\ info.crc = NoSum
         -> Forgotten("none", NoSum)
    [] OTHER -> [Forgotten("downloading", info.crc) EXCEPT !.size = info.size]
-----------------------------------------------------------------------------
(* Packet 0xA5A5A5A5 starts a download.  firmwareFileOffSetOld keeps what  *)
(* an earlier one has left.                                                *)
Handled(flash, download) == [spi |-> flash, wipes |-> {}, order |-> <<>>, dl |-> download]

Started(image) ==
  [Handled(spi, [dl EXCEPT !.status = "downloading", !.offset = 0,
                           !.size = Len(image), !.crc = image])
     EXCEPT !.order = <<"size", "status", "crc">>]

(* Mutants: the offset kept is the end of the sector; it is the last one.  *)
NewOldAbove(offset) ==
  IF offset - dl.old >= SectorCells THEN (offset \div SectorCells + 1) * SectorCells ELSE dl.old
NewOldNow(offset) == offset

(* A packet at the offset is written and read back; when that fails the    *)
(* offset goes back to the sector kept for this.  The comparison of the    *)
(* two offsets is one of unsigned numbers.  A packet too short for one     *)
(* write of the flash is passed over, and counts as stored.                *)
NewOld(offset) ==
  IF offset < dl.old \/ offset - dl.old >= SectorCells
  THEN (offset \div SectorCells) * SectorCells
  ELSE dl.old

Store(k, cell, readsBack) ==
  CASE k # dl.offset -> Handled(spi, dl)
    [] k = dl.offset /\ cell \in ShortCells ->
         Handled(spi, [dl EXCEPT !.offset = k + 1, !.old = NewOld(k)])
    [] OTHER ->
         LET offset == IF readsBack THEN k + 1 ELSE dl.old
         IN Handled(Written(spi, k, cell), [dl EXCEPT !.offset = offset, !.old = NewOld(offset)])

(* When the offset has reached the size, the area behind the image is      *)
(* filled with 0xff, which erases a sector that begins there, and the sum  *)
(* over the image decides.                                                 *)
Padding(size) == {k \in Area : OpensSector(k) /\ k \in size .. size + PadCells - 1}

(* Mutant: the status is written before the checksum.                      *)
VerdictStatusFirst(store, sum) ==
  IF sum = store.dl.crc
  THEN [store EXCEPT !.order = <<"size", "status", "crc">>,
                     !.dl = [@ EXCEPT !.status = "ready", !.offset = 0]]
  ELSE [store EXCEPT !.order = <<"size", "status">>,
                     !.dl = [@ EXCEPT !.status = "downloading", !.offset = 0]]

Verdict(store, sum) ==
  IF sum = store.dl.crc
  THEN [store EXCEPT !.order = <<"size", "crc", "status">>,
                     !.dl = [@ EXCEPT !.status = "ready", !.offset = 0]]
  ELSE [store EXCEPT !.order = <<"size", "status">>,
                     !.dl = [@ EXCEPT !.status = "downloading", !.offset = 0]]

(* Mutant: the download is complete one packet too late.                   *)
ReceivedLate(k, cell, readsBack) ==
  LET store == Store(k, cell, readsBack)
  IN IF store.dl.offset <= store.dl.size THEN store
     ELSE Verdict(store, Sum(store.spi, store.dl.size))

Received(k, cell, readsBack) ==
  LET store == Store(k, cell, readsBack)
      padded == [store EXCEPT !.wipes = Padding(store.dl.size)]
  IN IF store.dl.offset < store.dl.size THEN store
     ELSE Verdict(padded, Sum(Wiped(padded.spi, padded.wipes), store.dl.size))

(* tFrimwareUpdateTimeout: the download begins again, whatever it was at.  *)
TimedOut == [dl EXCEPT !.status = "downloading", !.offset = 0]
=============================================================================
