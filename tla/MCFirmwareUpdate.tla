------------------------- MODULE MCFirmwareUpdate -------------------------
(* A short and a long image, for FirmwareUpdate, and one whose last packet *)
(* is too short to be stored.                                              *)
EXTENDS FirmwareUpdate

MCFactory == <<1, 2>>
MCImages == {MCFactory, <<3, 2, 4>>, <<3, 5>>}
MCShortCells == {5}
=============================================================================
