--------------------------- MODULE MCValueJournal ---------------------------
(* An instance of ValueJournal: two values with a sector each.             *)
EXTENDS ValueJournal

Own == [gpsLat |-> 0, gpsLon |-> 1]
=============================================================================
