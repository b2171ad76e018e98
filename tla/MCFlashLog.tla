----------------------------- MODULE MCFlashLog -----------------------------
(* FlashLog for TLC: bytes and index fields are a few bits wide, and a     *)
(* flash program is their bitwise AND.                                     *)
EXTENDS FlashLog, Bitwise

BitAnd(a, b) == a & b
=============================================================================
