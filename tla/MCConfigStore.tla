--------------------------- MODULE MCConfigStore ---------------------------
(***************************************************************************)
(* Instances of ConfigStore for TLC.                                       *)
(***************************************************************************)
EXTENDS ConfigStore

(* The sum of the words, a blank one counting 2 (in the code it is a sum   *)
(* of bytes, and an erased byte is 255): two configurations that exchange  *)
(* their words have the same.                                              *)
Weight(value) == IF value = Blank THEN 2 ELSE value
MCCheckSum(data) == LET sum[k \in 0 .. Words] ==
                          IF k = 0 THEN 0 ELSE sum[k - 1] + Weight(data[k])
                    IN sum[Words]
=============================================================================
