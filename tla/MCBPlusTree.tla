---------------------------- MODULE MCBPlusTree ----------------------------
(* Thirteen ids: enough for three levels, in any order of insertion. *)
EXTENDS BPlusTree

ThirteenKeys == 1 .. 13
Offsets == [key \in ThirteenKeys |-> 1000 + key]
=============================================================================
