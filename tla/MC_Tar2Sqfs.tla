---------------------------- MODULE MC_Tar2Sqfs -----------------------------
(***************************************************************************)
(* Instantiates Tar2Sqfs for TLC: a device block of 4 bytes, so the image *)
(* may or may not need padding, and two ids that a big-endian htole32     *)
(* swaps.                                                                 *)
(***************************************************************************)
EXTENDS Tar2Sqfs

MCLE == [x \in {1, 2} |-> 3 - x]
=============================================================================
