------------------------- MODULE MC_SerializeFstree -------------------------
(***************************************************************************)
(* Instantiates SerializeFstree for TLC: every tree of up to four nodes    *)
(* and every file type, owners from two (uid, gid) pairs naming three ids *)
(* against an id table of two entries, and metadata blocks of 3 bytes.    *)
(* Inodes take 1 to 3 bytes, and a symlink with a 3 byte target takes 4,  *)
(* so inodes straddle one and two block boundaries.                       *)
(***************************************************************************)
EXTENDS SerializeFstree

MCOwners == {<<0, 0>>, <<1, 2>>}
MCInodeSize ==
  [k \in Kinds |-> CASE k \in {"dir", "bdev", "cdev"} -> 2
                     [] k = "reg"                    -> 3
                     [] OTHER                        -> 1]
=============================================================================
