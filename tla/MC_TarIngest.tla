---------------------------- MODULE MC_TarIngest ----------------------------
(***************************************************************************)
(* Instantiates TarIngest for TLC.  A tar block is 2 bytes, so bodies of  *)
(* 1..3 bytes need padding and a 4 byte sparse file of 2 stored bytes has *)
(* a logical size that differs from its body.  Archives hold up to       *)
(* MaxRecords records (4 in the passing runs, 3 in the violation runs)    *)
(* drawn from the shapes below.                                           *)
(***************************************************************************)
EXTENDS TarIngest

CONSTANTS n1, n2, bad, userKey, badKey

E(o, c) == [offset |-> o, count |-> c]

H(nm, isReg, unk, sz, rs, mt, sp, xs) ==
  [name |-> nm, reg |-> isReg, unknown |-> unk, size |-> sz, recsize |-> rs,
   mtime |-> mt, sparse |-> sp, xattrs |-> xs]

\* A regular file of 3 bytes with a user.* xattr.
RegFile     == H(n1, TRUE, FALSE, 3, 3, 1, <<>>, {userKey})
\* A directory.
Dir         == H(n2, FALSE, FALSE, 0, 0, 2, <<>>, {})
\* A GNU sparse file: logical size 4, two 1 byte extents stored in 2 bytes,
\* and the (size, 0) sentinel the decoder keeps (src/tests/tar_sparse.c).
GoodSparse  == H(n2, TRUE, FALSE, 4, 2, 1, <<E(0, 1), E(2, 1), E(4, 0)>>, {})
\* A record whose name canonicalize_name rejects.
BadNameFile == H(bad, TRUE, FALSE, 1, 1, 1, <<>>, {})
\* A record of an unknown type with a 1 byte body.
UnknownRec  == H(n1, FALSE, TRUE, 1, 1, 1, <<>>, {})
\* A regular file carrying a key squashfs cannot encode.
BadXattr    == H(n1, TRUE, FALSE, 0, 0, 2, <<>>, {badKey, userKey})
\* A sparse file whose extents are out of order.
BrokenSparse == H(n1, TRUE, FALSE, 4, 2, 1, <<E(2, 1), E(0, 1)>>, {})
\* A sparse file whose second extent starts inside the first once the end
\* of the first wraps around 2^Width.
WrapSparse  == H(n1, TRUE, FALSE, 8, 0, 1, <<E(1, 7), E(2, 1)>>, {})

ShapesNoSkip  == {RegFile, Dir, GoodSparse, BadNameFile, UnknownRec, BadXattr,
                  BrokenSparse}
ShapesSkip    == {RegFile, Dir, GoodSparse, BadNameFile, UnknownRec, BadXattr}
ShapesSparse  == {RegFile, BrokenSparse}
ShapesWrap    == {WrapSparse, Dir}
ShapesLeak    == {RegFile, BadNameFile}
=============================================================================
