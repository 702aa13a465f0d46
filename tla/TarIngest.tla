----------------------------- MODULE TarIngest -----------------------------
(***************************************************************************)
(* The tar consumption loop of tar2sqfs (src/tar/tar2sqfs.c):              *)
(* process_tar_ball, create_node_and_repack_data, copy_xattr, write_file.  *)
(*                                                                         *)
(* Standard input is a byte stream of tar records.  Each record is one     *)
(* header unit of TarBlock bytes followed by its body padded to TarBlock.  *)
(* The decoder (read_header, not under src/) is idealised: at a header     *)
(* boundary it returns that record; anywhere else it reads file data as a  *)
(* header, which either fails its checksum or is a zero block taken for    *)
(* the end of the archive.  What the loop does with the decoded record,    *)
(* and how many bytes it consumes, is translated from the source.          *)
(*                                                                         *)
(* The filesystem tree is abstracted to a function from entry name to the  *)
(* node the loop created: the record it came from, its mtime, its xattr    *)
(* keys and the stream offset the data writer read its contents from.      *)
(***************************************************************************)
EXTENDS Integers, Sequences, SequencesExt, FiniteSets, TLC

CONSTANTS
  Names,          \* entry names that canonicalize_name accepts
  BadName,        \* a NULL name or one canonicalize_name rejects
  Keys,           \* xattr keys appearing in the archive
  SupportedKeys,  \* keys whose prefix sqfs_has_xattr accepts
  TarBlock,       \* the 512 byte tar block, scaled down
  Width,          \* bit width of uint64_t, scaled down
  RecordShapes,   \* decoded headers read_header can produce
  MaxRecords,     \* longest archive enumerated
  DontSkip,       \* --no-skip
  NoXattr,        \* --no-xattr
  KeepTime,       \* --keep-time
  DefaultMtime    \* fs->defaults.st_mtime

ASSUME TarBlock \in Nat \ {0} /\ Width \in Nat \ {0}
ASSUME SupportedKeys \subseteq Keys /\ BadName \notin Names
ASSUME {DontSkip, NoXattr, KeepTime} \subseteq BOOLEAN

Word == 2 ^ Width

(* A sparse map entry (sqfs_sparse_map_t) and a decoded tar header         *)
(* (tar_header_decoded_t): size is sb.st_size, the logical file size;      *)
(* recsize is record_size, the body bytes actually stored in the stream.   *)
Extent == [offset : 0 .. Word - 1, count : 0 .. Word - 1]
Header == [name : Names \cup {BadName}, reg : BOOLEAN, unknown : BOOLEAN,
           size : Nat, recsize : 0 .. Word - 1, mtime : Nat,
           sparse : Seq(Extent), xattrs : SUBSET Keys]

ASSUME RecordShapes \subseteq Header

NoData == -1
Phases == {"read", "check", "done", "failed"}

VARIABLES
  archive,  \* the tar archive on standard input, a sequence of headers
  pos,      \* bytes of standard input consumed so far
  phase,    \* where process_tar_ball is: about to read_header, or
            \* deciding about hdr, or returned 0 ("done") or -1 ("failed")
  hdr,      \* index in archive of the header held in hdr
  held,     \* hdr owns allocations that clear_header has not released
  leaks,    \* decoded headers overwritten without clear_header
  tree      \* the fstree: entry name -> node

vars == <<archive, pos, phase, hdr, held, leaks, tree>>

-----------------------------------------------------------------------------
(* Layout of the stream.                                                   *)

\* Bytes of padding skip_padding consumes after size bytes of a body.
PadOf(size) == (TarBlock - (size % TarBlock)) % TarBlock
Padded(size) == size + PadOf(size)

\* Bytes of body the archive stores after header r.
BodyLen(r) == IF r.sparse # <<>> THEN r.recsize ELSE r.size

\* Offset of the header of record i; HdrPos(Len+1) is the end marker.
RECURSIVE HdrPos(_, _)
HdrPos(a, i) == IF i = 1 THEN 0
                ELSE HdrPos(a, i - 1) + TarBlock + Padded(BodyLen(a[i - 1]))

EndPos(a) == HdrPos(a, Len(a) + 1)
StreamLen(a) == EndPos(a) + 2 * TarBlock
BodyStart(a, i) == HdrPos(a, i) + TarBlock

-----------------------------------------------------------------------------
(* The checks of process_tar_ball.                                         *)

\* The sparse layout check: extents must not start before the end of the
\* previous one and their counts must add up to record_size.  offset and
\* count are uint64_t and wrap.
SparseLayoutAccepted(r) ==
  LET sp == r.sparse
      RECURSIVE Scan(_, _, _)
      Scan(k, offset, count) ==
        IF k > Len(sp) THEN count = r.recsize
        ELSE /\ sp[k].offset >= offset
             /\ Scan(k + 1, (sp[k].offset + sp[k].count) % Word,
                            (count + sp[k].count) % Word)
  IN sp = <<>> \/ Scan(1, sp[1].offset, 0)

\* Fault: the name check dropped.
AcceptedNoNameCheck(r) == ~r.unknown /\ SparseLayoutAccepted(r)

\* Neither the name check, the unknown-type check nor the sparse check
\* set skip.
Accepted(r) ==
  /\ r.name # BadName
  /\ ~r.unknown
  /\ SparseLayoutAccepted(r)

\* copy_xattr fails on a key sqfs_has_xattr rejects when dont_skip is set.
XattrRejected(r) == ~NoXattr /\ DontSkip /\ r.xattrs \ SupportedKeys # {}

\* The keys copy_xattr hands to fstree_add_xattr.
CopiedXattrs(r) == IF NoXattr THEN {} ELSE r.xattrs \cap SupportedKeys

\* Bytes write_file consumes: the sparse sum (uint64_t) or fi->size of
\* data, then the padding of record_size or fi->size.
SparseSum(r) == FoldLeft(LAMBDA acc, e : (acc + e.count) % Word, 0, r.sparse)
\* Fault: the skip_padding after a plain file's data missing.
WriteFileBytesNoPadding(r) ==
  IF r.sparse # <<>> THEN SparseSum(r) + PadOf(r.recsize)
  ELSE r.size

WriteFileBytes(r) ==
  IF r.sparse # <<>> THEN SparseSum(r) + PadOf(r.recsize)
  ELSE r.size + PadOf(r.size)

\* The node create_node_and_repack_data leaves for header i read at p:
\* fstree_add_generic replaces the attributes of an existing node, while
\* fstree_add_xattr appends to the xattrs it already had.
NodeOf(t, a, i, p) ==
  LET r == a[i] IN
  [rec    |-> i,
   mtime  |-> IF KeepTime THEN r.mtime ELSE DefaultMtime,
   xattrs |-> CopiedXattrs(r) \cup
                (IF r.name \in DOMAIN t THEN t[r.name].xattrs ELSE {}),
   data   |-> IF r.reg THEN p ELSE NoData]

AddNode(t, a, i, p) == (a[i].name :> NodeOf(t, a, i, p)) @@ t

\* The trees a failure after fstree_add_generic leaves: the node is in,
\* with the xattrs copy_xattr added before fstree_add_xattr failed or it
\* met a key it must reject.
PartialAdds(t, a, i, p) ==
  LET nd    == NodeOf(t, a, i, p)
      prior == IF a[i].name \in DOMAIN t THEN t[a[i].name].xattrs ELSE {}
  IN {(a[i].name :> [nd EXCEPT !.xattrs = prior \cup x]) @@ t :
        x \in SUBSET CopiedXattrs(a[i])}

-----------------------------------------------------------------------------
Init ==
  /\ archive \in UNION {[1 .. n -> RecordShapes] : n \in 0 .. MaxRecords}
  /\ pos = 0
  /\ phase = "read"
  /\ hdr = 0
  /\ held = FALSE
  /\ leaks = 0
  /\ tree = <<>>

(* read_header at the current offset: the header of a record, or, where  *)
(* no record starts, the end marker or body bytes misread as a header,    *)
(* which end the loop.  The previous hdr is overwritten.                  *)
ReadHeader ==
  /\ phase = "read"
  /\ \/ \E i \in 1 .. Len(archive) :
          /\ HdrPos(archive, i) = pos
          /\ hdr' = i
          /\ pos' = pos + TarBlock
          /\ phase' = "check"
          /\ held' = TRUE
          /\ leaks' = IF held THEN leaks + 1 ELSE leaks
     \/ /\ pos \notin {HdrPos(archive, i) : i \in 1 .. Len(archive)}
        /\ phase' \in IF pos = EndPos(archive) THEN {"done"}
                       ELSE {"done", "failed"}
        /\ UNCHANGED <<pos, hdr, held, leaks>>
  /\ UNCHANGED <<archive, tree>>

\* Fault: skip_entry over sb.st_size without rounding up to a block.
SkipRecordNoPadding ==
  LET r == archive[hdr] IN
  /\ phase = "check"
  /\ ~Accepted(r)
  /\ IF DontSkip \/ pos + r.size > StreamLen(archive)
       THEN /\ phase' = "failed"
            /\ held' = FALSE
            /\ UNCHANGED pos
       ELSE /\ pos' = pos + r.size
            /\ phase' = "read"
            /\ UNCHANGED held
  /\ UNCHANGED <<archive, hdr, leaks, tree>>

(* A header that failed a check: abort under --no-skip, else skip_entry   *)
(* over sb.st_size bytes rounded up and continue without clear_header.    *)
SkipRecord ==
  LET r == archive[hdr] IN
  /\ phase = "check"
  /\ ~Accepted(r)
  /\ IF DontSkip \/ pos + Padded(r.size) > StreamLen(archive)
       THEN /\ phase' = "failed"
            /\ held' = FALSE
            /\ UNCHANGED pos
       ELSE /\ pos' = pos + Padded(r.size)
            /\ phase' = "read"
            /\ UNCHANGED held
  /\ UNCHANGED <<archive, hdr, leaks, tree>>

(* create_node_and_repack_data with its calls: fstree_add_generic,        *)
(* copy_xattr and, for a regular file, write_file; then clear_header.     *)
(* Any of them failing makes process_tar_ball clear hdr and return -1,    *)
(* with the node already in the tree: a rejected xattr key under          *)
(* --no-skip, or a body running past the end of standard input.           *)
CreateNodeAndRepackData ==
  LET r == archive[hdr]
      n == IF r.reg THEN WriteFileBytes(r) ELSE 0
  IN
  /\ phase = "check"
  /\ Accepted(r)
  /\ IF XattrRejected(r) \/ pos + n > StreamLen(archive)
       THEN /\ phase' = "failed"
            /\ tree' \in IF XattrRejected(r)
                           THEN PartialAdds(tree, archive, hdr, pos)
                           ELSE {AddNode(tree, archive, hdr, pos)}
            /\ UNCHANGED pos
       ELSE /\ tree' = AddNode(tree, archive, hdr, pos)
            /\ pos' = pos + n
            /\ phase' = "read"
  /\ held' = FALSE
  /\ UNCHANGED <<archive, hdr, leaks>>

(* fstree_add_generic, fstree_add_xattr or the data writer failing (out   *)
(* of memory, a path clash, an I/O error): the tree is left as it was, or *)
(* holds the node with part or all of its xattrs.                         *)
CreateNodeFails ==
  /\ phase = "check"
  /\ Accepted(archive[hdr])
  /\ phase' = "failed"
  /\ held' = FALSE
  /\ tree' \in {tree} \cup PartialAdds(tree, archive, hdr, pos)
  /\ UNCHANGED <<archive, pos, hdr, leaks>>


Next ==
  \/ ReadHeader
  \/ SkipRecord
  \/ CreateNodeAndRepackData
  \/ CreateNodeFails

Spec == Init /\ [][Next]_vars

-----------------------------------------------------------------------------
NodeType == [rec : Nat, mtime : Nat, xattrs : SUBSET Keys, data : Int]

TypeOK ==
  /\ archive \in Seq(Header)
  /\ pos \in Nat
  /\ phase \in Phases
  /\ hdr \in 0 .. Len(archive)
  /\ held \in BOOLEAN
  /\ leaks \in Nat
  /\ DOMAIN tree \subseteq Names
  /\ \A n \in DOMAIN tree : tree[n] \in NodeType

(* The abstract ingest, under the refinement mapping: the loop has taken *)
(* every record whose header lies before pos; it is deciding about hdr    *)
(* while in "check"; a node's data offset names the record whose body     *)
(* starts there (0 if none does).                                         *)
TakenRecords == Cardinality({i \in 1 .. Len(archive) : HdrPos(archive, i) < pos})

AbsStatus == CASE phase = "read"  -> "ready"
               [] phase = "check" -> "decide"
               [] OTHER           -> phase

BodyOf(p) == IF p = NoData THEN NoData
             ELSE LET is == {i \in 1 .. Len(archive) : BodyStart(archive, i) = p}
                  IN IF is = {} THEN 0 ELSE CHOOSE i \in is : TRUE

AbsTree == [n \in DOMAIN tree |-> [tree[n] EXCEPT !.data = BodyOf(@)]]

Abs == INSTANCE IngestAbstract
         WITH taken <- TakenRecords, status <- AbsStatus, tree <- AbsTree

ExtentsOrdered(r) == Abs!ExtentsOrdered(r)

(* StreamInSync: whenever process_tar_ball calls read_header, standard    *)
(* input is positioned at a header or at the end marker: skip_entry and   *)
(* write_file together consume exactly each record's padded body.         *)
StreamInSync ==
  phase = "read" => pos \in {HdrPos(archive, i) : i \in 1 .. Len(archive) + 1}

(* SparseExtentsOrdered: every sparse file handed to                      *)
(* write_data_from_file_condensed has extents in ascending order that do  *)
(* not overlap, as integers, and whose counts add up to the stored body.  *)
SparseExtentsOrdered ==
  \A n \in DOMAIN tree :
    LET r == archive[tree[n].rec] IN r.sparse # <<>> => ExtentsOrdered(r)

(* NoHeaderLeak: every decoded header is released by clear_header before  *)
(* read_header overwrites it.                                             *)
NoHeaderLeak == leaks = 0

(* ImplementsIngest: every step of process_tar_ball, with its byte counts *)
(* and padding, is a step of the abstract ingest: records are taken in    *)
(* order, each well-formed one becomes a node holding its own body, a     *)
(* malformed one is dropped or fails the run, and it returns 0 only after *)
(* the last record.                                                       *)
ImplementsIngest == Abs!Spec
=============================================================================
