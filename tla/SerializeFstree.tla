-------------------------- MODULE SerializeFstree --------------------------
(***************************************************************************)
(* sqfs_serialize_fstree (src/lib/common/serialize_fstree.c): the walk     *)
(* that writes one inode per tree node into the inode metadata writer and *)
(* one listing per directory into the directory metadata writer, then     *)
(* flushes both and records the table offsets in the superblock.          *)
(*                                                                         *)
(* The tree is sorted and numbered before this runs.  Nodes are 1..N in   *)
(* pre-order with Root = 1, so a child's number exceeds its parent's and  *)
(* siblings appear in their sorted order; every ordered tree has such a   *)
(* numbering.  Inode numbers are those gen_inode_table assigns (spec      *)
(* 4.4).  The metadata writer, the directory writer and the id table are  *)
(* not under src/ and follow their contracts in spec sections 4.5-4.7.    *)
(* The inode table is kept as the sequence of inodes written, with the    *)
(* compressed start of each metadata block, so that an inode_ref can be   *)
(* decoded the way a reader of the image decodes it.                      *)
(***************************************************************************)
EXTENDS Integers, Sequences, SequencesExt, FiniteSets

CONSTANTS
  N,            \* number of tree nodes
  Owners,       \* <<uid, gid>> pairs a node may carry
  MaxIds,       \* capacity of the id table (65536, scaled down)
  MetaBlock,    \* payload bytes of a metadata block (8192, scaled down)
  InodeSize,    \* bytes of the inode of each kind of node, symlink target excluded
  Payloads,     \* devno of a device node, strlen of a symlink's target
  DataEnd       \* output file size when serialisation starts

Nodes == 1 .. N
Root == 1
\* The S_IFMT types a tree node can have.
Kinds == {"dir", "reg", "sock", "fifo", "slink", "bdev", "cdev"}
\* The types whose node->data holds a devno or a target.
PayloadKinds == {"slink", "bdev", "cdev"}
RefShift == 2 ^ 16

ASSUME N \in Nat \ {0} /\ MaxIds \in Nat \ {0} /\ MetaBlock \in Nat \ {0}
ASSUME InodeSize \in [Kinds -> 1 .. MetaBlock] /\ Payloads \subseteq Nat

VARIABLES
  parent,    \* node -> parent node (0 for the root)
  kind,      \* node -> S_IFMT type of its mode
  data,      \* node -> devno or strlen(target); 0 for other types
  owner,     \* node -> <<uid, gid>>
  userPtr,   \* node -> the data writer's inode is still in user_ptr
  todo,      \* serialize_tree_node calls still to make, in order
  phase,     \* "serialize", "done" or "failed"
  ref,       \* node -> inode_ref (0 until serialised: nodes are calloc'd)
  times,     \* node -> completed serialize_tree_node calls for it
  entries,   \* directory -> child -> the entry its listing recorded
  ids,       \* the id table, in insertion order
  table,     \* the inodes written to the inode metadata writer, in order
  starts,    \* compressed offset of each metadata block of the inode table
  im,        \* position of the inode metadata writer
  fsize,     \* size of the output file
  super      \* the superblock fields this function sets

vars == <<parent, kind, data, owner, userPtr, todo, phase, ref, times,
          entries, ids, table, starts, im, fsize, super>>

-----------------------------------------------------------------------------
IsDir(n) == kind[n] = "dir"
ChildSet(d) == {c \in Nodes : parent[c] = d}
\* A directory's child list, sorted by tree_node_sort_recursive.
Children(d) == SetToSortSeq(ChildSet(d), <)

(* gen_inode_table: the non-directory children of a directory, then its   *)
(* subdirectories recursively, then the directory itself.                 *)
RECURSIVE InodeOrder(_)
InodeOrder(d) ==
  SelectSeq(Children(d), LAMBDA c : ~IsDir(c))
  \o FoldLeft(LAMBDA acc, c : acc \o InodeOrder(c), <<>>,
              SelectSeq(Children(d), IsDir))
  \o <<d>>

\* node->inode_num: dense, from 1.
InodeNum(n) == SelectInSeq(InodeOrder(Root), LAMBDA x : x = n)

\* Fault: each child serialised before recursing into the subdirectories.
RECURSIVE SerializeRecursiveParentFirst(_)
SerializeRecursiveParentFirst(d) ==
  Children(d) \o FoldLeft(LAMBDA acc, c : acc \o SerializeRecursiveParentFirst(c),
                          <<>>, SelectSeq(Children(d), IsDir))

\* Fault: the final loop passes over subdirectories.
RECURSIVE SerializeRecursiveSkipsDirs(_)
SerializeRecursiveSkipsDirs(d) ==
  FoldLeft(LAMBDA acc, c : acc \o SerializeRecursiveSkipsDirs(c),
           <<>>, SelectSeq(Children(d), IsDir))
  \o SelectSeq(Children(d), LAMBDA c : ~IsDir(c))

\* serialize_recursive: recurse into every subdirectory, then serialise
\* every child.  The sequence of nodes passed to serialize_tree_node.
RECURSIVE SerializeRecursive(_)
SerializeRecursive(d) ==
  FoldLeft(LAMBDA acc, c : acc \o SerializeRecursive(c),
           <<>>, SelectSeq(Children(d), IsDir))
  \o Children(d)

\* sqfs_serialize_fstree: the walk of a directory root, then the root.
SerializeOrder == (IF IsDir(Root) THEN SerializeRecursive(Root) ELSE <<>>) \o <<Root>>

\* n->inode_ref = (block << 16) | offset
InodeRef(block, offset) == block * RefShift + offset

(* sqfs_id_table_id_to_index: the 0-based index of id, appending it on a  *)
(* miss; fails when the table is full.                                    *)
IdToIndex(tbl, id) ==
  IF \E i \in 1 .. Len(tbl) : tbl[i] = id
    THEN [ok |-> TRUE, tbl |-> tbl,
          idx |-> (CHOOSE i \in 1 .. Len(tbl) : tbl[i] = id) - 1]
  ELSE IF Len(tbl) = MaxIds THEN [ok |-> FALSE, tbl |-> tbl, idx |-> 0]
  ELSE [ok |-> TRUE, tbl |-> Append(tbl, id), idx |-> Len(tbl)]

\* Fault: the indices stored 1-based.
OwnerIndicesOneBased(tbl, n) ==
  LET u == IdToIndex(tbl, owner[n][1])
      g == IdToIndex(u.tbl, owner[n][2])
  IN [ok |-> u.ok /\ g.ok, tbl |-> g.tbl, uid |-> u.idx + 1, gid |-> g.idx + 1]

\* The uid lookup, then the gid lookup, in serialize_tree_node.
OwnerIndices(tbl, n) ==
  LET u == IdToIndex(tbl, owner[n][1])
      g == IdToIndex(u.tbl, owner[n][2])
  IN [ok |-> u.ok /\ g.ok, tbl |-> g.tbl, uid |-> u.idx, gid |-> g.idx]

\* Fault: the block and character device cases swapped.
TreeNodeToInodeSwapsDev(n) ==
  [type |-> ("sock" :> "SOCKET" @@ "fifo" :> "FIFO" @@ "slink" :> "SLINK"
             @@ "bdev" :> "CDEV" @@ "cdev" :> "BDEV")[kind[n]],
   attr |-> IF kind[n] \in PayloadKinds THEN data[n] ELSE 0]

(* tree_node_to_inode: the inode of a socket, fifo, symlink or device.    *)
(* A symlink's inode carries target_size = strlen(target) bytes of target *)
(* after it; a device's carries its devno.                                *)
TreeNodeToInode(n) ==
  [type |-> ("sock" :> "SOCKET" @@ "fifo" :> "FIFO" @@ "slink" :> "SLINK"
             @@ "bdev" :> "BDEV" @@ "cdev" :> "CDEV")[kind[n]],
   attr |-> IF kind[n] \in PayloadKinds THEN data[n] ELSE 0]

(* write_dir_entries: one entry per child, in list order, with the        *)
(* child's inode_num, its inode_ref as it stands now, and its mode; then  *)
(* the directory inode, whose parent_inode is the parent's inode_num (0   *)
(* for the root).                                                         *)
DirListing(n) ==
  [c \in ChildSet(n) |-> [num |-> InodeNum(c), ref |-> ref[c], mode |-> kind[c]]]
WriteDirEntries(n) ==
  [type |-> "DIR", attr |-> IF parent[n] = 0 THEN 0 ELSE InodeNum(parent[n])]

(* The first half of serialize_tree_node: the inode of a directory, file  *)
(* (the data writer's, typed FILE) or other node, then mode, mod_time and *)
(* inode_number copied from the node, and the owner indices.              *)
NodeInode(n, o) ==
  LET base == CASE IsDir(n)          -> WriteDirEntries(n)
                [] kind[n] = "reg"   -> [type |-> "FILE", attr |-> 0]
                [] OTHER             -> TreeNodeToInode(n)
  IN [type |-> base.type, attr |-> base.attr, mode |-> kind[n],
      num |-> InodeNum(n), uid |-> o.uid, gid |-> o.gid]

\* The bytes an inode takes in the inode table: a symlink's target follows it.
InodeBytes(ino) == InodeSize[ino.mode] + (IF ino.type = "SLINK" THEN ino.attr ELSE 0)

(* sqfs_meta_writer_write_inode: append k bytes.  Each block that fills   *)
(* up is compressed to 1..MetaBlock bytes and written with its 2 byte     *)
(* header; the position moves to the next block.  new lists the           *)
(* compressed offsets of the blocks this write opens.                     *)
MetaWrites(w, k) ==
  LET f == (w.offset + k) \div MetaBlock
      At(cs, i) == w.block + FoldLeft(LAMBDA a, c : a + 2 + c, 0, SubSeq(cs, 1, i))
  IN {[block  |-> IF f = 0 THEN w.block ELSE At(cs, f),
       offset |-> (w.offset + k) % MetaBlock,
       new    |-> [i \in 1 .. f |-> At(cs, i)]] : cs \in [1 .. f -> 1 .. MetaBlock]}

(* sqfs_meta_writer_flush: the bytes a flush of w appends to the file.    *)
FlushCosts(w) == IF w.offset = 0 THEN {0} ELSE {2 + c : c \in 1 .. w.offset}

-----------------------------------------------------------------------------
Init ==
  /\ parent \in {p \in [Nodes -> 0 .. N] :
                   p[Root] = 0 /\ \A n \in Nodes \ {Root} : p[n] \in 1 .. n - 1}
  /\ kind \in {k \in [Nodes -> Kinds] :
                 k[Root] = "dir" /\ \A n \in Nodes \ {Root} : k[parent[n]] = "dir"}
  /\ data \in {d \in [Nodes -> Payloads \cup {0}] :
                 \A n \in Nodes : kind[n] \notin PayloadKinds => d[n] = 0}
  /\ \A n \in Nodes : kind[n] \in PayloadKinds => data[n] \in Payloads
  /\ owner \in [Nodes -> Owners]
  /\ userPtr = [n \in Nodes |-> kind[n] = "reg"]
  /\ todo = SerializeOrder
  /\ phase = "serialize"
  /\ ref = [n \in Nodes |-> 0]
  /\ times = [n \in Nodes |-> 0]
  /\ entries = [d \in Nodes |-> <<>>]
  /\ ids = <<>>
  /\ table = <<>>
  /\ starts = <<0>>
  /\ im = [block |-> 0, offset |-> 0]
  /\ fsize = DataEnd
  /\ super = [inode_table_start |-> DataEnd, directory_table_start |-> 0,
              root_inode_ref |-> 0]

(* The effects of serialize_tree_node before the id lookups: a            *)
(* directory's listing goes to the directory writer, a file's user_ptr is *)
(* cleared.                                                               *)
TakeInode(n) ==
  /\ entries' = IF IsDir(n) THEN [entries EXCEPT ![n] = DirListing(n)] ELSE entries
  /\ userPtr' = [userPtr EXCEPT ![n] = FALSE]

(* serialize_tree_node for the next node.  A file whose user_ptr is NULL  *)
(* fails at once.  Otherwise a directory's listing goes to the directory  *)
(* writer and a file's user_ptr is cleared; then the uid and gid lookups, *)
(* which fail on a full id table (the uid may already have been added);   *)
(* then inode_ref from the writer's position and the inode's write.       *)
SerializeTreeNode ==
  LET n == Head(todo)
      o == OwnerIndices(ids, n)
  IN
  /\ phase = "serialize"
  /\ todo # <<>>
  /\ IF kind[n] = "reg" /\ ~userPtr[n]
       THEN /\ phase' = "failed"
            /\ UNCHANGED <<todo, ref, times, entries, ids, userPtr, table,
                           starts, im, fsize>>
       ELSE /\ TakeInode(n)
            /\ ids' = o.tbl
            /\ \/ /\ ~o.ok
                  /\ phase' = "failed"
                  /\ UNCHANGED <<todo, ref, times, table, starts, im, fsize>>
               \/ /\ o.ok
                  /\ \E w \in MetaWrites(im, InodeBytes(NodeInode(n, o))) :
                       /\ ref' = [ref EXCEPT ![n] = InodeRef(im.block, im.offset)]
                       /\ table' = Append(table, NodeInode(n, o))
                       /\ starts' = starts \o w.new
                       /\ im' = [block |-> w.block, offset |-> w.offset]
                       /\ fsize' = fsize + (w.block - im.block)
                  /\ times' = [times EXCEPT ![n] = @ + 1]
                  /\ todo' = Tail(todo)
                  /\ UNCHANGED phase
  /\ UNCHANGED <<parent, kind, data, owner, super>>

(* serialize_tree_node failing in a library call: write_dir_entries or   *)
(* the calloc of tree_node_to_inode returning NULL before anything else   *)
(* happened, or sqfs_meta_writer_write_inode failing after the listing,   *)
(* the user_ptr hand-over, both id lookups and the store of inode_ref.    *)
SerializeTreeNodeFails ==
  LET n == Head(todo)
      o == OwnerIndices(ids, n)
  IN
  /\ phase = "serialize"
  /\ todo # <<>>
  /\ phase' = "failed"
  /\ \/ /\ kind[n] # "reg"
        /\ UNCHANGED <<userPtr, ref, entries, ids>>
     \/ /\ kind[n] = "reg" => userPtr[n]
        /\ o.ok
        /\ TakeInode(n)
        /\ ids' = o.tbl
        /\ ref' = [ref EXCEPT ![n] = InodeRef(im.block, im.offset)]
  /\ UNCHANGED <<parent, kind, data, owner, todo, times, table, starts, im,
                 fsize, super>>

\* Fault: directory_table_start taken before the inode writer is flushed.
FinishRecordsDirStartFirst ==
  /\ phase = "serialize"
  /\ todo = <<>>
  /\ \E k \in FlushCosts(im) :
       /\ im' = [block |-> im.block + k, offset |-> 0]
       /\ super' = [super EXCEPT !.root_inode_ref = ref[Root],
                                 !.directory_table_start = fsize]
       /\ fsize' = fsize + k + 1
  /\ phase' = "done"
  /\ UNCHANGED <<parent, kind, data, owner, userPtr, todo, ref, times, entries,
                 ids, table, starts>>

(* The tail of sqfs_serialize_fstree: flush the inode writer to the file, *)
(* flush the directory writer into its buffer, record root_inode_ref and  *)
(* directory_table_start, and append the directory table (its size is     *)
(* abstracted to one byte).                                               *)
Finish ==
  /\ phase = "serialize"
  /\ todo = <<>>
  /\ \E k \in FlushCosts(im) :
       /\ im' = [block |-> im.block + k, offset |-> 0]
       /\ super' = [super EXCEPT !.root_inode_ref = ref[Root],
                                 !.directory_table_start = fsize + k]
       /\ fsize' = fsize + k + 1
  /\ phase' = "done"
  /\ UNCHANGED <<parent, kind, data, owner, userPtr, todo, ref, times, entries,
                 ids, table, starts>>

\* A flush or the directory table write failing.
FinishFails ==
  /\ phase = "serialize"
  /\ todo = <<>>
  /\ phase' = "failed"
  /\ UNCHANGED <<parent, kind, data, owner, userPtr, todo, ref, times, entries,
                 ids, table, starts, im, fsize, super>>

Next ==
  \/ SerializeTreeNode
  \/ SerializeTreeNodeFails
  \/ Finish
  \/ FinishFails

Spec == Init /\ [][Next]_vars

-----------------------------------------------------------------------------
Inodes == [type : {"DIR", "FILE", "SOCKET", "FIFO", "SLINK", "BDEV", "CDEV"},
           attr : Nat, mode : Kinds, num : Nat, uid : 0 .. MaxIds - 1,
           gid : 0 .. MaxIds - 1]

TypeOK ==
  /\ parent \in [Nodes -> 0 .. N]
  /\ kind \in [Nodes -> Kinds]
  /\ data \in [Nodes -> Payloads \cup {0}]
  /\ userPtr \in [Nodes -> BOOLEAN]
  /\ todo \in Seq(Nodes)
  /\ phase \in {"serialize", "done", "failed"}
  /\ ref \in [Nodes -> Nat]
  /\ times \in [Nodes -> Nat]
  /\ ids \in Seq(Nat) /\ Len(ids) <= MaxIds
  /\ table \in Seq(Inodes)
  /\ starts \in Seq(Nat)
  /\ im \in [block : Nat, offset : 0 .. MetaBlock - 1]
  /\ fsize \in Nat

Serialized(n) == times[n] > 0

\* Where the i-th inode written starts in the uncompressed inode table.
TableOffset(i) == FoldLeft(LAMBDA a, ino : a + InodeBytes(ino), 0, SubSeq(table, 1, i - 1))

(* A reader's decoding of an inode reference: the block whose compressed  *)
(* offset is r >> 16, then r & 0xFFFF bytes into it.  NoInode when no     *)
(* block starts there or no inode starts at that byte.                    *)
NoInode == [num |-> 0, type |-> "NONE", mode |-> "NONE", attr |-> 0]
InodeAt(r) ==
  LET b == r \div RefShift
      k == SelectInSeq(starts, LAMBDA s : s = b)
      p == (k - 1) * MetaBlock + (r % RefShift)
      i == SelectInSeq([j \in 1 .. Len(table) |-> TableOffset(j)], LAMBDA x : x = p)
  IN IF k = 0 \/ r % RefShift >= MetaBlock \/ i = 0 THEN NoInode ELSE table[i]

(* ImageRefsResolve: every reference the image stores leads to the inode  *)
(* of the node it names.  Each entry of a written directory listing,      *)
(* decoded through the inode table's block starts, reaches an inode with  *)
(* the entry's inode number and mode; after a successful walk so does the *)
(* superblock's root_inode_ref.  This fails if a listing copied a child's *)
(* inode_ref before the child was written, or if inode_ref were read from *)
(* the metadata writer at the wrong moment.                               *)
ImageRefsResolve ==
  /\ \A d \in Nodes :
       IsDir(d) /\ Serialized(d) =>
         \A c \in ChildSet(d) :
           LET e == entries[d][c] IN
           /\ e.num = InodeNum(c)
           /\ InodeAt(e.ref).num = e.num
           /\ InodeAt(e.ref).mode = e.mode
  /\ phase = "done" => InodeAt(super.root_inode_ref).num = InodeNum(Root)

(* EveryNodeOnce: a walk that succeeds has called serialize_tree_node     *)
(* exactly once for every node, so each file's user_ptr inode is written  *)
(* once, and the superblock's root_inode_ref is the root's reference.     *)
EveryNodeOnce ==
  phase = "done" =>
    /\ \A n \in Nodes : times[n] = 1
    /\ super.root_inode_ref = ref[Root]

\* The SquashFS inode type for each file type (the format, not the code).
ModeType == {<<"dir", "DIR">>, <<"reg", "FILE">>, <<"sock", "SOCKET">>,
             <<"fifo", "FIFO">>, <<"slink", "SLINK">>, <<"bdev", "BDEV">>,
             <<"cdev", "CDEV">>}

(* InodesFaithful: the inode found at each serialised node's inode_ref    *)
(* describes that node: its inode number, a type that matches its mode,  *)
(* its devno or symlink target size, for a directory the parent's inode  *)
(* number, and uid_idx and gid_idx that index the id table at the node's *)
(* own uid and gid.                                                       *)
InodesFaithful ==
  \A n \in Nodes :
    Serialized(n) =>
      LET ino == InodeAt(ref[n]) IN
      /\ ino.num = InodeNum(n)
      /\ <<kind[n], ino.type>> \in ModeType
      /\ kind[n] \in PayloadKinds => ino.attr = data[n]
      /\ IsDir(n) => ino.attr = IF n = Root THEN 0 ELSE InodeNum(parent[n])
      /\ ids[ino.uid + 1] = owner[n][1]
      /\ ids[ino.gid + 1] = owner[n][2]

(* DirectoryTableStart: after a successful walk the inode table runs from *)
(* inode_table_start up to directory_table_start, and every inode lies in *)
(* a block that starts before the directory table.                        *)
DirectoryTableStart ==
  phase = "done" =>
    /\ super.directory_table_start = super.inode_table_start + im.block
    /\ \A n \in Nodes :
         super.inode_table_start + ref[n] \div RefShift < super.directory_table_start
=============================================================================
