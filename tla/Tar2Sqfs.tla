----------------------------- MODULE Tar2Sqfs ------------------------------
(***************************************************************************)
(* main of tar2sqfs (src/tar/tar2sqfs.c, lines 394-506) and the id table  *)
(* writer it calls (src/lib/sqfs/id_table_write.c).                        *)
(*                                                                         *)
(* main is a straight sequence of calls, each of which may fail; a        *)
(* failure jumps into a ladder of cleanup labels.  The steps are listed   *)
(* in Steps, in the order of the code, with the label each failure jumps  *)
(* to.  What the steps write is abstracted to the offsets they leave in   *)
(* the superblock; the ingest loop and the serialiser are modelled in     *)
(* TarIngest and SerializeFstree, and appear here only as steps that      *)
(* append to the file or may fail.                                        *)
(***************************************************************************)
EXTENDS Integers, Sequences, SequencesExt, FiniteSets

CONSTANTS
  DevBlk,     \* devblksize
  SuperSize,  \* bytes of the superblock at offset 0
  UsedIds,    \* uid/gid values the serialised inodes use
  LE          \* htole32 on a big-endian host: a byte swap, its own inverse

ASSUME DevBlk \in Nat \ {0} /\ SuperSize \in Nat \ {0}
ASSUME LE \in [UsedIds -> UsedIds] /\ \A x \in UsedIds : LE[LE[x]] = x

(* Labels a failure may jump to; "ret" is an early return of EXIT_FAILURE *)
(* before anything is acquired, "success" the fall-through after the last *)
(* step.                                                                   *)
Labels == {"ret", "out_fd", "out_fs", "out_cmp", "out_data", "out", "success"}

\* The resources released from each label down, in the ladder's order.
Ladder == <<"idtbl", "data", "cmp", "fs", "outfile">>
LadderFrom == [out |-> 1, out_data |-> 2, out_cmp |-> 3, out_fs |-> 4,
               out_fd |-> 5, ret |-> 6, success |-> 1]

\* Tables whose start offset is recorded in the superblock.
Tables == {"inode", "directory", "fragment", "export", "id", "xattr"}

S(nm, k, arg, lbl) == [name |-> nm, kind |-> k, arg |-> arg, onfail |-> lbl]

\* The calls of main after process_args, each with the label its failure
\* jumps to ("none": it cannot fail).
StCfgInit       == S("compressor_cfg_init_options", "plain", "", "ret")
StOpen          == S("sqfs_open_file", "acquire", "outfile", "ret")
StFstreeInit    == S("fstree_init", "acquire", "fs", "out_fd")
StCmpCreate     == S("sqfs_compressor_create", "acquire", "cmp", "out_fs")
StSuperInit     == S("sqfs_super_init", "plain", "", "out_cmp")
StSuperWrite    == S("sqfs_super_write", "super_write", "", "out_cmp")
StWriteOptions  == S("write_options", "options", "", "out_cmp")
StDataCreate    == S("data_writer_create", "acquire", "data", "out_cmp")
\* Fault: a failed sqfs_id_table_create jumps to out.
StIdtblCreateToOut == S("sqfs_id_table_create", "acquire", "idtbl", "out")
StIdtblCreate   == S("sqfs_id_table_create", "acquire", "idtbl", "out_data")
StTarBall       == S("process_tar_ball", "append", "", "out")
StSync          == S("data_writer_sync", "append", "", "out")
StGenInodes     == S("fstree_gen_inode_table", "plain", "", "out")
StSerialize     == S("sqfs_serialize_fstree", "serialize", "", "out")
StFragTable     == S("data_writer_write_fragment_table", "table", "fragment", "out")
StExportTable   == S("write_export_table", "export", "export", "out")
StIdTable       == S("sqfs_id_table_write", "id_table", "id", "out")
StXattr         == S("write_xattr", "table", "xattr", "out")
StBytesUsed     == S("bytes_used", "bytes_used", "", "none")
StSuperRewrite  == S("sqfs_super_write", "super_write", "", "out")
StPadd          == S("padd_sqfs", "padd", "", "out")

\* Fault: bytes_used taken before the xattr table is written.
StepsBytesUsedEarly ==
  << StCfgInit, StOpen, StFstreeInit, StCmpCreate, StSuperInit, StSuperWrite,
     StWriteOptions, StDataCreate, StIdtblCreate, StTarBall, StSync,
     StGenInodes, StSerialize, StFragTable, StExportTable, StIdTable,
     StBytesUsed, StXattr, StSuperRewrite, StPadd >>

(* The sequence of calls in main.  tree_node_sort_recursive and           *)
(* fstree_xattr_deduplicate return nothing and are left out; the         *)
(* statistics at the end only print.                                      *)
Steps ==
  << StCfgInit, StOpen, StFstreeInit, StCmpCreate, StSuperInit, StSuperWrite,
     StWriteOptions, StDataCreate, StIdtblCreate, StTarBall, StSync,
     StGenInodes, StSerialize, StFragTable, StExportTable, StIdTable,
     StXattr, StBytesUsed, StSuperRewrite, StPadd >>

NoSuper == [opts |-> FALSE, start |-> [t \in Tables |-> 0], bytes_used |-> 0,
            id_count |-> 0]
NoExit == -1
EXIT_SUCCESS == 0
EXIT_FAILURE == 1

VARIABLES
  pc,          \* index in Steps of the next call, Len(Steps)+1 after it
  label,       \* the cleanup label main jumped to, or "none" yet
  status,      \* the local status
  exitCode,    \* main's return value, NoExit while running
  held,        \* resources acquired, in order
  freed,       \* resources released, in order
  size,        \* outfile->get_size
  super,       \* the in-memory superblock
  disk,        \* the superblock last written at offset 0
  exportable,  \* --exportable
  bigEndian,   \* the host byte order
  ids,         \* the in-memory id table
  idsDisk,     \* the id table as written to the file
  fsize        \* the size passed to padd_sqfs, for the padding check

vars == <<pc, label, status, exitCode, held, freed, size, super, disk,
          exportable, bigEndian, ids, idsDisk, fsize>>

Step == Steps[pc]
Running == pc <= Len(Steps) /\ label = "none"

\* The pc after a successful step: write_export_table only if exportable.
NextPc == IF pc + 1 <= Len(Steps) /\ Steps[pc + 1].kind = "export" /\ ~exportable
            THEN pc + 2 ELSE pc + 1

\* htole32 over the table, as id_table_write converts it in place.
ToLE(tbl) == IF bigEndian THEN [i \in DOMAIN tbl |-> LE[tbl[i]]] ELSE tbl

\* le32toh over the table, converting it back after the write.
LeToH(tbl) == IF bigEndian THEN [i \in DOMAIN tbl |-> LE[tbl[i]]] ELSE tbl

-----------------------------------------------------------------------------
Init ==
  /\ pc = 1
  /\ label = "none"
  /\ status = EXIT_SUCCESS
  /\ exitCode = NoExit
  /\ held = <<>>
  /\ freed = <<>>
  /\ size = 0
  /\ super = NoSuper
  /\ disk = NoSuper
  /\ exportable \in BOOLEAN
  /\ bigEndian \in BOOLEAN
  /\ ids = <<>>
  /\ idsDisk = <<>>
  /\ fsize = 0

\* A step that acquires a resource or only changes memory succeeds.
AcquireOrPlain ==
  /\ Running
  /\ Step.kind \in {"acquire", "plain"}
  /\ held' = IF Step.kind = "acquire" THEN Append(held, Step.arg) ELSE held
  /\ pc' = NextPc
  /\ UNCHANGED <<label, status, exitCode, freed, size, super, disk,
                 exportable, bigEndian, ids, idsDisk, fsize>>

(* sqfs_super_write: the in-memory superblock goes to offset 0; the file  *)
(* is at least SuperSize long.                                            *)
SuperWrite ==
  /\ Running
  /\ Step.kind = "super_write"
  /\ disk' = super
  /\ size' = IF size < SuperSize THEN SuperSize ELSE size
  /\ pc' = NextPc
  /\ UNCHANGED <<label, status, exitCode, held, freed, super, exportable,
                 bigEndian, ids, idsDisk, fsize>>

(* cmp->write_options: 0 writes nothing; a positive result wrote the      *)
(* options block and sets SQFS_FLAG_COMPRESSOR_OPTIONS.                   *)
WriteOptions ==
  /\ Running
  /\ Step.kind = "options"
  /\ \/ UNCHANGED <<size, super>>
     \/ /\ size' = size + 1
        /\ super' = [super EXCEPT !.opts = TRUE]
  /\ pc' = NextPc
  /\ UNCHANGED <<label, status, exitCode, held, freed, disk, exportable,
                 bigEndian, ids, idsDisk, fsize>>

(* process_tar_ball and data_writer_sync append data blocks and           *)
(* fragments; the tables record their start and append their blocks.     *)
Append_ ==
  /\ Running
  /\ Step.kind \in {"append", "table", "export"}
  /\ size' = size + 1
  /\ super' = IF Step.kind = "append" THEN super
              ELSE [super EXCEPT !.start[Step.arg] = size]
  /\ pc' = NextPc
  /\ UNCHANGED <<label, status, exitCode, held, freed, disk, exportable,
                 bigEndian, ids, idsDisk, fsize>>

(* sqfs_serialize_fstree: the inode and directory tables, filling the id  *)
(* table with the uids and gids of the inodes as it goes.                 *)
Serialize ==
  /\ Running
  /\ Step.kind = "serialize"
  /\ ids' = SetToSeq(UsedIds)
  /\ size' = size + 2
  /\ super' = [super EXCEPT !.start["inode"] = size,
                            !.start["directory"] = size + 1]
  /\ pc' = NextPc
  /\ UNCHANGED <<label, status, exitCode, held, freed, disk, exportable,
                 bigEndian, idsDisk, fsize>>

(* id_table_write: convert the ids in place with htole32, set id_count,   *)
(* write the table, convert them back with le32toh.  The write may fail;  *)
(* the ids are converted back either way.                                 *)
IdTableWrite ==
  /\ Running
  /\ Step.kind = "id_table"
  /\ \/ /\ idsDisk' = ToLE(ids)
        /\ size' = size + 1
        /\ super' = [super EXCEPT !.start["id"] = size, !.id_count = Len(ids)]
        /\ pc' = NextPc
        /\ UNCHANGED label
     \/ /\ label' = Step.onfail
        /\ super' = [super EXCEPT !.id_count = Len(ids)]
        /\ UNCHANGED <<idsDisk, size, pc>>
  /\ ids' = LeToH(ToLE(ids))
  /\ UNCHANGED <<status, exitCode, held, freed, disk, exportable, bigEndian,
                 fsize>>

\* super.bytes_used = outfile->get_size(outfile)
BytesUsed ==
  /\ Running
  /\ Step.kind = "bytes_used"
  /\ super' = [super EXCEPT !.bytes_used = size]
  /\ pc' = NextPc
  /\ UNCHANGED <<label, status, exitCode, held, freed, size, disk,
                 exportable, bigEndian, ids, idsDisk, fsize>>

\* padd_sqfs: zero bytes up to the next multiple of devblksize.
Padd ==
  /\ Running
  /\ Step.kind = "padd"
  /\ fsize' = size
  /\ size' = IF size % DevBlk = 0 THEN size ELSE size + (DevBlk - (size % DevBlk))
  /\ pc' = NextPc
  /\ UNCHANGED <<label, status, exitCode, held, freed, super, disk,
                 exportable, bigEndian, ids, idsDisk>>

\* Any step but id_table_write failing: a goto to its label.
StepFails ==
  /\ Running
  /\ Step.onfail # "none"
  /\ Step.kind # "id_table"
  /\ label' = Step.onfail
  /\ UNCHANGED <<pc, status, exitCode, held, freed, size, super, disk,
                 exportable, bigEndian, ids, idsDisk, fsize>>

\* After the last step: status = EXIT_SUCCESS, then fall into out.
Finish ==
  /\ pc = Len(Steps) + 1
  /\ label = "none"
  /\ label' = "success"
  /\ status' = EXIT_SUCCESS
  /\ UNCHANGED <<pc, exitCode, held, freed, size, super, disk, exportable,
                 bigEndian, ids, idsDisk, fsize>>

\* Fault: main returns a library error code instead of status.
CleanupReturnsErrno ==
  /\ label \notin {"none", "exited", "exited_ok"}
  /\ freed' = SubSeq(Ladder, LadderFrom[label], Len(Ladder))
  /\ exitCode' = IF label = "success" THEN status ELSE -5
  /\ label' = IF label = "success" THEN "exited_ok" ELSE "exited"
  /\ UNCHANGED <<pc, status, held, size, super, disk, exportable, bigEndian,
                 ids, idsDisk, fsize>>

(* The cleanup ladder from the label down, then return status; the early *)
(* returns give EXIT_FAILURE.                                             *)
Cleanup ==
  /\ label \notin {"none", "exited", "exited_ok"}
  /\ freed' = SubSeq(Ladder, LadderFrom[label], Len(Ladder))
  /\ exitCode' = IF label = "ret" THEN EXIT_FAILURE ELSE status
  /\ label' = IF label = "success" THEN "exited_ok" ELSE "exited"
  /\ UNCHANGED <<pc, status, held, size, super, disk, exportable, bigEndian,
                 ids, idsDisk, fsize>>


Next ==
  \/ AcquireOrPlain
  \/ SuperWrite
  \/ WriteOptions
  \/ Append_
  \/ Serialize
  \/ IdTableWrite
  \/ BytesUsed
  \/ Padd
  \/ StepFails
  \/ Finish
  \/ Cleanup

Spec == Init /\ [][Next]_vars

-----------------------------------------------------------------------------
TypeOK ==
  /\ pc \in 1 .. Len(Steps) + 1
  /\ label \in Labels \cup {"none", "exited", "exited_ok"}
  /\ status \in {EXIT_SUCCESS, EXIT_FAILURE}
  /\ exitCode \in {NoExit, EXIT_SUCCESS, EXIT_FAILURE}
  /\ held \in Seq(ToSet(Ladder)) /\ freed \in Seq(ToSet(Ladder))
  /\ size \in Nat /\ fsize \in Nat
  /\ exportable \in BOOLEAN /\ bigEndian \in BOOLEAN
  /\ ids \in Seq(UsedIds) /\ idsDisk \in Seq(UsedIds)

Exiting == exitCode # NoExit

(* ExitStatus: main returns EXIT_SUCCESS exactly when every call          *)
(* succeeded; the spec (section 6) requires a non-zero exit status on any *)
(* fatal error.                                                           *)
ExitStatus ==
  Exiting => (exitCode = EXIT_SUCCESS <=> label = "exited_ok")

(* CleanupLIFO: on every path out of main, the resources destroyed are    *)
(* exactly those acquired, each once, in the reverse order of their       *)
(* acquisition.                                                           *)
CleanupLIFO == Exiting => freed = Reverse(held)

(* SuperblockFinal: when main succeeds, the superblock at offset 0 is the *)
(* final in-memory one: bytes_used is the image size before padding, every *)
(* table written starts below it, the image is padded to devblksize, and  *)
(* the compressor-options flag is on disk iff the options block is.       *)
SuperblockFinal ==
  label = "exited_ok" =>
    /\ disk = super
    /\ disk.bytes_used = fsize
    /\ \A t \in Tables : disk.start[t] < disk.bytes_used
    /\ size % DevBlk = 0 /\ fsize <= size /\ size < fsize + DevBlk
=============================================================================
