# TLA+ models of tar2sqfs (squashfs-tools-ng)

This directory holds TLA+ models of the tar2sqfs code under `src/`, the TLC
configurations that check them, and `PROJECT.json`. That file lists the
components, runs, fault variants ("mutants"), the source lines each
definition models, the findings and the hazards.

## 1. Inventory

The repository snapshot has seven C files. They are the tar2sqfs driver and
a few of the library files it uses. The rest of the library (tar decoder,
fstree, data writer, metadata writer, compressors) is described only in
`spec.md`.

| Component | Source | State it keeps | Operations |
|---|---|---|---|
| Option parsing | `src/tar/tar2sqfs.c` `process_args` (115-223) | the globals `block_size`, `devblksize`, `num_jobs`, `max_backlog`, flags | one `getopt_long` call per option, then defaults and checks |
| Compat getopt | `src/lib/compat/getopt.c` | `current` (position inside a group of short options), `optind`, `optarg` | `getopt` |
| Compat getopt_long | `src/lib/compat/getopt_long.c` | `optind`, `optarg` | `getopt_long`: a linear search of the option table, or a fall-back to `getopt` |
| Tar ingest loop | `tar2sqfs.c` `process_tar_ball`, `create_node_and_repack_data`, `copy_xattr`, `write_file` (225-392) | the standard-input offset, the decoded header `hdr`, the fstree, the data writer | read a header; check it; skip it, or add a node, copy its xattrs and hand its data to the data writer |
| Driver | `tar2sqfs.c` `main` (394-506) | the output file, superblock, compressor, data writer, id table, `status` | set-up, ingest, sync, inode numbering, serialisation, table writes, superblock rewrite, padding, cleanup ladder |
| Tree serialiser | `src/lib/common/serialize_fstree.c` | the inode and directory metadata writers, each node's `inode_ref`, the id table, the superblock table offsets | `serialize_recursive`, `serialize_tree_node`, `write_dir_entries`, `tree_node_to_inode`, the final flushes |
| Id table writer | `src/lib/sqfs/id_table_write.c` | the id array | byte-swap the array in place to little-endian, write it, swap it back |
| Path separators | `src/lib/compat/path_sep.c` | none | `skip_path_seps`, `next_path_sep` |
| Tar decoder, fstree, data writer, metadata writer, compressor, xattr table, file sink | not under `src/` (spec sections 4.1-4.8) | | the models only use their contracts |
| Sparse decoder test | `src/tests/tar_sparse.c` | | fixes the decoder's output for one GNU sparse archive: `st_size` 2097152, `record_size` 32768 |

### How the components interact

`main` runs everything on one thread, in a fixed order:

1. `process_args` (through `getopt_long`/`getopt`).
2. Set-up. The superblock is written once at offset 0.
3. `process_tar_ball`. It reads headers from standard input. For each
   accepted record it calls the fstree (`fstree_add_generic`,
   `fstree_add_xattr`). For each regular file it also calls the data writer,
   which reads the body from standard input.
4. `data_writer_sync`.
5. Sorting and inode numbering.
6. `sqfs_serialize_fstree`.
7. The fragment, export, id and xattr tables.
8. `bytes_used`, the superblock rewrite and the padding.

The components interact only through calls and shared data:

- The ingest loop and the data writer both consume standard input. The loop
  must leave the stream at the next header.
- The data writer stores each file's finished inode in the node's `user_ptr`.
  The serialiser takes it from there.
- The serialiser stores each node's `inode_ref`. The parent directory's
  entries read it later.
- The superblock collects the table offsets from every writer.

The data writer is the only concurrent part (spec section 5), and its code is
not in this snapshot.

### What is hard in this code

- Stream accounting. One wrong byte count in a skip or a padding loses every
  later record. Nothing fails loudly: the decoder reads file data as headers.
- Arithmetic at the edges: `uint64_t` wrap-around in the sparse-layout check,
  `10 * num_jobs` in `unsigned int`, `strtol` results stored in narrower or
  unsigned variables.
- Ordering inside the serialiser. A directory's entries copy its children's
  `inode_ref`s, so every child must be serialised first. The directory table
  offset is valid only after the inode writer is flushed.
- Inode layout. An `inode_ref` names the compressed offset of a metadata
  block and a byte inside it. Inodes straddle blocks, and a symlink's
  target follows its inode. One miscounted byte, or the position read at
  the wrong moment, leaves references that lead to the wrong inode.
- Error paths. A failure partway through `main` must give a non-zero exit
  status and release exactly what was acquired. A skipped record must still
  release its decoded header.
- Undefined behaviour. The long option table has no terminating entry.

### What makes each component correct

- **Ingest loop**
  - `StreamInSync`: every `read_header` call starts at a header.
  - `SparseExtentsOrdered`: every sparse map handed on is ordered and does
    not overlap (refuted by a wrapping extent).
  - `NoHeaderLeak`: every decoded header is released.
  - `ImplementsIngest`: the loop, with its byte counts, implements an
    abstract ingest that takes the records one at a time; its successful
    end holds exactly the well-formed records.
- **Serialiser**
  - Every directory entry, and the root reference, decodes to the inode of
    the node it names.
  - Every node is serialised exactly once, and the superblock holds the
    root's reference.
  - The inode at each node's reference describes that node: type, devno or
    symlink target size, parent inode number, uid and gid indices.
  - The directory table starts after the last inode block.
- **Driver**
  - The exit status is 0 exactly when every step succeeded.
  - Resources are released exactly once, in reverse order of acquisition.
  - The final superblock is consistent with the file.
- **Option parsing**
  - `process_args` agrees with a reference parse of the argument vector.
  - The long option search stays inside its table.
  - `num_jobs`, `devblksize` and `max_backlog` hold the integers the user
    gave, or their defaults (refuted: `strtol` results wrap).
  - `process_args` always returns or exits.
- **Path helpers**: `skip_path_seps` and `next_path_sep` agree with a
  reference definition of the `/` separator (refuted: no character is a
  separator).

## 2. Plan

The plan is ordered by importance to the image produced. Modules marked
(done) exist.

1. **TarIngest** (done). This is the ingest loop of `tar2sqfs.c`. It is the
   heart of the program and the place where input errors turn into lost or
   corrupted files.
2. **SerializeFstree** (done): `serialize_fstree.c`, with the inode metadata
   writer and the id table taken from their spec contracts.
3. **Tar2Sqfs** (done): the `main` step sequence with a failure at every
   step, the cleanup ladder, the superblock, and `id_table_write`.
4. **GetOpt** (done): `getopt`, `getopt_long` and `process_args`, checked
   against a reference parse of small argument vectors.
5. **DataWriter** (spec-modelled, later). This is the worker pool of spec
   section 4.8: a bounded queue, parallel compressors and an ordered emitter.
   It would get an abstract ordered-append specification and be shown to
   refine it with `INSTANCE ... WITH`. Its liveness property would be that
   `sync` eventually returns, under weak fairness of the workers and the
   emitter. Its code is not in this snapshot, so no model of it could be
   checked against code.
6. **IngestAbstract** (done): what the ingest loop promises, without the
   byte stream. TarIngest is shown to implement it.
7. All of `process_args` (done): `-b`, `-B`, `-Q`, `-c`, `-X`, `-d`, the
   flags and `-V`, with liveness of the loop.

8. **PathSep** (done): `path_sep.c`. Spec section 1 puts the helpers out of
   scope and nothing under `src/` calls them, but they are pure functions
   with a visible defect, so they are checked as operators against a
   reference over every string of up to three characters.

The modules are checked separately. `main` is sequential, so composing them
would multiply the state spaces without adding any interleaving. Where
`main` calls the ingest loop or the serialiser, it sees only success or
failure.

## 3. Modules and runs

### TarIngest (`TarIngest.tla`, `MC_TarIngest.tla`)

**State.** `archive` is the decoded headers on standard input. `pos` is the
offset in the stream. `phase` is where `process_tar_ball` stands. `hdr` is
the index of the decoded header. `held` and `leaks` track ownership of
`hdr`. `tree` maps a name to a node: the record it came from, its mtime, its
xattrs, and the stream offset its data was read from.

**Actions.**
- `ReadHeader`: `read_header` and the dispatch on its result.
- `SkipRecord`: the `skip` branch, lines 374-380.
- `CreateNodeAndRepackData`: the whole of `create_node_and_repack_data`,
  including `copy_xattr`, `write_file` and the `clear_header` that follows.
- `CreateNodeFails`: a failing callee. If `fstree_add_generic` already
  succeeded, the node stays in the tree with some or all of its xattrs
  (`PartialAdds`). The same holds when `copy_xattr` rejects a key or the
  body runs past the end of the input.

**Abstractions.**
- Sizes are scaled: a tar block is 2 bytes and `uint64_t` is `Width` bits.
- Names are model values. `canonicalize_name` is a name outside `Names`.
- The decoder is idealised. At a header offset it returns that header.
  Anywhere else it reads body bytes as a header. That either fails (a
  checksum error) or looks like the zero end-of-archive block; both outcomes
  are explored.
- `fstree_add_generic` follows spec section 4.4: a later record replaces the
  attributes of an earlier one with the same name, and xattrs accumulate.

**Record shapes** (`MC_TarIngest.tla`): a regular file with a `user.` xattr,
a directory, a well-formed GNU sparse file (logical size 4, two 1-byte
extents, body 2 bytes, and the `(size, 0)` sentinel of the decoder test), a bad name, an unknown record type, a file with an
unencodable xattr key, a sparse file with out-of-order extents, and a sparse
file whose extent end wraps around `2^Width`. The passing runs use archives
of up to four records, and the violation runs up to three. So every triple
of consecutive records occurs in the passing runs. A name is added, replaced and replaced again
with a skip or a failure between, and a record follows a skipped one.

| Run | Config | Expect | What it shows |
|---|---|---|---|
| ingest_noskip | `TarIngest_noskip.cfg` | pass | With `--no-skip`, over every archive of up to 4 records from all shapes but the wrapping one (18,100 states), the stream stays at header boundaries and every step refines the abstract ingest. So a return of 0 means every record was well-formed and the tree is exactly the archive's content. |
| ingest_skip | `TarIngest_skip.cfg` | pass | Without `--no-skip`, skipping bad names, unknown types and unencodable xattrs keeps the stream in sync, over every archive of up to 4 records (24,024 states), and every step refines the abstract ingest, which drops exactly the malformed records. The broken sparse shape is left out here: skipping it desyncs the stream (`ingest_sparse_skip`). |
| ingest_sparse_skip | `TarIngest_sparse_skip.cfg` | violation | Skipping a sparse file uses `st_size` (the logical size) instead of `record_size`. The stream desyncs, and later records are lost or read as garbage. |
| ingest_sparse_wrap | `TarIngest_sparse_wrap.cfg` | violation | The sparse-layout check computes `offset + count` in `uint64_t`. A wrapping extent lets overlapping extents through. |
| ingest_leak | `TarIngest_leak.cfg` | violation | The skip path `continue`s without `clear_header`, so the decoded header's allocations leak. |

**Refinement.** `IngestAbstract.tla` states what the loop promises with no
byte stream:
- `Take`: the next record is taken, in order.
- `Keep`: a well-formed record becomes a node. Under `--no-skip` its xattrs
  must also be encodable.
- `Drop`: a malformed record is dropped, unless `--no-skip` is set.
- `Finish`: the ingest returns 0 only after the last record.
- `Fail`: the ingest fails. The tree may gain the partial node of the record
  being added.

A node's `data` there is the index of the record whose body it holds.
`TarIngest` defines the refinement mapping:
- `TakenRecords`: the records whose header lies before `pos`.
- `AbsStatus`: the phase renamed.
- `AbsTree`: the tree with each data offset turned into the record whose
  body starts there (0 if none does).

`ImplementsIngest == Abs!Spec` is checked as a `PROPERTY`. Any step that
loses track of the stream, or that puts a node at the wrong body, is a step
the abstract ingest cannot take.

`read_header` away from a record start (the end marker, or body bytes
after the stream has lost step) ends the loop with 0 or -1. The passing
runs reach it only at the end marker, since their streams stay in step;
`ingest_sparse_skip` ends in the state where the next read would start two
bytes past a header.

**Why the bounds are enough.**
- A 2-byte block makes both the aligned and the unaligned padding cases
  occur.
- Four records put a record after a skip and after a sparse file. They
  also let one name be replaced twice, with a skipped record between.
- `Width = 4` exceeds every offset in the passing runs, so those runs check
  the logic of the comparison. `Width = 3` in the wrap run makes `1 + 7`
  wrap to 0.

### SerializeFstree (`SerializeFstree.tla`, `MC_SerializeFstree.tla`)

**State.**
- `parent` and `kind`: the tree. `kind` is one of the seven S_IFMT types.
- `data`: a device's devno or the length of a symlink's target.
- `owner`: each node's uid and gid.
- `userPtr`: whether a file's inode is still in `user_ptr`.
- `todo`: the `serialize_tree_node` calls still to make.
- `ref`: each node's `inode_ref`.
- `entries`: the entries each directory listing recorded: inode number,
  inode reference and mode of each child.
- `ids`: the id table.
- `table`: the inodes written, in order. Each has its type, mode, inode
  number, devno / target size / parent inode number, and uid and gid
  indices.
- `starts`: the compressed offset of each block of the inode table.
- `im`: the inode writer's position.
- `fsize`: the file size.
- `super`: the three superblock fields set.

**Actions.**
- `SerializeTreeNode`: the whole of `serialize_tree_node`. It covers:
  - the inode from `write_dir_entries` (`DirListing`, `WriteDirEntries`),
    from `user_ptr`, or from `tree_node_to_inode` (`TreeNodeToInode`);
  - the fields copied from the node (`NodeInode`);
  - both id lookups, which may fail after the listing is written, the
    `user_ptr` cleared and the uid added;
  - the reference computed from the writer position;
  - the inode write.
- `SerializeTreeNodeFails`: a library call failing. `write_dir_entries` or
  the `calloc` of `tree_node_to_inode` fails before any effect.
  `write_inode` fails after the listing, the `user_ptr` hand-over, the id
  lookups and the `inode_ref` store.
- `Finish`: the flushes, `root_inode_ref`, `directory_table_start` and the
  directory table write.
- `FinishFails`: a flush or that write failing.

`SerializeRecursive` is `serialize_recursive` written as the sequence of
nodes it visits: first recurse into the subdirectories, then the children in
list order. `InodeOrder` is `gen_inode_table` from spec section 4.4. It is
not under `src/` and gives the inode numbers the entries and inodes carry.

**Decoding.** `InodeAt(r)` reads a reference the way a reader of the image
does. It finds the block whose compressed offset is `r >> 16`, then goes
`r & 0xFFFF` bytes into it, and returns the inode that starts at that byte
of the uncompressed table. The properties follow references through
`InodeAt`, so they check the layout the writer produced, not just the
numbers stored.

**Abstractions.**
- Nodes are numbered in pre-order, so sibling lists are sorted, as after
  `tree_node_sort_recursive`.
- A metadata block holds `MetaBlock` = 3 bytes. Its compressed size is any
  of 1..3, so block boundaries fall everywhere.
- Inodes take 1 to 3 bytes. A symlink takes 1 byte plus its target, and
  `Payloads = {0, 3}`. So a 4-byte symlink inode crosses one or two block
  boundaries.
- The id table holds `MaxIds` = 2 ids. The owner pairs (0, 0) and (1, 2)
  name three ids, so the third distinct id fails.
- `link_count` (nlink) and `xattr_idx` are copied unchanged into the inode
  and are left out. So are `mod_time` and the permission bits of `mode`.

| Run | Config | Expect | What it shows |
|---|---|---|---|
| serialize | `SerializeFstree.cfg` | pass | Covers all trees of 4 nodes, every file type, every outcome of the metadata writer, and a failure at any step (534,774 states, about 2 minutes). Every directory entry and the root reference decode to the inode of the node they name. That inode has the node's number, a type matching its mode, its devno or target size, its parent's inode number, and uid/gid indices that resolve to its own ids. Every node is written exactly once, and the superblock's root reference is the root's. The directory table starts after the flushed inode table. |

### Tar2Sqfs (`Tar2Sqfs.tla`, `MC_Tar2Sqfs.tla`)

**Steps.** `Steps` lists the calls of `main` in code order. Each entry has
the label its failure jumps to.

**Actions.** The step kinds are actions:
- `AcquireOrPlain`, `SuperWrite`, `WriteOptions`, `Append_`, `Serialize`,
  `IdTableWrite` (the whole of `id_table_write`), `BytesUsed`, `Padd`.
- `StepFails`: the `goto`.
- `Finish`: `status = EXIT_SUCCESS`.
- `Cleanup`: the ladder from the label reached, then `return status`.

Both host byte orders are explored. `LE` is a byte swap on `UsedIds`.

| Run | Config | Expect | What it shows |
|---|---|---|---|
| main | `Tar2Sqfs.cfg` | pass | Every path through `main`, with and without `--exportable`, on both byte orders. The ladder releases exactly the acquired resources in reverse order. On success, the superblock on disk is the final one, `bytes_used` is the size before padding, and the image is padded by less than one device block. |
| main_status | `Tar2Sqfs_status.cfg` | violation | A failure at any step after `sqfs_open_file` returns `status`, which is never set to `EXIT_FAILURE`, so tar2sqfs exits 0. |

### GetOpt (`GetOpt.tla`, `MC_GetOpt.tla`)

**State.**
- `optind`, `current` and `optarg` of the compat getopt.
- `conf`: the globals `process_args` sets. These are `block_size`,
  `devblksize`, `num_jobs`, `max_backlog`, `comp_id`, `comp_extra` and
  `fs_defaults`, plus the set of flags `-s -x -k -e -f -q` turned on.
- `filename`: the index of the image name.
- `opts`: the options acted on, in order.
- `overrun`: whether the long option search read past its table.

**Actions.** Each action is one iteration of the `process_args` loop: the
`getopt_long` call (`GetoptLong`, which calls `Getopt`) together with the
switch case its result selects. `Next` binds that result once per step, as
`r`.
- `ParseOption`: a case that stores a value. `Store` is the switch.
  - `strtol`'s `long` goes into an `int` (`-b`), a `size_t` (`-B`, `-Q`) or
    an `unsigned int` (`-j`).
  - `-c` goes through the compressor registry.
  - `-X` and `-d` keep their argument.
  - The other options set a flag.
- `ParseReject`: `-B` below 1024, or `-c` naming no built-in compressor.
  Either one exits with failure.
- `ParseHelp`: `-h` or `-V`.
- `ParseError`: a `'?'` from `getopt_long`.
- `ParseOverrun`: the undefined read past `long_opts`. It either faults or
  finds a NULL name.
- `ParseEnd`: the -1 result. It applies the defaults, then `-X help`, then
  the operand checks.

**Abstractions.**
- `strtol` is modelled by what it does on signs and digits, including the
  octal prefix of base 0.
- `int` and `unsigned int` have `UIntWidth` = 4 bits and `size_t` has
  `SizeWidth` = 5. So 8 plays the part of 2^31, and -1 stored in a `size_t`
  becomes 31.
- The 1024 minimum of `-B` is scaled to 8.
- The compressor registry (`sqfs_compressor_id_from_name`,
  `sqfs_compressor_exists`) is not in `src/`. It is a constant map: `g` is
  built in, `l` is known but not built, and any other name is unknown.

**Reference.** `RefFrom`, `RefLong` and `RefShort` read an argument vector
as a grammar: POSIX short option groups, `--name[=arg]`, `--` and `-`, with
no permutation. The short options are the real `short_opts`. The long table
is cut to `--J` (`-j`) and `--S` (`-s`).

| Run | Config | Expect | What it shows |
|---|---|---|---|
| getopt | `GetOpt.cfg` | pass | Every vector of up to 3 tokens from 30 (86,903 states). The tokens cover groups, attached and detached arguments, long options with and without `=`, unknown options, operands, `-B` below and at the minimum, every compressor case, `-X help`, `-V` and the flags. `process_args` acts on exactly the options the reference reads. It stops at `-h`, `-V` or a rejected `-B` or `-c`. It exits 0 on `-X help`. It returns exactly for valid vectors with one operand. Under weak fairness it always returns or exits (`Terminates`). |
| getopt_sizes | `GetOpt_sizes.cfg` | violation | `-j 8` (2^31 at full width) makes `max_backlog = 10 * num_jobs` wrap to 0, so `max_backlog` is not the 10 x 8 the spec gives, and the data writer gets a queue bound of 0. `-j -1` gives `num_jobs` = 15 (`UINT_MAX`) instead of the 1 a value below 1 is raised to. `-B -1` gives `devblksize` = `SIZE_MAX`, which passes the `< 1024` check. TLC reports the `-j` trace first. The `-B` trace was reproduced by restricting `Args` to `{-B-1, 1}`. |
| getopt_overrun | `GetOpt_overrun.cfg` | violation | `--Z` sends the long option search past the end of `long_opts`. |

### PathSep (`PathSep.tla`)

**Operators.** `IsPathSep` is the `__is_path_sep` macro of the non-Windows
build, where `__is_windows_path_sep` is `false`. `SkipFrom` and `NextFrom`
are the two `for` loops, with their `continue` and early `return`; a
pointer is a 1-based index and `Len(s) + 1` is the NUL. The only variable
is the input string, chosen from every string of up to 3 characters over
`/` and `a`; the helpers change nothing.

**Reference.** `FirstNonSep` and `FirstSep`: the first character that is
not `/`, and the first that is.

| Run | Config | Expect | What it shows |
|---|---|---|---|
| pathsep | `PathSep.cfg` | violation | `__is_path_sep(c)` is `c == '/' && false`, so no character is a separator: `skip_path_seps("/")` returns the `/` and `next_path_sep` always runs to the NUL. |

## 4. Fairness

Only `GetOpt` assumes fairness: `Fairness == WF_vars(Next)`. `process_args`
runs alone on the main thread, and every `getopt_long` call returns. So while
the loop has not exited it keeps taking steps, and that is weak fairness of
`Next`. Nothing stronger is assumed.

`Terminates == <>(phase # "parse")` is the property this fairness supports.
It is not true by the shape of the model. `getopt` returns `'?'` for an
unknown option without advancing `optind` or resetting `current`
(`getopt.c:62`), so a loop that went on after `'?'` would get the same
option forever. The mutant `ParseErrorContinues` is that loop. TLC finds it
stuttering forever in `"parse"`.

The other modules state safety only: invariants, and the refinement
`ImplementsIngest`. They are sequential code with no waiting, so they give
liveness nothing more to say than that the function returns.

The configurations set `CHECK_DEADLOCK FALSE` because each model ends when
its function returns: the loop returns, `main` exits, `process_args` returns
or calls `exit`. A final state has no successor by design.

## 5. Not modelled

- The tar decoder, fstree internals, data writer, metadata and directory
  writers, compressors, xattr table and file sink. Their code is not in
  `src/`. The models use their contracts from the spec:
  - `read_header`, `skip_entry` and `skip_padding` for the stream layout;
  - `sqfs_id_table_id_to_index`;
  - the metadata writer's block arithmetic;
  - `gen_inode_table`'s numbering order;
  - `padd_sqfs`.
- In the serialiser, the inode fields copied unchanged from the node:
  `link_count`, `xattr_idx`, `mod_time` and the permission bits. No code
  path changes them between the node and the inode.
- The usage and version texts of `-h` and `-V`, and the content of the
  `-X` and `-d` strings. Those strings are parsed by the compressor and the
  fstree, whose code is not in `src/`.
- The Windows build of the path separator helpers: its
  `__is_windows_path_sep` is not a valid statement expression.
- Which node `fstree_add_generic` returns for a path that already exists or
  for a hard link, and whether it refreshes that node's file size.
  `write_file` drains `fi->size` from that node. The model takes the size
  from the header, following the spec's "replaces the old attributes"; what
  the fstree really does is code outside `src/`.
- What `id_table_write`'s conversion back to host order protects: `main`
  does not read the id table after writing it, so the model keeps the
  in-memory table but checks no property of it.
- `block_size` from `-b` is stored unchecked; the check the spec asks for
  belongs to `sqfs_super_init` and the data writer, outside `src/`.
- Progress output, help text and statistics: these are formatting only.
