--------------------------- MODULE IngestAbstract ---------------------------
(***************************************************************************)
(* What the tar ingest loop of tar2sqfs promises, without the byte stream. *)
(* The archive is a sequence of decoded records.  The loop takes them one *)
(* at a time, in order.  A well-formed record becomes a node of the tree, *)
(* replacing an earlier node of the same name but keeping its xattrs; a   *)
(* malformed one is dropped, or under --no-skip ends the ingest with an   *)
(* error.  A regular file's node holds the body of its own record.  The   *)
(* ingest may fail at any point (memory, I/O); a failure while adding a   *)
(* well-formed record may leave its node in with part of its xattrs.     *)
(* Offsets, padding and the decoder are not visible here: the TarIngest *)
(* module refines this one.                                               *)
(***************************************************************************)
EXTENDS Integers, Sequences, SequencesExt

CONSTANTS Names, BadName, Keys, SupportedKeys, RecordShapes, MaxRecords,
          DontSkip, NoXattr, KeepTime, DefaultMtime

NoData == -1

VARIABLES
  archive,  \* the records on standard input
  taken,    \* how many records the loop has taken so far
  status,   \* "ready" for the next record, "decide" on record taken,
            \* or "done" / "failed" once the ingest has returned
  tree      \* entry name -> [rec, mtime, xattrs, data]; data is the index
            \* of the record whose body the node holds, or NoData

avars == <<archive, taken, status, tree>>

(* A record belongs in the image iff its name is valid, its type known    *)
(* and, if it is sparse, its extents ascend without overlap and add up to *)
(* its stored body, all as unbounded integers.                            *)
ExtentsOrdered(r) ==
  /\ \A k \in 1 .. Len(r.sparse) - 1 :
       r.sparse[k].offset + r.sparse[k].count <= r.sparse[k + 1].offset
  /\ FoldLeft(LAMBDA acc, e : acc + e.count, 0, r.sparse) = r.recsize

WellFormed(r) ==
  /\ r.name \in Names
  /\ ~r.unknown
  /\ r.sparse # <<>> => ExtentsOrdered(r)

Encodable(r) == NoXattr \/ r.xattrs \subseteq SupportedKeys

\* The node record i becomes when added to tree t.
Node(t, i) ==
  LET r == archive[i] IN
  [rec    |-> i,
   mtime  |-> IF KeepTime THEN r.mtime ELSE DefaultMtime,
   xattrs |-> (IF NoXattr THEN {} ELSE r.xattrs \cap SupportedKeys)
                \cup (IF r.name \in DOMAIN t THEN t[r.name].xattrs ELSE {}),
   data   |-> IF r.reg THEN i ELSE NoData]

\* The node of record i with only some of its new xattrs.
PartialNodes(t, i) ==
  LET nd    == Node(t, i)
      prior == IF archive[i].name \in DOMAIN t THEN t[archive[i].name].xattrs
               ELSE {}
  IN {[nd EXCEPT !.xattrs = prior \cup x] : x \in SUBSET nd.xattrs}

Init ==
  /\ archive \in UNION {[1 .. n -> RecordShapes] : n \in 0 .. MaxRecords}
  /\ taken = 0
  /\ status = "ready"
  /\ tree = <<>>

Take ==
  /\ status = "ready"
  /\ taken < Len(archive)
  /\ taken' = taken + 1
  /\ status' = "decide"
  /\ UNCHANGED <<archive, tree>>

Keep ==
  /\ status = "decide"
  /\ WellFormed(archive[taken])
  /\ DontSkip => Encodable(archive[taken])
  /\ tree' = (archive[taken].name :> Node(tree, taken)) @@ tree
  /\ status' = "ready"
  /\ UNCHANGED <<archive, taken>>

Drop ==
  /\ status = "decide"
  /\ ~WellFormed(archive[taken])
  /\ ~DontSkip
  /\ status' = "ready"
  /\ UNCHANGED <<archive, taken, tree>>

Finish ==
  /\ status = "ready"
  /\ taken = Len(archive)
  /\ status' = "done"
  /\ UNCHANGED <<archive, taken, tree>>

Fail ==
  /\ status \in {"ready", "decide"}
  /\ status' = "failed"
  /\ \/ UNCHANGED tree
     \/ /\ status = "decide"
        /\ WellFormed(archive[taken])
        /\ \E nd \in PartialNodes(tree, taken) :
             tree' = (archive[taken].name :> nd) @@ tree
  /\ UNCHANGED <<archive, taken>>

Next == Take \/ Keep \/ Drop \/ Finish \/ Fail

Spec == Init /\ [][Next]_avars
=============================================================================
