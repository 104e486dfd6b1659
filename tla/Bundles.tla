------------------------------ MODULE Bundles ------------------------------
(***************************************************************************)
(* Bundles of skill versions (mcp_server/bundles.py): the skill_files      *)
(* index in the database and the bytes, inline in the index rows or in an  *)
(* S3 object store that no transaction covers.  A request is a sequence of *)
(* SQL statements and S3 calls; several workers run requests concurrently, *)
(* and a request may fail between any two of its calls.                    *)
(*                                                                         *)
(* stained is a history variable: the versions where a request failed half *)
(* way, or overlapped another writer, since the last replacement that did  *)
(* neither.  The properties are about the others.                          *)
(***************************************************************************)
EXTENDS Integers, FiniteSets, FiniteSetsExt

CONSTANTS
  Pk,          \* primary keys of skill versions
  Path,        \* file paths in sorted order
  Content,     \* file contents, standing for their size and sha256 too
  Archives,    \* what clients upload, as extract_archive returns it
  Backends,    \* values MCP_BUNDLE_STORE may have
  Worker,      \* request-serving threads, over all replicas
  None

Files == [Path -> Content \cup {None}]
Empty == [x \in Path |-> None]
Present(files) == {x \in Path : files[x] # None}

ASSUME PathsAreSorted     == Path \subseteq Nat
ASSUME NoneIsNoContent    == None \notin Content \cup Pk
ASSUME ArchivesAreFull    == Archives \subseteq Files \ {Empty}
ASSUME BackendsAreKnown   == Backends \subseteq {"inline", "s3"}

VARIABLES
  backend,     \* the store in use, chosen at deployment
  live,        \* skill versions that exist
  index,       \* index[k]: skill_files rows of version k, with their sha256
  objects,     \* objects[k]: S3 objects under the prefix of version k
  stained,
  w            \* w[p]: the request worker p is serving

vars == <<backend, live, index, objects, stained, w>>
stored == <<backend, live, index, objects, stained>>

\* k, the version written (None for a download); src, the version read; files, the
\* archive or the source rows; todo, paths not yet transferred; listed, keys found
\* by the S3 listing; snap, the rows the running DELETE has seen; gone, rows it has
\* deleted and locked; got, what a download has read; alone, whether no other
\* request has written k or src meanwhile.
Idle == [pc |-> "idle", op |-> None, k |-> None, src |-> None, files |-> Empty,
         todo |-> {}, listed |-> {}, snap |-> {}, gone |-> {}, got |-> Empty,
         alone |-> TRUE]

Requests ==
  [pc : {"idle", "list", "wipe", "see", "lock", "read", "fill", "fetch"},
   op : {None, "upload", "copy", "delete", "download"},
   k : Pk \cup {None}, src : Pk \cup {None}, files : Files, todo : SUBSET Path,
   listed : SUBSET Path, snap : SUBSET Path, gone : SUBSET Path, got : Files,
   alone : BOOLEAN]

TypeOK ==
  /\ backend \in {"inline", "s3"} /\ live \subseteq Pk /\ stained \subseteq Pk
  /\ index \in [Pk -> Files] /\ objects \in [Pk -> Files]
  /\ w \in [Worker -> Requests]

Init ==
  /\ backend \in Backends
  /\ live = Pk /\ stained = {}
  /\ index = [k \in Pk |-> Empty] /\ objects = [k \in Pk |-> Empty]
  /\ w = [p \in Worker |-> Idle]

-----------------------------------------------------------------------------
At(p, pc)   == w[p].pc = pc
Put(p, rec) == w' = [w EXCEPT ![p] = rec] /\ UNCHANGED stored
Touched(q)  == {w[q].k, w[q].src} \ {None}

\* A request is disturbed by a writer of a version it reads or writes.
Begin(p, rec) ==
  LET mine  == {rec.k, rec.src} \ {None}
      alone == \A q \in Worker \ {p} : w[q].k \notin mine
  IN /\ At(p, "idle")
     /\ w' = [q \in Worker |->
          IF q = p THEN [rec EXCEPT !.alone = alone]
          ELSE [w[q] EXCEPT !.alone = @ /\ rec.k \notin Touched(q)]]
     /\ UNCHANGED stored

\* p ends having deleted the rows in rows of version k: a DELETE of another
\* worker that has seen them and waits finds them gone.
Ended(p, k, rows) ==
  w' = [q \in Worker |->
    IF q = p THEN Idle
    ELSE IF w[q].k = k THEN [w[q] EXCEPT !.snap = @ \ rows]
    ELSE w[q]]

\* A call fails: the transaction rolls back, the S3 store keeps what was done.
Fail(p) ==
  /\ w' = [w EXCEPT ![p] = Idle]
  /\ stained' = IF backend = "s3" /\ w[p].pc \in {"see", "lock", "read", "fill"}
                THEN stained \cup {w[p].k} ELSE stained
  /\ UNCHANGED <<backend, live, index, objects>>

-----------------------------------------------------------------------------
(* put_files, copy_all and delete_all.                                     *)

FirstStep == IF backend = "s3" THEN "list" ELSE "see"

Upload(p, k, files) ==
  /\ k \in live
  /\ Begin(p, [Idle EXCEPT !.pc = FirstStep, !.op = "upload", !.k = k, !.files = files,
               !.todo = IF backend = "s3" THEN Present(files) ELSE {}])

Copy(p, src, k) ==
  /\ {src, k} \subseteq live
  /\ Begin(p, [Idle EXCEPT !.pc = FirstStep, !.op = "copy", !.k = k, !.src = src])

Delete(p, k) ==
  /\ k \in live
  /\ Begin(p, [Idle EXCEPT !.pc = FirstStep, !.op = "delete", !.k = k])

\* _delete_objects_under: list, then delete what was listed.
List(p) ==
  /\ At(p, "list")
  /\ Put(p, [w[p] EXCEPT !.pc = "wipe", !.listed = Present(objects[w[p].k])])

Without(files, paths) == [x \in Path |-> IF x \in paths THEN None ELSE files[x]]

\* The variant wipes only what is about to be written again.
WipeOverwritten(p) ==
  /\ At(p, "wipe")
  /\ objects' = [objects EXCEPT ![w[p].k] = Without(@, w[p].listed \cap w[p].todo)]
  /\ w' = [w EXCEPT ![p].pc = "see", ![p].listed = {}]
  /\ UNCHANGED <<backend, live, index, stained>>

Wipe(p) ==
  /\ At(p, "wipe")
  /\ objects' = [objects EXCEPT ![w[p].k] = Without(@, w[p].listed)]
  /\ w' = [w EXCEPT ![p].pc = "see", ![p].listed = {}]
  /\ UNCHANGED <<backend, live, index, stained>>

\* DELETE FROM skill_files: the statement sees the rows committed when it starts,
\* and waits for those another transaction has deleted.
See(p) ==
  /\ At(p, "see")
  /\ Put(p, [w[p] EXCEPT !.pc = "lock", !.snap = Present(index[w[p].k])])

HeldByOthers(p) == UNION {w[q].gone : q \in {q \in Worker \ {p} : w[q].k = w[p].k}}

Lock(p) ==
  /\ At(p, "lock") /\ w[p].snap \cap HeldByOthers(p) = {}
  /\ Put(p, [w[p] EXCEPT !.gone = w[p].snap, !.snap = {},
             !.pc = IF w[p].op = "copy" THEN "read" ELSE "fill"])

\* The rows of the source, less those the request itself has deleted.  The variant
\* asks for the rows of the destination, which it has just deleted.
SourceRowsOfDestination(p) == Without(index[w[p].k], w[p].gone)
SourceRows(p) ==
  IF w[p].src = w[p].k THEN Without(index[w[p].k], w[p].gone) ELSE index[w[p].src]

Read(p) ==
  /\ At(p, "read")
  /\ Put(p, [w[p] EXCEPT !.pc = "fill", !.files = SourceRows(p),
             !.todo = IF backend = "s3" THEN Present(SourceRows(p)) ELSE {}])

\* put_object, in the order of the archive; copy_object, in that of the query,
\* which fails (NoSuchKey) when the source has a row and no object.
Turn(p) == IF w[p].op = "upload" THEN {Min(w[p].todo)} ELSE w[p].todo
Bytes(p, x) == IF w[p].op = "upload" THEN w[p].files[x] ELSE objects[w[p].src][x]

Transfer(p, x) ==
  /\ At(p, "fill") /\ w[p].todo # {} /\ x \in Turn(p)
  /\ IF Bytes(p, x) = None THEN Fail(p)
     ELSE /\ objects' = [objects EXCEPT ![w[p].k][x] = Bytes(p, x)]
          /\ w' = [w EXCEPT ![p].todo = @ \ {x}]
          /\ UNCHANGED <<backend, live, index, stained>>

\* Whether the version is in order again once p commits.
Clean(p) == w[p].alone /\ w[p].src \notin stained

\* The flush and the commit: an insert waits for a row of its key being deleted,
\* and fails on one that is there, or when the version is gone.
CanInsert(p) ==
  /\ Present(w[p].files) # {} => w[p].k \in live
  /\ Present(w[p].files) \cap (Present(index[w[p].k]) \ w[p].gone) = {}

\* One variant forgets to delete the old rows, the other records the hash of the
\* placeholder kept in the row.
RowsAfterHashingRow(p) ==
  [x \in Path |-> IF w[p].files[x] # None THEN "" ELSE None]
RowsAfterKeeping(p) ==
  [x \in Path |-> IF w[p].files[x] # None THEN w[p].files[x] ELSE index[w[p].k][x]]
RowsAfter(p) ==
  [x \in Path |-> IF w[p].files[x] # None THEN w[p].files[x]
                  ELSE IF x \in w[p].gone THEN None ELSE index[w[p].k][x]]

Commit(p) ==
  /\ At(p, "fill") /\ w[p].todo = {}
  /\ Present(w[p].files) \cap HeldByOthers(p) = {}
  /\ IF ~CanInsert(p) THEN Fail(p)
     ELSE /\ index' = [index EXCEPT ![w[p].k] = RowsAfter(p)]
          /\ stained' = IF Clean(p) THEN stained \ {w[p].k} ELSE stained \cup {w[p].k}
          /\ Ended(p, w[p].k, w[p].gone)
          /\ UNCHANGED <<backend, live, objects>>

-----------------------------------------------------------------------------
(* build_targz: the listing, then each file's row and bytes.  A file       *)
(* without row or object is left out.                                      *)

Download(p, k) ==
  /\ k \in live
  /\ Begin(p, [Idle EXCEPT !.pc = "fetch", !.op = "download", !.src = k,
               !.todo = Present(index[k])])

\* The bytes of a file as read_file returns them.  The variant looks into the object
\* store whatever the backend.
ServedFromStore(k, x) == objects[k][x]
Served(k, x) ==
  IF index[k][x] = None THEN None
  ELSE IF backend = "s3" THEN objects[k][x] ELSE index[k][x]

Fetch(p) ==
  LET x == Min(w[p].todo)
  IN /\ At(p, "fetch") /\ w[p].todo # {}
     /\ Put(p, [w[p] EXCEPT !.todo = @ \ {x},
                !.got[x] = Served(w[p].src, x)])

Respond(p) ==
  /\ At(p, "fetch") /\ w[p].todo = {}
  /\ Put(p, Idle)

-----------------------------------------------------------------------------
\* Deleting a version cascades to its rows, waiting for those that are locked; its
\* objects stay.
DropVersion(k) ==
  /\ k \in live
  /\ \A q \in Worker : w[q].k = k => w[q].gone = {}
  /\ live' = live \ {k}
  /\ index' = [index EXCEPT ![k] = Empty]
  /\ w' = [q \in Worker |->
       IF k \in Touched(q) THEN [w[q] EXCEPT !.alone = FALSE, !.snap = {}] ELSE w[q]]
  /\ UNCHANGED <<backend, objects, stained>>

\* A new version gets a key never used before, hence an empty prefix.  A key that
\* nothing refers to any more stands for it here.
CreateVersion(k) ==
  /\ k \notin live /\ \A q \in Worker : k \notin Touched(q)
  /\ live' = live \cup {k}
  /\ objects' = [objects EXCEPT ![k] = Empty]
  /\ stained' = stained \ {k}
  /\ UNCHANGED <<backend, index, w>>

\* The worker dies, or a statement or an S3 call raises.
Abort(p) == ~At(p, "idle") /\ Fail(p)

Next ==
  \/ \E p \in Worker, k \in Pk :
       \/ \E files \in Archives : Upload(p, k, files)
       \/ \E src \in Pk : Copy(p, src, k)
       \/ Delete(p, k) \/ Download(p, k)
  \/ \E p \in Worker :
       \/ List(p) \/ Wipe(p) \/ See(p) \/ Lock(p) \/ Read(p)
       \/ \E x \in w[p].todo : Transfer(p, x)
       \/ Commit(p) \/ Fetch(p) \/ Respond(p) \/ Abort(p)
  \/ \E k \in Pk : DropVersion(k) \/ CreateVersion(k)

Spec == Init /\ [][Next]_vars

-----------------------------------------------------------------------------
(* Properties.                                                             *)

Quiet(k)   == \A p \in Worker : w[p].k # k
InOrder(k) == k \in live \ stained

\* A bundle is replaced as a whole: unless a request on it failed half way or
\* overlapped another, its rows are those of one uploaded archive, or none.
WholeBundles == \A k \in Pk : InOrder(k) => index[k] \in Archives \cup {Empty}

\* No drift: then the object store also holds exactly the files of the index, with
\* the bytes whose hash the index records, and no orphans.
IndexMatchesStore ==
  \A k \in Pk : InOrder(k) /\ Quiet(k) /\ backend = "s3" => objects[k] = index[k]

\* A download that no writer overlaps is the bundle, whole.
FaithfulDownloads ==
  [][\A p \in Worker :
       (At(p, "fetch") /\ w[p].todo = {} /\ w'[p] = Idle
          /\ w[p].alone /\ InOrder(w[p].src)) => w[p].got = index[w[p].src]]_vars

\* A copy from another version that no writer overlaps makes the destination equal
\* to what the source is when it commits, from either store.  Without src # k this is
\* what copy_bundle_endpoint promises, and false: a version copied onto itself is
\* wiped before it is read.
CopiesAreFaithful ==
  [][\A p \in Worker :
       (w[p].op = "copy" /\ w[p].src # w[p].k /\ Clean(p) /\ CanInsert(p) /\ Commit(p)) =>
         index'[w[p].k] = index[w[p].src]]_vars
=============================================================================
