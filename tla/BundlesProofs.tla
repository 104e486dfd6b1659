--------------------------- MODULE BundlesProofs ---------------------------
(***************************************************************************)
(* What Bundles guarantees for any number of workers, versions, paths and  *)
(* archives, with either store.  The argument is about requests that are   *)
(* alone on the versions they touch: what such a request has seen, deleted *)
(* or transferred is still what the tables and the object store hold, so   *)
(* its commit leaves the version in order.  Every other commit, and every  *)
(* failure past the wipe, stains the version it writes.                    *)
(***************************************************************************)
EXTENDS Bundles, TLAPS

Writing == {"list", "wipe", "see", "lock", "read", "fill"}

Holds(p, pcs) == w[p].pc \in pcs
Alone(p)      == w[p].alone /\ ~At(p, "idle")

\* What a request carries, by its operation and how far it has come.
Shaped(p) ==
  /\ At(p, "idle") => w[p].k = None /\ w[p].src = None
  /\ At(p, "fetch") => w[p].op = "download" /\ w[p].k = None /\ w[p].src \in Pk
  /\ Holds(p, Writing) => w[p].k \in Pk /\ w[p].op \in {"upload", "copy", "delete"}
  /\ Holds(p, Writing) /\ w[p].op # "copy" => w[p].src = None
  /\ Holds(p, Writing) /\ w[p].op = "upload" => w[p].files \in Archives
  /\ Holds(p, Writing) /\ w[p].op = "delete" => w[p].files = Empty /\ w[p].todo = {}
  /\ Holds(p, Writing \ {"fill"}) /\ w[p].op # "copy" /\ backend = "s3" =>
       w[p].todo = Present(w[p].files)
  /\ Holds(p, Writing) /\ w[p].op = "copy" => w[p].src \in Pk
  /\ At(p, "read") => w[p].op = "copy"

\* Nobody writes what a lone request reads or writes, and its versions exist.
Exclusive(p) ==
  Alone(p) => /\ Touched(p) \subseteq live
              /\ \A q \in Worker \ {p} : w[q].k \notin Touched(p)

\* What a lone writer has seen of its version still holds.
Knows(p) ==
  Alone(p) =>
    /\ At(p, "wipe") => w[p].listed = Present(objects[w[p].k])
    /\ At(p, "lock") => w[p].snap = Present(index[w[p].k])
    /\ Holds(p, {"read", "fill"}) => w[p].gone = Present(index[w[p].k])
    /\ Holds(p, {"see", "lock", "read"}) /\ backend = "s3" => objects[w[p].k] = Empty

\* What a lone writer has read and transferred is its source.
Transferred(p) ==
  Alone(p) /\ At(p, "fill") =>
    /\ w[p].op = "copy" =>
         w[p].files = IF w[p].src = w[p].k THEN Empty ELSE index[w[p].src]
    /\ w[p].src \notin stained /\ backend = "s3" =>
         objects[w[p].k] = Without(w[p].files, w[p].todo)

\* What a lone download has read is a part of the bundle.
Fetched(p) ==
  Alone(p) /\ At(p, "fetch") /\ w[p].src \notin stained =>
    w[p].got = Without(index[w[p].src], w[p].todo)

\* A deleted version has no rows.
NoRowsLeft == \A k \in Pk \ live : index[k] = Empty

\* The store of a version in order is its index until a writer wipes it.
Unwiped(k) == \A q \in Worker : w[q].k = k => Holds(q, {"list", "wipe"})
Matching ==
  \A k \in Pk : InOrder(k) /\ Unwiped(k) /\ backend = "s3" => objects[k] = index[k]

Sound(p)   == Shaped(p) /\ Exclusive(p) /\ Knows(p) /\ Transferred(p) /\ Fetched(p)
Requesting == \A p \in Worker : Sound(p)

IInv == TypeOK /\ Requesting /\ NoRowsLeft /\ WholeBundles /\ Matching

-----------------------------------------------------------------------------
(* The rows of a bundle.                                                   *)

LEMMA NoneIsApart == None \notin Pk /\ None \notin Content
BY NoneIsNoContent

LEMMA EmptyIsFiles == Empty \in Files /\ Present(Empty) = {}
BY DEF Empty, Files, Present

LEMMA ArchivesAreFiles == Archives \subseteq Files
BY ArchivesAreFull

LEMMA RowsArePresent ==
  ASSUME NEW f \in Files
  PROVE  Present(f) \in SUBSET Path
BY DEF Present

LEMMA WithoutIsFiles ==
  ASSUME NEW f \in Files, NEW X
  PROVE  Without(f, X) \in Files
BY DEF Without, Files

LEMMA WithoutNothing ==
  ASSUME NEW f \in Files
  PROVE  Without(f, {}) = f
BY DEF Without, Files

LEMMA WithoutAll ==
  ASSUME NEW f \in Files
  PROVE  Without(f, Present(f)) = Empty
BY DEF Without, Files, Present, Empty

-----------------------------------------------------------------------------
(* What a step leaves as it was.                                           *)

Same(q) ==
  /\ w'[q].pc = w[q].pc /\ w'[q].op = w[q].op /\ w'[q].k = w[q].k
  /\ w'[q].src = w[q].src /\ w'[q].files = w[q].files /\ w'[q].todo = w[q].todo

Untouched(k) ==
  /\ index'[k] = index[k] /\ objects'[k] = objects[k]
  /\ (k \in live => k \in live') /\ (k \in stained => k \in stained')

\* A request stays sound when others act, unless one of them begins to write what
\* it touches, which ends its being alone.
LEMMA Bystander ==
  ASSUME IInv, NEW q \in Worker, Same(q), backend' = backend,
         w'[q].alone =>
           /\ w'[q] = w[q] /\ \A k \in Touched(q) : Untouched(k)
           /\ \A r \in Worker \ {q} : w'[r].k = w[r].k \/ w'[r].k \notin Touched(q)
  PROVE  Sound(q)'
<1>1. Sound(q)
  BY DEF IInv, Requesting
<1>2. Shaped(q)'
  BY <1>1 DEF Sound, Shaped, Same, At, Holds
<1>3. CASE ~w'[q].alone
  BY <1>2, <1>3 DEF Sound, Exclusive, Knows, Transferred, Fetched, Alone
<1>4. CASE w'[q].alone
  <2>1. /\ w'[q] = w[q] /\ \A k \in Touched(q) : Untouched(k)
        /\ \A r \in Worker \ {q} : w'[r].k = w[r].k \/ w'[r].k \notin Touched(q)
    BY <1>4
  <2>2. Exclusive(q)'
    BY <1>1, <2>1 DEF Sound, Exclusive, Alone, At, Touched, Untouched
  <2>3. Touched(q) = {w[q].k, w[q].src} \ {None}
    BY DEF Touched
  <2>4. Holds(q, Writing) => w[q].k \in Touched(q)
    BY <1>1, <2>3, NoneIsApart DEF Sound, Shaped, Holds
  <2>5. (Holds(q, Writing) /\ w[q].op = "copy") \/ At(q, "fetch") => w[q].src \in Touched(q)
    BY <1>1, <2>3, NoneIsApart DEF Sound, Shaped, Holds, At
  <2>6. Knows(q)'
    BY <1>1, <2>1, <2>4 DEF Sound, Knows, Alone, At, Holds, Untouched, Writing
  <2>7. w[q].src \in Touched(q) \/ w[q].src = None
    BY <2>3
  <2>8. Transferred(q)'
    BY <1>1, <2>1, <2>4, <2>5, <2>7, NoneIsApart
    DEF Sound, Shaped, Transferred, Alone, At, Holds, Untouched, Writing, IInv, TypeOK
  <2>9. Fetched(q)'
    BY <1>1, <2>1, <2>5 DEF Sound, Fetched, Alone, At, Untouched
  <2> QED
    BY <1>2, <2>2, <2>6, <2>8, <2>9 DEF Sound
<1> QED
  BY <1>3, <1>4

LEMMA IdleIsSound ==
  ASSUME NEW p \in Worker, w'[p] = Idle
  PROVE  Sound(p)'
BY DEF Sound, Shaped, Exclusive, Knows, Transferred, Fetched, Alone, At, Holds, Idle, Writing

LEMMA IdleIsRequest == Idle \in Requests
BY EmptyIsFiles DEF Idle, Requests

-----------------------------------------------------------------------------
(* Typing.                                                                 *)

LEMMA PutKeepsTypes ==
  ASSUME TypeOK, NEW p \in Worker, NEW rec \in Requests, w' = [w EXCEPT ![p] = rec]
  PROVE  w' \in [Worker -> Requests]
BY DEF TypeOK

LEMMA BeginKeepsTypes ==
  ASSUME TypeOK, NEW p \in Worker, NEW rec \in Requests, Begin(p, rec)
  PROVE  TypeOK'
<1>1. ASSUME NEW q \in Worker
      PROVE  w'[q] \in Requests
  <2>1. w[q] \in Requests
    BY DEF TypeOK
  <2> QED
    BY <2>1 DEF Begin, Requests
<1>2. w' \in [Worker -> Requests]
  BY <1>1 DEF Begin
<1> QED
  BY <1>2 DEF Begin, stored, TypeOK

LEMMA FailKeepsTypes ==
  ASSUME TypeOK, NEW p \in Worker, Shaped(p), Fail(p)
  PROVE  TypeOK'
<1>1. w' \in [Worker -> Requests]
  BY IdleIsRequest, PutKeepsTypes DEF Fail
<1>2. w[p].pc \in {"see", "lock", "read", "fill"} => w[p].k \in Pk
  BY DEF Shaped, Holds, Writing
<1> QED
  BY <1>1, <1>2 DEF Fail, TypeOK

LEMMA RowsAfterAreFiles ==
  ASSUME TypeOK, NEW p \in Worker, w[p].k \in Pk
  PROVE  RowsAfter(p) \in Files
<1>1. w[p].files \in Files /\ index[w[p].k] \in Files
  BY DEF TypeOK, Requests
<1> QED
  BY <1>1 DEF RowsAfter, Files

LEMMA CommitKeepsTypes ==
  ASSUME TypeOK, NEW p \in Worker, Shaped(p), Commit(p)
  PROVE  TypeOK'
<1>1. CASE ~CanInsert(p)
  BY <1>1, FailKeepsTypes DEF Commit
<1>2. CASE CanInsert(p)
  <2>1. w[p].k \in Pk
    BY DEF Commit, Shaped, Holds, Writing, At
  <2>2. RowsAfter(p) \in Files
    BY <2>1, RowsAfterAreFiles
  <2>3. ASSUME NEW q \in Worker
        PROVE  w'[q] \in Requests
    <3>1. w[q] \in Requests
      BY DEF TypeOK
    <3> QED
      BY <1>2, <3>1, IdleIsRequest DEF Commit, Ended, Requests
  <2>4. w' \in [Worker -> Requests]
    BY <1>2, <2>3 DEF Commit, Ended
  <2> QED
    BY <1>2, <2>1, <2>2, <2>4 DEF Commit, TypeOK
<1> QED
  BY <1>1, <1>2

LEMMA SourceRowsAreFiles ==
  ASSUME TypeOK, NEW p \in Worker, w[p].k \in Pk, w[p].src \in Pk
  PROVE  SourceRows(p) \in Files
BY WithoutIsFiles DEF SourceRows, TypeOK

LEMMA ServedIsContent ==
  ASSUME TypeOK, NEW k \in Pk, NEW x \in Path
  PROVE  Served(k, x) \in Content \cup {None}
BY DEF Served, TypeOK, Files

LEMMA BytesAreContent ==
  ASSUME TypeOK, NEW p \in Worker, NEW x \in w[p].todo, Shaped(p), At(p, "fill")
  PROVE  x \in Path /\ Bytes(p, x) \in Content \cup {None}
<1>1. w[p].todo \in SUBSET Path /\ w[p].files \in Files
  BY DEF TypeOK, Requests
<1>2. w[p].op = "upload" \/ (w[p].op = "copy" /\ w[p].src \in Pk)
  BY DEF Shaped, Holds, At, Writing
<1> QED
  BY <1>1, <1>2 DEF Bytes, TypeOK, Files

LEMMA TransferKeepsTypes ==
  ASSUME TypeOK, NEW p \in Worker, NEW x \in w[p].todo, Shaped(p), Transfer(p, x)
  PROVE  TypeOK'
<1>1. x \in Path /\ Bytes(p, x) \in Content \cup {None}
  BY BytesAreContent DEF Transfer
<1>2. CASE Bytes(p, x) = None
  BY <1>2, FailKeepsTypes DEF Transfer
<1>3. CASE Bytes(p, x) # None
  <2>1. w[p].k \in Pk
    BY DEF Transfer, Shaped, Holds, Writing, At
  <2>2. [objects[w[p].k] EXCEPT ![x] = Bytes(p, x)] \in Files
    BY <1>1, <2>1 DEF TypeOK, Files
  <2>3. objects' \in [Pk -> Files]
    BY <1>3, <2>1, <2>2 DEF Transfer, TypeOK
  <2>4. [w[p] EXCEPT !.todo = @ \ {x}] \in Requests
    BY DEF TypeOK, Requests
  <2>5. w' \in [Worker -> Requests]
    BY <1>3, <2>4, PutKeepsTypes DEF Transfer
  <2> QED
    BY <1>3, <2>3, <2>5 DEF Transfer, TypeOK
<1> QED
  BY <1>2, <1>3

LEMMA StepKeepsTypes ==
  ASSUME TypeOK, NEW p \in Worker, Shaped(p),
         List(p) \/ Wipe(p) \/ See(p) \/ Lock(p) \/ Read(p) \/ Fetch(p) \/ Respond(p)
  PROVE  TypeOK'
<1>1. w[p] \in Requests
  BY DEF TypeOK
<1>2. ASSUME NEW rec \in Requests, Put(p, rec)
      PROVE  TypeOK'
  BY <1>2, PutKeepsTypes DEF Put, stored, TypeOK
<1>3. Holds(p, Writing) => w[p].k \in Pk
  BY DEF Shaped
<1>4. CASE List(p)
  <2>1. Present(objects[w[p].k]) \in SUBSET Path
    BY <1>3, <1>4, RowsArePresent DEF List, At, Holds, Writing, TypeOK
  <2>2. [w[p] EXCEPT !.pc = "wipe", !.listed = Present(objects[w[p].k])] \in Requests
    BY <1>1, <2>1 DEF Requests
  <2> QED
    BY <1>2, <1>4, <2>2 DEF List
<1>5. CASE Wipe(p)
  <2>1. w[p].k \in Pk
    BY <1>3, <1>5 DEF Wipe, At, Holds, Writing
  <2>2. objects' \in [Pk -> Files]
    BY <1>5, <2>1, WithoutIsFiles DEF Wipe, TypeOK
  <2>3. [w[p] EXCEPT !.pc = "see", !.listed = {}] \in Requests
    BY <1>1 DEF Requests
  <2>4. w' = [w EXCEPT ![p] = [w[p] EXCEPT !.pc = "see", !.listed = {}]]
    BY <1>1, <1>5 DEF Wipe, TypeOK, Requests
  <2>5. w' \in [Worker -> Requests]
    BY <2>3, <2>4, PutKeepsTypes
  <2> QED
    BY <1>5, <2>2, <2>5 DEF Wipe, TypeOK
<1>6. CASE See(p)
  <2>1. Present(index[w[p].k]) \in SUBSET Path
    BY <1>3, <1>6, RowsArePresent DEF See, At, Holds, Writing, TypeOK
  <2>2. [w[p] EXCEPT !.pc = "lock", !.snap = Present(index[w[p].k])] \in Requests
    BY <1>1, <2>1 DEF Requests
  <2> QED
    BY <1>2, <1>6, <2>2 DEF See
<1>7. CASE Lock(p)
  <2>1. [w[p] EXCEPT !.gone = w[p].snap, !.snap = {},
           !.pc = IF w[p].op = "copy" THEN "read" ELSE "fill"] \in Requests
    BY <1>1 DEF Requests
  <2> QED
    BY <1>2, <1>7, <2>1 DEF Lock
<1>8. CASE Read(p)
  <2>1. SourceRows(p) \in Files
    BY <1>8, SourceRowsAreFiles DEF Read, At, Shaped, Holds, Writing
  <2>2. Present(SourceRows(p)) \in SUBSET Path
    BY <2>1, RowsArePresent
  <2>3. [w[p] EXCEPT !.pc = "fill", !.files = SourceRows(p),
           !.todo = IF backend = "s3" THEN Present(SourceRows(p)) ELSE {}] \in Requests
    BY <1>1, <2>1, <2>2 DEF Requests
  <2> QED
    BY <1>2, <1>8, <2>3 DEF Read
<1>9. CASE Fetch(p)
  <2> DEFINE x == Min(w[p].todo)
  <2>1. w[p].src \in Pk
    BY <1>9 DEF Fetch, At, Shaped
  <2>2. x \in Path => Served(w[p].src, x) \in Content \cup {None}
    BY <2>1, ServedIsContent
  <2> HIDE DEF x
  <2>3. [w[p].got EXCEPT ![x] = Served(w[p].src, x)] \in Files
    BY <1>1, <2>2 DEF Requests, Files
  <2>4. [w[p] EXCEPT !.todo = @ \ {x}, !.got[x] = Served(w[p].src, x)] \in Requests
    BY <1>1, <2>3 DEF Requests
  <2> QED
    BY <1>2, <1>9, <2>4 DEF Fetch, x
<1>10. CASE Respond(p)
  BY <1>2, <1>10, IdleIsRequest DEF Respond
<1> QED
  BY <1>4, <1>5, <1>6, <1>7, <1>8, <1>9, <1>10

LEMMA BegunAreRequests ==
  ASSUME TypeOK, NEW k \in live
  PROVE  /\ \A files \in Archives :
              [Idle EXCEPT !.pc = FirstStep, !.op = "upload", !.k = k, !.files = files,
                 !.todo = IF backend = "s3" THEN Present(files) ELSE {}] \in Requests
         /\ \A src \in live :
              [Idle EXCEPT !.pc = FirstStep, !.op = "copy", !.k = k, !.src = src] \in Requests
         /\ [Idle EXCEPT !.pc = FirstStep, !.op = "delete", !.k = k] \in Requests
         /\ [Idle EXCEPT !.pc = "fetch", !.op = "download", !.src = k,
               !.todo = Present(index[k])] \in Requests
<1>1. k \in Pk /\ FirstStep \in {"list", "see"}
  BY DEF TypeOK, FirstStep
<1>2. ASSUME NEW files \in Archives
      PROVE  [Idle EXCEPT !.pc = FirstStep, !.op = "upload", !.k = k, !.files = files,
                !.todo = IF backend = "s3" THEN Present(files) ELSE {}] \in Requests
  <2>1. files \in Files /\ Present(files) \in SUBSET Path
    BY ArchivesAreFiles, RowsArePresent
  <2> QED
    BY <1>1, <2>1, EmptyIsFiles DEF Idle, Requests
<1>3. ASSUME NEW src \in live
      PROVE  [Idle EXCEPT !.pc = FirstStep, !.op = "copy", !.k = k, !.src = src] \in Requests
  BY <1>1, EmptyIsFiles DEF Idle, Requests, TypeOK
<1>4. [Idle EXCEPT !.pc = FirstStep, !.op = "delete", !.k = k] \in Requests
  BY <1>1, EmptyIsFiles DEF Idle, Requests
<1>5. Present(index[k]) \in SUBSET Path
  BY <1>1, RowsArePresent DEF TypeOK
<1>6. [Idle EXCEPT !.pc = "fetch", !.op = "download", !.src = k,
         !.todo = Present(index[k])] \in Requests
  BY <1>1, <1>5, EmptyIsFiles DEF Idle, Requests
<1> QED
  BY <1>2, <1>3, <1>4, <1>6

LEMMA DropKeepsTypes ==
  ASSUME TypeOK, NEW k \in Pk, DropVersion(k)
  PROVE  TypeOK'
<1>1. ASSUME NEW q \in Worker
      PROVE  w'[q] \in Requests
  <2>1. w[q] \in Requests
    BY DEF TypeOK
  <2> QED
    BY <2>1 DEF DropVersion, Requests
<1>2. w' \in [Worker -> Requests]
  BY <1>1 DEF DropVersion
<1> QED
  BY <1>2, EmptyIsFiles DEF DropVersion, TypeOK

LEMMA CreateKeepsTypes ==
  ASSUME TypeOK, NEW k \in Pk, CreateVersion(k)
  PROVE  TypeOK'
BY EmptyIsFiles DEF CreateVersion, TypeOK

-----------------------------------------------------------------------------
(* Requests that begin.                                                    *)

LEMMA BeginIsSound ==
  ASSUME IInv, NEW p \in Worker, NEW rec \in Requests, Begin(p, rec), Shaped(p)',
         rec.pc \in {"list", "see", "fetch"}, rec.pc = "see" => backend # "s3",
         {rec.k, rec.src} \ {None} \subseteq live,
         rec.pc = "fetch" => rec.got = Empty /\ rec.todo = Present(index[rec.src])
  PROVE  IInv'
<1>1. TypeOK'
  BY BeginKeepsTypes DEF IInv
<1> DEFINE mine == {rec.k, rec.src} \ {None}
<1>2. w[p] \in Requests /\ w[p].k = None
  BY DEF IInv, TypeOK, Requesting, Sound, Shaped, Begin
<1>3. w'[p] = [rec EXCEPT !.alone = \A q \in Worker \ {p} : w[q].k \notin mine]
  BY DEF Begin
<1>4. /\ w'[p].pc = rec.pc /\ w'[p].op = rec.op /\ w'[p].k = rec.k /\ w'[p].src = rec.src
      /\ w'[p].todo = rec.todo /\ w'[p].got = rec.got
      /\ w'[p].alone = (\A q \in Worker \ {p} : w[q].k \notin mine)
  BY <1>3 DEF Requests
<1>5. ASSUME NEW q \in Worker \ {p}
      PROVE  Same(q) /\ (w'[q].alone => w'[q] = w[q] /\ rec.k \notin Touched(q))
  <2>1. w[q] \in Requests /\ w'[q] = [w[q] EXCEPT !.alone = @ /\ rec.k \notin Touched(q)]
    BY DEF Begin, IInv, TypeOK
  <2>2. CASE rec.k \in Touched(q)
    BY <2>1, <2>2 DEF Same, Requests
  <2>3. CASE rec.k \notin Touched(q)
    BY <2>1, <2>3 DEF Same, Requests
  <2> QED
    BY <2>2, <2>3
<1>6. UNCHANGED stored
  BY DEF Begin
<1>7. ASSUME NEW q \in Worker \ {p}
      PROVE  Sound(q)'
  <2>1. Same(q) /\ (w'[q].alone => w'[q] = w[q] /\ rec.k \notin Touched(q))
    BY <1>5
  <2>3. \A k \in Touched(q) : Untouched(k)
    BY <1>6 DEF stored, Untouched
  <2>4. \A r \in Worker \ {q, p} : w'[r].k = w[r].k
    BY <1>5 DEF Same
  <2> QED
    BY <1>4, <1>6, <2>1, <2>3, <2>4, Bystander DEF stored
<1>8. Sound(p)'
  <2>1. Exclusive(p)'
    <3>1. \A q \in Worker \ {p} : w'[q].k = w[q].k
      BY <1>5 DEF Same
    <3>2. Touched(p)' = mine
      BY <1>4 DEF Touched
    <3> QED
      BY <1>4, <1>6, <3>1, <3>2 DEF Exclusive, Alone, stored
  <2>2. Knows(p)' /\ Transferred(p)'
    BY <1>4, <1>6 DEF Knows, Transferred, At, Holds, stored
  <2>3. Fetched(p)'
    <3>1. CASE rec.pc = "fetch"
      <4>1. rec.src \in Pk
        BY <1>4, <3>1 DEF Shaped, At
      <4>2. Without(index[rec.src], Present(index[rec.src])) = Empty
        BY <4>1, WithoutAll DEF IInv, TypeOK
      <4> QED
        BY <1>4, <1>6, <3>1, <4>2 DEF Fetched, stored
    <3> QED
      BY <1>4, <3>1 DEF Fetched, At
  <2> QED
    BY <2>1, <2>2, <2>3 DEF Sound
<1>9. NoRowsLeft' /\ WholeBundles'
  BY <1>6 DEF IInv, NoRowsLeft, WholeBundles, InOrder, stored
<1>10. Matching'
  <2>1. ASSUME NEW k \in Pk, Unwiped(k)'
        PROVE  Unwiped(k)
    <3>1. \A q \in Worker \ {p} : w'[q].k = w[q].k /\ w'[q].pc = w[q].pc
      BY <1>5 DEF Same
    <3> QED
      BY <1>2, <2>1, <3>1, NoneIsApart DEF Unwiped, Holds
  <2> QED
    BY <1>6, <2>1 DEF IInv, Matching, InOrder, stored
<1> QED
  BY <1>1, <1>7, <1>8, <1>9, <1>10 DEF IInv, Requesting

LEMMA UploadIsSound ==
  ASSUME IInv, NEW p \in Worker, NEW k \in Pk, NEW files \in Archives, Upload(p, k, files)
  PROVE  IInv'
<1> DEFINE rec == [Idle EXCEPT !.pc = FirstStep, !.op = "upload", !.k = k, !.files = files,
                     !.todo = IF backend = "s3" THEN Present(files) ELSE {}]
<1>1. rec \in Requests
  BY BegunAreRequests DEF IInv, Upload
<1>2. /\ rec.pc = FirstStep /\ rec.op = "upload" /\ rec.k = k /\ rec.src = None
      /\ rec.files = files /\ (backend = "s3" => rec.todo = Present(files))
  BY DEF Idle
<1>3. Begin(p, rec) /\ k \in live
  BY DEF Upload
<1> HIDE DEF rec
<1>4. w'[p] = [rec EXCEPT !.alone = w'[p].alone] /\ backend' = backend
  BY <1>1, <1>3 DEF Begin, stored, Requests
<1>5. /\ w'[p].pc = rec.pc /\ w'[p].op = rec.op /\ w'[p].k = rec.k /\ w'[p].src = rec.src
      /\ w'[p].files = rec.files /\ w'[p].todo = rec.todo
  BY <1>1, <1>4 DEF Requests
<1>6. Shaped(p)'
  BY <1>2, <1>4, <1>5 DEF Shaped, At, Holds, FirstStep
<1> QED
  BY <1>1, <1>2, <1>3, <1>6, BeginIsSound DEF FirstStep

LEMMA CopyIsSound ==
  ASSUME IInv, NEW p \in Worker, NEW k \in Pk, NEW src \in Pk, Copy(p, src, k)
  PROVE  IInv'
<1> DEFINE rec == [Idle EXCEPT !.pc = FirstStep, !.op = "copy", !.k = k, !.src = src]
<1>1. rec \in Requests
  BY BegunAreRequests DEF IInv, Copy
<1>2. rec.pc = FirstStep /\ rec.op = "copy" /\ rec.k = k /\ rec.src = src
  BY DEF Idle
<1>3. Begin(p, rec) /\ {k, src} \subseteq live
  BY DEF Copy
<1> HIDE DEF rec
<1>4. w'[p] = [rec EXCEPT !.alone = w'[p].alone] /\ backend' = backend
  BY <1>1, <1>3 DEF Begin, stored, Requests
<1>5. w'[p].pc = rec.pc /\ w'[p].op = rec.op /\ w'[p].k = rec.k /\ w'[p].src = rec.src
  BY <1>1, <1>4 DEF Requests
<1>6. Shaped(p)'
  BY <1>2, <1>4, <1>5 DEF Shaped, At, Holds, FirstStep
<1> QED
  BY <1>1, <1>2, <1>3, <1>6, BeginIsSound DEF FirstStep

LEMMA DeleteIsSound ==
  ASSUME IInv, NEW p \in Worker, NEW k \in Pk, Delete(p, k)
  PROVE  IInv'
<1> DEFINE rec == [Idle EXCEPT !.pc = FirstStep, !.op = "delete", !.k = k]
<1>1. rec \in Requests
  BY BegunAreRequests DEF IInv, Delete
<1>2. /\ rec.pc = FirstStep /\ rec.op = "delete" /\ rec.k = k /\ rec.src = None
      /\ rec.files = Empty /\ rec.todo = {}
  BY DEF Idle
<1>3. Begin(p, rec) /\ k \in live
  BY DEF Delete
<1> HIDE DEF rec
<1>4. w'[p] = [rec EXCEPT !.alone = w'[p].alone] /\ backend' = backend
  BY <1>1, <1>3 DEF Begin, stored, Requests
<1>5. /\ w'[p].pc = rec.pc /\ w'[p].op = rec.op /\ w'[p].k = rec.k /\ w'[p].src = rec.src
      /\ w'[p].files = rec.files /\ w'[p].todo = rec.todo
  BY <1>1, <1>4 DEF Requests
<1>6. Shaped(p)'
  BY <1>2, <1>4, <1>5, EmptyIsFiles DEF Shaped, At, Holds, FirstStep
<1> QED
  BY <1>1, <1>2, <1>3, <1>6, BeginIsSound DEF FirstStep

LEMMA DownloadIsSound ==
  ASSUME IInv, NEW p \in Worker, NEW k \in Pk, Download(p, k)
  PROVE  IInv'
<1> DEFINE rec == [Idle EXCEPT !.pc = "fetch", !.op = "download", !.src = k,
                     !.todo = Present(index[k])]
<1>1. rec \in Requests
  BY BegunAreRequests DEF IInv, Download
<1>2. /\ rec.pc = "fetch" /\ rec.op = "download" /\ rec.k = None /\ rec.src = k
      /\ rec.got = Empty /\ rec.todo = Present(index[k])
  BY DEF Idle
<1>3. Begin(p, rec) /\ k \in live
  BY DEF Download
<1> HIDE DEF rec
<1>4. w'[p] = [rec EXCEPT !.alone = w'[p].alone]
  BY <1>1, <1>3 DEF Begin, Requests
<1>5. w'[p].pc = rec.pc /\ w'[p].op = rec.op /\ w'[p].k = rec.k /\ w'[p].src = rec.src
  BY <1>1, <1>4 DEF Requests
<1>6. Shaped(p)'
  BY <1>2, <1>5 DEF Shaped, At, Holds, Writing
<1> QED
  BY <1>1, <1>2, <1>3, <1>6, BeginIsSound

-----------------------------------------------------------------------------
(* Steps that change nothing but the request.                              *)

LEMMA StepIsSound ==
  ASSUME IInv, NEW p \in Worker, NEW rec \in Requests, Put(p, rec), Sound(p)',
         rec.k = w[p].k, rec.pc \in {"list", "wipe"} => Holds(p, {"list", "wipe"})
  PROVE  IInv'
<1>1. TypeOK'
  BY PutKeepsTypes DEF Put, stored, IInv, TypeOK
<1>2. w'[p] = rec /\ \A q \in Worker \ {p} : w'[q] = w[q]
  BY DEF Put, IInv, TypeOK
<1>3. UNCHANGED stored
  BY DEF Put
<1>4. ASSUME NEW q \in Worker \ {p}
      PROVE  Sound(q)'
  BY <1>2, <1>3, Bystander DEF Same, stored, Untouched
<1>5. NoRowsLeft' /\ WholeBundles'
  BY <1>3 DEF IInv, NoRowsLeft, WholeBundles, InOrder, stored
<1>6. \A k \in Pk : Unwiped(k)' => Unwiped(k)
  BY <1>2 DEF Unwiped, Holds
<1>7. Matching'
  BY <1>3, <1>6 DEF IInv, Matching, InOrder, stored
<1> QED
  BY <1>1, <1>4, <1>5, <1>7 DEF IInv, Requesting

LEMMA ExclusiveKept ==
  ASSUME NEW p \in Worker, Exclusive(p), ~At(p, "idle"), live' = live,
         w'[p].k = w[p].k, w'[p].src = w[p].src, w'[p].alone = w[p].alone,
         \A q \in Worker \ {p} : w'[q].k = w[q].k
  PROVE  Exclusive(p)'
BY DEF Exclusive, Alone, Touched

LEMMA ListIsSound ==
  ASSUME IInv, NEW p \in Worker, List(p)
  PROVE  IInv'
<1> DEFINE rec == [w[p] EXCEPT !.pc = "wipe", !.listed = Present(objects[w[p].k])]
<1>1. w[p] \in Requests /\ Sound(p) /\ At(p, "list")
  BY DEF IInv, TypeOK, Requesting, List
<1>2. /\ rec.pc = "wipe" /\ rec.listed = Present(objects[w[p].k])
      /\ rec.op = w[p].op /\ rec.k = w[p].k /\ rec.src = w[p].src /\ rec.files = w[p].files
      /\ rec.todo = w[p].todo /\ rec.alone = w[p].alone
  BY <1>1 DEF Requests
<1>3. Put(p, rec)
  BY DEF List
<1> HIDE DEF rec
<1>4. w'[p] = rec /\ (\A q \in Worker \ {p} : w'[q] = w[q]) /\ UNCHANGED stored
  BY <1>3 DEF Put, IInv, TypeOK
<1>5. rec \in Requests
  BY <1>4, <1>1, StepKeepsTypes DEF IInv, Sound, TypeOK
<1>6. Exclusive(p)'
  BY <1>1, <1>2, <1>4, ExclusiveKept DEF stored, Sound, At
<1>7. Shaped(p)'
  BY <1>1, <1>2, <1>4 DEF Sound, Shaped, At, Holds, Writing, stored
<1>8. Knows(p)' /\ Transferred(p)' /\ Fetched(p)'
  BY <1>1, <1>2, <1>4 DEF Knows, Transferred, Fetched, At, Holds, stored
<1> QED
  BY <1>1, <1>2, <1>3, <1>5, <1>6, <1>7, <1>8, StepIsSound DEF At, Holds, Sound

LEMMA SeeIsSound ==
  ASSUME IInv, NEW p \in Worker, See(p)
  PROVE  IInv'
<1> DEFINE rec == [w[p] EXCEPT !.pc = "lock", !.snap = Present(index[w[p].k])]
<1>1. w[p] \in Requests /\ Sound(p) /\ At(p, "see")
  BY DEF IInv, TypeOK, Requesting, See
<1>2. /\ rec.pc = "lock" /\ rec.snap = Present(index[w[p].k])
      /\ rec.op = w[p].op /\ rec.k = w[p].k /\ rec.src = w[p].src /\ rec.files = w[p].files
      /\ rec.todo = w[p].todo /\ rec.alone = w[p].alone
  BY <1>1 DEF Requests
<1>3. Put(p, rec)
  BY DEF See
<1> HIDE DEF rec
<1>4. w'[p] = rec /\ (\A q \in Worker \ {p} : w'[q] = w[q]) /\ UNCHANGED stored
  BY <1>3 DEF Put, IInv, TypeOK
<1>5. rec \in Requests
  BY <1>4, <1>1, StepKeepsTypes DEF IInv, Sound, TypeOK
<1>6. Exclusive(p)'
  BY <1>1, <1>2, <1>4, ExclusiveKept DEF stored, Sound, At
<1>7. Shaped(p)'
  BY <1>1, <1>2, <1>4 DEF Sound, Shaped, At, Holds, Writing, stored
<1>8. Knows(p)' /\ Transferred(p)' /\ Fetched(p)'
  BY <1>1, <1>2, <1>4 DEF Sound, Knows, Transferred, Fetched, Alone, At, Holds, stored
<1> QED
  BY <1>2, <1>3, <1>5, <1>6, <1>7, <1>8, StepIsSound DEF Sound

LEMMA LockIsSound ==
  ASSUME IInv, NEW p \in Worker, Lock(p)
  PROVE  IInv'
<1> DEFINE next == IF w[p].op = "copy" THEN "read" ELSE "fill"
           rec  == [w[p] EXCEPT !.gone = w[p].snap, !.snap = {}, !.pc = next]
<1>1. w[p] \in Requests /\ Sound(p) /\ At(p, "lock")
  BY DEF IInv, TypeOK, Requesting, Lock
<1>2. /\ rec.pc = next /\ rec.gone = w[p].snap
      /\ rec.op = w[p].op /\ rec.k = w[p].k /\ rec.src = w[p].src /\ rec.files = w[p].files
      /\ rec.todo = w[p].todo /\ rec.alone = w[p].alone
  BY <1>1 DEF Requests
<1>3. Put(p, rec)
  BY DEF Lock
<1> HIDE DEF rec
<1>4. w'[p] = rec /\ (\A q \in Worker \ {p} : w'[q] = w[q]) /\ UNCHANGED stored
  BY <1>3 DEF Put, IInv, TypeOK
<1>5. rec \in Requests
  BY <1>4, <1>1, StepKeepsTypes DEF IInv, Sound, TypeOK
<1>6. Exclusive(p)'
  BY <1>1, <1>2, <1>4, ExclusiveKept DEF stored, Sound, At
<1>7. Shaped(p)'
  BY <1>1, <1>2, <1>4 DEF Sound, Shaped, At, Holds, Writing, stored
<1>8. Knows(p)' /\ Fetched(p)'
  BY <1>1, <1>2, <1>4 DEF Sound, Knows, Fetched, Alone, At, Holds, stored
<1>9. Transferred(p)'
  <2>1. w[p].k \in Pk /\ w[p].files \in Files
    BY <1>1 DEF Sound, Shaped, Requests, At, Holds, Writing
  <2>2. Without(w[p].files, Present(w[p].files)) = Empty
    BY <2>1, WithoutAll
  <2>3. At(p, "lock") /\ w[p].op # "copy" /\ backend = "s3" => w[p].todo = Present(w[p].files)
    BY <1>1 DEF Sound, Shaped, At, Holds, Writing
  <2>4. Alone(p) /\ backend = "s3" => objects[w[p].k] = Empty
    BY <1>1 DEF Sound, Knows, At, Holds
  <2> QED
    BY <1>1, <1>2, <1>4, <2>2, <2>3, <2>4 DEF Transferred, Alone, At, stored
<1> QED
  BY <1>2, <1>3, <1>5, <1>6, <1>7, <1>8, <1>9, StepIsSound DEF Sound

LEMMA ReadIsSound ==
  ASSUME IInv, NEW p \in Worker, Read(p)
  PROVE  IInv'
<1> DEFINE rows == SourceRows(p)
           rec  == [w[p] EXCEPT !.pc = "fill", !.files = rows,
                      !.todo = IF backend = "s3" THEN Present(rows) ELSE {}]
<1>1. w[p] \in Requests /\ Sound(p) /\ At(p, "read")
  BY DEF IInv, TypeOK, Requesting, Read
<1>2. /\ rec.pc = "fill" /\ rec.gone = w[p].gone
      /\ rec.op = w[p].op /\ rec.k = w[p].k /\ rec.src = w[p].src /\ rec.files = rows
      /\ rec.todo = IF backend = "s3" THEN Present(rows) ELSE {}
      /\ rec.alone = w[p].alone
  BY <1>1 DEF Requests
<1>3. Put(p, rec)
  BY DEF Read
<1> HIDE DEF rec, rows
<1>4. w'[p] = rec /\ (\A q \in Worker \ {p} : w'[q] = w[q]) /\ UNCHANGED stored
  BY <1>3 DEF Put, IInv, TypeOK
<1>5. rec \in Requests
  BY <1>4, <1>1, StepKeepsTypes DEF IInv, Sound, TypeOK
<1>6. Exclusive(p)'
  BY <1>1, <1>2, <1>4, ExclusiveKept DEF stored, Sound, At
<1>7. w[p].op = "copy" /\ w[p].k \in Pk /\ w[p].src \in Pk
  BY <1>1 DEF Sound, Shaped, At, Holds, Writing
<1>8. Shaped(p)'
  BY <1>2, <1>4, <1>7 DEF Shaped, At, Holds, Writing
<1>9. Knows(p)' /\ Fetched(p)'
  BY <1>1, <1>2, <1>4 DEF Sound, Knows, Fetched, Alone, At, Holds, stored
<1>10. Transferred(p)'
  <2>1. rows \in Files
    BY <1>7, SourceRowsAreFiles DEF IInv, rows
  <2>2. Alone(p) => w[p].gone = Present(index[w[p].k])
    BY <1>1 DEF Sound, Knows, At, Holds
  <2>3. Without(index[w[p].k], Present(index[w[p].k])) = Empty
    BY <1>7, WithoutAll DEF IInv, TypeOK
  <2>4. Alone(p) => rows = IF w[p].src = w[p].k THEN Empty ELSE index[w[p].src]
    BY <2>2, <2>3 DEF SourceRows, rows
  <2>5. Without(rows, Present(rows)) = Empty
    BY <2>1, WithoutAll
  <2>6. Alone(p) /\ backend = "s3" => objects[w[p].k] = Empty
    BY <1>1 DEF Sound, Knows, At, Holds
  <2> QED
    BY <1>1, <1>2, <1>4, <2>4, <2>5, <2>6 DEF Transferred, Alone, At, stored
<1> QED
  BY <1>2, <1>3, <1>5, <1>6, <1>8, <1>9, <1>10, StepIsSound DEF Sound

\* A file is read from the index, or from the store when the two agree.
LEMMA ServedIsTheRow ==
  ASSUME IInv, NEW p \in Worker, At(p, "fetch"), Alone(p), w[p].src \notin stained,
         NEW x \in Path
  PROVE  Served(w[p].src, x) = index[w[p].src][x]
<1>1. Shaped(p) /\ Exclusive(p)
  BY DEF IInv, Requesting, Sound
<1>2. w[p].src \in Pk /\ w[p].src \in Touched(p)
  BY <1>1, NoneIsApart DEF Shaped, Touched
<1>3. InOrder(w[p].src)
  BY <1>1, <1>2 DEF Exclusive, InOrder
<1>4. w[p].k = None
  BY <1>1 DEF Shaped
<1>5. Unwiped(w[p].src)
  BY <1>1, <1>2, <1>4, NoneIsApart DEF Exclusive, Unwiped
<1>6. backend = "s3" => objects[w[p].src] = index[w[p].src]
  BY <1>2, <1>3, <1>5 DEF IInv, Matching
<1> QED
  BY <1>6 DEF Served

LEMMA FetchIsSound ==
  ASSUME IInv, NEW p \in Worker, Fetch(p)
  PROVE  IInv'
<1> DEFINE x   == Min(w[p].todo)
           rec == [w[p] EXCEPT !.todo = @ \ {x}, !.got[x] = Served(w[p].src, x)]
<1>1. w[p] \in Requests /\ Sound(p) /\ At(p, "fetch")
  BY DEF IInv, TypeOK, Requesting, Fetch
<1>2. Put(p, rec)
  BY DEF Fetch
<1> HIDE DEF x
<1>3. /\ rec.pc = w[p].pc /\ rec.op = w[p].op /\ rec.k = w[p].k /\ rec.src = w[p].src
      /\ rec.todo = w[p].todo \ {x} /\ rec.alone = w[p].alone
      /\ rec.got = [w[p].got EXCEPT ![x] = Served(w[p].src, x)]
  BY <1>1 DEF Requests
<1> HIDE DEF rec
<1>4. w'[p] = rec /\ (\A q \in Worker \ {p} : w'[q] = w[q]) /\ UNCHANGED stored
  BY <1>2 DEF Put, IInv, TypeOK
<1>5. rec \in Requests
  BY <1>4, <1>1, StepKeepsTypes DEF IInv, Sound, TypeOK
<1>6. Exclusive(p)'
  BY <1>1, <1>3, <1>4, ExclusiveKept DEF stored, Sound, At
<1>7. Shaped(p)' /\ Knows(p)' /\ Transferred(p)'
  BY <1>1, <1>3, <1>4 DEF Sound, Shaped, Knows, Transferred, At, Holds, Writing, stored
<1>8. Fetched(p)'
  <2> SUFFICES ASSUME Alone(p), w[p].src \notin stained
               PROVE  rec.got = Without(index[w[p].src], rec.todo)
    BY <1>1, <1>3, <1>4 DEF Fetched, Alone, At, stored
  <2>1. w[p].got = Without(index[w[p].src], w[p].todo)
    BY <1>1 DEF Sound, Fetched
  <2>2. x \in Path => Served(w[p].src, x) = index[w[p].src][x]
    BY <1>1, ServedIsTheRow
  <2>3. w[p].got = [y \in Path |-> IF y \in w[p].todo THEN None ELSE index[w[p].src][y]]
    BY <2>1 DEF Without
  <2> QED
    BY <1>3, <2>2, <2>3 DEF Without
<1> QED
  BY <1>1, <1>2, <1>3, <1>5, <1>6, <1>7, <1>8, StepIsSound DEF Sound, At

LEMMA RespondIsSound ==
  ASSUME IInv, NEW p \in Worker, Respond(p)
  PROVE  IInv'
<1>1. w'[p] = Idle
  BY DEF Respond, Put, IInv, TypeOK
<1>2. w[p].k = None /\ Idle.k = None /\ Idle.pc = "idle"
  BY DEF Respond, IInv, Requesting, Sound, Shaped, Idle
<1> QED
  BY <1>1, <1>2, IdleIsSound, IdleIsRequest, StepIsSound DEF Respond

-----------------------------------------------------------------------------
(* Steps that change the tables or the store.                              *)

LEMMA FailIsSound ==
  ASSUME IInv, NEW p \in Worker, ~At(p, "idle"), Fail(p)
  PROVE  IInv'
<1>1. w[p] \in Requests /\ Sound(p)
  BY DEF IInv, TypeOK, Requesting
<1>2. TypeOK'
  BY <1>1, FailKeepsTypes DEF IInv, Sound
<1>3. w'[p] = Idle /\ \A q \in Worker \ {p} : w'[q] = w[q]
  BY DEF Fail, IInv, TypeOK
<1>4. UNCHANGED <<backend, live, index, objects>> /\ stained \subseteq stained'
  BY DEF Fail
<1>5. ASSUME NEW q \in Worker \ {p}
      PROVE  Sound(q)'
  <2>1. w'[p].k \notin Touched(q)
    BY <1>3 DEF Idle, Touched
  <2> QED
    BY <1>3, <1>4, <2>1, Bystander DEF Same, Untouched
<1>6. NoRowsLeft' /\ WholeBundles'
  BY <1>4 DEF IInv, NoRowsLeft, WholeBundles, InOrder
<1>7. ASSUME NEW k \in Pk, InOrder(k)', Unwiped(k)', backend' = "s3"
      PROVE  objects'[k] = index'[k]
  <2>1. \A q \in Worker \ {p} : w[q].k = k => Holds(q, {"list", "wipe"})
    BY <1>3, <1>7 DEF Unwiped, Holds
  <2>2. w[p].k = k => Holds(p, {"list", "wipe"})
    <3>1. w[p].k = k => ~Holds(p, {"see", "lock", "read", "fill"})
      BY <1>4, <1>7 DEF Fail, InOrder, Holds
    <3>2. w[p].pc \in {"list", "wipe", "see", "lock", "read", "fill"} \/ At(p, "fetch")
      BY <1>1 DEF Requests, At
    <3> QED
      BY <1>1, <3>1, <3>2, NoneIsApart DEF Sound, Shaped, At, Holds
  <2>3. Unwiped(k) /\ InOrder(k) /\ backend = "s3"
    BY <1>4, <1>7, <2>1, <2>2 DEF Unwiped, InOrder
  <2> QED
    BY <1>4, <2>3 DEF IInv, Matching
<1>8. Sound(p)'
  BY <1>3, IdleIsSound
<1> QED
  BY <1>2, <1>5, <1>6, <1>7, <1>8 DEF IInv, Requesting, Matching

\* Only the object store is written, under the version of a request that goes on.
LEMMA StoreStepIsSound ==
  ASSUME IInv, TypeOK', NEW p \in Worker, w[p].k \in Pk, ~At(p, "idle"),
         w'[p].pc \notin {"idle", "list", "wipe"}, w'[p].k = w[p].k,
         \A q \in Worker \ {p} : w'[q] = w[q],
         \A k \in Pk \ {w[p].k} : objects'[k] = objects[k],
         UNCHANGED <<backend, live, index, stained>>, Sound(p)'
  PROVE  IInv'
<1>1. ASSUME NEW q \in Worker \ {p}
      PROVE  Sound(q)'
  <2>1. w[q].alone => \A k \in Touched(q) : Untouched(k)
    <3>1. CASE At(q, "idle")
      BY <3>1 DEF IInv, Requesting, Sound, Shaped, Touched
    <3>2. CASE ~At(q, "idle")
      <4>1. w[q].alone => w[p].k \notin Touched(q)
        BY <3>2 DEF IInv, Requesting, Sound, Exclusive, Alone
      <4>2. Touched(q) \subseteq Pk
        BY DEF IInv, TypeOK, Requests, Touched
      <4> QED
        BY <4>1, <4>2 DEF Untouched
    <3> QED
      BY <3>1, <3>2
  <2> QED
    BY <2>1, Bystander DEF Same
<1>2. NoRowsLeft' /\ WholeBundles'
  BY DEF IInv, NoRowsLeft, WholeBundles, InOrder
<1>3. ASSUME NEW k \in Pk, InOrder(k)', Unwiped(k)', backend' = "s3"
      PROVE  objects'[k] = index'[k]
  <2>1. k # w[p].k
    BY <1>3 DEF Unwiped, Holds
  <2>2. Unwiped(k) /\ InOrder(k)
    BY <1>3, <2>1 DEF Unwiped, InOrder, Holds
  <2> QED
    BY <1>3, <2>1, <2>2 DEF IInv, Matching
<1> QED
  BY <1>1, <1>2, <1>3 DEF IInv, Requesting, Matching

LEMMA WipeIsSound ==
  ASSUME IInv, NEW p \in Worker, Wipe(p)
  PROVE  IInv'
<1> DEFINE k == w[p].k
<1>1. w[p] \in Requests /\ Sound(p) /\ At(p, "wipe")
  BY DEF IInv, TypeOK, Requesting, Wipe
<1>2. k \in Pk
  BY <1>1 DEF Sound, Shaped, At, Holds, Writing
<1>3. TypeOK'
  BY <1>1, StepKeepsTypes DEF IInv, Sound
<1>4. /\ w'[p].pc = "see" /\ w'[p].op = w[p].op /\ w'[p].k = w[p].k
      /\ w'[p].src = w[p].src /\ w'[p].files = w[p].files /\ w'[p].todo = w[p].todo
      /\ w'[p].alone = w[p].alone
      /\ \A q \in Worker \ {p} : w'[q] = w[q]
  BY <1>1 DEF Wipe, IInv, TypeOK, Requests
<1>5. /\ objects' = [objects EXCEPT ![k] = Without(@, w[p].listed)]
      /\ UNCHANGED <<backend, live, index, stained>>
  BY DEF Wipe
<1>6. Exclusive(p)'
  BY <1>1, <1>4, <1>5, ExclusiveKept DEF Sound, At
<1>7. Shaped(p)'
  BY <1>1, <1>4, <1>5 DEF Sound, Shaped, At, Holds, Writing
<1>8. Knows(p)'
  <2>1. Without(objects[k], Present(objects[k])) = Empty
    BY <1>2, WithoutAll DEF IInv, TypeOK
  <2>2. Alone(p) => objects'[k] = Empty
    BY <1>1, <1>2, <1>5, <2>1 DEF Sound, Knows, IInv, TypeOK
  <2> QED
    BY <1>1, <1>4, <2>2 DEF Knows, Alone, At, Holds
<1>9. Transferred(p)' /\ Fetched(p)'
  BY <1>4 DEF Transferred, Fetched, At
<1> QED
  BY <1>1, <1>2, <1>3, <1>4, <1>5, <1>6, <1>7, <1>8, <1>9, StoreStepIsSound
  DEF Sound, IInv, TypeOK, At

\* The bytes put are those of the row, when the source is in order.
LEMMA BytesAreTheRow ==
  ASSUME IInv, NEW p \in Worker, At(p, "fill"), Alone(p), w[p].src \notin stained,
         backend = "s3", NEW x \in w[p].todo
  PROVE  Bytes(p, x) = w[p].files[x]
<1>1. Shaped(p) /\ Exclusive(p) /\ Transferred(p) /\ w[p].todo \subseteq Path
  BY DEF IInv, Requesting, Sound, TypeOK, Requests
<1>2. CASE w[p].op = "upload"
  BY <1>2 DEF Bytes
<1>3. CASE w[p].op = "copy" /\ w[p].src = w[p].k
  <2>1. w[p].k \in Pk
    BY <1>1 DEF Shaped, At, Holds, Writing
  <2>2. w[p].files = Empty /\ objects[w[p].k] = Without(Empty, w[p].todo)
    BY <1>1, <1>3 DEF Transferred
  <2> QED
    BY <1>1, <1>3, <2>2 DEF Bytes, Without, Empty
<1>4. CASE w[p].op = "copy" /\ w[p].src # w[p].k
  <2>1. w[p].src \in Pk /\ w[p].src \in Touched(p)
    BY <1>1, <1>4, NoneIsApart DEF Shaped, Touched, At, Holds, Writing
  <2>2. InOrder(w[p].src) /\ Unwiped(w[p].src)
    BY <1>1, <1>4, <2>1 DEF Exclusive, InOrder, Unwiped
  <2>3. objects[w[p].src] = index[w[p].src]
    BY <2>1, <2>2 DEF IInv, Matching
  <2>4. w[p].files = index[w[p].src]
    BY <1>1, <1>4 DEF Transferred
  <2> QED
    BY <1>4, <2>3, <2>4 DEF Bytes
<1>5. CASE w[p].op = "delete"
  BY <1>1, <1>5 DEF Shaped, At, Holds, Writing
<1> QED
  BY <1>1, <1>2, <1>3, <1>4, <1>5 DEF Shaped, At, Holds, Writing

LEMMA TransferIsSound ==
  ASSUME IInv, NEW p \in Worker, NEW x \in w[p].todo, Transfer(p, x)
  PROVE  IInv'
<1> DEFINE k == w[p].k
<1>1. w[p] \in Requests /\ Sound(p) /\ At(p, "fill")
  BY DEF IInv, TypeOK, Requesting, Transfer
<1>2. CASE Bytes(p, x) = None
  BY <1>1, <1>2, FailIsSound DEF Transfer, At
<1>3. CASE Bytes(p, x) # None
  <2>1. k \in Pk
    BY <1>1 DEF Sound, Shaped, At, Holds, Writing
  <2>2. TypeOK'
    BY <1>1, TransferKeepsTypes DEF IInv, Sound
  <2>3. /\ w'[p].pc = "fill" /\ w'[p].op = w[p].op /\ w'[p].k = w[p].k
        /\ w'[p].src = w[p].src /\ w'[p].files = w[p].files /\ w'[p].todo = w[p].todo \ {x}
        /\ w'[p].gone = w[p].gone /\ w'[p].alone = w[p].alone
        /\ \A q \in Worker \ {p} : w'[q] = w[q]
    BY <1>1, <1>3 DEF Transfer, IInv, TypeOK, Requests, At
  <2>4. /\ objects' = [objects EXCEPT ![k][x] = Bytes(p, x)]
        /\ UNCHANGED <<backend, live, index, stained>>
    BY <1>3 DEF Transfer
  <2>5. Exclusive(p)'
    BY <1>1, <2>3, <2>4, ExclusiveKept DEF Sound, At
  <2>6. Shaped(p)'
    BY <1>1, <2>3, <2>4 DEF Sound, Shaped, At, Holds, Writing
  <2>7. Knows(p)'
    BY <1>1, <2>3, <2>4 DEF Sound, Knows, Alone, At, Holds
  <2>8. Transferred(p)' /\ Fetched(p)'
    <3>1. SUFFICES ASSUME Alone(p), w[p].src \notin stained, backend = "s3"
                   PROVE  objects'[k] = Without(w[p].files, w[p].todo \ {x})
      BY <1>1, <2>3, <2>4 DEF Sound, Transferred, Fetched, Alone, At
    <3>2. Bytes(p, x) = w[p].files[x]
      BY <1>1, <3>1, BytesAreTheRow
    <3>3. objects[k] = Without(w[p].files, w[p].todo)
      BY <1>1, <3>1 DEF Sound, Transferred
    <3>4. objects'[k] = [objects[k] EXCEPT ![x] = Bytes(p, x)]
      BY <2>1, <2>4 DEF IInv, TypeOK
    <3>5. x \in Path
      BY <1>1 DEF Requests
    <3> QED
      BY <3>2, <3>3, <3>4, <3>5 DEF Without
  <2>9. \A j \in Pk \ {k} : objects'[j] = objects[j]
    BY <2>4 DEF IInv, TypeOK
  <2> QED
    BY <1>1, <2>1, <2>2, <2>3, <2>4, <2>5, <2>6, <2>7, <2>8, <2>9, StoreStepIsSound
    DEF Sound, At
<1> QED
  BY <1>2, <1>3

\* What a clean commit leaves: the files of the archive or of the source, in the rows
\* and in the store.
LEMMA CleanRows ==
  ASSUME IInv, NEW p \in Worker, At(p, "fill"), w[p].todo = {}, Clean(p)
  PROVE  /\ RowsAfter(p) = w[p].files
         /\ w[p].files \in Archives \cup {Empty}
         /\ backend = "s3" => objects[w[p].k] = w[p].files
<1>1. /\ Alone(p) /\ w[p].src \notin stained /\ w[p].files \in Files
      /\ Shaped(p) /\ Exclusive(p) /\ Knows(p) /\ Transferred(p)
  BY DEF IInv, TypeOK, Requests, Requesting, Sound, Clean, Alone, At
<1>2. w[p].k \in Pk /\ w[p].op \in {"upload", "copy", "delete"}
  BY <1>1 DEF Shaped, At, Holds, Writing
<1>3. w[p].gone = Present(index[w[p].k]) /\ index[w[p].k] \in Files
  BY <1>1, <1>2 DEF Knows, Holds, At, IInv, TypeOK
<1>4. RowsAfter(p) = w[p].files
  BY <1>1, <1>3 DEF RowsAfter, Present, Files
<1>5. w[p].files \in Archives \cup {Empty}
  <2>1. CASE w[p].op = "copy" /\ w[p].src # w[p].k
    <3>1. w[p].files = index[w[p].src]
      BY <1>1, <2>1 DEF Transferred
    <3>2. w[p].src \in Pk /\ w[p].src \in live
      BY <1>1, <2>1, NoneIsApart DEF Shaped, Exclusive, Touched, At, Holds, Writing
    <3> QED
      BY <1>1, <3>1, <3>2 DEF IInv, WholeBundles, InOrder
  <2>2. CASE w[p].op = "copy" /\ w[p].src = w[p].k
    BY <1>1, <2>2 DEF Transferred
  <2>3. CASE w[p].op # "copy"
    BY <1>1, <1>2, <2>3 DEF Shaped, At, Holds, Writing
  <2> QED
    BY <2>1, <2>2, <2>3
<1>6. backend = "s3" => objects[w[p].k] = w[p].files
  BY <1>1, WithoutNothing DEF Transferred
<1> QED
  BY <1>4, <1>5, <1>6

LEMMA CommitIsSound ==
  ASSUME IInv, NEW p \in Worker, Commit(p)
  PROVE  IInv'
<1>1. w[p] \in Requests /\ Sound(p) /\ At(p, "fill") /\ w[p].todo = {}
  BY DEF IInv, TypeOK, Requesting, Commit
<1>2. CASE ~CanInsert(p)
  BY <1>1, <1>2, FailIsSound DEF Commit, At
<1>3. CASE CanInsert(p)
  <2>1. PICK k \in Pk : k = w[p].k
    BY <1>1 DEF Sound, Shaped, At, Holds, Writing
  <2>2. TypeOK'
    BY <1>1, CommitKeepsTypes DEF IInv, Sound
  <2>3. /\ index' = [index EXCEPT ![k] = RowsAfter(p)]
        /\ stained' = IF Clean(p) THEN stained \ {k} ELSE stained \cup {k}
        /\ Ended(p, k, w[p].gone)
        /\ UNCHANGED <<backend, live, objects>>
    BY <1>3, <2>1 DEF Commit
  <2>4. w'[p] = Idle
    BY <2>3 DEF Ended
  <2>5. ASSUME NEW q \in Worker \ {p}
        PROVE  Same(q) /\ w'[q].alone = w[q].alone /\ (w[q].k # k => w'[q] = w[q])
    <3>1. w[q] \in Requests
      BY DEF IInv, TypeOK
    <3>2. CASE w[q].k = k
      BY <2>3, <3>1, <3>2 DEF Ended, Same, Requests
    <3>3. CASE w[q].k # k
      BY <2>3, <3>3 DEF Ended, Same
    <3> QED
      BY <3>2, <3>3
  <2>6. ASSUME NEW j \in Pk \ {k}
        PROVE  Untouched(j) /\ index'[j] = index[j] /\ (j \in stained' <=> j \in stained)
    BY <2>3 DEF Untouched, IInv, TypeOK
  <2>7. ASSUME NEW q \in Worker \ {p}
        PROVE  Sound(q)'
    <3>1. Shaped(q) /\ Exclusive(q) /\ Touched(q) \subseteq Pk
      BY DEF IInv, TypeOK, Requests, Requesting, Sound, Touched
    <3>2. w[q].alone => k \notin Touched(q)
      BY <2>1, <3>1 DEF Exclusive, Alone, Shaped, Touched
    <3>3. w[q].alone => w[q].k # k
      BY <2>1, <3>2, NoneIsApart DEF Touched
    <3>4. w'[p].k \notin Touched(q)
      BY <2>4 DEF Idle, Touched
    <3>5. \A r \in Worker \ {q} : w'[r].k = w[r].k \/ w'[r].k \notin Touched(q)
      BY <2>5, <3>4 DEF Same
    <3> QED
      BY <2>3, <2>5, <2>6, <3>1, <3>2, <3>3, <3>5, Bystander
  <2>8. NoRowsLeft'
    <3>1. SUFFICES ASSUME k \notin live
                   PROVE  RowsAfter(p) = Empty
      BY <2>1, <2>3, <2>6 DEF IInv, NoRowsLeft, TypeOK
    <3>2. index[k] = Empty /\ Present(w[p].files) = {}
      BY <1>3, <2>1, <3>1 DEF CanInsert, IInv, NoRowsLeft
    <3> QED
      BY <1>1, <2>1, <3>2 DEF RowsAfter, Present, Empty, Requests, Files
  <2>9. InOrder(k)' => Clean(p)
    BY <2>3 DEF InOrder
  <2>10. index'[k] = RowsAfter(p)
    BY <2>1, <2>3 DEF IInv, TypeOK
  <2>11. \A j \in Pk \ {k} : InOrder(j)' => InOrder(j)
    BY <2>3, <2>6 DEF InOrder
  <2>12. WholeBundles'
    <3>1. \A j \in Pk \ {k} : InOrder(j)' => index'[j] \in Archives \cup {Empty}
      BY <2>6, <2>11 DEF IInv, WholeBundles
    <3>2. InOrder(k)' => index'[k] \in Archives \cup {Empty}
      BY <1>1, <2>1, <2>9, <2>10, CleanRows
    <3> QED
      BY <3>1, <3>2 DEF WholeBundles
  <2>13. Matching'
    <3>1. ASSUME NEW j \in Pk \ {k}, InOrder(j)', Unwiped(j)', backend' = "s3"
          PROVE  objects'[j] = index'[j]
      <4>1. Unwiped(j)
        BY <2>1, <2>5, <3>1 DEF Unwiped, Same, Holds
      <4> QED
        BY <2>3, <2>6, <2>11, <3>1, <4>1 DEF IInv, Matching
    <3>2. InOrder(k)' /\ backend' = "s3" => objects'[k] = index'[k]
      BY <1>1, <2>1, <2>3, <2>9, <2>10, CleanRows
    <3> QED
      BY <3>1, <3>2 DEF Matching
  <2>14. Sound(p)'
    BY <2>4, IdleIsSound
  <2> QED
    BY <2>2, <2>7, <2>8, <2>12, <2>13, <2>14 DEF IInv, Requesting
<1> QED
  BY <1>2, <1>3

LEMMA DropIsSound ==
  ASSUME IInv, NEW k \in Pk, DropVersion(k)
  PROVE  IInv'
<1>1. TypeOK'
  BY DropKeepsTypes DEF IInv
<1>2. /\ live' = live \ {k} /\ index' = [index EXCEPT ![k] = Empty]
      /\ UNCHANGED <<backend, objects, stained>>
  BY DEF DropVersion
<1>3. ASSUME NEW q \in Worker
      PROVE  Same(q) /\ (w'[q].alone => w'[q] = w[q] /\ k \notin Touched(q))
  <2>1. w[q] \in Requests
    BY DEF IInv, TypeOK
  <2>2. CASE k \in Touched(q)
    BY <2>1, <2>2 DEF DropVersion, Same, Requests
  <2>3. CASE k \notin Touched(q)
    BY <2>3 DEF DropVersion, Same
  <2> QED
    BY <2>2, <2>3
<1>4. \A j \in Pk \ {k} : Untouched(j) /\ index'[j] = index[j]
  BY <1>2 DEF Untouched, IInv, TypeOK
<1>5. ASSUME NEW q \in Worker
      PROVE  Sound(q)'
  <2>1. Touched(q) \subseteq Pk
    BY DEF IInv, TypeOK, Requests, Touched
  <2> QED
    BY <1>2, <1>3, <1>4, <2>1, Bystander DEF Same
<1>6. index'[k] = Empty
  BY <1>2 DEF IInv, TypeOK
<1>7. NoRowsLeft' /\ WholeBundles'
  BY <1>2, <1>4, <1>6 DEF IInv, NoRowsLeft, WholeBundles, InOrder
<1>8. Matching'
  <2>1. ASSUME NEW j \in Pk, InOrder(j)', Unwiped(j)', backend' = "s3"
        PROVE  objects'[j] = index'[j]
    <3>1. j # k /\ InOrder(j)
      BY <1>2, <2>1 DEF InOrder
    <3>2. Unwiped(j)
      BY <1>3, <2>1 DEF Unwiped, Same, Holds
    <3> QED
      BY <1>2, <1>4, <2>1, <3>1, <3>2 DEF IInv, Matching
  <2> QED
    BY <2>1 DEF Matching
<1> QED
  BY <1>1, <1>5, <1>7, <1>8 DEF IInv, Requesting

LEMMA CreateIsSound ==
  ASSUME IInv, NEW k \in Pk, CreateVersion(k)
  PROVE  IInv'
<1>1. TypeOK'
  BY CreateKeepsTypes DEF IInv
<1>2. /\ k \notin live /\ live' = live \cup {k} /\ stained' = stained \ {k}
      /\ objects' = [objects EXCEPT ![k] = Empty]
      /\ UNCHANGED <<backend, index, w>> /\ \A q \in Worker : k \notin Touched(q)
  BY DEF CreateVersion
<1>3. \A j \in Pk \ {k} : Untouched(j) /\ objects'[j] = objects[j]
  BY <1>2 DEF Untouched, IInv, TypeOK
<1>4. ASSUME NEW q \in Worker
      PROVE  Sound(q)'
  <2>1. Touched(q) \subseteq Pk
    BY DEF IInv, TypeOK, Requests, Touched
  <2> QED
    BY <1>2, <1>3, <2>1, Bystander DEF Same
<1>5. index[k] = Empty /\ objects'[k] = Empty
  BY <1>2 DEF IInv, NoRowsLeft, TypeOK
<1>6. NoRowsLeft' /\ WholeBundles'
  BY <1>2, <1>3, <1>5 DEF IInv, NoRowsLeft, WholeBundles, InOrder
<1>7. Matching'
  BY <1>2, <1>3, <1>5 DEF IInv, Matching, InOrder, Unwiped, Holds
<1> QED
  BY <1>1, <1>4, <1>6, <1>7 DEF IInv, Requesting

-----------------------------------------------------------------------------
(* The theorems.                                                           *)

LEMMA InitIsSound == Init => IInv
<1> SUFFICES ASSUME Init
             PROVE  IInv
  OBVIOUS
<1>1. TypeOK
  BY IdleIsRequest, EmptyIsFiles, BackendsAreKnown DEF Init, TypeOK
<1>2. Requesting
  BY DEF Init, Requesting, Sound, Shaped, Exclusive, Knows, Transferred, Fetched, Alone,
         At, Holds, Idle, Writing
<1>3. NoRowsLeft /\ WholeBundles /\ Matching
  BY DEF Init, NoRowsLeft, WholeBundles, Matching, InOrder
<1> QED
  BY <1>1, <1>2, <1>3 DEF IInv

LEMMA NextIsSound == IInv /\ [Next]_vars => IInv'
<1> SUFFICES ASSUME IInv, [Next]_vars
             PROVE  IInv'
  OBVIOUS
<1>1. ASSUME NEW p \in Worker, NEW k \in Pk, NEW files \in Archives, Upload(p, k, files)
      PROVE  IInv'
  BY <1>1, UploadIsSound
<1>2. ASSUME NEW p \in Worker, NEW k \in Pk, NEW src \in Pk, Copy(p, src, k)
      PROVE  IInv'
  BY <1>2, CopyIsSound
<1>3. ASSUME NEW p \in Worker, NEW k \in Pk, Delete(p, k)
      PROVE  IInv'
  BY <1>3, DeleteIsSound
<1>4. ASSUME NEW p \in Worker, NEW k \in Pk, Download(p, k)
      PROVE  IInv'
  BY <1>4, DownloadIsSound
<1>5. ASSUME NEW p \in Worker, List(p)
      PROVE  IInv'
  BY <1>5, ListIsSound
<1>6. ASSUME NEW p \in Worker, Wipe(p)
      PROVE  IInv'
  BY <1>6, WipeIsSound
<1>7. ASSUME NEW p \in Worker, See(p)
      PROVE  IInv'
  BY <1>7, SeeIsSound
<1>8. ASSUME NEW p \in Worker, Lock(p)
      PROVE  IInv'
  BY <1>8, LockIsSound
<1>9. ASSUME NEW p \in Worker, Read(p)
      PROVE  IInv'
  BY <1>9, ReadIsSound
<1>10. ASSUME NEW p \in Worker, NEW x \in w[p].todo, Transfer(p, x)
       PROVE  IInv'
  BY <1>10, TransferIsSound
<1>11. ASSUME NEW p \in Worker, Commit(p)
       PROVE  IInv'
  BY <1>11, CommitIsSound
<1>12. ASSUME NEW p \in Worker, Fetch(p)
       PROVE  IInv'
  BY <1>12, FetchIsSound
<1>13. ASSUME NEW p \in Worker, Respond(p)
       PROVE  IInv'
  BY <1>13, RespondIsSound
<1>14. ASSUME NEW p \in Worker, Abort(p)
       PROVE  IInv'
  BY <1>14, FailIsSound DEF Abort
<1>15. ASSUME NEW k \in Pk, DropVersion(k) \/ CreateVersion(k)
       PROVE  IInv'
  BY <1>15, DropIsSound, CreateIsSound
<1>16. CASE UNCHANGED vars
  BY <1>16 DEF vars, IInv, TypeOK, Requesting, Sound, Shaped, Exclusive, Knows, Transferred,
               Fetched, Alone, At, Holds, Touched, NoRowsLeft, WholeBundles, Matching,
               InOrder, Unwiped
<1> QED
  BY <1>1, <1>2, <1>3, <1>4, <1>5, <1>6, <1>7, <1>8, <1>9, <1>10, <1>11, <1>12, <1>13,
     <1>14, <1>15, <1>16 DEF Next

THEOREM AlwaysSound == Spec => []IInv
BY InitIsSound, NextIsSound, PTL DEF Spec

\* Requests, rows and objects stay well typed, whatever overlaps or fails.
THEOREM TypeCorrect == Spec => []TypeOK
<1>1. IInv => TypeOK
  BY DEF IInv
<1> QED
  BY <1>1, AlwaysSound, PTL

\* Unless a request on it failed half way or overlapped another writer, the rows of a
\* bundle are those of one uploaded archive, or none (put_files, copy_all, delete_all).
THEOREM BundlesAreWhole == Spec => []WholeBundles
<1>1. IInv => WholeBundles
  BY DEF IInv
<1> QED
  BY <1>1, AlwaysSound, PTL

\* The object store of a version in order, that nobody is writing, holds exactly the
\* bytes of its index: no orphan, and nothing missing.
THEOREM IndexAlwaysMatches == Spec => []IndexMatchesStore
<1>1. IInv => IndexMatchesStore
  BY DEF IInv, Matching, IndexMatchesStore, Quiet, Unwiped
<1> QED
  BY <1>1, AlwaysSound, PTL

\* A download that no writer overlaps and whose version is in order is the bundle,
\* from either store (build_targz).
THEOREM DownloadsAreFaithful == Spec => FaithfulDownloads
<1> DEFINE Faithful ==
      \A p \in Worker :
        (At(p, "fetch") /\ w[p].todo = {} /\ w'[p] = Idle
           /\ w[p].alone /\ InOrder(w[p].src)) => w[p].got = index[w[p].src]
<1>1. ASSUME IInv
      PROVE  Faithful
  <2> SUFFICES ASSUME NEW p \in Worker, At(p, "fetch"), w[p].todo = {}, w[p].alone,
                      InOrder(w[p].src)
               PROVE  w[p].got = index[w[p].src]
    OBVIOUS
  <2>1. Sound(p)
    BY <1>1 DEF IInv, Requesting
  <2>2. w[p].src \in Pk /\ w[p].got = Without(index[w[p].src], {})
    BY <2>1 DEF Sound, Shaped, Fetched, Alone, At, InOrder
  <2> QED
    BY <1>1, <2>2, WithoutNothing DEF IInv, TypeOK
<1>2. IInv => [Faithful]_vars
  BY <1>1
<1> QED
  BY <1>2, AlwaysSound, PTL DEF FaithfulDownloads

\* A copy from another version that no writer overlaps leaves the destination equal to
\* what the source is when it commits (copy_all).
THEOREM CopiesAreAlwaysFaithful == Spec => CopiesAreFaithful
<1> DEFINE Faithful ==
      \A p \in Worker :
        (w[p].op = "copy" /\ w[p].src # w[p].k /\ Clean(p) /\ CanInsert(p) /\ Commit(p)) =>
          index'[w[p].k] = index[w[p].src]
<1>1. ASSUME IInv
      PROVE  Faithful
  <2> SUFFICES ASSUME NEW p \in Worker, w[p].op = "copy", w[p].src # w[p].k, Clean(p),
                      CanInsert(p), Commit(p)
               PROVE  index'[w[p].k] = index[w[p].src]
    OBVIOUS
  <2>1. At(p, "fill") /\ w[p].todo = {} /\ Sound(p)
    BY <1>1 DEF Commit, IInv, Requesting
  <2>2. w[p].k \in Pk
    BY <2>1 DEF Sound, Shaped, At, Holds, Writing
  <2>3. w[p].files = index[w[p].src]
    BY <2>1 DEF Sound, Transferred, Alone, At, Clean
  <2>4. index' = [index EXCEPT ![w[p].k] = w[p].files]
    BY <1>1, <2>1, CleanRows DEF Commit
  <2> QED
    BY <1>1, <2>2, <2>3, <2>4 DEF IInv, TypeOK
<1>2. IInv => [Faithful]_vars
  BY <1>1
<1> QED
  BY <1>2, AlwaysSound, PTL DEF CopiesAreFaithful

=============================================================================
