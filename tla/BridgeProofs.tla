---------------------------- MODULE BridgeProofs ----------------------------
(***************************************************************************)
(* What Bridge guarantees for any versions, calls, paths, contents and     *)
(* keys.  The argument is that while the directory is not mixed at most    *)
(* one call is fetching, and the directory holds exactly the files that    *)
(* the call has fetched, all of its version.                               *)
(***************************************************************************)
EXTENDS Bridge, TLAPS, WellFoundedInduction

\* What a call that is not alone with the directory cannot rely on.
Alone(c) ==
  /\ \A q \in Call : call[q].pc = "fetch" => q = c
  /\ \A x \in Path : /\ disk[x] # None <=> x \in call[c].listed \ call[c].todo
                     /\ disk[x] # None => disk[x].from = call[c].v

\* What a call fetches is the bundle as it was when it was checked.
Abreast(c) ==
  /\ bundle[call[c].v] # None /\ call[c].listed = Present(bundle[call[c].v])
  /\ \A x \in Path : disk[x] # None => disk[x].bytes = bundle[call[c].v][x]

FetchingAlone ==
  \A c \in Call :
    (call[c].pc = "fetch" /\ ~mixed) => Alone(c) /\ (call[c].same => Abreast(c))

\* A signature that is well formed was made by the owner of its key, and a call that
\* required one knows a bundle that was signed with the digest of what it installs.
SignaturesAreAuthored ==
  \A v \in Version : sig[v] = None \/ sig[v].signed \in Authored[sig[v].kid] \cup {None}

ChecksAreVouched ==
  \A c \in Call :
    (call[c].pc # "idle" /\ call[c].required /\ call[c].same) =>
      /\ bundle[call[c].v] # None
      /\ \E b \in call[c].vouched : Digest(b) = Digest(bundle[call[c].v])

-----------------------------------------------------------------------------
LEMMA LeastIsMember ==
  ASSUME NEW T \in SUBSET Nat, T # {}
  PROVE  Min(T) \in T
<1> DEFINE Less == OpToRel(<, Nat)
<1>1. IsWellFoundedOn(Less, Nat)
  BY NatLessThanWellFounded, Zenon
<1>2. \A x, y \in Nat : x < y => <<x, y>> \in Less
  BY DEF OpToRel
<1> HIDE DEF Less
<1>3. \E x \in T : \A y \in T : <<y, x>> \notin Less
  BY <1>1, WFMin, Zenon
<1>4. PICK x \in T : \A y \in T : <<y, x>> \notin Less
  BY <1>3
<1>5. \A y \in T : x <= y
  <2> SUFFICES ASSUME NEW y \in T, ~(x <= y) PROVE FALSE
    OBVIOUS
  <2>1. x \in Nat /\ y \in Nat
    OBVIOUS
  <2>2. y < x
    BY <2>1
  <2> QED
    BY <1>2, <1>4, <2>1, <2>2, Zenon
<1> QED
  BY <1>5 DEF Min

\* Catalogue, signatures, trust store, directory and calls stay well typed.
THEOREM TypeCorrect == Spec => []TypeOK
<1> USE NoneIsNothing, BundlesAreFull, AuthorsSign
<1>1. Init => TypeOK
  <2>1. NoCall \in Calls /\ NoCall.pc = "idle" /\ NoCall.todo \subseteq NoCall.listed
    BY DEF NoCall, Calls
  <2> SUFFICES ASSUME Init PROVE TypeOK
    OBVIOUS
  <2>2. /\ bundle \in [Version -> Files \cup {None}] /\ trusted \subseteq Kid
        /\ sig \in [Version -> Signatures \cup {None}] /\ mixed \in BOOLEAN
        /\ disk \in [Path -> FilesOnDisk \cup {None}] /\ backend \in Backends
    BY DEF Init
  <2>3. call = [c \in Call |-> NoCall]
    BY DEF Init
  <2> HIDE DEF NoCall
  <2> QED
    BY <2>1, <2>2, <2>3 DEF TypeOK
<1>2. TypeOK /\ [Next]_vars => TypeOK'
  <2> SUFFICES ASSUME TypeOK, [Next]_vars PROVE TypeOK'
    OBVIOUS
  <2> USE DEF TypeOK
  <2>1. ASSUME NEW v \in Version, NEW k \in Kid, NEW b \in Authored[k] \cup {None},
               AttachSignature(v, k, b)
        PROVE  TypeOK'
    <3>1. [kid |-> k, signed |-> b] \in Signatures
      BY DEF Signatures
    <3> QED
      BY <2>1, <3>1 DEF AttachSignature, machine
  <2>2. ASSUME NEW v \in Version, ClearSignature(v) PROVE TypeOK'
    BY <2>2 DEF ClearSignature, machine
  <2>3. ASSUME NEW v \in Version, Replaced(v)
        PROVE  /\ call' \in [Call -> Calls]
               /\ \A c \in Call : /\ call'[c].todo \subseteq call'[c].listed
                                  /\ IF call'[c].pc = "idle" THEN call'[c] = NoCall
                                     ELSE call'[c].v # None
    <3> SUFFICES ASSUME NEW c \in Call
                 PROVE  /\ call'[c] \in Calls /\ call'[c].todo \subseteq call'[c].listed
                        /\ IF call'[c].pc = "idle" THEN call'[c] = NoCall
                           ELSE call'[c].v # None
      BY <2>3 DEF Replaced
    <3>1. call'[c] = [call[c] EXCEPT !.same = call[c].same /\ call[c].v # v]
      BY <2>3 DEF Replaced
    <3>2. call[c] \in Calls
      OBVIOUS
    <3>3. CASE call[c].pc = "idle"
      <4>1. call[c] = NoCall /\ NoCall.v # v /\ NoCall.same = TRUE
        BY <3>3 DEF NoCall
      <4>2. call'[c] = [NoCall EXCEPT !.same = TRUE]
        BY <3>1, <4>1
      <4>3. call'[c] = NoCall
        BY <4>2 DEF NoCall
      <4> QED
        BY <4>1, <4>3, <3>2
    <3>4. CASE call[c].pc # "idle"
      BY <3>1, <3>2, <3>4 DEF Calls
    <3> QED
      BY <3>3, <3>4
  <2>4. ASSUME NEW v \in Version, NEW b \in Files, Replace(v, b) PROVE TypeOK'
    BY <2>3, <2>4 DEF Replace, machine
  <2>4a. ASSUME NEW v \in Version,
                CreateVersion(v) \/ (\E b \in Bundles : Upload(v, b)) \/ DeleteBundle(v)
         PROVE  TypeOK'
    <3>1. Empty \in Files
      BY DEF Empty, Files
    <3>2. \E b \in Files : Replace(v, b)
      BY <2>4a, <3>1 DEF CreateVersion, Upload, DeleteBundle
    <3> QED
      BY <2>4, <3>2
  <2>5. ASSUME NEW v \in Version, DeleteVersion(v) PROVE TypeOK'
    BY <2>3, <2>5 DEF DeleteVersion, machine
  <2>6. ASSUME NEW keys \in SUBSET Kid, Deploy(keys) PROVE TypeOK'
    BY <2>6 DEF Deploy, machine
  <2>7. ASSUME NEW c \in Call, NEW rec \in Calls, Put(c, rec), rec.todo \subseteq rec.listed,
               IF rec.pc = "idle" THEN rec = NoCall ELSE rec.v # None
        PROVE  /\ call' \in [Call -> Calls]
               /\ \A q \in Call : /\ call'[q].todo \subseteq call'[q].listed
                                  /\ IF call'[q].pc = "idle" THEN call'[q] = NoCall
                                     ELSE call'[q].v # None
    BY <2>7 DEF Put
  <2>8. NoCall \in Calls /\ NoCall.todo \subseteq NoCall.listed /\ NoCall.pc = "idle"
    BY DEF NoCall, Calls
  <2>9. ASSUME NEW c \in Call, NEW v \in Version, NEW required \in BOOLEAN,
               NEW adminKey \in BOOLEAN, Detail(c, v, required, adminKey)
        PROVE  TypeOK'
    <3> DEFINE vouched == IF required THEN UNION {Authored[k] : k \in trusted} ELSE {}
               rec == [NoCall EXCEPT !.pc = "list", !.v = v, !.required = required,
                       !.vouched = vouched]
    <3>1. vouched \in SUBSET Bundles
      OBVIOUS
    <3> HIDE DEF vouched
    <3>2. rec \in Calls /\ rec.pc # "idle" /\ rec.v # None /\ rec.todo \subseteq rec.listed
      BY <3>1 DEF NoCall, Calls
    <3>3. Put(c, rec)
      BY <2>9 DEF Detail, vouched
    <3> QED
      BY <2>7, <2>9, <3>2, <3>3 DEF Detail, server, machine
  <2>10. ASSUME NEW c \in Call, NEW listed \in SUBSET Path
         PROVE  Left(listed) \in [Path -> FilesOnDisk \cup {None}]
    BY DEF Left
  <2>11. ASSUME NEW c \in Call, List(c) PROVE TypeOK'
    <3> DEFINE listed == Present(bundle[call[c].v])
               rec == [call[c] EXCEPT !.pc = "fetch", !.listed = listed, !.todo = listed]
    <3>1. listed \in SUBSET Path
      BY DEF Present
    <3>2. Put(c, rec) /\ disk' = Left(listed) /\ mixed' \in BOOLEAN
          /\ UNCHANGED server
      BY <2>11 DEF List, OthersFetching
    <3> HIDE DEF listed
    <3>3. call[c] \in Calls /\ call[c].v # None
      BY <2>11 DEF List
    <3>4. rec \in Calls /\ rec.pc # "idle" /\ rec.v # None /\ rec.todo \subseteq rec.listed
      BY <3>1, <3>3 DEF Calls
    <3> QED
      BY <2>7, <2>10, <3>1, <3>2, <3>4 DEF server
  <2>12. ASSUME NEW c \in Call, ListError(c) PROVE TypeOK'
    <3>1. mixed' \in BOOLEAN
      BY <2>12 DEF ListError, OthersFetching
    <3> QED
      BY <2>7, <2>8, <2>10, <2>12, <3>1 DEF ListError, End, server
  <2>13. ASSUME NEW c \in Call, Fetch(c) PROVE TypeOK'
    <3> DEFINE x == Min(call[c].todo)
               file == [from |-> call[c].v, bytes |-> bundle[call[c].v][x]]
               rec == [call[c] EXCEPT !.todo = @ \ {x}]
    <3>1. call[c].pc = "fetch" /\ call[c].todo # {} /\ ~Missing(c, x)
          /\ disk' = [disk EXCEPT ![x] = file] /\ Put(c, rec) /\ UNCHANGED <<server, mixed>>
      BY <2>13 DEF Fetch
    <3>2. x \in call[c].todo /\ x \in Path
      BY <3>1, LeastIsMember, PathsAreSorted DEF Calls
    <3> HIDE DEF x
    <3>3. file \in FilesOnDisk
      BY <3>1, <3>2 DEF Missing, Files, FilesOnDisk, Calls
    <3>4. rec \in Calls /\ rec.pc # "idle" /\ rec.v # None /\ rec.todo \subseteq rec.listed
      BY <3>1 DEF Calls
    <3> QED
      BY <2>7, <3>1, <3>3, <3>4 DEF server
  <2>14. ASSUME NEW c \in Call, Installed(c) \/ Fail(c) PROVE TypeOK'
    BY <2>7, <2>8, <2>14 DEF Installed, Fail, End, server, machine
  <2>15. ASSUME UNCHANGED vars PROVE TypeOK'
    BY <2>15 DEF vars
  <2> QED
    BY <2>1, <2>2, <2>4a, <2>5, <2>6, <2>9, <2>11, <2>12, <2>13, <2>14, <2>15 DEF Next
<1> QED
  BY <1>1, <1>2, PTL DEF Spec

-----------------------------------------------------------------------------
(* The directory.                                                          *)

\* Calls and directory as the next state may have them, by what happens to them.
LEMMA PutKeeps ==
  ASSUME TypeOK, NEW c \in Call, NEW rec, Put(c, rec)
  PROVE  call'[c] = rec /\ \A q \in Call \ {c} : call'[q] = call[q]
BY DEF Put, TypeOK

\* A call that ends, or has not begun to fetch, leaves the others and the directory.
LEMMA LeavingKeeps ==
  ASSUME TypeOK, FetchingAlone, NEW c \in Call, NEW rec, rec.pc # "fetch",
         Put(c, rec), UNCHANGED <<bundle, disk, mixed>>
  PROVE  FetchingAlone'
BY PutKeeps DEF FetchingAlone, Alone, Abreast

LEMMA DirectoryInvariant == Spec => [](FetchingAlone /\ OneVersionOnDisk)
<1> USE NoneIsNothing
<1>1. Init => FetchingAlone /\ OneVersionOnDisk
  BY DEF Init, FetchingAlone, OneVersionOnDisk, NoCall
<1>2. TypeOK /\ FetchingAlone /\ OneVersionOnDisk /\ [Next]_vars
        => FetchingAlone' /\ OneVersionOnDisk'
  <2> SUFFICES ASSUME TypeOK, FetchingAlone, OneVersionOnDisk, [Next]_vars
               PROVE  FetchingAlone' /\ OneVersionOnDisk'
    OBVIOUS
  <2>0. \A c \in Call : call[c] \in Calls
    BY DEF TypeOK
  <2>1. ASSUME UNCHANGED <<bundle, disk, mixed, call>>
        PROVE  FetchingAlone' /\ OneVersionOnDisk'
    BY <2>1 DEF FetchingAlone, Alone, Abreast, OneVersionOnDisk
  <2>2. ASSUME NEW v \in Version, NEW b, bundle' = [bundle EXCEPT ![v] = b],
               Replaced(v), UNCHANGED <<disk, mixed>>
        PROVE  FetchingAlone' /\ OneVersionOnDisk'
    <3>1. \A c \in Call : /\ call'[c].pc = call[c].pc /\ call'[c].v = call[c].v
                          /\ call'[c].listed = call[c].listed /\ call'[c].todo = call[c].todo
                          /\ call'[c].same => call[c].same /\ call[c].v # v
      <4> SUFFICES ASSUME NEW c \in Call
                   PROVE  /\ call'[c].pc = call[c].pc /\ call'[c].v = call[c].v
                          /\ call'[c].listed = call[c].listed /\ call'[c].todo = call[c].todo
                          /\ call'[c].same => call[c].same /\ call[c].v # v
        OBVIOUS
      <4>1. call'[c] = [call[c] EXCEPT !.same = call[c].same /\ call[c].v # v]
        BY <2>2 DEF Replaced
      <4> QED
        BY <4>1, <2>0 DEF Calls
    <3>2. \A w \in Version : w # v => bundle'[w] = bundle[w]
      BY <2>2 DEF TypeOK
    <3>3. \A c \in Call : call[c].pc = "fetch" => call[c].v \in Version
      BY <2>0 DEF TypeOK, Calls
    <3>4. FetchingAlone'
      <4> SUFFICES ASSUME NEW c \in Call, call'[c].pc = "fetch", ~mixed'
                   PROVE  Alone(c)' /\ (call'[c].same => Abreast(c)')
        BY DEF FetchingAlone
      <4>1. Alone(c) /\ (call[c].same => Abreast(c)) /\ call[c].v \in Version
        BY <2>2, <3>1, <3>3 DEF FetchingAlone
      <4>2. Alone(c)'
        BY <4>1, <2>2, <3>1 DEF Alone
      <4>3. call'[c].same => Abreast(c)'
        BY <4>1, <2>2, <3>1, <3>2 DEF Abreast, Present
      <4> QED
        BY <4>2, <4>3
    <3> QED
      BY <3>4, <2>2 DEF OneVersionOnDisk
  <2>3. ASSUME NEW c \in Call, NEW rec, rec.pc # "fetch", Put(c, rec),
               UNCHANGED <<bundle, disk, mixed>>
        PROVE  FetchingAlone' /\ OneVersionOnDisk'
    BY <2>3, LeavingKeeps DEF OneVersionOnDisk
  <2>4. ASSUME NEW c \in Call, NEW v \in Version, NEW required \in BOOLEAN,
               NEW adminKey \in BOOLEAN, Detail(c, v, required, adminKey)
        PROVE  FetchingAlone' /\ OneVersionOnDisk'
    <3> DEFINE vouched == IF required THEN UNION {Authored[k] : k \in trusted} ELSE {}
               rec == [NoCall EXCEPT !.pc = "list", !.v = v, !.required = required,
                       !.vouched = vouched]
    <3>1. rec.pc # "fetch"
      BY DEF NoCall
    <3>2. Put(c, rec) /\ UNCHANGED <<bundle, disk, mixed>>
      BY <2>4 DEF Detail, server, machine
    <3> HIDE DEF rec
    <3> QED
      BY <2>3, <3>1, <3>2
  <2>5. ASSUME NEW c \in Call, List(c) PROVE FetchingAlone' /\ OneVersionOnDisk'
    <3> DEFINE listed == Present(bundle[call[c].v])
               rec == [call[c] EXCEPT !.pc = "fetch", !.listed = listed, !.todo = listed]
    <3>1. /\ Put(c, rec) /\ disk' = Left(listed) /\ mixed' = OthersFetching(c)
          /\ bundle' = bundle /\ bundle[call[c].v] # None
      BY <2>5 DEF List, server
    <3>2. \A x \in Path : disk'[x] = None
      BY <3>1 DEF Left
    <3>3. call'[c] = rec /\ \A q \in Call \ {c} : call'[q] = call[q]
      BY <3>1, PutKeeps
    <3>4. rec.pc = "fetch" /\ rec.v = call[c].v /\ rec.listed = listed /\ rec.todo = listed
      BY <2>0 DEF Calls
    <3>5. FetchingAlone'
      <4> SUFFICES ASSUME NEW q \in Call, call'[q].pc = "fetch", ~mixed'
                   PROVE  Alone(q)' /\ Abreast(q)'
        BY DEF FetchingAlone
      <4>1. \A p \in Call \ {c} : call'[p].pc # "fetch"
        BY <3>1, <3>3 DEF OthersFetching
      <4>2. q = c
        BY <4>1
      <4> HIDE DEF rec
      <4>3. Alone(q)'
        BY <3>2, <3>3, <3>4, <4>1, <4>2 DEF Alone
      <4>4. Abreast(q)'
        BY <3>1, <3>2, <3>3, <3>4, <4>2 DEF Abreast
      <4> QED
        BY <4>3, <4>4
    <3> QED
      BY <3>2, <3>5 DEF OneVersionOnDisk
  <2>6. ASSUME NEW c \in Call, ListError(c) PROVE FetchingAlone' /\ OneVersionOnDisk'
    <3>1. /\ Put(c, NoCall) /\ mixed' = OthersFetching(c)
          /\ \A x \in Path : disk'[x] = None
      BY <2>6 DEF ListError, End, Left
    <3>2. call'[c] = NoCall /\ \A q \in Call \ {c} : call'[q] = call[q]
      BY <3>1, PutKeeps
    <3>3. ~mixed' => \A q \in Call : call'[q].pc # "fetch"
      BY <3>1, <3>2 DEF OthersFetching, NoCall
    <3> QED
      BY <3>1, <3>3 DEF FetchingAlone, OneVersionOnDisk
  <2>7. ASSUME NEW c \in Call, Fetch(c) PROVE FetchingAlone' /\ OneVersionOnDisk'
    <3> DEFINE x == Min(call[c].todo)
               file == [from |-> call[c].v, bytes |-> bundle[call[c].v][x]]
               rec == [call[c] EXCEPT !.todo = @ \ {x}]
    <3>1. /\ call[c].pc = "fetch" /\ disk' = [disk EXCEPT ![x] = file] /\ Put(c, rec)
          /\ bundle' = bundle /\ mixed' = mixed /\ ~Missing(c, x) /\ call[c].todo # {}
      BY <2>7 DEF Fetch, server
    <3>2. x \in call[c].todo /\ x \in Path /\ x \in call[c].listed
      BY <3>1, <2>0, LeastIsMember, PathsAreSorted DEF Calls, TypeOK
    <3> HIDE DEF x
    <3>3. file # None
      <4>1. call[c].v \in Version /\ bundle[call[c].v] \in Files
        BY <3>1, <2>0 DEF TypeOK, Calls, Missing
      <4> QED
        BY <4>1, <3>1, <3>2 DEF Missing, Files, FilesOnDisk
    <3>4. /\ call'[c] = rec /\ \A q \in Call \ {c} : call'[q] = call[q]
      BY <3>1, PutKeeps
    <3>5. /\ rec.pc = "fetch" /\ rec.v = call[c].v /\ rec.listed = call[c].listed
          /\ rec.same = call[c].same /\ rec.todo = call[c].todo \ {x}
      BY <3>1, <2>0 DEF Calls
    <3>6. /\ disk'[x] = file /\ file.from = call[c].v /\ file.bytes = bundle[call[c].v][x]
          /\ \A y \in Path \ {x} : disk'[y] = disk[y]
      BY <3>1, <3>2 DEF TypeOK
    <3>7. ~mixed => Alone(c) /\ (call[c].same => Abreast(c))
      BY <3>1 DEF FetchingAlone
    <3> HIDE DEF rec, file
    <3>8. ~mixed => \A q \in Call : call'[q].pc = "fetch" => q = c
      BY <3>4, <3>7 DEF Alone
    <3>9. ~mixed => Alone(c)'
      BY <3>2, <3>3, <3>4, <3>5, <3>6, <3>7, <3>8 DEF Alone
    <3>10. ~mixed => (call'[c].same => Abreast(c)')
      BY <3>1, <3>2, <3>4, <3>5, <3>6, <3>7 DEF Abreast
    <3>11. ~mixed => \A y \in Path : disk'[y] # None => disk'[y].from = call[c].v
      BY <3>6, <3>7 DEF Alone
    <3> QED
      BY <3>1, <3>8, <3>9, <3>10, <3>11 DEF FetchingAlone, OneVersionOnDisk
  <2>8. NoCall.pc # "fetch"
    BY DEF NoCall
  <2>9. ASSUME NEW c \in Call, Installed(c) \/ Fail(c)
        PROVE  FetchingAlone' /\ OneVersionOnDisk'
    <3>1. Put(c, NoCall) /\ UNCHANGED <<bundle, disk, mixed>>
      BY <2>9 DEF Installed, Fail, End, server, machine
    <3> QED
      BY <2>3, <2>8, <3>1
  <2>10. ASSUME NEW v \in Version,
                CreateVersion(v) \/ (\E b \in Bundles : Upload(v, b)) \/ DeleteBundle(v)
         PROVE  FetchingAlone' /\ OneVersionOnDisk'
    <3>1. PICK b : Replace(v, b)
      BY <2>10 DEF CreateVersion, Upload, DeleteBundle
    <3> QED
      BY <2>2, <3>1 DEF Replace, machine
  <2>11. ASSUME NEW v \in Version, DeleteVersion(v) PROVE FetchingAlone' /\ OneVersionOnDisk'
    BY <2>2, <2>11 DEF DeleteVersion, machine
  <2>12. ASSUME (\E v \in Version : ClearSignature(v) \/ \E k, b : AttachSignature(v, k, b))
                \/ (\E keys : Deploy(keys)) \/ UNCHANGED vars
         PROVE  FetchingAlone' /\ OneVersionOnDisk'
    <3>1. UNCHANGED <<bundle, disk, mixed, call>>
      BY <2>12 DEF AttachSignature, ClearSignature, Deploy, machine, vars
    <3> QED
      BY <2>1, <3>1
  <2> QED
    BY <2>4, <2>5, <2>6, <2>7, <2>9, <2>10, <2>11, <2>12 DEF Next
<1> QED
  BY <1>1, <1>2, TypeCorrect, PTL DEF Spec

\* However calls, uploads, deletions and failures interleave, the files in the
\* directory are of one version, unless two installs wrote to it at the same time.
THEOREM DirectoryIsOfOneVersion == Spec => []OneVersionOnDisk
BY DirectoryInvariant, PTL

-----------------------------------------------------------------------------
(* What a call that reports success has installed.                         *)

\* A call alone with the directory that has nothing left to fetch.
LEMMA AllFetched ==
  ASSUME TypeOK, NEW c \in Call, Alone(c), call[c].todo = {}
  PROVE  /\ Present(OnDisk) = call[c].listed
         /\ (call[c].v \in Version /\ Abreast(c)) => OnDisk = bundle[call[c].v]
<1>1. \A x \in Path : disk[x] = None \/ disk[x].bytes \in Content
  BY DEF TypeOK, FilesOnDisk
<1>2. \A x \in Path : OnDisk[x] # None <=> disk[x] # None
  BY <1>1, NoneIsNothing DEF OnDisk
<1>3. call[c].listed \subseteq Path
  BY DEF TypeOK, Calls
<1>4. Present(OnDisk) = call[c].listed
  BY <1>2, <1>3 DEF Present, Alone
<1>5. ASSUME call[c].v \in Version, Abreast(c) PROVE OnDisk = bundle[call[c].v]
  <2> DEFINE b == bundle[call[c].v]
  <2>1. b \in Files
    BY <1>5 DEF TypeOK, Abreast
  <2>2. \A x \in Path : OnDisk[x] = b[x]
    BY <1>2, <1>4, <1>5 DEF Abreast, Present, OnDisk
  <2> QED
    BY <2>1, <2>2 DEF Files, OnDisk
<1> QED
  BY <1>4, <1>5

\* An install that reports success, and had the directory to itself, has all the files
\* it listed and no other one, as the catalogue has them if they stayed what they were.
THEOREM InstallsAreWhole == Spec => WholeInstalls
<1>1. ASSUME TypeOK, FetchingAlone, NEW c \in Call, Installed(c), ~mixed
      PROVE  /\ Present(OnDisk) = call[c].listed
             /\ call[c].same => OnDisk = bundle[call[c].v]
  <2>1. /\ call[c].pc = "fetch" /\ call[c].todo = {} /\ call[c].v \in Version
        /\ Alone(c) /\ (call[c].same => Abreast(c))
    BY <1>1, NoneIsNothing DEF Installed, FetchingAlone, TypeOK, Calls
  <2> QED
    BY <1>1, <2>1, AllFetched
<1>2. TypeOK /\ FetchingAlone /\ [Next]_vars =>
        [\A c \in Call : (Installed(c) /\ ~mixed) =>
           /\ Present(OnDisk) = call[c].listed
           /\ call[c].same => OnDisk = bundle[call[c].v]]_vars
  BY <1>1
<1> QED
  BY <1>2, TypeCorrect, DirectoryInvariant, PTL DEF Spec, WholeInstalls

-----------------------------------------------------------------------------
(* Signatures.                                                             *)

LEMMA SignatureInvariant == Spec => [](SignaturesAreAuthored /\ ChecksAreVouched)
<1> USE NoneIsNothing
<1>1. Init => SignaturesAreAuthored /\ ChecksAreVouched
  BY DEF Init, SignaturesAreAuthored, ChecksAreVouched, NoCall
<1>2. TypeOK /\ SignaturesAreAuthored /\ ChecksAreVouched /\ [Next]_vars
        => SignaturesAreAuthored' /\ ChecksAreVouched'
  <2> SUFFICES ASSUME TypeOK, SignaturesAreAuthored, ChecksAreVouched, [Next]_vars
               PROVE  SignaturesAreAuthored' /\ ChecksAreVouched'
    OBVIOUS
  <2>0. \A c \in Call : call[c] \in Calls
    BY DEF TypeOK
  <2>1. ASSUME UNCHANGED <<backend, bundle, call>> PROVE ChecksAreVouched'
    BY <2>1 DEF ChecksAreVouched, Digest
  <2>2. ASSUME NEW v \in Version, NEW b, bundle' = [bundle EXCEPT ![v] = b],
               Replaced(v), backend' = backend
        PROVE  ChecksAreVouched'
    <3> SUFFICES ASSUME NEW c \in Call,
                        call'[c].pc # "idle", call'[c].required, call'[c].same
                 PROVE  /\ bundle'[call'[c].v] # None
                        /\ \E d \in call'[c].vouched : Digest(d)' = Digest(bundle[call[c].v])'
      BY DEF ChecksAreVouched
    <3>1. call'[c] = [call[c] EXCEPT !.same = call[c].same /\ call[c].v # v]
      BY <2>2 DEF Replaced
    <3>2. /\ call'[c].pc = call[c].pc /\ call'[c].v = call[c].v /\ call[c].same
          /\ call'[c].required = call[c].required /\ call'[c].vouched = call[c].vouched
          /\ call[c].v # v
      BY <2>0, <3>1 DEF Calls
    <3>3. call[c].v \in Version
      BY <2>0, <3>2 DEF TypeOK, Calls
    <3>4. bundle'[call[c].v] = bundle[call[c].v]
      BY <2>2, <3>2, <3>3 DEF TypeOK
    <3> QED
      BY <2>2, <3>2, <3>4 DEF ChecksAreVouched, Digest
  <2>3. ASSUME NEW c \in Call, NEW rec, Put(c, rec), UNCHANGED server,
               rec.pc = "idle" \/ (/\ call[c].pc # "idle" /\ rec.v = call[c].v
                                   /\ rec.required = call[c].required
                                   /\ rec.same = call[c].same
                                   /\ rec.vouched = call[c].vouched)
        PROVE  SignaturesAreAuthored' /\ ChecksAreVouched'
    <3>1. call'[c] = rec /\ \A q \in Call \ {c} : call'[q] = call[q]
      BY <2>3, PutKeeps
    <3> QED
      BY <2>3, <3>1 DEF SignaturesAreAuthored, ChecksAreVouched, Digest, server
  <2>4. ASSUME NEW v \in Version, NEW k \in Kid, NEW b \in Authored[k] \cup {None},
               AttachSignature(v, k, b)
        PROVE  SignaturesAreAuthored' /\ ChecksAreVouched'
    <3>1. \A w \in Version : sig'[w] = IF w = v THEN [kid |-> k, signed |-> b] ELSE sig[w]
      BY <2>4 DEF AttachSignature, TypeOK
    <3>2. SignaturesAreAuthored'
      BY <2>4, <3>1 DEF SignaturesAreAuthored
    <3> QED
      BY <2>1, <2>4, <3>2 DEF AttachSignature
  <2>5. ASSUME NEW v \in Version, sig' = sig \/ sig' = [sig EXCEPT ![v] = None]
        PROVE  SignaturesAreAuthored'
    BY <2>5 DEF SignaturesAreAuthored, TypeOK
  <2>6. ASSUME NEW v \in Version, ClearSignature(v) PROVE SignaturesAreAuthored' /\ ChecksAreVouched'
    BY <2>1, <2>5, <2>6 DEF ClearSignature
  <2>7. ASSUME NEW v \in Version,
               CreateVersion(v) \/ (\E b \in Bundles : Upload(v, b)) \/ DeleteBundle(v)
        PROVE  SignaturesAreAuthored' /\ ChecksAreVouched'
    <3>1. PICK b : Replace(v, b)
      BY <2>7 DEF CreateVersion, Upload, DeleteBundle
    <3> QED
      BY <2>2, <2>5, <3>1 DEF Replace
  <2>8. ASSUME NEW v \in Version, DeleteVersion(v) PROVE SignaturesAreAuthored' /\ ChecksAreVouched'
    BY <2>2, <2>5, <2>8 DEF DeleteVersion
  <2>9. ASSUME NEW keys, Deploy(keys) PROVE SignaturesAreAuthored' /\ ChecksAreVouched'
    BY <2>1, <2>9 DEF Deploy, SignaturesAreAuthored
  <2>10. ASSUME NEW c \in Call, NEW v \in Version, NEW required \in BOOLEAN,
                NEW adminKey \in BOOLEAN, Detail(c, v, required, adminKey)
         PROVE  SignaturesAreAuthored' /\ ChecksAreVouched'
    <3> DEFINE vouched == IF required THEN UNION {Authored[k] : k \in trusted} ELSE {}
               rec == [NoCall EXCEPT !.pc = "list", !.v = v, !.required = required,
                       !.vouched = vouched]
    <3>1. Put(c, rec) /\ UNCHANGED server /\ bundle[v] # None /\ (required => Verified(v))
      BY <2>10 DEF Detail, Installable
    <3>2. call'[c] = rec /\ \A q \in Call \ {c} : call'[q] = call[q]
      BY <3>1, PutKeeps
    <3>3. rec.v = v /\ rec.required = required /\ rec.vouched = vouched
      BY DEF NoCall
    <3>4. required => \E b \in vouched : Digest(b) = Digest(bundle[v])
      <4>1. required => /\ sig[v].kid \in trusted /\ sig[v].signed \in Authored[sig[v].kid]
                        /\ Digest(sig[v].signed) = Digest(bundle[v])
        BY <3>1 DEF Verified, SignaturesAreAuthored
      <4> QED
        BY <4>1
    <3> HIDE DEF rec, vouched
    <3>5. ChecksAreVouched'
      BY <3>1, <3>2, <3>3, <3>4 DEF ChecksAreVouched, Digest, server
    <3> QED
      BY <3>1, <3>5 DEF SignaturesAreAuthored, server
  <2>11. ASSUME NEW c \in Call, List(c) PROVE SignaturesAreAuthored' /\ ChecksAreVouched'
    <3> DEFINE listed == Present(bundle[call[c].v])
               rec == [call[c] EXCEPT !.pc = "fetch", !.listed = listed, !.todo = listed]
    <3>1. Put(c, rec) /\ UNCHANGED server /\ call[c].pc # "idle"
      BY <2>11 DEF List
    <3>2. /\ rec.v = call[c].v /\ rec.required = call[c].required
          /\ rec.same = call[c].same /\ rec.vouched = call[c].vouched
      BY <2>0 DEF Calls
    <3> HIDE DEF rec
    <3> QED
      BY <2>3, <3>1, <3>2
  <2>12. ASSUME NEW c \in Call, Fetch(c) PROVE SignaturesAreAuthored' /\ ChecksAreVouched'
    <3> DEFINE rec == [call[c] EXCEPT !.todo = @ \ {Min(call[c].todo)}]
    <3>1. Put(c, rec) /\ UNCHANGED server /\ call[c].pc # "idle"
      BY <2>12 DEF Fetch
    <3>2. /\ rec.v = call[c].v /\ rec.required = call[c].required
          /\ rec.same = call[c].same /\ rec.vouched = call[c].vouched
      BY <2>0 DEF Calls
    <3> HIDE DEF rec
    <3> QED
      BY <2>3, <3>1, <3>2
  <2>13. ASSUME NEW c \in Call, ListError(c) \/ Installed(c) \/ Fail(c)
         PROVE  SignaturesAreAuthored' /\ ChecksAreVouched'
    <3>1. Put(c, NoCall) /\ UNCHANGED server /\ NoCall.pc = "idle"
      BY <2>13 DEF ListError, Installed, Fail, End, NoCall
    <3> QED
      BY <2>3, <3>1
  <2>14. ASSUME UNCHANGED vars PROVE SignaturesAreAuthored' /\ ChecksAreVouched'
    BY <2>1, <2>14 DEF vars, SignaturesAreAuthored
  <2> QED
    BY <2>4, <2>6, <2>7, <2>8, <2>9, <2>10, <2>11, <2>12, <2>13, <2>14 DEF Next
<1> QED
  BY <1>1, <1>2, TypeCorrect, PTL DEF Spec

\* An install that required a signature, of a bundle that stayed what it was, has put
\* in the directory what the owner of a trusted key signed: with the inline store byte
\* for byte, with S3 only under the same paths.
THEOREM InstallsAreSigned == Spec => SignedInstalls
<1>1. ASSUME TypeOK, FetchingAlone, ChecksAreVouched, NEW c \in Call,
             Installed(c), ~mixed, call[c].required, call[c].same
      PROVE  \E b \in call[c].vouched :
               IF backend = "inline" THEN OnDisk = b ELSE Present(OnDisk) = Present(b)
  <2>1. /\ call[c].pc = "fetch" /\ call[c].todo = {} /\ call[c].v \in Version
        /\ Alone(c) /\ Abreast(c)
    BY <1>1, NoneIsNothing DEF Installed, FetchingAlone, TypeOK, Calls
  <2>2. OnDisk = bundle[call[c].v]
    BY <1>1, <2>1, AllFetched
  <2>3. PICK b \in call[c].vouched : Digest(b) = Digest(bundle[call[c].v])
    BY <1>1, <2>1 DEF ChecksAreVouched
  <2>4. backend \in {"inline", "s3"}
    BY <1>1, BackendsAreKnown DEF TypeOK
  <2> QED
    BY <2>2, <2>3, <2>4 DEF Digest
<1>2. TypeOK /\ FetchingAlone /\ ChecksAreVouched /\ [Next]_vars =>
        [\A c \in Call :
           (Installed(c) /\ ~mixed /\ call[c].required /\ call[c].same) =>
             \E b \in call[c].vouched :
               IF backend = "inline" THEN OnDisk = b ELSE Present(OnDisk) = Present(b)]_vars
  BY <1>1
<1> QED
  BY <1>2, TypeCorrect, DirectoryInvariant, SignatureInvariant, PTL DEF Spec, SignedInstalls
=============================================================================
