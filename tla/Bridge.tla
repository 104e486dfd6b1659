------------------------------- MODULE Bridge -------------------------------
(***************************************************************************)
(* Signed bundles and their installation: the versions of one skill with   *)
(* the signatures attached to them (mcp_server/bundle_signing.py,          *)
(* routers/bundle_signature.py, routers/admin.py), and the download_skill  *)
(* calls of MCP bridges that share a skills directory                      *)
(* (tools/mcp-bridge/skillful_bridge.py).  A call is a series of requests, *)
(* one for the detail, one for the list of files and one per file, and the *)
(* catalogue, the signatures and the directory change between them.        *)
(*                                                                         *)
(* Bundles tells how a bundle is stored; here an upload is one step, that  *)
(* nothing disturbs.  A signature is the pair of a key and the bundle whose*)
(* digest its author signed with it, or no bundle when it is malformed or  *)
(* made with another key.                                                  *)
(*                                                                         *)
(* mixed is history: whether an install has begun while another one was    *)
(* writing, and none has begun alone since.                                *)
(***************************************************************************)
EXTENDS Integers, FiniteSetsExt

CONSTANTS
  Version, Call, Kid,
  Path,        \* file paths in sorted order
  Content,
  Bundles,     \* what clients upload and authors sign
  Authored,    \* Authored[k]: the bundles the owner of key k signs
  Backends,    \* values MCP_BUNDLE_STORE may have
  None

Files == [Path -> Content \cup {None}]
Present(files) == {x \in Path : files[x] # None}
Empty == [x \in Path |-> None]

ASSUME PathsAreSorted   == Path \subseteq Nat
ASSUME BundlesAreFull   == Bundles \subseteq {b \in Files : Present(b) # {}}
ASSUME AuthorsSign      == Authored \in [Kid -> SUBSET Bundles]
ASSUME BackendsAreKnown == Backends \subseteq {"inline", "s3"}

\* A signature as the row has it, and a file in the skills directory.
Signatures  == [kid : Kid, signed : Bundles \cup {None}]
FilesOnDisk == [from : Version, bytes : Content]

ASSUME NoneIsNothing ==
  None \notin Content \cup Version \cup Kid \cup Files \cup Signatures \cup FilesOnDisk

VARIABLES
  backend,     \* the bundle store, chosen at deployment
  bundle,      \* bundle[v]: the files of version v; None when there is no such version
  sig,         \* sig[v]: bundle_signature and its kid; None when cleared
  trusted,     \* keys of MCP_BUNDLE_SIGNING_PUBLIC_KEYS
  disk,        \* the skill's directory: at each path the version it is from and bytes
  call,        \* the download_skill call each slot is running
  mixed

vars    == <<backend, bundle, sig, trusted, disk, call, mixed>>
server  == <<backend, bundle, sig, trusted>>
machine == <<disk, mixed>>

\* v, the version asked for; required, require_signature; vouched, the bundles
\* signed with the keys trusted at the check; listed and todo, the paths listed and
\* those not fetched yet; same, whether the bundle of v is what it was at the check.
NoCall == [pc |-> "idle", v |-> None, required |-> FALSE, vouched |-> {},
           listed |-> {}, todo |-> {}, same |-> TRUE]

Calls == [pc : {"idle", "list", "fetch"}, v : Version \cup {None}, required : BOOLEAN,
          vouched : SUBSET Bundles, listed : SUBSET Path, todo : SUBSET Path, same : BOOLEAN]

TypeOK ==
  /\ backend \in Backends /\ trusted \subseteq Kid /\ mixed \in BOOLEAN
  /\ bundle \in [Version -> Files \cup {None}]
  /\ sig \in [Version -> Signatures \cup {None}]
  /\ disk \in [Path -> FilesOnDisk \cup {None}]
  /\ call \in [Call -> Calls]
  /\ \A c \in Call : /\ call[c].todo \subseteq call[c].listed
                     /\ IF call[c].pc = "idle" THEN call[c] = NoCall ELSE call[c].v # None

Init ==
  /\ backend \in Backends
  /\ bundle = [v \in Version |-> None] /\ sig = [v \in Version |-> None]
  /\ trusted = Kid
  /\ disk = [x \in Path |-> None] /\ mixed = FALSE
  /\ call = [c \in Call |-> NoCall]

-----------------------------------------------------------------------------
(* Signatures.                                                             *)

\* compute_bundle_digest hashes the rows of the index: paths and contents inline,
\* paths and no contents in S3.  The variant leaves the contents out everywhere.
DigestOfPaths(b) == Present(b)
Digest(b) == IF backend = "s3" THEN Present(b) ELSE b

\* verify_skill, against the trust store of the moment.
Verified(v) ==
  /\ sig[v] # None /\ sig[v].kid \in trusted /\ sig[v].signed # None
  /\ Digest(sig[v].signed) = Digest(bundle[v])

\* A signature is stored as it comes, valid or not.
AttachSignature(v, k, b) ==
  /\ bundle[v] # None
  /\ sig' = [sig EXCEPT ![v] = [kid |-> k, signed |-> b]]
  /\ UNCHANGED <<backend, bundle, trusted, machine, call>>

ClearSignature(v) ==
  /\ bundle[v] # None /\ sig[v] # None
  /\ sig' = [sig EXCEPT ![v] = None]
  /\ UNCHANGED <<backend, bundle, trusted, machine, call>>

\* The trust store is read from the environment, which a deployment changes.
Deploy(keys) ==
  /\ keys # trusted
  /\ trusted' = keys
  /\ UNCHANGED <<backend, bundle, sig, machine, call>>

-----------------------------------------------------------------------------
(* Bundles, as they change under the bridge.  A new bundle leaves the      *)
(* signature of the old one in place; a new version has no files and none. *)

Replaced(v) == call' = [c \in Call |-> [call[c] EXCEPT !.same = @ /\ call[c].v # v]]

Replace(v, b) ==
  /\ bundle' = [bundle EXCEPT ![v] = b]
  /\ Replaced(v)
  /\ UNCHANGED <<backend, sig, trusted, machine>>

CreateVersion(v) == bundle[v] = None /\ Replace(v, Empty)
Upload(v, b)     == bundle[v] \notin {None, b} /\ Replace(v, b)
DeleteBundle(v)  == bundle[v] \notin {None, Empty} /\ Replace(v, Empty)

DeleteVersion(v) ==
  /\ bundle[v] # None
  /\ bundle' = [bundle EXCEPT ![v] = None] /\ sig' = [sig EXCEPT ![v] = None]
  /\ Replaced(v)
  /\ UNCHANGED <<backend, trusted, machine>>

-----------------------------------------------------------------------------
(* download_skill.  Any request may fail; an exception ends the call.      *)

Put(c, rec) == call' = [call EXCEPT ![c] = rec]

\* The variant leaves what the call knew to the next one.
EndKeeping(c) == Put(c, [call[c] EXCEPT !.pc = "idle"])
End(c) == Put(c, NoCall)

\* Only the admin endpoint computes verified, that is with an admin key and no token.
\* The variant takes a response that does not tell for a good one.
InstallableUnlessRefuted(v, required, adminKey) == required /\ adminKey => Verified(v)
Installable(v, required, adminKey) == required => adminKey /\ Verified(v)

\* The detail of a version, the latest or the one named.  A refused call ends here.
Detail(c, v, required, adminKey) ==
  /\ call[c].pc = "idle" /\ bundle[v] # None
  /\ Installable(v, required, adminKey)
  /\ Put(c, [NoCall EXCEPT !.pc = "list", !.v = v, !.required = required,
             !.vouched = IF required THEN UNION {Authored[k] : k \in trusted} ELSE {}])
  /\ UNCHANGED <<server, machine>>

OthersFetching(c) == \E q \in Call \ {c} : call[q].pc = "fetch"

\* What is left in the directory for a call that has listed the given paths.  The
\* variant removes only the files it is about to write.
LeftUnlisted(listed) == [x \in Path |-> IF x \in listed THEN None ELSE disk[x]]
Left(listed) == [x \in Path |-> None]

\* The list of files; nothing awaits between its response and the wipe.
List(c) ==
  /\ call[c].pc = "list" /\ bundle[call[c].v] # None
  /\ LET listed == Present(bundle[call[c].v])
     IN /\ Put(c, [call[c] EXCEPT !.pc = "fetch", !.listed = listed, !.todo = listed])
        /\ disk' = Left(listed)
  /\ mixed' = OthersFetching(c)
  /\ UNCHANGED server

\* An error response is JSON too and its status is not looked at: the directory is
\* wiped before the call trips over its keys.
ListError(c) ==
  /\ call[c].pc = "list"
  /\ disk' = Left({})
  /\ mixed' = OthersFetching(c)
  /\ End(c)
  /\ UNCHANGED server

\* The variant skips a file that is not there any more.
Missing(c, x) == bundle[call[c].v] = None \/ bundle[call[c].v][x] = None
FetchSkipping(c) ==
  LET x == Min(call[c].todo)
  IN /\ call[c].pc = "fetch" /\ call[c].todo # {}
     /\ disk' = IF Missing(c, x) THEN disk
                ELSE [disk EXCEPT ![x] = [from |-> call[c].v, bytes |-> bundle[call[c].v][x]]]
     /\ Put(c, [call[c] EXCEPT !.todo = @ \ {x}])
     /\ UNCHANGED <<server, mixed>>
Fetch(c) ==
  LET x == Min(call[c].todo)
  IN /\ call[c].pc = "fetch" /\ call[c].todo # {} /\ ~Missing(c, x)
     /\ disk' = [disk EXCEPT ![x] = [from |-> call[c].v, bytes |-> bundle[call[c].v][x]]]
     /\ Put(c, [call[c] EXCEPT !.todo = @ \ {x}])
     /\ UNCHANGED <<server, mixed>>

Installed(c) ==
  /\ call[c].pc = "fetch" /\ call[c].todo = {}
  /\ End(c)
  /\ UNCHANGED <<server, machine>>

\* A transport error, a 404 for a file, or the end of the process.
Fail(c) ==
  /\ call[c].pc = "list" \/ call[c].todo # {}
  /\ End(c)
  /\ UNCHANGED <<server, machine>>

Next ==
  \/ \E v \in Version :
       \/ \E k \in Kid : \E b \in Authored[k] \cup {None} : AttachSignature(v, k, b)
       \/ ClearSignature(v)
       \/ CreateVersion(v)
       \/ \E b \in Bundles : Upload(v, b)
       \/ DeleteBundle(v)
       \/ DeleteVersion(v)
  \/ \E keys \in SUBSET Kid : Deploy(keys)
  \/ \E c \in Call :
       \/ \E v \in Version, required, adminKey \in BOOLEAN : Detail(c, v, required, adminKey)
       \/ List(c) \/ ListError(c) \/ Fetch(c) \/ Installed(c) \/ Fail(c)

Spec == Init /\ [][Next]_vars

-----------------------------------------------------------------------------
(* Properties.                                                             *)

\* The bytes in the directory.
OnDisk == [x \in Path |-> IF disk[x] = None THEN None ELSE disk[x].bytes]

\* Whatever became of the installs so far, the files in the directory are of one
\* version, unless two installs ran at the same time.
OneVersionOnDisk ==
  ~mixed => \A x, y \in Path :
              disk[x] # None /\ disk[y] # None => disk[x].from = disk[y].from

\* An install that reports success has every file it listed and no other, with the
\* bytes of the catalogue if they stayed what they were.
WholeInstalls ==
  [][\A c \in Call :
       (Installed(c) /\ ~mixed) =>
         /\ Present(OnDisk) = call[c].listed
         /\ call[c].same => OnDisk = bundle[call[c].v]]_vars

\* With require_signature, what is installed from a bundle that stayed what it was is
\* what the owner of a key trusted at the check has signed: its files, and with the
\* inline store their contents.
SignedInstalls ==
  [][\A c \in Call :
       (Installed(c) /\ ~mixed /\ call[c].required /\ call[c].same) =>
         \E b \in call[c].vouched :
           IF backend = "inline" THEN OnDisk = b ELSE Present(OnDisk) = Present(b)]_vars
=============================================================================
