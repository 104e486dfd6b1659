----------------------------- MODULE CatalogTx -----------------------------
(***************************************************************************)
(* The requests of Catalog as sequences of SQL statements, run by several  *)
(* workers under READ COMMITTED.  A step is a statement that reads or      *)
(* locks, or the last flush with the commit.  A worker keeps what it has   *)
(* read.  An UPDATE or DELETE goes by primary key and keys are not reused: *)
(* a row read and then deleted by another worker is lost to its reader,    *)
(* even when the same version is inserted again.                           *)
(***************************************************************************)
EXTENDS Catalog

CONSTANTS
  Worker,      \* request-serving threads, over all replicas
  Vis          \* the visibilities clients ask for

ASSUME VisIsVisibility == Vis \subseteq Visibility

VARIABLE w     \* w[p]: what worker p is doing

tables == <<skills, sets, links, shares>>
txvars == <<skills, sets, links, shares, w>>

\* Fields: op, the request; v and new, the version written and its requested row;
\* ss, skillsets to link, or those whose links are deleted; flags, is_latest as the
\* session holds it for the versions it has read; best, the version chosen as latest;
\* holds, rows locked; lost, rows read that are deleted by now; a and e, the account or
\* address of the request.
NoFlags == [x \in {} |-> FALSE]

Idle == [pc |-> "idle", op |-> "none", v |-> None, new |-> None, ss |-> {},
         flags |-> NoFlags, best |-> None, holds |-> {}, lost |-> {}, a |-> None, e |-> None]

Refreshing == {"create", "upsert", "delete"}
Ops == Refreshing \cup {"delete_all", "move", "link", "share"}
Flags == UNION {[vs -> BOOLEAN] : vs \in SUBSET Version}

Requests ==
  [pc : {"idle", "write", "count", "refresh", "commit", "unlink", "drop"}, op : Ops \cup {"none"},
   v : Version \cup {None}, new : Row \cup {None}, ss : SUBSET Skillset,
   flags : Flags, best : Version \cup {None},
   holds : SUBSET Version, lost : SUBSET Version,
   a : Account \cup {None}, e : Email \cup {None}]

TxTypeOK == TypeOK /\ w \in [Worker -> Requests]

TxInit == Init /\ w = [p \in Worker |-> Idle]

-----------------------------------------------------------------------------
At(p, pc, op) == w[p].pc = pc /\ w[p].op = op
Free(p)       == w[p].pc = "idle"
Put(p, rec)   == w' = [w EXCEPT ![p] = rec] /\ UNCHANGED tables
Done(p)       == w' = [w EXCEPT ![p] = Idle]

\* A request that fails: the session closes and rolls back.
Fail(p) == Done(p) /\ UNCHANGED tables

\* p commits having deleted vs: whoever has read one of those rows has lost it.
DoneDeleting(p, vs) ==
  w' = [q \in Worker |->
          IF q = p THEN Idle
          ELSE [w[q] EXCEPT !.lost = @ \cup (vs \cap DOMAIN w[q].flags)]]

\* Rows another worker has written and not committed.
Locked(p, vs) == \E q \in Worker \ {p} : w[q].holds \cap vs # {}

\* The unique key (id, version) of an insert that is not committed.
Claimed(p, v) == \E q \in Worker \ {p} :
  w[q].op = "create" /\ w[q].pc \in {"refresh", "commit"} /\ w[q].v = v

\* Links another worker has deleted and not committed: whoever inserts or deletes
\* one of them waits.
HeldLinks == UNION {w[q].ss : q \in {q \in Worker : w[q].pc = "drop"}}

Read(vs) == [x \in vs |-> skills[x].latest]

-----------------------------------------------------------------------------
(* create_skill, upsert_skill and delete_skill_version: look, write,       *)
(* refresh is_latest, commit.                                              *)

CreatePeek(p, v, a, vis, ss) ==
  /\ Free(p) /\ ss \subseteq sets
  /\ Put(p, [Idle EXCEPT !.pc = "write", !.op = "create", !.v = v,
             !.new = NewRow(a, vis), !.ss = ss])

UpsertPeek(p, v, vis) ==
  /\ Free(p)
  /\ IF skills[v] = None
     THEN Put(p, [Idle EXCEPT !.pc = "write", !.op = "create", !.v = v,
                  !.new = NewRow(None, vis)])
     ELSE Put(p, [Idle EXCEPT !.pc = "write", !.op = "upsert", !.v = v,
                  !.new = NewRow(None, vis), !.flags = Read({v})])

DeletePeek(p, v) ==
  /\ Free(p) /\ skills[v] # None
  /\ Put(p, [Idle EXCEPT !.pc = "write", !.op = "delete", !.v = v, !.flags = Read({v})])

\* INSERT: waits for a rival with the same key, then fails on it (409 or 500).
Insert(p) ==
  LET v == w[p].v
  IN /\ At(p, "write", "create") /\ ~Claimed(p, v) /\ ~Locked(p, {v})
     /\ IF skills[v] # None THEN Fail(p) ELSE Put(p, [w[p] EXCEPT !.pc = "refresh"])

\* UPDATE or DELETE of the version's row: locks it, or finds it gone.
WriteRow(p) ==
  LET me == w[p]
  IN /\ At(p, "write", "upsert") \/ At(p, "write", "delete")
     /\ ~Locked(p, {me.v})
     /\ IF me.v \in me.lost THEN Fail(p)
        ELSE Put(p, [me EXCEPT !.pc = IF me.op = "delete" THEN "count" ELSE "refresh",
                     !.holds = {me.v}])

\* delete_skill_version counts the versions that remain: after the last one it
\* deletes the links and refreshes nothing.
Count(p) ==
  /\ At(p, "count", "delete")
  /\ Put(p, [w[p] EXCEPT !.pc = IF Existing(skills) \subseteq {w[p].v} THEN "unlink"
                                ELSE "refresh"])

\* The query of _refresh_is_latest, with the link checks before it.  It sees the
\* worker's own write; an object the session had loaded keeps its old flag.
Siblings(p) ==
  LET me == w[p]  others == Existing(skills) \ {me.v}
  IN [x \in IF me.op = "delete" THEN others ELSE others \cup {me.v} |->
        IF x # me.v THEN skills[x].latest ELSE me.op = "upsert" /\ me.flags[x]]

RefreshRead(p) ==
  LET seen == Siblings(p)
  IN /\ w[p].pc = "refresh"
     /\ \E best \in IF DOMAIN seen = {} THEN {None} ELSE Highest(DOMAIN seen) :
          Put(p, [w[p] EXCEPT !.pc = "commit", !.flags = seen, !.best = best,
                  !.ss = @ \ links])

\* The rows whose flag the session changes: no other gets an UPDATE.  The variant
\* sets the new flag and forgets to clear the old one.
NewFlagOnly(p) ==
  {x \in DOMAIN w[p].flags : x = w[p].best /\ ~w[p].flags[x]}
ChangedFlags(p) ==
  {x \in DOMAIN w[p].flags : w[p].flags[x] # (x = w[p].best)}

\* The rows the last flush has to lock, and whether it fails: an UPDATE finds its
\* row gone, or a link conflicts with a rival's or with a skillset's deletion.
Targets(p) == ChangedFlags(p) \ {w[p].v}
FlushFails(p) ==
  \/ Targets(p) \cap w[p].lost # {}
  \/ w[p].ss \cap links # {} \/ ~(w[p].ss \subseteq sets)

\* The row of the worker's own version after the flush.  The variant rewrites an
\* existing row whole, account included.
OwnRowRestamped(p) ==
  IF w[p].op = "delete" THEN None ELSE [w[p].new EXCEPT !.latest = (w[p].v = w[p].best)]

OwnRow(p) ==
  LET me == w[p]
  IN CASE me.op = "create" -> [me.new EXCEPT !.latest = (me.v = me.best)]
       [] me.op = "upsert" -> [skills[me.v] EXCEPT !.vis = me.new.vis,
            !.latest = IF me.v \in ChangedFlags(p) THEN me.v = me.best ELSE @]
       [] me.op = "delete" -> None

RefreshCommit(p) ==
  LET me == w[p]
  IN /\ me.pc = "commit" /\ me.op \in Refreshing
     /\ ~Locked(p, Targets(p)) /\ me.ss \cap HeldLinks = {}
     /\ IF FlushFails(p) THEN Fail(p)
        ELSE /\ skills' = [x \in Version |->
                  IF x = me.v THEN OwnRow(p)
                  ELSE IF x \in Targets(p) THEN [skills[x] EXCEPT !.latest = (x = me.best)]
                  ELSE skills[x]]
             /\ links' = links \cup me.ss
             /\ IF me.op = "delete" THEN DoneDeleting(p, {me.v}) ELSE Done(p)
             /\ UNCHANGED <<sets, shares>>

\* Two refreshes that each hold a row the other must update: one is aborted.
WaitsFor(p, q) == w[p].pc = "commit" /\ Targets(p) \cap w[q].holds # {}

DeadlockVictim(p) ==
  /\ \E q \in Worker \ {p} : WaitsFor(p, q) /\ WaitsFor(q, p)
  /\ Fail(p)

-----------------------------------------------------------------------------
(* delete_skill_all: the rows, then the links; a request that finds no row *)
(* removes the links all the same.                                         *)

DeleteAllRows(p) ==
  /\ Free(p) /\ ~Locked(p, Existing(skills))
  /\ Put(p, [Idle EXCEPT !.pc = "unlink", !.op = "delete_all", !.holds = Existing(skills)])

\* DELETE FROM skill_skillsets, here and after the last version: a statement of its
\* own, that sees the links committed when it starts.
UnlinkAll(p) ==
  /\ w[p].pc = "unlink" /\ links \cap HeldLinks = {}
  /\ Put(p, [w[p] EXCEPT !.pc = "drop", !.ss = links])

\* The commit of both.  A link that was committed after the DELETE stays.
DropWith(p, gone) ==
  /\ w[p].pc = "drop"
  /\ skills' = [v \in Version |-> IF v \in w[p].holds THEN None ELSE skills[v]]
  /\ links' = links \ gone
  /\ DoneDeleting(p, w[p].holds)
  /\ UNCHANGED <<sets, shares>>

\* The variant leaves the links behind.
RowsOnly(p) == DropWith(p, {})
Drop(p)     == DropWith(p, w[p].ss)

(* move_skill: the rows to rewrite are those in another account, and every *)
(* row when they have an owner to clear.                                   *)

MoveRead(p, a) ==
  LET rows == Existing(skills)  away == {v \in rows : skills[v].home # a}
  IN /\ Free(p) /\ rows # {}
     /\ \E moved \in {away, rows} :
          Put(p, [Idle EXCEPT !.pc = "commit", !.op = "move", !.a = a, !.flags = Read(moved)])

MoveCommit(p) ==
  LET me == w[p]  moved == DOMAIN me.flags
  IN /\ At(p, "commit", "move") /\ ~Locked(p, moved)
     /\ IF moved \cap me.lost # {} THEN Fail(p)
        ELSE /\ skills' = [v \in Version |->
                  IF v \in moved THEN [skills[v] EXCEPT !.home = me.a] ELSE skills[v]]
             /\ shares' = {}
             /\ Done(p) /\ UNCHANGED <<sets, links>>

-----------------------------------------------------------------------------
(* add_skill_to_skillset and add_skill_share: check, then insert.          *)

LinkPeek(p, s) ==
  /\ Free(p) /\ s \in sets \ links /\ Existing(skills) # {}
  /\ Put(p, [Idle EXCEPT !.pc = "commit", !.op = "link", !.ss = {s}])

LinkCommit(p) ==
  /\ At(p, "commit", "link") /\ w[p].ss \cap HeldLinks = {}
  /\ links' = IF w[p].ss \subseteq sets THEN links \cup w[p].ss ELSE links
  /\ Done(p) /\ UNCHANGED <<skills, sets, shares>>

SharePeek(p, e) ==
  /\ Free(p) /\ \E v \in Flagged(skills) : skills[v].vis # "public"
  /\ Put(p, [Idle EXCEPT !.pc = "commit", !.op = "share", !.e = e])

ShareCommit(p) ==
  /\ At(p, "commit", "share")
  /\ shares' = shares \cup {w[p].e}
  /\ Done(p) /\ UNCHANGED <<skills, sets, links>>

\* Requests of a single statement that matters, served by a free worker.
OneShot(action) == action /\ (\E p \in Worker : Free(p)) /\ UNCHANGED w

SetCreated(s) == OneShot(CreateSkillset(s))
SetDeleted(s) == OneShot(DeleteSkillset(s)) /\ s \notin HeldLinks
Unlinked(s)   == OneShot(Unlink(s)) /\ s \notin HeldLinks
Unshared(e)   == OneShot(Unshare(e))

-----------------------------------------------------------------------------
Arrive(p) ==
  \/ \E v \in Version, a \in Account \cup {None}, vis \in Vis, ss \in SUBSET Skillset :
       CreatePeek(p, v, a, vis, ss)
  \/ \E v \in Version, vis \in Vis : UpsertPeek(p, v, vis)
  \/ \E v \in Version : DeletePeek(p, v)
  \/ DeleteAllRows(p)
  \/ \E a \in Account : MoveRead(p, a)
  \/ \E s \in Skillset : LinkPeek(p, s)
  \/ \E e \in Email : SharePeek(p, e)

Proceed(p) ==
  \/ Insert(p) \/ WriteRow(p) \/ Count(p) \/ RefreshRead(p) \/ RefreshCommit(p)
  \/ DeadlockVictim(p) \/ UnlinkAll(p) \/ Drop(p) \/ MoveCommit(p) \/ LinkCommit(p) \/ ShareCommit(p)

TxNext ==
  \/ \E p \in Worker : Arrive(p) \/ Proceed(p)
  \/ \E s \in Skillset : SetCreated(s) \/ SetDeleted(s) \/ Unlinked(s)
  \/ \E e \in Email : Unshared(e)

TxSpec == TxInit /\ [][TxNext]_txvars

-----------------------------------------------------------------------------
(* Properties.                                                             *)

\* What a committing request relies on is not so any more: the versions its refresh
\* has read, and that there still were some for the one that counted them; that it
\* has deleted every row and every link; that the skill it links exists.
Overtaken(p) ==
  LET me == w[p]  others == Existing(skills) \ {me.v}
  IN \/ /\ me.pc = "commit" /\ me.op \in Refreshing
        /\ \/ DOMAIN me.flags \ {me.v} # others
           \/ \E x \in others : me.flags[x] # skills[x].latest
           \/ me.op = "upsert" /\ me.flags[me.v] # skills[me.v].latest
           \/ me.op = "delete" /\ DOMAIN me.flags = {}
     \/ me.pc = "drop" /\ (Existing(skills) # me.holds \/ ~(links \subseteq me.ss))
     \/ me.op = "link" /\ Existing(skills) = {}

\* The latest flag goes wrong, or a link outlives its skill, only at the commit of
\* a request that was overtaken between one of its statements and its commit; nothing
\* else in the catalog (moves, shares, skillset changes, aborted requests) can do it.
DamageNeedsRace ==
  [][(OneLatest /\ LinksAlive /\ ~(OneLatest /\ LinksAlive)') =>
        \E p \in Worker : w[p].pc \in {"commit", "drop"} /\ w'[p] # w[p] /\ Overtaken(p)]_txvars

\* Whatever state earlier races left, a create, upsert or version delete that
\* commits without being overtaken leaves exactly one latest version, the newest.
RefreshHeals ==
  [][\A p \in Worker :
       (/\ w[p].pc = "commit" /\ w[p].op \in Refreshing
        /\ w'[p] = Idle /\ skills' # skills /\ ~Overtaken(p)) => OneLatest']_txvars

\* One worker serving every request implements the serial catalog.
Serial == INSTANCE Catalog
ImplementsCatalog == Serial!Spec
=============================================================================
