--------------------------- MODULE CatalogProofs ---------------------------
(***************************************************************************)
(* What the catalog promises for every set of versions and every semver    *)
(* order on them, ties included: first when requests do not overlap, then  *)
(* for the transactions of CatalogTx and any number of workers.            *)
(***************************************************************************)
EXTENDS CatalogTx, TLAPS

-----------------------------------------------------------------------------
(* Requests that do not overlap.                                           *)

\* _refresh_is_latest leaves typed rows of the same versions, exactly one of them
\* flagged and none ranked above it.
LEMMA RefreshIsSound ==
  ASSUME NEW rows \in [Version -> Row \cup {None}], Refresh(rows)
  PROVE  /\ skills' \in [Version -> Row \cup {None}]
         /\ Existing(skills') = Existing(rows)
         /\ OneLatest'
<1> USE NoneIsNoRow, RankIsOrder
<1>1. CASE Existing(rows) = {}
  BY <1>1 DEF Refresh, OneLatest, Existing
<1>2. CASE Existing(rows) # {}
  <2>1. PICK chosen \in Highest(Existing(rows)) : skills' = Refreshed(rows, chosen)
    BY <1>2 DEF Refresh
  <2>2. \A v \in Version : rows[v] # None =>
          /\ [rows[v] EXCEPT !.latest = (v = chosen)] \in Row
          /\ [rows[v] EXCEPT !.latest = (v = chosen)].latest = (v = chosen)
    BY DEF Row
  <2>3. skills' \in [Version -> Row \cup {None}]
    BY <2>1, <2>2 DEF Refreshed
  <2>4. Existing(skills') = Existing(rows)
    BY <2>1, <2>2 DEF Refreshed, Existing
  <2>5. chosen \in Existing(rows) /\ \A x \in Existing(rows) : Rank[x] <= Rank[chosen]
    BY DEF Highest
  <2>6. Flagged(skills') = {chosen}
    BY <2>1, <2>2, <2>4, <2>5 DEF Refreshed, Flagged, Existing
  <2>7. OneLatest'
    BY <2>4, <2>5, <2>6 DEF OneLatest
  <2> QED
    BY <2>3, <2>4, <2>7
<1> QED
  BY <1>1, <1>2

\* A row create_skill or upsert_skill inserts is typed: it always has an account.
LEMMA NewRowIsRow ==
  ASSUME NEW a \in Account \cup {None}, NEW vis \in Visibility
  PROVE  NewRow(a, vis) \in Row /\ NewRow(a, vis) # None
<1> DEFINE home == IF a = None THEN Default ELSE a
<1>1. home \in Account
  BY DefaultIsAccount
<1>2. [latest |-> FALSE, home |-> home, vis |-> vis] \in Row
  BY <1>1 DEF Row
<1> QED
  BY <1>2, NoneIsNoRow DEF NewRow

\* The inductive invariant: OneLatest needs typed rows, LinksAlive needs nothing of
\* OneLatest, but both follow from the same step analysis.
IInv == TypeOK /\ OneLatest /\ LinksAlive

LEMMA Inductive == IInv /\ [Next]_vars => IInv'
<1> SUFFICES ASSUME IInv, [Next]_vars PROVE IInv'
  OBVIOUS
<1> USE NoneIsNoRow DEF IInv, TypeOK
<1>1. ASSUME NEW v \in Version, NEW a \in Account \cup {None}, NEW vis \in Visibility,
             NEW ss \in SUBSET Skillset, CreateSkill(v, a, vis, ss)
      PROVE IInv'
  <2> DEFINE rows == [skills EXCEPT ![v] = NewRow(a, vis)]
  <2>1. rows \in [Version -> Row \cup {None}] /\ v \in Existing(rows)
    BY NewRowIsRow DEF Existing
  <2>2. /\ skills' \in [Version -> Row \cup {None}]
        /\ Existing(skills') = Existing(rows) /\ OneLatest'
    BY <1>1, <2>1, RefreshIsSound DEF CreateSkill
  <2>3. LinksAlive'
    BY <1>1, <2>1, <2>2 DEF CreateSkill, LinksAlive
  <2> QED
    BY <1>1, <2>2, <2>3 DEF CreateSkill
<1>2. ASSUME NEW v \in Version, NEW vis \in Visibility, UpsertSkill(v, vis) PROVE IInv'
  <2> DEFINE rows == [skills EXCEPT ![v] =
               IF skills[v] = None THEN NewRow(None, vis) ELSE [@ EXCEPT !.vis = vis]]
  <2>1. skills[v] # None => [skills[v] EXCEPT !.vis = vis] \in Row
    BY DEF Row
  <2>2. rows \in [Version -> Row \cup {None}] /\ v \in Existing(rows)
    BY <2>1, NewRowIsRow DEF Existing
  <2>3. /\ skills' \in [Version -> Row \cup {None}]
        /\ Existing(skills') = Existing(rows) /\ OneLatest'
    BY <1>2, <2>2, RefreshIsSound DEF UpsertSkill
  <2>4. LinksAlive'
    BY <1>2, <2>2, <2>3 DEF UpsertSkill, LinksAlive
  <2> QED
    BY <1>2, <2>3, <2>4 DEF UpsertSkill
<1>3. ASSUME NEW v \in Version, DeleteVersion(v) PROVE IInv'
  <2> DEFINE rows == [skills EXCEPT ![v] = None]
  <2>1. rows \in [Version -> Row \cup {None}] /\ Existing(rows) = Existing(skills) \ {v}
    BY DEF Existing
  <2>2. /\ skills' \in [Version -> Row \cup {None}]
        /\ Existing(skills') = Existing(rows) /\ OneLatest'
    BY <1>3, <2>1, RefreshIsSound DEF DeleteVersion
  <2>3. v \in Existing(skills)
    BY <1>3 DEF DeleteVersion, Existing
  <2>4. LinksAlive'
    BY <1>3, <2>1, <2>2, <2>3 DEF DeleteVersion, LinksAlive
  <2> QED
    BY <1>3, <2>2, <2>4 DEF DeleteVersion
<1>4. CASE DeleteAll
  BY <1>4 DEF DeleteAll, OneLatest, LinksAlive, Existing
<1>5. ASSUME NEW a \in Account, MoveSkill(a) PROVE IInv'
  <2>1. \A v \in Version : skills[v] # None =>
          /\ [skills[v] EXCEPT !.home = a] \in Row
          /\ [skills[v] EXCEPT !.home = a].latest = skills[v].latest
    BY DEF Row
  <2>2. skills' \in [Version -> Row \cup {None}]
    BY <1>5, <2>1 DEF MoveSkill
  <2>3. Existing(skills') = Existing(skills) /\ Flagged(skills') = Flagged(skills)
    BY <1>5, <2>1 DEF MoveSkill, Existing, Flagged
  <2> QED
    BY <1>5, <2>2, <2>3 DEF MoveSkill, OneLatest, LinksAlive
<1>6. ASSUME NEW s \in Skillset, CreateSkillset(s) PROVE IInv'
  BY <1>6 DEF CreateSkillset, OneLatest, LinksAlive
<1>7. ASSUME NEW s \in Skillset, DeleteSkillset(s) PROVE IInv'
  BY <1>7 DEF DeleteSkillset, OneLatest, LinksAlive
<1>8. ASSUME NEW s \in Skillset, Link(s) PROVE IInv'
  BY <1>8 DEF Link, OneLatest, LinksAlive
<1>9. ASSUME NEW s \in Skillset, Unlink(s) PROVE IInv'
  BY <1>9 DEF Unlink, OneLatest, LinksAlive
<1>10. ASSUME NEW e \in Email, Share(e) PROVE IInv'
  BY <1>10 DEF Share, OneLatest, LinksAlive
<1>11. ASSUME NEW e \in Email, Unshare(e) PROVE IInv'
  BY <1>11 DEF Unshare, OneLatest, LinksAlive
<1>12. CASE UNCHANGED vars
  BY <1>12 DEF vars, OneLatest, LinksAlive
<1> QED
  BY <1>1, <1>2, <1>3, <1>4, <1>5, <1>6, <1>7, <1>8, <1>9, <1>10, <1>11, <1>12 DEF Next

LEMMA Initial == Init => IInv
BY NoneIsNoRow DEF Init, IInv, TypeOK, OneLatest, LinksAlive, Existing

\* Between requests exactly one version of an existing skill is flagged latest, and
\* it is a highest one in semver order.
THEOREM AlwaysOneLatest == Spec => []OneLatest
<1>1. IInv => OneLatest
  BY DEF IInv
<1> QED
  BY <1>1, Initial, Inductive, PTL DEF Spec

\* Between requests no skillset lists a skill that does not exist, nor is a link
\* left behind by a deleted skillset.
THEOREM AlwaysLinksAlive == Spec => []LinksAlive
<1>1. IInv => LinksAlive
  BY DEF IInv
<1> QED
  BY <1>1, Initial, Inductive, PTL DEF Spec

-----------------------------------------------------------------------------
(* Transactions: the inductive invariant.  A row that a worker holds, or   *)
(* has read and not lost, is there; a version it has inserted and not      *)
(* committed is not; and no two workers hold or insert the same one.       *)

\* An insert that is not committed.
Claiming(p) == w[p].op = "create" /\ w[p].pc \in {"refresh", "commit"}

\* What a request carries, by its kind and the step it has come to.
Shaped(p) ==
  LET me == w[p]
  IN /\ Free(p) => me = Idle
     /\ me.pc \in {"write", "refresh"} => me.op \in Refreshing
     /\ me.pc = "commit" => me.op \in Ops
     /\ me.pc = "unlink" => me.op \in {"delete", "delete_all"}
     /\ me.op \in Refreshing => me.v \in Version
     /\ me.op \in {"create", "upsert"} => me.new \in Row
     /\ me.op = "move" => me.a \in Account
     /\ me.op = "share" => me.e \in Email

Holding(p) ==
  LET me == w[p]
  IN /\ me.op \in {"upsert", "delete"} => \/ me.pc = "write" /\ me.v \in DOMAIN me.flags
                                          \/ me.v \in me.holds
     /\ \A x \in me.holds : skills[x] # None
     /\ \A x \in DOMAIN me.flags \ me.lost :
          skills[x] # None \/ (me.op = "create" /\ x = me.v)
     /\ Claiming(p) => skills[me.v] = None

\* What the last flush relies on: the flags of the rows it has seen, and the version
\* chosen among them.
Chosen(p) ==
  LET me == w[p]
  IN /\ me.op = "upsert" => me.v \in DOMAIN me.flags
     /\ me.pc = "commit" /\ me.op \in Refreshing =>
          /\ me.op = "create" => me.v \in DOMAIN me.flags /\ ~me.flags[me.v]
          /\ me.op = "delete" => me.v \notin DOMAIN me.flags
          /\ IF DOMAIN me.flags = {} THEN me.best = None
             ELSE me.best \in Highest(DOMAIN me.flags)

Good(p) == Shaped(p) /\ Holding(p) /\ Chosen(p)

Apart ==
  \A p \in Worker : \A q \in Worker \ {p} :
    /\ w[p].holds \cap w[q].holds = {}
    /\ Claiming(p) /\ Claiming(q) => w[p].v # w[q].v

TxIInv == TxTypeOK /\ (\A p \in Worker : Good(p)) /\ Apart

LEMMA IdleIsRequest == Idle \in Requests
<1>1. NoFlags \in [{} -> BOOLEAN]
  BY DEF NoFlags
<1>2. NoFlags \in Flags
  BY <1>1 DEF Flags
<1> QED
  BY <1>2 DEF Idle, Requests

LEMMA IdleHasNothing ==
  /\ Idle.pc = "idle" /\ Idle.op = "none" /\ Idle.flags = NoFlags /\ DOMAIN NoFlags = {}
  /\ Idle.holds = {} /\ Idle.lost = {} /\ Idle.ss = {}
BY DEF Idle, NoFlags

LEMMA IdleIsGood ==
  ASSUME NEW p \in Worker, w'[p] = Idle
  PROVE  Good(p)' /\ ~Claiming(p)'
BY IdleHasNothing DEF Good, Shaped, Holding, Chosen, Claiming, Free, Refreshing, Ops

\* A step of another worker leaves q its locks and rows, and tells it which of the
\* rows it has read are gone.
Spared(q) ==
  /\ \E gone \in SUBSET Version :
       w'[q] = [w[q] EXCEPT !.lost = @ \cup (gone \cap DOMAIN w[q].flags)]
  /\ \A x \in Version : skills[x] # None /\ skills'[x] = None =>
       x \notin w[q].holds /\ (x \in DOMAIN w[q].flags => x \in w'[q].lost)
  /\ Claiming(q) => skills'[w[q].v] = None

LEMMA SparedIsGood ==
  ASSUME TxIInv, NEW q \in Worker, Spared(q)
  PROVE  /\ w'[q] \in Requests /\ Good(q)' /\ w'[q].holds = w[q].holds
         /\ Claiming(q)' = Claiming(q) /\ w'[q].v = w[q].v
<1>1. w[q] \in Requests /\ Good(q)
  BY DEF TxIInv, TxTypeOK
<1>2. PICK gone \in SUBSET Version :
        w'[q] = [w[q] EXCEPT !.lost = @ \cup (gone \cap DOMAIN w[q].flags)]
  BY DEF Spared
<1> DEFINE lost == w[q].lost \cup (gone \cap DOMAIN w[q].flags)
<1>3. lost \in SUBSET Version /\ w[q].lost \subseteq lost
  BY <1>1 DEF Requests
<1>4. w'[q] = [w[q] EXCEPT !.lost = lost]
  BY <1>1, <1>2 DEF Requests
<1>5. Free(q) => lost = {}
  BY <1>1, IdleHasNothing DEF Good, Shaped
<1> HIDE DEF lost
<1>6. /\ w'[q] \in Requests
      /\ w'[q].pc = w[q].pc /\ w'[q].op = w[q].op /\ w'[q].v = w[q].v
      /\ w'[q].new = w[q].new /\ w'[q].ss = w[q].ss /\ w'[q].flags = w[q].flags
      /\ w'[q].best = w[q].best /\ w'[q].holds = w[q].holds /\ w'[q].lost = lost
      /\ w'[q].a = w[q].a /\ w'[q].e = w[q].e
  BY <1>1, <1>3, <1>4 DEF Requests
<1>7. Free(q) => w'[q] = Idle
  BY <1>1, <1>4, <1>5 DEF Good, Shaped, Idle
<1>8. Shaped(q)'
  BY <1>1, <1>6, <1>7 DEF Good, Shaped, Free
<1>9. Chosen(q)'
  BY <1>1, <1>6 DEF Good, Chosen
<1>10. Claiming(q)' = Claiming(q)
  BY <1>6 DEF Claiming
<1>11. DOMAIN w[q].flags \subseteq Version
  BY <1>1 DEF Requests, Flags
<1>12. Holding(q)'
  BY <1>1, <1>3, <1>6, <1>10, <1>11 DEF Good, Holding, Spared, Requests
<1> QED
  BY <1>6, <1>8, <1>9, <1>10, <1>12 DEF Good

\* One worker's step is sound when it spares the others and takes what is free.
LEMMA StepIsSound ==
  ASSUME TxIInv, TypeOK', w' \in [Worker -> Requests], NEW p \in Worker, Good(p)',
         \A q \in Worker \ {p} : Spared(q),
         \A q \in Worker \ {p} : w'[p].holds \cap w[q].holds = {},
         \A q \in Worker \ {p} : Claiming(p)' /\ Claiming(q) => w'[p].v # w[q].v
  PROVE  TxIInv'
<1>1. \A q \in Worker \ {p} : /\ Good(q)' /\ w'[q].holds = w[q].holds
                              /\ Claiming(q)' = Claiming(q) /\ w'[q].v = w[q].v
  BY SparedIsGood
<1>2. Apart'
  BY <1>1 DEF TxIInv, Apart
<1> QED
  BY <1>1, <1>2 DEF TxIInv, TxTypeOK

\* A worker whose record and rows stay as they are is spared.
LEMMA UntouchedIsSpared ==
  ASSUME TxIInv, NEW q \in Worker, w'[q] = w[q],
         \A x \in Version : skills[x] # None => skills'[x] # None,
         Claiming(q) => skills'[w[q].v] = None
  PROVE  Spared(q)
<1>1. w[q] \in Requests
  BY DEF TxIInv, TxTypeOK
<1>2. w'[q] = [w[q] EXCEPT !.lost = @ \cup ({} \cap DOMAIN w[q].flags)]
  BY <1>1 DEF Requests
<1> QED
  BY <1>2 DEF Spared

LEMMA PutKeepsTypes ==
  ASSUME w \in [Worker -> Requests], NEW p \in Worker, NEW rec \in Requests,
         w' = [w EXCEPT ![p] = rec]
  PROVE  /\ w' \in [Worker -> Requests] /\ w'[p] = rec
         /\ \A q \in Worker \ {p} : w'[q] = w[q]
OBVIOUS

\* A step that only changes its own record.
LEMMA QuietStepIsSound ==
  ASSUME TxIInv, NEW p \in Worker, NEW rec \in Requests, Put(p, rec), Good(p)',
         \A q \in Worker \ {p} : rec.holds \cap w[q].holds = {},
         \A q \in Worker \ {p} : Claiming(p)' /\ Claiming(q) => rec.v # w[q].v
  PROVE  TxIInv'
<1>1. /\ w' \in [Worker -> Requests] /\ w'[p] = rec
      /\ \A q \in Worker \ {p} : w'[q] = w[q]
  BY PutKeepsTypes DEF Put, TxIInv, TxTypeOK
<1>2. UNCHANGED <<skills, sets, links, shares>>
  BY DEF Put, tables
<1>3. TypeOK'
  BY <1>2 DEF TxIInv, TxTypeOK, TypeOK
<1>4. \A q \in Worker \ {p} : Spared(q)
  BY <1>1, <1>2, UntouchedIsSpared DEF TxIInv, Good, Holding
<1> QED
  BY <1>1, <1>3, <1>4, StepIsSound

\* The end of a request that has removed no row and added none claimed by another.
LEMMA DoneIsSound ==
  ASSUME TxIInv, NEW p \in Worker, Done(p), TypeOK',
         \A x \in Version : skills[x] # None => skills'[x] # None,
         \A q \in Worker \ {p} : Claiming(q) => skills'[w[q].v] = None
  PROVE  TxIInv'
<1>1. /\ w' \in [Worker -> Requests] /\ w'[p] = Idle
      /\ \A q \in Worker \ {p} : w'[q] = w[q]
  BY IdleIsRequest, PutKeepsTypes DEF Done, TxIInv, TxTypeOK
<1>2. Good(p)' /\ ~Claiming(p)' /\ w'[p].holds = {}
  BY <1>1, IdleIsGood, IdleHasNothing
<1>3. \A q \in Worker \ {p} : Spared(q)
  BY <1>1, UntouchedIsSpared
<1> QED
  BY <1>1, <1>2, <1>3, StepIsSound

LEMMA FailIsSound ==
  ASSUME TxIInv, NEW p \in Worker, Fail(p)
  PROVE  TxIInv'
<1>1. Done(p) /\ UNCHANGED <<skills, sets, links, shares>>
  BY DEF Fail, tables
<1>2. TypeOK'
  BY <1>1 DEF TxIInv, TxTypeOK, TypeOK
<1>3. \A q \in Worker : Claiming(q) => skills'[w[q].v] = None
  BY <1>1 DEF TxIInv, Good, Holding
<1> QED
  BY <1>1, <1>2, <1>3, DoneIsSound

\* The end of a request that removes rows it holds.
LEMMA DoneDeletingIsSound ==
  ASSUME TxIInv, NEW p \in Worker, NEW gone \in SUBSET Version, DoneDeleting(p, gone),
         gone \subseteq w[p].holds, TypeOK',
         \A x \in Version : skills[x] # None /\ skills'[x] = None => x \in gone,
         \A x \in Version : skills[x] = None => skills'[x] = None
  PROVE  TxIInv'
<1>1. w'[p] = Idle
  BY DEF DoneDeleting
<1>2. Good(p)' /\ ~Claiming(p)' /\ w'[p].holds = {}
  BY <1>1, IdleIsGood, IdleHasNothing
<1>3. ASSUME NEW q \in Worker \ {p} PROVE Spared(q)
  <2>1. w'[q] = [w[q] EXCEPT !.lost = @ \cup (gone \cap DOMAIN w[q].flags)]
    BY DEF DoneDeleting
  <2>2. w[q] \in Requests /\ Holding(q) /\ w[p].holds \cap w[q].holds = {}
    BY DEF TxIInv, TxTypeOK, Good, Apart
  <2>3. w'[q].lost = w[q].lost \cup (gone \cap DOMAIN w[q].flags)
    BY <2>1, <2>2 DEF Requests
  <2>4. Claiming(q) => skills'[w[q].v] = None
    <3>1. Claiming(q) => w[q].v \in Version /\ skills[w[q].v] = None
      BY <2>2 DEF Holding, Claiming, TxIInv, Good, Shaped, Refreshing
    <3> QED
      BY <3>1
  <2> QED
    BY <2>1, <2>2, <2>3, <2>4 DEF Spared
<1>4. w' \in [Worker -> Requests]
  <2>1. \A q \in Worker : w'[q] \in Requests
    BY <1>1, <1>3, IdleIsRequest, SparedIsGood
  <2>2. w' = [q \in Worker |-> w'[q]]
    BY DEF DoneDeleting
  <2> QED
    BY <2>1, <2>2
<1> QED
  BY <1>2, <1>3, <1>4, StepIsSound

-----------------------------------------------------------------------------
(* Transactions: the requests that refresh is_latest.                      *)

LEMMA ReadIsTyped ==
  ASSUME TypeOK, NEW vs \in SUBSET Existing(skills)
  PROVE  /\ Read(vs) \in Flags /\ DOMAIN Read(vs) = vs
         /\ \A x \in vs : Read(vs)[x] = skills[x].latest /\ skills[x] # None
<1>1. \A x \in vs : skills[x].latest \in BOOLEAN /\ skills[x] # None /\ x \in Version
  BY DEF Existing, TypeOK, Row
<1>2. Read(vs) \in [vs -> BOOLEAN] /\ vs \in SUBSET Version
  BY <1>1 DEF Read
<1> QED
  BY <1>1, <1>2 DEF Read, Flags

LEMMA VisIsTyped == Vis \subseteq Visibility
BY VisIsVisibility

\* A request that has begun: it holds nothing, and has read only rows that exist.
LEMMA BeginIsSound ==
  ASSUME TxIInv, NEW p \in Worker, NEW rec \in Requests, Put(p, rec), Good(p)',
         rec.holds = {}, rec.op = "create" => rec.pc = "write"
  PROVE  TxIInv'
<1>1. w'[p] = rec
  BY PutKeepsTypes DEF Put, TxIInv, TxTypeOK
<1>2. ~Claiming(p)'
  BY <1>1 DEF Claiming
<1> QED
  BY <1>2, QuietStepIsSound

LEMMA CreateBegins ==
  ASSUME TxIInv, NEW p \in Worker, NEW rec \in Requests, Put(p, rec),
         rec.pc = "write", rec.op = "create", rec.v \in Version, rec.new \in Row,
         rec.flags = NoFlags, rec.holds = {}
  PROVE  TxIInv'
<1>1. w'[p] = rec
  BY PutKeepsTypes DEF Put, TxIInv, TxTypeOK
<1>2. Good(p)'
  BY <1>1, IdleHasNothing
  DEF Good, Shaped, Holding, Chosen, Claiming, Free, Refreshing, Ops
<1> QED
  BY <1>2, BeginIsSound

\* An upsert or a delete that has found the version's row.
LEMMA ChangeBegins ==
  ASSUME TxIInv, NEW p \in Worker, NEW rec \in Requests, Put(p, rec),
         rec.pc = "write", rec.op \in {"upsert", "delete"}, rec.v \in Version,
         rec.op = "upsert" => rec.new \in Row,
         skills[rec.v] # None, DOMAIN rec.flags = {rec.v}, rec.holds = {}
  PROVE  TxIInv'
<1>1. w'[p] = rec /\ skills' = skills
  BY PutKeepsTypes DEF Put, TxIInv, TxTypeOK, tables
<1>2. Good(p)'
  BY <1>1 DEF Good, Shaped, Holding, Chosen, Claiming, Free, Refreshing, Ops
<1> QED
  BY <1>2, BeginIsSound

LEMMA CreatePeekIsSound ==
  ASSUME TxIInv, NEW p \in Worker, NEW v \in Version, NEW a \in Account \cup {None},
         NEW vis \in Vis, NEW ss \in SUBSET Skillset, CreatePeek(p, v, a, vis, ss)
  PROVE  TxIInv'
<1> DEFINE new == NewRow(a, vis)
           rec == [Idle EXCEPT !.pc = "write", !.op = "create", !.v = v, !.new = new, !.ss = ss]
<1>1. new \in Row
  BY NewRowIsRow, VisIsTyped
<1>2. Put(p, rec)
  BY DEF CreatePeek
<1> HIDE DEF new
<1>3. rec \in Requests
  BY <1>1, IdleIsRequest DEF Requests, Ops, Refreshing
<1>4. /\ rec.pc = "write" /\ rec.op = "create" /\ rec.v = v /\ rec.new = new
      /\ rec.flags = NoFlags /\ rec.holds = {}
  BY DEF Idle
<1> HIDE DEF rec
<1> QED
  BY <1>1, <1>2, <1>3, <1>4, CreateBegins

LEMMA UpsertPeekIsSound ==
  ASSUME TxIInv, NEW p \in Worker, NEW v \in Version, NEW vis \in Vis, UpsertPeek(p, v, vis)
  PROVE  TxIInv'
<1> DEFINE new == NewRow(None, vis)  flags == Read({v})
           absent == [Idle EXCEPT !.pc = "write", !.op = "create", !.v = v, !.new = new]
           found == [Idle EXCEPT !.pc = "write", !.op = "upsert", !.v = v, !.new = new,
                                 !.flags = flags]
<1>1. new \in Row
  BY NewRowIsRow, VisIsTyped
<1>2. /\ skills[v] = None => Put(p, absent)
      /\ skills[v] # None => Put(p, found)
  BY DEF UpsertPeek
<1> HIDE DEF new
<1>3. CASE skills[v] = None
  <2>1. absent \in Requests
    BY <1>1, IdleIsRequest DEF Requests, Ops, Refreshing
  <2>2. /\ absent.pc = "write" /\ absent.op = "create" /\ absent.v = v /\ absent.new = new
        /\ absent.flags = NoFlags /\ absent.holds = {}
    BY DEF Idle
  <2> HIDE DEF absent
  <2> QED
    BY <1>1, <1>2, <1>3, <2>1, <2>2, CreateBegins
<1>4. CASE skills[v] # None
  <2>1. flags \in Flags /\ DOMAIN flags = {v}
    BY <1>4, ReadIsTyped DEF TxIInv, TxTypeOK, Existing
  <2> HIDE DEF flags
  <2>2. found \in Requests
    BY <1>1, <2>1, IdleIsRequest DEF Requests, Ops, Refreshing
  <2>3. /\ found.pc = "write" /\ found.op = "upsert" /\ found.v = v /\ found.new = new
        /\ found.flags = flags /\ found.holds = {}
    BY DEF Idle
  <2> HIDE DEF found
  <2> QED
    BY <1>1, <1>2, <1>4, <2>1, <2>2, <2>3, ChangeBegins
<1> QED
  BY <1>3, <1>4

LEMMA DeletePeekIsSound ==
  ASSUME TxIInv, NEW p \in Worker, NEW v \in Version, DeletePeek(p, v)
  PROVE  TxIInv'
<1> DEFINE flags == Read({v})
           rec == [Idle EXCEPT !.pc = "write", !.op = "delete", !.v = v, !.flags = flags]
<1>1. Put(p, rec) /\ skills[v] # None
  BY DEF DeletePeek
<1>2. flags \in Flags /\ DOMAIN flags = {v}
  BY <1>1, ReadIsTyped DEF TxIInv, TxTypeOK, Existing
<1> HIDE DEF flags
<1>3. rec \in Requests
  BY <1>2, IdleIsRequest DEF Requests, Ops, Refreshing
<1>4. /\ rec.pc = "write" /\ rec.op = "delete" /\ rec.v = v
      /\ rec.flags = flags /\ rec.holds = {}
  BY DEF Idle
<1> HIDE DEF rec
<1> QED
  BY <1>1, <1>2, <1>3, <1>4, ChangeBegins

LEMMA InsertIsSound ==
  ASSUME TxIInv, NEW p \in Worker, Insert(p)
  PROVE  TxIInv'
<1> DEFINE rec == [w[p] EXCEPT !.pc = "refresh"]
<1>1. w[p] \in Requests /\ Good(p) /\ At(p, "write", "create") /\ ~Claimed(p, w[p].v)
  BY DEF TxIInv, TxTypeOK, Insert
<1>2. CASE skills[w[p].v] # None
  BY <1>2, FailIsSound DEF Insert
<1>3. CASE skills[w[p].v] = None
  <2>1. Put(p, rec)
    BY <1>3 DEF Insert
  <2>2. rec \in Requests
    BY <1>1 DEF Requests
  <2>3. /\ rec.pc = "refresh" /\ rec.op = "create" /\ rec.v = w[p].v /\ rec.new = w[p].new
        /\ rec.flags = w[p].flags /\ rec.holds = w[p].holds /\ rec.lost = w[p].lost
    BY <1>1 DEF Requests, At
  <2> HIDE DEF rec
  <2>4. w'[p] = rec /\ skills' = skills
    BY <2>1, <2>2, PutKeepsTypes DEF Put, TxIInv, TxTypeOK, tables
  <2>5. Good(p)'
    BY <1>1, <1>3, <2>3, <2>4
    DEF Good, Shaped, Holding, Chosen, Claiming, Free, At, Refreshing
  <2>6. \A q \in Worker \ {p} : Claiming(q) => rec.v # w[q].v
    BY <1>1, <2>3 DEF Claimed, Claiming
  <2>7. \A q \in Worker \ {p} : rec.holds \cap w[q].holds = {}
    BY <2>3 DEF TxIInv, Apart
  <2> QED
    BY <2>1, <2>2, <2>5, <2>6, <2>7, QuietStepIsSound
<1> QED
  BY <1>2, <1>3

LEMMA WriteRowIsSound ==
  ASSUME TxIInv, NEW p \in Worker, WriteRow(p)
  PROVE  TxIInv'
<1> DEFINE v == w[p].v
           next == IF w[p].op = "delete" THEN "count" ELSE "refresh"
           rec == [w[p] EXCEPT !.pc = next, !.holds = {v}]
<1>1. /\ w[p] \in Requests /\ Good(p) /\ w[p].pc = "write" /\ w[p].op \in {"upsert", "delete"}
      /\ ~Locked(p, {v})
  BY DEF TxIInv, TxTypeOK, WriteRow, At
<1>2. CASE v \in w[p].lost
  BY <1>2, FailIsSound DEF WriteRow
<1>3. CASE v \notin w[p].lost
  <2>1. Put(p, rec)
    BY <1>3 DEF WriteRow
  <2>2. /\ v \in Version
        /\ \/ w[p].pc = "write" /\ v \in DOMAIN w[p].flags
           \/ v \in w[p].holds
    BY <1>1 DEF Good, Shaped, Holding, Refreshing
  <2>3. skills[v] # None
    BY <1>1, <1>3, <2>2 DEF Good, Holding
  <2>4. rec \in Requests
    BY <1>1, <2>2 DEF Requests
  <2>5. /\ rec.pc \in {"count", "refresh"} /\ rec.op = w[p].op /\ rec.v = v
        /\ rec.new = w[p].new /\ rec.flags = w[p].flags /\ rec.holds = {v}
        /\ rec.lost = w[p].lost
    BY <1>1 DEF Requests
  <2> HIDE DEF rec
  <2>6. w'[p] = rec /\ skills' = skills
    BY <2>1, <2>4, PutKeepsTypes DEF Put, TxIInv, TxTypeOK, tables
  <2>7. Good(p)'
    BY <1>1, <2>3, <2>5, <2>6 DEF Good, Shaped, Holding, Chosen, Claiming, Free, Refreshing
  <2>8. \A q \in Worker \ {p} : rec.holds \cap w[q].holds = {}
    BY <1>1, <2>5 DEF Locked
  <2>9. ~Claiming(p)'
    BY <1>1, <2>5, <2>6 DEF Claiming
  <2> QED
    BY <2>1, <2>4, <2>7, <2>8, <2>9, QuietStepIsSound
<1> QED
  BY <1>2, <1>3

\* A step that changes only what a delete is about to do.
LEMMA TurnIsSound ==
  ASSUME TxIInv, NEW p \in Worker, NEW rec \in Requests, Put(p, rec),
         rec.pc \in {"refresh", "unlink", "drop"}, rec.pc # "drop" => rec.op = "delete",
         w[p].pc \in {"count", "unlink"},
         rec.op = w[p].op, rec.v = w[p].v, rec.new = w[p].new, rec.flags = w[p].flags,
         rec.best = w[p].best, rec.holds = w[p].holds, rec.lost = w[p].lost,
         rec.a = w[p].a, rec.e = w[p].e, rec.op # "create"
  PROVE  TxIInv'
<1>1. w[p] \in Requests /\ Good(p)
  BY DEF TxIInv, TxTypeOK
<1>2. w'[p] = rec /\ skills' = skills
  BY PutKeepsTypes DEF Put, TxIInv, TxTypeOK, tables
<1>3. Good(p)' /\ ~Claiming(p)'
  BY <1>1, <1>2 DEF Good, Shaped, Holding, Chosen, Claiming, Free, Refreshing
<1>4. \A q \in Worker \ {p} : rec.holds \cap w[q].holds = {}
  BY DEF TxIInv, Apart
<1> QED
  BY <1>3, <1>4, QuietStepIsSound

LEMMA CountIsSound ==
  ASSUME TxIInv, NEW p \in Worker, Count(p)
  PROVE  TxIInv'
<1> DEFINE next == IF Existing(skills) \subseteq {w[p].v} THEN "unlink" ELSE "refresh"
           rec == [w[p] EXCEPT !.pc = next]
<1>1. Put(p, rec) /\ w[p] \in Requests /\ w[p].pc = "count" /\ w[p].op = "delete"
  BY DEF Count, At, TxIInv, TxTypeOK
<1>2. next \in {"unlink", "refresh"}
  OBVIOUS
<1> HIDE DEF next
<1>3. /\ rec \in Requests /\ rec.pc = next /\ rec.op = w[p].op /\ rec.v = w[p].v
      /\ rec.new = w[p].new /\ rec.flags = w[p].flags /\ rec.best = w[p].best
      /\ rec.holds = w[p].holds /\ rec.lost = w[p].lost /\ rec.a = w[p].a /\ rec.e = w[p].e
  BY <1>1, <1>2 DEF Requests
<1> HIDE DEF rec
<1> QED
  BY <1>1, <1>2, <1>3, TurnIsSound

LEMMA UnlinkAllIsSound ==
  ASSUME TxIInv, NEW p \in Worker, UnlinkAll(p)
  PROVE  TxIInv'
<1> DEFINE rec == [w[p] EXCEPT !.pc = "drop", !.ss = links]
<1>1. Put(p, rec) /\ w[p] \in Requests /\ Good(p) /\ w[p].pc = "unlink"
  BY DEF UnlinkAll, TxIInv, TxTypeOK
<1>2. links \in SUBSET Skillset
  BY DEF TxIInv, TxTypeOK, TypeOK
<1>3. /\ rec \in Requests /\ rec.pc = "drop" /\ rec.op = w[p].op /\ rec.v = w[p].v
      /\ rec.new = w[p].new /\ rec.flags = w[p].flags /\ rec.best = w[p].best
      /\ rec.holds = w[p].holds /\ rec.lost = w[p].lost /\ rec.a = w[p].a /\ rec.e = w[p].e
  BY <1>1, <1>2 DEF Requests
<1>4. w[p].op # "create"
  BY <1>1 DEF Good, Shaped
<1> HIDE DEF rec
<1> QED
  BY <1>1, <1>3, <1>4, TurnIsSound

LEMMA RefreshReadIsSound ==
  ASSUME TxIInv, NEW p \in Worker, RefreshRead(p)
  PROVE  TxIInv'
<1> DEFINE v == w[p].v  seen == Siblings(p)  ss == w[p].ss \ links
           others == Existing(skills) \ {v}
<1>1. w[p] \in Requests /\ Good(p) /\ w[p].pc = "refresh"
  BY DEF TxIInv, TxTypeOK, RefreshRead
<1>2. /\ w[p].op \in Refreshing /\ v \in Version
      /\ w[p].op = "upsert" => v \in DOMAIN w[p].flags /\ skills[v] # None
      /\ w[p].op \in {"upsert", "delete"} => v \in w[p].holds
  BY <1>1 DEF Good, Shaped, Holding, Chosen
<1>3. /\ DOMAIN seen = IF w[p].op = "delete" THEN others ELSE others \cup {v}
      /\ \A x \in DOMAIN seen :
           seen[x] = IF x # v THEN skills[x].latest ELSE w[p].op = "upsert" /\ w[p].flags[x]
  BY DEF Siblings
<1>4. \A x \in others : x \in Version /\ skills[x] # None /\ skills[x].latest \in BOOLEAN
  BY DEF Existing, TxIInv, TxTypeOK, TypeOK, Row
<1>5. seen \in Flags
  <2>1. \A x \in DOMAIN seen : x \in Version /\ seen[x] \in BOOLEAN
    BY <1>1, <1>2, <1>3, <1>4 DEF Requests, Flags
  <2>2. seen = [x \in DOMAIN seen |-> seen[x]]
    BY DEF Siblings
  <2>3. seen \in [DOMAIN seen -> BOOLEAN] /\ DOMAIN seen \in SUBSET Version
    BY <2>1, <2>2
  <2> HIDE DEF seen
  <2> QED
    BY <2>3 DEF Flags
<1>6. PICK best \in IF DOMAIN seen = {} THEN {None} ELSE Highest(DOMAIN seen) :
        Put(p, [w[p] EXCEPT !.pc = "commit", !.flags = seen, !.best = best, !.ss = ss])
  BY <1>1 DEF RefreshRead, Requests
<1>7. best \in Version \cup {None} /\ ss \in SUBSET Skillset
  BY <1>1, <1>2, <1>3, <1>4 DEF Highest, Requests
<1> DEFINE rec == [w[p] EXCEPT !.pc = "commit", !.flags = seen, !.best = best, !.ss = ss]
<1> HIDE DEF seen, ss
<1>8. rec \in Requests
  BY <1>1, <1>5, <1>7 DEF Requests
<1>9. /\ rec.pc = "commit" /\ rec.op = w[p].op /\ rec.v = v /\ rec.new = w[p].new
      /\ rec.flags = seen /\ rec.best = best /\ rec.holds = w[p].holds
      /\ rec.lost = w[p].lost
  BY <1>1 DEF Requests
<1>10. Put(p, rec)
  BY <1>6
<1> HIDE DEF rec
<1>11. w'[p] = rec /\ skills' = skills
  BY <1>8, <1>10, PutKeepsTypes DEF Put, TxIInv, TxTypeOK, tables
<1>12. Claiming(p)' = Claiming(p)
  BY <1>1, <1>9, <1>11 DEF Claiming
<1>13. Shaped(p)'
  BY <1>1, <1>2, <1>9, <1>11 DEF Good, Shaped, Free, Refreshing, Ops
<1>14. Chosen(p)'
  BY <1>2, <1>3, <1>6, <1>9, <1>11 DEF Chosen, Refreshing
<1>15. Holding(p)'
  BY <1>1, <1>2, <1>3, <1>4, <1>9, <1>11, <1>12 DEF Good, Holding, Refreshing
<1>16. \A q \in Worker \ {p} : /\ rec.holds \cap w[q].holds = {}
                               /\ Claiming(p) /\ Claiming(q) => rec.v # w[q].v
  BY <1>9 DEF TxIInv, Apart
<1> QED
  BY <1>8, <1>10, <1>12, <1>13, <1>14, <1>15, <1>16, QuietStepIsSound DEF Good

\* The flush that has not failed.
Flushes(p) ==
  /\ w[p].pc = "commit" /\ w[p].op \in Refreshing /\ Targets(p) \cap w[p].lost = {}
  /\ skills' = [x \in Version |->
       IF x = w[p].v THEN OwnRow(p)
       ELSE IF x \in Targets(p) THEN [skills[x] EXCEPT !.latest = (x = w[p].best)]
       ELSE skills[x]]

\* What it leaves of the rows: its own version, and the flags of the others.
LEMMA FlushedRows ==
  ASSUME TxIInv, NEW p \in Worker, Flushes(p)
  PROVE  /\ skills' \in [Version -> Row \cup {None}]
         /\ w[p].v \in Version
         /\ (w[p].op = "create") => skills[w[p].v] = None
         /\ w[p].op \in {"upsert", "delete"} => w[p].v \in w[p].holds /\ skills[w[p].v] # None
         /\ (skills'[w[p].v] = None) <=> (w[p].op = "delete")
         /\ \A x \in Version \ {w[p].v} : (skills'[x] = None) <=> (skills[x] = None)
         /\ \A x \in Version \ {w[p].v} : skills[x] # None =>
              skills'[x].latest = IF x \in Targets(p) THEN x = w[p].best ELSE skills[x].latest
         /\ (w[p].op = "create") => skills'[w[p].v].latest = (w[p].v = w[p].best)
         /\ (w[p].op = "upsert") => skills'[w[p].v].latest =
              IF w[p].v \in ChangedFlags(p) THEN w[p].v = w[p].best ELSE skills[w[p].v].latest
<1> DEFINE me == w[p]  v == w[p].v
<1>1. me \in Requests /\ Good(p) /\ me.pc = "commit" /\ me.op \in Refreshing
  BY DEF TxIInv, TxTypeOK, Flushes
<1>2. /\ v \in Version /\ (me.op \in {"create", "upsert"} => me.new \in Row)
      /\ me.op = "create" => skills[v] = None
      /\ me.op \in {"upsert", "delete"} => v \in me.holds /\ skills[v] # None
  BY <1>1 DEF Good, Shaped, Holding, Claiming
<1>3. \A x \in Targets(p) : skills[x] # None /\ x # v
  BY <1>1 DEF Flushes, Targets, ChangedFlags, Good, Holding
<1>4. skills \in [Version -> Row \cup {None}]
  BY DEF TxIInv, TxTypeOK, TypeOK
<1>5. \A r \in Row, f \in BOOLEAN : /\ [r EXCEPT !.latest = f] \in Row
                                    /\ [r EXCEPT !.latest = f].latest = f
  BY DEF Row
<1>6. ASSUME NEW x \in Version \ {v}
      PROVE  /\ skills'[x] = IF x \in Targets(p) THEN [skills[x] EXCEPT !.latest = (x = me.best)]
                             ELSE skills[x]
             /\ skills'[x] \in Row \cup {None}
             /\ (skills'[x] = None) <=> (skills[x] = None)
             /\ skills[x] # None =>
                  skills'[x].latest = IF x \in Targets(p) THEN x = me.best ELSE skills[x].latest
  <2>1. skills'[x] = IF x \in Targets(p) THEN [skills[x] EXCEPT !.latest = (x = me.best)]
                     ELSE skills[x]
    BY DEF Flushes
  <2> QED
    BY <1>3, <1>4, <1>5, <2>1, NoneIsNoRow
<1>7. skills'[v] = OwnRow(p)
  BY <1>2 DEF Flushes
<1>8. CASE me.op = "create"
  <2> DEFINE flag == (v = me.best)
  <2>1. OwnRow(p) = [me.new EXCEPT !.latest = flag] /\ flag \in BOOLEAN
    BY <1>8 DEF OwnRow
  <2> HIDE DEF flag
  <2>2. skills'[v] \in Row /\ skills'[v].latest = flag
    BY <1>2, <1>5, <1>7, <1>8, <2>1
  <2>3. skills' \in [Version -> Row \cup {None}]
    BY <1>6, <2>2 DEF Flushes
  <2> QED
    BY <1>2, <1>6, <1>8, <2>2, <2>3, NoneIsNoRow DEF flag
<1>9. CASE me.op = "upsert"
  <2> DEFINE flag == IF v \in ChangedFlags(p) THEN v = me.best ELSE skills[v].latest
             vis == me.new.vis
  <2>1. OwnRow(p) = [skills[v] EXCEPT !.vis = vis, !.latest = flag]
    <3>1. OwnRow(p) = [skills[v] EXCEPT !.vis = vis,
                         !.latest = IF v \in ChangedFlags(p) THEN v = me.best ELSE @]
      BY <1>9 DEF OwnRow
    <3> QED
      BY <1>2, <1>4, <1>9, <3>1 DEF Row
  <2>2. skills[v] \in Row /\ flag \in BOOLEAN /\ vis \in Visibility
    BY <1>2, <1>4, <1>9 DEF Row
  <2> HIDE DEF flag, vis
  <2>3. skills'[v] \in Row /\ skills'[v].latest = flag
    BY <1>7, <2>1, <2>2 DEF Row
  <2>4. skills' \in [Version -> Row \cup {None}]
    BY <1>6, <2>3 DEF Flushes
  <2> QED
    BY <1>2, <1>6, <1>9, <2>3, <2>4, NoneIsNoRow DEF flag
<1>10. CASE me.op = "delete"
  <2>1. skills'[v] = None
    BY <1>7, <1>10 DEF OwnRow
  <2>2. skills' \in [Version -> Row \cup {None}]
    BY <1>6, <2>1 DEF Flushes
  <2> QED
    BY <1>2, <1>6, <1>10, <2>1, <2>2
<1> QED
  BY <1>1, <1>8, <1>9, <1>10 DEF Refreshing

LEMMA RefreshCommitIsSound ==
  ASSUME TxIInv, NEW p \in Worker, RefreshCommit(p)
  PROVE  TxIInv'
<1>1. CASE FlushFails(p)
  BY <1>1, FailIsSound DEF RefreshCommit
<1>2. CASE ~FlushFails(p)
  <2>1. /\ Flushes(p) /\ UNCHANGED <<sets, shares>>
        /\ links' = links \cup w[p].ss
        /\ IF w[p].op = "delete" THEN DoneDeleting(p, {w[p].v}) ELSE Done(p)
    BY <1>2 DEF RefreshCommit, FlushFails, Flushes
  <2>2. w[p] \in Requests /\ Good(p)
    BY DEF TxIInv, TxTypeOK
  <2>3. TypeOK'
    BY <2>1, <2>2, FlushedRows DEF TxIInv, TxTypeOK, TypeOK, Requests
  <2>4. CASE w[p].op = "delete"
    BY <2>1, <2>3, <2>4, FlushedRows, DoneDeletingIsSound
  <2>5. CASE w[p].op # "delete"
    <3>1. \A x \in Version : skills[x] # None => skills'[x] # None
      BY <2>1, <2>5, FlushedRows
    <3>2. ASSUME NEW q \in Worker \ {p}, Claiming(q) PROVE skills'[w[q].v] = None
      <4>1. w[q].v \in Version /\ skills[w[q].v] = None
        BY <3>2 DEF TxIInv, Good, Shaped, Holding, Claiming, Refreshing
      <4>2. w[q].v # w[p].v
        BY <2>1, <2>5, <3>2, <4>1, FlushedRows
        DEF TxIInv, Apart, Claiming, Flushes, Refreshing
      <4> QED
        BY <2>1, <4>1, <4>2, FlushedRows
    <3> QED
      BY <2>1, <2>3, <2>5, <3>1, <3>2, DoneIsSound
  <2> QED
    BY <2>4, <2>5
<1> QED
  BY <1>1, <1>2

-----------------------------------------------------------------------------
(* Transactions: the other requests.                                       *)

LEMMA DeleteAllRowsIsSound ==
  ASSUME TxIInv, NEW p \in Worker, DeleteAllRows(p)
  PROVE  TxIInv'
<1> DEFINE rows == Existing(skills)
           rec == [Idle EXCEPT !.pc = "unlink", !.op = "delete_all", !.holds = rows]
<1>1. Put(p, rec) /\ ~Locked(p, rows)
  BY DEF DeleteAllRows
<1>2. rows \in SUBSET Version /\ \A x \in rows : skills[x] # None
  BY DEF Existing
<1> HIDE DEF rows
<1>3. rec \in Requests
  BY <1>2, IdleIsRequest DEF Requests, Ops
<1>4. /\ rec.pc = "unlink" /\ rec.op = "delete_all" /\ rec.flags = NoFlags /\ rec.holds = rows
  BY DEF Idle
<1> HIDE DEF rec
<1>5. w'[p] = rec /\ skills' = skills
  BY <1>1, <1>3, PutKeepsTypes DEF Put, TxIInv, TxTypeOK, tables
<1>6. Good(p)' /\ ~Claiming(p)'
  BY <1>2, <1>4, <1>5, IdleHasNothing
  DEF Good, Shaped, Holding, Chosen, Claiming, Free, Refreshing, Ops
<1>7. \A q \in Worker \ {p} : rec.holds \cap w[q].holds = {}
  BY <1>1, <1>4 DEF Locked
<1> QED
  BY <1>1, <1>3, <1>6, <1>7, QuietStepIsSound

LEMMA DropIsSound ==
  ASSUME TxIInv, NEW p \in Worker, Drop(p)
  PROVE  TxIInv'
<1> DEFINE gone == w[p].holds
<1>1. /\ skills' = [v \in Version |-> IF v \in gone THEN None ELSE skills[v]]
      /\ links' = links \ w[p].ss /\ DoneDeleting(p, gone) /\ UNCHANGED <<sets, shares>>
      /\ gone \in SUBSET Version
  BY DEF Drop, DropWith, TxIInv, TxTypeOK, Requests
<1> HIDE DEF gone
<1>2. TypeOK'
  BY <1>1 DEF TxIInv, TxTypeOK, TypeOK
<1>3. gone \subseteq w[p].holds
  BY DEF gone
<1> QED
  BY <1>1, <1>2, <1>3, DoneDeletingIsSound

LEMMA MoveReadIsSound ==
  ASSUME TxIInv, NEW p \in Worker, NEW a \in Account, MoveRead(p, a)
  PROVE  TxIInv'
<1>1. PICK moved \in SUBSET Existing(skills) :
        Put(p, [Idle EXCEPT !.pc = "commit", !.op = "move", !.a = a, !.flags = Read(moved)])
  BY DEF MoveRead
<1> DEFINE flags == Read(moved)
           rec == [Idle EXCEPT !.pc = "commit", !.op = "move", !.a = a, !.flags = flags]
<1>2. flags \in Flags /\ DOMAIN flags = moved /\ \A x \in moved : skills[x] # None
  BY ReadIsTyped DEF TxIInv, TxTypeOK
<1>3. Put(p, rec)
  BY <1>1
<1> HIDE DEF flags
<1>4. rec \in Requests
  BY <1>2, IdleIsRequest DEF Requests, Ops
<1>5. rec.pc = "commit" /\ rec.op = "move" /\ rec.a = a /\ rec.flags = flags /\ rec.holds = {}
  BY DEF Idle
<1> HIDE DEF rec
<1>6. w'[p] = rec /\ skills' = skills
  BY <1>3, <1>4, PutKeepsTypes DEF Put, TxIInv, TxTypeOK, tables
<1>7. Good(p)'
  BY <1>2, <1>5, <1>6 DEF Good, Shaped, Holding, Chosen, Claiming, Free, Refreshing, Ops
<1> QED
  BY <1>3, <1>4, <1>5, <1>7, BeginIsSound

\* A move rewrites the account of rows it has read and not lost, and no flag.
LEMMA MovedRows ==
  ASSUME TxIInv, NEW p \in Worker, At(p, "commit", "move"),
         DOMAIN w[p].flags \cap w[p].lost = {},
         skills' = [v \in Version |-> IF v \in DOMAIN w[p].flags
                                      THEN [skills[v] EXCEPT !.home = w[p].a] ELSE skills[v]]
  PROVE  /\ skills' \in [Version -> Row \cup {None}]
         /\ \A x \in Version : /\ (skills'[x] = None) <=> (skills[x] = None)
                               /\ skills[x] # None => skills'[x].latest = skills[x].latest
<1> DEFINE a == w[p].a  moved == DOMAIN w[p].flags
<1>1. a \in Account /\ \A x \in moved : skills[x] # None
  BY DEF At, TxIInv, Good, Shaped, Holding
<1>2. \A r \in Row : [r EXCEPT !.home = a] \in Row /\ [r EXCEPT !.home = a].latest = r.latest
  BY <1>1 DEF Row
<1>3. skills \in [Version -> Row \cup {None}]
  BY DEF TxIInv, TxTypeOK, TypeOK
<1>4. \A x \in Version : skills'[x] = IF x \in moved THEN [skills[x] EXCEPT !.home = a]
                                      ELSE skills[x]
  OBVIOUS
<1> HIDE DEF a, moved
<1>5. \A x \in Version : /\ skills'[x] \in Row \cup {None}
                         /\ (skills'[x] = None) <=> (skills[x] = None)
                         /\ skills[x] # None => skills'[x].latest = skills[x].latest
  BY <1>1, <1>2, <1>3, <1>4, NoneIsNoRow
<1> QED
  BY <1>5

LEMMA MoveCommitIsSound ==
  ASSUME TxIInv, NEW p \in Worker, MoveCommit(p)
  PROVE  TxIInv'
<1>1. CASE DOMAIN w[p].flags \cap w[p].lost # {}
  BY <1>1, FailIsSound DEF MoveCommit
<1>2. CASE DOMAIN w[p].flags \cap w[p].lost = {}
  <2>1. /\ At(p, "commit", "move") /\ Done(p) /\ shares' = {} /\ UNCHANGED <<sets, links>>
        /\ skills' = [v \in Version |-> IF v \in DOMAIN w[p].flags
                        THEN [skills[v] EXCEPT !.home = w[p].a] ELSE skills[v]]
    BY <1>2 DEF MoveCommit
  <2>2. /\ skills' \in [Version -> Row \cup {None}]
        /\ \A x \in Version : (skills'[x] = None) <=> (skills[x] = None)
    BY <1>2, <2>1, MovedRows
  <2>3. TypeOK'
    BY <2>1, <2>2 DEF TxIInv, TxTypeOK, TypeOK
  <2>4. \A q \in Worker : Claiming(q) => w[q].v \in Version /\ skills[w[q].v] = None
    BY DEF TxIInv, Good, Shaped, Holding, Claiming, Refreshing
  <2> QED
    BY <2>1, <2>2, <2>3, <2>4, DoneIsSound
<1> QED
  BY <1>1, <1>2

\* Requests that write no version.
LEMMA RowlessCommitIsSound ==
  ASSUME TxIInv, NEW p \in Worker, Done(p), UNCHANGED skills, TypeOK'
  PROVE  TxIInv'
<1>1. \A q \in Worker : Claiming(q) => skills[w[q].v] = None
  BY DEF TxIInv, Good, Holding
<1> QED
  BY <1>1, DoneIsSound

LEMMA LinkAndShareAreSound ==
  ASSUME TxIInv, NEW p \in Worker,
         \/ \E s \in Skillset : LinkPeek(p, s)
         \/ \E e \in Email : SharePeek(p, e)
         \/ LinkCommit(p) \/ ShareCommit(p)
  PROVE  TxIInv'
<1>1. ASSUME NEW s \in Skillset, LinkPeek(p, s) PROVE TxIInv'
  <2> DEFINE rec == [Idle EXCEPT !.pc = "commit", !.op = "link", !.ss = {s}]
  <2>1. Put(p, rec)
    BY <1>1 DEF LinkPeek
  <2>2. rec \in Requests
    BY IdleIsRequest DEF Requests, Ops
  <2>3. rec.pc = "commit" /\ rec.op = "link" /\ rec.flags = NoFlags /\ rec.holds = {}
    BY DEF Idle
  <2> HIDE DEF rec
  <2>4. w'[p] = rec
    BY <2>1, <2>2, PutKeepsTypes DEF Put, TxIInv, TxTypeOK
  <2>5. Good(p)'
    BY <2>3, <2>4, IdleHasNothing
    DEF Good, Shaped, Holding, Chosen, Claiming, Free, Refreshing, Ops
  <2> QED
    BY <2>1, <2>2, <2>3, <2>5, BeginIsSound
<1>2. ASSUME NEW e \in Email, SharePeek(p, e) PROVE TxIInv'
  <2> DEFINE rec == [Idle EXCEPT !.pc = "commit", !.op = "share", !.e = e]
  <2>1. Put(p, rec)
    BY <1>2 DEF SharePeek
  <2>2. rec \in Requests
    BY IdleIsRequest DEF Requests, Ops
  <2>3. /\ rec.pc = "commit" /\ rec.op = "share" /\ rec.e = e /\ rec.flags = NoFlags
        /\ rec.holds = {}
    BY DEF Idle
  <2> HIDE DEF rec
  <2>4. w'[p] = rec
    BY <2>1, <2>2, PutKeepsTypes DEF Put, TxIInv, TxTypeOK
  <2>5. Good(p)'
    BY <2>3, <2>4, IdleHasNothing
    DEF Good, Shaped, Holding, Chosen, Claiming, Free, Refreshing, Ops
  <2> QED
    BY <2>1, <2>2, <2>3, <2>5, BeginIsSound
<1>3. CASE LinkCommit(p)
  <2>1. TypeOK'
    BY <1>3 DEF LinkCommit, TxIInv, TxTypeOK, TypeOK, Requests
  <2> QED
    BY <1>3, <2>1, RowlessCommitIsSound DEF LinkCommit
<1>4. CASE ShareCommit(p)
  <2>1. w[p].e \in Email
    BY <1>4 DEF ShareCommit, At, TxIInv, Good, Shaped
  <2>2. TypeOK'
    BY <1>4, <2>1 DEF ShareCommit, TxIInv, TxTypeOK, TypeOK
  <2> QED
    BY <1>4, <2>2, RowlessCommitIsSound DEF ShareCommit
<1> QED
  BY <1>1, <1>2, <1>3, <1>4

LEMMA OneShotIsSound ==
  ASSUME TxIInv, TypeOK', UNCHANGED <<skills, w>>
  PROVE  TxIInv'
<1>1. \A q \in Worker : Good(q)'
  BY DEF TxIInv, Good, Shaped, Holding, Chosen, Claiming, Free
<1>2. Apart'
  BY DEF TxIInv, Apart, Claiming
<1> QED
  BY <1>1, <1>2 DEF TxIInv, TxTypeOK

-----------------------------------------------------------------------------
(* Transactions: what follows.                                             *)

LEMMA TxInitial == TxInit => TxIInv
<1> SUFFICES ASSUME TxInit PROVE TxIInv
  OBVIOUS
<1>1. TypeOK /\ w \in [Worker -> Requests] /\ \A p \in Worker : w[p] = Idle
  BY IdleIsRequest DEF TxInit, Init, TypeOK
<1>2. \A p \in Worker : Good(p) /\ ~Claiming(p)
  BY <1>1, IdleHasNothing DEF Good, Shaped, Holding, Chosen, Claiming, Free, Refreshing, Ops
<1>3. Apart
  BY <1>1, <1>2, IdleHasNothing DEF Apart
<1> QED
  BY <1>1, <1>2, <1>3 DEF TxIInv, TxTypeOK

LEMMA TxInductive == TxIInv /\ [TxNext]_txvars => TxIInv'
<1> SUFFICES ASSUME TxIInv, [TxNext]_txvars PROVE TxIInv'
  OBVIOUS
<1>1. ASSUME NEW p \in Worker, Arrive(p) PROVE TxIInv'
  BY <1>1, CreatePeekIsSound, UpsertPeekIsSound, DeletePeekIsSound, DeleteAllRowsIsSound,
     MoveReadIsSound, LinkAndShareAreSound
  DEF Arrive
<1>2. ASSUME NEW p \in Worker, Proceed(p) PROVE TxIInv'
  BY <1>2, InsertIsSound, WriteRowIsSound, CountIsSound, RefreshReadIsSound,
     RefreshCommitIsSound, FailIsSound, UnlinkAllIsSound, DropIsSound, MoveCommitIsSound,
     LinkAndShareAreSound
  DEF Proceed, DeadlockVictim
<1>3. ASSUME \/ \E s \in Skillset : SetCreated(s) \/ SetDeleted(s) \/ Unlinked(s)
             \/ \E e \in Email : Unshared(e)
      PROVE  TxIInv'
  <2>1. TypeOK' /\ UNCHANGED <<skills, w>>
    BY <1>3 DEF SetCreated, SetDeleted, Unlinked, Unshared, OneShot, CreateSkillset,
                DeleteSkillset, Unlink, Unshare, TxIInv, TxTypeOK, TypeOK
  <2> QED
    BY <2>1, OneShotIsSound
<1>4. CASE UNCHANGED txvars
  <2>1. TypeOK' /\ UNCHANGED <<skills, w>>
    BY <1>4 DEF txvars, TxIInv, TxTypeOK, TypeOK
  <2> QED
    BY <2>1, OneShotIsSound
<1> QED
  BY <1>1, <1>2, <1>3, <1>4 DEF TxNext

THEOREM AlwaysApart == TxSpec => []TxIInv
BY TxInitial, TxInductive, PTL DEF TxSpec

\* Rows and requests in flight are well typed, whatever overlaps: in particular no
\* UPDATE is applied to a row that is gone.
THEOREM TransactionsAreTyped == TxSpec => []TxTypeOK
<1>1. TxIInv => TxTypeOK
  BY DEF TxIInv
<1> QED
  BY <1>1, AlwaysApart, PTL

\* A refresh that commits on the flags it has read leaves exactly one latest version,
\* a highest one, although it writes only the flags that differ.
LEMMA FlushHeals ==
  ASSUME TxIInv, NEW p \in Worker, Flushes(p), ~Overtaken(p)
  PROVE  /\ OneLatest'
         /\ Existing(skills') = DOMAIN w[p].flags
         /\ Existing(skills') # {}
<1> DEFINE me == w[p]  v == w[p].v  others == Existing(skills) \ {v}  seen == DOMAIN w[p].flags
<1>1. /\ me \in Requests /\ me.pc = "commit" /\ me.op \in Refreshing /\ Chosen(p)
      /\ seen \subseteq Version
  BY DEF Flushes, TxIInv, TxTypeOK, Good, Requests, Flags
<1>2. /\ seen \ {v} = others
      /\ \A x \in others : me.flags[x] = skills[x].latest
      /\ me.op = "upsert" => me.flags[v] = skills[v].latest
  BY <1>1 DEF Overtaken
<1>3. (v \in seen) <=> (me.op # "delete")
  BY <1>1 DEF Chosen, Refreshing
<1>4. Existing(skills') = seen
  BY <1>2, <1>3, FlushedRows DEF Existing
<1>5. ASSUME NEW x \in seen PROVE skills'[x].latest = (x = me.best)
  <2>1. CASE x = v
    BY <1>1, <1>2, <1>3, <2>1, FlushedRows DEF ChangedFlags, Refreshing
  <2>2. CASE x # v
    <3>1. x \in others /\ x \in Version \ {v} /\ skills[x] # None
      BY <1>2, <2>2 DEF Existing
    <3>2. skills'[x].latest = IF x \in Targets(p) THEN x = me.best ELSE skills[x].latest
      BY <3>1, FlushedRows
    <3>3. x \in Targets(p) <=> (me.flags[x] # (x = me.best))
      BY <2>2 DEF Targets, ChangedFlags
    <3>4. me.flags[x] \in BOOLEAN
      BY <1>1 DEF Requests, Flags
    <3> QED
      BY <1>2, <3>1, <3>2, <3>3, <3>4
  <2> QED
    BY <2>1, <2>2
<1>6. seen # {}
  BY <1>1, <1>3 DEF Overtaken
<1>7. OneLatest'
  <2>1. me.best \in seen /\ \A x \in seen : Rank[x] <= Rank[me.best]
    BY <1>1, <1>6 DEF Chosen, Highest
  <2>2. Flagged(skills') = {me.best}
    BY <1>4, <1>5, <2>1 DEF Flagged
  <2> QED
    BY <1>4, <2>1, <2>2 DEF OneLatest
<1> QED
  BY <1>4, <1>6, <1>7

\* The request that ends at p's commit is p's own.
LEMMA EndsByItself ==
  ASSUME TxIInv, NEW p \in Worker, w[p].pc = "commit", w'[p] = Idle, TxNext
  PROVE  Proceed(p)
<1>1. ASSUME NEW q \in Worker, q # p, Arrive(q) \/ Proceed(q)
      PROVE  FALSE
  <2>1. w[p] \in Requests
    BY DEF TxIInv, TxTypeOK
  <2>2. \/ \E rec : w' = [w EXCEPT ![q] = rec]
        \/ \E gone : DoneDeleting(q, gone)
    BY <1>1 DEF Arrive, Proceed, CreatePeek, UpsertPeek, DeletePeek, DeleteAllRows, MoveRead,
                LinkPeek, SharePeek, Insert, WriteRow, Count, RefreshRead, RefreshCommit,
                DeadlockVictim, UnlinkAll, Drop, DropWith, MoveCommit, LinkCommit,
                ShareCommit, Put, Done, Fail
  <2>3. w'[p].pc = w[p].pc
    <3>1. CASE \E rec : w' = [w EXCEPT ![q] = rec]
      BY <1>1, <3>1 DEF TxIInv, TxTypeOK
    <3>2. CASE \E gone : DoneDeleting(q, gone)
      BY <1>1, <2>1, <3>2 DEF DoneDeleting, Requests
    <3> QED
      BY <2>2, <3>1, <3>2
  <2> QED
    BY <2>3, IdleHasNothing
<1>2. ASSUME Arrive(p) PROVE FALSE
  BY <1>2 DEF Arrive, CreatePeek, UpsertPeek, DeletePeek, DeleteAllRows, MoveRead,
              LinkPeek, SharePeek, Free
<1>3. ASSUME UNCHANGED w PROVE FALSE
  BY <1>3, IdleHasNothing
<1>4. (\/ \E s \in Skillset : SetCreated(s) \/ SetDeleted(s) \/ Unlinked(s)
       \/ \E e \in Email : Unshared(e)) => UNCHANGED w
  BY DEF SetCreated, SetDeleted, Unlinked, Unshared, OneShot
<1> QED
  BY <1>1, <1>2, <1>3, <1>4 DEF TxNext

\* A create, upsert or version delete that commits on what is still so repairs the
\* latest flag, whatever earlier races had left of it.
THEOREM RefreshesHeal == TxSpec => RefreshHeals
<1> DEFINE Heals(p) ==
      (/\ w[p].pc = "commit" /\ w[p].op \in Refreshing
       /\ w'[p] = Idle /\ skills' # skills /\ ~Overtaken(p)) => OneLatest'
<1>1. ASSUME TxIInv, TxNext, NEW p \in Worker PROVE Heals(p)
  <2> SUFFICES ASSUME w[p].pc = "commit", w[p].op \in Refreshing, w'[p] = Idle,
                      skills' # skills, ~Overtaken(p)
               PROVE  OneLatest'
    OBVIOUS
  <2>1. Proceed(p)
    BY <1>1, EndsByItself
  <2>2. RefreshCommit(p) /\ ~FlushFails(p)
    BY <2>1 DEF Proceed, Insert, WriteRow, Count, RefreshRead, RefreshCommit,
                DeadlockVictim, UnlinkAll, Drop, DropWith, MoveCommit, LinkCommit,
                ShareCommit, At, Fail, tables, Refreshing
  <2>3. Flushes(p)
    BY <2>2 DEF RefreshCommit, FlushFails, Flushes
  <2> QED
    BY <1>1, <2>3, FlushHeals
<1>2. TxIInv /\ [TxNext]_txvars => [\A p \in Worker : Heals(p)]_txvars
  BY <1>1
<1> QED
  BY <1>2, AlwaysApart, PTL DEF TxSpec, RefreshHeals

\* The steps that can do damage, taken by a request that was not overtaken.
LEMMA HarmlessCommits ==
  ASSUME TxIInv, OneLatest, LinksAlive, NEW p \in Worker, ~Overtaken(p),
         RefreshCommit(p) \/ Drop(p) \/ MoveCommit(p) \/ LinkCommit(p)
  PROVE  (OneLatest /\ LinksAlive)'
<1>1. ASSUME UNCHANGED tables PROVE (OneLatest /\ LinksAlive)'
  BY <1>1 DEF tables, OneLatest, LinksAlive
<1>2. CASE RefreshCommit(p) /\ ~FlushFails(p)
  <2>1. /\ Flushes(p) /\ UNCHANGED sets /\ w[p].ss \subseteq sets
        /\ links' = links \cup w[p].ss
    BY <1>2 DEF RefreshCommit, FlushFails, Flushes
  <2>2. OneLatest' /\ Existing(skills') # {}
    BY <2>1, FlushHeals
  <2>3. LinksAlive'
    BY <2>1, <2>2 DEF LinksAlive
  <2> QED
    BY <2>2, <2>3
<1>3. CASE Drop(p)
  <2>1. /\ Existing(skills) = w[p].holds /\ links' = {} /\ UNCHANGED sets
        /\ skills' = [v \in Version |-> IF v \in w[p].holds THEN None ELSE skills[v]]
    BY <1>3 DEF Drop, DropWith, Overtaken
  <2>2. Existing(skills') = {}
    BY <2>1 DEF Existing
  <2> QED
    BY <2>1, <2>2 DEF OneLatest, LinksAlive
<1>4. CASE MoveCommit(p) /\ DOMAIN w[p].flags \cap w[p].lost = {}
  <2>1. /\ At(p, "commit", "move") /\ UNCHANGED <<sets, links>>
        /\ skills' = [v \in Version |-> IF v \in DOMAIN w[p].flags
                        THEN [skills[v] EXCEPT !.home = w[p].a] ELSE skills[v]]
    BY <1>4 DEF MoveCommit
  <2>2. \A x \in Version : /\ (skills'[x] = None) <=> (skills[x] = None)
                           /\ skills[x] # None => skills'[x].latest = skills[x].latest
    BY <1>4, <2>1, MovedRows
  <2>3. Existing(skills') = Existing(skills) /\ Flagged(skills') = Flagged(skills)
    BY <2>2 DEF Existing, Flagged
  <2> QED
    BY <2>1, <2>3 DEF OneLatest, LinksAlive
<1>5. CASE LinkCommit(p)
  <2>1. /\ Existing(skills) # {} /\ UNCHANGED <<skills, sets>>
        /\ links' = IF w[p].ss \subseteq sets THEN links \cup w[p].ss ELSE links
    BY <1>5 DEF LinkCommit, At, Overtaken
  <2> QED
    BY <2>1 DEF OneLatest, LinksAlive
<1> QED
  BY <1>1, <1>2, <1>3, <1>4, <1>5 DEF RefreshCommit, MoveCommit, Fail

\* The latest flag goes wrong, or a link outlives its skill, only at the commit of a
\* request that was overtaken between one of its statements and its commit.
THEOREM DamageIsARace == TxSpec => DamageNeedsRace
<1> DEFINE Damage == OneLatest /\ LinksAlive /\ ~(OneLatest /\ LinksAlive)'
           Excuse == \E p \in Worker : w[p].pc \in {"commit", "drop"} /\ w'[p] # w[p] /\ Overtaken(p)
<1>1. ASSUME TxIInv, TxNext, Damage PROVE Excuse
  <2>1. ASSUME UNCHANGED <<skills, sets, links>> PROVE FALSE
    BY <1>1, <2>1 DEF OneLatest, LinksAlive
  <2>2. ASSUME NEW p \in Worker, Arrive(p) PROVE FALSE
    BY <2>1, <2>2 DEF Arrive, CreatePeek, UpsertPeek, DeletePeek, DeleteAllRows, MoveRead,
                LinkPeek, SharePeek, Put, tables
  <2>3. ASSUME NEW p \in Worker, Proceed(p) PROVE Excuse
    <3>1. RefreshCommit(p) \/ Drop(p) \/ MoveCommit(p) \/ LinkCommit(p)
      BY <2>1, <2>3 DEF Proceed, Insert, WriteRow, Count, RefreshRead, DeadlockVictim,
                  UnlinkAll, ShareCommit, Put, Fail, tables
    <3>2. Overtaken(p)
      BY <1>1, <3>1, HarmlessCommits
    <3>3. w[p].pc \in {"commit", "drop"}
      BY <3>1 DEF RefreshCommit, Drop, DropWith, MoveCommit, LinkCommit, At
    <3>4. w'[p] = Idle
      BY <1>1, <3>1 DEF RefreshCommit, Drop, DropWith, MoveCommit, LinkCommit, Fail, Done,
                        DoneDeleting, TxIInv, TxTypeOK
    <3> QED
      BY <3>2, <3>3, <3>4, IdleHasNothing
  <2>4. ASSUME NEW s \in Skillset, SetCreated(s) \/ SetDeleted(s) \/ Unlinked(s) PROVE FALSE
    BY <1>1, <2>4 DEF SetCreated, SetDeleted, Unlinked, OneShot, CreateSkillset,
                      DeleteSkillset, Unlink, OneLatest, LinksAlive
  <2>5. ASSUME NEW e \in Email, Unshared(e) PROVE FALSE
    BY <2>1, <2>5 DEF Unshared, OneShot, Unshare
  <2> QED
    BY <1>1, <2>2, <2>3, <2>4, <2>5 DEF TxNext
<1>2. TxIInv /\ [TxNext]_txvars => [Damage => Excuse]_txvars
  BY <1>1
<1> QED
  BY <1>2, AlwaysApart, PTL DEF TxSpec, DamageNeedsRace

-----------------------------------------------------------------------------
(* One worker implements the serial catalog.                               *)

\* What a request has read is still so, as long as nobody else commits.
Current(p) ==
  LET me == w[p]
  IN /\ me.lost = {}
     /\ me.op \in {"create", "upsert"} => me.new.latest = FALSE
     /\ me.op \in {"upsert", "delete"} /\ me.pc # "drop" => me.ss = {}
     /\ me.op = "create" => me.ss \subseteq sets
     /\ me.op = "upsert" => me.flags[me.v] = skills[me.v].latest
     /\ me.op = "delete" /\ me.pc = "refresh" => Existing(skills) \ {me.v} # {}
     /\ me.op \in Refreshing /\ me.pc = "commit" => me.ss \cap links = {} /\ ~Overtaken(p)
     /\ me.pc \in {"unlink", "drop"} => me.holds = Existing(skills)
     /\ me.pc = "drop" => me.ss = links
     /\ me.op = "move" => /\ Existing(skills) # {} /\ DOMAIN me.flags \subseteq Existing(skills)
                          /\ \A x \in Existing(skills) \ DOMAIN me.flags : skills[x].home = me.a
     /\ me.op = "link" => \E s \in Skillset : /\ me.ss = {s} /\ s \in sets \ links
                                              /\ Existing(skills) # {}
     /\ me.op = "share" => \E v \in Flagged(skills) : skills[v].vis # "public"

LEMMA IdleIsCurrent ==
  ASSUME NEW p \in Worker
  PROVE  (w[p] = Idle => Current(p)) /\ (w'[p] = Idle => Current(p)')
BY IdleHasNothing DEF Current, Refreshing

\* The rows a refresh works on: the row of its version written, flags untouched.
Written(p) ==
  [skills EXCEPT ![w[p].v] = IF w[p].op = "create" THEN w[p].new
                             ELSE IF w[p].op = "upsert" THEN [@ EXCEPT !.vis = w[p].new.vis]
                             ELSE None]

LEMMA FlushIsRefresh ==
  ASSUME TxIInv, NEW p \in Worker, Flushes(p), Current(p)
  PROVE  Refresh(Written(p))
<1> DEFINE me == w[p]  v == w[p].v  best == w[p].best  seen == DOMAIN w[p].flags
           rows == Written(p)
<1>1. /\ me \in Requests /\ me.pc = "commit" /\ me.op \in Refreshing /\ Good(p) /\ v \in Version
      /\ skills \in [Version -> Row \cup {None}]
  BY DEF Flushes, TxIInv, TxTypeOK, TypeOK, Good, Shaped
<1>2. ~Overtaken(p)
  BY <1>1 DEF Current
<1>3. Existing(skills') = seen /\ seen # {} /\ best \in Highest(seen)
  BY <1>1, <1>2, FlushHeals DEF Good, Chosen
<1>4. /\ rows[v] = IF me.op = "create" THEN me.new
                   ELSE IF me.op = "upsert" THEN [skills[v] EXCEPT !.vis = me.new.vis] ELSE None
      /\ \A x \in Version \ {v} : rows[x] = skills[x]
      /\ DOMAIN rows = Version
  BY <1>1 DEF Written
<1>5. me.op \in {"create", "upsert"} => me.new \in Row
  BY <1>1 DEF Good, Shaped
<1>6. me.op \in {"upsert", "delete"} => skills[v] \in Row
  BY <1>1, FlushedRows DEF TxIInv
<1>7. (rows[v] = None) <=> (me.op = "delete")
  <2>1. me.op = "upsert" => [skills[v] EXCEPT !.vis = me.new.vis] \in Row
    BY <1>5, <1>6 DEF Row
  <2> QED
    BY <1>1, <1>4, <1>5, <2>1, NoneIsNoRow DEF Refreshing
<1> HIDE DEF rows
<1>8. Existing(rows) = seen
  <2>1. \A x \in Version : (rows[x] = None) <=> (skills'[x] = None)
    BY <1>4, <1>7, FlushedRows
  <2> QED
    BY <1>3, <2>1 DEF Existing
<1>9. ASSUME NEW x \in Version
      PROVE  skills'[x] = IF rows[x] = None THEN None ELSE [rows[x] EXCEPT !.latest = (x = best)]
  <2> DEFINE flag == (x = best)
  <2>0. flag \in BOOLEAN
    OBVIOUS
  <2>1. CASE x # v /\ skills[x] = None
    BY <1>4, <2>1, FlushedRows
  <2>2. CASE x # v /\ skills[x] # None
    <3>1. x \in seen /\ me.flags[x] = skills[x].latest
      BY <1>1, <1>2, <2>2 DEF Overtaken, Existing
    <3>2. x \in Targets(p) <=> (skills[x].latest # flag)
      BY <2>2, <3>1 DEF Targets, ChangedFlags
    <3>3. skills'[x] = IF x \in Targets(p) THEN [skills[x] EXCEPT !.latest = flag] ELSE skills[x]
      BY <1>1, <2>2 DEF Flushes
    <3>4. skills[x] \in Row
      BY <1>1, <2>2
    <3> HIDE DEF flag
    <3>5. skills[x].latest = flag => [skills[x] EXCEPT !.latest = flag] = skills[x]
      BY <3>4 DEF Row
    <3>6. skills'[x] = [skills[x] EXCEPT !.latest = flag]
      BY <3>2, <3>3, <3>5
    <3> QED
      BY <1>4, <2>2, <3>6 DEF flag
  <2>3. CASE x = v /\ me.op = "create"
    <3>1. skills'[v] = [me.new EXCEPT !.latest = (v = best)]
      BY <1>1, <2>3 DEF Flushes, OwnRow
    <3> QED
      BY <1>4, <1>7, <2>3, <3>1
  <2>4. CASE x = v /\ me.op = "upsert"
    <3> DEFINE vis == me.new.vis
    <3>1. skills'[v] = [skills[v] EXCEPT !.vis = vis,
                          !.latest = IF v \in ChangedFlags(p) THEN flag ELSE skills[v].latest]
      <4>1. skills'[v] = OwnRow(p)
        BY <1>1 DEF Flushes
      <4>2. OwnRow(p) = [skills[v] EXCEPT !.vis = vis,
                           !.latest = IF v \in ChangedFlags(p) THEN v = best ELSE @]
        BY <2>4 DEF OwnRow
      <4> QED
        BY <1>6, <2>4, <4>1, <4>2 DEF Row
    <3>2. v \in ChangedFlags(p) <=> (skills[v].latest # flag)
      BY <1>1, <2>4 DEF Current, Good, Chosen, ChangedFlags
    <3> HIDE DEF flag
    <3>3. (IF v \in ChangedFlags(p) THEN flag ELSE skills[v].latest) = flag
      BY <3>2
    <3>4. skills'[v] = [skills[v] EXCEPT !.vis = vis, !.latest = flag]
      BY <3>1, <3>3
    <3>5. rows[v] # None /\ rows[v] = [skills[v] EXCEPT !.vis = vis]
      BY <1>4, <1>7, <2>4
    <3> HIDE DEF vis
    <3>6. [rows[v] EXCEPT !.latest = flag] = [skills[v] EXCEPT !.vis = vis, !.latest = flag]
      BY <1>6, <2>4, <3>5 DEF Row
    <3> QED
      BY <2>4, <3>4, <3>5, <3>6 DEF flag
  <2>5. CASE x = v /\ me.op = "delete"
    BY <1>7, <2>5, FlushedRows
  <2> QED
    BY <1>1, <2>1, <2>2, <2>3, <2>4, <2>5 DEF Refreshing
<1>10. skills' = Refreshed(rows, best)
  <2>1. skills' \in [Version -> Row \cup {None}]
    BY FlushedRows
  <2> QED
    BY <1>9, <2>1 DEF Refreshed
<1> QED
  BY <1>3, <1>8, <1>10 DEF Refresh, rows

\* A request that has begun: what it has read is what the tables hold.
LEMMA BeginIsCurrent ==
  ASSUME TxIInv, NEW p \in Worker, NEW rec \in Requests, Put(p, rec),
         rec.lost = {}, rec.pc \in {"write", "commit", "unlink"},
         rec.op \in Refreshing => rec.pc = "write",
         rec.op \in {"create", "upsert"} => rec.new.latest = FALSE,
         rec.op \in {"upsert", "delete"} => rec.ss = {},
         rec.op = "create" => rec.ss \subseteq sets,
         rec.op = "upsert" => rec.flags[rec.v] = skills[rec.v].latest,
         rec.pc = "unlink" => rec.holds = Existing(skills),
         rec.op = "move" =>
           /\ Existing(skills) # {} /\ DOMAIN rec.flags \subseteq Existing(skills)
           /\ \A x \in Existing(skills) \ DOMAIN rec.flags : skills[x].home = rec.a,
         rec.op = "link" =>
           \E s \in Skillset : rec.ss = {s} /\ s \in sets \ links /\ Existing(skills) # {},
         rec.op = "share" => \E v \in Flagged(skills) : skills[v].vis # "public"
  PROVE  Current(p)'
<1>1. w'[p] = rec /\ UNCHANGED <<skills, sets, links, shares>>
  BY PutKeepsTypes DEF Put, TxIInv, TxTypeOK, tables
<1>2. Existing(skills)' = Existing(skills) /\ Flagged(skills)' = Flagged(skills)
  BY <1>1
<1> QED
  BY <1>1, <1>2 DEF Current

LEMMA NewRowEntersUnflagged ==
  ASSUME NEW a, NEW vis
  PROVE  NewRow(a, vis).latest = FALSE /\ NewRow(a, vis).vis = vis
BY DEF NewRow

LEMMA ArrivalIsCurrent ==
  ASSUME TxIInv, NEW p \in Worker, Arrive(p)
  PROVE  Current(p)'
<1>1. ASSUME NEW v \in Version, NEW a \in Account \cup {None}, NEW vis \in Vis,
             NEW ss \in SUBSET Skillset, CreatePeek(p, v, a, vis, ss)
      PROVE  Current(p)'
  <2> DEFINE new == NewRow(a, vis)
             rec == [Idle EXCEPT !.pc = "write", !.op = "create", !.v = v, !.new = new, !.ss = ss]
  <2>1. Put(p, rec) /\ ss \subseteq sets
    BY <1>1 DEF CreatePeek
  <2>2. new \in Row /\ new.latest = FALSE
    BY NewRowIsRow, NewRowEntersUnflagged, VisIsTyped
  <2> HIDE DEF new
  <2>3. rec \in Requests
    BY <2>2, IdleIsRequest DEF Requests, Ops, Refreshing
  <2>4. /\ rec.pc = "write" /\ rec.op = "create" /\ rec.v = v /\ rec.new = new /\ rec.ss = ss
        /\ rec.lost = {}
    BY DEF Idle
  <2> HIDE DEF rec
  <2> QED
    BY <2>1, <2>2, <2>3, <2>4, BeginIsCurrent
<1>2. ASSUME NEW v \in Version, NEW vis \in Vis, UpsertPeek(p, v, vis)
      PROVE  Current(p)'
  <2> DEFINE new == NewRow(None, vis)  flags == Read({v})
             absent == [Idle EXCEPT !.pc = "write", !.op = "create", !.v = v, !.new = new]
             found == [Idle EXCEPT !.pc = "write", !.op = "upsert", !.v = v, !.new = new,
                                   !.flags = flags]
  <2>1. new \in Row /\ new.latest = FALSE
    BY NewRowIsRow, NewRowEntersUnflagged, VisIsTyped
  <2>2. /\ skills[v] = None => Put(p, absent)
        /\ skills[v] # None => Put(p, found)
    BY <1>2 DEF UpsertPeek
  <2> HIDE DEF new
  <2>3. CASE skills[v] = None
    <3>1. absent \in Requests
      BY <2>1, IdleIsRequest DEF Requests, Ops, Refreshing
    <3>2. /\ absent.pc = "write" /\ absent.op = "create" /\ absent.v = v /\ absent.new = new
          /\ absent.ss = {} /\ absent.lost = {}
      BY DEF Idle
    <3> HIDE DEF absent
    <3> QED
      BY <2>1, <2>2, <2>3, <3>1, <3>2, BeginIsCurrent
  <2>4. CASE skills[v] # None
    <3>1. flags \in Flags /\ flags[v] = skills[v].latest
      BY <2>4, ReadIsTyped DEF TxIInv, TxTypeOK, Existing
    <3> HIDE DEF flags
    <3>2. found \in Requests
      BY <2>1, <3>1, IdleIsRequest DEF Requests, Ops, Refreshing
    <3>3. /\ found.pc = "write" /\ found.op = "upsert" /\ found.v = v /\ found.new = new
          /\ found.flags = flags /\ found.ss = {} /\ found.lost = {}
      BY DEF Idle
    <3> HIDE DEF found
    <3> QED
      BY <2>1, <2>2, <2>4, <3>1, <3>2, <3>3, BeginIsCurrent
  <2> QED
    BY <2>3, <2>4
<1>3. ASSUME NEW v \in Version, DeletePeek(p, v) PROVE Current(p)'
  <2> DEFINE flags == Read({v})
             rec == [Idle EXCEPT !.pc = "write", !.op = "delete", !.v = v, !.flags = flags]
  <2>1. Put(p, rec) /\ skills[v] # None
    BY <1>3 DEF DeletePeek
  <2>2. flags \in Flags
    BY <2>1, ReadIsTyped DEF TxIInv, TxTypeOK, Existing
  <2> HIDE DEF flags
  <2>3. rec \in Requests
    BY <2>2, IdleIsRequest DEF Requests, Ops, Refreshing
  <2>4. rec.pc = "write" /\ rec.op = "delete" /\ rec.ss = {} /\ rec.lost = {}
    BY DEF Idle
  <2> HIDE DEF rec
  <2> QED
    BY <2>1, <2>3, <2>4, BeginIsCurrent
<1>4. CASE DeleteAllRows(p)
  <2> DEFINE rows == Existing(skills)
             rec == [Idle EXCEPT !.pc = "unlink", !.op = "delete_all", !.holds = rows]
  <2>1. Put(p, rec) /\ rows \in SUBSET Version
    BY <1>4 DEF DeleteAllRows, Existing
  <2> HIDE DEF rows
  <2>2. rec \in Requests
    BY <2>1, IdleIsRequest DEF Requests, Ops
  <2>3. rec.pc = "unlink" /\ rec.op = "delete_all" /\ rec.holds = rows /\ rec.lost = {}
    BY DEF Idle
  <2> HIDE DEF rec
  <2> QED
    BY <2>1, <2>2, <2>3, BeginIsCurrent DEF Refreshing, rows
<1>5. ASSUME NEW a \in Account, MoveRead(p, a) PROVE Current(p)'
  <2>1. PICK moved \in {{v \in Existing(skills) : skills[v].home # a}, Existing(skills)} :
          Put(p, [Idle EXCEPT !.pc = "commit", !.op = "move", !.a = a, !.flags = Read(moved)])
    BY <1>5 DEF MoveRead
  <2> DEFINE flags == Read(moved)
             rec == [Idle EXCEPT !.pc = "commit", !.op = "move", !.a = a, !.flags = flags]
  <2>2. /\ Existing(skills) # {} /\ moved \in SUBSET Existing(skills)
        /\ \A x \in Existing(skills) \ moved : skills[x].home = a
    BY <1>5 DEF MoveRead
  <2>3. flags \in Flags /\ DOMAIN flags = moved
    BY <2>2, ReadIsTyped DEF TxIInv, TxTypeOK
  <2>4. Put(p, rec)
    BY <2>1
  <2> HIDE DEF flags
  <2>5. rec \in Requests
    BY <2>3, IdleIsRequest DEF Requests, Ops
  <2>6. /\ rec.pc = "commit" /\ rec.op = "move" /\ rec.a = a /\ rec.flags = flags
        /\ rec.lost = {}
    BY DEF Idle
  <2> HIDE DEF rec
  <2> QED
    BY <2>2, <2>3, <2>4, <2>5, <2>6, BeginIsCurrent DEF Refreshing
<1>6. ASSUME NEW s \in Skillset, LinkPeek(p, s) PROVE Current(p)'
  <2> DEFINE rec == [Idle EXCEPT !.pc = "commit", !.op = "link", !.ss = {s}]
  <2>1. Put(p, rec) /\ s \in sets \ links /\ Existing(skills) # {}
    BY <1>6 DEF LinkPeek
  <2>2. rec \in Requests
    BY IdleIsRequest DEF Requests, Ops
  <2>3. rec.pc = "commit" /\ rec.op = "link" /\ rec.ss = {s} /\ rec.lost = {}
    BY DEF Idle
  <2> HIDE DEF rec
  <2> QED
    BY <2>1, <2>2, <2>3, BeginIsCurrent DEF Refreshing
<1>7. ASSUME NEW e \in Email, SharePeek(p, e) PROVE Current(p)'
  <2> DEFINE rec == [Idle EXCEPT !.pc = "commit", !.op = "share", !.e = e]
  <2>1. Put(p, rec) /\ \E v \in Flagged(skills) : skills[v].vis # "public"
    BY <1>7 DEF SharePeek
  <2>2. rec \in Requests
    BY IdleIsRequest DEF Requests, Ops
  <2>3. rec.pc = "commit" /\ rec.op = "share" /\ rec.lost = {}
    BY DEF Idle
  <2> HIDE DEF rec
  <2> QED
    BY <2>1, <2>2, <2>3, BeginIsCurrent DEF Refreshing
<1> QED
  BY <1>1, <1>2, <1>3, <1>4, <1>5, <1>6, <1>7 DEF Arrive

\* A step on the way to the commit: it changes no table.
LEMMA ProgressIsCurrent ==
  ASSUME TxIInv, NEW p \in Worker, Current(p),
         Insert(p) \/ WriteRow(p) \/ Count(p) \/ RefreshRead(p) \/ UnlinkAll(p)
  PROVE  Current(p)' /\ UNCHANGED tables
<1>1. w[p] \in Requests /\ Good(p)
  BY DEF TxIInv, TxTypeOK
<1>2. ASSUME Fail(p) PROVE Current(p)' /\ UNCHANGED tables
  BY <1>2, IdleIsCurrent DEF Fail, Done, TxIInv, TxTypeOK
<1>3. ASSUME NEW rec \in Requests, Put(p, rec), w[p].pc # "drop",
             rec.pc \in {"count", "refresh", "unlink"}, rec.op = w[p].op,
             rec.v = w[p].v, rec.new = w[p].new, rec.ss = w[p].ss, rec.flags = w[p].flags,
             rec.lost = w[p].lost, rec.op \in Refreshing,
             rec.pc = "refresh" /\ rec.op = "delete" => Existing(skills) \ {rec.v} # {},
             rec.pc = "unlink" => rec.holds = Existing(skills)
      PROVE  Current(p)' /\ UNCHANGED tables
  <2>1. w'[p] = rec /\ UNCHANGED <<skills, sets, links, shares>>
    BY <1>3, PutKeepsTypes DEF Put, TxIInv, TxTypeOK, tables
  <2>2. rec.op \notin {"delete_all", "move", "link", "share"}
    BY <1>3 DEF Refreshing
  <2>3. Existing(skills)' = Existing(skills)
    BY <2>1
  <2> QED
    BY <1>1, <1>3, <2>1, <2>2, <2>3 DEF Current, tables
<1>4. CASE Insert(p) /\ skills[w[p].v] = None
  <2> DEFINE rec == [w[p] EXCEPT !.pc = "refresh"]
  <2>1. Put(p, rec) /\ w[p].op = "create" /\ w[p].pc = "write"
    BY <1>4 DEF Insert, At
  <2>2. rec \in Requests
    BY <1>1 DEF Requests
  <2>3. /\ rec.pc = "refresh" /\ rec.op = w[p].op /\ rec.v = w[p].v /\ rec.new = w[p].new
        /\ rec.ss = w[p].ss /\ rec.flags = w[p].flags /\ rec.lost = w[p].lost
    BY <1>1 DEF Requests
  <2> HIDE DEF rec
  <2> QED
    BY <1>3, <2>1, <2>2, <2>3 DEF Refreshing
<1>5. CASE WriteRow(p) /\ w[p].v \notin w[p].lost
  <2> DEFINE v == w[p].v  next == IF w[p].op = "delete" THEN "count" ELSE "refresh"
             rec == [w[p] EXCEPT !.pc = next, !.holds = {v}]
  <2>1. Put(p, rec) /\ w[p].op \in {"upsert", "delete"} /\ w[p].pc = "write"
    BY <1>5 DEF WriteRow, At
  <2>2. v \in Version
    BY <1>1, <2>1 DEF Good, Shaped, Refreshing
  <2> HIDE DEF v
  <2>3. rec \in Requests
    BY <1>1, <2>2 DEF Requests
  <2>4. /\ rec.pc = next /\ rec.op = w[p].op /\ rec.v = w[p].v /\ rec.new = w[p].new
        /\ rec.ss = w[p].ss /\ rec.flags = w[p].flags /\ rec.lost = w[p].lost
    BY <1>1 DEF Requests
  <2> HIDE DEF rec
  <2> QED
    BY <1>3, <2>1, <2>3, <2>4 DEF Refreshing
<1>6. CASE Count(p)
  <2> DEFINE v == w[p].v
             next == IF Existing(skills) \subseteq {v} THEN "unlink" ELSE "refresh"
             rec == [w[p] EXCEPT !.pc = next]
  <2>1. Put(p, rec) /\ w[p].op = "delete" /\ w[p].pc = "count"
    BY <1>6 DEF Count, At
  <2>2. next = "unlink" => w[p].holds = Existing(skills)
    <3>1. v \in w[p].holds /\ w[p].holds \subseteq Existing(skills)
      BY <1>1, <2>1 DEF Good, Holding, Existing, Requests
    <3> QED
      BY <3>1
  <2>3. next = "refresh" => Existing(skills) \ {v} # {}
    OBVIOUS
  <2>4. next \in {"unlink", "refresh"}
    OBVIOUS
  <2> HIDE DEF next
  <2>5. rec \in Requests
    BY <1>1, <2>4 DEF Requests
  <2>6. /\ rec.pc = next /\ rec.op = w[p].op /\ rec.v = v /\ rec.new = w[p].new
        /\ rec.ss = w[p].ss /\ rec.flags = w[p].flags /\ rec.lost = w[p].lost
        /\ rec.holds = w[p].holds
    BY <1>1 DEF Requests
  <2> HIDE DEF rec
  <2> QED
    BY <1>3, <2>1, <2>2, <2>3, <2>4, <2>5, <2>6 DEF Refreshing
<1>7. CASE UnlinkAll(p)
  <2> DEFINE rec == [w[p] EXCEPT !.pc = "drop", !.ss = links]
  <2>1. Put(p, rec) /\ w[p].pc = "unlink" /\ links \in SUBSET Skillset
    BY <1>7 DEF UnlinkAll, TxIInv, TxTypeOK, TypeOK
  <2>2. rec \in Requests
    BY <1>1, <2>1 DEF Requests
  <2>3. /\ rec.pc = "drop" /\ rec.op = w[p].op /\ rec.holds = w[p].holds /\ rec.ss = links
        /\ rec.lost = w[p].lost
    BY <1>1 DEF Requests
  <2>4. rec.op \in {"delete", "delete_all"}
    BY <1>1, <2>1, <2>3 DEF Good, Shaped
  <2> HIDE DEF rec
  <2>5. w'[p] = rec /\ UNCHANGED <<skills, sets, links, shares>>
    BY <2>1, <2>2, PutKeepsTypes DEF Put, TxIInv, TxTypeOK, tables
  <2> QED
    BY <2>1, <2>3, <2>4, <2>5 DEF Current, tables
<1>8. CASE RefreshRead(p)
  <2> DEFINE v == w[p].v  seen == Siblings(p)  ss == w[p].ss \ links
             others == Existing(skills) \ {v}
  <2>1. PICK best : w' = [w EXCEPT ![p] =
          [w[p] EXCEPT !.pc = "commit", !.flags = seen, !.best = best, !.ss = ss]]
    BY <1>1, <1>8 DEF RefreshRead, Put, Requests
  <2>2. /\ DOMAIN seen = IF w[p].op = "delete" THEN others ELSE others \cup {v}
        /\ \A x \in DOMAIN seen :
             seen[x] = IF x # v THEN skills[x].latest ELSE w[p].op = "upsert" /\ w[p].flags[x]
    BY DEF Siblings
  <2>3. UNCHANGED <<skills, sets, links, shares>>
    BY <1>8 DEF RefreshRead, Put, tables
  <2>4. w[p].pc = "refresh" /\ w[p].op \in Refreshing
    BY <1>1, <1>8 DEF RefreshRead, Good, Shaped
  <2> HIDE DEF seen, ss
  <2>5. /\ w'[p].pc = "commit" /\ w'[p].op = w[p].op /\ w'[p].v = v /\ w'[p].new = w[p].new
        /\ w'[p].flags = seen /\ w'[p].ss = ss /\ w'[p].lost = w[p].lost
    BY <1>1, <2>1 DEF Requests, TxIInv, TxTypeOK
  <2>6. w[p].op = "upsert" => seen[v] = skills[v].latest /\ v \in DOMAIN seen
    <3>1. w[p].op = "upsert" => w[p].flags[v] \in BOOLEAN
      BY <1>1 DEF Good, Chosen, Requests, Flags
    <3> QED
      BY <2>2, <3>1 DEF Current
  <2>7. /\ DOMAIN seen \ {v} = others
        /\ \A x \in others : seen[x] = skills[x].latest
    BY <2>2
  <2>8. ~Overtaken(p)'
    <3>1. Existing(skills') = Existing(skills)
      BY <2>3
    <3>2. w[p].op = "delete" => DOMAIN seen # {}
      BY <2>2, <2>4 DEF Current
    <3> QED
      BY <2>3, <2>4, <2>5, <2>6, <2>7, <3>1, <3>2 DEF Overtaken, Refreshing
  <2>9. w[p].op \notin {"delete_all", "move", "link", "share"}
    BY <2>4 DEF Refreshing
  <2>10. ss \cap links = {} /\ ss \subseteq w[p].ss
    BY DEF ss
  <2> QED
    BY <2>3, <2>4, <2>5, <2>6, <2>8, <2>9, <2>10 DEF Current, tables
<1> QED
  BY <1>2, <1>4, <1>5, <1>6, <1>7, <1>8 DEF Insert, WriteRow

\* The last flush of a request nobody has overtaken is the serial request.
LEMMA RefreshCommitIsServed ==
  ASSUME TxIInv, NEW p \in Worker, Current(p), RefreshCommit(p)
  PROVE  w'[p] = Idle /\ [Next]_vars
<1> DEFINE me == w[p]  v == w[p].v
<1>1. me \in Requests /\ Good(p) /\ me.pc = "commit" /\ me.op \in Refreshing
  BY DEF TxIInv, TxTypeOK, RefreshCommit
<1>2. CASE FlushFails(p)
  BY <1>2 DEF RefreshCommit, Fail, Done, tables, vars, TxIInv, TxTypeOK
<1>3. CASE ~FlushFails(p)
  <2>1. /\ Flushes(p) /\ UNCHANGED <<sets, shares>> /\ me.ss \subseteq sets
        /\ links' = links \cup me.ss
    BY <1>3 DEF RefreshCommit, FlushFails, Flushes
  <2>2. w'[p] = Idle
    BY <1>3 DEF RefreshCommit, Done, DoneDeleting, TxIInv, TxTypeOK
  <2>3. Refresh(Written(p))
    BY <2>1, FlushIsRefresh
  <2>4. /\ v \in Version
        /\ me.op = "create" => skills[v] = None
        /\ me.op \in {"upsert", "delete"} => skills[v] # None
    BY <2>1, FlushedRows
  <2>5. me.op \in {"create", "upsert"} => me.new \in Row /\ me.new.latest = FALSE
    BY <1>1 DEF Good, Shaped, Current
  <2>6. me.op \in {"upsert", "delete"} => links' = links
    BY <1>1, <2>1 DEF Current
  <2>7. CASE me.op = "create"
    <3> DEFINE home == me.new.home  vis == me.new.vis
    <3>1. home \in Account /\ vis \in Visibility /\ home # None
      BY <2>5, <2>7, NoneIsNoRow DEF Row
    <3>2. NewRow(home, vis) = me.new
      BY <2>5, <2>7, <3>1 DEF NewRow, Row
    <3>3. Written(p) = [skills EXCEPT ![v] = NewRow(home, vis)]
      BY <2>7, <3>2 DEF Written
    <3>4. CreateSkill(v, home, vis, me.ss)
      BY <2>1, <2>3, <2>4, <2>7, <3>3 DEF CreateSkill
    <3>5. me.ss \in SUBSET Skillset
      BY <1>1 DEF Requests
    <3> QED
      BY <2>2, <2>4, <3>1, <3>4, <3>5 DEF Next
  <2>8. CASE me.op = "upsert"
    <3> DEFINE vis == me.new.vis
    <3>1. vis \in Visibility
      BY <2>5, <2>8 DEF Row
    <3>2. Written(p) = [skills EXCEPT ![v] =
                         IF skills[v] = None THEN NewRow(None, vis) ELSE [@ EXCEPT !.vis = vis]]
      BY <2>4, <2>8 DEF Written
    <3>3. UpsertSkill(v, vis)
      BY <2>1, <2>3, <2>6, <2>8, <3>2 DEF UpsertSkill
    <3> QED
      BY <2>2, <2>4, <3>1, <3>3 DEF Next
  <2>9. CASE me.op = "delete"
    <3>1. Written(p) = [skills EXCEPT ![v] = None]
      BY <2>9 DEF Written
    <3>2. DOMAIN me.flags = Existing(skills) \ {v} /\ DOMAIN me.flags # {}
      BY <1>1, <2>9 DEF Good, Chosen, Current, Overtaken
    <3>3. DeleteVersion(v)
      BY <2>1, <2>3, <2>4, <2>6, <2>9, <3>1, <3>2 DEF DeleteVersion
    <3> QED
      BY <2>2, <2>4, <3>3 DEF Next
  <2> QED
    BY <1>1, <2>7, <2>8, <2>9 DEF Refreshing
<1> QED
  BY <1>2, <1>3

\* So are the other commits: that of the last version is the deletion of the skill; a
\* delete of nothing and a share that is there already
\* change nothing.
LEMMA CommitIsServed ==
  ASSUME TxIInv, LinksAlive, NEW p \in Worker, Current(p),
         Drop(p) \/ MoveCommit(p) \/ LinkCommit(p) \/ ShareCommit(p)
  PROVE  w'[p] = Idle /\ [Next]_vars
<1>1. skills \in [Version -> Row \cup {None}] /\ w \in [Worker -> Requests] /\ Good(p)
  BY DEF TxIInv, TxTypeOK, TypeOK
<1>2. CASE Drop(p)
  <2>1. /\ w'[p] = Idle /\ w[p].holds = Existing(skills)
        /\ skills' = [v \in Version |-> IF v \in w[p].holds THEN None ELSE skills[v]]
        /\ links' = {} /\ UNCHANGED <<sets, shares>>
    BY <1>2 DEF Drop, DropWith, DoneDeleting, Current
  <2>2. skills' = [v \in Version |-> None]
    BY <2>1 DEF Existing
  <2>3. CASE Existing(skills) = {}
    <3>1. skills = [v \in Version |-> None]
      BY <1>1, <2>3 DEF Existing
    <3> QED
      BY <2>1, <2>2, <2>3, <3>1 DEF LinksAlive, vars
  <2>4. CASE Existing(skills) # {}
    BY <2>1, <2>2, <2>4 DEF DeleteAll, Next
  <2> QED
    BY <2>3, <2>4
<1>3. CASE MoveCommit(p)
  <2> DEFINE a == w[p].a  moved == DOMAIN w[p].flags
  <2>1. /\ At(p, "commit", "move") /\ w'[p] = Idle /\ shares' = {} /\ UNCHANGED <<sets, links>>
        /\ skills' = [v \in Version |-> IF v \in moved THEN [skills[v] EXCEPT !.home = a]
                                        ELSE skills[v]]
    BY <1>1, <1>3 DEF MoveCommit, Current, Done
  <2>2. /\ a \in Account /\ Existing(skills) # {} /\ moved \subseteq Existing(skills)
        /\ \A x \in Existing(skills) \ moved : skills[x].home = a
    BY <1>1, <2>1 DEF At, Current, Good, Shaped
  <2> HIDE DEF a, moved
  <2>3. ASSUME NEW x \in Version
        PROVE  skills'[x] = IF skills[x] = None THEN None ELSE [skills[x] EXCEPT !.home = a]
    <3>1. CASE x \in moved
      BY <2>1, <2>2, <3>1 DEF Existing
    <3>2. CASE x \notin moved /\ skills[x] = None
      BY <2>1, <3>2
    <3>3. CASE x \notin moved /\ skills[x] # None
      <4>1. skills[x] \in Row /\ skills[x].home = a
        BY <1>1, <2>2, <3>3 DEF Existing
      <4>2. [skills[x] EXCEPT !.home = a] = skills[x]
        BY <4>1 DEF Row
      <4> QED
        BY <2>1, <3>3, <4>2
    <3> QED
      BY <3>1, <3>2, <3>3
  <2>4. skills' = [v \in Version |->
          IF skills[v] = None THEN None ELSE [skills[v] EXCEPT !.home = a]]
    <3>1. skills' = [v \in Version |-> skills'[v]]
      BY <2>1
    <3> QED
      BY <2>3, <3>1
  <2>5. MoveSkill(a)
    BY <2>1, <2>2, <2>4 DEF MoveSkill
  <2> QED
    BY <2>1, <2>2, <2>5 DEF Next
<1>4. CASE LinkCommit(p)
  <2>1. /\ At(p, "commit", "link") /\ w'[p] = Idle /\ UNCHANGED <<skills, sets, shares>>
        /\ links' = IF w[p].ss \subseteq sets THEN links \cup w[p].ss ELSE links
    BY <1>1, <1>4 DEF LinkCommit, Done
  <2>2. PICK s \in Skillset : w[p].ss = {s} /\ s \in sets \ links /\ Existing(skills) # {}
    BY <2>1 DEF At, Current
  <2>3. Link(s)
    BY <2>1, <2>2 DEF Link
  <2> QED
    BY <2>1, <2>3 DEF Next
<1>5. CASE ShareCommit(p)
  <2>1. /\ At(p, "commit", "share") /\ w'[p] = Idle /\ UNCHANGED <<skills, sets, links>>
        /\ shares' = shares \cup {w[p].e}
    BY <1>1, <1>5 DEF ShareCommit, Done
  <2>2. w[p].e \in Email /\ \E v \in Flagged(skills) : skills[v].vis # "public"
    BY <1>1, <2>1 DEF At, Current, Good, Shaped
  <2>3. w[p].e \notin shares => Share(w[p].e)
    BY <2>1, <2>2 DEF Share
  <2>4. w[p].e \in shares => UNCHANGED vars
    BY <2>1 DEF vars
  <2> QED
    BY <2>1, <2>2, <2>3, <2>4 DEF Next
<1> QED
  BY <1>2, <1>3, <1>4, <1>5

\* The invariant of a single worker.
SerialInv(p) == TxIInv /\ IInv /\ Current(p)

LEMMA OneWorkerServes ==
  ASSUME NEW p, Worker = {p}, SerialInv(p), [TxNext]_txvars
  PROVE  [Next]_vars /\ SerialInv(p)'
<1>1. p \in Worker /\ TxIInv /\ IInv /\ Current(p) /\ LinksAlive /\ w \in [Worker -> Requests]
  BY DEF SerialInv, IInv, TxIInv, TxTypeOK
<1>2. TxIInv'
  BY <1>1, TxInductive
<1>3. [Next]_vars /\ Current(p)'
  <2>1. CASE Arrive(p)
    <3>1. UNCHANGED tables
      BY <2>1 DEF Arrive, CreatePeek, UpsertPeek, DeletePeek, DeleteAllRows, MoveRead,
                  LinkPeek, SharePeek, Put
    <3> QED
      BY <1>1, <2>1, <3>1, ArrivalIsCurrent DEF tables, vars
  <2>2. CASE Insert(p) \/ WriteRow(p) \/ Count(p) \/ RefreshRead(p) \/ UnlinkAll(p)
    BY <1>1, <2>2, ProgressIsCurrent DEF tables, vars
  <2>3. CASE RefreshCommit(p)
    BY <1>1, <2>3, RefreshCommitIsServed, IdleIsCurrent
  <2>4. CASE Drop(p) \/ MoveCommit(p) \/ LinkCommit(p) \/ ShareCommit(p)
    BY <1>1, <2>4, CommitIsServed, IdleIsCurrent
  <2>5. CASE DeadlockVictim(p)
    BY <2>5 DEF DeadlockVictim
  <2>6. CASE \/ \E s \in Skillset : SetCreated(s) \/ SetDeleted(s) \/ Unlinked(s)
             \/ \E e \in Email : Unshared(e)
    <3>1. Free(p) /\ UNCHANGED w
      BY <2>6 DEF SetCreated, SetDeleted, Unlinked, Unshared, OneShot
    <3>2. w'[p] = Idle
      BY <1>1, <3>1 DEF TxIInv, Good, Shaped
    <3>3. Next
      BY <2>6 DEF SetCreated, SetDeleted, Unlinked, Unshared, OneShot, Next
    <3> QED
      BY <1>1, <3>2, <3>3, IdleIsCurrent
  <2>7. CASE UNCHANGED txvars
    <3>1. UNCHANGED <<skills, sets, links, shares, w>>
      BY <2>7 DEF txvars
    <3> QED
      BY <1>1, <3>1 DEF vars, Current, Overtaken, Existing, Flagged
  <2> QED
    BY <2>1, <2>2, <2>3, <2>4, <2>5, <2>6, <2>7 DEF TxNext, Proceed
<1>4. IInv'
  BY <1>1, <1>3, Inductive
<1> QED
  BY <1>2, <1>3, <1>4 DEF SerialInv

\* With one worker every request, statement by statement, is one request of the
\* serial catalog or changes nothing: the sequences of SQL statements that the
\* services issue do together what Catalog says they do at once.
THEOREM OneWorkerIsSerial ==
  ASSUME NEW CONSTANT p, Worker = {p}
  PROVE  TxSpec => ImplementsCatalog
<1>1. TxInit => SerialInv(p) /\ Serial!Init
  <2> SUFFICES ASSUME TxInit PROVE SerialInv(p) /\ Serial!Init
    OBVIOUS
  <2>1. Init /\ w[p] = Idle
    BY DEF TxInit
  <2>2. TxIInv /\ IInv /\ Current(p)
    BY <2>1, TxInitial, Initial, IdleIsCurrent
  <2> QED
    BY <2>1, <2>2 DEF SerialInv, Init, Serial!Init
<1>2. SerialInv(p) /\ [TxNext]_txvars => SerialInv(p)' /\ [Next]_vars
  BY OneWorkerServes
<1>3. [Next]_vars => [Serial!Next]_Serial!vars
  BY DEF Next, vars, Serial!Next, Serial!vars, Visibility, Serial!Visibility,
         CreateSkill, Serial!CreateSkill, UpsertSkill, Serial!UpsertSkill,
         DeleteVersion, Serial!DeleteVersion, DeleteAll, Serial!DeleteAll,
         MoveSkill, Serial!MoveSkill, CreateSkillset, Serial!CreateSkillset,
         DeleteSkillset, Serial!DeleteSkillset, Link, Serial!Link, Unlink, Serial!Unlink,
         Share, Serial!Share, Unshare, Serial!Unshare, Refresh, Serial!Refresh,
         Refreshed, Serial!Refreshed, Highest, Serial!Highest, Existing, Serial!Existing,
         Flagged, Serial!Flagged, NewRow, Serial!NewRow
<1> QED
  BY <1>1, <1>2, <1>3, PTL DEF TxSpec, ImplementsCatalog, Serial!Spec

\* With one worker, after every statement the committed rows of an existing skill have
\* exactly one latest version, a highest one, and no link dangles: no flush or
\* transaction of a handler leaves the catalog half done.
THEOREM OneWorkerIsSafe ==
  ASSUME NEW CONSTANT p, Worker = {p}
  PROVE  TxSpec => [](OneLatest /\ LinksAlive)
<1>1. TxInit => SerialInv(p)
  <2> SUFFICES ASSUME TxInit PROVE SerialInv(p)
    OBVIOUS
  <2>1. Init /\ w[p] = Idle
    BY DEF TxInit
  <2> QED
    BY <2>1, TxInitial, Initial, IdleIsCurrent DEF SerialInv
<1>2. SerialInv(p) /\ [TxNext]_txvars => SerialInv(p)'
  BY OneWorkerServes
<1>3. SerialInv(p) => OneLatest /\ LinksAlive
  BY DEF SerialInv, IInv
<1> QED
  BY <1>1, <1>2, <1>3, PTL DEF TxSpec

=============================================================================
