------------------------------ MODULE Catalog ------------------------------
(***************************************************************************)
(* The versions of one skill id, the skillsets that list it and its        *)
(* allow-list, one request at a time (mcp_server/catalog.py, shares.py,    *)
(* routers/move_account.py).  Skill ids share nothing but skillsets, which *)
(* treat each id alike, so one id stands for all.  CatalogTx runs the same *)
(* requests concurrently and implements this module with one worker.       *)
(***************************************************************************)
EXTENDS Integers, FiniteSets

CONSTANTS
  Version,     \* semver strings, valid by the request schema
  Rank,        \* their semver order; build metadata makes ties
  Account,     \* existing accounts
  Default,     \* the account named "default"
  Skillset,    \* skillset ids
  Email,       \* normalized allow-list addresses
  None         \* no such row / parameter absent

ASSUME RankIsOrder      == Rank \in [Version -> Nat]
ASSUME DefaultIsAccount == Default \in Account

Visibility == {"public", "account", "private"}

\* What a row of the skills table keeps, as far as the catalog tells rows apart.
Row == [latest : BOOLEAN, home : Account, vis : Visibility]

ASSUME NoneIsNoRow == None \notin Row \cup Account \cup Version

VARIABLES
  skills,      \* skills[v]: the row of version v, None when there is none
  sets,        \* skillsets table
  links,       \* skillsets linked to the skill id (skill_skillsets)
  shares       \* addresses on the skill id's allow-list (skill_shares)

vars == <<skills, sets, links, shares>>

TypeOK ==
  /\ skills \in [Version -> Row \cup {None}]
  /\ sets \subseteq Skillset /\ links \subseteq Skillset
  /\ shares \subseteq Email

Init ==
  /\ skills = [v \in Version |-> None]
  /\ sets = {} /\ links = {} /\ shares = {}

-----------------------------------------------------------------------------
(* Versions and the is_latest flag.                                        *)

Existing(rows) == {v \in Version : rows[v] # None}
Flagged(rows)  == {v \in Existing(rows) : rows[v].latest}

\* max(rows, key=semver) returns the first maximum the query happens to list.  The
\* variant sorts the other way round.
Lowest(vs)  == {v \in vs : \A x \in vs : Rank[v] <= Rank[x]}
Highest(vs) == {v \in vs : \A x \in vs : Rank[x] <= Rank[v]}

\* _refresh_is_latest: only the version chosen carries the flag.
Refreshed(rows, chosen) ==
  [v \in Version |-> IF rows[v] = None THEN None
                     ELSE [rows[v] EXCEPT !.latest = (v = chosen)]]

\* rows after _refresh_is_latest, which does nothing when there is none.
Refresh(rows) ==
  IF Existing(rows) = {} THEN skills' = rows
  ELSE \E chosen \in Highest(Existing(rows)) : skills' = Refreshed(rows, chosen)

\* A new version enters unflagged; _stamp_account falls back to the default
\* account, whichever account the other versions are in.  The variant trusts the
\* request for the account.
UnstampedRow(a, vis) == [latest |-> FALSE, home |-> a, vis |-> vis]

NewRow(a, vis) ==
  [latest |-> FALSE, home |-> IF a = None THEN Default ELSE a, vis |-> vis]

\* POST /skills: 409 on an unknown skillset or an existing version.
CreateSkill(v, a, vis, ss) ==
  /\ ss \subseteq sets /\ skills[v] = None
  /\ Refresh([skills EXCEPT ![v] = NewRow(a, vis)])
  /\ links' = links \cup ss
  /\ UNCHANGED <<sets, shares>>

\* PUT /skills/{id}: the router passes neither account nor owner, so an existing
\* row stays in its account.
UpsertSkill(v, vis) ==
  /\ Refresh([skills EXCEPT ![v] =
       IF skills[v] = None THEN NewRow(None, vis) ELSE [@ EXCEPT !.vis = vis]])
  /\ UNCHANGED <<sets, links, shares>>

\* DELETE /skills/{id}?version=v: the links go with the last version.
DeleteVersion(v) ==
  /\ skills[v] # None
  /\ Refresh([skills EXCEPT ![v] = None])
  /\ links' = IF Existing(skills) = {v} THEN {} ELSE links
  /\ UNCHANGED <<sets, shares>>

\* DELETE /skills/{id}: the allow-list is left behind.
DeleteAll ==
  /\ Existing(skills) # {}
  /\ skills' = [v \in Version |-> None]
  /\ links' = {}
  /\ UNCHANGED <<sets, shares>>

\* POST /admin/skills/{id}/move-account.
MoveSkill(a) ==
  /\ Existing(skills) # {}
  /\ skills' = [v \in Version |->
       IF skills[v] = None THEN None ELSE [skills[v] EXCEPT !.home = a]]
  /\ shares' = {}
  /\ UNCHANGED <<sets, links>>

-----------------------------------------------------------------------------
(* Skillsets and the allow-list.                                           *)

\* POST and PUT /skillsets.
CreateSkillset(s) ==
  /\ s \notin sets
  /\ sets' = sets \cup {s}
  /\ UNCHANGED <<skills, links, shares>>

\* DELETE /skillsets/{id}: its links cascade, which the variant forgets.
DeleteSkillsetOnly(s) ==
  /\ s \in sets
  /\ sets' = sets \ {s}
  /\ UNCHANGED <<skills, links, shares>>

DeleteSkillset(s) ==
  /\ s \in sets
  /\ sets' = sets \ {s} /\ links' = links \ {s}
  /\ UNCHANGED <<skills, shares>>

\* PUT and DELETE /skillsets/{id}/skills/{skill_id}.
Link(s) ==
  /\ s \in sets \ links /\ Existing(skills) # {}
  /\ links' = links \cup {s}
  /\ UNCHANGED <<skills, sets, shares>>

Unlink(s) ==
  /\ s \in links
  /\ links' = links \ {s}
  /\ UNCHANGED <<skills, sets, shares>>

\* POST and DELETE .../shares: visibility is that of the latest version.
Share(e) ==
  /\ e \notin shares
  /\ \E v \in Flagged(skills) : skills[v].vis # "public"
  /\ shares' = shares \cup {e}
  /\ UNCHANGED <<skills, sets, links>>

Unshare(e) ==
  /\ e \in shares
  /\ shares' = shares \ {e}
  /\ UNCHANGED <<skills, sets, links>>

-----------------------------------------------------------------------------
Next ==
  \/ \E v \in Version, a \in Account \cup {None}, vis \in Visibility, ss \in SUBSET Skillset :
       CreateSkill(v, a, vis, ss)
  \/ \E v \in Version, vis \in Visibility : UpsertSkill(v, vis)
  \/ \E v \in Version : DeleteVersion(v)
  \/ DeleteAll
  \/ \E a \in Account : MoveSkill(a)
  \/ \E s \in Skillset : CreateSkillset(s) \/ DeleteSkillset(s) \/ Link(s) \/ Unlink(s)
  \/ \E e \in Email : Share(e) \/ Unshare(e)

Spec == Init /\ [][Next]_vars

-----------------------------------------------------------------------------
(* Properties.                                                             *)

\* Exactly one version of an existing skill is flagged latest, and none is newer
\* (what get_skill_latest and every listing rely on).
OneLatest ==
  Existing(skills) # {} =>
    \E v \in Existing(skills) : /\ Flagged(skills) = {v}
                                /\ \A x \in Existing(skills) : Rank[x] <= Rank[v]

\* A linked skillset exists, and so does the skill it lists: the join table has no
\* foreign key to skills, so the handlers must clean it up.
LinksAlive == links \subseteq sets /\ (links # {} => Existing(skills) # {})
=============================================================================
