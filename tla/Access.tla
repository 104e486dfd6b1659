------------------------------ MODULE Access ------------------------------
(***************************************************************************)
(* What a token gives its holder to read: the catalogue's public flags and *)
(* skillset links meet the claims of the token at every read               *)
(* (mcp_server/authorization.py, and the reading endpoints of              *)
(* routers/skills.py and routers/bundles.py).  The catalogue changes       *)
(* independently of tokens and grants (see Catalog), so it is no variable  *)
(* here: what is said of reads holds for every catalogue cat, where        *)
(* cat.public are the skills and skillsets with visibility 'public' and    *)
(* cat.links[g] the skills in skillset g.                                  *)
(***************************************************************************)
EXTENDS Tokens

CONSTANTS Skill, Skillset

ASSUME NamesAreIds == Name = Skill \cup Skillset /\ Skill \cap Skillset = {}

Catalogues == [public : SUBSET Name, links : [Skillset -> SUBSET Skill]]

Init == TokensInit
Next == TokensNext
vars == tvars
Spec == Init /\ [][Next]_vars

-----------------------------------------------------------------------------
Members(cat, names) == UNION {cat.links[g] : g \in names \cap Skillset}

OpenToAll(cat) == (cat.public \cap Skill) \cup Members(cat, cat.public)

\* resolve_allowed_skill_ids.
Allowed(cat, claims) == (claims \cap Skill) \cup Members(cat, claims) \cup OpenToAll(cat)

\* The endpoints validate the token and refuse a skill that is not allowed.  The
\* variant does not validate the token.
ReadsByScopeOnly(cat, r, j, s) == token[j] # None /\ s \in Allowed(cat, token[j].claims)
Reads(cat, r, j, s) == Accepts(r, j) /\ s \in Allowed(cat, token[j].claims)

-----------------------------------------------------------------------------
\* Agent a has name x, or lost it no longer ago than a token may live.
Lingers(a, x) ==
  Granted(a, x) \/ (withdrawn[a][x] # None /\ now <= withdrawn[a][x] + MaxLifetime)

\* A read outlives the grant behind it by the longest lifetime of a token at most:
\* withdrawing a grant, or deleting the agent, needs no revocation to take effect.
GrantsRunOut ==
  \A cat \in Catalogues, r \in Replica, j \in Jti, s \in Skill :
    Reads(cat, r, j, s) =>
      \/ s \in OpenToAll(cat)
      \/ \E x \in {s} \cup {g \in Skillset : s \in cat.links[g]} : Lingers(token[j].sub, x)
=============================================================================
