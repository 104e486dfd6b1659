------------------------------ MODULE Tokens ------------------------------
(***************************************************************************)
(* Agents, their grants, and the tokens minted for them (registry.py,      *)
(* auth.py, keyring.py, revocation.py, routers/token.py, all under         *)
(* mcp_server).  Grants are in the database; the key ring and the deny     *)
(* list belong to a server process (a replica) and are built when it       *)
(* starts.  A token is a signed record in somebody's hands: no server      *)
(* keeps it, and what it says never changes.                               *)
(*                                                                         *)
(* withdrawn is history: when an agent was last deprived of a name.         *)
(***************************************************************************)
EXTENDS Integers, FiniteSetsExt

CONSTANTS
  Replica, Agent,
  Name,          \* ids of skills and skillsets an agent may be granted
  Jti,           \* token ids, each minted at most once
  Kid,           \* key ids, in the order they are introduced
  Lifetime,      \* expires_in values clients ask for
  MaxLifetime,   \* max_token_lifetime_seconds
  RevocationTTL, \* the 24 hours an entry stays on a deny list
  MaxTime,       \* bound on the clock
  None

ASSUME KidsAreOrdered    == Kid \subseteq Nat /\ Kid # {} /\ \A k \in Kid : 0..k \subseteq Kid
ASSUME TimesAreNatural   == RevocationTTL \in Nat /\ MaxTime \in Nat /\ Lifetime \subseteq Nat
ASSUME LifetimeIsNatural == MaxLifetime \in Nat \ {0}
ASSUME NoneIsNothing     == None \notin Nat

Time == 0..MaxTime
Rings == [keys : SUBSET Kid, active : Kid]
Minted == [sub : Agent, claims : SUBSET Name, kid : Kid, iat : Time, exp : Nat]

VARIABLES
  now,
  conf,        \* MCP_JWT_KEYS and MCP_JWT_ACTIVE_KID as deployed last
  ring,        \* ring[r]: the key ring replica r runs with
  deny,        \* deny[r][j]: when the entry of j on r's deny list ends; None if absent
  grants,      \* grants[a]: the names agent a is granted; None if there is no agent
  withdrawn,   \* withdrawn[a][x]; None if never
  token        \* token[j]: the token with id j; None if not minted

env   == <<conf, ring>>
store == <<grants, withdrawn>>
tvars == <<now, conf, ring, deny, grants, withdrawn, token>>

TokensTypeOK ==
  /\ now \in Time /\ conf \in Rings /\ ring \in [Replica -> Rings]
  /\ deny \in [Replica -> [Jti -> Nat \cup {None}]]
  /\ grants \in [Agent -> (SUBSET Name) \cup {None}]
  /\ withdrawn \in [Agent -> [Name -> Time \cup {None}]]
  /\ token \in [Jti -> Minted \cup {None}]
  /\ \A j \in Jti : token[j] # None => token[j].exp - token[j].iat \in 1..MaxLifetime

NoEntries == [j \in Jti |-> None]

TokensInit ==
  /\ now = 0
  /\ conf = [keys |-> {0}, active |-> 0] /\ ring = [r \in Replica |-> conf]
  /\ deny = [r \in Replica |-> NoEntries]
  /\ grants = [a \in Agent |-> None]
  /\ withdrawn = [a \in Agent |-> [x \in Name |-> None]]
  /\ token = [j \in Jti |-> None]

-----------------------------------------------------------------------------
(* Agents (create_agent, update_agent, delete_agent).                      *)

Granted(a, x) == grants[a] # None /\ x \in grants[a]

SetGrants(a, names) ==
  /\ grants' = [grants EXCEPT ![a] = names]
  /\ withdrawn' = [withdrawn EXCEPT ![a] = [x \in Name |->
       IF Granted(a, x) /\ ~Granted(a, x)' THEN now ELSE withdrawn[a][x]]]
  /\ UNCHANGED <<now, env, deny, token>>

CreateAgent(a, names) == grants[a] = None /\ SetGrants(a, names)
UpdateAgent(a, names) == grants[a] # None /\ SetGrants(a, names)
DeleteAgent(a)        == grants[a] # None /\ SetGrants(a, None)

-----------------------------------------------------------------------------
(* Minting.                                                                *)

\* issue_token's clamp.  One variant has no ceiling, the other no floor.
UnflooredCap(expiresIn) == Min({expiresIn, MaxLifetime})
UnboundedCap(expiresIn) == Max({1, expiresIn})
Capped(expiresIn) == Max({1, Min({expiresIn, MaxLifetime})})

\* create_token: each list may be narrowed to a subset of the agent's own grants.
CreateToken(r, a, j, names, expiresIn) ==
  /\ token[j] = None
  /\ grants[a] # None /\ names \subseteq grants[a]
  /\ token' = [token EXCEPT ![j] =
       [sub |-> a, claims |-> names, kid |-> ring[r].active,
        iat |-> now, exp |-> now + Capped(expiresIn)]]
  /\ UNCHANGED <<now, env, deny, store>>

-----------------------------------------------------------------------------
(* Validation and revocation.                                              *)

\* get_secret finds every key of the ring.  The variant has the active one only.
KnowsActiveKey(r, kid) == kid = ring[r].active
KnowsKey(r, kid) == kid \in ring[r].keys

Live(j) == token[j] # None /\ now <= token[j].exp

\* is_revoked: an entry past its end counts no more.
Revoked(r, j) == deny[r][j] # None /\ now <= deny[r][j]

Accepts(r, j) == Live(j) /\ KnowsKey(r, token[j].kid) /\ ~Revoked(r, j)

\* validate_token drops an entry it finds past its end.
Validate(r, j) ==
  /\ Live(j) /\ KnowsKey(r, token[j].kid)
  /\ deny[r][j] # None /\ now > deny[r][j]
  /\ deny' = [deny EXCEPT ![r][j] = None]
  /\ UNCHANGED <<now, env, store, token>>

\* The variant takes an entry for the rest of the clock unit only.
EntryEndsNow == now
EntryEnds == now + RevocationTTL

\* POST /admin/tokens/revoke reaches one replica.
RevokeToken(r, j) ==
  /\ token[j] # None
  /\ deny' = [deny EXCEPT ![r][j] = EntryEnds]
  /\ UNCHANGED <<now, env, store, token>>

-----------------------------------------------------------------------------
(* Key rotation, as keyring.py tells operators to do it, and deployment:   *)
(* each replica restarts with the configuration deployed last.             *)

Deployed == \A r \in Replica : ring[r] = conf

\* build_keyring refuses an active key that is not in the ring.
Reconfigure(keys, active) ==
  /\ Deployed /\ active \in keys
  /\ conf' = [keys |-> keys, active |-> active]
  /\ UNCHANGED <<now, ring, deny, store, token>>

AddKey(k)    == k = Max(conf.keys) + 1 /\ Reconfigure(conf.keys \cup {k}, conf.active)
FlipActive(k) == k \in conf.keys /\ k > conf.active /\ Reconfigure(conf.keys, k)
RetireKey(k) ==
  /\ k \in conf.keys /\ k < conf.active
  /\ \A j \in Jti : Live(j) => token[j].kid # k
  /\ Reconfigure(conf.keys \ {k}, conf.active)

\* A process starts: get_default_service builds the ring and an empty deny list.
Restart(r) ==
  /\ ring' = [ring EXCEPT ![r] = conf]
  /\ deny' = [deny EXCEPT ![r] = NoEntries]
  /\ UNCHANGED <<now, conf, store, token>>

Tick == now < MaxTime /\ now' = now + 1 /\ UNCHANGED <<env, deny, store, token>>

TokensNext ==
  \/ \E a \in Agent : \/ \E names \in SUBSET Name : CreateAgent(a, names) \/ UpdateAgent(a, names)
                      \/ DeleteAgent(a)
  \/ \E r \in Replica, j \in Jti :
       \/ \E a \in Agent, names \in SUBSET Name, life \in Lifetime :
            CreateToken(r, a, j, names, life)
       \/ Validate(r, j) \/ RevokeToken(r, j)
  \/ \E k \in Kid : AddKey(k) \/ FlipActive(k) \/ RetireKey(k)
  \/ (\E r \in Replica : Restart(r)) \/ Tick

-----------------------------------------------------------------------------
(* Properties.                                                             *)

\* A rotation that follows the workflow is seamless: at every moment every replica
\* knows the key of every token that has not expired.
SeamlessRotation ==
  \A r \in Replica, j \in Jti : Live(j) => KnowsKey(r, token[j].kid)

\* A token that a replica refuses stays refused there, unless the replica restarts
\* and forgets its deny list, or the token lives longer than an entry of that list.
RefusedStaysRefused ==
  [][\A r \in Replica, j \in Jti :
       (token[j] # None /\ ~Accepts(r, j) /\ Accepts(r, j)') =>
         Restart(r) \/ token[j].exp - token[j].iat > RevocationTTL]_tvars
=============================================================================
