---------------------------- MODULE AccessProofs ----------------------------
(***************************************************************************)
(* What Tokens and Access guarantee for any replicas, agents, keys,        *)
(* lifetimes and catalogues: rotation refuses no live token, a refusal     *)
(* lasts, and grants run out.                                              *)
(***************************************************************************)
EXTENDS Access, TLAPS

\* The clamp of issue_token keeps every lifetime between a second and the maximum.
LEMMA CapIsBounded ==
  ASSUME NEW life \in Nat
  PROVE  Capped(life) \in 1..MaxLifetime
<1> DEFINE lower == Min({life, MaxLifetime})
<1>1. lower \in {life, MaxLifetime} /\ lower <= MaxLifetime
  <2>1. \E x \in {life, MaxLifetime} : \A y \in {life, MaxLifetime} : x <= y
    BY LifetimeIsNatural
  <2> QED
    BY <2>1 DEF Min
<1>2. \E x \in {1, lower} : \A y \in {1, lower} : x >= y
  BY <1>1, LifetimeIsNatural
<1>3. Max({1, lower}) \in {1, lower} /\ Max({1, lower}) >= 1
  BY <1>2 DEF Max
<1> QED
  BY <1>1, <1>3, LifetimeIsNatural DEF Capped

-----------------------------------------------------------------------------
\* Clock, keys, deny lists, grants and tokens stay well typed; in particular every
\* token lives between a second and the maximal lifetime, whatever a client asks for.
THEOREM TypeCorrect == Spec => []TokensTypeOK
<1> USE KidsAreOrdered, TimesAreNatural, LifetimeIsNatural, NoneIsNothing DEF Time, Rings
<1>1. Init => TokensTypeOK
  <2>1. 0 \in Kid
    <3>1. PICK k \in Kid : TRUE
      OBVIOUS
    <3>2. k \in Nat /\ 0 \in 0..k
      OBVIOUS
    <3> QED
      BY <3>1, <3>2
  <2>2. [keys |-> {0}, active |-> 0] \in Rings
    BY <2>1
  <2> QED
    BY <2>2 DEF Init, TokensInit, TokensTypeOK, NoEntries
<1>2. TokensTypeOK /\ [Next]_vars => TokensTypeOK'
  <2> SUFFICES ASSUME TokensTypeOK, [Next]_vars PROVE TokensTypeOK'
    OBVIOUS
  <2> USE DEF TokensTypeOK, env, store
  <2>1. ASSUME NEW a \in Agent, NEW names \in (SUBSET Name) \cup {None}, SetGrants(a, names)
        PROVE  TokensTypeOK'
    BY <2>1 DEF SetGrants
  <2>2. ASSUME NEW r \in Replica, NEW a \in Agent, NEW j \in Jti, NEW names \in SUBSET Name,
               NEW life \in Lifetime, CreateToken(r, a, j, names, life)
        PROVE  TokensTypeOK'
    <3>1. Capped(life) \in 1..MaxLifetime
      BY CapIsBounded
    <3> DEFINE t == [sub |-> a, claims |-> names, kid |-> ring[r].active,
                     iat |-> now, exp |-> now + Capped(life)]
    <3>2. t \in Minted /\ t.exp - t.iat \in 1..MaxLifetime
      BY <3>1 DEF Minted
    <3>3. token' = [token EXCEPT ![j] = t]
      BY <2>2 DEF CreateToken
    <3> HIDE DEF t
    <3> QED
      BY <2>2, <3>2, <3>3 DEF CreateToken
  <2>3. ASSUME NEW r \in Replica, NEW j \in Jti, Validate(r, j) PROVE TokensTypeOK'
    BY <2>3 DEF Validate
  <2>4. ASSUME NEW r \in Replica, NEW j \in Jti, RevokeToken(r, j) PROVE TokensTypeOK'
    <3>1. EntryEnds \in Nat
      BY DEF EntryEnds
    <3> QED
      BY <2>4, <3>1 DEF RevokeToken
  <2>5. ASSUME NEW keys \in SUBSET Kid, NEW k \in Kid, Reconfigure(keys, k)
        PROVE  TokensTypeOK'
    BY <2>5 DEF Reconfigure
  <2>6. ASSUME NEW r \in Replica, Restart(r) PROVE TokensTypeOK'
    BY <2>6 DEF Restart, NoEntries
  <2>7. CASE Tick
    <3>1. now' \in Time
      BY <2>7 DEF Tick
    <3> QED
      BY <2>7, <3>1 DEF Tick
  <2>8. CASE UNCHANGED vars
    BY <2>8 DEF vars, tvars
  <2> QED
    BY <2>1, <2>2, <2>3, <2>4, <2>5, <2>6, <2>7, <2>8
    DEF Next, TokensNext, CreateAgent, UpdateAgent, DeleteAgent, AddKey, FlipActive, RetireKey
<1> QED
  BY <1>1, <1>2, PTL DEF Spec

-----------------------------------------------------------------------------
(* Key rotation.                                                           *)

\* What the workflow keeps true between two deployments: whatever a replica signs
\* with, every replica and the configuration deployed next can verify.
SharedKeys ==
  /\ conf.active \in conf.keys
  /\ \A r \in Replica : conf.active \in ring[r].keys /\ ring[r].active \in conf.keys
  /\ \A r, q \in Replica : ring[r].active \in ring[q].keys
  /\ \A j \in Jti : Live(j) =>
       token[j].kid \in conf.keys /\ \A r \in Replica : token[j].kid \in ring[r].keys

\* A rolling rotation by the workflow of keyring.py refuses no live token, at any
\* replica and at any time, although replicas switch one by one.
THEOREM RotationIsSeamless == Spec => []SeamlessRotation
<1>1. Init => SharedKeys
  BY DEF Init, TokensInit, SharedKeys, Live
<1>2. TokensTypeOK /\ SharedKeys /\ [Next]_vars => SharedKeys'
  <2> SUFFICES ASSUME TokensTypeOK, SharedKeys, [Next]_vars PROVE SharedKeys'
    OBVIOUS
  <2> USE TimesAreNatural DEF TokensTypeOK, SharedKeys, Live, env, store
  <2>1. ASSUME NEW a \in Agent, NEW names, SetGrants(a, names) PROVE SharedKeys'
    BY <2>1 DEF SetGrants
  <2>2. ASSUME NEW r \in Replica, NEW a \in Agent, NEW j \in Jti, NEW names \in SUBSET Name,
               NEW life \in Lifetime, CreateToken(r, a, j, names, life)
        PROVE  SharedKeys'
    BY <2>2 DEF CreateToken
  <2>3. ASSUME NEW r \in Replica, NEW j \in Jti, Validate(r, j) \/ RevokeToken(r, j)
        PROVE  SharedKeys'
    BY <2>3 DEF Validate, RevokeToken
  <2>4. ASSUME NEW k \in Kid, AddKey(k) PROVE SharedKeys'
    BY <2>4 DEF AddKey, Reconfigure, Deployed
  <2>5. ASSUME NEW k \in Kid, FlipActive(k) PROVE SharedKeys'
    BY <2>5 DEF FlipActive, Reconfigure, Deployed
  <2>6. ASSUME NEW k \in Kid, RetireKey(k) PROVE SharedKeys'
    BY <2>6, KidsAreOrdered DEF RetireKey, Reconfigure, Deployed, Rings
  <2>7. ASSUME NEW r \in Replica, Restart(r) PROVE SharedKeys'
    BY <2>7 DEF Restart
  <2>8. CASE Tick
    <3>1. \A j \in Jti : Live(j)' => Live(j)
      BY <2>8, LifetimeIsNatural DEF Tick, Time, Minted
    <3> QED
      BY <2>8, <3>1 DEF Tick
  <2>9. CASE UNCHANGED vars
    BY <2>9 DEF vars, tvars
  <2> QED
    BY <2>1, <2>2, <2>3, <2>4, <2>5, <2>6, <2>7, <2>8, <2>9
    DEF Next, TokensNext, CreateAgent, UpdateAgent, DeleteAgent
<1>3. SharedKeys => SeamlessRotation
  BY DEF SharedKeys, SeamlessRotation, KnowsKey
<1> QED
  BY <1>1, <1>2, <1>3, TypeCorrect, PTL DEF Spec

-----------------------------------------------------------------------------
(* Refusals.                                                               *)

MintedInThePast == \A j \in Jti : token[j] # None => token[j].iat <= now

\* An entry of a deny list was made after the mint of its token.
EntriesFollowMint ==
  \A r \in Replica, j \in Jti :
    deny[r][j] # None => token[j] # None /\ deny[r][j] >= token[j].iat + RevocationTTL

\* No token is from the future, and its entries on deny lists last.
LEMMA EntriesLast == Spec => [](MintedInThePast /\ EntriesFollowMint)
<1> USE TimesAreNatural, NoneIsNothing DEF MintedInThePast, EntriesFollowMint
<1>1. Init => MintedInThePast /\ EntriesFollowMint
  BY DEF Init, TokensInit, NoEntries
<1>2. TokensTypeOK /\ MintedInThePast /\ EntriesFollowMint /\ [Next]_vars =>
        MintedInThePast' /\ EntriesFollowMint'
  <2> SUFFICES ASSUME TokensTypeOK, MintedInThePast, EntriesFollowMint, [Next]_vars
               PROVE  MintedInThePast' /\ EntriesFollowMint'
    OBVIOUS
  <2> USE DEF TokensTypeOK, env, store
  <2>1. ASSUME NEW a \in Agent, NEW names, SetGrants(a, names)
        PROVE  MintedInThePast' /\ EntriesFollowMint'
    BY <2>1 DEF SetGrants
  <2>2. ASSUME NEW r \in Replica, NEW a \in Agent, NEW j \in Jti, NEW names \in SUBSET Name,
               NEW life \in Lifetime, CreateToken(r, a, j, names, life)
        PROVE  MintedInThePast' /\ EntriesFollowMint'
    BY <2>2 DEF CreateToken, Time
  <2>3. ASSUME NEW r \in Replica, NEW j \in Jti, Validate(r, j)
        PROVE  MintedInThePast' /\ EntriesFollowMint'
    BY <2>3 DEF Validate
  <2>4. ASSUME NEW r \in Replica, NEW j \in Jti, RevokeToken(r, j)
        PROVE  MintedInThePast' /\ EntriesFollowMint'
    <3>1. EntryEnds >= token[j].iat + RevocationTTL
      BY <2>4 DEF RevokeToken, EntryEnds, Time, Minted
    <3> QED
      BY <2>4, <3>1 DEF RevokeToken
  <2>5. ASSUME NEW keys, NEW k, Reconfigure(keys, k)
        PROVE  MintedInThePast' /\ EntriesFollowMint'
    BY <2>5 DEF Reconfigure
  <2>6. ASSUME NEW r \in Replica, Restart(r) PROVE MintedInThePast' /\ EntriesFollowMint'
    BY <2>6 DEF Restart, NoEntries
  <2>7. CASE Tick
    BY <2>7 DEF Tick, Time, Minted
  <2>8. CASE UNCHANGED vars
    BY <2>8 DEF vars, tvars
  <2> QED
    BY <2>1, <2>2, <2>3, <2>4, <2>5, <2>6, <2>7, <2>8
    DEF Next, TokensNext, CreateAgent, UpdateAgent, DeleteAgent, AddKey, FlipActive, RetireKey
<1> QED
  BY <1>1, <1>2, TypeCorrect, PTL DEF Spec

\* Once a replica refuses a token, only its own restart lets it accept the token again,
\* or a lifetime longer than an entry of the deny list lasts.
THEOREM RefusalsLast == Spec => RefusedStaysRefused
<1> DEFINE Stays(r, j) ==
      (token[j] # None /\ ~Accepts(r, j) /\ Accepts(r, j)') =>
        Restart(r) \/ token[j].exp - token[j].iat > RevocationTTL
<1>1. /\ TokensTypeOK /\ SeamlessRotation /\ EntriesFollowMint
      /\ TokensTypeOK' /\ Next
      => \A r \in Replica, j \in Jti : Stays(r, j)
  <2> SUFFICES ASSUME TokensTypeOK, SeamlessRotation, EntriesFollowMint, TokensTypeOK', Next,
                      NEW r \in Replica, NEW j \in Jti,
                      token[j] # None, ~Accepts(r, j), Accepts(r, j)', ~Restart(r)
               PROVE  token[j].exp - token[j].iat > RevocationTTL
    OBVIOUS
  <2> USE TimesAreNatural, NoneIsNothing DEF TokensTypeOK, env, store
  <2>1. token'[j] = token[j] /\ now <= now' /\ now \in Nat /\ now' \in Nat
    BY DEF Next, TokensNext, CreateAgent, UpdateAgent, DeleteAgent, SetGrants, CreateToken,
           Validate, RevokeToken, AddKey, FlipActive, RetireKey, Reconfigure, Restart, Tick, Time
  <2>2. token[j].exp \in Int /\ token[j].iat \in Int /\ now' <= token[j].exp
    BY <2>1 DEF Accepts, Live, Minted, Time
  <2>3. Live(j) /\ KnowsKey(r, token[j].kid)
    BY <2>1, <2>2 DEF Live, SeamlessRotation
  <2>4. deny[r][j] # None /\ now <= deny[r][j]
    BY <2>3 DEF Accepts, Revoked
  <2>5. deny'[r][j] = None \/ now' > deny'[r][j]
    <3>1. deny'[r][j] \in Nat \cup {None}
      OBVIOUS
    <3> QED
      BY <2>1, <3>1 DEF Accepts, Revoked
  <2>6. deny'[r][j] = deny[r][j] \/ (deny'[r][j] = now + RevocationTTL /\ now' = now)
    <3>1. ASSUME NEW q \in Replica, NEW i \in Jti, Validate(q, i)
          PROVE  deny'[r][j] = deny[r][j]
      BY <2>1, <2>4, <3>1 DEF Validate
    <3>2. ASSUME NEW q \in Replica, NEW i \in Jti, RevokeToken(q, i)
          PROVE  deny'[r][j] = deny[r][j] \/ (deny'[r][j] = now + RevocationTTL /\ now' = now)
      BY <3>2 DEF RevokeToken, EntryEnds
    <3>3. ASSUME NEW q \in Replica, Restart(q) PROVE deny'[r][j] = deny[r][j]
      <4>1. q # r
        BY <3>3
      <4> QED
        BY <3>3, <4>1 DEF Restart
    <3>4. CASE UNCHANGED deny
      BY <3>4
    <3> QED
      BY <3>1, <3>2, <3>3, <3>4
      DEF Next, TokensNext, CreateAgent, UpdateAgent, DeleteAgent, SetGrants, CreateToken,
          AddKey, FlipActive, RetireKey, Reconfigure, Tick
  <2>7. deny'[r][j] = deny[r][j] /\ now' > deny[r][j]
    <3>1. deny[r][j] \in Nat
      BY <2>4
    <3>2. CASE deny'[r][j] = now + RevocationTTL /\ now' = now
      BY <2>1, <2>5, <3>2
    <3> QED
      BY <2>4, <2>5, <2>6, <3>1, <3>2
  <2> QED
    BY <2>1, <2>2, <2>4, <2>7 DEF EntriesFollowMint
<1>2. /\ TokensTypeOK /\ SeamlessRotation /\ EntriesFollowMint
      /\ TokensTypeOK' /\ [Next]_vars
      => [\A r \in Replica, j \in Jti : Stays(r, j)]_vars
  BY <1>1
<1> QED
  BY <1>2, TypeCorrect, RotationIsSeamless, EntriesLast, PTL
  DEF Spec, RefusedStaysRefused, vars

-----------------------------------------------------------------------------
(* Grants.                                                                 *)

\* A name in a token's claims is still granted to its agent, or was withdrawn after
\* the mint.
ClaimsWereGranted ==
  \A j \in Jti : token[j] # None => \A x \in token[j].claims :
    LET a == token[j].sub
    IN Granted(a, x) \/ (withdrawn[a][x] # None /\ withdrawn[a][x] >= token[j].iat)

LEMMA ClaimsComeFromGrants == Spec => []ClaimsWereGranted
<1> USE NoneIsNothing DEF ClaimsWereGranted, Granted
<1>1. Init => ClaimsWereGranted
  BY DEF Init, TokensInit
<1>2. TokensTypeOK /\ MintedInThePast /\ ClaimsWereGranted /\ [Next]_vars => ClaimsWereGranted'
  <2> SUFFICES ASSUME TokensTypeOK, MintedInThePast, ClaimsWereGranted, [Next]_vars
               PROVE  ClaimsWereGranted'
    OBVIOUS
  <2> USE DEF TokensTypeOK, env, store
  <2>1. ASSUME NEW a \in Agent, NEW names, SetGrants(a, names) PROVE ClaimsWereGranted'
    <3>1. token' = token
      BY <2>1 DEF SetGrants
    <3> SUFFICES ASSUME NEW j \in Jti, token[j] # None, NEW x \in token[j].claims
                 PROVE  \/ Granted(token[j].sub, x)'
                        \/ /\ withdrawn'[token[j].sub][x] # None
                           /\ withdrawn'[token[j].sub][x] >= token[j].iat
      BY <3>1
    <3>a. token[j].sub \in Agent /\ x \in Name /\ token[j].iat <= now
      BY DEF Minted, MintedInThePast
    <3>2. withdrawn' = [withdrawn EXCEPT ![a] = [y \in Name |->
            IF Granted(a, y) /\ ~Granted(a, y)' THEN now ELSE withdrawn[a][y]]]
      BY <2>1 DEF SetGrants
    <3>3. CASE token[j].sub = a
      <4>1. withdrawn'[a][x] = IF Granted(a, x) /\ ~Granted(a, x)' THEN now ELSE withdrawn[a][x]
        BY <3>a, <3>2, <3>3
      <4>2. now \in Nat
        BY TimesAreNatural DEF Time
      <4>3. Granted(a, x) \/ (withdrawn[a][x] # None /\ withdrawn[a][x] >= token[j].iat)
        BY <3>3
      <4>4. CASE Granted(a, x)'
        BY <3>1, <3>3, <4>4
      <4>5. CASE Granted(a, x) /\ ~Granted(a, x)'
        <5>1. withdrawn'[a][x] = now
          BY <4>1, <4>5
        <5> QED
          BY <3>a, <3>3, <4>2, <5>1
      <4>6. CASE ~Granted(a, x)
        <5>1. withdrawn'[a][x] = withdrawn[a][x]
          BY <4>1, <4>6
        <5> QED
          BY <3>3, <4>3, <4>6, <5>1
      <4> QED
        BY <4>4, <4>5, <4>6
    <3>4. CASE token[j].sub # a
      BY <2>1, <3>a, <3>2, <3>4 DEF SetGrants
    <3> QED
      BY <3>3, <3>4
  <2>2. ASSUME NEW r \in Replica, NEW a \in Agent, NEW j \in Jti, NEW names \in SUBSET Name,
               NEW life \in Lifetime, CreateToken(r, a, j, names, life)
        PROVE  ClaimsWereGranted'
    BY <2>2 DEF CreateToken
  <2>3. ASSUME UNCHANGED <<grants, withdrawn, token>> PROVE ClaimsWereGranted'
    BY <2>3
  <2> QED
    BY <2>1, <2>2, <2>3
    DEF Next, TokensNext, CreateAgent, UpdateAgent, DeleteAgent, Validate, RevokeToken,
        AddKey, FlipActive, RetireKey, Reconfigure, Restart, Tick, vars, tvars
<1> QED
  BY <1>1, <1>2, TypeCorrect, EntriesLast, PTL DEF Spec

\* Whatever the catalogue, a read by a token outlives the grant it rests on by the
\* maximal lifetime of a token at most: what was granted at the mint and not withdrawn
\* before bounds everything a token opens beyond the public skills.
THEOREM GrantsAlwaysRunOut == Spec => []GrantsRunOut
<1>1. TokensTypeOK /\ ClaimsWereGranted => GrantsRunOut
  <2> SUFFICES ASSUME TokensTypeOK, ClaimsWereGranted,
                      NEW cat \in Catalogues, NEW r \in Replica, NEW j \in Jti, NEW s \in Skill,
                      Reads(cat, r, j, s), s \notin OpenToAll(cat)
               PROVE  \E x \in {s} \cup {g \in Skillset : s \in cat.links[g]} :
                        Lingers(token[j].sub, x)
    BY DEF GrantsRunOut
  <2>1. token[j] # None /\ token[j] \in Minted /\ now <= token[j].exp
    BY DEF Reads, Accepts, Live, TokensTypeOK
  <2>2. PICK x \in {s} \cup {g \in Skillset : s \in cat.links[g]} : x \in token[j].claims
    BY DEF Reads, Allowed, Members
  <2>3. token[j].sub \in Agent /\ x \in Name
    BY <2>1, <2>2 DEF Minted
  <2>4. token[j].exp <= token[j].iat + MaxLifetime /\ token[j].iat \in Int /\ now \in Int
    BY <2>1, TimesAreNatural, LifetimeIsNatural DEF TokensTypeOK, Minted, Time
  <2>5. CASE Granted(token[j].sub, x)
    BY <2>2, <2>5 DEF Lingers
  <2>6. CASE ~Granted(token[j].sub, x)
    <3> DEFINE gone == withdrawn[token[j].sub][x]
    <3>1. gone # None /\ gone >= token[j].iat /\ gone \in Int
      BY <2>1, <2>2, <2>3, <2>6, TimesAreNatural DEF ClaimsWereGranted, TokensTypeOK, Time
    <3>2. now <= gone + MaxLifetime
      BY <2>1, <2>4, <3>1, LifetimeIsNatural DEF Minted
    <3> QED
      BY <2>2, <3>1, <3>2 DEF Lingers
  <2> QED
    BY <2>5, <2>6
<1> QED
  BY <1>1, TypeCorrect, ClaimsComeFromGrants, PTL
=============================================================================
