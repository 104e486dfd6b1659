--------------------------- MODULE AccountsProofs ---------------------------
(***************************************************************************)
(* What Accounts guarantees for every set of users, accounts and rows: its *)
(* type invariant, referential integrity, and the action properties of the *)
(* member-removal path.                                                    *)
(***************************************************************************)
EXTENDS Accounts, TLAPS

LEMMA NextKeepsTypes == TypeOK /\ [Next]_vars => TypeOK'
<1> USE OperatorsAreUsers, DefaultIsAccount, NoneIsFresh
<1> SUFFICES ASSUME TypeOK, [Next]_vars PROVE TypeOK'
  OBVIOUS
<1> USE DEF TypeOK, catalog, membership, identity
<1>1. CASE Startup
  BY <1>1 DEF Startup, Seeded, FirstAdminRole, Role
<1>2. ASSUME NEW u \in User, CreateUser(u) PROVE TypeOK'
  BY <1>2 DEF CreateUser
<1>3. ASSUME NEW u \in User, Signup(u) PROVE TypeOK'
  BY <1>3 DEF Signup
<1>4. ASSUME NEW u \in User, DeleteUser(u) PROVE TypeOK'
  BY <1>4 DEF DeleteUser
<1>5. ASSUME NEW u \in User, NEW flag \in BOOLEAN, SetDisabled(u, flag) PROVE TypeOK'
  BY <1>5 DEF SetDisabled
<1>6. ASSUME NEW a \in Account, NEW u \in User, CreateAccount(a, u) PROVE TypeOK'
  BY <1>6 DEF CreateAccount, Nobody, FirstAdminRole, Role
<1>7. ASSUME NEW a \in Account, NEW u \in User, RevokeInvite(a, u) PROVE TypeOK'
  BY <1>7 DEF RevokeInvite
<1>8. ASSUME NEW a \in Account, NEW n \in 0 .. Cardinality(User), DeleteAccount(a, n)
      PROVE TypeOK'
  BY <1>8 DEF DeleteAccount, Nobody
<1>9. ASSUME NEW a \in Account, NEW u \in User, NEW r \in Role, Invite(a, u, r)
      PROVE TypeOK'
  <2>1. CASE role' = [role EXCEPT ![a][u] = r] /\ UNCHANGED pending
    BY <1>9, <2>1 DEF Invite
  <2>2. CASE pending' = [pending EXCEPT ![a][u] = r] /\ UNCHANGED role
    BY <1>9, <2>2 DEF Invite
  <2> QED
    BY <1>9, <2>1, <2>2 DEF Invite
<1>10. ASSUME NEW a \in Account, NEW u \in User, NEW r \in Role, UpdateRole(a, u, r)
       PROVE TypeOK'
  BY <1>10 DEF UpdateRole
<1>11. ASSUME NEW a \in Account, NEW u \in User, NEW t \in User \cup {None},
              RemoveMember(a, u, t)
       PROVE TypeOK'
  BY <1>11 DEF RemoveMember, RolesAfterRemoval, OwnedIn, Role
<1>12. ASSUME NEW r \in Row, NEW a \in Account, NEW u \in User \cup {None},
              CreateRow(r, a, u)
       PROVE TypeOK'
  BY <1>12 DEF CreateRow
<1>13. ASSUME NEW r \in Row, NEW a \in Account, MoveRow(r, a) PROVE TypeOK'
  BY <1>13 DEF MoveRow
<1>14. ASSUME NEW r \in Row, DeleteRow(r) PROVE TypeOK'
  BY <1>14 DEF DeleteRow
<1>15. ASSUME NEW r \in Row, NEW a \in Account \cup {None}, NEW u \in User \cup {None},
              ReplaceRow(r, a, u)
       PROVE TypeOK'
  BY <1>15 DEF ReplaceRow
<1>16. CASE UNCHANGED vars
  BY <1>16 DEF vars
<1> QED
  BY <1>1, <1>2, <1>3, <1>4, <1>5, <1>6, <1>7, <1>8, <1>9, <1>10, <1>11, <1>12,
     <1>13, <1>14, <1>15, <1>16 DEF Next

\* The fields of the state are well typed after any request: in particular no
\* handler writes a role outside account-admin, contributor and viewer.
THEOREM TypeCorrect == Spec => []TypeOK
<1>1. Init => TypeOK
  BY NoneIsFresh DEF Init, TypeOK, Nobody
<1> QED
  BY <1>1, NextKeepsTypes, PTL DEF Spec

LEMMA NextKeepsReferences == TypeOK /\ RefIntegrity /\ [Next]_vars => RefIntegrity'
<1> USE OperatorsAreUsers, DefaultIsAccount, NoneIsFresh
<1> SUFFICES ASSUME TypeOK, RefIntegrity, [Next]_vars PROVE RefIntegrity'
  OBVIOUS
<1> USE DEF TypeOK, RefIntegrity, catalog, membership, identity
<1>1. CASE Startup
  BY <1>1 DEF Startup, Seeded, FirstAdminRole, Role
<1>2. ASSUME NEW u \in User, CreateUser(u) PROVE RefIntegrity'
  BY <1>2 DEF CreateUser
<1>3. ASSUME NEW u \in User, Signup(u) PROVE RefIntegrity'
  BY <1>3 DEF Signup
<1>4. ASSUME NEW u \in User, DeleteUser(u) PROVE RefIntegrity'
  BY <1>4 DEF DeleteUser
<1>5. ASSUME NEW u \in User, NEW flag \in BOOLEAN, SetDisabled(u, flag) PROVE RefIntegrity'
  BY <1>5 DEF SetDisabled
<1>6. ASSUME NEW a \in Account, NEW u \in User, CreateAccount(a, u) PROVE RefIntegrity'
  BY <1>6 DEF CreateAccount, Nobody, FirstAdminRole, Role
<1>7. ASSUME NEW a \in Account, NEW u \in User, RevokeInvite(a, u) PROVE RefIntegrity'
  BY <1>7 DEF RevokeInvite
<1>8. ASSUME NEW a \in Account, NEW n \in 0 .. Cardinality(User), DeleteAccount(a, n)
      PROVE RefIntegrity'
  BY <1>8 DEF DeleteAccount, Nobody
<1>9. ASSUME NEW a \in Account, NEW u \in User, NEW r \in Role, Invite(a, u, r)
      PROVE RefIntegrity'
  <2>1. CASE role' = [role EXCEPT ![a][u] = r] /\ UNCHANGED pending
    BY <1>9, <2>1 DEF Invite
  <2>2. CASE pending' = [pending EXCEPT ![a][u] = r] /\ UNCHANGED role
    BY <1>9, <2>2 DEF Invite
  <2> QED
    BY <1>9, <2>1, <2>2 DEF Invite
<1>10. ASSUME NEW a \in Account, NEW u \in User, NEW r \in Role, UpdateRole(a, u, r)
       PROVE RefIntegrity'
  BY <1>10 DEF UpdateRole
<1>11. ASSUME NEW a \in Account, NEW u \in User, NEW t \in User \cup {None},
              RemoveMember(a, u, t)
       PROVE RefIntegrity'
  BY <1>11 DEF RemoveMember, RolesAfterRemoval, OwnedIn, Role
<1>12. ASSUME NEW r \in Row, NEW a \in Account, NEW u \in User \cup {None},
              CreateRow(r, a, u)
       PROVE RefIntegrity'
  BY <1>12 DEF CreateRow
<1>13. ASSUME NEW r \in Row, NEW a \in Account, MoveRow(r, a) PROVE RefIntegrity'
  BY <1>13 DEF MoveRow
<1>14. ASSUME NEW r \in Row, DeleteRow(r) PROVE RefIntegrity'
  BY <1>14 DEF DeleteRow
<1>15. ASSUME NEW r \in Row, NEW a \in Account \cup {None}, NEW u \in User \cup {None},
              ReplaceRow(r, a, u)
       PROVE RefIntegrity'
  BY <1>15 DEF ReplaceRow
<1>16. CASE UNCHANGED vars
  BY <1>16 DEF vars
<1> QED
  BY <1>1, <1>2, <1>3, <1>4, <1>5, <1>6, <1>7, <1>8, <1>9, <1>10, <1>11, <1>12,
     <1>13, <1>14, <1>15, <1>16 DEF Next

\* No table refers to a row that another handler has deleted.  TypeOK is what
\* makes it inductive: a function update means nothing outside its domain.
THEOREM NoDanglingReference == Spec => []RefIntegrity
<1>1. Init => RefIntegrity
  BY NoneIsFresh DEF Init, RefIntegrity, Nobody
<1> QED
  BY <1>1, NextKeepsReferences, TypeCorrect, PTL DEF Spec

Guarded ==
  \A a \in Account :
    Stranded(a) => ActiveAdmins(a) \cap (disabled' \cup (User \ users')) # {}

LEMMA NextIsGuarded == TypeOK /\ RefIntegrity /\ Next => Guarded
<1> SUFFICES ASSUME TypeOK, RefIntegrity, Next,
                    NEW b \in Account, NEW v \in ActiveAdmins(b),
                    v \in users' \ disabled', ActiveAdmins(b)' = {}, b \in accounts'
             PROVE FALSE
  BY DEF Guarded, Stranded, ActiveAdmins, TypeOK
<1>a. /\ v \in User /\ v \in users /\ b \in accounts
      /\ role[b][v] = "account-admin" /\ role'[b][v] # "account-admin"
  BY NoneIsFresh DEF ActiveAdmins, TypeOK, RefIntegrity, Role
<1> USE <1>a, NoneIsFresh DEF TypeOK, Role, membership
<1>1. ASSUME Startup PROVE FALSE
  BY <1>1 DEF Startup
<1>2. ASSUME NEW u \in User, CreateUser(u) PROVE FALSE
  BY <1>2 DEF CreateUser
<1>3. ASSUME NEW u \in User, Signup(u) PROVE FALSE
  BY <1>3 DEF Signup
<1>4. ASSUME NEW u \in User, DeleteUser(u) PROVE FALSE
  BY <1>4 DEF DeleteUser
<1>5. ASSUME NEW u \in User, NEW flag \in BOOLEAN, SetDisabled(u, flag) PROVE FALSE
  BY <1>5 DEF SetDisabled
<1>6. ASSUME NEW a \in Account, NEW u \in User, CreateAccount(a, u) PROVE FALSE
  BY <1>6 DEF CreateAccount
<1>7. ASSUME NEW a \in Account, NEW u \in User, RevokeInvite(a, u) PROVE FALSE
  BY <1>7 DEF RevokeInvite
<1>8. ASSUME NEW a \in Account, NEW n \in 0 .. Cardinality(User), DeleteAccount(a, n)
      PROVE FALSE
  BY <1>8 DEF DeleteAccount
<1>9. ASSUME NEW a \in Account, NEW u \in User, NEW r \in Role, Invite(a, u, r)
      PROVE FALSE
  BY <1>9 DEF Invite
<1>10. ASSUME NEW a \in Account, NEW u \in User, NEW r \in Role, UpdateRole(a, u, r)
       PROVE FALSE
  <2>1. a = b /\ u = v
    BY <1>10 DEF UpdateRole
  <2>2. PICK x \in OtherAdmins(b, v) : TRUE
    BY <1>10, <2>1 DEF UpdateRole
  <2>3. x \in ActiveAdmins(b)'
    BY <1>10, <2>1, <2>2 DEF UpdateRole, OtherAdmins, ActiveAdmins, identity
  <2> QED
    BY <2>3
<1>11. ASSUME NEW a \in Account, NEW u \in User, NEW t \in User \cup {None},
              RemoveMember(a, u, t)
       PROVE FALSE
  <2>1. a = b /\ u = v
    BY <1>11 DEF RemoveMember, RolesAfterRemoval
  <2>2. PICK x \in OtherAdmins(b, v) : TRUE
    BY <1>11, <2>1 DEF RemoveMember
  <2>3. x \in ActiveAdmins(b)'
    BY <1>11, <2>1, <2>2
    DEF RemoveMember, RolesAfterRemoval, OtherAdmins, ActiveAdmins, identity
  <2> QED
    BY <2>3
<1>12. ASSUME NEW r \in Row, NEW a \in Account, NEW u \in User \cup {None},
              CreateRow(r, a, u)
       PROVE FALSE
  BY <1>12 DEF CreateRow
<1>13. ASSUME NEW r \in Row, NEW a \in Account, MoveRow(r, a) PROVE FALSE
  BY <1>13 DEF MoveRow
<1>14. ASSUME NEW r \in Row, DeleteRow(r) PROVE FALSE
  BY <1>14 DEF DeleteRow
<1>15. ASSUME NEW r \in Row, NEW a \in Account \cup {None}, NEW u \in User \cup {None},
              ReplaceRow(r, a, u)
       PROVE FALSE
  BY <1>15 DEF ReplaceRow
<1> QED
  BY <1>1, <1>2, <1>3, <1>4, <1>5, <1>6, <1>7, <1>8, <1>9, <1>10, <1>11, <1>12,
     <1>13, <1>14, <1>15 DEF Next

\* The last-admin guard: no role change, removal, inheritance or invitation takes
\* an account's last active admin away; only disabling or deleting users does.
THEOREM LastAdminGuard == Spec => GuardHolds
<1>1. TypeOK /\ RefIntegrity /\ [Next]_vars => [Guarded]_vars
  BY NextIsGuarded
<1> QED
  BY <1>1, TypeCorrect, NoDanglingReference, PTL DEF Spec, GuardHolds, Guarded

\* Of the requests that take a membership away, only the removal of a member gives
\* its rows to somebody.
CanOwn(r) ==
  LET a == home[r]  u == owner[r]  t == owner'[r]
  IN (/\ a # None /\ home'[r] = a
      /\ u # None /\ t \notin {None, u}
      /\ role[a][u] # None /\ role'[a][u] = None) =>
       /\ role'[a][t] \in {"contributor", "account-admin"}
       /\ role'[a][t] = "account-admin" => role[a][t] = "account-admin"

LEMMA InheritorsCanOwn == TypeOK /\ Next => \A r \in Row : CanOwn(r)
<1> SUFFICES ASSUME TypeOK, Next, NEW s \in Row,
                    home[s] # None, home'[s] = home[s],
                    owner[s] # None, owner'[s] # None, owner'[s] # owner[s],
                    role[home[s]][owner[s]] # None, role'[home[s]][owner[s]] = None
             PROVE /\ role'[home[s]][owner'[s]] \in {"contributor", "account-admin"}
                   /\ role'[home[s]][owner'[s]] = "account-admin" =>
                        role[home[s]][owner'[s]] = "account-admin"
  BY DEF CanOwn
<1> USE NoneIsFresh DEF TypeOK, catalog, membership
<1>1. PICK a \in Account, u \in User, t \in User \cup {None} : RemoveMember(a, u, t)
  BY DEF Next, Startup, CreateUser, Signup, DeleteUser, SetDisabled, CreateAccount,
         RevokeInvite, DeleteAccount, Invite, UpdateRole, CreateRow, MoveRow,
         ReplaceRow, DeleteRow
<1>2. /\ t # None /\ owner'[s] = t /\ s \in OwnedIn(a, u)
      /\ home[s] = a /\ owner[s] = u /\ t # u /\ t \in User
  BY <1>1 DEF RemoveMember, OwnedIn
<1>3. role[a][t] \in Role
  BY <1>1, <1>2 DEF RemoveMember
<1>4. role'[a][t] = IF role[a][t] = "viewer" THEN "contributor" ELSE role[a][t]
  BY <1>1, <1>2 DEF RemoveMember, RolesAfterRemoval
<1> QED
  BY <1>2, <1>3, <1>4 DEF Role

\* Inheriting a departed member's rows: the inheritor ends up a contributor or an
\* admin, and an admin only if it was one.
THEOREM InheritanceIsSound == Spec => InheritorCanOwn
<1>1. TypeOK /\ [Next]_vars => [\A r \in Row : CanOwn(r)]_vars
  BY InheritorsCanOwn
<1> QED
  BY <1>1, TypeCorrect, PTL DEF Spec, InheritorCanOwn, CanOwn

\* Every row a removed member owned has changed hands by the time its membership is
\* gone, so neither of can_read's answers is left to it.
EndsAccess(a, u) ==
  HandsOver(a, u) =>
    \A r \in Row : home'[r] = a =>
      /\ ~Reads(u, r, "private", TRUE)'
      /\ ~Reads(u, r, "account", FALSE)'

LEMMA HandoversEndAccess ==
  TypeOK /\ Next => \A a \in Account, u \in User : EndsAccess(a, u)
<1> SUFFICES ASSUME TypeOK, Next, NEW a \in Account, NEW u \in User, HandsOver(a, u),
                    NEW r \in Row, home'[r] = a
             PROVE  owner'[r] # u /\ role'[a][u] = None
  BY NoneIsFresh DEF EndsAccess, Reads, CanRead, Role
<1> USE NoneIsFresh DEF TypeOK, catalog, membership, HandsOver, OwnedIn
<1>1. PICK b \in Account, v \in User, t \in User \cup {None} : RemoveMember(b, v, t)
  BY DEF Next, Startup, CreateUser, Signup, DeleteUser, SetDisabled, CreateAccount,
         RevokeInvite, DeleteAccount, Invite, UpdateRole, CreateRow, MoveRow,
         ReplaceRow, DeleteRow
<1>2. b = a /\ v = u /\ t \notin {None, u}
  BY <1>1 DEF RemoveMember, RolesAfterRemoval
<1> QED
  BY <1>1, <1>2 DEF RemoveMember

\* A removal with an heir ends the departed member's access to everything of the
\* account that is not public.
THEOREM HandoverIsComplete == Spec => HandoverEndsAccess
<1>1. TypeOK /\ [Next]_vars => [\A a \in Account, u \in User : EndsAccess(a, u)]_vars
  BY HandoversEndAccess
<1> QED
  BY <1>1, TypeCorrect, PTL DEF Spec, HandoverEndsAccess, EndsAccess
=============================================================================
