------------------------------ MODULE Accounts ------------------------------
(***************************************************************************)
(* Identity and tenancy of the catalog server: users, accounts,            *)
(* memberships, pending invitations and the owner column of catalog rows.  *)
(*                                                                         *)
(* Every request is one atomic step here: this is what the service layer   *)
(* (mcp_server/accounts.py, users.py) and its routers do when requests are *)
(* served one at a time.  AccountsTx splits the same requests into their   *)
(* statements and implements this module when one worker serves them.      *)
(*                                                                         *)
(* A user stands for an e-mail address and the users row registered under  *)
(* it; an account for its unique name; a row for one skill version,        *)
(* skillset or agent.  Refused requests (4xx) leave the state unchanged    *)
(* and are the absence of a step.                                          *)
(***************************************************************************)
EXTENDS Integers, FiniteSets

CONSTANTS
  User,        \* e-mail addresses
  Account,     \* account names
  Row,         \* catalog rows: skill versions, skillsets, agents
  Operators,   \* addresses listed in MCP_WEBUI_OPERATORS
  Default,     \* the account named "default"
  None         \* SQL NULL / no row

Role == {"account-admin", "contributor", "viewer"}

\* users.email is the key of a unique index, whose entries a database bounds in
\* length: there are finitely many addresses.
ASSUME UsersAreFinite    == IsFiniteSet(User)
ASSUME OperatorsAreUsers == Operators \subseteq User
ASSUME DefaultIsAccount  == Default \in Account
ASSUME NoneIsFresh       == None \notin User \cup Account \cup Role

VARIABLES
  users,       \* registered addresses (users table)
  disabled,    \* users.disabled
  lastActive,  \* users.last_active_account_id
  accounts,    \* accounts table
  role,        \* role[a][u]: account_memberships.role, None when no membership
  pending,     \* pending[a][u]: pending_memberships.role, None when not invited
  home,        \* home[r]: account_id of a catalog row, None when no such row
  owner        \* owner[r]: owner_user_id, None when NULL

vars == <<users, disabled, lastActive, accounts, role, pending, home, owner>>

catalog     == <<home, owner>>
membership  == <<role, pending>>
identity    == <<users, disabled, lastActive>>

Nobody == [u \in User |-> None]

TypeOK ==
  /\ users \subseteq User
  /\ disabled \subseteq User
  /\ lastActive \in [User -> Account \cup {None}]
  /\ accounts \subseteq Account
  /\ role \in [Account -> [User -> Role \cup {None}]]
  /\ pending \in [Account -> [User -> Role \cup {None}]]
  /\ home \in [Row -> Account \cup {None}]
  /\ owner \in [Row -> User \cup {None}]

Init ==
  /\ users = {} /\ disabled = {} /\ accounts = {}
  /\ lastActive = Nobody
  /\ role = [a \in Account |-> Nobody]
  /\ pending = [a \in Account |-> Nobody]
  /\ home = [r \in Row |-> None]
  /\ owner = [r \in Row |-> None]

-----------------------------------------------------------------------------
(* Queries.                                                                *)

\* _count_active_admins: admins joined to users that are not disabled.
ActiveAdmins(a) ==
  {u \in users \ disabled : role[a][u] = "account-admin"}

\* The count the last-admin guard makes.  One variant counts disabled users, the
\* other the departing admin.
OtherAdminsAnyState(a, u) == {v \in users : role[a][v] = "account-admin"} \ {u}
OtherAdminsWithSelf(a, u) == ActiveAdmins(a)
OtherAdmins(a, u) == ActiveAdmins(a) \ {u}

\* The role bootstrap_default_account and create_account hand out.
LegacyAdminRole == "admin"
FirstAdminRole == "account-admin"

\* Catalog rows of account a that u owns.
OwnedIn(a, u) == {r \in Row : home[r] = a /\ owner[r] = u}

\* can_read: may the session of u (None: anonymous) read row r, given its
\* visibility and whether an allow list names u.  Ownership is asked before
\* membership; an allow list opens a private row to members only.  The variant
\* leaves the membership test of private rows out.
CanReadOutside(u, superadmin, r, vis, shared) ==
  \/ vis = "public" \/ superadmin
  \/ /\ u # None /\ home[r] # None
     /\ owner[r] = u \/ shared \/ role[home[r]][u] # None

CanRead(u, superadmin, r, vis, shared) ==
  \/ vis = "public" \/ superadmin
  \/ /\ u # None /\ home[r] # None
     /\ \/ owner[r] = u
        \/ vis = "account" /\ (role[home[r]][u] # None \/ shared)
        \/ vis = "private" /\ \/ role[home[r]][u] = "account-admin"
                              \/ role[home[r]][u] # None /\ shared

-----------------------------------------------------------------------------
(* Process start: main.py's lifespan seeds users from the environment when *)
(* the table is empty, then creates the default account when there is none *)
(* and makes every user its admin.  Both are no-ops on any later start.    *)

\* bootstrap_from_env.
Seeded == IF users = {} THEN Operators ELSE users

Startup ==
  /\ accounts = {} \/ users = {}
  /\ users' = Seeded
  /\ IF accounts = {}
     THEN /\ accounts' = {Default}
          /\ role' = [role EXCEPT ![Default] =
               [u \in User |-> IF u \in Seeded THEN FirstAdminRole ELSE None]]
          /\ lastActive' = [u \in User |->
               IF u \in Seeded THEN Default ELSE lastActive[u]]
     ELSE UNCHANGED <<accounts, role, lastActive>>
  /\ UNCHANGED <<disabled, pending, catalog>>

-----------------------------------------------------------------------------
(* Users.                                                                  *)

\* POST /admin/users.  Pending invitations for the address stay pending.
CreateUser(u) ==
  /\ u \notin users
  /\ users' = users \cup {u}
  /\ UNCHANGED <<disabled, lastActive, accounts, membership, catalog>>

\* POST /admin/signup: the user, one membership per pending invitation, and
\* the landing account (the first consumed one; the query has no ORDER BY).
Signup(u) ==
  LET invited == {a \in Account : pending[a][u] # None}
  IN /\ u \notin users
     /\ users' = users \cup {u}
     /\ role' = [a \in Account |->
          IF a \in invited THEN [role[a] EXCEPT ![u] = pending[a][u]] ELSE role[a]]
     /\ pending' = [a \in Account |-> [pending[a] EXCEPT ![u] = None]]
     /\ \/ invited = {} /\ UNCHANGED lastActive
        \/ \E a \in invited : lastActive' = [lastActive EXCEPT ![u] = a]
     /\ UNCHANGED <<disabled, accounts, catalog>>

\* PUT /admin/users/{id}/disable and the disabled field of PUT /admin/users/{id}.
SetDisabled(u, flag) ==
  /\ u \in users
  /\ disabled' = IF flag THEN disabled \cup {u} ELSE disabled \ {u}
  /\ UNCHANGED <<users, lastActive, accounts, membership, catalog>>

\* DELETE /admin/users/{id}: memberships cascade, owner columns become NULL.
DeleteUserKeepingOwners(u) ==
  /\ u \in users
  /\ users' = users \ {u}
  /\ disabled' = disabled \ {u}
  /\ lastActive' = [lastActive EXCEPT ![u] = None]
  /\ role' = [a \in Account |-> [role[a] EXCEPT ![u] = None]]
  /\ UNCHANGED <<accounts, pending, catalog>>

DeleteUser(u) ==
  /\ u \in users
  /\ users' = users \ {u}
  /\ disabled' = disabled \ {u}
  /\ lastActive' = [lastActive EXCEPT ![u] = None]
  /\ role' = [a \in Account |-> [role[a] EXCEPT ![u] = None]]
  /\ owner' = [r \in Row |-> IF owner[r] = u THEN None ELSE owner[r]]
  /\ UNCHANGED <<accounts, pending, home>>

-----------------------------------------------------------------------------
(* Accounts.                                                               *)

\* POST /admin/accounts: the account, its first admin (who may be a disabled
\* user: only existence is checked) and that user's landing account.
CreateAccount(a, u) ==
  /\ a \notin accounts /\ u \in users
  /\ accounts' = accounts \cup {a}
  /\ role' = [role EXCEPT ![a] = [Nobody EXCEPT ![u] = FirstAdminRole]]
  /\ lastActive' = [lastActive EXCEPT ![u] = a]
  /\ UNCHANGED <<users, disabled, pending, catalog>>

\* DELETE /admin/accounts/{id} with the member count the operator confirmed.
\* Memberships and invitations cascade; a catalog row in the account makes
\* the RESTRICT foreign key refuse the delete, whatever cascade_catalog says.
DeleteAccount(a, confirmed) ==
  /\ a \in accounts
  /\ confirmed = Cardinality({u \in User : role[a][u] # None})
  /\ \A r \in Row : home[r] # a
  /\ accounts' = accounts \ {a}
  /\ role' = [role EXCEPT ![a] = Nobody]
  /\ pending' = [pending EXCEPT ![a] = Nobody]
  /\ lastActive' = [u \in User |-> IF lastActive[u] = a THEN None ELSE lastActive[u]]
  /\ UNCHANGED <<users, disabled, catalog>>

-----------------------------------------------------------------------------
(* Memberships and invitations.                                            *)

\* POST /admin/accounts/{id}/members: a membership for a registered address,
\* an invitation otherwise; 409 on a duplicate in the table it inserts into.
Invite(a, u, r) ==
  /\ a \in accounts
  /\ \/ /\ u \in users /\ role[a][u] = None
        /\ role' = [role EXCEPT ![a][u] = r]
        /\ UNCHANGED pending
     \/ /\ u \notin users /\ pending[a][u] = None
        /\ pending' = [pending EXCEPT ![a][u] = r]
        /\ UNCHANGED role
  /\ UNCHANGED <<identity, accounts, catalog>>

\* DELETE /admin/accounts/{id}/pending/{pending_id}.
RevokeInvite(a, u) ==
  /\ pending[a][u] # None
  /\ pending' = [pending EXCEPT ![a][u] = None]
  /\ UNCHANGED <<identity, accounts, role, catalog>>

\* PUT /admin/accounts/{id}/members/{user_id}, guarded when an admin is demoted.
UpdateRole(a, u, r) ==
  /\ role[a][u] \notin {None, r}
  /\ role[a][u] = "account-admin" => OtherAdmins(a, u) # {}
  /\ role' = [role EXCEPT ![a][u] = r]
  /\ UNCHANGED <<identity, accounts, pending, catalog>>

\* The membership rows after u leaves a and t inherits; a viewer that inherits
\* something becomes a contributor.
RolesAfterRemoval(a, u, t, inherits) ==
  [role EXCEPT ![a] = [v \in User |->
     CASE v = u                                          -> None
       [] v # u /\ v = t /\ inherits /\ role[a][v] = "viewer" -> "contributor"
       [] OTHER                                          -> role[a][v]]]

\* DELETE /admin/accounts/{id}/members/{user_id}?new_owner_id=t (t = None when
\* the parameter is absent: owned rows then keep the departed owner).
RemoveMember(a, u, t) ==
  /\ role[a][u] # None
  /\ t # None => role[a][t] # None
  /\ role[a][u] = "account-admin" => OtherAdmins(a, u) # {}
  /\ role' = RolesAfterRemoval(a, u, t, t # None /\ OwnedIn(a, u) # {})
  /\ owner' = [r \in Row |-> IF t # None /\ r \in OwnedIn(a, u) THEN t ELSE owner[r]]
  /\ UNCHANGED <<identity, accounts, pending, home>>

-----------------------------------------------------------------------------
(* The catalog, as far as tenancy sees it.                                 *)

\* create_skill / create_skillset / create_agent: _stamp_account checks that the
\* account exists, the foreign key that the owner does; membership is not checked.
CreateRow(r, a, u) ==
  /\ home[r] = None
  /\ a \in accounts /\ u \in users \cup {None}
  /\ home' = [home EXCEPT ![r] = a]
  /\ owner' = [owner EXCEPT ![r] = u]
  /\ UNCHANGED <<identity, accounts, membership>>

\* POST .../move-account clears the owner.
MoveRow(r, a) ==
  /\ home[r] # None /\ a \in accounts
  /\ home' = [home EXCEPT ![r] = a]
  /\ owner' = [owner EXCEPT ![r] = None]
  /\ UNCHANGED <<identity, accounts, membership>>

\* PUT /skillsets/{id} on an existing skillset: an account or owner in the body
\* replaces the stored one, and again no membership is checked.
ReplaceRow(r, a, u) ==
  /\ home[r] # None
  /\ a \in accounts \cup {None} /\ u \in users \cup {None}
  /\ home' = IF a = None THEN home ELSE [home EXCEPT ![r] = a]
  /\ owner' = IF u = None THEN owner ELSE [owner EXCEPT ![r] = u]
  /\ UNCHANGED <<identity, accounts, membership>>

DeleteRow(r) ==
  /\ home[r] # None
  /\ home' = [home EXCEPT ![r] = None]
  /\ owner' = [owner EXCEPT ![r] = None]
  /\ UNCHANGED <<identity, accounts, membership>>

-----------------------------------------------------------------------------
Next ==
  \/ Startup
  \/ \E u \in User : CreateUser(u) \/ Signup(u) \/ DeleteUser(u)
  \/ \E u \in User, flag \in BOOLEAN : SetDisabled(u, flag)
  \/ \E a \in Account, u \in User :
       CreateAccount(a, u) \/ RevokeInvite(a, u)
  \/ \E a \in Account, n \in 0 .. Cardinality(User) : DeleteAccount(a, n)
  \/ \E a \in Account, u \in User, r \in Role : Invite(a, u, r) \/ UpdateRole(a, u, r)
  \/ \E a \in Account, u \in User, t \in User \cup {None} : RemoveMember(a, u, t)
  \/ \E r \in Row, a \in Account, u \in User \cup {None} : CreateRow(r, a, u)
  \/ \E r \in Row, a \in Account \cup {None}, u \in User \cup {None} : ReplaceRow(r, a, u)
  \/ \E r \in Row, a \in Account : MoveRow(r, a)
  \/ \E r \in Row : DeleteRow(r)

Spec == Init /\ [][Next]_vars

-----------------------------------------------------------------------------
(* Properties.                                                             *)

\* No table refers to a row that is gone: what the CASCADE / SET NULL / RESTRICT
\* clauses of models.py must keep true across every handler.
RefIntegrity ==
  /\ disabled \subseteq users
  /\ \A a \in Account, u \in User :
       /\ role[a][u] # None => a \in accounts /\ u \in users
       /\ pending[a][u] # None => a \in accounts
  /\ \A u \in User : lastActive[u] # None => u \in users /\ lastActive[u] \in accounts
  /\ \A r \in Row :
       /\ home[r] # None => home[r] \in accounts
       /\ owner[r] # None => home[r] # None /\ owner[r] \in users

\* An account loses its last active admin only when that admin is disabled or
\* deleted as a user: no role change, removal, inheritance or invitation does it
\* (the last-admin guard of remove_membership and update_membership_role).
Stranded(a) ==
  /\ ActiveAdmins(a) # {} /\ a \in accounts'
  /\ ActiveAdmins(a)' = {}

GuardHolds ==
  [][\A a \in Account : Stranded(a) =>
       ActiveAdmins(a) \cap (disabled' \cup (User \ users')) # {}]_vars

\* Whoever inherits the rows of a member who leaves is left able to own them, and
\* is never made an admin by inheriting (_reassign_owned_rows: viewers cannot own,
\* promotion to admin is never automatic).  Rows given to the departing member
\* itself, which the code lets through, are not inherited.
InheritorCanOwn ==
  [][\A r \in Row :
       LET a == home[r]  u == owner[r]  t == owner'[r]
       IN (/\ a # None /\ home'[r] = a
           /\ u # None /\ t \notin {None, u}
           /\ role[a][u] # None /\ role'[a][u] = None) =>
            /\ role'[a][t] \in {"contributor", "account-admin"}
            /\ role'[a][t] = "account-admin" => role[a][t] = "account-admin"]_vars

\* A removal that hands a member's rows over ends that member's access: nothing of
\* the account that is not public is readable to it any more, unless an allow list
\* names it on a row of visibility "account".  A removal that names no heir gives
\* no such guarantee, because can_read asks for the owner first.
HandsOver(a, u) ==
  /\ role[a][u] # None /\ role'[a][u] = None /\ u \in users'
  /\ \E r \in OwnedIn(a, u) : owner'[r] \notin {None, u}

Reads(u, r, vis, shared) == home[r] # None /\ CanRead(u, FALSE, r, vis, shared)

HandoverEndsAccess ==
  [][\A a \in Account, u \in User : HandsOver(a, u) =>
       \A r \in Row : home'[r] = a =>
         /\ ~Reads(u, r, "private", TRUE)'
         /\ ~Reads(u, r, "account", FALSE)']_vars
=============================================================================
