----------------------------- MODULE AccountsTx -----------------------------
(***************************************************************************)
(* The requests of Accounts as the server runs them: each handler is a     *)
(* sequence of SQL statements in a READ COMMITTED transaction of its own   *)
(* session, and several workers (threads, replicas) run them concurrently. *)
(*                                                                         *)
(* A step is one statement that reads or locks, or one commit with the     *)
(* writes the session flushes for it.  Between two steps of a worker any   *)
(* other worker may commit.  What a worker has read stays in its record:   *)
(* the session's identity map answers later reads of the same row, and     *)
(* SELECT ... FOR UPDATE locks the row without refreshing it.              *)
(*                                                                         *)
(* External, modelled from how the code relies on it: PostgreSQL row locks *)
(* and foreign keys, and SQLAlchemy's flush, which fails an UPDATE of a    *)
(* row that is gone (StaleDataError) and lets such a DELETE pass.          *)
(***************************************************************************)
EXTENDS Accounts, Sequences, Functions

CONSTANTS
  Worker,      \* request-serving threads, over all replicas
  Kinds,       \* request kinds the clients send
  MayCrash     \* whether a worker may die or lose its database connection

ASSUME MayCrashIsBoolean == MayCrash \in BOOLEAN

VARIABLE w     \* w[p]: what worker p is doing

txvars == <<users, disabled, lastActive, accounts, role, pending, home, owner, w>>
tables == <<users, disabled, lastActive, accounts, role, pending, home, owner>>

\* Fields: the request's arguments a, u, t, r; seen, the role the identity map
\* holds for the row the request peeked at; relied, the admins the guard counted;
\* moved, catalog rows updated and not committed; todo, the rows signup still has
\* to read; added, gone, told: the rows its loop has inserted and deleted, and its
\* `created` list; expired, whether a rollback has expired what it had loaded;
\* refused, the account whose membership the database refused last (for the
\* properties only).
Idle == [pc |-> "idle", a |-> None, u |-> None, t |-> None, r |-> None,
         seen |-> None, relied |-> {}, moved |-> {},
         todo |-> {}, added |-> {}, gone |-> <<>>, told |-> <<>>, expired |-> FALSE,
         refused |-> None]

Pcs == {"idle", "ur_lock", "ur_guard", "ur_write", "rm_lock", "rm_guard", "rm_assign",
        "rm_commit", "iv_add", "iv_pend", "da_delete", "su_read", "su_take",
        "su_commit", "su_stamp"}

Requests ==
  [pc : Pcs, a : Account \cup {None}, u : User \cup {None},
   t : User \cup Nat \cup {None}, r : Role \cup {None}, seen : Role \cup {None},
   relied : SUBSET User, moved : SUBSET Row,
   todo : SUBSET (Account \X Role), added : SUBSET (Account \X Role),
   gone : Seq(Account), told : Seq(Account), expired : BOOLEAN,
   refused : Account \cup {None}]

TxTypeOK == TypeOK /\ w \in [Worker -> Requests]

TxInit == Init /\ w = [p \in Worker |-> Idle]

-----------------------------------------------------------------------------
(* Row locks, read off what the workers have done and not yet committed.   *)

Holding == {"ur_guard", "ur_write", "rm_guard", "rm_assign", "rm_commit"}

AddedBy(q) == {i[1] : i \in w[q].added}

\* q holds the membership row (a, u): SELECT ... FOR UPDATE, or its own
\* uncommitted insert of that key.
Holds(q, a, u) == w[q].pc \in Holding /\ w[q].a = a /\ w[q].u = u
Locks(q, a, u) == Holds(q, a, u) \/ (w[q].u = u /\ a \in AddedBy(q))

FreeEvenOfSelf(p, a, u) == \A q \in Worker : ~Locks(q, a, u)
Free(p, a, u) == \A q \in Worker \ {p} : ~Locks(q, a, u)

\* An uncommitted row refers to users row u / accounts row a (FOR KEY SHARE).  The
\* variant is an owner column without its foreign key.
UserRefdByMembership(u) == \E q \in Worker : w[q].u = u /\ w[q].added # {}
UserRefd(u) ==
  \E q \in Worker : \/ w[q].u = u /\ w[q].added # {}
                    \/ w[q].t = u /\ w[q].moved # {}
AccountRefd(a) == \E q \in Worker : a \in AddedBy(q)

RowFree(r) == \A q \in Worker : r \notin w[q].moved

At(p, pc) == w[p].pc = pc
Put(p, rec) == w' = [w EXCEPT ![p] = rec]
Goto(p, pc) == w' = [w EXCEPT ![p].pc = pc]

\* The end of a request: get_db closes the session, which rolls back whatever is
\* not committed and releases every lock.
Finish(p) == w' = [w EXCEPT ![p] = Idle]

Begin(p, kind) == At(p, "idle") /\ kind \in Kinds

-----------------------------------------------------------------------------
(* PUT /admin/accounts/{a}/members/{u}: update_membership_role.            *)

\* The router reads the membership for its audit diff.
UrPeek(p, a, u, r) ==
  /\ Begin(p, "update_role")
  /\ Put(p, [Idle EXCEPT !.pc = "ur_lock", !.a = a, !.u = u, !.r = r, !.seen = role[a][u]])
  /\ UNCHANGED tables

\* The role the session sees for the row it has just locked: the one it peeked
\* at, if any.
SessionRole(p, current) == IF w[p].seen # None THEN w[p].seen ELSE current

UrLockNoWait(p) ==
  LET me == w[p]  current == role[me.a][me.u]  seen == SessionRole(p, current)
  IN /\ At(p, "ur_lock")
     /\ IF current = None \/ seen = me.r THEN Finish(p)
        ELSE Put(p, [me EXCEPT !.seen = seen,
                     !.pc = IF seen = "account-admin" THEN "ur_guard" ELSE "ur_write"])
     /\ UNCHANGED tables

UrLock(p) ==
  LET me == w[p]  current == role[me.a][me.u]  seen == SessionRole(p, current)
  IN /\ At(p, "ur_lock") /\ Free(p, me.a, me.u)
     /\ IF current = None \/ seen = me.r THEN Finish(p)
        ELSE Put(p, [me EXCEPT !.seen = seen,
                     !.pc = IF seen = "account-admin" THEN "ur_guard" ELSE "ur_write"])
     /\ UNCHANGED tables

\* LastAdminError, or go on relying on the admins counted.
GuardSkipped(p, pc) ==
  /\ Put(p, [w[p] EXCEPT !.pc = pc])
  /\ UNCHANGED tables

Guard(p, pc) ==
  LET others == OtherAdmins(w[p].a, w[p].u)
  IN /\ IF others = {} THEN Finish(p)
        ELSE Put(p, [w[p] EXCEPT !.relied = others, !.pc = pc])
     /\ UNCHANGED tables

UrGuard(p) == At(p, "ur_guard") /\ Guard(p, "ur_write")

UrWrite(p) ==
  /\ At(p, "ur_write")
  /\ role' = [role EXCEPT ![w[p].a][w[p].u] = w[p].r]
  /\ Finish(p)
  /\ UNCHANGED <<identity, accounts, pending, catalog>>

-----------------------------------------------------------------------------
(* DELETE /admin/accounts/{a}/members/{u}?new_owner_id=t: remove_member.   *)

RmPeek(p, a, u, t) ==
  /\ Begin(p, "remove_member")
  /\ t # None => role[a][t] # None
  /\ Put(p, [Idle EXCEPT !.pc = "rm_lock", !.a = a, !.u = u, !.t = t,
             !.seen = IF t = None THEN None ELSE role[a][t]])
  /\ UNCHANGED tables

\* The peeked-at row is the target's; it is also the departing one's when t = u.
RmLock(p) ==
  LET me == w[p]  current == role[me.a][me.u]
      leaving == IF me.t = me.u THEN me.seen ELSE current
  IN /\ At(p, "rm_lock") /\ Free(p, me.a, me.u)
     /\ IF current = None THEN Finish(p)
        ELSE Goto(p, IF leaving = "account-admin" THEN "rm_guard" ELSE "rm_assign")
     /\ UNCHANGED tables

RmGuard(p) == At(p, "rm_guard") /\ Guard(p, "rm_assign")

\* _reassign_owned_rows: the membership of the target comes from the identity
\* map, so only the foreign key notices a target that is gone by now (500).  The
\* three counts and the three UPDATEs are one step here: a row that comes or goes
\* between them would only be left with its owner, or promote a target for nothing.
RmAssign(p) ==
  LET me == w[p]
      moving == IF me.t = None THEN {} ELSE OwnedIn(me.a, me.u)
  IN /\ At(p, "rm_assign")
     /\ \A q \in Worker \ {p} : moving \cap w[q].moved = {}
     /\ IF moving # {} /\ me.t \notin users THEN Finish(p)
        ELSE Put(p, [me EXCEPT !.moved = moving, !.pc = "rm_commit"])
     /\ UNCHANGED tables

\* The flush promotes a target last seen as a viewer.  The variant lets it inherit
\* as it is.
PromotesNobody(p) == FALSE
Promotes(p) == w[p].moved # {} /\ w[p].seen = "viewer"

CanFlushRm(p) == Promotes(p) => Free(p, w[p].a, w[p].t)

RmCommit(p) ==
  LET me == w[p]
  IN /\ At(p, "rm_commit") /\ CanFlushRm(p)
     /\ \/ /\ Promotes(p) /\ role[me.a][me.t] = None     \* StaleDataError
           /\ UNCHANGED <<role, owner>>
        \/ /\ Promotes(p) => role[me.a][me.t] # None
           /\ role' = [role EXCEPT ![me.a] = [v \in User |->
                CASE v = me.u                 -> None
                  [] v = me.t /\ v # me.u /\ Promotes(p) -> "contributor"
                  [] OTHER                    -> role[me.a][v]]]
           /\ owner' = [r \in Row |-> IF r \in me.moved THEN me.t ELSE owner[r]]
     /\ Finish(p)
     /\ UNCHANGED <<identity, accounts, pending, home>>

\* Two removals that promote each other's subject wait in a circle; the database
\* aborts one.
WaitsFor(p, q) == /\ p # q /\ At(p, "rm_commit") /\ Promotes(p)
                  /\ Locks(q, w[p].a, w[p].t)

DeadlockVictim(p) ==
  /\ \E q \in Worker : WaitsFor(p, q) /\ WaitsFor(q, p)
  /\ Finish(p) /\ UNCHANGED tables

-----------------------------------------------------------------------------
(* POST /admin/accounts/{a}/members: invite_member.                        *)

IvPeek(p, a, u, r) ==
  /\ Begin(p, "invite")
  /\ a \in accounts
  /\ Put(p, [Idle EXCEPT !.a = a, !.u = u, !.r = r,
             !.pc = IF u \in users THEN "iv_add" ELSE "iv_pend"])
  /\ UNCHANGED tables

\* add_membership: the primary key and the two foreign keys decide.
IvAdd(p) ==
  LET me == w[p]
  IN /\ At(p, "iv_add") /\ Free(p, me.a, me.u)
     /\ IF me.a \in accounts /\ me.u \in users /\ role[me.a][me.u] = None
        THEN role' = [role EXCEPT ![me.a][me.u] = me.r]
        ELSE UNCHANGED role
     /\ Finish(p)
     /\ UNCHANGED <<identity, accounts, pending, catalog>>

\* add_pending_membership: the address may have signed up since the peek.
IvPend(p) ==
  LET me == w[p]
  IN /\ At(p, "iv_pend")
     /\ IF me.a \in accounts /\ pending[me.a][me.u] = None
        THEN pending' = [pending EXCEPT ![me.a][me.u] = me.r]
        ELSE UNCHANGED pending
     /\ Finish(p)
     /\ UNCHANGED <<identity, accounts, role, catalog>>

-----------------------------------------------------------------------------
(* DELETE /admin/accounts/{a}: the confirmed count is compared with one    *)
(* query, the rows are deleted by another.                                 *)

DaCheck(p, a) ==
  /\ Begin(p, "delete_account")
  /\ a \in accounts
  /\ Put(p, [Idle EXCEPT !.pc = "da_delete", !.a = a,
             !.t = Cardinality({u \in User : role[a][u] # None})])
  /\ UNCHANGED tables

\* A DELETE blocks on locked memberships and on uncommitted rows that refer to
\* the account.  The variant is a membership table without that foreign key.
DaCanDeleteAnyway(p, a) == \A q \in Worker \ {p}, u \in User : ~Holds(q, a, u)
DaCanDelete(p, a) ==
  ~AccountRefd(a) /\ \A q \in Worker \ {p}, u \in User : ~Holds(q, a, u)

DaDelete(p) ==
  LET a == w[p].a
  IN /\ At(p, "da_delete") /\ DaCanDelete(p, a)
     /\ IF a \in accounts /\ \A r \in Row : home[r] # a
        THEN /\ accounts' = accounts \ {a}
             /\ role' = [role EXCEPT ![a] = Nobody]
             /\ pending' = [pending EXCEPT ![a] = Nobody]
             /\ lastActive' = [u \in User |->
                  IF lastActive[u] = a THEN None ELSE lastActive[u]]
        ELSE UNCHANGED <<accounts, role, pending, lastActive>>
     /\ Finish(p)
     /\ UNCHANGED <<users, disabled, catalog>>

-----------------------------------------------------------------------------
(* POST /admin/signup: create_user, consume_pending_for_user and the       *)
(* landing-account stamp, three transactions on one session.               *)

SuCreate(p, u) ==
  /\ Begin(p, "signup")
  /\ u \notin users
  /\ users' = users \cup {u}
  /\ Put(p, [Idle EXCEPT !.pc = "su_read", !.u = u])
  /\ UNCHANGED <<disabled, lastActive, accounts, membership, catalog>>

\* The invitations found, as <<account, role>> pairs.
SuRead(p) ==
  LET u == w[p].u
      found == {<<a, pending[a][u]>> : a \in {b \in Account : pending[b][u] # None}}
  IN /\ At(p, "su_read")
     /\ IF found = {} THEN Finish(p)
        ELSE Put(p, [w[p] EXCEPT !.todo = found, !.pc = "su_take"])
     /\ UNCHANGED tables

\* The loop after the round of invitation i.
Round(me, i, added, gone, told, expired) ==
  [me EXCEPT !.todo = @ \ {i}, !.added = added, !.gone = gone, !.told = told,
             !.expired = expired,
             !.pc = IF me.todo = {i} THEN "su_commit" ELSE "su_take"]

\* What an IntegrityError leaves of the earlier rounds: db.rollback() undoes their
\* inserts and deletes and expires what was loaded; `created` keeps them.  The
\* variant undoes the inserts only.
Refuse(me, i, gone) ==
  [Round(me, i, {}, gone, me.told, TRUE) EXCEPT !.refused = i[1]]
AfterRollbackOfInserts(me, i) == Refuse(me, i, Append(me.gone, i[1]))
AfterRollback(me, i) == Refuse(me, i, <<i[1]>>)

\* The invitation of the round that was rolled back is loaded again by the flush
\* that deletes it, which fails when it is gone (ObjectDeletedError).
StaleDelete(me) ==
  me.expired /\ Len(me.gone) = 1 /\ pending[Head(me.gone)][me.u] = None

\* One round: insert and flush the membership, schedule the invitation's delete.
SuTake(p, i) ==
  LET me == w[p]  a == i[1]
  IN /\ At(p, "su_take") /\ i \in me.todo /\ Free(p, a, me.u)
     /\ IF StaleDelete(me) \/ (me.expired /\ pending[a][me.u] # i[2])
        THEN Finish(p)
        ELSE IF a \in accounts /\ me.u \in users /\ role[a][me.u] = None
        THEN Put(p, Round(me, i, me.added \cup {i}, Append(me.gone, a),
                          Append(me.told, a), me.expired))
        ELSE Put(p, AfterRollback(me, i))
     /\ UNCHANGED tables

\* The flush of the last delete and the commit.  Deleting an invitation that was
\* revoked meanwhile matches no row and passes.
SuCommit(p) ==
  LET me == w[p]  u == me.u
  IN /\ At(p, "su_commit")
     /\ \/ /\ StaleDelete(me) /\ Finish(p) /\ UNCHANGED membership
        \/ /\ ~StaleDelete(me)
           /\ role' = [a \in Account |->
                IF a \in AddedBy(p)
                THEN [role[a] EXCEPT ![u] = (CHOOSE i \in me.added : i[1] = a)[2]]
                ELSE role[a]]
           /\ pending' = [a \in Account |-> IF a \in Range(me.gone)
                THEN [pending[a] EXCEPT ![u] = None] ELSE pending[a]]
           /\ IF me.told = <<>> THEN Finish(p)
              ELSE Put(p, [me EXCEPT !.pc = "su_stamp", !.todo = me.added,
                           !.added = {}, !.gone = <<>>])
     /\ UNCHANGED <<identity, accounts, catalog>>

\* The memberships just committed are read again (ObjectDeletedError when one is
\* gone), then update_user(last_active_account_id = created[0]), which the foreign
\* key refuses for an account that is gone.
SuStamp(p) ==
  LET me == w[p]
  IN /\ At(p, "su_stamp")
     /\ lastActive' = IF /\ \A i \in me.todo : role[i[1]][me.u] # None
                         /\ me.u \in users /\ Head(me.told) \in accounts
                      THEN [lastActive EXCEPT ![me.u] = Head(me.told)] ELSE lastActive
     /\ Finish(p)
     /\ UNCHANGED <<users, disabled, accounts, membership, catalog>>

-----------------------------------------------------------------------------
(* Requests whose only interleaving point is their commit, served by a     *)
(* worker that is free; a statement blocks on locked or referred-to rows.  *)

Atomic(kind) == (\E p \in Worker : Begin(p, kind)) /\ UNCHANGED w

AdminCreateUser(u) == Atomic("create_user") /\ CreateUser(u)

Moderate(u, flag) == Atomic("moderate") /\ SetDisabled(u, flag)

AdminDeleteUser(u) ==
  /\ Atomic("delete_user") /\ DeleteUser(u)
  /\ ~UserRefd(u) /\ \A q \in Worker, a \in Account : ~Locks(q, a, u)

NewAccount(a, u) == Atomic("create_account") /\ CreateAccount(a, u)

\* The DELETE of an invitation waits for a signup that has flushed its own.
Revoke(a, u) ==
  /\ Atomic("revoke") /\ RevokeInvite(a, u)
  /\ \A q \in Worker : w[q].u = u => \A n \in 1 .. Len(w[q].gone) - 1 : w[q].gone[n] # a

RowAdded(r, a, u)    == Atomic("catalog") /\ CreateRow(r, a, u)
RowReplaced(r, a, u) == Atomic("catalog") /\ ReplaceRow(r, a, u) /\ RowFree(r)
RowMoved(r, a)       == Atomic("catalog") /\ MoveRow(r, a) /\ RowFree(r)
RowDeleted(r)        == Atomic("catalog") /\ DeleteRow(r) /\ RowFree(r)

\* The lifespan hook, before any request is served.
Boot == (\A p \in Worker : At(p, "idle")) /\ "boot" \in Kinds /\ Startup /\ UNCHANGED w

\* A worker dies, or its connection does, between two statements.
Crash(p) == MayCrash /\ ~At(p, "idle") /\ Finish(p) /\ UNCHANGED tables

-----------------------------------------------------------------------------
Arrive(p) ==
  \/ \E a \in Account, u \in User, r \in Role : UrPeek(p, a, u, r) \/ IvPeek(p, a, u, r)
  \/ \E a \in Account, u \in User, t \in User \cup {None} : RmPeek(p, a, u, t)
  \/ \E a \in Account : DaCheck(p, a)
  \/ \E u \in User : SuCreate(p, u)

Proceed(p) ==
  \/ UrLock(p) \/ UrGuard(p) \/ UrWrite(p)
  \/ RmLock(p) \/ RmGuard(p) \/ RmAssign(p) \/ RmCommit(p) \/ DeadlockVictim(p)
  \/ IvAdd(p) \/ IvPend(p)
  \/ DaDelete(p)
  \/ SuRead(p) \/ (\E i \in w[p].todo : SuTake(p, i)) \/ SuCommit(p) \/ SuStamp(p)

OneShot ==
  \/ Boot
  \/ \E u \in User : AdminCreateUser(u) \/ AdminDeleteUser(u)
  \/ \E u \in User, flag \in BOOLEAN : Moderate(u, flag)
  \/ \E a \in Account, u \in User : NewAccount(a, u) \/ Revoke(a, u)
  \/ \E r \in Row, a \in Account, u \in User \cup {None} : RowAdded(r, a, u)
  \/ \E r \in Row, a \in Account \cup {None}, u \in User \cup {None} : RowReplaced(r, a, u)
  \/ \E r \in Row, a \in Account : RowMoved(r, a)
  \/ \E r \in Row : RowDeleted(r)

TxNext ==
  \/ \E p \in Worker : Arrive(p) \/ Proceed(p) \/ Crash(p)
  \/ OneShot

TxSpec == TxInit /\ [][TxNext]_txvars

\* A request that has begun is run to its end: Starlette's thread pool and the
\* database schedule every statement, and a row lock is granted in FIFO order,
\* so a worker that waits is not overtaken for ever.
Fairness == \A p \in Worker : SF_txvars(Proceed(p))

-----------------------------------------------------------------------------
(* Properties.                                                             *)

\* FOR UPDATE does what the handlers rely on: from the lock to the commit the
\* membership row being changed or removed stays there, whatever the other
\* workers delete.
LockedRowLives ==
  \A p \in Worker : w[p].pc \in Holding => role[w[p].a][w[p].u] # None

\* The last-admin guard fails only by being overtaken: a request that takes an
\* account's last active admin away had counted another one that was gone by the
\* commit, or worked on a role that had changed since it peeked.
Overtaken(p) ==
  \/ w[p].relied \ {w[p].u} # {}
  \/ At(p, "ur_write") /\ w[p].seen # role[w[p].a][w[p].u]
  \/ At(p, "rm_commit") /\ Promotes(p) /\ role[w[p].a][w[p].t] # "viewer"
  \/ At(p, "rm_commit") /\ w[p].t = w[p].u /\ w[p].seen # role[w[p].a][w[p].u]

StrandingNeedsRace ==
  [][\A a \in Account :
       Stranded(a) => \/ ActiveAdmins(a) \cap (disabled' \cup (User \ users')) # {}
                      \/ \E p \in Worker : w'[p] # w[p] /\ Overtaken(p)]_txvars

\* What docs and docstrings promise: an account keeps an active admin through any
\* removals and role changes, concurrent ones included.
AdminsSurviveRequests ==
  [][\A a \in Account :
       Stranded(a) => ActiveAdmins(a) \cap (disabled' \cup (User \ users')) # {}]_txvars

\* Signup deletes an invitation only together with inserting its membership, or
\* when the database refused that insert and the request went on: no interleaving
\* makes an invitation vanish that signup has not even tried to turn into one.
ConsumedOrMember ==
  [][\A a \in Account, u \in User, p \in Worker :
       (/\ pending[a][u] # None /\ pending'[a][u] = None
        /\ At(p, "su_commit") /\ w'[p].pc # "su_commit") =>
         role'[a][u] # None \/ a = w[p].refused]_txvars

\* Every request ends, deadlocked or not.
EveryRequestEnds == \A p \in Worker : ~At(p, "idle") ~> At(p, "idle")

\* One worker serving every request implements the atomic service.  A user whose
\* signup has not stamped its landing account yet has not signed up.
InSignup == {p \in Worker : w[p].pc \in {"su_read", "su_take", "su_commit", "su_stamp"}}
SigningUp == {w[p].u : p \in InSignup}
Granted(a, u) == \E p \in InSignup : w[p].u = u /\ At(p, "su_stamp") /\ a \in Range(w[p].told)

SignedUp    == users \ SigningUp
Memberships == [a \in Account |-> [u \in User |->
                 IF u \in SigningUp THEN None ELSE role[a][u]]]
Invitations == [a \in Account |-> [u \in User |->
                 IF Granted(a, u) THEN role[a][u] ELSE pending[a][u]]]

Serial == INSTANCE Accounts
            WITH users <- SignedUp, role <- Memberships, pending <- Invitations

ImplementsSerial == Serial!Spec
=============================================================================
