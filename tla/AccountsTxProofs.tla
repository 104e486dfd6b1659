-------------------------- MODULE AccountsTxProofs --------------------------
(***************************************************************************)
(* What the transactions of AccountsTx guarantee for any number of         *)
(* workers, users, accounts and rows, whatever kinds of requests overlap   *)
(* and wherever they crash.                                                *)
(*                                                                         *)
(* The argument is about row locks: two workers never hold the same        *)
(* membership row, so what a request has locked, inserted or moved and not *)
(* yet committed is still as it found it when it commits.                  *)
(***************************************************************************)
EXTENDS AccountsTx, AccountsProofs, FiniteSetTheorems, TLAPS

Ur == {"ur_lock", "ur_guard", "ur_write"}
Rm == {"rm_lock", "rm_guard", "rm_assign", "rm_commit"}
Iv == {"iv_add", "iv_pend"}
Su == {"su_read", "su_take", "su_commit", "su_stamp"}
In(p, pcs) == w[p].pc \in pcs

\* What a request carries, by the step it has come to.
Shaped(p) ==
  /\ At(p, "idle") => w[p] = Idle
  /\ In(p, Ur \cup Rm \cup Iv) => w[p].a \in Account /\ w[p].u \in User
  /\ In(p, Ur \cup Iv) => w[p].r \in Role
  /\ In(p, Rm) => w[p].t \in User \cup {None}
  /\ At(p, "da_delete") => w[p].a \in Account
  /\ In(p, Su) => w[p].u \in User
  /\ At(p, "su_read") => w[p].gone = <<>>
  /\ w[p].moved # {} => At(p, "rm_commit") /\ w[p].t \in User
  /\ w[p].added # {} => In(p, {"su_take", "su_commit"})

\* A membership row that is locked is there.
HeldLives(p) == In(p, Holding) => role[w[p].a][w[p].u] # None

\* The memberships a signup has inserted can still be committed.
AddedLives(p) ==
  \A a \in AddedBy(p) : a \in accounts /\ w[p].u \in users /\ role[a][w[p].u] = None

\* The rows a removal has moved exist, and so does who inherits them.
MovedLives(p) ==
  /\ \A r \in w[p].moved : home[r] # None
  /\ w[p].moved # {} => w[p].t \in users

\* Past the last-admin guard, a request has counted another admin or found its
\* subject to be none; of a removal, only the role it peeked at may be stale.
Cleared(p) ==
  /\ In(p, {"ur_guard", "ur_write"}) => w[p].seen \in Role
  /\ At(p, "ur_write") /\ w[p].seen = "account-admin" => w[p].relied \ {w[p].u} # {}
  /\ In(p, {"rm_assign", "rm_commit"}) =>
       \/ w[p].relied \ {w[p].u} # {}
       \/ w[p].t = w[p].u /\ w[p].seen # "account-admin"
       \/ w[p].t # w[p].u /\ role[w[p].a][w[p].u] # "account-admin"

\* What a signup is about to delete it has turned into a membership, or was refused.
Accounted(p) == Range(w[p].gone) \subseteq AddedBy(p) \cup {w[p].refused}

Good(p) == /\ Shaped(p) /\ HeldLives(p) /\ AddedLives(p) /\ MovedLives(p)
           /\ Cleared(p) /\ Accounted(p)

\* No two workers hold the same membership row.
Apart ==
  \A p \in Worker : \A q \in Worker \ {p} : \A a \in Account, u \in User :
    ~(Locks(p, a, u) /\ Locks(q, a, u))

IInv == TxTypeOK /\ RefIntegrity /\ (\A p \in Worker : Good(p)) /\ Apart

-----------------------------------------------------------------------------
(* Records.                                                                *)

LEMMA IdleIsRequest == Idle \in Requests
BY DEF Idle, Requests, Pcs

LEMMA IdleHasNothing ==
  /\ Idle.pc = "idle" /\ Idle.u = None /\ Idle.t = None /\ Idle.moved = {}
  /\ Idle.added = {} /\ Idle.gone = <<>> /\ Idle.relied = {} /\ Idle.seen = None
BY DEF Idle

LEMMA AllPcs ==
  /\ {"ur_lock", "rm_lock", "iv_add", "iv_pend", "da_delete"} \subseteq Pcs
  /\ {"su_read", "su_take", "su_commit", "su_stamp"} \subseteq Pcs
BY DEF Pcs

LEMMA PutKeepsTypes ==
  ASSUME w \in [Worker -> Requests], NEW p \in Worker, NEW rec \in Requests,
         w' = [w EXCEPT ![p] = rec]
  PROVE  /\ w' \in [Worker -> Requests] /\ w'[p] = rec
         /\ \A q \in Worker \ {p} : w'[q] = w[q]
OBVIOUS

LEMMA RangeOfEmpty == Range(<<>>) = {}
BY DEF Range

LEMMA RangeOfOne ==
  ASSUME NEW e
  PROVE  Range(<<e>>) = {e}
BY DEF Range

LEMMA RangeOfAppend ==
  ASSUME NEW S, NEW s \in Seq(S), NEW e \in S
  PROVE  Range(Append(s, e)) = Range(s) \cup {e}
<1> DEFINE t == Append(s, e)
<1>1. /\ t \in Seq(S) /\ Len(t) = Len(s) + 1 /\ t[Len(s) + 1] = e
      /\ \A n \in 1 .. Len(s) : t[n] = s[n]
      /\ DOMAIN t = 1 .. Len(s) + 1 /\ DOMAIN s = 1 .. Len(s) /\ Len(s) \in Nat
  OBVIOUS
<1> HIDE DEF t
<1>2. Range(t) \subseteq Range(s) \cup {e}
  BY <1>1 DEF Range
<1>3. e \in Range(t)
  BY <1>1 DEF Range
<1>4. Range(s) \subseteq Range(t)
  BY <1>1 DEF Range
<1> QED
  BY <1>2, <1>3, <1>4 DEF t

-----------------------------------------------------------------------------
(* What a step of one worker leaves to the others.                         *)

\* The step changes no row that q relies on.
Kept(q) ==
  /\ \A a \in Account, u \in User : Locks(q, a, u) => role'[a][u] = role[a][u]
  /\ \A a \in AddedBy(q) : a \in accounts' /\ w[q].u \in users'
  /\ \A r \in w[q].moved : home'[r] # None
  /\ w[q].moved # {} => w[q].t \in users'

LEMMA KeptIsGood ==
  ASSUME IInv, NEW q \in Worker, w'[q] = w[q], Kept(q)
  PROVE  Good(q)'
<1>1. Good(q) /\ w[q] \in Requests
  BY DEF IInv, TxTypeOK
<1>2. AddedBy(q)' = AddedBy(q) /\ AddedBy(q) \subseteq Account
  BY <1>1 DEF AddedBy, Requests
<1>3. In(q, Holding) => /\ w[q].a \in Account /\ w[q].u \in User
                        /\ role'[w[q].a][w[q].u] = role[w[q].a][w[q].u]
  BY <1>1 DEF Good, Shaped, Kept, Locks, Holds, In, Holding, Ur, Rm
<1>4. Shaped(q)' /\ Accounted(q)'
  BY <1>1, <1>2 DEF Good, Shaped, Accounted, At, In
<1>5. HeldLives(q)'
  BY <1>1, <1>3 DEF Good, HeldLives, In
<1>6. AddedLives(q)'
  <2>1. \A a \in AddedBy(q) : a \in Account /\ w[q].u \in User
    BY <1>1, <1>2 DEF Good, Shaped, AddedBy, In, Su
  <2>2. \A a \in AddedBy(q) : role'[a][w[q].u] = role[a][w[q].u]
    BY <2>1 DEF Kept, Locks
  <2> QED
    BY <1>1, <1>2, <2>2 DEF Good, AddedLives, Kept
<1>7. MovedLives(q)'
  BY DEF MovedLives, Kept
<1>8. Cleared(q)'
  BY <1>1, <1>3 DEF Good, Cleared, At, In, Holding
<1> QED
  BY <1>4, <1>5, <1>6, <1>7, <1>8 DEF Good

\* One worker's step is sound when the others keep what they rely on, and when it
\* takes only locks that are free.
LEMMA StepIsSound ==
  ASSUME IInv, TxTypeOK', RefIntegrity', NEW p \in Worker, Good(p)',
         \A q \in Worker \ {p} : w'[q] = w[q] /\ Kept(q),
         \A a \in Account, u \in User : Locks(p, a, u)' => Free(p, a, u)
  PROVE  IInv'
<1>1. \A q \in Worker : Good(q)'
  BY KeptIsGood
<1>2. \A q \in Worker \ {p}, a \in Account, u \in User : Locks(q, a, u)' = Locks(q, a, u)
  BY DEF Locks, Holds, AddedBy
<1>3. Apart'
  BY <1>2 DEF IInv, Apart, Free
<1> QED
  BY <1>1, <1>3 DEF IInv

LEMMA UnchangedIsKept ==
  ASSUME IInv, UNCHANGED tables, NEW q \in Worker
  PROVE  Kept(q)
BY DEF IInv, Good, AddedLives, MovedLives, Kept, tables

LEMMA OwnLocksAreFree ==
  ASSUME IInv, NEW p \in Worker, NEW a \in Account, NEW u \in User, Locks(p, a, u)
  PROVE  Free(p, a, u)
BY DEF IInv, Apart, Free

\* A step that only changes its own record.
LEMMA QuietStepIsSound ==
  ASSUME IInv, NEW p \in Worker, NEW rec \in Requests, Put(p, rec), UNCHANGED tables,
         Good(p)',
         \A a \in Account, u \in User : Locks(p, a, u)' => Free(p, a, u)
  PROVE  IInv'
<1>1. w' \in [Worker -> Requests] /\ \A q \in Worker \ {p} : w'[q] = w[q]
  BY PutKeepsTypes DEF Put, IInv, TxTypeOK
<1>2. TxTypeOK' /\ RefIntegrity'
  BY <1>1 DEF IInv, TxTypeOK, TypeOK, RefIntegrity, tables
<1> QED
  BY <1>1, <1>2, UnchangedIsKept, StepIsSound

LEMMA IdleIsGood ==
  ASSUME NEW p \in Worker, w'[p] = Idle
  PROVE  Good(p)' /\ \A a \in Account, u \in User : ~Locks(p, a, u)'
<1>1. AddedBy(p)' = {}
  BY IdleHasNothing DEF AddedBy
<1>2. \A a \in Account, u \in User : ~Locks(p, a, u)'
  BY <1>1, IdleHasNothing DEF Locks, Holds, Holding
<1>3. Shaped(p)'
  BY IdleHasNothing DEF Shaped, At, In, Ur, Rm, Iv, Su
<1>4. HeldLives(p)' /\ AddedLives(p)' /\ MovedLives(p)' /\ Cleared(p)'
  BY <1>1, IdleHasNothing DEF HeldLives, AddedLives, MovedLives, Cleared, At, In, Holding
<1>5. Accounted(p)'
  BY IdleHasNothing, RangeOfEmpty DEF Accounted
<1> QED
  BY <1>2, <1>3, <1>4, <1>5 DEF Good

LEMMA FinishIsSound ==
  ASSUME IInv, NEW p \in Worker, Finish(p), UNCHANGED tables
  PROVE  IInv'
<1>1. w'[p] = Idle
  BY DEF Finish, IInv, TxTypeOK
<1> QED
  BY <1>1, IdleIsGood, IdleIsRequest, QuietStepIsSound DEF Finish, Put

\* A point where the request holds and has written nothing.
LEMMA BareIsGood ==
  ASSUME NEW p \in Worker, Shaped(p)', w'[p].pc \notin Holding, w'[p].added = {},
         w'[p].moved = {}, w'[p].gone = <<>>
  PROVE  Good(p)' /\ \A a \in Account, u \in User : ~Locks(p, a, u)'
<1>1. AddedBy(p)' = {}
  BY DEF AddedBy
<1>2. \A a \in Account, u \in User : ~Locks(p, a, u)'
  BY <1>1 DEF Locks, Holds
<1>3. HeldLives(p)' /\ AddedLives(p)' /\ MovedLives(p)' /\ Cleared(p)'
  BY <1>1 DEF HeldLives, AddedLives, MovedLives, Cleared, At, In, Holding
<1>4. Accounted(p)'
  BY RangeOfEmpty DEF Accounted
<1> QED
  BY <1>2, <1>3, <1>4 DEF Good

LEMMA BareStepIsSound ==
  ASSUME IInv, NEW p \in Worker, NEW rec \in Requests, Put(p, rec), UNCHANGED tables,
         Shaped(p)', rec.pc \notin Holding, rec.added = {}, rec.moved = {}, rec.gone = <<>>
  PROVE  IInv'
<1>1. w'[p] = rec
  BY PutKeepsTypes DEF Put, IInv, TxTypeOK
<1> QED
  BY <1>1, BareIsGood, QuietStepIsSound

-----------------------------------------------------------------------------
(* Changing a role.                                                        *)

LEMMA UrPeekIsSound ==
  ASSUME IInv, NEW p \in Worker, NEW a \in Account, NEW u \in User, NEW r \in Role,
         UrPeek(p, a, u, r)
  PROVE  IInv'
<1> DEFINE rec == [Idle EXCEPT !.pc = "ur_lock", !.a = a, !.u = u, !.r = r,
                     !.seen = role[a][u]]
<1>0. role[a][u] \in Role \cup {None}
  BY DEF IInv, TxTypeOK, TypeOK
<1>1. rec \in Requests
  BY <1>0, IdleIsRequest, AllPcs DEF Requests
<1>2. /\ rec.pc = "ur_lock" /\ rec.a = a /\ rec.u = u /\ rec.r = r
      /\ rec.moved = {} /\ rec.added = {} /\ rec.gone = <<>>
  BY DEF Idle
<1>3. Put(p, rec) /\ UNCHANGED tables
  BY DEF UrPeek
<1> HIDE DEF rec
<1>4. w'[p] = rec
  BY <1>1, <1>3, PutKeepsTypes DEF Put, IInv, TxTypeOK
<1>5. Shaped(p)'
  BY <1>2, <1>4 DEF Shaped, At, In, Ur, Rm, Iv, Su
<1> QED
  BY <1>1, <1>2, <1>3, <1>5, BareStepIsSound DEF Holding

LEMMA UrLockIsSound ==
  ASSUME IInv, NEW p \in Worker, UrLock(p)
  PROVE  IInv'
<1> DEFINE current == role[w[p].a][w[p].u]
           seen == SessionRole(p, current)
           next == IF seen = "account-admin" THEN "ur_guard" ELSE "ur_write"
           rec == [w[p] EXCEPT !.seen = seen, !.pc = next]
<1>1. w[p] \in Requests /\ Good(p) /\ At(p, "ur_lock") /\ UNCHANGED tables
  BY DEF IInv, TxTypeOK, UrLock
<1>2. CASE current = None \/ seen = w[p].r
  BY <1>1, <1>2, FinishIsSound DEF UrLock
<1>3. CASE ~(current = None \/ seen = w[p].r)
  <2>1. w[p].a \in Account /\ w[p].u \in User /\ w[p].r \in Role
    BY <1>1 DEF Good, Shaped, At, In, Ur
  <2>2. seen \in Role
    BY <1>1, <1>3, <2>1 DEF SessionRole, Requests, IInv, TxTypeOK, TypeOK
  <2>3. Put(p, rec) /\ Free(p, w[p].a, w[p].u)
    BY <1>3 DEF UrLock
  <2>2a. next \in {"ur_guard", "ur_write"} /\ (next = "ur_write" => seen # "account-admin")
    OBVIOUS
  <2> HIDE DEF seen, next
  <2>4. /\ rec.pc = next /\ rec.seen = seen
        /\ rec.a = w[p].a /\ rec.u = w[p].u /\ rec.r = w[p].r
        /\ rec.t = w[p].t /\ rec.moved = w[p].moved /\ rec.added = w[p].added
        /\ rec.gone = w[p].gone /\ rec.refused = w[p].refused
    BY <1>1 DEF Requests
  <2>5. rec \in Requests
    BY <1>1, <2>2, <2>2a DEF Requests, Pcs
  <2> HIDE DEF rec
  <2>6. w'[p] = rec
    BY <2>3, <2>5, PutKeepsTypes DEF Put, IInv, TxTypeOK
  <2>7. w[p].moved = {} /\ w[p].added = {}
    BY <1>1 DEF Good, Shaped, At, In
  <2>8. AddedBy(p)' = {} /\ AddedBy(p) = {}
    BY <2>4, <2>6, <2>7 DEF AddedBy
  <2>9. Shaped(p)'
    BY <2>1, <2>2a, <2>4, <2>6, <2>7 DEF Shaped, At, In, Ur, Rm, Iv, Su
  <2>10. HeldLives(p)' /\ AddedLives(p)' /\ MovedLives(p)'
    BY <1>1, <1>3, <2>4, <2>6, <2>7, <2>8 DEF HeldLives, AddedLives, MovedLives, In, tables
  <2>11. Cleared(p)'
    BY <2>2, <2>2a, <2>4, <2>6 DEF Cleared, At, In
  <2>12. Accounted(p)'
    BY <1>1, <2>4, <2>6, <2>8 DEF Good, Accounted
  <2>13. \A a \in Account, u \in User : Locks(p, a, u)' => Free(p, a, u)
    BY <2>3, <2>4, <2>6, <2>8 DEF Locks, Holds
  <2> QED
    BY <1>1, <2>3, <2>5, <2>9, <2>10, <2>11, <2>12, <2>13, QuietStepIsSound DEF Good
<1> QED
  BY <1>2, <1>3

\* The guard of either request, when it lets it through.
LEMMA GuardIsSound ==
  ASSUME IInv, NEW p \in Worker,
         \/ At(p, "ur_guard") /\ Guard(p, "ur_write")
         \/ At(p, "rm_guard") /\ Guard(p, "rm_assign")
  PROVE  IInv'
<1> DEFINE others == OtherAdmins(w[p].a, w[p].u)
<1>1. w[p] \in Requests /\ Good(p) /\ UNCHANGED tables
  BY DEF IInv, TxTypeOK, Guard
<1>2. PICK pc \in {"ur_write", "rm_assign"} :
        /\ Guard(p, pc)
        /\ pc = "ur_write" => At(p, "ur_guard")
        /\ pc = "rm_assign" => At(p, "rm_guard")
  OBVIOUS
<1> DEFINE rec == [w[p] EXCEPT !.relied = others, !.pc = pc]
<1>3. CASE others = {}
  BY <1>1, <1>2, <1>3, FinishIsSound DEF Guard
<1>4. CASE others # {}
  <2>1. Put(p, rec)
    BY <1>2, <1>4 DEF Guard
  <2>2. others \in SUBSET User /\ others \ {w[p].u} # {}
    BY <1>4 DEF OtherAdmins, ActiveAdmins, IInv, TxTypeOK, TypeOK
  <2> HIDE DEF others
  <2>3. /\ rec.pc = pc /\ rec.relied = others /\ rec.seen = w[p].seen
        /\ rec.a = w[p].a /\ rec.u = w[p].u /\ rec.r = w[p].r
        /\ rec.t = w[p].t /\ rec.moved = w[p].moved /\ rec.added = w[p].added
        /\ rec.gone = w[p].gone /\ rec.refused = w[p].refused
    BY <1>1 DEF Requests
  <2>4. rec \in Requests
    BY <1>1, <2>2 DEF Requests, Pcs
  <2> HIDE DEF rec
  <2>5. w'[p] = rec
    BY <2>1, <2>4, PutKeepsTypes DEF Put, IInv, TxTypeOK
  <2>6. w[p].moved = {} /\ w[p].added = {}
    BY <1>1, <1>2 DEF Good, Shaped, At, In
  <2>7. AddedBy(p)' = {} /\ AddedBy(p) = {}
    BY <2>3, <2>5, <2>6 DEF AddedBy
  <2>8. Shaped(p)'
    BY <1>1, <1>2, <2>3, <2>5, <2>6 DEF Good, Shaped, At, In, Ur, Rm, Iv, Su
  <2>9. HeldLives(p)' /\ AddedLives(p)' /\ MovedLives(p)'
    BY <1>1, <1>2, <2>3, <2>5, <2>6, <2>7
    DEF Good, HeldLives, AddedLives, MovedLives, At, In, Holding, tables
  <2>10. Cleared(p)'
    BY <1>1, <1>2, <2>2, <2>3, <2>5 DEF Good, Cleared, At, In
  <2>11. Accounted(p)'
    BY <1>1, <2>3, <2>5, <2>7 DEF Good, Accounted
  <2>12. \A a \in Account, u \in User : Locks(p, a, u)' => Locks(p, a, u)
    BY <1>2, <2>3, <2>5, <2>7 DEF Locks, Holds, At, Holding
  <2> QED
    BY <1>1, <2>1, <2>4, <2>8, <2>9, <2>10, <2>11, <2>12, OwnLocksAreFree, QuietStepIsSound
    DEF Good
<1> QED
  BY <1>3, <1>4

\* A commit that ends its request and changes no row another one relies on.
LEMMA CommitIsSound ==
  ASSUME IInv, NEW p \in Worker, Finish(p), TypeOK', RefIntegrity',
         \A q \in Worker \ {p} : Kept(q)
  PROVE  IInv'
<1>1. /\ w' \in [Worker -> Requests] /\ w'[p] = Idle
      /\ \A q \in Worker \ {p} : w'[q] = w[q]
  BY IdleIsRequest, PutKeepsTypes DEF Finish, IInv, TxTypeOK
<1>2. TxTypeOK'
  BY <1>1 DEF TxTypeOK
<1> QED
  BY <1>1, <1>2, IdleIsGood, StepIsSound

\* A step that adds no membership and deletes no user, account or catalog row.
LEMMA RoleWriteIsKept ==
  ASSUME IInv, NEW q \in Worker, UNCHANGED <<users, accounts, home>>,
         \A a \in Account, u \in User : Locks(q, a, u) => role'[a][u] = role[a][u]
  PROVE  Kept(q)
BY DEF IInv, Good, AddedLives, MovedLives, Kept

LEMMA UrWriteIsSound ==
  ASSUME IInv, NEW p \in Worker, UrWrite(p)
  PROVE  IInv'
<1>1. /\ w[p].a \in Account /\ w[p].u \in User /\ w[p].r \in Role
      /\ role[w[p].a][w[p].u] # None
  BY DEF IInv, Good, Shaped, HeldLives, UrWrite, At, In, Ur, Holding
<1>2. role' = [role EXCEPT ![w[p].a][w[p].u] = w[p].r] /\ Finish(p)
      /\ UNCHANGED <<users, disabled, lastActive, accounts, pending, home, owner>>
  BY DEF UrWrite, identity, catalog
<1>3. TypeOK' /\ RefIntegrity'
  BY <1>1, <1>2, NoneIsFresh DEF IInv, TxTypeOK, TypeOK, RefIntegrity
<1>4. ASSUME NEW q \in Worker \ {p} PROVE Kept(q)
  <2>1. Locks(p, w[p].a, w[p].u)
    BY DEF UrWrite, At, Locks, Holds, Holding
  <2>2. ~Locks(q, w[p].a, w[p].u)
    BY <1>1, <2>1 DEF IInv, Apart
  <2>3. \A a \in Account, u \in User :
          ~(a = w[p].a /\ u = w[p].u) => role'[a][u] = role[a][u]
    BY <1>1, <1>2 DEF IInv, TxTypeOK, TypeOK
  <2> QED
    BY <1>2, <2>2, <2>3, RoleWriteIsKept
<1> QED
  BY <1>2, <1>3, <1>4, CommitIsSound

-----------------------------------------------------------------------------
(* Removing a member.                                                      *)

LEMMA RmPeekIsSound ==
  ASSUME IInv, NEW p \in Worker, NEW a \in Account, NEW u \in User,
         NEW t \in User \cup {None}, RmPeek(p, a, u, t)
  PROVE  IInv'
<1> DEFINE seen == IF t = None THEN None ELSE role[a][t]
           rec == [Idle EXCEPT !.pc = "rm_lock", !.a = a, !.u = u, !.t = t, !.seen = seen]
<1>0. seen \in Role \cup {None}
  BY DEF IInv, TxTypeOK, TypeOK
<1>1. Put(p, rec) /\ UNCHANGED tables
  BY DEF RmPeek
<1> HIDE DEF seen
<1>2. rec \in Requests
  BY <1>0, IdleIsRequest, AllPcs DEF Requests
<1>3. /\ rec.pc = "rm_lock" /\ rec.a = a /\ rec.u = u /\ rec.t = t
      /\ rec.moved = {} /\ rec.added = {} /\ rec.gone = <<>>
  BY DEF Idle
<1> HIDE DEF rec
<1>4. w'[p] = rec
  BY <1>1, <1>2, PutKeepsTypes DEF Put, IInv, TxTypeOK
<1>5. Shaped(p)'
  BY <1>3, <1>4 DEF Shaped, At, In, Ur, Rm, Iv, Su
<1> QED
  BY <1>1, <1>2, <1>3, <1>5, BareStepIsSound DEF Holding

LEMMA RmLockIsSound ==
  ASSUME IInv, NEW p \in Worker, RmLock(p)
  PROVE  IInv'
<1> DEFINE current == role[w[p].a][w[p].u]
           leaving == IF w[p].t = w[p].u THEN w[p].seen ELSE current
           next == IF leaving = "account-admin" THEN "rm_guard" ELSE "rm_assign"
           rec == [w[p] EXCEPT !.pc = next]
<1>1. w[p] \in Requests /\ Good(p) /\ At(p, "rm_lock") /\ UNCHANGED tables
  BY DEF IInv, TxTypeOK, RmLock
<1>2. CASE current = None
  BY <1>1, <1>2, FinishIsSound DEF RmLock
<1>3. CASE current # None
  <2>1. w[p].a \in Account /\ w[p].u \in User /\ w[p].t \in User \cup {None}
    BY <1>1 DEF Good, Shaped, At, In, Rm
  <2>2. Put(p, rec) /\ Free(p, w[p].a, w[p].u)
    BY <1>3 DEF RmLock, Goto, Put, IInv, TxTypeOK
  <2>3. /\ next \in {"rm_guard", "rm_assign"}
        /\ next = "rm_assign" =>
             \/ w[p].t = w[p].u /\ w[p].seen # "account-admin"
             \/ w[p].t # w[p].u /\ current # "account-admin"
    OBVIOUS
  <2> HIDE DEF next
  <2>4. /\ rec.pc = next /\ rec.seen = w[p].seen
        /\ rec.a = w[p].a /\ rec.u = w[p].u /\ rec.r = w[p].r
        /\ rec.t = w[p].t /\ rec.moved = w[p].moved /\ rec.added = w[p].added
        /\ rec.gone = w[p].gone /\ rec.refused = w[p].refused
    BY <1>1 DEF Requests
  <2>5. rec \in Requests
    BY <1>1, <2>3 DEF Requests, Pcs
  <2> HIDE DEF rec
  <2>6. w'[p] = rec
    BY <2>2, <2>5, PutKeepsTypes DEF Put, IInv, TxTypeOK
  <2>7. w[p].moved = {} /\ w[p].added = {}
    BY <1>1 DEF Good, Shaped, At, In
  <2>8. AddedBy(p)' = {} /\ AddedBy(p) = {}
    BY <2>4, <2>6, <2>7 DEF AddedBy
  <2>9. Shaped(p)'
    BY <2>1, <2>3, <2>4, <2>6, <2>7 DEF Shaped, At, In, Ur, Rm, Iv, Su
  <2>10. HeldLives(p)' /\ AddedLives(p)' /\ MovedLives(p)'
    BY <1>1, <1>3, <2>4, <2>6, <2>7, <2>8 DEF HeldLives, AddedLives, MovedLives, In, tables
  <2>11. Cleared(p)'
    BY <1>1, <2>3, <2>4, <2>6 DEF Cleared, At, In, tables
  <2>12. Accounted(p)'
    BY <1>1, <2>4, <2>6, <2>8 DEF Good, Accounted
  <2>13. \A a \in Account, u \in User : Locks(p, a, u)' => Free(p, a, u)
    BY <2>2, <2>4, <2>6, <2>8 DEF Locks, Holds
  <2> QED
    BY <1>1, <2>2, <2>5, <2>9, <2>10, <2>11, <2>12, <2>13, QuietStepIsSound DEF Good
<1> QED
  BY <1>2, <1>3

LEMMA RmAssignIsSound ==
  ASSUME IInv, NEW p \in Worker, RmAssign(p)
  PROVE  IInv'
<1> DEFINE moving == IF w[p].t = None THEN {} ELSE OwnedIn(w[p].a, w[p].u)
           rec == [w[p] EXCEPT !.moved = moving, !.pc = "rm_commit"]
<1>1. w[p] \in Requests /\ Good(p) /\ At(p, "rm_assign") /\ UNCHANGED tables
  BY DEF IInv, TxTypeOK, RmAssign
<1>2. CASE moving # {} /\ w[p].t \notin users
  BY <1>1, <1>2, FinishIsSound DEF RmAssign
<1>3. CASE ~(moving # {} /\ w[p].t \notin users)
  <2>1. w[p].a \in Account /\ w[p].u \in User /\ w[p].t \in User \cup {None}
    BY <1>1 DEF Good, Shaped, At, In, Rm
  <2>2. Put(p, rec)
    BY <1>3 DEF RmAssign
  <2>3. /\ moving \in SUBSET Row /\ \A r \in moving : home[r] # None
        /\ moving # {} => w[p].t \in User
    BY <2>1, NoneIsFresh DEF OwnedIn
  <2> HIDE DEF moving
  <2>4. /\ rec.pc = "rm_commit" /\ rec.seen = w[p].seen /\ rec.relied = w[p].relied
        /\ rec.a = w[p].a /\ rec.u = w[p].u /\ rec.r = w[p].r
        /\ rec.t = w[p].t /\ rec.moved = moving /\ rec.added = w[p].added
        /\ rec.gone = w[p].gone /\ rec.refused = w[p].refused
    BY <1>1 DEF Requests
  <2>5. rec \in Requests
    BY <1>1, <2>3 DEF Requests, Pcs
  <2> HIDE DEF rec
  <2>6. w'[p] = rec
    BY <2>2, <2>5, PutKeepsTypes DEF Put, IInv, TxTypeOK
  <2>7. w[p].added = {}
    BY <1>1 DEF Good, Shaped, At, In
  <2>8. AddedBy(p)' = {} /\ AddedBy(p) = {}
    BY <2>4, <2>6, <2>7 DEF AddedBy
  <2>9. Shaped(p)'
    BY <2>1, <2>3, <2>4, <2>6, <2>7 DEF Shaped, At, In, Ur, Rm, Iv, Su
  <2>10. HeldLives(p)' /\ AddedLives(p)'
    BY <1>1, <2>4, <2>6, <2>8 DEF Good, HeldLives, AddedLives, At, In, Holding, tables
  <2>11. MovedLives(p)'
    BY <1>1, <1>3, <2>3, <2>4, <2>6 DEF MovedLives, tables
  <2>12. Cleared(p)'
    BY <1>1, <2>4, <2>6 DEF Good, Cleared, At, In, tables
  <2>13. Accounted(p)'
    BY <1>1, <2>4, <2>6, <2>8 DEF Good, Accounted
  <2>14. \A a \in Account, u \in User : Locks(p, a, u)' => Locks(p, a, u)
    BY <1>1, <2>4, <2>6, <2>8 DEF Locks, Holds, At, Holding
  <2> QED
    BY <1>1, <2>2, <2>5, <2>9, <2>10, <2>11, <2>12, <2>13, <2>14, OwnLocksAreFree,
       QuietStepIsSound
    DEF Good
<1> QED
  BY <1>2, <1>3

LEMMA RmCommitIsSound ==
  ASSUME IInv, NEW p \in Worker, RmCommit(p)
  PROVE  IInv'
<1> DEFINE a == w[p].a  u == w[p].u  t == w[p].t
<1>1. /\ Good(p) /\ At(p, "rm_commit") /\ Finish(p) /\ CanFlushRm(p)
      /\ UNCHANGED <<users, disabled, lastActive, accounts, pending, home>>
  BY DEF IInv, RmCommit, identity
<1>2. CASE UNCHANGED <<role, owner>>
  BY <1>1, <1>2, FinishIsSound DEF tables
<1>3. CASE /\ Promotes(p) => role[a][t] # None
           /\ role' = [role EXCEPT ![a] = [v \in User |->
                CASE v = u                 -> None
                  [] v = t /\ v # u /\ Promotes(p) -> "contributor"
                  [] OTHER                    -> role[a][v]]]
           /\ owner' = [r \in Row |-> IF r \in w[p].moved THEN t ELSE owner[r]]
  <2>1. /\ a \in Account /\ u \in User /\ role[a][u] # None
        /\ w[p].moved # {} => t \in users
        /\ \A r \in w[p].moved : home[r] # None
    BY <1>1 DEF Good, Shaped, HeldLives, MovedLives, At, In, Rm, Holding
  <2>2. Promotes(p) => t \in User
    BY <2>1 DEF Promotes, IInv, TxTypeOK, TypeOK
  <2>3. /\ \A b \in Account, v \in User : b # a \/ v \notin {u, t} => role'[b][v] = role[b][v]
        /\ role'[a][u] = None
        /\ t \in User \ {u} =>
             role'[a][t] = IF Promotes(p) THEN "contributor" ELSE role[a][t]
    BY <1>3, <2>1 DEF IInv, TxTypeOK, TypeOK
  <2>4. role' \in [Account -> [User -> Role \cup {None}]]
    BY <1>3, <2>1 DEF IInv, TxTypeOK, TypeOK, Role
  <2>5. owner' \in [Row -> User \cup {None}]
    BY <1>3, <2>1 DEF IInv, TxTypeOK, TypeOK
  <2> HIDE DEF a, u, t
  <2>6. TypeOK'
    BY <1>1, <2>4, <2>5 DEF IInv, TxTypeOK, TypeOK
  <2>7. \A b \in Account, v \in User : role'[b][v] # None => role[b][v] # None
    BY <1>3, <2>1, <2>2, <2>3, NoneIsFresh DEF Role
  <2>8. RefIntegrity'
    BY <1>1, <1>3, <2>1, <2>7 DEF IInv, TxTypeOK, TypeOK, RefIntegrity
  <2>9. ASSUME NEW q \in Worker \ {p} PROVE Kept(q)
    <3>1. Locks(p, a, u)
      BY <1>1 DEF At, Locks, Holds, Holding, a, u
    <3>2. ~Locks(q, a, u)
      BY <2>1, <3>1 DEF IInv, Apart
    <3>3. Promotes(p) => ~Locks(q, a, t)
      BY <1>1 DEF CanFlushRm, Free, a, t
    <3>4. \A b \in Account, v \in User : Locks(q, b, v) => role'[b][v] = role[b][v]
      BY <2>3, <3>2, <3>3
    <3> QED
      BY <1>1, <3>4, RoleWriteIsKept
  <2> QED
    BY <1>1, <2>6, <2>8, <2>9, CommitIsSound
<1> QED
  BY <1>2, <1>3 DEF RmCommit

-----------------------------------------------------------------------------
(* Inviting a member; deleting an account.                                 *)

LEMMA IvPeekIsSound ==
  ASSUME IInv, NEW p \in Worker, NEW a \in Account, NEW u \in User, NEW r \in Role,
         IvPeek(p, a, u, r)
  PROVE  IInv'
<1> DEFINE next == IF u \in users THEN "iv_add" ELSE "iv_pend"
           rec == [Idle EXCEPT !.a = a, !.u = u, !.r = r, !.pc = next]
<1>0. next \in {"iv_add", "iv_pend"}
  OBVIOUS
<1>1. Put(p, rec) /\ UNCHANGED tables
  BY DEF IvPeek
<1> HIDE DEF next
<1>2. rec \in Requests
  BY <1>0, IdleIsRequest, AllPcs DEF Requests
<1>3. /\ rec.pc = next /\ rec.a = a /\ rec.u = u /\ rec.r = r
      /\ rec.moved = {} /\ rec.added = {} /\ rec.gone = <<>>
  BY DEF Idle
<1> HIDE DEF rec
<1>4. w'[p] = rec
  BY <1>1, <1>2, PutKeepsTypes DEF Put, IInv, TxTypeOK
<1>5. Shaped(p)'
  BY <1>0, <1>3, <1>4 DEF Shaped, At, In, Ur, Rm, Iv, Su
<1> QED
  BY <1>0, <1>1, <1>2, <1>3, <1>5, BareStepIsSound DEF Holding

LEMMA IvAddIsSound ==
  ASSUME IInv, NEW p \in Worker, IvAdd(p)
  PROVE  IInv'
<1>1. /\ w[p].a \in Account /\ w[p].u \in User /\ w[p].r \in Role /\ Finish(p)
      /\ UNCHANGED <<users, disabled, lastActive, accounts, pending, home, owner>>
  BY DEF IInv, Good, Shaped, IvAdd, At, In, Iv, identity, catalog
<1>2. CASE UNCHANGED role
  BY <1>1, <1>2, FinishIsSound DEF tables
<1>3. CASE /\ w[p].a \in accounts /\ w[p].u \in users
           /\ role' = [role EXCEPT ![w[p].a][w[p].u] = w[p].r]
  <2>1. TypeOK' /\ RefIntegrity'
    BY <1>1, <1>3, NoneIsFresh DEF IInv, TxTypeOK, TypeOK, RefIntegrity
  <2>2. ASSUME NEW q \in Worker \ {p} PROVE Kept(q)
    <3>1. ~Locks(q, w[p].a, w[p].u)
      BY DEF IvAdd, Free
    <3>2. \A a \in Account, u \in User :
            ~(a = w[p].a /\ u = w[p].u) => role'[a][u] = role[a][u]
      BY <1>1, <1>3 DEF IInv, TxTypeOK, TypeOK
    <3> QED
      BY <1>1, <3>1, <3>2, RoleWriteIsKept
  <2> QED
    BY <1>1, <2>1, <2>2, CommitIsSound
<1> QED
  BY <1>2, <1>3 DEF IvAdd

LEMMA IvPendIsSound ==
  ASSUME IInv, NEW p \in Worker, IvPend(p)
  PROVE  IInv'
<1>1. /\ w[p].a \in Account /\ w[p].u \in User /\ w[p].r \in Role /\ Finish(p)
      /\ UNCHANGED <<users, disabled, lastActive, accounts, role, home, owner>>
  BY DEF IInv, Good, Shaped, IvPend, At, In, Iv, identity, catalog
<1>2. CASE UNCHANGED pending
  BY <1>1, <1>2, FinishIsSound DEF tables
<1>3. CASE /\ w[p].a \in accounts
           /\ pending' = [pending EXCEPT ![w[p].a][w[p].u] = w[p].r]
  <2>1. TypeOK' /\ RefIntegrity'
    BY <1>1, <1>3, NoneIsFresh DEF IInv, TxTypeOK, TypeOK, RefIntegrity
  <2> QED
    BY <1>1, <2>1, RoleWriteIsKept, CommitIsSound
<1> QED
  BY <1>2, <1>3 DEF IvPend

LEMMA DaCheckIsSound ==
  ASSUME IInv, NEW p \in Worker, NEW a \in Account, DaCheck(p, a)
  PROVE  IInv'
<1> DEFINE members == Cardinality({u \in User : role[a][u] # None})
           rec == [Idle EXCEPT !.pc = "da_delete", !.a = a, !.t = members]
<1>0. members \in Nat
  BY UsersAreFinite, FS_Subset, FS_CardinalityType
<1>1. Put(p, rec) /\ UNCHANGED tables
  BY DEF DaCheck
<1> HIDE DEF members
<1>2. rec \in Requests
  BY <1>0, IdleIsRequest, AllPcs DEF Requests
<1>3. /\ rec.pc = "da_delete" /\ rec.a = a
      /\ rec.moved = {} /\ rec.added = {} /\ rec.gone = <<>>
  BY DEF Idle
<1> HIDE DEF rec
<1>4. w'[p] = rec
  BY <1>1, <1>2, PutKeepsTypes DEF Put, IInv, TxTypeOK
<1>5. Shaped(p)'
  BY <1>3, <1>4 DEF Shaped, At, In, Ur, Rm, Iv, Su
<1> QED
  BY <1>1, <1>2, <1>3, <1>5, BareStepIsSound DEF Holding

LEMMA DaDeleteIsSound ==
  ASSUME IInv, NEW p \in Worker, DaDelete(p)
  PROVE  IInv'
<1> DEFINE a == w[p].a
<1>1. /\ a \in Account /\ Finish(p) /\ DaCanDelete(p, a)
      /\ UNCHANGED <<users, disabled, home, owner>>
  BY DEF IInv, Good, Shaped, DaDelete, catalog
<1>2. CASE UNCHANGED <<accounts, role, pending, lastActive>>
  BY <1>1, <1>2, FinishIsSound DEF tables
<1>3. CASE /\ \A r \in Row : home[r] # a
           /\ accounts' = accounts \ {a}
           /\ role' = [role EXCEPT ![a] = Nobody]
           /\ pending' = [pending EXCEPT ![a] = Nobody]
           /\ lastActive' = [u \in User |-> IF lastActive[u] = a THEN None ELSE lastActive[u]]
  <2> HIDE DEF a
  <2>1. TypeOK' /\ RefIntegrity'
    BY <1>1, <1>3, NoneIsFresh DEF IInv, TxTypeOK, TypeOK, RefIntegrity, Nobody
  <2>2. ASSUME NEW q \in Worker \ {p} PROVE Kept(q)
    <3>1. a \notin AddedBy(q) /\ \A u \in User : ~Locks(q, a, u)
      BY <1>1 DEF DaCanDelete, AccountRefd, Locks
    <3>2. \A b \in Account, u \in User : Locks(q, b, u) => role'[b][u] = role[b][u]
      BY <1>1, <1>3, <3>1 DEF IInv, TxTypeOK, TypeOK
    <3>3. Good(q)
      BY DEF IInv
    <3> QED
      BY <1>1, <1>3, <3>1, <3>2, <3>3 DEF Good, AddedLives, MovedLives, Kept
  <2> QED
    BY <1>1, <2>1, <2>2, CommitIsSound
<1> QED
  BY <1>2, <1>3 DEF DaDelete

-----------------------------------------------------------------------------
(* Signing up.                                                             *)

LEMMA SuCreateIsSound ==
  ASSUME IInv, NEW p \in Worker, NEW u \in User, SuCreate(p, u)
  PROVE  IInv'
<1> DEFINE rec == [Idle EXCEPT !.pc = "su_read", !.u = u]
<1>1. Put(p, rec) /\ CreateUser(u)
  BY DEF SuCreate, CreateUser
<1>2. rec \in Requests
  BY IdleIsRequest, AllPcs DEF Requests
<1>3. /\ rec.pc = "su_read" /\ rec.u = u
      /\ rec.moved = {} /\ rec.added = {} /\ rec.gone = <<>>
  BY DEF Idle
<1> HIDE DEF rec
<1>4. /\ w' \in [Worker -> Requests] /\ w'[p] = rec
      /\ \A q \in Worker \ {p} : w'[q] = w[q]
  BY <1>1, <1>2, PutKeepsTypes DEF Put, IInv, TxTypeOK
<1>5. Next
  BY <1>1 DEF Next
<1>6. TxTypeOK' /\ RefIntegrity'
  BY <1>4, <1>5, NextKeepsTypes, NextKeepsReferences DEF IInv, TxTypeOK
<1>7. Shaped(p)'
  BY <1>3, <1>4 DEF Shaped, At, In, Ur, Rm, Iv, Su
<1>8. Good(p)' /\ \A b \in Account, v \in User : ~Locks(p, b, v)'
  BY <1>3, <1>4, <1>7, BareIsGood DEF Holding
<1>9. \A q \in Worker : Kept(q)
  BY <1>1 DEF CreateUser, membership, catalog, IInv, Good, AddedLives, MovedLives, Kept
<1> QED
  BY <1>4, <1>6, <1>8, <1>9, StepIsSound

LEMMA SuReadIsSound ==
  ASSUME IInv, NEW p \in Worker, SuRead(p)
  PROVE  IInv'
<1> DEFINE u == w[p].u
           found == {<<a, pending[a][u]>> : a \in {b \in Account : pending[b][u] # None}}
           rec == [w[p] EXCEPT !.todo = found, !.pc = "su_take"]
<1>1. w[p] \in Requests /\ Good(p) /\ At(p, "su_read") /\ UNCHANGED tables
  BY DEF IInv, TxTypeOK, SuRead
<1>2. CASE found = {}
  BY <1>1, <1>2, FinishIsSound DEF SuRead
<1>3. CASE found # {}
  <2>1. u \in User
    BY <1>1 DEF Good, Shaped, At, In, Su
  <2>2. Put(p, rec)
    BY <1>3 DEF SuRead
  <2>3. found \in SUBSET (Account \X Role)
    <3>1. \A a \in Account : pending[a][u] \in Role \cup {None}
      BY <2>1 DEF IInv, TxTypeOK, TypeOK
    <3> QED
      BY <3>1
  <2> HIDE DEF found
  <2>4. rec \in Requests
    BY <1>1, <2>3, AllPcs DEF Requests
  <2>5. /\ rec.pc = "su_take" /\ rec.u = u /\ rec.moved = w[p].moved
        /\ rec.added = w[p].added /\ rec.gone = w[p].gone
    BY <1>1 DEF Requests
  <2> HIDE DEF rec
  <2>6. w'[p] = rec
    BY <2>2, <2>4, PutKeepsTypes DEF Put, IInv, TxTypeOK
  <2>7. w[p].moved = {} /\ w[p].added = {} /\ w[p].gone = <<>>
    BY <1>1 DEF Good, Shaped, At, In
  <2>8. Shaped(p)'
    BY <2>1, <2>5, <2>6, <2>7 DEF Shaped, At, In, Ur, Rm, Iv, Su
  <2> QED
    BY <1>1, <2>2, <2>4, <2>5, <2>7, <2>8, BareStepIsSound DEF Holding
<1> QED
  BY <1>2, <1>3

LEMMA SuTakeIsSound ==
  ASSUME IInv, NEW p \in Worker, NEW i \in w[p].todo, SuTake(p, i)
  PROVE  IInv'
<1> DEFINE u == w[p].u  a == i[1]
           next == IF w[p].todo = {i} THEN "su_commit" ELSE "su_take"
<1>1. /\ w[p] \in Requests /\ Good(p) /\ At(p, "su_take") /\ UNCHANGED tables
      /\ Free(p, a, u)
  BY DEF IInv, TxTypeOK, SuTake
<1>2. /\ i \in Account \X Role /\ a \in Account /\ u \in User
      /\ w[p].gone \in Seq(Account) /\ w[p].told \in Seq(Account)
      /\ w[p].added \in SUBSET (Account \X Role) /\ w[p].expired \in BOOLEAN
  BY <1>1 DEF Good, Shaped, At, In, Su, Requests
<1>3. next \in {"su_commit", "su_take"}
  OBVIOUS
<1>4. w[p].moved = {}
  BY <1>1 DEF Good, Shaped, At
<1>5. CASE Finish(p)
  BY <1>1, <1>5, FinishIsSound
<1>6. CASE /\ a \in accounts /\ u \in users /\ role[a][u] = None
           /\ Put(p, Round(w[p], i, w[p].added \cup {i}, Append(w[p].gone, a),
                           Append(w[p].told, a), w[p].expired))
  <2> DEFINE rec == Round(w[p], i, w[p].added \cup {i}, Append(w[p].gone, a),
                          Append(w[p].told, a), w[p].expired)
  <2>1. /\ w[p].added \cup {i} \in SUBSET (Account \X Role)
        /\ Append(w[p].gone, a) \in Seq(Account) /\ Append(w[p].told, a) \in Seq(Account)
        /\ w[p].todo \ {i} \in SUBSET (Account \X Role)
    BY <1>1, <1>2 DEF Requests
  <2> DEFINE added == w[p].added \cup {i}  gone == Append(w[p].gone, a)
             told == Append(w[p].told, a)  todo == w[p].todo \ {i}
  <2>2. rec = [w[p] EXCEPT !.todo = todo, !.added = added, !.gone = gone, !.told = told,
                           !.expired = w[p].expired, !.pc = next]
    BY DEF Round
  <2>3. Range(gone) = Range(w[p].gone) \cup {a}
    BY <1>2, RangeOfAppend
  <2> HIDE DEF added, gone, told, todo, next, rec
  <2>4. rec \in Requests
    BY <1>1, <1>2, <1>3, <2>1, <2>2, AllPcs DEF Requests, added, gone, told, todo
  <2>5. /\ rec.pc = next /\ rec.u = u /\ rec.moved = {} /\ rec.added = added
        /\ rec.gone = gone /\ rec.refused = w[p].refused
    BY <1>1, <1>4, <2>2 DEF Requests
  <2>6. w'[p] = rec
    BY <1>6, <2>4, PutKeepsTypes DEF Put, IInv, TxTypeOK, rec
  <2>7. AddedBy(p)' = AddedBy(p) \cup {a}
    BY <2>5, <2>6 DEF AddedBy, added
  <2>8. Shaped(p)'
    BY <1>2, <1>3, <2>5, <2>6 DEF Shaped, At, In, Ur, Rm, Iv, Su
  <2>9. HeldLives(p)' /\ MovedLives(p)' /\ Cleared(p)'
    BY <1>3, <2>5, <2>6 DEF HeldLives, MovedLives, Cleared, At, In, Holding
  <2>10. AddedLives(p)'
    BY <1>1, <1>6, <2>5, <2>6, <2>7 DEF Good, AddedLives, tables
  <2>11. Accounted(p)'
    BY <1>1, <2>3, <2>5, <2>6, <2>7 DEF Good, Accounted
  <2>12. \A b \in Account, v \in User : Locks(p, b, v)' => Free(p, b, v)
    <3> SUFFICES ASSUME NEW b \in Account, NEW v \in User, Locks(p, b, v)'
                 PROVE  Free(p, b, v)
      OBVIOUS
    <3>1. v = u /\ b \in AddedBy(p) \cup {a}
      BY <1>3, <2>5, <2>6, <2>7 DEF Locks, Holds, Holding
    <3>2. CASE b \in AddedBy(p)
      BY <3>1, <3>2, OwnLocksAreFree DEF Locks
    <3> QED
      BY <1>1, <3>1, <3>2
  <2> QED
    BY <1>1, <1>6, <2>4, <2>8, <2>9, <2>10, <2>11, <2>12, QuietStepIsSound DEF Good, rec
<1>7. CASE Put(p, AfterRollback(w[p], i))
  <2> DEFINE rec == AfterRollback(w[p], i)  todo == w[p].todo \ {i}
  <2>1. rec = [w[p] EXCEPT !.todo = todo, !.added = {}, !.gone = <<a>>, !.told = w[p].told,
                           !.expired = TRUE, !.pc = next, !.refused = a]
    BY DEF AfterRollback, Refuse, Round
  <2>2. <<a>> \in Seq(Account) /\ todo \in SUBSET (Account \X Role)
    BY <1>1, <1>2 DEF Requests
  <2> HIDE DEF rec, next, todo
  <2>3. rec \in Requests
    BY <1>1, <1>2, <1>3, <2>1, <2>2, AllPcs DEF Requests
  <2>4. /\ rec.pc = next /\ rec.u = u /\ rec.moved = {} /\ rec.added = {}
        /\ rec.gone = <<a>> /\ rec.refused = a
    BY <1>1, <1>4, <2>1 DEF Requests
  <2>5. w'[p] = rec
    BY <1>7, <2>3, PutKeepsTypes DEF Put, IInv, TxTypeOK, rec
  <2>6. AddedBy(p)' = {}
    BY <2>4, <2>5 DEF AddedBy
  <2>7. Shaped(p)'
    BY <1>2, <1>3, <2>4, <2>5 DEF Shaped, At, In, Ur, Rm, Iv, Su
  <2>8. HeldLives(p)' /\ MovedLives(p)' /\ Cleared(p)' /\ AddedLives(p)'
    BY <1>3, <2>4, <2>5, <2>6
    DEF HeldLives, MovedLives, Cleared, AddedLives, At, In, Holding
  <2>9. Accounted(p)'
    BY <2>4, <2>5, <2>6, RangeOfOne DEF Accounted
  <2>10. \A b \in Account, v \in User : ~Locks(p, b, v)'
    BY <1>3, <2>4, <2>5, <2>6 DEF Locks, Holds, Holding
  <2> QED
    BY <1>1, <1>7, <2>3, <2>7, <2>8, <2>9, <2>10, QuietStepIsSound DEF Good, rec
<1> QED
  BY <1>5, <1>6, <1>7 DEF SuTake

LEMMA SuCommitIsSound ==
  ASSUME IInv, NEW p \in Worker, SuCommit(p)
  PROVE  IInv'
<1> DEFINE u == w[p].u
           granted(a) == (CHOOSE i \in w[p].added : i[1] = a)[2]
           rec == [w[p] EXCEPT !.pc = "su_stamp", !.todo = w[p].added, !.added = {},
                               !.gone = <<>>]
<1>1. /\ w[p] \in Requests /\ Good(p) /\ At(p, "su_commit")
      /\ UNCHANGED <<users, disabled, lastActive, accounts, home, owner>>
  BY DEF IInv, TxTypeOK, SuCommit, identity, catalog
<1>2. /\ u \in User /\ w[p].moved = {} /\ w[p].added \in SUBSET (Account \X Role)
      /\ AddedBy(p) \subseteq Account
      /\ \A a \in AddedBy(p) : a \in accounts /\ u \in users
  BY <1>1 DEF Good, Shaped, AddedLives, At, In, Su, Requests, AddedBy
<1>3. CASE Finish(p) /\ UNCHANGED membership
  BY <1>1, <1>3, FinishIsSound DEF tables, membership
<1>4. CASE /\ role' = [a \in Account |->
                IF a \in AddedBy(p) THEN [role[a] EXCEPT ![u] = granted(a)] ELSE role[a]]
           /\ pending' = [a \in Account |-> IF a \in Range(w[p].gone)
                THEN [pending[a] EXCEPT ![u] = None] ELSE pending[a]]
           /\ Finish(p) \/ Put(p, rec)
  <2>1. \A a \in AddedBy(p) : granted(a) \in Role
    BY <1>2 DEF AddedBy
  <2> HIDE DEF granted
  <2>2. TypeOK'
    BY <1>1, <1>2, <1>4, <2>1 DEF IInv, TxTypeOK, TypeOK
  <2>3. \A a \in Account, v \in User :
          /\ ~(v = u /\ a \in AddedBy(p)) => role'[a][v] = role[a][v]
          /\ pending'[a][v] # None => pending[a][v] # None
    BY <1>2, <1>4 DEF IInv, TxTypeOK, TypeOK
  <2>4. RefIntegrity'
    BY <1>1, <1>2, <2>3 DEF IInv, TxTypeOK, TypeOK, RefIntegrity
  <2>5. ASSUME NEW q \in Worker \ {p} PROVE Kept(q)
    <3>1. \A a \in AddedBy(p) : Locks(p, a, u)
      BY DEF Locks
    <3>2. \A a \in AddedBy(p) : ~Locks(q, a, u)
      BY <1>2, <3>1 DEF IInv, Apart
    <3> QED
      BY <1>1, <2>3, <3>2, RoleWriteIsKept
  <2>6. CASE Finish(p)
    BY <2>2, <2>4, <2>5, <2>6, CommitIsSound
  <2>7. CASE Put(p, rec)
    <3>1. rec \in Requests
      <4>1. w[p].added \in SUBSET (Account \X Role) /\ <<>> \in Seq(Account)
        BY <1>2
      <4> QED
        BY <1>1, <4>1, AllPcs DEF Requests
    <3>2. rec.pc = "su_stamp" /\ rec.u = u /\ rec.moved = {} /\ rec.added = {} /\ rec.gone = <<>>
      BY <1>1, <1>2 DEF Requests
    <3> HIDE DEF rec
    <3>3. /\ w' \in [Worker -> Requests] /\ w'[p] = rec
          /\ \A q \in Worker \ {p} : w'[q] = w[q]
      BY <2>7, <3>1, PutKeepsTypes DEF Put, IInv, TxTypeOK
    <3>4. Shaped(p)'
      BY <1>2, <3>2, <3>3 DEF Shaped, At, In, Ur, Rm, Iv, Su
    <3>5. Good(p)' /\ \A a \in Account, v \in User : ~Locks(p, a, v)'
      BY <3>2, <3>3, <3>4, BareIsGood DEF Holding
    <3>6. TxTypeOK'
      BY <2>2, <3>3 DEF TxTypeOK
    <3> QED
      BY <2>4, <2>5, <3>3, <3>5, <3>6, StepIsSound
  <2> QED
    BY <1>4, <2>6, <2>7
<1> QED
  BY <1>3, <1>4 DEF SuCommit

LEMMA SuStampIsSound ==
  ASSUME IInv, NEW p \in Worker, SuStamp(p)
  PROVE  IInv'
<1>1. /\ Finish(p) /\ UNCHANGED <<users, disabled, accounts, role, pending, home, owner>>
      /\ w[p].u \in User
  BY DEF IInv, Good, Shaped, SuStamp, At, In, Su, membership, catalog
<1>2. CASE UNCHANGED lastActive
  BY <1>1, <1>2, FinishIsSound DEF tables
<1>3. CASE /\ w[p].u \in users /\ Head(w[p].told) \in accounts
           /\ lastActive' = [lastActive EXCEPT ![w[p].u] = Head(w[p].told)]
  <2>1. TypeOK' /\ RefIntegrity'
    BY <1>1, <1>3, NoneIsFresh DEF IInv, TxTypeOK, TypeOK, RefIntegrity
  <2> QED
    BY <1>1, <2>1, RoleWriteIsKept, CommitIsSound
<1> QED
  BY <1>2, <1>3 DEF SuStamp

-----------------------------------------------------------------------------
(* Requests of one transaction.                                            *)

LEMMA AtomicStepIsSound ==
  ASSUME IInv, Next, UNCHANGED w, \A q \in Worker : Kept(q)
  PROVE  IInv'
<1>1. TxTypeOK' /\ RefIntegrity'
  BY NextKeepsTypes, NextKeepsReferences DEF IInv, TxTypeOK
<1>2. \A q \in Worker : Good(q)'
  BY KeptIsGood
<1>3. Apart'
  BY DEF IInv, Apart, Locks, Holds, AddedBy
<1> QED
  BY <1>1, <1>2, <1>3 DEF IInv

LEMMA AddingIsSound ==
  ASSUME IInv, Next, UNCHANGED w, UNCHANGED role, users \subseteq users',
         accounts \subseteq accounts',
         \A q \in Worker : \A r \in w[q].moved : home[r] # None => home'[r] # None
  PROVE  IInv'
<1>1. \A q \in Worker : Kept(q)
  BY DEF IInv, Good, AddedLives, MovedLives, Kept
<1> QED
  BY <1>1, AtomicStepIsSound

LEMMA AdminDeleteUserIsSound ==
  ASSUME IInv, NEW u \in User, AdminDeleteUser(u)
  PROVE  IInv'
<1>1. /\ DeleteUser(u) /\ UNCHANGED w /\ Next
      /\ ~UserRefd(u) /\ \A q \in Worker, a \in Account : ~Locks(q, a, u)
  BY DEF AdminDeleteUser, Atomic, Next
<1>2. ASSUME NEW q \in Worker PROVE Kept(q)
  <2>1. \A a \in Account, v \in User : v # u => role'[a][v] = role[a][v]
    BY <1>1 DEF DeleteUser, IInv, TxTypeOK, TypeOK
  <2>2. \A a \in Account, v \in User : Locks(q, a, v) => role'[a][v] = role[a][v]
    BY <1>1, <2>1
  <2>3. \A a \in AddedBy(q) : a \in accounts /\ w[q].u \in users /\ w[q].u # u
    BY <1>1 DEF IInv, Good, AddedLives, UserRefd, AddedBy
  <2>4. w[q].moved # {} => w[q].t \in users /\ w[q].t # u
    BY <1>1 DEF IInv, Good, MovedLives, UserRefd
  <2> QED
    BY <1>1, <2>2, <2>3, <2>4 DEF DeleteUser, Kept, IInv, Good, MovedLives
<1> QED
  BY <1>1, <1>2, AtomicStepIsSound

LEMMA NewAccountIsSound ==
  ASSUME IInv, NEW a \in Account, NEW u \in User, NewAccount(a, u)
  PROVE  IInv'
<1>1. CreateAccount(a, u) /\ UNCHANGED w /\ Next
  BY DEF NewAccount, Atomic, Next
<1>2. ASSUME NEW q \in Worker PROVE Kept(q)
  <2>1. \A v \in User : ~Locks(q, a, v)
    BY <1>1 DEF CreateAccount, Locks, Holds, IInv, Good, HeldLives, AddedLives, In,
                RefIntegrity
  <2>2. \A b \in Account, v \in User : Locks(q, b, v) => role'[b][v] = role[b][v]
    BY <1>1, <2>1 DEF CreateAccount, IInv, TxTypeOK, TypeOK
  <2> QED
    BY <1>1, <2>2 DEF CreateAccount, catalog, IInv, Good, AddedLives, MovedLives, Kept
<1> QED
  BY <1>1, <1>2, AtomicStepIsSound

\* The lifespan hook runs while no request is served.
LEMMA BootIsSound ==
  ASSUME IInv, Boot
  PROVE  IInv'
<1>1. Startup /\ UNCHANGED w /\ Next
  BY DEF Boot, Next
<1>2. ASSUME NEW q \in Worker PROVE Kept(q)
  <2>1. w[q] = Idle
    BY DEF Boot, IInv, Good, Shaped
  <2>2. AddedBy(q) = {} /\ w[q].moved = {} /\ w[q].pc \notin Holding
    BY <2>1, IdleHasNothing DEF AddedBy, Holding
  <2> QED
    BY <2>2 DEF Kept, Locks, Holds
<1> QED
  BY <1>1, <1>2, AtomicStepIsSound

LEMMA OneShotIsSound ==
  ASSUME IInv, OneShot
  PROVE  IInv'
<1> USE DEF Atomic, membership, catalog, identity
<1>1. CASE Boot
  BY <1>1, BootIsSound
<1>2. ASSUME NEW u \in User, AdminCreateUser(u) PROVE IInv'
  <2>1. CreateUser(u) /\ UNCHANGED w /\ Next
    BY <1>2 DEF AdminCreateUser, Next
  <2> QED
    BY <2>1, AddingIsSound DEF CreateUser
<1>3. ASSUME NEW u \in User, AdminDeleteUser(u) PROVE IInv'
  BY <1>3, AdminDeleteUserIsSound
<1>4. ASSUME NEW u \in User, NEW flag \in BOOLEAN, Moderate(u, flag) PROVE IInv'
  <2>1. SetDisabled(u, flag) /\ UNCHANGED w /\ Next
    BY <1>4 DEF Moderate, Next
  <2> QED
    BY <2>1, AddingIsSound DEF SetDisabled
<1>5. ASSUME NEW a \in Account, NEW u \in User, NewAccount(a, u) PROVE IInv'
  BY <1>5, NewAccountIsSound
<1>6. ASSUME NEW a \in Account, NEW u \in User, Revoke(a, u) PROVE IInv'
  <2>1. RevokeInvite(a, u) /\ UNCHANGED w /\ Next
    BY <1>6 DEF Revoke, Next
  <2> QED
    BY <2>1, AddingIsSound DEF RevokeInvite
<1>7. ASSUME NEW r \in Row, NEW a \in Account, NEW u \in User \cup {None}, RowAdded(r, a, u)
      PROVE IInv'
  <2>1. CreateRow(r, a, u) /\ UNCHANGED w /\ Next
    BY <1>7 DEF RowAdded, Next
  <2>2. \A s \in Row : home[s] # None => home'[s] # None
    BY <2>1, NoneIsFresh DEF CreateRow, IInv, TxTypeOK, TypeOK
  <2>3. \A q \in Worker : w[q].moved \subseteq Row
    BY DEF IInv, TxTypeOK, Requests
  <2> QED
    BY <2>1, <2>2, <2>3, AddingIsSound DEF CreateRow
<1>8. ASSUME NEW r \in Row, NEW a \in Account \cup {None}, NEW u \in User \cup {None},
             RowReplaced(r, a, u)
      PROVE IInv'
  <2>1. ReplaceRow(r, a, u) /\ UNCHANGED w /\ Next
    BY <1>8 DEF RowReplaced, Next
  <2>2. \A s \in Row : home[s] # None => home'[s] # None
    BY <2>1, NoneIsFresh DEF ReplaceRow, IInv, TxTypeOK, TypeOK
  <2>3. \A q \in Worker : w[q].moved \subseteq Row
    BY DEF IInv, TxTypeOK, Requests
  <2> QED
    BY <2>1, <2>2, <2>3, AddingIsSound DEF ReplaceRow
<1>9. ASSUME NEW r \in Row, NEW a \in Account, RowMoved(r, a) PROVE IInv'
  <2>1. MoveRow(r, a) /\ UNCHANGED w /\ Next
    BY <1>9 DEF RowMoved, Next
  <2>2. \A s \in Row : home[s] # None => home'[s] # None
    BY <2>1, NoneIsFresh DEF MoveRow, IInv, TxTypeOK, TypeOK
  <2>3. \A q \in Worker : w[q].moved \subseteq Row
    BY DEF IInv, TxTypeOK, Requests
  <2> QED
    BY <2>1, <2>2, <2>3, AddingIsSound DEF MoveRow
<1>10. ASSUME NEW r \in Row, RowDeleted(r) PROVE IInv'
  <2>1. DeleteRow(r) /\ UNCHANGED w /\ Next /\ RowFree(r)
    BY <1>10 DEF RowDeleted, Next
  <2>2. \A q \in Worker : \A s \in w[q].moved : home'[s] = home[s]
    BY <2>1 DEF DeleteRow, RowFree, IInv, TxTypeOK, TypeOK, Requests
  <2> QED
    BY <2>1, <2>2, AddingIsSound DEF DeleteRow
<1> QED
  BY <1>1, <1>2, <1>3, <1>4, <1>5, <1>6, <1>7, <1>8, <1>9, <1>10 DEF OneShot

-----------------------------------------------------------------------------
(* The inductive invariant, and what follows from it.                      *)

LEMMA InitIsSound == TxInit => IInv
<1> SUFFICES ASSUME TxInit PROVE IInv
  OBVIOUS
<1>1. TxTypeOK /\ RefIntegrity
  BY NoneIsFresh, IdleIsRequest DEF TxInit, Init, TxTypeOK, TypeOK, RefIntegrity, Nobody
<1>2. \A p \in Worker : w[p] = Idle
  BY DEF TxInit
<1>3. \A p \in Worker : AddedBy(p) = {} /\ w[p].pc \notin Holding
  BY <1>2, IdleHasNothing DEF AddedBy, Holding
<1>4. \A p \in Worker : Shaped(p)
  BY <1>2, IdleHasNothing DEF Shaped, At, In, Ur, Rm, Iv, Su
<1>5. \A p \in Worker : HeldLives(p) /\ AddedLives(p) /\ MovedLives(p) /\ Cleared(p)
  BY <1>2, <1>3, IdleHasNothing DEF HeldLives, AddedLives, MovedLives, Cleared, At, In
<1>6. \A p \in Worker : Accounted(p)
  BY <1>2, IdleHasNothing, RangeOfEmpty DEF Accounted
<1>7. Apart
  BY <1>3 DEF Apart, Locks, Holds
<1> QED
  BY <1>1, <1>4, <1>5, <1>6, <1>7 DEF IInv, Good

LEMMA NextIsSound == IInv /\ [TxNext]_txvars => IInv'
<1> SUFFICES ASSUME IInv, [TxNext]_txvars PROVE IInv'
  OBVIOUS
<1>1. ASSUME NEW p \in Worker, Arrive(p) PROVE IInv'
  BY <1>1, UrPeekIsSound, IvPeekIsSound, RmPeekIsSound, DaCheckIsSound, SuCreateIsSound
  DEF Arrive
<1>2. ASSUME NEW p \in Worker, Proceed(p) PROVE IInv'
  <2>1. CASE UrLock(p) \/ UrGuard(p) \/ UrWrite(p)
    BY <2>1, UrLockIsSound, GuardIsSound, UrWriteIsSound DEF UrGuard
  <2>2. CASE RmLock(p) \/ RmGuard(p) \/ RmAssign(p) \/ RmCommit(p)
    BY <2>2, RmLockIsSound, GuardIsSound, RmAssignIsSound, RmCommitIsSound DEF RmGuard
  <2>3. CASE DeadlockVictim(p)
    BY <2>3, FinishIsSound DEF DeadlockVictim
  <2>4. CASE IvAdd(p) \/ IvPend(p) \/ DaDelete(p)
    BY <2>4, IvAddIsSound, IvPendIsSound, DaDeleteIsSound
  <2>5. CASE SuRead(p) \/ (\E i \in w[p].todo : SuTake(p, i)) \/ SuCommit(p) \/ SuStamp(p)
    BY <2>5, SuReadIsSound, SuTakeIsSound, SuCommitIsSound, SuStampIsSound
  <2> QED
    BY <1>2, <2>1, <2>2, <2>3, <2>4, <2>5 DEF Proceed
<1>3. ASSUME NEW p \in Worker, Crash(p) PROVE IInv'
  BY <1>3, FinishIsSound DEF Crash
<1>4. CASE OneShot
  BY <1>4, OneShotIsSound
<1>5. CASE UNCHANGED txvars
  <2>1. UNCHANGED tables /\ UNCHANGED w
    BY <1>5 DEF txvars, tables
  <2>2. \A q \in Worker : Good(q)'
    BY <2>1, UnchangedIsKept, KeptIsGood
  <2>3. TxTypeOK' /\ RefIntegrity' /\ Apart'
    BY <2>1 DEF IInv, TxTypeOK, TypeOK, RefIntegrity, Apart, Locks, Holds, AddedBy, tables
  <2> QED
    BY <2>2, <2>3 DEF IInv
<1> QED
  BY <1>1, <1>2, <1>3, <1>4, <1>5 DEF TxNext

THEOREM AlwaysApart == TxSpec => []IInv
BY InitIsSound, NextIsSound, PTL DEF TxSpec

\* Rows and requests in flight are well typed, whatever overlaps.
THEOREM TransactionsAreTyped == TxSpec => []TxTypeOK
<1>1. IInv => TxTypeOK
  BY DEF IInv
<1> QED
  BY <1>1, AlwaysApart, PTL

\* No table refers to a row another transaction has deleted.
THEOREM NoDanglingCommit == TxSpec => []RefIntegrity
<1>1. IInv => RefIntegrity
  BY DEF IInv
<1> QED
  BY <1>1, AlwaysApart, PTL

\* From its lock to its commit, a request's membership row stays there.
THEOREM LocksProtect == TxSpec => []LockedRowLives
<1>1. IInv => LockedRowLives
  BY DEF IInv, Good, HeldLives, In, LockedRowLives
<1> QED
  BY <1>1, AlwaysApart, PTL

-----------------------------------------------------------------------------
(* Invitations.                                                            *)

\* The request that leaves su_commit is the one that was there.
LEMMA LeavesCommit ==
  ASSUME IInv, NEW p \in Worker, TxNext, At(p, "su_commit"), w'[p].pc # "su_commit"
  PROVE  SuCommit(p) \/ UNCHANGED pending
<1>1. \A q \in Worker \ {p} : (\E rec : w' = [w EXCEPT ![q] = rec]) => w'[p] = w[p]
  BY DEF IInv, TxTypeOK
<1>2. ASSUME NEW q \in Worker, q # p, Arrive(q) \/ Proceed(q) \/ Crash(q)
      PROVE  FALSE
  <2>1. \E rec : w' = [w EXCEPT ![q] = rec]
    BY <1>2 DEF Arrive, Proceed, Crash, UrPeek, IvPeek, RmPeek, DaCheck, SuCreate,
                UrLock, UrGuard, UrWrite, RmLock, RmGuard, RmAssign, RmCommit,
                DeadlockVictim, IvAdd, IvPend, DaDelete, SuRead, SuTake, SuCommit, SuStamp,
                Guard, Put, Goto, Finish
  <2> QED
    BY <1>1, <1>2, <2>1 DEF At
<1>3. ASSUME Arrive(p) PROVE FALSE
  BY <1>3 DEF Arrive, UrPeek, IvPeek, RmPeek, DaCheck, SuCreate, Begin, At
<1>4. ASSUME Proceed(p) PROVE SuCommit(p) \/ UNCHANGED pending
  BY <1>4 DEF Proceed, UrLock, UrGuard, UrWrite, RmLock, RmGuard, RmAssign, RmCommit,
              DeadlockVictim, IvAdd, IvPend, DaDelete, SuRead, SuTake, SuStamp, At, tables
<1>5. ASSUME Crash(p) PROVE UNCHANGED pending
  BY <1>5 DEF Crash, tables
<1>6. ASSUME OneShot PROVE FALSE
  BY <1>6 DEF OneShot, Boot, AdminCreateUser, AdminDeleteUser, Moderate, NewAccount,
              Revoke, RowAdded, RowReplaced, RowMoved, RowDeleted, Atomic, At
<1> QED
  BY <1>2, <1>3, <1>4, <1>5, <1>6 DEF TxNext

LEMMA CommitTurnsInvitations ==
  ASSUME IInv, NEW p \in Worker, NEW a \in Account, NEW u \in User, SuCommit(p),
         pending[a][u] # None, pending'[a][u] = None
  PROVE  role'[a][u] # None \/ a = w[p].refused
<1> DEFINE granted(b) == (CHOOSE i \in w[p].added : i[1] = b)[2]
<1>1. Good(p) /\ w[p] \in Requests
  BY DEF IInv, TxTypeOK
<1>2. /\ role' = [b \in Account |->
           IF b \in AddedBy(p) THEN [role[b] EXCEPT ![w[p].u] = granted(b)] ELSE role[b]]
      /\ a \in Range(w[p].gone) /\ u = w[p].u
  BY DEF SuCommit, membership, IInv, TxTypeOK, TypeOK
<1>3. a \in AddedBy(p) \/ a = w[p].refused
  BY <1>1, <1>2 DEF Good, Accounted
<1>4. CASE a \in AddedBy(p)
  <2>1. granted(a) \in Role
    BY <1>1, <1>4 DEF AddedBy, Requests
  <2> HIDE DEF granted
  <2>2. role'[a][u] = granted(a)
    BY <1>2, <1>4 DEF IInv, TxTypeOK, TypeOK
  <2> QED
    BY <2>1, <2>2, NoneIsFresh
<1> QED
  BY <1>3, <1>4

\* The invitations a signup deletes it has turned into memberships, except one whose
\* membership the database refused: what the loop schedules for deletion is always
\* accounted for by its inserts and by the refusal that rolled the others back.
THEOREM InvitationsAreAccountedFor == TxSpec => ConsumedOrMember
<1> DEFINE Turned(a, u, p) ==
      (/\ pending[a][u] # None /\ pending'[a][u] = None
       /\ At(p, "su_commit") /\ w'[p].pc # "su_commit") =>
         role'[a][u] # None \/ a = w[p].refused
<1>1. IInv /\ TxNext => \A a \in Account, u \in User, p \in Worker : Turned(a, u, p)
  BY LeavesCommit, CommitTurnsInvitations
<1>2. IInv /\ [TxNext]_txvars =>
        [\A a \in Account, u \in User, p \in Worker : Turned(a, u, p)]_txvars
  BY <1>1
<1> QED
  BY <1>2, AlwaysApart, PTL DEF TxSpec, ConsumedOrMember

-----------------------------------------------------------------------------
(* The last admin.                                                         *)

Excused(b) ==
  \/ ActiveAdmins(b) \cap (disabled' \cup (User \ users')) # {}
  \/ \E p \in Worker : w'[p] # w[p] /\ Overtaken(p)

\* An account that is stranded without a user being disabled or deleted has had an
\* admin's role rewritten.
LEMMA StrandingRewritesARole ==
  ASSUME IInv, NEW b \in Account, Stranded(b),
         ActiveAdmins(b) \cap (disabled' \cup (User \ users')) = {}
  PROVE  \E v \in User : role[b][v] = "account-admin" /\ role'[b][v] # "account-admin"
BY DEF Stranded, ActiveAdmins, IInv, TxTypeOK, TypeOK

LEMMA RoleChangeMayStrand ==
  ASSUME IInv, NEW p \in Worker, NEW b \in Account, UrWrite(p), Stranded(b)
  PROVE  Excused(b)
<1> SUFFICES ASSUME ActiveAdmins(b) \cap (disabled' \cup (User \ users')) = {}
             PROVE  \E q \in Worker : w'[q] # w[q] /\ Overtaken(q)
  BY DEF Excused
<1>1. PICK v \in User : role[b][v] = "account-admin" /\ role'[b][v] # "account-admin"
  BY StrandingRewritesARole
<1>2. Good(p) /\ At(p, "ur_write")
  BY DEF IInv, UrWrite
<1>3. b = w[p].a /\ v = w[p].u
  BY <1>1, <1>2 DEF UrWrite, IInv, TxTypeOK, TypeOK, Good, Shaped, At, In, Ur
<1>4. w'[p] # w[p]
  BY <1>2, IdleHasNothing DEF UrWrite, Finish, At, IInv, TxTypeOK
<1>5. Overtaken(p)
  BY <1>1, <1>2, <1>3 DEF Good, Cleared, Overtaken, At, In
<1> QED
  BY <1>4, <1>5

LEMMA RemovalMayStrand ==
  ASSUME IInv, NEW p \in Worker, NEW b \in Account, RmCommit(p), Stranded(b)
  PROVE  Excused(b)
<1> DEFINE a == w[p].a  u == w[p].u  t == w[p].t
<1> SUFFICES ASSUME ActiveAdmins(b) \cap (disabled' \cup (User \ users')) = {}
             PROVE  \E q \in Worker : w'[q] # w[q] /\ Overtaken(q)
  BY DEF Excused
<1>1. PICK v \in User : role[b][v] = "account-admin" /\ role'[b][v] # "account-admin"
  BY StrandingRewritesARole
<1>2. Good(p) /\ At(p, "rm_commit") /\ a \in Account
  BY DEF IInv, RmCommit, Good, Shaped, At, In, Rm
<1>3. role' = [role EXCEPT ![a] = [x \in User |->
        CASE x = u                 -> None
          [] x = t /\ x # u /\ Promotes(p) -> "contributor"
          [] OTHER                    -> role[a][x]]]
  BY <1>1 DEF RmCommit
<1>4. b = a /\ (v = u \/ (v = t /\ v # u /\ Promotes(p)))
  BY <1>1, <1>2, <1>3 DEF IInv, TxTypeOK, TypeOK
<1>5. w'[p] # w[p]
  BY <1>2, IdleHasNothing DEF RmCommit, Finish, At, IInv, TxTypeOK
<1>6. CASE v = u
  <2>1. role[a][u] = "account-admin"
    BY <1>1, <1>4, <1>6
  <2>2. w[p].relied \ {u} # {} \/ (t = u /\ w[p].seen # "account-admin")
    BY <1>2, <2>1 DEF Good, Cleared, At, In
  <2>3. Overtaken(p)
    BY <1>2, <2>1, <2>2 DEF Overtaken
  <2> QED
    BY <1>5, <2>3
<1>7. CASE v = t /\ v # u /\ Promotes(p)
  <2>1. role[a][t] # "viewer"
    BY <1>1, <1>4, <1>7
  <2>2. Overtaken(p)
    BY <1>2, <1>7, <2>1 DEF Overtaken
  <2> QED
    BY <1>5, <2>2
<1> QED
  BY <1>4, <1>5, <1>6, <1>7

\* Every other step leaves the admins of an account that stays alone.
LEMMA OthersKeepAdmins ==
  ASSUME IInv, NEW p \in Worker, NEW b \in Account, b \in accounts',
         Arrive(p) \/ Proceed(p) \/ Crash(p), ~UrWrite(p), ~RmCommit(p),
         NEW v \in User, role[b][v] = "account-admin"
  PROVE  role'[b][v] = "account-admin"
<1>1. Good(p) /\ w[p] \in Requests
  BY DEF IInv, TxTypeOK
<1>2. ASSUME IvAdd(p) PROVE role'[b][v] = "account-admin"
  BY <1>2, NoneIsFresh DEF IvAdd, IInv, TxTypeOK, TypeOK, Role
<1>3. ASSUME DaDelete(p) PROVE role'[b][v] = "account-admin"
  BY <1>3 DEF DaDelete, IInv, TxTypeOK, TypeOK
<1>4. ASSUME SuCommit(p) PROVE role'[b][v] = "account-admin"
  <2>1. ~(b \in AddedBy(p) /\ v = w[p].u)
    BY <1>1, NoneIsFresh DEF Good, AddedLives, Role
  <2>2. CASE UNCHANGED membership
    BY <2>2 DEF membership
  <2>3. CASE role' = [a \in Account |-> IF a \in AddedBy(p)
                THEN [role[a] EXCEPT ![w[p].u] = (CHOOSE i \in w[p].added : i[1] = a)[2]]
                ELSE role[a]]
    BY <2>1, <2>3 DEF IInv, TxTypeOK, TypeOK
  <2> QED
    BY <1>4, <2>2, <2>3 DEF SuCommit
<1>5. ASSUME UNCHANGED role PROVE role'[b][v] = "account-admin"
  BY <1>5
<1>6. Arrive(p) \/ Crash(p) => UNCHANGED role
  BY DEF Arrive, Crash, UrPeek, IvPeek, RmPeek, DaCheck, SuCreate, tables, membership
<1>7. Proceed(p) => IvAdd(p) \/ DaDelete(p) \/ SuCommit(p) \/ UNCHANGED role
  BY DEF Proceed, UrLock, UrGuard, RmLock, RmGuard, RmAssign, DeadlockVictim,
         IvPend, SuRead, SuTake, SuStamp, Guard, tables, membership
<1> QED
  BY <1>2, <1>3, <1>4, <1>5, <1>6, <1>7

LEMMA OneShotIsGuarded ==
  ASSUME IInv, OneShot
  PROVE  Guarded
<1>1. Next
  BY DEF OneShot, Boot, AdminCreateUser, AdminDeleteUser, Moderate, NewAccount, Revoke,
         RowAdded, RowReplaced, RowMoved, RowDeleted, Next
<1> QED
  BY <1>1, NextIsGuarded DEF IInv, TxTypeOK

\* The last-admin guard is beaten only by being overtaken: whatever a request had
\* counted, or whatever role it had peeked at, was no longer so when it committed.
THEOREM StrandingIsARace == TxSpec => StrandingNeedsRace
<1>1. ASSUME IInv, TxNext, NEW b \in Account, Stranded(b) PROVE Excused(b)
  <2>1. ASSUME NEW p \in Worker, Arrive(p) \/ Proceed(p) \/ Crash(p),
               ~UrWrite(p), ~RmCommit(p)
        PROVE  Excused(b)
    BY <1>1, <2>1, OthersKeepAdmins, StrandingRewritesARole DEF Stranded, Excused
  <2>2. CASE OneShot
    BY <1>1, <2>2, OneShotIsGuarded DEF Guarded, Excused
  <2> QED
    BY <1>1, <2>1, <2>2, RoleChangeMayStrand, RemovalMayStrand DEF TxNext
<1>2. IInv /\ [TxNext]_txvars => [\A a \in Account : Stranded(a) => Excused(a)]_txvars
  BY <1>1
<1> QED
  BY <1>2, AlwaysApart, PTL DEF TxSpec, StrandingNeedsRace, Excused

-----------------------------------------------------------------------------
(* One worker that does not crash implements the atomic service: what each *)
(* kind of request has read is still so, as long as nobody else commits.   *)

RoleFits(me) ==
  /\ me.pc \in Ur => me.seen = role[me.a][me.u]
  /\ me.pc \in {"ur_guard", "ur_write"} => me.seen # me.r
  /\ me.pc = "ur_write" /\ me.seen = "account-admin" => OtherAdmins(me.a, me.u) # {}

RemovalFits(me) ==
  /\ me.pc \in Rm /\ me.t # None => role[me.a][me.t] # None /\ me.seen = role[me.a][me.t]
  /\ me.pc \in {"rm_assign", "rm_commit"} /\ role[me.a][me.u] = "account-admin" =>
       OtherAdmins(me.a, me.u) # {}
  /\ me.pc = "rm_commit" => me.moved = IF me.t = None THEN {} ELSE OwnedIn(me.a, me.u)

Members(a) == {u \in User : role[a][u] # None}

AccountFits(me) ==
  /\ me.pc = "iv_add" => me.a \in accounts /\ me.u \in users
  /\ me.pc = "iv_pend" => me.a \in accounts /\ me.u \notin users
  /\ me.pc = "da_delete" => me.a \in accounts /\ me.t = Cardinality(Members(me.a))

\* The invitations a signup finds, and the accounts of some of them.
Found(u) == {<<a, pending[a][u]>> : a \in {b \in Account : pending[b][u] # None}}
Names(pairs) == {i[1] : i \in pairs}

SignupFits(me) ==
  /\ me.pc \in Su => me.u \in users
  /\ me.pc \in {"su_read", "su_take", "su_commit"} =>
       ~me.expired /\ \A a \in Account : role[a][me.u] = None
  /\ me.pc = "su_read" => me.told = <<>>
  /\ me.pc \in {"su_take", "su_commit"} =>
       /\ Found(me.u) # {} /\ me.todo \cup me.added = Found(me.u)
       /\ Range(me.gone) = Names(me.added) /\ Range(me.told) = Names(me.added)
  /\ me.pc = "su_commit" => me.todo = {}
  /\ me.pc = "su_stamp" =>
       /\ me.told # <<>> /\ \A i \in me.todo : role[i[1]][me.u] # None
       /\ \A a \in Account : /\ pending[a][me.u] = None
                             /\ (role[a][me.u] # None) <=> (a \in Range(me.told))

Fits(me) == RoleFits(me) /\ RemovalFits(me) /\ AccountFits(me) /\ SignupFits(me)

SerialInv(p) == IInv /\ Fits(w[p])

LEMMA IdleFits == Fits(Idle)
BY IdleHasNothing DEF Fits, RoleFits, RemovalFits, AccountFits, SignupFits, Ur, Rm, Su

\* A step that changes no table.
LEMMA QuietStepFits ==
  ASSUME IInv, NEW p \in Worker, NEW rec \in Requests, Fits(rec), w' = [w EXCEPT ![p] = rec],
         UNCHANGED tables
  PROVE  Fits(w[p])'
<1>1. w'[p] = rec
  BY DEF IInv, TxTypeOK
<1>2. /\ users' = users /\ accounts' = accounts /\ role' = role /\ pending' = pending
      /\ disabled' = disabled /\ home' = home /\ owner' = owner
  BY DEF tables
<1>3. RoleFits(w[p])'
  BY <1>1, <1>2 DEF Fits, RoleFits, OtherAdmins, ActiveAdmins
<1>4. RemovalFits(w[p])'
  BY <1>1, <1>2 DEF Fits, RemovalFits, OtherAdmins, ActiveAdmins, OwnedIn
<1>5. AccountFits(w[p])'
  <2>1. Members(w[p].a)' = Members(rec.a)
    BY <1>1, <1>2 DEF Members
  <2> QED
    BY <1>1, <1>2, <2>1 DEF Fits, AccountFits
<1>6. SignupFits(w[p])'
  <2>1. Found(w[p].u)' = Found(rec.u)
    BY <1>1, <1>2 DEF Found
  <2> QED
    BY <1>1, <1>2, <2>1 DEF Fits, SignupFits
<1> QED
  BY <1>3, <1>4, <1>5, <1>6 DEF Fits

LEMMA FinishFits ==
  ASSUME IInv, NEW p \in Worker, Finish(p)
  PROVE  Fits(w[p])' /\ w'[p] = Idle
<1>1. w'[p] = Idle
  BY DEF IInv, TxTypeOK, Finish
<1> QED
  BY <1>1, IdleHasNothing
  DEF Fits, RoleFits, RemovalFits, AccountFits, SignupFits, Ur, Rm, Su

\* The requests that sign nobody up, up to their last step, change no table.
Outside(p) == ~In(p, Su) /\ ~In(p, Su)'

LEMMA PutFits ==
  ASSUME IInv, NEW p \in Worker, ~In(p, Su), NEW rec \in Requests, Fits(rec), Put(p, rec),
         UNCHANGED tables, rec.pc \notin Su
  PROVE  Fits(w[p])' /\ Outside(p) /\ UNCHANGED tables
<1>1. Fits(w[p])'
  BY QuietStepFits DEF Put
<1>2. w'[p] = rec
  BY DEF Put, IInv, TxTypeOK
<1> QED
  BY <1>1, <1>2 DEF Outside, In

LEMMA EndFits ==
  ASSUME IInv, NEW p \in Worker, ~In(p, Su), Finish(p)
  PROVE  Fits(w[p])' /\ Outside(p)
BY FinishFits, IdleHasNothing DEF Outside, In, Su

LEMMA ArrivalFits ==
  ASSUME IInv, NEW p \in Worker, Arrive(p), \A u \in User : ~SuCreate(p, u)
  PROVE  Fits(w[p])' /\ Outside(p) /\ UNCHANGED tables
<1>0. TypeOK /\ At(p, "idle") /\ ~In(p, Su)
  BY DEF IInv, TxTypeOK, Arrive, UrPeek, IvPeek, RmPeek, DaCheck, Begin, At, In, Su
<1>1. ASSUME NEW a \in Account, NEW u \in User, NEW r \in Role, UrPeek(p, a, u, r)
      PROVE  Fits(w[p])' /\ Outside(p) /\ UNCHANGED tables
  <2> DEFINE rec == [Idle EXCEPT !.pc = "ur_lock", !.a = a, !.u = u, !.r = r,
                       !.seen = role[a][u]]
  <2>1. role[a][u] \in Role \cup {None}
    BY <1>0 DEF TypeOK
  <2>2. rec \in Requests
    BY <2>1, IdleIsRequest, AllPcs DEF Requests
  <2>3. rec.pc = "ur_lock" /\ rec.a = a /\ rec.u = u /\ rec.seen = role[a][u]
    BY DEF Idle
  <2>4. Put(p, rec) /\ UNCHANGED tables
    BY <1>1 DEF UrPeek
  <2> HIDE DEF rec
  <2>5. Fits(rec)
    BY <2>3 DEF Fits, RoleFits, RemovalFits, AccountFits, SignupFits, Ur, Rm, Su
  <2> QED
    BY <1>0, <2>2, <2>3, <2>4, <2>5, PutFits DEF Su
<1>2. ASSUME NEW a \in Account, NEW u \in User, NEW r \in Role, IvPeek(p, a, u, r)
      PROVE  Fits(w[p])' /\ Outside(p) /\ UNCHANGED tables
  <2> DEFINE pc == IF u \in users THEN "iv_add" ELSE "iv_pend"
             rec == [Idle EXCEPT !.a = a, !.u = u, !.r = r, !.pc = pc]
  <2>1. /\ pc \in Pcs /\ pc \in {"iv_add", "iv_pend"}
        /\ (pc = "iv_add") <=> (u \in users)
    BY AllPcs
  <2>2. Put(p, rec) /\ UNCHANGED tables /\ a \in accounts
    BY <1>2 DEF IvPeek
  <2> HIDE DEF pc
  <2>3. rec \in Requests
    BY <2>1, IdleIsRequest DEF Requests
  <2>4. rec.pc = pc /\ rec.a = a /\ rec.u = u
    BY DEF Idle
  <2> HIDE DEF rec
  <2>5. Fits(rec)
    BY <2>1, <2>2, <2>4 DEF Fits, RoleFits, RemovalFits, AccountFits, SignupFits, Ur, Rm, Su
  <2> QED
    BY <1>0, <2>1, <2>2, <2>3, <2>4, <2>5, PutFits DEF Su
<1>3. ASSUME NEW a \in Account, NEW u \in User, NEW t \in User \cup {None}, RmPeek(p, a, u, t)
      PROVE  Fits(w[p])' /\ Outside(p) /\ UNCHANGED tables
  <2> DEFINE seen == IF t = None THEN None ELSE role[a][t]
             rec == [Idle EXCEPT !.pc = "rm_lock", !.a = a, !.u = u, !.t = t, !.seen = seen]
  <2>1. seen \in Role \cup {None} /\ (t # None => seen = role[a][t])
    BY <1>0 DEF TypeOK
  <2>2. Put(p, rec) /\ UNCHANGED tables /\ (t # None => role[a][t] # None)
    BY <1>3 DEF RmPeek
  <2> HIDE DEF seen
  <2>3. rec \in Requests
    BY <2>1, IdleIsRequest, AllPcs DEF Requests
  <2>4. rec.pc = "rm_lock" /\ rec.a = a /\ rec.u = u /\ rec.t = t /\ rec.seen = seen
    BY DEF Idle
  <2> HIDE DEF rec
  <2>5. Fits(rec)
    BY <2>1, <2>2, <2>4 DEF Fits, RoleFits, RemovalFits, AccountFits, SignupFits, Ur, Rm, Su
  <2> QED
    BY <1>0, <2>2, <2>3, <2>4, <2>5, PutFits DEF Su
<1>4. ASSUME NEW a \in Account, DaCheck(p, a)
      PROVE  Fits(w[p])' /\ Outside(p) /\ UNCHANGED tables
  <2> DEFINE t == Cardinality(Members(a))
             rec == [Idle EXCEPT !.pc = "da_delete", !.a = a, !.t = t]
  <2>1. t \in Nat
    <3>1. IsFiniteSet(Members(a))
      BY UsersAreFinite, FS_Subset DEF Members
    <3> QED
      BY <3>1, FS_CardinalityType
  <2>2. Put(p, rec) /\ UNCHANGED tables /\ a \in accounts
    BY <1>4 DEF DaCheck, Members
  <2> HIDE DEF t
  <2>3. rec \in Requests
    BY <2>1, IdleIsRequest, AllPcs DEF Requests
  <2>4. rec.pc = "da_delete" /\ rec.a = a /\ rec.t = t
    BY DEF Idle
  <2> HIDE DEF rec
  <2>5. Fits(rec)
    BY <2>2, <2>4 DEF Fits, RoleFits, RemovalFits, AccountFits, SignupFits, Ur, Rm, Su, t
  <2> QED
    BY <1>0, <2>2, <2>3, <2>4, <2>5, PutFits DEF Su
<1> QED
  BY <1>1, <1>2, <1>3, <1>4 DEF Arrive

LEMMA LockAndGuardFit ==
  ASSUME IInv, NEW p \in Worker, Fits(w[p]),
         UrLock(p) \/ UrGuard(p) \/ RmLock(p) \/ RmGuard(p) \/ RmAssign(p)
  PROVE  Fits(w[p])' /\ Outside(p) /\ UNCHANGED tables
<1> DEFINE me == w[p]  a == w[p].a  u == w[p].u
           Goal == Fits(w[p])' /\ Outside(p) /\ UNCHANGED tables
<1>0. me \in Requests /\ Good(p) /\ TypeOK
  BY DEF IInv, TxTypeOK
<1>1. /\ a \in Account /\ u \in User /\ ~In(p, Su) /\ UNCHANGED tables
      /\ In(p, Rm) => me.t \in User \cup {None}
      /\ In(p, Ur) => me.r \in Role
  BY <1>0 DEF UrLock, UrGuard, RmLock, RmGuard, RmAssign, Guard, Good, Shaped, At, In, Ur, Rm, Su
<1>2. role[a][u] \in Role \cup {None}
  BY <1>0, <1>1 DEF TypeOK
<1>3. ASSUME Finish(p) PROVE Goal
  BY <1>1, <1>3, EndFits
<1>4. CASE UrLock(p)
  <2> DEFINE seen == SessionRole(p, role[a][u])
             next == IF seen = "account-admin" THEN "ur_guard" ELSE "ur_write"
             rec == [me EXCEPT !.seen = seen, !.pc = next]
  <2>1. CASE role[a][u] = None \/ seen = me.r
    BY <1>3, <1>4, <2>1 DEF UrLock
  <2>2. CASE ~(role[a][u] = None \/ seen = me.r)
    <3>1. Put(p, rec) /\ me.pc = "ur_lock"
      BY <1>4, <2>2 DEF UrLock, At
    <3>2. seen = role[a][u] /\ seen \in Role /\ seen # me.r
      BY <1>2, <2>2, <3>1 DEF Fits, RoleFits, Ur, SessionRole
    <3>3. /\ next \in {"ur_guard", "ur_write"} /\ next \in Pcs
          /\ next = "ur_write" => seen # "account-admin"
      BY DEF Pcs
    <3> HIDE DEF seen, next
    <3>4. /\ rec.pc = next /\ rec.seen = seen /\ rec.a = a /\ rec.u = u /\ rec.r = me.r
      BY <1>0 DEF Requests
    <3>5. rec \in Requests
      BY <1>0, <3>2, <3>3 DEF Requests
    <3> HIDE DEF rec
    <3>6. Fits(rec)
      BY <3>2, <3>3, <3>4
      DEF Fits, RoleFits, RemovalFits, AccountFits, SignupFits, Ur, Rm, Su
    <3> QED
      BY <1>1, <3>1, <3>3, <3>4, <3>5, <3>6, PutFits DEF Su
  <2> QED
    BY <2>1, <2>2
<1>5. CASE UrGuard(p)
  <2> DEFINE others == OtherAdmins(a, u)
             rec == [me EXCEPT !.relied = others, !.pc = "ur_write"]
  <2>1. CASE others = {}
    BY <1>3, <1>5, <2>1 DEF UrGuard, Guard
  <2>2. CASE others # {}
    <3>1. Put(p, rec) /\ me.pc = "ur_guard"
      BY <1>5, <2>2 DEF UrGuard, Guard, At
    <3>2. others \in SUBSET User
      BY <1>0 DEF OtherAdmins, ActiveAdmins, TypeOK
    <3> HIDE DEF others
    <3>3. rec.pc = "ur_write" /\ rec.seen = me.seen /\ rec.a = a /\ rec.u = u /\ rec.r = me.r
      BY <1>0 DEF Requests
    <3>4. rec \in Requests
      BY <1>0, <3>2 DEF Requests, Pcs
    <3> HIDE DEF rec
    <3>5. Fits(rec)
      BY <2>2, <3>1, <3>3
      DEF Fits, RoleFits, RemovalFits, AccountFits, SignupFits, Ur, Rm, Su, others
    <3> QED
      BY <1>1, <3>1, <3>3, <3>4, <3>5, PutFits DEF Su
  <2> QED
    BY <2>1, <2>2
<1>6. CASE RmLock(p)
  <2> DEFINE leaving == IF me.t = u THEN me.seen ELSE role[a][u]
             next == IF leaving = "account-admin" THEN "rm_guard" ELSE "rm_assign"
             rec == [me EXCEPT !.pc = next]
  <2>1. CASE role[a][u] = None
    BY <1>3, <1>6, <2>1 DEF RmLock
  <2>2. CASE role[a][u] # None
    <3>1. w' = [w EXCEPT ![p].pc = next] /\ me.pc = "rm_lock"
      BY <1>6, <2>2 DEF RmLock, Goto, At
    <3>2. leaving = role[a][u]
      BY <1>1, <3>1, NoneIsFresh DEF Fits, RemovalFits, Rm
    <3>3. next \in {"rm_guard", "rm_assign"} /\ (next = "rm_assign" => role[a][u] # "account-admin")
      BY <3>2
    <3> HIDE DEF leaving, next
    <3>4. Put(p, rec)
      BY <1>0, <3>1 DEF Put, IInv, TxTypeOK
    <3>5. rec.pc = next /\ rec.seen = me.seen /\ rec.a = a /\ rec.u = u /\ rec.t = me.t
      BY <1>0 DEF Requests
    <3>6. rec \in Requests
      BY <1>0, <3>3 DEF Requests, Pcs
    <3> HIDE DEF rec
    <3>7. Fits(rec)
      BY <3>1, <3>3, <3>5
      DEF Fits, RoleFits, RemovalFits, AccountFits, SignupFits, Ur, Rm, Su
    <3> QED
      BY <1>1, <3>3, <3>4, <3>5, <3>6, <3>7, PutFits DEF Su
  <2> QED
    BY <2>1, <2>2
<1>7. CASE RmGuard(p)
  <2> DEFINE others == OtherAdmins(a, u)
             rec == [me EXCEPT !.relied = others, !.pc = "rm_assign"]
  <2>1. CASE others = {}
    BY <1>3, <1>7, <2>1 DEF RmGuard, Guard
  <2>2. CASE others # {}
    <3>1. Put(p, rec) /\ me.pc = "rm_guard"
      BY <1>7, <2>2 DEF RmGuard, Guard, At
    <3>2. others \in SUBSET User
      BY <1>0 DEF OtherAdmins, ActiveAdmins, TypeOK
    <3> HIDE DEF others
    <3>3. rec.pc = "rm_assign" /\ rec.seen = me.seen /\ rec.a = a /\ rec.u = u /\ rec.t = me.t
      BY <1>0 DEF Requests
    <3>4. rec \in Requests
      BY <1>0, <3>2 DEF Requests, Pcs
    <3> HIDE DEF rec
    <3>5. Fits(rec)
      BY <2>2, <3>1, <3>3
      DEF Fits, RoleFits, RemovalFits, AccountFits, SignupFits, Ur, Rm, Su, others
    <3> QED
      BY <1>1, <3>1, <3>3, <3>4, <3>5, PutFits DEF Su
  <2> QED
    BY <2>1, <2>2
<1>8. CASE RmAssign(p)
  <2> DEFINE moving == IF me.t = None THEN {} ELSE OwnedIn(a, u)
             rec == [me EXCEPT !.moved = moving, !.pc = "rm_commit"]
  <2>1. CASE moving # {} /\ me.t \notin users
    BY <1>3, <1>8, <2>1 DEF RmAssign
  <2>2. CASE ~(moving # {} /\ me.t \notin users)
    <3>1. Put(p, rec) /\ me.pc = "rm_assign"
      BY <1>8, <2>2 DEF RmAssign, At
    <3>2. moving \in SUBSET Row
      BY DEF OwnedIn
    <3> HIDE DEF moving
    <3>3. /\ rec.pc = "rm_commit" /\ rec.seen = me.seen /\ rec.a = a /\ rec.u = u
          /\ rec.t = me.t /\ rec.moved = moving
      BY <1>0 DEF Requests
    <3>4. rec \in Requests
      BY <1>0, <3>2 DEF Requests, Pcs
    <3> HIDE DEF rec
    <3>5. Fits(rec)
      BY <3>1, <3>3
      DEF Fits, RoleFits, RemovalFits, AccountFits, SignupFits, Ur, Rm, Su, moving
    <3> QED
      BY <1>1, <3>1, <3>3, <3>4, <3>5, PutFits DEF Su
  <2> QED
    BY <2>1, <2>2
<1> QED
  BY <1>4, <1>5, <1>6, <1>7, <1>8

\* The commit of such a request is the request of the atomic service, or changes
\* nothing: an invitation or a deletion that the tables refuse.
LEMMA CommitIsServed ==
  ASSUME IInv, NEW p \in Worker, Fits(w[p]),
         UrWrite(p) \/ RmCommit(p) \/ IvAdd(p) \/ IvPend(p) \/ DaDelete(p)
  PROVE  Fits(w[p])' /\ Outside(p) /\ [Next]_vars
<1> DEFINE me == w[p]  a == w[p].a  u == w[p].u
<1>0. me \in Requests /\ Good(p) /\ TypeOK /\ RefIntegrity
  BY DEF IInv, TxTypeOK
<1>1. /\ a \in Account /\ ~In(p, Su) /\ Finish(p)
      /\ In(p, Ur \cup Rm \cup Iv) => u \in User
      /\ In(p, Ur \cup Iv) => me.r \in Role
      /\ In(p, Rm) => me.t \in User \cup {None}
  BY <1>0 DEF UrWrite, RmCommit, IvAdd, IvPend, DaDelete, Good, Shaped, At, In, Ur, Rm, Iv, Su
<1>2. Fits(w[p])' /\ Outside(p)
  BY <1>1, EndFits
<1>3. CASE UrWrite(p)
  <2>1. me.pc = "ur_write" /\ u \in User /\ me.r \in Role
    BY <1>1, <1>3 DEF UrWrite, At, In, Ur
  <2>2. /\ role[a][u] \notin {None, me.r}
        /\ role[a][u] = "account-admin" => OtherAdmins(a, u) # {}
    BY <1>0, <2>1, NoneIsFresh DEF Fits, RoleFits, Ur, Good, Cleared, In
  <2>3. UpdateRole(a, u, me.r)
    BY <1>3, <2>2 DEF UrWrite, UpdateRole
  <2> QED
    BY <1>1, <1>2, <2>1, <2>3 DEF Next
<1>4. CASE RmCommit(p)
  <2> DEFINE t == me.t  inherits == t # None /\ OwnedIn(a, u) # {}
  <2>1. me.pc = "rm_commit" /\ u \in User /\ t \in User \cup {None}
    BY <1>1, <1>4 DEF RmCommit, At, In, Rm
  <2>2. /\ role[a][u] # None
        /\ t # None => role[a][t] # None /\ me.seen = role[a][t]
        /\ role[a][u] = "account-admin" => OtherAdmins(a, u) # {}
        /\ me.moved = IF t = None THEN {} ELSE OwnedIn(a, u)
    BY <1>0, <2>1 DEF Fits, RemovalFits, Rm, Good, HeldLives, In, Holding
  <2>3. (Promotes(p) /\ t # None) <=> (inherits /\ role[a][t] = "viewer")
    BY <2>2 DEF Promotes
  <2>4. Promotes(p) => t # None /\ role[a][t] # None
    BY <2>2 DEF Promotes
  <2>5. /\ role' = [role EXCEPT ![a] = [v \in User |->
             CASE v = u                                -> None
               [] v = t /\ v # u /\ Promotes(p) -> "contributor"
               [] OTHER                                -> role[a][v]]]
        /\ owner' = [r \in Row |-> IF r \in me.moved THEN t ELSE owner[r]]
    BY <1>4, <2>4 DEF RmCommit
  <2>6. UNCHANGED <<identity, accounts, pending, home>>
    BY <1>4 DEF RmCommit
  <2>7. role' = RolesAfterRemoval(a, u, t, inherits)
    <3>1. ASSUME NEW v \in User
          PROVE  (v # u /\ v = t /\ inherits /\ role[a][v] = "viewer")
                   <=> (v = t /\ v # u /\ Promotes(p))
      BY <2>3, NoneIsFresh
    <3> HIDE DEF inherits
    <3> QED
      BY <2>5, <3>1 DEF RolesAfterRemoval
  <2>8. owner' = [r \in Row |-> IF t # None /\ r \in OwnedIn(a, u) THEN t ELSE owner[r]]
    BY <2>2, <2>5
  <2>9. RemoveMember(a, u, t)
    BY <2>2, <2>6, <2>7, <2>8 DEF RemoveMember
  <2> QED
    BY <1>1, <1>2, <2>1, <2>9 DEF Next
<1>5. CASE IvAdd(p)
  <2>1. me.pc = "iv_add" /\ u \in User /\ me.r \in Role
    BY <1>1, <1>5 DEF IvAdd, At, In, Iv
  <2>2. a \in accounts /\ u \in users
    BY <2>1 DEF Fits, AccountFits
  <2>3. CASE role[a][u] = None
    <3>1. Invite(a, u, me.r)
      BY <1>5, <2>2, <2>3 DEF IvAdd, Invite
    <3> QED
      BY <1>1, <1>2, <2>1, <3>1 DEF Next
  <2>4. CASE role[a][u] # None
    BY <1>2, <1>5, <2>4 DEF IvAdd, vars, identity, catalog
  <2> QED
    BY <2>3, <2>4
<1>6. CASE IvPend(p)
  <2>1. me.pc = "iv_pend" /\ u \in User /\ me.r \in Role
    BY <1>1, <1>6 DEF IvPend, At, In, Iv
  <2>2. a \in accounts /\ u \notin users
    BY <2>1 DEF Fits, AccountFits
  <2>3. CASE pending[a][u] = None
    <3>1. Invite(a, u, me.r)
      BY <1>6, <2>2, <2>3 DEF IvPend, Invite
    <3> QED
      BY <1>1, <1>2, <2>1, <3>1 DEF Next
  <2>4. CASE pending[a][u] # None
    BY <1>2, <1>6, <2>4 DEF IvPend, vars, identity, catalog
  <2> QED
    BY <2>3, <2>4
<1>7. CASE DaDelete(p)
  <2> DEFINE n == Cardinality(Members(a))
  <2>1. a \in accounts /\ me.t = n
    BY <1>7 DEF DaDelete, At, Fits, AccountFits
  <2>2. n \in 0 .. Cardinality(User)
    <3>1. IsFiniteSet(Members(a)) /\ n <= Cardinality(User)
      BY UsersAreFinite, FS_Subset DEF Members
    <3> QED
      BY <3>1, UsersAreFinite, FS_CardinalityType
  <2>3. CASE \A r \in Row : home[r] # a
    <3>1. n = Cardinality({v \in User : role[a][v] # None})
      BY DEF Members
    <3> HIDE DEF n
    <3>2. DeleteAccount(a, n)
      BY <1>7, <2>1, <2>3, <3>1 DEF DaDelete, DeleteAccount
    <3> QED
      BY <1>1, <1>2, <2>2, <3>2 DEF Next
  <2>4. CASE ~ \A r \in Row : home[r] # a
    BY <1>2, <1>7, <2>4 DEF DaDelete, vars, catalog
  <2> QED
    BY <2>3, <2>4
<1> QED
  BY <1>3, <1>4, <1>5, <1>6, <1>7

\* A request of one statement is the request of the atomic service.
LEMMA OneShotIsServed ==
  ASSUME NEW p \in Worker, Worker = {p}, IInv, OneShot
  PROVE  Fits(w[p])' /\ Outside(p) /\ Next
<1>1. At(p, "idle") /\ UNCHANGED w
  BY DEF OneShot, Boot, AdminCreateUser, AdminDeleteUser, Moderate, NewAccount, Revoke,
         RowAdded, RowReplaced, RowMoved, RowDeleted, Atomic, Begin
<1>2. w[p] = Idle /\ w'[p] = Idle
  BY <1>1 DEF IInv, Good, Shaped
<1>3. Fits(w[p])' /\ Outside(p)
  BY <1>2, IdleHasNothing
  DEF Fits, RoleFits, RemovalFits, AccountFits, SignupFits, Ur, Rm, Su, Outside, In
<1>4. Next
  BY DEF OneShot, Boot, AdminCreateUser, AdminDeleteUser, Moderate, NewAccount, Revoke,
         RowAdded, RowReplaced, RowMoved, RowDeleted, Next
<1> QED
  BY <1>3, <1>4

\* What the atomic service sees: the tables, less the user who is signing up.
SeesTables(p) ==
  ~In(p, Su) => SignedUp = users /\ Memberships = role /\ Invitations = pending

HidesSignup(p) ==
  In(p, Su) =>
    /\ SignedUp = users \ {w[p].u}
    /\ Memberships = [a \in Account |-> [u \in User |-> IF u = w[p].u THEN None ELSE role[a][u]]]
    /\ Invitations = [a \in Account |-> [u \in User |->
         IF u = w[p].u /\ At(p, "su_stamp") /\ a \in Range(w[p].told)
         THEN role[a][u] ELSE pending[a][u]]]

LEMMA View ==
  ASSUME NEW p \in Worker, Worker = {p}, TypeOK, TypeOK'
  PROVE  SeesTables(p) /\ SeesTables(p)' /\ HidesSignup(p) /\ HidesSignup(p)'
<1>1. SeesTables(p)
  <2> SUFFICES ASSUME ~In(p, Su)
               PROVE  SignedUp = users /\ Memberships = role /\ Invitations = pending
    BY DEF SeesTables
  <2>1. InSignup = {}
    BY DEF InSignup, In, Su
  <2>2. SigningUp = {} /\ \A a \in Account, u \in User : ~Granted(a, u)
    BY <2>1 DEF SigningUp, Granted
  <2> QED
    BY <2>2 DEF SignedUp, Memberships, Invitations, TypeOK
<1>2. SeesTables(p)'
  <2> SUFFICES ASSUME ~In(p, Su)'
               PROVE  SignedUp' = users' /\ Memberships' = role' /\ Invitations' = pending'
    BY DEF SeesTables
  <2>1. InSignup' = {}
    BY DEF InSignup, In, Su
  <2>2. SigningUp' = {} /\ \A a \in Account, u \in User : ~Granted(a, u)'
    BY <2>1 DEF SigningUp, Granted
  <2> QED
    BY <2>2 DEF SignedUp, Memberships, Invitations, TypeOK
<1>3. HidesSignup(p)
  <2>1. In(p, Su) => /\ SigningUp = {w[p].u}
                     /\ \A a \in Account, u \in User :
                          Granted(a, u) <=> (u = w[p].u /\ At(p, "su_stamp") /\ a \in Range(w[p].told))
    BY DEF InSignup, SigningUp, Granted, In, Su
  <2> QED
    BY <2>1 DEF HidesSignup, SignedUp, Memberships, Invitations
<1>4. HidesSignup(p)'
  <2>1. In(p, Su)' =>
          /\ SigningUp' = {w'[p].u}
          /\ \A a \in Account, u \in User :
               Granted(a, u)' <=> (u = w'[p].u /\ At(p, "su_stamp")' /\ a \in Range(w'[p].told))
    BY DEF InSignup, SigningUp, Granted, In, Su
  <2> QED
    BY <2>1 DEF HidesSignup, SignedUp, Memberships, Invitations
<1> QED
  BY <1>1, <1>2, <1>3, <1>4

Seen == [Serial!Next]_Serial!vars

LEMMA SameCount == \A S : Serial!Cardinality(S) = Cardinality(S)
BY DEF Cardinality, Serial!Cardinality

\* A request of the atomic service is one as seen, when nobody signs up meanwhile.
LEMMA ServedIsSeen ==
  ASSUME [Next]_vars, SignedUp = users, Memberships = role, Invitations = pending,
         SignedUp' = users', Memberships' = role', Invitations' = pending'
  PROVE  Seen
<1>1. CASE UNCHANGED vars
  BY <1>1 DEF Seen, vars, Serial!vars
<1>2. CASE Startup
  BY <1>2 DEF Seen, Serial!Next, Startup, Serial!Startup, Seeded, Serial!Seeded,
     FirstAdminRole, Serial!FirstAdminRole, catalog, Serial!catalog
<1>3. ASSUME NEW u \in User, CreateUser(u) \/ DeleteUser(u) PROVE Seen
  BY <1>3 DEF Seen, Serial!Next, CreateUser, Serial!CreateUser, DeleteUser, Serial!DeleteUser,
     catalog, Serial!catalog, membership, Serial!membership
<1>4. ASSUME NEW u \in User, Signup(u) PROVE Seen
  BY <1>4 DEF Seen, Serial!Next, Signup, Serial!Signup, catalog, Serial!catalog
<1>5. ASSUME NEW u \in User, NEW flag \in BOOLEAN, SetDisabled(u, flag) PROVE Seen
  BY <1>5 DEF Seen, Serial!Next, SetDisabled, Serial!SetDisabled,
     catalog, Serial!catalog, membership, Serial!membership
<1>6. ASSUME NEW a \in Account, NEW u \in User, CreateAccount(a, u) \/ RevokeInvite(a, u)
      PROVE  Seen
  BY <1>6 DEF Seen, Serial!Next, CreateAccount, Serial!CreateAccount, RevokeInvite,
     Serial!RevokeInvite, FirstAdminRole, Serial!FirstAdminRole, Nobody, Serial!Nobody,
     identity, Serial!identity, catalog, Serial!catalog
<1>7. ASSUME NEW a \in Account, NEW n \in 0 .. Cardinality(User), DeleteAccount(a, n)
      PROVE  Seen
  <2>1. Serial!DeleteAccount(a, n)
    BY <1>7, SameCount DEF DeleteAccount, Serial!DeleteAccount, Nobody, Serial!Nobody,
       catalog, Serial!catalog
  <2>2. n \in 0 .. Serial!Cardinality(User)
    BY SameCount
  <2> QED
    BY <2>1, <2>2 DEF Seen, Serial!Next
<1>8. ASSUME NEW a \in Account, NEW u \in User, NEW r \in Role,
             Invite(a, u, r) \/ UpdateRole(a, u, r)
      PROVE  Seen
  BY <1>8 DEF Seen, Serial!Next, Role, Serial!Role, Invite, Serial!Invite, UpdateRole,
     Serial!UpdateRole, OtherAdmins, Serial!OtherAdmins, ActiveAdmins, Serial!ActiveAdmins,
     identity, Serial!identity, catalog, Serial!catalog
<1>9. ASSUME NEW a \in Account, NEW u \in User, NEW t \in User \cup {None},
             RemoveMember(a, u, t)
      PROVE  Seen
  <2> DEFINE inherits == t # None /\ OwnedIn(a, u) # {}
  <2>1. Serial!OwnedIn(a, u) = OwnedIn(a, u) /\ Serial!OtherAdmins(a, u) = OtherAdmins(a, u)
    BY DEF OwnedIn, Serial!OwnedIn, OtherAdmins, Serial!OtherAdmins, ActiveAdmins,
       Serial!ActiveAdmins
  <2>2. role' = RolesAfterRemoval(a, u, t, inherits)
    BY <1>9 DEF RemoveMember
  <2>3. inherits = (t # None /\ Serial!OwnedIn(a, u) # {})
    BY <2>1
  <2> HIDE DEF inherits
  <2>4. Memberships' = Serial!RolesAfterRemoval(a, u, t, inherits)
    BY <2>2 DEF RolesAfterRemoval, Serial!RolesAfterRemoval
  <2>5. Serial!RemoveMember(a, u, t)
    BY <1>9, <2>1, <2>3, <2>4 DEF RemoveMember, Serial!RemoveMember, identity, Serial!identity
  <2> QED
    BY <2>5 DEF Seen, Serial!Next
<1>10. ASSUME NEW r \in Row, NEW a \in Account, NEW u \in User \cup {None}, CreateRow(r, a, u)
       PROVE  Seen
  BY <1>10 DEF Seen, Serial!Next, CreateRow, Serial!CreateRow, identity, Serial!identity,
     membership, Serial!membership
<1>11. ASSUME NEW r \in Row, NEW a \in Account \cup {None}, NEW u \in User \cup {None},
              ReplaceRow(r, a, u)
       PROVE  Seen
  BY <1>11 DEF Seen, Serial!Next, ReplaceRow, Serial!ReplaceRow, identity, Serial!identity,
     membership, Serial!membership
<1>12. ASSUME NEW r \in Row, NEW a \in Account, MoveRow(r, a) PROVE Seen
  BY <1>12 DEF Seen, Serial!Next, MoveRow, Serial!MoveRow, identity, Serial!identity,
     membership, Serial!membership
<1>13. ASSUME NEW r \in Row, DeleteRow(r) PROVE Seen
  BY <1>13 DEF Seen, Serial!Next, DeleteRow, Serial!DeleteRow, identity, Serial!identity,
     membership, Serial!membership
<1> QED
  BY <1>1, <1>2, <1>3, <1>4, <1>5, <1>6, <1>7, <1>8, <1>9, <1>10, <1>11, <1>12, <1>13 DEF Next

\* Signing up stays out of sight until the landing account is stamped.
LEMMA HiddenIsSeen == UNCHANGED Serial!vars => Seen
BY DEF Seen

LEMMA SignupIsSeen ==
  ASSUME NEW u \in User, NEW invited, invited = {a \in Account : Invitations[a][u] # None},
         u \notin SignedUp, SignedUp' = SignedUp \cup {u},
         Memberships' = [a \in Account |->
           IF a \in invited THEN [Memberships[a] EXCEPT ![u] = Invitations[a][u]]
           ELSE Memberships[a]],
         Invitations' = [a \in Account |-> [Invitations[a] EXCEPT ![u] = None]],
         \/ invited = {} /\ UNCHANGED lastActive
         \/ \E a \in invited : lastActive' = [lastActive EXCEPT ![u] = a],
         UNCHANGED <<disabled, accounts, home, owner>>
  PROVE  Seen
BY DEF Seen, Serial!Next, Serial!Signup, Serial!catalog

LEMMA SuCreateIsSeen ==
  ASSUME NEW p \in Worker, Worker = {p}, IInv, NEW u \in User, SuCreate(p, u)
  PROVE  Fits(w[p])' /\ Seen
<1> DEFINE rec == [Idle EXCEPT !.pc = "su_read", !.u = u]
<1>1. /\ u \notin users /\ users' = users \cup {u} /\ w[p].pc = "idle"
      /\ UNCHANGED <<disabled, lastActive, accounts, role, pending, home, owner>>
      /\ Put(p, rec)
  BY DEF SuCreate, Begin, At, membership, catalog
<1>2. rec.pc = "su_read" /\ rec.u = u /\ rec.told = <<>> /\ rec.expired = FALSE
  BY DEF Idle
<1> HIDE DEF rec
<1>3. w'[p] = rec
  BY <1>1 DEF Put, IInv, TxTypeOK
<1>4. TypeOK /\ TypeOK' /\ RefIntegrity
  BY SuCreateIsSound DEF IInv, TxTypeOK
<1>5. \A a \in Account : role[a][u] = None
  BY <1>1, <1>4 DEF RefIntegrity
<1>6. Fits(w[p])'
  BY <1>1, <1>2, <1>3, <1>5
  DEF Fits, RoleFits, RemovalFits, AccountFits, SignupFits, Ur, Rm, Su
<1>7. /\ SignedUp = users /\ Memberships = role /\ Invitations = pending
      /\ SignedUp' = users' \ {u}
      /\ Memberships' = [a \in Account |-> [v \in User |-> IF v = u THEN None ELSE role[a][v]]]
      /\ Invitations' = [a \in Account |-> [v \in User |-> pending[a][v]]]
  BY <1>1, <1>2, <1>3, <1>4, View DEF SeesTables, HidesSignup, In, At, Su
<1>8. Memberships' = role /\ Invitations' = pending
  BY <1>4, <1>5, <1>7 DEF TypeOK
<1>9. SignedUp' = users
  BY <1>1, <1>7
<1> QED
  BY <1>1, <1>6, <1>7, <1>8, <1>9, HiddenIsSeen DEF Serial!vars

LEMMA SuReadIsSeen ==
  ASSUME NEW p \in Worker, Worker = {p}, IInv, Fits(w[p]), SuRead(p)
  PROVE  Fits(w[p])' /\ Seen
<1> DEFINE me == w[p]  u == w[p].u
<1>1. /\ me \in Requests /\ me.pc = "su_read" /\ u \in User /\ UNCHANGED tables
      /\ Good(p) /\ TypeOK /\ TypeOK'
  BY SuReadIsSound DEF IInv, TxTypeOK, SuRead, At, Good, Shaped, In, Su
<1>2. /\ u \in users /\ ~me.expired /\ me.told = <<>> /\ \A a \in Account : role[a][u] = None
  BY <1>1 DEF Fits, SignupFits, Su
<1>3. me.gone = <<>> /\ me.added = {}
  BY <1>1 DEF Good, Shaped, At, In
<1>4. /\ SignedUp = users \ {u}
      /\ Memberships = [a \in Account |-> [v \in User |-> IF v = u THEN None ELSE role[a][v]]]
      /\ Invitations = [a \in Account |-> [v \in User |-> pending[a][v]]]
  BY <1>1, View DEF HidesSignup, In, At, Su
<1>5. Memberships = role /\ Invitations = pending
  BY <1>1, <1>2, <1>4 DEF TypeOK
<1>6. CASE Found(u) = {}
  <2>1. Finish(p)
    BY <1>6 DEF SuRead, Found
  <2>2. Fits(w[p])' /\ w'[p] = Idle
    BY <2>1, FinishFits
  <2>3. SignedUp' = users' /\ Memberships' = role' /\ Invitations' = pending'
    BY <1>1, <2>2, IdleHasNothing, View DEF SeesTables, In, Su
  <2>4. \A a \in Account : pending[a][u] = None
    BY <1>6 DEF Found
  <2>5. {a \in Account : Invitations[a][u] # None} = {}
    BY <1>5, <2>4
  <2>6. Memberships' = [a \in Account |->
           IF a \in {} THEN [Memberships[a] EXCEPT ![u] = Invitations[a][u]]
           ELSE Memberships[a]]
    BY <1>1, <1>5, <2>3 DEF tables, TypeOK
  <2>7. Invitations' = [a \in Account |-> [Invitations[a] EXCEPT ![u] = None]]
    BY <1>1, <1>5, <2>3, <2>4 DEF tables, TypeOK
  <2>8. u \notin SignedUp /\ SignedUp' = SignedUp \cup {u}
    BY <1>1, <1>2, <1>4, <2>3 DEF tables
  <2>9. UNCHANGED <<lastActive, disabled, accounts, home, owner>>
    BY <1>1 DEF tables
  <2>10. Seen
    BY <1>1, <2>5, <2>6, <2>7, <2>8, <2>9, SignupIsSeen
  <2> QED
    BY <2>2, <2>10
<1>7. CASE Found(u) # {}
  <2> DEFINE found == Found(u)  rec == [me EXCEPT !.todo = found, !.pc = "su_take"]
  <2>1. Put(p, rec)
    BY <1>7 DEF SuRead, Found
  <2>2. found \in SUBSET (Account \X Role)
    <3>1. \A a \in Account : pending[a][u] \in Role \cup {None}
      BY <1>1 DEF TypeOK
    <3> QED
      BY <3>1 DEF Found
  <2> HIDE DEF found
  <2>3. rec \in Requests
    BY <1>1, <2>2, AllPcs DEF Requests
  <2>4. /\ rec.pc = "su_take" /\ rec.u = u /\ rec.todo = found /\ rec.added = {}
        /\ rec.gone = <<>> /\ rec.told = <<>> /\ ~rec.expired
    BY <1>1, <1>2, <1>3 DEF Requests
  <2> HIDE DEF rec
  <2>5. Names({}) = {}
    BY DEF Names
  <2>6. Fits(rec)
    BY <1>2, <1>7, <2>4, <2>5, RangeOfEmpty
    DEF Fits, RoleFits, RemovalFits, AccountFits, SignupFits, Ur, Rm, Su, found
  <2>7. Fits(w[p])' /\ w'[p] = rec
    BY <1>1, <2>1, <2>3, <2>6, QuietStepFits DEF Put, IInv, TxTypeOK
  <2>8. /\ SignedUp' = users' \ {u}
        /\ Memberships' = [a \in Account |-> [v \in User |-> IF v = u THEN None ELSE role'[a][v]]]
        /\ Invitations' = [a \in Account |-> [v \in User |-> pending'[a][v]]]
    BY <1>1, <2>4, <2>7, View DEF HidesSignup, In, At, Su
  <2> QED
    BY <1>1, <1>4, <2>7, <2>8, HiddenIsSeen DEF tables, Serial!vars
<1> QED
  BY <1>6, <1>7

LEMMA SuTakeIsSeen ==
  ASSUME NEW p \in Worker, Worker = {p}, IInv, Fits(w[p]), NEW i \in w[p].todo, SuTake(p, i)
  PROVE  Fits(w[p])' /\ Seen
<1> DEFINE me == w[p]  u == w[p].u  a == i[1]
           added == me.added \cup {i}  gone == Append(me.gone, a)  told == Append(me.told, a)
           todo == me.todo \ {i}
           next == IF me.todo = {i} THEN "su_commit" ELSE "su_take"
           rec == Round(me, i, added, gone, told, me.expired)
<1>1. /\ me \in Requests /\ me.pc = "su_take" /\ u \in User /\ UNCHANGED tables
      /\ Good(p) /\ TypeOK /\ TypeOK' /\ RefIntegrity
  BY SuTakeIsSound DEF IInv, TxTypeOK, SuTake, At, Good, Shaped, In, Su
<1>2. /\ u \in users /\ ~me.expired /\ \A b \in Account : role[b][u] = None
      /\ Found(u) # {} /\ me.todo \cup me.added = Found(u)
      /\ Range(me.gone) = Names(me.added) /\ Range(me.told) = Names(me.added)
  BY <1>1 DEF Fits, SignupFits, Su
<1>3. i \in Account \X Role /\ a \in Account /\ a \in accounts /\ role[a][u] = None
  BY <1>1, <1>2 DEF Found, RefIntegrity, Requests
<1>4. Put(p, rec)
  BY <1>2, <1>3 DEF SuTake, StaleDelete
<1>5. /\ added \in SUBSET (Account \X Role) /\ todo \in SUBSET (Account \X Role)
      /\ gone \in Seq(Account) /\ told \in Seq(Account) /\ me.expired \in BOOLEAN
  BY <1>1, <1>3 DEF Requests
<1>6. /\ Names(added) = Names(me.added) \cup {a}
      /\ Range(gone) = Range(me.gone) \cup {a} /\ Range(told) = Range(me.told) \cup {a}
  <2>1. me.gone \in Seq(Account) /\ me.told \in Seq(Account)
    BY <1>1 DEF Requests
  <2> QED
    BY <1>3, <2>1, RangeOfAppend DEF Names
<1>7. todo \cup added = Found(u) /\ (next = "su_commit" => todo = {})
      /\ next \in {"su_take", "su_commit"}
  BY <1>2
<1>8. rec = [me EXCEPT !.todo = todo, !.added = added, !.gone = gone, !.told = told,
                       !.expired = me.expired, !.pc = next]
  BY DEF Round
<1> HIDE DEF added, gone, told, todo, next, rec
<1>9. rec \in Requests
  BY <1>1, <1>5, <1>7, <1>8, AllPcs DEF Requests
<1>10. /\ rec.pc = next /\ rec.u = u /\ rec.todo = todo /\ rec.added = added
       /\ rec.gone = gone /\ rec.told = told /\ rec.expired = me.expired
  BY <1>1, <1>8 DEF Requests
<1>11. Fits(rec)
  BY <1>2, <1>6, <1>7, <1>10
  DEF Fits, RoleFits, RemovalFits, AccountFits, SignupFits, Ur, Rm, Su
<1>12. Fits(w[p])' /\ w'[p] = rec
  BY <1>1, <1>4, <1>9, <1>11, QuietStepFits DEF Put, IInv, TxTypeOK
<1>13. /\ SignedUp = users \ {u}
       /\ Memberships = [b \in Account |-> [v \in User |-> IF v = u THEN None ELSE role[b][v]]]
       /\ Invitations = [b \in Account |-> [v \in User |-> pending[b][v]]]
  BY <1>1, View DEF HidesSignup, In, At, Su
<1>14. /\ SignedUp' = users' \ {u}
       /\ Memberships' = [b \in Account |-> [v \in User |-> IF v = u THEN None ELSE role'[b][v]]]
       /\ Invitations' = [b \in Account |-> [v \in User |-> pending'[b][v]]]
  BY <1>1, <1>7, <1>10, <1>12, View DEF HidesSignup, In, At, Su
<1> QED
  BY <1>1, <1>12, <1>13, <1>14, HiddenIsSeen DEF tables, Serial!vars

LEMMA FoundInvitations ==
  ASSUME NEW u
  PROVE  /\ \A i \in Found(u) : i[1] \in Account /\ pending[i[1]][u] # None
                               /\ i[2] = pending[i[1]][u]
         /\ \A a \in Account : pending[a][u] # None =>
              <<a, pending[a][u]>> \in Found(u) /\ a \in Names(Found(u))
         /\ \A a \in Names(Found(u)) : \E i \in Found(u) : i[1] = a
<1>1. \A i \in Found(u) : i[1] \in Account /\ pending[i[1]][u] # None
                          /\ i[2] = pending[i[1]][u]
  BY DEF Found
<1>2. \A a \in Account : pending[a][u] # None => <<a, pending[a][u]>> \in Found(u)
  BY DEF Found
<1>3. ASSUME NEW a \in Account, pending[a][u] # None PROVE a \in Names(Found(u))
  <2> DEFINE i == <<a, pending[a][u]>>
  <2>1. i \in Found(u) /\ i[1] = a
    BY <1>2, <1>3
  <2> HIDE DEF i
  <2> QED
    BY <2>1 DEF Names
<1>4. \A a \in Names(Found(u)) : \E i \in Found(u) : i[1] = a
  BY DEF Names
<1> QED
  BY <1>1, <1>2, <1>3, <1>4

LEMMA SuCommitIsSeen ==
  ASSUME NEW p \in Worker, Worker = {p}, IInv, Fits(w[p]), SuCommit(p)
  PROVE  Fits(w[p])' /\ Seen
<1> DEFINE me == w[p]  u == w[p].u
           granted(a) == (CHOOSE i \in me.added : i[1] = a)[2]
           rec == [me EXCEPT !.pc = "su_stamp", !.todo = me.added, !.added = {}, !.gone = <<>>]
<1>1. /\ me \in Requests /\ me.pc = "su_commit" /\ u \in User
      /\ UNCHANGED <<users, disabled, lastActive, accounts, home, owner>>
      /\ TypeOK /\ TypeOK'
  BY SuCommitIsSound DEF IInv, TxTypeOK, SuCommit, At, Good, Shaped, In, Su, identity, catalog
<1>2. /\ u \in users /\ ~me.expired /\ \A a \in Account : role[a][u] = None
      /\ Found(u) # {} /\ me.added = Found(u)
      /\ Range(me.gone) = Names(me.added) /\ Range(me.told) = Names(me.added)
  BY <1>1 DEF Fits, SignupFits, Su
<1>3. me.told # <<>>
  <2>1. Names(me.added) # {}
    BY <1>2 DEF Names
  <2> QED
    BY <1>2, <2>1, RangeOfEmpty
<1>4. \A a \in Account : a \in Range(me.told) <=> pending[a][u] # None
  <2>1. Range(me.told) = Names(Found(u))
    BY <1>2
  <2>2. ASSUME NEW a \in Account, a \in Names(Found(u)) PROVE pending[a][u] # None
    BY <2>2, FoundInvitations
  <2>3. ASSUME NEW a \in Account, pending[a][u] # None PROVE a \in Names(Found(u))
    BY <2>3, FoundInvitations
  <2> QED
    BY <2>1, <2>2, <2>3
<1>5. AddedBy(p) = Range(me.told)
  BY <1>2 DEF AddedBy, Names
<1>6. /\ role' = [a \in Account |->
           IF a \in AddedBy(p) THEN [role[a] EXCEPT ![u] = granted(a)] ELSE role[a]]
      /\ pending' = [a \in Account |->
           IF a \in Range(me.gone) THEN [pending[a] EXCEPT ![u] = None] ELSE pending[a]]
      /\ Put(p, rec)
  BY <1>2, <1>3 DEF SuCommit, StaleDelete
<1>7. \A a \in Account : a \in Range(me.told) => granted(a) = pending[a][u]
  <2> SUFFICES ASSUME NEW a \in Account, a \in Range(me.told)
               PROVE  granted(a) = pending[a][u]
    OBVIOUS
  <2>1. PICK i \in me.added : i[1] = a
    BY <1>2, FoundInvitations
  <2> DEFINE chosen == CHOOSE j \in me.added : j[1] = a
  <2>2. chosen \in me.added /\ chosen[1] = a
    BY <2>1
  <2> HIDE DEF chosen
  <2>3. chosen[2] = pending[a][u]
    BY <1>2, <2>2, FoundInvitations
  <2> QED
    BY <2>3 DEF chosen
<1> HIDE DEF granted
<1>8. \A a \in Account : role'[a][u] = pending[a][u] /\ pending'[a][u] = None
  BY <1>1, <1>2, <1>4, <1>5, <1>6, <1>7 DEF TypeOK
<1>9. \A a \in Account, v \in User : v # u => role'[a][v] = role[a][v]
                                              /\ pending'[a][v] = pending[a][v]
  BY <1>1, <1>6 DEF TypeOK
<1>10. rec \in Requests
  <2>1. me.added \in SUBSET (Account \X Role) /\ <<>> \in Seq(Account)
    BY <1>1 DEF Requests
  <2> QED
    BY <1>1, <2>1, AllPcs DEF Requests
<1>11. rec.pc = "su_stamp" /\ rec.u = u /\ rec.todo = me.added /\ rec.told = me.told
  BY <1>1 DEF Requests
<1> HIDE DEF rec
<1>12. w'[p] = rec
  BY <1>6 DEF Put, IInv, TxTypeOK
<1>13. \A i \in me.added : role'[i[1]][u] # None
  BY <1>2, <1>8 DEF Found
<1>14. Fits(w[p])'
  BY <1>1, <1>2, <1>3, <1>4, <1>8, <1>11, <1>12, <1>13
  DEF Fits, RoleFits, RemovalFits, AccountFits, SignupFits, Ur, Rm, Su
<1>15. /\ SignedUp = users \ {u}
       /\ Memberships = [a \in Account |-> [v \in User |-> IF v = u THEN None ELSE role[a][v]]]
       /\ Invitations = [a \in Account |-> [v \in User |-> pending[a][v]]]
  BY <1>1, View DEF HidesSignup, In, At, Su
<1>16. /\ SignedUp' = users' \ {u}
       /\ Memberships' = [a \in Account |-> [v \in User |-> IF v = u THEN None ELSE role'[a][v]]]
       /\ Invitations' = [a \in Account |-> [v \in User |->
            IF v = u /\ a \in Range(me.told) THEN role'[a][v] ELSE pending'[a][v]]]
  BY <1>1, <1>11, <1>12, View DEF HidesSignup, In, At, Su
<1>17. Memberships' = Memberships
  BY <1>9, <1>15, <1>16
<1>18. Invitations' = Invitations
  BY <1>4, <1>8, <1>9, <1>15, <1>16
<1> QED
  BY <1>1, <1>14, <1>15, <1>16, <1>17, <1>18, HiddenIsSeen DEF Serial!vars

LEMMA SuStampIsSeen ==
  ASSUME NEW p \in Worker, Worker = {p}, IInv, Fits(w[p]), SuStamp(p)
  PROVE  Fits(w[p])' /\ Seen
<1> DEFINE me == w[p]  u == w[p].u
           invited == {a \in Account : Invitations[a][u] # None}
<1>1. /\ me \in Requests /\ me.pc = "su_stamp" /\ u \in User
      /\ UNCHANGED <<users, disabled, accounts, role, pending, home, owner>> /\ Finish(p)
      /\ TypeOK /\ TypeOK' /\ RefIntegrity
  BY SuStampIsSound
  DEF IInv, TxTypeOK, SuStamp, At, Good, Shaped, In, Su, membership, catalog
<1>2. /\ u \in users /\ me.told # <<>> /\ \A i \in me.todo : role[i[1]][u] # None
      /\ \A a \in Account : /\ pending[a][u] = None
                            /\ (role[a][u] # None) <=> (a \in Range(me.told))
  BY <1>1 DEF Fits, SignupFits, Su
<1>3. Head(me.told) \in Account /\ Head(me.told) \in Range(me.told)
  <2>1. me.told \in Seq(Account) /\ me.told # <<>>
    BY <1>1, <1>2 DEF Requests
  <2>2. 1 \in DOMAIN me.told /\ Head(me.told) = me.told[1] /\ me.told[1] \in Account
    BY <2>1
  <2> QED
    BY <2>2 DEF Range
<1>4. Head(me.told) \in accounts
  BY <1>1, <1>2, <1>3 DEF RefIntegrity
<1>5. lastActive' = [lastActive EXCEPT ![u] = Head(me.told)]
  BY <1>2, <1>4 DEF SuStamp
<1>6. Fits(w[p])' /\ w'[p] = Idle
  BY <1>1, FinishFits
<1>7. /\ SignedUp = users \ {u}
      /\ Memberships = [a \in Account |-> [v \in User |-> IF v = u THEN None ELSE role[a][v]]]
      /\ Invitations = [a \in Account |-> [v \in User |->
           IF v = u /\ a \in Range(me.told) THEN role[a][v] ELSE pending[a][v]]]
  BY <1>1, View DEF HidesSignup, In, At, Su
<1>8. SignedUp' = users' /\ Memberships' = role' /\ Invitations' = pending'
  BY <1>1, <1>6, IdleHasNothing, View DEF SeesTables, In, Su
<1>9. \A a \in Account : /\ Invitations[a][u] = role[a][u]
                         /\ a \in invited <=> role[a][u] # None
  BY <1>1, <1>2, <1>7, NoneIsFresh
<1>10. Memberships' = [a \in Account |->
         IF a \in invited THEN [Memberships[a] EXCEPT ![u] = Invitations[a][u]]
         ELSE Memberships[a]]
  <2> HIDE DEF invited
  <2> QED
    BY <1>1, <1>7, <1>8, <1>9 DEF TypeOK
<1>11. Invitations' = [a \in Account |-> [Invitations[a] EXCEPT ![u] = None]]
  BY <1>1, <1>2, <1>7, <1>8 DEF TypeOK
<1>12. Head(me.told) \in invited
  BY <1>2, <1>3, <1>9
<1>13. u \notin SignedUp /\ SignedUp' = SignedUp \cup {u}
  BY <1>1, <1>2, <1>7, <1>8
<1>14. Seen
  BY <1>1, <1>5, <1>10, <1>11, <1>12, <1>13, SignupIsSeen
<1> QED
  BY <1>6, <1>14

\* The inductive step of the refinement.
LEMMA OneWorkerServes ==
  ASSUME NEW p \in Worker, Worker = {p}, SerialInv(p), [TxNext]_txvars, ~Crash(p)
  PROVE  Seen /\ SerialInv(p)'
<1>1. IInv /\ Fits(w[p]) /\ IInv'
  BY NextIsSound DEF SerialInv
<1>2. TypeOK /\ TypeOK' /\ w[p] \in Requests
  BY <1>1 DEF IInv, TxTypeOK
<1>3. ASSUME Outside(p), [Next]_vars PROVE Seen
  <2>1. /\ SignedUp = users /\ Memberships = role /\ Invitations = pending
        /\ SignedUp' = users' /\ Memberships' = role' /\ Invitations' = pending'
    BY <1>2, <1>3, View DEF Outside, SeesTables
  <2> QED
    BY <1>3, <2>1, ServedIsSeen
<1>4. UNCHANGED tables => [Next]_vars
  BY DEF tables, vars
<1>5. CASE Arrive(p)
  <2>1. CASE \E u \in User : SuCreate(p, u)
    BY <1>1, <2>1, SuCreateIsSeen DEF SerialInv
  <2>2. CASE \A u \in User : ~SuCreate(p, u)
    BY <1>1, <1>3, <1>4, <1>5, <2>2, ArrivalFits DEF SerialInv
  <2> QED
    BY <2>1, <2>2
<1>6. CASE Proceed(p)
  <2>1. CASE UrLock(p) \/ UrGuard(p) \/ RmLock(p) \/ RmGuard(p) \/ RmAssign(p)
    BY <1>1, <1>3, <1>4, <2>1, LockAndGuardFit DEF SerialInv
  <2>2. CASE UrWrite(p) \/ RmCommit(p) \/ IvAdd(p) \/ IvPend(p) \/ DaDelete(p)
    BY <1>1, <1>3, <2>2, CommitIsServed DEF SerialInv
  <2>3. CASE SuRead(p) \/ (\E i \in w[p].todo : SuTake(p, i)) \/ SuCommit(p) \/ SuStamp(p)
    BY <1>1, <2>3, SuReadIsSeen, SuTakeIsSeen, SuCommitIsSeen, SuStampIsSeen DEF SerialInv
  <2>4. ~DeadlockVictim(p)
    BY DEF DeadlockVictim, WaitsFor
  <2> QED
    BY <1>6, <2>1, <2>2, <2>3, <2>4 DEF Proceed
<1>7. CASE OneShot
  BY <1>1, <1>3, <1>7, OneShotIsServed DEF SerialInv
<1>8. CASE UNCHANGED txvars
  <2>1. UNCHANGED tables /\ w' = w
    BY <1>8 DEF txvars, tables
  <2>2. w' = [w EXCEPT ![p] = w[p]]
    BY <1>1, <2>1 DEF IInv, TxTypeOK
  <2>3. Fits(w[p])'
    BY <1>1, <1>2, <2>1, <2>2, QuietStepFits
  <2>4. SignedUp' = SignedUp /\ Memberships' = Memberships /\ Invitations' = Invitations
    BY <2>1 DEF tables, SignedUp, Memberships, Invitations, SigningUp, InSignup, Granted, At
  <2>5. UNCHANGED Serial!vars
    BY <2>1, <2>4 DEF tables, Serial!vars
  <2> QED
    BY <1>1, <2>3, <2>5, HiddenIsSeen DEF SerialInv
<1> QED
  BY <1>5, <1>6, <1>7, <1>8 DEF TxNext

LEMMA OneWorkerStarts ==
  ASSUME NEW p \in Worker, Worker = {p}, TxInit
  PROVE  Serial!Init /\ SerialInv(p)
<1>1. IInv /\ w[p] = Idle
  BY InitIsSound DEF TxInit
<1>2. SerialInv(p)
  BY <1>1, IdleFits DEF SerialInv
<1>3. InSignup = {}
  BY <1>1, IdleHasNothing DEF InSignup
<1>4. SigningUp = {} /\ \A a \in Account, u \in User : ~Granted(a, u)
  BY <1>3 DEF SigningUp, Granted
<1>5. SignedUp = users /\ Memberships = role /\ Invitations = pending
  BY <1>1, <1>4 DEF SignedUp, Memberships, Invitations, IInv, TxTypeOK, TypeOK
<1> QED
  BY <1>2, <1>5 DEF TxInit, Init, Serial!Init, Nobody, Serial!Nobody

\* One worker that serves every request, and does not crash, implements the atomic
\* service of Accounts: what the handlers of accounts.py and users.py read before
\* they write is only ever wrong because another request commits in between.
THEOREM OneWorkerIsSerial ==
  ASSUME NEW CONSTANT p, Worker = {p}, MayCrash = FALSE
  PROVE  TxSpec => ImplementsSerial
<1>1. TxInit => Serial!Init /\ SerialInv(p)
  BY OneWorkerStarts
<1>2. SerialInv(p) /\ [TxNext]_txvars => SerialInv(p)' /\ [Serial!Next]_Serial!vars
  BY OneWorkerServes DEF Seen, Crash
<1> QED
  BY <1>1, <1>2, PTL DEF TxSpec, ImplementsSerial, Serial!Spec

-----------------------------------------------------------------------------
(* What the atomic service guarantees of every step holds of the steps of  *)
(* one worker, which are its requests or part of a signup.                 *)

\* No user, membership or catalog row is taken away or rewritten.
TakesNothingAway ==
  /\ users \subseteq users' /\ UNCHANGED <<disabled, home, owner>>
  /\ \A a \in Account, u \in User : role[a][u] # None => role'[a][u] = role[a][u]

LEMMA SignupTakesNothingAway ==
  ASSUME NEW p \in Worker, IInv, Fits(w[p]),
         \/ \E u \in User : SuCreate(p, u)
         \/ SuRead(p) \/ (\E i \in w[p].todo : SuTake(p, i)) \/ SuCommit(p) \/ SuStamp(p)
  PROVE  TakesNothingAway
<1>1. CASE \/ \E u \in User : SuCreate(p, u)
           \/ SuRead(p) \/ (\E i \in w[p].todo : SuTake(p, i)) \/ SuStamp(p)
  BY <1>1 DEF SuCreate, SuRead, SuTake, SuStamp, TakesNothingAway, tables, membership, catalog
<1>2. CASE SuCommit(p)
  <2>1. TypeOK /\ w[p].pc = "su_commit"
    BY <1>2 DEF IInv, TxTypeOK, SuCommit, At
  <2>2. \A a \in Account : role[a][w[p].u] = None
    BY <2>1 DEF Fits, SignupFits
  <2>3. \A a \in Account, v \in User : v # w[p].u => role'[a][v] = role[a][v]
    BY <1>2, <2>1 DEF SuCommit, TypeOK, membership
  <2>4. UNCHANGED <<users, disabled, home, owner>>
    BY <1>2 DEF SuCommit, identity, catalog
  <2> QED
    BY <2>2, <2>3, <2>4 DEF TakesNothingAway
<1> QED
  BY <1>1, <1>2

LEMMA OneWorkerSteps ==
  ASSUME NEW p \in Worker, Worker = {p}, SerialInv(p), [TxNext]_txvars
  PROVE  SerialInv(p)' /\ ([Next]_vars \/ TakesNothingAway)
<1>1. IInv /\ Fits(w[p])
  BY DEF SerialInv
<1>2. UNCHANGED tables => [Next]_vars
  BY DEF tables, vars
<1>a. SerialInv(p)'
  <2>1. CASE Crash(p)
    BY <1>1, <2>1, NextIsSound, FinishFits DEF Crash, SerialInv
  <2>2. CASE ~Crash(p)
    BY <2>2, OneWorkerServes
  <2> QED
    BY <2>1, <2>2
<1>b. CASE Crash(p)
  BY <1>a, <1>b, <1>2 DEF Crash
<1>3. CASE Arrive(p)
  BY <1>1, <1>a, <1>2, <1>3, SignupTakesNothingAway, ArrivalFits
<1>4. CASE Proceed(p)
  <2>1. CASE UrLock(p) \/ UrGuard(p) \/ RmLock(p) \/ RmGuard(p) \/ RmAssign(p)
    BY <1>1, <1>a, <1>2, <2>1, LockAndGuardFit
  <2>2. CASE UrWrite(p) \/ RmCommit(p) \/ IvAdd(p) \/ IvPend(p) \/ DaDelete(p)
    BY <1>1, <1>a, <2>2, CommitIsServed
  <2>3. CASE SuRead(p) \/ (\E i \in w[p].todo : SuTake(p, i)) \/ SuCommit(p) \/ SuStamp(p)
    BY <1>1, <1>a, <2>3, SignupTakesNothingAway
  <2>4. ~DeadlockVictim(p)
    BY DEF DeadlockVictim, WaitsFor
  <2> QED
    BY <1>4, <2>1, <2>2, <2>3, <2>4 DEF Proceed
<1>5. CASE OneShot
  BY <1>1, <1>a, <1>5, OneShotIsServed
<1>6. CASE UNCHANGED txvars
  BY <1>a, <1>2, <1>6 DEF txvars, tables
<1> QED
  BY <1>b, <1>3, <1>4, <1>5, <1>6 DEF TxNext

LEMMA OneWorkerIsGuarded ==
  ASSUME NEW p \in Worker, Worker = {p}, SerialInv(p), [TxNext]_txvars
  PROVE  /\ [Guarded]_vars
         /\ [\A r \in Row : CanOwn(r)]_vars
         /\ [\A a \in Account, u \in User : EndsAccess(a, u)]_vars
<1>1. TypeOK /\ RefIntegrity
  BY DEF SerialInv, IInv, TxTypeOK
<1>2. CASE [Next]_vars
  BY <1>1, <1>2, NextIsGuarded, InheritorsCanOwn, HandoversEndAccess
<1>3. CASE TakesNothingAway
  <2>1. \A a \in Account : ActiveAdmins(a) \subseteq ActiveAdmins(a)'
    BY <1>1, <1>3, NoneIsFresh DEF TakesNothingAway, ActiveAdmins, TypeOK, Role
  <2>2. Guarded
    BY <2>1 DEF Guarded, Stranded
  <2>3. \A r \in Row : CanOwn(r)
    BY <1>3 DEF TakesNothingAway, CanOwn
  <2>4. \A a \in Account, u \in User : EndsAccess(a, u)
    BY <1>3 DEF TakesNothingAway, EndsAccess, HandsOver
  <2> QED
    BY <2>2, <2>3, <2>4
<1> QED
  BY <1>2, <1>3, OneWorkerSteps

\* With one worker the properties of the atomic service are properties of the
\* statements, wherever it crashes: the last-admin guard is never passed in vain, who
\* inherits can own, and a removal with an heir ends access.
THEOREM OneWorkerIsSafe ==
  ASSUME NEW CONSTANT p, Worker = {p}
  PROVE  TxSpec => GuardHolds /\ InheritorCanOwn /\ HandoverEndsAccess
<1>1. TxInit => SerialInv(p)
  BY OneWorkerStarts
<1>2. SerialInv(p) /\ [TxNext]_txvars => SerialInv(p)'
  BY OneWorkerSteps
<1>3. SerialInv(p) /\ [TxNext]_txvars =>
        /\ [Guarded]_vars
        /\ [\A r \in Row : CanOwn(r)]_vars
        /\ [\A a \in Account, u \in User : EndsAccess(a, u)]_vars
  BY OneWorkerIsGuarded
<1> QED
  BY <1>1, <1>2, <1>3, PTL
  DEF TxSpec, GuardHolds, Guarded, InheritorCanOwn, CanOwn, HandoverEndsAccess, EndsAccess

=============================================================================
