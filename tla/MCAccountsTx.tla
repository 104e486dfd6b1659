---------------------------- MODULE MCAccountsTx ----------------------------
(* Bounded instances of AccountsTx for TLC. *)
EXTENDS AccountsTx, TLC

CONSTANTS u1, u2, u3, a1, a2, r1, r2, w1, w2

ThreeUsers  == {u1, u2, u3}
TwoUsers    == {u1, u2}
OneUser     == {u1}
OneAccount  == {a1}
TwoAccounts == {a1, a2}
OneRow      == {r1}
TwoRows     == {r1, r2}
OneWorker   == {w1}
TwoWorkers  == {w1, w2}

\* An account in use: every user is registered, the account has an active admin,
\* every catalog row is owned by some member.
InUse ==
  /\ users = User /\ disabled = {} /\ accounts = {a1}
  /\ lastActive = Nobody
  /\ pending = [a \in Account |-> Nobody]
  /\ role \in {f \in [Account -> [User -> Role \cup {None}]] :
                 /\ \E u \in User : f[a1][u] = "account-admin"
                 /\ \A a \in Account \ {a1} : f[a] = Nobody}
  /\ home = [r \in Row |-> a1]
  /\ owner \in {f \in [Row -> User] : \A r \in Row : role[a1][f[r]] # None}
  /\ w = [p \in Worker |-> Idle]

Symmetry == Permutations(User) \cup Permutations(Worker)

InUseSpec == InUse /\ [][TxNext]_txvars
FairInUseSpec == InUseSpec /\ Fairness
=============================================================================
