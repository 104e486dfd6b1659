----------------------------- MODULE RateLimit -----------------------------
(***************************************************************************)
(* The token bucket of one client in one server process                    *)
(* (mcp_server/ratelimit.py, mcp_server/middleware.py).  A request reads   *)
(* the clock, waits for the lock, and then refills and takes from the      *)
(* bucket as of the time it has read: requests reach the lock in any order.*)
(* That is what the class allows, which has a lock because threads may     *)
(* share it.  The middleware calls it from the event loop without an await *)
(* in between, so that the requests of a process come one by one: those    *)
(* behaviours are among the ones here, with slip = 0 throughout.           *)
(* Levels are counted in fractions of a token, One of them to a token.     *)
(*                                                                         *)
(* slip, log and mark are history: how much time the bucket has been       *)
(* refilled for twice, the admissions, and what the bucket held after the  *)
(* last of them.                                                           *)
(***************************************************************************)
EXTENDS Integers, Sequences, FiniteSetsExt

CONSTANTS
  Thread,      \* request-serving threads of the process
  One,         \* fractions in a token
  Rate,        \* fractions refilled per unit of time
  Capacity,    \* fractions a full bucket holds
  MaxTime,     \* bound on the clock
  None

ASSUME RatesArePositive == {One, Rate, Capacity} \subseteq Nat \ {0} /\ One <= Capacity
ASSUME TimeIsFinite     == MaxTime \in Nat

Buckets    == [tokens : 0..Capacity, last : 0..MaxTime]
Admissions == [at : 0..MaxTime, slip : Nat]
Marks      == [level : 0..Capacity, at : 0..MaxTime]

ASSUME NoneIsNothing == None \notin Nat \cup Buckets \cup Marks

VARIABLES
  now,         \* time.monotonic()
  bucket,      \* _tokens and _last_refill of the client; None when absent
  seen,        \* seen[t]: the time thread t has read and waits for the lock with
  slip, log, mark

vars == <<now, bucket, seen, slip, log, mark>>

Init ==
  /\ now = 0 /\ seen = [t \in Thread |-> None]
  /\ bucket = None /\ slip = 0 /\ log = <<>> /\ mark = None

TypeOK ==
  /\ now \in 0..MaxTime /\ slip \in Nat
  /\ bucket \in Buckets \cup {None}
  /\ seen \in [Thread -> 0..MaxTime \cup {None}]
  /\ log \in Seq(Admissions)
  /\ mark \in Marks \cup {None} /\ (mark # None => bucket # None)
  /\ \A t \in {seen[u] : u \in Thread} \ {None} : t <= now

-----------------------------------------------------------------------------
\* What the bucket holds and was last refilled at, for a request that read time n:
\* an absent one is full and refilled at n.
Tokens(n) == IF bucket = None THEN Capacity ELSE bucket.tokens
Last(n)   == IF bucket = None THEN n ELSE bucket.last
Elapsed(n) == Max({0, n - Last(n)})

\* The variant forgets the capacity.
UncappedLevel(n) == Tokens(n) + Rate * Elapsed(n)
Level(n) == Min({Capacity, Tokens(n) + Rate * Elapsed(n)})

\* dispatch: the clock is read before the lock is taken.
Arrive(t) ==
  /\ seen[t] = None
  /\ seen' = [seen EXCEPT ![t] = now]
  /\ UNCHANGED <<now, bucket, slip, log, mark>>

\* The bucket afterwards; a refused request leaves the refill in it.  The variant
\* moves the refill time and drops what was refilled.
AfterDroppingRefill(n) ==
  [tokens |-> IF Level(n) >= One THEN Level(n) - One ELSE Tokens(n), last |-> n]
After(n) ==
  [tokens |-> IF Level(n) >= One THEN Level(n) - One ELSE Level(n), last |-> n]

Allow(t) ==
  LET n == seen[t]
  IN /\ n # None
     /\ bucket' = After(n)
     /\ seen' = [seen EXCEPT ![t] = None]
     /\ slip' = slip + Max({0, Last(n) - n})
     /\ IF Level(n) >= One
        THEN /\ log' = Append(log, [at |-> n, slip |-> slip'])
             /\ mark' = [level |-> After(n).tokens, at |-> n]
        ELSE UNCHANGED <<log, mark>>
     /\ UNCHANGED now

Tick == now < MaxTime /\ now' = now + 1 /\ UNCHANGED <<bucket, seen, slip, log, mark>>

\* The buckets are lost with the process, and its requests with them.
Restart ==
  /\ bucket # None
  /\ bucket' = None /\ slip' = 0 /\ log' = <<>> /\ mark' = None
  /\ seen' = [t \in Thread |-> None]
  /\ UNCHANGED now

Next == (\E t \in Thread : Arrive(t) \/ Allow(t)) \/ Tick \/ Restart

Spec == Init /\ [][Next]_vars

-----------------------------------------------------------------------------
(* Properties.                                                             *)

\* In any stretch of time at most a full bucket and what is refilled in it is
\* admitted, and no more than the time refilled twice on top: the next refill counts
\* from the reading of the thread that was overtaken on the way to the lock.
BurstBound ==
  \A i \in 1..Len(log) : \A j \in i..Len(log) :
    LET time  == log[j].at - log[i].at
        twice == log[j].slip - log[i].slip
    IN (j - i + 1) * One <= Capacity + Rate * (time + twice)

\* Asking too early costs nothing: whatever was refused since the last admission,
\* at any later time the bucket holds at least what it would have without.
PollingIsFree ==
  mark # None =>
    \A n \in bucket.last..MaxTime :
      Level(n) >= Min({Capacity, mark.level + Rate * (n - mark.at)})
=============================================================================
