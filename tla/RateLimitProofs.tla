-------------------------- MODULE RateLimitProofs --------------------------
(***************************************************************************)
(* What RateLimit guarantees for any number of threads, rate and capacity. *)
(* The argument for the bound on bursts is a balance: since any admission, *)
(* what was admitted and what the bucket still holds together never exceed *)
(* a full bucket and what was refilled.                                    *)
(***************************************************************************)
EXTENDS RateLimit, TLAPS

\* What was admitted from admission i on, and is left, was in the bucket or refilled.
Balance ==
  \A i \in 1..Len(log) :
    (Len(log) - i + 1) * One + bucket.tokens
      <= Capacity + Rate * (bucket.last + slip - log[i].at - log[i].slip)

Balanced == (log # <<>> => bucket # None) /\ Balance /\ BurstBound

-----------------------------------------------------------------------------
LEMMA MinOfTwo ==
  ASSUME NEW x \in Int, NEW y \in Int
  PROVE  Min({x, y}) = IF x <= y THEN x ELSE y
<1> DEFINE m == IF x <= y THEN x ELSE y
<1>1. m \in {x, y} /\ \A z \in {x, y} : m <= z
  OBVIOUS
<1>2. \A z \in {x, y} : (\A w \in {x, y} : z <= w) => z = m
  OBVIOUS
<1> HIDE DEF m
<1>3. Min({x, y}) = m
  BY <1>1, <1>2 DEF Min
<1> QED
  BY <1>3 DEF m

LEMMA MaxOfTwo ==
  ASSUME NEW x \in Int, NEW y \in Int
  PROVE  Max({x, y}) = IF x >= y THEN x ELSE y
<1> DEFINE m == IF x >= y THEN x ELSE y
<1>1. m \in {x, y} /\ \A z \in {x, y} : m >= z
  OBVIOUS
<1>2. \A z \in {x, y} : (\A w \in {x, y} : z >= w) => z = m
  OBVIOUS
<1> HIDE DEF m
<1>3. Max({x, y}) = m
  BY <1>1, <1>2 DEF Max
<1> QED
  BY <1>3 DEF m

LEMMA RatesAreNatural == One \in Nat /\ Rate \in Nat /\ Capacity \in Nat /\ One <= Capacity
BY RatesArePositive

LEMMA RateDistributes ==
  ASSUME NEW x \in Int, NEW y \in Int
  PROVE  /\ Rate * (x + y) = Rate * x + Rate * y
         /\ Rate * (x - y) = Rate * x - Rate * y
         /\ Rate * x \in Int /\ (x >= 0 => Rate * x >= 0)
<1>1. Rate \in Nat
  BY RatesArePositive
<1> QED
  BY <1>1

\* What is kept, taken and refilled adds up.
LEMMA BalanceStep ==
  ASSUME NEW held \in Int, NEW before \in Int, NEW moved \in Int,
         NEW tokens \in Int, NEW left \in Int, NEW taken \in Int,
         held + tokens <= Capacity + Rate * before,
         left + taken <= tokens + Rate * moved
  PROVE  held + taken + left <= Capacity + Rate * (before + moved)
<1>1. Rate * (before + moved) = Rate * before + Rate * moved
      /\ Rate * before \in Int /\ Rate * moved \in Int
  BY RateDistributes
<1> QED
  BY <1>1, RatesAreNatural

\* The level is the refilled one or the capacity, whichever is less.
LEMMA LevelIsCapped ==
  ASSUME TypeOK, NEW n \in Nat
  PROVE  /\ Level(n) \in 0..Capacity /\ Elapsed(n) \in Nat /\ Last(n) \in Nat
         /\ Tokens(n) \in 0..Capacity
         /\ Elapsed(n) = IF n >= Last(n) THEN n - Last(n) ELSE 0
         /\ Level(n) <= Tokens(n) + Rate * Elapsed(n)
         /\ Level(n) = Capacity \/ Level(n) = Tokens(n) + Rate * Elapsed(n)
<1> USE RatesArePositive, TimeIsFinite
<1>1. Last(n) \in Nat /\ Tokens(n) \in 0..Capacity
  BY DEF TypeOK, Buckets, Last, Tokens
<1>2. Elapsed(n) = IF n >= Last(n) THEN n - Last(n) ELSE 0
  BY <1>1, MaxOfTwo DEF Elapsed
<1>3. Elapsed(n) \in Nat
  BY <1>1, <1>2
<1>4. Rate * Elapsed(n) \in Nat
  BY <1>3
<1>5. Level(n) = IF Capacity <= Tokens(n) + Rate * Elapsed(n) THEN Capacity
                 ELSE Tokens(n) + Rate * Elapsed(n)
  BY <1>1, <1>4, MinOfTwo DEF Level
<1> QED
  BY <1>1, <1>2, <1>3, <1>4, <1>5

-----------------------------------------------------------------------------
\* Clock, bucket and history stay well typed: the bucket never holds less than nothing
\* nor more than its capacity.
THEOREM TypeCorrect == Spec => []TypeOK
<1> USE RatesArePositive, TimeIsFinite, NoneIsNothing
<1>1. Init => TypeOK
  BY DEF Init, TypeOK
<1>2. TypeOK /\ [Next]_vars => TypeOK'
  <2> SUFFICES ASSUME TypeOK, [Next]_vars PROVE TypeOK'
    OBVIOUS
  <2>1. ASSUME NEW t \in Thread, Arrive(t) PROVE TypeOK'
    BY <2>1 DEF TypeOK, Arrive
  <2>2. ASSUME NEW t \in Thread, Allow(t) PROVE TypeOK'
    <3> DEFINE n == seen[t]
               step == Max({0, Last(n) - n})
    <3>1. n \in 0..MaxTime /\ n <= now
      BY <2>2 DEF TypeOK, Allow
    <3>2. Level(n) \in 0..Capacity /\ Last(n) \in Nat /\ Tokens(n) \in 0..Capacity
      BY <3>1, LevelIsCapped
    <3>3. After(n) \in Buckets /\ After(n).tokens \in 0..Capacity
      BY <3>1, <3>2 DEF After, Buckets
    <3>4. step \in Nat
      BY <3>1, <3>2, MaxOfTwo
    <3>5. slip' = slip + step /\ slip' \in Nat
      BY <2>2, <3>4 DEF Allow, TypeOK
    <3>6. [at |-> n, slip |-> slip'] \in Admissions /\ [level |-> After(n).tokens, at |-> n] \in Marks
      BY <3>1, <3>3, <3>5 DEF Admissions, Marks
    <3>7. log' \in Seq(Admissions)
      <4>1. log \in Seq(Admissions)
        BY DEF TypeOK
      <4>2. log' = log \/ log' = Append(log, [at |-> n, slip |-> slip'])
        BY <2>2 DEF Allow
      <4> DEFINE entry == [at |-> n, slip |-> slip']
      <4>3. entry \in Admissions
        BY <3>6
      <4> HIDE DEF entry
      <4>4. Append(log, entry) \in Seq(Admissions)
        BY <4>1, <4>3
      <4> QED
        BY <4>1, <4>2, <4>4 DEF entry
    <3>8. mark' \in Marks \cup {None} /\ bucket' \in Buckets /\ now' = now
      BY <2>2, <3>3, <3>6 DEF Allow, TypeOK
    <3>9. seen' = [seen EXCEPT ![t] = None]
      BY <2>2 DEF Allow
    <3> QED
      BY <3>5, <3>7, <3>8, <3>9 DEF TypeOK
  <2>3. ASSUME Tick PROVE TypeOK'
    <3>1. now' = now + 1 /\ now' \in 0..MaxTime /\ now \in 0..MaxTime
      BY <2>3 DEF TypeOK, Tick
    <3>2. UNCHANGED <<bucket, seen, slip, log, mark>>
      BY <2>3 DEF Tick
    <3>3. \A t \in {seen[u] : u \in Thread} \ {None} : t <= now'
      <4> SUFFICES ASSUME NEW u \in Thread, seen[u] # None PROVE seen[u] <= now'
        OBVIOUS
      <4>1. seen[u] \in 0..MaxTime /\ seen[u] <= now
        BY DEF TypeOK
      <4> QED
        BY <3>1, <4>1
    <3> QED
      BY <3>1, <3>2, <3>3 DEF TypeOK
  <2>4. ASSUME Restart PROVE TypeOK'
    BY <2>4 DEF TypeOK, Restart
  <2>5. ASSUME UNCHANGED vars PROVE TypeOK'
    BY <2>5 DEF TypeOK, vars
  <2> QED
    BY <2>1, <2>2, <2>3, <2>4, <2>5 DEF Next
<1> QED
  BY <1>1, <1>2, PTL DEF Spec

-----------------------------------------------------------------------------
\* What a request takes, and leaves, was in the bucket or is refilled for the time the
\* bucket's clock moves, forward or back.
LEMMA RequestsBalance ==
  ASSUME TypeOK, NEW t \in Thread, Allow(t), bucket # None
  PROVE  LET moved == bucket'.last + slip' - bucket.last - slip
             taken == IF Level(seen[t]) >= One THEN One ELSE 0
         IN moved \in Nat /\ bucket'.tokens + taken <= bucket.tokens + Rate * moved
<1> USE RatesArePositive, TimeIsFinite, NoneIsNothing
<1> DEFINE n == seen[t]
<1>1. n \in Nat /\ bucket.last \in Nat /\ bucket.tokens \in 0..Capacity /\ slip \in Nat
  BY DEF TypeOK, Allow, Buckets
<1>2. Last(n) = bucket.last /\ Tokens(n) = bucket.tokens
  BY DEF Last, Tokens
<1>3. /\ bucket'.last = n
      /\ bucket'.tokens = IF Level(n) >= One THEN Level(n) - One ELSE Level(n)
  BY DEF Allow, After
<1>4. slip' = slip + (IF bucket.last >= n THEN bucket.last - n ELSE 0)
  <2>1. slip' = slip + Max({0, bucket.last - n})
    BY <1>2 DEF Allow
  <2>2. bucket.last - n \in Int
    BY <1>1
  <2>3. Max({0, bucket.last - n}) = IF 0 >= bucket.last - n THEN 0 ELSE bucket.last - n
    BY <2>2, MaxOfTwo
  <2> QED
    BY <1>1, <2>1, <2>3
<1>5. bucket'.last + slip' - bucket.last - slip = Elapsed(n) /\ Elapsed(n) \in Nat
  BY <1>1, <1>2, <1>3, <1>4, LevelIsCapped
<1>6. Level(n) \in Nat /\ Level(n) <= bucket.tokens + Rate * Elapsed(n)
  BY <1>1, <1>2, LevelIsCapped
<1> QED
  BY <1>3, <1>5, <1>6

LEMMA BalanceInvariant == Spec => []Balanced
<1>1. Init => Balanced
  BY DEF Init, Balanced, Balance, BurstBound
<1>2. TypeOK /\ TypeOK' /\ Balanced /\ [Next]_vars => Balanced'
  <2> SUFFICES ASSUME TypeOK, TypeOK', Balanced, [Next]_vars PROVE Balanced'
    OBVIOUS
  <2>1. ASSUME UNCHANGED <<bucket, slip, log>> PROVE Balanced'
    BY <2>1 DEF Balanced, Balance, BurstBound
  <2>2. ASSUME NEW t \in Thread, Allow(t) PROVE Balanced'
    <3> DEFINE n     == seen[t]
               moved == bucket'.last + slip' - bucket.last - slip
               taken == IF Level(n) >= One THEN One ELSE 0
               entry == [at |-> n, slip |-> slip']
    <3>1. n \in Nat /\ n \in 0..MaxTime
      BY <2>2, TimeIsFinite DEF TypeOK, Allow
    <3>2. bucket' # None /\ bucket'.last = n /\ bucket'.last \in Nat
      <4>1. After(n) \in Buckets /\ After(n).last = n
        BY <3>1, LevelIsCapped, RatesAreNatural DEF After, Buckets
      <4> QED
        BY <2>2, <3>1, <4>1, NoneIsNothing DEF Allow
    <3>3. bucket'.tokens \in Nat /\ slip \in Nat /\ slip' \in Nat
      BY <3>2, RatesAreNatural DEF TypeOK, Buckets
    <3>4. Level(n) \in 0..Capacity
      BY <3>1, LevelIsCapped
    <3>5. taken \in Int
      BY RatesAreNatural
    <3>6. log \in Seq(Admissions) /\ Len(log) \in Nat
      BY DEF TypeOK
    <3>7. \A i \in 1..Len(log) : log[i].at \in Nat /\ log[i].slip \in Nat
      <4>1. \A i \in 1..Len(log) : log[i] \in Admissions
        BY <3>6
      <4> QED
        BY <4>1, TimeIsFinite DEF Admissions
    <3>8. ASSUME NEW i \in 1..Len(log)
          PROVE  (Len(log) - i + 1) * One + taken + bucket'.tokens
                   <= Capacity + Rate * (bucket'.last + slip' - log[i].at - log[i].slip)
      <4> DEFINE before == bucket.last + slip - log[i].at - log[i].slip
                 held   == (Len(log) - i + 1) * One
      <4>1. bucket # None /\ bucket.last \in Nat /\ bucket.tokens \in Nat
        <5>1. bucket # None
          BY <3>6, <3>8 DEF Balanced
        <5> QED
          BY <5>1, RatesAreNatural, TimeIsFinite DEF TypeOK, Buckets
      <4>2. moved \in Nat /\ bucket'.tokens + taken <= bucket.tokens + Rate * moved
        BY <2>2, <4>1, RequestsBalance
      <4>3. held + bucket.tokens <= Capacity + Rate * before
        BY DEF Balanced, Balance
      <4>4. before \in Int
        BY <3>3, <3>7, <4>1
      <4>5. held \in Int
        BY <3>6, RatesAreNatural
      <4>6. bucket'.last + slip' - log[i].at - log[i].slip = before + moved
        <5>1. log[i].at \in Nat /\ log[i].slip \in Nat
          BY <3>7
        <5>2. bucket.last \in Nat /\ bucket'.last \in Nat /\ slip \in Nat /\ slip' \in Nat
          BY <3>2, <3>3, <4>1
        <5> HIDE DEF n, taken, entry, held
        <5> QED
          BY <5>1, <5>2
      <4>7. moved \in Int /\ bucket.tokens \in Int /\ bucket'.tokens \in Int
        BY <3>3, <4>1, <4>2
      <4> HIDE DEF before, held, moved, taken
      <4>8. held + taken + bucket'.tokens <= Capacity + Rate * (before + moved)
        BY <3>5, <4>2, <4>3, <4>4, <4>5, <4>7, BalanceStep, Zenon
      <4>9. (Len(log) - i + 1) * One = held
        BY DEF held
      <4> QED
        BY <4>6, <4>8, <4>9
    <3>9. CASE ~(Level(n) >= One)
      <4>1. log' = log /\ taken = 0
        BY <2>2, <3>9 DEF Allow
      <4>2. ASSUME NEW i \in 1..Len(log)
            PROVE  (Len(log) - i + 1) * One + bucket'.tokens
                     <= Capacity + Rate * (bucket'.last + slip' - log[i].at - log[i].slip)
        <5>1. (Len(log) - i + 1) * One \in Int
          BY <3>6, RatesAreNatural
        <5> HIDE DEF taken
        <5>2. (Len(log) - i + 1) * One + taken = (Len(log) - i + 1) * One
          BY <4>1, <5>1
        <5> QED
          BY <3>8, <5>2
      <4>3. Balance'
        BY <4>1, <4>2 DEF Balance
      <4> QED
        BY <3>2, <4>1, <4>3 DEF Balanced, BurstBound
    <3>10. CASE Level(n) >= One
      <4> DEFINE k == Len(log) + 1
      <4>1. log' = Append(log, entry) /\ taken = One
        BY <2>2, <3>10 DEF Allow
      <4>2. /\ Len(log') = k /\ k \in Nat /\ log'[k] = entry
            /\ \A i \in 1..Len(log) : log'[i] = log[i]
        BY <3>6, <4>1
      <4>3. log'[k].at = n /\ log'[k].slip = slip'
        BY <4>2
      <4>4. bucket'.tokens + One <= Capacity
        <5>1. bucket'.tokens = Level(n) - One
          BY <2>2, <3>10 DEF Allow, After
        <5> QED
          BY <3>4, <5>1, RatesAreNatural
      <4> HIDE DEF k, entry
      <4>5. ASSUME NEW i \in 1..k
            PROVE  (k - i + 1) * One + bucket'.tokens
                     <= Capacity + Rate * (bucket'.last + slip' - log'[i].at - log'[i].slip)
        <5>1. CASE i = k
          <6>1. bucket'.last + slip' - log'[i].at - log'[i].slip = 0
            BY <3>1, <3>2, <3>3, <4>3, <5>1
          <6>2. k - i + 1 = 1
            BY <4>2, <5>1
          <6>3. Rate * 0 = 0 /\ 1 * One = One
            BY RatesAreNatural
          <6> QED
            BY <3>3, <4>4, <6>1, <6>2, <6>3, RatesAreNatural
        <5>2. CASE i # k
          <6>1. i \in 1..Len(log) /\ log'[i] = log[i]
            BY <3>6, <4>2, <5>2 DEF k
          <6>2. (k - i + 1) * One = (Len(log) - i + 1) * One + One
            <7>1. \A x \in Int : (x + 1) * One = x * One + One
              BY RatesAreNatural
            <7>2. k - i + 1 = (Len(log) - i + 1) + 1 /\ Len(log) - i + 1 \in Int
              BY <3>6 DEF k
            <7> QED
              BY <7>1, <7>2
          <6> QED
            BY <3>8, <4>1, <6>1, <6>2
        <5> QED
          BY <5>1, <5>2
      <4>6. Balance'
        BY <4>2, <4>5 DEF Balance
      <4>7. ASSUME NEW i \in 1..k
            PROVE  (k - i + 1) * One
                     <= Capacity + Rate * (log'[k].at - log'[i].at + (log'[k].slip - log'[i].slip))
        <5> DEFINE held  == (k - i + 1) * One
                   since == log'[k].at - log'[i].at + (log'[k].slip - log'[i].slip)
        <5>1. log'[i].at \in Nat /\ log'[i].slip \in Nat
          <6>1. (log'[i] = log[i] /\ i \in 1..Len(log)) \/ i = k
            BY <3>6, <4>2 DEF k
          <6> QED
            BY <3>1, <3>3, <3>7, <4>3, <6>1
        <5>2. since = bucket'.last + slip' - log'[i].at - log'[i].slip /\ since \in Int
          BY <3>1, <3>2, <3>3, <4>3, <5>1
        <5>3. held \in Int
          BY <4>2, RatesAreNatural
        <5>4. Rate * since \in Int
          BY <5>2, RateDistributes
        <5>5. held + bucket'.tokens <= Capacity + Rate * since
          BY <4>5, <5>2
        <5> HIDE DEF held, since
        <5>6. held <= Capacity + Rate * since
          BY <3>3, <5>3, <5>4, <5>5, RatesAreNatural
        <5> QED
          BY <5>6 DEF held, since
      <4>8. BurstBound'
        <5> SUFFICES ASSUME NEW i \in 1..k, NEW j \in i..k
                     PROVE  (j - i + 1) * One
                              <= Capacity + Rate * (log'[j].at - log'[i].at
                                                      + (log'[j].slip - log'[i].slip))
          BY <4>2 DEF BurstBound
        <5>1. CASE j = k
          BY <4>7, <5>1
        <5>2. CASE j # k
          <6>1. /\ i \in 1..Len(log) /\ j \in i..Len(log) /\ j \in 1..Len(log)
                /\ log'[i] = log[i] /\ log'[j] = log[j]
            BY <3>6, <4>2, <5>2 DEF k
          <6> QED
            BY <6>1 DEF Balanced, BurstBound
        <5> QED
          BY <5>1, <5>2
      <4> QED
        BY <3>2, <4>6, <4>8 DEF Balanced
    <3> QED
      BY <3>9, <3>10
  <2>3. ASSUME Restart PROVE Balanced'
    BY <2>3 DEF Restart, Balanced, Balance, BurstBound
  <2> QED
    BY <2>1, <2>2, <2>3 DEF Next, Arrive, Tick, vars
<1> QED
  BY <1>1, <1>2, TypeCorrect, PTL DEF Spec

\* In any stretch of time no more is admitted than a full bucket and what is refilled in
\* it, counting the time that an overtaken request makes the bucket refill twice.
THEOREM BurstsAreBounded == Spec => []BurstBound
<1>1. Balanced => BurstBound
  BY DEF Balanced
<1> QED
  BY <1>1, BalanceInvariant, PTL

-----------------------------------------------------------------------------
LEMMA RefillIsNumber ==
  ASSUME NEW x \in Int
  PROVE  Rate * x \in Int /\ (x >= 0 => Rate * x >= 0)
BY RateDistributes

\* A level that is kept and refilled further is what is refilled in one go.
LEMMA RefillsAddUp ==
  ASSUME NEW x \in Int, NEW y \in Int
  PROVE  Rate * (x + y) = Rate * x + Rate * y /\ (x <= y => Rate * x <= Rate * y)
<1>1. Rate * (y - x) = Rate * y - Rate * x /\ Rate * (x + y) = Rate * x + Rate * y
      /\ Rate * x \in Int /\ Rate * y \in Int /\ (y - x >= 0 => Rate * (y - x) >= 0)
  BY RateDistributes
<1> QED
  BY <1>1

\* Asking in vain does not cost a client anything: it is never further from its next
\* admission than it would be had it not asked.
THEOREM RefusalsAreFree == Spec => []PollingIsFree
<1>1. Init => PollingIsFree
  BY DEF Init, PollingIsFree
<1>2. TypeOK /\ TypeOK' /\ PollingIsFree /\ [Next]_vars => PollingIsFree'
  <2> SUFFICES ASSUME TypeOK, TypeOK', PollingIsFree, [Next]_vars PROVE PollingIsFree'
    OBVIOUS
  <2>1. ASSUME UNCHANGED <<bucket, mark>> PROVE PollingIsFree'
    BY <2>1 DEF PollingIsFree, Level, Tokens, Elapsed, Last
  <2>2. ASSUME NEW t \in Thread, Allow(t) PROVE PollingIsFree'
    <3> DEFINE n == seen[t]
    <3>1. n \in Nat /\ n \in 0..MaxTime
      BY <2>2, TimeIsFinite DEF TypeOK, Allow
    <3>2. /\ Level(n) \in 0..Capacity /\ Capacity \in Nat /\ One \in Nat
      BY <3>1, LevelIsCapped, RatesAreNatural
    <3>3. bucket' = After(n) /\ bucket' # None /\ bucket'.last = n /\ bucket'.tokens \in Int
      <4>1. After(n) \in Buckets /\ After(n).last = n /\ After(n).tokens \in Int
        BY <3>1, LevelIsCapped, RatesAreNatural DEF After, Buckets
      <4> QED
        BY <2>2, <3>1, <4>1, NoneIsNothing DEF Allow
    <3> SUFFICES ASSUME mark' # None, NEW x \in n..MaxTime
                 PROVE  Level(x)' >= Min({Capacity, mark'.level + Rate * (x - mark'.at)})
      BY <3>3 DEF PollingIsFree
    <3>4. x \in Nat /\ x >= n /\ x \in 0..MaxTime
      BY <3>1, TimeIsFinite
    <3>5. Level(x)' = Min({Capacity, bucket'.tokens + Rate * (x - n)})
      <4>1. Max({0, x - n}) = x - n
        BY <3>1, <3>4, MaxOfTwo
      <4> QED
        BY <3>3, <4>1 DEF Level, Tokens, Elapsed, Last
    <3>6. mark'.level \in Int /\ mark'.at \in Int
      BY RatesAreNatural, TimeIsFinite DEF TypeOK, Marks
    <3>7. Rate * (x - n) \in Int /\ Rate * (x - mark'.at) \in Int
      <4>1. x - n \in Int /\ x - mark'.at \in Int
        BY <3>1, <3>4, <3>6
      <4> QED
        BY <4>1, RefillIsNumber
    <3>8. SUFFICES \/ bucket'.tokens >= Capacity
                   \/ bucket'.tokens + Rate * (x - n) >= Capacity
                   \/ bucket'.tokens + Rate * (x - n) >= mark'.level + Rate * (x - mark'.at)
      <4> DEFINE a == bucket'.tokens + Rate * (x - n)
                 b == mark'.level + Rate * (x - mark'.at)
      <4>1. a \in Int /\ b \in Int
        BY <3>3, <3>6, <3>7
      <4>2. bucket'.tokens >= Capacity => a >= Capacity
        <5>1. Rate * (x - n) >= 0
          <6>1. x - n \in Int /\ x - n >= 0
            BY <3>1, <3>4
          <6> QED
            BY <6>1, RefillIsNumber
        <5> QED
          BY <3>2, <3>3, <3>7, <5>1
      <4> HIDE DEF a, b
      <4>3. a >= Capacity \/ a >= b => Min({Capacity, a}) >= Min({Capacity, b})
        BY <3>2, <4>1, MinOfTwo
      <4> QED
        BY <3>5, <3>8, <4>2, <4>3 DEF a, b
    <3>9. CASE Level(n) >= One
      <4>1. mark' = [level |-> After(n).tokens, at |-> n]
        BY <2>2, <3>9 DEF Allow
      <4> QED
        BY <3>3, <3>6, <3>7, <4>1
    <3>10. CASE ~(Level(n) >= One)
      <4>1. mark' = mark /\ bucket'.tokens = Level(n)
        BY <2>2, <3>3, <3>10 DEF Allow, After
      <4>2. bucket # None /\ bucket.last \in 0..MaxTime /\ bucket.last \in Nat
        BY <4>1, TimeIsFinite DEF TypeOK, Buckets
      <4>3. Last(n) = bucket.last /\ Tokens(n) = bucket.tokens /\ bucket.tokens \in 0..Capacity
        BY <4>2 DEF Last, Tokens, TypeOK, Buckets
      <4>4. ASSUME NEW y \in bucket.last..MaxTime
            PROVE  bucket.tokens + Rate * (y - bucket.last) >= Capacity
                   \/ bucket.tokens + Rate * (y - bucket.last) >= mark.level + Rate * (y - mark.at)
        <5> DEFINE a == bucket.tokens + Rate * (y - bucket.last)
                   b == mark.level + Rate * (y - mark.at)
        <5>1. y \in Nat /\ y >= bucket.last
          BY <4>2
        <5>2. Level(y) = Min({Capacity, a})
          <6>1. Max({0, y - bucket.last}) = y - bucket.last
            BY <4>2, <5>1, MaxOfTwo
          <6> QED
            BY <4>2, <6>1 DEF Level, Tokens, Elapsed, Last
        <5>3. Level(y) >= Min({Capacity, b})
          BY <4>1 DEF PollingIsFree
        <5>4. Rate * (y - bucket.last) \in Int /\ Rate * (y - mark.at) \in Int
          <6>1. y - bucket.last \in Int /\ y - mark.at \in Int
            BY <3>6, <4>1, <4>2, <5>1
          <6> QED
            BY <6>1, RefillIsNumber
        <5>5. a \in Int /\ b \in Int
          BY <3>2, <3>6, <4>1, <4>3, <5>4
        <5> HIDE DEF a, b
        <5>6. a >= Capacity \/ a >= b
          BY <3>2, <5>2, <5>3, <5>5, MinOfTwo
        <5> QED
          BY <5>6 DEF a, b
      <4>5. CASE n >= bucket.last
        <5> DEFINE p == n - bucket.last
                   q == x - n
        <5>1. p \in Nat /\ q \in Nat /\ x - bucket.last = p + q /\ x \in bucket.last..MaxTime
          BY <3>1, <3>4, <4>2, <4>5
        <5>2. Rate * (p + q) = Rate * p + Rate * q /\ Rate * p \in Int /\ Rate * q \in Int
          <6>1. p \in Int /\ q \in Int
            BY <5>1
          <6> HIDE DEF p, q
          <6> QED
            BY <6>1, RateDistributes
        <5>3. bucket.tokens + Rate * (p + q) >= Capacity
              \/ bucket.tokens + Rate * (p + q) >= mark.level + Rate * (x - mark.at)
          BY <4>4, <5>1
        <5>4. Level(n) = Capacity \/ Level(n) = bucket.tokens + Rate * p
          <6>1. Elapsed(n) = p
            BY <3>1, <4>3, <4>5, LevelIsCapped
          <6> QED
            BY <3>1, <4>3, <6>1, LevelIsCapped
        <5> HIDE DEF p
        <5>5. CASE Level(n) = Capacity
          BY <3>2, <4>1, <5>5
        <5>6. CASE Level(n) = bucket.tokens + Rate * p /\ Level(n) # Capacity
          <6>1. bucket'.tokens + Rate * q = bucket.tokens + Rate * (p + q)
            BY <3>2, <4>1, <4>3, <5>2, <5>6
          <6> QED
            BY <4>1, <5>3, <6>1
        <5> QED
          BY <5>4, <5>5, <5>6
      <4>6. CASE n < bucket.last
        <5> DEFINE u == bucket.last - mark.at
                   q == x - n
        <5>1. u \in Int /\ q \in Int /\ x - mark.at <= u + q /\ x - mark.at \in Int /\ u + q \in Int
          BY <3>1, <3>4, <3>6, <4>1, <4>2, <4>6
        <5>2. /\ Rate * (u + q) = Rate * u + Rate * q /\ Rate * (x - mark.at) <= Rate * (u + q)
              /\ Rate * u \in Int /\ Rate * q \in Int /\ Rate * (x - mark.at) \in Int
          <6>1. Rate * (x - mark.at) <= Rate * (u + q)
            BY <5>1, RefillsAddUp
          <6> QED
            BY <5>1, <6>1, RateDistributes
        <5>3. bucket.tokens >= Capacity \/ bucket.tokens >= mark.level + Rate * u
          <6>1. bucket.last - bucket.last = 0 /\ Rate * 0 = 0 /\ bucket.last \in bucket.last..MaxTime
            BY <4>2, RatesAreNatural, TimeIsFinite
          <6>2. bucket.tokens + 0 = bucket.tokens
            BY <4>3
          <6> QED
            BY <4>4, <6>1, <6>2
        <5>4. Level(n) = bucket.tokens
          <6>1. Elapsed(n) = 0 /\ Rate * 0 = 0
            BY <3>1, <4>2, <4>3, <4>6, LevelIsCapped, RatesAreNatural
          <6>2. Level(n) = Min({Capacity, bucket.tokens + 0})
            BY <4>3, <6>1 DEF Level
          <6> QED
            BY <3>2, <4>3, <6>2, MinOfTwo
        <5> HIDE DEF u
        <5>5. mark.level \in Int
          BY <3>6, <4>1
        <5> QED
          BY <3>2, <4>1, <4>3, <5>2, <5>3, <5>4, <5>5
      <4> QED
        BY <3>1, <4>2, <4>5, <4>6
    <3> QED
      BY <3>9, <3>10
  <2>3. ASSUME Restart PROVE PollingIsFree'
    BY <2>3 DEF Restart, PollingIsFree
  <2> QED
    BY <2>1, <2>2, <2>3 DEF Next, Arrive, Tick, vars
<1> QED
  BY <1>1, <1>2, TypeCorrect, PTL DEF Spec
=============================================================================
