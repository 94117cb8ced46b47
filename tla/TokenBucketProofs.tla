------------------------- MODULE TokenBucketProofs -------------------------
(***************************************************************************)
(* The bucket keeps its limit, for every set of calls, every amount and    *)
(* every configured limit.                                                 *)
(***************************************************************************)
EXTENDS TokenBucketProps, TLAPS

USE BucketAssumption DEF Limit

\* What the bucket holds and what has been granted ahead of the rate make up its
\* capacity exactly.
Balanced == burst + Level = Capacity

BucketInv == BucketTypeOK /\ Balanced

-----------------------------------------------------------------------------
(* Arithmetic *)

LEMMA ProductNat == ASSUME NEW a \in Nat, NEW b \in Nat PROVE a * b \in Nat
  OBVIOUS

LEMMA NextProduct ==
  ASSUME NEW a \in Nat, NEW b \in Nat PROVE (a + 1) * b = a * b + b
  OBVIOUS

LEMMA DivBound ==
  ASSUME NEW n \in Nat, NEW r \in Nat \ {0}
  PROVE  /\ n \div r \in Nat
         /\ (n \div r) * r <= n
         /\ n < (n \div r) * r + r
  BY SMT

\* The sizes of the bucket and of a request are naturals.
LEMMA Sizes ==
  ASSUME limit \in Limits
  PROVE  /\ Rate \in Nat /\ Capacity \in Nat
         /\ \A c \in Callers : Need(c) \in Nat
  BY ProductNat DEF Rate, Capacity, Need

\* A refill stops at the capacity and never takes anything away.
LEMMA LevelRange ==
  ASSUME BucketTypeOK
  PROVE  /\ Level \in 0..Capacity
         /\ elapsed * Rate \in Nat
         /\ Level >= tokens
<1>1. Rate \in Nat /\ Capacity \in Nat  BY Sizes DEF BucketTypeOK
<1>2. tokens \in 0..Capacity /\ elapsed \in Nat  BY DEF BucketTypeOK
<1>3. elapsed * Rate \in Nat  BY <1>1, <1>2, ProductNat
<1> QED  BY <1>1, <1>2, <1>3 DEF Level, Least

-----------------------------------------------------------------------------
LEMMA InitBucketInv == Init => BucketInv
<1> SUFFICES ASSUME Init PROVE BucketInv  OBVIOUS
<1>1. Rate \in Nat /\ Capacity \in Nat  BY Sizes DEF Init
<1>2. BucketTypeOK  BY <1>1 DEF Init, BucketTypeOK, Statuses
<1>3. elapsed * Rate = 0  BY <1>1 DEF Init
<1>4. Level = Capacity  BY <1>1, <1>3 DEF Init, Level, Least
<1> QED  BY <1>1, <1>2, <1>4 DEF Init, BucketInv, Balanced

\* What a call of acquire decides it decides on a full account.
LEMMA NextBucketInv == BucketInv /\ [Next]_vars => BucketInv'
<1> SUFFICES ASSUME BucketInv, [Next]_vars PROVE BucketInv'
    OBVIOUS
<1>t. BucketTypeOK  BY DEF BucketInv
<1>b. burst + Level = Capacity  BY DEF BucketInv, Balanced
<1>s. Rate \in Nat /\ Capacity \in Nat /\ \A c \in Callers : Need(c) \in Nat
    BY <1>t, Sizes DEF BucketTypeOK
<1>l. Level \in 0..Capacity /\ elapsed * Rate \in Nat  BY <1>t, LevelRange
<1>f. limit' = limit /\ Rate' = Rate /\ Capacity' = Capacity
    BY DEF Next, vars, Tick, CallerStep, Call, Grant, Sleep, Cancel, Rate, Capacity
<1>z. 0 * Rate = 0  BY <1>s
<1>1. CASE Tick
  <2>1. tokens' = tokens /\ status' = status  BY <1>1 DEF Tick
  <2>2. burst' = Most(0, burst - Rate)  BY <1>1 DEF Tick
  <2>3. left' \in [Callers -> Nat]  BY <1>t, <1>1 DEF Tick, BucketTypeOK, Most
  <2>4. elapsed' \in Nat  BY <1>t, <1>1 DEF Tick, BucketTypeOK
  <2>5. burst' \in Nat  BY <2>2, <1>t, <1>s DEF BucketTypeOK, Most
  <2>6. BucketTypeOK'  BY <2>1, <2>3, <2>4, <2>5, <1>t, <1>f DEF BucketTypeOK
  <2>7. CASE tokens + elapsed * Rate >= Capacity
    <3>1. elapsed' = elapsed  BY <1>1, <2>7 DEF Tick
    <3>2. Level = Capacity /\ Level' = Capacity
        BY <3>1, <2>7, <2>1, <1>t, <1>s, <1>l, <1>f DEF Level, Least, BucketTypeOK
    <3>3. burst = 0  BY <3>2, <1>b, <1>t, <1>s DEF BucketTypeOK
    <3>4. burst' = 0  BY <3>3, <2>2, <1>s DEF Most
    <3> QED  BY <3>2, <3>4, <2>6, <1>f, <1>s DEF BucketInv, Balanced
  <2>8. CASE ~(tokens + elapsed * Rate >= Capacity)
    <3>1. elapsed' = elapsed + 1  BY <1>1, <2>8 DEF Tick
    <3>2. (elapsed + 1) * Rate = elapsed * Rate + Rate
        BY <1>t, <1>s, NextProduct DEF BucketTypeOK
    <3>3. Level' = Least(Capacity, tokens + (elapsed * Rate + Rate))
        BY <3>1, <3>2, <2>1, <1>f DEF Level
    <3>4. Level = tokens + elapsed * Rate
        BY <2>8, <1>t, <1>s, <1>l DEF Level, Least, BucketTypeOK
    <3>5. burst' + Level' = Capacity
        BY <3>3, <3>4, <2>2, <1>t, <1>b, <1>s, <1>l DEF Least, Most, BucketTypeOK
    <3> QED  BY <3>5, <2>6, <1>f DEF BucketInv, Balanced
  <2> QED  BY <2>7, <2>8
<1>2. ASSUME NEW c \in Callers, Grant(c) PROVE BucketInv'
  <2>1. Level >= Need(c) /\ Need(c) \in Nat  BY <1>2, <1>s DEF Grant
  <2>2. tokens' = Level - Need(c) /\ elapsed' = 0 /\ burst' = burst + Need(c)
      BY <1>2 DEF Grant
  <2>3. tokens' \in 0..Capacity /\ burst' \in Nat
      BY <2>1, <2>2, <1>l, <1>s, <1>t DEF BucketTypeOK
  <2>4. left' = left /\ status' \in [Callers -> Statuses]
      BY <1>2, <1>t DEF Grant, BucketTypeOK, Statuses
  <2>5. BucketTypeOK'  BY <2>2, <2>3, <2>4, <1>t, <1>f DEF BucketTypeOK
  <2>6. Level' = tokens'
      BY <2>2, <2>3, <1>f, <1>s, <1>z DEF Level, Least
  <2>7. burst \in Nat  BY <1>t DEF BucketTypeOK
  <2>8. burst' + Level' = Capacity  BY <2>1, <2>2, <2>6, <2>7, <1>b, <1>l
  <2> QED  BY <2>5, <2>8, <1>f DEF BucketInv, Balanced
<1>3. ASSUME NEW c \in Callers, Sleep(c) PROVE BucketInv'
  <2>1. tokens' = Level /\ elapsed' = 0 /\ burst' = burst /\ status' = status
      BY <1>3 DEF Sleep
  <2>2. PICK nap \in Naps(c) : left' = [left EXCEPT ![c] = nap]
      BY <1>3 DEF Sleep
  <2>3. Need(c) - Level \in Nat /\ Need(c) \in Nat
      BY <1>3, <1>s, <1>l DEF Sleep
  <2>4. nap \in Nat
    <3>1. CASE Rate = 0  BY <3>1, <2>2, <2>3 DEF Naps
    <3>2. CASE Rate # 0
      <4>1. Rate \in Nat \ {0}  BY <3>2, <1>s
      <4>2. \A n \in Nat, r \in Nat \ {0} : n \div r \in Nat  OBVIOUS
      <4>3. Need(c) - Level + Rate - 1 \in Nat  BY <4>1, <2>3, <1>s, <1>l
      <4>4. (Need(c) - Level) \div Rate \in Nat  BY <4>1, <4>2, <2>3
      <4>5. (Need(c) - Level + Rate - 1) \div Rate \in Nat  BY <4>1, <4>2, <4>3
      <4> QED  BY <4>4, <4>5, <3>2, <2>2 DEF Naps
    <3> QED  BY <3>1, <3>2
  <2>5. left' \in [Callers -> Nat]  BY <2>2, <2>4, <1>t DEF BucketTypeOK
  <2>6. BucketTypeOK'  BY <2>1, <2>5, <1>t, <1>f, <1>l DEF BucketTypeOK
  <2>7. Level' = Level
      BY <2>1, <1>f, <1>s, <1>l, <1>z DEF Level, Least
  <2> QED  BY <2>1, <2>6, <2>7, <1>b, <1>f DEF BucketInv, Balanced
<1>4. ASSUME NEW c \in Callers, Call(c) \/ Cancel(c) PROVE BucketInv'
  <2>1. UNCHANGED <<limit, tokens, elapsed, burst>>  BY <1>4 DEF Call, Cancel
  <2>2. status' \in [Callers -> Statuses]
      BY <1>4, <1>t DEF Call, Cancel, BucketTypeOK, Statuses
  <2>3. left' \in [Callers -> Nat]  BY <1>4, <1>t DEF Call, Cancel, BucketTypeOK
  <2>4. BucketTypeOK'  BY <2>1, <2>2, <2>3, <1>t, <1>f DEF BucketTypeOK
  <2>5. Level' = Level  BY <2>1, <1>f DEF Level, Least
  <2> QED  BY <2>1, <2>4, <2>5, <1>b, <1>f DEF BucketInv, Balanced
<1>5. CASE UNCHANGED vars
  <2>1. UNCHANGED <<limit, tokens, elapsed, status, left, burst>>  BY <1>5 DEF vars
  <2>2. BucketTypeOK'  BY <2>1, <1>t, <1>f DEF BucketTypeOK
  <2>3. Level' = Level  BY <2>1, <1>f DEF Level, Least
  <2> QED  BY <2>1, <2>2, <2>3, <1>b, <1>f DEF BucketInv, Balanced
<1> QED  BY <1>1, <1>2, <1>3, <1>4, <1>5 DEF Next, CallerStep

LEMMA BucketInvariant == Spec => []BucketInv
  BY InitBucketInv, NextBucketInv, PTL DEF Spec

-----------------------------------------------------------------------------
(* Sleeping *)

\* One tick before the sleep of a call ends, the bucket still lacks something.
Rested == \A c \in Callers : left[c] > 0 => (left[c] - 1) * Rate + Level < Need(c)

LEMMA NapIsTight ==
  ASSUME BucketTypeOK, NEW c \in Callers, Level < Need(c), NEW nap \in Naps(c), nap > 0
  PROVE  (nap - 1) * Rate + Level < Need(c)
<1> DEFINE missing == Need(c) - Level
<1>1. Rate \in Nat /\ Need(c) \in Nat /\ Capacity \in Nat
    BY Sizes DEF BucketTypeOK
<1>2. Level \in Nat /\ missing \in Nat \ {0}  BY <1>1, LevelRange
<1>3. CASE Rate = 0
  <2>1. nap \in Nat  BY <1>3, <1>2 DEF Naps
  <2>2. (nap - 1) * Rate = 0  BY <2>1, <1>3
  <2> QED  BY <2>2, <1>1, <1>2
<1>4. CASE Rate # 0
  <2>1. Rate \in Nat \ {0}  BY <1>4, <1>1
  <2>2. nap = missing \div Rate \/ nap = (missing + Rate - 1) \div Rate
      BY <1>4 DEF Naps
  <2>3. missing + Rate - 1 \in Nat  BY <2>1, <1>2
  <2>4. nap \in Nat /\ nap * Rate <= missing + Rate - 1
    <3>1. CASE nap = missing \div Rate
      <4>1. nap \in Nat /\ nap * Rate <= missing  BY <3>1, <2>1, <1>2, DivBound
      <4>2. nap * Rate \in Nat  BY <4>1, <1>1, ProductNat
      <4> QED  BY <4>1, <4>2, <2>1, <1>2
    <3>2. CASE nap = (missing + Rate - 1) \div Rate
      BY <3>2, <2>1, <2>3, DivBound
    <3> QED  BY <3>1, <3>2, <2>2
  <2>5. nap - 1 \in Nat  BY <2>4
  <2>6. nap * Rate = (nap - 1) * Rate + Rate
    <3>1. (nap - 1) + 1 = nap  BY <2>4
    <3> QED  BY <3>1, <2>5, <1>1, NextProduct
  <2>7. (nap - 1) * Rate \in Nat  BY <2>5, <1>1, ProductNat
  <2> HIDE DEF missing
  <2>8. (nap - 1) * Rate <= missing - 1  BY <2>4, <2>6, <2>7, <2>1, <1>2
  <2> QED  BY <2>7, <2>8, <1>1, <1>2 DEF missing
<1> QED  BY <1>3, <1>4

LEMMA NextRested == BucketInv /\ BucketInv' /\ Rested /\ [Next]_vars => Rested'
<1> SUFFICES ASSUME BucketInv, BucketInv', Rested, [Next]_vars,
                    NEW c \in Callers, left'[c] > 0
             PROVE  ((left[c] - 1) * Rate + Level < Need(c))'
    BY DEF Rested
<1>t. BucketTypeOK /\ BucketTypeOK'  BY DEF BucketInv
<1>f. limit' = limit /\ Rate' = Rate /\ Capacity' = Capacity /\ Need(c)' = Need(c)
    BY DEF Next, vars, Tick, CallerStep, Call, Grant, Sleep, Cancel, Rate, Capacity, Need
<1>s. Rate \in Nat /\ Capacity \in Nat /\ Need(c) \in Nat
    BY <1>t, Sizes DEF BucketTypeOK
<1>v. left[c] \in Nat /\ left'[c] \in Nat /\ burst \in Nat /\ burst' \in Nat
    BY <1>t DEF BucketTypeOK
<1>b. burst + Level = Capacity /\ burst' + Level' = Capacity
    BY <1>f DEF BucketInv, Balanced
<1>n. Level \in Nat /\ Level' \in Nat
  <2>1. Level \in 0..Capacity  BY <1>t, LevelRange
  <2>2. (Level \in 0..Capacity)'
    <3>1. BucketTypeOK'  BY <1>t
    <3>2. Rate' \in Nat /\ Capacity' \in Nat  BY <1>f, <1>s
    <3>3. tokens' \in 0..Capacity' /\ elapsed' \in Nat  BY <3>1 DEF BucketTypeOK
    <3>4. elapsed' * Rate' \in Nat  BY <3>2, <3>3, ProductNat
    <3>5. Level' = Least(Capacity', tokens' + elapsed' * Rate')  BY DEF Level, Least
    <3>6. \A u \in Nat : Least(Capacity', tokens' + u) \in 0..Capacity'
        <4>1. ASSUME NEW k \in Nat, NEW n \in Nat, NEW u \in Nat
              PROVE  Least(k, n + u) \in 0..k
            BY DEF Least
        <4>2. tokens' \in Nat  BY <3>2, <3>3
        <4> QED  BY <4>1, <4>2, <3>2
    <3> QED  BY <3>4, <3>5, <3>6
  <2> QED  BY <2>1, <2>2, <1>f, <1>s
\* What one side of the balance gains the other loses.
<1>m. /\ burst' >= burst => Level' <= Level
      /\ burst' = burst => Level' = Level
      /\ \A r \in Nat : burst' = Most(0, burst - r) => Level' <= Level + r
  <2> DEFINE b == burst  l == Level  b2 == burst'  l2 == Level'
  <2>1. b + l = b2 + l2  BY <1>b
  <2>2. b \in Nat /\ l \in Nat /\ b2 \in Nat /\ l2 \in Nat  BY <1>n, <1>v
  <2> HIDE DEF b, l, b2, l2
  <2>3. b2 >= b => l2 <= l  BY <2>1, <2>2
  <2>4. b2 = b => l2 = l  BY <2>1, <2>2
  <2>5. \A r \in Nat : b2 = Most(0, b - r) => l2 <= l + r  BY <2>1, <2>2 DEF Most
  <2> QED  BY <2>3, <2>4, <2>5 DEF b, l, b2, l2
<1>r. left[c] > 0 => (left[c] - 1) * Rate + Level < Need(c)  BY DEF Rested
<1>1. CASE Tick
  <2>1. left'[c] = Most(0, left[c] - 1) /\ burst' = Most(0, burst - Rate)
      BY <1>1 DEF Tick
  <2>2. left[c] - 2 \in Nat /\ left'[c] = left[c] - 1  BY <2>1, <1>v DEF Most
  <2>3. Level' <= Level + Rate  BY <2>1, <1>m, <1>s
  <2>4. (left[c] - 1) * Rate = (left[c] - 2) * Rate + Rate
    <3>1. (left[c] - 2) + 1 = left[c] - 1  BY <1>v
    <3> QED  BY <3>1, <2>2, <1>s, NextProduct
  <2>5. (left[c] - 2) * Rate \in Nat  BY <2>2, <1>s, ProductNat
  <2>6. (left[c] - 2) * Rate + Level' < Need(c)
      BY <2>2, <2>3, <2>4, <2>5, <1>r, <1>n, <1>s, <1>v
  <2>7. left'[c] - 1 = left[c] - 2  BY <2>2, <1>v
  <2> QED  BY <2>6, <2>7, <1>f
<1>2. ASSUME left'[c] = left[c], burst' >= burst
      PROVE  ((left[c] - 1) * Rate + Level < Need(c))'
  <2>1. Level' <= Level  BY <1>2, <1>m
  <2>2. left[c] - 1 \in Nat  BY <1>2, <1>v
  <2>3. (left[c] - 1) * Rate \in Nat  BY <2>2, <1>s, ProductNat
  <2>4. (left[c] - 1) * Rate + Level < Need(c)  BY <1>r, <1>2, <1>v
  <2>5. (left[c] - 1) * Rate + Level' < Need(c)  BY <2>1, <2>3, <2>4, <1>n, <1>s
  <2> QED  BY <2>5, <1>2, <1>f
<1>3. ASSUME NEW d \in Callers, Sleep(d)
      PROVE  ((left[c] - 1) * Rate + Level < Need(c))'
  <2>1. PICK nap \in Naps(d) : left' = [left EXCEPT ![d] = nap]  BY <1>3 DEF Sleep
  <2>2. burst' = burst /\ Level < Need(d)  BY <1>3 DEF Sleep
  <2>3. CASE c # d
    <3>1. left'[c] = left[c]  BY <2>1, <2>3, <1>t DEF BucketTypeOK
    <3> QED  BY <3>1, <2>2, <1>2, <1>v
  <2>4. CASE c = d
    <3>1. left'[c] = nap  BY <2>1, <2>4, <1>t DEF BucketTypeOK
    <3>2. (nap - 1) * Rate + Level < Need(c)  BY <3>1, <2>1, <2>2, <2>4, <1>t, NapIsTight
    <3>3. Level' = Level  BY <2>2, <1>m
    <3> QED  BY <3>1, <3>2, <3>3, <1>f
  <2> QED  BY <2>3, <2>4
<1>4. ASSUME NEW d \in Callers, Grant(d)
      PROVE  ((left[c] - 1) * Rate + Level < Need(c))'
  <2>1. left' = left /\ burst' = burst + Need(d)  BY <1>4 DEF Grant
  <2>2. Need(d) \in Nat  BY <1>t, Sizes DEF BucketTypeOK
  <2> QED  BY <2>1, <2>2, <1>2, <1>v
<1>5. ASSUME NEW d \in Callers, Call(d) \/ Cancel(d)
      PROVE  ((left[c] - 1) * Rate + Level < Need(c))'
  <2>1. burst' = burst /\ left'[c] \in {0, left[c]}
      BY <1>5, <1>t DEF Call, Cancel, BucketTypeOK
  <2> QED  BY <2>1, <1>2, <1>v
<1>6. CASE UNCHANGED vars
  <2>1. burst' = burst /\ left' = left  BY <1>6 DEF vars
  <2> QED  BY <2>1, <1>2, <1>v
<1> QED  BY <1>1, <1>3, <1>4, <1>5, <1>6 DEF Next, CallerStep

-----------------------------------------------------------------------------
\* Whatever is configured and asked for, the bucket holds between nothing and its
\* capacity (TokenBucket.acquire).
THEOREM BucketTypeCorrect == Spec => []BucketTypeOK
<1>1. BucketInv => BucketTypeOK  BY DEF BucketInv
<1> QED  BY <1>1, BucketInvariant, PTL

\* No window sees more than one capacity above the configured rate
\* (TokenBucket.acquire).
THEOREM WithinLimitCorrect == Spec => []WithinLimit
<1>1. BucketInv => WithinLimit
  <2> SUFFICES ASSUME BucketInv PROVE WithinLimit  OBVIOUS
  <2>1. Level \in 0..Capacity /\ Capacity \in Nat
      BY LevelRange, Sizes DEF BucketInv, BucketTypeOK
  <2> QED  BY <2>1 DEF BucketInv, Balanced, BucketTypeOK, WithinLimit
<1> QED  BY <1>1, BucketInvariant, PTL

\* The lazy refills of any number of calls lose no token (TokenBucket._refill).
THEOREM NothingLostCorrect == Spec => []NothingLost
<1>1. BucketInv => NothingLost
  <2> SUFFICES ASSUME BucketInv PROVE NothingLost  OBVIOUS
  <2>1. Level \in 0..Capacity /\ Capacity \in Nat
      BY LevelRange, Sizes DEF BucketInv, BucketTypeOK
  <2> QED  BY <2>1 DEF BucketInv, Balanced, BucketTypeOK, NothingLost
<1> QED  BY <1>1, BucketInvariant, PTL

\* The bucket enforces its limit exactly, however many calls race at it
\* (TokenBucket.acquire, TokenBucket._refill).
THEOREM LimitIsExactCorrect == Spec => []LimitIsExact
<1>1. BucketTypeOK /\ WithinLimit /\ NothingLost => LimitIsExact  BY DEF LimitIsExact
<1> QED  BY <1>1, BucketTypeCorrect, WithinLimitCorrect, NothingLostCorrect, PTL

\* A call never sleeps past the moment the bucket has what it asks for, for any
\* rounding of its sleep (TokenBucket.acquire).
THEOREM NoOversleepCorrect == Spec => []NoOversleep
<1>1. Init => Rested  BY DEF Init, Rested
<1>2. BucketInv /\ Rested => NoOversleep
  <2> SUFFICES ASSUME BucketInv, Rested, NEW c \in Callers, left[c] > 0
               PROVE  Level < Need(c)
      BY DEF NoOversleep
  <2>1. Rate \in Nat /\ Need(c) \in Nat /\ Capacity \in Nat
      BY Sizes DEF BucketInv, BucketTypeOK
  <2>2. Level \in Nat  BY <2>1, LevelRange DEF BucketInv
  <2>3. left[c] - 1 \in Nat  BY DEF BucketInv, BucketTypeOK
  <2>4. (left[c] - 1) * Rate \in Nat  BY <2>1, <2>3, ProductNat
  <2> QED  BY <2>1, <2>2, <2>4 DEF Rested
<1> QED  BY <1>1, <1>2, NextRested, BucketInvariant, PTL DEF Spec
=============================================================================
