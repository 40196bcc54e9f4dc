--------------------------- MODULE CandleStore_proofs ---------------------------
(* Theorems about CandleStore, for any timeframes, prices and bounds. *)
EXTENDS CandleStore, FiniteSetTheorems, WellFoundedInduction, TLAPS

-----------------------------------------------------------------------------
(* Greatest and least elements *)

\* A finite set of numbers that is not empty has a greatest and a least one: a smallest
\* subset without them would have them once one of its elements is taken out.
LEMMA Extremes ==
    ASSUME NEW S, S \subseteq Int, IsFiniteSet(S), S # {}
    PROVE  /\ Max(S) \in S /\ \A y \in S : y <= Max(S)
           /\ Min(S) \in S /\ \A y \in S : Min(S) <= y
<1> DEFINE Has(T) == /\ \E x \in T : \A y \in T : x >= y
                     /\ \E x \in T : \A y \in T : x <= y
           Bad == {T \in FiniteSubsetsOf(S) : T # {} /\ ~Has(T)}
<1>1. Has(S)
  <2> SUFFICES ASSUME ~Has(S) PROVE FALSE
    OBVIOUS
  <2>1. Bad \subseteq FiniteSubsetsOf(S) /\ S \in Bad
    BY DEF FiniteSubsetsOf
  <2>2. PICK T \in Bad : \A U \in Bad : <<U, T>> \notin StrictSubsetOrdering(S)
    <3> HIDE DEF Bad
    <3>1. IsWellFoundedOn(StrictSubsetOrdering(S), FiniteSubsetsOf(S))
      BY FS_StrictSubsetOrderingWellFounded
    <3> QED BY <2>1, <3>1, WFMin
  <2>3. T \subseteq S /\ IsFiniteSet(T) /\ T # {} /\ ~Has(T)
    BY DEF FiniteSubsetsOf
  <2>4. PICK e \in T : TRUE
    BY <2>3
  <2> DEFINE U == T \ {e}
  <2>5. U \subseteq S /\ U # T /\ U \subseteq T
    BY <2>3
  <2>6. IsFiniteSet(U)
    BY <2>3, FS_RemoveElement
  <2>7. U \notin Bad
    <3>1. U \in SUBSET S /\ T \in SUBSET S
      BY <2>3, <2>5
    <3>2. <<U, T>> \in StrictSubsetOrdering(S)
      BY <3>1, <2>5 DEF StrictSubsetOrdering
    <3> QED BY <2>2, <3>2
  <2>8. U = {} \/ Has(U)
    BY <2>5, <2>6, <2>7 DEF FiniteSubsetsOf
  <2>9. T = U \union {e} /\ e \in Int /\ U \subseteq Int
    BY <2>3, <2>4
  <2> HIDE DEF U, Bad
  <2>10. CASE U = {}
    BY <2>3, <2>9, <2>10
  <2>11. CASE Has(U)
    <3>1. PICK x \in U : \A y \in U : x >= y
      BY <2>11
    <3>2. PICK z \in U : \A y \in U : z <= y
      BY <2>11
    <3>0. x \in Int /\ z \in Int
      BY <2>9
    <3>3. \E v \in T : \A y \in T : v >= y
      <4>1. x >= e => \A y \in T : x >= y
        BY <2>9, <3>1
      <4>2. e >= x => \A y \in T : e >= y
        BY <2>9, <3>0, <3>1
      <4> QED BY <2>9, <3>0, <4>1, <4>2
    <3>4. \E v \in T : \A y \in T : v <= y
      <4>1. z <= e => \A y \in T : z <= y
        BY <2>9, <3>2
      <4>2. e <= z => \A y \in T : e <= y
        BY <2>9, <3>0, <3>2
      <4> QED BY <2>9, <3>0, <4>1, <4>2
    <3> QED BY <2>3, <3>3, <3>4
  <2> QED BY <2>8, <2>10, <2>11
<1>2. Max(S) \in S /\ \A y \in S : Max(S) >= y
  BY <1>1 DEF Max
<1>3. Min(S) \in S /\ \A y \in S : Min(S) <= y
  BY <1>1 DEF Min
<1> QED BY <1>2, <1>3

\* What is greatest, or least, is Max, or Min.
LEMMA MaxIs ==
    ASSUME NEW S, S \subseteq Int, NEW x \in S, \A y \in S : y <= x
    PROVE  Max(S) = x
<1>1. \A v \in S : (\A y \in S : v >= y) => v = x
  OBVIOUS
<1>2. x \in S /\ \A y \in S : x >= y
  OBVIOUS
<1> QED BY <1>1, <1>2 DEF Max

LEMMA MinIs ==
    ASSUME NEW S, S \subseteq Int, NEW x \in S, \A y \in S : x <= y
    PROVE  Min(S) = x
<1>1. \A v \in S : (\A y \in S : v <= y) => v = x
  OBVIOUS
<1>2. x \in S /\ \A y \in S : x <= y
  OBVIOUS
<1> QED BY <1>1, <1>2 DEF Min

-----------------------------------------------------------------------------
(* The time of a candle *)

LEMMA IntervalType == Intervals \subseteq Nat \ {0}
  BY TimeframesAssumption DEF Intervals, Range

LEMMA BucketType ==
    ASSUME NEW i \in Intervals, NEW t \in Nat
    PROVE  /\ Bucket(i, t) \in Nat /\ Bucket(i, t) <= t
           /\ Bucket(i, t) % i = 0
<1>0. i \in Nat \ {0}
  BY IntervalType
<1> DEFINE q == t \div i
           x == q * i
<1>1. q \in Int /\ t = i * q + (t % i) /\ 0 <= t % i /\ t % i < i /\ t % i \in Int
  BY <1>0
<1>2. q \in Nat
  BY <1>0
<1>3. x \in Nat /\ x <= t
  <2> HIDE DEF q
  <2>1. x = i * q /\ i * q \in Nat
    BY <1>0, <1>2
  <2> HIDE DEF x
  <2> QED BY <1>1, <2>1
<1>4. x % i = 0
  <2>0. x = q * i /\ x \in Nat
    BY <1>3
  <2> HIDE DEF q, x
  <2> DEFINE d == x \div i
             r == x % i
  <2>1. d \in Int /\ x = i * d + r /\ 0 <= r /\ r < i /\ r \in Int
    BY <1>0, <2>0
  <2> HIDE DEF d, r
  <2>2. i * (q - d) = r
    <3>1. i * (q - d) = i * q - i * d /\ x = i * q
      BY <1>0, <1>2, <2>0, <2>1
    <3>2. i * q \in Int /\ i * d \in Int
      BY <1>0, <1>2, <2>1
    <3> QED BY <2>1, <3>1, <3>2
  <2>3. q - d = 0
    <3> DEFINE e == q - d
    <3>1. e \in Int
      BY <1>2, <2>1
    <3> HIDE DEF e
    <3>2. e >= 1 => i * e >= i
      BY <1>0, <3>1
    <3>3. e <= -1 => i * e <= -i
      BY <1>0, <3>1
    <3> QED BY <1>0, <2>1, <2>2, <3>1, <3>2, <3>3 DEF e
  <2>4. r = 0
    BY <1>0, <2>2, <2>3
  <2> QED BY <2>4 DEF r
<1> QED BY <1>3, <1>4 DEF Bucket

LEMMA BucketMonotone ==
    ASSUME NEW i \in Intervals, NEW s \in Nat, NEW t \in Nat, s <= t
    PROVE  Bucket(i, s) <= Bucket(i, t)
<1>0. i \in Nat \ {0}
  BY IntervalType
<1> DEFINE p == s \div i
           q == t \div i
<1>1. p \in Int /\ s = i * p + (s % i) /\ 0 <= s % i /\ s % i < i /\ s % i \in Int
  BY <1>0
<1>2. q \in Int /\ t = i * q + (t % i) /\ 0 <= t % i /\ t % i < i /\ t % i \in Int
  BY <1>0
<1> HIDE DEF p, q
<1>3. ASSUME p > q PROVE FALSE
  <2>1. p >= q + 1
    BY <1>1, <1>2, <1>3
  <2>2. i * p >= i * (q + 1)
    BY <1>0, <1>1, <1>2, <2>1
  <2>3. i * (q + 1) = i * q + i /\ i * q \in Int /\ i * p \in Int
    BY <1>0, <1>1, <1>2
  <2> DEFINE ip == i * p
             iq == i * q
  <2>4. /\ ip \in Int /\ iq \in Int /\ ip >= iq + i
        /\ s = ip + (s % i) /\ t = iq + (t % i)
    BY <1>1, <1>2, <2>2, <2>3
  <2> HIDE DEF ip, iq
  <2> QED BY <1>0, <1>1, <1>2, <2>4
<1>4. p * i <= q * i
  BY <1>0, <1>1, <1>2, <1>3
<1> QED BY <1>4 DEF Bucket, p, q

-----------------------------------------------------------------------------
(* Candles made of ticks *)

Quotes == [price : Prices, minute : Minutes]
TickSeq == {tk \in Seq(Quotes) : Len(tk) <= MaxTicks}

LEMMA TickType ==
    ASSUME NEW tk \in TickSeq
    PROVE  /\ tk \in Seq(Quotes) /\ Len(tk) \in Nat /\ Len(tk) <= MaxTicks
           /\ \A k \in 1..Len(tk) : tk[k].price \in Prices /\ tk[k].price \in Int
                                    /\ tk[k].minute \in Minutes
<1>1. tk \in Seq(Quotes) /\ Len(tk) <= MaxTicks
  BY DEF TickSeq
<1>2. Len(tk) \in Nat /\ \A k \in 1..Len(tk) : tk[k] \in Quotes
  BY <1>1
<1> QED BY <1>1, <1>2, NumbersAssumption DEF Quotes

\* The candle of time b made of the ticks ks of tk.
BarIn(tk, ks, b) ==
    LET prices == {tk[k].price : k \in ks}
    IN  [bucket |-> b, open |-> tk[Min(ks)].price, close |-> tk[Max(ks)].price,
         high |-> Max(prices), low |-> Min(prices), volume |-> Cardinality(ks)]

LEMMA BarIsIn == \A i, b : Bar(i, b) = BarIn(ticks, InBucket(i, b), b)
  BY DEF Bar, BarIn

\* Some of the ticks: they are finitely many, and so are their prices.
LEMMA SomeTicks ==
    ASSUME NEW tk \in TickSeq, NEW ks \in SUBSET (1..Len(tk)), ks # {}
    PROVE  /\ ks \subseteq Int /\ IsFiniteSet(ks) /\ Cardinality(ks) \in 1..Len(tk)
           /\ {tk[k].price : k \in ks} \subseteq Prices
           /\ IsFiniteSet({tk[k].price : k \in ks}) /\ {tk[k].price : k \in ks} # {}
<1> DEFINE prices == {tk[k].price : k \in ks}
<1>0. Len(tk) \in Nat /\ \A k \in 1..Len(tk) : tk[k].price \in Prices
  BY TickType
<1>1. IsFiniteSet(1..Len(tk)) /\ Cardinality(1..Len(tk)) = Len(tk)
  <2> DEFINE n == Len(tk)
  <2>1. n \in Nat
    BY <1>0
  <2> HIDE DEF n
  <2>2. IsFiniteSet(1..n) /\ Cardinality(1..n) = n
    BY <2>1, FS_Interval
  <2> QED BY <2>2 DEF n
<1>2. IsFiniteSet(ks) /\ Cardinality(ks) <= Len(tk)
  BY <1>1, FS_Subset
<1>3. Cardinality(ks) \in Nat /\ Cardinality(ks) # 0
  BY <1>2, FS_CardinalityType, FS_EmptySet
<1>4. IsFiniteSet(prices)
  <2> DEFINE f == [k \in ks |-> tk[k].price]
  <2>1. f \in Surjection(ks, prices)
    BY DEF Surjection
  <2> HIDE DEF f, prices
  <2> QED BY <1>2, <2>1, FS_Surjection
<1>5. prices \subseteq Prices /\ prices # {}
  BY <1>0
<1> QED BY <1>0, <1>2, <1>3, <1>4, <1>5

LEMMA BarType ==
    ASSUME NEW tk \in TickSeq, NEW ks \in SUBSET (1..Len(tk)), NEW b \in Minutes, ks # {}
    PROVE  BarIn(tk, ks, b) \in Candle
<1> DEFINE prices == {tk[k].price : k \in ks}
<1>1. /\ ks \subseteq Int /\ IsFiniteSet(ks) /\ Cardinality(ks) \in 1..Len(tk)
      /\ prices \subseteq Prices /\ IsFiniteSet(prices) /\ prices # {}
  BY SomeTicks
<1>2. Min(ks) \in ks /\ Max(ks) \in ks
  BY <1>1, Extremes
<1>3. Max(prices) \in Prices /\ Min(prices) \in Prices
  <2>1. prices \subseteq Int
    BY <1>1, NumbersAssumption
  <2> HIDE DEF prices
  <2> QED BY <1>1, <2>1, Extremes
<1>4. tk[Min(ks)].price \in Prices /\ tk[Max(ks)].price \in Prices
  BY <1>1, <1>2
<1>5. Cardinality(ks) \in 1..MaxTicks
  <2> DEFINE n == Cardinality(ks)
  <2>1. n \in 1..Len(tk) /\ Len(tk) <= MaxTicks /\ Len(tk) \in Nat
    BY <1>1 DEF TickSeq
  <2> HIDE DEF n
  <2>2. n \in 1..MaxTicks
    BY <2>1, NumbersAssumption
  <2> QED BY <2>2 DEF n
<1> QED BY <1>3, <1>4, <1>5 DEF BarIn, Candle, Stated

\* Only the ticks a candle is made of matter.
LEMMA BarAgrees ==
    ASSUME NEW tk \in TickSeq, NEW tl \in TickSeq, NEW ks \in SUBSET (1..Len(tk)), NEW b,
           ks # {}, \A k \in 1..Len(tk) : k \in ks => tk[k] = tl[k]
    PROVE  BarIn(tk, ks, b) = BarIn(tl, ks, b)
<1>1. Min(ks) \in ks /\ Max(ks) \in ks
  <2>1. ks \subseteq Int /\ IsFiniteSet(ks)
    BY SomeTicks
  <2> QED BY <2>1, Extremes
<1>2. {tk[k].price : k \in ks} = {tl[k].price : k \in ks}
  OBVIOUS
<1>3. tk[Min(ks)].price = tl[Min(ks)].price /\ tk[Max(ks)].price = tl[Max(ks)].price
  BY <1>1
<1> QED BY <1>2, <1>3 DEF BarIn

\* A candle of one tick is the one it begins.
LEMMA BarBegins ==
    ASSUME NEW tk \in TickSeq, NEW n \in 1..Len(tk), NEW b
    PROVE  BarIn(tk, {n}, b) = Begun(b, tk[n].price)
<1>1. tk[n].price \in Int /\ n \in Int
  BY TickType
<1>2. Min({n}) = n /\ Max({n}) = n
  BY MinIs, MaxIs
<1>3. {tk[k].price : k \in {n}} = {tk[n].price}
  OBVIOUS
<1>4. Min({tk[n].price}) = tk[n].price /\ Max({tk[n].price}) = tk[n].price
  <2> DEFINE p == tk[n].price
  <2>1. p \in Int
    BY <1>1
  <2> HIDE DEF p
  <2> DEFINE S == {p}
  <2>2. S \subseteq Int /\ p \in S /\ (\A y \in S : p <= y) /\ \A y \in S : y <= p
    BY <2>1
  <2> HIDE DEF S
  <2>3. Min(S) = p /\ Max(S) = p
    BY <2>2, MinIs, MaxIs
  <2> QED BY <2>3 DEF p, S
<1>5. Cardinality({n}) = 1
  BY FS_Singleton
<1> QED BY <1>2, <1>3, <1>4, <1>5 DEF BarIn, Begun

\* What Updated makes of a candle.
LEMMA UpdatedIs ==
    ASSUME NEW b, NEW o, NEW c, NEW h, NEW l, NEW v, NEW p
    PROVE  Updated([bucket |-> b, open |-> o, close |-> c, high |-> h, low |-> l,
                    volume |-> v], p) =
             [bucket |-> b, open |-> o, close |-> p, high |-> IF p > h THEN p ELSE h,
              low |-> IF p < l THEN p ELSE l, volume |-> v + 1]
<1> DEFINE r == [bucket |-> b, open |-> o, close |-> c, high |-> h, low |-> l, volume |-> v]
<1>1. Updated(r, p) = [r EXCEPT !.high = IF p > r.high THEN p ELSE r.high,
                                !.low = IF p < r.low THEN p ELSE r.low,
                                !.close = p, !.volume = r.volume + 1]
  BY DEF Updated
<1>2. r.high = h /\ r.low = l /\ r.volume = v
  OBVIOUS
<1> QED BY <1>1, <1>2

\* A candle with one more tick, a later one, is the updated one.
LEMMA BarUpdates ==
    ASSUME NEW tk \in TickSeq, NEW n \in 1..Len(tk), NEW ks \in SUBSET (1..(n-1)), NEW b,
           ks # {}
    PROVE  BarIn(tk, ks \union {n}, b) = Updated(BarIn(tk, ks, b), tk[n].price)
<1> DEFINE prices == {tk[k].price : k \in ks}
           more == {tk[k].price : k \in ks \union {n}}
           p == tk[n].price
<1>0. Len(tk) \in Nat /\ n \in Nat /\ ks \subseteq 1..Len(tk) /\ n \notin ks
  <2>1. Len(tk) \in Nat
    BY TickType
  <2> QED BY <2>1
<1>1. /\ ks \subseteq Int /\ IsFiniteSet(ks)
      /\ prices \subseteq Prices /\ IsFiniteSet(prices) /\ prices # {}
  BY <1>0, SomeTicks
<1>2. p \in Int /\ prices \subseteq Int
  BY <1>1, NumbersAssumption, TickType
<1>3. more = prices \union {p}
  OBVIOUS
<1>4. Min(ks) \in ks /\ \A y \in ks : Min(ks) <= y
  BY <1>1, Extremes
<1>5. Min(ks \union {n}) = Min(ks)
  <2> DEFINE m == Min(ks)
  <2>1. m \in ks /\ \A y \in ks : m <= y
    BY <1>4
  <2> HIDE DEF m
  <2>2. m <= n
    BY <1>0, <2>1
  <2>3. \A y \in ks \union {n} : m <= y
    BY <2>1, <2>2
  <2>4. ks \union {n} \subseteq Int /\ m \in ks \union {n}
    <3>1. n \in Int /\ ks \subseteq Int
      BY <1>0, <1>1
    <3> QED BY <2>1, <3>1, Zenon
  <2>5. Min(ks \union {n}) = m
    BY <2>3, <2>4, MinIs
  <2> QED BY <2>5 DEF m
<1>6. Max(ks \union {n}) = n
  <2>1. \A y \in ks \union {n} : y <= n
    BY <1>0
  <2>2. ks \union {n} \subseteq Int /\ n \in ks \union {n}
    <3>1. n \in Int /\ ks \subseteq Int
      BY <1>0, <1>1
    <3> QED BY <3>1, Zenon
  <2> QED BY <2>1, <2>2, MaxIs
<1>7. Max(prices) \in prices /\ \A y \in prices : y <= Max(prices)
  <2> HIDE DEF prices
  <2> QED BY <1>1, <1>2, Extremes
<1>8. Min(prices) \in prices /\ \A y \in prices : Min(prices) <= y
  <2> HIDE DEF prices
  <2> QED BY <1>1, <1>2, Extremes
<1>9. Max(more) = IF p > Max(prices) THEN p ELSE Max(prices)
  <2> DEFINE h == Max(prices)
  <2>1. h \in prices /\ (\A y \in prices : y <= h) /\ more \subseteq Int /\ h \in Int
    BY <1>2, <1>3, <1>7
  <2> HIDE DEF h, prices, p, more
  <2>2. CASE p > h
    <3>1. \A y \in more : y <= p
      BY <1>2, <1>3, <2>1, <2>2
    <3> QED BY <1>3, <2>1, <2>2, <3>1, MaxIs DEF h
  <2>3. CASE ~(p > h)
    <3>1. \A y \in more : y <= h
      BY <1>2, <1>3, <2>1, <2>3
    <3>2. Max(more) = h
      BY <1>3, <2>1, <3>1, MaxIs
    <3> QED BY <2>3, <3>2 DEF h
  <2> QED BY <2>2, <2>3
<1>10. Min(more) = IF p < Min(prices) THEN p ELSE Min(prices)
  <2> DEFINE l == Min(prices)
  <2>1. l \in prices /\ (\A y \in prices : l <= y) /\ more \subseteq Int /\ l \in Int
    BY <1>2, <1>3, <1>8
  <2> HIDE DEF l, prices, p, more
  <2>2. CASE p < l
    <3>1. \A y \in more : p <= y
      BY <1>2, <1>3, <2>1, <2>2
    <3> QED BY <1>3, <2>1, <2>2, <3>1, MinIs DEF l
  <2>3. CASE ~(p < l)
    <3>1. \A y \in more : l <= y
      BY <1>2, <1>3, <2>1, <2>3
    <3>2. Min(more) = l
      BY <1>3, <2>1, <3>1, MinIs
    <3> QED BY <2>3, <3>2 DEF l
  <2> QED BY <2>2, <2>3
<1>11. Cardinality(ks \union {n}) = Cardinality(ks) + 1
  BY <1>0, <1>1, FS_AddElement
<1>12. BarIn(tk, ks \union {n}, b) =
         [bucket |-> b, open |-> tk[Min(ks)].price, close |-> p,
          high |-> Max(more), low |-> Min(more), volume |-> Cardinality(ks) + 1]
  BY <1>5, <1>6, <1>11 DEF BarIn
<1>13. BarIn(tk, ks, b) =
         [bucket |-> b, open |-> tk[Min(ks)].price, close |-> tk[Max(ks)].price,
          high |-> Max(prices), low |-> Min(prices), volume |-> Cardinality(ks)]
  BY DEF BarIn
<1> HIDE DEF prices, more, p
<1>14. Updated(BarIn(tk, ks, b), p) =
         [bucket |-> b, open |-> tk[Min(ks)].price, close |-> p,
          high |-> IF p > Max(prices) THEN p ELSE Max(prices),
          low |-> IF p < Min(prices) THEN p ELSE Min(prices),
          volume |-> Cardinality(ks) + 1]
  BY <1>13, UpdatedIs
<1> QED BY <1>9, <1>10, <1>12, <1>14 DEF p

\* What prices that are not given leave of a candle.
LEMMA WithoutIs ==
    ASSUME NEW c \in Candle, NEW absent
    PROVE  /\ Without(c, absent) \in Candle
           /\ Without(c, absent).bucket = c.bucket /\ Without(c, absent).volume = c.volume
           /\ absent = {} => Without(c, absent) = c
<1>1. /\ c = [bucket |-> c.bucket, open |-> c.open, close |-> c.close, high |-> c.high,
              low |-> c.low, volume |-> c.volume]
      /\ c.bucket \in Minutes /\ c.volume \in 1..MaxTicks
      /\ c.open \in Stated /\ c.close \in Stated /\ c.high \in Stated /\ c.low \in Stated
  BY DEF Candle
<1>2. 0 \in Stated
  BY DEF Stated
<1> DEFINE o == IF "open" \in absent THEN 0 ELSE c.open
           e == IF "close" \in absent THEN 0 ELSE c.close
           h == IF "high" \in absent THEN 0 ELSE c.high
           l == IF "low" \in absent THEN 0 ELSE c.low
<1>3. Without(c, absent) = [bucket |-> c.bucket, open |-> o, close |-> e, high |-> h,
                            low |-> l, volume |-> c.volume]
  <2>1. Without(c, absent) = [c EXCEPT !.open = o, !.close = e, !.high = h, !.low = l]
    BY DEF Without
  <2> HIDE DEF o, e, h, l
  <2> DEFINE cb == c.bucket
             co == c.open
             ce == c.close
             ch == c.high
             cl == c.low
             cv == c.volume
  <2>2. c = [bucket |-> cb, open |-> co, close |-> ce, high |-> ch, low |-> cl, volume |-> cv]
    BY <1>1
  <2> HIDE DEF cb, co, ce, ch, cl, cv
  <2>3. Without(c, absent) = [bucket |-> cb, open |-> o, close |-> e, high |-> h,
                              low |-> l, volume |-> cv]
    BY <2>1, <2>2
  <2> QED BY <2>3 DEF cb, cv
<1>4. o \in Stated /\ e \in Stated /\ h \in Stated /\ l \in Stated
  BY <1>1, <1>2
<1>5. absent = {} => o = c.open /\ e = c.close /\ h = c.high /\ l = c.low
  OBVIOUS
<1> HIDE DEF o, e, h, l
<1>6. Without(c, absent) \in Candle
  BY <1>1, <1>3, <1>4 DEF Candle
<1>7. absent = {} => Without(c, absent) = c
  BY <1>1, <1>3, <1>5
<1> QED BY <1>3, <1>6, <1>7

\* The same of the broker's candle of a time, which is one only when it has a tick.
LEMMA WithoutBar ==
    ASSUME NEW i, NEW b, NEW absent
    PROVE  /\ Without(Bar(i, b), absent).bucket = b
           /\ Without(Bar(i, b), absent).volume = Cardinality(InBucket(i, b))
<1> DEFINE o == ticks[Min(InBucket(i, b))].price
           e == ticks[Max(InBucket(i, b))].price
           h == Max({ticks[k].price : k \in InBucket(i, b)})
           l == Min({ticks[k].price : k \in InBucket(i, b)})
           v == Cardinality(InBucket(i, b))
<1>1. Bar(i, b) = [bucket |-> b, open |-> o, close |-> e, high |-> h, low |-> l, volume |-> v]
  BY DEF Bar
<1> HIDE DEF o, e, h, l, v
<1>2. Without(Bar(i, b), absent).bucket = b /\ Without(Bar(i, b), absent).volume = v
  BY <1>1 DEF Without
<1> QED BY <1>2 DEF v

-----------------------------------------------------------------------------
(* The inductive invariant *)

\* How far timeframe i has come in the ticks: it has not processed the last one taken while
\* it is still in work.
HeardTo(i) == IF i \in Range(work) THEN Len(dated) - 1 ELSE Len(dated)

\* The candle a tick was quoted in, and the one it was taken in.
Time(i, k) == Bucket(i, ticks[k].minute)
Place(i, k) == Bucket(i, dated[k])

Heard(i, b) == {k \in 1..HeardTo(i) : dated[k] # None /\ Place(i, k) = b}

ValueTypes ==
    /\ minute \in Minutes /\ calls \in 0 .. MaxCalls /\ faults \in 0 .. MaxFaults
    /\ ticks \in TickSeq
    /\ dated \in Seq(Minutes \union {None}) /\ Len(dated) <= Len(ticks)
    /\ forming \in [Intervals -> Candle \union {None}]
    /\ rows \in [Intervals -> [Minutes -> Candle \union {None}]]
    /\ lost \subseteq Keys /\ unsaved \subseteq Keys /\ early \subseteq Keys

\* What the call works on, as far as it has come.
CallTypes ==
    \/ pc = "idle" /\ call = NoCall
    \/ /\ pc \in {"fetch", "check", "insert", "read"}
       /\ call.interval \in Intervals /\ call.kind \in {"full", "delta", "cached"}
       /\ call.at \in Minutes /\ call.at <= minute
       /\ call.offset \in Int
       /\ pc = "fetch" => call.kind # "cached"
       /\ call.candles \subseteq Candle
       /\ call = [interval |-> call.interval, kind |-> call.kind, from |-> call.from,
                  at |-> call.at, open |-> call.open, offset |-> call.offset,
                  candles |-> call.candles]

\* work is an end of Timeframes, for a tick that was taken.
WorkInv ==
    /\ work \in Seq(Intervals) /\ Len(work) <= Len(Timeframes)
    /\ \A j \in 1..Len(work) : work[j] = Timeframes[Len(Timeframes) - Len(work) + j]
    /\ work # <<>> => dated # <<>> /\ dated[Len(dated)] # None

\* The ticks are in the order of their minutes, and so are those taken.
OrderInv ==
    /\ \A j, k \in 1..Len(ticks) : j <= k => ticks[j].minute <= ticks[k].minute
    /\ \A k \in 1..Len(ticks) : ticks[k].minute <= minute
    /\ \A j, k \in 1..Len(dated) :
          j <= k /\ dated[j] # None /\ dated[k] # None => dated[j] <= dated[k]
    /\ \A k \in 1..Len(dated) : dated[k] # None => dated[k] <= minute

\* A tick that did not come is lost to the candles it was quoted in.
LostInv ==
    \A i \in Intervals : \A k \in 1..Len(dated) : dated[k] = None => <<i, Time(i, k)>> \in lost

\* The candle that is forming is made of the ticks of its time that i has processed.
FormingInv(i) ==
    forming[i] # None =>
        LET b == forming[i].bucket
        IN  /\ Heard(i, b) # {} /\ forming[i].volume <= HeardTo(i)
            /\ <<i, b>> \notin lost => forming[i] = BarIn(ticks, Heard(i, b), b)

\* No tick that was heard belongs to a later time than the candle that is forming.  When
\* none is, one was heard that began another candle, or will.
HeardInv(i) ==
    \A k \in 1..HeardTo(i) :
        dated[k] # None /\ <<i, Place(i, k)>> \notin lost =>
            IF forming[i] = None
            THEN \E j \in 1..Len(dated) : dated[j] # None /\ Place(i, k) < Place(i, j)
            ELSE Place(i, k) <= forming[i].bucket

\* A tick that was heard is in a stored candle or in the one that is forming.
SavedInv(i) ==
    \A k \in 1..HeardTo(i) :
        dated[k] # None /\ <<i, Place(i, k)>> \notin lost \union unsaved =>
            \/ rows[i][Place(i, k)] # None
            \/ forming[i] # None /\ Place(i, k) = forming[i].bucket

BuildInv == \A i \in Intervals : FormingInv(i) /\ HeardInv(i) /\ SavedInv(i)

\* What is left of the broker's candle of a time: prices may be missing.
IsBar(c, i, b) == \E absent \in Absent : c = Without(Bar(i, b), absent)

\* A stored candle is one of an earlier time than now, unless it was downloaded early, and
\* so one that no tick to come belongs to.
RowsInv ==
    \A i \in Intervals, b \in Minutes :
        rows[i][b] # None =>
            /\ rows[i][b].bucket = b /\ b % i = 0
            /\ <<i, b>> \notin early => b < Bucket(i, minute)
            /\ <<i, b>> \notin lost \union early /\ b \notin Moved(i) => IsBar(rows[i][b], i, b)

\* What has been served is the broker's: the last candle it is still working on.
ServedInv ==
    \A i \in Intervals :
        i = call.interval /\ pc \in {"check", "insert"} =>
            /\ call.open \in Minutes /\ call.open <= Bucket(i, minute)
            /\ \A c \in call.candles :
                  /\ c.bucket % i = 0 /\ c.bucket <= call.open
                  /\ c.bucket < call.open => IsBar(c, i, c.bucket)

\* A stored candle of time b or later.
StoredFrom(i, b) == \E a \in Minutes : rows[i][a] # None /\ a >= b

\* What a call will return is stored or about to be.
FreshInv ==
    \A i \in Intervals : i = call.interval =>
        /\ pc = "fetch" /\ call.kind = "delta" =>
              call.from \in Minutes /\ rows[i][call.from] # None
        /\ pc \in {"check", "insert"} /\ call.offset >= 0 =>
              \A k \in 1..Len(ticks) : ticks[k].minute < call.at - call.offset =>
                  \/ StoredFrom(i, Time(i, k))
                  \/ \E c \in call.candles : c.bucket >= Time(i, k)
        /\ pc = "read" /\ call.offset >= 0 =>
              \A k \in 1..Len(ticks) : ticks[k].minute < call.at - call.offset =>
                  StoredFrom(i, Time(i, k)) \/ StoredFrom(i, call.at - 2 * i)

IInv == ValueTypes /\ CallTypes /\ WorkInv /\ OrderInv /\ LostInv /\ BuildInv /\ RowsInv
          /\ ServedInv /\ FreshInv

-----------------------------------------------------------------------------
(* Helpers of the steps *)

LEMMA MinuteType == Minutes \subseteq Nat
  BY NumbersAssumption DEF Minutes

\* The table with a candle inserted.
LEMMA InsertedIs ==
    ASSUME ValueTypes, NEW i \in Intervals, NEW c \in Candle
    PROVE  /\ Inserted(i, c) \in [Intervals -> [Minutes -> Candle \union {None}]]
           /\ \A j \in Intervals, b \in Minutes :
                 Inserted(i, c)[j][b] =
                   IF j = i /\ b = c.bucket /\ rows[j][b] = None THEN c ELSE rows[j][b]
<1>1. rows \in [Intervals -> [Minutes -> Candle \union {None}]] /\ c.bucket \in Minutes
  BY DEF ValueTypes, Candle
<1>2. CASE rows[i][c.bucket] = None
  BY <1>1, <1>2 DEF Inserted
<1>3. CASE rows[i][c.bucket] # None
  BY <1>1, <1>3 DEF Inserted
<1> QED BY <1>2, <1>3

\* What a download adds to the table.
LEMMA DownloadedIs ==
    ASSUME ValueTypes, CallTypes, Insert, rows' # rows
    PROVE  LET i == call.interval
               at == {c.bucket : c \in call.candles}
           IN  /\ rows' \in [Intervals -> [Minutes -> Candle \union {None}]]
               /\ \A b \in at : rows[i][b] = None
               /\ \A j \in Intervals, b \in Minutes :
                     IF j = i /\ b \in at
                     THEN \E c \in call.candles : c.bucket = b /\ rows'[j][b] = c
                     ELSE rows'[j][b] = rows[j][b]
               /\ early' = early \union {<<i, b>> : b \in at \intersect {call.open}}
               /\ pc' = "read" /\ UNCHANGED call
<1> DEFINE i == call.interval
           at == {c.bucket : c \in call.candles}
           pick(b) == CHOOSE c \in call.candles : c.bucket = b
<1>1. /\ rows \in [Intervals -> [Minutes -> Candle \union {None}]]
      /\ i \in Intervals /\ call.candles \subseteq Candle
  BY DEF ValueTypes, CallTypes, Insert
<1>2. \A b \in at : pick(b) \in call.candles /\ pick(b).bucket = b
  OBVIOUS
<1>3. /\ \A b \in at : rows[i][b] = None
      /\ rows' = [rows EXCEPT ![i] = [b \in Minutes |-> IF b \in at THEN pick(b) ELSE rows[i][b]]]
      /\ early' = early \union {<<i, b>> : b \in at \intersect {call.open}}
      /\ pc' = "read" /\ UNCHANGED call
  BY DEF Insert
<1> HIDE DEF pick, at, i
<1>4. rows' \in [Intervals -> [Minutes -> Candle \union {None}]]
  BY <1>1, <1>2, <1>3
<1>5. \A j \in Intervals, b \in Minutes :
        IF j = i /\ b \in at
        THEN \E c \in call.candles : c.bucket = b /\ rows'[j][b] = c
        ELSE rows'[j][b] = rows[j][b]
  BY <1>1, <1>2, <1>3
<1> QED BY <1>3, <1>4, <1>5 DEF at, i

\* No step changes a stored candle.
LEMMA RowsKept ==
    ASSUME ValueTypes, CallTypes, WorkInv, [Next]_vars
    PROVE  /\ rows' \in [Intervals -> [Minutes -> Candle \union {None}]]
           /\ \A i \in Intervals, b \in Minutes : rows[i][b] # None => rows'[i][b] = rows[i][b]
<1>1. CASE UNCHANGED rows
  BY <1>1 DEF ValueTypes
<1>2. ASSUME work # <<>>, forming[Head(work)] # None, rows' = Inserted(Head(work), forming[Head(work)])
      PROVE  /\ rows' \in [Intervals -> [Minutes -> Candle \union {None}]]
             /\ \A i \in Intervals, b \in Minutes : rows[i][b] # None => rows'[i][b] = rows[i][b]
  <2>1. Head(work) \in Intervals
    BY <1>2 DEF WorkInv
  <2>2. forming[Head(work)] \in Candle
    BY <1>2, <2>1 DEF ValueTypes
  <2> DEFINE i == Head(work)
             c == forming[Head(work)]
  <2>3. i \in Intervals /\ c \in Candle /\ rows' = Inserted(i, c)
    BY <1>2, <2>1, <2>2
  <2> HIDE DEF i, c
  <2> QED BY <2>3, InsertedIs
<1>3. CASE Begin
  BY <1>1, <1>2, <1>3 DEF Begin
<1>4. CASE Cancel
  BY <1>1, <1>2, <1>4 DEF Cancel
<1>5. CASE Insert
  <2>1. CASE rows' # rows
    <3> DEFINE at == {c.bucket : c \in call.candles}
    <3>1. /\ rows' \in [Intervals -> [Minutes -> Candle \union {None}]]
          /\ \A b \in at : rows[call.interval][b] = None
          /\ \A j \in Intervals, b \in Minutes :
                ~(j = call.interval /\ b \in at) => rows'[j][b] = rows[j][b]
      BY <1>5, <2>1, DownloadedIs
    <3> HIDE DEF at
    <3> QED BY <3>1
  <2> QED BY <1>1, <2>1
<1>6. \/ UNCHANGED rows \/ Begin \/ Cancel \/ Insert
  BY DEF Next, Build, GetLatest, Quote, Take, Miss, Update, Restart, Ask, Fetch, FetchFails,
         Check, InsertFails, Read, Tick, vars
<1> QED BY <1>1, <1>3, <1>4, <1>5, <1>6

\* The timeframe whose turn it is, and those left after it.
LEMMA WorkOn ==
    ASSUME WorkInv, work # <<>>
    PROVE  /\ Head(work) \in Intervals /\ Head(work) \in Range(work)
           /\ Range(work) \subseteq Intervals
           /\ Range(Tail(work)) = Range(work) \ {Head(work)}
           /\ Tail(work) \in Seq(Intervals) /\ Len(Tail(work)) <= Len(Timeframes)
           /\ \A j \in 1..Len(Tail(work)) :
                 Tail(work)[j] = Timeframes[Len(Timeframes) - Len(Tail(work)) + j]
           /\ dated # <<>> /\ dated[Len(dated)] # None
<1>1. /\ work \in Seq(Intervals) /\ Len(work) \in Nat /\ Len(work) > 0
      /\ Len(work) <= Len(Timeframes) /\ Len(Timeframes) \in Nat
      /\ \A j \in 1..Len(work) : work[j] = Timeframes[Len(Timeframes) - Len(work) + j]
  BY TimeframesAssumption DEF WorkInv
<1>2. /\ Tail(work) \in Seq(Intervals) /\ Len(Tail(work)) = Len(work) - 1
      /\ \A j \in 1..Len(Tail(work)) : Tail(work)[j] = work[j + 1]
      /\ Head(work) = work[1]
  BY <1>1
<1>3. \A j \in 1..Len(Tail(work)) :
        Tail(work)[j] = Timeframes[Len(Timeframes) - Len(Tail(work)) + j]
  <2> SUFFICES ASSUME NEW j \in 1..Len(Tail(work))
               PROVE  Tail(work)[j] = Timeframes[Len(Timeframes) - Len(Tail(work)) + j]
    OBVIOUS
  <2>1. j + 1 \in 1..Len(work) /\ j \in Int
    BY <1>1, <1>2
  <2>2. work[j + 1] = Timeframes[Len(Timeframes) - Len(work) + (j + 1)]
    BY <1>1, <2>1
  <2>3. Len(Timeframes) - Len(work) + (j + 1) = Len(Timeframes) - Len(Tail(work)) + j
    BY <1>1, <1>2, <2>1
  <2> QED BY <1>2, <2>2, <2>3
<1>4. \A j, k \in 1..Len(work) : work[j] = work[k] => j = k
  <2> SUFFICES ASSUME NEW j \in 1..Len(work), NEW k \in 1..Len(work), work[j] = work[k]
               PROVE  j = k
    OBVIOUS
  <2> DEFINE J == Len(Timeframes) - Len(work) + j
             K == Len(Timeframes) - Len(work) + k
  <2>1. J \in DOMAIN Timeframes /\ K \in DOMAIN Timeframes
    BY <1>1, TimeframesAssumption
  <2>2. Timeframes[J] = Timeframes[K]
    BY <1>1
  <2>3. J = K
    <3> HIDE DEF J, K
    <3> QED BY <2>1, <2>2, TimeframesAssumption DEF IsInjective
  <2> QED BY <1>1, <2>3
<1>5. Range(work) = {work[j] : j \in 1..Len(work)}
  BY <1>1 DEF Range
<1>6. Range(Tail(work)) = {work[j + 1] : j \in 1..(Len(work) - 1)}
  <2> DEFINE u == Tail(work)
             n == Len(work) - 1
  <2>1. DOMAIN u = 1..n /\ \A j \in 1..n : u[j] = work[j + 1]
    BY <1>1, <1>2
  <2> HIDE DEF u, n
  <2>2. Range(u) = {work[j + 1] : j \in 1..n}
    BY <2>1 DEF Range
  <2> QED BY <2>2 DEF u, n
<1>7. Range(Tail(work)) = {work[j] : j \in 2..Len(work)}
  <2>1. \A j \in 2..Len(work) : j - 1 \in 1..(Len(work) - 1) /\ (j - 1) + 1 = j
    BY <1>1
  <2>2. \A j \in 1..(Len(work) - 1) : j + 1 \in 2..Len(work)
    BY <1>1
  <2> QED BY <1>6, <2>1, <2>2
<1>8. Range(Tail(work)) = Range(work) \ {work[1]}
  <2>1. \A j \in 1..Len(work) : j = 1 \/ j \in 2..Len(work)
    BY <1>1
  <2>2. \A j \in 2..Len(work) : j # 1 /\ j \in 1..Len(work) /\ 1 \in 1..Len(work)
    BY <1>1
  <2> QED BY <1>4, <1>5, <1>7, <2>1, <2>2
<1>9. Head(work) \in Range(work) /\ Range(work) \subseteq Intervals
  BY <1>1, <1>2, <1>5
<1> QED BY <1>1, <1>2, <1>3, <1>8, <1>9 DEF WorkInv
LEMMA TimeType ==
    ASSUME ValueTypes, NEW i \in Intervals
    PROVE  /\ Len(ticks) \in Nat
           /\ \A k \in 1..Len(ticks) :
                 /\ ticks[k].minute \in Nat /\ Time(i, k) \in Minutes
                 /\ Time(i, k) <= ticks[k].minute /\ Time(i, k) % i = 0
           /\ Bucket(i, minute) \in Minutes /\ minute \in Nat
<1>1. minute \in Minutes /\ ticks \in TickSeq
  BY DEF ValueTypes
<1>2. ASSUME NEW t \in Minutes
      PROVE  t \in Nat /\ Bucket(i, t) \in Minutes /\ Bucket(i, t) <= t /\ Bucket(i, t) % i = 0
  <2>1. t \in Nat
    BY MinuteType
  <2>2. Bucket(i, t) \in Nat /\ Bucket(i, t) <= t /\ Bucket(i, t) % i = 0
    BY <2>1, BucketType
  <2> QED BY <2>1, <2>2, NumbersAssumption DEF Minutes
<1>3. Len(ticks) \in Nat /\ \A k \in 1..Len(ticks) : ticks[k].minute \in Minutes
  BY <1>1, TickType
<1> QED BY <1>1, <1>2, <1>3 DEF Time

LEMMA PlaceType ==
    ASSUME ValueTypes, NEW i \in Intervals
    PROVE  /\ Len(dated) \in Nat /\ 1..Len(dated) \subseteq 1..Len(ticks)
           /\ \A k \in 1..Len(dated) : dated[k] # None =>
                 /\ dated[k] \in Nat /\ Place(i, k) \in Minutes /\ Place(i, k) \in Nat
                 /\ Place(i, k) <= dated[k] /\ Place(i, k) % i = 0
<1>1. /\ dated \in Seq(Minutes \union {None}) /\ Len(dated) \in Nat
      /\ Len(ticks) \in Nat /\ Len(dated) <= Len(ticks)
  BY TimeType DEF ValueTypes
<1>2. ASSUME NEW t \in Minutes
      PROVE  t \in Nat /\ Bucket(i, t) \in Minutes /\ Bucket(i, t) <= t /\ Bucket(i, t) % i = 0
             /\ Bucket(i, t) \in Nat
  <2>1. t \in Nat
    BY MinuteType
  <2>2. Bucket(i, t) \in Nat /\ Bucket(i, t) <= t /\ Bucket(i, t) % i = 0
    BY <2>1, BucketType
  <2> QED BY <2>1, <2>2, NumbersAssumption DEF Minutes
<1>3. \A k \in 1..Len(dated) : dated[k] # None => dated[k] \in Minutes
  BY <1>1
<1> QED BY <1>1, <1>2, <1>3 DEF Place

\* Ticks taken later belong to later candles.
LEMMA PlaceMonotone ==
    ASSUME ValueTypes, OrderInv, NEW i \in Intervals,
           NEW j \in 1..Len(dated), NEW k \in 1..Len(dated),
           j <= k, dated[j] # None, dated[k] # None
    PROVE  Place(i, j) <= Place(i, k)
<1>1. dated[j] \in Nat /\ dated[k] \in Nat /\ dated[j] <= dated[k]
  BY PlaceType DEF OrderInv
<1> QED BY <1>1, BucketMonotone DEF Place

LEMMA HeardType ==
    ASSUME ValueTypes, WorkInv, NEW i \in Intervals
    PROVE  /\ HeardTo(i) \in Nat /\ HeardTo(i) <= Len(dated) /\ Len(dated) \in Nat
           /\ HeardTo(i) <= Len(ticks) /\ Len(ticks) \in Nat
           /\ \A b : Heard(i, b) \subseteq 1..HeardTo(i)
           /\ 1..HeardTo(i) \subseteq 1..Len(dated)
           /\ 1..HeardTo(i) \subseteq 1..Len(ticks)
<1>1. /\ dated \in Seq(Minutes \union {None}) /\ Len(dated) \in Nat
      /\ Len(ticks) \in Nat /\ Len(dated) <= Len(ticks)
  BY TimeType DEF ValueTypes
<1>2. work # <<>> => Len(dated) > 0
  BY <1>1 DEF WorkInv
<1>3. i \in Range(work) => work # <<>>
  BY DEF WorkInv, Range
<1>4. HeardTo(i) \in Nat /\ HeardTo(i) <= Len(dated)
  BY <1>1, <1>2, <1>3 DEF HeardTo
<1> QED BY <1>1, <1>4 DEF Heard

LEMMA MovedIs ==
    ASSUME ValueTypes, NEW i \in Intervals, NEW b
    PROVE  b \in Moved(i) <=>
             \E k \in 1..Len(dated) :
                dated[k] # None /\ Place(i, k) # Time(i, k)
                /\ (b = Time(i, k) \/ b = Place(i, k))
<1>1. DOMAIN dated = 1..Len(dated)
  BY DEF ValueTypes
<1> QED BY <1>1 DEF Moved, Place, Time

\* The ticks of the next state go on from those of this one, and so do those taken.
Extended ==
    /\ ticks' \in TickSeq /\ Len(ticks) <= Len(ticks')
    /\ \A k \in 1..Len(ticks) : ticks'[k] = ticks[k]
    /\ dated' \in Seq(Minutes \union {None})
    /\ Len(dated) <= Len(dated') /\ Len(dated') <= Len(ticks')
    /\ \A k \in 1..Len(dated) : dated'[k] = dated[k]

LEMMA ExtendedTimes ==
    ASSUME ValueTypes, Extended, NEW i \in Intervals
    PROVE  /\ Len(ticks) \in Nat /\ Len(ticks') \in Nat
           /\ \A k \in 1..Len(ticks) : k \in 1..Len(ticks') /\ Time(i, k)' = Time(i, k)
           /\ Len(dated) \in Nat /\ Len(dated') \in Nat
           /\ \A k \in 1..Len(dated) : k \in 1..Len(dated') /\ Place(i, k)' = Place(i, k)
<1>1. Len(ticks) \in Nat /\ Len(ticks') \in Nat
  BY TickType DEF ValueTypes, Extended
<1>2. Len(dated) \in Nat /\ Len(dated') \in Nat
  BY DEF ValueTypes, Extended
<1> QED BY <1>1, <1>2 DEF Extended, Time, Place

\* What moved once stays so.
LEMMA MovedKept ==
    ASSUME ValueTypes, Extended, NEW i \in Intervals
    PROVE  Moved(i) \subseteq Moved(i)'
<1>1. DOMAIN dated = 1..Len(dated) /\ DOMAIN dated' = 1..Len(dated')
  BY DEF ValueTypes, Extended
<1>2. \A k \in DOMAIN dated :
        /\ k \in DOMAIN dated' /\ dated'[k] = dated[k] /\ ticks'[k] = ticks[k]
  <2>1. \A k \in 1..Len(dated) : k \in 1..Len(dated') /\ k \in 1..Len(ticks)
    BY ExtendedTimes, PlaceType
  <2> QED BY <1>1, <2>1 DEF Extended
<1> QED BY <1>2 DEF Moved

\* The next n ticks do not come.
LEMMA DroppedIs ==
    ASSUME ValueTypes, NEW n \in Nat, Len(dated) + n <= Len(ticks), dated' = Dropped(n),
           CandlesOf(n) \subseteq lost'
    PROVE  /\ dated' \in Seq(Minutes \union {None}) /\ Len(dated') = Len(dated) + n
           /\ \A k \in 1..Len(dated) : dated'[k] = dated[k]
           /\ \A k \in (Len(dated) + 1)..Len(dated') :
                 dated'[k] = None /\ \A i \in Intervals : <<i, Time(i, k)>> \in lost'
<1>1. dated \in Seq(Minutes \union {None}) /\ Len(dated) \in Nat
  BY DEF ValueTypes
<1> DEFINE nones == [k \in 1 .. n |-> None]
           l == Len(dated)
<1>2. nones \in Seq(Minutes \union {None}) /\ Len(nones) = n /\ \A k \in 1..n : nones[k] = None
  OBVIOUS
<1>3. dated' = dated \o nones
  BY DEF Dropped
<1> HIDE DEF nones
<1>4. /\ dated' \in Seq(Minutes \union {None}) /\ Len(dated') = l + n
      /\ \A k \in 1..l : dated'[k] = dated[k]
      /\ \A k \in (l + 1)..(l + n) : dated'[k] = nones[k - l]
  <2>1. /\ dated' \in Seq(Minutes \union {None}) /\ Len(dated') = l + n
        /\ \A k \in 1..(l + n) : dated'[k] = IF k <= l THEN dated[k] ELSE nones[k - l]
    <3>1. dated \o nones \in Seq(Minutes \union {None})
      BY <1>1, <1>2
    <3>2. Len(dated \o nones) = l + n
      BY <1>1, <1>2
    <3>3. \A k \in 1..(l + n) : (dated \o nones)[k] = IF k <= l THEN dated[k] ELSE nones[k - l]
      BY <1>1, <1>2
    <3> QED BY <1>3, <3>1, <3>2, <3>3
  <2>2. \A k \in 1..l : k \in 1..(l + n) /\ k <= l
    BY <1>1
  <2>3. \A k \in (l + 1)..(l + n) : k \in 1..(l + n) /\ ~(k <= l)
    BY <1>1
  <2> HIDE DEF l
  <2> QED BY <2>1, <2>2, <2>3
<1> HIDE DEF l
<1>5. ASSUME NEW k \in (l + 1)..(l + n)
      PROVE  dated'[k] = None /\ \A i \in Intervals : <<i, Time(i, k)>> \in lost'
  <2>1. k - l \in 1..n /\ l + (k - l) = k
    BY <1>1 DEF l
  <2>2. dated'[k] = None
    BY <1>2, <1>4, <2>1
  <2> DEFINE m == k - l
  <2>3. m \in 1..n /\ l + m = k
    BY <2>1
  <2> HIDE DEF m
  <2>4. \A i \in Intervals : <<i, Bucket(i, ticks[l + m].minute)>> \in CandlesOf(n)
    BY <2>3 DEF CandlesOf, l
  <2> QED BY <2>2, <2>3, <2>4 DEF Time
<1> QED BY <1>4, <1>5 DEF l

\* How many are waiting.
LEMMA WaitingAre ==
    ASSUME ValueTypes
    PROVE  /\ Cardinality(Waiting) = Len(ticks) - Len(dated) /\ Cardinality(Waiting) \in Nat
           /\ Waiting # {} => Len(dated) < Len(ticks)
<1>1. Len(dated) \in Nat /\ Len(ticks) \in Nat /\ Len(dated) <= Len(ticks)
  BY TickType DEF ValueTypes
<1> DEFINE m == Len(dated) + 1
           n == Len(ticks)
<1>2. Cardinality(m .. n) = IF m > n THEN 0 ELSE n - m + 1
  <2>1. m \in Int /\ n \in Int
    BY <1>1
  <2> HIDE DEF m, n
  <2> QED BY <2>1, FS_Interval
<1>3. Waiting # {} => m <= n
  BY <1>1 DEF Waiting
<1> QED BY <1>1, <1>2, <1>3 DEF Waiting

\* What a step does to the ticks taken: it takes the next one, or some of the next do not
\* come and are lost, or neither.
LEMMA DatedStep ==
    ASSUME ValueTypes, WorkInv, [Next]_vars, ticks' \in TickSeq,
           Len(ticks) <= Len(ticks')
    PROVE  /\ dated' \in Seq(Minutes \union {None})
           /\ Len(dated) <= Len(dated') /\ Len(dated') <= Len(ticks')
           /\ \A k \in 1..Len(dated) : dated'[k] = dated[k]
           /\ \A k \in (Len(dated) + 1)..Len(dated') :
                 \/ dated'[k] = None /\ \A i \in Intervals : <<i, Time(i, k)>> \in lost'
                 \/ dated'[k] = minute /\ k = Len(dated')
<1>1. /\ dated \in Seq(Minutes \union {None}) /\ Len(dated) \in Nat /\ minute \in Minutes
      /\ Len(ticks) \in Nat /\ Len(dated) <= Len(ticks) /\ Len(ticks') \in Nat
  BY TickType DEF ValueTypes
<1>2. CASE UNCHANGED dated
  <2>1. \A k \in (Len(dated) + 1)..Len(dated') : FALSE
    BY <1>1, <1>2
  <2> QED BY <1>1, <1>2, <2>1
<1>3. CASE Take
  <2>1. dated' = Append(dated, minute) /\ ticks' = ticks /\ Len(dated) < Len(ticks)
    BY <1>3, WaitingAre DEF Take
  <2>2. minute \in Minutes \union {None}
    BY <1>1
  <2>3. /\ dated' \in Seq(Minutes \union {None}) /\ Len(dated') = Len(dated) + 1
        /\ \A k \in 1..Len(dated) : dated'[k] = dated[k]
        /\ dated'[Len(dated) + 1] = minute
    BY <1>1, <2>1, <2>2
  <2>4. \A k \in (Len(dated) + 1)..Len(dated') : k = Len(dated) + 1
    BY <1>1, <2>3
  <2> QED BY <1>1, <2>1, <2>3, <2>4
<1>4. ASSUME NEW n \in Nat, n <= Cardinality(Waiting), dated' = Dropped(n),
             CandlesOf(n) \subseteq lost'
      PROVE  /\ dated' \in Seq(Minutes \union {None})
             /\ Len(dated) <= Len(dated') /\ Len(dated') <= Len(ticks')
             /\ \A k \in 1..Len(dated) : dated'[k] = dated[k]
             /\ \A k \in (Len(dated) + 1)..Len(dated') :
                   dated'[k] = None /\ \A i \in Intervals : <<i, Time(i, k)>> \in lost'
  <2>1. Len(dated) + n <= Len(ticks)
    BY <1>1, <1>4, WaitingAre
  <2>2. /\ dated' \in Seq(Minutes \union {None}) /\ Len(dated') = Len(dated) + n
        /\ \A k \in 1..Len(dated) : dated'[k] = dated[k]
        /\ \A k \in (Len(dated) + 1)..Len(dated') :
              dated'[k] = None /\ \A i \in Intervals : <<i, Time(i, k)>> \in lost'
    BY <1>4, <2>1, DroppedIs
  <2>3. Len(dated) <= Len(dated') /\ Len(dated') <= Len(ticks')
    BY <1>1, <2>1, <2>2
  <2> QED BY <2>2, <2>3
<1>5. CASE Miss
  <2>1. PICK n \in 1 .. Cardinality(Waiting) :
           dated' = Dropped(n) /\ lost' = lost \union CandlesOf(n)
    BY <1>5 DEF Miss
  <2>2. n \in Nat /\ n <= Cardinality(Waiting)
    BY <2>1, WaitingAre
  <2> QED BY <1>4, <2>1, <2>2
<1>6. CASE Cancel
  <2>1. /\ dated' = Dropped(Cardinality(Waiting))
        /\ CandlesOf(Cardinality(Waiting)) \subseteq lost'
    BY <1>6 DEF Cancel
  <2> DEFINE n == Cardinality(Waiting)
  <2>2. n \in Nat /\ n <= Cardinality(Waiting)
    BY WaitingAre
  <2> HIDE DEF n
  <2> QED BY <1>4, <2>1, <2>2 DEF n
<1>7. CASE Restart
  <2>1. /\ dated' = Dropped(Cardinality(Waiting))
        /\ CandlesOf(Cardinality(Waiting)) \subseteq lost'
    BY <1>7 DEF Restart
  <2> DEFINE n == Cardinality(Waiting)
  <2>2. n \in Nat /\ n <= Cardinality(Waiting)
    BY WaitingAre
  <2> HIDE DEF n
  <2> QED BY <1>4, <2>1, <2>2 DEF n
<1> QED BY <1>2, <1>3, <1>5, <1>6, <1>7
        DEF Next, Build, GetLatest, Quote, Update, Begin, Ask, Fetch, FetchFails, Check,
            Insert, InsertFails, Read, Tick, builder, vars

\* A quote is one of this minute.
LEMMA Quoted ==
    ASSUME ValueTypes, OrderInv, NEW p \in Prices, Len(ticks) < MaxTicks,
           ticks' = Append(ticks, [price |-> p, minute |-> minute])
    PROVE  /\ ticks' \in TickSeq /\ Len(ticks) \in Nat /\ Len(ticks') = Len(ticks) + 1
           /\ \A k \in 1..Len(ticks) : ticks'[k] = ticks[k]
           /\ ticks'[Len(ticks) + 1].minute = minute
<1>1. ticks \in Seq(Quotes) /\ Len(ticks) \in Nat /\ minute \in Minutes /\ minute \in Nat
  BY TickType, MinuteType DEF ValueTypes
<1> DEFINE q == [price |-> p, minute |-> minute]
<1>2. q \in Quotes /\ q.minute = minute
  BY <1>1 DEF Quotes
<1>3. ticks' = Append(ticks, q)
  OBVIOUS
<1> HIDE DEF q
<1>4. /\ ticks' \in Seq(Quotes) /\ Len(ticks') = Len(ticks) + 1
      /\ \A k \in 1..Len(ticks) : ticks'[k] = ticks[k]
      /\ ticks'[Len(ticks) + 1] = q
  BY <1>1, <1>2, <1>3
<1> QED BY <1>1, <1>2, <1>4, NumbersAssumption DEF TickSeq

\* Time goes on, and the ticks that come are of this minute.
LEMMA TicksStep ==
    ASSUME ValueTypes, OrderInv, [Next]_vars
    PROVE  /\ ticks' \in TickSeq /\ Len(ticks) \in Nat /\ Len(ticks') \in Nat
           /\ Len(ticks) <= Len(ticks')
           /\ \A k \in 1..Len(ticks) : ticks'[k] = ticks[k]
           /\ \A k \in 1..Len(ticks') : k \in 1..Len(ticks) \/ ticks'[k].minute = minute
           /\ minute \in Nat /\ minute' \in Nat /\ minute <= minute'
<1>0. ticks \in TickSeq /\ Len(ticks) \in Nat /\ minute \in Nat
  BY TickType, MinuteType DEF ValueTypes
<1>1. minute' = minute \/ minute' = minute + 1
  BY DEF Next, Build, GetLatest, Quote, Take, Miss, Update, Begin, Cancel, Restart, Ask,
         Fetch, FetchFails, Check, Insert, InsertFails, Read, Tick, vars
<1>2. minute' \in Nat /\ minute <= minute'
  BY <1>0, <1>1
<1>3. CASE ticks' = ticks
  BY <1>0, <1>2, <1>3
<1>4. CASE \E p \in Prices : Quote(p)
  <2>1. /\ ticks' \in TickSeq /\ Len(ticks') = Len(ticks) + 1
        /\ \A k \in 1..Len(ticks) : ticks'[k] = ticks[k]
        /\ ticks'[Len(ticks) + 1].minute = minute
    BY <1>4, Quoted DEF Quote
  <2>2. \A k \in 1..Len(ticks') : k \in 1..Len(ticks) \/ k = Len(ticks) + 1
    BY <1>0, <2>1
  <2> QED BY <1>0, <1>2, <2>1, <2>2
<1> QED BY <1>3, <1>4
        DEF Next, Build, GetLatest, Take, Miss, Update, Begin, Cancel, Restart, Ask, Fetch,
            FetchFails, Check, Insert, InsertFails, Read, Tick, vars

LEMMA OrderStep ==
    ASSUME ValueTypes, WorkInv, OrderInv, [Next]_vars
    PROVE  OrderInv' /\ Extended
<1>1. /\ ticks' \in TickSeq /\ Len(ticks) \in Nat /\ Len(ticks') \in Nat
      /\ Len(ticks) <= Len(ticks')
      /\ \A k \in 1..Len(ticks) : ticks'[k] = ticks[k]
      /\ \A k \in 1..Len(ticks') : k \in 1..Len(ticks) \/ ticks'[k].minute = minute
      /\ minute \in Nat /\ minute' \in Nat /\ minute <= minute'
  BY TicksStep
<1>2. /\ dated' \in Seq(Minutes \union {None})
      /\ Len(dated) <= Len(dated') /\ Len(dated') <= Len(ticks')
      /\ \A k \in 1..Len(dated) : dated'[k] = dated[k]
      /\ \A k \in (Len(dated) + 1)..Len(dated') :
            dated'[k] = None \/ (dated'[k] = minute /\ k = Len(dated'))
      /\ Len(dated) \in Nat /\ Len(dated') \in Nat
  BY <1>1, DatedStep DEF ValueTypes
<1>3. Extended
  BY <1>1, <1>2 DEF Extended
<1>4. \A k \in 1..Len(ticks) : ticks[k].minute \in Nat /\ ticks[k].minute <= minute
  <2>1. \A t \in Minutes : t \in Nat
    BY MinuteType
  <2> QED BY <2>1, TickType DEF ValueTypes, OrderInv
<1>5. \A k \in 1..Len(ticks') : ticks'[k].minute \in Nat /\ ticks'[k].minute <= minute
  BY <1>1, <1>4
<1>6. \A k \in 1..Len(ticks') : ticks'[k].minute <= minute'
  BY <1>1, <1>5
<1>7. \A j, k \in 1..Len(ticks') : j <= k => ticks'[j].minute <= ticks'[k].minute
  <2> SUFFICES ASSUME NEW j \in 1..Len(ticks'), NEW k \in 1..Len(ticks'), j <= k
               PROVE  ticks'[j].minute <= ticks'[k].minute
    OBVIOUS
  <2>1. CASE k \in 1..Len(ticks)
    <3>1. j \in 1..Len(ticks)
      BY <1>1, <2>1
    <3> QED BY <1>1, <2>1, <3>1 DEF OrderInv
  <2>2. CASE k \notin 1..Len(ticks)
    BY <1>1, <1>5, <2>2
  <2> QED BY <2>1, <2>2
<1>8. \A k \in 1..Len(dated) : dated[k] # None => dated[k] \in Nat /\ dated[k] <= minute
  <2>1. \A t \in Minutes : t \in Nat
    BY MinuteType
  <2> QED BY <2>1 DEF ValueTypes, OrderInv
<1>9. \A k \in 1..Len(dated') :
        \/ k \in 1..Len(dated) /\ dated'[k] = dated[k]
        \/ k > Len(dated) /\ dated'[k] = None
        \/ k > Len(dated) /\ dated'[k] = minute /\ k = Len(dated')
  <2>1. \A k \in 1..Len(dated') : k \in 1..Len(dated) \/ k \in (Len(dated) + 1)..Len(dated')
    BY <1>2
  <2>2. \A k \in (Len(dated) + 1)..Len(dated') : k > Len(dated)
    BY <1>2
  <2> QED BY <1>2, <2>1, <2>2
<1>10. \A k \in 1..Len(dated') : dated'[k] # None => dated'[k] \in Nat /\ dated'[k] <= minute
  <2>1. minute <= minute
    BY <1>1
  <2> QED BY <1>1, <1>8, <1>9, <2>1
<1>11. \A k \in 1..Len(dated') : dated'[k] # None => dated'[k] <= minute'
  BY <1>1, <1>10
<1>12. \A j, k \in 1..Len(dated') :
         j <= k /\ dated'[j] # None /\ dated'[k] # None => dated'[j] <= dated'[k]
  <2> SUFFICES ASSUME NEW j \in 1..Len(dated'), NEW k \in 1..Len(dated'), j <= k,
                      dated'[j] # None, dated'[k] # None
               PROVE  dated'[j] <= dated'[k]
    OBVIOUS
  <2>1. CASE k \in 1..Len(dated)
    <3>1. j \in 1..Len(dated)
      BY <1>2, <2>1
    <3> QED BY <1>2, <2>1, <3>1 DEF OrderInv
  <2>2. CASE k \notin 1..Len(dated)
    <3>1. dated'[k] = minute
      BY <1>9, <2>2
    <3> QED BY <1>10, <3>1
  <2> QED BY <2>1, <2>2
<1> QED BY <1>3, <1>6, <1>7, <1>11, <1>12 DEF OrderInv

LEMMA LostStep ==
    ASSUME ValueTypes, WorkInv, OrderInv, LostInv, [Next]_vars
    PROVE  LostInv'
<1> SUFFICES ASSUME NEW i \in Intervals, NEW k \in 1..Len(dated'), dated'[k] = None
             PROVE  <<i, Time(i, k)'>> \in lost'
  BY DEF LostInv, Time
<1>1. /\ Extended /\ ticks' \in TickSeq /\ Len(ticks) <= Len(ticks')
  BY OrderStep, TicksStep
<1>2. lost \subseteq lost'
  BY DEF Next, Build, GetLatest, Quote, Take, Miss, Update, Begin, Cancel, Restart, Ask,
         Fetch, FetchFails, Check, Insert, InsertFails, Read, Tick, builder, vars
<1>3. Len(dated) \in Nat /\ Len(dated') \in Nat
  BY <1>1, ExtendedTimes
<1>4. CASE k \in 1..Len(dated)
  <2>1. dated[k] = None /\ Time(i, k)' = Time(i, k)
    BY <1>1, <1>4, ExtendedTimes, PlaceType DEF Extended
  <2> QED BY <1>2, <1>4, <2>1 DEF LostInv
<1>5. CASE k \notin 1..Len(dated)
  <2>1. k \in (Len(dated) + 1)..Len(dated')
    BY <1>3, <1>5
  <2>2. \/ <<i, Time(i, k)>> \in lost'
        \/ dated'[k] = minute
    BY <1>1, <2>1, DatedStep
  <2>3. minute # None
    BY NoneAssumption, NumbersAssumption DEF ValueTypes, Minutes
  <2>4. CASE ticks' = ticks
    BY <2>2, <2>3, <2>4 DEF Time
  <2>5. CASE dated' = dated
    BY <1>5, <2>5
  <2> QED BY <2>4, <2>5
          DEF Next, Build, GetLatest, Quote, Take, Miss, Update, Begin, Cancel, Restart, Ask,
              Fetch, FetchFails, Check, Insert, InsertFails, Read, Tick, builder, vars
<1> QED BY <1>4, <1>5

LEMMA WorkStep ==
    ASSUME ValueTypes, WorkInv, [Next]_vars
    PROVE  WorkInv'
<1>1. CASE Take
  <2>1. work' = Timeframes /\ dated' = Append(dated, minute)
    BY <1>1 DEF Take
  <2>2. Timeframes \in Seq(Intervals) /\ Len(Timeframes) \in Nat
    BY TimeframesAssumption DEF Intervals, Range
  <2>3. dated' # <<>> /\ dated'[Len(dated')] # None
    <3>1. dated \in Seq(Minutes \union {None}) /\ minute \in Minutes \union {None}
      BY DEF ValueTypes
    <3>2. Len(dated') = Len(dated) + 1 /\ Len(dated) \in Nat /\ dated'[Len(dated) + 1] = minute
      BY <2>1, <3>1
    <3>3. minute # None
      BY NoneAssumption, NumbersAssumption DEF ValueTypes, Minutes
    <3>4. dated' # <<>>
      BY <2>1, <3>1
    <3> QED BY <3>2, <3>3, <3>4
  <2>4. \A j \in 1..Len(Timeframes) : Len(Timeframes) - Len(Timeframes) + j = j
    BY <2>2
  <2> QED BY <2>1, <2>2, <2>3, <2>4 DEF WorkInv
<1>2. CASE work' = <<>>
  BY <1>2, TimeframesAssumption DEF WorkInv
<1>3. CASE work # <<>> /\ work' = Tail(work) /\ dated' = dated
  BY <1>3, WorkOn DEF WorkInv
<1>4. CASE UNCHANGED <<work, dated>>
  BY <1>4 DEF WorkInv
<1>5. Miss => work' = <<>>
  BY DEF Miss
<1> QED BY <1>1, <1>2, <1>3, <1>4, <1>5
        DEF Next, Build, GetLatest, Quote, Update, Begin, Cancel, Restart, Ask,
            Fetch, FetchFails, Check, Insert, InsertFails, Read, Tick, builder, vars

\* A timeframe that keeps its candle, and processes no tick but ones that did not come or it
\* has lost, keeps its invariants.
LEMMA BuildKept ==
    ASSUME ValueTypes, WorkInv, OrderInv', Extended, NEW i \in Intervals,
           forming'[i] = forming[i], HeardTo(i)' \in Nat,
           HeardTo(i) <= HeardTo(i)', HeardTo(i)' <= Len(dated'),
           \A k \in (HeardTo(i) + 1)..HeardTo(i)' :
              dated'[k] # None => <<i, Place(i, k)'>> \in lost',
           lost \subseteq lost', unsaved \subseteq unsaved',
           \A b \in Minutes : rows[i][b] # None => rows'[i][b] = rows[i][b],
           FormingInv(i), HeardInv(i), SavedInv(i)
    PROVE  FormingInv(i)' /\ HeardInv(i)' /\ SavedInv(i)'
<1> DEFINE n == HeardTo(i)
           m == HeardTo(i)'
<1>1. /\ n \in Nat /\ m \in Nat /\ n <= m /\ n <= Len(dated) /\ m <= Len(dated')
      /\ Len(dated) \in Nat /\ Len(dated') \in Nat
  BY HeardType, ExtendedTimes
<1>2. /\ \A k \in 1..n : /\ k \in 1..m /\ k \in 1..Len(dated) /\ k \in 1..Len(ticks)
                         /\ Place(i, k)' = Place(i, k) /\ dated'[k] = dated[k]
      /\ \A k \in 1..m : k \in 1..n \/ k \in (n + 1)..m
  <2> HIDE DEF n, m
  <2>1. \A k \in 1..n : k \in 1..m /\ k \in 1..Len(dated)
    BY <1>1
  <2>2. \A k \in 1..m : k \in 1..n \/ k \in (n + 1)..m
    BY <1>1
  <2>3. \A k \in 1..Len(dated) : k \in 1..Len(ticks)
    BY PlaceType
  <2> QED BY <2>1, <2>2, <2>3, ExtendedTimes DEF Extended
<1>3. \A k \in 1..m : dated'[k] # None /\ <<i, Place(i, k)'>> \notin lost' => k \in 1..n
  BY <1>2
<1>4. FormingInv(i)'
  <2> SUFFICES ASSUME forming[i] # None, NEW b, b = forming[i].bucket
               PROVE  LET later == {k \in 1..m : dated'[k] # None /\ Place(i, k)' = b}
                      IN  /\ later # {} /\ forming[i].volume <= m
                          /\ <<i, b>> \notin lost' => forming[i] = BarIn(ticks', later, b)
    BY DEF FormingInv, Heard
  <2> DEFINE later == {k \in 1..m : dated'[k] # None /\ Place(i, k)' = b}
             ks == Heard(i, b)
  <2>1. /\ ks # {} /\ forming[i].volume <= n
        /\ <<i, b>> \notin lost => forming[i] = BarIn(ticks, ks, b)
    BY DEF FormingInv
  <2>2. ks \subseteq later /\ ks \subseteq 1..Len(ticks)
    BY <1>2 DEF Heard
  <2>3. ASSUME <<i, b>> \notin lost' PROVE later = ks
    <3>1. later \subseteq ks
      BY <1>2, <1>3, <2>3 DEF Heard
    <3> QED BY <2>2, <3>1
  <2>4. ASSUME <<i, b>> \notin lost' PROVE forming[i] = BarIn(ticks', later, b)
    <3>1. ticks \in TickSeq /\ ticks' \in TickSeq /\ \A k \in ks : ticks[k] = ticks'[k]
      BY <2>2 DEF ValueTypes, Extended
    <3>2. forming[i] = BarIn(ticks, ks, b)
      BY <2>1, <2>4
    <3> DEFINE tl == ticks'
    <3>3. tl \in TickSeq /\ \A k \in 1..Len(ticks) : k \in ks => ticks[k] = tl[k]
      BY <3>1
    <3> HIDE DEF ks, later, tl
    <3>4. ks # {} /\ ks \in SUBSET (1..Len(ticks)) /\ ticks \in TickSeq
      BY <2>1, <2>2, <3>1
    <3>5. BarIn(ticks, ks, b) = BarIn(tl, ks, b)
      BY <3>3, <3>4, BarAgrees
    <3> QED BY <2>3, <2>4, <3>2, <3>5 DEF tl
  <2>5. forming[i].volume <= m
    <3> DEFINE v == forming[i].volume
    <3>1. v \in Int
      BY NumbersAssumption DEF ValueTypes, Candle
    <3> HIDE DEF n, m, v
    <3>2. v <= m
      BY <1>1, <2>1, <3>1 DEF v
    <3> QED BY <3>2 DEF v
  <2> QED BY <2>1, <2>2, <2>4, <2>5
<1>5. HeardInv(i)'
  <2> SUFFICES ASSUME NEW k \in 1..m, dated'[k] # None, <<i, Place(i, k)'>> \notin lost'
               PROVE  IF forming'[i] = None
                      THEN \E j \in 1..Len(dated') : dated'[j] # None /\ Place(i, k)' < Place(i, j)'
                      ELSE Place(i, k)' <= forming'[i].bucket
    BY DEF HeardInv, Place
  <2>1. /\ k \in 1..n /\ Place(i, k)' = Place(i, k) /\ <<i, Place(i, k)>> \notin lost
        /\ dated[k] # None
    BY <1>2, <1>3
  <2>2. CASE forming[i] # None
    BY <2>1, <2>2 DEF HeardInv
  <2>3. CASE forming[i] = None
    <3>1. PICK j \in 1..Len(dated) : dated[j] # None /\ Place(i, k) < Place(i, j)
      BY <2>1, <2>3 DEF HeardInv
    <3>2. j \in 1..Len(dated') /\ dated'[j] = dated[j] /\ Place(i, j)' = Place(i, j)
      BY ExtendedTimes DEF Extended
    <3> QED BY <2>1, <2>3, <3>1, <3>2
  <2> QED BY <2>2, <2>3
<1>6. SavedInv(i)'
  <2> SUFFICES ASSUME NEW k \in 1..m, dated'[k] # None,
                      <<i, Place(i, k)'>> \notin lost' \union unsaved'
               PROVE  \/ rows'[i][Place(i, k)'] # None
                      \/ forming'[i] # None /\ Place(i, k)' = forming'[i].bucket
    BY DEF SavedInv
  <2>1. /\ k \in 1..n /\ k \in 1..Len(dated) /\ Place(i, k)' = Place(i, k)
        /\ <<i, Place(i, k)>> \notin lost \union unsaved /\ dated[k] # None
    BY <1>2, <1>3
  <2>2. Place(i, k) \in Minutes
    BY <2>1, PlaceType
  <2> QED BY <2>1, <2>2 DEF SavedInv
<1> QED BY <1>4, <1>5, <1>6

LEMMA BegunType ==
    ASSUME NEW b \in Minutes, NEW p \in Prices, MaxTicks > 0
    PROVE  Begun(b, p) \in Candle /\ Begun(b, p).bucket = b /\ Begun(b, p).volume = 1
<1>1. 1 \in 1..MaxTicks
  BY NumbersAssumption
<1> QED BY <1>1 DEF Begun, Candle, Stated

LEMMA UpdatedType ==
    ASSUME NEW c \in Candle, NEW p \in Prices, c.volume < MaxTicks
    PROVE  /\ Updated(c, p) \in Candle /\ Updated(c, p).bucket = c.bucket
           /\ Updated(c, p).volume = c.volume + 1
<1>1. /\ c = [bucket |-> c.bucket, open |-> c.open, close |-> c.close, high |-> c.high,
              low |-> c.low, volume |-> c.volume]
      /\ c.bucket \in Minutes /\ c.open \in Stated /\ c.high \in Stated /\ c.low \in Stated
      /\ c.volume \in 1..MaxTicks
  BY DEF Candle
<1>2. Updated(c, p) =
        [bucket |-> c.bucket, open |-> c.open, close |-> p,
         high |-> IF p > c.high THEN p ELSE c.high, low |-> IF p < c.low THEN p ELSE c.low,
         volume |-> c.volume + 1]
  <2> DEFINE r == [bucket |-> c.bucket, open |-> c.open, close |-> c.close, high |-> c.high,
                   low |-> c.low, volume |-> c.volume]
  <2>1. Updated(r, p) =
          [bucket |-> c.bucket, open |-> c.open, close |-> p,
           high |-> IF p > c.high THEN p ELSE c.high, low |-> IF p < c.low THEN p ELSE c.low,
           volume |-> c.volume + 1]
    <3> DEFINE b == c.bucket
               o == c.open
               e == c.close
               h == c.high
               l == c.low
               v == c.volume
    <3> HIDE DEF b, o, e, h, l, v
    <3>1. Updated([bucket |-> b, open |-> o, close |-> e, high |-> h, low |-> l,
                   volume |-> v], p) =
            [bucket |-> b, open |-> o, close |-> p, high |-> IF p > h THEN p ELSE h,
             low |-> IF p < l THEN p ELSE l, volume |-> v + 1]
      BY UpdatedIs
    <3> QED BY <3>1 DEF b, o, e, h, l, v
  <2>2. c = r
    BY <1>1
  <2> HIDE DEF r
  <2> QED BY <2>1, <2>2
<1>3. c.volume + 1 \in 1..MaxTicks
  BY <1>1, NumbersAssumption
<1>4. p \in Stated
  BY DEF Stated
<1> QED BY <1>1, <1>2, <1>3, <1>4 DEF Candle

\* The tick in work, as the timeframe whose turn it is sees it.
LEMMA TickInWork ==
    ASSUME ValueTypes, WorkInv, OrderInv, work # <<>>, NEW i, i = Head(work)
    PROVE  /\ i \in Intervals /\ Len(dated) \in Nat \ {0} /\ Len(dated) \in 1..Len(ticks)
           /\ Len(dated) <= MaxTicks
           /\ HeardTo(i) = Len(dated) - 1 /\ dated[Len(dated)] # None
           /\ Bucket(i, LastTick.minute) = Place(i, Len(dated))
           /\ LastTick.price = ticks[Len(dated)].price /\ LastTick.price \in Prices
           /\ Place(i, Len(dated)) \in Minutes /\ Place(i, Len(dated)) \in Nat
           /\ Place(i, Len(dated)) <= Bucket(i, minute)
           /\ \A k \in 1..Len(dated) : dated[k] # None =>
                 Place(i, k) \in Nat /\ Place(i, k) <= Place(i, Len(dated))
           /\ \A b \in Minutes : b \in Nat
<1>1. i \in Intervals /\ i \in Range(work) /\ dated # <<>> /\ dated[Len(dated)] # None
  BY WorkOn
<1>2. /\ ticks \in TickSeq /\ dated \in Seq(Minutes \union {None}) /\ Len(dated) <= Len(ticks)
      /\ Len(ticks) \in Nat /\ Len(ticks) <= MaxTicks
  BY TickType DEF ValueTypes
<1>3. Len(dated) \in Nat \ {0}
  BY <1>1, <1>2
<1> DEFINE n == Len(dated)
<1>4. n \in 1..n /\ n \in 1..Len(ticks) /\ n <= MaxTicks
  BY <1>2, <1>3, NumbersAssumption
<1>5. ticks[n].price \in Prices
  BY <1>2, <1>4, TickType
<1>6. \A b \in Minutes : b \in Nat
  BY MinuteType
<1>7. Place(i, n) \in Minutes /\ Place(i, n) \in Nat
  BY <1>1, <1>4, PlaceType
<1>8. minute \in Nat
  BY <1>6 DEF ValueTypes
<1> HIDE DEF n
<1>9. \A k \in 1..n : dated[k] # None => Place(i, k) \in Nat /\ Place(i, k) <= Place(i, n)
  <2> SUFFICES ASSUME NEW k \in 1..n, dated[k] # None
               PROVE  Place(i, k) \in Nat /\ Place(i, k) <= Place(i, n)
    OBVIOUS
  <2>1. k <= n
    BY <1>4
  <2> QED BY <1>1, <1>4, <2>1, PlaceType, PlaceMonotone DEF n
<1>10. Place(i, n) <= Bucket(i, minute)
  <2>1. dated[n] <= minute /\ dated[n] \in Nat
    BY <1>1, <1>4, PlaceType DEF OrderInv, n
  <2> QED BY <1>1, <1>8, <2>1, BucketMonotone DEF Place
<1>11. Bucket(i, LastTick.minute) = Place(i, n) /\ LastTick.price = ticks[n].price
  BY DEF LastTick, Place, n
<1> QED BY <1>1, <1>3, <1>4, <1>5, <1>6, <1>7, <1>9, <1>10, <1>11 DEF HeardTo, n

\* The candle that is forming takes the tick.
LEMMA UpdateBuilds ==
    ASSUME ValueTypes, WorkInv, OrderInv, Update, NEW i, i = Head(work),
           FormingInv(i), HeardInv(i), SavedInv(i)
    PROVE  /\ forming[i] # None /\ forming[i].volume < MaxTicks
           /\ FormingInv(i)' /\ HeardInv(i)' /\ SavedInv(i)'
<1> DEFINE n == Len(dated)
           b == forming[i].bucket
           p == LastTick.price
<1>1. /\ i \in Intervals /\ n \in Nat \ {0} /\ HeardTo(i) = n - 1 /\ dated[n] # None
      /\ n <= MaxTicks /\ n \in 1..Len(ticks)
      /\ Bucket(i, LastTick.minute) = Place(i, n) /\ p = ticks[n].price /\ p \in Prices
      /\ \A k \in 1..n : dated[k] # None => Place(i, k) \in Nat /\ Place(i, k) <= Place(i, n)
      /\ \A a \in Minutes : a \in Nat
  BY TickInWork DEF Update
<1>2. /\ forming[i] # None /\ forming[i] \in Candle /\ ~(Place(i, n) > b)
      /\ forming' = [forming EXCEPT ![i] = Updated(forming[i], p)]
      /\ UNCHANGED <<ticks, dated, lost, unsaved, rows>> /\ work' = Tail(work)
      /\ ticks \in TickSeq
  BY <1>1 DEF Update, NewBucket, ValueTypes
<1>3. HeardTo(i)' = n
  BY <1>2, WorkOn DEF HeardTo, Update
<1>4. \A k : Place(i, k)' = Place(i, k)
  BY <1>2 DEF Place
<1>5. b \in Minutes /\ b \in Nat /\ forming[i].volume \in Nat
  BY <1>1, <1>2, NumbersAssumption DEF Candle
<1>6. /\ Heard(i, b) # {} /\ Heard(i, b) \in SUBSET (1..(n - 1))
      /\ forming[i].volume <= n - 1
      /\ <<i, b>> \notin lost => forming[i] = BarIn(ticks, Heard(i, b), b)
  BY <1>1, <1>2 DEF FormingInv, Heard
<1>0. dated' = dated
  BY <1>2
<1> HIDE DEF n, b, p
<1>7. n \in 1..n /\ \A k \in 1..(n - 1) : k \in 1..n
  BY <1>1
<1>8. Place(i, n) = b
  <2>1. PICK k \in 1..(n - 1) : dated[k] # None /\ Place(i, k) = b
    BY <1>1, <1>6 DEF Heard
  <2>2. b <= Place(i, n)
    BY <1>1, <1>7, <2>1
  <2> QED BY <1>1, <1>2, <1>5, <1>7, <2>2
<1>9. forming[i].volume < MaxTicks
  BY <1>1, <1>2, <1>5, <1>6, NumbersAssumption
<1>10. /\ forming'[i] = Updated(forming[i], p) /\ forming'[i] \in Candle
       /\ forming'[i].bucket = b /\ forming'[i].volume = forming[i].volume + 1
       /\ forming'[i] # None
  BY <1>1, <1>2, <1>9, UpdatedType, NoneAssumption DEF ValueTypes, b
<1>11. {k \in 1..n : dated[k] # None /\ Place(i, k) = b} = Heard(i, b) \union {n}
  BY <1>1, <1>7, <1>8 DEF Heard
<1>12. FormingInv(i)'
  <2> DEFINE ks == Heard(i, b)
             later == {k \in 1..n : dated[k] # None /\ Place(i, k) = b}
  <2>1. later # {} /\ forming'[i].volume <= n
    BY <1>1, <1>5, <1>6, <1>10, <1>11
  <2>2. ASSUME <<i, b>> \notin lost PROVE forming'[i] = BarIn(ticks, later, b)
    <3>1. /\ ks # {} /\ ks \in SUBSET (1..(n - 1)) /\ later = ks \union {n}
          /\ forming[i] = BarIn(ticks, ks, b) /\ ticks \in TickSeq /\ n \in 1..Len(ticks)
      BY <1>1, <1>2, <1>6, <1>11, <2>2
    <3> HIDE DEF ks, later
    <3>2. BarIn(ticks, ks \union {n}, b) = Updated(BarIn(ticks, ks, b), ticks[n].price)
      BY <3>1, BarUpdates
    <3> QED BY <1>1, <1>10, <3>1, <3>2
  <2>3. forming'[i] # None =>
          LET c == forming'[i].bucket
              ls == {k \in 1..HeardTo(i)' : dated'[k] # None /\ Place(i, k)' = c}
          IN  /\ ls # {} /\ forming'[i].volume <= HeardTo(i)'
              /\ <<i, c>> \notin lost' => forming'[i] = BarIn(ticks', ls, c)
    <3>1. later = {k \in 1..HeardTo(i)' : dated'[k] # None /\ Place(i, k)' = forming'[i].bucket}
      BY <1>0, <1>3, <1>4, <1>10
    <3>2. <<i, forming'[i].bucket>> \notin lost' =>
            forming'[i] = BarIn(ticks', later, forming'[i].bucket)
      <4>1. ticks' = ticks /\ lost' = lost /\ forming'[i].bucket = b
        BY <1>2, <1>10
      <4> HIDE DEF later
      <4> QED BY <2>2, <4>1
    <3> HIDE DEF later
    <3> QED BY <1>3, <2>1, <3>1, <3>2
  <2> QED BY <2>3 DEF FormingInv, Heard
<1>13. \A k \in 1..n : k = n \/ k \in 1..(n - 1)
  BY <1>1
<1>14. HeardInv(i)'
  <2>1. \A k \in 1..n : dated[k] # None /\ <<i, Place(i, k)>> \notin lost => Place(i, k) <= b
    BY <1>1, <1>8
  <2> QED BY <1>2, <1>3, <1>4, <1>10, <2>1 DEF HeardInv
<1>15. SavedInv(i)'
  <2>1. \A k \in 1..(n - 1) : dated[k] # None /\ <<i, Place(i, k)>> \notin lost \union unsaved =>
          rows[i][Place(i, k)] # None \/ Place(i, k) = b
    BY <1>1, <1>2 DEF SavedInv, b
  <2>2. \A k \in 1..n : dated[k] # None /\ <<i, Place(i, k)>> \notin lost \union unsaved =>
          rows[i][Place(i, k)] # None \/ Place(i, k) = b
    BY <1>8, <1>13, <2>1
  <2> QED BY <1>2, <1>3, <1>4, <1>10, <2>2 DEF SavedInv
<1> QED BY <1>2, <1>9, <1>12, <1>14, <1>15

\* The tick begins the next candle, and the one that was forming is stored or given up.
LEMMA BeginBuilds ==
    ASSUME ValueTypes, WorkInv, OrderInv, Begin, NEW i, i = Head(work),
           \A a \in Minutes : rows[i][a] # None => rows'[i][a] = rows[i][a],
           FormingInv(i), HeardInv(i), SavedInv(i)
    PROVE  FormingInv(i)' /\ HeardInv(i)' /\ SavedInv(i)'
<1> DEFINE n == Len(dated)
           t == Place(i, n)
           p == LastTick.price
<1>1. /\ i \in Intervals /\ n \in Nat \ {0} /\ HeardTo(i) = n - 1 /\ dated[n] # None
      /\ n <= MaxTicks /\ n \in 1..Len(ticks)
      /\ Bucket(i, LastTick.minute) = t /\ p = ticks[n].price /\ p \in Prices
      /\ t \in Minutes /\ t \in Nat
      /\ \A k \in 1..n : dated[k] # None => Place(i, k) \in Nat /\ Place(i, k) <= t
      /\ \A a \in Minutes : a \in Nat
  BY TickInWork DEF Begin
<1>2. /\ forming[i] # None => t > forming[i].bucket
      /\ forming' = [forming EXCEPT ![i] = Begun(t, p)]
      /\ UNCHANGED <<ticks, dated, lost>> /\ work' = Tail(work)
      /\ ticks \in TickSeq /\ unsaved \subseteq unsaved'
      /\ forming[i] # None =>
            \/ rows' = Inserted(i, forming[i])
            \/ <<i, forming[i].bucket>> \in unsaved'
  BY <1>1 DEF Begin, NewBucket, ValueTypes
<1>3. HeardTo(i)' = n
  BY <1>2, WorkOn DEF HeardTo, Begin
<1>4. \A k : Place(i, k)' = Place(i, k)
  BY <1>2 DEF Place
<1>0. dated' = dated
  BY <1>2
<1>5. 1..n = 1..Len(dated) /\ \A k \in 1..n : dated[k] # None => Place(i, k) \in Minutes
  BY <1>1, PlaceType
<1> HIDE DEF n, t, p
<1>6. n \in 1..n /\ \A k \in 1..n : k = n \/ k \in 1..(n - 1)
  BY <1>1
<1>7. /\ forming'[i] = Begun(t, p) /\ forming'[i] # None
      /\ forming'[i].bucket = t /\ forming'[i].volume = 1
  <2>1. MaxTicks > 0
    BY <1>1, <1>2, NumbersAssumption
  <2> QED BY <1>1, <1>2, <2>1, BegunType, NoneAssumption DEF ValueTypes
<1>8. FormingInv(i)'
  <2> DEFINE later == {k \in 1..n : dated[k] # None /\ Place(i, k) = t}
  <2>1. n \in later
    BY <1>1, <1>6 DEF t
  <2>2. ASSUME <<i, t>> \notin lost PROVE forming'[i] = BarIn(ticks, later, t)
    <3>1. ASSUME NEW k \in 1..(n - 1), dated[k] # None PROVE Place(i, k) # t
      <4>1. CASE forming[i] = None
        <5>1. ASSUME <<i, Place(i, k)>> \notin lost PROVE Place(i, k) < t
          <6>1. PICK j \in 1..n : dated[j] # None /\ Place(i, k) < Place(i, j)
            BY <1>1, <1>5, <3>1, <4>1, <5>1 DEF HeardInv
          <6>2. k \in 1..n
            BY <1>1
          <6> QED BY <1>1, <3>1, <6>1, <6>2
        <5> QED BY <1>1, <2>2, <5>1
      <4>2. CASE forming[i] # None
        <5>1. <<i, Place(i, k)>> \notin lost => Place(i, k) <= forming[i].bucket
          BY <1>1, <3>1, <4>2 DEF HeardInv
        <5>2. forming[i].bucket \in Nat /\ t > forming[i].bucket
          BY <1>1, <1>2, <4>2 DEF ValueTypes, Candle
        <5> QED BY <1>1, <2>2, <5>1, <5>2
      <4> QED BY <4>1, <4>2
    <3>2. later = {n}
      BY <1>6, <2>1, <3>1
    <3> QED BY <1>1, <1>2, <1>7, <3>2, BarBegins
  <2>3. forming'[i] # None =>
          LET c == forming'[i].bucket
              ls == {k \in 1..HeardTo(i)' : dated'[k] # None /\ Place(i, k)' = c}
          IN  /\ ls # {} /\ forming'[i].volume <= HeardTo(i)'
              /\ <<i, c>> \notin lost' => forming'[i] = BarIn(ticks', ls, c)
    <3>1. later # {} /\ forming'[i].volume <= n
      BY <1>1, <1>7, <2>1
    <3>2. later = {k \in 1..HeardTo(i)' : dated'[k] # None /\ Place(i, k)' = forming'[i].bucket}
      BY <1>0, <1>3, <1>4, <1>7
    <3>3. <<i, forming'[i].bucket>> \notin lost' =>
            forming'[i] = BarIn(ticks', later, forming'[i].bucket)
      <4>1. ticks' = ticks /\ lost' = lost /\ forming'[i].bucket = t
        BY <1>2, <1>7
      <4> HIDE DEF later
      <4> QED BY <2>2, <4>1
    <3> HIDE DEF later
    <3> QED BY <1>3, <3>1, <3>2, <3>3
  <2> QED BY <2>3 DEF FormingInv, Heard
<1>9. HeardInv(i)'
  BY <1>0, <1>1, <1>3, <1>4, <1>7 DEF HeardInv
<1>10. SavedInv(i)'
  <2> SUFFICES ASSUME NEW k \in 1..n, dated[k] # None,
                      <<i, Place(i, k)>> \notin lost \union unsaved', Place(i, k) # t
               PROVE  rows'[i][Place(i, k)] # None
    BY <1>2, <1>3, <1>4, <1>7 DEF SavedInv
  <2>1. k \in 1..(n - 1) /\ <<i, Place(i, k)>> \notin lost \union unsaved
    BY <1>2, <1>6 DEF t
  <2>2. Place(i, k) \in Minutes
    BY <1>5
  <2>3. CASE rows[i][Place(i, k)] # None
    BY <2>2, <2>3
  <2>4. CASE forming[i] # None /\ Place(i, k) = forming[i].bucket
    <3>1. rows' = Inserted(i, forming[i]) /\ forming[i] \in Candle
      BY <1>1, <1>2, <2>4 DEF ValueTypes
    <3>2. rows'[i][Place(i, k)] = IF rows[i][Place(i, k)] = None THEN forming[i]
                                  ELSE rows[i][Place(i, k)]
      BY <1>1, <2>2, <2>4, <3>1, InsertedIs
    <3> QED BY <2>4, <3>2
  <2> QED BY <1>1, <2>1, <2>3, <2>4 DEF SavedInv
<1> QED BY <1>8, <1>9, <1>10

\* The streamer restarts: nothing is forming.
LEMMA RestartBuilds ==
    ASSUME ValueTypes, WorkInv, OrderInv, Restart, Extended, NEW i \in Intervals,
           \A k \in (Len(dated) + 1)..Len(dated') : dated'[k] = None,
           FormingInv(i), HeardInv(i), SavedInv(i)
    PROVE  FormingInv(i)' /\ HeardInv(i)' /\ SavedInv(i)'
<1> DEFINE n == Len(dated)
           m == Len(dated')
<1>1. /\ forming'[i] = None /\ UNCHANGED <<unsaved, rows>> /\ work' = <<>>
      /\ lost \subseteq lost'
      /\ forming[i] # None => <<i, forming[i].bucket>> \in lost'
      /\ i \in Range(work) => <<i, Place(i, n)>> \in lost'
  BY DEF Restart, Place, LastTick
<1>2. HeardTo(i)' = m
  BY <1>1 DEF HeardTo, Range
<1>3. /\ \A k \in 1..n : k \in 1..m /\ Place(i, k)' = Place(i, k) /\ dated'[k] = dated[k]
      /\ n \in Nat /\ m \in Nat
  BY ExtendedTimes DEF Extended
<1>4. \A k \in 1..n : dated[k] # None => Place(i, k) \in Nat
  BY PlaceType
<1>5. /\ i \notin Range(work) => HeardTo(i) = n
      /\ i \in Range(work) => HeardTo(i) = n - 1
  BY DEF HeardTo
<1>6. \A k \in 1..m : dated'[k] # None => k \in 1..n
  <2>1. \A k \in 1..m : k \in 1..n \/ k \in (n + 1)..m
    BY <1>3
  <2> QED BY <2>1
<1>7. \A k \in 1..n : k \in 1..HeardTo(i) \/ <<i, Place(i, k)>> \in lost'
  <2> HIDE DEF n
  <2>1. CASE i \notin Range(work)
    BY <1>5, <2>1
  <2>2. CASE i \in Range(work)
    <3>1. \A k \in 1..n : k = n \/ k \in 1..(n - 1)
      BY <1>3
    <3> QED BY <1>1, <1>5, <2>2, <3>1
  <2> QED BY <2>1, <2>2
<1>8. \A k \in 1..m : dated'[k] # None /\ <<i, Place(i, k)'>> \notin lost' =>
        /\ k \in 1..n /\ k \in 1..HeardTo(i) /\ dated[k] # None /\ Place(i, k)' = Place(i, k)
        /\ <<i, Place(i, k)>> \notin lost
  BY <1>1, <1>3, <1>6, <1>7
<1>9. FormingInv(i)'
  BY <1>1 DEF FormingInv
<1>10. HeardInv(i)'
  <2> SUFFICES ASSUME NEW k \in 1..m, dated'[k] # None, <<i, Place(i, k)'>> \notin lost'
               PROVE  \E j \in 1..m : dated'[j] # None /\ Place(i, k)' < Place(i, j)'
    BY <1>1, <1>2 DEF HeardInv, Place
  <2>1. \E j \in 1..n : dated[j] # None /\ Place(i, k) < Place(i, j)
    <3>1. CASE forming[i] = None
      BY <1>8, <3>1 DEF HeardInv
    <3>2. CASE forming[i] # None
      <4>1. PICK j \in 1..HeardTo(i) : dated[j] # None /\ Place(i, j) = forming[i].bucket
        BY <3>2 DEF FormingInv, Heard
      <4>2. j \in 1..n
        BY <4>1, HeardType
      <4>3. Place(i, k) <= forming[i].bucket /\ Place(i, k) # forming[i].bucket
        BY <1>1, <1>8, <3>2 DEF HeardInv
      <4>4. Place(i, k) \in Nat /\ Place(i, j) \in Nat
        BY <1>4, <1>8, <4>1, <4>2
      <4>5. Place(i, k) < Place(i, j)
        BY <4>1, <4>3, <4>4
      <4> QED BY <4>1, <4>2, <4>5
    <3> QED BY <3>1, <3>2
  <2> QED BY <1>3, <1>8, <2>1
<1>11. SavedInv(i)'
  <2> SUFFICES ASSUME NEW k \in 1..m, dated'[k] # None,
                      <<i, Place(i, k)'>> \notin lost' \union unsaved'
               PROVE  rows'[i][Place(i, k)'] # None
    BY <1>1, <1>2 DEF SavedInv, Place
  <2>1. /\ k \in 1..HeardTo(i) /\ <<i, Place(i, k)>> \notin lost \union unsaved
        /\ dated[k] # None /\ Place(i, k)' = Place(i, k)
    BY <1>1, <1>8
  <2>2. <<i, forming[i].bucket>> \in lost' \/ forming[i] = None
    BY <1>1
  <2>3. ~(forming[i] # None /\ Place(i, k) = forming[i].bucket)
    BY <2>1, <2>2
  <2>4. rows[i][Place(i, k)] # None
    BY <2>1, <2>3 DEF SavedInv
  <2> QED BY <1>1, <2>1, <2>4
<1> QED BY <1>9, <1>10, <1>11

LEMMA BuildStep ==
    ASSUME ValueTypes, CallTypes, WorkInv, OrderInv, BuildInv, [Next]_vars
    PROVE  BuildInv'
<1> SUFFICES ASSUME NEW i \in Intervals PROVE FormingInv(i)' /\ HeardInv(i)' /\ SavedInv(i)'
  BY DEF BuildInv
<1> DEFINE n == Len(dated)
<1>1. /\ FormingInv(i) /\ HeardInv(i) /\ SavedInv(i)
      /\ OrderInv' /\ Extended /\ WorkInv'
      /\ \A a \in Minutes : rows[i][a] # None => rows'[i][a] = rows[i][a]
  BY OrderStep, WorkStep, RowsKept DEF BuildInv
<1>2. /\ HeardTo(i) \in Nat /\ HeardTo(i) <= n /\ n \in Nat /\ n <= Len(dated')
      /\ Len(dated') \in Nat
  BY <1>1, HeardType DEF Extended
\* What is left to show of a step of another timeframe.
<1>3. ASSUME forming'[i] = forming[i], lost \subseteq lost', unsaved \subseteq unsaved',
             NEW m \in Nat, m = HeardTo(i)', HeardTo(i) <= m, m <= Len(dated'),
             \A k \in (HeardTo(i) + 1)..m : dated'[k] # None => <<i, Place(i, k)'>> \in lost'
      PROVE  FormingInv(i)' /\ HeardInv(i)' /\ SavedInv(i)'
  BY <1>1, <1>3, BuildKept
<1>4. CASE UNCHANGED <<dated, forming, work, lost, unsaved>>
  <2>1. HeardTo(i)' = HeardTo(i)
    BY <1>4 DEF HeardTo
  <2> QED BY <1>2, <1>3, <1>4, <2>1
<1>5. CASE Take
  <2>1. work = <<>> /\ work' = Timeframes /\ dated' = Append(dated, minute)
        /\ UNCHANGED <<forming, lost, unsaved>>
    BY <1>5 DEF Take
  <2>2. HeardTo(i) = n
    BY <2>1 DEF HeardTo, Range
  <2>3. i \in Range(work')
    BY <2>1 DEF Intervals
  <2>4. Len(dated') = n + 1
    BY <2>1 DEF ValueTypes
  <2>5. HeardTo(i)' = n
    BY <1>2, <2>3, <2>4 DEF HeardTo
  <2> QED BY <1>2, <1>3, <2>1, <2>2, <2>5
\* The ticks that do not come are None.
<1>6. ASSUME Miss \/ Cancel \/ Restart PROVE \A k \in (n + 1)..Len(dated') : dated'[k] = None
  <2>1. \E c \in Nat : dated' = Dropped(c)
    <3>1. CASE Miss
      BY <3>1, WaitingAre DEF Miss
    <3> QED BY <1>6, <3>1, WaitingAre DEF Cancel, Restart
  <2>2. PICK c \in Nat : dated' = Dropped(c)
    BY <2>1
  <2> DEFINE nones == [k \in 1 .. c |-> None]
  <2>3. nones \in Seq(Minutes \union {None}) /\ Len(nones) = c /\ dated' = dated \o nones
        /\ dated \in Seq(Minutes \union {None})
    BY <2>2 DEF Dropped, ValueTypes
  <2>4. \A k \in 1..c : nones[k] = None
    OBVIOUS
  <2> HIDE DEF nones
  <2>5. Len(dated') = n + c
    <3>1. Len(dated \o nones) = Len(dated) + Len(nones)
      BY <2>3
    <3> QED BY <2>3, <3>1
  <2>6. \A k \in (n + 1)..(n + c) : dated'[k] = nones[k - n] /\ k - n \in 1..c
    BY <1>2, <2>3
  <2> QED BY <2>4, <2>5, <2>6
<1>7. CASE Miss
  <2>1. /\ UNCHANGED <<forming, unsaved, work>> /\ lost \subseteq lost' /\ work = <<>>
    BY <1>7 DEF Miss
  <2>2. HeardTo(i) = n /\ HeardTo(i)' = Len(dated')
    BY <2>1 DEF HeardTo, Range
  <2>3. \A k \in (n + 1)..Len(dated') : dated'[k] = None
    BY <1>6, <1>7
  <2> QED BY <1>2, <1>3, <2>1, <2>2, <2>3
<1>8. CASE Cancel
  <2>1. /\ UNCHANGED <<forming, unsaved>> /\ work' = <<>> /\ lost \subseteq lost'
        /\ i \in Range(work) => <<i, Bucket(i, LastTick.minute)>> \in lost'
    BY <1>8 DEF Cancel, FormingKept
  <2>2. PICK m \in Nat : m = Len(dated')
    BY <1>2
  <2>3. HeardTo(i)' = m
    BY <2>1, <2>2 DEF HeardTo, Range
  <2>4. HeardTo(i) = n \/ (HeardTo(i) = n - 1 /\ <<i, Place(i, n)>> \in lost')
    BY <2>1 DEF HeardTo, Place, LastTick
  <2>5. \A k \in (HeardTo(i) + 1)..m :
          k \in (n + 1)..m \/ (k = n /\ k \in 1..n /\ <<i, Place(i, n)>> \in lost')
    <3>1. CASE HeardTo(i) = n
      BY <3>1
    <3>2. CASE HeardTo(i) = n - 1 /\ <<i, Place(i, n)>> \in lost'
      <4> HIDE DEF n
      <4> QED BY <1>2, <2>2, <3>2
    <3> QED BY <2>4, <3>1, <3>2
  <2>6. \A k \in (n + 1)..m : dated'[k] = None
    BY <1>6, <1>8, <2>2
  <2>7. \A k \in (HeardTo(i) + 1)..m : dated'[k] # None => <<i, Place(i, k)'>> \in lost'
    BY <1>1, <2>5, <2>6, ExtendedTimes
  <2> QED BY <1>2, <1>3, <2>1, <2>2, <2>3, <2>7
<1>9. CASE Restart
  BY <1>1, <1>6, <1>9, RestartBuilds
<1>10. CASE Update \/ Begin
  <2>1. CASE i = Head(work)
    BY <1>1, <1>10, <2>1, UpdateBuilds, BeginBuilds
  <2>2. CASE i # Head(work)
    <3>1. /\ work # <<>> /\ work' = Tail(work)
          /\ UNCHANGED <<dated, lost>> /\ unsaved \subseteq unsaved'
      BY <1>10 DEF Update, Begin
    <3>2. forming'[i] = forming[i]
      BY <1>10, <2>2 DEF Update, Begin, ValueTypes
    <3>3. HeardTo(i)' = HeardTo(i)
      BY <2>2, <3>1, WorkOn DEF HeardTo
    <3> QED BY <1>2, <1>3, <3>1, <3>2, <3>3
  <2> QED BY <2>1, <2>2
<1> QED BY <1>4, <1>5, <1>7, <1>8, <1>9, <1>10
        DEF Next, Build, GetLatest, Quote, Ask, Fetch, FetchFails, Check, Insert, InsertFails,
            Read, Tick, builder, vars

-----------------------------------------------------------------------------
(* Types *)

\* The broker's candles, one for each time of a tick.
LEMMA BarsType ==
    ASSUME ValueTypes, NEW i \in Intervals
    PROVE  /\ \A c \in Bars(i) :
                 /\ c \in Candle
                 /\ \E k \in 1..Len(ticks) :
                       c.bucket = Time(i, k) /\ c = Bar(i, c.bucket)
           /\ \A k \in 1..Len(ticks) :
                 \E c \in Bars(i) : c = Bar(i, Time(i, k)) /\ c.bucket = Time(i, k)
           /\ \A b : InBucket(i, b) = {k \in 1..Len(ticks) : Time(i, k) = b}
<1>1. ticks \in TickSeq /\ DOMAIN ticks = 1..Len(ticks)
  BY TickType DEF ValueTypes
<1>2. \A b : InBucket(i, b) = {k \in 1..Len(ticks) : Time(i, k) = b}
  BY <1>1 DEF InBucket, Time
<1>3. \A b : Bar(i, b).bucket = b
  BY DEF Bar
<1>4. ASSUME NEW k \in 1..Len(ticks) PROVE Bar(i, Time(i, k)) \in Candle
  <2> DEFINE b == Time(i, k)
             ks == InBucket(i, b)
  <2>1. b \in Minutes /\ ks # {} /\ ks \in SUBSET (1..Len(ticks))
    BY <1>2, TimeType
  <2>2. Bar(i, b) = BarIn(ticks, ks, b)
    BY BarIsIn
  <2> HIDE DEF b, ks
  <2>3. Bar(i, b) \in Candle
    BY <1>1, <2>1, <2>2, BarType
  <2> QED BY <2>3 DEF b
<1>5. Bars(i) = {Bar(i, b) : b \in {Time(i, k) : k \in 1..Len(ticks)}}
  BY <1>1 DEF Bars, Time
<1>6. \A c \in Bars(i) : \E k \in 1..Len(ticks) : c = Bar(i, Time(i, k))
  BY <1>5
<1>7. \A k \in 1..Len(ticks) : Bar(i, Time(i, k)) \in Bars(i)
  BY <1>5
<1> HIDE DEF Bars
<1>8. ASSUME NEW c \in Bars(i)
      PROVE  /\ c \in Candle
             /\ \E k \in 1..Len(ticks) : c.bucket = Time(i, k) /\ c = Bar(i, c.bucket)
  <2>1. PICK k \in 1..Len(ticks) : c = Bar(i, Time(i, k))
    BY <1>6
  <2>2. c.bucket = Time(i, k)
    BY <1>3, <2>1
  <2> QED BY <1>4, <2>1, <2>2
<1> QED BY <1>2, <1>3, <1>7, <1>8

LEMMA ServedAre ==
    ASSUME ValueTypes, CallTypes, pc = "fetch", NEW o
    PROVE  Served(o) \subseteq Bars(call.interval) /\ call.interval \in Intervals
BY DEF Served, Newest, CallTypes

\* What a download takes: what is served, without the prices that are not given.
LEMMA FetchedIs ==
    ASSUME ValueTypes, CallTypes, Fetch
    PROVE  \E o \in Offsets \union {0} :
              /\ call' = [interval |-> call.interval, kind |-> call.kind, from |-> call.from,
                          at |-> call.at, open |-> Bucket(call.interval, minute),
                          offset |-> o, candles |-> call'.candles]
              /\ call'.candles \subseteq Candle
              /\ \A c \in call'.candles :
                    \E d \in Served(o), absent \in Absent : c = Without(d, absent)
              /\ \A d \in Served(o) : \E c \in call'.candles : c.bucket = d.bucket
              /\ pc' = IF Served(o) = {} THEN "read" ELSE "check"
<1>1. PICK o \in IF call.kind = "full" THEN {0} ELSE Offsets :
        /\ \E absent \in Partial(Served(o)) :
              call' = [call EXCEPT !.candles = {Without(c, absent[c]) : c \in Served(o)},
                                   !.open = Bucket(call.interval, minute), !.offset = o]
        /\ pc' = IF Served(o) = {} THEN "read" ELSE "check"
  BY DEF Fetch
<1>2. o \in Offsets \union {0}
  BY <1>1
<1> DEFINE S == Served(o)
<1>3. S \subseteq Candle
  BY ServedAre, BarsType DEF Fetch
<1>4. PICK absent \in Partial(S) :
        call' = [call EXCEPT !.candles = {Without(c, absent[c]) : c \in S},
                             !.open = Bucket(call.interval, minute), !.offset = o]
  BY <1>1
<1>5. absent \in [S -> Absent]
  BY DEF Partial
<1>6. pc' = IF S = {} THEN "read" ELSE "check"
  BY <1>1
<1> HIDE DEF S
<1> DEFINE T == {Without(c, absent[c]) : c \in S}
<1>7. call = [interval |-> call.interval, kind |-> call.kind, from |-> call.from,
              at |-> call.at, open |-> call.open, offset |-> call.offset,
              candles |-> call.candles]
  BY DEF CallTypes, Fetch
<1>8. /\ call' = [interval |-> call.interval, kind |-> call.kind, from |-> call.from,
                  at |-> call.at, open |-> Bucket(call.interval, minute),
                  offset |-> o, candles |-> T]
      /\ call'.candles = T
  <2> HIDE DEF T
  <2>1. call' = [call EXCEPT !.candles = T, !.open = Bucket(call.interval, minute), !.offset = o]
    BY <1>4 DEF T
  <2> QED BY <1>7, <2>1
<1>9. T \subseteq Candle
  BY <1>3, WithoutIs
<1>10. \A c \in T : \E d \in S, a \in Absent : c = Without(d, a)
  BY <1>5
<1>11. \A d \in S : \E c \in T : c.bucket = d.bucket
  BY <1>3, WithoutIs
<1> HIDE DEF T
<1> QED BY <1>2, <1>6, <1>8, <1>9, <1>10, <1>11 DEF S

LEMMA BuilderTypes ==
    ASSUME ValueTypes, WorkInv, OrderInv, BuildInv, [Next]_vars
    PROVE  forming' \in [Intervals -> Candle \union {None}]
<1>1. CASE UNCHANGED forming
  BY <1>1 DEF ValueTypes
<1>2. CASE Restart
  BY <1>2 DEF Restart
<1> DEFINE i == Head(work)
<1>3. CASE Update
  <2>1. /\ i \in Intervals /\ LastTick.price \in Prices
    BY <1>3, TickInWork DEF Update
  <2>2. forming[i] # None /\ forming[i].volume < MaxTicks
    BY <1>3, <2>1, UpdateBuilds DEF BuildInv
  <2>3. forming[i] \in Candle /\ forming' = [forming EXCEPT ![i] = Updated(forming[i], LastTick.price)]
    BY <1>3, <2>1, <2>2 DEF Update, ValueTypes
  <2>4. Updated(forming[i], LastTick.price) \in Candle
    BY <2>1, <2>2, <2>3, UpdatedType
  <2> QED BY <2>3, <2>4 DEF ValueTypes
<1>4. CASE Begin
  <2>1. /\ i \in Intervals /\ LastTick.price \in Prices
        /\ Bucket(i, LastTick.minute) \in Minutes /\ MaxTicks > 0
    <3>1. Len(dated) \in Nat \ {0} /\ Len(dated) <= MaxTicks
      BY <1>4, TickInWork DEF Begin
    <3>2. MaxTicks > 0
      BY <3>1, NumbersAssumption
    <3> QED BY <1>4, <3>2, TickInWork DEF Begin
  <2>2. forming' = [forming EXCEPT ![i] = Begun(Bucket(i, LastTick.minute), LastTick.price)]
    BY <1>4 DEF Begin
  <2>3. Begun(Bucket(i, LastTick.minute), LastTick.price) \in Candle
    BY <2>1, BegunType
  <2> QED BY <2>2, <2>3 DEF ValueTypes
<1> QED BY <1>1, <1>2, <1>3, <1>4
        DEF Next, Build, GetLatest, Quote, Take, Miss, Cancel, FormingKept, Ask, Fetch,
            FetchFails, Check, Insert, InsertFails, Read, Tick, builder, vars

LEMMA KeyTypes ==
    ASSUME ValueTypes, CallTypes, WorkInv, OrderInv, [Next]_vars
    PROVE  lost' \subseteq Keys /\ unsaved' \subseteq Keys /\ early' \subseteq Keys
<1>0. /\ lost \subseteq Keys /\ unsaved \subseteq Keys /\ early \subseteq Keys
      /\ forming \in [Intervals -> Candle \union {None}]
      /\ \A i \in Intervals : Bucket(i, minute) \in Minutes
      /\ \A c \in Candle : c.bucket \in Minutes
  BY TimeType DEF ValueTypes, Candle
<1>1. ASSUME work # <<>>, NEW i \in Intervals PROVE Bucket(i, LastTick.minute) \in Minutes
  <2>1. Len(dated) \in Nat /\ dated # <<>> /\ dated[Len(dated)] # None
    BY <1>1 DEF ValueTypes, WorkInv
  <2>2. Len(dated) \in 1..Len(dated)
    BY <2>1 DEF ValueTypes
  <2> QED BY <2>1, <2>2, PlaceType DEF Place, LastTick
<1>2. ASSUME NEW n \in Nat, n <= Cardinality(Waiting) PROVE CandlesOf(n) \subseteq Keys
  <2> SUFFICES ASSUME NEW i \in Intervals, NEW k \in 1..n
               PROVE  <<i, Bucket(i, ticks[Len(dated) + k].minute)>> \in Keys
    BY DEF CandlesOf
  <2> DEFINE m == Len(dated) + k
  <2>1. m \in 1..Len(ticks)
    <3>1. Len(dated) \in Nat /\ Len(ticks) \in Nat
      BY PlaceType, TimeType
    <3> QED BY <1>2, <3>1, WaitingAre
  <2> HIDE DEF m
  <2>2. Bucket(i, ticks[m].minute) \in Minutes
    BY <2>1, TimeType DEF Time
  <2> QED BY <2>2 DEF Keys, m
<1>3. CandlesOf(Cardinality(Waiting)) \subseteq Keys
  <2> DEFINE n == Cardinality(Waiting)
  <2>1. n \in Nat /\ n <= Cardinality(Waiting)
    BY WaitingAre
  <2> HIDE DEF n
  <2> QED BY <1>2, <2>1 DEF n
<1>4. CASE Miss
  <2>1. PICK n \in 1 .. Cardinality(Waiting) : lost' = lost \union CandlesOf(n)
    BY <1>4 DEF Miss
  <2>2. n \in Nat /\ n <= Cardinality(Waiting)
    BY <2>1, WaitingAre
  <2>3. lost' \subseteq Keys
    BY <1>0, <1>2, <2>1, <2>2
  <2> QED BY <1>0, <1>4, <2>3 DEF Miss, reader
<1>5. CASE Cancel
  <2>1. lost' = lost \union {<<j, Bucket(j, LastTick.minute)>> : j \in Range(work)}
                     \union CandlesOf(Cardinality(Waiting))
    BY <1>5 DEF Cancel
  <2>2. \A j \in Range(work) : j \in Intervals /\ Bucket(j, LastTick.minute) \in Minutes
    BY <1>1, <1>5, WorkOn DEF Cancel
  <2>3. lost' \subseteq Keys
    BY <1>0, <1>3, <2>1, <2>2 DEF Keys
  <2> QED BY <1>0, <1>5, <2>3 DEF Cancel, reader
<1>6. CASE Restart
  <2>1. lost' = lost
          \union {<<i, forming[i].bucket>> : i \in {j \in Intervals : forming[j] # None}}
          \union {<<i, Bucket(i, LastTick.minute)>> : i \in Range(work)}
          \union CandlesOf(Cardinality(Waiting))
    BY <1>6 DEF Restart
  <2>2. \A j \in Range(work) : j \in Intervals /\ Bucket(j, LastTick.minute) \in Minutes
    <3>1. \A j \in Range(work) : work # <<>>
      BY DEF Range
    <3> QED BY <1>1, <3>1, WorkOn
  <2>3. \A i \in {j \in Intervals : forming[j] # None} :
           i \in Intervals /\ forming[i].bucket \in Minutes
    BY <1>0
  <2>4. lost' \subseteq Keys
    BY <1>0, <1>3, <2>1, <2>2, <2>3 DEF Keys
  <2> QED BY <1>0, <1>6, <2>4 DEF Restart, reader
<1>7. CASE Begin
  <2>1. \/ UNCHANGED unsaved
        \/ /\ forming[Head(work)] # None
           /\ unsaved' = unsaved \union {<<Head(work), forming[Head(work)].bucket>>}
    BY <1>7 DEF Begin
  <2>2. Head(work) \in Intervals
    BY <1>7, WorkOn DEF Begin
  <2>3. unsaved' \subseteq Keys
    BY <1>0, <2>1, <2>2 DEF Keys
  <2> QED BY <1>0, <1>7, <2>3 DEF Begin, reader
<1>8. CASE Insert
  <2>1. CASE rows' # rows
    <3> DEFINE at == {c.bucket : c \in call.candles}
    <3>1. early' = early \union {<<call.interval, b>> : b \in at \intersect {call.open}}
      BY <1>8, <2>1, DownloadedIs
    <3>2. call.interval \in Intervals /\ at \subseteq Minutes
      BY <1>0, <1>8 DEF Insert, CallTypes
    <3>3. early' \subseteq Keys
      BY <1>0, <3>1, <3>2 DEF Keys
    <3> QED BY <1>0, <1>8, <3>3 DEF Insert, builder
  <2>2. CASE rows' = rows
    <3> DEFINE at == {c.bucket : c \in call.candles}
    <3>1. early' \subseteq early \union {<<call.interval, b>> : b \in at}
      BY <1>8 DEF Insert, Raise
    <3>2. call.interval \in Intervals /\ at \subseteq Minutes
      BY <1>0, <1>8 DEF Insert, CallTypes
    <3>3. early' \subseteq Keys
      BY <1>0, <3>1, <3>2 DEF Keys
    <3> QED BY <1>0, <1>8, <3>3 DEF Insert, builder
  <2> QED BY <2>1, <2>2
<1> QED BY <1>0, <1>4, <1>7, <1>8, <1>5, <1>6
        DEF Next, Build, GetLatest, Quote, Take, Update, Ask, Fetch, FetchFails, Check,
            InsertFails, Read, Tick, builder, reader, vars

LEMMA ValuesStep ==
    ASSUME ValueTypes, CallTypes, WorkInv, OrderInv, BuildInv, [Next]_vars
    PROVE  ValueTypes'
<1>1. minute' \in Minutes
  <2>1. minute' = minute \/ (minute < Horizon /\ minute' = minute + 1)
    BY DEF Next, Build, GetLatest, Quote, Take, Miss, Update, Begin, Cancel,
         Restart, Ask, Fetch, FetchFails, Check, Insert, InsertFails, Read, Tick, vars
  <2> QED BY <2>1, NumbersAssumption DEF ValueTypes, Minutes
<1>2. calls' \in 0 .. MaxCalls
  <2>1. calls' = calls \/ (calls < MaxCalls /\ calls' = calls + 1)
    BY DEF Next, Build, GetLatest, Quote, Take, Miss, Update, Begin, Cancel, Restart, Ask,
         Fetch, FetchFails, Check, Insert, InsertFails, Read, Tick, reader, vars
  <2> QED BY <2>1, NumbersAssumption DEF ValueTypes
<1>3. faults' = faults \/ Fault
  BY DEF Next, Build, GetLatest, Quote, Take, Miss, Update, Begin, Cancel,
         Restart, Ask, Fetch, FetchFails, Check, Insert, InsertFails, Read, Tick, builder, vars
<1>4. faults' \in 0 .. MaxFaults
  BY <1>3, NumbersAssumption DEF Fault, ValueTypes
<1>5. /\ ticks' \in TickSeq
      /\ dated' \in Seq(Minutes \union {None}) /\ Len(dated') <= Len(ticks')
  BY OrderStep DEF Extended
<1> QED BY <1>1, <1>2, <1>4, <1>5, RowsKept, BuilderTypes, KeyTypes DEF ValueTypes

LEMMA CallStep ==
    ASSUME ValueTypes, CallTypes, [Next]_vars
    PROVE  CallTypes'
<1>0. minute \in Minutes /\ minute \in Nat /\ \A t \in Minutes : t \in Nat
  BY MinuteType DEF ValueTypes
<1>1. CASE UNCHANGED <<pc, call, minute>>
  BY <1>1 DEF CallTypes
<1>2. CASE Tick
  <2>1. UNCHANGED <<pc, call>> /\ minute' = minute + 1
    BY <1>2 DEF Tick, reader
  <2> QED BY <1>0, <2>1 DEF CallTypes
<1>3. ASSUME NEW i \in Intervals, NEW e \in {0, 1}, Ask(i, e) PROVE CallTypes'
  <2>1. Kind(i, e) \in {"full", "delta", "cached"}
    BY DEF Kind
  <2>2. PICK from : call' = [interval |-> i, kind |-> Kind(i, e), at |-> minute, open |-> None,
                             offset |-> 0, candles |-> {}, from |-> from]
    BY <1>3 DEF Ask
  <2>3. pc' = (IF Kind(i, e) = "cached" THEN "read" ELSE "fetch") /\ minute' = minute
    BY <1>3 DEF Ask
  <2> QED BY <1>0, <2>1, <2>2, <2>3 DEF CallTypes
<1>4. CASE Raise /\ UNCHANGED minute
  BY <1>4 DEF Raise, CallTypes
<1>5. CASE Fetch
  <2>1. PICK o \in Offsets \union {0} :
          /\ call' = [interval |-> call.interval, kind |-> call.kind, from |-> call.from,
                      at |-> call.at, open |-> Bucket(call.interval, minute),
                      offset |-> o, candles |-> call'.candles]
          /\ call'.candles \subseteq Candle
          /\ pc' = IF Served(o) = {} THEN "read" ELSE "check"
    BY <1>5, FetchedIs
  <2>2. pc' \in {"read", "check"} /\ UNCHANGED minute /\ pc = "fetch"
    BY <1>5, <2>1 DEF Fetch
  <2>3. o \in Int
    BY NumbersAssumption
  <2>4. /\ call'.interval = call.interval /\ call'.kind = call.kind /\ call'.at = call.at
        /\ call'.offset = o /\ call'.from = call.from
        /\ call'.open = Bucket(call.interval, minute)
    BY <2>1
  <2> QED BY <2>1, <2>2, <2>3, <2>4 DEF CallTypes
<1>6. CASE Check
  <2>1. /\ call' = [call EXCEPT !.candles = Missing(call.interval, call.candles)]
        /\ pc' \in {"read", "insert"} /\ UNCHANGED minute /\ pc = "check"
    BY <1>6 DEF Check
  <2>2. Missing(call.interval, call.candles) \subseteq call.candles
    BY DEF Missing
  <2> QED BY <2>1, <2>2 DEF CallTypes
<1>7. CASE Insert
  <2>1. UNCHANGED minute /\ (Raise \/ (pc = "insert" /\ pc' = "read" /\ UNCHANGED call))
    BY <1>7 DEF Insert
  <2> QED BY <1>4, <2>1 DEF CallTypes
<1> QED BY <1>1, <1>2, <1>3, <1>4, <1>5, <1>6, <1>7
        DEF Next, Build, GetLatest, Quote, Take, Miss, Update, Begin, Cancel, Restart,
            FetchFails, InsertFails, Read, reader, vars

-----------------------------------------------------------------------------
(* Rows *)

\* Time goes on, the ticks that come are of this minute, and nothing that was lost, moved or
\* early is forgotten.
LEMMA HistoryStep ==
    ASSUME ValueTypes, CallTypes, WorkInv, OrderInv, [Next]_vars
    PROVE  /\ Extended /\ minute \in Nat /\ minute' \in Nat /\ minute <= minute'
           /\ \A k \in 1..Len(ticks') : k \in 1..Len(ticks) \/ ticks'[k].minute = minute
           /\ lost \subseteq lost' /\ early \subseteq early' /\ unsaved \subseteq unsaved'
           /\ \A i \in Intervals : Moved(i) \subseteq Moved(i)'
<1>1. lost \subseteq lost'
  BY DEF Next, Build, GetLatest, Quote, Take, Miss, Update, Begin, Cancel, Restart, Ask,
         Fetch, FetchFails, Check, Insert, InsertFails, Read, Tick, builder, vars
<1>2. early \subseteq early' /\ unsaved \subseteq unsaved'
  BY DEF Next, Build, GetLatest, Quote, Take, Miss, Update, Begin, Cancel, Restart, Ask,
         Fetch, FetchFails, Check, Insert, InsertFails, Read, Tick, builder, reader, vars
<1> QED BY <1>1, <1>2, TicksStep, OrderStep, MovedKept

\* The broker's candle of a time that is over does not change any more.
LEMMA BarStable ==
    ASSUME ValueTypes, CallTypes, WorkInv, OrderInv, [Next]_vars,
           NEW i \in Intervals, NEW b \in Minutes,
           b < Bucket(i, minute), Cardinality(InBucket(i, b)) # 0
    PROVE  Bar(i, b)' = Bar(i, b)
<1>1. /\ Extended /\ \A k \in 1..Len(ticks') : k \in 1..Len(ticks) \/ ticks'[k].minute = minute
      /\ minute \in Nat /\ b \in Nat /\ Bucket(i, minute) \in Nat
  BY OrderStep, HistoryStep, TimeType, MinuteType
<1> DEFINE ks == {k \in 1..Len(ticks) : Time(i, k) = b}
<1>2. Bar(i, b) = BarIn(ticks, ks, b)
  BY BarIsIn, BarsType
<1>3. Bar(i, b)' = BarIn(ticks', ks, b)
  <2> DEFINE tl == ticks'
  <2>1. DOMAIN tl = 1..Len(tl)
    BY <1>1, TickType DEF Extended
  <2>2. InBucket(i, b)' = {k \in 1..Len(ticks') : Bucket(i, ticks'[k].minute) = b}
    BY <2>1 DEF InBucket
  <2>3. \A k \in 1..Len(ticks') : Bucket(i, ticks'[k].minute) = b => k \in 1..Len(ticks)
    BY <1>1
  <2>4. \A k \in 1..Len(ticks) : k \in 1..Len(ticks') /\ Bucket(i, ticks'[k].minute) = Time(i, k)
    BY <1>1, ExtendedTimes DEF Time
  <2>5. InBucket(i, b)' = ks
    BY <2>2, <2>3, <2>4
  <2>6. Bar(i, b)' = BarIn(ticks', InBucket(i, b)', b)
    BY DEF Bar, BarIn
  <2> QED BY <2>5, <2>6
<1>4. ks # {}
  <2>1. InBucket(i, b) = ks
    BY BarsType
  <2> HIDE DEF ks
  <2> QED BY <2>1, FS_EmptySet
<1>5. BarIn(ticks, ks, b) = BarIn(ticks', ks, b)
  <2> DEFINE tl == ticks'
  <2>1. ks \in SUBSET (1..Len(ticks)) /\ ticks \in TickSeq /\ tl \in TickSeq
        /\ \A k \in 1..Len(ticks) : k \in ks => ticks[k] = tl[k]
    BY <1>1 DEF Extended, ValueTypes
  <2> HIDE DEF tl, ks
  <2>2. BarIn(ticks, ks, b) = BarIn(tl, ks, b)
    BY <1>4, <2>1, BarAgrees
  <2> QED BY <2>2 DEF tl
<1> QED BY <1>2, <1>3, <1>5

\* Nor does what is left of it.
LEMMA IsBarStable ==
    ASSUME ValueTypes, CallTypes, WorkInv, OrderInv, [Next]_vars,
           NEW i \in Intervals, NEW b \in Minutes, NEW c \in Candle,
           b < Bucket(i, minute), IsBar(c, i, b)
    PROVE  \E absent \in Absent : c = Without(Bar(i, b)', absent)
<1>1. PICK absent \in Absent : c = Without(Bar(i, b), absent)
  BY DEF IsBar
<1>2. c.volume \in 1..MaxTicks
  BY DEF Candle
<1>3. Cardinality(InBucket(i, b)) # 0
  <2>1. c.volume = Cardinality(InBucket(i, b))
    BY <1>1, WithoutBar
  <2> QED BY <1>2, <2>1, NumbersAssumption
<1>4. Bar(i, b)' = Bar(i, b)
  BY <1>3, BarStable
<1> QED BY <1>1, <1>4

\* What the builder stores is the broker's candle of a time that is over, unless a tick
\* crossed a boundary of it: what it heard of that time is what was quoted in it.
LEMMA StoredIsBar ==
    ASSUME ValueTypes, WorkInv, OrderInv, LostInv, BuildInv, work # <<>>, NEW i, i = Head(work),
           forming[i] # None, NewBucket(i, Bucket(i, LastTick.minute))
    PROVE  /\ forming[i] \in Candle /\ forming[i].bucket % i = 0
           /\ forming[i].bucket \in Minutes
           /\ forming[i].bucket < Bucket(i, minute)
           /\ <<i, forming[i].bucket>> \notin lost /\ forming[i].bucket \notin Moved(i) =>
                 IsBar(forming[i], i, forming[i].bucket)
<1> DEFINE n == Len(dated)
           b == forming[i].bucket
<1>1. /\ i \in Intervals /\ n \in Nat \ {0} /\ HeardTo(i) = n - 1 /\ dated[n] # None
      /\ n \in 1..Len(ticks)
      /\ Bucket(i, LastTick.minute) = Place(i, n)
      /\ Place(i, n) \in Nat /\ Place(i, n) <= Bucket(i, minute)
      /\ \A a \in Minutes : a \in Nat
  BY TickInWork
<1>2. Place(i, n) > b /\ forming[i] \in Candle /\ b \in Minutes /\ b \in Nat
  BY <1>1 DEF NewBucket, ValueTypes, Candle
<1>3. Bucket(i, minute) \in Nat
  BY <1>1, TimeType
<1>4. b < Bucket(i, minute)
  BY <1>1, <1>2, <1>3
<1>5. Heard(i, b) # {} /\ (<<i, b>> \notin lost => forming[i] = BarIn(ticks, Heard(i, b), b))
  BY <1>1 DEF BuildInv, FormingInv
<1>6. PICK h \in 1..(n - 1) : dated[h] # None /\ Place(i, h) = b
  BY <1>1, <1>5 DEF Heard
<1>7. h \in 1..n /\ \A k \in 1..(n - 1) : k \in 1..n
  BY <1>1
<1>8. b % i = 0
  BY <1>1, <1>6, <1>7, PlaceType
<1>9. ASSUME <<i, b>> \notin lost, b \notin Moved(i) PROVE Heard(i, b) = InBucket(i, b)
  <2>1. InBucket(i, b) = {k \in 1..Len(ticks) : Time(i, k) = b}
    BY <1>1, BarsType
  <2>2. \A k \in 1..n : dated[k] # None /\ (Time(i, k) = b \/ Place(i, k) = b) =>
           Place(i, k) = Time(i, k)
    BY <1>1, <1>9, MovedIs
  <2>3. \A k \in 1..n : Time(i, k) = b => dated[k] # None
    BY <1>1, <1>9 DEF LostInv
  <2>4. Heard(i, b) \subseteq InBucket(i, b)
    <3>1. \A k \in 1..n : k \in 1..Len(ticks)
      BY <1>1, PlaceType
    <3> QED BY <1>1, <1>7, <2>1, <2>2, <3>1 DEF Heard
  <2>5. Time(i, n) # b
    <3>1. n \in 1..n
      BY <1>1
    <3> HIDE DEF n
    <3> QED BY <1>1, <1>2, <2>2, <3>1
  <2>6. \A k \in 1..Len(ticks) : Time(i, k) = b => k < n
    <3> SUFFICES ASSUME NEW k \in 1..Len(ticks), Time(i, k) = b, k >= n PROVE FALSE
      BY <1>1
    <3>1. Time(i, h) = b /\ h \in 1..Len(ticks) /\ h <= n
      BY <1>1, <1>6, <1>7, <2>2, PlaceType
    <3>2. /\ ticks[h].minute <= ticks[n].minute /\ ticks[n].minute <= ticks[k].minute
          /\ ticks[h].minute \in Nat /\ ticks[n].minute \in Nat /\ ticks[k].minute \in Nat
      BY <1>1, <3>1, TimeType DEF OrderInv
    <3>3. Time(i, h) <= Time(i, n) /\ Time(i, n) <= Time(i, k)
      BY <1>1, <3>2, BucketMonotone DEF Time
    <3>4. Time(i, n) \in Nat
      BY <1>1, TimeType, MinuteType
    <3> QED BY <1>2, <2>5, <3>1, <3>3, <3>4
  <2>7. \A k \in 1..Len(ticks) : k < n => k \in 1..(n - 1) /\ k \in 1..n
    BY <1>1
  <2>8. InBucket(i, b) \subseteq Heard(i, b)
    BY <1>1, <2>1, <2>2, <2>3, <2>6, <2>7 DEF Heard
  <2> QED BY <2>4, <2>8
<1>10. ASSUME <<i, b>> \notin lost, b \notin Moved(i) PROVE IsBar(forming[i], i, b)
  <2>1. forming[i] = Bar(i, b)
    BY <1>5, <1>9, <1>10, BarIsIn
  <2>2. Without(forming[i], {}) = forming[i]
    BY <1>2, WithoutIs
  <2> QED BY <2>1, <2>2, NumbersAssumption DEF IsBar
<1> QED BY <1>2, <1>4, <1>8, <1>10

LEMMA RowsStep ==
    ASSUME ValueTypes, CallTypes, WorkInv, OrderInv, LostInv, BuildInv, RowsInv,
           ServedInv, [Next]_vars
    PROVE  RowsInv'
<1> SUFFICES ASSUME NEW i \in Intervals, NEW b \in Minutes, rows'[i][b] # None
             PROVE  /\ rows'[i][b].bucket = b /\ b % i = 0
                    /\ <<i, b>> \notin early' => b < Bucket(i, minute')
                    /\ <<i, b>> \notin lost' \union early' /\ b \notin Moved(i)' =>
                          \E absent \in Absent : rows'[i][b] = Without(Bar(i, b)', absent)
  <2>1. \A i \in Intervals, b \in Minutes : Bucket(i, minute)' = Bucket(i, minute')
    BY DEF Bucket
  <2> QED BY <2>1 DEF RowsInv, IsBar
<1>1. /\ minute' \in Nat /\ minute <= minute' /\ minute \in Nat
      /\ lost \subseteq lost' /\ early \subseteq early' /\ Moved(i) \subseteq Moved(i)'
  BY HistoryStep
<1>2. Bucket(i, minute) <= Bucket(i, minute') /\ Bucket(i, minute) \in Nat
      /\ Bucket(i, minute') \in Nat /\ b \in Nat
  BY <1>1, BucketMonotone, BucketType, MinuteType
<1>3. rows \in [Intervals -> [Minutes -> Candle \union {None}]]
  BY DEF ValueTypes
\* A row that is as it was, or is new, of a time that is over.
<1>4. ASSUME rows'[i][b] \in Candle, rows'[i][b].bucket = b, b % i = 0,
             <<i, b>> \notin early' => b < Bucket(i, minute),
             <<i, b>> \notin lost' \union early' /\ b \notin Moved(i) => IsBar(rows'[i][b], i, b)
      PROVE  /\ rows'[i][b].bucket = b /\ b % i = 0
             /\ <<i, b>> \notin early' => b < Bucket(i, minute')
             /\ <<i, b>> \notin lost' \union early' /\ b \notin Moved(i)' =>
                   \E absent \in Absent : rows'[i][b] = Without(Bar(i, b)', absent)
  <2> DEFINE c == rows'[i][b]
  <2>1. c \in Candle
    BY <1>4
  <2>2. ASSUME <<i, b>> \notin lost' \union early', b \notin Moved(i)'
        PROVE  IsBar(c, i, b) /\ b < Bucket(i, minute)
    BY <1>1, <1>4, <2>2
  <2> HIDE DEF c
  <2>3. ASSUME <<i, b>> \notin lost' \union early', b \notin Moved(i)'
        PROVE  \E absent \in Absent : c = Without(Bar(i, b)', absent)
    BY <2>1, <2>2, <2>3, IsBarStable
  <2> QED BY <1>2, <1>4, <2>3 DEF c
<1>5. CASE rows[i][b] # None
  <2>1. rows'[i][b] = rows[i][b] /\ rows[i][b] \in Candle
    BY <1>3, <1>5, RowsKept
  <2> QED BY <1>1, <1>4, <1>5, <2>1 DEF RowsInv
<1>6. CASE rows[i][b] = None
  <2>1. ASSUME work # <<>>, forming[Head(work)] # None,
               NewBucket(Head(work), Bucket(Head(work), LastTick.minute)),
               rows' = Inserted(Head(work), forming[Head(work)])
        PROVE  /\ rows'[i][b].bucket = b /\ b % i = 0
               /\ <<i, b>> \notin early' => b < Bucket(i, minute')
               /\ <<i, b>> \notin lost' \union early' /\ b \notin Moved(i)' =>
                     \E absent \in Absent : rows'[i][b] = Without(Bar(i, b)', absent)
    <3> DEFINE j == Head(work)
    <3>1. /\ j \in Intervals /\ forming[j] \in Candle /\ forming[j].bucket % j = 0
          /\ forming[j].bucket < Bucket(j, minute)
          /\ <<j, forming[j].bucket>> \notin lost /\ forming[j].bucket \notin Moved(j) =>
                IsBar(forming[j], j, forming[j].bucket)
      BY <2>1, WorkOn, StoredIsBar
    <3>2. i = j /\ b = forming[j].bucket /\ rows'[i][b] = forming[j]
      BY <1>6, <2>1, <3>1, InsertedIs
    <3> HIDE DEF j
    <3> QED BY <1>1, <1>4, <3>1, <3>2
  <2>2. CASE Begin
    <3>1. work # <<>> /\ NewBucket(Head(work), Bucket(Head(work), LastTick.minute))
      BY <2>2 DEF Begin
    <3>2. CASE forming[Head(work)] = None
      BY <1>6, <2>2, <3>2 DEF Begin
    <3>3. CASE forming[Head(work)] # None
      BY <1>6, <2>1, <2>2, <3>1, <3>3 DEF Begin
    <3> QED BY <3>2, <3>3
  <2>3. CASE Cancel
    BY <1>6, <2>1, <2>3 DEF Cancel
  <2>4. CASE Insert
    <3> DEFINE at == {c.bucket : c \in call.candles}
    <3>1. rows' # rows
      BY <1>6
    <3>2. /\ i = call.interval /\ b \in at
          /\ \E c \in call.candles : c.bucket = b /\ rows'[i][b] = c
          /\ early' = early \union {<<call.interval, a>> : a \in at \intersect {call.open}}
      BY <1>6, <2>4, <3>1, DownloadedIs
    <3>3. PICK c \in call.candles : c.bucket = b /\ rows'[i][b] = c
      BY <3>2
    <3>4. /\ call.open \in Minutes /\ call.open <= Bucket(i, minute)
          /\ b % i = 0 /\ b <= call.open
          /\ b < call.open => IsBar(c, i, b)
          /\ c \in Candle
      BY <2>4, <3>2, <3>3 DEF Insert, ServedInv, CallTypes
    <3>5. <<i, b>> \notin early' => b # call.open
      <4>1. b = call.open => b \in at \intersect {call.open}
        BY <3>2
      <4> HIDE DEF at
      <4> QED BY <3>2, <4>1
    <3>6. call.open \in Nat
      BY <3>4, MinuteType
    <3>7. <<i, b>> \notin early' => b < call.open /\ b < Bucket(i, minute)
      BY <1>2, <3>4, <3>5, <3>6
    <3> QED BY <1>4, <3>3, <3>4, <3>7
  <2>5. ~UNCHANGED rows
    BY <1>6
  <2> QED BY <2>2, <2>3, <2>4, <2>5
          DEF Next, Build, GetLatest, Quote, Take, Miss, Update, Restart, Ask, Fetch,
              FetchFails, Check, InsertFails, Read, Tick, vars
<1> QED BY <1>5, <1>6

LEMMA ServedStep ==
    ASSUME ValueTypes, CallTypes, WorkInv, OrderInv, ServedInv, [Next]_vars
    PROVE  ServedInv'
<1>1. /\ minute' \in Nat /\ minute <= minute' /\ minute \in Nat
      /\ \A t \in Minutes : t \in Nat
      /\ call.interval \in Intervals \/ pc = "idle"
  BY HistoryStep, MinuteType DEF CallTypes
<1> DEFINE Kept(i) == i = call'.interval /\ pc' \in {"check", "insert"} =>
              /\ call'.open \in Minutes /\ call'.open <= Bucket(i, minute')
              /\ \A c \in call'.candles :
                    /\ c.bucket % i = 0 /\ c.bucket <= call'.open
                    /\ c.bucket < call'.open =>
                          \E absent \in Absent : c = Without(Bar(i, c.bucket)', absent)
<1>2. (\A i \in Intervals : Kept(i)) => ServedInv'
  <2>1. \A i \in Intervals : Bucket(i, minute)' = Bucket(i, minute')
    BY DEF Bucket
  <2> QED BY <2>1 DEF ServedInv, IsBar
<1> SUFFICES ASSUME NEW i \in Intervals PROVE Kept(i)
  BY <1>2
\* What has been served stays what the broker has of the times before call.open.
<1>3. ASSUME call'.interval = call.interval, call'.open = call.open,
             call'.candles \subseteq call.candles, pc \in {"check", "insert"}
      PROVE  Kept(i)
  <2> SUFFICES ASSUME i = call.interval PROVE Kept(i)
    BY <1>3
  <2>1. /\ call.open \in Minutes /\ call.open <= Bucket(i, minute)
        /\ \A c \in call.candles :
              /\ c.bucket % i = 0 /\ c.bucket <= call.open
              /\ c.bucket < call.open => IsBar(c, i, c.bucket)
        /\ call.candles \subseteq Candle
    BY <1>3 DEF ServedInv, CallTypes
  <2>2. Bucket(i, minute) <= Bucket(i, minute') /\ Bucket(i, minute) \in Nat
        /\ Bucket(i, minute') \in Nat
    BY <1>1, BucketMonotone, BucketType
  <2>3. ASSUME NEW c \in call.candles, c.bucket < call.open
        PROVE  \E absent \in Absent : c = Without(Bar(i, c.bucket)', absent)
    <3>1. c.bucket \in Minutes /\ IsBar(c, i, c.bucket) /\ c \in Candle
      BY <2>1, <2>3 DEF Candle
    <3>2. c.bucket < Bucket(i, minute)
      BY <1>1, <2>1, <2>2, <2>3, <3>1
    <3> DEFINE b == c.bucket
    <3>3. b \in Minutes /\ IsBar(c, i, b) /\ c \in Candle /\ b < Bucket(i, minute)
      BY <3>1, <3>2
    <3> HIDE DEF b
    <3>4. \E absent \in Absent : c = Without(Bar(i, b)', absent)
      BY <3>3, IsBarStable
    <3> QED BY <3>4 DEF b
  <2>4. call.open <= Bucket(i, minute')
    BY <1>1, <2>1, <2>2
  <2> QED BY <1>3, <2>1, <2>3, <2>4
<1>4. CASE Fetch
  <2>1. UNCHANGED <<ticks, minute>> /\ pc = "fetch"
    BY <1>4 DEF Fetch
  <2>2. PICK o : /\ call'.interval = call.interval
                 /\ call'.open = Bucket(call.interval, minute)
                 /\ \A c \in call'.candles :
                       \E d \in Served(o), absent \in Absent : c = Without(d, absent)
    <3>1. PICK o \in Offsets \union {0} :
            /\ call' = [interval |-> call.interval, kind |-> call.kind, from |-> call.from,
                        at |-> call.at, open |-> Bucket(call.interval, minute),
                        offset |-> o, candles |-> call'.candles]
            /\ \A c \in call'.candles :
                  \E d \in Served(o), absent \in Absent : c = Without(d, absent)
      BY <1>4, FetchedIs
    <3>2. call'.interval = call.interval /\ call'.open = Bucket(call.interval, minute)
      BY <3>1
    <3> QED BY <3>1, <3>2
  <2> SUFFICES ASSUME i = call.interval PROVE Kept(i)
    BY <2>2
  <2>3. Bucket(i, minute) \in Minutes
    BY TimeType
  <2>4. ASSUME NEW c \in call'.candles
        PROVE  /\ c.bucket % i = 0 /\ c.bucket <= Bucket(i, minute)
               /\ \E absent \in Absent : c = Without(Bar(i, c.bucket)', absent)
    <3>1. PICK d \in Served(o), absent \in Absent : c = Without(d, absent)
      BY <2>2
    <3>2. d \in Bars(i)
      BY <2>1, <3>1, ServedAre
    <3>3. PICK k \in 1..Len(ticks) : d.bucket = Time(i, k) /\ d = Bar(i, d.bucket)
      BY <3>2, BarsType
    <3>4. c.bucket = d.bucket
      BY <3>1, <3>2, BarsType, WithoutIs
    <3>5. ticks[k].minute \in Nat /\ Time(i, k) % i = 0 /\ ticks[k].minute <= minute
      BY TimeType DEF OrderInv
    <3>6. Time(i, k) <= Bucket(i, minute)
      BY <1>1, <3>5, BucketMonotone DEF Time
    <3>7. \A b : Bar(i, b)' = Bar(i, b)
      BY <2>1 DEF Bar, InBucket
    <3>8. c = Without(Bar(i, c.bucket)', absent)
      BY <3>1, <3>3, <3>4, <3>7
    <3> QED BY <3>3, <3>4, <3>5, <3>6, <3>8
  <2>5. call'.open \in Minutes /\ call'.open <= Bucket(i, minute')
    BY <1>1, <2>1, <2>2, <2>3
  <2>6. \A c \in call'.candles :
          /\ c.bucket % i = 0 /\ c.bucket <= call'.open
          /\ \E absent \in Absent : c = Without(Bar(i, c.bucket)', absent)
    BY <2>2, <2>4
  <2> QED BY <2>5, <2>6
<1>5. CASE Check
  <2>1. /\ call' = [call EXCEPT !.candles = Missing(call.interval, call.candles)]
        /\ Missing(call.interval, call.candles) \subseteq call.candles
        /\ pc = "check"
    BY <1>5 DEF Check, Missing
  <2>2. /\ call'.interval = call.interval /\ call'.open = call.open
        /\ call'.candles = Missing(call.interval, call.candles)
    <3> HIDE DEF Missing
    <3> QED BY <2>1 DEF CallTypes
  <2> QED BY <1>3, <2>1, <2>2
<1>6. CASE UNCHANGED <<pc, call>>
  BY <1>3, <1>6
<1>7. CASE pc' \in {"idle", "fetch", "read"}
  BY <1>7
<1>8. \/ UNCHANGED <<pc, call>> \/ Fetch \/ Check \/ pc' \in {"idle", "fetch", "read"}
  BY DEF Next, Build, GetLatest, Quote, Take, Miss, Update, Begin, Cancel, Restart, Ask,
         FetchFails, Insert, InsertFails, Read, Raise, Tick, reader, vars
<1> QED BY <1>4, <1>5, <1>6, <1>7, <1>8


-----------------------------------------------------------------------------
(* Freshness *)

\* Of some candles, the last n include the latest of all.
LEMMA NewestHasLast ==
    ASSUME NEW S, S \subseteq Candle, S # {}
    PROVE  /\ Newest(S, Points) \subseteq S
           /\ \E c \in Newest(S, Points) : \A d \in S : d.bucket <= c.bucket
<1> DEFINE times == {c.bucket : c \in S}
<1>1. times \subseteq Minutes /\ times # {}
  BY DEF Candle
<1>2. IsFiniteSet(times) /\ times \subseteq Int
  <2> HIDE DEF times
  <2>1. IsFiniteSet(Minutes)
    BY NumbersAssumption, FS_Interval DEF Minutes
  <2>2. IsFiniteSet(times)
    BY <1>1, <2>1, FS_Subset
  <2>3. Minutes \subseteq Int
    BY NumbersAssumption DEF Minutes
  <2> QED BY <1>1, <2>2, <2>3
<1>3. Max(times) \in times /\ \A y \in times : Max(times) >= y
  <2> HIDE DEF times
  <2> QED BY <1>1, <1>2, Extremes
<1>4. PICK c \in S : c.bucket = Max(times)
  BY <1>3
<1>5. \A d \in S : d.bucket <= c.bucket /\ d.bucket \in Int
  BY <1>2, <1>3, <1>4
<1> DEFINE after == {d \in S : d.bucket > c.bucket}
<1>6. after = {}
  BY <1>5
<1>7. Cardinality(after) < Points
  <2> HIDE DEF after
  <2> QED BY <1>6, FS_EmptySet, NumbersAssumption
<1>8. c \in Newest(S, Points)
  BY <1>7 DEF Newest
<1> QED BY <1>5, <1>8 DEF Newest

\* The latest of some candles.
LEMMA LatestIs ==
    ASSUME NEW S, S \subseteq Candle, NEW c \in S, \A d \in S : d.bucket <= c.bucket
    PROVE  Latest(S) = c.bucket
<1> DEFINE times == {d.bucket : d \in S}
           b == c.bucket
<1>1. times \subseteq Int /\ b \in times /\ \A y \in times : y <= b
  BY NumbersAssumption DEF Candle, Minutes
<1> HIDE DEF times, b
<1>2. Max(times) = b
  BY <1>1, MaxIs
<1> QED BY <1>2 DEF Latest, times, b

\* The candles stored, each at its time.
LEMMA StoredType ==
    ASSUME ValueTypes, RowsInv, NEW i \in Intervals
    PROVE  /\ Stored(i) \subseteq Candle
           /\ \A c \in Stored(i) : c.bucket \in Minutes /\ rows[i][c.bucket] # None
           /\ \A b \in Minutes : rows[i][b] # None =>
                 \E c \in Stored(i) : c.bucket = b
<1>1. rows \in [Intervals -> [Minutes -> Candle \union {None}]]
  BY DEF ValueTypes
<1>2. \A b \in Minutes : rows[i][b] # None => rows[i][b] \in Candle /\ rows[i][b].bucket = b
  <2>1. \A b \in Minutes : rows[i][b] # None => rows[i][b] \in Candle
    BY <1>1
  <2>2. \A b \in Minutes : rows[i][b] # None => rows[i][b].bucket = b
    BY DEF RowsInv
  <2> QED BY <2>1, <2>2
<1>3. \A c \in Stored(i) : \E b \in Minutes : rows[i][b] # None /\ c = rows[i][b]
  BY DEF Stored
<1>4. \A b \in Minutes : rows[i][b] # None => rows[i][b] \in Stored(i)
  BY DEF Stored
<1> HIDE DEF Stored
<1> QED BY <1>2, <1>3, <1>4

LEMMA LatestStored ==
    ASSUME ValueTypes, RowsInv, NEW i \in Intervals, Stored(i) # {}
    PROVE  /\ Latest(Stored(i)) \in Minutes /\ rows[i][Latest(Stored(i))] # None
           /\ \A b \in Minutes : rows[i][b] # None => b <= Latest(Stored(i))
<1> DEFINE S == Stored(i)
<1>1. /\ S \subseteq Candle /\ S # {}
      /\ \A c \in S : c.bucket \in Minutes /\ rows[i][c.bucket] # None
      /\ \A b \in Minutes : rows[i][b] # None => \E c \in S : c.bucket = b
  BY StoredType
<1> HIDE DEF S
<1>2. PICK c \in S : \A d \in S : d.bucket <= c.bucket
  BY <1>1, NewestHasLast
<1>3. Latest(S) = c.bucket
  BY <1>1, <1>2, LatestIs
<1>4. \A b \in Minutes : rows[i][b] # None => b <= c.bucket
  BY <1>1, <1>2
<1>5. Latest(S) \in Minutes /\ rows[i][Latest(S)] # None
  BY <1>1, <1>3
<1>6. \A b \in Minutes : rows[i][b] # None => b <= Latest(S)
  BY <1>3, <1>4
<1> QED BY <1>5, <1>6 DEF S

\* The newest of what is stored is the latest of all that is.
LEMMA NewestStored ==
    ASSUME ValueTypes, RowsInv, NEW i \in Intervals, NEW b \in Minutes, rows[i][b] # None
    PROVE  /\ Latest(Newest(Stored(i), Points)) \in Minutes
           /\ b <= Latest(Newest(Stored(i), Points))
<1> DEFINE S == Stored(i)
           N == Newest(S, Points)
<1>1. /\ S \subseteq Candle
      /\ \A c \in S : c.bucket \in Minutes
      /\ \E c \in S : c.bucket = b
  BY StoredType
<1> HIDE DEF S
<1>2. N \subseteq S /\ \E c \in N : \A d \in S : d.bucket <= c.bucket
  BY <1>1, NewestHasLast
<1> HIDE DEF N
<1>3. PICK c \in N : \A d \in S : d.bucket <= c.bucket
  BY <1>2
<1>4. N \subseteq Candle /\ \A d \in N : d.bucket <= c.bucket
  BY <1>1, <1>2, <1>3
<1>5. Latest(N) = c.bucket
  BY <1>4, LatestIs
<1>6. c \in S
  BY <1>2
<1>7. Latest(N) \in Minutes
  BY <1>1, <1>5, <1>6
<1>8. b <= Latest(N)
  BY <1>1, <1>3, <1>5
<1> QED BY <1>7, <1>8 DEF S, N

LEMMA FreshStep ==
    ASSUME ValueTypes, CallTypes, WorkInv, OrderInv, RowsInv, FreshInv, [Next]_vars
    PROVE  FreshInv'
<1>1. /\ Extended /\ minute \in Nat /\ Len(ticks) \in Nat
      /\ \A k \in 1..Len(ticks') : k \in 1..Len(ticks) \/ ticks'[k].minute = minute
  BY HistoryStep, TickType DEF ValueTypes
<1> DEFINE From(i, b) == \E a \in Minutes : rows'[i][a] # None /\ a >= b
           Kept(i) == i = call'.interval =>
             /\ pc' = "fetch" /\ call'.kind = "delta" =>
                   call'.from \in Minutes /\ rows'[i][call'.from] # None
             /\ pc' \in {"check", "insert"} /\ call'.offset >= 0 =>
                   \A k \in 1..Len(ticks') : ticks'[k].minute < call'.at - call'.offset =>
                       \/ From(i, Time(i, k)')
                       \/ \E c \in call'.candles : c.bucket >= Time(i, k)'
             /\ pc' = "read" /\ call'.offset >= 0 =>
                   \A k \in 1..Len(ticks') : ticks'[k].minute < call'.at - call'.offset =>
                       From(i, Time(i, k)') \/ From(i, call'.at - 2 * i)
<1>2. (\A i \in Intervals : Kept(i)) => FreshInv'
  BY DEF FreshInv, StoredFrom
<1> SUFFICES ASSUME NEW i \in Intervals PROVE Kept(i)
  BY <1>2
<1>3. ASSUME NEW b, StoredFrom(i, b) PROVE From(i, b)
  BY <1>3, RowsKept DEF StoredFrom
\* The ticks of before the call are those there were.
<1>4. ASSUME call'.at <= minute, call'.at \in Minutes, call'.offset \in Int, call'.offset >= 0,
             NEW k \in 1..Len(ticks'), ticks'[k].minute < call'.at - call'.offset
      PROVE  /\ k \in 1..Len(ticks) /\ ticks[k].minute < call'.at - call'.offset
             /\ Time(i, k)' = Time(i, k)
  <2>1. call'.at \in Nat
    BY <1>4, MinuteType
  <2>2. k \in 1..Len(ticks)
    BY <1>1, <1>4, <2>1
  <2> QED BY <1>1, <1>4, <2>2, ExtendedTimes DEF Extended
\* A call that goes on as it is.
<1>5. ASSUME UNCHANGED <<pc, call>> PROVE Kept(i)
  <2> SUFFICES ASSUME i = call.interval PROVE Kept(i)
    BY <1>5
  <2>1. pc # "idle" => call.at \in Minutes /\ call.at <= minute /\ call.offset \in Int
    BY DEF CallTypes
  <2>2. pc = "fetch" /\ call.kind = "delta" => call.from \in Minutes /\ rows'[i][call.from] # None
    BY RowsKept DEF FreshInv
  <2>3. ASSUME pc \in {"check", "insert"}, call.offset >= 0, NEW k \in 1..Len(ticks'),
               ticks'[k].minute < call.at - call.offset
        PROVE  From(i, Time(i, k)') \/ \E c \in call.candles : c.bucket >= Time(i, k)'
    <3>1. /\ k \in 1..Len(ticks) /\ ticks[k].minute < call.at - call.offset
          /\ Time(i, k)' = Time(i, k)
      BY <1>4, <1>5, <2>1, <2>3
    <3>2. StoredFrom(i, Time(i, k)) \/ \E c \in call.candles : c.bucket >= Time(i, k)
      BY <2>3, <3>1 DEF FreshInv
    <3> QED BY <1>3, <3>1, <3>2
  <2>4. ASSUME pc = "read", call.offset >= 0, NEW k \in 1..Len(ticks'),
               ticks'[k].minute < call.at - call.offset
        PROVE  From(i, Time(i, k)') \/ From(i, call.at - 2 * i)
    <3>1. /\ k \in 1..Len(ticks) /\ ticks[k].minute < call.at - call.offset
          /\ Time(i, k)' = Time(i, k)
      BY <1>4, <1>5, <2>1, <2>4
    <3>2. StoredFrom(i, Time(i, k)) \/ StoredFrom(i, call.at - 2 * i)
      BY <2>4, <3>1 DEF FreshInv
    <3> QED BY <1>3, <3>1, <3>2
  <2> HIDE DEF From
  <2> QED BY <1>5, <2>2, <2>3, <2>4
<1>6. ASSUME NEW j \in Intervals, NEW e \in {0, 1}, Ask(j, e) PROVE Kept(i)
  <2>1. /\ call' = [interval |-> j, kind |-> Kind(j, e), at |-> minute, open |-> None,
                    offset |-> 0, candles |-> {},
                    from |-> IF Stored(j) = {} THEN None ELSE Latest(Stored(j))]
        /\ pc' = IF Kind(j, e) = "cached" THEN "read" ELSE "fetch"
        /\ UNCHANGED <<rows, ticks>>
    BY <1>6 DEF Ask, builder
  <2> SUFFICES ASSUME i = j PROVE Kept(i)
    BY <2>1
  <2>2. Kind(i, e) \in {"delta", "cached"} => Stored(i) # {}
    BY DEF Kind
  <2>3. Kind(i, e) = "cached" => ~TooOld(i, Age(i, e))
    BY DEF Kind
  <2> HIDE DEF Stored, Kind
  <2>4. Stored(i) # {} =>
           Latest(Stored(i)) \in Minutes /\ rows'[i][Latest(Stored(i))] # None
    BY <2>1, LatestStored
  <2>5. CASE Kind(i, e) = "cached"
    <3>1. From(i, minute - 2 * i)
      <4> DEFINE l == Latest(Stored(i))
      <4>1. l \in Minutes /\ rows'[i][l] # None /\ ~(2 * (minute - l) + e > 2 * (2 * i))
        BY <2>2, <2>3, <2>4, <2>5 DEF TooOld, Age
      <4> HIDE DEF l
      <4>2. l \in Nat /\ i \in Nat
        BY <4>1, MinuteType, IntervalType
      <4>3. l >= minute - 2 * i
        BY <1>1, <4>1, <4>2
      <4> QED BY <4>1, <4>3
    <3> HIDE DEF From
    <3> QED BY <2>1, <2>5, <3>1
  <2>6. CASE Kind(i, e) # "cached"
    <3>1. pc' = "fetch" /\ call'.kind = Kind(i, e)
          /\ (Stored(i) # {} => call'.from = Latest(Stored(i)))
      BY <2>1, <2>6
    <3> HIDE DEF From
    <3> QED BY <2>2, <2>4, <3>1
  <2> QED BY <2>5, <2>6
<1>7. CASE Fetch
  <2>1. /\ UNCHANGED <<rows, ticks>> /\ pc = "fetch"
        /\ call.at \in Minutes /\ call.at <= minute /\ call.kind \in {"full", "delta"}
    BY <1>7 DEF Fetch, CallTypes, builder
  <2>2. PICK o \in Offsets \union {0} :
          /\ call' = [interval |-> call.interval, kind |-> call.kind, from |-> call.from,
                      at |-> call.at, open |-> Bucket(call.interval, minute),
                      offset |-> o, candles |-> call'.candles]
          /\ \A d \in Served(o) : \E c \in call'.candles : c.bucket = d.bucket
          /\ pc' = IF Served(o) = {} THEN "read" ELSE "check"
    BY <1>7, FetchedIs
  <2>3. call'.interval = call.interval /\ call'.at = call.at /\ call'.offset = o /\ o \in Int
    BY <2>2, NumbersAssumption
  <2> SUFFICES ASSUME i = call.interval PROVE Kept(i)
    BY <2>3
  <2>4. ASSUME o >= 0, NEW k \in 1..Len(ticks), ticks[k].minute < call.at - o
        PROVE  StoredFrom(i, Time(i, k)) \/ \E c \in Served(o) : c.bucket >= Time(i, k)
    <3>1. PICK d \in Bars(i) : d.bucket = Time(i, k)
      BY BarsType
    <3>2. /\ Time(i, k) \in Minutes /\ Time(i, k) \in Nat
          /\ Time(i, k) <= ticks[k].minute /\ ticks[k].minute \in Nat
      BY MinuteType, TimeType
    <3>3. CASE call.kind = "full"
      <4>1. Bars(i) \subseteq Candle /\ Served(o) = Newest(Bars(i), Points)
        BY <3>3, BarsType DEF Served
      <4> HIDE DEF Bars
      <4>2. PICK c \in Newest(Bars(i), Points) : \A a \in Bars(i) : a.bucket <= c.bucket
        BY <3>1, <4>1, NewestHasLast
      <4>3. c \in Candle
        BY <3>1, <4>1, NewestHasLast
      <4>4. c.bucket \in Nat
        BY <4>3, MinuteType DEF Candle
      <4>5. c.bucket >= Time(i, k)
        BY <3>1, <3>2, <4>2, <4>4
      <4> QED BY <4>1, <4>5
    <3>4. CASE call.kind = "delta"
      <4>1. call.from \in Minutes /\ rows[i][call.from] # None
        BY <2>1, <3>4 DEF FreshInv
      <4>2. call.from \in Nat /\ call.at \in Nat
        BY <2>1, <4>1, MinuteType
      <4>3. CASE call.from >= Time(i, k)
        BY <4>1, <4>3 DEF StoredFrom
      <4>4. CASE ~(call.from >= Time(i, k))
        <5>1. call.from - o <= Time(i, k) /\ Time(i, k) <= call.at + 1 - o
          BY <2>3, <2>4, <3>2, <4>2, <4>4
        <5>2. InRange(d.bucket, o)
          BY <3>1, <5>1 DEF InRange
        <5>3. d \in Served(o)
          BY <3>1, <3>4, <5>2 DEF Served
        <5> HIDE DEF Served
        <5> QED BY <3>1, <3>2, <5>3
      <4> QED BY <4>3, <4>4
    <3> QED BY <2>1, <3>3, <3>4
  <2>5. ASSUME o >= 0, NEW k \in 1..Len(ticks'), ticks'[k].minute < call.at - o
        PROVE  /\ From(i, Time(i, k)') \/ \E c \in call'.candles : c.bucket >= Time(i, k)'
               /\ Served(o) = {} => From(i, Time(i, k)')
    <3>1. k \in 1..Len(ticks) /\ ticks[k].minute < call.at - o /\ Time(i, k)' = Time(i, k)
      BY <1>4, <2>1, <2>3, <2>5
    <3> HIDE DEF Served
    <3>2. StoredFrom(i, Time(i, k)) \/ \E c \in Served(o) : c.bucket >= Time(i, k)
      BY <2>4, <2>5, <3>1
    <3>3. (\E c \in Served(o) : c.bucket >= Time(i, k)) =>
             Served(o) # {} /\ \E c \in call'.candles : c.bucket >= Time(i, k)
      BY <2>2
    <3> HIDE DEF From
    <3> QED BY <1>3, <3>1, <3>2, <3>3
  <2> HIDE DEF Served, From
  <2> QED BY <2>2, <2>3, <2>5
<1>8. CASE Check
  <2>1. /\ UNCHANGED <<rows, ticks>> /\ pc = "check"
        /\ call'.interval = call.interval /\ call'.at = call.at /\ call'.offset = call.offset
        /\ call'.candles = Missing(call.interval, call.candles)
        /\ pc' = IF Missing(call.interval, call.candles) = {} THEN "read" ELSE "insert"
        /\ call.at \in Minutes /\ call.at <= minute /\ call.candles \subseteq Candle
        /\ call.offset \in Int
    <3> HIDE DEF Missing
    <3> QED BY <1>8 DEF Check, CallTypes, builder
  <2> SUFFICES ASSUME i = call.interval PROVE Kept(i)
    BY <2>1
  <2>2. ASSUME call.offset >= 0, NEW k \in 1..Len(ticks'),
               ticks'[k].minute < call.at - call.offset
        PROVE  From(i, Time(i, k)') \/ \E c \in Missing(i, call.candles) : c.bucket >= Time(i, k)'
    <3>1. /\ k \in 1..Len(ticks) /\ ticks[k].minute < call.at - call.offset
          /\ Time(i, k)' = Time(i, k)
      BY <1>4, <2>1, <2>2
    <3>2. StoredFrom(i, Time(i, k)) \/ \E c \in call.candles : c.bucket >= Time(i, k)
      BY <2>1, <2>2, <3>1 DEF FreshInv
    <3>3. ASSUME NEW c \in call.candles, c.bucket >= Time(i, k)
          PROVE  StoredFrom(i, Time(i, k)) \/ \E d \in Missing(i, call.candles) : d.bucket >= Time(i, k)
      BY <2>1, <3>3 DEF Missing, StoredFrom, Candle
    <3> HIDE DEF Missing
    <3> QED BY <1>3, <3>1, <3>2, <3>3
  <2> HIDE DEF Missing, From
  <2> QED BY <2>1, <2>2
<1>9. CASE Insert
  <2>1. CASE pc' = "idle"
    BY <2>1
  <2>2. CASE pc' # "idle"
    <3> DEFINE at == {c.bucket : c \in call.candles}
    <3>1. /\ pc = "insert" /\ pc' = "read" /\ UNCHANGED <<call, ticks>>
          /\ rows' = [rows EXCEPT ![call.interval] = [b \in Minutes |->
                        IF b \in at THEN CHOOSE c \in call.candles : c.bucket = b
                                    ELSE rows[call.interval][b]]]
      BY <1>9, <2>2 DEF Insert, Raise, builder
    <3>2. /\ call.interval \in Intervals /\ call.candles \subseteq Candle
          /\ call.at \in Minutes /\ call.at <= minute /\ call.offset \in Int
      BY <3>1 DEF CallTypes
    <3> SUFFICES ASSUME i = call.interval PROVE Kept(i)
      BY <3>1
    <3>3. ASSUME NEW c \in call.candles PROVE c.bucket \in Minutes /\ rows'[i][c.bucket] # None
      <4>1. c.bucket \in Minutes /\ c.bucket \in at
        BY <3>2 DEF Candle
      <4> DEFINE d == CHOOSE a \in call.candles : a.bucket = c.bucket
      <4>2. d \in call.candles
        OBVIOUS
      <4>3. d \in Candle
        BY <3>2, <4>2
      <4> HIDE DEF at
      <4>4. rows'[i][c.bucket] = d
        BY <3>1, <3>2, <4>1 DEF ValueTypes
      <4> HIDE DEF d
      <4> QED BY <4>1, <4>3, <4>4, NoneAssumption
    <3>4. ASSUME call.offset >= 0, NEW k \in 1..Len(ticks'),
                 ticks'[k].minute < call.at - call.offset
          PROVE  From(i, Time(i, k)')
      <4>1. /\ k \in 1..Len(ticks) /\ ticks[k].minute < call.at - call.offset
            /\ Time(i, k)' = Time(i, k)
        BY <1>4, <3>1, <3>2, <3>4
      <4>2. StoredFrom(i, Time(i, k)) \/ \E c \in call.candles : c.bucket >= Time(i, k)
        BY <3>1, <3>4, <4>1 DEF FreshInv
      <4> QED BY <1>3, <3>3, <4>1, <4>2
    <3> HIDE DEF From
    <3> QED BY <3>1, <3>4
  <2> QED BY <2>1, <2>2
<1>10. CASE pc' = "idle"
  BY <1>10
<1> HIDE DEF Kept
<1>11. \/ UNCHANGED <<pc, call>> \/ pc' = "idle" \/ Fetch \/ Check \/ Insert
       \/ \E j \in Intervals, e \in {0, 1} : Ask(j, e)
  BY DEF Next, Build, GetLatest, Quote, Take, Miss, Update, Begin, Cancel, Restart,
         FetchFails, InsertFails, Read, Raise, Tick, reader, vars
<1> QED BY <1>5, <1>6, <1>7, <1>8, <1>9, <1>10, <1>11

-----------------------------------------------------------------------------
(* The invariant *)

LEMMA InitIInv == Init => IInv
<1> SUFFICES ASSUME Init PROVE IInv
  OBVIOUS
<1>1. /\ minute = 0 /\ ticks = <<>> /\ dated = <<>> /\ work = <<>> /\ pc = "idle" /\ call = NoCall
      /\ calls = 0 /\ faults = 0 /\ lost = {} /\ unsaved = {} /\ early = {}
      /\ forming = [i \in Intervals |-> None]
      /\ rows = [i \in Intervals |-> [b \in Minutes |-> None]]
  BY DEF Init
<1>2. ValueTypes
  <2>1. /\ ticks \in Seq(Quotes) /\ Len(ticks) = 0
        /\ dated \in Seq(Minutes \union {None}) /\ Len(dated) = 0
    BY <1>1
  <2> QED BY <1>1, <2>1, NumbersAssumption DEF ValueTypes, TickSeq, Minutes
<1>3. CallTypes
  BY <1>1 DEF CallTypes
<1>4. WorkInv
  <2>1. Len(Timeframes) \in Nat
    BY TimeframesAssumption
  <2> QED BY <1>1, <2>1 DEF WorkInv
<1>5. OrderInv /\ LostInv
  BY <1>1 DEF OrderInv, LostInv
<1>6. BuildInv
  <2>1. \A i \in Intervals : HeardTo(i) = 0 /\ forming[i] = None
    BY <1>1 DEF HeardTo, Range
  <2> QED BY <2>1 DEF BuildInv, FormingInv, HeardInv, SavedInv
<1>7. RowsInv
  BY <1>1 DEF RowsInv
<1>8. ServedInv /\ FreshInv
  BY <1>1 DEF ServedInv, FreshInv
<1> QED BY <1>2, <1>3, <1>4, <1>5, <1>6, <1>7, <1>8 DEF IInv

THEOREM Invariance == Spec => []IInv
<1>1. IInv /\ [Next]_vars => IInv'
  BY ValuesStep, CallStep, WorkStep, OrderStep, LostStep, BuildStep, RowsStep, ServedStep,
     FreshStep DEF IInv
<1> QED BY <1>1, InitIInv, PTL DEF Spec

-----------------------------------------------------------------------------
(* The theorems *)

\* The timeframes left to process are the last ones of Timeframes.
LEMMA WorkIsSuffix ==
    ASSUME WorkInv
    PROVE  IsSuffix(work, Timeframes)
<1> DEFINE n == Len(work)
           m == Len(Timeframes)
           u == Reverse(work)
           v == Reverse(Timeframes)
<1>1. /\ n \in Nat /\ m \in Nat /\ n <= m
      /\ \A j \in 1..n : work[j] = Timeframes[m - n + j]
  BY TimeframesAssumption DEF WorkInv
<1>2. /\ u = [j \in 1..n |-> work[(n - j) + 1]] /\ v = [j \in 1..m |-> Timeframes[(m - j) + 1]]
      /\ Len(u) = n /\ Len(v) = m
  BY <1>1 DEF Reverse
<1> HIDE DEF n, m, u, v
<1>3. \A j \in 1..n : u[j] = v[j]
  <2> SUFFICES ASSUME NEW j \in 1..n PROVE u[j] = v[j]
    OBVIOUS
  <2> DEFINE a == (n - j) + 1
  <2>1. a \in 1..n /\ (m - n) + a = (m - j) + 1
    BY <1>1
  <2>2. j \in 1..m /\ u[j] = work[a] /\ v[j] = Timeframes[(m - j) + 1]
    BY <1>1, <1>2
  <2> HIDE DEF a
  <2>3. work[a] = Timeframes[(m - n) + a]
    BY <1>1, <2>1
  <2> QED BY <2>1, <2>2, <2>3
<1>4. SubSeq(u, 1, Len(u)) = SubSeq(v, 1, Len(u))
  <2>1. SubSeq(u, 1, n) = [j \in 1..n |-> u[j]]
    BY <1>1, <1>2
  <2>2. SubSeq(v, 1, n) = [j \in 1..n |-> v[j]]
    BY <1>1, <1>2
  <2>3. [j \in 1..n |-> u[j]] = [j \in 1..n |-> v[j]]
    BY <1>3
  <2> QED BY <1>2, <2>1, <2>2, <2>3
<1> QED BY <1>1, <1>2, <1>4 DEF IsSuffix, IsPrefix, u, v

\* Every variable has its type, and every candle is stored at its own time, a multiple of
\* its length.
THEOREM TypeCorrect == Spec => []TypeOK
<1>1. IInv => TypeOK
  <2> SUFFICES ASSUME IInv PROVE TypeOK
    OBVIOUS
  <2>0. ValueTypes /\ CallTypes /\ WorkInv /\ RowsInv
    BY DEF IInv
  <2>1. /\ minute \in Minutes /\ calls \in 0 .. MaxCalls /\ faults \in 0 .. MaxFaults
        /\ DOMAIN forming = Intervals /\ DOMAIN rows = Intervals
        /\ \A i \in Intervals : forming[i] # None => forming[i] \in Candle
        /\ lost \subseteq Keys /\ unsaved \subseteq Keys /\ early \subseteq Keys
    BY <2>0 DEF ValueTypes
  <2>2. Len(ticks) <= MaxTicks /\ \A k \in DOMAIN ticks : ticks[k] \in [price: Prices, minute: Minutes]
    <3>1. ticks \in Seq(Quotes) /\ Len(ticks) <= MaxTicks
      BY <2>0 DEF ValueTypes, TickSeq
    <3>2. \A k \in DOMAIN ticks : ticks[k] \in Quotes
      BY <3>1
    <3> QED BY <3>1, <3>2 DEF Quotes
  <2>3. Len(dated) <= Len(ticks) /\ Range(dated) \subseteq Minutes \union {None}
    BY <2>0 DEF ValueTypes, Range
  <2>4. CandlesAreStoredAtTheirTime
    <3>1. ASSUME NEW i \in Intervals, NEW b \in Minutes, rows[i][b] # None
          PROVE  rows[i][b] \in Candle
      BY <2>0, <3>1 DEF ValueTypes
    <3>2. ASSUME NEW i \in Intervals, NEW b \in Minutes, rows[i][b] # None
          PROVE  rows[i][b].bucket = b /\ b % i = 0
      BY <2>0, <3>2 DEF RowsInv
    <3> QED BY <3>1, <3>2 DEF CandlesAreStoredAtTheirTime
  <2>5. /\ pc \in {"idle", "fetch", "check", "insert", "read"}
        /\ call.kind \in {"full", "delta", "cached", None}
    BY <2>0 DEF CallTypes, NoCall
  <2>6. call = NoCall <=> pc = "idle"
    <3>1. ASSUME pc # "idle" PROVE call.interval # None
      BY <2>0, <3>1, IntervalType, NoneAssumption DEF CallTypes
    <3>2. NoCall.interval = None
      BY DEF NoCall
    <3> QED BY <2>0, <3>1, <3>2 DEF CallTypes
  <2> QED BY <2>0, <2>1, <2>2, <2>3, <2>4, <2>5, <2>6, WorkIsSuffix DEF TypeOK
<1> QED BY <1>1, Invariance, PTL

\* A candle in the table is never changed or dropped, whatever the streamer's crashes and
\* the trader's downloads.
THEOREM RowsFixed == Spec => RowsNeverChange
<1>1. IInv /\ [Next]_vars =>
        [\A i \in Intervals : \A b \in Minutes : rows[i][b] # None => rows'[i][b] = rows[i][b]]_vars
  BY RowsKept DEF IInv
<1> QED BY <1>1, Invariance, PTL DEF Spec, RowsNeverChange

\* A stored candle is the broker's, but for prices the broker left out, a tick that was
\* missed or crossed a boundary on its way, or an early download.
THEOREM StoredBars == Spec => []RowsAreBars
<1>1. IInv => RowsAreBars
  BY DEF IInv, RowsInv, RowsAreBars, IsBar
<1> QED BY <1>1, Invariance, PTL

\* A candle whose ticks were heard, each in its time, is in the table once a later one forms.
THEOREM NoGapsLeft == Spec => []NoGaps
<1>1. IInv => NoGaps
  <2> SUFFICES ASSUME IInv, NEW i \in Intervals, NEW c \in Bars(i), forming[i] # None,
                      c.bucket < forming[i].bucket,
                      <<i, c.bucket>> \notin lost \union unsaved,
                      c.bucket \notin Moved(i) \union {Bucket(i, ticks[k].minute) : k \in Waiting}
               PROVE  rows[i][c.bucket] # None
    BY DEF NoGaps
  <2>0. ValueTypes /\ WorkInv /\ OrderInv /\ LostInv /\ FormingInv(i) /\ SavedInv(i)
    BY DEF IInv, BuildInv
  <2>1. PICK k \in 1..Len(ticks) : c.bucket = Time(i, k)
    BY <2>0, BarsType
  <2>2. /\ Len(ticks) \in Nat /\ Len(dated) \in Nat
        /\ HeardTo(i) \in Nat /\ HeardTo(i) <= Len(dated) /\ HeardTo(i) >= Len(dated) - 1
    BY <2>0, HeardType DEF HeardTo
  <2>3. k \in 1..Len(dated)
    <3>1. k \notin Waiting
      BY <2>1 DEF Time
    <3> QED BY <2>2, <3>1 DEF Waiting
  <2>4. dated[k] # None /\ Place(i, k) = c.bucket
    <3>1. dated[k] # None
      BY <2>0, <2>1, <2>3 DEF LostInv
    <3> QED BY <2>0, <2>1, <2>3, <3>1, MovedIs
  <2>5. forming[i].bucket \in Nat /\ c.bucket \in Nat
    BY <2>0, <2>3, <2>4, MinuteType, PlaceType DEF ValueTypes, Candle
  <2>6. k \in 1..HeardTo(i)
    <3> SUFFICES ASSUME k > HeardTo(i) PROVE FALSE
      BY <2>2, <2>3
    <3>1. PICK j \in 1..HeardTo(i) : dated[j] # None /\ Place(i, j) = forming[i].bucket
      BY <2>0 DEF FormingInv, Heard
    <3>2. j \in 1..Len(dated) /\ j <= k
      BY <2>2, <2>3
    <3>3. Place(i, j) <= Place(i, k)
      BY <2>0, <2>3, <2>4, <3>1, <3>2, PlaceMonotone
    <3> QED BY <2>4, <2>5, <3>1, <3>3
  <2>7. rows[i][c.bucket] # None \/ c.bucket = forming[i].bucket
    BY <2>0, <2>4, <2>6 DEF SavedInv
  <2> QED BY <2>5, <2>7
<1> QED BY <1>1, Invariance, PTL

\* What a call returns is no older than two candles when it began, or all the broker had: of
\* an account whose zone is ahead of UTC, all it had that much earlier.
THEOREM FreshAnswer == Spec => []AnswerIsFresh
<1>1. IInv => AnswerIsFresh
  <2> SUFFICES ASSUME IInv, pc = "read", call.offset >= 0
               PROVE  LET i == call.interval
                          newest == Latest(Newest(Stored(i), Points))
                      IN  \A k \in DOMAIN ticks :
                            ticks[k].minute < call.at - call.offset =>
                              newest >= Bucket(i, ticks[k].minute) \/ newest >= call.at - 2 * i
    BY DEF AnswerIsFresh
  <2>0. ValueTypes /\ CallTypes /\ RowsInv /\ FreshInv
    BY DEF IInv
  <2>1. PICK i \in Intervals : i = call.interval
    BY <2>0 DEF CallTypes
  <2>2. DOMAIN ticks = 1..Len(ticks) /\ call.at \in Nat /\ i \in Nat
    BY <2>0, TickType, IntervalType, MinuteType DEF ValueTypes, CallTypes
  <2> DEFINE newest == Latest(Newest(Stored(i), Points))
  <2>3. ASSUME NEW b \in Int, StoredFrom(i, b) PROVE newest >= b
    <3>1. PICK a \in Minutes : rows[i][a] # None /\ a >= b
      BY <2>3 DEF StoredFrom
    <3>2. newest \in Minutes /\ a <= newest
      BY <2>0, <3>1, NewestStored
    <3> HIDE DEF newest
    <3>3. newest \in Nat /\ a \in Nat
      BY <3>2, MinuteType
    <3> QED BY <3>1, <3>2, <3>3
  <2> HIDE DEF newest
  <2>4. ASSUME NEW k \in 1..Len(ticks), ticks[k].minute < call.at - call.offset
        PROVE  newest >= Bucket(i, ticks[k].minute) \/ newest >= call.at - 2 * i
    <3>1. StoredFrom(i, Time(i, k)) \/ StoredFrom(i, call.at - 2 * i)
      BY <2>0, <2>1, <2>4 DEF FreshInv
    <3>2. Time(i, k) \in Minutes /\ Time(i, k) \in Nat
      BY <2>0, TimeType, MinuteType
    <3>3. call.at - 2 * i \in Int
      BY <2>2
    <3> QED BY <2>3, <3>1, <3>2, <3>3 DEF Time
  <2> QED BY <2>1, <2>2, <2>4 DEF newest
<1> QED BY <1>1, Invariance, PTL
=============================================================================
