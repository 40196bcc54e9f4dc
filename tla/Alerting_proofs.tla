---------------------------- MODULE Alerting_proofs ----------------------------
(* Theorems about the two services that alert: Watchdog, for any intervals, thresholds and *)
(* limits, and PriceSensor, for any threshold up to 100 percent, window and cooldown.      *)
EXTENDS Watchdog, PriceSensor, SequenceTheorems, WellFoundedInduction, TLAPS

(*****************************************************************************)
(* PriceSensor                                                               *)
(*****************************************************************************)

-----------------------------------------------------------------------------
(* Ticks and their ages *)

Tick == [bid : Bids, ago : Nat]

LEMMA TickAt ==
    ASSUME NEW w \in Seq(Tick), NEW i \in 1 .. Len(w)
    PROVE  w[i] \in Tick /\ w[i].bid \in Bids /\ w[i].ago \in Nat
<1>1. w[i] \in Tick
  BY ElementOfSeq
<1> QED BY <1>1 DEF Tick

\* There is a first tick that is not too old, or the end of them.
LEMMA FirstYoungIs ==
    ASSUME NEW w \in Seq(Tick), NEW most \in Nat
    PROVE  LET n == FirstYoung(w, most)
           IN  /\ n \in 1 .. Len(w) + 1
               /\ n <= Len(w) => w[n].ago <= most
               /\ \A i \in 1 .. n - 1 : w[i].ago > most
<1> DEFINE N == {n \in Nat : n - 1 \in 0 .. Len(w) /\ (n <= Len(w) => w[n].ago <= most)}
           R == OpToRel(<, Nat)
<1>1. Len(w) \in Nat
  BY LenProperties
<1>2. Len(w) + 1 \in N
  BY <1>1
<1>3. IsWellFoundedOn(R, Nat)
  BY NatLessThanWellFounded
<1>4. \A x, y \in Nat : <<x, y>> \in R <=> x < y
  BY DEF OpToRel
<1>5. N \subseteq Nat /\ N # {}
  BY <1>2
<1> HIDE DEF N, R
<1>6. PICK n \in N : \A y \in N : ~(<<y, n>> \in R)
  BY <1>3, <1>5, WFMin
<1>7. n \in 1 .. Len(w) + 1 /\ (n <= Len(w) => w[n].ago <= most)
  BY <1>1 DEF N
<1>8. ASSUME NEW i \in 1 .. n - 1 PROVE w[i].ago > most
  <2>1. i \in Nat /\ i < n /\ i \in 1 .. Len(w)
    BY <1>1, <1>7
  <2>2. i \notin N
    BY <1>4, <1>5, <1>6, <2>1
  <2>3. ~(w[i].ago <= most)
    BY <1>1, <2>1, <2>2 DEF N
  <2> QED BY <2>1, <2>3, TickAt
<1> QED BY <1>7, <1>8 DEF FirstYoung

\* The young ticks are the last ones.
LEMMA YoungIs ==
    ASSUME NEW w \in Seq(Tick), NEW most \in Nat
    PROVE  LET p == FirstYoung(w, most) - 1
           IN  /\ p \in 0 .. Len(w)
               /\ Young(w, most) \in Seq(Tick)
               /\ Len(Young(w, most)) = Len(w) - p
               /\ \A i \in 1 .. Len(w) - p : Young(w, most)[i] = w[i + p]
               /\ \A i \in 1 .. p : w[i].ago > most
               /\ p < Len(w) => Young(w, most)[1].ago <= most
<1> DEFINE n == FirstYoung(w, most)
<1>1. n \in 1 .. Len(w) + 1 /\ (n <= Len(w) => w[n].ago <= most)
      /\ \A i \in 1 .. n - 1 : w[i].ago > most
  BY FirstYoungIs
<1>2. Len(w) \in Nat
  BY LenProperties
<1>3. Young(w, most) = SubSeq(w, n, Len(w))
  BY DEF Young
<1> HIDE DEF n
<1>4. \A i \in n .. Len(w) : w[i] \in Tick
  BY <1>1, <1>2, TickAt
<1>5. /\ SubSeq(w, n, Len(w)) \in Seq(Tick)
      /\ Len(SubSeq(w, n, Len(w))) = IF n <= Len(w) THEN Len(w) - n + 1 ELSE 0
      /\ \A i \in 1 .. Len(w) - n + 1 : SubSeq(w, n, Len(w))[i] = w[n + i - 1]
  BY <1>1, <1>2, <1>4, SubSeqProperties
<1>6. Len(Young(w, most)) = Len(w) - (n - 1)
  BY <1>1, <1>2, <1>3, <1>5
<1>7. \A i \in 1 .. Len(w) - (n - 1) : Young(w, most)[i] = w[i + (n - 1)]
  BY <1>1, <1>2, <1>3, <1>5
<1>8. n - 1 < Len(w) => Young(w, most)[1].ago <= most
  BY <1>1, <1>2, <1>3, <1>5
<1>9. n - 1 \in 0 .. Len(w) /\ \A i \in 1 .. n - 1 : w[i].ago > most
  BY <1>1, <1>2
<1> QED BY <1>3, <1>5, <1>6, <1>7, <1>8, <1>9 DEF n

\* Time makes every tick older, up to a cap.
LEMMA AgedIs ==
    ASSUME NEW w \in Seq(Tick), NEW most \in Nat
    PROVE  /\ Aged(w, most) \in Seq(Tick) /\ Len(Aged(w, most)) = Len(w)
           /\ \A i \in 1 .. Len(w) :
                 /\ Aged(w, most)[i].bid = w[i].bid
                 /\ Aged(w, most)[i].ago = IF w[i].ago = most THEN most ELSE w[i].ago + 1
<1>1. Len(w) \in Nat /\ DOMAIN w = 1 .. Len(w)
  BY LenProperties
<1>2. Aged(w, most) = [i \in 1 .. Len(w) |-> [w[i] EXCEPT !.ago = Older(@, most)]]
  BY <1>1 DEF Aged
<1>3. ASSUME NEW i \in 1 .. Len(w)
      PROVE  /\ [w[i] EXCEPT !.ago = Older(@, most)] \in Tick
             /\ [w[i] EXCEPT !.ago = Older(@, most)].bid = w[i].bid
             /\ [w[i] EXCEPT !.ago = Older(@, most)].ago
                   = IF w[i].ago = most THEN most ELSE w[i].ago + 1
  <2>1. w[i] \in Tick /\ w[i].ago \in Nat /\ w[i].bid \in Bids
    BY TickAt
  <2>2. w[i].ago # None
    BY <2>1, NoneAssumption DEF NoneAssumption
  <2>3. Older(w[i].ago, most) = IF w[i].ago = most THEN most ELSE w[i].ago + 1
    BY <2>2 DEF Older
  <2> QED BY <2>1, <2>3 DEF Tick
<1>4. Aged(w, most) \in [1 .. Len(w) -> Tick]
  BY <1>2, <1>3
<1>5. Aged(w, most) \in Seq(Tick)
  BY <1>1, <1>4, SeqDef
<1>6. Len(Aged(w, most)) = Len(w)
  BY <1>1, <1>4, <1>5, LenProperties
<1> QED BY <1>2, <1>3, <1>5, <1>6

-----------------------------------------------------------------------------
(* The window and the prices heard, paired from their ends *)

\* The same tick, dated when it was taken and when it was published.
Paired(w, h) == w.bid = h.bid /\ w.ago <= h.ago /\ h.ago <= w.ago + MaxDelay

\* Every tick that is young by either date is in both, as far from the end.
Aligned(w, h) ==
    /\ \A i \in 1 .. Len(w) : w[i].ago <= Window =>
          /\ i + Len(h) - Len(w) \in 1 .. Len(h)
          /\ Paired(w[i], h[i + Len(h) - Len(w)])
    /\ \A k \in 1 .. Len(h) : h[k].ago <= Window =>
          /\ k + Len(w) - Len(h) \in 1 .. Len(w)
          /\ Paired(w[k + Len(w) - Len(h)], h[k])

\* The window may lose what is too old,
LEMMA WindowCleaned ==
    ASSUME NEW w \in Seq(Tick), NEW h \in Seq(Tick), Aligned(w, h)
    PROVE  Aligned(Young(w, Window), h)
<1> USE SensorAssumption DEF SensorAssumption
<1> DEFINE v == Young(w, Window)
           p == FirstYoung(w, Window) - 1
<1>1. /\ p \in 0 .. Len(w) /\ v \in Seq(Tick) /\ Len(v) = Len(w) - p
      /\ \A i \in 1 .. Len(w) - p : v[i] = w[i + p]
      /\ \A i \in 1 .. p : w[i].ago > Window
  BY YoungIs
<1>2. Len(w) \in Nat /\ Len(h) \in Nat
  BY LenProperties
<1> HIDE DEF v, p
<1>3. ASSUME NEW i \in 1 .. Len(v), v[i].ago <= Window
      PROVE  /\ i + Len(h) - Len(v) \in 1 .. Len(h)
             /\ Paired(v[i], h[i + Len(h) - Len(v)])
  <2>0. i \in 1 .. Len(w) - p /\ i + p \in 1 .. Len(w)
    BY <1>1, <1>2
  <2>1. i + p \in 1 .. Len(w) /\ v[i] = w[i + p]
    BY <1>1, <2>0
  <2>2. (i + p) + Len(h) - Len(w) = i + Len(h) - Len(v)
    BY <1>1, <1>2
  <2> QED BY <1>3, <2>1, <2>2 DEF Aligned
<1>4. ASSUME NEW k \in 1 .. Len(h), h[k].ago <= Window
      PROVE  /\ k + Len(v) - Len(h) \in 1 .. Len(v)
             /\ Paired(v[k + Len(v) - Len(h)], h[k])
  <2> DEFINE m == k + Len(w) - Len(h)
  <2>1. m \in 1 .. Len(w) /\ Paired(w[m], h[k])
    BY <1>4 DEF Aligned
  <2>2. k + Len(v) - Len(h) = m - p
    BY <1>1, <1>2
  <2> HIDE DEF m
  <2>3. w[m].ago \in Nat /\ h[k].ago \in Nat
    BY <2>1, TickAt
  <2>4. w[m].ago <= Window
    BY <1>4, <2>1, <2>3 DEF Paired
  <2>5. m > p
    BY <1>1, <2>1, <2>3, <2>4
  <2>6. m - p \in 1 .. Len(v) /\ v[m - p] = w[m]
    BY <1>1, <1>2, <2>1, <2>5
  <2> QED BY <2>1, <2>2, <2>6
<1> QED BY <1>3, <1>4 DEF Aligned, v

\* and so may the prices heard.
LEMMA HeardForgotten ==
    ASSUME NEW w \in Seq(Tick), NEW h \in Seq(Tick), Aligned(w, h)
    PROVE  Aligned(w, Young(h, Span))
<1> USE SensorAssumption DEF SensorAssumption
<1> DEFINE v == Young(h, Span)
           p == FirstYoung(h, Span) - 1
<1>0. Span \in Nat /\ Span = Window + MaxDelay
  BY DEF Span
<1>1. /\ p \in 0 .. Len(h) /\ v \in Seq(Tick) /\ Len(v) = Len(h) - p
      /\ \A i \in 1 .. Len(h) - p : v[i] = h[i + p]
      /\ \A i \in 1 .. p : h[i].ago > Span
  BY <1>0, YoungIs
<1>2. Len(w) \in Nat /\ Len(h) \in Nat
  BY LenProperties
<1> HIDE DEF v, p
<1>3. ASSUME NEW i \in 1 .. Len(v), v[i].ago <= Window
      PROVE  /\ i + Len(w) - Len(v) \in 1 .. Len(w)
             /\ Paired(w[i + Len(w) - Len(v)], v[i])
  <2>0. i \in 1 .. Len(h) - p /\ i + p \in 1 .. Len(h)
    BY <1>1, <1>2
  <2>1. i + p \in 1 .. Len(h) /\ v[i] = h[i + p]
    BY <1>1, <2>0
  <2>2. (i + p) + Len(w) - Len(h) = i + Len(w) - Len(v)
    BY <1>1, <1>2
  <2> QED BY <1>3, <2>1, <2>2 DEF Aligned
<1>4. ASSUME NEW k \in 1 .. Len(w), w[k].ago <= Window
      PROVE  /\ k + Len(v) - Len(w) \in 1 .. Len(v)
             /\ Paired(w[k], v[k + Len(v) - Len(w)])
  <2> DEFINE m == k + Len(h) - Len(w)
  <2>1. m \in 1 .. Len(h) /\ Paired(w[k], h[m])
    BY <1>4 DEF Aligned
  <2>2. k + Len(v) - Len(w) = m - p
    BY <1>1, <1>2
  <2> HIDE DEF m
  <2>3. w[k].ago \in Nat /\ h[m].ago \in Nat
    BY <2>1, TickAt
  <2>4. h[m].ago <= Span
    BY <1>0, <1>4, <2>1, <2>3 DEF Paired
  <2>5. m > p
    BY <1>0, <1>1, <2>1, <2>3, <2>4
  <2>6. m - p \in 1 .. Len(v) /\ v[m - p] = h[m]
    BY <1>1, <1>2, <2>1, <2>5
  <2> QED BY <2>1, <2>2, <2>6
<1> QED BY <1>3, <1>4 DEF Aligned, v

\* Both grow older together: what is capped was too old.
LEMMA BothOlder ==
    ASSUME NEW w \in Seq(Tick), NEW h \in Seq(Tick), Aligned(w, h)
    PROVE  Aligned(Aged(w, Window + 1), Aged(h, Span + 1))
<1> USE SensorAssumption DEF SensorAssumption
<1> DEFINE v == Aged(w, Window + 1)
           g == Aged(h, Span + 1)
<1>0. Span \in Nat /\ Span = Window + MaxDelay
  BY DEF Span
<1>1. /\ Len(v) = Len(w)
      /\ \A i \in 1 .. Len(w) :
            /\ v[i].bid = w[i].bid
            /\ v[i].ago = IF w[i].ago = Window + 1 THEN Window + 1 ELSE w[i].ago + 1
  BY AgedIs
<1>2. /\ Len(g) = Len(h)
      /\ \A i \in 1 .. Len(h) :
            /\ g[i].bid = h[i].bid
            /\ g[i].ago = IF h[i].ago = Span + 1 THEN Span + 1 ELSE h[i].ago + 1
  BY <1>0, AgedIs
<1>3. Len(w) \in Nat /\ Len(h) \in Nat
  BY LenProperties
<1> HIDE DEF v, g
<1>4. ASSUME NEW i \in 1 .. Len(w), NEW k \in 1 .. Len(h), Paired(w[i], h[k]),
             w[i].ago < Window \/ h[k].ago < Window
      PROVE  Paired(v[i], g[k])
  <2>1. w[i].ago \in Nat /\ h[k].ago \in Nat
    BY TickAt
  <2>2. w[i].ago <= h[k].ago /\ h[k].ago <= w[i].ago + MaxDelay /\ w[i].bid = h[k].bid
    BY <1>4 DEF Paired
  <2>3. v[i].ago = w[i].ago + 1 /\ g[k].ago = h[k].ago + 1
    BY <1>0, <1>1, <1>2, <1>4, <2>1, <2>2
  <2> QED BY <1>1, <1>2, <2>1, <2>2, <2>3 DEF Paired
<1>5. ASSUME NEW i \in 1 .. Len(w), v[i].ago <= Window
      PROVE  i + Len(h) - Len(w) \in 1 .. Len(h) /\ Paired(v[i], g[i + Len(h) - Len(w)])
  <2>1. w[i].ago \in Nat
    BY TickAt
  <2>2. w[i].ago < Window
    BY <1>1, <1>5, <2>1
  <2>3. i + Len(h) - Len(w) \in 1 .. Len(h) /\ Paired(w[i], h[i + Len(h) - Len(w)])
    BY <2>1, <2>2 DEF Aligned
  <2> QED BY <1>4, <2>2, <2>3
<1>6. ASSUME NEW k \in 1 .. Len(h), g[k].ago <= Window
      PROVE  k + Len(w) - Len(h) \in 1 .. Len(w) /\ Paired(v[k + Len(w) - Len(h)], g[k])
  <2>1. h[k].ago \in Nat
    BY TickAt
  <2>2. CASE h[k].ago = Span + 1
    <3>1. g[k].ago = Span + 1
      BY <1>2, <2>2
    <3> QED BY <1>0, <1>6, <3>1
  <2>3. CASE h[k].ago # Span + 1
    <3>1. g[k].ago = h[k].ago + 1
      BY <1>2, <2>3
    <3>2. h[k].ago < Window
      BY <1>6, <2>1, <3>1
    <3>3. k + Len(w) - Len(h) \in 1 .. Len(w) /\ Paired(w[k + Len(w) - Len(h)], h[k])
      BY <2>1, <3>2 DEF Aligned
    <3> QED BY <1>4, <3>2, <3>3
  <2> QED BY <2>2, <2>3
<1>7. Aligned(v, g)
  BY <1>1, <1>2, <1>5, <1>6 DEF Aligned
<1> QED BY <1>7 DEF v, g

\* A tick that is taken is the last of both.
LEMMA BothGrow ==
    ASSUME NEW w \in Seq(Tick), NEW h \in Seq(Tick), Aligned(w, h),
           NEW t \in Tick, t.ago <= MaxDelay
    PROVE  Aligned(Append(w, [bid |-> t.bid, ago |-> 0]), Append(h, t))
<1> USE SensorAssumption DEF SensorAssumption
<1> DEFINE d == [bid |-> t.bid, ago |-> 0]
           v == Append(w, d)
           g == Append(h, t)
<1>1. t.ago \in Nat /\ d \in Tick /\ Paired(d, t)
  BY DEF Tick, Paired
<1>2. Len(w) \in Nat /\ Len(h) \in Nat
  BY LenProperties
<1>3. /\ Len(v) = Len(w) + 1 /\ v[Len(w) + 1] = d
      /\ \A i \in 1 .. Len(w) : v[i] = w[i]
  BY <1>1, AppendProperties
<1>4. /\ Len(g) = Len(h) + 1 /\ g[Len(h) + 1] = t
      /\ \A i \in 1 .. Len(h) : g[i] = h[i]
  BY AppendProperties
<1> HIDE DEF v, g, d
<1>5. ASSUME NEW i \in 1 .. Len(v), v[i].ago <= Window
      PROVE  /\ i + Len(g) - Len(v) \in 1 .. Len(g)
             /\ Paired(v[i], g[i + Len(g) - Len(v)])
  <2>1. i + Len(g) - Len(v) = i + Len(h) - Len(w)
    BY <1>2, <1>3, <1>4
  <2>2. CASE i \in 1 .. Len(w)
    <3>1. v[i] = w[i]
      BY <1>3, <2>2
    <3> DEFINE m == i + Len(h) - Len(w)
    <3>2. m \in 1 .. Len(h) /\ Paired(w[i], h[m])
      BY <1>5, <2>2, <3>1 DEF Aligned
    <3>3. i + Len(g) - Len(v) = m
      BY <2>1
    <3> HIDE DEF m
    <3>4. m \in 1 .. Len(g) /\ g[m] = h[m]
      BY <1>2, <1>4, <3>2
    <3> QED BY <3>1, <3>2, <3>3, <3>4
  <2>3. CASE i = Len(w) + 1
    <3>1. i + Len(h) - Len(w) = Len(h) + 1
      BY <1>2, <2>3
    <3> QED BY <1>1, <1>2, <1>3, <1>4, <2>1, <2>3, <3>1
  <2> QED BY <1>2, <1>3, <2>2, <2>3
<1>6. ASSUME NEW k \in 1 .. Len(g), g[k].ago <= Window
      PROVE  /\ k + Len(v) - Len(g) \in 1 .. Len(v)
             /\ Paired(v[k + Len(v) - Len(g)], g[k])
  <2>1. k + Len(v) - Len(g) = k + Len(w) - Len(h)
    BY <1>2, <1>3, <1>4
  <2>2. CASE k \in 1 .. Len(h)
    <3>1. g[k] = h[k]
      BY <1>4, <2>2
    <3> DEFINE m == k + Len(w) - Len(h)
    <3>2. m \in 1 .. Len(w) /\ Paired(w[m], h[k])
      BY <1>6, <2>2, <3>1 DEF Aligned
    <3>3. k + Len(v) - Len(g) = m
      BY <2>1
    <3> HIDE DEF m
    <3>4. m \in 1 .. Len(v) /\ v[m] = w[m]
      BY <1>2, <1>3, <3>2
    <3> QED BY <3>1, <3>2, <3>3, <3>4
  <2>3. CASE k = Len(h) + 1
    <3>1. k + Len(w) - Len(h) = Len(w) + 1
      BY <1>2, <2>3
    <3> QED BY <1>1, <1>2, <1>3, <1>4, <2>1, <2>3, <3>1
  <2> QED BY <1>2, <1>4, <2>2, <2>3
<1>7. Aligned(v, g)
  BY <1>5, <1>6 DEF Aligned
<1> QED BY <1>7 DEF v, g, d

-----------------------------------------------------------------------------
(* Spikes *)

\* A price that lies on the other side of one a spike started from, started one too: where
\* it fell, because the threshold is no more than the whole price.
LEMMA SpikeFromBeyond ==
    ASSUME NEW head \in Nat, NEW from \in Nat, NEW to \in Nat, Spike(from, to),
           IF from < to THEN head <= from ELSE head >= from
    PROVE  Spike(head, to)
<1> USE SensorAssumption DEF SensorAssumption
<1>1. ThresholdNum \in Nat /\ ThresholdDen \in Nat /\ ThresholdNum <= ThresholdDen
  OBVIOUS
<1>2. Distance(from, to) * ThresholdDen >= ThresholdNum * from
  BY DEF Spike
<1>3. CASE from < to
  <2> DEFINE a == to - from
             b == from - head
  <2>1. a \in Nat /\ b \in Nat /\ from = head + b /\ Distance(from, to) = a
        /\ Distance(head, to) = a + b
    BY <1>3 DEF Distance
  <2> HIDE DEF a, b
  <2>2. (a + b) * ThresholdDen = a * ThresholdDen + b * ThresholdDen
    BY <1>1, <2>1
  <2>3. ThresholdNum * from = ThresholdNum * head + ThresholdNum * b
    BY <1>1, <2>1
  <2>4. b * ThresholdDen \in Nat /\ ThresholdNum * b \in Nat
        /\ a * ThresholdDen \in Nat /\ ThresholdNum * head \in Nat
    BY <1>1, <2>1
  <2> QED BY <1>2, <2>1, <2>2, <2>3, <2>4 DEF Spike
<1>4. CASE ~(from < to)
  <2> DEFINE a == from - to
             b == head - from
             c == ThresholdDen - ThresholdNum
  <2>1. a \in Nat /\ b \in Nat /\ head = from + b /\ Distance(from, to) = a
        /\ Distance(head, to) = a + b
    BY <1>4 DEF Distance
  <2>2. c \in Nat /\ ThresholdDen = ThresholdNum + c
    BY <1>1
  <2> HIDE DEF a, b, c
  <2>3. (a + b) * ThresholdDen = a * ThresholdDen + b * ThresholdDen
    BY <1>1, <2>1
  <2>4. b * ThresholdDen = ThresholdNum * b + b * c
    BY <1>1, <2>1, <2>2
  <2>5. ThresholdNum * head = ThresholdNum * from + ThresholdNum * b
    BY <1>1, <2>1
  <2>6. b * c \in Nat /\ ThresholdNum * b \in Nat /\ ThresholdNum * from \in Nat
        /\ a * ThresholdDen \in Nat
    BY <1>1, <2>1, <2>2
  <2> QED BY <1>2, <2>1, <2>3, <2>4, <2>5, <2>6 DEF Spike
<1> QED BY <1>3, <1>4

-----------------------------------------------------------------------------
(* The sensor *)

\* The types, part by part: no tick waits longer than MaxDelay.
FlagTypes ==
    /\ open \in BOOLEAN /\ redisUp \in BOOLEAN /\ ticked \in BOOLEAN /\ listening \in BOOLEAN
    /\ wait \in 0 .. Retry
    /\ cooldown \in 0 .. Cooldown \union {None}
TickTypes ==
    /\ inbox \in Seq(Tick) /\ window \in Seq(Tick) /\ heard \in Seq(Tick)
    /\ \A i \in 1 .. Len(inbox) : inbox[i].ago <= MaxDelay

\* The window and the prices heard are of the same ticks, and the cooldown is counted from
\* the notification.
SensorInv == FlagTypes /\ TickTypes /\ Aligned(window, heard) /\ told = cooldown

LEMMA SensorInitially == SensorInit => SensorInv
<1> USE SensorAssumption DEF SensorAssumption
<1> SUFFICES ASSUME SensorInit PROVE SensorInv
  OBVIOUS
<1>0. 0 \in 0 .. Retry /\ FALSE \in BOOLEAN /\ TRUE \in BOOLEAN
  OBVIOUS
<1>1. FlagTypes /\ told = cooldown
  BY <1>0, Zenon DEF SensorInit, FlagTypes
<1>2. <<>> \in Seq(Tick) /\ Len(<<>>) = 0
  BY EmptySeq
<1>3. TickTypes
  BY <1>2 DEF SensorInit, TickTypes
<1>4. Aligned(window, heard)
  BY <1>2 DEF SensorInit, Aligned
<1> QED BY <1>1, <1>3, <1>4 DEF SensorInv

\* What is seen when a tick with a bid is taken.
Latest == [bid |-> Head(inbox).bid, ago |-> 0]
Seen == Cleaned(Append(window, Latest))

LEMMA TakenTick ==
    ASSUME SensorInv, inbox # <<>>
    PROVE  /\ Head(inbox) \in Tick /\ Head(inbox).ago <= MaxDelay /\ Latest \in Tick
           /\ Head(inbox) = inbox[1] /\ Len(inbox) \in Nat /\ Len(inbox) >= 1
           /\ Tail(inbox) \in Seq(Tick) /\ Len(Tail(inbox)) = Len(inbox) - 1
           /\ \A i \in 1 .. Len(inbox) - 1 : Tail(inbox)[i] = inbox[i + 1]
<1>1. inbox \in Seq(Tick) /\ \A i \in 1 .. Len(inbox) : inbox[i].ago <= MaxDelay
  BY DEF SensorInv, TickTypes
<1>2. Len(inbox) \in Nat /\ Len(inbox) >= 1
  BY <1>1, EmptySeq, LenProperties
<1>3. Head(inbox) = inbox[1]
  BY <1>1, HeadTailProperties
<1>4. Head(inbox) \in Tick /\ Tail(inbox) \in Seq(Tick) /\ Len(Tail(inbox)) = Len(inbox) - 1
      /\ \A i \in 1 .. Len(Tail(inbox)) : Tail(inbox)[i] = inbox[i + 1]
  BY <1>1, HeadTailProperties
<1>5. Head(inbox).ago <= MaxDelay
  BY <1>1, <1>2, <1>3
<1>6. Latest \in Tick
  BY <1>4 DEF Tick, Latest
<1> QED BY <1>2, <1>3, <1>4, <1>5, <1>6

LEMMA SensorStep == ASSUME SensorInv, [SensorNext]_sensorVars PROVE SensorInv'
<1> USE SensorAssumption, NoneAssumption DEF SensorAssumption, NoneAssumption
<1>t. TickTypes /\ FlagTypes /\ Aligned(window, heard) /\ told = cooldown
  BY DEF SensorInv
<1>e. <<>> \in Seq(Tick) /\ Len(<<>>) = 0
  BY EmptySeq
<1>1. CASE Take
  <2>1. listening /\ inbox # <<>> /\ inbox' = Tail(inbox)
    BY <1>1 DEF Take
  <2>2. inbox' \in Seq(Tick) /\ \A i \in 1 .. Len(inbox') : inbox'[i].ago <= MaxDelay
    <3>1. \A i \in 1 .. Len(inbox) - 1 : inbox[i + 1].ago <= MaxDelay
      BY <1>t, <2>1, TakenTick DEF TickTypes
    <3> QED BY <2>1, <3>1, TakenTick
  <2>3. CASE Head(inbox).bid = 0
    <3>1. UNCHANGED <<sensor, open, redisUp, ticked, listening, wait>>
      BY <1>1, <2>3 DEF Take
    <3> QED BY <1>t, <2>2, <3>1 DEF SensorInv, TickTypes, FlagTypes, sensor
  <2>4. CASE Head(inbox).bid # 0
    <3>1. /\ window' = Seen /\ heard' = Append(heard, Head(inbox))
          /\ cooldown' = IF StartsCooldown(IsSpike(Seen)) THEN 0 ELSE cooldown
          /\ told' = IF IsSpike(Seen) /\ open /\ Cooled THEN 0 ELSE told
      BY <1>1, <2>4 DEF Take, Seen, Latest
    <3>2. UNCHANGED <<open, redisUp, ticked, listening, wait>>
      BY <1>1 DEF Take
    <3>3. Head(inbox) \in Tick /\ Head(inbox).ago <= MaxDelay /\ Latest \in Tick
      BY <2>1, TakenTick
    <3>4. Append(window, Latest) \in Seq(Tick) /\ heard' \in Seq(Tick)
      BY <1>t, <3>1, <3>3, AppendProperties DEF TickTypes
    <3>5. Aligned(Append(window, Latest), heard')
      BY <1>t, <3>1, <3>3, BothGrow DEF TickTypes, Latest
    <3>6. Seen \in Seq(Tick)
      BY <3>4, YoungIs DEF Seen, Cleaned
    <3>7. Aligned(window', heard')
      BY <3>1, <3>4, <3>5, WindowCleaned DEF Seen, Cleaned
    <3>8. told' = cooldown'
      BY <1>t, <3>1 DEF StartsCooldown
    <3>9. FlagTypes'
      BY <1>t, <3>1, <3>2 DEF FlagTypes
    <3>10. TickTypes'
      BY <2>2, <3>1, <3>4, <3>6 DEF TickTypes
    <3> QED BY <3>7, <3>8, <3>9, <3>10 DEF SensorInv
  <2> QED BY <2>3, <2>4
<1>2. CASE Connect
  BY <1>2, <1>t DEF Connect, sensor, SensorInv, TickTypes, FlagTypes
<1>3. CASE Lose
  <2>1. inbox' = <<>> /\ wait' = Retry /\ listening' = FALSE
        /\ UNCHANGED <<open, redisUp, ticked, sensor>>
    BY <1>3 DEF Lose
  <2>2. TickTypes'
    BY <1>t, <1>e, <2>1 DEF sensor, TickTypes
  <2>3. Retry \in 0 .. Retry /\ FALSE \in BOOLEAN
    OBVIOUS
  <2>4. FlagTypes'
    BY <1>t, <2>1, <2>3, Zenon DEF sensor, FlagTypes
  <2>5. Aligned(window, heard)' /\ told' = cooldown'
    BY <1>t, <2>1 DEF sensor
  <2> QED BY <2>2, <2>4, <2>5 DEF SensorInv
<1>4. CASE WatcherRestarts
  <2>1. /\ inbox' = <<>> /\ wait' = 0 /\ listening' = FALSE /\ window' = <<>> /\ heard' = <<>>
        /\ told' = None /\ cooldown' = None /\ UNCHANGED <<open, redisUp, ticked>>
    BY <1>4 DEF WatcherRestarts
  <2>2. Aligned(window', heard')
    BY <1>e, <2>1 DEF Aligned
  <2>3. TickTypes' /\ told' = cooldown'
    BY <1>e, <2>1 DEF TickTypes
  <2>4. 0 \in 0 .. Retry /\ FALSE \in BOOLEAN
    OBVIOUS
  <2>5. FlagTypes'
    BY <1>t, <2>1, <2>4, Zenon DEF FlagTypes
  <2> QED BY <2>2, <2>3, <2>5 DEF SensorInv
<1>5. ASSUME NEW b \in Bids, Publish(b) PROVE SensorInv'
  <2>1. /\ ticked' = TRUE /\ UNCHANGED <<open, redisUp, listening, wait, sensor>>
        /\ inbox' = IF listening THEN Append(inbox, [bid |-> b, ago |-> 0]) ELSE inbox
    BY <1>5 DEF Publish
  <2>2. inbox' \in Seq(Tick) /\ \A i \in 1 .. Len(inbox') : inbox'[i].ago <= MaxDelay
    <3> DEFINE d == [bid |-> b, ago |-> 0]
    <3>1. d \in Tick /\ d.ago = 0
      BY DEF Tick
    <3>2. inbox \in Seq(Tick) /\ Len(inbox) \in Nat
          /\ \A i \in 1 .. Len(inbox) : inbox[i].ago <= MaxDelay
      BY <1>t, LenProperties DEF TickTypes
    <3>3. inbox' = Append(inbox, d) \/ inbox' = inbox
      BY <2>1
    <3> HIDE DEF d
    <3>4. /\ Append(inbox, d) \in Seq(Tick) /\ Len(Append(inbox, d)) = Len(inbox) + 1
          /\ Append(inbox, d)[Len(inbox) + 1] = d
          /\ \A i \in 1 .. Len(inbox) : Append(inbox, d)[i] = inbox[i]
      BY <3>1, <3>2, AppendProperties
    <3>5. \A i \in 1 .. Len(inbox) + 1 : Append(inbox, d)[i].ago <= MaxDelay
      BY <3>1, <3>2, <3>4
    <3> QED BY <3>2, <3>3, <3>4, <3>5
  <2> QED BY <1>t, <2>1, <2>2 DEF sensor, SensorInv, TickTypes, FlagTypes
<1>6. CASE RedisChanges
  BY <1>6, <1>t DEF RedisChanges, service, sensor, SensorInv, TickTypes, FlagTypes
<1>7. CASE MarketChanges
  BY <1>7, <1>t DEF MarketChanges, service, sensor, SensorInv, TickTypes, FlagTypes
<1>8. CASE TimePasses
  <2>1. /\ inbox' = Aged(inbox, MaxDelay) /\ window' = Aged(window, Window + 1)
        /\ heard' = Young(Aged(heard, Span + 1), Span)
    BY <1>8 DEF TimePasses
  <2>2. inbox \in Seq(Tick) /\ window \in Seq(Tick) /\ heard \in Seq(Tick)
        /\ Span \in Nat /\ Aligned(window, heard)
    BY <1>t DEF TickTypes, Span
  <2>3. window' \in Seq(Tick) /\ inbox' \in Seq(Tick) /\ Aged(heard, Span + 1) \in Seq(Tick)
    BY <2>1, <2>2, AgedIs
  <2>4. heard' \in Seq(Tick)
    BY <2>1, <2>2, <2>3, YoungIs
  <2>5. Aligned(window', Aged(heard, Span + 1))
    BY <2>1, <2>2, BothOlder
  <2>6. Aligned(window', heard')
    BY <2>1, <2>3, <2>5, HeardForgotten
  <2>7. \A i \in 1 .. Len(inbox') : inbox'[i].ago <= MaxDelay
    <3>1. Len(inbox') = Len(inbox)
          /\ \A i \in 1 .. Len(inbox) :
                inbox'[i].ago = IF inbox[i].ago = MaxDelay THEN MaxDelay ELSE inbox[i].ago + 1
      BY <2>1, <2>2, AgedIs
    <3>2. \A i \in 1 .. Len(inbox) : inbox[i].ago \in Nat /\ inbox[i].ago <= MaxDelay
      BY <1>t, <2>2, TickAt DEF TickTypes
    <3> QED BY <3>1, <3>2
  <2>8. TickTypes'
    BY <2>3, <2>4, <2>7 DEF TickTypes
  <2>9. told' = cooldown'
    BY <1>8, <1>t DEF TimePasses
  <2>10. FlagTypes'
    <3>1. wait' \in 0 .. Retry
      BY <1>8, <1>t DEF TimePasses, FlagTypes
    <3>2. cooldown' \in 0 .. Cooldown \union {None}
      BY <1>8, <1>t DEF TimePasses, FlagTypes, Older
    <3>3. ticked' = FALSE /\ UNCHANGED <<open, redisUp, listening>>
      BY <1>8 DEF TimePasses
    <3> QED BY <1>t, <3>1, <3>2, <3>3 DEF FlagTypes
  <2> QED BY <2>6, <2>8, <2>9, <2>10 DEF SensorInv
<1>9. CASE UNCHANGED sensorVars
  BY <1>9, <1>t DEF sensorVars, service, sensor, SensorInv, TickTypes, FlagTypes
<1> QED BY <1>1, <1>2, <1>3, <1>4, <1>5, <1>6, <1>7, <1>8, <1>9 DEF SensorNext

THEOREM SensorInvariant == SensorSpec => []SensorInv
<1> QED BY SensorInitially, SensorStep, PTL DEF SensorSpec

\* PriceSensor and WatcherService keep what they say they keep.
THEOREM SensorTypes == SensorSpec => []SensorTypeOK
<1>1. SensorInv => SensorTypeOK
  BY DEF SensorInv, FlagTypes, TickTypes, SensorTypeOK, Tick
<1> QED BY <1>1, SensorInvariant, PTL

-----------------------------------------------------------------------------
(* Alerts *)

\* Only Take makes the inbox shorter while the watcher goes on listening.
LEMMA TakenByTake ==
    ASSUME SensorInv, [SensorNext]_sensorVars, Taken
    PROVE  /\ Take /\ inbox # <<>>
           /\ window' = Seen
           /\ told' = IF IsSpike(Seen) /\ open /\ Cooled THEN 0 ELSE told
<1> USE SensorAssumption DEF SensorAssumption
<1>1. inbox \in Seq(Tick) /\ Len(inbox) \in Nat
  BY LenProperties DEF SensorInv, TickTypes
<1>2. Len(inbox') < Len(inbox) /\ listening' /\ Head(inbox).bid # 0
  BY DEF Taken
<1>3. inbox' # inbox
  BY <1>1, <1>2
<1>4. ~Connect /\ ~RedisChanges /\ ~MarketChanges /\ ~(UNCHANGED sensorVars)
  BY <1>3 DEF Connect, RedisChanges, MarketChanges, service, sensorVars
<1>5. ~Lose /\ ~WatcherRestarts
  BY <1>2 DEF Lose, WatcherRestarts
<1>6. ASSUME NEW b \in Bids, Publish(b) PROVE FALSE
  <2>1. [bid |-> b, ago |-> 0] \in Tick
    BY DEF Tick
  <2>2. inbox' = Append(inbox, [bid |-> b, ago |-> 0])
    BY <1>3, <1>6 DEF Publish
  <2>3. Len(inbox') = Len(inbox) + 1
    BY <1>1, <2>1, <2>2, AppendProperties
  <2> QED BY <1>1, <1>2, <2>3
<1>7. ~TimePasses
  <2>1. Len(Aged(inbox, MaxDelay)) = Len(inbox)
    BY <1>1, AgedIs
  <2>2. TimePasses => inbox' = Aged(inbox, MaxDelay)
    BY DEF TimePasses
  <2>3. inbox' # Aged(inbox, MaxDelay)
    BY <1>1, <1>2, <2>1
  <2> QED BY <2>2, <2>3
<1>8. Take
  BY <1>4, <1>5, <1>6, <1>7 DEF SensorNext
<1> QED BY <1>2, <1>8 DEF Take, Seen, Latest

\* What is seen ends in the tick that is taken; what comes before was in the window, and the
\* oldest of it is not too old.
LEMMA SeenIs ==
    ASSUME SensorInv, inbox # <<>>
    PROVE  \E p \in 0 .. Len(window) + 1 :
              /\ Len(window) \in Nat
              /\ Len(Seen) = Len(window) + 1 - p
              /\ p <= Len(window) =>
                    /\ Last(Seen).bid = Head(inbox).bid
                    /\ Head(Seen) = IF p = Len(window) THEN Latest ELSE window[p + 1]
                    /\ Head(Seen).ago <= Window
              /\ \A i \in 1 .. Len(window) : i <= p => window[i].ago > Window
<1> USE SensorAssumption DEF SensorAssumption
<1> DEFINE w == Append(window, Latest)
           p == FirstYoung(w, Window) - 1
<1>1. window \in Seq(Tick) /\ Len(window) \in Nat /\ Latest \in Tick
  BY TakenTick, LenProperties DEF SensorInv, TickTypes
<1>2. /\ w \in Seq(Tick) /\ Len(w) = Len(window) + 1 /\ w[Len(window) + 1] = Latest
      /\ \A i \in 1 .. Len(window) : w[i] = window[i]
  BY <1>1, AppendProperties
<1>3. /\ p \in 0 .. Len(w) /\ Seen \in Seq(Tick) /\ Len(Seen) = Len(w) - p
      /\ \A i \in 1 .. Len(w) - p : Seen[i] = w[i + p]
      /\ \A i \in 1 .. p : w[i].ago > Window
      /\ p < Len(w) => Seen[1].ago <= Window
  BY <1>2, YoungIs DEF Seen, Cleaned
<1> HIDE DEF w, p
<1>4. \A i \in 1 .. Len(window) : i <= p => window[i].ago > Window
  BY <1>1, <1>2, <1>3
<1>5. ASSUME p <= Len(window)
      PROVE  /\ Last(Seen).bid = Head(inbox).bid
             /\ Head(Seen) = IF p = Len(window) THEN Latest ELSE window[p + 1]
             /\ Head(Seen).ago <= Window
  <2>1. Len(Seen) >= 1 /\ Len(Seen) \in Nat
    BY <1>1, <1>2, <1>3, <1>5
  <2>2. Seen # <<>>
    BY <2>1, EmptySeq
  <2>3. Head(Seen) = Seen[1]
    BY <1>3, <2>2, HeadTailProperties
  <2>4. Last(Seen) = Seen[Len(Seen)]
    BY DEF Last
  <2>5. Seen[Len(Seen)] = w[Len(Seen) + p] /\ Seen[1] = w[1 + p]
    BY <1>1, <1>2, <1>3, <2>1
  <2>6. Len(Seen) + p = Len(window) + 1
    BY <1>1, <1>2, <1>3
  <2>7. Last(Seen) = Latest
    BY <1>2, <2>4, <2>5, <2>6
  <2>8. Last(Seen).bid = Head(inbox).bid
    BY <2>7 DEF Latest
  <2>9. Head(Seen).ago <= Window
    BY <1>1, <1>2, <1>3, <1>5, <2>3
  <2>10. Head(Seen) = IF p = Len(window) THEN Latest ELSE window[p + 1]
    <3>1. CASE p = Len(window)
      BY <1>1, <1>2, <2>3, <2>5, <3>1
    <3>2. CASE p # Len(window)
      <4>1. p + 1 \in 1 .. Len(window) /\ 1 + p = p + 1
        BY <1>1, <1>2, <1>3, <1>5, <3>2
      <4> QED BY <1>2, <2>3, <2>5, <3>2, <4>1
    <3> QED BY <3>1, <3>2
  <2> QED BY <2>8, <2>9, <2>10
<1>6. p \in 0 .. Len(window) + 1 /\ Len(Seen) = Len(window) + 1 - p
  BY <1>2, <1>3
<1> QED BY <1>1, <1>4, <1>5, <1>6

\* The prices compared were published within the window before, or longer by what ticks may
\* wait.
Moved ==
    Alerts =>
        \E i \in DOMAIN heard :
            /\ heard[i].ago - Head(inbox).ago <= Span
            /\ Spike(heard[i].bid, Head(inbox).bid)

LEMMA AlertOfMove == ASSUME SensorInv, [SensorNext]_sensorVars PROVE Moved
<1> USE SensorAssumption DEF SensorAssumption
<1> SUFFICES ASSUME Alerts
             PROVE  \E i \in DOMAIN heard :
                       /\ heard[i].ago - Head(inbox).ago <= Span
                       /\ Spike(heard[i].bid, Head(inbox).bid)
  BY DEF Moved
<1>1. inbox # <<>> /\ IsSpike(Seen)
  BY TakenByTake DEF Alerts
<1>2. PICK p \in 0 .. Len(window) + 1 :
          /\ Len(window) \in Nat
          /\ Len(Seen) = Len(window) + 1 - p
          /\ p <= Len(window) =>
                /\ Last(Seen).bid = Head(inbox).bid
                /\ Head(Seen) = IF p = Len(window) THEN Latest ELSE window[p + 1]
                /\ Head(Seen).ago <= Window
  BY <1>1, SeenIs
<1>3. Len(Seen) >= 2 /\ Spike(Head(Seen).bid, Last(Seen).bid)
  BY <1>1 DEF IsSpike
<1>4. p < Len(window)
  BY <1>2, <1>3
<1>5. p + 1 \in 1 .. Len(window) /\ p <= Len(window) /\ p # Len(window)
  BY <1>2, <1>4
<1>6. Head(Seen) = window[p + 1] /\ window[p + 1].ago <= Window
      /\ Spike(window[p + 1].bid, Head(inbox).bid)
  BY <1>2, <1>3, <1>5
<1>7. window \in Seq(Tick) /\ heard \in Seq(Tick) /\ Aligned(window, heard)
  BY DEF SensorInv, TickTypes
<1> DEFINE k == p + 1 + Len(heard) - Len(window)
<1>8. k \in 1 .. Len(heard) /\ Paired(window[p + 1], heard[k])
  BY <1>5, <1>6, <1>7 DEF Aligned
<1> HIDE DEF k
<1>9. window[p + 1].ago \in Nat /\ heard[k].ago \in Nat /\ Head(inbox).ago \in Nat
  BY <1>1, <1>5, <1>7, <1>8, TickAt, TakenTick DEF Tick
<1>10. heard[k].ago - Head(inbox).ago <= Span
  BY <1>6, <1>8, <1>9 DEF Paired, Span
<1>11. Spike(heard[k].bid, Head(inbox).bid)
  BY <1>6, <1>8 DEF Paired
<1>12. k \in DOMAIN heard
  BY <1>7, <1>8, LenProperties
<1> QED BY <1>10, <1>11, <1>12

\* An alert is about a move there was.
THEOREM AlertedMoves == SensorSpec => AlertsAreMoves
<1>1. SensorInv /\ [SensorNext]_sensorVars => Moved
  BY AlertOfMove
<1>2. SensorSpec => [][Moved]_sensorVars
  BY <1>1, SensorInvariant, PTL DEF SensorSpec
<1> QED BY <1>2 DEF AlertsAreMoves, Moved

\* A move from the i-th price heard to the one that is taken, which did not turn before.
Move(i, from, to) ==
    /\ heard[i].ago - Head(inbox).ago <= Window - MaxDelay
    /\ Spike(from, to)
    /\ \A j \in 1 .. i : IF from < to THEN heard[j].bid <= from ELSE heard[j].bid >= from

LEMMA MoveIsSeen ==
    ASSUME SensorInv, inbox # <<>>, NEW i \in 1 .. Len(heard),
           Move(i, heard[i].bid, Head(inbox).bid)
    PROVE  IsSpike(Seen)
<1> USE SensorAssumption DEF SensorAssumption
<1> DEFINE from == heard[i].bid
           to == Head(inbox).bid
<1>1. PICK p \in 0 .. Len(window) + 1 :
          /\ Len(window) \in Nat
          /\ Len(Seen) = Len(window) + 1 - p
          /\ p <= Len(window) =>
                /\ Last(Seen).bid = to
                /\ Head(Seen) = IF p = Len(window) THEN Latest ELSE window[p + 1]
                /\ Head(Seen).ago <= Window
          /\ \A n \in 1 .. Len(window) : n <= p => window[n].ago > Window
  BY SeenIs
<1>2. window \in Seq(Tick) /\ heard \in Seq(Tick) /\ Aligned(window, heard)
      /\ Len(heard) \in Nat
  BY LenProperties DEF SensorInv, TickTypes
<1>3. /\ heard[i].ago \in Nat /\ Head(inbox).ago \in Nat /\ Head(inbox).ago <= MaxDelay
      /\ from \in Nat /\ to \in Nat
  BY <1>2, TickAt, TakenTick DEF Tick
<1>4. heard[i].ago <= Window
  BY <1>3 DEF Move
<1> DEFINE m == i + Len(window) - Len(heard)
<1>5. m \in 1 .. Len(window) /\ Paired(window[m], heard[i])
  BY <1>2, <1>4 DEF Aligned
<1>6. window[m].ago \in Nat
  BY <1>2, <1>5, TickAt
<1>7. window[m].ago <= Window
  BY <1>3, <1>4, <1>5, <1>6 DEF Paired
<1>8. ~(m <= p)
  BY <1>1, <1>5, <1>6, <1>7
<1> DEFINE k == p + 1 + Len(heard) - Len(window)
<1>9. p + 1 \in 1 .. Len(window) /\ p <= Len(window) /\ p # Len(window) /\ p + 1 <= m
  <2> HIDE DEF m
  <2> QED BY <1>1, <1>5, <1>8
<1>10. Head(Seen) = window[p + 1] /\ window[p + 1].ago <= Window /\ Last(Seen).bid = to
  BY <1>1, <1>9
<1>11. k \in 1 .. Len(heard) /\ Paired(window[p + 1], heard[k])
  BY <1>2, <1>9, <1>10 DEF Aligned
<1>12. k <= i
  BY <1>1, <1>2, <1>9
<1>13. Head(Seen).bid = heard[k].bid
  BY <1>10, <1>11 DEF Paired
<1>14. heard[k].bid \in Nat
  BY <1>2, <1>11, TickAt
<1>15. k \in 1 .. i
  BY <1>11, <1>12
<1> HIDE DEF k, m
<1>16. IF from < to THEN heard[k].bid <= from ELSE heard[k].bid >= from
  BY <1>15 DEF Move
<1>17. Spike(from, to)
  BY DEF Move
<1> HIDE DEF from, to
<1>18. Spike(heard[k].bid, to)
  BY <1>3, <1>14, <1>16, <1>17, SpikeFromBeyond
<1>19. Len(Seen) >= 2
  BY <1>1, <1>9
<1> QED BY <1>10, <1>13, <1>18, <1>19 DEF IsSpike

Alerted ==
    Taken /\ open =>
        \A i \in DOMAIN heard :
            LET from == heard[i].bid  to == Head(inbox).bid IN
            /\ heard[i].ago - Head(inbox).ago <= Window - MaxDelay
            /\ Spike(from, to)
            /\ \A j \in 1 .. i : IF from < to THEN heard[j].bid <= from
                                 ELSE heard[j].bid >= from
            => told' # None /\ told' < Cooldown

LEMMA MoveIsAlerted == ASSUME SensorInv, [SensorNext]_sensorVars PROVE Alerted
<1> USE SensorAssumption, NoneAssumption DEF SensorAssumption, NoneAssumption
<1> SUFFICES ASSUME Taken, open, NEW i \in DOMAIN heard,
                    Move(i, heard[i].bid, Head(inbox).bid)
             PROVE  told' # None /\ told' < Cooldown
  BY DEF Alerted, Move
<1>1. /\ inbox # <<>>
      /\ told' = IF IsSpike(Seen) /\ open /\ Cooled THEN 0 ELSE told
  BY TakenByTake
<1>2. i \in 1 .. Len(heard)
  BY LenProperties DEF SensorInv, TickTypes
<1>3. IsSpike(Seen)
  BY <1>1, <1>2, MoveIsSeen
<1>4. told = cooldown /\ cooldown \in 0 .. Cooldown \union {None}
  BY DEF SensorInv, FlagTypes
<1>5. CASE Cooled
  BY <1>1, <1>3, <1>5
<1>6. CASE ~Cooled
  BY <1>1, <1>4, <1>6 DEF Cooled
<1> QED BY <1>5, <1>6

\* No move of an open market is kept quiet.
THEOREM MovesAlerted == SensorSpec => MovesAreAlerted
<1>1. SensorInv /\ [SensorNext]_sensorVars => Alerted
  BY MoveIsAlerted
<1>2. SensorSpec => [][Alerted]_sensorVars
  BY <1>1, SensorInvariant, PTL DEF SensorSpec
<1> QED BY <1>2 DEF MovesAreAlerted, Alerted

-----------------------------------------------------------------------------
(*****************************************************************************)
(* Watchdog                                                                  *)
(*****************************************************************************)

USE TimesAssumption, NoneAssumption DEF TimesAssumption, NoneAssumption

-----------------------------------------------------------------------------
(* Types *)

LEMMA TypesStep == ASSUME TypeOK, [Next]_vars PROVE TypeOK'
<1> USE DEF TypeOK, OldKey, DarkSeen, LongSilent, server, watchdog, hist
<1>1. CASE Beat
  BY <1>1 DEF Beat
<1>9. CASE MissBeat
  BY <1>9 DEF MissBeat
<1>2. CASE ServerDies
  <2>1. alive' \in BOOLEAN
    BY <1>2, Zenon DEF ServerDies
  <2>2. calm' \in 0 .. Interval + 1
    BY <1>2 DEF ServerDies
  <2>3. UNCHANGED <<nextBeat, redisUp, key, watchdog, dark, silent, recovered>>
    BY <1>2 DEF ServerDies
  <2> QED BY <2>1, <2>2, <2>3
<1>10. CASE ServerStarts
  BY <1>10 DEF ServerStarts
<1>3. CASE BeginCheck
  BY <1>3 DEF BeginCheck
<1>4. CASE EndCheck
  <2>1. sinceAlert' \in 0 .. Limit + 1 \union {None}
    BY <1>4 DEF EndCheck, AlertSent
  <2>2. silent' \in 0 .. LongSilent + 1 /\ recovered' \in BOOLEAN
    BY <1>4 DEF EndCheck
  <2> QED BY <1>4, <2>1, <2>2 DEF EndCheck
<1>5. CASE WatchdogRestarts
  BY <1>5 DEF WatchdogRestarts
<1>6. CASE RedisStops
  <2>1. redisUp' \in BOOLEAN
    BY <1>6, Zenon DEF RedisStops
  <2>2. calm' \in 0 .. Interval + 1
    BY <1>6 DEF RedisStops
  <2>3. UNCHANGED <<server, key, watchdog, dark, silent, recovered>>
    BY <1>6 DEF RedisStops
  <2> QED BY <2>1, <2>2, <2>3
<1>11. CASE RedisStarts
  BY <1>11 DEF RedisStarts
<1>12. CASE Evict
  BY <1>12 DEF Evict
<1>7. CASE Elapse
  BY <1>7 DEF Elapse, Older
<1>8. CASE UNCHANGED vars
  BY <1>8 DEF vars
<1> QED
  BY <1>1, <1>2, <1>3, <1>4, <1>5, <1>6, <1>7, <1>8, <1>9, <1>10, <1>11, <1>12 DEF Next

\* Every variable keeps to its values, the ages to their caps.
THEOREM TypeCorrect == Spec => []TypeOK
<1>1. Init => TypeOK
  BY DEF Init, TypeOK, OldKey, DarkSeen, LongSilent
<1> QED BY <1>1, TypesStep, PTL DEF Spec

-----------------------------------------------------------------------------
(* No alert about a system that is well *)

\* While all is up, either it has been for less than an interval, what is left to the next
\* heartbeat included, or the key is that young.
BeatInv ==
    /\ ~alive \/ ~redisUp => calm = 0
    /\ \/ calm + nextBeat <= Interval
       \/ key # None /\ key + nextBeat <= Interval

LEMMA BeatStep == ASSUME TypeOK, BeatInv, [Next]_vars PROVE BeatInv'
<1> USE DEF TypeOK, BeatInv, OldKey, server, watchdog, hist
<1>1. CASE Beat \/ MissBeat
  BY <1>1 DEF Beat, MissBeat
<1>2. CASE ServerDies \/ ServerStarts
  BY <1>2 DEF ServerDies, ServerStarts
<1>3. CASE BeginCheck \/ EndCheck \/ WatchdogRestarts
  BY <1>3 DEF BeginCheck, EndCheck, WatchdogRestarts
<1>4. CASE RedisStops \/ RedisStarts \/ Evict
  BY <1>4 DEF RedisStops, RedisStarts, Evict
<1>5. CASE Elapse
  BY <1>5 DEF Elapse, Older
<1>6. CASE UNCHANGED vars
  BY <1>6 DEF vars
<1> QED BY <1>1, <1>2, <1>3, <1>4, <1>5, <1>6 DEF Next

\* No alert is sent about a system that has been well for longer than an interval.
THEOREM Justified == Spec => NoFalseAlarm
<1>1. Init => BeatInv
  BY DEF Init, BeatInv
<1>2. ASSUME TypeOK, BeatInv, EndCheck, Alert PROVE calm <= Interval
  <2>1. SUFFICES ASSUME calm > Interval PROVE FALSE
    BY <1>2 DEF TypeOK
  <2>2. alive /\ redisUp /\ key # None /\ key <= Interval
    BY <1>2, <2>1 DEF TypeOK, BeatInv
  <2>3. ~TooOld /\ ~Unreadable
    BY <1>2, <2>2 DEF TypeOK, TooOld, Unreadable, EndCheck, OldKey
  <2> QED BY <1>2, <2>3 DEF Alert, IsStale
<1>3. TypeOK /\ BeatInv /\ [Next]_vars => [EndCheck /\ Alert => calm <= Interval]_vars
  BY <1>2
<1> QED BY <1>1, <1>3, TypeCorrect, BeatStep, PTL DEF Spec, NoFalseAlarm

-----------------------------------------------------------------------------
(* No alert repeated, and none missing *)

\* last_alert_sent is the last alert's time, unless it was cleared.
LastInv ==
    sinceAlert # None => \/ sinceAlert = silent
                         \/ sinceAlert = Limit + 1 /\ silent > Limit

\* How long ago a check that is under way began.
Begun == IF asked = None THEN 0 ELSE asked

\* After an alert without news a check finds again that something is wrong.
IllInv ==
    ~recovered => /\ sinceAlert # None
                  /\ ~redisUp \/ key = None \/ key - Begun > Stale

LEMMA LastStep == ASSUME TypeOK, LastInv, [Next]_vars PROVE LastInv'
<1> USE DEF TypeOK, LastInv, LongSilent, server, watchdog, hist
<1>1. CASE Beat \/ MissBeat \/ ServerDies \/ ServerStarts \/ BeginCheck
  BY <1>1 DEF Beat, MissBeat, ServerDies, ServerStarts, BeginCheck
<1>2. CASE EndCheck
  BY <1>2 DEF EndCheck, AlertSent, Alert, Skipped, IsStale
<1>3. CASE WatchdogRestarts
  BY <1>3 DEF WatchdogRestarts
<1>4. CASE RedisStops \/ RedisStarts \/ Evict
  BY <1>4 DEF RedisStops, RedisStarts, Evict
<1>5. CASE Elapse
  BY <1>5 DEF Elapse, Older
<1>6. CASE UNCHANGED vars
  BY <1>6 DEF vars
<1> QED BY <1>1, <1>2, <1>3, <1>4, <1>5, <1>6 DEF Next

LEMMA IllStep == ASSUME TypeOK, IllInv, [Next]_vars PROVE IllInv'
<1> USE DEF TypeOK, IllInv, Begun, OldKey, server, watchdog, hist
<1>1. CASE Beat \/ MissBeat \/ ServerDies \/ ServerStarts \/ BeginCheck
  BY <1>1 DEF Beat, MissBeat, ServerDies, ServerStarts, BeginCheck
<1>2. CASE EndCheck
  <2>1. SUFFICES ASSUME ~recovered'
                 PROVE  sinceAlert' # None /\ (~redisUp \/ key = None \/ key > Stale)
    BY <1>2 DEF EndCheck
  <2>2. CASE Alert
    <3>1. IsStale /\ MayAlert
      BY <2>2 DEF Alert
    <3>2. sinceAlert' = 0
      BY <1>2, <3>1 DEF EndCheck, AlertSent, Skipped, IsStale
    <3>3. Unreadable \/ TooOld
      BY <3>1 DEF IsStale
    <3> QED BY <1>2, <3>2, <3>3 DEF EndCheck, Unreadable, TooOld
  <2>3. CASE ~Alert
    <3>1. ~recovered
      BY <1>2, <2>1, <2>3 DEF EndCheck
    <3>2. Unreadable \/ TooOld
      BY <1>2, <3>1 DEF EndCheck, Unreadable, TooOld
    <3>3. Skipped \/ IsStale
      BY <3>2 DEF Skipped, IsStale
    <3>4. sinceAlert' = sinceAlert
      BY <1>2, <2>3, <3>3 DEF EndCheck, AlertSent, Alert
    <3> QED BY <1>2, <3>1, <3>4 DEF EndCheck
  <2> QED BY <2>2, <2>3
<1>3. CASE WatchdogRestarts
  BY <1>3 DEF WatchdogRestarts
<1>4. CASE RedisStops \/ RedisStarts \/ Evict
  BY <1>4 DEF RedisStops, RedisStarts, Evict
<1>5. CASE Elapse
  BY <1>5 DEF Elapse, Older
<1>6. CASE UNCHANGED vars
  BY <1>6 DEF vars
<1> QED BY <1>1, <1>2, <1>3, <1>4, <1>5, <1>6 DEF Next

\* Two alerts within the rate limit have news between them.
THEOREM Spared == Spec => NoRepeatedAlarm
<1>1. Init => LastInv /\ IllInv
  BY DEF Init, LastInv, IllInv
<1>2. ASSUME TypeOK, LastInv, IllInv, Alert, silent <= Limit PROVE recovered
  <2>1. CASE sinceAlert = None
    BY <1>2, <2>1 DEF IllInv
  <2>2. CASE sinceAlert # None
    BY <1>2, <2>2 DEF LastInv, Alert, MayAlert, TypeOK
  <2> QED BY <2>1, <2>2
<1>3. TypeOK /\ LastInv /\ IllInv /\ [Next]_vars
        => [EndCheck /\ Alert /\ silent <= Limit => recovered]_vars
  BY <1>2
<1> QED BY <1>1, <1>3, TypeCorrect, LastStep, IllStep, PTL DEF Spec, NoRepeatedAlarm

\* The key tells no later heartbeat than the last; the silence is not older than the watchdog.
AgeInv ==
    /\ key # None => key >= dark \/ key = OldKey
    /\ silent <= uptime \/ uptime = Grace + MaxDelay

LEMMA AgeStep == ASSUME TypeOK, AgeInv, [Next]_vars PROVE AgeInv'
<1> USE DEF TypeOK, AgeInv, OldKey, DarkSeen, LongSilent, server, watchdog, hist
<1>1. CASE Beat \/ MissBeat \/ ServerDies \/ ServerStarts \/ BeginCheck
  BY <1>1 DEF Beat, MissBeat, ServerDies, ServerStarts, BeginCheck
<1>2. CASE EndCheck
  BY <1>2 DEF EndCheck
<1>3. CASE WatchdogRestarts
  BY <1>3 DEF WatchdogRestarts
<1>4. CASE RedisStops \/ RedisStarts \/ Evict
  BY <1>4 DEF RedisStops, RedisStarts, Evict
<1>5. CASE Elapse
  BY <1>5 DEF Elapse, Older
<1>6. CASE UNCHANGED vars
  BY <1>6 DEF vars
<1> QED BY <1>1, <1>2, <1>3, <1>4, <1>5, <1>6 DEF Next

\* The longest time to the end of the next check.
ToEnd == IF asked = None THEN rest + MaxDelay ELSE MaxDelay - asked

\* The next check ends before the silence is too long, or before the darkness must be seen.
DueInv == silent + ToEnd <= LongSilent \/ dark + ToEnd <= DarkSeen

LEMMA DueStep == ASSUME TypeOK, LastInv, AgeInv, DueInv, [Next]_vars PROVE DueInv'
<1> USE DEF TypeOK, DueInv, ToEnd, DarkSeen, LongSilent, server, watchdog, hist
<1>1. CASE Beat \/ MissBeat \/ ServerDies \/ ServerStarts \/ BeginCheck
  BY <1>1 DEF Beat, MissBeat, ServerDies, ServerStarts, BeginCheck
<1>2. CASE EndCheck
  <2>1. ToEnd' = Interval + MaxDelay /\ dark' = dark
    BY <1>2 DEF EndCheck
  <2>2. CASE dark <= Stale + MaxDelay
    BY <2>1, <2>2
  <2>3. CASE dark > Stale + MaxDelay
    <3>1. Unreadable \/ TooOld
      BY <1>2, <2>3 DEF EndCheck, AgeInv, Unreadable, TooOld, OldKey
    <3>2. CASE Alert
      BY <1>2, <2>1, <3>2 DEF EndCheck
    <3>3. CASE Skipped
      <4>1. uptime - asked < Grace
        BY <3>3 DEF Skipped, InGrace
      <4>2. silent <= Limit
        BY <1>2, <4>1 DEF EndCheck, AgeInv
      <4> QED BY <1>2, <2>1, <4>2 DEF EndCheck
    <3>4. CASE ~Skipped /\ ~Alert
      <4>1. ~MayAlert
        BY <3>1, <3>4 DEF Skipped, Alert, IsStale
      <4>2. silent <= Limit
        BY <4>1 DEF MayAlert, LastInv
      <4> QED BY <1>2, <2>1, <4>2 DEF EndCheck
    <3> QED BY <3>2, <3>3, <3>4
  <2> QED BY <2>2, <2>3
<1>3. CASE WatchdogRestarts
  BY <1>3 DEF WatchdogRestarts
<1>4. CASE RedisStops \/ RedisStarts \/ Evict
  BY <1>4 DEF RedisStops, RedisStarts, Evict
<1>5. CASE Elapse
  BY <1>5 DEF Elapse, Older
<1>6. CASE UNCHANGED vars
  BY <1>6 DEF vars
<1> QED BY <1>1, <1>2, <1>3, <1>4, <1>5, <1>6 DEF Next

\* In the dark the last alert is never longer ago than the rate limit and one check.
THEOREM NotSilent == Spec => []SentWhileDark
<1>1. Init => LastInv /\ AgeInv /\ DueInv
  BY DEF Init, LastInv, AgeInv, DueInv, ToEnd, LongSilent, OldKey
<1>2. TypeOK /\ DueInv => SentWhileDark
  BY DEF TypeOK, DueInv, ToEnd, SentWhileDark, LongSilent, DarkSeen
<1> QED BY <1>1, <1>2, TypeCorrect, LastStep, AgeStep, DueStep, PTL DEF Spec
===============================================================================
