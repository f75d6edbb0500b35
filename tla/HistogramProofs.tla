-------------------------- MODULE HistogramProofs --------------------------
(***************************************************************************)
(* Proofs about the histograms of the latencies: what the threads' Adds and *)
(* a report's merges and clears, none of which takes a lock, leave right.   *)
(***************************************************************************)
EXTENDS Histogram, FoldLemmas

\* How an Add under way has left a histogram when it has stored the bucket, and the
\* count and the sum are still to come.
IsPartOf(h, t, v) ==
    /\ h.num = Total(t) /\ h.sum = Weighted(t)
    /\ h.max = Max({0} \cup Seen(t) \cup {v})
    /\ \A b \in Buckets :
          h.buckets[b] = SumFunctionOnSet(t, LatenciesIn(b)) + (IF b = Bucket(v) THEN 1 ELSE 0)

\* The histogram of a thread whose Adds no clear has met: it holds the thread's tally,
\* and what the Add has loaded is still there; or its counts are cleared.
ThreadInv(i) ==
    /\ turn = i /\ main = "clearBuckets" =>
          pc[i] = "idle" /\ hists[i].num = 0 /\ hists[i].sum = 0 /\ hists[i].max = 0
    /\ ~(turn = i /\ main = "clearBuckets") =>
          /\ pc[i] # "num" => IsHistogramOf(hists[i], tally[i])
          /\ pc[i] = "bucket" => read[i] = hists[i].buckets[Bucket(latency[i])]
          /\ pc[i] = "num" => IsPartOf(hists[i], tally[i], latency[i]) /\ read[i] = hists[i].num

\* The counts of the report are those of the tallies that it has merged, and its buckets
\* are, or are about to be.
ReportInv ==
    /\ writeHist.num = Total(merged) /\ writeHist.sum = Weighted(merged)
    /\ writeHist.max = Max({0} \cup Seen(merged))
    /\ main = "mergeBuckets" => pc[turn] = "idle"
    /\ \A b \in Buckets :
          writeHist.buckets[b] + (IF main = "mergeBuckets" THEN hists[turn].buckets[b] ELSE 0)
              = SumFunctionOnSet(merged, LatenciesIn(b))

IInv ==
    /\ TypeOK
    /\ \A i \in Hosts : pc[i] # "idle" => latency[i] \in Latency
    /\ \A i \in Hosts : ~tainted[i] => ThreadInv(i)
    /\ ~dirty => ReportInv

-----------------------------------------------------------------------------
(* The limits of the buckets.                                               *)

\* The powers of ten.
LEMMA DecadeFacts ==
    /\ decade \in [Nat -> Nat \ {0}] /\ decade[0] = 1
    /\ \A n \in Nat : decade[n + 1] = 10 * decade[n]
<1> DEFINE F == [y \in Nat \ {0} |-> 10 * y]
<1>1. \A y \in Nat \ {0} : F[y] = 10 * y /\ F[y] \in Nat \ {0}
  OBVIOUS
<1>2. PICK it \in [Nat -> Nat \ {0}] : \A n \in Nat : it[n] = IF n = 0 THEN 1 ELSE F[it[n - 1]]
  <2> DEFINE Y    == Nat \ {0}
             base == 1
  <2>1. base \in Y /\ \A y \in Y : F[y] \in Y
    BY <1>1
  <2> HIDE DEF F, Y, base
  <2>2. \E it \in [Nat -> Y] : \A n \in Nat : it[n] = IF n = 0 THEN base ELSE F[it[n - 1]]
    BY <2>1, IterationExists
  <2> QED
    BY <2>2 DEF Y, base
<1>3. it = [n \in Nat |-> IF n = 0 THEN 1 ELSE 10 * it[n - 1]]
  <2>1. \A n \in Nat : it[n] = IF n = 0 THEN 1 ELSE 10 * it[n - 1]
    <3> TAKE n \in Nat
    <3>1. CASE n = 0
      BY <1>2, <3>1
    <3>2. CASE n # 0
      <4> HIDE DEF F
      <4>1. n - 1 \in Nat /\ it[n - 1] \in Nat \ {0} /\ it[n] = F[it[n - 1]]
        BY <1>2, <3>2
      <4> QED
        BY <1>1, <3>2, <4>1
    <3> QED
      BY <3>1, <3>2
  <2> QED
    BY <1>2, <2>1
<1>4. decade = [n \in Nat |-> IF n = 0 THEN 1 ELSE 10 * decade[n - 1]]
  <2> DEFINE Is(f) == f = [n \in Nat |-> IF n = 0 THEN 1 ELSE 10 * f[n - 1]]
  <2>1. Is(it)
    BY <1>3
  <2>2. decade = CHOOSE f : Is(f)
    BY DEF decade
  <2>3. Is(CHOOSE f : Is(f))
    <3> HIDE DEF Is
    <3> QED
      BY <2>1
  <2> QED
    BY <2>2, <2>3
<1>5. decade = it
  <2> DEFINE H == {n \in Nat : decade[n] = it[n]}
  <2>1. 0 \in H
    BY <1>3, <1>4
  <2>2. ASSUME NEW n \in Nat, n \in H
        PROVE  n + 1 \in H
    <3>1. decade[n + 1] = 10 * decade[n] /\ it[n + 1] = 10 * it[n]
      <4>1. n + 1 \in Nat /\ n + 1 # 0 /\ (n + 1) - 1 = n
        OBVIOUS
      <4> QED
        BY <1>3, <1>4, <4>1
    <3> QED
      BY <2>2, <3>1
  <2>3. \A n \in Nat : n \in H
    <3> HIDE DEF H
    <3> QED
      BY <2>1, <2>2, NatSetInduction
  <2> QED
    BY <1>3, <1>4, <2>3
<1> QED
  <2>1. ASSUME NEW n \in Nat
        PROVE  it[n + 1] = 10 * it[n]
    <3>1. n + 1 \in Nat /\ n + 1 # 0 /\ (n + 1) - 1 = n
      OBVIOUS
    <3> QED
      BY <1>3, <3>1
  <2> QED
    BY <1>2, <1>3, <1>5, <2>1

\* The entries of the table that are steps of a decade.
Steps == <<10, 12, 14, 16, 18, 20, 25, 30, 35, 40, 45, 50, 60, 70, 80, 90>>

\* The steps of a decade grow, and the next decade goes on from them.
LEMMA StepsGrow ==
    /\ \A j \in 1 .. 16 : Steps[j] \in 10 .. 90
    /\ \A j \in 1 .. 15 : Steps[j] <= Steps[j + 1]
    /\ Steps[1] = 10
<1>1. ASSUME NEW j \in 1 .. 16
      PROVE  Steps[j] \in 10 .. 90
  BY DEF Steps
<1>2. ASSUME NEW j \in 1 .. 15
      PROVE  Steps[j] <= Steps[j + 1]
  <2>1. \/ j = 1 \/ j = 2 \/ j = 3 \/ j = 4 \/ j = 5 \/ j = 6 \/ j = 7 \/ j = 8
        \/ j = 9 \/ j = 10 \/ j = 11 \/ j = 12 \/ j = 13 \/ j = 14 \/ j = 15
    OBVIOUS
  <2> QED
    BY <2>1 DEF Steps
<1>3. Steps[1] = 10
  BY DEF Steps
<1> QED
  BY <1>1, <1>2, <1>3

\* The entry of a step: how far it is into which decade.
LEMMA StepEntry ==
    ASSUME NEW b \in Nat, b >= 9
    PROVE  /\ (b - 9) % 16 \in 0 .. 15 /\ (b - 9) \div 16 \in Nat
           /\ (b - 9) % 16 < 15 =>
                 /\ ((b + 1) - 9) % 16 = ((b - 9) % 16) + 1
                 /\ ((b + 1) - 9) \div 16 = (b - 9) \div 16
           /\ (b - 9) % 16 = 15 =>
                 /\ ((b + 1) - 9) % 16 = 0
                 /\ ((b + 1) - 9) \div 16 = ((b - 9) \div 16) + 1
  OBVIOUS

\* The table of the limits grows up to its last entry but one, as the search for a
\* bucket needs.
LEMMA LimitFacts ==
    /\ kBucketLimit \in [Buckets -> Nat]
    /\ limitCnt - 1 \in Buckets /\ kBucketLimit[limitCnt - 1] = Infinity
    /\ \A b \in Buckets : b >= limitCnt => kBucketLimit[b] = 0
    /\ \A b \in Nat : b + 1 < limitCnt - 1 => kBucketLimit[b] <= kBucketLimit[b + 1]
<1> USE HistogramAssumption
<1>1. ASSUME NEW b \in Buckets
      PROVE  kBucketLimit[b] = IF b >= limitCnt THEN 0
                               ELSE IF b = limitCnt - 1 THEN Infinity
                               ELSE IF b < 9 THEN b + 1
                               ELSE Steps[((b - 9) % 16) + 1] * decade[(b - 9) \div 16]
  BY DEF kBucketLimit, Steps
<1>2. ASSUME NEW b \in Nat, b >= 9
      PROVE  /\ Steps[((b - 9) % 16) + 1] \in 10 .. 90
             /\ decade[(b - 9) \div 16] \in Nat \ {0}
             /\ Steps[((b - 9) % 16) + 1] * decade[(b - 9) \div 16] \in Nat
  <2>1. (b - 9) % 16 \in 0 .. 15 /\ (b - 9) \div 16 \in Nat
    BY <1>2, StepEntry
  <2>2. ((b - 9) % 16) + 1 \in 1 .. 16
    BY ONLY <2>1
  <2>3. Steps[((b - 9) % 16) + 1] \in 10 .. 90
    BY ONLY <2>2, StepsGrow
  <2>4. decade[(b - 9) \div 16] \in Nat \ {0}
    BY ONLY <2>1, DecadeFacts
  <2>5. \A x \in 10 .. 90, d \in Nat \ {0} : x * d \in Nat
    OBVIOUS
  <2> QED
    BY ONLY <2>3, <2>4, <2>5
<1>3. ASSUME NEW b \in Buckets
      PROVE  b \in Nat /\ kBucketLimit[b] \in Nat
  <2>1. b \in Nat
    BY DEF Buckets
  <2> QED
    BY <1>1, <1>2, <2>1
<1>4. kBucketLimit \in [Buckets -> Nat]
  <2>1. kBucketLimit = [b \in Buckets |-> kBucketLimit[b]]
    BY DEF kBucketLimit
  <2> QED
    BY <1>3, <2>1
<1>5. limitCnt - 1 \in Buckets
  BY DEF Buckets
<1>6. ASSUME NEW b \in Nat, b + 1 < limitCnt - 1
      PROVE  kBucketLimit[b] <= kBucketLimit[b + 1]
  <2>1. b \in Buckets /\ b + 1 \in Buckets
    BY <1>6 DEF Buckets
  <2>2. CASE b + 1 < 9
    BY <1>1, <1>6, <2>1, <2>2
  <2>3. CASE b + 1 = 9
    <3>1. kBucketLimit[b] = 9
      BY <1>1, <1>6, <2>1, <2>3
    <3>2. kBucketLimit[9] = Steps[1] * decade[0]
      <4>1. (9 - 9) % 16 = 0 /\ (9 - 9) \div 16 = 0
        OBVIOUS
      <4> QED
        BY <1>1, <1>6, <2>1, <2>3, <4>1
    <3>3. Steps[1] * decade[0] = 10
      BY ONLY StepsGrow, DecadeFacts
    <3> QED
      BY ONLY <2>3, <3>1, <3>2, <3>3
  <2>4. CASE b >= 9
    <3> DEFINE j == (b - 9) % 16
               n == (b - 9) \div 16
    <3>1. /\ kBucketLimit[b] = Steps[j + 1] * decade[n]
          /\ kBucketLimit[b + 1] = Steps[(((b + 1) - 9) % 16) + 1] * decade[((b + 1) - 9) \div 16]
      BY <1>1, <1>6, <2>1, <2>4
    <3>2. j \in 0 .. 15 /\ n \in Nat
      BY <2>4, StepEntry
    <3>3. decade[n] \in Nat \ {0} /\ decade[n + 1] = 10 * decade[n]
      BY <3>2, DecadeFacts
    <3>4. CASE j < 15
      <4>1. kBucketLimit[b + 1] = Steps[(j + 1) + 1] * decade[n]
        BY <2>4, <3>1, <3>4, StepEntry
      <4>2. /\ Steps[j + 1] \in Nat /\ Steps[(j + 1) + 1] \in Nat
            /\ Steps[j + 1] <= Steps[(j + 1) + 1]
        <5>1. j + 1 \in 1 .. 15 /\ (j + 1) + 1 \in 1 .. 16 /\ j + 1 \in 1 .. 16
          BY ONLY <3>2, <3>4
        <5>2. /\ Steps[j + 1] \in 10 .. 90 /\ Steps[(j + 1) + 1] \in 10 .. 90
              /\ Steps[j + 1] <= Steps[(j + 1) + 1]
          BY ONLY <5>1, StepsGrow
        <5> QED
          BY ONLY <5>2
      <4> HIDE DEF j, n
      <4>3. \A x, y, d \in Nat : x <= y => x * d <= y * d
        OBVIOUS
      <4> QED
        BY <3>1, <3>3, <4>1, <4>2, <4>3
    <3>5. CASE j = 15
      <4>1. kBucketLimit[b + 1] = Steps[0 + 1] * decade[n + 1]
        BY <2>4, <3>1, <3>5, StepEntry
      <4>2. Steps[j + 1] \in 10 .. 90 /\ Steps[1] = 10
        BY <3>2, StepsGrow
      <4> HIDE DEF j, n
      <4>3. \A x \in 10 .. 90 : \A d \in Nat : x * d <= 100 * d
        OBVIOUS
      <4>4. kBucketLimit[b + 1] = 100 * decade[n]
        BY <3>3, <4>1, <4>2
      <4> QED
        BY <3>1, <3>3, <4>2, <4>3, <4>4
    <3> QED
      BY <3>2, <3>4, <3>5
  <2> QED
    BY <2>2, <2>3, <2>4
<1> QED
  BY <1>1, <1>4, <1>5, <1>6

\* Between two entries of the table, too.
LEMMA LimitsGrow ==
    ASSUME NEW b \in Nat, NEW c \in Nat, b <= c, c < limitCnt - 1
    PROVE  kBucketLimit[b] <= kBucketLimit[c]
<1> USE HistogramAssumption
<1> DEFINE G == {n \in Nat : b + n < limitCnt - 1 => kBucketLimit[b] <= kBucketLimit[b + n]}
<1>1. \A n \in Nat : b + n < limitCnt - 1 => kBucketLimit[b + n] \in Nat
  BY LimitFacts DEF Buckets
<1>2. 0 \in G
  <2>1. b + 0 = b /\ (b + 0 < limitCnt - 1 => kBucketLimit[b + 0] \in Nat)
    BY <1>1
  <2> QED
    BY <2>1
<1>3. ASSUME NEW n \in Nat, n \in G
      PROVE  n + 1 \in G
  <2>1. SUFFICES ASSUME b + (n + 1) < limitCnt - 1
                 PROVE  kBucketLimit[b] <= kBucketLimit[b + (n + 1)]
    OBVIOUS
  <2>2. b + n < limitCnt - 1 /\ b + n \in Nat /\ (b + n) + 1 = b + (n + 1)
    BY <2>1
  <2>3. kBucketLimit[b + n] <= kBucketLimit[(b + n) + 1]
    BY <2>1, <2>2, LimitFacts
  <2>4. kBucketLimit[b] \in Nat /\ kBucketLimit[b + n] \in Nat /\ kBucketLimit[b + (n + 1)] \in Nat
    <3>1. kBucketLimit[b + 0] \in Nat /\ b + 0 = b
      BY <1>1, <2>1
    <3> QED
      BY <1>1, <2>1, <2>2, <3>1
  <2> QED
    BY <1>3, <2>2, <2>3, <2>4
<1>4. \A n \in Nat : n \in G
  <2> HIDE DEF G
  <2> QED
    BY <1>2, <1>3, NatSetInduction
<1>5. c - b \in Nat /\ b + (c - b) = c
  OBVIOUS
<1> QED
  BY <1>4, <1>5

-----------------------------------------------------------------------------
(* Least and greatest.                                                      *)

\* A set of naturals has a least element.
LEMMA LeastOf ==
    ASSUME NEW S \in SUBSET Nat, S # {}
    PROVE  Min(S) \in S /\ \A x \in S : Min(S) <= x
<1> DEFINE G == {n \in Nat : \A m \in 0 .. n : m \notin S}
<1>1. \E m \in S : \A x \in S : m <= x
  <2>1. SUFFICES ASSUME \A m \in S : \E x \in S : ~(m <= x)
                 PROVE  FALSE
    OBVIOUS
  <2>2. 0 \in G
    BY <2>1
  <2>3. ASSUME NEW n \in Nat, n \in G
        PROVE  n + 1 \in G
    <3>1. \A m \in 0 .. n + 1 : m \in 0 .. n \/ m = n + 1
      OBVIOUS
    <3>2. n + 1 \notin S
      <4>1. ASSUME n + 1 \in S
            PROVE  FALSE
        <5>1. PICK x \in S : ~(n + 1 <= x)
          BY <2>1, <4>1
        <5>2. x \in 0 .. n
          BY <5>1
        <5> QED
          BY <2>3, <5>2
      <4> QED
        BY <4>1
    <3> QED
      BY <2>3, <3>1, <3>2
  <2>4. \A n \in Nat : n \in G
    <3> HIDE DEF G
    <3> QED
      BY <2>2, <2>3, NatSetInduction
  <2>5. PICK y \in S : y \in Nat
    OBVIOUS
  <2>6. y \in G /\ y \in 0 .. y
    BY <2>4
  <2> QED
    BY <2>6
<1> QED
  BY <1>1 DEF Min

\* The greater of two greatest elements.
LEMMA GreatestOfBoth ==
    ASSUME NEW S \in SUBSET Nat, S # {}, IsFiniteSet(S),
           NEW T \in SUBSET Nat, T # {}, IsFiniteSet(T)
    PROVE  Max({Max(S), Max(T)}) = Max(S \cup T)
<1> DEFINE a == Max(S)
           b == Max(T)
           m == IF a <= b THEN b ELSE a
<1>1. a \in S /\ (\A x \in S : x <= a) /\ b \in T /\ (\A x \in T : x <= b)
  BY GreatestOf
<1> HIDE DEF a, b
<1>2. m \in {a, b} /\ \A x \in {a, b} : x <= m
  BY <1>1
<1>3. m \in S \cup T /\ \A x \in S \cup T : x <= m
  BY <1>1
<1>4. {a, b} \in SUBSET Nat /\ S \cup T \in SUBSET Nat
  BY <1>1
<1> HIDE DEF m
<1>5. Max({a, b}) = m /\ Max(S \cup T) = m
  BY <1>2, <1>3, <1>4, GreatestIs
<1> QED
  BY <1>5 DEF a, b

\* A set with one element has it as its greatest.
LEMMA GreatestOfOne ==
    ASSUME NEW m \in Nat
    PROVE  Max({m}) = m
  BY GreatestIs

\* The least and the greatest of two numbers are numbers.
LEMMA TwoFacts ==
    ASSUME NEW a \in Nat, NEW b \in Nat
    PROVE  Min({a, b}) \in Nat /\ Max({a, b}) \in Nat
<1>1. IsFiniteSet({a, b})
  <2>1. IsFiniteSet({a}) /\ {a, b} = {a} \cup {b}
    BY FS_Singleton
  <2>2. IsFiniteSet({a} \cup {b})
    BY <2>1, FS_AddElement
  <2> QED
    BY <2>1, <2>2
<1>2. {a, b} \in SUBSET Nat /\ {a, b} # {}
  OBVIOUS
<1> QED
  BY <1>1, <1>2, LeastOf, GreatestOf

-----------------------------------------------------------------------------
(* The buckets.                                                             *)

\* Bucket finds the bucket that a latency lies in, and it lies in no other.
LEMMA BucketFacts ==
    ASSUME NEW v \in Latency
    PROVE  /\ Bucket(v) \in Buckets
           /\ \A b \in Buckets : v \in LatenciesIn(b) <=> b = Bucket(v)
<1> USE HistogramAssumption
<1> DEFINE S == {b \in Buckets : b = kNumBuckets - 1 \/ v < kBucketLimit[b]}
           k == Bucket(v)
<1>1. /\ v \in Nat /\ v < Infinity /\ limitCnt - 1 \in Buckets
      /\ kBucketLimit[limitCnt - 1] = Infinity
  BY LimitFacts
<1>2. limitCnt - 1 \in S /\ S \in SUBSET Nat
  BY <1>1 DEF Buckets
<1>3. k = Min(S)
  BY DEF Bucket
<1>4. k \in S /\ \A b \in S : k <= b
  <2> HIDE DEF S, k
  <2> QED
    BY <1>2, <1>3, LeastOf
<1> HIDE DEF k
<1>5. k \in Buckets /\ k \in Nat /\ k <= limitCnt - 1 /\ v < kBucketLimit[k]
  BY <1>1, <1>2, <1>4 DEF Buckets
<1>6. ASSUME NEW b \in Buckets, b = k
      PROVE  v \in LatenciesIn(b)
  <2>1. ASSUME b > 0
        PROVE  kBucketLimit[b - 1] <= v
    <3>1. b - 1 \in Buckets /\ b - 1 \notin S
      BY <1>4, <1>5, <1>6, <2>1 DEF Buckets
    <3>2. kBucketLimit[b - 1] \in Nat
      BY <3>1, LimitFacts
    <3> QED
      BY <1>1, <3>1, <3>2
  <2> QED
    BY <1>5, <1>6, <2>1 DEF LatenciesIn
<1>7. ASSUME NEW b \in Buckets, v \in LatenciesIn(b)
      PROVE  b = k
  <2>1. b \in Nat /\ v < kBucketLimit[b] /\ (b > 0 => kBucketLimit[b - 1] <= v)
    BY <1>7 DEF LatenciesIn, Buckets
  <2>2. b \in S /\ k <= b
    BY <1>4, <2>1
  <2>3. ASSUME k < b
        PROVE  FALSE
    <3>1. b < limitCnt
      BY <1>1, <2>1, LimitFacts
    <3>2. b - 1 \in Nat /\ k <= b - 1 /\ b - 1 < limitCnt - 1
      BY <1>5, <2>1, <2>3, <3>1
    <3>3. kBucketLimit[k] <= kBucketLimit[b - 1]
      BY <1>5, <3>2, LimitsGrow
    <3>4. kBucketLimit[k] \in Nat /\ kBucketLimit[b - 1] \in Nat
      <4>1. b - 1 \in Buckets
        BY <3>2 DEF Buckets
      <4> QED
        BY <1>5, <4>1, LimitFacts
    <3> QED
      BY <1>1, <1>5, <2>1, <2>3, <3>3, <3>4
  <2> QED
    BY <1>5, <2>1, <2>2, <2>3
<1> QED
  BY <1>5, <1>6, <1>7 DEF k

\* Up to the last entry of the table, the buckets up to b count the latencies below
\* b's limit.
LEMMA CountsBelow ==
    ASSUME NEW t \in [Latency -> Nat], NEW h \in HistogramType,
           \A b \in Buckets : h.buckets[b] = SumFunctionOnSet(t, LatenciesIn(b)),
           NEW b \in Nat, b < limitCnt
    PROVE  CountUpTo(h, b) = SumFunctionOnSet(t, LatenciesBelow(b))
<1> USE HistogramAssumption
<1> DEFINE Sum(T)   == SumFunctionOnSet(t, T)
           Count(T) == SumFunctionOnSet(h.buckets, T)
           G == {n \in Nat : n < limitCnt => Count(0 .. n) = Sum(LatenciesBelow(n))}
<1>1. \A n \in Nat : n < limitCnt => n \in Buckets
  BY DEF Buckets
<1>2. h.buckets \in [Buckets -> Nat] /\ IsFiniteSet(Buckets)
  <2>1. IsFiniteSet(0 .. kNumBuckets - 1)
    BY FS_Interval
  <2> QED
    BY <2>1 DEF HistogramType, Buckets
<1>3. /\ Count({}) = 0
      /\ \A T \in SUBSET Buckets : \A n \in Buckets :
            n \notin T => Count(T \cup {n}) = h.buckets[n] + Count(T)
      /\ \A T \in SUBSET Buckets : Count(T) \in Nat
  BY <1>2, SumFacts
<1>4. \A T, U \in SUBSET Latency : T \cap U = {} => Sum(T \cup U) = Sum(T) + Sum(U)
  <2> TAKE T, U \in SUBSET Latency
  <2>1. \A x \in Latency : t[x] \in Nat
    OBVIOUS
  <2> HAVE T \cap U = {}
  <2>2. IsFiniteSet(Latency) /\ T \in SUBSET Latency /\ U \in SUBSET Latency /\ T \cap U = {}
    OBVIOUS
  <2> QED
    BY ONLY <2>1, <2>2, SumSplit
<1>5. \A T \in SUBSET Latency : Sum(T) \in Nat
  BY SumFacts
<1>6. \A n \in Nat : LatenciesBelow(n) \in SUBSET Latency /\ LatenciesIn(n) \in SUBSET Latency
  BY DEF LatenciesBelow, LatenciesIn
<1>7. 0 \in G
  <2>1. 0 \in Buckets /\ h.buckets[0] = Sum(LatenciesIn(0)) /\ h.buckets[0] \in Nat
    BY <1>1, <1>2
  <2>2. LatenciesIn(0) = LatenciesBelow(0)
    BY DEF LatenciesIn, LatenciesBelow
  <2>3. 0 .. 0 = {} \cup {0}
    OBVIOUS
  <2>4. Count({} \cup {0}) = h.buckets[0] + 0
    BY <1>3, <2>1
  <2>5. Count(0 .. 0) = h.buckets[0]
    BY <2>1, <2>3, <2>4
  <2>6. Sum(LatenciesIn(0)) = Sum(LatenciesBelow(0))
    BY <2>2
  <2> HIDE DEF Sum, Count
  <2> QED
    BY <2>1, <2>5, <2>6
<1>8. ASSUME NEW n \in Nat, n \in G
      PROVE  n + 1 \in G
  <2>1. SUFFICES ASSUME n + 1 < limitCnt
                 PROVE  Count(0 .. (n + 1)) = Sum(LatenciesBelow(n + 1))
    OBVIOUS
  <2>2. n \in Buckets /\ n + 1 \in Buckets /\ n < limitCnt
    BY <1>1, <2>1
  <2>3. PICK T \in SUBSET Buckets : T = 0 .. n /\ T \cup {n + 1} = 0 .. (n + 1) /\ n + 1 \notin T
    BY <2>2 DEF Buckets
  <2>4. Count(T \cup {n + 1}) = h.buckets[n + 1] + Count(T)
    BY <1>3, <2>2, <2>3
  <2>5. Count(0 .. (n + 1)) = h.buckets[n + 1] + Count(0 .. n)
    BY <2>3, <2>4
  <2>6. /\ LatenciesBelow(n + 1) = LatenciesBelow(n) \cup LatenciesIn(n + 1)
        /\ LatenciesBelow(n) \cap LatenciesIn(n + 1) = {}
    <3>1. kBucketLimit[n] \in Nat /\ kBucketLimit[n + 1] \in Nat
      BY <2>2, LimitFacts
    <3>2. ASSUME NEW v \in Latency, v < kBucketLimit[n]
          PROVE  v < kBucketLimit[n + 1]
      <4>1. CASE n + 1 = limitCnt - 1
        BY <4>1, LimitFacts
      <4>2. CASE n + 1 < limitCnt - 1
        <5>1. kBucketLimit[n] <= kBucketLimit[n + 1]
          BY <4>2, LimitFacts
        <5> QED
          BY <3>1, <3>2, <5>1
      <4> QED
        BY <2>1, <4>1, <4>2
    <3>3. ASSUME NEW v \in Latency
          PROVE  v \in Nat /\ (v < kBucketLimit[n] <=> ~(kBucketLimit[n] <= v))
      BY <3>1
    <3>4. n + 1 > 0 /\ (n + 1) - 1 = n
      OBVIOUS
    <3> QED
      BY <3>2, <3>3, <3>4 DEF LatenciesBelow, LatenciesIn
  <2>7. PICK U, V, W \in SUBSET Latency :
           /\ U = LatenciesBelow(n) /\ V = LatenciesIn(n + 1) /\ W = LatenciesBelow(n + 1)
           /\ W = U \cup V /\ U \cap V = {}
    BY <1>6, <2>6
  <2>8. Sum(W) = Sum(U) + Sum(V)
    BY <1>4, <2>7
  <2>9. Count(0 .. n) = Sum(U) /\ h.buckets[n + 1] = Sum(V)
    BY <1>8, <2>2, <2>7
  <2>10. Sum(U) \in Nat /\ Sum(V) \in Nat
    BY <1>5
  <2>11. Sum(LatenciesBelow(n + 1)) = Sum(W)
    BY <2>7
  <2> HIDE DEF Sum, Count
  <2> QED
    BY <2>5, <2>8, <2>9, <2>10, <2>11
<1>9. b \in G
  <2> HIDE DEF G
  <2> QED
    BY <1>7, <1>8, NatSetInduction
<1> QED
  BY <1>9 DEF CountUpTo

-----------------------------------------------------------------------------
(* The tallies.                                                             *)

\* What is counted of a tally is a number.
LEMMA TallyFacts ==
    ASSUME NEW t \in [Latency -> Nat]
    PROVE  /\ Total(t) \in Nat /\ Weighted(t) \in Nat
           /\ \A b \in Buckets : SumFunctionOnSet(t, LatenciesIn(b)) \in Nat
           /\ {0} \cup Seen(t) \in SUBSET Nat /\ IsFiniteSet({0} \cup Seen(t))
<1> USE HistogramAssumption
<1>1. \A T \in SUBSET Latency : SumFunctionOnSet(t, T) \in Nat
  BY SumFacts
<1>2. Weighted(t) \in Nat
  <2> DEFINE w == [v \in Latency |-> t[v] * v]
  <2>1. \A v \in Latency : w[v] \in Nat
    OBVIOUS
  <2> HIDE DEF w
  <2>2. SumFunctionOnSet(w, Latency) \in Nat
    BY <2>1, SumTakesOne
  <2> QED
    BY <2>2 DEF Weighted, w
<1>3. \A b \in Buckets : LatenciesIn(b) \in SUBSET Latency
  BY DEF LatenciesIn
<1>4. Seen(t) \in SUBSET Latency
  BY DEF Seen
<1>5. IsFiniteSet(Seen(t)) /\ IsFiniteSet({0})
  BY <1>4, FS_Subset, FS_Singleton
<1>6. IsFiniteSet({0} \cup Seen(t))
  BY <1>5, FS_Union
<1>7. {0} \cup Seen(t) \in SUBSET Nat
  <2>1. \A v \in Seen(t) : v \in Nat
    BY <1>4
  <2> QED
    BY <2>1
<1>8. Total(t) \in Nat
  BY <1>1 DEF Total
<1>9. \A b \in Buckets : SumFunctionOnSet(t, LatenciesIn(b)) \in Nat
  BY <1>1, <1>3
<1> QED
  BY <1>2, <1>6, <1>7, <1>8, <1>9

\* A tally of nothing.
LEMMA NoTallyFacts ==
    /\ NoTally \in [Latency -> Nat] /\ Total(NoTally) = 0 /\ Weighted(NoTally) = 0
    /\ Max({0} \cup Seen(NoTally)) = 0
    /\ \A b \in Buckets : SumFunctionOnSet(NoTally, LatenciesIn(b)) = 0
<1> USE HistogramAssumption
<1>1. NoTally \in [Latency -> Nat] /\ \A v \in Latency : NoTally[v] = 0
  BY DEF NoTally
<1>2. Total(NoTally) = 0
  BY <1>1, SumZero DEF Total
<1>3. Weighted(NoTally) = 0
  <2> DEFINE w == [v \in Latency |-> NoTally[v] * v]
  <2>1. \A v \in Latency : w[v] = 0
    BY <1>1
  <2> HIDE DEF w
  <2>2. SumFunctionOnSet(w, Latency) = 0
    BY <2>1, SumZero
  <2> QED
    BY <2>2 DEF Weighted, w
<1>4. {0} \cup Seen(NoTally) = {0}
  <2>1. \A v \in Latency : ~(NoTally[v] > 0)
    BY <1>1
  <2>2. Seen(NoTally) = {}
    BY <2>1 DEF Seen
  <2> QED
    BY <2>2
<1>5. Max({0}) = 0
  BY GreatestOfOne
<1>6. ASSUME NEW b \in Buckets
      PROVE  SumFunctionOnSet(NoTally, LatenciesIn(b)) = 0
  <2>1. LatenciesIn(b) \in SUBSET Latency
    BY DEF LatenciesIn
  <2>2. IsFiniteSet(LatenciesIn(b)) /\ \A v \in LatenciesIn(b) : NoTally[v] = 0
    BY <1>1, <2>1, FS_Subset
  <2> QED
    BY <2>2, SumZero
<1> QED
  BY <1>1, <1>2, <1>3, <1>4, <1>5, <1>6

\* A tally with one latency more.
LEMMA AddedFacts ==
    ASSUME NEW t \in [Latency -> Nat], NEW v \in Latency, NEW u, u = [t EXCEPT ![v] = @ + 1]
    PROVE  /\ u \in [Latency -> Nat]
           /\ Total(u) = Total(t) + 1 /\ Weighted(u) = Weighted(t) + v
           /\ Seen(u) = Seen(t) \cup {v}
           /\ \A b \in Buckets :
                 SumFunctionOnSet(u, LatenciesIn(b))
                     = SumFunctionOnSet(t, LatenciesIn(b)) + (IF b = Bucket(v) THEN 1 ELSE 0)
<1> USE HistogramAssumption
<1>1. /\ u \in [Latency -> Nat]
      /\ \A x \in Latency : u[x] = IF x = v THEN t[x] + 1 ELSE t[x]
      /\ \A x \in Latency : t[x] \in Nat
  OBVIOUS
<1>2. ASSUME NEW T \in SUBSET Latency
      PROVE  SumFunctionOnSet(u, T) = SumFunctionOnSet(t, T) + (IF v \in T THEN 1 ELSE 0)
  <2>1. IsFiniteSet(T) /\ \A x \in T : t[x] \in Nat
    BY FS_Subset
  <2>2. CASE v \in T
    <3>1. \A x \in T : u[x] = IF x = v THEN t[x] + 1 ELSE t[x]
      BY <1>1
    <3>2. SumFunctionOnSet(u, T) = SumFunctionOnSet(t, T) + 1
      BY ONLY <2>1, <2>2, <3>1, SumBump, 1 \in Nat
    <3> QED
      BY <2>2, <3>2
  <2>3. CASE v \notin T
    <3>1. \A x \in T : t[x] \in Nat /\ u[x] = t[x]
      BY <1>1, <2>3
    <3>2. SumFunctionOnSet(u, T) = SumFunctionOnSet(t, T)
      BY <2>1, <3>1, SumSame
    <3>3. SumFunctionOnSet(t, T) \in Nat
      BY <2>1, SumTakesOne
    <3> QED
      BY <2>3, <3>2, <3>3
  <2> QED
    BY <2>2, <2>3
<1>3. Total(u) = Total(t) + 1
  BY <1>2 DEF Total
<1>4. Weighted(u) = Weighted(t) + v
  <2> DEFINE f == [x \in Latency |-> t[x] * x]
             g == [x \in Latency |-> u[x] * x]
  <2>1. \A x \in Latency : f[x] \in Nat
    OBVIOUS
  <2>2. \A x \in Latency : g[x] = IF x = v THEN f[x] + v ELSE f[x]
    <3> TAKE x \in Latency
    <3>1. x \in Nat /\ t[x] \in Nat /\ g[x] = u[x] * x /\ f[x] = t[x] * x
      OBVIOUS
    <3>2. (t[x] + 1) * x = t[x] * x + x
      BY <3>1
    <3> QED
      BY <1>1, <3>1, <3>2
  <2>3. PICK k \in Nat : k = v
    OBVIOUS
  <2> HIDE DEF f, g
  <2>4. SumFunctionOnSet(g, Latency) = SumFunctionOnSet(f, Latency) + k
    <3>1. \A x \in Latency : g[x] = IF x = v THEN f[x] + k ELSE f[x]
      BY <2>2, <2>3
    <3> QED
      BY ONLY IsFiniteSet(Latency), v \in Latency, k \in Nat, <2>1, <3>1, SumBump
  <2> QED
    BY <2>3, <2>4 DEF Weighted, f, g
<1>5. Seen(u) = Seen(t) \cup {v}
  BY <1>1 DEF Seen
<1>6. ASSUME NEW b \in Buckets
      PROVE  SumFunctionOnSet(u, LatenciesIn(b))
                 = SumFunctionOnSet(t, LatenciesIn(b)) + (IF b = Bucket(v) THEN 1 ELSE 0)
  <2>1. LatenciesIn(b) \in SUBSET Latency
    BY DEF LatenciesIn
  <2>2. v \in LatenciesIn(b) <=> b = Bucket(v)
    BY BucketFacts
  <2> QED
    BY <1>2, <2>1, <2>2
<1> QED
  BY <1>1, <1>3, <1>4, <1>5, <1>6

\* What a histogram tells of w is what it tells of t and of u, taken together.
IsMerge(w, t, u) ==
    /\ Total(w) = Total(t) + Total(u) /\ Weighted(w) = Weighted(t) + Weighted(u)
    /\ Max({0} \cup Seen(w)) = Max({Max({0} \cup Seen(t)), Max({0} \cup Seen(u))})
    /\ \A b \in Buckets :
          SumFunctionOnSet(w, LatenciesIn(b))
              = SumFunctionOnSet(t, LatenciesIn(b)) + SumFunctionOnSet(u, LatenciesIn(b))

\* Two tallies in one.
LEMMA MergedFacts ==
    ASSUME NEW t \in [Latency -> Nat], NEW u \in [Latency -> Nat],
           NEW w \in [Latency -> Nat], \A v \in Latency : w[v] = t[v] + u[v]
    PROVE  IsMerge(w, t, u)
<1> USE HistogramAssumption
<1>1. w \in [Latency -> Nat] /\ \A x \in Latency : w[x] = t[x] + u[x]
  OBVIOUS
<1>2. ASSUME NEW T \in SUBSET Latency
      PROVE  SumFunctionOnSet(w, T) = SumFunctionOnSet(t, T) + SumFunctionOnSet(u, T)
  <2>1. IsFiniteSet(T)
    BY FS_Subset
  <2>2. \A x \in T : t[x] \in Nat /\ u[x] \in Nat /\ w[x] = t[x] + u[x]
    BY <1>1
  <2> QED
    BY <2>1, <2>2, SumPlus
<1>3. Total(w) = Total(t) + Total(u)
  BY <1>2 DEF Total
<1>4. Weighted(w) = Weighted(t) + Weighted(u)
  <2> DEFINE f == [x \in Latency |-> t[x] * x]
             g == [x \in Latency |-> u[x] * x]
             h == [x \in Latency |-> w[x] * x]
  <2>1. \A x \in Latency : f[x] \in Nat /\ g[x] \in Nat /\ h[x] = f[x] + g[x]
    <3> TAKE x \in Latency
    <3>1. x \in Nat /\ t[x] \in Nat /\ u[x] \in Nat
      OBVIOUS
    <3>2. (t[x] + u[x]) * x = t[x] * x + u[x] * x /\ t[x] * x \in Nat /\ u[x] * x \in Nat
      BY <3>1
    <3> QED
      BY <1>1, <3>2
  <2> HIDE DEF f, g, h
  <2>2. SumFunctionOnSet(h, Latency) = SumFunctionOnSet(f, Latency) + SumFunctionOnSet(g, Latency)
    BY ONLY IsFiniteSet(Latency), <2>1, SumPlus
  <2> QED
    BY <2>2 DEF Weighted, f, g, h
<1>5. Max({0} \cup Seen(w)) = Max({Max({0} \cup Seen(t)), Max({0} \cup Seen(u))})
  <2>1. Seen(w) = Seen(t) \cup Seen(u)
    <3>1. \A x \in Latency : w[x] > 0 <=> t[x] > 0 \/ u[x] > 0
      <4> TAKE x \in Latency
      <4>1. t[x] \in Nat /\ u[x] \in Nat /\ w[x] = t[x] + u[x]
        BY <1>1
      <4> QED
        BY <4>1
    <3> QED
      BY <3>1 DEF Seen
  <2>2. PICK T \in SUBSET Nat, U \in SUBSET Nat :
           /\ T = {0} \cup Seen(t) /\ U = {0} \cup Seen(u) /\ IsFiniteSet(T) /\ IsFiniteSet(U)
           /\ T # {} /\ U # {}
    <3>1. {0} \cup Seen(t) # {} /\ {0} \cup Seen(u) # {}
      OBVIOUS
    <3> QED
      BY <3>1, TallyFacts
  <2>3. Max({Max(T), Max(U)}) = Max(T \cup U)
    BY <2>2, GreatestOfBoth
  <2>4. PICK W : W = T \cup U /\ W = {0} \cup Seen(w)
    BY <2>1, <2>2
  <2>5. Max({0} \cup Seen(w)) = Max(T \cup U)
    BY <2>4
  <2> QED
    BY <2>2, <2>3, <2>5
<1>6. \A b \in Buckets : LatenciesIn(b) \in SUBSET Latency
  BY DEF LatenciesIn
<1> QED
  BY <1>1, <1>2, <1>3, <1>4, <1>5, <1>6 DEF IsMerge

-----------------------------------------------------------------------------
(* The steps.                                                               *)

\* What CreateHistogram makes.
LEMMA CreatedFacts ==
    /\ Created \in HistogramType
    /\ Created.num = 0 /\ Created.sum = 0 /\ Created.max = 0
    /\ \A b \in Buckets : Created.buckets[b] = 0
    /\ Created.buckets \in [Buckets -> Nat]
BY DEF Created, HistogramType

\* The first part of Clear.
LEMMA CountsClearedFacts ==
    ASSUME NEW h \in HistogramType
    PROVE  /\ CountsCleared(h) \in HistogramType
           /\ CountsCleared(h).num = 0 /\ CountsCleared(h).sum = 0 /\ CountsCleared(h).max = 0
           /\ CountsCleared(h).buckets = h.buckets
<1>1. kBucketLimit[kNumBuckets - 1] \in Nat
  BY HistogramAssumption, LimitFacts DEF Buckets
<1> QED
  BY ONLY h \in HistogramType, <1>1 DEF CountsCleared, HistogramType

\* Its second part.
LEMMA BucketsClearedFacts ==
    ASSUME NEW h \in HistogramType
    PROVE  /\ BucketsCleared(h) \in HistogramType
           /\ BucketsCleared(h).num = h.num /\ BucketsCleared(h).sum = h.sum
           /\ BucketsCleared(h).max = h.max
           /\ \A b \in Buckets : BucketsCleared(h).buckets[b] = 0
BY CreatedFacts DEF BucketsCleared, HistogramType

\* The first part of Merge.
LEMMA CountsMergedFacts ==
    ASSUME NEW h \in HistogramType, NEW other \in HistogramType
    PROVE  /\ CountsMerged(h, other) \in HistogramType
           /\ CountsMerged(h, other).num = h.num + other.num
           /\ CountsMerged(h, other).sum = h.sum + other.sum
           /\ CountsMerged(h, other).max = Max({h.max, other.max})
           /\ CountsMerged(h, other).buckets = h.buckets
<1>1. /\ h.min \in Nat /\ h.max \in Nat /\ h.num \in Nat /\ h.sum \in Nat
      /\ other.min \in Nat /\ other.max \in Nat /\ other.num \in Nat /\ other.sum \in Nat
      /\ h.buckets \in [Buckets -> Nat]
      /\ h = [min |-> h.min, max |-> h.max, num |-> h.num, sum |-> h.sum, buckets |-> h.buckets]
  BY DEF HistogramType
<1>2. PICK a \in Nat, b \in Nat : a = Min({h.min, other.min}) /\ b = Max({h.max, other.max})
  BY <1>1, TwoFacts
<1>3. CountsMerged(h, other) =
        [h EXCEPT !.min = a, !.max = b, !.num = @ + other.num, !.sum = @ + other.sum]
  BY <1>2 DEF CountsMerged
<1>4. h.num + other.num \in Nat /\ h.sum + other.sum \in Nat
  BY <1>1
<1>5. CountsMerged(h, other) = [min |-> a, max |-> b, num |-> h.num + other.num,
                                sum |-> h.sum + other.sum, buckets |-> h.buckets]
  BY <1>1, <1>3
<1>6. CountsMerged(h, other) \in HistogramType
  BY <1>1, <1>2, <1>4, <1>5 DEF HistogramType
<1> QED
  BY <1>2, <1>5, <1>6

\* Its second part.
LEMMA BucketsMergedFacts ==
    ASSUME NEW h \in HistogramType, NEW other \in HistogramType
    PROVE  /\ BucketsMerged(h, other) \in HistogramType
           /\ BucketsMerged(h, other).num = h.num /\ BucketsMerged(h, other).sum = h.sum
           /\ BucketsMerged(h, other).max = h.max
           /\ \A b \in Buckets :
                 BucketsMerged(h, other).buckets[b] = h.buckets[b] + other.buckets[b]
BY DEF BucketsMerged, HistogramType

\* A step that leaves a thread's histogram and locals alone.
LEMMA ThreadFrame ==
    ASSUME NEW i \in Hosts, ThreadInv(i),
           hists'[i] = hists[i], tally'[i] = tally[i],
           pc'[i] = pc[i], latency'[i] = latency[i], read'[i] = read[i],
           turn' = i /\ main' = "clearBuckets" <=> turn = i /\ main = "clearBuckets"
    PROVE  ThreadInv(i)'
  BY DEF ThreadInv

\* A step that leaves the report alone.
LEMMA ReportFrame ==
    ASSUME ReportInv, writeHist' = writeHist, merged' = merged,
           main' = "mergeBuckets" <=> main = "mergeBuckets",
           main = "mergeBuckets" =>
              turn' = turn /\ hists'[turn] = hists[turn] /\ pc'[turn] = pc[turn]
    PROVE  ReportInv'
  BY DEF ReportInv

\* The first step of an Add.
LEMMA StartAddInv ==
    ASSUME IInv, NEW i \in Hosts, NEW v \in Latency, StartAdd(i, v)
    PROVE  IInv'
<1> USE DEF IInv
<1>1. /\ pc[i] = "idle" /\ pc' = [pc EXCEPT ![i] = "bucket"]
      /\ latency' = [latency EXCEPT ![i] = v]
      /\ read' = [read EXCEPT ![i] = hists[i].buckets[Bucket(v)]]
      /\ dirty' = (dirty \/ ReportIsAt(i))
      /\ tainted' = [tainted EXCEPT ![i] = @ \/ (turn = i /\ main = "clearBuckets")]
      /\ UNCHANGED <<hists, writeHist, main, turn, tally, merged>>
  BY DEF StartAdd, HostGoes
<1>2. Bucket(v) \in Buckets
  BY BucketFacts
<1>3. hists[i].buckets[Bucket(v)] \in Nat
  BY <1>2 DEF TypeOK, HistogramType
<1>4. TypeOK'
  BY <1>1, <1>3 DEF TypeOK, ReportIsAt
<1>5. ASSUME NEW j \in Hosts, pc'[j] # "idle"
      PROVE  latency'[j] \in Latency
  BY <1>1, <1>5 DEF TypeOK
<1>6. ASSUME NEW j \in Hosts, ~tainted'[j]
      PROVE  ThreadInv(j)'
  <2>1. CASE j # i
    <3>1. ThreadInv(j)
      BY <1>1, <1>6, <2>1 DEF TypeOK
    <3> QED
      BY <1>1, <2>1, <3>1, ThreadFrame DEF TypeOK
  <2>2. CASE j = i
    <3>1. ~tainted[i] /\ ~(turn = i /\ main = "clearBuckets")
      BY <1>1, <1>6, <2>2 DEF TypeOK
    <3>2. IsHistogramOf(hists[i], tally[i])
      BY <1>1, <3>1 DEF ThreadInv
    <3>3. pc'[i] = "bucket" /\ latency'[i] = v /\ read'[i] = hists[i].buckets[Bucket(v)]
      BY <1>1 DEF TypeOK
    <3> QED
      BY <1>1, <2>2, <3>1, <3>2, <3>3 DEF ThreadInv
  <2> QED
    BY <2>1, <2>2
<1>7. ASSUME ~dirty'
      PROVE  ReportInv'
  <2>1. ~dirty /\ ~ReportIsAt(i)
    BY <1>1, <1>7
  <2>2. main = "mergeBuckets" => turn # i
    BY <2>1 DEF ReportIsAt
  <2>3. main = "mergeBuckets" => pc'[turn] = pc[turn]
    BY <1>1, <2>2 DEF TypeOK
  <2> QED
    BY <1>1, <2>1, <2>3, ReportFrame
<1> QED
  BY <1>4, <1>5, <1>6, <1>7

\* The second.
LEMMA AddToBucketInv ==
    ASSUME IInv, NEW i \in Hosts, AddToBucket(i)
    PROVE  IInv'
<1> USE DEF IInv
<1> DEFINE v == latency[i]
           k == Bucket(latency[i])
<1>1. /\ pc[i] = "bucket" /\ pc' = [pc EXCEPT ![i] = "num"]
      /\ hists' = [hists EXCEPT ![i].buckets[k] = read[i] + 1,
                                ![i].min = Min({@, v}), ![i].max = Max({@, v})]
      /\ read' = [read EXCEPT ![i] = hists[i].num]
      /\ UNCHANGED <<writeHist, latency, main, turn, tally, merged, tainted, dirty>>
  BY DEF AddToBucket, HostGoes, pastVars
<1>2. v \in Latency /\ v \in Nat /\ k \in Buckets
  BY <1>1, BucketFacts, HistogramAssumption
<1>3. hists[i] \in HistogramType /\ read[i] \in Nat
  BY DEF TypeOK
<1>4. /\ hists' \in [Hosts -> HistogramType]
      /\ \A j \in Hosts : j # i => hists'[j] = hists[j]
      /\ hists'[i].num = hists[i].num /\ hists'[i].sum = hists[i].sum
      /\ hists'[i].max = Max({hists[i].max, v})
      /\ \A b \in Buckets :
            hists'[i].buckets[b] = IF b = k THEN read[i] + 1 ELSE hists[i].buckets[b]
  <2>1. hists[i].min \in Nat /\ hists[i].max \in Nat
    BY <1>3 DEF HistogramType
  <2>2. PICK a \in Nat, b \in Nat : a = Min({hists[i].min, v}) /\ b = Max({hists[i].max, v})
    BY <1>2, <2>1, TwoFacts
  <2> HIDE DEF v, k
  <2> DEFINE new == [hists[i] EXCEPT !.buckets[k] = read[i] + 1, !.min = a, !.max = b]
  <2>3. hists' = [hists EXCEPT ![i] = new]
    BY <1>1, <1>3, <2>2 DEF HistogramType, TypeOK
  <2>4. /\ new \in HistogramType /\ new.num = hists[i].num /\ new.sum = hists[i].sum /\ new.max = b
        /\ \A c \in Buckets : new.buckets[c] = IF c = k THEN read[i] + 1 ELSE hists[i].buckets[c]
    <3> DEFINE list == [hists[i].buckets EXCEPT ![k] = read[i] + 1]
    <3>1. /\ list \in [Buckets -> Nat] /\ hists[i].num \in Nat /\ hists[i].sum \in Nat
          /\ \A c \in Buckets : list[c] = IF c = k THEN read[i] + 1 ELSE hists[i].buckets[c]
      BY <1>2, <1>3 DEF HistogramType
    <3>2. new = [hists[i] EXCEPT !.buckets = list, !.min = a, !.max = b]
      BY <1>3 DEF HistogramType
    <3> HIDE DEF list
    <3>3. /\ new \in HistogramType /\ new.num = hists[i].num /\ new.sum = hists[i].sum
          /\ new.max = b /\ new.buckets = list
      <4> HIDE DEF new
      <4>1. PICK old \in HistogramType : old = hists[i]
        BY <1>3
      <4>2. new = [old EXCEPT !.buckets = list, !.min = a, !.max = b]
        BY <3>2, <4>1
      <4>3. new \in HistogramType
        BY <3>1, <4>2 DEF HistogramType
      <4>4. new.num = old.num /\ new.sum = old.sum /\ new.max = b /\ new.buckets = list
        BY <4>2 DEF HistogramType
      <4> QED
        BY <4>1, <4>3, <4>4
    <3> HIDE DEF new
    <3> QED
      BY <3>1, <3>3
  <2> HIDE DEF new
  <2> QED
    BY <2>2, <2>3, <2>4 DEF TypeOK
<1> HIDE DEF v, k
<1>5. TypeOK'
  <2>1. hists[i].num \in Nat
    BY <1>3 DEF HistogramType
  <2> QED
    BY <1>1, <1>4, <2>1 DEF TypeOK
<1>6. ASSUME NEW j \in Hosts, pc'[j] # "idle"
      PROVE  latency'[j] \in Latency
  BY <1>1, <1>2, <1>6 DEF TypeOK, v
<1>7. ASSUME NEW j \in Hosts, ~tainted'[j]
      PROVE  ThreadInv(j)'
  <2>1. ThreadInv(j)
    BY <1>1, <1>7
  <2>2. CASE j # i
    BY <1>1, <1>4, <2>1, <2>2, ThreadFrame DEF TypeOK
  <2>3. CASE j = i
    <3>1. ~(turn = i /\ main = "clearBuckets") /\ pc'[i] = "num" /\ read'[i] = hists[i].num
      BY <1>1, <2>1, <2>3 DEF ThreadInv, TypeOK
    <3>2. IsHistogramOf(hists[i], tally[i]) /\ read[i] = hists[i].buckets[k]
      BY <1>1, <2>1, <2>3, <3>1 DEF ThreadInv, k
    <3>3. IsPartOf(hists'[i], tally[i], latency[i])
      <4>1. tally[i] \in [Latency -> Nat]
        BY DEF TypeOK
      <4>2. hists'[i].max = Max({0} \cup Seen(tally[i]) \cup {v})
        <5>1. PICK S \in SUBSET Nat : S = {0} \cup Seen(tally[i]) /\ IsFiniteSet(S) /\ S # {}
          <6>1. {0} \cup Seen(tally[i]) # {}
            OBVIOUS
          <6> QED
            BY <4>1, <6>1, TallyFacts
        <5>2. {v} \in SUBSET Nat /\ IsFiniteSet({v}) /\ {v} # {} /\ Max({v}) = v
          BY <1>2, FS_Singleton, GreatestOfOne
        <5>3. Max({Max(S), Max({v})}) = Max(S \cup {v})
          BY <5>1, <5>2, GreatestOfBoth
        <5>4. hists[i].max = Max(S)
          BY <3>2, <5>1 DEF IsHistogramOf
        <5> QED
          BY <1>4, <5>1, <5>2, <5>3, <5>4
      <4>3. hists'[i].num = Total(tally[i]) /\ hists'[i].sum = Weighted(tally[i])
        BY <1>4, <3>2 DEF IsHistogramOf
      <4>4. ASSUME NEW b \in Buckets
            PROVE  hists'[i].buckets[b]
                      = SumFunctionOnSet(tally[i], LatenciesIn(b)) + (IF b = k THEN 1 ELSE 0)
        <5>1. hists[i].buckets[b] = SumFunctionOnSet(tally[i], LatenciesIn(b))
          BY <3>2 DEF IsHistogramOf
        <5>2. hists[i].buckets[b] \in Nat
          BY <1>3 DEF HistogramType
        <5> QED
          BY <1>4, <3>2, <5>1, <5>2
      <4> QED
        BY <4>2, <4>3, <4>4 DEF IsPartOf, v, k
    <3> QED
      BY <1>1, <1>4, <2>3, <3>1, <3>3 DEF ThreadInv
  <2> QED
    BY <2>2, <2>3
<1>8. ASSUME ~dirty'
      PROVE  ReportInv'
  <2>1. ReportInv /\ (main = "mergeBuckets" => turn # i /\ turn \in Hosts)
    BY <1>1, <1>8 DEF ReportInv, TypeOK
  <2> QED
    BY <1>1, <1>4, <2>1, ReportFrame DEF TypeOK
<1> QED
  BY <1>5, <1>6, <1>7, <1>8

\* The last.
LEMMA AddToNumInv ==
    ASSUME IInv, NEW i \in Hosts, AddToNum(i)
    PROVE  IInv'
<1> USE DEF IInv
<1> DEFINE v == latency[i]
           new == [tally[i] EXCEPT ![v] = @ + 1]
<1>1. /\ pc[i] = "num" /\ pc' = [pc EXCEPT ![i] = "idle"]
      /\ hists' = [hists EXCEPT ![i].num = read[i] + 1, ![i].sum = @ + v]
      /\ latency' = [latency EXCEPT ![i] = 0] /\ read' = [read EXCEPT ![i] = 0]
      /\ tally' = [tally EXCEPT ![i] = new]
      /\ UNCHANGED <<writeHist, main, turn, merged, tainted, dirty>>
  BY DEF AddToNum, HostGoes, TypeOK
<1>2. v \in Latency /\ v \in Nat /\ hists[i] \in HistogramType /\ read[i] \in Nat
  BY <1>1, HistogramAssumption DEF TypeOK
<1>3. /\ hists' \in [Hosts -> HistogramType]
      /\ \A j \in Hosts : j # i => hists'[j] = hists[j]
      /\ hists'[i].num = read[i] + 1 /\ hists'[i].sum = hists[i].sum + v
      /\ hists'[i].max = hists[i].max /\ hists'[i].buckets = hists[i].buckets
  <2> DEFINE h == [hists[i] EXCEPT !.num = read[i] + 1, !.sum = @ + v]
  <2>1. hists' = [hists EXCEPT ![i] = h]
    BY <1>1, <1>2 DEF TypeOK, HistogramType
  <2>2. /\ h \in HistogramType /\ h.num = read[i] + 1 /\ h.sum = hists[i].sum + v
        /\ h.max = hists[i].max /\ h.buckets = hists[i].buckets
    <3>1. PICK n \in Nat, sum \in Nat : n = read[i] + 1 /\ sum = hists[i].sum + v
      BY <1>2 DEF HistogramType
    <3>2. h = [hists[i] EXCEPT !.num = n, !.sum = sum]
      BY <1>2, <3>1 DEF HistogramType
    <3> HIDE DEF h
    <3>3. h \in HistogramType /\ h.num = n /\ h.sum = sum /\ h.max = hists[i].max /\ h.buckets = hists[i].buckets
      <4>1. PICK old \in HistogramType : old = hists[i]
        BY <1>2
      <4>2. h = [old EXCEPT !.num = n, !.sum = sum]
        BY <3>2, <4>1
      <4>3. h \in HistogramType
        BY <4>2 DEF HistogramType
      <4>4. h.num = n /\ h.sum = sum /\ h.max = old.max /\ h.buckets = old.buckets
        BY <4>2 DEF HistogramType
      <4> QED
        BY <4>1, <4>3, <4>4
    <3> QED
      BY <3>1, <3>3
  <2> HIDE DEF h
  <2> QED
    BY <2>1, <2>2 DEF TypeOK
<1>4. tally[i] \in [Latency -> Nat] /\ new \in [Latency -> Nat]
  BY <1>2 DEF TypeOK
<1>5. TypeOK'
  <2> HIDE DEF new, v
  <2> QED
    BY <1>1, <1>3, <1>4 DEF TypeOK
<1>6. ASSUME NEW j \in Hosts, pc'[j] # "idle"
      PROVE  latency'[j] \in Latency
  BY <1>1, <1>6 DEF TypeOK
<1>7. ASSUME NEW j \in Hosts, ~tainted'[j]
      PROVE  ThreadInv(j)'
  <2>1. ThreadInv(j)
    BY <1>1, <1>7
  <2>2. CASE j # i
    BY <1>1, <1>3, <2>1, <2>2, ThreadFrame DEF TypeOK
  <2>3. CASE j = i
    <3>1. ~(turn = i /\ main = "clearBuckets") /\ pc'[i] = "idle" /\ tally'[i] = new
      BY <1>1, <2>1, <2>3 DEF ThreadInv, TypeOK
    <3>2. IsPartOf(hists[i], tally[i], v) /\ read[i] = hists[i].num
      BY <1>1, <2>1, <2>3, <3>1 DEF ThreadInv
    <3>3. IsHistogramOf(hists'[i], new)
      <4>1. /\ Total(new) = Total(tally[i]) + 1 /\ Weighted(new) = Weighted(tally[i]) + v
            /\ Seen(new) = Seen(tally[i]) \cup {v}
            /\ \A b \in Buckets :
                  SumFunctionOnSet(new, LatenciesIn(b))
                     = SumFunctionOnSet(tally[i], LatenciesIn(b)) + (IF b = Bucket(v) THEN 1 ELSE 0)
        BY <1>2, <1>4, AddedFacts
      <4>2. /\ hists[i].num = Total(tally[i]) /\ hists[i].sum = Weighted(tally[i])
            /\ hists[i].max = Max({0} \cup Seen(tally[i]) \cup {v})
            /\ \A b \in Buckets : hists[i].buckets[b]
                  = SumFunctionOnSet(tally[i], LatenciesIn(b)) + (IF b = Bucket(v) THEN 1 ELSE 0)
        BY <3>2 DEF IsPartOf
      <4>3. Max({0} \cup Seen(tally[i]) \cup {v}) = Max({0} \cup Seen(new))
        <5>1. PICK S : S = {0} \cup Seen(tally[i]) \cup {v} /\ S = {0} \cup Seen(new)
          BY <4>1
        <5> QED
          BY <5>1
      <4> HIDE DEF new, v
      <4> QED
        BY <1>3, <3>2, <4>1, <4>2, <4>3 DEF IsHistogramOf
    <3> HIDE DEF new, v
    <3> QED
      BY <2>3, <3>1, <3>3, <1>1 DEF ThreadInv
  <2> QED
    BY <2>2, <2>3
<1>8. ASSUME ~dirty'
      PROVE  ReportInv'
  <2>1. ReportInv /\ (main = "mergeBuckets" => turn # i /\ turn \in Hosts)
    BY <1>1, <1>8 DEF ReportInv, TypeOK
  <2> QED
    BY <1>1, <1>3, <2>1, ReportFrame DEF TypeOK
<1> QED
  BY <1>5, <1>6, <1>7, <1>8

\* A report begins.
LEMMA StartReportInv ==
    ASSUME IInv, StartReport
    PROVE  IInv'
<1> USE DEF IInv
<1>1. /\ main = "idle" /\ main' = "mergeCounts" /\ turn' = 1
      /\ UNCHANGED <<hists, writeHist, pc, latency, read, tally, merged, tainted, dirty>>
  BY DEF StartReport, MainGoes, hostVars, pastVars
<1>2. TypeOK'
  <2>1. 1 \in Hosts
    BY HistogramAssumption DEF Hosts
  <2>2. 1 # 0
    OBVIOUS
  <2> QED
    BY <1>1, <2>1, <2>2 DEF TypeOK
<1>3. ASSUME NEW j \in Hosts, ~tainted'[j]
      PROVE  ThreadInv(j)'
  BY <1>1, <1>3, ThreadFrame
<1>4. ~dirty' => ReportInv'
  BY <1>1, ReportFrame
<1> QED
  BY <1>1, <1>2, <1>3, <1>4

\* The counts of a thread's histogram are merged.
LEMMA MergeCountsInv ==
    ASSUME IInv, MergeCounts
    PROVE  IInv'
<1> USE DEF IInv
<1>1. /\ main = "mergeCounts" /\ main' = "mergeBuckets"
      /\ writeHist' = CountsMerged(writeHist, hists[turn])
      /\ merged' = [v \in Latency |-> merged[v] + tally[turn][v]]
      /\ dirty' = (dirty \/ tainted[turn] \/ pc[turn] # "idle")
      /\ UNCHANGED <<hists, turn, tally, tainted, pc, latency, read>>
  BY DEF MergeCounts, MainGoes, hostVars
<1>2. turn \in Hosts
  BY <1>1 DEF TypeOK
<1>3. /\ writeHist \in HistogramType /\ hists[turn] \in HistogramType
      /\ tally[turn] \in [Latency -> Nat] /\ merged \in [Latency -> Nat]
  BY <1>2 DEF TypeOK
<1>4. /\ writeHist' \in HistogramType
      /\ writeHist'.num = writeHist.num + hists[turn].num
      /\ writeHist'.sum = writeHist.sum + hists[turn].sum
      /\ writeHist'.max = Max({writeHist.max, hists[turn].max})
      /\ writeHist'.buckets = writeHist.buckets
  <2>1. writeHist' = CountsMerged(writeHist, hists[turn])
    BY <1>1
  <2> QED
    BY ONLY <1>3, <2>1, CountsMergedFacts
<1>5. /\ Total(merged') = Total(merged) + Total(tally[turn])
      /\ Weighted(merged') = Weighted(merged) + Weighted(tally[turn])
      /\ Max({0} \cup Seen(merged'))
            = Max({Max({0} \cup Seen(merged)), Max({0} \cup Seen(tally[turn]))})
      /\ \A b \in Buckets :
            SumFunctionOnSet(merged', LatenciesIn(b))
               = SumFunctionOnSet(merged, LatenciesIn(b)) + SumFunctionOnSet(tally[turn], LatenciesIn(b))
  <2>1. PICK t \in [Latency -> Nat], u \in [Latency -> Nat], w \in [Latency -> Nat] :
           /\ t = merged /\ u = tally[turn] /\ w = merged'
           /\ \A v \in Latency : w[v] = t[v] + u[v]
    BY <1>1, <1>3
  <2>2. IsMerge(w, t, u)
    BY ONLY t \in [Latency -> Nat], u \in [Latency -> Nat], w \in [Latency -> Nat], <2>1, MergedFacts
  <2> QED
    BY <2>1, <2>2 DEF IsMerge
<1>6. TypeOK'
  <2>1. merged' \in [Latency -> Nat]
    BY <1>1, <1>3
  <2> QED
    BY <1>1, <1>4, <2>1 DEF TypeOK
<1>7. ASSUME NEW j \in Hosts, ~tainted'[j]
      PROVE  ThreadInv(j)'
  BY <1>1, <1>7, ThreadFrame
<1>8. ASSUME ~dirty'
      PROVE  ReportInv'
  <2>1. ~dirty /\ ~tainted[turn] /\ pc[turn] = "idle"
    BY <1>1, <1>8
  <2>2. ReportInv /\ IsHistogramOf(hists[turn], tally[turn])
    BY <1>1, <1>2, <2>1 DEF ThreadInv
  <2>3. /\ writeHist'.num = Total(merged') /\ writeHist'.sum = Weighted(merged')
        /\ writeHist'.max = Max({0} \cup Seen(merged'))
    BY <1>4, <1>5, <2>2 DEF ReportInv, IsHistogramOf
  <2>4. ASSUME NEW b \in Buckets
        PROVE  writeHist'.buckets[b] + hists[turn].buckets[b] = SumFunctionOnSet(merged', LatenciesIn(b))
    <3>1. writeHist.buckets[b] \in Nat
      BY <1>3 DEF HistogramType
    <3>2. writeHist.buckets[b] = SumFunctionOnSet(merged, LatenciesIn(b))
      BY <1>1, <2>2, <3>1 DEF ReportInv
    <3>3. hists[turn].buckets[b] = SumFunctionOnSet(tally[turn], LatenciesIn(b))
      BY <2>2 DEF IsHistogramOf
    <3> QED
      BY <1>4, <1>5, <3>2, <3>3
  <2> QED
    BY <1>1, <2>1, <2>3, <2>4 DEF ReportInv
<1> QED
  BY <1>1, <1>6, <1>7, <1>8

\* And its buckets.
LEMMA MergeBucketsInv ==
    ASSUME IInv, MergeBuckets
    PROVE  IInv'
<1> USE DEF IInv
<1>1. /\ main = "mergeBuckets" /\ main' = "clearCounts"
      /\ writeHist' = BucketsMerged(writeHist, hists[turn])
      /\ UNCHANGED <<hists, turn, tally, merged, tainted, dirty, pc, latency, read>>
  BY DEF MergeBuckets, MainGoes, hostVars, pastVars
<1>2. turn \in Hosts
  BY <1>1 DEF TypeOK
<1>3. writeHist \in HistogramType /\ hists[turn] \in HistogramType
  BY <1>2 DEF TypeOK
<1>4. /\ writeHist' \in HistogramType
      /\ writeHist'.num = writeHist.num /\ writeHist'.sum = writeHist.sum
      /\ writeHist'.max = writeHist.max
      /\ \A b \in Buckets : writeHist'.buckets[b] = writeHist.buckets[b] + hists[turn].buckets[b]
  <2>1. writeHist' = BucketsMerged(writeHist, hists[turn])
    BY <1>1
  <2> QED
    BY ONLY <1>3, <2>1, BucketsMergedFacts
<1>5. TypeOK'
  BY <1>1, <1>4 DEF TypeOK
<1>6. ASSUME NEW j \in Hosts, ~tainted'[j]
      PROVE  ThreadInv(j)'
  BY <1>1, <1>6, ThreadFrame
<1>7. ASSUME ~dirty'
      PROVE  ReportInv'
  <2>1. ReportInv
    BY <1>1, <1>7
  <2>2. ASSUME NEW b \in Buckets
        PROVE  writeHist'.buckets[b] + 0 = SumFunctionOnSet(merged, LatenciesIn(b))
    <3>1. writeHist.buckets[b] \in Nat /\ hists[turn].buckets[b] \in Nat
      BY <1>3 DEF HistogramType
    <3> QED
      BY <1>1, <1>4, <2>1, <3>1 DEF ReportInv
  <2> QED
    BY <1>1, <1>4, <2>1, <2>2 DEF ReportInv
<1> QED
  BY <1>1, <1>5, <1>6, <1>7

\* The counts of the thread's histogram are cleared.
LEMMA ClearCountsInv ==
    ASSUME IInv, ClearCounts
    PROVE  IInv'
<1> USE DEF IInv
<1>1. /\ main = "clearCounts" /\ main' = "clearBuckets"
      /\ hists' = [hists EXCEPT ![turn] = CountsCleared(hists[turn])]
      /\ tainted' = [tainted EXCEPT ![turn] = pc[turn] # "idle"]
      /\ UNCHANGED <<writeHist, turn, tally, merged, dirty, pc, latency, read>>
  BY DEF ClearCounts, MainGoes, hostVars
<1>2. turn \in Hosts
  BY <1>1 DEF TypeOK
<1>3. hists[turn] \in HistogramType
  BY <1>2 DEF TypeOK
<1>4. /\ CountsCleared(hists[turn]) \in HistogramType
      /\ CountsCleared(hists[turn]).num = 0 /\ CountsCleared(hists[turn]).sum = 0
      /\ CountsCleared(hists[turn]).max = 0
  BY ONLY <1>3, CountsClearedFacts
<1>5. TypeOK'
  BY <1>1, <1>4 DEF TypeOK
<1>6. ASSUME NEW j \in Hosts, ~tainted'[j]
      PROVE  ThreadInv(j)'
  <2>1. CASE j # turn
    <3>1. ThreadInv(j) /\ hists'[j] = hists[j]
      BY <1>1, <1>6, <2>1 DEF TypeOK
    <3> QED
      BY <1>1, <2>1, <3>1, ThreadFrame
  <2>2. CASE j = turn
    <3>1. hists'[j] = CountsCleared(hists[turn]) /\ pc[j] = "idle"
      BY <1>1, <1>2, <1>6, <2>2 DEF TypeOK
    <3> QED
      BY <1>1, <1>4, <2>2, <3>1 DEF ThreadInv
  <2> QED
    BY <2>1, <2>2
<1>7. ~dirty' => ReportInv'
  BY <1>1, ReportFrame
<1> QED
  BY <1>1, <1>5, <1>6, <1>7

\* And its buckets.
LEMMA ClearBucketsInv ==
    ASSUME IInv, ClearBuckets
    PROVE  IInv'
<1> USE DEF IInv
<1>1. /\ main = "clearBuckets"
      /\ main' = IF turn < hostConcurrency THEN "mergeCounts" ELSE "print"
      /\ hists' = [hists EXCEPT ![turn] = BucketsCleared(hists[turn])]
      /\ turn' = IF turn < hostConcurrency THEN turn + 1 ELSE 0
      /\ tainted' = [tainted EXCEPT ![turn] = tainted[turn] \/ pc[turn] # "idle"]
      /\ tally' = [tally EXCEPT ![turn] = NoTally]
      /\ UNCHANGED <<writeHist, merged, dirty, pc, latency, read>>
  BY DEF ClearBuckets, MainGoes, NextHost, hostVars
<1>2. turn \in Hosts
  BY <1>1 DEF TypeOK
<1>3. hists[turn] \in HistogramType
  BY <1>2 DEF TypeOK
<1>4. /\ BucketsCleared(hists[turn]) \in HistogramType
      /\ BucketsCleared(hists[turn]).num = hists[turn].num
      /\ BucketsCleared(hists[turn]).sum = hists[turn].sum
      /\ BucketsCleared(hists[turn]).max = hists[turn].max
      /\ \A b \in Buckets : BucketsCleared(hists[turn]).buckets[b] = 0
  BY ONLY <1>3, BucketsClearedFacts
<1>5. TypeOK'
  <2>1. turn' \in {0} \cup Hosts /\ (main' \in {"idle", "print"} <=> turn' = 0)
    BY <1>1, <1>2, HistogramAssumption DEF Hosts
  <2>2. tally' \in [Hosts -> [Latency -> Nat]]
    BY <1>1, <1>2, NoTallyFacts DEF TypeOK
  <2>3. main' \in {"mergeCounts", "print"}
    BY <1>1
  <2> QED
    BY <1>1, <1>4, <2>1, <2>2, <2>3 DEF TypeOK
<1>6. ASSUME NEW j \in Hosts, ~tainted'[j]
      PROVE  ThreadInv(j)'
  <2>1. main' # "clearBuckets"
    BY <1>1
  <2>2. CASE j # turn
    <3>1. ThreadInv(j) /\ hists'[j] = hists[j] /\ tally'[j] = tally[j]
      BY <1>1, <1>6, <2>2 DEF TypeOK
    <3> QED
      BY <1>1, <2>1, <2>2, <3>1, ThreadFrame
  <2>3. CASE j = turn
    <3>1. /\ hists'[j] = BucketsCleared(hists[turn]) /\ tally'[j] = NoTally
          /\ ~tainted[turn] /\ pc[j] = "idle"
      BY <1>1, <1>2, <1>6, <2>3 DEF TypeOK
    <3>2. hists[turn].num = 0 /\ hists[turn].sum = 0 /\ hists[turn].max = 0
      BY <1>1, <1>2, <3>1 DEF ThreadInv
    <3>3. IsHistogramOf(hists'[j], NoTally)
      BY <1>4, <3>1, <3>2, NoTallyFacts DEF IsHistogramOf
    <3> QED
      BY <1>1, <2>1, <3>1, <3>3 DEF ThreadInv
  <2> QED
    BY <2>2, <2>3
<1>7. ~dirty' => ReportInv'
  BY <1>1, ReportFrame
<1> QED
  BY <1>1, <1>5, <1>6, <1>7

\* The report is printed and the next one starts from nothing.
LEMMA PrintTextInv ==
    ASSUME IInv, PrintText
    PROVE  IInv'
<1> USE DEF IInv
<1>1. /\ main = "print" /\ main' = "idle"
      /\ writeHist' = BucketsCleared(CountsCleared(writeHist))
      /\ merged' = NoTally /\ dirty' = FALSE
      /\ UNCHANGED <<hists, turn, tally, tainted, pc, latency, read>>
  BY DEF PrintText, MainGoes, hostVars
<1>2. writeHist \in HistogramType
  BY DEF TypeOK
<1>3. PICK h \in HistogramType :
         h = CountsCleared(writeHist) /\ h.num = 0 /\ h.sum = 0 /\ h.max = 0
  BY ONLY <1>2, CountsClearedFacts
<1>4. /\ writeHist' \in HistogramType
      /\ writeHist'.num = 0 /\ writeHist'.sum = 0 /\ writeHist'.max = 0
      /\ \A b \in Buckets : writeHist'.buckets[b] = 0
  <2>1. writeHist' = BucketsCleared(h)
    BY <1>1, <1>3
  <2> QED
    BY ONLY h \in HistogramType, <1>3, <2>1, BucketsClearedFacts
<1>5. TypeOK'
  BY <1>1, <1>4, NoTallyFacts DEF TypeOK
<1>6. ASSUME NEW j \in Hosts, ~tainted'[j]
      PROVE  ThreadInv(j)'
  BY <1>1, <1>6, ThreadFrame
<1>7. ReportInv'
  BY <1>1, <1>4, NoTallyFacts DEF ReportInv
<1> QED
  BY <1>1, <1>5, <1>6, <1>7

-----------------------------------------------------------------------------
(* What holds of every run.                                                 *)

\* All histograms are created empty.
LEMMA InitInv == Init => IInv
<1>1. SUFFICES ASSUME Init
               PROVE  IInv
  OBVIOUS
<1>2. /\ Created \in HistogramType /\ Created.num = 0 /\ Created.sum = 0 /\ Created.max = 0
      /\ \A b \in Buckets : Created.buckets[b] = 0
  BY ONLY CreatedFacts
<1>3. TypeOK
  BY <1>1, <1>2, NoTallyFacts DEF Init, TypeOK
<1>4. IsHistogramOf(Created, NoTally)
  BY <1>2, NoTallyFacts DEF IsHistogramOf
<1>5. ASSUME NEW i \in Hosts
      PROVE  pc[i] = "idle" /\ ThreadInv(i)
  BY <1>1, <1>4 DEF Init, ThreadInv
<1>6. ReportInv
  BY <1>1, <1>2, <1>4 DEF Init, ReportInv, IsHistogramOf
<1> QED
  BY <1>3, <1>5, <1>6 DEF IInv

\* Every step keeps the invariant.
LEMMA StepInv == IInv /\ [Next]_vars => IInv'
<1>1. SUFFICES ASSUME IInv, [Next]_vars
               PROVE  IInv'
  OBVIOUS
<1>2. CASE UNCHANGED vars
  BY <1>1, <1>2 DEF IInv, TypeOK, ThreadInv, ReportInv, vars, hostVars, pastVars
<1>3. ASSUME NEW i \in Hosts, \/ \E v \in Latency : StartAdd(i, v)
                              \/ AddToBucket(i) \/ AddToNum(i)
      PROVE  IInv'
  BY <1>1, <1>3, StartAddInv, AddToBucketInv, AddToNumInv
<1>4. CASE Report
  BY <1>1, <1>4, StartReportInv, MergeCountsInv, MergeBucketsInv, ClearCountsInv,
     ClearBucketsInv, PrintTextInv DEF Report
<1> QED
  BY <1>1, <1>2, <1>3, <1>4 DEF Next

\* Every step keeps the invariant.
LEMMA IInvAlways == Spec => []IInv
  BY InitInv, StepInv, PTL DEF Spec

\* Type correctness, for any number of threads, latencies and buckets.
THEOREM TypeCorrect == Spec => []TypeOK
<1>1. IInv => TypeOK
  BY DEF IInv
<1> QED
  BY <1>1, IInvAlways, PTL

\* What a report means: without a lock, the threads' histograms and the reports are
\* exact, but for the Adds that a clear or a merge has met (histogram.c).
THEOREM ReportsCorrect == Spec => []ReportsAreExact
<1>1. ASSUME IInv
      PROVE  ReportsAreExact
  <2>1. ThreadsAreExact
    BY <1>1 DEF IInv, ThreadsAreExact, ThreadInv
  <2>2. ASSUME main = "print", ~dirty
        PROVE  IsHistogramOf(writeHist, merged)
    <3>1. ReportInv /\ writeHist \in HistogramType
      BY <1>1, <2>2 DEF IInv, TypeOK
    <3>2. \A b \in Buckets : writeHist.buckets[b] \in Nat
      BY <3>1 DEF HistogramType
    <3> QED
      BY <2>2, <3>1, <3>2 DEF ReportInv, IsHistogramOf
  <2> QED
    BY <2>1, <2>2 DEF ReportsAreExact
<1> QED
  BY <1>1, IInvAlways, PTL

\* Percentile finds the bucket of the median, for any table and any latencies below
\* its last entry (Percentile, histogram.c).
THEOREM MedianCorrect == Spec => []MedianParts
<1>1. ASSUME IInv
      PROVE  MedianParts
  <2>1. SUFFICES ASSUME main = "print", ~dirty, writeHist.num > 0
                 PROVE  LET b == MedianBucket(writeHist)
                            below(c) == SumFunctionOnSet(merged, LatenciesBelow(c))
                        IN  /\ 2 * below(b) >= writeHist.num
                            /\ b > 0 => 2 * below(b - 1) < writeHist.num
    BY DEF MedianParts
  <2> DEFINE n == writeHist.num
             S == {b \in Buckets : b = kNumBuckets - 1 \/ 2 * CountUpTo(writeHist, b) >= n}
             k == MedianBucket(writeHist)
             below(c) == SumFunctionOnSet(merged, LatenciesBelow(c))
  <2>2. /\ writeHist \in HistogramType /\ merged \in [Latency -> Nat] /\ n \in Nat
        /\ n = Total(merged)
        /\ \A b \in Buckets : writeHist.buckets[b] = SumFunctionOnSet(merged, LatenciesIn(b))
    <3>1. ReportInv /\ writeHist \in HistogramType /\ merged \in [Latency -> Nat]
      BY <1>1, <2>1 DEF IInv, TypeOK
    <3>2. n \in Nat /\ \A b \in Buckets : writeHist.buckets[b] \in Nat
      BY <3>1 DEF HistogramType
    <3> QED
      BY <2>1, <3>1, <3>2 DEF ReportInv
  <2>3. \A b \in Nat : b < limitCnt => CountUpTo(writeHist, b) = below(b) /\ below(b) \in Nat
    <3> TAKE b \in Nat
    <3> HAVE b < limitCnt
    <3>1. CountUpTo(writeHist, b) = below(b)
      BY <2>2, CountsBelow
    <3>2. LatenciesBelow(b) \in SUBSET Latency
      BY DEF LatenciesBelow
    <3>3. below(b) \in Nat
      BY <2>2, <3>2, HistogramAssumption, SumFacts
    <3> QED
      BY <3>1, <3>3
  <2>4. limitCnt - 1 \in Nat /\ limitCnt - 1 < limitCnt /\ limitCnt - 1 \in Buckets /\ limitCnt \in Nat
    BY HistogramAssumption, LimitFacts
  <2>5. below(limitCnt - 1) = n
    <3>1. LatenciesBelow(limitCnt - 1) = Latency
      BY HistogramAssumption, LimitFacts DEF LatenciesBelow
    <3> QED
      BY <2>2, <3>1 DEF Total
  <2>6. limitCnt - 1 \in S /\ S \in SUBSET Nat
    BY <2>2, <2>3, <2>4, <2>5 DEF Buckets
  <2>7. k \in S /\ k \in Nat /\ k < limitCnt /\ \A b \in S : k <= b
    <3>1. k = Min(S)
      BY DEF MedianBucket
    <3> HIDE DEF S, k
    <3>2. k \in S /\ \A b \in S : k <= b
      BY <2>6, <3>1, LeastOf
    <3> QED
      BY <2>4, <2>6, <3>2
  <2>8. 2 * below(k) >= n
    <3>1. CASE 2 * CountUpTo(writeHist, k) >= n
      BY <2>3, <2>7, <3>1
    <3>2. CASE k = kNumBuckets - 1
      <4>1. k = limitCnt - 1
        BY <2>4, <2>7, <3>2, HistogramAssumption
      <4> QED
        BY <2>2, <2>5, <4>1
    <3> QED
      BY <2>7, <3>1, <3>2
  <2>9. ASSUME k > 0
        PROVE  2 * below(k - 1) < n
    <3>1. k - 1 \in Buckets /\ k - 1 \in Nat /\ k - 1 < limitCnt /\ k - 1 \notin S
      <4>1. k \in Buckets
        BY <2>7
      <4> HIDE DEF k, S
      <4>2. k - 1 \in Nat /\ k - 1 < limitCnt /\ ~(k <= k - 1)
        BY <2>4, <2>7, <2>9
      <4> QED
        BY <2>7, <4>1, <4>2, HistogramAssumption DEF Buckets
    <3>2. CountUpTo(writeHist, k - 1) = below(k - 1) /\ below(k - 1) \in Nat
      BY <2>3, <3>1
    <3> QED
      BY <2>2, <3>1, <3>2
  <2> QED
    BY <2>8, <2>9
<1> QED
  BY <1>1, IInvAlways, PTL
=============================================================================
