--------------------------- MODULE GCModuleProofs ---------------------------
(***************************************************************************)
(* Theorems about GCModule, for every geometry and every water level.       *)
(***************************************************************************)
EXTENDS GCRequests, Configuration, FoldLemmas, FunctionTheorems

-----------------------------------------------------------------------------
(* The list operators.                                                      *)

\* Position finds an element of the list.
LEMMA PositionFacts ==
    ASSUME NEW S, NEW s \in Seq(S), NEW x \in ToSet(s)
    PROVE  Position(s, x) \in 1 .. Len(s) /\ s[Position(s, x)] = x
BY DEF Position, ToSet

\* Unlinking an element moves those behind it up.
LEMMA UnlinkElements ==
    ASSUME NEW S, NEW s \in Seq(S), NEW x \in ToSet(s)
    PROVE  /\ Unlink(s, x) \in Seq(S)
           /\ Len(Unlink(s, x)) = Len(s) - 1
           /\ \A i \in 1 .. Len(s) - 1 :
                 Unlink(s, x)[i] = IF i < Position(s, x) THEN s[i] ELSE s[i + 1]
<1> DEFINE p == Position(s, x)
<1>1. p \in 1 .. Len(s)
  BY PositionFacts
<1>2. /\ SubSeq(s, 1, p - 1) \in Seq(S)
      /\ Len(SubSeq(s, 1, p - 1)) = p - 1
      /\ \A i \in 1 .. p - 1 : SubSeq(s, 1, p - 1)[i] = s[i]
  BY <1>1
<1>3. /\ SubSeq(s, p + 1, Len(s)) \in Seq(S)
      /\ Len(SubSeq(s, p + 1, Len(s))) = Len(s) - p
      /\ \A i \in 1 .. Len(s) - p : SubSeq(s, p + 1, Len(s))[i] = s[p + i]
  BY <1>1
<1> DEFINE u == SubSeq(s, 1, p - 1)
           v == SubSeq(s, p + 1, Len(s))
<1>4. Unlink(s, x) = u \o v
  BY DEF Unlink, RemoveAt
<1>u. u \in Seq(S) /\ Len(u) = p - 1 /\ \A i \in 1 .. p - 1 : u[i] = s[i]
  BY <1>2
<1>v. v \in Seq(S) /\ Len(v) = Len(s) - p /\ \A i \in 1 .. Len(s) - p : v[i] = s[p + i]
  BY <1>3
<1> HIDE DEF p, u, v
<1>5. u \o v \in Seq(S) /\ Len(u \o v) = Len(s) - 1
  BY <1>1, <1>u, <1>v
<1>6. \A i \in 1 .. Len(s) - 1 : (u \o v)[i] = IF i < p THEN s[i] ELSE s[i + 1]
  <2> SUFFICES ASSUME NEW i \in 1 .. Len(s) - 1
               PROVE  (u \o v)[i] = IF i < p THEN s[i] ELSE s[i + 1]
    OBVIOUS
  <2>1. (u \o v)[i] = IF i <= Len(u) THEN u[i] ELSE v[i - Len(u)]
    BY <1>1, <1>u, <1>v
  <2>2. CASE i < p
    BY <2>1, <2>2, <1>1, <1>u
  <2>3. CASE ~(i < p)
    <3>1. i - (p - 1) \in 1 .. Len(s) - p
      BY <2>3, <1>1
    <3>2. v[i - (p - 1)] = s[i + 1]
      BY <3>1, <1>v, <1>1
    <3> QED
      BY <2>1, <2>3, <3>2, <1>1, <1>u
  <2> QED
    BY <2>2, <2>3
<1> QED
  BY <1>4, <1>5, <1>6 DEF p

\* A list without repetitions loses the element and nothing else.
LEMMA UnlinkFacts ==
    ASSUME NEW S, NEW s \in Seq(S), IsInjective(s), NEW x \in ToSet(s)
    PROVE  /\ Unlink(s, x) \in Seq(S) /\ Len(Unlink(s, x)) = Len(s) - 1
           /\ IsInjective(Unlink(s, x))
           /\ ToSet(Unlink(s, x)) = ToSet(s) \ {x}
           /\ x = s[1] => \A i \in 1 .. Len(s) - 1 : Unlink(s, x)[i] = s[i + 1]
<1> DEFINE u == Unlink(s, x)
           p == Position(s, x)
<1>1. p \in 1 .. Len(s) /\ s[p] = x
  BY PositionFacts
<1>2. /\ u \in Seq(S) /\ Len(u) = Len(s) - 1
      /\ \A i \in 1 .. Len(s) - 1 : u[i] = IF i < p THEN s[i] ELSE s[i + 1]
  BY UnlinkElements
<1>3. \A i, j \in 1 .. Len(s) : s[i] = s[j] => i = j
  BY DEF IsInjective
<1> HIDE DEF u, p
<1>4. IsInjective(u)
  <2>1. ASSUME NEW i \in 1 .. Len(s) - 1
        PROVE  \E k \in 1 .. Len(s) : u[i] = s[k] /\ k = IF i < p THEN i ELSE i + 1
    <3>1. CASE i < p
      BY <1>1, <1>2, <3>1
    <3>2. CASE ~(i < p)
      <4>1. i + 1 \in 1 .. Len(s)
        BY <1>1
      <4> QED
        BY <1>1, <1>2, <3>2, <4>1
    <3> QED
      BY <3>1, <3>2
  <2>2. ASSUME NEW i \in 1 .. Len(s) - 1, NEW j \in 1 .. Len(s) - 1, u[i] = u[j]
        PROVE  i = j
    <3>1. PICK k \in 1 .. Len(s) : u[i] = s[k] /\ k = IF i < p THEN i ELSE i + 1
      BY <2>1
    <3>2. PICK l \in 1 .. Len(s) : u[j] = s[l] /\ l = IF j < p THEN j ELSE j + 1
      BY <2>1
    <3>3. k = l
      BY <1>3, <2>2, <3>1, <3>2
    <3> QED
      BY <1>1, <1>1, <3>1, <3>2, <3>3
  <2>3. DOMAIN u = 1 .. Len(s) - 1
    BY <1>2
  <2> QED
    BY ONLY <2>2, <2>3 DEF IsInjective
<1>5. ToSet(u) \subseteq ToSet(s) \ {x}
  BY <1>1, <1>2, <1>3 DEF ToSet
<1>6. ASSUME NEW y \in ToSet(s) \ {x} PROVE y \in ToSet(u)
  <2>1. PICK i \in 1 .. Len(s) : s[i] = y
    BY DEF ToSet
  <2>2. CASE i < p
    <3>1. i \in 1 .. Len(s) - 1 /\ u[i] = y
      BY <2>1, <2>2, <1>1, <1>2
    <3> QED BY <3>1, <1>2 DEF ToSet
  <2>3. CASE i > p
    <3>1. i - 1 \in 1 .. Len(s) - 1 /\ u[i - 1] = y
      BY <2>1, <2>3, <1>1, <1>2
    <3> QED BY <3>1, <1>2 DEF ToSet
  <2> QED
    BY <2>1, <2>2, <2>3, <1>1
<1>7. ASSUME x = s[1] PROVE \A i \in 1 .. Len(s) - 1 : u[i] = s[i + 1]
  <2>1. p = 1
    BY <1>7, <1>1, <1>3
  <2> QED BY <2>1, <1>2
<1> QED
  BY <1>2, <1>4, <1>5, <1>6, <1>7 DEF u

\* What list_add_tail adds is at the end.
LEMMA AppendFacts ==
    ASSUME NEW S, NEW s \in Seq(S), IsInjective(s), NEW x \in S, x \notin ToSet(s)
    PROVE  /\ Append(s, x) \in Seq(S) /\ Len(Append(s, x)) = Len(s) + 1
           /\ IsInjective(Append(s, x))
           /\ ToSet(Append(s, x)) = ToSet(s) \cup {x}
           /\ \A i \in 1 .. Len(s) : Append(s, x)[i] = s[i]
<1> DEFINE a == Append(s, x)
<1>1. /\ a \in Seq(S) /\ Len(a) = Len(s) + 1 /\ a[Len(s) + 1] = x
      /\ \A i \in 1 .. Len(s) : a[i] = s[i]
  OBVIOUS
<1> HIDE DEF a
<1>2. IsInjective(a)
  BY <1>1 DEF IsInjective, ToSet
<1>3. ToSet(a) = ToSet(s) \cup {x}
  BY <1>1 DEF ToSet
<1> QED
  BY <1>1, <1>2, <1>3 DEF a

\* What list_add adds is at the head.
LEMMA ConsFacts ==
    ASSUME NEW S, NEW s \in Seq(S), IsInjective(s), NEW x \in S, x \notin ToSet(s)
    PROVE  /\ Cons(x, s) \in Seq(S) /\ IsInjective(Cons(x, s))
           /\ ToSet(Cons(x, s)) = ToSet(s) \cup {x}
<1> DEFINE a == Cons(x, s)
<1>1. /\ a \in Seq(S) /\ Len(a) = Len(s) + 1 /\ a[1] = x
      /\ \A i \in 1 .. Len(s) : a[i + 1] = s[i]
  BY DEF Cons
<1> HIDE DEF a
<1>2. \A i \in 2 .. Len(a) : i - 1 \in 1 .. Len(s) /\ a[i] = s[i - 1]
  BY <1>1
<1>3. IsInjective(a)
  <2>1. \A i, j \in 1 .. Len(s) : s[i] = s[j] => i = j
    BY DEF IsInjective
  <2>2. \A i \in 1 .. Len(s) : s[i] # x
    BY DEF ToSet
  <2> SUFFICES ASSUME NEW i \in 1 .. Len(a), NEW j \in 1 .. Len(a), a[i] = a[j]
               PROVE  i = j
    BY <1>1 DEF IsInjective
  <2>3. CASE i = 1 \/ j = 1
    <3>1. \A k \in 2 .. Len(a) : a[k] # x
      BY <2>2, <1>2
    <3> QED BY <2>3, <3>1, <1>1
  <2>4. CASE i # 1 /\ j # 1
    <3>1. /\ i - 1 \in 1 .. Len(s) /\ a[i] = s[i - 1]
          /\ j - 1 \in 1 .. Len(s) /\ a[j] = s[j - 1]
      BY <2>4, <1>1, <1>2
    <3>2. i - 1 = j - 1
      BY <3>1, <2>1
    <3> QED BY <3>2
  <2> QED BY <2>3, <2>4
<1>4. ToSet(a) \subseteq ToSet(s) \cup {x}
  BY <1>1, <1>2 DEF ToSet
<1>5. ToSet(s) \cup {x} \subseteq ToSet(a)
  <2>1. ASSUME NEW i \in 1 .. Len(s) PROVE s[i] \in ToSet(a)
    BY <1>1 DEF ToSet
  <2>2. x \in ToSet(a)
    BY <1>1 DEF ToSet
  <2> QED BY <2>1, <2>2 DEF ToSet
<1> QED
  BY <1>1, <1>3, <1>4, <1>5 DEF a

\* The last element leaves a list without repetitions.
LEMMA FrontFacts ==
    ASSUME NEW S, NEW s \in Seq(S), IsInjective(s), s # <<>>
    PROVE  /\ Last(s) \in ToSet(s) /\ Last(s) \in S
           /\ Front(s) \in Seq(S) /\ IsInjective(Front(s))
           /\ ToSet(Front(s)) = ToSet(s) \ {Last(s)}
<1> DEFINE f == Front(s)
<1>1. Len(s) \in Nat \ {0}
  OBVIOUS
<1>2. /\ f \in Seq(S) /\ Len(f) = Len(s) - 1
      /\ \A i \in 1 .. Len(s) - 1 : f[i] = s[i]
  <2>1. ASSUME NEW n \in 0 .. Len(s)
        PROVE  /\ SubSeq(s, 1, n) \in Seq(S) /\ Len(SubSeq(s, 1, n)) = n
               /\ \A i \in 1 .. n : SubSeq(s, 1, n)[i] = s[i]
    OBVIOUS
  <2>2. Len(s) - 1 \in 0 .. Len(s)
    BY <1>1
  <2> QED
    BY <2>1, <2>2 DEF Front
<1>3. \A i, j \in 1 .. Len(s) : s[i] = s[j] => i = j
  BY DEF IsInjective
<1>4. Last(s) = s[Len(s)] /\ Last(s) \in ToSet(s) /\ Last(s) \in S
  BY <1>1 DEF Last, ToSet
<1> HIDE DEF f
<1>5. IsInjective(f)
  BY <1>1, <1>2, <1>3 DEF IsInjective
<1>6. ToSet(f) = ToSet(s) \ {Last(s)}
  BY <1>1, <1>2, <1>3, <1>4 DEF ToSet
<1> QED
  BY <1>2, <1>4, <1>5, <1>6 DEF f

-----------------------------------------------------------------------------
(* The garbage level.                                                       *)

\* The bucket of a garbage count is one of the buckets.
LEMMA BucketIdxType ==
    ASSUME NEW n \in Nat
    PROVE  GetCurBucketIdx(n) \in Buckets
<1> DEFINE B == GC_BUCKET_NUM - 1
           q == PAGE_NUM_PER_BLOCK \div B
           w == n \div q
<1>1. B \in Nat \ {0}
  BY GeometryAssumption
<1>2. q \in Nat \ {0}
  BY GeometryAssumption
<1> HIDE DEF q
<1>3. w \in Nat
  BY <1>2
<1> QED
  BY <1>1, <1>3, GeometryAssumption DEF GetCurBucketIdx, Buckets, q

-----------------------------------------------------------------------------
(* The garbage buckets: what holds of them whenever no operation is under   *)
(* way, and what each operation does.                                       *)

GarbageOK(g) ==
    /\ g.status \in [Blocks -> {"FREE", "WRITING", "FULL"}]
    /\ g.wl \in [Blocks -> Buckets]
    /\ g.list \in [Buckets -> Seq(Blocks)]
    /\ g.cnt \in [Buckets -> Int]
    /\ \A k \in Buckets :
          /\ g.cnt[k] = Len(g.list[k])
          /\ IsInjective(g.list[k])
          /\ ToSet(g.list[k]) = {b \in Blocks : g.status[b] = "FULL" /\ g.wl[b] = k}

\* The blocks in front of a list stay there.
KeepsFront(s, t) ==
    Len(t) >= Len(s) /\ \A i \in 1 .. Len(s) : t[i] = s[i]

\* A block that is inserted is FULL and in the bucket of its garbage.
LEMMA InsertFacts ==
    ASSUME NEW g, GarbageOK(g), NEW b \in Blocks, g.status[b] # "FULL", NEW n \in Nat
    PROVE  LET h == Insert2GarbageBuckets(g, b, n) IN
           /\ GarbageOK(h)
           /\ h.status = [g.status EXCEPT ![b] = "FULL"]
           /\ h.wl = [g.wl EXCEPT ![b] = GetCurBucketIdx(n)]
           /\ \A k \in Buckets : KeepsFront(g.list[k], h.list[k])
<1> DEFINE wl == GetCurBucketIdx(n)
           h == Insert2GarbageBuckets(g, b, n)
<1>1. wl \in Buckets
  BY BucketIdxType
<1>2. /\ h.status = [g.status EXCEPT ![b] = "FULL"]
      /\ h.wl = [g.wl EXCEPT ![b] = wl]
      /\ h.list = [g.list EXCEPT ![wl] = Append(@, b)]
      /\ h.cnt = [g.cnt EXCEPT ![wl] = @ + 1]
  BY DEF Insert2GarbageBuckets
<1> HIDE DEF wl, h
<1>3. /\ h.status \in [Blocks -> {"FREE", "WRITING", "FULL"}]
      /\ h.wl \in [Blocks -> Buckets]
      /\ h.list \in [Buckets -> Seq(Blocks)]
      /\ h.cnt \in [Buckets -> Int]
  BY <1>1, <1>2 DEF GarbageOK
<1>4. ASSUME NEW k \in Buckets
      PROVE  /\ h.cnt[k] = Len(h.list[k])
             /\ IsInjective(h.list[k])
             /\ ToSet(h.list[k]) = {c \in Blocks : h.status[c] = "FULL" /\ h.wl[c] = k}
             /\ KeepsFront(g.list[k], h.list[k])
  <2>1. /\ g.list[k] \in Seq(Blocks) /\ IsInjective(g.list[k]) /\ g.cnt[k] = Len(g.list[k])
        /\ ToSet(g.list[k]) = {c \in Blocks : g.status[c] = "FULL" /\ g.wl[c] = k}
    BY DEF GarbageOK
  <2>2. CASE k = wl
    <3>1. b \notin ToSet(g.list[k])
      BY <2>1
    <3>2. h.list[k] = Append(g.list[k], b) /\ h.cnt[k] = g.cnt[k] + 1
      BY <2>2, <1>1, <1>2 DEF GarbageOK
    <3>3. /\ Len(h.list[k]) = Len(g.list[k]) + 1 /\ IsInjective(h.list[k])
          /\ ToSet(h.list[k]) = ToSet(g.list[k]) \cup {b}
          /\ \A i \in 1 .. Len(g.list[k]) : h.list[k][i] = g.list[k][i]
      BY <2>1, <3>1, <3>2, AppendFacts
    <3>4. ToSet(h.list[k]) = {c \in Blocks : h.status[c] = "FULL" /\ h.wl[c] = k}
      BY <2>1, <2>2, <3>3, <1>1, <1>2 DEF GarbageOK
    <3> QED
      BY <2>1, <3>2, <3>3, <3>4 DEF KeepsFront
  <2>3. CASE k # wl
    <3>1. h.list[k] = g.list[k] /\ h.cnt[k] = g.cnt[k]
      BY <2>3, <1>1, <1>2 DEF GarbageOK
    <3>2. {c \in Blocks : h.status[c] = "FULL" /\ h.wl[c] = k}
            = {c \in Blocks : g.status[c] = "FULL" /\ g.wl[c] = k}
      BY <2>3, <1>1, <1>2 DEF GarbageOK
    <3> QED
      BY <2>1, <3>1, <3>2 DEF KeepsFront
  <2> QED
    BY <2>2, <2>3
<1> QED
  BY <1>2, <1>3, <1>4 DEF GarbageOK, wl, h

\* A FULL block whose garbage changed is in its new bucket, any other block stays.
LEMMA AdjustFacts ==
    ASSUME NEW g, GarbageOK(g), NEW b \in Blocks, NEW n \in Nat
    PROVE  LET h == AdjustGarbageBuckets(g, b, n) IN
           /\ GarbageOK(h)
           /\ h.status = g.status
           /\ h.wl = IF g.status[b] = "FULL" THEN [g.wl EXCEPT ![b] = GetCurBucketIdx(n)]
                                             ELSE g.wl
<1> DEFINE wl == GetCurBucketIdx(n)
           old == g.wl[b]
           h == AdjustGarbageBuckets(g, b, n)
<1>1. wl \in Buckets /\ old \in Buckets
  BY BucketIdxType DEF GarbageOK
<1>2. CASE g.status[b] # "FULL" \/ wl = old
  BY <1>2 DEF AdjustGarbageBuckets, GarbageOK
<1>3. CASE g.status[b] = "FULL" /\ wl # old
  <2>2. /\ h.status = g.status
        /\ h.wl = [g.wl EXCEPT ![b] = wl]
        /\ h.list = [g.list EXCEPT ![old] = Unlink(@, b), ![wl] = Append(@, b)]
        /\ h.cnt = [g.cnt EXCEPT ![old] = @ - 1, ![wl] = @ + 1]
    BY <1>3 DEF AdjustGarbageBuckets
  <2> HIDE DEF wl, h, old
  <2>3. /\ g.list[old] \in Seq(Blocks) /\ IsInjective(g.list[old]) /\ g.cnt[old] = Len(g.list[old])
        /\ ToSet(g.list[old]) = {c \in Blocks : g.status[c] = "FULL" /\ g.wl[c] = old}
        /\ g.list[wl] \in Seq(Blocks) /\ IsInjective(g.list[wl]) /\ g.cnt[wl] = Len(g.list[wl])
        /\ ToSet(g.list[wl]) = {c \in Blocks : g.status[c] = "FULL" /\ g.wl[c] = wl}
    BY <1>1 DEF GarbageOK
  <2>4. b \in ToSet(g.list[old]) /\ b \notin ToSet(g.list[wl])
    BY <2>3, <1>3 DEF old
  <2>5. /\ h.list[old] = Unlink(g.list[old], b) /\ h.list[wl] = Append(g.list[wl], b)
        /\ h.cnt[old] = g.cnt[old] - 1 /\ h.cnt[wl] = g.cnt[wl] + 1
        /\ \A k \in Buckets \ {old, wl} : h.list[k] = g.list[k] /\ h.cnt[k] = g.cnt[k]
    BY <2>2, <1>1, <1>3 DEF GarbageOK
  <2>6. /\ h.list[old] \in Seq(Blocks) /\ IsInjective(h.list[old])
        /\ Len(h.list[old]) = Len(g.list[old]) - 1
        /\ ToSet(h.list[old]) = ToSet(g.list[old]) \ {b}
    BY <2>3, <2>4, <2>5, UnlinkFacts
  <2>7. /\ h.list[wl] \in Seq(Blocks) /\ IsInjective(h.list[wl])
        /\ Len(h.list[wl]) = Len(g.list[wl]) + 1
        /\ ToSet(h.list[wl]) = ToSet(g.list[wl]) \cup {b}
    BY <2>3, <2>4, <2>5, AppendFacts
  <2>8. /\ h.status \in [Blocks -> {"FREE", "WRITING", "FULL"}]
        /\ h.wl \in [Blocks -> Buckets]
        /\ h.list \in [Buckets -> Seq(Blocks)]
        /\ h.cnt \in [Buckets -> Int]
    <3>1. Unlink(g.list[old], b) \in Seq(Blocks) /\ Append(g.list[wl], b) \in Seq(Blocks)
      BY <2>5, <2>6, <2>7
    <3>2. h.list \in [Buckets -> Seq(Blocks)]
      BY <3>1, <1>1, <2>2 DEF GarbageOK
    <3>3. /\ g.status \in [Blocks -> {"FREE", "WRITING", "FULL"}]
          /\ g.wl \in [Blocks -> Buckets]
          /\ g.cnt \in [Buckets -> Int]
      BY DEF GarbageOK
    <3>4. h.cnt \in [Buckets -> Int]
      <4>1. h.cnt = [g.cnt EXCEPT ![old] = @ - 1, ![wl] = @ + 1]
        BY <2>2
      <4>2. g.cnt[old] - 1 \in Int /\ g.cnt[wl] + 1 \in Int
        BY <3>3, <1>1
      <4> QED
        BY <4>1, <4>2, <3>3, <1>1, <1>3
    <3>5. h.wl \in [Blocks -> Buckets]
      BY <3>3, <1>1, <2>2
    <3>6. h.status \in [Blocks -> {"FREE", "WRITING", "FULL"}]
      BY <3>3, <2>2
    <3> QED
      BY <3>2, <3>4, <3>5, <3>6
  <2>9. ASSUME NEW k \in Buckets
        PROVE  /\ h.cnt[k] = Len(h.list[k])
               /\ IsInjective(h.list[k])
               /\ ToSet(h.list[k]) = {c \in Blocks : h.status[c] = "FULL" /\ h.wl[c] = k}
    <3>1. CASE k = old
      BY <3>1, <1>1, <1>3, <2>2, <2>3, <2>5, <2>6 DEF GarbageOK
    <3>2. CASE k = wl
      BY <3>2, <1>1, <1>3, <2>2, <2>3, <2>5, <2>7 DEF GarbageOK
    <3>3. CASE k \notin {old, wl}
      <4>1. {c \in Blocks : h.status[c] = "FULL" /\ h.wl[c] = k}
              = {c \in Blocks : g.status[c] = "FULL" /\ g.wl[c] = k}
        BY <3>3, <1>1, <2>2 DEF GarbageOK, old
      <4> QED
        BY <3>3, <4>1, <2>5 DEF GarbageOK
    <3> QED
      BY <3>1, <3>2, <3>3
  <2> QED
    BY <1>3, <2>2, <2>8, <2>9 DEF GarbageOK, wl, h
<1> QED
  BY <1>2, <1>3

-----------------------------------------------------------------------------
(* The inductive invariant.                                                 *)

\* The free queue holds the FREE blocks, each once.
FreeOK ==
    /\ IsInjective(freeQ)
    /\ ToSet(freeQ) = {b \in Blocks : blockStatus[b] = "FREE"}

\* The WRITING blocks are the two open ones.
OpenOK ==
    /\ {hostBlock, gcBlock} \ {NULL} = {b \in Blocks : blockStatus[b] = "WRITING"}
    /\ hostBlock = gcBlock => hostBlock = NULL

\* The cursor separates the written pages of a block from the clean ones.
CursorOK ==
    \A b \in Blocks :
        /\ \A i \in Pages : pages[b][i] = WRITEABLE <=> i >= pageCursor[b]
        /\ blockStatus[b] = "FREE" => pageCursor[b] = 0
        /\ blockStatus[b] = "WRITING" => pageCursor[b] < PAGE_NUM_PER_BLOCK
        /\ blockStatus[b] = "FULL" => pageCursor[b] = PAGE_NUM_PER_BLOCK

LevelOK ==
    \A b \in Blocks : blockStatus[b] = "FULL" => garbageWL[b] = GetCurBucketIdx(garbageCnt[b])

\* The victim is the first block of the bucket that is walked, and the saved
\* next block the second: what is appended meanwhile goes behind them.
WalkOK ==
    pc = "copy" =>
        /\ gcBucketIdx \in Buckets /\ recyleCnt > 0
        /\ Len(buckets[gcBucketIdx]) > 0 /\ cur = buckets[gcBucketIdx][1]
        /\ next # NULL => Len(buckets[gcBucketIdx]) > 1 /\ next = buckets[gcBucketIdx][2]
        /\ pageIdx <= pageCursor[cur]

IInv ==
    /\ TypeOK
    /\ GarbageOK(Garbage)
    /\ FreeOK
    /\ OpenOK
    /\ CursorOK
    /\ LevelOK
    /\ WalkOK
    /\ GarbageIsCounted
    /\ IndexMatchesPages

\* NULL is neither a block nor a page.
LEMMA NullIsNoBlock == NULL \notin Blocks /\ NULL \notin Locs
<1>1. Blocks \subseteq Int /\ Pages \subseteq Int
  BY GeometryAssumption DEF Blocks, Pages
<1> QED
  BY <1>1, ValueAssumption DEF Locs

\* The block that the next page is written to, and the lists once it is open.
LEMMA OpenFacts ==
    ASSUME IInv, NEW open \in {hostBlock, gcBlock}, TakeTarget(open), NEW b, b = Target(open)
    PROVE  /\ b \in Blocks /\ blockStatus[b] # "FULL"
           /\ open # NULL => b = open
           /\ open = NULL => blockStatus[b] = "FREE"
           /\ pageCursor[b] \in Pages /\ pages[b][pageCursor[b]] = WRITEABLE
           /\ freeQ' \in Seq(Blocks) /\ IsInjective(freeQ')
           /\ GarbageOK(Opened(b))
           /\ Opened(b).status = [blockStatus EXCEPT ![b] = "WRITING"]
           /\ Opened(b).wl = garbageWL /\ Opened(b).list = buckets
           /\ ToSet(freeQ') = {c \in Blocks : Opened(b).status[c] = "FREE"}
           /\ {c \in Blocks : Opened(b).status[c] = "WRITING"}
                = ({hostBlock, gcBlock} \ {NULL}) \cup {b}
<1> DEFINE g == Opened(b)
<1>1. /\ g.status = [blockStatus EXCEPT ![b] = "WRITING"]
      /\ g.wl = garbageWL /\ g.list = buckets /\ g.cnt = blockCnt
  BY DEF Opened, Garbage
<1>2. /\ freeQ \in Seq(Blocks) /\ blockStatus \in [Blocks -> {"FREE", "WRITING", "FULL"}]
      /\ pageCursor \in [Blocks -> 0 .. PAGE_NUM_PER_BLOCK]
  BY DEF IInv, TypeOK
<1> DEFINE Queue == /\ freeQ' \in Seq(Blocks) /\ IsInjective(freeQ')
                    /\ ToSet(freeQ') = {c \in Blocks : g.status[c] = "FREE"}
<1> HIDE DEF g
<1>3. ASSUME open = NULL PROVE b \in Blocks /\ blockStatus[b] = "FREE" /\ Queue
  <2>1. freeQ # <<>> /\ b = Last(freeQ) /\ freeQ' = Front(freeQ)
    BY <1>3 DEF TakeTarget, Target, Exhausted
  <2>2. /\ b \in Blocks /\ b \in ToSet(freeQ) /\ freeQ' \in Seq(Blocks) /\ IsInjective(freeQ')
        /\ ToSet(freeQ') = ToSet(freeQ) \ {b}
    BY <1>2, <2>1, FrontFacts DEF IInv, FreeOK
  <2>3. blockStatus[b] = "FREE"
    BY <2>2 DEF IInv, FreeOK
  <2>4. ToSet(freeQ') = {c \in Blocks : g.status[c] = "FREE"}
    BY <1>1, <1>2, <2>2 DEF IInv, FreeOK
  <2> QED
    BY <1>3, <2>2, <2>3, <2>4
<1>4. ASSUME open # NULL PROVE b \in Blocks /\ b = open /\ blockStatus[b] = "WRITING" /\ Queue
  <2>1. b = open /\ freeQ' = freeQ
    BY <1>4 DEF TakeTarget, Target
  <2>2. b \in Blocks /\ blockStatus[b] = "WRITING"
    BY <1>4, <2>1 DEF IInv, OpenOK
  <2>3. ToSet(freeQ') = {c \in Blocks : g.status[c] = "FREE"}
    BY <1>1, <1>2, <2>1, <2>2 DEF IInv, FreeOK
  <2> QED
    BY <1>2, <1>4, <2>1, <2>2, <2>3 DEF IInv, FreeOK
<1>5. b \in Blocks /\ blockStatus[b] \in {"FREE", "WRITING"} /\ Queue
  BY <1>3, <1>4
<1>6. pageCursor[b] \in Pages /\ pages[b][pageCursor[b]] = WRITEABLE
  <2>1. pageCursor[b] \in 0 .. PAGE_NUM_PER_BLOCK /\ pageCursor[b] < PAGE_NUM_PER_BLOCK
    <3>1. CursorOK
      BY DEF IInv
    <3>2. /\ blockStatus[b] = "FREE" => pageCursor[b] = 0
          /\ blockStatus[b] = "WRITING" => pageCursor[b] < PAGE_NUM_PER_BLOCK
      BY ONLY <3>1, <1>5 DEF CursorOK
    <3>3. pageCursor[b] \in 0 .. PAGE_NUM_PER_BLOCK
      BY ONLY <1>2, <1>5
    <3> QED
      BY ONLY <3>2, <3>3, <1>5, GeometryAssumption
  <2>2. pageCursor[b] \in Pages
    BY <2>1, GeometryAssumption DEF Pages
  <2> QED BY <1>5, <2>1, <2>2 DEF IInv, CursorOK
<1>7. {c \in Blocks : g.status[c] = "WRITING"} = ({hostBlock, gcBlock} \ {NULL}) \cup {b}
  <2>1. {c \in Blocks : g.status[c] = "WRITING"} = {c \in Blocks : blockStatus[c] = "WRITING"} \cup {b}
    BY <1>1, <1>2, <1>5
  <2> QED BY <2>1 DEF IInv, OpenOK
<1>8. GarbageOK(g)
  <2>1. ASSUME NEW k \in Buckets
        PROVE  {c \in Blocks : g.status[c] = "FULL" /\ g.wl[c] = k}
                 = {c \in Blocks : blockStatus[c] = "FULL" /\ garbageWL[c] = k}
    BY <1>1, <1>2, <1>5
  <2>2. g.status \in [Blocks -> {"FREE", "WRITING", "FULL"}]
    BY <1>1, <1>2, <1>5
  <2>3. GarbageOK(Garbage)
    BY DEF IInv
  <2> QED
    BY <1>1, <2>1, <2>2, <2>3 DEF GarbageOK, Garbage
<1> QED
  BY <1>1, <1>3, <1>4, <1>5, <1>6, <1>7, <1>8 DEF g

\* After SetGarbage the variables are as good as the record.
LEMMA SetGarbageFacts ==
    ASSUME NEW h, GarbageOK(h), SetGarbage(h)
    PROVE  /\ GarbageOK(Garbage)'
           /\ blockStatus' = h.status /\ garbageWL' = h.wl /\ buckets' = h.list
           /\ blockStatus' \in [Blocks -> {"FREE", "WRITING", "FULL"}]
           /\ garbageWL' \in [Blocks -> Buckets]
           /\ buckets' \in [Buckets -> Seq(Blocks)]
           /\ blockCnt' \in [Buckets -> Int]
BY DEF SetGarbage, GarbageOK, Garbage

\* The invalid pages of a block are counted one by one.
LEMMA GarbageSetIsFinite ==
    ASSUME NEW f, NEW S, S = {i \in Pages : f[i] = INVALID}
    PROVE  IsFiniteSet(S)
<1>1. IsFiniteSet(Pages)
  BY FS_Interval, GeometryAssumption DEF Pages
<1> QED
  BY <1>1, FS_Subset

\* The old page of an address is the one that the index has for it.
LEMMA OldLocFacts ==
    ASSUME IInv, NEW l \in LBA, NEW old \in OldLoc(l)
    PROVE  /\ old # NULL => /\ old \in Locs /\ old[1] \in Blocks /\ old[2] \in Pages
                            /\ old = <<old[1], old[2]>>
                            /\ <<l, old>> \in spaceIndex
                            /\ pages[old[1]][old[2]] = l
           /\ \A loc : <<l, loc>> \in spaceIndex => loc = old
<1>0. spaceIndex \subseteq LBA \X Locs
  BY DEF IInv, TypeOK
<1>1. \A loc : <<l, loc>> \in spaceIndex => loc \in Query(l)
  BY DEF Query
<1>2. \A loc \in Query(l) : <<l, loc>> \in spaceIndex /\ loc \in Locs
  BY <1>0 DEF Query
<1>3. \A loc, loc2 : <<l, loc>> \in spaceIndex /\ <<l, loc2>> \in spaceIndex => loc = loc2
  BY DEF IInv, IndexMatchesPages
<1>4. CASE old = NULL /\ Query(l) = {}
  BY <1>1, <1>4
<1>5. CASE old \in Query(l)
  <2>1. <<l, old>> \in spaceIndex /\ old \in Locs
    BY <1>2, <1>5
  <2>2. pages[old[1]][old[2]] = l
    BY <2>1 DEF IInv, IndexMatchesPages
  <2> QED
    BY <2>1, <2>2, <1>3 DEF Locs
<1> QED
  BY <1>4, <1>5, <1>1 DEF OldLoc, IsExist

\* Only the old page becomes INVALID.
LEMMA InvalidateFacts ==
    ASSUME NEW p \in [Blocks -> [Pages -> LBA \cup {WRITEABLE, INVALID}]],
           NEW loc \in Locs \cup {NULL}
    PROVE  /\ InvalidatePage(p, loc) \in [Blocks -> [Pages -> LBA \cup {WRITEABLE, INVALID}]]
           /\ \A c \in Blocks, j \in Pages :
                 InvalidatePage(p, loc)[c][j] = IF loc # NULL /\ loc = <<c, j>> THEN INVALID ELSE p[c][j]
<1>1. CASE loc = NULL
  BY <1>1 DEF InvalidatePage
<1>2. CASE loc # NULL
  <2>1. PICK c \in Blocks, j \in Pages : loc = <<c, j>>
    BY <1>2 DEF Locs
  <2>2. InvalidatePage(p, loc) = [p EXCEPT ![c][j] = INVALID]
    BY <1>2, <2>1 DEF InvalidatePage
  <2>3. InvalidatePage(p, loc) \in [Blocks -> [Pages -> LBA \cup {WRITEABLE, INVALID}]]
    BY <2>2
  <2>4. ASSUME NEW c1 \in Blocks, NEW j1 \in Pages
        PROVE  InvalidatePage(p, loc)[c1][j1] = IF loc = <<c1, j1>> THEN INVALID ELSE p[c1][j1]
    <3>1. loc = <<c1, j1>> <=> c = c1 /\ j = j1
      BY <2>1
    <3> QED
      BY <2>2, <3>1
  <2> QED
    BY <1>2, <2>3, <2>4
<1> QED
  BY <1>1, <1>2

\* Counting one more invalid page, or none.
LEMMA CountGarbageFacts ==
    ASSUME IInv, NEW loc \in Locs \cup {NULL},
           loc # NULL => pages[loc[1]][loc[2]] # INVALID,
           garbageCnt' = CountGarbage(loc),
           \A c \in Blocks, j \in Pages :
              pages'[c][j] = INVALID <=> pages[c][j] = INVALID \/ (loc # NULL /\ loc = <<c, j>>)
    PROVE  GarbageIsCounted' /\ garbageCnt' \in [Blocks -> Nat]
           /\ \A c \in Blocks : ~(loc # NULL /\ c = loc[1]) => garbageCnt'[c] = garbageCnt[c]
<1>0. garbageCnt \in [Blocks -> Nat]
  BY DEF IInv, TypeOK
<1>1. CASE loc = NULL
  <2>1. garbageCnt' = garbageCnt
    BY <1>1 DEF CountGarbage
  <2>2. \A c \in Blocks : {j \in Pages : pages'[c][j] = INVALID} = {j \in Pages : pages[c][j] = INVALID}
    BY <1>1
  <2> QED
    BY <1>0, <1>1, <2>1, <2>2 DEF GarbageIsCounted, IInv
<1>2. CASE loc # NULL
  <2>1. PICK b \in Blocks, i \in Pages : loc = <<b, i>>
    BY <1>2 DEF Locs
  <2>2. garbageCnt' = [garbageCnt EXCEPT ![b] = @ + 1]
    BY <1>2, <2>1 DEF CountGarbage
  <2>3. ASSUME NEW c \in Blocks
        PROVE  garbageCnt'[c] = Cardinality({j \in Pages : pages'[c][j] = INVALID})
    <3> DEFINE S == {j \in Pages : pages[c][j] = INVALID}
               T == {j \in Pages : pages'[c][j] = INVALID}
    <3>1. garbageCnt[c] = Cardinality(S) /\ IsFiniteSet(S)
      BY GarbageSetIsFinite DEF IInv, GarbageIsCounted
    <3>2. CASE c = b
      <4>1. T = S \cup {i} /\ i \notin S
        BY <1>2, <2>1, <3>2
      <4>2. Cardinality(T) = Cardinality(S) + 1
        BY <3>1, <4>1, FS_AddElement
      <4> QED
        BY <1>0, <2>2, <3>1, <3>2, <4>2
    <3>3. CASE c # b
      <4>1. T = S
        BY <2>1, <3>3
      <4> QED
        BY <1>0, <2>2, <3>1, <3>3, <4>1
    <3> QED
      BY <3>2, <3>3
  <2>4. garbageCnt' \in [Blocks -> Nat]
    BY <1>0, <2>2
  <2>5. \A c \in Blocks : c # b => garbageCnt'[c] = garbageCnt[c]
    BY <1>0, <2>2
  <2>6. GarbageIsCounted'
    BY <2>3 DEF GarbageIsCounted
  <2>7. loc[1] = b
    BY <2>1
  <2> QED
    BY <1>2, <2>4, <2>5, <2>6, <2>7
<1> QED
  BY <1>1, <1>2

-----------------------------------------------------------------------------
(* Each action keeps the invariant.                                         *)

\* A write keeps the invariant.
LEMMA WriteIOInv ==
    ASSUME IInv, NEW l \in LBA, WriteIO(l)
    PROVE  IInv'
<1> DEFINE b == Target(hostBlock)
           i == pageCursor[b]
           full == i + 1 = PAGE_NUM_PER_BLOCK
           g == Opened(b)
<1>1. PICK old \in OldLoc(l) : WriteIOTo(l, b, old)
  BY DEF WriteIO, MayWrite
<1> DEFINE garbage == CountGarbage(old)
           filled == IF full THEN Insert2GarbageBuckets(g, b, garbage[b]) ELSE g
           h == IF old = NULL THEN filled ELSE AdjustGarbageBuckets(filled, old[1], garbage[old[1]])
<1>2. /\ pages' = InvalidatePage([pages EXCEPT ![b][i] = l], old)
      /\ pageCursor' = [pageCursor EXCEPT ![b] = i + 1]
      /\ garbageCnt' = garbage
      /\ spaceIndex' = Without(l) \cup {<<l, <<b, i>>>>}
      /\ hostBlock' = IF full THEN NULL ELSE b
      /\ SetGarbage(h)
  BY <1>1 DEF WriteIOTo
<1>3. /\ pc = "idle" /\ pc' = "written" /\ gcBlock' = gcBlock
      /\ UNCHANGED <<recyleCnt, gcBucketIdx, cur, next, pageIdx>>
      /\ UNCHANGED <<eraseBlockId, readPageLoc, writePageLoc, freeBefore>>
      /\ TakeTarget(hostBlock)
  BY DEF WriteIO, MayWrite, walkVars, outVars, histVars
<1>4. /\ b \in Blocks /\ blockStatus[b] # "FULL"
      /\ hostBlock # NULL => b = hostBlock
      /\ hostBlock = NULL => blockStatus[b] = "FREE"
      /\ i \in Pages /\ pages[b][i] = WRITEABLE
      /\ freeQ' \in Seq(Blocks) /\ IsInjective(freeQ')
      /\ GarbageOK(g)
      /\ g.status = [blockStatus EXCEPT ![b] = "WRITING"]
      /\ g.wl = garbageWL /\ g.list = buckets
      /\ ToSet(freeQ') = {c \in Blocks : g.status[c] = "FREE"}
      /\ {c \in Blocks : g.status[c] = "WRITING"} = ({hostBlock, gcBlock} \ {NULL}) \cup {b}
  BY <1>3, OpenFacts
<1>5. /\ pages \in [Blocks -> [Pages -> LBA \cup {WRITEABLE, INVALID}]]
      /\ blockStatus \in [Blocks -> {"FREE", "WRITING", "FULL"}]
      /\ pageCursor \in [Blocks -> 0 .. PAGE_NUM_PER_BLOCK]
      /\ garbageCnt \in [Blocks -> Nat]
      /\ garbageWL \in [Blocks -> Buckets]
      /\ hostBlock \in Blocks \cup {NULL} /\ gcBlock \in Blocks \cup {NULL}
      /\ spaceIndex \subseteq LBA \X Locs
  BY DEF IInv, TypeOK
<1>6. /\ old # NULL => /\ old \in Locs /\ old[1] \in Blocks /\ old[2] \in Pages
                       /\ old = <<old[1], old[2]>>
                       /\ <<l, old>> \in spaceIndex
                       /\ pages[old[1]][old[2]] = l
      /\ \A loc : <<l, loc>> \in spaceIndex => loc = old
  BY OldLocFacts
<1>7. l # WRITEABLE /\ l # INVALID /\ WRITEABLE # INVALID /\ WRITEABLE \notin LBA /\ INVALID \notin LBA
  BY ValueAssumption
<1>8. old # NULL => old # <<b, i>>
  BY <1>4, <1>6, <1>7
<1>9. /\ pages' \in [Blocks -> [Pages -> LBA \cup {WRITEABLE, INVALID}]]
      /\ \A c \in Blocks, j \in Pages :
            pages'[c][j] = IF old # NULL /\ old = <<c, j>> THEN INVALID
                           ELSE IF c = b /\ j = i THEN l ELSE pages[c][j]
  <2> DEFINE p == [pages EXCEPT ![b][i] = l]
  <2>1. p \in [Blocks -> [Pages -> LBA \cup {WRITEABLE, INVALID}]]
    BY <1>4, <1>5
  <2>2. \A c \in Blocks, j \in Pages : p[c][j] = IF c = b /\ j = i THEN l ELSE pages[c][j]
    BY <1>4, <1>5
  <2>3. old \in Locs \cup {NULL}
    BY <1>6
  <2>4. pages' = InvalidatePage(p, old)
    BY <1>2
  <2> HIDE DEF p
  <2> QED
    BY <2>1, <2>2, <2>3, <2>4, InvalidateFacts
<1> HIDE DEF b, i, g, garbage
<1>10. GarbageIsCounted' /\ garbage \in [Blocks -> Nat]
       /\ \A c \in Blocks : ~(old # NULL /\ c = old[1]) => garbage[c] = garbageCnt[c]
  <2>1. \A c \in Blocks, j \in Pages :
           pages'[c][j] = INVALID <=> pages[c][j] = INVALID \/ (old # NULL /\ old = <<c, j>>)
    BY <1>4, <1>7, <1>9
  <2>2. old \in Locs \cup {NULL} /\ (old # NULL => pages[old[1]][old[2]] # INVALID)
    BY <1>6, <1>7
  <2>3. garbageCnt' = CountGarbage(old) /\ garbageCnt' = garbage
    BY <1>2 DEF garbage
  <2> QED
    BY <2>1, <2>2, <2>3, CountGarbageFacts
<1>11. /\ GarbageOK(filled)
       /\ filled.status = IF full THEN [blockStatus EXCEPT ![b] = "FULL"]
                                  ELSE [blockStatus EXCEPT ![b] = "WRITING"]
       /\ filled.wl = IF full THEN [garbageWL EXCEPT ![b] = GetCurBucketIdx(garbage[b])] ELSE garbageWL
  <2>1. g.status[b] = "WRITING" /\ garbage[b] \in Nat /\ full \in BOOLEAN
    BY <1>4, <1>5, <1>10
  <2>2. CASE full
    <3>1. filled = Insert2GarbageBuckets(g, b, garbage[b])
      BY <2>2
    <3>0. GarbageOK(g) /\ b \in Blocks /\ g.status[b] # "FULL" /\ garbage[b] \in Nat
      BY <1>4, <2>1
    <3> HIDE DEF filled, full
    <3>2. /\ GarbageOK(filled)
          /\ filled.status = [g.status EXCEPT ![b] = "FULL"]
          /\ filled.wl = [g.wl EXCEPT ![b] = GetCurBucketIdx(garbage[b])]
      BY <3>0, <3>1, InsertFacts
    <3> QED
      BY <1>4, <1>5, <2>2, <3>2
  <2>3. CASE ~full
    BY <1>4, <2>3
  <2> QED
    BY <2>2, <2>3
<1> HIDE DEF filled
<1>12. /\ GarbageOK(h)
       /\ h.status = filled.status
       /\ h.wl = IF old # NULL /\ filled.status[old[1]] = "FULL"
                 THEN [filled.wl EXCEPT ![old[1]] = GetCurBucketIdx(garbage[old[1]])]
                 ELSE filled.wl
  <2>1. CASE old = NULL
    BY <1>11, <2>1
  <2>2. CASE old # NULL
    <3> DEFINE c == old[1]
               n == garbage[c]
    <3>1. c \in Blocks /\ n \in Nat /\ h = AdjustGarbageBuckets(filled, c, n)
      BY <1>6, <1>10, <2>2
    <3>2. GarbageOK(filled)
      BY <1>11
    <3> HIDE DEF c, n, h
    <3>3. /\ GarbageOK(h)
          /\ h.status = filled.status
          /\ h.wl = IF filled.status[c] = "FULL" THEN [filled.wl EXCEPT ![c] = GetCurBucketIdx(n)]
                                                ELSE filled.wl
      BY <3>1, <3>2, AdjustFacts
    <3> QED
      BY <2>2, <3>3 DEF c, n
  <2> QED BY <2>1, <2>2
<1> HIDE DEF h
<1>13. /\ GarbageOK(Garbage)'
       /\ blockStatus' = filled.status /\ garbageWL' = h.wl
       /\ blockStatus' \in [Blocks -> {"FREE", "WRITING", "FULL"}]
       /\ garbageWL' \in [Blocks -> Buckets]
       /\ buckets' \in [Buckets -> Seq(Blocks)]
       /\ blockCnt' \in [Buckets -> Int]
  BY <1>2, <1>12, SetGarbageFacts
<1>14. i + 1 \in 0 .. PAGE_NUM_PER_BLOCK /\ i \in Nat
  BY <1>4, GeometryAssumption DEF Pages
<1>15. TypeOK'
  <2>1. pageCursor' \in [Blocks -> 0 .. PAGE_NUM_PER_BLOCK]
    BY <1>2, <1>5, <1>14
  <2>2. hostBlock' \in Blocks \cup {NULL}
    BY <1>2, <1>4
  <2>3. spaceIndex' \subseteq LBA \X Locs
    BY <1>2, <1>4, <1>5 DEF Without, Locs
  <2>4. /\ recyleCnt \in Nat /\ gcBucketIdx \in Buckets \cup {-1}
        /\ cur \in Blocks \cup {NULL} /\ next \in Blocks \cup {NULL}
        /\ pageIdx \in 0 .. PAGE_NUM_PER_BLOCK
        /\ eraseBlockId \in Seq(Blocks)
        /\ readPageLoc \in Seq(Locs) /\ writePageLoc \in Seq(Locs)
        /\ freeBefore \in Nat
    BY DEF IInv, TypeOK
  <2> QED
    BY <1>2, <1>3, <1>4, <1>5, <1>9, <1>10, <1>13, <2>1, <2>2, <2>3, <2>4 DEF TypeOK
<1>16. FreeOK'
  <2>1. \A c \in Blocks : blockStatus'[c] = "FREE" <=> g.status[c] = "FREE"
    BY <1>4, <1>5, <1>11, <1>13
  <2> QED
    BY <1>4, <2>1 DEF FreeOK
<1>17. OpenOK'
  <2>1. b # NULL /\ b # gcBlock
    <3>1. hostBlock # NULL => hostBlock # gcBlock
      BY DEF IInv, OpenOK
    <3>2. gcBlock # NULL => gcBlock \in Blocks /\ blockStatus[gcBlock] = "WRITING"
      BY DEF IInv, OpenOK
    <3> QED
      BY <1>4, <3>1, <3>2, NullIsNoBlock
  <2>2. CASE full
    <3>1. {c \in Blocks : blockStatus'[c] = "WRITING"} = {c \in Blocks : g.status[c] = "WRITING"} \ {b}
      BY <1>4, <1>5, <1>11, <1>13, <2>2
    <3>2. hostBlock' = NULL
      BY <1>2, <2>2
    <3> QED
      BY <1>3, <1>4, <2>1, <3>1, <3>2 DEF OpenOK
  <2>3. CASE ~full
    <3>1. {c \in Blocks : blockStatus'[c] = "WRITING"} = {c \in Blocks : g.status[c] = "WRITING"}
      BY <1>4, <1>5, <1>11, <1>13, <2>3
    <3>2. hostBlock' = b
      BY <1>2, <2>3
    <3> QED
      BY <1>3, <1>4, <2>1, <3>1, <3>2 DEF OpenOK
  <2> QED BY <2>2, <2>3
<1>18. CursorOK'
  <2> SUFFICES ASSUME NEW c \in Blocks
               PROVE  /\ \A j \in Pages : pages'[c][j] = WRITEABLE <=> j >= pageCursor'[c]
                      /\ blockStatus'[c] = "FREE" => pageCursor'[c] = 0
                      /\ blockStatus'[c] = "WRITING" => pageCursor'[c] < PAGE_NUM_PER_BLOCK
                      /\ blockStatus'[c] = "FULL" => pageCursor'[c] = PAGE_NUM_PER_BLOCK
    BY DEF CursorOK
  <2>1. /\ \A j \in Pages : pages[c][j] = WRITEABLE <=> j >= pageCursor[c]
        /\ blockStatus[c] = "FREE" => pageCursor[c] = 0
        /\ blockStatus[c] = "WRITING" => pageCursor[c] < PAGE_NUM_PER_BLOCK
        /\ blockStatus[c] = "FULL" => pageCursor[c] = PAGE_NUM_PER_BLOCK
    BY DEF IInv, CursorOK
  <2>2. \A j \in Pages : old # NULL /\ old = <<c, j>> => pages[c][j] # WRITEABLE
    BY <1>6, <1>7
  <2>3. CASE c = b
    <3>1. pageCursor'[c] = i + 1 /\ pageCursor[c] = i
      BY <1>2, <1>4, <1>5, <2>3 DEF i
    <3>2. ASSUME NEW j \in Pages
          PROVE  pages'[c][j] = WRITEABLE <=> j >= i + 1
      <4>1. j \in Int
        BY GeometryAssumption DEF Pages
      <4> QED
        BY <1>7, <1>9, <1>14, <2>1, <2>2, <2>3, <3>1, <4>1
    <3>3. blockStatus'[c] = IF full THEN "FULL" ELSE "WRITING"
      BY <1>4, <1>5, <1>11, <1>13, <2>3
    <3> QED
      BY <1>14, <3>1, <3>2, <3>3, GeometryAssumption
  <2>4. CASE c # b
    <3>1. pageCursor'[c] = pageCursor[c] /\ blockStatus'[c] = blockStatus[c]
      BY <1>2, <1>4, <1>5, <1>11, <1>13, <2>4
    <3>2. \A j \in Pages : pages'[c][j] = WRITEABLE <=> pages[c][j] = WRITEABLE
      BY <1>7, <1>9, <2>2, <2>4
    <3> QED
      BY <2>1, <3>1, <3>2
  <2> QED BY <2>3, <2>4
<1>19. LevelOK'
  <2> SUFFICES ASSUME NEW c \in Blocks, blockStatus'[c] = "FULL"
               PROVE  garbageWL'[c] = GetCurBucketIdx(garbage[c])
    BY <1>2 DEF LevelOK, GetCurBucketIdx
  <2>0. filled.status[c] = "FULL" /\ filled.wl \in [Blocks -> Buckets]
    BY <1>11, <1>13 DEF GarbageOK
  <2>1. CASE old # NULL /\ c = old[1]
    BY <1>12, <1>13, <2>0, <2>1
  <2>2. CASE ~(old # NULL /\ c = old[1])
    <3>1. garbage[c] = garbageCnt[c] /\ garbageWL'[c] = filled.wl[c]
      BY <1>6, <1>10, <1>12, <1>13, <2>0, <2>2
    <3>2. CASE c = b
      <4>1. full
        BY <1>4, <1>5, <1>11, <1>13, <3>2
      <4> QED
        BY <1>4, <1>5, <1>11, <3>1, <3>2, <4>1
    <3>3. CASE c # b
      <4>1. filled.wl[c] = garbageWL[c] /\ blockStatus[c] = "FULL"
        BY <1>4, <1>5, <1>11, <1>13, <3>3
      <4>2. garbageWL[c] = GetCurBucketIdx(garbageCnt[c])
        BY <4>1 DEF IInv, LevelOK
      <4> QED
        BY <3>1, <4>1, <4>2
    <3> QED BY <3>2, <3>3
  <2> QED BY <2>1, <2>2
<1>20. WalkOK'
  BY <1>3 DEF WalkOK
<1>21. IndexMatchesPages'
  <2>1. ASSUME NEW e \in spaceIndex'
        PROVE  pages'[e[2][1]][e[2][2]] = e[1]
    <3>1. CASE e = <<l, <<b, i>>>>
      BY <1>4, <1>8, <1>9, <3>1
    <3>2. CASE e \in spaceIndex /\ e[1] # l
      <4>1. /\ e[2][1] \in Blocks /\ e[2][2] \in Pages /\ e[1] \in LBA
            /\ e[2] = <<e[2][1], e[2][2]>>
        BY <1>5, <3>2 DEF Locs
      <4>2. pages[e[2][1]][e[2][2]] = e[1]
        BY <3>2 DEF IInv, IndexMatchesPages
      <4>3. ~(old # NULL /\ old = e[2])
        BY <1>6, <3>2, <4>2
      <4>4. ~(e[2][1] = b /\ e[2][2] = i)
        BY <1>4, <1>7, <4>1, <4>2
      <4> QED
        BY <1>9, <4>1, <4>2, <4>3, <4>4
    <3> QED
      BY <1>2, <3>1, <3>2 DEF Without
  <2>2. ASSUME NEW e \in spaceIndex', NEW f \in spaceIndex', e[1] = f[1]
        PROVE  e = f
    <3>1. e = <<l, <<b, i>>>> \/ (e \in spaceIndex /\ e[1] # l)
      BY <1>2 DEF Without
    <3>2. f = <<l, <<b, i>>>> \/ (f \in spaceIndex /\ f[1] # l)
      BY <1>2 DEF Without
    <3>3. e \in spaceIndex /\ f \in spaceIndex => e = f
      BY <2>2 DEF IInv, IndexMatchesPages
    <3> QED
      BY <2>2, <3>1, <3>2, <3>3
  <2>3. ASSUME NEW loc \in ValidLocs'
        PROVE  <<pages'[loc[1]][loc[2]], loc>> \in spaceIndex'
    <3>1. /\ loc[1] \in Blocks /\ loc[2] \in Pages /\ loc = <<loc[1], loc[2]>>
          /\ pages'[loc[1]][loc[2]] \in LBA /\ loc \in Locs
      BY DEF ValidLocs, Locs
    <3>2. ~(old # NULL /\ old = loc)
      BY <1>7, <1>9, <3>1
    <3>3. CASE loc = <<b, i>>
      BY <1>2, <1>8, <1>9, <3>1, <3>3
    <3>4. CASE loc # <<b, i>>
      <4>1. pages'[loc[1]][loc[2]] = pages[loc[1]][loc[2]]
        BY <1>9, <3>1, <3>2, <3>4
      <4>2. loc \in ValidLocs /\ CopiedLocs = {}
        BY <1>3, <3>1, <4>1 DEF ValidLocs, CopiedLocs
      <4>3. <<pages[loc[1]][loc[2]], loc>> \in spaceIndex
        BY <1>3, <4>2 DEF IInv, IndexMatchesPages
      <4>4. pages[loc[1]][loc[2]] # l
        BY <1>6, <3>1, <3>2, <4>3, NullIsNoBlock
      <4> QED
        BY <1>2, <4>1, <4>3, <4>4 DEF Without
    <3> QED BY <3>3, <3>4
  <2>4. CopiedLocs' = {}
    BY <1>3 DEF CopiedLocs
  <2> QED
    BY <2>1, <2>2, <2>3, <2>4 DEF IndexMatchesPages
<1> QED
  BY <1>10, <1>13, <1>15, <1>16, <1>17, <1>18, <1>19, <1>20, <1>21 DEF IInv

\* A delete keeps the invariant.
LEMMA DeleteInv ==
    ASSUME IInv, NEW l \in LBA, Delete(l)
    PROVE  IInv'
<1>1. PICK loc \in Query(l) :
          /\ pages' = InvalidatePage(pages, loc)
          /\ garbageCnt' = CountGarbage(loc)
          /\ SetGarbage(AdjustGarbageBuckets(Garbage, loc[1], CountGarbage(loc)[loc[1]]))
  BY DEF Delete
<1> DEFINE garbage == CountGarbage(loc)
           h == AdjustGarbageBuckets(Garbage, loc[1], garbage[loc[1]])
<1>2. /\ spaceIndex' = Without(l) /\ pc = "idle" /\ pc' = "idle"
      /\ UNCHANGED <<pageCursor, freeQ, hostBlock, gcBlock>>
      /\ UNCHANGED <<recyleCnt, gcBucketIdx, cur, next, pageIdx>>
      /\ UNCHANGED <<eraseBlockId, readPageLoc, writePageLoc, freeBefore>>
  BY DEF Delete, openVars, walkVars, outVars, histVars
<1>3. /\ pages \in [Blocks -> [Pages -> LBA \cup {WRITEABLE, INVALID}]]
      /\ blockStatus \in [Blocks -> {"FREE", "WRITING", "FULL"}]
      /\ garbageCnt \in [Blocks -> Nat]
      /\ garbageWL \in [Blocks -> Buckets]
      /\ spaceIndex \subseteq LBA \X Locs
      /\ GarbageOK(Garbage)
  BY DEF IInv, TypeOK
<1>4. /\ loc \in Locs /\ loc[1] \in Blocks /\ loc[2] \in Pages /\ loc = <<loc[1], loc[2]>>
      /\ loc # NULL /\ pages[loc[1]][loc[2]] = l
      /\ \A m : <<l, m>> \in spaceIndex => m = loc
  <2>1. loc \in OldLoc(l)
    BY <1>1 DEF OldLoc, IsExist
  <2>2. loc # NULL
    BY <1>3, NullIsNoBlock DEF Query
  <2> QED
    BY <2>1, <2>2, OldLocFacts
<1>5. l # WRITEABLE /\ l # INVALID /\ WRITEABLE # INVALID /\ WRITEABLE \notin LBA /\ INVALID \notin LBA
  BY ValueAssumption
<1>6. /\ pages' \in [Blocks -> [Pages -> LBA \cup {WRITEABLE, INVALID}]]
      /\ \A c \in Blocks, j \in Pages : pages'[c][j] = IF loc = <<c, j>> THEN INVALID ELSE pages[c][j]
  BY <1>1, <1>3, <1>4, InvalidateFacts
<1>7. GarbageIsCounted' /\ garbageCnt' \in [Blocks -> Nat]
      /\ \A c \in Blocks : c # loc[1] => garbageCnt'[c] = garbageCnt[c]
  <2>1. \A c \in Blocks, j \in Pages :
           pages'[c][j] = INVALID <=> pages[c][j] = INVALID \/ (loc # NULL /\ loc = <<c, j>>)
    BY <1>4, <1>6
  <2>2. loc \in Locs \cup {NULL} /\ (loc # NULL => pages[loc[1]][loc[2]] # INVALID)
    BY <1>4, <1>5
  <2> QED
    BY <1>1, <1>4, <2>1, <2>2, CountGarbageFacts
<1>8. garbage = garbageCnt'
  BY <1>1
<1> HIDE DEF garbage
<1>9. /\ GarbageOK(h) /\ h.status = blockStatus
      /\ h.wl = IF blockStatus[loc[1]] = "FULL"
                THEN [garbageWL EXCEPT ![loc[1]] = GetCurBucketIdx(garbage[loc[1]])] ELSE garbageWL
  <2>1. garbage[loc[1]] \in Nat
    BY <1>4, <1>7, <1>8
  <2>2. Garbage.status = blockStatus /\ Garbage.wl = garbageWL
    BY DEF Garbage
  <2>3. GarbageOK(Garbage) /\ loc[1] \in Blocks
    BY <1>3, <1>4
  <2>4. /\ GarbageOK(h) /\ h.status = Garbage.status
        /\ h.wl = IF Garbage.status[loc[1]] = "FULL"
                  THEN [Garbage.wl EXCEPT ![loc[1]] = GetCurBucketIdx(garbage[loc[1]])]
                  ELSE Garbage.wl
    BY <2>1, <2>3, AdjustFacts
  <2> HIDE DEF h
  <2> QED
    BY <2>2, <2>4
<1>10. SetGarbage(h)
  BY <1>1 DEF garbage
<1> HIDE DEF h
<1>11. /\ GarbageOK(Garbage)' /\ blockStatus' = blockStatus /\ garbageWL' = h.wl
       /\ garbageWL' \in [Blocks -> Buckets]
       /\ buckets' \in [Buckets -> Seq(Blocks)] /\ blockCnt' \in [Buckets -> Int]
  BY <1>9, <1>10, SetGarbageFacts
<1>12. TypeOK'
  <2>1. spaceIndex' \subseteq LBA \X Locs
    BY <1>2, <1>3 DEF Without
  <2>2. TypeOK
    BY DEF IInv
  <2> QED
    BY <1>2, <1>6, <1>7, <1>11, <2>1, <2>2 DEF TypeOK
<1>13. FreeOK' /\ OpenOK'
  BY <1>2, <1>11 DEF IInv, FreeOK, OpenOK
<1>14. CursorOK'
  <2>1. \A c \in Blocks, j \in Pages : pages'[c][j] = WRITEABLE <=> pages[c][j] = WRITEABLE
    BY <1>4, <1>5, <1>6
  <2>2. CursorOK
    BY DEF IInv
  <2> QED
    BY <1>2, <1>11, <2>1, <2>2 DEF CursorOK
<1>15. LevelOK'
  <2> SUFFICES ASSUME NEW c \in Blocks, blockStatus'[c] = "FULL"
               PROVE  garbageWL'[c] = GetCurBucketIdx(garbageCnt'[c])
    BY DEF LevelOK, GetCurBucketIdx
  <2>1. CASE c = loc[1]
    BY <1>3, <1>8, <1>9, <1>11, <2>1
  <2>2. CASE c # loc[1]
    <3>1. garbageWL'[c] = garbageWL[c] /\ garbageCnt'[c] = garbageCnt[c]
      BY <1>3, <1>4, <1>7, <1>9, <1>11, <2>2
    <3>2. garbageWL[c] = GetCurBucketIdx(garbageCnt[c])
      BY <1>11 DEF IInv, LevelOK
    <3> QED BY <3>1, <3>2
  <2> QED BY <2>1, <2>2
<1>16. WalkOK'
  BY <1>2 DEF WalkOK
<1>17. IndexMatchesPages'
  <2>0. CopiedLocs = {} /\ CopiedLocs' = {}
    BY <1>2 DEF CopiedLocs
  <2>1. ASSUME NEW e \in spaceIndex'
        PROVE  pages'[e[2][1]][e[2][2]] = e[1]
    <3>1. e \in spaceIndex /\ e[1] # l
      BY <1>2 DEF Without
    <3>2. /\ e[2][1] \in Blocks /\ e[2][2] \in Pages /\ e[1] \in LBA
          /\ e[2] = <<e[2][1], e[2][2]>>
      BY <1>3, <3>1 DEF Locs
    <3>3. pages[e[2][1]][e[2][2]] = e[1]
      BY <3>1 DEF IInv, IndexMatchesPages
    <3>4. e[2] # loc
      BY <1>4, <3>1, <3>3
    <3> QED
      BY <1>6, <3>2, <3>3, <3>4
  <2>2. \A e, f \in spaceIndex' : e[1] = f[1] => e = f
    BY <1>2 DEF Without, IInv, IndexMatchesPages
  <2>3. ASSUME NEW m \in ValidLocs'
        PROVE  <<pages'[m[1]][m[2]], m>> \in spaceIndex'
    <3>1. /\ m[1] \in Blocks /\ m[2] \in Pages /\ m = <<m[1], m[2]>>
          /\ pages'[m[1]][m[2]] \in LBA /\ m \in Locs
      BY DEF ValidLocs, Locs
    <3>2. m # loc
      BY <1>5, <1>6, <3>1
    <3>3. pages'[m[1]][m[2]] = pages[m[1]][m[2]]
      BY <1>6, <3>1, <3>2
    <3>4. <<pages[m[1]][m[2]], m>> \in spaceIndex
      BY <1>2, <2>0, <3>1, <3>3 DEF IInv, IndexMatchesPages, ValidLocs
    <3>5. pages[m[1]][m[2]] # l
      BY <1>4, <3>2, <3>4
    <3> QED
      BY <1>2, <3>3, <3>4, <3>5 DEF Without
  <2> QED
    BY <2>0, <2>1, <2>2, <2>3 DEF IndexMatchesPages
<1> QED
  BY <1>7, <1>11, <1>12, <1>13, <1>14, <1>15, <1>16, <1>17 DEF IInv

\* Steps that move only the thread.
LEMMA ControlFacts ==
    ASSUME IInv, UNCHANGED <<blockVars, listVars, openVars, spaceIndex>>
    PROVE  /\ GarbageOK(Garbage)' /\ FreeOK' /\ OpenOK' /\ CursorOK' /\ LevelOK'
           /\ GarbageIsCounted'
           /\ UNCHANGED <<pages, pageCursor, buckets, spaceIndex>>
           /\ ValidLocs' = ValidLocs
<1>1. UNCHANGED <<pages, blockStatus, pageCursor, garbageCnt, garbageWL, freeQ, buckets, blockCnt>>
      /\ UNCHANGED <<hostBlock, gcBlock, spaceIndex>>
  BY DEF blockVars, listVars, openVars
<1>2. GarbageOK(Garbage)' /\ FreeOK' /\ OpenOK'
  BY <1>1 DEF IInv, GarbageOK, Garbage, FreeOK, OpenOK
<1>3. CursorOK' /\ GarbageIsCounted'
  BY <1>1 DEF IInv, CursorOK, GarbageIsCounted
<1>4. LevelOK' /\ ValidLocs' = ValidLocs
  BY <1>1 DEF IInv, LevelOK, GetCurBucketIdx, ValidLocs
<1> QED
  BY <1>1, <1>2, <1>3, <1>4

\* The steps that only move the control keep the invariant.
LEMMA ControlInv ==
    ASSUME IInv,
           \/ EndWrite \/ StartGC \/ NextBucket \/ EndGC \/ BucketIdxWraps \/ AllocationFails
    PROVE  IInv'
<1>1. /\ UNCHANGED <<blockVars, listVars, openVars, spaceIndex>>
      /\ pc' \in {"idle", "scan", "corrupt"}
  BY DEF EndWrite, StartGC, NextBucket, EndGC, BucketIdxWraps, AllocationFails, Corrupt
<1>2. /\ GarbageOK(Garbage)' /\ FreeOK' /\ OpenOK' /\ CursorOK' /\ LevelOK' /\ GarbageIsCounted'
      /\ UNCHANGED <<pages, spaceIndex>> /\ ValidLocs' = ValidLocs
  BY <1>1, ControlFacts
<1>3. WalkOK'
  BY <1>1 DEF WalkOK
<1>4. TypeOK'
  <2>1. TypeOK
    BY DEF IInv
  <2>2. /\ recyleCnt' \in Nat /\ gcBucketIdx' \in Buckets \cup {-1}
        /\ cur' \in Blocks \cup {NULL} /\ next' \in Blocks \cup {NULL}
        /\ pageIdx' \in 0 .. PAGE_NUM_PER_BLOCK
        /\ eraseBlockId' \in Seq(Blocks)
        /\ readPageLoc' \in Seq(Locs) /\ writePageLoc' \in Seq(Locs)
        /\ freeBefore' \in Nat
    <3>1. CASE \/ EndWrite \/ BucketIdxWraps \/ AllocationFails
      BY <2>1, <3>1 DEF TypeOK, EndWrite, BucketIdxWraps, AllocationFails,
                        Corrupt, walkVars, outVars, histVars
    <3>2. CASE StartGC
      BY <2>1, <3>2, GeometryAssumption, WaterLevelAssumption
      DEF TypeOK, StartGC, outVars, Buckets, GetFreeBlockNum
    <3>3. CASE NextBucket
      BY <2>1, <3>3, GeometryAssumption DEF TypeOK, NextBucket, outVars, histVars, Buckets
    <3>4. CASE EndGC
      BY <2>1, <3>4, GeometryAssumption DEF TypeOK, EndGC, Buckets
    <3> QED BY <3>1, <3>2, <3>3, <3>4
  <2> QED
    BY <1>1, <2>1, <2>2 DEF TypeOK, blockVars, listVars, openVars
<1>5. IndexMatchesPages'
  <2>1. CopiedLocs' = {}
    BY <1>1 DEF CopiedLocs
  <2>2. /\ \A e \in spaceIndex : pages[e[2][1]][e[2][2]] = e[1]
        /\ \A e, f \in spaceIndex : e[1] = f[1] => e = f
    BY DEF IInv, IndexMatchesPages
  <2>3. CASE pc' = "corrupt"
    BY <1>2, <2>1, <2>2, <2>3 DEF IndexMatchesPages
  <2>4. CASE pc' # "corrupt"
    <3>1. pc # "corrupt" /\ CopiedLocs = {}
      BY <2>4 DEF EndWrite, StartGC, NextBucket, EndGC, BucketIdxWraps, AllocationFails, Corrupt, CopiedLocs
    <3> QED
      BY <1>2, <2>1, <2>2, <3>1 DEF IInv, IndexMatchesPages
  <2> QED BY <2>3, <2>4
<1> QED
  BY <1>2, <1>3, <1>4, <1>5 DEF IInv

\* The first indices of a list of n elements.
LEMMA FewIndices ==
    ASSUME NEW n \in Nat
    PROVE  /\ n >= 1 /\ n # 1 => n > 1 /\ 2 \in 1 .. n
           /\ n > 1 => 1 \in 1 .. n - 1 /\ 1 \in 1 .. n /\ 2 \in 1 .. n
           /\ n > 1 /\ n # 2 => 2 \in 1 .. n - 1 /\ 3 \in 1 .. n /\ n - 1 > 1
OBVIOUS

\* Beginning the walk of a bucket keeps it.
LEMMA EnterBucketInv ==
    ASSUME IInv, EnterBucket
    PROVE  IInv'
<1> DEFINE s == buckets[gcBucketIdx]
<1>1. /\ UNCHANGED <<blockVars, listVars, openVars, spaceIndex>>
      /\ pc = "scan" /\ pc' = "copy" /\ recyleCnt > 0 /\ gcBucketIdx \in Buckets
      /\ s # <<>> /\ cur' = s[1] /\ next' = After(s, s[1]) /\ pageIdx' = 0
      /\ UNCHANGED <<recyleCnt, gcBucketIdx, eraseBlockId, readPageLoc, writePageLoc, freeBefore>>
  BY DEF EnterBucket, outVars, histVars
<1>2. /\ GarbageOK(Garbage)' /\ FreeOK' /\ OpenOK' /\ CursorOK' /\ LevelOK' /\ GarbageIsCounted'
      /\ UNCHANGED <<pages, pageCursor, buckets, spaceIndex>> /\ ValidLocs' = ValidLocs
  BY <1>1, ControlFacts
<1>3. s \in Seq(Blocks) /\ Len(s) \in Nat /\ Len(s) >= 1 /\ IsInjective(s)
  BY <1>1 DEF IInv, TypeOK, GarbageOK, Garbage
<1>n. Len(s) # 1 => Len(s) > 1 /\ 2 \in 1 .. Len(s)
  <2>1. Len(s) \in Nat /\ Len(s) >= 1
    BY <1>3
  <2> HIDE DEF s
  <2> QED
    BY <2>1, FewIndices
<1>f. s[1] \in Blocks
  BY <1>3
<1>4. Position(s, s[1]) = 1
  <2>1. s[1] \in ToSet(s)
    BY <1>3 DEF ToSet
  <2>2. Position(s, s[1]) \in 1 .. Len(s) /\ s[Position(s, s[1])] = s[1]
    BY <1>3, <2>1, PositionFacts
  <2> QED
    BY <1>3, <2>2 DEF IsInjective
<1>5. next' = (IF Len(s) = 1 THEN NULL ELSE s[2]) /\ (Len(s) # 1 => s[2] \in Blocks)
  <2> HIDE DEF s
  <2>1. After(s, s[1]) = IF Len(s) = 1 THEN NULL ELSE s[2]
    BY <1>3, <1>4 DEF After
  <2>2. ASSUME Len(s) # 1 PROVE s[2] \in Blocks
    <3> QED
      BY <1>3, <1>n, <2>2
  <2> QED
    BY <1>1, <2>1, <2>2
<1>s. buckets'[gcBucketIdx'] = s /\ gcBucketIdx' \in Buckets /\ recyleCnt' > 0
  BY <1>1, <1>2
<1> HIDE DEF s
<1>6. WalkOK'
  <2>1. pageCursor \in [Blocks -> 0 .. PAGE_NUM_PER_BLOCK]
    BY DEF IInv, TypeOK
  <2>2. pageCursor'[cur'] = pageCursor[s[1]] /\ pageCursor[s[1]] \in 0 .. PAGE_NUM_PER_BLOCK
    BY <1>1, <1>2, <1>f, <2>1
  <2>3. pageIdx' <= pageCursor'[cur']
    BY <1>1, <2>2, GeometryAssumption
  <2>4. next' # NULL => Len(s) > 1 /\ next' = s[2]
    <3> QED
      BY <1>5, <1>n
  <2> QED
    BY <1>1, <1>3, <1>s, <2>3, <2>4 DEF WalkOK
<1>7. TypeOK'
  <2>1. TypeOK
    BY DEF IInv
  <2> QED
    <3>1. cur' \in Blocks \cup {NULL} /\ next' \in Blocks \cup {NULL}
      BY <1>1, <1>f, <1>5
    <3>2. pageIdx' \in 0 .. PAGE_NUM_PER_BLOCK
      BY <1>1, GeometryAssumption
    <3> QED
      BY <1>1, <2>1, <3>1, <3>2 DEF TypeOK, blockVars, listVars, openVars
<1>8. IndexMatchesPages'
  <2>1. CopiedLocs = {} /\ CopiedLocs' = {}
    BY <1>1 DEF CopiedLocs
  <2> QED
    BY <1>1, <1>2, <2>1 DEF IInv, IndexMatchesPages
<1> QED
  BY <1>2, <1>6, <1>7, <1>8 DEF IInv

\* The pages of the victim in front of pageIdx, one more than before.
LEMMA CopiedGrows ==
    ASSUME IInv, pc = "copy", pc' = "copy", cur' = cur, pageIdx' = pageIdx + 1
    PROVE  CopiedLocs' = CopiedLocs \cup {<<cur, pageIdx>>}
<1>1. pageIdx \in Nat
  BY GeometryAssumption DEF IInv, TypeOK
<1> QED
  BY <1>1 DEF CopiedLocs

\* Passing over an INVALID page keeps it.
LEMMA SkipPageInv ==
    ASSUME IInv, SkipPage
    PROVE  IInv'
<1>1. /\ UNCHANGED <<blockVars, listVars, openVars, spaceIndex>>
      /\ pc = "copy" /\ pc' = "copy" /\ pageIdx < pageCursor[cur] /\ pageIdx' = pageIdx + 1
      /\ pages[cur][pageIdx] \notin LBA
      /\ UNCHANGED <<recyleCnt, gcBucketIdx, cur, next>>
      /\ UNCHANGED <<eraseBlockId, readPageLoc, writePageLoc, freeBefore>>
  BY DEF SkipPage, outVars, histVars
<1>2. /\ GarbageOK(Garbage)' /\ FreeOK' /\ OpenOK' /\ CursorOK' /\ LevelOK' /\ GarbageIsCounted'
      /\ UNCHANGED <<pages, pageCursor, buckets, spaceIndex>> /\ ValidLocs' = ValidLocs
  BY <1>1, ControlFacts
<1>3. WalkOK /\ TypeOK
  BY DEF IInv
<1>4. cur \in Blocks /\ pageIdx \in Nat /\ pageCursor[cur] \in 0 .. PAGE_NUM_PER_BLOCK
  <2>1. gcBucketIdx \in Buckets /\ Len(buckets[gcBucketIdx]) > 0 /\ cur = buckets[gcBucketIdx][1]
    BY <1>1, <1>3 DEF WalkOK
  <2>2. cur \in Blocks
    BY <1>3, <2>1 DEF TypeOK
  <2> QED
    BY <1>3, <2>2, GeometryAssumption DEF TypeOK
<1>5. pageIdx + 1 \in 0 .. PAGE_NUM_PER_BLOCK
  BY <1>1, <1>4, GeometryAssumption
<1>6. TypeOK'
  BY <1>1, <1>3, <1>5 DEF TypeOK, blockVars, listVars, openVars
<1>7. WalkOK'
  BY <1>1, <1>2, <1>3, <1>4 DEF WalkOK
<1>8. IndexMatchesPages'
  <2>1. CopiedLocs' = CopiedLocs \cup {<<cur, pageIdx>>}
    BY <1>1, CopiedGrows
  <2>2. IndexMatchesPages /\ spaceIndex \subseteq LBA \X Locs
    BY <1>3 DEF IInv, TypeOK
  <2>3. \A e \in spaceIndex : e[2] # <<cur, pageIdx>>
    BY <1>1, <2>2 DEF IndexMatchesPages
  <2> QED
    BY <1>1, <1>2, <2>1, <2>2, <2>3 DEF IndexMatchesPages
<1> QED
  BY <1>2, <1>6, <1>7, <1>8 DEF IInv

\* Copying a VALID page keeps it.
LEMMA CopyPageInv ==
    ASSUME IInv, CopyPage
    PROVE  IInv'
<1> DEFINE b == Target(gcBlock)
           i == pageCursor[b]
           l == pages[cur][pageIdx]
           loc == <<cur, pageIdx>>
           full == i + 1 = PAGE_NUM_PER_BLOCK
           g == Opened(b)
           h == IF full THEN Insert2GarbageBuckets(g, b, garbageCnt[b]) ELSE g
<1>1. /\ pages' = [pages EXCEPT ![b][i] = l]
      /\ pageCursor' = [pageCursor EXCEPT ![b] = i + 1]
      /\ spaceIndex' = Without(l) \cup {<<l, <<b, i>>>>}
      /\ SetGarbage(h)
      /\ gcBlock' = IF full THEN NULL ELSE b
      /\ writePageLoc' = Append(writePageLoc, <<b, i>>)
      /\ readPageLoc' = Append(readPageLoc, loc)
  BY DEF CopyPage, MayCopy, WriteGCBlock
<1>2. /\ pc = "copy" /\ pc' = "copy" /\ pageIdx < pageCursor[cur] /\ pageIdx' = pageIdx + 1
      /\ l \in LBA /\ TakeTarget(gcBlock)
      /\ UNCHANGED <<garbageCnt, hostBlock, recyleCnt, gcBucketIdx, cur, next, eraseBlockId, freeBefore>>
  BY DEF CopyPage, MayCopy, histVars
<1>3. /\ b \in Blocks /\ blockStatus[b] # "FULL"
      /\ gcBlock # NULL => b = gcBlock
      /\ gcBlock = NULL => blockStatus[b] = "FREE"
      /\ i \in Pages /\ pages[b][i] = WRITEABLE
      /\ freeQ' \in Seq(Blocks) /\ IsInjective(freeQ')
      /\ GarbageOK(g)
      /\ g.status = [blockStatus EXCEPT ![b] = "WRITING"]
      /\ g.wl = garbageWL /\ g.list = buckets
      /\ ToSet(freeQ') = {c \in Blocks : g.status[c] = "FREE"}
      /\ {c \in Blocks : g.status[c] = "WRITING"} = ({hostBlock, gcBlock} \ {NULL}) \cup {b}
  BY <1>2, OpenFacts
<1>4. /\ pages \in [Blocks -> [Pages -> LBA \cup {WRITEABLE, INVALID}]]
      /\ blockStatus \in [Blocks -> {"FREE", "WRITING", "FULL"}]
      /\ pageCursor \in [Blocks -> 0 .. PAGE_NUM_PER_BLOCK]
      /\ garbageCnt \in [Blocks -> Nat] /\ garbageWL \in [Blocks -> Buckets]
      /\ hostBlock \in Blocks \cup {NULL} /\ gcBlock \in Blocks \cup {NULL}
      /\ spaceIndex \subseteq LBA \X Locs
      /\ WalkOK /\ TypeOK
  BY DEF IInv, TypeOK
<1>5. /\ gcBucketIdx \in Buckets /\ Len(buckets[gcBucketIdx]) > 0 /\ cur = buckets[gcBucketIdx][1]
      /\ cur \in Blocks /\ blockStatus[cur] = "FULL" /\ cur # b
  <2>1. gcBucketIdx \in Buckets /\ Len(buckets[gcBucketIdx]) > 0 /\ cur = buckets[gcBucketIdx][1]
    BY <1>2, <1>4 DEF WalkOK
  <2>2. cur \in ToSet(buckets[gcBucketIdx])
    BY <1>4, <2>1 DEF TypeOK, ToSet
  <2>3. cur \in Blocks /\ blockStatus[cur] = "FULL"
    BY <2>1, <2>2 DEF IInv, GarbageOK, Garbage
  <2> QED
    BY <1>3, <2>1, <2>3
<1>6. /\ pageIdx \in Nat /\ pageIdx \in Pages /\ pageIdx + 1 \in 0 .. PAGE_NUM_PER_BLOCK
      /\ loc \in Locs /\ loc \in ValidLocs /\ loc \notin CopiedLocs /\ loc # <<b, i>>
  <2>1. pageIdx \in Nat /\ pageCursor[cur] \in 0 .. PAGE_NUM_PER_BLOCK
    BY <1>4, <1>5, GeometryAssumption DEF TypeOK
  <2>2. pageIdx \in Pages /\ pageIdx + 1 \in 0 .. PAGE_NUM_PER_BLOCK
    BY <1>2, <2>1, GeometryAssumption DEF Pages
  <2>3. loc \in Locs /\ loc \in ValidLocs
    BY <1>2, <1>5, <2>2 DEF Locs, ValidLocs
  <2>4. loc \notin CopiedLocs
    BY <2>1 DEF CopiedLocs
  <2> QED
    BY <1>5, <2>1, <2>2, <2>3, <2>4
<1>7. l # WRITEABLE /\ l # INVALID /\ WRITEABLE # INVALID /\ WRITEABLE \notin LBA /\ INVALID \notin LBA
  BY <1>2, ValueAssumption
<1>8. /\ pages' \in [Blocks -> [Pages -> LBA \cup {WRITEABLE, INVALID}]]
      /\ \A c \in Blocks, j \in Pages : pages'[c][j] = IF c = b /\ j = i THEN l ELSE pages[c][j]
  <2> HIDE DEF b, i, l
  <2> QED BY <1>1, <1>2, <1>3, <1>4
<1> HIDE DEF b, i, l, loc, g
<1>9. /\ GarbageOK(h)
      /\ h.status = IF full THEN [blockStatus EXCEPT ![b] = "FULL"]
                            ELSE [blockStatus EXCEPT ![b] = "WRITING"]
      /\ h.wl = IF full THEN [garbageWL EXCEPT ![b] = GetCurBucketIdx(garbageCnt[b])] ELSE garbageWL
      /\ \A k \in Buckets : KeepsFront(buckets[k], h.list[k])
  <2>1. CASE full
    <3>1. h = Insert2GarbageBuckets(g, b, garbageCnt[b])
      BY <2>1
    <3>2. GarbageOK(g) /\ b \in Blocks /\ g.status[b] # "FULL" /\ garbageCnt[b] \in Nat
      BY <1>3, <1>4
    <3> HIDE DEF h, full
    <3>3. /\ GarbageOK(h)
          /\ h.status = [g.status EXCEPT ![b] = "FULL"]
          /\ h.wl = [g.wl EXCEPT ![b] = GetCurBucketIdx(garbageCnt[b])]
          /\ \A k \in Buckets : KeepsFront(g.list[k], h.list[k])
      BY <3>1, <3>2, InsertFacts
    <3> QED
      BY <1>3, <1>4, <2>1, <3>3
  <2>2. CASE ~full
    <3>1. \A k \in Buckets : KeepsFront(buckets[k], buckets[k])
      BY <1>4 DEF KeepsFront, TypeOK
    <3> QED
      BY <1>3, <2>2, <3>1
  <2> QED BY <2>1, <2>2
<1> HIDE DEF h
<1>10. /\ GarbageOK(Garbage)'
       /\ blockStatus' = h.status /\ garbageWL' = h.wl /\ buckets' = h.list
       /\ blockStatus' \in [Blocks -> {"FREE", "WRITING", "FULL"}]
       /\ garbageWL' \in [Blocks -> Buckets]
       /\ buckets' \in [Buckets -> Seq(Blocks)]
       /\ blockCnt' \in [Buckets -> Int]
  BY <1>1, <1>9, SetGarbageFacts
<1>11. i + 1 \in 0 .. PAGE_NUM_PER_BLOCK /\ i \in Nat
  BY <1>3, GeometryAssumption DEF Pages
<1>12. TypeOK'
  <2>1. pageCursor' \in [Blocks -> 0 .. PAGE_NUM_PER_BLOCK]
    BY <1>1, <1>4, <1>11
  <2>2. gcBlock' \in Blocks \cup {NULL} /\ <<b, i>> \in Locs
    BY <1>1, <1>3 DEF Locs
  <2>3. spaceIndex' \subseteq LBA \X Locs
    <3>1. Without(l) \subseteq LBA \X Locs
      BY <1>4 DEF Without
    <3>2. <<l, <<b, i>>>> \in LBA \X Locs
      BY <1>2, <2>2
    <3> QED
      BY <1>1, <3>1, <3>2
  <2>4. writePageLoc' \in Seq(Locs) /\ readPageLoc' \in Seq(Locs)
    BY <1>1, <1>4, <1>6, <2>2 DEF TypeOK
  <2> QED
    BY <1>2, <1>3, <1>4, <1>6, <1>8, <1>10, <2>1, <2>2, <2>3, <2>4 DEF TypeOK
<1>13. FreeOK'
  <2>1. \A c \in Blocks : blockStatus'[c] = "FREE" <=> g.status[c] = "FREE"
    BY <1>3, <1>4, <1>9, <1>10
  <2> QED
    BY <1>3, <2>1 DEF FreeOK
<1>14. OpenOK'
  <2>1. b # NULL /\ b # hostBlock
    <3>1. gcBlock # NULL => hostBlock # gcBlock
      BY DEF IInv, OpenOK
    <3>2. hostBlock # NULL => hostBlock \in Blocks /\ blockStatus[hostBlock] = "WRITING"
      BY DEF IInv, OpenOK
    <3> QED
      BY <1>3, <3>1, <3>2, NullIsNoBlock
  <2>2. CASE full
    <3>1. {c \in Blocks : blockStatus'[c] = "WRITING"} = {c \in Blocks : g.status[c] = "WRITING"} \ {b}
      BY <1>3, <1>4, <1>9, <1>10, <2>2
    <3>2. gcBlock' = NULL
      BY <1>1, <2>2
    <3> QED
      BY <1>2, <1>3, <2>1, <3>1, <3>2 DEF OpenOK
  <2>3. CASE ~full
    <3>1. {c \in Blocks : blockStatus'[c] = "WRITING"} = {c \in Blocks : g.status[c] = "WRITING"}
      BY <1>3, <1>4, <1>9, <1>10, <2>3
    <3>2. gcBlock' = b
      BY <1>1, <2>3
    <3> QED
      BY <1>2, <1>3, <2>1, <3>1, <3>2 DEF OpenOK
  <2> QED BY <2>2, <2>3
<1>15. CursorOK'
  <2> SUFFICES ASSUME NEW c \in Blocks
               PROVE  /\ \A j \in Pages : pages'[c][j] = WRITEABLE <=> j >= pageCursor'[c]
                      /\ blockStatus'[c] = "FREE" => pageCursor'[c] = 0
                      /\ blockStatus'[c] = "WRITING" => pageCursor'[c] < PAGE_NUM_PER_BLOCK
                      /\ blockStatus'[c] = "FULL" => pageCursor'[c] = PAGE_NUM_PER_BLOCK
    BY DEF CursorOK
  <2>1. /\ \A j \in Pages : pages[c][j] = WRITEABLE <=> j >= pageCursor[c]
        /\ blockStatus[c] = "FREE" => pageCursor[c] = 0
        /\ blockStatus[c] = "WRITING" => pageCursor[c] < PAGE_NUM_PER_BLOCK
        /\ blockStatus[c] = "FULL" => pageCursor[c] = PAGE_NUM_PER_BLOCK
    BY DEF IInv, CursorOK
  <2>2. CASE c = b
    <3>1. pageCursor'[c] = i + 1 /\ pageCursor[c] = i
      BY <1>1, <1>3, <1>4, <2>2 DEF i
    <3>2. ASSUME NEW j \in Pages
          PROVE  pages'[c][j] = WRITEABLE <=> j >= i + 1
      <4>1. j \in Int
        BY GeometryAssumption DEF Pages
      <4>2. pages'[c][j] = IF j = i THEN l ELSE pages[c][j]
        BY <1>8, <2>2
      <4>3. pages[c][j] = WRITEABLE <=> j >= i
        BY <2>1, <3>1
      <4>4. CASE j = i
        BY <1>7, <1>11, <4>2, <4>4
      <4>5. CASE j # i
        <5>1. j >= i <=> j >= i + 1
          BY <1>11, <4>1, <4>5
        <5> QED
          BY <4>2, <4>3, <4>5, <5>1
      <4> QED
        BY <4>4, <4>5
    <3>3. blockStatus'[c] = IF full THEN "FULL" ELSE "WRITING"
      BY <1>3, <1>4, <1>9, <1>10, <2>2
    <3> QED
      BY <1>11, <3>1, <3>2, <3>3, GeometryAssumption
  <2>3. CASE c # b
    <3>1. pageCursor'[c] = pageCursor[c] /\ blockStatus'[c] = blockStatus[c]
      BY <1>1, <1>3, <1>4, <1>9, <1>10, <2>3
    <3>2. \A j \in Pages : pages'[c][j] = pages[c][j]
      BY <1>8, <2>3
    <3> QED
      BY <2>1, <3>1, <3>2
  <2> QED BY <2>2, <2>3
<1>16. LevelOK'
  <2> SUFFICES ASSUME NEW c \in Blocks, blockStatus'[c] = "FULL"
               PROVE  garbageWL'[c] = GetCurBucketIdx(garbageCnt[c])
    BY <1>2 DEF LevelOK, GetCurBucketIdx
  <2>1. CASE c = b
    <3>1. full
      BY <1>3, <1>4, <1>9, <1>10, <2>1
    <3> QED
      BY <1>3, <1>4, <1>9, <1>10, <2>1, <3>1
  <2>2. CASE c # b
    <3>1. garbageWL'[c] = garbageWL[c] /\ blockStatus[c] = "FULL"
      BY <1>3, <1>4, <1>9, <1>10, <2>2
    <3> QED
      BY <3>1 DEF IInv, LevelOK
  <2> QED BY <2>1, <2>2
<1>17. WalkOK'
  <2>1. KeepsFront(buckets[gcBucketIdx], buckets'[gcBucketIdx])
    BY <1>5, <1>9, <1>10
  <2>2. buckets[gcBucketIdx] \in Seq(Blocks) /\ buckets'[gcBucketIdx] \in Seq(Blocks)
    BY <1>4, <1>5, <1>10 DEF TypeOK
  <2>3. Len(buckets'[gcBucketIdx]) > 0 /\ cur = buckets'[gcBucketIdx][1]
    BY <1>5, <2>1, <2>2 DEF KeepsFront
  <2>4. next # NULL => Len(buckets'[gcBucketIdx]) > 1 /\ next = buckets'[gcBucketIdx][2]
    <3>1. next # NULL => Len(buckets[gcBucketIdx]) > 1 /\ next = buckets[gcBucketIdx][2]
      BY <1>2, <1>4 DEF WalkOK
    <3>2. ASSUME Len(buckets[gcBucketIdx]) > 1
          PROVE  Len(buckets'[gcBucketIdx]) > 1 /\ buckets'[gcBucketIdx][2] = buckets[gcBucketIdx][2]
      <4>1. 2 \in 1 .. Len(buckets[gcBucketIdx])
        BY <2>2, <3>2
      <4> QED
        BY <2>1, <2>2, <3>2, <4>1 DEF KeepsFront
    <3> QED
      BY <3>1, <3>2
  <2>5. pageCursor'[cur] = pageCursor[cur] /\ pageCursor[cur] \in Int
    BY <1>1, <1>4, <1>5, GeometryAssumption
  <2>6. pageIdx' <= pageCursor'[cur]
    BY <1>2, <1>6, <2>5
  <2> QED
    BY <1>2, <1>4, <1>5, <2>3, <2>4, <2>6 DEF WalkOK
<1>18. GarbageIsCounted'
  <2>1. \A c \in Blocks : {j \in Pages : pages'[c][j] = INVALID} = {j \in Pages : pages[c][j] = INVALID}
    BY <1>3, <1>7, <1>8
  <2> QED
    BY <1>2, <2>1 DEF IInv, GarbageIsCounted
<1>19. IndexMatchesPages'
  <2>0. CopiedLocs' = CopiedLocs \cup {loc}
    BY <1>2, CopiedGrows DEF loc
  <2>1. /\ \A e \in spaceIndex : pages[e[2][1]][e[2][2]] = e[1] /\ e[2] \notin CopiedLocs
        /\ \A e, f \in spaceIndex : e[1] = f[1] => e = f
        /\ \A m \in ValidLocs \ CopiedLocs : <<pages[m[1]][m[2]], m>> \in spaceIndex
    BY <1>2 DEF IInv, IndexMatchesPages
  <2>2. <<l, loc>> \in spaceIndex
    <3>1. pages[loc[1]][loc[2]] = l
      BY DEF l, loc
    <3> QED
      BY <1>6, <2>1, <3>1
  <2>3. <<b, i>> \notin CopiedLocs'
    BY <1>5, <1>6, <2>0 DEF CopiedLocs, loc
  <2>4. ASSUME NEW e \in spaceIndex'
        PROVE  pages'[e[2][1]][e[2][2]] = e[1] /\ e[2] \notin CopiedLocs'
    <3>1. CASE e = <<l, <<b, i>>>>
      BY <1>3, <1>8, <2>3, <3>1
    <3>2. CASE e \in spaceIndex /\ e[1] # l
      <4>1. /\ e[2][1] \in Blocks /\ e[2][2] \in Pages /\ e[1] \in LBA
            /\ e[2] = <<e[2][1], e[2][2]>>
        BY <1>4, <3>2 DEF Locs
      <4>2. pages[e[2][1]][e[2][2]] = e[1] /\ e[2] \notin CopiedLocs
        BY <2>1, <3>2
      <4>3. ~(e[2][1] = b /\ e[2][2] = i)
        BY <1>3, <1>7, <4>1, <4>2
      <4>4. e[2] # loc
        BY <3>2, <4>2 DEF l, loc
      <4> QED
        BY <1>8, <2>0, <4>1, <4>2, <4>3, <4>4
    <3> QED
      BY <1>1, <3>1, <3>2 DEF Without
  <2>5. ASSUME NEW e \in spaceIndex', NEW f \in spaceIndex', e[1] = f[1]
        PROVE  e = f
    <3>1. e = <<l, <<b, i>>>> \/ (e \in spaceIndex /\ e[1] # l)
      BY <1>1 DEF Without
    <3>2. f = <<l, <<b, i>>>> \/ (f \in spaceIndex /\ f[1] # l)
      BY <1>1 DEF Without
    <3>3. e \in spaceIndex /\ f \in spaceIndex => e = f
      BY <2>1, <2>5
    <3> QED
      BY <2>5, <3>1, <3>2, <3>3
  <2>6. ASSUME NEW m \in ValidLocs' \ CopiedLocs'
        PROVE  <<pages'[m[1]][m[2]], m>> \in spaceIndex'
    <3>1. /\ m[1] \in Blocks /\ m[2] \in Pages /\ m = <<m[1], m[2]>>
          /\ pages'[m[1]][m[2]] \in LBA /\ m \in Locs
      BY DEF ValidLocs, Locs
    <3>2. CASE m = <<b, i>>
      BY <1>1, <1>8, <3>1, <3>2
    <3>3. CASE m # <<b, i>>
      <4>1. pages'[m[1]][m[2]] = pages[m[1]][m[2]]
        BY <1>8, <3>1, <3>3
      <4>2. m \in ValidLocs \ CopiedLocs /\ m # loc
        BY <2>0, <3>1, <4>1 DEF ValidLocs
      <4>3. <<pages[m[1]][m[2]], m>> \in spaceIndex
        BY <2>1, <4>2
      <4>4. pages[m[1]][m[2]] # l
        BY <2>1, <2>2, <4>2, <4>3
      <4>5. <<pages[m[1]][m[2]], m>> \in Without(l)
        BY <4>3, <4>4 DEF Without
      <4>6. <<pages'[m[1]][m[2]], m>> \in Without(l)
        BY <4>1, <4>5
      <4>7. Without(l) \subseteq spaceIndex'
        BY <1>1
      <4> QED
        BY <4>6, <4>7
    <3> QED BY <3>2, <3>3
  <2> QED
    BY <2>4, <2>5, <2>6 DEF IndexMatchesPages
<1> QED
  BY <1>10, <1>12, <1>13, <1>14, <1>15, <1>16, <1>17, <1>18, <1>19 DEF IInv

\* Clearing a block and returning it to the free queue keeps it.
LEMMA RecycleBlockInv ==
    ASSUME IInv, RecycleBlock
    PROVE  IInv'
<1> DEFINE k == gcBucketIdx
           s == buckets[gcBucketIdx]
<1>1. /\ pc = "copy" /\ pageIdx = pageCursor[cur]
      /\ buckets' = [m \in Buckets |-> IF cur \in ToSet(buckets[m]) THEN Unlink(buckets[m], cur) ELSE buckets[m]]
      /\ blockCnt' = [blockCnt EXCEPT ![garbageWL[cur]] = @ - 1]
      /\ pages' = [pages EXCEPT ![cur] = [i \in Pages |-> WRITEABLE]]
      /\ blockStatus' = [blockStatus EXCEPT ![cur] = "FREE"]
      /\ pageCursor' = [pageCursor EXCEPT ![cur] = 0]
      /\ garbageCnt' = [garbageCnt EXCEPT ![cur] = 0]
      /\ garbageWL' = [garbageWL EXCEPT ![cur] = 0]
      /\ freeQ' = Cons(cur, freeQ)
      /\ recyleCnt' = recyleCnt - 1
      /\ eraseBlockId' = Append(eraseBlockId, cur)
      /\ UNCHANGED <<hostBlock, gcBlock, spaceIndex, readPageLoc, writePageLoc, freeBefore>>
  BY DEF RecycleBlock, ReturnBlock2FreeQ, Returned, openVars, histVars
<1>2. \/ /\ pc' = "scan" /\ k' = k - 1
         /\ UNCHANGED <<cur, next, pageIdx>>
      \/ /\ recyleCnt # 1 /\ next # NULL
         /\ cur' = next /\ next' = After(s, next) /\ pageIdx' = 0 /\ k' = k /\ pc' = "copy"
  BY <1>1 DEF RecycleBlock
<1>3. /\ pages \in [Blocks -> [Pages -> LBA \cup {WRITEABLE, INVALID}]]
      /\ blockStatus \in [Blocks -> {"FREE", "WRITING", "FULL"}]
      /\ pageCursor \in [Blocks -> 0 .. PAGE_NUM_PER_BLOCK]
      /\ garbageCnt \in [Blocks -> Nat] /\ garbageWL \in [Blocks -> Buckets]
      /\ freeQ \in Seq(Blocks)
      /\ buckets \in [Buckets -> Seq(Blocks)] /\ blockCnt \in [Buckets -> Int]
      /\ spaceIndex \subseteq LBA \X Locs
      /\ eraseBlockId \in Seq(Blocks)
      /\ WalkOK /\ TypeOK
  BY DEF IInv, TypeOK
<1>4. \A m \in Buckets : /\ blockCnt[m] = Len(buckets[m]) /\ IsInjective(buckets[m])
                         /\ ToSet(buckets[m]) = {c \in Blocks : blockStatus[c] = "FULL" /\ garbageWL[c] = m}
  BY DEF IInv, GarbageOK, Garbage
<1>5. /\ k \in Buckets /\ Len(s) > 0 /\ cur = s[1]
      /\ next # NULL => Len(s) > 1 /\ next = s[2]
      /\ recyleCnt > 0 /\ recyleCnt \in Nat
  BY <1>1, <1>3 DEF WalkOK, TypeOK
<1>6. /\ cur \in ToSet(s) /\ cur \in Blocks /\ blockStatus[cur] = "FULL" /\ garbageWL[cur] = k
      /\ s \in Seq(Blocks) /\ IsInjective(s)
  <2>1. cur \in ToSet(s) /\ s \in Seq(Blocks)
    BY <1>3, <1>5 DEF ToSet
  <2> QED
    BY <1>4, <1>5, <2>1
<1>7. 0 \in Buckets
  BY GeometryAssumption DEF Buckets
<1>8. \A m \in Buckets : m # k => cur \notin ToSet(buckets[m])
  BY <1>4, <1>6
<1>9. /\ buckets'[k] = Unlink(s, cur)
      /\ \A m \in Buckets : m # k => buckets'[m] = buckets[m]
  BY <1>1, <1>5, <1>6, <1>8
<1>10. /\ buckets'[k] \in Seq(Blocks) /\ Len(buckets'[k]) = Len(s) - 1 /\ IsInjective(buckets'[k])
       /\ ToSet(buckets'[k]) = ToSet(s) \ {cur}
       /\ \A i \in 1 .. Len(s) - 1 : buckets'[k][i] = s[i + 1]
  BY <1>5, <1>6, <1>9, UnlinkFacts
<1>11. /\ blockStatus' \in [Blocks -> {"FREE", "WRITING", "FULL"}]
       /\ garbageWL' \in [Blocks -> Buckets]
       /\ blockCnt' \in [Buckets -> Int]
       /\ pageCursor' \in [Blocks -> 0 .. PAGE_NUM_PER_BLOCK]
       /\ garbageCnt' \in [Blocks -> Nat]
  BY <1>1, <1>3, <1>6, <1>7, GeometryAssumption
<1>12. buckets' \in [Buckets -> Seq(Blocks)]
  <2>1. \A m \in Buckets : buckets'[m] \in Seq(Blocks)
    BY <1>3, <1>9, <1>10
  <2> QED
    BY <1>1, <2>1
<1>13. GarbageOK(Garbage)'
  <2>1. ASSUME NEW m \in Buckets
        PROVE  /\ blockCnt'[m] = Len(buckets'[m]) /\ IsInjective(buckets'[m])
               /\ ToSet(buckets'[m]) = {c \in Blocks : blockStatus'[c] = "FULL" /\ garbageWL'[c] = m}
    <3>1. CASE m = k
      <4>1. blockCnt'[m] = blockCnt[k] - 1 /\ blockCnt[k] = Len(s)
        BY <1>1, <1>3, <1>4, <1>5, <1>6, <3>1
      <4>2. {c \in Blocks : blockStatus'[c] = "FULL" /\ garbageWL'[c] = m} = ToSet(s) \ {cur}
        BY <1>1, <1>3, <1>4, <1>6, <3>1
      <4> QED
        BY <1>10, <3>1, <4>1, <4>2
    <3>2. CASE m # k
      <4>1. blockCnt'[m] = blockCnt[m]
        BY <1>1, <1>3, <1>6, <3>2
      <4>2. {c \in Blocks : blockStatus'[c] = "FULL" /\ garbageWL'[c] = m}
              = {c \in Blocks : blockStatus[c] = "FULL" /\ garbageWL[c] = m}
        BY <1>1, <1>3, <1>6, <3>2
      <4> QED
        BY <1>4, <1>9, <3>2, <4>1, <4>2
    <3> QED BY <3>1, <3>2
  <2> QED
    BY <1>11, <1>12, <2>1 DEF GarbageOK, Garbage
<1>14. freeQ' \in Seq(Blocks) /\ FreeOK'
  <2>1. IsInjective(freeQ) /\ ToSet(freeQ) = {c \in Blocks : blockStatus[c] = "FREE"}
    BY DEF IInv, FreeOK
  <2>2. cur \notin ToSet(freeQ)
    BY <1>6, <2>1
  <2>3. /\ freeQ' \in Seq(Blocks) /\ IsInjective(freeQ')
        /\ ToSet(freeQ') = ToSet(freeQ) \cup {cur}
    <3>1. /\ freeQ \in Seq(Blocks) /\ cur \in Blocks /\ freeQ' = Cons(cur, freeQ)
          /\ IsInjective(freeQ)
      BY <1>1, <1>3, <1>6, <2>1
    <3> QED
      BY <2>2, <3>1, ConsFacts
  <2>4. ToSet(freeQ') = {c \in Blocks : blockStatus'[c] = "FREE"}
    BY <1>1, <1>3, <1>6, <2>1, <2>3
  <2> QED
    BY <2>3, <2>4 DEF FreeOK
<1>15. OpenOK'
  <2>1. {c \in Blocks : blockStatus'[c] = "WRITING"} = {c \in Blocks : blockStatus[c] = "WRITING"}
    BY <1>1, <1>3, <1>6
  <2> QED
    BY <1>1, <2>1 DEF IInv, OpenOK
<1>16. /\ pages' \in [Blocks -> [Pages -> LBA \cup {WRITEABLE, INVALID}]]
       /\ \A j \in Pages : pages'[cur][j] = WRITEABLE
       /\ \A c \in Blocks : c # cur => pages'[c] = pages[c]
  BY <1>1, <1>3, <1>6
<1>17. CursorOK'
  <2> SUFFICES ASSUME NEW c \in Blocks
               PROVE  /\ \A j \in Pages : pages'[c][j] = WRITEABLE <=> j >= pageCursor'[c]
                      /\ blockStatus'[c] = "FREE" => pageCursor'[c] = 0
                      /\ blockStatus'[c] = "WRITING" => pageCursor'[c] < PAGE_NUM_PER_BLOCK
                      /\ blockStatus'[c] = "FULL" => pageCursor'[c] = PAGE_NUM_PER_BLOCK
    BY DEF CursorOK
  <2>1. CASE c = cur
    <3>1. pageCursor'[c] = 0 /\ blockStatus'[c] = "FREE"
      BY <1>1, <1>3, <1>6, <2>1
    <3>2. \A j \in Pages : j >= 0
      BY GeometryAssumption DEF Pages
    <3> QED
      BY <1>16, <2>1, <3>1, <3>2
  <2>2. CASE c # cur
    <3>1. pageCursor'[c] = pageCursor[c] /\ blockStatus'[c] = blockStatus[c] /\ pages'[c] = pages[c]
      BY <1>1, <1>3, <1>6, <1>16, <2>2
    <3> QED
      BY <3>1 DEF IInv, CursorOK
  <2> QED BY <2>1, <2>2
<1>18. LevelOK'
  <2> SUFFICES ASSUME NEW c \in Blocks, blockStatus'[c] = "FULL"
               PROVE  garbageWL'[c] = GetCurBucketIdx(garbageCnt'[c])
    BY DEF LevelOK, GetCurBucketIdx
  <2>1. c # cur
    BY <1>1, <1>3, <1>6
  <2>2. garbageWL'[c] = garbageWL[c] /\ garbageCnt'[c] = garbageCnt[c] /\ blockStatus[c] = "FULL"
    BY <1>1, <1>3, <1>6, <2>1
  <2> QED
    BY <2>2 DEF IInv, LevelOK
<1>19. GarbageIsCounted'
  <2> SUFFICES ASSUME NEW c \in Blocks
               PROVE  garbageCnt'[c] = Cardinality({j \in Pages : pages'[c][j] = INVALID})
    BY DEF GarbageIsCounted
  <2>1. CASE c = cur
    <3>1. {j \in Pages : pages'[c][j] = INVALID} = {}
      BY <1>16, <2>1, ValueAssumption
    <3> QED
      BY <1>1, <1>3, <1>6, <2>1, <3>1, FS_EmptySet
  <2>2. CASE c # cur
    BY <1>1, <1>3, <1>6, <1>16, <2>2 DEF IInv, GarbageIsCounted
  <2> QED BY <2>1, <2>2
<1>20. next # NULL => next \in Blocks /\ next # cur
  <2> SUFFICES ASSUME next # NULL PROVE next \in Blocks /\ next # cur
    OBVIOUS
  <2>1. 1 \in 1 .. Len(s) /\ 2 \in 1 .. Len(s) /\ next = s[2]
    BY <1>5, <1>6
  <2> QED
    BY <1>5, <1>6, <2>1 DEF IsInjective
<1>21. pc' = "copy" => WalkOK' /\ next' \in Blocks \cup {NULL}
  <2> SUFFICES ASSUME pc' = "copy" PROVE WalkOK' /\ next' \in Blocks \cup {NULL}
    OBVIOUS
  <2>1. /\ recyleCnt # 1 /\ next # NULL
        /\ cur' = next /\ next' = After(s, next) /\ pageIdx' = 0 /\ k' = k
    BY <1>2
  <2>2. Len(s) \in Nat /\ Len(s) > 1 /\ next = s[2]
    BY <1>5, <1>6, <2>1
  <2>3. Position(s, next) = 2
    <3>1. 2 \in 1 .. Len(s)
      BY <2>2
    <3>2. next \in ToSet(s)
      BY <1>6, <2>2, <3>1 DEF ToSet
    <3>3. Position(s, next) \in 1 .. Len(s) /\ s[Position(s, next)] = next
      BY <1>6, <3>2, PositionFacts
    <3> QED
      BY <1>6, <2>2, <3>1, <3>3 DEF IsInjective
  <2>4. next' = IF Len(s) = 2 THEN NULL ELSE s[3]
    BY <2>1, <2>2, <2>3 DEF After
  <2>5. Len(buckets'[k]) > 0 /\ cur' = buckets'[k][1]
    <3>1. 1 \in 1 .. Len(s) - 1
      BY <2>2
    <3> QED
      BY <1>10, <2>1, <2>2, <3>1
  <2>6. ASSUME next' # NULL
        PROVE  Len(buckets'[k]) > 1 /\ next' = buckets'[k][2] /\ next' \in Blocks
    <3>1. Len(s) # 2 /\ next' = s[3]
      BY <2>4, <2>6
    <3>n. Len(s) \in Nat /\ Len(s) > 1 /\ Len(s) # 2
      BY <2>2, <3>1
    <3>2. 2 \in 1 .. Len(s) - 1 /\ 3 \in 1 .. Len(s) /\ Len(s) - 1 > 1
      BY <3>n, FewIndices
    <3>3. s[3] \in Blocks
      BY <1>6, <3>2
    <3>4. buckets'[k][2] = s[3]
      BY <1>10, <3>2
    <3>5. Len(buckets'[k]) > 1
      <4>1. Len(buckets'[k]) = Len(s) - 1
        BY <1>10
      <4> QED
        BY <4>1, <3>2
    <3> QED
      BY <3>1, <3>3, <3>4, <3>5
  <2>7. recyleCnt' > 0
    BY <1>1, <1>5, <2>1
  <2>8. pageIdx' <= pageCursor'[cur']
    <3>1. pageCursor'[cur'] \in 0 .. PAGE_NUM_PER_BLOCK
      BY <1>11, <1>20, <2>1
    <3> QED
      BY <2>1, <3>1, GeometryAssumption
  <2> QED
    BY <1>5, <2>1, <2>5, <2>6, <2>7, <2>8 DEF WalkOK
<1>22. WalkOK'
  <2>1. CASE pc' # "copy"
    BY <2>1 DEF WalkOK
  <2> QED
    BY <2>1, <1>21
<1>23. TypeOK'
  <2>1. recyleCnt' \in Nat
    BY <1>1, <1>5
  <2>2. /\ pc' \in {"scan", "copy"} /\ k' \in Buckets \cup {-1}
        /\ cur' \in Blocks \cup {NULL} /\ next' \in Blocks \cup {NULL}
        /\ pageIdx' \in 0 .. PAGE_NUM_PER_BLOCK
    <3>1. CASE pc' = "copy"
      BY <1>2, <1>5, <1>20, <1>21, <3>1, GeometryAssumption
    <3>2. CASE pc' # "copy"
      <4>1. k - 1 \in Buckets \cup {-1}
        BY <1>5, GeometryAssumption DEF Buckets
      <4> QED
        BY <1>2, <1>3, <3>2, <4>1 DEF TypeOK
    <3> QED BY <3>1, <3>2
  <2>3. eraseBlockId' \in Seq(Blocks)
    BY <1>1, <1>3, <1>6
  <2> QED
    BY <1>1, <1>3, <1>11, <1>12, <1>14, <1>16, <2>1, <2>2, <2>3 DEF TypeOK
<1>24. IndexMatchesPages'
  <2>1. /\ \A e \in spaceIndex : pages[e[2][1]][e[2][2]] = e[1] /\ e[2] \notin CopiedLocs
        /\ \A e, f \in spaceIndex : e[1] = f[1] => e = f
        /\ \A m \in ValidLocs \ CopiedLocs : <<pages[m[1]][m[2]], m>> \in spaceIndex
    BY <1>1 DEF IInv, IndexMatchesPages
  <2>2. CopiedLocs' = {}
    <3>1. CASE pc' = "copy"
      BY <1>2, <3>1 DEF CopiedLocs
    <3>2. CASE pc' # "copy"
      BY <3>2 DEF CopiedLocs
    <3> QED BY <3>1, <3>2
  <2>3. \A j \in Pages : <<cur, j>> \in CopiedLocs
    <3>1. pageIdx = PAGE_NUM_PER_BLOCK
      BY <1>1, <1>6 DEF IInv, CursorOK
    <3>2. Pages = 0 .. pageIdx - 1
      BY <3>1 DEF Pages
    <3> QED
      BY <1>1, <3>2 DEF CopiedLocs
  <2>4. ASSUME NEW e \in spaceIndex
        PROVE  pages'[e[2][1]][e[2][2]] = e[1]
    <3>1. e[2][1] \in Blocks /\ e[2][2] \in Pages /\ e[2] = <<e[2][1], e[2][2]>>
      <4>1. spaceIndex \subseteq LBA \X Locs
        BY <1>3
      <4>2. e[2] \in Blocks \X Pages
        BY <4>1 DEF Locs
      <4> QED
        BY <4>2
    <3>2. e[2][1] # cur
      BY <2>1, <2>3, <3>1, ZenonT(60)
    <3>3. pages'[e[2][1]][e[2][2]] = pages[e[2][1]][e[2][2]]
      BY <1>16, <3>1, <3>2
    <3> QED
      BY <2>1, <3>3
  <2>5. ASSUME NEW m \in ValidLocs'
        PROVE  <<pages'[m[1]][m[2]], m>> \in spaceIndex
    <3>1. /\ m[1] \in Blocks /\ m[2] \in Pages /\ m \in Locs
          /\ pages'[m[1]][m[2]] \in LBA
      BY DEF ValidLocs, Locs
    <3>2. m[1] # cur
      BY <1>16, <3>1, ValueAssumption
    <3>3. pages'[m[1]] = pages[m[1]]
      BY <1>16, <3>1, <3>2
    <3>4. m \in ValidLocs \ CopiedLocs
      BY <3>1, <3>2, <3>3 DEF ValidLocs, CopiedLocs
    <3> QED
      BY <2>1, <3>3, <3>4
  <2> QED
    BY <1>1, <2>1, <2>2, <2>4, <2>5 DEF IndexMatchesPages
<1> QED
  BY <1>13, <1>14, <1>15, <1>17, <1>18, <1>19, <1>22, <1>23, <1>24 DEF IInv

-----------------------------------------------------------------------------
(* The invariant holds at the start and is kept by every step.              *)

\* A new disk satisfies it.
LEMMA InitInv ==
    ASSUME Init
    PROVE  IInv
<1>1. 0 \in Buckets
  BY GeometryAssumption DEF Buckets
<1>2. freeQ \in Seq(Blocks) /\ IsInjective(freeQ) /\ ToSet(freeQ) = Blocks
  <2>1. freeQ = [i \in 1 .. totalBlockCnt |-> totalBlockCnt - i] /\ totalBlockCnt \in Nat
    BY GeometryAssumption DEF Init
  <2>2. \A i \in 1 .. totalBlockCnt : totalBlockCnt - i \in Blocks
    BY <2>1 DEF Blocks
  <2>3. freeQ \in Seq(Blocks) /\ Len(freeQ) = totalBlockCnt
    BY <2>1, <2>2
  <2>4. IsInjective(freeQ)
    BY <2>1 DEF IsInjective
  <2>5. ASSUME NEW b \in Blocks PROVE b \in ToSet(freeQ)
    <3>1. totalBlockCnt - b \in 1 .. totalBlockCnt /\ totalBlockCnt - (totalBlockCnt - b) = b
      BY <2>1 DEF Blocks
    <3>2. freeQ[totalBlockCnt - b] = b
      BY <2>1, <3>1
    <3> QED
      BY <2>1, <2>3, <3>1, <3>2 DEF ToSet
  <2>6. ASSUME NEW b \in ToSet(freeQ) PROVE b \in Blocks
    BY <2>3, <2>6 DEF ToSet
  <2> QED
    BY <2>3, <2>4, <2>5, <2>6
<1>3. TypeOK
  <2>1. /\ pages \in [Blocks -> [Pages -> LBA \cup {WRITEABLE, INVALID}]]
        /\ blockStatus \in [Blocks -> {"FREE", "WRITING", "FULL"}]
        /\ pageCursor \in [Blocks -> 0 .. PAGE_NUM_PER_BLOCK]
        /\ garbageCnt \in [Blocks -> Nat] /\ garbageWL \in [Blocks -> Buckets]
        /\ buckets \in [Buckets -> Seq(Blocks)] /\ blockCnt \in [Buckets -> Int]
    BY <1>1, GeometryAssumption DEF Init
  <2>2. /\ pageIdx \in 0 .. PAGE_NUM_PER_BLOCK /\ recyleCnt \in Nat /\ freeBefore \in Nat
        /\ gcBucketIdx \in Buckets \cup {-1}
    BY <1>1, GeometryAssumption DEF Init
  <2>3. /\ spaceIndex \subseteq LBA \X Locs
        /\ eraseBlockId \in Seq(Blocks)
        /\ readPageLoc \in Seq(Locs) /\ writePageLoc \in Seq(Locs)
        /\ hostBlock \in Blocks \cup {NULL} /\ gcBlock \in Blocks \cup {NULL}
        /\ cur \in Blocks \cup {NULL} /\ next \in Blocks \cup {NULL}
        /\ pc \in {"idle", "written", "scan", "copy", "corrupt"}
    BY DEF Init
  <2> QED
    BY <1>2, <2>1, <2>2, <2>3 DEF TypeOK
<1>4. GarbageOK(Garbage)
  <2>1. ASSUME NEW k \in Buckets
        PROVE  /\ blockCnt[k] = Len(buckets[k]) /\ IsInjective(buckets[k])
               /\ ToSet(buckets[k]) = {b \in Blocks : blockStatus[b] = "FULL" /\ garbageWL[b] = k}
    <3>1. buckets[k] = <<>> /\ blockCnt[k] = 0 /\ \A b \in Blocks : blockStatus[b] = "FREE"
      BY DEF Init
    <3> QED
      BY <3>1 DEF IsInjective, ToSet
  <2> QED
    BY <1>3, <2>1 DEF GarbageOK, Garbage, TypeOK
<1>5. FreeOK
  BY <1>2 DEF Init, FreeOK
<1>6. OpenOK
  BY NullIsNoBlock DEF Init, OpenOK
<1>7. CursorOK
  BY GeometryAssumption, ValueAssumption DEF Init, CursorOK, Pages
<1>8. LevelOK
  BY DEF Init, LevelOK
<1>9. WalkOK
  BY DEF Init, WalkOK
<1>10. IndexMatchesPages
  BY ValueAssumption DEF Init, IndexMatchesPages, ValidLocs, Locs
<1>11. GarbageIsCounted
  <2> SUFFICES ASSUME NEW b \in Blocks
               PROVE  garbageCnt[b] = Cardinality({i \in Pages : pages[b][i] = INVALID})
    BY DEF GarbageIsCounted
  <2>1. {i \in Pages : pages[b][i] = INVALID} = {}
    BY ValueAssumption DEF Init
  <2> QED
    BY <2>1, FS_EmptySet DEF Init
<1> QED
  BY <1>3, <1>4, <1>5, <1>6, <1>7, <1>8, <1>9, <1>10, <1>11 DEF IInv

\* A step that changes nothing keeps it.
LEMMA StutterInv ==
    ASSUME IInv, UNCHANGED vars
    PROVE  IInv'
<1>1. UNCHANGED <<blockVars, listVars, openVars, spaceIndex, pc, walkVars, outVars, histVars>>
  BY DEF vars
<1>2. /\ GarbageOK(Garbage)' /\ FreeOK' /\ OpenOK' /\ CursorOK' /\ LevelOK'
      /\ GarbageIsCounted'
  BY <1>1, ControlFacts
<1>3. TypeOK' /\ WalkOK' /\ IndexMatchesPages'
  BY <1>1 DEF IInv, TypeOK, WalkOK, IndexMatchesPages, ValidLocs, CopiedLocs, After, Position,
              blockVars, listVars, openVars, walkVars, outVars, histVars
<1> QED
  BY <1>2, <1>3 DEF IInv

\* Every step keeps it.
LEMMA StepInv == IInv /\ [Next]_vars => IInv'
<1> SUFFICES ASSUME IInv, [Next]_vars PROVE IInv'
  OBVIOUS
<1>1. CASE \E l \in LBA : WriteIO(l)
  BY <1>1, WriteIOInv
<1>2. CASE \E l \in LBA : Delete(l)
  BY <1>2, DeleteInv
<1>3. CASE \/ EndWrite \/ StartGC \/ NextBucket \/ EndGC \/ BucketIdxWraps \/ AllocationFails
  BY <1>3, ControlInv
<1>4. CASE EnterBucket
  BY <1>4, EnterBucketInv
<1>5. CASE CopyPage
  BY <1>5, CopyPageInv
<1>6. CASE SkipPage
  BY <1>6, SkipPageInv
<1>7. CASE RecycleBlock
  BY <1>7, RecycleBlockInv
<1>8. CASE UNCHANGED vars
  BY <1>8, StutterInv
<1> QED
  BY <1>1, <1>2, <1>3, <1>4, <1>5, <1>6, <1>7, <1>8 DEF Next, HostStep, GCStep, Fault

\* It holds in every behaviour.
LEMMA IInvAlways == Spec => []IInv
  BY InitInv, StepInv, PTL DEF Spec

-----------------------------------------------------------------------------
(* What holds of the flash translation layer for every geometry, water      *)
(* level and set of addresses, and at any moment of a garbage collection.   *)

\* No variable leaves the values its C type and use allow: no cursor runs past
\* a block, no bucket index past the array, whatever is written and collected.
THEOREM TypeCorrect == Spec => []TypeOK
<1>1. IInv => TypeOK
  BY DEF IInv
<1> QED
  BY <1>1, IInvAlways, PTL

\* Query after WriteIO, Delete and WriteGCBlock always leads to the page that
\* holds the address, and no VALID page is without its entry (gc_module.c).
THEOREM IndexCorrect == Spec => []IndexMatchesPages
<1>1. IInv => IndexMatchesPages
  BY DEF IInv
<1> QED
  BY <1>1, IInvAlways, PTL

\* TryAllocBlockFromFreeQ only ever returns a cleared block.
LEMMA FreeBlocksClean == ASSUME IInv PROVE FreeBlocksAreClean
<1> SUFFICES ASSUME NEW b \in ToSet(freeQ)
             PROVE  /\ blockStatus[b] = "FREE" /\ pageCursor[b] = 0
                    /\ \A i \in Pages : pages[b][i] = WRITEABLE
  BY DEF FreeBlocksAreClean
<1>1. b \in Blocks /\ blockStatus[b] = "FREE"
  BY DEF IInv, FreeOK
<1>2. pageCursor[b] = 0 /\ \A i \in Pages : pages[b][i] = WRITEABLE <=> i >= 0
  BY <1>1 DEF IInv, CursorOK
<1>3. \A i \in Pages : i >= 0
  BY GeometryAssumption DEF Pages
<1> QED
  BY <1>1, <1>2, <1>3

\* list_del_init and list_add_tail never lose a block or put it in two lists, and
\* TryAllocBlockFromFreeQ finds the free ones cleared.
THEOREM PartitionCorrect == Spec => []BlocksArePartitioned
<1>1. IInv => BlocksArePartitioned
  <2> SUFFICES ASSUME IInv PROVE BlocksArePartitioned
    OBVIOUS
  <2>1. \A k \in Buckets :
          /\ IsInjective(buckets[k])
          /\ ToSet(buckets[k]) = {b \in Blocks : blockStatus[b] = "FULL" /\ garbageWL[b] = k}
    BY DEF IInv, GarbageOK, Garbage
  <2>2. FreeBlocksAreClean
    BY FreeBlocksClean
  <2> QED
    BY <2>1, <2>2 DEF IInv, FreeOK, OpenOK, BlocksArePartitioned
<1> QED
  BY <1>1, IInvAlways, PTL

\* MarkPageInvalid and ReturnBlock2FreeQ keep garbageCnt exact.
THEOREM GarbageCorrect == Spec => []GarbageIsCounted
<1>1. IInv => GarbageIsCounted
  BY DEF IInv
<1> QED
  BY <1>1, IInvAlways, PTL

\* Insert2GarbageBuckets, AdjustGarbageBuckets and ReturnBlock2FreeQ keep every
\* FULL block in the bucket of its garbage, and blockCnt with it.
THEOREM BucketsCorrect == Spec => []BucketsMatchGarbage
<1>1. IInv => BucketsMatchGarbage
  BY DEF IInv, GarbageOK, Garbage, LevelOK, BucketsMatchGarbage
<1> QED
  BY <1>1, IInvAlways, PTL

-----------------------------------------------------------------------------
(* GCModule implements PageMap.                                             *)

\* What a reader of index S finds for l.
Found(S, l) ==
    LET locs == {e[2] : e \in {f \in S : f[1] = l}}
    IN  IF locs # {} THEN CHOOSE loc \in locs : TRUE ELSE NULL

\* With one entry per address, the reader finds that entry.
LEMMA FoundFacts ==
    ASSUME NEW S \in SUBSET (LBA \X Locs), \A e, f \in S : e[1] = f[1] => e = f, NEW l \in LBA
    PROVE  /\ Found(S, l) \in Locs \cup {NULL}
           /\ \A loc \in Locs : Found(S, l) = loc <=> <<l, loc>> \in S
<1> DEFINE locs == {e[2] : e \in {f \in S : f[1] = l}}
<1>1. locs \subseteq Locs /\ \A loc \in Locs : loc \in locs <=> <<l, loc>> \in S
  OBVIOUS
<1>2. \A loc, m \in Locs : <<l, loc>> \in S /\ <<l, m>> \in S => loc = m
  OBVIOUS
<1>3. Found(S, l) = IF locs # {} THEN CHOOSE loc \in locs : TRUE ELSE NULL
  BY DEF Found
<1> HIDE DEF locs
<1>4. CASE locs = {}
  BY <1>1, <1>3, <1>4, NullIsNoBlock
<1>5. CASE locs # {}
  <2>1. PICK m \in locs : Found(S, l) = m
    BY <1>3, <1>5
  <2> QED BY <1>1, <1>2, <2>1
<1> QED BY <1>4, <1>5

\* ReadIO before and after a step.
LEMMA ReadIOFacts ==
    ASSUME IInv
    PROVE  /\ spaceIndex \in SUBSET (LBA \X Locs)
           /\ \A e, f \in spaceIndex : e[1] = f[1] => e = f
           /\ \A l \in LBA : ReadIO(l) = Found(spaceIndex, l)
BY DEF IInv, TypeOK, IndexMatchesPages, ReadIO, IsExist, Query, Found

\* After a step too, ReadIO finds what the index has.
LEMMA ReadIOFactsNext ==
    ASSUME IInv'
    PROVE  /\ spaceIndex' \in SUBSET (LBA \X Locs)
           /\ \A e, f \in spaceIndex' : e[1] = f[1] => e = f
           /\ \A l \in LBA : ReadIO(l)' = Found(spaceIndex', l)
BY DEF IInv, TypeOK, IndexMatchesPages, ReadIO, IsExist, Query, Found

\* A write and a copy: the address moves to a page that no address had.
LEMMA PlaceRefines ==
    ASSUME IInv, IInv', NEW l \in LBA, NEW loc \in Locs,
           pages[loc[1]][loc[2]] = WRITEABLE,
           spaceIndex' = Without(l) \cup {<<l, loc>>}
    PROVE  Store!Place(l)
<1>1. \A k \in LBA : ReadIO(k) # loc
  <2> SUFFICES ASSUME NEW k \in LBA, <<k, loc>> \in spaceIndex PROVE FALSE
    BY ReadIOFacts, FoundFacts
  <2>1. pages[loc[1]][loc[2]] = k
    BY DEF IInv, IndexMatchesPages
  <2> QED BY <2>1, ValueAssumption
<1>2. loc \in Store!Fresh
  BY <1>1 DEF Store!Fresh, Store!Used
<1>3. ASSUME NEW k \in LBA PROVE ReadIO(k)' = IF k = l THEN loc ELSE ReadIO(k)
  <2>1. CASE k = l
    <3>1. <<k, loc>> \in spaceIndex'
      BY <2>1
    <3>2. \A m \in Locs : ReadIO(k)' = m <=> <<k, m>> \in spaceIndex'
      BY ReadIOFactsNext, FoundFacts
    <3> QED BY <2>1, <3>1, <3>2
  <2>2. CASE k # l
    <3>1. \A m \in Locs : <<k, m>> \in spaceIndex' <=> <<k, m>> \in spaceIndex
      BY <2>2 DEF Without
    <3>2. /\ ReadIO(k) \in Locs \cup {NULL} /\ ReadIO(k)' \in Locs \cup {NULL}
          /\ \A m \in Locs : ReadIO(k) = m <=> <<k, m>> \in spaceIndex
          /\ \A m \in Locs : ReadIO(k)' = m <=> <<k, m>> \in spaceIndex'
      BY ReadIOFacts, ReadIOFactsNext, FoundFacts
    <3> QED BY <2>2, <3>1, <3>2
  <2> QED BY <2>1, <2>2
<1>4. [k \in LBA |-> ReadIO(k)]' = [[k \in LBA |-> ReadIO(k)] EXCEPT ![l] = loc]
  BY <1>3
<1> QED BY <1>2, <1>4 DEF Store!Place

\* A delete: the address is dropped, and it was there.
LEMMA DeleteRefines ==
    ASSUME IInv, IInv', NEW l \in LBA, Delete(l)
    PROVE  Store!Delete(l)
<1>1. spaceIndex' = Without(l) /\ Query(l) # {}
  BY DEF Delete
<1>2. PICK loc \in Locs : <<l, loc>> \in spaceIndex
  BY <1>1, ReadIOFacts DEF Query
<1>3. ReadIO(l) = loc /\ loc # NULL
  BY <1>2, ReadIOFacts, FoundFacts, NullIsNoBlock
<1>4. ASSUME NEW k \in LBA PROVE ReadIO(k)' = IF k = l THEN NULL ELSE ReadIO(k)
  <2>1. /\ ReadIO(k) \in Locs \cup {NULL} /\ ReadIO(k)' \in Locs \cup {NULL}
        /\ \A m \in Locs : ReadIO(k) = m <=> <<k, m>> \in spaceIndex
        /\ \A m \in Locs : ReadIO(k)' = m <=> <<k, m>> \in spaceIndex'
    BY ReadIOFacts, ReadIOFactsNext, FoundFacts
  <2>2. \A m \in Locs : <<k, m>> \in spaceIndex' <=> k # l /\ <<k, m>> \in spaceIndex
    BY <1>1 DEF Without
  <2> QED BY <2>1, <2>2
<1>5. [k \in LBA |-> ReadIO(k)]' = [[k \in LBA |-> ReadIO(k)] EXCEPT ![l] = NULL]
  BY <1>4
<1> QED BY <1>3, <1>5 DEF Store!Delete

\* Every step is one of the map's, or leaves the map alone.
LEMMA StepRefines ==
    ASSUME IInv, IInv', [Next]_vars
    PROVE  [Store!Next]_[l \in LBA |-> ReadIO(l)]
<1>1. ASSUME NEW l \in LBA, WriteIO(l) PROVE Store!Place(l)
  <2> DEFINE b == Target(hostBlock)
  <2>1. TakeTarget(hostBlock) /\ spaceIndex' = Without(l) \cup {<<l, <<b, pageCursor[b]>>>>}
    BY <1>1 DEF WriteIO, WriteIOTo
  <2>2. b \in Blocks /\ pageCursor[b] \in Pages /\ pages[b][pageCursor[b]] = WRITEABLE
    BY <2>1, OpenFacts
  <2> HIDE DEF b
  <2>3. <<b, pageCursor[b]>> \in Locs
    BY <2>2 DEF Locs
  <2> QED BY <2>1, <2>2, <2>3, PlaceRefines
<1>2. ASSUME CopyPage PROVE \E l \in LBA : Store!Place(l)
  <2> DEFINE b == Target(gcBlock)
             l == pages[cur][pageIdx]
  <2>1. l \in LBA /\ TakeTarget(gcBlock) /\ spaceIndex' = Without(l) \cup {<<l, <<b, pageCursor[b]>>>>}
    BY <1>2 DEF CopyPage, MayCopy, WriteGCBlock
  <2>2. b \in Blocks /\ pageCursor[b] \in Pages /\ pages[b][pageCursor[b]] = WRITEABLE
    BY <2>1, OpenFacts
  <2> HIDE DEF b, l
  <2>3. <<b, pageCursor[b]>> \in Locs
    BY <2>2 DEF Locs
  <2> QED BY <2>1, <2>2, <2>3, PlaceRefines
<1>3. ASSUME NEW l \in LBA, Delete(l) PROVE Store!Delete(l)
  BY <1>3, DeleteRefines
<1>4. ASSUME UNCHANGED spaceIndex PROVE UNCHANGED [l \in LBA |-> ReadIO(l)]
  BY <1>4 DEF ReadIO, IsExist, Query
<1>5. CASE \/ EndWrite \/ StartGC \/ NextBucket \/ EnterBucket \/ SkipPage \/ RecycleBlock \/ EndGC
           \/ BucketIdxWraps \/ AllocationFails \/ UNCHANGED vars
  BY <1>4, <1>5 DEF EndWrite, StartGC, NextBucket, EnterBucket, SkipPage, RecycleBlock, EndGC,
                    BucketIdxWraps, AllocationFails, Corrupt, vars
<1> QED
  BY <1>1, <1>2, <1>3, <1>5 DEF Next, HostStep, GCStep, Fault, Store!Next

\* gc_module.c is a map from addresses to pages of their own: WriteIO, Delete and
\* WriteGCBlock each change one address of it, and no other step changes any.
THEOREM PageMapImplemented == Spec => ImplementsPageMap
<1>1. Init => Store!Init
  BY DEF Init, Store!Init, ReadIO, IsExist, Query
<1>2. IInv /\ IInv' /\ [Next]_vars => [Store!Next]_[l \in LBA |-> ReadIO(l)]
  BY StepRefines
<1> QED
  BY <1>1, <1>2, IInvAlways, PTL DEF Spec, ImplementsPageMap, Store!Spec

-----------------------------------------------------------------------------
(* How much room there is.  Every page that a GC copies uses one, and every  *)
(* block it recycles gives back a whole block of them.                      *)

\* The pages left in an open block.
Room(open) == IF open = NULL THEN 0 ELSE PAGE_NUM_PER_BLOCK - pageCursor[open]

\* The pages that GC can fill before it needs a block it recycled itself.
GCRoom == PAGE_NUM_PER_BLOCK * Len(freeQ) + Room(gcBlock)

\* The pages of the victim that are walked already: at the end of the victim they
\* come back as clean ones.
Walked == IF pc = "copy" THEN pageIdx ELSE 0

Collecting == pc \in {"scan", "copy"}

\* An open block has a page written to it.
RoomOK == \A b \in {hostBlock, gcBlock} \ {NULL} : pageCursor[b] > 0

\* GC has not used more room than it gave back.
KeepOK == Collecting => GCRoom + Walked >= PAGE_NUM_PER_BLOCK * freeBefore

\* Products of naturals, one step at a time.
LEMMA Products ==
    ASSUME NEW p \in Nat, NEW n \in Nat
    PROVE  /\ p * n \in Nat
           /\ p * (n + 1) = p * n + p
           /\ n > 0 => p * (n - 1) = p * n - p
OBVIOUS

\* A product grows with its factor.
LEMMA ProductsGrow ==
    ASSUME NEW p \in Nat, NEW m \in Nat, NEW n \in Nat, m <= n
    PROVE  p * m <= p * n
<1>1. n - m \in Nat
  OBVIOUS
<1>2. p * (n - m) \in Nat
  BY <1>1, Products
<1>3. p * (n - m) = p * n - p * m
  OBVIOUS
<1>4. p * n \in Nat /\ p * m \in Nat
  BY Products
<1> QED
  BY <1>2, <1>3, <1>4

\* Less than a block more of pages is not a block more.
LEMMA WholeBlocks ==
    ASSUME NEW p \in Nat, NEW m \in Nat, NEW n \in Nat, NEW r \in Nat, r < p,
           p * m + r >= p * n
    PROVE  m >= n
<1> SUFFICES ASSUME m + 1 <= n PROVE FALSE
  OBVIOUS
<1>1. p * (m + 1) <= p * n
  BY ProductsGrow
<1>2. p * (m + 1) = p * m + p /\ p * m \in Nat /\ p * n \in Nat
  BY Products
<1> QED
  BY <1>1, <1>2

\* Taking the last element makes a list shorter by one.
LEMMA FrontLength ==
    ASSUME NEW S, NEW s \in Seq(S), s # <<>>
    PROVE  Len(s) > 0 /\ Len(Front(s)) = Len(s) - 1
<1>1. Len(s) \in Nat \ {0}
  OBVIOUS
<1>2. ASSUME NEW n \in 0 .. Len(s)
      PROVE  SubSeq(s, 1, n) \in Seq(S) /\ Len(SubSeq(s, 1, n)) = n
  OBVIOUS
<1>3. Len(s) - 1 \in 0 .. Len(s)
  BY <1>1
<1>4. Len(SubSeq(s, 1, Len(s) - 1)) = Len(s) - 1
  BY <1>2, <1>3
<1> QED
  BY <1>1, <1>4 DEF Front

\* Adding a head moves the others down.
LEMMA ConsElements ==
    ASSUME NEW S, NEW s \in Seq(S), NEW x \in S
    PROVE  /\ Cons(x, s) \in Seq(S) /\ Len(Cons(x, s)) = Len(s) + 1
           /\ Cons(x, s)[1] = x
           /\ \A i \in 1 .. Len(s) : Cons(x, s)[i + 1] = s[i]
BY DEF Cons

\* An open block has less room than a whole one.
LEMMA RoomFacts ==
    ASSUME IInv, RoomOK, NEW open \in {hostBlock, gcBlock}
    PROVE  /\ PAGE_NUM_PER_BLOCK \in Nat \ {0}
           /\ Room(open) \in Nat /\ Room(open) < PAGE_NUM_PER_BLOCK
           /\ Len(freeQ) \in Nat /\ PAGE_NUM_PER_BLOCK * Len(freeQ) \in Nat
           /\ Walked \in Nat /\ freeBefore \in Nat
<1>1. PAGE_NUM_PER_BLOCK \in Nat \ {0}
  BY GeometryAssumption
<1>2. /\ pageCursor \in [Blocks -> 0 .. PAGE_NUM_PER_BLOCK] /\ freeQ \in Seq(Blocks)
      /\ pageIdx \in 0 .. PAGE_NUM_PER_BLOCK /\ open \in Blocks \cup {NULL} /\ freeBefore \in Nat
  BY DEF IInv, TypeOK
<1>3. Room(open) \in Nat /\ Room(open) < PAGE_NUM_PER_BLOCK
  BY <1>1, <1>2 DEF Room, RoomOK
<1>4. Len(freeQ) \in Nat /\ Walked \in Nat
  BY <1>1, <1>2 DEF Walked
<1> QED
  BY <1>1, <1>2, <1>3, <1>4, Products

\* A page written to an open block, or to a block that is opened for it, takes one
\* page of the room there is.
LEMMA PageTaken ==
    ASSUME IInv, RoomOK,
           NEW open \in {hostBlock, gcBlock}, NEW other \in {hostBlock, gcBlock},
           open = other => open = NULL,
           TakeTarget(open), NEW b, b = Target(open),
           pageCursor' = [pageCursor EXCEPT ![b] = pageCursor[b] + 1],
           NEW after, after = IF pageCursor[b] + 1 = PAGE_NUM_PER_BLOCK THEN NULL ELSE b
    PROVE  /\ PAGE_NUM_PER_BLOCK * Len(freeQ')
                + (IF after = NULL THEN 0 ELSE PAGE_NUM_PER_BLOCK - pageCursor'[after])
                = PAGE_NUM_PER_BLOCK * Len(freeQ) + Room(open) - 1
           /\ other # NULL => pageCursor'[other] = pageCursor[other]
           /\ after # NULL => pageCursor'[after] > 0
           /\ Len(freeQ') = IF open = NULL THEN Len(freeQ) - 1 ELSE Len(freeQ)
           /\ open = NULL => Len(freeQ) > 0
<1>1. /\ b \in Blocks /\ blockStatus[b] # "FULL"
      /\ open # NULL => b = open
      /\ open = NULL => blockStatus[b] = "FREE"
      /\ pageCursor[b] \in Pages
  BY OpenFacts
<1>2. /\ pageCursor \in [Blocks -> 0 .. PAGE_NUM_PER_BLOCK] /\ freeQ \in Seq(Blocks)
      /\ CursorOK /\ other \in Blocks \cup {NULL}
  BY DEF IInv, TypeOK
<1>3. b # NULL
  BY <1>1, NullIsNoBlock
<1>4. PAGE_NUM_PER_BLOCK \in Nat \ {0} /\ Len(freeQ) \in Nat /\ PAGE_NUM_PER_BLOCK * Len(freeQ) \in Nat
  BY RoomFacts
<1>5. pageCursor[b] \in Nat /\ pageCursor[b] + 1 <= PAGE_NUM_PER_BLOCK /\ pageCursor'[b] = pageCursor[b] + 1
  BY <1>1, <1>2, <1>4 DEF Pages
<1>6. other # NULL => other # b
  <2> SUFFICES ASSUME other # NULL, other = b PROVE FALSE
    OBVIOUS
  <2>1. blockStatus[other] = "WRITING"
    BY <1>2 DEF IInv, OpenOK
  <2> QED
    BY <2>1, <1>1
<1>7. (IF after = NULL THEN 0 ELSE PAGE_NUM_PER_BLOCK - pageCursor'[after])
        = PAGE_NUM_PER_BLOCK - pageCursor[b] - 1
  BY <1>3, <1>4, <1>5
<1>8. CASE open = NULL
  <2>1. freeQ # <<>> /\ freeQ' = Front(freeQ)
    BY <1>8 DEF TakeTarget, Exhausted
  <2>2. Len(freeQ) > 0 /\ Len(freeQ') = Len(freeQ) - 1
    BY <1>2, <2>1, FrontLength
  <2>3. pageCursor[b] = 0
    BY <1>1, <1>2, <1>8 DEF CursorOK
  <2>4. PAGE_NUM_PER_BLOCK * (Len(freeQ) - 1) = PAGE_NUM_PER_BLOCK * Len(freeQ) - PAGE_NUM_PER_BLOCK
    BY <1>4, <2>2, Products
  <2>5. Room(open) = 0
    BY <1>8 DEF Room
  <2>6. PAGE_NUM_PER_BLOCK * Len(freeQ') = PAGE_NUM_PER_BLOCK * Len(freeQ) - PAGE_NUM_PER_BLOCK
    BY <2>2, <2>4
  <2>7. PAGE_NUM_PER_BLOCK * Len(freeQ') + (PAGE_NUM_PER_BLOCK - pageCursor[b] - 1)
          = PAGE_NUM_PER_BLOCK * Len(freeQ) + Room(open) - 1
    BY <1>4, <2>3, <2>5, <2>6
  <2>8. after # NULL => pageCursor'[after] > 0
    BY <1>5, <1>3
  <2> QED
    BY <1>2, <1>6, <1>7, <1>8, <2>2, <2>7, <2>8
<1>9. CASE open # NULL
  <2>1. freeQ' = freeQ
    BY <1>9 DEF TakeTarget
  <2>2. Room(open) = PAGE_NUM_PER_BLOCK - pageCursor[b]
    BY <1>1, <1>9 DEF Room
  <2>3. PAGE_NUM_PER_BLOCK * Len(freeQ') + (PAGE_NUM_PER_BLOCK - pageCursor[b] - 1)
          = PAGE_NUM_PER_BLOCK * Len(freeQ) + Room(open) - 1
    BY <1>4, <1>5, <2>1, <2>2
  <2>4. after # NULL => pageCursor'[after] > 0
    BY <1>5, <1>3
  <2> QED
    BY <1>2, <1>6, <1>7, <1>9, <2>1, <2>3, <2>4
<1> QED
  BY <1>8, <1>9

\* A write takes one page of the room of the host block and the free blocks.
LEMMA WriteIORoom ==
    ASSUME IInv, RoomOK, NEW l \in LBA, WriteIO(l)
    PROVE  /\ PAGE_NUM_PER_BLOCK * Len(freeQ') + Room(hostBlock)'
                = PAGE_NUM_PER_BLOCK * Len(freeQ) + Room(hostBlock) - 1
           /\ Room(gcBlock)' = Room(gcBlock)
           /\ RoomOK'
<1> DEFINE b == Target(hostBlock)
<1>1. PICK old \in OldLoc(l) : WriteIOTo(l, b, old)
  BY DEF WriteIO, MayWrite
<1>2. /\ pageCursor' = [pageCursor EXCEPT ![b] = pageCursor[b] + 1]
      /\ hostBlock' = IF pageCursor[b] + 1 = PAGE_NUM_PER_BLOCK THEN NULL ELSE b
  BY <1>1 DEF WriteIOTo
<1>3. gcBlock' = gcBlock /\ TakeTarget(hostBlock)
  BY DEF WriteIO
<1>4. hostBlock = gcBlock => hostBlock = NULL
  BY DEF IInv, OpenOK
<1> HIDE DEF b
<1>5. /\ PAGE_NUM_PER_BLOCK * Len(freeQ')
           + (IF hostBlock' = NULL THEN 0 ELSE PAGE_NUM_PER_BLOCK - pageCursor'[hostBlock'])
           = PAGE_NUM_PER_BLOCK * Len(freeQ) + Room(hostBlock) - 1
      /\ gcBlock # NULL => pageCursor'[gcBlock] = pageCursor[gcBlock]
      /\ hostBlock' # NULL => pageCursor'[hostBlock'] > 0
  BY <1>2, <1>3, <1>4, PageTaken, ZenonT(60) DEF b
<1>6. Room(gcBlock)' = Room(gcBlock) /\ RoomOK'
  BY <1>3, <1>5 DEF Room, RoomOK
<1> QED
  BY <1>5, <1>6 DEF Room

\* A copy takes one page of the room of the GC block and the free blocks.
LEMMA CopyPageRoom ==
    ASSUME IInv, RoomOK, CopyPage
    PROVE  /\ GCRoom' = GCRoom - 1
           /\ Room(hostBlock)' = Room(hostBlock)
           /\ RoomOK'
           /\ Len(freeQ') = IF gcBlock = NULL THEN Len(freeQ) - 1 ELSE Len(freeQ)
           /\ gcBlock = NULL => Len(freeQ) > 0
<1> DEFINE b == Target(gcBlock)
<1>2. /\ pageCursor' = [pageCursor EXCEPT ![b] = pageCursor[b] + 1]
      /\ gcBlock' = IF pageCursor[b] + 1 = PAGE_NUM_PER_BLOCK THEN NULL ELSE b
  BY DEF CopyPage, WriteGCBlock
<1>3. hostBlock' = hostBlock /\ TakeTarget(gcBlock)
  BY DEF CopyPage
<1>4. hostBlock = gcBlock => gcBlock = NULL
  BY DEF IInv, OpenOK
<1> HIDE DEF b
<1>5. /\ PAGE_NUM_PER_BLOCK * Len(freeQ')
           + (IF gcBlock' = NULL THEN 0 ELSE PAGE_NUM_PER_BLOCK - pageCursor'[gcBlock'])
           = PAGE_NUM_PER_BLOCK * Len(freeQ) + Room(gcBlock) - 1
      /\ hostBlock # NULL => pageCursor'[hostBlock] = pageCursor[hostBlock]
      /\ gcBlock' # NULL => pageCursor'[gcBlock'] > 0
      /\ Len(freeQ') = IF gcBlock = NULL THEN Len(freeQ) - 1 ELSE Len(freeQ)
      /\ gcBlock = NULL => Len(freeQ) > 0
  BY <1>2, <1>3, <1>4, PageTaken, ZenonT(60) DEF b
<1>6. Room(hostBlock)' = Room(hostBlock) /\ RoomOK'
  BY <1>3, <1>5 DEF Room, RoomOK
<1>7. PAGE_NUM_PER_BLOCK * Len(freeQ) \in Nat /\ Room(gcBlock) \in Nat
  BY RoomFacts
<1>8. GCRoom' = PAGE_NUM_PER_BLOCK * Len(freeQ) + Room(gcBlock) - 1
  BY <1>5 DEF Room, GCRoom
<1>9. GCRoom' = GCRoom - 1
  BY <1>7, <1>8 DEF GCRoom
<1> QED
  BY <1>5, <1>6, <1>9

\* The victim of a walk is a FULL block of the bucket walked.
LEMMA VictimFacts ==
    ASSUME IInv, pc = "copy"
    PROVE  /\ cur \in Blocks /\ blockStatus[cur] = "FULL" /\ garbageWL[cur] = gcBucketIdx
           /\ pageCursor[cur] = PAGE_NUM_PER_BLOCK /\ gcBucketIdx \in Buckets
           /\ cur \notin {hostBlock, gcBlock}
           /\ cur = buckets[gcBucketIdx][1] /\ recyleCnt > 0
           /\ next # NULL => /\ next \in Blocks /\ blockStatus[next] = "FULL" /\ next # cur
                             /\ garbageWL[next] = gcBucketIdx
<1>1. /\ gcBucketIdx \in Buckets /\ buckets[gcBucketIdx] \in Seq(Blocks)
      /\ Len(buckets[gcBucketIdx]) > 0 /\ cur = buckets[gcBucketIdx][1] /\ recyleCnt > 0
      /\ next # NULL => Len(buckets[gcBucketIdx]) > 1 /\ next = buckets[gcBucketIdx][2]
      /\ IsInjective(buckets[gcBucketIdx])
  BY DEF IInv, WalkOK, TypeOK, GarbageOK, Garbage
<1>2. ToSet(buckets[gcBucketIdx]) = {b \in Blocks : blockStatus[b] = "FULL" /\ garbageWL[b] = gcBucketIdx}
  BY <1>1 DEF IInv, GarbageOK, Garbage
<1>3. cur \in ToSet(buckets[gcBucketIdx])
  BY <1>1 DEF ToSet
<1>4. next # NULL => next \in ToSet(buckets[gcBucketIdx]) /\ next # cur
  BY <1>1 DEF ToSet, IsInjective
<1>5. cur \in Blocks /\ blockStatus[cur] = "FULL" /\ garbageWL[cur] = gcBucketIdx
  BY <1>2, <1>3
<1>6. cur \notin {hostBlock, gcBlock} \ {NULL} /\ cur # NULL
  BY <1>5, NullIsNoBlock DEF IInv, OpenOK
<1>7. pageCursor[cur] = PAGE_NUM_PER_BLOCK
  BY <1>5 DEF IInv, CursorOK
<1> QED
  BY <1>1, <1>2, <1>4, <1>5, <1>6, <1>7

\* A recycled block gives back the room of a whole one.
LEMMA RecycleRoom ==
    ASSUME IInv, RoomOK, RecycleBlock
    PROVE  /\ GCRoom' = GCRoom + PAGE_NUM_PER_BLOCK
           /\ Room(hostBlock)' = Room(hostBlock)
           /\ Len(freeQ') = Len(freeQ) + 1
           /\ pageIdx = PAGE_NUM_PER_BLOCK /\ Walked' = 0 /\ Walked = PAGE_NUM_PER_BLOCK
           /\ RoomOK'
<1>1. /\ pc = "copy" /\ pageIdx = pageCursor[cur]
      /\ pageCursor' = [pageCursor EXCEPT ![cur] = 0]
      /\ freeQ' = Cons(cur, freeQ)
      /\ hostBlock' = hostBlock /\ gcBlock' = gcBlock
  BY DEF RecycleBlock, ReturnBlock2FreeQ, Returned, openVars
<1>2. cur \in Blocks /\ pageCursor[cur] = PAGE_NUM_PER_BLOCK /\ cur \notin {hostBlock, gcBlock}
  BY <1>1, VictimFacts
<1>3. freeQ \in Seq(Blocks) /\ pageCursor \in [Blocks -> 0 .. PAGE_NUM_PER_BLOCK]
      /\ hostBlock \in Blocks \cup {NULL} /\ gcBlock \in Blocks \cup {NULL}
  BY DEF IInv, TypeOK
<1>4. Len(freeQ') = Len(freeQ) + 1
  BY <1>1, <1>2, <1>3, ConsElements
<1>5. Room(hostBlock)' = Room(hostBlock) /\ Room(gcBlock)' = Room(gcBlock) /\ RoomOK'
  BY <1>1, <1>2, <1>3 DEF Room, RoomOK
<1>6. PAGE_NUM_PER_BLOCK \in Nat \ {0} /\ Len(freeQ) \in Nat /\ PAGE_NUM_PER_BLOCK * Len(freeQ) \in Nat
      /\ Room(gcBlock) \in Nat
  BY RoomFacts
<1>7. PAGE_NUM_PER_BLOCK * Len(freeQ') = PAGE_NUM_PER_BLOCK * Len(freeQ) + PAGE_NUM_PER_BLOCK
  BY <1>4, <1>6, Products
<1>8. GCRoom' = GCRoom + PAGE_NUM_PER_BLOCK
  BY <1>5, <1>6, <1>7 DEF GCRoom
<1>9. Walked' = 0 /\ Walked = PAGE_NUM_PER_BLOCK
  BY <1>1, <1>2 DEF Walked, RecycleBlock
<1> QED
  BY <1>1, <1>2, <1>4, <1>5, <1>8, <1>9

\* The other steps leave the room alone.
LEMMA SameRoom ==
    ASSUME RoomOK, UNCHANGED <<pageCursor, freeQ, hostBlock, gcBlock>>
    PROVE  GCRoom' = GCRoom /\ Room(hostBlock)' = Room(hostBlock) /\ RoomOK'
BY DEF GCRoom, Room, RoomOK

KeepInv == RoomOK /\ KeepOK

\* Every step keeps the count of the room.
LEMMA KeepStep ==
    ASSUME IInv, KeepInv, [Next]_vars
    PROVE  KeepInv'
<1> USE DEF KeepInv
<1>r. /\ PAGE_NUM_PER_BLOCK \in Nat \ {0} /\ GCRoom \in Nat /\ Walked \in Nat
      /\ freeBefore \in Nat /\ PAGE_NUM_PER_BLOCK * freeBefore \in Nat
      /\ Len(freeQ) \in Nat /\ Room(gcBlock) \in Nat
  BY RoomFacts, Products DEF GCRoom
<1>1. ASSUME NEW l \in LBA, WriteIO(l) PROVE KeepInv'
  <2>1. pc' = "written"
    BY <1>1 DEF WriteIO
  <2> QED
    BY <1>1, <2>1, WriteIORoom DEF KeepOK, Collecting
<1>2. ASSUME NEW l \in LBA, Delete(l) PROVE KeepInv'
  <2>1. pc' = "idle" /\ UNCHANGED <<pageCursor, freeQ, hostBlock, gcBlock>>
    BY <1>2 DEF Delete, openVars
  <2> QED
    BY <2>1, SameRoom DEF KeepOK, Collecting
<1>3. CASE EndWrite \/ EndGC \/ BucketIdxWraps \/ AllocationFails
  <2>1. pc' \in {"idle", "corrupt"} /\ UNCHANGED <<pageCursor, freeQ, hostBlock, gcBlock>>
    BY <1>3 DEF EndWrite, EndGC, BucketIdxWraps, AllocationFails, Corrupt, blockVars, listVars, openVars
  <2> QED
    BY <2>1, SameRoom DEF KeepOK, Collecting
<1>4. CASE StartGC
  <2>1. /\ pc' = "scan" /\ UNCHANGED <<pageCursor, freeQ, hostBlock, gcBlock>>
        /\ freeBefore' = Len(freeQ)
    BY <1>4 DEF StartGC, GetFreeBlockNum, blockVars, listVars, openVars
  <2>2. GCRoom' = GCRoom /\ RoomOK' /\ Walked' = 0
    BY <2>1, SameRoom DEF Walked
  <2> QED
    BY <1>r, <2>1, <2>2 DEF KeepOK, GCRoom
<1>5. CASE NextBucket \/ EnterBucket \/ UNCHANGED vars
  <2>1. UNCHANGED <<pageCursor, freeQ, hostBlock, gcBlock, freeBefore>>
    BY <1>5 DEF NextBucket, EnterBucket, vars, blockVars, listVars, openVars, histVars
  <2>2. Walked' = Walked /\ Collecting' = Collecting
    BY <1>5 DEF NextBucket, EnterBucket, vars, walkVars, Walked, Collecting
  <2> QED
    BY <2>1, <2>2, SameRoom DEF KeepOK
<1>6. CASE SkipPage
  <2>1. /\ UNCHANGED <<pageCursor, freeQ, hostBlock, gcBlock, freeBefore>>
        /\ pc = "copy" /\ pc' = "copy" /\ pageIdx' = pageIdx + 1
    BY <1>6 DEF SkipPage, blockVars, listVars, openVars, histVars
  <2>2. Walked' = Walked + 1 /\ Collecting' /\ Collecting
    BY <2>1 DEF Walked, Collecting
  <2>3. GCRoom' = GCRoom /\ RoomOK'
    BY <2>1, SameRoom
  <2> QED
    BY <1>r, <2>1, <2>2, <2>3 DEF KeepOK
<1>7. CASE CopyPage
  <2>1. pc = "copy" /\ pc' = "copy" /\ pageIdx' = pageIdx + 1 /\ freeBefore' = freeBefore
    BY <1>7 DEF CopyPage, MayCopy, histVars
  <2>2. Walked' = Walked + 1 /\ Collecting' /\ Collecting
    BY <2>1 DEF Walked, Collecting
  <2>3. GCRoom' = GCRoom - 1 /\ RoomOK'
    BY <1>7, CopyPageRoom
  <2> QED
    BY <1>r, <2>1, <2>2, <2>3 DEF KeepOK
<1>8. CASE RecycleBlock
  <2>1. pc = "copy" /\ freeBefore' = freeBefore
    BY <1>8 DEF RecycleBlock, histVars
  <2>2. /\ GCRoom' = GCRoom + PAGE_NUM_PER_BLOCK /\ RoomOK'
        /\ Walked = PAGE_NUM_PER_BLOCK /\ Walked' = 0
    BY <1>8, RecycleRoom
  <2> QED
    BY <1>r, <2>1, <2>2 DEF KeepOK, Collecting
<1> QED
  BY <1>1, <1>2, <1>3, <1>4, <1>5, <1>6, <1>7, <1>8 DEF Next, HostStep, GCStep, Fault

\* The count is right in every behaviour.
LEMMA KeepInvAlways == Spec => [](IInv /\ KeepInv)
<1>1. Init => KeepInv
  BY DEF Init, KeepInv, RoomOK, KeepOK, Collecting
<1> QED
  BY <1>1, InitInv, StepInv, KeepStep, PTL DEF Spec

\* A garbage collection never leaves fewer free blocks than it began with, however
\* many blocks it fills with copies on the way and whether or not the last one is
\* full (GarbageCollection and WriteGCBlock, gc_module.c).
THEOREM GCKeepsFreeBlocksHolds == Spec => []GCKeepsFreeBlocks
<1>1. ASSUME IInv, KeepInv PROVE GCKeepsFreeBlocks
  <2> SUFFICES ASSUME pc = "scan" PROVE Len(freeQ) >= freeBefore
    BY DEF GCKeepsFreeBlocks, GetFreeBlockNum
  <2>1. PAGE_NUM_PER_BLOCK * Len(freeQ) + Room(gcBlock) + Walked >= PAGE_NUM_PER_BLOCK * freeBefore
    BY <1>1 DEF KeepInv, KeepOK, Collecting, GCRoom
  <2>2. Walked = 0
    BY DEF Walked
  <2>3. /\ PAGE_NUM_PER_BLOCK \in Nat \ {0} /\ Len(freeQ) \in Nat /\ freeBefore \in Nat
        /\ Room(gcBlock) \in Nat /\ Room(gcBlock) < PAGE_NUM_PER_BLOCK
        /\ PAGE_NUM_PER_BLOCK * Len(freeQ) \in Nat
    BY <1>1, RoomFacts DEF KeepInv
  <2>4. PAGE_NUM_PER_BLOCK * Len(freeQ) + Room(gcBlock) >= PAGE_NUM_PER_BLOCK * freeBefore
    BY <2>1, <2>2, <2>3
  <2> QED
    BY <2>3, <2>4, WholeBlocks
<1> QED
  BY <1>1, KeepInvAlways, PTL


-----------------------------------------------------------------------------
(* The free queue lasts.                                                    *)

\* The garbage of one level of the buckets.
Unit == PAGE_NUM_PER_BLOCK \div (GC_BUCKET_NUM - 1)

FullBlocks == {b \in Blocks : blockStatus[b] = "FULL"}

\* What a disk needs for that: room to stall and to collect, and so many more pages
\* than addresses that a stalled writer finds a FULL block with a level of garbage.
SpareSpace ==
    /\ gcStallWL > 0 /\ gcStallWL < gcWL
    /\ gcWL + gcBlockCnt + 1 <= totalBlockCnt
    /\ maxOccupied < (PAGE_NUM_PER_BLOCK - Unit + 1) * (totalBlockCnt - gcStallWL - 2)

\* A level of garbage is at least a page and at most a block.
LEMMA UnitFacts ==
    /\ Unit \in Nat \ {0} /\ Unit <= PAGE_NUM_PER_BLOCK
    /\ PAGE_NUM_PER_BLOCK - Unit + 1 \in Nat \ {0}
<1>1. GC_BUCKET_NUM - 1 \in Nat \ {0} /\ PAGE_NUM_PER_BLOCK \in Nat
  BY GeometryAssumption
<1>2. \A n, d \in Nat : d > 0 => n \div d <= n
  OBVIOUS
<1>3. Unit \in Nat \ {0}
  BY GeometryAssumption DEF Unit
<1>4. Unit <= PAGE_NUM_PER_BLOCK
  <2> DEFINE d == GC_BUCKET_NUM - 1
  <2>1. d \in Nat \ {0} /\ Unit = PAGE_NUM_PER_BLOCK \div d
    BY <1>1 DEF Unit
  <2> HIDE DEF d
  <2> QED
    BY <1>1, <1>2, <2>1
<1> QED
  BY <1>1, <1>3, <1>4

\* Level 0 is less than a unit of garbage, and the levels above it are some.
LEMMA LevelFacts ==
    ASSUME NEW n \in Nat
    PROVE  /\ GetCurBucketIdx(n) = 0 => n < Unit
           /\ GetCurBucketIdx(n) > 0 => n > 0
<1> DEFINE w == n \div Unit
<1>1. Unit \in Nat \ {0}
  BY UnitFacts
<1>2. GetCurBucketIdx(n) = IF w >= GC_BUCKET_NUM THEN GC_BUCKET_NUM - 1 ELSE w
  BY DEF GetCurBucketIdx, Unit
<1>3. GC_BUCKET_NUM \in Nat /\ GC_BUCKET_NUM > 1
  BY GeometryAssumption
<1>4. \A u \in Nat \ {0} : n \div u \in Nat /\ (n < u <=> n \div u = 0)
  OBVIOUS
<1>5. w \in Nat /\ (n < Unit <=> w = 0)
  BY <1>1, <1>4
<1> HIDE DEF w
<1> QED
  BY <1>1, <1>2, <1>3, <1>5

\* A list has at most as many different elements as positions.
LEMMA ElementsAtMostLength ==
    ASSUME NEW S, NEW s \in Seq(S)
    PROVE  IsFiniteSet(ToSet(s)) /\ Cardinality(ToSet(s)) <= Len(s)
<1>1. s \in [1 .. Len(s) -> ToSet(s)] /\ \A y \in ToSet(s) : \E i \in 1 .. Len(s) : s[i] = y
  BY DEF ToSet
<1>2. s \in Surjection(1 .. Len(s), ToSet(s))
  BY <1>1, Fun_IsSurj
<1>3. IsFiniteSet(1 .. Len(s)) /\ Cardinality(1 .. Len(s)) = Len(s)
  <2>1. Len(s) \in Nat
    OBVIOUS
  <2> HIDE DEF IsFiniteSet
  <2>2. IsFiniteSet(1 .. Len(s)) /\ Cardinality(1 .. Len(s)) = IF 1 > Len(s) THEN 0 ELSE Len(s) - 1 + 1
    BY <2>1, FS_Interval
  <2> QED
    BY <2>1, <2>2
<1> QED
  BY <1>2, <1>3, FS_Surjection

\* The blocks that are neither free nor open are FULL.
LEMMA FullCount ==
    ASSUME IInv
    PROVE  /\ IsFiniteSet(FullBlocks) /\ Cardinality(FullBlocks) \in Nat
           /\ Cardinality(FullBlocks) >= totalBlockCnt - Len(freeQ) - 2
<1>1. IsFiniteSet(Blocks) /\ Cardinality(Blocks) = totalBlockCnt
  <2>1. totalBlockCnt \in Nat \ {0}
    BY GeometryAssumption
  <2>2. IsFiniteSet(0 .. totalBlockCnt - 1)
        /\ Cardinality(0 .. totalBlockCnt - 1)
             = IF 0 > totalBlockCnt - 1 THEN 0 ELSE totalBlockCnt - 1 - 0 + 1
    BY <2>1, FS_Interval
  <2> QED
    BY <2>1, <2>2 DEF Blocks
<1> DEFINE F == ToSet(freeQ)
           W == {hostBlock, gcBlock}
<1>2. freeQ \in Seq(Blocks) /\ blockStatus \in [Blocks -> {"FREE", "WRITING", "FULL"}]
  BY DEF IInv, TypeOK
<1>3. IsFiniteSet(F) /\ Cardinality(F) <= Len(freeQ) /\ Len(freeQ) \in Nat
  BY <1>2, ElementsAtMostLength
<1>4. IsFiniteSet(W) /\ Cardinality(W) <= 2
  <2>1. IsFiniteSet({hostBlock}) /\ Cardinality({hostBlock}) = 1
    BY FS_Singleton
  <2>2. /\ IsFiniteSet({hostBlock} \cup {gcBlock})
        /\ Cardinality({hostBlock} \cup {gcBlock}) = IF gcBlock \in {hostBlock} THEN 1 ELSE 1 + 1
    BY <2>1, FS_AddElement
  <2>3. {hostBlock} \cup {gcBlock} = W
    OBVIOUS
  <2> QED
    BY <2>2, <2>3
<1>5. Blocks \subseteq FullBlocks \cup (F \cup W)
  <2> SUFFICES ASSUME NEW b \in Blocks, b \notin FullBlocks PROVE b \in F \cup W
    OBVIOUS
  <2>1. blockStatus[b] = "FREE" \/ blockStatus[b] = "WRITING"
    BY <1>2 DEF FullBlocks
  <2> QED
    BY <2>1 DEF IInv, FreeOK, OpenOK
<1>6. IsFiniteSet(FullBlocks) /\ Cardinality(FullBlocks) \in Nat
  BY <1>1, FS_Subset, FS_CardinalityType DEF FullBlocks
<1> HIDE DEF F, W
<1>7. /\ IsFiniteSet(F \cup W)
      /\ Cardinality(F \cup W) = Cardinality(F) + Cardinality(W) - Cardinality(F \cap W)
      /\ Cardinality(F) \in Nat /\ Cardinality(W) \in Nat /\ Cardinality(F \cap W) \in Nat
  BY <1>3, <1>4, FS_Union, FS_CardinalityType, FS_Intersection
<1> DEFINE Rest == F \cup W
<1> HIDE DEF Rest
<1>8. /\ IsFiniteSet(FullBlocks \cup Rest)
      /\ Cardinality(FullBlocks \cup Rest)
           = Cardinality(FullBlocks) + Cardinality(Rest) - Cardinality(FullBlocks \cap Rest)
      /\ Cardinality(Rest) \in Nat /\ Cardinality(FullBlocks \cap Rest) \in Nat
  BY <1>6, <1>7, FS_Union, FS_CardinalityType, FS_Intersection DEF Rest
<1>9. Cardinality(Blocks) <= Cardinality(FullBlocks \cup Rest)
  BY <1>5, <1>8, FS_Subset DEF Rest
<1>10. Cardinality(Rest) <= Len(freeQ) + 2
  BY <1>3, <1>4, <1>7 DEF Rest
<1>11. totalBlockCnt \in Nat /\ Cardinality(FullBlocks \cup Rest) \in Nat
  BY <1>8, FS_CardinalityType, GeometryAssumption
<1> QED
  BY <1>1, <1>3, <1>6, <1>8, <1>9, <1>10, <1>11

\* A finite set has q different elements when it is as large as that.
LEMMA SomeOfEach ==
    ASSUME NEW X, IsFiniteSet(X), NEW q \in Nat, q <= Cardinality(X)
    PROVE  Injection(1 .. q, X) # {}
<1> DEFINE n == Cardinality(X)
<1>1. n \in Nat /\ ExistsBijection(1 .. n, X)
  BY FS_CardinalityType
<1>2. q <= n
  OBVIOUS
<1> HIDE DEF n
<1>3. PICK f : f \in Bijection(1 .. n, X)
  BY <1>1, Fun_ExistsBij
<1>4. f \in [1 .. n -> X]
  BY <1>3, Fun_BijectionProperties
<1>5. \A i, j \in 1 .. n : f[i] = f[j] => i = j
  BY <1>3, Fun_BijectionProperties, ZenonT(30)
<1> DEFINE g == [i \in 1 .. q |-> f[i]]
<1>6. 1 .. q \subseteq 1 .. n
  BY <1>1, <1>2
<1>7. g \in [1 .. q -> X] /\ \A i, j \in 1 .. q : g[i] = g[j] => i = j
  BY <1>4, <1>5, <1>6
<1> HIDE DEF g
<1>8. g \in Injection(1 .. q, X)
  BY <1>7, Fun_IsInj
<1> QED
  BY <1>8

\* Sets of q elements of a set T for each element of a finite S, apart from one
\* another, together have q times as many as S.
LEMMA ManyForEach ==
    ASSUME NEW S, IsFiniteSet(S), NEW T, IsFiniteSet(T), NEW q \in Nat, NEW own,
           own \in [S -> SUBSET T],
           \A b \in S : Cardinality(own[b]) >= q,
           \A b, c \in S : b # c => own[b] \cap own[c] = {}
    PROVE  q * Cardinality(S) <= Cardinality(T)
<1>1. ASSUME NEW b \in S PROVE Injection(1 .. q, own[b]) # {}
  <2>1. own[b] \in SUBSET T /\ q <= Cardinality(own[b])
    OBVIOUS
  <2>2. IsFiniteSet(own[b])
    BY <2>1, FS_Subset
  <2> QED
    BY <2>1, <2>2, SomeOfEach
<1> DEFINE pick == [b \in S |-> CHOOSE f : f \in Injection(1 .. q, own[b])]
<1>2. \A b \in S : pick[b] \in Injection(1 .. q, own[b])
  BY <1>1
<1> HIDE DEF pick
<1>3. \A b \in S : /\ \A i \in 1 .. q : pick[b][i] \in own[b]
                   /\ \A i, j \in 1 .. q : pick[b][i] = pick[b][j] => i = j
  <2> TAKE b \in S
  <2>1. pick[b] \in Injection(1 .. q, own[b])
    BY <1>2
  <2>2. /\ pick[b] \in [1 .. q -> own[b]]
        /\ \A i, j \in 1 .. q : pick[b][i] = pick[b][j] => i = j
    BY <2>1, Fun_InjectionProperties
  <2> QED
    BY <2>2
<1> DEFINE h == [e \in S \X (1 .. q) |-> pick[e[1]][e[2]]]
<1>4. \A b \in S, i \in 1 .. q : h[<<b, i>>] = pick[b][i] /\ h[<<b, i>>] \in own[b]
  BY <1>3
<1>5. h \in [S \X (1 .. q) -> T]
  BY <1>3
<1> HIDE DEF h
<1>6. \A e, f \in S \X (1 .. q) : h[e] = h[f] => e = f
  <2> SUFFICES ASSUME NEW b \in S, NEW i \in 1 .. q, NEW c \in S, NEW j \in 1 .. q,
                      h[<<b, i>>] = h[<<c, j>>]
               PROVE  b = c /\ i = j
    OBVIOUS
  <2>1. h[<<b, i>>] \in own[b] /\ h[<<c, j>>] \in own[c]
    BY <1>4
  <2>2. b = c
    BY <2>1
  <2>3. pick[b][i] = pick[b][j]
    BY <1>4, <2>2
  <2> QED
    BY <1>3, <2>2, <2>3
<1>7. h \in Injection(S \X (1 .. q), T)
  BY <1>5, <1>6, Fun_IsInj
<1>8. Cardinality(S \X (1 .. q)) <= Cardinality(T)
  BY <1>7, FS_Injection
<1>9. IsFiniteSet(1 .. q) /\ Cardinality(1 .. q) = q
  <2>1. IsFiniteSet(1 .. q) /\ Cardinality(1 .. q) = IF 1 > q THEN 0 ELSE q - 1 + 1
    BY FS_Interval
  <2> QED
    BY <2>1
<1>10. Cardinality(S \X (1 .. q)) = Cardinality(S) * q
  BY <1>9, FS_Product
<1>11. Cardinality(S) \in Nat
  BY FS_CardinalityType
<1> QED
  BY <1>8, <1>10, <1>11


\* The tier holds no more addresses than its callers let it.
OccupiedOK == IsFiniteSet(spaceIndex) /\ Cardinality(spaceIndex) <= maxOccupied

\* A FULL block on level 0 has almost all its pages in the space index.
LEMMA StoredInBlock ==
    ASSUME IInv, OccupiedOK, pc \notin {"corrupt", "copy"},
           NEW b \in FullBlocks, garbageWL[b] = 0
    PROVE  Cardinality({e \in spaceIndex : e[2][1] = b}) >= PAGE_NUM_PER_BLOCK - Unit + 1
<1> DEFINE G == {i \in Pages : pages[b][i] = INVALID}
           V == Pages \ G
           own == {e \in spaceIndex : e[2][1] = b}
<1>1. b \in Blocks /\ blockStatus[b] = "FULL"
  BY DEF FullBlocks
<1>2. PAGE_NUM_PER_BLOCK \in Nat \ {0} /\ Unit \in Nat \ {0}
  BY UnitFacts, GeometryAssumption
<1>3. IsFiniteSet(Pages) /\ Cardinality(Pages) = PAGE_NUM_PER_BLOCK
  <2>1. IsFiniteSet(0 .. PAGE_NUM_PER_BLOCK - 1)
        /\ Cardinality(0 .. PAGE_NUM_PER_BLOCK - 1)
             = IF 0 > PAGE_NUM_PER_BLOCK - 1 THEN 0 ELSE PAGE_NUM_PER_BLOCK - 1 - 0 + 1
    BY <1>2, FS_Interval
  <2> QED
    BY <1>2, <2>1 DEF Pages
<1>4. Cardinality(G) = garbageCnt[b] /\ garbageCnt[b] \in Nat
  BY <1>1 DEF IInv, GarbageIsCounted, TypeOK
<1>5. garbageCnt[b] < Unit
  <2>1. GetCurBucketIdx(garbageCnt[b]) = 0
    BY <1>1 DEF IInv, LevelOK
  <2> QED
    BY <1>4, <2>1, LevelFacts
<1>6. IsFiniteSet(V) /\ Cardinality(V) = PAGE_NUM_PER_BLOCK - garbageCnt[b]
  <2>1. Pages \cap G = G
    OBVIOUS
  <2>2. Cardinality(Pages \cap G) = garbageCnt[b]
    BY <1>4, <2>1
  <2> HIDE DEF G
  <2>3. IsFiniteSet(Pages \ G) /\ Cardinality(Pages \ G) = Cardinality(Pages) - Cardinality(Pages \cap G)
    BY <1>3, FS_Difference
  <2> QED
    BY <1>3, <2>2, <2>3
<1>7. \A i \in V : <<pages[b][i], <<b, i>>>> \in own
  <2> TAKE i \in V
  <2>1. i \in Pages /\ pages[b][i] # INVALID
    OBVIOUS
  <2>2. pageCursor[b] = PAGE_NUM_PER_BLOCK /\ (pages[b][i] = WRITEABLE <=> i >= pageCursor[b])
    BY <1>1, <2>1 DEF IInv, CursorOK
  <2>3. pages[b][i] # WRITEABLE
    BY <1>2, <2>1, <2>2 DEF Pages
  <2>4. pages[b][i] \in LBA
    BY <1>1, <2>1, <2>3 DEF IInv, TypeOK
  <2>5. <<b, i>> \in ValidLocs /\ CopiedLocs = {}
    BY <1>1, <2>1, <2>4 DEF ValidLocs, Locs, CopiedLocs
  <2>6. <<pages[b][i], <<b, i>>>> \in spaceIndex
    BY <2>5 DEF IInv, IndexMatchesPages
  <2> QED
    BY <2>6
<1> DEFINE f == [i \in V |-> <<pages[b][i], <<b, i>>>>]
<1>8. f \in [V -> own] /\ \A i, j \in V : f[i] = f[j] => i = j
  <2> HIDE DEF V, own
  <2> QED
    BY <1>7
<1> HIDE DEF f, V, own
<1>9. f \in Injection(V, own)
  BY <1>8, Fun_IsInj
<1>10. IsFiniteSet(own) /\ Cardinality(own) \in Nat
  <2>1. own \in SUBSET spaceIndex
    BY DEF own
  <2> QED
    BY <2>1, FS_Subset, FS_CardinalityType DEF OccupiedOK
<1>11. Cardinality(V) <= Cardinality(own)
  BY <1>9, <1>10, FS_Injection
<1>12. Cardinality(own) >= PAGE_NUM_PER_BLOCK - Unit + 1
  BY <1>2, <1>4, <1>5, <1>6, <1>10, <1>11
<1> QED
  BY <1>12 DEF own

\* When free blocks are down to the stall level some FULL block has a level of
\* garbage: the addresses do not fill the others.
LEMMA GarbageSomewhere ==
    ASSUME SpareSpace, IInv, OccupiedOK, pc \notin {"corrupt", "copy"}, Len(freeQ) <= gcStallWL
    PROVE  \E b \in FullBlocks : garbageWL[b] \in 1 .. GC_BUCKET_NUM - 1
<1> SUFFICES ASSUME \A b \in FullBlocks : garbageWL[b] \notin 1 .. GC_BUCKET_NUM - 1
             PROVE  FALSE
  OBVIOUS
<1> DEFINE q == PAGE_NUM_PER_BLOCK - Unit + 1
           n == totalBlockCnt - gcStallWL - 2
           own == [b \in FullBlocks |-> {e \in spaceIndex : e[2][1] = b}]
<1>1. \A b \in FullBlocks : garbageWL[b] = 0
  <2> TAKE b \in FullBlocks
  <2>1. garbageWL[b] \in Buckets
    BY DEF IInv, TypeOK, FullBlocks
  <2> QED
    BY <2>1, GeometryAssumption DEF Buckets
<1>2. \A b \in FullBlocks : Cardinality(own[b]) >= q
  BY <1>1, StoredInBlock
<1>3. q \in Nat
  BY UnitFacts
<1>4. IsFiniteSet(FullBlocks) /\ Cardinality(FullBlocks) \in Nat
      /\ Cardinality(FullBlocks) >= totalBlockCnt - Len(freeQ) - 2
  BY FullCount
<1>5. own \in [FullBlocks -> SUBSET spaceIndex] /\ \A b, c \in FullBlocks : b # c => own[b] \cap own[c] = {}
  OBVIOUS
<1> HIDE DEF q, own
<1>6. q * Cardinality(FullBlocks) <= Cardinality(spaceIndex)
  BY <1>2, <1>3, <1>4, <1>5, ManyForEach DEF OccupiedOK
<1>7. Len(freeQ) \in Nat
  BY DEF IInv, TypeOK
<1>8. n \in Nat /\ n <= Cardinality(FullBlocks)
  BY <1>4, <1>7, GeometryAssumption, WaterLevelAssumption DEF SpareSpace
<1> HIDE DEF n
<1>9. q * n <= q * Cardinality(FullBlocks)
  BY <1>3, <1>4, <1>8, ProductsGrow
<1>10. q * n \in Nat /\ q * Cardinality(FullBlocks) \in Nat /\ Cardinality(spaceIndex) \in Nat
       /\ maxOccupied \in Nat
  BY <1>3, <1>4, <1>8, Products, FS_CardinalityType, WaterLevelAssumption DEF OccupiedOK
<1>11. maxOccupied < q * n
  BY DEF SpareSpace, q, n
<1> QED
  BY <1>6, <1>9, <1>10, <1>11 DEF OccupiedOK

\* An index with one entry more for an address it holds, or below the limit.
LEMMA OneEntryMore ==
    ASSUME NEW S, IsFiniteSet(S), NEW W \in SUBSET S, NEW e, NEW m \in Nat, Cardinality(S) <= m,
           W # S \/ Cardinality(S) < m
    PROVE  IsFiniteSet(W \cup {e}) /\ Cardinality(W \cup {e}) <= m
<1>1. /\ IsFiniteSet(W) /\ Cardinality(W) \in Nat /\ Cardinality(S) \in Nat
      /\ Cardinality(W) <= Cardinality(S) /\ (Cardinality(S) = Cardinality(W) => S = W)
  BY FS_Subset, FS_CardinalityType
<1>2. /\ IsFiniteSet(W \cup {e})
      /\ Cardinality(W \cup {e}) = IF e \in W THEN Cardinality(W) ELSE Cardinality(W) + 1
  BY <1>1, FS_AddElement
<1> QED
  BY <1>1, <1>2

\* The disk never holds more addresses than maxOccupied.
LEMMA OccupiedStep ==
    ASSUME IInv, OccupiedOK, [Next]_vars
    PROVE  OccupiedOK'
<1>0. maxOccupied \in Nat
  BY WaterLevelAssumption
<1>1. ASSUME NEW l \in LBA, WriteIO(l) PROVE OccupiedOK'
  <2>1. PICK e : spaceIndex' = Without(l) \cup {e}
    BY <1>1 DEF WriteIO, WriteIOTo
  <2>2. Without(l) \in SUBSET spaceIndex
    BY DEF Without
  <2>3. Without(l) # spaceIndex \/ Cardinality(spaceIndex) < maxOccupied
    BY <1>1 DEF WriteIO, MayWrite, IsExist, Query, Without, GetLogicalSizeOccupied
  <2> QED
    BY <1>0, <2>1, <2>2, <2>3, OneEntryMore DEF OccupiedOK
<1>2. ASSUME NEW l \in LBA, Delete(l) PROVE OccupiedOK'
  <2>1. spaceIndex' \in SUBSET spaceIndex
    BY <1>2 DEF Delete, Without
  <2>2. IsFiniteSet(spaceIndex') /\ Cardinality(spaceIndex') <= Cardinality(spaceIndex)
    BY <2>1, FS_Subset DEF OccupiedOK
  <2>3. Cardinality(spaceIndex') \in Nat /\ Cardinality(spaceIndex) \in Nat
    BY <2>2, FS_CardinalityType DEF OccupiedOK
  <2> QED
    BY <1>0, <2>2, <2>3 DEF OccupiedOK
<1>3. CASE CopyPage
  <2> DEFINE l == pages[cur][pageIdx]
  <2>1. PICK e : spaceIndex' = Without(l) \cup {e}
    BY <1>3 DEF CopyPage, WriteGCBlock
  <2>2. Without(l) \in SUBSET spaceIndex
    BY DEF Without
  <2>3. <<l, <<cur, pageIdx>>>> \in spaceIndex
    <3>1. pc = "copy" /\ pageIdx < pageCursor[cur] /\ l \in LBA
      BY <1>3 DEF CopyPage, MayCopy
    <3>2. cur \in Blocks /\ pageCursor[cur] = PAGE_NUM_PER_BLOCK
      BY <3>1, VictimFacts
    <3>3. pageIdx \in Pages
      BY <3>1, <3>2, GeometryAssumption DEF IInv, TypeOK, Pages
    <3>4. <<cur, pageIdx>> \in ValidLocs \ CopiedLocs
      BY <3>1, <3>2, <3>3 DEF ValidLocs, Locs, CopiedLocs, Pages
    <3> QED
      BY <3>1, <3>4 DEF IInv, IndexMatchesPages
  <2>4. Without(l) # spaceIndex
    BY <2>3 DEF Without
  <2> QED
    BY <1>0, <2>1, <2>2, <2>4, OneEntryMore DEF OccupiedOK
<1>4. CASE \/ EndWrite \/ StartGC \/ NextBucket \/ EndGC \/ BucketIdxWraps \/ AllocationFails
           \/ EnterBucket \/ SkipPage \/ RecycleBlock \/ UNCHANGED vars
  <2>1. spaceIndex' = spaceIndex
    BY <1>4 DEF EndWrite, StartGC, NextBucket, EndGC, BucketIdxWraps, AllocationFails, Corrupt,
                EnterBucket, SkipPage, RecycleBlock, vars
  <2> QED
    BY <2>1 DEF OccupiedOK
<1> QED
  BY <1>1, <1>2, <1>3, <1>4 DEF Next, HostStep, GCStep, Fault


\* The blocks that the walk can still come to: those of the lower buckets, and those
\* of the bucket it is in, but for what is appended behind its last block.
Ahead ==
    IF pc = "copy" /\ next = NULL
    THEN {b \in FullBlocks : garbageWL[b] < gcBucketIdx} \cup {cur}
    ELSE {b \in FullBlocks : garbageWL[b] <= gcBucketIdx}

\* They are as many as it has to recycle.
AheadOK == Collecting => recyleCnt <= Cardinality(Ahead)

\* The blocks ahead of the walk are FULL, and finitely many.
LEMMA AheadIsFinite ==
    ASSUME IInv
    PROVE  /\ Ahead \subseteq FullBlocks /\ (pc = "copy" => cur \in Ahead)
           /\ IsFiniteSet(Ahead) /\ Cardinality(Ahead) \in Nat
           /\ gcBucketIdx \in Int /\ \A b \in FullBlocks : garbageWL[b] \in Nat
<1>1. pc = "copy" => cur \in FullBlocks /\ garbageWL[cur] = gcBucketIdx
  BY VictimFacts DEF FullBlocks
<1>2. gcBucketIdx \in Int /\ \A b \in FullBlocks : garbageWL[b] \in Nat
  BY GeometryAssumption DEF IInv, TypeOK, FullBlocks, Buckets
<1>3. Ahead \subseteq FullBlocks /\ (pc = "copy" => cur \in Ahead)
  BY <1>1, <1>2 DEF Ahead
<1>4. Ahead \in SUBSET FullBlocks /\ IsFiniteSet(FullBlocks)
  BY <1>3, FullCount
<1> QED
  BY <1>2, <1>3, <1>4, FS_Subset, FS_CardinalityType

\* The same after a step.
LEMMA AheadIsFiniteNext ==
    ASSUME IInv'
    PROVE  IsFiniteSet(Ahead') /\ Cardinality(Ahead') \in Nat
<1>1. Ahead' \in SUBSET FullBlocks'
  <2>1. pc' = "copy" => cur' \in FullBlocks'
    <3> SUFFICES ASSUME pc' = "copy" PROVE cur' \in FullBlocks'
      OBVIOUS
    <3>1. /\ gcBucketIdx' \in Buckets /\ buckets'[gcBucketIdx'] \in Seq(Blocks)
          /\ Len(buckets'[gcBucketIdx']) > 0 /\ cur' = buckets'[gcBucketIdx'][1]
      BY DEF IInv, WalkOK, TypeOK
    <3>2. cur' \in ToSet(buckets'[gcBucketIdx'])
      BY <3>1 DEF ToSet
    <3>3. ToSet(buckets'[gcBucketIdx'])
            = {b \in Blocks : blockStatus'[b] = "FULL" /\ garbageWL'[b] = gcBucketIdx'}
      BY <3>1 DEF IInv, GarbageOK, Garbage
    <3> QED
      BY <3>2, <3>3 DEF FullBlocks
  <2> QED
    BY <2>1 DEF Ahead
<1>2. IsFiniteSet(FullBlocks')
  <2>1. IsFiniteSet(Blocks)
    BY FS_Interval, GeometryAssumption DEF Blocks
  <2>2. FullBlocks' \in SUBSET Blocks
    BY DEF FullBlocks
  <2> QED
    BY <2>1, <2>2, FS_Subset
<1> QED
  BY <1>1, <1>2, FS_Subset, FS_CardinalityType

\* A bucket holds the FULL blocks of its level.
LEMMA BucketIsLevel ==
    ASSUME IInv, NEW k \in Buckets
    PROVE  /\ buckets[k] \in Seq(Blocks) /\ IsInjective(buckets[k]) /\ blockCnt[k] = Len(buckets[k])
           /\ ToSet(buckets[k]) = {b \in FullBlocks : garbageWL[b] = k}
<1>1. GarbageOK(Garbage) /\ TypeOK
  BY DEF IInv
<1> QED
  BY <1>1 DEF GarbageOK, Garbage, FullBlocks, TypeOK

\* What list_for_each_safe saves as next at the first two blocks of a list.
LEMMA NextOnes ==
    ASSUME NEW s \in Seq(Blocks), IsInjective(s), Len(s) >= 1
    PROVE  /\ After(s, s[1]) = IF Len(s) = 1 THEN NULL ELSE s[2]
           /\ Len(s) > 1 => After(s, s[2]) = IF Len(s) = 2 THEN NULL ELSE s[3]
           /\ \A i \in 1 .. Len(s) : s[i] \in Blocks /\ s[i] # NULL
<1>1. Len(s) \in Nat
  OBVIOUS
<1>2. ASSUME NEW i \in 1 .. Len(s) PROVE Position(s, s[i]) = i
  <2>1. s[i] \in ToSet(s)
    BY DEF ToSet
  <2>2. Position(s, s[i]) \in 1 .. Len(s) /\ s[Position(s, s[i])] = s[i]
    BY <2>1, PositionFacts
  <2> QED
    BY <2>2 DEF IsInjective
<1>3. Position(s, s[1]) = 1 /\ (Len(s) > 1 => Position(s, s[2]) = 2)
  BY <1>1, <1>2
<1>4. \A i \in 1 .. Len(s) : s[i] \in Blocks /\ s[i] # NULL
  BY NullIsNoBlock
<1>5. After(s, s[1]) = IF Len(s) = 1 THEN NULL ELSE s[2]
  <2>1. After(s, s[1]) = IF 1 = Len(s) THEN NULL ELSE s[1 + 1]
    BY <1>3 DEF After
  <2> QED
    BY <2>1
<1>6. ASSUME Len(s) > 1 PROVE After(s, s[2]) = IF Len(s) = 2 THEN NULL ELSE s[3]
  <2>1. After(s, s[2]) = IF 2 = Len(s) THEN NULL ELSE s[2 + 1]
    BY <1>3, <1>6 DEF After
  <2> QED
    BY <2>1
<1> QED
  BY <1>4, <1>5, <1>6

\* Copying fills blocks but leaves the FULL ones as they are.
LEMMA CopyPageFull ==
    ASSUME IInv, CopyPage
    PROVE  \A c \in FullBlocks : c \in FullBlocks' /\ garbageWL'[c] = garbageWL[c] /\ pages'[c] = pages[c]
<1> DEFINE b == Target(gcBlock)
           i == pageCursor[b]
           full == i + 1 = PAGE_NUM_PER_BLOCK
           g == Opened(b)
           h == IF full THEN Insert2GarbageBuckets(g, b, garbageCnt[b]) ELSE g
<1>1. /\ pages' = [pages EXCEPT ![b][i] = pages[cur][pageIdx]]
      /\ blockStatus' = h.status /\ garbageWL' = h.wl
      /\ TakeTarget(gcBlock)
  BY DEF CopyPage, WriteGCBlock, SetGarbage
<1>2. /\ b \in Blocks /\ blockStatus[b] # "FULL" /\ i \in Pages /\ GarbageOK(g)
      /\ g.status = [blockStatus EXCEPT ![b] = "WRITING"] /\ g.wl = garbageWL
  BY <1>1, OpenFacts
<1>3. /\ pages \in [Blocks -> [Pages -> LBA \cup {WRITEABLE, INVALID}]]
      /\ blockStatus \in [Blocks -> {"FREE", "WRITING", "FULL"}]
      /\ garbageCnt \in [Blocks -> Nat] /\ garbageWL \in [Blocks -> Buckets]
  BY DEF IInv, TypeOK
<1> HIDE DEF b, i, g
<1>4. \A c \in Blocks : c # b => h.status[c] = blockStatus[c] /\ h.wl[c] = garbageWL[c]
  <2>1. CASE full
    <3>1. h = Insert2GarbageBuckets(g, b, garbageCnt[b])
      BY <2>1
    <3>2. GarbageOK(g) /\ b \in Blocks /\ g.status[b] # "FULL" /\ garbageCnt[b] \in Nat
      BY <1>2, <1>3
    <3> HIDE DEF h, full
    <3>3. /\ h.status = [g.status EXCEPT ![b] = "FULL"]
          /\ h.wl = [g.wl EXCEPT ![b] = GetCurBucketIdx(garbageCnt[b])]
      BY <3>1, <3>2, InsertFacts
    <3> QED
      BY <3>3, <1>2, <1>3
  <2>2. CASE ~full
    BY <2>2, <1>2, <1>3
  <2> QED
    BY <2>1, <2>2
<1> HIDE DEF h
<1> SUFFICES ASSUME NEW c \in FullBlocks
             PROVE  c \in FullBlocks' /\ garbageWL'[c] = garbageWL[c] /\ pages'[c] = pages[c]
  OBVIOUS
<1>5. c \in Blocks /\ blockStatus[c] = "FULL" /\ c # b
  BY <1>2 DEF FullBlocks
<1> QED
  BY <1>1, <1>2, <1>3, <1>4, <1>5 DEF FullBlocks

\* A recycled block was ahead, and no other one leaves unless the GC is over.
LEMMA RecycleAhead ==
    ASSUME IInv, RecycleBlock
    PROVE  recyleCnt = 1 \/ Ahead' = Ahead \ {cur}
<1> SUFFICES ASSUME recyleCnt # 1 PROVE Ahead' = Ahead \ {cur}
  OBVIOUS
<1> DEFINE k == gcBucketIdx
           s == buckets[gcBucketIdx]
<1>1. /\ pc = "copy"
      /\ blockStatus' = [blockStatus EXCEPT ![cur] = "FREE"]
      /\ garbageWL' = [garbageWL EXCEPT ![cur] = 0]
  BY DEF RecycleBlock, ReturnBlock2FreeQ
<1>2. /\ cur \in Blocks /\ blockStatus[cur] = "FULL" /\ garbageWL[cur] = k /\ k \in Buckets
      /\ next # NULL => /\ next \in Blocks /\ blockStatus[next] = "FULL" /\ next # cur
                        /\ garbageWL[next] = k
  BY <1>1, VictimFacts
<1>3. /\ blockStatus \in [Blocks -> {"FREE", "WRITING", "FULL"}]
      /\ garbageWL \in [Blocks -> Buckets]
  BY DEF IInv, TypeOK
<1>4. /\ FullBlocks' = FullBlocks \ {cur}
      /\ \A b \in FullBlocks \ {cur} : garbageWL'[b] = garbageWL[b]
  BY <1>1, <1>2, <1>3 DEF FullBlocks
<1>5. k \in Int /\ \A b \in FullBlocks : garbageWL[b] \in Int
  BY AheadIsFinite
<1>6. CASE next = NULL
  <2>1. pc' = "scan" /\ gcBucketIdx' = k - 1
    BY <1>6 DEF RecycleBlock
  <2>2. Ahead' = {b \in FullBlocks' : garbageWL'[b] <= k - 1}
    BY <2>1 DEF Ahead
  <2>3. Ahead = {b \in FullBlocks : garbageWL[b] < k} \cup {cur}
    BY <1>1, <1>6 DEF Ahead
  <2>4. \A b \in FullBlocks : garbageWL[b] <= k - 1 <=> garbageWL[b] < k
    BY <1>5
  <2> QED
    BY <1>2, <1>4, <1>5, <2>2, <2>3, <2>4
<1>7. CASE next # NULL
  <2>1. pc' = "copy" /\ gcBucketIdx' = k /\ cur' = next /\ next' = After(s, next)
    BY <1>7, <1>1 DEF RecycleBlock
  <2>2. s \in Seq(Blocks) /\ IsInjective(s) /\ ToSet(s) = {b \in FullBlocks : garbageWL[b] = k}
    BY <1>2, BucketIsLevel
  <2>3. Len(s) > 1 /\ Len(s) \in Nat /\ cur = s[1] /\ next = s[2]
    BY <1>1, <1>7, <2>2 DEF IInv, WalkOK
  <2>4. Ahead = {b \in FullBlocks : garbageWL[b] <= k}
    BY <1>7 DEF Ahead
  <2> HIDE DEF s
  <2>5. next' = (IF Len(s) = 2 THEN NULL ELSE s[3]) /\ \A i \in 1 .. Len(s) : s[i] # NULL
    BY <2>1, <2>2, <2>3, NextOnes
  <2>6. CASE Len(s) = 2
    <3>1. Ahead' = {b \in FullBlocks' : garbageWL'[b] < k} \cup {next}
      BY <2>1, <2>5, <2>6 DEF Ahead
    <3>2. ToSet(s) = {cur, next}
      BY <2>2, <2>3, <2>6 DEF ToSet
    <3>3. {b \in FullBlocks : garbageWL[b] = k} = {cur, next}
      BY <2>2, <3>2
    <3>4. \A b \in FullBlocks : garbageWL[b] <= k <=> garbageWL[b] < k \/ b = cur \/ b = next
      BY <1>5, <3>3
    <3> QED
      BY <1>2, <1>4, <1>5, <1>7, <2>4, <3>1, <3>4 DEF FullBlocks
  <2>7. CASE Len(s) # 2
    <3>1. next' # NULL
      BY <2>3, <2>5, <2>7
    <3>2. Ahead' = {b \in FullBlocks' : garbageWL'[b] <= k}
      BY <2>1, <3>1 DEF Ahead
    <3> QED
      BY <1>4, <2>4, <3>2
  <2> QED
    BY <2>6, <2>7
<1> QED
  BY <1>6, <1>7


\* What the walk of a bucket leaves when it begins, and when there is none to walk.
LEMMA EnterAhead ==
    ASSUME IInv, EnterBucket
    PROVE  Ahead' = Ahead
<1> DEFINE s == buckets[gcBucketIdx]
<1>1. /\ pc = "scan" /\ pc' = "copy" /\ gcBucketIdx \in Buckets /\ s # <<>>
      /\ cur' = s[1] /\ next' = After(s, s[1])
      /\ UNCHANGED <<blockStatus, garbageWL, gcBucketIdx>>
  BY DEF EnterBucket, blockVars
<1>2. s \in Seq(Blocks) /\ IsInjective(s) /\ ToSet(s) = {b \in FullBlocks : garbageWL[b] = gcBucketIdx}
  BY <1>1, BucketIsLevel
<1>3. Ahead = {b \in FullBlocks : garbageWL[b] <= gcBucketIdx}
  BY <1>1 DEF Ahead
<1>4. gcBucketIdx \in Int /\ \A b \in FullBlocks : garbageWL[b] \in Int
  BY AheadIsFinite
<1>5. FullBlocks' = FullBlocks
  BY <1>1 DEF FullBlocks
<1> HIDE DEF s
<1>6. Len(s) \in Nat /\ Len(s) >= 1
  BY <1>1, <1>2
<1>7. next' = (IF Len(s) = 1 THEN NULL ELSE s[2]) /\ \A i \in 1 .. Len(s) : s[i] # NULL
  BY <1>1, <1>2, <1>6, NextOnes
<1>8. CASE Len(s) = 1
  <2>1. ToSet(s) = {cur'}
    BY <1>1, <1>2, <1>8 DEF ToSet
  <2>2. Ahead' = {b \in FullBlocks : garbageWL[b] < gcBucketIdx} \cup {cur'}
    BY <1>1, <1>5, <1>7, <1>8 DEF Ahead
  <2>3. {b \in FullBlocks : garbageWL[b] = gcBucketIdx} = {cur'}
    BY <1>2, <2>1
  <2>4. \A b \in FullBlocks : garbageWL[b] <= gcBucketIdx <=> garbageWL[b] < gcBucketIdx \/ b = cur'
    BY <1>4, <2>3
  <2>5. cur' \in FullBlocks
    BY <2>3
  <2> QED
    BY <1>3, <2>2, <2>4, <2>5
<1>9. CASE Len(s) # 1
  <2>1. next' # NULL
    <3>1. 2 \in 1 .. Len(s)
      BY <1>6, <1>9, FewIndices
    <3> QED
      BY <3>1, <1>7, <1>9
  <2>2. Ahead' = {b \in FullBlocks : garbageWL[b] <= gcBucketIdx}
    BY <1>1, <1>5, <2>1 DEF Ahead
  <2> QED
    BY <1>3, <2>2
<1> QED
  BY <1>8, <1>9

\* Every step leaves as many blocks ahead as are still to be recycled.
LEMMA AheadStep ==
    ASSUME SpareSpace, IInv, AheadOK, [Next]_vars, IInv'
    PROVE  AheadOK'
<1>n. recyleCnt \in Nat /\ Cardinality(Ahead) \in Nat /\ IsFiniteSet(Ahead)
  BY AheadIsFinite DEF IInv, TypeOK
<1>f. IsFiniteSet(Ahead') /\ Cardinality(Ahead') \in Nat
  BY AheadIsFiniteNext
<1>1. CASE \/ \E l \in LBA : WriteIO(l) \/ Delete(l)
           \/ EndWrite \/ EndGC \/ BucketIdxWraps \/ AllocationFails
  <2>1. pc' \in {"written", "idle", "corrupt"}
    BY <1>1 DEF WriteIO, Delete, MayWrite, EndWrite, EndGC, BucketIdxWraps, AllocationFails, Corrupt
  <2> QED
    BY <2>1 DEF AheadOK, Collecting
<1>2. CASE StartGC
  <2>1. /\ pc' = "scan" /\ gcBucketIdx' = GC_BUCKET_NUM - 1 /\ recyleCnt' = gcBlockCnt
        /\ Len(freeQ) < gcWL
        /\ UNCHANGED <<blockStatus, garbageWL>>
    BY <1>2 DEF StartGC, blockVars, GetFreeBlockNum
  <2>2. Ahead' = {b \in FullBlocks' : garbageWL'[b] <= GC_BUCKET_NUM - 1}
    BY <2>1 DEF Ahead
  <2>3. FullBlocks' = FullBlocks /\ \A b \in FullBlocks : garbageWL'[b] = garbageWL[b]
    BY <2>1 DEF FullBlocks
  <2>4. \A b \in FullBlocks : garbageWL[b] <= GC_BUCKET_NUM - 1
    BY GeometryAssumption DEF IInv, TypeOK, FullBlocks, Buckets
  <2>5. Ahead' = FullBlocks
    BY <2>2, <2>3, <2>4
  <2>6. Cardinality(FullBlocks) \in Nat /\ Cardinality(FullBlocks) >= totalBlockCnt - Len(freeQ) - 2
    BY FullCount
  <2>7. Len(freeQ) \in Nat
    BY DEF IInv, TypeOK
  <2>8. gcBlockCnt <= Cardinality(FullBlocks)
    BY <2>1, <2>6, <2>7, WaterLevelAssumption, GeometryAssumption DEF SpareSpace
  <2> QED
    BY <2>1, <2>5, <2>8 DEF AheadOK
<1>3. CASE NextBucket
  <2>1. /\ pc = "scan" /\ pc' = "scan" /\ gcBucketIdx \in Buckets /\ blockCnt[gcBucketIdx] = 0
        /\ gcBucketIdx' = gcBucketIdx - 1 /\ recyleCnt' = recyleCnt
        /\ UNCHANGED <<blockStatus, garbageWL>>
    BY <1>3 DEF NextBucket, blockVars
  <2>2. \A b \in FullBlocks : garbageWL[b] # gcBucketIdx
    <3>1. /\ buckets[gcBucketIdx] \in Seq(Blocks) /\ Len(buckets[gcBucketIdx]) = 0
          /\ ToSet(buckets[gcBucketIdx]) = {b \in FullBlocks : garbageWL[b] = gcBucketIdx}
      BY <2>1, BucketIsLevel
    <3>2. ToSet(buckets[gcBucketIdx]) = {}
      BY <3>1 DEF ToSet
    <3> QED
      BY <3>1, <3>2
  <2>3. gcBucketIdx \in Int /\ \A b \in FullBlocks : garbageWL[b] \in Int
    BY AheadIsFinite
  <2>4. \A b \in FullBlocks : garbageWL[b] <= gcBucketIdx - 1 <=> garbageWL[b] <= gcBucketIdx
    BY <2>2, <2>3
  <2>5. Ahead' = {b \in FullBlocks : garbageWL[b] <= gcBucketIdx - 1}
    BY <2>1 DEF Ahead, FullBlocks
  <2>6. Ahead = {b \in FullBlocks : garbageWL[b] <= gcBucketIdx}
    BY <2>1 DEF Ahead
  <2>7. Ahead' = Ahead
    BY <2>4, <2>5, <2>6
  <2> QED
    BY <2>1, <2>7 DEF AheadOK, Collecting
<1>4. CASE EnterBucket
  <2>1. pc = "scan" /\ recyleCnt' = recyleCnt
    BY <1>4 DEF EnterBucket
  <2>2. Ahead' = Ahead
    BY <1>4, EnterAhead
  <2> QED
    BY <2>1, <2>2 DEF AheadOK, Collecting
<1>5. CASE CopyPage
  <2>1. pc = "copy" /\ pc' = "copy" /\ UNCHANGED <<recyleCnt, gcBucketIdx, cur, next>>
    BY <1>5 DEF CopyPage, MayCopy
  <2>2. \A c \in FullBlocks : c \in FullBlocks' /\ garbageWL'[c] = garbageWL[c]
    BY <1>5, CopyPageFull
  <2>3. Ahead \in SUBSET Ahead'
    BY <2>1, <2>2 DEF Ahead
  <2>4. Cardinality(Ahead) <= Cardinality(Ahead')
    BY <1>f, <2>3, FS_Subset
  <2> QED
    BY <1>n, <1>f, <2>1, <2>4 DEF AheadOK, Collecting
<1>6. CASE RecycleBlock
  <2>1. pc = "copy" /\ recyleCnt' = recyleCnt - 1
    BY <1>6 DEF RecycleBlock
  <2>2. recyleCnt = 1 \/ Ahead' = Ahead \ {cur}
    BY <1>6, RecycleAhead
  <2>3. cur \in Ahead
    BY <2>1, AheadIsFinite
  <2>4. Cardinality(Ahead \ {cur}) = Cardinality(Ahead) - 1
    BY <1>n, <2>3, FS_RemoveElement
  <2> QED
    BY <1>n, <1>f, <2>1, <2>2, <2>4 DEF AheadOK, Collecting
<1>7. CASE SkipPage \/ UNCHANGED vars
  <2>1. UNCHANGED <<pc, recyleCnt, gcBucketIdx, cur, next, blockStatus, garbageWL>>
    BY <1>7 DEF SkipPage, vars, walkVars, blockVars
  <2> QED
    BY <2>1 DEF AheadOK, Collecting, Ahead, FullBlocks
<1> QED
  BY <1>1, <1>2, <1>3, <1>4, <1>5, <1>6, <1>7 DEF Next, HostStep, GCStep, Fault

\* The pages left, for the host and for GC together.
AllRoom == GCRoom + Room(hostBlock) + Walked

\* The stalled writer's share and one block for GC to work with.
Least == PAGE_NUM_PER_BLOCK * (gcStallWL + 1)

\* A write may take the last page above the share. Then a GC follows that has a page
\* of garbage still to come to, which it leaves out of its copies.
SpaceOK ==
    /\ pc # "corrupt"
    /\ pc = "idle" => AllRoom >= Least
    /\ AllRoom >= Least - 1
    /\ AllRoom = Least - 1 =>
         /\ pc = "scan" => recyleCnt > 0 /\ \E b \in FullBlocks : garbageWL[b] \in 1 .. gcBucketIdx
         /\ pc = "copy" => \E i \in Pages : i >= pageIdx /\ pages[cur][i] = INVALID

\* The room that a writer leaves is at least two blocks.
LEMMA LeastFacts ==
    ASSUME SpareSpace, IInv, RoomOK
    PROVE  /\ PAGE_NUM_PER_BLOCK \in Nat \ {0} /\ Least \in Nat
           /\ Least >= PAGE_NUM_PER_BLOCK + PAGE_NUM_PER_BLOCK
           /\ GCRoom \in Nat /\ AllRoom \in Nat /\ Walked \in Nat
           /\ Room(hostBlock) \in Nat /\ Room(hostBlock) < PAGE_NUM_PER_BLOCK
           /\ Room(gcBlock) \in Nat /\ Room(gcBlock) < PAGE_NUM_PER_BLOCK
           /\ Len(freeQ) \in Nat /\ PAGE_NUM_PER_BLOCK * Len(freeQ) \in Nat
           /\ gcStallWL \in Nat
<1>1. PAGE_NUM_PER_BLOCK \in Nat \ {0} /\ gcStallWL \in Nat \ {0}
  BY GeometryAssumption, WaterLevelAssumption DEF SpareSpace
<1>2. Least \in Nat /\ Least >= PAGE_NUM_PER_BLOCK + PAGE_NUM_PER_BLOCK
  <2>1. PAGE_NUM_PER_BLOCK * 1 <= PAGE_NUM_PER_BLOCK * gcStallWL
    BY <1>1, ProductsGrow
  <2>2. PAGE_NUM_PER_BLOCK * (gcStallWL + 1) = PAGE_NUM_PER_BLOCK * gcStallWL + PAGE_NUM_PER_BLOCK
        /\ PAGE_NUM_PER_BLOCK * gcStallWL \in Nat
    BY <1>1, Products
  <2>3. PAGE_NUM_PER_BLOCK * 1 = PAGE_NUM_PER_BLOCK
    BY <1>1
  <2> QED
    BY <1>1, <2>1, <2>2, <2>3 DEF Least
<1>3. /\ Room(hostBlock) \in Nat /\ Room(hostBlock) < PAGE_NUM_PER_BLOCK
      /\ Room(gcBlock) \in Nat /\ Room(gcBlock) < PAGE_NUM_PER_BLOCK
      /\ Len(freeQ) \in Nat /\ PAGE_NUM_PER_BLOCK * Len(freeQ) \in Nat /\ Walked \in Nat
  BY RoomFacts
<1> QED
  BY <1>1, <1>2, <1>3 DEF GCRoom, AllRoom

\* With the stall level of free blocks, or with less than the stalled writer's share.
LEMMA FewBlocksLeft ==
    ASSUME SpareSpace, IInv, RoomOK
    PROVE  /\ Len(freeQ) > gcStallWL => AllRoom >= Least
           /\ AllRoom < Least => Len(freeQ) <= gcStallWL
<1> DEFINE P == PAGE_NUM_PER_BLOCK
<1>1. ASSUME Len(freeQ) > gcStallWL PROVE AllRoom >= Least
  <2>1. gcStallWL + 1 <= Len(freeQ) /\ gcStallWL + 1 \in Nat
    BY <1>1, LeastFacts
  <2>2. P * (gcStallWL + 1) <= P * Len(freeQ)
    BY <2>1, LeastFacts, ProductsGrow
  <2>3. AllRoom >= PAGE_NUM_PER_BLOCK * Len(freeQ)
    <3> DEFINE q == PAGE_NUM_PER_BLOCK * Len(freeQ)
    <3>1. q \in Nat /\ Room(hostBlock) \in Nat /\ Room(gcBlock) \in Nat /\ Walked \in Nat
      BY LeastFacts
    <3>2. AllRoom = q + Room(gcBlock) + Room(hostBlock) + Walked
      BY DEF AllRoom, GCRoom
    <3> HIDE DEF q
    <3>3. AllRoom >= q
      BY <3>1, <3>2
    <3> QED
      BY <3>3 DEF q
  <2>4. AllRoom \in Nat /\ Least \in Nat /\ PAGE_NUM_PER_BLOCK * Len(freeQ) \in Nat
    BY LeastFacts
  <2> QED
    BY <2>2, <2>3, <2>4 DEF Least
<1> QED
  BY <1>1, LeastFacts


\* A block on a level above the lowest has an INVALID page.
LEMMA InvalidPage ==
    ASSUME IInv, NEW b \in FullBlocks, garbageWL[b] > 0
    PROVE  \E i \in Pages : pages[b][i] = INVALID
<1> SUFFICES ASSUME \A i \in Pages : pages[b][i] # INVALID PROVE FALSE
  OBVIOUS
<1>1. b \in Blocks /\ blockStatus[b] = "FULL"
  BY DEF FullBlocks
<1>2. garbageCnt[b] = Cardinality({i \in Pages : pages[b][i] = INVALID})
  BY <1>1 DEF IInv, GarbageIsCounted
<1>3. {i \in Pages : pages[b][i] = INVALID} = {}
  OBVIOUS
<1>4. garbageCnt[b] = 0
  BY <1>2, <1>3, FS_EmptySet
<1>5. garbageWL[b] = GetCurBucketIdx(0)
  BY <1>1, <1>4 DEF IInv, LevelOK
<1> QED
  BY <1>5, LevelFacts

\* Every step leaves the room that the next one needs.
LEMMA SpaceStep ==
    ASSUME SpareSpace, IInv, RoomOK, OccupiedOK, AheadOK, SpaceOK, [Next]_vars
    PROVE  SpaceOK'
<1>l. /\ PAGE_NUM_PER_BLOCK \in Nat \ {0} /\ Least \in Nat
      /\ Least >= PAGE_NUM_PER_BLOCK + PAGE_NUM_PER_BLOCK
      /\ GCRoom \in Nat /\ AllRoom \in Nat /\ Walked \in Nat
      /\ Room(hostBlock) \in Nat /\ Room(hostBlock) < PAGE_NUM_PER_BLOCK
      /\ Room(gcBlock) \in Nat /\ Room(gcBlock) < PAGE_NUM_PER_BLOCK
      /\ Len(freeQ) \in Nat /\ PAGE_NUM_PER_BLOCK * Len(freeQ) \in Nat
      /\ gcStallWL \in Nat
  BY LeastFacts
<1>p. Least' = Least
  BY DEF Least
<1>1. ASSUME NEW l \in LBA, WriteIO(l) PROVE SpaceOK'
  <2>1. pc = "idle" /\ pc' = "written"
    BY <1>1 DEF WriteIO, MayWrite
  <2>2. /\ PAGE_NUM_PER_BLOCK * Len(freeQ') + Room(hostBlock)'
             = PAGE_NUM_PER_BLOCK * Len(freeQ) + Room(hostBlock) - 1
        /\ Room(gcBlock)' = Room(gcBlock)
    BY <1>1, WriteIORoom
  <2>3. Walked = 0 /\ Walked' = 0
    BY <2>1 DEF Walked
  <2>4. AllRoom = PAGE_NUM_PER_BLOCK * Len(freeQ) + Room(gcBlock) + Room(hostBlock) + 0
    BY <2>3 DEF AllRoom, GCRoom
  <2>5. AllRoom' = PAGE_NUM_PER_BLOCK * Len(freeQ') + Room(gcBlock)' + Room(hostBlock)' + 0
    BY <2>3 DEF AllRoom, GCRoom
  <2>7. Len(freeQ') \in Nat /\ Room(hostBlock)' \in Int
    <3>1. IInv' /\ RoomOK'
      BY <1>1, WriteIOInv, WriteIORoom
    <3>2. freeQ' \in Seq(Blocks) /\ pageCursor' \in [Blocks -> 0 .. PAGE_NUM_PER_BLOCK]
          /\ hostBlock' \in Blocks \cup {NULL}
      BY <3>1 DEF IInv, TypeOK
    <3> QED
      BY <1>l, <3>2 DEF Room
  <2>8. PAGE_NUM_PER_BLOCK * Len(freeQ') \in Nat
    BY <1>l, <2>7, Products
  <2>9. AllRoom' = AllRoom - 1
    <3> DEFINE q  == PAGE_NUM_PER_BLOCK * Len(freeQ)
               q2 == PAGE_NUM_PER_BLOCK * Len(freeQ')
               h  == Room(hostBlock)
               h2 == Room(hostBlock)'
               g  == Room(gcBlock)
    <3>1. q \in Int /\ q2 \in Int /\ h \in Int /\ h2 \in Int /\ g \in Int
      BY <1>l, <2>7, <2>8
    <3>2. AllRoom = q + g + h + 0 /\ AllRoom' = q2 + g + h2 + 0 /\ q2 + h2 = q + h - 1
      BY <2>2, <2>4, <2>5
    <3> HIDE DEF q, q2, h, h2, g
    <3> QED
      BY <3>1, <3>2
  <2> QED
    BY <1>l, <1>p, <2>1, <2>9 DEF SpaceOK
<1>2. ASSUME NEW l \in LBA, Delete(l) PROVE SpaceOK'
  <2>1. pc = "idle" /\ pc' = "idle" /\ UNCHANGED <<pageCursor, freeQ, hostBlock, gcBlock>>
    BY <1>2 DEF Delete, openVars
  <2>2. AllRoom' = AllRoom
    BY <2>1, SameRoom DEF AllRoom, Walked
  <2> QED
    BY <1>l, <1>p, <2>1, <2>2 DEF SpaceOK
<1>3. CASE EndWrite
  <2>1. /\ pc = "written" /\ pc' = "idle" /\ UNCHANGED <<pageCursor, freeQ, hostBlock, gcBlock>>
        /\ Len(freeQ) >= gcWL \/ Len(freeQ) > gcStallWL
    BY <1>3 DEF EndWrite, GetFreeBlockNum, blockVars, listVars, openVars
  <2>2. AllRoom' = AllRoom
    BY <2>1, SameRoom DEF AllRoom, Walked
  <2>3. Len(freeQ) > gcStallWL
    BY <1>l, <2>1, WaterLevelAssumption DEF SpareSpace
  <2>4. AllRoom >= Least
    BY <2>3, FewBlocksLeft
  <2> QED
    BY <1>l, <1>p, <2>1, <2>2, <2>4 DEF SpaceOK
<1>4. CASE StartGC
  <2>1. /\ pc = "written" /\ pc' = "scan" /\ UNCHANGED <<pageCursor, freeQ, hostBlock, gcBlock>>
        /\ recyleCnt' = gcBlockCnt /\ gcBucketIdx' = GC_BUCKET_NUM - 1
        /\ UNCHANGED <<blockStatus, garbageWL>>
    BY <1>4 DEF StartGC, blockVars, listVars, openVars
  <2>2. AllRoom' = AllRoom
    BY <2>1, SameRoom DEF AllRoom, Walked
  <2>3. ASSUME AllRoom = Least - 1
        PROVE  \E b \in FullBlocks : garbageWL[b] \in 1 .. GC_BUCKET_NUM - 1
    <3>1. Len(freeQ) <= gcStallWL
      BY <1>l, <2>3, FewBlocksLeft
    <3> QED
      BY <2>1, <3>1, GarbageSomewhere
  <2>4. FullBlocks' = FullBlocks /\ garbageWL' = garbageWL /\ gcBlockCnt > 0
    BY <2>1, WaterLevelAssumption DEF FullBlocks
  <2> QED
    BY <1>l, <1>p, <2>1, <2>2, <2>3, <2>4 DEF SpaceOK
<1>5. CASE NextBucket
  <2>1. /\ pc = "scan" /\ pc' = "scan" /\ UNCHANGED <<pageCursor, freeQ, hostBlock, gcBlock>>
        /\ recyleCnt' = recyleCnt /\ gcBucketIdx' = gcBucketIdx - 1
        /\ gcBucketIdx \in Buckets /\ blockCnt[gcBucketIdx] = 0
        /\ UNCHANGED <<blockStatus, garbageWL>>
    BY <1>5 DEF NextBucket, blockVars, listVars, openVars
  <2>2. AllRoom' = AllRoom
    BY <2>1, SameRoom DEF AllRoom, Walked
  <2>3. \A b \in FullBlocks : garbageWL[b] # gcBucketIdx
    <3>1. /\ buckets[gcBucketIdx] \in Seq(Blocks) /\ Len(buckets[gcBucketIdx]) = 0
          /\ ToSet(buckets[gcBucketIdx]) = {b \in FullBlocks : garbageWL[b] = gcBucketIdx}
      BY <2>1, BucketIsLevel
    <3>2. ToSet(buckets[gcBucketIdx]) = {}
      BY <3>1 DEF ToSet
    <3> QED
      BY <3>1, <3>2
  <2>4. gcBucketIdx \in Int /\ \A b \in FullBlocks : garbageWL[b] \in Nat
    BY AheadIsFinite
  <2>5. \A b \in FullBlocks : garbageWL[b] \in 1 .. gcBucketIdx => garbageWL[b] \in 1 .. gcBucketIdx - 1
    BY <2>3, <2>4
  <2>6. FullBlocks' = FullBlocks /\ garbageWL' = garbageWL
    BY <2>1 DEF FullBlocks
  <2>7. AllRoom = Least - 1 =>
          recyleCnt' > 0 /\ \E b \in FullBlocks' : garbageWL'[b] \in 1 .. gcBucketIdx'
    BY <2>1, <2>5, <2>6 DEF SpaceOK
  <2> QED
    BY <1>p, <2>1, <2>2, <2>7 DEF SpaceOK
<1>6. CASE EnterBucket
  <2>1. /\ pc = "scan" /\ pc' = "copy" /\ UNCHANGED <<pageCursor, freeQ, hostBlock, gcBlock, pages>>
        /\ gcBucketIdx \in Buckets /\ buckets[gcBucketIdx] # <<>>
        /\ cur' = buckets[gcBucketIdx][1] /\ pageIdx' = 0
    BY <1>6 DEF EnterBucket, blockVars, listVars, openVars
  <2>2. Walked = 0 /\ Walked' = 0
    BY <2>1 DEF Walked
  <2>3. AllRoom' = AllRoom
    BY <2>1, <2>2, SameRoom DEF AllRoom
  <2>4. ASSUME AllRoom = Least - 1 PROVE \E i \in Pages : i >= 0 /\ pages[cur'][i] = INVALID
    <3>1. PICK b \in FullBlocks : garbageWL[b] \in 1 .. gcBucketIdx
      BY <2>1, <2>4 DEF SpaceOK
    <3>2. gcBucketIdx > 0
      BY <3>1, AheadIsFinite
    <3>3. /\ buckets[gcBucketIdx] \in Seq(Blocks)
          /\ ToSet(buckets[gcBucketIdx]) = {c \in FullBlocks : garbageWL[c] = gcBucketIdx}
      BY <2>1, BucketIsLevel
    <3>4. cur' \in ToSet(buckets[gcBucketIdx])
      BY <2>1, <3>3 DEF ToSet
    <3>5. cur' \in FullBlocks /\ garbageWL[cur'] > 0
      BY <3>2, <3>3, <3>4
    <3>6. PICK i \in Pages : pages[cur'][i] = INVALID
      BY <3>5, InvalidPage
    <3> QED
      BY <1>l, <3>6 DEF Pages
  <2> QED
    BY <1>p, <2>1, <2>3, <2>4 DEF SpaceOK
<1>7. CASE CopyPage
  <2>1. /\ pc = "copy" /\ pc' = "copy" /\ pageIdx' = pageIdx + 1 /\ cur' = cur
        /\ pages[cur][pageIdx] \in LBA
    BY <1>7 DEF CopyPage, MayCopy
  <2>2. GCRoom' = GCRoom - 1 /\ Room(hostBlock)' = Room(hostBlock)
    BY <1>7, CopyPageRoom
  <2>3. Walked' = Walked + 1
    BY <2>1 DEF Walked
  <2>4. AllRoom' = AllRoom
    BY <1>l, <2>2, <2>3 DEF AllRoom
  <2>5. pages'[cur] = pages[cur]
    <3>1. cur \in FullBlocks
      BY <2>1, VictimFacts DEF FullBlocks
    <3> QED
      BY <1>7, <3>1, CopyPageFull
  <2>6. \A i \in Pages : i >= pageIdx /\ pages[cur][i] = INVALID => i >= pageIdx + 1
    <3>1. pages[cur][pageIdx] # INVALID
      BY <2>1, ValueAssumption
    <3> QED
      BY <3>1, <1>l DEF Pages, IInv, TypeOK
  <2> QED
    BY <1>p, <2>1, <2>4, <2>5, <2>6 DEF SpaceOK
<1>8. CASE SkipPage
  <2>1. /\ pc = "copy" /\ pc' = "copy" /\ pageIdx' = pageIdx + 1
        /\ UNCHANGED <<pageCursor, freeQ, hostBlock, gcBlock>>
    BY <1>8 DEF SkipPage, blockVars, listVars, openVars
  <2>2. Walked' = Walked + 1 /\ GCRoom' = GCRoom /\ Room(hostBlock)' = Room(hostBlock)
    BY <2>1, SameRoom DEF Walked
  <2>3. AllRoom' = AllRoom + 1
    BY <1>l, <2>2 DEF AllRoom
  <2> QED
    BY <1>l, <1>p, <2>1, <2>3 DEF SpaceOK
<1>9. CASE RecycleBlock
  <2>1. /\ GCRoom' = GCRoom + PAGE_NUM_PER_BLOCK /\ Room(hostBlock)' = Room(hostBlock)
        /\ pageIdx = PAGE_NUM_PER_BLOCK /\ Walked' = 0 /\ Walked = PAGE_NUM_PER_BLOCK
    BY <1>9, RecycleRoom
  <2>2. AllRoom' = AllRoom
    BY <1>l, <2>1 DEF AllRoom
  <2>3. pc = "copy" /\ pc' \in {"scan", "copy"}
    BY <1>9 DEF RecycleBlock
  <2>4. AllRoom # Least - 1
    <3>1. \A i \in Pages : ~(i >= pageIdx)
      BY <1>l, <2>1 DEF Pages
    <3> QED
      BY <2>3, <3>1 DEF SpaceOK
  <2> QED
    BY <1>l, <1>p, <2>2, <2>3, <2>4 DEF SpaceOK
<1>10. CASE EndGC
  <2>1. /\ pc = "scan" /\ recyleCnt = 0 /\ pc' = "idle"
        /\ UNCHANGED <<pageCursor, freeQ, hostBlock, gcBlock>>
    BY <1>10 DEF EndGC, blockVars, listVars, openVars
  <2>2. AllRoom' = AllRoom
    BY <2>1, SameRoom DEF AllRoom, Walked
  <2>3. AllRoom >= Least
    <3>1. ~(recyleCnt > 0)
      BY <2>1
    <3>2. AllRoom # Least - 1
      BY <2>1, <3>1 DEF SpaceOK
    <3>3. AllRoom >= Least - 1
      BY DEF SpaceOK
    <3> QED
      BY <1>l, <3>2, <3>3
  <2> QED
    BY <1>l, <1>p, <2>1, <2>2, <2>3 DEF SpaceOK
<1>11. CASE BucketIdxWraps
  <2>1. pc = "scan" /\ recyleCnt > 0 /\ gcBucketIdx \notin Buckets
    BY <1>11 DEF BucketIdxWraps
  <2>2. gcBucketIdx = -1
    BY <2>1 DEF IInv, TypeOK
  <2>3. Ahead = {}
    BY <2>1, <2>2, AheadIsFinite DEF Ahead
  <2>4. Cardinality(Ahead) = 0
    BY <2>3, FS_EmptySet
  <2>5. recyleCnt \in Nat
    BY DEF IInv, TypeOK
  <2> QED
    BY <2>1, <2>4, <2>5 DEF AheadOK, Collecting
<1>12. CASE AllocationFails
  <2>1. PICK open \in Demanded : open = NULL /\ freeQ = <<>>
    BY <1>12 DEF AllocationFails, Exhausted
  <2>2. PAGE_NUM_PER_BLOCK * Len(freeQ) = 0
    BY <1>l, <2>1
  <2>3. CASE pc = "idle" /\ open = hostBlock
    <3>1. AllRoom = Room(gcBlock)
      BY <1>l, <2>1, <2>2, <2>3 DEF AllRoom, GCRoom, Walked, Room
    <3> QED
      BY <1>l, <2>3, <3>1 DEF SpaceOK
  <2>4. CASE MayCopy /\ open = gcBlock
    <3>1. pc = "copy" /\ pageIdx < pageCursor[cur]
      BY <2>4 DEF MayCopy
    <3>2. pageCursor[cur] = PAGE_NUM_PER_BLOCK /\ Walked = pageIdx
      BY <3>1, VictimFacts DEF Walked
    <3>3. AllRoom = Room(hostBlock) + Walked
      BY <1>l, <2>1, <2>2, <2>4 DEF AllRoom, GCRoom, Room
    <3> QED
      BY <1>l, <3>1, <3>2, <3>3 DEF SpaceOK
  <2> QED
    BY <2>1, <2>3, <2>4 DEF Demanded, MayWrite
<1>13. CASE UNCHANGED vars
  <2>1. /\ UNCHANGED <<pageCursor, freeQ, hostBlock, gcBlock>>
        /\ UNCHANGED <<pc, recyleCnt, gcBucketIdx, cur, pageIdx, pages, blockStatus, garbageWL>>
    BY <1>13 DEF vars, walkVars, blockVars, listVars, openVars
  <2>2. AllRoom' = AllRoom
    BY <2>1, SameRoom DEF AllRoom, Walked
  <2> QED
    BY <1>p, <2>1, <2>2 DEF SpaceOK, FullBlocks
<1> QED
  BY <1>1, <1>2, <1>3, <1>4, <1>5, <1>6, <1>7, <1>8, <1>9, <1>10, <1>11, <1>12, <1>13
  DEF Next, HostStep, GCStep, Fault


SpaceInv == KeepInv /\ OccupiedOK /\ AheadOK /\ SpaceOK

\* An empty disk has the room.
LEMMA SpaceInvInit ==
    ASSUME SpareSpace, Init
    PROVE  SpaceInv
<1>1. IInv
  BY InitInv
<1>2. KeepInv
  BY DEF Init, KeepInv, RoomOK, KeepOK, Collecting
<1>3. OccupiedOK
  <2>1. spaceIndex = {}
    BY DEF Init
  <2>2. IsFiniteSet({}) /\ Cardinality({}) = 0
    BY FS_EmptySet
  <2> QED
    BY <2>1, <2>2, WaterLevelAssumption DEF OccupiedOK
<1>4. AheadOK
  BY DEF Init, AheadOK, Collecting
<1>5. SpaceOK
  <2>1. freeQ \in [1 .. totalBlockCnt -> Blocks] /\ pc = "idle"
    BY GeometryAssumption DEF Init, Blocks
  <2>2. Len(freeQ) = totalBlockCnt
    BY <2>1, GeometryAssumption
  <2>3. Len(freeQ) > gcStallWL
    BY <2>2, GeometryAssumption, WaterLevelAssumption DEF SpareSpace
  <2>4. AllRoom >= Least
    BY <1>1, <1>2, <2>3, FewBlocksLeft DEF KeepInv
  <2>5. AllRoom \in Nat /\ Least \in Nat
    BY <1>1, <1>2, LeastFacts DEF KeepInv
  <2> QED
    BY <2>1, <2>4, <2>5 DEF SpaceOK
<1> QED
  BY <1>2, <1>3, <1>4, <1>5 DEF SpaceInv

\* All parts together are kept by every step.
LEMMA SpaceInvStep ==
    ASSUME SpareSpace, IInv, SpaceInv, [Next]_vars
    PROVE  IInv' /\ SpaceInv'
<1>1. IInv' /\ KeepInv'
  BY StepInv, KeepStep DEF SpaceInv
<1>2. OccupiedOK' /\ AheadOK'
  BY <1>1, OccupiedStep, AheadStep DEF SpaceInv
<1>3. SpaceOK'
  BY SpaceStep DEF SpaceInv, KeepInv
<1> QED
  BY <1>1, <1>2, <1>3 DEF SpaceInv

\* With spare space no write and no collection finds the free queue empty, which
\* TryAllocBlockFromFreeQ does not test, and no walk runs below bucket 0
\* (gc_module.c): the writer that stalls leaves GC enough to copy to, and finds it garbage.
\* That is WriteHostIO in tier 0, one page to each stall and test for GC.
THEOREM NeverCorruptHolds ==
    ASSUME SpareSpace
    PROVE  Spec => []NeverCorrupt
<1>1. Init => IInv /\ SpaceInv
  BY InitInv, SpaceInvInit
<1>2. IInv /\ SpaceInv /\ [Next]_vars => IInv' /\ SpaceInv'
  BY SpaceInvStep
<1>3. SpaceInv => NeverCorrupt
  BY DEF SpaceInv, SpaceOK, NeverCorrupt
<1> QED
  BY <1>1, <1>2, <1>3, PTL DEF Spec

\* The recycled blocks stand in front in the free queue, the last one first, and GC
\* had at least as many free blocks when it began as it recycles.
EraseOK ==
    IF Collecting
    THEN /\ Len(eraseBlockId) + recyleCnt = gcBlockCnt
         /\ freeBefore >= gcBlockCnt
         /\ Len(freeQ) >= Len(eraseBlockId)
         /\ \A j \in 1 .. Len(eraseBlockId) : freeQ[j] = eraseBlockId[Len(eraseBlockId) + 1 - j]
    ELSE eraseBlockId = <<>>

\* The other elements of a list stay where they are when the last one goes.
LEMMA FrontElements ==
    ASSUME NEW S, NEW s \in Seq(S), s # <<>>
    PROVE  \A i \in 1 .. Len(s) - 1 : Front(s)[i] = s[i]
<1>1. Len(s) \in Nat \ {0}
  OBVIOUS
<1>2. ASSUME NEW n \in 0 .. Len(s)
      PROVE  \A i \in 1 .. n : SubSeq(s, 1, n)[i] = s[i]
  OBVIOUS
<1>3. Len(s) - 1 \in 0 .. Len(s)
  BY <1>1
<1> QED
  BY <1>2, <1>3 DEF Front

\* A writer that stalls leaves the stall level of free blocks.
LEMMA StallLevelLeft ==
    ASSUME SpareSpace, IInv, RoomOK, SpaceOK, pc = "written"
    PROVE  Len(freeQ) >= gcStallWL
<1> DEFINE P == PAGE_NUM_PER_BLOCK
<1>1. /\ P \in Nat \ {0} /\ gcStallWL \in Nat /\ Len(freeQ) \in Nat /\ P * Len(freeQ) \in Nat
      /\ Room(hostBlock) \in Nat /\ Room(hostBlock) < P /\ Room(gcBlock) \in Nat /\ Room(gcBlock) < P
  BY LeastFacts
<1>2. P * (gcStallWL + 1) = P * gcStallWL + P /\ P * gcStallWL \in Nat
  BY <1>1, Products
<1>3. AllRoom = P * Len(freeQ) + Room(gcBlock) + Room(hostBlock) + 0
  BY DEF AllRoom, GCRoom, Walked
<1>4. AllRoom >= P * gcStallWL + P - 1
  <2>1. AllRoom >= Least - 1
    BY DEF SpaceOK
  <2> DEFINE t == P * gcStallWL
  <2>2. Least = t + P /\ t \in Nat
    BY <1>2 DEF Least
  <2>3. AllRoom \in Nat
    BY LeastFacts
  <2> HIDE DEF t
  <2>4. AllRoom >= t + P - 1
    BY <1>1, <2>1, <2>2, <2>3
  <2> QED
    BY <2>4 DEF t
<1>5. P * Len(freeQ) + (P - 1) >= P * gcStallWL
  <2> DEFINE q == P * Len(freeQ)
             t == P * gcStallWL
             h == Room(hostBlock)
             g == Room(gcBlock)
  <2>1. q \in Nat /\ t \in Nat /\ h \in Nat /\ g \in Nat /\ h < P /\ g < P
    BY <1>1, <1>2
  <2>2. q + g + h + 0 >= t + P - 1
    BY <1>3, <1>4
  <2> HIDE DEF q, t, h, g
  <2>3. q + (P - 1) >= t
    BY <1>1, <2>1, <2>2
  <2> QED
    BY <2>3 DEF q, t
<1>6. P - 1 \in Nat /\ P - 1 < P
  BY <1>1
<1> QED
  BY <1>1, <1>5, <1>6, WholeBlocks

\* Every step leaves the recycled blocks at the head of the free queue.
LEMMA EraseStep ==
    ASSUME SpareSpace, gcBlockCnt <= gcStallWL,
           IInv, KeepInv, SpaceOK, EraseOK, [Next]_vars, SpaceOK'
    PROVE  EraseOK'
<1>0. /\ eraseBlockId \in Seq(Blocks) /\ freeQ \in Seq(Blocks) /\ recyleCnt \in Nat
      /\ Len(eraseBlockId) \in Nat /\ Len(freeQ) \in Nat /\ freeBefore \in Nat
      /\ gcBlockCnt \in Nat \ {0} /\ gcStallWL \in Nat
  <2>1. /\ eraseBlockId \in Seq(Blocks) /\ freeQ \in Seq(Blocks) /\ recyleCnt \in Nat
        /\ freeBefore \in Nat
    BY DEF IInv, TypeOK
  <2>2. Len(eraseBlockId) \in Nat /\ Len(freeQ) \in Nat
    BY <2>1
  <2> QED
    BY <2>1, <2>2, WaterLevelAssumption
<1>1. CASE \E l \in LBA : WriteIO(l) \/ Delete(l)
  <2>1. pc = "idle" /\ pc' \in {"idle", "written"} /\ eraseBlockId' = eraseBlockId
    BY <1>1 DEF WriteIO, MayWrite, Delete, outVars
  <2> QED
    BY <2>1 DEF EraseOK, Collecting
<1>2. CASE EndWrite \/ EndGC
  <2>1. pc' = "idle" /\ (eraseBlockId' = <<>> \/ (pc = "written" /\ eraseBlockId' = eraseBlockId))
    BY <1>2 DEF EndWrite, EndGC, outVars
  <2> QED
    BY <2>1 DEF EraseOK, Collecting
<1>3. CASE Fault
  <2>1. pc' = "corrupt"
    BY <1>3 DEF Fault, AllocationFails, BucketIdxWraps, Corrupt
  <2> QED
    BY <2>1 DEF SpaceOK
<1>4. CASE StartGC
  <2>1. /\ pc = "written" /\ pc' = "scan" /\ eraseBlockId' = eraseBlockId /\ freeQ' = freeQ
        /\ recyleCnt' = gcBlockCnt /\ freeBefore' = Len(freeQ)
    BY <1>4 DEF StartGC, outVars, listVars, GetFreeBlockNum
  <2>2. eraseBlockId = <<>>
    BY <2>1 DEF EraseOK, Collecting
  <2>3. Len(freeQ) >= gcBlockCnt
    BY <1>0, <2>1, StallLevelLeft DEF KeepInv
  <2> QED
    BY <1>0, <2>1, <2>2, <2>3 DEF EraseOK, Collecting
<1>5. CASE NextBucket \/ EnterBucket \/ SkipPage \/ UNCHANGED vars
  <2>1. UNCHANGED <<eraseBlockId, freeQ, recyleCnt, freeBefore>> /\ Collecting' = Collecting
    BY <1>5 DEF NextBucket, EnterBucket, SkipPage, vars, walkVars, outVars, histVars, listVars, Collecting
  <2> QED
    BY <2>1 DEF EraseOK
<1>6. CASE CopyPage
  <2>1. /\ pc = "copy" /\ pc' = "copy" /\ pageIdx < pageCursor[cur] /\ TakeTarget(gcBlock)
        /\ UNCHANGED <<eraseBlockId, recyleCnt, freeBefore>>
    BY <1>6 DEF CopyPage, MayCopy, histVars
  <2>2. /\ Len(eraseBlockId) + recyleCnt = gcBlockCnt /\ freeBefore >= gcBlockCnt
        /\ Len(freeQ) >= Len(eraseBlockId)
        /\ \A j \in 1 .. Len(eraseBlockId) : freeQ[j] = eraseBlockId[Len(eraseBlockId) + 1 - j]
    BY <2>1 DEF EraseOK, Collecting
  <2>3. CASE gcBlock # NULL
    <3>1. freeQ' = freeQ
      BY <2>1, <2>3 DEF TakeTarget
    <3> QED
      BY <2>1, <2>2, <3>1 DEF EraseOK, Collecting
  <2>4. CASE gcBlock = NULL
    <3>1. freeQ # <<>> /\ freeQ' = Front(freeQ)
      BY <2>1, <2>4 DEF TakeTarget, Exhausted
    <3>2. /\ Len(freeQ') = Len(freeQ) - 1
          /\ \A i \in 1 .. Len(freeQ) - 1 : freeQ'[i] = freeQ[i]
      BY <1>0, <3>1, FrontLength, FrontElements
    <3>3. /\ pageIdx \in Nat /\ pageIdx < PAGE_NUM_PER_BLOCK /\ Walked = pageIdx /\ recyleCnt > 0
          /\ PAGE_NUM_PER_BLOCK \in Nat
      BY <2>1, VictimFacts, GeometryAssumption DEF Walked, IInv, TypeOK
    <3>4. PAGE_NUM_PER_BLOCK * Len(freeQ) + pageIdx >= PAGE_NUM_PER_BLOCK * freeBefore
      <4>1. GCRoom = PAGE_NUM_PER_BLOCK * Len(freeQ) + 0
        BY <2>4 DEF GCRoom, Room
      <4>2. PAGE_NUM_PER_BLOCK * Len(freeQ) \in Nat
        BY RoomFacts DEF KeepInv
      <4> QED
        BY <2>1, <3>3, <4>1, <4>2 DEF KeepInv, KeepOK, Collecting
    <3>5. Len(freeQ) >= freeBefore
      BY <1>0, <3>3, <3>4, WholeBlocks
    <3>6. Len(freeQ) - 1 >= Len(eraseBlockId)
      BY <1>0, <2>2, <3>3, <3>5
    <3>7. \A j \in 1 .. Len(eraseBlockId) : freeQ'[j] = eraseBlockId[Len(eraseBlockId) + 1 - j]
      BY <1>0, <2>2, <3>2, <3>6
    <3> QED
      BY <2>1, <2>2, <3>2, <3>6, <3>7 DEF EraseOK, Collecting
  <2> QED
    BY <2>3, <2>4
<1>7. CASE RecycleBlock
  <2> DEFINE n == Len(eraseBlockId)
  <2>1. /\ pc = "copy" /\ pc' \in {"scan", "copy"} /\ freeQ' = Cons(cur, freeQ)
        /\ eraseBlockId' = Append(eraseBlockId, cur)
        /\ recyleCnt' = recyleCnt - 1 /\ freeBefore' = freeBefore
    BY <1>7 DEF RecycleBlock, ReturnBlock2FreeQ, Returned, histVars
  <2>2. /\ n + recyleCnt = gcBlockCnt /\ freeBefore >= gcBlockCnt
        /\ Len(freeQ) >= n
        /\ \A j \in 1 .. n : freeQ[j] = eraseBlockId[n + 1 - j]
    BY <2>1 DEF EraseOK, Collecting
  <2>3. cur \in Blocks
    BY <2>1, VictimFacts
  <2>4. /\ Len(freeQ') = Len(freeQ) + 1 /\ freeQ'[1] = cur
        /\ \A i \in 1 .. Len(freeQ) : freeQ'[i + 1] = freeQ[i]
    <3>1. /\ Len(Cons(cur, freeQ)) = Len(freeQ) + 1 /\ Cons(cur, freeQ)[1] = cur
          /\ \A i \in 1 .. Len(freeQ) : Cons(cur, freeQ)[i + 1] = freeQ[i]
      <4>1. freeQ \in Seq(Blocks)
        BY <1>0
      <4> QED
        <5> DEFINE S == Blocks
        <5> HIDE DEF S
        <5>1. freeQ \in Seq(S) /\ cur \in S
          BY <2>3, <4>1 DEF S
        <5> QED
          BY <5>1, ConsElements
    <3> QED
      BY <2>1, <3>1
  <2>5. /\ Len(eraseBlockId') = n + 1 /\ eraseBlockId'[n + 1] = cur
        /\ \A i \in 1 .. n : eraseBlockId'[i] = eraseBlockId[i]
    BY <1>0, <2>1, <2>3
  <2>6. n \in Nat
    BY <1>0
  <2> HIDE DEF n
  <2>7. ASSUME NEW j \in 1 .. n + 1 PROVE freeQ'[j] = eraseBlockId'[n + 1 + 1 - j]
    <3>1. CASE j = 1
      <4>1. n + 1 + 1 - j = n + 1
        BY <2>6, <3>1
      <4> QED
        BY <2>4, <2>5, <3>1, <4>1
    <3>2. CASE j # 1
      <4> DEFINE i == j - 1
      <4>1. i \in 1 .. n /\ i \in 1 .. Len(freeQ) /\ j = i + 1 /\ n + 1 + 1 - j = n + 1 - i
            /\ n + 1 - i \in 1 .. n
        BY <1>0, <2>2, <2>6, <3>2
      <4> HIDE DEF i
      <4>2. freeQ'[j] = freeQ[i]
        BY <2>4, <4>1
      <4>3. eraseBlockId'[n + 1 - i] = eraseBlockId[n + 1 - i]
        BY <2>5, <4>1
      <4> QED
        BY <2>2, <4>1, <4>2, <4>3
    <3> QED
      BY <3>1, <3>2
  <2>8. Len(eraseBlockId') + recyleCnt' = gcBlockCnt /\ Len(freeQ') >= Len(eraseBlockId')
    BY <1>0, <2>1, <2>2, <2>4, <2>5, <2>6
  <2>9. \A j \in 1 .. Len(eraseBlockId') : freeQ'[j] = eraseBlockId'[Len(eraseBlockId') + 1 - j]
    BY <2>5, <2>7
  <2> QED
    BY <2>1, <2>2, <2>8, <2>9 DEF EraseOK, Collecting
<1> QED
  BY <1>1, <1>2, <1>3, <1>4, <1>5, <1>6, <1>7 DEF Next, HostStep, GCStep

\* One GC recycles no block twice and reuses none that it has recycled, when there
\* is spare space and a writer stalls before fewer blocks are free than one GC
\* recycles: no copy is put where the same GC has just said that the pages are to be
\* read and the block erased (GarbageCollection and WriteGCBlock, gc_module.c).
THEOREM CopiesAvoidVictimsHolds ==
    ASSUME SpareSpace, gcBlockCnt <= gcStallWL
    PROVE  Spec => []CopiesAvoidVictims
<1>1. Init => IInv /\ SpaceInv /\ EraseOK
  BY InitInv, SpaceInvInit DEF Init, EraseOK, Collecting
<1>2. IInv /\ SpaceInv /\ EraseOK /\ [Next]_vars => IInv' /\ SpaceInv' /\ EraseOK'
  BY SpaceInvStep, EraseStep DEF SpaceInv
<1>3. ASSUME IInv, EraseOK PROVE CopiesAvoidVictims
  <2> DEFINE n == Len(eraseBlockId)
  <2>1. eraseBlockId \in Seq(Blocks) /\ freeQ \in Seq(Blocks) /\ n \in Nat /\ Len(freeQ) \in Nat
    BY <1>3 DEF IInv, TypeOK
  <2>2. CASE ~Collecting
    <3>1. eraseBlockId = <<>>
      BY <1>3, <2>2 DEF EraseOK
    <3> QED
      BY <3>1 DEF CopiesAvoidVictims, IsInjective, ToSet
  <2>3. CASE Collecting
    <3>1. Len(freeQ) >= n /\ \A j \in 1 .. n : freeQ[j] = eraseBlockId[n + 1 - j]
      BY <1>3, <2>3 DEF EraseOK
    <3>2. \A i, j \in 1 .. Len(freeQ) : freeQ[i] = freeQ[j] => i = j
      BY <1>3 DEF IInv, FreeOK, IsInjective
    <3>3. \A i \in 1 .. n : /\ n + 1 - i \in 1 .. n /\ n + 1 - i \in 1 .. Len(freeQ)
                            /\ eraseBlockId[i] = freeQ[n + 1 - i]
      <4> TAKE i \in 1 .. n
      <4> HIDE DEF n
      <4>1. n + 1 - i \in 1 .. n /\ n + 1 - i \in 1 .. Len(freeQ) /\ n + 1 - (n + 1 - i) = i
        BY <2>1, <3>1
      <4> QED
        BY <3>1, <4>1
    <3> HIDE DEF n
    <3>4. \A i, j \in 1 .. n : eraseBlockId[i] = eraseBlockId[j] => i = j
      <4> TAKE i, j \in 1 .. n
      <4> HAVE eraseBlockId[i] = eraseBlockId[j]
      <4>1. n + 1 - i = n + 1 - j
        BY <3>2, <3>3
      <4> QED
        BY <2>1, <4>1
    <3>5. IsInjective(eraseBlockId)
      BY <3>4 DEF IsInjective, n
    <3>6. ToSet(eraseBlockId) \subseteq ToSet(freeQ)
      <4> SUFFICES ASSUME NEW x \in ToSet(eraseBlockId) PROVE x \in ToSet(freeQ)
        OBVIOUS
      <4>1. PICK i \in 1 .. n : x = eraseBlockId[i]
        BY DEF ToSet, n
      <4>2. n + 1 - i \in 1 .. Len(freeQ) /\ x = freeQ[n + 1 - i]
        BY <3>3, <4>1
      <4> QED
        BY <4>2 DEF ToSet
    <3> QED
      BY <3>5, <3>6 DEF CopiesAvoidVictims
  <2> QED
    BY <2>2, <2>3
<1> QED
  BY <1>1, <1>2, <1>3, PTL DEF Spec
-----------------------------------------------------------------------------
(* The writes of a garbage collection.                                      *)

\* On a disk of that size the place of a page is what its block and page say.
LEMMA PlaceIs ==
    ASSUME totalBlockCnt * PAGE_NUM_PER_BLOCK <= diskPages, NEW loc \in Locs
    PROVE  /\ loc = <<loc[1], loc[2]>> /\ loc[1] \in Nat /\ loc[2] \in Nat
           /\ loc[1] * PAGE_NUM_PER_BLOCK \in Nat
           /\ loc[2] + 1 <= PAGE_NUM_PER_BLOCK
           /\ PlaceOnDisk(loc) = loc[1] * PAGE_NUM_PER_BLOCK + loc[2]
<1> USE GeometryAssumption, OffsetAssumption
<1> DEFINE place == loc[1] * PAGE_NUM_PER_BLOCK + loc[2]
<1>1. /\ loc[1] \in 0 .. totalBlockCnt - 1 /\ loc[2] \in 0 .. PAGE_NUM_PER_BLOCK - 1
      /\ loc = <<loc[1], loc[2]>>
  BY DEF Locs, Blocks, Pages
<1>2. (loc[1] + 1) * PAGE_NUM_PER_BLOCK <= totalBlockCnt * PAGE_NUM_PER_BLOCK
  BY <1>1
<1>3. (loc[1] + 1) * PAGE_NUM_PER_BLOCK = loc[1] * PAGE_NUM_PER_BLOCK + PAGE_NUM_PER_BLOCK
  BY <1>1
<1>4. loc[1] * PAGE_NUM_PER_BLOCK \in Nat
  BY <1>1
<1>5. place \in 0 .. diskPages - 1
  BY <1>1, <1>2, <1>3, <1>4
<1>6. \A n \in 0 .. diskPages - 1 : n % diskPages = n
  OBVIOUS
<1>7. PlaceOnDisk(loc) = place
  <2> HIDE DEF place
  <2>1. place % diskPages = place
    BY <1>5, <1>6
  <2> QED
    BY <2>1 DEF PlaceOnDisk, place
<1> QED
  BY <1>1, <1>4, <1>7

\* While the tier has no more pages than the offset tells apart, which is 1024
\* blocks or 4 GB, no two of its pages share a place on the disk.  The scripts
\* that run the experiments give the tiers more (src/run_x.sh:15).
THEOREM PlacesAreDistinct ==
    ASSUME totalBlockCnt * PAGE_NUM_PER_BLOCK <= diskPages,
           NEW loc1 \in Locs, NEW loc2 \in Locs, PlaceOnDisk(loc1) = PlaceOnDisk(loc2)
    PROVE  loc1 = loc2
<1> PICK P : P = PAGE_NUM_PER_BLOCK /\ P \in Nat \ {0}
  BY GeometryAssumption
<1>1. ASSUME NEW m \in Locs, NEW n \in Locs, m[1] < n[1]
      PROVE  PlaceOnDisk(m) # PlaceOnDisk(n)
  <2> PICK a, b, x, y : a = m[1] /\ b = n[1] /\ x = m[2] /\ y = n[2]
    OBVIOUS
  <2>1. /\ a \in Nat /\ x \in Nat /\ a * P \in Nat /\ x + 1 <= P /\ PlaceOnDisk(m) = a * P + x
        /\ b \in Nat /\ y \in Nat /\ b * P \in Nat /\ PlaceOnDisk(n) = b * P + y
    BY PlaceIs
  <2>2. (a + 1) * P <= b * P
    <3>1. P \in Nat /\ a + 1 \in Nat /\ b \in Nat /\ a + 1 <= b
      BY <1>1, <2>1
    <3>2. P * (a + 1) <= P * b
      BY ONLY <3>1, ProductsGrow
    <3> QED
      BY ONLY <3>1, <3>2
  <2>3. (a + 1) * P = a * P + P
    BY ONLY P \in Nat \ {0}, <2>1
  <2>4. a * P + x # b * P + y
    BY ONLY P \in Nat \ {0}, <2>1, <2>2, <2>3
  <2> QED
    BY <2>1, <2>4
<1>2. /\ loc1 = <<loc1[1], loc1[2]>> /\ loc1[1] \in Nat /\ loc1[2] \in Nat
      /\ loc2 = <<loc2[1], loc2[2]>> /\ loc2[1] \in Nat /\ loc2[2] \in Nat
      /\ loc1[1] * P \in Nat /\ loc1[1] * P + loc1[2] = loc2[1] * P + loc2[2]
  BY PlaceIs
<1>3. loc1[1] = loc2[1]
  <2>1. ~(loc1[1] < loc2[1]) /\ ~(loc2[1] < loc1[1])
    BY <1>1
  <2> QED
    BY <1>2, <2>1
<1>4. loc1[2] = loc2[2]
  <2> PICK q, x, y : q = loc1[1] * P /\ x = loc1[2] /\ y = loc2[2]
    OBVIOUS
  <2>1. q \in Nat /\ x \in Nat /\ y \in Nat /\ q + x = q + y
    BY <1>2, <1>3
  <2>2. x = y
    BY ONLY <2>1
  <2> QED
    BY <2>2
<1> QED
  BY <1>2, <1>3, <1>4

\* The writes that HandleGC makes of a list of copies.
Writes == Seq([loc : Locs, size : Nat \ {0}])

WritesFor(s) == FoldLeft(Join, <<>>, s)

\* A turn of the loop: a write more, or the last one a page longer.
LEMMA JoinFacts ==
    ASSUME NEW ws \in Writes, NEW loc \in Locs
    PROVE  /\ Join(ws, loc) \in Writes /\ Join(ws, loc) # <<>>
           /\ ws = <<>> \/ Last(ws).loc[1] # loc[1] =>
                 Join(ws, loc) = Append(ws, [loc |-> loc, size |-> 1])
           /\ ws # <<>> /\ Last(ws).loc[1] = loc[1] =>
                 \E w \in [loc : Locs, size : Nat \ {0}] :
                    /\ w.loc = Last(ws).loc /\ w.size = Last(ws).size + 1
                    /\ Join(ws, loc) = [ws EXCEPT ![Len(ws)] = w]
<1> DEFINE W == [loc : Locs, size : Nat \ {0}]
<1>1. ws \in Seq(W)
  BY DEF Writes
<1>2. CASE ws = <<>> \/ Last(ws).loc[1] # loc[1]
  <2>1. Join(ws, loc) = Append(ws, [loc |-> loc, size |-> 1]) /\ [loc |-> loc, size |-> 1] \in W
    BY <1>2 DEF Join
  <2>2. Append(ws, [loc |-> loc, size |-> 1]) \in Seq(W) /\ Append(ws, [loc |-> loc, size |-> 1]) # <<>>
    BY <1>1, <2>1
  <2> QED
    BY <1>2, <2>1, <2>2 DEF Writes
<1>3. CASE ws # <<>> /\ Last(ws).loc[1] = loc[1]
  <2> DEFINE n == Len(ws)
             w == [ws[n] EXCEPT !.size = @ + 1]
  <2>1. n \in 1 .. n /\ ws[n] \in W /\ Last(ws) = ws[n]
    <3>1. n \in Nat \ {0} /\ ws \in [1 .. n -> W]
      <4> HIDE DEF W
      <4>1. Len(ws) \in Nat /\ ws \in [1 .. Len(ws) -> W]
        BY <1>1
      <4>2. Len(ws) # 0
        BY <1>1, <1>3
      <4> QED
        BY <4>1, <4>2
    <3> QED
      BY <3>1 DEF Last
  <2>2. w \in W /\ w.loc = Last(ws).loc /\ w.size = Last(ws).size + 1
    <3> PICK v \in W : v = ws[n]
      BY <2>1
    <3>1. w = [v EXCEPT !.size = @ + 1]
      OBVIOUS
    <3> HIDE DEF w
    <3>2. w.loc = v.loc /\ w.size = v.size + 1
      BY <3>1
    <3>3. w \in W
      BY <3>1
    <3> QED
      BY <2>1, <3>2, <3>3
  <2>3. Join(ws, loc) = [ws EXCEPT ![n] = w]
    BY <1>3 DEF Join
  <2>4. [ws EXCEPT ![n] = w] \in Seq(W) /\ [ws EXCEPT ![n] = w] # <<>>
    <3> HIDE DEF w, n, W
    <3>1. Len([ws EXCEPT ![n] = w]) = Len(ws)
      BY <1>1
    <3> QED
      BY <1>1, <1>3, <2>1, <2>2, <3>1 DEF n
  <2> QED
    BY <1>3, <2>2, <2>3, <2>4 DEF Writes
<1> QED
  BY <1>2, <1>3

\* The pages that are left are of a finite range, and the last one is the greatest.
LEMMA LastIsGreatest ==
    ASSUME NEW n \in Nat
    PROVE  /\ \A T \in SUBSET (1 .. n) : T # {} => Max(T) \in T
           /\ IsFiniteSet(1 .. n)
           /\ n # 0 => Max(1 .. n) = n /\ (1 .. n) \ {n} = 1 .. n - 1
<1>1. IsFiniteSet(1 .. n) /\ 1 .. n \in SUBSET Nat
  BY FS_Interval
<1>2. ASSUME NEW T \in SUBSET (1 .. n), T # {}
      PROVE  Max(T) \in T
  <2>1. IsFiniteSet(T) /\ T \in SUBSET Nat
    BY <1>1, FS_Subset
  <2> QED
    BY <1>2, <2>1, GreatestOf
<1>3. n # 0 => Max(1 .. n) = n
  <2>1. n # 0 => n \in 1 .. n /\ \A x \in 1 .. n : x <= n
    OBVIOUS
  <2> QED
    BY <1>1, <2>1, GreatestIs
<1> QED
  BY <1>1, <1>2, <1>3

\* How FoldLeft makes the writes.
LEMMA WritesAreFold ==
    ASSUME NEW s \in Seq(Locs), NEW S, S = 1 .. Len(s)
    PROVE  \E c, F, it :
              /\ c = [T \in SUBSET S |-> Max(T)]
              /\ \A T \in SUBSET S : T # {} => c[T] \in T
              /\ \A i \in S, ws \in Writes : F[<<i, ws>>] = Join(ws, s[i])
              /\ it \in [SUBSET S -> Writes] /\ IsFold(it, S, <<>>, c, F)
              /\ WritesFor(s) = it[S]
<1> DEFINE c == [T \in SUBSET S |-> Max(T)]
           F == [p \in S \X Writes |-> Join(p[2], s[p[1]])]
           Joins(g) == g = [T \in SUBSET S |-> IF T = {} THEN <<>>
                              ELSE LET x == Max(T) IN Join(g[T \ {x}], s[x])]
           it == CHOOSE g : Joins(g)
<1>0. Len(s) \in Nat /\ IsFiniteSet(S) /\ \A i \in S : s[i] \in Locs
  <2>1. Len(s) \in Nat /\ \A i \in S : s[i] \in Locs
    OBVIOUS
  <2> QED
    BY <2>1, LastIsGreatest
<1>1. \A T \in SUBSET S : T # {} => c[T] \in T
  BY <1>0, LastIsGreatest
<1>2. \A i \in S, ws \in Writes : F[<<i, ws>>] = Join(ws, s[i]) /\ F[<<i, ws>>] \in Writes
  BY <1>0, JoinFacts
<1>3. PICK g \in [SUBSET S -> Writes] : IsFold(g, S, <<>>, c, F)
  <2>1. <<>> \in Writes
    BY DEF Writes
  <2> HIDE DEF c, F
  <2> QED
    BY <1>0, <1>1, <1>2, <2>1, FoldExists
<1>4. ASSUME NEW T \in SUBSET S, T # {}, NEW h, h[T \ {c[T]}] \in Writes
      PROVE  F[<<c[T], h[T \ {c[T]}]>>] = (LET x == Max(T) IN Join(h[T \ {x}], s[x]))
  <2>1. c[T] \in S /\ c[T] = Max(T)
    BY <1>1, <1>4
  <2> HIDE DEF c, F
  <2> QED
    BY <1>2, <1>4, <2>1
<1>5. Joins(g)
  <2>1. \A T \in SUBSET S : T # {} => g[T \ {c[T]}] \in Writes
    BY <1>1
  <2> HIDE DEF c, F
  <2> QED
    BY <1>3, <1>4, <2>1 DEF IsFold
<1>6. Joins(it)
  <2> HIDE DEF Joins
  <2> QED
    BY <1>5
<1>7. it = g
  <2> HIDE DEF it
  <2> DEFINE B == {T \in SUBSET S : it[T] # g[T]}
  <2>1. ASSUME B # {}
        PROVE  FALSE
    <3>1. PICK T \in B : \A U \in B : U \subseteq T => U = T
      <4>1. B \in SUBSET SUBSET S
        OBVIOUS
      <4>2. IsFiniteSet(S)
        BY <1>0
      <4> HIDE DEF B
      <4> QED
        BY ONLY <2>1, <4>1, <4>2, OneIsInnermost
    <3>2. T \in SUBSET S /\ it[T] # g[T]
      OBVIOUS
    <3>3. /\ it[T] = IF T = {} THEN <<>> ELSE LET x == Max(T) IN Join(it[T \ {x}], s[x])
          /\ g[T] = IF T = {} THEN <<>> ELSE LET x == Max(T) IN Join(g[T \ {x}], s[x])
      BY <1>5, <1>6, <3>2
    <3> DEFINE x == Max(T)
    <3>4. T # {} /\ x \in T
      <4>1. T # {}
        BY <3>2, <3>3
      <4> QED
        BY <1>1, <3>2, <4>1
    <3>5. T \ {x} \in SUBSET S /\ T \ {x} # T
      BY <3>2, <3>4
    <3>6. it[T \ {x}] = g[T \ {x}]
      BY <3>1, <3>5
    <3> QED
      BY <3>2, <3>3, <3>4, <3>6
  <2> QED
    BY <1>5, <1>6, <2>1
<1>8. WritesFor(s) = it[S]
  <2>1. DOMAIN s = S
    OBVIOUS
  <2> QED
    BY <2>1 DEF WritesFor, FoldLeft, MapThenFoldSet
<1> HIDE DEF c, F, it
<1> QED
  <2>1. c = [T \in SUBSET S |-> Max(T)]
    BY DEF c
  <2>2. it \in [SUBSET S -> Writes] /\ IsFold(it, S, <<>>, c, F)
    BY <1>3, <1>7
  <2>3. \A i \in S, ws \in Writes : F[<<i, ws>>] = Join(ws, s[i])
    BY ONLY <1>2
  <2> WITNESS c, F, it
  <2> QED
    BY ONLY <1>1, <1>8, <2>1, <2>2, <2>3

\* No copy makes no write, and a copy more is a turn of the loop more.
LEMMA WritesGrow ==
    /\ WritesFor(<<>>) = <<>>
    /\ \A s \in Seq(Locs) : WritesFor(s) \in Writes
    /\ \A s \in Seq(Locs), x \in Locs : WritesFor(Append(s, x)) = Join(WritesFor(s), x)
<1>1. ASSUME NEW s, s \in Seq(Locs), Len(s) = 0
      PROVE  WritesFor(s) = <<>>
  <2>1. PICK S : S = 1 .. Len(s)
    OBVIOUS
  <2>2. S = {} /\ s \in Seq(Locs)
    BY <1>1, <2>1
  <2>3. PICK c, F, it :
           /\ c = [T \in SUBSET S |-> Max(T)]
           /\ \A T \in SUBSET S : T # {} => c[T] \in T
           /\ \A i \in S, ws \in Writes : F[<<i, ws>>] = Join(ws, s[i])
           /\ it \in [SUBSET S -> Writes] /\ IsFold(it, S, <<>>, c, F)
           /\ WritesFor(s) = it[S]
    BY ONLY <2>1, <2>2, WritesAreFold
  <2>4. it[S] = <<>>
    BY <2>2, <2>3 DEF IsFold
  <2> QED
    BY <2>3, <2>4
<1>2. ASSUME NEW s \in Seq(Locs)
      PROVE  WritesFor(s) \in Writes
  <2>1. PICK S : S = 1 .. Len(s)
    OBVIOUS
  <2>2. PICK it : it \in [SUBSET S -> Writes] /\ WritesFor(s) = it[S]
    BY <2>1, WritesAreFold
  <2> QED
    BY <2>2
<1>3. ASSUME NEW s, s \in Seq(Locs), NEW x \in Locs
      PROVE  WritesFor(Append(s, x)) = Join(WritesFor(s), x)
  <2>1. PICK t, n :
           /\ t \in Seq(Locs) /\ n \in Nat
           /\ t = Append(s, x) /\ n = Len(s) /\ Len(t) = n + 1 /\ t[n + 1] = x
           /\ \A i \in 1 .. n : t[i] = s[i]
    <3>1. /\ Append(s, x) \in Seq(Locs) /\ Len(s) \in Nat /\ Len(Append(s, x)) = Len(s) + 1
          /\ Append(s, x)[Len(s) + 1] = x
          /\ \A i \in 1 .. Len(s) : Append(s, x)[i] = s[i]
      BY <1>3
    <3> QED
      BY <3>1
  <2>2. PICK S, R : S = 1 .. Len(t) /\ S = 1 .. n + 1 /\ R = 1 .. Len(s) /\ R = 1 .. n
    BY <2>1
  <2>3. PICK c, F, it :
           /\ c = [T \in SUBSET S |-> Max(T)]
           /\ \A T \in SUBSET S : T # {} => c[T] \in T
           /\ \A i \in S, ws \in Writes : F[<<i, ws>>] = Join(ws, t[i])
           /\ it \in [SUBSET S -> Writes] /\ IsFold(it, S, <<>>, c, F)
           /\ WritesFor(t) = it[S]
    BY <1>3, <2>1, <2>2, WritesAreFold
  <2>4. PICK d, H, jt :
           /\ d = [T \in SUBSET R |-> Max(T)]
           /\ \A T \in SUBSET R : T # {} => d[T] \in T
           /\ \A i \in R, ws \in Writes : H[<<i, ws>>] = Join(ws, s[i])
           /\ jt \in [SUBSET R -> Writes] /\ IsFold(jt, R, <<>>, d, H)
           /\ WritesFor(s) = jt[R]
    BY <1>3, <2>1, <2>2, WritesAreFold
  <2>5. IsFiniteSet(S) /\ Max(S) = n + 1 /\ S \ {n + 1} = R /\ R \in SUBSET S /\ n + 1 \in S /\ S # {}
    <3>1. PICK m \in Nat : m = n + 1
      BY <2>1
    <3>2. m # 0 /\ S = 1 .. m
      BY <2>1, <2>2, <3>1
    <3>3. IsFiniteSet(S) /\ Max(S) = m /\ S \ {m} = 1 .. m - 1
      BY <3>2, LastIsGreatest
    <3>4. m - 1 = n /\ m \in S
      BY <2>1, <3>1, <3>2
    <3> QED
      BY <2>2, <3>1, <3>3, <3>4
  <2>6. IsFold(jt, R, <<>>, d, F)
    <3>1. ASSUME NEW T \in SUBSET R, T # {}
          PROVE  H[<<d[T], jt[T \ {d[T]}]>>] = F[<<d[T], jt[T \ {d[T]}]>>]
      <4>1. d[T] \in R /\ d[T] \in S /\ T \ {d[T]} \in SUBSET R
        BY <2>4, <2>5, <3>1
      <4>2. jt[T \ {d[T]}] \in Writes
        BY <2>4, <4>1
      <4>3. t[d[T]] = s[d[T]]
        BY <2>1, <2>2, <4>1
      <4> QED
        BY <2>3, <2>4, <4>1, <4>2, <4>3
    <3> QED
      BY <2>4, <3>1 DEF IsFold
  <2>7. jt[R] = it[R]
    <3>1. \A T \in SUBSET R : d[T] = c[T]
      BY <2>3, <2>4, <2>5
    <3>2. \A T \in SUBSET S : T # {} => c[T] \in T
      BY <2>3
    <3>3. IsFiniteSet(S) /\ R \in SUBSET S
      BY <2>5
    <3>4. PICK base : base = <<>>
      OBVIOUS
    <3>5. IsFold(it, S, base, c, F) /\ IsFold(jt, R, base, d, F)
      BY <2>3, <2>6, <3>4
    <3>6. \A T \in SUBSET R : jt[T] = it[T]
      BY ONLY <3>1, <3>2, <3>3, <3>5, FoldsAgree
    <3> QED
      BY <3>6
  <2>8. it[S] = F[<<n + 1, it[R]>>]
    <3>1. c[S] = n + 1
      BY <2>3, <2>5
    <3>2. it[S] = F[<<c[S], it[S \ {c[S]}]>>]
      BY <2>3, <2>5 DEF IsFold
    <3> QED
      BY <2>5, <3>1, <3>2
  <2>9. F[<<n + 1, it[R]>>] = Join(it[R], x)
    <3>1. it[R] \in Writes
      BY <2>3, <2>5
    <3> QED
      BY <2>1, <2>3, <2>5, <3>1
  <2> QED
    BY <2>1, <2>3, <2>4, <2>7, <2>8, <2>9
<1>4. <<>> \in Seq(Locs) /\ Len(<<>>) = 0
  OBVIOUS
<1> QED
  BY <1>1, <1>2, <1>3, <1>4

\* The writes cover the copies, and the last write ends where the last copy is.
Covers(ws, s) ==
    /\ ws = <<>> <=> s = <<>>
    /\ s # <<>> => /\ Last(ws).loc[1] = Last(s)[1]
                   /\ Last(ws).loc[2] + Last(ws).size = Last(s)[2] + 1
    /\ UNION {PlacesOf(w) : w \in ToSet(ws)} = {PlaceOnDisk(loc) : loc \in ToSet(s)}

\* What the writes cover, write by write.
LEMMA CoveredPlaces ==
    ASSUME NEW ws \in Writes
    PROVE  \A p : p \in UNION {PlacesOf(w) : w \in ToSet(ws)}
                    <=> \E i \in 1 .. Len(ws) : p \in PlacesOf(ws[i])
  BY DEF ToSet

\* The last element of a list and what a list with one more has.
LEMMA OneMore ==
    ASSUME NEW S, NEW s \in Seq(S), NEW x \in S
    PROVE  /\ Append(s, x) \in Seq(S) /\ Append(s, x) # <<>> /\ Len(Append(s, x)) = Len(s) + 1
           /\ Last(Append(s, x)) = x /\ ToSet(Append(s, x)) = ToSet(s) \cup {x}
           /\ Append(s, x)[Len(s) + 1] = x
           /\ \A i \in 1 .. Len(s) : Append(s, x)[i] = s[i]
<1>1. /\ Append(s, x) \in Seq(S) /\ Append(s, x) # <<>> /\ Len(Append(s, x)) = Len(s) + 1
      /\ Len(s) \in Nat /\ Append(s, x)[Len(s) + 1] = x
      /\ \A i \in 1 .. Len(s) : Append(s, x)[i] = s[i]
  OBVIOUS
<1>2. Last(Append(s, x)) = x
  BY <1>1 DEF Last
<1>3. ToSet(Append(s, x)) = ToSet(s) \cup {x}
  <2> PICK t : t = Append(s, x)
    OBVIOUS
  <2> DEFINE n == Len(s)
  <2>1. n \in Nat /\ Len(t) = n + 1 /\ t[n + 1] = x /\ \A i \in 1 .. n : t[i] = s[i]
    BY <1>1
  <2>2. ToSet(t) = {t[i] : i \in 1 .. n + 1} /\ ToSet(s) = {s[i] : i \in 1 .. n}
    BY <1>1, <2>1 DEF ToSet
  <2> HIDE DEF n
  <2>3. ToSet(t) = ToSet(s) \cup {x}
    BY <2>1, <2>2
  <2> QED
    BY <2>3
<1> QED
  BY <1>1, <1>2, <1>3

\* A write of one page covers that page's place.
LEMMA OnePage ==
    ASSUME totalBlockCnt * PAGE_NUM_PER_BLOCK <= diskPages,
           NEW loc \in Locs, NEW w, w = [loc |-> loc, size |-> 1]
    PROVE  PlacesOf(w) = {PlaceOnDisk(loc)}
<1>1. PlaceOnDisk(loc) \in Nat
  BY PlaceIs
<1> PICK p \in Nat : p = PlaceOnDisk(loc)
  BY <1>1
<1>2. w.loc = loc /\ w.size = 1 /\ 0 .. w.size - 1 = {0}
  OBVIOUS
<1>3. PlacesOf(w) = {PlaceOnDisk(loc) + n : n \in {0}}
  BY <1>2 DEF PlacesOf
<1> QED
  BY <1>3

\* A write a page longer covers the place of the page after it as well.
LEMMA PageMore ==
    ASSUME totalBlockCnt * PAGE_NUM_PER_BLOCK <= diskPages,
           NEW v \in [loc : Locs, size : Nat \ {0}], NEW w \in [loc : Locs, size : Nat \ {0}],
           w.loc = v.loc, w.size = v.size + 1,
           NEW loc \in Locs, v.loc[1] = loc[1], v.loc[2] + v.size = loc[2]
    PROVE  PlacesOf(w) = PlacesOf(v) \cup {PlaceOnDisk(loc)}
<1> DEFINE P == PAGE_NUM_PER_BLOCK
<1>1. v.loc \in Locs /\ v.size \in Nat \ {0}
  OBVIOUS
<1> PICK b, p, i, k : b = loc[1] * P /\ p = PlaceOnDisk(v.loc) /\ i = v.loc[2] /\ k = v.size
  OBVIOUS
<1>2. b \in Nat /\ i \in Nat /\ k \in Nat \ {0} /\ PlaceOnDisk(loc) = b + loc[2] /\ p = b + i
  BY <1>1, PlaceIs
<1>3. p \in Nat /\ PlaceOnDisk(loc) = p + k
  BY <1>2
<1>4. 0 .. w.size - 1 = (0 .. v.size - 1) \cup {v.size}
  <2>1. w.size = k + 1
    OBVIOUS
  <2>2. 0 .. (k + 1) - 1 = (0 .. k - 1) \cup {k}
    BY <1>2
  <2> QED
    BY <2>1, <2>2
<1>5. PlacesOf(v) = {p + n : n \in 0 .. v.size - 1} /\ PlacesOf(w) = {p + n : n \in 0 .. w.size - 1}
  BY DEF PlacesOf
<1>6. {p + n : n \in (0 .. v.size - 1) \cup {v.size}} = {p + n : n \in 0 .. v.size - 1} \cup {p + v.size}
  OBVIOUS
<1> QED
  BY <1>3, <1>4, <1>5, <1>6

\* A copy more, which is not put away from the one before it in the same block.
LEMMA CoversStep ==
    ASSUME totalBlockCnt * PAGE_NUM_PER_BLOCK <= diskPages,
           NEW ws \in Writes, NEW s \in Seq(Locs), NEW loc \in Locs, Covers(ws, s),
           s # <<>> /\ Last(s)[1] = loc[1] => Last(s)[2] + 1 = loc[2]
    PROVE  Covers(Join(ws, loc), Append(s, loc))
<1> DEFINE W == [loc : Locs, size : Nat \ {0}]
<1> PICK t, vs : t = Append(s, loc) /\ vs = Join(ws, loc)
  OBVIOUS
<1>1. t # <<>> /\ Last(t) = loc /\ ToSet(t) = ToSet(s) \cup {loc}
  BY OneMore
<1>2. loc[1] \in Nat /\ loc[2] \in Nat
  BY PlaceIs
<1>3. /\ ws = <<>> <=> s = <<>>
      /\ s # <<>> => Last(ws).loc[1] = Last(s)[1] /\ Last(ws).loc[2] + Last(ws).size = Last(s)[2] + 1
      /\ UNION {PlacesOf(w) : w \in ToSet(ws)} = {PlaceOnDisk(l) : l \in ToSet(s)}
  BY DEF Covers
<1>4. vs \in Writes /\ vs # <<>>
  BY JoinFacts
<1>5. {PlaceOnDisk(l) : l \in ToSet(t)} = {PlaceOnDisk(l) : l \in ToSet(s)} \cup {PlaceOnDisk(loc)}
  BY <1>1
<1> DEFINE Grown == /\ Last(vs).loc[1] = loc[1] /\ Last(vs).loc[2] + Last(vs).size = loc[2] + 1
                    /\ \A p : p \in UNION {PlacesOf(w) : w \in ToSet(vs)}
                          <=> p \in UNION {PlacesOf(w) : w \in ToSet(ws)} \/ p = PlaceOnDisk(loc)
<1>6. ASSUME ws = <<>> \/ Last(ws).loc[1] # loc[1]
      PROVE  Grown
  <2> PICK w : w = [loc |-> loc, size |-> 1]
    OBVIOUS
  <2>1. w \in W /\ w.loc = loc /\ w.size = 1
    OBVIOUS
  <2>2. vs = Append(ws, w)
    BY <1>6, JoinFacts
  <2>3. Last(vs) = w /\ ToSet(vs) = ToSet(ws) \cup {w}
    <3>1. ws \in Seq(W)
      BY DEF Writes
    <3> HIDE DEF W
    <3> QED
      BY <2>1, <2>2, <3>1, OneMore
  <2>4. PlacesOf(w) = {PlaceOnDisk(loc)}
    BY OnePage
  <2>5. Grown
    BY <1>2, <2>1, <2>3, <2>4
  <2> QED
    BY <2>5
<1>7. ASSUME ws # <<>> /\ Last(ws).loc[1] = loc[1]
      PROVE  Grown
  <2>1. PICK w \in W : /\ w.loc = Last(ws).loc /\ w.size = Last(ws).size + 1
                       /\ vs = [ws EXCEPT ![Len(ws)] = w]
    BY <1>7, JoinFacts
  <2>2. PICK n : /\ n = Len(ws) /\ n \in Nat \ {0} /\ Len(vs) = n
                 /\ ws[n] \in W /\ Last(ws) = ws[n] /\ vs[n] = w /\ Last(vs) = w
                 /\ \A i \in 1 .. n : i # n => vs[i] = ws[i]
    <3>1. Len(ws) \in Nat /\ ws \in [1 .. Len(ws) -> W]
      <4>1. ws \in Seq(W)
        BY DEF Writes
      <4> HIDE DEF W
      <4> QED
        BY <4>1
    <3>2. Len(ws) # 0
      <4> HIDE DEF W
      <4>1. ws \in Seq(W)
        BY DEF Writes, W
      <4> QED
        BY <1>7, <4>1
    <3>3. Len(vs) = Len(ws)
      BY <2>1, <3>1
    <3>4. \A i \in 1 .. Len(ws) : vs[i] = IF i = Len(ws) THEN w ELSE ws[i]
      BY <2>1, <3>1
    <3>5. Len(ws) \in 1 .. Len(ws)
      BY <3>1, <3>2
    <3> HIDE DEF W
    <3> QED
      BY <3>1, <3>2, <3>3, <3>4, <3>5 DEF Last
  <2>3. Last(s)[2] + 1 = loc[2]
    BY <1>3, <1>7
  <2>4. ws[n].loc[1] = loc[1] /\ ws[n].loc[2] + ws[n].size = loc[2]
    BY <1>3, <1>7, <2>2, <2>3
  <2>5. PlacesOf(w) = PlacesOf(ws[n]) \cup {PlaceOnDisk(loc)}
    <3> PICK v \in W : v = ws[n]
      BY <2>2
    <3>1. w.loc = v.loc /\ w.size = v.size + 1 /\ v.loc[1] = loc[1] /\ v.loc[2] + v.size = loc[2]
      BY <2>1, <2>2, <2>4
    <3> QED
      BY <3>1, PageMore
  <2>6. Last(vs).loc[1] = loc[1] /\ Last(vs).loc[2] + Last(vs).size = loc[2] + 1
    <3>1. w.loc = ws[n].loc /\ w.size = ws[n].size + 1 /\ Last(vs) = w
      BY <2>1, <2>2
    <3>2. ws[n].loc[2] \in Nat /\ ws[n].size \in Nat
      <4>1. ws[n].loc \in Locs /\ ws[n].size \in Nat
        BY <2>2
      <4> QED
        BY <4>1, PlaceIs
    <3>3. PICK i, k, m : i = ws[n].loc[2] /\ k = ws[n].size /\ m = loc[2]
      OBVIOUS
    <3>4. i \in Nat /\ k \in Nat /\ m \in Nat /\ i + k = m
      BY ONLY <1>2, <2>4, <3>2, <3>3
    <3>5. i + (k + 1) = m + 1
      BY ONLY <3>4
    <3>6. Last(vs).loc[2] = i /\ Last(vs).size = k + 1 /\ Last(vs).loc[1] = loc[1]
      BY <2>4, <3>1, <3>3
    <3> QED
      BY <3>3, <3>5, <3>6
  <2>7. \A p : (\E i \in 1 .. n : p \in PlacesOf(vs[i]))
                  <=> (\E i \in 1 .. n : p \in PlacesOf(ws[i])) \/ p = PlaceOnDisk(loc)
    <3>1. n \in 1 .. n
      BY <2>2
    <3>2. \A i \in 1 .. n : PlacesOf(vs[i]) = IF i = n THEN PlacesOf(ws[i]) \cup {PlaceOnDisk(loc)}
                                                       ELSE PlacesOf(ws[i])
      BY <2>2, <2>5
    <3> QED
      BY <3>1, <3>2
  <2>8. /\ \A p : p \in UNION {PlacesOf(u) : u \in ToSet(vs)} <=> \E i \in 1 .. n : p \in PlacesOf(vs[i])
        /\ \A p : p \in UNION {PlacesOf(u) : u \in ToSet(ws)} <=> \E i \in 1 .. n : p \in PlacesOf(ws[i])
    BY <1>4, <2>2, CoveredPlaces
  <2>9. Grown
    BY <2>6, <2>7, <2>8
  <2> QED
    BY <2>9
<1>8. Grown
  BY <1>6, <1>7
<1>9. UNION {PlacesOf(w) : w \in ToSet(vs)} = {PlaceOnDisk(l) : l \in ToSet(t)}
  BY <1>3, <1>5, <1>8
<1>10. Covers(vs, t)
  BY <1>1, <1>4, <1>8, <1>9 DEF Covers
<1> QED
  BY <1>10

\* The blocks that the garbage collection under way has recycled.
Erased == ToSet(eraseBlockId)

\* The copies of a garbage collection lie in different places, each in a block that is
\* erased since or not to be written there again, and a block is written page by page.
CopiesOK ==
    /\ ~Collecting => writePageLoc = <<>>
    /\ IsInjective(writePageLoc)
    /\ \A j \in 1 .. Len(writePageLoc) :
          LET loc == writePageLoc[j] IN
          loc[1] \in Erased \/ (blockStatus[loc[1]] # "FREE" /\ loc[2] < pageCursor[loc[1]])
    /\ writePageLoc # <<>> =>
          LET last == Last(writePageLoc) IN
          last[1] \in Erased \/ pageCursor[last[1]] = last[2] + 1

JoinedOK == Covers(GCWrites, writePageLoc)

\* The writes are those of the copies.
LEMMA TheWrites ==
    ASSUME IInv
    PROVE  GCWrites = WritesFor(writePageLoc) /\ GCWrites \in Writes
<1>1. writePageLoc \in Seq(Locs)
  BY DEF IInv, TypeOK
<1>2. GCWrites = WritesFor(writePageLoc)
  BY DEF GCWrites, WritesFor
<1> QED
  BY <1>1, <1>2, WritesGrow

\* Without copies there are no writes.
LEMMA NoCopies ==
    ASSUME writePageLoc' = <<>>
    PROVE  CopiesOK' /\ JoinedOK'
<1>1. CopiesOK'
  BY DEF CopiesOK, IsInjective
<1>2. GCWrites' = <<>>
  <2>1. GCWrites' = WritesFor(<<>>)
    BY DEF GCWrites, WritesFor
  <2> QED
    BY <2>1, WritesGrow
<1>3. \A x : x \notin ToSet(<<>>)
  BY DEF ToSet
<1>4. Covers(<<>>, <<>>)
  BY <1>3 DEF Covers
<1> QED
  BY <1>1, <1>2, <1>4 DEF JoinedOK

\* What a copy does to the blocks: the one that it is put in is not FREE, and was not
\* recycled by this garbage collection.
LEMMA CopyPageBlock ==
    ASSUME IInv, CopyPage, EraseOK', NEW b, b = Target(gcBlock)
    PROVE  /\ b \in Blocks /\ b \notin Erased /\ pageCursor[b] \in Pages
           /\ blockStatus'[b] # "FREE"
           /\ \A c \in Blocks : c # b => blockStatus'[c] = blockStatus[c]
           /\ pageCursor' = [pageCursor EXCEPT ![b] = pageCursor[b] + 1]
           /\ writePageLoc' = Append(writePageLoc, <<b, pageCursor[b]>>)
           /\ eraseBlockId' = eraseBlockId /\ pc = "copy" /\ pc' = "copy"
<1> DEFINE i == pageCursor[b]
           full == i + 1 = PAGE_NUM_PER_BLOCK
           g == Opened(b)
           h == IF full THEN Insert2GarbageBuckets(g, b, garbageCnt[b]) ELSE g
<1>1. /\ blockStatus' = h.status
      /\ pageCursor' = [pageCursor EXCEPT ![b] = i + 1]
      /\ writePageLoc' = Append(writePageLoc, <<b, i>>)
      /\ TakeTarget(gcBlock)
  BY DEF CopyPage, WriteGCBlock, SetGarbage
<1>2. pc = "copy" /\ pc' = "copy" /\ eraseBlockId' = eraseBlockId
  BY DEF CopyPage, MayCopy
<1>3. /\ b \in Blocks /\ blockStatus[b] # "FULL" /\ i \in Pages /\ GarbageOK(g)
      /\ g.status = [blockStatus EXCEPT ![b] = "WRITING"]
      /\ ToSet(freeQ') = {c \in Blocks : g.status[c] = "FREE"}
  BY <1>1, OpenFacts
<1>4. /\ blockStatus \in [Blocks -> {"FREE", "WRITING", "FULL"}]
      /\ garbageCnt \in [Blocks -> Nat] /\ eraseBlockId \in Seq(Blocks)
  BY DEF IInv, TypeOK
<1> HIDE DEF i, g
<1>5. g.status[b] = "WRITING" /\ \A c \in Blocks : c # b => g.status[c] = blockStatus[c]
  BY <1>3, <1>4
<1>6. h.status[b] # "FREE" /\ \A c \in Blocks : c # b => h.status[c] = blockStatus[c]
  <2>1. CASE full
    <3>1. h = Insert2GarbageBuckets(g, b, garbageCnt[b])
      BY <2>1
    <3>2. GarbageOK(g) /\ b \in Blocks /\ g.status[b] # "FULL" /\ garbageCnt[b] \in Nat
      BY <1>3, <1>4, <1>5
    <3> HIDE DEF h, full
    <3>3. h.status = [g.status EXCEPT ![b] = "FULL"]
      BY <3>1, <3>2, InsertFacts
    <3> QED
      BY <3>3, <1>3, <1>4, <1>5
  <2>2. CASE ~full
    BY <2>2, <1>5
  <2> QED
    BY <2>1, <2>2
<1> HIDE DEF h
<1>7. b \notin Erased
  <2>1. b \notin ToSet(freeQ')
    BY <1>3, <1>5
  <2>2. /\ Len(freeQ') >= Len(eraseBlockId)
        /\ \A j \in 1 .. Len(eraseBlockId) : freeQ'[j] = eraseBlockId[Len(eraseBlockId) + 1 - j]
    BY <1>2 DEF EraseOK, Collecting
  <2>3. Len(eraseBlockId) \in Nat /\ Len(freeQ') \in Nat
    <3>1. freeQ' \in Seq(Blocks)
      BY <1>1, OpenFacts
    <3> QED
      BY <1>4, <3>1
  <2>4. ASSUME NEW k \in 1 .. Len(eraseBlockId)
        PROVE  eraseBlockId[k] # b
    <3> PICK n \in Nat : n = Len(eraseBlockId)
      BY <2>3
    <3>1. PICK j : j = n + 1 - k
      OBVIOUS
    <3>2. j \in 1 .. n /\ j \in 1 .. Len(freeQ') /\ n + 1 - j = k
      BY <2>2, <2>3, <3>1
    <3>3. freeQ'[j] = eraseBlockId[k]
      BY <2>2, <3>2
    <3>4. freeQ'[j] \in ToSet(freeQ')
      BY <3>2 DEF ToSet
    <3> QED
      BY <2>1, <3>3, <3>4
  <2> QED
    BY <2>4 DEF Erased, ToSet
<1> QED
  BY <1>1, <1>2, <1>3, <1>6, <1>7 DEF i

\* A copy more is put behind the last one in its block, or in another block.
LEMMA CopyPageCopies ==
    ASSUME totalBlockCnt * PAGE_NUM_PER_BLOCK <= diskPages,
           IInv, IInv', CopyPage, EraseOK', CopiesOK, JoinedOK
    PROVE  CopiesOK' /\ JoinedOK'
<1> PICK b, i, loc, w, t :
       b = Target(gcBlock) /\ i = pageCursor[b] /\ loc = <<b, i>> /\ w = writePageLoc /\ t = Append(w, loc)
  OBVIOUS
<1>1. /\ b \in Blocks /\ b \notin Erased /\ i \in Pages
      /\ blockStatus'[b] # "FREE"
      /\ \A c \in Blocks : c # b => blockStatus'[c] = blockStatus[c]
      /\ pageCursor' = [pageCursor EXCEPT ![b] = i + 1]
      /\ writePageLoc' = t /\ Erased' = Erased /\ Collecting'
  BY CopyPageBlock DEF Collecting, Erased
<1>2. /\ w \in Seq(Locs) /\ loc \in Locs /\ loc[1] = b /\ loc[2] = i
      /\ pageCursor \in [Blocks -> 0 .. PAGE_NUM_PER_BLOCK]
  BY <1>1 DEF IInv, TypeOK, Locs
<1>3. \A c \in Blocks : pageCursor'[c] = IF c = b THEN i + 1 ELSE pageCursor[c]
  BY <1>1, <1>2
<1>4. PICK n \in Nat : n = Len(w)
  BY <1>2
<1>5. /\ IsInjective(w)
      /\ \A j \in 1 .. n : w[j][1] \in Erased \/
            (blockStatus[w[j][1]] # "FREE" /\ w[j][2] < pageCursor[w[j][1]])
      /\ w # <<>> => Last(w)[1] \in Erased \/ pageCursor[Last(w)[1]] = Last(w)[2] + 1
  BY <1>4 DEF CopiesOK
<1>6. \A j \in 1 .. n : w[j] \in Locs /\ w[j][1] \in Blocks /\ w[j][2] \in Pages
  BY <1>2, <1>4 DEF Locs
<1>7. i \in Nat /\ Pages \subseteq Nat
  BY <1>1, GeometryAssumption DEF Pages
<1>8. loc \notin ToSet(w)
  <2>1. ASSUME NEW j \in 1 .. n, w[j] = loc
        PROVE  FALSE
    <3>1. i < pageCursor[b]
      BY <1>1, <1>2, <1>5, <2>1
    <3> QED
      BY <1>2, <1>7, <3>1
  <2> QED
    BY <1>4, <2>1 DEF ToSet
<1>9. /\ t \in Seq(Locs) /\ t # <<>> /\ Len(t) = n + 1 /\ t[n + 1] = loc /\ Last(t) = loc
      /\ \A j \in 1 .. n : t[j] = w[j]
  BY <1>2, <1>4, OneMore
<1>10. IsInjective(t)
  BY <1>2, <1>5, <1>8, AppendFacts
<1>11. ASSUME NEW j \in 1 .. n + 1
       PROVE  t[j][1] \in Erased \/ (blockStatus'[t[j][1]] # "FREE" /\ t[j][2] < pageCursor'[t[j][1]])
  <2>1. CASE j = n + 1
    BY <1>1, <1>2, <1>3, <1>7, <1>9, <2>1
  <2>2. CASE j \in 1 .. n /\ w[j][1] = b
    <3>1. w[j][2] < i /\ t[j] = w[j] /\ w[j][2] \in Nat
      BY <1>1, <1>5, <1>6, <1>7, <1>9, <2>2
    <3>2. t[j][1] = b /\ t[j][2] = w[j][2]
      BY <2>2, <3>1
    <3>3. pageCursor'[b] = i + 1
      BY <1>1, <1>3
    <3>4. w[j][2] < i + 1
      BY <1>7, <3>1
    <3> QED
      BY <1>1, <3>2, <3>3, <3>4
  <2>3. CASE j \in 1 .. n /\ w[j][1] # b
    <3> PICK c : c = w[j][1]
      OBVIOUS
    <3>1. t[j] = w[j] /\ c \in Blocks /\ c # b
      BY <1>6, <1>9, <2>3
    <3>2. blockStatus'[c] = blockStatus[c] /\ pageCursor'[c] = pageCursor[c]
      BY <1>1, <1>3, <3>1
    <3>3. c \in Erased \/ (blockStatus[c] # "FREE" /\ w[j][2] < pageCursor[c])
      BY <1>5, <2>3
    <3> QED
      BY <3>1, <3>2, <3>3
  <2>4. j = n + 1 \/ j \in 1 .. n
    OBVIOUS
  <2> QED
    BY <2>1, <2>2, <2>3, <2>4
<1>12. pageCursor'[b] = i + 1
  BY <1>1, <1>3
<1>13. CopiesOK'
  BY <1>1, <1>2, <1>9, <1>10, <1>11, <1>12 DEF CopiesOK
<1>14. w # <<>> /\ Last(w)[1] = loc[1] => Last(w)[2] + 1 = loc[2]
  BY <1>1, <1>2, <1>5
<1>15. JoinedOK'
  <2>1. Covers(WritesFor(w), w) /\ WritesFor(w) \in Writes
    BY TheWrites DEF JoinedOK
  <2>2. Covers(Join(WritesFor(w), loc), t)
    BY <1>2, <1>14, <2>1, CoversStep
  <2>3. WritesFor(t) = Join(WritesFor(w), loc)
    BY <1>2, WritesGrow
  <2>4. GCWrites' = WritesFor(t)
    BY <1>1 DEF GCWrites, WritesFor
  <2> QED
    BY <1>1, <2>2, <2>3, <2>4 DEF JoinedOK
<1> QED
  BY <1>13, <1>15

\* The victim of whose pages the last were copied is among the erased blocks then.
LEMMA RecycleCopies ==
    ASSUME IInv, RecycleBlock, CopiesOK
    PROVE  CopiesOK'
<1> PICK w : w = writePageLoc
  OBVIOUS
<1>1. /\ blockStatus' = [blockStatus EXCEPT ![cur] = "FREE"]
      /\ pageCursor' = [pageCursor EXCEPT ![cur] = 0]
      /\ eraseBlockId' = Append(eraseBlockId, cur)
      /\ writePageLoc' = w /\ Collecting'
  BY DEF RecycleBlock, ReturnBlock2FreeQ, Collecting
<1>2. /\ w \in Seq(Locs) /\ eraseBlockId \in Seq(Blocks) /\ cur \in Blocks
      /\ pageCursor \in [Blocks -> 0 .. PAGE_NUM_PER_BLOCK]
      /\ blockStatus \in [Blocks -> {"FREE", "WRITING", "FULL"}]
  BY VictimFacts DEF IInv, TypeOK, RecycleBlock
<1>3. Erased' = Erased \cup {cur}
  BY <1>1, <1>2, OneMore DEF Erased
<1>4. \A c \in Blocks : c # cur => blockStatus'[c] = blockStatus[c] /\ pageCursor'[c] = pageCursor[c]
  BY <1>1, <1>2
<1>5. \A j \in 1 .. Len(w) : w[j][1] \in Blocks
  BY <1>2 DEF Locs
<1>6. w # <<>> => Last(w)[1] \in Blocks
  <2>1. w # <<>> => Len(w) \in 1 .. Len(w)
    BY <1>2
  <2> QED
    BY <1>5, <2>1 DEF Last
<1> QED
  BY <1>1, <1>3, <1>4, <1>5, <1>6 DEF CopiesOK

\* Every step leaves the copies as they should be.
LEMMA CopiesStep ==
    ASSUME totalBlockCnt * PAGE_NUM_PER_BLOCK <= diskPages,
           IInv, IInv', EraseOK', SpaceOK', CopiesOK, JoinedOK, [Next]_vars
    PROVE  CopiesOK' /\ JoinedOK'
<1>1. CASE HostStep
  <2>1. pc \in {"idle", "written"} /\ writePageLoc' = writePageLoc
    BY <1>1 DEF HostStep, WriteIO, MayWrite, Delete, EndWrite, StartGC, outVars
  <2>2. writePageLoc' = <<>>
    BY <2>1 DEF CopiesOK, Collecting
  <2> QED
    BY <2>2, NoCopies
<1>2. CASE EndGC
  <2>1. writePageLoc' = <<>>
    BY <1>2 DEF EndGC
  <2> QED
    BY <2>1, NoCopies
<1>3. CASE Fault
  <2>1. pc' = "corrupt"
    BY <1>3 DEF Fault, AllocationFails, BucketIdxWraps, Corrupt
  <2> QED
    BY <2>1 DEF SpaceOK
<1>4. CASE NextBucket \/ EnterBucket \/ SkipPage \/ UNCHANGED vars
  <2>1. UNCHANGED <<eraseBlockId, writePageLoc, blockStatus, pageCursor>> /\ Collecting' = Collecting
    BY <1>4 DEF NextBucket, EnterBucket, SkipPage, vars, walkVars, outVars, blockVars, Collecting
  <2> QED
    BY <2>1 DEF CopiesOK, Erased, JoinedOK, GCWrites
<1>5. CASE CopyPage
  BY <1>5, CopyPageCopies
<1>6. CASE RecycleBlock
  <2>1. writePageLoc' = writePageLoc
    BY <1>6 DEF RecycleBlock
  <2>2. JoinedOK'
    BY <2>1 DEF JoinedOK, GCWrites
  <2> QED
    BY <1>6, <2>2, RecycleCopies
<1> QED
  BY <1>1, <1>2, <1>3, <1>4, <1>5, <1>6 DEF Next, GCStep

\* As many places as copies.
LEMMA PlacesCounted ==
    ASSUME totalBlockCnt * PAGE_NUM_PER_BLOCK <= diskPages,
           NEW s \in Seq(Locs), IsInjective(s)
    PROVE  Cardinality({PlaceOnDisk(loc) : loc \in ToSet(s)}) = Len(s)
<1> PICK n, X : n = Len(s) /\ X = {PlaceOnDisk(loc) : loc \in ToSet(s)}
  OBVIOUS
<1> DEFINE f == [j \in 1 .. n |-> PlaceOnDisk(s[j])]
<1>1. n \in Nat /\ \A j \in 1 .. n : s[j] \in Locs
  OBVIOUS
<1>2. \A x : x \in X <=> \E j \in 1 .. n : x = f[j]
  BY DEF ToSet
<1>3. f \in [1 .. n -> X]
  BY <1>2
<1>4. \A i, j \in 1 .. n : f[i] = f[j] => i = j
  <2> TAKE i, j \in 1 .. n
  <2> HAVE f[i] = f[j]
  <2>1. s[i] = s[j]
    BY <1>1, PlacesAreDistinct
  <2> QED
    BY <2>1 DEF IsInjective
<1>5. f \in Bijection(1 .. n, X)
  <2> HIDE DEF f
  <2>1. f \in Injection(1 .. n, X)
    BY <1>3, <1>4 DEF Injection, IsInjective
  <2>2. f \in Surjection(1 .. n, X)
    BY <1>2, <1>3 DEF Surjection
  <2> QED
    BY <2>1, <2>2 DEF Bijection
<1>6. ExistsBijection(1 .. n, X)
  BY <1>5 DEF ExistsBijection
<1>7. Cardinality(X) = n
  BY <1>1, <1>6, FS_CountingElements
<1> QED
  BY <1>7

\* The writes that a finished garbage collection hands to the disk cover the copies it
\* made, each once, and the place of no other VALID page, when the tier has spare
\* space, its writers stall before fewer blocks are free than one GC recycles, and
\* the offset tells its pages apart: HandleGC's test of the block number alone
\* (layer_module.c) is enough to find copies that follow each other without a gap.
THEOREM GCWritesItsCopiesHolds ==
    ASSUME SpareSpace, gcBlockCnt <= gcStallWL,
           totalBlockCnt * PAGE_NUM_PER_BLOCK <= diskPages
    PROVE  Spec => []GCWritesItsCopies
<1>1. Init => IInv /\ SpaceInv /\ EraseOK /\ CopiesOK /\ JoinedOK
  <2> SUFFICES ASSUME Init
               PROVE  IInv /\ SpaceInv /\ EraseOK /\ CopiesOK /\ JoinedOK
    OBVIOUS
  <2>1. IInv /\ SpaceInv /\ EraseOK
    BY InitInv, SpaceInvInit DEF Init, EraseOK, Collecting
  <2>2. writePageLoc = <<>>
    BY DEF Init
  <2>3. CopiesOK
    BY <2>2 DEF CopiesOK, IsInjective
  <2>4. GCWrites = <<>>
    <3>1. GCWrites = WritesFor(<<>>)
      BY <2>2 DEF GCWrites, WritesFor
    <3> QED
      BY <3>1, WritesGrow
  <2>5. \A x : x \notin ToSet(<<>>)
    BY DEF ToSet
  <2>6. JoinedOK
    BY <2>2, <2>4, <2>5 DEF JoinedOK, Covers
  <2> QED
    BY <2>1, <2>3, <2>6
<1>2. IInv /\ SpaceInv /\ EraseOK /\ CopiesOK /\ JoinedOK /\ [Next]_vars
        => IInv' /\ SpaceInv' /\ EraseOK' /\ CopiesOK' /\ JoinedOK'
  <2> SUFFICES ASSUME IInv, SpaceInv, EraseOK, CopiesOK, JoinedOK, [Next]_vars
               PROVE  IInv' /\ SpaceInv' /\ EraseOK' /\ CopiesOK' /\ JoinedOK'
    OBVIOUS
  <2>1. IInv' /\ SpaceInv' /\ SpaceOK'
    BY SpaceInvStep DEF SpaceInv
  <2>2. EraseOK'
    BY <2>1, EraseStep DEF SpaceInv
  <2>3. CopiesOK' /\ JoinedOK'
    BY <2>1, <2>2, CopiesStep
  <2> QED
    BY <2>1, <2>2, <2>3
<1>3. ASSUME IInv, CopiesOK, JoinedOK
      PROVE  GCWritesItsCopies
  <2> DEFINE covered == UNION {PlacesOf(w) : w \in ToSet(GCWrites)}
             copies == ToSet(writePageLoc)
  <2>1. writePageLoc \in Seq(Locs) /\ copies \subseteq Locs
    BY <1>3 DEF IInv, TypeOK, ToSet
  <2>2. covered = {PlaceOnDisk(loc) : loc \in copies}
    BY <1>3 DEF JoinedOK, Covers
  <2>3. Cardinality(covered) = Len(writePageLoc)
    <3>1. Cardinality({PlaceOnDisk(loc) : loc \in copies}) = Len(writePageLoc)
      BY <1>3, <2>1, PlacesCounted DEF CopiesOK
    <3> QED
      BY <2>2, <3>1
  <2>4. \A loc \in ValidLocs \ copies : PlaceOnDisk(loc) \notin covered
    <3>1. ValidLocs \subseteq Locs
      BY DEF ValidLocs
    <3> HIDE DEF covered, copies
    <3> QED
      BY <2>1, <2>2, <3>1, PlacesAreDistinct
  <2> QED
    BY <2>2, <2>3, <2>4 DEF GCWritesItsCopies
<1> QED
  BY <1>1, <1>2, <1>3, PTL DEF Spec

-----------------------------------------------------------------------------
(* The flags.                                                               *)

\* Rounding down keeps an order.
LEMMA Hundredths ==
    ASSUME NEW m \in Nat
    PROVE  m \div 100 \in Nat /\ 100 * (m \div 100) <= m /\ m < 100 * (m \div 100) + 100
  OBVIOUS

\* A product grows with its factor.
LEMMA FactorGrows ==
    ASSUME NEW a \in Nat, NEW m \in Nat, NEW n \in Nat, m <= n
    PROVE  a * m \in Nat /\ a * n \in Nat /\ a * m <= a * n
  OBVIOUS

\* The flags give levels that the tiers can work with, as LayerModule and
\* TierModule assume: a write stalls for a garbage collection later than it asks for
\* one, a tier-down begins before a write stalls for it and never takes more pages
\* than the level leaves (instance.c:99-108).
THEOREM LevelsAreOrdered ==
    /\ gcWL0 \in Nat /\ gcStallWL0 \in Nat /\ gcStallWL0 < gcWL0
    /\ gcBlockCnt0 \in Nat \ {0}
    /\ tierDownWL0 \in Nat /\ tierDownStallWL0 \in Nat /\ tierDownWL0 <= tierDownStallWL0
    /\ tierDownCnt0 \in 1 .. tierDownWL0
<1> USE FlagAssumption
<1>1. /\ gcWL0 \in Nat /\ gcStallWL0 \in Nat /\ gcStallWL0 < gcWL0
  <2> DEFINE B    == FLAGS_t0BlockCount
             half == FLAGS_gcWaterLevel \div 2
             n    == B * FLAGS_gcWaterLevel
             s    == B * half
  <2>1. half \in Nat /\ 2 * half <= FLAGS_gcWaterLevel
    OBVIOUS
  <2>2. B * (2 * half) <= n /\ n \in Nat /\ s \in Nat
    BY <2>1, FactorGrows
  <2>3. B * (2 * half) = 2 * s
    BY <2>1
  <2>4. n >= 100 /\ 2 * s <= n
    BY <2>2, <2>3
  <2>5. /\ n \div 100 \in Nat /\ n < 100 * (n \div 100) + 100
        /\ s \div 100 \in Nat /\ 100 * (s \div 100) <= s
    BY <2>2, Hundredths
  <2>6. gcWL0 = n \div 100 /\ gcStallWL0 = s \div 100
    BY DEF gcWL0, gcStallWL0, Percent
  <2> HIDE DEF n, s
  <2> QED
    BY <2>2, <2>4, <2>5, <2>6
<1>2. gcBlockCnt0 \in Nat \ {0}
  <2>1. FLAGS_t0BlockCount * FLAGS_gcBlockRatio \in Nat
    OBVIOUS
  <2> QED
    BY <2>1, Hundredths DEF gcBlockCnt0, AtLeastOne, Percent
<1> DEFINE P     == PageNum
           B     == FLAGS_t0BlockCount
           level == B * P * FLAGS_tierdownWaterLevel
<1>3. level \in Nat /\ tierDownWL0 = level \div 100
  BY DEF tierDownWL0, Percent
<1>4. tierDownStallWL0 \in Nat /\ tierDownWL0 <= tierDownStallWL0
  <2> DEFINE stall == B * P * (FLAGS_tierdownWaterLevel + FLGAS_tierdownLimitOffset)
  <2>1. stall \in Nat /\ level <= stall
    BY FactorGrows
  <2>2. tierDownStallWL0 = stall \div 100
    BY DEF tierDownStallWL0, Percent
  <2> HIDE DEF level, stall
  <2> QED
    BY <1>3, <2>1, <2>2, Hundredths
<1>5. tierDownCnt0 \in 1 .. tierDownWL0
  <2> DEFINE ratio == B * FLAGS_tierdownBlockRatio
             cnt   == AtLeastOne(ratio \div 100)
  <2>1. ratio \in Nat /\ ratio <= B * FLAGS_tierdownWaterLevel
    BY FactorGrows
  <2>2. B * FLAGS_tierdownWaterLevel \in Nat /\ 100 <= B * FLAGS_tierdownWaterLevel
    OBVIOUS
  <2>3. cnt \in Nat \ {0} /\ 100 * cnt <= B * FLAGS_tierdownWaterLevel
    <3> HIDE DEF ratio
    <3> QED
      BY <2>1, <2>2, Hundredths DEF AtLeastOne
  <2>4. P * (100 * cnt) <= P * (B * FLAGS_tierdownWaterLevel)
    BY <2>2, <2>3, FactorGrows
  <2>5. level = P * (B * FLAGS_tierdownWaterLevel)
    OBVIOUS
  <2>6. tierDownCnt0 = cnt * P
    BY DEF tierDownCnt0, Percent
  <2>7. cnt * P \in Nat /\ 1 <= cnt * P /\ P * (100 * cnt) = 100 * (cnt * P)
    <3> HIDE DEF cnt
    <3>1. P * 1 <= P * cnt
      BY <2>3, FactorGrows
    <3> QED
      BY <2>3, <3>1
  <2> HIDE DEF cnt, level
  <2> QED
    BY <1>3, <2>4, <2>5, <2>6, <2>7, Hundredths
<1> QED
  BY <1>1, <1>2, <1>3, <1>4, <1>5, Hundredths

\* If the levels and the offset leave room for each other, the pages that tier 0 may
\* hold, GCModule's maxOccupied, leave at least the blocks of the water level for
\* garbage (instance.c:99-108).
THEOREM TierZeroHasSpareBlocks ==
    ASSUME FLAGS_tierdownWaterLevel + FLGAS_tierdownLimitOffset + FLAGS_gcWaterLevel <= 100
    PROVE  tierDownStallWL0 + gcWL0 * PageNum <= FLAGS_t0BlockCount * PageNum
<1> USE FlagAssumption
<1> DEFINE P    == PageNum
           B    == FLAGS_t0BlockCount
           held == FLAGS_tierdownWaterLevel + FLGAS_tierdownLimitOffset
           gc   == FLAGS_gcWaterLevel
           all  == B * P
<1>1. all \in Nat /\ held \in Nat /\ gc \in Nat /\ B * gc \in Nat
  OBVIOUS
<1>2. tierDownStallWL0 = (all * held) \div 100 /\ gcWL0 = (B * gc) \div 100
  BY DEF tierDownStallWL0, gcWL0, Percent
<1>3. /\ tierDownStallWL0 \in Nat /\ 100 * tierDownStallWL0 <= all * held
      /\ gcWL0 \in Nat /\ 100 * gcWL0 <= B * gc
  <2>1. all * held \in Nat
    BY <1>1
  <2> HIDE DEF all, held, gc
  <2> QED
    BY <1>1, <1>2, <2>1, Hundredths
<1>4. P * (100 * gcWL0) <= P * (B * gc)
  BY <1>1, <1>3, FactorGrows
<1>5. P * (100 * gcWL0) = 100 * (gcWL0 * P) /\ P * (B * gc) = all * gc
  BY <1>3
<1>6. all * (held + gc) <= all * 100
  BY <1>1, FactorGrows
<1>7. all * (held + gc) = all * held + all * gc
  <2> HIDE DEF all, held, gc
  <2> QED
    BY <1>1
<1> HIDE DEF all, held, gc
<1>8. gcWL0 * P \in Nat /\ all * held \in Nat /\ all * gc \in Nat
  BY <1>1, <1>3
<1> QED
  BY <1>1, <1>3, <1>4, <1>5, <1>6, <1>7, <1>8 DEF all

\* Tier 1 begins to collect while it has, besides, the blocks that the pages
\* between the two levels of tier 0 fill, and its writes stall later than that (instance.c:117-128).
THEOREM TierOneTakesTheRest ==
    /\ Percent(FLAGS_t0BlockCount, FLGAS_tierdownLimitOffset) <= gcWL1
    /\ gcStallWL1 <= gcWL1
<1> USE FlagAssumption
<1> DEFINE B    == FLAGS_t1BlockCount
           rest == FLGAS_tierdownLimitOffset * FLAGS_t0BlockCount
           r    == reservedSpaceRatio
           half == FLAGS_gcWaterLevel \div 2
           n    == B * (FLAGS_gcWaterLevel + r)
           s    == B * (half + r)
<1>1. rest \in Nat /\ FLAGS_t0BlockCount * FLGAS_tierdownLimitOffset = rest
  OBVIOUS
<1>2. r \in Nat /\ rest <= B * r
  <2> HIDE DEF rest
  <2>1. r = (rest + B - 1) \div B
    BY DEF reservedSpaceRatio, rest
  <2>2. \A m \in Nat : m \div B \in Nat /\ m < B * (m \div B) + B
    OBVIOUS
  <2>3. r \in Nat /\ rest + B - 1 < B * r + B
    BY <1>1, <2>1, <2>2
  <2>4. B * r \in Nat
    BY <2>3
  <2> QED
    BY <1>1, <2>3, <2>4
<1>3. half \in Nat /\ half <= FLAGS_gcWaterLevel
  OBVIOUS
<1>4. n \in Nat /\ B * r <= n /\ B * r \in Nat /\ s \in Nat /\ s <= n
  <2> HIDE DEF r, half
  <2> QED
    BY <1>2, <1>3, FactorGrows
<1>5. /\ gcWL1 = n \div 100 /\ gcStallWL1 = s \div 100
      /\ Percent(FLAGS_t0BlockCount, FLGAS_tierdownLimitOffset) = rest \div 100
  BY <1>1 DEF gcWL1, gcStallWL1, Percent
<1> HIDE DEF rest, n, r, s
<1> QED
  BY <1>1, <1>2, <1>4, <1>5, Hundredths

\* The blocks that hold tier 0's addresses when each has less than a level of garbage
\* are fewer than those that are neither free nor open at the stall level.
LEMMA AddressesFit ==
    ASSUME NEW B \in Nat, NEW P \in Nat \ {0}, NEW g \in Nat, NEW h \in Nat,
           NEW u \in Nat, NEW s \in Nat, NEW M \in Nat,
           49 * u <= P, 200 * s <= B * g, 100 * M <= (B * P) * h,
           g <= 50, g + h <= 100, B * g >= 4 * B + 384
    PROVE  M < (P - u + 1) * (B - s - 2)
<1> DEFINE n  == B - s - 2
           q  == P - u + 1
           bg == B * g
           L  == 9800 * B - 98 * bg
           R  == 9600 * B - 48 * bg - 19200
<1>1. bg \in Nat /\ bg <= 50 * B /\ bg >= 4 * B + 384 /\ 200 * s <= bg
  <2>1. B * g <= B * 50
    BY FactorGrows
  <2> QED
    BY <2>1
<1>2. L \in Nat /\ R \in Nat /\ L <= R
  <2> HIDE DEF bg
  <2> QED
    BY <1>1
<1>3. n \in Nat \ {0} /\ R <= 9600 * n
  <2> HIDE DEF bg
  <2> QED
    BY <1>1
<1>4. q \in Nat /\ 48 * P + 1 <= 49 * q
  OBVIOUS
<1>5. 9800 * M <= P * L
  <2>1. (B * P) * h <= (B * P) * (100 - g)
    <3>1. B * P \in Nat /\ 100 - g \in Nat /\ h <= 100 - g
      OBVIOUS
    <3> QED
      BY <3>1, FactorGrows
  <2>2. 98 * ((B * P) * (100 - g)) = P * L
    OBVIOUS
  <2>3. (B * P) * h \in Nat /\ (B * P) * (100 - g) \in Nat
    <3>1. B * P \in Nat /\ 100 - g \in Nat
      OBVIOUS
    <3> QED
      BY <3>1, FactorGrows
  <2> HIDE DEF L
  <2> QED
    BY <2>1, <2>2, <2>3
<1> HIDE DEF n, q, L, R
<1>6. P * L <= P * R /\ P * R <= P * (9600 * n) /\ P * L \in Nat /\ P * R \in Nat /\ P * (9600 * n) \in Nat
  <2>1. 9600 * n \in Nat
    BY <1>3
  <2> QED
    BY <2>1, <1>2, <1>3, FactorGrows
<1>7. n * (48 * P + 1) <= n * (49 * q)
  BY <1>3, <1>4, FactorGrows
<1>8. n * (48 * P + 1) = n * (48 * P) + n /\ 200 * (n * (48 * P)) = P * (9600 * n)
  BY <1>3
<1>9. 200 * (n * (49 * q)) = 9800 * (q * n) /\ q * n \in Nat /\ n * (48 * P) \in Nat
  BY <1>3, <1>4
<1>10. M < q * n
  <2> DEFINE a == n * (48 * P)
             c == q * n
             d == P * (9600 * n)
             e == n * (49 * q)
             f == P * L
  <2>1. /\ a \in Nat /\ c \in Nat /\ f <= d /\ a + n <= e /\ 200 * a = d /\ 200 * e = 9800 * c
        /\ 9800 * M <= f /\ n > 0 /\ n \in Nat /\ e \in Int /\ d \in Int /\ f \in Int
    BY <1>3, <1>4, <1>5, <1>6, <1>7, <1>8, <1>9
  <2> HIDE DEF a, c, d, e, f
  <2>2. M < c
    BY <2>1
  <2> QED
    BY <2>2 DEF c
<1> QED
  BY <1>10 DEF n, q

\* Tier 0 has the spare space with which GCModule never runs out of free blocks, and
\* its GC recycles no more blocks than its stall level, at any water level up to a
\* half of the tier that leaves room for the addresses, on a tier of enough blocks:
\* 64 at the default level of 10 percent (instance.c:97-108).
THEOREM TierZeroHasSpareSpace ==
    ASSUME FLAGS_gcWaterLevel <= 50, FLAGS_gcBlockRatio <= FLAGS_gcWaterLevel \div 2,
           FLAGS_tierdownWaterLevel + FLGAS_tierdownLimitOffset + FLAGS_gcWaterLevel <= 100,
           FLAGS_t0BlockCount * (FLAGS_gcWaterLevel - 4) >= 384
    PROVE  /\ gcStallWL0 > 0 /\ gcStallWL0 < gcWL0
           /\ gcWL0 + gcBlockCnt0 + 1 <= FLAGS_t0BlockCount
           /\ tierDownStallWL0
                < (PageNum - GarbageUnit + 1) * (FLAGS_t0BlockCount - gcStallWL0 - 2)
           /\ gcBlockCnt0 <= gcStallWL0
<1> USE FlagAssumption
<1> DEFINE B    == FLAGS_t0BlockCount
           P    == PageNum
           g    == FLAGS_gcWaterLevel
           h    == FLAGS_tierdownWaterLevel + FLGAS_tierdownLimitOffset
           half == FLAGS_gcWaterLevel \div 2
           bg   == B * g
           bh   == B * half
           br   == B * FLAGS_gcBlockRatio
<1>1. half \in Nat /\ 2 * half <= g /\ g <= 2 * half + 1
  OBVIOUS
<1>2. bg \in Nat /\ bh \in Nat /\ br \in Nat /\ bg >= 4 * B + 384 /\ bg <= 50 * B
  <2>1. B * g <= B * 50
    BY FactorGrows
  <2>2. B * (g - 4) = bg - 4 * B
    OBVIOUS
  <2>3. bg \in Nat /\ bh \in Nat /\ br \in Nat
    BY <1>1
  <2> QED
    BY <2>1, <2>2, <2>3
<1>3. 2 * bh <= bg /\ bg <= 2 * bh + B /\ br <= bh
  <2>1. B * (2 * half) <= B * g /\ B * g <= B * (2 * half + 1)
    BY <1>1, FactorGrows
  <2>2. B * FLAGS_gcBlockRatio <= B * half
    BY <1>1, FactorGrows
  <2>3. B * (2 * half) = 2 * bh /\ B * (2 * half + 1) = 2 * bh + B
    BY <1>1
  <2> QED
    BY <2>1, <2>2, <2>3
<1>4. gcWL0 = bg \div 100 /\ gcStallWL0 = bh \div 100 /\ gcBlockCnt0 = AtLeastOne(br \div 100)
  BY DEF gcWL0, gcStallWL0, gcBlockCnt0, Percent
<1> HIDE DEF bg, bh, br
<1>5. /\ gcWL0 \in Nat /\ 100 * gcWL0 <= bg /\ bg < 100 * gcWL0 + 100
      /\ gcStallWL0 \in Nat /\ 100 * gcStallWL0 <= bh /\ bh < 100 * gcStallWL0 + 100
      /\ br \div 100 \in Nat /\ 100 * (br \div 100) <= br
  BY <1>2, <1>4, Hundredths
<1>6. gcStallWL0 > 0 /\ gcStallWL0 < gcWL0 /\ B >= 9
  <2>1. gcStallWL0 > 0 /\ B >= 9
    BY <1>2, <1>3, <1>5
  <2>2. gcStallWL0 < gcWL0
    BY LevelsAreOrdered
  <2> QED
    BY <2>1, <2>2
<1>7. br \div 100 <= gcStallWL0
  BY <1>2, <1>3, <1>5
<1>8. gcBlockCnt0 <= gcStallWL0
  BY <1>4, <1>5, <1>6, <1>7 DEF AtLeastOne
<1>9. gcWL0 + gcBlockCnt0 + 1 <= B
  <2>1. gcBlockCnt0 \in Nat
    BY LevelsAreOrdered
  <2>2. 100 * gcBlockCnt0 <= bh
    BY <1>2, <1>5, <1>8, <2>1
  <2>3. 100 * gcWL0 + 100 * gcBlockCnt0 + 100 <= 100 * B
    BY <1>2, <1>3, <1>5, <1>6, <2>1, <2>2
  <2> QED
    BY <1>5, <2>1, <2>3
<1>10. tierDownStallWL0 < (P - GarbageUnit + 1) * (B - gcStallWL0 - 2)
  <2>1. GarbageUnit \in Nat /\ 49 * GarbageUnit <= P
    BY DEF GarbageUnit
  <2>2. tierDownStallWL0 \in Nat /\ 100 * tierDownStallWL0 <= (B * P) * h
    <3>1. (B * P) * h \in Nat
      BY FactorGrows
    <3>2. tierDownStallWL0 = ((B * P) * h) \div 100
      BY DEF tierDownStallWL0, Percent
    <3> DEFINE m == (B * P) * h
    <3> HIDE DEF m
    <3>3. m \in Nat /\ tierDownStallWL0 = m \div 100
      BY <3>1, <3>2 DEF m
    <3>4. tierDownStallWL0 \in Nat /\ 100 * tierDownStallWL0 <= m
      BY <3>3, Hundredths
    <3> QED
      BY <3>4 DEF m
  <2>3. 200 * gcStallWL0 <= B * g
    BY <1>2, <1>3, <1>5 DEF bg
  <2>4. B * g >= 4 * B + 384
    BY <1>2 DEF bg
  <2>5. g + h <= 100 /\ g <= 50 /\ h \in Nat /\ g \in Nat /\ B \in Nat /\ P \in Nat \ {0}
    OBVIOUS
  <2> HIDE DEF B, P, g, h
  <2> QED
    BY <1>5, <2>1, <2>2, <2>3, <2>4, <2>5, AddressesFit
<1> QED
  BY <1>6, <1>8, <1>9, <1>10

-----------------------------------------------------------------------------
(* Tier 0 as it is configured.                                              *)

\* Tier 0, made with the sizes and levels that CreateStorageSystemInstance derives from
\* the flags, never runs out of free blocks or of buckets, no GC reuses a block that
\* it has recycled, and on a disk of at most 4 GB the writes of a GC cover its copies:
\* under the conditions on the flags of TierZeroHasSpareSpace (instance.c:97-108).
THEOREM TierZeroIsSafe ==
    ASSUME totalBlockCnt = FLAGS_t0BlockCount, PAGE_NUM_PER_BLOCK = PageNum, GC_BUCKET_NUM = 50,
           gcWL = gcWL0, gcStallWL = gcStallWL0, gcBlockCnt = gcBlockCnt0,
           maxOccupied = tierDownStallWL0,
           FLAGS_gcWaterLevel <= 50, FLAGS_gcBlockRatio <= FLAGS_gcWaterLevel \div 2,
           FLAGS_tierdownWaterLevel + FLGAS_tierdownLimitOffset + FLAGS_gcWaterLevel <= 100,
           FLAGS_t0BlockCount * (FLAGS_gcWaterLevel - 4) >= 384
    PROVE  /\ Spec => []NeverCorrupt
           /\ Spec => []CopiesAvoidVictims
           /\ totalBlockCnt * PAGE_NUM_PER_BLOCK <= diskPages => (Spec => []GCWritesItsCopies)
<1>1. /\ gcStallWL0 > 0 /\ gcStallWL0 < gcWL0
      /\ gcWL0 + gcBlockCnt0 + 1 <= FLAGS_t0BlockCount
      /\ tierDownStallWL0 < (PageNum - GarbageUnit + 1) * (FLAGS_t0BlockCount - gcStallWL0 - 2)
      /\ gcBlockCnt0 <= gcStallWL0
  BY TierZeroHasSpareSpace
<1>2. Unit = GarbageUnit
  BY DEF Unit, GarbageUnit
<1>3. SpareSpace /\ gcBlockCnt <= gcStallWL
  BY <1>1, <1>2 DEF SpareSpace
<1>4. Spec => []NeverCorrupt
  BY <1>3, NeverCorruptHolds
<1>5. Spec => []CopiesAvoidVictims
  BY <1>3, CopiesAvoidVictimsHolds
<1>6. ASSUME totalBlockCnt * PAGE_NUM_PER_BLOCK <= diskPages
      PROVE  Spec => []GCWritesItsCopies
  BY <1>3, <1>6, GCWritesItsCopiesHolds
<1> QED
  BY <1>4, <1>5, <1>6
=============================================================================
