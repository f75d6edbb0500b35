--------------------------- MODULE TierModuleProofs ---------------------------
(***************************************************************************)
(* Proofs about the LFU queue and TierModule, for any keys, water level,    *)
(* batch size, frequencies and ages.                                        *)
(***************************************************************************)
EXTENDS TierModule, SequenceTheorems, FiniteSetTheorems, WellFoundedInduction, TLAPS

-----------------------------------------------------------------------------
(* Sequences.                                                               *)

\* Taking out the i-th element moves those behind it up.
LEMMA RemoveAtProperties ==
    ASSUME NEW S, NEW s \in Seq(S), NEW i \in 1 .. Len(s)
    PROVE  /\ RemoveAt(s, i) \in Seq(S)
           /\ Len(RemoveAt(s, i)) = Len(s) - 1
           /\ \A j \in 1 .. Len(s) - 1 : RemoveAt(s, i)[j] = IF j < i THEN s[j] ELSE s[j + 1]
<1> DEFINE front == SubSeq(s, 1, i - 1)
           back  == SubSeq(s, i + 1, Len(s))
<1>0. Len(s) \in Nat
  BY LenProperties
<1>1. /\ front \in Seq(S) /\ Len(front) = i - 1
      /\ \A j \in 1 .. i - 1 : front[j] = s[j]
  <2>1. \A j \in 1 .. i - 1 : s[j] \in S
    BY <1>0, ElementOfSeq
  <2> QED BY <1>0, <2>1, SubSeqProperties
<1>2. /\ back \in Seq(S) /\ Len(back) = Len(s) - i
      /\ \A j \in 1 .. Len(s) - i : back[j] = s[i + j]
  <2>1. \A j \in i + 1 .. Len(s) : s[j] \in S
    BY <1>0, ElementOfSeq
  <2> QED BY <1>0, <2>1, SubSeqProperties
<1> HIDE DEF front, back
<1>3. RemoveAt(s, i) = front \o back
  BY DEF RemoveAt, front, back
<1>4. /\ front \o back \in Seq(S) /\ Len(front \o back) = Len(front) + Len(back)
      /\ \A j \in 1 .. Len(front) + Len(back) :
            (front \o back)[j] = IF j <= Len(front) THEN front[j] ELSE back[j - Len(front)]
  BY <1>1, <1>2, ConcatProperties
<1>5. ASSUME NEW j \in 1 .. Len(s) - 1
      PROVE  (front \o back)[j] = IF j < i THEN s[j] ELSE s[j + 1]
  <2>1. j \in 1 .. Len(front) + Len(back) /\ Len(front) = i - 1
    BY <1>0, <1>1, <1>2
  <2>2. CASE j < i
    BY <1>0, <1>1, <1>4, <2>1, <2>2
  <2>3. CASE ~(j < i)
    <3>1. j - (i - 1) \in 1 .. Len(s) - i /\ i + (j - (i - 1)) = j + 1 /\ ~(j <= i - 1)
      BY <1>0, <2>3
    <3>2. (front \o back)[j] = back[j - (i - 1)]
      BY <1>4, <2>1, <3>1
    <3> QED BY <1>2, <2>3, <3>1, <3>2
  <2> QED BY <2>2, <2>3
<1> QED BY <1>0, <1>1, <1>2, <1>3, <1>4, <1>5

\* Putting in an element at the i-th place moves those from there on back.
LEMMA InsertAtProperties ==
    ASSUME NEW S, NEW s \in Seq(S), NEW i \in 1 .. Len(s) + 1, NEW e \in S
    PROVE  /\ InsertAt(s, i, e) \in Seq(S)
           /\ Len(InsertAt(s, i, e)) = Len(s) + 1
           /\ \A j \in 1 .. Len(s) + 1 :
                 InsertAt(s, i, e)[j] = IF j < i THEN s[j] ELSE IF j = i THEN e ELSE s[j - 1]
<1> DEFINE front == SubSeq(s, 1, i - 1)
           back  == SubSeq(s, i, Len(s))
<1>0. Len(s) \in Nat
  BY LenProperties
<1>1. /\ front \in Seq(S) /\ Len(front) = i - 1
      /\ \A j \in 1 .. i - 1 : front[j] = s[j]
  <2>1. \A j \in 1 .. i - 1 : s[j] \in S
    BY <1>0, ElementOfSeq
  <2> QED BY <1>0, <2>1, SubSeqProperties
<1>2. /\ back \in Seq(S) /\ Len(back) = Len(s) - i + 1
      /\ \A j \in 1 .. Len(s) - i + 1 : back[j] = s[i + j - 1]
  <2>1. \A j \in i .. Len(s) : s[j] \in S
    BY <1>0, ElementOfSeq
  <2> QED BY <1>0, <2>1, SubSeqProperties
<1> HIDE DEF front, back
<1>3. /\ <<e>> \in Seq(S) /\ Len(<<e>>) = 1 /\ <<e>>[1] = e
  OBVIOUS
<1>4. /\ front \o <<e>> \in Seq(S) /\ Len(front \o <<e>>) = i
      /\ \A j \in 1 .. i : (front \o <<e>>)[j] = IF j < i THEN s[j] ELSE e
  BY <1>0, <1>1, <1>3, ConcatProperties
<1>5. InsertAt(s, i, e) = (front \o <<e>>) \o back
  BY DEF InsertAt, front, back
<1> DEFINE head == front \o <<e>>
<1> HIDE DEF head
<1>6. /\ head \in Seq(S) /\ Len(head) = i
      /\ \A j \in 1 .. i : head[j] = IF j < i THEN s[j] ELSE e
  BY <1>4 DEF head
<1>7. /\ head \o back \in Seq(S) /\ Len(head \o back) = Len(head) + Len(back)
      /\ \A j \in 1 .. Len(head) + Len(back) :
            (head \o back)[j] = IF j <= Len(head) THEN head[j] ELSE back[j - Len(head)]
  BY <1>2, <1>6, ConcatProperties
<1>8. ASSUME NEW j \in 1 .. Len(s) + 1
      PROVE  (head \o back)[j] = IF j < i THEN s[j] ELSE IF j = i THEN e ELSE s[j - 1]
  <2>1. j \in 1 .. Len(head) + Len(back)
    BY <1>0, <1>2, <1>6
  <2>2. CASE j <= i
    <3>1. (head \o back)[j] = head[j] /\ j \in 1 .. i
      BY <1>0, <1>6, <1>7, <2>1, <2>2
    <3> QED BY <1>6, <2>2, <3>1
  <2>3. CASE ~(j <= i)
    <3>1. j - i \in 1 .. Len(s) - i + 1 /\ i + (j - i) - 1 = j - 1 /\ ~(j < i) /\ j # i
      BY <1>0, <2>3
    <3>2. (head \o back)[j] = back[j - i]
      BY <1>6, <1>7, <2>1, <2>3
    <3> QED BY <1>2, <3>1, <3>2
  <2> QED BY <2>2, <2>3
<1>9. InsertAt(s, i, e) = head \o back
  BY <1>5 DEF head
<1> QED BY <1>0, <1>2, <1>6, <1>7, <1>8, <1>9

\* Only the empty list has no keys.
LEMMA EmptyHasNone ==
    ASSUME NEW S, NEW s \in Seq(S)
    PROVE  s = <<>> <=> ToSet(s) = {}
<1>1. Len(s) \in Nat /\ DOMAIN s = 1 .. Len(s)
  BY LenProperties
<1>2. CASE s = <<>>
  BY <1>2 DEF ToSet
<1>3. CASE s # <<>>
  <2>1. 1 \in DOMAIN s
    BY <1>1, <1>3, EmptySeq
  <2> QED BY <1>3, <2>1 DEF ToSet
<1> QED BY <1>2, <1>3

\* Of a list without doubles, an element is taken out for good, and the others keep
\* their order.
LEMMA RemoveFirstProperties ==
    ASSUME NEW S, NEW s \in Seq(S), IsInjective(s), NEW e \in ToSet(s)
    PROVE  /\ RemoveFirst(s, e) \in Seq(S)
           /\ IsInjective(RemoveFirst(s, e))
           /\ ToSet(RemoveFirst(s, e)) = ToSet(s) \ {e}
           /\ \A k : k # e => Behind(RemoveFirst(s, e), k) = Behind(s, k) \ {e}
<1>0. Len(s) \in Nat /\ DOMAIN s = 1 .. Len(s)
  BY LenProperties
<1>1. PICK n \in 1 .. Len(s) : s[n] = e
  BY <1>0 DEF ToSet
<1>2. {i \in 1 .. Len(s) : s[i] = e} = {n}
  BY <1>0, <1>1 DEF IsInjective
<1>3. Min({n}) = n
  BY DEF Min
<1>4. RemoveFirst(s, e) = RemoveAt(s, n)
  BY <1>1, <1>2, <1>3 DEF RemoveFirst, SelectInSeq
<1> DEFINE t == RemoveAt(s, n)
<1>5. /\ t \in Seq(S) /\ Len(t) = Len(s) - 1
      /\ \A j \in 1 .. Len(s) - 1 : t[j] = IF j < n THEN s[j] ELSE s[j + 1]
  BY RemoveAtProperties
<1> HIDE DEF t
<1>6. DOMAIN t = 1 .. Len(s) - 1
  BY <1>5, LenProperties
<1>7. IsInjective(t)
  <2>0. \A i, j \in 1 .. Len(s) : s[i] = s[j] => i = j
    BY <1>0 DEF IsInjective
  <2>1. ASSUME NEW i \in 1 .. Len(s) - 1
        PROVE  \E k \in 1 .. Len(s) : t[i] = s[k] /\ k = IF i < n THEN i ELSE i + 1
    <3>1. CASE i < n
      BY <1>0, <1>1, <1>5, <3>1
    <3>2. CASE ~(i < n)
      <4>1. i + 1 \in 1 .. Len(s)
        BY <1>0
      <4> QED
        BY <1>0, <1>1, <1>5, <3>2, <4>1
    <3> QED
      BY <3>1, <3>2
  <2>2. ASSUME NEW i \in 1 .. Len(s) - 1, NEW j \in 1 .. Len(s) - 1, t[i] = t[j]
        PROVE  i = j
    <3>1. PICK k \in 1 .. Len(s) : t[i] = s[k] /\ k = IF i < n THEN i ELSE i + 1
      BY <2>1
    <3>2. PICK l \in 1 .. Len(s) : t[j] = s[l] /\ l = IF j < n THEN j ELSE j + 1
      BY <2>1
    <3>3. k = l
      BY <2>0, <2>2, <3>1, <3>2
    <3> QED
      BY <1>0, <1>1, <3>1, <3>2, <3>3
  <2> QED
    BY ONLY <1>6, <2>2 DEF IsInjective
<1>8. ToSet(t) \subseteq ToSet(s) \ {e}
  <2> SUFFICES ASSUME NEW j \in 1 .. Len(s) - 1 PROVE t[j] \in ToSet(s) /\ t[j] # e
    BY <1>6 DEF ToSet
  <2>1. PICK i \in 1 .. Len(s) : i # n /\ t[j] = s[i]
    BY <1>0, <1>5
  <2> QED BY <1>0, <1>1, <2>1 DEF ToSet, IsInjective
<1>9. ToSet(s) \ {e} \subseteq ToSet(t)
  <2> SUFFICES ASSUME NEW i \in 1 .. Len(s), s[i] # e PROVE s[i] \in ToSet(t)
    BY <1>0 DEF ToSet
  <2>1. CASE i < n
    <3>1. i \in 1 .. Len(s) - 1 /\ t[i] = s[i]
      BY <1>0, <1>5, <2>1
    <3> QED BY <1>6, <3>1 DEF ToSet
  <2>2. CASE i > n
    <3>1. i - 1 \in 1 .. Len(s) - 1 /\ t[i - 1] = s[i]
      BY <1>0, <1>5, <2>2
    <3> QED BY <1>6, <3>1 DEF ToSet
  <2> QED BY <1>1, <2>1, <2>2
\* Where each element of t was, and each other element of s went.
<1> DEFINE was(j) == IF j < n THEN j ELSE j + 1
           to(j) == IF j < n THEN j ELSE j - 1
<1>10. \A j \in DOMAIN t : was(j) \in DOMAIN s /\ was(j) # n /\ t[j] = s[was(j)]
  BY <1>0, <1>5, <1>6
<1>11. \A j, k \in DOMAIN t : j < k => was(j) < was(k)
  BY <1>0, <1>6
<1>12. \A j \in DOMAIN s : j # n => to(j) \in DOMAIN t /\ t[to(j)] = s[j]
  BY <1>0, <1>5, <1>6
<1>13. \A j, k \in DOMAIN s : j # n /\ k # n /\ j < k => to(j) < to(k)
  BY <1>0
<1> HIDE DEF was, to
<1>14. \A j \in DOMAIN s : s[j] = e <=> j = n
  BY <1>0, <1>1 DEF IsInjective
<1>15. ASSUME NEW k, k # e
       PROVE  Behind(t, k) = Behind(s, k) \ {e}
  <2>1. ASSUME NEW l \in Behind(t, k)
        PROVE  l \in Behind(s, k) /\ l # e
    <3>1. PICK i \in DOMAIN t, j \in DOMAIN t : i < j /\ t[i] = k /\ t[j] = l
      BY <2>1 DEF Behind
    <3>2. /\ was(i) \in DOMAIN s /\ was(j) \in DOMAIN s /\ was(i) < was(j)
          /\ s[was(i)] = k /\ s[was(j)] = l /\ l # e
      BY <1>10, <1>11, <1>14, <3>1
    <3> QED BY <3>2 DEF Behind, ToSet
  <2>2. ASSUME NEW l \in Behind(s, k), l # e
        PROVE  l \in Behind(t, k)
    <3>1. PICK i \in DOMAIN s, j \in DOMAIN s : i < j /\ s[i] = k /\ s[j] = l
      BY <2>2 DEF Behind
    <3>2. /\ to(i) \in DOMAIN t /\ to(j) \in DOMAIN t /\ to(i) < to(j)
          /\ t[to(i)] = k /\ t[to(j)] = l
      BY <1>12, <1>13, <1>14, <1>15, <2>2, <3>1
    <3> QED BY <3>2 DEF Behind, ToSet
  <2> QED BY <2>1, <2>2
<1> QED BY <1>4, <1>5, <1>7, <1>8, <1>9, <1>15 DEF t

\* A new key joins at the head of a node's list, behind all of it in the order of
\* eviction.
LEMMA JoinProperties ==
    ASSUME NEW S, NEW s \in Seq(S), IsInjective(s), NEW e \in S, e \notin ToSet(s)
    PROVE  /\ Join(s, e) \in Seq(S)
           /\ IsInjective(Join(s, e))
           /\ ToSet(Join(s, e)) = ToSet(s) \cup {e}
           /\ Behind(Join(s, e), e) = ToSet(s)
           /\ \A k : k # e => Behind(Join(s, e), k) = Behind(s, k)
<1>0. Len(s) \in Nat /\ DOMAIN s = 1 .. Len(s)
  BY LenProperties
<1> DEFINE t == <<e>> \o s
<1>1. <<e>> \in Seq(S) /\ Len(<<e>>) = 1 /\ <<e>>[1] = e
  OBVIOUS
<1>2. /\ t \in Seq(S) /\ Len(t) = 1 + Len(s)
      /\ \A j \in 1 .. 1 + Len(s) : t[j] = IF j <= 1 THEN <<e>>[j] ELSE s[j - 1]
  BY <1>1, ConcatProperties
<1> HIDE DEF t
<1>3. DOMAIN t = 1 .. 1 + Len(s)
  BY <1>2, LenProperties
<1>4. t[1] = e /\ \A j \in 1 .. Len(s) : t[j + 1] = s[j]
  BY <1>0, <1>1, <1>2
<1>5. \A j \in 1 .. 1 + Len(s) : j = 1 \/ (j - 1 \in 1 .. Len(s) /\ t[j] = s[j - 1])
  BY <1>0, <1>2
<1>6. IsInjective(t)
  <2> SUFFICES ASSUME NEW i \in 1 .. 1 + Len(s), NEW j \in 1 .. 1 + Len(s), t[i] = t[j]
               PROVE  i = j
    BY <1>3 DEF IsInjective
  <2>1. CASE i = 1 /\ j = 1
    BY <2>1
  <2>2. CASE i # 1 /\ j # 1
    BY <1>0, <1>5, <2>2 DEF IsInjective
  <2>3. CASE (i = 1 /\ j # 1) \/ (i # 1 /\ j = 1)
    BY <1>0, <1>4, <1>5, <2>3 DEF ToSet
  <2> QED BY <2>1, <2>2, <2>3
<1>7. ToSet(t) = ToSet(s) \cup {e}
  <2>1. ASSUME NEW j \in 1 .. 1 + Len(s) PROVE t[j] \in ToSet(s) \cup {e}
    BY <1>0, <1>4, <1>5 DEF ToSet
  <2>2. ASSUME NEW j \in 1 .. Len(s) PROVE s[j] \in ToSet(t)
    <3>1. j + 1 \in 1 .. 1 + Len(s)
      BY <1>0
    <3> QED BY <1>3, <1>4, <3>1 DEF ToSet
  <2>3. e \in ToSet(t)
    BY <1>0, <1>3, <1>4 DEF ToSet
  <2> QED BY <1>0, <1>3, <2>1, <2>2, <2>3 DEF ToSet
<1>8. Join(s, e) = t
  BY DEF Join, Cons, t
<1>9. \A j \in DOMAIN t : t[j] = e <=> j = 1
  BY <1>0, <1>3, <1>4, <1>5 DEF ToSet
<1>10. Behind(t, e) = ToSet(s)
  <2>1. ASSUME NEW l \in Behind(t, e)
        PROVE  l \in ToSet(s)
    <3>1. PICK i \in DOMAIN t, j \in DOMAIN t : i < j /\ t[i] = e /\ t[j] = l
      BY <2>1 DEF Behind
    <3>2. j # 1
      BY <1>9, <3>1
    <3>3. j - 1 \in 1 .. Len(s) /\ s[j - 1] = l
      BY <1>3, <1>5, <3>1, <3>2
    <3> QED BY <1>0, <3>3 DEF ToSet
  <2>2. ASSUME NEW l \in ToSet(s)
        PROVE  l \in Behind(t, e)
    <3>1. PICK j \in 1 .. Len(s) : s[j] = l
      BY <1>0 DEF ToSet
    <3>2. /\ 1 \in DOMAIN t /\ j + 1 \in DOMAIN t /\ 1 < j + 1
          /\ t[1] = e /\ t[j + 1] = l
      BY <1>0, <1>3, <1>4, <3>1
    <3> QED BY <3>2 DEF Behind, ToSet
  <2> QED BY <2>1, <2>2
<1>11. ASSUME NEW k, k # e
       PROVE  Behind(t, k) = Behind(s, k)
  <2>1. ASSUME NEW l \in Behind(t, k)
        PROVE  l \in Behind(s, k)
    <3>1. PICK i \in DOMAIN t, j \in DOMAIN t : i < j /\ t[i] = k /\ t[j] = l
      BY <2>1 DEF Behind
    <3>2. i # 1 /\ j # 1
      BY <1>0, <1>3, <1>9, <1>11, <3>1
    <3>3. /\ i - 1 \in DOMAIN s /\ j - 1 \in DOMAIN s /\ i - 1 < j - 1
          /\ s[i - 1] = k /\ s[j - 1] = l
      BY <1>0, <1>3, <1>5, <3>1, <3>2
    <3> QED BY <3>3 DEF Behind, ToSet
  <2>2. ASSUME NEW l \in Behind(s, k)
        PROVE  l \in Behind(t, k)
    <3>1. PICK i \in DOMAIN s, j \in DOMAIN s : i < j /\ s[i] = k /\ s[j] = l
      BY <2>2 DEF Behind
    <3>2. /\ i + 1 \in DOMAIN t /\ j + 1 \in DOMAIN t /\ i + 1 < j + 1
          /\ t[i + 1] = k /\ t[j + 1] = l
      BY <1>0, <1>3, <1>4, <3>1
    <3> QED BY <3>2 DEF Behind, ToSet
  <2> QED BY <2>1, <2>2
<1> QED BY <1>2, <1>6, <1>7, <1>8, <1>10, <1>11

\* Nothing is behind the last of a list without doubles.
LEMMA NoneBehindLast ==
    ASSUME NEW S, NEW s \in Seq(S), IsInjective(s), s # <<>>
    PROVE  Behind(s, Last(s)) = {}
<1>1. Len(s) \in Nat /\ DOMAIN s = 1 .. Len(s) /\ Len(s) # 0
  BY LenProperties, EmptySeq
<1>2. Len(s) \in DOMAIN s /\ Last(s) = s[Len(s)]
  BY <1>1 DEF Last
<1>3. \A i \in DOMAIN s : s[i] = Last(s) => i = Len(s)
  BY <1>2 DEF IsInjective
<1>4. \A i, j \in DOMAIN s : ~(i < j /\ s[i] = Last(s))
  BY <1>1, <1>3
<1> QED BY <1>4 DEF Behind

-----------------------------------------------------------------------------
(* Queues: what holds of freqQ, and of it without a key.                    *)

Node == [freq : Nat, items : Seq(Key)]

\* The nodes ascend, none is empty, and no key is in two places.
WellFormed(q) ==
    /\ q \in Seq(Node)
    /\ \A i, j \in DOMAIN q : i < j => q[i].freq < q[j].freq
    /\ \A i \in DOMAIN q : q[i].items # <<>> /\ IsInjective(q[i].items)
    /\ \A i, j \in DOMAIN q : i # j => ToSet(q[i].items) \cap ToSet(q[j].items) = {}

\* The queue has the key, with that frequency.
IsRanked(q, key, f) == \E i \in DOMAIN q : q[i].freq = f /\ key \in ToSet(q[i].items)

\* The same, with the keys of its node that are evicted before it.
IsPlaced(q, key, f, keys) ==
    \E i \in DOMAIN q :
        q[i].freq = f /\ key \in ToSet(q[i].items) /\ keys = Behind(q[i].items, key)

Members(q) == UNION {ToSet(q[i].items) : i \in DOMAIN q}

\* What a node is.
LEMMA NodeTypes ==
    ASSUME NEW q, WellFormed(q)
    PROVE  /\ Len(q) \in Nat /\ DOMAIN q = 1 .. Len(q)
           /\ \A i \in DOMAIN q : q[i].freq \in Nat /\ q[i].items \in Seq(Key) /\ q[i] \in Node
<1>1. q \in Seq(Node)
  BY DEF WellFormed
<1>2. Len(q) \in Nat /\ DOMAIN q = 1 .. Len(q)
  BY <1>1, LenProperties
<1>3. \A i \in 1 .. Len(q) : q[i] \in Node
  BY <1>1, ElementOfSeq
<1> QED BY <1>2, <1>3 DEF Node

\* The key's node, and with it its priority, is the only one that has it.
LEMMA OneNodeHasIt ==
    ASSUME NEW q, WellFormed(q), NEW i \in DOMAIN q, NEW key \in ToSet(q[i].items)
    PROVE  /\ (CHOOSE j \in DOMAIN q : key \in ToSet(q[j].items)) = i
           /\ \A f : IsRanked(q, key, f) <=> f = q[i].freq
<1>1. \A j \in DOMAIN q : key \in ToSet(q[j].items) => j = i
  BY DEF WellFormed
<1> QED BY <1>1 DEF IsRanked

\* The queue's keys are those that have a rank, which is then unique.
LEMMA MembersAreRanked ==
    ASSUME NEW q, WellFormed(q)
    PROVE  /\ Members(q) \subseteq Key
           /\ \A key : key \in Members(q) <=> \E f \in Nat : IsRanked(q, key, f)
           /\ \A key, f, g : IsRanked(q, key, f) /\ IsRanked(q, key, g) => f = g
           /\ \A key, f : IsRanked(q, key, f) => f \in Nat
<1>1. ASSUME NEW i \in DOMAIN q PROVE ToSet(q[i].items) \subseteq Key /\ q[i].freq \in Nat
  <2>1. q[i].items \in Seq(Key) /\ q[i].freq \in Nat
    BY NodeTypes
  <2> QED BY <2>1, LenProperties, ElementOfSeq DEF ToSet
<1>2. \A i, j \in DOMAIN q : \A key \in ToSet(q[i].items) \cap ToSet(q[j].items) : i = j
  BY DEF WellFormed
<1> QED BY <1>1, <1>2 DEF Members, IsRanked

\* Detach takes the key out, with its node if that has no other, and nothing else.
LEMMA DetachProperties ==
    ASSUME WellFormed(freqQ), NEW i \in DOMAIN freqQ, NEW key \in ToSet(freqQ[i].items)
    PROVE  /\ WellFormed(Detach(key))
           /\ \A k, f : IsRanked(Detach(key), k, f) <=> IsRanked(freqQ, k, f) /\ k # key
           /\ \A k, f, keys : IsPlaced(freqQ, k, f, keys) /\ k # key
                                 => IsPlaced(Detach(key), k, f, keys \ {key})
           /\ i - 1 \in 0 .. Len(Detach(key))
           /\ \A j \in 1 .. i - 1 : Detach(key)[j] = freqQ[j]
<1> DEFINE rest == RemoveFirst(freqQ[i].items, key)
<1>0. /\ NodeOf(key) = i /\ freqQ \in Seq(Node)
      /\ Len(freqQ) \in Nat /\ DOMAIN freqQ = 1 .. Len(freqQ)
      /\ freqQ[i].items \in Seq(Key) /\ freqQ[i].freq \in Nat
      /\ IsInjective(freqQ[i].items)
  BY OneNodeHasIt, NodeTypes DEF NodeOf, WellFormed
<1>1. /\ rest \in Seq(Key) /\ IsInjective(rest)
      /\ ToSet(rest) = ToSet(freqQ[i].items) \ {key}
      /\ \A k : k # key => Behind(rest, k) = Behind(freqQ[i].items, k) \ {key}
  BY <1>0, RemoveFirstProperties
<1>2. rest = <<>> <=> ToSet(rest) = {}
  BY <1>1, EmptyHasNone
<1> HIDE DEF rest
\* In the other nodes, no key has this one ahead.
<1>5. ASSUME NEW j \in DOMAIN freqQ, j # i, NEW k
      PROVE  Behind(freqQ[j].items, k) \ {key} = Behind(freqQ[j].items, k)
  <2>1. key \notin ToSet(freqQ[j].items)
    BY <1>5 DEF WellFormed
  <2> QED BY <2>1 DEF Behind
<1>3. CASE rest = <<>>
  <2> DEFINE q == RemoveAt(freqQ, i)
  <2>1. Detach(key) = q
    BY <1>0, <1>3 DEF Detach, rest
  <2>2. /\ q \in Seq(Node) /\ Len(q) = Len(freqQ) - 1
        /\ \A j \in 1 .. Len(freqQ) - 1 : q[j] = IF j < i THEN freqQ[j] ELSE freqQ[j + 1]
    BY <1>0, RemoveAtProperties
  <2> HIDE DEF q
  <2>3. DOMAIN q = 1 .. Len(freqQ) - 1
    BY <2>2, LenProperties
  \* Where each node of q was, and each other node went.
  <2> DEFINE was(j) == IF j < i THEN j ELSE j + 1
  <2>4. \A j \in DOMAIN q : was(j) \in DOMAIN freqQ \ {i} /\ q[j] = freqQ[was(j)]
    BY <1>0, <2>2, <2>3
  <2>5. \A j, k \in DOMAIN q : (j < k => was(j) < was(k)) /\ (j # k => was(j) # was(k))
    BY <1>0, <2>3
  <2>6. \A j \in DOMAIN freqQ \ {i} : \E k \in DOMAIN q : q[k] = freqQ[j]
    <3> TAKE j \in DOMAIN freqQ \ {i}
    <3>1. CASE j < i
      <4>1. j \in DOMAIN q /\ was(j) = j
        BY <1>0, <2>3, <3>1
      <4> QED BY <2>4, <4>1
    <3>2. CASE j > i
      <4>1. j - 1 \in DOMAIN q /\ was(j - 1) = j
        BY <1>0, <2>3, <3>2
      <4> QED BY <2>4, <4>1
    <3> QED BY <1>0, <3>1, <3>2
  <2> HIDE DEF was
  <2>7. WellFormed(q)
    <3>1. \A j, k \in DOMAIN q : j < k => q[j].freq < q[k].freq
      BY <2>4, <2>5 DEF WellFormed
    <3>2. \A j \in DOMAIN q : q[j].items # <<>> /\ IsInjective(q[j].items)
      BY <2>4 DEF WellFormed
    <3>3. \A j, k \in DOMAIN q : j # k => ToSet(q[j].items) \cap ToSet(q[k].items) = {}
      BY <2>4, <2>5 DEF WellFormed
    <3> QED BY <2>2, <3>1, <3>2, <3>3 DEF WellFormed
  <2>8. \A k, f : IsRanked(q, k, f) <=> IsRanked(freqQ, k, f) /\ k # key
    <3>1. ToSet(freqQ[i].items) = {key}
      BY <1>1, <1>2, <1>3
    <3>2. \A j \in DOMAIN freqQ \ {i} : key \notin ToSet(freqQ[j].items)
      BY <3>1 DEF WellFormed
    <3> QED BY <2>4, <2>6, <3>1, <3>2 DEF IsRanked
  <2>9. i - 1 \in 0 .. Len(q) /\ \A j \in 1 .. i - 1 : q[j] = freqQ[j]
    <3>1. i - 1 \in 0 .. Len(q)
      BY <1>0, <2>2
    <3>2. \A j \in 1 .. i - 1 : j \in 1 .. Len(freqQ) - 1 /\ j < i
      BY <1>0
    <3> QED BY <2>2, <3>1, <3>2
  <2>10. ASSUME NEW k, NEW f, NEW keys, IsPlaced(freqQ, k, f, keys), k # key
         PROVE  IsPlaced(q, k, f, keys \ {key})
    <3>1. PICK j \in DOMAIN freqQ : /\ freqQ[j].freq = f /\ k \in ToSet(freqQ[j].items)
                                   /\ keys = Behind(freqQ[j].items, k)
      BY <2>10 DEF IsPlaced
    <3>2. j # i
      BY <1>1, <1>2, <1>3, <2>10, <3>1
    <3>3. keys \ {key} = Behind(freqQ[j].items, k)
      BY <1>5, <3>1, <3>2
    <3>4. PICK m \in DOMAIN q : q[m] = freqQ[j]
      BY <2>6, <3>2
    <3> QED BY <3>1, <3>3, <3>4 DEF IsPlaced
  <2> QED BY <2>1, <2>7, <2>8, <2>9, <2>10
<1>4. CASE rest # <<>>
  <2> DEFINE q == [freqQ EXCEPT ![i].items = rest]
  <2>1. Detach(key) = q
    BY <1>0, <1>4 DEF Detach, rest
  <2>2. freqQ[i] \in Node
    BY NodeTypes
  <2>3. q = [freqQ EXCEPT ![i] = [freqQ[i] EXCEPT !.items = rest]]
    BY <1>0
  <2>4. [freqQ[i] EXCEPT !.items = rest] = [freq |-> freqQ[i].freq, items |-> rest]
    BY <2>2 DEF Node
  <2>5. [freq |-> freqQ[i].freq, items |-> rest] \in Node
    BY <1>0, <1>1 DEF Node
  <2>6. /\ q \in Seq(Node) /\ Len(q) = Len(freqQ) /\ DOMAIN q = DOMAIN freqQ
        /\ q[i].freq = freqQ[i].freq /\ q[i].items = rest
        /\ \A j \in DOMAIN freqQ \ {i} : q[j] = freqQ[j]
    BY <1>0, <2>3, <2>4, <2>5, ExceptSeq
  <2> HIDE DEF q
  <2>7. \A j \in DOMAIN freqQ : q[j].freq = freqQ[j].freq
    BY <2>6
  <2>8. \A j \in DOMAIN freqQ : ToSet(q[j].items) = ToSet(freqQ[j].items) \ {key}
    <3> TAKE j \in DOMAIN freqQ
    <3>1. CASE j = i
      BY <1>1, <2>6, <3>1
    <3>2. CASE j # i
      BY <2>6, <3>2 DEF WellFormed
    <3> QED BY <3>1, <3>2
  <2>9. \A j \in DOMAIN freqQ : q[j].items # <<>> /\ IsInjective(q[j].items)
    BY <1>1, <1>4, <2>6 DEF WellFormed
  <2>10. WellFormed(q)
    <3>1. \A j, k \in DOMAIN q : j < k => q[j].freq < q[k].freq
      BY <2>6, <2>7 DEF WellFormed
    <3>2. ASSUME NEW j \in DOMAIN freqQ, NEW k \in DOMAIN freqQ, j # k
          PROVE  ToSet(q[j].items) \cap ToSet(q[k].items) = {}
      <4>1. ToSet(freqQ[j].items) \cap ToSet(freqQ[k].items) = {}
        BY <3>2 DEF WellFormed
      <4> QED BY <2>8, <4>1
    <3> QED BY <2>6, <2>9, <3>1, <3>2 DEF WellFormed
  <2>11. \A k, f : IsRanked(q, k, f) <=> IsRanked(freqQ, k, f) /\ k # key
    BY <2>6, <2>7, <2>8 DEF IsRanked
  <2>12. i - 1 \in 0 .. Len(q) /\ \A j \in 1 .. i - 1 : q[j] = freqQ[j]
    BY <1>0, <2>6
  <2>13. ASSUME NEW k, NEW f, NEW keys, IsPlaced(freqQ, k, f, keys), k # key
         PROVE  IsPlaced(q, k, f, keys \ {key})
    <3>1. PICK j \in DOMAIN freqQ : /\ freqQ[j].freq = f /\ k \in ToSet(freqQ[j].items)
                                   /\ keys = Behind(freqQ[j].items, k)
      BY <2>13 DEF IsPlaced
    <3>2. Behind(q[j].items, k) = keys \ {key}
      <4>1. CASE j = i
        BY <1>1, <2>6, <2>13, <3>1, <4>1
      <4>2. CASE j # i
        BY <1>5, <2>6, <3>1, <4>2
      <4> QED BY <4>1, <4>2
    <3>3. j \in DOMAIN q /\ q[j].freq = f /\ k \in ToSet(q[j].items)
      BY <2>6, <2>7, <2>8, <2>13, <3>1
    <3> QED BY <3>2, <3>3 DEF IsPlaced
  <2> QED BY <2>1, <2>10, <2>11, <2>12, <2>13
<1> QED BY <1>3, <1>4

\* Of some numbers, one is the smallest.
LEMMA OneIsSmallest ==
    ASSUME NEW S \in SUBSET Nat, S # {}
    PROVE  \E m \in S : \A i \in S : m <= i
<1> DEFINE R == {ss \in Nat \X Nat : ss[1] < ss[2]}
<1>1. IsWellFoundedOn(R, Nat)
  BY NatLessThanWellFounded DEF OpToRel
<1> HIDE DEF R
<1>2. PICK m \in S : \A i \in S : ~(<<i, m>> \in R)
  BY <1>1, WFMin
<1>3. ASSUME NEW i \in S PROVE m <= i
  <2>1. <<i, m>> \in Nat \X Nat /\ <<i, m>>[1] = i /\ <<i, m>>[2] = m
    OBVIOUS
  <2>2. ~(i < m)
    BY <1>2, <2>1 DEF R
  <2> QED BY <2>2
<1> QED BY <1>3

\* The search that starts behind nodes of lower priority only stops at the first node of at least the priority.
LEMMA SearchProperties ==
    ASSUME NEW q, WellFormed(q), NEW start \in 0 .. Len(q), NEW priority \in Nat,
           \A j \in 1 .. start : q[j].freq < priority
    PROVE  /\ Search(q, start, priority) \in 1 .. Len(q) + 1
           /\ \A j \in DOMAIN q : j < Search(q, start, priority) => q[j].freq < priority
           /\ \A j \in DOMAIN q : j >= Search(q, start, priority) => q[j].freq >= priority
<1> DEFINE stops == {j \in start + 1 .. Len(q) : StopsAt(q[j].freq, priority)}
           n == Search(q, start, priority)
<1>0. /\ Len(q) \in Nat /\ DOMAIN q = 1 .. Len(q)
      /\ \A j \in DOMAIN q : q[j].freq \in Nat
  BY NodeTypes
<1>1. CASE stops = {}
  <2>1. n = Len(q) + 1
    BY <1>1 DEF Search
  <2>2. \A j \in DOMAIN q : q[j].freq < priority
    BY <1>0, <1>1 DEF StopsAt
  <2> QED BY <1>0, <2>1, <2>2
<1>2. CASE stops # {}
  <2>1. stops \subseteq Nat
    BY <1>0
  <2>2. PICK m \in stops : \A i \in stops : m <= i
    BY <1>2, <2>1, OneIsSmallest
  <2>3. n = CHOOSE j \in stops : \A i \in stops : j <= i
    BY <1>2 DEF Search
  <2>4. n = m
    BY <2>1, <2>2, <2>3
  <2>5. m \in 1 .. Len(q) /\ m > start /\ q[m].freq >= priority
    BY <1>0, <2>2 DEF StopsAt
  <2>6. \A j \in DOMAIN q : j < m => q[j].freq < priority
    BY <1>0, <2>2 DEF StopsAt
  <2>7. \A j \in DOMAIN q : j >= m => q[j].freq >= priority
    <3> TAKE j \in DOMAIN q
    <3> HAVE j >= m
    <3>1. CASE j = m
      BY <2>5, <3>1
    <3>2. CASE j > m
      <4>1. q[m].freq < q[j].freq
        BY <1>0, <2>5, <3>2 DEF WellFormed
      <4> QED BY <1>0, <2>5, <4>1
    <3> QED BY <1>0, <2>5, <3>1, <3>2
  <2> QED BY <1>0, <2>4, <2>5, <2>6, <2>7
<1> QED BY <1>1, <1>2

\* t is q with the key behind those of its priority, and no other key moved.
HasLast(t, q, key, priority) ==
    /\ WellFormed(t)
    /\ \A k, f : IsRanked(t, k, f) <=> IsRanked(q, k, f) \/ (k = key /\ f = priority)
    /\ \A k, f, keys : IsPlaced(q, k, f, keys) => IsPlaced(t, k, f, keys)
    /\ IsPlaced(t, key, priority, {k \in Members(q) : IsRanked(q, k, priority)})

\* Attach puts a new key in with the priority asked for, and moves no other key.
LEMMA AttachProperties ==
    ASSUME NEW q, WellFormed(q), NEW start \in 0 .. Len(q), NEW key \in Key,
           key \notin Members(q), NEW priority \in Nat,
           \A j \in 1 .. start : q[j].freq < priority
    PROVE  HasLast(Attach(q, start, key, priority), q, key, priority)
<1> DEFINE n == Search(q, start, priority)
           t == Attach(q, start, key, priority)
           peers == {k \in Members(q) : IsRanked(q, k, priority)}
<1>0. /\ Len(q) \in Nat /\ DOMAIN q = 1 .. Len(q) /\ q \in Seq(Node)
      /\ \A j \in DOMAIN q : q[j].freq \in Nat /\ q[j].items \in Seq(Key) /\ q[j] \in Node
  BY NodeTypes DEF WellFormed
<1>1. /\ n \in 1 .. Len(q) + 1
      /\ \A j \in DOMAIN q : j < n => q[j].freq < priority
      /\ \A j \in DOMAIN q : j >= n => q[j].freq >= priority
  BY SearchProperties
<1>2. \A j \in DOMAIN q : key \notin ToSet(q[j].items)
  BY DEF Members
<1> HIDE DEF peers
<1>3. CASE n <= Len(q) /\ q[n].freq = priority
  <2> DEFINE more == Join(q[n].items, key)
             r == [q EXCEPT ![n].items = more]
  <2>1. t = r
    BY <1>3 DEF Attach
  <2>2. n \in DOMAIN q
    BY <1>0, <1>1, <1>3
  <2>3. IsInjective(q[n].items)
    BY <2>2 DEF WellFormed
  <2>4. /\ more \in Seq(Key) /\ IsInjective(more) /\ ToSet(more) = ToSet(q[n].items) \cup {key}
        /\ Behind(more, key) = ToSet(q[n].items)
        /\ \A k : k # key => Behind(more, k) = Behind(q[n].items, k)
    BY <1>0, <1>2, <2>2, <2>3, JoinProperties
  <2>5. more # <<>>
    BY <2>4, EmptyHasNone
  <2> HIDE DEF more, n, t
  <2>6. r = [q EXCEPT ![n] = [q[n] EXCEPT !.items = more]]
    BY <2>2
  <2>7. [q[n] EXCEPT !.items = more] = [freq |-> q[n].freq, items |-> more]
    BY <1>0, <2>2 DEF Node
  <2>8. [freq |-> q[n].freq, items |-> more] \in Node
    BY <1>0, <2>2, <2>4 DEF Node
  <2>9. /\ r \in Seq(Node) /\ Len(r) = Len(q) /\ DOMAIN r = DOMAIN q
        /\ r[n].freq = q[n].freq /\ r[n].items = more
        /\ \A j \in DOMAIN q \ {n} : r[j] = q[j]
    BY <1>0, <2>2, <2>6, <2>7, <2>8, ExceptSeq
  <2> HIDE DEF r
  <2>10. \A j \in DOMAIN q : r[j].freq = q[j].freq
    BY <2>9
  <2>11. \A j \in DOMAIN q :
            ToSet(r[j].items) = ToSet(q[j].items) \cup (IF j = n THEN {key} ELSE {})
    BY <2>4, <2>9
  <2>12. \A j \in DOMAIN q : r[j].items # <<>> /\ IsInjective(r[j].items)
    BY <2>4, <2>5, <2>9 DEF WellFormed
  <2>13. \A j, k \in DOMAIN r : j < k => r[j].freq < r[k].freq
    BY <2>9, <2>10 DEF WellFormed
  <2>14. ASSUME NEW j \in DOMAIN q, NEW k \in DOMAIN q, j # k
         PROVE  ToSet(r[j].items) \cap ToSet(r[k].items) = {}
    <3>1. ToSet(q[j].items) \cap ToSet(q[k].items) = {}
      BY <2>14 DEF WellFormed
    <3> QED BY <1>2, <2>11, <2>14, <3>1
  <2>15. WellFormed(r)
    BY <2>9, <2>12, <2>13, <2>14 DEF WellFormed
  <2>16. \A k, f : IsRanked(r, k, f) <=> IsRanked(q, k, f) \/ (k = key /\ f = priority)
    BY <1>3, <2>2, <2>9, <2>10, <2>11 DEF IsRanked
  <2>17. ASSUME NEW k, NEW f, NEW keys, IsPlaced(q, k, f, keys)
         PROVE  IsPlaced(r, k, f, keys)
    <3>1. PICK j \in DOMAIN q : /\ q[j].freq = f /\ k \in ToSet(q[j].items)
                               /\ keys = Behind(q[j].items, k)
      BY <2>17 DEF IsPlaced
    <3>2. k # key
      BY <1>2, <3>1
    <3>3. Behind(r[j].items, k) = keys
      <4>1. CASE j = n
        BY <2>4, <2>9, <3>1, <3>2, <4>1
      <4>2. CASE j # n
        BY <2>9, <3>1, <4>2
      <4> QED BY <4>1, <4>2
    <3>4. j \in DOMAIN r /\ r[j].freq = f /\ k \in ToSet(r[j].items)
      BY <2>9, <2>10, <2>11, <3>1
    <3> QED BY <3>3, <3>4 DEF IsPlaced
  <2>18. IsPlaced(r, key, priority, peers)
    <3>1. ToSet(q[n].items) = peers
      <4>1. ASSUME NEW k \in ToSet(q[n].items)
            PROVE  k \in peers
        BY <1>3, <2>2 DEF peers, Members, IsRanked
      <4>2. ASSUME NEW k \in peers
            PROVE  k \in ToSet(q[n].items)
        <5>1. PICK j \in DOMAIN q : q[j].freq = priority /\ k \in ToSet(q[j].items)
          BY DEF peers, IsRanked
        <5>2. ~(j < n) /\ ~(n < j)
          BY <1>0, <1>3, <2>2, <5>1 DEF WellFormed
        <5>3. j = n
          BY <1>0, <2>2, <5>2
        <5> QED BY <5>1, <5>3
      <4> QED BY <4>1, <4>2
    <3>2. r[n].freq = priority /\ key \in ToSet(r[n].items) /\ peers = Behind(r[n].items, key)
      BY <1>3, <2>4, <2>9, <3>1
    <3> QED BY <2>2, <2>9, <3>2 DEF IsPlaced
  <2> QED BY <2>1, <2>15, <2>16, <2>17, <2>18 DEF t, peers, HasLast
<1>4. CASE ~(n <= Len(q) /\ q[n].freq = priority)
  <2> DEFINE new == [freq |-> priority, items |-> <<key>>]
             r == InsertAt(q, n, new)
  <2>1. t = r
    BY <1>4 DEF Attach
  <2>2. new \in Node /\ new.freq = priority /\ new.items = <<key>>
    BY DEF Node
  <2>3. ToSet(<<key>>) = {key} /\ IsInjective(<<key>>) /\ <<key>> # <<>>
    BY DEF ToSet, IsInjective
  <2>4. \A j \in DOMAIN q : j >= n => q[j].freq > priority
    <3> TAKE j \in DOMAIN q
    <3> HAVE j >= n
    <3>1. CASE j = n
      BY <1>0, <1>1, <1>4, <3>1
    <3>2. CASE j > n
      <4>1. n \in DOMAIN q /\ q[n].freq >= priority
        BY <1>0, <1>1, <3>2
      <4>2. q[n].freq < q[j].freq
        BY <3>2, <4>1 DEF WellFormed
      <4> QED BY <1>0, <4>1, <4>2
    <3> QED BY <1>0, <1>1, <3>1, <3>2
  <2> HIDE DEF new, n, t
  <2>5. /\ r \in Seq(Node) /\ Len(r) = Len(q) + 1
        /\ \A j \in 1 .. Len(q) + 1 :
              r[j] = IF j < n THEN q[j] ELSE IF j = n THEN new ELSE q[j - 1]
    BY <1>0, <1>1, <2>2, InsertAtProperties
  <2> HIDE DEF r
  <2>6. DOMAIN r = 1 .. Len(q) + 1
    BY <2>5, LenProperties
  \* Where each other node of r was, and each node went.
  <2> DEFINE was(j) == IF j < n THEN j ELSE j - 1
  <2>7. r[n] = new /\ n \in DOMAIN r
    BY <1>0, <1>1, <2>5, <2>6
  <2>8. \A j \in DOMAIN r \ {n} : was(j) \in DOMAIN q /\ r[j] = q[was(j)]
    BY <1>0, <1>1, <2>5, <2>6
  <2>9. \A j, k \in DOMAIN r \ {n} : (j < k => was(j) < was(k)) /\ (j # k => was(j) # was(k))
    BY <1>0, <1>1, <2>6
  <2>10. \A j \in DOMAIN r \ {n} : (j < n => was(j) < n) /\ (j > n => was(j) >= n)
    BY <1>0, <1>1, <2>6
  <2>11. \A j \in DOMAIN q : \E k \in DOMAIN r \ {n} : r[k] = q[j]
    <3> TAKE j \in DOMAIN q
    <3>1. CASE j < n
      <4>1. j \in DOMAIN r \ {n} /\ was(j) = j
        BY <1>0, <1>1, <2>6, <3>1
      <4> QED BY <2>8, <4>1
    <3>2. CASE j >= n
      <4>1. j + 1 \in DOMAIN r \ {n} /\ was(j + 1) = j
        BY <1>0, <1>1, <2>6, <3>2
      <4> QED BY <2>8, <4>1
    <3> QED BY <1>0, <1>1, <3>1, <3>2
  <2>12. DOMAIN r \subseteq Int /\ n \in Int
    BY <1>0, <1>1, <2>6
  <2> HIDE DEF was
  <2>13. ASSUME NEW j \in DOMAIN r, NEW k \in DOMAIN r, j < k PROVE r[j].freq < r[k].freq
    <3>1. CASE j # n /\ k # n
      BY <2>8, <2>9, <2>13, <3>1 DEF WellFormed
    <3>2. CASE j = n
      BY <2>2, <2>4, <2>7, <2>8, <2>10, <2>12, <2>13, <3>2
    <3>3. CASE k = n
      BY <1>1, <2>2, <2>7, <2>8, <2>10, <2>12, <2>13, <3>3
    <3> QED BY <3>1, <3>2, <3>3
  <2>14. ASSUME NEW j \in DOMAIN r PROVE r[j].items # <<>> /\ IsInjective(r[j].items)
    BY <2>2, <2>3, <2>7, <2>8 DEF WellFormed
  <2>15. ASSUME NEW j \in DOMAIN r, NEW k \in DOMAIN r, j # k
         PROVE  ToSet(r[j].items) \cap ToSet(r[k].items) = {}
    <3>1. CASE j # n /\ k # n
      BY <2>8, <2>9, <2>15, <3>1 DEF WellFormed
    <3>2. CASE j = n
      BY <1>2, <2>2, <2>3, <2>7, <2>8, <2>15, <3>2
    <3>3. CASE k = n
      BY <1>2, <2>2, <2>3, <2>7, <2>8, <2>15, <3>3
    <3> QED BY <3>1, <3>2, <3>3
  <2>16. WellFormed(r)
    BY <2>5, <2>13, <2>14, <2>15 DEF WellFormed
  <2>17. \A k, f : IsRanked(r, k, f) <=> IsRanked(q, k, f) \/ (k = key /\ f = priority)
    BY <2>2, <2>3, <2>7, <2>8, <2>11 DEF IsRanked
  <2>18. ASSUME NEW k, NEW f, NEW keys, IsPlaced(q, k, f, keys)
         PROVE  IsPlaced(r, k, f, keys)
    BY <2>11, <2>18 DEF IsPlaced
  <2>19. IsPlaced(r, key, priority, peers)
    <3>1. peers = {}
      <4> SUFFICES ASSUME NEW j \in DOMAIN q
                   PROVE  q[j].freq # priority
        BY DEF peers, IsRanked
      <4>1. CASE j < n
        BY <1>0, <1>1, <4>1
      <4>2. CASE j >= n
        BY <1>0, <2>4, <4>2
      <4> QED BY <1>0, <1>1, <4>1, <4>2
    <3>2. Behind(<<key>>, key) = {}
      <4>1. DOMAIN <<key>> = {1}
        OBVIOUS
      <4> QED BY <4>1 DEF Behind
    <3>3. r[n].freq = priority /\ key \in ToSet(r[n].items) /\ peers = Behind(r[n].items, key)
      BY <2>2, <2>3, <2>7, <3>1, <3>2
    <3> QED BY <2>7, <3>3 DEF IsPlaced
  <2> QED BY <2>1, <2>16, <2>17, <2>18, <2>19 DEF t, peers, HasLast
<1> QED BY <1>3, <1>4

-----------------------------------------------------------------------------
(* Steps of the queue: what they do to the ranks.                           *)

\* The queue holds the keys of its index, none below the age.
QueueInv ==
    /\ WellFormed(freqQ)
    /\ lfuIndexer = Members(freqQ)
    /\ age \in Nat
    /\ \A i \in DOMAIN freqQ : age <= freqQ[i].freq

\* The node that NodeOf would find in q is there, and has the key's rank.
LEMMA NodeIsThere ==
    ASSUME NEW q, WellFormed(q), NEW key \in Members(q)
    PROVE  LET i == CHOOSE j \in DOMAIN q : key \in ToSet(q[j].items)
           IN  /\ i \in DOMAIN q /\ key \in ToSet(q[i].items)
               /\ \A f : IsRanked(q, key, f) <=> f = q[i].freq
               /\ q[i].freq \in Nat
<1>1. PICK i \in DOMAIN q : key \in ToSet(q[i].items)
  BY DEF Members
<1>2. (CHOOSE j \in DOMAIN q : key \in ToSet(q[j].items)) = i
  BY <1>1, OneNodeHasIt
<1>3. \A f : IsRanked(q, key, f) <=> f = q[i].freq
  BY <1>1, OneNodeHasIt
<1>4. q[i].freq \in Nat
  BY NodeTypes
<1> QED BY <1>1, <1>2, <1>3, <1>4

\* A known key's node, priority and rank.
LEMMA KnownKey ==
    ASSUME QueueInv, NEW key \in lfuIndexer
    PROVE  /\ NodeOf(key) \in DOMAIN freqQ
           /\ key \in ToSet(freqQ[NodeOf(key)].items)
           /\ Priority(key) \in Nat
           /\ \A f : IsRanked(freqQ, key, f) <=> f = Priority(key)
<1> DEFINE i == CHOOSE j \in DOMAIN freqQ : key \in ToSet(freqQ[j].items)
<1>1. key \in Members(freqQ) /\ WellFormed(freqQ)
  BY DEF QueueInv
<1>2. /\ i \in DOMAIN freqQ /\ key \in ToSet(freqQ[i].items)
      /\ \A f : IsRanked(freqQ, key, f) <=> f = freqQ[i].freq
      /\ freqQ[i].freq \in Nat
  BY <1>1, NodeIsThere
<1>3. NodeOf(key) = i
  BY DEF NodeOf
<1> QED BY <1>2, <1>3 DEF Priority

\* The same after a step.
LEMMA KnownKeyNext ==
    ASSUME QueueInv', NEW key \in lfuIndexer'
    PROVE  /\ Priority(key)' \in Nat
           /\ \A f : IsRanked(freqQ', key, f) <=> f = Priority(key)'
<1> DEFINE i == CHOOSE j \in DOMAIN freqQ' : key \in ToSet(freqQ'[j].items)
<1>1. key \in Members(freqQ') /\ WellFormed(freqQ')
  BY DEF QueueInv, Members, WellFormed
<1>2. /\ \A f : IsRanked(freqQ', key, f) <=> f = freqQ'[i].freq
      /\ freqQ'[i].freq \in Nat
  BY <1>1, NodeIsThere
<1>3. Priority(key)' = freqQ'[i].freq
  BY DEF NodeOf, Priority
<1> QED BY <1>2, <1>3

\* A queue whose ranks are all at least some age, has no node below it.
LEMMA NoneBelow ==
    ASSUME NEW q, WellFormed(q), NEW a \in Nat,
           \A k, f : IsRanked(q, k, f) => a <= f
    PROVE  \A i \in DOMAIN q : a <= q[i].freq
<1> TAKE i \in DOMAIN q
<1>1. q[i].items \in Seq(Key) /\ q[i].items # <<>>
  BY NodeTypes DEF WellFormed
<1>2. PICK k : k \in ToSet(q[i].items)
  BY <1>1, EmptyHasNone
<1>3. IsRanked(q, k, q[i].freq)
  BY <1>2 DEF IsRanked
<1> QED BY <1>3

\* A step leaves the other keys in their order.
OthersStay(key) ==
    \A k, f, keys :
        k # key /\ IsPlaced(freqQ, k, f, keys) => IsPlaced(freqQ', k, f, keys \ {key})

\* A step puts the key behind those of its priority.
ComesLast(key, priority) ==
    IsPlaced(freqQ', key, priority,
             {k \in Members(freqQ) \ {key} : IsRanked(freqQ, k, priority)})

\* Only keys of the queue are ahead of a key.
LEMMA MembersAreAhead ==
    ASSUME NEW q, NEW k, NEW f, NEW keys, IsPlaced(q, k, f, keys)
    PROVE  keys \subseteq Members(q)
BY DEF IsPlaced, Behind, Members

\* Update ranks the key by its frequency plus the age, and moves no other key.
LEMMA UpdateProperties ==
    ASSUME QueueInv, NEW key \in Key, NEW freq \in Nat, Update(key, freq),
           key \in lfuIndexer => Priority(key) <= PriorityOf(freq)
    PROVE  /\ QueueInv'
           /\ lfuIndexer' = lfuIndexer \cup {key} /\ age' = age
           /\ \A k, f : IsRanked(freqQ', k, f)
                          <=> \/ k # key /\ IsRanked(freqQ, k, f)
                              \/ k = key /\ f = freq + age
           /\ \/ key \in lfuIndexer /\ freqQ' = freqQ
              \/ /\ key \in lfuIndexer => Priority(key) < freq + age
                 /\ OthersStay(key) /\ ComesLast(key, freq + age)
<1> DEFINE priority == freq + age
<1>0. /\ priority = PriorityOf(freq) /\ priority \in Nat /\ age \in Nat /\ age <= priority
      /\ WellFormed(freqQ) /\ lfuIndexer = Members(freqQ)
      /\ \A i \in DOMAIN freqQ : age <= freqQ[i].freq
  BY DEF QueueInv, PriorityOf
<1> HIDE DEF priority
<1>1. lfuIndexer' = lfuIndexer \cup {key} /\ age' = age
  BY DEF Update
<1>2. /\ WellFormed(freqQ')
      /\ \A k, f : IsRanked(freqQ', k, f)
                     <=> \/ k # key /\ IsRanked(freqQ, k, f)
                         \/ k = key /\ f = priority
      /\ \/ key \in lfuIndexer /\ freqQ' = freqQ
         \/ /\ key \in lfuIndexer => Priority(key) < priority
            /\ OthersStay(key) /\ ComesLast(key, priority)
  <2>1. CASE key \notin lfuIndexer
    <3>1. freqQ' = Attach(freqQ, 0, key, priority)
      BY <1>0, <2>1 DEF Update
    <3>2. 0 \in 0 .. Len(freqQ) /\ \A j \in 1 .. 0 : freqQ[j].freq < priority
      BY <1>0, NodeTypes
    <3>3. /\ WellFormed(freqQ')
          /\ \A k, f : IsRanked(freqQ', k, f)
                         <=> IsRanked(freqQ, k, f) \/ (k = key /\ f = priority)
          /\ \A k, f, keys : IsPlaced(freqQ, k, f, keys) => IsPlaced(freqQ', k, f, keys)
          /\ IsPlaced(freqQ', key, priority,
                      {k \in Members(freqQ) : IsRanked(freqQ, k, priority)})
      <4>1. HasLast(Attach(freqQ, 0, key, priority), freqQ, key, priority)
        BY <1>0, <2>1, <3>2, AttachProperties
      <4> QED BY <3>1, <4>1 DEF HasLast
    <3>4. \A f : ~IsRanked(freqQ, key, f)
      BY <1>0, <2>1, MembersAreRanked
    <3>5. OthersStay(key)
      <4> SUFFICES ASSUME NEW k, NEW f, NEW keys, k # key, IsPlaced(freqQ, k, f, keys)
                   PROVE  IsPlaced(freqQ', k, f, keys \ {key})
        BY DEF OthersStay
      <4>1. keys \ {key} = keys
        BY <1>0, <2>1, MembersAreAhead
      <4> QED BY <3>3, <4>1
    <3>6. ComesLast(key, priority)
      <4>1. Members(freqQ) \ {key} = Members(freqQ)
        BY <1>0, <2>1
      <4> QED BY <3>3, <4>1 DEF ComesLast
    <3> QED BY <2>1, <3>3, <3>4, <3>5, <3>6
  <2>2. CASE key \in lfuIndexer /\ Priority(key) = priority
    <3>1. freqQ' = freqQ
      BY <1>0, <2>2 DEF Update
    <3>2. \A f : IsRanked(freqQ, key, f) <=> f = priority
      BY <2>2, KnownKey
    <3> QED BY <1>0, <2>2, <3>1, <3>2
  <2>3. CASE key \in lfuIndexer /\ Priority(key) # priority
    <3> DEFINE i == NodeOf(key)
               q == Detach(key)
    <3>1. freqQ' = Attach(q, i - 1, key, priority)
      BY <1>0, <2>3 DEF Update, Start
    <3>2. i \in DOMAIN freqQ /\ key \in ToSet(freqQ[i].items) /\ Priority(key) \in Nat
      BY <2>3, KnownKey
    <3>3. freqQ[i].freq = Priority(key)
      BY DEF Priority
    <3> HIDE DEF i, q
    <3>4. /\ WellFormed(q)
          /\ \A k, f : IsRanked(q, k, f) <=> IsRanked(freqQ, k, f) /\ k # key
          /\ \A k, f, keys : IsPlaced(freqQ, k, f, keys) /\ k # key
                                => IsPlaced(q, k, f, keys \ {key})
          /\ i - 1 \in 0 .. Len(q)
          /\ \A j \in 1 .. i - 1 : q[j] = freqQ[j]
      BY <1>0, <3>2, DetachProperties DEF q
    <3>5. Priority(key) < priority
      BY <1>0, <2>3, <3>2
    <3>6. /\ Len(freqQ) \in Nat /\ DOMAIN freqQ = 1 .. Len(freqQ)
          /\ \A j \in DOMAIN freqQ : freqQ[j].freq \in Nat
      BY <1>0, NodeTypes
    <3>7. ASSUME NEW j \in 1 .. i - 1 PROVE q[j].freq < priority
      <4>1. j \in DOMAIN freqQ /\ j < i
        BY <3>2, <3>6
      <4>2. freqQ[j].freq < freqQ[i].freq
        BY <1>0, <3>2, <4>1 DEF WellFormed
      <4> QED BY <1>0, <3>2, <3>3, <3>4, <3>5, <3>6, <4>1, <4>2
    <3>8. key \notin Members(q)
      BY <3>4, MembersAreRanked
    <3>9. /\ WellFormed(freqQ')
          /\ \A k, f : IsRanked(freqQ', k, f) <=> IsRanked(q, k, f) \/ (k = key /\ f = priority)
          /\ \A k, f, keys : IsPlaced(q, k, f, keys) => IsPlaced(freqQ', k, f, keys)
          /\ IsPlaced(freqQ', key, priority, {k \in Members(q) : IsRanked(q, k, priority)})
      <4>1. HasLast(Attach(q, i - 1, key, priority), q, key, priority)
        BY <1>0, <3>4, <3>7, <3>8, AttachProperties
      <4> QED BY <3>1, <4>1 DEF HasLast
    <3>10. OthersStay(key)
      BY <3>4, <3>9 DEF OthersStay
    <3>11. {k \in Members(q) : IsRanked(q, k, priority)}
             = {k \in Members(freqQ) \ {key} : IsRanked(freqQ, k, priority)}
      <4>1. \A k : IsRanked(q, k, priority) <=> IsRanked(freqQ, k, priority) /\ k # key
        BY <3>4
      <4>2. \A k : IsRanked(q, k, priority) => k \in Members(q)
        BY <1>0, <3>4, MembersAreRanked
      <4>3. \A k : IsRanked(freqQ, k, priority) => k \in Members(freqQ)
        BY <1>0, MembersAreRanked
      <4> QED BY <4>1, <4>2, <4>3
    <3>12. ComesLast(key, priority)
      BY <3>9, <3>11 DEF ComesLast
    <3> QED BY <3>4, <3>5, <3>9, <3>10, <3>12
  <2> QED BY <2>1, <2>2, <2>3
<1>3. \A i \in DOMAIN freqQ' : age <= freqQ'[i].freq
  <2>1. \A k, f : IsRanked(freqQ, k, f) => age <= f
    BY <1>0 DEF IsRanked
  <2>2. \A k, f : IsRanked(freqQ', k, f) => age <= f
    BY <1>0, <1>2, <2>1
  <2> QED BY <1>0, <1>2, <2>2, NoneBelow
<1>4. Members(freqQ') = Members(freqQ) \cup {key}
  BY <1>0, <1>2, MembersAreRanked
<1> QED BY <1>0, <1>1, <1>2, <1>3, <1>4 DEF QueueInv, priority, Members, WellFormed

\* Taking a known key out of the queue moves no other key.
LEMMA TakeOutProperties ==
    ASSUME QueueInv, NEW key \in lfuIndexer,
           freqQ' = Detach(key), lfuIndexer' = lfuIndexer \ {key}
    PROVE  /\ WellFormed(freqQ')
           /\ lfuIndexer' = Members(freqQ')
           /\ \A k, f : IsRanked(freqQ', k, f) <=> k # key /\ IsRanked(freqQ, k, f)
           /\ OthersStay(key)
<1>1. /\ WellFormed(freqQ) /\ lfuIndexer = Members(freqQ)
      /\ NodeOf(key) \in DOMAIN freqQ /\ key \in ToSet(freqQ[NodeOf(key)].items)
  BY KnownKey DEF QueueInv
<1>2. /\ WellFormed(freqQ')
      /\ \A k, f : IsRanked(freqQ', k, f) <=> k # key /\ IsRanked(freqQ, k, f)
      /\ \A k, f, keys : IsPlaced(freqQ, k, f, keys) /\ k # key
                            => IsPlaced(freqQ', k, f, keys \ {key})
  BY <1>1, DetachProperties
<1>3. Members(freqQ') = Members(freqQ) \ {key}
  BY <1>1, <1>2, MembersAreRanked
<1>4. OthersStay(key)
  BY <1>2 DEF OthersStay
<1> QED BY <1>1, <1>2, <1>3, <1>4

\* DeleteKey keeps the age.
LEMMA DeleteKeyProperties ==
    ASSUME QueueInv, NEW key \in lfuIndexer, DeleteKey(key)
    PROVE  /\ QueueInv'
           /\ lfuIndexer' = lfuIndexer \ {key} /\ age' = age
           /\ \A k, f : IsRanked(freqQ', k, f) <=> k # key /\ IsRanked(freqQ, k, f)
           /\ OthersStay(key)
<1>1. freqQ' = Detach(key) /\ lfuIndexer' = lfuIndexer \ {key} /\ age' = age
  BY DEF DeleteKey
<1>2. /\ WellFormed(freqQ')
      /\ lfuIndexer' = Members(freqQ')
      /\ \A k, f : IsRanked(freqQ', k, f) <=> k # key /\ IsRanked(freqQ, k, f)
      /\ OthersStay(key)
  BY <1>1, TakeOutProperties
<1>3. age \in Nat /\ \A k, f : IsRanked(freqQ', k, f) => age <= f
  BY <1>2 DEF QueueInv, IsRanked
<1>4. \A i \in DOMAIN freqQ' : age <= freqQ'[i].freq
  BY <1>2, <1>3, NoneBelow
<1> QED BY <1>1, <1>2, <1>3, <1>4 DEF QueueInv, Members, WellFormed

\* A queue that holds a key passes Evict's asserts, and its victim is one of the keys.
LEMMA VictimIsKnown ==
    ASSUME QueueInv, lfuIndexer # {}
    PROVE  /\ EvictAsserts /\ Victim \in lfuIndexer
           /\ Priority(Victim) = freqQ[1].freq /\ Ahead(Victim) = {}
           /\ \A k, f : IsRanked(freqQ, k, f) => freqQ[1].freq <= f
<1>1. WellFormed(freqQ) /\ lfuIndexer = Members(freqQ)
  BY DEF QueueInv
<1>2. /\ Len(freqQ) \in Nat /\ DOMAIN freqQ = 1 .. Len(freqQ)
      /\ \A i \in DOMAIN freqQ : freqQ[i].freq \in Nat /\ freqQ[i].items \in Seq(Key)
  BY <1>1, NodeTypes
<1>3. 1 \in DOMAIN freqQ /\ freqQ # <<>>
  BY <1>1, <1>2 DEF Members
<1>4. freqQ[1].items \in Seq(Key) /\ freqQ[1].items # <<>>
  BY <1>1, <1>2, <1>3 DEF WellFormed
<1>5. Victim \in ToSet(freqQ[1].items)
  <2>1. Len(freqQ[1].items) \in Nat /\ DOMAIN freqQ[1].items = 1 .. Len(freqQ[1].items)
    BY <1>4, LenProperties
  <2>2. Len(freqQ[1].items) # 0
    BY <1>4, EmptySeq
  <2>3. Len(freqQ[1].items) \in DOMAIN freqQ[1].items
    BY <2>1, <2>2
  <2> QED BY <2>3 DEF Victim, Last, ToSet
<1>6. Victim \in lfuIndexer
  BY <1>1, <1>3, <1>5 DEF Members
<1>7. Priority(Victim) = freqQ[1].freq
  <2>1. IsRanked(freqQ, Victim, freqQ[1].freq)
    BY <1>3, <1>5 DEF IsRanked
  <2> QED BY <1>6, <2>1, KnownKey
<1>8. ASSUME NEW i \in DOMAIN freqQ PROVE freqQ[1].freq <= freqQ[i].freq
  <2>1. CASE i = 1
    BY <1>2, <1>3, <2>1
  <2>2. CASE i # 1
    <3>1. 1 < i
      BY <1>2, <2>2
    <3>2. freqQ[1].freq < freqQ[i].freq
      BY <1>1, <1>3, <3>1 DEF WellFormed
    <3> QED BY <1>2, <1>3, <3>2
  <2> QED BY <2>1, <2>2
<1>9. \A k, f : IsRanked(freqQ, k, f) => freqQ[1].freq <= f
  BY <1>8 DEF IsRanked
<1>10. Ahead(Victim) = {}
  <2>1. NodeOf(Victim) = 1
    BY <1>1, <1>3, <1>5, OneNodeHasIt DEF NodeOf
  <2>2. IsInjective(freqQ[1].items)
    BY <1>1, <1>3 DEF WellFormed
  <2>3. Behind(freqQ[1].items, Last(freqQ[1].items)) = {}
    BY <1>4, <2>2, NoneBehindLast
  <2> QED BY <2>1, <2>3 DEF Ahead, Victim
<1> QED BY <1>3, <1>4, <1>6, <1>7, <1>9, <1>10 DEF EvictAsserts

\* Evict takes out a key of the lowest rank, which becomes the age.
LEMMA EvictProperties ==
    ASSUME QueueInv, lfuIndexer # {}, Evict
    PROVE  /\ QueueInv'
           /\ lfuIndexer' = lfuIndexer \ {Victim} /\ age' >= age
           /\ age' = Priority(Victim) /\ OthersStay(Victim)
           /\ \A k, f : IsRanked(freqQ', k, f) <=> k # Victim /\ IsRanked(freqQ, k, f)
           /\ \A k, f : IsRanked(freqQ, k, f) => age' <= f
<1> DEFINE v == Victim
<1>1. freqQ' = Detach(v) /\ lfuIndexer' = lfuIndexer \ {v} /\ age' = freqQ[1].freq
  BY DEF Evict
<1>2. /\ v \in lfuIndexer /\ Priority(v) = freqQ[1].freq
      /\ \A k, f : IsRanked(freqQ, k, f) => freqQ[1].freq <= f
  BY VictimIsKnown
<1> HIDE DEF v
<1>3. /\ WellFormed(freqQ')
      /\ lfuIndexer' = Members(freqQ')
      /\ \A k, f : IsRanked(freqQ', k, f) <=> k # v /\ IsRanked(freqQ, k, f)
      /\ OthersStay(v)
  BY <1>1, <1>2, TakeOutProperties
<1>4. Priority(v) \in Nat /\ IsRanked(freqQ, v, Priority(v))
  BY <1>2, KnownKey
<1>5. age' \in Nat /\ age' >= age
  <2>1. \A k, f : IsRanked(freqQ, k, f) => age <= f
    BY DEF QueueInv, IsRanked
  <2> QED BY <1>1, <1>2, <1>4, <2>1
<1>6. \A k, f : IsRanked(freqQ', k, f) => age' <= f
  BY <1>1, <1>2, <1>3
<1>7. \A i \in DOMAIN freqQ' : age' <= freqQ'[i].freq
  BY <1>3, <1>5, <1>6, NoneBelow
<1>8. QueueInv'
  BY <1>3, <1>5, <1>7 DEF QueueInv, Members, WellFormed
<1> QED BY <1>1, <1>2, <1>3, <1>5, <1>8 DEF v

-----------------------------------------------------------------------------
(* Steps of the queue: what they do to the order of eviction.               *)

\* A key is behind the keys that Ahead says, in the node of its priority, and nowhere else.
LEMMA KnownPlace ==
    ASSUME QueueInv, NEW key \in lfuIndexer
    PROVE  \A f, keys : IsPlaced(freqQ, key, f, keys) <=> f = Priority(key) /\ keys = Ahead(key)
<1>1. /\ NodeOf(key) \in DOMAIN freqQ /\ key \in ToSet(freqQ[NodeOf(key)].items)
      /\ WellFormed(freqQ)
  BY KnownKey DEF QueueInv
<1>2. \A i \in DOMAIN freqQ : key \in ToSet(freqQ[i].items) => i = NodeOf(key)
  BY <1>1 DEF WellFormed
<1> QED BY <1>1, <1>2 DEF IsPlaced, Priority, Ahead

\* The same after a step.
LEMMA KnownPlaceNext ==
    ASSUME QueueInv', NEW key \in lfuIndexer', NEW f, NEW keys, IsPlaced(freqQ', key, f, keys)
    PROVE  Priority(key)' = f /\ Ahead(key)' = keys
<1>1. PICK i \in DOMAIN freqQ' :
        /\ freqQ'[i].freq = f /\ key \in ToSet(freqQ'[i].items)
        /\ keys = Behind(freqQ'[i].items, key)
  BY DEF IsPlaced
<1>2. WellFormed(freqQ')
  BY DEF QueueInv, WellFormed
<1>3. (CHOOSE j \in DOMAIN freqQ' : key \in ToSet(freqQ'[j].items)) = i
  BY <1>1, <1>2, OneNodeHasIt
<1>4. Priority(key)' = freqQ'[i].freq
  BY <1>3 DEF Priority, NodeOf
<1>5. Ahead(key)' = Behind(freqQ'[i].items, key)
  BY <1>3 DEF Ahead, NodeOf, Behind
<1> QED BY <1>1, <1>4, <1>5

\* Where the other keys stay in their order, they lose at most the one that moved.
LEMMA OthersKeepTheirPlace ==
    ASSUME QueueInv, QueueInv', NEW key, OthersStay(key),
           NEW k \in lfuIndexer \cap lfuIndexer', k # key
    PROVE  Priority(k)' = Priority(k) /\ Ahead(k)' = Ahead(k) \ {key}
<1>1. IsPlaced(freqQ, k, Priority(k), Ahead(k))
  BY KnownPlace
<1>2. IsPlaced(freqQ', k, Priority(k), Ahead(k) \ {key})
  BY <1>1 DEF OthersStay
<1> QED BY <1>2, KnownPlaceNext

\* The steps of EvictionOrder, on what it sees of the queue.
RankingStep == [Ranking!Next]_<<Priorities, Order, age>>

\* A key that is taken out leaves the order of the others.
LEMMA LeaveRefined ==
    ASSUME QueueInv, QueueInv', NEW key \in lfuIndexer, lfuIndexer' = lfuIndexer \ {key},
           OthersStay(key)
    PROVE  Ranking!Leave(key)
<1>1. \A k \in lfuIndexer' : Priority(k)' = Priority(k) /\ Ahead(k)' = Ahead(k) \ {key}
  BY OthersKeepTheirPlace
<1> DEFINE f == [k \in lfuIndexer \ {key} |-> Priorities[k]]
           g == [k \in lfuIndexer \ {key} |-> Order[k] \ {key}]
<1>2. \A k \in lfuIndexer \ {key} : Priority(k)' = f[k] /\ Ahead(k)' = g[k]
  BY <1>1 DEF Priorities, Order
<1> HIDE DEF f, g
<1>3. /\ Priorities' = [k \in lfuIndexer \ {key} |-> f[k]]
      /\ Order' = [k \in lfuIndexer \ {key} |-> g[k]]
  BY <1>2 DEF Priorities, Order, Priority, Ahead, NodeOf, Behind
<1>4. /\ Priorities' = [k \in lfuIndexer \ {key} |-> Priorities[k]]
      /\ Order' = [k \in lfuIndexer \ {key} |-> Order[k] \ {key}]
  BY <1>3 DEF f, g
<1>5. DOMAIN Priorities = lfuIndexer
  BY DEF Priorities
<1> QED BY <1>4, <1>5 DEF Ranking!Leave, Ranking!Kept

\* A key that is ranked again goes behind those of its new priority.
LEMMA RiseRefined ==
    ASSUME QueueInv, QueueInv', NEW key \in Key, lfuIndexer' = lfuIndexer \cup {key},
           age' = age, NEW p \in Nat, p >= age, key \in lfuIndexer => Priority(key) < p,
           OthersStay(key), ComesLast(key, p)
    PROVE  RankingStep
<1> DEFINE peers == {k \in lfuIndexer \ {key} : Priority(k) = p}
<1>1. \A k \in lfuIndexer \ {key} :
         k \in lfuIndexer' /\ Priority(k)' = Priority(k) /\ Ahead(k)' = Ahead(k) \ {key}
  BY OthersKeepTheirPlace
<1>2. Priority(key)' = p /\ Ahead(key)' = peers
  <2>1. {k \in Members(freqQ) \ {key} : IsRanked(freqQ, k, p)} = peers
    BY KnownKey DEF QueueInv
  <2>2. IsPlaced(freqQ', key, p, peers)
    BY <2>1 DEF ComesLast
  <2> HIDE DEF peers
  <2> QED BY <2>2, KnownPlaceNext
<1> DEFINE K == lfuIndexer \cup {key}
           f == [k \in K |-> IF k = key THEN p ELSE Priorities[k]]
           g == [k \in K |-> IF k = key THEN peers ELSE Order[k] \ {key}]
<1>3. \A k \in K : Priority(k)' = f[k] /\ Ahead(k)' = g[k]
  BY <1>1, <1>2 DEF Priorities, Order
<1> HIDE DEF K, f, g
<1>4. Priorities' = [k \in K |-> f[k]] /\ Order' = [k \in K |-> g[k]]
  BY <1>3 DEF K, Priorities, Order, Priority, Ahead, NodeOf, Behind
<1>5. /\ Priorities' = [k \in K |-> IF k = key THEN p ELSE Priorities[k]]
      /\ Order' = [k \in K |-> IF k = key THEN peers ELSE Order[k] \ {key}]
  BY <1>4 DEF f, g
<1>6. /\ DOMAIN Priorities = lfuIndexer
      /\ peers = {l \in lfuIndexer \ {key} : Priorities[l] = p}
  BY DEF Priorities
<1>7. key \in lfuIndexer => Priorities[key] < p
  BY DEF Priorities
<1> HIDE DEF peers
<1>8. Ranking!Rise(key, p)
  BY <1>5, <1>6, <1>7 DEF Ranking!Rise, Ranking!Kept, K
<1>9. key \in DOMAIN Priorities' /\ Priorities'[key] = p
  BY <1>5 DEF K
<1> QED BY <1>8, <1>9 DEF RankingStep, Ranking!Next

\* Update is a rise, or changes nothing.
LEMMA UpdateRefined ==
    ASSUME QueueInv, NEW key \in Key, NEW freq \in Nat, Update(key, freq),
           key \in lfuIndexer => Priority(key) <= PriorityOf(freq)
    PROVE  RankingStep
<1>1. /\ QueueInv' /\ lfuIndexer' = lfuIndexer \cup {key} /\ age' = age
      /\ \/ key \in lfuIndexer /\ freqQ' = freqQ
         \/ /\ key \in lfuIndexer => Priority(key) < freq + age
            /\ OthersStay(key) /\ ComesLast(key, freq + age)
  BY UpdateProperties
<1>2. CASE key \in lfuIndexer /\ freqQ' = freqQ
  <2>1. lfuIndexer' = lfuIndexer
    BY <1>1, <1>2
  <2>2. UNCHANGED <<Priorities, Order, age>>
    BY <1>1, <1>2, <2>1 DEF Priorities, Order, Priority, Ahead, NodeOf, Behind
  <2> QED BY <2>2 DEF RankingStep
<1>3. CASE /\ key \in lfuIndexer => Priority(key) < freq + age
           /\ OthersStay(key) /\ ComesLast(key, freq + age)
  <2>1. freq + age \in Nat /\ freq + age >= age
    BY DEF QueueInv
  <2> QED BY <1>1, <1>3, <2>1, RiseRefined
<1> QED BY <1>1, <1>2, <1>3

\* DeleteKey drops its key, wherever it is.
LEMMA DeleteKeyRefined ==
    ASSUME QueueInv, NEW key \in lfuIndexer, DeleteKey(key)
    PROVE  RankingStep
<1>1. /\ QueueInv' /\ lfuIndexer' = lfuIndexer \ {key} /\ age' = age /\ OthersStay(key)
  BY DeleteKeyProperties
<1>2. Ranking!Drop(key)
  BY <1>1, LeaveRefined DEF Ranking!Drop
<1>3. key \in Key
  BY MembersAreRanked DEF QueueInv
<1> QED BY <1>2, <1>3 DEF RankingStep, Ranking!Next

\* Evict takes out the first.
LEMMA EvictRefined ==
    ASSUME QueueInv, lfuIndexer # {}, Evict
    PROVE  RankingStep
<1> DEFINE v == Victim
<1>1. /\ QueueInv' /\ lfuIndexer' = lfuIndexer \ {v}
      /\ age' = Priority(v) /\ OthersStay(v)
  BY EvictProperties
<1>2. /\ v \in lfuIndexer /\ Priority(v) = freqQ[1].freq /\ Ahead(v) = {}
      /\ \A k, f : IsRanked(freqQ, k, f) => freqQ[1].freq <= f
  BY VictimIsKnown
<1> HIDE DEF v
<1>3. \A k \in lfuIndexer : Priority(v) <= Priority(k)
  BY <1>2, KnownKey
<1>4. /\ DOMAIN Priorities = lfuIndexer
      /\ \A k \in lfuIndexer : Priorities[k] = Priority(k) /\ Order[k] = Ahead(k)
  BY DEF Priorities, Order
<1>5. Ranking!EvictFirst(v)
  <2>1. Ranking!IsFirst(v)
    BY <1>2, <1>3, <1>4 DEF Ranking!IsFirst, Ranking!Kept
  <2>2. Ranking!Leave(v)
    BY <1>1, <1>2, LeaveRefined
  <2> QED BY <1>1, <1>2, <1>4, <2>1, <2>2 DEF Ranking!EvictFirst
<1>6. v \in Key
  BY <1>2, MembersAreRanked DEF QueueInv
<1> QED BY <1>5, <1>6 DEF RankingStep, Ranking!Next

-----------------------------------------------------------------------------
(* The queue in the terms of LFU.                                           *)

\* The queue's type and order, and the agreement of list and index, in the terms of LFU.
LEMMA QueueInvProperties ==
    ASSUME QueueInv
    PROVE  LFUTypeOK /\ QueueIsSorted /\ KeysAreQueuedOnce
<1>1. WellFormed(freqQ) /\ lfuIndexer = Members(freqQ)
  BY DEF QueueInv
<1>2. Members(freqQ) \subseteq Key
  BY <1>1, MembersAreRanked
<1>3. LFUTypeOK
  BY <1>1, <1>2 DEF QueueInv, LFUTypeOK, WellFormed, Node
<1>4. QueueIsSorted
  BY <1>1 DEF QueueInv, QueueIsSorted, WellFormed
<1>5. KeysAreQueuedOnce
  BY <1>1 DEF KeysAreQueuedOnce, Members, WellFormed
<1> QED BY <1>3, <1>4, <1>5

-----------------------------------------------------------------------------
(* Frequencies.                                                             *)

Counters == [readFreq : Nat, writeFreq : Nat]

\* A frequency is a natural number, and an access never lowers it: not where the
\* floating-point sum loses one either.
LEMMA FrequencyProperties ==
    ASSUME NEW r \in Nat, NEW w \in Nat
    PROVE  /\ Frequency([readFreq |-> r, writeFreq |-> w]) \in Nat
           /\ Frequency([readFreq |-> r + 1, writeFreq |-> w])
                >= Frequency([readFreq |-> r, writeFreq |-> w])
           /\ Frequency([readFreq |-> r, writeFreq |-> w + 1])
                >= Frequency([readFreq |-> r, writeFreq |-> w])
<1>1. \A a, b \in Nat :
        Frequency([readFreq |-> a, writeFreq |-> b])
          = (7 * a + 3 * b) \div 10
              - IF (a = 3 /\ b = 3) \/ (a = 6 /\ b = 6) \/ (a = 11 /\ b = 1) THEN 1 ELSE 0
  BY DEF Frequency, LostToRounding
<1>2. \A n \in Nat : n \div 10 \in Nat /\ 10 * (n \div 10) <= n /\ n < 10 * (n \div 10) + 10
  OBVIOUS
<1> DEFINE n(a, b) == 7 * a + 3 * b
<1>3. n(r, w) \in Nat /\ n(r + 1, w) = n(r, w) + 7 /\ n(r, w + 1) = n(r, w) + 3
  OBVIOUS
<1>4. /\ n(r + 1, w) \div 10 >= n(r, w) \div 10
      /\ n(r, w + 1) \div 10 >= n(r, w) \div 10
  BY <1>2, <1>3
<1> QED BY <1>1, <1>2, <1>3, <1>4

\* The same of the counters as the tier has them.
LEMMA CountersProperties ==
    ASSUME NEW f \in Counters
    PROVE  /\ Frequency(f) \in Nat
           /\ [f EXCEPT !.readFreq = @ + 1] \in Counters
           /\ [f EXCEPT !.writeFreq = @ + 1] \in Counters
           /\ Frequency([f EXCEPT !.readFreq = @ + 1]) >= Frequency(f)
           /\ Frequency([f EXCEPT !.writeFreq = @ + 1]) >= Frequency(f)
<1>1. /\ f = [readFreq |-> f.readFreq, writeFreq |-> f.writeFreq]
      /\ f.readFreq \in Nat /\ f.writeFreq \in Nat
  BY DEF Counters
<1>2. /\ [f EXCEPT !.readFreq = @ + 1] = [readFreq |-> f.readFreq + 1, writeFreq |-> f.writeFreq]
      /\ [f EXCEPT !.writeFreq = @ + 1] = [readFreq |-> f.readFreq, writeFreq |-> f.writeFreq + 1]
  BY DEF Counters
<1> DEFINE r == f.readFreq
           w == f.writeFreq
<1> HIDE DEF r, w
<1>3. r \in Nat /\ w \in Nat
  BY <1>1 DEF r, w
<1>4. /\ Frequency([readFreq |-> r, writeFreq |-> w]) \in Nat
      /\ Frequency([readFreq |-> r + 1, writeFreq |-> w])
           >= Frequency([readFreq |-> r, writeFreq |-> w])
      /\ Frequency([readFreq |-> r, writeFreq |-> w + 1])
           >= Frequency([readFreq |-> r, writeFreq |-> w])
  BY <1>3, FrequencyProperties
<1>5. /\ [readFreq |-> r + 1, writeFreq |-> w] \in Counters
      /\ [readFreq |-> r, writeFreq |-> w + 1] \in Counters
  BY <1>3 DEF Counters
<1> QED BY <1>1, <1>2, <1>4, <1>5 DEF r, w

-----------------------------------------------------------------------------
(* The inductive invariant.                                                 *)

\* The frequency index, and its agreement with the queue.
IndexInv ==
    /\ lower \in BOOLEAN
    /\ pageFreqIndexer \in [Stored -> Counters] /\ IsFiniteSet(Stored)
    /\ lfuIndexer = Stored

\* The batch of a tier-down: pages that differ, and none outside a tier-down.
BatchInv ==
    /\ pc \in {"idle", "written", "tierdown", "deleted", "fault"}
    /\ pageCnt \in Nat
    /\ pages \in Seq([lba : Key, freq : Counters])
    /\ pc \in {"idle", "written"} => pages = <<>>
    /\ \A i, j \in DOMAIN pages : i # j => pages[i].lba # pages[j].lba

Batch == {pages[i].lba : i \in DOMAIN pages}

\* The space index: the ranked pages, those that a tier-down left behind, and its batch
\* until that is deleted.  What a tier-down has still to evict is what the first two have
\* above the level it aims at, so that it can fail only when there are some left behind.
SpaceInv ==
    /\ IsFiniteSet(spaceIndex) /\ left \subseteq Key
    /\ spaceIndex = Stored \cup left \cup InTransit
    /\ Stored \cap left = {} /\ Batch \cap (Stored \cup left) = {}
    /\ pc = "tierdown" =>
         Cardinality(Stored \cup left) = pageCnt + (tierDownWL - tierDownCnt)
    /\ pc = "deleted" => Cardinality(spaceIndex) <= tierDownWL
    /\ pc = "fault" => left # {}

TierInv == QueueInv /\ IndexInv /\ RankIsUsePlusAge /\ BatchInv /\ SpaceInv

\* The pages of a batch are keys.
LEMMA BatchTypes ==
    ASSUME pages \in Seq([lba : Key, freq : Counters])
    PROVE  /\ Len(pages) \in Nat /\ DOMAIN pages = 1 .. Len(pages)
           /\ \A i \in DOMAIN pages : pages[i].lba \in Key
<1> DEFINE S == [lba : Key, freq : Counters]
<1>1. \A e \in S : e.lba \in Key
  OBVIOUS
<1>2. pages \in Seq(S)
  OBVIOUS
<1> HIDE DEF S
<1>3. Len(pages) \in Nat /\ DOMAIN pages = 1 .. Len(pages)
  BY ONLY <1>2, LenProperties
<1>4. ASSUME NEW i \in DOMAIN pages PROVE pages[i] \in S
  BY ONLY <1>2, <1>3, <1>4, ElementOfSeq
<1> QED BY <1>1, <1>3, <1>4

\* The invariant is stronger than those the runs check.
LEMMA TierInvIsStronger ==
    ASSUME TierInv
    PROVE  TypeOK /\ QueueIsSorted /\ IndexesAgree /\ RankIsUsePlusAge /\ TierDownMakesRoom
<1>1. LFUTypeOK /\ QueueIsSorted /\ KeysAreQueuedOnce
  BY QueueInvProperties DEF TierInv
<1>2. Stored \subseteq Key
  BY <1>1 DEF TierInv, IndexInv, LFUTypeOK
<1>3. /\ spaceIndex = Stored \cup left \cup InTransit /\ left \subseteq Key
      /\ Stored \cap left = {} /\ Batch \cap (Stored \cup left) = {}
      /\ pc = "deleted" => Cardinality(spaceIndex) <= tierDownWL
      /\ pc = "fault" => left # {}
      /\ pages \in Seq([lba : Key, freq : Counters])
      /\ \A i, j \in DOMAIN pages : i # j => pages[i].lba # pages[j].lba
  BY DEF TierInv, SpaceInv, BatchInv
<1>4. InTransit \subseteq Batch /\ Batch \subseteq Key
  <2>1. InTransit \subseteq Batch
    BY DEF InTransit, Batch, Lbas
  <2>2. ASSUME NEW i \in DOMAIN pages PROVE pages[i].lba \in Key
    BY <1>3, BatchTypes
  <2> QED BY ONLY <2>1, <2>2 DEF Batch
<1>5. TypeOK
  BY <1>1, <1>2, <1>3, <1>4 DEF TierInv, IndexInv, BatchInv, TypeOK, Counters
<1>6. TierDownMakesRoom
  <2> SUFFICES ASSUME pc = "deleted", NEW i \in DOMAIN pages PROVE pages[i].lba \notin spaceIndex
    BY <1>3 DEF TierDownMakesRoom
  <2>1. InTransit = {}
    BY DEF InTransit
  <2>2. pages[i].lba \in Batch
    BY DEF Batch
  <2> QED BY ONLY <1>3, <2>1, <2>2
<1>7. IndexesAgree
  <2>1. Stored \cap (left \cup InTransit) = {}
    BY ONLY <1>3, <1>4
  <2> QED BY <1>1, <1>3, <2>1 DEF TierInv, IndexInv, IndexesAgree
<1> QED BY <1>1, <1>5, <1>6, <1>7 DEF TierInv

\* The tier is empty at first.
LEMMA InitTierInv == Init => TierInv
<1> SUFFICES ASSUME Init PROVE TierInv
  OBVIOUS
<1>1. /\ freqQ = <<>> /\ lfuIndexer = {} /\ age = 0 /\ pageFreqIndexer = <<>>
      /\ pc = "idle" /\ pageCnt = 0 /\ pages = <<>> /\ lower \in BOOLEAN
      /\ spaceIndex = {} /\ left = {}
  BY DEF Init, InitLFU
<1>2. DOMAIN freqQ = {} /\ Stored = {} /\ DOMAIN pages = {}
  BY <1>1 DEF Stored
<1>3. QueueInv
  BY <1>1, <1>2 DEF QueueInv, WellFormed, Members
<1>4. IndexInv
  BY <1>1, <1>2, FS_EmptySet DEF IndexInv
<1>5. RankIsUsePlusAge
  BY <1>2 DEF RankIsUsePlusAge
<1>6. BatchInv
  BY <1>1, <1>2 DEF BatchInv
<1>7. SpaceInv
  <2>1. InTransit = {} /\ Batch = {}
    BY <1>1, <1>2 DEF InTransit, Batch
  <2> QED BY <1>1, <1>2, <2>1, FS_EmptySet DEF SpaceInv
<1> QED BY <1>3, <1>4, <1>5, <1>6, <1>7 DEF TierInv

\* RankIsUsePlusAge in terms of the ranks, before and after a step.
LEMMA RanksAreUsePlusAge ==
    ASSUME QueueInv, IndexInv
    PROVE  RankIsUsePlusAge <=>
             \A key \in Stored : \A f : IsRanked(freqQ, key, f) =>
                /\ f >= Frequency(pageFreqIndexer[key])
                /\ f <= Frequency(pageFreqIndexer[key]) + age
BY KnownKey DEF IndexInv, RankIsUsePlusAge

\* RankIsUsePlusAge after a step, from the ranks of the queue after it.
LEMMA RanksAreUsePlusAgeNext ==
    ASSUME QueueInv', IndexInv',
           \A key \in Stored' : \A f : IsRanked(freqQ', key, f) =>
                /\ f >= Frequency(pageFreqIndexer'[key])
                /\ f <= Frequency(pageFreqIndexer'[key]) + age'
    PROVE  RankIsUsePlusAge'
<1> SUFFICES ASSUME NEW key \in Stored'
             PROVE  /\ Priority(key)' >= Frequency(pageFreqIndexer'[key])
                    /\ Priority(key)' <= Frequency(pageFreqIndexer'[key]) + age'
  BY DEF RankIsUsePlusAge, Frequency
<1>1. key \in lfuIndexer'
  BY DEF IndexInv
<1>2. IsRanked(freqQ', key, Priority(key)')
  BY <1>1, KnownKeyNext
<1> QED BY <1>2

\* A step that only moves the tier-down along, or ends the write.
LEMMA UnchangedInv ==
    ASSUME TierInv, UNCHANGED <<lower, lfuVars, pageFreqIndexer>>
    PROVE  QueueInv' /\ IndexInv' /\ RankIsUsePlusAge' /\ Stored' = Stored
<1>1. QueueInv'
  BY DEF TierInv, QueueInv, lfuVars, Members, WellFormed
<1>2. IndexInv' /\ Stored' = Stored
  BY DEF TierInv, IndexInv, lfuVars, Stored
<1>3. RankIsUsePlusAge'
  BY <1>2 DEF TierInv, RankIsUsePlusAge, lfuVars, Priority, NodeOf, Frequency
<1> QED BY <1>1, <1>2, <1>3

\* An access, or a page that comes from the tier above: counted and ranked again.
LEMMA CountAndRankInv ==
    ASSUME TierInv, NEW key \in Key, NEW f \in Counters,
           key \in Stored => Frequency(f) >= Frequency(pageFreqIndexer[key]),
           pageFreqIndexer' = Count(key, f), UpdateLFU(key, f), UNCHANGED lower
    PROVE  /\ QueueInv' /\ IndexInv' /\ RankIsUsePlusAge'
           /\ \A k \in lfuIndexer \cap lfuIndexer' : Priority(k)' >= Priority(k)
           /\ Stored' = Stored \cup {key} /\ RankingStep
<1> DEFINE freq == Frequency(f)
<1>1. /\ QueueInv /\ IndexInv /\ freq \in Nat /\ Update(key, freq) /\ age \in Nat
      /\ lfuIndexer = Stored
  BY CountersProperties DEF TierInv, UpdateLFU, QueueInv, IndexInv
<1>2. \A k \in Stored : Frequency(pageFreqIndexer[k]) \in Nat
  BY CountersProperties DEF TierInv, IndexInv
<1>3. key \in lfuIndexer => /\ Priority(key) \in Nat
                            /\ Priority(key) <= Frequency(pageFreqIndexer[key]) + age
  BY <1>1, KnownKey DEF TierInv, RankIsUsePlusAge
<1> HIDE DEF freq
<1>4. key \in lfuIndexer => freq >= Frequency(pageFreqIndexer[key])
  BY <1>1 DEF freq
<1>5. key \in lfuIndexer => Priority(key) <= PriorityOf(freq)
  BY <1>1, <1>2, <1>3, <1>4 DEF PriorityOf
<1>6. /\ QueueInv'
      /\ lfuIndexer' = lfuIndexer \cup {key} /\ age' = age
      /\ \A k, g : IsRanked(freqQ', k, g)
                     <=> \/ k # key /\ IsRanked(freqQ, k, g)
                         \/ k = key /\ g = freq + age
  BY <1>1, <1>5, UpdateProperties
<1>7. /\ Stored' = Stored \cup {key}
      /\ pageFreqIndexer' \in [Stored' -> Counters]
      /\ pageFreqIndexer'[key] = f
      /\ \A k \in Stored \ {key} : pageFreqIndexer'[k] = pageFreqIndexer[k]
  BY DEF TierInv, IndexInv, Count, Stored
<1>8. IndexInv'
  <2>1. IsFiniteSet(Stored \cup {key})
    BY <1>1, FS_AddElement DEF IndexInv
  <2> QED BY <1>1, <1>6, <1>7, <2>1 DEF IndexInv
<1>9. RankIsUsePlusAge'
  <2> SUFFICES ASSUME NEW k \in Stored', NEW g, IsRanked(freqQ', k, g)
               PROVE  /\ g >= Frequency(pageFreqIndexer'[k])
                      /\ g <= Frequency(pageFreqIndexer'[k]) + age'
    BY <1>6, <1>8, RanksAreUsePlusAgeNext
  <2>1. CASE k = key
    <3>1. g = freq + age /\ Frequency(pageFreqIndexer'[k]) = freq
      BY <1>6, <1>7, <2>1 DEF freq
    <3> QED BY <1>1, <1>6, <3>1
  <2>2. CASE k # key
    <3>1. k \in Stored /\ IsRanked(freqQ, k, g) /\ pageFreqIndexer'[k] = pageFreqIndexer[k]
      BY <1>6, <1>7, <2>2
    <3> QED BY <1>1, <1>6, <3>1, RanksAreUsePlusAge DEF TierInv
  <2> QED BY <2>1, <2>2
<1>10. ASSUME NEW k \in lfuIndexer PROVE Priority(k)' >= Priority(k)
  <2>0. k \in lfuIndexer'
    BY <1>6
  <2>1. /\ Priority(k) \in Nat /\ IsRanked(freqQ, k, Priority(k))
        /\ \A g : IsRanked(freqQ', k, g) => g = Priority(k)'
    BY <1>1, <1>6, <2>0, KnownKey, KnownKeyNext
  <2>2. CASE k = key
    <3>1. Priority(k)' = freq + age
      BY <1>6, <2>1, <2>2
    <3> QED BY <1>5, <2>2, <3>1 DEF PriorityOf
  <2>3. CASE k # key
    <3>1. Priority(k)' = Priority(k)
      BY <1>6, <2>1, <2>3
    <3> QED BY <2>1, <3>1
  <2> QED BY <2>2, <2>3
<1>11. RankingStep
  BY <1>1, <1>5, UpdateRefined
<1> QED BY <1>6, <1>7, <1>8, <1>9, <1>10, <1>11

\* A page that leaves both indexes.
LEMMA ForgetInv ==
    ASSUME TierInv, NEW key \in Stored,
           QueueInv', lfuIndexer' = lfuIndexer \ {key}, age' >= age,
           \A k, f : IsRanked(freqQ', k, f) <=> k # key /\ IsRanked(freqQ, k, f),
           pageFreqIndexer' = Forget(key), UNCHANGED lower
    PROVE  /\ IndexInv' /\ RankIsUsePlusAge'
           /\ \A k \in lfuIndexer \cap lfuIndexer' : Priority(k)' >= Priority(k)
           /\ Stored' = Stored \ {key}
           /\ Cardinality(Stored') = Cardinality(Stored) - 1
<1>1. QueueInv /\ IndexInv /\ lfuIndexer = Stored /\ age \in Nat /\ age' \in Nat
  BY DEF TierInv, QueueInv, IndexInv
<1>2. /\ Stored' = Stored \ {key}
      /\ pageFreqIndexer' \in [Stored' -> Counters]
      /\ \A k \in Stored' : pageFreqIndexer'[k] = pageFreqIndexer[k]
  BY DEF TierInv, IndexInv, Forget, Stored
<1>3. IsFiniteSet(Stored \ {key}) /\ Cardinality(Stored \ {key}) = Cardinality(Stored) - 1
  BY <1>1, FS_RemoveElement DEF IndexInv
<1>4. IndexInv'
  BY <1>1, <1>2, <1>3 DEF IndexInv
<1>5. RankIsUsePlusAge'
  <2> SUFFICES ASSUME NEW k \in Stored', NEW g, IsRanked(freqQ', k, g)
               PROVE  /\ g >= Frequency(pageFreqIndexer'[k])
                      /\ g <= Frequency(pageFreqIndexer'[k]) + age'
    BY <1>4, RanksAreUsePlusAgeNext
  <2>1. k \in Stored /\ IsRanked(freqQ, k, g) /\ pageFreqIndexer'[k] = pageFreqIndexer[k]
    BY <1>2
  <2>2. g \in Nat /\ Frequency(pageFreqIndexer[k]) \in Nat
    BY <1>1, <2>1, CountersProperties, MembersAreRanked DEF IndexInv, QueueInv
  <2>3. /\ g >= Frequency(pageFreqIndexer[k])
        /\ g <= Frequency(pageFreqIndexer[k]) + age
    BY <1>1, <2>1, RanksAreUsePlusAge DEF TierInv
  <2> QED BY <1>1, <2>1, <2>2, <2>3
<1>6. ASSUME NEW k \in lfuIndexer \cap lfuIndexer' PROVE Priority(k)' >= Priority(k)
  <2>1. /\ Priority(k) \in Nat /\ IsRanked(freqQ, k, Priority(k)) /\ k # key
        /\ \A g : IsRanked(freqQ', k, g) => g = Priority(k)'
    BY <1>1, KnownKey, KnownKeyNext
  <2>2. Priority(k)' = Priority(k)
    BY <2>1
  <2> QED BY <2>1, <2>2
<1> QED BY <1>2, <1>3, <1>4, <1>5, <1>6

\* What a step may do: keep the invariant, lower no page's rank, and keep to EvictionOrder.
StepOK ==
    /\ TierInv'
    /\ \A k \in lfuIndexer \cap lfuIndexer' : Priority(k)' >= Priority(k)
    /\ RankingStep

\* Outside a tier-down the batch is empty: the space index has no more than the ranked
\* pages and those left behind.
LEMMA NoBatch ==
    ASSUME TierInv, pc \in {"idle", "written"}
    PROVE  /\ pages = <<>> /\ InTransit = {}
           /\ spaceIndex = Stored \cup left /\ Stored \cap left = {}
           /\ IsFiniteSet(spaceIndex) /\ left \subseteq Key
<1>1. pages = <<>> /\ InTransit = {}
  BY DEF TierInv, BatchInv, InTransit
<1> QED BY <1>1 DEF TierInv, SpaceInv

\* A step to where there is no batch.
LEMMA RestInv ==
    ASSUME TierInv, pc' \in {"idle", "written"}, pages' = <<>>, pageCnt' = pageCnt,
           spaceIndex' = Stored' \cup left', Stored' \cap left' = {},
           IsFiniteSet(spaceIndex'), left' \subseteq Key
    PROVE  BatchInv' /\ SpaceInv'
<1>1. DOMAIN pages' = {}
  OBVIOUS
<1>2. BatchInv'
  BY <1>1 DEF TierInv, BatchInv
<1>3. InTransit' = {} /\ Batch' = {}
  BY <1>1 DEF InTransit, Batch, Lbas
<1> QED BY <1>2, <1>3 DEF SpaceInv

\* A page that is written is held, and no longer left behind.
LEMMA HoldInv ==
    ASSUME TierInv, NEW key \in Key, Hold(key), Stored' = Stored \cup {key},
           pc = "idle", pc' \in {"idle", "written"}, UNCHANGED <<pageCnt, pages>>
    PROVE  BatchInv' /\ SpaceInv'
<1>1. /\ pages = <<>> /\ spaceIndex = Stored \cup left /\ Stored \cap left = {}
      /\ IsFiniteSet(spaceIndex) /\ left \subseteq Key
  BY NoBatch
<1>2. spaceIndex' = spaceIndex \cup {key} /\ left' = left \ {key}
  BY DEF Hold
<1>3. IsFiniteSet(spaceIndex')
  BY <1>1, <1>2, FS_AddElement
<1>4. spaceIndex' = Stored' \cup left' /\ Stored' \cap left' = {} /\ left' \subseteq Key
  BY <1>1, <1>2
<1> QED BY <1>1, <1>3, <1>4, RestInv

\* A step that leaves queue and index alone lowers no rank.
LEMMA RanksStay ==
    ASSUME TierInv, UNCHANGED lfuVars
    PROVE  /\ \A k \in lfuIndexer \cap lfuIndexer' : Priority(k)' >= Priority(k)
           /\ RankingStep
<1>1. ASSUME NEW k \in lfuIndexer PROVE Priority(k)' >= Priority(k)
  <2>1. Priority(k) \in Nat
    BY KnownKey DEF TierInv
  <2>2. Priority(k)' = Priority(k)
    BY DEF lfuVars, Priority, NodeOf
  <2> QED BY <2>1, <2>2
<1>2. RankingStep
  <2>1. UNCHANGED <<Priorities, Order, age>>
    BY DEF lfuVars, Priorities, Order, Priority, Ahead, NodeOf, Behind
  <2> QED BY <2>1 DEF RankingStep
<1> QED BY <1>1, <1>2

\* A host write counts and ranks one page.
LEMMA WriteIOStep ==
    ASSUME TierInv, NEW key \in Key, WriteIO(key), UNCHANGED lower
    PROVE  StepOK
<1> DEFINE old == IF key \in Stored THEN pageFreqIndexer[key]
                                    ELSE [readFreq |-> 0, writeFreq |-> 0]
           new == [old EXCEPT !.writeFreq = @ + 1]
<1>1. /\ pc = "idle" /\ pc' = "written" /\ UNCHANGED <<pageCnt, pages>>
      /\ pageFreqIndexer' = Count(key, new) /\ UpdateLFU(key, new) /\ Hold(key)
  BY DEF WriteIO
<1>2. old \in Counters
  BY DEF TierInv, IndexInv, Counters
<1>3. key \in Stored => old = pageFreqIndexer[key]
  OBVIOUS
<1> HIDE DEF old
<1>4. new \in Counters /\ Frequency(new) >= Frequency(old)
  BY <1>2, CountersProperties
<1> HIDE DEF new
<1>5. /\ QueueInv' /\ IndexInv' /\ RankIsUsePlusAge'
      /\ \A k \in lfuIndexer \cap lfuIndexer' : Priority(k)' >= Priority(k)
      /\ RankingStep /\ Stored' = Stored \cup {key}
  BY <1>1, <1>3, <1>4, CountAndRankInv
<1>6. BatchInv' /\ SpaceInv'
  BY <1>1, <1>5, HoldInv
<1> QED BY <1>5, <1>6 DEF TierInv, StepOK

\* So does a host read.
LEMMA ReadHostIOStep ==
    ASSUME TierInv, NEW key \in Key, ReadHostIO(key), UNCHANGED lower
    PROVE  StepOK
<1> DEFINE new == [pageFreqIndexer[key] EXCEPT !.readFreq = @ + 1]
<1>1. /\ pc = "idle" /\ key \in Stored /\ UNCHANGED <<tierVars, layerVars>>
      /\ pageFreqIndexer' = Count(key, new) /\ UpdateLFU(key, new)
  BY DEF ReadHostIO
<1>2. pageFreqIndexer[key] \in Counters
  BY <1>1 DEF TierInv, IndexInv
<1>3. new \in Counters /\ Frequency(new) >= Frequency(pageFreqIndexer[key])
  BY <1>2, CountersProperties
<1> HIDE DEF new
<1>4. /\ QueueInv' /\ IndexInv' /\ RankIsUsePlusAge'
      /\ \A k \in lfuIndexer \cap lfuIndexer' : Priority(k)' >= Priority(k)
      /\ RankingStep /\ Stored' = Stored \cup {key}
  BY <1>1, <1>3, CountAndRankInv
<1>5. BatchInv' /\ SpaceInv'
  <2>1. /\ pc' = pc /\ pages' = pages /\ pageCnt' = pageCnt
        /\ spaceIndex' = spaceIndex /\ left' = left /\ Stored' = Stored
    BY <1>1, <1>4 DEF tierVars, layerVars
  <2> QED BY <1>1, <2>1, NoBatch, RestInv
<1> QED BY <1>4, <1>5 DEF TierInv, StepOK

\* A page that comes down brings its counters, which rank it.
LEMMA WriteTierDownIOStep ==
    ASSUME TierInv, NEW key \in Key, NEW f \in PageFreq, WriteTierDownIO(key, f), UNCHANGED lower
    PROVE  StepOK
<1> DEFINE new == IF key \in Stored THEN pageFreqIndexer[key] ELSE f
<1>1. /\ pc = "idle" /\ UNCHANGED tierVars /\ Hold(key)
      /\ pageFreqIndexer' = Count(key, new) /\ UpdateLFU(key, new)
  BY DEF WriteTierDownIO
<1>2. f \in Counters
  BY DEF PageFreq, Counters
<1>3. new \in Counters
  BY <1>2 DEF TierInv, IndexInv
<1>4. key \in Stored => new = pageFreqIndexer[key]
  OBVIOUS
<1> HIDE DEF new
<1>5. Frequency(new) \in Nat
  BY <1>3, CountersProperties
<1>6. key \in Stored => Frequency(new) >= Frequency(pageFreqIndexer[key])
  BY <1>4, <1>5
<1>7. /\ QueueInv' /\ IndexInv' /\ RankIsUsePlusAge'
      /\ \A k \in lfuIndexer \cap lfuIndexer' : Priority(k)' >= Priority(k)
      /\ RankingStep /\ Stored' = Stored \cup {key}
  BY <1>1, <1>3, <1>6, CountAndRankInv
<1>8. BatchInv' /\ SpaceInv'
  BY <1>1, <1>7, HoldInv DEF tierVars
<1> QED BY <1>7, <1>8 DEF TierInv, StepOK

\* An assert that fails ends the process and changes nothing else.
LEMMA FaultStep ==
    ASSUME TierInv, pc \in {"idle", "tierdown"}, left # {}, Fault, UNCHANGED lower
    PROVE  StepOK
<1>1. /\ pc' = "fault" /\ UNCHANGED <<lfuVars, pageFreqIndexer, pageCnt, pages>>
      /\ spaceIndex' = spaceIndex /\ left' = left
  BY DEF Fault, layerVars
<1>2. QueueInv' /\ IndexInv' /\ RankIsUsePlusAge' /\ Stored' = Stored
  BY <1>1, UnchangedInv
<1>3. BatchInv'
  BY <1>1 DEF TierInv, BatchInv
<1>4. SpaceInv'
  <2>1. Batch' = Batch
    BY <1>1 DEF Batch
  <2>2. InTransit' = Batch
    BY <1>1 DEF InTransit, Batch, Lbas
  <2>3. InTransit = Batch
    BY NoBatch DEF InTransit, Batch, Lbas
  <2> QED BY <1>1, <1>2, <2>1, <2>2, <2>3 DEF TierInv, SpaceInv
<1> QED BY <1>1, <1>2, <1>3, <1>4, RanksStay DEF TierInv, StepOK

\* A delete takes one page out of the queue and of the indexes, or finds it unranked:
\* then a tier-down has left it.
LEMMA DeleteDataStep ==
    ASSUME TierInv, NEW key \in Key, DeleteData(key), UNCHANGED lower
    PROVE  StepOK
<1>1. /\ pc = "idle" /\ key \in spaceIndex /\ QueueInv /\ lfuIndexer = Stored
  BY DEF DeleteData, TierInv, IndexInv
<1>2. /\ pages = <<>> /\ spaceIndex = Stored \cup left /\ Stored \cap left = {}
      /\ IsFiniteSet(spaceIndex) /\ left \subseteq Key
  BY <1>1, NoBatch
<1>3. DeleteAsserts(key) <=> key \in Stored
  BY <1>1, VictimIsKnown DEF DeleteAsserts, EvictAsserts
<1>4. CASE key \notin Stored
  BY <1>1, <1>2, <1>3, <1>4, FaultStep DEF DeleteData
<1>5. CASE key \in Stored
  <2>1. /\ DeleteKey(key) /\ pageFreqIndexer' = Forget(key)
        /\ pc' = pc /\ pages' = pages /\ pageCnt' = pageCnt
        /\ spaceIndex' = spaceIndex \ {key} /\ left' = left
    BY <1>3, <1>5 DEF DeleteData, tierVars
  <2>2. /\ QueueInv' /\ lfuIndexer' = lfuIndexer \ {key} /\ age' = age
        /\ \A k, f : IsRanked(freqQ', k, f) <=> k # key /\ IsRanked(freqQ, k, f)
    BY <1>1, <1>5, <2>1, DeleteKeyProperties
  <2>3. age' >= age
    BY <1>1, <2>2 DEF QueueInv
  <2>4. /\ IndexInv' /\ RankIsUsePlusAge' /\ Stored' = Stored \ {key}
        /\ \A k \in lfuIndexer \cap lfuIndexer' : Priority(k)' >= Priority(k)
    BY <1>5, <2>1, <2>2, <2>3, ForgetInv
  <2>5. IsFiniteSet(spaceIndex')
    BY <1>2, <2>1, FS_RemoveElement
  <2>6. spaceIndex' = Stored' \cup left' /\ Stored' \cap left' = {}
    BY <1>2, <1>5, <2>1, <2>4
  <2>7. BatchInv' /\ SpaceInv'
    BY <1>1, <1>2, <2>1, <2>5, <2>6, RestInv
  <2>8. RankingStep
    BY <1>1, <1>5, <2>1, DeleteKeyRefined
  <2> QED BY <2>2, <2>4, <2>7, <2>8 DEF TierInv, StepOK
<1> QED BY <1>4, <1>5

\* StartTierDown asks for what lies above the water level and a batch more.
LEMMA StartTierDownStep ==
    ASSUME TierInv, StartTierDown, UNCHANGED lower
    PROVE  StepOK
<1>1. /\ pc = "written" /\ pc' = "tierdown" /\ Cardinality(spaceIndex) >= tierDownWL
      /\ pageCnt' = Cardinality(spaceIndex) - tierDownWL + tierDownCnt
      /\ UNCHANGED <<lfuVars, pageFreqIndexer, pages>>
      /\ spaceIndex' = spaceIndex /\ left' = left
  BY DEF StartTierDown, PageCnt, layerVars
<1>2. /\ QueueInv' /\ IndexInv' /\ RankIsUsePlusAge' /\ Stored' = Stored
  BY <1>1, UnchangedInv
<1>3. /\ pages = <<>> /\ spaceIndex = Stored \cup left /\ Stored \cap left = {}
      /\ IsFiniteSet(spaceIndex) /\ left \subseteq Key
  BY <1>1, NoBatch
<1>4. pages' = <<>> /\ DOMAIN pages' = {}
  BY <1>1, <1>3
<1>5. Cardinality(spaceIndex) \in Nat
  BY <1>3, FS_CardinalityType
<1>6. pageCnt' \in Nat /\ Cardinality(spaceIndex) = pageCnt' + (tierDownWL - tierDownCnt)
  BY <1>1, <1>5, TierDownAssumption
<1>7. BatchInv'
  BY <1>1, <1>4, <1>6 DEF BatchInv
<1>8. SpaceInv'
  <2>1. InTransit' = {} /\ Batch' = {}
    BY <1>4 DEF InTransit, Batch, Lbas
  <2> QED BY <1>1, <1>2, <1>3, <1>6, <2>1 DEF SpaceInv
<1> QED BY <1>1, <1>2, <1>7, <1>8, RanksStay DEF TierInv, StepOK

\* With a page in the queue, EvictPage moves its victim to the batch.
LEMMA VictimStep ==
    ASSUME TierInv, EvictPage, UNCHANGED lower, Stored # {}
    PROVE  StepOK
<1>1. /\ pc = "tierdown" /\ pageCnt \in Nat /\ pageCnt > 0 /\ QueueInv /\ IndexInv
      /\ lfuIndexer = Stored
      /\ Cardinality(Stored \cup left) = pageCnt + (tierDownWL - tierDownCnt)
  BY DEF EvictPage, TierInv, BatchInv, SpaceInv, IndexInv
<1> DEFINE v == Victim
<1>2. EvictAsserts /\ v \in Stored
  BY <1>1, VictimIsKnown
<1>3. /\ Evict
      /\ pages' = Append(pages, [lba |-> v, freq |-> pageFreqIndexer[v]])
      /\ pageFreqIndexer' = Forget(v)
      /\ pageCnt' = pageCnt - 1 /\ pc' = pc
      /\ spaceIndex' = spaceIndex /\ left' = left
  BY <1>1, <1>2 DEF EvictPage, layerVars
<1>4. /\ QueueInv' /\ lfuIndexer' = lfuIndexer \ {v} /\ age' >= age
      /\ \A k, f : IsRanked(freqQ', k, f) <=> k # v /\ IsRanked(freqQ, k, f)
  BY <1>1, <1>3, EvictProperties
<1> HIDE DEF v
<1>5. /\ IndexInv' /\ RankIsUsePlusAge'
      /\ \A k \in lfuIndexer \cap lfuIndexer' : Priority(k)' >= Priority(k)
      /\ Stored' = Stored \ {v}
  BY <1>2, <1>3, <1>4, ForgetInv
<1> DEFINE S == [lba : Key, freq : Counters]
           e == [lba |-> v, freq |-> pageFreqIndexer[v]]
<1>6. pages \in Seq(S)
  BY DEF TierInv, BatchInv
<1>7. e \in S /\ e.lba = v
  <2>1. Stored \subseteq Key
    BY <1>1, QueueInvProperties DEF LFUTypeOK
  <2> QED BY <1>1, <1>2, <2>1 DEF IndexInv
<1> HIDE DEF S, e
<1>8. /\ pages' \in Seq(S) /\ Len(pages') = Len(pages) + 1
      /\ \A i \in 1 .. Len(pages) : pages'[i] = pages[i]
      /\ pages'[Len(pages) + 1] = e
  BY <1>3, <1>6, <1>7, AppendProperties DEF e
<1>9. /\ Len(pages) \in Nat /\ DOMAIN pages = 1 .. Len(pages)
      /\ DOMAIN pages' = 1 .. Len(pages) + 1
  BY ONLY <1>6, <1>8, LenProperties
<1>10. \A i \in DOMAIN pages' : \/ i \in DOMAIN pages /\ pages'[i] = pages[i]
                                \/ i = Len(pages) + 1 /\ pages'[i] = e
  BY ONLY <1>8, <1>9
<1>11. Batch' = Batch \cup {v}
  <2>1. \A i \in DOMAIN pages : i \in DOMAIN pages' /\ pages'[i] = pages[i]
    BY ONLY <1>8, <1>9
  <2>2. Len(pages) + 1 \in DOMAIN pages'
    BY ONLY <1>9
  <2> QED BY ONLY <1>7, <1>8, <1>10, <2>1, <2>2 DEF Batch
<1>12. /\ IsFiniteSet(spaceIndex) /\ left \subseteq Key
       /\ spaceIndex = Stored \cup left \cup Batch
       /\ Stored \cap left = {} /\ Batch \cap (Stored \cup left) = {}
       /\ InTransit' = Batch'
  <2>1. InTransit = Batch /\ InTransit' = Batch'
    BY <1>1, <1>3 DEF Batch, InTransit, Lbas
  <2> QED BY <2>1 DEF TierInv, SpaceInv
<1>13. BatchInv'
  <2>1. /\ \A i, j \in DOMAIN pages : i # j => pages[i].lba # pages[j].lba
        /\ \A i \in DOMAIN pages : pages[i].lba # v
    BY <1>2, <1>12 DEF TierInv, BatchInv, Batch
  <2>2. \A i, j \in DOMAIN pages' : i # j => pages'[i].lba # pages'[j].lba
    BY ONLY <1>7, <1>10, <2>1
  <2>3. pageCnt' \in Nat
    BY <1>1, <1>3
  <2> QED BY <1>1, <1>3, <1>8, <2>2, <2>3 DEF BatchInv, S
<1>14. SpaceInv'
  <2>1. /\ Stored' \cup left' = (Stored \cup left) \ {v}
        /\ spaceIndex' = Stored' \cup left' \cup InTransit'
        /\ Stored' \cap left' = {} /\ Batch' \cap (Stored' \cup left') = {}
    BY ONLY <1>2, <1>3, <1>5, <1>11, <1>12
  <2>2. IsFiniteSet(Stored \cup left)
    BY <1>12, FS_Subset
  <2>3. Cardinality(Stored' \cup left') = Cardinality(Stored \cup left) - 1
    BY <1>2, <2>1, <2>2, FS_RemoveElement
  <2>4. Cardinality(Stored' \cup left') = pageCnt' + (tierDownWL - tierDownCnt)
    BY <1>1, <1>3, <2>3, TierDownAssumption
  <2> QED BY <1>1, <1>3, <1>12, <2>1, <2>4 DEF SpaceInv
<1>15. RankingStep
  BY <1>1, <1>3, EvictRefined
<1> QED BY <1>4, <1>5, <1>13, <1>14, <1>15 DEF TierInv, StepOK

\* EvictPage finds a victim unless pages are left behind: what has still to go is there.
LEMMA EvictPageStep ==
    ASSUME TierInv, EvictPage, UNCHANGED lower
    PROVE  StepOK
<1>1. /\ pc = "tierdown" /\ pageCnt \in Nat /\ pageCnt > 0 /\ QueueInv /\ IndexInv
      /\ lfuIndexer = Stored
      /\ Cardinality(Stored \cup left) = pageCnt + (tierDownWL - tierDownCnt)
  BY DEF EvictPage, TierInv, BatchInv, SpaceInv, IndexInv
<1>2. Stored = {} => left # {}
  <2>1. Cardinality(Stored \cup left) > 0
    BY <1>1, TierDownAssumption
  <2> QED BY <2>1, FS_EmptySet
<1>3. CASE Stored = {}
  <2>1. ~(EvictAsserts /\ Victim \in Stored)
    BY <1>3
  <2> QED BY <1>1, <1>2, <1>3, <2>1, FaultStep DEF EvictPage
<1>4. CASE Stored # {}
  BY <1>1, <1>4, VictimStep
<1> QED BY <1>3, <1>4

\* The layer deletes the batch: what remains is what the tier-down aimed at.
LEMMA DeletePagesStep ==
    ASSUME TierInv, DeletePages, UNCHANGED lower
    PROVE  StepOK
<1>1. /\ pc = "tierdown" /\ pageCnt = 0 /\ pc' = "deleted"
      /\ spaceIndex' = spaceIndex \ Batch /\ left' = left
      /\ UNCHANGED <<lfuVars, pageFreqIndexer, pageCnt, pages>>
  BY DEF DeletePages, Lbas, Batch
<1>2. /\ QueueInv' /\ IndexInv' /\ RankIsUsePlusAge' /\ Stored' = Stored
  BY <1>1, UnchangedInv
<1>3. BatchInv'
  BY <1>1 DEF TierInv, BatchInv
<1>4. SpaceInv'
  <2>1. Batch' = Batch /\ InTransit' = {} /\ InTransit = Batch
    BY <1>1 DEF Batch, InTransit, Lbas
  <2>2. /\ IsFiniteSet(spaceIndex) /\ left \subseteq Key
        /\ spaceIndex = Stored \cup left \cup Batch
        /\ Stored \cap left = {} /\ Batch \cap (Stored \cup left) = {}
        /\ Cardinality(Stored \cup left) = 0 + (tierDownWL - tierDownCnt)
    BY <1>1, <2>1 DEF TierInv, SpaceInv
  <2>3. spaceIndex' = Stored \cup left
    BY ONLY <1>1, <2>2
  <2>4. Cardinality(spaceIndex') <= tierDownWL
    BY <2>2, <2>3, TierDownAssumption
  <2>5. IsFiniteSet(spaceIndex')
    BY <1>1, <2>2, FS_Subset
  <2> QED BY <1>1, <1>2, <2>1, <2>2, <2>3, <2>4, <2>5 DEF SpaceInv
<1> QED BY <1>1, <1>2, <1>3, <1>4, RanksStay DEF TierInv, StepOK

\* The layer deletes the first pages of the batch only: it leaves the others.
LEMMA CutTierDownShortStep ==
    ASSUME TierInv, CutTierDownShort, UNCHANGED lower
    PROVE  StepOK
<1>1. PICK n \in 0 .. Len(pages) - 1 :
          /\ spaceIndex' = spaceIndex \ {pages[i].lba : i \in 1 .. n}
          /\ left' = left \cup {pages[i].lba : i \in n + 1 .. Len(pages)}
  BY DEF CutTierDownShort, Lbas
<1>2. /\ pc = "tierdown" /\ pc' = "idle" /\ pages' = <<>>
      /\ UNCHANGED <<lfuVars, pageFreqIndexer, pageCnt>>
  BY DEF CutTierDownShort
<1>3. /\ QueueInv' /\ IndexInv' /\ RankIsUsePlusAge' /\ Stored' = Stored
  BY <1>2, UnchangedInv
<1> DEFINE gone == {pages[i].lba : i \in 1 .. n}
           rest == {pages[i].lba : i \in n + 1 .. Len(pages)}
<1>4. /\ pages \in Seq([lba : Key, freq : Counters])
      /\ \A i, j \in DOMAIN pages : i # j => pages[i].lba # pages[j].lba
      /\ IsFiniteSet(spaceIndex) /\ left \subseteq Key
      /\ spaceIndex = Stored \cup left \cup Batch
      /\ Stored \cap left = {} /\ Batch \cap (Stored \cup left) = {}
  <2>1. InTransit = Batch
    BY <1>2 DEF Batch, InTransit, Lbas
  <2> QED BY <2>1 DEF TierInv, BatchInv, SpaceInv
<1>5. /\ Len(pages) \in Nat /\ DOMAIN pages = 1 .. Len(pages)
      /\ \A i \in 1 .. Len(pages) : pages[i].lba \in Key
  BY <1>4, BatchTypes
<1>6. /\ Batch = gone \cup rest /\ gone \cap rest = {} /\ rest \subseteq Key
  <2>1. \A i \in 1 .. Len(pages) : i \in 1 .. n \/ i \in n + 1 .. Len(pages)
    BY ONLY <1>5
  <2>2. \A i \in 1 .. n, j \in n + 1 .. Len(pages) :
           i # j /\ i \in DOMAIN pages /\ j \in DOMAIN pages
    BY ONLY <1>5
  <2>3. \A i \in 1 .. n : i \in DOMAIN pages
    BY ONLY <1>5
  <2>4. \A j \in n + 1 .. Len(pages) : j \in DOMAIN pages
    BY ONLY <1>5
  <2>5. Batch = gone \cup rest
    BY ONLY <1>5, <2>1, <2>3, <2>4 DEF Batch
  <2>6. gone \cap rest = {}
    BY ONLY <1>4, <2>2
  <2>7. rest \subseteq Key
    BY ONLY <1>5, <2>4
  <2> QED BY <2>5, <2>6, <2>7
<1>7. spaceIndex' = spaceIndex \ gone /\ left' = left \cup rest
  BY <1>1
<1> HIDE DEF gone, rest
<1>8. /\ spaceIndex' = Stored' \cup left' /\ Stored' \cap left' = {} /\ left' \subseteq Key
  BY ONLY <1>3, <1>4, <1>6, <1>7
<1>9. IsFiniteSet(spaceIndex')
  BY <1>4, <1>7, FS_Subset
<1>10. BatchInv' /\ SpaceInv'
  BY <1>2, <1>8, <1>9, RestInv
<1> QED BY <1>2, <1>3, <1>10, RanksStay DEF TierInv, StepOK

\* The two steps that change nothing but where the tier stands.
LEMMA EndStep ==
    ASSUME TierInv, EndWrite \/ EndTierDown, UNCHANGED lower
    PROVE  StepOK
<1>1. /\ pc' = "idle" /\ UNCHANGED <<lfuVars, pageFreqIndexer, pageCnt>>
      /\ spaceIndex' = spaceIndex /\ left' = left
  BY DEF EndWrite, EndTierDown, layerVars
<1>2. /\ QueueInv' /\ IndexInv' /\ RankIsUsePlusAge' /\ Stored' = Stored
  BY <1>1, UnchangedInv
<1>3. pages' = <<>>
  BY NoBatch DEF EndWrite, EndTierDown
<1>4. InTransit = {}
  BY NoBatch DEF EndWrite, EndTierDown, InTransit
<1>5. /\ spaceIndex = Stored \cup left /\ Stored \cap left = {}
      /\ IsFiniteSet(spaceIndex) /\ left \subseteq Key
  BY <1>4 DEF TierInv, SpaceInv
<1>6. BatchInv' /\ SpaceInv'
  BY <1>1, <1>2, <1>3, <1>5, RestInv
<1> QED BY <1>1, <1>2, <1>6, RanksStay DEF TierInv, StepOK

\* Every step of the tier, and a stuttering one.
LEMMA NextStep == TierInv /\ [Next]_vars => StepOK
<1> SUFFICES ASSUME TierInv, [Next]_vars PROVE StepOK
  OBVIOUS
<1>1. CASE UNCHANGED vars
  <2>1. UNCHANGED <<lower, lfuVars, pageFreqIndexer>> /\ UNCHANGED <<tierVars, layerVars>>
    BY <1>1 DEF vars
  <2>2. QueueInv' /\ IndexInv' /\ RankIsUsePlusAge' /\ Stored' = Stored
    BY <2>1, UnchangedInv
  <2>3. BatchInv'
    BY <2>1 DEF TierInv, BatchInv, tierVars
  <2>4. SpaceInv'
    <3>1. Batch' = Batch /\ InTransit' = InTransit
      BY <2>1 DEF tierVars, Batch, InTransit, Lbas
    <3> QED BY <2>1, <2>2, <3>1 DEF TierInv, SpaceInv, tierVars, layerVars
  <2> QED BY <2>1, <2>2, <2>3, <2>4, RanksStay DEF TierInv, StepOK
<1>2. ASSUME NEW key \in Key, WriteIO(key), UNCHANGED lower PROVE StepOK
  BY <1>2, WriteIOStep
<1>3. ASSUME NEW key \in Key, ReadHostIO(key), UNCHANGED lower PROVE StepOK
  BY <1>3, ReadHostIOStep
<1>4. ASSUME NEW key \in Key, DeleteData(key), UNCHANGED lower PROVE StepOK
  BY <1>4, DeleteDataStep
<1>5. ASSUME NEW key \in Key, NEW f \in PageFreq, WriteTierDownIO(key, f), UNCHANGED lower
      PROVE  StepOK
  BY <1>5, WriteTierDownIOStep
<1>6. ASSUME StartTierDown, UNCHANGED lower PROVE StepOK
  BY <1>6, StartTierDownStep
<1>7. ASSUME EvictPage, UNCHANGED lower PROVE StepOK
  BY <1>7, EvictPageStep
<1>8. ASSUME DeletePages, UNCHANGED lower PROVE StepOK
  BY <1>8, DeletePagesStep
<1>9. ASSUME CutTierDownShort, UNCHANGED lower PROVE StepOK
  BY <1>9, CutTierDownShortStep
<1>10. ASSUME EndWrite \/ EndTierDown, UNCHANGED lower PROVE StepOK
  BY <1>10, EndStep
<1> QED BY <1>1, <1>2, <1>3, <1>4, <1>5, <1>6, <1>7, <1>8, <1>9, <1>10 DEF Next

\* The invariant holds of every behaviour.
LEMMA TierInvHolds == Spec => []TierInv
<1>1. TierInv /\ [Next]_vars => TierInv'
  BY NextStep DEF StepOK
<1> QED BY InitTierInv, <1>1, PTL DEF Spec

-----------------------------------------------------------------------------

\* The tier and its queue keep to their types: in particular no priority, age or
\* count that tier_module.c and lfu.c compute is ever negative.
THEOREM TypeCorrect == Spec => []TypeOK
<1>1. TierInv => TypeOK
  BY TierInvIsStronger
<1> QED BY TierInvHolds, <1>1, PTL

\* lfu.c's list stays in ascending order without an empty node and never below the
\* age, however reads, writes, deletes and tier-downs follow each other.
THEOREM QueueIsSortedHolds == Spec => []QueueIsSorted
<1>1. TierInv => QueueIsSorted
  BY TierInvIsStronger
<1> QED BY TierInvHolds, <1>1, PTL

\* The queue's list, the queue's index and the tier's frequency index hold the same
\* pages, each once in the list, and the layer's space index these and the pages of a
\* tier-down that are not deleted yet or were left behind by one that was cut short.
THEOREM IndexesAgreeHolds == Spec => []IndexesAgree
<1>1. TierInv => IndexesAgree
  BY TierInvIsStronger
<1> QED BY TierInvHolds, <1>1, PTL

\* UpdateLFU ranks each page by its use, and the ageing adds at most the queue's age.
THEOREM RankIsUsePlusAgeHolds == Spec => []RankIsUsePlusAge
<1>1. TierInv => RankIsUsePlusAge
  BY TierInvIsStronger
<1> QED BY TierInvHolds, <1>1, PTL

\* HandleTierDown and DeleteData: while no page is left behind by a tier-down that was
\* cut short, no assert of lfu.c fails; and every tier-down that deletes its whole batch
\* brings the layer to its water level or below, whatever others left behind.
THEOREM TierDownMakesRoomHolds == Spec => []TierDownMakesRoom
<1>1. TierInv => TierDownMakesRoom
  BY TierInvIsStronger
<1> QED BY TierInvHolds, <1>1, PTL

\* No step lowers the rank of a page that stays, whatever its counters: so LFU's
\* search, which looks only ahead of a known key's node, finds the right place.
THEOREM RankNeverFallsHolds == Spec => RankNeverFalls
<1>1. TierInv /\ [Next]_vars
        => [\A key \in lfuIndexer \cap lfuIndexer' : Priority(key)' >= Priority(key)]_vars
  BY NextStep DEF StepOK
<1> QED BY TierInvHolds, <1>1, PTL DEF Spec, RankNeverFalls

\* The list of nodes of lfu.c, with its search from the old node, its joins and its
\* evictions, implements EvictionOrder: victims come by ascending priority and, among
\* equals, in the order in which they reached it.
THEOREM EvictionOrderImplemented == Spec => ImplementsEvictionOrder
<1>1. Init => Ranking!Init
  BY DEF Init, InitLFU, Ranking!Init, Priorities, Order
<1>2. TierInv /\ [Next]_vars => RankingStep
  BY NextStep DEF StepOK
<1> QED
  BY <1>1, <1>2, TierInvHolds, PTL
     DEF Spec, ImplementsEvictionOrder, Ranking!Spec, RankingStep
=============================================================================
