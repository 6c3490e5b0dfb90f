------------------------ MODULE GuardedIntake_proofs ------------------------
(***************************************************************************)
(* Proofs about GuardedIntake, for any targets, deliveries, guards, windows, *)
(* limits, faults and crashes.                                               *)
(***************************************************************************)
EXTENDS GuardedIntake, FiniteSetTheorems, SequenceTheorems, TLAPS

-----------------------------------------------------------------------------
(* Sorted slices *)

Slice(s) == s \in Seq(Nat) /\ Ascending(s)

LEMMA Least ==
    ASSUME NEW S \in SUBSET Nat, S # {}
    PROVE  \E x \in S : \A y \in S : x <= y
  <1> DEFINE Less == {ss \in Nat \X Nat : ss[1] < ss[2]}
  <1>1. IsWellFoundedOn(Less, Nat)
    BY NatLessThanWellFounded, Zenon DEF OpToRel
  <1>2. PICK x \in S : \A y \in S : <<y, x>> \notin Less
    BY <1>1, WFMin, Zenon
  <1>3. ASSUME NEW y \in S PROVE ~(y < x)
    <2>1. <<y, x>>[1] = y /\ <<y, x>>[2] = x /\ <<y, x>> \in Nat \X Nat
      OBVIOUS
    <2> QED BY <1>2, <2>1
  <1> QED BY <1>3

\* A sorted slice is divided by any moment.
LEMMA OlderDivides ==
    ASSUME NEW s, Slice(s), NEW t \in Int
    PROVE  /\ Older(s, t) \in 0 .. Len(s)
           /\ \A k \in 1 .. Older(s, t) : s[k] < t
           /\ \A k \in Older(s, t) + 1 .. Len(s) : s[k] >= t
  <1> DEFINE From == {n \in 0 .. Len(s) : \A k \in n + 1 .. Len(s) : s[k] >= t}
  <1>1. Len(s) \in Nat /\ DOMAIN s = 1 .. Len(s) /\ \A k \in 1 .. Len(s) : s[k] \in Nat
    BY DEF Slice
  <1>2. Len(s) \in From /\ From \in SUBSET Nat
    BY <1>1
  <1>3. PICK n \in From : \A m \in From : n <= m
    BY <1>2, Least
  <1>4. \A k \in 1 .. n : s[k] < t
    <2> SUFFICES ASSUME n > 0 PROVE \A k \in 1 .. n : s[k] < t
      BY <1>1, <1>3
    <2>1. s[n] < t
      <3> SUFFICES ASSUME s[n] >= t PROVE FALSE
        BY <1>1, <1>3
      <3>1. n - 1 \in From
        BY <1>1, <1>3
      <3>2. n <= n - 1
        BY <1>3, <3>1, Zenon
      <3>3. n \in Nat
        BY <1>3
      <3> QED BY <3>2, <3>3
    <2>2. n \in 1 .. Len(s)
      BY <1>1, <1>3
    <2>3. \A k \in 1 .. n : s[k] <= s[n]
      BY <1>1, <2>2 DEF Slice, Ascending
    <2> QED BY <1>1, <2>1, <2>2, <2>3
  <1>5. \E m \in 0 .. Len(s) : /\ \A k \in 1 .. m : s[k] < t
                               /\ \A k \in m + 1 .. Len(s) : s[k] >= t
    BY <1>3, <1>4
  <1> QED BY <1>5, Zenon DEF Older

\* What Insert does: one place, before which nothing is newer and after which
\* nothing is older.
Shifted(s, t, p) ==
    [k \in 1 .. Len(s) + 1 |-> IF k <= p THEN s[k] ELSE IF k = p + 1 THEN t ELSE s[k - 1]]

LEMMA InsertPlace ==
    ASSUME NEW s, Slice(s), NEW t \in Nat
    PROVE  \E p \in 0 .. Len(s) : /\ Insert(s, t) = Shifted(s, t, p)
                                  /\ \A k \in 1 .. p : s[k] <= t
                                  /\ \A k \in p + 1 .. Len(s) : s[k] >= t
  <1>1. Len(s) \in Nat /\ DOMAIN s = 1 .. Len(s) /\ \A k \in 1 .. Len(s) : s[k] \in Nat
    BY DEF Slice
  <1>2. CASE s # <<>> /\ t < Last(s)
    <2> DEFINE p == Older(s, t)
    <2>1. /\ p \in 0 .. Len(s) /\ \A k \in 1 .. p : s[k] < t
          /\ \A k \in p + 1 .. Len(s) : s[k] >= t
      BY OlderDivides
    <2>2. Insert(s, t) = Shifted(s, t, p)
      BY <1>2 DEF Insert, Shifted
    <2> HIDE DEF p
    <2>3. \A k \in 1 .. p : s[k] <= t
      BY <1>1, <2>1
    <2> QED BY <2>1, <2>2, <2>3
  <1>3. CASE ~(s # <<>> /\ t < Last(s))
    <2>1. Insert(s, t) = Shifted(s, t, Len(s))
      BY <1>3 DEF Insert, Shifted
    <2>2. \A k \in 1 .. Len(s) : s[k] <= t
      <3> SUFFICES ASSUME NEW k \in 1 .. Len(s) PROVE s[k] <= t
        OBVIOUS
      <3>1. s # <<>> /\ Last(s) <= t /\ Last(s) = s[Len(s)]
        BY <1>1, <1>3 DEF Slice, Last
      <3>2. s[k] <= s[Len(s)]
        BY <1>1 DEF Slice, Ascending
      <3> QED BY <1>1, <3>1, <3>2
    <2> QED BY <1>1, <2>1, <2>2
  <1> QED BY <1>2, <1>3

LEMMA InsertSorts ==
    ASSUME NEW s, Slice(s), NEW t \in Nat
    PROVE  Slice(Insert(s, t)) /\ Len(Insert(s, t)) = Len(s) + 1
  <1>1. Len(s) \in Nat /\ DOMAIN s = 1 .. Len(s) /\ \A k \in 1 .. Len(s) : s[k] \in Nat
    BY DEF Slice
  <1>2. PICK p \in 0 .. Len(s) : /\ Insert(s, t) = Shifted(s, t, p)
                                 /\ \A k \in 1 .. p : s[k] <= t
                                 /\ \A k \in p + 1 .. Len(s) : s[k] >= t
    BY InsertPlace
  <1> DEFINE q == Shifted(s, t, p)
  <1>3. \A k \in 1 .. Len(s) + 1 : q[k] \in Nat
    BY <1>1, <1>2 DEF Shifted
  <1>4. DOMAIN q = 1 .. Len(s) + 1
    BY DEF Shifted
  <1>5. q \in Seq(Nat) /\ Len(q) = Len(s) + 1
    <2>1. q \in [1 .. Len(s) + 1 -> Nat]
      BY <1>3 DEF Shifted
    <2> HIDE DEF q
    <2> QED BY <1>1, <2>1
  <1>6. Ascending(q)
    <2> SUFFICES ASSUME NEW j \in 1 .. Len(s) + 1, NEW k \in 1 .. Len(s) + 1, j < k
                 PROVE  q[j] <= q[k]
      BY <1>4 DEF Ascending
    <2>1. \A a, b \in 1 .. Len(s) : a < b => s[a] <= s[b]
      BY <1>1 DEF Slice, Ascending
    <2>2. q[j] = (IF j <= p THEN s[j] ELSE IF j = p + 1 THEN t ELSE s[j - 1])
      BY DEF Shifted
    <2>3. q[k] = (IF k <= p THEN s[k] ELSE IF k = p + 1 THEN t ELSE s[k - 1])
      BY DEF Shifted
    <2> HIDE DEF q
    <2>4. CASE k <= p
      BY <1>1, <1>2, <2>1, <2>2, <2>3, <2>4
    <2>5. CASE k = p + 1
      BY <1>1, <1>2, <2>1, <2>2, <2>3, <2>5
    <2>6. CASE k > p + 1 /\ j <= p
      <3>1. s[j] <= t /\ t <= s[k - 1] /\ s[j] \in Nat /\ s[k - 1] \in Nat
        BY <1>1, <1>2, <2>6
      <3> QED BY <2>2, <2>3, <2>6, <3>1
    <2>7. CASE k > p + 1 /\ j = p + 1
      BY <1>1, <1>2, <2>2, <2>3, <2>7
    <2>8. CASE k > p + 1 /\ j > p + 1
      BY <1>1, <1>2, <2>1, <2>2, <2>3, <2>8
    <2> QED BY <1>2, <2>4, <2>5, <2>6, <2>7, <2>8
  <1> QED BY <1>2, <1>5, <1>6 DEF Slice

\* The bisection finds the division: on every interval it returns the division
\* of the whole slice, moved to the nearest end when it lies outside.
LEMMA SearchIsOlder ==
    ASSUME NEW s, Slice(s), NEW since \in Int
    PROVE  SearchSince(s, since) = Older(s, since)
  <1> DEFINE D == (0 .. Len(s)) \X (0 .. Len(s))
             Mid(w) == (w[1] + w[2]) \div 2
             Body(f) == [w \in D |->
                           IF w[1] >= w[2] THEN w[1]
                           ELSE IF s[Mid(w) + 1] >= since THEN f[<<w[1], Mid(w)>>]
                                                         ELSE f[<<Mid(w) + 1, w[2]>>]]
             find == CHOOSE f : f = Body(f)
             p == Older(s, since)
             Clamp(w) == IF w[1] >= w[2] \/ p <= w[1] THEN w[1]
                         ELSE IF p >= w[2] THEN w[2] ELSE p
  <1>1. SearchSince(s, since) = find[<<0, Len(s)>>]
    BY DEF SearchSince
  <1>2. Len(s) \in Nat /\ \A k \in 1 .. Len(s) : s[k] \in Nat
    BY DEF Slice
  <1>3. /\ p \in 0 .. Len(s)
        /\ \A k \in 1 .. p : s[k] < since
        /\ \A k \in p + 1 .. Len(s) : s[k] >= since
    BY OlderDivides
  <1> HIDE DEF p
  <1>4. ASSUME NEW w \in D, ~(w[1] >= w[2])
        PROVE  /\ w[1] \in 0 .. Len(s) /\ w[2] \in 0 .. Len(s)
               /\ Mid(w) \in w[1] .. w[2] - 1
               /\ <<w[1], Mid(w)>> \in D /\ <<Mid(w) + 1, w[2]>> \in D
               /\ s[Mid(w) + 1] >= since <=> p <= Mid(w)
    <2>1. w[1] \in 0 .. Len(s) /\ w[2] \in 0 .. Len(s)
      OBVIOUS
    <2>2. Mid(w) \in w[1] .. w[2] - 1
      BY <1>2, <1>4, <2>1
    <2>3. s[Mid(w) + 1] >= since <=> p <= Mid(w)
      <3> DEFINE m == Mid(w)
      <3>1. m \in Nat /\ m + 1 \in 1 .. Len(s) /\ s[m + 1] \in Nat
        BY <1>2, <2>1, <2>2
      <3> SUFFICES s[m + 1] >= since <=> p <= m
        OBVIOUS
      <3> HIDE DEF m
      <3>2. CASE p <= m
        BY <1>2, <1>3, <3>1, <3>2
      <3>3. CASE m < p
        <4>1. m + 1 \in 1 .. p
          BY <1>3, <3>1, <3>3
        <4>2. s[m + 1] < since
          BY <1>3, <4>1
        <4> QED BY <1>3, <3>1, <3>3, <4>2
      <3> QED BY <1>3, <3>1, <3>2, <3>3
    <2> QED BY <1>2, <2>1, <2>2, <2>3
  <1>5. find = Body(find)
    <2> DEFINE g == [w \in D |-> Clamp(w)]
    <2>1. ASSUME NEW w \in D
          PROVE  g[w] = Body(g)[w]
      <3>1. CASE w[1] >= w[2]
        BY <3>1
      <3>2. CASE ~(w[1] >= w[2]) /\ p <= Mid(w)
        <4> DEFINE v == <<w[1], Mid(w)>>
        <4>1. Body(g)[w] = g[v]
          BY <1>4, <3>2
        <4>2. g[v] = Clamp(v) /\ v[1] = w[1] /\ v[2] = Mid(w)
          BY <1>4, <3>2
        <4> QED BY <1>3, <1>4, <3>2, <4>1, <4>2
      <3>3. CASE ~(w[1] >= w[2]) /\ ~(p <= Mid(w))
        <4> DEFINE v == <<Mid(w) + 1, w[2]>>
        <4>1. Body(g)[w] = g[v]
          BY <1>4, <3>3
        <4>2. g[v] = Clamp(v) /\ v[1] = Mid(w) + 1 /\ v[2] = w[2]
          BY <1>4, <3>3
        <4> QED BY <1>3, <1>4, <3>3, <4>1, <4>2
      <3> QED BY <3>1, <3>2, <3>3
    <2>2. g = Body(g)
      BY <2>1
    <2> HIDE DEF g, Body
    <2> QED BY <2>2, Zenon
  <1> HIDE DEF find
  <1>6. ASSUME NEW w \in D, ~(w[1] >= w[2])
        PROVE  /\ p <= Mid(w) => Clamp(<<w[1], Mid(w)>>) = Clamp(w)
               /\ ~(p <= Mid(w)) => Clamp(<<Mid(w) + 1, w[2]>>) = Clamp(w)
    <2> DEFINE a == w[1]
               b == w[2]
               m == Mid(w)
    <2>1. a \in Nat /\ b \in Nat /\ m \in a .. b - 1 /\ p \in Nat
      BY <1>2, <1>3, <1>4, <1>6
    <2> SUFFICES /\ p <= m => Clamp(<<a, m>>) = Clamp(w)
                 /\ ~(p <= m) => Clamp(<<m + 1, b>>) = Clamp(w)
      OBVIOUS
    <2> HIDE DEF m
    <2> QED BY <1>6, <2>1
  <1>7. ASSUME NEW w \in D
        PROVE  find[w] = IF w[1] >= w[2] THEN w[1]
                         ELSE IF p <= Mid(w) THEN find[<<w[1], Mid(w)>>]
                                             ELSE find[<<Mid(w) + 1, w[2]>>]
    BY <1>4, <1>5
  <1>8. \A w \in D : find[w] = Clamp(w)
    <2> DEFINE Bad == {n \in Nat : \E w \in D : n = w[2] - w[1] /\ find[w] # Clamp(w)}
    <2>1. \A w \in D : w[1] >= w[2] => find[w] = Clamp(w)
      BY <1>7
    <2> SUFFICES ASSUME Bad # {} PROVE FALSE
      <3>1. ASSUME NEW w \in D, find[w] # Clamp(w) PROVE w[2] - w[1] \in Bad
        BY <1>2, <2>1, <3>1
      <3> QED BY <3>1
    <2>2. Bad \in SUBSET Nat
      OBVIOUS
    <2>3. PICK n \in Bad : \A m \in Bad : n <= m
      BY <2>2, Least
    <2>4. PICK w \in D : n = w[2] - w[1] /\ find[w] # Clamp(w)
      BY <2>3
    <2>5. ~(w[1] >= w[2])
      BY <2>1, <2>4
    <2>6. ASSUME NEW v \in D, v[2] - v[1] \in 0 .. n - 1 PROVE find[v] = Clamp(v)
      <3> SUFFICES ASSUME find[v] # Clamp(v) PROVE FALSE
        OBVIOUS
      <3>1. v[2] - v[1] \in Bad
        BY <2>6
      <3>2. n <= v[2] - v[1]
        BY <2>3, <3>1
      <3> QED BY <2>2, <2>3, <2>6, <3>2
    <2>7. CASE p <= Mid(w)
      <3> DEFINE v == <<w[1], Mid(w)>>
      <3>1. v \in D /\ v[1] = w[1] /\ v[2] = Mid(w) /\ v[2] - v[1] \in 0 .. n - 1
        BY <1>2, <1>4, <2>4, <2>5
      <3>2. find[w] = find[v]
        BY <1>7, <2>5, <2>7
      <3>3. find[v] = Clamp(v)
        BY <2>6, <3>1
      <3>4. Clamp(v) = Clamp(w)
        BY <1>6, <2>5, <2>7, Zenon
      <3> QED BY <2>4, <3>2, <3>3, <3>4
    <2>8. CASE ~(p <= Mid(w))
      <3> DEFINE v == <<Mid(w) + 1, w[2]>>
      <3>1. v \in D /\ v[1] = Mid(w) + 1 /\ v[2] = w[2] /\ v[2] - v[1] \in 0 .. n - 1
        BY <1>2, <1>4, <2>4, <2>5
      <3>2. find[w] = find[v]
        BY <1>7, <2>5, <2>8
      <3>3. find[v] = Clamp(v)
        BY <2>6, <3>1
      <3>4. Clamp(v) = Clamp(w)
        BY <1>6, <2>5, <2>8, Zenon
      <3> QED BY <2>4, <3>2, <3>3, <3>4
    <2> QED BY <2>7, <2>8
  <1>9. find[<<0, Len(s)>>] = p
    BY <1>2, <1>3, <1>8
  <1> QED BY <1>1, <1>9 DEF p

\* What the guards count is the number of entries inside the window.
LEMMA CountIsExact ==
    ASSUME NEW s, Slice(s), NEW since \in Int
    PROVE  /\ IsFiniteSet({k \in DOMAIN s : s[k] >= since})
           /\ CountSince(s, since) = Cardinality({k \in DOMAIN s : s[k] >= since})
  <1> DEFINE p == Older(s, since)
  <1>1. Len(s) \in Nat /\ DOMAIN s = 1 .. Len(s) /\ \A k \in 1 .. Len(s) : s[k] \in Nat
    BY DEF Slice
  <1>2. /\ p \in 0 .. Len(s)
        /\ \A k \in 1 .. p : s[k] < since
        /\ \A k \in p + 1 .. Len(s) : s[k] >= since
    BY OlderDivides
  <1>3. CountSince(s, since) = Len(s) - p
    BY SearchIsOlder DEF CountSince
  <1> HIDE DEF p
  <1>4. \A k \in 1 .. Len(s) : k \in p + 1 .. Len(s) <=> s[k] >= since
    BY <1>1, <1>2
  <1>5. {k \in DOMAIN s : s[k] >= since} = p + 1 .. Len(s)
    BY <1>1, <1>2, <1>4
  <1>6. IsFiniteSet(p + 1 .. Len(s)) /\ Cardinality(p + 1 .. Len(s)) = Len(s) - p
    <2>1. p + 1 \in Int /\ Len(s) \in Int /\ p <= Len(s) /\ p \in Nat
      BY <1>1, <1>2
    <2>2. /\ IsFiniteSet(p + 1 .. Len(s))
          /\ Cardinality(p + 1 .. Len(s)) =
               IF p + 1 > Len(s) THEN 0 ELSE Len(s) - (p + 1) + 1
      BY <2>1, FS_Interval
    <2> QED BY <2>1, <2>2
  <1> QED BY <1>3, <1>5, <1>6

\* Expiry drops the entries before the retention and keeps the others.
LEMMA PrunedIsSuffix ==
    ASSUME NEW s, Slice(s), clock \in Nat
    PROVE  /\ Slice(Pruned(s))
           /\ \E p \in 0 .. Len(s) :
                /\ Len(Pruned(s)) = Len(s) - p
                /\ \A k \in 1 .. Len(s) - p : Pruned(s)[k] = s[k + p]
                /\ \A k \in 1 .. p : s[k] < clock - Retention
  <1> DEFINE since == clock - Retention
             p == Older(s, since)
  <1>1. Len(s) \in Nat /\ DOMAIN s = 1 .. Len(s) /\ \A k \in 1 .. Len(s) : s[k] \in Nat
    BY DEF Slice
  <1>2. since \in Int
    BY IntakeAssumption
  <1>3. p \in 0 .. Len(s) /\ \A k \in 1 .. p : s[k] < since
    BY <1>2, OlderDivides
  <1>4. Pruned(s) = SubSeq(s, p + 1, Len(s))
    BY <1>2, SearchIsOlder DEF Pruned
  <1> HIDE DEF p
  <1>5. /\ Pruned(s) \in Seq(Nat) /\ Len(Pruned(s)) = Len(s) - p
        /\ \A k \in 1 .. Len(s) - p : Pruned(s)[k] = s[k + p]
    <2> HIDE DEF since
    <2> DEFINE q == SubSeq(s, p + 1, Len(s))
    <2>2. /\ q \in Seq(Nat) /\ Len(q) = (IF p + 1 <= Len(s) THEN Len(s) - (p + 1) + 1 ELSE 0)
          /\ \A k \in 1 .. Len(s) - (p + 1) + 1 : q[k] = s[p + 1 + k - 1]
      <3>1. p + 1 \in Int /\ Len(s) \in Int /\ \A k \in p + 1 .. Len(s) : s[k] \in Nat
        BY <1>1, <1>3
      <3> QED BY <3>1, SubSeqProperties
    <2> HIDE DEF q
    <2>3. Len(q) = Len(s) - p
      <3>1. p \in Nat /\ p <= Len(s) /\ Len(s) \in Nat
        BY <1>1, <1>3
      <3>2. Len(q) = IF p + 1 <= Len(s) THEN Len(s) - (p + 1) + 1 ELSE 0
        BY <2>2
      <3>3. CASE p + 1 <= Len(s)
        BY <3>1, <3>2, <3>3
      <3>4. CASE ~(p + 1 <= Len(s))
        <4>1. p = Len(s)
          BY <3>1, <3>4
        <4> QED BY <3>2, <3>4, <4>1
      <3> QED BY <3>3, <3>4
    <2>4. \A k \in 1 .. Len(s) - p : q[k] = s[k + p]
      <3> SUFFICES ASSUME NEW k \in 1 .. Len(s) - p PROVE q[k] = s[k + p]
        OBVIOUS
      <3>1. k \in 1 .. Len(s) - (p + 1) + 1 /\ p + 1 + k - 1 = k + p
        BY <1>1, <1>3
      <3> QED BY <2>2, <3>1
    <2> QED BY <1>4, <2>2, <2>3, <2>4 DEF q
  <1>6. Ascending(Pruned(s))
    <2> SUFFICES ASSUME NEW j \in DOMAIN Pruned(s), NEW k \in DOMAIN Pruned(s), j < k
                 PROVE  Pruned(s)[j] <= Pruned(s)[k]
      BY DEF Ascending
    <2>1. j \in 1 .. Len(s) - p /\ k \in 1 .. Len(s) - p
      BY <1>5
    <2>2. j + p \in DOMAIN s /\ k + p \in DOMAIN s /\ j + p < k + p
      BY <1>1, <1>3, <2>1
    <2>3. s[j + p] <= s[k + p]
      BY <2>2 DEF Slice, Ascending
    <2> QED BY <1>5, <2>1, <2>3
  <1> QED BY <1>3, <1>5, <1>6 DEF Slice

-----------------------------------------------------------------------------
(* Each of several records has an entry of its own in a slice *)

\* A new entry moves the others and takes a place none of them has.
LEMMA PlaceInsert ==
    ASSUME NEW s, Slice(s), NEW t \in Nat, NEW S, NEW f \in Injection(S, DOMAIN s),
           NEW x, x \notin S
    PROVE  \E g \in Injection(S \cup {x}, DOMAIN Insert(s, t)) :
              /\ Insert(s, t)[g[x]] = t
              /\ \A i \in S : Insert(s, t)[g[i]] = s[f[i]]
  <1>1. Len(s) \in Nat /\ DOMAIN s = 1 .. Len(s)
    BY DEF Slice
  <1>2. f \in [S -> 1 .. Len(s)] /\ \A a, b \in S : f[a] = f[b] => a = b
    BY <1>1 DEF Injection, IsInjective
  <1>3. PICK p \in 0 .. Len(s) : Insert(s, t) = Shifted(s, t, p)
    BY InsertPlace
  <1> DEFINE q == Insert(s, t)
             g == [i \in S \cup {x} |->
                     IF i = x THEN p + 1 ELSE IF f[i] <= p THEN f[i] ELSE f[i] + 1]
  <1>4. /\ DOMAIN q = 1 .. Len(s) + 1
        /\ \A k \in 1 .. Len(s) + 1 :
             q[k] = IF k <= p THEN s[k] ELSE IF k = p + 1 THEN t ELSE s[k - 1]
    BY <1>3 DEF Shifted
  <1> HIDE DEF q
  <1>5. ASSUME NEW i \in S
        PROVE  g[i] \in 1 .. Len(s) + 1 /\ g[i] # p + 1 /\ q[g[i]] = s[f[i]]
    <2>1. f[i] \in 1 .. Len(s) /\ g[i] = IF f[i] <= p THEN f[i] ELSE f[i] + 1
      BY <1>2
    <2> QED BY <1>1, <1>3, <1>4, <2>1
  <1>6. g[x] = p + 1 /\ q[g[x]] = t /\ p + 1 \in 1 .. Len(s) + 1
    BY <1>1, <1>3, <1>4
  <1>7. g \in Injection(S \cup {x}, DOMAIN q)
    <2>1. g \in [S \cup {x} -> DOMAIN q]
      BY <1>4, <1>5, <1>6
    <2>2. ASSUME NEW a \in S \cup {x}, NEW b \in S \cup {x}, g[a] = g[b] PROVE a = b
      <3>1. CASE a = x \/ b = x
        BY <1>5, <1>6, <2>2, <3>1
      <3>2. CASE a \in S /\ b \in S
        <4>1. f[a] \in 1 .. Len(s) /\ f[b] \in 1 .. Len(s)
          BY <1>2, <3>2
        <4>2. f[a] = f[b]
          BY <1>1, <1>3, <2>2, <3>2, <4>1
        <4> QED BY <1>2, <3>2, <4>2
      <3> QED BY <3>1, <3>2
    <2> HIDE DEF g
    <2>3. DOMAIN g = S \cup {x}
      BY <2>1
    <2> QED BY <2>1, <2>2, <2>3 DEF Injection, IsInjective
  <1> HIDE DEF g
  <1> QED BY <1>5, <1>6, <1>7 DEF q

LEMMA PlaceRestrict ==
    ASSUME NEW S, NEW T, NEW f \in Injection(S, T), NEW R \in SUBSET S, NEW V, T \subseteq V
    PROVE  [i \in R |-> f[i]] \in Injection(R, V)
  BY DEF Injection, IsInjective

\* Expiry keeps the places of entries inside the retention.
LEMMA PlacePrune ==
    ASSUME NEW s, Slice(s), clock \in Nat, NEW S, NEW f \in Injection(S, DOMAIN s),
           \A i \in S : s[f[i]] >= clock - Retention
    PROVE  \E g \in Injection(S, DOMAIN Pruned(s)) :
              \A i \in S : Pruned(s)[g[i]] = s[f[i]]
  <1> DEFINE q == Pruned(s)
  <1>1. Len(s) \in Nat /\ DOMAIN s = 1 .. Len(s) /\ \A k \in 1 .. Len(s) : s[k] \in Nat
    BY DEF Slice
  <1>2. f \in [S -> 1 .. Len(s)] /\ \A a, b \in S : f[a] = f[b] => a = b
    BY <1>1 DEF Injection, IsInjective
  <1>3. Slice(q)
    BY PrunedIsSuffix
  <1>4. PICK p \in 0 .. Len(s) : /\ Len(q) = Len(s) - p
                                 /\ \A k \in 1 .. Len(s) - p : q[k] = s[k + p]
                                 /\ \A k \in 1 .. p : s[k] < clock - Retention
    BY PrunedIsSuffix
  <1> HIDE DEF q
  <1>5. DOMAIN q = 1 .. Len(s) - p
    BY <1>3, <1>4 DEF Slice
  <1>6. clock - Retention \in Int
    BY IntakeAssumption
  <1> DEFINE g == [i \in S |-> f[i] - p]
  <1>7. ASSUME NEW i \in S PROVE g[i] \in 1 .. Len(s) - p /\ q[g[i]] = s[f[i]]
    <2>1. f[i] \in 1 .. Len(s) /\ g[i] = f[i] - p /\ s[f[i]] \in Nat
      BY <1>1, <1>2
    <2>2. ~(f[i] \in 1 .. p)
      BY <1>4, <1>6, <2>1
    <2>3. g[i] \in 1 .. Len(s) - p /\ g[i] + p = f[i]
      BY <1>1, <1>4, <2>1, <2>2
    <2> QED BY <1>4, <2>3
  <1>8. g \in Injection(S, DOMAIN q)
    <2>1. g \in [S -> DOMAIN q] /\ DOMAIN g = S
      BY <1>5, <1>7
    <2>2. ASSUME NEW a \in S, NEW b \in S, g[a] = g[b] PROVE a = b
      <3>1. f[a] \in 1 .. Len(s) /\ f[b] \in 1 .. Len(s) /\ f[a] - p = f[b] - p
        BY <1>2, <2>2
      <3> QED BY <1>1, <1>2, <1>4, <3>1
    <2> HIDE DEF g
    <2> QED BY <2>1, <2>2 DEF Injection, IsInjective
  <1> HIDE DEF g
  <1> QED BY <1>7, <1>8 DEF q

\* The other way round: each entry of a slice has a source of its own, and a new
\* entry with a new source keeps it so.
LEMMA SourceInsert ==
    ASSUME NEW s, Slice(s), NEW t \in Nat, NEW C, NEW g \in Injection(DOMAIN s, C),
           NEW c, \A j \in DOMAIN s : g[j] # c, NEW D, C \subseteq D, c \in D
    PROVE  \E f \in Injection(DOMAIN Insert(s, t), D) :
              \A k \in DOMAIN Insert(s, t) :
                 \/ f[k] = c /\ Insert(s, t)[k] = t
                 \/ \E j \in DOMAIN s : f[k] = g[j] /\ Insert(s, t)[k] = s[j]
  <1>1. Len(s) \in Nat /\ DOMAIN s = 1 .. Len(s)
    BY DEF Slice
  <1>2. g \in [1 .. Len(s) -> C] /\ \A a, b \in 1 .. Len(s) : g[a] = g[b] => a = b
    BY <1>1 DEF Injection, IsInjective
  <1>3. PICK p \in 0 .. Len(s) : Insert(s, t) = Shifted(s, t, p)
    BY InsertPlace
  <1> DEFINE q == Insert(s, t)
             f == [k \in 1 .. Len(s) + 1 |->
                     IF k <= p THEN g[k] ELSE IF k = p + 1 THEN c ELSE g[k - 1]]
  <1>4. /\ DOMAIN q = 1 .. Len(s) + 1
        /\ \A k \in 1 .. Len(s) + 1 :
             q[k] = IF k <= p THEN s[k] ELSE IF k = p + 1 THEN t ELSE s[k - 1]
    BY <1>3 DEF Shifted
  <1> HIDE DEF q
  <1>5. ASSUME NEW k \in 1 .. Len(s) + 1
        PROVE  \/ k = p + 1 /\ f[k] = c /\ q[k] = t
               \/ k <= p /\ k \in 1 .. Len(s) /\ f[k] = g[k] /\ q[k] = s[k]
               \/ k > p + 1 /\ k - 1 \in 1 .. Len(s) /\ f[k] = g[k - 1] /\ q[k] = s[k - 1]
    BY <1>1, <1>3, <1>4
  <1>6. f \in Injection(DOMAIN q, D)
    <2>1. f \in [DOMAIN q -> D] /\ DOMAIN f = DOMAIN q
      <3>1. \A k \in 1 .. Len(s) + 1 : f[k] \in D
        BY <1>2, <1>5
      <3> QED BY <1>4, <3>1
    <2> HIDE DEF f
    <2>2. ASSUME NEW a \in 1 .. Len(s) + 1, NEW b \in 1 .. Len(s) + 1, f[a] = f[b]
          PROVE  a = b
      <3>1. CASE a = p + 1 \/ b = p + 1
        BY <1>1, <1>3, <1>5, <2>2, <3>1
      <3>2. CASE a # p + 1 /\ b # p + 1
        <4>1. PICK x \in 1 .. Len(s) : x = (IF a <= p THEN a ELSE a - 1) /\ f[a] = g[x]
          BY <1>1, <1>3, <1>5, <3>2
        <4>2. PICK y \in 1 .. Len(s) : y = (IF b <= p THEN b ELSE b - 1) /\ f[b] = g[y]
          BY <1>1, <1>3, <1>5, <3>2
        <4>3. x = y
          BY <1>2, <2>2, <4>1, <4>2
        <4> QED BY <1>1, <1>3, <3>2, <4>1, <4>2, <4>3
      <3> QED BY <3>1, <3>2
    <2> QED BY <1>4, <2>1, <2>2 DEF Injection, IsInjective
  <1> HIDE DEF f
  <1>7. ASSUME NEW k \in DOMAIN q
        PROVE  \/ f[k] = c /\ q[k] = t
               \/ \E j \in DOMAIN s : f[k] = g[j] /\ q[k] = s[j]
    BY <1>1, <1>4, <1>5
  <1> QED BY <1>6, <1>7 DEF q

LEMMA SourcePrune ==
    ASSUME NEW s, Slice(s), clock \in Nat, NEW C, NEW g \in Injection(DOMAIN s, C)
    PROVE  \E f \in Injection(DOMAIN Pruned(s), C) :
              \A k \in DOMAIN Pruned(s) :
                 \E j \in DOMAIN s : f[k] = g[j] /\ Pruned(s)[k] = s[j]
  <1> DEFINE q == Pruned(s)
  <1>1. Len(s) \in Nat /\ DOMAIN s = 1 .. Len(s)
    BY DEF Slice
  <1>2. g \in [1 .. Len(s) -> C] /\ \A a, b \in 1 .. Len(s) : g[a] = g[b] => a = b
    BY <1>1 DEF Injection, IsInjective
  <1>3. Slice(q)
    BY PrunedIsSuffix
  <1>4. PICK p \in 0 .. Len(s) : /\ Len(q) = Len(s) - p
                                 /\ \A k \in 1 .. Len(s) - p : q[k] = s[k + p]
    BY PrunedIsSuffix
  <1> HIDE DEF q
  <1>5. DOMAIN q = 1 .. Len(s) - p
    BY <1>3, <1>4 DEF Slice
  <1> DEFINE f == [k \in 1 .. Len(s) - p |-> g[k + p]]
  <1>6. ASSUME NEW k \in 1 .. Len(s) - p
        PROVE  k + p \in 1 .. Len(s) /\ f[k] = g[k + p] /\ q[k] = s[k + p]
    BY <1>1, <1>4
  <1>7. f \in [DOMAIN q -> C] /\ DOMAIN f = DOMAIN q
    BY <1>2, <1>5, <1>6
  <1> HIDE DEF f
  <1>8. ASSUME NEW a \in 1 .. Len(s) - p, NEW b \in 1 .. Len(s) - p, f[a] = f[b]
        PROVE  a = b
    <2>1. a + p = b + p
      BY <1>2, <1>6, <1>8
    <2> QED BY <1>1, <1>4, <2>1
  <1>9. f \in Injection(DOMAIN q, C)
    BY <1>5, <1>7, <1>8 DEF Injection, IsInjective
  <1>10. ASSUME NEW k \in DOMAIN q
         PROVE  \E j \in DOMAIN s : f[k] = g[j] /\ q[k] = s[j]
    BY <1>1, <1>5, <1>6
  <1> QED BY <1>9, <1>10 DEF q

-----------------------------------------------------------------------------
(* Types, and how records change *)

\* A delivery that is about to create knows what the record is about.
Aimed == \A h \in Handlers : handler[h].at # "idle" => handler[h].target \in AlertTargets

Typed == TypeOK /\ Aimed /\ clock > 0 /\ Len(records) <= MaxRecords

Steady(i) ==
    /\ records'[i].target = records[i].target
    /\ records'[i].created = records[i].created
    /\ records'[i].gaveUp = records[i].gaveUp

\* Times are set once, to the current one, and a record whose completion is set
\* is in the hands of the pass that set it.
Evolves ==
    /\ records' \in Seq(Record) /\ Len(records') <= MaxRecords
    /\ Ids \subseteq Ids'
    /\ \A i \in Ids :
         /\ Steady(i)
         /\ \/ records'[i].started = records[i].started
            \/ records[i].started = 0 /\ records'[i].started = clock
         /\ \/ records'[i].completed = records[i].completed
            \/ records[i].completed = 0 /\ records'[i].completed = clock /\ i \in finishing'
    /\ \A i \in Ids' \ Ids :
         /\ records'[i].created = clock /\ records'[i].started = 0
         /\ records'[i].completed = 0 /\ ~records'[i].deleted
    /\ clock' = clock \/ (clock' = clock + 1 /\ records' = records)

LEMMA EvolvesWithout ==
    ASSUME Typed, NEW gone, records' = Without(gone), clock' = clock
    PROVE  /\ Evolves /\ Ids' = Ids
           /\ \A i \in Ids : /\ Steady(i)
                             /\ records'[i].started = records[i].started
                             /\ records'[i].completed = records[i].completed
                             /\ i \notin gone => records'[i] = records[i]
  <1>1. Len(records) \in Nat /\ Ids = 1 .. Len(records) /\ \A i \in Ids : records[i] \in Record
    BY DEF Typed, TypeOK, Ids
  <1>2. DOMAIN records' = Ids
    BY DEF Without
  <1>3. ASSUME NEW i \in Ids
        PROVE  /\ records'[i] \in Record /\ Steady(i)
               /\ records'[i].started = records[i].started
               /\ records'[i].completed = records[i].completed
               /\ i \notin gone => records'[i] = records[i]
    <2>1. records'[i] = IF i \in gone THEN [records[i] EXCEPT !.deleted = TRUE] ELSE records[i]
      BY DEF Without
    <2>2. records[i] \in Record
      BY <1>1
    <2> QED BY <2>1, <2>2 DEF Record, Steady
  <1>4. records' \in Seq(Record) /\ Len(records') = Len(records)
    <2>1. records' \in [1 .. Len(records) -> Record]
      BY <1>1, <1>2, <1>3 DEF Without
    <2> QED BY <1>1, <2>1
  <1> QED BY <1>2, <1>3, <1>4 DEF Evolves, Ids, Typed

LEMMA EvolvesStep ==
    ASSUME Typed, [Next]_vars
    PROVE  Evolves
  <1>1. /\ Len(records) \in Nat /\ records \in Seq(Record) /\ Ids = 1 .. Len(records)
        /\ Len(records) <= MaxRecords /\ \A i \in Ids : records[i] \in Record
        /\ clock \in Nat
    BY DEF Typed, TypeOK, Ids
  <1>2. ASSUME records' = records, clock' = clock \/ clock' = clock + 1 PROVE Evolves
    BY <1>1, <1>2 DEF Evolves, Steady, Ids
  <1>3. ASSUME NEW h \in Handlers, Creating(h), Stores(h), clock' = clock PROVE Evolves
    <2>1. handler[h].target \in AlertTargets
      BY <1>3 DEF Creating, Typed, Aimed
    <2> DEFINE new == NewRecord(handler[h].target, handler[h].at = "giveUp")
    <2>2. new \in Record /\ new.created = clock /\ new.started = 0
      BY <1>1, <2>1 DEF NewRecord, Record
    <2>3. new.completed = 0 /\ ~new.deleted
      BY DEF NewRecord
    <2>4. records' = Append(records, new) /\ Len(records) < MaxRecords
      BY <1>3 DEF Stores
    <2> HIDE DEF new
    <2>5. /\ records' \in Seq(Record) /\ Len(records') = Len(records) + 1
          /\ \A i \in Ids : records'[i] = records[i]
          /\ records'[Len(records) + 1] = new
      BY <1>1, <2>2, <2>4
    <2>6. Ids' = Ids \cup {Len(records) + 1}
      BY <1>1, <2>5 DEF Ids
    <2>7. Len(records') <= MaxRecords
      BY <1>1, <2>4, <2>5, IntakeAssumption
    <2> QED BY <1>3, <2>2, <2>3, <2>5, <2>6, <2>7 DEF Evolves, Steady
  <1>4. ASSUME NEW i \in Ids, StartExecution(i) PROVE Evolves
    <2>1. /\ records' = [records EXCEPT ![i] = [@ EXCEPT !.started = clock]]
          /\ records[i].started = 0 /\ clock' = clock
      BY <1>4 DEF StartExecution
    <2>2. records' \in Seq(Record) /\ Len(records') = Len(records) /\ Ids' = Ids
      <3>1. [records[i] EXCEPT !.started = clock] \in Record
        BY <1>1 DEF Record
      <3> QED BY <1>1, <2>1, <3>1 DEF Ids
    <2>3. ASSUME NEW j \in Ids
          PROVE  /\ Steady(j) /\ records'[j].completed = records[j].completed
                 /\ \/ records'[j].started = records[j].started
                    \/ records[j].started = 0 /\ records'[j].started = clock
      <3>1. CASE j = i
        <4>1. records'[j] = [records[j] EXCEPT !.started = clock]
          BY <1>1, <2>1, <3>1
        <4> QED BY <1>1, <2>1, <3>1, <4>1 DEF Steady, Record
      <3>2. CASE j # i
        BY <1>1, <2>1, <3>2 DEF Steady
      <3> QED BY <3>1, <3>2
    <2> QED BY <1>1, <2>1, <2>2, <2>3 DEF Evolves
  <1>5. ASSUME NEW i \in Ids, Complete(i) PROVE Evolves
    <2>1. /\ records' = [records EXCEPT ![i] = [@ EXCEPT !.completed = clock]]
          /\ records[i].completed = 0 /\ clock' = clock /\ i \in finishing'
      BY <1>5 DEF Complete
    <2>2. records' \in Seq(Record) /\ Len(records') = Len(records) /\ Ids' = Ids
      <3>1. [records[i] EXCEPT !.completed = clock] \in Record
        BY <1>1 DEF Record
      <3> QED BY <1>1, <2>1, <3>1 DEF Ids
    <2>3. ASSUME NEW j \in Ids
          PROVE  /\ Steady(j) /\ records'[j].started = records[j].started
                 /\ \/ records'[j].completed = records[j].completed
                    \/ /\ records[j].completed = 0 /\ records'[j].completed = clock
                       /\ j \in finishing'
      <3>1. CASE j = i
        <4>1. records'[j] = [records[j] EXCEPT !.completed = clock]
          BY <1>1, <2>1, <3>1
        <4> QED BY <1>1, <2>1, <3>1, <4>1 DEF Steady, Record
      <3>2. CASE j # i
        BY <1>1, <2>1, <3>2 DEF Steady
      <3> QED BY <3>1, <3>2
    <2> QED BY <1>1, <2>1, <2>2, <2>3 DEF Evolves
  <1>6. ASSUME NEW i \in Ids, RecordCompletion(i) PROVE Evolves
    BY <1>6, EvolvesWithout DEF RecordCompletion
  <1>7. CASE Sweep
    BY <1>7, EvolvesWithout DEF Sweep
  <1>8. CASE UNCHANGED vars
    BY <1>2, <1>8 DEF vars
  <1>9. ASSUME NEW h \in Handlers,
               (\E t \in AlertTargets : Consume(h, t)) \/ RecordStart(h)
        PROVE  Evolves
    BY <1>2, <1>9 DEF Consume, RecordStart
  <1>10. ASSUME NEW h \in Handlers, Create(h) \/ CreateFails(h) PROVE Evolves
    BY <1>2, <1>3, <1>10 DEF Create, CreateFails
  <1>11. ASSUME NEW i \in Ids, Observe(i) \/ LoadRecord(i) PROVE Evolves
    BY <1>2, <1>11 DEF Observe, LoadRecord
  <1>12. CASE PruneHistory \/ LoadList \/ LoadDone \/ Crash \/ Tick
    BY <1>2, <1>12 DEF PruneHistory, LoadList, LoadDone, Crash, Tick
  <1> QED BY <1>4, <1>5, <1>6, <1>7, <1>8, <1>9, <1>10, <1>11, <1>12 DEF Next

\* The slices of the memory, which Typed says are sorted.
LEMMA Slices ==
    ASSUME Typed
    PROVE  /\ Slice(starts) /\ \A t \in Targets : Slice(completions[t])
           /\ DOMAIN completions = Targets /\ clock \in Nat
  BY DEF Typed, TypeOK, Slice

LEMMA EmptyIsSlice == Slice(<<>>)
  BY DEF Slice, Ascending

\* Every step keeps the memory sorted: a slice gains an entry, expires or is lost.
LEMMA SlicesStep ==
    ASSUME Typed, [Next]_vars
    PROVE  /\ Slice(starts') /\ completions' \in [Targets -> Seq(Nat)]
           /\ \A t \in Targets : Slice(completions'[t])
  <1>1. /\ Slice(starts) /\ \A t \in Targets : Slice(completions[t])
        /\ completions \in [Targets -> Seq(Nat)] /\ clock \in Nat
        /\ \A i \in Ids : records[i] \in Record /\ records[i].completed \in Nat
    <2>1. \A i \in Ids : records[i] \in Record
      BY DEF Typed, TypeOK, Ids
    <2>2. \A i \in Ids : records[i].completed \in Nat
      BY <2>1 DEF Record
    <2> QED BY <2>1, <2>2, Slices DEF Typed, TypeOK
  <1> DEFINE Goal == /\ Slice(starts') /\ completions' \in [Targets -> Seq(Nat)]
                     /\ \A t \in Targets : Slice(completions'[t])
  <1>2. ASSUME starts' = starts, completions' = completions PROVE Goal
    BY <1>1, <1>2
  <1>3. ASSUME NEW t \in Targets, NEW v \in Nat, Slice(starts'),
               completions' = [completions EXCEPT ![t] = Insert(@, v)]
        PROVE  Goal
    <2>1. completions' \in [Targets -> Seq(Nat)]
      BY <1>1, <1>3, InsertSorts DEF Slice
    <2>2. ASSUME NEW u \in Targets PROVE Slice(completions'[u])
      <3>1. CASE u = t
        <4>1. completions'[u] = Insert(completions[t], v)
          BY <1>1, <1>3, <3>1
        <4> QED BY <1>1, <4>1, InsertSorts
      <3>2. CASE u # t
        <4>1. completions'[u] = completions[u]
          BY <1>1, <1>3, <3>2
        <4> QED BY <1>1, <4>1
      <3> QED BY <3>1, <3>2
    <2> QED BY <1>3, <2>1, <2>2
  <1>4. ASSUME starts' = Pruned(starts), completions' = [t \in Targets |-> Pruned(completions[t])]
        PROVE  Goal
    BY <1>1, <1>4, PrunedIsSuffix DEF Slice
  <1>5. ASSUME NEW h \in Handlers, RecordStart(h) PROVE Goal
    <2>1. starts' = Insert(starts, clock) /\ completions' = completions
      BY <1>5 DEF RecordStart
    <2> QED BY <1>1, <2>1, InsertSorts
  <1>6. ASSUME NEW i \in Ids, RecordCompletion(i) PROVE Goal
    <2>1. starts' = starts
      BY <1>6 DEF RecordCompletion
    <2>2. CASE Counts(i)
      <3>1. records[i].target \in Targets
        BY <1>1, <2>2 DEF Counts, Record, Targets
      <3>2. completions' = [completions EXCEPT ![records[i].target] = Insert(@, records[i].completed)]
        BY <1>6, <2>2 DEF RecordCompletion
      <3> QED BY <1>1, <1>3, <2>1, <3>1, <3>2
    <2>3. CASE ~Counts(i)
      BY <1>2, <1>6, <2>1, <2>3 DEF RecordCompletion
    <2> QED BY <2>2, <2>3
  <1>7. ASSUME NEW i \in Ids, LoadRecord(i) PROVE Goal
    <2> DEFINE r == listed[i]
    <2>1. r \in Record /\ r.started \in Nat /\ r.created \in Nat /\ r.completed \in Nat
          /\ r.target \in AlertTargets
      BY <1>7 DEF LoadRecord, Typed, TypeOK, Record
    <2>2. starts' = Insert(starts, StartedAt(r)) /\ StartedAt(r) \in Nat
      BY <1>7, <2>1 DEF LoadRecord, ReplayStart, StartedAt
    <2>3. Slice(starts')
      BY <1>1, <2>2, InsertSorts
    <2>4. CASE r.completed > 0 /\ r.target # NoTarget
      <3>1. completions' = [completions EXCEPT ![r.target] = Insert(@, r.completed)]
        BY <1>7, <2>4 DEF LoadRecord
      <3>2. r.target \in Targets
        BY <2>1, <2>4 DEF Targets
      <3> HIDE DEF r
      <3> QED BY <1>3, <2>1, <2>3, <3>1, <3>2
    <2>5. CASE ~(r.completed > 0 /\ r.target # NoTarget)
      <3>1. completions' = completions
        BY <1>7, <2>5 DEF LoadRecord
      <3> QED BY <1>1, <2>3, <3>1
    <2> QED BY <2>4, <2>5
  <1>8. CASE PruneHistory \/ LoadDone
    BY <1>4, <1>8 DEF PruneHistory, LoadDone
  <1>9. CASE Crash
    BY <1>9, EmptyIsSlice DEF Crash, Slice
  <1>10. CASE Sweep \/ LoadList \/ Tick \/ UNCHANGED vars
    BY <1>2, <1>10 DEF Sweep, LoadList, Tick, vars, memoryVars
  <1>11. ASSUME NEW h \in Handlers,
                (\E t \in AlertTargets : Consume(h, t)) \/ Create(h) \/ CreateFails(h)
         PROVE  Goal
    BY <1>2, <1>11 DEF Consume, Create, CreateFails, memoryVars
  <1>12. ASSUME NEW i \in Ids, StartExecution(i) \/ Complete(i) \/ Observe(i) PROVE Goal
    BY <1>2, <1>12 DEF StartExecution, Complete, Observe, memoryVars
  <1> QED BY <1>5, <1>6, <1>7, <1>8, <1>9, <1>10, <1>11, <1>12 DEF Next

LEMMA TypedInit == Init => Typed
  <1> SUFFICES ASSUME Init PROVE Typed
    OBVIOUS
  <1>1. /\ starts \in Seq(Nat) /\ Ascending(starts)
        /\ completions \in [Targets -> Seq(Nat)] /\ \A t \in Targets : Ascending(completions[t])
    BY EmptyIsSlice DEF Init, Slice
  <1>2. /\ records \in Seq(Record) /\ Len(records) <= MaxRecords
        /\ cache \subseteq Ids /\ finishing \subseteq Ids
        /\ DOMAIN listed = {} /\ loader \in {"list", "apply", "warm"}
        /\ clock \in Nat /\ clock > 0 /\ faults \in Nat /\ crashes \in Nat
    BY IntakeAssumption DEF Init
  <1>3. \A h \in Handlers : handler[h].at = "idle"
    BY DEF Init, Idle
  <1>4. handler \in [Handlers -> [at : {"idle", "create", "giveUp", "start"},
                                  target : AlertTargets \cup {NoTarget}]]
    BY DEF Init, Idle
  <1> QED BY <1>1, <1>2, <1>3, <1>4 DEF Typed, TypeOK, Aimed

LEMMA HandlerStep ==
    ASSUME Typed, [Next]_vars
    PROVE  /\ handler' \in [Handlers -> [at : {"idle", "create", "giveUp", "start"},
                                         target : AlertTargets \cup {NoTarget}]]
           /\ Aimed'
  <1> DEFINE H == [at : {"idle", "create", "giveUp", "start"}, target : AlertTargets \cup {NoTarget}]
             Goal == handler' \in [Handlers -> H] /\ Aimed'
  <1>1. handler \in [Handlers -> H] /\ Aimed
    BY DEF Typed, TypeOK
  <1>2. Idle \in H /\ Idle.at = "idle"
    BY DEF Idle
  <1>3. ASSUME NEW h \in Handlers, NEW d \in H, d.at # "idle" => d.target \in AlertTargets,
               handler' = [handler EXCEPT ![h] = d]
        PROVE  Goal
    BY <1>1, <1>3 DEF Aimed
  <1>4. ASSUME handler' = handler PROVE Goal
    BY <1>1, <1>4 DEF Aimed
  <1>5. ASSUME NEW h \in Handlers, NEW t \in AlertTargets, Consume(h, t) PROVE Goal
    <2>1. ASSUME NEW a \in {"create", "giveUp"}
          PROVE  [at |-> a, target |-> t] \in H /\ [at |-> a, target |-> t].target = t
      OBVIOUS
    <2>2. PICK a \in {"create", "giveUp"} :
            handler' = [handler EXCEPT ![h] = [at |-> a, target |-> t]]
      BY <1>5 DEF Consume
    <2> QED BY <1>3, <2>1, <2>2
  <1>6. ASSUME NEW h \in Handlers, Create(h) PROVE Goal
    <2> DEFINE d == [handler[h] EXCEPT !.at = "start"]
    <2>1. handler[h] \in H /\ handler[h].target \in AlertTargets
      BY <1>1, <1>6 DEF Create, Creating, Aimed
    <2>2. d \in H /\ d.target \in AlertTargets
      BY <2>1
    <2>3. \/ handler' = [handler EXCEPT ![h] = d]
          \/ handler' = [handler EXCEPT ![h] = Idle]
      BY <1>1, <1>6 DEF Create
    <2> HIDE DEF d
    <2> QED BY <1>2, <1>3, <2>2, <2>3
  <1>7. ASSUME NEW h \in Handlers, CreateFails(h) \/ RecordStart(h) PROVE Goal
    BY <1>2, <1>3, <1>7 DEF CreateFails, RecordStart
  <1>8. CASE Crash
    <2>1. handler' = [h \in Handlers |-> Idle]
      BY <1>8 DEF Crash
    <2> QED BY <1>2, <2>1 DEF Aimed
  <1>9. ASSUME NEW i \in Ids, \/ StartExecution(i) \/ Complete(i) \/ RecordCompletion(i)
                              \/ Observe(i) \/ LoadRecord(i)
        PROVE  Goal
    BY <1>4, <1>9 DEF StartExecution, Complete, RecordCompletion, Observe, LoadRecord
  <1>10. CASE Sweep \/ PruneHistory \/ LoadList \/ LoadDone \/ Tick \/ UNCHANGED vars
    BY <1>4, <1>10 DEF Sweep, PruneHistory, LoadList, LoadDone, Tick, vars
  <1> QED BY <1>5, <1>6, <1>7, <1>8, <1>9, <1>10 DEF Next

LEMMA ListedStep ==
    ASSUME Typed, [Next]_vars
    PROVE  /\ \/ DOMAIN listed' = {}
              \/ LoadList /\ listed' = [i \in {j \in Executions : Stored(j)} |-> records[i]]
              \/ DOMAIN listed' \subseteq DOMAIN listed /\ \A i \in DOMAIN listed' : listed'[i] = listed[i]
           /\ loader' \in {"list", "apply", "warm"}
           /\ faults' \in Nat /\ crashes' \in Nat /\ cache' \subseteq Ids' /\ finishing' \subseteq Ids'
  <1> USE DEF boundVars, memoryVars
  <1>1. Ids \subseteq Ids'
    BY EvolvesStep DEF Evolves
  <1>2. /\ loader \in {"list", "apply", "warm"} /\ faults \in Nat /\ crashes \in Nat
        /\ cache \subseteq Ids /\ finishing \subseteq Ids
    BY DEF Typed, TypeOK
  <1>3. ASSUME NEW h \in Handlers, \/ (\E t \in AlertTargets : Consume(h, t)) \/ Create(h)
                                   \/ CreateFails(h) \/ RecordStart(h)
        PROVE  /\ listed' = listed /\ loader' = loader /\ cache' = cache /\ finishing' = finishing
               /\ faults' \in Nat /\ crashes' = crashes
    BY <1>2, <1>3 DEF Consume, Create, CreateFails, RecordStart
  <1>4. ASSUME NEW i \in Ids, \/ StartExecution(i) \/ Complete(i) \/ RecordCompletion(i) \/ Observe(i)
        PROVE  /\ listed' = listed /\ loader' = loader /\ cache' \subseteq Ids /\ finishing' \subseteq Ids
               /\ faults' = faults /\ crashes' = crashes
    BY <1>2, <1>4 DEF StartExecution, Complete, RecordCompletion, Observe
  <1>5. ASSUME NEW i \in Ids, LoadRecord(i)
        PROVE  /\ DOMAIN listed' \subseteq DOMAIN listed
               /\ \A j \in DOMAIN listed' : listed'[j] = listed[j]
               /\ loader' = loader /\ cache' = cache /\ finishing' = finishing
               /\ faults' = faults /\ crashes' = crashes
    BY <1>5 DEF LoadRecord
  <1>6. CASE Sweep \/ PruneHistory \/ LoadDone \/ Tick \/ UNCHANGED vars
    BY <1>1, <1>2, <1>6 DEF Sweep, PruneHistory, LoadDone, Tick, vars
  <1>7. CASE LoadList
    BY <1>1, <1>2, <1>7 DEF LoadList
  <1>8. CASE Crash
    BY <1>1, <1>2, <1>8 DEF Crash
  <1> QED BY <1>1, <1>2, <1>3, <1>4, <1>5, <1>6, <1>7, <1>8 DEF Next

LEMMA TypedStep ==
    ASSUME Typed, [Next]_vars
    PROVE  Typed'
  <1>1. Evolves
    BY EvolvesStep
  <1>2. clock' \in Nat /\ clock' > 0
    BY <1>1 DEF Evolves, Typed, TypeOK
  <1>3. Executions \subseteq Executions'
    BY <1>1 DEF Executions, Evolves, Steady
  <1>4. DOMAIN listed' \subseteq Executions' /\ \A i \in DOMAIN listed' : listed'[i] \in Record
    <2>1. DOMAIN listed \subseteq Executions /\ \A i \in DOMAIN listed : listed[i] \in Record
      BY DEF Typed, TypeOK
    <2>2. \A i \in Executions : records[i] \in Record
      BY DEF Typed, TypeOK, Executions, Ids
    <2> QED BY <1>3, <2>1, <2>2, ListedStep
  <1>5. /\ starts' \in Seq(Nat) /\ Ascending(starts')
        /\ completions' \in [Targets -> Seq(Nat)] /\ \A t \in Targets : Ascending(completions'[t])
    BY SlicesStep DEF Slice
  <1> QED BY <1>1, <1>2, <1>4, <1>5, HandlerStep, ListedStep DEF Typed, TypeOK, Evolves

-----------------------------------------------------------------------------
(* Times, and what the replay works from *)

Timely ==
    /\ \A i \in Ids :
         /\ records[i].created \in 1 .. clock
         /\ records[i].started > 0 => records[i].started \in records[i].created .. clock
         /\ records[i].completed > 0 => records[i].completed \in records[i].created .. clock
    /\ \A i \in finishing : records[i].completed > 0

\* The loader's copy of a record is old at worst, and nothing is delivered
\* before the replay is over.
Faithful ==
    /\ loader # "apply" => DOMAIN listed = {}
    /\ loader # "warm" => \A h \in Handlers : handler[h].at = "idle"
    /\ \A i \in DOMAIN listed :
         /\ listed[i].target = records[i].target /\ listed[i].created = records[i].created
         /\ listed[i].started > 0 => listed[i].started >= listed[i].created
         /\ listed[i].completed > 0 => listed[i].completed = records[i].completed

Base == Typed /\ Timely /\ Faithful

LEMMA RecordTypes ==
    ASSUME Typed
    PROVE  /\ clock \in Nat /\ clock > 0
           /\ \A i \in Ids : /\ records[i] \in Record /\ records[i].target \in AlertTargets
                             /\ records[i].created \in Nat /\ records[i].started \in Nat
                             /\ records[i].completed \in Nat
  <1>1. \A i \in Ids : records[i] \in Record
    BY DEF Typed, TypeOK, Ids
  <1>2. \A i \in Ids : /\ records[i].target \in AlertTargets /\ records[i].created \in Nat
                       /\ records[i].started \in Nat /\ records[i].completed \in Nat
    BY <1>1 DEF Record
  <1> QED BY <1>1, <1>2 DEF Typed, TypeOK

LEMMA FinishingStep ==
    ASSUME Typed, [Next]_vars
    PROVE  \A i \in finishing' : i \in finishing \/ (i \in Ids /\ Complete(i))
  <1>1. ASSUME NEW i \in Ids, \/ StartExecution(i) \/ RecordCompletion(i) \/ Observe(i) \/ LoadRecord(i)
        PROVE  finishing' \subseteq finishing
    BY <1>1 DEF StartExecution, RecordCompletion, Observe, LoadRecord
  <1>2. ASSUME NEW i \in Ids, Complete(i) PROVE finishing' = finishing \cup {i}
    BY <1>2 DEF Complete
  <1>3. ASSUME NEW h \in Handlers, \/ (\E t \in AlertTargets : Consume(h, t)) \/ Create(h)
                                   \/ CreateFails(h) \/ RecordStart(h)
        PROVE  finishing' = finishing
    BY <1>3 DEF Consume, Create, CreateFails, RecordStart
  <1>4. CASE Sweep \/ PruneHistory \/ LoadList \/ LoadDone \/ Crash \/ Tick \/ UNCHANGED vars
    BY <1>4 DEF Sweep, PruneHistory, LoadList, LoadDone, Crash, Tick, vars
  <1> QED BY <1>1, <1>2, <1>3, <1>4 DEF Next

LEMMA TimelyStep ==
    ASSUME Typed, Timely, [Next]_vars
    PROVE  Timely'
  <1>1. Evolves /\ Typed'
    BY EvolvesStep, TypedStep
  <1>2. clock' \in Nat /\ clock \in Nat /\ clock > 0 /\ clock <= clock'
    BY <1>1, RecordTypes DEF Evolves
  <1>3. ASSUME NEW i \in Ids'
        PROVE  /\ records'[i].created \in 1 .. clock'
               /\ records'[i].started > 0 => records'[i].started \in records'[i].created .. clock'
               /\ records'[i].completed > 0 => records'[i].completed \in records'[i].created .. clock'
    <2>1. CASE i \notin Ids
      BY <1>1, <1>2, <2>1 DEF Evolves
    <2>2. CASE i \in Ids
      <3>1. /\ records[i].created \in Nat /\ records[i].started \in Nat /\ records[i].completed \in Nat
        BY <2>2, RecordTypes
      <3>2. /\ records[i].created \in 1 .. clock
            /\ records[i].started > 0 => records[i].started \in records[i].created .. clock
            /\ records[i].completed > 0 => records[i].completed \in records[i].created .. clock
        BY <2>2 DEF Timely
      <3>3. /\ records'[i].created = records[i].created
            /\ \/ records'[i].started = records[i].started
               \/ records'[i].started = clock
            /\ \/ records'[i].completed = records[i].completed
               \/ records'[i].completed = clock
        BY <1>1, <2>2 DEF Evolves, Steady
      <3> QED BY <1>2, <3>1, <3>2, <3>3
    <2> QED BY <2>1, <2>2
  <1>4. ASSUME NEW i \in finishing' PROVE records'[i].completed > 0
    <2>1. CASE i \in Ids /\ Complete(i)
      <3>1. records' = [records EXCEPT ![i] = [@ EXCEPT !.completed = clock]]
        BY <2>1 DEF Complete
      <3>2. records[i] \in Record /\ DOMAIN records = Ids
        BY <2>1, RecordTypes DEF Ids
      <3>3. records'[i] = [records[i] EXCEPT !.completed = clock]
        BY <2>1, <3>1, <3>2
      <3>4. records'[i].completed = clock
        BY <3>2, <3>3 DEF Record
      <3> QED BY <1>2, <3>4
    <2>2. CASE i \in finishing
      <3>1. i \in Ids /\ records[i].completed > 0
        BY <2>2 DEF Timely, Typed, TypeOK
      <3>2. records[i].completed \in Nat
        BY <3>1, RecordTypes
      <3> QED BY <1>1, <1>2, <3>1, <3>2 DEF Evolves
    <2> QED BY <2>1, <2>2, FinishingStep
  <1> QED BY <1>3, <1>4 DEF Timely

LEMMA FaithfulStep ==
    ASSUME Base, [Next]_vars
    PROVE  Faithful'
  <1> USE DEF memoryVars
  <1>1. Evolves /\ Typed /\ Timely /\ Faithful
    BY EvolvesStep DEF Base
  <1>2. loader' # "apply" => DOMAIN listed' = {}
    <2>1. ASSUME NEW i \in Ids, LoadRecord(i) PROVE loader' = "apply"
      BY <2>1 DEF LoadRecord
    <2>2. CASE LoadList \/ LoadDone
      BY <2>2 DEF LoadList, LoadDone
    <2>3. CASE Crash
      BY <2>3 DEF Crash
    <2>4. ASSUME listed' = listed, loader' = loader PROVE loader' # "apply" => DOMAIN listed' = {}
      BY <1>1, <2>4 DEF Faithful
    <2>5. ASSUME NEW h \in Handlers, \/ (\E t \in AlertTargets : Consume(h, t)) \/ Create(h)
                                     \/ CreateFails(h) \/ RecordStart(h)
          PROVE  listed' = listed /\ loader' = loader
      BY <2>5 DEF Consume, Create, CreateFails, RecordStart
    <2>6. ASSUME NEW i \in Ids, \/ StartExecution(i) \/ Complete(i) \/ RecordCompletion(i) \/ Observe(i)
          PROVE  listed' = listed /\ loader' = loader
      BY <2>6 DEF StartExecution, Complete, RecordCompletion, Observe
    <2>7. CASE Sweep \/ PruneHistory \/ Tick \/ UNCHANGED vars
      BY <2>4, <2>7 DEF Sweep, PruneHistory, Tick, vars
    <2> QED BY <2>1, <2>2, <2>3, <2>4, <2>5, <2>6, <2>7 DEF Next
  <1>3. loader' # "warm" => \A h \in Handlers : handler'[h].at = "idle"
    <2> DEFINE Goal == loader' # "warm" => \A h \in Handlers : handler'[h].at = "idle"
    <2>1. ASSUME handler' = handler, loader' = loader \/ loader' = "warm" \/ loader = "list" PROVE Goal
      BY <1>1, <2>1 DEF Faithful
    <2>2. CASE Crash
      BY <2>2 DEF Crash, Idle
    <2>3. ASSUME NEW h \in Handlers, \/ (\E t \in AlertTargets : Consume(h, t)) \/ Create(h)
                                     \/ CreateFails(h) \/ RecordStart(h)
          PROVE  Goal
      <3>1. loader' = loader
        BY <2>3 DEF Consume, Create, CreateFails, RecordStart
      <3>2. loader = "warm" \/ handler[h].at # "idle"
        BY <2>3 DEF Consume, Create, CreateFails, RecordStart, Creating
      <3> QED BY <1>1, <3>1, <3>2 DEF Faithful
    <2>4. ASSUME NEW i \in Ids, \/ StartExecution(i) \/ Complete(i) \/ RecordCompletion(i)
                                \/ Observe(i) \/ LoadRecord(i)
          PROVE  handler' = handler /\ loader' = loader
      BY <2>4 DEF StartExecution, Complete, RecordCompletion, Observe, LoadRecord
    <2>5. CASE Sweep \/ PruneHistory \/ LoadList \/ LoadDone \/ Tick \/ UNCHANGED vars
      BY <2>1, <2>5 DEF Sweep, PruneHistory, LoadList, LoadDone, Tick, vars
    <2> QED BY <2>1, <2>2, <2>3, <2>4, <2>5 DEF Next
  <1>4. ASSUME NEW i \in DOMAIN listed'
        PROVE  /\ listed'[i].target = records'[i].target /\ listed'[i].created = records'[i].created
               /\ listed'[i].started > 0 => listed'[i].started >= listed'[i].created
               /\ listed'[i].completed > 0 => listed'[i].completed = records'[i].completed
    <2>1. CASE LoadList /\ listed' = [j \in {k \in Executions : Stored(k)} |-> records[j]]
      <3>1. i \in Ids /\ listed'[i] = records[i] /\ records' = records
        BY <1>4, <2>1 DEF LoadList, Executions
      <3>2. /\ records[i].started > 0 => records[i].started \in records[i].created .. clock
            /\ records[i].created \in Nat /\ records[i].started \in Nat /\ clock \in Nat
        BY <1>1, <3>1, RecordTypes DEF Timely
      <3> QED BY <3>1, <3>2
    <2>2. CASE i \in DOMAIN listed /\ listed'[i] = listed[i]
      <3>1. i \in Ids /\ listed[i].completed \in Nat
        BY <1>1, <2>2 DEF Typed, TypeOK, Executions, Record
      <3>2. /\ listed[i].target = records[i].target /\ listed[i].created = records[i].created
            /\ listed[i].started > 0 => listed[i].started >= listed[i].created
            /\ listed[i].completed > 0 => listed[i].completed = records[i].completed
        BY <1>1, <2>2 DEF Faithful
      <3>3. /\ records'[i].target = records[i].target /\ records'[i].created = records[i].created
            /\ records[i].completed # 0 => records'[i].completed = records[i].completed
        BY <1>1, <3>1 DEF Evolves, Steady
      <3> QED BY <2>2, <3>1, <3>2, <3>3
    <2> QED BY <1>1, <1>4, <2>1, <2>2, ListedStep
  <1> QED BY <1>2, <1>3, <1>4 DEF Faithful

LEMMA BaseInit == Init => Base
  <1> SUFFICES ASSUME Init PROVE Base
    OBVIOUS
  <1>1. Ids = {} /\ finishing = {} /\ DOMAIN listed = {} /\ \A h \in Handlers : handler[h].at = "idle"
    BY DEF Init, Ids, Idle
  <1> QED BY <1>1, TypedInit DEF Base, Timely, Faithful

LEMMA BaseStep ==
    ASSUME Base, [Next]_vars
    PROVE  Base'
  BY TypedStep, TimelyStep, FaithfulStep DEF Base

LEMMA BaseInvariance == Spec => []Base
  <1>1. Base /\ [Next]_vars => Base'
    BY BaseStep
  <1> QED BY <1>1, BaseInit, PTL DEF Spec

\* The slices of the history stay sorted through replays, late completions,
\* expiry and restarts (RecordStart, RecordCompletion, pruneLocked).
THEOREM IntakeTypes == Spec => []TypeOK
  <1>1. Base => TypeOK
    BY DEF Base, Typed
  <1> QED BY <1>1, BaseInvariance, PTL

\* What the guards count by bisection is exactly what lies inside the window,
\* for any history that can arise and any window (CompletionsSince, StartsSince).
THEOREM CountsAreExact == Spec => []SearchIsExact
  <1>1. Base => SearchIsExact
    <2> SUFFICES ASSUME Typed, NEW s \in {starts} \cup {completions[t] : t \in Targets},
                        NEW since \in 0 .. MaxClock
                 PROVE  CountSince(s, since) = Cardinality({k \in DOMAIN s : s[k] >= since})
      BY DEF Base, SearchIsExact
    <2>1. Slice(s) /\ since \in Int
      BY Slices, IntakeAssumption
    <2> QED BY <2>1, CountIsExact
  <1> QED BY <1>1, BaseInvariance, PTL

-----------------------------------------------------------------------------
(* Retention *)

\* Longest, the window the sweeper's floor protects, covers every guard's.
LEMMA LongestCovers ==
    /\ Longest \in Nat /\ Cooldown <= Longest /\ GiveUpWithin <= Longest
    /\ MaxPerHour > 0 => Hour <= Longest
  <1> DEFINE S == {Cooldown, GiveUpWithin} \cup (IF MaxPerHour > 0 THEN {Hour} ELSE {})
  <1>1. Cooldown \in Nat /\ GiveUpWithin \in Nat /\ Hour \in Nat /\ MaxPerHour \in Nat
    BY IntakeAssumption
  <1>2. \E x \in S : \A y \in S : x >= y
    <2>1. CASE MaxPerHour > 0
      <3>1. S = {Cooldown, GiveUpWithin, Hour}
        BY <2>1
      <3> QED BY <1>1, <3>1
    <2>2. CASE ~(MaxPerHour > 0)
      <3>1. S = {Cooldown, GiveUpWithin}
        BY <2>2
      <3> QED BY <1>1, <3>1
    <2> QED BY <2>1, <2>2
  <1>3. Longest \in S /\ \A y \in S : Longest >= y
    <2>1. Longest = Max(S)
      BY DEF Longest
    <2> HIDE DEF S
    <2> QED BY <1>2, <2>1, Zenon DEF Max
  <1> QED BY <1>1, <1>3

\* As long as no more records are made than are kept, prune deletes none.
LEMMA NoExcess ==
    ASSUME Typed, MaxRecords <= HistoryLimit, NEW i \in Ids
    PROVE  Excess(i) = {}
  <1> SUFFICES ASSUME NEW j \in Excess(i) PROVE FALSE
    OBVIOUS
  <1> DEFINE newer == {k \in Ended \ {i} : k > j}
  <1>1. j \in Ended \ {i} /\ Cardinality(newer) >= HistoryLimit - 1
    BY DEF Excess
  <1>2. /\ Len(records) \in Nat /\ Ids = 1 .. Len(records) /\ Len(records) <= MaxRecords
        /\ Ended \subseteq Ids /\ i \in Ids /\ j \in Ids /\ i # j
    BY <1>1 DEF Typed, TypeOK, Ids, Ended
  <1>3. IsFiniteSet(Ids) /\ Cardinality(Ids) = Len(records)
    <2>1. IsFiniteSet(1 .. Len(records))
          /\ Cardinality(1 .. Len(records)) = IF 1 > Len(records) THEN 0 ELSE Len(records) - 1 + 1
      BY <1>2, FS_Interval
    <2> QED BY <1>2, <2>1
  <1>4. IsFiniteSet(Ids \ {i}) /\ Cardinality(Ids \ {i}) = Len(records) - 1
    BY <1>2, <1>3, FS_RemoveElement
  <1>5. /\ IsFiniteSet((Ids \ {i}) \ {j})
        /\ Cardinality((Ids \ {i}) \ {j}) = Len(records) - 1 - 1
    <2>1. j \in Ids \ {i}
      BY <1>2
    <2> QED BY <1>4, <2>1, FS_RemoveElement
  <1>6. newer \in SUBSET ((Ids \ {i}) \ {j})
    <2>1. ASSUME NEW k \in newer PROVE k \in Ids /\ k # i /\ k # j
      <3>1. k \in Ids /\ k # i /\ k > j
        BY <1>2
      <3> QED BY <1>2, <3>1
    <2> QED BY <2>1
  <1>7. IsFiniteSet(newer) /\ Cardinality(newer) <= Len(records) - 1 - 1
    BY <1>5, <1>6, FS_Subset
  <1>8. Cardinality(newer) \in Nat /\ HistoryLimit \in Nat /\ MaxRecords \in Nat
    BY <1>7, FS_CardinalityType, IntakeAssumption
  <1> HIDE DEF newer
  <1> QED BY <1>1, <1>2, <1>7, <1>8

\* A record is deleted by prune or by the sweeper.
LEMMA DeletedStep ==
    ASSUME Typed, [Next]_vars, NEW i \in Ids, records'[i].deleted
    PROVE  \/ records[i].deleted
           \/ \E j \in Ids : i \in Excess(j)
           \/ i \in Sweepable
  <1>1. \A j \in Ids : records[j] \in Record
    BY RecordTypes
  <1>2. ASSUME records' = records PROVE records[i].deleted
    BY <1>2
  <1>3. ASSUME NEW h \in Handlers, Stores(h) PROVE records[i].deleted
    <2>1. records'[i] = records[i]
      BY <1>3 DEF Stores, Typed, TypeOK, Ids
    <2> QED BY <2>1
  <1>4. ASSUME NEW j \in Ids, StartExecution(j) \/ Complete(j) PROVE records[i].deleted
    <2>1. \/ records' = [records EXCEPT ![j] = [@ EXCEPT !.started = clock]]
          \/ records' = [records EXCEPT ![j] = [@ EXCEPT !.completed = clock]]
      BY <1>4 DEF StartExecution, Complete
    <2>2. records \in [Ids -> Record]
      BY <1>1 DEF Typed, TypeOK, Ids
    <2>3. CASE i = j
      <3>1. \/ records'[i] = [records[i] EXCEPT !.started = clock]
            \/ records'[i] = [records[i] EXCEPT !.completed = clock]
        BY <2>1, <2>2, <2>3
      <3> QED BY <1>1, <3>1 DEF Record
    <2>4. CASE i # j
      <3>1. records'[i] = records[i]
        BY <2>1, <2>2, <2>4
      <3> QED BY <3>1
    <2> QED BY <2>3, <2>4
  <1>5. ASSUME NEW gone, records' = Without(gone) PROVE records[i].deleted \/ i \in gone
    <2>1. i \notin gone => records'[i] = records[i]
      BY <1>5 DEF Without
    <2> QED BY <2>1
  <1>6. ASSUME NEW j \in Ids, RecordCompletion(j) PROVE records[i].deleted \/ i \in Excess(j)
    BY <1>5, <1>6 DEF RecordCompletion
  <1>7. CASE Sweep
    BY <1>5, <1>7 DEF Sweep
  <1>8. ASSUME NEW h \in Handlers, (\E t \in AlertTargets : Consume(h, t)) \/ RecordStart(h)
        PROVE  records' = records
    BY <1>8 DEF Consume, RecordStart
  <1>9. ASSUME NEW h \in Handlers, Create(h) \/ CreateFails(h) PROVE Stores(h) \/ records' = records
    BY <1>9 DEF Create, CreateFails
  <1>10. ASSUME NEW j \in Ids, Observe(j) \/ LoadRecord(j) PROVE records' = records
    BY <1>10 DEF Observe, LoadRecord
  <1>11. CASE PruneHistory \/ LoadList \/ LoadDone \/ Crash \/ Tick \/ UNCHANGED vars
    BY <1>2, <1>11 DEF PruneHistory, LoadList, LoadDone, Crash, Tick, vars
  <1> QED BY <1>2, <1>3, <1>4, <1>6, <1>7, <1>8, <1>9, <1>10, <1>11 DEF Next

Gone(i) == records[i].completed > 0 /\ records[i].completed < clock - Longest

\* What is deleted is past every window, if the history limit is not reached.
Durable == MaxRecords <= HistoryLimit => \A i \in Ids : Stored(i) \/ Gone(i)

\* A process that is the first has nothing to replay.
Fresh == MaxCrashes = 0 /\ loader # "warm" => Ids = {}

\* What the guards need to remember their windows across a restart: that no
\* record inside a window is deleted, or that there is no restart.
Remembers == MaxRecords <= HistoryLimit \/ MaxCrashes = 0

LEMMA DurableStep ==
    ASSUME Base, Durable, [Next]_vars
    PROVE  Durable'
  <1> SUFFICES ASSUME MaxRecords <= HistoryLimit, NEW i \in Ids', ~Stored(i)'
               PROVE  Gone(i)'
    BY DEF Durable
  <1>1. Evolves /\ Typed /\ clock \in Nat /\ clock' >= clock /\ clock' \in Nat
    BY EvolvesStep, RecordTypes DEF Base, Evolves
  <1>2. i \in Ids /\ records'[i].deleted
    BY <1>1 DEF Evolves, Stored
  <1>3. Longest \in Nat /\ FloorMargin \in Nat \ {0} /\ records[i].completed \in Nat
    BY <1>1, <1>2, RecordTypes, LongestCovers, IntakeAssumption
  <1>4. Gone(i)
    <2>1. CASE records[i].deleted
      BY <1>2, <2>1 DEF Durable, Stored
    <2>2. CASE i \in Sweepable
      <3>1. records[i].completed > 0 /\ records[i].completed <= clock - (Longest + FloorMargin)
        BY <2>2 DEF Sweepable, Ended, GuardFloor
      <3> QED BY <1>1, <1>3, <3>1 DEF Gone
    <2>3. \A j \in Ids : i \notin Excess(j)
      BY <1>1, NoExcess
    <2> QED BY <1>1, <1>2, <2>1, <2>2, <2>3, DeletedStep
  <1>5. records'[i].completed = records[i].completed
    BY <1>1, <1>2, <1>4 DEF Evolves, Gone
  <1> QED BY <1>1, <1>3, <1>4, <1>5 DEF Gone

LEMMA FreshStep ==
    ASSUME Base, Fresh, [Next]_vars
    PROVE  Fresh'
  <1> USE DEF memoryVars
  <1> SUFFICES ASSUME MaxCrashes = 0, loader' # "warm" PROVE Ids' = {}
    BY DEF Fresh
  <1>1. crashes \in Nat /\ (loader # "warm" => Ids = {})
    BY DEF Base, Typed, TypeOK, Fresh
  <1>2. loader # "warm" => \A h \in Handlers : handler[h].at = "idle"
    BY DEF Base, Faithful
  <1>3. ASSUME NEW h \in Handlers,
               \/ (\E t \in AlertTargets : Consume(h, t)) \/ Create(h)
               \/ CreateFails(h) \/ RecordStart(h)
        PROVE  Ids' = {}
    <2>1. loader' = loader
      BY <1>3 DEF Consume, Create, CreateFails, RecordStart
    <2>2. loader = "warm" \/ handler[h].at # "idle"
      BY <1>3 DEF Consume, Create, CreateFails, RecordStart, Creating
    <2> QED BY <1>2, <2>1, <2>2
  <1>4. ASSUME NEW i \in Ids, \/ StartExecution(i) \/ Complete(i) \/ RecordCompletion(i)
                              \/ Observe(i) \/ LoadRecord(i)
        PROVE  FALSE
    <2>1. loader' = loader
      BY <1>4 DEF StartExecution, Complete, RecordCompletion, Observe, LoadRecord
    <2> QED BY <1>1, <2>1
  <1>5. CASE Crash
    BY <1>1, <1>5 DEF Crash
  <1>6. CASE Sweep
    BY <1>1, <1>6 DEF Sweep, Without, Ids
  <1>7. CASE PruneHistory \/ LoadList \/ LoadDone \/ Tick \/ UNCHANGED vars
    BY <1>1, <1>7 DEF PruneHistory, LoadList, LoadDone, Tick, vars, Ids
  <1> QED BY <1>3, <1>4, <1>5, <1>6, <1>7 DEF Next

\* A replay finds every record that a guard's window still needs.
LEMMA ReplayIsComplete ==
    ASSUME Durable, Fresh, Remembers, loader # "warm", NEW i \in Ids, ~Stored(i)
    PROVE  Gone(i)
  BY DEF Durable, Fresh, Remembers

-----------------------------------------------------------------------------
(* Completions: nothing inside a window is forgotten *)

Pending(i) == i \in DOMAIN listed /\ listed[i].completed > 0

\* The executions of t, completed within w, that the memory has to have: all
\* but those the loader has yet to replay, or whose pass has yet to count them.
Owed(t, w) ==
    {i \in SettledSince(t, clock - w) : loader # "list" /\ ~Pending(i)}

\* Each has an entry of its own.
Located(t, w) ==
    \E f \in Injection(Owed(t, w), DOMAIN completions[t]) :
        \A i \in Owed(t, w) : completions[t][f[i]] = records[i].completed

LEMMA OwedFacts ==
    ASSUME Base, NEW t, NEW w \in Nat, NEW i \in Owed(t, w)
    PROVE  /\ i \in Executions /\ i \in Ids /\ records[i].target = t /\ i \notin finishing
           /\ records[i].completed \in Nat \ {0} /\ records[i].completed >= clock - w
           /\ loader # "list" /\ ~Pending(i)
  <1>1. /\ i \in Executions /\ records[i].target = t /\ i \notin finishing
        /\ records[i].completed > 0 /\ records[i].completed >= clock - w
        /\ loader # "list" /\ ~Pending(i)
    BY DEF Owed, SettledSince, CompletedSince
  <1>2. i \in Ids
    BY <1>1 DEF Executions
  <1> QED BY <1>1, <1>2, RecordTypes DEF Base

\* Who is owed after a step was complete before it.
LEMMA OwedStep ==
    ASSUME Base, [Next]_vars, NEW t, NEW w \in Nat, NEW i \in Owed(t, w)'
    PROVE  /\ i \in Executions /\ i \in Ids /\ records[i].target = t
           /\ records[i].completed \in Nat \ {0} /\ records[i].completed >= clock - w
           /\ records'[i].completed = records[i].completed
           /\ i \in finishing \/ i \in SettledSince(t, clock - w)
           /\ i \notin finishing' /\ loader' # "list" /\ ~Pending(i)'
  <1>1. Base' /\ Evolves /\ Typed
    BY BaseStep, EvolvesStep DEF Base
  <1>2. /\ i \in Executions' /\ i \in Ids' /\ records'[i].target = t /\ i \notin finishing'
        /\ records'[i].completed \in Nat \ {0} /\ records'[i].completed >= clock' - w
        /\ loader' # "list" /\ ~Pending(i)'
    <2>1. /\ i \in Executions' /\ records'[i].target = t /\ i \notin finishing'
          /\ records'[i].completed > 0 /\ records'[i].completed >= clock' - w
          /\ loader' # "list" /\ ~Pending(i)'
      BY DEF Owed, SettledSince, CompletedSince
    <2>2. i \in Ids'
      BY <2>1 DEF Executions
    <2>3. records'[i] \in Record
      BY <1>1, <2>2 DEF Base, Typed, TypeOK, Ids
    <2>4. records'[i].completed \in Nat
      BY <2>3 DEF Record
    <2> QED BY <2>1, <2>2, <2>4
  <1>3. i \in Ids /\ records'[i].completed = records[i].completed /\ Steady(i)
    BY <1>1, <1>2 DEF Evolves
  <1>4. i \in Executions /\ records[i].target = t
    BY <1>2, <1>3 DEF Executions, Steady
  <1>5. clock \in Nat /\ clock' \in Nat /\ clock' >= clock
    BY <1>1, RecordTypes DEF Evolves
  <1>6. records[i].completed >= clock - w
    BY <1>2, <1>3, <1>5
  <1>7. records[i].completed > 0
    BY <1>2, <1>3
  <1> QED BY <1>2, <1>3, <1>4, <1>6, <1>7 DEF SettledSince, CompletedSince

\* Nobody is owed who was not, and the entries are there.
LEMMA LocatedKept ==
    ASSUME Base, [Next]_vars, NEW t \in Targets, NEW w \in Nat, Located(t, w),
           completions'[t] = completions[t], Owed(t, w)' \subseteq Owed(t, w)
    PROVE  Located(t, w)'
  <1>1. PICK f \in Injection(Owed(t, w), DOMAIN completions[t]) :
            \A i \in Owed(t, w) : completions[t][f[i]] = records[i].completed
    BY DEF Located
  <1> DEFINE g == [i \in Owed(t, w)' |-> f[i]]
  <1>2. g \in Injection(Owed(t, w)', DOMAIN completions'[t])
    BY PlaceRestrict
  <1>3. \A i \in Owed(t, w)' : completions'[t][g[i]] = records'[i].completed
    BY <1>1, OwedStep
  <1> HIDE DEF g
  <1> QED BY <1>2, <1>3 DEF Located

LEMMA LocatedInserted ==
    ASSUME Base, [Next]_vars, NEW t \in Targets, NEW w \in Nat, Located(t, w),
           NEW x \in Ids, records[x].completed \in Nat,
           completions'[t] = Insert(completions[t], records[x].completed),
           Owed(t, w)' \subseteq Owed(t, w) \cup {x}
    PROVE  Located(t, w)'
  <1> DEFINE S == Owed(t, w) \ {x}
             c == completions[t]
  <1>1. PICK f \in Injection(Owed(t, w), DOMAIN c) :
            \A i \in Owed(t, w) : c[f[i]] = records[i].completed
    BY DEF Located
  <1>2. Slice(c)
    BY Slices DEF Base
  <1> DEFINE e == [i \in S |-> f[i]]
  <1>3. e \in Injection(S, DOMAIN c)
    BY PlaceRestrict
  <1>4. \A i \in S : e[i] = f[i]
    OBVIOUS
  <1> HIDE DEF e
  <1>5. x \notin S
    OBVIOUS
  <1> HIDE DEF S, c
  <1>6. PICK g \in Injection(S \cup {x}, DOMAIN Insert(c, records[x].completed)) :
            /\ Insert(c, records[x].completed)[g[x]] = records[x].completed
            /\ \A i \in S : Insert(c, records[x].completed)[g[i]] = c[e[i]]
    BY <1>2, <1>3, <1>5, PlaceInsert
  <1>7. Owed(t, w)' \subseteq S \cup {x}
    BY DEF S
  <1> DEFINE k == [i \in Owed(t, w)' |-> g[i]]
  <1>8. k \in Injection(Owed(t, w)', DOMAIN completions'[t])
    BY <1>6, <1>7, PlaceRestrict DEF c
  <1>9. ASSUME NEW i \in Owed(t, w)' PROVE completions'[t][k[i]] = records'[i].completed
    <2>1. k[i] = g[i] /\ records'[i].completed = records[i].completed
      BY OwedStep
    <2>2. CASE i = x
      BY <1>6, <2>1, <2>2 DEF c
    <2>3. CASE i # x
      <3>1. i \in S /\ i \in Owed(t, w)
        BY <1>7, <2>3 DEF S
      <3> QED BY <1>1, <1>4, <1>6, <2>1, <3>1 DEF c
    <2> QED BY <2>2, <2>3
  <1> HIDE DEF k
  <1> QED BY <1>8, <1>9 DEF Located

LEMMA LocatedPruned ==
    ASSUME Base, [Next]_vars, NEW t \in Targets, NEW w \in Nat, w <= Retention, Located(t, w),
           completions'[t] = Pruned(completions[t]), Owed(t, w)' \subseteq Owed(t, w)
    PROVE  Located(t, w)'
  <1> DEFINE c == completions[t]
  <1>1. PICK f \in Injection(Owed(t, w), DOMAIN c) :
            \A i \in Owed(t, w) : c[f[i]] = records[i].completed
    BY DEF Located
  <1>2. Slice(c) /\ clock \in Nat
    BY Slices DEF Base
  <1>3. \A i \in Owed(t, w) : c[f[i]] >= clock - Retention
    <2> SUFFICES ASSUME NEW i \in Owed(t, w) PROVE records[i].completed >= clock - Retention
      BY <1>1
    <2>1. records[i].completed \in Nat /\ records[i].completed >= clock - w
      BY OwedFacts
    <2> QED BY <1>2, <2>1, IntakeAssumption
  <1> HIDE DEF c
  <1>4. PICK g \in Injection(Owed(t, w), DOMAIN Pruned(c)) :
            \A i \in Owed(t, w) : Pruned(c)[g[i]] = c[f[i]]
    BY <1>2, <1>3, PlacePrune
  <1> DEFINE k == [i \in Owed(t, w)' |-> g[i]]
  <1>5. k \in Injection(Owed(t, w)', DOMAIN completions'[t])
    BY <1>4, PlaceRestrict DEF c
  <1>6. \A i \in Owed(t, w)' : completions'[t][k[i]] = records'[i].completed
    BY <1>1, <1>4, OwedStep DEF c
  <1> HIDE DEF k
  <1> QED BY <1>5, <1>6 DEF Located

LEMMA LocatedStep ==
    ASSUME Base, Durable, Fresh, Remembers, [Next]_vars, NEW t \in Targets,
           NEW w \in Nat, w <= Retention, w <= Longest, Located(t, w)
    PROVE  Located(t, w)'
  <1> USE DEF memoryVars
  <1>1. Typed /\ Timely /\ Faithful /\ Evolves
    BY EvolvesStep DEF Base
  <1>2. ASSUME finishing \subseteq finishing', loader = "list" => loader' = "list", listed' = listed
        PROVE  Owed(t, w)' \subseteq Owed(t, w)
    <2> SUFFICES ASSUME NEW i \in Owed(t, w)' PROVE i \in Owed(t, w)
      OBVIOUS
    <2>1. i \in SettledSince(t, clock - w) /\ loader # "list"
      BY <1>2, OwedStep
    <2>2. ~Pending(i)
      BY <1>2, OwedStep DEF Pending
    <2> QED BY <2>1, <2>2 DEF Owed
  <1>3. ASSUME finishing \subseteq finishing', loader = "list" => loader' = "list", listed' = listed,
               completions' = completions
        PROVE  Located(t, w)'
    BY <1>2, <1>3, LocatedKept
  <1>4. ASSUME Owed(t, w)' = {} PROVE Located(t, w)'
    <2> DEFINE f == [i \in {} |-> i]
    <2>1. f \in Injection({}, DOMAIN completions'[t])
      BY DEF Injection, IsInjective
    <2> HIDE DEF f
    <2> QED BY <1>4, <2>1 DEF Located
  <1>5. ASSUME NEW i \in Ids, RecordCompletion(i) PROVE Located(t, w)'
    <2>1. finishing' = finishing \ {i} /\ loader' = loader /\ listed' = listed
      BY <1>5 DEF RecordCompletion
    <2>2. Owed(t, w)' \subseteq Owed(t, w) \cup {i}
      <3> SUFFICES ASSUME NEW j \in Owed(t, w)', j # i PROVE j \in Owed(t, w)
        OBVIOUS
      <3>1. j \in SettledSince(t, clock - w) /\ loader # "list"
        BY <2>1, OwedStep
      <3>2. ~Pending(j)
        BY <2>1, OwedStep DEF Pending
      <3> QED BY <3>1, <3>2 DEF Owed
    <2>3. CASE Counts(i) /\ records[i].target = t
      <3>1. completions' = [completions EXCEPT ![t] = Insert(@, records[i].completed)]
        BY <1>5, <2>3 DEF RecordCompletion
      <3>2. completions'[t] = Insert(completions[t], records[i].completed)
        BY <1>1, <3>1, Slices
      <3>3. records[i].completed \in Nat
        BY <1>1, RecordTypes
      <3> QED BY <2>2, <3>2, <3>3, LocatedInserted
    <2>4. CASE ~(Counts(i) /\ records[i].target = t)
      <3>1. completions'[t] = completions[t]
        <4>1. CASE Counts(i)
          <5>1. completions' = [completions EXCEPT ![records[i].target] =
                                                     Insert(@, records[i].completed)]
            BY <1>5, <4>1 DEF RecordCompletion
          <5> QED BY <1>1, <2>4, <4>1, <5>1, Slices
        <4>2. CASE ~Counts(i)
          BY <1>5, <4>2 DEF RecordCompletion
        <4> QED BY <4>1, <4>2
      <3>2. i \notin Owed(t, w)'
        <4> SUFFICES ASSUME i \in Owed(t, w)' PROVE FALSE
          OBVIOUS
        <4>1. i \in Executions /\ records[i].target = t
          BY OwedStep
        <4> QED BY <2>4, <4>1 DEF Counts, Targets
      <3> QED BY <2>2, <3>1, <3>2, LocatedKept
    <2> QED BY <2>3, <2>4
  <1>6. ASSUME NEW i \in Ids, LoadRecord(i) PROVE Located(t, w)'
    <2> DEFINE r == listed[i]
    <2>1. /\ finishing' = finishing /\ loader' = loader /\ i \in DOMAIN listed
          /\ listed' = [j \in DOMAIN listed \ {i} |-> listed[j]] /\ loader # "list"
      BY <1>6 DEF LoadRecord
    <2>2. \A j : j # i => (Pending(j)' <=> Pending(j))
      BY <2>1 DEF Pending
    <2>3. Owed(t, w)' \subseteq Owed(t, w) \cup {i}
      <3> SUFFICES ASSUME NEW j \in Owed(t, w)', j # i PROVE j \in Owed(t, w)
        OBVIOUS
      <3>1. j \in SettledSince(t, clock - w) /\ ~Pending(j)'
        BY <2>1, OwedStep
      <3> QED BY <2>1, <2>2, <3>1 DEF Owed
    <2>4. /\ r.target = records[i].target
          /\ r.completed > 0 => r.completed = records[i].completed
          /\ r.completed \in Nat /\ records[i].completed \in Nat
      <3>1. r \in Record
        BY <1>1, <2>1 DEF Typed, TypeOK
      <3>2. r.completed \in Nat
        BY <3>1 DEF Record
      <3> QED BY <1>1, <2>1, <3>2, RecordTypes DEF Faithful
    <2>5. CASE r.completed > 0 /\ r.target = t
      <3>1. t # NoTarget
        BY DEF Targets
      <3>2. completions' = [completions EXCEPT ![t] = Insert(@, records[i].completed)]
        BY <1>6, <2>4, <2>5, <3>1 DEF LoadRecord
      <3>3. completions'[t] = Insert(completions[t], records[i].completed)
        BY <1>1, <3>2, Slices
      <3> QED BY <2>3, <2>4, <3>3, LocatedInserted
    <2>6. CASE ~(r.completed > 0 /\ r.target = t)
      <3>1. completions'[t] = completions[t]
        <4>1. CASE r.completed > 0 /\ r.target # NoTarget
          <5>1. completions' = [completions EXCEPT ![r.target] = Insert(@, r.completed)]
            BY <1>6, <4>1 DEF LoadRecord
          <5> QED BY <1>1, <2>6, <4>1, <5>1, Slices
        <4>2. CASE ~(r.completed > 0 /\ r.target # NoTarget)
          BY <1>6, <4>2 DEF LoadRecord
        <4> QED BY <4>1, <4>2
      <3>2. i \in Owed(t, w)' => i \in Owed(t, w)
        <4> SUFFICES ASSUME i \in Owed(t, w)' PROVE i \in Owed(t, w)
          OBVIOUS
        <4>1. i \in SettledSince(t, clock - w) /\ records[i].target = t
          BY <2>1, OwedStep
        <4>2. ~Pending(i)
          BY <2>4, <2>6, <4>1 DEF Pending
        <4> QED BY <2>1, <4>1, <4>2 DEF Owed
      <3> QED BY <2>3, <3>1, <3>2, LocatedKept
    <2> QED BY <2>5, <2>6
  <1>7. CASE PruneHistory \/ LoadDone
    <2>1. /\ finishing' = finishing /\ listed' = listed
          /\ loader' = loader \/ loader = "apply"
          /\ completions'[t] = Pruned(completions[t])
      BY <1>7 DEF PruneHistory, LoadDone
    <2> QED BY <1>2, <2>1, LocatedPruned
  <1>8. CASE LoadList
    <2>1. /\ finishing' = finishing /\ records' = records /\ loader = "list"
          /\ listed' = [i \in {j \in Executions : Stored(j)} |-> records[i]]
      BY <1>8 DEF LoadList
    <2>2. ASSUME NEW i \in Owed(t, w)' PROVE FALSE
      <3>1. /\ i \in Executions /\ i \in Ids /\ ~Pending(i)'
            /\ records[i].completed \in Nat \ {0} /\ records[i].completed >= clock - w
        BY OwedStep
      <3>2. ~Stored(i)
        <4> SUFFICES ASSUME Stored(i) PROVE FALSE
          OBVIOUS
        <4>1. i \in DOMAIN listed' /\ listed'[i] = records[i]
          BY <2>1, <3>1
        <4> QED BY <3>1, <4>1 DEF Pending
      <3>3. records[i].completed < clock - Longest
        BY <2>1, <3>1, <3>2, ReplayIsComplete DEF Gone
      <3>4. clock \in Nat /\ Longest \in Nat
        BY <1>1, RecordTypes, LongestCovers
      <3> QED BY <3>1, <3>3, <3>4
    <2> QED BY <1>4, <2>2
  <1>9. CASE Crash
    <2>1. loader' = "list"
      BY <1>9 DEF Crash
    <2>2. Owed(t, w)' = {}
      BY <2>1 DEF Owed
    <2> QED BY <1>4, <2>2
  <1>10. ASSUME NEW h \in Handlers, \/ (\E u \in AlertTargets : Consume(h, u)) \/ Create(h)
                                    \/ CreateFails(h) \/ RecordStart(h)
         PROVE  Located(t, w)'
    BY <1>3, <1>10 DEF Consume, Create, CreateFails, RecordStart
  <1>11. ASSUME NEW i \in Ids, StartExecution(i) \/ Complete(i) \/ Observe(i)
         PROVE  Located(t, w)'
    BY <1>3, <1>11 DEF StartExecution, Complete, Observe
  <1>12. CASE Sweep \/ Tick \/ UNCHANGED vars
    BY <1>3, <1>12 DEF Sweep, Tick, vars
  <1> QED BY <1>5, <1>6, <1>7, <1>8, <1>9, <1>10, <1>11, <1>12 DEF Next

\* A delivery gets past the guards by Consume, and its answer is theirs.
LEMMA HandlerMoves ==
    ASSUME Typed, [Next]_vars, NEW h \in Handlers
    PROVE  \/ handler'[h] = handler[h]
           \/ handler'[h].at \in {"idle", "start"}
           \/ \E t \in AlertTargets : Consume(h, t)
  <1>1. DOMAIN handler = Handlers
    BY DEF Typed, TypeOK
  <1>2. ASSUME NEW g \in Handlers, NEW t \in AlertTargets, Consume(g, t), g # h
        PROVE  handler'[h] = handler[h]
    BY <1>1, <1>2 DEF Consume
  <1>3. ASSUME NEW g \in Handlers, Create(g)
        PROVE  handler'[h] = handler[h] \/ handler'[h].at \in {"idle", "start"}
    <2>1. CASE g # h
      BY <1>1, <1>3, <2>1 DEF Create
    <2>2. CASE g = h
      <3>1. \/ handler'[h] = [handler[h] EXCEPT !.at = "start"]
            \/ handler'[h] = Idle
        BY <1>1, <1>3, <2>2 DEF Create
      <3>2. handler[h] \in [at : {"idle", "create", "giveUp", "start"},
                            target : AlertTargets \cup {NoTarget}]
        BY DEF Typed, TypeOK
      <3> QED BY <3>1, <3>2 DEF Idle
    <2> QED BY <2>1, <2>2
  <1>4. ASSUME NEW g \in Handlers, CreateFails(g) \/ RecordStart(g)
        PROVE  handler'[h] = handler[h] \/ handler'[h].at \in {"idle", "start"}
    <2>1. handler' = [handler EXCEPT ![g] = Idle]
      BY <1>4 DEF CreateFails, RecordStart
    <2> QED BY <1>1, <2>1 DEF Idle
  <1>5. ASSUME NEW i \in Ids, \/ StartExecution(i) \/ Complete(i) \/ RecordCompletion(i)
                              \/ Observe(i) \/ LoadRecord(i)
        PROVE  handler' = handler
    BY <1>5 DEF StartExecution, Complete, RecordCompletion, Observe, LoadRecord
  <1>6. CASE Sweep \/ PruneHistory \/ LoadList \/ LoadDone \/ Tick \/ UNCHANGED vars
    BY <1>6 DEF Sweep, PruneHistory, LoadList, LoadDone, Tick, vars
  <1>7. CASE Crash
    BY <1>7 DEF Crash, Idle
  <1> QED BY <1>2, <1>3, <1>4, <1>5, <1>6, <1>7 DEF Next

LEMMA AllowsAsked ==
    ASSUME Typed, [Next]_vars, NEW h \in Handlers, Allows(h)
    PROVE  LET t == handler'[h].target
           IN  /\ t \in AlertTargets /\ loader = "warm"
               /\ ~CoolingDown(t) /\ ~RateReached /\ ~KeepsComingBack(t)
               /\ Consume(h, t)
  <1>1. PICK t \in AlertTargets : Consume(h, t)
    BY HandlerMoves DEF Allows
  <1>2. loader = "warm" /\ Evaluate(t) = "allowed" /\ handler'[h].target = t
    BY <1>1 DEF Consume, Allows, Typed, TypeOK
  <1>3. ~CoolingDown(t) /\ ~RateReached /\ ~KeepsComingBack(t)
    BY <1>2 DEF Evaluate
  <1> QED BY <1>1, <1>2, <1>3

LEMMA ConcludesAsked ==
    ASSUME Typed, [Next]_vars, NEW h \in Handlers, Concludes(h)
    PROVE  LET t == handler'[h].target
           IN  t \in AlertTargets /\ KeepsComingBack(t)
  <1>1. PICK t \in AlertTargets : Consume(h, t)
    BY HandlerMoves DEF Concludes
  <1>2. Evaluate(t) = "giveUpAfter" /\ handler'[h].target = t
    BY <1>1 DEF Consume, Concludes, Typed, TypeOK
  <1>3. KeepsComingBack(t)
    BY <1>2 DEF Evaluate
  <1> QED BY <1>1, <1>2, <1>3

\* When the gateway accepts, everything that is settled is owed.
LEMMA WarmOwesAll ==
    ASSUME Base, loader = "warm", NEW t, NEW w
    PROVE  Owed(t, w) = SettledSince(t, clock - w)
  BY DEF Base, Faithful, Owed, Pending

\* What holds of the memory of completions for a window of length w.
Remembered(w) ==
    Base /\ Durable /\ Fresh /\ \A t \in Targets : Located(t, w)

LEMMA RememberedInit ==
    ASSUME Init, NEW w \in Nat
    PROVE  Remembered(w)
  <1>1. Base /\ Ids = {} /\ Executions = {}
    BY BaseInit DEF Init, Ids, Executions
  <1>2. ASSUME NEW t \in Targets PROVE Located(t, w)
    <2>1. Owed(t, w) = {}
      BY <1>1 DEF Owed, SettledSince, CompletedSince
    <2> DEFINE f == [i \in {} |-> i]
    <2>2. f \in Injection({}, DOMAIN completions[t])
      BY DEF Injection, IsInjective
    <2> HIDE DEF f
    <2> QED BY <2>1, <2>2 DEF Located
  <1> QED BY <1>1, <1>2 DEF Remembered, Durable, Fresh

LEMMA RememberedStep ==
    ASSUME Remembers, NEW w \in Nat, w <= Retention, w <= Longest, Remembered(w), [Next]_vars
    PROVE  Remembered(w)'
  BY BaseStep, DurableStep, FreshStep, LocatedStep DEF Remembered

\* The cooldown holds across restarts, replays, sweeps and expiry
\* (evaluateCooldown), provided the in-memory history keeps entries for as long,
\* and either prune never has an excess to delete or the process never restarts.
THEOREM CooldownHolds ==
    ASSUME Remembers, Cooldown <= Retention
    PROVE  Spec => CooldownHonoured
  <1>1. Cooldown \in Nat /\ Cooldown <= Longest
    BY IntakeAssumption, LongestCovers
  <1>2. Init => Remembered(Cooldown)
    BY <1>1, RememberedInit
  <1>3. Remembered(Cooldown) /\ [Next]_vars => Remembered(Cooldown)'
    BY <1>1, RememberedStep
  <1>4. ASSUME Remembered(Cooldown), [Next]_vars, NEW h \in Handlers, Allows(h),
               handler'[h].target # NoTarget
        PROVE  SettledSince(handler'[h].target, clock - Cooldown + 1) = {}
    <2> DEFINE t == handler'[h].target
               c == completions[t]
    <2>1. Base /\ Typed /\ clock \in Nat
      BY <1>4, RecordTypes DEF Remembered, Base
    <2>2. t \in Targets /\ loader = "warm" /\ ~CoolingDown(t)
      BY <1>4, <2>1, AllowsAsked DEF Targets
    <2>3. PICK f \in Injection(Owed(t, Cooldown), DOMAIN c) :
            \A i \in Owed(t, Cooldown) : c[f[i]] = records[i].completed
      BY <1>4, <2>2 DEF Remembered, Located
    <2>4. Slice(c) /\ CompletionsOf(t) = c
      BY <1>4, <2>1, <2>2, Slices DEF CompletionsOf
    <2> HIDE DEF t, c
    <2> SUFFICES ASSUME NEW i \in SettledSince(t, clock - Cooldown + 1) PROVE FALSE
      BY DEF t
    <2>5. /\ i \in Executions /\ i \in Ids /\ i \notin finishing /\ records[i].target = t
          /\ records[i].completed > 0 /\ records[i].completed >= clock - Cooldown + 1
          /\ records[i].completed \in Nat /\ records[i].completed <= clock
      <3>1. /\ i \in Executions /\ i \notin finishing /\ records[i].target = t
            /\ records[i].completed > 0 /\ records[i].completed >= clock - Cooldown + 1
        BY DEF SettledSince, CompletedSince
      <3>2. i \in Ids
        BY <3>1 DEF Executions
      <3>3. records[i].completed \in Nat /\ records[i].created \in Nat
            /\ records[i].completed \in records[i].created .. clock
        BY <2>1, <3>1, <3>2, RecordTypes DEF Base, Timely
      <3> QED BY <2>1, <3>1, <3>2, <3>3
    <2>6. i \in Owed(t, Cooldown)
      <3>1. records[i].completed >= clock - Cooldown
        BY <1>1, <2>1, <2>5
      <3>2. i \in SettledSince(t, clock - Cooldown)
        BY <2>5, <3>1 DEF SettledSince, CompletedSince
      <3> QED BY <2>1, <2>2, <3>2, WarmOwesAll
    <2>7. f[i] \in 1 .. Len(c) /\ c[f[i]] = records[i].completed /\ Len(c) \in Nat
      BY <2>3, <2>4, <2>6 DEF Injection, Slice
    <2>8. c # <<>> /\ Last(c) = c[Len(c)] /\ c[Len(c)] >= c[f[i]] /\ c[Len(c)] \in Nat
      <3>1. DOMAIN c = 1 .. Len(c) /\ c \in Seq(Nat) /\ Len(c) \in DOMAIN c
        BY <2>4, <2>7 DEF Slice
      <3>2. c[Len(c)] \in Nat /\ c[f[i]] \in Nat
        BY <2>7, <3>1
      <3>3. f[i] = Len(c) \/ f[i] < Len(c)
        BY <2>7
      <3>4. c[f[i]] <= c[Len(c)]
        BY <2>4, <2>7, <3>1, <3>2, <3>3 DEF Slice, Ascending
      <3> QED BY <2>7, <3>1, <3>2, <3>4 DEF Last
    <2>9. Cooldown > 0 /\ clock - Last(c) < Cooldown
      BY <1>1, <2>1, <2>5, <2>7, <2>8
    <2> QED BY <2>2, <2>4, <2>8, <2>9 DEF CoolingDown
  <1>5. Remembered(Cooldown) /\ [Next]_vars =>
          [\A h \in Handlers : Allows(h) /\ handler'[h].target # NoTarget =>
              SettledSince(handler'[h].target, clock - Cooldown + 1) = {}]_vars
    BY <1>4
  <1> QED BY <1>2, <1>3, <1>5, PTL DEF Spec, CooldownHonoured

\* giveUpAfter stops (evaluateGiveUp), across restarts, sweeps and expiry, under
\* the same provisos as the cooldown and with a window that is set.
THEOREM GiveUpHolds ==
    ASSUME Remembers, GiveUpWithin > 0, GiveUpWithin <= Retention
    PROVE  Spec => GiveUpHonoured
  <1> DEFINE w == GiveUpWithin
  <1>1. w \in Nat /\ w <= Longest /\ GiveUpCount \in Nat
    BY IntakeAssumption, LongestCovers
  <1>2. Init => Remembered(w)
    BY <1>1, RememberedInit
  <1>3. Remembered(w) /\ [Next]_vars => Remembered(w)'
    BY <1>1, RememberedStep
  <1>4. ASSUME Remembered(w), [Next]_vars, NEW h \in Handlers, Allows(h),
               handler'[h].target # NoTarget, GiveUpCount > 0
        PROVE  Cardinality(SettledSince(handler'[h].target, clock - GiveUpWithin)) < GiveUpCount
    <2> DEFINE t == handler'[h].target
               c == completions[t]
               S == Owed(t, w)
               T == {k \in DOMAIN c : c[k] >= clock - w}
    <2>1. Base /\ Typed /\ clock \in Nat
      BY <1>4, RecordTypes DEF Remembered, Base
    <2>2. t \in Targets /\ loader = "warm" /\ ~KeepsComingBack(t)
      BY <1>4, <2>1, AllowsAsked DEF Targets
    <2>3. PICK f \in Injection(S, DOMAIN c) : \A i \in S : c[f[i]] = records[i].completed
      BY <1>4, <2>2 DEF Remembered, Located
    <2>4. Slice(c) /\ CompletionsOf(t) = c
      BY <1>4, <2>1, <2>2, Slices DEF CompletionsOf
    <2>5. \A i \in S : records[i].completed >= clock - w
      BY <1>1, <2>1, OwedFacts
    <2>6. SettledSince(t, clock - GiveUpWithin) = S
      BY <2>1, <2>2, WarmOwesAll
    <2> HIDE DEF t, c, S
    <2>7. clock - w \in Int
      BY <1>1, <2>1
    <2>8. IsFiniteSet(T) /\ CountSince(c, clock - w) = Cardinality(T)
      BY <2>4, <2>7, CountIsExact
    <2>9. f \in Injection(S, T)
      BY <2>3, <2>5 DEF Injection, IsInjective
    <2> HIDE DEF T
    <2>10. IsFiniteSet(S) /\ Cardinality(S) <= Cardinality(T)
      BY <2>8, <2>9, FS_Injection
    <2>11. ~(CountSince(c, clock - w) >= GiveUpCount)
      BY <1>4, <2>2, <2>4 DEF KeepsComingBack
    <2>12. Cardinality(S) \in Nat /\ Cardinality(T) \in Nat
      BY <2>8, <2>10, FS_CardinalityType
    <2> QED BY <1>1, <2>6, <2>8, <2>10, <2>11, <2>12 DEF t
  <1>5. Remembered(w) /\ [Next]_vars =>
          [\A h \in Handlers :
             Allows(h) /\ handler'[h].target # NoTarget /\ GiveUpCount > 0 =>
               LET done == SettledSince(handler'[h].target, clock - GiveUpWithin)
               IN  Cardinality(done) < GiveUpCount]_vars
    BY <1>4
  <1> QED BY <1>2, <1>3, <1>5, PTL DEF Spec, GiveUpHonoured

-----------------------------------------------------------------------------
(* Completions: nothing is counted that did not happen *)

\* Why the memory may have an entry: the pass of an execution has counted it, or
\* the replay has.  Each is a reason for one entry.
Credits(t) ==
    {c \in Executions \X {"pass", "replay"} :
       /\ records[c[1]].target = t /\ records[c[1]].completed > 0
       /\ IF c[2] = "pass" THEN c[1] \notin finishing
                           ELSE loader # "list" /\ c[1] \notin DOMAIN listed}

Earned(t) ==
    \E g \in Injection(DOMAIN completions[t], Credits(t)) :
        \A k \in DOMAIN completions[t] : completions[t][k] = records[g[k][1]].completed

LEMMA LoaderStep ==
    ASSUME [Next]_vars, loader' = "list"
    PROVE  loader = "list" \/ Crash
  <1> USE DEF memoryVars
  <1>1. ASSUME NEW h \in Handlers, \/ (\E t \in AlertTargets : Consume(h, t)) \/ Create(h)
                                   \/ CreateFails(h) \/ RecordStart(h)
        PROVE  loader' = loader
    BY <1>1 DEF Consume, Create, CreateFails, RecordStart
  <1>2. ASSUME NEW i \in Ids, \/ StartExecution(i) \/ Complete(i) \/ RecordCompletion(i)
                              \/ Observe(i) \/ LoadRecord(i)
        PROVE  loader' = loader
    BY <1>2 DEF StartExecution, Complete, RecordCompletion, Observe, LoadRecord
  <1>3. CASE Sweep \/ PruneHistory \/ LoadList \/ LoadDone \/ Tick \/ UNCHANGED vars
    BY <1>3 DEF Sweep, PruneHistory, LoadList, LoadDone, Tick, vars
  <1> QED BY <1>1, <1>2, <1>3 DEF Next

\* Short of a restart a credit stays, and so does the time it stands for.
LEMMA CreditsGrow ==
    ASSUME Base, [Next]_vars, ~Crash, NEW t, NEW c \in Credits(t)
    PROVE  /\ c \in Credits(t)' /\ records'[c[1]].completed = records[c[1]].completed
  <1> DEFINE i == c[1]
  <1>1. Evolves /\ Typed
    BY EvolvesStep DEF Base
  <1>2. /\ c \in Executions \X {"pass", "replay"} /\ i \in Executions
        /\ records[i].target = t /\ records[i].completed > 0
        /\ c[2] = "pass" => i \notin finishing
        /\ c[2] # "pass" => loader # "list" /\ i \notin DOMAIN listed
    BY DEF Credits
  <1> HIDE DEF i
  <1>3. i \in Ids
    BY <1>2 DEF Executions
  <1>4. records[i].completed \in Nat
    BY <1>1, <1>3, RecordTypes
  <1>5. records'[i].completed = records[i].completed /\ Steady(i) /\ i \in Ids'
    BY <1>1, <1>2, <1>3, <1>4 DEF Evolves
  <1>6. i \in Executions' /\ records'[i].target = t
    BY <1>2, <1>5 DEF Steady, Executions
  <1>7. c \in (Executions \X {"pass", "replay"})'
    BY <1>2, <1>6 DEF i
  <1>8. c[2] = "pass" => i \notin finishing'
    <2> SUFFICES ASSUME i \in finishing', c[2] = "pass" PROVE FALSE
      OBVIOUS
    <2>1. Complete(i)
      BY <1>1, <1>2, FinishingStep
    <2> QED BY <1>2, <1>4, <2>1 DEF Complete
  <1>9. c[2] # "pass" => loader' # "list" /\ i \notin DOMAIN listed'
    <2> SUFFICES ASSUME c[2] # "pass" PROVE loader' # "list" /\ i \notin DOMAIN listed'
      OBVIOUS
    <2>1. loader # "list" /\ i \notin DOMAIN listed
      BY <1>2
    <2>2. ~LoadList
      BY <2>1 DEF LoadList
    <2> QED BY <1>1, <2>1, <2>2, LoaderStep, ListedStep
  <1> QED BY <1>2, <1>5, <1>6, <1>7, <1>8, <1>9 DEF Credits, i

LEMMA EarnedKept ==
    ASSUME Base, [Next]_vars, ~Crash, NEW t, Earned(t), completions'[t] = completions[t]
    PROVE  Earned(t)'
  <1>1. PICK g \in Injection(DOMAIN completions[t], Credits(t)) :
            \A k \in DOMAIN completions[t] : completions[t][k] = records[g[k][1]].completed
    BY DEF Earned
  <1>2. \A k \in DOMAIN completions[t] : g[k] \in Credits(t)
    BY DEF Injection
  <1>3. g \in Injection(DOMAIN completions'[t], Credits(t)')
    BY CreditsGrow DEF Injection
  <1> QED BY <1>1, <1>2, <1>3, CreditsGrow DEF Earned

LEMMA EarnedInserted ==
    ASSUME Base, [Next]_vars, ~Crash, NEW t \in Targets, Earned(t),
           NEW c, c \in Credits(t)', c \notin Credits(t), NEW v \in Nat,
           v = records'[c[1]].completed, completions'[t] = Insert(completions[t], v)
    PROVE  Earned(t)'
  <1> DEFINE s == completions[t]
             C == Credits(t)
             D == Credits(t)'
  <1>1. PICK g \in Injection(DOMAIN s, C) : \A k \in DOMAIN s : s[k] = records[g[k][1]].completed
    BY DEF Earned
  <1>2. Slice(s)
    BY Slices DEF Base
  <1>3. \A k \in DOMAIN s : g[k] \in C
    BY DEF Injection
  <1>4. C \subseteq D
    BY CreditsGrow
  <1>5. \A k \in DOMAIN s : records'[g[k][1]].completed = records[g[k][1]].completed
    BY <1>3, CreditsGrow
  <1>6. c \in D /\ \A k \in DOMAIN s : g[k] # c
    BY <1>3
  <1> HIDE DEF s, C, D
  <1>7. PICK f \in Injection(DOMAIN Insert(s, v), D) :
            \A k \in DOMAIN Insert(s, v) :
               \/ f[k] = c /\ Insert(s, v)[k] = v
               \/ \E j \in DOMAIN s : f[k] = g[j] /\ Insert(s, v)[k] = s[j]
    BY <1>2, <1>4, <1>6, SourceInsert
  <1>8. completions'[t] = Insert(s, v)
    BY DEF s
  <1>9. \A k \in DOMAIN Insert(s, v) : Insert(s, v)[k] = records'[f[k][1]].completed
    BY <1>1, <1>5, <1>7
  <1> QED BY <1>7, <1>8, <1>9 DEF Earned, D

LEMMA EarnedPruned ==
    ASSUME Base, [Next]_vars, ~Crash, NEW t \in Targets, Earned(t),
           completions'[t] = Pruned(completions[t])
    PROVE  Earned(t)'
  <1> DEFINE s == completions[t]
             C == Credits(t)
  <1>1. PICK g \in Injection(DOMAIN s, C) : \A k \in DOMAIN s : s[k] = records[g[k][1]].completed
    BY DEF Earned
  <1>2. Slice(s) /\ clock \in Nat
    BY Slices DEF Base
  <1>3. \A k \in DOMAIN s : g[k] \in C
    BY DEF Injection
  <1>4. \A k \in DOMAIN s : records'[g[k][1]].completed = records[g[k][1]].completed
    BY <1>3, CreditsGrow
  <1>5. C \subseteq Credits(t)'
    BY CreditsGrow
  <1> HIDE DEF s, C
  <1>6. PICK f \in Injection(DOMAIN Pruned(s), C) :
            \A k \in DOMAIN Pruned(s) :
               \E j \in DOMAIN s : f[k] = g[j] /\ Pruned(s)[k] = s[j]
    BY <1>2, SourcePrune
  <1>7. \A k \in DOMAIN Pruned(s) : Pruned(s)[k] = records'[f[k][1]].completed
    BY <1>1, <1>4, <1>6
  <1>8. f \in Injection(DOMAIN Pruned(s), Credits(t)')
    BY <1>5, <1>6 DEF Injection
  <1>9. completions'[t] = Pruned(s)
    BY DEF s
  <1> QED BY <1>7, <1>8, <1>9 DEF Earned

LEMMA EarnedStep ==
    ASSUME Base, [Next]_vars, NEW t \in Targets, Earned(t)
    PROVE  Earned(t)'
  <1> USE DEF memoryVars
  <1>1. Typed /\ Timely /\ Faithful /\ Evolves
    BY EvolvesStep DEF Base
  <1>2. CASE Crash
    <2>1. completions'[t] = <<>>
      BY <1>2 DEF Crash
    <2> DEFINE f == [i \in {} |-> i]
    <2>2. f \in Injection({}, Credits(t)')
      BY DEF Injection, IsInjective
    <2>3. DOMAIN completions'[t] = {}
      BY <2>1
    <2> HIDE DEF f
    <2> QED BY <2>2, <2>3 DEF Earned
  <1>3. ASSUME ~Crash, completions' = completions PROVE Earned(t)'
    BY <1>3, EarnedKept
  <1>4. ASSUME ~Crash, NEW i \in Ids, RecordCompletion(i) PROVE Earned(t)'
    <2>1. finishing' = finishing \ {i} /\ i \in finishing
      BY <1>4 DEF RecordCompletion
    <2>2. CASE Counts(i) /\ records[i].target = t
      <3> DEFINE c == <<i, "pass">>
      <3>1. completions' = [completions EXCEPT ![t] = Insert(@, records[i].completed)]
        BY <1>4, <2>2 DEF RecordCompletion
      <3>2. completions'[t] = Insert(completions[t], records[i].completed)
        BY <1>1, <3>1, Slices
      <3>3. records[i].completed \in Nat /\ records[i].completed > 0 /\ i \in Executions
        BY <1>1, <2>1, <2>2, RecordTypes DEF Timely, Counts
      <3>4. records'[i].completed = records[i].completed /\ Steady(i) /\ i \in Ids'
        BY <1>1, <3>3 DEF Evolves
      <3>5. i \in Executions' /\ records'[i].target = t
        BY <2>2, <3>3, <3>4 DEF Executions, Steady
      <3>6. c \in (Executions \X {"pass", "replay"})' /\ c[1] = i /\ c[2] = "pass"
        BY <3>5
      <3> HIDE DEF c
      <3>7. c \in Credits(t)' /\ c \notin Credits(t)
        BY <2>1, <3>3, <3>4, <3>5, <3>6 DEF Credits
      <3> QED BY <1>4, <3>2, <3>3, <3>4, <3>6, <3>7, EarnedInserted
    <2>3. CASE ~(Counts(i) /\ records[i].target = t)
      <3>1. completions'[t] = completions[t]
        <4>1. CASE Counts(i)
          <5>1. completions' = [completions EXCEPT ![records[i].target] =
                                                     Insert(@, records[i].completed)]
            BY <1>4, <4>1 DEF RecordCompletion
          <5> QED BY <1>1, <2>3, <4>1, <5>1, Slices
        <4>2. CASE ~Counts(i)
          BY <1>4, <4>2 DEF RecordCompletion
        <4> QED BY <4>1, <4>2
      <3> QED BY <1>4, <3>1, EarnedKept
    <2> QED BY <2>2, <2>3
  <1>5. ASSUME ~Crash, NEW i \in Ids, LoadRecord(i) PROVE Earned(t)'
    <2> DEFINE r == listed[i]
    <2>1. /\ loader' = loader /\ i \in DOMAIN listed /\ records' = records /\ loader # "list"
          /\ listed' = [j \in DOMAIN listed \ {i} |-> listed[j]]
      BY <1>5 DEF LoadRecord
    <2>2. /\ r.target = records[i].target
          /\ r.completed > 0 => r.completed = records[i].completed
          /\ records[i].completed \in Nat /\ i \in Executions
      <3>1. i \in Executions
        BY <1>1, <2>1 DEF Typed, TypeOK
      <3> QED BY <1>1, <2>1, <3>1, RecordTypes DEF Faithful
    <2>3. CASE r.completed > 0 /\ r.target = t
      <3> DEFINE c == <<i, "replay">>
      <3>1. t # NoTarget
        BY DEF Targets
      <3>2. completions' = [completions EXCEPT ![t] = Insert(@, records[i].completed)]
        BY <1>5, <2>2, <2>3, <3>1 DEF LoadRecord
      <3>3. completions'[t] = Insert(completions[t], records[i].completed)
        BY <1>1, <3>2, Slices
      <3>4. i \in Executions' /\ i \notin DOMAIN listed'
        BY <2>1, <2>2 DEF Executions, Ids
      <3>5. c \in (Executions \X {"pass", "replay"})' /\ c[1] = i /\ c[2] # "pass"
        BY <3>4
      <3> HIDE DEF c
      <3>6. c \in Credits(t)'
        BY <2>1, <2>2, <2>3, <3>4, <3>5 DEF Credits
      <3>7. c \notin Credits(t)
        BY <2>1, <3>5 DEF Credits
      <3> QED BY <1>5, <2>1, <2>2, <3>3, <3>5, <3>6, <3>7, EarnedInserted
    <2>4. CASE ~(r.completed > 0 /\ r.target = t)
      <3>1. completions'[t] = completions[t]
        <4>1. CASE r.completed > 0 /\ r.target # NoTarget
          <5>1. completions' = [completions EXCEPT ![r.target] = Insert(@, r.completed)]
            BY <1>5, <4>1 DEF LoadRecord
          <5> QED BY <1>1, <2>4, <4>1, <5>1, Slices
        <4>2. CASE ~(r.completed > 0 /\ r.target # NoTarget)
          BY <1>5, <4>2 DEF LoadRecord
        <4> QED BY <4>1, <4>2
      <3> QED BY <1>5, <3>1, EarnedKept
    <2> QED BY <2>3, <2>4
  <1>6. ASSUME ~Crash, PruneHistory \/ LoadDone PROVE Earned(t)'
    <2>1. completions'[t] = Pruned(completions[t])
      BY <1>6 DEF PruneHistory, LoadDone
    <2> QED BY <1>6, <2>1, EarnedPruned
  <1>7. ASSUME NEW h \in Handlers, \/ (\E u \in AlertTargets : Consume(h, u)) \/ Create(h)
                                   \/ CreateFails(h) \/ RecordStart(h)
        PROVE  completions' = completions
    BY <1>7 DEF Consume, Create, CreateFails, RecordStart
  <1>8. ASSUME NEW i \in Ids, StartExecution(i) \/ Complete(i) \/ Observe(i)
        PROVE  completions' = completions
    BY <1>8 DEF StartExecution, Complete, Observe
  <1>9. ASSUME Sweep \/ LoadList \/ Tick \/ UNCHANGED vars PROVE completions' = completions
    BY <1>9 DEF Sweep, LoadList, Tick, vars
  <1> QED BY <1>2, <1>3, <1>4, <1>5, <1>6, <1>7, <1>8, <1>9 DEF Next

LEMMA IdsFinite ==
    ASSUME Typed, NEW S \in SUBSET Ids
    PROVE  IsFiniteSet(S) /\ Cardinality(S) \in Nat
  <1>1. Ids = 1 .. Len(records) /\ Len(records) \in Int
    BY DEF Typed, TypeOK, Ids
  <1>2. IsFiniteSet(Ids)
    <2>1. IsFiniteSet(1 .. Len(records))
      BY <1>1, FS_Interval
    <2> QED BY <1>1, <2>1
  <1> QED BY <1>2, FS_Subset, FS_CardinalityType

\* A give-up rests on executions of that target that really completed inside the
\* window (evaluateGiveUp): at least half as many as it counts, since a restart
\* can make the replay and the finishing pass count the same one.
THEOREM GiveUpEarned == Spec => GiveUpIsEarned
  <1> DEFINE Inv == Base /\ \A t \in Targets : Earned(t)
             w == GiveUpWithin
  <1>1. Init => Inv
    <2> SUFFICES ASSUME Init, NEW t \in Targets PROVE Earned(t)
      BY BaseInit
    <2>1. DOMAIN completions[t] = {}
      BY DEF Init
    <2> DEFINE f == [i \in {} |-> i]
    <2>2. f \in Injection({}, Credits(t))
      BY DEF Injection, IsInjective
    <2> HIDE DEF f
    <2> QED BY <2>1, <2>2 DEF Earned
  <1>2. Inv /\ [Next]_vars => Inv'
    BY BaseStep, EarnedStep
  <1>3. ASSUME Inv, [Next]_vars, NEW h \in Handlers, Concludes(h)
        PROVE  2 * Cardinality(CompletedSince(handler'[h].target, clock - GiveUpWithin))
                 >= GiveUpCount
    <2> DEFINE t == handler'[h].target
               c == CompletionsOf(t)
               since == clock - w
               T == {k \in DOMAIN c : c[k] >= since}
               done == CompletedSince(t, since)
               P == {"pass", "replay"}
    <2>1. Base /\ Typed /\ clock \in Nat /\ w \in Nat /\ GiveUpCount \in Nat
      BY <1>3, RecordTypes, IntakeAssumption DEF Base
    <2>2. t \in AlertTargets /\ CountSince(c, since) >= GiveUpCount /\ GiveUpCount > 0
      BY <1>3, <2>1, ConcludesAsked DEF KeepsComingBack
    <2>3. since \in Int
      BY <2>1
    <2>4. Slice(c)
      BY <2>1, <2>2, Slices, EmptyIsSlice DEF CompletionsOf, Targets
    <2>5. IsFiniteSet(T) /\ CountSince(c, since) = Cardinality(T)
      BY <2>3, <2>4, CountIsExact
    <2>6. t # NoTarget
      <3> SUFFICES ASSUME t = NoTarget PROVE FALSE
        OBVIOUS
      <3>1. T = {}
        BY DEF CompletionsOf
      <3> HIDE DEF T
      <3> QED BY <2>1, <2>2, <2>5, <3>1, FS_EmptySet
    <2>7. t \in Targets /\ c = completions[t]
      BY <2>2, <2>6 DEF Targets, CompletionsOf
    <2>8. PICK g \in Injection(DOMAIN c, Credits(t)) :
            \A k \in DOMAIN c : c[k] = records[g[k][1]].completed
      BY <1>3, <2>7 DEF Earned
    <2> HIDE DEF t, c, since
    <2>9. \A k \in T : g[k] \in done \X P
      <3> SUFFICES ASSUME NEW k \in T PROVE g[k] \in done \X P
        OBVIOUS
      <3>1. g[k] \in Credits(t) /\ c[k] = records[g[k][1]].completed /\ c[k] >= since
        BY <2>8 DEF Injection
      <3>2. /\ g[k] \in Executions \X P /\ g[k][1] \in Executions
            /\ records[g[k][1]].target = t /\ records[g[k][1]].completed > 0
        BY <3>1 DEF Credits
      <3>3. g[k][1] \in done
        BY <3>1, <3>2 DEF CompletedSince
      <3> QED BY <3>2, <3>3
    <2> DEFINE e == [k \in T |-> g[k]]
    <2>10. e \in Injection(T, done \X P)
      <3>1. \A k, l \in T : g[k] = g[l] => k = l
        BY <2>8 DEF Injection, IsInjective
      <3>2. e \in [T -> done \X P]
        BY <2>9
      <3> HIDE DEF T, done, P
      <3> QED BY <3>1, <3>2 DEF Injection, IsInjective
    <2>11. IsFiniteSet(done) /\ Cardinality(done) \in Nat
      <3>1. done \subseteq Ids
        BY DEF CompletedSince, Executions
      <3> QED BY <2>1, <3>1, IdsFinite
    <2>12. IsFiniteSet(P) /\ Cardinality(P) = 2
      <3>1. IsFiniteSet({"pass"}) /\ Cardinality({"pass"}) = 1
        BY FS_Singleton
      <3>2. P = {"pass"} \cup {"replay"} /\ "replay" \notin {"pass"}
        OBVIOUS
      <3> QED BY <3>1, <3>2, FS_AddElement
    <2> HIDE DEF T, done, P, e
    <2>13. IsFiniteSet(done \X P) /\ Cardinality(done \X P) = Cardinality(done) * Cardinality(P)
      BY <2>11, <2>12, FS_Product
    <2>14. Cardinality(T) <= Cardinality(done \X P)
      BY <2>10, <2>13, FS_Injection
    <2>15. Cardinality(T) \in Nat
      BY <2>5, FS_CardinalityType
    <2>16. 2 * Cardinality(done) >= GiveUpCount
      BY <2>1, <2>2, <2>5, <2>11, <2>12, <2>13, <2>14, <2>15
    <2> QED BY <2>16 DEF done, t, since
  <1>4. Inv /\ [Next]_vars =>
          [\A h \in Handlers : Concludes(h) =>
             LET done == CompletedSince(handler'[h].target, clock - GiveUpWithin)
             IN  2 * Cardinality(done) >= GiveUpCount]_vars
    BY <1>3
  <1> QED BY <1>1, <1>2, <1>4, PTL DEF Spec, GiveUpIsEarned

-----------------------------------------------------------------------------
(* Starts: what the rate limit counts *)

\* Each record of S has an entry of its own in slice s that is not older than its
\* creation.
Placed(S, s, r) ==
    \E f \in Injection(S, DOMAIN s) : \A i \in S : s[f[i]] >= r[i].created

LEMMA PlacedFewer ==
    ASSUME NEW S, NEW s, NEW r, NEW q, Placed(S, s, r), NEW R \in SUBSET S,
           \A i \in R : q[i].created = r[i].created
    PROVE  Placed(R, s, q)
  <1>1. PICK f \in Injection(S, DOMAIN s) : \A i \in S : s[f[i]] >= r[i].created
    BY DEF Placed
  <1> DEFINE g == [i \in R |-> f[i]]
  <1>2. g \in Injection(R, DOMAIN s)
    BY PlaceRestrict
  <1>3. \A i \in R : s[g[i]] >= q[i].created
    BY <1>1
  <1> HIDE DEF g
  <1> QED BY <1>2, <1>3 DEF Placed

LEMMA PlacedInsert ==
    ASSUME NEW s, Slice(s), NEW v \in Nat, NEW S, NEW r, Placed(S, s, r),
           NEW x, x \notin S, v >= r[x].created
    PROVE  Placed(S \cup {x}, Insert(s, v), r)
  <1>1. PICK f \in Injection(S, DOMAIN s) : \A i \in S : s[f[i]] >= r[i].created
    BY DEF Placed
  <1>2. PICK g \in Injection(S \cup {x}, DOMAIN Insert(s, v)) :
           /\ Insert(s, v)[g[x]] = v
           /\ \A i \in S : Insert(s, v)[g[i]] = s[f[i]]
    BY PlaceInsert
  <1>3. \A i \in S \cup {x} : Insert(s, v)[g[i]] >= r[i].created
    BY <1>1, <1>2
  <1> QED BY <1>2, <1>3 DEF Placed

LEMMA PlacedBeside ==
    ASSUME NEW s, Slice(s), NEW v \in Nat, NEW S, S \subseteq Nat, NEW r, Placed(S, s, r)
    PROVE  Placed(S, Insert(s, v), r)
  <1>1. PICK f \in Injection(S, DOMAIN s) : \A i \in S : s[f[i]] >= r[i].created
    BY DEF Placed
  <1>2. -1 \notin S
    OBVIOUS
  <1>3. PICK g \in Injection(S \cup {-1}, DOMAIN Insert(s, v)) :
           \A i \in S : Insert(s, v)[g[i]] = s[f[i]]
    BY <1>2, PlaceInsert
  <1> DEFINE e == [i \in S |-> g[i]]
  <1>4. e \in Injection(S, DOMAIN Insert(s, v))
    BY <1>3, PlaceRestrict
  <1>5. \A i \in S : Insert(s, v)[e[i]] >= r[i].created
    BY <1>1, <1>3
  <1> HIDE DEF e
  <1> QED BY <1>4, <1>5 DEF Placed

LEMMA PlacedPruned ==
    ASSUME NEW s, Slice(s), clock \in Nat, NEW S, NEW r, Placed(S, s, r),
           \A i \in S : r[i].created \in Nat /\ r[i].created >= clock - Retention
    PROVE  Placed(S, Pruned(s), r)
  <1>1. PICK f \in Injection(S, DOMAIN s) : \A i \in S : s[f[i]] >= r[i].created
    BY DEF Placed
  <1>2. \A i \in S : s[f[i]] >= clock - Retention
    <2> SUFFICES ASSUME NEW i \in S PROVE s[f[i]] >= clock - Retention
      OBVIOUS
    <2>1. s[f[i]] \in Nat /\ s[f[i]] >= r[i].created /\ r[i].created \in Nat
      BY <1>1 DEF Injection, Slice
    <2>2. r[i].created >= clock - Retention /\ Retention \in Nat
      BY IntakeAssumption
    <2> QED BY <2>1, <2>2
  <1>3. PICK g \in Injection(S, DOMAIN Pruned(s)) : \A i \in S : Pruned(s)[g[i]] = s[f[i]]
    BY <1>2, PlacePrune
  <1>4. \A i \in S : Pruned(s)[g[i]] >= r[i].created
    BY <1>1, <1>3
  <1> QED BY <1>3, <1>4 DEF Placed

\* The executions of the last hour, and those the memory has to have.
Recent == {i \in Executions : records[i].created >= clock - Hour}

Due == {i \in Recent : loader # "list" /\ i \notin DOMAIN listed}

Starting == {h \in Handlers : handler[h].at = "start"}
Creators == {h \in Handlers : handler[h].at = "create"}

\* All but as many as are being started, or were created unnoticed, are counted.
Tallied ==
    \E U \in SUBSET Due : /\ Cardinality(U) <= Cardinality(Starting) + faults
                          /\ Placed(Due \ U, starts, records)

LEMMA HandlersFinite ==
    ASSUME NEW S \in SUBSET Handlers
    PROVE  /\ IsFiniteSet(S) /\ Cardinality(S) \in Nat
           /\ Cardinality(S) <= Cardinality(Handlers) /\ Cardinality(Handlers) \in Nat
  BY IntakeAssumption, FS_Subset, FS_CardinalityType

LEMMA DueFacts ==
    ASSUME Typed
    PROVE  /\ Due \subseteq Recent /\ Recent \subseteq Executions /\ Executions \subseteq Ids
           /\ Ids \subseteq Nat
  BY DEF Due, Recent, Executions, Typed, TypeOK, Ids

LEMMA DueStep ==
    ASSUME Base, [Next]_vars, NEW i \in Due'
    PROVE  /\ i \in Ids' /\ i \in Executions' /\ loader' # "list" /\ i \notin DOMAIN listed'
           /\ i \in Ids => i \in Recent
  <1>1. /\ i \in Executions' /\ records'[i].created >= clock' - Hour
        /\ loader' # "list" /\ i \notin DOMAIN listed'
    BY DEF Due, Recent
  <1>2. i \in Ids'
    BY <1>1 DEF Executions
  <1>3. ASSUME i \in Ids PROVE i \in Recent
    <2>1. Typed /\ Evolves
      BY EvolvesStep DEF Base
    <2>2. records'[i].created = records[i].created /\ records'[i].gaveUp = records[i].gaveUp
      BY <1>3, <2>1 DEF Evolves, Steady
    <2>3. records[i].created \in Nat /\ clock \in Nat /\ clock' \in Nat /\ clock' >= clock
          /\ Hour \in Nat
      BY <1>3, <2>1, RecordTypes, IntakeAssumption DEF Evolves
    <2>4. records[i].created >= clock - Hour
      BY <1>1, <2>2, <2>3
    <2>5. i \in Executions
      BY <1>1, <1>3, <2>2 DEF Executions
    <2> QED BY <2>4, <2>5 DEF Recent
  <1> QED BY <1>1, <1>2, <1>3

\* To re-establish Tallied it is enough to give a superset of what is due.
LEMMA TalliedIntro ==
    ASSUME NEW U, NEW D, IsFiniteSet(U), faults' \in Nat,
           Cardinality(U) <= Cardinality(Starting') + faults',
           Placed(D \ U, starts', records'), Due' \subseteq D
    PROVE  Tallied'
  <1> DEFINE V == U \cap Due'
  <1>1. IsFiniteSet(V) /\ Cardinality(V) <= Cardinality(U) /\ Cardinality(V) \in Nat
    BY FS_Subset, FS_CardinalityType
  <1>2. Cardinality(U) \in Nat /\ Cardinality(Starting') \in Nat
    <2>1. Starting' \subseteq Handlers
      BY DEF Starting
    <2> QED BY <2>1, HandlersFinite, FS_CardinalityType
  <1>3. Cardinality(V) <= Cardinality(Starting') + faults'
    BY <1>1, <1>2
  <1>4. Due' \ V \subseteq D \ U
    OBVIOUS
  <1>5. Placed(Due' \ V, starts', records')
    BY <1>4, PlacedFewer
  <1>6. V \in SUBSET Due'
    OBVIOUS
  <1> HIDE DEF V
  <1> QED BY <1>3, <1>5, <1>6 DEF Tallied

\* What a create request that reached the store leaves there.
LEMMA StoresStep ==
    ASSUME Typed, NEW h \in Handlers, Stores(h)
    PROVE  LET n == Len(records) + 1
           IN  /\ Ids' = Ids \cup {n} /\ n \notin Ids /\ n \in Nat
               /\ \A i \in Ids : records'[i] = records[i]
               /\ n \in Executions' <=> handler[h].at # "giveUp"
               /\ records'[n].created = clock
  <1> DEFINE n == Len(records) + 1
             new == NewRecord(handler[h].target, handler[h].at = "giveUp")
  <1>1. records \in Seq(Record) /\ Len(records) \in Nat /\ Ids = 1 .. Len(records)
    BY DEF Typed, TypeOK, Ids
  <1>2. records' = Append(records, new)
    BY DEF Stores
  <1>3. new.created = clock /\ (new.gaveUp <=> handler[h].at = "giveUp")
    BY DEF NewRecord
  <1> HIDE DEF new
  <1>4. DOMAIN records' = 1 .. n /\ records'[n] = new /\ \A i \in Ids : records'[i] = records[i]
    BY <1>1, <1>2
  <1>5. Ids' = Ids \cup {n} /\ n \notin Ids /\ n \in Nat
    BY <1>1, <1>4 DEF Ids
  <1>6. n \in Executions' <=> handler[h].at # "giveUp"
    BY <1>3, <1>4, <1>5 DEF Executions
  <1> QED BY <1>3, <1>4, <1>5, <1>6

LEMMA TalliedStep ==
    ASSUME Base, Durable, Fresh, Remembers, MaxPerHour > 0, Tallied, [Next]_vars
    PROVE  Tallied'
  <1> USE DEF memoryVars, boundVars
  <1>1. Typed /\ Timely /\ Faithful /\ Evolves /\ Slice(starts) /\ clock \in Nat
        /\ faults \in Nat /\ faults' \in Nat /\ DOMAIN handler = Handlers
    BY EvolvesStep, Slices, ListedStep DEF Base, Typed, TypeOK
  <1>2. PICK U \in SUBSET Due : /\ Cardinality(U) <= Cardinality(Starting) + faults
                                /\ Placed(Due \ U, starts, records)
    BY DEF Tallied
  <1>3. Due \subseteq Recent /\ Recent \subseteq Executions /\ Executions \subseteq Ids /\ Ids \subseteq Nat
    BY <1>1, DueFacts
  <1>4. IsFiniteSet(U) /\ Cardinality(U) \in Nat /\ U \subseteq Ids
    <2>1. U \subseteq Ids
      BY <1>2, <1>3
    <2> QED BY <1>1, <2>1, IdsFinite
  <1>5. \A i \in Ids : records'[i].created = records[i].created
    BY <1>1 DEF Evolves, Steady
  <1>6. Placed(Due \ U, starts, records')
    <2>1. \A i \in Due \ U : records'[i].created = records[i].created
      BY <1>3, <1>5
    <2> QED BY <1>2, <2>1, PlacedFewer
  <1>7. Starting \subseteq Handlers /\ IsFiniteSet(Starting) /\ Cardinality(Starting) \in Nat
    BY HandlersFinite DEF Starting
  <1>8. ASSUME Ids' = Ids, listed' = listed, loader = "list" => loader' = "list"
        PROVE  Due' \subseteq Due
    BY <1>8, DueStep DEF Due
  <1>9. ASSUME Due' \subseteq Due, starts' = starts, Starting' = Starting, faults' = faults
        PROVE  Tallied'
    BY <1>1, <1>2, <1>4, <1>6, <1>9, TalliedIntro
  <1>10. ASSUME Due' = {} PROVE Tallied'
    <2>1. Placed({}, starts', records')
      <3> DEFINE f == [i \in {} |-> i]
      <3>1. f \in Injection({}, DOMAIN starts')
        BY DEF Injection, IsInjective
      <3> HIDE DEF f
      <3> QED BY <3>1 DEF Placed
    <2>2. IsFiniteSet({}) /\ Cardinality({}) = 0
      BY FS_EmptySet
    <2>3. Cardinality(Starting') \in Nat
      <3>1. Starting' \subseteq Handlers
        BY DEF Starting
      <3> QED BY <3>1, HandlersFinite
    <2>4. Cardinality({}) <= Cardinality(Starting') + faults'
      BY <1>1, <2>2, <2>3
    <2>5. {} \ {} = {}
      OBVIOUS
    <2> QED BY <1>1, <1>10, <2>1, <2>2, <2>4, <2>5, TalliedIntro
  <1>11. ASSUME NEW h \in Handlers, Creating(h), Stores(h), listed' = listed, loader' = loader,
                starts' = starts, Cardinality(Starting') + faults' >= Cardinality(Starting) + faults + 1
         PROVE  Tallied'
    <2> DEFINE n == Len(records) + 1
    <2>1. Ids' = Ids \cup {n}
      BY <1>1, <1>11, StoresStep
    <2>2. Due' \subseteq Due \cup {n}
      BY <1>11, <2>1, DueStep DEF Due
    <2>3. IsFiniteSet(U \cup {n}) /\ Cardinality(U \cup {n}) <= Cardinality(U) + 1
          /\ Cardinality(U \cup {n}) \in Nat
      <3>1. IsFiniteSet(U \cup {n})
            /\ Cardinality(U \cup {n}) = IF n \in U THEN Cardinality(U) ELSE Cardinality(U) + 1
        BY <1>4, FS_AddElement
      <3> QED BY <1>4, <3>1
    <2>4. Placed((Due \cup {n}) \ (U \cup {n}), starts', records')
      <3>1. (Due \cup {n}) \ (U \cup {n}) \subseteq Due \ U
        OBVIOUS
      <3> QED BY <1>6, <1>11, <3>1, PlacedFewer
    <2>5. Cardinality(Starting') \in Nat
      <3>1. Starting' \subseteq Handlers
        BY DEF Starting
      <3> QED BY <3>1, HandlersFinite
    <2>6. Cardinality(U \cup {n}) <= Cardinality(Starting') + faults'
      BY <1>1, <1>2, <1>4, <1>7, <1>11, <2>3, <2>5
    <2> HIDE DEF n
    <2> QED BY <1>1, <2>2, <2>3, <2>4, <2>6, TalliedIntro
  <1>12. ASSUME NEW h \in Handlers, Create(h) PROVE Tallied'
    <2>1. /\ Creating(h) /\ Stores(h) /\ listed' = listed /\ loader' = loader /\ starts' = starts
          /\ faults' = faults
          /\ handler' = [handler EXCEPT ![h] =
                           IF handler[h].at = "create" THEN [@ EXCEPT !.at = "start"] ELSE Idle]
      BY <1>12 DEF Create
    <2>2. CASE handler[h].at = "create"
      <3>1. Starting' = Starting \cup {h} /\ h \notin Starting
        <4>1. handler'[h] = [handler[h] EXCEPT !.at = "start"]
          BY <1>1, <2>1, <2>2
        <4>2. handler[h] \in [at : {"idle", "create", "giveUp", "start"},
                              target : AlertTargets \cup {NoTarget}]
          BY <1>1 DEF Typed, TypeOK
        <4>3. handler'[h].at = "start"
          BY <4>1, <4>2
        <4>4. \A g \in Handlers \ {h} : handler'[g] = handler[g]
          BY <1>1, <2>1
        <4> QED BY <2>2, <4>3, <4>4 DEF Starting
      <3>2. Cardinality(Starting') = Cardinality(Starting) + 1
        BY <1>7, <3>1, FS_AddElement
      <3> QED BY <1>1, <1>7, <1>11, <2>1, <3>2
    <2>3. CASE handler[h].at = "giveUp"
      <3>1. handler' = [handler EXCEPT ![h] = Idle]
        BY <2>1, <2>3
      <3>2. Starting' = Starting
        BY <1>1, <2>3, <3>1 DEF Starting, Idle
      <3>3. Due' \subseteq Due
        <4> SUFFICES ASSUME NEW i \in Due' PROVE i \in Due
          OBVIOUS
        <4>1. i \in Ids
          BY <1>1, <2>1, <2>3, DueStep, StoresStep
        <4> QED BY <2>1, <4>1, DueStep DEF Due
      <3> QED BY <1>9, <2>1, <3>2, <3>3
    <2> QED BY <2>1, <2>2, <2>3 DEF Creating
  <1>13. ASSUME NEW h \in Handlers, CreateFails(h) PROVE Tallied'
    <2>1. /\ Creating(h) /\ listed' = listed /\ loader' = loader /\ starts' = starts
          /\ faults' = faults + 1 /\ handler' = [handler EXCEPT ![h] = Idle]
          /\ Stores(h) \/ records' = records
      BY <1>13 DEF CreateFails
    <2>2. Starting' = Starting
      BY <1>1, <2>1 DEF Starting, Idle, Creating
    <2>3. CASE Stores(h)
      BY <1>1, <1>7, <1>11, <2>1, <2>2, <2>3
    <2>4. CASE records' = records
      <3>1. Due' \subseteq Due
        BY <1>8, <2>1, <2>4 DEF Ids
      <3>2. Cardinality(U) <= Cardinality(Starting') + faults'
        BY <1>1, <1>2, <1>4, <1>7, <2>1, <2>2
      <3> QED BY <1>1, <1>4, <1>6, <2>1, <3>1, <3>2, TalliedIntro
    <2> QED BY <2>1, <2>3, <2>4
  <1>14. ASSUME NEW h \in Handlers, RecordStart(h) PROVE Tallied'
    <2>1. /\ listed' = listed /\ loader' = loader /\ starts' = Insert(starts, clock)
          /\ faults' = faults /\ handler' = [handler EXCEPT ![h] = Idle] /\ records' = records
          /\ handler[h].at = "start"
      BY <1>14 DEF RecordStart
    <2>2. Starting' = Starting \ {h} /\ h \in Starting
      BY <1>1, <2>1 DEF Starting, Idle
    <2>3. Cardinality(Starting') = Cardinality(Starting) - 1
      BY <1>7, <2>2, FS_RemoveElement
    <2>4. Due' \subseteq Due
      BY <1>8, <2>1 DEF Ids
    <2>5. CASE U = {}
      <3>1. Due \ U \subseteq Nat
        BY <1>3
      <3>2. Placed(Due \ U, starts', records')
        BY <1>1, <1>6, <2>1, <3>1, PlacedBeside
      <3>3. Cardinality(U) = 0
        BY <2>5, FS_EmptySet
      <3>4. Cardinality(Starting') \in Nat
        <4>1. Starting' \subseteq Handlers
          BY DEF Starting
        <4> QED BY <4>1, HandlersFinite
      <3>5. Cardinality(U) <= Cardinality(Starting') + faults'
        BY <1>1, <3>3, <3>4
      <3> QED BY <1>1, <1>4, <2>4, <3>2, <3>5, TalliedIntro
    <2>6. ASSUME NEW x \in U PROVE Tallied'
      <3>1. x \in Ids /\ x \in Due /\ x \notin Due \ U
        BY <1>2, <1>4
      <3>2. clock >= records'[x].created
        BY <1>1, <2>1, <3>1 DEF Timely
      <3>3. Placed((Due \ U) \cup {x}, starts', records')
        BY <1>1, <1>6, <2>1, <3>1, <3>2, PlacedInsert
      <3>4. Due \ (U \ {x}) = (Due \ U) \cup {x}
        BY <3>1
      <3>5. IsFiniteSet(U \ {x}) /\ Cardinality(U \ {x}) = Cardinality(U) - 1
        BY <1>4, FS_RemoveElement
      <3>6. Cardinality(U \ {x}) <= Cardinality(Starting') + faults'
        BY <1>1, <1>2, <1>4, <1>7, <2>1, <2>3, <3>5
      <3> DEFINE W == U \ {x}
      <3>7. IsFiniteSet(W) /\ Cardinality(W) <= Cardinality(Starting') + faults'
            /\ Placed(Due \ W, starts', records')
        BY <3>3, <3>4, <3>5, <3>6
      <3> HIDE DEF W
      <3> QED BY <1>1, <2>4, <3>7, TalliedIntro
    <2> QED BY <2>5, <2>6
  <1>15. ASSUME NEW i \in Ids, LoadRecord(i) PROVE Tallied'
    <2> DEFINE v == StartedAt(listed[i])
    <2>1. /\ loader' = loader /\ i \in DOMAIN listed /\ records' = records /\ loader # "list"
          /\ listed' = [j \in DOMAIN listed \ {i} |-> listed[j]]
          /\ starts' = Insert(starts, v) /\ handler' = handler /\ faults' = faults
      BY <1>15 DEF LoadRecord, ReplayStart
    <2>2. v \in Nat /\ v >= records'[i].created
      <3>1. listed[i] \in Record
        BY <1>1, <2>1 DEF Typed, TypeOK
      <3>2. listed[i].started \in Nat /\ listed[i].created \in Nat
        BY <3>1 DEF Record
      <3>3. /\ listed[i].created = records[i].created
            /\ listed[i].started > 0 => listed[i].started >= listed[i].created
        BY <1>1, <2>1 DEF Faithful
      <3> QED BY <2>1, <3>2, <3>3 DEF StartedAt
    <2> HIDE DEF v
    <2>3. Due' \subseteq Due \cup {i}
      <3> SUFFICES ASSUME NEW j \in Due', j # i PROVE j \in Due
        OBVIOUS
      <3>1. j \in Recent /\ j \notin DOMAIN listed'
        BY <2>1, DueStep DEF Ids
      <3> QED BY <2>1, <3>1 DEF Due
    <2>4. i \notin Due \ U /\ i \notin U
      BY <1>2, <2>1 DEF Due
    <2>5. Placed((Due \ U) \cup {i}, starts', records')
      BY <1>1, <1>6, <2>1, <2>2, <2>4, PlacedInsert
    <2>6. (Due \cup {i}) \ U = (Due \ U) \cup {i}
      BY <2>4
    <2>7. Placed((Due \cup {i}) \ U, starts', records')
      BY <2>5, <2>6
    <2>8. Starting' = Starting
      BY <2>1 DEF Starting
    <2> QED BY <1>1, <1>2, <1>4, <2>1, <2>3, <2>7, <2>8, TalliedIntro
  <1>16. CASE PruneHistory \/ LoadDone
    <2>1. /\ records' = records /\ listed' = listed /\ handler' = handler /\ faults' = faults
          /\ starts' = Pruned(starts)
          /\ loader' = loader \/ loader = "apply"
      BY <1>16 DEF PruneHistory, LoadDone
    <2>2. Due' \subseteq Due /\ Starting' = Starting
      BY <1>8, <2>1 DEF Ids, Starting
    <2>3. \A i \in Due \ U : records'[i].created \in Nat /\ records'[i].created >= clock - Retention
      <3> SUFFICES ASSUME NEW i \in Due
                   PROVE  records'[i].created \in Nat /\ records'[i].created >= clock - Retention
        OBVIOUS
      <3>1. records[i].created \in Nat /\ records[i].created >= clock - Hour
        BY <1>1, <1>3, RecordTypes DEF Recent
      <3>2. Hour \in Nat /\ Retention \in Nat /\ Retention >= Hour
        BY IntakeAssumption
      <3> QED BY <1>1, <2>1, <3>1, <3>2
    <2>4. Placed(Due \ U, starts', records')
      BY <1>1, <1>6, <2>1, <2>3, PlacedPruned
    <2> QED BY <1>1, <1>2, <1>4, <2>1, <2>2, <2>4, TalliedIntro
  <1>17. CASE LoadList
    <2>1. /\ records' = records /\ loader = "list"
          /\ listed' = [i \in {j \in Executions : Stored(j)} |-> records[i]]
      BY <1>17 DEF LoadList
    <2>2. ASSUME NEW i \in Due' PROVE FALSE
      <3>1. i \in Ids /\ i \in Recent /\ i \notin DOMAIN listed'
        BY <2>1, DueStep DEF Ids
      <3>2. ~Stored(i)
        BY <1>3, <2>1, <3>1
      <3>3. records[i].completed > 0 /\ records[i].completed < clock - Longest
        BY <2>1, <3>1, <3>2, ReplayIsComplete DEF Gone
      <3>4. records[i].completed >= records[i].created /\ records[i].created >= clock - Hour
        BY <1>1, <3>1, <3>3 DEF Timely, Recent
      <3>5. /\ Longest \in Nat /\ Hour <= Longest /\ Hour \in Nat
            /\ records[i].created \in Nat /\ records[i].completed \in Nat
        BY <1>1, <3>1, RecordTypes, LongestCovers, IntakeAssumption
      <3> QED BY <1>1, <3>3, <3>4, <3>5
    <2> QED BY <1>10, <2>2
  <1>18. CASE Crash
    <2>1. loader' = "list"
      BY <1>18 DEF Crash
    <2>2. Due' = {}
      BY <2>1 DEF Due
    <2> QED BY <1>10, <2>2
  <1>19. ASSUME handler' = handler, Ids' = Ids, UNCHANGED <<starts, listed, loader, faults>>
         PROVE  Tallied'
    <2>1. Starting' = Starting
      BY <1>19 DEF Starting
    <2> QED BY <1>8, <1>9, <1>19, <2>1
  <1>20. ASSUME NEW h \in Handlers, NEW t \in AlertTargets, Consume(h, t) PROVE Tallied'
    <2>1. /\ records' = records /\ UNCHANGED <<starts, listed, loader, faults>>
          /\ handler[h].at = "idle"
          /\ \/ handler' = [handler EXCEPT ![h] = [at |-> "create", target |-> t]]
             \/ handler' = [handler EXCEPT ![h] = [at |-> "giveUp", target |-> t]]
      BY <1>20 DEF Consume, Idle
    <2>2. Starting' = Starting
      BY <1>1, <2>1 DEF Starting
    <2>3. Ids' = Ids
      BY <2>1 DEF Ids
    <2> QED BY <1>8, <1>9, <2>1, <2>2, <2>3
  <1>21. ASSUME NEW i \in Ids, StartExecution(i) \/ Complete(i) \/ Observe(i) PROVE Tallied'
    <2>1. handler' = handler /\ UNCHANGED <<starts, listed, loader, faults>>
      BY <1>21 DEF StartExecution, Complete, Observe
    <2>2. Ids' = Ids
      BY <1>1, <1>21 DEF StartExecution, Complete, Observe, Ids, Typed, TypeOK
    <2> QED BY <1>19, <2>1, <2>2
  <1>22. ASSUME NEW i \in Ids, RecordCompletion(i) PROVE Tallied'
    <2>1. handler' = handler /\ UNCHANGED <<starts, listed, loader, faults>> /\ Ids' = Ids
      BY <1>1, <1>22, EvolvesWithout DEF RecordCompletion
    <2> QED BY <1>19, <2>1
  <1>23. CASE Sweep
    <2>1. handler' = handler /\ UNCHANGED <<starts, listed, loader, faults>> /\ Ids' = Ids
      BY <1>1, <1>23, EvolvesWithout DEF Sweep
    <2> QED BY <1>19, <2>1
  <1>24. CASE Tick \/ UNCHANGED vars
    BY <1>19, <1>24 DEF Tick, vars, Ids
  <1> QED BY <1>12, <1>13, <1>14, <1>15, <1>16, <1>17, <1>18, <1>20, <1>21, <1>22, <1>23, <1>24
          DEF Next

Limit == MaxPerHour + Cardinality(Handlers) - 1 + faults

\* The last hour and what is already let through stay within the limit.
Limited == Cardinality(Recent) + Cardinality(Creators) <= Limit

LEMMA RecentStep ==
    ASSUME Base, [Next]_vars, NEW i \in Recent', i \in Ids
    PROVE  i \in Recent
  <1>1. Typed /\ Evolves
    BY EvolvesStep DEF Base
  <1>2. i \in Executions' /\ records'[i].created >= clock' - Hour
    BY DEF Recent
  <1>3. records'[i].created = records[i].created /\ records'[i].gaveUp = records[i].gaveUp
    BY <1>1 DEF Evolves, Steady
  <1>4. records[i].created \in Nat /\ clock \in Nat /\ clock' \in Nat /\ clock' >= clock
        /\ Hour \in Nat
    BY <1>1, RecordTypes, IntakeAssumption DEF Evolves
  <1>5. records[i].created >= clock - Hour
    BY <1>2, <1>3, <1>4
  <1>6. i \in Executions
    BY <1>2, <1>3 DEF Executions
  <1> QED BY <1>5, <1>6 DEF Recent

\* What the guard lets through when it has counted fewer than MaxPerHour.
LEMMA LimitedAllowed ==
    ASSUME Base, MaxPerHour > 0, Tallied, loader = "warm", ~RateReached
    PROVE  Cardinality(Recent) <= Cardinality(Starting) + faults + MaxPerHour - 1
  <1>1. Typed /\ Slice(starts) /\ clock \in Nat /\ faults \in Nat /\ MaxPerHour \in Nat /\ Hour \in Nat
    BY Slices, IntakeAssumption DEF Base, Typed, TypeOK
  <1>2. Due = Recent
    BY DEF Due, Base, Faithful
  <1>3. PICK U \in SUBSET Due : /\ Cardinality(U) <= Cardinality(Starting) + faults
                                /\ Placed(Due \ U, starts, records)
    BY DEF Tallied
  <1> DEFINE R == Due \ U
             since == clock - Hour
             T == {k \in DOMAIN starts : starts[k] >= since}
  <1>4. PICK f \in Injection(R, DOMAIN starts) : \A i \in R : starts[f[i]] >= records[i].created
    BY <1>3 DEF Placed
  <1>5. since \in Int
    BY <1>1
  <1>6. IsFiniteSet(T) /\ CountSince(starts, since) = Cardinality(T) /\ Cardinality(T) \in Nat
    BY <1>1, <1>5, CountIsExact, FS_CardinalityType
  <1>7. Cardinality(T) < MaxPerHour
    BY <1>1, <1>6 DEF RateReached
  <1>8. \A i \in R : f[i] \in T
    <2> SUFFICES ASSUME NEW i \in R PROVE f[i] \in T
      OBVIOUS
    <2>1. f[i] \in DOMAIN starts /\ starts[f[i]] \in Nat /\ starts[f[i]] >= records[i].created
      BY <1>1, <1>4 DEF Injection, Slice
    <2>2. records[i].created \in Nat /\ records[i].created >= since
      BY <1>1, <1>2, RecordTypes DEF Recent, Executions
    <2> QED BY <1>5, <2>1, <2>2
  <1>9. f \in Injection(R, T)
    BY <1>4, <1>8 DEF Injection, IsInjective
  <1> HIDE DEF T
  <1>10. IsFiniteSet(R) /\ Cardinality(R) <= Cardinality(T) /\ Cardinality(R) \in Nat
    BY <1>6, <1>9, FS_Injection, FS_CardinalityType
  <1>11. IsFiniteSet(U) /\ Cardinality(U) \in Nat
    <2>1. U \subseteq Ids
      BY <1>1, <1>3, DueFacts
    <2> QED BY <1>1, <2>1, IdsFinite
  <1>12. Recent = U \cup R /\ U \cap R = {}
    BY <1>2, <1>3
  <1> HIDE DEF R
  <1>13. Cardinality(Recent) = Cardinality(U) + Cardinality(R)
    <2>1. Cardinality(U \cup R) = Cardinality(U) + Cardinality(R) - Cardinality(U \cap R)
      BY <1>10, <1>11, FS_Union
    <2>2. Cardinality(U \cap R) = 0
      BY <1>12, FS_EmptySet
    <2> QED BY <1>10, <1>11, <1>12, <2>1, <2>2
  <1>14. Cardinality(Starting) \in Nat
    <2>1. Starting \subseteq Handlers
      BY DEF Starting
    <2> QED BY <2>1, HandlersFinite
  <1> QED BY <1>1, <1>3, <1>7, <1>6, <1>10, <1>11, <1>13, <1>14

LEMMA LimitedStep ==
    ASSUME Base, MaxPerHour > 0, Tallied, Limited, [Next]_vars
    PROVE  Limited'
  <1> USE DEF memoryVars, boundVars
  <1>1. Typed /\ Evolves /\ Typed' /\ faults \in Nat /\ MaxPerHour \in Nat /\ DOMAIN handler = Handlers
    BY EvolvesStep, TypedStep, IntakeAssumption DEF Base, Typed, TypeOK
  <1>2. /\ IsFiniteSet(Recent) /\ Cardinality(Recent) \in Nat
        /\ IsFiniteSet(Creators) /\ Cardinality(Creators) \in Nat /\ Cardinality(Handlers) \in Nat
    <2>1. Creators \subseteq Handlers
      BY DEF Creators
    <2>2. Recent \subseteq Ids
      BY <1>1, DueFacts
    <2> QED BY <1>1, <2>1, <2>2, HandlersFinite, IdsFinite
  <1>3. /\ Cardinality(Creators') \in Nat
    <2>1. Creators' \subseteq Handlers
      BY DEF Creators
    <2> QED BY <2>1, HandlersFinite
  <1>4. ASSUME Ids' = Ids PROVE Cardinality(Recent') <= Cardinality(Recent) /\ Cardinality(Recent') \in Nat
    <2>1. Recent' \subseteq Recent
      <3> SUFFICES ASSUME NEW i \in Recent' PROVE i \in Recent
        OBVIOUS
      <3>1. i \in Ids
        BY <1>4 DEF Recent, Executions
      <3> QED BY <3>1, RecentStep
    <2> QED BY <1>2, <2>1, FS_Subset, FS_CardinalityType
  <1>5. ASSUME Ids' = Ids, Creators' \subseteq Creators, faults' = faults PROVE Limited'
    <2>1. Cardinality(Creators') <= Cardinality(Creators)
      BY <1>2, <1>5, FS_Subset
    <2> QED BY <1>1, <1>2, <1>3, <1>4, <1>5, <2>1 DEF Limited, Limit
  <1>6. ASSUME NEW h \in Handlers, NEW t \in AlertTargets, Consume(h, t) PROVE Limited'
    <2>1. /\ records' = records /\ faults' = faults /\ handler[h].at = "idle" /\ loader = "warm"
          /\ Ids' = Ids /\ clock' = clock
      BY <1>6 DEF Consume, Idle, Ids
    <2>2. CASE /\ Evaluate(t) = "allowed"
               /\ handler' = [handler EXCEPT ![h] = [at |-> "create", target |-> t]]
      <3>1. ~RateReached
        BY <2>2 DEF Evaluate
      <3>2. Cardinality(Recent) <= Cardinality(Starting) + faults + MaxPerHour - 1
        BY <2>1, <3>1, LimitedAllowed
      <3>3. Creators' \cap Starting = {} /\ Creators' \cup Starting \subseteq Handlers
        <4>1. \A g \in Handlers \ {h} : handler'[g] = handler[g]
          BY <1>1, <2>2
        <4> QED BY <2>1, <4>1 DEF Creators, Starting
      <3>4. IsFiniteSet(Creators') /\ IsFiniteSet(Starting) /\ Cardinality(Starting) \in Nat
        BY <3>3, HandlersFinite
      <3>5. Cardinality(Creators' \cup Starting) = Cardinality(Creators') + Cardinality(Starting)
        <4>1. Cardinality(Creators' \cup Starting) =
                Cardinality(Creators') + Cardinality(Starting) - Cardinality(Creators' \cap Starting)
          BY <3>4, FS_Union
        <4>2. Cardinality(Creators' \cap Starting) = 0
          BY <3>3, FS_EmptySet
        <4> QED BY <1>3, <3>4, <4>1, <4>2
      <3>6. Cardinality(Creators' \cup Starting) <= Cardinality(Handlers)
        BY <3>3, HandlersFinite
      <3> QED BY <1>1, <1>2, <1>3, <1>4, <2>1, <3>2, <3>4, <3>5, <3>6 DEF Limited, Limit
    <2>3. CASE handler' = [handler EXCEPT ![h] = [at |-> "giveUp", target |-> t]]
      <3>1. Creators' \subseteq Creators
        BY <1>1, <2>3 DEF Creators
      <3> QED BY <1>5, <2>1, <3>1
    <2> QED BY <1>6, <2>2, <2>3 DEF Consume
  <1>7. ASSUME NEW h \in Handlers, Stores(h)
        PROVE  /\ Cardinality(Recent') <= Cardinality(Recent) + 1 /\ Cardinality(Recent') \in Nat
               /\ handler[h].at = "giveUp" => Cardinality(Recent') <= Cardinality(Recent)
    <2> DEFINE n == Len(records) + 1
    <2>1. Ids' = Ids \cup {n} /\ (handler[h].at = "giveUp" => n \notin Executions')
      BY <1>1, <1>7, StoresStep
    <2>2. Recent' \subseteq Recent \cup {n} /\ (n \notin Executions' => Recent' \subseteq Recent)
      <3>1. ASSUME NEW i \in Recent' PROVE i \in Executions' /\ (i = n \/ i \in Recent)
        <4>1. i \in Executions' /\ i \in Ids'
          BY DEF Recent, Executions
        <4> QED BY <2>1, <4>1, RecentStep
      <3> QED BY <3>1
    <2> HIDE DEF n
    <2>3. IsFiniteSet(Recent \cup {n}) /\ Cardinality(Recent \cup {n}) <= Cardinality(Recent) + 1
          /\ Cardinality(Recent \cup {n}) \in Nat
      <3>1. IsFiniteSet(Recent \cup {n}) /\ Cardinality(Recent \cup {n}) =
              IF n \in Recent THEN Cardinality(Recent) ELSE Cardinality(Recent) + 1
        BY <1>2, FS_AddElement
      <3> QED BY <1>2, <3>1
    <2>4. /\ IsFiniteSet(Recent') /\ Cardinality(Recent') <= Cardinality(Recent \cup {n})
      BY <2>2, <2>3, FS_Subset
    <2>5. Cardinality(Recent') \in Nat
      BY <2>4, FS_CardinalityType
    <2>6. n \notin Executions' => Cardinality(Recent') <= Cardinality(Recent)
      BY <1>2, <2>2, FS_Subset
    <2> QED BY <1>2, <2>1, <2>3, <2>4, <2>5, <2>6
  <1>8. ASSUME NEW h \in Handlers, Create(h) PROVE Limited'
    <2>1. /\ Creating(h) /\ Stores(h) /\ faults' = faults
          /\ handler' = [handler EXCEPT ![h] =
                           IF handler[h].at = "create" THEN [@ EXCEPT !.at = "start"] ELSE Idle]
      BY <1>8 DEF Create
    <2>2. Creators' = Creators \ {h}
      <3>1. handler'[h].at # "create"
        <4>1. handler[h] \in [at : {"idle", "create", "giveUp", "start"},
                              target : AlertTargets \cup {NoTarget}]
          BY <1>1 DEF Typed, TypeOK
        <4>2. \/ handler'[h] = [handler[h] EXCEPT !.at = "start"]
              \/ handler'[h] = Idle
          BY <1>1, <2>1
        <4> QED BY <4>1, <4>2 DEF Idle
      <3>2. \A g \in Handlers \ {h} : handler'[g] = handler[g]
        BY <1>1, <2>1
      <3> QED BY <3>1, <3>2 DEF Creators
    <2>3. CASE handler[h].at = "create"
      <3>1. Cardinality(Creators') = Cardinality(Creators) - 1
        <4>1. h \in Creators
          BY <2>3 DEF Creators
        <4> QED BY <1>2, <2>2, <4>1, FS_RemoveElement
      <3> QED BY <1>1, <1>2, <1>3, <1>7, <2>1, <3>1 DEF Limited, Limit
    <2>4. CASE handler[h].at = "giveUp"
      <3>1. Cardinality(Creators') <= Cardinality(Creators)
        <4>1. Creators' \subseteq Creators
          BY <2>2
        <4> QED BY <1>2, <4>1, FS_Subset
      <3> QED BY <1>1, <1>2, <1>3, <1>7, <2>1, <2>4, <3>1 DEF Limited, Limit
    <2> QED BY <2>1, <2>3, <2>4 DEF Creating
  <1>9. ASSUME NEW h \in Handlers, CreateFails(h) PROVE Limited'
    <2>1. /\ faults' = faults + 1 /\ handler' = [handler EXCEPT ![h] = Idle]
          /\ Stores(h) \/ records' = records
      BY <1>9 DEF CreateFails
    <2>2. Cardinality(Creators') <= Cardinality(Creators)
      <3>1. Creators' \subseteq Creators
        BY <1>1, <2>1 DEF Creators, Idle
      <3> QED BY <1>2, <3>1, FS_Subset
    <2>3. Cardinality(Recent') <= Cardinality(Recent) + 1 /\ Cardinality(Recent') \in Nat
      <3>1. CASE Stores(h)
        BY <1>7, <3>1
      <3>2. CASE records' = records
        <4>1. Ids' = Ids
          BY <3>2 DEF Ids
        <4> QED BY <1>2, <1>4, <4>1
      <3> QED BY <2>1, <3>1, <3>2
    <2> QED BY <1>1, <1>2, <1>3, <2>1, <2>2, <2>3 DEF Limited, Limit
  <1>10. ASSUME handler' = handler, Ids' = Ids, faults' = faults PROVE Limited'
    <2>1. Creators' \subseteq Creators
      BY <1>10 DEF Creators
    <2> QED BY <1>5, <1>10, <2>1
  <1>11. ASSUME NEW h \in Handlers, RecordStart(h) PROVE Limited'
    <2>1. faults' = faults /\ handler' = [handler EXCEPT ![h] = Idle] /\ records' = records
      BY <1>11 DEF RecordStart
    <2>2. Creators' \subseteq Creators /\ Ids' = Ids
      BY <1>1, <2>1 DEF Creators, Idle, Ids
    <2> QED BY <1>5, <2>1, <2>2
  <1>12. CASE Crash
    <2>1. faults' = faults /\ Creators' = {} /\ Ids' = Ids
      BY <1>12 DEF Crash, Creators, Idle, Ids
    <2> QED BY <1>5, <2>1
  <1>13. ASSUME NEW i \in Ids, StartExecution(i) \/ Complete(i) \/ Observe(i) \/ LoadRecord(i)
         PROVE  Limited'
    <2>1. handler' = handler /\ faults' = faults
      BY <1>13 DEF StartExecution, Complete, Observe, LoadRecord
    <2>2. Ids' = Ids
      BY <1>1, <1>13 DEF StartExecution, Complete, Observe, LoadRecord, Ids, Typed, TypeOK
    <2> QED BY <1>10, <2>1, <2>2
  <1>14. ASSUME NEW i \in Ids, RecordCompletion(i) PROVE Limited'
    <2>1. handler' = handler /\ faults' = faults /\ Ids' = Ids
      BY <1>1, <1>14, EvolvesWithout DEF RecordCompletion
    <2> QED BY <1>10, <2>1
  <1>15. CASE Sweep
    <2>1. handler' = handler /\ faults' = faults /\ Ids' = Ids
      BY <1>1, <1>15, EvolvesWithout DEF Sweep
    <2> QED BY <1>10, <2>1
  <1>16. CASE PruneHistory \/ LoadList \/ LoadDone \/ Tick \/ UNCHANGED vars
    <2>1. handler' = handler /\ faults' = faults /\ Ids' = Ids
      BY <1>16 DEF PruneHistory, LoadList, LoadDone, Tick, vars, Ids
    <2> QED BY <1>10, <2>1
  <1> QED BY <1>6, <1>8, <1>9, <1>11, <1>12, <1>13, <1>14, <1>15, <1>16 DEF Next

LEMMA FaultsStep ==
    ASSUME Typed, [Next]_vars
    PROVE  faults' >= faults
  <1> USE DEF boundVars
  <1>1. faults \in Nat
    BY DEF Typed, TypeOK
  <1>2. ASSUME NEW h \in Handlers, CreateFails(h) PROVE faults' = faults + 1
    BY <1>2 DEF CreateFails
  <1>3. ASSUME NEW h \in Handlers, \/ (\E t \in AlertTargets : Consume(h, t)) \/ Create(h)
                                   \/ RecordStart(h)
        PROVE  faults' = faults
    BY <1>3 DEF Consume, Create, RecordStart
  <1>4. ASSUME NEW i \in Ids, \/ StartExecution(i) \/ Complete(i) \/ RecordCompletion(i)
                              \/ Observe(i) \/ LoadRecord(i)
        PROVE  faults' = faults
    BY <1>4 DEF StartExecution, Complete, RecordCompletion, Observe, LoadRecord
  <1>5. CASE Sweep \/ PruneHistory \/ LoadList \/ LoadDone \/ Crash \/ Tick \/ UNCHANGED vars
    <2>1. faults' = faults
      BY <1>5 DEF Sweep, PruneHistory, LoadList, LoadDone, Crash, Tick, vars
    <2> QED BY <1>1, <2>1
  <1> QED BY <1>1, <1>2, <1>3, <1>4, <1>5 DEF Next

\* The hour of a record of the past is over; the hour of a record of the present
\* is the last hour.
LEMMA HourStep ==
    ASSUME Base, [Next]_vars, NEW i \in Executions'
    PROVE  \/ i \in Executions /\ HourBefore(i)' = HourBefore(i)
           \/ HourBefore(i)' = Recent'
  <1>1. Typed /\ Evolves /\ Base' /\ Timely /\ Hour \in Nat
    BY EvolvesStep, BaseStep, IntakeAssumption DEF Base
  <1>2. clock \in Nat /\ \A j \in Ids : records[j].created \in Nat
    BY <1>1, RecordTypes
  <1>3. CASE records' = records
    BY <1>3 DEF Executions, HourBefore, Ids
  <1>4. CASE records' # records
    <2>1. clock' = clock
      BY <1>1, <1>4 DEF Evolves
    <2>2. \A j \in Executions' : records'[j].created \in 1 .. clock /\ j \in Ids'
      BY <1>1, <2>1 DEF Base, Timely, Executions
    <2>3. CASE records'[i].created = clock
      <3>1. \A j \in Executions' : records'[j].created <= records'[i].created
        BY <1>2, <2>2, <2>3
      <3> QED BY <2>1, <2>3, <3>1 DEF HourBefore, Recent
    <2>4. CASE records'[i].created # clock
      <3>1. i \in Ids /\ records'[i].created < clock
        BY <1>1, <1>2, <2>2, <2>4 DEF Evolves
      <3>2. \A j \in Executions' : records'[j].created <= records'[i].created => j \in Ids
        BY <1>1, <1>2, <2>2, <3>1 DEF Evolves
      <3>3. \A j \in Ids : /\ records'[j].created = records[j].created
                           /\ j \in Executions' <=> j \in Executions
        BY <1>1 DEF Evolves, Steady, Executions
      <3>4. Executions \subseteq Ids
        BY DEF Executions
      <3>5. i \in Executions
        BY <3>1, <3>3
      <3>6. ASSUME NEW j PROVE j \in HourBefore(i)' <=> j \in HourBefore(i)
        <4>1. j \in HourBefore(i)' <=> /\ j \in Executions'
                                       /\ records'[j].created <= records'[i].created
                                       /\ records'[j].created >= records'[i].created - Hour
          BY DEF HourBefore
        <4>2. j \in HourBefore(i) <=> /\ j \in Executions
                                      /\ records[j].created <= records[i].created
                                      /\ records[j].created >= records[i].created - Hour
          BY DEF HourBefore
        <4> QED BY <3>1, <3>2, <3>3, <3>4, <4>1, <4>2
      <3>7. HourBefore(i)' = HourBefore(i)
        BY <3>6
      <3> QED BY <3>5, <3>7
    <2> QED BY <2>3, <2>4
  <1> QED BY <1>3, <1>4

\* maxPerHour bounds what is created in any hour, across restarts and replays
\* (evaluateRate, HistoryLoader), up to the other deliveries in progress and the
\* creates whose response was lost, provided that either prune never has an excess
\* to delete or the process never restarts.
THEOREM RateHolds ==
    ASSUME Remembers
    PROVE  Spec => []RateBounded
  <1> DEFINE Inv == /\ Base /\ Durable /\ Fresh
                    /\ MaxPerHour > 0 => Tallied /\ Limited
                    /\ RateBounded
  <1>1. Init => Inv
    <2> SUFFICES ASSUME Init PROVE Inv
      OBVIOUS
    <2>1. Base /\ Ids = {} /\ Executions = {} /\ faults = 0
      BY BaseInit DEF Init, Ids, Executions
    <2>2. Recent = {} /\ Due = {} /\ Creators = {}
      BY <2>1 DEF Recent, Due, Creators, Init, Idle
    <2>3. Tallied
      <3> DEFINE f == [i \in {} |-> i]
      <3>1. f \in Injection({}, DOMAIN starts)
        BY DEF Injection, IsInjective
      <3> HIDE DEF f
      <3>2. Placed({}, starts, records)
        BY <3>1 DEF Placed
      <3>3. Cardinality({}) = 0 /\ Cardinality(Starting) \in Nat
        <4>1. Starting \subseteq Handlers
          BY DEF Starting
        <4> QED BY <4>1, FS_EmptySet, HandlersFinite
      <3>4. Cardinality({}) <= Cardinality(Starting) + faults /\ {} \ {} = {}
        BY <2>1, <3>3
      <3> QED BY <2>2, <3>2, <3>4 DEF Tallied
    <2>4. MaxPerHour > 0 => Limited
      <3>1. Cardinality(Handlers) \in Nat /\ Cardinality(Handlers) # 0 /\ MaxPerHour \in Nat
        BY IntakeAssumption, FS_CardinalityType, FS_EmptySet
      <3>2. Cardinality({}) = 0
        BY FS_EmptySet
      <3> QED BY <2>1, <2>2, <3>1, <3>2 DEF Limited, Limit
    <2>5. Durable /\ Fresh /\ RateBounded
      BY <2>1 DEF Durable, Fresh, RateBounded
    <2> QED BY <2>1, <2>3, <2>4, <2>5
  <1>2. Inv /\ [Next]_vars => Inv'
    <2> SUFFICES ASSUME Inv, [Next]_vars PROVE Inv'
      OBVIOUS
    <2>1. Base' /\ Durable' /\ Fresh'
      BY BaseStep, DurableStep, FreshStep
    <2>2. MaxPerHour > 0 => Tallied' /\ Limited'
      BY TalliedStep, LimitedStep
    <2>3. RateBounded'
      <3> SUFFICES ASSUME MaxPerHour > 0, NEW i \in Executions'
                   PROVE  Cardinality(HourBefore(i)') <=
                             MaxPerHour + Cardinality(Handlers) - 1 + faults'
        BY DEF RateBounded
      <3>1. /\ faults' >= faults /\ faults \in Nat /\ faults' \in Nat /\ MaxPerHour \in Nat
            /\ Cardinality(Handlers) \in Nat
        BY <2>1, FaultsStep, IntakeAssumption, FS_CardinalityType DEF Base, Typed, TypeOK
      <3>2. CASE i \in Executions /\ HourBefore(i)' = HourBefore(i)
        <4>1. Cardinality(HourBefore(i)) <= MaxPerHour + Cardinality(Handlers) - 1 + faults
          BY <3>2 DEF RateBounded
        <4>2. Cardinality(HourBefore(i)) \in Nat
          <5>1. HourBefore(i) \subseteq Ids /\ Typed
            BY DEF HourBefore, Executions, Base
          <5> QED BY <5>1, IdsFinite
        <4> QED BY <3>1, <3>2, <4>1, <4>2
      <3>3. CASE HourBefore(i)' = Recent'
        <4>1. Cardinality(Recent') + Cardinality(Creators') <= Limit'
          BY <2>2 DEF Limited
        <4>2. Cardinality(Creators') \in Nat
          <5>1. Creators' \subseteq Handlers
            BY DEF Creators
          <5> QED BY <5>1, HandlersFinite
        <4>3. Cardinality(Recent') \in Nat
          <5>1. (Recent \subseteq Ids)' /\ Typed'
            BY <2>1 DEF Recent, Executions, Base
          <5>2. IsFiniteSet(Recent')
            <6>1. Ids' = 1 .. Len(records') /\ Len(records') \in Int
              BY <5>1 DEF Typed, TypeOK, Ids
            <6>2. IsFiniteSet(1 .. Len(records'))
              BY <6>1, FS_Interval
            <6> QED BY <5>1, <6>1, <6>2, FS_Subset
          <5> QED BY <5>2, FS_CardinalityType
        <4> QED BY <3>1, <3>3, <4>1, <4>2, <4>3 DEF Limit
      <3> QED BY <3>2, <3>3, HourStep
    <2> QED BY <2>1, <2>2, <2>3
  <1>3. Inv => RateBounded
    OBVIOUS
  <1> QED BY <1>1, <1>2, <1>3, PTL DEF Spec
=============================================================================
