---------------------------- MODULE Stages_proofs ----------------------------
(***************************************************************************)
(* The invariant of a chain of transformers, for any list of them, any     *)
(* sizes and windows, and any number of messages.                          *)
(***************************************************************************)
EXTENDS Stages, DataLemmas, FiniteSetTheorems

-----------------------------------------------------------------------------
(* Windows: the latest positions of a set.                                 *)

Over(S, j) == {k \in S : k > j}

\* Of the values of a rising sequence, as many are over one as come after it.
LEMMA RisingCard ==
  ASSUME NEW w \in Seq(Nat), Rising(w), NEW i \in 1..Len(w)
  PROVE  /\ Over(Range(w), w[i]) = {w[k] : k \in (i + 1)..Len(w)}
         /\ IsFiniteSet(Over(Range(w), w[i])) /\ Cardinality(Over(Range(w), w[i])) = Len(w) - i
<1> DEFINE D == (i + 1)..Len(w)
    V == {w[k] : k \in D}
    f == [k \in D |-> w[k]]
<1>1. Len(w) \in Nat /\ DOMAIN w = 1..Len(w) /\ D \subseteq 1..Len(w) /\ i \in Nat
      /\ \A k \in 1..Len(w) : w[k] \in Nat
  OBVIOUS
<1>2. \A j, k \in 1..Len(w) : j < k => w[j] < w[k]
  BY <1>1 DEF Rising
<1>3. IsFiniteSet(D) /\ Cardinality(D) = Len(w) - i
  <2>1. i + 1 \in Int /\ Len(w) \in Int /\ i <= Len(w)
    BY <1>1
  <2> HIDE DEF D
  <2>2. IsFiniteSet((i + 1)..Len(w)) /\ Cardinality((i + 1)..Len(w)) =
          IF i + 1 > Len(w) THEN 0 ELSE Len(w) - (i + 1) + 1
    BY <2>1, FS_Interval
  <2> QED BY <2>1, <2>2, <1>1 DEF D
<1>4. ExistsBijection(D, V)
  <2>1. \A j, k \in D : f[j] = f[k] => j = k
    <3> TAKE j, k \in D
    <3>1. j \in 1..Len(w) /\ k \in 1..Len(w) /\ f[j] = w[j] /\ f[k] = w[k]
      BY <1>1
    <3>2. w[j] \in Nat /\ w[k] \in Nat /\ j \in Nat /\ k \in Nat
      BY <1>1, <3>1
    <3>3. (j < k => w[j] < w[k]) /\ (k < j => w[k] < w[j])
      BY <1>2, <3>1
    <3> QED BY <3>1, <3>2, <3>3
  <2>2. f \in [D -> V] /\ \A v \in V : \E k \in D : f[k] = v
    OBVIOUS
  <2> HIDE DEF D, V, f
  <2>3. f \in Bijection(D, V)
    BY <2>1, <2>2 DEF Bijection, Injection, Surjection, IsInjective
  <2> QED BY <2>3 DEF ExistsBijection
<1>5. IsFiniteSet(V) /\ Cardinality(V) = Len(w) - i
  <2> HIDE DEF D, V, f
  <2> QED BY <1>3, <1>4, FS_Bijection
<1>6. Over(Range(w), w[i]) = V
  <2>1. ASSUME NEW v \in Over(Range(w), w[i]) PROVE v \in V
    <3>1. PICK k \in 1..Len(w) : v = w[k] /\ w[k] > w[i]
      BY <1>1 DEF Over, Range
    <3>2. k \in Nat /\ w[k] \in Nat /\ w[i] \in Nat
      BY <1>1
    <3>3. k > i
      BY <1>1, <1>2, <3>1, <3>2
    <3>4. k \in D
      BY <1>1, <3>2, <3>3
    <3> QED BY <3>1, <3>4
  <2>2. ASSUME NEW v \in V PROVE v \in Over(Range(w), w[i])
    <3>1. PICK k \in D : v = w[k]
      OBVIOUS
    <3>2. k \in 1..Len(w) /\ i < k
      BY <1>1
    <3>3. w[i] < w[k] /\ w[k] \in Range(w)
      BY <1>1, <1>2, <3>2 DEF Range
    <3>4. w[i] \in Nat /\ w[k] \in Nat
      BY <1>1, <3>2
    <3> QED BY <3>1, <3>3, <3>4 DEF Over
  <2> HIDE DEF V
  <2> QED BY <2>1, <2>2
<1> QED BY <1>5, <1>6

\* A window holds the latest positions: what is over one of them is in it.
LEMMA WindowCounts ==
  ASSUME NEW N \in Nat, NEW S \in SUBSET (1..N), NEW n \in Nat,
         NEW w \in Seq(Nat), Rising(w), Range(w) = Latest(S, n)
  PROVE  /\ IsFiniteSet(S) /\ \A j \in S : IsFiniteSet(Over(S, j)) /\ Cardinality(Over(S, j)) \in Nat
         /\ \A i \in 1..Len(w) : w[i] \in S /\ Cardinality(Over(S, w[i])) = Len(w) - i
         /\ n > 0 => Len(w) <= n
<1>1. S \subseteq Nat /\ IsFiniteSet(S)
  <2>1. IsFiniteSet(1..N)
    BY FS_Interval
  <2>2. IsFiniteSet(S)
    BY <2>1, FS_Subset
  <2> QED BY <2>2
<1>2. \A j \in Nat : IsFiniteSet(Over(S, j)) /\ Cardinality(Over(S, j)) \in Nat
  <2> TAKE j \in Nat
  <2>1. Over(S, j) \in SUBSET S
    BY DEF Over
  <2> QED BY <1>1, <2>1, FS_Subset, FS_CardinalityType
<1>3. Len(w) \in Nat /\ DOMAIN w = 1..Len(w) /\ \A i \in 1..Len(w) : w[i] \in Nat
  OBVIOUS
<1>4. \A i \in 1..Len(w) : w[i] \in S /\ w[i] \in Range(w)
  BY <1>3 DEF Latest, Range
<1>5. \A i \in 1..Len(w) : Over(S, w[i]) = Over(Range(w), w[i])
  <2> TAKE i \in 1..Len(w)
  <2>1. ASSUME NEW k \in Over(S, w[i]) PROVE k \in Range(w)
    <3>1. k \in S /\ k > w[i] /\ k \in Nat /\ w[i] \in Nat
      BY <1>1, <1>3 DEF Over
    <3>2. Over(S, k) \subseteq Over(S, w[i])
      <4> SUFFICES ASSUME NEW x \in Over(S, k) PROVE x \in Over(S, w[i])
        OBVIOUS
      <4>1. x \in S /\ x > k /\ x \in Nat
        BY <1>1 DEF Over
      <4>2. x > w[i]
        BY <3>1, <4>1
      <4> QED BY <4>1, <4>2 DEF Over
    <3>3. Cardinality(Over(S, k)) <= Cardinality(Over(S, w[i]))
      BY <1>2, <3>1, <3>2, FS_Subset
    <3>4. n = 0 \/ Cardinality(Over(S, w[i])) < n
      BY <1>4 DEF Latest, Over
    <3>5. Cardinality(Over(S, k)) \in Nat /\ Cardinality(Over(S, w[i])) \in Nat
      BY <1>2, <3>1
    <3>6. n = 0 \/ Cardinality(Over(S, k)) < n
      BY <3>3, <3>4, <3>5
    <3>7. k \in Latest(S, n)
      BY <3>1, <3>6 DEF Latest, Over
    <3> QED BY <3>7
  <2>2. Range(w) \subseteq S
    BY DEF Latest
  <2> QED BY <2>1, <2>2 DEF Over
<1>6. \A i \in 1..Len(w) : Cardinality(Over(S, w[i])) = Len(w) - i
  BY <1>5, RisingCard
<1>7. n > 0 => Len(w) <= n
  <2> SUFFICES ASSUME n > 0, Len(w) > 0 PROVE Len(w) <= n
    BY <1>3
  <2>1. 1 \in 1..Len(w)
    BY <1>3
  <2>2. Cardinality(Over(S, w[1])) < n
    <3>1. Latest(S, n) = {j \in S : n = 0 \/ Cardinality(Over(S, j)) < n}
      BY DEF Latest, Over
    <3>2. w[1] \in Latest(S, n)
      BY <1>4, <2>1
    <3> QED BY <3>1, <3>2
  <2>3. Cardinality(Over(S, w[1])) = Len(w) - 1
    BY <1>6, <2>1
  <2> QED BY <1>3, <2>2, <2>3
<1>8. \A j \in S : IsFiniteSet(Over(S, j)) /\ Cardinality(Over(S, j)) \in Nat
  BY <1>1, <1>2
<1> QED BY <1>1, <1>4, <1>6, <1>7, <1>8

Moved(n, k, w) == Append(IF n > 0 /\ Len(w) >= n THEN Tail(w) ELSE w, k)

\* The ring of a window keeps the latest positions when one more comes.
LEMMA WindowMoves ==
  ASSUME NEW N \in Nat, NEW S \in SUBSET (1..N), NEW n \in Nat,
         NEW w \in Seq(Nat), Rising(w), Range(w) = Latest(S, n)
  PROVE  /\ Moved(n, N + 1, w) \in Seq(Nat) /\ Rising(Moved(n, N + 1, w))
         /\ Range(Moved(n, N + 1, w)) = Latest(S \union {N + 1}, n)
<1> DEFINE M == N + 1
    v == Moved(n, M, w)
    T == S \union {M}
<1>1. /\ \A j \in S : IsFiniteSet(Over(S, j)) /\ Cardinality(Over(S, j)) \in Nat
      /\ \A i \in 1..Len(w) : w[i] \in S /\ Cardinality(Over(S, w[i])) = Len(w) - i
      /\ n > 0 => Len(w) <= n
  BY WindowCounts
<1>2. M \in Nat /\ S \subseteq Nat /\ (\A j \in S : j < M) /\ M \notin S
  OBVIOUS
<1>3. Len(w) \in Nat /\ DOMAIN w = 1..Len(w) /\ \A i \in 1..Len(w) : w[i] \in Nat
  OBVIOUS
<1>4. Latest(T, n) = {M} \union {j \in S : n = 0 \/ Cardinality(Over(S, j)) + 1 < n}
  <2>1. Over(T, M) = {}
    <3>1. \A k \in T : k \in Nat /\ k <= M
      BY <1>2
    <3> HIDE DEF T, M
    <3> QED BY <1>2, <3>1 DEF Over
  <2>2. Cardinality(Over(T, M)) = 0
    BY <2>1, FS_EmptySet
  <2>3. ASSUME NEW j \in S PROVE Cardinality(Over(T, j)) = Cardinality(Over(S, j)) + 1
    <3>1. Over(T, j) = Over(S, j) \union {M} /\ M \notin Over(S, j)
      BY <1>2 DEF Over
    <3> HIDE DEF M, T
    <3> QED BY <1>1, <3>1, FS_AddElement
  <2>4. Latest(T, n) = {j \in T : n = 0 \/ Cardinality(Over(T, j)) < n}
    BY DEF Latest, Over
  <2>5. M \in Latest(T, n)
    <3>1. M \in T
      OBVIOUS
    <3> HIDE DEF M, T
    <3> QED BY <2>2, <2>4, <3>1
  <2>6. ASSUME NEW j \in S PROVE j \in Latest(T, n) <=> (n = 0 \/ Cardinality(Over(S, j)) + 1 < n)
    BY <2>3, <2>4
  <2>7. \A j \in Latest(T, n) : j \in S \/ j = M
    BY <2>4
  <2> HIDE DEF M, T
  <2> QED BY <2>5, <2>6, <2>7
<1>5. \A j \in S : j \in Range(w) <=> (n = 0 \/ Cardinality(Over(S, j)) < n)
  BY DEF Latest, Over
<1>6. \A i \in 1..Len(w) : (n = 0 \/ Cardinality(Over(S, w[i])) + 1 < n) <=> (n = 0 \/ Len(w) - i + 1 < n)
  BY <1>1
<1> DEFINE Kept == {j \in S : n = 0 \/ Cardinality(Over(S, j)) + 1 < n}
<1>7. ASSUME NEW j PROVE j \in Kept <=> \E i \in 1..Len(w) : j = w[i] /\ (n = 0 \/ Len(w) - i + 1 < n)
  <2>1. ASSUME j \in Kept PROVE j \in Range(w)
    BY <1>1, <1>5, <2>1
  <2>2. j \in Range(w) <=> \E i \in 1..Len(w) : j = w[i]
    BY <1>3 DEF Range
  <2>3. ASSUME NEW i \in 1..Len(w), j = w[i] PROVE j \in Kept <=> (n = 0 \/ Len(w) - i + 1 < n)
    BY <1>1, <1>6, <2>3
  <2> HIDE DEF Kept
  <2> QED BY <2>1, <2>2, <2>3
<1>8. \A i, j \in 1..Len(w) : i < j => w[i] < w[j]
  BY <1>3 DEF Rising
<1>9. CASE n > 0 /\ Len(w) >= n
  <2>1. Len(w) = n /\ w # <<>> /\ v = Append(Tail(w), M)
    <3>1. Len(w) = n
      <4>1. n > 0 => Len(w) <= n
        BY <1>1
      <4>2. Len(w) \in Nat
        BY <1>3
      <4> QED BY <1>9, <4>1, <4>2
    <3>2. w # <<>>
      BY <1>9, <3>1
    <3>3. v = Append(Tail(w), M)
      BY <1>9 DEF Moved
    <3> QED BY <3>1, <3>2, <3>3
  <2>2. v \in Seq(Nat) /\ Len(v) = n /\ v[n] = M /\ \A i \in 1..(n - 1) : v[i] = w[i + 1]
    <3>1. Tail(w) \in Seq(Nat) /\ Len(Tail(w)) = n - 1 /\ \A i \in 1..(n - 1) : Tail(w)[i] = w[i + 1]
      BY <2>1
    <3> HIDE DEF v, M
    <3>2. Append(Tail(w), M) \in Seq(Nat) /\ Len(Append(Tail(w), M)) = n
      BY <1>2, <2>1, <3>1
    <3>3. Append(Tail(w), M)[n] = M
      BY <1>2, <2>1, <3>1
    <3>4. \A i \in 1..(n - 1) : Append(Tail(w), M)[i] = Tail(w)[i]
      BY <1>2, <2>1, <3>1
    <3> QED BY <2>1, <3>1, <3>2, <3>3, <3>4
  <2> HIDE DEF v, M
  <2>3. DOMAIN v = 1..n
    BY <2>2
  <2>4. \A i \in 1..(n - 1) : i + 1 \in 1..Len(w)
    BY <2>1
  <2>5. Rising(v)
    <3> SUFFICES ASSUME NEW i \in 1..n, NEW j \in 1..n, i < j PROVE v[i] < v[j]
      BY <2>3 DEF Rising
    <3>1. CASE j = n
      <4>1. i \in 1..(n - 1)
        BY <3>1
      <4> QED BY <1>1, <1>2, <2>2, <2>4, <3>1, <4>1
    <3>2. CASE j # n
      <4>1. i \in 1..(n - 1) /\ j \in 1..(n - 1) /\ i + 1 < j + 1
        BY <3>2
      <4> QED BY <1>8, <2>2, <2>4, <4>1
    <3> QED BY <3>1, <3>2
  <2>6. ASSUME NEW k PROVE k \in Range(v) <=> k = M \/ k \in Kept
    <3>1. k \in Range(v) <=> k = M \/ \E i \in 1..(n - 1) : k = w[i + 1]
      <4>1. k \in Range(v) <=> \E i \in 1..n : k = v[i]
        BY <2>3 DEF Range
      <4>2. \A i \in 1..n : i = n \/ i \in 1..(n - 1)
        OBVIOUS
      <4>3. n \in 1..n /\ \A i \in 1..(n - 1) : i \in 1..n
        BY <1>9
      <4> QED BY <2>2, <4>1, <4>2, <4>3
    <3>2. (\E i \in 1..(n - 1) : k = w[i + 1]) <=> (\E i \in 1..Len(w) : k = w[i] /\ (n = 0 \/ Len(w) - i + 1 < n))
      <4>1. ASSUME NEW i \in 1..(n - 1) PROVE i + 1 \in 1..Len(w) /\ Len(w) - (i + 1) + 1 < n
        BY <2>1
      <4>2. ASSUME NEW i \in 1..Len(w), n = 0 \/ Len(w) - i + 1 < n PROVE i - 1 \in 1..(n - 1) /\ (i - 1) + 1 = i
        BY <1>9, <2>1, <4>2
      <4> QED BY <4>1, <4>2
    <3> QED BY <1>7, <3>1, <3>2
  <2> QED BY <1>4, <2>2, <2>5, <2>6 DEF v, M
<1>10. CASE ~(n > 0 /\ Len(w) >= n)
  <2>1. v = Append(w, M)
    BY <1>10 DEF Moved
  <2>2. v \in Seq(Nat) /\ Len(v) = Len(w) + 1 /\ v[Len(w) + 1] = M /\ \A i \in 1..Len(w) : v[i] = w[i]
    <3> HIDE DEF v, M
    <3>1. Append(w, M) \in Seq(Nat) /\ Len(Append(w, M)) = Len(w) + 1
      BY <1>2
    <3>2. Append(w, M)[Len(w) + 1] = M /\ \A i \in 1..Len(w) : Append(w, M)[i] = w[i]
      BY <1>2
    <3> QED BY <2>1, <3>1, <3>2
  <2> HIDE DEF v, M
  <2>3. DOMAIN v = 1..(Len(w) + 1)
    BY <2>2
  <2>4. \A i \in 1..(Len(w) + 1) : i = Len(w) + 1 \/ i \in 1..Len(w)
    BY <1>3
  <2>5. Rising(v)
    <3> SUFFICES ASSUME NEW i \in 1..(Len(w) + 1), NEW j \in 1..(Len(w) + 1), i < j PROVE v[i] < v[j]
      BY <2>3 DEF Rising
    <3>1. i \in 1..Len(w)
      BY <1>3
    <3> QED BY <1>1, <1>2, <1>8, <2>2, <2>4, <3>1
  <2>6. ASSUME NEW k PROVE k \in Range(v) <=> k = M \/ k \in Kept
    <3>1. k \in Range(v) <=> \E i \in 1..(Len(w) + 1) : k = v[i]
      BY <2>3 DEF Range
    <3>2. Len(w) + 1 \in 1..(Len(w) + 1) /\ \A i \in 1..Len(w) : i \in 1..(Len(w) + 1)
      BY <1>3
    <3>3. k \in Range(v) <=> k = M \/ \E i \in 1..Len(w) : k = w[i]
      BY <2>2, <2>4, <3>1, <3>2
    <3>4. \A i \in 1..Len(w) : n = 0 \/ Len(w) - i + 1 < n
      BY <1>3, <1>10
    <3> QED BY <1>7, <3>3, <3>4
  <2> QED BY <1>4, <2>2, <2>5, <2>6 DEF v, M
<1> QED BY <1>9, <1>10

-----------------------------------------------------------------------------
(* What a keyed stage remembers.                                           *)

\* The keys of a window move with it.
Recalling(xs, msg, keys, past, n) ==
  /\ Remember(n, msg.key, keys) \in Seq(Class)
  /\ Recalls(Remember(n, msg.key, keys), Append(xs, msg), past \union {Len(xs) + 1}, n)
  /\ Recalls(keys, Append(xs, msg), past, n)
  /\ n > 0 => Len(keys) <= n
  /\ \A k : Contains(keys, k) <=> \E j \in Latest(past, n) : xs[j].key = k

LEMMA RecallsMoves ==
  ASSUME NEW xs \in Seq(Message), NEW msg \in Message, NEW keys \in Seq(Class), NEW n \in Nat,
         NEW past \in SUBSET (1..Len(xs)), Recalls(keys, xs, past, n)
  PROVE  Recalling(xs, msg, keys, past, n)
<1> DEFINE N == Len(xs)
    ys == Append(xs, msg)
    more == Remember(n, msg.key, keys)
<1>1. PICK w \in [1..Len(keys) -> 1..N] :
        /\ Rising(w) /\ Range(w) = Latest(past, n)
        /\ \A i \in 1..Len(keys) : keys[i] = xs[w[i]].key
  BY DEF Recalls
<1>2. N \in Nat /\ Len(keys) \in Nat /\ \A k \in 1..Len(keys) : keys[k] \in Class
  OBVIOUS
<1>3. w \in Seq(Nat) /\ Len(w) = Len(keys) /\ DOMAIN w = 1..Len(keys) /\ \A i \in 1..Len(keys) : w[i] \in 1..N
  <2>1. DOMAIN w = 1..Len(keys) /\ \A i \in 1..Len(keys) : w[i] \in 1..N
    BY <1>1
  <2>2. w \in [1..Len(keys) -> Nat]
    BY <1>1, <1>2
  <2>3. w \in Seq(Nat)
    BY <1>2, <2>2, SeqDef
  <2>4. Len(w) = Len(keys)
    BY <1>2, <2>1, <2>3
  <2> QED BY <2>1, <2>3, <2>4
<1>4. ys \in Seq(Message) /\ Len(ys) = N + 1 /\ ys[N + 1] = msg /\ \A i \in 1..N : ys[i] = xs[i]
  BY OneMore
<1>5. msg.key \in Class
  BY DEF Message
<1> DEFINE v == Moved(n, N + 1, w)
<1>6. v \in Seq(Nat) /\ Rising(v) /\ Range(v) = Latest(past \union {N + 1}, n)
  BY <1>1, <1>2, <1>3, WindowMoves
<1>7. n > 0 => Len(keys) <= n
  BY <1>1, <1>2, <1>3, WindowCounts
<1>8. Recalls(keys, ys, past, n)
  <2>1. w \in [1..Len(keys) -> 1..Len(ys)]
    BY <1>2, <1>3, <1>4
  <2>2. \A i \in 1..Len(keys) : keys[i] = ys[w[i]].key
    BY <1>1, <1>3, <1>4
  <2> HIDE DEF ys, N
  <2> QED BY <1>1, <2>1, <2>2 DEF Recalls
<1>9. \A k : Contains(keys, k) <=> \E j \in Latest(past, n) : xs[j].key = k
  <2>1. \A j : j \in Latest(past, n) <=> \E i \in 1..Len(keys) : j = w[i]
    BY <1>1, <1>3 DEF Range
  <2>2. \A i \in 1..Len(keys) : keys[i] = xs[w[i]].key
    BY <1>1
  <2> DEFINE last == Latest(past, n)
      D == 1..Len(keys)
  <2>3. (\A j : j \in last <=> \E i \in D : j = w[i]) /\ \A i \in D : keys[i] = xs[w[i]].key
    BY <2>1, <2>2
  <2>4. SUFFICES ASSUME NEW k PROVE (\E i \in D : keys[i] = k) <=> \E j \in last : xs[j].key = k
    BY <2>4 DEF Contains
  <2> HIDE DEF last, D, N, ys, more, v
  <2>5. ASSUME NEW i \in D, keys[i] = k PROVE \E j \in last : xs[j].key = k
    BY <2>3, <2>5, Zenon
  <2>6. ASSUME NEW j \in last, xs[j].key = k PROVE \E i \in D : keys[i] = k
    <3>1. PICK i \in D : j = w[i]
      BY <2>3, <2>6
    <3>2. keys[i] = xs[w[i]].key
      BY <2>3
    <3> QED BY <2>6, <3>1, <3>2
  <2> QED BY <2>5, <2>6
<1>10. /\ more \in Seq(Class) /\ Len(more) = Len(v)
       /\ \A i \in 1..Len(v) : v[i] \in 1..(N + 1) /\ more[i] = ys[v[i]].key
  <2>1. CASE n > 0 /\ Len(keys) >= n
    <3>1. v = Append(Tail(w), N + 1) /\ more = Append(Tail(keys), msg.key)
      BY <1>3, <2>1 DEF Moved, Remember
    <3>2. Len(keys) > 0 /\ keys # <<>> /\ w # <<>>
      BY <1>2, <1>3, <2>1
    <3>3. /\ Tail(w) \in Seq(Nat) /\ Len(Tail(w)) = Len(keys) - 1
          /\ \A i \in 1..(Len(keys) - 1) : Tail(w)[i] = w[i + 1]
      BY <1>2, <1>3, <3>2
    <3>4. /\ Tail(keys) \in Seq(Class) /\ Len(Tail(keys)) = Len(keys) - 1
          /\ \A i \in 1..(Len(keys) - 1) : Tail(keys)[i] = keys[i + 1]
      BY <1>2, <3>2
    <3> DEFINE L == Len(keys) - 1
    <3>5. L \in Nat /\ \A i \in 1..L : i + 1 \in 1..Len(keys)
      BY <1>2, <3>2
    <3>6. Len(v) = L + 1 /\ v[L + 1] = N + 1 /\ \A i \in 1..L : v[i] = w[i + 1]
      <4>1. N + 1 \in Nat
        BY <1>2
      <4> HIDE DEF v, N
      <4>2. /\ Len(Append(Tail(w), N + 1)) = Len(Tail(w)) + 1 
            /\ Append(Tail(w), N + 1)[Len(Tail(w)) + 1] = N + 1
            /\ \A i \in 1..Len(Tail(w)) : Append(Tail(w), N + 1)[i] = Tail(w)[i]
        BY <3>3, <4>1, OneMore
      <4> QED BY <3>1, <3>3, <4>2
    <3>7. more \in Seq(Class) /\ Len(more) = L + 1 /\ more[L + 1] = msg.key /\ \A i \in 1..L : more[i] = keys[i + 1]
      BY <1>5, <3>1, <3>4, OneMore
    <3> HIDE DEF v, more, L, ys, N
    <3>8. \A i \in 1..(L + 1) : i = L + 1 \/ i \in 1..L
      BY <3>5
    <3>9. ASSUME NEW i \in 1..L PROVE v[i] \in 1..N /\ more[i] = ys[v[i]].key
      <4>1. i + 1 \in 1..Len(keys)
        BY <3>5
      <4>2. w[i + 1] \in 1..N /\ keys[i + 1] = xs[w[i + 1]].key
        BY <1>1, <1>3, <4>1
      <4> QED BY <1>4, <3>6, <3>7, <4>2
    <3>10. N + 1 \in 1..(N + 1) /\ \A i \in 1..N : i \in 1..(N + 1)
      BY <1>2
    <3> QED BY <1>4, <3>6, <3>7, <3>8, <3>9, <3>10
  <2>2. CASE ~(n > 0 /\ Len(keys) >= n)
    <3>1. v = Append(w, N + 1) /\ more = Append(keys, msg.key)
      BY <1>3, <2>2 DEF Moved, Remember
    <3> DEFINE L == Len(keys)
    <3>2. Len(v) = L + 1 /\ v[L + 1] = N + 1 /\ \A i \in 1..L : v[i] = w[i]
      <4>1. N + 1 \in Nat
        BY <1>2
      <4> HIDE DEF v, N
      <4> QED BY <1>3, <3>1, <4>1, OneMore
    <3>3. more \in Seq(Class) /\ Len(more) = L + 1 /\ more[L + 1] = msg.key /\ \A i \in 1..L : more[i] = keys[i]
      BY <1>5, <3>1, OneMore
    <3>4. \A i \in 1..(L + 1) : i = L + 1 \/ i \in 1..L
      BY <1>2
    <3> HIDE DEF v, more, L, ys, N
    <3>5. ASSUME NEW i \in 1..L PROVE v[i] \in 1..N /\ more[i] = ys[v[i]].key
      BY <1>1, <1>3, <1>4, <3>2, <3>3 DEF L
    <3>6. N + 1 \in 1..(N + 1) /\ \A i \in 1..N : i \in 1..(N + 1)
      BY <1>2
    <3> QED BY <1>4, <3>2, <3>3, <3>4, <3>5, <3>6
  <2> QED BY <2>1, <2>2
<1>11. Recalls(more, ys, past \union {N + 1}, n)
  <2> HIDE DEF v, more, ys, N
  <2>1. v \in [1..Len(more) -> 1..Len(ys)]
    BY <1>4, <1>6, <1>10
  <2> QED BY <1>6, <1>10, <2>1 DEF Recalls
<1> QED BY <1>7, <1>8, <1>9, <1>10, <1>11 DEF Recalling

-----------------------------------------------------------------------------
(* The stages that select.                                                 *)

Transformer == [kind : Kinds, n : Nat]

\* What is owed and what is decided, kind by kind.
LEMMA OwesIs ==
  ASSUME NEW t, NEW xs, NEW K, NEW i
  PROVE  /\ t.kind = "head" => (Owes(t, xs, K, i) <=> i <= t.n)
         /\ t.kind = "tail" => (Owes(t, xs, K, i) <=> i > t.n)
         /\ t.kind = "sample" => (Owes(t, xs, K, i) <=> t.n <= 1 \/ (i - 1) % t.n = 0)
         /\ t.kind = "wait" => (Owes(t, xs, K, i) <=> TRUE)
         /\ t.kind = "dedupe" => (Owes(t, xs, K, i) <=> xs[i].key \in Keyless \/
              (Keyed(xs, i) /\ \A j \in Latest(KeyedBefore(xs, K, i), t.n) : xs[j].key # xs[i].key))
         /\ t.kind = "uniq" => (Owes(t, xs, K, i) <=> xs[i].key \in Keyless \/
              (Keyed(xs, i) /\ \A j \in Latest(KeyedBefore(xs, 1..Len(xs), i), 1) : xs[j].key # xs[i].key))
         /\ t.kind \in {"filter", "assert"} => (Owes(t, xs, K, i) <=> xs[i].key = "a")
         /\ t.kind = "codec" => (Owes(t, xs, K, i) <=> Keyed(xs, i))
<1>1. t.kind = "head" => (Owes(t, xs, K, i) <=> i <= t.n)
  BY DEF Owes
<1>2. t.kind = "tail" => (Owes(t, xs, K, i) <=> i > t.n)
  BY DEF Owes
<1>3. t.kind = "sample" => (Owes(t, xs, K, i) <=> t.n <= 1 \/ (i - 1) % t.n = 0)
  BY DEF Owes
<1>4. t.kind = "wait" => (Owes(t, xs, K, i) <=> TRUE)
  BY DEF Owes
<1>5. t.kind = "dedupe" => (Owes(t, xs, K, i) <=> xs[i].key \in Keyless \/
        (Keyed(xs, i) /\ \A j \in Latest(KeyedBefore(xs, K, i), t.n) : xs[j].key # xs[i].key))
  BY DEF Owes
<1>6. t.kind = "uniq" => (Owes(t, xs, K, i) <=> xs[i].key \in Keyless \/
        (Keyed(xs, i) /\ \A j \in Latest(KeyedBefore(xs, 1..Len(xs), i), 1) : xs[j].key # xs[i].key))
  BY DEF Owes
<1>7. t.kind \in {"filter", "assert"} => (Owes(t, xs, K, i) <=> xs[i].key = "a")
  BY DEF Owes
<1>8. t.kind = "codec" => (Owes(t, xs, K, i) <=> Keyed(xs, i))
  BY DEF Owes
<1> QED BY <1>1, <1>2, <1>3, <1>4, <1>5, <1>6, <1>7, <1>8

LEMMA DecisionIs ==
  ASSUME NEW t, NEW m, NEW s
  PROVE  /\ t.kind = "head" => Decision(t, m, s) = HeadOf(t.n, m, s)
         /\ t.kind = "tail" => Decision(t, m, s) = TailOf(t.n, m, s)
         /\ t.kind = "sample" => Decision(t, m, s) = SampleOf(t.n, m, s)
         /\ t.kind = "wait" => Decision(t, m, s) = Pass(m, s)
         /\ t.kind = "dedupe" => Decision(t, m, s) = Dedupe(t.n, m, s)
         /\ t.kind = "uniq" => Decision(t, m, s) = Uniq(m, s)
         /\ t.kind = "batch" => Decision(t, m, s) = Batch(t.n, m, s)
         /\ t.kind = "count" => Decision(t, m, s) = Count(t.n, m, s)
         /\ t.kind = "filter" => Decision(t, m, s) = Filter(m, s)
         /\ t.kind = "assert" => Decision(t, m, s) = AssertThat(m, s)
         /\ t.kind = "codec" => Decision(t, m, s) = Codec(t.n, m, s)
BY DEF Decision

\* What was keyed before a position does not change with a further message.
Steady(xs, msg, K, L) ==
  /\ \A i \in 1..(Len(xs) + 1) : KeyedBefore(Append(xs, msg), L, i) = KeyedBefore(xs, K, i)
  /\ \A i \in 1..(Len(xs) + 1) :
       KeyedBefore(Append(xs, msg), 1..(Len(xs) + 1), i) = KeyedBefore(xs, 1..Len(xs), i)
  /\ KeyedBefore(Append(xs, msg), L, Len(xs) + 2) =
       KeyedBefore(xs, K, Len(xs) + 1) \union
       {j \in {Len(xs) + 1} : j \in L /\ msg.key \in {"a", "b"}}
  /\ KeyedBefore(Append(xs, msg), 1..(Len(xs) + 1), Len(xs) + 2) =
       KeyedBefore(xs, 1..Len(xs), Len(xs) + 1) \union
       {j \in {Len(xs) + 1} : msg.key \in {"a", "b"}}

LEMMA KeyedBeforeKeeps ==
  ASSUME NEW xs \in Seq(Message), NEW msg \in Message, NEW K \in SUBSET (1..Len(xs)),
         NEW L, L = K \/ L = K \union {Len(xs) + 1}
  PROVE  Steady(xs, msg, K, L)
<1> DEFINE N == Len(xs)
    ys == Append(xs, msg)
<1>1. N \in Nat /\ ys[N + 1] = msg /\ \A i \in 1..N : ys[i] = xs[i]
  BY OneMore
<1> HIDE DEF ys
<1>2. \A j \in 1..N : Keyed(ys, j) <=> Keyed(xs, j)
  BY <1>1 DEF Keyed
<1>3. Keyed(ys, N + 1) <=> msg.key \in {"a", "b"}
  BY <1>1 DEF Keyed
<1>4. \A i \in 1..(N + 1) : KeyedBefore(ys, L, i) = KeyedBefore(xs, K, i)
  <2> TAKE i \in 1..(N + 1)
  <2>1. \A j \in L : j < i => j \in K
    BY <1>1
  <2>2. \A j \in K : j \in 1..N /\ j \in L
    OBVIOUS
  <2> HIDE DEF N
  <2> QED BY <1>2, <2>1, <2>2 DEF KeyedBefore
<1>5. \A i \in 1..(N + 1) : KeyedBefore(ys, 1..(N + 1), i) = KeyedBefore(xs, 1..N, i)
  BY <1>1, <1>2 DEF KeyedBefore
<1>6. \A j \in K : j \in 1..N /\ j < N + 1 /\ j < N + 2 /\ j # N + 1
  BY <1>1
<1>7. KeyedBefore(ys, L, N + 2) = KeyedBefore(xs, K, N + 1) \union {j \in {N + 1} : j \in L /\ msg.key \in {"a", "b"}}
  <2>1. N + 1 < N + 2
    BY <1>1
  <2>2. \A j \in L : j \in K \/ j = N + 1
    OBVIOUS
  <2>3. K \subseteq L
    OBVIOUS
  <2> HIDE DEF N
  <2> QED BY <1>2, <1>3, <1>6, <2>1, <2>2, <2>3 DEF KeyedBefore
<1>8. KeyedBefore(ys, 1..(N + 1), N + 2) = KeyedBefore(xs, 1..N, N + 1) \union {j \in {N + 1} : msg.key \in {"a", "b"}}
  <2>1. N + 1 < N + 2 /\ N + 1 \in 1..(N + 1)
    BY <1>1
  <2>2. \A j \in 1..(N + 1) : j \in 1..N \/ j = N + 1
    BY <1>1
  <2>3. \A j \in 1..N : j \in 1..(N + 1) /\ j < N + 1 /\ j < N + 2 /\ j # N + 1
    BY <1>1
  <2> HIDE DEF N
  <2> QED BY <1>2, <1>3, <2>1, <2>2, <2>3 DEF KeyedBefore
<1> QED BY <1>4, <1>5, <1>7, <1>8 DEF ys, Steady

\* So what is owed of the messages so far is settled.
LEMMA OwesKeeps ==
  ASSUME NEW t \in Transformer, t.kind \notin {"batch", "count"},
         NEW xs \in Seq(Message), NEW msg \in Message, NEW K \in SUBSET (1..Len(xs)),
         NEW L, L = K \/ L = K \union {Len(xs) + 1}, NEW i \in 1..Len(xs)
  PROVE  Owes(t, Append(xs, msg), L, i) <=> Owes(t, xs, K, i)
<1> DEFINE N == Len(xs)
    ys == Append(xs, msg)
<1>1. N \in Nat /\ Len(ys) = N + 1 /\ ys[N + 1] = msg /\ \A j \in 1..N : ys[j] = xs[j]
  BY OneMore
<1>2. /\ KeyedBefore(ys, L, i) = KeyedBefore(xs, K, i)
      /\ KeyedBefore(ys, 1..Len(ys), i) = KeyedBefore(xs, 1..N, i)
  <2>1. i \in 1..(N + 1)
    BY <1>1
  <2>2. Steady(xs, msg, K, L)
    BY KeyedBeforeKeeps
  <2> QED BY <1>1, <2>1, <2>2 DEF Steady
<1>3. ys[i] = xs[i] /\ (Keyed(ys, i) <=> Keyed(xs, i))
  BY <1>1 DEF Keyed
<1>4. \A n : Latest(KeyedBefore(xs, K, i), n) \subseteq 1..N /\ Latest(KeyedBefore(xs, 1..N, i), n) \subseteq 1..N
  BY DEF Latest, KeyedBefore
<1>5. t.kind \in {"head", "tail", "sample", "wait", "dedupe", "uniq", "filter", "assert", "codec"}
  BY DEF Transformer, Kinds
<1> HIDE DEF ys, N
<1>6. CASE t.kind = "dedupe"
  <2>1. /\ Owes(t, ys, L, i) <=> ys[i].key \in Keyless \/
             (Keyed(ys, i) /\ \A j \in Latest(KeyedBefore(ys, L, i), t.n) : ys[j].key # ys[i].key)
        /\ Owes(t, xs, K, i) <=> xs[i].key \in Keyless \/
             (Keyed(xs, i) /\ \A j \in Latest(KeyedBefore(xs, K, i), t.n) : xs[j].key # xs[i].key)
    BY <1>6, OwesIs
  <2>2. \A j \in Latest(KeyedBefore(xs, K, i), t.n) : ys[j] = xs[j]
    BY <1>1, <1>4
  <2> QED BY <1>2, <1>3, <2>1, <2>2 DEF ys
<1>7. CASE t.kind = "uniq"
  <2>1. /\ Owes(t, ys, L, i) <=> ys[i].key \in Keyless \/
             (Keyed(ys, i) /\ \A j \in Latest(KeyedBefore(ys, 1..Len(ys), i), 1) : ys[j].key # ys[i].key)
        /\ Owes(t, xs, K, i) <=> xs[i].key \in Keyless \/
             (Keyed(xs, i) /\ \A j \in Latest(KeyedBefore(xs, 1..Len(xs), i), 1) : xs[j].key # xs[i].key)
    BY <1>7, OwesIs
  <2>2. \A j \in Latest(KeyedBefore(xs, 1..Len(xs), i), 1) : ys[j] = xs[j]
    BY <1>1, <1>4 DEF N
  <2> QED BY <1>2, <1>3, <2>1, <2>2 DEF ys, N
<1>8. CASE t.kind = "head"
  BY <1>8, OwesIs DEF ys
<1>9. CASE t.kind = "tail"
  BY <1>9, OwesIs DEF ys
<1>10. CASE t.kind = "sample"
  <2>1. /\ Owes(t, ys, L, i) <=> t.n <= 1 \/ (i - 1) % t.n = 0
        /\ Owes(t, xs, K, i) <=> t.n <= 1 \/ (i - 1) % t.n = 0
    BY <1>10, OwesIs
  <2> QED BY <2>1 DEF ys
<1>11. CASE t.kind = "wait"
  BY <1>11, OwesIs DEF ys
<1>12. CASE t.kind \in {"filter", "assert"}
  <2>1. Owes(t, ys, L, i) <=> ys[i].key = "a"
    BY <1>12, OwesIs
  <2>2. Owes(t, xs, K, i) <=> xs[i].key = "a"
    BY <1>12, OwesIs
  <2> QED BY <1>3, <2>1, <2>2 DEF ys
<1>13. CASE t.kind = "codec"
  BY <1>3, <1>13, OwesIs DEF ys
<1> QED BY <1>5, <1>6, <1>7, <1>8, <1>9, <1>10, <1>11, <1>12, <1>13

\* The positions that a selection let through.
Chosen(t, xs, ys, pos) ==
  /\ pos \in [1..Len(ys) -> 1..Len(xs)]
  /\ Rising(pos) /\ \A i \in 1..Len(ys) : ys[i] = xs[pos[i]]
  /\ \A i \in 1..Len(xs) : i \in Range(pos) <=> Owes(t, xs, Range(pos), i)

LEMMA SelectsByChosen ==
  ASSUME NEW t, NEW xs, NEW ys, NEW m
  PROVE  Selects(t, xs, ys, m) <=> \E pos : Chosen(t, xs, ys, pos) /\ Remembers(t, xs, Range(pos), m)
BY DEF Selects, Chosen

\* A rising choice of positions, and the position that follows them all.
LEMMA RisingMore ==
  ASSUME NEW N \in Nat, NEW L \in Nat, NEW pos \in [1..L -> 1..N], Rising(pos),
         NEW more \in [1..(L + 1) -> 1..(N + 1)], more[L + 1] = N + 1, \A i \in 1..L : more[i] = pos[i]
  PROVE  Rising(more) /\ Range(more) = Range(pos) \union {N + 1}
<1>1. /\ DOMAIN pos = 1..L /\ \A i \in 1..L : pos[i] \in 1..N
      /\ \A i, j \in 1..L : i < j => pos[i] < pos[j]
  BY DEF Rising
<1>2. DOMAIN more = 1..(L + 1) /\ \A i \in 1..(L + 1) : i = L + 1 \/ i \in 1..L
  OBVIOUS
<1>3. N + 1 \in 1..(N + 1) /\ L + 1 \in 1..(L + 1) /\ (\A i \in 1..N : i \in 1..(N + 1) /\ i < N + 1 /\ i # N + 1)
      /\ (\A i \in 1..L : i \in 1..(L + 1)) /\ \A i \in 1..(N + 1) : i = N + 1 \/ i \in 1..N
  OBVIOUS
<1>4. Range(more) = Range(pos) \union {N + 1}
  <2>1. ASSUME NEW k PROVE k \in Range(more) <=> \E i \in 1..(L + 1) : k = more[i]
    BY <1>2 DEF Range
  <2>2. ASSUME NEW k PROVE k \in Range(pos) <=> \E i \in 1..L : k = pos[i]
    BY <1>1 DEF Range
  <2>3. ASSUME NEW k \in Range(more) PROVE k \in Range(pos) \union {N + 1}
    <3>1. PICK i \in 1..(L + 1) : k = more[i]
      BY <2>1
    <3>2. i = L + 1 \/ i \in 1..L
      BY <1>2
    <3> QED BY <2>2, <1>2, <3>1, <3>2
  <2>4. N + 1 \in Range(more)
    BY <2>1, <1>2, <1>3
  <2>5. ASSUME NEW k \in Range(pos) PROVE k \in Range(more)
    <3>1. PICK i \in 1..L : k = pos[i]
      BY <2>2
    <3>2. i \in 1..(L + 1) /\ more[i] = k
      BY <1>2, <1>3, <3>1
    <3> QED BY <2>1, <3>2
  <2> QED BY <2>3, <2>4, <2>5
<1>6. Rising(more)
  <2> SUFFICES ASSUME NEW i \in 1..(L + 1), NEW j \in 1..(L + 1), i < j PROVE more[i] < more[j]
    BY <1>2 DEF Rising
  <2>1. i \in 1..L
    OBVIOUS
  <2> QED BY <1>1, <1>2, <1>3, <2>1
<1> QED BY <1>4, <1>6

\* The message is owed, and passed on.
LEMMA SelectPasses ==
  ASSUME NEW t \in Transformer, t.kind \notin {"batch", "count"},
         NEW xs \in Seq(Message), NEW msg \in Message, NEW ys \in Seq(Message),
         NEW pos, Chosen(t, xs, ys, pos), NEW m,
         Owes(t, Append(xs, msg), Range(pos) \union {Len(xs) + 1}, Len(xs) + 1),
         Remembers(t, Append(xs, msg), Range(pos) \union {Len(xs) + 1}, m)
  PROVE  Selects(t, Append(xs, msg), Append(ys, msg), m)
<1> DEFINE N == Len(xs)
    L == Len(ys)
    xs2 == Append(xs, msg)
    ys2 == Append(ys, msg)
    pos2 == [i \in 1..(L + 1) |-> IF i <= L THEN pos[i] ELSE N + 1]
<1>1. N \in Nat /\ Len(xs2) = N + 1 /\ xs2[N + 1] = msg /\ \A j \in 1..N : xs2[j] = xs[j]
  BY OneMore
<1>2. L \in Nat /\ Len(ys2) = L + 1 /\ ys2[L + 1] = msg /\ \A j \in 1..L : ys2[j] = ys[j]
  BY OneMore
<1>3. /\ DOMAIN pos = 1..L /\ \A i \in 1..L : pos[i] \in 1..N /\ ys[i] = xs[pos[i]]
      /\ \A i, j \in 1..L : i < j => pos[i] < pos[j]
      /\ \A i \in 1..N : i \in Range(pos) <=> Owes(t, xs, Range(pos), i)
  BY DEF Chosen, Rising
<1>4. /\ pos2 \in [1..(L + 1) -> 1..(N + 1)] /\ Rising(pos2)
      /\ Range(pos2) = Range(pos) \union {N + 1}
      /\ pos2[L + 1] = N + 1 /\ \A i \in 1..L : pos2[i] = pos[i]
  <2>1. pos \in [1..L -> 1..N] /\ Rising(pos)
    BY DEF Chosen
  <2>2. L \in Nat /\ N \in Nat
    BY <1>1, <1>2
  <2> HIDE DEF L, N
  <2>3. pos2 \in [1..(L + 1) -> 1..(N + 1)] /\ pos2[L + 1] = N + 1 /\ \A i \in 1..L : pos2[i] = pos[i]
    BY <2>1, <2>2
  <2> HIDE DEF pos2
  <2>4. Rising(pos2) /\ Range(pos2) = Range(pos) \union {N + 1}
    BY <2>1, <2>2, <2>3, RisingMore
  <2> QED BY <2>3, <2>4
<1> HIDE DEF xs2, ys2, pos2
<1>5. (\A i \in 1..N : i \in 1..(N + 1) /\ i # N + 1) /\ (\A i \in 1..(N + 1) : i = N + 1 \/ i \in 1..N)
      /\ \A i \in 1..(L + 1) : i = L + 1 \/ i \in 1..L
  BY <1>1, <1>2
<1>6. Range(pos2) = Range(pos) \union {N + 1}
  BY <1>4
<1>7. Range(pos) \in SUBSET (1..N)
  BY <1>3 DEF Range
<1>8. pos2 \in [1..Len(ys2) -> 1..Len(xs2)]
  BY <1>1, <1>2, <1>4
<1>9. Rising(pos2)
  BY <1>4
<1>10. \A i \in 1..Len(ys2) : ys2[i] = xs2[pos2[i]]
  <2> SUFFICES ASSUME NEW i \in 1..(L + 1) PROVE ys2[i] = xs2[pos2[i]]
    BY <1>2
  <2>1. CASE i = L + 1
    BY <1>1, <1>2, <1>4, <2>1
  <2>2. CASE i \in 1..L
    <3>1. pos2[i] = pos[i] /\ pos[i] \in 1..N /\ ys[i] = xs[pos[i]] /\ ys2[i] = ys[i]
      BY <1>2, <1>3, <1>4, <2>2
    <3>2. xs2[pos[i]] = xs[pos[i]]
      BY <1>1, <3>1
    <3> QED BY <3>1, <3>2
  <2> QED BY <1>5, <2>1, <2>2
<1>11. \A i \in 1..Len(xs2) : i \in Range(pos2) <=> Owes(t, xs2, Range(pos2), i)
  <2> SUFFICES ASSUME NEW i \in 1..(N + 1) PROVE i \in Range(pos2) <=> Owes(t, xs2, Range(pos2), i)
    BY <1>1
  <2>1. CASE i = N + 1
    BY <1>6, <2>1 DEF xs2
  <2>2. CASE i \in 1..N
    <3>1. Owes(t, xs2, Range(pos2), i) <=> Owes(t, xs, Range(pos), i)
      BY <1>6, <1>7, <2>2, OwesKeeps DEF xs2
    <3> QED BY <1>3, <1>5, <1>6, <2>2, <3>1
  <2> QED BY <1>5, <2>1, <2>2
<1>12. Chosen(t, xs2, ys2, pos2)
  BY <1>8, <1>9, <1>10, <1>11 DEF Chosen
<1>13. Remembers(t, xs2, Range(pos2), m)
  BY <1>6 DEF xs2
<1> QED BY <1>12, <1>13, SelectsByChosen DEF xs2, ys2

\* It is not owed, and dropped or failed on.
LEMMA SelectDrops ==
  ASSUME NEW t \in Transformer, t.kind \notin {"batch", "count"},
         NEW xs \in Seq(Message), NEW msg \in Message, NEW ys \in Seq(Message),
         NEW pos, Chosen(t, xs, ys, pos), NEW m,
         ~Owes(t, Append(xs, msg), Range(pos), Len(xs) + 1),
         Remembers(t, Append(xs, msg), Range(pos), m)
  PROVE  Selects(t, Append(xs, msg), ys, m)
<1> DEFINE N == Len(xs)
    xs2 == Append(xs, msg)
<1>1. N \in Nat /\ Len(xs2) = N + 1 /\ xs2[N + 1] = msg /\ \A j \in 1..N : xs2[j] = xs[j]
  BY OneMore
<1>2. /\ pos \in [1..Len(ys) -> 1..N] /\ DOMAIN pos = 1..Len(ys) /\ Rising(pos)
      /\ \A i \in 1..Len(ys) : pos[i] \in 1..N /\ ys[i] = xs[pos[i]]
      /\ \A i \in 1..N : i \in Range(pos) <=> Owes(t, xs, Range(pos), i)
  BY DEF Chosen
<1>3. Range(pos) \in SUBSET (1..N)
  BY <1>2 DEF Range
<1> HIDE DEF xs2
<1>4. (\A i \in 1..N : i \in 1..(N + 1) /\ i # N + 1) /\ \A i \in 1..(N + 1) : i = N + 1 \/ i \in 1..N
  BY <1>1
<1>5. pos \in [1..Len(ys) -> 1..Len(xs2)]
  BY <1>1, <1>2, <1>4
<1>6. \A i \in 1..Len(ys) : ys[i] = xs2[pos[i]]
  BY <1>1, <1>2
<1>7. \A i \in 1..Len(xs2) : i \in Range(pos) <=> Owes(t, xs2, Range(pos), i)
  <2> SUFFICES ASSUME NEW i \in 1..(N + 1) PROVE i \in Range(pos) <=> Owes(t, xs2, Range(pos), i)
    BY <1>1
  <2>1. CASE i = N + 1
    <3>1. i \notin Range(pos)
      BY <1>3, <1>4, <2>1
    <3> QED BY <2>1, <3>1 DEF xs2
  <2>2. CASE i \in 1..N
    <3>1. Owes(t, xs2, Range(pos), i) <=> Owes(t, xs, Range(pos), i)
      BY <1>3, <2>2, OwesKeeps DEF xs2
    <3> QED BY <1>2, <2>2, <3>1
  <2> QED BY <1>4, <2>1, <2>2
<1>8. Chosen(t, xs2, ys, pos)
  BY <1>2, <1>5, <1>6, <1>7 DEF Chosen
<1> QED BY <1>8, SelectsByChosen DEF xs2

Memory == [n : Nat, keys : Seq(Class), buf : Seq(Message)]

\* A decision d of a selecting stage is right: what is owed is passed on, what
\* is not is dropped, or failed on when the stage fails on it.
Rightly(t, xs, K, msg, m, d) ==
  /\ d.mem \in Memory /\ d.mem.buf = m.buf
  /\ \/ /\ d.out = <<msg>> /\ d.err = FALSE /\ ~Fails(t, msg)
        /\ Owes(t, Append(xs, msg), K \union {Len(xs) + 1}, Len(xs) + 1)
        /\ Remembers(t, Append(xs, msg), K \union {Len(xs) + 1}, d.mem)
     \/ /\ d.out = <<>> /\ ((d.err = TRUE /\ Fails(t, msg)) \/ (d.err = FALSE /\ ~Fails(t, msg)))
        /\ ~Owes(t, Append(xs, msg), K, Len(xs) + 1)
        /\ Remembers(t, Append(xs, msg), K, d.mem)

LEMMA MemoryForms ==
  ASSUME NEW m \in Memory
  PROVE  /\ m.n \in Nat /\ m.keys \in Seq(Class) /\ m.buf \in Seq(Message)
         /\ Seen(m) \in Memory /\ Seen(m).n = m.n + 1 /\ Seen(m).keys = m.keys /\ Seen(m).buf = m.buf
         /\ \A k \in Seq(Class) : /\ [m EXCEPT !.keys = k] \in Memory /\ [m EXCEPT !.keys = k].keys = k
                                  /\ [m EXCEPT !.keys = k].n = m.n /\ [m EXCEPT !.keys = k].buf = m.buf
BY DEF Memory, Seen

LEMMA BufferForms ==
  ASSUME NEW m \in Memory, NEW b \in Seq(Message)
  PROVE  /\ [m EXCEPT !.buf = b] \in Memory /\ [m EXCEPT !.buf = b].buf = b
         /\ [m EXCEPT !.buf = b].n = m.n /\ [m EXCEPT !.buf = b].keys = m.keys
         /\ [m EXCEPT !.buf = b, !.n = 1] \in Memory /\ [m EXCEPT !.buf = b, !.n = 1].buf = b
         /\ [m EXCEPT !.buf = b, !.n = 1].n = 1
BY DEF Memory

LEMMA PassesRightly ==
  ASSUME NEW t, NEW xs, NEW K, NEW msg, NEW m, NEW s \in Memory, s.buf = m.buf, ~Fails(t, msg),
         Owes(t, Append(xs, msg), K \union {Len(xs) + 1}, Len(xs) + 1),
         Remembers(t, Append(xs, msg), K \union {Len(xs) + 1}, s)
  PROVE  Rightly(t, xs, K, msg, m, Pass(msg, s))
BY DEF Rightly, Pass

LEMMA DropsRightly ==
  ASSUME NEW t, NEW xs, NEW K, NEW msg, NEW m, NEW s \in Memory, s.buf = m.buf,
         ~Owes(t, Append(xs, msg), K, Len(xs) + 1), Remembers(t, Append(xs, msg), K, s)
  PROVE  /\ ~Fails(t, msg) => Rightly(t, xs, K, msg, m, Drop(s))
         /\ Fails(t, msg) => Rightly(t, xs, K, msg, m, Fail(s))
BY DEF Rightly, Drop, Fail

\* Stages that count, and stages that look at the message alone.
LEMMA PlainIsRight ==
  ASSUME NEW t \in Transformer, NEW xs \in Seq(Message), NEW msg \in Message, NEW m \in Memory,
         NEW K \in SUBSET (1..Len(xs)), Remembers(t, xs, K, m),
         t.kind \in {"head", "tail", "sample", "wait", "filter", "assert", "codec"}
  PROVE  Rightly(t, xs, K, msg, m, Decision(t, msg, m))
<1> USE DEF Keyless
<1> DEFINE N == Len(xs)
    ys == Append(xs, msg)
    d == Decision(t, msg, m)
    M == K \union {N + 1}
<1>1. N \in Nat /\ Len(ys) = N + 1 /\ ys[N + 1] = msg
  BY OneMore
<1>2. t.n \in Nat /\ msg.key \in {"a", "b", "nokey", "unfit", "bad"}
  BY DEF Transformer, Message, Class
<1>3. m.n \in Nat /\ Seen(m) \in Memory /\ Seen(m).n = m.n + 1 /\ Seen(m).buf = m.buf
  BY MemoryForms
<1> HIDE DEF ys, N, d, M
<1>4. CASE t.kind = "head"
  <2>1. d = HeadOf(t.n, msg, m) /\ ~Fails(t, msg)
    BY <1>4, DecisionIs DEF Fails, d
  <2>2. \A X : Owes(t, ys, X, N + 1) <=> N + 1 <= t.n
    BY <1>4, OwesIs
  <2>3. m.n = IF N <= t.n THEN N ELSE t.n
    BY <1>4 DEF Remembers, N
  <2>4. CASE m.n >= t.n
    <3>1. d = Drop(m)
      BY <2>1, <2>4 DEF HeadOf
    <3>2. ~(N + 1 <= t.n) /\ m.n = IF N + 1 <= t.n THEN N + 1 ELSE t.n
      BY <1>1, <1>2, <1>3, <2>3, <2>4
    <3>3. Remembers(t, ys, K, m)
      BY <1>1, <1>4, <3>2 DEF Remembers
    <3> QED BY <2>1, <2>2, <3>1, <3>2, <3>3, DropsRightly DEF d, ys, N
  <2>5. CASE m.n < t.n
    <3>1. d = Pass(msg, Seen(m))
      BY <1>2, <1>3, <2>1, <2>5 DEF HeadOf
    <3>2. N + 1 <= t.n /\ Seen(m).n = IF N + 1 <= t.n THEN N + 1 ELSE t.n
      BY <1>1, <1>2, <1>3, <2>3, <2>5
    <3>3. Remembers(t, ys, M, Seen(m))
      BY <1>1, <1>4, <3>2 DEF Remembers
    <3> QED BY <1>3, <2>1, <2>2, <3>1, <3>2, <3>3, PassesRightly DEF d, ys, N, M
  <2> QED BY <1>2, <1>3, <2>4, <2>5
<1>5. CASE t.kind = "tail"
  <2>1. d = TailOf(t.n, msg, m) /\ ~Fails(t, msg)
    BY <1>5, DecisionIs DEF Fails, d
  <2>2. \A X : Owes(t, ys, X, N + 1) <=> N + 1 > t.n
    BY <1>5, OwesIs
  <2>3. m.n = IF N <= t.n THEN N ELSE t.n
    BY <1>5 DEF Remembers, N
  <2>4. CASE m.n < t.n
    <3>1. d = Drop(Seen(m))
      BY <2>1, <2>4 DEF TailOf
    <3>2. ~(N + 1 > t.n) /\ Seen(m).n = IF N + 1 <= t.n THEN N + 1 ELSE t.n
      BY <1>1, <1>2, <1>3, <2>3, <2>4
    <3>3. Remembers(t, ys, K, Seen(m))
      BY <1>1, <1>5, <3>2 DEF Remembers
    <3> QED BY <1>3, <2>1, <2>2, <3>1, <3>2, <3>3, DropsRightly DEF d, ys, N
  <2>5. CASE m.n >= t.n
    <3>1. d = Pass(msg, m)
      BY <1>2, <1>3, <2>1, <2>5 DEF TailOf
    <3>2. N + 1 > t.n /\ m.n = IF N + 1 <= t.n THEN N + 1 ELSE t.n
      BY <1>1, <1>2, <1>3, <2>3, <2>5
    <3>3. Remembers(t, ys, M, m)
      BY <1>1, <1>5, <3>2 DEF Remembers
    <3> QED BY <2>1, <2>2, <3>1, <3>2, <3>3, PassesRightly DEF d, ys, N, M
  <2> QED BY <1>2, <1>3, <2>4, <2>5
<1>6. CASE t.kind = "sample"
  <2>1. d = SampleOf(t.n, msg, m) /\ ~Fails(t, msg)
    BY <1>6, DecisionIs DEF Fails, d
  <2>2. \A X : Owes(t, ys, X, N + 1) <=> t.n <= 1 \/ N % t.n = 0
    <3>1. (N + 1) - 1 = N
      BY <1>1
    <3> QED BY <1>6, <3>1, OwesIs
  <2>3. m.n = N
    BY <1>6 DEF Remembers, N
  <2>4. Remembers(t, ys, K, Seen(m)) /\ Remembers(t, ys, M, Seen(m))
    BY <1>1, <1>3, <1>6, <2>3 DEF Remembers
  <2>5. CASE t.n <= 1 \/ m.n % t.n = 0
    <3>1. d = Pass(msg, Seen(m))
      BY <2>1, <2>5 DEF SampleOf
    <3> QED BY <1>3, <2>1, <2>2, <2>3, <2>4, <2>5, <3>1, PassesRightly DEF d, ys, N, M
  <2>6. CASE ~(t.n <= 1 \/ m.n % t.n = 0)
    <3>1. d = Drop(Seen(m))
      BY <2>1, <2>6 DEF SampleOf
    <3> QED BY <1>3, <2>1, <2>2, <2>3, <2>4, <2>6, <3>1, DropsRightly DEF d, ys, N
  <2> QED BY <2>5, <2>6
<1>7. CASE t.kind = "wait"
  <2>1. d = Pass(msg, m) /\ ~Fails(t, msg)
    BY <1>7, DecisionIs DEF Fails, d
  <2>2. Owes(t, ys, M, N + 1)
    BY <1>7, OwesIs
  <2>3. Remembers(t, ys, M, m)
    BY <1>7 DEF Remembers
  <2> QED BY <2>1, <2>2, <2>3, PassesRightly DEF d, ys, N, M
<1>8. CASE t.kind \in {"filter", "assert"}
  <2>1. /\ t.kind = "filter" => d = Filter(msg, m)
        /\ t.kind = "assert" => d = AssertThat(msg, m)
    BY DecisionIs DEF d
  <2>2. \A X : Owes(t, ys, X, N + 1) <=> msg.key = "a"
    BY <1>1, <1>8, OwesIs
  <2>3. Remembers(t, ys, M, m) /\ Remembers(t, ys, K, m)
    BY <1>8 DEF Remembers
  <2>4. CASE msg.key = "a"
    <3>1. d = Pass(msg, m) /\ ~Fails(t, msg)
      BY <1>8, <2>1, <2>4 DEF Filter, AssertThat, Fails
    <3> QED BY <2>2, <2>3, <2>4, <3>1, PassesRightly DEF d, ys, N, M
  <2>5. CASE msg.key # "a"
    <3>1. (d = Drop(m) /\ ~Fails(t, msg)) \/ (d = Fail(m) /\ Fails(t, msg))
      BY <1>8, <2>1, <2>5 DEF Filter, AssertThat, Fails
    <3> QED BY <2>2, <2>3, <2>5, <3>1, DropsRightly DEF d, ys, N
  <2> QED BY <2>4, <2>5
<1>9. CASE t.kind = "codec"
  <2>1. d = Codec(t.n, msg, m)
    BY <1>9, DecisionIs DEF d
  <2>2. \A X : Owes(t, ys, X, N + 1) <=> msg.key \in {"a", "b"}
    BY <1>1, <1>9, OwesIs DEF Keyed
  <2>3. Remembers(t, ys, M, m) /\ Remembers(t, ys, K, m)
    BY <1>9 DEF Remembers
  <2>4. CASE msg.key \in {"a", "b"}
    <3>1. d = Pass(msg, m) /\ ~Fails(t, msg)
      BY <1>9, <2>1, <2>4 DEF Codec, Fails
    <3> QED BY <2>2, <2>3, <2>4, <3>1, PassesRightly DEF d, ys, N, M
  <2>5. CASE msg.key \notin {"a", "b"}
    <3>1. (d = Drop(m) /\ ~Fails(t, msg)) \/ (d = Fail(m) /\ Fails(t, msg))
      BY <1>2, <1>9, <2>1, <2>5 DEF Codec, Fails
    <3> QED BY <2>2, <2>3, <2>5, <3>1, DropsRightly DEF d, ys, N
  <2> QED BY <2>4, <2>5
<1> QED BY <1>4, <1>5, <1>6, <1>7, <1>8, <1>9 DEF d

\* The keyed stages: the window tells a repeated key.
LEMMA DedupeIsRight ==
  ASSUME NEW t \in Transformer, NEW xs \in Seq(Message), NEW msg \in Message, NEW m \in Memory,
         NEW K \in SUBSET (1..Len(xs)), Remembers(t, xs, K, m), t.kind = "dedupe"
  PROVE  Rightly(t, xs, K, msg, m, Decision(t, msg, m))
<1> USE DEF Keyless
<1> DEFINE N == Len(xs)
    ys == Append(xs, msg)
    d == Decision(t, msg, m)
    M == K \union {N + 1}
    past == KeyedBefore(xs, K, N + 1)
    more == Remember(t.n, msg.key, m.keys)
<1>1. N \in Nat /\ Len(ys) = N + 1 /\ ys[N + 1] = msg /\ Len(ys) + 1 = N + 2 /\ \A j \in 1..N : ys[j] = xs[j]
  BY OneMore
<1>2. t.n \in Nat /\ msg.key \in {"a", "b", "nokey", "unfit", "bad"}
  BY DEF Transformer, Message, Class
<1>3. past \in SUBSET (1..N) /\ \A n : Latest(past, n) \subseteq 1..N
  BY DEF KeyedBefore, Latest
<1>4. Recalls(m.keys, xs, past, t.n)
  BY DEF Remembers
<1>5. m.keys \in Seq(Class)
  BY MemoryForms
<1>6. /\ more \in Seq(Class) /\ Recalls(more, ys, past \union {N + 1}, t.n) /\ Recalls(m.keys, ys, past, t.n)
      /\ \A k : Contains(m.keys, k) <=> \E j \in Latest(past, t.n) : xs[j].key = k
  <2>1. Recalling(xs, msg, m.keys, past, t.n)
    BY <1>2, <1>3, <1>4, <1>5, RecallsMoves
  <2> QED BY <2>1 DEF Recalling
<1>7. Steady(xs, msg, K, K) /\ Steady(xs, msg, K, M)
  BY KeyedBeforeKeeps
<1>8. N + 1 \in 1..(N + 1) /\ N + 1 \notin K
  BY <1>1
<1>9. KeyedBefore(ys, K, N + 1) = past /\ KeyedBefore(ys, M, N + 1) = past
  BY <1>7, <1>8 DEF Steady
<1>10. KeyedBefore(ys, K, N + 2) = past
  <2>1. KeyedBefore(ys, K, N + 2) = past \union {j \in {N + 1} : j \in K /\ msg.key \in {"a", "b"}}
    BY <1>7 DEF Steady
  <2>2. {j \in {N + 1} : j \in K /\ msg.key \in {"a", "b"}} = {}
    BY <1>8
  <2> QED BY <2>1, <2>2
<1>11. KeyedBefore(ys, M, N + 2) = IF msg.key \in {"a", "b"} THEN past \union {N + 1} ELSE past
  BY <1>7 DEF Steady
<1> HIDE DEF ys, N, d, M, past, more
<1>12. \A X : KeyedBefore(ys, X, N + 1) = past =>
         (Owes(t, ys, X, N + 1) <=>
            msg.key \in Keyless \/ (msg.key \in {"a", "b"} /\ ~Contains(m.keys, msg.key)))
  <2> TAKE X
  <2>1. Owes(t, ys, X, N + 1) <=> ys[N + 1].key \in Keyless \/
          (Keyed(ys, N + 1) /\ \A j \in Latest(KeyedBefore(ys, X, N + 1), t.n) : ys[j].key # ys[N + 1].key)
    BY OwesIs
  <2>2. Keyed(ys, N + 1) <=> msg.key \in {"a", "b"}
    BY <1>1 DEF Keyed
  <2>3. \A j \in Latest(past, t.n) : ys[j] = xs[j]
    BY <1>1, <1>3
  <2> QED BY <1>1, <1>6, <2>1, <2>2, <2>3
<1>13. d = Dedupe(t.n, msg, m)
  BY DecisionIs DEF d
<1>14. Fails(t, msg) <=> msg.key = "bad"
  BY DEF Fails
<1>15. \A X, s : Recalls(s.keys, ys, KeyedBefore(ys, X, N + 2), t.n) => Remembers(t, ys, X, s)
  BY <1>1 DEF Remembers
<1>16. CASE msg.key = "bad"
  <2>1. d = Fail(m)
    BY <1>13, <1>16 DEF Dedupe
  <2>2. ~Owes(t, ys, K, N + 1)
    BY <1>9, <1>12, <1>16
  <2>3. Remembers(t, ys, K, m)
    BY <1>6, <1>10, <1>15
  <2> QED BY <1>14, <1>16, <2>1, <2>2, <2>3, DropsRightly DEF d, ys, N
<1>17. CASE msg.key \in Keyless
  <2>1. d = Pass(msg, m)
    BY <1>13, <1>17 DEF Dedupe
  <2>2. Owes(t, ys, M, N + 1)
    BY <1>9, <1>12, <1>17
  <2>3. Remembers(t, ys, M, m)
    BY <1>6, <1>11, <1>15, <1>17
  <2> QED BY <1>14, <1>17, <2>1, <2>2, <2>3, PassesRightly DEF d, ys, N, M
<1>18. CASE msg.key \in {"a", "b"} /\ Contains(m.keys, msg.key)
  <2>1. d = Drop(m)
    BY <1>13, <1>18 DEF Dedupe
  <2>2. ~Owes(t, ys, K, N + 1)
    BY <1>9, <1>12, <1>18
  <2>3. Remembers(t, ys, K, m)
    BY <1>6, <1>10, <1>15
  <2> QED BY <1>14, <1>18, <2>1, <2>2, <2>3, DropsRightly DEF d, ys, N
<1>19. CASE msg.key \in {"a", "b"} /\ ~Contains(m.keys, msg.key)
  <2> DEFINE s == [m EXCEPT !.keys = more]
  <2>1. d = Pass(msg, s)
    BY <1>13, <1>19 DEF Dedupe, more
  <2>2. Owes(t, ys, M, N + 1)
    BY <1>9, <1>12, <1>19
  <2>3. s \in Memory /\ s.keys = more /\ s.buf = m.buf
    BY <1>6, MemoryForms
  <2> HIDE DEF s
  <2>4. Remembers(t, ys, M, s)
    BY <1>6, <1>11, <1>15, <1>19, <2>3
  <2> QED BY <1>14, <1>19, <2>1, <2>2, <2>3, <2>4, PassesRightly DEF d, ys, N, M
<1> QED BY <1>2, <1>16, <1>17, <1>18, <1>19 DEF d

LEMMA OneKey ==
  ASSUME NEW keys \in Seq(Class), Len(keys) <= 1, NEW k \in Class
  PROVE  Remember(1, k, keys) = <<k>> /\ (keys = <<k>> <=> Contains(keys, k))
<1>1. CASE keys = <<>>
  <2>1. Len(keys) = 0
    BY <1>1
  <2>2. Remember(1, k, keys) = Append(keys, k)
    BY <2>1 DEF Remember
  <2>3. Append(<<>>, k) = <<k>>
    OBVIOUS
  <2> QED BY <1>1, <2>1, <2>2, <2>3 DEF Contains
<1>2. CASE keys # <<>>
  <2>1. Len(keys) = 1
    <3> DEFINE n == Len(keys)
    <3>1. n \in Nat /\ n # 0 /\ n <= 1
      BY <1>2, EmptySeq
    <3> HIDE DEF n
    <3>2. n = 1
      BY <3>1
    <3> QED BY <3>2 DEF n
  <2>2. keys = <<keys[1]>>
    BY <2>1
  <2>3. Tail(keys) = <<>>
    BY <2>2
  <2>4. Remember(1, k, keys) = Append(Tail(keys), k)
    BY <2>1 DEF Remember
  <2>5. Append(<<>>, k) = <<k>>
    OBVIOUS
  <2>6. Contains(keys, k) <=> keys[1] = k
    BY <2>1 DEF Contains
  <2> QED BY <2>2, <2>3, <2>4, <2>5, <2>6
<1> QED BY <1>1, <1>2

LEMMA UniqIsRight ==
  ASSUME NEW t \in Transformer, NEW xs \in Seq(Message), NEW msg \in Message, NEW m \in Memory,
         NEW K \in SUBSET (1..Len(xs)), Remembers(t, xs, K, m), t.kind = "uniq"
  PROVE  Rightly(t, xs, K, msg, m, Decision(t, msg, m))
<1> USE DEF Keyless
<1> DEFINE N == Len(xs)
    ys == Append(xs, msg)
    d == Decision(t, msg, m)
    past == KeyedBefore(xs, 1..N, N + 1)
    more == Remember(1, msg.key, m.keys)
<1>1. N \in Nat /\ Len(ys) = N + 1 /\ ys[N + 1] = msg /\ Len(ys) + 1 = N + 2 /\ \A j \in 1..N : ys[j] = xs[j]
  BY OneMore
<1>2. msg.key \in {"a", "b", "nokey", "unfit", "bad"} /\ msg.key \in Class
  BY DEF Message, Class
<1>3. past \in SUBSET (1..N) /\ Latest(past, 1) \subseteq 1..N
  BY DEF KeyedBefore, Latest
<1>4. Recalls(m.keys, xs, past, 1)
  BY DEF Remembers
<1>5. m.keys \in Seq(Class)
  BY MemoryForms
<1>6. /\ more \in Seq(Class) /\ Recalls(more, ys, past \union {N + 1}, 1) /\ Recalls(m.keys, ys, past, 1)
      /\ 1 > 0 => Len(m.keys) <= 1
      /\ \A k : Contains(m.keys, k) <=> \E j \in Latest(past, 1) : xs[j].key = k
  <2>1. Recalling(xs, msg, m.keys, past, 1)
    BY <1>3, <1>4, <1>5, RecallsMoves
  <2> QED BY <2>1 DEF Recalling
<1>7. Steady(xs, msg, K, K)
  BY KeyedBeforeKeeps
<1>8. N + 1 \in 1..(N + 1)
  BY <1>1
<1>9. KeyedBefore(ys, 1..(N + 1), N + 1) = past
  BY <1>7, <1>8 DEF Steady
<1>10. KeyedBefore(ys, 1..(N + 1), N + 2) = IF msg.key \in {"a", "b"} THEN past \union {N + 1} ELSE past
  BY <1>7 DEF Steady
<1> HIDE DEF ys, N, d, past, more
<1>11. more = <<msg.key>> /\ (m.keys = <<msg.key>> <=> Contains(m.keys, msg.key))
  BY <1>2, <1>5, <1>6, OneKey DEF more
<1>12. \A X : Owes(t, ys, X, N + 1) <=> msg.key \in Keyless \/ (msg.key \in {"a", "b"} /\ m.keys # <<msg.key>>)
  <2> TAKE X
  <2>1. Owes(t, ys, X, N + 1) <=> ys[N + 1].key \in Keyless \/
          (Keyed(ys, N + 1) /\ \A j \in Latest(KeyedBefore(ys, 1..Len(ys), N + 1), 1) : ys[j].key # ys[N + 1].key)
    BY OwesIs
  <2>2. Keyed(ys, N + 1) <=> msg.key \in {"a", "b"}
    BY <1>1 DEF Keyed
  <2>3. \A j \in Latest(past, 1) : ys[j] = xs[j]
    BY <1>1, <1>3
  <2> QED BY <1>1, <1>6, <1>9, <1>11, <2>1, <2>2, <2>3
<1>13. d = Uniq(msg, m)
  BY DecisionIs DEF d
<1>14. Fails(t, msg) <=> msg.key = "bad"
  BY DEF Fails
<1>15. \A X, s : Recalls(s.keys, ys, KeyedBefore(ys, 1..(N + 1), N + 2), 1) => Remembers(t, ys, X, s)
  BY <1>1 DEF Remembers
<1>16. CASE msg.key = "bad"
  <2>1. d = Fail(m)
    BY <1>13, <1>16 DEF Uniq
  <2>2. Remembers(t, ys, K, m)
    BY <1>6, <1>10, <1>15, <1>16
  <2> QED BY <1>12, <1>14, <1>16, <2>1, <2>2, DropsRightly DEF d, ys, N
<1>17. CASE msg.key \in Keyless
  <2>1. d = Pass(msg, m)
    BY <1>13, <1>17 DEF Uniq
  <2>2. Remembers(t, ys, K \union {N + 1}, m)
    BY <1>6, <1>10, <1>15, <1>17
  <2> QED BY <1>12, <1>14, <1>17, <2>1, <2>2, PassesRightly DEF d, ys, N
<1>18. CASE msg.key \in {"a", "b"} /\ m.keys = <<msg.key>>
  <2>1. d = Drop(m)
    BY <1>13, <1>18 DEF Uniq
  <2>2. Remembers(t, ys, K, m)
    BY <1>6, <1>10, <1>11, <1>15, <1>18
  <2> QED BY <1>12, <1>14, <1>18, <2>1, <2>2, DropsRightly DEF d, ys, N
<1>19. CASE msg.key \in {"a", "b"} /\ m.keys # <<msg.key>>
  <2> DEFINE s == [m EXCEPT !.keys = <<msg.key>>]
  <2>1. d = Pass(msg, s)
    BY <1>13, <1>19 DEF Uniq
  <2>2. s \in Memory /\ s.keys = <<msg.key>> /\ s.buf = m.buf
    BY <1>6, <1>11, MemoryForms
  <2> HIDE DEF s
  <2>3. Remembers(t, ys, K \union {N + 1}, s)
    BY <1>6, <1>10, <1>11, <1>15, <1>19, <2>2
  <2> QED BY <1>12, <1>14, <1>19, <2>1, <2>2, <2>3, PassesRightly DEF d, ys, N
<1> QED BY <1>2, <1>16, <1>17, <1>18, <1>19 DEF d

-----------------------------------------------------------------------------
(* What a stage makes of one message more, for every kind.                 *)

\* One failure more or none, when the stage has taken zs and keeps n.
Adds(t, xs, m, zs, n, b) ==
  IF b THEN \E i : i \notin Broken(t, xs, m) /\ Broken(t, zs, n) = Broken(t, xs, m) \union {i}
  ELSE Broken(t, zs, n) = Broken(t, xs, m)

\* A stage that is no batch fails on the message that it takes.
LEMMA PlainAdds ==
  ASSUME NEW t, t.kind # "batch", NEW xs \in Seq(Message), NEW msg \in Message, NEW m, NEW n,
         NEW b \in BOOLEAN, b <=> Fails(t, msg)
  PROVE  Adds(t, xs, m, Append(xs, msg), n, b)
<1> DEFINE N == Len(xs)
    zs == Append(xs, msg)
<1>1. N \in Nat /\ Len(zs) = N + 1 /\ zs[N + 1] = msg /\ \A j \in 1..N : zs[j] = xs[j]
  BY OneMore
<1> HIDE DEF zs
<1>2. /\ Broken(t, xs, m) = {i \in 1..N : Fails(t, xs[i])}
      /\ Broken(t, zs, n) = {i \in 1..(N + 1) : Fails(t, zs[i])}
  BY <1>1 DEF Broken
<1> HIDE DEF N
<1>3. \A i : i \in 1..(N + 1) <=> i \in 1..N \/ i = N + 1
  BY <1>1
<1>4. N + 1 \notin Broken(t, xs, m)
  BY <1>1, <1>2
<1>5. Broken(t, zs, n) = IF b THEN Broken(t, xs, m) \union {N + 1} ELSE Broken(t, xs, m)
  BY <1>1, <1>2, <1>3
<1> QED BY <1>4, <1>5 DEF Adds, zs

\* The stage t, which took xs, gave ys and holds m, takes msg as it should.
Takes(t, xs, ys, m, msg) ==
  LET d == Decision(t, msg, m)
  IN /\ d.mem \in Memory /\ d.out \in Seq(Message) /\ Len(d.out) <= 1
     /\ Meets(t, Append(xs, msg), ys \o d.out, d.mem)
     /\ d.err \in BOOLEAN /\ (d.err => d.out = <<>>)
     /\ Adds(t, xs, m, Append(xs, msg), d.mem, d.err)
     /\ IF t.kind = "batch" THEN d.mem.n = 0 /\ Len(d.mem.buf) < Size(t.n) ELSE d.mem.buf = m.buf

LEMMA SingleOut ==
  ASSUME NEW T, NEW ys \in Seq(T), NEW x \in T
  PROVE  /\ <<x>> \in Seq(T) /\ Len(<<x>>) = 1 /\ <<x>> # <<>> /\ ys \o <<x>> = Append(ys, x)
         /\ <<>> \in Seq(T) /\ Len(<<>>) = 0 /\ ys \o <<>> = ys
OBVIOUS

LEMMA SelectTakes ==
  ASSUME NEW t \in Transformer, NEW xs \in Seq(Message), NEW ys \in Seq(Message), NEW m \in Memory,
         NEW msg \in Message, t.kind \notin {"batch", "count"}, Meets(t, xs, ys, m)
  PROVE  Takes(t, xs, ys, m, msg)
<1> DEFINE d == Decision(t, msg, m)
<1>1. PICK pos : Chosen(t, xs, ys, pos) /\ Remembers(t, xs, Range(pos), m)
  <2>1. Selects(t, xs, ys, m)
    BY DEF Meets
  <2> QED BY <2>1, SelectsByChosen
<1> DEFINE K == Range(pos)
<1>2. K \in SUBSET (1..Len(xs))
  <2>1. pos \in [1..Len(ys) -> 1..Len(xs)]
    BY <1>1 DEF Chosen
  <2> QED BY <2>1 DEF Range
<1>3. Rightly(t, xs, K, msg, m, d)
  <2>1. t.kind \in {"head", "tail", "sample", "wait", "filter", "assert", "codec"} \/ t.kind = "dedupe" \/ t.kind = "uniq"
    BY DEF Transformer, Kinds
  <2>2. Remembers(t, xs, K, m)
    BY <1>1
  <2> HIDE DEF K, d
  <2>3. CASE t.kind \in {"head", "tail", "sample", "wait", "filter", "assert", "codec"}
    BY <1>2, <2>2, <2>3, PlainIsRight DEF d
  <2>4. CASE t.kind = "dedupe"
    BY <1>2, <2>2, <2>4, DedupeIsRight DEF d
  <2>5. CASE t.kind = "uniq"
    BY <1>2, <2>2, <2>5, UniqIsRight DEF d
  <2> QED BY <2>1, <2>3, <2>4, <2>5
<1> HIDE DEF d
<1>7. ASSUME d.err \in BOOLEAN, d.err <=> Fails(t, msg) PROVE Adds(t, xs, m, Append(xs, msg), d.mem, d.err)
  <2> DEFINE b == d.err
      n == d.mem
  <2>1. b \in BOOLEAN /\ (b <=> Fails(t, msg))
    BY <1>7
  <2> HIDE DEF b, n
  <2>2. Adds(t, xs, m, Append(xs, msg), n, b)
    BY <2>1, PlainAdds
  <2> QED BY <2>2 DEF b, n
<1>4. ASSUME NEW zs, Selects(t, Append(xs, msg), zs, d.mem) PROVE Meets(t, Append(xs, msg), zs, d.mem)
  BY <1>4 DEF Meets
<1>5. CASE /\ d.out = <<msg>> /\ d.err = FALSE /\ ~Fails(t, msg)
           /\ Owes(t, Append(xs, msg), K \union {Len(xs) + 1}, Len(xs) + 1)
           /\ Remembers(t, Append(xs, msg), K \union {Len(xs) + 1}, d.mem)
  <2>1. Selects(t, Append(xs, msg), Append(ys, msg), d.mem)
    BY <1>1, <1>5, SelectPasses
  <2>2. ys \o d.out = Append(ys, msg) /\ d.out \in Seq(Message) /\ Len(d.out) <= 1
    BY <1>5, SingleOut
  <2>3. d.mem \in Memory /\ d.mem.buf = m.buf
    BY <1>3 DEF Rightly
  <2>4. Meets(t, Append(xs, msg), ys \o d.out, d.mem)
    BY <1>4, <2>1, <2>2
  <2>5. Adds(t, xs, m, Append(xs, msg), d.mem, d.err)
    BY <1>5, <1>7
  <2> QED BY <1>5, <2>2, <2>3, <2>4, <2>5 DEF Takes, d
<1>6. CASE /\ d.out = <<>> /\ ((d.err = TRUE /\ Fails(t, msg)) \/ (d.err = FALSE /\ ~Fails(t, msg)))
           /\ ~Owes(t, Append(xs, msg), K, Len(xs) + 1)
           /\ Remembers(t, Append(xs, msg), K, d.mem)
  <2>1. Selects(t, Append(xs, msg), ys, d.mem)
    BY <1>1, <1>6, SelectDrops
  <2>2. ys \o d.out = ys /\ d.out \in Seq(Message) /\ Len(d.out) <= 1
    BY <1>6, SingleOut
  <2>3. d.mem \in Memory /\ d.mem.buf = m.buf
    BY <1>3 DEF Rightly
  <2>4. Meets(t, Append(xs, msg), ys \o d.out, d.mem)
    BY <1>4, <2>1, <2>2
  <2>5. Adds(t, xs, m, Append(xs, msg), d.mem, d.err)
    BY <1>6, <1>7
  <2> QED BY <1>6, <2>2, <2>3, <2>4, <2>5 DEF Takes, d
<1> QED BY <1>3, <1>5, <1>6 DEF Rightly

LEMMA SizeType == ASSUME NEW n \in Nat PROVE Size(n) \in Nat /\ Size(n) >= 1
BY DEF Size

LEMMA CountTakes ==
  ASSUME NEW t \in Transformer, NEW xs \in Seq(Message), NEW ys \in Seq(Message), NEW m \in Memory,
         NEW msg \in Message, t.kind = "count", Meets(t, xs, ys, m)
  PROVE  Takes(t, xs, ys, m, msg)
<1> DEFINE N == Len(xs)
    xs2 == Append(xs, msg)
    d == Decision(t, msg, m)
    tally(i) == [key |-> "nokey", from |-> <<i>>]
    out == IF (N + 1) % Size(t.n) = 0 THEN tally(N + 1) ELSE msg
<1>1. N \in Nat /\ xs2 \in Seq(Message) /\ Len(xs2) = N + 1 /\ xs2[N + 1] = msg /\ \A j \in 1..N : xs2[j] = xs[j]
  BY OneMore
<1>2. /\ Len(ys) = N /\ m.n = N
      /\ \A i \in 1..N : ys[i] = IF i % Size(t.n) = 0 THEN tally(i) ELSE xs[i]
  BY DEF Meets, Tallies, Remembers
<1>3. Seen(m) \in Memory /\ Seen(m).n = N + 1 /\ Seen(m).buf = m.buf
  BY <1>2, MemoryForms
<1>4. d = Pass(out, Seen(m))
  <2>1. d = Count(t.n, msg, m)
    BY DecisionIs
  <2> QED BY <1>2, <2>1 DEF Count
<1>5. out \in Message
  <2>1. N + 1 \in Nat
    BY <1>1
  <2>2. <<N + 1>> \in Seq(Nat)
    BY <2>1
  <2>3. tally(N + 1) \in Message
    BY <2>2 DEF Message, Class
  <2> QED BY <2>3
<1> DEFINE ys2 == Append(ys, out)
<1>6. Len(ys2) = N + 1 /\ ys2[N + 1] = out /\ \A j \in 1..N : ys2[j] = ys[j]
  BY <1>2, <1>5, OneMore
<1>7. ys \o d.out = ys2 /\ d.out \in Seq(Message) /\ Len(d.out) <= 1 /\ d.err = FALSE /\ d.mem = Seen(m)
  <2>1. d.out = <<out>> /\ d.err = FALSE /\ d.mem = Seen(m)
    BY <1>4 DEF Pass
  <2> HIDE DEF d, out
  <2> QED BY <1>5, <2>1, SingleOut
<1>8. \A i \in 1..(N + 1) : ys2[i] = IF i % Size(t.n) = 0 THEN tally(i) ELSE xs2[i]
  <2> TAKE i \in 1..(N + 1)
  <2> HIDE DEF ys2, xs2, tally
  <2>1. CASE i = N + 1
    BY <1>1, <1>6, <2>1
  <2>2. CASE i \in 1..N
    BY <1>1, <1>2, <1>6, <2>2
  <2>3. i = N + 1 \/ i \in 1..N
    BY <1>1
  <2> QED BY <2>1, <2>2, <2>3
<1>9. Remembers(t, xs2, {}, Seen(m))
  BY <1>1, <1>3 DEF Remembers
<1> HIDE DEF N, xs2, ys2, d, out
<1>10. Tallies(t, xs2, ys2, Seen(m))
  BY <1>1, <1>6, <1>8, <1>9 DEF Tallies
<1>11. Meets(t, xs2, ys2, Seen(m))
  BY <1>10 DEF Meets
<1>12. Adds(t, xs, m, xs2, Seen(m), FALSE)
  <2>1. ~Fails(t, msg)
    BY DEF Fails
  <2> QED BY <2>1, PlainAdds DEF xs2
<1>13. Meets(t, xs2, ys \o d.out, d.mem) /\ d.mem \in Memory /\ d.mem.buf = m.buf
       /\ Adds(t, xs, m, xs2, d.mem, d.err)
  BY <1>3, <1>7, <1>11, <1>12
<1> QED BY <1>7, <1>13 DEF Takes, d, xs2

-----------------------------------------------------------------------------
(* The batch, whose groups are told by their place in the input.           *)

\* The groups that can be told of an input of N messages: those that it fills,
\* and the last one when the stage flushes what remains.
LEMMA GroupsAre ==
  ASSUME NEW size \in Nat, size >= 1, NEW N \in Nat, NEW k \in Nat, size * k <= N, N - size * k < size
  PROVE  /\ {i \in 1..N : size * i <= N} = 1..k /\ k \in 0..N
         /\ size * k < N =>
              /\ {i \in 1..N : size * i <= N \/ size * (i - 1) < N} = 1..(k + 1) /\ k + 1 \in 0..N
              /\ N < size * (k + 1)
<1>1. size * k \in Nat /\ size * (k + 1) = size * k + size
  BY Offsets
<1>2. ASSUME NEW i \in 1..k
      PROVE  size * i <= size * k /\ size * (i - 1) \in Nat /\ size * (i - 1) + size <= size * k /\ size * i \in Nat
  <2>1. size * (i - 1) \in Nat /\ size * (i - 1) + size <= size * k
    BY Offsets
  <2>2. size * ((i - 1) + 1) = size * (i - 1) + size
    BY Offsets
  <2>3. (i - 1) + 1 = i
    OBVIOUS
  <2> QED BY <2>1, <2>2, <2>3
<1>3. ASSUME NEW i \in Nat, i > k PROVE size * i >= size * k + size
  <2>1. k + 1 \in 1..i
    BY <1>3
  <2>2. size * ((k + 1) - 1) + size <= size * i
    BY <2>1, Offsets
  <2>3. size * ((k + 1) - 1) = size * k
    BY Offsets
  <2> QED BY <2>2, <2>3
<1>4. ASSUME NEW i \in Nat, i > k + 1 PROVE size * (i - 1) >= size * k + size
  <2>1. i - 1 \in Nat /\ i - 1 > k
    BY <1>4
  <2> QED BY <1>3, <2>1
<1> DEFINE o == size * k
<1>5. o \in Nat /\ o <= N /\ N - o < size
  BY <1>1
<1>6. k <= o
  <2>1. CASE k = 0
    BY <1>5, <2>1
  <2>2. CASE k # 0
    <3>1. \A n \in Nat : n <= size * n
      <4> TAKE n \in Nat
      <4>1. PICK z \in Nat : size = z + 1
        <5>1. size - 1 \in Nat /\ size = (size - 1) + 1
          OBVIOUS
        <5> QED BY <5>1
      <4>2. (z + 1) * n = z * n + n /\ z * n \in Nat
        OBVIOUS
      <4> QED BY <4>1, <4>2
    <3> QED BY <3>1
  <2> QED BY <2>1, <2>2
<1>7. {i \in 1..N : size * i <= N} = 1..k
  <2>1. ASSUME NEW i \in 1..k PROVE i \in 1..N /\ size * i <= N
    <3>1. size * i <= o /\ size * i \in Nat
      BY <1>2
    <3> DEFINE p == size * i
    <3> HIDE DEF p, o
    <3> QED BY <1>5, <1>6, <3>1 DEF p
  <2>2. ASSUME NEW i \in 1..N, size * i <= N PROVE i \in 1..k
    <3> SUFFICES ASSUME i > k PROVE FALSE
      OBVIOUS
    <3>1. size * i >= o + size
      BY <1>3
    <3>2. size * i \in Nat
      OBVIOUS
    <3> DEFINE p == size * i
    <3> HIDE DEF p, o
    <3> QED BY <1>5, <2>2, <3>1, <3>2 DEF p
  <2> QED BY <2>1, <2>2
<1>8. ASSUME o < N
      PROVE  /\ {i \in 1..N : size * i <= N \/ size * (i - 1) < N} = 1..(k + 1) /\ k + 1 \in 0..N
             /\ N < size * (k + 1)
  <2>1. k + 1 \in 0..N /\ N < size * (k + 1)
    BY <1>1, <1>5, <1>6, <1>8
  <2>2. ASSUME NEW i \in 1..(k + 1) PROVE i \in 1..N /\ size * (i - 1) < N
    <3>1. i \in 1..N
      BY <2>1
    <3>2. CASE i = k + 1
      <4>1. size * (i - 1) = o
        BY <3>2
      <4> QED BY <1>8, <3>1, <4>1
    <3>3. CASE i \in 1..k
      <4>1. size * (i - 1) + size <= o /\ size * (i - 1) \in Nat
        BY <1>2, <3>3
      <4> DEFINE p == size * (i - 1)
      <4> HIDE DEF p, o
      <4>2. p < N
        BY <1>5, <4>1 DEF p
      <4> QED BY <3>1, <4>2 DEF p
    <3> QED BY <3>2, <3>3
  <2>3. ASSUME NEW i \in 1..N, size * i <= N \/ size * (i - 1) < N PROVE i \in 1..(k + 1)
    <3> SUFFICES ASSUME i > k + 1 PROVE FALSE
      OBVIOUS
    <3>1. size * (i - 1) >= o + size /\ size * i >= o + size
      BY <1>3, <1>4
    <3>2. size * i \in Nat /\ size * (i - 1) \in Nat
      OBVIOUS
    <3> DEFINE p == size * i
        q == size * (i - 1)
    <3> HIDE DEF p, q, o
    <3> QED BY <1>5, <2>3, <3>1, <3>2 DEF p, q
  <2> QED BY <2>1, <2>2, <2>3
<1>9. k \in 0..N
  BY <1>5, <1>6
<1> QED BY <1>7, <1>8, <1>9

LEMMA BundleType ==
  ASSUME NEW ms \in Seq(Message)
  PROVE  Bundle(ms) \in Message
<1> DEFINE n == Len(ms)
    froms == [i \in 1..n |-> ms[i].from]
<1>1. n \in Nat /\ \A i \in 1..n : ms[i].from \in Seq(Nat)
  <2>1. n \in Nat /\ \A i \in 1..n : ms[i] \in Message
    OBVIOUS
  <2>2. \A x \in Message : x.from \in Seq(Nat)
    BY DEF Message
  <2> QED BY <2>1, <2>2
<1>2. froms \in Seq(Seq(Nat))
  <2>1. froms \in [1..n -> Seq(Nat)]
    BY <1>1
  <2> HIDE DEF froms
  <2> QED BY <1>1, <2>1, SeqDef
<1>3. Carried(ms) = FlattenSeq(froms)
  BY DEF Carried
<1> HIDE DEF froms
<1>4. Carried(ms) \in Seq(Nat)
  BY <1>2, <1>3, FlattenType
<1> QED BY <1>4 DEF Bundle, Message, Class

\* The first k groups of xs: those that encode, bundled in order, are ys.
Placed(t, xs, ys, k, pos) ==
  /\ pos \in [1..Len(ys) -> 1..k] /\ Rising(pos)
  /\ Range(pos) = {i \in 1..k : Encodes(BatchGroup(t, xs, i))}
  /\ \A i \in 1..Len(ys) : ys[i] = Bundle(BatchGroup(t, xs, pos[i]))
Bundled(t, xs, ys, m, k) ==
  /\ k \in 0..Len(xs) /\ Complete(t, xs, m) = 1..k
  /\ m.buf = IF m.n > 0 THEN <<>> ELSE SubSeq(xs, Size(t.n) * k + 1, Len(xs))
  /\ m.n > 0 => Len(xs) < Size(t.n) * k

LEMMA BundlesForms ==
  ASSUME NEW t, NEW xs, NEW ys, NEW m
  PROVE  Bundles(t, xs, ys, m) <=> \E k : Bundled(t, xs, ys, m, k) /\ \E pos : Placed(t, xs, ys, k, pos)
BY DEF Bundles, Bundled, Placed

\* A batch that is open has all that it was given in whole groups, but for less
\* than a group.
LEMMA OpenBatch ==
  ASSUME NEW t \in Transformer, t.kind = "batch", NEW xs \in Seq(Message), NEW ys \in Seq(Message),
         NEW m \in Memory, m.n = 0, Len(m.buf) < Size(t.n), Meets(t, xs, ys, m)
  PROVE  \E k \in Nat :
           /\ Size(t.n) * k <= Len(xs) /\ Len(xs) - Size(t.n) * k = Len(m.buf)
           /\ m.buf = SubSeq(xs, Size(t.n) * k + 1, Len(xs))
           /\ Complete(t, xs, m) = 1..k /\ \E pos : Placed(t, xs, ys, k, pos)
<1> DEFINE size == Size(t.n)
    N == Len(xs)
<1>1. size \in Nat /\ size >= 1 /\ N \in Nat
  BY SizeType DEF Transformer
<1>2. PICK k : Bundled(t, xs, ys, m, k) /\ \E pos : Placed(t, xs, ys, k, pos)
  BY BundlesForms DEF Meets
<1>3. k \in 0..N /\ Complete(t, xs, m) = 1..k /\ m.buf = SubSeq(xs, size * k + 1, N)
  BY <1>2 DEF Bundled
<1>4. k \in Nat /\ size * k \in Nat
  BY <1>1, <1>3
<1>5. size * k <= N
  <2>1. CASE k = 0
    BY <1>1, <2>1
  <2>2. CASE k # 0
    <3>1. k \in Complete(t, xs, m)
      BY <1>3, <1>4, <2>2
    <3> QED BY <3>1 DEF Complete
  <2> QED BY <2>1, <2>2
<1>6. N - size * k = Len(m.buf)
  <2> DEFINE a == size * k + 1
  <2>1. a \in Nat \ {0} /\ a <= N + 1 /\ N + 1 - a = N - size * k
    BY <1>1, <1>4, <1>5
  <2> HIDE DEF a, size
  <2>2. Len(SubSeq(xs, a, N)) = N + 1 - a
    BY <1>1, <2>1, SubSeqForms
  <2> QED BY <1>3, <2>1, <2>2 DEF a
<1> QED BY <1>2, <1>3, <1>4, <1>5, <1>6

\* What a group is does not change with a further message.
LEMMA GroupsKeep ==
  ASSUME NEW t \in Transformer, NEW xs \in Seq(Message), NEW msg \in Message,
         NEW k \in Nat, Size(t.n) * k <= Len(xs), NEW i \in 1..k
  PROVE  BatchGroup(t, Append(xs, msg), i) = BatchGroup(t, xs, i)
<1> DEFINE size == Size(t.n)
    o == size * (i - 1)
    b == size * i
    N == Len(xs)
    ys == Append(xs, msg)
<1>1. size \in Nat /\ size >= 1 /\ N \in Nat /\ Len(ys) = N + 1
  BY SizeType, OneMore DEF Transformer
<1>2. o \in Nat /\ b = o + size /\ b <= N
  <2> DEFINE c == size * k
  <2>1. o \in Nat /\ o + size <= c /\ c \in Nat /\ c <= N
    BY <1>1, Offsets
  <2>2. size * ((i - 1) + 1) = size * (i - 1) + size
    BY <1>1, Offsets
  <2>3. (i - 1) + 1 = i
    OBVIOUS
  <2>4. b = o + size
    BY <2>2, <2>3
  <2> HIDE DEF o, b, c, size
  <2> QED BY <1>1, <2>1, <2>4
<1> HIDE DEF o, b, N, size, ys
<1>3. BatchGroup(t, xs, i) = SubSeq(xs, o + 1, b) /\ BatchGroup(t, ys, i) = SubSeq(ys, o + 1, b)
  <2>1. b <= N + 1
    BY <1>1, <1>2
  <2> QED BY <1>1, <1>2, <2>1 DEF BatchGroup, o, b, N, size
<1>4. o + 1 \in Nat \ {0} /\ b \in 0..N /\ o + 1 <= b + 1
  BY <1>1, <1>2
<1>5. SubSeq(ys, o + 1, b) = SubSeq(xs, o + 1, b)
  BY <1>4, SubSeqOfMore DEF ys, N
<1> QED BY <1>3, <1>5 DEF ys

SameGroups(t, zs, xs, k) == \A i \in 1..k : BatchGroup(t, zs, i) = BatchGroup(t, xs, i)

\* One group more is complete: it is bundled, or the batch fails on it.
LEMMA OneGroupMore ==
  ASSUME NEW t, t.kind = "batch", NEW xs, NEW ys \in Seq(Message), NEW m, NEW k \in Nat, NEW pos,
         Placed(t, xs, ys, k, pos), Complete(t, xs, m) = 1..k,
         NEW zs, NEW n, Bundled(t, zs, ys, n, k + 1), NEW b \in Seq(Message), b = BatchGroup(t, zs, k + 1),
         SameGroups(t, zs, xs, k)
  PROVE  /\ Encodes(b) => /\ Meets(t, zs, Append(ys, Bundle(b)), n) /\ Bundle(b) \in Message
                          /\ Adds(t, xs, m, zs, n, FALSE)
         /\ ~Encodes(b) => Meets(t, zs, ys, n) /\ Adds(t, xs, m, zs, n, TRUE)
<1> DEFINE L == Len(ys)
<1>1. /\ pos \in [1..L -> 1..k] /\ Rising(pos) /\ DOMAIN pos = 1..L
      /\ Range(pos) = {i \in 1..k : Encodes(BatchGroup(t, xs, i))}
      /\ \A i \in 1..L : pos[i] \in 1..k /\ ys[i] = Bundle(BatchGroup(t, xs, pos[i]))
  BY DEF Placed
<1>2. L \in Nat /\ (\A i : i \in 1..(k + 1) <=> i \in 1..k \/ i = k + 1) /\ k + 1 \notin 1..k
  OBVIOUS
<1>3. \A i \in 1..k : /\ BatchGroup(t, zs, i) = BatchGroup(t, xs, i)
                      /\ Encodes(BatchGroup(t, zs, i)) <=> Encodes(BatchGroup(t, xs, i))
  BY DEF SameGroups
<1>4. /\ Broken(t, xs, m) = {i \in 1..k : ~Encodes(BatchGroup(t, xs, i))}
      /\ Broken(t, zs, n) = {i \in 1..(k + 1) : ~Encodes(BatchGroup(t, zs, i))}
  BY DEF Broken, Bundled
<1>5. ASSUME Encodes(b)
      PROVE  /\ Meets(t, zs, Append(ys, Bundle(b)), n) /\ Bundle(b) \in Message
             /\ Adds(t, xs, m, zs, n, FALSE)
  <2> DEFINE ys2 == Append(ys, Bundle(b))
      pos2 == [i \in 1..(L + 1) |-> IF i <= L THEN pos[i] ELSE k + 1]
  <2>1. Bundle(b) \in Message
    BY BundleType
  <2>2. Len(ys2) = L + 1 /\ ys2[L + 1] = Bundle(b) /\ \A i \in 1..L : ys2[i] = ys[i]
    BY <2>1, OneMore
  <2> HIDE DEF L
  <2>3. /\ pos2 \in [1..(L + 1) -> 1..(k + 1)] /\ Rising(pos2) /\ Range(pos2) = Range(pos) \union {k + 1}
        /\ pos2[L + 1] = k + 1 /\ \A i \in 1..L : pos2[i] = pos[i]
    <3>1. pos2 \in [1..(L + 1) -> 1..(k + 1)] /\ pos2[L + 1] = k + 1 /\ \A i \in 1..L : pos2[i] = pos[i]
      BY <1>1, <1>2
    <3> HIDE DEF pos2
    <3>2. pos \in [1..L -> 1..k] /\ Rising(pos) /\ L \in Nat
      BY <1>1, <1>2
    <3>3. Rising(pos2) /\ Range(pos2) = Range(pos) \union {k + 1}
      BY <3>1, <3>2, RisingMore
    <3> QED BY <3>1, <3>3
  <2> HIDE DEF ys2, pos2
  <2>4. Range(pos2) = {i \in 1..(k + 1) : Encodes(BatchGroup(t, zs, i))}
    BY <1>1, <1>2, <1>3, <1>5, <2>3
  <2>5. \A i \in 1..(L + 1) : i \in 1..L \/ i = L + 1
    BY <1>2
  <2>6. \A i \in 1..(L + 1) : ys2[i] = Bundle(BatchGroup(t, zs, pos2[i]))
    <3> TAKE i \in 1..(L + 1)
    <3>1. CASE i = L + 1
      BY <2>2, <2>3, <3>1
    <3>2. CASE i \in 1..L
      BY <1>1, <1>3, <2>2, <2>3, <3>2
    <3> QED BY <2>5, <3>1, <3>2
  <2>7. Placed(t, zs, ys2, k + 1, pos2)
    BY <2>2, <2>3, <2>4, <2>6 DEF Placed
  <2>8. Bundled(t, zs, ys2, n, k + 1)
    BY DEF Bundled
  <2>9. Meets(t, zs, ys2, n)
    BY <2>7, <2>8, BundlesForms DEF Meets
  <2>10. Broken(t, zs, n) = Broken(t, xs, m)
    BY <1>2, <1>3, <1>4, <1>5
  <2> QED BY <2>1, <2>9, <2>10 DEF ys2, Adds
<1>6. ASSUME ~Encodes(b) PROVE Meets(t, zs, ys, n) /\ Adds(t, xs, m, zs, n, TRUE)
  <2>1. pos \in [1..L -> 1..(k + 1)]
    <3>1. \A i \in 1..L : pos[i] \in 1..(k + 1)
      BY <1>1, <1>2
    <3> QED BY <1>1, <3>1
  <2>2. Range(pos) = {i \in 1..(k + 1) : Encodes(BatchGroup(t, zs, i))}
    BY <1>1, <1>2, <1>3, <1>6
  <2>3. \A i \in 1..L : ys[i] = Bundle(BatchGroup(t, zs, pos[i]))
    BY <1>1, <1>3
  <2>4. Placed(t, zs, ys, k + 1, pos)
    BY <1>1, <2>1, <2>2, <2>3 DEF Placed
  <2>5. Meets(t, zs, ys, n)
    BY <2>4, BundlesForms DEF Meets
  <2>6. k + 1 \notin Broken(t, xs, m) /\ Broken(t, zs, n) = Broken(t, xs, m) \union {k + 1}
    BY <1>2, <1>3, <1>4, <1>6
  <2> QED BY <2>5, <2>6 DEF Adds
<1> QED BY <1>5, <1>6

LEMMA BatchTakes ==
  ASSUME NEW t \in Transformer, NEW xs \in Seq(Message), NEW ys \in Seq(Message), NEW m \in Memory,
         NEW msg \in Message, t.kind = "batch", m.n = 0, Len(m.buf) < Size(t.n), Meets(t, xs, ys, m)
  PROVE  Takes(t, xs, ys, m, msg)
<1> DEFINE N == Len(xs)
    xs2 == Append(xs, msg)
    d == Decision(t, msg, m)
    size == Size(t.n)
    buf == Append(m.buf, msg)
    emptied == [m EXCEPT !.buf = <<>>]
    longer == [m EXCEPT !.buf = buf]
<1>1. N \in Nat /\ xs2 \in Seq(Message) /\ Len(xs2) = N + 1
  BY OneMore
<1>2. size \in Nat /\ size >= 1
  BY SizeType DEF Transformer
<1>3. m.buf \in Seq(Message) /\ Len(m.buf) \in Nat /\ buf \in Seq(Message) /\ Len(buf) = Len(m.buf) + 1
  <2>1. m.buf \in Seq(Message)
    BY MemoryForms
  <2> QED BY <2>1, OneMore
<1>4. PICK k \in Nat :
        /\ size * k <= N /\ N - size * k = Len(m.buf) /\ m.buf = SubSeq(xs, size * k + 1, N)
        /\ Complete(t, xs, m) = 1..k /\ \E pos : Placed(t, xs, ys, k, pos)
  BY OpenBatch
<1>5. PICK pos : Placed(t, xs, ys, k, pos)
  BY <1>4
<1> DEFINE o == size * k
<1>6. o \in Nat /\ size * (k + 1) = o + size /\ size * ((k + 1) - 1) = o
  <2> HIDE DEF size
  <2> QED BY <1>2, Offsets
<1>7. \A i \in 1..k : BatchGroup(t, xs2, i) = BatchGroup(t, xs, i)
  BY <1>4, GroupsKeep
<1> HIDE DEF xs2, d, o, size, N
<1>8. buf = SubSeq(xs2, o + 1, N + 1)
  <2>1. o + 1 \in Nat \ {0} /\ o + 1 <= N + 1
    BY <1>1, <1>4, <1>6 DEF o
  <2> DEFINE a == o + 1
  <2>2. a \in Nat \ {0} /\ a <= Len(xs) + 1
    BY <2>1 DEF N
  <2> HIDE DEF a
  <2>3. SubSeq(Append(xs, msg), a, Len(xs) + 1) = Append(SubSeq(xs, a, Len(xs)), msg)
    BY <2>2, SubSeqOfMore
  <2> QED BY <1>4, <2>3 DEF xs2, a, N, o
<1>9. d = IF Len(buf) < size THEN Drop(longer)
          ELSE IF Encodes(buf) THEN Pass(Bundle(buf), emptied) ELSE Fail(emptied)
  <2>1. d = Batch(t.n, msg, m)
    BY DecisionIs DEF d
  <2> QED BY <2>1 DEF Batch, size
<1>10. <<>> \in Seq(Message) /\ Len(<<>>) = 0 /\ ys \o <<>> = ys
  OBVIOUS
<1>11. /\ emptied \in Memory /\ emptied.buf = <<>> /\ emptied.n = 0
       /\ longer \in Memory /\ longer.buf = buf /\ longer.n = 0
  BY <1>3, <1>10, BufferForms
<1> HIDE DEF buf, emptied, longer
<1>12. CASE Len(buf) < size
  <2>1. d.mem = longer /\ d.out = <<>> /\ d.err = FALSE
    BY <1>9, <1>12 DEF Drop
  <2>2. o <= N + 1 /\ (N + 1) - o < size
    BY <1>1, <1>3, <1>4, <1>6, <1>12 DEF o
  <2>3. Complete(t, xs2, longer) = 1..k /\ k \in 0..(N + 1)
    <3>1. {i \in 1..(N + 1) : size * i <= N + 1} = 1..k /\ k \in 0..(N + 1)
      <4>1. N + 1 \in Nat
        BY <1>1
      <4> QED BY <1>2, <2>2, <4>1, GroupsAre DEF o
    <3>2. Complete(t, xs2, longer) = {i \in 1..(N + 1) : size * i <= N + 1}
      BY <1>1, <1>11 DEF Complete, size
    <3> QED BY <3>1, <3>2
  <2>4. Bundled(t, xs2, ys, longer, k)
    BY <1>1, <1>8, <1>11, <2>3 DEF Bundled, o, size
  <2>5. Placed(t, xs2, ys, k, pos)
    BY <1>5, <1>7 DEF Placed
  <2>6. Meets(t, xs2, ys, longer)
    BY <2>4, <2>5, BundlesForms DEF Meets
  <2>7. Adds(t, xs, m, xs2, longer, FALSE)
    <3>1. Broken(t, xs2, longer) = Broken(t, xs, m)
      BY <1>4, <1>7, <2>3 DEF Broken
    <3> QED BY <3>1 DEF Adds
  <2>8. /\ d.out \in Seq(Message) /\ Len(d.out) <= 1 /\ ys \o d.out = ys
        /\ d.err \in BOOLEAN /\ (d.err => d.out = <<>>)
    <3>1. d.out \in Seq(Message) /\ Len(d.out) <= 1 /\ ys \o d.out = ys
      BY <1>10, <2>1
    <3>2. d.err \in BOOLEAN /\ (d.err => d.out = <<>>)
      BY <2>1
    <3> QED BY <3>1, <3>2
  <2>9. /\ Meets(t, xs2, ys \o d.out, d.mem) /\ d.mem \in Memory /\ d.mem.n = 0 /\ Len(d.mem.buf) < size
        /\ Adds(t, xs, m, xs2, d.mem, d.err)
    BY <1>11, <1>12, <2>1, <2>6, <2>7, <2>8
  <2> QED BY <2>8, <2>9 DEF Takes, d, xs2, size
<1>13. CASE ~(Len(buf) < size)
  <2>1. N + 1 = o + size
    <3> DEFINE n == Len(m.buf)
    <3>1. n \in Nat /\ N - o = n /\ n < size /\ ~(n + 1 < size)
      BY <1>3, <1>4, <1>13 DEF o, size
    <3> HIDE DEF n
    <3> QED BY <1>1, <1>2, <1>6, <3>1
  <2>2. Complete(t, xs2, emptied) = 1..(k + 1) /\ k + 1 \in 0..(N + 1)
    <3>1. k + 1 \in Nat /\ N + 1 \in Nat /\ size * (k + 1) <= N + 1 /\ (N + 1) - size * (k + 1) < size
      BY <1>1, <1>2, <1>6, <2>1
    <3>2. {i \in 1..(N + 1) : size * i <= N + 1} = 1..(k + 1) /\ k + 1 \in 0..(N + 1)
      BY <1>2, <3>1, GroupsAre
    <3>3. Complete(t, xs2, emptied) = {i \in 1..(N + 1) : size * i <= N + 1}
      BY <1>1, <1>11 DEF Complete, size
    <3> QED BY <3>2, <3>3
  <2>3. SubSeq(xs2, size * (k + 1) + 1, N + 1) = <<>>
    <3>1. size * (k + 1) + 1 = (N + 1) + 1
      BY <1>6, <2>1
    <3>2. N + 2 \in Nat \ {0} /\ (N + 1) + 1 = N + 2 /\ N + 1 \in Nat /\ N + 1 <= Len(xs2) /\ N + 2 <= (N + 1) + 1
          /\ (N + 1) + 1 - (N + 2) = 0
      BY <1>1
    <3>3. SubSeq(xs2, N + 2, N + 1) \in Seq(Message) /\ Len(SubSeq(xs2, N + 2, N + 1)) = (N + 1) + 1 - (N + 2)
      BY <1>1, <3>2, SubSeqForms
    <3>4. SubSeq(xs2, N + 2, N + 1) = <<>>
      BY <3>2, <3>3, EmptySeq
    <3> QED BY <3>1, <3>2, <3>4
  <2>4. Bundled(t, xs2, ys, emptied, k + 1)
    <3>1. emptied.buf = SubSeq(xs2, Size(t.n) * (k + 1) + 1, Len(xs2)) /\ ~(emptied.n > 0)
      <4>1. SubSeq(xs2, size * (k + 1) + 1, Len(xs2)) = <<>>
        BY <1>1, <2>3
      <4>2. ~(emptied.n > 0)
        BY <1>11
      <4> QED BY <1>11, <4>1, <4>2 DEF size
    <3>2. k + 1 \in 0..Len(xs2)
      BY <1>1, <2>2
    <3> QED BY <2>2, <3>1, <3>2 DEF Bundled
  <2>5. buf = BatchGroup(t, xs2, k + 1)
    <3>1. size * (k + 1) = N + 1
      BY <1>6, <2>1
    <3> QED BY <1>1, <1>6, <1>8, <3>1 DEF BatchGroup, size
  <2>6. /\ Encodes(buf) => /\ Meets(t, xs2, Append(ys, Bundle(buf)), emptied) /\ Bundle(buf) \in Message
                           /\ Adds(t, xs, m, xs2, emptied, FALSE)
        /\ ~Encodes(buf) => Meets(t, xs2, ys, emptied) /\ Adds(t, xs, m, xs2, emptied, TRUE)
    <3>1. k \in Nat /\ Complete(t, xs, m) = 1..k /\ buf \in Seq(Message)
      BY <1>3, <1>4
    <3>2. SameGroups(t, xs2, xs, k)
      BY <1>7 DEF SameGroups
    <3> QED BY <1>5, <2>4, <2>5, <3>1, <3>2, OneGroupMore
  <2>7. Len(emptied.buf) < size
    BY <1>2, <1>10, <1>11
  <2>8. CASE Encodes(buf)
    <3> DEFINE b == Bundle(buf)
    <3>1. d.mem = emptied /\ d.out = <<b>> /\ d.err = FALSE
      BY <1>9, <1>13, <2>8 DEF Pass
    <3>2. b \in Message /\ Meets(t, xs2, Append(ys, b), emptied) /\ Adds(t, xs, m, xs2, emptied, FALSE)
      BY <2>6, <2>8
    <3> HIDE DEF b
    <3>3. d.out \in Seq(Message) /\ Len(d.out) <= 1 /\ ys \o d.out = Append(ys, b)
      BY <3>1, <3>2, SingleOut
    <3>4. /\ Meets(t, xs2, ys \o d.out, d.mem) /\ d.mem \in Memory /\ d.mem.n = 0 /\ Len(d.mem.buf) < size
          /\ Adds(t, xs, m, xs2, d.mem, d.err) /\ d.err \in BOOLEAN /\ ~d.err
      BY <1>11, <2>7, <3>1, <3>2, <3>3
    <3> QED BY <3>3, <3>4 DEF Takes, d, xs2, size
  <2>9. CASE ~Encodes(buf)
    <3>1. d.mem = emptied /\ d.out = <<>> /\ d.err = TRUE
      BY <1>9, <1>13, <2>9 DEF Fail
    <3>2. d.out \in Seq(Message) /\ Len(d.out) <= 1 /\ ys \o d.out = ys
      BY <1>10, <3>1
    <3>3. /\ Meets(t, xs2, ys \o d.out, d.mem) /\ d.mem \in Memory /\ d.mem.n = 0 /\ Len(d.mem.buf) < size
          /\ Adds(t, xs, m, xs2, d.mem, d.err) /\ d.err \in BOOLEAN
      BY <1>11, <2>6, <2>7, <2>9, <3>1, <3>2
    <3> QED BY <3>1, <3>2, <3>3 DEF Takes, d, xs2, size
  <2> QED BY <2>8, <2>9
<1> QED BY <1>12, <1>13

\* As its input closes, a batch bundles what it still holds, or fails on it: one
\* smaller group.
LEMMA BatchFlushes ==
  ASSUME NEW t \in Transformer, NEW xs \in Seq(Message), NEW ys \in Seq(Message), NEW m \in Memory,
         t.kind = "batch", m.n = 0, Len(m.buf) < Size(t.n), m.buf # <<>>, Meets(t, xs, ys, m)
  PROVE  LET s == [m EXCEPT !.buf = <<>>, !.n = 1]
         IN /\ Encodes(m.buf) => /\ Bundle(m.buf) \in Message
                                 /\ Meets(t, xs, ys \o <<Bundle(m.buf)>>, s) /\ Adds(t, xs, m, xs, s, FALSE)
            /\ ~Encodes(m.buf) => Meets(t, xs, ys, s) /\ Adds(t, xs, m, xs, s, TRUE)
<1> DEFINE N == Len(xs)
    s == [m EXCEPT !.buf = <<>>, !.n = 1]
    size == Size(t.n)
    b == m.buf
<1>1. N \in Nat
  OBVIOUS
<1>2. size \in Nat /\ size >= 1
  BY SizeType DEF Transformer
<1>3. PICK k \in Nat :
        /\ size * k <= N /\ N - size * k = Len(b) /\ b = SubSeq(xs, size * k + 1, N)
        /\ Complete(t, xs, m) = 1..k /\ \E pos : Placed(t, xs, ys, k, pos)
  BY OpenBatch
<1>4. PICK pos : Placed(t, xs, ys, k, pos)
  BY <1>3
<1>5. b \in Seq(Message) /\ Len(b) \in Nat /\ Len(b) # 0
  <2>1. b \in Seq(Message)
    BY MemoryForms
  <2> QED BY <2>1, EmptySeq
<1>6. s.n = 1 /\ s.buf = <<>>
  <2>1. <<>> \in Seq(Message)
    OBVIOUS
  <2> QED BY <2>1, BufferForms
<1> DEFINE o == size * k
<1>7. o \in Nat /\ size * (k + 1) = o + size /\ size * ((k + 1) - 1) = o
  <2> HIDE DEF size
  <2> QED BY <1>2, Offsets
<1> HIDE DEF s, o, size, N, b
<1>8. o < N /\ N - o < size
  BY <1>1, <1>3, <1>5, <1>7 DEF o, b, size
<1>9. /\ {i \in 1..N : size * i <= N \/ size * (i - 1) < N} = 1..(k + 1) /\ k + 1 \in 0..N
      /\ N < size * (k + 1)
  BY <1>1, <1>2, <1>3, <1>8, GroupsAre DEF o
<1>10. Complete(t, xs, s) = 1..(k + 1)
  BY <1>6, <1>9 DEF Complete, N, size
<1>11. Bundled(t, xs, ys, s, k + 1)
  BY <1>6, <1>9, <1>10 DEF Bundled, N, size
<1>12. b = BatchGroup(t, xs, k + 1)
  <2>1. ~(size * (k + 1) <= N)
    BY <1>1, <1>7, <1>9, <1>2
  <2> QED BY <1>3, <1>7, <2>1 DEF BatchGroup, N, size, o
<1>13. /\ Encodes(b) => /\ Meets(t, xs, Append(ys, Bundle(b)), s) /\ Bundle(b) \in Message
                        /\ Adds(t, xs, m, xs, s, FALSE)
       /\ ~Encodes(b) => Meets(t, xs, ys, s) /\ Adds(t, xs, m, xs, s, TRUE)
  <2>1. SameGroups(t, xs, xs, k)
    BY DEF SameGroups
  <2> QED BY <1>3, <1>4, <1>5, <1>11, <1>12, <2>1, OneGroupMore
<1>14. Bundle(b) \in Message => ys \o <<Bundle(b)>> = Append(ys, Bundle(b))
  BY SingleOut
<1> QED BY <1>13, <1>14 DEF s, b

-----------------------------------------------------------------------------
(* A stage: its transformer t, what it took and gave, where it is (p),     *)
(* what it has in its hand and what it keeps, and whether the run is done. *)

StageOK(t, xs, ys, p, h, m, done) ==
  /\ Meets(t, xs, ys \o h, m)
  /\ Len(h) <= 1 /\ (p = "send" => h # <<>>) /\ (h # <<>> => p = "send" \/ (p = "ended" /\ done))
  /\ Len(m.buf) < IF t.kind = "batch" /\ m.n = 0 THEN Size(t.n) ELSE 1
  /\ t.kind = "batch" /\ m.n > 0 => p \in {"send", "err", "ended"}
  /\ ~done /\ p = "ended" => h = <<>> /\ m.buf = <<>>

\* What is kept at the start of a stage.
LEMMA StageStarts ==
  ASSUME NEW t \in Transformer, NEW done
  PROVE  StageOK(t, <<>>, <<>>, "recv", <<>>, NoMemory, done) /\ NoMemory \in Memory
<1>1. NoMemory \in Memory /\ NoMemory.n = 0 /\ NoMemory.keys = <<>> /\ NoMemory.buf = <<>>
  BY DEF NoMemory, Memory
<1>2. <<>> \in Seq(Message) /\ Len(<<>>) = 0 /\ <<>> \o <<>> = <<>>
  OBVIOUS
<1>3. Size(t.n) \in Nat /\ Size(t.n) >= 1 /\ t.n \in Nat
  BY SizeType DEF Transformer
<1>4. Remembers(t, <<>>, {}, NoMemory)
  <2>1. ASSUME NEW n PROVE Recalls(<<>>, <<>>, {}, n)
    <3> DEFINE w == [i \in 1..0 |-> 0]
    <3>1. w \in [1..0 -> 1..0] /\ DOMAIN w = {}
      OBVIOUS
    <3>2. Range(w) = {} /\ Latest({}, n) = {}
      BY <3>1 DEF Range, Latest
    <3>3. Rising(w)
      BY <3>1 DEF Rising
    <3> HIDE DEF w
    <3>4. \A i \in 1..0 : <<>>[i] = <<>>[w[i]].key
      OBVIOUS
    <3> QED BY <1>2, <3>1, <3>2, <3>3, <3>4 DEF Recalls
  <2>2. KeyedBefore(<<>>, {}, 0 + 1) = {}
    BY DEF KeyedBefore
  <2>3. KeyedBefore(<<>>, 1..0, 0 + 1) = {}
    BY DEF KeyedBefore
  <2>4. 0 <= t.n
    BY <1>3
  <2> QED BY <1>1, <1>2, <2>1, <2>2, <2>3, <2>4 DEF Remembers
<1>5. Meets(t, <<>>, <<>>, NoMemory)
  <2>1. CASE t.kind = "batch"
    <3> DEFINE pos == [i \in 1..0 |-> 0]
    <3>1. SubSeq(<<>>, 1, 0) = <<>> /\ 1..0 = {}
      OBVIOUS
    <3>2. Size(t.n) * 0 = 0 /\ 0 + 1 = 1
      BY <1>3
    <3>3. Complete(t, <<>>, NoMemory) = 1..0
      BY <1>2, <3>1 DEF Complete
    <3>4. Bundled(t, <<>>, <<>>, NoMemory, 0)
      BY <1>1, <1>2, <3>1, <3>2, <3>3 DEF Bundled
    <3>5. pos \in [1..0 -> 1..0] /\ DOMAIN pos = {}
      OBVIOUS
    <3>6. Range(pos) = {} /\ Rising(pos)
      BY <3>5 DEF Range, Rising
    <3> HIDE DEF pos
    <3>7. Placed(t, <<>>, <<>>, 0, pos)
      BY <1>2, <3>1, <3>5, <3>6 DEF Placed
    <3> QED BY <2>1, <3>4, <3>7, BundlesForms DEF Meets
  <2>2. CASE t.kind = "count"
    <3>1. Tallies(t, <<>>, <<>>, NoMemory)
      BY <1>2, <1>4 DEF Tallies
    <3> QED BY <2>2, <3>1 DEF Meets
  <2>3. CASE t.kind \notin {"batch", "count"}
    <3> DEFINE pos == [i \in 1..0 |-> 0]
    <3>1. pos \in [1..0 -> 1..0] /\ DOMAIN pos = {}
      OBVIOUS
    <3>2. Range(pos) = {} /\ Rising(pos)
      BY <3>1 DEF Range, Rising
    <3> HIDE DEF pos
    <3>3. \A i \in 1..0 : FALSE
      OBVIOUS
    <3>4. Chosen(t, <<>>, <<>>, pos)
      BY <1>2, <3>1, <3>2, <3>3 DEF Chosen
    <3>5. Selects(t, <<>>, <<>>, NoMemory)
      BY <1>4, <3>2, <3>4, SelectsByChosen
    <3> QED BY <2>3, <3>5 DEF Meets
  <2> QED BY <2>1, <2>2, <2>3
<1>6. Meets(t, <<>>, <<>> \o <<>>, NoMemory)
  BY <1>2, <1>5
<1> QED BY <1>1, <1>2, <1>3, <1>6 DEF StageOK

\* A stage that waits for a message takes it.
LEMMA StageTakes ==
  ASSUME NEW t \in Transformer, NEW xs \in Seq(Message), NEW ys \in Seq(Message), NEW m \in Memory,
         NEW h \in Seq(Message), NEW done, StageOK(t, xs, ys, "recv", h, m, done), NEW msg \in Message
  PROVE  LET d == Decision(t, msg, m)
             here == IF d.err THEN "err" ELSE IF d.out # <<>> THEN "send" ELSE "recv"
         IN /\ d.mem \in Memory /\ d.out \in Seq(Message) /\ h = <<>>
            /\ here \in {"recv", "send", "err"} /\ Adds(t, xs, m, Append(xs, msg), d.mem, here = "err")
            /\ StageOK(t, Append(xs, msg), ys, here, d.out, d.mem, done)
<1> DEFINE d == Decision(t, msg, m)
    here == IF d.err THEN "err" ELSE IF d.out # <<>> THEN "send" ELSE "recv"
<1>1. h = <<>> /\ Meets(t, xs, ys \o h, m)
  BY DEF StageOK
<1>2. Meets(t, xs, ys, m)
  <2>1. ys \o <<>> = ys
    OBVIOUS
  <2> QED BY <1>1, <2>1
<1>3. m.n \in Nat /\ m.buf \in Seq(Message)
  BY MemoryForms
<1>4. t.kind = "batch" => m.n = 0 /\ Len(m.buf) < Size(t.n)
  BY <1>3 DEF StageOK
<1>5. t.kind # "batch" => Len(m.buf) < 1
  BY DEF StageOK
<1> HIDE DEF d
<1>6. Takes(t, xs, ys, m, msg)
  <2>1. CASE t.kind = "batch"
    BY <1>2, <1>4, <2>1, BatchTakes
  <2>2. CASE t.kind = "count"
    BY <1>2, <2>2, CountTakes
  <2>3. CASE t.kind \notin {"batch", "count"}
    BY <1>2, <2>3, SelectTakes
  <2> QED BY <2>1, <2>2, <2>3
<1>7. /\ d.mem \in Memory /\ d.out \in Seq(Message) /\ Len(d.out) <= 1
      /\ Meets(t, Append(xs, msg), ys \o d.out, d.mem)
      /\ d.err \in BOOLEAN /\ (d.err => d.out = <<>>)
      /\ Adds(t, xs, m, Append(xs, msg), d.mem, d.err)
      /\ IF t.kind = "batch" THEN d.mem.n = 0 /\ Len(d.mem.buf) < Size(t.n) ELSE d.mem.buf = m.buf
  BY <1>6 DEF Takes, d
<1>8. here \in {"recv", "send", "err"} /\ (here = "err" <=> d.err) /\ (here = "send" <=> d.out # <<>>)
  BY <1>7
<1>9. Len(d.mem.buf) < IF t.kind = "batch" /\ d.mem.n = 0 THEN Size(t.n) ELSE 1
  BY <1>5, <1>7
<1>10. ~(t.kind = "batch" /\ d.mem.n > 0)
  BY <1>7
<1> HIDE DEF here
<1>11. here # "ended"
  BY <1>8
<1>12. StageOK(t, Append(xs, msg), ys, here, d.out, d.mem, done)
  BY <1>7, <1>8, <1>9, <1>10, <1>11 DEF StageOK
<1>13. Adds(t, xs, m, Append(xs, msg), d.mem, here = "err")
  <2>1. (here = "err") = d.err
    BY <1>7, <1>8
  <2> QED BY <1>7, <2>1
<1> QED BY <1>1, <1>7, <1>8, <1>12, <1>13 DEF here, d

\* A stage that has a message in its hand gives it.
LEMMA StageGives ==
  ASSUME NEW t \in Transformer, NEW xs \in Seq(Message), NEW ys \in Seq(Message), NEW m \in Memory,
         NEW h \in Seq(Message), NEW done, StageOK(t, xs, ys, "send", h, m, done)
  PROVE  /\ Head(h) \in Message
         /\ StageOK(t, xs, Append(ys, Head(h)), IF t.kind = "batch" /\ m.n > 0 THEN "ended" ELSE "recv", <<>>, m, done)
<1> DEFINE p == IF t.kind = "batch" /\ m.n > 0 THEN "ended" ELSE "recv"
    n == Len(h)
<1>1. h # <<>> /\ n <= 1 /\ Meets(t, xs, ys \o h, m)
  BY DEF StageOK
<1>2. n \in Nat /\ n # 0
  BY <1>1, EmptySeq
<1>3. n = 1
  <2> HIDE DEF n
  <2> QED BY <1>1, <1>2
<1>4. Head(h) \in Message /\ h = <<Head(h)>>
  BY <1>3
<1>5. ys \o h = Append(ys, Head(h)) /\ Append(ys, Head(h)) \in Seq(Message)
  <2> DEFINE x == Head(h)
  <2>1. x \in Message /\ h = <<x>>
    BY <1>4
  <2> HIDE DEF x
  <2>2. ys \o h = Append(ys, x) /\ Append(ys, x) \in Seq(Message)
    BY <2>1, SingleOut
  <2> QED BY <2>2 DEF x
<1> DEFINE zs == Append(ys, Head(h))
<1>6. zs \o <<>> = zs
  <2> HIDE DEF zs
  <2>1. zs \in Seq(Message)
    BY <1>5 DEF zs
  <2> QED BY <2>1
<1> HIDE DEF zs
<1>7. Meets(t, xs, zs \o <<>>, m)
  BY <1>1, <1>5, <1>6 DEF zs
<1>8. m.buf \in Seq(Message) /\ m.n \in Nat
  BY MemoryForms
<1>9. Len(m.buf) < IF t.kind = "batch" /\ m.n = 0 THEN Size(t.n) ELSE 1
  BY DEF StageOK
<1>10. t.kind = "batch" /\ m.n > 0 => m.buf = <<>>
  <2> SUFFICES ASSUME t.kind = "batch", m.n > 0 PROVE m.buf = <<>>
    OBVIOUS
  <2> DEFINE k == Len(m.buf)
  <2>1. k \in Nat /\ k < 1
    BY <1>8, <1>9
  <2> HIDE DEF k
  <2>2. k = 0
    BY <2>1
  <2> QED BY <1>8, <2>2, EmptySeq DEF k
<1>11. p \in {"recv", "ended"} /\ (t.kind = "batch" /\ m.n > 0 <=> p = "ended")
  OBVIOUS
<1> HIDE DEF p
<1>12. Len(<<>>) <= 1
  OBVIOUS
<1>13. StageOK(t, xs, zs, p, <<>>, m, done)
  BY <1>7, <1>9, <1>10, <1>11, <1>12 DEF StageOK
<1> QED BY <1>4, <1>13 DEF zs, p

\* A stage sees its input close: a batch that holds messages flushes them.
LEMMA StageCloses ==
  ASSUME NEW t \in Transformer, NEW xs \in Seq(Message), NEW ys \in Seq(Message), NEW m \in Memory,
         NEW h \in Seq(Message), NEW done, StageOK(t, xs, ys, "recv", h, m, done)
  PROVE  LET s == [m EXCEPT !.buf = <<>>, !.n = 1]
         IN /\ m.buf # <<>> /\ Encodes(m.buf) =>
                 /\ Bundle(m.buf) \in Message /\ Adds(t, xs, m, xs, s, FALSE)
                 /\ StageOK(t, xs, ys, "send", <<Bundle(m.buf)>>, s, done)
            /\ m.buf # <<>> /\ ~Encodes(m.buf) =>
                 Adds(t, xs, m, xs, s, TRUE) /\ StageOK(t, xs, ys, "err", h, s, done)
            /\ m.buf = <<>> => StageOK(t, xs, ys, "ended", h, m, done)
<1> DEFINE s == [m EXCEPT !.buf = <<>>, !.n = 1]
    b == Bundle(m.buf)
<1>1. h = <<>> /\ Meets(t, xs, ys \o h, m) /\ Len(h) <= 1
  BY DEF StageOK
<1>2. Meets(t, xs, ys, m) /\ ys \o h = ys
  <2>1. ys \o <<>> = ys
    OBVIOUS
  <2> QED BY <1>1, <2>1
<1>3. m.n \in Nat /\ m.buf \in Seq(Message)
  BY MemoryForms
<1>4. t.kind = "batch" => m.n = 0 /\ Len(m.buf) < Size(t.n)
  BY <1>3 DEF StageOK
<1>5. t.kind # "batch" => Len(m.buf) < 1
  BY DEF StageOK
<1>6. m.buf # <<>> => t.kind = "batch"
  <2> SUFFICES ASSUME m.buf # <<>> PROVE t.kind = "batch"
    OBVIOUS
  <2> DEFINE k == Len(m.buf)
  <2>1. k \in Nat /\ k # 0
    BY <1>3, EmptySeq
  <2>2. t.kind # "batch" => k < 1
    BY <1>5
  <2> HIDE DEF k
  <2> QED BY <2>1, <2>2
<1>7. s.buf = <<>> /\ s.n = 1 /\ Len(s.buf) = 0
  <2>1. <<>> \in Seq(Message) /\ Len(<<>>) = 0
    OBVIOUS
  <2> QED BY <2>1, BufferForms
<1>8. m.buf # <<>> =>
        /\ Encodes(m.buf) => b \in Message /\ Meets(t, xs, ys \o <<b>>, s) /\ Adds(t, xs, m, xs, s, FALSE)
        /\ ~Encodes(m.buf) => Meets(t, xs, ys, s) /\ Adds(t, xs, m, xs, s, TRUE)
  BY <1>2, <1>4, <1>6, BatchFlushes
<1> HIDE DEF s, b
<1>9. <<b>> # <<>> /\ Len(<<b>>) = 1
  OBVIOUS
<1>10. Len(s.buf) < IF t.kind = "batch" /\ s.n = 0 THEN Size(t.n) ELSE 1
  BY <1>7
<1>11. ASSUME m.buf # <<>>, Encodes(m.buf) PROVE StageOK(t, xs, ys, "send", <<b>>, s, done)
  <2> DEFINE hh == <<b>>
  <2>1. hh # <<>> /\ Len(hh) <= 1 /\ Meets(t, xs, ys \o hh, s)
    <3>1. Meets(t, xs, ys \o <<b>>, s)
      BY <1>8, <1>11
    <3> QED BY <1>9, <3>1
  <2> HIDE DEF hh
  <2>2. StageOK(t, xs, ys, "send", hh, s, done)
    BY <1>7, <1>10, <2>1 DEF StageOK
  <2> QED BY <2>2 DEF hh
<1>12. ASSUME m.buf # <<>>, ~Encodes(m.buf) PROVE StageOK(t, xs, ys, "err", h, s, done)
  <2>1. Meets(t, xs, ys \o h, s)
    BY <1>2, <1>8, <1>12
  <2> QED BY <1>1, <1>7, <1>10, <2>1 DEF StageOK
<1>13. ASSUME m.buf = <<>> PROVE StageOK(t, xs, ys, "ended", h, m, done)
  BY <1>1, <1>3, <1>4, <1>5, <1>13 DEF StageOK
<1> QED BY <1>8, <1>11, <1>12, <1>13 DEF s, b

\* A stage has its error received, is cancelled, or sees the run end.
LEMMA StageMoves ==
  ASSUME NEW t, NEW xs, NEW ys, NEW p, NEW h, NEW m \in Memory, NEW done, StageOK(t, xs, ys, p, h, m, done)
  PROVE  /\ p = "err" => StageOK(t, xs, ys, IF t.kind = "batch" /\ m.n > 0 THEN "ended" ELSE "recv", h, m, done)
         /\ done => StageOK(t, xs, ys, "ended", h, m, done)
         /\ StageOK(t, xs, ys, p, h, m, TRUE)
<1>1. ASSUME p = "err"
      PROVE  StageOK(t, xs, ys, IF t.kind = "batch" /\ m.n > 0 THEN "ended" ELSE "recv", h, m, done)
  <2>1. CASE t.kind = "batch" /\ m.n > 0
    <3>1. m.buf = <<>>
      <4> DEFINE k == Len(m.buf)
      <4>1. m.buf \in Seq(Message) /\ m.n \in Nat
        BY MemoryForms
      <4>2. k \in Nat /\ k < 1
        BY <2>1, <4>1 DEF StageOK
      <4> HIDE DEF k
      <4>3. k = 0
        BY <4>2
      <4> QED BY <4>1, <4>3, EmptySeq DEF k
    <3>2. h = <<>>
      BY <1>1 DEF StageOK
    <3> QED BY <1>1, <2>1, <3>1, <3>2 DEF StageOK
  <2>2. CASE ~(t.kind = "batch" /\ m.n > 0)
    BY <1>1, <2>2 DEF StageOK
  <2> QED BY <2>1, <2>2
<1>2. done => StageOK(t, xs, ys, "ended", h, m, done)
  BY DEF StageOK
<1>3. StageOK(t, xs, ys, p, h, m, TRUE)
  BY DEF StageOK
<1> QED BY <1>1, <1>2, <1>3

-----------------------------------------------------------------------------
(* The chain.                                                              *)

Err == {s \in Stage : at[s] = "err"}
ChainInv ==
  /\ StagesTypeOK
  /\ \A s \in Stage : StageOK(chain[s], flow[s - 1], flow[s], at[s], hold[s], mem[s], runDone)
  /\ IsFiniteSet(Failures) /\ (~runDone => failed + Cardinality(Err) = Cardinality(Failures))

\* It is the invariant of the chain, stage by stage.
LEMMA ChainInvMeans == ChainInv => StageInv
<1> SUFFICES ASSUME ChainInv PROVE StageInv
  OBVIOUS
<1>1. HandsMatch
  BY DEF ChainInv, StageOK, HandsMatch
<1>2. StagesMeetReference
  BY DEF ChainInv, StageOK, StagesMeetReference
<1>3. CleanEnd
  BY DEF ChainInv, StageOK, CleanEnd, Err
<1> QED BY <1>1, <1>2, <1>3 DEF ChainInv, StageInv

\* The parts of the state of one stage.
StageParts(s) ==
  /\ s \in 1..Len(chain) /\ s - 1 \in 0..Len(chain) /\ s \in 0..Len(chain)
  /\ chain[s] \in Transformer /\ flow[s - 1] \in Seq(Message) /\ flow[s] \in Seq(Message)
  /\ at[s] \in {"recv", "send", "err", "ended"} /\ hold[s] \in Seq(Message) /\ mem[s] \in Memory
  /\ StageOK(chain[s], flow[s - 1], flow[s], at[s], hold[s], mem[s], runDone)

LEMMA ChainLength ==
  ASSUME ChainInv
  PROVE  /\ Len(chain) \in Nat /\ Len(chain) >= 1 /\ 1 \in Stage /\ Len(chain) \in Stage
         /\ chain \in Seq(Transformer)
<1>1. chain \in Chains
  BY DEF ChainInv, StagesTypeOK
<1>2. chain \in Seq(Transformer) /\ Len(chain) >= 1
  BY <1>1, StageAssumption DEF Transformer
<1>3. Len(chain) \in Nat
  BY <1>2
<1> DEFINE n == Len(chain)
<1>4. n \in Nat /\ n >= 1
  BY <1>2, <1>3
<1> HIDE DEF n
<1>5. 1 \in 1..n /\ n \in 1..n
  BY <1>4
<1> QED BY <1>2, <1>4, <1>5 DEF Stage, n

LEMMA ChainParts ==
  ASSUME ChainInv, NEW s \in Stage
  PROVE  StageParts(s)
<1>1. Len(chain) \in Nat /\ chain \in Seq(Transformer)
  BY ChainLength
<1>2. s \in 1..Len(chain) /\ s - 1 \in 0..Len(chain) /\ s \in 0..Len(chain)
  BY <1>1 DEF Stage
<1>3. chain[s] \in Transformer
  BY <1>1, <1>2
<1>4. /\ at \in [Stage -> {"recv", "send", "err", "ended"}] /\ flow \in [0..Len(chain) -> Seq(Message)]
      /\ hold \in [Stage -> Seq(Message)] /\ mem \in [Stage -> Memory]
  BY DEF ChainInv, StagesTypeOK, Memory
<1>5. StageOK(chain[s], flow[s - 1], flow[s], at[s], hold[s], mem[s], runDone)
  BY DEF ChainInv
<1> QED BY <1>2, <1>3, <1>4, <1>5 DEF StageParts

\* The functions of the state.
Functions ==
  /\ at \in [Stage -> {"recv", "send", "err", "ended"}] /\ flow \in [0..Len(chain) -> Seq(Message)]
  /\ hold \in [Stage -> Seq(Message)] /\ mem \in [Stage -> Memory]

LEMMA ChainFunctions == ChainInv => Functions
BY DEF ChainInv, StagesTypeOK, Memory, Functions

-----------------------------------------------------------------------------
(* Counting failures.                                                      *)

LEMMA FailuresAre ==
  /\ \A x : x \in Failures <=> \E s \in Stage : \E i \in Broken(chain[s], flow[s - 1], mem[s]) : x = <<s, i>>
  /\ \A x : x \in Failures' <=>
       \E s \in Stage' : \E i \in Broken(chain'[s], flow'[s - 1], mem'[s]) : x = <<s, i>>
<1> DEFINE Of(c, f, m, s) == {s} \X Broken(c[s], f[s - 1], m[s])
<1>1. ASSUME NEW c, NEW f, NEW m, NEW s, NEW x
      PROVE  x \in Of(c, f, m, s) <=> \E i \in Broken(c[s], f[s - 1], m[s]) : x = <<s, i>>
  <2> DEFINE B == Broken(c[s], f[s - 1], m[s])
  <2> HIDE DEF B
  <2>1. x \in {s} \X B <=> \E i \in B : x = <<s, i>>
    OBVIOUS
  <2> QED BY <2>1 DEF B
<1>2. Failures = UNION {Of(chain, flow, mem, s) : s \in Stage}
  BY DEF Failures
<1>3. Failures' = UNION {Of(chain', flow', mem', s) : s \in Stage'}
  BY DEF Failures
<1> HIDE DEF Of
<1>4. \A x : x \in Failures <=> \E s \in Stage : x \in Of(chain, flow, mem, s)
  BY <1>2
<1>5. \A x : x \in Failures' <=> \E s \in Stage' : x \in Of(chain', flow', mem', s)
  BY <1>3
<1> QED BY <1>1, <1>4, <1>5

\* Only the stage s changes, and it has one failure more, or none.
Grows(s, b) ==
  /\ \A r \in Stage : r # s => flow'[r - 1] = flow[r - 1] /\ mem'[r] = mem[r]
  /\ b \in BOOLEAN /\ Adds(chain[s], flow[s - 1], mem[s], flow'[s - 1], mem'[s], b)

LEMMA FailuresGrow ==
  ASSUME chain' = chain, NEW s \in Stage, NEW b, Grows(s, b)
  PROVE  IF b THEN \E i : <<s, i>> \notin Failures /\ Failures' = Failures \union {<<s, i>>}
         ELSE Failures' = Failures
<1> DEFINE Now(r) == Broken(chain[r], flow[r - 1], mem[r])
    Then(r) == Broken(chain'[r], flow'[r - 1], mem'[r])
<1>1. /\ \A x : x \in Failures <=> \E r \in Stage : \E i \in Now(r) : x = <<r, i>>
      /\ \A x : x \in Failures' <=> \E r \in Stage : \E i \in Then(r) : x = <<r, i>>
  <2>1. Stage' = Stage
    BY DEF Stage
  <2> QED BY <2>1, FailuresAre
<1>2. \A r \in Stage : r # s => Then(r) = Now(r)
  BY DEF Grows
<1>3. b \in BOOLEAN /\ IF b THEN \E i : i \notin Now(s) /\ Then(s) = Now(s) \union {i} ELSE Then(s) = Now(s)
  BY DEF Grows, Adds
<1> HIDE DEF Now, Then
<1>4. CASE b
  <2>1. PICK i : i \notin Now(s) /\ Then(s) = Now(s) \union {i}
    BY <1>3, <1>4
  <2>2. <<s, i>> \notin Failures
    BY <1>1, <2>1
  <2>3. ASSUME NEW x PROVE x \in Failures' <=> x \in Failures \/ x = <<s, i>>
    <3>1. ASSUME NEW r \in Stage, NEW j \in Then(r), x = <<r, j>> PROVE x \in Failures \/ x = <<s, i>>
      <4>1. CASE r # s
        BY <1>1, <1>2, <3>1, <4>1
      <4>2. CASE r = s
        BY <1>1, <2>1, <3>1, <4>2
      <4> QED BY <4>1, <4>2
    <3>2. ASSUME NEW r \in Stage, NEW j \in Now(r), x = <<r, j>> PROVE x \in Failures'
      <4>1. j \in Then(r)
        BY <1>2, <2>1
      <4> QED BY <1>1, <3>2, <4>1
    <3>3. <<s, i>> \in Failures'
      BY <1>1, <2>1
    <3> QED BY <1>1, <3>1, <3>2, <3>3
  <2>4. Failures' = Failures \union {<<s, i>>}
    BY <2>3
  <2> QED BY <1>4, <2>2, <2>4
<1>5. CASE ~b
  <2>1. \A r \in Stage : Then(r) = Now(r)
    BY <1>2, <1>3, <1>5
  <2>2. Failures' = Failures
    BY <1>1, <2>1
  <2> QED BY <1>5, <2>2
<1> QED BY <1>3, <1>4, <1>5

\* What goes into no stage adds no failure.
LEMMA FailuresStay ==
  ASSUME chain' = chain, mem' = mem, \A s \in Stage : flow'[s - 1] = flow[s - 1]
  PROVE  Failures' = Failures
<1>1. Stage' = Stage
  BY DEF Stage
<1>2. \A s \in Stage : Broken(chain'[s], flow'[s - 1], mem'[s]) = Broken(chain[s], flow[s - 1], mem[s])
  OBVIOUS
<1>3. \A x : x \in Failures' <=> x \in Failures
  BY <1>1, <1>2, FailuresAre
<1> QED BY <1>3

\* The stages that are at an error, when only stage s changes.
LEMMA ErrSize ==
  ASSUME ChainInv
  PROVE  IsFiniteSet(Err) /\ Cardinality(Err) \in Nat /\ Cardinality(Failures) \in Nat
<1>1. Len(chain) \in Nat
  BY ChainLength
<1>2. IsFiniteSet(Stage)
  BY <1>1, FS_Interval DEF Stage
<1>3. Err \in SUBSET Stage
  BY DEF Err
<1> QED BY <1>2, <1>3, FS_Subset, FS_CardinalityType DEF ChainInv

\* A failure more is a stage more at an error.
LEMMA StepCounts ==
  ASSUME ChainInv, chain' = chain, runDone' = runDone, failed' = failed,
         NEW s \in Stage, at[s] # "err", Grows(s, at'[s] = "err"),
         \A r \in Stage : r # s => (at'[r] = "err" <=> at[r] = "err")
  PROVE  IsFiniteSet(Failures)' /\ (~runDone' => failed' + Cardinality(Err)' = Cardinality(Failures)')
<1>1. IF at'[s] = "err" THEN \E i : <<s, i>> \notin Failures /\ Failures' = Failures \union {<<s, i>>}
      ELSE Failures' = Failures
  <2> DEFINE b == at'[s] = "err"
  <2>1. Grows(s, b)
    OBVIOUS
  <2> HIDE DEF b
  <2>2. IF b THEN \E i : <<s, i>> \notin Failures /\ Failures' = Failures \union {<<s, i>>}
        ELSE Failures' = Failures
    BY <2>1, FailuresGrow
  <2> QED BY <2>2 DEF b
<1>2. s \notin Err /\ Err' = Err \union {x \in {s} : at'[s] = "err"}
  BY DEF Err, Stage
<1>3. IsFiniteSet(Failures) /\ IsFiniteSet(Err) /\ Cardinality(Err) \in Nat /\ Cardinality(Failures) \in Nat /\ failed \in Nat
      /\ (~runDone => failed + Cardinality(Err) = Cardinality(Failures))
  BY ErrSize DEF ChainInv, StagesTypeOK
<1>4. CASE at'[s] = "err"
  <2>1. PICK i : <<s, i>> \notin Failures /\ Failures' = Failures \union {<<s, i>>}
    BY <1>1, <1>4
  <2>2. Err' = Err \union {s}
    BY <1>2, <1>4
  <2> DEFINE new == <<s, i>>
  <2> HIDE DEF new
  <2>3. IsFiniteSet(Failures \union {new}) /\ Cardinality(Failures \union {new}) = Cardinality(Failures) + 1
    BY <1>3, <2>1, FS_AddElement DEF new
  <2>4. Cardinality(Err \union {s}) = Cardinality(Err) + 1
    BY <1>2, <1>3, FS_AddElement
  <2> QED BY <1>3, <2>1, <2>2, <2>3, <2>4 DEF new
<1>5. CASE at'[s] # "err"
  <2>1. Failures' = Failures /\ Err' = Err
    BY <1>1, <1>2, <1>5
  <2> QED BY <1>3, <2>1
<1> QED BY <1>4, <1>5

\* No failure more, and no stage more or less at an error.
LEMMA CountsStay ==
  ASSUME ChainInv, chain' = chain, runDone' = runDone, failed' = failed, mem' = mem,
         \A s \in Stage : flow'[s - 1] = flow[s - 1],
         \A r \in Stage : at'[r] = "err" <=> at[r] = "err"
  PROVE  IsFiniteSet(Failures)' /\ (~runDone' => failed' + Cardinality(Err)' = Cardinality(Failures)')
<1>1. Failures' = Failures
  BY FailuresStay
<1>2. Err' = Err
  BY DEF Err, Stage
<1> QED BY <1>1, <1>2 DEF ChainInv

-----------------------------------------------------------------------------
(* The steps.                                                              *)

LEMMA InitHolds == StagesInit => ChainInv
<1> SUFFICES ASSUME StagesInit PROVE ChainInv
  OBVIOUS
<1>1. chain \in Seq(Transformer) /\ Len(chain) \in Nat /\ chain \in Chains
  <2>1. chain \in Chains
    BY DEF StagesInit
  <2>2. chain \in Seq(Transformer)
    BY <2>1, StageAssumption DEF Transformer
  <2> QED BY <2>1, <2>2
<1>2. \A s \in Stage : chain[s] \in Transformer /\ s - 1 \in 0..Len(chain) /\ s \in 0..Len(chain)
  BY <1>1 DEF Stage
<1>3. /\ flow = [s \in 0..Len(chain) |-> <<>>] /\ at = [s \in Stage |-> "recv"]
      /\ hold = [s \in Stage |-> <<>>] /\ mem = [s \in Stage |-> NoMemory]
      /\ fed = TRUE /\ failed = 0
  BY DEF StagesInit
<1>4. ASSUME NEW s \in Stage
      PROVE  StageOK(chain[s], flow[s - 1], flow[s], at[s], hold[s], mem[s], runDone) /\ NoMemory \in Memory
  <2>1. StageOK(chain[s], <<>>, <<>>, "recv", <<>>, NoMemory, runDone) /\ NoMemory \in Memory
    BY <1>2, StageStarts
  <2>2. flow[s - 1] = <<>> /\ flow[s] = <<>> /\ at[s] = "recv" /\ hold[s] = <<>> /\ mem[s] = NoMemory
    BY <1>2, <1>3
  <2> QED BY <2>1, <2>2
<1>5. StagesTypeOK
  <2>1. <<>> \in Seq(Message)
    OBVIOUS
  <2>2. at \in [Stage -> {"recv", "send", "err", "ended"}]
    BY <1>3
  <2>3. flow \in [0..Len(chain) -> Seq(Message)] /\ hold \in [Stage -> Seq(Message)]
    BY <1>3, <2>1
  <2>4. mem \in [Stage -> Memory]
    BY <1>3, <1>4
  <2> QED BY <1>1, <1>3, <2>2, <2>3, <2>4 DEF StagesTypeOK, Memory
<1>6. Failures = {} /\ Err = {}
  <2>1. \A s \in Stage : Broken(chain[s], flow[s - 1], mem[s]) = {}
    <3> TAKE s \in Stage
    <3>1. flow[s - 1] = <<>> /\ Len(<<>>) = 0 /\ 1..0 = {}
      BY <1>2, <1>3
    <3> QED BY <3>1 DEF Broken, Complete
  <2>2. Failures = {}
    BY <2>1, FailuresAre
  <2>3. Err = {}
    BY <1>3 DEF Err
  <2> QED BY <2>2, <2>3
<1>7. IsFiniteSet({}) /\ Cardinality({}) = 0
  BY FS_EmptySet
<1> QED BY <1>3, <1>4, <1>5, <1>6, <1>7 DEF ChainInv

\* Stage s, which waits for a message, takes msg.
LEMMA TakeSteps ==
  ASSUME ChainInv, chain' = chain, runDone' = runDone, NEW s \in Stage, at[s] = "recv",
         NEW msg \in Message, NEW upstream \in [Stage -> {"recv", "send", "err", "ended"}],
         Take(s, msg, upstream)
  PROVE  /\ flow' = [flow EXCEPT ![s - 1] = Append(@, msg)]
         /\ flow'[s - 1] = Append(flow[s - 1], msg) /\ \A r \in Stage : r # s => flow'[r - 1] = flow[r - 1]
         /\ flow'[Len(chain)] = flow[Len(chain)] /\ flow' \in [0..Len(chain) -> Seq(Message)]
         /\ at' \in [Stage -> {"recv", "send", "err", "ended"}] /\ Grows(s, at'[s] = "err")
         /\ \A r \in Stage : r # s => at'[r] = upstream[r] /\ mem'[r] = mem[r]
         /\ \A r \in Stage : r # s => hold'[r] = IF r = s - 1 THEN <<>> ELSE hold[r]
         /\ mem' \in [Stage -> Memory] /\ hold' \in [Stage -> Seq(Message)]
         /\ StageOK(chain[s], flow'[s - 1], flow[s], at'[s], hold'[s], mem'[s], runDone')
<1> DEFINE d == Decision(chain[s], msg, mem[s])
    here == IF d.err THEN "err" ELSE IF d.out # <<>> THEN "send" ELSE "recv"
<1>1. StageParts(s) /\ Functions /\ Len(chain) \in Nat /\ Len(chain) >= 1
  BY ChainParts, ChainFunctions, ChainLength
<1>2. /\ at' = [upstream EXCEPT ![s] = here] /\ mem' = [mem EXCEPT ![s] = d.mem]
      /\ flow' = [flow EXCEPT ![s - 1] = Append(@, msg)]
      /\ hold' = [r \in Stage |-> IF r = s THEN d.out ELSE IF r = s - 1 THEN <<>> ELSE hold[r]]
  BY DEF Take
<1>3. /\ d.mem \in Memory /\ d.out \in Seq(Message)
      /\ here \in {"recv", "send", "err"}
      /\ Adds(chain[s], flow[s - 1], mem[s], Append(flow[s - 1], msg), d.mem, here = "err")
      /\ StageOK(chain[s], Append(flow[s - 1], msg), flow[s], here, d.out, d.mem, runDone)
  <2> DEFINE t == chain[s]
      xs == flow[s - 1]
      ys == flow[s]
      m == mem[s]
      h == hold[s]
  <2>1. t \in Transformer /\ xs \in Seq(Message) /\ ys \in Seq(Message) /\ m \in Memory /\ h \in Seq(Message)
        /\ StageOK(t, xs, ys, "recv", h, m, runDone)
    BY <1>1 DEF StageParts
  <2> HIDE DEF t, xs, ys, m, h
  <2>2. LET e == Decision(t, msg, m)
            there == IF e.err THEN "err" ELSE IF e.out # <<>> THEN "send" ELSE "recv"
        IN /\ e.mem \in Memory /\ e.out \in Seq(Message) /\ h = <<>>
           /\ there \in {"recv", "send", "err"} /\ Adds(t, xs, m, Append(xs, msg), e.mem, there = "err")
           /\ StageOK(t, Append(xs, msg), ys, there, e.out, e.mem, runDone)
    BY <2>1, StageTakes
  <2> QED BY <2>2 DEF t, xs, ys, m, h
<1> HIDE DEF d, here
<1>4. s \in 1..Len(chain) /\ s - 1 \in 0..Len(chain) /\ s \in Nat
  BY <1>1 DEF Stage
<1>5. Append(flow[s - 1], msg) \in Seq(Message)
  <2>1. flow[s - 1] \in Seq(Message)
    BY <1>1 DEF StageParts
  <2> QED BY <2>1, OneMore
<1>6. /\ flow'[s - 1] = Append(flow[s - 1], msg) /\ \A r \in Stage : r # s => flow'[r - 1] = flow[r - 1]
      /\ flow'[Len(chain)] = flow[Len(chain)] /\ flow' \in [0..Len(chain) -> Seq(Message)]
  <2>1. \A r \in Stage : r - 1 \in 0..Len(chain) /\ (r # s => r - 1 # s - 1)
    BY <1>1, <1>4 DEF Stage
  <2>2. Len(chain) \in 0..Len(chain) /\ Len(chain) # s - 1
    BY <1>1, <1>4
  <2> QED BY <1>1, <1>2, <1>4, <1>5, <2>1, <2>2 DEF Functions
<1>7. /\ at' \in [Stage -> {"recv", "send", "err", "ended"}] /\ at'[s] = here
      /\ \A r \in Stage : r # s => at'[r] = upstream[r]
  BY <1>2, <1>3
<1>8. mem' \in [Stage -> Memory] /\ mem'[s] = d.mem /\ \A r \in Stage : r # s => mem'[r] = mem[r]
  BY <1>1, <1>2, <1>3 DEF Functions
<1>9. /\ hold' \in [Stage -> Seq(Message)] /\ hold'[s] = d.out
      /\ \A r \in Stage : r # s => hold'[r] = IF r = s - 1 THEN <<>> ELSE hold[r]
  <2>1. <<>> \in Seq(Message)
    OBVIOUS
  <2>2. \A r \in Stage : hold[r] \in Seq(Message)
    BY <1>1 DEF Functions
  <2> QED BY <1>2, <1>3, <2>1, <2>2
<1>10. Grows(s, at'[s] = "err")
  <2>1. Adds(chain[s], flow[s - 1], mem[s], flow'[s - 1], mem'[s], at'[s] = "err")
    BY <1>3, <1>6, <1>7, <1>8
  <2>2. (at'[s] = "err") \in BOOLEAN
    OBVIOUS
  <2> QED BY <1>6, <1>8, <2>1, <2>2 DEF Grows
<1> QED BY <1>2, <1>3, <1>6, <1>7, <1>8, <1>9, <1>10

LEMMA FeedsMessageKeeps == ASSUME ChainInv, FeedsMessage PROVE ChainInv'
<1>1. /\ chain' = chain /\ runDone' = runDone /\ failed' = failed /\ fed' = fed /\ at[1] = "recv"
      /\ Stage' = Stage /\ 1 \in Stage
  BY ChainLength DEF FeedsMessage, Stage
<1>2. PICK k \in Class : Take(1, Input(k, Len(flow[0]) + 1), at)
  BY DEF FeedsMessage
<1> DEFINE msg == Input(k, Len(flow[0]) + 1)
<1>3. msg \in Message
  <2>1. Functions /\ 0 \in 0..Len(chain)
    BY ChainFunctions, ChainLength
  <2>2. Len(flow[0]) + 1 \in Nat
    BY <2>1 DEF Functions
  <2>3. <<Len(flow[0]) + 1>> \in Seq(Nat)
    BY <2>2
  <2> QED BY <2>3 DEF Message, Input
<1>4. at \in [Stage -> {"recv", "send", "err", "ended"}]
  BY ChainFunctions DEF Functions
<1> HIDE DEF msg
<1>5. Take(1, msg, at)
  BY <1>2 DEF msg
<1>6. /\ flow' = [flow EXCEPT ![1 - 1] = Append(@, msg)]
      /\ flow'[1 - 1] = Append(flow[1 - 1], msg) /\ \A r \in Stage : r # 1 => flow'[r - 1] = flow[r - 1]
      /\ flow'[Len(chain)] = flow[Len(chain)] /\ flow' \in [0..Len(chain) -> Seq(Message)]
      /\ at' \in [Stage -> {"recv", "send", "err", "ended"}] /\ Grows(1, at'[1] = "err")
      /\ \A r \in Stage : r # 1 => at'[r] = at[r] /\ mem'[r] = mem[r]
      /\ \A r \in Stage : r # 1 => hold'[r] = IF r = 1 - 1 THEN <<>> ELSE hold[r]
      /\ mem' \in [Stage -> Memory] /\ hold' \in [Stage -> Seq(Message)]
      /\ StageOK(chain[1], flow'[1 - 1], flow[1], at'[1], hold'[1], mem'[1], runDone')
  BY <1>1, <1>3, <1>4, <1>5, TakeSteps
<1>7. IsFiniteSet(Failures)' /\ (~runDone' => failed' + Cardinality(Err)' = Cardinality(Failures)')
  BY <1>1, <1>6, StepCounts
<1>8. \A r \in Stage : r # 0 /\ flow'[r] = flow[r]
  <2> TAKE r \in Stage
  <2>1. Len(chain) \in Nat /\ r \in 1..Len(chain)
    BY ChainLength DEF Stage
  <2>2. CASE r = Len(chain)
    BY <1>6, <2>1, <2>2
  <2>3. CASE r # Len(chain)
    <3>1. r + 1 \in Stage /\ r + 1 # 1 /\ (r + 1) - 1 = r
      BY <2>1, <2>3 DEF Stage
    <3> QED BY <1>6, <2>1, <3>1
  <2> QED BY <2>2, <2>3
<1>9. ASSUME NEW r \in Stage
      PROVE  StageOK(chain[r], flow'[r - 1], flow'[r], at'[r], hold'[r], mem'[r], runDone')
  <2>1. CASE r = 1
    BY <1>6, <1>8, <2>1
  <2>2. CASE r # 1
    <3>1. /\ flow'[r - 1] = flow[r - 1] /\ flow'[r] = flow[r] /\ at'[r] = at[r]
          /\ hold'[r] = hold[r] /\ mem'[r] = mem[r]
      BY <1>6, <1>8, <2>2
    <3>2. StageParts(r)
      BY ChainParts
    <3> QED BY <1>1, <3>1, <3>2 DEF StageParts
  <2> QED BY <2>1, <2>2
<1>10. StagesTypeOK'
  BY <1>1, <1>6 DEF ChainInv, StagesTypeOK, Memory
<1> QED BY <1>1, <1>7, <1>9, <1>10 DEF ChainInv

\* What the stage s gives goes into the next one.
LEMMA PassesKeeps == ASSUME ChainInv, NEW s \in Stage, Passes(s) PROVE ChainInv'
<1> DEFINE n == s + 1
    msg == Head(hold[s])
    up == [at EXCEPT ![s] = After(s)]
<1>1. /\ chain' = chain /\ runDone' = runDone /\ failed' = failed /\ fed' = fed
      /\ s < Len(chain) /\ at[s] = "send" /\ at[n] = "recv" /\ Take(n, msg, up) /\ Stage' = Stage
  BY DEF Passes, Stage
<1>2. n \in Stage /\ n - 1 = s /\ n # s /\ Len(chain) \in Nat /\ s \in 1..Len(chain)
  BY <1>1, ChainLength DEF Stage
<1>3. Functions /\ StageParts(s)
  BY ChainFunctions, ChainParts
<1>4. /\ msg \in Message
      /\ StageOK(chain[s], flow[s - 1], Append(flow[s], msg), After(s), <<>>, mem[s], runDone)
  <2> DEFINE t == chain[s]
      xs == flow[s - 1]
      ys == flow[s]
      m == mem[s]
      h == hold[s]
  <2>1. t \in Transformer /\ xs \in Seq(Message) /\ ys \in Seq(Message) /\ m \in Memory /\ h \in Seq(Message)
        /\ StageOK(t, xs, ys, "send", h, m, runDone)
    BY <1>1, <1>3 DEF StageParts
  <2> HIDE DEF t, xs, ys, m, h
  <2>2. /\ Head(h) \in Message
        /\ StageOK(t, xs, Append(ys, Head(h)), IF t.kind = "batch" /\ m.n > 0 THEN "ended" ELSE "recv", <<>>, m, runDone)
    BY <2>1, StageGives
  <2> QED BY <2>2 DEF After, t, xs, ys, m, h
<1>5. After(s) \in {"recv", "ended"}
  BY DEF After
<1>6. up \in [Stage -> {"recv", "send", "err", "ended"}] /\ up[s] = After(s) /\ \A r \in Stage : r # s => up[r] = at[r]
  BY <1>3, <1>5 DEF Functions
<1> HIDE DEF msg, up, n
<1>7. /\ flow' = [flow EXCEPT ![n - 1] = Append(@, msg)]
      /\ flow'[n - 1] = Append(flow[n - 1], msg) /\ \A r \in Stage : r # n => flow'[r - 1] = flow[r - 1]
      /\ flow'[Len(chain)] = flow[Len(chain)] /\ flow' \in [0..Len(chain) -> Seq(Message)]
      /\ at' \in [Stage -> {"recv", "send", "err", "ended"}] /\ Grows(n, at'[n] = "err")
      /\ \A r \in Stage : r # n => at'[r] = up[r] /\ mem'[r] = mem[r]
      /\ \A r \in Stage : r # n => hold'[r] = IF r = n - 1 THEN <<>> ELSE hold[r]
      /\ mem' \in [Stage -> Memory] /\ hold' \in [Stage -> Seq(Message)]
      /\ StageOK(chain[n], flow'[n - 1], flow[n], at'[n], hold'[n], mem'[n], runDone')
  BY <1>1, <1>2, <1>4, <1>6, TakeSteps
<1>8. \A r \in Stage : r # n => (at'[r] = "err" <=> at[r] = "err")
  <2> TAKE r \in Stage
  <2>1. r # n /\ r # s => at'[r] = at[r]
    BY <1>6, <1>7
  <2>2. at'[s] = After(s)
    BY <1>2, <1>6, <1>7
  <2> QED BY <1>1, <1>5, <2>1, <2>2
<1>9. IsFiniteSet(Failures)' /\ (~runDone' => failed' + Cardinality(Err)' = Cardinality(Failures)')
  BY <1>1, <1>2, <1>7, <1>8, StepCounts
<1>10. \A r \in Stage : r # s => flow'[r] = flow[r]
  <2> SUFFICES ASSUME NEW r \in Stage, r # s PROVE flow'[r] = flow[r]
    OBVIOUS
  <2>1. r \in 1..Len(chain)
    BY DEF Stage
  <2>2. CASE r = Len(chain)
    BY <1>7, <2>2
  <2>3. CASE r # Len(chain)
    <3>1. r + 1 \in Stage /\ r + 1 # n /\ (r + 1) - 1 = r
      BY <1>2, <2>1, <2>3 DEF Stage, n
    <3> QED BY <1>7, <3>1
  <2> QED BY <2>2, <2>3
<1>11. ASSUME NEW r \in Stage
       PROVE  StageOK(chain[r], flow'[r - 1], flow'[r], at'[r], hold'[r], mem'[r], runDone')
  <2>1. CASE r = n
    BY <1>2, <1>7, <1>10, <2>1
  <2>2. CASE r = s
    <3>1. flow'[s - 1] = flow[s - 1] /\ flow'[s] = Append(flow[s], msg) /\ at'[s] = After(s)
          /\ hold'[s] = <<>> /\ mem'[s] = mem[s]
      BY <1>2, <1>6, <1>7
    <3> QED BY <1>1, <1>4, <2>2, <3>1
  <2>3. CASE r # n /\ r # s
    <3>1. /\ flow'[r - 1] = flow[r - 1] /\ flow'[r] = flow[r] /\ at'[r] = at[r]
          /\ hold'[r] = hold[r] /\ mem'[r] = mem[r]
      BY <1>2, <1>6, <1>7, <1>10, <2>3
    <3>2. StageParts(r)
      BY ChainParts
    <3> QED BY <1>1, <3>1, <3>2 DEF StageParts
  <2> QED BY <2>1, <2>2, <2>3
<1>12. StagesTypeOK'
  BY <1>1, <1>7 DEF ChainInv, StagesTypeOK, Memory
<1> QED BY <1>1, <1>9, <1>11, <1>12 DEF ChainInv

LEMMA GivesKeeps == ASSUME ChainInv, Gives PROVE ChainInv'
<1> DEFINE s == Len(chain)
    msg == Head(hold[s])
<1>1. /\ chain' = chain /\ runDone' = runDone /\ failed' = failed /\ fed' = fed /\ mem' = mem
      /\ at[s] = "send" /\ at' = [at EXCEPT ![s] = After(s)] /\ hold' = [hold EXCEPT ![s] = <<>>]
      /\ flow' = [flow EXCEPT ![s] = Append(@, msg)] /\ Stage' = Stage
  BY DEF Gives, Stage
<1>2. s \in Stage /\ s \in Nat /\ s \in 0..Len(chain)
  BY ChainLength
<1>3. Functions /\ StageParts(s)
  BY <1>2, ChainFunctions, ChainParts
<1> HIDE DEF msg
<1>4. /\ msg \in Message
      /\ StageOK(chain[s], flow[s - 1], Append(flow[s], msg), After(s), <<>>, mem[s], runDone)
  <2> DEFINE t == chain[s]
      xs == flow[s - 1]
      ys == flow[s]
      m == mem[s]
      h == hold[s]
  <2>1. t \in Transformer /\ xs \in Seq(Message) /\ ys \in Seq(Message) /\ m \in Memory /\ h \in Seq(Message)
        /\ StageOK(t, xs, ys, "send", h, m, runDone)
    BY <1>1, <1>3 DEF StageParts
  <2> HIDE DEF t, xs, ys, m, h
  <2>2. /\ Head(h) \in Message
        /\ StageOK(t, xs, Append(ys, Head(h)), IF t.kind = "batch" /\ m.n > 0 THEN "ended" ELSE "recv", <<>>, m, runDone)
    BY <2>1, StageGives
  <2> QED BY <2>2 DEF After, t, xs, ys, m, h, msg
<1>5. After(s) \in {"recv", "ended"} /\ Append(flow[s], msg) \in Seq(Message) /\ <<>> \in Seq(Message)
  BY <1>3, <1>4 DEF After, StageParts
<1>6. /\ at' \in [Stage -> {"recv", "send", "err", "ended"}] /\ at'[s] = After(s)
      /\ \A r \in Stage : r # s => at'[r] = at[r]
  BY <1>1, <1>2, <1>3, <1>5 DEF Functions
<1>7. hold' \in [Stage -> Seq(Message)] /\ hold'[s] = <<>> /\ \A r \in Stage : r # s => hold'[r] = hold[r]
  BY <1>1, <1>2, <1>3, <1>5 DEF Functions
<1>8. /\ flow' \in [0..Len(chain) -> Seq(Message)] /\ flow'[s] = Append(flow[s], msg)
      /\ \A r \in 0..Len(chain) : r # s => flow'[r] = flow[r]
  BY <1>1, <1>2, <1>3, <1>5 DEF Functions
<1>9. \A r \in Stage : r - 1 \in 0..Len(chain) /\ r - 1 # s /\ r \in 0..Len(chain)
  BY <1>2 DEF Stage
<1>10. \A r \in Stage : flow'[r - 1] = flow[r - 1] /\ (at'[r] = "err" <=> at[r] = "err")
  BY <1>1, <1>5, <1>6, <1>8, <1>9
<1>11. IsFiniteSet(Failures)' /\ (~runDone' => failed' + Cardinality(Err)' = Cardinality(Failures)')
  BY <1>1, <1>10, CountsStay
<1> HIDE DEF s
<1>12. ASSUME NEW r \in Stage
       PROVE  StageOK(chain[r], flow'[r - 1], flow'[r], at'[r], hold'[r], mem'[r], runDone')
  <2>1. CASE r = s
    BY <1>1, <1>4, <1>6, <1>7, <1>8, <1>10, <2>1
  <2>2. CASE r # s
    <3>1. /\ flow'[r - 1] = flow[r - 1] /\ flow'[r] = flow[r] /\ at'[r] = at[r]
          /\ hold'[r] = hold[r] /\ mem'[r] = mem[r]
      BY <1>1, <1>6, <1>7, <1>8, <1>9, <1>10, <2>2
    <3>2. StageParts(r)
      BY ChainParts
    <3> QED BY <1>1, <3>1, <3>2 DEF StageParts
  <2> QED BY <2>1, <2>2
<1>13. StagesTypeOK'
  BY <1>1, <1>6, <1>7, <1>8 DEF ChainInv, StagesTypeOK, Memory
<1> QED BY <1>1, <1>11, <1>12, <1>13 DEF ChainInv

LEMMA ReportsKeeps == ASSUME ChainInv, NEW s \in Stage, Reports(s) PROVE ChainInv'
<1>1. /\ chain' = chain /\ runDone' = runDone /\ failed' = failed + 1 /\ fed' = fed /\ mem' = mem
      /\ flow' = flow /\ hold' = hold /\ at[s] = "err" /\ at' = [at EXCEPT ![s] = After(s)] /\ Stage' = Stage
  BY DEF Reports, Stage
<1>2. Functions /\ After(s) \in {"recv", "ended"}
  BY ChainFunctions DEF After
<1>3. /\ at' \in [Stage -> {"recv", "send", "err", "ended"}] /\ at'[s] = After(s) /\ at'[s] # "err"
      /\ \A r \in Stage : r # s => at'[r] = at[r]
  BY <1>1, <1>2 DEF Functions
<1>4. Failures' = Failures
  BY <1>1, FailuresStay
<1>5. Err' = Err \ {s} /\ s \in Err
  BY <1>1, <1>3 DEF Err
<1>6. IsFiniteSet(Failures)' /\ (~runDone' => failed' + Cardinality(Err)' = Cardinality(Failures)')
  <2>1. IsFiniteSet(Failures) /\ IsFiniteSet(Err) /\ Cardinality(Err) \in Nat /\ Cardinality(Failures) \in Nat
        /\ failed \in Nat /\ (~runDone => failed + Cardinality(Err) = Cardinality(Failures))
    BY ErrSize DEF ChainInv, StagesTypeOK
  <2>2. Cardinality(Err \ {s}) = Cardinality(Err) - 1
    BY <1>5, <2>1, FS_RemoveElement
  <2> QED BY <1>1, <1>4, <1>5, <2>1, <2>2
<1>7. ASSUME NEW r \in Stage
      PROVE  StageOK(chain[r], flow[r - 1], flow[r], at'[r], hold[r], mem[r], runDone)
  <2>1. StageParts(r)
    BY ChainParts
  <2>2. CASE r = s
    <3> DEFINE t == chain[s]
        xs == flow[s - 1]
        ys == flow[s]
        m == mem[s]
        h == hold[s]
    <3>1. m \in Memory /\ StageOK(t, xs, ys, "err", h, m, runDone)
      BY <1>1, <2>1, <2>2 DEF StageParts
    <3> HIDE DEF t, xs, ys, m, h
    <3>2. StageOK(t, xs, ys, IF t.kind = "batch" /\ m.n > 0 THEN "ended" ELSE "recv", h, m, runDone)
      BY <3>1, StageMoves
    <3> QED BY <1>3, <2>2, <3>2 DEF After, t, xs, ys, m, h
  <2>3. CASE r # s
    BY <1>3, <2>1, <2>3 DEF StageParts
  <2> QED BY <2>2, <2>3
<1>8. StagesTypeOK'
  <2>1. failed' \in Nat
    BY <1>1 DEF ChainInv, StagesTypeOK
  <2> QED BY <1>1, <1>3, <2>1 DEF ChainInv, StagesTypeOK
<1> QED BY <1>1, <1>6, <1>7, <1>8 DEF ChainInv

\* What a stage that saw its input close leaves behind.
Closed(s) ==
  /\ at' \in [Stage -> {"recv", "send", "err", "ended"}]
  /\ hold' \in [Stage -> Seq(Message)] /\ mem' \in [Stage -> Memory]
  /\ \A r \in Stage : r # s => at'[r] = at[r] /\ hold'[r] = hold[r] /\ mem'[r] = mem[r]
  /\ StageOK(chain[s], flow[s - 1], flow[s], at'[s], hold'[s], mem'[s], runDone)
  /\ IsFiniteSet(Failures)' /\ (~runDone' => failed' + Cardinality(Err)' = Cardinality(Failures)')

LEMMA SeesCloseKeeps == ASSUME ChainInv, NEW s \in Stage, SeesClose(s) PROVE ChainInv'
<1>1. /\ chain' = chain /\ runDone' = runDone /\ failed' = failed /\ fed' = fed /\ flow' = flow
      /\ at[s] = "recv" /\ Stage' = Stage
  BY DEF SeesClose, Stage
<1>2. Functions /\ StageParts(s)
  BY ChainFunctions, ChainParts
<1> DEFINE b == Bundle(mem[s].buf)
    kept == [mem[s] EXCEPT !.buf = <<>>, !.n = 1]
    Ad(x) == Adds(chain[s], flow[s - 1], mem[s], flow[s - 1], kept, x)
    OK(p, h, m) == StageOK(chain[s], flow[s - 1], flow[s], p, h, m, runDone)
<1>3. /\ mem[s].buf # <<>> /\ Encodes(mem[s].buf) => b \in Message /\ Ad(FALSE) /\ OK("send", <<b>>, kept)
      /\ mem[s].buf # <<>> /\ ~Encodes(mem[s].buf) => Ad(TRUE) /\ OK("err", hold[s], kept)
      /\ mem[s].buf = <<>> => OK("ended", hold[s], mem[s])
  <2> DEFINE t == chain[s]
      xs == flow[s - 1]
      ys == flow[s]
      m == mem[s]
      h == hold[s]
      k == [m EXCEPT !.buf = <<>>, !.n = 1]
  <2>1. t \in Transformer /\ xs \in Seq(Message) /\ ys \in Seq(Message) /\ m \in Memory /\ h \in Seq(Message)
        /\ StageOK(t, xs, ys, "recv", h, m, runDone)
    BY <1>1, <1>2 DEF StageParts
  <2> HIDE DEF t, xs, ys, m, h
  <2>2. /\ m.buf # <<>> /\ Encodes(m.buf) =>
             /\ Bundle(m.buf) \in Message /\ Adds(t, xs, m, xs, k, FALSE)
             /\ StageOK(t, xs, ys, "send", <<Bundle(m.buf)>>, k, runDone)
        /\ m.buf # <<>> /\ ~Encodes(m.buf) =>
             Adds(t, xs, m, xs, k, TRUE) /\ StageOK(t, xs, ys, "err", h, k, runDone)
        /\ m.buf = <<>> => StageOK(t, xs, ys, "ended", h, m, runDone)
    BY <2>1, StageCloses
  <2> QED BY <2>2 DEF t, xs, ys, m, h
<1>4. kept \in Memory /\ mem \in [Stage -> Memory] /\ hold \in [Stage -> Seq(Message)]
  <2>1. mem[s] \in Memory /\ <<>> \in Seq(Message)
    BY <1>2 DEF StageParts
  <2> QED BY <1>2, <2>1, BufferForms DEF Functions
<1>5. ASSUME mem[s].buf # <<>> PROVE Closed(s)
  <2>1. mem' = [mem EXCEPT ![s] = kept]
    <3>1. mem' = [mem EXCEPT ![s].buf = <<>>, ![s].n = 1]
      BY <1>5 DEF SeesClose
    <3> QED BY <1>4, <3>1
  <2> HIDE DEF b, kept
  <2>2. mem' \in [Stage -> Memory] /\ mem'[s] = kept /\ \A r \in Stage : r # s => mem'[r] = mem[r]
    BY <1>4, <2>1
  <2>3. CASE Encodes(mem[s].buf)
    <3>1. at' = [at EXCEPT ![s] = "send"] /\ hold' = [hold EXCEPT ![s] = <<b>>]
      BY <1>5, <2>3 DEF SeesClose, b
    <3>2. b \in Message /\ Ad(FALSE) /\ OK("send", <<b>>, kept)
      BY <1>3, <1>5, <2>3
    <3>3. <<b>> \in Seq(Message)
      BY <3>2
    <3>4. at' \in [Stage -> {"recv", "send", "err", "ended"}] /\ at'[s] = "send" /\ \A r \in Stage : r # s => at'[r] = at[r]
      BY <1>2, <3>1 DEF Functions
    <3>5. hold' \in [Stage -> Seq(Message)] /\ hold'[s] = <<b>> /\ \A r \in Stage : r # s => hold'[r] = hold[r]
      BY <1>4, <3>1, <3>3
    <3>6. Grows(s, at'[s] = "err")
      <4>1. (at'[s] = "err") = FALSE
        BY <3>4
      <4> QED BY <1>1, <2>2, <3>2, <4>1 DEF Grows
    <3>7. IsFiniteSet(Failures)' /\ (~runDone' => failed' + Cardinality(Err)' = Cardinality(Failures)')
      BY <1>1, <3>4, <3>6, StepCounts
    <3> QED BY <2>2, <3>2, <3>4, <3>5, <3>7 DEF Closed
  <2>4. CASE ~Encodes(mem[s].buf)
    <3>1. at' = [at EXCEPT ![s] = "err"] /\ hold' = hold
      BY <1>5, <2>4 DEF SeesClose
    <3>2. Ad(TRUE) /\ OK("err", hold[s], kept)
      BY <1>3, <1>5, <2>4
    <3>3. at' \in [Stage -> {"recv", "send", "err", "ended"}] /\ at'[s] = "err" /\ \A r \in Stage : r # s => at'[r] = at[r]
      BY <1>2, <3>1 DEF Functions
    <3>4. Grows(s, at'[s] = "err")
      <4>1. (at'[s] = "err") = TRUE
        BY <3>3
      <4> QED BY <1>1, <2>2, <3>2, <4>1 DEF Grows
    <3>5. IsFiniteSet(Failures)' /\ (~runDone' => failed' + Cardinality(Err)' = Cardinality(Failures)')
      BY <1>1, <3>3, <3>4, StepCounts
    <3> QED BY <1>4, <2>2, <3>1, <3>2, <3>3, <3>5 DEF Closed
  <2> QED BY <2>3, <2>4
<1>6. ASSUME mem[s].buf = <<>> PROVE Closed(s)
  <2>1. at' = [at EXCEPT ![s] = "ended"] /\ hold' = hold /\ mem' = mem
    BY <1>6 DEF SeesClose
  <2>2. at' \in [Stage -> {"recv", "send", "err", "ended"}] /\ at'[s] = "ended" /\ \A r \in Stage : r # s => at'[r] = at[r]
    BY <1>2, <2>1 DEF Functions
  <2>3. \A r \in Stage : at'[r] = "err" <=> at[r] = "err"
    BY <1>1, <2>2
  <2>4. IsFiniteSet(Failures)' /\ (~runDone' => failed' + Cardinality(Err)' = Cardinality(Failures)')
    BY <1>1, <2>1, <2>3, CountsStay
  <2>5. OK("ended", hold[s], mem[s])
    BY <1>3, <1>6
  <2> QED BY <1>4, <2>1, <2>2, <2>4, <2>5 DEF Closed
<1>9. Closed(s)
  BY <1>5, <1>6
<1>7. ASSUME NEW r \in Stage
      PROVE  StageOK(chain[r], flow[r - 1], flow[r], at'[r], hold'[r], mem'[r], runDone)
  <2>1. StageParts(r)
    BY ChainParts
  <2>2. CASE r = s
    BY <1>9, <2>2 DEF Closed
  <2>3. CASE r # s
    BY <1>9, <2>1, <2>3 DEF StageParts, Closed
  <2> QED BY <2>2, <2>3
<1>8. StagesTypeOK'
  BY <1>1, <1>9 DEF Closed, ChainInv, StagesTypeOK, Memory
<1> QED BY <1>1, <1>7, <1>8, <1>9 DEF Closed, ChainInv

LEMMA CancelKeeps == ASSUME ChainInv, NEW s \in Stage, StageCancelled(s) PROVE ChainInv'
<1>1. /\ chain' = chain /\ runDone' = runDone /\ failed' = failed /\ fed' = fed /\ mem' = mem /\ runDone
      /\ flow' = flow /\ hold' = hold /\ at' = [at EXCEPT ![s] = "ended"] /\ Stage' = Stage
  BY DEF StageCancelled, Stage
<1>2. Functions
  BY ChainFunctions
<1>3. /\ at' \in [Stage -> {"recv", "send", "err", "ended"}] /\ at'[s] = "ended"
      /\ \A r \in Stage : r # s => at'[r] = at[r]
  BY <1>1, <1>2 DEF Functions
<1>4. Failures' = Failures
  BY <1>1, FailuresStay
<1>5. IsFiniteSet(Failures)' /\ (~runDone' => failed' + Cardinality(Err)' = Cardinality(Failures)')
  BY <1>1, <1>4 DEF ChainInv
<1>6. ASSUME NEW r \in Stage
      PROVE  StageOK(chain[r], flow[r - 1], flow[r], at'[r], hold[r], mem[r], runDone)
  <2>1. StageParts(r)
    BY ChainParts
  <2>2. CASE r = s
    BY <1>1, <1>3, <2>1, <2>2, StageMoves DEF StageParts
  <2>3. CASE r # s
    BY <1>3, <2>1, <2>3 DEF StageParts
  <2> QED BY <2>2, <2>3
<1>7. StagesTypeOK'
  BY <1>1, <1>3 DEF ChainInv, StagesTypeOK
<1> QED BY <1>1, <1>5, <1>6, <1>7 DEF ChainInv

LEMMA EndRunKeeps == ASSUME ChainInv, StagesCancelled PROVE ChainInv'
<1>1. /\ chain' = chain /\ runDone' = TRUE /\ failed' = failed /\ fed' = fed /\ mem' = mem
      /\ flow' = flow /\ hold' = hold /\ at' = at /\ Stage' = Stage
  BY DEF StagesCancelled, EndRun, Stage
<1>2. Failures' = Failures
  BY <1>1, FailuresStay
<1>3. IsFiniteSet(Failures)' /\ (~runDone' => failed' + Cardinality(Err)' = Cardinality(Failures)')
  BY <1>1, <1>2 DEF ChainInv
<1>4. ASSUME NEW r \in Stage
      PROVE  StageOK(chain[r], flow[r - 1], flow[r], at[r], hold[r], mem[r], TRUE)
  BY ChainParts, StageMoves DEF StageParts
<1>5. StagesTypeOK'
  BY <1>1 DEF ChainInv, StagesTypeOK
<1> QED BY <1>1, <1>3, <1>4, <1>5 DEF ChainInv

LEMMA QuietKeeps ==
  ASSUME ChainInv, UNCHANGED <<runDone, chain, flow, at, hold, mem, failed>>, fed' \in BOOLEAN
  PROVE  ChainInv'
<1>1. StagesTypeOK'
  BY DEF ChainInv, StagesTypeOK, Stage
<1>2. Failures' = Failures /\ Err' = Err /\ Stage' = Stage
  BY DEF Failures, Err, Stage
<1> QED BY <1>1, <1>2 DEF ChainInv

\* Every stage of a chain gives, message by message, what its reference owes
\* for what it took, with at most one message in its hand and a memory that is
\* enough to go on; a chain that was not cancelled ends with nothing held or
\* buffered, and with one error received for every message it failed on.
THEOREM StageInvHolds == StagesSpec => []StageInv
<1>1. StagesInit => ChainInv
  BY InitHolds
<1>2. ChainInv /\ [StagesNext]_stageVars => ChainInv'
  <2> SUFFICES ASSUME ChainInv, [StagesNext]_stageVars PROVE ChainInv'
    OBVIOUS
  <2>1. CASE FeedsMessage
    BY <2>1, FeedsMessageKeeps
  <2>2. CASE Gives
    BY <2>2, GivesKeeps
  <2>3. CASE CloseInput
    BY <2>3, QuietKeeps DEF CloseInput
  <2>4. CASE StagesCancelled
    BY <2>4, EndRunKeeps
  <2>5. ASSUME NEW s \in Stage, Passes(s) PROVE ChainInv'
    BY <2>5, PassesKeeps
  <2>6. ASSUME NEW s \in Stage, Reports(s) PROVE ChainInv'
    BY <2>6, ReportsKeeps
  <2>7. ASSUME NEW s \in Stage, SeesClose(s) PROVE ChainInv'
    BY <2>7, SeesCloseKeeps
  <2>8. ASSUME NEW s \in Stage, StageCancelled(s) PROVE ChainInv'
    BY <2>8, CancelKeeps
  <2>9. CASE UNCHANGED stageVars
    <3>1. fed' \in BOOLEAN
      BY <2>9 DEF stageVars, stagesState, ChainInv, StagesTypeOK
    <3> QED BY <2>9, <3>1, QuietKeeps DEF stageVars, stagesState
  <2> QED BY <2>1, <2>2, <2>3, <2>4, <2>5, <2>6, <2>7, <2>8, <2>9 DEF StagesNext
<1> QED BY <1>1, <1>2, ChainInvMeans, PTL DEF StagesSpec

=============================================================================
