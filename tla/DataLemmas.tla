----------------------------- MODULE DataLemmas ------------------------------
(***************************************************************************)
(* Lemmas about data that several proofs share: induction over a set of    *)
(* numbers, sequences that grow by one, and flattened sequences.           *)
(***************************************************************************)
EXTENDS Integers, Sequences, SequencesExt, SequenceTheorems, WellFoundedInduction, TLAPS

(* Induction over the natural numbers, for a set.                          *)

LEMMA Induct ==
  ASSUME NEW T \in SUBSET Nat, 0 \in T, \A n \in T : n + 1 \in T
  PROVE  T = Nat
<1> DEFINE B == Nat \ T
<1>1. ASSUME B # {} PROVE FALSE
  <2>1. B \subseteq Nat
    OBVIOUS
  <2> HIDE DEF B
  <2>2. PICK n \in B : \A m \in B : ~(<<m, n>> \in OpToRel(<, Nat))
    BY <1>1, <2>1, NatLessThanWellFounded, WFMin
  <2>3. n \in Nat /\ n \notin T /\ n # 0
    BY <2>1 DEF B
  <2>4. n - 1 \in Nat /\ (n - 1) + 1 = n /\ n - 1 < n
    BY <2>3
  <2>5. n - 1 \notin T
    BY <2>3, <2>4
  <2>6. n - 1 \in B
    BY <2>4, <2>5 DEF B
  <2>7. <<n - 1, n>> \in OpToRel(<, Nat)
    BY <2>3, <2>4 DEF OpToRel
  <2>8. QED BY <2>2, <2>6, <2>7
<1>2. QED BY <1>1

\* One more entry of a sequence.
LEMMA OneMore ==
  ASSUME NEW T, NEW xs \in Seq(T), NEW x \in T
  PROVE  /\ Append(xs, x) \in Seq(T) /\ Len(Append(xs, x)) = Len(xs) + 1 /\ Len(xs) \in Nat
         /\ DOMAIN xs = 1..Len(xs) /\ DOMAIN Append(xs, x) = 1..(Len(xs) + 1)
         /\ Append(xs, x)[Len(xs) + 1] = x
         /\ \A i \in 1..Len(xs) : Append(xs, x)[i] = xs[i] /\ xs[i] \in T
OBVIOUS

-----------------------------------------------------------------------------
(* FlattenSeq, by its recursion.                                           *)

Flattens(g, ss, k) == g = [i \in 1..k |-> IF i = 1 THEN ss[i] ELSE g[i - 1] \o ss[i]]

LEMMA FlattenSteps ==
  ASSUME NEW ss, Len(ss) \in Nat, Len(ss) # 0
  PROVE  \E g : Flattens(g, ss, Len(ss)) /\ FlattenSeq(ss) = g[Len(ss)]
<1> DEFINE T == {k \in Nat : \E g : Flattens(g, ss, k)}
<1>1. 0 \in T
  <2> DEFINE g == [i \in 1..0 |-> ss[i]]
  <2>1. Flattens(g, ss, 0)
    BY DEF Flattens
  <2> QED BY <2>1
<1>2. \A k \in T : k + 1 \in T
  <2> SUFFICES ASSUME NEW k \in T PROVE \E h : Flattens(h, ss, k + 1)
    OBVIOUS
  <2>1. PICK g : Flattens(g, ss, k)
    OBVIOUS
  <2> DEFINE h == [i \in 1..(k + 1) |-> IF i <= k THEN g[i]
                                        ELSE IF i = 1 THEN ss[i] ELSE g[k] \o ss[i]]
  <2>2. \A i \in 1..k : h[i] = g[i] /\ i \in 1..(k + 1)
    OBVIOUS
  <2>3. \A i \in 1..(k + 1) : h[i] = IF i = 1 THEN ss[i] ELSE h[i - 1] \o ss[i]
    <3> SUFFICES ASSUME NEW i \in 1..(k + 1)
                 PROVE  h[i] = IF i = 1 THEN ss[i] ELSE h[i - 1] \o ss[i]
      OBVIOUS
    <3>1. CASE i <= k
      <4>1. h[i] = g[i]
        BY <3>1
      <4>2. g[i] = IF i = 1 THEN ss[i] ELSE g[i - 1] \o ss[i]
        <5>1. i \in 1..k
          BY <3>1
        <5> HIDE DEF h
        <5> QED BY <2>1, <5>1 DEF Flattens
      <4>3. i # 1 => h[i - 1] = g[i - 1]
        BY <3>1
      <4> HIDE DEF h
      <4> QED BY <4>1, <4>2, <4>3
    <3>2. CASE ~(i <= k)
      <4>1. i = k + 1 /\ i - 1 = k
        BY <3>2
      <4>2. h[i] = IF i = 1 THEN ss[i] ELSE g[k] \o ss[i]
        BY <3>2
      <4>3. i # 1 => h[i - 1] = g[k]
        BY <4>1
      <4> HIDE DEF h
      <4> QED BY <4>1, <4>2, <4>3
    <3> QED BY <3>1, <3>2
  <2>4. h = [i \in 1..(k + 1) |-> h[i]]
    OBVIOUS
  <2> HIDE DEF h
  <2>5. Flattens(h, ss, k + 1)
    BY <2>3, <2>4 DEF Flattens
  <2> QED BY <2>5
<1>3. T = Nat
  <2> HIDE DEF T
  <2>1. T \in SUBSET Nat
    BY DEF T
  <2> QED BY <1>1, <1>2, <2>1, Induct
<1>4. \E g : Flattens(g, ss, Len(ss))
  BY <1>3
<1> DEFINE flat == CHOOSE g : g = [i \in 1..Len(ss) |-> IF i = 1 THEN ss[i] ELSE g[i - 1] \o ss[i]]
<1>5. Flattens(flat, ss, Len(ss))
  BY <1>4 DEF Flattens
<1>6. FlattenSeq(ss) = flat[Len(ss)]
  BY DEF FlattenSeq
<1> HIDE DEF flat
<1> QED BY <1>5, <1>6

LEMMA FlattenEmpty == FlattenSeq(<<>>) = <<>>
BY DEF FlattenSeq

\* One more sequence goes behind the others.
LEMMA FlattenAppend ==
  ASSUME NEW T, NEW ss \in Seq(Seq(T)), NEW s \in Seq(T)
  PROVE  FlattenSeq(Append(ss, s)) = FlattenSeq(ss) \o s
<1> DEFINE tt == Append(ss, s)
    n == Len(ss)
<1>1. n \in Nat /\ Len(tt) = n + 1 /\ tt[n + 1] = s /\ \A i \in 1..n : tt[i] = ss[i]
  BY OneMore
<1> HIDE DEF tt
<1>2. PICK h : Flattens(h, tt, n + 1) /\ FlattenSeq(tt) = h[n + 1]
  BY <1>1, FlattenSteps
<1>3. CASE n = 0
  <2>1. FlattenSeq(ss) = <<>>
    BY <1>3, FlattenEmpty
  <2>2. h[n + 1] = s
    BY <1>1, <1>2, <1>3 DEF Flattens
  <2> QED BY <1>2, <2>1, <2>2 DEF tt
<1>4. CASE n # 0
  <2>1. PICK g : Flattens(g, ss, n) /\ FlattenSeq(ss) = g[n]
    BY <1>1, <1>4, FlattenSteps
  <2> DEFINE A == {k \in Nat : k \in 1..n => h[k] = g[k]}
  <2>2. 0 \in A
    OBVIOUS
  <2>3. \A k \in A : k + 1 \in A
    <3> SUFFICES ASSUME NEW k \in A, k + 1 \in 1..n PROVE h[k + 1] = g[k + 1]
      <4>1. \A k \in A : k + 1 \in Nat
        OBVIOUS
      <4> QED BY <4>1
    <3>1. k + 1 \in 1..(n + 1) /\ (k + 1) - 1 = k /\ k \in Nat /\ (k = 0 \/ k \in 1..n)
      BY <1>1
    <3>2. h[k + 1] = IF k + 1 = 1 THEN tt[k + 1] ELSE h[k] \o tt[k + 1]
      BY <1>2, <3>1 DEF Flattens
    <3>3. g[k + 1] = IF k + 1 = 1 THEN ss[k + 1] ELSE g[k] \o ss[k + 1]
      BY <2>1, <3>1 DEF Flattens
    <3>4. tt[k + 1] = ss[k + 1]
      BY <1>1
    <3>5. k # 0 => h[k] = g[k]
      BY <3>1
    <3> HIDE DEF A, n
    <3> QED BY <3>1, <3>2, <3>3, <3>4, <3>5
  <2>4. A = Nat
    <3> HIDE DEF A
    <3>1. A \in SUBSET Nat
      BY DEF A
    <3> QED BY <2>2, <2>3, <3>1, Induct
  <2>5. h[n] = g[n]
    BY <1>1, <1>4, <2>4
  <2>6. h[n + 1] = h[n] \o tt[n + 1]
    <3>1. n + 1 \in 1..(n + 1) /\ n + 1 # 1 /\ (n + 1) - 1 = n
      BY <1>1, <1>4
    <3> HIDE DEF n
    <3> QED BY <1>2, <3>1 DEF Flattens
  <2> QED BY <1>1, <1>2, <2>1, <2>5, <2>6 DEF tt
<1> QED BY <1>3, <1>4

\* Flattened sequences are sequences.
LEMMA FlattenType ==
  ASSUME NEW T, NEW ss \in Seq(Seq(T))
  PROVE  FlattenSeq(ss) \in Seq(T)
<1> DEFINE n == Len(ss)
<1>1. n \in Nat /\ \A i \in 1..n : ss[i] \in Seq(T)
  OBVIOUS
<1>2. CASE n = 0
  <2>1. ss = <<>>
    BY <1>2, EmptySeq
  <2>2. <<>> \in Seq(T)
    OBVIOUS
  <2> QED BY <2>1, <2>2, FlattenEmpty
<1>3. CASE n # 0
  <2>1. PICK g : Flattens(g, ss, n) /\ FlattenSeq(ss) = g[n]
    BY <1>1, <1>3, FlattenSteps
  <2> DEFINE A == {k \in Nat : k \in 1..n => g[k] \in Seq(T)}
  <2>2. 0 \in A
    OBVIOUS
  <2>3. \A k \in A : k + 1 \in A
    <3> SUFFICES ASSUME NEW k \in A, k + 1 \in 1..n PROVE g[k + 1] \in Seq(T)
      <4>1. \A k \in A : k + 1 \in Nat
        OBVIOUS
      <4> QED BY <4>1
    <3>1. (k + 1) - 1 = k /\ k \in Nat /\ (k = 0 \/ k \in 1..n)
      BY <1>1
    <3>2. g[k + 1] = IF k + 1 = 1 THEN ss[k + 1] ELSE g[k] \o ss[k + 1]
      BY <2>1, <3>1 DEF Flattens
    <3>3. ss[k + 1] \in Seq(T)
      BY <1>1
    <3>4. k # 0 => g[k] \in Seq(T)
      BY <3>1
    <3> HIDE DEF A, n
    <3>5. CASE k = 0
      BY <3>2, <3>3, <3>5
    <3>6. CASE k # 0
      <4>1. g[k] \o ss[k + 1] \in Seq(T)
        BY <3>3, <3>4, <3>6, ConcatProperties
      <4> QED BY <3>1, <3>2, <3>6, <4>1
    <3> QED BY <3>5, <3>6
  <2>4. A = Nat
    <3> HIDE DEF A
    <3>1. A \in SUBSET Nat
      BY DEF A
    <3> QED BY <2>2, <2>3, <3>1, Induct
  <2> QED BY <1>1, <1>3, <2>1, <2>4
<1> QED BY <1>2, <1>3

-----------------------------------------------------------------------------
(* Parts of a sequence.                                                    *)

LEMMA SubSeqForms ==
  ASSUME NEW T, NEW xs \in Seq(T), NEW a \in Nat \ {0}, NEW b \in Nat, b <= Len(xs), a <= b + 1
  PROVE  /\ SubSeq(xs, a, b) \in Seq(T) /\ Len(SubSeq(xs, a, b)) = b + 1 - a
         /\ \A i \in 1..(b + 1 - a) : SubSeq(xs, a, b)[i] = xs[a + i - 1]
<1>1. SubSeq(xs, a, b) = [i \in 1..(b + 1 - a) |-> xs[a + i - 1]]
  BY DEF SubSeq
<1>2. b + 1 - a \in Nat /\ \A i \in 1..(b + 1 - a) : a + i - 1 \in 1..Len(xs)
  OBVIOUS
<1>3. SubSeq(xs, a, b) \in [1..(b + 1 - a) -> T]
  BY <1>1, <1>2
<1>4. SubSeq(xs, a, b) \in Seq(T)
  BY <1>2, <1>3, SeqDef
<1>5. Len(SubSeq(xs, a, b)) = b + 1 - a
  BY <1>2, <1>3, <1>4, LenProperties
<1> QED BY <1>1, <1>4, <1>5

\* Two sequences are the same when they are so entry by entry.
LEMMA SameSeq ==
  ASSUME NEW T, NEW xs \in Seq(T), NEW ys \in Seq(T), Len(xs) = Len(ys),
         \A i \in 1..Len(xs) : xs[i] = ys[i]
  PROVE  xs = ys
BY SeqEqual

\* The parts of a sequence that grew at its end.
LEMMA SubSeqOfMore ==
  ASSUME NEW T, NEW xs \in Seq(T), NEW x \in T, NEW a \in Nat \ {0}
  PROVE  /\ \A b \in 0..Len(xs) : a <= b + 1 => SubSeq(Append(xs, x), a, b) = SubSeq(xs, a, b)
         /\ a <= Len(xs) + 1 =>
              SubSeq(Append(xs, x), a, Len(xs) + 1) = Append(SubSeq(xs, a, Len(xs)), x)
<1> DEFINE n == Len(xs)
    ys == Append(xs, x)
<1>1. n \in Nat /\ ys \in Seq(T) /\ Len(ys) = n + 1 /\ ys[n + 1] = x /\ \A i \in 1..n : ys[i] = xs[i]
  BY OneMore
<1> HIDE DEF ys
<1>2. ASSUME NEW b \in 0..n, a <= b + 1 PROVE SubSeq(ys, a, b) = SubSeq(xs, a, b)
  <2>1. b \in Nat /\ b <= Len(xs) /\ b <= Len(ys)
    BY <1>1
  <2>2. /\ SubSeq(xs, a, b) \in Seq(T) /\ Len(SubSeq(xs, a, b)) = b + 1 - a
        /\ \A i \in 1..(b + 1 - a) : SubSeq(xs, a, b)[i] = xs[a + i - 1]
    BY <1>2, <2>1, SubSeqForms
  <2>3. /\ SubSeq(ys, a, b) \in Seq(T) /\ Len(SubSeq(ys, a, b)) = b + 1 - a
        /\ \A i \in 1..(b + 1 - a) : SubSeq(ys, a, b)[i] = ys[a + i - 1]
    BY <1>1, <1>2, <2>1, SubSeqForms
  <2>4. \A i \in 1..(b + 1 - a) : a + i - 1 \in 1..n
    BY <1>1, <1>2
  <2>5. \A i \in 1..(b + 1 - a) : ys[a + i - 1] = xs[a + i - 1]
    BY <1>1, <2>4
  <2> QED BY <2>2, <2>3, <2>5, SameSeq
<1>3. ASSUME a <= n + 1 PROVE SubSeq(ys, a, n + 1) = Append(SubSeq(xs, a, n), x)
  <2> DEFINE k == n + 1 - a
      head == SubSeq(xs, a, n)
      whole == SubSeq(ys, a, n + 1)
  <2>1. k \in Nat /\ n + 1 \in Nat /\ (n + 1) + 1 - a = k + 1 /\ a <= (n + 1) + 1
    BY <1>1, <1>3
  <2>2. head \in Seq(T) /\ Len(head) = k /\ \A i \in 1..k : head[i] = xs[a + i - 1]
    BY <1>1, <1>3, SubSeqForms
  <2>3. whole \in Seq(T) /\ Len(whole) = k + 1 /\ \A i \in 1..(k + 1) : whole[i] = ys[a + i - 1]
    BY <1>1, <2>1, SubSeqForms
  <2>4. (\A i \in 1..k : a + i - 1 \in 1..n) /\ a + (k + 1) - 1 = n + 1
        /\ k + 1 \in 1..(k + 1) /\ \A i \in 1..(k + 1) : i = k + 1 \/ i \in 1..k
    BY <1>1, <1>3
  <2> HIDE DEF k, head, whole, n
  <2>5. Append(head, x) \in Seq(T) /\ Len(Append(head, x)) = k + 1 /\ Append(head, x)[k + 1] = x
        /\ \A i \in 1..k : Append(head, x)[i] = head[i]
    BY <2>2, OneMore
  <2>6. ASSUME NEW i \in 1..(k + 1) PROVE whole[i] = Append(head, x)[i]
    <3>1. CASE i = k + 1
      BY <1>1, <2>3, <2>4, <2>5, <3>1
    <3>2. CASE i \in 1..k
      BY <1>1, <2>2, <2>3, <2>4, <2>5, <3>2
    <3> QED BY <2>4, <3>1, <3>2
  <2>7. whole = Append(head, x)
    BY <2>3, <2>5, <2>6, SameSeq
  <2> QED BY <2>7 DEF whole, head
<1> QED BY <1>2, <1>3 DEF ys

-----------------------------------------------------------------------------
(* Prefixes.                                                               *)

\* A prefix, read element by element.
LEMMA PrefixMeans ==
  ASSUME NEW S, NEW s \in Seq(S), NEW t \in Seq(S)
  PROVE  IsPrefix(s, t) <=> /\ Len(s) <= Len(t)
                            /\ \A i \in 1..Len(s) : s[i] = t[i]
<1>1. ASSUME Len(s) <= Len(t)
      PROVE  SubSeq(s, 1, Len(s)) = SubSeq(t, 1, Len(s))
               <=> \A i \in 1..Len(s) : s[i] = t[i]
  <2>1. /\ SubSeq(s, 1, Len(s)) \in Seq(S) /\ SubSeq(t, 1, Len(s)) \in Seq(S)
        /\ Len(SubSeq(s, 1, Len(s))) = Len(s) /\ Len(SubSeq(t, 1, Len(s))) = Len(s)
        /\ \A i \in 1..Len(s) : SubSeq(s, 1, Len(s))[i] = s[i]
        /\ \A i \in 1..Len(s) : SubSeq(t, 1, Len(s))[i] = t[i]
    BY <1>1
  <2>2. QED BY <2>1, SeqEqual
<1>2. QED BY <1>1 DEF IsPrefix

\* What is before the message appended last.
LEMMA FrontOfAppend ==
  ASSUME NEW S, NEW s \in Seq(S), NEW m \in S
  PROVE  /\ Append(s, m) \in Seq(S) /\ Append(s, m) # <<>>
         /\ Front(Append(s, m)) = s
<1>1. Append(s, m) \in Seq(S) /\ Len(Append(s, m)) = Len(s) + 1
  OBVIOUS
<1>2. Append(s, m) # <<>>
  BY AppendProperties
<1>3. Front(Append(s, m)) = s
  BY <1>1, SeqEqual DEF Front
<1>4. QED BY <1>1, <1>2, <1>3

\* A sequence is what is before its last message, and that message.
LEMMA FrontThenLast ==
  ASSUME NEW S, NEW s \in Seq(S), s # <<>>
  PROVE  /\ Last(s) \in S /\ Front(s) \in Seq(S)
         /\ Append(Front(s), Last(s)) = s
<1>1. Len(s) \in Nat \ {0}
  OBVIOUS
<1>2. Last(s) \in S
  BY <1>1, ElementOfSeq DEF Last
<1>3. Front(s) \in Seq(S) /\ Len(Front(s)) = Len(s) - 1
  <2> DEFINE n == Len(s) - 1
  <2>1. n \in Nat /\ 1 \in Int /\ \A i \in 1..n : s[i] \in S
    BY <1>1, ElementOfSeq
  <2> HIDE DEF n
  <2>2. SubSeq(s, 1, n) \in Seq(S) /\ Len(SubSeq(s, 1, n)) = n
    BY <2>1, SubSeqProperties
  <2>3. QED BY <2>2 DEF Front, n
<1>4. \A i \in 1..(Len(s) - 1) : Front(s)[i] = s[i]
  BY <1>1 DEF Front
<1>5. Append(Front(s), Last(s)) = s
  BY <1>1, <1>2, <1>3, <1>4, SeqEqual DEF Last
<1>6. QED BY <1>2, <1>3, <1>5

\* A prefix stays one when the longer sequence grows.
LEMMA PrefixGrows ==
  ASSUME NEW S, NEW s \in Seq(S), NEW t \in Seq(S)
  PROVE  /\ IsPrefix(s, s)
         /\ \A m \in S : IsPrefix(s, t) => IsPrefix(s, Append(t, m))
<1>1. IsPrefix(s, s)
  BY PrefixMeans
<1>2. ASSUME NEW m \in S, IsPrefix(s, t)
      PROVE  IsPrefix(s, Append(t, m))
  <2>1. Append(t, m) \in Seq(S) /\ Len(Append(t, m)) = Len(t) + 1
        /\ \A i \in 1..Len(t) : Append(t, m)[i] = t[i]
    BY AppendProperties
  <2>2. Len(s) <= Len(t) /\ \A i \in 1..Len(s) : s[i] = t[i]
    BY <1>2, PrefixMeans
  <2>3. /\ Len(s) <= Len(Append(t, m))
        /\ \A i \in 1..Len(s) : s[i] = Append(t, m)[i]
    BY <2>1, <2>2
  <2>4. \A u \in Seq(S) :
          Len(s) <= Len(u) /\ (\A i \in 1..Len(s) : s[i] = u[i]) => IsPrefix(s, u)
    BY PrefixMeans
  <2>5. QED BY <2>1, <2>3, <2>4
<1>3. QED BY <1>1, <1>2

-----------------------------------------------------------------------------
(* The groups of a sequence, size elements each: where they start.         *)

LEMMA Offsets ==
  ASSUME NEW size \in Nat, size >= 1, NEW k \in Nat
  PROVE  /\ size * ((k + 1) - 1) = size * k /\ size * (k + 1) = size * k + size /\ size * k \in Nat
         /\ \A i \in 1..k : size * (i - 1) \in Nat /\ size * (i - 1) + size <= size * k
<1>1. \A i, j \in Nat : size * i \in Nat /\ size * (i + j) = size * i + size * j
  OBVIOUS
<1>2. size * 1 = size
  OBVIOUS
<1>3. ASSUME NEW i \in 1..k PROVE size * (i - 1) \in Nat /\ size * (i - 1) + size <= size * k
  <2> DEFINE p == i - 1
      q == k - i
  <2>1. p \in Nat /\ q \in Nat /\ k = (p + 1) + q /\ p + 1 \in Nat
    OBVIOUS
  <2> HIDE DEF p, q
  <2>2. size * k = (size * p + size) + size * q
    <3>1. size * ((p + 1) + q) = size * (p + 1) + size * q
      BY <1>1, <2>1
    <3>2. size * (p + 1) = size * p + size * 1
      BY <1>1, <2>1
    <3> QED BY <1>2, <2>1, <3>1, <3>2
  <2>3. size * p \in Nat /\ size * q \in Nat
    BY <1>1, <2>1
  <2>4. size * p + size <= size * k
    <3> DEFINE a == size * p
        b == size * q
    <3>1. a \in Nat /\ b \in Nat /\ size * k = (a + size) + b
      BY <2>2, <2>3
    <3> HIDE DEF a, b
    <3>2. a + size <= (a + size) + b
      BY <3>1
    <3> QED BY <3>1, <3>2 DEF a
  <2> QED BY <2>3, <2>4 DEF p
<1>4. (k + 1) - 1 = k /\ size * (k + 1) = size * k + size
  <2>1. size * (k + 1) = size * k + size * 1
    BY <1>1
  <2> QED BY <1>2, <2>1
<1> QED BY <1>1, <1>3, <1>4

=============================================================================
