--------------------------- MODULE Imports_proofs ---------------------------
(***************************************************************************)
(* The invariant of the two walks over .psy files, for any files, any      *)
(* content they may have, and any plugins.                                 *)
(***************************************************************************)
EXTENDS Imports, DataLemmas, FiniteSetTheorems

\* A function with one more entry.
LEMMA Extended ==
  ASSUME NEW g, NEW x, NEW v
  PROVE  /\ DOMAIN With(g, x, v) = DOMAIN g \union {x}
         /\ With(g, x, v)[x] = v
         /\ \A y \in DOMAIN g : y # x => With(g, x, v)[y] = g[y]
BY DEF With

-----------------------------------------------------------------------------
(* The plugin specs of the files.                                          *)

\* The recursion of DeclareAll has a solution.
LEMMA DeclareAllSteps ==
  ASSUME NEW state, NEW specs, Len(specs) \in Nat
  PROVE  \E after :
            /\ after = [n \in 0..Len(specs) |->
                          IF n = 0 THEN state ELSE Declare(after[n - 1], specs[n])]
            /\ DeclareAll(state, specs) = after[Len(specs)]
<1> DEFINE Solves(g, k) ==
      g = [n \in 0..k |-> IF n = 0 THEN state ELSE Declare(g[n - 1], specs[n])]
    T == {k \in Nat : \E g : Solves(g, k)}
<1>1. 0 \in T
  <2> DEFINE g == [n \in 0..0 |-> state]
  <2>1. Solves(g, 0)
    OBVIOUS
  <2> QED BY <2>1
<1>2. \A k \in T : k + 1 \in T
  <2> SUFFICES ASSUME NEW k \in T PROVE \E h : Solves(h, k + 1)
    OBVIOUS
  <2>1. PICK g : Solves(g, k)
    OBVIOUS
  <2> DEFINE h == [n \in 0..(k + 1) |-> IF n <= k THEN g[n] ELSE Declare(g[k], specs[n])]
  <2>2. \A n \in 0..k : h[n] = g[n] /\ n \in 0..(k + 1)
    OBVIOUS
  <2>3. \A n \in 0..(k + 1) : h[n] = IF n = 0 THEN state ELSE Declare(h[n - 1], specs[n])
    <3> SUFFICES ASSUME NEW n \in 0..(k + 1)
                 PROVE  h[n] = IF n = 0 THEN state ELSE Declare(h[n - 1], specs[n])
      OBVIOUS
    <3>1. CASE n <= k
      <4>1. h[n] = g[n]
        BY <3>1
      <4>2. g[n] = IF n = 0 THEN state ELSE Declare(g[n - 1], specs[n])
        BY <2>1, <3>1
      <4>3. n # 0 => h[n - 1] = g[n - 1]
        BY <3>1
      <4> HIDE DEF h
      <4> QED BY <4>1, <4>2, <4>3
    <3>2. CASE ~(n <= k)
      <4>1. n = k + 1 /\ n # 0 /\ n - 1 = k
        BY <3>2
      <4>2. h[n] = Declare(g[k], specs[n])
        BY <3>2
      <4>3. h[n - 1] = g[k]
        BY <4>1
      <4> HIDE DEF h
      <4> QED BY <4>1, <4>2, <4>3
    <3> QED BY <3>1, <3>2
  <2>4. h = [n \in 0..(k + 1) |-> h[n]]
    OBVIOUS
  <2> HIDE DEF h
  <2>5. Solves(h, k + 1)
    BY <2>3, <2>4
  <2> QED BY <2>5
<1>3. T = Nat
  <2> HIDE DEF T
  <2>1. T \in SUBSET Nat
    BY DEF T
  <2> QED BY <1>1, <1>2, <2>1, Induct
<1>4. \E g : Solves(g, Len(specs))
  BY <1>3
<1> DEFINE after == CHOOSE g : Solves(g, Len(specs))
<1>5. Solves(after, Len(specs))
  BY <1>4
<1>6. DeclareAll(state, specs) = after[Len(specs)]
  BY DEF DeclareAll
<1> HIDE DEF after
<1> QED BY <1>5, <1>6

\* What FoundIsDeclared says of the specs of the files so far.
Consistent(d, fo) ==
  /\ fo \in Seq(PluginBlock) /\ DOMAIN d = {fo[i].name : i \in DOMAIN fo}
  /\ \A i \in DOMAIN fo : d[fo[i].name] = fo[i]
  /\ \A i, j \in DOMAIN fo : fo[i].name = fo[j].name => i = j

\* Two specs among these have one name and differ.
Clash(specs) == \E s, t \in specs : s # t /\ s.name = t.name

LEMMA AppendRange ==
  ASSUME NEW S, NEW fo \in Seq(S), NEW s \in S
  PROVE  /\ Append(fo, s) \in Seq(S) /\ Range(Append(fo, s)) = Range(fo) \union {s}
         /\ DOMAIN Append(fo, s) = 1..(Len(fo) + 1) /\ DOMAIN fo = 1..Len(fo) /\ Len(fo) \in Nat
         /\ \A i \in 1..Len(fo) : Append(fo, s)[i] = fo[i]
         /\ Append(fo, s)[Len(fo) + 1] = s
<1>1. /\ Append(fo, s) \in Seq(S) /\ Len(fo) \in Nat /\ DOMAIN fo = 1..Len(fo)
      /\ DOMAIN Append(fo, s) = 1..(Len(fo) + 1)
      /\ \A i \in 1..Len(fo) : Append(fo, s)[i] = fo[i]
      /\ Append(fo, s)[Len(fo) + 1] = s
  OBVIOUS
<1>2. Range(Append(fo, s)) \subseteq Range(fo) \union {s}
  BY <1>1 DEF Range
<1>3. Range(fo) \union {s} \subseteq Range(Append(fo, s))
  <2>1. Len(fo) + 1 \in 1..(Len(fo) + 1) /\ \A i \in 1..Len(fo) : i \in 1..(Len(fo) + 1)
    BY <1>1
  <2> QED BY <1>1, <2>1 DEF Range
<1> QED BY <1>1, <1>2, <1>3

LEMMA DeclareOne ==
  ASSUME NEW st, st.clash = FALSE, Consistent(st.decls, st.found), NEW s \in PluginBlock,
         NEW a, a = Declare(st, s)
  PROVE  /\ a.clash \in BOOLEAN /\ Consistent(a.decls, a.found)
         /\ a.clash = FALSE => Range(a.found) = Range(st.found) \union {s}
         /\ a.clash = TRUE => Clash(Range(st.found) \union {s})
<1> DEFINE d == st.decls
           fo == st.found
           d2 == a.decls
           fo2 == a.found
<1>0. Consistent(d, fo)
  OBVIOUS
<1>1. CASE s.name \in DOMAIN d
  <2>1. d2 = d /\ fo2 = fo /\ a.clash = (d[s.name] # s)
    BY <1>1 DEF Declare
  <2> HIDE DEF d, fo, d2, fo2
  <2>2. PICK i \in DOMAIN fo : fo[i].name = s.name /\ d[s.name] = fo[i]
    BY <1>0, <1>1 DEF Consistent
  <2>3. fo[i] \in Range(fo)
    BY DEF Range
  <2>4. a.clash = FALSE => Range(fo2) = Range(fo) \union {s}
    BY <2>1, <2>2, <2>3
  <2>5. a.clash = TRUE => Clash(Range(fo) \union {s})
    BY <2>1, <2>2, <2>3 DEF Clash
  <2>6. Consistent(d2, fo2) /\ a.clash \in BOOLEAN
    BY <1>0, <2>1
  <2> QED BY <2>4, <2>5, <2>6 DEF d2, fo2, fo
<1>2. CASE s.name \notin DOMAIN d
  <2>1. d2 = With(d, s.name, s) /\ fo2 = Append(fo, s) /\ a.clash = FALSE
    BY <1>2 DEF Declare
  <2> HIDE DEF d, fo, d2, fo2
  <2>3. fo \in Seq(PluginBlock)
    BY <1>0 DEF Consistent
  <2>4. /\ DOMAIN d2 = DOMAIN d \union {s.name} /\ d2[s.name] = s
        /\ \A y \in DOMAIN d : y # s.name => d2[y] = d[y]
    <3>1. /\ DOMAIN With(d, s.name, s) = DOMAIN d \union {s.name} /\ With(d, s.name, s)[s.name] = s
          /\ \A y \in DOMAIN d : y # s.name => With(d, s.name, s)[y] = d[y]
      BY DEF With
    <3> QED BY <2>1, <3>1
  <2>5. /\ fo2 \in Seq(PluginBlock) /\ Range(fo2) = Range(fo) \union {s}
        /\ DOMAIN fo2 = 1..(Len(fo) + 1) /\ DOMAIN fo = 1..Len(fo) /\ Len(fo) \in Nat
        /\ \A i \in 1..Len(fo) : fo2[i] = fo[i]
        /\ fo2[Len(fo) + 1] = s
    BY <2>1, <2>3, AppendRange
  <2>6. \A i \in DOMAIN fo : fo[i].name \in DOMAIN d /\ fo[i].name # s.name
    BY <1>0, <1>2 DEF Consistent
  <2>7. \A i \in 1..(Len(fo) + 1) : i \in 1..Len(fo) \/ i = Len(fo) + 1
    BY <2>5
  <2>8. DOMAIN d2 = {fo2[i].name : i \in DOMAIN fo2}
    <3>1. DOMAIN d = {fo[i].name : i \in 1..Len(fo)}
      BY <1>0, <2>5 DEF Consistent
    <3>2. DOMAIN d2 \subseteq {fo2[i].name : i \in DOMAIN fo2}
      BY <3>1, <2>4, <2>5
    <3>3. {fo2[i].name : i \in DOMAIN fo2} \subseteq DOMAIN d2
      BY <3>1, <2>4, <2>5, <2>7
    <3> QED BY <3>2, <3>3
  <2>9. \A i \in DOMAIN fo2 : d2[fo2[i].name] = fo2[i]
    <3> SUFFICES ASSUME NEW i \in DOMAIN fo2 PROVE d2[fo2[i].name] = fo2[i]
      OBVIOUS
    <3>1. CASE i \in 1..Len(fo)
      <4>1. fo2[i] = fo[i] /\ fo[i].name \in DOMAIN d /\ fo[i].name # s.name
        BY <2>5, <2>6, <3>1
      <4>2. d[fo[i].name] = fo[i]
        BY <1>0, <2>5, <3>1 DEF Consistent
      <4> QED BY <4>1, <4>2, <2>4
    <3>2. CASE i = Len(fo) + 1
      BY <2>4, <2>5, <3>2
    <3> QED BY <2>5, <2>7, <3>1, <3>2
  <2>10. \A i, j \in DOMAIN fo2 : fo2[i].name = fo2[j].name => i = j
    BY <1>0, <2>5, <2>6, <2>7 DEF Consistent
  <2>11. Consistent(d2, fo2)
    BY <2>5, <2>8, <2>9, <2>10 DEF Consistent
  <2> QED BY <2>1, <2>5, <2>11 DEF d2, fo2, fo
<1> QED BY <1>1, <1>2

\* The specs of a file, one after the other.
LEMMA DeclareAllSpecs ==
  ASSUME NEW st, st.clash = FALSE, Consistent(st.decls, st.found), NEW specs \in Seq(PluginBlock),
         NEW a, a = DeclareAll(st, specs)
  PROVE  /\ a.clash \in BOOLEAN /\ Consistent(a.decls, a.found)
         /\ a.clash = FALSE => Range(a.found) = Range(st.found) \union Range(specs)
         /\ a.clash = TRUE => Clash(Range(st.found) \union Range(specs))
<1>1. Len(specs) \in Nat /\ DOMAIN specs = 1..Len(specs) /\ \A i \in 1..Len(specs) : specs[i] \in PluginBlock
  OBVIOUS
<1>2. PICK after :
        /\ after = [n \in 0..Len(specs) |-> IF n = 0 THEN st ELSE Declare(after[n - 1], specs[n])]
        /\ DeclareAll(st, specs) = after[Len(specs)]
  BY <1>1, DeclareAllSteps
<1> DEFINE Met(n) == {specs[i] : i \in 1..n}
    Good(n) ==
      /\ after[n].clash \in BOOLEAN /\ Consistent(after[n].decls, after[n].found)
      /\ after[n].clash = FALSE => Range(after[n].found) = Range(st.found) \union Met(n)
      /\ after[n].clash = TRUE => Clash(Range(st.found) \union Met(n))
    T == {n \in Nat : n <= Len(specs) => Good(n)}
<1>3. after[0] = st
  BY <1>1, <1>2
<1>4. \A n \in 0..(Len(specs) - 1) : after[n + 1] = Declare(after[n], specs[n + 1])
  <2> SUFFICES ASSUME NEW n \in 0..(Len(specs) - 1) PROVE after[n + 1] = Declare(after[n], specs[n + 1])
    OBVIOUS
  <2>1. n + 1 \in 0..Len(specs) /\ n + 1 # 0 /\ (n + 1) - 1 = n
    BY <1>1
  <2> QED BY <2>1, <1>2
<1>5. 0 \in T
  <2>1. Met(0) = {}
    OBVIOUS
  <2>2. Good(0)
    BY <1>3, <2>1
  <2> QED BY <2>2
<1>6. \A n \in T : n + 1 \in T
  <2> HIDE DEF Good
  <2> SUFFICES ASSUME NEW n \in Nat, n <= Len(specs) => Good(n), n + 1 <= Len(specs) PROVE Good(n + 1)
    OBVIOUS
  <2>1. n <= Len(specs) /\ n \in 0..(Len(specs) - 1) /\ n + 1 \in 1..Len(specs)
    BY <1>1
  <2>2. Good(n)
    BY <2>1
  <2>3. after[n + 1] = Declare(after[n], specs[n + 1]) /\ specs[n + 1] \in PluginBlock
    BY <1>1, <1>4, <2>1
  <2>4. Met(n + 1) = Met(n) \union {specs[n + 1]}
    <3>1. \A i \in 1..(n + 1) : i \in 1..n \/ i = n + 1
      BY <2>1
    <3>2. \A i \in 1..n : i \in 1..(n + 1)
      BY <2>1
    <3>3. n + 1 \in 1..(n + 1)
      BY <2>1
    <3> QED BY <3>1, <3>2, <3>3
  <2> HIDE DEF Met
  <2>5. CASE after[n].clash = TRUE
    <3>1. after[n + 1] = after[n]
      BY <2>3, <2>5 DEF Declare
    <3>2. Clash(Range(st.found) \union Met(n + 1))
      BY <2>2, <2>4, <2>5 DEF Clash, Good
    <3> QED BY <3>1, <3>2, <2>2, <2>5 DEF Good
  <2>6. CASE after[n].clash = FALSE
    <3>1. Consistent(after[n].decls, after[n].found)
      BY <2>2 DEF Good
    <3>2. /\ after[n + 1].clash \in BOOLEAN /\ Consistent(after[n + 1].decls, after[n + 1].found)
          /\ after[n + 1].clash = FALSE
               => Range(after[n + 1].found) = Range(after[n].found) \union {specs[n + 1]}
          /\ after[n + 1].clash = TRUE => Clash(Range(after[n].found) \union {specs[n + 1]})
      BY <3>1, <2>3, <2>6, DeclareOne
    <3>3. Range(after[n].found) \union {specs[n + 1]} = Range(st.found) \union Met(n + 1)
      BY <2>2, <2>4, <2>6 DEF Good
    <3> QED BY <3>2, <3>3 DEF Good
  <2> QED BY <2>2, <2>5, <2>6 DEF Good
<1>7. T = Nat
  <2> HIDE DEF T
  <2>1. T \in SUBSET Nat
    BY DEF T
  <2> QED BY <1>5, <1>6, <2>1, Induct
<1>8. Good(Len(specs))
  <2> HIDE DEF Good
  <2>1. Len(specs) \in T
    BY <1>1, <1>7
  <2> QED BY <2>1, <1>1
<1>9. Met(Len(specs)) = Range(specs)
  BY <1>1 DEF Range
<1> HIDE DEF Met
<1> QED BY <1>8, <1>9, <1>2

-----------------------------------------------------------------------------
(* The trees of references.                                                *)

Named == Path \ {<<>>}
Tree == [leaves : SUBSET Named, branches : SUBSET Named, conflict : BOOLEAN]

AboveAll(P) == UNION {Above(p) : p \in P}

LEMMA PrefixIsAbove ==
  ASSUME NEW s \in Named, NEW t \in Named
  PROVE  IsPrefix(s, t) <=> (s = t \/ s \in Above(t))
<1>1. /\ s \in Seq(STRING) /\ t \in Seq(STRING) /\ s # <<>>
      /\ Len(s) \in Nat /\ Len(t) \in Nat
      /\ SubSeq(s, 1, Len(s)) = s /\ SubSeq(t, 1, Len(t)) = t
  BY DEF Named, Path
<1>2. ASSUME IsPrefix(s, t) PROVE s = t \/ s \in Above(t)
  <2>1. Len(s) \in 0..Len(t) /\ s = SubSeq(t, 1, Len(s))
    BY <1>1, <1>2 DEF IsPrefix
  <2>2. s \in Prefixes(t)
    BY <2>1 DEF Prefixes
  <2> QED BY <1>1, <2>2 DEF Above
<1>3. s = t => IsPrefix(s, t)
  BY <1>1 DEF IsPrefix
<1>4. ASSUME s \in Above(t) PROVE IsPrefix(s, t)
  <2>1. PICK n \in 0..Len(t) : s = SubSeq(t, 1, n)
    BY <1>4 DEF Above, Prefixes
  <2>2. Len(s) = n
    BY <1>1, <2>1
  <2> QED BY <1>1, <2>1, <2>2 DEF IsPrefix
<1> QED BY <1>2, <1>3, <1>4

\* What is above a path begins as the path does.
LEMMA AbovePath ==
  ASSUME NEW t \in Named, NEW s \in Above(t)
  PROVE  s \in Named /\ s[1] = t[1]
<1>1. t \in Seq(STRING) /\ Len(t) \in Nat /\ s # <<>>
  BY DEF Named, Path, Above
<1>2. PICK n \in 0..Len(t) : s = SubSeq(t, 1, n)
  BY DEF Above, Prefixes
<1>3. s \in Seq(STRING) /\ Len(s) = n
  BY <1>1, <1>2
<1>4. n # 0
  BY <1>1, <1>3
<1>5. s[1] = t[1]
  BY <1>1, <1>2, <1>4
<1> QED BY <1>1, <1>3, <1>5 DEF Named, Path

\* The tree after path was inserted into a tree of the paths P.
Inserted(next, P, path) ==
  /\ next \in Tree
  /\ next.conflict = TRUE <=> \E p \in P : IsPrefix(p, path) \/ IsPrefix(path, p)
  /\ next.conflict = FALSE =>
       next.leaves = P \union {path} /\ next.branches = AboveAll(P \union {path})

LEMMA InsertOne ==
  ASSUME NEW tree \in Tree, NEW path \in Named, tree.conflict = FALSE, NEW P \in SUBSET Named,
         tree.leaves = P, tree.branches = AboveAll(P)
  PROVE  Inserted(Insert(tree, path), P, path)
<1> DEFINE next == Insert(tree, path)
<1> SUFFICES /\ next \in Tree
             /\ next.conflict = TRUE <=> \E p \in P : IsPrefix(p, path) \/ IsPrefix(path, p)
             /\ next.conflict = FALSE =>
                  next.leaves = P \union {path} /\ next.branches = AboveAll(P \union {path})
  BY DEF Inserted
<1> DEFINE Refused == path \in tree.leaves \union tree.branches \/ Above(path) \cap tree.leaves # {}
<1>1. Refused <=> \E p \in P : IsPrefix(p, path) \/ IsPrefix(path, p)
  <2>1. \A p \in P : /\ IsPrefix(p, path) <=> (p = path \/ p \in Above(path))
                     /\ IsPrefix(path, p) <=> (path = p \/ path \in Above(p))
    BY PrefixIsAbove
  <2> QED BY <2>1 DEF AboveAll
<1>2. Above(path) \subseteq Named
  BY AbovePath
<1>3. CASE Refused
  <2>1. next = [tree EXCEPT !.conflict = TRUE]
    BY <1>3 DEF Insert
  <2>2. next \in Tree /\ next.conflict = TRUE
    BY <2>1 DEF Tree
  <2> QED BY <2>2, <1>1, <1>3
<1>4. CASE ~Refused
  <2>1. next = [tree EXCEPT !.leaves = tree.leaves \union {path},
                            !.branches = tree.branches \union Above(path)]
    BY <1>4 DEF Insert, Grown
  <2>2. /\ next \in Tree /\ next.conflict = FALSE /\ next.leaves = P \union {path}
        /\ next.branches = tree.branches \union Above(path)
    BY <2>1, <1>2 DEF Tree
  <2>3. next.branches = AboveAll(P \union {path})
    BY <2>2 DEF AboveAll
  <2> QED BY <2>2, <2>3, <1>1, <1>4
<1> QED BY <1>3, <1>4

\* The recursion of InsertAll has a solution.
LEMMA InsertAllSteps ==
  ASSUME NEW paths, Len(paths) \in Nat
  PROVE  \E tree :
            /\ tree = [n \in 0..Len(paths) |-> IF n = 0 THEN NoTree ELSE Insert(tree[n - 1], paths[n])]
            /\ InsertAll(paths) = tree[Len(paths)]
<1> DEFINE Solves(g, k) ==
      g = [n \in 0..k |-> IF n = 0 THEN NoTree ELSE Insert(g[n - 1], paths[n])]
    T == {k \in Nat : \E g : Solves(g, k)}
<1>1. 0 \in T
  <2> DEFINE g == [n \in 0..0 |-> NoTree]
  <2>1. Solves(g, 0)
    OBVIOUS
  <2> QED BY <2>1
<1>2. \A k \in T : k + 1 \in T
  <2> SUFFICES ASSUME NEW k \in T PROVE \E h : Solves(h, k + 1)
    OBVIOUS
  <2>1. PICK g : Solves(g, k)
    OBVIOUS
  <2> DEFINE h == [n \in 0..(k + 1) |-> IF n <= k THEN g[n] ELSE Insert(g[k], paths[n])]
  <2>2. \A n \in 0..k : h[n] = g[n] /\ n \in 0..(k + 1)
    OBVIOUS
  <2>3. \A n \in 0..(k + 1) : h[n] = IF n = 0 THEN NoTree ELSE Insert(h[n - 1], paths[n])
    <3> SUFFICES ASSUME NEW n \in 0..(k + 1)
                 PROVE  h[n] = IF n = 0 THEN NoTree ELSE Insert(h[n - 1], paths[n])
      OBVIOUS
    <3>1. CASE n <= k
      <4>1. h[n] = g[n]
        BY <3>1
      <4>2. g[n] = IF n = 0 THEN NoTree ELSE Insert(g[n - 1], paths[n])
        BY <2>1, <3>1
      <4>3. n # 0 => h[n - 1] = g[n - 1]
        BY <3>1
      <4> HIDE DEF h
      <4> QED BY <4>1, <4>2, <4>3
    <3>2. CASE ~(n <= k)
      <4>1. n = k + 1 /\ n # 0 /\ n - 1 = k
        BY <3>2
      <4>2. h[n] = Insert(g[k], paths[n])
        BY <3>2
      <4>3. h[n - 1] = g[k]
        BY <4>1
      <4> HIDE DEF h
      <4> QED BY <4>1, <4>2, <4>3
    <3> QED BY <3>1, <3>2
  <2>4. h = [n \in 0..(k + 1) |-> h[n]]
    OBVIOUS
  <2> HIDE DEF h
  <2>5. Solves(h, k + 1)
    BY <2>3, <2>4
  <2> QED BY <2>5
<1>3. T = Nat
  <2> HIDE DEF T
  <2>1. T \in SUBSET Nat
    BY DEF T
  <2> QED BY <1>1, <1>2, <2>1, Induct
<1>4. \E g : Solves(g, Len(paths))
  BY <1>3
<1> DEFINE tree == CHOOSE g : Solves(g, Len(paths))
<1>5. Solves(tree, Len(paths))
  BY <1>4
<1>6. InsertAll(paths) = tree[Len(paths)]
  BY DEF InsertAll
<1> HIDE DEF tree
<1> QED BY <1>5, <1>6

\* Some path of the first n hides another.
Hides(paths, n) == \E i, j \in 1..n : i # j /\ IsPrefix(paths[i], paths[j])

\* refTree.insert of any list of paths, in any order: it fails if and only if
\* one path is the beginning of another, and else it holds these paths.
THEOREM TreeIsPrefixFree ==
  ASSUME NEW paths \in Seq(Named), NEW t, t = InsertAll(paths)
  PROVE  /\ t \in Tree
         /\ t.conflict = TRUE <=> Hides(paths, Len(paths))
         /\ t.conflict = FALSE =>
              /\ t.leaves = Range(paths)
              /\ t.branches = AboveAll(Range(paths))
<1>1. Len(paths) \in Nat /\ DOMAIN paths = 1..Len(paths) /\ \A i \in 1..Len(paths) : paths[i] \in Named
  OBVIOUS
<1>2. PICK tree :
        /\ tree = [n \in 0..Len(paths) |-> IF n = 0 THEN NoTree ELSE Insert(tree[n - 1], paths[n])]
        /\ InsertAll(paths) = tree[Len(paths)]
  BY <1>1, InsertAllSteps
<1> DEFINE Met(n) == {paths[i] : i \in 1..n}
    Good(n) ==
      /\ tree[n] \in Tree
      /\ tree[n].conflict = TRUE <=> Hides(paths, n)
      /\ tree[n].conflict = FALSE =>
           tree[n].leaves = Met(n) /\ tree[n].branches = AboveAll(Met(n))
    T == {n \in Nat : n <= Len(paths) => Good(n)}
<1>3. tree[0] = NoTree
  BY <1>1, <1>2
<1>4. \A n \in 0..(Len(paths) - 1) : tree[n + 1] = Insert(tree[n], paths[n + 1])
  <2> SUFFICES ASSUME NEW n \in 0..(Len(paths) - 1) PROVE tree[n + 1] = Insert(tree[n], paths[n + 1])
    OBVIOUS
  <2>1. n + 1 \in 0..Len(paths) /\ n + 1 # 0 /\ (n + 1) - 1 = n
    BY <1>1
  <2> QED BY <2>1, <1>2
<1>5. 0 \in T
  <2>1. Met(0) = {} /\ ~Hides(paths, 0)
    BY DEF Hides
  <2>2. NoTree \in Tree /\ NoTree.conflict = FALSE /\ NoTree.leaves = {} /\ NoTree.branches = {}
    BY DEF NoTree, Tree
  <2> HIDE DEF Met
  <2>3. Good(0)
    BY <1>3, <2>1, <2>2 DEF AboveAll
  <2> QED BY <2>3
<1>6. \A n \in T : n + 1 \in T
  <2> HIDE DEF Good
  <2> SUFFICES ASSUME NEW n \in Nat, n <= Len(paths) => Good(n), n + 1 <= Len(paths) PROVE Good(n + 1)
    OBVIOUS
  <2>1. n <= Len(paths) /\ n \in 0..(Len(paths) - 1) /\ n + 1 \in 1..Len(paths)
    BY <1>1
  <2>2. Good(n)
    BY <2>1
  <2>3. tree[n + 1] = Insert(tree[n], paths[n + 1]) /\ paths[n + 1] \in Named
    BY <1>1, <1>4, <2>1
  <2>4. \A i \in 1..(n + 1) : i \in 1..n \/ i = n + 1
    BY <2>1
  <2>5. n + 1 \in 1..(n + 1) /\ \A i \in 1..n : i \in 1..(n + 1) /\ i # n + 1
    BY <2>1
  <2>6. Met(n + 1) = Met(n) \union {paths[n + 1]}
    BY <2>4, <2>5
  <2>7. Hides(paths, n + 1) <=>
          \/ Hides(paths, n)
          \/ \E p \in Met(n) : IsPrefix(p, paths[n + 1]) \/ IsPrefix(paths[n + 1], p)
    BY <2>4, <2>5 DEF Hides
  <2>8. Met(n) \in SUBSET Named
    BY <1>1, <2>1
  <2> HIDE DEF Met
  <2>9. CASE tree[n].conflict = TRUE
    <3>1. tree[n] \in Tree /\ Hides(paths, n)
      BY <2>2, <2>9 DEF Good
    <3>2. tree[n + 1] = [tree[n] EXCEPT !.conflict = TRUE]
      BY <2>3, <2>9 DEF Insert
    <3>3. tree[n + 1] \in Tree /\ tree[n + 1].conflict = TRUE
      BY <3>1, <3>2 DEF Tree
    <3> QED BY <3>1, <3>3, <2>7 DEF Good
  <2>10. CASE tree[n].conflict = FALSE
    <3>1. /\ tree[n] \in Tree /\ ~Hides(paths, n)
          /\ tree[n].leaves = Met(n) /\ tree[n].branches = AboveAll(Met(n))
      BY <2>2, <2>10 DEF Good
    <3> DEFINE P == Met(n)
    <3> HIDE DEF P
    <3>2. Inserted(tree[n + 1], P, paths[n + 1])
      <4>1. P \in SUBSET Named /\ tree[n].leaves = P /\ tree[n].branches = AboveAll(P)
        BY <3>1, <2>8 DEF P
      <4> QED BY <4>1, <3>1, <2>3, <2>10, InsertOne
    <3> QED BY <3>1, <3>2, <2>6, <2>7 DEF Good, P, Inserted
  <2>11. tree[n].conflict \in BOOLEAN
    BY <2>2 DEF Good, Tree
  <2> QED BY <2>9, <2>10, <2>11
<1>7. T = Nat
  <2> HIDE DEF T
  <2>1. T \in SUBSET Nat
    BY DEF T
  <2> QED BY <1>5, <1>6, <2>1, Induct
<1>8. Good(Len(paths))
  <2> HIDE DEF Good
  <2>1. Len(paths) \in T
    BY <1>1, <1>7
  <2> QED BY <2>1, <1>1
<1>9. Met(Len(paths)) = Range(paths)
  BY <1>1 DEF Range
<1> HIDE DEF Met
<1> QED BY <1>8, <1>9, <1>2

-----------------------------------------------------------------------------
(* The references of a verb, and whether they are ambiguous.               *)

LEMMA ConcatFacts ==
  ASSUME NEW S, NEW v \in Seq(S), NEW r \in Seq(S)
  PROVE  /\ v \o r \in Seq(S) /\ Len(v \o r) = Len(v) + Len(r)
         /\ \A i \in 1..Len(v) : (v \o r)[i] = v[i]
         /\ \A i \in 1..Len(r) : (v \o r)[Len(v) + i] = r[i]
OBVIOUS

LEMMA RefPaths ==
  ASSUME NEW b \in Block
  PROVE  /\ RefOf(b) \in Named /\ RestOf(b) \in Named /\ RefOf(b) \in Path /\ RestOf(b) \in Path
         /\ Len(RefOf(b)) = Len(RestOf(b)) + 1 /\ Len(RestOf(b)) \in Nat
         /\ RefOf(b)[1] = b.verb /\ RefOf(b) # RestOf(b)
<1>1. b.plugin \in STRING /\ b.kind \in STRING /\ b.name \in STRING /\ b.verb \in STRING
  <2>1. b.plugin \in STRING /\ b.kind \in STRING /\ b.name \in STRING /\ b.verb \in Verb
    BY DEF Block
  <2> QED BY <2>1, LiteralsAreStrings
<1>2. <<b.kind, b.name>> \in Seq(STRING) /\ Len(<<b.kind, b.name>>) = 2 /\ <<b.verb>> \in Seq(STRING)
      /\ Len(<<b.verb>>) = 1 /\ <<b.verb>>[1] = b.verb
  BY <1>1
<1>3. RestOf(b) \in Seq(STRING) /\ Len(RestOf(b)) \in Nat /\ Len(RestOf(b)) > 0
  <2>1. CASE b.plugin = "none"
    <3>1. RestOf(b) = <<>> \o <<b.kind, b.name>>
      BY <2>1 DEF RestOf
    <3>2. <<>> \o <<b.kind, b.name>> = <<b.kind, b.name>>
      BY <1>2
    <3> QED BY <3>1, <3>2, <1>2
  <2>2. CASE b.plugin # "none"
    <3>1. RestOf(b) = <<b.plugin>> \o <<b.kind, b.name>>
      BY <2>2 DEF RestOf
    <3>2. <<b.plugin>> \in Seq(STRING) /\ Len(<<b.plugin>>) = 1
      BY <1>1
    <3>3. /\ <<b.plugin>> \o <<b.kind, b.name>> \in Seq(STRING)
          /\ Len(<<b.plugin>> \o <<b.kind, b.name>>) = 3
      BY <3>2, <1>2
    <3> QED BY <3>1, <3>3
  <2> QED BY <2>1, <2>2
<1> DEFINE r == RestOf(b)
           v == <<b.verb>>
<1>4. RefOf(b) = v \o r
  BY DEF RefOf
<1> HIDE DEF r, v
<1>5. v \in Seq(STRING) /\ Len(v) = 1 /\ v[1] = b.verb /\ r \in Seq(STRING) /\ Len(r) \in Nat /\ Len(r) > 0
  BY <1>2, <1>3 DEF r, v
<1>6. v \o r \in Seq(STRING) /\ Len(v \o r) = Len(r) + 1 /\ (v \o r)[1] = b.verb
  <2>1. /\ v \o r \in Seq(STRING) /\ Len(v \o r) = Len(v) + Len(r)
        /\ \A i \in 1..Len(v) : (v \o r)[i] = v[i]
    BY <1>5, ConcatFacts
  <2> QED BY <1>5, <2>1
<1>7. v \o r # r /\ v \o r # <<>> /\ r # <<>>
  BY <1>5, <1>6
<1> QED BY <1>4, <1>5, <1>6, <1>7 DEF r, Named, Path

\* Ambiguous, of a set of blocks.
PathPairs(Q) == {<<b, RefOf(b)>> : b \in Q} \union {<<b, RestOf(b)>> : b \in Q}
Clashing(Q) == \E p, q \in PathPairs(Q) : (p # q /\ IsPrefix(p[2], q[2])) \/ Reserved(p[2])

LEMMA AmbiguousIsClashing ==
  ASSUME NEW f, NEW verb
  PROVE  Ambiguous(f, verb) <=> Clashing(Own(f, verb))
BY DEF Ambiguous, Clashing, PathPairs

\* An order of a finite set of blocks names each of them once.
LEMMA OrdersAreInjective ==
  ASSUME NEW Q \in SUBSET Block, IsFiniteSet(Q), NEW order \in OrdersOf(Q)
  PROVE  /\ Len(order) \in Nat /\ DOMAIN order = 1..Len(order)
         /\ \A i \in 1..Len(order) : order[i] \in Q
         /\ \A b \in Q : \E i \in 1..Len(order) : order[i] = b
         /\ \A i, j \in 1..Len(order) : order[i] = order[j] => i = j
<1> DEFINE n == Cardinality(Q)
<1>1. n \in Nat
  BY FS_CardinalityType
<1>2. order \in [1..n -> Q] /\ Range(order) = Q
  BY DEF OrdersOf
<1>3. order \in Surjection(1..n, Q)
  BY <1>2 DEF Surjection, Range
<1> HIDE DEF n
<1>4. IsFiniteSet(1..n) /\ Cardinality(1..n) = n
  BY <1>1, FS_Interval
<1>5. order \in Injection(1..n, Q)
  BY <1>3, <1>4, FS_Surjection DEF n
<1>6. \A i, j \in 1..n : order[i] = order[j] => i = j
  BY <1>5 DEF Injection, IsInjective
<1>7. Len(order) = n /\ DOMAIN order = 1..n
  BY <1>1, <1>2
<1>8. \A b \in Q : \E i \in 1..n : order[i] = b
  BY <1>2, <1>7 DEF Range
<1> QED BY <1>1, <1>2, <1>6, <1>7, <1>8

LEMMA Halves ==
  ASSUME NEW n \in Nat
  PROVE  /\ \A k \in 1..2 * n : (k + 1) \div 2 \in 1..n /\ (k % 2 = 1 \/ k % 2 = 0)
                                /\ (k % 2 = 1 => k = 2 * ((k + 1) \div 2) - 1)
                                /\ (k % 2 = 0 => k = 2 * ((k + 1) \div 2))
         /\ \A i \in 1..n : /\ 2 * i \in 1..2 * n /\ 2 * i - 1 \in 1..2 * n
                            /\ (2 * i) % 2 = 0 /\ (2 * i + 1) \div 2 = i
                            /\ (2 * i - 1) % 2 = 1 /\ (2 * i - 1 + 1) \div 2 = i
OBVIOUS

\* The paths of makeRefCtx are each block's two.
ListsBoth(paths, order, n) ==
  /\ paths \in Seq(Named) /\ Len(paths) = 2 * n
  /\ \A k \in 1..2 * n : \E i \in 1..n :
       \/ k = 2 * i - 1 /\ paths[k] = RefOf(order[i])
       \/ k = 2 * i /\ paths[k] = RestOf(order[i])
  /\ \A i \in 1..n : paths[2 * i - 1] = RefOf(order[i]) /\ paths[2 * i] = RestOf(order[i])

LEMMA BothPathsOf ==
  ASSUME NEW Q \in SUBSET Block, IsFiniteSet(Q), NEW order \in OrdersOf(Q)
  PROVE  ListsBoth(BothPaths(order), order, Len(order))
<1> DEFINE n == Len(order)
           paths == BothPaths(order)
<1>1. n \in Nat /\ \A i \in 1..n : order[i] \in Q
  BY OrdersAreInjective
<1>2. paths = [k \in 1..2 * n |-> IF k % 2 = 1 THEN RefOf(order[(k + 1) \div 2])
                                  ELSE RestOf(order[(k + 1) \div 2])]
  BY DEF BothPaths
<1>3. \A k \in 1..2 * n : (k + 1) \div 2 \in 1..n /\ paths[k] \in Named
  <2> SUFFICES ASSUME NEW k \in 1..2 * n PROVE (k + 1) \div 2 \in 1..n /\ paths[k] \in Named
    OBVIOUS
  <2>1. (k + 1) \div 2 \in 1..n
    BY <1>1, Halves
  <2>2. order[(k + 1) \div 2] \in Block
    BY <1>1, <2>1
  <2>3. RefOf(order[(k + 1) \div 2]) \in Named /\ RestOf(order[(k + 1) \div 2]) \in Named
    BY <2>2, RefPaths
  <2>4. paths[k] = RefOf(order[(k + 1) \div 2]) \/ paths[k] = RestOf(order[(k + 1) \div 2])
    BY <1>2
  <2> QED BY <2>1, <2>3, <2>4
<1>4. 2 * n \in Nat
  BY <1>1
<1>5. paths \in Seq(Named) /\ Len(paths) = 2 * n
  <2>1. paths = [k \in 1..2 * n |-> paths[k]]
    BY <1>2
  <2> QED BY <2>1, <1>3, <1>4
<1>6. ASSUME NEW k \in 1..2 * n
      PROVE  \E i \in 1..n : \/ k = 2 * i - 1 /\ paths[k] = RefOf(order[i])
                             \/ k = 2 * i /\ paths[k] = RestOf(order[i])
  <2> DEFINE i == (k + 1) \div 2
  <2>1. i \in 1..n /\ (k % 2 = 1 \/ k % 2 = 0) /\ (k % 2 = 1 => k = 2 * i - 1) /\ (k % 2 = 0 => k = 2 * i)
    BY <1>1, Halves
  <2>2. paths[k] = IF k % 2 = 1 THEN RefOf(order[i]) ELSE RestOf(order[i])
    BY <1>2
  <2> HIDE DEF i
  <2> QED BY <2>1, <2>2
<1>7. ASSUME NEW i \in 1..n
      PROVE  paths[2 * i - 1] = RefOf(order[i]) /\ paths[2 * i] = RestOf(order[i])
  <2>1. /\ 2 * i \in 1..2 * n /\ 2 * i - 1 \in 1..2 * n
        /\ (2 * i) % 2 = 0 /\ (2 * i + 1) \div 2 = i
        /\ (2 * i - 1) % 2 = 1 /\ (2 * i - 1 + 1) \div 2 = i
    BY <1>1, Halves
  <2> QED BY <2>1, <1>2
<1> HIDE DEF n, paths
<1>8. ListsBoth(paths, order, n)
  BY <1>5, <1>6, <1>7 DEF ListsBoth
<1> QED BY <1>8 DEF n, paths

LEMMA PairsOf ==
  ASSUME NEW Q, NEW p \in PathPairs(Q)
  PROVE  \E b \in Q : p = <<b, RefOf(b)>> \/ p = <<b, RestOf(b)>>
BY DEF PathPairs

\* A list of paths that hides none of them, and no reserved one, is what
\* makeRefCtx admits, whatever the order.
LEMMA AdmitsTheUnambiguous ==
  ASSUME NEW Q \in SUBSET Block, IsFiniteSet(Q), NEW order \in OrdersOf(Q)
  PROVE  RefCtxAdmits(order) <=> ~Clashing(Q)
<1> DEFINE n == Len(order)
           paths == BothPaths(order)
           t == InsertAll(paths)
           roots == {p[1] : p \in t.leaves \union t.branches}
<1>1. /\ n \in Nat /\ \A i \in 1..n : order[i] \in Q
      /\ \A b \in Q : \E i \in 1..n : order[i] = b
      /\ \A i, j \in 1..n : order[i] = order[j] => i = j
  BY OrdersAreInjective
<1>2. /\ paths \in Seq(Named) /\ Len(paths) = 2 * n
      /\ \A k \in 1..2 * n : \E i \in 1..n :
           \/ k = 2 * i - 1 /\ paths[k] = RefOf(order[i])
           \/ k = 2 * i /\ paths[k] = RestOf(order[i])
      /\ \A i \in 1..n : paths[2 * i - 1] = RefOf(order[i]) /\ paths[2 * i] = RestOf(order[i])
  BY BothPathsOf DEF ListsBoth
<1>3. /\ t \in Tree
      /\ t.conflict = TRUE <=> Hides(paths, 2 * n)
      /\ t.conflict = FALSE => t.leaves = Range(paths) /\ t.branches = AboveAll(Range(paths))
  BY <1>2, TreeIsPrefixFree
<1>4. RefCtxAdmits(order) <=> ~t.conflict /\ roots \cap {"local", "env", "imports"} = {}
  BY DEF RefCtxAdmits
<1>5. t.conflict \in BOOLEAN
  BY <1>3 DEF Tree
<1> HIDE DEF n, paths, t
<1>6. ASSUME Hides(paths, 2 * n) PROVE \E p, q \in PathPairs(Q) : p # q /\ IsPrefix(p[2], q[2])
  <2>1. PICK k, l \in 1..2 * n : k # l /\ IsPrefix(paths[k], paths[l])
    BY <1>6 DEF Hides
  <2>2. PICK i \in 1..n : \/ k = 2 * i - 1 /\ paths[k] = RefOf(order[i])
                          \/ k = 2 * i /\ paths[k] = RestOf(order[i])
    BY <1>2
  <2>3. PICK j \in 1..n : \/ l = 2 * j - 1 /\ paths[l] = RefOf(order[j])
                          \/ l = 2 * j /\ paths[l] = RestOf(order[j])
    BY <1>2
  <2>4. order[i] \in Q /\ order[j] \in Q /\ order[i] \in Block
    BY <1>1
  <2> DEFINE p == <<order[i], paths[k]>>
             q == <<order[j], paths[l]>>
  <2>5. p \in PathPairs(Q) /\ q \in PathPairs(Q)
    BY <2>2, <2>3, <2>4 DEF PathPairs
  <2>6. p # q
    <3>1. RefOf(order[i]) # RestOf(order[i])
      BY <2>4, RefPaths
    <3>2. CASE i = j
      BY <2>1, <2>2, <2>3, <3>1, <3>2
    <3>3. CASE i # j
      BY <1>1, <3>3
    <3> QED BY <3>2, <3>3
  <2>7. p[2] = paths[k] /\ q[2] = paths[l]
    OBVIOUS
  <2> HIDE DEF p, q
  <2> QED BY <2>1, <2>5, <2>6, <2>7
<1>7. ASSUME NEW p \in PathPairs(Q) PROVE \E k \in 1..2 * n : p[2] = paths[k] /\ \E i \in 1..n :
              /\ p[1] = order[i]
              /\ (k = 2 * i - 1 /\ p[2] = RefOf(order[i])) \/ (k = 2 * i /\ p[2] = RestOf(order[i]))
  <2>1. PICK b \in Q : p = <<b, RefOf(b)>> \/ p = <<b, RestOf(b)>>
    BY PairsOf
  <2>2. PICK i \in 1..n : order[i] = b
    BY <1>1
  <2>3. 2 * i - 1 \in 1..2 * n /\ 2 * i \in 1..2 * n
    BY <1>1
  <2> QED BY <2>1, <2>2, <2>3, <1>2
<1>8. ASSUME NEW p \in PathPairs(Q), NEW q \in PathPairs(Q), p # q, IsPrefix(p[2], q[2])
      PROVE  Hides(paths, 2 * n)
  <2>1. PICK k \in 1..2 * n : p[2] = paths[k] /\ \E i \in 1..n :
              /\ p[1] = order[i]
              /\ (k = 2 * i - 1 /\ p[2] = RefOf(order[i])) \/ (k = 2 * i /\ p[2] = RestOf(order[i]))
    BY <1>7
  <2>2. PICK l \in 1..2 * n : q[2] = paths[l] /\ \E i \in 1..n :
              /\ q[1] = order[i]
              /\ (l = 2 * i - 1 /\ q[2] = RefOf(order[i])) \/ (l = 2 * i /\ q[2] = RestOf(order[i]))
    BY <1>7
  <2>3. k # l
    <3> SUFFICES ASSUME k = l PROVE FALSE
      OBVIOUS
    <3>1. p[2] = q[2]
      BY <2>1, <2>2
    <3>2. p[1] = q[1]
      BY <2>1, <2>2
    <3>3. p = <<p[1], p[2]>> /\ q = <<q[1], q[2]>>
      BY PairsOf
    <3> QED BY <3>1, <3>2, <3>3, <1>8
  <2> QED BY <1>8, <2>1, <2>2, <2>3 DEF Hides
<1>9. ASSUME NEW p \in PathPairs(Q) PROVE p[2] \in Range(paths)
  <2>1. PICK k \in 1..2 * n : p[2] = paths[k]
    BY <1>7
  <2>2. DOMAIN paths = 1..2 * n
    BY <1>2
  <2> QED BY <2>1, <2>2 DEF Range
<1>10. ASSUME NEW x \in Range(paths) PROVE x \in Named /\ \E p \in PathPairs(Q) : p[2] = x
  <2>1. DOMAIN paths = 1..2 * n
    BY <1>2
  <2>2. PICK k \in 1..2 * n : x = paths[k]
    BY <2>1 DEF Range
  <2>3. PICK i \in 1..n : \/ k = 2 * i - 1 /\ paths[k] = RefOf(order[i])
                          \/ k = 2 * i /\ paths[k] = RestOf(order[i])
    BY <1>2
  <2>4. order[i] \in Q
    BY <1>1
  <2>5. <<order[i], x>> \in PathPairs(Q)
    BY <2>2, <2>3, <2>4 DEF PathPairs
  <2>6. x \in Named
    BY <1>2, <2>1, <2>2
  <2> QED BY <2>5, <2>6
<1>11. ASSUME ~Hides(paths, 2 * n)
       PROVE  roots \cap {"local", "env", "imports"} = {} <=> \A p \in PathPairs(Q) : ~Reserved(p[2])
  <2>1. t.leaves = Range(paths) /\ t.branches = AboveAll(Range(paths))
    BY <1>3, <1>5, <1>11
  <2>2. roots = {x[1] : x \in Range(paths)}
    <3>1. ASSUME NEW y \in AboveAll(Range(paths)) PROVE \E x \in Range(paths) : y[1] = x[1]
      <4>1. PICK x \in Range(paths) : y \in Above(x)
        BY DEF AboveAll
      <4> QED BY <4>1, <1>10, AbovePath
    <3> QED BY <2>1, <3>1
  <2> HIDE DEF roots
  <2>3. roots \cap {"local", "env", "imports"} = {} <=> \A x \in Range(paths) : ~Reserved(x)
    BY <2>2 DEF Reserved
  <2> QED BY <2>3, <1>9, <1>10
<1> HIDE DEF roots
<1>12. Clashing(Q) <=> \/ \E p, q \in PathPairs(Q) : p # q /\ IsPrefix(p[2], q[2])
                       \/ \E p \in PathPairs(Q) : Reserved(p[2])
  BY DEF Clashing
<1> QED BY <1>3, <1>4, <1>5, <1>6, <1>8, <1>11, <1>12

\* buildImportsValue admits what makeRefCtx has admitted.
LEMMA ImportsTheUnambiguous ==
  ASSUME NEW Q \in SUBSET Block, IsFiniteSet(Q), NEW order \in OrdersOf(Q), ~Clashing(Q)
  PROVE  ImportAdmits(order)
<1> DEFINE n == Len(order)
           paths == [i \in DOMAIN order |-> RestOf(order[i])]
           t == InsertAll(paths)
<1>1. /\ n \in Nat /\ DOMAIN order = 1..n /\ \A i \in 1..n : order[i] \in Q
      /\ \A i, j \in 1..n : order[i] = order[j] => i = j
  BY OrdersAreInjective
<1>2. \A i \in 1..n : RestOf(order[i]) \in Named
  BY <1>1, RefPaths
<1>3. paths \in Seq(Named) /\ Len(paths) = n /\ \A i \in 1..n : paths[i] = RestOf(order[i])
  BY <1>1, <1>2
<1>4. t \in Tree /\ (t.conflict = TRUE <=> Hides(paths, n))
  BY <1>3, TreeIsPrefixFree
<1>5. ImportAdmits(order) <=> ~t.conflict
  BY DEF ImportAdmits
<1> HIDE DEF n, paths, t
<1>6. ASSUME Hides(paths, n) PROVE FALSE
  <2>1. PICK i, j \in 1..n : i # j /\ IsPrefix(paths[i], paths[j])
    BY <1>6 DEF Hides
  <2> DEFINE p == <<order[i], RestOf(order[i])>>
             q == <<order[j], RestOf(order[j])>>
  <2>2. p \in PathPairs(Q) /\ q \in PathPairs(Q)
    BY <1>1 DEF PathPairs
  <2>3. p # q /\ p[2] = paths[i] /\ q[2] = paths[j]
    BY <1>1, <1>3, <2>1
  <2> HIDE DEF p, q
  <2> QED BY <2>1, <2>2, <2>3 DEF Clashing
<1>7. t.conflict \in BOOLEAN
  BY <1>4 DEF Tree
<1> QED BY <1>4, <1>5, <1>6, <1>7

\* A file's blocks of a verb are finitely many blocks.
LEMMA OwnIsFinite ==
  ASSUME NEW f, content[f].resources \in Seq(Block), NEW verb
  PROVE  Own(f, verb) \in SUBSET Block /\ IsFiniteSet(Own(f, verb))
<1> DEFINE rs == content[f].resources
           n == Len(rs)
<1>1. n \in Nat /\ rs \in [1..n -> Block] /\ DOMAIN rs = 1..n
  OBVIOUS
<1> HIDE DEF n
<1>2. rs \in Surjection(1..n, Range(rs))
  BY <1>1 DEF Surjection, Range
<1>3. IsFiniteSet(1..n)
  BY <1>1, FS_Interval
<1>4. IsFiniteSet(Range(rs))
  BY <1>2, <1>3, FS_Surjection
<1>5. Range(rs) \subseteq Block
  BY <1>1 DEF Range
<1>6. Own(f, verb) \in SUBSET Range(rs)
  BY DEF Own
<1> QED BY <1>4, <1>5, <1>6, FS_Subset

-----------------------------------------------------------------------------
(* The walk: what its steps do.                                            *)

\* What Contents holds is typed.
LEMMA ContentTypes ==
  ASSUME ImportsTypeOK, NEW c \in Contents[walk]
  PROVE  /\ DOMAIN c.imports \subseteq STRING /\ \A a \in DOMAIN c.imports : c.imports[a] \in File
         /\ c.plugins \in Seq(PluginBlock) /\ c.resources \in Seq(Block)
         /\ c.pipelines \in Seq(Range(c.pipelines))
         /\ \A p \in Range(c.pipelines) : IsPipelineBlock(p)
BY ImportsAssumption DEF ImportsTypeOK, Range

LEMMA TopFacts ==
  ASSUME ImportsTypeOK, frames # <<>>
  PROVE  /\ Len(frames) \in Nat /\ Len(frames) >= 1 /\ Len(frames) \in 1..Len(frames)
         /\ Top = frames[Len(frames)] /\ Top \in Frame
         /\ Front(frames) \in Seq(Frame) /\ Len(Front(frames)) = Len(frames) - 1
         /\ \A i \in 1..Len(frames) - 1 : Front(frames)[i] = frames[i]
<1> DEFINE n == Len(frames)
<1>1. frames \in Seq(Frame)
  BY DEF ImportsTypeOK
<1>2. n \in Nat /\ n >= 1 /\ n \in 1..n /\ n - 1 \in Nat /\ frames[n] \in Frame
  BY <1>1
<1>3. Top = frames[n] /\ Front(frames) = SubSeq(frames, 1, n - 1)
  BY DEF Top, Last, Front
<1>4. \A i \in 1..(n - 1) : i \in 1..n /\ frames[i] \in Frame
  BY <1>1, <1>2
<1>5. /\ SubSeq(frames, 1, n - 1) \in Seq(Frame) /\ Len(SubSeq(frames, 1, n - 1)) = n - 1
      /\ \A i \in 1..(n - 1) : SubSeq(frames, 1, n - 1)[i] = frames[i]
  <2>1. SubSeq(frames, 1, n - 1) = [i \in 1..(n - 1) |-> frames[i]]
    BY <1>1, <1>2
  <2> HIDE DEF n
  <2> QED BY <2>1, <1>2, <1>4
<1> HIDE DEF n
<1>6. QED BY <1>2, <1>3, <1>5 DEF n

\* A file is open in one frame only.
LEMMA FramesDistinct ==
  ASSUME ImportsTypeOK, MarksMatchFrames
  PROVE  \A i, j \in 1..Len(frames) : frames[i].file = frames[j].file => i = j
<1> DEFINE n == Len(frames)
           g == [i \in 1..n |-> frames[i].file]
<1>1. n \in Nat /\ DOMAIN frames = 1..n
  BY DEF ImportsTypeOK
<1>2. IsFiniteSet(visiting) /\ Cardinality(visiting) = n /\ visiting = {frames[i].file : i \in 1..n}
  BY <1>1 DEF MarksMatchFrames
<1> HIDE DEF n
<1>3. g \in Surjection(1..n, visiting)
  BY <1>2 DEF Surjection
<1>4. IsFiniteSet(1..n) /\ Cardinality(1..n) = n
  BY <1>1, FS_Interval
<1> HIDE DEF g
<1>5. g \in Injection(1..n, visiting)
  BY <1>2, <1>3, <1>4, FS_Surjection
<1>6. \A i, j \in 1..n : g[i] = g[j] => i = j
  BY <1>5 DEF Injection, IsInjective
<1> QED BY <1>6 DEF g, n

\* A file is loaded: it is a new one, and the walk ends or enters it.
LEMMA LoadCases ==
  ASSUME ImportInv, LoadsFile
  PROVE  /\ failure = "none" /\ calling \in File /\ calling \notin DOMAIN content
         /\ walk' = walk /\ settled' = settled /\ result' = result /\ calling' = "none"
         /\ loads' = [loads EXCEPT ![calling] = @ + 1]
         /\ \E c \in Contents[walk] :
              /\ content' = With(content, calling, c)
              /\ \/ /\ failure' \in {"load", "conflict", "imports"}
                    /\ frames' = <<>> /\ visiting' = {}
                 \/ /\ failure' = "none" /\ visiting' = visiting \union {calling}
                    /\ frames' = Append(frames, [file |-> calling, todo |-> DOMAIN c.imports])
<1>1. failure = "none" /\ calling \in File /\ calling \notin settled \union visiting
  BY DEF LoadsFile, Ended
<1>2. calling \notin DOMAIN content
  BY <1>1 DEF ImportInv, SettledIsClosed
<1>3. PICK c \in Contents[walk] : LoadsFile!3!(c)
  BY <1>2 DEF LoadsFile
<1> QED BY <1>1, <1>2, <1>3 DEF LoadsFile, FailWalk

\* A frame that has followed all of its aliases has settled all of its imports.
LEMMA TopIsDone ==
  ASSUME ImportInv, calling = "none", frames # <<>>, Top.todo = {}
  PROVE  /\ Top.file \in visiting /\ Top.file \in File /\ Top.file \notin settled
         /\ Top.file \in DOMAIN content /\ content[Top.file] \in Contents[walk]
         /\ Targets(Top.file) \subseteq settled
<1> DEFINE n == Len(frames)
           f == Top.file
<1>1. n \in 1..n /\ Top = frames[n] /\ Top \in Frame /\ DOMAIN frames = 1..n
  BY TopFacts DEF ImportInv, ImportsTypeOK
<1>2. f \in visiting /\ f \in File
  BY <1>1 DEF ImportInv, MarksMatchFrames, Frame
<1>3. f \notin settled /\ f \in DOMAIN content /\ content[f] \in Contents[walk]
  BY <1>2 DEF ImportInv, MarksMatchFrames, ImportsTypeOK
<1>4. \A a \in DOMAIN Aliases(f) : Aliases(f)[a] \in File
  BY <1>3, ContentTypes DEF ImportInv, Aliases
<1>5. \A a \in DOMAIN Aliases(f) : Aliases(f)[a] \in settled \union {"none"}
  <2>1. \A a \in DOMAIN Aliases(frames[n].file) \ frames[n].todo :
          Aliases(frames[n].file)[a]
            \in settled \union {IF n < Len(frames) THEN frames[n + 1].file ELSE calling}
    BY <1>1 DEF ImportInv, FramesArePath
  <2>2. ~(n < Len(frames)) /\ frames[n].todo = {}
    BY <1>1
  <2> HIDE DEF n
  <2> QED BY <2>1, <2>2, <1>1
<1>6. "none" \notin File
  BY ImportsAssumption
<1>7. Targets(f) \subseteq settled
  BY <1>4, <1>5, <1>6 DEF Targets, Range
<1> QED BY <1>2, <1>3, <1>7

\* The references of the files that were imported are not ambiguous, so the
\* values of imports.* can always be built.
LEMMA ImportsNeverConflict ==
  ASSUME ImportInv, walk = "parse", NEW f \in DOMAIN content, Targets(f) \subseteq settled
  PROVE  ~ImportsConflict(f)
<1> SUFFICES ASSUME NEW a \in DOMAIN Aliases(f), NEW verb \in Verb,
                    NEW order \in OrdersOf(Own(Aliases(f)[a], verb))
             PROVE  ImportAdmits(order)
  BY DEF ImportsConflict
<1> DEFINE g == Aliases(f)[a]
<1>1. g \in settled
  BY DEF Targets, Range
<1> HIDE DEF g
<1>2. ~Ambiguous(g, verb)
  BY <1>1 DEF ImportInv, OutcomeIsOrderFree
<1>3. content[g] \in Contents[walk]
  BY <1>1 DEF ImportInv, ImportsTypeOK
<1>4. content[g].resources \in Seq(Block)
  BY <1>3, ContentTypes DEF ImportInv
<1>5. Own(g, verb) \in SUBSET Block /\ IsFiniteSet(Own(g, verb))
  BY <1>4, OwnIsFinite
<1>6. ~Clashing(Own(g, verb))
  BY <1>2, AmbiguousIsClashing
<1>7. order \in OrdersOf(Own(g, verb))
  BY DEF g
<1> QED BY <1>5, <1>6, <1>7, ImportsTheUnambiguous

\* What a file that was read resolves to.
Result(f) == IF walk = "plugins" THEN "collected" ELSE ResultOf(f)

\* A frame returns: the walk fails, or the file is settled.
LEMMA ReturnCases ==
  ASSUME ImportInv, CollectReturns \/ ResolveReturns
  PROVE  /\ failure = "none" /\ calling = "none" /\ frames # <<>> /\ Top.todo = {}
         /\ walk' = walk /\ content' = content /\ calling' = "none"
         /\ decls' = decls /\ found' = found /\ loads' = loads
         /\ \/ /\ failure' \in {"binding", "ref", "pipeline", "panic"} /\ walk = "parse"
               /\ failure' \in Outcomes(Top.file)
               /\ frames' = <<>> /\ visiting' = {} /\ settled' = settled /\ result' = result
            \/ /\ settled' = settled \union {Top.file} /\ visiting' = visiting \ {Top.file}
               /\ result' = With(result, Top.file, Result(Top.file)) /\ frames' = Front(frames)
               /\ failure' = IF Len(frames) = 1 THEN "ok" ELSE "none"
               /\ walk = "parse" => "resolved" \in Outcomes(Top.file)
<1>1. /\ failure = "none" /\ calling = "none" /\ frames # <<>> /\ Top.todo = {}
  BY DEF CollectReturns, ResolveReturns, Ended
<1>2. CASE CollectReturns
  BY <1>1, <1>2 DEF CollectReturns, Leaves, Result
<1>3. CASE ResolveReturns
  <2>1. walk = "parse" /\ content' = content /\ decls' = decls /\ found' = found /\ loads' = loads
    BY <1>3 DEF ResolveReturns
  <2>2. ~ImportsConflict(Top.file)
    BY <1>1, <2>1, TopIsDone, ImportsNeverConflict
  <2>3. PICK outcome \in Outcomes(Top.file) :
          IF outcome = "resolved"
          THEN Leaves(Top.file, ResultOf(Top.file)) /\ UNCHANGED <<walk, calling>>
          ELSE FailWalk(outcome)
    BY <1>3 DEF ResolveReturns
  <2>4. outcome \in {"binding", "ref", "pipeline", "panic", "resolved"}
    BY <2>2 DEF Outcomes
  <2>5. CASE outcome = "resolved"
    BY <1>1, <2>1, <2>3, <2>5 DEF Leaves, Result
  <2>6. CASE outcome # "resolved"
    BY <1>1, <2>1, <2>3, <2>4, <2>6 DEF FailWalk
  <2> QED BY <2>5, <2>6
<1> QED BY <1>2, <1>3

\* What was loaded stays loaded.
LEMMA Grows ==
  ASSUME ImportInv, [ImportsNext]_importsState
  PROVE  /\ walk' = walk /\ DOMAIN content \subseteq DOMAIN content'
         /\ \A g \in DOMAIN content : content'[g] = content[g]
         /\ settled \subseteq settled'
<1>1. CASE LoadsFile
  <2>1. /\ walk' = walk /\ settled' = settled /\ calling \notin DOMAIN content
        /\ \E c \in Contents[walk] : content' = With(content, calling, c)
    BY <1>1, LoadCases
  <2> QED BY <2>1 DEF With
<1>2. CASE CollectReturns \/ ResolveReturns
  BY <1>2, ReturnCases
<1>3. CASE CallsSettled \/ FindsCycle \/ FollowsImport
  BY <1>3 DEF CallsSettled, FindsCycle, FollowsImport, FailWalk
<1>4. CASE UNCHANGED importsState
  BY <1>4 DEF importsState
<1> QED BY <1>1, <1>2, <1>3, <1>4 DEF ImportsNext

\* The frames after a push, a pop and an alias followed.
LEMMA Pushed ==
  ASSUME ImportsTypeOK, NEW x \in Frame, NEW next, next = Append(frames, x)
  PROVE  /\ next \in Seq(Frame) /\ Len(next) = Len(frames) + 1 /\ Len(frames) \in Nat
         /\ \A i \in 1..Len(frames) : next[i] = frames[i]
         /\ next[Len(frames) + 1] = x
BY DEF ImportsTypeOK

LEMMA FollowCases ==
  ASSUME ImportInv, FollowsImport
  PROVE  /\ failure = "none" /\ calling = "none" /\ frames # <<>>
         /\ UNCHANGED <<walk, content, visiting, settled, result, decls, found, loads, failure>>
         /\ frames' \in Seq(Frame) /\ Len(frames') = Len(frames)
         /\ \A i \in 1..Len(frames) : frames'[i].file = frames[i].file
         /\ \A i \in 1..Len(frames) - 1 : frames'[i] = frames[i]
         /\ \E a \in Top.todo : /\ calling' = Aliases(Top.file)[a]
                                /\ frames'[Len(frames)].todo = Top.todo \ {a}
<1>1. /\ failure = "none" /\ calling = "none" /\ frames # <<>>
      /\ UNCHANGED <<walk, content, visiting, settled, result, decls, found, loads, failure>>
  BY DEF FollowsImport, Ended
<1>2. PICK a \in Top.todo : /\ calling' = Aliases(Top.file)[a]
                            /\ frames' = [frames EXCEPT ![Len(frames)].todo = @ \ {a}]
  BY DEF FollowsImport
<1>3. frames \in Seq(Frame) /\ Top = frames[Len(frames)] /\ Len(frames) \in 1..Len(frames)
  BY <1>1, TopFacts DEF ImportInv, ImportsTypeOK
<1> DEFINE n == Len(frames)
           x == [frames[n] EXCEPT !.todo = @ \ {a}]
<1>4. /\ frames[n] \in Frame /\ n \in 1..n /\ n \in Nat /\ frames' = [frames EXCEPT ![n] = x]
      /\ Top = frames[n]
  BY <1>2, <1>3
<1>5. x \in Frame /\ x.file = frames[n].file /\ x.todo = frames[n].todo \ {a}
  BY <1>4 DEF Frame
<1> HIDE DEF x
<1>6. frames' \in Seq(Frame) /\ Len(frames') = n /\ frames'[n] = x
  BY <1>3, <1>4, <1>5
<1>7. \A i \in 1..(n - 1) : frames'[i] = frames[i]
  BY <1>3, <1>4, <1>5
<1>8. \A i \in 1..n : frames'[i].file = frames[i].file
  <2>1. \A i \in 1..n : i \in 1..(n - 1) \/ i = n
    BY <1>4
  <2> HIDE DEF n
  <2> QED BY <2>1, <1>5, <1>6, <1>7
<1> HIDE DEF n
<1>9. \E e \in Top.todo : calling' = Aliases(Top.file)[e] /\ frames'[n].todo = Top.todo \ {e}
  BY <1>2, <1>4, <1>5, <1>6
<1> QED BY <1>1, <1>6, <1>7, <1>8, <1>9 DEF n

\* The marks follow the frames.
LEMMA MarksStep ==
  ASSUME ImportInv, [ImportsNext]_importsState
  PROVE  MarksMatchFrames'
<1> DEFINE n == Len(frames)
<1>0. /\ ImportsTypeOK /\ MarksMatchFrames /\ SettledIsClosed /\ n \in Nat /\ DOMAIN frames = 1..n
      /\ visiting \cap settled = {} /\ visiting = {frames[i].file : i \in 1..n}
      /\ IsFiniteSet(visiting) /\ Cardinality(visiting) = n
      /\ \A f \in File : loads[f] <= 1 /\ (loads[f] = 1 => f \in DOMAIN content)
  BY DEF ImportInv, MarksMatchFrames, ImportsTypeOK
<1> HIDE DEF n
<1>1. CASE LoadsFile
  <2>1. /\ failure = "none" /\ calling \in File /\ calling \notin DOMAIN content
        /\ settled' = settled /\ loads' = [loads EXCEPT ![calling] = @ + 1]
    BY <1>1, LoadCases
  <2>2. PICK c \in Contents[walk] :
          /\ content' = With(content, calling, c)
          /\ \/ /\ failure' \in {"load", "conflict", "imports"}
                /\ frames' = <<>> /\ visiting' = {}
             \/ /\ failure' = "none" /\ visiting' = visiting \union {calling}
                /\ frames' = Append(frames, [file |-> calling, todo |-> DOMAIN c.imports])
    BY <1>1, LoadCases
  <2>3. loads \in [File -> Nat] /\ loads[calling] = 0
    BY <1>0, <2>1 DEF ImportsTypeOK
  <2>4. \A f \in File : loads'[f] <= 1 /\ (loads'[f] = 1 => f \in DOMAIN content')
    BY <1>0, <2>1, <2>2, <2>3 DEF With
  <2>5. CASE frames' = <<>> /\ visiting' = {}
    <3>1. IsFiniteSet({}) /\ Cardinality({}) = 0
      BY FS_EmptySet
    <3>2. visiting' = {frames'[i].file : i \in DOMAIN frames'}
      BY <2>5
    <3> QED BY <2>4, <2>5, <3>1, <3>2 DEF MarksMatchFrames
  <2>6. CASE failure' = "none" /\ visiting' = visiting \union {calling}
               /\ frames' = Append(frames, [file |-> calling, todo |-> DOMAIN c.imports])
    <3> DEFINE x == [file |-> calling, todo |-> DOMAIN c.imports]
    <3>1. x \in Frame /\ x.file = calling
      BY <1>0, <2>1, ContentTypes DEF Frame
    <3> HIDE DEF x
    <3>2. /\ Len(frames') = n + 1 /\ \A i \in 1..n : frames'[i] = frames[i]
          /\ frames'[n + 1] = x /\ DOMAIN frames' = 1..(n + 1)
      BY <1>0, <2>6, <3>1, Pushed DEF x, n
    <3>3. visiting' = {frames'[i].file : i \in 1..(n + 1)}
      <4>1. \A i \in 1..(n + 1) : i \in 1..n \/ i = n + 1
        BY <1>0
      <4>2. \A i \in 1..n : i \in 1..(n + 1)
        BY <1>0
      <4>3. n + 1 \in 1..(n + 1)
        BY <1>0
      <4> QED BY <1>0, <2>6, <3>1, <3>2, <4>1, <4>2, <4>3
    <3>4. calling \notin visiting /\ calling \notin settled
      BY <1>0, <2>1 DEF ImportsTypeOK
    <3>5. IsFiniteSet(visiting') /\ Cardinality(visiting') = n + 1
      BY <1>0, <2>6, <3>4, FS_AddElement
    <3> QED BY <1>0, <2>1, <2>4, <2>6, <3>2, <3>3, <3>4, <3>5 DEF MarksMatchFrames, Ended
  <2> QED BY <2>2, <2>5, <2>6
<1>2. CASE CollectReturns \/ ResolveReturns
  <2>1. /\ calling = "none" /\ frames # <<>> /\ Top.todo = {}
        /\ content' = content /\ loads' = loads
        /\ \/ frames' = <<>> /\ visiting' = {} /\ settled' = settled
           \/ /\ settled' = settled \union {Top.file} /\ visiting' = visiting \ {Top.file}
              /\ frames' = Front(frames) /\ failure' = IF Len(frames) = 1 THEN "ok" ELSE "none"
    BY <1>2, ReturnCases
  <2>2. CASE frames' = <<>> /\ visiting' = {}
    <3>1. IsFiniteSet({}) /\ Cardinality({}) = 0
      BY FS_EmptySet
    <3>2. visiting' = {frames'[i].file : i \in DOMAIN frames'}
      BY <2>2
    <3> QED BY <1>0, <2>1, <2>2, <3>1, <3>2 DEF MarksMatchFrames
  <2>3. CASE /\ settled' = settled \union {Top.file} /\ visiting' = visiting \ {Top.file}
             /\ frames' = Front(frames) /\ failure' = IF Len(frames) = 1 THEN "ok" ELSE "none"
    <3>1. /\ n \in 1..n /\ Top = frames[n] /\ Len(frames') = n - 1 /\ frames' \in Seq(Frame)
          /\ \A i \in 1..(n - 1) : frames'[i] = frames[i]
      BY <1>0, <2>1, <2>3, TopFacts DEF n
    <3>2. DOMAIN frames' = 1..(n - 1)
      BY <3>1
    <3>3. Top.file \in visiting
      BY <2>1, TopIsDone
    <3>4. \A i \in 1..n : frames[i].file = frames[n].file => i = n
      BY <1>0, <3>1, FramesDistinct DEF n
    <3>5. visiting' = {frames'[i].file : i \in 1..(n - 1)}
      <4>1. \A i \in 1..n : i \in 1..(n - 1) \/ i = n
        BY <1>0
      <4>2. \A i \in 1..(n - 1) : i \in 1..n /\ i # n
        BY <1>0
      <4>3. \A i \in 1..(n - 1) : frames'[i].file \in visiting \ {Top.file}
        BY <1>0, <3>1, <3>4, <4>2
      <4>4. \A v \in visiting \ {Top.file} : \E i \in 1..(n - 1) : v = frames'[i].file
        BY <1>0, <3>1, <4>1
      <4> QED BY <2>3, <4>3, <4>4
    <3>6. IsFiniteSet(visiting') /\ Cardinality(visiting') = n - 1
      BY <1>0, <2>3, <3>3, FS_RemoveElement
    <3>7. visiting' \cap settled' = {}
      BY <1>0, <2>3
    <3>8. (failure' # "none") => frames' = <<>>
      <4>1. n = 1 => frames' = <<>>
        BY <3>1
      <4> QED BY <2>3, <4>1 DEF n
    <3> QED BY <1>0, <2>1, <3>1, <3>2, <3>5, <3>6, <3>7, <3>8 DEF MarksMatchFrames, Ended
  <2> QED BY <2>1, <2>2, <2>3
<1>3. CASE CallsSettled
  BY <1>0, <1>3 DEF CallsSettled, MarksMatchFrames, Ended
<1>4. CASE FindsCycle
  <2>1. IsFiniteSet({}) /\ Cardinality({}) = 0
    BY FS_EmptySet
  <2>2. frames' = <<>> /\ visiting' = {} /\ settled' = settled /\ content' = content /\ loads' = loads
    BY <1>4 DEF FindsCycle, FailWalk
  <2>3. visiting' = {frames'[i].file : i \in DOMAIN frames'}
    BY <2>2
  <2> QED BY <1>0, <2>1, <2>2, <2>3 DEF MarksMatchFrames
<1>5. CASE FollowsImport
  <2>1. /\ failure = "none" /\ failure' = "none" /\ visiting' = visiting /\ settled' = settled
        /\ content' = content /\ loads' = loads
        /\ Len(frames') = n /\ \A i \in 1..n : frames'[i].file = frames[i].file
        /\ DOMAIN frames' = 1..n
    BY <1>5, <1>0, FollowCases DEF n
  <2>2. visiting' = {frames'[i].file : i \in DOMAIN frames'}
    BY <1>0, <2>1
  <2> QED BY <1>0, <2>1, <2>2 DEF MarksMatchFrames, Ended
<1>6. CASE UNCHANGED importsState
  BY <1>0, <1>6 DEF importsState, MarksMatchFrames, Ended
<1> QED BY <1>1, <1>2, <1>3, <1>4, <1>5, <1>6 DEF ImportsNext

\* FramesArePath of some frames, contents, call and settled files; and the
\* same with the last frame apart.
Path1(fr, co, ca, se) ==
  /\ \A i \in 1..Len(fr) - 1 : fr[i + 1].file \in Range(co[fr[i].file].imports)
  /\ ca # "none" /\ fr # <<>> => ca \in Range(co[Last(fr).file].imports)
  /\ \A i \in 1..Len(fr) :
       /\ fr[i].todo \subseteq DOMAIN co[fr[i].file].imports
       /\ \A a \in DOMAIN co[fr[i].file].imports \ fr[i].todo :
            co[fr[i].file].imports[a] \in se \union {IF i < Len(fr) THEN fr[i + 1].file ELSE ca}
Followed(x, co, se, awaited) ==
  /\ x.todo \subseteq DOMAIN co[x.file].imports
  /\ \A a \in DOMAIN co[x.file].imports \ x.todo : co[x.file].imports[a] \in se \union {awaited}
Path2(n, fr, co, ca, se) ==
  /\ \A i \in 1..(n - 1) : /\ fr[i + 1].file \in Range(co[fr[i].file].imports)
                           /\ Followed(fr[i], co, se, fr[i + 1].file)
  /\ n # 0 => /\ ca # "none" => ca \in Range(co[fr[n].file].imports)
              /\ Followed(fr[n], co, se, ca)

LEMMA PathParts ==
  ASSUME NEW fr \in Seq(Frame), NEW co, NEW ca, NEW se
  PROVE  Path1(fr, co, ca, se) <=> Path2(Len(fr), fr, co, ca, se)
<1> DEFINE n == Len(fr)
    Holds(i) == /\ fr[i].todo \subseteq DOMAIN co[fr[i].file].imports
                /\ \A a \in DOMAIN co[fr[i].file].imports \ fr[i].todo :
                     co[fr[i].file].imports[a]
                       \in se \union {IF i < n THEN fr[i + 1].file ELSE ca}
<1>1. n \in Nat /\ (fr # <<>> <=> n # 0) /\ Last(fr) = fr[n]
  BY DEF Last
<1>2. Path1(fr, co, ca, se) <=>
        /\ \A i \in 1..(n - 1) : fr[i + 1].file \in Range(co[fr[i].file].imports)
        /\ ca # "none" /\ n # 0 => ca \in Range(co[fr[n].file].imports)
        /\ \A i \in 1..n : Holds(i)
  BY <1>1 DEF Path1
<1> HIDE DEF n
<1>3. \A i \in 1..(n - 1) : i \in 1..n /\ i < n
  BY <1>1
<1>4. \A i \in 1..n : (i \in 1..(n - 1) /\ i < n) \/ (i = n /\ ~(i < n) /\ n # 0)
  BY <1>1
<1>5. n # 0 => n \in 1..n /\ ~(n < n)
  BY <1>1
<1>6. \A i \in 1..(n - 1) : Holds(i) <=> Followed(fr[i], co, se, fr[i + 1].file)
  BY <1>3 DEF Followed
<1>7. n # 0 => (Holds(n) <=> Followed(fr[n], co, se, ca))
  BY <1>5 DEF Followed
<1> HIDE DEF Holds
<1>8. (\A i \in 1..n : Holds(i)) <=> (\A i \in 1..(n - 1) : Holds(i)) /\ (n # 0 => Holds(n))
  BY <1>3, <1>4, <1>5
<1>9. (\A i \in 1..(n - 1) : Holds(i)) <=> \A i \in 1..(n - 1) : Followed(fr[i], co, se, fr[i + 1].file)
  BY <1>6
<1>10. Path2(n, fr, co, ca, se) <=>
         /\ \A i \in 1..(n - 1) : fr[i + 1].file \in Range(co[fr[i].file].imports)
         /\ \A i \in 1..(n - 1) : Followed(fr[i], co, se, fr[i + 1].file)
         /\ n # 0 => /\ ca # "none" => ca \in Range(co[fr[n].file].imports)
                     /\ Followed(fr[n], co, se, ca)
  BY DEF Path2
<1>11. Path1(fr, co, ca, se) <=> Path2(n, fr, co, ca, se)
  BY <1>2, <1>7, <1>8, <1>9, <1>10
<1> QED BY <1>11 DEF n

\* A frame of a file that stays loaded, awaiting the same file.
LEMMA StillFollowed ==
  ASSUME NEW co, NEW co2, NEW se, NEW se2, NEW x, NEW y, NEW awaited,
         x.file = y.file, x.todo = y.todo, co[x.file] = co2[x.file], se \subseteq se2,
         Followed(x, co, se, awaited)
  PROVE  Followed(y, co2, se2, awaited)
BY DEF Followed

LEMMA PathStep ==
  ASSUME ImportInv, [ImportsNext]_importsState
  PROVE  FramesArePath'
<1> DEFINE n == Len(frames)
<1>0. /\ ImportsTypeOK /\ MarksMatchFrames /\ n \in Nat /\ frames \in Seq(Frame)
      /\ Path2(n, frames, content, calling, settled)
  <2>1. ImportsTypeOK /\ MarksMatchFrames /\ n \in Nat /\ frames \in Seq(Frame)
    BY DEF ImportInv, ImportsTypeOK
  <2>2. Path1(frames, content, calling, settled)
    BY DEF ImportInv, FramesArePath, Path1, Targets, Aliases, Top
  <2> QED BY <2>1, <2>2, PathParts
<1>1. ASSUME frames' \in Seq(Frame), Path2(Len(frames'), frames', content', calling', settled')
      PROVE  FramesArePath'
  <2>1. Path1(frames', content', calling', settled')
    BY <1>1, PathParts
  <2> QED BY <2>1 DEF FramesArePath, Path1, Targets, Aliases, Top
<1>2. ASSUME frames' = <<>> PROVE FramesArePath'
  <2>1. frames' \in Seq(Frame) /\ Len(frames') = 0
    BY <1>2
  <2>2. Path2(0, frames', content', calling', settled')
    BY DEF Path2
  <2> QED BY <2>1, <2>2, <1>1
<1>3. \A i \in 1..n : frames[i].file \in DOMAIN content
  BY <1>0 DEF MarksMatchFrames, ImportsTypeOK
<1>4. /\ \A g \in DOMAIN content : content'[g] = content[g]
      /\ settled \subseteq settled'
  BY Grows
<1>5. \A i \in 1..(n - 1) : i \in 1..n /\ i + 1 \in 1..n
  BY <1>0
<1>6. n # 0 => n \in 1..n /\ Top = frames[n]
  BY <1>0, TopFacts
<1>7. (frames = <<>>) = (n = 0)
  BY <1>0
<1> HIDE DEF n
<1>8. CASE LoadsFile
  <2>1. /\ calling \in File /\ settled' = settled /\ calling' = "none" /\ calling # "none"
    BY <1>8, LoadCases, ImportsAssumption
  <2>2. PICK c \in Contents[walk] :
          /\ content' = With(content, calling, c)
          /\ \/ frames' = <<>>
             \/ frames' = Append(frames, [file |-> calling, todo |-> DOMAIN c.imports])
    BY <1>8, LoadCases
  <2> DEFINE x == [file |-> calling, todo |-> DOMAIN c.imports]
  <2>3. x \in Frame /\ x.file = calling /\ x.todo = DOMAIN c.imports
    BY <1>0, <2>1, ContentTypes DEF Frame
  <2> HIDE DEF x
  <2>4. CASE frames' = Append(frames, x)
    <3>1. /\ frames' \in Seq(Frame) /\ Len(frames') = n + 1 /\ \A i \in 1..n : frames'[i] = frames[i]
          /\ frames'[n + 1] = x
      BY <1>0, <2>3, <2>4, Pushed DEF n
    <3>2. ASSUME NEW i \in 1..((n + 1) - 1)
          PROVE  /\ frames'[i + 1].file \in Range(content'[frames'[i].file].imports)
                 /\ Followed(frames'[i], content', settled', frames'[i + 1].file)
      <4>1. i \in 1..n /\ n # 0 /\ (i \in 1..(n - 1) \/ i = n)
        BY <1>0
      <4>2. frames'[i] = frames[i] /\ content'[frames[i].file] = content[frames[i].file]
        BY <1>3, <1>4, <3>1, <4>1
      <4> DEFINE next == frames'[i + 1].file
      <4>3. next \in Range(content[frames[i].file].imports) /\ Followed(frames[i], content, settled, next)
        <5>1. CASE i \in 1..(n - 1)
          <6>1. next = frames[i + 1].file
            BY <1>5, <3>1, <5>1
          <6> QED BY <5>1, <6>1, <1>0 DEF Path2
        <5>2. CASE i = n
          <6>1. next = calling
            BY <2>3, <3>1, <5>2
          <6> HIDE DEF next
          <6> QED BY <4>1, <5>2, <6>1, <1>0, <2>1 DEF Path2
        <5> QED BY <4>1, <5>1, <5>2
      <4> HIDE DEF next
      <4>4. Followed(frames'[i], content', settled', next)
        BY <4>2, <4>3, <1>4, StillFollowed
      <4> QED BY <4>2, <4>3, <4>4 DEF next
    <3>3. Followed(frames'[n + 1], content', settled', calling')
      <4>1. content'[calling] = c
        BY <2>2 DEF With
      <4> QED BY <2>3, <3>1, <4>1 DEF Followed
    <3>4. Path2(n + 1, frames', content', calling', settled')
      BY <2>1, <3>2, <3>3 DEF Path2
    <3> QED BY <3>1, <3>4, <1>1
  <2> QED BY <2>2, <2>4, <1>2 DEF x
<1>9. CASE CollectReturns \/ ResolveReturns
  <2>1. /\ calling = "none" /\ calling' = "none" /\ frames # <<>> /\ content' = content
        /\ \/ frames' = <<>>
           \/ settled' = settled \union {Top.file} /\ frames' = Front(frames)
    BY <1>9, ReturnCases
  <2>2. CASE settled' = settled \union {Top.file} /\ frames' = Front(frames)
    <3>1. /\ n # 0 /\ Top = frames[n] /\ Len(frames') = n - 1 /\ frames' \in Seq(Frame)
          /\ \A i \in 1..(n - 1) : frames'[i] = frames[i]
      BY <1>0, <1>7, <2>1, <2>2, TopFacts DEF n
    <3>2. ASSUME NEW i \in 1..((n - 1) - 1)
          PROVE  /\ frames'[i + 1].file \in Range(content'[frames'[i].file].imports)
                 /\ Followed(frames'[i], content', settled', frames'[i + 1].file)
      <4>1. i \in 1..(n - 1) /\ i + 1 \in 1..(n - 1)
        BY <1>0, <3>1
      <4>2. frames'[i] = frames[i] /\ frames'[i + 1] = frames[i + 1]
        BY <3>1, <4>1
      <4>3. /\ frames[i + 1].file \in Range(content[frames[i].file].imports)
            /\ Followed(frames[i], content, settled, frames[i + 1].file)
        BY <1>0, <4>1 DEF Path2
      <4>4. Followed(frames'[i], content', settled', frames'[i + 1].file)
        BY <4>2, <4>3, <1>4, <2>1, StillFollowed
      <4> QED BY <2>1, <4>2, <4>3, <4>4
    <3>3. (n - 1) # 0 => Followed(frames'[n - 1], content', settled', calling')
      <4> SUFFICES ASSUME n - 1 # 0 PROVE Followed(frames'[n - 1], content', settled', calling')
        OBVIOUS
      <4>1. n - 1 \in 1..(n - 1) /\ (n - 1) + 1 = n
        BY <1>0, <3>1
      <4>2. frames'[n - 1] = frames[n - 1]
        BY <3>1, <4>1
      <4>3. Followed(frames[n - 1], content, settled, frames[n].file)
        BY <1>0, <4>1 DEF Path2
      <4> QED BY <2>1, <2>2, <3>1, <4>2, <4>3 DEF Followed
    <3>4. Path2(n - 1, frames', content', calling', settled')
      BY <2>1, <3>2, <3>3 DEF Path2
    <3> QED BY <3>1, <3>4, <1>1
  <2> QED BY <2>1, <2>2, <1>2
<1>10. CASE CallsSettled
  <2>1. /\ calling \in settled /\ calling' = "none"
        /\ UNCHANGED <<content, frames, settled>>
    BY <1>10 DEF CallsSettled
  <2>2. Path2(n, frames, content, "none", settled)
    BY <1>0, <2>1 DEF Path2, Followed
  <2> QED BY <1>0, <1>1, <2>1, <2>2 DEF n
<1>11. CASE FindsCycle
  BY <1>2, <1>11 DEF FindsCycle, FailWalk
<1>12. CASE FollowsImport
  <2>1. /\ calling = "none" /\ frames # <<>> /\ content' = content /\ settled' = settled
        /\ frames' \in Seq(Frame) /\ Len(frames') = n
        /\ \A i \in 1..n : frames'[i].file = frames[i].file
        /\ \A i \in 1..n - 1 : frames'[i] = frames[i]
        /\ \E a \in Top.todo : /\ calling' = Aliases(Top.file)[a]
                               /\ frames'[n].todo = Top.todo \ {a}
    BY <1>12, FollowCases DEF n
  <2>2. PICK a \in Top.todo : /\ calling' = content[Top.file].imports[a]
                              /\ frames'[n].todo = Top.todo \ {a}
    BY <2>1 DEF Aliases
  <2>3. n # 0 /\ Top = frames[n] /\ frames'[n].file = Top.file
    BY <1>6, <1>7, <2>1
  <2>4. Followed(Top, content, settled, "none")
    BY <1>0, <2>1, <2>3 DEF Path2
  <2>5. Followed(frames'[n], content', settled', calling')
    <3>1. DOMAIN content[Top.file].imports \ (Top.todo \ {a})
            = (DOMAIN content[Top.file].imports \ Top.todo) \union {a}
      BY <2>4 DEF Followed
    <3>2. \A e \in DOMAIN content[Top.file].imports \ Top.todo : content[Top.file].imports[e] \in settled
      <4>1. content[Top.file] \in Contents[walk]
        BY <1>0, <1>3, <1>6, <2>3 DEF ImportsTypeOK
      <4>2. \A e \in DOMAIN content[Top.file].imports : content[Top.file].imports[e] \in File
        BY <1>0, <4>1, ContentTypes
      <4> QED BY <2>4, <4>2, ImportsAssumption DEF Followed
    <3> QED BY <2>1, <2>2, <2>3, <2>4, <3>1, <3>2 DEF Followed
  <2>6. calling' \in Range(content'[frames'[n].file].imports)
    BY <2>1, <2>2, <2>3, <2>4 DEF Followed, Range
  <2>7. ASSUME NEW i \in 1..(n - 1)
        PROVE  /\ frames'[i + 1].file \in Range(content'[frames'[i].file].imports)
               /\ Followed(frames'[i], content', settled', frames'[i + 1].file)
    BY <1>0, <1>5, <2>1 DEF Path2
  <2>8. Path2(n, frames', content', calling', settled')
    BY <2>5, <2>6, <2>7 DEF Path2
  <2> QED BY <2>1, <2>8, <1>1
<1>13. CASE UNCHANGED importsState
  BY <1>13 DEF importsState, ImportInv, FramesArePath, Targets, Aliases, Top
<1> QED BY <1>8, <1>9, <1>10, <1>11, <1>12, <1>13 DEF ImportsNext

\* AcyclicIn of some contents.
Acyclic(F, co) == \A S \in SUBSET F : S = {} \/ \E f \in S : Range(co[f].imports) \cap S = {}

LEMMA AcyclicAdds ==
  ASSUME NEW co, NEW F, NEW f, f \notin F, Acyclic(F, co), Range(co[f].imports) \subseteq F,
         \A g \in F : Range(co[g].imports) \subseteq F
  PROVE  Acyclic(F \union {f}, co)
<1> SUFFICES ASSUME NEW S \in SUBSET (F \union {f}), S # {}
             PROVE  \E g \in S : Range(co[g].imports) \cap S = {}
  BY DEF Acyclic
<1>1. CASE S \ {f} = {}
  BY <1>1
<1>2. CASE S \ {f} # {}
  <2>1. PICK g \in S \ {f} : Range(co[g].imports) \cap (S \ {f}) = {}
    BY <1>2 DEF Acyclic
  <2>2. g \in F
    BY <2>1
  <2> QED BY <2>1, <2>2
<1> QED BY <1>1, <1>2

LEMMA AcyclicKeeps ==
  ASSUME NEW co, NEW co2, NEW F, Acyclic(F, co), \A g \in F : co2[g] = co[g]
  PROVE  Acyclic(F, co2)
<1> SUFFICES ASSUME NEW S \in SUBSET F, S # {}
             PROVE  \E g \in S : Range(co2[g].imports) \cap S = {}
  BY DEF Acyclic
<1>1. PICK g \in S : Range(co[g].imports) \cap S = {}
  BY DEF Acyclic
<1> QED BY <1>1

LEMMA ClosedStep ==
  ASSUME ImportInv, [ImportsNext]_importsState
  PROVE  SettledIsClosed'
<1>0. /\ ImportsTypeOK /\ settled \subseteq DOMAIN content
      /\ failure \in {"none", "ok"} => DOMAIN content = visiting \union settled
      /\ \A f \in settled : Range(content[f].imports) \subseteq settled
      /\ Acyclic(settled, content)
  BY DEF ImportInv, ImportsTypeOK, SettledIsClosed, AcyclicIn, Acyclic, Targets, Aliases
<1>1. ASSUME failure' \in {"none", "ok"} => DOMAIN content' = visiting' \union settled',
             \A f \in settled' : Range(content'[f].imports) \subseteq settled',
             Acyclic(settled', content')
      PROVE  SettledIsClosed'
  BY <1>1 DEF SettledIsClosed, AcyclicIn, Acyclic, Targets, Aliases
<1>2. \A g \in DOMAIN content : content'[g] = content[g]
  BY Grows
<1>3. ASSUME settled' = settled, failure' \in {"none", "ok"} => DOMAIN content' = visiting' \union settled'
      PROVE  SettledIsClosed'
  <2>1. \A f \in settled : content'[f] = content[f]
    BY <1>0, <1>2
  <2>2. Acyclic(settled', content')
    BY <1>0, <1>3, <2>1, AcyclicKeeps
  <2> QED BY <1>0, <1>1, <1>3, <2>1, <2>2
<1>4. CASE LoadsFile
  <2>1. /\ failure = "none" /\ settled' = settled
        /\ \E c \in Contents[walk] :
             /\ content' = With(content, calling, c)
             /\ \/ failure' \in {"load", "conflict", "imports"}
                \/ failure' = "none" /\ visiting' = visiting \union {calling}
    BY <1>4, LoadCases
  <2> QED BY <1>0, <1>3, <2>1 DEF With
<1>5. CASE CollectReturns \/ ResolveReturns
  <2>1. /\ failure = "none" /\ content' = content
        /\ calling = "none" /\ frames # <<>> /\ Top.todo = {}
        /\ \/ failure' \in {"binding", "ref", "pipeline", "panic"} /\ settled' = settled
           \/ /\ settled' = settled \union {Top.file} /\ visiting' = visiting \ {Top.file}
              /\ failure' = IF Len(frames) = 1 THEN "ok" ELSE "none"
    BY <1>5, ReturnCases
  <2>2. /\ Top.file \in visiting /\ Top.file \notin settled
        /\ Range(content[Top.file].imports) \subseteq settled
    BY <2>1, TopIsDone DEF Targets, Aliases
  <2>3. CASE failure' \in {"binding", "ref", "pipeline", "panic"} /\ settled' = settled
    BY <1>3, <2>3
  <2>4. CASE settled' = settled \union {Top.file} /\ visiting' = visiting \ {Top.file}
    <3>1. Acyclic(settled \union {Top.file}, content)
      BY <1>0, <2>2, AcyclicAdds
    <3>2. DOMAIN content' = visiting' \union settled'
      BY <1>0, <2>1, <2>2, <2>4
    <3>3. \A f \in settled' : Range(content'[f].imports) \subseteq settled'
      BY <1>0, <2>1, <2>2, <2>4
    <3> QED BY <1>1, <2>1, <2>4, <3>1, <3>2, <3>3
  <2> QED BY <2>1, <2>3, <2>4
<1>6. CASE CallsSettled
  BY <1>0, <1>3, <1>6 DEF CallsSettled, Ended
<1>7. CASE FindsCycle
  BY <1>3, <1>7 DEF FindsCycle, FailWalk
<1>8. CASE FollowsImport
  BY <1>0, <1>3, <1>8, FollowCases
<1>9. CASE UNCHANGED importsState
  BY <1>0, <1>3, <1>9 DEF importsState
<1> QED BY <1>4, <1>5, <1>6, <1>7, <1>8, <1>9 DEF ImportsNext

\* What is declared changes when a file is loaded, as DeclareAll says.
LEMMA LoadDeclares ==
  ASSUME ImportInv, LoadsFile
  PROVE  \E c \in Contents[walk] :
           /\ content' = With(content, calling, c)
           /\ \/ failure' = "load" /\ decls' = decls /\ found' = found
              \/ /\ failure' \in {"none", "conflict", "imports"}
                 /\ Consistent(decls', found')
                 /\ failure' # "conflict" => Range(found') = Range(found) \union Range(PluginSpecs(c))
                 /\ failure' = "conflict" => Clash(Range(found) \union Range(PluginSpecs(c)))
<1>1. calling \notin DOMAIN content
  BY LoadCases
<1>2. PICK c \in Contents[walk] : LoadsFile!3!(c)
  BY <1>1 DEF LoadsFile
<1> DEFINE a == DeclareAll(Start, PluginSpecs(c))
<1>3. Start.decls = decls /\ Start.found = found /\ Start.clash = FALSE
  BY DEF Start
<1>4. Consistent(Start.decls, Start.found)
  BY <1>3 DEF ImportInv, ImportsTypeOK, FoundIsDeclared, Consistent
<1>5. PluginSpecs(c) \in Seq(PluginBlock)
  BY ContentTypes DEF PluginSpecs, ImportInv
<1>6. /\ a.clash \in BOOLEAN /\ Consistent(a.decls, a.found)
      /\ a.clash = FALSE => Range(a.found) = Range(found) \union Range(PluginSpecs(c))
      /\ a.clash = TRUE => Clash(Range(found) \union Range(PluginSpecs(c)))
  BY <1>3, <1>4, <1>5, DeclareAllSpecs
<1>7. /\ content' = With(content, calling, c)
      /\ IF c.fault = "load" THEN UNCHANGED <<decls, found>>
         ELSE decls' = a.decls /\ found' = a.found
      /\ \/ c.fault = "load" /\ FailWalk("load")
         \/ c.fault # "load" /\ a.clash /\ FailWalk("conflict")
         \/ c.fault = "imports" /\ ~a.clash /\ FailWalk("imports")
         \/ c.fault \notin {"load", "imports"} /\ ~a.clash /\ failure' = failure
  BY <1>2
<1>8. failure = "none"
  BY LoadCases
<1> HIDE DEF a
<1>9. CASE c.fault = "load"
  BY <1>7, <1>9 DEF FailWalk
<1>10. CASE c.fault # "load"
  BY <1>6, <1>7, <1>8, <1>10 DEF FailWalk
<1> QED BY <1>7, <1>9, <1>10

LEMMA SpecsGrow ==
  ASSUME NEW x, x \notin DOMAIN content, NEW c, content' = With(content, x, c)
  PROVE  Specs' = Specs \union Range(c.plugins)
<1>1. DOMAIN content' = DOMAIN content \union {x} /\ content'[x] = c
      /\ \A y \in DOMAIN content : content'[y] = content[y]
  BY DEF With
<1>2. Specs' = UNION {Range(content'[f].plugins) : f \in DOMAIN content'}
  BY DEF Specs
<1>3. ASSUME NEW s \in Specs' PROVE s \in Specs \union Range(c.plugins)
  <2>1. PICK f \in DOMAIN content' : s \in Range(content'[f].plugins)
    BY <1>2, <1>3
  <2>2. CASE f = x
    BY <2>1, <2>2, <1>1
  <2>3. CASE f \in DOMAIN content
    BY <2>1, <2>3, <1>1 DEF Specs
  <2> QED BY <2>1, <2>2, <2>3, <1>1
<1>4. ASSUME NEW s \in Specs PROVE s \in Specs'
  <2>1. PICK f \in DOMAIN content : s \in Range(content[f].plugins)
    BY DEF Specs
  <2> QED BY <2>1, <1>1, <1>2
<1>5. ASSUME NEW s \in Range(c.plugins) PROVE s \in Specs'
  BY <1>1, <1>2
<1> QED BY <1>3, <1>4, <1>5

LEMMA FoundStep ==
  ASSUME ImportInv, [ImportsNext]_importsState
  PROVE  FoundIsDeclared' /\ found' \in Seq(PluginBlock)
<1>0. /\ Consistent(decls, found) /\ walk' = walk
      /\ walk = "plugins" /\ failure \in {"none", "ok"} => Range(found) = Specs
  BY Grows DEF ImportInv, ImportsTypeOK, FoundIsDeclared, Consistent
<1>1. ASSUME Consistent(decls', found'),
             walk = "plugins" /\ failure' \in {"none", "ok"} => Range(found') = Specs'
      PROVE  FoundIsDeclared' /\ found' \in Seq(PluginBlock)
  BY <1>0, <1>1 DEF FoundIsDeclared, Consistent
<1>2. ASSUME decls' = decls, found' = found, content' = content,
             failure' \in {"none", "ok"} => failure \in {"none", "ok"}
      PROVE  FoundIsDeclared' /\ found' \in Seq(PluginBlock)
  <2>1. Specs' = Specs
    BY <1>2 DEF Specs
  <2> QED BY <1>0, <1>1, <1>2, <2>1
<1>3. CASE LoadsFile
  <2>1. PICK c \in Contents[walk] :
           /\ content' = With(content, calling, c)
           /\ \/ failure' = "load" /\ decls' = decls /\ found' = found
              \/ /\ failure' \in {"none", "conflict", "imports"}
                 /\ Consistent(decls', found')
                 /\ failure' # "conflict" => Range(found') = Range(found) \union Range(PluginSpecs(c))
    BY <1>3, LoadDeclares
  <2>2. failure = "none" /\ calling \notin DOMAIN content
    BY <1>3, LoadCases
  <2>3. Specs' = Specs \union Range(c.plugins)
    BY <2>1, <2>2, SpecsGrow
  <2> QED BY <1>0, <1>1, <2>1, <2>2, <2>3 DEF PluginSpecs
<1>4. CASE CollectReturns \/ ResolveReturns
  <2>1. decls' = decls /\ found' = found /\ content' = content /\ failure = "none"
    BY <1>4, ReturnCases
  <2> QED BY <1>2, <2>1
<1>5. CASE CallsSettled \/ FindsCycle
  <2>1. decls' = decls /\ found' = found /\ content' = content /\ failure = "none"
    BY <1>5 DEF CallsSettled, FindsCycle, Ended
  <2> QED BY <1>2, <2>1
<1>6. CASE FollowsImport
  <2>1. decls' = decls /\ found' = found /\ content' = content /\ failure = "none"
    BY <1>6, FollowCases
  <2> QED BY <1>2, <2>1
<1>7. CASE UNCHANGED importsState
  <2>1. decls' = decls /\ found' = found /\ content' = content /\ failure' = failure
    BY <1>7 DEF importsState
  <2> QED BY <1>2, <2>1
<1> QED BY <1>3, <1>4, <1>5, <1>6, <1>7 DEF ImportsNext

-----------------------------------------------------------------------------
(* What a file resolves to.                                                *)

\* Declared, and what PipelinesMeanWhatTheySay says of a file, for some
\* contents, settled files and results.
DeclaredIn(co, se, r, verb) ==
  /\ r.ref[1] = verb /\ r.file \in se
  /\ \E b \in Range(co[r.file].resources) : b.verb = verb /\ r = BindingOf(r.file, b)

ImportsIn(co, re, f, x) ==
  x.alias \in DOMAIN co[f].imports /\ x.pipe \in DOMAIN re[co[f].imports[x.alias]].pipelines
SlotOfIn(co, re, f, x) == re[co[f].imports[x.alias]].pipelines[x.pipe].slots[x.verb]

NamesIn(co, re, f, verb, ref, r) ==
  IF ref.indexed
  THEN /\ ImportsIn(co, re, f, ref) /\ ref.index \in DOMAIN SlotOfIn(co, re, f, ref)
       /\ r = SlotOfIn(co, re, f, ref)[ref.index]
  ELSE \/ r.file = f /\ r.ref \in {ref.path, <<verb>> \o ref.path}
       \/ \E a \in DOMAIN co[f].imports : r.file = co[f].imports[a] /\ ref.path = Qualified(a, r.ref)

ListsIn(co, re, f, verb, refs, slot) ==
  Len(slot) = Len(refs) /\ \A i \in DOMAIN refs : NamesIn(co, re, f, verb, refs[i], slot[i])

SlotIn(co, re, f, verb, x, slot) ==
  IF x.whole THEN ImportsIn(co, re, f, x) /\ slot = SlotOfIn(co, re, f, x)
  ELSE ListsIn(co, re, f, verb, x.refs, slot)

MeansIn(co, se, re, f, p, q) ==
  /\ q.parallel \in Nat \ {0} /\ (q.seed = <<>>) = (q.slots["produce"] # <<>>)
  /\ \A verb \in Verb : \A r \in Range(q.slots[verb]) : DeclaredIn(co, se, r, verb)
  /\ \A r \in Range(q.seed) : DeclaredIn(co, se, r, "produce")
  /\ ListsIn(co, re, f, "produce", p.from, q.seed)
  /\ \A verb \in DOMAIN p.lists : SlotIn(co, re, f, verb, p.lists[verb], q.slots[verb])

SaysIn(co, se, re, f) ==
  /\ \A verb \in Verb : re[f].own[verb] = {BindingOf(f, b) : b \in {c \in Range(co[f].resources) : c.verb = verb}}
  /\ DOMAIN re[f].pipelines = {p.name : p \in Range(co[f].pipelines)}
  /\ \A p \in Range(co[f].pipelines) : MeansIn(co, se, re, f, p, re[f].pipelines[p.name])

LEMMA DeclaredForms ==
  ASSUME NEW r, NEW verb
  PROVE  Declared(r, verb) <=> DeclaredIn(content, settled, r, verb)
BY DEF Declared, DeclaredIn, Own

LEMMA DeclaredKeeps ==
  ASSUME NEW co, NEW co2, NEW se, NEW se2, NEW r, NEW verb,
         \A g \in se : co2[g] = co[g], se \subseteq se2, DeclaredIn(co, se, r, verb)
  PROVE  DeclaredIn(co2, se2, r, verb)
BY DEF DeclaredIn

\* Names and lists depend on the file and on the results of its imports only.
SameImports(co, re, re2, f) ==
  \A a \in DOMAIN co[f].imports : re2[co[f].imports[a]] = re[co[f].imports[a]]

LEMMA SlotKeeps ==
  ASSUME NEW co, NEW co2, NEW re, NEW re2, NEW f, co2[f] = co[f], SameImports(co, re, re2, f)
  PROVE  /\ \A verb, refs, slot :
              ListsIn(co, re, f, verb, refs, slot) => ListsIn(co2, re2, f, verb, refs, slot)
         /\ \A verb, x, slot :
              SlotIn(co, re, f, verb, x, slot) => SlotIn(co2, re2, f, verb, x, slot)
<1>1. ASSUME NEW x, ImportsIn(co, re, f, x)
      PROVE  ImportsIn(co2, re2, f, x) /\ SlotOfIn(co2, re2, f, x) = SlotOfIn(co, re, f, x)
  BY <1>1 DEF ImportsIn, SlotOfIn, SameImports
<1>2. ASSUME NEW verb, NEW ref, NEW r, NamesIn(co, re, f, verb, ref, r)
      PROVE  NamesIn(co2, re2, f, verb, ref, r)
  <2>1. CASE ref.indexed
    <3>1. ImportsIn(co, re, f, ref) /\ ref.index \in DOMAIN SlotOfIn(co, re, f, ref)
          /\ r = SlotOfIn(co, re, f, ref)[ref.index]
      BY <1>2, <2>1 DEF NamesIn
    <3> QED BY <1>1, <2>1, <3>1 DEF NamesIn
  <2>2. CASE ~ref.indexed
    BY <1>2, <2>2 DEF NamesIn
  <2> QED BY <2>1, <2>2
<1>3. ASSUME NEW verb, NEW refs, NEW slot, ListsIn(co, re, f, verb, refs, slot)
      PROVE  ListsIn(co2, re2, f, verb, refs, slot)
  BY <1>2, <1>3 DEF ListsIn
<1>4. ASSUME NEW verb, NEW x, NEW slot, SlotIn(co, re, f, verb, x, slot)
      PROVE  SlotIn(co2, re2, f, verb, x, slot)
  <2>1. CASE x.whole
    BY <1>1, <1>4, <2>1 DEF SlotIn
  <2>2. CASE ~x.whole
    BY <1>3, <1>4, <2>2 DEF SlotIn
  <2> QED BY <2>1, <2>2
<1> QED BY <1>3, <1>4

LEMMA SaysKeeps ==
  ASSUME NEW co, NEW co2, NEW se, NEW se2, NEW re, NEW re2, NEW f \in se,
         \A g \in se : co2[g] = co[g] /\ re2[g] = re[g], se \subseteq se2,
         Range(co[f].imports) \subseteq se, SaysIn(co, se, re, f)
  PROVE  SaysIn(co2, se2, re2, f)
<1>1. co2[f] = co[f] /\ re2[f] = re[f]
  OBVIOUS
<1>2. ASSUME NEW p \in Range(co[f].pipelines)
      PROVE  MeansIn(co2, se2, re2, f, p, re[f].pipelines[p.name])
  <2> DEFINE q == re[f].pipelines[p.name]
  <2>1. MeansIn(co, se, re, f, p, q)
    BY DEF SaysIn
  <2> HIDE DEF q
  <2>2. SameImports(co, re, re2, f)
    BY DEF SameImports, Range
  <2>6. /\ ListsIn(co2, re2, f, "produce", p.from, q.seed)
        /\ \A verb \in DOMAIN p.lists : SlotIn(co2, re2, f, verb, p.lists[verb], q.slots[verb])
    BY <1>1, <2>1, <2>2, SlotKeeps DEF MeansIn
  <2>3. \A verb \in Verb : \A r \in Range(q.slots[verb]) : DeclaredIn(co2, se2, r, verb)
    BY <2>1, DeclaredKeeps DEF MeansIn
  <2>4. \A r \in Range(q.seed) : DeclaredIn(co2, se2, r, "produce")
    BY <2>1, DeclaredKeeps DEF MeansIn
  <2>5. MeansIn(co2, se2, re2, f, p, q)
    BY <2>1, <2>3, <2>4, <2>6 DEF MeansIn
  <2> QED BY <2>5 DEF q
<1> QED BY <1>1, <1>2 DEF SaysIn

\* PipelinesMeanWhatTheySay, file by file.
LEMMA SaysForms ==
  PipelinesMeanWhatTheySay
    <=> (walk = "parse" => \A f \in settled : SaysIn(content, settled, result, f))
<1>1. ASSUME NEW f, NEW p, NEW q
      PROVE  Means(f, p, q) <=> MeansIn(content, settled, result, f, p, q)
  <2>1. \A verb, refs, slot : Lists(f, verb, refs, slot) <=> ListsIn(content, result, f, verb, refs, slot)
    BY DEF Lists, ListsIn, Names, NamesIn, ImportsPipeline, ImportsIn, ImportedSlot, SlotOfIn, Aliases, Child
  <2>3. \A x : /\ ImportsPipeline(f, x) <=> ImportsIn(content, result, f, x)
              /\ ImportedSlot(f, x) = SlotOfIn(content, result, f, x)
    BY DEF ImportsPipeline, ImportsIn, ImportedSlot, SlotOfIn, Aliases, Child
  <2>2. \A r, verb : Declared(r, verb) <=> DeclaredIn(content, settled, r, verb)
    BY DeclaredForms
  <2> QED BY <2>1, <2>2, <2>3 DEF Means, MeansIn, SlotIn
<1>2. ASSUME NEW f
      PROVE  SaysIn(content, settled, result, f) <=>
               /\ \A verb \in Verb : result[f].own[verb] = {BindingOf(f, b) : b \in Own(f, verb)}
               /\ DOMAIN result[f].pipelines = {p.name : p \in Range(content[f].pipelines)}
               /\ \A p \in Range(content[f].pipelines) : Means(f, p, result[f].pipelines[p.name])
  BY <1>1 DEF SaysIn, Own
<1> QED BY <1>2 DEF PipelinesMeanWhatTheySay

\* A file whose imports are settled and which is accepted.
Resolves(f) ==
  /\ ImportInv /\ walk = "parse" /\ f \in File /\ f \in DOMAIN content
  /\ Targets(f) \subseteq settled /\ "resolved" \in Outcomes(f)

LEMMA ResolvesFacts ==
  ASSUME NEW f, Resolves(f)
  PROVE  /\ ~BindingFails(f) /\ ~PipelinesFail(f) /\ RefsAdmitted(f)
         /\ content[f].resources \in Seq(Block) /\ content[f].pipelines \in Seq(Range(content[f].pipelines))
         /\ \A p \in Range(content[f].pipelines) : IsPipelineBlock(p)
         /\ \A a \in DOMAIN Aliases(f) : /\ a \in STRING /\ Aliases(f)[a] \in settled
                                         /\ Aliases(f)[a] \in Targets(f)
<1>1. ~BindingFails(f) /\ ~PipelinesFail(f) /\ RefsAdmitted(f)
  <2>1. "resolved" \in Outcomes(f)
    BY DEF Resolves
  <2> QED BY <2>1 DEF Outcomes
<1>2. content[f] \in Contents[walk] /\ ImportsTypeOK /\ Targets(f) \subseteq settled
  BY DEF Resolves, ImportInv, ImportsTypeOK
<1>3. /\ content[f].resources \in Seq(Block) /\ content[f].pipelines \in Seq(Range(content[f].pipelines))
      /\ \A p \in Range(content[f].pipelines) : IsPipelineBlock(p)
      /\ DOMAIN content[f].imports \subseteq STRING
  BY <1>2, ContentTypes
<1> QED BY <1>1, <1>2, <1>3 DEF Targets, Range, Aliases

\* The resource of a block that can be bound.
LEMMA BindingIsResource ==
  ASSUME NEW f, Resolves(f), NEW verb \in Verb, NEW b \in Own(f, verb)
  PROVE  /\ BindingOf(f, b) \in Resource /\ BindingOf(f, b).ref = RefOf(b) /\ BindingOf(f, b).file = f
         /\ RefOf(b)[1] = verb /\ b \in Block /\ b.verb = verb
         /\ DeclaredIn(content, settled \union {f}, BindingOf(f, b), verb)
<1>1. b \in Range(content[f].resources) /\ b.verb = verb
  BY DEF Own
<1>2. b \in Block
  <2>1. content[f].resources \in Seq(Block)
    BY ResolvesFacts
  <2> QED BY <1>1, <2>1 DEF Range
<1>3. RefOf(b) \in Path /\ RefOf(b)[1] = verb
  BY <1>1, <1>2, RefPaths
<1>4. Cardinality(Owners(b)) = 1
  BY <1>1, ResolvesFacts DEF BindingFails
<1>5. Owners(b) # {}
  BY <1>4, FS_EmptySet
<1>6. (CHOOSE p \in Owners(b) : TRUE) \in DOMAIN Provides
  BY <1>5 DEF Owners
<1>7. f \in File
  BY DEF Resolves
<1>8. BindingOf(f, b) \in Resource /\ BindingOf(f, b).ref = RefOf(b) /\ BindingOf(f, b).file = f
  BY <1>3, <1>6, <1>7 DEF BindingOf, Resource
<1>9. DeclaredIn(content, settled \union {f}, BindingOf(f, b), verb)
  BY <1>1, <1>3, <1>8 DEF DeclaredIn
<1> QED BY <1>1, <1>2, <1>3, <1>8, <1>9

\* The results of the imported files.
LEMMA ChildFacts ==
  ASSUME NEW f, Resolves(f), NEW a \in DOMAIN Aliases(f)
  PROVE  /\ Resolution(Child(f, a))
         /\ \A verb \in Verb : \A r \in Child(f, a).own[verb] :
              /\ r \in Resource /\ r.file = Aliases(f)[a] /\ DeclaredIn(content, settled, r, verb)
         /\ \A p \in DOMAIN Child(f, a).pipelines : \A verb \in Verb :
              /\ Child(f, a).pipelines[p].slots[verb] \in Seq(Resource)
              /\ \A r \in Range(Child(f, a).pipelines[p].slots[verb]) : DeclaredIn(content, settled, r, verb)
<1> DEFINE g == Aliases(f)[a]
           res == result[g]
<1>1. g \in settled
  BY ResolvesFacts
<1>2. Resolution(res) /\ SaysIn(content, settled, result, g)
  BY <1>1, SaysForms DEF Resolves, ImportInv, ImportsTypeOK
<1>3. content[g] \in Contents[walk] /\ ImportsTypeOK
  BY <1>1 DEF Resolves, ImportInv, ImportsTypeOK
<1>4. content[g].resources \in Seq(Block)
  BY <1>3, ContentTypes
<1> HIDE DEF g
<1>5. ASSUME NEW verb \in Verb, NEW r \in res.own[verb]
      PROVE  r \in Resource /\ r.file = g /\ DeclaredIn(content, settled, r, verb)
  <2>1. r \in Resource
    BY <1>2 DEF Resolution
  <2>2. PICK b \in Range(content[g].resources) : b.verb = verb /\ r = BindingOf(g, b)
    BY <1>2, <1>5 DEF SaysIn
  <2>3. r.file = g /\ r.ref = RefOf(b)
    BY <2>2 DEF BindingOf
  <2>4. b \in Block
    BY <1>4 DEF Range
  <2>5. r.ref[1] = verb
    BY <2>2, <2>3, <2>4, RefPaths
  <2> QED BY <1>1, <2>1, <2>2, <2>3, <2>5 DEF DeclaredIn
<1>6. ASSUME NEW n \in DOMAIN res.pipelines, NEW verb \in Verb
      PROVE  /\ res.pipelines[n].slots[verb] \in Seq(Resource)
             /\ \A r \in Range(res.pipelines[n].slots[verb]) : DeclaredIn(content, settled, r, verb)
  <2>1. res.pipelines[n].slots[verb] \in Seq(Resource)
    BY <1>2 DEF Resolution
  <2>2. PICK p \in Range(content[g].pipelines) : n = p.name
    BY <1>2 DEF SaysIn
  <2>3. MeansIn(content, settled, result, g, p, res.pipelines[n])
    BY <1>2, <2>2 DEF SaysIn
  <2> QED BY <2>1, <2>3 DEF MeansIn
<1> HIDE DEF res
<1>7. Child(f, a) = res
  BY DEF Child, res, g
<1> QED BY <1>2, <1>5, <1>6, <1>7 DEF g

\* What lookupBindings holds.
OwnEntry(f, verb, e) == \E b \in Own(f, verb) : e = <<RefOf(b), BindingOf(f, b)>>
ImportedEntry(f, verb, e) ==
  \E a \in DOMAIN Aliases(f) : \E r \in Child(f, a).own[verb] : e = <<Qualified(a, r.ref), r>>
SlotEntry(f, verb, e) ==
  \E a \in DOMAIN Aliases(f) : \E p \in DOMAIN Child(f, a).pipelines :
    \E i \in DOMAIN Child(f, a).pipelines[p].slots[verb] :
      e = <<SlotKey(a, p, verb, i), Child(f, a).pipelines[p].slots[verb][i]>>

LEMMA Entries ==
  ASSUME NEW f, NEW verb, NEW e \in LookupBindings(f, verb)
  PROVE  OwnEntry(f, verb, e) \/ ImportedEntry(f, verb, e) \/ SlotEntry(f, verb, e)
<1> DEFINE A == {<<RefOf(b), BindingOf(f, b)>> : b \in Own(f, verb)}
    B == UNION {{<<Qualified(a, r.ref), r>> : r \in Child(f, a).own[verb]} : a \in DOMAIN Aliases(f)}
    C == UNION {UNION {{<<SlotKey(a, p, verb, i), Child(f, a).pipelines[p].slots[verb][i]>> :
                          i \in DOMAIN Child(f, a).pipelines[p].slots[verb]} :
                       p \in DOMAIN Child(f, a).pipelines} : a \in DOMAIN Aliases(f)}
<1>1. LookupBindings(f, verb) = A \union B \union C
  BY Zenon DEF LookupBindings
<1>2. ASSUME e \in A PROVE OwnEntry(f, verb, e)
  BY <1>2 DEF OwnEntry
<1>3. ASSUME e \in B PROVE ImportedEntry(f, verb, e)
  BY <1>3 DEF ImportedEntry
<1>4. ASSUME e \in C PROVE SlotEntry(f, verb, e)
  <2>1. PICK a \in DOMAIN Aliases(f) :
          e \in UNION {{<<SlotKey(a, p, verb, i), Child(f, a).pipelines[p].slots[verb][i]>> :
                          i \in DOMAIN Child(f, a).pipelines[p].slots[verb]} :
                       p \in DOMAIN Child(f, a).pipelines}
    BY <1>4
  <2>2. PICK p \in DOMAIN Child(f, a).pipelines :
          e \in {<<SlotKey(a, p, verb, i), Child(f, a).pipelines[p].slots[verb][i]>> :
                   i \in DOMAIN Child(f, a).pipelines[p].slots[verb]}
    BY <2>1
  <2> QED BY <2>2 DEF SlotEntry
<1> HIDE DEF A, B, C
<1> QED BY <1>1, <1>2, <1>3, <1>4

\* How the keys begin.
LEMMA ThirdOfConcat ==
  ASSUME NEW S, NEW v \in Seq(S), NEW r \in Seq(S), Len(v) = 2, Len(r) > 0
  PROVE  (v \o r)[1] = v[1] /\ (v \o r)[3] = r[1]
<1>1. \A i \in 1..Len(v) + Len(r) : (v \o r)[i] = IF i <= Len(v) THEN v[i] ELSE r[i - Len(v)]
  BY ConcatProperties
<1>2. Len(r) \in Nat /\ 1 \in 1..Len(v) + Len(r) /\ 3 \in 1..Len(v) + Len(r) /\ 3 - Len(v) = 1
  OBVIOUS
<1>3. (v \o r)[3] = r[3 - Len(v)]
  <2>1. ~(3 <= Len(v))
    OBVIOUS
  <2> QED BY <1>1, <1>2, <2>1
<1>4. (v \o r)[1] = v[1]
  BY <1>1, <1>2
<1> QED BY <1>2, <1>3, <1>4

LEMMA QualifiedKey ==
  ASSUME NEW a \in STRING, NEW ref \in Path, Len(ref) > 0
  PROVE  Qualified(a, ref)[1] = "imports" /\ Qualified(a, ref)[3] = ref[1]
<1> DEFINE v == <<"imports", a>>
<1>1. v \in Seq(STRING) /\ Len(v) = 2 /\ v[1] = "imports" /\ ref \in Seq(STRING)
  BY LiteralsAreStrings DEF Path
<1> HIDE DEF v
<1>2. (v \o ref)[1] = v[1] /\ (v \o ref)[3] = ref[1]
  BY <1>1, ThirdOfConcat
<1> QED BY <1>1, <1>2 DEF Qualified, v

LEMMA ResourceRef ==
  ASSUME NEW co, NEW se, NEW verb \in Verb, NEW r \in Resource, DeclaredIn(co, se, r, verb),
         \A g \in se : co[g].resources \in Seq(Block)
  PROVE  r.ref \in Path /\ Len(r.ref) > 0 /\ r.ref[1] = verb
<1>1. PICK b \in Range(co[r.file].resources) : r = BindingOf(r.file, b)
  BY DEF DeclaredIn
<1>2. b \in Block
  BY <1>1 DEF DeclaredIn, Range
<1>3. r.ref = RefOf(b)
  BY <1>1 DEF BindingOf
<1>4. Len(RefOf(b)) > 0 /\ RefOf(b) \in Path
  BY <1>2, RefPaths
<1> QED BY <1>3, <1>4 DEF DeclaredIn

\* A resource that a file may run in a slot of a verb.
Runs(f, verb, r) == r \in Resource /\ DeclaredIn(content, settled \union {f}, r, verb)

\* Every entry of lookupBindings is such a resource, and the beginning of its
\* key tells where it comes from.
EntryFacts(f, verb, key, r) ==
  /\ Runs(f, verb, r)
  /\ \/ key[1] = verb /\ r.file = f /\ key = r.ref
     \/ /\ key[1] = "imports" /\ key[3] = verb
        /\ \E a \in DOMAIN Aliases(f) : r.file = Aliases(f)[a] /\ key = Qualified(a, r.ref)
     \/ /\ key[1] = "imports" /\ key[3] = "pipeline"
        /\ \E a \in DOMAIN Aliases(f) : \E p \in DOMAIN Child(f, a).pipelines :
             \E i \in DOMAIN Child(f, a).pipelines[p].slots[verb] :
               key = SlotKey(a, p, verb, i) /\ r = Child(f, a).pipelines[p].slots[verb][i]

LEMMA EntryIsFact ==
  ASSUME NEW f, Resolves(f), NEW verb \in Verb, NEW e \in LookupBindings(f, verb)
  PROVE  EntryFacts(f, verb, e[1], e[2]) /\ e = <<e[1], e[2]>>
<1>0. \A g \in settled : content[g].resources \in Seq(Block)
  <2> SUFFICES ASSUME NEW g \in settled PROVE content[g].resources \in Seq(Block)
    OBVIOUS
  <2>1. ImportsTypeOK /\ content[g] \in Contents[walk]
    BY DEF Resolves, ImportInv, ImportsTypeOK
  <2> QED BY <2>1, ContentTypes
<1>1. CASE OwnEntry(f, verb, e)
  <2>1. PICK b \in Own(f, verb) : e = <<RefOf(b), BindingOf(f, b)>>
    BY <1>1 DEF OwnEntry
  <2>2. /\ BindingOf(f, b) \in Resource /\ BindingOf(f, b).file = f /\ RefOf(b)[1] = verb
        /\ BindingOf(f, b).ref = RefOf(b)
        /\ DeclaredIn(content, settled \union {f}, BindingOf(f, b), verb)
    BY BindingIsResource
  <2>3. e[1] = RefOf(b) /\ e[2] = BindingOf(f, b) /\ e = <<e[1], e[2]>>
    BY <2>1
  <2> QED BY <2>2, <2>3 DEF EntryFacts, Runs
<1>2. CASE ImportedEntry(f, verb, e)
  <2>0. PICK a \in DOMAIN Aliases(f) :
          \E r \in Child(f, a).own[verb] : e = <<Qualified(a, r.ref), r>>
    BY <1>2 DEF ImportedEntry
  <2>1. PICK r \in Child(f, a).own[verb] : e = <<Qualified(a, r.ref), r>>
    BY <2>0
  <2>2. a \in STRING
    BY ResolvesFacts
  <2>3. r \in Resource /\ r.file = Aliases(f)[a] /\ DeclaredIn(content, settled, r, verb)
    BY ChildFacts
  <2>4. r.ref \in Path /\ Len(r.ref) > 0 /\ r.ref[1] = verb
    BY <1>0, <2>3, ResourceRef
  <2>5. Qualified(a, r.ref)[1] = "imports" /\ Qualified(a, r.ref)[3] = verb
    BY <2>2, <2>4, QualifiedKey
  <2>6. DeclaredIn(content, settled \union {f}, r, verb)
    BY <2>3 DEF DeclaredIn
  <2>7. e[1] = Qualified(a, r.ref) /\ e[2] = r /\ e = <<e[1], e[2]>>
    BY <2>1
  <2> QED BY <2>2, <2>3, <2>5, <2>6, <2>7 DEF EntryFacts, Runs
<1>3. CASE SlotEntry(f, verb, e)
  <2>0. PICK a \in DOMAIN Aliases(f) : \E p \in DOMAIN Child(f, a).pipelines :
          \E i \in DOMAIN Child(f, a).pipelines[p].slots[verb] :
            e = <<SlotKey(a, p, verb, i), Child(f, a).pipelines[p].slots[verb][i]>>
    BY <1>3 DEF SlotEntry
  <2>a. PICK p \in DOMAIN Child(f, a).pipelines :
          \E i \in DOMAIN Child(f, a).pipelines[p].slots[verb] :
            e = <<SlotKey(a, p, verb, i), Child(f, a).pipelines[p].slots[verb][i]>>
    BY <2>0
  <2>1. PICK i \in DOMAIN Child(f, a).pipelines[p].slots[verb] :
          e = <<SlotKey(a, p, verb, i), Child(f, a).pipelines[p].slots[verb][i]>>
    BY <2>a
  <2> DEFINE slot == Child(f, a).pipelines[p].slots[verb]
             r == slot[i]
  <2>2. slot \in Seq(Resource) /\ \A x \in Range(slot) : DeclaredIn(content, settled, x, verb)
    BY ChildFacts
  <2>3. e[1] = SlotKey(a, p, verb, i) /\ e[2] = r /\ e = <<e[1], e[2]>>
    BY <2>1
  <2>4. r \in Resource /\ r \in Range(slot)
    <3>1. i \in DOMAIN slot
      OBVIOUS
    <3> HIDE DEF slot
    <3> QED BY <2>2, <3>1 DEF Range
  <2>5. DeclaredIn(content, settled \union {f}, r, verb)
    <3>1. DeclaredIn(content, settled, r, verb)
      BY <2>2, <2>4
    <3> HIDE DEF r
    <3> QED BY <3>1 DEF DeclaredIn
  <2>6. SlotKey(a, p, verb, i)[1] = "imports" /\ SlotKey(a, p, verb, i)[3] = "pipeline"
    BY DEF SlotKey
  <2>7. Runs(f, verb, e[2])
    BY <2>3, <2>4, <2>5 DEF Runs
  <2> QED BY <2>3, <2>6, <2>7 DEF EntryFacts
<1> QED BY <1>1, <1>2, <1>3, Entries

\* A key that resolveRefs knows stands for such a resource.
LEMMA KnownAt ==
  ASSUME NEW f, Resolves(f), NEW verb \in Verb, NEW key, Known(f, verb, key)
  PROVE  EntryFacts(f, verb, key, At(f, verb, key)) /\ Runs(f, verb, At(f, verb, key))
<1> DEFINE e == CHOOSE x \in LookupBindings(f, verb) : x[1] = key
<1>1. e \in LookupBindings(f, verb) /\ e[1] = key
  BY DEF Known
<1>2. At(f, verb, key) = e[2]
  BY DEF At
<1> HIDE DEF e
<1>3. EntryFacts(f, verb, e[1], e[2])
  BY <1>1, EntryIsFact
<1> QED BY <1>1, <1>2, <1>3 DEF EntryFacts

\* The pipelines of an import, and a slot of one.
LEMMA ImportForms ==
  ASSUME NEW f, NEW x
  PROVE  /\ ImportsPipeline(f, x) <=> ImportsIn(content, result, f, x)
         /\ ImportedSlot(f, x) = SlotOfIn(content, result, f, x)
BY DEF ImportsPipeline, ImportsIn, ImportedSlot, SlotOfIn, Aliases, Child

\* Where a key came from, when it is the key of a slot's element.
LEMMA SlotKeyFact ==
  ASSUME NEW f, NEW verb \in Verb, NEW a, NEW p, NEW v, NEW i, NEW r, NEW key,
         key = SlotKey(a, p, v, i), EntryFacts(f, verb, key, r)
  PROVE  /\ v = verb /\ a \in DOMAIN Aliases(f) /\ p \in DOMAIN Child(f, a).pipelines
         /\ i \in DOMAIN Child(f, a).pipelines[p].slots[verb]
         /\ r = Child(f, a).pipelines[p].slots[verb][i]
<1>1. key = <<"imports", a, "pipeline", p, v, i>>
  BY DEF SlotKey
<1>2. key[1] = "imports" /\ key[3] = "pipeline"
  BY <1>1
<1>4. PICK b \in DOMAIN Aliases(f) : \E n \in DOMAIN Child(f, b).pipelines :
        \E j \in DOMAIN Child(f, b).pipelines[n].slots[verb] :
          key = SlotKey(b, n, verb, j) /\ r = Child(f, b).pipelines[n].slots[verb][j]
  BY <1>2 DEF EntryFacts, Verb
<1>5. PICK n \in DOMAIN Child(f, b).pipelines : \E j \in DOMAIN Child(f, b).pipelines[n].slots[verb] :
        key = SlotKey(b, n, verb, j) /\ r = Child(f, b).pipelines[n].slots[verb][j]
  BY <1>4
<1>6. PICK j \in DOMAIN Child(f, b).pipelines[n].slots[verb] :
        key = SlotKey(b, n, verb, j) /\ r = Child(f, b).pipelines[n].slots[verb][j]
  BY <1>5
<1>7. b = a /\ n = p /\ verb = v /\ j = i
  BY <1>1, <1>6 DEF SlotKey
<1> QED BY <1>4, <1>5, <1>6, <1>7

\* What a path evaluates to is one of the file's own references, or that of a
\* resource that an import declares.
LEMMA KeyOfPath ==
  ASSUME NEW f, Resolves(f), NEW verb \in Verb, NEW path, NEW key \in KeysAt(f, verb, path)
  PROVE  \/ \E b \in Own(f, verb) : key = RefOf(b) /\ path \in {RefOf(b), RestOf(b)}
         \/ key = path /\ key[1] = "imports" /\ key[3] \in Verb
<1>1. CASE key \in {RefOf(b) : b \in {c \in Own(f, verb) : path \in {RefOf(c), RestOf(c)}}}
  BY <1>1
<1>2. CASE key \in {k \in UNION {{Qualified(a, r.ref) : r \in UNION Range(Child(f, a).own)} :
                                   a \in DOMAIN Aliases(f)} : k = path}
  <2>1. key = path
    BY <1>2
  <2>2. PICK a \in DOMAIN Aliases(f) :
          key \in {Qualified(a, r.ref) : r \in UNION Range(Child(f, a).own)}
    BY <1>2
  <2>3. PICK r \in UNION Range(Child(f, a).own) : key = Qualified(a, r.ref)
    BY <2>2
  <2>4. Resolution(Child(f, a)) /\ a \in STRING
    BY ChildFacts, ResolvesFacts
  <2>5. DOMAIN Child(f, a).own = Verb
    BY <2>4 DEF Resolution
  <2>6. PICK v \in Verb : r \in Child(f, a).own[v]
    BY <2>3, <2>5 DEF Range
  <2>7. r \in Resource /\ DeclaredIn(content, settled, r, v)
    BY <2>6, ChildFacts
  <2>8. \A g \in settled : content[g].resources \in Seq(Block)
    <3> SUFFICES ASSUME NEW g \in settled PROVE content[g].resources \in Seq(Block)
      OBVIOUS
    <3>1. ImportsTypeOK /\ content[g] \in Contents[walk]
      BY DEF Resolves, ImportInv, ImportsTypeOK
    <3> QED BY <3>1, ContentTypes
  <2>9. r.ref \in Path /\ Len(r.ref) > 0 /\ r.ref[1] = v
    BY <2>7, <2>8, ResourceRef
  <2>10. key[1] = "imports" /\ key[3] = v
    BY <2>3, <2>4, <2>9, QualifiedKey
  <2> QED BY <2>1, <2>10
<1> QED BY <1>1, <1>2 DEF KeysAt

\* A reference whose key is known names the resource that is kept under it.
LEMMA RefNames ==
  ASSUME NEW f, Resolves(f), NEW verb \in Verb, NEW ref \in Reference,
         Known(f, verb, KeyOf(f, verb, ref))
  PROVE  NamesIn(content, result, f, verb, ref, At(f, verb, KeyOf(f, verb, ref)))
<1> DEFINE key == KeyOf(f, verb, ref)
           r == At(f, verb, key)
<1>1. EntryFacts(f, verb, key, r)
  BY KnownAt
<1> HIDE DEF r
<1>2. CASE ref.indexed
  <2>1. key = SlotKey(ref.alias, ref.pipe, ref.verb, ref.index)
    BY <1>2 DEF KeyOf
  <2> HIDE DEF key
  <2>2. /\ ref.verb = verb /\ ref.alias \in DOMAIN Aliases(f)
        /\ ref.pipe \in DOMAIN Child(f, ref.alias).pipelines
        /\ ref.index \in DOMAIN Child(f, ref.alias).pipelines[ref.pipe].slots[verb]
        /\ r = Child(f, ref.alias).pipelines[ref.pipe].slots[verb][ref.index]
    BY <1>1, <2>1, SlotKeyFact
  <2>3. NamesIn(content, result, f, verb, ref, r)
    BY <1>2, <2>2 DEF NamesIn, ImportsIn, SlotOfIn, Aliases, Child
  <2> QED BY <2>3 DEF r, key
<1>3. CASE ~ref.indexed
  <2>1. IF KeysAt(f, verb, ref.path) = {} THEN key = <<"undefined">>
        ELSE key \in KeysAt(f, verb, ref.path)
    BY <1>3 DEF KeyOf
  <2> HIDE DEF key
  <2>2. KeysAt(f, verb, ref.path) # {}
    <3>1. key # <<"undefined">>
      BY <1>1 DEF EntryFacts, Verb
    <3> QED BY <2>1, <3>1
  <2>3. \/ \E b \in Own(f, verb) : key = RefOf(b) /\ ref.path \in {RefOf(b), RestOf(b)}
        \/ key = ref.path /\ key[1] = "imports" /\ key[3] \in Verb
    BY <2>1, <2>2, KeyOfPath
  <2>4. ASSUME NEW b \in Own(f, verb), key = RefOf(b), ref.path \in {RefOf(b), RestOf(b)}
        PROVE  NamesIn(content, result, f, verb, ref, r)
    <3>1. RefOf(b)[1] = verb /\ b.verb = verb
      <4>1. /\ BindingOf(f, b) \in Resource /\ BindingOf(f, b).ref = RefOf(b) /\ BindingOf(f, b).file = f
            /\ RefOf(b)[1] = verb /\ b \in Block /\ b.verb = verb
            /\ DeclaredIn(content, settled \union {f}, BindingOf(f, b), verb)
        BY BindingIsResource
      <4> QED BY <4>1
    <3>2. r.file = f /\ r.ref = key
      BY <1>1, <2>4, <3>1 DEF EntryFacts, Verb
    <3>3. RefOf(b) = <<verb>> \o RestOf(b)
      BY <3>1 DEF RefOf
    <3> QED BY <1>3, <2>4, <3>2, <3>3 DEF NamesIn
  <2>5. ASSUME key = ref.path, key[1] = "imports", key[3] \in Verb
        PROVE  NamesIn(content, result, f, verb, ref, r)
    <3>1. \E a \in DOMAIN Aliases(f) : r.file = Aliases(f)[a] /\ key = Qualified(a, r.ref)
      BY <1>1, <2>5 DEF EntryFacts, Verb
    <3> QED BY <1>3, <2>5, <3>1 DEF NamesIn, Aliases
  <2>6. NamesIn(content, result, f, verb, ref, r)
    BY <2>3, <2>4, <2>5
  <2> QED BY <2>6 DEF r, key
<1> QED BY <1>2, <1>3

\* The keys of one list or one slot are known, and those it comes from.
KnownKeys(f, verb, keys) == \A k \in Range(keys) : Known(f, verb, k)

LEMMA ResolvedKeys ==
  ASSUME NEW f, Resolves(f), NEW verb \in Verb, NEW n \in Nat, NEW keys, DOMAIN keys = 1..n,
         KnownKeys(f, verb, keys)
  PROVE  /\ ResolveRefs(f, verb, keys) \in Seq(Resource) /\ Len(ResolveRefs(f, verb, keys)) = n
         /\ \A i \in 1..n : ResolveRefs(f, verb, keys)[i] = At(f, verb, keys[i])
         /\ \A i \in 1..n : Known(f, verb, keys[i])
         /\ \A r \in Range(ResolveRefs(f, verb, keys)) : DeclaredIn(content, settled \union {f}, r, verb)
<1> DEFINE s == ResolveRefs(f, verb, keys)
<1>1. s = [i \in 1..n |-> At(f, verb, keys[i])]
  BY DEF ResolveRefs
<1>2. \A i \in 1..n : Known(f, verb, keys[i])
  BY DEF KnownKeys, Range
<1>3. \A i \in 1..n : Runs(f, verb, At(f, verb, keys[i]))
  BY <1>2, KnownAt
<1> HIDE DEF s
<1>4. \A i \in 1..n : s[i] = At(f, verb, keys[i]) /\ s[i] \in Resource
  BY <1>1, <1>3 DEF Runs
<1>5. s \in Seq(Resource) /\ Len(s) = n /\ DOMAIN s = 1..n
  <2>1. s = [i \in 1..n |-> s[i]]
    BY <1>1
  <2> HIDE DEF Resource
  <2> QED BY <2>1, <1>4
<1>6. \A r \in Range(s) : DeclaredIn(content, settled \union {f}, r, verb)
  <2>1. \A i \in 1..n : DeclaredIn(content, settled \union {f}, s[i], verb)
    BY <1>3, <1>4 DEF Runs
  <2> QED BY <1>5, <2>1 DEF Range
<1> QED BY <1>2, <1>4, <1>5, <1>6 DEF s

\* A list of references.
LEMMA ListedSlot ==
  ASSUME NEW f, Resolves(f), NEW verb \in Verb, NEW x, x.whole = FALSE, x.refs \in Seq(Reference),
         KnownKeys(f, verb, KeyList(f, verb, x))
  PROVE  /\ ResolveRefs(f, verb, KeyList(f, verb, x)) \in Seq(Resource)
         /\ ListsIn(content, result, f, verb, x.refs, ResolveRefs(f, verb, KeyList(f, verb, x)))
         /\ \A r \in Range(ResolveRefs(f, verb, KeyList(f, verb, x))) :
              DeclaredIn(content, settled \union {f}, r, verb)
<1> DEFINE keys == KeyList(f, verb, x)
           refs == x.refs
           n == Len(refs)
           s == ResolveRefs(f, verb, keys)
<1>1. n \in Nat /\ DOMAIN refs = 1..n /\ \A i \in 1..n : refs[i] \in Reference
  OBVIOUS
<1>2. keys = [i \in DOMAIN refs |-> KeyOf(f, verb, refs[i])]
  BY DEF KeyList
<1>a. KnownKeys(f, verb, keys)
  OBVIOUS
<1> HIDE DEF keys, n, refs
<1>3. DOMAIN keys = 1..n /\ \A i \in 1..n : keys[i] = KeyOf(f, verb, refs[i])
  BY <1>1, <1>2
<1>4. /\ s \in Seq(Resource) /\ Len(s) = n
      /\ \A i \in 1..n : s[i] = At(f, verb, keys[i]) /\ Known(f, verb, keys[i])
      /\ \A r \in Range(s) : DeclaredIn(content, settled \union {f}, r, verb)
  BY <1>1, <1>3, <1>a, ResolvedKeys
<1> HIDE DEF s
<1>5. ASSUME NEW i \in 1..n PROVE NamesIn(content, result, f, verb, refs[i], s[i])
  <2>1. /\ s[i] = At(f, verb, KeyOf(f, verb, refs[i])) /\ Known(f, verb, KeyOf(f, verb, refs[i]))
        /\ refs[i] \in Reference
    BY <1>1, <1>3, <1>4
  <2> QED BY <2>1, RefNames
<1>6. ListsIn(content, result, f, verb, refs, s)
  BY <1>1, <1>4, <1>5 DEF ListsIn, n
<1> QED BY <1>4, <1>6 DEF s, keys, refs

\* A slot of an imported pipeline as a whole.
LEMMA WholeSlot ==
  ASSUME NEW f, Resolves(f), NEW verb \in Verb, NEW x, x.whole = TRUE, x.verb \in Verb,
         KnownKeys(f, verb, KeyList(f, verb, x))
  PROVE  /\ ImportsPipeline(f, x) /\ ImportedSlot(f, x) \in Seq(Resource)
         /\ ResolveRefs(f, verb, KeyList(f, verb, x)) = ImportedSlot(f, x)
         /\ \A r \in Range(ResolveRefs(f, verb, KeyList(f, verb, x))) :
              DeclaredIn(content, settled \union {f}, r, verb)
<1> DEFINE keys == KeyList(f, verb, x)
           s == ResolveRefs(f, verb, keys)
<1>1. x.alias \in DOMAIN Aliases(f) /\ x.pipe \in DOMAIN Child(f, x.alias).pipelines
  <2> SUFFICES ASSUME ~(x.alias \in DOMAIN Aliases(f) /\ x.pipe \in DOMAIN Child(f, x.alias).pipelines)
               PROVE  FALSE
    OBVIOUS
  <2>1. keys = <<<<"undefined">>>>
    BY DEF KeyList, ImportsPipeline
  <2>2. <<"undefined">> \in Range(keys)
    BY <2>1 DEF Range
  <2>3. Known(f, verb, <<"undefined">>)
    BY <2>2 DEF KnownKeys
  <2>4. EntryFacts(f, verb, <<"undefined">>, At(f, verb, <<"undefined">>))
    BY <2>3, KnownAt
  <2> QED BY <2>4 DEF EntryFacts, Verb
<1> DEFINE slot == Child(f, x.alias).pipelines[x.pipe].slots[x.verb]
           n == Len(slot)
<1>2. slot \in Seq(Resource) /\ n \in Nat /\ DOMAIN slot = 1..n
  <2>1. slot \in Seq(Resource)
    BY <1>1, ChildFacts
  <2> HIDE DEF slot
  <2> QED BY <2>1
<1>3. keys = [i \in DOMAIN slot |-> SlotKey(x.alias, x.pipe, x.verb, i)]
  BY <1>1 DEF KeyList, ImportsPipeline, ImportedSlot
<1> HIDE DEF keys, slot, n
<1>4. DOMAIN keys = 1..n /\ \A i \in 1..n : keys[i] = SlotKey(x.alias, x.pipe, x.verb, i)
  BY <1>2, <1>3
<1>5. /\ s \in Seq(Resource) /\ Len(s) = n
      /\ \A i \in 1..n : s[i] = At(f, verb, keys[i]) /\ Known(f, verb, keys[i])
      /\ \A r \in Range(s) : DeclaredIn(content, settled \union {f}, r, verb)
  <2>1. KnownKeys(f, verb, keys)
    BY DEF keys
  <2> QED BY <1>2, <1>4, <2>1, ResolvedKeys
<1> HIDE DEF s
<1>6. ASSUME NEW i \in 1..n PROVE s[i] = slot[i]
  <2>1. EntryFacts(f, verb, keys[i], s[i])
    BY <1>5, KnownAt
  <2>2. keys[i] = <<"imports", x.alias, "pipeline", x.pipe, x.verb, i>>
    BY <1>4 DEF SlotKey
  <2>3. PICK a \in DOMAIN Aliases(f) : \E p \in DOMAIN Child(f, a).pipelines :
          \E j \in DOMAIN Child(f, a).pipelines[p].slots[verb] :
            keys[i] = SlotKey(a, p, verb, j) /\ s[i] = Child(f, a).pipelines[p].slots[verb][j]
    <3>1. keys[i][1] = "imports" /\ keys[i][3] = "pipeline"
      BY <2>2
    <3> QED BY <2>1, <3>1 DEF EntryFacts, Verb
  <2>4. PICK p, j :
          keys[i] = SlotKey(a, p, verb, j) /\ s[i] = Child(f, a).pipelines[p].slots[verb][j]
    BY <2>3
  <2>5. a = x.alias /\ p = x.pipe /\ verb = x.verb /\ j = i
    BY <2>2, <2>4 DEF SlotKey
  <2> QED BY <2>4, <2>5 DEF slot
<1>7. s = slot
  <2>1. Len(s) = Len(slot) /\ DOMAIN s = 1..n
    BY <1>5 DEF n
  <2> HIDE DEF Resource
  <2> QED BY <1>2, <1>5, <1>6, <2>1
<1> QED BY <1>1, <1>2, <1>5, <1>7 DEF s, keys, slot, ImportsPipeline, ImportedSlot

\* The name of a pipeline tells its block.
LEMMA PipelineNamed ==
  ASSUME NEW f, Resolves(f), NEW p \in Range(content[f].pipelines)
  PROVE  (CHOOSE q \in Range(content[f].pipelines) : q.name = p.name) = p
<1> DEFINE ps == content[f].pipelines
           n == Len(ps)
<1>1. ps \in Seq(Range(ps)) /\ ~PipelinesFail(f)
  BY ResolvesFacts
<1>2. n \in Nat /\ DOMAIN ps = 1..n
  BY <1>1
<1>3. \A i, j \in 1..n : i < j => ps[i].name # ps[j].name
  BY <1>1 DEF PipelinesFail
<1> HIDE DEF n, ps
<1>4. ASSUME NEW q \in Range(ps), q.name = p.name PROVE q = p
  <2>1. PICK i \in 1..n : ps[i] = q
    BY <1>2 DEF Range
  <2>2. PICK j \in 1..n : ps[j] = p
    BY <1>2 DEF Range, ps
  <2>3. i < j \/ j < i \/ i = j
    BY <1>2
  <2> QED BY <1>3, <1>4, <2>1, <2>2, <2>3
<1> QED BY <1>4 DEF ps

\* The references to a pipeline's producers, consumers, transformers and seed.
LEMMA SlotResolves ==
  ASSUME NEW f, Resolves(f), NEW p \in Range(content[f].pipelines), NEW verb \in Verb
  PROVE  /\ Resolved(f, p, verb) \in Seq(Resource)
         /\ \A r \in Range(Resolved(f, p, verb)) : DeclaredIn(content, settled \union {f}, r, verb)
         /\ verb \in DOMAIN p.lists =>
              SlotIn(content, result, f, verb, p.lists[verb], Resolved(f, p, verb))
<1>1. IsPipelineBlock(p) /\ Accepts(f, p)
  BY ResolvesFacts DEF PipelinesFail
<1>2. CASE verb \notin DOMAIN p.lists
  <2>1. Resolved(f, p, verb) = <<>>
    BY <1>2 DEF Resolved
  <2>2. <<>> \in Seq(Resource) /\ Range(<<>>) = {}
    BY DEF Range
  <2> QED BY <1>2, <2>1, <2>2
<1>3. CASE verb \in DOMAIN p.lists
  <2> DEFINE x == p.lists[verb]
             s == ResolveRefs(f, verb, KeyList(f, verb, x))
  <2>1. Resolved(f, p, verb) = s
    BY <1>3 DEF Resolved
  <2>2. x \in Listing
    BY <1>1, <1>3 DEF IsPipelineBlock, Range
  <2>3. KnownKeys(f, verb, KeyList(f, verb, x))
    BY <1>1, <1>3 DEF Accepts, ListsKnown, KnownKeys
  <2> HIDE DEF x
  <2>4. \/ x.whole = FALSE /\ x.refs \in Seq(Reference)
        \/ x.whole = TRUE /\ x.verb \in Verb
    BY <2>2 DEF Listing
  <2>5. ASSUME x.whole = FALSE, x.refs \in Seq(Reference)
        PROVE  /\ s \in Seq(Resource) /\ SlotIn(content, result, f, verb, x, s)
               /\ \A r \in Range(s) : DeclaredIn(content, settled \union {f}, r, verb)
    <3>1. /\ s \in Seq(Resource) /\ ListsIn(content, result, f, verb, x.refs, s)
          /\ \A r \in Range(s) : DeclaredIn(content, settled \union {f}, r, verb)
      BY <2>3, <2>5, ListedSlot
    <3> HIDE DEF s
    <3> QED BY <2>5, <3>1 DEF SlotIn
  <2>6. ASSUME x.whole = TRUE, x.verb \in Verb
        PROVE  /\ s \in Seq(Resource) /\ SlotIn(content, result, f, verb, x, s)
               /\ \A r \in Range(s) : DeclaredIn(content, settled \union {f}, r, verb)
    <3>1. /\ ImportsPipeline(f, x) /\ s = ImportedSlot(f, x) /\ ImportedSlot(f, x) \in Seq(Resource)
          /\ \A r \in Range(s) : DeclaredIn(content, settled \union {f}, r, verb)
      BY <2>3, <2>6, WholeSlot
    <3>2. ImportsIn(content, result, f, x) /\ s = SlotOfIn(content, result, f, x)
      BY <3>1, ImportForms
    <3> HIDE DEF s
    <3> QED BY <2>6, <3>1, <3>2 DEF SlotIn
  <2>7. /\ s \in Seq(Resource) /\ SlotIn(content, result, f, verb, x, s)
        /\ \A r \in Range(s) : DeclaredIn(content, settled \union {f}, r, verb)
    BY <2>4, <2>5, <2>6
  <2> HIDE DEF s
  <2> QED BY <2>1, <2>7 DEF x
<1> QED BY <1>2, <1>3

LEMMA SeedResolves ==
  ASSUME NEW f, Resolves(f), NEW p \in Range(content[f].pipelines)
  PROVE  /\ ResolveRefs(f, "produce", SeedKeys(f, p)) \in Seq(Resource)
         /\ ListsIn(content, result, f, "produce", p.from, ResolveRefs(f, "produce", SeedKeys(f, p)))
         /\ \A r \in Range(ResolveRefs(f, "produce", SeedKeys(f, p))) :
              DeclaredIn(content, settled \union {f}, r, "produce")
<1> DEFINE x == [whole |-> FALSE, refs |-> p.from]
           keys == KeyList(f, "produce", x)
<1>1. IsPipelineBlock(p) /\ Accepts(f, p)
  BY ResolvesFacts DEF PipelinesFail
<1>2. /\ x.whole = FALSE /\ x.refs = p.from /\ p.from \in Seq(Reference) /\ Len(p.from) <= 1
      /\ "produce" \in Verb /\ SeedKeys(f, p) = keys
  BY <1>1 DEF IsPipelineBlock, SeedKeys, Verb
<1>3. DOMAIN keys = DOMAIN p.from
  BY <1>2 DEF KeyList
<1> HIDE DEF x, keys
<1>4. KnownKeys(f, "produce", keys)
  <2> SUFFICES ASSUME NEW i \in DOMAIN keys PROVE Known(f, "produce", keys[i])
    BY DEF KnownKeys, Range
  <2>1. i = 1 /\ p.from # <<>>
    BY <1>2, <1>3
  <2>2. Known(f, "produce", SeedKeys(f, p)[1])
    BY <1>1, <2>1 DEF Accepts, Remote
  <2> QED BY <1>2, <2>1, <2>2
<1> QED BY <1>2, <1>4, ListedSlot DEF keys

\* A pipeline that makePipeline accepts means what its file says.
LEMMA PipelineMeans ==
  ASSUME NEW f, Resolves(f), NEW p \in Range(content[f].pipelines)
  PROVE  /\ MeansIn(content, settled \union {f}, result, f, p, PipelineOf(f, p))
         /\ PipelineOf(f, p).slots \in [Verb -> Seq(Resource)]
         /\ PipelineOf(f, p).seed \in Seq(Resource)
<1> DEFINE q == PipelineOf(f, p)
           producers == Resolved(f, p, "produce")
           seed == ResolveRefs(f, "produce", SeedKeys(f, p))
<1>1. IsPipelineBlock(p) /\ Accepts(f, p) /\ "produce" \in Verb
  BY ResolvesFacts DEF PipelinesFail, Verb
<1>2. /\ q.slots = [verb \in Verb |-> Resolved(f, p, verb)] /\ q.seed = seed
      /\ q.parallel = IF p.parallel = 0 THEN Len(producers) ELSE p.parallel
  BY DEF PipelineOf
<1> HIDE DEF q
<1>3. \A verb \in Verb :
        /\ q.slots[verb] = Resolved(f, p, verb) /\ Resolved(f, p, verb) \in Seq(Resource)
        /\ \A r \in Range(Resolved(f, p, verb)) : DeclaredIn(content, settled \union {f}, r, verb)
        /\ verb \in DOMAIN p.lists => SlotIn(content, result, f, verb, p.lists[verb], Resolved(f, p, verb))
  BY <1>2, SlotResolves
<1>4. /\ seed \in Seq(Resource) /\ ListsIn(content, result, f, "produce", p.from, seed)
      /\ \A r \in Range(seed) : DeclaredIn(content, settled \union {f}, r, "produce")
  BY SeedResolves
<1>5. q.slots["produce"] = producers /\ producers \in Seq(Resource)
  BY <1>1, <1>3
<1>6. p.from \in Seq(Reference) /\ p.parallel \in Int
  BY <1>1 DEF IsPipelineBlock
<1> HIDE DEF seed, producers
<1>7. (seed = <<>>) = (p.from = <<>>)
  BY <1>4, <1>6 DEF ListsIn
<1>8. ASSUME p.from # <<>> PROVE MeansIn(content, settled \union {f}, result, f, p, q)
  <2>1. "produce" \notin DOMAIN p.lists /\ p.parallel > 0
    BY <1>1, <1>8 DEF Accepts, Remote
  <2>2. producers = <<>>
    BY <2>1 DEF producers, Resolved
  <2>3. q.parallel \in Nat \ {0} /\ (q.seed = <<>>) = (q.slots["produce"] # <<>>)
    BY <1>2, <1>5, <1>6, <1>7, <1>8, <2>1, <2>2
  <2> QED BY <1>1, <1>2, <1>3, <1>4, <2>3 DEF MeansIn, IsPipelineBlock
<1>9. ASSUME p.from = <<>> PROVE MeansIn(content, settled \union {f}, result, f, p, q)
  <2>1. producers # <<>> /\ p.parallel >= 0
    BY <1>1, <1>9 DEF Accepts, Remote, producers
  <2>2. Len(producers) \in Nat \ {0}
    BY <1>5, <2>1
  <2>3. q.parallel \in Nat \ {0} /\ (q.seed = <<>>) = (q.slots["produce"] # <<>>)
    BY <1>2, <1>5, <1>6, <1>7, <1>9, <2>1, <2>2
  <2> QED BY <1>1, <1>2, <1>3, <1>4, <2>3 DEF MeansIn, IsPipelineBlock
<1>10. MeansIn(content, settled \union {f}, result, f, p, q)
  BY <1>8, <1>9
<1>11. q.slots \in [Verb -> Seq(Resource)]
  BY <1>2, <1>3
<1> QED BY <1>2, <1>4, <1>10, <1>11 DEF q

\* The result of a file that is accepted.
LEMMA ResultSays ==
  ASSUME NEW f, Resolves(f), NEW re, re[f] = ResultOf(f), f \notin settled,
         \A g \in settled : re[g] = result[g]
  PROVE  Resolution(re[f]) /\ SaysIn(content, settled \union {f}, re, f)
<1> DEFINE ps == content[f].pipelines
           names == {p.name : p \in Range(ps)}
<1>1. /\ re[f].own = [verb \in Verb |-> {BindingOf(f, b) : b \in Own(f, verb)}]
      /\ re[f].pipelines = [n \in names |-> PipelineOf(f, CHOOSE p \in Range(ps) : p.name = n)]
  BY DEF ResultOf
<1>2. \A verb \in Verb : \A b \in Own(f, verb) : BindingOf(f, b) \in Resource /\ BindingOf(f, b).file = f
  BY BindingIsResource
<1>3. ASSUME NEW p \in Range(ps) PROVE re[f].pipelines[p.name] = PipelineOf(f, p)
  <2>1. (CHOOSE q \in Range(ps) : q.name = p.name) = p
    BY PipelineNamed
  <2>2. p.name \in names
    OBVIOUS
  <2>3. re[f].pipelines[p.name] = PipelineOf(f, CHOOSE q \in Range(ps) : q.name = p.name)
    BY <1>1, <2>2
  <2> QED BY <2>1, <2>3
<1>4. ASSUME NEW p \in Range(ps), NEW q, MeansIn(content, settled \union {f}, result, f, p, q)
      PROVE  MeansIn(content, settled \union {f}, re, f, p, q)
  <2>1. SameImports(content, result, re, f)
    BY ResolvesFacts DEF SameImports, Aliases
  <2>2. /\ ListsIn(content, re, f, "produce", p.from, q.seed)
        /\ \A verb \in DOMAIN p.lists : SlotIn(content, re, f, verb, p.lists[verb], q.slots[verb])
    BY <1>4, <2>1, SlotKeeps DEF MeansIn
  <2> QED BY <1>4, <2>2 DEF MeansIn
<1>5. \A p \in Range(ps) : MeansIn(content, settled \union {f}, re, f, p, re[f].pipelines[p.name])
  BY <1>3, <1>4, PipelineMeans
<1>6. re[f].own \in [Verb -> SUBSET Resource]
  BY <1>1, <1>2
<1>7. ASSUME NEW n \in DOMAIN re[f].pipelines
      PROVE  re[f].pipelines[n].slots \in [Verb -> Seq(Resource)] /\ re[f].pipelines[n].seed \in Seq(Resource)
  <2>1. PICK p \in Range(ps) : n = p.name
    BY <1>1
  <2>2. re[f].pipelines[n] = PipelineOf(f, p)
    BY <1>3, <2>1
  <2>3. PipelineOf(f, p).slots \in [Verb -> Seq(Resource)] /\ PipelineOf(f, p).seed \in Seq(Resource)
    BY PipelineMeans
  <2> HIDE DEF Resource
  <2> QED BY <2>2, <2>3
<1>8. Resolution(re[f])
  BY <1>6, <1>7 DEF Resolution
<1>9. \A verb \in Verb :
        re[f].own[verb] = {BindingOf(f, b) : b \in {c \in Range(content[f].resources) : c.verb = verb}}
  BY <1>1 DEF Own
<1>10. DOMAIN re[f].pipelines = {p.name : p \in Range(ps)}
  BY <1>1
<1> QED BY <1>5, <1>8, <1>9, <1>10 DEF SaysIn

-----------------------------------------------------------------------------
(* The rest of the invariant, step by step.                                *)

\* The file at the top, when its turn to be resolved has come.
LEMMA TopResolves ==
  ASSUME ImportInv, walk = "parse", calling = "none", frames # <<>>, Top.todo = {},
         "resolved" \in Outcomes(Top.file)
  PROVE  Resolves(Top.file)
BY TopIsDone DEF Resolves

LEMMA MeaningStep ==
  ASSUME ImportInv, [ImportsNext]_importsState
  PROVE  /\ PipelinesMeanWhatTheySay' /\ DOMAIN result' = settled'
         /\ walk' = "parse" => \A f \in settled' : Resolution(result'[f])
<1>0. /\ DOMAIN result = settled /\ settled \subseteq DOMAIN content
      /\ walk = "parse" => \A f \in settled : Resolution(result[f]) /\ SaysIn(content, settled, result, f)
      /\ \A f \in settled : Range(content[f].imports) \subseteq settled
  BY SaysForms DEF ImportInv, ImportsTypeOK, SettledIsClosed, Targets, Aliases
<1>1. /\ walk' = walk /\ settled \subseteq settled'
      /\ \A g \in settled : content'[g] = content[g]
  BY <1>0, Grows
<1>2. ASSUME walk = "parse" => \A f \in settled' : SaysIn(content', settled', result', f)
      PROVE  PipelinesMeanWhatTheySay'
  <2>1. ASSUME NEW f, NEW p, NEW q
        PROVE  Means(f, p, q)' <=> MeansIn(content', settled', result', f, p, q)
    <3>1. \A verb, refs, slot :
            Lists(f, verb, refs, slot)' <=> ListsIn(content', result', f, verb, refs, slot)
      BY DEF Lists, ListsIn, Names, NamesIn, ImportsPipeline, ImportsIn, ImportedSlot, SlotOfIn, Aliases, Child
    <3>3. \A x : /\ ImportsPipeline(f, x)' <=> ImportsIn(content', result', f, x)
                /\ ImportedSlot(f, x)' = SlotOfIn(content', result', f, x)
      BY DEF ImportsPipeline, ImportsIn, ImportedSlot, SlotOfIn, Aliases, Child
    <3>2. \A r, verb : Declared(r, verb)' <=> DeclaredIn(content', settled', r, verb)
      BY DEF Declared, DeclaredIn, Own
    <3> QED BY <3>1, <3>2, <3>3 DEF Means, MeansIn, SlotIn
  <2> QED BY <1>1, <1>2, <2>1 DEF PipelinesMeanWhatTheySay, SaysIn, Own
<1>3. ASSUME walk = "parse", NEW f \in settled, \A g \in settled : result'[g] = result[g]
      PROVE  SaysIn(content', settled', result', f)
  <2>1. SaysIn(content, settled, result, f) /\ Range(content[f].imports) \subseteq settled
    BY <1>0, <1>3
  <2> QED BY <1>1, <1>3, <2>1, SaysKeeps
<1>4. ASSUME settled' = settled, result' = result
      PROVE  /\ PipelinesMeanWhatTheySay' /\ DOMAIN result' = settled'
             /\ walk' = "parse" => \A f \in settled' : Resolution(result'[f])
  BY <1>0, <1>1, <1>2, <1>3, <1>4
<1>5. CASE CollectReturns \/ ResolveReturns
  <2>1. /\ calling = "none" /\ frames # <<>> /\ Top.todo = {} /\ content' = content
        /\ \/ settled' = settled /\ result' = result
           \/ /\ settled' = settled \union {Top.file}
              /\ result' = With(result, Top.file, Result(Top.file))
              /\ walk = "parse" => "resolved" \in Outcomes(Top.file)
    BY <1>5, ReturnCases
  <2>2. CASE /\ settled' = settled \union {Top.file}
             /\ result' = With(result, Top.file, Result(Top.file))
             /\ walk = "parse" => "resolved" \in Outcomes(Top.file)
    <3> DEFINE f == Top.file
    <3>1. f \notin settled
      BY <2>1, TopIsDone
    <3>2. /\ DOMAIN result' = settled' /\ result'[f] = Result(f)
          /\ \A g \in settled : result'[g] = result[g]
      <4>1. /\ DOMAIN result' = DOMAIN result \union {f} /\ result'[f] = Result(f)
            /\ \A g \in DOMAIN result : g # f => result'[g] = result[g]
        BY <2>2 DEF With
      <4> QED BY <1>0, <2>2, <3>1, <4>1
    <3>3. ASSUME walk = "parse"
          PROVE  Resolution(result'[f]) /\ SaysIn(content', settled', result', f)
      <4>1. Resolves(f) /\ result'[f] = ResultOf(f)
        BY <2>1, <2>2, <3>2, <3>3, TopResolves DEF Result
      <4> HIDE DEF f
      <4>2. Resolution(result'[f]) /\ SaysIn(content, settled \union {f}, result', f)
        BY <3>1, <3>2, <4>1, ResultSays
      <4> QED BY <2>1, <2>2, <4>2 DEF f
    <3> QED BY <1>0, <1>1, <1>2, <1>3, <2>2, <3>2, <3>3
  <2> QED BY <1>4, <2>1, <2>2
<1>6. CASE LoadsFile
  BY <1>4, <1>6, LoadCases
<1>7. CASE CallsSettled \/ FindsCycle \/ FollowsImport
  BY <1>4, <1>7 DEF CallsSettled, FindsCycle, FailWalk, FollowsImport
<1>8. CASE UNCHANGED importsState
  BY <1>4, <1>8 DEF importsState
<1> QED BY <1>5, <1>6, <1>7, <1>8 DEF ImportsNext

LEMMA TypeStep ==
  ASSUME ImportInv, [ImportsNext]_importsState
  PROVE  ImportsTypeOK'
<1>0. /\ ImportsTypeOK /\ walk' = walk /\ DOMAIN result' = settled' /\ found' \in Seq(PluginBlock)
      /\ walk' = "parse" => \A f \in settled' : Resolution(result'[f])
  BY Grows, MeaningStep, FoundStep DEF ImportInv
<1>1. ASSUME calling' \in File \union {"none"}, DOMAIN content' \subseteq File,
             \A f \in DOMAIN content' : content'[f] \in Contents[walk],
             frames' \in Seq(Frame), loads' \in [File -> Nat], visiting' \subseteq DOMAIN content',
             settled' \subseteq DOMAIN content',
             failure' \in {"none", "ok", "load", "imports", "cycle", "conflict", "binding", "ref",
                         "pipeline", "panic"}
      PROVE  ImportsTypeOK'
  BY <1>0, <1>1 DEF ImportsTypeOK, Resolution
<1>2. /\ calling \in File \union {"none"} /\ DOMAIN content \subseteq File
      /\ \A f \in DOMAIN content : content[f] \in Contents[walk]
      /\ frames \in Seq(Frame) /\ loads \in [File -> Nat] /\ visiting \subseteq DOMAIN content
      /\ settled \subseteq DOMAIN content
      /\ failure \in {"none", "ok", "load", "imports", "cycle", "conflict", "binding", "ref",
                         "pipeline", "panic"}
  BY <1>0 DEF ImportsTypeOK
<1>3. <<>> \in Seq(Frame)
  OBVIOUS
<1>4. CASE LoadsFile
  <2>1. /\ calling \in File /\ settled' = settled /\ calling' = "none"
        /\ loads' = [loads EXCEPT ![calling] = @ + 1]
    BY <1>4, LoadCases
  <2>2. PICK c \in Contents[walk] :
          /\ content' = With(content, calling, c)
          /\ \/ failure' \in {"load", "conflict", "imports"} /\ frames' = <<>> /\ visiting' = {}
             \/ /\ failure' = "none" /\ visiting' = visiting \union {calling}
                /\ frames' = Append(frames, [file |-> calling, todo |-> DOMAIN c.imports])
    BY <1>4, LoadCases
  <2>3. [file |-> calling, todo |-> DOMAIN c.imports] \in Frame
    BY <1>0, <2>1, ContentTypes DEF Frame
  <2>4. frames' \in Seq(Frame)
    BY <1>0, <1>3, <2>2, <2>3, Pushed
  <2>5. /\ DOMAIN content' = DOMAIN content \union {calling}
        /\ \A f \in DOMAIN content' : content'[f] \in Contents[walk]
    BY <1>2, <2>2 DEF With
  <2>6. loads' \in [File -> Nat]
    BY <1>2, <2>1
  <2> HIDE DEF Frame
  <2> QED BY <1>1, <1>2, <2>1, <2>2, <2>4, <2>5, <2>6
<1>5. CASE CollectReturns \/ ResolveReturns
  <2>1. /\ content' = content /\ calling' = "none" /\ loads' = loads
        /\ calling = "none" /\ frames # <<>> /\ Top.todo = {}
        /\ \/ /\ failure' \in {"binding", "ref", "pipeline", "panic"}
              /\ frames' = <<>> /\ visiting' = {} /\ settled' = settled
           \/ /\ settled' = settled \union {Top.file} /\ visiting' = visiting \ {Top.file}
              /\ frames' = Front(frames) /\ failure' = IF Len(frames) = 1 THEN "ok" ELSE "none"
    BY <1>5, ReturnCases
  <2>2. Top.file \in visiting /\ Front(frames) \in Seq(Frame)
    BY <1>0, <2>1, TopIsDone, TopFacts
  <2> HIDE DEF Frame
  <2>3. frames' \in Seq(Frame)
    BY <1>3, <2>1, <2>2
  <2>4. visiting' \subseteq DOMAIN content' /\ settled' \subseteq DOMAIN content'
    BY <1>2, <2>1, <2>2
  <2>5. failure' \in {"none", "ok", "binding", "ref", "pipeline", "panic"}
    BY <2>1
  <2> QED BY <1>1, <1>2, <2>1, <2>3, <2>4, <2>5
<1>6. CASE FollowsImport
  <2>1. /\ frames # <<>> /\ frames' \in Seq(Frame)
        /\ UNCHANGED <<content, visiting, settled, loads, failure>>
        /\ \E a \in Top.todo : calling' = Aliases(Top.file)[a]
    BY <1>6, FollowCases DEF FollowsImport
  <2>2. Len(frames) \in DOMAIN frames /\ Top = frames[Len(frames)]
    BY <1>0, <1>2, <2>1, TopFacts
  <2>3. Top.file \in visiting /\ Top.todo \subseteq DOMAIN Aliases(Top.file)
    <3>1. MarksMatchFrames /\ FramesArePath
      BY DEF ImportInv
    <3>2. DOMAIN frames = 1..Len(frames)
      BY <1>2
    <3>3. frames[Len(frames)].file \in visiting
      BY <2>2, <3>1 DEF MarksMatchFrames
    <3>4. frames[Len(frames)].todo \subseteq DOMAIN Aliases(frames[Len(frames)].file)
      BY <2>2, <3>1, <3>2 DEF FramesArePath
    <3> QED BY <2>2, <3>3, <3>4
  <2>4. \A a \in DOMAIN Aliases(Top.file) : Aliases(Top.file)[a] \in File
    BY <1>0, <1>2, <2>3, ContentTypes DEF Aliases
  <2> HIDE DEF Frame
  <2> QED BY <1>1, <1>2, <2>1, <2>3, <2>4
<1>7. CASE CallsSettled \/ FindsCycle
  BY <1>1, <1>2, <1>3, <1>7 DEF CallsSettled, FindsCycle, FailWalk
<1>8. CASE UNCHANGED importsState
  BY <1>1, <1>2, <1>8 DEF importsState
<1> QED BY <1>4, <1>5, <1>6, <1>7, <1>8 DEF ImportsNext

\* A call of a file that is still open closes a cycle.
LEMMA CycleIsCycle ==
  ASSUME ImportInv, calling \in visiting
  PROVE  ~AcyclicIn(DOMAIN content)
<1> DEFINE n == Len(frames)
<1>1. /\ n \in Nat /\ DOMAIN frames = 1..n /\ visiting = {frames[i].file : i \in 1..n}
      /\ visiting \subseteq DOMAIN content /\ DOMAIN content \subseteq File
  BY DEF ImportInv, ImportsTypeOK, MarksMatchFrames
<1>2. PICK k \in 1..n : frames[k].file = calling
  BY <1>1
<1>3. frames # <<>> /\ Top = frames[n] /\ calling # "none"
  BY <1>1, <1>2, ImportsAssumption DEF Top, Last
<1>4. /\ \A i \in 1..(n - 1) : frames[i + 1].file \in Targets(frames[i].file)
      /\ calling \in Targets(frames[n].file)
  BY <1>3 DEF ImportInv, FramesArePath
<1> DEFINE S == {frames[i].file : i \in k..n}
<1> HIDE DEF n
<1>5. S \in SUBSET DOMAIN content /\ S # {}
  <2>1. \A i \in k..n : i \in 1..n
    BY <1>1, <1>2
  <2>2. k \in k..n
    BY <1>1, <1>2
  <2> QED BY <1>1, <2>1, <2>2
<1>6. ASSUME NEW f \in S PROVE Targets(f) \cap S # {}
  <2>1. PICK i \in k..n : f = frames[i].file
    BY <1>6
  <2>2. CASE i = n
    <3>1. k \in k..n
      BY <1>1, <1>2
    <3>2. calling \in S
      BY <1>2, <3>1
    <3> QED BY <1>4, <2>1, <2>2, <3>2
  <2>3. CASE i # n
    <3>1. i \in 1..(n - 1) /\ i + 1 \in k..n
      BY <1>1, <1>2, <2>3
    <3>2. frames[i + 1].file \in S
      BY <3>1
    <3> QED BY <1>4, <2>1, <3>1, <3>2
  <2> QED BY <2>2, <2>3
<1> HIDE DEF S
<1> QED BY <1>5, <1>6 DEF AcyclicIn

\* What makeRefCtx says of the references of a file.
LEMMA RefsTell ==
  ASSUME NEW f, content[f].resources \in Seq(Block)
  PROVE  /\ RefsAdmitted(f) => \A verb \in Verb : ~Ambiguous(f, verb)
         /\ RefsConflict(f) => \E verb \in Verb : Ambiguous(f, verb)
<1>1. ASSUME NEW verb \in Verb, NEW order \in OrdersOf(Own(f, verb))
      PROVE  RefCtxAdmits(order) <=> ~Ambiguous(f, verb)
  <2>1. Own(f, verb) \in SUBSET Block /\ IsFiniteSet(Own(f, verb))
    BY OwnIsFinite
  <2>2. RefCtxAdmits(order) <=> ~Clashing(Own(f, verb))
    BY <2>1, AdmitsTheUnambiguous
  <2> QED BY <2>2, AmbiguousIsClashing
<1> QED BY <1>1 DEF RefsAdmitted, RefsConflict

LEMMA OutcomeStep ==
  ASSUME ImportInv, [ImportsNext]_importsState
  PROVE  OutcomeIsOrderFree'
<1>0. ImportsTypeOK /\ OutcomeIsOrderFree /\ walk' = walk
  BY Grows DEF ImportInv
<1>1. /\ ImportsTypeOK' /\ MarksMatchFrames' /\ SettledIsClosed' /\ FoundIsDeclared'
  BY TypeStep, MarksStep, ClosedStep, FoundStep
<1>2. ASSUME failure' = "ok"
      PROVE  /\ settled' = DOMAIN content' /\ AcyclicIn(DOMAIN content)'
             /\ \A f \in settled' : Targets(f)' \subseteq settled'
             /\ walk' = "plugins" => /\ Range(found') = Specs'
                                     /\ \A i, j \in DOMAIN found' : found'[i].name = found'[j].name => i = j
  <2>1. frames' = <<>> /\ visiting' = {}
    BY <1>1, <1>2 DEF MarksMatchFrames, Ended
  <2>2. settled' = DOMAIN content'
    BY <1>1, <1>2, <2>1 DEF SettledIsClosed
  <2>3. AcyclicIn(settled)' /\ \A f \in settled' : Targets(f)' \subseteq settled'
    BY <1>1 DEF SettledIsClosed
  <2>4. AcyclicIn(DOMAIN content)'
    BY <2>2, <2>3 DEF AcyclicIn
  <2> QED BY <1>1, <1>2, <2>2, <2>3, <2>4 DEF FoundIsDeclared
<1>3. ASSUME NEW f \in DOMAIN content, NEW verb
      PROVE  Ambiguous(f, verb)' <=> Ambiguous(f, verb)
  <2>1. content'[f] = content[f]
    BY Grows
  <2> QED BY <2>1 DEF Ambiguous, Own, Reserved
<1>4. ASSUME NEW f \in DOMAIN content PROVE content[f].resources \in Seq(Block)
  <2>1. content[f] \in Contents[walk]
    BY <1>0 DEF ImportsTypeOK
  <2> QED BY <1>0, <2>1, ContentTypes
<1>5. ASSUME walk' = "parse", NEW f \in settled', NEW verb \in Verb
      PROVE  ~Ambiguous(f, verb)'
  <2>1. CASE f \in settled
    BY <1>0, <1>3, <1>5, <2>1 DEF ImportsTypeOK, OutcomeIsOrderFree
  <2>2. CASE f \notin settled
    <3>1. CollectReturns \/ ResolveReturns
      <4>1. settled' # settled
        BY <1>5, <2>2
      <4>2. LoadsFile => settled' = settled
        BY LoadCases
      <4>3. CallsSettled \/ FindsCycle \/ FollowsImport \/ UNCHANGED importsState => settled' = settled
        BY DEF CallsSettled, FindsCycle, FailWalk, FollowsImport, importsState
      <4> QED BY <4>1, <4>2, <4>3 DEF ImportsNext
    <3>2. /\ calling = "none" /\ frames # <<>> /\ Top.todo = {}
          /\ f = Top.file /\ "resolved" \in Outcomes(f)
      BY <1>0, <1>5, <2>2, <3>1, ReturnCases
    <3>3. f \in DOMAIN content
      BY <3>2, TopIsDone
    <3>4. RefsAdmitted(f)
      BY <3>2 DEF Outcomes
    <3> QED BY <1>3, <1>4, <3>3, <3>4, RefsTell
  <2> QED BY <2>1, <2>2
<1>6. ASSUME failure' = failure, content' = content
      PROVE  /\ failure' = "cycle" => ~AcyclicIn(DOMAIN content)'
             /\ failure' = "conflict" => \E s, t \in Specs' : s # t /\ s.name = t.name
             /\ failure' = "ref" => \E f \in DOMAIN content', verb \in Verb : Ambiguous(f, verb)'
  BY <1>0, <1>3, <1>6 DEF OutcomeIsOrderFree, AcyclicIn, Targets, Aliases, Specs
<1>7. ASSUME failure' = "cycle" PROVE ~AcyclicIn(DOMAIN content)'
  <2>1. CASE FindsCycle
    <3>1. calling \in visiting /\ content' = content
      BY <2>1 DEF FindsCycle
    <3>2. ~AcyclicIn(DOMAIN content)
      BY <3>1, CycleIsCycle
    <3> QED BY <3>1, <3>2 DEF AcyclicIn, Targets, Aliases
  <2>2. CASE UNCHANGED importsState
    BY <1>6, <1>7, <2>2 DEF importsState
  <2>3. CASE LoadsFile
    BY <1>7, <2>3, LoadCases
  <2>4. CASE CollectReturns \/ ResolveReturns
    BY <1>7, <2>4, ReturnCases
  <2>5. CASE CallsSettled \/ FollowsImport
    BY <1>7, <2>5 DEF CallsSettled, FollowsImport, Ended
  <2> QED BY <2>1, <2>2, <2>3, <2>4, <2>5 DEF ImportsNext
<1>8. ASSUME failure' = "conflict" PROVE \E s, t \in Specs' : s # t /\ s.name = t.name
  <2>1. CASE LoadsFile
    <3>1. PICK c \in Contents[walk] :
             /\ content' = With(content, calling, c)
             /\ Clash(Range(found) \union Range(PluginSpecs(c)))
      BY <1>8, <2>1, LoadDeclares
    <3>2. failure = "none" /\ calling \notin DOMAIN content
      BY <2>1, LoadCases
    <3>3. Specs' = Specs \union Range(c.plugins)
      BY <3>1, <3>2, SpecsGrow
    <3>4. FoundIsDeclared
      BY DEF ImportInv
    <3>5. CASE walk = "plugins"
      <4>1. Range(found) = Specs /\ PluginSpecs(c) = c.plugins
        BY <3>2, <3>4, <3>5 DEF FoundIsDeclared, PluginSpecs
      <4> QED BY <3>1, <3>3, <4>1 DEF Clash
    <3>6. CASE walk # "plugins"
      <4>1. PluginSpecs(c) = <<>> /\ Range(<<>>) = {}
        BY <3>6 DEF PluginSpecs, Range
      <4>2. Clash(Range(found))
        BY <3>1, <4>1
      <4> QED BY <3>4, <4>2 DEF Clash, FoundIsDeclared, Range
    <3> QED BY <3>5, <3>6
  <2>2. CASE UNCHANGED importsState
    BY <1>6, <1>8, <2>2 DEF importsState
  <2>3. CASE FindsCycle
    BY <1>8, <2>3 DEF FindsCycle, FailWalk
  <2>4. CASE CollectReturns \/ ResolveReturns
    BY <1>8, <2>4, ReturnCases
  <2>5. CASE CallsSettled \/ FollowsImport
    BY <1>8, <2>5 DEF CallsSettled, FollowsImport, Ended
  <2> QED BY <2>1, <2>2, <2>3, <2>4, <2>5 DEF ImportsNext
<1>9. ASSUME failure' = "ref" PROVE \E f \in DOMAIN content', verb \in Verb : Ambiguous(f, verb)'
  <2>1. CASE CollectReturns \/ ResolveReturns
    <3>1. /\ calling = "none" /\ frames # <<>> /\ Top.todo = {}
          /\ content' = content /\ "ref" \in Outcomes(Top.file)
      BY <1>9, <2>1, ReturnCases
    <3>2. PICK f \in DOMAIN content : f = Top.file
      BY <3>1, TopIsDone
    <3>3. RefsConflict(f)
      BY <3>1, <3>2 DEF Outcomes
    <3>4. PICK verb \in Verb : Ambiguous(f, verb)
      BY <1>4, <3>2, <3>3, RefsTell
    <3>5. Ambiguous(f, verb)'
      BY <1>3, <3>2, <3>4
    <3> QED BY <3>1, <3>2, <3>5
  <2>2. CASE UNCHANGED importsState
    BY <1>6, <1>9, <2>2 DEF importsState
  <2>3. CASE LoadsFile
    BY <1>9, <2>3, LoadCases
  <2>4. CASE FindsCycle
    BY <1>9, <2>4 DEF FindsCycle, FailWalk
  <2>5. CASE CallsSettled \/ FollowsImport
    BY <1>9, <2>5 DEF CallsSettled, FollowsImport, Ended
  <2> QED BY <2>1, <2>2, <2>3, <2>4, <2>5 DEF ImportsNext
<1> QED BY <1>2, <1>5, <1>7, <1>8, <1>9 DEF OutcomeIsOrderFree

LEMMA ImportInvInit == ImportsInit => ImportInv
<1> SUFFICES ASSUME ImportsInit PROVE ImportInv
  OBVIOUS
<1>1. /\ content = <<>> /\ calling = EntryFile /\ frames = <<>> /\ visiting = {} /\ settled = {}
      /\ result = <<>> /\ decls = <<>> /\ found = <<>> /\ loads = [f \in File |-> 0]
      /\ failure = "none" /\ walk \in {"plugins", "parse"} /\ EntryFile \in File
  BY ImportsAssumption DEF ImportsInit
<1>2. DOMAIN content = {} /\ DOMAIN result = {} /\ DOMAIN decls = {} /\ DOMAIN found = {}
  BY <1>1
<1>3. ImportsTypeOK
  <2>1. frames \in Seq(Frame) /\ found \in Seq(PluginBlock)
    BY <1>1
  <2>2. loads \in [File -> Nat]
    BY <1>1
  <2> QED BY <1>1, <1>2, <2>1, <2>2 DEF ImportsTypeOK
<1>4. MarksMatchFrames
  <2>1. IsFiniteSet({}) /\ Cardinality({}) = 0
    BY FS_EmptySet
  <2>2. visiting = {frames[i].file : i \in DOMAIN frames} /\ Len(frames) = 0
    BY <1>1
  <2>3. \A f \in File : loads[f] = 0
    BY <1>1
  <2> QED BY <1>1, <2>1, <2>2, <2>3 DEF MarksMatchFrames, Ended
<1>5. FramesArePath
  BY <1>1 DEF FramesArePath
<1>6. SettledIsClosed
  BY <1>1, <1>2 DEF SettledIsClosed, AcyclicIn
<1>7. FoundIsDeclared
  <2>1. Specs = {} /\ Range(found) = {}
    BY <1>1, <1>2 DEF Specs, Range
  <2> QED BY <1>2, <2>1 DEF FoundIsDeclared
<1>8. OutcomeIsOrderFree
  BY <1>1 DEF OutcomeIsOrderFree
<1>9. PipelinesMeanWhatTheySay
  BY <1>1 DEF PipelinesMeanWhatTheySay
<1> QED BY <1>3, <1>4, <1>5, <1>6, <1>7, <1>8, <1>9 DEF ImportInv

\* The walks over the files keep their books, for any files and contents: the
\* marks of collectPlugins and resolveFile are those of their open frames, no
\* file is read twice, how a walk ends is the files' doing and not the
\* iteration order's, and a resolved pipeline runs what its file says.
THEOREM ImportInvHolds == ImportsSpec => []ImportInv
<1>1. ImportInv /\ [ImportsNext]_importsState => ImportInv'
  <2> SUFFICES ASSUME ImportInv, [ImportsNext]_importsState PROVE ImportInv'
    OBVIOUS
  <2> QED BY TypeStep, MarksStep, PathStep, ClosedStep, FoundStep, OutcomeStep, MeaningStep DEF ImportInv
<1> QED BY ImportInvInit, <1>1, PTL DEF ImportsSpec
=============================================================================
