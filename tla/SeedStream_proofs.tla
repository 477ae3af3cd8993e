-------------------------- MODULE SeedStream_proofs --------------------------
(***************************************************************************)
(* The invariants of the resource stream, for any number of messages,      *)
(* errors and resources, any size of the chunks, and with and without a    *)
(* deadline.                                                               *)
(***************************************************************************)
EXTENDS SeedStream, SequenceTheorems, TLAPS

-----------------------------------------------------------------------------
(* Runs of consecutive resources.                                          *)

\* What a run of resources is, element by element.
LEMMA NextOnesMeans ==
  ASSUME NEW a \in Nat, NEW n \in Nat, NEW d \in Nat, a + n <= d
  PROVE  /\ NextOnes(a, n) \in Seq(1..d)
         /\ Len(NextOnes(a, n)) = n
         /\ \A i \in 1..n : NextOnes(a, n)[i] = a + i
<1>1. \A i \in 1..n : a + i \in 1..d
  OBVIOUS
<1>2. QED BY <1>1 DEF NextOnes

\* A sequence of that length with those elements is that run.
LEMMA IsNextOnes ==
  ASSUME NEW a \in Nat, NEW s \in Seq(Nat), \A i \in 1..Len(s) : s[i] = a + i
  PROVE  s = NextOnes(a, Len(s))
<1> DEFINE d == a + Len(s)
<1>1. Len(s) \in Nat /\ d \in Nat /\ a + Len(s) <= d
  OBVIOUS
<1>2. /\ NextOnes(a, Len(s)) \in Seq(1..d)
      /\ Len(NextOnes(a, Len(s))) = Len(s)
      /\ \A i \in 1..Len(s) : NextOnes(a, Len(s))[i] = a + i
  BY <1>1, NextOnesMeans
<1>3. NextOnes(a, Len(s)) \in Seq(Nat)
  BY <1>2
<1>4. QED BY <1>2, <1>3, SeqEqual

LEMMA FirstAreNext ==
  ASSUME NEW n \in Nat
  PROVE  FirstOnes(n) = NextOnes(0, n)
BY DEF FirstOnes, NextOnes

LEMMA NoneNext ==
  ASSUME NEW a \in Nat
  PROVE  NextOnes(a, 0) = <<>>
BY NextOnesMeans, a + 0 <= a

\* Two runs that follow each other are one.
LEMMA NextJoin ==
  ASSUME NEW a \in Nat, NEW m \in Nat, NEW n \in Nat
  PROVE  NextOnes(a, m) \o NextOnes(a + m, n) = NextOnes(a, m + n)
<1> DEFINE d == a + m + n
           s == NextOnes(a, m)
           t == NextOnes(a + m, n)
<1>1. /\ s \in Seq(1..d) /\ Len(s) = m /\ \A i \in 1..m : s[i] = a + i
      /\ t \in Seq(1..d) /\ Len(t) = n /\ \A i \in 1..n : t[i] = a + m + i
  <2>1. d \in Nat /\ a + m \in Nat /\ a + m <= d /\ (a + m) + n <= d
    OBVIOUS
  <2>2. QED BY <2>1, NextOnesMeans
<1> HIDE DEF s, t
<1>2. /\ s \o t \in Seq(Nat) /\ Len(s \o t) = m + n
      /\ \A i \in 1..(m + n) : (s \o t)[i] = IF i <= m THEN s[i] ELSE t[i - m]
  <2>1. s \in Seq(Nat) /\ t \in Seq(Nat)
    BY <1>1
  <2>2. /\ s \o t \in Seq(Nat) /\ Len(s \o t) = Len(s) + Len(t)
        /\ \A i \in 1..(Len(s) + Len(t)) :
             (s \o t)[i] = IF i <= Len(s) THEN s[i] ELSE t[i - Len(s)]
    BY <2>1, ConcatProperties
  <2>3. QED BY <1>1, <2>2
<1>3. \A i \in 1..(m + n) : (s \o t)[i] = a + i
  <2> SUFFICES ASSUME NEW i \in 1..(m + n)
               PROVE  (s \o t)[i] = a + i
    OBVIOUS
  <2>1. CASE i <= m
    BY <1>1, <1>2, <2>1
  <2>2. CASE i > m
    <3>1. i - m \in 1..n /\ ~(i <= m)
      BY <2>2
    <3>2. t[i - m] = a + m + (i - m)
      BY <1>1, <3>1
    <3>3. a + m + (i - m) = a + i
      OBVIOUS
    <3>4. QED BY <1>2, <3>1, <3>2, <3>3
  <2>3. i <= m \/ i > m
    OBVIOUS
  <2>4. QED BY <2>1, <2>2, <2>3
<1>4. s \o t = NextOnes(a, Len(s \o t))
  BY <1>2, <1>3, IsNextOnes
<1>5. QED BY <1>2, <1>4 DEF s, t

\* The two parts of a run.
LEMMA NextSplit ==
  ASSUME NEW a \in Nat, NEW n \in Nat, NEW k \in 0..n
  PROVE  /\ SubSeq(NextOnes(a, n), 1, k) = NextOnes(a, k)
         /\ SubSeq(NextOnes(a, n), k + 1, n) = NextOnes(a + k, n - k)
<1> DEFINE d == a + n
           s == NextOnes(a, n)
<1>1. s \in Seq(Nat) /\ Len(s) = n /\ \A i \in 1..n : s[i] = a + i
  <2>1. d \in Nat /\ a + n <= d
    OBVIOUS
  <2>2. s \in Seq(1..d) /\ Len(s) = n /\ \A i \in 1..n : s[i] = a + i
    BY <2>1, NextOnesMeans
  <2> HIDE DEF s
  <2>3. QED BY <2>2
<1> HIDE DEF s
<1>2. SubSeq(s, 1, k) = NextOnes(a, k)
  <2> DEFINE u == SubSeq(s, 1, k)
  <2>1. u \in Seq(Nat) /\ Len(u) = k /\ \A i \in 1..k : u[i] = s[i]
    BY <1>1
  <2> HIDE DEF u
  <2>2. \A i \in 1..Len(u) : u[i] = a + i
    BY <1>1, <2>1
  <2>3. u = NextOnes(a, Len(u))
    BY <2>1, <2>2, IsNextOnes
  <2>4. QED BY <2>1, <2>3 DEF u
<1>3. SubSeq(s, k + 1, n) = NextOnes(a + k, n - k)
  <2> DEFINE u == SubSeq(s, k + 1, n)
  <2>1. u \in Seq(Nat) /\ Len(u) = n - k /\ \A i \in 1..(n - k) : u[i] = s[k + i]
    BY <1>1
  <2> HIDE DEF u
  <2>2. \A i \in 1..Len(u) : u[i] = (a + k) + i
    <3>1. \A i \in 1..(n - k) : k + i \in 1..n
      OBVIOUS
    <3>2. QED BY <1>1, <2>1, <3>1
  <2>3. a + k \in Nat /\ n - k \in Nat
    OBVIOUS
  <2>4. u = NextOnes(a + k, Len(u))
    BY <2>1, <2>2, <2>3, IsNextOnes
  <2>5. QED BY <2>1, <2>4 DEF u
<1>4. QED BY <1>2, <1>3 DEF s

\* The first resources are a prefix of more of them.
LEMMA FirstIsPrefix ==
  ASSUME NEW m \in Nat, NEW n \in Nat, m <= n
  PROVE  IsPrefix(FirstOnes(m), FirstOnes(n))
<1>1. /\ Len(NextOnes(0, m)) = m /\ Len(NextOnes(0, n)) = n
  BY NextOnesMeans, 0 + m <= m, 0 + n <= n
<1>2. SubSeq(NextOnes(0, n), 1, m) = NextOnes(0, m)
  BY NextSplit, m \in 0..n
<1>3. SubSeq(NextOnes(0, m), 1, m) = NextOnes(0, m)
  BY NextSplit, m \in 0..m
<1>4. QED BY <1>1, <1>2, <1>3, FirstAreNext DEF IsPrefix

\* One more message declares at most as much as one message can.
LEMMA MoreMessages ==
  ASSUME NEW k \in Int, NEW m \in Int, NEW D \in Nat
  PROVE  /\ (k + 1) * D = k * D + D
         /\ k <= m => k * D <= m * D
OBVIOUS

-----------------------------------------------------------------------------
(* Where the resources are.                                                *)

\* y resources were yielded, b are buffered and o are being delivered, of d.
Placed(Y, B, O, d, y, b, o) ==
  /\ Y = FirstOnes(y) /\ B = NextOnes(y, b) /\ O = NextOnes(d - o, o)
  /\ y + b <= d /\ o <= d

\* What three runs are that lie as PositionsInv wants them.
LEMMA RunsInOrder ==
  ASSUME NEW d \in Nat, NEW y \in Nat, NEW b \in Nat, NEW o \in Nat,
         NEW Y, NEW B, NEW O, Placed(Y, B, O, d, y, b, o)
  PROVE  /\ Len(Y) = y /\ Len(B) = b /\ Len(O) = o
         /\ Y \in Seq(1..d) /\ B \in Seq(1..d) /\ O \in Seq(1..d)
         /\ IsPrefix(Y, FirstOnes(d))
         /\ y + b + o = d => Y \o B \o O = FirstOnes(d)
<1>0. /\ Y = FirstOnes(y) /\ B = NextOnes(y, b) /\ O = NextOnes(d - o, o)
      /\ y + b <= d /\ o <= d
  BY DEF Placed
<1>1. Len(Y) = y /\ Y \in Seq(1..d)
  BY <1>0, FirstAreNext, NextOnesMeans, 0 + y <= d
<1>2. Len(B) = b /\ B \in Seq(1..d)
  BY <1>0, NextOnesMeans
<1>3. Len(O) = o /\ O \in Seq(1..d)
  <2>1. d - o \in Nat /\ (d - o) + o <= d
    BY <1>0
  <2>2. QED BY <1>0, <2>1, NextOnesMeans
<1>4. IsPrefix(Y, FirstOnes(d))
  BY <1>0, FirstIsPrefix, y <= d
<1>5. ASSUME y + b + o = d PROVE Y \o B \o O = FirstOnes(d)
  <2>1. y + b \in Nat /\ 0 + y = y /\ 0 + (y + b) = d - o /\ (y + b) + o = d
    BY <1>5
  <2>2. Y \o B = NextOnes(0, y + b)
    <3>1. NextOnes(0, y) \o NextOnes(0 + y, b) = NextOnes(0, y + b)
      BY NextJoin
    <3>2. QED BY <1>0, <2>1, <3>1, FirstAreNext
  <2>3. NextOnes(0, y + b) \o O = FirstOnes(d)
    <3>1. \A m, n \in Nat :
             NextOnes(0, m) \o NextOnes(0 + m, n) = NextOnes(0, m + n)
      BY NextJoin
    <3>2. NextOnes(0, y + b) \o NextOnes(0 + (y + b), o) = NextOnes(0, (y + b) + o)
      BY <2>1, <3>1
    <3>3. QED BY <1>0, <2>1, <3>2, FirstAreNext
  <2>4. QED BY <2>2, <2>3
<1>6. QED BY <1>1, <1>2, <1>3, <1>4, <1>5

\* Does nobody keep the stream from being delivered?
Delivering == ~done /\ (~runDone \/ runner \notin {"close", "over"})

LEMMA PlacedNow ==
  ASSUME SeedTypeOK, PositionsInv
  PROVE  /\ declared \in Nat
         /\ Len(yielded) \in Nat /\ Len(buf) \in Nat /\ Len(offer.bindings) \in Nat
         /\ Placed(yielded, buf, offer.bindings, declared,
                   Len(yielded), Len(buf), Len(offer.bindings))
         /\ Delivering =>
              Len(yielded) + Len(buf) + Len(offer.bindings) = declared
<1>1. /\ yielded \in Seq(1..declared) /\ buf \in Seq(1..declared)
      /\ offer.bindings \in Seq(1..declared)
  BY DEF SeedTypeOK
<1>2. Len(yielded) \in Nat /\ Len(buf) \in Nat /\ Len(offer.bindings) \in Nat
  BY <1>1
<1>3. declared \in Nat
  BY DEF SeedTypeOK
<1>4. QED BY <1>2, <1>3 DEF PositionsInv, Placed, Delivering

\* The conjuncts of SeedInv about sequences.
SequencesInv ==
  /\ PositionsInv /\ InDeclaredOrder /\ declared \in Nat
  /\ {buf, yielded, offer.bindings} \subseteq Seq(1..declared)

\* Positions that are known after a step make the invariants there.
LEMMA PlacedNext ==
  ASSUME declared' \in Nat,
         NEW y \in Nat, NEW b \in Nat, NEW o \in Nat,
         Placed(yielded', buf', (offer.bindings)', declared', y, b, o),
         Delivering' => y + b + o = declared'
  PROVE  SequencesInv'
<1>1. /\ Len(yielded') = y /\ Len(buf') = b /\ Len((offer.bindings)') = o
      /\ yielded' \in Seq(1..declared') /\ buf' \in Seq(1..declared')
      /\ (offer.bindings)' \in Seq(1..declared')
      /\ IsPrefix(yielded', FirstOnes(declared'))
      /\ y + b + o = declared' =>
           yielded' \o buf' \o (offer.bindings)' = FirstOnes(declared')
  <2> DEFINE Ordered(Y, B, O, d, i, j, k) ==
               /\ Len(Y) = i /\ Len(B) = j /\ Len(O) = k
               /\ Y \in Seq(1..d) /\ B \in Seq(1..d) /\ O \in Seq(1..d)
               /\ IsPrefix(Y, FirstOnes(d))
               /\ i + j + k = d => Y \o B \o O = FirstOnes(d)
  <2>1. \A d, i, j, k \in Nat : \A Y, B, O :
          Placed(Y, B, O, d, i, j, k) => Ordered(Y, B, O, d, i, j, k)
    BY RunsInOrder
  <2> HIDE DEF Ordered
  <2>2. Ordered(yielded', buf', (offer.bindings)', declared', y, b, o)
    BY <2>1
  <2>3. QED BY <2>2 DEF Ordered
<1>2. PositionsInv'
  BY <1>1 DEF PositionsInv, Placed, Delivering
<1>3. InDeclaredOrder'
  BY <1>1 DEF InDeclaredOrder, Delivering
<1>4. QED BY <1>1, <1>2, <1>3 DEF SequencesInv

\* A step that moves nothing, and revives nothing.
LEMMA NothingMoves ==
  ASSUME SeedInv, UNCHANGED <<yielded, buf, declared>>,
         (offer.bindings)' = offer.bindings, Delivering' => Delivering
  PROVE  SequencesInv'
<1>1. SeedTypeOK /\ PositionsInv
  BY DEF SeedInv
<1> QED
  BY <1>1, PlacedNow, PlacedNext

\* A step that ends the delivery, or empties what there was not.
LEMMA OfferDropped ==
  ASSUME SeedInv, UNCHANGED <<yielded, buf, declared>>,
         (offer.bindings)' = <<>>,
         Delivering' => Delivering /\ offer.bindings = <<>>
  PROVE  SequencesInv'
<1> DEFINE y == Len(yielded)
           b == Len(buf)
<1>1. SeedTypeOK /\ PositionsInv
  BY DEF SeedInv
<1>2. declared \in Nat /\ y \in Nat /\ b \in Nat /\ 0 \in Nat
  BY <1>1, PlacedNow
<1>3. (offer.bindings)' = NextOnes(declared - 0, 0) /\ 0 <= declared
  BY <1>2, NoneNext
<1>4. Placed(yielded', buf', (offer.bindings)', declared', y, b, 0)
  BY <1>1, <1>3, PlacedNow DEF Placed
<1>5. Delivering' => y + b + 0 = declared'
  <2>1. Len(<<>>) = 0
    OBVIOUS
  <2>2. QED BY <1>1, <2>1, PlacedNow
<1>6. QED BY <1>2, <1>4, <1>5, PlacedNext

\* A chunk is cut off the buffer.
LEMMA ChunkServed ==
  ASSUME SeedInv, Serve, UNCHANGED <<offer, declared>>, Delivering' => Delivering
  PROVE  SequencesInv'
<1> DEFINE y == Len(yielded)
           b == Len(buf)
           o == Len(offer.bindings)
           n == IF ChunkSize < b THEN ChunkSize ELSE b
<1>1. SeedTypeOK /\ PositionsInv
  BY DEF SeedInv
<1>2. /\ declared \in Nat /\ y \in Nat /\ b \in Nat /\ o \in Nat
      /\ Placed(yielded, buf, offer.bindings, declared, y, b, o)
      /\ Delivering => y + b + o = declared
  BY <1>1, PlacedNow
<1>3. n \in 0..b
  BY <1>2, SeedAssumption
<1>4. /\ yielded' = yielded \o SubSeq(buf, 1, n)
      /\ buf' = SubSeq(buf, n + 1, b)
  BY DEF Serve
<1> HIDE DEF y, b, o, n
<1>5. /\ yielded = FirstOnes(y) /\ buf = NextOnes(y, b)
      /\ y + b <= declared /\ o <= declared
  BY <1>2 DEF Placed
<1>6. yielded' = FirstOnes(y + n)
  <2>1. SubSeq(buf, 1, n) = NextOnes(y, n)
    BY <1>2, <1>3, <1>5, NextSplit
  <2>2. n \in Nat /\ y + n \in Nat /\ 0 + y = y
    BY <1>2, <1>3
  <2>3. \A i, j \in Nat :
           NextOnes(0, i) \o NextOnes(0 + i, j) = NextOnes(0, i + j)
    BY NextJoin
  <2>4. NextOnes(0, y) \o NextOnes(y, n) = NextOnes(0, y + n)
    BY <1>2, <2>2, <2>3
  <2>5. QED BY <1>2, <1>4, <1>5, <2>1, <2>2, <2>4, FirstAreNext
<1>7. buf' = NextOnes(y + n, b - n)
  BY <1>2, <1>3, <1>4, <1>5, NextSplit
<1>8. /\ y + n \in Nat /\ b - n \in Nat /\ (y + n) + (b - n) = y + b
      /\ (y + n) + (b - n) + o = y + b + o
  BY <1>2, <1>3
<1>9. Placed(yielded', buf', (offer.bindings)', declared', y + n, b - n, o)
  BY <1>2, <1>5, <1>6, <1>7, <1>8 DEF Placed
<1>10. QED BY <1>2, <1>8, <1>9, PlacedNext

\* What was delivered becomes the buffer.
LEMMA BindingsReceived ==
  ASSUME SeedInv, PullReceives
  PROVE  SequencesInv'
<1> DEFINE y == Len(yielded)
           o == Len(offer.bindings)
<1>1. SeedTypeOK /\ PositionsInv /\ CallerInv
  BY DEF SeedInv
<1>2. /\ call = "pull" /\ buf = <<>> /\ runner = "deliver"
      /\ buf' = offer.bindings /\ offer' = NoOffer
      /\ UNCHANGED <<yielded, declared>>
  BY DEF PullReceives, runnerVars, callerVars
<1>3. Delivering
  BY <1>1, <1>2 DEF CallerInv, Delivering
<1>4. /\ declared \in Nat /\ y \in Nat /\ o \in Nat
      /\ Placed(yielded, buf, offer.bindings, declared, y, 0, o)
      /\ y + 0 + o = declared
  <2>1. Len(<<>>) = 0
    OBVIOUS
  <2>2. QED BY <1>1, <1>2, <1>3, <2>1, PlacedNow
<1>5. (offer.bindings)' = <<>>
  BY <1>2 DEF NoOffer, Bindings
<1> HIDE DEF y, o
<1>6. declared - o = y /\ y + o <= declared /\ 0 \in Nat /\ 0 <= declared
      /\ y + o + 0 = declared
  BY <1>4
<1>7. (offer.bindings)' = NextOnes(declared - 0, 0)
  BY <1>4, <1>5, NoneNext
<1>8. Placed(yielded', buf', (offer.bindings)', declared', y, o, 0)
  BY <1>2, <1>4, <1>6, <1>7 DEF Placed
<1>9. QED BY <1>2, <1>4, <1>6, <1>8, PlacedNext

\* The resources of a message are offered, behind those that there were.
LEMMA BindingsOffered ==
  ASSUME SeedInv, offer.bindings = <<>>, UNCHANGED <<yielded, buf>>,
         NEW n \in Nat, declared' = declared + n,
         (offer.bindings)' = NextOnes(declared, n), Delivering' => Delivering
  PROVE  SequencesInv'
<1> DEFINE y == Len(yielded)
           b == Len(buf)
<1>1. SeedTypeOK /\ PositionsInv
  BY DEF SeedInv
<1>2. /\ declared \in Nat /\ y \in Nat /\ b \in Nat
      /\ Placed(yielded, buf, <<>>, declared, y, b, 0)
      /\ Delivering => y + b + 0 = declared
  <2>1. Len(<<>>) = 0
    OBVIOUS
  <2>2. QED BY <1>1, <2>1, PlacedNow
<1> HIDE DEF y, b
<1>3. /\ yielded = FirstOnes(y) /\ buf = NextOnes(y, b) /\ y + b <= declared
  BY <1>2 DEF Placed
<1>4. /\ declared' \in Nat /\ n <= declared' /\ y + b <= declared'
      /\ declared' - n = declared
      /\ Delivering' => y + b + n = declared'
  BY <1>2, <1>3
<1>5. Placed(yielded', buf', (offer.bindings)', declared', y, b, n)
  BY <1>3, <1>4 DEF Placed
<1>6. QED BY <1>2, <1>4, <1>5, PlacedNext

\* Nothing is left in the buffer.
LEMMA BufferDropped ==
  ASSUME SeedInv, done', buf' = <<>>, UNCHANGED <<yielded, offer, declared>>
  PROVE  SequencesInv'
<1> DEFINE y == Len(yielded)
           o == Len(offer.bindings)
<1>1. SeedTypeOK /\ PositionsInv
  BY DEF SeedInv
<1>2. /\ declared \in Nat /\ y \in Nat /\ Len(buf) \in Nat /\ o \in Nat
      /\ Placed(yielded, buf, offer.bindings, declared, y, Len(buf), o)
  BY <1>1, PlacedNow
<1>3. buf' = NextOnes(y, 0) /\ 0 \in Nat
  BY <1>2, NoneNext
<1> HIDE DEF y, o
<1>4. y + 0 <= declared
  BY <1>2 DEF Placed
<1>5. Placed(yielded', buf', (offer.bindings)', declared', y, 0, o)
  BY <1>2, <1>3, <1>4 DEF Placed
<1>6. ~Delivering'
  BY DEF Delivering
<1>7. QED BY <1>2, <1>3, <1>5, <1>6, PlacedNext

-----------------------------------------------------------------------------
(* One step of anyone.                                                     *)

\* The conjuncts of SeedTypeOK that are not about sequences.
ControlOK ==
  /\ runDone \in BOOLEAN /\ done \in BOOLEAN /\ gotAny \in BOOLEAN
  /\ stopped \in BOOLEAN /\ armed \in BOOLEAN
  /\ sendOpen \in BOOLEAN /\ errsOpen \in BOOLEAN
  /\ call \in {"idle", "pull", "finish"}
  /\ pending \in Outcome /\ ending \in Outcome
  /\ runner \in {"unstarted", "bind", "select", "deliver", "wait", "close", "over"}
  /\ seed \in {"unstarted", "working", "sending", "failing", "returned"}
  /\ seedMsgs \in 0..MaxSeedMsgs /\ seedErrs \in 0..MaxSeedErrs
  /\ offer.err \in Failure \cup {"none"}

\* An offer that is none.
LEMMA NoOfferMeans ==
  /\ NoOffer.err = "none" /\ NoOffer.bindings = <<>>
  /\ \A e : Error(e).err = e /\ Error(e).bindings = <<>>
  /\ \A b : Bindings(b).err = "none" /\ Bindings(b).bindings = b
BY DEF NoOffer, Bindings, Error

\* What a message can be made of.
LEMMA UnitIs ==
  ASSUME declared \in Nat, NEW u \in RemoteUnits
  PROVE  \/ u = Error("parse") /\ u # NoOffer
         \/ u = NoOffer
         \/ \E n \in 1..MaxDeclared :
              /\ u = Bindings(NextOnes(declared, n)) /\ u # NoOffer
              /\ Len(u.bindings) = n /\ u.bindings # <<>>
<1>1. CASE u = Error("parse")
  BY <1>1 DEF Error, NoOffer, Bindings
<1>2. ASSUME NEW n \in 0..MaxDeclared, u = Bindings(NextOnes(declared, n))
      PROVE  \/ u = NoOffer
             \/ /\ n \in 1..MaxDeclared /\ u # NoOffer
                /\ Len(u.bindings) = n /\ u.bindings # <<>>
  <2>1. u.bindings = NextOnes(declared, n)
    BY <1>2 DEF Bindings
  <2>2. Len(u.bindings) = n
    <3>1. n \in Nat /\ declared + n \in Nat /\ declared + n <= declared + n
      BY SeedAssumption
    <3>2. QED BY <2>1, <3>1, NextOnesMeans
  <2>3. CASE n = 0
    BY <1>2, <2>3, NoneNext DEF NoOffer
  <2>4. CASE n # 0
    <3>1. n \in 1..MaxDeclared
      BY <2>4, SeedAssumption
    <3>2. u.bindings # <<>>
      BY <2>2, <2>4
    <3>3. QED BY <2>2, <3>1, <3>2, NoOfferMeans
  <2>5. QED BY <2>3, <2>4
<1>3. u = Error("parse")
        \/ \E n \in 0..MaxDeclared : u = Bindings(NextOnes(declared, n))
  BY DEF RemoteUnits, NextOnes
<1>4. QED BY <1>1, <1>2, <1>3

\* Everybody stays where the model has a place.
LEMMA ControlStep == SeedInv /\ [SeedNext]_vars => ControlOK'
<1> SUFFICES ASSUME SeedInv, [SeedNext]_vars
             PROVE  ControlOK'
  OBVIOUS
<1>1. ControlOK /\ RunnerInv /\ CallerInv /\ declared \in Nat
  BY DEF SeedInv, SeedTypeOK, ControlOK
<1>2. CASE PullWhenDone
  BY <1>1, <1>2 DEF PullWhenDone, Serve, runnerVars, seedVars, ControlOK
<1>3. CASE PullWhenCancelled
  BY <1>1, <1>3 DEF PullWhenCancelled, Finish, runnerVars, seedVars,
     ControlOK, Outcome, Failure
<1>4. CASE PullStart
  BY <1>1, <1>4 DEF PullStart, seedVars, ControlOK
<1>5. CASE PullServes
  BY <1>1, <1>5 DEF PullServes, Serve, runnerVars, seedVars, ControlOK
<1>6. CASE PullReceives
  BY <1>1, <1>6, NoOfferMeans DEF PullReceives, seedVars, ControlOK
<1>7. CASE PullFails
  BY <1>1, <1>7, NoOfferMeans DEF PullFails, Finish, seedVars, ControlOK,
     Outcome, Failure
<1>8. CASE PullSeesEnd
  BY <1>1, <1>8 DEF PullSeesEnd, Finish, runnerVars, seedVars, ControlOK,
     Outcome, Failure
<1>9. CASE PullCancelled
  BY <1>1, <1>9 DEF PullCancelled, Finish, runnerVars, seedVars, ControlOK,
     Outcome, Failure
<1>10. CASE FinishDrains
  BY <1>1, <1>10, NoOfferMeans DEF FinishDrains, callerVars, seedVars,
     ControlOK
<1>11. CASE FinishReturns
  BY <1>1, <1>11 DEF FinishReturns, runnerVars, seedVars, ControlOK
<1>12. CASE Release
  BY <1>1, <1>12 DEF Release, Finish, runnerVars, seedVars, ControlOK,
     Outcome, Failure
<1>13. CASE RunnerBinds
  BY <1>1, <1>13, SeedAssumption DEF RunnerBinds, callerVars, ControlOK
<1>14. CASE RunnerBindFails
  BY <1>1, <1>14, NoOfferMeans DEF RunnerBindFails, Deliver, Error,
     callerVars, seedVars, ControlOK, Failure
<1>15. CASE RunnerCancelled
  BY <1>1, <1>15, NoOfferMeans DEF RunnerCancelled, seedCtxDone, callerVars,
     seedVars, ControlOK
<1>16. CASE RunnerTimesOut
  BY <1>1, <1>16, NoOfferMeans DEF RunnerTimesOut, Deliver, Error, callerVars,
     seedVars, ControlOK, Failure
<1>17. CASE RunnerTakesErr
  BY <1>1, <1>17, NoOfferMeans DEF RunnerTakesErr, Deliver, Error, callerVars,
     ControlOK, Failure
<1>18. CASE RunnerTakesMsg
  <2>1. PICK u \in RemoteUnits :
          IF u = NoOffer THEN UNCHANGED runnerVars
          ELSE /\ Deliver(u) /\ declared' = declared + Len(u.bindings)
               /\ armed' = (armed /\ u.bindings = <<>>)
    BY <1>18 DEF RunnerTakesMsg
  <2>2. u.err \in {"none", "parse"}
    BY <1>1, UnitIs, NoOfferMeans
  <2>3. /\ offer'.err \in Failure \cup {"none"}
        /\ runner' \in {"select", "deliver"} /\ armed' \in BOOLEAN
    BY <1>1, <1>18, <2>1, <2>2 DEF ControlOK, Deliver, runnerVars, Failure,
       RunnerTakesMsg
  <2>4. QED BY <1>1, <1>18, <2>3 DEF RunnerTakesMsg, callerVars, ControlOK
<1>19. CASE RunnerSeesClose
  BY <1>1, <1>19 DEF RunnerSeesClose, callerVars, seedVars, ControlOK
<1>20. CASE RunnerSeesReturn
  BY <1>1, <1>20 DEF RunnerSeesReturn, callerVars, seedVars, ControlOK
<1>21. CASE RunnerExits
  BY <1>1, <1>21 DEF RunnerExits, callerVars, seedVars, ControlOK
<1>22. CASE SeedSends
  BY <1>1, <1>22, SeedAssumption DEF SeedSends, callerVars, runnerVars,
     ControlOK
<1>23. CASE SeedFails
  BY <1>1, <1>23, SeedAssumption DEF SeedFails, callerVars, runnerVars,
     ControlOK
<1>24. CASE SeedCloses
  <2>1. sendOpen' \in BOOLEAN /\ errsOpen' \in BOOLEAN
    BY <1>1, <1>24 DEF SeedCloses, ControlOK
  <2>2. QED BY <1>1, <1>24, <2>1 DEF SeedCloses, callerVars, runnerVars, ControlOK
<1>25. CASE SeedReturns
  BY <1>1, <1>25 DEF SeedReturns, callerVars, runnerVars, ControlOK
<1>26. CASE SeedGivesUp
  BY <1>1, <1>26 DEF SeedGivesUp, seedCtxDone, callerVars, runnerVars,
     ControlOK
<1>27. CASE RunEnded
  BY <1>1, <1>27 DEF RunEnded, EndRun, callerVars, runnerVars, seedVars,
     ControlOK
<1>28. CASE UNCHANGED vars
  BY <1>1, <1>28 DEF vars, callerVars, runnerVars, seedVars, ControlOK
<1>29. QED
  BY <1>2, <1>3, <1>4, <1>5, <1>6, <1>7, <1>8, <1>9, <1>10, <1>11, <1>12,
     <1>13, <1>14, <1>15, <1>16, <1>17, <1>18, <1>19, <1>20, <1>21, <1>22,
     <1>23, <1>24, <1>25, <1>26, <1>27, <1>28 DEF SeedNext, Caller, CallEnds,
     Runner, SeedSteps

\* The resources stay in order, and none is lost.
LEMMA SequencesStep == SeedInv /\ [SeedNext]_vars => SequencesInv'
<1> SUFFICES ASSUME SeedInv, [SeedNext]_vars
             PROVE  SequencesInv'
  OBVIOUS
<1>1. ControlOK /\ RunnerInv /\ CallerInv /\ declared \in Nat
  BY DEF SeedInv, SeedTypeOK, ControlOK
<1>2. CASE PullWhenDone
  <2>1. Serve /\ UNCHANGED <<offer, declared>>
    BY <1>2 DEF PullWhenDone, runnerVars
  <2>2. Delivering' => Delivering
    BY <1>2 DEF PullWhenDone, runnerVars, Delivering
  <2>3. QED BY <2>1, <2>2, ChunkServed
<1>3. CASE PullWhenCancelled
  <2>1. UNCHANGED <<yielded, buf, declared>> /\ (offer.bindings)' = offer.bindings
    BY <1>3 DEF PullWhenCancelled, Finish, runnerVars
  <2>2. Delivering' => Delivering
    BY <1>1, <1>3 DEF PullWhenCancelled, Finish, runnerVars, Delivering
  <2>3. QED BY <2>1, <2>2, NothingMoves
<1>4. CASE PullStart
  <2>1. UNCHANGED <<yielded, buf, declared>> /\ (offer.bindings)' = offer.bindings
    BY <1>4 DEF PullStart
  <2>2. Delivering' => Delivering
    BY <1>1, <1>4 DEF PullStart, Delivering
  <2>3. QED BY <2>1, <2>2, NothingMoves
<1>5. CASE PullServes
  <2>1. Serve /\ UNCHANGED <<offer, declared>>
    BY <1>5 DEF PullServes, runnerVars
  <2>2. Delivering' => Delivering
    BY <1>5 DEF PullServes, runnerVars, Delivering
  <2>3. QED BY <2>1, <2>2, ChunkServed
<1>6. CASE PullReceives
  BY <1>6, BindingsReceived
<1>7. CASE PullFails
  <2>1. UNCHANGED <<yielded, buf, declared>> /\ (offer.bindings)' = <<>>
    BY <1>7, NoOfferMeans DEF PullFails, Finish
  <2>2. Delivering' => Delivering /\ offer.bindings = <<>>
    BY <1>1, <1>7, NoOfferMeans DEF PullFails, Finish, Delivering, RunnerInv,
       CallerInv, seedCtxDone
  <2>3. QED BY <2>1, <2>2, OfferDropped
<1>8. CASE PullSeesEnd
  <2>1. UNCHANGED <<yielded, buf, declared>> /\ (offer.bindings)' = offer.bindings
    BY <1>8 DEF PullSeesEnd, Finish, runnerVars
  <2>2. Delivering' => Delivering
    BY <1>1, <1>8 DEF PullSeesEnd, Finish, runnerVars, Delivering
  <2>3. QED BY <2>1, <2>2, NothingMoves
<1>9. CASE PullCancelled
  <2>1. UNCHANGED <<yielded, buf, declared>> /\ (offer.bindings)' = offer.bindings
    BY <1>9 DEF PullCancelled, Finish, runnerVars
  <2>2. Delivering' => Delivering
    BY <1>1, <1>9 DEF PullCancelled, Finish, runnerVars, Delivering
  <2>3. QED BY <2>1, <2>2, NothingMoves
<1>10. CASE FinishDrains
  <2>1. UNCHANGED <<yielded, buf, declared>> /\ (offer.bindings)' = <<>>
    BY <1>10, NoOfferMeans DEF FinishDrains, callerVars
  <2>2. Delivering' => Delivering /\ offer.bindings = <<>>
    BY <1>1, <1>10, NoOfferMeans DEF FinishDrains, callerVars, Delivering,
       RunnerInv, CallerInv, seedCtxDone
  <2>3. QED BY <2>1, <2>2, OfferDropped
<1>11. CASE FinishReturns
  <2>1. /\ UNCHANGED <<yielded, offer, declared, done, runDone, runner>>
        /\ (offer.bindings)' = offer.bindings /\ done'
    BY <1>1, <1>11 DEF FinishReturns, runnerVars, CallerInv
  <2>2. CASE pending = "released"
    BY <1>11, <2>1, <2>2, BufferDropped DEF FinishReturns
  <2>3. CASE pending # "released"
    BY <1>11, <2>1, <2>3, NothingMoves DEF FinishReturns, Delivering
  <2>4. QED BY <2>2, <2>3
<1>12. CASE Release
  <2>1. UNCHANGED <<yielded, buf, declared>> /\ (offer.bindings)' = offer.bindings
    BY <1>12 DEF Release, Finish, runnerVars
  <2>2. Delivering' => Delivering
    BY <1>1, <1>12 DEF Release, Finish, runnerVars, Delivering
  <2>3. QED BY <2>1, <2>2, NothingMoves
<1>13. CASE RunnerBinds
  <2>1. UNCHANGED <<yielded, buf, declared>> /\ (offer.bindings)' = offer.bindings
    BY <1>13 DEF RunnerBinds, callerVars
  <2>2. Delivering' => Delivering
    BY <1>1, <1>13 DEF RunnerBinds, callerVars, Delivering
  <2>3. QED BY <2>1, <2>2, NothingMoves
<1>14. CASE RunnerBindFails
  <2>1. UNCHANGED <<yielded, buf, declared>> /\ (offer.bindings)' = <<>>
    BY <1>14, NoOfferMeans DEF RunnerBindFails, Deliver, Error, callerVars
  <2>2. Delivering' => Delivering /\ offer.bindings = <<>>
    BY <1>1, <1>14, NoOfferMeans DEF RunnerBindFails, Deliver, Error, callerVars,
       Delivering, RunnerInv, CallerInv, seedCtxDone
  <2>3. QED BY <2>1, <2>2, OfferDropped
<1>15. CASE RunnerCancelled
  <2>1. UNCHANGED <<yielded, buf, declared>> /\ (offer.bindings)' = <<>>
    BY <1>15, NoOfferMeans DEF RunnerCancelled, seedCtxDone, callerVars
  <2>2. Delivering' => Delivering /\ offer.bindings = <<>>
    BY <1>1, <1>15, NoOfferMeans DEF RunnerCancelled, seedCtxDone, callerVars,
       Delivering, RunnerInv, CallerInv
  <2>3. QED BY <2>1, <2>2, OfferDropped
<1>16. CASE RunnerTimesOut
  <2>1. UNCHANGED <<yielded, buf, declared>> /\ (offer.bindings)' = <<>>
    BY <1>16, NoOfferMeans DEF RunnerTimesOut, Deliver, Error, callerVars
  <2>2. Delivering' => Delivering /\ offer.bindings = <<>>
    BY <1>1, <1>16, NoOfferMeans DEF RunnerTimesOut, Deliver, Error, callerVars,
       Delivering, RunnerInv, CallerInv, seedCtxDone
  <2>3. QED BY <2>1, <2>2, OfferDropped
<1>17. CASE RunnerTakesErr
  <2>1. UNCHANGED <<yielded, buf, declared>> /\ (offer.bindings)' = <<>>
    BY <1>17, NoOfferMeans DEF RunnerTakesErr, Deliver, Error, callerVars
  <2>2. Delivering' => Delivering /\ offer.bindings = <<>>
    BY <1>1, <1>17, NoOfferMeans DEF RunnerTakesErr, Deliver, Error, callerVars,
       Delivering, RunnerInv, CallerInv, seedCtxDone
  <2>3. QED BY <2>1, <2>2, OfferDropped
<1>18. CASE RunnerTakesMsg
  <2>1. PICK u \in RemoteUnits :
          IF u = NoOffer THEN UNCHANGED runnerVars
          ELSE /\ Deliver(u) /\ declared' = declared + Len(u.bindings)
               /\ armed' = (armed /\ u.bindings = <<>>)
    BY <1>18 DEF RunnerTakesMsg
  <2>2. /\ runner = "select" /\ UNCHANGED <<yielded, buf, done, runDone>>
        /\ offer.bindings = <<>>
    BY <1>1, <1>18, NoOfferMeans DEF RunnerTakesMsg, callerVars, RunnerInv
  <2>3. Delivering' => Delivering
    BY <2>2 DEF Delivering
  <2>4. CASE u = Error("parse") /\ u # NoOffer
    <3>1. (offer.bindings)' = <<>> /\ declared' = declared + Len(<<>>)
      BY <2>1, <2>4, NoOfferMeans DEF Deliver
    <3>2. declared' = declared
      <4>1. Len(<<>>) = 0
        OBVIOUS
      <4>2. QED BY <1>1, <3>1, <4>1
    <3>3. QED BY <2>2, <2>3, <3>1, <3>2, OfferDropped
  <2>5. CASE u = NoOffer
    <3>1. (offer.bindings)' = offer.bindings /\ declared' = declared
      BY <2>1, <2>5 DEF runnerVars
    <3>2. QED BY <2>2, <2>3, <3>1, NothingMoves
  <2>6. ASSUME NEW n \in 1..MaxDeclared, u = Bindings(NextOnes(declared, n)),
               u # NoOffer, Len(u.bindings) = n
        PROVE  SequencesInv'
    <3>1. (offer.bindings)' = NextOnes(declared, n) /\ declared' = declared + n
      BY <2>1, <2>6, NoOfferMeans DEF Deliver
    <3>2. n \in Nat
      OBVIOUS
    <3>3. QED BY <2>2, <2>3, <3>1, <3>2, BindingsOffered
  <2>7. QED BY <1>1, <2>4, <2>5, <2>6, UnitIs
<1>19. CASE RunnerSeesClose
  <2>1. UNCHANGED <<yielded, buf, declared>> /\ (offer.bindings)' = offer.bindings
    BY <1>19 DEF RunnerSeesClose, callerVars
  <2>2. Delivering' => Delivering
    BY <1>1, <1>19 DEF RunnerSeesClose, callerVars, Delivering
  <2>3. QED BY <2>1, <2>2, NothingMoves
<1>20. CASE RunnerSeesReturn
  <2>1. UNCHANGED <<yielded, buf, declared>> /\ (offer.bindings)' = offer.bindings
    BY <1>20 DEF RunnerSeesReturn, callerVars
  <2>2. Delivering' => Delivering
    BY <1>1, <1>20 DEF RunnerSeesReturn, callerVars, Delivering
  <2>3. QED BY <2>1, <2>2, NothingMoves
<1>21. CASE RunnerExits
  <2>1. UNCHANGED <<yielded, buf, declared>> /\ (offer.bindings)' = offer.bindings
    BY <1>21 DEF RunnerExits, callerVars
  <2>2. Delivering' => Delivering
    BY <1>1, <1>21 DEF RunnerExits, callerVars, Delivering
  <2>3. QED BY <2>1, <2>2, NothingMoves
<1>22. CASE SeedSends
  <2>1. UNCHANGED <<yielded, buf, declared>> /\ (offer.bindings)' = offer.bindings
    BY <1>22 DEF SeedSends, callerVars, runnerVars
  <2>2. Delivering' => Delivering
    BY <1>1, <1>22 DEF SeedSends, callerVars, runnerVars, Delivering
  <2>3. QED BY <2>1, <2>2, NothingMoves
<1>23. CASE SeedFails
  <2>1. UNCHANGED <<yielded, buf, declared>> /\ (offer.bindings)' = offer.bindings
    BY <1>23 DEF SeedFails, callerVars, runnerVars
  <2>2. Delivering' => Delivering
    BY <1>1, <1>23 DEF SeedFails, callerVars, runnerVars, Delivering
  <2>3. QED BY <2>1, <2>2, NothingMoves
<1>24. CASE SeedCloses
  <2>1. UNCHANGED <<yielded, buf, declared>> /\ (offer.bindings)' = offer.bindings
    BY <1>24 DEF SeedCloses, callerVars, runnerVars
  <2>2. Delivering' => Delivering
    BY <1>1, <1>24 DEF SeedCloses, callerVars, runnerVars, Delivering
  <2>3. QED BY <2>1, <2>2, NothingMoves
<1>25. CASE SeedReturns
  <2>1. UNCHANGED <<yielded, buf, declared>> /\ (offer.bindings)' = offer.bindings
    BY <1>25 DEF SeedReturns, callerVars, runnerVars
  <2>2. Delivering' => Delivering
    BY <1>1, <1>25 DEF SeedReturns, callerVars, runnerVars, Delivering
  <2>3. QED BY <2>1, <2>2, NothingMoves
<1>26. CASE SeedGivesUp
  <2>1. UNCHANGED <<yielded, buf, declared>> /\ (offer.bindings)' = offer.bindings
    BY <1>26 DEF SeedGivesUp, seedCtxDone, callerVars, runnerVars
  <2>2. Delivering' => Delivering
    BY <1>1, <1>26 DEF SeedGivesUp, seedCtxDone, callerVars, runnerVars,
       Delivering
  <2>3. QED BY <2>1, <2>2, NothingMoves
<1>27. CASE RunEnded
  <2>1. UNCHANGED <<yielded, buf, declared>> /\ (offer.bindings)' = offer.bindings
    BY <1>27 DEF RunEnded, EndRun, callerVars, runnerVars
  <2>2. Delivering' => Delivering
    BY <1>1, <1>27 DEF RunEnded, EndRun, callerVars, runnerVars, Delivering
  <2>3. QED BY <2>1, <2>2, NothingMoves
<1>28. CASE UNCHANGED vars
  <2>1. UNCHANGED <<yielded, buf, declared>> /\ (offer.bindings)' = offer.bindings
    BY <1>28 DEF vars, callerVars, runnerVars
  <2>2. Delivering' => Delivering
    BY <1>1, <1>28 DEF vars, callerVars, runnerVars, Delivering
  <2>3. QED BY <2>1, <2>2, NothingMoves
<1>29. QED
  BY <1>2, <1>3, <1>4, <1>5, <1>6, <1>7, <1>8, <1>9, <1>10, <1>11, <1>12,
     <1>13, <1>14, <1>15, <1>16, <1>17, <1>18, <1>19, <1>20, <1>21, <1>22,
     <1>23, <1>24, <1>25, <1>26, <1>27, <1>28 DEF SeedNext, Caller, CallEnds,
     Runner, SeedSteps

\* The runner offers, closes and times out as it should.
LEMMA RunnerStep == SeedInv /\ [SeedNext]_vars => RunnerInv'
<1> SUFFICES ASSUME SeedInv, [SeedNext]_vars
             PROVE  RunnerInv'
  OBVIOUS
<1>1. ControlOK /\ RunnerInv /\ CallerInv /\ declared \in Nat
  BY DEF SeedInv, SeedTypeOK, ControlOK
<1>2. CASE PullWhenDone
  BY <1>1, <1>2 DEF PullWhenDone, Serve, runnerVars, seedVars, RunnerInv
<1>3. CASE PullWhenCancelled
  BY <1>1, <1>3 DEF PullWhenCancelled, Finish, runnerVars, seedVars, RunnerInv
<1>4. CASE PullStart
  BY <1>1, <1>4, NoOfferMeans DEF PullStart, seedVars, RunnerInv
<1>5. CASE PullServes
  BY <1>1, <1>5 DEF PullServes, Serve, runnerVars, seedVars, RunnerInv
<1>6. CASE PullReceives
  BY <1>1, <1>6, NoOfferMeans DEF PullReceives, seedVars, RunnerInv
<1>7. CASE PullFails
  BY <1>1, <1>7, NoOfferMeans DEF PullFails, Finish, seedVars, RunnerInv
<1>8. CASE PullSeesEnd
  BY <1>1, <1>8 DEF PullSeesEnd, Finish, runnerVars, seedVars, RunnerInv
<1>9. CASE PullCancelled
  BY <1>1, <1>9 DEF PullCancelled, Finish, runnerVars, seedVars, RunnerInv
<1>10. CASE FinishDrains
  BY <1>1, <1>10, NoOfferMeans DEF FinishDrains, callerVars, seedVars,
     RunnerInv, CallerInv
<1>11. CASE FinishReturns
  BY <1>1, <1>11 DEF FinishReturns, runnerVars, seedVars, RunnerInv, CallerInv
<1>12. CASE Release
  BY <1>1, <1>12 DEF Release, Finish, runnerVars, seedVars, RunnerInv
<1>13. CASE RunnerBinds
  BY <1>1, <1>13 DEF RunnerBinds, callerVars, RunnerInv
<1>14. CASE RunnerBindFails
  BY <1>1, <1>14, NoOfferMeans DEF RunnerBindFails, Deliver, Error,
     callerVars, seedVars, RunnerInv
<1>15. CASE RunnerCancelled
  BY <1>1, <1>15, NoOfferMeans DEF RunnerCancelled, seedCtxDone, callerVars,
     seedVars, RunnerInv, CallerInv
<1>16. CASE RunnerTimesOut
  BY <1>1, <1>16, NoOfferMeans DEF RunnerTimesOut, Deliver, Error, callerVars,
     seedVars, RunnerInv
<1>17. CASE RunnerTakesErr
  BY <1>1, <1>17, NoOfferMeans DEF RunnerTakesErr, Deliver, Error, callerVars,
     RunnerInv
<1>18. CASE RunnerTakesMsg
  <2>1. PICK u \in RemoteUnits :
          IF u = NoOffer THEN UNCHANGED runnerVars
          ELSE /\ Deliver(u) /\ declared' = declared + Len(u.bindings)
               /\ armed' = (armed /\ u.bindings = <<>>)
    BY <1>18 DEF RunnerTakesMsg
  <2>2. /\ runner = "select" /\ offer = NoOffer /\ seed' = "working"
        /\ UNCHANGED <<done, runDone>>
    BY <1>1, <1>18 DEF RunnerTakesMsg, callerVars, RunnerInv
  <2>3. CASE u = Error("parse") /\ u # NoOffer
    <3>1. /\ offer' = u /\ runner' = "deliver" /\ u.err = "parse" /\ u.bindings = <<>>
          /\ declared' = declared + Len(<<>>) /\ armed' = armed
      BY <1>1, <2>1, <2>3, NoOfferMeans DEF Deliver, ControlOK
    <3>2. declared' = declared
      <4>1. Len(<<>>) = 0
        OBVIOUS
      <4>2. QED BY <1>1, <3>1, <4>1
    <3>3. QED BY <1>1, <2>2, <3>1, <3>2 DEF RunnerInv
  <2>4. CASE u = NoOffer
    BY <1>1, <2>1, <2>2, <2>4, NoOfferMeans DEF runnerVars, RunnerInv
  <2>5. CASE u.bindings # <<>> /\ u.err = "none" /\ u # NoOffer
    BY <1>1, <2>1, <2>2, <2>5 DEF Deliver, RunnerInv
  <2>6. QED BY <1>1, <2>3, <2>4, <2>5, UnitIs, NoOfferMeans
<1>19. CASE RunnerSeesClose
  BY <1>1, <1>19 DEF RunnerSeesClose, callerVars, seedVars, RunnerInv
<1>20. CASE RunnerSeesReturn
  BY <1>1, <1>20 DEF RunnerSeesReturn, callerVars, seedVars, RunnerInv
<1>21. CASE RunnerExits
  BY <1>1, <1>21 DEF RunnerExits, callerVars, seedVars, RunnerInv
<1>22. CASE SeedSends
  BY <1>1, <1>22 DEF SeedSends, callerVars, runnerVars, RunnerInv
<1>23. CASE SeedFails
  BY <1>1, <1>23 DEF SeedFails, callerVars, runnerVars, RunnerInv
<1>24. CASE SeedCloses
  BY <1>1, <1>24 DEF SeedCloses, callerVars, runnerVars, RunnerInv
<1>25. CASE SeedReturns
  BY <1>1, <1>25 DEF SeedReturns, callerVars, runnerVars, RunnerInv
<1>26. CASE SeedGivesUp
  BY <1>1, <1>26 DEF SeedGivesUp, seedCtxDone, callerVars, runnerVars,
     RunnerInv
<1>27. CASE RunEnded
  BY <1>1, <1>27 DEF RunEnded, EndRun, callerVars, runnerVars, seedVars,
     RunnerInv
<1>28. CASE UNCHANGED vars
  BY <1>1, <1>28 DEF vars, callerVars, runnerVars, seedVars, RunnerInv
<1>29. QED
  BY <1>2, <1>3, <1>4, <1>5, <1>6, <1>7, <1>8, <1>9, <1>10, <1>11, <1>12,
     <1>13, <1>14, <1>15, <1>16, <1>17, <1>18, <1>19, <1>20, <1>21, <1>22,
     <1>23, <1>24, <1>25, <1>26, <1>27, <1>28 DEF SeedNext, Caller, CallEnds,
     Runner, SeedSteps

\* As long as nobody keeps it from being delivered, all of the stream was
\* yielded when nothing is buffered or offered.
LEMMA AllYielded ==
  ASSUME SeedInv
  PROVE  /\ Delivering /\ buf = <<>> /\ offer.bindings = <<>> =>
              yielded = FirstOnes(declared)
         /\ offer.bindings # <<>> => declared > 0
         /\ yielded = FirstOnes(declared) => declared = 0 \/ yielded # <<>>
         /\ yielded = FirstOnes(declared) => buf = <<>>
<1> DEFINE y == Len(yielded)
           b == Len(buf)
           o == Len(offer.bindings)
<1>1. SeedTypeOK /\ PositionsInv
  BY DEF SeedInv
<1>2. /\ declared \in Nat /\ y \in Nat /\ b \in Nat /\ o \in Nat
      /\ Placed(yielded, buf, offer.bindings, declared, y, b, o)
      /\ Delivering => y + b + o = declared
  BY <1>1, PlacedNow
<1>3. /\ buf \in Seq(1..declared) /\ offer.bindings \in Seq(1..declared)
      /\ yielded \in Seq(1..declared)
  BY <1>1 DEF SeedTypeOK
<1>4. /\ buf = <<>> <=> b = 0
      /\ offer.bindings = <<>> <=> o = 0
      /\ yielded = <<>> <=> y = 0
  BY <1>3
<1>5. Len(FirstOnes(declared)) = declared
  BY <1>2, FirstAreNext, NextOnesMeans, 0 + declared <= declared
<1> HIDE DEF y, b, o
<1>6. yielded = FirstOnes(y) /\ y + b <= declared /\ o <= declared
  BY <1>2 DEF Placed
<1>7. yielded = FirstOnes(declared) => y = declared
  BY <1>5 DEF y
<1>8. Delivering /\ b = 0 /\ o = 0 => y = declared
  BY <1>2
<1>9. y = declared => b = 0
  BY <1>2, <1>6
<1>10. QED BY <1>2, <1>4, <1>6, <1>7, <1>8, <1>9

\* What Serve does with a buffer that is empty.
LEMMA NothingServed ==
  ASSUME SeedInv, Serve, buf = <<>>
  PROVE  yielded' = yielded /\ buf' = <<>>
<1> DEFINE n == IF ChunkSize < Len(buf) THEN ChunkSize ELSE Len(buf)
<1>1. Len(buf) = 0 /\ SubSeq(buf, 1, 0) = <<>>
  OBVIOUS
<1>2. /\ yielded' = yielded \o SubSeq(buf, 1, n)
      /\ buf' = SubSeq(buf, n + 1, Len(buf))
  BY DEF Serve
<1>3. n = 0 /\ n + 1 = 1
  BY <1>1, SeedAssumption
<1> HIDE DEF n
<1>4. yielded \in Seq(1..declared)
  BY DEF SeedInv, SeedTypeOK
<1>5. yielded \o <<>> = yielded
  BY <1>4
<1>6. QED BY <1>1, <1>2, <1>3, <1>5

\* Nothing is declared but by a message.
LEMMA DeclaredStep == SeedInv /\ [SeedNext]_vars => DeclaredInv'
<1> SUFFICES ASSUME SeedInv, [SeedNext]_vars
             PROVE  DeclaredInv'
  OBVIOUS
<1>1. ControlOK /\ RunnerInv /\ DeclaredInv /\ declared \in Nat
  BY DEF SeedInv, SeedTypeOK, ControlOK
<1>2. CASE PullWhenDone
  BY <1>1, <1>2 DEF PullWhenDone, Serve, runnerVars, seedVars, Taken,
     DeclaredInv
<1>3. CASE PullWhenCancelled
  BY <1>1, <1>3 DEF PullWhenCancelled, Finish, runnerVars, seedVars, Taken,
     DeclaredInv
<1>4. CASE PullStart
  BY <1>1, <1>4 DEF PullStart, seedVars, Taken, DeclaredInv
<1>5. CASE PullServes
  BY <1>1, <1>5 DEF PullServes, Serve, runnerVars, seedVars, Taken,
     DeclaredInv
<1>6. CASE PullReceives
  BY <1>1, <1>6 DEF PullReceives, seedVars, Taken, DeclaredInv
<1>7. CASE PullFails
  BY <1>1, <1>7 DEF PullFails, Finish, seedVars, Taken, DeclaredInv
<1>8. CASE PullSeesEnd
  BY <1>1, <1>8 DEF PullSeesEnd, Finish, runnerVars, seedVars, Taken,
     DeclaredInv
<1>9. CASE PullCancelled
  BY <1>1, <1>9 DEF PullCancelled, Finish, runnerVars, seedVars, Taken,
     DeclaredInv
<1>10. CASE FinishDrains
  BY <1>1, <1>10 DEF FinishDrains, callerVars, seedVars, Taken, DeclaredInv
<1>11. CASE FinishReturns
  BY <1>1, <1>11 DEF FinishReturns, runnerVars, seedVars, Taken, DeclaredInv
<1>12. CASE Release
  BY <1>1, <1>12 DEF Release, Finish, runnerVars, seedVars, Taken, DeclaredInv
<1>13. CASE RunnerBinds
  <2>1. Taken' = Taken /\ declared' = declared
    BY <1>1, <1>13 DEF RunnerBinds, Taken, RunnerInv
  <2>2. QED BY <1>1, <2>1 DEF DeclaredInv
<1>14. CASE RunnerBindFails
  BY <1>1, <1>14 DEF RunnerBindFails, Deliver, Error, callerVars, seedVars,
     Taken, DeclaredInv
<1>15. CASE RunnerCancelled
  BY <1>1, <1>15 DEF RunnerCancelled, seedCtxDone, callerVars, seedVars,
     Taken, DeclaredInv
<1>16. CASE RunnerTimesOut
  BY <1>1, <1>16 DEF RunnerTimesOut, Deliver, Error, callerVars, seedVars,
     Taken, DeclaredInv
<1>17. CASE RunnerTakesErr
  BY <1>1, <1>17 DEF RunnerTakesErr, Deliver, Error, callerVars, Taken,
     DeclaredInv
<1>18. CASE RunnerTakesMsg
  <2>1. PICK u \in RemoteUnits :
          IF u = NoOffer THEN UNCHANGED runnerVars
          ELSE /\ Deliver(u) /\ declared' = declared + Len(u.bindings)
               /\ armed' = (armed /\ u.bindings = <<>>)
    BY <1>18 DEF RunnerTakesMsg
  <2>2. Taken \in Int /\ Taken' = Taken + 1
    BY <1>1, <1>18 DEF RunnerTakesMsg, Taken, ControlOK
  <2>3. PICK n \in 0..MaxDeclared : declared' = declared + n
    <3>1. Len(<<>>) = 0 /\ 0 \in 0..MaxDeclared
      BY SeedAssumption
    <3>2. declared + 0 = declared
      BY <1>1
    <3>3. CASE u = NoOffer
      BY <2>1, <3>1, <3>2, <3>3 DEF runnerVars
    <3>4. CASE u # NoOffer /\ u = Error("parse")
      BY <2>1, <3>1, <3>4, NoOfferMeans
    <3>5. CASE u # NoOffer /\ Len(u.bindings) \in 1..MaxDeclared
      BY <2>1, <3>5
    <3>6. QED BY <1>1, <3>3, <3>4, <3>5, UnitIs
  <2>4. (Taken + 1) * MaxDeclared = Taken * MaxDeclared + MaxDeclared
    BY <2>2, MoreMessages, SeedAssumption
  <2>5. Taken * MaxDeclared \in Int
    BY <2>2, SeedAssumption
  <2>6. QED BY <1>1, <2>2, <2>3, <2>4, <2>5, SeedAssumption DEF DeclaredInv
<1>19. CASE RunnerSeesClose
  BY <1>1, <1>19 DEF RunnerSeesClose, callerVars, seedVars, Taken, DeclaredInv
<1>20. CASE RunnerSeesReturn
  BY <1>1, <1>20 DEF RunnerSeesReturn, callerVars, seedVars, Taken,
     DeclaredInv
<1>21. CASE RunnerExits
  BY <1>1, <1>21 DEF RunnerExits, callerVars, seedVars, Taken, DeclaredInv
<1>22. CASE SeedSends
  <2>1. Taken' = Taken /\ declared' = declared
    BY <1>1, <1>22 DEF SeedSends, runnerVars, Taken, ControlOK
  <2>2. QED BY <1>1, <2>1 DEF DeclaredInv
<1>23. CASE SeedFails
  BY <1>1, <1>23 DEF SeedFails, callerVars, runnerVars, Taken, DeclaredInv
<1>24. CASE SeedCloses
  BY <1>1, <1>24 DEF SeedCloses, callerVars, runnerVars, Taken, DeclaredInv
<1>25. CASE SeedReturns
  BY <1>1, <1>25 DEF SeedReturns, callerVars, runnerVars, Taken, DeclaredInv
<1>26. CASE SeedGivesUp
  <2>1. /\ Taken \in Int /\ Taken' \in Int /\ Taken <= Taken'
        /\ declared' = declared
    BY <1>1, <1>26 DEF SeedGivesUp, runnerVars, Taken, ControlOK
  <2>2. Taken * MaxDeclared <= Taken' * MaxDeclared
    BY <2>1, MoreMessages, SeedAssumption
  <2>3. Taken * MaxDeclared \in Int /\ Taken' * MaxDeclared \in Int
    BY <2>1, SeedAssumption
  <2>4. QED BY <1>1, <2>1, <2>2, <2>3 DEF DeclaredInv
<1>27. CASE RunEnded
  BY <1>1, <1>27 DEF RunEnded, EndRun, callerVars, runnerVars, seedVars,
     Taken, DeclaredInv
<1>28. CASE UNCHANGED vars
  BY <1>1, <1>28 DEF vars, callerVars, runnerVars, seedVars, Taken,
     DeclaredInv
<1>29. QED
  BY <1>2, <1>3, <1>4, <1>5, <1>6, <1>7, <1>8, <1>9, <1>10, <1>11, <1>12,
     <1>13, <1>14, <1>15, <1>16, <1>17, <1>18, <1>19, <1>20, <1>21, <1>22,
     <1>23, <1>24, <1>25, <1>26, <1>27, <1>28 DEF SeedNext, Caller, CallEnds,
     Runner, SeedSteps

\* The caller waits, is answered and tears down as it should.
LEMMA CallerStep == SeedInv /\ [SeedNext]_vars => CallerInv'
<1> SUFFICES ASSUME SeedInv, [SeedNext]_vars
             PROVE  CallerInv'
  OBVIOUS
<1>1. ControlOK /\ RunnerInv /\ CallerInv /\ declared \in Nat
  BY DEF SeedInv, SeedTypeOK, ControlOK
<1>2. CASE PullWhenDone
  <2>1. /\ call = "idle" /\ call' = "idle" /\ Serve
        /\ UNCHANGED <<pending, done, gotAny, stopped, ending, runner, offer,
                       declared>>
    BY <1>2 DEF PullWhenDone, runnerVars
  <2>2. ~gotAny => yielded' = <<>> /\ buf' = <<>>
    BY <1>1, <2>1, NothingServed DEF CallerInv
  <2>3. QED BY <1>1, <2>1, <2>2 DEF CallerInv
<1>3. CASE PullWhenCancelled
  BY <1>1, <1>3 DEF PullWhenCancelled, Finish, runnerVars, seedVars,
     CallerInv, Truth, Telling, Failure
<1>4. CASE PullStart
  BY <1>1, <1>4, NoOfferMeans DEF PullStart, seedVars, CallerInv, Truth,
     Telling, Failure
<1>5. CASE PullServes
  <2>1. /\ call = "pull" /\ call' = "idle" /\ buf # <<>>
        /\ UNCHANGED <<pending, done, gotAny, stopped, ending, runner, offer,
                       declared>>
    BY <1>5 DEF PullServes, runnerVars
  <2>2. QED BY <1>1, <2>1 DEF CallerInv
<1>6. CASE PullReceives
  <2>1. /\ call' = call /\ gotAny' /\ runner = "deliver" /\ runner' = "select"
        /\ offer.err = "none"
        /\ UNCHANGED <<pending, done, stopped, ending, declared>>
    BY <1>6 DEF PullReceives
  <2>2. declared > 0
    BY <1>1, <2>1, AllYielded DEF CallerInv
  <2>3. QED BY <1>1, <1>6, <2>1, <2>2 DEF CallerInv, PullReceives
<1>7. CASE PullFails
  <2>1. /\ call = "pull" /\ call' = "finish" /\ pending' = offer.err
        /\ done' = TRUE /\ stopped' = TRUE
        /\ runner = "deliver" /\ runner' = "close" /\ offer' = NoOffer
        /\ offer.err \in Failure /\ buf = <<>>
        /\ UNCHANGED <<runDone, buf, gotAny, yielded, ending, declared>>
    BY <1>1, <1>7 DEF PullFails, Finish, ControlOK
  <2>2. Delivering /\ offer.bindings = <<>>
    BY <1>1, <2>1, NoOfferMeans DEF Delivering, CallerInv, RunnerInv, Failure
  <2>3. yielded = FirstOnes(declared)
    BY <2>1, <2>2, AllYielded
  <2>4. Truth(pending)'
    BY <1>1, <2>1, <2>3 DEF Truth, Failure, RunnerInv
  <2>5. QED BY <1>1, <2>1, <2>4 DEF CallerInv
<1>8. CASE PullSeesEnd
  <2>1. /\ call = "pull" /\ call' = "finish"
        /\ pending' = IF gotAny THEN "end" ELSE "empty"
        /\ done' = TRUE /\ stopped' = TRUE
        /\ runner = "over" /\ runner' = "over" /\ buf = <<>>
        /\ UNCHANGED <<runDone, buf, gotAny, yielded, ending, declared, offer,
                       seed>>
    BY <1>8 DEF PullSeesEnd, Finish, runnerVars, seedVars
  <2>2. ASSUME ~runDone PROVE Truth(pending)'
    <3>1. Delivering /\ offer.bindings = <<>> /\ seed = "returned"
      BY <1>1, <2>1, <2>2, NoOfferMeans DEF Delivering, CallerInv, RunnerInv
    <3>2. yielded = FirstOnes(declared)
      BY <2>1, <3>1, AllYielded
    <3>3. ~gotAny => declared = 0
      BY <1>1, <3>2, AllYielded DEF CallerInv
    <3>4. gotAny => declared > 0
      BY <1>1 DEF CallerInv
    <3>5. pending' \notin Failure /\ pending' # "timeout"
      BY <2>1 DEF Failure
    <3>6. pending' = "end" <=> gotAny
      BY <2>1
    <3>7. pending' = "end" <=> declared > 0
      BY <1>1, <3>3, <3>4, <3>6
    <3>8. QED BY <2>1, <3>1, <3>2, <3>5, <3>7 DEF Truth
  <2>3. QED BY <1>1, <2>1, <2>2 DEF CallerInv
<1>9. CASE PullCancelled
  BY <1>1, <1>9 DEF PullCancelled, Finish, runnerVars, seedVars, CallerInv,
     Truth, Telling, Failure
<1>10. CASE FinishDrains
  BY <1>1, <1>10, NoOfferMeans DEF FinishDrains, callerVars, seedVars,
     CallerInv, Truth, Telling, Failure
<1>11. CASE FinishReturns
  BY <1>1, <1>11 DEF FinishReturns, runnerVars, seedVars, CallerInv, Truth,
     Telling, Failure
<1>12. CASE Release
  BY <1>1, <1>12 DEF Release, Finish, runnerVars, seedVars, CallerInv, Truth,
     Telling, Failure
<1>13. CASE RunnerBinds
  BY <1>1, <1>13 DEF RunnerBinds, callerVars, CallerInv, Truth, Telling,
     Failure
<1>14. CASE RunnerBindFails
  BY <1>1, <1>14, NoOfferMeans DEF RunnerBindFails, Deliver, Error,
     callerVars, seedVars, CallerInv, Truth, Telling, Failure
<1>15. CASE RunnerCancelled
  BY <1>1, <1>15, NoOfferMeans DEF RunnerCancelled, seedCtxDone, callerVars,
     seedVars, CallerInv, Truth, Telling, Failure
<1>16. CASE RunnerTimesOut
  BY <1>1, <1>16, NoOfferMeans DEF RunnerTimesOut, Deliver, Error, callerVars,
     seedVars, CallerInv, Truth, Telling, Failure
<1>17. CASE RunnerTakesErr
  BY <1>1, <1>17, NoOfferMeans DEF RunnerTakesErr, Deliver, Error, callerVars,
     CallerInv, Truth, Telling, Failure
<1>18. CASE RunnerTakesMsg
  <2>1. PICK u \in RemoteUnits :
          IF u = NoOffer THEN UNCHANGED runnerVars
          ELSE /\ Deliver(u) /\ declared' = declared + Len(u.bindings)
               /\ armed' = (armed /\ u.bindings = <<>>)
    BY <1>18 DEF RunnerTakesMsg
  <2>2. runner = "select" /\ UNCHANGED callerVars
    BY <1>18 DEF RunnerTakesMsg
  <2>3. CASE u = NoOffer
    BY <1>1, <2>1, <2>2, <2>3 DEF callerVars, runnerVars, CallerInv
  <2>4. CASE u # NoOffer
    <3>1. /\ offer' = u /\ runner' = "deliver"
          /\ u.err = "none" => u.bindings # <<>>
      BY <1>1, <2>1, <2>4, UnitIs, NoOfferMeans DEF Deliver
    <3>2. declared > 0 => declared' > 0
      <4>1. CASE u = Error("parse")
        <5>1. Len(<<>>) = 0 /\ u.bindings = <<>>
          BY <4>1, NoOfferMeans
        <5>2. QED BY <1>1, <2>1, <2>4, <5>1
      <4>2. CASE Len(u.bindings) \in 1..MaxDeclared
        BY <1>1, <2>1, <2>4, <4>2
      <4>3. QED BY <1>1, <2>4, <4>1, <4>2, UnitIs
    <3>3. QED BY <1>1, <2>2, <3>1, <3>2 DEF callerVars, CallerInv
  <2>5. QED BY <2>3, <2>4
<1>19. CASE RunnerSeesClose
  BY <1>1, <1>19 DEF RunnerSeesClose, callerVars, seedVars, CallerInv, Truth,
     Telling, Failure
<1>20. CASE RunnerSeesReturn
  BY <1>1, <1>20 DEF RunnerSeesReturn, callerVars, seedVars, CallerInv, Truth,
     Telling, Failure
<1>21. CASE RunnerExits
  BY <1>1, <1>21 DEF RunnerExits, callerVars, seedVars, CallerInv, Truth,
     Telling, Failure
<1>22. CASE SeedSends
  BY <1>1, <1>22 DEF SeedSends, callerVars, runnerVars, CallerInv, Truth,
     Telling, Failure
<1>23. CASE SeedFails
  BY <1>1, <1>23 DEF SeedFails, callerVars, runnerVars, CallerInv, Truth,
     Telling, Failure
<1>24. CASE SeedCloses
  BY <1>1, <1>24 DEF SeedCloses, callerVars, runnerVars, CallerInv, Truth,
     Telling, Failure
<1>25. CASE SeedReturns
  BY <1>1, <1>25 DEF SeedReturns, callerVars, runnerVars, CallerInv, Truth,
     Telling, Failure
<1>26. CASE SeedGivesUp
  BY <1>1, <1>26 DEF SeedGivesUp, seedCtxDone, callerVars, runnerVars,
     CallerInv, Truth, Telling, Failure
<1>27. CASE RunEnded
  BY <1>1, <1>27 DEF RunEnded, EndRun, callerVars, runnerVars, seedVars,
     CallerInv, Truth, Telling, Failure
<1>28. CASE UNCHANGED vars
  BY <1>1, <1>28 DEF vars, callerVars, runnerVars, seedVars, CallerInv, Truth
<1>29. QED
  BY <1>2, <1>3, <1>4, <1>5, <1>6, <1>7, <1>8, <1>9, <1>10, <1>11, <1>12,
     <1>13, <1>14, <1>15, <1>16, <1>17, <1>18, <1>19, <1>20, <1>21, <1>22,
     <1>23, <1>24, <1>25, <1>26, <1>27, <1>28 DEF SeedNext, Caller, CallEnds,
     Runner, SeedSteps

-----------------------------------------------------------------------------
(* The theorems.                                                           *)

\* A resource is declared by a message, and a message declares a bounded number.
LEMMA WithinBound ==
  ASSUME NEW m \in 0..MaxSeedMsgs, NEW t \in {0, 1}, NEW d \in Nat,
         d <= (m - t) * MaxDeclared
  PROVE  d \in 0..(MaxSeedMsgs * MaxDeclared)
<1>1. m - t \in Int /\ MaxSeedMsgs \in Int /\ m - t <= MaxSeedMsgs
  BY SeedAssumption
<1>2. (m - t) * MaxDeclared <= MaxSeedMsgs * MaxDeclared
  BY <1>1, MoreMessages, SeedAssumption
<1>3. (m - t) * MaxDeclared \in Int /\ MaxSeedMsgs * MaxDeclared \in Int
  BY <1>1, SeedAssumption
<1>4. QED BY <1>2, <1>3

\* The invariant holds before the first pull.
LEMMA SeedInitInv == SeedInit => SeedInv
<1> SUFFICES ASSUME SeedInit PROVE SeedInv
  OBVIOUS
<1>1. ControlOK
  <2>1. offer.err = "none" /\ MaxSeedMsgs \in Nat /\ MaxSeedErrs \in Nat
    BY SeedAssumption, NoOfferMeans DEF SeedInit
  <2>2. 0 \in 0..MaxSeedMsgs /\ 0 \in 0..MaxSeedErrs
    BY <2>1
  <2>3. QED BY <2>1, <2>2 DEF SeedInit, ControlOK, Outcome
<1>2. SequencesInv
  <2>1. yielded = <<>> /\ buf = <<>> /\ offer.bindings = <<>> /\ declared = 0
    BY NoOfferMeans DEF SeedInit
  <2>2. /\ NextOnes(0, 0) = <<>> /\ FirstOnes(0) = <<>>
    BY NoneNext, FirstAreNext
  <2>3. /\ Len(<<>>) = 0 /\ <<>> \in Seq(1..0) /\ <<>> \o <<>> \o <<>> = <<>>
        /\ 0 + 0 <= 0 /\ 0 + 0 + 0 = 0 /\ 0 - 0 = 0 /\ 0 <= 0
    OBVIOUS
  <2>4. IsPrefix(FirstOnes(0), FirstOnes(0))
    BY <2>3, FirstIsPrefix
  <2>5. PositionsInv
    BY <2>1, <2>2, <2>3 DEF PositionsInv
  <2>6. InDeclaredOrder
    BY <2>1, <2>2, <2>3, <2>4 DEF InDeclaredOrder
  <2>7. QED BY <2>1, <2>3, <2>5, <2>6 DEF SequencesInv
<1>3. RunnerInv
  BY NoOfferMeans DEF SeedInit, RunnerInv
<1>4. DeclaredInv
  <2>1. 0 * MaxDeclared = 0 /\ 0 - 0 = 0
    BY SeedAssumption
  <2>2. Taken = 0 /\ declared = 0
    BY DEF SeedInit, Taken
  <2>3. QED BY <2>1, <2>2 DEF DeclaredInv
<1>5. CallerInv
  BY DEF SeedInit, CallerInv, Telling, Failure
<1>6. declared \in 0..(MaxSeedMsgs * MaxDeclared)
  <2>1. MaxSeedMsgs * MaxDeclared \in Nat /\ declared = 0
    BY SeedAssumption DEF SeedInit
  <2>2. QED BY <2>1
<1>7. QED
  BY <1>1, <1>2, <1>3, <1>4, <1>5, <1>6
     DEF SeedInv, SeedTypeOK, ControlOK, SequencesInv

\* Every step keeps it.
LEMMA SeedInvStep == SeedInv /\ [SeedNext]_vars => SeedInv'
<1> SUFFICES ASSUME SeedInv, [SeedNext]_vars
             PROVE  SeedInv'
  OBVIOUS
<1>1. /\ ControlOK' /\ SequencesInv' /\ RunnerInv' /\ DeclaredInv' /\ CallerInv'
  BY ControlStep, SequencesStep, RunnerStep, DeclaredStep, CallerStep
<1>2. (declared \in 0..(MaxSeedMsgs * MaxDeclared))'
  <2> DEFINE t == IF seed' = "sending" THEN 1 ELSE 0
  <2>1. seedMsgs' \in 0..MaxSeedMsgs /\ declared' \in Nat /\ t \in {0, 1}
    BY <1>1 DEF ControlOK, SequencesInv
  <2>2. declared' <= (seedMsgs' - t) * MaxDeclared
    BY <1>1 DEF DeclaredInv, Taken
  <2> HIDE DEF t
  <2>3. QED BY <2>1, <2>2, WithinBound
<1>3. QED
  BY <1>1, <1>2 DEF SeedInv, SeedTypeOK, ControlOK, SequencesInv

\* The resources that a produce-from seed declares come to the feeder in the
\* order of their declaration, each once, and all of them while nobody ends
\* the stream (remoteBindings and runSeed, parse/hcl/produce_from.go).
THEOREM SeedInvHolds == SeedSpec => []SeedInv
<1>1. SeedInit => SeedInv
  BY SeedInitInv
<1>2. SeedInv /\ [SeedNext]_vars => SeedInv'
  BY SeedInvStep
<1>3. QED BY <1>1, <1>2, PTL DEF SeedSpec

\* When a call that tears the stream down came back, runSeed is over, or never
\* ran, and stays that way (finish, parse/hcl/produce_from.go).
THEOREM TerminalJoinsHolds == SeedSpec => []TerminalJoins
<1>1. SeedInit => TerminalJoins
  BY DEF SeedInit, TerminalJoins
<1>2. ASSUME SeedInv, TerminalJoins, [SeedNext]_vars
      PROVE  TerminalJoins'
  <2> USE <1>2 DEF TerminalJoins
  <2>1. (call = "pull" => ~done) /\ (call = "finish" => done) /\ ControlOK
    BY DEF SeedInv, SeedTypeOK, ControlOK, CallerInv
  <2>2. CASE PullWhenDone
    BY <2>1, <2>2 DEF PullWhenDone, Serve, runnerVars, seedVars
  <2>3. CASE PullWhenCancelled
    BY <2>1, <2>3 DEF PullWhenCancelled, Finish, runnerVars, seedVars
  <2>4. CASE PullStart
    BY <2>1, <2>4 DEF PullStart, seedVars
  <2>5. CASE PullServes
    BY <2>1, <2>5 DEF PullServes, Serve, runnerVars, seedVars
  <2>6. CASE PullReceives
    BY <2>1, <2>6 DEF PullReceives, seedVars
  <2>7. CASE PullFails
    BY <2>1, <2>7 DEF PullFails, Finish, seedVars
  <2>8. CASE PullSeesEnd
    BY <2>1, <2>8 DEF PullSeesEnd, Finish, runnerVars, seedVars
  <2>9. CASE PullCancelled
    BY <2>1, <2>9 DEF PullCancelled, Finish, runnerVars, seedVars
  <2>10. CASE FinishDrains
    BY <2>1, <2>10 DEF FinishDrains, callerVars, seedVars
  <2>11. CASE FinishReturns
    BY <2>1, <2>11 DEF FinishReturns, runnerVars, seedVars
  <2>12. CASE Release
    BY <2>1, <2>12 DEF Release, Finish, runnerVars, seedVars
  <2>13. CASE RunnerBinds
    BY <2>1, <2>13 DEF RunnerBinds, callerVars
  <2>14. CASE RunnerBindFails
    BY <2>1, <2>14 DEF RunnerBindFails, Deliver, Error, callerVars, seedVars
  <2>15. CASE RunnerCancelled
    BY <2>1, <2>15 DEF RunnerCancelled, seedCtxDone, callerVars, seedVars
  <2>16. CASE RunnerTimesOut
    BY <2>1, <2>16 DEF RunnerTimesOut, Deliver, Error, callerVars, seedVars
  <2>17. CASE RunnerTakesErr
    BY <2>1, <2>17 DEF RunnerTakesErr, Deliver, Error, callerVars
  <2>18. CASE RunnerTakesMsg
    BY <2>1, <2>18 DEF RunnerTakesMsg, Deliver, callerVars, runnerVars
  <2>19. CASE RunnerSeesClose
    BY <2>1, <2>19 DEF RunnerSeesClose, callerVars, seedVars
  <2>20. CASE RunnerSeesReturn
    BY <2>1, <2>20 DEF RunnerSeesReturn, callerVars, seedVars
  <2>21. CASE RunnerExits
    BY <2>1, <2>21 DEF RunnerExits, callerVars, seedVars
  <2>22. CASE SeedSends
    BY <2>1, <2>22 DEF SeedSends, callerVars, runnerVars
  <2>23. CASE SeedFails
    BY <2>1, <2>23 DEF SeedFails, callerVars, runnerVars
  <2>24. CASE SeedCloses
    BY <2>1, <2>24 DEF SeedCloses, callerVars, runnerVars
  <2>25. CASE SeedReturns
    BY <2>1, <2>25 DEF SeedReturns, callerVars, runnerVars
  <2>26. CASE SeedGivesUp
    BY <2>1, <2>26 DEF SeedGivesUp, seedCtxDone, callerVars, runnerVars
  <2>27. CASE RunEnded
    BY <2>1, <2>27 DEF RunEnded, EndRun, callerVars, runnerVars, seedVars
  <2>28. CASE UNCHANGED vars
    BY <2>1, <2>28 DEF vars, callerVars, runnerVars, seedVars
  <2>29. QED
    BY <1>2, <2>2, <2>3, <2>4, <2>5, <2>6, <2>7, <2>8, <2>9, <2>10, <2>11,
       <2>12, <2>13, <2>14, <2>15, <2>16, <2>17, <2>18, <2>19, <2>20, <2>21,
       <2>22, <2>23, <2>24, <2>25, <2>26, <2>27, <2>28 DEF SeedNext, Caller,
       CallEnds, Runner, SeedSteps
<1>3. QED BY <1>1, <1>2, SeedInvHolds, PTL DEF SeedSpec

\* The way the stream ended says what happened: an end is reported after every
\* resource was yielded and the seed returned, a failure after everything that
\* was declared before it, the deadline only before anything was, unless the
\* run's context ended in between (remoteBindings, parse/hcl/produce_from.go).
THEOREM OutcomeIsTrueHolds == SeedSpec => []OutcomeIsTrue
<1>1. SeedInit => OutcomeIsTrue
  BY DEF SeedInit, OutcomeIsTrue, Telling, Failure
<1>2. ASSUME SeedInv, OutcomeIsTrue, [SeedNext]_vars
      PROVE  OutcomeIsTrue'
  <2> USE <1>2 DEF OutcomeIsTrue
  <2>1. CallerInv /\ ControlOK
    BY DEF SeedInv, SeedTypeOK, ControlOK
  <2>2. CASE PullWhenDone
    <3>1. ending \in Telling /\ ~runDone =>
             UNCHANGED <<yielded, declared, seed>>
      <4>1. ending \in Telling /\ ~runDone => buf = <<>>
        BY AllYielded DEF Truth
      <4>2. QED BY <2>2, <4>1, NothingServed DEF PullWhenDone, runnerVars, seedVars
    <3>2. QED BY <2>2, <3>1 DEF PullWhenDone, Truth
  <2>3. CASE PullWhenCancelled
    BY <2>1, <2>3 DEF PullWhenCancelled, Finish, runnerVars, seedVars,
       CallerInv, Truth
  <2>4. CASE PullStart
    BY <2>1, <2>4 DEF PullStart, seedVars, CallerInv, Truth
  <2>5. CASE PullServes
    <3>1. ending' = "none"
      BY <2>1, <2>5 DEF PullServes, CallerInv
    <3>2. QED BY <3>1 DEF Telling, Failure
  <2>6. CASE PullReceives
    BY <2>1, <2>6 DEF PullReceives, seedVars, CallerInv, Truth
  <2>7. CASE PullFails
    BY <2>1, <2>7 DEF PullFails, Finish, seedVars, CallerInv, Truth
  <2>8. CASE PullSeesEnd
    BY <2>1, <2>8 DEF PullSeesEnd, Finish, runnerVars, seedVars, CallerInv,
       Truth
  <2>9. CASE PullCancelled
    BY <2>1, <2>9 DEF PullCancelled, Finish, runnerVars, seedVars, CallerInv,
       Truth
  <2>10. CASE FinishDrains
    BY <2>1, <2>10 DEF FinishDrains, callerVars, seedVars, CallerInv, Truth
  <2>11. CASE FinishReturns
    BY <2>1, <2>11 DEF FinishReturns, runnerVars, seedVars, CallerInv, Truth
  <2>12. CASE Release
    BY <2>1, <2>12 DEF Release, Finish, runnerVars, seedVars, CallerInv, Truth
  <2>13. CASE RunnerBinds
    BY <2>1, <2>13 DEF RunnerBinds, callerVars, CallerInv, Truth
  <2>14. CASE RunnerBindFails
    BY <2>1, <2>14 DEF RunnerBindFails, Deliver, Error, callerVars, seedVars,
       CallerInv, Truth
  <2>15. CASE RunnerCancelled
    BY <2>1, <2>15 DEF RunnerCancelled, seedCtxDone, callerVars, seedVars,
       CallerInv, Truth
  <2>16. CASE RunnerTimesOut
    BY <2>1, <2>16 DEF RunnerTimesOut, Deliver, Error, callerVars, seedVars,
       CallerInv, Truth
  <2>17. CASE RunnerTakesErr
    BY <2>1, <2>17 DEF RunnerTakesErr, Deliver, Error, callerVars, CallerInv,
       Truth
  <2>18. CASE RunnerTakesMsg
    BY <2>1, <2>18 DEF RunnerTakesMsg, Deliver, callerVars, runnerVars,
       CallerInv, Truth
  <2>19. CASE RunnerSeesClose
    BY <2>1, <2>19 DEF RunnerSeesClose, callerVars, seedVars, CallerInv, Truth
  <2>20. CASE RunnerSeesReturn
    BY <2>1, <2>20 DEF RunnerSeesReturn, callerVars, seedVars, CallerInv,
       Truth
  <2>21. CASE RunnerExits
    BY <2>1, <2>21 DEF RunnerExits, callerVars, seedVars, CallerInv, Truth
  <2>22. CASE SeedSends
    BY <2>1, <2>22 DEF SeedSends, callerVars, runnerVars, CallerInv, Truth
  <2>23. CASE SeedFails
    BY <2>1, <2>23 DEF SeedFails, callerVars, runnerVars, CallerInv, Truth
  <2>24. CASE SeedCloses
    BY <2>1, <2>24 DEF SeedCloses, callerVars, runnerVars, CallerInv, Truth
  <2>25. CASE SeedReturns
    BY <2>1, <2>25 DEF SeedReturns, callerVars, runnerVars, CallerInv, Truth
  <2>26. CASE SeedGivesUp
    BY <2>1, <2>26 DEF SeedGivesUp, seedCtxDone, callerVars, runnerVars,
       CallerInv, Truth
  <2>27. CASE RunEnded
    BY <2>1, <2>27 DEF RunEnded, EndRun, callerVars, runnerVars, seedVars,
       CallerInv, Truth
  <2>28. CASE UNCHANGED vars
    BY <2>1, <2>28 DEF vars, callerVars, runnerVars, seedVars, CallerInv,
       Truth
  <2>29. QED
    BY <1>2, <2>2, <2>3, <2>4, <2>5, <2>6, <2>7, <2>8, <2>9, <2>10, <2>11,
       <2>12, <2>13, <2>14, <2>15, <2>16, <2>17, <2>18, <2>19, <2>20, <2>21,
       <2>22, <2>23, <2>24, <2>25, <2>26, <2>27, <2>28 DEF SeedNext, Caller,
       CallEnds, Runner, SeedSteps
<1>3. QED BY <1>1, <1>2, SeedInvHolds, PTL DEF SeedSpec
=============================================================================
