--------------------------- MODULE Stdlib_proofs ----------------------------
(***************************************************************************)
(* Two components of stdlib: the invariant of the flow gates, for any      *)
(* number of messages, errors and intervals, every combination of limits   *)
(* and every kind of consumer; and that of a copy through Split and        *)
(* Joiner, for any bytes, any framing, however the reader cuts the stream  *)
(* up, and any failures.                                                   *)
(***************************************************************************)
EXTENDS FlowGates, FileCopy, DataLemmas

-----------------------------------------------------------------------------
(* The flow gates.                                                         *)

\* The smaller of two numbers.
LEMMA MinOfTwo ==
  ASSUME NEW a \in Nat, NEW b \in Nat
  PROVE  Min({a, b}) = IF a <= b THEN a ELSE b
<1> DEFINE m == IF a <= b THEN a ELSE b
<1>1. m \in {a, b} /\ \A y \in {a, b} : m <= y
  OBVIOUS
<1>2. \A x \in {a, b} : (\A y \in {a, b} : x <= y) => x = m
  OBVIOUS
<1> HIDE DEF m
<1>3. Min({a, b}) = m
  BY <1>1, <1>2 DEF Min
<1> QED
  BY <1>3 DEF m

\* One is a number, and counts up to one.
LEMMA OneIs == ASSUME NEW b PROVE One(b) \in Nat /\ One(b) <= 1
BY DEF One

\* An interval that elapses is one more to spend, up to where the count saturates.
LEMMA TickCounts ==
  ASSUME NEW h \in Nat, NEW p \in Nat, NEW q \in Nat, NEW n \in Nat, NEW m \in Nat,
         n <= m, h + p <= n \/ n = m, q <= p + 1
  PROVE  h + q <= Min({n + 1, m}) \/ Min({n + 1, m}) = m
<1>1. CASE n + 1 <= m
  BY <1>1, MinOfTwo
<1>2. CASE n = m
  BY <1>2, MinOfTwo
<1> QED
  BY <1>1, <1>2

\* A sum bounds what it is made of.
LEMMA SumBounds ==
  ASSUME NEW h \in Nat, NEW p \in Nat, NEW q \in Nat, NEW n \in Nat
  PROVE  /\ q <= p /\ h + p <= n => h + q <= n
         /\ h + p + q <= n => h <= n
         /\ h + p <= n => h <= n
OBVIOUS

-----------------------------------------------------------------------------
\* The values the gates, the engine and the two resources can have.
LEMMA GatesTypeStep ==
  GatesTypeOK /\ ProducerSideInv /\ [GatesNext]_gateVars
    => GatesTypeOK'
<1> SUFFICES ASSUME GatesTypeOK, ProducerSideInv, [GatesNext]_gateVars
             PROVE  GatesTypeOK'
  OBVIOUS
<1> USE GateAssumption DEF GatesTypeOK, Ended, EngineHolds
<1> USE DEF configVars, innerVars, pgateVars, tickVars, engineVars, cgateVars, ctickVars, cinnerVars,
            producerVars, consumerVars
<1>1. CASE InnerSends
  BY <1>1 DEF InnerSends
<1>2. CASE InnerFails
  BY <1>2 DEF InnerFails
<1>3. CASE ErrTaken
  BY <1>3 DEF ErrTaken
<1>4. CASE InnerReturns
  BY <1>4 DEF InnerReturns
<1>5. CASE Tick
  BY <1>5, MinOfTwo DEF Tick
<1>6. CASE GateRecv
  BY <1>6 DEF GateRecv
<1>7. CASE GateWaits
  <2>1. tick' \in BOOLEAN
    BY <1>7 DEF GateWaits
  <2>2. /\ gate' = "send"
        /\ UNCHANGED <<runDone, configVars, innerVars, held, count, gateCancel, ticks, engineVars, consumerVars>>
    BY <1>7 DEF GateWaits
  <2> QED
    BY <2>1, <2>2
<1>8. CASE GatePasses
  <2>1. /\ Len(link) < 2 /\ link' = Append(link, held) /\ held' = 0 /\ count' = count + 1
        /\ held = count + 1 /\ UNCHANGED <<runDone, configVars, innerVars, tickVars, recvClosed, consumerVars>>
    BY <1>8 DEF GatePasses, ProducerSideInv
  <2>2. gate' \in {"recv", "cancelled"} /\ gateCancel' \in BOOLEAN
    BY <1>8 DEF GatePasses, Leave
  <2>3. held \in 1..made /\ count' \in 0..made
    BY <2>1
  <2>4. link' \in Seq(1..made) /\ Len(link') <= 2
    BY <2>1, <2>3
  <2> QED
    BY <2>1, <2>2, <2>3, <2>4
<1>9. CASE GateLeaves
  BY <1>9 DEF GateLeaves, Leave
<1>10. CASE GateCloses
  BY <1>10 DEF GateCloses
<1>11. CASE InstanceCloses
  BY <1>11 DEF InstanceCloses
<1>12. CASE EngineGives
  <2>1. Head(link) \in 1..made /\ Tail(link) \in Seq(1..made) /\ Len(Tail(link)) <= 2
    BY <1>12 DEF EngineGives
  <2> QED
    BY <1>12, <2>1 DEF EngineGives
<1>13. CASE EngineCloses
  <2>1. link' \in Seq(1..made) /\ Len(link') <= 2 /\ recvClosed' \in BOOLEAN
    BY <1>13 DEF EngineCloses
  <2> QED
    BY <1>13, <2>1 DEF EngineCloses
<1>14. CASE RunEnds
  BY <1>14 DEF RunEnds, EndRun
<1>15. CASE CGateWaits
  <2>1. ctick' \in BOOLEAN
    BY <1>15 DEF CGateWaits
  <2>2. /\ cgate' = "forward"
        /\ UNCHANGED <<runDone, configVars, producerVars, engineVars, cheld, cgateCancel, cticks, cinnerVars>>
    BY <1>15 DEF CGateWaits
  <2> QED
    BY <2>1, <2>2
<1>16. CASE CGateForwards
  BY <1>16 DEF CGateForwards
<1>17. CASE CGateStops
  BY <1>17 DEF CGateStops
<1>18. CASE CGateJoins
  BY <1>18 DEF CGateJoins
<1>19. CASE WindowElapses
  BY <1>19 DEF WindowElapses
<1>20. CASE ConsumerFinishes
  BY <1>20 DEF ConsumerFinishes
<1>21. CASE ConsumerReturns
  BY <1>21 DEF ConsumerReturns
<1>22. CASE UNCHANGED gateVars
  BY <1>22 DEF gateVars, gatesState
<1>23. CASE CTick
  <2>1. ctick' \in BOOLEAN /\ cticks' \in 0..MaxTicks
    BY <1>23, MinOfTwo DEF CTick
  <2>2. UNCHANGED <<runDone, configVars, producerVars, engineVars, cgateVars, cinnerVars>>
    BY <1>23 DEF CTick
  <2> QED
    BY <2>1, <2>2
<1> QED
  BY <1>1, <1>2, <1>3, <1>4, <1>5, <1>6, <1>7, <1>8, <1>9, <1>10, <1>11,
     <1>12, <1>13, <1>14, <1>15, <1>16, <1>17, <1>18, <1>19, <1>20, <1>21, <1>22, <1>23
  DEF GatesNext, ProducerSide, Engine, ConsumerSide

-----------------------------------------------------------------------------
\* The producer's gate: what it made, held and passed on.
LEMMA ProducerSideStep ==
  GatesTypeOK /\ CleanCutoff /\ ProducerSideInv /\ [GatesNext]_gateVars
    => (CleanCutoff /\ ProducerSideInv)'
<1> SUFFICES ASSUME GatesTypeOK, CleanCutoff, ProducerSideInv, [GatesNext]_gateVars
             PROVE  (CleanCutoff /\ ProducerSideInv)'
  OBVIOUS
<1> USE GateAssumption DEF GatesTypeOK, CleanCutoff, ProducerSideInv, Ended, One
<1> USE DEF configVars, innerVars, pgateVars, tickVars, engineVars, cgateVars, ctickVars, cinnerVars,
            producerVars, consumerVars
<1>1. CASE InnerSends
  BY <1>1, MinOfTwo DEF InnerSends
<1>2. CASE InnerFails
  BY <1>2 DEF InnerFails
<1>3. CASE ErrTaken
  BY <1>3 DEF ErrTaken
<1>4. CASE InnerReturns
  BY <1>4 DEF InnerReturns, innerCtxDone
<1>5. CASE Tick
  BY <1>5, MinOfTwo DEF Tick
<1>6. CASE GateRecv
  BY <1>6 DEF GateRecv
<1>7. CASE GateWaits
  BY <1>7 DEF GateWaits
<1>8. CASE GatePasses
  BY <1>8, MinOfTwo DEF GatePasses, Leave
<1>9. CASE GateLeaves
  BY <1>9, MinOfTwo DEF GateLeaves, Leave
<1>10. CASE GateCloses
  BY <1>10 DEF GateCloses
<1>11. CASE InstanceCloses
  BY <1>11 DEF InstanceCloses
<1>12. CASE EngineGives
  BY <1>12 DEF EngineGives
<1>13. CASE EngineCloses
  BY <1>13 DEF EngineCloses
<1>14. CASE RunEnds
  BY <1>14 DEF RunEnds, EndRun
<1>15. CASE CGateWaits
  BY <1>15 DEF CGateWaits
<1>16. CASE CGateForwards
  BY <1>16 DEF CGateForwards
<1>17. CASE CGateStops
  BY <1>17 DEF CGateStops
<1>18. CASE CGateJoins
  BY <1>18 DEF CGateJoins
<1>19. CASE WindowElapses
  BY <1>19 DEF WindowElapses
<1>20. CASE ConsumerFinishes
  BY <1>20 DEF ConsumerFinishes
<1>21. CASE ConsumerReturns
  BY <1>21 DEF ConsumerReturns
<1>22. CASE UNCHANGED gateVars
  BY <1>22 DEF gateVars, gatesState
<1>23. CASE CTick
  BY <1>23, MinOfTwo DEF CTick
<1> QED
  BY <1>1, <1>2, <1>3, <1>4, <1>5, <1>6, <1>7, <1>8, <1>9, <1>10, <1>11,
     <1>12, <1>13, <1>14, <1>15, <1>16, <1>17, <1>18, <1>19, <1>20, <1>21, <1>22, <1>23
  DEF GatesNext, ProducerSide, Engine, ConsumerSide

-----------------------------------------------------------------------------
\* Between the gates and in the consumer's: what was passed on, in order.
LEMMA ConsumerSideStep ==
  GatesTypeOK /\ WrittenInOrder /\ ProducerSideInv /\ ConsumerSideInv /\ HandedInv /\ StopInv /\ [GatesNext]_gateVars
    => (WrittenInOrder /\ ConsumerSideInv)'
<1> SUFFICES ASSUME GatesTypeOK, WrittenInOrder, ProducerSideInv, ConsumerSideInv, HandedInv, StopInv, [GatesNext]_gateVars
             PROVE  (WrittenInOrder /\ ConsumerSideInv)'
  OBVIOUS
<1>0. PastEngine \in Nat /\ Len(link) \in Nat /\ count \in Nat
  <2>1. Len(written) \in Nat /\ Len(link) \in Nat /\ count \in Nat
    BY GateAssumption DEF GatesTypeOK
  <2> QED
    BY <2>1, OneIs DEF PastEngine
<1> USE GateAssumption DEF GatesTypeOK, WrittenInOrder, ConsumerSideInv, PastEngine, Listens, One, Ended
<1> USE DEF configVars, innerVars, pgateVars, tickVars, engineVars, cgateVars, ctickVars, cinnerVars,
            producerVars, consumerVars
<1>1. CASE InnerSends
  BY <1>1 DEF InnerSends
<1>2. CASE InnerFails
  BY <1>2 DEF InnerFails
<1>3. CASE ErrTaken
  BY <1>3 DEF ErrTaken
<1>4. CASE InnerReturns
  BY <1>4 DEF InnerReturns
<1>5. CASE Tick
  BY <1>5 DEF Tick
<1>6. CASE GateRecv
  BY <1>6 DEF GateRecv
<1>7. CASE GateWaits
  BY <1>7 DEF GateWaits
<1>8. CASE GatePasses
  <2>1. /\ ~recvClosed /\ held = count + 1 /\ link' = Append(link, held) /\ count' = count + 1
        /\ UNCHANGED <<runDone, configVars, innerVars, tickVars, recvClosed, consumerVars>>
    BY <1>8 DEF GatePasses, ProducerSideInv
  <2>2. Len(link') = Len(link) + 1 /\ \A i \in 1..Len(link') : link'[i] = IF i <= Len(link) THEN link[i] ELSE held
    BY <2>1
  <2>3. PastEngine' = PastEngine /\ Listens' = Listens
    BY <2>1
  <2>4. PastEngine \in Nat /\ Len(link) \in Nat /\ count \in Nat
    BY <1>0
  <2>5. (Listens /\ cinner # "returned") =>
          /\ cgate # "recv" => cheld = PastEngine
          /\ \A i \in 1..Len(link) : link[i] = PastEngine + i
          /\ count = PastEngine + Len(link)
    BY <2>1
  <2> HIDE DEF PastEngine, Listens, GatesTypeOK
  <2>6. (Listens /\ cinner # "returned") => \A i \in 1..Len(link') : link'[i] = PastEngine + i
    BY <2>1, <2>2, <2>4, <2>5
  <2>7. (WrittenInOrder /\ (recvClosed => link = <<>>))'
    BY <2>1, <2>4
  <2> QED
    BY <2>1, <2>2, <2>3, <2>4, <2>5, <2>6, <2>7
<1>9. CASE GateLeaves
  BY <1>9 DEF GateLeaves, Leave
<1>10. CASE GateCloses
  BY <1>10 DEF GateCloses
<1>11. CASE InstanceCloses
  BY <1>11 DEF InstanceCloses
<1>12. CASE EngineGives
  <2>1. /\ cgate = "recv" /\ link # <<>> /\ ~recvClosed /\ cgate' = "pacing"
        /\ cheld' = link[1] /\ link' = Tail(link)
        /\ UNCHANGED <<runDone, configVars, producerVars, recvClosed, cgateCancel, ctickVars, cinnerVars>>
    BY <1>12 DEF EngineGives
  <2>2. Len(link') = Len(link) - 1 /\ Len(link) >= 1 /\ \A i \in 1..Len(link') : link'[i] = link[i + 1]
    BY <2>1
  <2>3. PastEngine' = PastEngine + 1 /\ PastEngine \in Nat /\ Listens /\ Listens'
    BY <2>1
  <2>4. cinner # "returned" =>
          /\ \A i \in 1..Len(link) : link[i] = PastEngine + i
          /\ count = PastEngine + Len(link)
    BY <2>1, <2>3
  <2>5. Len(link) \in Nat /\ count \in Nat
    BY <1>0
  <2> HIDE DEF PastEngine, Listens, GatesTypeOK
  <2>6. cinner # "returned" => link[1] = PastEngine + 1 /\ \A i \in 1..Len(link') : link'[i] = PastEngine + 1 + i
    BY <2>2, <2>3, <2>4, <2>5
  <2>7. (WrittenInOrder /\ (cinner = "working" => cmsg = Len(written) + 1))'
    BY <2>1
  <2>8. cinner # "returned" =>
          /\ cheld' = PastEngine'
          /\ \A i \in 1..Len(link') : link'[i] = PastEngine' + i
          /\ count = PastEngine' + Len(link')
    BY <2>1, <2>2, <2>3, <2>4, <2>5, <2>6
  <2> QED
    BY <1>0, <2>1, <2>3, <2>7, <2>8
<1>13. CASE EngineCloses
  <2>1. /\ link' = <<>> /\ Len(link') = 0
        /\ runDone \/ link = <<>> \/ cinner = "returned"
        /\ UNCHANGED <<runDone, configVars, producerVars, consumerVars>>
    BY <1>13 DEF EngineCloses
  <2>2. ~recvClosed /\ (link = <<>> => Len(link) = 0)
    BY <1>13 DEF EngineCloses
  <2>3. PastEngine' = PastEngine /\ Listens' = Listens
    BY <2>1
  <2>4. PastEngine \in Nat /\ Len(link) \in Nat /\ count \in Nat
    BY <1>0
  <2>5. (WrittenInOrder /\ (cinner = "working" => cmsg = Len(written) + 1))'
    BY <2>1
  <2> HIDE DEF PastEngine, Listens, GatesTypeOK
  <2>6. Listens' /\ cinner' # "returned" =>
          /\ cgate' # "recv" => cheld' = PastEngine'
          /\ PastEngine' + Len(link') <= count'
          /\ ~runDone' => count' = PastEngine' + Len(link')
    BY <2>1, <2>2, <2>3, <2>4
  <2>7. recvClosed' /\ \A i \in 1..Len(link') : link'[i] = PastEngine' + i
    BY <1>13, <2>1 DEF EngineCloses
  <2> QED
    BY <2>1, <2>5, <2>6, <2>7
<1>14. CASE RunEnds
  BY <1>14 DEF RunEnds, EndRun
<1>15. CASE CGateWaits
  BY <1>15 DEF CGateWaits
<1>16. CASE CGateForwards
  BY <1>16 DEF CGateForwards
<1>17. CASE CGateStops
  BY <1>17 DEF CGateStops
<1>18. CASE CGateJoins
  BY <1>18 DEF CGateJoins
<1>19. CASE WindowElapses
  BY <1>19 DEF WindowElapses
<1>20. CASE ConsumerFinishes
  <2>1. /\ cinner = "working" /\ cinner' = "recv" /\ cmsg = Len(written) + 1
        /\ written' = Append(written, cmsg)
        /\ UNCHANGED <<runDone, configVars, producerVars, engineVars, cgateVars, ctickVars>>
    BY <1>20 DEF ConsumerFinishes
  <2>2. Len(written) + 1 <= count
    BY <2>1 DEF HandedInv, Handed
  <2>3. Len(written') = Len(written) + 1 /\ \A k \in 1..Len(written') : written'[k] = k
    BY <2>1
  <2>4. PastEngine' = PastEngine /\ Listens' = Listens
    BY <2>1, <2>3
  <2> HIDE DEF PastEngine, Listens
  <2> QED
    BY <2>1, <2>2, <2>3, <2>4
<1>21. CASE ConsumerReturns
  BY <1>21 DEF ConsumerReturns
<1>22. CASE UNCHANGED gateVars
  BY <1>22 DEF gateVars, gatesState
<1>23. CASE CTick
  BY <1>23, MinOfTwo DEF CTick
<1> QED
  BY <1>1, <1>2, <1>3, <1>4, <1>5, <1>6, <1>7, <1>8, <1>9, <1>10, <1>11,
     <1>12, <1>13, <1>14, <1>15, <1>16, <1>17, <1>18, <1>19, <1>20, <1>21, <1>22, <1>23
  DEF GatesNext, ProducerSide, Engine, ConsumerSide

-----------------------------------------------------------------------------
\* The ticks that the consumer's gate spent on what it handed on.
LEMMA HandedStep ==
  GatesTypeOK /\ ConsumerSideInv /\ HandedInv /\ [GatesNext]_gateVars => HandedInv'
<1> SUFFICES ASSUME GatesTypeOK, ConsumerSideInv, HandedInv, [GatesNext]_gateVars
             PROVE  HandedInv'
  OBVIOUS
<1> USE DEF configVars, innerVars, pgateVars, tickVars, engineVars, cgateVars, ctickVars, cinnerVars,
            producerVars, consumerVars
<1>1. /\ count \in Nat /\ cticks \in Nat /\ MaxTicks \in Nat /\ cticks <= MaxTicks
      /\ Len(written) \in Nat /\ cmsg \in Nat /\ ctick \in BOOLEAN
  BY GateAssumption DEF GatesTypeOK
<1>2. /\ Handed \in Nat /\ Spare \in Nat
      /\ Handed <= count /\ (cinner = "recv" => cmsg = 0)
      /\ Handed + Spare <= cticks \/ cticks = MaxTicks
  <2>1. Handed \in Nat /\ Spare \in Nat
    BY <1>1, OneIs DEF Handed, Spare
  <2> QED
    BY <2>1 DEF HandedInv
<1>3. SUFFICES /\ Handed' <= count' /\ (cinner' = "recv" => cmsg' = 0)
               /\ Handed' + Spare' <= cticks' \/ cticks' = MaxTicks
  BY DEF HandedInv
<1>4. CASE ProducerSide \/ EngineCloses \/ RunEnds \/ UNCHANGED gateVars
  <2>1. UNCHANGED consumerVars
    BY <1>4 DEF ProducerSide, InnerSends, InnerFails, ErrTaken, InnerReturns, Tick, GateRecv, GateWaits, GatePasses, GateLeaves, GateCloses, InstanceCloses, EngineCloses, RunEnds, gateVars, gatesState
  <2>2. count' = count \/ count' = count + 1
    BY <1>4 DEF ProducerSide, InnerSends, InnerFails, ErrTaken, InnerReturns, Tick, GateRecv, GateWaits, GatePasses, GateLeaves, GateCloses, InstanceCloses, EngineCloses, RunEnds, gateVars, gatesState
  <2>3. Handed' = Handed /\ Spare' = Spare /\ UNCHANGED <<cinner, cmsg, cticks>>
    BY <2>1 DEF Handed, Spare
  <2> QED
    BY <1>1, <1>2, <2>2, <2>3
<1>5. CASE CTick
  <2>1. cticks' = Min({cticks + 1, MaxTicks})
    BY <1>5 DEF CTick
  <2>2. Handed' = Handed /\ UNCHANGED <<cinner, cmsg, count>>
    BY <1>5 DEF CTick, Handed
  <2>3. Spare' \in Nat /\ Spare' <= Spare + 1
    BY <1>5 DEF CTick, Spare, One
  <2>4. Handed + Spare' <= cticks' \/ cticks' = MaxTicks
    BY <1>1, <1>2, <2>1, <2>3, TickCounts
  <2> QED
    BY <1>2, <2>2, <2>4
<1>6. CASE CGateForwards
  <2>1. /\ cgate = "forward" /\ cgate' = "recv" /\ cinner = "recv" /\ cinner' = "working" /\ cmsg' = cheld
        /\ UNCHANGED <<count, ctickVars, written>>
    BY <1>6 DEF CGateForwards
  <2>2. cheld = Len(written) + 1 /\ Len(written) + 1 <= count
    <3>1. PastEngine = Len(written) + 1 /\ cheld = PastEngine /\ PastEngine + Len(link) <= count /\ Len(link) \in Nat
      BY <1>1, <2>1 DEF ConsumerSideInv, PastEngine, Listens, One, GatesTypeOK
    <3> QED
      BY <1>1, <3>1
  <2>3. Handed = Len(written) /\ Handed' = Len(written) + 1 /\ Spare = Spare' + 1 /\ Spare' \in Nat
    BY <1>1, <1>2, <2>1, <2>2 DEF Handed, Spare, One
  <2> QED
    BY <1>1, <1>2, <2>1, <2>2, <2>3
<1>7. CASE ConsumerFinishes
  <2>1. /\ cinner' = "recv" /\ cmsg = Len(written) + 1 /\ cmsg' = 0 /\ Len(written') = Len(written) + 1
        /\ UNCHANGED <<count, cgateVars, ctickVars>>
    BY <1>7 DEF ConsumerFinishes, ConsumerSideInv, GatesTypeOK
  <2>2. Handed' = Handed /\ Spare' = Spare
    BY <1>1, <2>1 DEF Handed, Spare, One
  <2> QED
    BY <1>1, <1>2, <2>1, <2>2
<1>8. CASE EngineGives \/ CGateWaits \/ CGateStops \/ CGateJoins \/ WindowElapses \/ ConsumerReturns
  <2>1. Handed' = Handed /\ UNCHANGED <<count, cticks, cmsg>> /\ (cinner' = "recv" => cinner = "recv")
    BY <1>8 DEF EngineGives, CGateWaits, CGateStops, CGateJoins, WindowElapses, ConsumerReturns, Handed
  <2>2. Spare' \in Nat /\ Spare' <= Spare
    <3>1. CASE CGateWaits
      BY <3>1 DEF CGateWaits, Spare, One
    <3>2. CASE EngineGives \/ CGateStops \/ CGateJoins \/ WindowElapses \/ ConsumerReturns
      <4>1. UNCHANGED ctick /\ (cgate' = "forward" => cgate = "forward")
        BY <3>2 DEF EngineGives, CGateStops, CGateJoins, WindowElapses, ConsumerReturns
      <4> QED
        BY <4>1 DEF Spare, One
    <3> QED
      BY <1>8, <3>1, <3>2
  <2>3. Handed + Spare' <= cticks \/ cticks = MaxTicks
    BY <1>1, <1>2, <2>2, SumBounds
  <2> QED
    BY <1>2, <2>1, <2>3
<1> QED
  BY <1>4, <1>5, <1>6, <1>7, <1>8 DEF GatesNext, Engine, ConsumerSide

-----------------------------------------------------------------------------
\* How the consumer's gate stops, and what a consumer misses.
LEMMA StopStep ==
  GatesTypeOK /\ ProducerSideInv /\ ConsumerSideInv /\ StopInv /\ CleanFlush /\ [GatesNext]_gateVars
    => (StopInv /\ CleanFlush)'
<1> SUFFICES ASSUME GatesTypeOK, ProducerSideInv, ConsumerSideInv, StopInv, CleanFlush, [GatesNext]_gateVars
             PROVE  (StopInv /\ CleanFlush)'
  OBVIOUS
<1> USE GateAssumption DEF GatesTypeOK, StopInv, CleanFlush, ConsumerSideInv, PastEngine, Listens, One, Ended, Outlasts
<1> USE DEF configVars, innerVars, pgateVars, tickVars, engineVars, cgateVars, ctickVars, cinnerVars,
            producerVars, consumerVars
<1>1. CASE InnerSends
  BY <1>1 DEF InnerSends
<1>2. CASE InnerFails
  BY <1>2 DEF InnerFails
<1>3. CASE ErrTaken
  BY <1>3 DEF ErrTaken
<1>4. CASE InnerReturns
  BY <1>4 DEF InnerReturns
<1>5. CASE Tick
  BY <1>5 DEF Tick
<1>6. CASE GateRecv
  BY <1>6 DEF GateRecv
<1>7. CASE GateWaits
  BY <1>7 DEF GateWaits
<1>8. CASE GatePasses
  BY <1>8 DEF GatePasses, Leave
<1>9. CASE GateLeaves
  BY <1>9 DEF GateLeaves, Leave
<1>10. CASE GateCloses
  BY <1>10 DEF GateCloses
<1>11. CASE InstanceCloses
  BY <1>11 DEF InstanceCloses
<1>12. CASE EngineGives
  BY <1>12 DEF EngineGives
<1>13. CASE EngineCloses
  <2>1. /\ ~recvClosed /\ recvClosed' = TRUE /\ link' = <<>>
        /\ UNCHANGED <<runDone, configVars, producerVars, consumerVars>>
    BY <1>13 DEF EngineCloses
  <2>2. runDone \/ gate \in {"closed", "released"} \/ cinner = "returned"
    BY <1>13 DEF EngineCloses
  <2>3. ~runDone => Listens
    BY <2>1
  <2>4. ~runDone /\ cinner = "returned" => temper = "early"
    BY <2>3
  <2> QED
    BY <2>1, <2>2, <2>3, <2>4
<1>14. CASE RunEnds
  BY <1>14 DEF RunEnds, EndRun
<1>15. CASE CGateWaits
  BY <1>15 DEF CGateWaits
<1>16. CASE CGateForwards
  BY <1>16 DEF CGateForwards
<1>17. CASE CGateStops
  <2>1. /\ Listens /\ ~Listens' /\ cgateCancel' = cgateCancel
        /\ UNCHANGED <<runDone, configVars, producerVars, engineVars, cinnerVars>>
    BY <1>17 DEF CGateStops
  <2>2. ~runDone => cgate = "recv" /\ recvClosed
    BY <1>17, <2>1 DEF CGateStops, cinnerCtxDone
  <2>3. ~runDone /\ cinner # "returned" => count = PastEngine + Len(link) /\ Len(link) = 0
    BY <2>1, <2>2
  <2>4. ~runDone /\ cinner # "returned" => count = Len(written) + One(cinner = "working")
    BY <2>2, <2>3
  <2>5. ~cgateCancel
    BY <2>1
  <2> QED
    BY <2>1, <2>2, <2>4, <2>5
<1>18. CASE CGateJoins
  BY <1>18 DEF CGateJoins
<1>19. CASE WindowElapses
  BY <1>19 DEF WindowElapses, Outlasts
<1>20. CASE ConsumerFinishes
  BY <1>20 DEF ConsumerFinishes
<1>21. CASE ConsumerReturns
  BY <1>21 DEF ConsumerReturns, cinnerCtxDone, Heeds, Temper
<1>22. CASE UNCHANGED gateVars
  BY <1>22 DEF gateVars, gatesState
<1>23. CASE CTick
  BY <1>23, MinOfTwo DEF CTick
<1> QED
  BY <1>1, <1>2, <1>3, <1>4, <1>5, <1>6, <1>7, <1>8, <1>9, <1>10, <1>11,
     <1>12, <1>13, <1>14, <1>15, <1>16, <1>17, <1>18, <1>19, <1>20, <1>21, <1>22, <1>23
  DEF GatesNext, ProducerSide, Engine, ConsumerSide

-----------------------------------------------------------------------------
(* The theorems about the gates.                                           *)

LEMMA GatesInitInv == GatesInit => GateInv /\ CleanFlush
<1> SUFFICES ASSUME GatesInit PROVE GateInv /\ CleanFlush
  OBVIOUS
<1> USE GateAssumption DEF GatesInit
<1>1. GatesTypeOK
  <2>1. written \in Seq(Nat) /\ link \in Seq(1..made) /\ Len(link) = 0 /\ Len(written) = 0
    OBVIOUS
  <2>2. /\ stopAfter \in Nat /\ made \in 0..MaxMade /\ held \in 0..made /\ count \in 0..made
        /\ cheld \in 0..made /\ cmsg \in 0..made /\ ticks \in 0..MaxTicks /\ cticks \in 0..MaxTicks
    OBVIOUS
  <2>3. /\ tick \in BOOLEAN /\ ctick \in BOOLEAN /\ recvClosed \in BOOLEAN
        /\ runDone \in BOOLEAN /\ gateCancel \in BOOLEAN /\ cgateCancel \in BOOLEAN
        /\ paced \in BOOLEAN /\ bare \in BOOLEAN /\ temper \in Temper
    BY Zenon
  <2>4. /\ inner \in {"working", "sending", "failing", "returned"}
        /\ gate \in {"recv", "pacing", "send"} \cup Ended
        /\ cgate \in {"recv", "pacing", "forward", "closing", "abandoning", "returned"}
        /\ cinner \in {"recv", "working", "returned"}
    BY Zenon
  <2> QED
    BY <2>1, <2>2, <2>3, <2>4 DEF GatesTypeOK, EngineHolds
<1>2. CleanCutoff /\ RateHolds /\ WrittenInOrder /\ CleanFlush
  BY DEF CleanCutoff, RateHolds, Handed, One, WrittenInOrder, CleanFlush, Ended
<1>3. ProducerSideInv
  BY DEF ProducerSideInv, One, Ended
<1>4. ConsumerSideInv /\ HandedInv /\ StopInv
  BY DEF ConsumerSideInv, HandedInv, Handed, Spare, StopInv, PastEngine, Listens, One
<1> QED
  BY <1>1, <1>2, <1>3, <1>4 DEF GateInv

LEMMA GateInvStep ==
  GateInv /\ CleanFlush /\ [GatesNext]_gateVars => GateInv' /\ CleanFlush'
<1> SUFFICES ASSUME GateInv, CleanFlush, [GatesNext]_gateVars PROVE GateInv' /\ CleanFlush'
  OBVIOUS
<1>1. /\ GatesTypeOK /\ CleanCutoff /\ RateHolds /\ WrittenInOrder
      /\ ProducerSideInv /\ ConsumerSideInv /\ HandedInv /\ StopInv
  BY DEF GateInv
<1>2. GatesTypeOK'
  BY <1>1, GatesTypeStep
<1>3. CleanCutoff' /\ ProducerSideInv'
  BY <1>1, ProducerSideStep
<1>4. WrittenInOrder' /\ ConsumerSideInv'
  BY <1>1, ConsumerSideStep
<1>5. StopInv' /\ CleanFlush'
  BY <1>1, StopStep
<1>6. HandedInv'
  BY <1>1, HandedStep
<1>7. RateHolds'
  <2>1. /\ count' \in Nat /\ ticks' \in Nat /\ cticks' \in Nat /\ made' \in Nat
        /\ count' <= made' /\ made' <= MaxMade
    BY <1>2, GateAssumption DEF GatesTypeOK
  <2>2. One(gate' = "send") \in Nat /\ One(tick') \in Nat /\ Spare' \in Nat /\ Handed' \in Nat
    BY <1>2 DEF One, Spare, Handed, GatesTypeOK
  <2>3. paced' => count' + One(gate' = "send") + One(tick') <= ticks' \/ ticks' = MaxTicks
    BY <1>3 DEF ProducerSideInv
  <2>4. Handed' <= count' /\ (Handed' + Spare' <= cticks' \/ cticks' = MaxTicks)
    BY <1>6 DEF HandedInv
  <2>5. paced' => count' <= ticks'
    BY <2>1, <2>2, <2>3, SumBounds, GateAssumption
  <2>6. Handed' <= cticks'
    <3>1. CASE Handed' + Spare' <= cticks'
      BY <2>1, <2>2, <3>1, SumBounds
    <3>2. CASE cticks' = MaxTicks
      BY <2>1, <2>2, <2>4, <3>2, GateAssumption
    <3> QED
      BY <2>4, <3>1, <3>2
  <2> QED
    BY <2>5, <2>6 DEF RateHolds
<1> QED
  BY <1>2, <1>3, <1>4, <1>5, <1>6, <1>7 DEF GateInv

\* flow.Producer and flow.Consumer: stop-after cuts off exactly there, no more
\* messages pass than intervals have elapsed, and what the inner consumer
\* writes is what was passed on, in order and without a gap.
THEOREM GateInvHolds == GatesSpec => []GateInv
<1>1. GatesInit => GateInv /\ CleanFlush
  BY GatesInitInv
<1>2. GateInv /\ CleanFlush /\ [GatesNext]_gateVars => GateInv' /\ CleanFlush'
  BY GateInvStep
<1> QED
  BY <1>1, <1>2, PTL DEF GatesSpec

\* flow.Consumer at the clean end of a stream: the two-step stop lets a
\* consumer that works within the grace window write everything, and a slower
\* one all but the message that it works on.
THEOREM CleanFlushHolds == GatesSpec => []CleanFlush
<1>1. GatesInit => GateInv /\ CleanFlush
  BY GatesInitInv
<1>2. GateInv /\ CleanFlush /\ [GatesNext]_gateVars => GateInv' /\ CleanFlush'
  BY GateInvStep
<1> QED
  BY <1>1, <1>2, PTL DEF GatesSpec

-----------------------------------------------------------------------------
(* A copy: framed sequences.                                               *)

\* Terminated and JoinBytes, for a separator sep.
Terms(sep, ps) == FlattenSeq([i \in 1..Len(ps) |-> ps[i] \o sep])
Joins(sep, ps) == FlattenSeq([i \in 1..Len(ps) |-> IF i = Len(ps) THEN ps[i] ELSE ps[i] \o sep])

LEMMA FramesAre ==
  ASSUME NEW ps
  PROVE  Terminated(ps) = Terms(Sep, ps) /\ JoinBytes(ps) = Joins(Sep, ps)
BY DEF Terminated, Terms, JoinBytes, Joins

LEMMA FramedType ==
  ASSUME NEW B, NEW sep \in Seq(B), NEW ps \in Seq(Seq(B))
  PROVE  [i \in 1..Len(ps) |-> ps[i] \o sep] \in Seq(Seq(B))
<1> DEFINE n == Len(ps)
    ss == [i \in 1..n |-> ps[i] \o sep]
<1>1. n \in Nat /\ \A i \in 1..n : ps[i] \in Seq(B)
  OBVIOUS
<1>2. \A i \in 1..n : ps[i] \o sep \in Seq(B)
  BY <1>1, ConcatProperties
<1>3. ss \in [1..n -> Seq(B)]
  BY <1>2
<1> HIDE DEF ss, n
<1>4. ss \in Seq(Seq(B))
  BY <1>1, <1>3, SeqDef
<1> QED BY <1>4 DEF ss, n

LEMMA TermsType ==
  ASSUME NEW B, NEW sep \in Seq(B), NEW ps \in Seq(Seq(B))
  PROVE  Terms(sep, ps) \in Seq(B)
BY FramedType, FlattenType DEF Terms

LEMMA TermsEmpty ==
  ASSUME NEW sep
  PROVE  Terms(sep, <<>>) = <<>> /\ Joins(sep, <<>>) = <<>>
<1>1. [i \in 1..Len(<<>>) |-> <<>>[i] \o sep] = <<>>
  OBVIOUS
<1>2. [i \in 1..Len(<<>>) |-> IF i = Len(<<>>) THEN <<>>[i] ELSE <<>>[i] \o sep] = <<>>
  OBVIOUS
<1> QED BY <1>1, <1>2, FlattenEmpty DEF Terms, Joins

\* One piece more: terminated behind the others, or the last one of a join.
Framed(sep, ps, p) ==
  /\ Terms(sep, Append(ps, p)) = Terms(sep, ps) \o (p \o sep)
  /\ Joins(sep, Append(ps, p)) = Terms(sep, ps) \o p

LEMMA TermsMore ==
  ASSUME NEW B, NEW sep \in Seq(B), NEW ps \in Seq(Seq(B)), NEW p \in Seq(B)
  PROVE  Framed(sep, ps, p)
<1> DEFINE n == Len(ps)
    qs == Append(ps, p)
    ss == [i \in 1..n |-> ps[i] \o sep]
    ts == [i \in 1..Len(qs) |-> qs[i] \o sep]
    us == [i \in 1..Len(qs) |-> IF i = Len(qs) THEN qs[i] ELSE qs[i] \o sep]
<1>1. n \in Nat /\ qs \in Seq(Seq(B)) /\ Len(qs) = n + 1 /\ qs[n + 1] = p /\ \A i \in 1..n : qs[i] = ps[i]
  BY OneMore
<1>2. ss \in Seq(Seq(B)) /\ Len(ss) = n /\ \A i \in 1..n : ss[i] = ps[i] \o sep
  <2>1. ss \in Seq(Seq(B))
    BY FramedType
  <2>2. DOMAIN ss = 1..n /\ \A i \in 1..n : ss[i] = ps[i] \o sep
    OBVIOUS
  <2> HIDE DEF ss
  <2>3. Len(ss) \in Nat /\ DOMAIN ss = 1..Len(ss)
    BY <2>1, LenProperties
  <2>4. Len(ss) = n
    BY <1>1, <2>2, <2>3
  <2> QED BY <2>1, <2>2, <2>4
<1>3. p \o sep \in Seq(B)
  BY ConcatProperties
<1>4. ASSUME NEW x \in Seq(B)
      PROVE  /\ Append(ss, x) = [i \in 1..(n + 1) |-> Append(ss, x)[i]] /\ Append(ss, x)[n + 1] = x
             /\ \A i \in 1..n : Append(ss, x)[i] = ss[i]
  <2> HIDE DEF ss
  <2> DEFINE more == Append(ss, x)
  <2>1. /\ more \in Seq(Seq(B)) /\ Len(more) = Len(ss) + 1 /\ more[Len(ss) + 1] = x
        /\ \A i \in 1..Len(ss) : more[i] = ss[i]
    <3> DEFINE U == Seq(B)
    <3>1. ss \in Seq(U) /\ x \in U
      BY <1>2
    <3> HIDE DEF U
    <3>2. more \in Seq(U) /\ Len(more) = Len(ss) + 1 /\ more[Len(ss) + 1] = x
        /\ \A i \in 1..Len(ss) : more[i] = ss[i]
      BY <3>1
    <3> QED BY <3>2 DEF U
  <2> HIDE DEF more
  <2>2. more \in [1..Len(more) -> Seq(B)]
    BY <2>1, LenProperties
  <2>3. more = [i \in 1..(n + 1) |-> more[i]]
    BY <1>2, <2>1, <2>2
  <2> QED BY <1>2, <2>1, <2>3 DEF more
<1>5. \A i \in 1..(n + 1) : (i = n + 1 \/ i \in 1..n) /\ (i \in 1..n => i # n + 1)
  BY <1>1
<1> HIDE DEF ss, qs, n
<1>6. ts = Append(ss, p \o sep)
  <2>1. \A i \in 1..(n + 1) : Append(ss, p \o sep)[i] = qs[i] \o sep
    BY <1>1, <1>2, <1>3, <1>4, <1>5
  <2> QED BY <1>1, <1>3, <1>4, <2>1
<1>7. us = Append(ss, p)
  <2>1. \A i \in 1..(n + 1) : Append(ss, p)[i] = IF i = n + 1 THEN qs[i] ELSE qs[i] \o sep
    BY <1>1, <1>2, <1>4, <1>5
  <2> QED BY <1>1, <1>4, <2>1
<1> HIDE DEF ts, us
<1>8. FlattenSeq(ts) = FlattenSeq(ss) \o (p \o sep) /\ FlattenSeq(us) = FlattenSeq(ss) \o p
  BY <1>2, <1>3, <1>6, <1>7, FlattenAppend
<1> QED BY <1>8 DEF ts, us, ss, qs, n, Framed, Terms, Joins

\* A join that is followed by a separator is a sequence of terminated pieces.
LEMMA JoinsThenSep ==
  ASSUME NEW B, NEW sep \in Seq(B), NEW ps \in Seq(Seq(B))
  PROVE  Joins(sep, ps) \in Seq(B) /\ (ps # <<>> => Joins(sep, ps) \o sep = Terms(sep, ps))
<1>1. CASE ps = <<>>
  <2>1. <<>> \in Seq(B)
    OBVIOUS
  <2> QED BY <1>1, <2>1, TermsEmpty
<1>2. CASE ps # <<>>
  <2>1. PICK qs \in Seq(Seq(B)), p \in Seq(B) : ps = Append(qs, p)
    BY <1>2, SequenceEmptyOrAppend
  <2> DEFINE head == Terms(sep, qs)
  <2>2. head \in Seq(B)
    BY TermsType
  <2>3. Joins(sep, ps) = head \o p /\ Terms(sep, ps) = head \o (p \o sep)
    <3>1. Terms(sep, Append(qs, p)) = Terms(sep, qs) \o (p \o sep) /\ Joins(sep, Append(qs, p)) = Terms(sep, qs) \o p
      <4>1. Framed(sep, qs, p)
        BY TermsMore
      <4> QED BY <4>1 DEF Framed
    <3> QED BY <2>1, <3>1
  <2> HIDE DEF head
  <2>4. head \o p \in Seq(B)
    BY <2>2, ConcatProperties
  <2>5. (head \o p) \o sep = head \o (p \o sep)
    BY <2>2, ConcatAssociative
  <2> QED BY <2>3, <2>4, <2>5
<1> QED BY <1>1, <1>2

Regroups(a, b, c) == a \o (b \o c) = (a \o b) \o c
LEMMA Regroup ==
  ASSUME NEW B, NEW a \in Seq(B), NEW b \in Seq(B), NEW c \in Seq(B)
  PROVE  Regroups(a, b, c)
BY ConcatAssociative DEF Regroups

\* What a sequence starts with.
LEMMA StartsWith ==
  ASSUME NEW B, NEW a \in Seq(B), NEW b \in Seq(B)
  PROVE  /\ SubSeq(a \o b, 1, Len(a)) = a /\ Len(a \o b) = Len(a) + Len(b) /\ a \o b \in Seq(B)
         /\ IsPrefix(a, a \o b)
<1>1. a \o b \in Seq(B) /\ Len(a \o b) = Len(a) + Len(b) /\ Len(a) \in Nat /\ Len(b) \in Nat
      /\ \A i \in 1..(Len(a) + Len(b)) : (a \o b)[i] = IF i <= Len(a) THEN a[i] ELSE b[i - Len(a)]
  BY ConcatProperties, LenProperties
<1> DEFINE c == a \o b
    n == Len(a)
<1>2. n \in Nat /\ 1 \in Nat \ {0} /\ n <= Len(c) /\ 1 <= n + 1 /\ n + 1 - 1 = n /\ c \in Seq(B)
  BY <1>1
<1>3. \A i \in 1..n : c[i] = a[i] /\ 1 + i - 1 = i
  BY <1>1
<1> HIDE DEF c
<1>4. SubSeq(c, 1, n) \in Seq(B) /\ Len(SubSeq(c, 1, n)) = n + 1 - 1
      /\ \A i \in 1..(n + 1 - 1) : SubSeq(c, 1, n)[i] = c[1 + i - 1]
  BY <1>2, SubSeqForms
<1>5. SubSeq(c, 1, n) = a
  BY <1>2, <1>3, <1>4, SameSeq
<1>6. SubSeq(a, 1, n) = a
  BY SubSeqFull
<1> QED BY <1>1, <1>2, <1>5, <1>6 DEF c, n, IsPrefix

-----------------------------------------------------------------------------
(* Cutting a piece.                                                        *)

Occ(sep, s) == {i \in 1..(Len(s) + 1 - Len(sep)) : SubSeq(s, i, i + Len(sep) - 1) = sep}
First(sep, s) == CHOOSE i \in Occ(sep, s) : \A j \in Occ(sep, s) : i <= j

LEMMA OccAre == ASSUME NEW s PROVE Occurrences(s) = Occ(Sep, s) /\ Index(s) = First(Sep, s)
BY DEF Occurrences, OccursAt, Occ, Index, First

LEMMA Least ==
  ASSUME NEW S \in SUBSET Nat, S # {}
  PROVE  \E i \in S : \A j \in S : i <= j
<1>1. PICK i \in S : \A j \in S : ~(<<j, i>> \in OpToRel(<, Nat))
  BY NatLessThanWellFounded, WFMin
<1>2. ASSUME NEW j \in S PROVE i <= j
  <2>1. i \in Nat /\ j \in Nat
    OBVIOUS
  <2>2. ~(j < i)
    BY <1>1, <2>1 DEF OpToRel
  <2> QED BY <2>1, <2>2
<1> QED BY <1>2

LEMMA FirstIs ==
  ASSUME NEW B, NEW sep \in Seq(B), NEW s \in Seq(B)
  PROVE  /\ Occ(sep, s) # {} => First(sep, s) \in Occ(sep, s) /\ \A j \in Occ(sep, s) : First(sep, s) <= j
         /\ \A i \in Occ(sep, s) : (\A j \in Occ(sep, s) : i <= j) => First(sep, s) = i
<1>1. Occ(sep, s) \in SUBSET Nat
  <2>1. Len(s) \in Nat /\ Len(sep) \in Nat
    OBVIOUS
  <2> QED BY <2>1 DEF Occ
<1>2. Occ(sep, s) # {} => First(sep, s) \in Occ(sep, s) /\ \A j \in Occ(sep, s) : First(sep, s) <= j
  BY <1>1, Least DEF First
<1>3. ASSUME NEW i \in Occ(sep, s), \A j \in Occ(sep, s) : i <= j
      PROVE  First(sep, s) = i
  <2>1. First(sep, s) \in Occ(sep, s) /\ First(sep, s) <= i /\ i <= First(sep, s)
    BY <1>2, <1>3
  <2>2. i \in Nat /\ First(sep, s) \in Nat
    BY <1>1, <2>1
  <2> QED BY <2>1, <2>2
<1> QED BY <1>2, <1>3

LEMMA SubSeqNone ==
  ASSUME NEW B, NEW s \in Seq(B), NEW j \in Nat \ {0}, j - 1 <= Len(s)
  PROVE  SubSeq(s, j, j - 1) = <<>>
<1> DEFINE m == j - 1
<1>1. m \in Nat /\ m <= Len(s) /\ j <= m + 1 /\ m + 1 - j = 0
  OBVIOUS
<1> HIDE DEF m
<1>2. SubSeq(s, j, m) \in Seq(B) /\ Len(SubSeq(s, j, m)) = m + 1 - j
  BY <1>1, SubSeqForms
<1>3. SubSeq(s, j, m) = <<>>
  BY <1>1, <1>2, EmptySeq
<1> QED BY <1>3 DEF m

\* The first separator cuts a sequence into a piece, itself, and the rest.
CutIs(sep, s, p, rest) ==
  /\ s = (p \o sep) \o rest /\ Occ(sep, p \o sep) # {} /\ First(sep, p \o sep) = Len(p) + 1
LEMMA CutAtFirst ==
  ASSUME NEW B, NEW sep \in Seq(B), NEW s \in Seq(B), Occ(sep, s) # {}
  PROVE  LET i == First(sep, s)
             p == SubSeq(s, 1, i - 1)
             rest == SubSeq(s, i + Len(sep), Len(s))
         IN /\ i \in Nat /\ i >= 1 /\ p \in Seq(B) /\ rest \in Seq(B) /\ CutIs(sep, s, p, rest)
<1> DEFINE i == First(sep, s)
    n == Len(s)
    k == Len(sep)
    p == SubSeq(s, 1, i - 1)
    rest == SubSeq(s, i + k, n)
    q == SubSeq(s, 1, i + k - 1)
<1>1. n \in Nat /\ k \in Nat
  OBVIOUS
<1>2. i \in Occ(sep, s) /\ \A j \in Occ(sep, s) : i <= j
  BY FirstIs
<1> HIDE DEF i
<1>3. i \in 1..(n + 1 - k) /\ SubSeq(s, i, i + k - 1) = sep
  BY <1>2 DEF Occ
<1> HIDE DEF n, k
<1>4. i \in Nat /\ i >= 1 /\ i + k - 1 <= n /\ i - 1 \in Nat /\ i - 1 <= n /\ i + k - 1 \in Nat /\ i + k \in Nat \ {0}
      /\ i + k <= n + 1 /\ 1 \in Nat \ {0} /\ 1 <= (i - 1) + 1 /\ 1 <= (i + k - 1) + 1 /\ n <= n
  BY <1>1, <1>3
<1>5. p \in Seq(B) /\ Len(p) = i - 1
  <2> DEFINE m == i - 1
  <2>1. m \in Nat /\ m <= Len(s) /\ 1 <= m + 1 /\ m + 1 - 1 = m
    BY <1>4 DEF n
  <2> HIDE DEF m
  <2>2. SubSeq(s, 1, m) \in Seq(B) /\ Len(SubSeq(s, 1, m)) = m + 1 - 1
    BY <2>1, SubSeqForms
  <2> QED BY <2>1, <2>2 DEF m
<1>6. q \in Seq(B) /\ Len(q) = i + k - 1
  <2> DEFINE m == i + k - 1
  <2>1. m \in Nat /\ m <= Len(s) /\ 1 <= m + 1 /\ m + 1 - 1 = m
    BY <1>4 DEF n
  <2> HIDE DEF m
  <2>2. SubSeq(s, 1, m) \in Seq(B) /\ Len(SubSeq(s, 1, m)) = m + 1 - 1
    BY <2>1, SubSeqForms
  <2> QED BY <2>1, <2>2 DEF m
<1>7. rest \in Seq(B)
  <2> DEFINE m == i + k
  <2>1. m \in Nat \ {0} /\ n \in Nat /\ n <= Len(s) /\ m <= n + 1
    BY <1>1, <1>4 DEF n
  <2> HIDE DEF m, n
  <2>2. SubSeq(s, m, n) \in Seq(B)
    BY <2>1, SubSeqForms
  <2> QED BY <2>2 DEF m
<1>8. p \o sep = q
  <2>1. SubSeq(s, 1, i - 1) \o SubSeq(s, (i - 1) + 1, i + k - 1) = SubSeq(s, 1, i + k - 1)
    <3>1. 1 \in 1..(Len(s) + 1) /\ i - 1 \in (1 - 1)..Len(s) /\ i + k - 1 \in (i - 1)..Len(s)
      BY <1>1, <1>4 DEF n
    <3> QED BY <3>1, ConcatAdjacentSubSeq
  <2>2. (i - 1) + 1 = i
    BY <1>4
  <2> QED BY <1>3, <2>1, <2>2
<1>9. q \o rest = s
  <2>1. SubSeq(s, 1, i + k - 1) \o SubSeq(s, (i + k - 1) + 1, n) = SubSeq(s, 1, n)
    <3>1. 1 \in 1..(Len(s) + 1) /\ i + k - 1 \in (1 - 1)..Len(s) /\ n \in (i + k - 1)..Len(s)
      BY <1>1, <1>4 DEF n
    <3> QED BY <3>1, ConcatAdjacentSubSeq
  <2>2. (i + k - 1) + 1 = i + k
    BY <1>1, <1>4
  <2>3. SubSeq(s, 1, n) = s
    BY SubSeqFull DEF n
  <2> QED BY <2>1, <2>2, <2>3
<1> HIDE DEF p, q, rest
<1>10. ASSUME NEW j \in 1..i PROVE SubSeq(q, j, j + k - 1) = SubSeq(s, j, j + k - 1)
  <2>1. CASE k = 0
    <3>1. j \in Nat \ {0} /\ j + k - 1 = j - 1 /\ j - 1 <= Len(q) /\ j - 1 <= Len(s)
      BY <1>1, <1>4, <1>6, <2>1 DEF n
    <3>2. SubSeq(q, j, j - 1) = <<>> /\ SubSeq(s, j, j - 1) = <<>>
      BY <1>6, <3>1, SubSeqNone
    <3> QED BY <3>1, <3>2
  <2>2. CASE k # 0
    <3>1. j \in 1..Len(q) /\ j + k - 1 \in 1..Len(q)
      BY <1>1, <1>4, <1>6, <2>2
    <3>2. SubSeq(q \o rest, j, j + k - 1) = SubSeq(q, j, j + k - 1)
      BY <1>6, <1>7, <3>1, SubSeqOfConcat1
    <3> QED BY <1>9, <3>2
  <2> QED BY <2>1, <2>2
<1>11. Len(q) + 1 - k = i /\ i \in 1..i /\ \A j \in 1..i : j \in 1..(n + 1 - k)
  BY <1>1, <1>3, <1>4, <1>6
<1>12. i \in Occ(sep, q) /\ \A j \in Occ(sep, q) : j \in Occ(sep, s)
  <2>1. \A j : j \in Occ(sep, q) <=> j \in 1..i /\ SubSeq(q, j, j + k - 1) = sep
    BY <1>11 DEF Occ, k
  <2>2. \A j : j \in Occ(sep, s) <=> j \in 1..(n + 1 - k) /\ SubSeq(s, j, j + k - 1) = sep
    BY DEF Occ, k, n
  <2> QED BY <1>3, <1>10, <1>11, <2>1, <2>2
<1>13. First(sep, q) = i
  BY <1>2, <1>6, <1>12, FirstIs
<1>14. CutIs(sep, s, p, rest)
  <2>1. i = Len(p) + 1
    BY <1>4, <1>5
  <2> QED BY <1>8, <1>9, <1>12, <1>13, <2>1 DEF CutIs
<1> QED BY <1>4, <1>5, <1>7, <1>14 DEF p, rest, i, k, n

-----------------------------------------------------------------------------
(* The inductive invariant of a copy.                                      *)

\* A piece that its separator, or its size, ends; and one that the stream
\* ended instead.
Exact(sep, fixed, n, p) ==
  IF fixed THEN Len(p) = n ELSE Occ(sep, p \o sep) # {} /\ First(sep, p \o sep) = Len(p) + 1
Ragged(sep, fixed, p) == fixed \/ Occ(sep, p) = {}
Exacts(sep, fixed, n, ps, ended) ==
  \A i \in 1..Len(ps) : Exact(sep, fixed, n, ps[i]) \/ (ended /\ i = Len(ps) /\ Ragged(sep, fixed, ps[i]))

\* The stream is its pieces and what was not cut yet.
Streams(sep, bs, ps, rest, ended) ==
  \/ bs = Terms(sep, ps) \o rest
  \/ ended /\ bs # <<>> /\ Terms(sep, ps) = bs \o sep

\* The messages are full groups of pieces, but for the last one of the stream.
Members(g, ps, i) == SubSeq(ps, g * (i - 1) + 1, IF g * i <= Len(ps) THEN g * i ELSE Len(ps))
Filled(sep, g, ps, ms) == \A i \in 1..Len(ms) : ms[i] = Joins(sep, Members(g, ps, i))
Sized(g, ps, ms, rest, ended) ==
  \/ Len(ps) = g * Len(ms) + Len(rest) /\ rest = SubSeq(ps, g * Len(ms) + 1, Len(ps))
  \/ /\ ended /\ rest = <<>> /\ Len(ms) > 0
     /\ g * (Len(ms) - 1) < Len(ps) /\ Len(ps) < g * Len(ms)
Behind(sep, a, rest, ps) == a \o Terms(sep, rest) = Terms(sep, ps)
Carried(sep, ps, ms, rest) == Behind(sep, Terms(sep, ms), rest, ps)
Grouped(sep, g, ps, ms, rest, ended) ==
  Filled(sep, g, ps, ms) /\ Sized(g, ps, ms, rest, ended) /\ Carried(sep, ps, ms, rest)

AtEnd == source = "eof" /\ unread = <<>> /\ buf = <<>>
Sent == IF reader = "send" THEN Append(got, msg) ELSE got
Pending == IF writer = "write" THEN joined \o Sep ELSE IF writer = "sep" THEN Sep ELSE <<>>

Reading ==
  /\ source # "fault" /\ (source = "eof" => unread = <<>>)
  /\ Streams(Sep, bytes, pieces, buf \o unread, AtEnd)
  /\ Exacts(Sep, Fixed, delim.index, pieces, AtEnd)
Sending ==
  /\ Grouped(Sep, Group, pieces, Sent, batch, AtEnd)
  /\ reader = "closed" => AtEnd /\ batch = <<>>
Writing ==
  /\ Behind(Sep, out \o Pending, jbatch, got)
  /\ closing \/ writer = "done" => reader = "closed" /\ jbatch = <<>>

\* The failures that nobody was told of yet.
Untold ==
  (IF reader = "fail" \/ (source = "fault" /\ reader \in {"scan", "send"}) THEN 1 ELSE 0)
  + (IF writer \in {"fail", "refused"} THEN 1 ELSE 0)
Told == ~runDone => reported + Untold = faults

CopyIInv ==
  /\ CopyTypeOK /\ runDone \in BOOLEAN
  /\ reader = "open" => source = "open"
  /\ Told
  /\ Undisturbed => Reading /\ Sending /\ Writing

-----------------------------------------------------------------------------
(* Cutting one piece.                                                      *)

\* What splitFunc returns: nothing, and then the scanner holds nothing or the
\* stream goes on; or a piece, and where the next one starts.
Cuts(sep, fixed, n, s, e, t, rest) ==
  \/ t = NoToken /\ (s = <<>> \/ ~e)
  \/ /\ t # NoToken /\ s # <<>>
     /\ \/ s = (t.token \o sep) \o rest /\ Exact(sep, fixed, n, t.token)
        \/ e /\ t.token = s /\ rest = <<>> /\ Ragged(sep, fixed, s)

LEMMA SplitWhole ==
  ASSUME NEW s \in Seq(Byte), s # <<>>
  PROVE  Whole(s) # NoToken /\ Whole(s).token = s /\ SubSeq(s, Whole(s).advance + 1, Len(s)) = <<>>
<1>1. Len(s) \in Nat /\ Len(s) # 0
  BY EmptySeq
<1>2. Whole(s).advance = Len(s) /\ Whole(s).token = s /\ Whole(s).found /\ ~NoToken.found
  BY DEF Whole, Piece, NoToken
<1>3. SubSeq(s, Len(s) + 1, Len(s)) = <<>>
  <2> DEFINE n == Len(s)
      t == SubSeq(s, n + 1, n)
  <2>1. n + 1 \in Nat \ {0} /\ n \in Nat /\ n <= Len(s) /\ n + 1 <= n + 1 /\ n + 1 - (n + 1) = 0
    BY <1>1
  <2>2. t \in Seq(Byte) /\ Len(t) = n + 1 - (n + 1)
    BY <2>1, SubSeqForms
  <2> HIDE DEF t
  <2>3. t = <<>>
    BY <2>1, <2>2, EmptySeq
  <2> QED BY <2>3 DEF t
<1> QED BY <1>1, <1>2, <1>3

LEMMA SplitCuts ==
  ASSUME NEW s \in Seq(Byte), NEW e \in BOOLEAN, delim.index \in Nat, Fixed => delim.index > 0,
         Sep \in Seq(Byte), Fixed => Sep = <<>>
  PROVE  LET t == SplitFunc(s, e)
             rest == SubSeq(s, t.advance + 1, Len(s))
         IN Cuts(Sep, Fixed, delim.index, s, e, t, rest) /\ t.token \in Seq(Byte) /\ rest \in Seq(Byte)
<1> DEFINE t == SplitFunc(s, e)
    n == delim.index
    rest == SubSeq(s, t.advance + 1, Len(s))
<1>0. Len(s) \in Nat /\ <<>> \in Seq(Byte) /\ SubSeq(s, 0 + 1, Len(s)) = s
      /\ ~NoToken.found /\ NoToken.advance = 0 /\ NoToken.token = <<>>
  <2>1. Len(s) \in Nat /\ <<>> \in Seq(Byte)
    OBVIOUS
  <2>2. SubSeq(s, 0 + 1, Len(s)) = s
    BY SubSeqFull
  <2> QED BY <2>1, <2>2 DEF NoToken
<1>1. CASE s = <<>> \/ (t = NoToken /\ ~e)
  <2>1. t = NoToken
    BY <1>1 DEF SplitFunc
  <2>2. t.token \in Seq(Byte) /\ rest \in Seq(Byte)
    BY <1>0, <2>1
  <2> HIDE DEF t, rest
  <2>3. Cuts(Sep, Fixed, n, s, e, t, rest)
    BY <1>1, <2>1 DEF Cuts
  <2> QED BY <2>2, <2>3 DEF t, rest
<1>2. CASE s # <<>> /\ Fixed /\ Len(s) >= n
  <2> DEFINE p == FirstBytes(n, s)
      more == SubSeq(s, n + 1, Len(s))
  <2>1. t = Whole(p)
    BY <1>2 DEF SplitFunc
  <2>2. p \in Seq(Byte) /\ Len(p) = n
    <3>1. n \in Nat /\ n <= Len(s) /\ 1 <= n + 1 /\ n + 1 - 1 = n
      BY <1>2
    <3> HIDE DEF n
    <3>2. SubSeq(s, 1, n) \in Seq(Byte) /\ Len(SubSeq(s, 1, n)) = n + 1 - 1
      BY <3>1, SubSeqForms
    <3> QED BY <3>1, <3>2 DEF FirstBytes
  <2>3. more \in Seq(Byte)
    <3>1. n + 1 \in Nat \ {0} /\ Len(s) \in Nat /\ Len(s) <= Len(s) /\ n + 1 <= Len(s) + 1
      BY <1>0, <1>2
    <3> QED BY <3>1, SubSeqForms
  <2>4. s = (p \o Sep) \o more
    <3>1. p \o more = SubSeq(s, 1, Len(s))
      <4>1. 1 \in 1..(Len(s) + 1) /\ n \in (1 - 1)..Len(s) /\ Len(s) \in n..Len(s)
        BY <1>0, <1>2
      <4> QED BY <4>1, ConcatAdjacentSubSeq DEF FirstBytes
    <3>2. SubSeq(s, 1, Len(s)) = s
      BY SubSeqFull
    <3>3. p \o Sep = p
      BY <1>2, <2>2, ConcatEmptySeq
    <3> QED BY <3>1, <3>2, <3>3
  <2> HIDE DEF p, more
  <2>5. t.token = p /\ t.advance = n /\ t # NoToken
    <3>1. Whole(p).token = p /\ Whole(p).advance = n /\ Whole(p).found
      BY <2>2 DEF Whole, Piece
    <3> HIDE DEF n, t
    <3> QED BY <1>0, <2>1, <3>1
  <2> HIDE DEF t
  <2>6. rest = more
    BY <2>5 DEF more
  <2>7. Exact(Sep, Fixed, n, p)
    BY <1>2, <2>2 DEF Exact
  <2> HIDE DEF n
  <2>8. Cuts(Sep, Fixed, n, s, e, t, rest)
    BY <1>2, <2>4, <2>5, <2>6, <2>7 DEF Cuts
  <2> QED BY <2>2, <2>3, <2>5, <2>6, <2>8 DEF t, n
<1>3. CASE s # <<>> /\ ~Fixed /\ Occurrences(s) # {}
  <2> DEFINE i == First(Sep, s)
      p == SubSeq(s, 1, i - 1)
      more == SubSeq(s, i + Len(Sep), Len(s))
  <2>1. t = [found |-> TRUE, advance |-> Index(s) - 1 + Len(Sep), token |-> FirstBytes(Index(s) - 1, s)]
    BY <1>3 DEF SplitFunc, Piece
  <2>2. Len(Sep) \in Nat
    OBVIOUS
  <2>3. Occ(Sep, s) # {} /\ Index(s) = i
    BY <1>3, OccAre
  <2>4. i \in Nat /\ i >= 1 /\ p \in Seq(Byte) /\ more \in Seq(Byte) /\ CutIs(Sep, s, p, more)
    BY <2>3, CutAtFirst
  <2> HIDE DEF i
  <2>5. t.token = p /\ t.advance = i - 1 + Len(Sep) /\ t # NoToken
    <3>1. t.advance = i - 1 + Len(Sep)
      BY <2>1, <2>3
    <3>2. t.token = p
      <4>1. t.token = FirstBytes(Index(s) - 1, s)
        BY <2>1
      <4>2. FirstBytes(Index(s) - 1, s) = p
        BY <2>3 DEF FirstBytes
      <4> HIDE DEF t, p
      <4> QED BY <4>1, <4>2
    <3>3. t.found
      BY <2>1
    <3> HIDE DEF t
    <3> QED BY <1>0, <3>1, <3>2, <3>3
  <2>6. t.advance + 1 = i + Len(Sep)
    <3> HIDE DEF t
    <3> QED BY <2>2, <2>4, <2>5
  <2> HIDE DEF t
  <2>7. rest = more
    BY <2>6
  <2> HIDE DEF p, more
  <2>8. s = (p \o Sep) \o more /\ Exact(Sep, Fixed, n, p)
    BY <1>3, <2>4 DEF CutIs, Exact
  <2>9. Cuts(Sep, Fixed, n, s, e, t, rest)
    BY <1>3, <2>5, <2>7, <2>8 DEF Cuts
  <2> QED BY <2>4, <2>5, <2>7, <2>9 DEF t
<1>4. CASE s # <<>> /\ ~(Fixed /\ Len(s) >= n) /\ ~(~Fixed /\ Occurrences(s) # {}) /\ e
  <2>1. t = Whole(s)
    BY <1>4 DEF SplitFunc
  <2>2. t # NoToken /\ t.token = s /\ rest = <<>>
    BY <1>4, <2>1, SplitWhole
  <2> HIDE DEF t, rest
  <2>3. Ragged(Sep, Fixed, s)
    BY <1>4, OccAre DEF Ragged
  <2>4. Cuts(Sep, Fixed, n, s, e, t, rest)
    BY <1>4, <2>2, <2>3 DEF Cuts
  <2> QED BY <1>0, <2>2, <2>4 DEF t, rest
<1>5. t = NoToken \/ e \/ (s # <<>> /\ Fixed /\ Len(s) >= n) \/ (s # <<>> /\ ~Fixed /\ Occurrences(s) # {}) \/ s = <<>>
  BY DEF SplitFunc
<1> HIDE DEF t, rest
<1> QED BY <1>1, <1>2, <1>3, <1>4, <1>5 DEF t, rest

-----------------------------------------------------------------------------
(* Grouping the pieces into messages.                                      *)

\* ps holds k full groups; what they are, and the one that is next.
Holds(g, k, ps) == g * k <= Len(ps)
FullGroups(g, k, ps) ==
  \A i \in 1..k : Members(g, ps, i) = SubSeq(ps, g * (i - 1) + 1, g * i) /\ Len(Members(g, ps, i)) = g
LastGroup(g, k, ps) == Members(g, ps, k + 1) = SubSeq(ps, g * k + 1, Len(ps))

LEMMA MembersAre ==
  ASSUME NEW U, NEW ps \in Seq(U), NEW g \in Nat, g >= 1, NEW k \in Nat, Holds(g, k, ps)
  PROVE  FullGroups(g, k, ps) /\ (Len(ps) <= g * k + g => LastGroup(g, k, ps))
<1> DEFINE n == Len(ps)
<1>1. n \in Nat
  OBVIOUS
<1>2. /\ g * ((k + 1) - 1) = g * k /\ g * (k + 1) = g * k + g /\ g * k \in Nat
      /\ \A i \in 1..k : g * (i - 1) \in Nat /\ g * (i - 1) + g <= g * k
  BY Offsets
<1>5. g * k <= n
  BY DEF Holds
<1>3. ASSUME NEW i \in 1..k
      PROVE  Members(g, ps, i) = SubSeq(ps, g * (i - 1) + 1, g * i) /\ Len(Members(g, ps, i)) = g
  <2> DEFINE a == g * (i - 1)
  <2>1. a \in Nat /\ a + g <= g * k
    BY <1>2
  <2>2. g * i = a + g
    <3>1. i - 1 \in Nat /\ (i - 1) + 1 = i
      OBVIOUS
    <3>2. g * ((i - 1) + 1) = g * (i - 1) + g
      BY <3>1, Offsets
    <3> QED BY <3>1, <3>2
  <2> HIDE DEF a
  <2>3. g * i <= n /\ a + 1 \in Nat \ {0} /\ a + g \in Nat /\ a + g <= n /\ a + 1 <= (a + g) + 1
        /\ (a + g) + 1 - (a + 1) = g
    <3> DEFINE b == g * k
    <3>1. b \in Nat /\ b <= n /\ a + g <= b
      BY <1>2, <1>5, <2>1
    <3> HIDE DEF b, n
    <3> QED BY <1>1, <2>1, <2>2, <3>1
  <2>4. Members(g, ps, i) = SubSeq(ps, a + 1, a + g)
    BY <2>2, <2>3 DEF Members, a
  <2>5. SubSeq(ps, a + 1, a + g) \in Seq(U) /\ Len(SubSeq(ps, a + 1, a + g)) = (a + g) + 1 - (a + 1)
    BY <2>3, SubSeqForms
  <2> QED BY <2>2, <2>3, <2>4, <2>5 DEF a
<1>4. ASSUME n <= g * k + g
      PROVE  Members(g, ps, k + 1) = SubSeq(ps, g * k + 1, n)
  <2> DEFINE a == g * k
  <2>1. a \in Nat /\ a <= n /\ n <= a + g
    BY <1>2, <1>4, <1>5
  <2>2. Members(g, ps, k + 1) = SubSeq(ps, a + 1, IF a + g <= n THEN a + g ELSE n)
    BY <1>2 DEF Members
  <2> HIDE DEF a, n
  <2>3. (IF a + g <= n THEN a + g ELSE n) = n
    BY <1>1, <2>1
  <2> QED BY <2>2, <2>3 DEF a
<1> QED BY <1>3, <1>4 DEF FullGroups, LastGroup

\* The groups that are full stay what they are.
SameGroups(g, k, ps, qs) == \A i \in 1..k : Members(g, qs, i) = Members(g, ps, i)
LEMMA MembersStay ==
  ASSUME NEW U, NEW ps \in Seq(U), NEW p \in U, NEW g \in Nat, g >= 1, NEW k \in Nat, Holds(g, k, ps)
  PROVE  SameGroups(g, k, ps, Append(ps, p))
<1> DEFINE qs == Append(ps, p)
<1>1. qs \in Seq(U) /\ Len(qs) = Len(ps) + 1 /\ Len(ps) \in Nat
  BY OneMore
<1>2. /\ g * k \in Nat /\ \A i \in 1..k : g * (i - 1) \in Nat /\ g * (i - 1) + g <= g * k
  BY Offsets
<1> HIDE DEF qs
<1>3. Holds(g, k, qs) /\ g * k <= Len(ps)
  BY <1>1, <1>2 DEF Holds
<1>5. FullGroups(g, k, qs)
  BY <1>1, <1>3, MembersAre
<1>6. FullGroups(g, k, ps)
  BY MembersAre
<1>4. ASSUME NEW i \in 1..k PROVE Members(g, qs, i) = Members(g, ps, i)
  <2> DEFINE a == g * (i - 1)
  <2>1. Members(g, qs, i) = SubSeq(qs, g * (i - 1) + 1, g * i)
    BY <1>5 DEF FullGroups
  <2>6. Members(g, ps, i) = SubSeq(ps, g * (i - 1) + 1, g * i)
    BY <1>6 DEF FullGroups
  <2>2. g * i = a + g
    <3>1. i - 1 \in Nat /\ (i - 1) + 1 = i
      OBVIOUS
    <3>2. g * ((i - 1) + 1) = g * (i - 1) + g
      BY <3>1, Offsets
    <3> QED BY <3>1, <3>2
  <2>3. a \in Nat /\ a + g <= g * k
    BY <1>2
  <2>4. a + 1 \in Nat \ {0} /\ a + g \in 0..Len(ps) /\ a + 1 <= (a + g) + 1
    <3> DEFINE b == g * k
        n == Len(ps)
    <3>1. b \in Nat /\ n \in Nat /\ b <= n /\ a + g <= b /\ a \in Nat
      BY <1>1, <1>2, <1>3, <2>3
    <3> HIDE DEF a, b, n
    <3>2. a + 1 \in Nat \ {0} /\ a + g \in 0..n /\ a + 1 <= (a + g) + 1
      BY <3>1
    <3> QED BY <3>2 DEF n
  <2> HIDE DEF a
  <2>5. SubSeq(Append(ps, p), a + 1, a + g) = SubSeq(ps, a + 1, a + g)
    BY <2>4, SubSeqOfMore
  <2> QED BY <2>1, <2>2, <2>5, <2>6 DEF a, qs
<1> QED BY <1>4 DEF qs, SameGroups

\* A message for the group that is next.
LEMMA FilledMore ==
  ASSUME NEW sep, NEW g, NEW ps, NEW U, NEW ms \in Seq(U), NEW m \in U, Filled(sep, g, ps, ms),
         m = Joins(sep, Members(g, ps, Len(ms) + 1))
  PROVE  Filled(sep, g, ps, Append(ms, m))
<1> DEFINE k == Len(ms)
    ns == Append(ms, m)
<1>1. k \in Nat /\ Len(ns) = k + 1 /\ ns[k + 1] = m /\ \A i \in 1..k : ns[i] = ms[i]
  BY OneMore
<1> HIDE DEF ns
<1>2. ASSUME NEW i \in 1..(k + 1) PROVE ns[i] = Joins(sep, Members(g, ps, i))
  <2>1. CASE i = k + 1
    BY <1>1, <2>1
  <2>2. CASE i \in 1..k
    BY <1>1, <2>2 DEF Filled
  <2> QED BY <1>1, <2>1, <2>2
<1> QED BY <1>1, <1>2 DEF Filled, ns

\* A message is written out as the pieces that it joins.
LEMMA TermsOfJoin ==
  ASSUME NEW B, NEW sep \in Seq(B), NEW ms \in Seq(Seq(B)), NEW xs \in Seq(Seq(B)), xs # <<>>
  PROVE  Terms(sep, Append(ms, Joins(sep, xs))) = Terms(sep, ms) \o Terms(sep, xs)
<1> DEFINE m == Joins(sep, xs)
<1>1. m \in Seq(B) /\ m \o sep = Terms(sep, xs)
  BY JoinsThenSep
<1> HIDE DEF m
<1>2. Framed(sep, ms, m)
  BY <1>1, TermsMore
<1> QED BY <1>1, <1>2 DEF Framed, m

\* One piece more, and one more among those that wait.
LEMMA BehindMore ==
  ASSUME NEW B, NEW sep \in Seq(B), NEW ps \in Seq(Seq(B)), NEW a \in Seq(B), NEW rest \in Seq(Seq(B)),
         NEW p \in Seq(B), Behind(sep, a, rest, ps)
  PROVE  Behind(sep, a, Append(rest, p), Append(ps, p))
<1> DEFINE b == Terms(sep, rest)
    c == Terms(sep, ps)
    q == p \o sep
<1>1. b \in Seq(B) /\ c \in Seq(B)
  BY TermsType
<1>2. q \in Seq(B)
  BY ConcatProperties
<1>3. Framed(sep, rest, p) /\ Framed(sep, ps, p)
  <2>1. Framed(sep, rest, p)
    BY TermsMore
  <2>2. Framed(sep, ps, p)
    BY TermsMore
  <2> QED BY <2>1, <2>2
<1>4. Terms(sep, Append(rest, p)) = b \o q /\ Terms(sep, Append(ps, p)) = c \o q
  BY <1>3 DEF Framed
<1>5. a \o b = c
  BY DEF Behind
<1> HIDE DEF b, c, q
<1>6. Regroups(a, b, q)
  BY <1>1, <1>2, Regroup
<1> QED BY <1>4, <1>5, <1>6 DEF Behind, Regroups

LEMMA CarriedJoined ==
  ASSUME NEW B, NEW sep \in Seq(B), NEW ps, NEW ms \in Seq(Seq(B)), NEW rest \in Seq(Seq(B)),
         rest # <<>>, Carried(sep, ps, ms, rest)
  PROVE  Carried(sep, ps, Append(ms, Joins(sep, rest)), <<>>)
<1> DEFINE a == Terms(sep, ms) \o Terms(sep, rest)
<1>1. Terms(sep, Append(ms, Joins(sep, rest))) = a
  BY TermsOfJoin
<1>2. a \in Seq(B)
  <2>1. Terms(sep, ms) \in Seq(B) /\ Terms(sep, rest) \in Seq(B)
    BY TermsType
  <2> QED BY <2>1, ConcatProperties
<1>3. a = Terms(sep, ps)
  BY DEF Carried, Behind
<1> HIDE DEF a
<1>4. a \o <<>> = a
  BY <1>2, ConcatEmptySeq
<1>5. Terms(sep, <<>>) = <<>>
  BY TermsEmpty
<1> QED BY <1>1, <1>3, <1>4, <1>5 DEF Carried, Behind

\* A piece that does not complete its message, one that does, and the message
\* that the end of the stream completes.
LEMMA GroupGrows ==
  ASSUME NEW B, NEW sep \in Seq(B), NEW ps \in Seq(Seq(B)), NEW ms \in Seq(Seq(B)), NEW rest \in Seq(Seq(B)),
         NEW p \in Seq(B), NEW g \in Nat, g >= 1, Grouped(sep, g, ps, ms, rest, FALSE)
  PROVE  Grouped(sep, g, Append(ps, p), ms, Append(rest, p), FALSE)
<1> DEFINE n == Len(ps)
    k == Len(ms)
    U == Seq(B)
<1>1. n \in Nat /\ k \in Nat /\ Len(rest) \in Nat /\ Len(Append(ps, p)) = n + 1 /\ Len(Append(rest, p)) = Len(rest) + 1
      /\ ps \in Seq(U) /\ p \in U
  BY OneMore
<1>2. n = g * k + Len(rest) /\ rest = SubSeq(ps, g * k + 1, n) /\ g * k \in Nat
  BY <1>1, Offsets DEF Grouped, Sized
<1> HIDE DEF U
<1>3. g * k <= n /\ g * k + 1 \in Nat \ {0} /\ g * k + 1 <= n + 1 /\ n + 1 = g * k + (Len(rest) + 1)
  <2> DEFINE a == g * k
  <2>1. a \in Nat /\ n = a + Len(rest)
    BY <1>2
  <2> HIDE DEF a, n
  <2>2. a <= n /\ a + 1 \in Nat \ {0} /\ a + 1 <= n + 1 /\ n + 1 = a + (Len(rest) + 1)
    BY <1>1, <2>1
  <2> QED BY <2>2 DEF a
<1>4. \A i \in 1..k : Members(g, Append(ps, p), i) = Members(g, ps, i)
  <2>1. Holds(g, k, ps)
    BY <1>3 DEF Holds
  <2> HIDE DEF k
  <2>2. SameGroups(g, k, ps, Append(ps, p))
    BY <1>1, <2>1, MembersStay
  <2> QED BY <2>2 DEF SameGroups
<1>5. Append(rest, p) = SubSeq(Append(ps, p), g * k + 1, n + 1)
  BY <1>1, <1>2, <1>3, SubSeqOfMore
<1>6. Filled(sep, g, Append(ps, p), ms)
  BY <1>4 DEF Grouped, Filled
<1>7. Sized(g, Append(ps, p), ms, Append(rest, p), FALSE)
  BY <1>1, <1>3, <1>5 DEF Sized
<1>8. Carried(sep, Append(ps, p), ms, Append(rest, p))
  <2>1. Terms(sep, ms) \in Seq(B) /\ Behind(sep, Terms(sep, ms), rest, ps)
    BY TermsType DEF Grouped, Carried
  <2> QED BY <2>1, BehindMore DEF Carried
<1> QED BY <1>6, <1>7, <1>8 DEF Grouped

LEMMA GroupCloses ==
  ASSUME NEW B, NEW sep \in Seq(B), NEW ps \in Seq(Seq(B)), NEW ms \in Seq(Seq(B)), NEW rest \in Seq(Seq(B)),
         NEW g \in Nat, g >= 1, NEW e \in BOOLEAN, NEW f, Grouped(sep, g, ps, ms, rest, f), rest # <<>>,
         Len(rest) = g \/ (Len(rest) < g /\ e)
  PROVE  Grouped(sep, g, ps, Append(ms, Joins(sep, rest)), <<>>, e)
<1> DEFINE n == Len(ps)
    k == Len(ms)
    U == Seq(B)
    m == Joins(sep, rest)
    r == Len(rest)
<1>1. n \in Nat /\ k \in Nat /\ r \in Nat /\ r # 0 /\ ps \in Seq(U) /\ ms \in Seq(U) /\ r <= g
  BY EmptySeq
<1>2. m \in U
  BY JoinsThenSep
<1>3. n = g * k + r /\ rest = SubSeq(ps, g * k + 1, n) /\ g * k \in Nat /\ g * (k + 1) = g * k + g
      /\ g * ((k + 1) - 1) = g * k
  BY <1>1, Offsets DEF Grouped, Sized
<1> HIDE DEF U, m
<1>4. Len(Append(ms, m)) = k + 1
  BY <1>1, <1>2, OneMore
<1>5. g * k <= n /\ n <= g * k + g /\ g * k < n /\ (n = g * (k + 1) \/ (n < g * (k + 1) /\ e))
  <2> DEFINE a == g * k
      b == g * (k + 1)
  <2>1. a \in Nat /\ n = a + r /\ b = a + g /\ (r = g \/ (r < g /\ e))
    BY <1>3
  <2> HIDE DEF a, b, n, r, k
  <2>2. a <= n /\ n <= a + g /\ a < n
    BY <1>1, <2>1
  <2>3. (r = g => n = b) /\ (r < g => n < b)
    BY <1>1, <2>1
  <2> QED BY <2>1, <2>2, <2>3 DEF a, b
<1>6. Members(g, ps, k + 1) = rest
  <2>1. Holds(g, k, ps) /\ n <= g * k + g
    BY <1>5 DEF Holds
  <2> HIDE DEF k
  <2>2. LastGroup(g, k, ps)
    BY <1>1, <2>1, MembersAre
  <2> QED BY <1>3, <2>2 DEF LastGroup
<1>7. Filled(sep, g, ps, Append(ms, m))
  <2>1. Filled(sep, g, ps, ms)
    BY DEF Grouped
  <2>2. m = Joins(sep, Members(g, ps, k + 1))
    BY <1>6 DEF m
  <2> QED BY <1>1, <1>2, <2>1, <2>2, FilledMore
<1>8. Sized(g, ps, Append(ms, m), <<>>, e)
  <2>1. CASE n < g * (k + 1) /\ e
    <3>1. k + 1 > 0
      BY <1>1
    <3>2. g * ((k + 1) - 1) < n
      <4> HIDE DEF k, n
      <4> QED BY <1>3, <1>5
    <3> QED BY <1>4, <2>1, <3>1, <3>2 DEF Sized
  <2>2. CASE n = g * (k + 1)
    <3>1. Len(<<>>) = 0 /\ n = g * (k + 1) + Len(<<>>)
      BY <1>1, <2>2
    <3>2. <<>> = SubSeq(ps, n + 1, n)
      <4>1. n + 1 \in Nat \ {0} /\ n <= Len(ps) /\ n + 1 <= n + 1 /\ n + 1 - (n + 1) = 0
        BY <1>1
      <4>2. SubSeq(ps, n + 1, n) \in Seq(U) /\ Len(SubSeq(ps, n + 1, n)) = n + 1 - (n + 1)
        BY <1>1, <4>1, SubSeqForms
      <4> QED BY <4>1, <4>2, EmptySeq
    <3> QED BY <1>4, <2>2, <3>1, <3>2 DEF Sized
  <2> QED BY <1>5, <2>1, <2>2
<1>9. Carried(sep, ps, Append(ms, m), <<>>)
  BY CarriedJoined DEF Grouped, m
<1> QED BY <1>7, <1>8, <1>9 DEF Grouped, m

LEMMA GroupStays ==
  ASSUME NEW sep, NEW g, NEW ps, NEW ms, NEW rest, NEW e \in BOOLEAN, NEW f \in BOOLEAN,
         Grouped(sep, g, ps, ms, rest, e), e => f
  PROVE  Grouped(sep, g, ps, ms, rest, f)
BY DEF Grouped, Sized

LEMMA GroupsFull ==
  ASSUME NEW B, NEW sep, NEW ps \in Seq(Seq(B)), NEW ms \in Seq(Seq(B)), NEW rest \in Seq(Seq(B)),
         NEW g \in Nat, g >= 1, NEW e \in BOOLEAN, Grouped(sep, g, ps, ms, rest, e)
  PROVE  \A i \in 1..Len(ms) : Len(Members(g, ps, i)) = g \/ (e /\ i = Len(ms))
<1> DEFINE n == Len(ps)
    k == Len(ms)
    U == Seq(B)
<1>1. n \in Nat /\ k \in Nat /\ Len(rest) \in Nat /\ ps \in Seq(U)
  OBVIOUS
<1>2. g * k \in Nat
  BY <1>1, Offsets
<1> HIDE DEF U
<1>3. CASE n = g * k + Len(rest)
  <2>1. g * k <= n
    <3> DEFINE a == g * k
    <3>1. a \in Nat /\ n = a + Len(rest)
      BY <1>2, <1>3
    <3> HIDE DEF a, n
    <3>2. a <= n
      BY <1>1, <3>1
    <3> QED BY <3>2 DEF a
  <2>2. \A i \in 1..k : Len(Members(g, ps, i)) = g
    <3> HIDE DEF k
    <3>1. Holds(g, k, ps)
      BY <2>1 DEF Holds
    <3>2. FullGroups(g, k, ps)
      BY <1>1, <3>1, MembersAre
    <3> QED BY <3>2 DEF FullGroups
  <2> QED BY <2>2
<1>4. CASE e /\ k > 0 /\ g * (k - 1) < n
  <2> DEFINE j == k - 1
  <2>1. j \in Nat /\ \A i \in 1..k : i = k \/ i \in 1..j
    BY <1>1, <1>4
  <2>2. g * j \in Nat /\ g * j < n
    BY <1>4, <2>1, Offsets
  <2>3. g * j <= n
    BY <1>1, <2>2
  <2> HIDE DEF j
  <2>4. \A i \in 1..j : Len(Members(g, ps, i)) = g
    <3>1. Holds(g, j, ps)
      BY <2>3 DEF Holds
    <3>2. FullGroups(g, j, ps)
      BY <1>1, <2>1, <3>1, MembersAre
    <3> QED BY <3>2 DEF FullGroups
  <2> QED BY <1>4, <2>1, <2>4
<1>5. n = g * k + Len(rest) \/ (e /\ k > 0 /\ g * (k - 1) < n)
  BY DEF Grouped, Sized
<1> QED BY <1>3, <1>4, <1>5

-----------------------------------------------------------------------------
(* The types of a copy.                                                    *)

Framing ==
  /\ Sep \in Seq(Byte) /\ Group \in Nat /\ Group >= 1 /\ delim.index \in Nat
  /\ Fixed => delim.index > 0
  /\ Fixed => Sep = <<>>

LEMMA FramingHolds == ASSUME delim \in Delims, Validate(delim) PROVE Framing
<1>1. /\ delim.given \in SUBSET Option /\ delim.sep \in Seq(Byte) /\ delim.index \in Nat /\ delim.group \in Nat
  BY CopyAssumption
<1>2. Sep \in Seq(Byte) /\ (Fixed => Sep = <<>>)
  BY <1>1 DEF Sep
<1>3. Group \in Nat /\ Group >= 1
  BY <1>1 DEF Group
<1>4. Fixed => delim.index > 0
  BY DEF Fixed, Validate
<1> QED BY <1>1, <1>2, <1>3, <1>4 DEF Framing

DataOK ==
  /\ delim \in Delims /\ Validate(delim) /\ follow \in BOOLEAN
  /\ bytes \in Seq(Byte) /\ unread \in Seq(Byte) /\ buf \in Seq(Byte)
  /\ msg \in Seq(Byte) /\ joined \in Seq(Byte) /\ out \in Seq(Byte)
  /\ batch \in Seq(Seq(Byte)) /\ pieces \in Seq(Seq(Byte)) /\ jbatch \in Seq(Seq(Byte)) /\ got \in Seq(Seq(Byte))
  /\ Len(batch) < Group /\ Len(jbatch) < Group
PlaceOK ==
  /\ closing \in BOOLEAN /\ source \in {"open", "eof", "fault"}
  /\ reader \in {"open", "scan", "send", "fail", "closed"}
  /\ writer \in {"open", "recv", "write", "sep", "fail", "refused", "done"}
CountOK == reported \in Nat /\ faults \in Nat /\ reported <= faults /\ faults <= MaxFaults

LEMMA TypeParts == ASSUME CopyTypeOK PROVE DataOK /\ PlaceOK /\ CountOK
BY DEF CopyTypeOK, DataOK, PlaceOK, CountOK

LEMMA DelimStays ==
  ASSUME [CopyNext]_copyVars
  PROVE  delim' = delim /\ follow' = follow /\ bytes' = bytes
<1>1. CASE UNCHANGED copyVars
  BY <1>1 DEF copyVars, copyState
<1>2. CASE CopyNext
  BY <1>2 DEF CopyNext, ReaderOpens, WriterOpens, Read, ReadEOF, ReadFails, Scan, ScanOver, ReaderCancelled,
     ReaderReports, Deliver, WriteBatch, WriteSep, WriteFails, WriterReports, WriterSeesClose, CopyCancelled
<1> QED BY <1>1, <1>2

LEMMA FrameStays ==
  ASSUME delim' = delim
  PROVE  Sep' = Sep /\ Group' = Group /\ Fixed' = Fixed
BY DEF Sep, Group, Fixed

\* What Scan takes off the buffer.
Left == SubSeq(buf, Token.advance + 1, Len(buf))

LEMMA TokenIs ==
  ASSUME DataOK, PlaceOK
  PROVE  /\ Cuts(Sep, Fixed, delim.index, buf, source # "open", Token, Left)
         /\ Token.token \in Seq(Byte) /\ Left \in Seq(Byte)
<1>1. Framing
  BY FramingHolds DEF DataOK
<1>2. (source # "open") \in BOOLEAN /\ buf \in Seq(Byte)
  BY DEF DataOK
<1> DEFINE e == source # "open"
<1> HIDE DEF e
<1>3. LET t == SplitFunc(buf, e)
          rest == SubSeq(buf, t.advance + 1, Len(buf))
      IN Cuts(Sep, Fixed, delim.index, buf, e, t, rest) /\ t.token \in Seq(Byte) /\ rest \in Seq(Byte)
  <2>1. e \in BOOLEAN
    BY DEF e
  <2> QED BY <1>1, <1>2, <2>1, SplitCuts DEF Framing
<1> QED BY <1>3 DEF e, Token, Left

LEMMA JoinType ==
  ASSUME Sep \in Seq(Byte), NEW ps \in Seq(Seq(Byte))
  PROVE  JoinBytes(ps) \in Seq(Byte)
BY FramesAre, JoinsThenSep

\* A batch that is longer by one piece or message.
LEMMA BatchMore ==
  ASSUME NEW ps \in Seq(Seq(Byte)), NEW p \in Seq(Byte), NEW g \in Nat
  PROVE  /\ Append(ps, p) \in Seq(Seq(Byte)) /\ Len(Append(ps, p)) = Len(ps) + 1 /\ Len(ps) \in Nat
         /\ Append(ps, p) # <<>>
         /\ ~(Len(ps) + 1 >= g) => Len(Append(ps, p)) < g
<1> DEFINE U == Seq(Byte)
<1>1. ps \in Seq(U) /\ p \in U
  OBVIOUS
<1> HIDE DEF U
<1>2. Append(ps, p) \in Seq(U) /\ Len(Append(ps, p)) = Len(ps) + 1 /\ Len(ps) \in Nat
  BY <1>1, OneMore
<1>3. Append(ps, p) # <<>>
  BY <1>1, AppendProperties
<1>4. ~(Len(ps) + 1 >= g) => Len(Append(ps, p)) < g
  <2> DEFINE n == Len(ps)
  <2>1. n \in Nat /\ Len(Append(ps, p)) = n + 1
    BY <1>2
  <2> HIDE DEF n
  <2>2. ~(n + 1 >= g) => n + 1 < g
    BY <2>1
  <2> QED BY <2>1, <2>2 DEF n
<1> QED BY <1>2, <1>3, <1>4 DEF U

LEMMA CopyInitTypes == ASSUME CopyInit PROVE DataOK /\ PlaceOK /\ CountOK
<1>1. delim \in Delims /\ Validate(delim) /\ follow \in BOOLEAN
  BY DEF CopyInit
<1>2. Group \in Nat /\ Group >= 1
  BY <1>1, FramingHolds DEF Framing
<1>3. bytes \in Seq(Byte)
  BY SeqDef, CopyAssumption DEF CopyInit
<1>4. <<>> \in Seq(Byte) /\ <<>> \in Seq(Seq(Byte)) /\ Len(<<>>) = 0
  OBVIOUS
<1>5. DataOK
  BY <1>1, <1>2, <1>3, <1>4 DEF CopyInit, DataOK
<1>6. PlaceOK
  BY DEF CopyInit, PlaceOK
<1>7. CountOK
  BY CopyAssumption DEF CopyInit, CountOK
<1> QED BY <1>5, <1>6, <1>7

LEMMA DataStep ==
  ASSUME DataOK, PlaceOK, [CopyNext]_copyVars
  PROVE  DataOK'
<1> USE DEF DataOK
<1>1. delim' = delim /\ follow' = follow /\ bytes' = bytes
  BY DelimStays
<1>2. Validate(delim)' /\ Group' = Group /\ Sep' = Sep
  BY <1>1, FrameStays DEF Validate
<1>3. Framing
  BY FramingHolds
<1>4. Group \in Nat /\ Group >= 1 /\ Sep \in Seq(Byte)
  BY <1>3 DEF Framing
<1>5. <<>> \in Seq(Byte) /\ <<>> \in Seq(Seq(Byte)) /\ Len(<<>>) = 0 /\ Len(<<>>) < Group
  BY <1>4
<1>6. CASE UNCHANGED <<unread, buf, batch, msg, pieces, jbatch, joined, out, got>>
  BY <1>1, <1>2, <1>6
<1>7. CASE Read
  <2>1. PICK n \in 1..Len(unread) : buf' = buf \o FirstBytes(n, unread) /\ unread' = SubSeq(unread, n + 1, Len(unread))
    BY <1>7 DEF Read
  <2>2. FirstBytes(n, unread) \in Seq(Byte) /\ SubSeq(unread, n + 1, Len(unread)) \in Seq(Byte)
    BY DEF FirstBytes
  <2>3. buf' \in Seq(Byte) /\ unread' \in Seq(Byte)
    BY <2>1, <2>2, ConcatProperties
  <2>4. UNCHANGED <<batch, msg, pieces, jbatch, joined, out, got>>
    BY <1>7 DEF Read, writerVars
  <2> QED BY <1>1, <1>2, <2>3, <2>4
<1>8. CASE Scan
  <2> DEFINE p == Token.token
  <2>1. p \in Seq(Byte) /\ Left \in Seq(Byte)
    BY TokenIs
  <2>2. buf' = Left /\ pieces' = Append(pieces, p)
    BY <1>8 DEF Scan, Left
  <2> HIDE DEF p
  <2>3. Append(pieces, p) \in Seq(Seq(Byte)) /\ Append(batch, p) \in Seq(Seq(Byte))
        /\ (~(Len(batch) + 1 >= Group) => Len(Append(batch, p)) < Group)
    BY <1>4, <2>1, BatchMore
  <2>4. JoinBytes(Append(batch, p)) \in Seq(Byte)
    BY <1>4, <2>3, JoinType
  <2>5. UNCHANGED <<unread, jbatch, joined, out, got>>
    BY <1>8 DEF Scan, writerVars
  <2>6. msg' \in Seq(Byte) /\ batch' \in Seq(Seq(Byte)) /\ Len(batch') < Group
    <3>1. CASE Len(batch) + 1 >= Group
      BY <1>5, <1>8, <2>4, <3>1 DEF Scan, p
    <3>2. CASE ~(Len(batch) + 1 >= Group)
      BY <1>8, <2>3, <3>2 DEF Scan, p
    <3> QED BY <3>1, <3>2
  <2> QED BY <1>1, <1>2, <2>1, <2>2, <2>3, <2>5, <2>6
<1>9. CASE ScanOver
  <2>1. JoinBytes(batch) \in Seq(Byte)
    BY <1>4, JoinType
  <2>2. msg' \in Seq(Byte) /\ batch' \in Seq(Seq(Byte)) /\ Len(batch') < Group
    BY <1>5, <1>9, <2>1 DEF ScanOver
  <2>3. UNCHANGED <<unread, buf, pieces, jbatch, joined, out, got>>
    BY <1>9 DEF ScanOver, writerVars
  <2> QED BY <1>1, <1>2, <2>2, <2>3
<1>10. CASE Deliver
  <2>1. Append(got, msg) \in Seq(Seq(Byte)) /\ Append(jbatch, msg) \in Seq(Seq(Byte))
        /\ (~(Len(jbatch) + 1 >= Group) => Len(Append(jbatch, msg)) < Group)
    BY <1>4, BatchMore
  <2>2. JoinBytes(Append(jbatch, msg)) \in Seq(Byte)
    BY <1>4, <2>1, JoinType
  <2>3. msg' = <<>> /\ got' = Append(got, msg) /\ UNCHANGED <<unread, buf, batch, pieces, out>>
    BY <1>10 DEF Deliver
  <2>4. joined' \in Seq(Byte) /\ jbatch' \in Seq(Seq(Byte)) /\ Len(jbatch') < Group
    BY <1>5, <1>10, <2>1, <2>2 DEF Deliver
  <2> QED BY <1>1, <1>2, <1>5, <2>1, <2>3, <2>4
<1>11. CASE WriteBatch
  <2>1. out \o joined \in Seq(Byte)
    BY ConcatProperties
  <2>2. UNCHANGED <<unread, buf, batch, msg, pieces, jbatch, got>> /\ out' = out \o joined /\ joined' = <<>>
    BY <1>11 DEF WriteBatch, readerVars
  <2> QED BY <1>1, <1>2, <1>5, <2>1, <2>2
<1>12. CASE WriteSep
  <2>1. out \o Sep \in Seq(Byte)
    BY <1>4, ConcatProperties
  <2>2. UNCHANGED <<unread, buf, batch, msg, pieces, jbatch, joined, got>> /\ out' = out \o Sep
    BY <1>12 DEF WriteSep, readerVars
  <2> QED BY <1>1, <1>2, <2>1, <2>2
<1>13. CASE WriteFails
  <2>1. UNCHANGED <<unread, buf, batch, msg, pieces, jbatch, out, got>> /\ joined' = <<>>
    BY <1>13 DEF WriteFails, readerVars
  <2> QED BY <1>1, <1>2, <1>5, <2>1
<1>14. CASE WriterSeesClose
  <2>1. UNCHANGED <<unread, buf, batch, msg, pieces, out, got>> /\ joined' = JoinBytes(jbatch) /\ jbatch' = <<>>
    BY <1>14 DEF WriterSeesClose, readerVars
  <2>2. JoinBytes(jbatch) \in Seq(Byte)
    BY <1>4, JoinType
  <2> QED BY <1>1, <1>2, <1>5, <2>1, <2>2
<1>15. CASE UNCHANGED copyVars \/ ReaderOpens \/ WriterOpens \/ ReadEOF \/ ReadFails \/ ReaderCancelled \/ ReaderReports
            \/ WriterReports \/ CopyCancelled
  <2>1. UNCHANGED <<unread, buf, batch, msg, pieces, jbatch, joined, out, got>>
    BY <1>15 DEF copyVars, copyState, readerVars, writerVars, ReaderOpens, WriterOpens, ReadEOF, ReadFails,
       ReaderCancelled, ReaderReports, WriterReports, CopyCancelled
  <2> QED BY <1>6, <2>1
<1> QED BY <1>7, <1>8, <1>9, <1>10, <1>11, <1>12, <1>13, <1>14, <1>15 DEF CopyNext

LEMMA PlaceStep ==
  ASSUME PlaceOK, runDone \in BOOLEAN, [CopyNext]_copyVars
  PROVE  PlaceOK' /\ runDone' \in BOOLEAN
<1>1. CASE ReaderOpens \/ Read \/ ReadEOF \/ ReadFails \/ Scan \/ ScanOver \/ ReaderCancelled \/ ReaderReports
  BY <1>1 DEF PlaceOK, writerVars, ReaderOpens, Read, ReadEOF, ReadFails, Scan, ScanOver, ReaderCancelled, ReaderReports
<1>2. CASE WriterOpens \/ WriteBatch \/ WriteSep \/ WriteFails \/ WriterReports \/ WriterSeesClose
  BY <1>2 DEF PlaceOK, readerVars, AfterWrite, WriterOpens, WriteBatch, WriteSep, WriteFails, WriterReports,
     WriterSeesClose
<1>3. CASE Deliver
  BY <1>3 DEF PlaceOK, Deliver
<1>4. CASE CopyCancelled \/ UNCHANGED copyVars
  BY <1>4 DEF PlaceOK, CopyCancelled, EndRun, copyVars, copyState, readerVars, writerVars
<1> QED BY <1>1, <1>2, <1>3, <1>4 DEF CopyNext

-----------------------------------------------------------------------------
(* Every failure is told while the run lasts.                              *)

\* One failure more is one that nobody was told of, or the run is over.
Counting ==
  CountOK /\ Told /\ (reader = "open" => source = "open")

LEMMA CountStep ==
  ASSUME PlaceOK, Counting, runDone \in BOOLEAN, [CopyNext]_copyVars
  PROVE  Counting'
<1> DEFINE r == IF reader = "fail" \/ (source = "fault" /\ reader \in {"scan", "send"}) THEN 1 ELSE 0
    w == IF writer \in {"fail", "refused"} THEN 1 ELSE 0
<1>1. r \in {0, 1} /\ w \in {0, 1} /\ Untold = r + w /\ Untold' = r' + w'
  BY DEF Untold
<1>2. MaxFaults \in Nat /\ reported \in Nat /\ faults \in Nat /\ reported <= faults /\ faults <= MaxFaults
      /\ (~runDone => reported + Untold = faults)
  BY CopyAssumption DEF Counting, CountOK, Told
<1>3. CASE UNCHANGED <<runDone, source, reader, writer, faults, reported>>
  BY <1>3 DEF Counting, CountOK, Told, Untold
<1>4. CASE ReaderOpens
  <2>1. UNCHANGED <<runDone, source, writer, reported>> /\ source = "open"
        /\ \/ reader' = "scan" /\ faults' = faults
           \/ faults < MaxFaults /\ reader' = "fail" /\ faults' = faults + 1
    BY <1>4 DEF ReaderOpens, writerVars, Counting
  <2>2. reader = "open"
    BY <1>4 DEF ReaderOpens
  <2>3. r = 0 /\ w' = w /\ r' = IF reader' = "fail" THEN 1 ELSE 0
    BY <2>1, <2>2
  <2> QED BY <1>1, <1>2, <2>1, <2>3 DEF Counting, CountOK, Told
<1>5. CASE ReadFails
  <2>1. UNCHANGED <<runDone, reader, writer, reported>> /\ source = "open" /\ source' = "fault" /\ reader = "scan"
        /\ (runDone \/ faults < MaxFaults) /\ faults' = IF runDone THEN faults ELSE faults + 1
    BY <1>5 DEF ReadFails, Scanning, writerVars
  <2>2. r = 0 /\ w' = w /\ r' = 1
    BY <2>1
  <2> QED BY <1>1, <1>2, <2>1, <2>2 DEF Counting, CountOK, Told
<1>6. CASE ScanOver
  <2>1. UNCHANGED <<runDone, source, writer, faults, reported>> /\ source # "open" /\ reader = "scan"
    BY <1>6 DEF ScanOver, Scanning, writerVars
  <2>2. ~runDone => (source = "fault" => reader' = "fail") /\ (source = "eof" => reader' \in {"send", "closed"})
    BY <1>6 DEF ScanOver
  <2>3. reader' # "open"
    BY <1>6 DEF ScanOver
  <2>4. w' = w /\ (~runDone => r' = r)
    BY <2>1, <2>2 DEF PlaceOK
  <2> QED BY <1>1, <1>2, <2>1, <2>3, <2>4 DEF Counting, CountOK, Told
<1>7. CASE ReaderCancelled
  <2>1. UNCHANGED <<runDone, source, writer, faults, reported>> /\ runDone /\ reader' = "closed"
    BY <1>7 DEF ReaderCancelled, writerVars
  <2> QED BY <1>2, <2>1 DEF Counting, CountOK, Told
<1>8. CASE ReaderReports
  <2>1. UNCHANGED <<runDone, source, writer, faults>> /\ ~runDone /\ reader = "fail" /\ reader' = "closed"
        /\ reported' = reported + 1
    BY <1>8 DEF ReaderReports, writerVars
  <2>2. r = 1 /\ w' = w /\ r' = 0
    BY <2>1
  <2> QED BY <1>1, <1>2, <2>1, <2>2 DEF Counting, CountOK, Told
<1>9. CASE WriterOpens
  <2>1. UNCHANGED <<runDone, source, reader, reported>> /\ writer = "open"
        /\ \/ writer' = "recv" /\ faults' = faults
           \/ faults < MaxFaults /\ writer' = "refused" /\ faults' = faults + 1
    BY <1>9 DEF WriterOpens, readerVars
  <2>2. w = 0 /\ r' = r /\ w' = IF writer' = "refused" THEN 1 ELSE 0
    BY <2>1
  <2> QED BY <1>1, <1>2, <2>1, <2>2 DEF Counting, CountOK, Told
<1>10. CASE WriteFails
  <2>1. UNCHANGED <<runDone, source, reader, reported>> /\ writer \in {"write", "sep"}
        /\ (runDone \/ faults < MaxFaults) /\ faults' = (IF runDone THEN faults ELSE faults + 1)
        /\ writer' = (IF runDone THEN "done" ELSE "fail")
    BY <1>10 DEF WriteFails, readerVars
  <2>2. w = 0 /\ r' = r /\ (~runDone => w' = 1)
    BY <2>1
  <2> QED BY <1>1, <1>2, <2>1, <2>2 DEF Counting, CountOK, Told
<1>11. CASE WriterReports
  <2>1. UNCHANGED <<runDone, source, reader, faults>> /\ writer \in {"fail", "refused"} /\ ~runDone
        /\ reported' = reported + 1 /\ writer' \in {"done", "recv"}
    BY <1>11 DEF WriterReports, readerVars, AfterWrite
  <2>2. w = 1 /\ r' = r /\ w' = 0
    BY <2>1
  <2> QED BY <1>1, <1>2, <2>1, <2>2 DEF Counting, CountOK, Told
<1>12. CASE Scan \/ Deliver \/ WriteBatch \/ WriteSep \/ WriterSeesClose
  <2>1. UNCHANGED <<runDone, source, faults, reported>>
    BY <1>12 DEF Scan, Deliver, WriteBatch, WriteSep, WriterSeesClose, readerVars, writerVars
  <2>2. (reader' = reader \/ (reader \in {"scan", "send"} /\ reader' \in {"scan", "send"}))
    BY <1>12 DEF Scan, Deliver, WriteBatch, WriteSep, WriterSeesClose, readerVars
  <2>3. writer' = writer \/ (writer \in {"recv", "write", "sep"} /\ writer' \in {"recv", "write", "sep", "done"})
    BY <1>12 DEF Scan, Deliver, WriteBatch, WriteSep, WriterSeesClose, writerVars, AfterWrite
  <2>4. r' = r /\ w' = w /\ (reader' = "open" => reader = "open")
    BY <2>1, <2>2, <2>3
  <2> QED BY <1>1, <1>2, <2>1, <2>4 DEF Counting, CountOK, Told
<1>13. CASE CopyCancelled
  <2>1. UNCHANGED <<source, reader, writer, faults, reported>> /\ runDone' = TRUE
    BY <1>13 DEF CopyCancelled, EndRun, readerVars, writerVars
  <2> QED BY <2>1 DEF Counting, CountOK, Told
<1>14. CASE UNCHANGED copyVars \/ Read
  BY <1>3, <1>14 DEF copyVars, copyState, readerVars, writerVars, Read
<1>15. CASE ReadEOF
  <2>1. UNCHANGED <<runDone, reader, writer, faults, reported>> /\ source = "open" /\ source' = "eof" /\ reader = "scan"
    BY <1>15 DEF ReadEOF, Scanning, writerVars
  <2>2. r = 0 /\ r' = 0 /\ w' = w
    BY <2>1
  <2> QED BY <1>1, <1>2, <2>1, <2>2 DEF Counting, CountOK, Told
<1> QED BY <1>4, <1>5, <1>6, <1>7, <1>8, <1>9, <1>10, <1>11, <1>12, <1>13, <1>14, <1>15 DEF CopyNext

-----------------------------------------------------------------------------
(* The steps of a run that nothing disturbs.                               *)

CalmOpens ==
  \/ ReaderOpens /\ reader' = "scan"
  \/ WriterOpens /\ writer' = "recv"
CalmNext ==
  \/ CalmOpens \/ Read \/ ReadEOF \/ Scan \/ ScanOver \/ Deliver \/ WriteBatch \/ WriteSep \/ WriterSeesClose
  \/ UNCHANGED copyVars

LEMMA Calm ==
  ASSUME PlaceOK, Counting, runDone \in BOOLEAN, [CopyNext]_copyVars, Undisturbed'
  PROVE  Undisturbed /\ CalmNext
<1>1. MaxFaults \in Nat /\ reported \in Nat /\ faults \in Nat /\ (~runDone => reported + Untold = faults)
  BY CopyAssumption DEF Counting, CountOK, Told
<1>2. ~runDone' /\ faults' = 0
  BY DEF Undisturbed
<1>3. ~CopyCancelled
  BY <1>2 DEF CopyCancelled, EndRun
<1>4. UNCHANGED runDone
  BY <1>3 DEF CopyNext, ReaderOpens, WriterOpens, Read, ReadEOF, ReadFails, Scan, ScanOver, ReaderCancelled,
     ReaderReports, Deliver, WriteBatch, WriteSep, WriteFails, WriterReports, WriterSeesClose, copyVars
<1>5. ~runDone
  BY <1>2, <1>4
<1>6. faults' \in {faults, faults + 1}
  BY <1>3, <1>5 DEF CopyNext, ReaderOpens, WriterOpens, Read, ReadEOF, ReadFails, Scan, ScanOver, ReaderCancelled,
     ReaderReports, Deliver, WriteBatch, WriteSep, WriteFails, WriterReports, WriterSeesClose, copyVars, copyState
<1>7. faults = 0 /\ faults' = faults
  BY <1>1, <1>2, <1>6
<1>8. Untold \in Nat
  BY DEF Untold
<1>9. Untold = 0
  BY <1>1, <1>5, <1>7, <1>8
<1>10. reader # "fail" /\ writer \notin {"fail", "refused"}
  BY <1>9 DEF Untold
<1>11. ~ReadFails /\ ~WriteFails /\ ~ReaderCancelled /\ ~ReaderReports /\ ~WriterReports
  BY <1>1, <1>5, <1>7, <1>10 DEF ReadFails, WriteFails, ReaderCancelled, ReaderReports, WriterReports
<1>12. (ReaderOpens => reader' = "scan") /\ (WriterOpens => writer' = "recv")
  BY <1>1, <1>7 DEF ReaderOpens, WriterOpens
<1> QED BY <1>3, <1>5, <1>7, <1>11, <1>12 DEF Undisturbed, CalmNext, CalmOpens, CopyNext

\* What is read goes behind what the scanner holds; what is cut goes behind the
\* pieces; and the stream may end in a piece without its separator.
LEMMA StreamRead ==
  ASSUME NEW B, NEW sep, NEW bs, NEW ps, NEW b \in Seq(B), NEW u \in Seq(B), NEW n \in 1..Len(u), NEW e, NEW f,
         Streams(sep, bs, ps, b \o u, e), e <=> f
  PROVE  Streams(sep, bs, ps, (b \o SubSeq(u, 1, n)) \o SubSeq(u, n + 1, Len(u)), f)
<1> DEFINE x == SubSeq(u, 1, n)
    y == SubSeq(u, n + 1, Len(u))
<1>1. x \in Seq(B) /\ y \in Seq(B)
  OBVIOUS
<1>2. x \o y = u
  <2>1. 1 \in 1..(Len(u) + 1) /\ n \in (1 - 1)..Len(u) /\ Len(u) \in n..Len(u)
    OBVIOUS
  <2>2. SubSeq(u, 1, Len(u)) = u
    BY SubSeqFull
  <2> QED BY <2>1, <2>2, ConcatAdjacentSubSeq
<1> HIDE DEF x, y
<1>3. Regroups(b, x, y)
  BY <1>1, Regroup
<1>4. b \o u = (b \o x) \o y
  BY <1>2, <1>3 DEF Regroups
<1> QED BY <1>4 DEF Streams, x, y

LEMMA StreamCut ==
  ASSUME NEW B, NEW sep \in Seq(B), NEW bs, NEW ps \in Seq(Seq(B)), NEW p \in Seq(B), NEW l \in Seq(B), NEW u \in Seq(B),
         NEW e, Streams(sep, bs, ps, ((p \o sep) \o l) \o u, FALSE)
  PROVE  Streams(sep, bs, Append(ps, p), l \o u, e)
<1> DEFINE x == Terms(sep, ps)
    y == p \o sep
    z == l \o u
<1>1. x \in Seq(B)
  BY TermsType
<1>2. y \in Seq(B) /\ z \in Seq(B)
  BY ConcatProperties
<1>3. bs = x \o ((y \o l) \o u)
  BY DEF Streams
<1>4. Framed(sep, ps, p)
  BY TermsMore
<1>5. Terms(sep, Append(ps, p)) = x \o y
  BY <1>4 DEF Framed
<1> HIDE DEF x, y
<1>6. Regroups(y, l, u)
  BY <1>2, Regroup
<1>7. y \o z = (y \o l) \o u
  BY <1>6 DEF Regroups
<1> HIDE DEF z
<1>8. Regroups(x, y, z)
  BY <1>1, <1>2, Regroup
<1>9. bs = (x \o y) \o z
  BY <1>3, <1>7, <1>8 DEF Regroups
<1> QED BY <1>5, <1>9 DEF Streams, z

LEMMA StreamEnds ==
  ASSUME NEW B, NEW sep \in Seq(B), NEW bs, NEW ps \in Seq(Seq(B)), NEW p \in Seq(B), p # <<>>,
         Streams(sep, bs, ps, p \o <<>>, FALSE)
  PROVE  Streams(sep, bs, Append(ps, p), <<>> \o <<>>, TRUE)
<1> DEFINE x == Terms(sep, ps)
<1>1. x \in Seq(B) /\ p \o <<>> = p
  BY TermsType, ConcatEmptySeq
<1>2. bs = x \o p
  BY <1>1 DEF Streams
<1>3. Framed(sep, ps, p)
  BY TermsMore
<1>4. Terms(sep, Append(ps, p)) = x \o (p \o sep)
  BY <1>3 DEF Framed
<1> HIDE DEF x
<1>5. Regroups(x, p, sep)
  BY <1>1, Regroup
<1>6. Terms(sep, Append(ps, p)) = bs \o sep
  BY <1>2, <1>4, <1>5 DEF Regroups
<1>7. bs # <<>>
  <2>1. Len(x \o p) = Len(x) + Len(p)
    BY <1>1, StartsWith
  <2>2. Len(p) \in Nat /\ Len(p) # 0 /\ Len(x) \in Nat
    BY <1>1, EmptySeq
  <2>3. Len(bs) # 0
    BY <1>2, <2>1, <2>2
  <2>4. Len(<<>>) = 0
    OBVIOUS
  <2> QED BY <2>3, <2>4
<1> QED BY <1>6, <1>7 DEF Streams

LEMMA StreamStays ==
  ASSUME NEW sep, NEW bs, NEW ps, NEW rest, NEW e, NEW f, Streams(sep, bs, ps, rest, e), e => f
  PROVE  Streams(sep, bs, ps, rest, f)
BY DEF Streams

LEMMA ExactsMore ==
  ASSUME NEW B, NEW sep, NEW fixed, NEW n, NEW ps \in Seq(B), NEW p \in B, NEW e,
         Exacts(sep, fixed, n, ps, FALSE), Exact(sep, fixed, n, p) \/ (e /\ Ragged(sep, fixed, p))
  PROVE  Exacts(sep, fixed, n, Append(ps, p), e)
<1> DEFINE k == Len(ps)
    qs == Append(ps, p)
<1>1. k \in Nat /\ Len(qs) = k + 1 /\ qs[k + 1] = p /\ \A i \in 1..k : qs[i] = ps[i]
  BY OneMore
<1> HIDE DEF qs
<1>2. ASSUME NEW i \in 1..(k + 1)
      PROVE  Exact(sep, fixed, n, qs[i]) \/ (e /\ i = k + 1 /\ Ragged(sep, fixed, qs[i]))
  <2>1. CASE i = k + 1
    BY <1>1, <2>1
  <2>2. CASE i \in 1..k
    BY <1>1, <2>2 DEF Exacts
  <2> QED BY <1>1, <2>1, <2>2
<1> QED BY <1>1, <1>2 DEF Exacts, qs

LEMMA ExactsStay ==
  ASSUME NEW sep, NEW fixed, NEW n, NEW ps, NEW e, NEW f, Exacts(sep, fixed, n, ps, e), e => f
  PROVE  Exacts(sep, fixed, n, ps, f)
BY DEF Exacts

\* The joiner holds a message more, or joins what it holds; and what is
\* written leaves what is pending.
LEMMA BehindJoined ==
  ASSUME NEW B, NEW sep \in Seq(B), NEW o \in Seq(B), NEW jb \in Seq(Seq(B)), NEW ps, jb # <<>>,
         Behind(sep, o \o <<>>, jb, ps)
  PROVE  Behind(sep, o \o (Joins(sep, jb) \o sep), <<>>, ps)
<1> DEFINE t == Terms(sep, jb)
<1>1. Joins(sep, jb) \o sep = t /\ t \in Seq(B)
  BY JoinsThenSep, TermsType
<1>2. o \o t = Terms(sep, ps)
  BY ConcatEmptySeq DEF Behind
<1> HIDE DEF t
<1>3. o \o t \in Seq(B)
  BY <1>1, ConcatProperties
<1>4. (o \o t) \o <<>> = o \o t
  BY <1>3, ConcatEmptySeq
<1>5. Terms(sep, <<>>) = <<>>
  BY TermsEmpty
<1> QED BY <1>1, <1>2, <1>4, <1>5 DEF Behind

LEMMA BehindMoved ==
  ASSUME NEW B, NEW sep, NEW o \in Seq(B), NEW x \in Seq(B), NEW y \in Seq(B), NEW jb, NEW ps,
         Behind(sep, o \o (x \o y), jb, ps)
  PROVE  Behind(sep, (o \o x) \o y, jb, ps)
<1>1. Regroups(o, x, y)
  BY Regroup
<1> QED BY <1>1 DEF Regroups, Behind

-----------------------------------------------------------------------------
(* The invariant of an undisturbed run is kept.                            *)

LEMMA ReadingStep ==
  ASSUME DataOK, PlaceOK, Reading, CalmNext, CopyNext \/ UNCHANGED copyVars
  PROVE  Reading'
<1>1. Sep' = Sep /\ Fixed' = Fixed /\ delim' = delim /\ bytes' = bytes
  BY DelimStays, FrameStays
<1>2. Framing
  BY FramingHolds DEF DataOK
<1>3. Sep \in Seq(Byte) /\ unread \in Seq(Byte) /\ buf \in Seq(Byte) /\ pieces \in Seq(Seq(Byte))
  BY <1>2 DEF DataOK, Framing
<1>4. CASE UNCHANGED <<unread, buf, source, pieces>>
  BY <1>1, <1>4 DEF Reading, AtEnd
<1>5. CASE Read
  <2>1. PICK n \in 1..Len(unread) : buf' = buf \o SubSeq(unread, 1, n) /\ unread' = SubSeq(unread, n + 1, Len(unread))
    BY <1>5 DEF Read, FirstBytes
  <2>2. source = "open" /\ source' = "open" /\ pieces' = pieces
    BY <1>5 DEF Read
  <2>3. AtEnd' <=> AtEnd
    BY <2>2 DEF AtEnd
  <2>4. Streams(Sep, bytes, pieces, (buf \o SubSeq(unread, 1, n)) \o SubSeq(unread, n + 1, Len(unread)), AtEnd')
    BY <1>3, <2>3, StreamRead DEF Reading
  <2>5. Exacts(Sep, Fixed, delim.index, pieces, AtEnd')
    BY <2>3, ExactsStay DEF Reading
  <2> QED BY <1>1, <2>1, <2>2, <2>4, <2>5 DEF Reading
<1>6. CASE ReadEOF
  <2>1. UNCHANGED <<unread, buf, pieces>> /\ source = "open" /\ source' = "eof" /\ unread = <<>>
    BY <1>6 DEF ReadEOF
  <2>2. AtEnd => AtEnd'
    BY <2>1 DEF AtEnd
  <2>3. Streams(Sep, bytes, pieces, buf \o unread, AtEnd')
    BY <2>2, StreamStays DEF Reading
  <2>4. Exacts(Sep, Fixed, delim.index, pieces, AtEnd')
    BY <2>2, ExactsStay DEF Reading
  <2> QED BY <1>1, <2>1, <2>3, <2>4 DEF Reading
<1>7. CASE Scan
  <2> DEFINE p == Token.token
  <2>1. Cuts(Sep, Fixed, delim.index, buf, source # "open", Token, Left) /\ p \in Seq(Byte) /\ Left \in Seq(Byte)
    BY TokenIs
  <2>2. Token # NoToken /\ buf' = Left /\ pieces' = Append(pieces, p) /\ UNCHANGED <<unread, source>>
    BY <1>7 DEF Scan, Left
  <2>3. buf # <<>>
    BY <2>1, <2>2 DEF Cuts
  <2>4. ~AtEnd
    BY <2>3 DEF AtEnd
  <2>5. Streams(Sep, bytes, pieces, buf \o unread, FALSE) /\ Exacts(Sep, Fixed, delim.index, pieces, FALSE)
    <3>1. Streams(Sep, bytes, pieces, buf \o unread, FALSE)
      BY <2>4 DEF Reading, Streams
    <3>2. Exacts(Sep, Fixed, delim.index, pieces, FALSE)
      BY <2>4 DEF Reading, Exacts
    <3> QED BY <3>1, <3>2
  <2>6. CASE buf = (p \o Sep) \o Left /\ Exact(Sep, Fixed, delim.index, p)
    <3> HIDE DEF p
    <3>1. Streams(Sep, bytes, pieces, ((p \o Sep) \o Left) \o unread, FALSE)
      BY <2>5, <2>6
    <3>2. Streams(Sep, bytes, Append(pieces, p), Left \o unread, AtEnd')
      BY <1>3, <2>1, <3>1, StreamCut
    <3>3. Exacts(Sep, Fixed, delim.index, Append(pieces, p), AtEnd')
      BY <1>3, <2>1, <2>5, <2>6, ExactsMore
    <3> QED BY <1>1, <2>2, <3>2, <3>3 DEF Reading
  <2>7. CASE source # "open" /\ p = buf /\ Left = <<>> /\ Ragged(Sep, Fixed, buf)
    <3>1. source = "eof" /\ unread = <<>>
      BY <2>7 DEF Reading, PlaceOK
    <3>2. AtEnd'
      BY <2>2, <2>7, <3>1 DEF AtEnd
    <3>3. Streams(Sep, bytes, pieces, p \o <<>>, FALSE)
      BY <2>5, <2>7, <3>1
    <3>4. Streams(Sep, bytes, Append(pieces, p), <<>> \o <<>>, TRUE)
      <4> HIDE DEF p
      <4> QED BY <1>3, <2>1, <2>3, <2>7, <3>3, StreamEnds
    <3>5. Exacts(Sep, Fixed, delim.index, Append(pieces, p), TRUE)
      <4> HIDE DEF p
      <4> QED BY <1>3, <2>1, <2>5, <2>7, ExactsMore
    <3>6. Streams(Sep, bytes, Append(pieces, p), <<>> \o <<>>, AtEnd')
          /\ Exacts(Sep, Fixed, delim.index, Append(pieces, p), AtEnd')
      BY <3>2, <3>4, <3>5, StreamStays, ExactsStay
    <3> QED BY <1>1, <2>2, <2>7, <3>1, <3>6 DEF Reading
  <2> QED BY <2>1, <2>2, <2>6, <2>7 DEF Cuts
<1>8. CASE CalmOpens \/ ScanOver \/ Deliver \/ WriteBatch \/ WriteSep \/ WriterSeesClose \/ UNCHANGED copyVars
  <2>1. UNCHANGED <<unread, buf, source, pieces>>
    BY <1>8 DEF CalmOpens, ReaderOpens, WriterOpens, ScanOver, Deliver, WriteBatch, WriteSep, WriterSeesClose,
       copyVars, copyState, readerVars
  <2> QED BY <1>4, <2>1
<1> QED BY <1>5, <1>6, <1>7, <1>8 DEF CalmNext

LEMMA SendingStep ==
  ASSUME DataOK, PlaceOK, Reading, Sending, CalmNext, CopyNext \/ UNCHANGED copyVars
  PROVE  Sending'
<1>1. Sep' = Sep /\ Group' = Group
  BY DelimStays, FrameStays
<1>2. Framing
  BY FramingHolds DEF DataOK
<1>3. Sep \in Seq(Byte) /\ Group \in Nat /\ Group >= 1 /\ pieces \in Seq(Seq(Byte)) /\ batch \in Seq(Seq(Byte))
      /\ got \in Seq(Seq(Byte)) /\ msg \in Seq(Byte) /\ AtEnd \in BOOLEAN /\ AtEnd' \in BOOLEAN
  BY <1>2 DEF DataOK, Framing, AtEnd
<1>4. Sent \in Seq(Seq(Byte))
  <2>1. Append(got, msg) \in Seq(Seq(Byte))
    BY <1>3, BatchMore
  <2> QED BY <1>3, <2>1 DEF Sent
<1>5. CASE UNCHANGED <<pieces, batch>> /\ Sent' = Sent /\ (AtEnd => AtEnd') /\ (reader' = "closed" => reader = "closed")
  <2>1. Grouped(Sep, Group, pieces, Sent, batch, AtEnd')
    BY <1>3, <1>5, GroupStays DEF Sending
  <2> QED BY <1>1, <1>5, <2>1 DEF Sending
<1>6. CASE Scan
  <2> DEFINE p == Token.token
      more == Append(batch, p)
  <2>1. Cuts(Sep, Fixed, delim.index, buf, source # "open", Token, Left) /\ p \in Seq(Byte)
    BY TokenIs
  <2>2. Token # NoToken /\ reader = "scan" /\ pieces' = Append(pieces, p) /\ got' = got
    BY <1>6 DEF Scan, writerVars
  <2>3. buf # <<>>
    BY <2>1, <2>2 DEF Cuts
  <2>4. ~AtEnd /\ Sent = got
    BY <2>2, <2>3 DEF AtEnd, Sent
  <2>5. Grouped(Sep, Group, pieces, got, batch, FALSE)
    BY <1>3, <2>4, GroupStays DEF Sending
  <2>6. more \in Seq(Seq(Byte)) /\ more # <<>> /\ Len(more) = Len(batch) + 1 /\ Len(batch) \in Nat
    BY <1>3, <2>1, BatchMore
  <2>7. IF Len(batch) + 1 >= Group
        THEN reader' = "send" /\ msg' = Joins(Sep, more) /\ batch' = <<>>
        ELSE batch' = more /\ reader' = "scan"
    <3>1. JoinBytes(more) = Joins(Sep, more)
      BY FramesAre
    <3> QED BY <1>6, <2>2, <3>1 DEF Scan
  <2> HIDE DEF p, more
  <2>8. Grouped(Sep, Group, Append(pieces, p), got, more, FALSE)
    BY <1>3, <2>1, <2>5, GroupGrows DEF more
  <2>9. Append(pieces, p) \in Seq(Seq(Byte))
    BY <1>3, <2>1, BatchMore
  <2>10. CASE Len(batch) + 1 >= Group
    <3>1. Len(more) = Group
      BY <1>3, <2>6, <2>10 DEF DataOK
    <3>2. Grouped(Sep, Group, Append(pieces, p), Append(got, Joins(Sep, more)), <<>>, AtEnd')
      BY <1>3, <2>6, <2>8, <2>9, <3>1, GroupCloses
    <3>3. Sent' = Append(got, Joins(Sep, more)) /\ batch' = <<>> /\ reader' # "closed"
      BY <2>2, <2>7, <2>10 DEF Sent
    <3> QED BY <1>1, <2>2, <3>2, <3>3 DEF Sending
  <2>11. CASE ~(Len(batch) + 1 >= Group)
    <3>1. Grouped(Sep, Group, Append(pieces, p), got, more, AtEnd')
      BY <1>3, <2>8, GroupStays
    <3>2. Sent' = got /\ batch' = more /\ reader' # "closed"
      BY <2>2, <2>7, <2>11 DEF Sent
    <3> QED BY <1>1, <2>2, <3>1, <3>2 DEF Sending
  <2> QED BY <2>10, <2>11
<1>7. CASE ScanOver
  <2>1. reader = "scan" /\ Token = NoToken /\ source # "open" /\ UNCHANGED <<unread, buf, source, pieces, got>>
    BY <1>7 DEF ScanOver, Scanning, writerVars
  <2>2. source = "eof" /\ unread = <<>>
    BY <2>1 DEF Reading, PlaceOK
  <2>3. buf = <<>>
    <3>1. Cuts(Sep, Fixed, delim.index, buf, source # "open", Token, Left)
      BY TokenIs
    <3> QED BY <2>1, <3>1 DEF Cuts
  <2>4. AtEnd /\ AtEnd' /\ Sent = got
    BY <2>1, <2>2, <2>3 DEF AtEnd, Sent
  <2>5. Grouped(Sep, Group, pieces, got, batch, AtEnd)
    BY <2>4 DEF Sending
  <2>6. CASE batch = <<>>
    <3>1. reader' = "closed" /\ UNCHANGED <<msg, batch>>
      BY <1>7, <2>2, <2>6 DEF ScanOver
    <3>2. Sent' = got /\ (AtEnd' <=> AtEnd)
      BY <2>1, <2>4, <3>1 DEF Sent
    <3>3. Grouped(Sep, Group, pieces, got, batch, AtEnd')
      BY <1>3, <2>5, <3>2, GroupStays
    <3> QED BY <1>1, <2>1, <2>4, <2>6, <3>1, <3>2, <3>3 DEF Sending
  <2>7. CASE batch # <<>>
    <3>1. reader' = "send" /\ msg' = JoinBytes(batch) /\ batch' = <<>>
      BY <1>7, <2>2, <2>7 DEF ScanOver
    <3>2. Sent' = Append(got, Joins(Sep, batch))
      BY <2>1, <3>1, FramesAre DEF Sent
    <3>3. Grouped(Sep, Group, pieces, Append(got, Joins(Sep, batch)), <<>>, AtEnd')
      <4>1. Len(batch) < Group /\ AtEnd'
        BY <2>4 DEF DataOK
      <4> QED BY <1>3, <2>5, <2>7, <4>1, GroupCloses
    <3> QED BY <1>1, <2>1, <3>1, <3>2, <3>3 DEF Sending
  <2> QED BY <2>6, <2>7
<1>8. CASE Deliver
  BY <1>5, <1>8 DEF Deliver, Sent, AtEnd
<1>9. CASE Read
  <2>1. source = "open" /\ UNCHANGED <<reader, msg, got, batch, pieces>>
    BY <1>9 DEF Read, writerVars
  <2> QED BY <1>5, <2>1 DEF Sent, AtEnd
<1>10. CASE ReadEOF \/ WriteBatch \/ WriteSep \/ WriterSeesClose \/ UNCHANGED copyVars
  <2>1. UNCHANGED <<unread, buf, reader, msg, got, batch, pieces>> /\ (source = "eof" => source' = "eof")
    BY <1>10 DEF ReadEOF, WriteBatch, WriteSep, WriterSeesClose, copyVars, copyState, readerVars, writerVars
  <2> QED BY <1>5, <2>1 DEF Sent, AtEnd
<1>11. CASE CalmOpens
  <2>1. UNCHANGED <<unread, buf, source, msg, got, batch, pieces>> /\ (reader' = reader \/ (reader = "open" /\ reader' = "scan"))
    BY <1>11 DEF CalmOpens, ReaderOpens, WriterOpens, readerVars, writerVars
  <2> QED BY <1>5, <2>1 DEF Sent, AtEnd
<1> QED BY <1>6, <1>7, <1>8, <1>9, <1>10, <1>11 DEF CalmNext

LEMMA WritingStep ==
  ASSUME DataOK, PlaceOK, Undisturbed, Writing, CalmNext, CopyNext \/ UNCHANGED copyVars
  PROVE  Writing'
<1>1. Sep' = Sep /\ Group' = Group
  BY DelimStays, FrameStays
<1>2. Framing
  BY FramingHolds DEF DataOK
<1>3. Sep \in Seq(Byte) /\ Group \in Nat /\ jbatch \in Seq(Seq(Byte)) /\ got \in Seq(Seq(Byte)) /\ msg \in Seq(Byte)
      /\ out \in Seq(Byte) /\ joined \in Seq(Byte) /\ <<>> \in Seq(Byte)
  BY <1>2 DEF DataOK, Framing
<1>4. CASE UNCHANGED writerVars /\ (reader' = reader \/ reader # "closed")
  BY <1>1, <1>4 DEF Writing, Pending, writerVars
<1>5. CASE Read \/ ReadEOF \/ Scan \/ ScanOver \/ UNCHANGED copyVars \/ ReaderOpens
  <2>1. UNCHANGED writerVars /\ (reader' = reader \/ reader # "closed")
    BY <1>5 DEF Read, ReadEOF, Scan, ScanOver, Scanning, ReaderOpens, copyVars, copyState, readerVars, writerVars
  <2> QED BY <1>4, <2>1
<1>6. CASE WriterOpens /\ writer' = "recv"
  <2>1. UNCHANGED <<reader, jbatch, joined, closing, out, got>> /\ writer = "open"
    BY <1>6 DEF WriterOpens, readerVars
  <2>2. Pending = <<>> /\ Pending' = <<>>
    BY <1>6, <2>1 DEF Pending
  <2> QED BY <1>1, <1>6, <2>1, <2>2 DEF Writing
<1>7. CASE Deliver
  <2> DEFINE more == Append(jbatch, msg)
  <2>1. writer = "recv" /\ ~closing /\ closing' = closing /\ out' = out /\ got' = Append(got, msg)
    BY <1>7 DEF Deliver
  <2>2. IF Len(jbatch) + 1 >= Group
        THEN writer' = "write" /\ joined' = Joins(Sep, more) /\ jbatch' = <<>>
        ELSE writer' = "recv" /\ jbatch' = more
    <3>1. JoinBytes(more) = Joins(Sep, more)
      BY FramesAre
    <3> QED BY <1>7, <2>1, <3>1 DEF Deliver
  <2>3. Behind(Sep, out \o <<>>, jbatch, got)
    BY <2>1 DEF Writing, Pending
  <2>4. out \o <<>> \in Seq(Byte)
    BY <1>3, ConcatProperties
  <2>5. more \in Seq(Seq(Byte)) /\ more # <<>>
    BY <1>3, BatchMore
  <2>6. Behind(Sep, out \o <<>>, more, Append(got, msg))
    <3> DEFINE a == out \o <<>>
    <3> HIDE DEF a
    <3>1. Behind(Sep, a, Append(jbatch, msg), Append(got, msg))
      BY <1>3, <2>3, <2>4, BehindMore DEF a
    <3> QED BY <3>1 DEF a
  <2> HIDE DEF more
  <2>7. ~(closing' \/ writer' = "done")
    BY <2>1, <2>2
  <2>8. CASE Len(jbatch) + 1 >= Group
    <3>1. Behind(Sep, out \o (Joins(Sep, more) \o Sep), <<>>, Append(got, msg))
      BY <1>3, <2>5, <2>6, BehindJoined
    <3>2. Pending' = Joins(Sep, more) \o Sep /\ jbatch' = <<>>
      BY <1>1, <2>2, <2>8 DEF Pending
    <3> QED BY <1>1, <2>1, <2>7, <3>1, <3>2 DEF Writing
  <2>9. CASE ~(Len(jbatch) + 1 >= Group)
    <3>1. Pending' = <<>> /\ jbatch' = more
      BY <2>2, <2>9 DEF Pending
    <3> QED BY <1>1, <2>1, <2>6, <2>7, <3>1 DEF Writing
  <2> QED BY <2>8, <2>9
<1>8. CASE WriteBatch
  <2>1. UNCHANGED <<reader, jbatch, closing, got>> /\ out' = out \o joined /\ writer = "write"
        /\ writer' = (IF Sep # <<>> THEN "sep" ELSE IF closing THEN "done" ELSE "recv")
    BY <1>8 DEF WriteBatch, AfterWrite, readerVars
  <2>2. Behind(Sep, out \o (joined \o Sep), jbatch, got)
    BY <2>1 DEF Writing, Pending
  <2>3. Behind(Sep, (out \o joined) \o Sep, jbatch, got)
    BY <1>3, <2>2, BehindMoved
  <2>4. Pending' = Sep
    BY <1>1, <2>1 DEF Pending
  <2>5. writer' = "done" => closing
    BY <2>1
  <2> QED BY <1>1, <2>1, <2>3, <2>4, <2>5 DEF Writing
<1>9. CASE WriteSep
  <2>1. UNCHANGED <<reader, jbatch, closing, got>> /\ out' = out \o Sep /\ writer = "sep"
        /\ writer' = (IF closing THEN "done" ELSE "recv")
    BY <1>9 DEF WriteSep, AfterWrite, readerVars
  <2>2. Behind(Sep, out \o (Sep \o <<>>), jbatch, got)
    BY <1>3, <2>1, ConcatEmptySeq DEF Writing, Pending
  <2>3. Behind(Sep, (out \o Sep) \o <<>>, jbatch, got)
    BY <1>3, <2>2, BehindMoved
  <2>4. Pending' = <<>>
    BY <2>1 DEF Pending
  <2>5. writer' = "done" => closing
    BY <2>1
  <2> QED BY <1>1, <2>1, <2>3, <2>4, <2>5 DEF Writing
<1>10. CASE WriterSeesClose
  <2>1. UNCHANGED <<reader, out, got>> /\ writer = "recv" /\ reader = "closed" /\ joined' = Joins(Sep, jbatch) /\ jbatch' = <<>>
        /\ writer' = (IF jbatch = <<>> THEN "done" ELSE "write")
    BY <1>10, FramesAre DEF WriterSeesClose, readerVars, Undisturbed
  <2>2. Behind(Sep, out \o <<>>, jbatch, got)
    BY <2>1 DEF Writing, Pending
  <2>3. CASE jbatch = <<>>
    <3>1. Pending' = <<>>
      BY <2>1, <2>3 DEF Pending
    <3> QED BY <1>1, <2>1, <2>2, <2>3, <3>1 DEF Writing
  <2>4. CASE jbatch # <<>>
    <3>1. Behind(Sep, out \o (Joins(Sep, jbatch) \o Sep), <<>>, got)
      BY <1>3, <2>2, <2>4, BehindJoined
    <3>2. Pending' = Joins(Sep, jbatch) \o Sep
      BY <1>1, <2>1, <2>4 DEF Pending
    <3> QED BY <1>1, <2>1, <3>1, <3>2 DEF Writing
  <2> QED BY <2>3, <2>4
<1> QED BY <1>5, <1>6, <1>7, <1>8, <1>9, <1>10 DEF CalmNext, CalmOpens

-----------------------------------------------------------------------------
(* What the invariant says of the run.                                     *)

\* What is cut, sent, received and written starts what comes before it.
Begins(a, c) == \E z \in Seq(Byte) : c = a \o z

LEMMA BeginsLonger ==
  ASSUME NEW a \in Seq(Byte), NEW b \in Seq(Byte), NEW c \in Seq(Byte), Begins(a, b), Begins(b, c)
  PROVE  Begins(a, c)
<1>1. PICK y \in Seq(Byte) : b = a \o y
  BY DEF Begins
<1>2. PICK z \in Seq(Byte) : c = b \o z
  BY DEF Begins
<1>3. y \o z \in Seq(Byte) /\ c = a \o (y \o z)
  BY <1>1, <1>2, ConcatProperties, ConcatAssociative
<1> QED BY <1>3 DEF Begins

LEMMA BeginsPrefix ==
  ASSUME NEW a \in Seq(Byte), NEW c, Begins(a, c)
  PROVE  IsPrefix(a, c)
<1>1. PICK z \in Seq(Byte) : c = a \o z
  BY DEF Begins
<1> QED BY <1>1, StartsWith

LEMMA BehindBegins ==
  ASSUME NEW sep \in Seq(Byte), NEW a, NEW rest \in Seq(Seq(Byte)), NEW ps, Behind(sep, a, rest, ps)
  PROVE  Begins(a, Terms(sep, ps))
<1>1. Terms(sep, rest) \in Seq(Byte)
  BY TermsType
<1> QED BY <1>1 DEF Begins, Behind

\* The part of the stream that was cut.
LEMMA StreamTaken ==
  ASSUME NEW sep \in Seq(Byte), NEW bs \in Seq(Byte), NEW ps \in Seq(Seq(Byte)), NEW b \in Seq(Byte), NEW u \in Seq(Byte),
         NEW e, Streams(sep, bs, ps, b \o u, e), e => b = <<>> /\ u = <<>>
  PROVE  LET taken == SubSeq(bs, 1, Len(bs) - Len(u) - Len(b))
         IN Terms(sep, ps) = taken \/ (e /\ Terms(sep, ps) = taken \o sep)
<1> DEFINE x == Terms(sep, ps)
    taken == SubSeq(bs, 1, Len(bs) - Len(u) - Len(b))
<1>1. x \in Seq(Byte) /\ Len(x) \in Nat /\ Len(b) \in Nat /\ Len(u) \in Nat /\ Len(bs) \in Nat
  BY TermsType
<1>2. b \o u \in Seq(Byte) /\ Len(b \o u) = Len(b) + Len(u)
  BY StartsWith
<1> DEFINE y == b \o u
<1>3. bs = x \o y \/ (e /\ x = bs \o sep)
  BY DEF Streams
<1> HIDE DEF x, y
<1>4. CASE bs = x \o y
  <2>1. SubSeq(bs, 1, Len(x)) = x /\ Len(bs) = Len(x) + Len(y)
    BY <1>1, <1>2, <1>4, StartsWith DEF y
  <2>2. Len(bs) - Len(u) - Len(b) = Len(x)
    BY <1>1, <1>2, <2>1 DEF y
  <2> QED BY <2>1, <2>2 DEF x
<1>5. CASE e /\ x = bs \o sep
  <2>1. Len(b) = 0 /\ Len(u) = 0
    BY <1>5
  <2>2. Len(bs) - Len(u) - Len(b) = Len(bs)
    BY <1>1, <2>1
  <2>3. taken = bs
    BY <2>2, SubSeqFull
  <2> QED BY <1>5, <2>3 DEF x
<1> QED BY <1>3, <1>4, <1>5

LEMMA PiecesHold ==
  ASSUME DataOK, Undisturbed => Reading
  PROVE  PiecesAreExact
<1> SUFFICES ASSUME Undisturbed
             PROVE  /\ Terminated(pieces) = Taken \/ (source = "eof" /\ Terminated(pieces) = Taken \o Sep)
                    /\ \A i \in 1..Len(pieces) :
                         IF Fixed THEN Len(pieces[i]) = delim.index \/ (source = "eof" /\ i = Len(pieces))
                         ELSE \/ Index(pieces[i] \o Sep) = Len(pieces[i]) + 1
                              \/ source = "eof" /\ i = Len(pieces) /\ Occurrences(pieces[i]) = {}
  BY DEF PiecesAreExact
<1>1. Framing
  BY FramingHolds DEF DataOK
<1>2. Sep \in Seq(Byte) /\ bytes \in Seq(Byte) /\ unread \in Seq(Byte) /\ buf \in Seq(Byte) /\ pieces \in Seq(Seq(Byte))
  BY <1>1 DEF DataOK, Framing
<1>3. AtEnd => source = "eof" /\ buf = <<>> /\ unread = <<>>
  BY DEF AtEnd
<1>4. Terminated(pieces) = Taken \/ (source = "eof" /\ Terminated(pieces) = Taken \o Sep)
  <2>1. Terms(Sep, pieces) = Taken \/ (AtEnd /\ Terms(Sep, pieces) = Taken \o Sep)
    BY <1>2, <1>3, StreamTaken DEF Reading, Taken
  <2> QED BY <1>3, <2>1, FramesAre
<1>5. ASSUME NEW i \in 1..Len(pieces)
      PROVE  IF Fixed THEN Len(pieces[i]) = delim.index \/ (source = "eof" /\ i = Len(pieces))
             ELSE \/ Index(pieces[i] \o Sep) = Len(pieces[i]) + 1
                  \/ source = "eof" /\ i = Len(pieces) /\ Occurrences(pieces[i]) = {}
  <2> DEFINE p == pieces[i]
  <2>1. Exact(Sep, Fixed, delim.index, p) \/ (AtEnd /\ i = Len(pieces) /\ Ragged(Sep, Fixed, p))
    BY DEF Reading, Exacts
  <2>2. Index(p \o Sep) = First(Sep, p \o Sep) /\ Occurrences(p) = Occ(Sep, p)
    BY OccAre
  <2> HIDE DEF p
  <2>3. IF Fixed THEN Len(p) = delim.index \/ (source = "eof" /\ i = Len(pieces))
        ELSE \/ Index(p \o Sep) = Len(p) + 1
             \/ source = "eof" /\ i = Len(pieces) /\ Occurrences(p) = {}
    BY <1>3, <2>1, <2>2 DEF Exact, Ragged
  <2> QED BY <2>3 DEF p
<1> QED BY <1>4, <1>5

LEMMA GroupsHold ==
  ASSUME DataOK, Undisturbed => Sending
  PROVE  GroupsAreFull
<1> DEFINE members(i) == SubSeq(pieces, Group * (i - 1) + 1, IF Group * i <= Len(pieces) THEN Group * i ELSE Len(pieces))
<1> SUFFICES ASSUME Undisturbed
             PROVE  /\ \A i \in 1..Len(Sent) : Sent[i] = JoinBytes(members(i))
                    /\ \A i \in 1..Len(Sent) : Len(members(i)) = Group \/ (source = "eof" /\ i = Len(Sent))
  BY DEF GroupsAreFull, Sent
<1>1. Framing
  BY FramingHolds DEF DataOK
<1>2. Group \in Nat /\ Group >= 1 /\ pieces \in Seq(Seq(Byte)) /\ batch \in Seq(Seq(Byte)) /\ AtEnd \in BOOLEAN
  BY <1>1 DEF DataOK, Framing, AtEnd
<1>3. Sent \in Seq(Seq(Byte))
  <2>1. Append(got, msg) \in Seq(Seq(Byte)) /\ got \in Seq(Seq(Byte))
    BY <1>2, BatchMore DEF DataOK
  <2> QED BY <2>1 DEF Sent
<1>4. Grouped(Sep, Group, pieces, Sent, batch, AtEnd)
  BY DEF Sending
<1>5. \A i : members(i) = Members(Group, pieces, i)
  BY DEF Members
<1> HIDE DEF members
<1>6. ASSUME NEW i \in 1..Len(Sent) PROVE Sent[i] = JoinBytes(members(i))
  <2>1. Sent[i] = Joins(Sep, Members(Group, pieces, i))
    BY <1>4 DEF Grouped, Filled
  <2> QED BY <1>5, <2>1, FramesAre
<1>7. \A i \in 1..Len(Sent) : Len(Members(Group, pieces, i)) = Group \/ (AtEnd /\ i = Len(Sent))
  BY <1>2, <1>3, <1>4, GroupsFull
<1>8. AtEnd => source = "eof"
  BY DEF AtEnd
<1> QED BY <1>5, <1>6, <1>7, <1>8

LEMMA FaithfulHolds ==
  ASSUME DataOK, Undisturbed => Reading /\ Sending /\ Writing
  PROVE  CopyIsFaithful
<1> SUFFICES ASSUME Undisturbed
             PROVE  IsPrefix(out, bytes \o Sep)
                    /\ (writer = "done" => out = bytes \/ (bytes # <<>> /\ out = bytes \o Sep))
  BY DEF CopyIsFaithful
<1>1. Framing
  BY FramingHolds DEF DataOK
<1>2. Sep \in Seq(Byte) /\ bytes \in Seq(Byte) /\ unread \in Seq(Byte) /\ buf \in Seq(Byte) /\ pieces \in Seq(Seq(Byte))
      /\ batch \in Seq(Seq(Byte)) /\ jbatch \in Seq(Seq(Byte)) /\ got \in Seq(Seq(Byte)) /\ msg \in Seq(Byte)
      /\ out \in Seq(Byte) /\ joined \in Seq(Byte) /\ <<>> \in Seq(Byte)
  BY <1>1 DEF DataOK, Framing
<1>3. Sent \in Seq(Seq(Byte)) /\ (Sent = got \/ Sent = Append(got, msg))
  <2>1. Append(got, msg) \in Seq(Seq(Byte))
    BY <1>2, BatchMore
  <2> QED BY <1>2, <2>1 DEF Sent
<1> DEFINE tp == Terms(Sep, pieces)
    ts == Terms(Sep, Sent)
    tg == Terms(Sep, got)
    tj == Terms(Sep, jbatch)
    whole == bytes \o Sep
    op == out \o Pending
<1>4. tp \in Seq(Byte) /\ ts \in Seq(Byte) /\ tg \in Seq(Byte) /\ tj \in Seq(Byte)
  BY <1>2, <1>3, TermsType
<1>5. Pending \in Seq(Byte)
  <2>1. joined \o Sep \in Seq(Byte)
    BY <1>2, ConcatProperties
  <2> QED BY <1>2, <2>1 DEF Pending
<1>6. whole \in Seq(Byte) /\ op \in Seq(Byte) /\ buf \o unread \in Seq(Byte)
  BY <1>2, <1>5, ConcatProperties
<1>7. Behind(Sep, ts, batch, pieces) /\ Behind(Sep, op, jbatch, got)
  BY DEF Sending, Grouped, Carried, Writing
<1>8. bytes = tp \o (buf \o unread) \/ (bytes # <<>> /\ tp = whole)
  BY DEF Reading, Streams
<1>9. Begins(out, op) /\ Begins(bytes, whole)
  BY <1>2, <1>5 DEF Begins
<1>10. tg \o <<>> = tg /\ whole \o <<>> = whole
  BY <1>4, <1>6, ConcatEmptySeq
<1>11. Begins(tg, ts)
  <2>1. CASE Sent = got
    BY <1>2, <1>10, <2>1 DEF Begins
  <2>2. CASE Sent = Append(got, msg)
    <3>1. Framed(Sep, got, msg) /\ msg \o Sep \in Seq(Byte)
      BY <1>2, TermsMore, ConcatProperties
    <3> QED BY <2>2, <3>1 DEF Framed, Begins
  <2> QED BY <1>3, <2>1, <2>2
<1>12. Begins(ts, tp) /\ Begins(op, tg)
  BY <1>2, <1>7, BehindBegins
<1> HIDE DEF tp, ts, tg, tj, whole, op
<1>13. Begins(tp, whole)
  <2>1. CASE bytes = tp \o (buf \o unread)
    <3>1. Begins(tp, bytes)
      BY <1>6, <2>1 DEF Begins
    <3> QED BY <1>2, <1>4, <1>6, <1>9, <3>1, BeginsLonger
  <2>2. CASE tp = whole
    BY <1>2, <1>10, <2>2 DEF Begins
  <2> QED BY <1>8, <2>1, <2>2
<1>14. IsPrefix(out, whole)
  <2>1. Begins(out, tg)
    BY <1>2, <1>4, <1>6, <1>9, <1>12, BeginsLonger
  <2>2. Begins(out, ts)
    BY <1>2, <1>4, <1>11, <2>1, BeginsLonger
  <2>3. Begins(out, tp)
    BY <1>2, <1>4, <1>12, <2>2, BeginsLonger
  <2>4. Begins(out, whole)
    BY <1>2, <1>4, <1>6, <1>13, <2>3, BeginsLonger
  <2> QED BY <1>2, <2>4, BeginsPrefix
<1>15. ASSUME writer = "done" PROVE out = bytes \/ (bytes # <<>> /\ out = whole)
  <2>1. reader = "closed" /\ jbatch = <<>> /\ batch = <<>> /\ Sent = got /\ Pending = <<>> /\ AtEnd
    BY <1>15 DEF Writing, Sending, Sent, Pending
  <2>2. Terms(Sep, <<>>) = <<>>
    BY TermsEmpty
  <2>3. out \o <<>> = out /\ tp \o <<>> = tp /\ <<>> \o <<>> = <<>> /\ buf = <<>> /\ unread = <<>>
    BY <1>2, <1>4, <2>1, ConcatEmptySeq DEF AtEnd
  <2>4. out = tg
    BY <1>7, <2>1, <2>2, <2>3 DEF Behind, op, tg
  <2>5. ts = tg /\ ts \o <<>> = tp
    BY <1>7, <2>1, <2>2 DEF Behind, ts, tg, tp
  <2>6. tg = tp
    BY <1>10, <2>5
  <2> QED BY <1>8, <2>3, <2>4, <2>6
<1> QED BY <1>14, <1>15 DEF whole

LEMMA FaultsHold ==
  ASSUME CountOK, Told
  PROVE  FaultsAreReported
<1> SUFFICES ASSUME ~runDone, reader = "closed", writer = "done" PROVE reported = faults
  BY DEF FaultsAreReported
<1>1. Untold = 0
  BY DEF Untold
<1> QED BY <1>1 DEF Told, CountOK

-----------------------------------------------------------------------------
(* The theorem about a copy.                                               *)

LEMMA CopyInitHolds == ASSUME CopyInit PROVE CopyIInv
<1>1. DataOK /\ PlaceOK /\ CountOK
  BY CopyInitTypes
<1>2. CopyTypeOK /\ runDone \in BOOLEAN /\ (reader = "open" => source = "open")
  BY <1>1 DEF CopyTypeOK, DataOK, PlaceOK, CountOK, CopyInit
<1>3. Told
  BY DEF CopyInit, Told, Untold
<1>4. Framing
  BY FramingHolds DEF CopyInit
<1>5. bytes \in Seq(Byte) /\ Group \in Nat /\ Len(<<>>) = 0 /\ <<>> \in Seq(Byte)
  BY <1>1, <1>4 DEF DataOK, Framing
<1>6. Terms(Sep, <<>>) = <<>> /\ Joins(Sep, <<>>) = <<>>
  BY TermsEmpty
<1>7. /\ unread = bytes /\ buf = <<>> /\ source = "open" /\ batch = <<>> /\ pieces = <<>> /\ jbatch = <<>> /\ got = <<>>
      /\ out = <<>> /\ Sent = <<>> /\ Pending = <<>> /\ reader = "open" /\ writer = "open" /\ ~closing
  BY DEF CopyInit, Sent, Pending
<1>8. Reading
  <2>1. <<>> \o (<<>> \o bytes) = bytes
    BY <1>5, ConcatEmptySeq
  <2>2. Streams(Sep, bytes, <<>>, <<>> \o bytes, AtEnd)
    BY <1>6, <2>1 DEF Streams
  <2>3. Exacts(Sep, Fixed, delim.index, <<>>, AtEnd)
    BY <1>5 DEF Exacts
  <2> QED BY <1>7, <2>2, <2>3 DEF Reading
<1>9. <<>> \o <<>> = <<>>
  OBVIOUS
<1>10. Sending
  <2>1. Filled(Sep, Group, <<>>, <<>>)
    BY <1>5 DEF Filled
  <2>2. Carried(Sep, <<>>, <<>>, <<>>)
    BY <1>6, <1>9 DEF Carried, Behind
  <2>3. Sized(Group, <<>>, <<>>, <<>>, AtEnd)
    <3>1. Group * Len(<<>>) = 0
      BY <1>5
    <3>2. SubSeq(<<>>, 0 + 1, 0) = <<>>
      BY <1>5, SubSeqFull
    <3> QED BY <1>5, <3>1, <3>2 DEF Sized
  <2> QED BY <1>7, <2>1, <2>2, <2>3 DEF Sending, Grouped
<1>11. Writing
  <2>1. Behind(Sep, <<>> \o <<>>, <<>>, <<>>)
    BY <1>6, <1>9 DEF Behind
  <2> QED BY <1>7, <2>1 DEF Writing
<1> QED BY <1>2, <1>3, <1>8, <1>10, <1>11 DEF CopyIInv

LEMMA CopyStepHolds == ASSUME CopyIInv, [CopyNext]_copyVars PROVE CopyIInv'
<1>1. DataOK /\ PlaceOK /\ CountOK /\ Counting /\ runDone \in BOOLEAN
  BY TypeParts DEF CopyIInv, Counting
<1>2. DataOK'
  BY <1>1, DataStep
<1>3. PlaceOK' /\ runDone' \in BOOLEAN
  BY <1>1, PlaceStep
<1>4. Counting'
  BY <1>1, CountStep
<1>5. CopyTypeOK'
  BY <1>2, <1>3, <1>4 DEF CopyTypeOK, DataOK, PlaceOK, CountOK, Counting
<1>6. ASSUME Undisturbed' PROVE (Reading /\ Sending /\ Writing)'
  <2>1. Undisturbed /\ CalmNext
    BY <1>1, <1>6, Calm
  <2>2. Reading /\ Sending /\ Writing
    BY <2>1 DEF CopyIInv
  <2>3. Reading'
    BY <1>1, <2>1, <2>2, ReadingStep
  <2>4. Sending'
    BY <1>1, <2>1, <2>2, SendingStep
  <2>5. Writing'
    BY <1>1, <2>1, <2>2, WritingStep
  <2> QED BY <2>3, <2>4, <2>5
<1> QED BY <1>3, <1>4, <1>5, <1>6 DEF CopyIInv, Counting

LEMMA CopyMeans == ASSUME CopyIInv PROVE CopyInv
<1>1. CopyTypeOK /\ DataOK /\ CountOK
  BY TypeParts DEF CopyIInv
<1>2. PiecesAreExact
  BY <1>1, PiecesHold DEF CopyIInv
<1>3. GroupsAreFull
  BY <1>1, GroupsHold DEF CopyIInv
<1>4. CopyIsFaithful
  BY <1>1, FaithfulHolds DEF CopyIInv
<1>5. FaultsAreReported
  BY <1>1, FaultsHold DEF CopyIInv
<1> QED BY <1>1, <1>2, <1>3, <1>4, <1>5 DEF CopyInv

\* Split and Joiner, for any stream, any framing that Validate lets through, an
\* empty sep included, and any way in which the reader hands the bytes over:
\* each piece ends at the first separator after
\* the one before, the messages are full groups of pieces in their order, what
\* is written is the stream, and no failure passes in silence.
THEOREM CopyInvHolds == CopySpec => []CopyInv
<1>1. CopyInit => CopyIInv
  BY CopyInitHolds
<1>2. CopyIInv /\ [CopyNext]_copyVars => CopyIInv'
  BY CopyStepHolds
<1>3. CopyIInv => CopyInv
  BY CopyMeans
<1> QED BY <1>1, <1>2, <1>3, PTL DEF CopySpec

=============================================================================
