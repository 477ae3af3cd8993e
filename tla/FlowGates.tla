----------------------------- MODULE FlowGates ------------------------------
(***************************************************************************)
(* The host-owned flow gates of stdlib/flow/flow.go around a producer      *)
(* (per-minute, stop-after) and around a consumer (per-minute), joined by  *)
(* a run without a transformer, seen from the gates: the stream's          *)
(* forwarder holds one message and the loop another.  Messages are         *)
(* numbered in the order the inner producer makes them.  The grace windows *)
(* of the consumer's gate are steps that are possible only while the inner *)
(* consumer is busy: one that listens answers within the window.           *)
(***************************************************************************)
EXTENDS RunContext, Naturals, Sequences, FiniteSetsExt

CONSTANTS
  MaxMade,   \* bound: messages of the inner producer
  MaxFails,  \* bound: errors of the inner producer
  MaxTicks   \* bound: where the count of the intervals saturates

ASSUME GateAssumption ==
  /\ MaxMade \in Nat /\ MaxFails \in Nat
  /\ MaxTicks \in Nat /\ MaxTicks >= MaxMade

VARIABLES
  stopAfter,    \* the block's stop-after, 0 when unset
  paced,        \* does the producer's block have a per-minute?
  bare,         \* does the inner producer report errors without a select on ctx?
  temper,       \* how the inner consumer behaves
  inner,        \* where the inner producer is
  made,         \* messages that the inner producer set out to send
  fails,        \* errors that it set out to report
  gate,         \* where the producer's gate is
  held,         \* the message in the producer's gate
  count,        \* messages that the producer's gate passed on
  gateCancel,   \* did the producer's gate cancel the inner context?
  tick,         \* does the ticker hold a tick?
  ticks,        \* history: intervals elapsed
  link,         \* the messages that the engine carries
  recvClosed,   \* did the sink close the gated consumer's input?
  cgate,        \* where the consumer's gate is
  cheld,        \* the message in the consumer's gate
  ctick,        \* does the ticker of the consumer's gate hold a tick?
  cticks,       \* history: intervals elapsed at the consumer's gate
  cgateCancel,  \* did the consumer's gate cancel the inner context?
  cinner,       \* where the inner consumer is
  cmsg,         \* the message it works on
  written       \* history: the messages it finished

configVars == <<stopAfter, paced, bare, temper>>
innerVars == <<inner, made, fails>>
pgateVars == <<gate, held, count, gateCancel>>
tickVars == <<tick, ticks>>
engineVars == <<link, recvClosed>>
cgateVars == <<cgate, cheld, cgateCancel>>
ctickVars == <<ctick, cticks>>
cinnerVars == <<cinner, cmsg, written>>
producerVars == <<innerVars, pgateVars, tickVars>>
consumerVars == <<cgateVars, ctickVars, cinnerVars>>
gatesState == <<configVars, producerVars, engineVars, consumerVars>>
gateVars == <<runDone, gatesState>>

\* prompt: finishes a message within the grace window; slow: may outlast it;
\* deaf: outlasts it and ignores its context; early: prompt, and may decide
\* that it is done.
Temper == {"prompt", "slow", "deaf", "early"}
Ended == {"cancelled", "closed", "released"}

innerCtxDone == runDone \/ gateCancel
cinnerCtxDone == runDone \/ cgateCancel
Heeds == temper # "deaf"
Outlasts == temper \in {"slow", "deaf"}

EngineHolds == 2

\* The combinations for which flow.Producer wraps the producer at all.
GatesInit ==
  /\ runDone = FALSE
  /\ stopAfter \in 0..MaxMade /\ paced \in BOOLEAN /\ bare \in BOOLEAN
  /\ paced \/ stopAfter > 0
  /\ temper \in Temper
  /\ inner = "working" /\ made = 0 /\ fails = 0
  /\ gate = "recv" /\ held = 0 /\ count = 0 /\ gateCancel = FALSE
  /\ tick = FALSE /\ ticks = 0
  /\ link = <<>> /\ recvClosed = FALSE
  /\ cgate = "recv" /\ cheld = 0 /\ cgateCancel = FALSE
  /\ ctick = FALSE /\ cticks = 0
  /\ cinner = "recv" /\ cmsg = 0 /\ written = <<>>

-----------------------------------------------------------------------------
(* The inner producer: any sdk.Producer that selects on its context when   *)
(* it sends, and perhaps when it reports an error.                         *)

InnerSends ==
  /\ inner = "working" /\ made < MaxMade
  /\ inner' = "sending" /\ made' = made + 1
  /\ UNCHANGED <<runDone, configVars, fails, pgateVars, tickVars, engineVars, consumerVars>>

InnerFails ==
  /\ inner = "working" /\ fails < MaxFails
  /\ inner' = "failing" /\ fails' = fails + 1
  /\ UNCHANGED <<runDone, configVars, made, pgateVars, tickVars, engineVars, consumerVars>>

\* The engine receives errors until the bound producer has returned, which
\* behind a gate is when the gate has, and the instance is closed.
ErrTaken ==
  /\ inner = "failing" /\ gate # "released" /\ ~runDone
  /\ inner' = "working"
  /\ UNCHANGED <<runDone, configVars, made, fails, pgateVars, tickVars, engineVars, consumerVars>>

InnerReturns ==
  /\ \/ inner = "working"
     \/ inner = "sending" /\ innerCtxDone
     \/ inner = "failing" /\ innerCtxDone /\ ~bare
  /\ inner' = "returned"
  /\ UNCHANGED <<runDone, configVars, made, fails, pgateVars, tickVars, engineVars, consumerVars>>

-----------------------------------------------------------------------------
(* The producer's gate.                                                    *)

Tick ==
  /\ paced /\ gate \notin Ended /\ (~tick \/ ticks < MaxTicks)
  /\ tick' = TRUE /\ ticks' = Min({ticks + 1, MaxTicks})
  /\ UNCHANGED <<runDone, configVars, innerVars, pgateVars, engineVars, consumerVars>>

GateRecv ==
  /\ gate = "recv" /\ inner = "sending"
  /\ inner' = "working" /\ held' = made
  /\ gate' = IF paced THEN "pacing" ELSE "send"
  /\ UNCHANGED <<runDone, configVars, made, fails, count, gateCancel, tickVars, engineVars, consumerVars>>

\* wait() has no way out but a tick.
GateWaits ==
  /\ gate = "pacing" /\ tick
  /\ gate' = "send" /\ tick' = FALSE
  /\ UNCHANGED <<runDone, configVars, innerVars, held, count, gateCancel, ticks, engineVars, consumerVars>>

\* The deferred cancel of the inner context comes before close(send).
LeaveUncancelled == gate' = "cancelled" /\ UNCHANGED gateCancel
Leave == gate' = "cancelled" /\ gateCancel' = TRUE

\* Mutant: the cutoff is compared before the message is counted.
GatePassesLate ==
  /\ gate = "send" /\ Len(link) < EngineHolds /\ ~recvClosed
  /\ link' = Append(link, held) /\ held' = 0 /\ count' = count + 1
  /\ IF stopAfter > 0 /\ count >= stopAfter
     THEN Leave ELSE gate' = "recv" /\ UNCHANGED gateCancel
  /\ UNCHANGED <<runDone, configVars, innerVars, tickVars, recvClosed, consumerVars>>

GatePasses ==
  /\ gate = "send" /\ Len(link) < EngineHolds /\ ~recvClosed
  /\ link' = Append(link, held) /\ held' = 0 /\ count' = count + 1
  /\ IF stopAfter > 0 /\ count' >= stopAfter
     THEN Leave ELSE gate' = "recv" /\ UNCHANGED gateCancel
  /\ UNCHANGED <<runDone, configVars, innerVars, tickVars, recvClosed, consumerVars>>

GateLeaves ==
  /\ \/ gate = "recv" /\ inner = "returned"
     \/ gate \in {"recv", "send"} /\ runDone
  /\ Leave
  /\ UNCHANGED <<runDone, configVars, innerVars, held, count, tickVars, engineVars, consumerVars>>

GateCloses ==
  /\ gate = "cancelled" /\ gate' = "closed"
  /\ UNCHANGED <<runDone, configVars, innerVars, held, count, gateCancel, tickVars, engineVars, consumerVars>>

\* bindProducer closes the instance as soon as the gate has returned.
InstanceCloses ==
  /\ gate = "closed" /\ gate' = "released"
  /\ UNCHANGED <<runDone, configVars, innerVars, held, count, gateCancel, tickVars, engineVars, consumerVars>>

-----------------------------------------------------------------------------
(* The engine between the gates.                                           *)

EngineGives ==
  /\ cgate = "recv" /\ link # <<>> /\ ~recvClosed
  /\ cgate' = "pacing" /\ cheld' = Head(link) /\ link' = Tail(link)
  /\ UNCHANGED <<runDone, configVars, producerVars, recvClosed, cgateCancel, ctickVars, cinnerVars>>

\* The loop is left at the end of the stream, or with the run, or by a send
\* that finds done closed; then the input is closed, and only after the flush
\* the run cancelled.
EngineCloses ==
  /\ ~recvClosed
  /\ \/ runDone
     \/ gate \in {"closed", "released"} /\ link = <<>>
     \/ link # <<>> /\ cinner = "returned"
  /\ recvClosed' = TRUE /\ link' = <<>>
  /\ UNCHANGED <<runDone, configVars, producerVars, consumerVars>>

\* The run ends after the flush, or is cancelled at any time.
RunEnds == EndRun /\ UNCHANGED <<configVars, producerVars, engineVars, consumerVars>>

-----------------------------------------------------------------------------
(* The consumer's gate.                                                    *)

CTick ==
  /\ cgate # "returned" /\ (~ctick \/ cticks < MaxTicks)
  /\ ctick' = TRUE /\ cticks' = Min({cticks + 1, MaxTicks})
  /\ UNCHANGED <<runDone, configVars, producerVars, engineVars, cgateVars, cinnerVars>>

\* wait() again: the end of the run does not cut it short.
CGateWaits ==
  /\ cgate = "pacing" /\ ctick
  /\ cgate' = "forward" /\ ctick' = FALSE
  /\ UNCHANGED <<runDone, configVars, producerVars, engineVars, cheld, cgateCancel, cticks, cinnerVars>>

CGateForwards ==
  /\ cgate = "forward" /\ cinner = "recv"
  /\ cgate' = "recv" /\ cinner' = "working" /\ cmsg' = cheld /\ cheld' = 0
  /\ UNCHANGED <<runDone, configVars, producerVars, engineVars, cgateCancel, ctickVars, written>>

\* Mutant: stop() cancels at once, next to close(inner).
CGateStopsAtOnce ==
  /\ \/ cgate = "recv" /\ recvClosed
     \/ cgate \in {"recv", "forward"} /\ cinnerCtxDone
  /\ cgate' = "abandoning" /\ cgateCancel' = TRUE
  /\ UNCHANGED <<runDone, configVars, producerVars, engineVars, cheld, ctickVars, cinnerVars>>

\* stop(): from "closing" on, the inner channel is closed.
CGateStops ==
  /\ \/ cgate = "recv" /\ recvClosed
     \/ cgate \in {"recv", "forward"} /\ cinnerCtxDone
  /\ cgate' = "closing"
  /\ UNCHANGED <<runDone, configVars, producerVars, engineVars, cheld, cgateCancel, ctickVars, cinnerVars>>

CGateJoins ==
  /\ cgate \in {"closing", "abandoning"} /\ cinner = "returned"
  /\ cgate' = "returned" /\ cgateCancel' = TRUE
  /\ UNCHANGED <<runDone, configVars, producerVars, engineVars, cheld, ctickVars, cinnerVars>>

\* Mutant: the wait after the cancel has no bound.
WindowElapsesOnce ==
  /\ cgate = "closing" /\ cinner = "working" /\ Outlasts
  /\ cgate' = "abandoning" /\ cgateCancel' = TRUE
  /\ UNCHANGED <<runDone, configVars, producerVars, engineVars, cheld, ctickVars, cinnerVars>>

\* The first window ends in the cancel, the second in the return.
WindowElapses ==
  /\ cgate \in {"closing", "abandoning"} /\ cinner = "working" /\ Outlasts
  /\ cgate' = IF cgate = "closing" THEN "abandoning" ELSE "returned"
  /\ cgateCancel' = TRUE
  /\ UNCHANGED <<runDone, configVars, producerVars, engineVars, cheld, ctickVars, cinnerVars>>

-----------------------------------------------------------------------------
(* The inner consumer: an sdk.Consumer, which closes done as it returns.   *)

ConsumerFinishes ==
  /\ cinner = "working" /\ cinner' = "recv"
  /\ written' = Append(written, cmsg) /\ cmsg' = 0
  /\ UNCHANGED <<runDone, configVars, producerVars, engineVars, cgateVars, ctickVars>>

ConsumerReturns ==
  /\ \/ cinner = "recv" /\ cgate \in {"closing", "abandoning", "returned"}
     \/ cinner = "recv" /\ temper = "early"
     \/ cinner \in {"recv", "working"} /\ cinnerCtxDone /\ Heeds
  /\ cinner' = "returned"
  /\ UNCHANGED <<runDone, configVars, producerVars, engineVars, cgateVars, ctickVars, cmsg, written>>

-----------------------------------------------------------------------------
ProducerSide == InnerSends \/ InnerFails \/ ErrTaken \/ InnerReturns \/ Tick
  \/ GateRecv \/ GateWaits \/ GatePasses \/ GateLeaves \/ GateCloses \/ InstanceCloses
Engine == EngineGives \/ EngineCloses \/ RunEnds
ConsumerSide == CTick \/ CGateWaits \/ CGateForwards \/ CGateStops \/ CGateJoins \/ WindowElapses
  \/ ConsumerFinishes \/ ConsumerReturns
GatesNext == ProducerSide \/ Engine \/ ConsumerSide
GatesSpec == GatesInit /\ [][GatesNext]_gateVars

\* The steps that the code and its runtime owe: the gates and the engine are
\* scheduled and time passes, the inner producer gives up when its context
\* ends, and a consumer that heeds its context finishes what it works on.
\* Nothing is asked of a deaf one that works, nor of anyone to cancel the run.
GateDue == GateRecv \/ GateWaits \/ GatePasses \/ GateLeaves \/ GateCloses \/ InstanceCloses
EngineDue == EngineGives \/ EngineCloses \/ (recvClosed /\ cinner = "returned" /\ RunEnds)
InnerDue == ErrTaken \/ (innerCtxDone /\ InnerReturns)
CGateDue == CGateWaits \/ CGateForwards \/ CGateStops \/ CGateJoins \/ WindowElapses
FinishDue == Heeds /\ ConsumerFinishes
ReturnDue == cgate \in {"closing", "abandoning"} /\ ConsumerReturns

-----------------------------------------------------------------------------
(* Properties.                                                             *)

GatesTypeOK ==
  /\ runDone \in BOOLEAN /\ gateCancel \in BOOLEAN /\ cgateCancel \in BOOLEAN
  /\ inner \in {"working", "sending", "failing", "returned"}
  /\ gate \in {"recv", "pacing", "send"} \cup Ended
  /\ cgate \in {"recv", "pacing", "forward", "closing", "abandoning", "returned"}
  /\ cinner \in {"recv", "working", "returned"}
  /\ made \in 0..MaxMade /\ held \in 0..made /\ count \in 0..made
  /\ tick \in BOOLEAN /\ ticks \in 0..MaxTicks /\ recvClosed \in BOOLEAN
  /\ ctick \in BOOLEAN /\ cticks \in 0..MaxTicks
  /\ link \in Seq(1..made) /\ Len(link) <= EngineHolds
  /\ cheld \in 0..made /\ cmsg \in 0..made /\ written \in Seq(Nat)
  /\ stopAfter \in Nat /\ paced \in BOOLEAN /\ bare \in BOOLEAN /\ temper \in Temper

\* In a run that nobody ended, a gate that is through has passed on exactly
\* what the producer made, cut off at stop-after.
CleanCutoff ==
  /\ stopAfter > 0 => count <= stopAfter
  /\ (gate \in Ended /\ ~runDone) =>
       count = IF stopAfter > 0 THEN Min({stopAfter, made}) ELSE made

One(b) == IF b THEN 1 ELSE 0

\* A paced block passes no more messages than intervals have elapsed, on
\* either side.
Handed == Len(written) + One(cmsg # 0)
RateHolds == (paced => count <= ticks) /\ Handed <= cticks

\* What the consumer wrote is what was passed on, in order and without a gap.
WrittenInOrder == Len(written) <= count /\ \A k \in 1..Len(written) : written[k] = k

\* When the stream came to its own end, a consumer that works within the
\* grace window wrote everything; a slow one misses the last message at most.
CleanFlush ==
  (cinner = "returned" /\ ~runDone /\ temper \in {"prompt", "slow"}) =>
     /\ temper = "prompt" => Len(written) = count
     /\ Len(written) + 1 >= count

Listens == cgate \in {"recv", "pacing", "forward"}
PastEngine == Len(written) + One(cinner = "working") + One(cgate \in {"pacing", "forward"})

\* The producer's gate holds the message after those it passed on, and before
\* it is through nothing that was made is anywhere else.
ProducerSideInv ==
  /\ gate \notin Ended => ~gateCancel /\ (stopAfter > 0 => count < stopAfter)
  /\ gate \in {"pacing", "send"} => held = count + 1
  /\ (gate \notin Ended /\ (inner # "returned" \/ ~runDone)) =>
       made = count + One(gate # "recv") + One(inner = "sending")
  /\ (gate \in Ended /\ ~runDone /\ inner # "returned") => stopAfter > 0 /\ count = stopAfter
  /\ paced => count + One(gate = "send") + One(tick) <= ticks \/ ticks = MaxTicks

\* What was passed on is written, worked on, held by the consumer's gate or
\* carried by the engine, in that order, until somebody leaves.
ConsumerSideInv ==
  /\ cinner = "working" => cmsg = Len(written) + 1
  /\ (Listens /\ cinner # "returned") =>
       /\ cgate # "recv" => cheld = PastEngine
       /\ \A i \in 1..Len(link) : link[i] = PastEngine + i
       /\ PastEngine + Len(link) <= count
       /\ ~recvClosed \/ ~runDone => count = PastEngine + Len(link)
  /\ recvClosed => link = <<>>

\* What the inner consumer was handed, for which its gate spent ticks; of the
\* others one may have been spent on the message in hand, and one wait.
Spare == One(cgate = "forward") + One(ctick)
HandedInv ==
  /\ Handed <= count
  /\ cinner = "recv" => cmsg = 0
  /\ Handed + Spare <= cticks \/ cticks = MaxTicks

\* Short of the end of the run, the consumer's gate stops only when its input
\* was closed, with nothing in hand unless the consumer is gone; and that was
\* closed because the producer's gate is through or the consumer finished early.
StopInv ==
  /\ Listens => ~cgateCancel
  /\ ~runDone =>
       /\ recvClosed => gate \in Ended \/ (temper = "early" /\ cinner = "returned")
       /\ ~Listens => recvClosed
       /\ (~Listens /\ cinner # "returned") => count = Len(written) + One(cinner = "working")
       /\ (cgateCancel /\ cinner = "working") => Outlasts
       /\ (cinner = "returned" /\ temper # "early") => ~Listens

\* The gates of Producer and Consumer: an exact cutoff, the rates, the order.
GateInv ==
  /\ GatesTypeOK /\ CleanCutoff /\ RateHolds /\ WrittenInOrder
  /\ ProducerSideInv /\ ConsumerSideInv /\ HandedInv /\ StopInv

=============================================================================
