------------------------- MODULE RunPipeline_proofs -------------------------
(***************************************************************************)
(* Proofs about RunPipeline: a run is a run of its parts, so the theorems  *)
(* about the sink hold in it; errors are joined and returned; nothing is   *)
(* delivered twice, and a nil return means that everything was delivered,  *)
(* for any number of producers, messages, consumers and errors, with and   *)
(* without a transformer.                                                  *)
(***************************************************************************)
EXTENDS RunPipeline, DataLemmas

-----------------------------------------------------------------------------
(* The sink: SinkInv is inductive, and fan-out, done and flush follow.      *)

\* The invariant holds when the sink was started.
LEMMA SinkInitInv == SinkInit => SinkInv
<1>1. ASSUME SinkInit PROVE SinkInv
  <2>1. SinkTypeOK
    <3>1. <<>> \in Seq(Message)
      BY EmptySeq
    <3>2. 0 \in 0..MaxConsErrs /\ 1 \in 1..(NumConsumers + 1)
      BY SinkAssumption
    <3>3. /\ consErrs \in [Consumer -> 0..MaxConsErrs]
          /\ received \in [Consumer -> Seq(Message)]
          /\ consFwd \in [Consumer -> {"recv", "hold", "exited"}]
      BY <1>1, <3>1, <3>2 DEF SinkInit
    <3>4. QED BY <1>1, <3>1, <3>2, <3>3 DEF SinkInit, SinkTypeOK, MainState
  <2>2. \A c \in Consumer : received[c] = <<>> /\ dispatched = <<>>
    BY <1>1 DEF SinkInit
  <2>3. FanOut /\ ServedInv
    BY <1>1, <2>2, EmptySeq, PrefixGrows DEF SinkInit, FanOut, ServedInv, Due
  <2>4. QED BY <1>1, <2>1, <2>3 DEF SinkInit, SinkInv, NeverWrittenOff
<1>2. QED BY <1>1

\* Where the cursor may go.
LEMMA CursorMoves ==
  ASSUME NEW c \in Nat
  PROVE  /\ c \in Consumer => c + 1 \in 1..(NumConsumers + 1)
         /\ \A d \in Consumer : c + 1 <= d => c <= d /\ c # d
         /\ \A d \in Consumer : d < c + 1 => d < c \/ d = c
         /\ c \in 1..(NumConsumers + 1) => c \in Consumer \/ c = NumConsumers + 1
         /\ \A d \in Consumer : d < NumConsumers + 1 /\ d \in Nat /\ ~(NumConsumers + 1 <= d)
         /\ \A d \in Consumer : d # c => (c <= d <=> c + 1 <= d)
         /\ 1 \in 1..(NumConsumers + 1)
BY SinkAssumption DEF Consumer

\* No step of send breaks the invariant.
LEMMA SendKeepsInv ==
  ASSUME SinkInv, Send \/ \E m \in Message : SendStart(m)
  PROVE  SinkInv'
<1> USE DEF mainVars, consumerVars
<1>1. ASSUME NEW m \in Message, SendStart(m) PROVE SinkInv'
  <2>1. dispatched \in Seq(Message) /\ received \in [Consumer -> Seq(Message)]
    BY DEF SinkInv, SinkTypeOK
  <2>2. /\ dispatched' \in Seq(Message) /\ dispatched' # <<>>
        /\ Front(dispatched') = dispatched
    BY <1>1, <2>1, FrontOfAppend DEF SendStart
  <2>3. SinkTypeOK' /\ NeverWrittenOff'
    BY <1>1, <2>2, SinkAssumption DEF SendStart, SinkInv, SinkTypeOK, NeverWrittenOff, MainState
  <2>4. \A c \in Consumer : IsPrefix(received[c], dispatched) => IsPrefix(received[c], dispatched')
    BY <1>1, <2>1, PrefixGrows DEF SendStart
  <2>5. ServedInv'
    BY <1>1, <2>2 DEF SendStart, SinkInv, ServedInv, Due, Consumer
  <2>6. FanOut'
    BY <1>1, <2>4, <2>5 DEF SendStart, SinkInv, FanOut, ServedInv
  <2>7. QED BY <2>3, <2>5, <2>6 DEF SinkInv
<1>2. ASSUME SendSkips \/ SendFindsDone PROVE SinkInv'
  <2>1. /\ cursor \in Consumer /\ cursor \in Nat /\ cursor' = cursor + 1
        /\ cursor \in finished' /\ finished \subseteq finished'
        /\ finished' \subseteq doneClosed /\ main = "send"
        /\ UNCHANGED <<runDone, main, insClosed, dispatched, doneClosed,
                       returned, consErrs, consFwd, received>>
    <3>1. \A c \in Consumer : c \in Nat
      BY SinkAssumption DEF Consumer
    <3>2. CASE SendSkips
      BY <3>1, <3>2 DEF SendSkips, SinkInv, SinkTypeOK, NeverWrittenOff
    <3>3. CASE SendFindsDone
      BY <3>1, <3>3 DEF SendFindsDone, SinkInv, SinkTypeOK, NeverWrittenOff
    <3>4. QED BY <1>2, <3>2, <3>3
  <2>2. cursor' \in 1..(NumConsumers + 1)
    BY <2>1, CursorMoves
  <2>3. SinkTypeOK'
    BY <2>1, <2>2 DEF SinkInv, SinkTypeOK
  <2>4. NeverWrittenOff'
    BY <2>1 DEF SinkInv, NeverWrittenOff
  <2>5. \A c \in Consumer \ finished' : received'[c] = Due(c)'
    <3> TAKE c \in Consumer \ finished'
    <3>1. received[c] = Due(c) /\ c # cursor
      BY <2>1 DEF SinkInv, ServedInv
    <3>2. cursor <= c <=> cursor' <= c
      BY <2>1, <3>1, CursorMoves
    <3>3. QED BY <2>1, <3>1, <3>2 DEF Due
  <2>6. ServedInv'
    BY <2>1, <2>5 DEF SinkInv, ServedInv
  <2>7. FanOut'
    BY <2>1, <2>5 DEF SinkInv, FanOut
  <2>8. QED BY <2>3, <2>4, <2>6, <2>7 DEF SinkInv
<1>3. ASSUME SendDelivers PROVE SinkInv'
  <2>1. /\ cursor \in Consumer /\ cursor \notin finished /\ main = "send"
        /\ dispatched \in Seq(Message) /\ dispatched # <<>>
        /\ received[cursor] = Front(dispatched)
    BY <1>3, SinkAssumption DEF SendDelivers, SinkInv, SinkTypeOK, ServedInv, Due, Consumer
  <2>2. /\ Append(received[cursor], Last(dispatched)) = dispatched
        /\ Last(dispatched) \in Message
    BY <2>1, FrontThenLast
  <2>3. /\ received' \in [Consumer -> Seq(Message)]
        /\ received'[cursor] = dispatched
        /\ \A c \in Consumer : c # cursor => received'[c] = received[c]
    BY <1>3, <2>1, <2>2 DEF SendDelivers, SinkInv, SinkTypeOK
  <2>4. /\ cursor \in Nat /\ cursor' = cursor + 1
        /\ UNCHANGED <<runDone, main, insClosed, finished, dispatched, doneClosed,
                       returned, consErrs, consFwd>>
    BY <1>3, <2>1 DEF SendDelivers, Consumer
  <2>5. SinkTypeOK' /\ NeverWrittenOff'
    <3>1. cursor' \in 1..(NumConsumers + 1)
      BY <2>1, <2>4, CursorMoves
    <3>2. SinkTypeOK'
      BY <2>4, <2>3, <3>1 DEF SinkInv, SinkTypeOK
    <3>3. NeverWrittenOff'
      BY <2>4 DEF SinkInv, NeverWrittenOff
    <3>4. QED BY <3>2, <3>3
  <2>6. ServedInv'
    <3>1. ASSUME NEW c \in Consumer \ finished' PROVE received'[c] = Due(c)'
      <4>1. CASE c = cursor
        <5>1. ~(cursor' <= c)
          BY <2>4, <4>1
        <5>2. QED BY <2>4, <2>3, <4>1, <5>1 DEF Due
      <4>2. CASE c # cursor
        <5>1. cursor <= c <=> cursor' <= c
          BY <2>4, <4>2, CursorMoves
        <5>2. received[c] = Due(c)
          BY <2>1, <2>4 DEF SinkInv, ServedInv
        <5>3. QED BY <2>4, <2>3, <4>2, <5>1, <5>2 DEF Due
      <4>3. QED BY <4>1, <4>2
    <3>2. QED BY <2>1, <2>4, <3>1 DEF ServedInv
  <2>7. \A c \in Consumer : IsPrefix(received'[c], dispatched)
    BY <2>1, <2>3, PrefixGrows DEF SinkInv, FanOut
  <2>8. FanOut'
    BY <1>3, <2>6, <2>7 DEF SendDelivers, FanOut, ServedInv
  <2>9. QED BY <2>5, <2>6, <2>8 DEF SinkInv
<1>4. ASSUME SendCancelled \/ SendEnds PROVE SinkInv'
  <2>1. SinkTypeOK' /\ NeverWrittenOff'
    BY <1>4 DEF SendCancelled, SendEnds, SinkInv, SinkTypeOK, NeverWrittenOff, MainState
  <2>2. ServedInv'
    BY <1>4, SinkAssumption DEF SendCancelled, SendEnds, SinkInv, SinkTypeOK, ServedInv, Due, Consumer
  <2>3. FanOut'
    BY <1>4, <2>2 DEF SendCancelled, SendEnds, SinkInv, FanOut, ServedInv
  <2>4. QED BY <2>1, <2>2, <2>3 DEF SinkInv
<1>5. QED BY <1>1, <1>2, <1>3, <1>4 DEF Send

\* No step of main after its range loop breaks the invariant.
LEMMA FinishKeepsInv ==
  ASSUME SinkInv, RangeEnds \/ WindDown
  PROVE  SinkInv'
<1> USE DEF mainVars, consumerVars
<1>1. UNCHANGED <<finished, dispatched, consumerVars>> /\ runDone \in BOOLEAN /\ runDone' \in {runDone, TRUE}
  BY DEF RangeEnds, WindDown, CloseIns, FlushNext, FlushCancelled, FlushEnds, CancelRun, WaitErrs, EndRun, SinkInv, SinkTypeOK
<1>2. main' \notin {"range", "send"} /\ (main = "send" => FALSE)
  BY DEF RangeEnds, WindDown, CloseIns, FlushNext, FlushCancelled, FlushEnds, CancelRun, WaitErrs
<1>3. /\ main' \in MainState /\ insClosed' \in BOOLEAN
      /\ insClosed' <=> main' \in {"flush", "cancel", "wait", "returned"}
  <2>1. CASE CloseIns
    BY <2>1 DEF CloseIns, MainState
  <2>2. CASE RangeEnds
    BY <2>2 DEF RangeEnds, MainState, SinkInv, SinkTypeOK, NeverWrittenOff
  <2>3. CASE WindDown /\ ~CloseIns
    BY <2>3 DEF WindDown, FlushNext, FlushCancelled, FlushEnds, CancelRun, WaitErrs, MainState, SinkInv, SinkTypeOK, NeverWrittenOff
  <2>4. QED BY <2>1, <2>2, <2>3
<1>4. cursor \in 1..(NumConsumers + 1) /\ cursor \in Nat
  BY SinkAssumption DEF SinkInv, SinkTypeOK
<1>5. \/ UNCHANGED cursor /\ (main' = "flush" => FALSE)
      \/ cursor' = 1
      \/ FlushNext
  BY DEF RangeEnds, WindDown, CloseIns, FlushCancelled, FlushEnds, CancelRun, WaitErrs
<1>6. FlushNext => /\ cursor \in Consumer /\ cursor \in doneClosed
                   /\ main = "flush" /\ cursor' = cursor + 1
  BY DEF FlushNext, SinkInv, SinkTypeOK, NeverWrittenOff
<1>7. cursor' \in 1..(NumConsumers + 1)
  BY <1>4, <1>5, <1>6, CursorMoves
<1>8. SinkTypeOK' /\ NeverWrittenOff'
  <2>1. runDone' \in BOOLEAN
    BY <1>1
  <2>2. SinkTypeOK'
    BY <1>1, <1>3, <1>7, <2>1 DEF SinkInv, SinkTypeOK
  <2>3. NeverWrittenOff'
    BY <1>1, <1>3 DEF SinkInv, NeverWrittenOff
  <2>4. QED BY <2>2, <2>3
<1>9. ServedInv'
  <2>1. \A c \in Consumer \ finished' : ~runDone' => received'[c] = Due(c)'
    BY <1>1, <1>2 DEF SinkInv, ServedInv, Due
  <2>2. main' = "flush" => \A c \in Consumer : c < cursor' => c \in doneClosed'
    <3>1. CASE UNCHANGED cursor /\ (main' = "flush" => FALSE)
      BY <3>1
    <3>2. CASE cursor' = 1
      BY <3>2, SinkAssumption DEF Consumer
    <3>3. CASE FlushNext
      BY <1>1, <1>4, <1>6, <3>3, CursorMoves DEF SinkInv, ServedInv
    <3>4. QED BY <1>5, <3>1, <3>2, <3>3
  <2>3. QED BY <1>2, <2>1, <2>2 DEF ServedInv
<1>10. FanOut'
  BY <1>1, <1>9 DEF SinkInv, FanOut, ServedInv
<1>11. QED BY <1>8, <1>9, <1>10 DEF SinkInv

\* Nothing that a consumer, its error forwarder or the caller does breaks it.
LEMMA ConsumersKeepInv ==
  ASSUME SinkInv, Consumers \/ RunIsEnded
  PROVE  SinkInv'
<1> USE DEF mainVars, consumerVars
<1>1. /\ UNCHANGED <<mainVars, received>> /\ doneClosed \subseteq doneClosed'
      /\ runDone \in BOOLEAN /\ runDone' \in {runDone, TRUE}
  BY DEF Consumers, ConsumerFails, ConsFwdExits, ConsumerDone, ConsumerReturns, ConsumerReports, ConsumerReported, RunIsEnded, EndRun, SinkInv, SinkTypeOK
<1>2. SinkTypeOK'
  <2>1. runDone' \in BOOLEAN
    BY <1>1
  <2>2. /\ main' \in MainState /\ cursor' \in 1..(NumConsumers + 1)
        /\ insClosed' \in BOOLEAN /\ finished' \subseteq Consumer
        /\ dispatched' \in Seq(Message)
        /\ received' \in [Consumer -> Seq(Message)]
    BY <1>1 DEF SinkInv, SinkTypeOK
  <2>3. doneClosed' \subseteq Consumer /\ returned' \subseteq Consumer
    BY DEF Consumers, ConsumerFails, ConsFwdExits, ConsumerDone, ConsumerReturns, ConsumerReports, ConsumerReported, RunIsEnded, SinkInv, SinkTypeOK
  <2>4. consErrs' \in [Consumer -> 0..MaxConsErrs]
    <3>1. CASE RunIsEnded
      BY <3>1 DEF RunIsEnded, SinkInv, SinkTypeOK
    <3>2. CASE Consumers
      <4>1. PICK c \in Consumer :
              \/ ConsumerFails(c) \/ ConsFwdExits(c) \/ ConsumerDone(c)
              \/ ConsumerReturns(c) \/ ConsumerReports(c)
        BY <3>2 DEF Consumers
      <4>2. CASE ConsumerFails(c)
        <5>1. consErrs[c] + 1 \in 0..MaxConsErrs
          BY <4>2, SinkAssumption DEF ConsumerFails, SinkInv, SinkTypeOK
        <5>2. QED BY <4>2, <5>1 DEF ConsumerFails, SinkInv, SinkTypeOK
      <4>3. CASE ~ConsumerFails(c)
        BY <4>1, <4>3 DEF ConsFwdExits, ConsumerDone, ConsumerReturns, ConsumerReports, ConsumerReported, SinkInv, SinkTypeOK
      <4>4. QED BY <4>2, <4>3
    <3>3. QED BY <3>1, <3>2
  <2>5. consFwd' \in [Consumer -> {"recv", "hold", "exited"}]
    BY DEF Consumers, ConsumerFails, ConsFwdExits, ConsumerDone, ConsumerReturns, ConsumerReports, ConsumerReported, RunIsEnded, SinkInv, SinkTypeOK
  <2>6. QED BY <2>1, <2>2, <2>3, <2>4, <2>5 DEF SinkTypeOK
<1>3. NeverWrittenOff'
  BY <1>1 DEF SinkInv, NeverWrittenOff
<1>4. ServedInv'
  BY <1>1 DEF SinkInv, ServedInv, Due
<1>5. FanOut'
  BY <1>1, <1>4 DEF SinkInv, FanOut, ServedInv
<1>6. QED BY <1>2, <1>3, <1>4, <1>5 DEF SinkInv

\* The invariant holds in every state, for any number of consumers.
THEOREM SinkInvHolds == SinkSpec => []SinkInv
<1>1. SinkInv /\ UNCHANGED sinkVars => SinkInv'
  BY DEF sinkVars, mainVars, consumerVars, SinkInv, SinkTypeOK, FanOut, NeverWrittenOff, ServedInv, Due
<1>2. SinkInv /\ [SinkNext]_sinkVars => SinkInv'
  BY <1>1, SendKeepsInv, FinishKeepsInv, ConsumersKeepInv DEF SinkNext
<1>3. QED BY <1>2, SinkInitInv, PTL DEF SinkSpec

\* Every consumer that is not written off receives all that was handed to
\* send, in order, and the others a prefix of it.
THEOREM SinkFansOut == SinkSpec => []FanOut
<1>1. SinkInv => FanOut
  BY DEF SinkInv
<1>2. QED BY <1>1, SinkInvHolds, PTL

\* Only consumers that closed done are written off, and the inputs are closed
\* once, after the last send.
THEOREM SinkWritesOffTheDone == SinkSpec => []NeverWrittenOff
<1>1. SinkInv => NeverWrittenOff
  BY DEF SinkInv
<1>2. QED BY <1>1, SinkInvHolds, PTL

\* A run that is not cancelled leaves flush only when all consumers are done.
THEOREM SinkFlushes == SinkSpec => FlushWaitsForAll
<1>1. SinkInv /\ [SinkNext]_sinkVars =>
        [main = "flush" /\ main' = "cancel" /\ ~runDone => doneClosed = Consumer]_sinkVars
  <2> SUFFICES ASSUME SinkInv, SinkNext, main = "flush", main' = "cancel", ~runDone
               PROVE  doneClosed = Consumer
    OBVIOUS
  <2>1. FlushEnds
    BY DEF mainVars, consumerVars, sinkVars, SinkNext, SendStart, Send, SendSkips, SendDelivers, SendFindsDone, SendCancelled, SendEnds, RangeEnds, WindDown, CloseIns, FlushNext, FlushCancelled, CancelRun, WaitErrs, Consumers, ConsumerFails, ConsFwdExits, ConsumerDone, ConsumerReturns, ConsumerReports, ConsumerReported, RunIsEnded
  <2>2. \A c \in Consumer : c < NumConsumers + 1
    BY SinkAssumption DEF Consumer
  <2>3. QED BY <2>1, <2>2 DEF FlushEnds, SinkInv, SinkTypeOK, ServedInv
<1>2. QED BY <1>1, SinkInvHolds, PTL DEF SinkSpec, FlushWaitsForAll

-----------------------------------------------------------------------------
(* The run.                                                                *)

\* The steps of the main goroutine in the sink, and those of its callers.
LEMMA SinkSteps ==
  /\ SendStart(item) => UNCHANGED runDone
  /\ SendStart(hand) => UNCHANGED runDone
  /\ Send \/ RangeEnds => UNCHANGED runDone
  /\ WindDown => runDone' = TRUE \/ UNCHANGED runDone
BY DEF EndRun, SendStart, Send, SendSkips, SendDelivers, SendFindsDone, SendCancelled, SendEnds, RangeEnds, WindDown, CloseIns, FlushNext, FlushCancelled, FlushEnds, CancelRun, WaitErrs

\* A run has the stream's steps: the rest of it only ends the run's context.
LEMMA StreamSteps ==
  ASSUME runDone \in BOOLEAN, [RunNext]_runVars
  PROVE  [StreamNext]_streamVars
<1> USE DEF streamVars, runVars, callVars, stageVars, reportVars, sinkOwnVars, mainVars, consumerVars
<1>1. ASSUME UNCHANGED streamOwnVars, runDone' \in {runDone, TRUE}
      PROVE  [StreamNext]_streamVars
  BY <1>1 DEF StreamNext, RunEnds, EndRun
<1>2. ASSUME NEW side, Report(side) PROVE runDone' \in {runDone, TRUE}
  BY <1>2 DEF Report, EndRun
<1>3. CASE Body
  <2>1. CASE BodyReports
    BY <2>1 DEF BodyReports, StreamNext
  <2>2. CASE BodySends
    BY <2>2, <1>1, SinkSteps DEF BodySends
  <2>3. CASE BodySendEnds
    BY <2>3 DEF BodySendEnds, StreamNext
  <2>4. CASE BodyStreamOver
    BY <2>4 DEF BodyStreamOver, StreamNext
  <2>5. QED BY <1>3, <2>1, <2>2, <2>3, <2>4 DEF Body
<1>4. CASE Stage
  <2>1. CASE StageFeeds \/ StageGivesUp \/ StageStreamOver
    BY <2>1 DEF StageFeeds, StageGivesUp, StageStreamOver, StreamNext
  <2>2. CASE TransformerReported
    BY <2>2, <1>1, <1>2 DEF TransformerReported
  <2>3. CASE StageSends
    BY <2>3, <1>1, SinkSteps DEF StageSends
  <2>4. CASE TransformerDrops \/ TransformerCloses \/ TransformerFails \/ StageFwdExits
    BY <2>4, <1>1 DEF TransformerDrops, TransformerCloses, TransformerFails, StageFwdExits
  <2>5. QED BY <1>4, <2>1, <2>2, <2>3, <2>4 DEF Stage
<1>5. CASE Main
  <2>1. CASE MainLeavesStage \/ SendGoesOn
    BY <2>1, <1>1, SinkSteps DEF MainLeavesStage, SendGoesOn, Send
  <2>2. CASE StageCancel
    BY <2>2 DEF StageCancel, StreamNext
  <2>3. CASE ShutDown \/ Return
    <3>1. WindDown /\ UNCHANGED streamOwnVars
      BY <2>3 DEF ShutDown, Return, WindDown
    <3>2. runDone' \in {runDone, TRUE}
      BY <3>1, SinkSteps
    <3>3. QED BY <1>1, <3>1, <3>2
  <2>4. QED BY <1>5, <2>1, <2>2, <2>3 DEF Main
<1>6. CASE ConsumerSide
  <2>1. PICK c \in Consumer : ConsumerStep(c)
    BY <1>6 DEF ConsumerSide
  <2>2. runDone' \in {runDone, TRUE} /\ UNCHANGED streamOwnVars
    BY <2>1, <1>2 DEF ConsumerStep, ConsumerFails, ConsFwdExits, ConsumerDone, ConsumerReturns
  <2>3. QED BY <1>1, <2>2
<1>7. CASE StreamSide \/ CallerCancels \/ UNCHANGED runVars
  BY <1>7, <1>1 DEF StreamSide, CallerCancels, EndRun, StreamNext
<1>8. QED BY <1>3, <1>4, <1>5, <1>6, <1>7 DEF RunNext

\* A run has the sink's steps, too.
LEMMA SinkStepsOfRun ==
  ASSUME runDone \in BOOLEAN, [RunNext]_runVars
  PROVE  [SinkNext]_sinkVars
<1> USE DEF sinkVars, runVars, streamOwnVars, callVars, stageVars, reportVars, sinkOwnVars
<1>1. ASSUME UNCHANGED sinkOwnVars, runDone' \in {runDone, TRUE}
      PROVE  [SinkNext]_sinkVars
  BY <1>1 DEF SinkNext, RunIsEnded, EndRun
<1>2. ASSUME NEW side, Report(side) PROVE runDone' \in {runDone, TRUE}
  BY <1>2 DEF Report, EndRun
<1>3. CASE Body
  <2>1. CASE BodyReports
    BY <2>1, <1>1, <1>2 DEF BodyReports
  <2>2. CASE BodySends
    BY <2>2 DEF BodySends, SinkNext
  <2>3. CASE BodySendEnds
    BY <2>3 DEF BodySendEnds, Send, SinkNext
  <2>4. CASE BodyStreamOver
    BY <2>4 DEF BodyStreamOver, SinkNext
  <2>5. QED BY <1>3, <2>1, <2>2, <2>3, <2>4 DEF Body
<1>4. CASE Stage
  <2>1. CASE StageFeeds \/ StageGivesUp \/ StageStreamOver
    BY <2>1, <1>1 DEF StageFeeds, StageGivesUp, StageStreamOver, Break, LoopMeetsEnd
  <2>2. CASE TransformerReported
    BY <2>2, <1>1, <1>2 DEF TransformerReported
  <2>3. CASE StageSends
    BY <2>3 DEF StageSends, SinkNext
  <2>4. CASE TransformerDrops \/ TransformerCloses \/ TransformerFails \/ StageFwdExits
    BY <2>4, <1>1 DEF TransformerDrops, TransformerCloses, TransformerFails, StageFwdExits
  <2>5. QED BY <1>4, <2>1, <2>2, <2>3, <2>4 DEF Stage
<1>5. CASE Main
  <2>1. CASE MainLeavesStage \/ SendGoesOn
    BY <2>1 DEF MainLeavesStage, SendGoesOn, Send, SinkNext
  <2>2. CASE StageCancel
    BY <2>2, <1>1 DEF StageCancel, CancelStream
  <2>3. CASE ShutDown \/ Return
    BY <2>3 DEF ShutDown, Return, WindDown, SinkNext
  <2>4. QED BY <1>5, <2>1, <2>2, <2>3 DEF Main
<1>6. CASE ConsumerSide
  <2>1. PICK c \in Consumer : ConsumerStep(c)
    BY <1>6 DEF ConsumerSide
  <2>2. ConsumerReported(c) /\ Report("consumer") => ConsumerReports(c)
    BY <1>2 DEF ConsumerReports
  <2>3. QED BY <2>1, <2>2 DEF ConsumerStep, Consumers, SinkNext
<1>7. CASE StreamSide
  <2>1. UNCHANGED runDone
    BY <1>7 DEF StreamSide, StreamRuns, SourceOpens, SourceEnds, FeederEnds, StreamEnds, Accept, Give, Drop
  <2>2. QED BY <1>1, <1>7, <2>1 DEF StreamSide, RestUnchanged
<1>8. CASE CallerCancels \/ UNCHANGED runVars
  BY <1>8, <1>1 DEF CallerCancels, EndRun
<1>9. CASE RunQuiet /\ UNCHANGED runVars
  BY <1>1, <1>9
<1>10. QED BY <1>3, <1>4, <1>5, <1>6, <1>7, <1>8, <1>9 DEF RunNext

\* A run is a run of the sink: the run calls it as the sink expects, and what
\* consumers do to a run is what they may do to a sink.
THEOREM RunImplementsSink == RunSpec => RunsTheSink
<1>1. RunInit => SinkInit
  BY DEF RunInit
<1>2. SinkInit => runDone \in BOOLEAN
  BY DEF SinkInit
<1>3. runDone \in BOOLEAN /\ [SinkNext]_sinkVars => (runDone \in BOOLEAN)'
  <2> SUFFICES ASSUME runDone \in BOOLEAN, [SinkNext]_sinkVars
               PROVE  runDone' \in {runDone, TRUE}
    OBVIOUS
  <2>1. CASE Consumers
    BY <2>1 DEF Consumers, ConsumerFails, ConsFwdExits, ConsumerDone, ConsumerReturns, ConsumerReports
  <2>2. QED BY <2>1, SinkSteps DEF SinkNext, SendStart, RunIsEnded, EndRun, sinkVars
<1>4. runDone \in BOOLEAN /\ [RunNext]_runVars => [SinkNext]_sinkVars
  BY SinkStepsOfRun
<1>5. QED BY <1>1, <1>2, <1>3, <1>4, PTL DEF RunSpec, RunsTheSink, SinkSpec

\* A run is a run of the merged stream: its loop body takes one result at a
\* time, and the stream's goroutines see only the ends of contexts.
THEOREM RunImplementsStream == RunSpec => RunsTheStream
<1>1. RunInit => StreamInit
  BY DEF RunInit
<1>2. SinkInv => runDone \in BOOLEAN
  BY DEF SinkInv, SinkTypeOK
<1>3. runDone \in BOOLEAN /\ [RunNext]_runVars => [StreamNext]_streamVars
  BY StreamSteps
<1>4. QED BY <1>1, <1>2, <1>3, RunImplementsSink, SinkInvHolds, PTL DEF RunSpec, RunsTheStream, StreamSpec, RunsTheSink

-----------------------------------------------------------------------------
(* The types of the stream, the joins and the failure.                     *)

\* The stream keeps its types.
LEMMA StreamKeepsTypes ==
  ASSUME StreamTypeOK, [StreamNext]_streamVars
  PROVE  StreamTypeOK'
<1> USE DEF StreamTypeOK, streamVars, streamOwnVars
<1>1. ASSUME NEW p \in Producer, SourceOpens(p) \/ SourceEnds(p) PROVE StreamTypeOK'
  BY <1>1 DEF SourceOpens, SourceEnds
<1>2. CASE FeederEnds \/ StreamEnds \/ LoopMeetsEnd
  <2>1. CASE FeederEnds
    BY <2>1 DEF FeederEnds
  <2>2. CASE StreamEnds
    BY <2>2 DEF StreamEnds
  <2>3. CASE LoopMeetsEnd
    BY <2>3 DEF LoopMeetsEnd
  <2>4. QED BY <1>2, <2>1, <2>2, <2>3
<1>3. ASSUME NEW r \in Result, Accept(r) PROVE StreamTypeOK'
  BY <1>3 DEF Accept
<1>4. ASSUME NEW r \in Result, Give(r) PROVE StreamTypeOK'
  BY <1>4 DEF Give
<1>5. ASSUME NEW r \in Result, Drop(r) PROVE StreamTypeOK'
  BY <1>5 DEF Drop
<1>6. CASE Continue
  <2>1. runDone' \in BOOLEAN
    BY <1>6 DEF Continue
  <2>2. QED BY <1>6, <2>1 DEF Continue
<1>7. CASE Break \/ RunEnds \/ CancelStream \/ UNCHANGED streamVars
  <2>1. CASE Break
    BY <2>1 DEF Break
  <2>2. CASE RunEnds
    BY <2>2 DEF RunEnds, EndRun
  <2>3. CASE CancelStream
    BY <2>3 DEF CancelStream
  <2>4. CASE UNCHANGED streamVars
    BY <2>4
  <2>5. QED BY <1>7, <2>1, <2>2, <2>3, <2>4
<1>8. QED BY <1>1, <1>2, <1>3, <1>4, <1>5, <1>6, <1>7 DEF StreamNext, StreamRuns

\* In every run the stream has its types.
LEMMA StreamTypes == RunSpec => []StreamTypeOK
<1>1. StreamInit => StreamTypeOK
  BY DEF StreamInit, StreamTypeOK
<1>2. StreamTypeOK /\ [StreamNext]_streamVars => StreamTypeOK'
  BY StreamKeepsTypes
<1>3. QED BY <1>1, <1>2, RunImplementsStream, PTL DEF RunsTheStream, StreamSpec

\* The parts of the invariant that the components do not know of.
OwnInv ==
  /\ pipeline \in Pipelines /\ outerDone \in BOOLEAN
  /\ {failure, firstError} \subseteq Side \cup {"none"}
  /\ result \in Side \cup {"running", "nil", "cancelled"}
  /\ hand \in Message \cup {NoItem} /\ outClosed \in BOOLEAN
  /\ stageErrs \in 0..MaxTransformErrs
  /\ stageFwd \in {"recv", "hold", "exited"}

\* A report stores the first error, and keeps the types.
LEMMA ReportKeeps ==
  ASSUME OwnInv, ReportInv, runDone \in BOOLEAN, NEW side \in Side, Report(side),
         UNCHANGED pipeline
  PROVE  /\ {failure', firstError'} \subseteq Side \cup {"none"}
         /\ ReportInv'
<1> USE DEF HasTransformer, ExitOnError
<1>1. "none" \notin Side
  BY DEF Side
<1>2. QED BY <1>1 DEF Report, EndRun, OwnInv, ReportInv

\* The context of a run never comes back to life.
LEMMA DoneStaysDone ==
  ASSUME runDone \in BOOLEAN, [RunNext]_runVars
  PROVE  runDone' \in {runDone, TRUE}
<1> SUFFICES ASSUME [StreamNext]_streamVars PROVE runDone' \in {runDone, TRUE}
  BY StreamSteps
<1> QED BY DEF StreamNext, StreamRuns, SourceOpens, SourceEnds, FeederEnds, StreamEnds, Accept, Give, Drop, LoopMeetsEnd, Continue, Break, RunEnds, EndRun, CancelStream, streamVars

\* The stored failure: only reports change it, and they store the first error.
LEMMA KeepsOwn ==
  ASSUME RunInv, [RunNext]_runVars
  PROVE  OwnInv' /\ ReportInv'
<1> USE DEF runVars, callVars, stageVars, reportVars
<1>1. OwnInv /\ ReportInv /\ runDone \in BOOLEAN /\ runDone' \in {runDone, TRUE}
  BY DoneStaysDone DEF RunInv, RunTypeOK, OwnInv, SinkTypeOK
<1>2. ASSUME UNCHANGED <<pipeline, reportVars>> PROVE ReportInv'
  BY <1>1, <1>2 DEF ReportInv, HasTransformer, ExitOnError
<1>3. "producer" \in Side /\ "transformer" \in Side /\ "consumer" \in Side
  BY DEF Side
<1>4. CASE Body
  <2>1. CASE BodyReports
    BY <1>1, <1>3, <2>1, ReportKeeps DEF BodyReports, OwnInv
  <2>2. CASE BodySends \/ BodySendEnds \/ BodyStreamOver
    BY <1>1, <1>2, <2>2 DEF BodySends, BodySendEnds, BodyStreamOver, OwnInv
  <2>3. QED BY <1>4, <2>1, <2>2 DEF Body
<1>5. CASE Stage
  <2>1. CASE StageFeeds \/ StageGivesUp \/ StageStreamOver \/ StageSends \/ TransformerDrops \/ TransformerCloses \/ StageFwdExits
    BY <1>1, <1>2, <2>1 DEF StageFeeds, StageGivesUp, StageStreamOver, StageSends, TransformerDrops, TransformerCloses, StageFwdExits, OwnInv
  <2>2. CASE TransformerFails
    <3>1. stageErrs + 1 \in 0..MaxTransformErrs
      BY <1>1, <2>2, RunAssumption DEF TransformerFails, OwnInv
    <3>2. QED BY <1>1, <1>2, <2>2, <3>1 DEF TransformerFails, OwnInv
  <2>3. CASE TransformerReported
    BY <1>1, <1>3, <2>3, ReportKeeps DEF TransformerReported, OwnInv
  <2>4. QED BY <1>5, <2>1, <2>2, <2>3 DEF Stage
<1>6. CASE Main
  <2>1. CASE MainLeavesStage \/ StageCancel \/ SendGoesOn \/ ShutDown
    BY <1>1, <1>2, <2>1 DEF MainLeavesStage, StageCancel, SendGoesOn, ShutDown, OwnInv
  <2>2. CASE Return
    BY <1>1, <1>2, <2>2 DEF Return, OwnInv
  <2>3. QED BY <1>6, <2>1, <2>2 DEF Main
<1>7. CASE ConsumerSide
  <2>1. PICK c \in Consumer : ConsumerStep(c)
    BY <1>7 DEF ConsumerSide
  <2>2. CASE Report("consumer")
    BY <1>1, <1>3, <2>1, <2>2, ReportKeeps DEF ConsumerStep, OwnInv
  <2>3. CASE UNCHANGED reportVars
    BY <1>1, <1>2, <2>1, <2>3 DEF ConsumerStep, OwnInv
  <2>4. QED BY <2>1, <2>2, <2>3 DEF ConsumerStep
<1>8. CASE StreamSide \/ CallerCancels \/ UNCHANGED runVars
  BY <1>1, <1>2, <1>8 DEF StreamSide, RestUnchanged, CallerCancels, OwnInv
<1>9. QED BY <1>4, <1>5, <1>6, <1>7, <1>8 DEF RunNext

\* What is over stays over, and the pipeline is the same throughout.
LEMMA StaysOver ==
  ASSUME RunInv, [RunNext]_runVars
  PROVE  /\ left => left'
         /\ streamCancelled => streamCancelled'
         /\ stageFwd = "exited" => stageFwd' = "exited"
         /\ UNCHANGED pipeline
<1>1. [StreamNext]_streamVars
  BY StreamSteps DEF RunInv, RunTypeOK, SinkTypeOK
<1>2. ASSUME left PROVE left'
  BY <1>1, <1>2 DEF StreamNext, StreamRuns, SourceOpens, SourceEnds, FeederEnds, StreamEnds, Accept, Give, Drop, LoopMeetsEnd, Continue, Break, RunEnds, CancelStream, streamVars, streamOwnVars
<1>3. ASSUME streamCancelled PROVE streamCancelled'
  BY <1>1, <1>3 DEF StreamNext, StreamRuns, SourceOpens, SourceEnds, FeederEnds, StreamEnds, Accept, Give, Drop, LoopMeetsEnd, Continue, Break, RunEnds, CancelStream, streamVars, streamOwnVars
<1> USE DEF runVars, callVars, stageVars
<1>4. (stageFwd = "exited" => stageFwd' = "exited") /\ UNCHANGED pipeline
  BY DEF RunNext, Body, BodyReports, BodySends, BodySendEnds, BodyStreamOver, Stage, StageFeeds, StageGivesUp, StageStreamOver, StageSends, TransformerDrops, TransformerCloses, TransformerFails, TransformerReported, StageFwdExits, Main, MainLeavesStage, StageCancel, SendGoesOn, ShutDown, Return, ConsumerSide, ConsumerStep, StreamSide, RestUnchanged, CallerCancels
<1>5. QED BY <1>2, <1>3, <1>4

\* The main goroutine: where it goes, and what it waited for.
LEMMA MainMoves ==
  ASSUME RunInv, [RunNext]_runVars
  PROVE  \/ UNCHANGED <<main, result>>
         \/ /\ main \in {"range", "send"} /\ UNCHANGED result
            /\ \/ main' \in {"range", "send"}
               \/ main' = "stop" /\ (HasTransformer \/ left')
         \/ /\ main = "stop" /\ main' = "flush" /\ UNCHANGED result
            /\ HasTransformer => stageJoined
         \/ /\ main \in {"flush", "cancel"} /\ main' \in {"cancel", "wait"}
            /\ UNCHANGED result
         \/ main = "wait" /\ main' = "returned" /\ Return
<1> USE DEF runVars, callVars, sinkOwnVars, mainVars
<1>1. CASE Body
  <2>1. CASE BodyReports
    BY <2>1 DEF BodyReports
  <2>2. CASE BodySends
    BY <2>2 DEF BodySends, SendStart
  <2>3. CASE BodySendEnds
    BY <2>3 DEF BodySendEnds, SendEnds, SendCancelled, Break
  <2>4. CASE BodyStreamOver
    BY <2>4 DEF BodyStreamOver, RangeEnds, LoopMeetsEnd
  <2>5. QED BY <1>1, <2>1, <2>2, <2>3, <2>4 DEF Body
<1>2. CASE Stage
  <2>1. CASE StageSends
    BY <2>1 DEF StageSends, SendStart
  <2>2. CASE ~StageSends
    BY <1>2, <2>2 DEF Stage, StageFeeds, StageGivesUp, StageStreamOver, TransformerDrops, TransformerCloses, TransformerFails, TransformerReported, StageFwdExits
  <2>3. QED BY <2>1, <2>2
<1>3. CASE Main
  <2>1. CASE MainLeavesStage
    BY <2>1 DEF MainLeavesStage, SendEnds, SendCancelled, RangeEnds
  <2>2. CASE StageCancel \/ SendGoesOn
    BY <2>2 DEF StageCancel, SendGoesOn, SendSkips, SendDelivers, SendFindsDone
  <2>3. CASE ShutDown
    BY <2>3 DEF ShutDown, CloseIns, FlushNext, FlushCancelled, FlushEnds, CancelRun
  <2>4. CASE Return
    BY <2>4 DEF Return, WaitErrs
  <2>5. QED BY <1>3, <2>1, <2>2, <2>3, <2>4 DEF Main
<1>4. CASE ConsumerSide
  BY <1>4 DEF ConsumerSide, ConsumerStep, ConsumerFails, ConsFwdExits, ConsumerDone, ConsumerReturns, ConsumerReported
<1>5. CASE StreamSide \/ CallerCancels \/ UNCHANGED runVars
  BY <1>5 DEF StreamSide, RestUnchanged, CallerCancels
<1>6. QED BY <1>1, <1>2, <1>3, <1>4, <1>5 DEF RunNext

\* Nothing is reported after the return: whoever could report was joined.
LEMMA QuietAfterReturn ==
  ASSUME RunInv, [RunNext]_runVars, main = "returned"
  PROVE  /\ UNCHANGED <<main, result, reportVars>>
         /\ \A c \in Consumer : consFwd'[c] = "exited"
<1>1. /\ item = NoItem /\ stageFwd = "exited"
      /\ \A c \in Consumer : consFwd[c] = "exited"
  BY DEF RunInv, RunTypeOK, StreamTypeOK, JoinInv, stageJoined
<1>2. UNCHANGED <<main, result>>
  BY MainMoves
<1> USE DEF runVars, callVars, stageVars, reportVars, sinkOwnVars, mainVars, consumerVars
<1>3. CASE Body \/ Stage \/ StreamSide \/ CallerCancels \/ UNCHANGED runVars
  BY <1>1, <1>2, <1>3 DEF Body, BodyReports, BodySends, BodySendEnds, BodyStreamOver, SendStart, SendEnds, SendCancelled, RangeEnds, Stage, StageFeeds, StageGivesUp, StageStreamOver, StageSends, TransformerDrops, TransformerCloses, TransformerFails, TransformerReported, StageFwdExits, StreamSide, RestUnchanged, CallerCancels
<1>4. CASE Main
  BY <1>1, <1>2, <1>4 DEF Main, MainLeavesStage, SendEnds, SendCancelled, RangeEnds, StageCancel, SendGoesOn, SendSkips, SendDelivers, SendFindsDone, ShutDown, CloseIns, FlushNext, FlushCancelled, FlushEnds, CancelRun, Return, WaitErrs
<1>5. CASE ConsumerSide
  BY <1>1, <1>2, <1>5 DEF ConsumerSide, ConsumerStep, ConsumerFails, ConsFwdExits, ConsumerDone, ConsumerReturns, ConsumerReported
<1>6. QED BY <1>2, <1>3, <1>4, <1>5 DEF RunNext

\* No step passes a join before what it joins is over.
LEMMA KeepsJoins ==
  ASSUME RunInv, [RunNext]_runVars
  PROVE  JoinInv'
<1> USE DEF HasTransformer, stageJoined
<1>1. main' \notin {"range", "send"} =>
        IF HasTransformer' THEN main' = "stop" \/ stageJoined' ELSE left'
  BY MainMoves, StaysOver DEF RunInv, JoinInv
<1>2. ~HasTransformer' => stageFwd' = "exited"
  BY StaysOver DEF RunInv, JoinInv
<1>3. result' # "running" <=> main' = "returned"
  <2>1. CASE UNCHANGED <<main, result>>
    BY <2>1 DEF RunInv, JoinInv
  <2>2. CASE main = "wait" /\ main' = "returned" /\ Return
    BY <2>2 DEF Return, RunInv, RunTypeOK, Side, JoinInv, ReportInv
  <2>3. QED BY <2>1, <2>2, MainMoves DEF RunInv, JoinInv
<1>4. main' = "returned" => \A c \in Consumer : consFwd'[c] = "exited"
  <2>1. CASE main = "returned"
    BY <2>1, QuietAfterReturn
  <2>2. CASE main # "returned"
    BY <2>2, MainMoves DEF Return, WaitErrs, consumerVars
  <2>3. QED BY <2>1, <2>2
<1>5. QED BY <1>1, <1>2, <1>3, <1>4 DEF JoinInv

\* A run that returns returns the stored failure, and keeps to it.
LEMMA KeepsResult ==
  ASSUME RunInv, [RunNext]_runVars
  PROVE  ErrorsAreReturned'
<1> USE DEF ExitOnError, reportVars
<1>1. CASE main = "returned"
  BY <1>1, QuietAfterReturn, StaysOver DEF RunInv, ErrorsAreReturned
<1>2. CASE main # "returned" /\ Return
  BY <1>2 DEF Return, RunInv, RunTypeOK, ReportInv, ErrorsAreReturned
<1>3. CASE main # "returned" /\ ~Return
  BY <1>3, MainMoves DEF RunInv, JoinInv, ErrorsAreReturned
<1>4. QED BY <1>1, <1>2, <1>3

\* The invariant of a run holds in every state.
THEOREM RunInvHolds == RunSpec => []RunInv
<1>1. RunInit => RunInv
  <2> SUFFICES ASSUME RunInit PROVE RunInv
    OBVIOUS
  <2>1. SinkTypeOK /\ StreamTypeOK
    BY SinkInitInv DEF RunInit, StreamInit, StreamTypeOK, SinkInv
  <2>2. RunTypeOK
    <3>1. stageErrs \in 0..MaxTransformErrs
      BY RunAssumption DEF RunInit
    <3>2. stageFwd \in {"recv", "hold", "exited"}
      BY DEF RunInit
    <3>3. QED BY <2>1, <3>1, <3>2 DEF RunInit, RunTypeOK
  <2>3. JoinInv /\ ReportInv /\ ErrorsAreReturned
    BY DEF RunInit, SinkInit, JoinInv, ReportInv, ErrorsAreReturned
  <2>4. QED BY <2>2, <2>3 DEF RunInv
<1>2. RunInv /\ SinkInv' /\ StreamTypeOK' /\ [RunNext]_runVars => RunInv'
  BY KeepsOwn, KeepsJoins, KeepsResult DEF RunInv, RunTypeOK, OwnInv, SinkInv
<1>3. QED BY <1>1, <1>2, StreamTypes, RunImplementsSink, SinkInvHolds, PTL DEF RunSpec, RunsTheSink

\* The first error reported under exit-on-error is what the run returns.
THEOREM RunReturnsErrors == RunSpec => []ErrorsAreReturned
<1>1. RunInv => ErrorsAreReturned
  BY DEF RunInv
<1>2. QED BY <1>1, RunInvHolds, PTL

-----------------------------------------------------------------------------
(* Sequences without repetition.                                           *)

\* Appending what a sequence does not hold adds it, and repeats nothing.
LEMMA AppendUnsent ==
  ASSUME NEW S, NEW s \in Seq(S), NEW m \in S
  PROVE  /\ ToSet(Append(s, m)) = ToSet(s) \cup {m}
         /\ IsInjective(s) /\ m \notin ToSet(s) => IsInjective(Append(s, m))
<1> DEFINE t == Append(s, m)
<1>1. /\ Len(s) \in Nat /\ Len(t) = Len(s) + 1
      /\ DOMAIN s = 1..Len(s) /\ DOMAIN t = 1..(Len(s) + 1)
      /\ \A i \in 1..Len(s) : t[i] = s[i]
      /\ t[Len(s) + 1] = m
  OBVIOUS
<1> HIDE DEF t
<1>2. \A i \in DOMAIN t : i \in DOMAIN s \/ i = Len(s) + 1
  BY <1>1
<1>3. DOMAIN s \subseteq DOMAIN t /\ Len(s) + 1 \in DOMAIN t
  BY <1>1
<1>4. ToSet(t) = ToSet(s) \cup {m}
  <2>1. ToSet(t) \subseteq ToSet(s) \cup {m}
    BY <1>1, <1>2 DEF ToSet
  <2>2. ToSet(s) \cup {m} \subseteq ToSet(t)
    BY <1>1, <1>3 DEF ToSet
  <2>3. QED BY <2>1, <2>2
<1>5. ASSUME IsInjective(s), m \notin ToSet(s)
      PROVE  IsInjective(t)
  <2>1. \A i \in DOMAIN s : t[i] = s[i] /\ t[i] # m
    BY <1>1, <1>5 DEF ToSet
  <2>2. QED BY <1>1, <1>2, <1>5, <2>1 DEF IsInjective
<1>6. QED BY <1>4, <1>5 DEF t

\* A prefix holds nothing else, and repeats nothing that the whole does not.
LEMMA PrefixUnsent ==
  ASSUME NEW S, NEW s \in Seq(S), NEW t \in Seq(S), IsPrefix(s, t)
  PROVE  /\ ToSet(s) \subseteq ToSet(t)
         /\ IsInjective(t) => IsInjective(s)
<1>1. Len(s) <= Len(t) /\ \A i \in 1..Len(s) : s[i] = t[i]
  BY PrefixMeans
<1>2. DOMAIN s = 1..Len(s) /\ DOMAIN t = 1..Len(t) /\ DOMAIN s \subseteq DOMAIN t
  BY <1>1
<1>3. QED BY <1>1, <1>2 DEF ToSet, IsInjective

\* The messages among the results, and what was yielded of them.
LEMMA MessagesAreResults ==
  /\ NoItem \notin Result /\ NoItem \notin Message /\ Message \subseteq Result
  /\ \A r \in Result : r \in Message <=> r.kind = "msg"
  /\ yielded \subseteq Result => Yielded = yielded \cap Message
BY RunAssumption, ResultsAssumption DEF Yielded

-----------------------------------------------------------------------------
(* The histories of the stream.                                            *)

\* A step of the stream yields no result twice, and adds none after its end.
LEMMA StreamKeepsHistories ==
  ASSUME StreamTypeOK, HistoriesInv, [StreamNext]_streamVars
  PROVE  HistoriesInv'
<1> USE DEF StreamTypeOK, HistoriesInv, streamVars, streamOwnVars, streamDone
<1>1. ASSUME NEW p \in Producer, SourceOpens(p) \/ SourceEnds(p) PROVE HistoriesInv'
  BY <1>1 DEF SourceOpens, SourceEnds
<1>2. CASE FeederEnds \/ StreamEnds \/ LoopMeetsEnd
  BY <1>2 DEF FeederEnds, StreamEnds, LoopMeetsEnd
<1>3. ASSUME NEW r \in Result, Accept(r) PROVE HistoriesInv'
  <2>1. ~ended
    BY <1>3 DEF Accept, Result
  <2>2. QED BY <1>3, <2>1 DEF Accept
<1>4. ASSUME NEW r \in Result, Give(r) PROVE HistoriesInv'
  BY <1>4 DEF Give
<1>5. ASSUME NEW r \in Result, Drop(r) PROVE HistoriesInv'
  <2>1. ~ended
    BY <1>5 DEF Drop
  <2>2. QED BY <1>5, <2>1 DEF Drop
<1>6. CASE Continue \/ Break \/ RunEnds \/ CancelStream \/ UNCHANGED streamVars
  <2>1. CASE Continue
    <3>1. runDone => runDone'
      BY <2>1 DEF Continue
    <3>2. QED BY <2>1, <3>1 DEF Continue
  <2>2. CASE Break
    BY <2>2 DEF Break
  <2>3. CASE RunEnds \/ CancelStream \/ UNCHANGED streamVars
    BY <2>3 DEF RunEnds, EndRun, CancelStream
  <2>4. QED BY <1>6, <2>1, <2>2, <2>3
<1>7. QED BY <1>1, <1>2, <1>3, <1>4, <1>5, <1>6 DEF StreamNext, StreamRuns

\* A stream that ended and was yielded whole stays so.
LEMMA YieldedStays ==
  ASSUME StreamTypeOK, HistoriesInv, [StreamNext]_streamVars, ended, taken = yielded
  PROVE  taken' = yielded'
<1> USE DEF StreamTypeOK, HistoriesInv, streamVars, streamOwnVars
<1>1. ASSUME NEW r \in Result, Accept(r) PROVE FALSE
  BY <1>1 DEF Accept, Result
<1>2. ASSUME NEW r \in Result, Give(r) \/ Drop(r) PROVE FALSE
  BY <1>2 DEF Give, Drop
<1>3. UNCHANGED <<taken, yielded>>
  BY <1>1, <1>2 DEF StreamNext, StreamRuns, SourceOpens, SourceEnds, FeederEnds, StreamEnds, LoopMeetsEnd, Continue, Break, RunEnds, CancelStream
<1>4. QED BY <1>3

\* What the goroutines behind the stream do to its loop: they may give it a
\* result while it waits.
LEMMA StreamSideGives ==
  ASSUME StreamSide
  PROVE  /\ UNCHANGED <<left, runDone, streamCancelled, callVars, reportVars, stageVars, sinkOwnVars>>
         /\ ended => ended'
         /\ \/ UNCHANGED <<item, yielded>>
            \/ \E r \in backlog : /\ item = NoItem /\ ~left /\ r \in Result
                                  /\ item' = r /\ yielded' = yielded \cup {r}
<1>1. UNCHANGED <<callVars, reportVars, stageVars, sinkOwnVars>>
  BY DEF StreamSide, RestUnchanged
<1>2. ASSUME NEW r \in Result, Give(r)
      PROVE  /\ UNCHANGED <<left, runDone, streamCancelled, ended>>
             /\ r \in backlog /\ item = NoItem /\ ~left /\ item' = r /\ yielded' = yielded \cup {r}
  BY <1>2 DEF Give
<1>3. ASSUME ~\E r \in Result : Give(r)
      PROVE  /\ UNCHANGED <<left, runDone, streamCancelled, item, yielded>>
             /\ ended => ended'
  BY <1>3 DEF StreamSide, StreamRuns, SourceOpens, SourceEnds, FeederEnds, StreamEnds, Accept, Drop
<1>4. QED BY <1>1, <1>2, <1>3

-----------------------------------------------------------------------------
(* Where the messages are.                                                 *)

\* Without a transformer main is the loop, and serves consumers until it left.
DirectLoop == ~HasTransformer /\ main \notin {"range", "send"} => left

\* The invariant stays when no message moves, and main only on the far side of
\* a transformer, or after the loops.
LEMMA PlacesStay ==
  ASSUME OnePlaceInv, UNCHANGED <<pipeline, item, hand, dispatched, yielded>>,
         \/ UNCHANGED main
         \/ HasTransformer
         \/ main \notin {"range", "send"} /\ main' \notin {"range", "send"}
  PROVE  OnePlaceInv'
BY DEF OnePlaceInv, Unsent, Yielded, HasTransformer

\* A message that the loop is given is nowhere else.
LEMMA GiveKeepsPlaces ==
  ASSUME OnePlaceInv, HistoriesInv, StreamTypeOK, DirectLoop, StreamSide
  PROVE  OnePlaceInv'
<1> USE DEF callVars, stageVars, sinkOwnVars, mainVars
<1>1. UNCHANGED <<pipeline, main, hand, dispatched, left>>
  BY StreamSideGives
<1>2. CASE UNCHANGED <<item, yielded>>
  BY <1>1, <1>2, PlacesStay
<1>3. ASSUME NEW r \in backlog, item = NoItem, ~left, r \in Result,
             item' = r, yielded' = yielded \cup {r}
      PROVE  OnePlaceInv'
  <2>1. r \notin yielded /\ r # NoItem /\ item \notin Message
    BY <1>3, MessagesAreResults DEF HistoriesInv
  <2>2. Yielded \subseteq Yielded' /\ Yielded' \subseteq Yielded \cup {r} /\ r \notin Yielded /\ NoItem \notin Yielded
    BY <1>3, <2>1, MessagesAreResults DEF Yielded, StreamTypeOK
  <2>3. ~HasTransformer => main = "range"
    BY <1>3, <2>1 DEF DirectLoop, OnePlaceInv
  <2>4. r # hand /\ Unsent(r)
    BY <2>1, <2>2 DEF OnePlaceInv, Unsent
  <2>5. ToSet(dispatched)' \subseteq Yielded' /\ IsInjective(dispatched)'
    BY <1>1, <2>2 DEF OnePlaceInv
  <2>6. hand' # NoItem => HasTransformer' /\ hand' \in Yielded' /\ Unsent(hand)'
    BY <1>1, <2>2 DEF OnePlaceInv, Unsent, HasTransformer
  <2>7. ~HasTransformer' => Yielded' \subseteq ToSet(dispatched)' \cup {item'}
    BY <1>1, <1>3, <2>2, <2>3 DEF OnePlaceInv, HasTransformer
  <2>8. QED BY <1>1, <1>3, <2>3, <2>4, <2>5, <2>6, <2>7 DEF OnePlaceInv, Unsent, HasTransformer
<1>4. QED BY <1>2, <1>3, StreamSideGives

\* A message that is handed to send was not before.
LEMMA SendKeepsPlaces ==
  ASSUME OnePlaceInv, HistoriesInv, StreamTypeOK, SinkTypeOK, BodySends \/ StageSends
  PROVE  OnePlaceInv'
<1> DEFINE m == IF HasTransformer THEN hand ELSE item
<1>1. /\ m \in Message /\ SendStart(m) /\ UNCHANGED <<pipeline, item, yielded>>
      /\ HasTransformer => hand' = NoItem
      /\ ~HasTransformer => UNCHANGED hand
  BY MessagesAreResults DEF BodySends, StageSends, OnePlaceInv, callVars, stageVars, streamOwnVars
<1>2. /\ main = "range" /\ main' = "send" /\ dispatched' = Append(dispatched, m)
      /\ dispatched \in Seq(Message)
  BY <1>1 DEF SendStart, SinkTypeOK
<1>3. Unsent(m) /\ m \in Yielded /\ m # NoItem
  BY <1>1, <1>2, MessagesAreResults DEF OnePlaceInv, HistoriesInv, StreamTypeOK
<1>4. (HasTransformer /\ item \in Message => item # m) /\ (~HasTransformer => item = m)
  BY DEF OnePlaceInv
<1> HIDE DEF m
<1>5. ToSet(dispatched') = ToSet(dispatched) \cup {m} /\ IsInjective(dispatched')
  BY <1>1, <1>2, <1>3, AppendUnsent DEF OnePlaceInv, Unsent
<1>6. Yielded' = Yielded /\ HasTransformer' = HasTransformer
  BY <1>1 DEF Yielded, HasTransformer
<1>7. item' \in Message => item' # hand' /\ (HasTransformer' => Unsent(item)')
  <2>1. ASSUME item \in Message, HasTransformer PROVE item \notin ToSet(dispatched')
    BY <1>4, <1>5, <2>1 DEF OnePlaceInv, Unsent
  <2>2. ASSUME item \in Message PROVE item # hand'
    BY <1>1, <2>2, MessagesAreResults DEF OnePlaceInv
  <2>3. QED BY <1>1, <1>6, <2>1, <2>2 DEF Unsent
<1>8. hand' # NoItem => HasTransformer' /\ hand' \in Yielded' /\ Unsent(hand)'
  BY <1>1, <1>6 DEF OnePlaceInv
<1>9. ~HasTransformer' => item' \in Message /\ Yielded' \subseteq ToSet(dispatched')
  BY <1>1, <1>2, <1>4, <1>5, <1>6 DEF OnePlaceInv
<1>10. QED BY <1>2, <1>3, <1>5, <1>6, <1>7, <1>8, <1>9 DEF OnePlaceInv

\* A message has one place after every step of a run.
LEMMA KeepsOnePlace ==
  ASSUME OnePlaceInv, HistoriesInv, RunInv, [RunNext]_runVars
  PROVE  OnePlaceInv'
<1> USE DEF runVars, callVars, stageVars, sinkOwnVars, mainVars, streamOwnVars
<1>1. StreamTypeOK /\ SinkTypeOK /\ DirectLoop /\ (left => item = NoItem)
  BY DEF RunInv, RunTypeOK, JoinInv, DirectLoop, StreamTypeOK
<1>2. item # NoItem => (item \in Message <=> item.kind = "msg") /\ item \in yielded
  BY <1>1, MessagesAreResults DEF HistoriesInv, StreamTypeOK
<1>3. NoItem \notin Message /\ NoItem \notin Yielded /\ Yielded = yielded \cap Message
  BY <1>1, MessagesAreResults DEF StreamTypeOK
<1>4. CASE BodyReports \/ BodySendEnds \/ BodyStreamOver
  <2>1. UNCHANGED <<pipeline, hand, dispatched, yielded>> /\ item' \notin Message
    BY <1>3, <1>4 DEF BodyReports, BodySendEnds, BodyStreamOver, Continue, Break, SendEnds, SendCancelled, LoopMeetsEnd, RangeEnds
  <2>2. /\ ~HasTransformer /\ main' = "send" => main = "send" /\ item \in Message /\ BodyReports
        /\ ~HasTransformer => Yielded \subseteq ToSet(dispatched)
    <3>1. CASE BodyReports
      BY <1>2, <1>3, <3>1 DEF BodyReports, OnePlaceInv
    <3>2. CASE BodySendEnds
      BY <3>2 DEF BodySendEnds, SendEnds, SendCancelled, OnePlaceInv
    <3>3. CASE BodyStreamOver
      BY <1>3, <3>3 DEF BodyStreamOver, LoopMeetsEnd, RangeEnds, OnePlaceInv
    <3>4. QED BY <1>4, <3>1, <3>2, <3>3
  <2>3. ~HasTransformer => main' # "send"
    BY <1>2, <2>2 DEF BodyReports
  <2>4. QED BY <2>1, <2>2, <2>3 DEF OnePlaceInv, Unsent, Yielded, HasTransformer
<1>5. CASE BodySends \/ StageSends
  BY <1>1, <1>5, SendKeepsPlaces
<1>6. CASE StageFeeds \/ StageGivesUp \/ TransformerDrops \/ TransformerCloses
  <2>1. /\ UNCHANGED <<pipeline, main, dispatched, yielded>> /\ HasTransformer
        /\ item' \in {item, NoItem}
        /\ hand' \in {hand, NoItem} \/ (hand' = item /\ item \in Message /\ item' = NoItem)
    BY <1>3, <1>6 DEF StageFeeds, StageGivesUp, TransformerDrops, TransformerCloses, Continue, Break, OnePlaceInv
  <2>2. QED
    BY <1>2, <1>3, <2>1 DEF OnePlaceInv, Unsent, Yielded, HasTransformer
<1>7. CASE StageStreamOver \/ TransformerFails \/ TransformerReported \/ StageFwdExits
  BY <1>7, PlacesStay DEF StageStreamOver, LoopMeetsEnd, TransformerFails, TransformerReported, StageFwdExits
<1>8. CASE Main
  <2>1. UNCHANGED <<pipeline, item, hand, dispatched, yielded>>
    BY <1>8 DEF Main, MainLeavesStage, StageCancel, CancelStream, SendGoesOn, ShutDown, Return, SendEnds, SendCancelled, RangeEnds, SendSkips, SendDelivers, SendFindsDone, CloseIns, FlushNext, FlushCancelled, FlushEnds, CancelRun, WaitErrs
  <2>2. \/ UNCHANGED main
        \/ HasTransformer
        \/ main \notin {"range", "send"} /\ main' \notin {"range", "send"}
    BY <1>8 DEF Main, MainLeavesStage, StageCancel, SendGoesOn, ShutDown, Return, SendSkips, SendDelivers, SendFindsDone, CloseIns, FlushNext, FlushCancelled, FlushEnds, CancelRun, WaitErrs
  <2>3. QED BY <2>1, <2>2, PlacesStay
<1>9. CASE StreamSide
  BY <1>1, <1>9, GiveKeepsPlaces
<1>10. CASE ConsumerSide
  BY <1>10, PlacesStay DEF ConsumerSide, ConsumerStep, ConsumerFails, ConsFwdExits, ConsumerDone, ConsumerReturns, ConsumerReported
<1>11. CASE CallerCancels \/ UNCHANGED runVars
  BY <1>11, PlacesStay DEF CallerCancels
<1>12. QED BY <1>4, <1>5, <1>6, <1>7, <1>8, <1>9, <1>10, <1>11 DEF RunNext, Body, Stage

-----------------------------------------------------------------------------
(* Why the loops are left.                                                 *)

\* What is over stays over, and a run that is untroubled always was.
LEMMA MoreStaysOver ==
  ASSUME RunInv, [RunNext]_runVars
  PROVE  /\ ended => ended'
         /\ stageDone => stageDone'
         /\ finished \subseteq finished' /\ doneClosed \subseteq doneClosed'
         /\ Untroubled' => Untroubled
         /\ failure' = "none" /\ ~outerDone' => failure = "none" /\ ~outerDone
<1> USE DEF runVars, callVars, reportVars, stageVars, sinkOwnVars, mainVars, consumerVars
<1>1. [StreamNext]_streamVars /\ [SinkNext]_sinkVars
  BY StreamSteps, SinkStepsOfRun DEF RunInv, RunTypeOK, SinkTypeOK
<1>2. ended => ended'
  BY <1>1 DEF StreamNext, StreamRuns, SourceOpens, SourceEnds, FeederEnds, StreamEnds, Accept, Give, Drop, LoopMeetsEnd, Continue, Break, RunEnds, CancelStream, streamVars, streamOwnVars
<1>3. stageDone => stageDone'
  BY StaysOver, DoneStaysDone DEF stageDone, RunInv, RunTypeOK, SinkTypeOK
<1>4. finished \subseteq finished' /\ doneClosed \subseteq doneClosed'
  <2>1. CASE Send \/ RangeEnds \/ \E m \in Message : SendStart(m)
    BY <2>1 DEF SendStart, Send, SendSkips, SendDelivers, SendFindsDone, SendCancelled, SendEnds, RangeEnds
  <2>2. CASE WindDown
    BY <2>2 DEF WindDown, CloseIns, FlushNext, FlushCancelled, FlushEnds, CancelRun, WaitErrs
  <2>3. CASE Consumers
    BY <2>3 DEF Consumers, ConsumerFails, ConsFwdExits, ConsumerDone, ConsumerReturns, ConsumerReports, ConsumerReported
  <2>4. CASE RunIsEnded \/ UNCHANGED sinkVars
    BY <2>4 DEF RunIsEnded, sinkVars
  <2>5. QED BY <1>1, <2>1, <2>2, <2>3, <2>4 DEF SinkNext
<1>5. ASSUME NEW side \in Side, Report(side) PROVE failure' = "none" => failure = "none"
  BY <1>5 DEF Report, Side
<1>6. "producer" \in Side /\ "transformer" \in Side /\ "consumer" \in Side
  BY DEF Side
<1>7. (failure' = "none" => failure = "none") /\ (outerDone => outerDone') /\ (UNCHANGED result \/ Return)
  <2>1. CASE Body
    BY <1>5, <1>6, <2>1 DEF Body, BodyReports, BodySends, BodySendEnds, BodyStreamOver
  <2>2. CASE Stage
    BY <1>5, <1>6, <2>2 DEF Stage, StageFeeds, StageGivesUp, StageStreamOver, StageSends, TransformerDrops, TransformerCloses, TransformerFails, TransformerReported, StageFwdExits
  <2>3. CASE Main
    BY <2>3 DEF Main, MainLeavesStage, StageCancel, SendGoesOn, ShutDown, Return
  <2>4. CASE ConsumerSide
    BY <1>5, <1>6, <2>4 DEF ConsumerSide, ConsumerStep
  <2>5. CASE StreamSide \/ CallerCancels \/ UNCHANGED runVars
    BY <2>5 DEF StreamSide, RestUnchanged, CallerCancels
  <2>6. QED BY <2>1, <2>2, <2>3, <2>4, <2>5 DEF RunNext
<1>8. Return /\ result' = "nil" => failure = "none" /\ ~outerDone
  BY DEF Return, RunInv, RunTypeOK, Side
<1>9. Untroubled' => Untroubled
  BY <1>7, <1>8 DEF Untroubled, RunInv, RunTypeOK
<1>10. QED BY <1>2, <1>3, <1>4, <1>7, <1>9 DEF RunInv, RunTypeOK

\* An end of the run's context has a reason: a failure, the caller, or the
\* cancel at the end.
LEMMA ContextEndsForAReason ==
  ASSUME RunInv, CleanLeaveInv, [RunNext]_runVars
  PROVE  failure' = "none" /\ ~outerDone' /\ main' \notin {"wait", "returned"} => ~runDone'
<1> USE DEF runVars, callVars, reportVars, stageVars, sinkOwnVars, mainVars
<1> SUFFICES ASSUME failure' = "none", ~outerDone', main' \notin {"wait", "returned"}
             PROVE  ~runDone'
  OBVIOUS
<1>1. failure = "none" /\ ~outerDone
  BY MoreStaysOver
<1>2. main \notin {"wait", "returned"} /\ ~runDone
  BY <1>1, MainMoves DEF CleanLeaveInv
<1>3. ASSUME NEW side \in Side, Report(side) PROVE ~runDone'
  BY <1>1, <1>2, <1>3 DEF Report, Side
<1>4. "producer" \in Side /\ "transformer" \in Side /\ "consumer" \in Side
  BY DEF Side
<1>5. CASE Body
  <2>1. CASE BodyReports
    BY <1>3, <1>4, <2>1 DEF BodyReports
  <2>2. CASE BodySends \/ BodySendEnds \/ BodyStreamOver
    BY <1>2, <2>2 DEF BodySends, SendStart, BodySendEnds, SendEnds, SendCancelled, BodyStreamOver, RangeEnds
  <2>3. QED BY <1>5, <2>1, <2>2 DEF Body
<1>6. CASE Stage
  BY <1>2, <1>3, <1>4, <1>6 DEF Stage, StageFeeds, StageGivesUp, Break, StageStreamOver, LoopMeetsEnd, StageSends, SendStart, TransformerDrops, TransformerCloses, TransformerFails, TransformerReported, StageFwdExits
<1>7. CASE Main
  BY <1>2, <1>7 DEF Main, MainLeavesStage, StageCancel, CancelStream, SendGoesOn, ShutDown, Return, SendEnds, SendCancelled, RangeEnds, SendSkips, SendDelivers, SendFindsDone, CloseIns, FlushNext, FlushCancelled, FlushEnds, CancelRun, WaitErrs
<1>8. CASE ConsumerSide
  BY <1>2, <1>3, <1>4, <1>8 DEF ConsumerSide, ConsumerStep, ConsumerFails, ConsFwdExits, ConsumerDone, ConsumerReturns
<1>9. CASE StreamSide
  BY <1>2, <1>9, StreamSideGives
<1>10. CASE CallerCancels \/ UNCHANGED runVars
  BY <1>2, <1>10 DEF CallerCancels
<1>11. QED BY <1>2, <1>5, <1>6, <1>7, <1>8, <1>9, <1>10 DEF RunNext

\* The stage is cancelled after the loop of main; its feeder leaves at the end
\* of the stream or of its context, and so does the transformer's output.
LEMMA StageEndsForAReason ==
  ASSUME RunInv, HistoriesInv, OnePlaceInv, CleanLeaveInv, [RunNext]_runVars
  PROVE  /\ main' \in {"range", "send"} => ~streamCancelled'
         /\ HasTransformer' /\ left' /\ ~stageDone' => ended' /\ taken' = yielded'
         /\ outClosed' => HasTransformer' /\ (stageDone' \/ (ended' /\ left' /\ hand' = NoItem))
<1> USE DEF runVars, callVars, stageVars, sinkOwnVars, mainVars, streamOwnVars
<1>1. HasTransformer' = HasTransformer /\ (left => left') /\ (ended => ended') /\ (stageDone => stageDone')
  BY StaysOver, MoreStaysOver DEF HasTransformer
<1>2. main' \in {"range", "send"} => main \in {"range", "send"} /\ ~streamCancelled
  BY MainMoves DEF CleanLeaveInv
<1>3. UNCHANGED streamCancelled \/ main = "stop"
  BY DEF RunNext, Body, BodyReports, BodySends, BodySendEnds, BodyStreamOver, Continue, Break, LoopMeetsEnd, Stage, StageFeeds, StageGivesUp, StageStreamOver, StageSends, TransformerDrops, TransformerCloses, TransformerFails, TransformerReported, StageFwdExits, Main, MainLeavesStage, StageCancel, SendGoesOn, ShutDown, Return, ConsumerSide, ConsumerStep, StreamSide, StreamRuns, SourceOpens, SourceEnds, FeederEnds, StreamEnds, Accept, Give, Drop, CallerCancels
<1>4. HasTransformer => UNCHANGED left \/ StageGivesUp \/ StageStreamOver
  BY DEF RunNext, Body, BodyReports, BodySends, BodySendEnds, BodyStreamOver, Continue, Stage, StageFeeds, StageSends, TransformerDrops, TransformerCloses, TransformerFails, TransformerReported, StageFwdExits, Main, MainLeavesStage, StageCancel, CancelStream, SendGoesOn, ShutDown, Return, ConsumerSide, ConsumerStep, StreamSide, StreamRuns, SourceOpens, SourceEnds, FeederEnds, StreamEnds, Accept, Give, Drop, CallerCancels
<1>5. HasTransformer /\ left' /\ ~stageDone' => ended' /\ taken' = yielded'
  <2> SUFFICES ASSUME HasTransformer, left', ~stageDone, ~StageGivesUp PROVE ended' /\ taken' = yielded'
    BY <1>1 DEF StageGivesUp
  <2>1. CASE left
    <3>1. StreamTypeOK /\ [StreamNext]_streamVars
      BY StreamSteps DEF RunInv, RunTypeOK, StreamTypeOK
    <3>2. ended /\ taken = yielded
      BY <2>1 DEF CleanLeaveInv
    <3>3. QED BY <1>1, <3>1, <3>2, YieldedStays
  <2>2. CASE StageStreamOver
    <3>1. ended /\ ~left /\ UNCHANGED <<ended, taken, yielded>>
      BY <2>2 DEF StageStreamOver, LoopMeetsEnd
    <3>2. QED BY <3>1 DEF HistoriesInv, streamDone, stageDone
  <2>3. QED BY <1>4, <2>1, <2>2
<1>6. \/ UNCHANGED <<outClosed, hand>>
      \/ hand' = NoItem /\ UNCHANGED outClosed
      \/ StageFeeds
      \/ TransformerCloses
  BY DEF RunNext, Body, BodyReports, BodySends, BodySendEnds, BodyStreamOver, Stage, StageGivesUp, StageStreamOver, StageSends, TransformerDrops, TransformerFails, TransformerReported, StageFwdExits, Main, MainLeavesStage, StageCancel, SendGoesOn, ShutDown, Return, ConsumerSide, ConsumerStep, StreamSide, RestUnchanged, CallerCancels
<1>7. outClosed' => HasTransformer /\ (stageDone' \/ (ended' /\ left' /\ hand' = NoItem))
  <2>1. CASE TransformerCloses
    BY <1>1, <2>1 DEF TransformerCloses, CleanLeaveInv
  <2>2. CASE StageFeeds
    BY <2>2 DEF StageFeeds
  <2>3. CASE UNCHANGED outClosed /\ hand' \in {hand, NoItem}
    BY <1>1, <2>3 DEF CleanLeaveInv
  <2>4. QED BY <1>6, <2>1, <2>2, <2>3
<1>8. QED BY <1>1, <1>2, <1>3, <1>5, <1>7

\* Once the loop of main is left, what was served stays so.
LEMMA ServedStays ==
  ASSUME RunInv, SinkInv, HistoriesInv, OnePlaceInv, Served, main \notin {"range", "send"}, [RunNext]_runVars
  PROVE  Served'
<1> USE DEF runVars, callVars, stageVars, sinkOwnVars, mainVars, streamOwnVars
<1>1. CASE finished = Consumer
  <2>1. finished' \subseteq Consumer
    <3>1. UNCHANGED finished
      BY DEF RunNext, Body, BodyReports, BodySends, SendStart, BodySendEnds, SendEnds, SendCancelled, BodyStreamOver, RangeEnds, Stage, StageFeeds, StageGivesUp, StageStreamOver, StageSends, TransformerDrops, TransformerCloses, TransformerFails, TransformerReported, StageFwdExits, Main, MainLeavesStage, StageCancel, SendGoesOn, SendSkips, SendDelivers, SendFindsDone, ShutDown, CloseIns, FlushNext, FlushCancelled, FlushEnds, CancelRun, Return, WaitErrs, ConsumerSide, ConsumerStep, ConsumerFails, ConsFwdExits, ConsumerDone, ConsumerReturns, ConsumerReported, StreamSide, RestUnchanged, CallerCancels
    <3>2. QED BY <1>1, <3>1
  <2>2. QED BY <1>1, <2>1, MoreStaysOver DEF Served
<1>2. CASE finished # Consumer
  <2>1. ended /\ left /\ hand = NoItem /\ item = NoItem /\ item \notin Message /\ hand \notin Message
    BY <1>2, MessagesAreResults DEF Served, RunInv, RunTypeOK, StreamTypeOK
  <2>2. ended' /\ left' /\ HasTransformer' = HasTransformer
    BY <2>1, StaysOver, MoreStaysOver DEF HasTransformer
  <2>3. UNCHANGED <<dispatched, received, yielded, finished>> /\ hand' = NoItem
    <3>1. CASE Body
      BY <2>1, <3>1 DEF Body, BodyReports, BodySends, BodySendEnds, SendEnds, SendCancelled, BodyStreamOver, LoopMeetsEnd
    <3>2. CASE Stage
      BY <2>1, <3>2 DEF Stage, StageFeeds, StageGivesUp, StageStreamOver, LoopMeetsEnd, StageSends, TransformerDrops, TransformerCloses, TransformerFails, TransformerReported, StageFwdExits, consumerVars
    <3>3. CASE Main
      BY <2>1, <3>3 DEF Main, MainLeavesStage, SendEnds, SendCancelled, RangeEnds, StageCancel, CancelStream, SendGoesOn, SendSkips, SendDelivers, SendFindsDone, ShutDown, CloseIns, FlushNext, FlushCancelled, FlushEnds, CancelRun, Return, WaitErrs, consumerVars
    <3>4. CASE ConsumerSide
      BY <2>1, <3>4 DEF ConsumerSide, ConsumerStep, ConsumerFails, ConsFwdExits, ConsumerDone, ConsumerReturns, ConsumerReported
    <3>5. CASE StreamSide
      BY <2>1, <3>5, StreamSideGives DEF consumerVars
    <3>6. CASE CallerCancels \/ UNCHANGED runVars
      BY <2>1, <3>6 DEF CallerCancels, consumerVars
    <3>7. QED BY <3>1, <3>2, <3>3, <3>4, <3>5, <3>6 DEF RunNext
  <2>4. taken' = yielded'
    <3>1. StreamTypeOK /\ [StreamNext]_streamVars
      BY StreamSteps DEF RunInv, RunTypeOK, StreamTypeOK
    <3>2. QED BY <1>2, <3>1, YieldedStays DEF Served
  <2>5. QED BY <1>2, <2>2, <2>3, <2>4 DEF Served, Yielded
<1>3. QED BY <1>1, <1>2

\* Main leaves its loop with everybody served, or in a run that is not
\* untroubled.
LEMMA LeavesServed ==
  ASSUME RunInv, SinkInv, HistoriesInv, OnePlaceInv, CleanLeaveInv, [RunNext]_runVars,
         Untroubled', main \in {"range", "send"}, main' \notin {"range", "send"}
  PROVE  Served'
<1> USE DEF runVars, callVars, stageVars, sinkOwnVars, mainVars, consumerVars, streamOwnVars
<1>1. result = "running" /\ failure = "none" /\ ~outerDone /\ ~runDone
  BY MoreStaysOver DEF RunInv, JoinInv, CleanLeaveInv, Untroubled
<1>2. finished \subseteq Consumer /\ \A c \in Consumer \ finished : main = "range" => received[c] = dispatched
  BY DEF SinkInv, SinkTypeOK, ServedInv, Due
<1>3. CASE BodySendEnds
  BY <1>1, <1>2, <1>3 DEF BodySendEnds, SendEnds, SendCancelled, Served
<1>4. CASE BodyStreamOver
  <2>1. /\ ended /\ ended' /\ ~left /\ left' /\ main = "range" /\ item = NoItem
        /\ ~HasTransformer
        /\ UNCHANGED <<pipeline, hand, taken, yielded, dispatched, received, finished>>
    BY <1>4 DEF BodyStreamOver, LoopMeetsEnd, RangeEnds
  <2>2. hand = NoItem
    BY <2>1 DEF OnePlaceInv
  <2>3. Yielded \subseteq ToSet(dispatched)
    <3>1. NoItem \notin Yielded
      BY MessagesAreResults DEF Yielded, RunInv, RunTypeOK, StreamTypeOK
    <3>2. QED BY <2>1, <3>1 DEF OnePlaceInv
  <2>4. taken = yielded
    BY <1>1, <2>1 DEF HistoriesInv, CleanLeaveInv, streamDone
  <2>5. QED BY <1>2, <2>1, <2>2, <2>3, <2>4 DEF Served, Yielded
<1>5. CASE MainLeavesStage
  <2>1. HasTransformer /\ UNCHANGED <<pipeline, hand, ended, left, taken, yielded, dispatched, received, finished>>
    BY <1>5 DEF MainLeavesStage, SendEnds, SendCancelled, RangeEnds
  <2>2. CASE SendEnds \/ SendCancelled
    BY <1>1, <1>2, <2>1, <2>2 DEF SendEnds, SendCancelled, Served
  <2>3. CASE outClosed /\ RangeEnds
    <3>1. main = "range" /\ ~stageDone
      BY <1>1, <2>3 DEF RangeEnds, CleanLeaveInv, stageDone
    <3>2. QED BY <1>2, <2>1, <2>3, <3>1 DEF Served, CleanLeaveInv, HasTransformer
  <2>4. QED BY <1>5, <2>2, <2>3 DEF MainLeavesStage
<1>6. ~BodySendEnds /\ ~BodyStreamOver /\ ~MainLeavesStage => main' \in {"range", "send"}
  BY DEF RunNext, Body, BodyReports, BodySends, SendStart, Stage, StageFeeds, StageGivesUp, StageStreamOver, StageSends, TransformerDrops, TransformerCloses, TransformerFails, TransformerReported, StageFwdExits, Main, StageCancel, SendGoesOn, SendSkips, SendDelivers, SendFindsDone, ShutDown, CloseIns, FlushNext, FlushCancelled, FlushEnds, CancelRun, Return, WaitErrs, ConsumerSide, ConsumerStep, ConsumerFails, ConsFwdExits, ConsumerDone, ConsumerReturns, ConsumerReported, StreamSide, RestUnchanged, CallerCancels, RunQuiet, SinkQuiet
<1>7. QED BY <1>3, <1>4, <1>5, <1>6

\* An untroubled run goes past its flush only when every consumer closed done.
LEMMA FlushedDone ==
  ASSUME RunInv, SinkInv, CleanLeaveInv, [RunNext]_runVars, Untroubled',
         main' \in {"cancel", "wait", "returned"}
  PROVE  doneClosed' = Consumer
<1> USE DEF runVars, callVars, stageVars, sinkOwnVars, mainVars, consumerVars
<1>1. doneClosed' \subseteq Consumer
  <2>1. doneClosed \subseteq Consumer /\ [SinkNext]_sinkVars
    BY SinkStepsOfRun DEF SinkInv, SinkTypeOK
  <2>2. QED BY <2>1 DEF SinkNext, SendStart, Send, SendSkips, SendDelivers, SendFindsDone, SendCancelled, SendEnds, RangeEnds, WindDown, CloseIns, FlushNext, FlushCancelled, FlushEnds, CancelRun, WaitErrs, Consumers, ConsumerFails, ConsFwdExits, ConsumerDone, ConsumerReturns, ConsumerReports, ConsumerReported, RunIsEnded, sinkVars
<1>2. Untroubled /\ doneClosed \subseteq doneClosed'
  BY MoreStaysOver
<1>3. CASE main \in {"cancel", "wait", "returned"}
  BY <1>1, <1>2, <1>3 DEF CleanLeaveInv
<1>4. CASE main \notin {"cancel", "wait", "returned"}
  <2>1. main = "flush" /\ ~runDone
    BY <1>2, <1>4, MainMoves DEF RunInv, RunTypeOK, SinkTypeOK, MainState, JoinInv, CleanLeaveInv, Untroubled
  <2>2. FlushEnds
    BY <1>4, <2>1 DEF RunNext, Body, BodyReports, BodySends, SendStart, BodySendEnds, SendEnds, SendCancelled, BodyStreamOver, RangeEnds, Stage, StageFeeds, StageGivesUp, StageStreamOver, StageSends, TransformerDrops, TransformerCloses, TransformerFails, TransformerReported, StageFwdExits, Main, MainLeavesStage, StageCancel, SendGoesOn, SendSkips, SendDelivers, SendFindsDone, ShutDown, CloseIns, FlushNext, FlushCancelled, CancelRun, Return, WaitErrs, ConsumerSide, ConsumerStep, ConsumerFails, ConsFwdExits, ConsumerDone, ConsumerReturns, ConsumerReported, StreamSide, RestUnchanged, CallerCancels, RunQuiet, SinkQuiet
  <2>3. \A c \in Consumer : c < NumConsumers + 1
    BY SinkAssumption DEF Consumer
  <2>4. QED BY <1>1, <1>2, <2>1, <2>2, <2>3 DEF FlushEnds, SinkInv, ServedInv
<1>5. QED BY <1>3, <1>4

\* What was received once was dispatched once.
LEMMA ReceivedOnce ==
  ASSUME SinkTypeOK, FanOut, OnePlaceInv
  PROVE  DeliveredOnce
<1> SUFFICES ASSUME NEW c \in Consumer
             PROVE  IsInjective(received[c]) /\ ToSet(received[c]) \subseteq Yielded
  BY DEF DeliveredOnce
<1>1. received[c] \in Seq(Message) /\ dispatched \in Seq(Message) /\ IsPrefix(received[c], dispatched)
  BY DEF SinkTypeOK, FanOut
<1>2. ToSet(received[c]) \subseteq ToSet(dispatched) /\ (IsInjective(dispatched) => IsInjective(received[c]))
  BY <1>1, PrefixUnsent
<1>3. QED BY <1>2 DEF OnePlaceInv

-----------------------------------------------------------------------------
(* The theorems.                                                           *)

\* The invariant of the delivery holds in every state of every run.
THEOREM DeliveryInvHolds == RunSpec => []DeliveryInv
<1>1. RunInit => HistoriesInv /\ OnePlaceInv /\ CleanLeaveInv
  <2> SUFFICES ASSUME RunInit PROVE HistoriesInv /\ OnePlaceInv /\ CleanLeaveInv
    OBVIOUS
  <2> USE DEF RunInit, StreamInit, SinkInit
  <2>1. HistoriesInv /\ CleanLeaveInv
    BY DEF HistoriesInv, CleanLeaveInv
  <2>2. DOMAIN dispatched = {} /\ ToSet(dispatched) = {} /\ IsInjective(dispatched)
    BY DEF ToSet, IsInjective
  <2>3. item \notin Message /\ Yielded = {}
    BY MessagesAreResults DEF Yielded
  <2>4. OnePlaceInv
    BY <2>2, <2>3 DEF OnePlaceInv
  <2>5. QED BY <2>1, <2>4
<1>2. RunInv /\ HistoriesInv /\ [RunNext]_runVars => HistoriesInv'
  BY StreamSteps, StreamKeepsHistories DEF RunInv, RunTypeOK, SinkTypeOK
<1>3. RunInv /\ SinkInv /\ HistoriesInv /\ OnePlaceInv /\ CleanLeaveInv /\ [RunNext]_runVars
        => OnePlaceInv' /\ CleanLeaveInv'
  <2> SUFFICES ASSUME RunInv, SinkInv, HistoriesInv, OnePlaceInv, CleanLeaveInv, [RunNext]_runVars
               PROVE  OnePlaceInv' /\ CleanLeaveInv'
    OBVIOUS
  <2>1. OnePlaceInv'
    BY KeepsOnePlace
  <2>2. main' \notin {"range", "send"} /\ Untroubled' => Served'
    <3>1. CASE main \in {"range", "send"}
      BY <3>1, LeavesServed
    <3>2. CASE main \notin {"range", "send"}
      BY <3>2, ServedStays, MoreStaysOver DEF CleanLeaveInv
    <3>3. QED BY <3>1, <3>2
  <2>3. CleanLeaveInv'
    BY <2>2, ContextEndsForAReason, StageEndsForAReason, FlushedDone DEF CleanLeaveInv
  <2>4. QED BY <2>1, <2>3
<1>4. RunInv /\ SinkInv /\ HistoriesInv /\ OnePlaceInv /\ CleanLeaveInv => DeliveryInv
  BY ReceivedOnce DEF DeliveryInv, SinkInv
<1>5. QED BY <1>1, <1>2, <1>3, <1>4, RunInvHolds, RunImplementsSink, SinkInvHolds, PTL DEF RunSpec, RunsTheSink

\* Nothing is delivered twice, and nothing that no producer sent.
THEOREM RunDeliversOnce == RunSpec => []DeliveredOnce
<1>1. DeliveryInv => DeliveredOnce
  BY DEF DeliveryInv
<1>2. QED BY <1>1, DeliveryInvHolds, PTL

\* A nil return means that every message of an exhausted stream was delivered
\* to every consumer that did not finish early.
THEOREM NilIsTrue == RunSpec => []NilMeansDelivered
<1>1. RunInv /\ DeliveryInv => NilMeansDelivered
  <2> SUFFICES ASSUME RunInv, DeliveryInv, result = "nil"
               PROVE  /\ doneClosed = Consumer
                      /\ \/ finished = Consumer
                         \/ /\ ended /\ backlog = {} /\ item = NoItem /\ hand = NoItem
                            /\ \A c \in Consumer \ finished :
                                 /\ received[c] = dispatched
                                 /\ ~HasTransformer => ToSet(received[c]) = Yielded
    BY DEF NilMeansDelivered
  <2>1. main = "returned" /\ Untroubled
    BY DEF RunInv, JoinInv, Untroubled
  <2>2. doneClosed = Consumer /\ Served
    BY <2>1 DEF DeliveryInv, CleanLeaveInv
  <2>3. ended => backlog = {}
    BY DEF DeliveryInv, HistoriesInv
  <2>4. left => item = NoItem
    BY DEF RunInv, RunTypeOK, StreamTypeOK
  <2>5. ToSet(dispatched) \subseteq Yielded
    BY DEF DeliveryInv, OnePlaceInv
  <2>6. QED BY <2>2, <2>3, <2>4, <2>5 DEF Served
<1>2. QED BY <1>1, RunInvHolds, DeliveryInvHolds, PTL

\* A run returns with its stage and its consumers joined and nothing in the loop,
\* and a nil return was given everything, the errors too, that its producers and
\* its resource stream got rid of, unless all of its consumers finished first.
THEOREM RunJoinsErrors == RunSpec => []ErrorsAreJoined
<1>1. RunInv /\ DeliveryInv => ErrorsAreJoined
  <2> SUFFICES ASSUME RunInv, DeliveryInv, result # "running"
               PROVE  /\ stageFwd = "exited" /\ \A c \in Consumer : consFwd[c] = "exited"
                      /\ item = NoItem
                      /\ result = "nil" => finished = Consumer \/ taken = yielded
    BY DEF ErrorsAreJoined
  <2>1. main = "returned" /\ \A c \in Consumer : consFwd[c] = "exited"
    BY DEF RunInv, JoinInv
  <2>2. stageFwd = "exited" /\ left
    BY <2>1 DEF RunInv, JoinInv, stageJoined
  <2>3. item = NoItem
    BY <2>2 DEF RunInv, RunTypeOK, StreamTypeOK
  <2>4. result = "nil" => finished = Consumer \/ taken = yielded
    BY <2>1 DEF DeliveryInv, CleanLeaveInv, Untroubled, Served
  <2>5. QED BY <2>1, <2>2, <2>3, <2>4
<1>2. QED BY <1>1, RunInvHolds, DeliveryInvHolds, PTL
=============================================================================
