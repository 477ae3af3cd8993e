---------------------------- MODULE RunPipeline ----------------------------
(***************************************************************************)
(* One run of a pipeline: RunPipeline of core/run.go, without and with a   *)
(* transformer stage (core/transform.go), over the stream of results that  *)
(* MergedStream promises and the sink.  Without a transformer the main     *)
(* goroutine is the loop that ranges over the stream; with one, that loop  *)
(* is the feeder of the stage, and main ranges over what the transformer   *)
(* puts out.                                                               *)
(***************************************************************************)
EXTENDS MergedStream, Sink

CONSTANTS
  Pipelines,        \* the pipelines to run: with or without a transformer, and
                    \* with or without exit-on-error
  MaxTransformErrs  \* bound: errors the transformer reports

ASSUME RunAssumption ==
  /\ Pipelines \subseteq [transformer : BOOLEAN, exitOnError : BOOLEAN]
  /\ MaxTransformErrs \in Nat
  /\ Message = {r \in Result : r.kind = "msg"}
  /\ Staged

VARIABLES
  pipeline,     \* the pipeline of this run
  outerDone,    \* did the caller's context end?
  failure,      \* the error report stored, or "none"
  firstError,   \* history: the side of the first error reported, or "none"
  result,       \* what RunPipeline returned, or "running"
  hand,         \* the message the transformer works on
  outClosed,    \* did the transformer close its output?
  stageErrs,    \* errors received from the transformer
  stageFwd      \* the error forwarder of the stage

callVars == <<pipeline, outerDone, result>>
stageVars == <<hand, outClosed, stageErrs, stageFwd>>
reportVars == <<failure, firstError>>
sinkOwnVars == <<mainVars, consumerVars>>
runVars == <<runDone, callVars, reportVars, stageVars, streamOwnVars,
             sinkOwnVars>>

HasTransformer == pipeline.transformer
ExitOnError == pipeline.exitOnError

Side == {"producer", "transformer", "consumer"}

RunInit ==
  /\ StreamInit /\ SinkInit /\ pipeline \in Pipelines
  /\ outerDone = FALSE /\ failure = "none" /\ firstError = "none"
  /\ result = "running"
  /\ hand = NoItem /\ outClosed = FALSE /\ stageErrs = 0
  /\ stageFwd = IF HasTransformer THEN "recv" ELSE "exited"

\* The context of the stage: stage.cancel, or the end of the run's.
stageDone == runDone \/ streamCancelled

\* Mutant: the failure is stored, but the run goes on.
ReportStoresOnly(side) ==
  /\ firstError' = IF firstError = "none" THEN side ELSE firstError
  /\ failure' = IF ExitOnError /\ failure = "none" THEN side ELSE failure
  /\ UNCHANGED runDone

\* Mutant: a later error takes the place of the first.
ReportLast(side) ==
  /\ firstError' = IF firstError = "none" THEN side ELSE firstError
  /\ IF ExitOnError THEN failure' = side /\ EndRun
                    ELSE UNCHANGED <<failure, runDone>>

\* report: the first error is stored and ends the run, with exit-on-error.
Report(side) ==
  /\ firstError' = IF firstError = "none" THEN side ELSE firstError
  /\ IF ExitOnError /\ failure = "none"
       THEN failure' = side /\ EndRun
       ELSE UNCHANGED <<failure, runDone>>

-----------------------------------------------------------------------------
(* The body of the loop over the merged stream.                            *)

\* An error is reported, and the loop goes on.
BodyReports ==
  /\ item # NoItem /\ item.kind # "msg"
  /\ Report("producer") /\ Continue
  /\ UNCHANGED <<callVars, stageVars, sinkOwnVars>>

\* Without a transformer, a message goes to the sink, and the loop is left
\* when send says so.
BodySends ==
  /\ ~HasTransformer /\ item \in Message /\ SendStart(item)
  /\ UNCHANGED <<callVars, reportVars, stageVars, streamOwnVars>>

BodySendEnds ==
  /\ ~HasTransformer
  /\ SendEnds \/ SendCancelled
  /\ IF main' = "range" THEN Continue ELSE Break
  /\ UNCHANGED <<callVars, reportVars, stageVars>>

BodyStreamOver ==
  /\ ~HasTransformer /\ LoopMeetsEnd /\ RangeEnds
  /\ UNCHANGED <<callVars, reportVars, stageVars, consumerVars>>

-----------------------------------------------------------------------------
(* With a transformer: the feeder of the stage, the transformer, its error *)
(* forwarder, and the main goroutine.                                      *)

\* in <- msg, or the end of the stage's context.
StageFeeds ==
  /\ HasTransformer /\ item \in Message /\ hand = NoItem /\ ~outClosed
  /\ UNCHANGED runDone /\ hand' = item /\ Continue
  /\ UNCHANGED <<callVars, reportVars, outClosed, stageErrs,
                 stageFwd, sinkOwnVars>>

\* Mutants: the feeder gives up when the transformer is busy; it leaves the
\* loop as soon as its context ends.
StageGivesUpEarly ==
  /\ HasTransformer /\ item \in Message /\ hand # NoItem /\ Break
  /\ UNCHANGED <<callVars, reportVars, stageVars, sinkOwnVars>>

StageGivesUpIdle ==
  /\ HasTransformer /\ stageDone /\ ~left /\ left' = TRUE /\ item' = NoItem
  /\ UNCHANGED <<runDone, callVars, reportVars, stageVars, sinkOwnVars,
                 source, feederOver, taken, backlog, ended, streamCancelled,
                 yielded>>

StageGivesUp ==
  /\ HasTransformer /\ item \in Message /\ stageDone /\ Break
  /\ UNCHANGED <<callVars, reportVars, stageVars, sinkOwnVars>>

StageStreamOver ==
  /\ HasTransformer /\ LoopMeetsEnd
  /\ UNCHANGED <<callVars, reportVars, stageVars, sinkOwnVars>>

\* The transformer passes the message on, or drops it.
StageSends ==
  /\ hand \in Message /\ SendStart(hand)
  /\ hand' = NoItem
  /\ UNCHANGED <<callVars, reportVars, outClosed, stageErrs, stageFwd,
                 streamOwnVars>>

TransformerDrops ==
  /\ hand \in Message /\ hand' = NoItem
  /\ UNCHANGED <<runDone, callVars, reportVars, outClosed, stageErrs,
                 stageFwd, streamOwnVars, sinkOwnVars>>

\* It closes its output when its input is closed (the stage's feeder ended)
\* and nothing is left to put out, or when its context is done.
TransformerCloses ==
  /\ HasTransformer /\ ~outClosed
  /\ (left /\ hand = NoItem) \/ stageDone
  /\ outClosed' = TRUE /\ hand' = NoItem
  /\ UNCHANGED <<runDone, callVars, reportVars, stageErrs, stageFwd,
                 streamOwnVars, sinkOwnVars>>

TransformerFails ==
  /\ ~outClosed /\ stageErrs < MaxTransformErrs /\ stageFwd = "recv"
  /\ stageErrs' = stageErrs + 1 /\ stageFwd' = "hold"
  /\ UNCHANGED <<runDone, callVars, reportVars, hand, outClosed,
                 streamOwnVars, sinkOwnVars>>

TransformerReported ==
  /\ stageFwd = "hold" /\ stageFwd' = "recv" /\ Report("transformer")
  /\ UNCHANGED <<callVars, hand, outClosed, stageErrs,
                 streamOwnVars, sinkOwnVars>>

StageFwdExits ==
  /\ stageFwd = "recv" /\ stageDone /\ stageFwd' = "exited"
  /\ UNCHANGED <<runDone, callVars, reportVars, hand, outClosed,
                 stageErrs, streamOwnVars, sinkOwnVars>>

\* Mutant: the end of the output cuts a send short.
MainLeavesStageMidSend ==
  /\ HasTransformer /\ outClosed /\ main \in {"range", "send"}
  /\ main' = "stop"
  /\ UNCHANGED <<runDone, cursor, insClosed, finished, dispatched, consumerVars,
                 callVars, reportVars, stageVars, streamOwnVars>>

\* The range loop of main ends with send, or with the transformer's output.
MainLeavesStage ==
  /\ HasTransformer
  /\ SendEnds \/ SendCancelled \/ (outClosed /\ RangeEnds)
  /\ UNCHANGED <<callVars, reportVars, stageVars, streamOwnVars>>

StageCancel ==
  /\ HasTransformer /\ main = "stop" /\ CancelStream
  /\ UNCHANGED <<callVars, reportVars, stageVars, sinkOwnVars>>

\* stage.wg.Wait: its feeder and its error forwarder are over.
stageJoined == streamCancelled /\ left /\ stageFwd = "exited"

-----------------------------------------------------------------------------
(* What both paths share.                                                  *)

SendGoesOn ==
  /\ SendSkips \/ SendDelivers \/ SendFindsDone
  /\ UNCHANGED <<callVars, reportVars, stageVars, streamOwnVars>>

\* Mutant: nobody waits for the stage.
ShutDownUnjoined ==
  /\ CloseIns \/ FlushNext \/ FlushCancelled \/ FlushEnds \/ CancelRun
  /\ UNCHANGED <<callVars, reportVars, stageVars, streamOwnVars>>

ShutDown ==
  /\ \/ CloseIns /\ (HasTransformer => stageJoined)
     \/ FlushNext \/ FlushCancelled \/ FlushEnds \/ CancelRun
  /\ UNCHANGED <<callVars, reportVars, stageVars, streamOwnVars>>

\* The stored failure is returned before the error of the caller's context.
Return ==
  /\ WaitErrs
  /\ result' = IF failure # "none" THEN failure
               ELSE IF outerDone THEN "cancelled" ELSE "nil"
  /\ UNCHANGED <<pipeline, outerDone, reportVars, stageVars, streamOwnVars>>

ConsumerStep(c) ==
  /\ \/ /\ \/ ConsumerFails(c) \/ ConsFwdExits(c) \/ ConsumerDone(c)
           \/ ConsumerReturns(c)
        /\ UNCHANGED reportVars
     \/ ConsumerReported(c) /\ Report("consumer")
  /\ UNCHANGED <<callVars, stageVars, streamOwnVars>>

ConsumerSide == \E c \in Consumer : ConsumerStep(c)

\* A step of the goroutines behind the stream leaves the rest alone.
RestUnchanged ==
  UNCHANGED <<callVars, reportVars, stageVars, sinkOwnVars>>

StreamSide == StreamRuns /\ RestUnchanged

CallerCancels ==
  /\ ~outerDone /\ outerDone' = TRUE /\ EndRun
  /\ UNCHANGED <<pipeline, result, reportVars, stageVars, streamOwnVars,
                 sinkOwnVars>>

-----------------------------------------------------------------------------
Body == BodyReports \/ BodySends \/ BodySendEnds \/ BodyStreamOver

Stage == \/ StageFeeds \/ StageGivesUp \/ StageStreamOver \/ StageSends
         \/ TransformerDrops \/ TransformerCloses \/ TransformerFails
         \/ TransformerReported \/ StageFwdExits

Main == MainLeavesStage \/ StageCancel \/ SendGoesOn \/ ShutDown \/ Return

\* The run returned, its stream ended and its consumers are gone.
RunQuiet == SinkQuiet /\ ended /\ left

RunNext ==
  \/ Body \/ Stage \/ Main \/ ConsumerSide \/ StreamSide \/ CallerCancels
  \/ RunQuiet /\ UNCHANGED runVars

RunSpec == RunInit /\ [][RunNext]_runVars

-----------------------------------------------------------------------------
(* Safety.                                                                 *)

RunTypeOK ==
  /\ SinkTypeOK /\ StreamTypeOK
  /\ pipeline \in Pipelines /\ outerDone \in BOOLEAN
  /\ {failure, firstError} \subseteq Side \cup {"none"}
  /\ result \in Side \cup {"running", "nil", "cancelled"}
  /\ hand \in Message \cup {NoItem} /\ outClosed \in BOOLEAN
  /\ stageErrs \in 0..MaxTransformErrs
  /\ stageFwd \in {"recv", "hold", "exited"}

Yielded == {r \in yielded : r.kind = "msg"}

\* What a nil return is worth: every consumer closed done, and unless all of
\* them finished before the end, the resource stream was exhausted, nothing
\* is left of any producer, and every consumer that did not finish early
\* received every message, once (without a transformer; with one, whatever
\* the transformer put out).
NilMeansDelivered ==
  result = "nil" =>
    /\ doneClosed = Consumer
    /\ \/ finished = Consumer
       \/ /\ ended /\ backlog = {} /\ item = NoItem /\ hand = NoItem
          /\ \A c \in Consumer \ finished :
               /\ received[c] = dispatched
               /\ ~HasTransformer => ToSet(received[c]) = Yielded

\* Nothing is delivered twice, and nothing that no producer sent.
DeliveredOnce ==
  \A c \in Consumer :
    /\ IsInjective(received[c])
    /\ ToSet(received[c]) \subseteq Yielded

\* With exit-on-error a run during which an error was reported returns the
\* first one, whichever goroutine met it, and no other end of the run hides
\* it; without, errors never fail a run.
ErrorsAreReturned ==
  result # "running" =>
    IF ExitOnError /\ firstError # "none" THEN result = firstError
                                          ELSE result \in {"nil", "cancelled"}

\* What becomes of the errors: when a run returns, the forwarders of its stage
\* and of its consumers are over and hold none, nor does the loop.  Those of
\* produce are not joined, and may drop an error they received; but a run that
\* returns nil before all of its consumers finished was given every result, and
\* every error, that its producers and its resource stream got rid of.
ErrorsAreJoined ==
  result # "running" =>
    /\ stageFwd = "exited" /\ \A c \in Consumer : consFwd[c] = "exited"
    /\ item = NoItem
    /\ result = "nil" => finished = Consumer \/ taken = yielded

\* The engine's own goroutines are joined when RunPipeline returns (its
\* comment): those of produce end with the merged stream.
EngineIsJoined == result # "running" => ended

-----------------------------------------------------------------------------
(* The inductive invariant of the error path.                              *)

\* Main goes past the joins only when what it joined is over.
JoinInv ==
  /\ main \notin {"range", "send"} =>
       IF HasTransformer THEN main = "stop" \/ stageJoined ELSE left
  /\ ~HasTransformer => stageFwd = "exited"
  /\ result # "running" <=> main = "returned"
  /\ main = "returned" => \A c \in Consumer : consFwd[c] = "exited"

\* With exit-on-error the first error is the failure, and ends the run.
ReportInv ==
  /\ failure = IF ExitOnError THEN firstError ELSE "none"
  /\ failure # "none" => runDone

\* Type correctness, the joins and the stored failure.
RunInv == RunTypeOK /\ JoinInv /\ ReportInv /\ ErrorsAreReturned

-----------------------------------------------------------------------------
(* The inductive invariant of the delivery.                                *)

Unsent(r) == r \notin ToSet(dispatched)

\* Every message has one place: with the loop, with the transformer, or handed
\* to send, and that once; without a transformer none is anywhere else.
OnePlaceInv ==
  /\ IsInjective(dispatched) /\ ToSet(dispatched) \subseteq Yielded
  /\ item \in Message =>
       item # hand /\ (HasTransformer \/ main = "range" => Unsent(item))
  /\ hand # NoItem => HasTransformer /\ hand \in Yielded /\ Unsent(hand)
  /\ ~HasTransformer =>
       /\ main = "send" => item \in Message
       /\ Yielded \subseteq ToSet(dispatched) \cup (IF main = "range" THEN {item} ELSE {})

\* Nobody has ended this run, or not before it returned nil.
Untroubled == result = "nil" \/ (failure = "none" /\ ~outerDone)

Served ==
  \/ finished = Consumer
  \/ /\ ended /\ left /\ hand = NoItem /\ taken = yielded
     /\ ~HasTransformer => Yielded \subseteq ToSet(dispatched)
     /\ \A c \in Consumer \ finished : received[c] = dispatched

\* The range loops of an untroubled run are left for a reason: all consumers
\* finished, or the stream ended with nothing left in any hand.
CleanLeaveInv ==
  /\ failure = "none" /\ ~outerDone /\ main \notin {"wait", "returned"} => ~runDone
  /\ main \in {"range", "send"} => ~streamCancelled
  /\ HasTransformer /\ left /\ ~stageDone => ended /\ taken = yielded
  /\ outClosed => HasTransformer /\ (stageDone \/ (ended /\ left /\ hand = NoItem))
  /\ main \notin {"range", "send"} /\ Untroubled => Served
  /\ main \in {"cancel", "wait", "returned"} /\ Untroubled => doneClosed = Consumer

\* Delivery, whatever the interleaving: nothing twice, and nothing invented.
DeliveryInv == HistoriesInv /\ OnePlaceInv /\ CleanLeaveInv /\ DeliveredOnce

-----------------------------------------------------------------------------
(* What a run is built from.                                               *)

\* A run is a run of the stream and a run of the sink: the components do to
\* each other only what their own specifications let their callers do.
RunsTheStream == StreamSpec
RunsTheSink == SinkSpec

-----------------------------------------------------------------------------
(* Liveness.                                                               *)

\* Goroutines that can run do run.  The feeder ends when the run's context
\* does, but not when only the stage's does: its stream may be quiet, or the
\* feeder blocked on the pool.  Producers, consumers and the transformer
\* answer the end of their context, and consumers that of their input.
StreamFairness ==
  /\ WF_runVars(FeederEnds /\ runDone /\ RestUnchanged)
  /\ WF_runVars(/\ StreamEnds \/ \E r \in Result : Give(r) \/ Drop(r)
                /\ RestUnchanged)
  /\ \A p \in Producer : WF_runVars(SourceEnds(p) /\ streamDone /\ RestUnchanged)

ConsumerFairness(c) ==
  /\ WF_runVars(/\ ConsumerStep(c)
                /\ \/ consFwd[c] = "hold" /\ consFwd'[c] = "recv"
                   \/ runDone /\ consFwd[c] = "recv" /\ consFwd'[c] = "exited")
  /\ WF_runVars(/\ ConsumerStep(c) /\ (insClosed \/ runDone)
                /\ c \in doneClosed' \ doneClosed)

RunFairness ==
  /\ StreamFairness
  /\ WF_runVars(Body \/ StageFeeds \/ StageGivesUp \/ StageStreamOver)
  /\ WF_runVars(Main)
  /\ WF_runVars(StageSends \/ TransformerDrops \/ TransformerCloses)
  /\ WF_runVars(TransformerReported \/ StageFwdExits)
  /\ \A c \in Consumer : ConsumerFairness(c)

RunLiveSpec == RunSpec /\ RunFairness

\* Producers that finish, and a resource stream that is not quiet for ever.
FiniteStream ==
  /\ WF_runVars(FeederEnds /\ RestUnchanged)
  /\ \A p \in Producer : WF_runVars(SourceEnds(p) /\ RestUnchanged)

Returned == result # "running"

\* When the caller's context ends, or an error is stored under exit-on-error,
\* the run returns.
EndedRunReturns == outerDone \/ failure # "none" ~> Returned

\* A run over a finite stream returns.
FiniteRunReturns == FiniteStream => <>Returned

\* The run returns when all of its consumers finish (its comment), even if
\* its producers never do.
AllFinishedReturns == finished = Consumer ~> Returned

\* The same for a run without a transformer.
DirectRunReturns == ~HasTransformer /\ finished = Consumer ~> Returned

\* What the engine started does not outlive the run for ever: the goroutines
\* behind the stream end after RunPipeline returned.
NothingOrphaned == Returned ~> ended
=============================================================================
