-------------------------------- MODULE Sink --------------------------------
(***************************************************************************)
(* The consumer side of a pipeline run: core/sink.go, and the calls the    *)
(* main goroutine of core/run.go makes to it, from the range loop over the *)
(* messages to the return.  Consumers are the environment: they receive,   *)
(* close done when they like, report errors, and return.                   *)
(***************************************************************************)
EXTENDS RunContext, Naturals, Sequences, SequencesExt

CONSTANTS
  NumConsumers, \* the consumers of the pipeline, served in this order
  Message,      \* the messages the range loop can be given
  MaxSends,     \* bound: messages handed to the sink
  MaxConsErrs   \* bound: errors one consumer reports

Consumer == 1..NumConsumers

ASSUME SinkAssumption ==
  NumConsumers \in Nat /\ MaxSends \in Nat /\ MaxConsErrs \in Nat

VARIABLES
  main,         \* where the main goroutine is
  cursor,       \* the consumer that send or flush has come to
  insClosed,    \* were the input channels of the consumers closed?
  finished,     \* consumers the sink saw done; it sends them nothing more
  doneClosed,   \* consumers that closed done
  returned,     \* consumers that returned: they receive nothing more
  consErrs,     \* errors received from each consumer
  consFwd,      \* the error forwarder of each consumer
  dispatched,   \* history: the messages handed to send
  received      \* history: the messages each consumer received

mainVars == <<main, cursor, insClosed, finished, dispatched>>
consumerVars == <<doneClosed, returned, consErrs, consFwd, received>>
sinkVars == <<runDone, mainVars, consumerVars>>

MainState == {"range", "send", "stop", "flush", "cancel", "wait", "returned"}

SinkInit ==
  /\ runDone = FALSE
  /\ main = "range" /\ cursor = 1 /\ insClosed = FALSE
  /\ finished = {} /\ doneClosed = {} /\ returned = {}
  /\ consErrs = [c \in Consumer |-> 0]
  /\ consFwd = [c \in Consumer |-> "recv"]
  /\ dispatched = <<>>
  /\ received = [c \in Consumer |-> <<>>]

-----------------------------------------------------------------------------
(* send: each consumer that is not finished, in turn.                      *)

SendStart(m) ==
  /\ main = "range" /\ Len(dispatched) < MaxSends
  /\ main' = "send" /\ cursor' = 1
  /\ dispatched' = Append(dispatched, m)
  /\ UNCHANGED <<runDone, insClosed, finished, consumerVars>>

SendSkips ==
  /\ main = "send" /\ cursor \in finished
  /\ cursor' = cursor + 1
  /\ UNCHANGED <<runDone, main, insClosed, finished, dispatched, consumerVars>>

\* Mutant: the send has a default case, and never waits for a consumer.
SendDeliversOrNot ==
  /\ main = "send" /\ cursor \in Consumer \ finished
  /\ \/ /\ cursor \notin returned
        /\ received' = [received EXCEPT ![cursor] = Append(@, Last(dispatched))]
     \/ UNCHANGED received
  /\ cursor' = cursor + 1
  /\ UNCHANGED <<runDone, main, insClosed, finished, dispatched, doneClosed,
                 returned, consErrs, consFwd>>

\* Mutant: the sink does not move on to the next consumer.
SendDeliversStays ==
  /\ main = "send" /\ cursor \in Consumer \ (finished \cup returned)
  /\ received' = [received EXCEPT ![cursor] = Append(@, Last(dispatched))]
  /\ UNCHANGED <<runDone, main, cursor, insClosed, finished, dispatched,
                 doneClosed, returned, consErrs, consFwd>>

\* s.ins[i] <- msg.  A consumer that closed done may still receive.
SendDelivers ==
  /\ main = "send" /\ cursor \in Consumer \ (finished \cup returned)
  /\ received' = [received EXCEPT ![cursor] = Append(@, Last(dispatched))]
  /\ cursor' = cursor + 1
  /\ UNCHANGED <<runDone, main, insClosed, finished, dispatched, doneClosed,
                 returned, consErrs, consFwd>>

\* Mutant: done is not watched while the send waits for the consumer to receive.
SendFindsDoneLate ==
  /\ main = "send" /\ cursor \in doneClosed \ finished /\ runDone
  /\ finished' = finished \cup {cursor} /\ cursor' = cursor + 1
  /\ UNCHANGED <<runDone, main, insClosed, dispatched, consumerVars>>

SendFindsDone ==
  /\ main = "send" /\ cursor \in doneClosed \ finished
  /\ finished' = finished \cup {cursor} /\ cursor' = cursor + 1
  /\ UNCHANGED <<runDone, main, insClosed, dispatched, consumerVars>>

\* Mutant: the end of the context is taken for a done of the consumer.
SendCancelledWritesOff ==
  /\ main = "send" /\ cursor \in Consumer \ finished /\ runDone
  /\ main' = "stop" /\ finished' = finished \cup {cursor}
  /\ UNCHANGED <<runDone, cursor, insClosed, dispatched, consumerVars>>

\* ctx ends: send gives up, and the caller leaves its range loop.
SendCancelled ==
  /\ main = "send" /\ cursor \in Consumer \ finished /\ runDone
  /\ main' = "stop"
  /\ UNCHANGED <<runDone, cursor, insClosed, finished, dispatched, consumerVars>>

\* Mutant: send always says that a consumer is live.
SendEndsForgets ==
  /\ main = "send" /\ cursor = NumConsumers + 1
  /\ main' = "range"
  /\ UNCHANGED <<runDone, cursor, insClosed, finished, dispatched, consumerVars>>

\* send returns whether a consumer is live.
SendEnds ==
  /\ main = "send" /\ cursor = NumConsumers + 1
  /\ main' = IF Consumer \subseteq finished THEN "stop" ELSE "range"
  /\ UNCHANGED <<runDone, cursor, insClosed, finished, dispatched, consumerVars>>

-----------------------------------------------------------------------------
(* The rest of the main goroutine.                                         *)

\* The messages are exhausted.
RangeEnds ==
  /\ main = "range" /\ main' = "stop"
  /\ UNCHANGED <<runDone, cursor, insClosed, finished, dispatched, consumerVars>>

CloseIns ==
  /\ main = "stop" /\ main' = "flush"
  /\ insClosed' = TRUE /\ cursor' = 1
  /\ UNCHANGED <<runDone, finished, dispatched, consumerVars>>

\* flush: each consumer is waited for, unless the context ends.
FlushNext ==
  /\ main = "flush" /\ cursor \in finished \cup doneClosed
  /\ cursor' = cursor + 1
  /\ UNCHANGED <<runDone, main, insClosed, finished, dispatched, consumerVars>>

FlushCancelled ==
  /\ main = "flush" /\ cursor \in Consumer \ finished /\ runDone
  /\ main' = "cancel"
  /\ UNCHANGED <<runDone, cursor, insClosed, finished, dispatched, consumerVars>>

\* Mutant: one consumer that is done is enough.
FlushEndsEarly ==
  /\ main = "flush" /\ cursor > 1
  /\ main' = "cancel"
  /\ UNCHANGED <<runDone, cursor, insClosed, finished, dispatched, consumerVars>>

FlushEnds ==
  /\ main = "flush" /\ cursor = NumConsumers + 1
  /\ main' = "cancel"
  /\ UNCHANGED <<runDone, cursor, insClosed, finished, dispatched, consumerVars>>

\* Mutant: the forwarders are waited for before the context is cancelled.
CancelRunMissing ==
  /\ main = "cancel" /\ main' = "wait"
  /\ UNCHANGED <<runDone, cursor, insClosed, finished, dispatched, consumerVars>>

\* cancel(), before waitErrs.
CancelRun ==
  /\ main = "cancel" /\ main' = "wait" /\ EndRun
  /\ UNCHANGED <<cursor, insClosed, finished, dispatched, consumerVars>>

\* waitErrs, and the return with its deferred cancel().
WaitErrs ==
  /\ main = "wait" /\ \A c \in Consumer : consFwd[c] = "exited"
  /\ main' = "returned" /\ EndRun
  /\ UNCHANGED <<cursor, insClosed, finished, dispatched, consumerVars>>

-----------------------------------------------------------------------------
(* The error forwarders, and the consumers.                                *)

ConsumerFails(c) ==
  /\ c \notin returned /\ consErrs[c] < MaxConsErrs /\ consFwd[c] = "recv"
  /\ consErrs' = [consErrs EXCEPT ![c] = @ + 1]
  /\ consFwd' = [consFwd EXCEPT ![c] = "hold"]
  /\ UNCHANGED <<runDone, mainVars, doneClosed, returned, received>>

\* report, which may end the run.
ConsumerReported(c) ==
  /\ consFwd[c] = "hold"
  /\ consFwd' = [consFwd EXCEPT ![c] = "recv"]
  /\ UNCHANGED <<mainVars, doneClosed, returned, consErrs, received>>

ConsumerReports(c) == ConsumerReported(c) /\ runDone' \in {runDone, TRUE}

\* The context ends, or the consumer closes its errors: it may at any time.
ConsFwdExits(c) ==
  /\ consFwd[c] = "recv"
  /\ consFwd' = [consFwd EXCEPT ![c] = "exited"]
  /\ UNCHANGED <<runDone, mainVars, doneClosed, returned, consErrs, received>>

ConsumerDone(c) ==
  /\ c \notin doneClosed
  /\ doneClosed' = doneClosed \cup {c}
  /\ UNCHANGED <<runDone, mainVars, returned, consErrs, consFwd, received>>

ConsumerReturns(c) ==
  /\ c \in doneClosed \ returned
  /\ returned' = returned \cup {c}
  /\ UNCHANGED <<runDone, mainVars, doneClosed, consErrs, consFwd, received>>

\* Something else ends the run: its caller, or a reported error.
RunIsEnded ==
  /\ ~runDone /\ EndRun
  /\ UNCHANGED <<mainVars, consumerVars>>

-----------------------------------------------------------------------------
Send == \/ SendSkips \/ SendDelivers \/ SendFindsDone \/ SendCancelled
        \/ SendEnds

WindDown == \/ CloseIns \/ FlushNext \/ FlushCancelled \/ FlushEnds
          \/ CancelRun \/ WaitErrs

Consumers ==
  \E c \in Consumer :
    \/ ConsumerFails(c) \/ ConsFwdExits(c) \/ ConsumerDone(c)
    \/ ConsumerReturns(c) \/ ConsumerReports(c)

SinkQuiet == main = "returned" /\ returned = Consumer

SinkNext ==
  \/ \E m \in Message : SendStart(m)
  \/ Send \/ RangeEnds \/ WindDown \/ Consumers \/ RunIsEnded
  \/ SinkQuiet /\ UNCHANGED sinkVars

SinkSpec == SinkInit /\ [][SinkNext]_sinkVars

-----------------------------------------------------------------------------
(* Safety.                                                                 *)

SinkTypeOK ==
  /\ runDone \in BOOLEAN
  /\ main \in MainState /\ cursor \in 1..(NumConsumers + 1)
  /\ insClosed \in BOOLEAN
  /\ finished \subseteq Consumer /\ doneClosed \subseteq Consumer
  /\ returned \subseteq Consumer
  /\ consErrs \in [Consumer -> 0..MaxConsErrs]
  /\ consFwd \in [Consumer -> {"recv", "hold", "exited"}]
  /\ dispatched \in Seq(Message)
  /\ received \in [Consumer -> Seq(Message)]

\* What consumer c was to receive by now: everything, except the message
\* that send has not brought to it yet.
Due(c) == IF main = "send" /\ cursor <= c THEN Front(dispatched) ELSE dispatched

\* Fan-out: every consumer that the sink has not written off received the
\* same messages in the same order, all of those handed to send so far, and
\* a consumer that finished early received a prefix of them.  Only an end of
\* the context in the middle of a send lets a consumer miss its message.
FanOut ==
  \A c \in Consumer :
    /\ IsPrefix(received[c], dispatched)
    /\ c \notin finished /\ ~runDone => received[c] = Due(c)

\* Nobody is written off who did not close done, and the channels a send or
\* a flush uses are the ones that are open: a send on a closed channel would
\* panic (close is called once, after the range loop).
NeverWrittenOff ==
  /\ finished \subseteq doneClosed
  /\ insClosed <=> main \in {"flush", "cancel", "wait", "returned"}

\* The main goroutine goes past flush only when every consumer closed done,
\* or the context ended: a clean run never leaves a consumer mid-flush.
FlushWaitsForAll ==
  [][main = "flush" /\ main' = "cancel" /\ ~runDone => doneClosed = Consumer]_sinkVars

-----------------------------------------------------------------------------
(* The inductive invariant.                                                *)

\* While main serves consumers, even after the context ended, those that are
\* not written off have all they are due; the flush has met the consumers
\* before the cursor.
ServedInv ==
  /\ main = "send" => dispatched # <<>>
  /\ \A c \in Consumer \ finished :
       ~runDone \/ main \in {"range", "send"} => received[c] = Due(c)
  /\ main = "flush" => \A c \in Consumer : c < cursor => c \in doneClosed

SinkInv == SinkTypeOK /\ FanOut /\ NeverWrittenOff /\ ServedInv

-----------------------------------------------------------------------------
(* Liveness.                                                               *)

\* A consumer drains until its input is closed, or the context ends; then it
\* closes done.  Until it closed done it receives what it is sent.
SinkFairness ==
  /\ WF_sinkVars(Send) /\ WF_sinkVars(WindDown)
  /\ \A c \in Consumer :
       /\ WF_sinkVars(ConsumerReports(c))
       /\ WF_sinkVars(ConsFwdExits(c) /\ runDone)
       /\ WF_sinkVars(ConsumerDone(c) /\ (insClosed \/ runDone))

SinkLiveSpec == SinkSpec /\ SinkFairness

\* Once the range loop is left, the run returns, with consumers that answer
\* the closing of their input and whether or not they close their errors.
SinkWindsDown == main = "stop" ~> main = "returned"

\* A send always comes to an end: a consumer that finishes early, even in its
\* midst, does not block the pipeline (the comment of sink).
SendTerminates == main = "send" ~> main # "send"

\* A consumer that closed done is sent nothing more: only the message in
\* flight at that moment can still land (docs/plugins.md, on consumers).
OneExtraMessage ==
  \A c \in Consumer : \A n \in 0..MaxSends :
    [](main = "range" /\ c \in doneClosed /\ Len(received[c]) = n
         => [](Len(received[c]) = n))
=============================================================================
