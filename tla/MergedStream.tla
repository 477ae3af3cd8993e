---------------------------- MODULE MergedStream ----------------------------
(***************************************************************************)
(* What the stream returned by produce (core/stream.go) promises to the    *)
(* loop that ranges over it, whatever its goroutines do: each result that  *)
(* is accepted from a source reaches the loop once, in the order of its    *)
(* source, unless a context ends; the stream ends only after the feeder    *)
(* ended and no source is open.  ProducerPool implements it and            *)
(* RunPipeline is built on it.                                             *)
(***************************************************************************)
EXTENDS RunContext, PoolResults

CONSTANT Staged   \* can the stream's context end before the run's?

VARIABLES
  source,       \* what became of each producer: "new", "open" or "over"
  feederOver,   \* has the feeder released its stream and returned?
  taken,        \* history: the results accepted from the sources
  backlog,      \* those that are still to be yielded
  ended,        \* did the merged stream end?
  item,         \* the result the loop body holds
  left,         \* did the loop end?
  streamCancelled, \* was the stream's own context cancelled?
  yielded       \* history: the results the loop body was given

streamOwnVars == <<source, feederOver, taken, backlog, ended, item, left,
                   streamCancelled, yielded>>
streamVars == <<runDone, streamOwnVars>>

streamDone == runDone \/ streamCancelled \/ left

StreamInit ==
  /\ runDone = FALSE /\ streamCancelled = FALSE
  /\ source = [p \in Producer |-> "new"] /\ feederOver = FALSE
  /\ taken = {} /\ backlog = {} /\ yielded = {} /\ ended = FALSE
  /\ item = NoItem /\ left = FALSE

\* An error of the resource stream is the last thing that the feeder says.
feederFailed == FeedErr(Stream) \in taken

\* A worker takes a producer, which then did not fail to bind; it is done with
\* it when nothing of it is left to yield, or at once when the context ended.
SourceOpens(p) ==
  /\ source[p] = "new" /\ FeedErr(p) \notin taken
  /\ ~feederOver /\ ~feederFailed
  /\ source' = [source EXCEPT ![p] = "open"]
  /\ UNCHANGED <<runDone, feederOver, taken, backlog, ended, item, left,
                 streamCancelled, yielded>>

SourceEnds(p) ==
  /\ source[p] = "open" /\ \A r \in backlog : r.kind = "feed" \/ r.from # p
  /\ source' = [source EXCEPT ![p] = "over"]
  /\ UNCHANGED <<runDone, feederOver, taken, backlog, ended, item, left,
                 streamCancelled, yielded>>

FeederEnds ==
  /\ ~feederOver /\ feederOver' = TRUE
  /\ UNCHANGED <<runDone, source, taken, backlog, ended, item, left,
                 streamCancelled, yielded>>

\* A forwarder receives a result and is free for the next when it is gone.
Accept(r) ==
  /\ r \notin taken /\ Follows(r, yielded)
  /\ IF r.kind = "feed"
       THEN /\ ~feederOver /\ ~feederFailed
            /\ r.from \in Producer => source[r.from] = "new"
       ELSE source[r.from] = "open"
  /\ \A q \in backlog : q.kind = r.kind => r.kind # "feed" /\ q.from # r.from
  /\ taken' = taken \cup {r} /\ backlog' = backlog \cup {r}
  /\ UNCHANGED <<runDone, source, feederOver, ended, item, left,
                 streamCancelled, yielded>>

Give(r) ==
  /\ r \in backlog /\ item = NoItem /\ ~left
  /\ backlog' = backlog \ {r}
  /\ item' = r /\ yielded' = yielded \cup {r}
  /\ UNCHANGED <<runDone, source, feederOver, taken, ended, left,
                 streamCancelled>>

\* Mutant: a forwarder that holds an error does not watch its context.
DropMessagesOnly(r) ==
  /\ r \in backlog /\ r.kind = "msg" /\ streamDone
  /\ backlog' = backlog \ {r}
  /\ UNCHANGED <<runDone, source, feederOver, taken, ended, item, left,
                 streamCancelled, yielded>>

\* A forwarder gives up the result it holds when its context ends.
Drop(r) ==
  /\ r \in backlog /\ streamDone
  /\ backlog' = backlog \ {r}
  /\ \/ UNCHANGED source
     \/ /\ r.kind # "feed" /\ \A q \in backlog' : q.kind = "feed" \/ q.from # r.from
        /\ source' = [source EXCEPT ![r.from] = "over"]
  /\ UNCHANGED <<runDone, feederOver, taken, ended, item, left, streamCancelled,
                 yielded>>

StreamEnds ==
  /\ ~ended /\ feederOver /\ backlog = {}
  /\ \A p \in Producer : source[p] # "open"
  /\ ended' = TRUE
  /\ UNCHANGED <<runDone, source, feederOver, taken, backlog, item, left,
                 streamCancelled, yielded>>

\* The loop meets the end of the stream.
LoopMeetsEnd ==
  /\ ended /\ item = NoItem /\ ~left
  /\ left' = TRUE
  /\ UNCHANGED <<runDone, source, feederOver, taken, backlog, ended, item,
                 streamCancelled, yielded>>

\* The loop body ends, by going on (it may have ended the run: report under
\* exit-on-error) or by leaving the loop.
Continue ==
  /\ item # NoItem /\ item' = NoItem /\ runDone' \in {runDone, TRUE}
  /\ UNCHANGED <<source, feederOver, taken, backlog, ended, left,
                 streamCancelled, yielded>>

Break ==
  /\ item # NoItem /\ item' = NoItem /\ left' = TRUE
  /\ UNCHANGED <<runDone, source, feederOver, taken, backlog, ended,
                 streamCancelled, yielded>>

RunEnds ==
  ~runDone /\ EndRun /\ UNCHANGED streamOwnVars

\* The stream's context ends alone: stage.cancel of core/run.go.
CancelStream ==
  /\ Staged /\ ~streamCancelled /\ streamCancelled' = TRUE
  /\ UNCHANGED <<runDone, source, feederOver, taken, backlog, ended, item, left,
                 yielded>>

\* Everything the goroutines of the stream do by themselves.
StreamRuns ==
  \/ \E p \in Producer : SourceOpens(p) \/ SourceEnds(p)
  \/ FeederEnds \/ StreamEnds
  \/ \E r \in Result : Accept(r) \/ Give(r) \/ Drop(r)

StreamNext ==
  \/ StreamRuns
  \/ LoopMeetsEnd \/ Continue \/ Break \/ RunEnds \/ CancelStream

StreamSpec == StreamInit /\ [][StreamNext]_streamVars

\* The types of the stream's state; a loop that was left holds no result.
StreamTypeOK ==
  /\ runDone \in BOOLEAN /\ streamCancelled \in BOOLEAN
  /\ source \in [Producer -> {"new", "open", "over"}]
  /\ feederOver \in BOOLEAN /\ ended \in BOOLEAN /\ left \in BOOLEAN
  /\ taken \subseteq Result /\ backlog \subseteq taken /\ yielded \subseteq taken
  /\ item \in Result \cup {NoItem}
  /\ left => item = NoItem

\* A result is yielded once, and the loop holds one that was; while no context
\* of the stream ended none is lost; a stream that ended has nothing left and
\* nobody to add to it.
HistoriesInv ==
  /\ ~streamDone => taken = backlog \cup yielded
  /\ backlog \cap yielded = {} /\ (item # NoItem => item \in yielded)
  /\ ended => feederOver /\ backlog = {} /\ \A p \in Producer : source[p] # "open"
=============================================================================
