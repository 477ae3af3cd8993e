---------------------------- MODULE ProducerPool ----------------------------
(***************************************************************************)
(* The producer side of a pipeline run: the feeder of core/feed.go, which  *)
(* pulls resources off a stream, binds each one and offers the producer to *)
(* the pool, and produce / runProducer of core/stream.go, which run the    *)
(* producers on a fixed set of workers and merge what they emit into one   *)
(* stream of results.                                                      *)
(*                                                                         *)
(* Every channel of that code is unbuffered, so a send and its receive are *)
(* one step here.  A result is named by its sender and its rank, which is  *)
(* all that the properties need to tell two of them apart.  Producers and  *)
(* the caller's loop body are the environment.                             *)
(***************************************************************************)
EXTENDS RunContext, PoolResults, FiniteSets

CONSTANTS
  Worker,       \* the goroutines of the pool, `parallel' of them
  BindChunk,    \* the most resources one pull of the stream returns
  Seeded,       \* is the stream a produce-from seed, or a literal list?
  Staged,       \* can the context of produce end before the run's?
  Idle, Exited  \* a worker with no producer; a worker that returned

ASSUME PoolAssumption ==
  /\ Idle # Exited
  /\ {Idle, Exited} \cap Producer = {}
  /\ Seeded \in BOOLEAN /\ Staged \in BOOLEAN
  /\ IsFiniteSet(Producer) /\ IsFiniteSet(Worker)

VARIABLES
  feeder,       \* where the feeder is
  todo,         \* resources the stream has not yielded yet
  chunk,        \* resources pulled and not yet bound
  cur,          \* the resource being offered or failing to bind, else Stream
  releases,     \* how many times the stream was released
  prod,         \* the life of each producer and of its plugin instance
  sent, failed, \* messages and errors received from each producer
  dataClosed,   \* producers that closed their data channel
  errsClosed,   \* producers that closed their error channel
  dataFwd,      \* producers whose data forwarder runs
  errFwd,       \* producers whose error forwarder runs
  feedFwd,      \* does the forwarder of feeder errors run?
  taken,        \* history: the results the forwarders received
  inflight,     \* those a forwarder is emitting
  job,          \* what each worker runs
  merged,       \* is the merged channel "open" or "closed"?
  item,         \* the result the caller's loop body holds
  left,         \* did the caller's loop end?
  streamCancelled, \* was the context given to produce cancelled on its own?
  yielded       \* history: the results the loop body was given

feederVars == <<feeder, todo, chunk, cur, releases>>
producerVars == <<prod, sent, failed, dataClosed, errsClosed>>
forwarderVars == <<dataFwd, errFwd, feedFwd, taken, inflight>>
loopVars == <<merged, item, left, yielded>>
poolVars == <<runDone, streamCancelled, feederVars, producerVars,
              forwarderVars, job, loopVars>>

FeederState == {"pull", "bind", "send", "failBind", "failStream", "release",
                "closeFeed", "closeErrs", "exited"}

\* feed is closed before errs, and both after the stream is released.
feedClosed == feeder \in {"closeErrs", "exited"}
feedErrsClosed == feeder = "exited"

\* The context of one call of produce ends with its parent's, and when the
\* caller's loop is over (the deferred cancel).
poolDone == runDone \/ streamCancelled \/ left

\* Is the forwarder of this kind (of producer p) blocked in emit?
Emitting(k, p) == \E r \in inflight : r.kind = k /\ r.from = p
FeedEmitting == \E r \in inflight : r.kind = "feed"

PoolInit ==
  /\ runDone = FALSE /\ streamCancelled = FALSE
  /\ feeder = "pull" /\ todo = Producer /\ chunk = {} /\ cur = Stream
  /\ releases = 0
  /\ prod = [p \in Producer |-> "unbound"]
  /\ sent = [p \in Producer |-> 0] /\ failed = [p \in Producer |-> 0]
  /\ dataClosed = {} /\ errsClosed = {}
  /\ dataFwd = {} /\ errFwd = {} /\ feedFwd = TRUE /\ taken = {} /\ inflight = {}
  /\ job = [w \in Worker |-> Idle]
  /\ merged = "open" /\ item = NoItem /\ left = FALSE /\ yielded = {}

-----------------------------------------------------------------------------
(* The feeder: producerSource of core/feed.go.                             *)

\* Mutant: the chunk that was pulled first is taken for the whole stream.
nextResourceOneChunk == IF chunk = {} THEN "release" ELSE "bind"

\* What the feeder does after a resource: the rest of the chunk, or a pull.
nextResource == IF chunk = {} THEN "pull" ELSE "bind"

\* bindings(ctx, bindChunk) returns some resources, or none when the stream
\* is exhausted.
FeederPull ==
  /\ feeder = "pull"
  /\ \/ \E c \in SUBSET todo :
          /\ c # {} /\ Cardinality(c) <= BindChunk
          /\ chunk' = c /\ todo' = todo \ c /\ feeder' = "bind"
     \/ todo = {} /\ feeder' = "release" /\ UNCHANGED <<todo, chunk>>
  /\ UNCHANGED <<runDone, streamCancelled, cur, releases, producerVars,
                 forwarderVars, job, loopVars>>

\* bindings returns an error, which only a seeded stream does: the seed
\* failed, or timed out, or the context ended.
FeederPullFails ==
  /\ feeder = "pull" /\ Seeded
  /\ feeder' = "failStream"
  /\ UNCHANGED <<runDone, streamCancelled, todo, chunk, cur, releases,
                 producerVars, forwarderVars, job, loopVars>>

\* bindProducer on the next resource of the chunk, with its two outcomes.
FeederBind ==
  /\ feeder = "bind"
  /\ \E p \in chunk :
       /\ chunk' = chunk \ {p} /\ cur' = p
       /\ \/ feeder' = "send" /\ prod' = [prod EXCEPT ![p] = "bound"]
          \/ feeder' = "failBind" /\ UNCHANGED prod
  /\ UNCHANGED <<runDone, streamCancelled, todo, releases, sent, failed,
                 dataClosed, errsClosed, forwarderVars, job, loopVars>>

\* errs <- err, received by the forwarder of feeder errors.
FeederFail ==
  /\ feeder \in {"failBind", "failStream"}
  /\ feedFwd /\ ~FeedEmitting
  /\ taken' = taken \cup {FeedErr(cur)}
  /\ inflight' = inflight \cup {FeedErr(cur)}
  /\ feeder' = IF feeder = "failBind" THEN nextResource ELSE "release"
  /\ cur' = Stream
  /\ UNCHANGED <<runDone, streamCancelled, todo, chunk, releases,
                 producerVars, dataFwd, errFwd, feedFwd, job, loopVars>>

\* Mutant: the cancelled feeder releases the stream itself, too.
FeederCancelledReleases ==
  /\ feeder \in {"send", "failBind", "failStream"} /\ runDone
  /\ feeder' = "release" /\ cur' = Stream /\ releases' = releases + 1
  /\ UNCHANGED <<runDone, streamCancelled, todo, chunk,
                 producerVars, forwarderVars, job, loopVars>>

\* ctx ends while the feeder offers a producer or an error; a producer that
\* was bound and never taken stays bound.
FeederCancelled ==
  /\ feeder \in {"send", "failBind", "failStream"} /\ runDone
  /\ feeder' = "release" /\ cur' = Stream
  /\ UNCHANGED <<runDone, streamCancelled, todo, chunk, releases,
                 producerVars, forwarderVars, job, loopVars>>

\* Mutant: the error channel of the feeder is never closed.
FeederUnwindLeavesErrs ==
  /\ \/ /\ feeder = "release" /\ feeder' = "closeFeed"
        /\ releases' = releases + 1
     \/ feeder = "closeFeed" /\ feeder' = "closeErrs" /\ UNCHANGED releases
  /\ UNCHANGED <<runDone, streamCancelled, todo, chunk, cur, producerVars,
                 forwarderVars, job, loopVars>>

\* The deferred calls, in the order they run.
FeederUnwind ==
  /\ \/ /\ feeder = "release" /\ feeder' = "closeFeed"
        /\ releases' = releases + 1
     \/ feeder = "closeFeed" /\ feeder' = "closeErrs" /\ UNCHANGED releases
     \/ feeder = "closeErrs" /\ feeder' = "exited" /\ UNCHANGED releases
  /\ UNCHANGED <<runDone, streamCancelled, todo, chunk, cur, producerVars,
                 forwarderVars, job, loopVars>>

Feeder == \/ FeederPull \/ FeederPullFails \/ FeederBind \/ FeederFail
          \/ FeederCancelled \/ FeederUnwind

-----------------------------------------------------------------------------
(* The workers of produce, and the two forwarders runProducer adds to each *)
(* producer.                                                               *)

\* p := <-feed: the worker starts the producer and its forwarders.
WorkerPull(w) ==
  /\ feeder = "send" /\ job[w] = Idle
  /\ feeder' = nextResource /\ cur' = Stream
  /\ job' = [job EXCEPT ![w] = cur]
  /\ prod' = [prod EXCEPT ![cur] = "running"]
  /\ dataFwd' = dataFwd \cup {cur} /\ errFwd' = errFwd \cup {cur}
  /\ UNCHANGED <<runDone, streamCancelled, todo, chunk, releases, sent,
                 failed, dataClosed, errsClosed, feedFwd, taken, inflight,
                 loopVars>>

\* Mutant: runProducer waits for one of its forwarders only.
WorkerNextEarly(w) ==
  /\ job[w] \in Producer \ (dataFwd \cap errFwd)
  /\ job' = [job EXCEPT ![w] = Idle]
  /\ UNCHANGED <<runDone, streamCancelled, feederVars, producerVars,
                 forwarderVars, loopVars>>

\* Both forwarders ended, so runProducer returns.
WorkerNext(w) ==
  /\ job[w] \in Producer \ (dataFwd \cup errFwd)
  /\ job' = [job EXCEPT ![w] = Idle]
  /\ UNCHANGED <<runDone, streamCancelled, feederVars, producerVars,
                 forwarderVars, loopVars>>

\* Mutant: a worker waits for the end of feed and ignores the context.
WorkerExitOnFeed(w) ==
  /\ job[w] = Idle /\ feedClosed
  /\ job' = [job EXCEPT ![w] = Exited]
  /\ UNCHANGED <<runDone, streamCancelled, feederVars, producerVars,
                 forwarderVars, loopVars>>

\* feed is closed, or the context is done.
WorkerExit(w) ==
  /\ job[w] = Idle /\ (feedClosed \/ poolDone)
  /\ job' = [job EXCEPT ![w] = Exited]
  /\ UNCHANGED <<runDone, streamCancelled, feederVars, producerVars,
                 forwarderVars, loopVars>>

\* A message or an error goes from the producer to its forwarder.
ProducerSend(p) ==
  /\ prod[p] = "running" /\ p \notin dataClosed /\ sent[p] < MaxMsgs
  /\ p \in dataFwd /\ ~Emitting("msg", p)
  /\ taken' = taken \cup {Msg(p, sent[p] + 1)}
  /\ inflight' = inflight \cup {Msg(p, sent[p] + 1)}
  /\ sent' = [sent EXCEPT ![p] = @ + 1]
  /\ UNCHANGED <<runDone, streamCancelled, feederVars, prod, failed,
                 dataClosed, errsClosed, dataFwd, errFwd, feedFwd, job,
                 loopVars>>

ProducerFail(p) ==
  /\ prod[p] = "running" /\ p \notin errsClosed /\ failed[p] < MaxErrs
  /\ p \in errFwd /\ ~Emitting("err", p)
  /\ taken' = taken \cup {Err(p, failed[p] + 1)}
  /\ inflight' = inflight \cup {Err(p, failed[p] + 1)}
  /\ failed' = [failed EXCEPT ![p] = @ + 1]
  /\ UNCHANGED <<runDone, streamCancelled, feederVars, prod, sent, dataClosed,
                 errsClosed, dataFwd, errFwd, feedFwd, job, loopVars>>

\* A producer closes its error channel if it wants to, its data channel in
\* every case, and returns (which closes its plugin instance).
ProducerCloseErrs(p) ==
  /\ prod[p] = "running" /\ p \notin errsClosed
  /\ errsClosed' = errsClosed \cup {p}
  /\ UNCHANGED <<runDone, streamCancelled, feederVars, prod, sent, failed,
                 dataClosed, forwarderVars, job, loopVars>>

ProducerCloseData(p) ==
  /\ prod[p] = "running" /\ p \notin dataClosed
  /\ dataClosed' = dataClosed \cup {p}
  /\ UNCHANGED <<runDone, streamCancelled, feederVars, prod, sent, failed,
                 errsClosed, forwarderVars, job, loopVars>>

ProducerReturn(p) ==
  /\ prod[p] = "running" /\ p \in dataClosed
  /\ prod' = [prod EXCEPT ![p] = "returned"]
  /\ UNCHANGED <<runDone, streamCancelled, feederVars, sent, failed,
                 dataClosed, errsClosed, forwarderVars, job, loopVars>>

\* Mutant: the data forwarder ends with a message in its hand.
DataFwdEndHasty(p) ==
  /\ p \in dataFwd
  /\ p \in dataClosed \/ poolDone
  /\ dataFwd' = dataFwd \ {p}
  /\ UNCHANGED <<runDone, streamCancelled, feederVars, producerVars, errFwd,
                 feedFwd, taken, inflight, job, loopVars>>

\* Mutant: the error forwarder takes the end of the data for the end of both.
ErrFwdEndWithData(p) ==
  /\ p \in errFwd /\ ~Emitting("err", p)
  /\ p \in errsClosed \cup dataClosed \/ poolDone
  /\ errFwd' = errFwd \ {p}
  /\ UNCHANGED <<runDone, streamCancelled, feederVars, producerVars, dataFwd,
                 feedFwd, taken, inflight, job, loopVars>>

\* Mutant: the error forwarder does not watch for the producer's return.
ErrFwdEndOnClose(p) ==
  /\ p \in errFwd /\ ~Emitting("err", p)
  /\ p \in errsClosed \/ poolDone
  /\ errFwd' = errFwd \ {p}
  /\ UNCHANGED <<runDone, streamCancelled, feederVars, producerVars, dataFwd,
                 feedFwd, taken, inflight, job, loopVars>>

\* A forwarder with nothing in hand ends when its channel is closed or the
\* context is done; the error forwarder, when the producer returned, too.
DataFwdEnd(p) ==
  /\ p \in dataFwd /\ ~Emitting("msg", p)
  /\ p \in dataClosed \/ poolDone
  /\ dataFwd' = dataFwd \ {p}
  /\ UNCHANGED <<runDone, streamCancelled, feederVars, producerVars, errFwd,
                 feedFwd, taken, inflight, job, loopVars>>

ErrFwdEnd(p) ==
  /\ p \in errFwd /\ ~Emitting("err", p)
  /\ p \in errsClosed \/ prod[p] = "returned" \/ poolDone
  /\ errFwd' = errFwd \ {p}
  /\ UNCHANGED <<runDone, streamCancelled, feederVars, producerVars, dataFwd,
                 feedFwd, taken, inflight, job, loopVars>>

\* The forwarder of feeder errors drains its channel until it is closed.
FeedFwdEnd ==
  /\ feedFwd /\ ~FeedEmitting /\ feedErrsClosed
  /\ feedFwd' = FALSE
  /\ UNCHANGED <<runDone, streamCancelled, feederVars, producerVars, dataFwd,
                 errFwd, taken, inflight, job, loopVars>>

-----------------------------------------------------------------------------
(* emit, the closer, and the loop `for r := range merged'.                 *)

\* out <- r: the loop takes the result and runs the caller's body on it.
Yield(r) ==
  /\ r \in inflight /\ item = NoItem /\ ~left
  /\ inflight' = inflight \ {r}
  /\ item' = r /\ yielded' = yielded \cup {r}
  /\ UNCHANGED <<runDone, streamCancelled, feederVars, producerVars, dataFwd,
                 errFwd, feedFwd, taken, job, merged, left>>

\* emit gives up.  The forwarder of a producer ends; that of feeder errors
\* goes on draining.
EmitCancelled(r) ==
  /\ r \in inflight /\ poolDone
  /\ inflight' = inflight \ {r}
  /\ dataFwd' = IF r.kind = "msg" THEN dataFwd \ {r.from} ELSE dataFwd
  /\ errFwd' = IF r.kind = "err" THEN errFwd \ {r.from} ELSE errFwd
  /\ UNCHANGED <<runDone, streamCancelled, feederVars, producerVars, feedFwd,
                 taken, job, loopVars>>

\* Mutant: the closer waits for the workers only.
CloseMergedEarly ==
  /\ merged = "open" /\ \A w \in Worker : job[w] = Exited
  /\ merged' = "closed"
  /\ UNCHANGED <<runDone, streamCancelled, feederVars, producerVars,
                 forwarderVars, job, item, left, yielded>>

\* The goroutine that waits for the workers and the feeder's forwarder.
CloseMerged ==
  /\ merged = "open" /\ ~feedFwd /\ \A w \in Worker : job[w] = Exited
  /\ merged' = "closed"
  /\ UNCHANGED <<runDone, streamCancelled, feederVars, producerVars,
                 forwarderVars, job, item, left, yielded>>

\* The loop meets the end of merged.
LoopEnd ==
  /\ merged = "closed" /\ item = NoItem /\ ~left
  /\ left' = TRUE
  /\ UNCHANGED <<runDone, streamCancelled, feederVars, producerVars,
                 forwarderVars, job, merged, item, yielded>>

\* The caller's body is done with the result: it goes on (and may have ended
\* the run: report under exit-on-error), or breaks.
BodyContinue ==
  /\ item # NoItem /\ item' = NoItem /\ runDone' \in {runDone, TRUE}
  /\ UNCHANGED <<streamCancelled, feederVars, producerVars,
                 forwarderVars, job, merged, left, yielded>>

BodyBreak ==
  /\ item # NoItem /\ item' = NoItem /\ left' = TRUE
  /\ UNCHANGED <<runDone, streamCancelled, feederVars, producerVars,
                 forwarderVars, job, merged, yielded>>

\* The caller ends the run, or only the context it gave to produce.
CallerEndsRun ==
  /\ ~runDone /\ EndRun
  /\ UNCHANGED <<streamCancelled, feederVars, producerVars, forwarderVars,
                 job, loopVars>>

CallerEndsStream ==
  /\ Staged /\ ~streamCancelled /\ streamCancelled' = TRUE
  /\ UNCHANGED <<runDone, feederVars, producerVars, forwarderVars, job,
                 loopVars>>

-----------------------------------------------------------------------------
Workers == \E w \in Worker : WorkerPull(w) \/ WorkerNext(w) \/ WorkerExit(w)

Forwarders ==
  \/ \E p \in Producer : DataFwdEnd(p) \/ ErrFwdEnd(p)
  \/ FeedFwdEnd
  \/ \E r \in inflight : Yield(r) \/ EmitCancelled(r)

Producers ==
  \E p \in Producer : \/ ProducerSend(p) \/ ProducerFail(p)
                      \/ ProducerCloseErrs(p) \/ ProducerCloseData(p)
                      \/ ProducerReturn(p)

Caller == \/ BodyContinue \/ BodyBreak \/ CallerEndsRun \/ CallerEndsStream

\* Every goroutine of the pool and every producer it started has returned.
PoolQuiet ==
  /\ left /\ merged = "closed" /\ feedErrsClosed /\ inflight = {}
  /\ \A p \in Producer : prod[p] # "running"

PoolNext == \/ Feeder \/ Workers \/ Forwarders \/ Producers
            \/ CloseMerged \/ LoopEnd \/ Caller
            \/ PoolQuiet /\ UNCHANGED poolVars

PoolSpec == PoolInit /\ [][PoolNext]_poolVars

-----------------------------------------------------------------------------
(* Safety.                                                                 *)

PoolTypeOK ==
  /\ runDone \in BOOLEAN /\ streamCancelled \in BOOLEAN
  /\ feeder \in FeederState
  /\ todo \subseteq Producer /\ chunk \subseteq Producer
  /\ cur \in Producer \cup {Stream}
  /\ releases \in 0..1
  /\ prod \in [Producer -> {"unbound", "bound", "running", "returned"}]
  /\ sent \in [Producer -> 0..MaxMsgs] /\ failed \in [Producer -> 0..MaxErrs]
  /\ dataClosed \subseteq Producer /\ errsClosed \subseteq Producer
  /\ dataFwd \subseteq Producer /\ errFwd \subseteq Producer
  /\ feedFwd \in BOOLEAN
  /\ taken \subseteq Result
  /\ inflight \subseteq taken /\ yielded \subseteq taken
  /\ job \in [Worker -> Producer \cup {Idle, Exited}]
  /\ merged \in {"open", "closed"}
  /\ item \in Result \cup {NoItem} /\ left \in BOOLEAN

\* As long as no context ends, every message and every error that left a
\* producer or the feeder is yielded, or on its way to the loop: the worker pool drops
\* nothing when producers are replaced (core/stream.go, produce).
NothingLost == ~poolDone => taken = inflight \cup yielded

\* A resource the stream yielded is still in the feeder's hands, was bound,
\* or its bind error is on its way to the caller: no resource is skipped
\* silently (core/feed.go, the loop over a chunk).
BindErrorsReported ==
  ~poolDone => \A p \in Producer :
    prod[p] = "unbound" =>
      \/ p \in todo \cup chunk
      \/ feeder = "failBind" /\ cur = p
      \/ FeedErr(p) \in taken

\* The loop is never given a result twice.
NeverTwice == inflight \cap yielded = {}

\* The messages of one producer are yielded in the order it sent them, with
\* none missing in between, even when the context ends half way.
InOrder == \A r \in yielded : Follows(r, yielded)

\* At most `parallel' producers have their data channel open at a time, for
\* as long as the context lives (the fixed pool of produce).
ParallelCap ==
  ~poolDone =>
    Cardinality({p \in Producer : prod[p] = "running" /\ p \notin dataClosed})
      <= Cardinality(Worker)

\* As long as the context lives, someone listens on every channel a running
\* producer has open, so that none of its messages or errors can block for
\* ever: an error is received before the producer returns (the comment of
\* runProducer), even one sent after the data was closed.
ListenedTo ==
  ~poolDone => \A p \in Producer : prod[p] = "running" =>
    p \in dataFwd \cup dataClosed /\ p \in errFwd \cup errsClosed

\* The merged stream ends only after the feeder released the resource stream,
\* exactly once, and after every worker returned: the end of the stream is a
\* witness of the teardown (comments of produce and of producerSource).
EndWitnessesTeardown ==
  merged = "closed" =>
    /\ feedErrsClosed /\ releases = 1
    /\ \A w \in Worker : job[w] = Exited

\* A stream that ends on its own, with no context ended, is complete: the
\* resource stream was exhausted or its error yielded, and every resource of
\* it failed to bind or ran until its producer closed its data.
EndIsComplete ==
  merged = "closed" /\ ~poolDone =>
    /\ inflight = {} /\ chunk = {}
    /\ todo = {} \/ FeedErr(Stream) \in yielded
    /\ \A p \in Producer \ todo : FeedErr(p) \in yielded \/ p \in dataClosed

-----------------------------------------------------------------------------
(* The inductive invariant: what the properties above rest on.             *)

feederOver == feeder \in {"release", "closeFeed", "closeErrs", "exited"}

\* Each resource is in one place: in the stream, in the chunk, or in the
\* feeder's hand; only the end of the run's context makes the feeder drop a
\* chunk, or a producer it bound.
FeederInv ==
  /\ releases = IF feeder \in {"closeFeed", "closeErrs", "exited"} THEN 1 ELSE 0
  /\ cur \in Producer <=> feeder \in {"send", "failBind"}
  /\ chunk # {} => feeder \in {"bind", "send", "failBind"} \/ runDone
  /\ todo \cap chunk = {} /\ cur \notin todo \cup chunk
  /\ \A p \in todo \cup chunk : prod[p] = "unbound"
  /\ feeder = "failBind" => prod[cur] = "unbound"
  /\ feeder = "send" => prod[cur] = "bound"
  /\ \A p \in Producer : prod[p] = "bound" => cur = p \/ runDone
  /\ feederOver /\ ~runDone => todo = {} \/ FeedErr(Stream) \in taken

\* A result in flight is the last of its sender and in the hand of a forwarder
\* that runs; a result that was taken was sent.
ForwarderInv ==
  /\ \A r \in inflight :
       /\ r.kind = "msg" => r.from \in dataFwd /\ r.n = sent[r.from]
       /\ r.kind = "err" => r.from \in errFwd /\ r.n = failed[r.from]
       /\ r.kind = "feed" => feedFwd
  /\ \A r \in taken :
       /\ r.kind = "msg" => r.n <= sent[r.from]
       /\ r.kind = "err" => r.n <= failed[r.from]
       /\ r.kind = "feed" =>
            IF r.from = Stream THEN feederOver
            ELSE prod[r.from] = "unbound" /\ r.from \notin todo \cup chunk \cup {cur}

\* A forwarder runs for a producer that was started and that a worker is
\* busy with; it ends before its channel does only with the context.
ProducerInv ==
  /\ \A p \in dataFwd \cup errFwd :
       prod[p] \in {"running", "returned"} /\ \E w \in Worker : job[w] = p
  /\ \A p \in Producer :
       /\ prod[p] \in {"running", "returned"} /\ ~poolDone
            => p \in dataFwd \cup dataClosed
       /\ prod[p] = "running" /\ ~poolDone => p \in errFwd \cup errsClosed
       /\ prod[p] = "returned" => p \in dataClosed
       /\ prod[p] \in {"unbound", "bound"} => sent[p] = 0

\* The last message of a producer that can send another one was given to the
\* loop, or is on its way.
OrderInv ==
  /\ \A p \in dataFwd : sent[p] = 0 \/ Msg(p, sent[p]) \in inflight \cup yielded
  /\ \A r \in inflight \cup yielded : Follows(r, yielded)

TeardownInv ==
  /\ feedFwd \/ feedErrsClosed
  /\ merged = "closed" => ~feedFwd /\ \A w \in Worker : job[w] = Exited

PoolInv ==
  /\ PoolTypeOK /\ FeederInv /\ ForwarderInv /\ ProducerInv /\ OrderInv
  /\ TeardownInv /\ NothingLost /\ BindErrorsReported /\ NeverTwice

-----------------------------------------------------------------------------
(* Liveness.                                                               *)

\* A producer reacts to the end of its context: it closes and returns.
ProducerObeys(p) == poolDone /\ (ProducerCloseData(p) \/ ProducerReturn(p))

\* Goroutines that can run do run.  A pull of a seeded stream may stay quiet
\* for as long as the context lives; a literal list answers at once.
\* Producers select on their context and may otherwise run for ever.
PoolFairness ==
  /\ WF_poolVars((runDone \/ ~Seeded) /\ (FeederPull \/ FeederPullFails))
  /\ WF_poolVars(FeederBind \/ FeederFail \/ FeederCancelled \/ FeederUnwind)
  /\ \A w \in Worker :
       WF_poolVars(WorkerPull(w) \/ WorkerNext(w) \/ WorkerExit(w))
  /\ WF_poolVars(Forwarders)
  /\ \A p \in Producer : WF_poolVars(ProducerObeys(p))
  /\ WF_poolVars(CloseMerged) /\ WF_poolVars(LoopEnd)
  /\ WF_poolVars(BodyContinue \/ BodyBreak)

PoolLiveSpec == PoolSpec /\ PoolFairness

\* Producers that end by themselves, and a seed that is never quiet for ever.
FiniteStream ==
  /\ WF_poolVars(FeederPull \/ FeederPullFails)
  /\ \A p \in Producer : WF_poolVars(ProducerCloseData(p) \/ ProducerReturn(p))

\* When the run's context ends, the stream ends and all that the pool started
\* winds down, even with a quiet seed and producers that never finish.
CancelEndsStream == runDone ~> PoolQuiet

\* When the caller breaks out, every worker and both forwarders of every
\* producer are released, even though the run's context lives on.
BreakReleasesWorkers ==
  left ~> /\ \A w \in Worker : job[w] = Exited
          /\ dataFwd \cup errFwd = {}

\* A finite stream ends.
FiniteStreamEnds == FiniteStream => <>left

-----------------------------------------------------------------------------
(* The pool implements the abstract stream of results.                     *)

\* A producer is open while one of its forwarders runs.
sourceOf ==
  [p \in Producer |-> IF p \in dataFwd \cup errFwd THEN "open"
                      ELSE IF prod[p] \in {"unbound", "bound"} THEN "new"
                      ELSE "over"]

Merged == INSTANCE MergedStream WITH
            source <- sourceOf, feederOver <- feedErrsClosed,
            backlog <- inflight, ended <- merged = "closed"

\* The goroutines of produce give its caller the stream MergedStream promises.
ImplementsStream == Merged!StreamSpec
=============================================================================
