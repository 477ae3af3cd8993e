# Psyduck, verified in TLA+

Psyduck reads a configuration, builds pipelines out of plugin resources
(producers, transformers, consumers) and runs them. This directory holds the
TLA+ specifications of the engine and of the host around it, the TLC
configurations that check them, and the TLAPS proofs about them. Paths such as
`core/stream.go` are relative to the repository's source.

- [Inventory](#inventory)
- [Modules](#modules)
- [Runs](#runs)
- [Fairness](#fairness)
- [Proofs](#proofs)
- [Disagreements between code and documentation](#disagreements)
- [Not modelled](#not-modelled)
- [Plan](#plan)

## Inventory

| Component | Source | State it keeps | Operations | Correct when | Module |
|---|---|---|---|---|---|
| Producer feeder | `core/feed.go` | the stream, the chunk being bound, `feed`, `errs` | pull a chunk, bind, offer a producer or an error, deferred release and closes | no resource is skipped silently; the stream is released once, before `feed` and `errs` close | `ProducerPool` |
| Producer pool | `core/stream.go` | `parallel` workers, two forwarders per producer, `merged`, a context per call | pull a producer, forward, `emit`, close `merged`, the caller's range loop | nothing lost, doubled or reordered; never more than `parallel` producers; somebody listens as long as a producer may send; the end of the stream is a witness of the teardown | `ProducerPool`, `MergedStream` |
| Sink | `core/sink.go` | input, done and error channel of each consumer, `finished`, error forwarders | `send`, `close`, `flush`, `waitErrs` | complete and ordered fan-out; nobody is written off who is not done; a run that ends clean waited for everybody | `Sink` |
| Transform stage | `core/transform.go` | its context, `in`, `out`, `errs`, a feeder and an error forwarder | feed, report, cancel, join | errors are joined before the failure is read; the join ends | `RunPipeline` |
| Pipeline run | `core/run.go` | the run's context, the first failure | `report`, the range loops, cancel, join, return value | first error stored and returned; nil means delivered; returns when cancelled, when failed, when everything finished | `RunPipeline` |
| Pipeline build | `core/build.go` | bound instances | bind all (`drain`), compose transformers | the composed chain loses and reorders nothing; a failed bind runs nothing | `Command`, `Stages` |
| Produce-from seed | `parse/hcl/produce_from.go` | the seed's producer, buffered resources, first-message timer | pull, parse, time out, finish | resources come once and in order; the way the stream ends says what happened; every terminal call stops the seed and joins its runner; a pull is answered | `SeedStream` (and, seen from the feeder, `ProducerPool`) |
| Flow gates | `stdlib/flow/flow.go` | counters, a ticker, an inner resource | rate limit, cutoff, grace window | the cutoff is exact, the rate holds, the inner resource is released, a gate around a deaf consumer returns | `FlowGates`, `Stages` |
| Keyed and stateless transformers | `stdlib/transform/` (`keyed.go`, `codec.go`, `filter.go`, ...) | windows of keys, a batch buffer, counters | dedupe, uniq, batch, filter, count, head, ... | each owes what its reference says, whatever the interleaving; a clean end loses no message and no error | `Stages` |
| Framing, file and socket | `stdlib/transport`, `stdlib/produce/file.go`, `stdlib/consume/file.go` | a scanner's buffer, a batch, a joiner | split, group, follow, join, flush | what was read, framed and joined again is what was written; a fault is reported and loses nothing before it | `FileCopy` |
| Import graph | `parse/hcl/import.go`, `resource.go`, `context.go` | memo of results, files being resolved, plugin specs by name, reference trees | collect plugins, resolve files, resolve references | each file resolved once; a cycle is an error and never a memo; references lead to what is in scope | `Imports` |
| Plugin store | `plugins/store.go`, `lock.go`, `fetch.go` | binaries in slots named by a short hash, the lock file, launched subprocesses | build, verify, load, close | what is launched is what the lock names; a finished init heals a torn store | `PluginStore` |
| Command line | `main.go` | one goroutine per pipeline, the `errs` channel | run, init, list, show | nothing runs before all is built, nothing is torn down under a pipeline, the first error is returned | `Command` |

How they interact: the feeder's goroutine pulls *resources* off a stream (a
literal list, or a seed producer that emits configuration) and hands bound
*producers* to the workers of the pool over an unbuffered channel; each worker
runs one producer at a time, with one goroutine that forwards its messages and
one that forwards its errors into the single `merged` channel. The main
goroutine of `RunPipeline` ranges over `merged`. Without a transformer it gives
each message to the sink; with one, a second goroutine ranges over `merged` and
feeds the transformer, and main ranges over the transformer's output. Errors of
every side reach `report`, which under exit-on-error stores the first and ends
the run's context. The contexts form a tree: the caller's; the run's; with a
transformer the stage's; the one each call of `produce` makes, which also ends
when the caller's range loop is left. The feeder watches the run's context
only, which is the root of one of the findings below. A produce-from pipeline
replaces the literal list by a stream whose pulls wait for the messages of a
*seed*, run by one more goroutine (`runSeed`) that the feeder starts with its
first pull and must stop with its release.

Around the engine, `main.go` loads the plugins the lock file lists, parses,
builds every pipeline, and then runs each in a goroutine that puts its result
into a buffered channel; plugins are killed when the last has returned. `init`
works on the same directory as a run, from another process. A block with
host-owned limits has its producer or consumer wrapped in a *gate*, a goroutine
that passes messages between the engine and the inner resource and owns the
inner context.

What is hard: every channel is unbuffered and every send selects on some
context, so the number of ways a run can end (exhausted, all consumers done,
error, caller's cancellation, at any point of a send) is large, and tests fix
only a few interleavings of them. Behind a gate there are two lifetimes, the
gate's and the inner resource's, and either may end first. The store is a set of
files written in place, hashed first and executed afterwards, while another
process may rewrite them.

## Modules

| Module | Models |
|---|---|
| `RunContext` | the run's context |
| `PoolResults` | the results that travel on `merged`, named by sender and rank |
| `ProducerPool` | feeder, workers, forwarders, closer, range loop, at the level of single channel operations |
| `MergedStream` | abstract: what the range loop may rely on |
| `ProducerPool_proofs` | inductive invariant of the pool, the theorems that follow, and that it implements `MergedStream` |
| `Sink` | main's calls to the sink, the consumers, their error forwarders |
| `RunPipeline` | `MergedStream` and `Sink` composed by `RunPipeline` and the transform stage |
| `RunPipeline_proofs` | inductive invariant of the sink and the theorems that follow; a run implements the stream and the sink; its own invariants; errors are joined and returned; delivery |
| `SeedStream` | the stream of a produce-from pipeline: pulls, release, runner, seed |
| `SeedStream_proofs` | its inductive invariant, its joins, and the truth of how it ends |
| `FlowGates` | a gated producer, an engine that carries one message, a gated consumer |
| `Stages` | a chain of stdlib transformers joined as `composeTransformers` joins them |
| `FileCopy` | a byte stream cut into messages by `Split`, and joined again by `Joiner` |
| `PluginStore` | `init` and the loading of a run on one directory |
| `Command` | `psyduck run` from its plugins to its exit, over `PluginStore` |
| `Imports` | the two walks over `.psy` files, and what their references resolve to |
| `Command_proofs` | the store and the command on it: inductive invariants and the theorems that follow |
| `Stages_proofs` | a chain of transformers meets its references |
| `Stdlib_proofs` | inductive invariants of the gates and of a copy |
| `Imports_proofs` | reference trees, and the inductive invariant of both walks |
| `DataLemmas` | lemmas about sequences and numbers that these proofs share |
| `MCProducerPool`, `MCSink`, `MCRunPipeline`, `MCSeedStream` | instances for TLC |
| `MCStdlib` | `FlowGates`, `Stages`, `FileCopy` side by side |
| `MCHost` | `PluginStore` alone, `Command` (with `PluginStore`), `Imports`, `SeedStream` and `Sink` side by side |

**Correspondence.** An unbuffered send and its receive are one action, taken
when both sides are there (`ProducerSend`: the producer is running and its
forwarder is at its receive). A `select` with several ready cases is a choice
between actions (`SendDelivers`, `SendFindsDone`, `SendCancelled`). A goroutine
is a program counter (`feeder`, `main`, `job[w]`, `consFwd[c]`) or a membership
(`dataFwd`, `errFwd`: the forwarder runs; with a result of its own in
`inflight` it is blocked in `emit`). Deferred calls are actions of their own in
the order they run (`FeederUnwind`). Histories (`taken`, `yielded`,
`dispatched`, `collected`, `firstError`, `declared`, `ending`) only serve the
properties. Which pipeline runs, with or without a transformer and with or
without exit-on-error, is chosen in the initial state (`pipeline`).

**Environment.** Producers may send, fail, close, and return in any order
their contract allows. Consumers may close `done` at any time, go on receiving
after it, and report errors until they return. The transformer passes each
message on at most once, in order, and may drop it; a transformer that makes
several messages out of one is not covered. Contexts end at any time. The seed
sends messages that declare nothing, declare resources, or do not parse; it may
fail, stay quiet, close its channels in either order, and return without
closing errs; a seed with host-owned limits is this one inside a gate, and the
gate is modelled on its own (`FlowGates`). The inner producer of a gate selects
on its context when it sends, and perhaps not when it reports (`bare`); the inner
consumer is prompt, slow, deaf to its context, or done early (`temper`). A clone,
a build, a handshake, a bind, a read or a write succeeds or fails freely; a
build yields some version; processes may stop between any two steps.

**Abstraction.** `MergedStream` is what `RunPipeline` is composed with instead
of `ProducerPool`: the composition of both detailed components is out of TLC's
reach, and the refinement (proved for every instance, checked on a small one)
makes the abstraction sound for safety. For liveness, the fairness that
`RunPipeline` assumes of the stream is stated on the abstract actions and is
justified by `PoolLive`, which checks the detailed pool.

`ProducerPool` has the produce-from stream as a pull that may block or fail
(`Seeded`); `SeedStream` is that stream in detail, with the feeder as its
caller. The two are not linked by a refinement yet.

In `Stages`, a message is a key class and the positions of the input it carries:
what a selector extracts, or a codec makes of it, is one of four classes. In
`PluginStore`, a binary is its version, and `Short` is the part of its hash that
names the slot, so that two versions may share one. A file that is being written
is torn between truncation and its last byte. In `Imports`, a file's content is
chosen when it is loaded, a reference is the sequence of its segments, and Go's
map iteration a free choice. `FlowGates` counts intervals, not time: a tick is
what lets a paced gate go on.

`RunsTheStream` and `RunsTheSink` close the circle: in a run, the components
do to each other only what each component's own specification lets its
environment do. Both are proved.

## Runs

All bounds are constants; every run is exhaustive within them.

| Run | Question | Instance |
|---|---|---|
| `Pool` | is a resource ever skipped, is a result lost, doubled or yielded out of order, does the end of the stream witness a complete stream and the teardown | 2 producers, 1 worker, chunks of up to 2, 2 messages each, a stream that can fail, both contexts |
| `PoolLive` | does somebody always listen, is the pool a `MergedStream`, and does everything end | 1 producer that may never end, 2 messages, 2 errors, a seed that may stay quiet |
| `Run` | what is a nil return worth, which error is returned, what is joined before | 1 producer with 2 messages, 1 consumer, 1 error of the consumer and of the transformer, the three kinds of pipeline |
| `RunLive` | does the run return, and what outlives it; are stream and sink used as specified | 1 message, exit-on-error, with and without a transformer |
| `Stdlib` | are cutoff, rate and order exact through both gates; does every stage owe what its reference says; is a copied stream the same stream; is the inner resource released, does a gate return | gates: 2 messages, 1 error, 2 intervals, every mix of limits and four tempers of consumer; stages: 7 chains, 3 messages of 4 key classes; an input that closes before or after the run ends; copy: streams of up to 4 bytes, 7 framings of which two are refused and one has an empty separator, 1 fault |
| `Host` | does a run launch what the lock names; does a finished init heal the store; is anything torn down under a pipeline; is the first error answered; are files resolved once and cycles refused; do resources of a seed come once and in order, is its end told as it was, does it end; is the fan-out complete, does the flush wait for everybody, do a send and the wind-down end | store: 2 plugins, 3 versions of which two share a short hash, 3 inits that may stop anywhere; command: 2 pipelines of up to 1 bind per stream; imports: 3 files; seed: 2 messages of up to 3 resources, 1 error, chunks of 2, a deadline; sink: 2 consumers, 2 messages, 1 error each |
| `SinkExtra`, `RunStagedHangs`, `RunNotJoined`, `SeedLateError`, `DedupeWindow`, `WholeStream` | what a comment or a document says, refuted | see [below](#disagreements) |

**Why the bounds are enough.** Two producers on one worker is the smallest
case in which a slot is refilled and in which a chunk has a rest to bind after
a failure. Two messages of one producer is the smallest in which order, a gap
or a forwarder that goes on after giving up can show. Two consumers is the
smallest fan-out with a partial delivery; a run has one, because what several
consumers do to each other is the sink's matter (`Host`, and the proof for any
number). One error per side is enough for *first* and *later* because sides
report independently. Three resources in a message, pulled two at a time, leave
a rest in the buffer when the stream goes on or dies. Several workers at once
are covered by the proofs, which fix none of these numbers.

Two messages through a gate with a cutoff of one or two separate *at*, *before*
and *after* the cutoff; a second interval separates a rate from a burst. Three
messages fill a window of one or a batch of two and go one beyond it; pairs of
kinds are chained so that a flush, a failure and a drop each meet a stage behind
them. Four bytes hold a two-byte separator with something on both sides, or two
groups. Two versions with one short hash and a third without are the smallest
store in which a slot is taken over or not; the third init can meet what two
earlier ones left. Three files have a diamond, a chain, and a cycle of each
length up to three, and a file can list what its import took from another one.
The proofs of the store, the command, the gates, the chains, the copy and the
imports fix none of these numbers.

`Stdlib` and `Host` put components side by side that share nothing but the end
of the run: the initial state picks the one that moves (`part`), and the others
rest in a state in which nothing that is fair can happen. The exception is what
the code shares: the command loads its plugins from the store, by the actions of
`PluginStore`. Of two messages that a sink dispatches only the order matters, so
they come in turn (`InTurn`). Each of the two runs has between 340,000 and
370,000 distinct states and takes about two minutes.

Several invariants have named parts that are not listed as properties of their
own: `NothingLost`, `InOrder` and `BindErrorsReported` are conjuncts of
`PoolInv`, `NeverWrittenOff` of `SinkInv`, `ErrorsAreReturned` of `RunInv`,
`DeliveredOnce` of `DeliveryInv`, `InDeclaredOrder` of `SeedInv`;
`CleanCutoff`, `RateHolds` and `WrittenInOrder` of `GateInv`; `InitHeals`,
`LaunchedIsLocked` and `LoadIsAllOrNothing` of `StoreInv`;
`PluginsOutlivePipelines`, `AllOrNoneRun` and `AnswerIsFirstError` of
`CommandInv`.

Deadlock is checked in the runs of the pool and of the pipeline: their final
states (`PoolQuiet`, `RunQuiet`) stutter explicitly, so a state in which somebody
is stuck while others are not finished is reported. `Stdlib` and `Host` have it
off, because their components come to an end; that they do is what
`InnerReleased`, `ConsumerGateReturns`, `CommandReturns`, `CallsReturn`,
`SeedIsReleased`, `SendTerminates` and `SinkWindsDown` say.

## Fairness

Weak fairness only, on steps whose goroutine can run whenever they are
enabled: a Go goroutine that is not blocked is scheduled. Where several
goroutines make one step of a rendezvous the fairness is on the disjunction.
What is *not* assumed:

- producers that end by themselves: where a property needs that, it says so
  itself (`FiniteStream => <>...` in `FiniteStreamEnds` and `FiniteRunReturns`,
  `FiniteSeed` in `PullAnswered`). `PoolLive` and `RunLive` assume only that
  they react to the end of their context, which is the contract of an SDK
  producer (docs/plugins.md);
- a seeded stream that answers while its context lives (`PoolFairness` gives
  the pull fairness only for a literal list or after the run ended);
- consumers that close `done` before their input is closed or their context
  ends, that close their error channel, or that receive after `done`;
- that a `select` picks a particular case.

- that an inner producer ends before its context, that a consumer which ignores
  its context finishes what it works on, or that anybody cancels a run
  (`Stdlib`): only ticks, the steps of gates and engine, and the reaction of
  inner resources to their context are fair;
- that pipelines end by themselves (`Host`): `CommandReturns` is about an
  interrupted command, and assumes that a pipeline whose context has ended
  returns, which `EndedRunReturns` shows, and that what the command calls (a
  handshake, a bind) answers.

The deadline of a seed is a timer: once armed it fires, unless it is disarmed.

## Proofs

`ProducerPool_proofs` shows, for any finite sets of producers and workers, any
chunk size and any bound on what a producer sends, under `ResultsAssumption`
and `PoolAssumption` (the sentinel values differ from the data, the sets are
finite), that `PoolInv` is inductive. The properties are not inductive alone.
`PoolInv` adds

- `FeederInv`: a resource is in one place (stream, chunk, hand), and a chunk or
  a bound producer is dropped only after the run ended; `BindErrorsReported`
  and `EndIsComplete` rest on it;
- `ForwarderInv`: a result in flight is the *last* one of its sender, in the
  hand of a forwarder that runs: so a forwarder that ends leaves nothing
  behind, and a rank is never used twice;
- `ProducerInv`: a forwarder runs only for the producer some worker is busy
  with, and ends before its channel does only with the context; `ListenedTo`
  and `ParallelCap` rest on it (the latter counts: the open producers are among
  the jobs of the workers, and a set's image is no larger than the set);
- `OrderInv`: if a data forwarder still runs, the last message was yielded or
  is in flight: so a message is accepted only after the one before it was
  yielded, also when `emit` gave up on another producer's;
- `TeardownInv`: closing is ordered feeder, forwarder of its errors, `merged`.

Its last part proves `PoolSpec => ImplementsStream`, with `PoolInv`
as the invariant: opening and closing of sources are derived from the
forwarders, a worker's pull is `SourceOpens`, a send is `Accept`, `emit` is
`Give` or `Drop`, the closer is `StreamEnds`, and everything else stutters. That
a failed stream opens nothing more (`feederFailed`) follows from `FeederInv`:
the feeder holds its error until a forwarder took it, and is then past its loop.

The first part of `RunPipeline_proofs` shows that `SinkInv` is inductive, for any number of consumers
and any bounds. `FanOut` is not, because after the context ended it says nothing
of who missed what; `ServedInv` keeps that apart: as long as main serves
consumers, those not written off have all they are due, whether or not the
context ended, and only leaving the loop in the middle of a send makes the
difference. It also records that the flush met everybody before the cursor,
which is `FlushWaitsForAll`. Three lemmas about sequences (a prefix element by
element, what an append has in front of it, that a sequence is its front and its
last; in `DataLemmas`) carry the fan-out.

Its second part shows by step mapping that every step of a run is a step of
the stream and a step of the sink or leaves them alone (`RunsTheStream`,
`RunsTheSink`), so `SinkInv` and all that follows holds in every run. Its own
invariant `RunInv` adds `JoinInv`, that main is past a join only when what it
joined is over, and `ReportInv`, that the stored failure is the first error. The
two meet in `QuietAfterReturn`: nobody who could report is left when the run
returned, so the result cannot become stale; `ErrorsAreReturned` and
`ErrorsAreJoined` follow. The second speaks of the forwarders of the consumers
and of the stage, and of the result in the loop's hand. The forwarders of
`produce` are not joined: one that is left behind when main breaks out of its
loop drops the error it received. What holds of them is that a run which
returned nil before all consumers finished has yielded every result that was
accepted, errors included.

That a nil return is worth something (`NilMeansDelivered`) needs the way of a
message, which `DeliveryInv` records. `OnePlaceInv`: a message that was yielded
is in the main loop's hand, in the transformer's, or was dispatched, and only
once; so no consumer receives it twice (`DeliveredOnce`). `CleanLeaveInv`: a
run that no stored failure and no caller ended leaves its loops only when all
consumers finished, or when the stream ended with empty hands; its context ends
for one of these reasons only; and what it leaves was flushed. With
`HistoriesInv` of the stream (an ended stream has no backlog) the two meet at
the return.

`SeedStream_proofs` shows that `SeedInv` is inductive for any number of messages,
errors and resources, any chunk size, with and without a deadline. `InDeclaredOrder`
is a statement about concatenated sequences and not inductive; `PositionsInv` says
that what was yielded, what is buffered and what is being delivered are runs of
consecutive resources, one behind the other and, until somebody ends the
delivery, up to the last declared one. Five lemmas about such runs (joining,
splitting, prefixes) reduce a chunk, a delivery and a message to arithmetic.
`RunnerInv` says why the runner closes, and `CallerInv` that what `finish` is going to
answer is already true and cannot change any more, since the runner is past its
loop; `OutcomeIsTrue` and `TerminalJoins` are inductive next to them.

`Command_proofs` shows first that `StoreInv` is inductive, for any plugins,
versions and hash function, and any plugin blocks. `InitHeals` needs
`EntriesAreStored`: what an init has collected is in the store, and what it has
yet to fetch has other names and therefore other slots, so no later step of the
same init takes it away; this is where parsing admits a plugin name once
(`StoreAssumption`). `LockIsBacked` and `LaunchedIsLocked` need `SlotsFit`: a slot
only ever holds versions of its own short hash, so a binary swapped between
`verifyHash` and `rpc.Dial` can only be one that collides. `LoadIsAllOrNothing`
compares what runs with what the lock file listed when it was read, which a
concurrent init may have rewritten since.

It then shows that the steps of a command are steps of the store or
leave it alone (`CommandKeepsStoreInv`, from any store that `StoreInv` allows),
and that `CommandInv` is inductive for any number of pipelines. The argument
counts: `results` holds one entry per returned pipeline, so that when as many
were collected as were selected, all have returned; this is why plugins can be
killed afterwards (`PluginsOutlivePipelines`). That the answer is the *first*
error rests on `FirstErrorIsKept`, for the errors received and for all.

`Stdlib_proofs` shows first that `GateInv` is inductive for any bounds, and that
`CleanFlush` follows. `ProducerSideInv` accounts for the messages that were made:
passed on, in the gate's hand or at the inner send. `ConsumerSideInv` accounts
for those passed on: written, worked on, held by the consumer's gate, carried by
the engine, in this order. `HandedInv` keeps the books of the second rate: a
paced consumer was handed no more messages than its ticker ticked, so
`RateHolds` bounds both sides. `StopInv` says why the consumer's gate stops in a
run that nobody ended: its input was closed, since the producer's gate is through
or since the inner consumer was done early. The engine closes that input
(`core/run.go:85`) before it cancels the run (`:87`), and in between the
producer's gate may still be passing on. Unless the inner consumer is gone, the
gate stops with empty hands, so only the message the inner consumer works on can
be cut off by the grace window.

Its second part shows that `CopyInv` holds of a copy through `Split` and `Joiner`
for any bytes, any separator (the empty one included), any size and any group,
however the reader hands the bytes over and whichever call fails; a block that
`Validate` refuses reads and writes nothing. It is not
inductive: it says how the pieces relate to the bytes that were cut, and the
messages to the pieces, but not where the rest is. `CopyIInv` (checked with TLC
first) accounts for it:

- `Reading`: the stream *is* its terminated pieces, then what the scanner holds,
  then what was not read; or it has ended in a piece that no separator ends. A cut
  keeps this because the first separator in what the scanner holds is the first
  after that cut in the stream: bytes that come later do not change it
  (`CutAtFirst`, `SplitCuts`).
- `Sending`: messages are full groups of pieces in their order, and the batch is
  the pieces left over; as the stream ends the last group may be smaller.
- `Writing`: what is written, what a write has yet to write, and what the joiner
  holds are, each terminated, the terminated pieces of the messages received. So
  only the separator behind the last message can be more than the stream has.
- `Told`: while the run lasts, the failures reported and those that a goroutine
  is about to report are all the failures there were.

The first three speak of runs that nothing disturbed: no call failed and the
context is alive. `Told` is about the others.

`Stages_proofs` shows that `StageInv` holds for any chain of the transformers that
`StageAssumption` admits, any sizes and windows, and any number of messages of
any class. What a stage keeps between two messages is part of the reference
(`Remembers`), which makes it inductive: the counter of `Head` stops at its limit, the keys of a window
are those of the *latest* positions that were kept (`WindowMoves`: the ring drops
the eldest exactly when one more would be too many), the buffer of a batch is
what follows its last full bundle. Each kind then takes one message rightly
(`PlainIsRight`, `DedupeIsRight`, `UniqIsRight`, `CountTakes`, `BatchTakes`), what is
owed of earlier messages does not change with a later one (`OwesKeeps`), and
a batch whose input closes sends its rest once (`BatchFlushes`). A step of the chain
is then one stage giving and its neighbour taking. That no error is lost counts:
the errors received and the stages that are at one are as many as the messages
that a stage failed on and the bundles that a batch could not encode; such a
bundle is reported once, and lost.

`Imports_proofs` shows that `ImportInv` is inductive, for any files, any contents
and any plugins. It assumes what `ImportsAssumption` says of a content (the shape
of blocks, of lists and of names) and that the literals of the model are strings.
What its parts are for:

- `FramesArePath`, `SettledIsClosed`: the call stack is a path of imports, and
  what is settled imports only what is settled and has no cycle. So a file that
  is met again while it is marked closes a cycle among the open frames (every
  one of them imports a member of the set: `CycleIsCycle`), and a file that is left
  can be added to the settled ones without making one (`AcyclicAdds`).
- `MarksMatchFrames`: a mark is an open frame, and only one. The number of
  frames is the number of marks, which rules out a file twice on the stack.
- `FoundIsDeclared`: by induction over the specs of one file (`DeclareAllSpecs`),
  and from there over the steps of the walk.
- `OutcomeIsOrderFree`: rests on `TreeIsPrefixFree`. A tree that paths are inserted
  into one by one fails if and only if one path is the beginning of another, which
  says nothing of their order; so whether `makeRefCtx` fails is a fact of the
  file (`AdmitsTheUnambiguous`), and an import that was resolved never fails again
  in `buildImportsValue` (`ImportsNeverConflict`).
- `PipelinesMeanWhatTheySay`: what a pipeline runs is said position by position
  of the list. A key is found in one of the three parts of `LookupBindings`, told
  apart by its shape (`EntryIsFact`): a block of the file, one of an import, or
  one position of a slot of an imported pipeline, as in
  `imports.a.pipeline.p.produce[0]`, which may be a block of a file that only the
  import names. What it stands for was said of the imported file when that one was
  settled. Settled results do not change, so what was said once remains true
  (`SaysKeeps`).

A theorem cannot take an induction rule over a predicate here, so induction over
the length of a list is over the set of lengths for which a claim holds (`Induct`,
in `DataLemmas`). What a flattened sequence is when one more is appended
(`FlattenAppend`) is shown that way once, and used for bundles, pieces and
messages.

Only model-checked: liveness, which is out of the prover's reach
(`CancelEndsStream`, `BreakReleasesWorkers`, `FiniteStreamEnds`, `SinkWindsDown`,
`SendTerminates`, `EndedRunReturns`, `DirectRunReturns`, `NothingOrphaned`,
`FiniteRunReturns`, `CallsReturn`, `SeedIsReleased`, `PullAnswered`,
`InnerReleased`, `ConsumerGateReturns`, `CommandReturns`). Every other property of
a passing run is a theorem, or a conjunct of one.

## Disagreements

Found while modelling; each has a run that shows it.

1. `RunStagedHangs` -- with a transformer, `RunPipeline` does not return when
   all consumers finished and the resource stream stays quiet: `stage.wg.Wait`
   waits for the loop over the merged stream, and that stream does not end with
   the stage's context, since the feeder's pull and its sends watch the run's
   context only (`core/feed.go`). Without a transformer it returns
   (`DirectRunReturns`), and with one it returns when the run's context ends
   (`EndedRunReturns`).
2. `SeedLateError` -- an error that a produce-from seed reports after it closed
   `send` is not delivered: `runSeed` waits for the seed to return, the seed
   waits for somebody to receive, and the pull waits for both until the run is
   cancelled, deadline or not. `PullAnswered` shows that this is the only way in
   which a finite seed leaves a pull without an answer.
3. `RunNotJoined` -- without a transformer `RunPipeline` can return before the
   goroutines of `produce`; its comment says the engine's own are joined.
   `NothingOrphaned` shows that they end afterwards.
4. `SinkExtra` -- more than one message can land in a consumer after it closed
   `done`, when it keeps receiving: every send may pick the receive.
5. `DedupeWindow` -- with a window, `dedupe` remembers the last keys that it let
   through, not the last messages: a duplicate does not refresh its key and a
   message without a key does not age the window (`stdlib/transform/keyed.go`).
   `StageInv` holds of the window as the code keeps it (`Owes`).
6. `WholeStream` -- an empty `sep` is documented as one message of the whole
   stream and accepted by `Validate`; `splitFunc` then cuts an empty piece in
   front of the first byte, for ever (`stdlib/transport/frame.go`). `CopyInv`
   holds of it too: nothing but empty pieces is ever read.

Remarks without a run: a worker may take its next producer while the function
of the last one is still returning, once its channels are closed
(`core/stream.go`); when the run's context ends, a pull may report the end of
the seed, or that it "closed without sending", instead of the cancellation
(both cases of the `select` are ready), which is why `OutcomeIsTrue` speaks of
runs that are not cancelled.

More remarks, where code and comment differ and the models follow the code:

- a bundle that `batch` cannot encode, for one message in it, is lost as a whole,
  after one error (`stdlib/transform/keyed.go`), and the stage goes on;
- `produce-from` that evaluates to something else than a reference string is not
  refused but panics (`parse/hcl/resource.go`); `SeedPanics` of `Imports` is that
  step, and a walk that takes it ends with the outcome `"panic"`;
- errors behind a gate: the comment of `bindProducer` (`core/feed.go`) has the
  producer's errors received until it returned; behind a gate with `stop-after`
  the bound producer is the gate, and an inner producer that reports without
  a `select` on its context is left in its send, which is why `InnerReleased`
  excludes it (`bare`);
- a consumer that takes longer than the grace window loses the message it works
  on although the run ended clean (`stdlib/flow/flow.go`), and no more than that
  (`CleanFlush`);
- `collectPlugins` speaks of specs that disagree in source or tag, and compares
  the whole spec, buildmode included (`parse/hcl/import.go`);
- `ResolveImportPath` promises one path for one logical file; an absolute and
  a relative spelling of it stay two;
- the conflict error of `buildImportsValue` cannot be reached, since every import
  has passed the same check when its own file was resolved (`Imports` has it as
  the failure `"import ref"`, and `ImportInv` says that no walk ends with it).

## Not modelled

- HCL syntax, expression evaluation and the values of attributes, which are the
  hcl library's: a block is valid or not.
- What `jq`, templates, codecs and the other stateless transformers compute: data
  conversion without state; their skeleton (fail, drop, pass, on-error) is the
  `codec`, `filter` and `assert` stage of `Stages`.
- Network and process I/O of the stdlib resources (HTTP client and server, exec,
  sockets being opened): they appear as the environment, by the contract of an
  SDK producer or consumer.
- `list` and `show`, which print what a parse gave; the stdlib plugin table,
  which is static data; the example plugin.
- Values of time: intervals, deadlines and grace windows are events that may
  come, not durations. That `time.Minute / perMinute` is zero for an absurd rate
  (`stdlib/flow/flow.go`) is outside of this.
- Instances that are bound and never closed: a producer that was not offered
  because the run ended (`core/feed.go`; `ProducerPool` leaves it `"bound"`), what
  a build bound before a later bind failed (`core/build.go`), and the pipelines
  built before one that could not be (`main.go`). The code leaves them to the exit
  of the process, and no property asks for their end; what is checked is that
  nothing of such a build runs (`AllOrNoneRun`).

## Plan

What a next step would take, in this order:

1. An abstract resource stream that `SeedStream` implements and the feeder of
   `ProducerPool` relies on; a seed inside a gate.
2. The HTTP listener, whose handlers may send while it is being shut down.
3. `RunPipeline` with a transformer that makes several messages out of one.
