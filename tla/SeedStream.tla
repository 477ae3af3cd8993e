----------------------------- MODULE SeedStream -----------------------------
(***************************************************************************)
(* The resource stream of a produce-from pipeline: remoteBindings and      *)
(* runSeed of parse/hcl/produce_from.go.  The caller is the feeder of      *)
(* core/feed.go, which pulls chunks and releases the stream; the runner is *)
(* the goroutine of runSeed; the seed is a producer without host-owned     *)
(* limits (flow.Producer is then the producer itself).  The resources that *)
(* the seed's messages declare are numbered in the order of declaration.   *)
(***************************************************************************)
EXTENDS RunContext, Naturals, Sequences, SequencesExt

CONSTANTS
  ChunkSize,     \* max of a pull (bindChunk)
  HasTimeout,    \* is the wait for the first resources bounded?
  MaxSeedMsgs,   \* bound: messages of the seed
  MaxSeedErrs,   \* bound: errors of the seed
  MaxDeclared    \* bound: resources that one message declares

ASSUME SeedAssumption ==
  /\ ChunkSize \in Nat \ {0} /\ HasTimeout \in BOOLEAN
  /\ MaxSeedMsgs \in Nat /\ MaxSeedErrs \in Nat /\ MaxDeclared \in Nat

VARIABLES
  call,      \* where the caller is: "idle", in a "pull", or in "finish"
  pending,   \* what the call answers when finish returns
  buf,       \* resources received and not yielded
  done,      \* was the stream torn down?
  gotAny,    \* did bindings arrive?
  stopped,   \* was the context of the seed cancelled by finish?
  runner,    \* where runSeed is; at "over" its results are closed
  offer,     \* what the runner delivers: bindings, or an error
  armed,     \* does the runner watch the deadline?
  seed,      \* where the seed is: "sending" and "failing" are blocked sends
  sendOpen,  \* is the seed's send channel open?
  errsOpen,  \* is the seed's errs channel open?
  seedMsgs,  \* messages the seed set out to send
  seedErrs,  \* errors the seed set out to send
  declared,  \* history: the number of resources parsed so far
  yielded,   \* history: the resources the caller was given
  ending    \* history: how the stream came to its end, or "none"

callerVars == <<call, pending, buf, done, gotAny, stopped, yielded, ending>>
runnerVars == <<runner, offer, armed, declared>>
seedVars == <<seed, sendOpen, errsOpen, seedMsgs, seedErrs>>
vars == <<runDone, callerVars, runnerVars, seedVars>>

Failure == {"bind", "timeout", "seed", "parse"}
Outcome == Failure \cup {"none", "end", "empty", "cancelled", "released"}

Bindings(b) == [err |-> "none", bindings |-> b]
Error(e) == [err |-> e, bindings |-> <<>>]
NoOffer == Bindings(<<>>)

\* The first n resources of the stream.
FirstOnes(n) == [i \in 1..n |-> i]

\* The seed's context: a child of the one that the pulls are made with.
seedCtxDone == runDone \/ stopped

SeedInit ==
  /\ runDone = FALSE
  /\ call = "idle" /\ pending = "none" /\ buf = <<>> /\ done = FALSE
  /\ gotAny = FALSE /\ stopped = FALSE
  /\ runner = "unstarted" /\ offer = NoOffer /\ armed = FALSE
  /\ seed = "unstarted" /\ sendOpen = TRUE /\ errsOpen = TRUE
  /\ seedMsgs = 0 /\ seedErrs = 0
  /\ declared = 0 /\ yielded = <<>> /\ ending = "none"

-----------------------------------------------------------------------------
(* The caller: the ResourceFunc that remoteBindings returns.               *)

\* Mutants: an error path does not cancel the seed, as the runner ends by
\* itself; finish joins the runner, but does not cancel it.
FinishUnstopped(why) ==
  /\ call' = "finish" /\ pending' = why
  /\ done' = TRUE /\ stopped' = (stopped \/ why \notin Failure)

FinishOnlyJoins(why) ==
  /\ call' = "finish" /\ pending' = why
  /\ done' = TRUE /\ UNCHANGED stopped

\* finish is entered: the stream is dead from here, and the seed cancelled.
Finish(why) ==
  /\ call' = "finish" /\ pending' = why
  /\ done' = TRUE /\ stopped' = TRUE

\* The next chunk of the buffer is the answer.
Serve ==
  LET n == IF ChunkSize < Len(buf) THEN ChunkSize ELSE Len(buf)
  IN  /\ yielded' = yielded \o SubSeq(buf, 1, n)
      /\ buf' = SubSeq(buf, n + 1, Len(buf))

\* A stream that was torn down still serves what it had buffered.
PullWhenDone ==
  /\ call = "idle" /\ done /\ Serve
  /\ UNCHANGED <<runDone, call, pending, done, gotAny, stopped, ending,
                 runnerVars, seedVars>>

PullWhenCancelled ==
  /\ call = "idle" /\ ~done /\ runDone /\ Finish("cancelled")
  /\ UNCHANGED <<runDone, buf, gotAny, yielded, ending, runnerVars, seedVars>>

\* The first pull starts the runner.
PullStart ==
  /\ call = "idle" /\ ~done /\ ~runDone /\ call' = "pull"
  /\ runner' = IF runner = "unstarted" THEN "bind" ELSE runner
  /\ UNCHANGED <<runDone, pending, buf, done, gotAny, stopped, yielded, ending,
                 offer, armed, declared, seedVars>>

\* Mutant: the chunk is not cut off the buffer, unless it is all of it.
PullServesUncut ==
  /\ call = "pull" /\ buf # <<>>
  /\ yielded' = yielded \o SubSeq(buf, 1, 1)
  /\ buf' = IF Len(buf) = 1 THEN <<>> ELSE buf
  /\ call' = "idle"
  /\ UNCHANGED <<runDone, pending, done, gotAny, stopped, ending, runnerVars,
                 seedVars>>

PullServes ==
  /\ call = "pull" /\ buf # <<>> /\ Serve /\ call' = "idle"
  /\ UNCHANGED <<runDone, pending, done, gotAny, stopped, ending, runnerVars,
                 seedVars>>

\* <-results: bindings, an error, or the end.
PullReceives ==
  /\ call = "pull" /\ buf = <<>> /\ runner = "deliver" /\ offer.err = "none"
  /\ buf' = offer.bindings /\ gotAny' = TRUE
  /\ runner' = "select" /\ offer' = NoOffer
  /\ UNCHANGED <<runDone, call, pending, done, stopped, yielded, ending, armed,
                 declared, seedVars>>

PullFails ==
  /\ call = "pull" /\ buf = <<>> /\ runner = "deliver" /\ offer.err # "none"
  /\ Finish(offer.err) /\ runner' = "close" /\ offer' = NoOffer
  /\ UNCHANGED <<runDone, buf, gotAny, yielded, ending, armed, declared,
                 seedVars>>

PullSeesEnd ==
  /\ call = "pull" /\ buf = <<>> /\ runner = "over"
  /\ Finish(IF gotAny THEN "end" ELSE "empty")
  /\ UNCHANGED <<runDone, buf, gotAny, yielded, ending, runnerVars, seedVars>>

PullCancelled ==
  /\ call = "pull" /\ buf = <<>> /\ runDone /\ Finish("cancelled")
  /\ UNCHANGED <<runDone, buf, gotAny, yielded, ending, runnerVars, seedVars>>

\* max < 1.
Release ==
  /\ call = "idle" /\ ending # "released" /\ Finish("released")
  /\ UNCHANGED <<runDone, buf, gotAny, yielded, ending, runnerVars, seedVars>>

\* finish drains the results: a delivery may still go through.
FinishDrains ==
  /\ call = "finish" /\ runner = "deliver"
  /\ runner' = (IF offer.err = "none" THEN "select" ELSE "close")
  /\ offer' = NoOffer
  /\ UNCHANGED <<runDone, callerVars, armed, declared, seedVars>>

\* Mutant: finish cancels the runner, and does not wait for it.
FinishReturnsUnjoined ==
  /\ call = "finish" /\ call' = "idle" /\ ending' = pending
  /\ buf' = IF pending = "released" THEN <<>> ELSE buf
  /\ UNCHANGED <<runDone, pending, done, gotAny, stopped, yielded, runnerVars,
                 seedVars>>

FinishReturns ==
  /\ call = "finish" /\ runner \in {"unstarted", "over"}
  /\ call' = "idle" /\ ending' = pending
  /\ buf' = IF pending = "released" THEN <<>> ELSE buf
  /\ UNCHANGED <<runDone, pending, done, gotAny, stopped, yielded, runnerVars,
                 seedVars>>

-----------------------------------------------------------------------------
(* The runner: runSeed.                                                    *)

Deliver(o) == runner' = "deliver" /\ offer' = o

RunnerBinds ==
  /\ runner = "bind" /\ runner' = "select" /\ seed' = "working"
  /\ armed' = HasTimeout
  /\ UNCHANGED <<runDone, callerVars, offer, declared, sendOpen, errsOpen,
                 seedMsgs, seedErrs>>

\* The plugin is not loaded, or the seed does not bind.
RunnerBindFails ==
  /\ runner = "bind" /\ Deliver(Error("bind"))
  /\ UNCHANGED <<runDone, callerVars, armed, declared, seedVars>>

RunnerCancelled ==
  /\ runner \in {"select", "deliver", "wait"} /\ seedCtxDone
  /\ runner' = "close" /\ offer' = NoOffer
  /\ UNCHANGED <<runDone, callerVars, armed, declared, seedVars>>

RunnerTimesOut ==
  /\ runner = "select" /\ armed /\ Deliver(Error("timeout"))
  /\ UNCHANGED <<runDone, callerVars, armed, declared, seedVars>>

RunnerTakesErr ==
  /\ runner = "select" /\ seed = "failing"
  /\ seed' = "working" /\ Deliver(Error("seed"))
  /\ UNCHANGED <<runDone, callerVars, armed, declared, sendOpen, errsOpen,
                 seedMsgs, seedErrs>>

\* What parseRemoteUnit makes of a message: an error, or the resources that
\* it declares, which may be none.
RemoteUnits ==
  {Error("parse")}
    \cup {Bindings([i \in 1..n |-> declared + i]) : n \in 0..MaxDeclared}

\* Mutant: the deadline stays armed.
RunnerTakesMsgArmed ==
  /\ runner = "select" /\ seed = "sending" /\ seed' = "working"
  /\ \E u \in RemoteUnits :
       IF u = NoOffer THEN UNCHANGED runnerVars
       ELSE Deliver(u) /\ declared' = declared + Len(u.bindings)
            /\ UNCHANGED armed
  /\ UNCHANGED <<runDone, callerVars, sendOpen, errsOpen, seedMsgs, seedErrs>>

\* A message that declares nothing leaves the deadline armed.
RunnerTakesMsg ==
  /\ runner = "select" /\ seed = "sending" /\ seed' = "working"
  /\ \E u \in RemoteUnits :
       IF u = NoOffer THEN UNCHANGED runnerVars
       ELSE /\ Deliver(u) /\ declared' = declared + Len(u.bindings)
            /\ armed' = (armed /\ u.bindings = <<>>)
  /\ UNCHANGED <<runDone, callerVars, sendOpen, errsOpen, seedMsgs, seedErrs>>

\* send is closed: the runner now waits for the seed to return, and receives
\* nothing more from it meanwhile.
RunnerSeesClose ==
  /\ runner = "select" /\ ~sendOpen /\ runner' = "wait"
  /\ UNCHANGED <<runDone, callerVars, offer, armed, declared, seedVars>>

\* Mutant: the runner drains errs until it is closed.
RunnerSeesReturnAndClose ==
  /\ runner = "wait" /\ seed = "returned" /\ ~errsOpen /\ runner' = "close"
  /\ UNCHANGED <<runDone, callerVars, offer, armed, declared, seedVars>>

\* Then it looks for errors, without blocking; errs is unbuffered and its only
\* sender has returned, so there is none to find.
RunnerSeesReturn ==
  /\ runner = "wait" /\ seed = "returned" /\ runner' = "close"
  /\ UNCHANGED <<runDone, callerVars, offer, armed, declared, seedVars>>

RunnerExits ==
  /\ runner = "close" /\ runner' = "over"
  /\ UNCHANGED <<runDone, callerVars, offer, armed, declared, seedVars>>

-----------------------------------------------------------------------------
(* The seed, and the end of the run.                                       *)

SeedSends ==
  /\ seed = "working" /\ sendOpen /\ seedMsgs < MaxSeedMsgs
  /\ seed' = "sending" /\ seedMsgs' = seedMsgs + 1
  /\ UNCHANGED <<runDone, callerVars, runnerVars, sendOpen, errsOpen, seedErrs>>

SeedFails ==
  /\ seed = "working" /\ errsOpen /\ seedErrs < MaxSeedErrs
  /\ seed' = "failing" /\ seedErrs' = seedErrs + 1
  /\ UNCHANGED <<runDone, callerVars, runnerVars, sendOpen, errsOpen, seedMsgs>>

SeedCloses ==
  /\ seed = "working"
  /\ \/ sendOpen /\ sendOpen' = FALSE /\ UNCHANGED errsOpen
     \/ errsOpen /\ errsOpen' = FALSE /\ UNCHANGED sendOpen
  /\ UNCHANGED <<runDone, callerVars, runnerVars, seed, seedMsgs, seedErrs>>

\* A seed may return without closing errs.
SeedReturns ==
  /\ seed = "working" /\ ~sendOpen /\ seed' = "returned"
  /\ UNCHANGED <<runDone, callerVars, runnerVars, sendOpen, errsOpen, seedMsgs,
                 seedErrs>>

SeedGivesUp ==
  /\ seed \in {"sending", "failing"} /\ seedCtxDone /\ seed' = "working"
  /\ UNCHANGED <<runDone, callerVars, runnerVars, sendOpen, errsOpen, seedMsgs,
                 seedErrs>>

RunEnded ==
  /\ ~runDone /\ EndRun
  /\ UNCHANGED <<callerVars, runnerVars, seedVars>>

-----------------------------------------------------------------------------
CallEnds ==
  \/ PullServes \/ PullReceives \/ PullFails \/ PullSeesEnd \/ PullCancelled
  \/ FinishDrains \/ FinishReturns

Caller ==
  PullWhenDone \/ PullWhenCancelled \/ PullStart \/ CallEnds \/ Release

Runner ==
  \/ RunnerBinds \/ RunnerBindFails \/ RunnerCancelled \/ RunnerTimesOut
  \/ RunnerTakesErr \/ RunnerTakesMsg \/ RunnerSeesClose \/ RunnerSeesReturn
  \/ RunnerExits

SeedSteps == SeedSends \/ SeedFails \/ SeedCloses \/ SeedReturns \/ SeedGivesUp

SeedNext == Caller \/ Runner \/ SeedSteps \/ RunEnded

SeedSpec == SeedInit /\ [][SeedNext]_vars

-----------------------------------------------------------------------------
(* Safety.                                                                 *)

SeedTypeOK ==
  /\ runDone \in BOOLEAN /\ done \in BOOLEAN /\ gotAny \in BOOLEAN
  /\ stopped \in BOOLEAN /\ armed \in BOOLEAN
  /\ sendOpen \in BOOLEAN /\ errsOpen \in BOOLEAN
  /\ call \in {"idle", "pull", "finish"}
  /\ {pending, ending} \subseteq Outcome
  /\ runner \in {"unstarted", "bind", "select", "deliver", "wait", "close", "over"}
  /\ seed \in {"unstarted", "working", "sending", "failing", "returned"}
  /\ seedMsgs \in 0..MaxSeedMsgs /\ seedErrs \in 0..MaxSeedErrs
  /\ declared \in 0..(MaxSeedMsgs * MaxDeclared)
  /\ offer.err \in Failure \cup {"none"}
  /\ {buf, yielded, offer.bindings} \subseteq Seq(1..declared)

\* The caller is given the declared resources, each once, in the order of
\* their declaration and whatever the chunks; while the stream lives and its
\* context too, those not given yet are buffered or being delivered.
InDeclaredOrder ==
  /\ IsPrefix(yielded, FirstOnes(declared))
  /\ ~done /\ ~runDone =>
       yielded \o buf \o offer.bindings = FirstOnes(declared)

\* How the stream ended says the truth: a failure, or the end, is reported only
\* after everything declared before it was yielded; the end only when the seed
\* returned; the deadline only when nothing was declared before; unless the
\* run's context ended in between.
Truth(o) ==
  /\ yielded = FirstOnes(declared)
  /\ o \in {"end", "empty"} => seed = "returned"
  /\ o = "end" <=> o \notin Failure /\ declared > 0
  /\ o = "timeout" => HasTimeout /\ declared = 0

Telling == Failure \cup {"end", "empty"}

OutcomeIsTrue == ending \in Telling /\ ~runDone => Truth(ending)

\* When a call that tore the stream down returned, the runner is over and
\* cannot come back: no path leaves it running unobserved.
TerminalJoins == done /\ call = "idle" => runner \in {"unstarted", "over"}

-----------------------------------------------------------------------------
(* The inductive invariant.                                                *)

\* The n resources after the first a.
NextOnes(a, n) == [i \in 1..n |-> a + i]

\* What was yielded, what is buffered and what is being delivered follow each
\* other, and are all there is for as long as nobody ended the delivery.
PositionsInv ==
  /\ yielded = FirstOnes(Len(yielded))
  /\ buf = NextOnes(Len(yielded), Len(buf))
  /\ offer.bindings = NextOnes(declared - Len(offer.bindings), Len(offer.bindings))
  /\ Len(yielded) + Len(buf) <= declared /\ Len(offer.bindings) <= declared
  /\ ~done /\ (~runDone \/ runner \notin {"close", "over"}) =>
       Len(yielded) + Len(buf) + Len(offer.bindings) = declared

\* The runner delivers something or nothing, closes in a live stream only
\* behind a seed that returned, and times out before anything was declared.
RunnerInv ==
  /\ runner # "deliver" => offer = NoOffer
  /\ offer.err # "none" => offer.bindings = <<>>
  /\ runner \in {"unstarted", "bind"} => declared = 0 /\ seed = "unstarted"
  /\ armed \/ offer.err = "timeout" => HasTimeout /\ declared = 0
  /\ runner \in {"close", "over"} /\ ~done /\ ~runDone => seed = "returned"

\* The messages that were taken declare no more than they can.
Taken == seedMsgs - (IF seed = "sending" THEN 1 ELSE 0)
DeclaredInv == declared <= Taken * MaxDeclared

\* The caller waits for results in a live stream only, and a stream that
\* answered an end is torn down; what finish is to answer is true already.
CallerInv ==
  /\ stopped = done /\ (call = "pull" => ~done) /\ (call = "finish" => done)
  /\ (gotAny => declared > 0) /\ (~gotAny => yielded = <<>> /\ buf = <<>>)
  /\ runner = "deliver" /\ offer.err = "none" => offer.bindings # <<>>
  /\ ending # "none" => done
  /\ ending \in Telling => runner = "over"
  /\ call = "finish" /\ pending \in Telling =>
       runner \in {"close", "over"} /\ (~runDone => Truth(pending))

SeedInv ==
  /\ SeedTypeOK /\ InDeclaredOrder
  /\ PositionsInv /\ RunnerInv /\ DeclaredInv /\ CallerInv

-----------------------------------------------------------------------------
(* Liveness.                                                               *)

\* Goroutines that can run do; the timer fires; the seed obeys its context,
\* as producers must, but need not ever finish by itself.
SeedFairness ==
  /\ WF_vars(CallEnds) /\ WF_vars(Runner)
  /\ WF_vars(SeedGivesUp \/ (seedCtxDone /\ (SeedCloses \/ SeedReturns)))

SeedLiveSpec == SeedSpec /\ SeedFairness

\* A release comes back however the seed behaves, and a pull does when the
\* run's context ends.
CallsReturn == call = "finish" \/ (call = "pull" /\ runDone) ~> call = "idle"

\* When the stream is torn down the seed itself ends, too.
SeedIsReleased == done ~> seed \in {"unstarted", "returned"}

LateError == seed = "failing" /\ ~sendOpen

FiniteSeed == WF_vars(SeedSteps)

\* Over a finite seed every pull is answered, if the seed does not fail after
\* it closed send.
PullAnswered ==
  FiniteSeed /\ []~LateError => (call = "pull" ~> call = "idle")

\* An error that the seed emits between closing send and returning is
\* delivered: the pull does not stay without an answer (comment of runSeed).
LateErrorsAreDelivered == LateError /\ call = "pull" ~> call = "idle"
=============================================================================
