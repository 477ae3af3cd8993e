------------------------- MODULE ProducerPool_proofs -------------------------
(***************************************************************************)
(* Proofs about ProducerPool, for any sets of producers and workers and    *)
(* any bound on what a producer sends: PoolInv is inductive, and the       *)
(* properties of the pool follow from it.  There is one lemma for each     *)
(* group of goroutines, with one step per action, and in it one step per   *)
(* part of the invariant that the action can disturb.                      *)
(***************************************************************************)
EXTENDS ProducerPool, FiniteSetTheorems, TLAPS

\* The fields of the results that core/stream.go builds.
LEMMA ResultFields ==
  ASSUME NEW p, NEW i
  PROVE  /\ Msg(p, i).kind = "msg" /\ Msg(p, i).from = p /\ Msg(p, i).n = i
         /\ Err(p, i).kind = "err" /\ Err(p, i).from = p /\ Err(p, i).n = i
         /\ FeedErr(p).kind = "feed" /\ FeedErr(p).from = p /\ FeedErr(p).n = 0
BY DEF Msg, Err, FeedErr

\* What a producer or the feeder sends within the bounds is a result.
LEMMA ResultMembers ==
  /\ \A p \in Producer : \A i \in 1..MaxMsgs : Msg(p, i) \in Result
  /\ \A p \in Producer : \A i \in 1..MaxErrs : Err(p, i) \in Result
  /\ \A o \in Producer \cup {Stream} : FeedErr(o) \in Result
BY DEF Msg, Err, FeedErr, Result

\* Every result is a message, an error, or a feeder error, and nothing else.
LEMMA ResultCases ==
  ASSUME NEW r \in Result
  PROVE  \/ /\ r.kind = "msg" /\ r.from \in Producer /\ r.n \in 1..MaxMsgs
            /\ r = Msg(r.from, r.n)
         \/ /\ r.kind = "err" /\ r.from \in Producer /\ r.n \in 1..MaxErrs
            /\ r = Err(r.from, r.n)
         \/ /\ r.kind = "feed" /\ r.from \in Producer \cup {Stream}
            /\ r = FeedErr(r.from)
<1>1. CASE r \in [kind : {"msg"}, from : Producer, n : 1..MaxMsgs]
  BY <1>1 DEF Msg
<1>2. CASE r \in [kind : {"err"}, from : Producer, n : 1..MaxErrs]
  BY <1>2 DEF Err
<1>3. CASE r \in [kind : {"feed"}, from : Producer \cup {Stream}, n : {0}]
  BY <1>3 DEF FeedErr
<1>4. QED BY <1>1, <1>2, <1>3 DEF Result

-----------------------------------------------------------------------------
(* The feeder.                                                             *)

\* No step of producerSource (core/feed.go) breaks the invariant.
LEMMA FeederKeepsInv ==
  ASSUME PoolInv, Feeder
  PROVE  PoolInv'
<1> USE DEF PoolInv, feederVars, producerVars, forwarderVars, loopVars
<1>1. ASSUME FeederPull
      PROVE  PoolInv'
  <2>1. BindErrorsReported'
    BY <1>1
    DEF FeederPull, FeederInv, BindErrorsReported, poolDone
  <2>2. /\ PoolTypeOK' /\ FeederInv' /\ ForwarderInv' /\ ProducerInv'
        /\ OrderInv' /\ TeardownInv' /\ NothingLost' /\ NeverTwice'
    BY <1>1
    DEF FeederPull, PoolTypeOK, FeederInv, ForwarderInv, ProducerInv, OrderInv,
        TeardownInv, NothingLost, NeverTwice, FeederState, feederOver,
        poolDone, feedErrsClosed
  <2>3. QED
    BY <2>1, <2>2
<1>2. ASSUME FeederPullFails
      PROVE  PoolInv'
  BY <1>2
  DEF FeederPullFails, PoolTypeOK, FeederInv, ForwarderInv, ProducerInv,
      OrderInv, TeardownInv, NothingLost, BindErrorsReported, NeverTwice,
      FeederState, feederOver, poolDone, feedErrsClosed
<1>3. ASSUME FeederBind
      PROVE  PoolInv'
  <2>1. FeederInv'
    BY <1>3
    DEF FeederBind, PoolTypeOK, FeederInv, feederOver
  <2>2. ForwarderInv'
    BY <1>3, ResultCases
    DEF FeederBind, PoolTypeOK, ForwarderInv, feederOver
  <2>3. ProducerInv'
    BY <1>3
    DEF FeederBind, PoolTypeOK, FeederInv, ProducerInv, poolDone
  <2>4. BindErrorsReported'
    BY <1>3
    DEF FeederBind, PoolTypeOK, BindErrorsReported, poolDone
  <2>5. /\ PoolTypeOK' /\ OrderInv' /\ TeardownInv' /\ NothingLost'
        /\ NeverTwice'
    BY <1>3
    DEF FeederBind, PoolTypeOK, OrderInv, TeardownInv, NothingLost, NeverTwice,
        FeederState, poolDone, feedErrsClosed
  <2>6. QED
    BY <2>1, <2>2, <2>3, <2>4, <2>5
<1>4. ASSUME FeederFail
      PROVE  PoolInv'
  <2> DEFINE e == FeedErr(cur)
  <2>1. /\ e \in Result /\ e.kind = "feed" /\ e.from = cur
        /\ cur \in Producer \cup {Stream} /\ cur \notin todo \cup chunk
    BY ResultFields, ResultMembers DEF PoolTypeOK, FeederInv
  <2>2. e \notin taken
    BY <1>4, <2>1, ResultsAssumption
    DEF FeederFail, FeederInv, ForwarderInv, feederOver
  <2>3. OrderInv'
    BY <1>4, <2>1 DEF FeederFail, OrderInv, Follows
  <2>4. NeverTwice'
    BY <1>4, <2>2 DEF FeederFail, NeverTwice, PoolTypeOK
  <2>5. ForwarderInv'
    <3>1. CASE feeder = "failBind"
      BY <1>4, <2>1, <2>2, <3>1, ResultCases, ResultsAssumption
      DEF FeederFail, PoolTypeOK, FeederInv, ForwarderInv, feederOver,
          nextResource
    <3>2. CASE feeder = "failStream"
      BY <1>4, <2>1, <2>2, <3>2, ResultCases, ResultsAssumption
      DEF FeederFail, PoolTypeOK, FeederInv, ForwarderInv, feederOver
    <3>3. QED BY <1>4, <3>1, <3>2 DEF FeederFail
  <2>6. PoolTypeOK'
    BY <1>4, ResultMembers
    DEF FeederFail, PoolTypeOK, FeederState, nextResource
  <2>7. FeederInv'
    BY <1>4, ResultsAssumption
    DEF FeederFail, PoolTypeOK, FeederInv, feederOver, nextResource
  <2>8. /\ ProducerInv' /\ TeardownInv' /\ NothingLost' /\ BindErrorsReported'
    BY <1>4
    DEF FeederFail, ProducerInv, TeardownInv, NothingLost, BindErrorsReported,
        poolDone
  <2>9. QED
    BY <2>3, <2>4, <2>5, <2>6, <2>7, <2>8
<1>5. ASSUME FeederCancelled
      PROVE  PoolInv'
  <2>1. FeederInv'
    BY <1>5, ResultsAssumption
    DEF FeederCancelled, PoolTypeOK, FeederInv
  <2>2. /\ PoolTypeOK' /\ ForwarderInv' /\ ProducerInv' /\ OrderInv'
        /\ TeardownInv' /\ NothingLost' /\ BindErrorsReported' /\ NeverTwice'
    BY <1>5
    DEF FeederCancelled, PoolTypeOK, ForwarderInv, ProducerInv, OrderInv,
        TeardownInv, NothingLost, BindErrorsReported, NeverTwice, FeederState,
        feederOver, poolDone, feedErrsClosed
  <2>3. QED
    BY <2>1, <2>2
<1>6. ASSUME FeederUnwind
      PROVE  PoolInv'
  <2>1. PoolTypeOK'
    BY <1>6
    DEF FeederUnwind, PoolTypeOK, FeederInv, FeederState
  <2>2. /\ FeederInv' /\ ForwarderInv' /\ ProducerInv' /\ OrderInv'
        /\ TeardownInv' /\ NothingLost' /\ BindErrorsReported' /\ NeverTwice'
    BY <1>6
    DEF FeederUnwind, FeederInv, ForwarderInv, ProducerInv, OrderInv,
        TeardownInv, NothingLost, BindErrorsReported, NeverTwice, feederOver,
        poolDone, feedErrsClosed
  <2>3. QED
    BY <2>1, <2>2
<1>7. QED
  BY <1>1, <1>2, <1>3, <1>4, <1>5, <1>6 DEF Feeder

-----------------------------------------------------------------------------
(* The workers.                                                            *)

\* No step of the workers of produce breaks the invariant.
LEMMA WorkersKeepsInv ==
  ASSUME PoolInv, Workers
  PROVE  PoolInv'
<1> USE DEF PoolInv, feederVars, producerVars, forwarderVars, loopVars
<1>1. ASSUME NEW w \in Worker, WorkerPull(w)
      PROVE  PoolInv'
  <2>1. PoolTypeOK'
    BY <1>1
    DEF WorkerPull, PoolTypeOK, FeederInv, FeederState, nextResource
  <2>2. FeederInv'
    BY <1>1, ResultsAssumption
    DEF WorkerPull, PoolTypeOK, FeederInv, feederOver, nextResource
  <2>3. ProducerInv'
    BY <1>1, PoolAssumption
    DEF WorkerPull, PoolTypeOK, FeederInv, ProducerInv, poolDone
  <2>4. OrderInv'
    BY <1>1
    DEF WorkerPull, FeederInv, ForwarderInv, ProducerInv, OrderInv,
        FeederState, feederOver, Follows
  <2>5. /\ ForwarderInv' /\ TeardownInv' /\ NothingLost'
        /\ BindErrorsReported' /\ NeverTwice'
    BY <1>1
    DEF WorkerPull, ForwarderInv, TeardownInv, NothingLost, BindErrorsReported,
        NeverTwice, feederOver, poolDone, feedErrsClosed
  <2>6. QED
    BY <2>1, <2>2, <2>3, <2>4, <2>5
<1>2. ASSUME NEW w \in Worker, WorkerNext(w)
      PROVE  PoolInv'
  <2>1. TeardownInv'
    BY <1>2, PoolAssumption
    DEF WorkerNext, TeardownInv, feedErrsClosed
  <2>2. /\ PoolTypeOK' /\ FeederInv' /\ ForwarderInv' /\ ProducerInv'
        /\ OrderInv' /\ NothingLost' /\ BindErrorsReported' /\ NeverTwice'
    BY <1>2
    DEF WorkerNext, PoolTypeOK, FeederInv, ForwarderInv, ProducerInv, OrderInv,
        NothingLost, BindErrorsReported, NeverTwice, feederOver, poolDone
  <2>3. QED
    BY <2>1, <2>2
<1>3. ASSUME NEW w \in Worker, WorkerExit(w)
      PROVE  PoolInv'
  <2>1. ProducerInv'
    BY <1>3, PoolAssumption
    DEF WorkerExit, PoolTypeOK, ProducerInv, poolDone
  <2>2. /\ PoolTypeOK' /\ FeederInv' /\ ForwarderInv' /\ OrderInv'
        /\ TeardownInv' /\ NothingLost' /\ BindErrorsReported' /\ NeverTwice'
    BY <1>3
    DEF WorkerExit, PoolTypeOK, FeederInv, ForwarderInv, OrderInv, TeardownInv,
        NothingLost, BindErrorsReported, NeverTwice, feederOver, poolDone,
        feedErrsClosed
  <2>3. QED
    BY <2>1, <2>2
<1>4. QED
  BY <1>1, <1>2, <1>3 DEF Workers

-----------------------------------------------------------------------------
(* The producers.                                                          *)

\* Nothing that a running producer may do breaks the invariant.
LEMMA ProducersKeepsInv ==
  ASSUME PoolInv, Producers
  PROVE  PoolInv'
<1> USE DEF PoolInv, feederVars, producerVars, forwarderVars, loopVars
<1>1. ASSUME NEW p \in Producer, ProducerSend(p)
      PROVE  PoolInv'
  <2> DEFINE m == Msg(p, sent[p] + 1)
  <2>1. m.kind = "msg" /\ m.from = p /\ m.n = sent[p] + 1 /\ sent[p] \in Nat
    BY <1>1, ResultFields, ResultsAssumption DEF PoolTypeOK
  <2>2. sent[p] = 0 \/ Msg(p, sent[p]) \in yielded
    BY <1>1, ResultFields DEF ProducerSend, OrderInv, Emitting
  <2>3. Follows(m, yielded)
    BY <2>1, <2>2 DEF Follows
  <2>4. \A q \in dataFwd : sent'[q] = 0 \/ Msg(q, sent'[q]) \in inflight' \cup yielded
    BY <1>1 DEF ProducerSend, OrderInv, PoolTypeOK
  <2>5. OrderInv'
    BY <1>1, <2>3, <2>4 DEF ProducerSend, OrderInv, Follows
  <2>6. PoolTypeOK'
    BY <1>1, ResultMembers, ResultsAssumption
    DEF ProducerSend, PoolTypeOK
  <2>7. ForwarderInv'
    BY <1>1, ResultFields, ResultCases
    DEF ProducerSend, PoolTypeOK, ForwarderInv, feederOver, Emitting
  <2>8. NeverTwice'
    BY <1>1, ResultFields
    DEF ProducerSend, PoolTypeOK, ForwarderInv, NeverTwice
  <2>9. /\ FeederInv' /\ ProducerInv' /\ TeardownInv' /\ NothingLost'
        /\ BindErrorsReported'
    BY <1>1
    DEF ProducerSend, FeederInv, ProducerInv, TeardownInv, NothingLost,
        BindErrorsReported, feederOver, poolDone, feedErrsClosed
  <2>10. QED
    BY <2>5, <2>6, <2>7, <2>8, <2>9
<1>2. ASSUME NEW p \in Producer, ProducerFail(p)
      PROVE  PoolInv'
  <2>1. PoolTypeOK'
    BY <1>2, ResultMembers, ResultsAssumption
    DEF ProducerFail, PoolTypeOK
  <2>2. ForwarderInv'
    BY <1>2, ResultFields, ResultCases
    DEF ProducerFail, PoolTypeOK, ForwarderInv, feederOver, Emitting
  <2>3. OrderInv'
    BY <1>2, ResultFields
    DEF ProducerFail, OrderInv, Follows
  <2>4. NeverTwice'
    BY <1>2, ResultFields
    DEF ProducerFail, PoolTypeOK, ForwarderInv, NeverTwice
  <2>5. /\ FeederInv' /\ ProducerInv' /\ TeardownInv' /\ NothingLost'
        /\ BindErrorsReported'
    BY <1>2
    DEF ProducerFail, FeederInv, ProducerInv, TeardownInv, NothingLost,
        BindErrorsReported, feederOver, poolDone, feedErrsClosed
  <2>6. QED
    BY <2>1, <2>2, <2>3, <2>4, <2>5
<1>3. ASSUME NEW p \in Producer, ProducerCloseErrs(p)
      PROVE  PoolInv'
  BY <1>3
  DEF ProducerCloseErrs, PoolTypeOK, FeederInv, ForwarderInv, ProducerInv,
      OrderInv, TeardownInv, NothingLost, BindErrorsReported, NeverTwice,
      feederOver, poolDone, feedErrsClosed
<1>4. ASSUME NEW p \in Producer, ProducerCloseData(p)
      PROVE  PoolInv'
  BY <1>4
  DEF ProducerCloseData, PoolTypeOK, FeederInv, ForwarderInv, ProducerInv,
      OrderInv, TeardownInv, NothingLost, BindErrorsReported, NeverTwice,
      feederOver, poolDone, feedErrsClosed
<1>5. ASSUME NEW p \in Producer, ProducerReturn(p)
      PROVE  PoolInv'
  BY <1>5
  DEF ProducerReturn, PoolTypeOK, FeederInv, ForwarderInv, ProducerInv,
      OrderInv, TeardownInv, NothingLost, BindErrorsReported, NeverTwice,
      feederOver, poolDone, feedErrsClosed
<1>6. QED
  BY <1>1, <1>2, <1>3, <1>4, <1>5 DEF Producers

-----------------------------------------------------------------------------
(* The forwarders, and emit.                                               *)

\* No step of a forwarder, which receives and emits, breaks the invariant.
LEMMA ForwardersKeepsInv ==
  ASSUME PoolInv, Forwarders
  PROVE  PoolInv'
<1> USE DEF PoolInv, feederVars, producerVars, forwarderVars, loopVars
<1>1. ASSUME NEW p \in Producer, DataFwdEnd(p)
      PROVE  PoolInv'
  <2>1. ForwarderInv'
    BY <1>1
    DEF DataFwdEnd, ForwarderInv, feederOver, Emitting
  <2>2. /\ PoolTypeOK' /\ FeederInv' /\ ProducerInv' /\ OrderInv'
        /\ TeardownInv' /\ NothingLost' /\ BindErrorsReported' /\ NeverTwice'
    BY <1>1
    DEF DataFwdEnd, PoolTypeOK, FeederInv, ProducerInv, OrderInv, TeardownInv,
        NothingLost, BindErrorsReported, NeverTwice, feederOver, poolDone,
        feedErrsClosed
  <2>3. QED
    BY <2>1, <2>2
<1>2. ASSUME NEW p \in Producer, ErrFwdEnd(p)
      PROVE  PoolInv'
  <2>1. ForwarderInv'
    BY <1>2
    DEF ErrFwdEnd, ForwarderInv, feederOver, Emitting
  <2>2. /\ PoolTypeOK' /\ FeederInv' /\ ProducerInv' /\ OrderInv'
        /\ TeardownInv' /\ NothingLost' /\ BindErrorsReported' /\ NeverTwice'
    BY <1>2
    DEF ErrFwdEnd, PoolTypeOK, FeederInv, ProducerInv, OrderInv, TeardownInv,
        NothingLost, BindErrorsReported, NeverTwice, feederOver, poolDone,
        feedErrsClosed
  <2>3. QED
    BY <2>1, <2>2
<1>3. ASSUME FeedFwdEnd
      PROVE  PoolInv'
  <2>1. ForwarderInv'
    BY <1>3
    DEF FeedFwdEnd, ForwarderInv, feederOver, FeedEmitting
  <2>2. /\ PoolTypeOK' /\ FeederInv' /\ ProducerInv' /\ OrderInv'
        /\ TeardownInv' /\ NothingLost' /\ BindErrorsReported' /\ NeverTwice'
    BY <1>3
    DEF FeedFwdEnd, PoolTypeOK, FeederInv, ProducerInv, OrderInv, TeardownInv,
        NothingLost, BindErrorsReported, NeverTwice, feederOver, poolDone,
        feedErrsClosed
  <2>3. QED
    BY <2>1, <2>2
<1>4. ASSUME NEW r \in inflight, Yield(r)
      PROVE  PoolInv'
  <2>1. OrderInv'
    BY <1>4
    DEF Yield, OrderInv, Follows
  <2>2. /\ PoolTypeOK' /\ FeederInv' /\ ForwarderInv' /\ ProducerInv'
        /\ TeardownInv' /\ NothingLost' /\ BindErrorsReported' /\ NeverTwice'
    BY <1>4
    DEF Yield, PoolTypeOK, FeederInv, ForwarderInv, ProducerInv, TeardownInv,
        NothingLost, BindErrorsReported, NeverTwice, feederOver, poolDone,
        feedErrsClosed
  <2>3. QED
    BY <2>1, <2>2
<1>5. ASSUME NEW r \in inflight, EmitCancelled(r)
      PROVE  PoolInv'
  <2>1. ForwarderInv'
    BY <1>5, ResultCases
    DEF EmitCancelled, PoolTypeOK, ForwarderInv, feederOver
  <2>2. OrderInv'
    BY <1>5, ResultFields
    DEF EmitCancelled, OrderInv
  <2>3. /\ PoolTypeOK' /\ FeederInv' /\ ProducerInv' /\ TeardownInv'
        /\ NothingLost' /\ BindErrorsReported' /\ NeverTwice'
    BY <1>5
    DEF EmitCancelled, PoolTypeOK, FeederInv, ProducerInv, TeardownInv,
        NothingLost, BindErrorsReported, NeverTwice, feederOver, poolDone,
        feedErrsClosed
  <2>4. QED
    BY <2>1, <2>2, <2>3
<1>6. QED
  BY <1>1, <1>2, <1>3, <1>4, <1>5 DEF Forwarders

-----------------------------------------------------------------------------
(* The closer, the loop and the caller.                                    *)

\* Neither the closer, nor the caller's loop, nor the end of a context breaks
\* the invariant.
LEMMA LoopKeepsInv ==
  ASSUME PoolInv, CloseMerged \/ LoopEnd \/ Caller
  PROVE  PoolInv'
<1> USE DEF PoolInv, feederVars, producerVars, forwarderVars, loopVars
<1>1. ASSUME CloseMerged
      PROVE  PoolInv'
  BY <1>1
  DEF CloseMerged, PoolTypeOK, FeederInv, ForwarderInv, ProducerInv, OrderInv,
      TeardownInv, NothingLost, BindErrorsReported, NeverTwice, feederOver,
      poolDone, feedErrsClosed
<1>2. ASSUME LoopEnd
      PROVE  PoolInv'
  BY <1>2
  DEF LoopEnd, PoolTypeOK, FeederInv, ForwarderInv, ProducerInv, OrderInv,
      TeardownInv, NothingLost, BindErrorsReported, NeverTwice, feederOver,
      poolDone, feedErrsClosed
<1>3. ASSUME BodyContinue
      PROVE  PoolInv'
  <2>1. runDone' \in BOOLEAN /\ (runDone => runDone')
    <3>1. CASE runDone' = runDone
      BY <3>1 DEF PoolTypeOK
    <3>2. CASE runDone' = TRUE
      BY <3>2
    <3>3. QED BY <1>3, <3>1, <3>2 DEF BodyContinue
  <2>2. PoolTypeOK'
    BY <1>3, <2>1
    DEF BodyContinue, PoolTypeOK
  <2>3. FeederInv'
    BY <1>3, <2>1
    DEF BodyContinue, FeederInv, feederOver
  <2>4. ProducerInv'
    BY <1>3, <2>1
    DEF BodyContinue, ProducerInv, poolDone
  <2>5. NothingLost'
    BY <1>3, <2>1
    DEF BodyContinue, NothingLost, poolDone
  <2>6. BindErrorsReported'
    BY <1>3, <2>1
    DEF BodyContinue, BindErrorsReported, poolDone
  <2>7. /\ ForwarderInv' /\ OrderInv' /\ TeardownInv' /\ NeverTwice'
    BY <1>3
    DEF BodyContinue, ForwarderInv, OrderInv, TeardownInv, NeverTwice,
        feederOver, feedErrsClosed
  <2>8. QED
    BY <2>2, <2>3, <2>4, <2>5, <2>6, <2>7
<1>4. ASSUME BodyBreak
      PROVE  PoolInv'
  BY <1>4
  DEF BodyBreak, PoolTypeOK, FeederInv, ForwarderInv, ProducerInv, OrderInv,
      TeardownInv, NothingLost, BindErrorsReported, NeverTwice, feederOver,
      poolDone, feedErrsClosed
<1>5. ASSUME CallerEndsRun
      PROVE  PoolInv'
  <2>1. PoolTypeOK'
    BY <1>5
    DEF CallerEndsRun, PoolTypeOK, EndRun
  <2>2. /\ FeederInv' /\ ForwarderInv' /\ ProducerInv' /\ OrderInv'
        /\ TeardownInv' /\ NothingLost' /\ BindErrorsReported' /\ NeverTwice'
    BY <1>5
    DEF CallerEndsRun, FeederInv, ForwarderInv, ProducerInv, OrderInv,
        TeardownInv, NothingLost, BindErrorsReported, NeverTwice, feederOver,
        poolDone, feedErrsClosed
  <2>3. QED
    BY <2>1, <2>2
<1>6. ASSUME CallerEndsStream
      PROVE  PoolInv'
  BY <1>6
  DEF CallerEndsStream, PoolTypeOK, FeederInv, ForwarderInv, ProducerInv,
      OrderInv, TeardownInv, NothingLost, BindErrorsReported, NeverTwice,
      feederOver, poolDone, feedErrsClosed
<1>7. QED
  BY <1>1, <1>2, <1>3, <1>4, <1>5, <1>6 DEF Caller

-----------------------------------------------------------------------------
(* The invariant, and the properties that follow from it.                  *)

\* The invariant holds when produce is called.
LEMMA InitInv == PoolInit => PoolInv
<1> SUFFICES ASSUME PoolInit PROVE PoolInv OBVIOUS
<1>1. PoolTypeOK
  <2>1. /\ runDone \in BOOLEAN /\ streamCancelled \in BOOLEAN
        /\ feedFwd \in BOOLEAN /\ left \in BOOLEAN
    BY DEF PoolInit
  <2>2. /\ feeder \in FeederState /\ todo \subseteq Producer
        /\ chunk \subseteq Producer /\ cur \in Producer \cup {Stream}
        /\ releases \in 0..1
    BY DEF PoolInit, FeederState
  <2>3. /\ prod \in [Producer -> {"unbound", "bound", "running", "returned"}]
        /\ sent \in [Producer -> 0..MaxMsgs]
        /\ failed \in [Producer -> 0..MaxErrs]
    BY ResultsAssumption DEF PoolInit
  <2>4. /\ dataClosed \subseteq Producer /\ errsClosed \subseteq Producer
        /\ dataFwd \subseteq Producer /\ errFwd \subseteq Producer
        /\ taken \subseteq Result
        /\ inflight \subseteq taken /\ yielded \subseteq taken
        /\ job \in [Worker -> Producer \cup {Idle, Exited}]
        /\ merged \in {"open", "closed"} /\ item \in Result \cup {NoItem}
    BY DEF PoolInit
  <2>5. QED BY <2>1, <2>2, <2>3, <2>4 DEF PoolTypeOK
<1>2. FeederInv
  BY ResultsAssumption DEF PoolInit, FeederInv, feederOver
<1>3. ForwarderInv /\ ProducerInv /\ OrderInv
  BY DEF PoolInit, ForwarderInv, ProducerInv, OrderInv
<1>4. TeardownInv /\ NothingLost /\ NeverTwice
  BY DEF PoolInit, TeardownInv, NothingLost, NeverTwice
<1>5. BindErrorsReported
  BY DEF PoolInit, BindErrorsReported
<1>6. QED
  BY <1>1, <1>2, <1>3, <1>4, <1>5 DEF PoolInv

\* The invariant is inductive.
LEMMA StepInv ==
  ASSUME PoolInv, [PoolNext]_poolVars
  PROVE  PoolInv'
<1>1. CASE PoolNext
  <2>1. CASE PoolQuiet /\ UNCHANGED poolVars
    BY <2>1
    DEF poolVars, feederVars, producerVars, forwarderVars, loopVars, PoolInv,
        PoolTypeOK, FeederInv, feederOver, ForwarderInv, ProducerInv,
        poolDone, OrderInv, Follows, TeardownInv, feedErrsClosed,
        NothingLost, BindErrorsReported, NeverTwice
  <2>2. QED
    BY <1>1, <2>1, FeederKeepsInv, WorkersKeepsInv, ProducersKeepsInv,
       ForwardersKeepsInv, LoopKeepsInv
    DEF PoolNext
<1>2. CASE UNCHANGED poolVars
  BY <1>2
  DEF poolVars, feederVars, producerVars, forwarderVars, loopVars, PoolInv,
      PoolTypeOK, FeederInv, feederOver, ForwarderInv, ProducerInv,
      poolDone, OrderInv, Follows, TeardownInv, feedErrsClosed,
      NothingLost, BindErrorsReported, NeverTwice
<1>3. QED BY <1>1, <1>2

\* The invariant holds in every state, of any number of producers and workers.
THEOREM PoolInvHolds == PoolSpec => []PoolInv
BY InitInv, StepInv, PTL DEF PoolSpec

\* Every variable of the pool keeps its type; the stream is released at most
\* once.
THEOREM PoolTypeCorrect == PoolSpec => []PoolTypeOK
<1>1. PoolInv => PoolTypeOK
  BY DEF PoolInv
<1>2. QED BY <1>1, PoolInvHolds, PTL

\* The pool drops no result before a context ends, and hands none over twice.
THEOREM LosesNothing == PoolSpec => [](NothingLost /\ NeverTwice)
<1>1. PoolInv => NothingLost /\ NeverTwice
  BY DEF PoolInv
<1>2. QED BY <1>1, PoolInvHolds, PTL

\* No resource that the stream yielded is skipped without its bind error.
THEOREM ReportsBindErrors == PoolSpec => []BindErrorsReported
<1>1. PoolInv => BindErrorsReported
  BY DEF PoolInv
<1>2. QED BY <1>1, PoolInvHolds, PTL

\* The messages of each producer are yielded in order and without a gap.
THEOREM KeepsOrder == PoolSpec => []InOrder
<1>1. PoolInv => InOrder
  BY DEF PoolInv, OrderInv, InOrder
<1>2. QED BY <1>1, PoolInvHolds, PTL

\* Somebody listens on every channel that a running producer has open.
THEOREM AlwaysListens == PoolSpec => []ListenedTo
<1>1. PoolInv => ListenedTo
  BY DEF PoolInv, ProducerInv, ListenedTo
<1>2. QED BY <1>1, PoolInvHolds, PTL

\* The end of the stream witnesses the teardown of feeder and workers.
THEOREM EndIsAWitness == PoolSpec => []EndWitnessesTeardown
<1>1. PoolInv => EndWitnessesTeardown
  BY DEF PoolInv, TeardownInv, FeederInv, feedErrsClosed, EndWitnessesTeardown
<1>2. QED BY <1>1, PoolInvHolds, PTL

\* Once the merged stream is closed with no context ended, no forwarder runs,
\* so that nothing is in flight.
LEMMA EndedIsIdle ==
  ASSUME PoolInv, merged = "closed"
  PROVE  dataFwd = {} /\ errFwd = {} /\ inflight = {} /\ feeder = "exited"
<1>1. dataFwd = {} /\ errFwd = {}
  BY PoolAssumption DEF PoolInv, PoolTypeOK, TeardownInv, ProducerInv
<1>2. inflight = {}
  BY <1>1, ResultCases DEF PoolInv, PoolTypeOK, TeardownInv, ForwarderInv
<1>3. QED BY <1>1, <1>2 DEF PoolInv, TeardownInv, feedErrsClosed

\* A stream that ends with no context ended is complete.
THEOREM EndsComplete == PoolSpec => []EndIsComplete
<1>1. ASSUME PoolInv, merged = "closed", ~poolDone
      PROVE  /\ inflight = {} /\ chunk = {}
             /\ todo = {} \/ FeedErr(Stream) \in yielded
             /\ \A p \in Producer \ todo : FeedErr(p) \in yielded \/ p \in dataClosed
  <2>1. dataFwd = {} /\ errFwd = {} /\ inflight = {} /\ feeder = "exited"
    BY <1>1, EndedIsIdle
  <2>2. chunk = {} /\ ~runDone
    BY <1>1, <2>1 DEF PoolInv, FeederInv, poolDone
  <2>3. taken = yielded
    BY <1>1, <2>1 DEF PoolInv, NothingLost
  <2>4. todo = {} \/ FeedErr(Stream) \in yielded
    BY <1>1, <2>1, <2>2, <2>3 DEF PoolInv, FeederInv, feederOver
  <2>5. ASSUME NEW p \in Producer \ todo
        PROVE  FeedErr(p) \in yielded \/ p \in dataClosed
    <3>1. CASE prod[p] = "unbound"
      BY <1>1, <2>1, <2>2, <2>3, <3>1 DEF PoolInv, BindErrorsReported
    <3>2. CASE prod[p] = "bound"
      BY <1>1, <2>1, <2>2, <3>2 DEF PoolInv, FeederInv
    <3>3. CASE prod[p] \in {"running", "returned"}
      BY <1>1, <2>1, <3>3 DEF PoolInv, ProducerInv
    <3>4. QED BY <1>1, <3>1, <3>2, <3>3 DEF PoolInv, PoolTypeOK
  <2>6. QED BY <2>1, <2>2, <2>4, <2>5
<1>2. PoolInv => EndIsComplete
  BY <1>1 DEF EndIsComplete
<1>3. QED BY <1>2, PoolInvHolds, PTL

\* No more producers have their data open than the pool has workers.
THEOREM KeepsCap == PoolSpec => []ParallelCap
<1>1. ASSUME PoolInv, ~poolDone
      PROVE  Cardinality({p \in Producer : prod[p] = "running" /\ p \notin dataClosed})
               <= Cardinality(Worker)
  <2> DEFINE S == {p \in Producer : prod[p] = "running" /\ p \notin dataClosed}
             T == {job[w] : w \in Worker}
  <2>1. S \subseteq T
    BY <1>1 DEF PoolInv, ProducerInv
  <2>2. IsFiniteSet(T) /\ Cardinality(T) <= Cardinality(Worker)
    <3>1. job \in Surjection(Worker, T)
      BY <1>1 DEF PoolInv, PoolTypeOK, Surjection
    <3>2. QED BY <3>1, PoolAssumption, FS_Surjection
  <2>3. IsFiniteSet(S) /\ Cardinality(S) <= Cardinality(T)
    BY <2>1, <2>2, FS_Subset
  <2>4. Cardinality(S) \in Nat /\ Cardinality(T) \in Nat /\ Cardinality(Worker) \in Nat
    BY <2>2, <2>3, PoolAssumption, FS_CardinalityType
  <2>5. QED BY <2>2, <2>3, <2>4
<1>2. PoolInv => ParallelCap
  BY <1>1 DEF ParallelCap
<1>3. QED BY <1>2, PoolInvHolds, PTL

-----------------------------------------------------------------------------
(* The pool implements the merged stream: PoolSpec implies the abstract    *)
(* specification of MergedStream under the mapping of ProducerPool.  The   *)
(* steps that a caller cannot see are stutters; the others are each one    *)
(* step of the stream.                                                     *)

\* What the mapping says of one producer.
LEMMA SourceOf ==
  /\ sourceOf \in [Producer -> {"new", "open", "over"}]
  /\ \A p \in Producer :
       /\ p \in dataFwd \cup errFwd => sourceOf[p] = "open"
       /\ p \notin dataFwd \cup errFwd /\ prod[p] \in {"unbound", "bound"}
            => sourceOf[p] = "new"
       /\ p \notin dataFwd \cup errFwd /\ prod[p] \notin {"unbound", "bound"}
            => sourceOf[p] = "over"
BY DEF sourceOf

\* The same after a step.
LEMMA SourceOfNext ==
  /\ sourceOf' \in [Producer -> {"new", "open", "over"}]
  /\ \A p \in Producer :
       /\ p \in dataFwd' \cup errFwd' => sourceOf'[p] = "open"
       /\ p \notin dataFwd' \cup errFwd' /\ prod'[p] \in {"unbound", "bound"}
            => sourceOf'[p] = "new"
       /\ p \notin dataFwd' \cup errFwd' /\ prod'[p] \notin {"unbound", "bound"}
            => sourceOf'[p] = "over"
BY DEF sourceOf

\* Results mean the same in both modules.
LEMMA SameResults ==
  /\ Merged!Result = Result
  /\ \A r, S : Merged!Follows(r, S) <=> Follows(r, S)
BY DEF Merged!Result, Result, Merged!Follows, Follows, Merged!Msg, Msg

\* ResultCases, for every result at once.
LEMMA ResultKinds ==
  \A r \in Result :
    /\ r.kind \in {"msg", "err", "feed"}
    /\ r.kind # "feed" => r.from \in Producer
    /\ r.kind = "msg" => r = Msg(r.from, r.n)
    /\ r.kind = "err" => r = Err(r.from, r.n)
BY ResultCases

\* A pool that has not started is a stream that has not started.
LEMMA InitMaps == PoolInit => Merged!StreamInit
BY DEF PoolInit, Merged!StreamInit, sourceOf, feedErrsClosed

\* A feeder's step is a stutter, a result accepted, or the end of the feeder.
LEMMA FeederMaps ==
  ASSUME PoolInv, Feeder
  PROVE  [Merged!StreamNext]_(Merged!streamVars)
<1> USE DEF feederVars, producerVars, forwarderVars, loopVars, feedErrsClosed
<1>1. ASSUME FeederPull \/ FeederPullFails \/ FeederCancelled
      PROVE  UNCHANGED Merged!streamVars
  BY <1>1 DEF FeederPull, FeederPullFails, FeederCancelled, sourceOf, Merged!streamVars, Merged!streamOwnVars
<1>2. ASSUME FeederBind
      PROVE  UNCHANGED Merged!streamVars
  <2>1. sourceOf' = sourceOf
    BY <1>2, SourceOf, SourceOfNext DEF FeederBind, PoolInv, PoolTypeOK, FeederInv
  <2>2. QED BY <1>2, <2>1 DEF FeederBind, Merged!streamVars, Merged!streamOwnVars
<1>3. ASSUME FeederFail
      PROVE  Merged!Accept(FeedErr(cur)) /\ FeedErr(cur) \in Result
  <2>0. FeedErr(cur) \in Result /\ FeedErr(cur).kind = "feed"
    BY <1>3, ResultFields, ResultMembers DEF PoolInv, PoolTypeOK
  <2>1. FeedErr(cur) \notin taken
    BY <1>3, ResultFields, ResultsAssumption DEF FeederFail, PoolInv, PoolTypeOK, FeederInv, ForwarderInv, feederOver
  <2>2. sourceOf' = sourceOf 
    BY <1>3 DEF FeederFail, sourceOf
  <2>3. FeedErr(Stream) \notin taken
    BY <1>3, ResultFields DEF FeederFail, PoolInv, ForwarderInv, feederOver
  <2>4. cur \in Producer => sourceOf[cur] = "new"
    BY <1>3, SourceOf DEF FeederFail, PoolInv, PoolTypeOK, FeederInv, ProducerInv
  <2>5. FeedErr(cur).from = cur
    BY ResultFields
  <2>6. QED
    BY <1>3, <2>0, <2>1, <2>2, <2>3, <2>4, <2>5, SameResults
    DEF FeederFail, Merged!Accept, Merged!feederFailed, Merged!FeedErr, FeedErr,
        Follows, FeedEmitting, nextResource
<1>4. ASSUME FeederUnwind
      PROVE  UNCHANGED Merged!streamVars \/ Merged!FeederEnds
  BY <1>4 DEF FeederUnwind, sourceOf, Merged!streamVars, Merged!streamOwnVars, Merged!FeederEnds
<1>5. QED BY <1>1, <1>2, <1>3, <1>4, SameResults DEF Feeder, Merged!StreamNext, Merged!StreamRuns

\* A worker that takes a producer opens a source; its other steps stutter.
LEMMA WorkersMap ==
  ASSUME PoolInv, Workers
  PROVE  [Merged!StreamNext]_(Merged!streamVars)
<1> USE DEF feederVars, producerVars, forwarderVars, loopVars, feedErrsClosed
<1>1. ASSUME NEW w \in Worker, WorkerPull(w)
      PROVE  cur \in Producer /\ Merged!SourceOpens(cur)
  <2>1. cur \in Producer /\ prod[cur] = "bound" /\ cur \notin dataFwd \cup errFwd
    BY <1>1 DEF WorkerPull, PoolInv, PoolTypeOK, FeederInv, ProducerInv
  <2>2. sourceOf[cur] = "new" /\ sourceOf' = [sourceOf EXCEPT ![cur] = "open"]
    <3>1. \A p \in Producer : p # cur => prod'[p] = prod[p]
      BY <1>1, <2>1 DEF WorkerPull, PoolInv, PoolTypeOK
    <3>2. \A p \in Producer : p # cur => sourceOf'[p] = sourceOf[p]
      BY <1>1, <2>1, <3>1 DEF WorkerPull, sourceOf
    <3>3. sourceOf[cur] = "new" /\ sourceOf'[cur] = "open"
      BY <1>1, <2>1, SourceOf, SourceOfNext DEF WorkerPull
    <3>4. QED BY <2>1, <3>2, <3>3, SourceOf, SourceOfNext
  <2>3. FeedErr(Stream) \notin taken /\ FeedErr(cur) \notin taken
    BY <1>1, <2>1, ResultFields, ResultsAssumption
    DEF WorkerPull, PoolInv, ForwarderInv, feederOver
  <2>4. QED
    BY <1>1, <2>1, <2>2, <2>3
    DEF WorkerPull, Merged!SourceOpens, Merged!feederFailed, Merged!FeedErr, FeedErr,
        nextResource
<1>2. ASSUME NEW w \in Worker, WorkerNext(w) \/ WorkerExit(w)
      PROVE  UNCHANGED Merged!streamVars
  BY <1>2 DEF WorkerNext, WorkerExit, sourceOf, Merged!streamVars, Merged!streamOwnVars
<1>3. QED BY <1>1, <1>2 DEF Workers, Merged!StreamNext, Merged!StreamRuns

\* What a producer sends is accepted by the stream; its other steps stutter.
LEMMA ProducersMap ==
  ASSUME PoolInv, Producers
  PROVE  [Merged!StreamNext]_(Merged!streamVars)
<1> USE DEF feederVars, producerVars, forwarderVars, loopVars, feedErrsClosed
<1>1. ASSUME NEW p \in Producer, ProducerSend(p)
      PROVE  Msg(p, sent[p] + 1) \in Result /\ Merged!Accept(Msg(p, sent[p] + 1))
  <2> DEFINE r == Msg(p, sent[p] + 1)
  <2>1. r \in Result /\ r.kind = "msg" /\ r.from = p /\ r.n = sent[p] + 1
    BY <1>1, ResultMembers, ResultsAssumption DEF ProducerSend, PoolInv, PoolTypeOK, Msg
  <2>2. r \notin taken
    BY <1>1, <2>1, ResultsAssumption DEF PoolInv, PoolTypeOK, ForwarderInv
  <2>3. Follows(r, yielded)
    <3>1. sent[p] \in Nat /\ (sent[p] = 0 \/ Msg(p, sent[p]) \in inflight \cup yielded)
      BY <1>1, ResultsAssumption DEF ProducerSend, PoolInv, PoolTypeOK, OrderInv
    <3>2. Msg(p, sent[p]) \notin inflight
      BY <1>1 DEF ProducerSend, Emitting, Msg
    <3>3. QED BY <3>1, <3>2, <2>1 DEF Follows
  <2>4. \A q \in inflight : q.kind = "msg" => q.from # p
    BY <1>1 DEF ProducerSend, Emitting
  <2>5. sourceOf' = sourceOf /\ sourceOf[p] = "open"
    BY <1>1, SourceOf DEF ProducerSend, sourceOf
  <2>6. QED BY <1>1, <2>1, <2>2, <2>3, <2>4, <2>5, SameResults DEF ProducerSend, Merged!Accept
<1>2. ASSUME NEW p \in Producer, ProducerFail(p)
      PROVE  Err(p, failed[p] + 1) \in Result /\ Merged!Accept(Err(p, failed[p] + 1))
  <2> DEFINE r == Err(p, failed[p] + 1)
  <2>1. r \in Result /\ r.kind = "err" /\ r.from = p /\ r.n = failed[p] + 1
    BY <1>2, ResultMembers, ResultsAssumption DEF ProducerFail, PoolInv, PoolTypeOK, Err
  <2>2. r \notin taken
    BY <1>2, <2>1, ResultsAssumption DEF PoolInv, PoolTypeOK, ForwarderInv
  <2>3. Follows(r, yielded) BY <2>1 DEF Follows
  <2>4. \A q \in inflight : q.kind = "err" => q.from # p
    BY <1>2 DEF ProducerFail, Emitting
  <2>5. sourceOf' = sourceOf /\ sourceOf[p] = "open"
    BY <1>2, SourceOf DEF ProducerFail, sourceOf
  <2>6. QED BY <1>2, <2>1, <2>2, <2>3, <2>4, <2>5, SameResults DEF ProducerFail, Merged!Accept
<1>3. ASSUME NEW p \in Producer, ProducerCloseErrs(p) \/ ProducerCloseData(p)
      PROVE  UNCHANGED Merged!streamVars
  BY <1>3 DEF ProducerCloseErrs, ProducerCloseData, sourceOf, Merged!streamVars, Merged!streamOwnVars
<1>4. ASSUME NEW p \in Producer, ProducerReturn(p)
      PROVE  UNCHANGED Merged!streamVars
  <2>1. sourceOf' = sourceOf
    <3>1. \A q \in Producer : q # p => prod'[q] = prod[q]
      BY <1>4 DEF ProducerReturn, PoolInv, PoolTypeOK
    <3>2. prod'[p] = "returned"
      BY <1>4 DEF ProducerReturn, PoolInv, PoolTypeOK
    <3>3. QED BY <1>4, <3>1, <3>2 DEF ProducerReturn, sourceOf
  <2>2. QED BY <1>4, <2>1 DEF ProducerReturn, Merged!streamVars, Merged!streamOwnVars
<1>5. QED BY <1>1, <1>2, <1>3, <1>4, SameResults DEF Producers, Merged!StreamNext, Merged!StreamRuns

\* The last forwarder of a producer to end closes its source, even when it
\* ends by giving up in emit; a result handed over is given to the loop.
LEMMA ForwardersMap ==
  ASSUME PoolInv, Forwarders
  PROVE  [Merged!StreamNext]_(Merged!streamVars)
<1> USE DEF feederVars, producerVars, forwarderVars, loopVars, feedErrsClosed
<1>1. ASSUME NEW p \in Producer, DataFwdEnd(p) \/ ErrFwdEnd(p)
      PROVE  UNCHANGED Merged!streamVars \/ Merged!SourceEnds(p)
  <2>1. p \in dataFwd \cup errFwd /\ prod[p] \in {"running", "returned"}
    BY <1>1 DEF DataFwdEnd, ErrFwdEnd, PoolInv, ProducerInv
  <2>2. CASE p \in dataFwd' \cup errFwd'
    <3>1. sourceOf' = sourceOf
      BY <1>1, <2>1, <2>2, SourceOf, SourceOfNext DEF DataFwdEnd, ErrFwdEnd
    <3>2. QED BY <1>1, <3>1 DEF DataFwdEnd, ErrFwdEnd, Merged!streamVars, Merged!streamOwnVars
  <2>3. CASE p \notin dataFwd' \cup errFwd'
    <3>1. sourceOf[p] = "open" /\ sourceOf' = [sourceOf EXCEPT ![p] = "over"]
      BY <1>1, <2>1, <2>3, SourceOf, SourceOfNext DEF DataFwdEnd, ErrFwdEnd
    <3>2. \A r \in inflight : r.kind = "feed" \/ r.from # p
      BY <1>1, <2>3, ResultKinds DEF DataFwdEnd, ErrFwdEnd, Emitting, PoolInv, PoolTypeOK, ForwarderInv
    <3>3. QED BY <1>1, <3>1, <3>2 DEF DataFwdEnd, ErrFwdEnd, Merged!SourceEnds
  <2>4. QED BY <2>2, <2>3
<1>2. ASSUME FeedFwdEnd
      PROVE  UNCHANGED Merged!streamVars
  BY <1>2 DEF FeedFwdEnd, sourceOf, Merged!streamVars, Merged!streamOwnVars
<1>3. ASSUME NEW r \in inflight, Yield(r)
      PROVE  r \in Result /\ Merged!Give(r)
  BY <1>3 DEF Yield, sourceOf, Merged!Give, PoolInv, PoolTypeOK
<1>4. ASSUME NEW r \in inflight, EmitCancelled(r)
      PROVE  r \in Result /\ Merged!Drop(r)
  <2>1. r \in Result /\ r \in inflight
    BY DEF PoolInv, PoolTypeOK
  <2>2. CASE r.kind = "feed" \/ r.from \in dataFwd' \cup errFwd'
    <3>1. sourceOf' = sourceOf
      <4>1. CASE r.kind = "feed"
        BY <1>4, <4>1, <2>1, ResultFields DEF EmitCancelled, sourceOf
      <4>2. CASE r.kind # "feed" /\ r.from \in dataFwd' \cup errFwd'
        <5>1. r.kind \in {"msg", "err"} /\ r.from \in Producer
          BY <2>1, <4>2, ResultKinds
        <5>2. \A p \in Producer : p \in dataFwd' \cup errFwd' <=> p \in dataFwd \cup errFwd
          BY <1>4, <4>2, <5>1 DEF EmitCancelled
        <5>3. QED BY <1>4, <5>2 DEF EmitCancelled, sourceOf
      <4>3. QED BY <2>2, <4>1, <4>2
    <3>2. QED BY <1>4, <2>1, <3>1 DEF EmitCancelled, Merged!Drop, Merged!streamDone, poolDone
  <2>3. CASE r.kind # "feed" /\ r.from \notin dataFwd' \cup errFwd'
    <3>1. r.kind \in {"msg", "err"} /\ r.from \in Producer
      BY <2>1, <2>3, ResultKinds
    <3>2. r.from \in dataFwd \cup errFwd /\ prod[r.from] \in {"running", "returned"}
      BY <3>1 DEF PoolInv, ForwarderInv, ProducerInv
    <3>3. sourceOf' = [sourceOf EXCEPT ![r.from] = "over"]
      BY <1>4, <2>3, <3>1, <3>2, SourceOf, SourceOfNext DEF EmitCancelled
    <3>4. \A q \in inflight' : q.kind = "feed" \/ q.from # r.from
      <4> SUFFICES ASSUME NEW q \in inflight, q # r, q.kind # "feed", q.from = r.from
                   PROVE  FALSE
        BY <1>4 DEF EmitCancelled
      <4>1. q \in Result /\ q.kind \in {"msg", "err"}
        BY ResultKinds DEF PoolInv, PoolTypeOK
      <4>2. q.kind # r.kind
        BY <2>1, <3>1, <4>1, ResultKinds DEF PoolInv, ForwarderInv
      <4>3. QED
        BY <1>4, <2>3, <3>1, <4>1, <4>2 DEF EmitCancelled, PoolInv, ForwarderInv
    <3>5. QED BY <1>4, <2>1, <2>3, <3>3, <3>4 DEF EmitCancelled, Merged!Drop, Merged!streamDone, poolDone
  <2>4. QED BY <2>1, <2>2, <2>3
<1>5. QED BY <1>1, <1>2, <1>3, <1>4, SameResults DEF Forwarders, Merged!StreamNext, Merged!StreamRuns

\* The closer ends the stream; the loop and its caller do what the loop of
\* MergedStream does.
LEMMA LoopMaps ==
  ASSUME PoolInv, CloseMerged \/ LoopEnd \/ Caller \/ (PoolQuiet /\ UNCHANGED poolVars)
  PROVE  [Merged!StreamNext]_(Merged!streamVars)
<1> USE DEF feederVars, producerVars, forwarderVars, loopVars, feedErrsClosed
<1>1. ASSUME CloseMerged PROVE Merged!StreamEnds
  <2>1. feedErrsClosed /\ inflight = {} /\ dataFwd \cup errFwd = {}
    <3>1. dataFwd \cup errFwd = {}
      BY <1>1, PoolAssumption DEF CloseMerged, PoolInv, PoolTypeOK, ProducerInv
    <3>2. inflight = {}
      BY <1>1, <3>1, ResultKinds DEF CloseMerged, PoolInv, PoolTypeOK, ForwarderInv
    <3>3. QED BY <1>1, <3>1, <3>2 DEF CloseMerged, PoolInv, TeardownInv
  <2>2. \A p \in Producer : sourceOf[p] # "open"
    BY <2>1, SourceOf
  <2>3. QED BY <1>1, <2>1, <2>2 DEF CloseMerged, Merged!StreamEnds, sourceOf
<1>2. ASSUME LoopEnd PROVE Merged!LoopMeetsEnd
  BY <1>2 DEF LoopEnd, Merged!LoopMeetsEnd, sourceOf
<1>3. ASSUME BodyContinue PROVE Merged!Continue
  BY <1>3 DEF BodyContinue, Merged!Continue, sourceOf
<1>4. ASSUME BodyBreak PROVE Merged!Break
  BY <1>4 DEF BodyBreak, Merged!Break, sourceOf
<1>5. ASSUME CallerEndsRun PROVE Merged!RunEnds
  BY <1>5 DEF CallerEndsRun, Merged!RunEnds, Merged!EndRun, EndRun, Merged!streamOwnVars, sourceOf
<1>6. ASSUME CallerEndsStream PROVE Merged!CancelStream
  BY <1>6 DEF CallerEndsStream, Merged!CancelStream, sourceOf
<1>7. ASSUME UNCHANGED poolVars PROVE UNCHANGED Merged!streamVars
  BY <1>7 DEF poolVars, Merged!streamVars, Merged!streamOwnVars, sourceOf
<1>8. QED BY <1>1, <1>2, <1>3, <1>4, <1>5, <1>6, <1>7 DEF Caller, Merged!StreamNext, Merged!StreamRuns

\* Every behaviour of the pool is a behaviour of the merged stream.
THEOREM PoolImplementsStream == PoolSpec => ImplementsStream
<1>1. PoolInit => Merged!StreamInit
  BY InitMaps
<1>2. PoolInv /\ [PoolNext]_poolVars => [Merged!StreamNext]_(Merged!streamVars)
  <2>1. ASSUME UNCHANGED poolVars PROVE UNCHANGED Merged!streamVars
    BY <2>1 DEF poolVars, feederVars, producerVars, forwarderVars, loopVars, Merged!streamVars, Merged!streamOwnVars, sourceOf, feedErrsClosed
  <2>2. QED BY <2>1, FeederMaps, WorkersMap, ProducersMap, ForwardersMap, LoopMaps DEF PoolNext
<1>3. QED BY <1>1, <1>2, PoolInvHolds, PTL DEF PoolSpec, ImplementsStream, Merged!StreamSpec
=============================================================================
