------------------------------- MODULE Stages -------------------------------
(***************************************************************************)
(* A chain of the transformers of stdlib, joined as composeTransformers of *)
(* core/build.go joins them: every stage in a goroutine of its own, one    *)
(* unbuffered channel between two stages, one errs channel for all.  A     *)
(* message is a key class and the input messages it carries.  The class    *)
(* "bad" is a message a keyed or decoding stage fails on, "nokey" one      *)
(* whose selector does not resolve, and "unfit" one without a key that the *)
(* encoder refuses in a list, so that a batch with it is lost.             *)
(***************************************************************************)
EXTENDS RunContext, Naturals, Sequences, SequencesExt, FiniteSets

CONSTANTS
  Chains,    \* the transformer lists to choose from: sequences of [kind, n]
  MaxIn      \* bound: messages of the stream

Kinds == {"head", "tail", "sample", "wait", "dedupe", "uniq", "batch", "count",
          "filter", "assert", "codec"}
Class == {"a", "b", "nokey", "unfit", "bad"}
Keyless == {"nokey", "unfit"}

ASSUME StageAssumption ==
  /\ MaxIn \in Nat
  /\ \A c \in Chains : c \in Seq([kind : Kinds, n : Nat]) /\ Len(c) >= 1

VARIABLES
  chain,     \* the transformers of the pipeline
  fed,       \* is the input of the chain still open?
  flow,      \* history: flow[s] is what crossed into stage s + 1, so flow[0] is
             \* what the chain took and flow[Len(chain)] what it gave
  at,        \* where each stage is: "recv", "send", "err" or "ended"
  hold,      \* what each stage is sending: at most one message
  mem,       \* what each stage keeps from one message to the next
  failed     \* history: errors received from the chain

stagesState == <<chain, fed, flow, at, hold, mem, failed>>
stageVars == <<runDone, stagesState>>

Stage == 1..Len(chain)
Input(k, i) == [key |-> k, from |-> <<i>>]

\* n: the messages seen; keys: the keys kept; buf: the messages buffered.
NoMemory == [n |-> 0, keys |-> <<>>, buf |-> <<>>]
Carried(ms) == FlattenSeq([i \in 1..Len(ms) |-> ms[i].from])
Bundle(ms) == [key |-> "nokey", from |-> Carried(ms)]
Encodes(ms) == \A i \in 1..Len(ms) : ms[i].key # "unfit"

-----------------------------------------------------------------------------
(* What a stage makes of a message: out, whether it fails, and its memory. *)

Pass(m, s) == [out |-> <<m>>, err |-> FALSE, mem |-> s]
Drop(s) == [out |-> <<>>, err |-> FALSE, mem |-> s]
Fail(s) == [out |-> <<>>, err |-> TRUE, mem |-> s]
Seen(s) == [s EXCEPT !.n = @ + 1]

HeadOf(n, m, s) == IF s.n >= n THEN Drop(s) ELSE Pass(m, Seen(s))
TailOf(n, m, s) == IF s.n < n THEN Drop(Seen(s)) ELSE Pass(m, s)
SampleOf(n, m, s) == IF n <= 1 \/ s.n % n = 0 THEN Pass(m, Seen(s)) ELSE Drop(Seen(s))

\* The ring of the window: its eldest key makes room for the new one.
Remember(n, k, keys) == Append(IF n > 0 /\ Len(keys) >= n THEN Tail(keys) ELSE keys, k)

Dedupe(n, m, s) ==
  IF m.key = "bad" THEN Fail(s)
  ELSE IF m.key \in Keyless THEN Pass(m, s)
  ELSE IF Contains(s.keys, m.key) THEN Drop(s)
  ELSE Pass(m, [s EXCEPT !.keys = Remember(n, m.key, @)])

Uniq(m, s) ==
  IF m.key = "bad" THEN Fail(s)
  ELSE IF m.key \in Keyless THEN Pass(m, s)
  ELSE IF s.keys = <<m.key>> THEN Drop(s)
  ELSE Pass(m, [s EXCEPT !.keys = <<m.key>>])

Size(n) == IF n <= 0 THEN 1 ELSE n
Batch(n, m, s) ==
  LET buf == Append(s.buf, m)
      emptied == [s EXCEPT !.buf = <<>>]
  IN IF Len(buf) < Size(n) THEN Drop([s EXCEPT !.buf = buf])
     ELSE IF Encodes(buf) THEN Pass(Bundle(buf), emptied) ELSE Fail(emptied)

Count(n, m, s) ==
  LET cur == s.n + 1
  IN IF cur % Size(n) = 0 THEN Pass([key |-> "nokey", from |-> <<cur>>], Seen(s))
     ELSE Pass(m, Seen(s))

\* The expression of the filter and of the assertion holds of the class "a".
Filter(m, s) == IF m.key = "bad" THEN Fail(s) ELSE IF m.key = "a" THEN Pass(m, s) ELSE Drop(s)
AssertThat(m, s) == IF m.key = "a" THEN Pass(m, s) ELSE Fail(s)

\* A codec transformer under on-error: 0 raises, 1 ignores; its operation
\* drops what its selector does not find.
Codec(n, m, s) ==
  IF m.key = "bad" THEN (IF n = 0 THEN Fail(s) ELSE Drop(s))
  ELSE IF m.key \in Keyless THEN Drop(s) ELSE Pass(m, s)

Decision(t, m, s) ==
  CASE t.kind = "head" -> HeadOf(t.n, m, s)
    [] t.kind = "tail" -> TailOf(t.n, m, s)
    [] t.kind = "sample" -> SampleOf(t.n, m, s)
    [] t.kind = "wait" -> Pass(m, s)
    [] t.kind = "dedupe" -> Dedupe(t.n, m, s)
    [] t.kind = "uniq" -> Uniq(m, s)
    [] t.kind = "batch" -> Batch(t.n, m, s)
    [] t.kind = "count" -> Count(t.n, m, s)
    [] t.kind = "filter" -> Filter(m, s)
    [] t.kind = "assert" -> AssertThat(m, s)
    [] t.kind = "codec" -> Codec(t.n, m, s)

-----------------------------------------------------------------------------
StagesInit ==
  /\ runDone = FALSE /\ fed = TRUE /\ failed = 0
  /\ chain \in Chains
  /\ flow = [s \in 0..Len(chain) |-> <<>>]
  /\ at = [s \in Stage |-> "recv"]
  /\ hold = [s \in Stage |-> <<>>]
  /\ mem = [s \in Stage |-> NoMemory]

\* Stage s takes m; holding, where 0 is the caller, is what was upstream.
Take(s, m, upstream) ==
  LET d == Decision(chain[s], m, mem[s])
      here == IF d.err THEN "err" ELSE IF d.out # <<>> THEN "send" ELSE "recv"
  IN /\ at' = [upstream EXCEPT ![s] = here]
     /\ mem' = [mem EXCEPT ![s] = d.mem]
     /\ flow' = [flow EXCEPT ![s - 1] = Append(@, m)]
     /\ hold' = [t \in Stage |-> IF t = s THEN d.out ELSE IF t = s - 1 THEN <<>> ELSE hold[t]]

FeedsMessage ==
  /\ fed /\ at[1] = "recv" /\ Len(flow[0]) < MaxIn
  /\ \E k \in Class : Take(1, Input(k, Len(flow[0]) + 1), at)
  /\ UNCHANGED <<runDone, chain, fed, failed>>

\* The batch that is flushed as the input closes is the last thing it sends.
After(s) == IF chain[s].kind = "batch" /\ mem[s].n > 0 THEN "ended" ELSE "recv"

Passes(s) ==
  /\ s < Len(chain) /\ at[s] = "send" /\ at[s + 1] = "recv"
  /\ Take(s + 1, Head(hold[s]), [at EXCEPT ![s] = After(s)])
  /\ UNCHANGED <<runDone, chain, fed, failed>>

Gives ==
  LET s == Len(chain)
  IN /\ at[s] = "send"
     /\ at' = [at EXCEPT ![s] = After(s)] /\ hold' = [hold EXCEPT ![s] = <<>>]
     /\ flow' = [flow EXCEPT ![s] = Append(@, Head(hold[s]))]
  /\ UNCHANGED <<runDone, chain, fed, mem, failed>>

Reports(s) ==
  /\ at[s] = "err"
  /\ at' = [at EXCEPT ![s] = After(s)] /\ failed' = failed + 1
  /\ UNCHANGED <<runDone, chain, fed, flow, hold, mem>>

CloseInput ==
  /\ fed /\ fed' = FALSE
  /\ UNCHANGED <<runDone, chain, flow, at, hold, mem, failed>>

InputClosed(s) == IF s = 1 THEN ~fed ELSE at[s - 1] = "ended"

\* Mutant: the partial batch is dropped when the input closes.
SeesCloseUnflushed(s) ==
  /\ at[s] = "recv" /\ InputClosed(s)
  /\ at' = [at EXCEPT ![s] = "ended"] /\ mem' = [mem EXCEPT ![s].buf = <<>>]
  /\ UNCHANGED <<runDone, chain, fed, flow, hold, failed>>

\* A stage closes its out when its in is closed; batch flushes first.
SeesClose(s) ==
  /\ at[s] = "recv" /\ InputClosed(s)
  /\ IF mem[s].buf # <<>>
     THEN /\ mem' = [mem EXCEPT ![s].buf = <<>>, ![s].n = 1]
          /\ IF Encodes(mem[s].buf)
             THEN /\ at' = [at EXCEPT ![s] = "send"]
                  /\ hold' = [hold EXCEPT ![s] = <<Bundle(mem[s].buf)>>]
             ELSE at' = [at EXCEPT ![s] = "err"] /\ UNCHANGED hold
     ELSE at' = [at EXCEPT ![s] = "ended"] /\ UNCHANGED <<hold, mem>>
  /\ UNCHANGED <<runDone, chain, fed, flow, failed>>

\* Every wait of a stage also selects on the context.
StageCancelled(s) ==
  /\ runDone /\ at[s] # "ended"
  /\ at' = [at EXCEPT ![s] = "ended"]
  /\ UNCHANGED <<runDone, chain, fed, flow, hold, mem, failed>>

StagesCancelled == EndRun /\ UNCHANGED <<chain, fed, flow, at, hold, mem, failed>>

StagesNext ==
  \/ FeedsMessage \/ Gives \/ CloseInput \/ StagesCancelled
  \/ \E s \in Stage : Passes(s) \/ Reports(s) \/ SeesClose(s) \/ StageCancelled(s)

StagesSpec == StagesInit /\ [][StagesNext]_stageVars

-----------------------------------------------------------------------------
(* Properties.  Each kind has a reference: what it owes for what it took.  *)

\* The positions of xs that a stage must let through, when it neither
\* bundles nor rewrites messages, told from the positions K it did let through.
Keyed(xs, i) == xs[i].key \in {"a", "b"}
KeyedBefore(xs, K, i) == {j \in K : j < i /\ Keyed(xs, j)}
\* The n latest members of a set of positions; all of them when n = 0.
Latest(S, n) == {j \in S : n = 0 \/ Cardinality({k \in S : k > j}) < n}
Rising(w) == \A i, j \in DOMAIN w : i < j => w[i] < w[j]

Owes(t, xs, K, i) ==
  CASE t.kind = "head" -> i <= t.n
    [] t.kind = "tail" -> i > t.n
    [] t.kind = "sample" -> t.n <= 1 \/ (i - 1) % t.n = 0
    [] t.kind = "wait" -> TRUE
    [] t.kind = "dedupe" -> xs[i].key \in Keyless \/
         (Keyed(xs, i) /\ \A j \in Latest(KeyedBefore(xs, K, i), t.n) : xs[j].key # xs[i].key)
    [] t.kind = "uniq" -> xs[i].key \in Keyless \/
         (Keyed(xs, i) /\ \A j \in Latest(KeyedBefore(xs, 1..Len(xs), i), 1) : xs[j].key # xs[i].key)
    [] t.kind \in {"filter", "assert"} -> xs[i].key = "a"
    [] t.kind = "codec" -> Keyed(xs, i)

\* What a stage keeps from one message to the next is what it needs to go on.
Recalls(keys, xs, past, n) ==
  \E w \in [1..Len(keys) -> 1..Len(xs)] :
     /\ Rising(w) /\ Range(w) = Latest(past, n)
     /\ \A i \in 1..Len(keys) : keys[i] = xs[w[i]].key
Remembers(t, xs, K, m) ==
  /\ t.kind \in {"head", "tail"} => m.n = IF Len(xs) <= t.n THEN Len(xs) ELSE t.n
  /\ t.kind \in {"sample", "count"} => m.n = Len(xs)
  /\ t.kind = "dedupe" => Recalls(m.keys, xs, KeyedBefore(xs, K, Len(xs) + 1), t.n)
  /\ t.kind = "uniq" => Recalls(m.keys, xs, KeyedBefore(xs, 1..Len(xs), Len(xs) + 1), 1)

Selects(t, xs, ys, m) ==
  \E pos \in [1..Len(ys) -> 1..Len(xs)] :
     /\ Rising(pos) /\ \A i \in 1..Len(ys) : ys[i] = xs[pos[i]]
     /\ \A i \in 1..Len(xs) : i \in Range(pos) <=> Owes(t, xs, Range(pos), i)
     /\ Remembers(t, xs, Range(pos), m)

Tallies(t, xs, ys, m) ==
  /\ Len(ys) = Len(xs) /\ Remembers(t, xs, {}, m)
  /\ \A i \in 1..Len(ys) :
       ys[i] = IF i % Size(t.n) = 0 THEN [key |-> "nokey", from |-> <<i>>] ELSE xs[i]

\* The groups of a batch: exactly its size, but for a last one when the stage
\* flushed.  Every group that encodes is bundled, in order; the rest is buffered.
BatchGroup(t, xs, i) ==
  SubSeq(xs, Size(t.n) * (i - 1) + 1, IF Size(t.n) * i <= Len(xs) THEN Size(t.n) * i ELSE Len(xs))
Complete(t, xs, m) ==
  {i \in 1..Len(xs) : Size(t.n) * i <= Len(xs) \/ (m.n > 0 /\ Size(t.n) * (i - 1) < Len(xs))}

Bundles(t, xs, ys, m) ==
  \E k \in 0..Len(xs) :
    /\ Complete(t, xs, m) = 1..k
    /\ m.buf = IF m.n > 0 THEN <<>> ELSE SubSeq(xs, Size(t.n) * k + 1, Len(xs))
    /\ m.n > 0 => Len(xs) < Size(t.n) * k
    /\ \E pos \in [1..Len(ys) -> 1..k] :
         /\ Rising(pos) /\ Range(pos) = {i \in 1..k : Encodes(BatchGroup(t, xs, i))}
         /\ \A i \in 1..Len(ys) : ys[i] = Bundle(BatchGroup(t, xs, pos[i]))

Meets(t, xs, ys, m) ==
  IF t.kind = "batch" THEN Bundles(t, xs, ys, m)
  ELSE IF t.kind = "count" THEN Tallies(t, xs, ys, m) ELSE Selects(t, xs, ys, m)

\* Every stage of the chain owes exactly the reference's output for what it
\* took: delivered, or in its hand.
StagesMeetReference ==
  \A s \in Stage : Meets(chain[s], flow[s - 1], flow[s] \o hold[s], mem[s])

\* A stage has a message in its hand while it sends it, and what was flushed is
\* its last.
HandsMatch ==
  \A s \in Stage :
    /\ Len(hold[s]) <= 1 /\ (at[s] = "send" => hold[s] # <<>>)
    /\ hold[s] # <<>> => at[s] = "send" \/ (at[s] = "ended" /\ runDone)
    /\ Len(mem[s].buf) < IF chain[s].kind = "batch" /\ mem[s].n = 0 THEN Size(chain[s].n) ELSE 1
    /\ chain[s].kind = "batch" /\ mem[s].n > 0 => at[s] \in {"send", "err", "ended"}

\* A chain that was not cancelled ends with empty hands, and reports one error
\* for every message, or group of a batch, that a stage failed on.
Fails(t, m) ==
  \/ m.key = "bad" /\ t.kind \in {"dedupe", "uniq", "filter"}
  \/ m.key = "bad" /\ t.kind = "codec" /\ t.n = 0
  \/ m.key # "a" /\ t.kind = "assert"
Broken(t, xs, m) ==
  IF t.kind = "batch" THEN {i \in Complete(t, xs, m) : ~Encodes(BatchGroup(t, xs, i))}
  ELSE {i \in 1..Len(xs) : Fails(t, xs[i])}
Failures == UNION {{s} \X Broken(chain[s], flow[s - 1], mem[s]) : s \in Stage}
CleanEnd ==
  /\ IsFiniteSet(Failures)
  /\ ~runDone => /\ failed + Cardinality({s \in Stage : at[s] = "err"}) = Cardinality(Failures)
                 /\ \A s \in Stage : at[s] = "ended" => hold[s] = <<>> /\ mem[s].buf = <<>>

Message == [key : Class, from : Seq(Nat)]
StagesTypeOK ==
  /\ chain \in Chains /\ fed \in BOOLEAN /\ failed \in Nat
  /\ at \in [Stage -> {"recv", "send", "err", "ended"}]
  /\ flow \in [0..Len(chain) -> Seq(Message)] /\ hold \in [Stage -> Seq(Message)]
  /\ mem \in [Stage -> [n : Nat, keys : Seq(Class), buf : Seq(Message)]]

\* The transformers of stdlib in a chain: each meets its reference, whatever
\* the interleaving, and a clean end loses neither a message nor an error.
StageInv == StagesTypeOK /\ HandsMatch /\ StagesMeetReference /\ CleanEnd

\* keyed.go:58-59 says of Dedupe that it drops the messages whose key was seen
\* within the last `window` messages: a keyed message is let through exactly
\* when none of the window messages before it has its key.
DedupeWindow ==
  \A s \in Stage : chain[s].kind = "dedupe" /\ chain[s].n > 0 =>
    LET xs == flow[s - 1]
        ys == flow[s] \o hold[s]
    IN \A i \in 1..Len(xs) : Keyed(xs, i) =>
         (xs[i] \in Range(ys) <=>
            \A j \in 1..(i - 1) : i - j <= chain[s].n => xs[j].key # xs[i].key)

=============================================================================
