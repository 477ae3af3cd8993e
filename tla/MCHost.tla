------------------------------- MODULE MCHost -------------------------------
(***************************************************************************)
(* What surrounds the pool on small instances, side by side in one run:    *)
(* the plugin store while init and run share it, the command from its      *)
(* plugins to its exit, the walks over imported files, the resource stream *)
(* of a produce-from pipeline, and the sink.  The command loads its        *)
(* plugins from a store that a finished init has filled; apart from that   *)
(* they share nothing but the end of a run, so an initial state picks the  *)
(* one that moves and the others rest.                                     *)
(***************************************************************************)
EXTENDS Command, Imports, SeedStream, Sink

VARIABLE part   \* the component that moves

seedState == <<callerVars, runnerVars, seedVars>>
sinkState == <<mainVars, consumerVars>>
hostVars == <<part, runDone, commandVars, importsState, seedState, sinkState>>

CONSTANTS m1, m2
MCMessage == {m1, m2}

-----------------------------------------------------------------------------
(* Plugins: p and q, three builds of which two have the same short hash.   *)

S(n, k, m, d) == [name |-> n, kind |-> k, mode |-> m, dir |-> d]
MCSpecLists ==
  {<<S("p", "local", "go", TRUE), S("q", "remote", "bun", TRUE)>>,
   <<S("q", "local", "bin", FALSE)>>, <<S("p", "remote", "bin", TRUE)>>}
MCShort == [v \in {"v1", "v2", "v3"} |-> IF v = "v3" THEN "b" ELSE "a"]

Installed == {[name |-> "p", hash |-> "v1"], [name |-> "q", hash |-> "v3"]}
StoreReady ==
  /\ lock = WholeLock(Installed)
  /\ slots = [s \in Slot |-> IF \E e \in Installed : SlotOf(e) = s
                             THEN (CHOOSE e \in Installed : SlotOf(e) = s).hash ELSE "absent"]
  /\ initAt = "idle" /\ specs = <<>> /\ built = None /\ locked = {} /\ inits = 0
  /\ initOutcome = "none"
  /\ loadAt = "idle" /\ listed = {} /\ wants = {} /\ verified = None /\ clients = {}

-----------------------------------------------------------------------------
(* Files: e is the entry.  Imports lead to f and g or back to e.           *)

MCImports ==
  {<<>>, "a" :> "f", "a" :> "g", "a" :> "e", ("a" :> "f") @@ ("b" :> "g")}
Held(m, plugins, resources, pipelines, fault) ==
  [imports |-> m, plugins |-> plugins, resources |-> resources,
   pipelines |-> pipelines, fault |-> fault]

\* Two plugins from the same place, one of them also at a tag or built otherwise.
Declares(n, t, m) == [name |-> n, source |-> "url", tag |-> t, mode |-> m]
PluginFiles ==
  {Held(m, ps, <<>>, <<>>, "none") : m \in MCImports,
     ps \in {<<>>, <<Declares("x", "", "go")>>, <<Declares("x", "v2", "go")>>,
             <<Declares("x", "", "bun")>>,
             <<Declares("x", "", "go"), Declares("y", "", "go")>>}}
  \union {Held(<<>>, <<>>, <<>>, <<>>, fault) : fault \in {"load", "imports"}}

\* Kind k is provided by one plugin and kind two by both.
MCProvides == [p \in {"s", "q"} |-> IF p = "s" THEN {"k", "produce", "local", "two"} ELSE {"q", "two"}]
B(verb, plugin, kind, name) ==
  [verb |-> verb, plugin |-> plugin, kind |-> kind, name |-> name, valid |-> TRUE]
AProducer == B("produce", "none", "k", "n")
AConsumer == B("consume", "none", "k", "n")
PathTo(path) == [indexed |-> FALSE, path |-> path]
Listed(refs) == [whole |-> FALSE, refs |-> refs]
Here == Listed(<<PathTo(<<"k", "n">>)>>)
There == PathTo(<<"imports", "a", "produce", "k", "n">>)
Element(i) == [indexed |-> TRUE, alias |-> "a", pipe |-> "p", verb |-> "produce", index |-> i]
Whole(verb) == [whole |-> TRUE, alias |-> "a", pipe |-> "p", verb |-> verb]
P(lists, from, parallel, seconds) ==
  [name |-> "p", lists |-> lists, from |-> from, parallel |-> parallel, seconds |-> seconds]

\* Files that stand on their own, some of them refused.
AloneFiles ==
  {Held(<<>>, <<>>, <<AProducer, AConsumer>>,
        <<P([produce |-> Here, consume |-> Here], <<>>, n, 0)>>, "none") : n \in {-1, 0}}
  \union {Held(<<>>, <<>>, rs, <<>>, fault) : fault \in {"none"}, rs \in {
     <<AProducer, B("produce", "q", "k", "n")>>,
     <<AProducer, AProducer>>,
     <<B("produce", "none", "q", "n"), B("produce", "q", "q", "n"), B("produce", "none", "q", "q")>>,
     <<AProducer, B("produce", "none", "produce", "k")>>,
     <<B("produce", "none", "local", "n")>>,
     <<B("produce", "none", "two", "n")>>,
     <<[AProducer EXCEPT !.valid = FALSE]>>}}
  \union {Held(<<>>, <<>>, <<AProducer, AConsumer>>, <<>>, "locals"),
          Held(<<>>, <<>>, <<AConsumer>>, <<P([produce |-> Listed(<<>>), consume |-> Here], <<>>, 0, 0)>>, "none")}

\* Files whose pipeline takes from an import what it needs: a resource, one
\* that a pipeline of the import runs, or a slot as a whole.
ImportingFiles ==
  {Held(m, <<>>, <<AConsumer>>, <<p>>, "none") :
     m \in {"a" :> "f", "a" :> "g", ("a" :> "f") @@ ("b" :> "g")},
     p \in {P([produce |-> Listed(<<There>>), consume |-> Here], <<>>, 1, 0),
            P([produce |-> Whole("produce"), consume |-> Whole("consume")], <<>>, 0, 0),
            P([produce |-> Listed(<<Element(1), There>>), consume |-> Here], <<>>, 0, 0),
            P([produce |-> Listed(<<Element(1)>>), consume |-> Here], <<>>, 1, 0),
            P([consume |-> Here], <<There>>, 2, 3), P([consume |-> Here], <<Element(1)>>, 1, 0)}}

\* Pipelines that are refused: no pool size for a seed, a timeout out of
\* range, two sources of producers, references of another verb, an element
\* that is not there, and seeds that are no references.
RefusedFiles ==
  {Held("a" :> "f", <<>>, <<AProducer, AConsumer>>, <<p>>, "none") :
     p \in {P([consume |-> Here], <<There>>, 0, 3), P([consume |-> Here], <<There>>, 1, 9),
            P([produce |-> Listed(<<There>>), consume |-> Here], <<There>>, 1, 0),
            P([produce |-> Listed(<<There>>), consume |-> Listed(<<There>>)], <<>>, 1, 0),
            P([produce |-> Here, consume |-> Whole("produce")], <<>>, 1, 0),
            P([produce |-> Listed(<<Element(2)>>), consume |-> Here], <<>>, 1, 0),
            P([consume |-> Here], <<PathTo(<<"imports", "a", "pipeline", "p", "produce">>)>>, 1, 0),
            P([consume |-> Here], <<PathTo(<<"k">>)>>, 1, 0),
            P([consume |-> Listed(<<There>>)], <<PathTo(<<"k">>)>>, 1, 0)}}

MCContents ==
  [w \in {"plugins", "parse"} |->
     IF w = "plugins" THEN PluginFiles
     ELSE AloneFiles \union ImportingFiles \union RefusedFiles
          \union {Held(m, <<>>, <<AProducer, AConsumer>>, <<>>, "none") : m \in MCImports}]
-----------------------------------------------------------------------------
\* The sink looks at no message: it is enough to hand it two in one order.
InTurn == {<<>>, <<m1>>, <<m1, m2>>}

\* A sink whose consumers all finished before the first message.
SinkRests ==
  /\ main = "returned" /\ cursor = 1 /\ insClosed = TRUE
  /\ finished = Consumer /\ doneClosed = Consumer /\ returned = Consumer
  /\ consErrs = [c \in Consumer |-> 0] /\ consFwd = [c \in Consumer |-> "exited"]
  /\ dispatched = <<>> /\ received = [c \in Consumer |-> <<>>]

Init ==
  /\ CommandInit /\ ImportsInit /\ SeedInit
  /\ \/ part = "store" /\ StoreInit /\ walk = "plugins" /\ SinkRests
     \/ part = "command" /\ StoreReady /\ walk = "plugins" /\ SinkRests
     \/ part = "imports" /\ StoreInit /\ SinkRests
     \/ part = "seed" /\ StoreInit /\ walk = "plugins" /\ SinkRests
     \/ part = "sink" /\ StoreInit /\ walk = "plugins" /\ SinkInit

Next ==
  \/ part = "store" /\ StoreNext
     /\ UNCHANGED <<part, runDone, commandState, importsState, seedState, sinkState>>
  \/ part = "command" /\ CommandNext
     /\ UNCHANGED <<part, runDone, importsState, seedState, sinkState>>
  \/ part = "imports" /\ ImportsNext
     /\ UNCHANGED <<part, runDone, commandVars, seedState, sinkState>>
  \/ part = "seed" /\ SeedNext /\ UNCHANGED <<part, commandVars, importsState, sinkState>>
  \/ part = "sink" /\ SinkNext /\ dispatched' \in InTurn
     /\ UNCHANGED <<part, commandVars, importsState, seedState>>

\* A seed that rests was not started and a sink that rests has returned: no
\* step of their fairness is enabled.
Spec ==
  /\ Init /\ [][Next]_hostVars /\ SeedFairness /\ SinkFairness
  /\ WF_commandVars(part = "command" /\ CommandDue)
  /\ WF_commandVars(part = "command" /\ ReturnsWhenInterrupted)
-----------------------------------------------------------------------------
\* main and run: a command that is interrupted comes to its end, wherever it
\* is, provided that what it calls answers and that a pipeline whose context
\* has ended returns, which is RunPipeline's to show.
CommandReturns == interrupted ~> (cmd = "exited")
=============================================================================
