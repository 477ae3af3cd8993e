------------------------------ MODULE Command -------------------------------
(***************************************************************************)
(* `psyduck run`: main, run and loadPipelines of main.go, and the building *)
(* of a pipeline (BuildPipeline and drain of core/build.go), over the      *)
(* plugins that PluginStore loads.  Parsing is Imports' and running a      *)
(* pipeline RunPipeline's: here the one succeeds or fails, and the other   *)
(* returns nil or an error.                                                *)
(***************************************************************************)
EXTENDS PluginStore

CONSTANTS
  Pipe,      \* the pipelines that a file may declare
  MaxBinds   \* bound: consumers, and transformers, of one pipeline

ASSUME CommandAssumption ==
  MaxBinds \in Nat \ {0} /\ IsFiniteSet(Pipe) /\ "none" \notin Pipe

VARIABLES
  cmd,         \* where the command is
  selected,    \* the pipelines to run
  unbuilt,     \* those that are not built yet
  building,    \* the one that is being built
  toBind,      \* the resources of its two streams that are not bound yet
  open,        \* instances of each pipeline, bound and not closed
  pipe,        \* where each pipeline is
  results,     \* the errs channel: pipelines in the order they returned
  collected,   \* results that run has taken from it
  failed,      \* the pipeline whose error is kept, or "none"
  outcome,     \* what the command answers, once it does
  interrupted, \* has SIGINT or SIGTERM ended the context?
  wrong        \* history: the pipelines that returned an error, in order

buildVars == <<selected, unbuilt, building, toBind>>
runVars == <<pipe, results, collected, failed, wrong>>
commandState == <<cmd, buildVars, open, runVars, outcome, interrupted>>
commandVars == <<storeVars, commandState>>

NoPipe == "none"
Stream == {"consumers", "transformers"}

CommandInit ==
  /\ cmd = "load" /\ selected = {} /\ unbuilt = {} /\ building = NoPipe
  /\ toBind = [s \in Stream |-> 0]
  /\ open = [p \in Pipe |-> 0] /\ pipe = [p \in Pipe |-> "unbuilt"]
  /\ results = <<>> /\ collected = 0 /\ failed = NoPipe /\ wrong = <<>>
  /\ outcome = "none" /\ interrupted = FALSE

Answer(o) == outcome' = o /\ cmd' = "cleanup"

-----------------------------------------------------------------------------
(* loadPipelines, selectPipelines and the building of what is selected.    *)

LoadsPlugins ==
  /\ cmd = "load" /\ loadAt \in {"loaded", "failed"}
  /\ IF loadAt = "failed" THEN Answer("load") ELSE cmd' = "parse" /\ UNCHANGED outcome
  /\ UNCHANGED <<storeVars, buildVars, open, runVars, interrupted>>

\* A file that does not parse, that declares no pipeline, or not the named one.
ParseFails ==
  /\ cmd = "parse" /\ Answer("parse")
  /\ UNCHANGED <<storeVars, buildVars, open, runVars, interrupted>>

Parses ==
  /\ cmd = "parse" /\ cmd' = "build"
  /\ selected' \in SUBSET Pipe \ {{}} /\ unbuilt' = selected'
  /\ UNCHANGED <<storeVars, building, toBind, open, runVars, outcome, interrupted>>

StartsBuild ==
  /\ cmd = "build" /\ building = NoPipe /\ unbuilt # {}
  /\ building' \in unbuilt /\ toBind' \in [Stream -> 0..MaxBinds]
  /\ IF toBind'["consumers"] = 0 THEN Answer("build") ELSE UNCHANGED <<cmd, outcome>>
  /\ UNCHANGED <<storeVars, selected, unbuilt, open, runVars, interrupted>>

\* drain: the consumers first, then the transformers.
Binds ==
  /\ cmd = "build" /\ building # NoPipe
  /\ \E s \in Stream :
       /\ toBind[s] > 0 /\ (s = "transformers" => toBind["consumers"] = 0)
       /\ toBind' = [toBind EXCEPT ![s] = @ - 1]
  /\ open' = [open EXCEPT ![building] = @ + 1]
  /\ UNCHANGED <<storeVars, cmd, selected, unbuilt, building, runVars, outcome, interrupted>>

\* The stream fails, the plugin is unknown or refuses; a pipeline that was
\* built does not run, and nothing that was bound is closed.
BindFails ==
  /\ cmd = "build" /\ building # NoPipe /\ Answer("build")
  /\ UNCHANGED <<storeVars, buildVars, open, runVars, interrupted>>

Builds ==
  /\ cmd = "build" /\ building # NoPipe /\ \A s \in Stream : toBind[s] = 0
  /\ unbuilt' = unbuilt \ {building} /\ building' = NoPipe
  /\ UNCHANGED <<storeVars, cmd, selected, toBind, open, runVars, outcome, interrupted>>

-----------------------------------------------------------------------------
(* run: one pipeline directly, more than one in a goroutine each.          *)

RunsAll ==
  /\ cmd = "build" /\ unbuilt = {} /\ building = NoPipe
  /\ cmd' = "run" /\ pipe' = [p \in Pipe |-> IF p \in selected THEN "running" ELSE pipe[p]]
  /\ UNCHANGED <<storeVars, buildVars, open, results, collected, failed, wrong, outcome, interrupted>>

\* Mutant: only an error is sent to the collector.
PipelineReturnsSilently(p) ==
  /\ pipe[p] = "running" /\ pipe' = [pipe EXCEPT ![p] = "returned"]
  /\ \/ results' = Append(results, [pipe |-> p, ok |-> FALSE]) /\ wrong' = Append(wrong, p)
     \/ UNCHANGED <<results, wrong>>
  /\ UNCHANGED <<storeVars, cmd, buildVars, open, collected, failed, outcome, interrupted>>

\* errs has room for every pipeline, so a goroutine never waits for run.
PipelineReturns(p) ==
  /\ pipe[p] = "running" /\ pipe' = [pipe EXCEPT ![p] = "returned"]
  /\ \/ results' = Append(results, [pipe |-> p, ok |-> TRUE]) /\ UNCHANGED wrong
     \/ results' = Append(results, [pipe |-> p, ok |-> FALSE]) /\ wrong' = Append(wrong, p)
  /\ UNCHANGED <<storeVars, cmd, buildVars, open, collected, failed, outcome, interrupted>>

\* An instance is closed when its stage returns, which on a cancelled run may
\* be after RunPipeline did.
ClosesInstance(p) ==
  /\ pipe[p] \in {"running", "returned"} /\ cmd # "exited" /\ open[p] > 0
  /\ open' = [open EXCEPT ![p] = @ - 1]
  /\ UNCHANGED <<storeVars, cmd, buildVars, runVars, outcome, interrupted>>

\* Mutant: the first error is returned as it arrives.
CollectsEagerly ==
  /\ cmd = "run" /\ collected < Len(results)
  /\ LET r == results[collected + 1]
     IN /\ failed' = IF failed = NoPipe /\ ~r.ok THEN r.pipe ELSE failed
        /\ collected' = collected + 1
        /\ IF ~r.ok \/ collected' = Cardinality(selected)
           THEN Answer(IF failed' = NoPipe THEN "nil" ELSE "pipeline")
           ELSE UNCHANGED <<cmd, outcome>>
  /\ UNCHANGED <<storeVars, buildVars, open, pipe, results, wrong, interrupted>>

\* The result of every pipeline is collected before the first error is returned.
Collects ==
  /\ cmd = "run" /\ collected < Len(results)
  /\ LET r == results[collected + 1]
     IN /\ failed' = IF failed = NoPipe /\ ~r.ok THEN r.pipe ELSE failed
        /\ collected' = collected + 1
        /\ IF collected' = Cardinality(selected)
           THEN Answer(IF failed' = NoPipe THEN "nil" ELSE "pipeline")
           ELSE UNCHANGED <<cmd, outcome>>
  /\ UNCHANGED <<storeVars, buildVars, open, pipe, results, wrong, interrupted>>

Interrupt ==
  /\ ~interrupted /\ cmd # "exited" /\ interrupted' = TRUE
  /\ UNCHANGED <<storeVars, cmd, buildVars, open, runVars, outcome>>

\* main: CleanupClients, whatever the command answered, then the exit.
CleansUp ==
  /\ cmd = "cleanup" /\ cmd' = "exited" /\ RunOver
  /\ UNCHANGED <<buildVars, open, runVars, outcome, interrupted>>

LoadStep == cmd = "load" /\ Load /\ UNCHANGED commandState

\* What the command does by itself; pipelines and signals are not among it.
CommandDue ==
  \/ LoadStep \/ LoadsPlugins \/ ParseFails \/ Parses
  \/ StartsBuild \/ Binds \/ BindFails \/ Builds \/ RunsAll
  \/ Collects \/ CleansUp

\* A pipeline whose context ended comes back.
ReturnsWhenInterrupted == interrupted /\ \E p \in Pipe : PipelineReturns(p)

CommandNext ==
  \/ CommandDue \/ Interrupt
  \/ \E p \in Pipe : PipelineReturns(p) \/ ClosesInstance(p)

\* A command starts on any store and with no plugin launched.
CommandSpec ==
  CommandInit /\ StoreInv /\ loadAt = "idle" /\ [][CommandNext]_commandVars

-----------------------------------------------------------------------------
(* Properties.                                                             *)

CommandTypeOK ==
  /\ cmd \in {"load", "parse", "build", "run", "cleanup", "exited"}
  /\ unbuilt \subseteq selected /\ selected \subseteq Pipe /\ building \in unbuilt \cup {NoPipe}
  /\ pipe \in [Pipe -> {"unbuilt", "running", "returned"}]
  /\ results \in Seq([pipe : Pipe, ok : BOOLEAN]) /\ collected \in 0..Len(results)
  /\ wrong \in Seq(Pipe) /\ failed \in Pipe \cup {NoPipe} /\ interrupted \in BOOLEAN
  /\ outcome \in {"none", "load", "parse", "build", "pipeline", "nil"}

\* Nothing but loading happens before the plugins are loaded or have failed to.
LoadComesFirst ==
  /\ cmd \in {"parse", "build", "run"} => loadAt = "loaded"
  /\ cmd = "cleanup" => loadAt \in {"loaded", "failed"}
  /\ cmd = "exited" => loadAt = "idle"

\* The phases of a command: it builds everything before it runs anything, and
\* answers when everything has returned, or before anything runs.
Phases ==
  /\ cmd \in {"load", "parse", "build"} => \A p \in Pipe : pipe[p] = "unbuilt"
  /\ cmd \in {"load", "parse", "build", "run"} => outcome = "none"
  /\ cmd = "run" => \A p \in selected : pipe[p] # "unbuilt"
  /\ cmd \in {"cleanup", "exited"} => \A p \in Pipe : pipe[p] # "running"
  /\ \A p \in Pipe : pipe[p] # "unbuilt" => p \in selected /\ unbuilt = {} /\ building = NoPipe
  /\ outcome \in {"nil", "pipeline"} => \A p \in selected : pipe[p] = "returned"

\* No instance of a pipeline is bound twice or before its turn, and none is
\* closed that was not bound.
OpenIsBound ==
  /\ open \in [Pipe -> 0..(2 * MaxBinds)] /\ toBind \in [Stream -> 0..MaxBinds]
  /\ cmd \in {"load", "parse"} => building = NoPipe /\ \A p \in Pipe : open[p] = 0
  /\ \A p \in unbuilt \ {building} : open[p] = 0
  /\ building # NoPipe =>
       open[building] + toBind["consumers"] + toBind["transformers"] <= 2 * MaxBinds

IsFirstError(i) == ~results[i].ok /\ \A j \in 1..(i - 1) : results[j].ok

\* What run keeps is the first error among the results it has collected, and
\* it has collected a result of every pipeline before it answers.
FirstErrorIsKept ==
  /\ Len(results) = Cardinality({p \in Pipe : pipe[p] = "returned"})
  /\ failed = NoPipe => \A i \in 1..collected : results[i].ok
  /\ failed # NoPipe => \E i \in 1..collected : IsFirstError(i) /\ failed = results[i].pipe
  /\ wrong = <<>> => \A i \in 1..Len(results) : results[i].ok
  /\ wrong # <<>> => \E i \in 1..Len(results) : IsFirstError(i) /\ Head(wrong) = results[i].pipe
  /\ outcome = "nil" => failed = NoPipe /\ collected = Len(results)
  /\ outcome = "pipeline" => failed # NoPipe

\* The plugins of a run live as long as any of its pipelines, and no longer
\* than the command: they are loaded whole before a pipeline starts, and
\* killed only when all have returned.
PluginsOutlivePipelines ==
  /\ (\E p \in Pipe : pipe[p] = "running") =>
       cmd = "run" /\ Launched = listed /\ loadAt = "loaded"
  /\ cmd = "exited" => clients = {}

\* No pipeline runs unless every selected one was built.
AllOrNoneRun == (\E p \in Pipe : pipe[p] # "unbuilt") => unbuilt = {} /\ building = NoPipe

\* The answer of a run is nil when every pipeline returned nil, and otherwise
\* the first error that a pipeline returned.
AnswerIsFirstError ==
  /\ outcome = "nil" => wrong = <<>> /\ \A p \in selected : pipe[p] = "returned"
  /\ outcome = "pipeline" => wrong # <<>> /\ failed = Head(wrong)

CommandProgress == LoadComesFirst /\ Phases /\ OpenIsBound /\ FirstErrorIsKept

\* run and main: nothing is torn down under a pipeline, nothing outlives the
\* command, and the answer is true.
CommandInv ==
  /\ CommandTypeOK /\ CommandProgress
  /\ PluginsOutlivePipelines /\ AllOrNoneRun /\ AnswerIsFirstError

=============================================================================
