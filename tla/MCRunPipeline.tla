--------------------------- MODULE MCRunPipeline ---------------------------
(* RunPipeline on a small instance: see the cfgs for the bounds.           *)
EXTENDS RunPipeline

CONSTANT p1

OneProducer == {p1}
MCMessage == {r \in Result : r.kind = "msg"}

\* With and without a transformer; with and without exit-on-error.
FailFast == [transformer : BOOLEAN, exitOnError : {TRUE}]
Direct == [transformer : {FALSE}, exitOnError : BOOLEAN]
MCPipelines == FailFast \cup Direct
=============================================================================
