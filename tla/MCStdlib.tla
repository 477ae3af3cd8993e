------------------------------ MODULE MCStdlib ------------------------------
(***************************************************************************)
(* Three components of stdlib on small instances, side by side in one run: *)
(* the flow gates, a chain of transformers, and a file copied through      *)
(* Split and Joiner.  They share nothing but the end of the run, so an     *)
(* initial state picks the one that moves and the others rest.             *)
(***************************************************************************)
EXTENDS FlowGates, Stages, FileCopy

VARIABLE part   \* the component that moves

vars == <<part, runDone, gatesState, stagesState, copyState>>

T(k, n) == [kind |-> k, n |-> n]
MCChains ==
  {<<T("dedupe", 1), T("batch", 2)>>, <<T("dedupe", 0), T("uniq", 0)>>,
   <<T("filter", 0), T("count", 2)>>, <<T("tail", 1), T("head", 1)>>,
   <<T("sample", 2), T("assert", 0)>>, <<T("codec", 1), T("batch", 2)>>,
   <<T("wait", 0), T("codec", 0)>>}

D(options, s, i, g) == [given |-> options, sep |-> s, index |-> i, group |-> g]
MCDelims ==
  {D({"sep"}, <<"s", "s">>, 0, 1), D({"sep"}, <<"s", "s">>, 0, 2),
   D({"sep-byte"}, <<"s">>, 0, 0), D({"sep-byte-index"}, <<"s">>, 2, 2),
   D({"sep"}, <<>>, 0, 2), D({"sep", "sep-byte"}, <<"s">>, 0, 1), D({}, <<"s">>, 0, 1)}

\* The gates in the combinations that differ: bare errors, and a consumer that
\* is slow, deaf or done early, do not depend on the producer's pace.
GatesMove ==
  /\ part = "gates"
  /\ bare => temper = "prompt" /\ ~paced
  /\ temper # "prompt" => ~paced
GatesRest == stopAfter = 1 /\ ~paced /\ ~bare /\ temper = "prompt"
StagesRest == chain = <<T("wait", 0), T("codec", 0)>>
CopyRests == bytes = <<>> /\ ~follow /\ delim = D({"sep-byte"}, <<"s">>, 0, 0)

Init ==
  /\ GatesInit /\ StagesInit /\ CopyInit
  /\ \/ GatesMove /\ StagesRest /\ CopyRests
     \/ part = "stages" /\ GatesRest /\ CopyRests
     \/ part = "copy" /\ GatesRest /\ StagesRest

Next ==
  \/ part = "gates" /\ GatesNext /\ UNCHANGED <<part, stagesState, copyState>>
  \/ part = "stages" /\ StagesNext /\ UNCHANGED <<part, gatesState, copyState>>
  \/ part = "copy" /\ CopyNext /\ UNCHANGED <<part, gatesState, stagesState>>

\* The fairness of the gates, for the runs in which they move.
GatesFairness ==
  /\ WF_gateVars(part = "gates" /\ Tick)
  /\ WF_gateVars(part = "gates" /\ CTick)
  /\ WF_gateVars(part = "gates" /\ GateDue)
  /\ WF_gateVars(part = "gates" /\ EngineDue)
  /\ WF_gateVars(part = "gates" /\ InnerDue)
  /\ WF_gateVars(part = "gates" /\ CGateDue)
  /\ WF_gateVars(part = "gates" /\ FinishDue)
  /\ WF_gateVars(part = "gates" /\ ReturnDue)

Spec == Init /\ [][Next]_vars /\ GatesFairness
-----------------------------------------------------------------------------
\* flow.Producer: once the gate is left, for whichever reason, an inner
\* producer that selects on its context wherever it waits comes to its end.
InnerReleased == (part = "gates" /\ gate \in Ended /\ ~bare) ~> (inner = "returned")

\* flow.Consumer: when its input is closed the gate returns, and when the run
\* ends it does so even around a consumer that ignores its context.
ConsumerGateReturns ==
  (part = "gates" /\ (runDone \/ (recvClosed /\ Heeds))) ~> (cgate = "returned")
=============================================================================
