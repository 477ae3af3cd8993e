----------------------------- MODULE RunContext -----------------------------
(***************************************************************************)
(* The context of one pipeline run (core/run.go): ctx, derived from the    *)
(* caller's context and ended by cancel(), by the first reported error     *)
(* under exit-on-error, or by the caller.  Once done it stays done, and    *)
(* every context derived from it is done with it.                          *)
(***************************************************************************)

VARIABLE runDone    \* has the run's context ended?

\* cancel(), or the end of the caller's context.
EndRun == runDone' = TRUE
=============================================================================
