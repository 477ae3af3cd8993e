------------------------------- MODULE MCSink -------------------------------
(* Sink on a small instance: see the cfgs for the bounds.                  *)
EXTENDS Sink

CONSTANTS a, b
MCMessage == {a, b}
=============================================================================
