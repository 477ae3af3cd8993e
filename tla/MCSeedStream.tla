---------------------------- MODULE MCSeedStream ----------------------------
(* SeedStream on a small instance: see the cfgs for the bounds.            *)
EXTENDS SeedStream
=============================================================================
