----------------------------- MODULE MCReplayPage -----------------------------
(***************************************************************************)
(* ReplayPage on small instances.                                          *)
(***************************************************************************)
EXTENDS ReplayPage

=============================================================================
