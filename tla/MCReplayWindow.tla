-------------------------- MODULE MCReplayWindow --------------------------
(* Model-checking instance of ReplayWindow. *)
EXTENDS ReplayWindow
=============================================================================
