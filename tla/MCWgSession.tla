---------------------------- MODULE MCWgSession ----------------------------
(* WgSession on a small instance: the constants are in the .cfg files. *)
EXTENDS WgSession

=============================================================================
