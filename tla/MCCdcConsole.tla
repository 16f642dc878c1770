---------------------------- MODULE MCCdcConsole ----------------------------
(* CdcConsole on a small instance: the constants are in the .cfg files. *)
EXTENDS CdcConsole

=============================================================================
