--------------------------- MODULE MCEchoConsole ---------------------------
(* Model-checking instance of EchoConsole. *)
EXTENDS EchoConsole

CONSTANTS a, b

MCByte == {a, b}
=============================================================================
