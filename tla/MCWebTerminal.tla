---------------------------- MODULE MCWebTerminal ----------------------------
EXTENDS WebTerminal
=============================================================================
