---------------------------- MODULE MCNetManager ----------------------------
(* NetManager on a small instance: the constants are in the .cfg files. *)
EXTENDS NetManager

FaultsOrRequests == {<<2, 0>>, <<0, 2>>}
OneFault         == {<<1, 0>>}
OneRequest       == {<<0, 1>>}
Undisturbed      == {<<0, 0>>}
=============================================================================
