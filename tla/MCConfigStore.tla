---------------------------- MODULE MCConfigStore ----------------------------
(* ConfigStore on a small instance: a key of each kind that is corrected in its own way. *)
EXTENDS ConfigStore

MCOrder  == <<"baud", "ap_pass", "wg_lclip", "wg_ka">>
MCPosted == [baud     |-> <<500, 115200>>,
             ap_pass  |-> <<"", "short", "a long passphrase">>,
             wg_lclip |-> <<"">>,
             wg_ka    |-> <<256, 60>>]
=============================================================================
