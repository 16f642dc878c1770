--------------------------- MODULE KeyAgreement ---------------------------
(***************************************************************************)
(* What the handshake promises for every session key, without slots,       *)
(* indices, clocks or lost messages: the responder offers a key once, the  *)
(* initiator is the first to seal data under it, and the responder seals   *)
(* data only when the initiator has.  WgSession refines this.              *)
(***************************************************************************)
CONSTANT Keys

VARIABLES offered,   \* keys a responder has answered an initiation with
          opened,    \* keys their initiator has sealed data under
          answered   \* keys their responder has sealed data under

vars == <<offered, opened, answered>>

Init == offered = {} /\ opened = {} /\ answered = {}

Offer(k) ==
  /\ k \notin offered
  /\ offered' = offered \union {k}
  /\ UNCHANGED <<opened, answered>>

Open(k) ==
  /\ k \in offered \ opened
  /\ opened' = opened \union {k}
  /\ UNCHANGED <<offered, answered>>

Answer(k) ==
  /\ k \in opened \ answered
  /\ answered' = answered \union {k}
  /\ UNCHANGED <<offered, opened>>

Next == \E k \in Keys : Offer(k) \/ Open(k) \/ Answer(k)

Spec == Init /\ [][Next]_vars
=============================================================================
