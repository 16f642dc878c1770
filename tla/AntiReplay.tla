---------------------------- MODULE AntiReplay ----------------------------
(***************************************************************************)
(* What a replay window promises, without its bitmap: a packet counter is  *)
(* accepted at most once, and refused only if it was accepted before, lies *)
(* a whole window or more behind the newest one, or is the counter that    *)
(* cannot be numbered.  ReplayWindow refines this.                         *)
(***************************************************************************)
EXTENDS Integers

CONSTANTS Counters,    \* the counters packets may carry
          Window,      \* the size of the window
          Unnumbered   \* the one counter that is never accepted

VARIABLES seen,        \* counters accepted so far
          last         \* the last packet and its verdict

vars == <<seen, last>>

Init == seen = {} /\ last = [counter |-> Unnumbered, ok |-> FALSE]

TooOld(n) == \E m \in seen : m >= n + Window

Accept(n) ==
  /\ n # Unnumbered
  /\ n \notin seen
  /\ ~TooOld(n)
  /\ seen' = seen \union {n}
  /\ last' = [counter |-> n, ok |-> TRUE]

Refuse(n) ==
  /\ n = Unnumbered \/ n \in seen \/ TooOld(n)
  /\ seen' = seen
  /\ last' = [counter |-> n, ok |-> FALSE]

Next == \E n \in Counters : Accept(n) \/ Refuse(n)

Spec == Init /\ [][Next]_vars
=============================================================================
