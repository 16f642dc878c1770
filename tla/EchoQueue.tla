----------------------------- MODULE EchoQueue -----------------------------
(***************************************************************************)
(* What the TX echo filter promises, without its ring buffer: a FIFO of    *)
(* the bytes sent to the switch whose echo has not been seen yet.  A byte  *)
(* received is dropped exactly when it is the oldest of them, and when the *)
(* FIFO is full the oldest byte is forgotten.  EchoFilter refines this.    *)
(***************************************************************************)
EXTENDS Integers, Sequences

CONSTANTS Byte,       \* the bytes of the console line
          Capacity    \* how many unanswered bytes are remembered

VARIABLES pending,    \* bytes sent whose echo is awaited, oldest first
          call,       \* who is inside: "push", "filter" or nobody, "free"
          todo,       \* bytes the call in progress has still to handle
          kept        \* bytes the last filter call let through

vars == <<pending, call, todo, kept>>

Init == pending = <<>> /\ call = "free" /\ todo = <<>> /\ kept = <<>>

\* A call of the sender or of the receiver; one at a time.
Begin ==
  /\ call = "free"
  /\ call' \in {"push", "filter"}
  /\ todo' \in Seq(Byte)
  /\ kept' = IF call' = "filter" THEN <<>> ELSE kept
  /\ pending' = pending

\* The sender is about to send one more byte.
Remember ==
  /\ call = "push"
  /\ todo # <<>>
  /\ pending' = IF Len(pending) = Capacity
                  THEN Append(Tail(pending), Head(todo))
                  ELSE Append(pending, Head(todo))
  /\ todo' = Tail(todo)
  /\ UNCHANGED <<call, kept>>

\* A received byte is the echo the filter waits for.
Drop ==
  /\ call = "filter"
  /\ todo # <<>>
  /\ pending # <<>>
  /\ Head(todo) = Head(pending)
  /\ pending' = Tail(pending)
  /\ todo' = Tail(todo)
  /\ UNCHANGED <<call, kept>>

\* Any other received byte goes to the browsers.
Pass ==
  /\ call = "filter"
  /\ todo # <<>>
  /\ pending # <<>> => Head(todo) # Head(pending)
  /\ kept' = Append(kept, Head(todo))
  /\ todo' = Tail(todo)
  /\ UNCHANGED <<pending, call>>

End ==
  /\ call # "free"
  /\ todo = <<>>
  /\ call' = "free"
  /\ UNCHANGED <<pending, todo, kept>>

Next == Begin \/ Remember \/ Drop \/ Pass \/ End

Spec == Init /\ [][Next]_vars
=============================================================================
