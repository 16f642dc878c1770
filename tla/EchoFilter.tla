---------------------------- MODULE EchoFilter ----------------------------
(***************************************************************************)
(* The TX echo suppression of main.c: a ring buffer of the bytes sent to   *)
(* the switch, filled by tx_echo_push (httpd task, inside cdc_send) and    *)
(* drained by filter_tx_echo (CDC driver task, inside cdc_rx_callback).    *)
(* Both hold tx_echo_mutex for the whole call and handle one byte per loop *)
(* iteration; a step of this module is one iteration.                      *)
(***************************************************************************)
EXTENDS Integers, Sequences

CONSTANTS Byte,               \* the bytes of the console line
          Nul,                \* the byte the static buffer is zeroed with
          TX_ECHO_BUF_SIZE    \* 512 in the code

ASSUME NulAssumption  == Nul \in Byte
ASSUME SizeAssumption == TX_ECHO_BUF_SIZE \in Nat \ {0}

VARIABLES tx_echo_buf, tx_echo_head, tx_echo_tail, tx_echo_count,
          tx_echo_mutex,      \* the call that holds the mutex, or "free"
          todo,               \* its bytes the loop has still to handle
          kept                \* buf[0..w) of filter_tx_echo

ring == <<tx_echo_buf, tx_echo_head, tx_echo_tail, tx_echo_count>>
echoVars == <<ring, tx_echo_mutex, todo, kept>>

Index == 0 .. TX_ECHO_BUF_SIZE - 1

NextIndex(i) == (i + 1) % TX_ECHO_BUF_SIZE

EchoInit ==
  /\ tx_echo_buf = [i \in Index |-> Nul]
  /\ tx_echo_head = 0 /\ tx_echo_tail = 0 /\ tx_echo_count = 0
  /\ tx_echo_mutex = "free"
  /\ todo = <<>> /\ kept = <<>>

-----------------------------------------------------------------------------
(* tx_echo_push                                                            *)

PushCall(data) ==
  /\ tx_echo_mutex = "free"
  /\ data # <<>>
  /\ tx_echo_mutex' = "push"
  /\ todo' = data
  /\ UNCHANGED <<ring, kept>>

\* Mutant: the full buffer is not checked, the oldest byte stays counted.
PushByteNoEvict ==
  /\ tx_echo_mutex = "push"
  /\ todo # <<>>
  /\ tx_echo_buf' = [tx_echo_buf EXCEPT ![tx_echo_tail] = Head(todo)]
  /\ tx_echo_tail' = NextIndex(tx_echo_tail)
  /\ tx_echo_count' = IF tx_echo_count = TX_ECHO_BUF_SIZE
                        THEN TX_ECHO_BUF_SIZE ELSE tx_echo_count + 1
  /\ todo' = Tail(todo)
  /\ UNCHANGED <<tx_echo_head, tx_echo_mutex, kept>>

\* One loop iteration: when the buffer is full its oldest byte makes room.
PushByte ==
  /\ tx_echo_mutex = "push"
  /\ todo # <<>>
  /\ \/ /\ tx_echo_count = TX_ECHO_BUF_SIZE
        /\ tx_echo_head' = NextIndex(tx_echo_head)
        /\ tx_echo_count' = tx_echo_count
     \/ /\ tx_echo_count # TX_ECHO_BUF_SIZE
        /\ tx_echo_head' = tx_echo_head
        /\ tx_echo_count' = tx_echo_count + 1
  /\ tx_echo_buf' = [tx_echo_buf EXCEPT ![tx_echo_tail] = Head(todo)]
  /\ tx_echo_tail' = NextIndex(tx_echo_tail)
  /\ todo' = Tail(todo)
  /\ UNCHANGED <<tx_echo_mutex, kept>>

-----------------------------------------------------------------------------
(* filter_tx_echo                                                          *)

FilterCall(buf) ==
  /\ tx_echo_mutex = "free"
  /\ buf # <<>>
  /\ tx_echo_mutex' = "filter"
  /\ todo' = buf
  /\ kept' = <<>>
  /\ UNCHANGED ring

\* Mutant: the slot at the read index is compared even in an empty ring.
IsEchoUncounted(b) == b = tx_echo_buf[tx_echo_head]

IsEcho(b) == tx_echo_count > 0 /\ b = tx_echo_buf[tx_echo_head]

DropEcho ==
  /\ tx_echo_mutex = "filter"
  /\ todo # <<>>
  /\ IsEcho(Head(todo))
  /\ tx_echo_head' = NextIndex(tx_echo_head)
  /\ tx_echo_count' = tx_echo_count - 1
  /\ todo' = Tail(todo)
  /\ UNCHANGED <<tx_echo_buf, tx_echo_tail, tx_echo_mutex, kept>>

\* Mutant: a byte that is no echo makes the filter forget what it waits for.
KeepByteForgets ==
  /\ tx_echo_mutex = "filter"
  /\ todo # <<>>
  /\ ~IsEcho(Head(todo))
  /\ kept' = Append(kept, Head(todo))
  /\ tx_echo_head' = tx_echo_tail
  /\ tx_echo_count' = 0
  /\ todo' = Tail(todo)
  /\ UNCHANGED <<tx_echo_buf, tx_echo_tail, tx_echo_mutex>>

KeepByte ==
  /\ tx_echo_mutex = "filter"
  /\ todo # <<>>
  /\ ~IsEcho(Head(todo))
  /\ kept' = Append(kept, Head(todo))
  /\ todo' = Tail(todo)
  /\ UNCHANGED <<ring, tx_echo_mutex>>

-----------------------------------------------------------------------------
\* The loop is over: xSemaphoreGive and return.
Return ==
  /\ tx_echo_mutex # "free"
  /\ todo = <<>>
  /\ tx_echo_mutex' = "free"
  /\ UNCHANGED <<ring, todo, kept>>

EchoNext ==
  \/ \E data \in Seq(Byte) : PushCall(data) \/ FilterCall(data)
  \/ PushByte \/ DropEcho \/ KeepByte \/ Return

EchoSpec == EchoInit /\ [][EchoNext]_echoVars

-----------------------------------------------------------------------------
EchoTypeOK ==
  /\ tx_echo_buf \in [Index -> Byte]
  /\ tx_echo_head \in Index
  /\ tx_echo_tail \in Index
  /\ tx_echo_count \in 0 .. TX_ECHO_BUF_SIZE
  /\ tx_echo_mutex \in {"free", "push", "filter"}
  /\ todo \in Seq(Byte)
  /\ kept \in Seq(Byte)

\* The ring is never torn: the write index is count slots after the read
\* index, so a full and an empty buffer (equal indices) are told apart.
RingCoherent ==
  tx_echo_tail = (tx_echo_head + tx_echo_count) % TX_ECHO_BUF_SIZE

\* The slot of the i-th oldest byte, i from 1.
Slot(i) ==
  IF tx_echo_head + i - 1 < TX_ECHO_BUF_SIZE
    THEN tx_echo_head + i - 1
    ELSE tx_echo_head + i - 1 - TX_ECHO_BUF_SIZE

\* The bytes in the ring, oldest first.
Pending == [i \in 1 .. tx_echo_count |-> tx_echo_buf[Slot(i)]]

Queue == INSTANCE EchoQueue
           WITH Capacity <- TX_ECHO_BUF_SIZE, pending <- Pending,
                call <- tx_echo_mutex

\* The head, tail and count arithmetic of the ring behaves like a bounded
\* FIFO: no byte is matched out of turn and eviction forgets the oldest only.
RefinesQueue == Queue!Spec
=============================================================================
