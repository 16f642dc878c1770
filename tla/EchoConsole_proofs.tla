------------------------- MODULE EchoConsole_proofs -------------------------
(***************************************************************************)
(* The ring of the echo filter is coherent and behaves like the FIFO of    *)
(* EchoQueue, by itself and between sender, switch and callback; every     *)
(* byte lost on the way is accounted for, and when none is, exactly the    *)
(* echoes are taken out; for every buffer size, alphabet and number of     *)
(* bytes.                                                                  *)
(***************************************************************************)
EXTENDS EchoConsole, TLAPS, FiniteSetTheorems, SequenceTheorems

\* The modulo of the code, for the sums it is ever applied to.
Wrap(n) == IF n < TX_ECHO_BUF_SIZE THEN n ELSE n - TX_ECHO_BUF_SIZE

\* NEXT_INDEX of main.c is addition in the ring.
LEMMA NextIndexWraps ==
  ASSUME NEW i \in Index
  PROVE  NextIndex(i) = Wrap(i + 1) /\ NextIndex(i) \in Index
  BY SizeAssumption DEF Index, NextIndex, Wrap

\* The modulus of the code is a single subtraction for the sums that occur.
LEMMA SumWraps ==
  ASSUME NEW h \in Index, NEW c \in 0 .. TX_ECHO_BUF_SIZE
  PROVE  (h + c) % TX_ECHO_BUF_SIZE = Wrap(h + c)
  BY SizeAssumption DEF Index, Wrap

-----------------------------------------------------------------------------
(* The inductive invariant: types, and the write index count slots ahead   *)
(* of the read index.                                                      *)

RingInv == EchoTypeOK /\ RingCoherent

\* The ring starts empty and coherent.
LEMMA RingInvInit == EchoInit => RingInv
<1> SUFFICES ASSUME EchoInit PROVE RingInv
  OBVIOUS
<1>1. EchoTypeOK
  BY NulAssumption, SizeAssumption DEF EchoInit, EchoTypeOK, Index
<1>2. RingCoherent
  <2>1. 0 \in Index /\ 0 \in 0 .. TX_ECHO_BUF_SIZE
    BY SizeAssumption DEF Index
  <2> QED BY <2>1, SumWraps, SizeAssumption DEF EchoInit, RingCoherent, Wrap, Index
<1> QED BY <1>1, <1>2 DEF RingInv

\* Every loop iteration of the echo functions keeps indices and count in step.
LEMMA RingInvStep == RingInv /\ [EchoNext]_echoVars => RingInv'
<1> SUFFICES ASSUME RingInv, [EchoNext]_echoVars PROVE RingInv'
  OBVIOUS
<1> USE DEF RingInv
<1>1. ASSUME NEW data \in Seq(Byte), PushCall(data) PROVE RingInv'
  BY <1>1 DEF PushCall, ring, EchoTypeOK, RingCoherent, Index
<1>2. ASSUME NEW data \in Seq(Byte), FilterCall(data) PROVE RingInv'
  BY <1>2 DEF FilterCall, ring, EchoTypeOK, RingCoherent, Index
<1>3. CASE PushByte
  <2>1. Head(todo) \in Byte /\ Tail(todo) \in Seq(Byte)
    BY <1>3 DEF PushByte, EchoTypeOK
  <2>2. EchoTypeOK'
    BY <1>3, <2>1, NextIndexWraps, SizeAssumption DEF PushByte, EchoTypeOK
  <2>3. RingCoherent'
    <3>1. tx_echo_tail = Wrap(tx_echo_head + tx_echo_count)
      BY SumWraps DEF RingCoherent, EchoTypeOK
    <3>2. (tx_echo_head' + tx_echo_count') % TX_ECHO_BUF_SIZE
            = Wrap(tx_echo_head' + tx_echo_count')
      BY <2>2, SumWraps DEF EchoTypeOK
    <3>3. tx_echo_tail' = Wrap(tx_echo_tail + 1)
      BY <1>3, NextIndexWraps DEF PushByte, EchoTypeOK
    <3>4. CASE tx_echo_count = TX_ECHO_BUF_SIZE
      <4>1. tx_echo_head' = Wrap(tx_echo_head + 1) /\ tx_echo_count' = tx_echo_count
        BY <1>3, <3>4, NextIndexWraps DEF PushByte, EchoTypeOK
      <4>2. Wrap(tx_echo_tail + 1) = Wrap(tx_echo_head' + tx_echo_count')
        BY <3>1, <3>4, <4>1, SizeAssumption DEF Wrap, EchoTypeOK, Index
      <4> QED BY <3>2, <3>3, <4>2 DEF RingCoherent
    <3>5. CASE tx_echo_count # TX_ECHO_BUF_SIZE
      <4>1. tx_echo_head' = tx_echo_head /\ tx_echo_count' = tx_echo_count + 1
        BY <1>3, <3>5 DEF PushByte
      <4>2. Wrap(tx_echo_tail + 1) = Wrap(tx_echo_head' + tx_echo_count')
        BY <3>1, <3>5, <4>1, SizeAssumption DEF Wrap, EchoTypeOK, Index
      <4> QED BY <3>2, <3>3, <4>2 DEF RingCoherent
    <3> QED BY <3>4, <3>5
  <2> QED BY <2>2, <2>3
<1>4. CASE DropEcho
  <2>1. Tail(todo) \in Seq(Byte)
    BY <1>4 DEF DropEcho, EchoTypeOK
  <2>2. EchoTypeOK'
    BY <1>4, <2>1, NextIndexWraps, SizeAssumption DEF DropEcho, IsEcho, EchoTypeOK
  <2>3. RingCoherent'
    <3>1. tx_echo_tail = Wrap(tx_echo_head + tx_echo_count)
      BY SumWraps DEF RingCoherent, EchoTypeOK
    <3>2. (tx_echo_head' + tx_echo_count') % TX_ECHO_BUF_SIZE
            = Wrap(tx_echo_head' + tx_echo_count')
      BY <2>2, SumWraps DEF EchoTypeOK
    <3>3. /\ tx_echo_tail' = tx_echo_tail
          /\ tx_echo_head' = Wrap(tx_echo_head + 1)
          /\ tx_echo_count' = tx_echo_count - 1
          /\ tx_echo_count > 0
      BY <1>4, NextIndexWraps DEF DropEcho, IsEcho, EchoTypeOK
    <3>4. Wrap(tx_echo_head + tx_echo_count) = Wrap(tx_echo_head' + tx_echo_count')
      BY <3>3, SizeAssumption DEF Wrap, EchoTypeOK, Index
    <3> QED BY <3>1, <3>2, <3>3, <3>4 DEF RingCoherent
  <2> QED BY <2>2, <2>3
<1>5. CASE KeepByte
  <2>1. Tail(todo) \in Seq(Byte) /\ Append(kept, Head(todo)) \in Seq(Byte)
    BY <1>5 DEF KeepByte, EchoTypeOK
  <2> QED BY <1>5, <2>1 DEF KeepByte, ring, EchoTypeOK, RingCoherent, Index
<1>6. CASE Return
  BY <1>6 DEF Return, ring, EchoTypeOK, RingCoherent, Index
<1>7. CASE UNCHANGED echoVars
  BY <1>7 DEF echoVars, ring, EchoTypeOK, RingCoherent, Index
<1> QED BY <1>1, <1>2, <1>3, <1>4, <1>5, <1>6, <1>7 DEF EchoNext

\* The indices, the count and the bytes in flight keep their types.
THEOREM EchoTypeCorrect == EchoSpec => []EchoTypeOK
<1>1. RingInv => EchoTypeOK
  BY DEF RingInv
<1> QED BY <1>1, RingInvInit, RingInvStep, PTL DEF EchoSpec

\* The read index, the write index and the count always agree, however the
\* calls of the two tasks alternate and however often the ring overflows.
THEOREM RingNeverTorn == EchoSpec => []RingCoherent
<1>1. RingInv => RingCoherent
  BY DEF RingInv
<1> QED BY <1>1, RingInvInit, RingInvStep, PTL DEF EchoSpec

-----------------------------------------------------------------------------
(* Refinement of the FIFO                                                  *)

\* The remembered bytes form a sequence of the length the counter says.
LEMMA PendingFacts ==
  ASSUME RingInv
  PROVE  /\ Pending \in Seq(Byte)
         /\ Len(Pending) = tx_echo_count
         /\ DOMAIN Pending = 1 .. tx_echo_count
         /\ \A i \in 1 .. tx_echo_count :
              Slot(i) \in Index /\ Pending[i] = tx_echo_buf[Slot(i)]
<1>1. \A i \in 1 .. tx_echo_count : Slot(i) \in Index
  BY SizeAssumption DEF RingInv, EchoTypeOK, Slot, Index
<1>2. tx_echo_count \in Nat
  BY DEF RingInv, EchoTypeOK
<1>3. \A i \in 1 .. tx_echo_count : tx_echo_buf[Slot(i)] \in Byte
  BY <1>1 DEF RingInv, EchoTypeOK
<1> QED BY <1>1, <1>2, <1>3 DEF Pending

\* The part of PendingFacts that is wanted of the next state too.
PendingTyped ==
  /\ Pending \in Seq(Byte)
  /\ Len(Pending) = tx_echo_count
  /\ \A i \in 1 .. tx_echo_count : Slot(i) \in Index

\* ... of bytes.
LEMMA RingInvPending == RingInv => PendingTyped
  BY PendingFacts DEF PendingTyped

\* What leaves the ring alone leaves the remembered bytes alone.
LEMMA PendingUnchanged ==
  ASSUME UNCHANGED ring
  PROVE  Pending' = Pending
BY DEF ring, Pending, Slot

\* Two sequences of the same length that agree everywhere are equal.
LEMMA SeqEquality ==
  ASSUME NEW S, NEW s \in Seq(S), NEW t \in Seq(S), Len(s) = Len(t),
         \A i \in 1 .. Len(s) : s[i] = t[i]
  PROVE  s = t
<1>1. s \in [1 .. Len(s) -> S] /\ t \in [1 .. Len(s) -> S]
  OBVIOUS
<1> QED BY <1>1

\* tx_echo_push: a byte is appended, the oldest forgotten if the ring was full.
LEMMA PushRefines ==
  ASSUME RingInv, RingInv', PushByte
  PROVE  Queue!Remember
<1>0. EchoTypeOK /\ RingCoherent
  BY DEF RingInv
<1>1. Head(todo) \in Byte /\ todo # <<>> /\ tx_echo_mutex = "push"
  BY <1>0 DEF PushByte, EchoTypeOK
<1>2. Pending \in Seq(Byte) /\ Len(Pending) = tx_echo_count
  BY PendingFacts
<1>3. PendingTyped'
  BY RingInvPending, PTL
<1>4. tx_echo_tail = Wrap(tx_echo_head + tx_echo_count)
  BY <1>0, SumWraps DEF RingCoherent, EchoTypeOK
<1>5. CASE tx_echo_count = TX_ECHO_BUF_SIZE
  <2> DEFINE new == Append(Tail(Pending), Head(todo))
  <2>1. new \in Seq(Byte) /\ Len(new) = tx_echo_count
    BY <1>1, <1>2, <1>5, SizeAssumption
  <2>2. tx_echo_count' = tx_echo_count /\ tx_echo_head' = Wrap(tx_echo_head + 1)
    BY <1>0, <1>5, NextIndexWraps DEF PushByte, EchoTypeOK
  <2>3. ASSUME NEW i \in 1 .. tx_echo_count PROVE Pending'[i] = new[i]
    <3>1. Pending'[i] = tx_echo_buf'[Slot(i)'] /\ Slot(i)' \in Index
      BY <1>3, <2>2 DEF Pending, PendingTyped
    <3>2. CASE i = tx_echo_count
      <4>1. Slot(i)' = tx_echo_tail
        BY <1>0, <1>4, <1>5, <2>2, <3>2, SizeAssumption DEF Slot, Wrap, EchoTypeOK, Index
      <4>2. new[i] = Head(todo)
        BY <1>1, <1>2, <1>5, <3>2, SizeAssumption
      <4> QED BY <1>0, <3>1, <4>1, <4>2 DEF PushByte, EchoTypeOK
    <3>3. CASE i # tx_echo_count
      <4>1. Slot(i)' = Slot(i + 1) /\ Slot(i)' # tx_echo_tail
        BY <1>0, <1>4, <1>5, <2>2, <3>3, SizeAssumption DEF Slot, Wrap, EchoTypeOK, Index
      <4>2. new[i] = Pending[i + 1]
        BY <1>1, <1>2, <1>5, <3>3, SizeAssumption
      <4>3. Pending[i + 1] = tx_echo_buf[Slot(i + 1)]
        BY <1>5, <3>3, PendingFacts, SizeAssumption
      <4> QED BY <1>0, <3>1, <4>1, <4>2, <4>3 DEF PushByte, EchoTypeOK
    <3> QED BY <3>2, <3>3
  <2>4. Pending' = new
    BY <1>3, <2>1, <2>2, <2>3, SeqEquality DEF PendingTyped
  <2> QED BY <1>1, <1>2, <1>5, <2>4 DEF Queue!Remember, PushByte
<1>6. CASE tx_echo_count # TX_ECHO_BUF_SIZE
  <2> DEFINE new == Append(Pending, Head(todo))
  <2>1. new \in Seq(Byte) /\ Len(new) = tx_echo_count + 1
    BY <1>1, <1>2
  <2>2. tx_echo_count' = tx_echo_count + 1 /\ tx_echo_head' = tx_echo_head
    BY <1>6 DEF PushByte
  <2>3. ASSUME NEW i \in 1 .. tx_echo_count' PROVE Pending'[i] = new[i]
    <3>1. Pending'[i] = tx_echo_buf'[Slot(i)'] /\ Slot(i)' = Slot(i)
      BY <2>2 DEF Pending, Slot
    <3>2. CASE i = tx_echo_count + 1
      <4>1. Slot(i) = tx_echo_tail
        BY <1>0, <1>4, <3>2, SizeAssumption DEF Slot, Wrap, EchoTypeOK, Index
      <4>2. new[i] = Head(todo)
        BY <1>2, <3>2
      <4> QED BY <1>0, <3>1, <4>1, <4>2 DEF PushByte, EchoTypeOK
    <3>3. CASE i # tx_echo_count + 1
      <4>1. i \in 1 .. tx_echo_count /\ Slot(i) \in Index /\ Slot(i) # tx_echo_tail
        BY <1>0, <1>4, <1>6, <2>2, <3>3, SizeAssumption DEF Slot, Wrap, EchoTypeOK, Index
      <4>2. new[i] = Pending[i] /\ Pending[i] = tx_echo_buf[Slot(i)]
        BY <1>2, <4>1, PendingFacts
      <4> QED BY <1>0, <3>1, <4>1, <4>2 DEF PushByte, EchoTypeOK
    <3> QED BY <3>2, <3>3
  <2>4. Pending' = new
    BY <1>3, <2>1, <2>2, <2>3, SeqEquality DEF PendingTyped
  <2> QED BY <1>1, <1>2, <1>6, <2>4 DEF Queue!Remember, PushByte
<1> QED BY <1>5, <1>6

\* filter_tx_echo, match: the oldest remembered byte goes.
LEMMA DropRefines ==
  ASSUME RingInv, RingInv', DropEcho
  PROVE  Queue!Drop
<1>0. EchoTypeOK /\ RingCoherent
  BY DEF RingInv
<1>1. Pending \in Seq(Byte) /\ Len(Pending) = tx_echo_count /\ tx_echo_count > 0
  BY PendingFacts DEF DropEcho, IsEcho
<1>2. PendingTyped'
  BY RingInvPending, PTL
<1>3. Pending # <<>> /\ Head(Pending) = tx_echo_buf[tx_echo_head]
  <2>1. Slot(1) = tx_echo_head
    BY <1>0, SizeAssumption DEF Slot, EchoTypeOK, Index
  <2>2. Pending[1] = tx_echo_buf[Slot(1)]
    BY <1>0, <1>1, PendingFacts DEF EchoTypeOK
  <2> QED BY <1>1, <2>1, <2>2
<1>4. tx_echo_count' = tx_echo_count - 1 /\ tx_echo_head' = Wrap(tx_echo_head + 1)
      /\ tx_echo_buf' = tx_echo_buf
  BY <1>0, NextIndexWraps DEF DropEcho, EchoTypeOK
<1>5. ASSUME NEW i \in 1 .. tx_echo_count' PROVE Pending'[i] = Tail(Pending)[i]
  <2>1. Pending'[i] = tx_echo_buf[Slot(i)']
    BY <1>4 DEF Pending, Slot
  <2>2. Slot(i)' = Slot(i + 1)
    BY <1>0, <1>4, SizeAssumption DEF Slot, Wrap, EchoTypeOK, Index
  <2>3. Tail(Pending)[i] = Pending[i + 1]
    BY <1>1, <1>4
  <2>4. Pending[i + 1] = tx_echo_buf[Slot(i + 1)]
    <3>1. i + 1 \in 1 .. tx_echo_count
      BY <1>0, <1>1, <1>4 DEF EchoTypeOK
    <3> QED BY <3>1, PendingFacts
  <2> QED BY <2>1, <2>2, <2>3, <2>4
<1>6. Tail(Pending) \in Seq(Byte) /\ Len(Tail(Pending)) = tx_echo_count'
  BY <1>1, <1>3, <1>4
<1>7. Pending' = Tail(Pending)
  BY <1>2, <1>5, <1>6, SeqEquality DEF PendingTyped
<1> QED BY <1>3, <1>7 DEF Queue!Drop, DropEcho, IsEcho

\* filter_tx_echo, no match: the byte passes, nothing is forgotten.
LEMMA KeepRefines ==
  ASSUME RingInv, KeepByte
  PROVE  Queue!Pass
<1>1. Pending' = Pending
  BY PendingUnchanged DEF KeepByte
<1>2. Pending # <<>> => Head(Pending) = tx_echo_buf[tx_echo_head] /\ tx_echo_count > 0
  <2> SUFFICES ASSUME Pending # <<>>
               PROVE  Head(Pending) = tx_echo_buf[tx_echo_head] /\ tx_echo_count > 0
    OBVIOUS
  <2>1. Pending \in Seq(Byte) /\ Len(Pending) = tx_echo_count
    BY PendingFacts
  <2>2. tx_echo_count > 0
    BY <2>1 DEF RingInv, EchoTypeOK
  <2>3. Slot(1) = tx_echo_head
    BY SizeAssumption DEF Slot, RingInv, EchoTypeOK, Index
  <2>4. Pending[1] = tx_echo_buf[Slot(1)]
    BY <2>2, PendingFacts DEF RingInv, EchoTypeOK
  <2> QED BY <2>1, <2>2, <2>3, <2>4
<1> QED BY <1>1, <1>2 DEF Queue!Pass, KeepByte, IsEcho

\* Every step of the ring is a step of the abstract queue or none.
LEMMA StepRefines ==
  RingInv /\ RingInv' /\ [EchoNext]_echoVars => [Queue!Next]_(Queue!vars)
<1> SUFFICES ASSUME RingInv, RingInv', [EchoNext]_echoVars
             PROVE  [Queue!Next]_(Queue!vars)
  OBVIOUS
<1>1. ASSUME NEW data \in Seq(Byte), PushCall(data) PROVE Queue!Begin
  BY <1>1, PendingUnchanged DEF PushCall, Queue!Begin
<1>2. ASSUME NEW data \in Seq(Byte), FilterCall(data) PROVE Queue!Begin
  BY <1>2, PendingUnchanged DEF FilterCall, Queue!Begin
<1>3. CASE PushByte
  BY <1>3, PushRefines DEF Queue!Next
<1>4. CASE DropEcho
  BY <1>4, DropRefines DEF Queue!Next
<1>5. CASE KeepByte
  BY <1>5, KeepRefines DEF Queue!Next
<1>6. CASE Return
  BY <1>6, PendingUnchanged DEF Return, Queue!Next, Queue!End
<1>7. CASE UNCHANGED echoVars
  BY <1>7, PendingUnchanged DEF echoVars, Queue!vars
<1> QED BY <1>1, <1>2, <1>3, <1>4, <1>5, <1>6, <1>7 DEF EchoNext, Queue!Next

\* Every behaviour of the ring buffer is one of the bounded FIFO: bytes are
\* matched and forgotten strictly oldest first, for every buffer size.
THEOREM RingRefinesQueue == EchoSpec => RefinesQueue
<1>1. EchoInit => Queue!Init
  BY DEF EchoInit, Queue!Init, Pending
<1>2. RingInv /\ RingInv' /\ [EchoNext]_echoVars => [Queue!Next]_(Queue!vars)
  BY StepRefines
<1> QED BY <1>1, <1>2, RingInvInit, RingInvStep, PTL DEF EchoSpec, RefinesQueue, Queue!Spec

-----------------------------------------------------------------------------
(* The filter at work (EchoConsole): every byte has one place.             *)

\* What a call in progress has still to push, and what it has to filter or has let through.
ToPush   == IF tx_echo_mutex = "push" THEN Len(todo) ELSE 0
InFilter == IF tx_echo_mutex = "filter" THEN Len(todo) + Len(kept) ELSE 0

\* Remembered bytes whose echo is not on its way back: not sent, not answered, or never echoed.
Unanswered == (Len(line) + unechoed) + (Len(sending) - ToPush)

\* Bytes on their way to the browsers.
OnWay == Len(rx) + InFilter

\* How much the filter has let through, whether or not the web server took it.
Through == shown + dropped

\* Own output the filter has not let through is on its way, or was taken for an echo that is
\* still on its way or never comes.
Balance == printed - Through = (OnWay + Unanswered) - (tx_echo_count + evicted)

\* No byte is lost twice.
LostOnce ==
  /\ unechoed + Len(line) + Len(sending) <= sent
  /\ evicted + ToPush <= sent

Places ==
  /\ sending \in Seq(Byte) /\ line \in Seq(Byte) /\ rx \in Seq([byte : Byte, echo : BOOLEAN])
  /\ printed \in 0 .. MaxOwn /\ shown \in Nat /\ dropped \in Nat
  /\ sent \in 0 .. MaxSent /\ unechoed \in Nat /\ evicted \in Nat

Bags ==
  /\ IsABag(own) /\ BagToSet(own) \subseteq Byte
  /\ IsABag(screen) /\ BagToSet(screen) \subseteq Byte
  /\ IsABag(refused) /\ BagToSet(refused) \subseteq Byte

\* A call takes at least one byte and no more than the bound.
LEMMA ChunkFacts ==
  ASSUME NEW data \in Chunks
  PROVE  data \in Seq(Byte) /\ Len(data) \in Nat
<1>1. MaxChunk \in Nat
  BY BoundsAssumption
<1>2. PICK m \in 0 .. MaxChunk : data \in [1 .. m -> Byte]
  BY DEF Chunks, BoundedSeq, SeqOf
<1> QED
  BY <1>1, <1>2

\* What the callback is given are bytes.
LEMMA ReceivedBytes ==
  ASSUME rx \in Seq([byte : Byte, echo : BOOLEAN]), NEW n \in Nat, n <= Len(rx)
  PROVE  /\ [i \in 1 .. n |-> rx[i].byte] \in Seq(Byte)
         /\ Len([i \in 1 .. n |-> rx[i].byte]) = n
<1>1. ASSUME NEW i \in 1 .. n PROVE rx[i].byte \in Byte
  <2> DEFINE T == [byte : Byte, echo : BOOLEAN]
  <2>1. Len(rx) \in Nat /\ i \in 1 .. Len(rx) /\ rx \in Seq(T)
    OBVIOUS
  <2> HIDE DEF T
  <2>2. rx[i] \in T
    BY <2>1
  <2> QED
    BY <2>2 DEF T
<1>2. [i \in 1 .. n |-> rx[i].byte] \in [1 .. n -> Byte]
  BY <1>1
<1> QED
  BY <1>2

\* What a sequence holds, as a bag.
LEMMA BagOfSequence ==
  ASSUME NEW s \in Seq(Byte)
  PROVE  IsABag(ToBag(s)) /\ BagToSet(ToBag(s)) \subseteq Byte
<1>1. DOMAIN ToBag(s) \subseteq Byte
  BY DEF ToBag, Range
<1>2. ASSUME NEW x \in Range(s) PROVE Cardinality({i \in DOMAIN s : s[i] = x}) \in {n \in Nat : n > 0}
  <2> DEFINE at == {i \in DOMAIN s : s[i] = x}
  <2>1. IsFiniteSet(1 .. Len(s))
    BY FS_Interval
  <2>2. IsFiniteSet(at)
    BY <2>1, FS_Subset
  <2>3. at # {}
    BY DEF Range
  <2> HIDE DEF at
  <2>4. Cardinality(at) \in Nat /\ Cardinality(at) # 0
    BY <2>2, <2>3, FS_CardinalityType, FS_EmptySet
  <2> QED
    BY <2>4 DEF at
<1> QED
  BY <1>1, <1>2 DEF ToBag, IsABag, BagToSet

\* The steps of the console are steps of the ring or leave it alone.
LEMMA StepOfRing == Places /\ [Next]_vars => [EchoNext]_echoVars
<1> SUFFICES ASSUME Places, Next PROVE [EchoNext]_echoVars
  BY DEF vars
<1>1. ASSUME NEW data \in Chunks, CdcSend(data) PROVE EchoNext
  BY <1>1, ChunkFacts DEF CdcSend, EchoNext
<1>2. ASSUME NEW n \in 1 .. MaxChunk, RxCallback(n) PROVE EchoNext
  <2>1. n \in Nat
    BY BoundsAssumption
  <2>2. [i \in 1 .. n |-> rx[i].byte] \in Seq(Byte)
    BY <1>2, <2>1, ReceivedBytes DEF RxCallback, Places
  <2> QED
    BY <1>2, <2>2 DEF RxCallback, EchoNext
<1>3. CASE Push \/ PushReturn \/ Filter \/ RxReturn
  BY <1>3 DEF Push, PushReturn, Filter, RxReturn, EchoNext
<1>4. CASE Transmit \/ SwitchEcho \/ SwitchSilent \/ \E b \in Byte : SwitchPrint(b)
  BY <1>4 DEF Transmit, SwitchEcho, SwitchSilent, SwitchPrint
<1> QED
  BY <1>1, <1>2, <1>3, <1>4 DEF Next

ConsoleInv == RingInv /\ Places /\ LostOnce /\ Balance /\ Bags

\* What a filter call finds, with the lengths in Nat.
LEMMA LengthsAreNat ==
  ASSUME RingInv, Places
  PROVE  /\ Len(todo) \in Nat /\ Len(kept) \in Nat /\ tx_echo_count \in Nat
         /\ Len(rx) \in Nat /\ Len(line) \in Nat /\ Len(sending) \in Nat
         /\ todo # <<>> => Tail(todo) \in Seq(Byte) /\ Len(Tail(todo)) = Len(todo) - 1
         /\ printed \in Nat /\ Through \in Nat /\ sent \in Nat /\ unechoed \in Nat /\ evicted \in Nat
         /\ ToPush \in Nat /\ InFilter \in Nat /\ OnWay \in Nat /\ Unanswered \in Int
<1>1. Len(todo) \in Nat /\ Len(kept) \in Nat
  BY DEF RingInv, EchoTypeOK
<1>2. /\ tx_echo_count \in Nat /\ Len(rx) \in Nat /\ Len(line) \in Nat /\ Len(sending) \in Nat
      /\ printed \in Nat /\ Through \in Nat /\ sent \in Nat /\ unechoed \in Nat /\ evicted \in Nat
  BY BoundsAssumption DEF RingInv, EchoTypeOK, Places, Through
<1>3. ToPush \in Nat /\ InFilter \in Nat
  BY <1>1 DEF ToPush, InFilter
<1>4. OnWay \in Nat /\ Unanswered \in Int
  BY <1>2, <1>3 DEF OnWay, Unanswered
<1>5. todo # <<>> => Tail(todo) \in Seq(Byte) /\ Len(Tail(todo)) = Len(todo) - 1
  BY DEF RingInv, EchoTypeOK
<1> QED
  BY <1>1, <1>2, <1>3, <1>4, <1>5

\* The numbers among them.
LEMMA NumbersAreInt ==
  ASSUME ConsoleInv
  PROVE  /\ Len(line) \in Int /\ Len(sending) \in Int /\ Len(rx) \in Int
         /\ ToPush \in Int /\ InFilter \in Int /\ OnWay \in Int /\ Unanswered \in Int
         /\ unechoed \in Int /\ evicted \in Int /\ sent \in Int /\ tx_echo_count \in Int
         /\ printed \in Int /\ Through \in Int
BY LengthsAreNat DEF ConsoleInv

\* Taking the same from both sides of a balance keeps it.
LEMMA SameShift ==
  ASSUME NEW w \in Int, NEW e \in Int
  PROVE  w - e = (w - 1) - (e - 1)
OBVIOUS

\* ... and so does adding the same.
LEMMA BothShift ==
  ASSUME NEW d, NEW w \in Int, NEW e \in Int, NEW w2, NEW e2,
         d = w - e, w2 = w + 1, e2 = e + 1
  PROVE  d = w2 - e2
OBVIOUS

\* A byte more on the way is a byte more that is missed.
LEMMA OneMore ==
  ASSUME NEW d, NEW w \in Int, NEW e \in Int, NEW d2, NEW w2,
         d = w - e, d2 = d + 1, w2 = w + 1
  PROVE  d2 = w2 - e
OBVIOUS

\* What leaves one side of a balance leaves the other.
LEMMA ShownShift ==
  ASSUME NEW d \in Int, NEW w \in Int, NEW e \in Int, NEW k \in Int, d = w - e
  PROVE  d - k = (w - k) - e
OBVIOUS

\* cdc_send remembers the bytes of one call.
LEMMA SendKeeps ==
  ASSUME ConsoleInv, NEW data \in Chunks, CdcSend(data)
  PROVE  (Places /\ LostOnce /\ Balance)'
<1> USE DEF ConsoleInv
<1>1. data \in Seq(Byte) /\ Len(data) \in Nat
  BY ChunkFacts
<1>2. /\ tx_echo_mutex = "free" /\ tx_echo_mutex' = "push" /\ todo' = data
      /\ sending = <<>> /\ sending' = data /\ sent' = sent + Len(data) /\ sent' <= MaxSent
      /\ UNCHANGED <<tx_echo_count, line, rx, printed, shown, dropped, Through, unechoed, evicted>>
  BY DEF CdcSend, PushCall, ring, Through
<1>3. Places'
  BY <1>1, <1>2, BoundsAssumption DEF Places
<1>4. LostOnce'
  <2>1. ToPush' = Len(data) /\ ToPush = 0
    BY <1>2 DEF ToPush
  <2>2. /\ unechoed + Len(line) + 0 <= sent /\ evicted + 0 <= sent
    BY <1>2, <2>1 DEF LostOnce
  <2>3. unechoed \in Int /\ Len(line) \in Int /\ evicted \in Int /\ sent \in Int
    BY NumbersAreInt
  <2>4. /\ unechoed + Len(line) + Len(data) <= sent + Len(data)
        /\ evicted + Len(data) <= sent + Len(data)
    <3> HIDE DEF ConsoleInv
    <3> QED
      BY <1>1, <2>2, <2>3
  <2> QED
    BY <1>2, <2>1, <2>4 DEF LostOnce
<1>5. Balance'
  <2>1. ToPush = 0 /\ InFilter = 0 /\ Len(sending) = 0
    BY <1>2 DEF ToPush, InFilter
  <2>2. ToPush' = Len(data) /\ InFilter' = 0 /\ Len(sending') = Len(data)
    BY <1>2 DEF ToPush, InFilter
  <2>3. OnWay' = OnWay
    BY <1>2, <2>1, <2>2 DEF OnWay
  <2>4. Unanswered' = Unanswered
    BY <1>1, <1>2, <2>1, <2>2, LengthsAreNat DEF Unanswered
  <2> QED
    BY <1>2, <2>3, <2>4 DEF Balance
<1> QED
  BY <1>3, <1>4, <1>5

\* One byte goes into the ring; the full ring forgets one.
LEMMA PushKeeps ==
  ASSUME ConsoleInv, Push
  PROVE  (Places /\ LostOnce /\ Balance)'
<1> USE DEF ConsoleInv
<1>1. /\ tx_echo_mutex = "push" /\ tx_echo_mutex' = "push" /\ todo # <<>> /\ todo' = Tail(todo)
      /\ UNCHANGED <<sending, line, rx, sent, printed, shown, dropped, Through, unechoed>>
  BY DEF Push, PushByte, Through
<1>2. Len(todo') = Len(todo) - 1
  BY <1>1, LengthsAreNat
<1>3. \/ tx_echo_count' = tx_echo_count /\ evicted' = evicted + 1
      \/ tx_echo_count' = tx_echo_count + 1 /\ evicted' = evicted
  BY DEF Push, PushByte
<1>4. Places'
  BY <1>1, <1>3 DEF Places
<1>5. LostOnce'
  <2>1. ToPush = Len(todo) /\ ToPush' = Len(todo) - 1 /\ Len(todo) \in Int /\ evicted \in Int
    BY <1>1, <1>2, LengthsAreNat DEF ToPush
  <2>2. evicted' + ToPush' <= evicted + ToPush /\ evicted + ToPush \in Int
        /\ evicted' + ToPush' \in Int
    <3>1. evicted' = evicted \/ evicted' = evicted + 1
      BY <1>3
    <3> HIDE DEF ConsoleInv
    <3> QED
      BY <2>1, <3>1
  <2>3. evicted + ToPush <= sent /\ sent \in Int
    BY NumbersAreInt DEF LostOnce
  <2>4. evicted' + ToPush' <= sent
    <3> HIDE DEF ConsoleInv
    <3> QED
      BY <2>2, <2>3
  <2> QED
    BY <1>1, <2>4 DEF LostOnce
<1>6. Balance'
  <2>1. ToPush' = ToPush - 1 /\ InFilter = 0 /\ InFilter' = 0
    BY <1>1, <1>2 DEF ToPush, InFilter
  <2>2. OnWay' = OnWay
    BY <1>1, <2>1 DEF OnWay
  <2>3. Len(sending') - ToPush' = (Len(sending) - ToPush) + 1
    BY <1>1, <2>1, NumbersAreInt
  <2>4. Unanswered' = Unanswered + 1
    <3>1. Len(line) + unechoed \in Int /\ Len(sending) - ToPush \in Int
      BY NumbersAreInt
    <3>2. Len(line') + unechoed' = Len(line) + unechoed
      BY <1>1
    <3> QED
      BY <2>3, <3>1, <3>2 DEF Unanswered
  <2>5. OnWay' + Unanswered' = (OnWay + Unanswered) + 1
    BY <2>2, <2>4, NumbersAreInt
  <2>6. tx_echo_count' + evicted' = (tx_echo_count + evicted) + 1
    BY <1>3, NumbersAreInt
  <2>7. /\ OnWay + Unanswered \in Int /\ tx_echo_count + evicted \in Int
        /\ printed' - Through' = printed - Through
    BY <1>1, NumbersAreInt
  <2> QED
    BY <2>5, <2>6, <2>7, BothShift DEF Balance
<1> QED
  BY <1>4, <1>5, <1>6

\* The call is over.
LEMMA PushReturnKeeps ==
  ASSUME ConsoleInv, PushReturn
  PROVE  (Places /\ LostOnce /\ Balance)'
<1> USE DEF ConsoleInv
<1>1. /\ tx_echo_mutex = "push" /\ tx_echo_mutex' = "free" /\ todo = <<>>
      /\ UNCHANGED <<tx_echo_count, todo, kept, sending, line, rx, sent, printed, shown, dropped,
                     Through, unechoed, evicted>>
  BY DEF PushReturn, Return, ring, outside, Through
<1>2. Places'
  BY <1>1 DEF Places
<1>3. ToPush = 0 /\ ToPush' = 0 /\ InFilter' = InFilter
  BY <1>1 DEF ToPush, InFilter
<1>4. LostOnce' /\ Balance'
  BY <1>1, <1>3 DEF LostOnce, Balance, OnWay, Unanswered
<1> QED
  BY <1>2, <1>4

\* The driver sends some of the bytes; the rest gets no echo.
LEMMA TransmitKeeps ==
  ASSUME ConsoleInv, Transmit
  PROVE  (Places /\ LostOnce /\ Balance)'
<1> USE DEF ConsoleInv
<1>1. PICK n \in 0 .. Len(sending) : /\ line' = line \o SubSeq(sending, 1, n)
                                     /\ unechoed' = unechoed + Len(sending) - n
  BY DEF Transmit
<1>2. /\ sending' = <<>> /\ tx_echo_mutex # "push"
      /\ UNCHANGED <<tx_echo_mutex, tx_echo_count, todo, kept, rx, sent, printed, shown, dropped,
                     Through, evicted>>
  BY DEF Transmit, echoVars, ring, Through
<1>3. SubSeq(sending, 1, n) \in Seq(Byte) /\ Len(SubSeq(sending, 1, n)) = n
  <2>1. sending \in Seq(Byte)
    BY DEF Places
  <2> HIDE DEF ConsoleInv
  <2> QED
    BY <2>1
<1>4. line' \in Seq(Byte) /\ Len(line') = Len(line) + n
  <2>1. line \in Seq(Byte)
    BY DEF Places
  <2> HIDE DEF ConsoleInv
  <2> QED
    BY <1>1, <1>3, <2>1
<1>5. n \in Nat /\ unechoed' \in Nat
  <2>1. Len(sending) \in Nat /\ unechoed \in Nat
    BY LengthsAreNat
  <2> HIDE DEF ConsoleInv
  <2> QED
    BY <1>1, <2>1
<1>6. Places'
  BY <1>2, <1>4, <1>5 DEF Places
<1>7. LostOnce' /\ Balance'
  <2>1. ToPush' = ToPush /\ InFilter' = InFilter /\ Len(rx') = Len(rx)
    BY <1>2 DEF ToPush, InFilter
  <2>2. Len(sending') = 0
    BY <1>2
  <2>3. LostOnce'
    <3>1. unechoed + Len(line) + Len(sending) <= sent /\ evicted + ToPush <= sent
      BY DEF LostOnce
    <3>2. unechoed' + Len(line') + Len(sending') = unechoed + Len(line) + Len(sending)
      <4>1. /\ Len(line') = Len(line) + n /\ unechoed' = unechoed + Len(sending) - n
            /\ Len(sending') = 0 /\ n \in Int
            /\ Len(line) \in Int /\ unechoed \in Int /\ Len(sending) \in Int
        BY <1>1, <1>4, <2>2, NumbersAreInt
      <4> HIDE DEF ConsoleInv
      <4> QED
        BY <4>1
    <3> QED
      BY <1>2, <2>1, <3>1, <3>2 DEF LostOnce
  <2>5. Unanswered' = Unanswered
    <3>1. Len(line') + unechoed' = (Len(line) + unechoed) + Len(sending)
      <4>1. /\ Len(line') = Len(line) + n
            /\ unechoed' = unechoed + Len(sending) - n
            /\ n \in Nat /\ Len(line) \in Nat /\ unechoed \in Nat /\ Len(sending) \in Nat
        BY <1>1, <1>4, <1>5, LengthsAreNat
      <4> HIDE DEF ConsoleInv
      <4> QED
        BY <4>1
    <3>2. Len(sending') - ToPush' = 0 - ToPush
      BY <2>1, <2>2
    <3>3. Len(line) \in Int /\ unechoed \in Int /\ ToPush \in Int /\ Len(sending) \in Int
      BY NumbersAreInt
    <3> HIDE DEF ConsoleInv
    <3>4. Len(line) + unechoed \in Int
      BY <3>3
    <3> QED
      BY <3>1, <3>2, <3>3, <3>4 DEF Unanswered
  <2>6. OnWay' = OnWay
    BY <2>1 DEF OnWay
  <2>4. Balance'
    BY <1>2, <2>5, <2>6 DEF Balance
  <2> QED
    BY <2>3, <2>4
<1> QED
  BY <1>6, <1>7

\* The switch answers a byte, or does not, or prints one by itself.
LEMMA SwitchKeeps ==
  ASSUME ConsoleInv, SwitchEcho \/ SwitchSilent \/ \E b \in Byte : SwitchPrint(b)
  PROVE  (Places /\ LostOnce /\ Balance)'
<1> USE DEF ConsoleInv
<1>1. UNCHANGED <<tx_echo_mutex, tx_echo_count, todo, kept, sending, sent, shown, dropped, Through,
                  evicted>>
  BY DEF SwitchEcho, SwitchSilent, SwitchPrint, echoVars, ring, Through
<1>5. ToPush' = ToPush /\ InFilter' = InFilter /\ Len(sending') = Len(sending)
  BY <1>1 DEF ToPush, InFilter
<1>2. CASE SwitchEcho
  <2>1. Tail(line) \in Seq(Byte) /\ Len(Tail(line)) = Len(line) - 1 /\ Head(line) \in Byte
    BY <1>2 DEF SwitchEcho, Places
  <2>2. rx' \in Seq([byte : Byte, echo : BOOLEAN]) /\ Len(rx') = Len(rx) + 1
    BY <1>2, <2>1 DEF SwitchEcho, Places
  <2>3. line' = Tail(line) /\ UNCHANGED <<printed, unechoed>>
    BY <1>2 DEF SwitchEcho
  <2>4. Places'
    BY <1>1, <2>1, <2>2, <2>3 DEF Places
  <2>5. LostOnce'
    <3>1. Len(line') = Len(line) - 1
      BY <2>1, <2>3
    <3> QED
      <4>1. unechoed + Len(line) + Len(sending) <= sent /\ evicted + ToPush <= sent
        BY DEF LostOnce
      <4>2. Len(line) \in Int /\ unechoed \in Int /\ Len(sending) \in Int /\ sent \in Int
        BY NumbersAreInt
      <4>3. Len(line') <= Len(line)
        BY <3>1, <4>2
      <4>4. unechoed' = unechoed /\ sending' = sending
        BY <1>1, <1>5, <2>3
      <4>5. unechoed + Len(line') + Len(sending) <= sent
        BY <3>1, <4>1, <4>2
      <4>6. /\ unechoed' = unechoed /\ sending' = sending /\ sent' = sent
            /\ evicted' = evicted /\ ToPush' = ToPush
        BY <1>1, <1>5, <4>4
      <4>7. unechoed' + Len(line') + Len(sending') <= sent'
        BY <4>5, <4>6
      <4>8. evicted' + ToPush' <= sent'
        BY <4>1, <4>6
      <4> QED
        BY <4>7, <4>8 DEF LostOnce
  <2>6. OnWay' = OnWay + 1
    <3>1. Len(rx) \in Int /\ InFilter \in Int
      BY NumbersAreInt
    <3> HIDE DEF ConsoleInv
    <3> QED
      BY <1>5, <2>2, <3>1 DEF OnWay
  <2>7. Unanswered' = Unanswered - 1
    <3>1. Len(line') + unechoed' = (Len(line) + unechoed) - 1
      <4>1. Len(line') = Len(line) - 1 /\ unechoed' = unechoed
        BY <2>1, <2>3
      <4>2. Len(line) \in Int /\ unechoed \in Int
        BY NumbersAreInt
      <4> QED
        BY <4>1, <4>2
    <3> QED
      <4>1. Len(line) + unechoed \in Int /\ Len(sending) - ToPush \in Int
        BY NumbersAreInt
      <4>2. Len(sending') - ToPush' = Len(sending) - ToPush
        BY <1>5
      <4> QED
        BY <3>1, <4>1, <4>2 DEF Unanswered
  <2>9. OnWay' + Unanswered' = OnWay + Unanswered
    BY <2>6, <2>7, NumbersAreInt
  <2>8. Balance'
    BY <1>1, <2>3, <2>9 DEF Balance
  <2> QED
    BY <2>4, <2>5, <2>8
<1>3. CASE SwitchSilent
  <2>1. Tail(line) \in Seq(Byte) /\ Len(Tail(line)) = Len(line) - 1
    BY <1>3 DEF SwitchSilent, Places
  <2>2. line' = Tail(line) /\ unechoed' = unechoed + 1 /\ UNCHANGED <<rx, printed>>
    BY <1>3 DEF SwitchSilent
  <2>3. Places'
    BY <1>1, <2>1, <2>2 DEF Places
  <2>4. LostOnce'
    <3>1. Len(line') = Len(line) - 1
      BY <2>1, <2>2
    <3> QED
      <4>1. /\ unechoed' + Len(line') + Len(sending') = unechoed + Len(line) + Len(sending)
            /\ sent' = sent /\ evicted' = evicted /\ ToPush' = ToPush
        <5>1. Len(line) \in Int /\ unechoed \in Int /\ Len(sending) \in Int
          BY NumbersAreInt
        <5>2. unechoed' = unechoed + 1 /\ Len(sending') = Len(sending)
          BY <1>5, <2>2
        <5>3. unechoed' + Len(line') + Len(sending') = unechoed + Len(line) + Len(sending)
          BY <3>1, <5>1, <5>2
        <5> QED
          BY <1>1, <1>5, <5>3
      <4> QED
        BY <4>1 DEF LostOnce
  <2>5. OnWay' = OnWay
    BY <1>5, <2>2 DEF OnWay
  <2>6. Unanswered' = Unanswered
    <3>1. Len(line') + unechoed' = Len(line) + unechoed
      <4>1. Len(line') = Len(line) - 1 /\ unechoed' = unechoed + 1
        BY <2>1, <2>2
      <4>2. Len(line) \in Int /\ unechoed \in Int
        BY NumbersAreInt
      <4> QED
        BY <4>1, <4>2
    <3> QED
      BY <1>1, <1>5, <3>1 DEF Unanswered
  <2>7. Balance'
    BY <1>1, <2>2, <2>5, <2>6 DEF Balance
  <2> QED
    BY <2>3, <2>4, <2>7
<1>4. ASSUME NEW b \in Byte, SwitchPrint(b) PROVE (Places /\ LostOnce /\ Balance)'
  <2>1. printed < MaxOwn /\ printed' = printed + 1 /\ UNCHANGED <<line, unechoed>>
    BY <1>4 DEF SwitchPrint
  <2>2. rx' \in Seq([byte : Byte, echo : BOOLEAN]) /\ Len(rx') = Len(rx) + 1
    BY <1>4 DEF SwitchPrint, Places
  <2>3. Places'
    BY <1>1, <2>1, <2>2, BoundsAssumption DEF Places
  <2>4. LostOnce'
    BY <1>1, <1>5, <2>1 DEF LostOnce
  <2>5. OnWay' = OnWay + 1
    <3>1. Len(rx) \in Int /\ InFilter \in Int
      BY NumbersAreInt
    <3> HIDE DEF ConsoleInv
    <3> QED
      BY <1>5, <2>2, <3>1 DEF OnWay
  <2>6. Unanswered' = Unanswered
    BY <1>5, <2>1 DEF Unanswered
  <2>8. OnWay' + Unanswered' = (OnWay + Unanswered) + 1
    BY <2>5, <2>6, NumbersAreInt
  <2>9. printed' - Through' = (printed - Through) + 1
    BY <1>1, <2>1, NumbersAreInt
  <2>10. /\ OnWay + Unanswered \in Int /\ tx_echo_count + evicted \in Int
         /\ tx_echo_count' + evicted' = tx_echo_count + evicted
    BY <1>1, NumbersAreInt
  <2>7. Balance'
    BY <2>8, <2>9, <2>10, OneMore DEF Balance
  <2> QED
    BY <2>3, <2>4, <2>7
<1> QED
  BY <1>2, <1>3, <1>4

\* The callback takes what has arrived.
LEMMA CallbackKeeps ==
  ASSUME ConsoleInv, NEW n \in 1 .. MaxChunk, RxCallback(n)
  PROVE  (Places /\ LostOnce /\ Balance)'
<1> USE DEF ConsoleInv
<1>1. n \in Nat /\ n <= Len(rx)
  BY BoundsAssumption DEF RxCallback
<1>2. /\ tx_echo_mutex = "free" /\ tx_echo_mutex' = "filter"
      /\ todo' = [i \in 1 .. n |-> rx[i].byte] /\ kept' = <<>>
      /\ rx' = SubSeq(rx, n + 1, Len(rx))
      /\ UNCHANGED <<tx_echo_count, sending, line, sent, printed, shown, dropped, Through,
                     unechoed, evicted>>
  BY DEF RxCallback, FilterCall, ring, Through
<1>3. Len(todo') = n
  BY <1>1, <1>2, ReceivedBytes DEF Places
<1>4. rx' \in Seq([byte : Byte, echo : BOOLEAN]) /\ Len(rx') = Len(rx) - n
  <2> DEFINE T == [byte : Byte, echo : BOOLEAN]
  <2>1. rx \in Seq(T) /\ Len(rx) \in Nat
    BY LengthsAreNat DEF Places
  <2> HIDE DEF T
  <2>2. SubSeq(rx, n + 1, Len(rx)) \in Seq(T)
    BY <1>1, <2>1
  <2>3. Len(SubSeq(rx, n + 1, Len(rx))) = Len(rx) - n
    BY <1>1, <2>1
  <2> QED
    BY <1>2, <2>2, <2>3 DEF T
<1>5. Places'
  BY <1>2, <1>4 DEF Places
<1>6. LostOnce' /\ Balance'
  <2>1. ToPush = 0 /\ ToPush' = 0 /\ InFilter = 0
    BY <1>2 DEF ToPush, InFilter
  <2>2. InFilter' = n
    BY <1>1, <1>2, <1>3 DEF InFilter
  <2>3. Len(line') = Len(line) /\ Len(sending') = Len(sending)
    BY <1>2
  <2>4. LostOnce'
    BY <1>2, <2>1, <2>3 DEF LostOnce
  <2>5. OnWay' = OnWay
    BY <1>1, <1>4, <2>1, <2>2, LengthsAreNat DEF OnWay
  <2>6. Unanswered' = Unanswered
    BY <1>2, <2>1, <2>3 DEF Unanswered
  <2> QED
    BY <1>2, <2>4, <2>5, <2>6 DEF Balance
<1> QED
  BY <1>5, <1>6

\* A byte is taken for an echo, or let through.
LEMMA FilterKeeps ==
  ASSUME ConsoleInv, Filter
  PROVE  (Places /\ LostOnce /\ Balance)'
<1> USE DEF ConsoleInv
<1>1. /\ tx_echo_mutex = "filter" /\ tx_echo_mutex' = "filter" /\ todo # <<>> /\ todo' = Tail(todo)
      /\ UNCHANGED <<sending, line, rx, sent, printed, shown, dropped, Through, unechoed, evicted>>
  BY DEF Filter, DropEcho, KeepByte, outside, Through
<1>2. Len(todo') = Len(todo) - 1
  BY <1>1, LengthsAreNat
<1>3. \/ tx_echo_count' = tx_echo_count - 1 /\ Len(kept') = Len(kept)
      \/ tx_echo_count' = tx_echo_count /\ Len(kept') = Len(kept) + 1
  <2>1. CASE DropEcho
    BY <2>1 DEF DropEcho
  <2>2. CASE KeepByte
    BY <2>2 DEF KeepByte, ring, RingInv, EchoTypeOK
  <2> QED
    BY <2>1, <2>2 DEF Filter
<1>4. Places'
  BY <1>1 DEF Places
<1>5. LostOnce'
  BY <1>1, LengthsAreNat DEF LostOnce, ToPush
<1>6. Balance'
  <2>1. ToPush' = 0 /\ ToPush = 0
    BY <1>1 DEF ToPush
  <2>2. InFilter = Len(todo) + Len(kept) /\ InFilter' = Len(todo') + Len(kept')
    BY <1>1 DEF InFilter
  <2>3. Len(rx') = Len(rx) /\ Len(line') = Len(line) /\ Len(sending') = Len(sending)
    BY <1>1
  <2>4. Unanswered' = Unanswered
    BY <1>1, <2>1, <2>3 DEF Unanswered
  <2>5. CASE tx_echo_count' = tx_echo_count - 1 /\ Len(kept') = Len(kept)
    <3>1. OnWay' = OnWay - 1
      <4>1. Len(todo) \in Int /\ Len(kept) \in Int /\ Len(rx) \in Int
        BY LengthsAreNat
      <4>2. InFilter' = InFilter - 1 /\ InFilter \in Int
        BY <1>2, <2>2, <2>5, <4>1
      <4> QED
        BY <2>3, <4>1, <4>2 DEF OnWay
    <3> QED
      <4>1. OnWay' + Unanswered' = (OnWay + Unanswered) - 1
        <5>1. OnWay \in Int /\ Unanswered \in Int
          BY NumbersAreInt
        <5> QED
          BY <2>4, <3>1, <5>1
      <4>2. tx_echo_count' + evicted' = (tx_echo_count + evicted) - 1
        <5>1. tx_echo_count \in Int /\ evicted \in Int
          BY NumbersAreInt
        <5> QED
          BY <1>1, <2>5, <5>1
      <4> QED
        <5>0. /\ OnWay \in Int /\ Unanswered \in Int
              /\ tx_echo_count \in Int /\ evicted \in Int
          BY NumbersAreInt
        <5>1. OnWay + Unanswered \in Int /\ tx_echo_count + evicted \in Int
          BY <5>0
        <5>2. printed - Through = (OnWay + Unanswered) - (tx_echo_count + evicted)
          BY DEF Balance
        <5> HIDE DEF ConsoleInv
        <5>3. printed - Through = (OnWay' + Unanswered') - (tx_echo_count' + evicted')
          BY <4>1, <4>2, <5>1, <5>2, SameShift
        <5>4. printed' = printed /\ Through' = Through
          BY <1>1
        <5> QED
          BY <5>3, <5>4 DEF Balance
  <2>6. CASE tx_echo_count' = tx_echo_count /\ Len(kept') = Len(kept) + 1
    <3>1. OnWay' = OnWay
      <4>1. Len(todo) \in Int /\ Len(kept) \in Int /\ Len(rx) \in Int
        BY LengthsAreNat
      <4>2. InFilter' = InFilter
        BY <1>2, <2>2, <2>6, <4>1
      <4> QED
        BY <2>3, <4>2 DEF OnWay
    <3> QED
      BY <1>1, <2>4, <2>6, <3>1 DEF Balance
  <2> QED
    BY <1>3, <2>5, <2>6
<1> QED
  BY <1>4, <1>5, <1>6

\* What was let through goes to the browsers, or the web server does not take it.
LEMMA RxReturnKeeps ==
  ASSUME ConsoleInv, RxReturn
  PROVE  (Places /\ LostOnce /\ Balance)'
<1> USE DEF ConsoleInv
<1>1. /\ tx_echo_mutex = "filter" /\ tx_echo_mutex' = "free" /\ todo = <<>>
      /\ UNCHANGED <<tx_echo_count, todo, kept, sending, line, rx, sent, printed, unechoed, evicted>>
  BY DEF RxReturn, Return, ring
<1>4. \/ shown' = shown + Len(kept) /\ dropped' = dropped
      \/ shown' = shown /\ dropped' = dropped + Len(kept)
  BY DEF RxReturn
<1>5. shown' \in Nat /\ dropped' \in Nat /\ Through' = Through + Len(kept)
  <2>1. Len(kept) \in Nat /\ shown \in Nat /\ dropped \in Nat
    BY LengthsAreNat DEF Places
  <2> HIDE DEF ConsoleInv
  <2> QED
    BY <1>4, <2>1 DEF Through
<1>2. Places'
  BY <1>1, <1>5 DEF Places
<1>3. LostOnce' /\ Balance'
  <2>1. ToPush' = 0 /\ ToPush = 0 /\ InFilter' = 0 /\ InFilter = Len(kept)
    BY <1>1, LengthsAreNat DEF ToPush, InFilter
  <2>2. Len(rx') = Len(rx) /\ Len(line') = Len(line) /\ Len(sending') = Len(sending)
    BY <1>1
  <2>3. LostOnce'
    BY <1>1, <2>1, <2>2 DEF LostOnce
  <2>4. OnWay' = OnWay - Len(kept)
    BY <2>1, <2>2, LengthsAreNat DEF OnWay
  <2>5. Unanswered' = Unanswered
    BY <1>1, <2>1, <2>2 DEF Unanswered
  <2>6. OnWay' + Unanswered' = (OnWay + Unanswered) - Len(kept)
    <3>1. OnWay \in Int /\ Unanswered \in Int /\ Len(kept) \in Int
      BY LengthsAreNat
    <3> QED
      BY <2>4, <2>5, <3>1
  <2>7. printed' - Through' = (printed - Through) - Len(kept)
    <3>1. Len(kept) \in Int /\ printed \in Int /\ Through \in Int
      BY LengthsAreNat
    <3> HIDE DEF ConsoleInv
    <3> QED
      BY <1>1, <1>5, <3>1
  <2>8. Balance'
    <3>a. Len(kept) \in Int /\ printed \in Int /\ Through \in Int
      BY LengthsAreNat
    <3>b. printed - Through \in Int
      BY <3>a
    <3>1. Len(kept) \in Int /\ printed - Through \in Int /\ printed' - Through' \in Int
      BY <2>7, <3>a, <3>b
    <3>0. /\ OnWay \in Int /\ Unanswered \in Int
          /\ tx_echo_count \in Int /\ evicted \in Int
      BY NumbersAreInt
    <3>2. OnWay + Unanswered \in Int /\ tx_echo_count + evicted \in Int
      BY <3>0
    <3>3. printed - Through = (OnWay + Unanswered) - (tx_echo_count + evicted)
      BY DEF Balance
    <3> HIDE DEF ConsoleInv
    <3>4. printed' - Through' = (OnWay' + Unanswered') - (tx_echo_count + evicted)
      BY <2>6, <2>7, <3>1, <3>2, <3>3, ShownShift
    <3>5. tx_echo_count' = tx_echo_count /\ evicted' = evicted
      BY <1>1
    <3> QED
      BY <3>4, <3>5 DEF Balance
  <2> QED
    BY <2>3, <2>8
<1> QED
  BY <1>2, <1>3

\* Two bags of bytes make one.
LEMMA BagsAdd ==
  ASSUME NEW B, NEW C, IsABag(B), IsABag(C), BagToSet(B) \subseteq Byte, BagToSet(C) \subseteq Byte
  PROVE  IsABag(B (+) C) /\ BagToSet(B (+) C) \subseteq Byte
<1>1. \A x \in DOMAIN B : B[x] \in Nat /\ B[x] > 0
  BY DEF IsABag
<1>2. \A x \in DOMAIN C : C[x] \in Nat /\ C[x] > 0
  BY DEF IsABag
<1> QED
  BY <1>1, <1>2 DEF IsABag, BagToSet, (+)

\* The bags stay bags of bytes.
LEMMA BagsKept == ConsoleInv /\ [Next]_vars => Bags'
<1> SUFFICES ASSUME ConsoleInv, [Next]_vars PROVE Bags'
  OBVIOUS
<1>1. ASSUME NEW b \in Byte, SwitchPrint(b) PROVE Bags'
  <2>1. IsABag(SetToBag({b})) /\ BagToSet(SetToBag({b})) \subseteq Byte
    BY DEF IsABag, BagToSet, SetToBag
  <2> QED
    BY <1>1, <2>1, BagsAdd DEF SwitchPrint, ConsoleInv, Bags
<1>2. CASE RxReturn
  <2>1. kept \in Seq(Byte)
    BY DEF ConsoleInv, RingInv, EchoTypeOK
  <2> QED
    BY <1>2, <2>1, BagOfSequence, BagsAdd DEF RxReturn, ConsoleInv, Bags
<1>3. CASE UNCHANGED <<own, screen, refused>>
  BY <1>3 DEF ConsoleInv, Bags
<1> QED
  BY <1>1, <1>2, <1>3 DEF Next, vars, outside, CdcSend, Push, PushReturn, Transmit, SwitchEcho,
     SwitchSilent, RxCallback, Filter

\* Every step keeps the balance.
LEMMA ConsoleStep == ConsoleInv /\ [Next]_vars => ConsoleInv'
<1> SUFFICES ASSUME ConsoleInv, [Next]_vars PROVE ConsoleInv'
  OBVIOUS
<1>1. RingInv' /\ Bags'
  BY StepOfRing, RingInvStep, BagsKept DEF ConsoleInv
<1>2. (Places /\ LostOnce /\ Balance)'
  <2>1. CASE UNCHANGED vars
    BY <2>1 DEF vars, outside, echoVars, ring, ConsoleInv, Places, LostOnce, Balance,
       OnWay, Unanswered, ToPush, InFilter, Through
  <2>2. CASE Next
    BY <2>2, SendKeeps, PushKeeps, PushReturnKeeps, TransmitKeeps, SwitchKeeps, CallbackKeeps,
       FilterKeeps, RxReturnKeeps DEF Next
  <2> QED
    BY <2>1, <2>2
<1> QED
  BY <1>1, <1>2 DEF ConsoleInv

\* Nothing has been typed or printed.
LEMMA ConsoleInit == Init => ConsoleInv
<1> SUFFICES ASSUME Init PROVE ConsoleInv
  OBVIOUS
<1>1. RingInv
  BY RingInvInit DEF Init
<1>2. Places
  BY BoundsAssumption DEF Init, Places
<1>3. /\ tx_echo_mutex = "free" /\ tx_echo_count = 0 /\ printed = 0 /\ shown = 0 /\ dropped = 0
      /\ rx = <<>>
      /\ evicted = 0 /\ sending = <<>> /\ line = <<>> /\ unechoed = 0 /\ sent = 0
  BY DEF Init, EchoInit
<1>4. LostOnce /\ Balance
  BY <1>3 DEF LostOnce, Balance, OnWay, Unanswered, ToPush, InFilter, Through
<1>5. Bags
  BY DEF Init, Bags, EmptyBag, SetToBag, IsABag, BagToSet
<1> QED
  BY <1>1, <1>2, <1>4, <1>5 DEF ConsoleInv

\* The inductive invariant of the console.
LEMMA ConsoleInvariant == Spec => []ConsoleInv
  BY ConsoleInit, ConsoleStep, PTL DEF Spec

\* Between sender, switch and callback the ring takes no other steps than its own, so what
\* is proved of it holds in the console (RingCoherent, RefinesQueue).
THEOREM ConsoleRunsTheRing == Spec => EchoSpec
<1>1. Init => EchoInit
  BY DEF Init
<1>2. ConsoleInv => Places
  BY DEF ConsoleInv
<1> QED
  BY <1>1, <1>2, StepOfRing, ConsoleInvariant, PTL DEF Spec, EchoSpec

\* TypeOK: what is on its way are bytes, and no more of them are lost than were typed.
THEOREM ConsoleTypeCorrect == Spec => []TypeOK
<1>1. ConsoleInv => TypeOK
  <2> SUFFICES ASSUME ConsoleInv PROVE TypeOK
    OBVIOUS
  <2>1. unechoed \in 0 .. MaxSent /\ evicted \in 0 .. MaxSent
    <3>1. /\ unechoed + Len(line) + Len(sending) <= sent /\ evicted + ToPush <= sent
          /\ sent <= MaxSent /\ ToPush \in Nat /\ MaxSent \in Nat
      BY LengthsAreNat, BoundsAssumption DEF ConsoleInv, LostOnce, Places, ToPush
    <3> QED
      <4>1. /\ unechoed \in Nat /\ Len(line) \in Nat /\ Len(sending) \in Nat
            /\ evicted \in Nat /\ sent \in Nat
        BY LengthsAreNat DEF ConsoleInv
      <4> QED
        BY <3>1, <4>1
  <2> QED
    BY <2>1 DEF ConsoleInv, RingInv, Places, Bags, TypeOK
<1> QED
  BY <1>1, ConsoleInvariant, PTL

\* LossAccounted: what the browsers miss of the switch's output was in a job that the web server
\* refused (cdc_rx_callback), or is what filter_tx_echo has matched with bytes whose echo never
\* came; for every ring size and every interleaving.
THEOREM NothingElseIsLost == Spec => []LossAccounted
<1>1. ConsoleInv => LossAccounted
  <2> SUFFICES ASSUME ConsoleInv, Quiet
               PROVE  printed - (shown + dropped) = unechoed - tx_echo_count - evicted
    BY DEF LossAccounted
  <2>1. /\ Balance /\ tx_echo_mutex = "free" /\ sending = <<>> /\ line = <<>> /\ rx = <<>>
    BY DEF ConsoleInv, Quiet
  <2>2. ToPush = 0 /\ InFilter = 0
    BY <2>1 DEF ToPush, InFilter
  <2> QED
    BY <2>1, <2>2, LengthsAreNat DEF Balance, OnWay, Unanswered, ConsoleInv, Through, Places
<1> QED
  BY <1>1, ConsoleInvariant, PTL

-----------------------------------------------------------------------------
(* Echoes come in order: subsequences and occurrences.                     *)

\* s is what is left of t when some of its bytes are struck out.
Embeds(s, t) ==
  \E f \in [1 .. Len(s) -> 1 .. Len(t)] :
    /\ \A i, j \in 1 .. Len(s) : i < j => f[i] < f[j]
    /\ \A i \in 1 .. Len(s) : s[i] = t[f[i]]

\* The same bytes after both.
LEMMA EmbedsExtend ==
  ASSUME NEW s \in Seq(Byte), NEW t \in Seq(Byte), NEW u \in Seq(Byte), Embeds(s, t)
  PROVE  Embeds(s \o u, t \o u)
<1>1. PICK f \in [1 .. Len(s) -> 1 .. Len(t)] :
         /\ \A i, j \in 1 .. Len(s) : i < j => f[i] < f[j]
         /\ \A i \in 1 .. Len(s) : s[i] = t[f[i]]
  BY DEF Embeds
<1>2. Len(s) \in Nat /\ Len(t) \in Nat /\ Len(u) \in Nat
  OBVIOUS
<1>3. Len(s \o u) = Len(s) + Len(u) /\ Len(t \o u) = Len(t) + Len(u)
  OBVIOUS
<1> DEFINE g == [i \in 1 .. Len(s) + Len(u) |->
                   IF i <= Len(s) THEN f[i] ELSE i - Len(s) + Len(t)]
<1>4. ASSUME NEW i \in 1 .. Len(s) + Len(u)
      PROVE  /\ i <= Len(s) => g[i] = f[i] /\ g[i] \in 1 .. Len(t)
             /\ ~ (i <= Len(s)) => g[i] = i - Len(s) + Len(t)
  <2>1. CASE i <= Len(s)
    <3>1. i \in 1 .. Len(s)
      BY <1>2, <2>1
    <3> QED
      BY <1>1, <2>1, <3>1
  <2>2. CASE ~ (i <= Len(s))
    BY <2>2
  <2> QED
    BY <2>1, <2>2
<1> HIDE DEF g
<1>5. g \in [1 .. Len(s) + Len(u) -> 1 .. Len(t) + Len(u)]
  <2>1. g = [i \in 1 .. Len(s) + Len(u) |-> g[i]]
    BY DEF g
  <2>2. ASSUME NEW i \in 1 .. Len(s) + Len(u) PROVE g[i] \in 1 .. Len(t) + Len(u)
    BY <1>2, <1>4
  <2> QED
    BY <2>1, <2>2
<1>6. ASSUME NEW i \in 1 .. Len(s) + Len(u), NEW j \in 1 .. Len(s) + Len(u), i < j
      PROVE  g[i] < g[j]
  <2>1. CASE j <= Len(s)
    <3>1. i \in 1 .. Len(s) /\ j \in 1 .. Len(s) /\ i <= Len(s)
      BY <1>2, <1>6, <2>1
    <3> QED
      BY <1>1, <1>4, <1>6, <2>1, <3>1
  <2>2. CASE ~ (j <= Len(s)) /\ i <= Len(s)
    BY <1>2, <1>4, <2>2
  <2>3. CASE ~ (j <= Len(s)) /\ ~ (i <= Len(s))
    BY <1>2, <1>4, <1>6, <2>3
  <2> QED
    BY <2>1, <2>2, <2>3
<1>7. ASSUME NEW i \in 1 .. Len(s) + Len(u) PROVE (s \o u)[i] = (t \o u)[g[i]]
  <2>1. CASE i <= Len(s)
    <3>1. i \in 1 .. Len(s) /\ g[i] \in 1 .. Len(t)
      BY <1>2, <1>4, <2>1
    <3>2. (s \o u)[i] = s[i] /\ (t \o u)[g[i]] = t[g[i]]
      BY <1>2, <3>1
    <3> QED
      BY <1>1, <1>4, <2>1, <3>1, <3>2
  <2>2. CASE ~ (i <= Len(s))
    <3>1. g[i] = i - Len(s) + Len(t) /\ g[i] \in 1 .. Len(t) + Len(u) /\ ~ (g[i] <= Len(t))
      BY <1>2, <1>4, <2>2
    <3>2. (s \o u)[i] = u[i - Len(s)] /\ (t \o u)[g[i]] = u[g[i] - Len(t)]
      BY <1>2, <2>2, <3>1, ConcatProperties
    <3>3. g[i] - Len(t) = i - Len(s)
      BY <1>2, <3>1
    <3> QED
      BY <3>2, <3>3
  <2> QED
    BY <2>1, <2>2
<1> QED
  BY <1>3, <1>5, <1>6, <1>7 DEF Embeds

\* A byte that comes in between does not matter.
LEMMA EmbedsInsert ==
  ASSUME NEW s \in Seq(Byte), NEW p \in Seq(Byte), NEW q \in Seq(Byte), NEW x \in Byte,
         Embeds(s, p \o q)
  PROVE  Embeds(s, Append(p, x) \o q)
<1>1. PICK f \in [1 .. Len(s) -> 1 .. Len(p \o q)] :
         /\ \A i, j \in 1 .. Len(s) : i < j => f[i] < f[j]
         /\ \A i \in 1 .. Len(s) : s[i] = (p \o q)[f[i]]
  BY DEF Embeds
<1>2. Len(s) \in Nat /\ Len(p) \in Nat /\ Len(q) \in Nat
  OBVIOUS
<1>3. Append(p, x) \in Seq(Byte) /\ Len(Append(p, x)) = Len(p) + 1
  OBVIOUS
<1>4. Len(p \o q) = Len(p) + Len(q) /\ Len(Append(p, x) \o q) = Len(p) + 1 + Len(q)
  BY <1>3, ConcatProperties
<1> DEFINE g == [i \in 1 .. Len(s) |-> IF f[i] <= Len(p) THEN f[i] ELSE f[i] + 1]
<1>5. ASSUME NEW i \in 1 .. Len(s)
      PROVE  /\ f[i] \in 1 .. Len(p) + Len(q)
             /\ f[i] <= Len(p) => g[i] = f[i]
             /\ ~ (f[i] <= Len(p)) => g[i] = f[i] + 1
  BY <1>1, <1>4
<1> HIDE DEF g
<1>6. g \in [1 .. Len(s) -> 1 .. Len(p) + 1 + Len(q)]
  <2>1. g = [i \in 1 .. Len(s) |-> g[i]]
    BY DEF g
  <2>2. ASSUME NEW i \in 1 .. Len(s) PROVE g[i] \in 1 .. Len(p) + 1 + Len(q)
    BY <1>2, <1>5
  <2> QED
    BY <2>1, <2>2
<1>7. ASSUME NEW i \in 1 .. Len(s), NEW j \in 1 .. Len(s), i < j PROVE g[i] < g[j]
  <2>0. f[i] < f[j]
    BY <1>1, <1>7
  <2>1. f[i] < f[j] /\ f[i] \in Int /\ f[j] \in Int
    <3>1. f[i] \in 1 .. Len(p) + Len(q) /\ f[j] \in 1 .. Len(p) + Len(q)
      BY <1>5
    <3> QED
      BY <2>0, <3>1
  <2>2. CASE f[i] <= Len(p)
    BY <1>2, <1>5, <2>1, <2>2
  <2>3. CASE ~ (f[i] <= Len(p))
    <3>1. ~ (f[j] <= Len(p))
      BY <1>2, <2>1, <2>3
    <3> QED
      BY <1>5, <2>1, <2>3, <3>1
  <2> QED
    BY <2>2, <2>3
<1>8. ASSUME NEW i \in 1 .. Len(s) PROVE s[i] = (Append(p, x) \o q)[g[i]]
  <2>0. s[i] = (p \o q)[f[i]] /\ f[i] \in 1 .. Len(p) + Len(q) /\ g[i] \in 1 .. Len(p) + 1 + Len(q)
    BY <1>1, <1>5, <1>6
  <2>1. CASE f[i] <= Len(p)
    <3>1. g[i] = f[i] /\ f[i] \in 1 .. Len(p)
      BY <1>2, <1>5, <2>1
    <3>2. (Append(p, x) \o q)[g[i]] = Append(p, x)[f[i]]
      BY <1>2, <1>3, <2>0, <3>1, ConcatProperties
    <3>3. Append(p, x)[f[i]] = p[f[i]] /\ (p \o q)[f[i]] = p[f[i]]
      BY <3>1
    <3> QED
      BY <2>0, <3>2, <3>3
  <2>2. CASE ~ (f[i] <= Len(p))
    <3>1. g[i] = f[i] + 1 /\ ~ (g[i] <= Len(p) + 1)
      BY <1>2, <1>5, <2>2
    <3>2. (Append(p, x) \o q)[g[i]] = q[g[i] - (Len(p) + 1)]
      BY <1>2, <1>3, <2>0, <3>1, ConcatProperties
    <3>3. (p \o q)[f[i]] = q[f[i] - Len(p)]
      BY <1>2, <2>0, <2>2, ConcatProperties
    <3>4. g[i] - (Len(p) + 1) = f[i] - Len(p)
      BY <1>2, <2>0, <3>1
    <3> QED
      BY <2>0, <3>2, <3>3, <3>4
  <2> QED
    BY <2>1, <2>2
<1> QED
  BY <1>4, <1>6, <1>7, <1>8 DEF Embeds

\* Equal heads may be paired with each other, whatever they were paired with.
LEMMA EmbedsDrop ==
  ASSUME NEW s \in Seq(Byte), NEW t \in Seq(Byte), s # <<>>, t # <<>>, Embeds(s, t)
  PROVE  Embeds(Tail(s), Tail(t))
<1>1. PICK f \in [1 .. Len(s) -> 1 .. Len(t)] :
         /\ \A i, j \in 1 .. Len(s) : i < j => f[i] < f[j]
         /\ \A i \in 1 .. Len(s) : s[i] = t[f[i]]
  BY DEF Embeds
<1>2. Len(s) \in Nat /\ Len(t) \in Nat /\ Len(s) > 0 /\ Len(t) > 0
  OBVIOUS
<1>3. /\ Len(Tail(s)) = Len(s) - 1 /\ \A i \in 1 .. Len(s) - 1 : Tail(s)[i] = s[i + 1]
      /\ Len(Tail(t)) = Len(t) - 1 /\ \A i \in 1 .. Len(t) - 1 : Tail(t)[i] = t[i + 1]
  BY HeadTailProperties
<1> DEFINE g == [i \in 1 .. Len(s) - 1 |-> f[i + 1] - 1]
<1>4. ASSUME NEW i \in 1 .. Len(s) - 1
      PROVE  /\ i + 1 \in 1 .. Len(s) /\ f[i + 1] \in 1 .. Len(t)
             /\ g[i] = f[i + 1] - 1 /\ g[i] \in 1 .. Len(t) - 1
  <2>1. 1 \in 1 .. Len(s) /\ i + 1 \in 1 .. Len(s) /\ 1 < i + 1
    BY <1>2
  <2>2. f[1] < f[i + 1] /\ f[1] \in 1 .. Len(t) /\ f[i + 1] \in 1 .. Len(t)
    BY <1>1, <2>1
  <2> QED
    BY <1>2, <2>1, <2>2
<1> HIDE DEF g
<1>5. g \in [1 .. Len(s) - 1 -> 1 .. Len(t) - 1]
  <2>1. g = [i \in 1 .. Len(s) - 1 |-> g[i]]
    BY DEF g
  <2> QED
    BY <1>4, <2>1
<1>6. ASSUME NEW i \in 1 .. Len(s) - 1, NEW j \in 1 .. Len(s) - 1, i < j PROVE g[i] < g[j]
  <2>1. i + 1 < j + 1
    BY <1>6
  <2>2. f[i + 1] < f[j + 1]
    BY <1>1, <1>4, <2>1
  <2> QED
    BY <1>2, <1>4, <2>2
<1>7. ASSUME NEW i \in 1 .. Len(s) - 1 PROVE Tail(s)[i] = Tail(t)[g[i]]
  <2>1. Tail(s)[i] = s[i + 1] /\ s[i + 1] = t[f[i + 1]]
    BY <1>1, <1>3, <1>4
  <2>2. Tail(t)[g[i]] = t[g[i] + 1] /\ g[i] + 1 = f[i + 1]
    BY <1>2, <1>3, <1>4
  <2> QED
    BY <2>1, <2>2
<1> QED
  BY <1>3, <1>5, <1>6, <1>7 DEF Embeds

\* A byte that differs from the one awaited stands for nothing that is awaited.
LEMMA EmbedsPass ==
  ASSUME NEW s \in Seq(Byte), NEW t \in Seq(Byte), t # <<>>, Embeds(s, t),
         s # <<>> => Head(s) # Head(t)
  PROVE  Embeds(s, Tail(t))
<1>1. PICK f \in [1 .. Len(s) -> 1 .. Len(t)] :
         /\ \A i, j \in 1 .. Len(s) : i < j => f[i] < f[j]
         /\ \A i \in 1 .. Len(s) : s[i] = t[f[i]]
  BY DEF Embeds
<1>2. Len(s) \in Nat /\ Len(t) \in Nat /\ Len(t) > 0
  OBVIOUS
<1>3. Len(Tail(t)) = Len(t) - 1 /\ \A i \in 1 .. Len(t) - 1 : Tail(t)[i] = t[i + 1]
  BY HeadTailProperties
<1> DEFINE g == [i \in 1 .. Len(s) |-> f[i] - 1]
<1>4. ASSUME NEW i \in 1 .. Len(s)
      PROVE  f[i] \in 1 .. Len(t) /\ g[i] = f[i] - 1 /\ g[i] \in 1 .. Len(t) - 1
  <2>1. 1 \in 1 .. Len(s) /\ s # <<>> /\ f[1] \in 1 .. Len(t) /\ f[i] \in 1 .. Len(t)
    BY <1>1, <1>2
  <2>2. f[1] # 1
    <3>1. s[1] = t[f[1]] /\ s[1] = Head(s) /\ t[1] = Head(t)
      BY <1>1, <2>1
    <3> QED
      BY <2>1, <3>1
  <2>3. f[1] <= f[i]
    BY <1>1, <1>2, <2>1
  <2> QED
    BY <1>2, <2>1, <2>2, <2>3
<1> HIDE DEF g
<1>5. g \in [1 .. Len(s) -> 1 .. Len(t) - 1]
  <2>1. g = [i \in 1 .. Len(s) |-> g[i]]
    BY DEF g
  <2> QED
    BY <1>4, <2>1
<1>6. ASSUME NEW i \in 1 .. Len(s), NEW j \in 1 .. Len(s), i < j PROVE g[i] < g[j]
  <2>1. f[i] < f[j]
    BY <1>1, <1>6
  <2> QED
    BY <1>2, <1>4, <2>1
<1>7. ASSUME NEW i \in 1 .. Len(s) PROVE s[i] = Tail(t)[g[i]]
  <2>1. Tail(t)[g[i]] = t[g[i] + 1] /\ g[i] + 1 = f[i]
    BY <1>2, <1>3, <1>4
  <2> QED
    BY <1>1, <2>1
<1> QED
  BY <1>3, <1>5, <1>6, <1>7 DEF Embeds

\* Nothing is awaited when nothing comes.
LEMMA EmbedsNothing ==
  ASSUME NEW s \in Seq(Byte), Embeds(s, <<>>)
  PROVE  s = <<>>
<1>1. PICK f : f \in [1 .. Len(s) -> 1 .. Len(<<>>)]
  BY DEF Embeds
<1>2. Len(s) = 0
  <2>1. Len(s) \in Nat /\ Len(<<>>) = 0
    OBVIOUS
  <2>2. f \in [1 .. Len(s) -> 1 .. 0]
    BY <1>1, <2>1
  <2>3. Len(s) > 0 => 1 \in 1 .. Len(s)
    BY <2>1
  <2>4. Len(s) > 0 => f[1] \in 1 .. 0
    BY <2>2, <2>3
  <2> QED
    BY <2>1, <2>4
<1> QED
  BY <1>2

\* The empty sequence is part of any.
LEMMA NothingEmbeds == Embeds(<<>>, <<>>)
<1>1. Len(<<>>) = 0 /\ 1 .. 0 = {}
  OBVIOUS
<1>2. [i \in 1 .. 0 |-> i] \in [1 .. 0 -> 1 .. 0]
  OBVIOUS
<1> QED
  BY <1>1, <1>2 DEF Embeds

\* How often x occurs in s.
At(x, s) == {i \in 1 .. Len(s) : s[i] = x}
Occurrences(x, s) == Cardinality(At(x, s))

\* A finite number of times.
LEMMA OccurrencesFinite ==
  ASSUME NEW x, NEW s \in Seq(Byte)
  PROVE  /\ IsFiniteSet(At(x, s)) /\ Occurrences(x, s) \in Nat
         /\ Occurrences(x, s) = 0 <=> \A i \in 1 .. Len(s) : s[i] # x
<1>1. Len(s) \in Nat
  OBVIOUS
<1>2. IsFiniteSet(1 .. Len(s))
  BY <1>1, FS_Interval
<1>3. At(x, s) \in SUBSET (1 .. Len(s))
  BY DEF At
<1>4. IsFiniteSet(At(x, s))
  BY <1>2, <1>3, FS_Subset
<1>5. Occurrences(x, s) \in Nat
  BY <1>4, FS_CardinalityType DEF Occurrences
<1>6. Occurrences(x, s) = 0 <=> At(x, s) = {}
  BY <1>4, FS_EmptySet, Zenon DEF Occurrences
<1>7. At(x, s) = {} <=> \A i \in 1 .. Len(s) : s[i] # x
  BY Zenon DEF At
<1> QED
  BY <1>4, <1>5, <1>6, <1>7

\* Occurrences add up.
LEMMA OccurrencesConcat ==
  ASSUME NEW x, NEW s \in Seq(Byte), NEW t \in Seq(Byte)
  PROVE  Occurrences(x, s \o t) = Occurrences(x, s) + Occurrences(x, t)
<1> DEFINE m == Len(s)
           late == {i \in 1 .. m + Len(t) : i > m /\ t[i - m] = x}
           shift == [j \in At(x, t) |-> j + m]
<1>1. m \in Nat /\ Len(t) \in Nat
  OBVIOUS
<1>2. /\ Len(s \o t) = m + Len(t)
      /\ \A i \in 1 .. m + Len(t) : (s \o t)[i] = IF i <= m THEN s[i] ELSE t[i - m]
  BY ConcatProperties
<1> HIDE DEF m
<1>3. At(x, s \o t) = At(x, s) \cup late
  <2>0. m = Len(s)
    BY DEF m
  <2>1. ASSUME NEW i \in At(x, s \o t) PROVE i \in At(x, s) \cup late
    <3>1. i \in 1 .. m + Len(t) /\ (s \o t)[i] = x
      BY <1>2, <2>1 DEF At
    <3>2. CASE i <= m
      <4>1. i \in 1 .. Len(s) /\ s[i] = x
        BY <1>1, <1>2, <2>0, <3>1, <3>2
      <4> QED
        BY <4>1 DEF At
    <3>3. CASE ~ (i <= m)
      <4>1. i > m /\ t[i - m] = x
        BY <1>1, <1>2, <3>1, <3>3
      <4> QED
        BY <3>1, <4>1
    <3> QED
      BY <3>2, <3>3
  <2>2. ASSUME NEW i \in At(x, s) PROVE i \in At(x, s \o t)
    <3>1. i \in 1 .. m /\ s[i] = x
      BY <2>0, <2>2 DEF At
    <3>2. i \in 1 .. m + Len(t) /\ i <= m
      BY <1>1, <3>1
    <3>3. (s \o t)[i] = x
      BY <1>2, <3>1, <3>2
    <3> QED
      BY <1>2, <3>2, <3>3 DEF At
  <2>3. ASSUME NEW i \in late PROVE i \in At(x, s \o t)
    <3>1. i \in 1 .. m + Len(t) /\ ~ (i <= m) /\ t[i - m] = x
      BY <1>1, <2>3
    <3>2. (s \o t)[i] = x
      BY <1>2, <3>1
    <3> QED
      BY <1>2, <3>1, <3>2 DEF At
  <2> QED
    BY <2>1, <2>2, <2>3
<1>4. shift \in Bijection(At(x, t), late)
  <2>1. ASSUME NEW j \in At(x, t) PROVE shift[j] = j + m /\ j + m \in late /\ j \in Nat
    <3>1. j \in 1 .. Len(t) /\ t[j] = x
      BY <2>1 DEF At
    <3>2. j + m \in 1 .. m + Len(t) /\ j + m > m /\ (j + m) - m = j
      BY <1>1, <3>1
    <3> QED
      BY <2>1, <3>1, <3>2
  <2>2. shift \in [At(x, t) -> late]
    BY <2>1
  <2>3. \A j, k \in At(x, t) : shift[j] = shift[k] => j = k
    BY <1>1, <2>1
  <2>4. ASSUME NEW i \in late PROVE \E j \in At(x, t) : shift[j] = i
    <3>1. i - m \in 1 .. Len(t) /\ t[i - m] = x /\ (i - m) + m = i
      BY <1>1, <2>4
    <3>2. i - m \in At(x, t)
      BY <3>1 DEF At
    <3> QED
      BY <2>1, <3>1, <3>2
  <2> HIDE DEF shift, late
  <2>5. DOMAIN shift = At(x, t)
    BY <2>2
  <2>6. IsInjective(shift)
    BY <2>3, <2>5 DEF IsInjective
  <2> QED
    BY <2>2, <2>4, <2>6 DEF Bijection, Injection, Surjection
<1>5. IsFiniteSet(late) /\ Cardinality(late) = Cardinality(At(x, t))
  <2>1. ExistsBijection(At(x, t), late)
    BY <1>4 DEF ExistsBijection
  <2> HIDE DEF late
  <2> QED
    BY <2>1, OccurrencesFinite, FS_Bijection
<1>6. At(x, s) \cap late = {}
  BY <1>1 DEF At, m
<1> HIDE DEF late
<1>7. /\ IsFiniteSet(At(x, s))
      /\ Cardinality(At(x, s) \cup late)
           = Cardinality(At(x, s)) + Cardinality(late) - Cardinality(At(x, s) \cap late)
  BY <1>5, OccurrencesFinite, FS_Union
<1>8. Cardinality(At(x, s) \cap late) = 0
  BY <1>6, FS_EmptySet, Zenon
<1>9. Cardinality(At(x, s)) \in Nat /\ Cardinality(At(x, t)) \in Nat
  BY OccurrencesFinite DEF Occurrences
<1> QED
  BY <1>3, <1>5, <1>7, <1>8, <1>9 DEF Occurrences

\* None in nothing, one or none in one.
LEMMA OccurrencesSingle ==
  ASSUME NEW x, NEW y \in Byte
  PROVE  /\ Occurrences(x, <<>>) = 0
         /\ x = y => Occurrences(x, <<y>>) = 1
         /\ x # y => Occurrences(x, <<y>>) = 0
<1>1. Occurrences(x, <<>>) = 0
  <2>1. <<>> \in Seq(Byte) /\ Len(<<>>) = 0
    OBVIOUS
  <2>2. \A i \in 1 .. Len(<<>>) : <<>>[i] # x
    BY <2>1
  <2> QED
    BY <2>1, <2>2, OccurrencesFinite
<1>2. <<y>> \in Seq(Byte) /\ Len(<<y>>) = 1 /\ <<y>>[1] = y
  OBVIOUS
<1>3. ASSUME x = y PROVE Occurrences(x, <<y>>) = 1
  <2>1. At(x, <<y>>) = {1}
    BY <1>2, <1>3 DEF At
  <2> QED
    BY <2>1, FS_Singleton, Zenon DEF Occurrences
<1>4. ASSUME x # y PROVE Occurrences(x, <<y>>) = 0
  <2>1. \A i \in 1 .. Len(<<y>>) : <<y>>[i] # x
    BY <1>2, <1>4
  <2> QED
    BY <1>2, <2>1, OccurrencesFinite
<1> QED
  BY <1>1, <1>3, <1>4

\* One when they are equal.
Hits(x, y) == IF x = y THEN 1 ELSE 0

\* One byte more at the end, one byte less at the front.
LEMMA OccurrencesAtEnds ==
  ASSUME NEW x, NEW s \in Seq(Byte)
  PROVE  /\ \A y \in Byte : Occurrences(x, Append(s, y)) = Occurrences(x, s) + Hits(x, y)
         /\ s # <<>> => Occurrences(x, s) = Hits(x, Head(s)) + Occurrences(x, Tail(s))
<1>0. ASSUME NEW y \in Byte PROVE Occurrences(x, <<y>>) = Hits(x, y) /\ <<y>> \in Seq(Byte)
  <2>1. Occurrences(x, <<y>>) = Hits(x, y)
    BY OccurrencesSingle DEF Hits
  <2> QED
    BY <2>1
<1>1. ASSUME NEW y \in Byte PROVE Occurrences(x, Append(s, y)) = Occurrences(x, s) + Hits(x, y)
  <2>1. Append(s, y) = s \o <<y>>
    BY AppendIsConcat
  <2> QED
    BY <1>0, <2>1, OccurrencesConcat
<1>2. ASSUME s # <<>> PROVE Occurrences(x, s) = Hits(x, Head(s)) + Occurrences(x, Tail(s))
  <2>1. Head(s) \in Byte /\ Tail(s) \in Seq(Byte)
    BY <1>2
  <2>2. s = <<Head(s)>> \o Tail(s)
    BY <1>2
  <2>3. Occurrences(x, <<Head(s)>> \o Tail(s)) = Occurrences(x, <<Head(s)>>) + Occurrences(x, Tail(s))
    BY <1>0, <2>1, OccurrencesConcat
  <2> QED
    BY <1>0, <2>1, <2>2, <2>3
<1> QED
  BY <1>1, <1>2

\* The tags are the model's; the code sees the bytes.
Bytes(s) == [i \in 1 .. Len(s) |-> s[i].byte]


\* How many x there are in a bag.
Copies(x, B) == IF x \in DOMAIN B THEN B[x] ELSE 0

\* Copies add up.
LEMMA CopiesAdd ==
  ASSUME NEW x, NEW B, NEW C, IsABag(B), IsABag(C)
  PROVE  Copies(x, B) \in Nat /\ Copies(x, B (+) C) = Copies(x, B) + Copies(x, C)
<1>1. /\ x \in DOMAIN B => B[x] \in Nat
      /\ x \in DOMAIN C => C[x] \in Nat
  BY DEF IsABag
<1>2. DOMAIN (B (+) C) = DOMAIN B \cup DOMAIN C
  BY DEF (+)
<1>3. x \in DOMAIN B \cup DOMAIN C
        => (B (+) C)[x] = Copies(x, B) + Copies(x, C)
  BY DEF (+), Copies
<1> QED
  BY <1>1, <1>2, <1>3 DEF Copies

\* The bag of a sequence counts its occurrences; the bag of one byte has that byte.
LEMMA CopiesOfBytes ==
  ASSUME NEW x
  PROVE  /\ \A s \in Seq(Byte) : Copies(x, ToBag(s)) = Occurrences(x, s)
         /\ \A y \in Byte : Copies(x, SetToBag({y})) = Hits(x, y)
<1>1. ASSUME NEW s \in Seq(Byte) PROVE Copies(x, ToBag(s)) = Occurrences(x, s)
  <2>1. DOMAIN s = 1 .. Len(s)
    OBVIOUS
  <2>2. DOMAIN ToBag(s) = {s[i] : i \in 1 .. Len(s)}
    BY <2>1 DEF ToBag, Range
  <2>3. CASE x \in DOMAIN ToBag(s)
    <3>1. ToBag(s)[x] = Cardinality({i \in DOMAIN s : s[i] = x})
      BY <2>3 DEF ToBag
    <3> QED
      BY <2>1, <2>3, <3>1 DEF Copies, Occurrences, At
  <2>4. CASE x \notin DOMAIN ToBag(s)
    <3>1. \A i \in 1 .. Len(s) : s[i] # x
      BY <2>2, <2>4
    <3> QED
      BY <2>4, <3>1, OccurrencesFinite DEF Copies
  <2> QED
    BY <2>3, <2>4
<1>2. ASSUME NEW y \in Byte PROVE Copies(x, SetToBag({y})) = Hits(x, y)
  BY DEF Copies, SetToBag, Hits
<1> QED
  BY <1>1, <1>2

\* Two bags of bytes that hold every byte equally often are equal.
LEMMA SameCopies ==
  ASSUME NEW B, NEW C, IsABag(B), IsABag(C), BagToSet(B) \subseteq Byte, BagToSet(C) \subseteq Byte,
         \A x \in Byte : Copies(x, B) = Copies(x, C)
  PROVE  B = C
<1>1. /\ \A x \in DOMAIN B : x \in Byte /\ B[x] \in Nat /\ B[x] > 0
      /\ \A x \in DOMAIN C : x \in Byte /\ C[x] \in Nat /\ C[x] > 0
  BY DEF IsABag, BagToSet
<1>2. DOMAIN B = DOMAIN C
  <2>1. ASSUME NEW x \in DOMAIN B PROVE x \in DOMAIN C
    BY <1>1, <2>1 DEF Copies
  <2>2. ASSUME NEW x \in DOMAIN C PROVE x \in DOMAIN B
    BY <1>1, <2>2 DEF Copies
  <2> QED
    BY <2>1, <2>2
<1>3. ASSUME NEW x \in DOMAIN B PROVE B[x] = C[x]
  BY <1>1, <1>2, <1>3 DEF Copies
<1>4. B = [x \in DOMAIN B |-> B[x]] /\ C = [x \in DOMAIN C |-> C[x]]
  BY DEF IsABag
<1> QED
  BY <1>2, <1>3, <1>4

-----------------------------------------------------------------------------
(* The invariant: while nothing is unechoed or evicted, the bytes awaited  *)
(* come in order, and every byte is somewhere.                             *)

InCall(kind) == IF tx_echo_mutex = kind THEN todo ELSE <<>>

\* What will reach the filter, in order: received, answered, and what the switch will echo.
Coming == (InCall("filter") \o Bytes(rx)) \o (line \o sending)

\* The bytes whose echo is awaited, or will be when the call in progress is through.
Awaited == Pending \o InCall("push")

\* What the filter has let through but not handed over.
HeldBack == IF tx_echo_mutex = "filter" THEN kept ELSE <<>>

InOrder == Embeds(Awaited, Coming)

\* Nothing but the switch's own output and the echoes awaited is under way or was let through.
Arriving(x) == Copies(x, Passed) + (Occurrences(x, HeldBack) + Occurrences(x, Coming))
Expected(x) == Copies(x, own) + Occurrences(x, Awaited)
Complete == \A x \in Byte : Arriving(x) = Expected(x)

Lossless == unechoed = 0 /\ evicted = 0
EchoInv == Lossless => InOrder /\ Complete

\* The sequences of the invariant are sequences of bytes.
LEMMA EchoSequences ==
  ASSUME RingInv, Places
  PROVE  /\ Pending \in Seq(Byte) /\ todo \in Seq(Byte) /\ kept \in Seq(Byte)
         /\ line \in Seq(Byte) /\ sending \in Seq(Byte) /\ Bytes(rx) \in Seq(Byte)
         /\ InCall("filter") \in Seq(Byte) /\ InCall("push") \in Seq(Byte)
         /\ HeldBack \in Seq(Byte) /\ Coming \in Seq(Byte) /\ Awaited \in Seq(Byte)
<1>1. Pending \in Seq(Byte)
  BY PendingFacts
<1>2. todo \in Seq(Byte) /\ kept \in Seq(Byte) /\ <<>> \in Seq(Byte)
  BY DEF RingInv, EchoTypeOK
<1>3. line \in Seq(Byte) /\ sending \in Seq(Byte)
  BY DEF Places
<1>4. Bytes(rx) \in Seq(Byte)
  <2>1. Len(rx) \in Nat
    BY LengthsAreNat
  <2> QED
    BY <2>1, ReceivedBytes DEF Places, Bytes
<1>5. InCall("filter") \in Seq(Byte) /\ InCall("push") \in Seq(Byte) /\ HeldBack \in Seq(Byte)
  BY <1>2 DEF InCall, HeldBack
<1>6. InCall("filter") \o Bytes(rx) \in Seq(Byte) /\ line \o sending \in Seq(Byte)
  BY <1>3, <1>4, <1>5, ConcatProperties
<1>7. Coming \in Seq(Byte) /\ Awaited \in Seq(Byte)
  BY <1>1, <1>5, <1>6, ConcatProperties DEF Coming, Awaited
<1> QED
  BY <1>1, <1>2, <1>3, <1>4, <1>5, <1>7

\* Concatenation of byte sequences can be regrouped.
LEMMA Regroup ==
  ASSUME NEW s \in Seq(Byte), NEW t \in Seq(Byte), NEW u \in Seq(Byte)
  PROVE  (s \o t) \o u = s \o (t \o u)
<1> DEFINE l == (s \o t) \o u
           r == s \o (t \o u)
<1>1. Len(s) \in Nat /\ Len(t) \in Nat /\ Len(u) \in Nat
  OBVIOUS
<1>2. /\ s \o t \in Seq(Byte) /\ Len(s \o t) = Len(s) + Len(t)
      /\ t \o u \in Seq(Byte) /\ Len(t \o u) = Len(t) + Len(u)
  BY ConcatProperties
<1>3. l \in Seq(Byte) /\ r \in Seq(Byte)
      /\ Len(l) = (Len(s) + Len(t)) + Len(u) /\ Len(r) = Len(s) + (Len(t) + Len(u))
  BY <1>2, ConcatProperties
<1>4. ASSUME NEW i \in 1 .. Len(l) PROVE l[i] = r[i]
  <2>1. i \in 1 .. (Len(s) + Len(t)) + Len(u) /\ i \in 1 .. Len(s) + (Len(t) + Len(u))
    BY <1>1, <1>3
  <2>2. /\ l[i] = IF i <= Len(s) + Len(t) THEN (s \o t)[i] ELSE u[i - (Len(s) + Len(t))]
        /\ r[i] = IF i <= Len(s) THEN s[i] ELSE (t \o u)[i - Len(s)]
    BY <1>2, <2>1, ConcatProperties
  <2>3. CASE i <= Len(s)
    BY <1>1, <2>1, <2>2, <2>3, ConcatProperties
  <2>4. CASE ~ (i <= Len(s)) /\ i <= Len(s) + Len(t)
    <3>1. i - Len(s) \in 1 .. Len(t) + Len(u) /\ i - Len(s) <= Len(t) /\ i \in 1 .. Len(s) + Len(t)
      BY <1>1, <2>1, <2>4
    <3>2. (t \o u)[i - Len(s)] = t[i - Len(s)] /\ (s \o t)[i] = t[i - Len(s)]
      BY <2>4, <3>1, ConcatProperties
    <3> QED
      BY <2>2, <2>4, <3>2
  <2>5. CASE ~ (i <= Len(s)) /\ ~ (i <= Len(s) + Len(t))
    <3>1. /\ i - Len(s) \in 1 .. Len(t) + Len(u) /\ ~ (i - Len(s) <= Len(t))
          /\ (i - Len(s)) - Len(t) = i - (Len(s) + Len(t))
      BY <1>1, <2>1, <2>5
    <3>2. (t \o u)[i - Len(s)] = u[(i - Len(s)) - Len(t)]
      BY <3>1, ConcatProperties
    <3> QED
      BY <2>2, <2>5, <3>1, <3>2
  <2> QED
    BY <2>3, <2>4, <2>5
<1>5. Len(l) = Len(r)
  BY <1>1, <1>3
<1> HIDE DEF l, r
<1>6. l = r
  BY <1>3, <1>4, <1>5, SeqEqual
<1> QED
  BY <1>6 DEF l, r

\* Head and tail of a concatenation are those of its first part.
LEMMA TailOfConcat ==
  ASSUME NEW s \in Seq(Byte), NEW t \in Seq(Byte), s # <<>>
  PROVE  s \o t # <<>> /\ Head(s \o t) = Head(s) /\ Tail(s \o t) = Tail(s) \o t
<1>1. Len(s) \in Nat /\ Len(s) > 0 /\ Len(t) \in Nat
  OBVIOUS
<1>2. Len(s \o t) = Len(s) + Len(t) /\ (s \o t)[1] = s[1]
  BY <1>1
<1>3. s \o t # <<>>
  BY <1>1, <1>2
<1>4. Tail(s) \in Seq(Byte) /\ Len(Tail(s)) = Len(s) - 1
      /\ \A i \in 1 .. Len(s) - 1 : Tail(s)[i] = s[i + 1]
  BY HeadTailProperties
<1>5. /\ Tail(s \o t) \in Seq(Byte) /\ Len(Tail(s \o t)) = Len(s) + Len(t) - 1
      /\ \A i \in 1 .. Len(s) + Len(t) - 1 : Tail(s \o t)[i] = (s \o t)[i + 1]
  BY <1>2, <1>3, ConcatProperties, HeadTailProperties
<1>6. /\ Tail(s) \o t \in Seq(Byte) /\ Len(Tail(s) \o t) = Len(s) + Len(t) - 1
      /\ \A i \in 1 .. Len(s) + Len(t) - 1 :
           (Tail(s) \o t)[i] = IF i <= Len(s) - 1 THEN Tail(s)[i] ELSE t[i - (Len(s) - 1)]
  BY <1>1, <1>4, ConcatProperties
<1>7. ASSUME NEW i \in 1 .. Len(s) + Len(t) - 1
      PROVE  Tail(s \o t)[i] = (Tail(s) \o t)[i]
  <2>1. i + 1 \in 1 .. Len(s) + Len(t)
    BY <1>1
  <2>2. (s \o t)[i + 1] = IF i + 1 <= Len(s) THEN s[i + 1] ELSE t[(i + 1) - Len(s)]
    BY <2>1, ConcatProperties
  <2>3. CASE i <= Len(s) - 1
    BY <1>1, <1>4, <1>5, <1>6, <2>2, <2>3
  <2>4. CASE ~ (i <= Len(s) - 1)
    <3>1. i - (Len(s) - 1) = (i + 1) - Len(s)
      BY <1>1
    <3> QED
      BY <1>1, <1>5, <1>6, <2>2, <2>4, <3>1
  <2> QED
    BY <2>3, <2>4
<1>8. Tail(s \o t) = Tail(s) \o t
  BY <1>5, <1>6, <1>7, SeqEqual
<1> QED
  BY <1>2, <1>3, <1>8

\* The first byte of the second part may as well be the last of the first.
LEMMA MoveOver ==
  ASSUME NEW s \in Seq(Byte), NEW t \in Seq(Byte), t # <<>>
  PROVE  Append(s, Head(t)) \o Tail(t) = s \o t
<1>1. Head(t) \in Byte /\ Tail(t) \in Seq(Byte) /\ <<Head(t)>> \in Seq(Byte)
  OBVIOUS
<1>2. t = <<Head(t)>> \o Tail(t)
  OBVIOUS
<1>3. Append(s, Head(t)) = s \o <<Head(t)>>
  BY <1>1, AppendIsConcat
<1>4. (s \o <<Head(t)>>) \o Tail(t) = s \o (<<Head(t)>> \o Tail(t))
  BY <1>1, Regroup
<1> QED
  BY <1>2, <1>3, <1>4

\* Appending to the second part appends to the whole.
LEMMA AppendToConcat ==
  ASSUME NEW s \in Seq(Byte), NEW t \in Seq(Byte), NEW x \in Byte
  PROVE  s \o Append(t, x) = Append(s \o t, x)
<1>1. <<x>> \in Seq(Byte) /\ s \o t \in Seq(Byte)
  BY ConcatProperties
<1>2. Append(t, x) = t \o <<x>> /\ Append(s \o t, x) = (s \o t) \o <<x>>
  BY <1>1, AppendIsConcat
<1>3. (s \o t) \o <<x>> = s \o (t \o <<x>>)
  BY <1>1, Regroup
<1> QED
  BY <1>2, <1>3

\* A byte more is received.
LEMMA BytesAppend ==
  ASSUME NEW s \in Seq([byte : Byte, echo : BOOLEAN]), NEW x \in Byte, NEW e \in BOOLEAN
  PROVE  Bytes(Append(s, [byte |-> x, echo |-> e])) = Append(Bytes(s), x)
<1> DEFINE T == [byte : Byte, echo : BOOLEAN]
           r == [byte |-> x, echo |-> e]
           s2 == Append(s, r)
<1>1. r \in T /\ r.byte = x
  OBVIOUS
<1>2. s \in Seq(T) /\ Len(s) \in Nat
  OBVIOUS
<1>3. /\ \A i \in 1 .. Len(s) : s[i].byte \in Byte
      /\ Bytes(s) \in Seq(Byte) /\ Len(Bytes(s)) = Len(s)
  <2>1. \A i \in 1 .. Len(s) : s[i] \in T
    BY <1>2, ElementOfSeq
  <2>2. \A i \in 1 .. Len(s) : s[i].byte \in Byte
    BY <2>1
  <2> QED
    BY <1>2, <2>2 DEF Bytes
<1> HIDE DEF T, r
<1>4. /\ Len(s2) = Len(s) + 1 /\ \A i \in 1 .. Len(s) : s2[i] = s[i]
      /\ s2[Len(s) + 1] = r
  BY <1>1, <1>2, AppendProperties
<1> HIDE DEF s2
<1>5. /\ Append(Bytes(s), x) \in Seq(Byte) /\ Len(Append(Bytes(s), x)) = Len(s) + 1
      /\ \A i \in 1 .. Len(s) : Append(Bytes(s), x)[i] = s[i].byte
      /\ Append(Bytes(s), x)[Len(s) + 1] = x
  <2>1. \A i \in 1 .. Len(s) : Bytes(s)[i] = s[i].byte
    BY DEF Bytes
  <2> QED
    BY <1>2, <1>3, <2>1, AppendProperties
<1>6. ASSUME NEW i \in 1 .. Len(s) + 1
      PROVE  s2[i].byte \in Byte /\ s2[i].byte = Append(Bytes(s), x)[i]
  <2>1. CASE i \in 1 .. Len(s)
    <3>1. s2[i] = s[i] /\ Append(Bytes(s), x)[i] = s[i].byte
      BY <1>4, <1>5, <2>1
    <3>2. s2[i].byte = s[i].byte /\ s[i].byte \in Byte
      BY <1>3, <2>1, <3>1
    <3> QED
      BY <3>1, <3>2
  <2>2. CASE i = Len(s) + 1
    <3>1. s2[i] = r /\ Append(Bytes(s), x)[i] = x
      BY <1>4, <1>5, <2>2
    <3>2. s2[i].byte = r.byte
      BY <3>1
    <3> QED
      BY <1>1, <3>1, <3>2
  <2>3. i \in 1 .. Len(s) \/ i = Len(s) + 1
    BY <1>2
  <2> QED
    BY <2>1, <2>2, <2>3, Zenon
<1>7. /\ Bytes(s2) \in Seq(Byte) /\ Len(Bytes(s2)) = Len(s) + 1
      /\ \A i \in 1 .. Len(s) + 1 : Bytes(s2)[i] = s2[i].byte
  BY <1>2, <1>4, <1>6 DEF Bytes
<1>8. Bytes(s2) = Append(Bytes(s), x)
  BY <1>5, <1>6, <1>7, SeqEqual
<1> QED
  BY <1>8 DEF s2, r

\* What was let through makes a bag.
LEMMA PassedIsABag ==
  ASSUME Bags
  PROVE  IsABag(Passed) /\ BagToSet(Passed) \subseteq Byte
BY BagsAdd DEF Bags, Passed

\* The counts of the invariant are numbers.
LEMMA ArrivingCounts ==
  ASSUME RingInv, Places, Bags, NEW x
  PROVE  /\ Copies(x, Passed) \in Nat /\ Copies(x, own) \in Nat
         /\ Occurrences(x, HeldBack) \in Nat /\ Occurrences(x, Coming) \in Nat
         /\ Occurrences(x, Awaited) \in Nat
         /\ \A s \in Seq(Byte) : Occurrences(x, s) \in Nat
BY EchoSequences, CopiesAdd, OccurrencesFinite, PassedIsABag DEF Bags

\* What the step leaves alone.
LEMMA EchoInvUnchanged ==
  ASSUME EchoInv, Lossless, Coming' = Coming, Awaited' = Awaited, HeldBack' = HeldBack,
         UNCHANGED <<own, Passed>>
  PROVE  InOrder' /\ Complete'
<1>1. InOrder'
  BY DEF EchoInv, InOrder
<1>2. \A x : Arriving(x)' = Arriving(x) /\ Expected(x)' = Expected(x)
  BY DEF Arriving, Expected
<1> QED
  BY <1>1, <1>2 DEF EchoInv, Complete

\* cdc_send: the bytes are awaited from now on, and will come last.
LEMMA SendInOrder ==
  ASSUME ConsoleInv, NEW data \in Chunks, CdcSend(data), EchoInv, Lossless
  PROVE  InOrder' /\ Complete'
<1>1. /\ tx_echo_mutex = "free" /\ tx_echo_mutex' = "push" /\ todo' = data
      /\ sending = <<>> /\ sending' = data /\ UNCHANGED <<ring, line, rx, own, Passed>>
  BY DEF CdcSend, PushCall, Passed
<1>2. data \in Seq(Byte)
  BY ChunkFacts
<1>3. /\ Pending \in Seq(Byte) /\ line \in Seq(Byte) /\ Bytes(rx) \in Seq(Byte)
      /\ Coming \in Seq(Byte) /\ Awaited \in Seq(Byte)
  BY EchoSequences DEF ConsoleInv
<1>4. Awaited' = Awaited \o data
  <2>1. Awaited = Pending \o <<>> /\ Pending \o <<>> = Pending
    BY <1>1, <1>3, ConcatEmptySeq DEF Awaited, InCall
  <2>2. Pending' = Pending /\ Awaited' = Pending' \o data
    BY <1>1, PendingUnchanged DEF Awaited, InCall
  <2> QED
    BY <2>1, <2>2
<1>5. Coming' = Coming \o data
  <2> DEFINE here == <<>> \o Bytes(rx)
  <2>1. Coming = here \o (line \o <<>>) /\ Coming' = here \o (line \o data)
    BY <1>1 DEF Coming, InCall, Bytes
  <2>2. here \in Seq(Byte) /\ line \o <<>> = line
    BY <1>3, ConcatEmptySeq
  <2>3. (here \o line) \o data = here \o (line \o data)
    <3>1. line \in Seq(Byte)
      BY <1>3
    <3> HIDE DEF here
    <3> QED
      BY <1>2, <2>2, <3>1, Regroup
  <2> QED
    BY <2>1, <2>2, <2>3
<1>6. InOrder'
  BY <1>2, <1>3, <1>4, <1>5, EmbedsExtend DEF EchoInv, InOrder
<1>7. ASSUME NEW x \in Byte PROVE Arriving(x)' = Expected(x)'
  <2>1. /\ Occurrences(x, Coming') = Occurrences(x, Coming) + Occurrences(x, data)
        /\ Occurrences(x, Awaited') = Occurrences(x, Awaited) + Occurrences(x, data)
    BY <1>2, <1>3, <1>4, <1>5, OccurrencesConcat
  <2>2. HeldBack' = HeldBack /\ Arriving(x) = Expected(x)
    BY <1>1 DEF HeldBack, EchoInv, Complete
  <2>3. /\ Arriving(x)' = Copies(x, Passed) + (Occurrences(x, HeldBack) + Occurrences(x, Coming'))
        /\ Expected(x)' = Copies(x, own) + Occurrences(x, Awaited')
    BY <1>1, <2>2 DEF Arriving, Expected
  <2> QED
    <3>1. /\ Copies(x, Passed) \in Nat /\ Copies(x, own) \in Nat /\ Occurrences(x, data) \in Nat
          /\ Occurrences(x, HeldBack) \in Nat /\ Occurrences(x, Coming) \in Nat
          /\ Occurrences(x, Awaited) \in Nat
      BY <1>2, ArrivingCounts DEF ConsoleInv
    <3>2. Copies(x, Passed) + (Occurrences(x, HeldBack) + Occurrences(x, Coming))
            = Copies(x, own) + Occurrences(x, Awaited)
      BY <2>2 DEF Arriving, Expected
    <3> QED
      BY <2>1, <2>3, <3>1, <3>2
<1> QED
  BY <1>6, <1>7 DEF Complete

\* tx_echo_push: a byte moves from the call into the ring.
LEMMA PushInOrder ==
  ASSUME ConsoleInv, RingInv', Push, EchoInv, Lossless, Lossless'
  PROVE  InOrder' /\ Complete'
<1>1. /\ tx_echo_mutex = "push" /\ tx_echo_mutex' = "push" /\ todo # <<>> /\ todo' = Tail(todo)
      /\ UNCHANGED <<kept, sending, line, rx, own, Passed>>
  BY DEF Push, PushByte, Passed
<1>2. Pending \in Seq(Byte) /\ todo \in Seq(Byte)
  BY EchoSequences DEF ConsoleInv
<1>3. tx_echo_count # TX_ECHO_BUF_SIZE
  BY LengthsAreNat DEF Push, Lossless, ConsoleInv
<1>4. Pending' = Append(Pending, Head(todo))
  <2>1. Queue!Remember
    BY PushRefines DEF Push, ConsoleInv
  <2>2. Len(Pending) = tx_echo_count
    BY PendingFacts DEF ConsoleInv
  <2> QED
    BY <1>3, <2>1, <2>2 DEF Queue!Remember
<1>5. Append(Pending, Head(todo)) \o Tail(todo) = Pending \o todo
  BY <1>1, <1>2, MoveOver
<1>6. Awaited' = Awaited
  BY <1>1, <1>4, <1>5 DEF Awaited, InCall
<1>7. Coming' = Coming /\ HeldBack' = HeldBack
  BY <1>1 DEF Coming, InCall, HeldBack, Bytes
<1> QED
  BY <1>1, <1>6, <1>7, EchoInvUnchanged

\* The call is over; nothing moves.
LEMMA PushReturnInOrder ==
  ASSUME ConsoleInv, PushReturn, EchoInv, Lossless
  PROVE  InOrder' /\ Complete'
<1>1. /\ tx_echo_mutex = "push" /\ tx_echo_mutex' = "free" /\ todo = <<>>
      /\ UNCHANGED <<ring, todo, kept, sending, line, rx, own, Passed>>
  BY DEF PushReturn, Return, outside, Passed
<1>2. Awaited' = Awaited
  BY <1>1, PendingUnchanged DEF Awaited, InCall
<1>3. Coming' = Coming /\ HeldBack' = HeldBack
  BY <1>1 DEF Coming, InCall, HeldBack, Bytes
<1> QED
  BY <1>1, <1>2, <1>3, EchoInvUnchanged

\* A transfer that loses nothing moves all the bytes to the switch.
LEMMA TransmitInOrder ==
  ASSUME ConsoleInv, Transmit, EchoInv, Lossless, Lossless'
  PROVE  InOrder' /\ Complete'
<1>1. PICK n \in 0 .. Len(sending) : /\ line' = line \o SubSeq(sending, 1, n)
                                     /\ unechoed' = unechoed + Len(sending) - n
  BY DEF Transmit
<1>2. sending' = <<>> /\ UNCHANGED <<ring, tx_echo_mutex, todo, kept, rx, own, Passed>>
  BY DEF Transmit, echoVars, Passed
<1>3. line \in Seq(Byte) /\ sending \in Seq(Byte) /\ Len(sending) \in Nat
  BY LengthsAreNat DEF ConsoleInv, Places
<1>4. n = Len(sending)
  BY <1>1, <1>3 DEF Lossless
<1>5. SubSeq(sending, 1, Len(sending)) = sending
  BY <1>3, SubSeqFull
<1>6. line' \o sending' = line \o sending
  <2>1. line \o sending \in Seq(Byte)
    BY <1>3, ConcatProperties
  <2>2. line' = line \o sending
    BY <1>1, <1>4, <1>5
  <2>3. (line \o sending) \o <<>> = line \o sending
    BY <2>1, ConcatEmptySeq
  <2> QED
    BY <1>2, <2>2, <2>3
<1>7. Coming' = Coming
  BY <1>2, <1>6 DEF Coming, InCall, Bytes
<1>8. Awaited' = Awaited /\ HeldBack' = HeldBack
  BY <1>2, PendingUnchanged DEF Awaited, InCall, HeldBack
<1> QED
  BY <1>2, <1>7, <1>8, EchoInvUnchanged

\* The switch echoes a byte: it turns round.
LEMMA SwitchEchoInOrder ==
  ASSUME ConsoleInv, SwitchEcho, EchoInv, Lossless
  PROVE  InOrder' /\ Complete'
<1>1. /\ line # <<>> /\ line' = Tail(line) /\ rx' = Append(rx, [byte |-> Head(line), echo |-> TRUE])
      /\ UNCHANGED <<ring, tx_echo_mutex, todo, kept, sending, own, Passed>>
  BY DEF SwitchEcho, echoVars, Passed
<1>2. /\ line \in Seq(Byte) /\ sending \in Seq(Byte) /\ Bytes(rx) \in Seq(Byte)
      /\ InCall("filter") \in Seq(Byte)
  BY EchoSequences DEF ConsoleInv
<1>3. Head(line) \in Byte /\ Tail(line) \in Seq(Byte)
  BY <1>1, <1>2
<1>4. Bytes(rx') = Append(Bytes(rx), Head(line))
  BY <1>1, <1>3, BytesAppend DEF ConsoleInv, Places
<1> DEFINE before == InCall("filter") \o Bytes(rx)
           after  == line \o sending
<1>5. before \in Seq(Byte) /\ after \in Seq(Byte)
  BY <1>2, ConcatProperties
<1>6. Coming' = Coming
  <2>1. InCall("filter") \o Append(Bytes(rx), Head(line)) = Append(before, Head(line))
    BY <1>2, <1>3, AppendToConcat
  <2>2. Coming' = Append(before, Head(line)) \o (Tail(line) \o sending)
    BY <1>1, <1>4, <2>1 DEF Coming, InCall, Bytes
  <2>3. after # <<>> /\ Head(after) = Head(line) /\ Tail(after) = Tail(line) \o sending
    BY <1>1, <1>2, TailOfConcat
  <2>4. Append(before, Head(after)) \o Tail(after) = before \o after
    <3> HIDE DEF before, after
    <3> QED
      BY <1>5, <2>3, MoveOver
  <2>5. Coming = before \o after
    BY DEF Coming
  <2> HIDE DEF before, after
  <2> QED
    BY <2>2, <2>3, <2>4, <2>5
<1>7. Awaited' = Awaited /\ HeldBack' = HeldBack
  BY <1>1, PendingUnchanged DEF Awaited, InCall, HeldBack
<1> QED
  BY <1>1, <1>6, <1>7, EchoInvUnchanged

\* The switch prints: a byte that nobody awaits comes in between.
LEMMA SwitchPrintInOrder ==
  ASSUME ConsoleInv, NEW b \in Byte, SwitchPrint(b), EchoInv, Lossless
  PROVE  InOrder' /\ Complete'
<1>1. /\ rx' = Append(rx, [byte |-> b, echo |-> FALSE]) /\ own' = own (+) SetToBag({b})
      /\ UNCHANGED <<ring, tx_echo_mutex, todo, kept, sending, line, Passed>>
  BY DEF SwitchPrint, echoVars, Passed
<1> DEFINE before == InCall("filter") \o Bytes(rx)
           after  == line \o sending
<1>2. before \in Seq(Byte) /\ after \in Seq(Byte) /\ Awaited \in Seq(Byte)
  BY EchoSequences, ConcatProperties DEF ConsoleInv
<1>3. Coming = before \o after /\ Coming' = Append(before, b) \o after
  <2>1. Bytes(rx') = Append(Bytes(rx), b)
    BY <1>1, BytesAppend DEF ConsoleInv, Places
  <2>2. InCall("filter") \o Append(Bytes(rx), b) = Append(before, b)
    BY EchoSequences, AppendToConcat DEF ConsoleInv
  <2> QED
    BY <1>1, <2>1, <2>2 DEF Coming, InCall, Bytes
<1>4. Awaited' = Awaited /\ HeldBack' = HeldBack
  BY <1>1, PendingUnchanged DEF Awaited, InCall, HeldBack
<1> HIDE DEF before, after
<1>5. InOrder'
  BY <1>2, <1>3, <1>4, EmbedsInsert DEF EchoInv, InOrder
<1>6. ASSUME NEW x \in Byte PROVE Arriving(x)' = Expected(x)'
  <2>1. Occurrences(x, Coming') = Occurrences(x, Coming) + Hits(x, b)
    <3>1. /\ Occurrences(x, before \o after) = Occurrences(x, before) + Occurrences(x, after)
          /\ Occurrences(x, before) \in Nat /\ Occurrences(x, after) \in Nat
      BY <1>2, OccurrencesConcat, OccurrencesFinite
    <3>2. Append(before, b) \in Seq(Byte)
      BY <1>2
    <3>3. Occurrences(x, Append(before, b) \o after)
            = Occurrences(x, Append(before, b)) + Occurrences(x, after)
      BY <1>2, <3>2, OccurrencesConcat
    <3>4. Occurrences(x, Append(before, b)) = Occurrences(x, before) + Hits(x, b)
      BY <1>2, OccurrencesAtEnds
    <3> QED
      BY <1>3, <3>1, <3>3, <3>4 DEF Hits
  <2>2. Copies(x, own') = Copies(x, own) + Hits(x, b)
    <3>1. IsABag(SetToBag({b}))
      BY DEF IsABag, SetToBag
    <3>2. IsABag(own)
      BY DEF ConsoleInv, Bags
    <3>3. Copies(x, own (+) SetToBag({b})) = Copies(x, own) + Copies(x, SetToBag({b}))
      BY <3>1, <3>2, CopiesAdd
    <3> QED
      BY <1>1, <3>3, CopiesOfBytes
  <2>3. Arriving(x) = Expected(x)
    BY DEF EchoInv, Complete
  <2>4. /\ Arriving(x)' = Copies(x, Passed) + (Occurrences(x, HeldBack) + Occurrences(x, Coming'))
        /\ Expected(x)' = Copies(x, own') + Occurrences(x, Awaited)
    BY <1>1, <1>4 DEF Arriving, Expected
  <2>5. /\ Copies(x, Passed) \in Nat /\ Copies(x, own) \in Nat /\ Hits(x, b) \in Nat
        /\ Occurrences(x, HeldBack) \in Nat /\ Occurrences(x, Coming) \in Nat
        /\ Occurrences(x, Awaited) \in Nat
    BY ArrivingCounts DEF ConsoleInv, Hits
  <2>6. Copies(x, Passed) + (Occurrences(x, HeldBack) + Occurrences(x, Coming))
          = Copies(x, own) + Occurrences(x, Awaited)
    BY <2>3 DEF Arriving, Expected
  <2> QED
    BY <2>1, <2>2, <2>4, <2>5, <2>6
<1> QED
  BY <1>5, <1>6 DEF Complete

\* What is received is what the callback is given and what it is not.
LEMMA BytesSplit ==
  ASSUME NEW s \in Seq([byte : Byte, echo : BOOLEAN]), NEW n \in Nat, n <= Len(s)
  PROVE  [i \in 1 .. n |-> s[i].byte] \o Bytes(SubSeq(s, n + 1, Len(s))) = Bytes(s)
<1> DEFINE T == [byte : Byte, echo : BOOLEAN]
           first == [i \in 1 .. n |-> s[i].byte]
           rest  == SubSeq(s, n + 1, Len(s))
<1>1. s \in Seq(T) /\ Len(s) \in Nat
  OBVIOUS
<1>2. \A i \in 1 .. Len(s) : s[i] \in T /\ s[i].byte \in Byte
  <2>1. \A i \in 1 .. Len(s) : s[i] \in T
    BY <1>1, ElementOfSeq
  <2> QED
    BY <2>1
<1> HIDE DEF T
<1>0. PICK k \in Nat : Len(s) = n + k
  <2>1. Len(s) - n \in Nat /\ Len(s) = n + (Len(s) - n)
    BY <1>1
  <2> QED
    BY <2>1
<1>3. Len(rest) = k /\ \A i \in 1 .. k : rest[i] = s[n + i]
  <2>1. \A i \in n + 1 .. n + k : s[i] \in T
    BY <1>2, <1>0
  <2>2. /\ Len(rest) = IF n + 1 <= n + k THEN (n + k) - (n + 1) + 1 ELSE 0
        /\ \A i \in 1 .. (n + k) - (n + 1) + 1 : rest[i] = s[(n + 1) + i - 1]
    <3>1. rest = SubSeq(s, n + 1, n + k)
      BY <1>0
    <3> HIDE DEF rest
    <3>2. n + 1 \in Int /\ n + k \in Int
      OBVIOUS
    <3> QED
      BY <2>1, <3>1, <3>2, SubSeqProperties
  <2>3. (n + k) - (n + 1) + 1 = k /\ (n + 1 <= n + k <=> k # 0)
    OBVIOUS
  <2>4. Len(rest) = k
    BY <2>2, <2>3
  <2>5. ASSUME NEW i \in 1 .. k PROVE rest[i] = s[n + i]
    <3>1. (n + 1) + i - 1 = n + i
      OBVIOUS
    <3> QED
      BY <2>2, <2>3, <3>1
  <2> QED
    BY <2>4, <2>5
<1> HIDE DEF rest
<1>4. first \in Seq(Byte) /\ Len(first) = n /\ \A i \in 1 .. n : first[i] = s[i].byte
  BY <1>1, <1>2
<1> HIDE DEF first
<1>5. /\ Bytes(rest) \in Seq(Byte) /\ Len(Bytes(rest)) = k
      /\ \A i \in 1 .. k : Bytes(rest)[i] = s[n + i].byte
  <2>1. ASSUME NEW i \in 1 .. k PROVE rest[i].byte = s[n + i].byte /\ s[n + i].byte \in Byte
    <3>1. n + i \in 1 .. Len(s)
      BY <1>0
    <3>2. rest[i] = s[n + i]
      BY <1>3
    <3> QED
      BY <1>2, <3>1, <3>2
  <2>2. Bytes(rest) = [i \in 1 .. k |-> s[n + i].byte]
    BY <1>3, <2>1 DEF Bytes
  <2>3. \A i \in 1 .. k : s[n + i].byte \in Byte
    BY <2>1
  <2> QED
    BY <2>2, <2>3
<1>6. Bytes(s) \in Seq(Byte) /\ Len(Bytes(s)) = Len(s) /\ \A i \in 1 .. Len(s) : Bytes(s)[i] = s[i].byte
  BY <1>1, <1>2 DEF Bytes
<1>7. /\ first \o Bytes(rest) \in Seq(Byte) /\ Len(first \o Bytes(rest)) = n + k
      /\ \A i \in 1 .. n + k : (first \o Bytes(rest))[i]
                                  = IF i <= n THEN first[i] ELSE Bytes(rest)[i - n]
  <2>1. first \in Seq(Byte) /\ Len(first) = n /\ Bytes(rest) \in Seq(Byte) /\ Len(Bytes(rest)) = k
    BY <1>4, <1>5
  <2> QED
    BY <2>1, ConcatProperties
<1>8. ASSUME NEW i \in 1 .. n + k PROVE (first \o Bytes(rest))[i] = Bytes(s)[i]
  <2>0. Bytes(s)[i] = s[i].byte
    BY <1>0, <1>6
  <2>1. CASE i <= n
    <3>1. i \in 1 .. n
      BY <2>1
    <3> QED
      BY <1>4, <1>7, <2>0, <2>1, <3>1
  <2>2. CASE ~ (i <= n)
    <3>1. i - n \in 1 .. k /\ n + (i - n) = i
      BY <2>2
    <3>2. (first \o Bytes(rest))[i] = Bytes(rest)[i - n]
      BY <1>7, <2>2
    <3>3. Bytes(rest)[i - n] = s[n + (i - n)].byte
      BY <1>5, <3>1
    <3> QED
      BY <2>0, <3>1, <3>2, <3>3
  <2> QED
    BY <2>1, <2>2
<1>9. first \o Bytes(rest) = Bytes(s)
  BY <1>0, <1>6, <1>7, <1>8, SeqEqual
<1> QED
  BY <1>9 DEF first, rest

\* cdc_rx_callback: what was received is now in the call, in the same order.
LEMMA CallbackInOrder ==
  ASSUME ConsoleInv, NEW n \in 1 .. MaxChunk, RxCallback(n), EchoInv, Lossless
  PROVE  InOrder' /\ Complete'
<1>1. /\ tx_echo_mutex = "free" /\ tx_echo_mutex' = "filter"
      /\ todo' = [i \in 1 .. n |-> rx[i].byte] /\ kept' = <<>>
      /\ rx' = SubSeq(rx, n + 1, Len(rx)) /\ UNCHANGED <<ring, sending, line, own, Passed>>
  BY DEF RxCallback, FilterCall, Passed
<1>2. n \in Nat /\ n <= Len(rx)
  BY BoundsAssumption DEF RxCallback
<1>3. Bytes(rx) \in Seq(Byte)
  BY EchoSequences DEF ConsoleInv
<1>4. InCall("filter")' \o Bytes(rx') = InCall("filter") \o Bytes(rx)
  <2>1. <<>> \o Bytes(rx) = Bytes(rx)
    BY <1>3, ConcatEmptySeq
  <2>2. todo' \o Bytes(rx') = Bytes(rx)
    BY <1>1, <1>2, BytesSplit DEF ConsoleInv, Places
  <2> QED
    BY <1>1, <2>1, <2>2 DEF InCall
<1>5. Coming' = Coming
  <2>1. Coming' = (InCall("filter")' \o Bytes(rx')) \o (line \o sending)
    BY <1>1 DEF Coming, Bytes
  <2> QED
    BY <1>4, <2>1 DEF Coming
<1>6. Awaited' = Awaited /\ HeldBack' = HeldBack
  BY <1>1, PendingUnchanged DEF Awaited, InCall, HeldBack
<1> QED
  BY <1>1, <1>5, <1>6, EchoInvUnchanged

\* In a filter call the first byte to come is the first of the call.
LEMMA FilterTakesFirst ==
  ASSUME ConsoleInv, RingInv', Filter
  PROVE  /\ Coming # <<>> /\ Head(Coming) = Head(todo) /\ Coming' = Tail(Coming)
         /\ Awaited = Pending /\ Awaited' = Pending' /\ HeldBack = kept /\ HeldBack' = kept'
         /\ Head(todo) \in Byte
<1>1. /\ tx_echo_mutex = "filter" /\ tx_echo_mutex' = "filter" /\ todo # <<>> /\ todo' = Tail(todo)
      /\ UNCHANGED <<sending, line, rx>>
  BY DEF Filter, DropEcho, KeepByte, outside
<1>2. /\ todo \in Seq(Byte) /\ Bytes(rx) \in Seq(Byte) /\ line \o sending \in Seq(Byte)
      /\ Pending \in Seq(Byte)
  BY EchoSequences, ConcatProperties DEF ConsoleInv
<1> DEFINE call == todo \o Bytes(rx)
           back == line \o sending
<1>3. call # <<>> /\ Head(call) = Head(todo) /\ Tail(call) = Tail(todo) \o Bytes(rx)
  BY <1>1, <1>2, TailOfConcat
<1>4. call \in Seq(Byte)
  BY <1>2, ConcatProperties
<1>5. call \o back # <<>> /\ Head(call \o back) = Head(call) /\ Tail(call \o back) = Tail(call) \o back
  <2> HIDE DEF call
  <2> QED
    BY <1>2, <1>3, <1>4, TailOfConcat
<1>6. Coming = call \o back /\ Coming' = (Tail(todo) \o Bytes(rx)) \o back
  BY <1>1 DEF Coming, InCall, Bytes
<1>7. Coming # <<>> /\ Head(Coming) = Head(todo) /\ Coming' = Tail(Coming)
  <2> HIDE DEF call, back
  <2> QED
    BY <1>3, <1>5, <1>6
<1>8. Awaited = Pending /\ Awaited' = Pending'
  <2>1. PendingTyped'
    BY RingInvPending, PTL
  <2>2. Awaited = Pending \o <<>> /\ Awaited' = Pending' \o <<>>
    BY <1>1 DEF Awaited, InCall
  <2> QED
    BY <1>2, <2>1, <2>2, ConcatEmptySeq DEF PendingTyped
<1>9. Head(todo) \in Byte
  BY <1>1, <1>2
<1> QED
  BY <1>1, <1>7, <1>8, <1>9 DEF HeldBack

\* filter_tx_echo, match: whether the byte is the echo or the switch's own, it stands for the
\* one awaited first, and what is awaited after it still comes after it.
LEMMA DropInOrder ==
  ASSUME ConsoleInv, RingInv', Filter, DropEcho, EchoInv, Lossless
  PROVE  InOrder' /\ Complete'
<1>1. /\ Coming # <<>> /\ Head(Coming) = Head(todo) /\ Coming' = Tail(Coming)
      /\ Awaited = Pending /\ Awaited' = Pending' /\ HeldBack' = HeldBack
      /\ UNCHANGED <<own, Passed>>
  BY FilterTakesFirst DEF DropEcho, Filter, outside, Passed
<1>2. Pending # <<>> /\ Head(todo) = Head(Pending) /\ Pending' = Tail(Pending)
  BY DropRefines DEF Queue!Drop, ConsoleInv
<1>3. Coming \in Seq(Byte) /\ Awaited \in Seq(Byte)
  BY EchoSequences DEF ConsoleInv
<1>4. InOrder'
  BY <1>1, <1>2, <1>3, EmbedsDrop DEF EchoInv, InOrder
<1>5. ASSUME NEW x \in Byte PROVE Arriving(x)' = Expected(x)'
  <2> DEFINE h == Hits(x, Head(todo))
  <2>1. /\ Occurrences(x, Coming) = h + Occurrences(x, Coming')
        /\ Occurrences(x, Awaited) = h + Occurrences(x, Awaited')
    BY <1>1, <1>2, <1>3, OccurrencesAtEnds
  <2>2. h \in Nat /\ Occurrences(x, Coming') \in Nat /\ Occurrences(x, Awaited') \in Nat
    <3>1. Coming' \in Seq(Byte) /\ Awaited' \in Seq(Byte)
      BY <1>1, <1>2, <1>3
    <3> QED
      BY <3>1, OccurrencesFinite DEF Hits
  <2>3. /\ Copies(x, Passed) \in Nat /\ Copies(x, own) \in Nat /\ Occurrences(x, HeldBack) \in Nat
    BY ArrivingCounts DEF ConsoleInv
  <2>4. Copies(x, Passed) + (Occurrences(x, HeldBack) + Occurrences(x, Coming))
          = Copies(x, own) + Occurrences(x, Awaited)
    BY DEF EchoInv, Complete, Arriving, Expected
  <2>5. /\ Arriving(x)' = Copies(x, Passed) + (Occurrences(x, HeldBack) + Occurrences(x, Coming'))
        /\ Expected(x)' = Copies(x, own) + Occurrences(x, Awaited')
    BY <1>1 DEF Arriving, Expected
  <2> HIDE DEF h
  <2> QED
    BY <2>1, <2>2, <2>3, <2>4, <2>5
<1> QED
  BY <1>4, <1>5 DEF Complete

\* filter_tx_echo, no match: the byte is let through; it was not the first awaited, so none is.
LEMMA KeepInOrder ==
  ASSUME ConsoleInv, RingInv', Filter, KeepByte, EchoInv, Lossless
  PROVE  InOrder' /\ Complete'
<1>1. /\ Coming # <<>> /\ Head(Coming) = Head(todo) /\ Coming' = Tail(Coming)
      /\ Awaited = Pending /\ Awaited' = Pending' /\ HeldBack = kept /\ HeldBack' = kept'
      /\ Head(todo) \in Byte /\ UNCHANGED <<own, Passed>>
  BY FilterTakesFirst DEF Filter, outside, Passed
<1>2. /\ Pending # <<>> => Head(todo) # Head(Pending)
      /\ Pending' = Pending /\ kept' = Append(kept, Head(todo))
  BY KeepRefines DEF Queue!Pass, ConsoleInv
<1>3. Coming \in Seq(Byte) /\ Awaited \in Seq(Byte) /\ kept \in Seq(Byte)
  BY EchoSequences DEF ConsoleInv
<1>4. InOrder'
  BY <1>1, <1>2, <1>3, EmbedsPass DEF EchoInv, InOrder
<1>5. ASSUME NEW x \in Byte PROVE Arriving(x)' = Expected(x)'
  <2> DEFINE h == Hits(x, Head(todo))
  <2>1. /\ Occurrences(x, Coming) = h + Occurrences(x, Coming')
        /\ Occurrences(x, HeldBack') = Occurrences(x, HeldBack) + h
    BY <1>1, <1>2, <1>3, OccurrencesAtEnds
  <2>2. h \in Nat /\ Occurrences(x, Coming') \in Nat /\ Occurrences(x, HeldBack) \in Nat
    <3>1. Coming' \in Seq(Byte)
      BY <1>1, <1>3
    <3> QED
      BY <1>1, <1>3, <3>1, OccurrencesFinite DEF Hits
  <2>3. Occurrences(x, HeldBack') + Occurrences(x, Coming')
          = Occurrences(x, HeldBack) + Occurrences(x, Coming)
    <3> HIDE DEF h
    <3> QED
      BY <2>1, <2>2
  <2>4. /\ Arriving(x)' = Copies(x, Passed) + (Occurrences(x, HeldBack') + Occurrences(x, Coming'))
        /\ Expected(x)' = Copies(x, own) + Occurrences(x, Awaited)
    BY <1>1, <1>2 DEF Arriving, Expected
  <2> QED
    BY <2>3, <2>4 DEF EchoInv, Complete, Arriving, Expected
<1> QED
  BY <1>4, <1>5 DEF Complete

\* The chunk goes to the browsers or is refused: either way it was let through.
LEMMA RxReturnInOrder ==
  ASSUME ConsoleInv, RxReturn, EchoInv, Lossless
  PROVE  InOrder' /\ Complete'
<1>1. /\ tx_echo_mutex = "filter" /\ tx_echo_mutex' = "free" /\ todo = <<>>
      /\ \/ screen' = screen (+) ToBag(kept) /\ refused' = refused
         \/ refused' = refused (+) ToBag(kept) /\ screen' = screen
      /\ UNCHANGED <<ring, todo, kept, sending, line, rx, own>>
  BY DEF RxReturn, Return
<1>2. Awaited' = Awaited /\ Coming' = Coming
  BY <1>1, PendingUnchanged DEF Awaited, Coming, InCall, Bytes
<1>3. InOrder'
  BY <1>2 DEF EchoInv, InOrder
<1>4. ASSUME NEW x \in Byte PROVE Arriving(x)' = Expected(x)'
  <2>1. kept \in Seq(Byte) /\ HeldBack = kept /\ HeldBack' = <<>>
    BY <1>1, EchoSequences DEF ConsoleInv, HeldBack
  <2>2. Copies(x, Passed') = Copies(x, Passed) + Occurrences(x, kept)
    <3> DEFINE T == ToBag(kept)
    <3>1. IsABag(T) /\ IsABag(screen) /\ IsABag(refused)
      BY <2>1, BagOfSequence DEF ConsoleInv, Bags
    <3>2. Copies(x, T) = Occurrences(x, kept)
      BY <2>1, CopiesOfBytes
    <3>3. IsABag(screen (+) T) /\ IsABag(refused (+) T)
      <4>1. /\ BagToSet(T) \subseteq Byte
            /\ BagToSet(screen) \subseteq Byte /\ BagToSet(refused) \subseteq Byte
        BY <2>1, BagOfSequence DEF ConsoleInv, Bags
      <4> HIDE DEF T
      <4> QED
        BY <3>1, <4>1, BagsAdd
    <3>4. /\ Copies(x, T) \in Nat /\ Copies(x, screen) \in Nat /\ Copies(x, refused) \in Nat
          /\ Copies(x, screen (+) T) = Copies(x, screen) + Copies(x, T)
          /\ Copies(x, refused (+) T) = Copies(x, refused) + Copies(x, T)
          /\ Copies(x, screen (+) refused) = Copies(x, screen) + Copies(x, refused)
      BY <3>1, CopiesAdd
    <3>5. CASE screen' = screen (+) T /\ refused' = refused
      <4>1. Passed' = (screen (+) T) (+) refused
        BY <3>5 DEF Passed
      <4>2. Copies(x, (screen (+) T) (+) refused) = Copies(x, screen (+) T) + Copies(x, refused)
        BY <3>1, <3>3, CopiesAdd
      <4> HIDE DEF T
      <4> QED
        BY <3>2, <3>4, <4>1, <4>2 DEF Passed
    <3>6. CASE refused' = refused (+) T /\ screen' = screen
      <4>1. Passed' = screen (+) (refused (+) T)
        BY <3>6 DEF Passed
      <4>2. Copies(x, screen (+) (refused (+) T)) = Copies(x, screen) + Copies(x, refused (+) T)
        BY <3>1, <3>3, CopiesAdd
      <4> HIDE DEF T
      <4> QED
        BY <3>2, <3>4, <4>1, <4>2 DEF Passed
    <3> QED
      BY <1>1, <3>5, <3>6
  <2>3. Occurrences(x, HeldBack') = 0
    <3>1. Occurrences(x, <<>>) = 0
      BY NulAssumption, OccurrencesSingle
    <3> QED
      BY <2>1, <3>1
  <2>4. /\ Arriving(x)' = Copies(x, Passed') + (Occurrences(x, HeldBack') + Occurrences(x, Coming))
        /\ Expected(x)' = Copies(x, own) + Occurrences(x, Awaited)
    BY <1>1, <1>2 DEF Arriving, Expected
  <2>5. /\ Copies(x, Passed) \in Nat /\ Occurrences(x, kept) \in Nat /\ Occurrences(x, Coming) \in Nat
    BY <2>1, ArrivingCounts DEF ConsoleInv
  <2>6. Copies(x, Passed) + (Occurrences(x, kept) + Occurrences(x, Coming))
          = Copies(x, own) + Occurrences(x, Awaited)
    BY <2>1 DEF EchoInv, Complete, Arriving, Expected
  <2> QED
    BY <2>2, <2>3, <2>4, <2>5, <2>6
<1> QED
  BY <1>3, <1>4 DEF Complete

\* What is lost stays lost.
LEMMA LossRemains ==
  ASSUME ConsoleInv, [Next]_vars, Lossless'
  PROVE  Lossless /\ ~ SwitchSilent
<1>1. unechoed \in Nat /\ evicted \in Nat
  BY DEF ConsoleInv, Places
<1>2. ~ SwitchSilent
  <2>1. ASSUME SwitchSilent PROVE FALSE
    <3>1. unechoed' = unechoed + 1
      BY <2>1 DEF SwitchSilent
    <3> QED
      BY <1>1, <3>1 DEF Lossless
  <2> QED
    BY <2>1
<1>3. CASE Push
  <2>1. unechoed' = unechoed /\ (evicted' = evicted \/ evicted' = evicted + 1)
    BY <1>3 DEF Push
  <2> QED
    BY <1>1, <1>2, <2>1 DEF Lossless
<1>4. CASE Transmit
  <2>1. PICK n \in 0 .. Len(sending) : unechoed' = unechoed + Len(sending) - n
    BY <1>4 DEF Transmit
  <2>2. Len(sending) \in Nat /\ evicted' = evicted
    BY <1>4, LengthsAreNat DEF Transmit, ConsoleInv
  <2> QED
    BY <1>1, <1>2, <2>1, <2>2 DEF Lossless
<1>5. CASE UNCHANGED <<unechoed, evicted>>
  BY <1>2, <1>5 DEF Lossless
<1> QED
  BY <1>2, <1>3, <1>4, <1>5 DEF Next, vars, outside, CdcSend, PushReturn, SwitchEcho,
     SwitchPrint, RxCallback, Filter, RxReturn

\* Every step keeps the order and the count.
LEMMA EchoInvStep == ConsoleInv /\ ConsoleInv' /\ EchoInv /\ [Next]_vars => EchoInv'
<1> SUFFICES ASSUME ConsoleInv, ConsoleInv', EchoInv, [Next]_vars, Lossless'
             PROVE  InOrder' /\ Complete'
  BY DEF EchoInv
<1>1. Lossless /\ ~ SwitchSilent
  BY LossRemains
<1>2. RingInv'
  BY DEF ConsoleInv
<1>3. ASSUME NEW data \in Chunks, CdcSend(data) PROVE InOrder' /\ Complete'
  BY <1>1, <1>3, SendInOrder
<1>4. ASSUME NEW b \in Byte, SwitchPrint(b) PROVE InOrder' /\ Complete'
  BY <1>1, <1>4, SwitchPrintInOrder
<1>5. ASSUME NEW n \in 1 .. MaxChunk, RxCallback(n) PROVE InOrder' /\ Complete'
  BY <1>1, <1>5, CallbackInOrder
<1>6. CASE Push
  BY <1>1, <1>2, <1>6, PushInOrder
<1>7. CASE PushReturn \/ SwitchEcho \/ RxReturn
  BY <1>1, <1>7, PushReturnInOrder, SwitchEchoInOrder, RxReturnInOrder
<1>8. CASE Transmit
  BY <1>1, <1>8, TransmitInOrder
<1>9. CASE Filter
  BY <1>1, <1>2, <1>9, DropInOrder, KeepInOrder DEF Filter
<1>10. CASE UNCHANGED vars
  <2>1. /\ UNCHANGED <<ring, tx_echo_mutex, todo, kept, sending, line, rx, own, Passed>>
    BY <1>10 DEF vars, echoVars, outside, Passed
  <2>2. Awaited' = Awaited /\ Coming' = Coming /\ HeldBack' = HeldBack
    BY <2>1, PendingUnchanged DEF Awaited, Coming, InCall, Bytes, HeldBack
  <2> QED
    BY <1>1, <2>1, <2>2, EchoInvUnchanged
<1> QED
  BY <1>1, <1>3, <1>4, <1>5, <1>6, <1>7, <1>8, <1>9, <1>10 DEF Next

\* Nothing is awaited and nothing comes.
LEMMA EchoInvInit == Init => EchoInv
<1> SUFFICES ASSUME Init PROVE InOrder /\ Complete
  BY DEF EchoInv
<1>1. /\ tx_echo_mutex = "free" /\ tx_echo_count = 0 /\ rx = <<>> /\ line = <<>> /\ sending = <<>>
      /\ own = EmptyBag /\ Passed = EmptyBag (+) EmptyBag
  BY DEF Init, EchoInit, Passed
<1>2. Pending = <<>> /\ Bytes(rx) = <<>>
  BY <1>1 DEF Pending, Bytes
<1>3. Coming = <<>> /\ Awaited = <<>> /\ HeldBack = <<>>
  BY <1>1, <1>2 DEF Coming, Awaited, HeldBack, InCall
<1>4. ASSUME NEW x \in Byte PROVE Arriving(x) = Expected(x)
  <2>1. Copies(x, EmptyBag) = 0 /\ Copies(x, EmptyBag (+) EmptyBag) = 0
    <3>1. Copies(x, EmptyBag) = 0 /\ IsABag(EmptyBag)
      BY DEF Copies, EmptyBag, SetToBag, IsABag
    <3> QED
      BY <3>1, CopiesAdd
  <2>2. Occurrences(x, <<>>) = 0
    BY NulAssumption, OccurrencesSingle
  <2> QED
    BY <1>1, <1>3, <2>1, <2>2 DEF Arriving, Expected
<1> QED
  BY <1>3, <1>4, NothingEmbeds DEF InOrder, Complete

\* EchoExactlyRemoved: with every byte echoed and none evicted, the filter takes out exactly
\* the echoes and lets the rest through (the web server may refuse it then), however the
\* switch's own output is mixed with them, even where it equals them: filter_tx_echo never
\* falls behind what it awaits.  For every ring size and every number of bytes.
THEOREM EchoesAreRemoved == Spec => []EchoExactlyRemoved
<1>1. ConsoleInv /\ EchoInv => EchoExactlyRemoved
  <2> SUFFICES ASSUME ConsoleInv, EchoInv, Quiet, Lossless
               PROVE  tx_echo_count = 0 /\ Passed = own
    BY DEF EchoExactlyRemoved, Lossless
  <2>1. tx_echo_mutex = "free" /\ sending = <<>> /\ line = <<>> /\ rx = <<>>
    BY DEF Quiet
  <2>2. Bytes(rx) = <<>>
    BY <2>1 DEF Bytes
  <2>3. Coming = <<>> /\ HeldBack = <<>>
    BY <2>1, <2>2 DEF Coming, HeldBack, InCall
  <2>4. Awaited = <<>>
    <3>1. Awaited \in Seq(Byte)
      BY EchoSequences DEF ConsoleInv
    <3>2. Embeds(Awaited, <<>>)
      BY <2>3 DEF EchoInv, InOrder
    <3> QED
      BY <3>1, <3>2, EmbedsNothing
  <2>5. tx_echo_count = 0
    <3>1. Pending \in Seq(Byte) /\ Len(Pending) = tx_echo_count
      BY PendingFacts DEF ConsoleInv
    <3>2. Awaited = Pending \o <<>> /\ Pending \o <<>> = Pending
      BY <2>1, <3>1, ConcatEmptySeq DEF Awaited, InCall
    <3> QED
      BY <2>4, <3>1, <3>2
  <2>6. ASSUME NEW x \in Byte PROVE Copies(x, Passed) = Copies(x, own)
    <3>1. Occurrences(x, <<>>) = 0
      BY NulAssumption, OccurrencesSingle
    <3>2. Copies(x, Passed) \in Nat /\ Copies(x, own) \in Nat
      BY ArrivingCounts DEF ConsoleInv
    <3>3. Copies(x, Passed) + (0 + 0) = Copies(x, own) + 0
      BY <2>3, <2>4, <3>1 DEF EchoInv, Complete, Arriving, Expected
    <3> QED
      BY <3>2, <3>3
  <2>7. Passed = own
    BY <2>6, SameCopies, PassedIsABag DEF ConsoleInv, Bags
  <2> QED
    BY <2>5, <2>7
<1> QED
  BY <1>1, ConsoleInvariant, EchoInvInit, EchoInvStep, PTL DEF Spec
=============================================================================
