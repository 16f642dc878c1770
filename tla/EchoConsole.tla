---------------------------- MODULE EchoConsole ----------------------------
(***************************************************************************)
(* The echo filter at work: the httpd task sends keystrokes with cdc_send, *)
(* the switch echoes them (or does not, at a password prompt) between the  *)
(* bytes it prints itself, and cdc_rx_callback filters what arrives before *)
(* it goes to the browsers.  Received bytes carry a tag, invisible to the  *)
(* filter, that tells an echo from the switch's own output.                *)
(***************************************************************************)
EXTENDS EchoFilter, SequencesExt

CONSTANTS MaxSent,    \* bound: bytes typed in all
          MaxOwn,     \* bound: bytes the switch prints by itself
          MaxChunk    \* bound: bytes of one call

ASSUME BoundsAssumption == {MaxSent, MaxOwn, MaxChunk} \subseteq Nat

VARIABLES
  sending,    \* the data of the cdc_send in progress
  line,       \* bytes at the switch it has not answered yet
  rx,         \* bytes [byte, echo] on their way back to the driver
  sent,       \* number of bytes cdc_send was given so far
  own,        \* bag of the bytes the switch printed by itself
  printed,    \* history: how many that are
  screen,     \* bag of the bytes handed to the browsers
  shown,      \* history: how many that are
  refused,    \* bag of the bytes in jobs the web server did not take
  dropped,    \* history: how many that are
  unechoed,   \* bytes that will never be echoed: send failed, echo off
  evicted     \* bytes the full ring forgot

outside == <<sending, line, rx, sent, own, printed, screen, shown, refused, dropped, unechoed, evicted>>
vars == <<echoVars, outside>>

Chunks == BoundedSeq(Byte, MaxChunk) \ {<<>>}

Init ==
  /\ EchoInit
  /\ sending = <<>> /\ line = <<>> /\ rx = <<>> /\ sent = 0
  /\ own = EmptyBag /\ printed = 0 /\ screen = EmptyBag /\ shown = 0
  /\ refused = EmptyBag /\ dropped = 0
  /\ unechoed = 0 /\ evicted = 0

-----------------------------------------------------------------------------
(* httpd task: cdc_send with a device, tx_echo_push and then the transfer  *)

CdcSend(data) ==
  /\ sending = <<>>
  /\ sent + Len(data) <= MaxSent
  /\ PushCall(data)
  /\ sending' = data
  /\ sent' = sent + Len(data)
  /\ UNCHANGED <<line, rx, own, printed, screen, shown, refused, dropped, unechoed, evicted>>

Push ==
  /\ PushByte
  /\ evicted' = IF tx_echo_count = TX_ECHO_BUF_SIZE THEN evicted + 1 ELSE evicted
  /\ UNCHANGED <<sending, line, rx, sent, own, printed, screen, shown, refused, dropped, unechoed>>

PushReturn ==
  /\ tx_echo_mutex = "push"
  /\ Return
  /\ UNCHANGED outside

\* cdc_acm_host_data_tx_blocking: all of it, or a part and a failure.
Transmit ==
  /\ sending # <<>>
  /\ tx_echo_mutex # "push"
  /\ \E n \in 0 .. Len(sending) :
       /\ line' = line \o SubSeq(sending, 1, n)
       /\ unechoed' = unechoed + Len(sending) - n
  /\ sending' = <<>>
  /\ UNCHANGED <<echoVars, rx, sent, own, printed, screen, shown, refused, dropped, evicted>>

-----------------------------------------------------------------------------
(* The switch                                                              *)

SwitchEcho ==
  /\ line # <<>>
  /\ rx' = Append(rx, [byte |-> Head(line), echo |-> TRUE])
  /\ line' = Tail(line)
  /\ UNCHANGED <<echoVars, sending, sent, own, printed, screen, shown, refused, dropped, unechoed,
                 evicted>>

SwitchSilent ==
  /\ line # <<>>
  /\ unechoed' = unechoed + 1
  /\ line' = Tail(line)
  /\ UNCHANGED <<echoVars, sending, rx, sent, own, printed, screen, shown, refused, dropped, evicted>>

SwitchPrint(b) ==
  /\ printed < MaxOwn
  /\ own' = own (+) SetToBag({b}) /\ printed' = printed + 1
  /\ rx' = Append(rx, [byte |-> b, echo |-> FALSE])
  /\ UNCHANGED <<echoVars, sending, line, sent, screen, shown, refused, dropped, unechoed, evicted>>

-----------------------------------------------------------------------------
(* CDC driver task: cdc_rx_callback                                        *)

RxCallback(n) ==
  /\ n <= Len(rx)
  /\ FilterCall([i \in 1 .. n |-> rx[i].byte])
  /\ rx' = SubSeq(rx, n + 1, Len(rx))
  /\ UNCHANGED <<sending, line, sent, own, printed, screen, shown, refused, dropped, unechoed, evicted>>

Filter ==
  /\ DropEcho \/ KeepByte
  /\ UNCHANGED outside

\* What is left of the chunk is queued for the browsers, unless the web server
\* does not take the job: there is none before an interface has an address.
RxReturn ==
  /\ tx_echo_mutex = "filter"
  /\ Return
  /\ \/ /\ screen' = screen (+) ToBag(kept) /\ shown' = shown + Len(kept)
        /\ UNCHANGED <<refused, dropped>>
     \/ /\ refused' = refused (+) ToBag(kept) /\ dropped' = dropped + Len(kept)
        /\ UNCHANGED <<screen, shown>>
  /\ UNCHANGED <<sending, line, rx, sent, own, printed, unechoed, evicted>>

-----------------------------------------------------------------------------
Next ==
  \/ \E data \in Chunks : CdcSend(data)
  \/ Push \/ PushReturn \/ Transmit
  \/ SwitchEcho \/ SwitchSilent
  \/ \E b \in Byte : SwitchPrint(b)
  \/ \E n \in 1 .. MaxChunk : RxCallback(n)
  \/ Filter \/ RxReturn

Spec == Init /\ [][Next]_vars

-----------------------------------------------------------------------------
TypeOK ==
  /\ EchoTypeOK
  /\ sending \in Seq(Byte)
  /\ line \in Seq(Byte)
  /\ rx \in Seq([byte : Byte, echo : BOOLEAN])
  /\ IsABag(own) /\ BagToSet(own) \subseteq Byte
  /\ IsABag(screen) /\ BagToSet(screen) \subseteq Byte
  /\ IsABag(refused) /\ BagToSet(refused) \subseteq Byte
  /\ printed \in 0 .. MaxOwn /\ shown \in Nat /\ dropped \in Nat
  /\ sent \in 0 .. MaxSent
  /\ unechoed \in 0 .. MaxSent
  /\ evicted \in 0 .. MaxSent

\* Nothing is on its way in either direction.
Quiet ==
  /\ tx_echo_mutex = "free"
  /\ sending = <<>> /\ line = <<>> /\ rx = <<>>

\* What the filter has let through, whether or not the web server took it.
Passed == screen (+) refused

\* When every byte sent was echoed and none was evicted, then however the
\* switch's output was interleaved with the echoes, the filter has let through
\* exactly as many of each byte as the switch printed, and waits for nothing:
\* the browsers got these, less the chunks whose job the web server refused.
\* Rests on cdc_send remembering the bytes before it transmits them and on
\* filter_tx_echo's greedy matching never falling behind.
EchoExactlyRemoved ==
  Quiet /\ unechoed = 0 /\ evicted = 0
    => /\ tx_echo_count = 0
       /\ Passed = own

\* Nothing is swallowed or shown twice beyond that: every byte of the
\* switch's output that the browsers miss was in a job the web server refused,
\* or stands for one byte whose echo never came and which filter_tx_echo has
\* matched since; one that still waits in the ring, or was evicted from it,
\* has cost nothing.
LossAccounted ==
  Quiet => printed - (shown + dropped) = unechoed - tx_echo_count - evicted
=============================================================================
