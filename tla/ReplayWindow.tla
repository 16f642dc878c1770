--------------------------- MODULE ReplayWindow ---------------------------
(***************************************************************************)
(* wireguard_check_replay: the sliding window of one receiving keypair.    *)
(* The bitmap is the set of the offsets of its bits: offset d stands for   *)
(* the packet d below the newest.  Differences are stored in a uint32_t.   *)
(***************************************************************************)
EXTENDS Integers

CONSTANTS ReplayWindowSize,   \* bits of replay_bitmap, 32
          DiffMod,            \* 2^32, the range of diff
          CounterMod,         \* 2^64, the range of a packet counter
          MaxCounter          \* the highest counter a session gets to

\* The window fits a diff, and a diff a counter.
ASSUME WidthAssumption ==
  /\ ReplayWindowSize \in Nat \ {0}
  /\ DiffMod \in Nat /\ CounterMod \in Nat
  /\ ReplayWindowSize <= DiffMod
  /\ DiffMod <= CounterMod

\* No session carries 2^32 packets: both ends give a keypair up after
\* REJECT_AFTER_TIME, and its counter starts at 0.
ASSUME SessionAssumption == MaxCounter \in Nat /\ MaxCounter + 1 < DiffMod

VARIABLES replay_counter,     \* number of the newest packet, 0 before any
          replay_bitmap,      \* offsets below it already seen
          accepted,           \* counters accepted so far
          last                \* the last packet and its verdict

vars == <<replay_counter, replay_bitmap, accepted, last>>

Offsets == 0 .. ReplayWindowSize - 1

\* What may arrive, the counter whose number wraps to 0 included.
Wrapping == CounterMod - 1
Counters == 0 .. MaxCounter \union {Wrapping}

\* Packets are numbered from 1 here: seq++ on a uint64_t.
Number(n) == (n + 1) % CounterMod

Diff(hi, lo) == (hi - lo) % DiffMod

\* Mutant: bits shifted out of the word are kept.
ShiftKeepAll(bitmap, d) == {o + d : o \in bitmap}

Shift(bitmap, d) == {o \in Offsets : o - d \in bitmap}

Init ==
  /\ replay_counter = 0
  /\ replay_bitmap = {}
  /\ accepted = {}
  /\ last = [counter |-> Wrapping, ok |-> FALSE]

Accepts(n) ==
  /\ accepted' = accepted \union {n}
  /\ last' = [counter |-> n, ok |-> TRUE]

-----------------------------------------------------------------------------
\* Mutant: the window is moved without the bits it holds.
NewerNoShift(n) ==
  /\ Number(n) # 0
  /\ Number(n) > replay_counter
  /\ replay_bitmap' = {0}
  /\ replay_counter' = Number(n)
  /\ Accepts(n)

\* A larger number: the window moves up to it.
Newer(n) ==
  /\ Number(n) # 0
  /\ Number(n) > replay_counter
  /\ LET diff == Diff(Number(n), replay_counter)
     IN  replay_bitmap' = IF diff < ReplayWindowSize
                            THEN Shift(replay_bitmap, diff) \union {0}
                            ELSE {0}
  /\ replay_counter' = Number(n)
  /\ Accepts(n)

\* Mutant: an out-of-order packet is let in without a mark.
LateUnmarked(n) ==
  /\ Number(n) # 0
  /\ Number(n) <= replay_counter
  /\ Diff(replay_counter, Number(n)) \in Offsets \ replay_bitmap
  /\ UNCHANGED <<replay_counter, replay_bitmap>>
  /\ Accepts(n)

\* Out of order, but inside the window and not seen yet.
LateFresh(n) ==
  /\ Number(n) # 0
  /\ Number(n) <= replay_counter
  /\ LET diff == Diff(replay_counter, Number(n))
     IN  /\ diff < ReplayWindowSize
         /\ diff \notin replay_bitmap
         /\ replay_bitmap' = replay_bitmap \union {diff}
  /\ replay_counter' = replay_counter
  /\ Accepts(n)

\* Number 0, seen already, or too old.
Refused(n) ==
  /\ \/ Number(n) = 0
     \/ /\ Number(n) <= replay_counter
        /\ \/ Diff(replay_counter, Number(n)) \in replay_bitmap
           \/ Diff(replay_counter, Number(n)) >= ReplayWindowSize
  /\ last' = [counter |-> n, ok |-> FALSE]
  /\ UNCHANGED <<replay_counter, replay_bitmap, accepted>>

Next == \E n \in Counters : Newer(n) \/ LateFresh(n) \/ Refused(n)

Spec == Init /\ [][Next]_vars

-----------------------------------------------------------------------------
TypeOK ==
  /\ replay_counter \in 0 .. MaxCounter + 1
  /\ replay_bitmap \subseteq Offsets
  /\ accepted \subseteq 0 .. MaxCounter
  /\ last \in [counter : Counters, ok : BOOLEAN]

\* The bitmap forgets nothing and invents nothing: over the window it is
\* exactly the record of the counters accepted, topped by the newest.
WindowExact ==
  /\ replay_counter # 0 => (replay_counter - 1) \in accepted
  /\ \A n \in accepted : Number(n) <= replay_counter
  /\ \A d \in Offsets : d \in replay_bitmap <=> (replay_counter - d - 1) \in accepted

Promise == INSTANCE AntiReplay
             WITH Window <- ReplayWindowSize, Unnumbered <- Wrapping,
                  seen <- accepted

\* wireguard_check_replay keeps the promise of a replay window: no counter
\* is accepted twice, none inside the window is refused without reason.
RefinesAntiReplay == Promise!Spec
=============================================================================
