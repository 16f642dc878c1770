------------------------ MODULE ReplayWindow_proofs ------------------------
(***************************************************************************)
(* The replay window keeps its promise for every window size and every     *)
(* width of the counters, as long as no session outruns the width of diff. *)
(***************************************************************************)
EXTENDS ReplayWindow, TLAPS

\* A counter of the session is numbered without wrapping.
LEMMA NumberValue ==
  ASSUME NEW n \in 0 .. MaxCounter
  PROVE  Number(n) = n + 1 /\ n # Wrapping
  BY WidthAssumption, SessionAssumption DEF Number, Wrapping

\* The last counter wraps to zero, which the code refuses.
LEMMA WrappingNumber == Number(Wrapping) = 0
<1>1. CounterMod \in Nat \ {0}
  BY WidthAssumption, SessionAssumption
<1>2. CounterMod % CounterMod = 0
  BY <1>1
<1> QED BY <1>1, <1>2 DEF Number, Wrapping

\* Inside a session the truncated difference is the difference.
LEMMA DiffValue ==
  ASSUME NEW hi \in 0 .. MaxCounter + 1, NEW lo \in 0 .. hi
  PROVE  Diff(hi, lo) = hi - lo
  BY WidthAssumption, SessionAssumption DEF Diff

-----------------------------------------------------------------------------
(* The inductive invariant                                                 *)

Inv == TypeOK /\ WindowExact

\* The empty window records the empty history.
LEMMA InvInit == Init => Inv
<1> SUFFICES ASSUME Init PROVE Inv
  OBVIOUS
<1>1. TypeOK
  BY SessionAssumption DEF Init, TypeOK, Counters
<1>2. WindowExact
  BY DEF Init, WindowExact
<1> QED BY <1>1, <1>2 DEF Inv

\* What a packet that is not refused has for a counter and a number.
LEMMA Numbered ==
  ASSUME NEW n \in Counters, Number(n) # 0
  PROVE  n \in 0 .. MaxCounter /\ Number(n) = n + 1
  BY NumberValue, WrappingNumber DEF Counters

\* A newer packet shifts window and record alike.
LEMMA NewerStep ==
  ASSUME Inv, NEW n \in Counters, Newer(n)
  PROVE  Inv'
<1> DEFINE diff == Number(n) - replay_counter
<1>1. TypeOK /\ WindowExact
  BY DEF Inv
<1>2. n \in 0 .. MaxCounter /\ Number(n) = n + 1
  BY Numbered DEF Newer
<1>3. replay_counter' = n + 1 /\ replay_counter < n + 1 /\ replay_counter \in 0 .. MaxCounter
  BY <1>1, <1>2, SessionAssumption DEF Newer, TypeOK
<1>4. Diff(Number(n), replay_counter) = diff /\ diff \in Nat /\ diff >= 1
  BY <1>2, <1>3, DiffValue, SessionAssumption
<1>5. accepted' = accepted \union {n}
  BY DEF Newer, Accepts
<1>6. TypeOK'
  <2>1. replay_bitmap' \subseteq Offsets
    BY WidthAssumption DEF Newer, Shift, Offsets
  <2>2. last' \in [counter : Counters, ok : BOOLEAN]
    BY DEF Newer, Accepts
  <2> QED BY <1>1, <1>2, <1>3, <1>5, <2>1, <2>2, SessionAssumption DEF TypeOK
<1>7. \A m \in accepted' : Number(m) <= replay_counter'
  BY <1>1, <1>2, <1>3, <1>5, NumberValue, SessionAssumption DEF WindowExact, TypeOK
<1>8. ASSUME NEW d \in Offsets
      PROVE  d \in replay_bitmap' <=> (replay_counter' - d - 1) \in accepted'
  <2>1. \A m \in accepted : m \in 0 .. MaxCounter /\ m + 1 <= replay_counter
    BY <1>1, NumberValue DEF WindowExact, TypeOK
  <2>2. CASE d = 0
    <3>1. d \in replay_bitmap'
      BY <2>2 DEF Newer
    <3>2. replay_counter' - d - 1 = n
      BY <1>2, <1>3, <2>2
    <3> QED BY <1>5, <3>1, <3>2
  <2>3. CASE d # 0 /\ diff < ReplayWindowSize
    <3>1. d \in replay_bitmap' <=> d - diff \in replay_bitmap
      BY <1>4, <2>3 DEF Newer, Shift
    <3>2. replay_counter' - d - 1 = replay_counter - (d - diff) - 1
      BY <1>1, <1>2, <1>3, WidthAssumption DEF Offsets, TypeOK
    <3>3. replay_counter' - d - 1 # n
      BY <1>2, <1>3, <2>3, WidthAssumption DEF Offsets
    <3>4. CASE d - diff \in Offsets
      BY <1>1, <1>5, <3>1, <3>2, <3>3, <3>4 DEF WindowExact
    <3>5. CASE d - diff \notin Offsets
      <4>1. d - diff < 0
        BY <1>2, <1>3, <3>5, WidthAssumption DEF Offsets
      <4>2. d - diff \notin replay_bitmap
        BY <1>1, <3>5 DEF TypeOK
      <4>3. replay_counter - (d - diff) - 1 \notin accepted
        BY <1>2, <1>3, <2>1, <4>1, WidthAssumption DEF Offsets
      <4> QED BY <1>5, <3>1, <3>2, <3>3, <4>2, <4>3
    <3> QED BY <3>4, <3>5
  <2>4. CASE d # 0 /\ ~(diff < ReplayWindowSize)
    <3>1. d \notin replay_bitmap'
      BY <1>4, <2>4 DEF Newer
    <3>2. replay_counter' - d - 1 # n
      BY <1>2, <1>3, <2>4, WidthAssumption DEF Offsets
    <3>3. replay_counter' - d - 1 >= replay_counter
      BY <1>2, <1>3, <2>4, WidthAssumption DEF Offsets
    <3>4. replay_counter' - d - 1 \notin accepted
      BY <1>3, <2>1, <3>3, WidthAssumption DEF Offsets
    <3> QED BY <1>5, <3>1, <3>2, <3>4
  <2> QED BY <2>2, <2>3, <2>4
<1>9. replay_counter' - 1 \in accepted'
  BY <1>2, <1>3, <1>5
<1> QED BY <1>6, <1>7, <1>8, <1>9 DEF Inv, WindowExact

\* A late packet adds its own bit and nothing else.
LEMMA LateStep ==
  ASSUME Inv, NEW n \in Counters, LateFresh(n)
  PROVE  Inv'
<1> DEFINE diff == replay_counter - Number(n)
<1>1. TypeOK /\ WindowExact
  BY DEF Inv
<1>2. n \in 0 .. MaxCounter /\ Number(n) = n + 1
  BY Numbered DEF LateFresh
<1>3. Diff(replay_counter, Number(n)) = diff /\ diff \in Nat
  BY <1>1, <1>2, DiffValue DEF LateFresh, TypeOK
<1>4. /\ diff \in Offsets
      /\ replay_bitmap' = replay_bitmap \union {diff}
      /\ replay_counter' = replay_counter
      /\ accepted' = accepted \union {n}
  BY <1>3, WidthAssumption DEF LateFresh, Accepts, Offsets
<1>5. TypeOK'
  BY <1>1, <1>2, <1>4 DEF TypeOK, LateFresh, Accepts
<1>6. \A m \in accepted' : Number(m) <= replay_counter'
  BY <1>1, <1>4 DEF WindowExact, LateFresh
<1>7. ASSUME NEW d \in Offsets
      PROVE  d \in replay_bitmap' <=> (replay_counter' - d - 1) \in accepted'
  <2>1. d = diff <=> replay_counter - d - 1 = n
    BY <1>1, <1>2, WidthAssumption DEF TypeOK, Offsets
  <2> QED BY <1>1, <1>4, <2>1 DEF WindowExact
<1>8. replay_counter' # 0 => replay_counter' - 1 \in accepted'
  BY <1>1, <1>4 DEF WindowExact
<1> QED BY <1>5, <1>6, <1>7, <1>8 DEF Inv, WindowExact

\* A refused packet leaves no trace.
LEMMA RefusedStep ==
  ASSUME Inv, NEW n \in Counters, Refused(n)
  PROVE  Inv'
  BY DEF Inv, TypeOK, WindowExact, Refused

\* Every packet keeps the bitmap exact.
LEMMA InvStep == Inv /\ [Next]_vars => Inv'
<1> SUFFICES ASSUME Inv, [Next]_vars PROVE Inv'
  OBVIOUS
<1>1. ASSUME NEW n \in Counters, Newer(n) PROVE Inv'
  BY <1>1, NewerStep
<1>2. ASSUME NEW n \in Counters, LateFresh(n) PROVE Inv'
  BY <1>2, LateStep
<1>3. ASSUME NEW n \in Counters, Refused(n) PROVE Inv'
  BY <1>3, RefusedStep
<1>4. CASE UNCHANGED vars
  BY <1>4 DEF vars, Inv, TypeOK, WindowExact
<1> QED BY <1>1, <1>2, <1>3, <1>4 DEF Next

\* The counter, the bitmap and the record of accepted packets keep their types.
THEOREM TypeCorrect == Spec => []TypeOK
<1>1. Inv => TypeOK
  BY DEF Inv
<1> QED BY <1>1, InvInit, InvStep, PTL DEF Spec

\* Whatever the order of arrival, the bitmap is the exact record of the
\* packets accepted in the window.
THEOREM BitmapExact == Spec => []WindowExact
<1>1. Inv => WindowExact
  BY DEF Inv
<1> QED BY <1>1, InvInit, InvStep, PTL DEF Spec

-----------------------------------------------------------------------------
(* Refinement of AntiReplay                                                *)

\* A newer packet is accepted for the first time.
LEMMA NewerRefines ==
  ASSUME Inv, NEW n \in Counters, Newer(n)
  PROVE  Promise!Accept(n)
<1>1. n \in 0 .. MaxCounter /\ Number(n) = n + 1 /\ n # Wrapping
  BY Numbered, NumberValue DEF Newer
<1>2. \A m \in accepted : m \in 0 .. MaxCounter /\ m < n
  BY <1>1, NumberValue DEF Inv, WindowExact, TypeOK, Newer
<1>3. n \notin accepted /\ ~Promise!TooOld(n)
  BY <1>1, <1>2, WidthAssumption DEF Promise!TooOld
<1> QED BY <1>1, <1>3 DEF Promise!Accept, Newer, Accepts

\* So is a late one whose bit is clear.
LEMMA LateRefines ==
  ASSUME Inv, NEW n \in Counters, LateFresh(n)
  PROVE  Promise!Accept(n)
<1> DEFINE diff == replay_counter - (n + 1)
<1>1. n \in 0 .. MaxCounter /\ Number(n) = n + 1 /\ n # Wrapping
  BY Numbered, NumberValue DEF LateFresh
<1>2. Diff(replay_counter, Number(n)) = diff /\ diff \in Nat
  BY <1>1, DiffValue DEF LateFresh, Inv, TypeOK
<1>3. diff \in Offsets /\ diff \notin replay_bitmap
  BY <1>2, WidthAssumption DEF LateFresh, Offsets
<1>4. n \notin accepted
  <2>1. replay_counter - diff - 1 = n
    BY <1>1 DEF Inv, TypeOK
  <2> QED BY <1>3, <2>1 DEF Inv, WindowExact
<1>5. \A m \in accepted : m \in 0 .. MaxCounter /\ m + 1 <= replay_counter
  BY NumberValue DEF Inv, WindowExact, TypeOK
<1>6. ~Promise!TooOld(n)
  BY <1>1, <1>3, <1>5, WidthAssumption DEF Promise!TooOld, Offsets, Inv, TypeOK
<1> QED BY <1>1, <1>4, <1>6 DEF Promise!Accept, LateFresh, Accepts

\* A refused packet is wrapped, repeated or too old.
LEMMA RefusedRefines ==
  ASSUME Inv, NEW n \in Counters, Refused(n)
  PROVE  Promise!Refuse(n)
<1>1. n = Wrapping \/ n \in accepted \/ Promise!TooOld(n)
  <2>1. CASE Number(n) = 0
    BY <2>1, NumberValue DEF Counters
  <2>2. CASE Number(n) # 0
    <3> DEFINE diff == replay_counter - (n + 1)
    <3>1. n \in 0 .. MaxCounter /\ Number(n) = n + 1 /\ Number(n) <= replay_counter
      BY <2>2, Numbered DEF Refused
    <3>2. Diff(replay_counter, Number(n)) = diff /\ diff \in Nat
      BY <3>1, DiffValue DEF Inv, TypeOK
    <3>3. CASE diff \in replay_bitmap
      <4>1. diff \in Offsets /\ replay_counter - diff - 1 = n
        BY <3>1, <3>3 DEF Inv, TypeOK
      <4> QED BY <3>3, <4>1 DEF Inv, WindowExact
    <3>4. CASE diff >= ReplayWindowSize
      <4>1. 0 \in Offsets
        BY WidthAssumption DEF Offsets
      <4>2. replay_counter - 1 \in accepted
        BY <3>1 DEF Inv, WindowExact, TypeOK
      <4> QED BY <3>1, <3>4, <4>2, WidthAssumption DEF Promise!TooOld, Inv, TypeOK
    <3> QED BY <2>2, <3>2, <3>1, <3>3, <3>4 DEF Refused
  <2> QED BY <2>1, <2>2
<1> QED BY <1>1 DEF Promise!Refuse, Refused

\* wireguard_check_replay implements the window it claims to be, for every
\* window size and every width: no counter is ever accepted twice.
THEOREM WindowRefinesAntiReplay == Spec => RefinesAntiReplay
<1>1. Init => Promise!Init
  BY DEF Init, Promise!Init
<1>2. Inv /\ [Next]_vars => [Promise!Next]_(Promise!vars)
  <2> SUFFICES ASSUME Inv, [Next]_vars PROVE [Promise!Next]_(Promise!vars)
    OBVIOUS
  <2>1. ASSUME NEW n \in Counters, Newer(n) PROVE Promise!Next
    BY <2>1, NewerRefines DEF Promise!Next
  <2>2. ASSUME NEW n \in Counters, LateFresh(n) PROVE Promise!Next
    BY <2>2, LateRefines DEF Promise!Next
  <2>3. ASSUME NEW n \in Counters, Refused(n) PROVE Promise!Next
    BY <2>3, RefusedRefines DEF Promise!Next
  <2>4. CASE UNCHANGED vars
    BY <2>4 DEF vars, Promise!vars
  <2> QED BY <2>1, <2>2, <2>3, <2>4 DEF Next
<1> QED BY <1>1, <1>2, InvInit, InvStep, PTL DEF Spec, RefinesAntiReplay, Promise!Spec
=============================================================================
