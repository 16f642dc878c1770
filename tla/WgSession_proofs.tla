-------------------------- MODULE WgSession_proofs --------------------------
(***************************************************************************)
(* Two ends of a tunnel, for every limit, every timing and every number of *)
(* packets, keys, faults and units of time: types, the age of the current  *)
(* keypair, the link flag, the agreement of the slots of the two ends, the *)
(* nonces, the key agreement they implement, how often an initiation is    *)
(* answered and a packet delivered, and what a run of the timer leaves.    *)
(***************************************************************************)
EXTENDS WgSession, TLAPS, FiniteSetTheorems

Peers ==
  [curr : Keypairs, prev : Keypairs, next : Keypairs,
   handshake : [valid : BOOLEAN, local : Nat, ephemeral : Nat],
   greatest : Nat, initTx : Nat, lastTx : Nat, sendHandshake : BOOLEAN, active : BOOLEAN]

-----------------------------------------------------------------------------
(* Types of what the helpers return.                                       *)

\* A destroyed keypair is a keypair.
LEMMA DestroyedType == Destroyed \in Keypairs /\ ~Destroyed.valid
  BY DEF Destroyed, Keypairs

\* So is a new one.
LEMMA NewKeypairType ==
  ASSUME clock \in Nat, NEW local \in Nat, NEW remote \in Nat, NEW key \in Nat
  PROVE  /\ NewKeypair(TRUE, local, remote, key) \in Keypairs
         /\ NewKeypair(FALSE, local, remote, key) \in Keypairs
  BY DEF NewKeypair, Keypairs

\* A peer begins with nothing valid.
LEMMA NewPeerType ==
  ASSUME NEW n
  PROVE  /\ NewPeer(n \in Active) \in Peers
         /\ \A s \in Slots : ~NewPeer(n \in Active)[s].valid
         /\ ~NewPeer(n \in Active).handshake.valid
<1>1. BlankPeer \in Peers
  BY DestroyedType DEF BlankPeer, Peers, NoHandshake
<1> DEFINE active == n \in Active
<1>2. active \in BOOLEAN
  OBVIOUS
<1> HIDE DEF active
<1>3. /\ NewPeer(active) \in Peers
      /\ NewPeer(active).curr = Destroyed /\ NewPeer(active).prev = Destroyed
      /\ NewPeer(active).next = Destroyed /\ NewPeer(active).handshake = NoHandshake
  BY <1>1, <1>2 DEF NewPeer, BlankPeer, Peers
<1>4. /\ NewPeer(active) \in Peers
      /\ \A s \in Slots : ~NewPeer(active)[s].valid
      /\ ~NewPeer(active).handshake.valid
  BY <1>3, DestroyedType DEF Slots, NoHandshake
<1> QED
  BY <1>4 DEF active

\* The slots of a peer hold keypairs.
LEMMA SlotType ==
  ASSUME NEW p \in Peers, NEW s \in Slots
  PROVE  p[s] \in Keypairs
  BY DEF Peers, Slots

\* Filling one slot leaves a peer, and everything else in it alone.
LEMMA SlotFilled ==
  ASSUME NEW p \in Peers, NEW slot \in Slots, NEW k \in Keypairs
  PROVE  LET q == [p EXCEPT ![slot] = k] IN
         /\ q \in Peers /\ q.handshake = p.handshake
         /\ q[slot] = k
         /\ \A s \in Slots \ {slot} : q[s] = p[s]
<1>1. CASE slot = "curr" BY <1>1 DEF Peers, Slots
<1>2. CASE slot = "prev" BY <1>2 DEF Peers, Slots
<1>3. CASE slot = "next" BY <1>3 DEF Peers, Slots
<1> QED
  BY <1>1, <1>2, <1>3 DEF Slots

\* A data packet is one of the current or the previous keypair.
LEMMA SendSlotType ==
  ASSUME NEW p
  PROVE  SendSlot(p) \in {"curr", "prev"}
  BY DEF SendSlot

\* What is sealed is a message, and one at most.
LEMMA SealedType ==
  ASSUME NEW n \in Node, NEW p \in Peers, NEW body \in {"packet", "keepalive"}
  PROVE  /\ Sealed(n, p, body) \subseteq Messages
         /\ Cardinality(Sealed(n, p, body)) \in Nat
<1> DEFINE slot == SendSlot(p)
<1>1. slot \in Slots
  BY SendSlotType DEF Slots
<1>2. p[slot] \in Keypairs
  BY <1>1, SlotType
<1>3. Data(n, p[slot], body) \in Messages
  <2> HIDE DEF slot
  <2> QED BY <1>2 DEF Data, Messages, Keypairs
<1>4. Cardinality({}) = 0
  BY FS_EmptySet
<1>5. Cardinality({Data(n, p[slot], body)}) = 1
  BY FS_Singleton
<1> QED
  BY <1>3, <1>4, <1>5 DEF Sealed

\* Output leaves a peer.
LEMMA AfterOutputType ==
  ASSUME clock \in Nat, NEW p \in Peers, NEW ok \in BOOLEAN
  PROVE  AfterOutput(p, ok) \in Peers
<1> DEFINE slot == SendSlot(p)
<1>1. slot \in {"curr", "prev"}
  BY SendSlotType
<1>2. AfterOutput(p, ok) =
        LET k == [p[slot] EXCEPT !.counter = @ + 1]
        IN IF CanSeal(p)
             THEN [p EXCEPT ![slot] = k, !.lastTx = IF ok THEN clock ELSE @,
                            !.sendHandshake = @ \/ WantsRekey(k)]
           ELSE IF p[slot].valid /\ (p[slot].initiator \/ p[slot].rx)
             THEN [p EXCEPT ![slot] = Destroyed]
           ELSE p
  BY DEF AfterOutput
<1> HIDE DEF slot
<1>3. p[slot] \in Keypairs
  BY <1>1, SlotType DEF Slots
<1>4. [p[slot] EXCEPT !.counter = @ + 1] \in Keypairs
  BY <1>3 DEF Keypairs
<1>5. ASSUME NEW k \in Keypairs
      PROVE  [p EXCEPT ![slot] = k, !.lastTx = IF ok THEN clock ELSE @,
                       !.sendHandshake = @ \/ WantsRekey(k)] \in Peers
  <2>1. WantsRekey(k) \in BOOLEAN
    BY DEF WantsRekey
  <2> QED
    BY <1>1, <2>1 DEF Peers
<1>6. [p EXCEPT ![slot] = Destroyed] \in Peers
  BY <1>1, DestroyedType DEF Peers
<1> QED
  BY <1>2, <1>4, <1>5, <1>6

\* Trimming an expired peer leaves a peer, and every slot as it was or destroyed.
LEMMA TrimmedType ==
  ASSUME NEW p \in Peers, NEW q, q = DestroyIfUsedUp(ResetIfSilent(p))
  PROVE  /\ q \in Peers
         /\ q.handshake = p.handshake
         /\ \A s \in Slots : q[s].valid => q[s] = p[s]
         /\ q.curr.valid => Usable(q.curr)
<1> DEFINE r == ResetIfSilent(p)
<1>1. /\ r \in Peers
      /\ r.handshake = p.handshake
      /\ \A s \in Slots : r[s].valid => r[s] = p[s]
  BY DestroyedType DEF ResetIfSilent, Peers, Slots
<1>2. q = IF r.curr.valid /\ ~Usable(r.curr) THEN [r EXCEPT !.curr = Destroyed] ELSE r
  BY DEF DestroyIfUsedUp
<1> HIDE DEF r
<1>3. CASE r.curr.valid /\ ~Usable(r.curr)
  BY <1>1, <1>2, <1>3, DestroyedType DEF Peers, Slots
<1>4. CASE ~(r.curr.valid /\ ~Usable(r.curr))
  BY <1>1, <1>2, <1>4
<1> QED
  BY <1>3, <1>4

\* Starting a handshake fills the handshake slot and leaves the keypairs alone.
LEMMA AfterStartType ==
  ASSUME clock \in Nat, drawn \in Nat, NEW p \in Peers
  PROVE  /\ AfterStart(p) \in Peers
         /\ AfterStart(p).handshake.ephemeral = drawn + 1
         /\ \A s \in Slots : AfterStart(p)[s] = p[s]
<1> DEFINE h == [valid |-> TRUE, local |-> drawn + 1, ephemeral |-> drawn + 1]
<1>1. h \in [valid : BOOLEAN, local : Nat, ephemeral : Nat] /\ h.ephemeral = drawn + 1
  OBVIOUS
<1>2. AfterStart(p) = [p EXCEPT !.handshake = h, !.sendHandshake = FALSE, !.initTx = clock]
  BY DEF AfterStart
<1> HIDE DEF h
<1> QED
  BY <1>1, <1>2 DEF Peers, Slots

\* A new session empties the handshake slot; the responder's keypair waits in next, the
\* initiator's is current, and what a slot held before stays there or moves to prev.
LEMMA StartSessionType ==
  ASSUME NEW p \in Peers, NEW new \in Keypairs, NEW q, q = StartSession(p, new)
  PROVE  /\ q \in Peers
         /\ ~q.handshake.valid
         /\ ~new.initiator => q.curr = p.curr /\ q.next = new /\ ~q.prev.valid
         /\ new.initiator => q.curr = new /\ ~q.next.valid /\ q.prev \in {p.curr, p.next}
<1> DEFINE r == [p EXCEPT !.handshake = NoHandshake]
<1>1. /\ r \in Peers /\ ~r.handshake.valid
      /\ r.curr = p.curr /\ r.prev = p.prev /\ r.next = p.next
  BY DEF Peers, NoHandshake
<1>2. q = AddNewKeypair(r, new)
  BY DEF StartSession
<1> HIDE DEF r
<1>3. CASE ~new.initiator
  BY <1>1, <1>2, <1>3, DestroyedType DEF AddNewKeypair, Peers
<1>4. CASE new.initiator /\ r.next.valid
  <2>1. q = [r EXCEPT !.prev = r.next, !.next = Destroyed, !.curr = new]
    BY <1>2, <1>4 DEF AddNewKeypair
  <2>2. /\ q.curr = new /\ q.next = Destroyed /\ q.prev = r.next
        /\ q.handshake = r.handshake
    BY <1>1, <2>1 DEF Peers
  <2>3. q \in Peers
    BY <1>1, <2>1, DestroyedType DEF Peers
  <2> QED
    BY <1>1, <1>4, <2>2, <2>3, DestroyedType
<1>5. CASE new.initiator /\ ~r.next.valid
  BY <1>1, <1>2, <1>5, DestroyedType DEF AddNewKeypair, Peers
<1> QED
  BY <1>3, <1>4, <1>5

\* The slot found for an index is a slot, and holds a valid keypair if any does.
LEMMA SlotForType ==
  ASSUME NEW p \in Peers, NEW index, Addressed(p, index)
  PROVE  SlotFor(p, index) \in Slots /\ p[SlotFor(p, index)].valid
  BY DEF SlotFor, Slots, Addressed

-----------------------------------------------------------------------------
(* Types, in every reachable state.                                        *)

\* The parts of the type invariant.
LEMMA TypeParts ==
  TypeOK <=>
    /\ peer \in [Node -> Peers] /\ link \in [Node -> BOOLEAN]
    /\ net \subseteq Messages
    /\ clock \in 1..(MaxClock + 1)
    /\ epoch \in [Node -> Nat] /\ \A n \in Node : epoch[n] < clock
    /\ due \subseteq Node /\ drawn \in 0..MaxKeys /\ packets \in 0..MaxPackets
    /\ faults \in 0..MaxFaults /\ sealed \in Nat /\ confirming \subseteq DataPackets
  BY DEF TypeOK, Peers

\* Messages are never taken back, so a packet once noted stays a data packet.
LEMMA ConfirmingGrows ==
  ASSUME confirming \subseteq DataPackets, net \subseteq net'
  PROVE  confirming \subseteq DataPackets'
  BY DEF DataPackets

\* The number of failed sends stays within its bound.
LEMMA SendsType ==
  ASSUME faults \in 0..MaxFaults, NEW messages, NEW ok \in BOOLEAN, Sends(messages, ok)
  PROVE  faults' \in 0..MaxFaults
  BY BoundsAssumption DEF Sends

\* The parts of the type invariant, after a step.
LEMMA TypePartsNext ==
  /\ peer' \in [Node -> Peers] /\ link' \in [Node -> BOOLEAN]
  /\ net' \subseteq Messages
  /\ clock' \in 1..(MaxClock + 1)
  /\ epoch' \in [Node -> Nat] /\ \A n \in Node : epoch'[n] < clock'
  /\ due' \subseteq Node /\ drawn' \in 0..MaxKeys /\ packets' \in 0..MaxPackets
  /\ faults' \in 0..MaxFaults /\ sealed' \in Nat /\ confirming' \subseteq DataPackets'
  => TypeOK'
  BY DEF TypeOK, Peers

\* An initiation carries the time since the clock of its end was set.
LEMMA InitiationType ==
  ASSUME NEW n \in Node, clock \in Nat, epoch \in [Node -> Nat], epoch[n] < clock, NEW number \in Nat
  PROVE  Initiation(n, number) \in Messages
<1>1. clock - epoch[n] \in Nat
  OBVIOUS
<1> QED
  BY <1>1 DEF Initiation, Messages

\* The fields of a message by its type.
LEMMA MessageFields ==
  ASSUME NEW m \in Messages
  PROVE  /\ m.from \in Node
         /\ m.type = "initiation" => m.sender \in Nat /\ m.ephemeral \in Nat /\ m.time \in Nat
         /\ m.type = "response" => /\ m.sender \in Nat /\ m.receiver \in Nat
                                   /\ m.ephemeral \in Nat /\ m.key \in Nat
         /\ m.type = "data" => /\ m.receiver \in Nat /\ m.key \in Nat /\ m.counter \in Nat
                               /\ m.initiator \in BOOLEAN
         /\ m.type \in {"initiation", "response", "data"}
  BY DEF Messages

\* A step of wireguardif_output keeps the types.
LEMMA OutputTypes ==
  ASSUME TypeOK, NEW n \in Node, Output(n)
  PROVE  TypeOK'
<1> USE TypeParts
<1>1. PICK ok \in BOOLEAN : /\ Sends(Sealed(n, peer[n], "packet"), ok)
                            /\ peer' = [peer EXCEPT ![n] = AfterOutput(@, ok)]
  BY DEF Output
<1>2. peer' \in [Node -> Peers]
  BY <1>1, AfterOutputType
<1>3. /\ Sealed(n, peer[n], "packet") \subseteq Messages
      /\ Cardinality(Sealed(n, peer[n], "packet")) \in Nat
  BY SealedType
<1>4. net' \subseteq Messages /\ sealed' \in Nat /\ confirming' \subseteq DataPackets'
  BY <1>3, ConfirmingGrows DEF Output
<1>5. packets' \in 0..MaxPackets /\ faults' \in 0..MaxFaults
  BY <1>1, SendsType, BoundsAssumption DEF Output
<1> QED
  BY <1>2, <1>4, <1>5, TypePartsNext DEF Output

\* The stages of a step of the timer: a peer p that is trimmed, a peer q after a keepalive
\* that may have failed, and a handshake that may have been started.
TimerStage(n, ok, p, q) ==
  /\ p.handshake = peer[n].handshake
  /\ \A s \in Slots : p[s].valid => p[s] = peer[n][s]
  /\ p.curr.valid => Usable(p.curr)
  /\ q = AfterKeepalive(p, ok)
  /\ Sends(KeepaliveOf(n, p), ok)
  /\ \/ /\ drawn < MaxKeys /\ drawn' = drawn + 1
        /\ peer' = [peer EXCEPT ![n] = AfterStart(q)]
        /\ net' = net \union KeepaliveOf(n, p) \union {Initiation(n, drawn + 1)}
     \/ /\ UNCHANGED drawn
        /\ peer' = [peer EXCEPT ![n] = q]
        /\ net' = net \union KeepaliveOf(n, p)
  /\ sealed' = sealed + Cardinality(KeepaliveOf(n, p))
  /\ link' = [link EXCEPT ![n] = StaysUp(q, @)]
  /\ due' = due \ {n}
  /\ UNCHANGED <<clock, epoch, packets, confirming, delivered>>

\* Every step of the timer has them.
LEMMA TimerStages ==
  ASSUME TypeOK, NEW n \in Node, Timer(n)
  PROVE  \E ok \in BOOLEAN, p \in Peers, q \in Peers : TimerStage(n, ok, p, q)
<1> DEFINE p == DestroyIfUsedUp(ResetIfSilent(peer[n]))
<1>1. PICK ok \in BOOLEAN :
        /\ Sends(KeepaliveOf(n, p), ok)
        /\ \/ /\ drawn < MaxKeys /\ drawn' = drawn + 1
              /\ peer' = [peer EXCEPT ![n] = AfterStart(AfterKeepalive(p, ok))]
              /\ net' = net \union KeepaliveOf(n, p) \union {Initiation(n, drawn + 1)}
           \/ /\ UNCHANGED drawn
              /\ peer' = [peer EXCEPT ![n] = AfterKeepalive(p, ok)]
              /\ net' = net \union KeepaliveOf(n, p)
        /\ sealed' = sealed + Cardinality(KeepaliveOf(n, p))
        /\ link' = [link EXCEPT ![n] = StaysUp(AfterKeepalive(p, ok), @)]
        /\ due' = due \ {n}
        /\ UNCHANGED <<clock, epoch, packets, confirming, delivered>>
  BY DEF Timer
<1>2. /\ p \in Peers /\ p.handshake = peer[n].handshake
      /\ \A s \in Slots : p[s].valid => p[s] = peer[n][s]
      /\ p.curr.valid => Usable(p.curr)
  BY TypeParts, TrimmedType
<1> HIDE DEF p
<1> DEFINE q == AfterKeepalive(p, ok)
<1>3. clock \in Nat
  BY TypeParts, BoundsAssumption
<1>4. q \in Peers
  BY <1>2, <1>3, AfterOutputType DEF AfterKeepalive
<1>5. TimerStage(n, ok, p, q)
  BY <1>1, <1>2 DEF TimerStage
<1> QED
  BY <1>2, <1>4, <1>5

\* The keepalive of the timer: types.
LEMMA AfterKeepaliveType ==
  ASSUME clock \in Nat, NEW n \in Node, NEW p \in Peers, NEW ok \in BOOLEAN
  PROVE  /\ AfterKeepalive(p, ok) \in Peers
         /\ KeepaliveOf(n, p) \subseteq Messages /\ Cardinality(KeepaliveOf(n, p)) \in Nat
<1>1. Cardinality({}) = 0
  BY FS_EmptySet
<1> QED
  BY <1>1, AfterOutputType, SealedType DEF AfterKeepalive, KeepaliveOf

\* A step of the timer keeps the types.
LEMMA TimerTypes ==
  ASSUME TypeOK, NEW n \in Node, Timer(n)
  PROVE  TypeOK'
<1>1. PICK ok \in BOOLEAN, p \in Peers, q \in Peers : TimerStage(n, ok, p, q)
  BY TimerStages
<1> USE TypeParts DEF TimerStage
<1>2. KeepaliveOf(n, p) \subseteq Messages /\ Cardinality(KeepaliveOf(n, p)) \in Nat
  BY AfterKeepaliveType
<1>3. AfterStart(q) \in Peers /\ Initiation(n, drawn + 1) \in Messages
  BY AfterStartType, InitiationType
<1>4. peer' \in [Node -> Peers] /\ drawn' \in 0..MaxKeys
  BY <1>1, <1>2, <1>3, BoundsAssumption
<1>5. link' \in [Node -> BOOLEAN]
  BY <1>1 DEF StaysUp
<1>6. net' \subseteq Messages /\ sealed' \in Nat
  BY <1>1, <1>2, <1>3
<1>7. faults' \in 0..MaxFaults /\ confirming' \subseteq DataPackets'
  BY <1>1, SendsType, ConfirmingGrows
<1> QED
  BY <1>1, <1>4, <1>5, <1>6, <1>7, TypePartsNext

\* An initiation that is answered: its time is noted, and a keypair waits in next.
InitiationStage(n, m, p, new, q) ==
  /\ m.type = "initiation" /\ m.from \in Node \ {n}
  /\ m.sender \in Nat /\ m.ephemeral \in Nat
  /\ \A s \in Slots : p[s] = peer[n][s]
  /\ new = NewKeypair(FALSE, drawn + 1, m.sender, drawn + 1)
  /\ q = StartSession(p, new)
  /\ peer' = [peer EXCEPT ![n] = q]
  /\ net' = net \union {Response(n, drawn + 1, m)}
  /\ drawn < MaxKeys /\ drawn' = drawn + 1
  /\ UNCHANGED <<link, clock, epoch, due, packets, faults, sealed, confirming, delivered>>

\* Every initiation that is answered is answered like this.
LEMMA InitiationStages ==
  ASSUME TypeOK, NEW n \in Node, NEW m \in net, ProcessInitiation(n, m)
  PROVE  \E p \in Peers, new \in Keypairs, q \in Peers : InitiationStage(n, m, p, new, q)
<1> DEFINE p == [peer[n] EXCEPT !.greatest = m.time]
<1> DEFINE new == AnsweringKeypair(m, drawn + 1)
<1> DEFINE q == StartSession(p, new)
<1>1. /\ m.sender \in Nat /\ m.ephemeral \in Nat /\ m.time \in Nat
      /\ m.type = "initiation" /\ m.from \in Node \ {n}
  BY MessageFields, TypeParts DEF ProcessInitiation
<1>2. p \in Peers /\ \A s \in Slots : p[s] = peer[n][s]
  BY <1>1, TypeParts DEF Peers, Slots
<1>3. new \in Keypairs /\ new = NewKeypair(FALSE, drawn + 1, m.sender, drawn + 1)
  <2>1. clock \in Nat /\ drawn + 1 \in Nat
    BY BoundsAssumption, TypeParts
  <2>2. NewKeypair(FALSE, drawn + 1, m.sender, drawn + 1) \in Keypairs
    BY <1>1, <2>1, NewKeypairType
  <2> QED
    BY <2>2 DEF AnsweringKeypair
<1>4. /\ peer' = [peer EXCEPT ![n] = q]
      /\ net' = net \union {Response(n, drawn + 1, m)}
      /\ drawn < MaxKeys /\ drawn' = drawn + 1
      /\ UNCHANGED <<link, clock, epoch, due, packets, faults, sealed, confirming, delivered>>
  BY DEF ProcessInitiation
<1> HIDE DEF p, new
<1>5. q \in Peers
  BY <1>2, <1>3, StartSessionType
<1>6. InitiationStage(n, m, p, new, q)
  BY <1>1, <1>2, <1>3, <1>4 DEF InitiationStage
<1> QED
  BY <1>2, <1>3, <1>5, <1>6

\* Answering an initiation keeps the types.
LEMMA InitiationTypes ==
  ASSUME TypeOK, NEW n \in Node, NEW m \in net, ProcessInitiation(n, m)
  PROVE  TypeOK'
<1>1. PICK p \in Peers, new \in Keypairs, q \in Peers : InitiationStage(n, m, p, new, q)
  BY InitiationStages
<1>2. /\ m.sender \in Nat /\ m.ephemeral \in Nat
      /\ peer' = [peer EXCEPT ![n] = q]
      /\ net' = net \union {Response(n, drawn + 1, m)}
      /\ drawn < MaxKeys /\ drawn' = drawn + 1
      /\ UNCHANGED <<link, clock, epoch, due, packets, faults, sealed, confirming>>
  BY <1>1 DEF InitiationStage
<1> USE TypeParts
<1>3. Response(n, drawn + 1, m) \in Messages
  BY <1>2 DEF Response, Messages
<1>4. peer' \in [Node -> Peers] /\ drawn' \in 0..MaxKeys
  BY <1>2, BoundsAssumption
<1>5. net' \subseteq Messages /\ confirming' \subseteq DataPackets'
  BY <1>2, <1>3, ConfirmingGrows
<1> QED
  BY <1>2, <1>4, <1>5, TypePartsNext

\* The stages of a response: the session p is started and a keepalive confirms it.
ResponseStage(n, m, ok, p, new) ==
  /\ m.type = "response" /\ m.from \in Node \ {n}
  /\ peer[n].handshake.valid /\ m.ephemeral = peer[n].handshake.ephemeral
  /\ new = NewKeypair(TRUE, m.receiver, m.sender, m.key)
  /\ p = StartSession(peer[n], new)
  /\ Sends(Sealed(n, p, "keepalive"), ok)
  /\ peer' = [peer EXCEPT ![n] = AfterOutput(p, ok)]
  /\ net' = net \union Sealed(n, p, "keepalive")
  /\ sealed' = sealed + Cardinality(Sealed(n, p, "keepalive"))
  /\ link' = [link EXCEPT ![n] = TRUE]
  /\ UNCHANGED <<clock, epoch, due, drawn, packets, confirming, delivered>>

\* Every response that is taken has them.
LEMMA ResponseStages ==
  ASSUME TypeOK, NEW n \in Node, NEW m \in net, ProcessResponse(n, m)
  PROVE  \E ok \in BOOLEAN, p \in Peers, new \in Keypairs : ResponseStage(n, m, ok, p, new)
<1> USE TypeParts
<1> DEFINE new == NewKeypair(TRUE, m.receiver, m.sender, m.key)
<1> DEFINE p == StartSession(peer[n], new)
<1>1. m.from \in Node /\ m.sender \in Nat /\ m.receiver \in Nat /\ m.key \in Nat
  BY MessageFields DEF ProcessResponse
<1>2. clock \in Nat
  BY BoundsAssumption
<1>3. new \in Keypairs
  BY <1>1, <1>2, NewKeypairType
<1>4. p \in Peers
  <2> HIDE DEF new
  <2> QED BY <1>3, StartSessionType
<1>5. PICK ok \in BOOLEAN : /\ Sends(Sealed(n, p, "keepalive"), ok)
                            /\ peer' = [peer EXCEPT ![n] = AfterOutput(p, ok)]
  BY DEF ProcessResponse
<1>6. /\ m.type = "response" /\ m.from # n
      /\ peer[n].handshake.valid /\ m.ephemeral = peer[n].handshake.ephemeral
      /\ net' = net \union Sealed(n, p, "keepalive")
      /\ sealed' = sealed + Cardinality(Sealed(n, p, "keepalive"))
      /\ link' = [link EXCEPT ![n] = TRUE]
      /\ UNCHANGED <<clock, epoch, due, drawn, packets, confirming, delivered>>
  BY DEF ProcessResponse
<1>7. new = NewKeypair(TRUE, m.receiver, m.sender, m.key) /\ p = StartSession(peer[n], new)
  OBVIOUS
<1> HIDE DEF p, new
<1>8. ResponseStage(n, m, ok, p, new)
  BY <1>1, <1>5, <1>6, <1>7 DEF ResponseStage
<1> QED
  BY <1>3, <1>4, <1>8

\* Starting a session with a response keeps the types.
LEMMA ResponseTypes ==
  ASSUME TypeOK, NEW n \in Node, NEW m \in net, ProcessResponse(n, m)
  PROVE  TypeOK'
<1>1. PICK ok \in BOOLEAN, p \in Peers, new \in Keypairs : ResponseStage(n, m, ok, p, new)
  BY ResponseStages
<1>2. /\ Sends(Sealed(n, p, "keepalive"), ok)
      /\ peer' = [peer EXCEPT ![n] = AfterOutput(p, ok)]
      /\ net' = net \union Sealed(n, p, "keepalive")
      /\ sealed' = sealed + Cardinality(Sealed(n, p, "keepalive"))
      /\ link' = [link EXCEPT ![n] = TRUE]
      /\ UNCHANGED <<clock, epoch, due, drawn, packets, confirming>>
  BY <1>1 DEF ResponseStage
<1> USE TypeParts
<1>3. /\ Sealed(n, p, "keepalive") \subseteq Messages
      /\ Cardinality(Sealed(n, p, "keepalive")) \in Nat
  BY SealedType
<1>4. clock \in Nat
  BY BoundsAssumption
<1>5. AfterOutput(p, ok) \in Peers
  BY <1>4, AfterOutputType
<1>6. peer' \in [Node -> Peers] /\ link' \in [Node -> BOOLEAN] /\ faults' \in 0..MaxFaults
  BY <1>2, <1>5, SendsType
<1>7. net' \subseteq Messages /\ sealed' \in Nat
  BY <1>2, <1>3
<1>8. confirming' \subseteq DataPackets'
  BY <1>2, ConfirmingGrows
<1> QED
  BY <1>2, <1>6, <1>7, <1>8, TypePartsNext

\* Refusing a packet keeps the types.
LEMMA RefuseTypes ==
  ASSUME TypeOK, NEW n \in Node, NEW m \in net, RefuseData(n, m)
  PROVE  /\ TypeOK'
         /\ \E p \in Peers : /\ peer' = [peer EXCEPT ![n] = p]
                            /\ p.handshake = peer[n].handshake
                            /\ \A s \in Slots : p[s].valid => p[s] = peer[n][s]
<1> USE TypeParts
<1> DEFINE slot == SlotFor(peer[n], m.receiver)
<1>1. slot \in Slots
  BY SlotForType DEF RefuseData
<1>2. peer' = [peer EXCEPT ![n] = [peer[n] EXCEPT ![slot] = Destroyed]]
  BY DEF RefuseData
<1> HIDE DEF slot
<1> DEFINE p == [peer[n] EXCEPT ![slot] = Destroyed]
<1>3. /\ p \in Peers /\ p.handshake = peer[n].handshake
      /\ \A s \in Slots : p[s].valid => p[s] = peer[n][s]
  BY <1>1, SlotFilled, DestroyedType
<1> HIDE DEF p
<1>4. peer' = [peer EXCEPT ![n] = p]
  BY <1>2 DEF p
<1>5. net' = net /\ confirming' \subseteq DataPackets'
  BY DEF RefuseData, DataPackets
<1>6. TypeOK'
  BY <1>3, <1>4, <1>5, TypePartsNext DEF RefuseData
<1> QED
  BY <1>3, <1>4, <1>6

\* A received packet changes only the window of a keypair, and that something was received.
Marked(k, l) ==
  /\ l \in Keypairs /\ l.rx /\ l.valid = k.valid /\ l.initiator = k.initiator
  /\ l.local = k.local /\ l.remote = k.remote /\ l.key = k.key
  /\ l.born = k.born /\ l.counter = k.counter

\* The packet m is given to ip_input and its counter noted in l, or neither.
NotedIn(k, l, m) ==
  \/ delivered' = delivered /\ l.seen = k.seen
  \/ /\ delivered' = delivered (+) SetToBag({m})
     /\ m.counter \notin k.seen /\ l.seen = k.seen \union {m.counter}

\* What a received packet leaves in the slot it was found in, or, when that was next, in curr.
DataStage(n, m, slot, rx, q) ==
  /\ m.type = "data" /\ m.from # n
  /\ peer[n][slot].valid /\ Usable(peer[n][slot])
  /\ m.key = peer[n][slot].key /\ m.initiator # peer[n][slot].initiator
  /\ Marked(peer[n][slot], rx)
  /\ peer' = [peer EXCEPT ![n] = q]
  /\ q.handshake = peer[n].handshake
  /\ slot = "next" => q.prev = peer[n].curr /\ q.curr = rx /\ ~q.next.valid
  /\ slot # "next" => q[slot] = rx /\ \A s \in Slots \ {slot} : q[s] = peer[n][s]
  /\ link' = [link EXCEPT ![n] = TRUE]
  /\ confirming' = IF slot = "next" THEN confirming \union {m} ELSE confirming
  /\ slot = "next" => delivered' \in {delivered, delivered (+) SetToBag({m})}
  /\ slot # "next" => NotedIn(peer[n][slot], rx, m)
  /\ UNCHANGED <<net, clock, epoch, due, drawn, packets, faults, sealed>>

\* Every packet that is opened has them.
LEMMA DataStages ==
  ASSUME TypeOK, NEW n \in Node, NEW m \in net, ProcessData(n, m)
  PROVE  \E slot \in Slots, rx \in Keypairs, q \in Peers : DataStage(n, m, slot, rx, q)
<1> DEFINE slot == SlotFor(peer[n], m.receiver)
<1> DEFINE r == [peer[n] EXCEPT ![slot].rx = TRUE]
<1> DEFINE p == KeypairUpdate(r, slot)
<1> DEFINE noted == IF Accepts(p[slot], m) THEN p[slot].seen \union {m.counter} ELSE p[slot].seen
<1> DEFINE last == [p[slot] EXCEPT !.seen = noted]
<1> DEFINE filled == [p EXCEPT ![slot] = last]
<1> DEFINE q == [p EXCEPT ![slot].seen = noted, !.sendHandshake = @ \/ NearReject(p[slot])]
<1>1. slot \in Slots /\ peer[n][slot].valid
  BY SlotForType, TypeParts DEF ProcessData
<1>2. /\ m.type = "data" /\ m.from # n /\ Usable(peer[n][slot])
      /\ m.key = peer[n][slot].key /\ m.initiator # peer[n][slot].initiator
      /\ peer' = [peer EXCEPT ![n] = q]
      /\ link' = [link EXCEPT ![n] = TRUE]
      /\ confirming' = IF slot = "next" THEN confirming \union {m} ELSE confirming
      /\ delivered' = IF Accepts(p[slot], m) THEN delivered (+) SetToBag({m}) ELSE delivered
      /\ UNCHANGED <<net, clock, epoch, due, drawn, packets, faults, sealed>>
  BY DEF ProcessData
<1>3. m.counter \in Nat
  BY <1>2, MessageFields, TypeParts
<1> HIDE DEF slot
<1> DEFINE k == [peer[n][slot] EXCEPT !.rx = TRUE]
<1>6. peer[n] \in Peers
  BY TypeParts
<1>4. k \in Keypairs /\ Marked(peer[n][slot], k) /\ k.seen = peer[n][slot].seen
  BY <1>1, <1>6, SlotType DEF Keypairs, Marked
<1>5. r = [peer[n] EXCEPT ![slot] = k]
  OBVIOUS
<1> HIDE DEF k
<1>7. /\ r \in Peers /\ r.handshake = peer[n].handshake
      /\ r[slot] = k /\ \A s \in Slots \ {slot} : r[s] = peer[n][s]
  <2>1. r \in Peers
    BY <1>1, <1>4, <1>6, <1>5, SlotFilled
  <2>2. r.handshake = peer[n].handshake
    BY <1>1, <1>6, <1>5 DEF Slots, Peers
  <2>4. r[slot] = k
    BY <1>1, <1>6, <1>5 DEF Slots, Peers
  <2>3. \A s \in Slots \ {slot} : r[s] = peer[n][s]
    BY <1>1, <1>4, <1>6, <1>5, SlotFilled
  <2> QED
    BY <2>1, <2>2, <2>3, <2>4
<1> HIDE DEF r
<1>8. /\ p \in Peers /\ p.handshake = peer[n].handshake
      /\ slot = "next" => p.prev = peer[n].curr /\ p.curr = k /\ p.next = Destroyed
      /\ slot # "next" => p = r
  BY <1>7, DestroyedType DEF KeypairUpdate, Peers, Slots
<1> HIDE DEF p
<1>9. p[slot] \in Keypairs
  BY <1>1, <1>8, SlotType
<1>10. last \in Keypairs /\ last.valid = p[slot].valid
  BY <1>3, <1>9 DEF Keypairs
<1>11. /\ p[slot].rx => Marked(p[slot], last)
       /\ NotedIn(p[slot], last, m)
  <2>1. p[slot].rx => Marked(p[slot], last)
    BY <1>9, <1>10 DEF Keypairs, Marked
  <2>2. last.seen = noted
    BY <1>9 DEF Keypairs
  <2> HIDE DEF last
  <2>3. NotedIn(p[slot], last, m)
    BY <1>2, <2>2 DEF NotedIn, Accepts
  <2> QED
    BY <2>1, <2>3
<1>12. q = [filled EXCEPT !.sendHandshake = @ \/ NearReject(p[slot])]
  BY <1>1, <1>8 DEF Peers, Slots
<1> HIDE DEF last, noted
<1>13. /\ filled \in Peers /\ filled.handshake = p.handshake
       /\ filled[slot] = last /\ \A s \in Slots \ {slot} : filled[s] = p[s]
  <2>1. filled \in Peers
    BY <1>1, <1>8, <1>10, SlotFilled
  <2>2. filled.handshake = p.handshake
    BY <1>1, <1>8 DEF Slots, Peers
  <2>4. filled[slot] = last
    BY <1>1, <1>8 DEF Slots, Peers
  <2>3. \A s \in Slots \ {slot} : filled[s] = p[s]
    BY <1>1, <1>8, <1>10, SlotFilled
  <2> QED
    BY <2>1, <2>2, <2>3, <2>4
<1> HIDE DEF filled, q
<1>14. /\ q \in Peers /\ q.handshake = peer[n].handshake
       /\ \A s \in Slots : q[s] = filled[s]
  BY <1>8, <1>12, <1>13 DEF Peers, Slots, NearReject
<1>15. CASE slot = "next"
  <2>1. q.prev = peer[n].curr /\ q.curr = k /\ ~q.next.valid
    BY <1>8, <1>10, <1>13, <1>14, <1>15, DestroyedType DEF Slots
  <2>3. DataStage(n, m, slot, k, q)
    BY <1>1, <1>2, <1>4, <1>14, <1>15, <2>1 DEF DataStage
  <2> QED
    BY <1>1, <1>4, <1>14, <2>3
<1>16. CASE slot # "next"
  <2>1. q[slot] = last /\ \A s \in Slots \ {slot} : q[s] = peer[n][s]
    BY <1>1, <1>7, <1>8, <1>13, <1>14, <1>16
  <2>2. Marked(peer[n][slot], last)
    BY <1>4, <1>7, <1>8, <1>11, <1>16 DEF Marked
  <2>4. NotedIn(peer[n][slot], last, m)
    BY <1>4, <1>7, <1>8, <1>11, <1>16 DEF NotedIn
  <2>3. DataStage(n, m, slot, last, q)
    BY <1>1, <1>2, <1>10, <1>14, <1>16, <2>1, <2>2, <2>4 DEF DataStage
  <2> QED
    BY <1>1, <1>10, <1>14, <2>3
<1> QED
  BY <1>15, <1>16

\* Taking a data packet keeps the types.
LEMMA DataTypes ==
  ASSUME TypeOK, NEW n \in Node, NEW m \in net, ProcessData(n, m)
  PROVE  TypeOK'
<1>1. PICK slot \in Slots, rx \in Keypairs, q \in Peers : DataStage(n, m, slot, rx, q)
  BY DataStages
<1>2. /\ m.type = "data"
      /\ peer' = [peer EXCEPT ![n] = q] /\ link' = [link EXCEPT ![n] = TRUE]
      /\ confirming' \in {confirming \union {m}, confirming}
      /\ UNCHANGED <<net, clock, epoch, due, drawn, packets, faults, sealed>>
  BY <1>1 DEF DataStage
<1> USE TypeParts
<1>3. peer' \in [Node -> Peers] /\ link' \in [Node -> BOOLEAN]
  BY <1>2
<1>4. confirming' \subseteq DataPackets'
  BY <1>2 DEF DataPackets
<1> QED
  BY <1>2, <1>3, <1>4, TypePartsNext

\* A restart keeps the types: the clock of an end is never set to the future.
LEMMA RestartTypes ==
  ASSUME TypeOK, NEW n \in Node, Restart(n)
  PROVE  TypeOK'
<1> USE TypeParts
<1>1. PICK start \in {epoch[n], clock - 1} : epoch' = [epoch EXCEPT ![n] = start]
  BY DEF Restart
<1>2. start \in Nat /\ start < clock
  BY BoundsAssumption
<1>3. epoch' \in [Node -> Nat] /\ \A o \in Node : epoch'[o] < clock
  BY <1>1, <1>2
<1>4. NewPeer(n \in Active) \in Peers
  BY NewPeerType
<1>5. /\ peer' \in [Node -> Peers] /\ link' \in [Node -> BOOLEAN]
      /\ faults' \in 0..MaxFaults
  BY <1>4, BoundsAssumption DEF Restart
<1>6. confirming' \subseteq DataPackets'
  BY DEF Restart, DataPackets
<1> QED
  BY <1>3, <1>5, <1>6, TypePartsNext DEF Restart

\* So does the passing of time.
LEMMA TickTypes ==
  ASSUME TypeOK, Tick
  PROVE  TypeOK'
<1> USE TypeParts
<1>1. clock' \in 1..(MaxClock + 1) /\ \A o \in Node : epoch[o] < clock'
  BY BoundsAssumption DEF Tick
<1>2. confirming' \subseteq DataPackets'
  BY DEF Tick, DataPackets
<1> QED
  BY <1>1, <1>2, TypePartsNext DEF Tick

\* Every step keeps the types.
LEMMA StepTypes == TypeOK /\ [Next]_vars => TypeOK'
<1> SUFFICES ASSUME TypeOK, [Next]_vars PROVE TypeOK'
  OBVIOUS
<1>1. CASE Tick
  BY <1>1, TickTypes
<1>2. ASSUME NEW n \in Node, Output(n) PROVE TypeOK'
  BY <1>2, OutputTypes
<1>3. ASSUME NEW n \in Node, Timer(n) PROVE TypeOK'
  BY <1>3, TimerTypes
<1>4. ASSUME NEW n \in Node, Receive(n) PROVE TypeOK'
  BY <1>4, InitiationTypes, ResponseTypes, RefuseTypes, DataTypes DEF Receive
<1>5. ASSUME NEW n \in Node, Restart(n) PROVE TypeOK'
  BY <1>5, RestartTypes
<1>6. CASE UNCHANGED vars
  BY <1>6 DEF vars, TypeOK, DataPackets
<1> QED
  BY <1>1, <1>2, <1>3, <1>4, <1>5, <1>6 DEF Next

\* The initial state has the types.
LEMMA InitTypes == Init => TypeOK
<1> SUFFICES ASSUME Init PROVE TypeOK
  OBVIOUS
<1>1. peer \in [Node -> Peers]
  BY NewPeerType DEF Init
<1> QED
  BY <1>1, TypeParts, BoundsAssumption DEF Init, DataPackets

\* The slots, the messages and the clocks hold what their C types and the bounds say, in
\* every reachable state.
THEOREM TypeCorrect == Spec => []TypeOK
  BY InitTypes, StepTypes, PTL DEF Spec

-----------------------------------------------------------------------------
(* The link flag and the age of the current keypair.                       *)

\* The keypair l is k, on which something may have been sent.
Continues(k, l) ==
  /\ l.valid = k.valid /\ l.initiator = k.initiator /\ l.local = k.local
  /\ l.remote = k.remote /\ l.key = k.key /\ l.born = k.born /\ l.rx = k.rx

\* A datagram that is sent, or refused, leaves every slot its keypair or destroys it.
LEMMA OutputKeeps ==
  ASSUME NEW p \in Peers, NEW ok \in BOOLEAN, NEW q, q = AfterOutput(p, ok)
  PROVE  /\ \A s \in Slots : q[s].valid => Continues(p[s], q[s])
         /\ q.handshake = p.handshake
<1> DEFINE slot == SendSlot(p)
<1> DEFINE k == [p[slot] EXCEPT !.counter = @ + 1]
<1>1. slot \in {"curr", "prev"}
  BY SendSlotType
<1>2. q = IF CanSeal(p)
            THEN [p EXCEPT ![slot] = k, !.lastTx = IF ok THEN clock ELSE @,
                           !.sendHandshake = @ \/ WantsRekey(k)]
          ELSE IF p[slot].valid /\ (p[slot].initiator \/ p[slot].rx)
            THEN [p EXCEPT ![slot] = Destroyed]
          ELSE p
  BY DEF AfterOutput
<1>3. p[slot] \in Keypairs
  BY <1>1, SlotType DEF Slots
<1>4. Continues(p[slot], k)
  BY <1>3 DEF Keypairs, Continues
<1>5. \A l : Continues(l, l)
  BY DEF Continues
<1> HIDE DEF slot, k
<1>6. q.handshake = p.handshake
  BY <1>1, <1>2 DEF Peers
<1>7. \A s \in Slots : q[s] = p[s] \/ (s = slot /\ q[s] \in {k, Destroyed})
  BY <1>1, <1>2 DEF Peers, Slots
<1> QED
  BY <1>4, <1>5, <1>6, <1>7, DestroyedType

\* What the two properties say of one end.
EndFits(n, p, up, ran) ==
  /\ p.curr.valid \/ p.prev.valid => up
  /\ p.curr.valid => clock < p.curr.born + RejectAfterTime + (IF ran THEN 0 ELSE 1)

\* Both properties, of every end.
LEMMA EndsFit ==
  SessionShowsUp /\ CurrNeverStale <=> \A n \in Node : EndFits(n, peer[n], link[n], n \notin due)
  BY DEF SessionShowsUp, CurrNeverStale, EndFits, PeerIsUp

\* Both properties, of every end after a step that leaves the clock alone.
LEMMA EndsFitNext ==
  ASSUME UNCHANGED clock,
         \A n \in Node : EndFits(n, peer'[n], link'[n], n \notin due')
  PROVE  (SessionShowsUp /\ CurrNeverStale)'
  BY DEF SessionShowsUp, CurrNeverStale, EndFits, PeerIsUp

\* A step of one end that the other end does not notice.
LEMMA OneEndFits ==
  ASSUME TypeOK, SessionShowsUp /\ CurrNeverStale, NEW n \in Node, NEW p, NEW up,
         UNCHANGED clock, peer' = [peer EXCEPT ![n] = p], link' = [link EXCEPT ![n] = up],
         due' \in {due, due \ {n}}, EndFits(n, p, up, n \notin due')
  PROVE  (SessionShowsUp /\ CurrNeverStale)'
<1> SUFFICES ASSUME NEW o \in Node PROVE EndFits(o, peer'[o], link'[o], o \notin due')
  BY EndsFitNext
<1>1. peer \in [Node -> Peers] /\ link \in [Node -> BOOLEAN]
  BY TypeParts
<1>2. CASE o = n
  BY <1>1, <1>2
<1>3. CASE o # n
  BY <1>1, <1>3, EndsFit DEF EndFits
<1> QED
  BY <1>2, <1>3

\* A packet of the IP layer: a slot at most loses its keypair.
LEMMA OutputFits ==
  ASSUME TypeOK, SessionShowsUp /\ CurrNeverStale, NEW n \in Node, Output(n)
  PROVE  (SessionShowsUp /\ CurrNeverStale)'
<1> USE TypeParts
<1>1. PICK ok \in BOOLEAN : peer' = [peer EXCEPT ![n] = AfterOutput(@, ok)]
  BY DEF Output
<1>2. PICK q : q = AfterOutput(peer[n], ok)
  OBVIOUS
<1>3. \A s \in Slots : q[s].valid => Continues(peer[n][s], q[s])
  BY <1>2, OutputKeeps
<1>4. EndFits(n, q, link[n], n \notin due)
  BY <1>3, EndsFit DEF EndFits, Continues, Slots
<1>5. /\ peer' = [peer EXCEPT ![n] = q] /\ link' = [link EXCEPT ![n] = link[n]]
      /\ due' = due /\ UNCHANGED clock
  BY <1>1, <1>2 DEF Output
<1> QED
  BY <1>4, <1>5, OneEndFits

\* The timer: it leaves no current keypair that is not usable, and looks at the slots last.
LEMMA TimerFits ==
  ASSUME TypeOK, SessionShowsUp /\ CurrNeverStale, NEW n \in Node, Timer(n)
  PROVE  (SessionShowsUp /\ CurrNeverStale)'
<1>1. PICK ok \in BOOLEAN, p \in Peers, q \in Peers : TimerStage(n, ok, p, q)
  BY TimerStages
<1>2. /\ \A s \in Slots : p[s].valid => p[s] = peer[n][s]
      /\ p.curr.valid => Usable(p.curr)
      /\ q = AfterKeepalive(p, ok)
      /\ peer' \in {[peer EXCEPT ![n] = q], [peer EXCEPT ![n] = AfterStart(q)]}
      /\ link' = [link EXCEPT ![n] = StaysUp(q, link[n])]
      /\ due' = due \ {n} /\ UNCHANGED clock
  BY <1>1 DEF TimerStage
<1>3. \A s \in Slots : q[s].valid => Continues(p[s], q[s])
  <2>1. CASE ShouldSendKeepalive(p)
    BY <1>2, <2>1, OutputKeeps DEF AfterKeepalive
  <2>2. CASE ~ShouldSendKeepalive(p)
    BY <1>2, <2>2 DEF AfterKeepalive, Continues
  <2> QED
    BY <2>1, <2>2
<1>4. link[n] \in BOOLEAN /\ clock \in Nat /\ q.curr \in Keypairs
  BY TypeParts, BoundsAssumption DEF Peers
<1>5. q.curr.valid => clock < q.curr.born + RejectAfterTime
  BY <1>2, <1>3, <1>4, LimitsAssumption DEF Usable, Expired, Continues, Slots, Keypairs
<1>6. q.curr.valid \/ q.prev.valid => link[n]
  BY <1>2, <1>3, EndsFit DEF EndFits, Continues, Slots
<1>7. EndFits(n, q, StaysUp(q, link[n]), TRUE)
  BY <1>4, <1>5, <1>6, LimitsAssumption DEF EndFits, StaysUp, Keypairs
<1>8. AfterStart(q).curr = q.curr /\ AfterStart(q).prev = q.prev
  BY DEF AfterStart, Peers
<1>9. PICK r : /\ peer' = [peer EXCEPT ![n] = r]
               /\ r.curr = q.curr /\ r.prev = q.prev
  BY <1>2, <1>8
<1>10. EndFits(n, r, StaysUp(q, link[n]), TRUE)
  BY <1>7, <1>9 DEF EndFits
<1>11. (n \notin due') = TRUE
  BY <1>2
<1> QED
  BY <1>2, <1>9, <1>10, <1>11, OneEndFits

\* An initiation fills next, which the flag does not count.
LEMMA InitiationFits ==
  ASSUME TypeOK, SessionShowsUp /\ CurrNeverStale, NEW n \in Node, NEW m \in net,
         ProcessInitiation(n, m)
  PROVE  (SessionShowsUp /\ CurrNeverStale)'
<1>0. PICK p \in Peers, new \in Keypairs, q \in Peers : InitiationStage(n, m, p, new, q)
  BY InitiationStages
<1>1. /\ peer' = [peer EXCEPT ![n] = q]
      /\ q = StartSession(p, new) /\ ~new.initiator /\ p.curr = peer[n].curr
  BY <1>0 DEF InitiationStage, NewKeypair, Slots
<1>2. EndFits(n, q, link[n], n \notin due)
  BY <1>1, StartSessionType, EndsFit DEF EndFits
<1>3. link' = [link EXCEPT ![n] = link[n]] /\ due' = due /\ UNCHANGED clock
  BY TypeParts DEF ProcessInitiation
<1> QED
  BY <1>1, <1>2, <1>3, OneEndFits

\* A response: the new keypair is current, young, and the flag is set.
LEMMA ResponseFits ==
  ASSUME TypeOK, SessionShowsUp /\ CurrNeverStale, NEW n \in Node, NEW m \in net,
         ProcessResponse(n, m)
  PROVE  (SessionShowsUp /\ CurrNeverStale)'
<1>1. PICK ok \in BOOLEAN, p \in Peers, new \in Keypairs : ResponseStage(n, m, ok, p, new)
  BY ResponseStages
<1>2. PICK q : q = AfterOutput(p, ok)
  OBVIOUS
<1>3. /\ p = StartSession(peer[n], new) /\ new.initiator /\ new.born = clock
      /\ peer' = [peer EXCEPT ![n] = q] /\ link' = [link EXCEPT ![n] = TRUE]
      /\ due' = due /\ UNCHANGED clock
  BY <1>1, <1>2 DEF ResponseStage, NewKeypair
<1>4. p.curr = new /\ clock \in Nat
  BY <1>3, StartSessionType, TypeParts, BoundsAssumption
<1>5. q.curr.valid => q.curr.born = clock
  BY <1>2, <1>3, <1>4, OutputKeeps DEF Continues, Slots
<1>6. EndFits(n, q, TRUE, n \notin due)
  BY <1>4, <1>5, LimitsAssumption DEF EndFits
<1> QED
  BY <1>3, <1>6, OneEndFits

\* A packet that is refused destroys a keypair at most.
LEMMA RefuseFits ==
  ASSUME TypeOK, SessionShowsUp /\ CurrNeverStale, NEW n \in Node, NEW m \in net, RefuseData(n, m)
  PROVE  (SessionShowsUp /\ CurrNeverStale)'
<1>1. PICK q \in Peers : /\ peer' = [peer EXCEPT ![n] = q]
                         /\ \A s \in Slots : q[s].valid => q[s] = peer[n][s]
  BY RefuseTypes
<1>2. EndFits(n, q, link[n], n \notin due)
  BY <1>1, EndsFit DEF EndFits, Slots
<1>3. link' = [link EXCEPT ![n] = link[n]] /\ due' = due /\ UNCHANGED clock
  BY TypeParts DEF RefuseData
<1> QED
  BY <1>1, <1>2, <1>3, OneEndFits

\* A packet that is taken sets the flag; one under next was looked at by Usable.
LEMMA DataFits ==
  ASSUME TypeOK, SessionShowsUp /\ CurrNeverStale, NEW n \in Node, NEW m \in net, ProcessData(n, m)
  PROVE  (SessionShowsUp /\ CurrNeverStale)'
<1>1. PICK slot \in Slots, rx \in Keypairs, q \in Peers : DataStage(n, m, slot, rx, q)
  BY DataStages
<1>2. /\ peer[n][slot].valid /\ Usable(peer[n][slot])
      /\ peer' = [peer EXCEPT ![n] = q] /\ link' = [link EXCEPT ![n] = TRUE]
      /\ rx.valid = peer[n][slot].valid /\ rx.born = peer[n][slot].born
      /\ due' = due /\ UNCHANGED clock
  BY <1>1 DEF DataStage, Marked
<1>3. /\ slot = "next" => q.curr = rx
      /\ slot = "curr" => q.curr = rx
      /\ slot = "prev" => q.curr = peer[n].curr
  BY <1>1 DEF DataStage, Slots
<1>4. peer[n][slot] \in Keypairs /\ clock \in Nat
  BY SlotType, TypeParts, BoundsAssumption
<1>5. CASE slot = "next"
  <2>1. clock < q.curr.born + RejectAfterTime
    BY <1>2, <1>3, <1>4, <1>5, LimitsAssumption DEF Usable, Expired, Keypairs
  <2>2. q.curr.born \in Nat
    BY <1>2, <1>3, <1>4, <1>5 DEF Keypairs
  <2>3. EndFits(n, q, TRUE, n \notin due)
    BY <1>4, <2>1, <2>2, LimitsAssumption DEF EndFits
  <2> QED
    BY <1>2, <2>3, OneEndFits
<1>6. CASE slot # "next"
  <2>1. q.curr.valid => peer[n].curr.valid /\ q.curr.born = peer[n].curr.born
    BY <1>2, <1>3, <1>6 DEF Slots
  <2>2. EndFits(n, q, TRUE, n \notin due)
    BY <2>1, EndsFit DEF EndFits
  <2> QED
    BY <1>2, <2>2, OneEndFits
<1> QED
  BY <1>5, <1>6

\* A restarted end has no session and its flag is down.
LEMMA RestartFits ==
  ASSUME TypeOK, SessionShowsUp /\ CurrNeverStale, NEW n \in Node, Restart(n)
  PROVE  (SessionShowsUp /\ CurrNeverStale)'
<1>1. PICK q : q = NewPeer(n \in Active)
  OBVIOUS
<1>2. /\ peer' = [peer EXCEPT ![n] = q] /\ link' = [link EXCEPT ![n] = FALSE]
      /\ due' = due /\ UNCHANGED clock
  BY <1>1 DEF Restart
<1>3. EndFits(n, q, FALSE, n \notin due)
  BY <1>1, NewPeerType DEF EndFits, Slots
<1> QED
  BY <1>2, <1>3, OneEndFits

\* A unit of time passes only when every timer has run.
LEMMA TickFits ==
  ASSUME TypeOK, SessionShowsUp /\ CurrNeverStale, Tick
  PROVE  (SessionShowsUp /\ CurrNeverStale)'
<1>1. \A n \in Node : peer[n].curr \in Keypairs /\ clock \in Nat
  BY TypeParts, BoundsAssumption DEF Peers
<1>2. SessionShowsUp'
  BY DEF Tick, SessionShowsUp, PeerIsUp
<1>3. CurrNeverStale'
  BY <1>1, LimitsAssumption DEF Tick, CurrNeverStale, Keypairs
<1> QED
  BY <1>2, <1>3

\* Both, in every reachable state.
LEMMA SessionSound == Spec => [](SessionShowsUp /\ CurrNeverStale)
<1>1. Init => SessionShowsUp /\ CurrNeverStale
  BY NewPeerType DEF Init, SessionShowsUp, CurrNeverStale, PeerIsUp, Slots
<1>2. TypeOK /\ (SessionShowsUp /\ CurrNeverStale) /\ [Next]_vars => (SessionShowsUp /\ CurrNeverStale)'
  <2> SUFFICES ASSUME TypeOK, SessionShowsUp /\ CurrNeverStale, [Next]_vars
               PROVE  (SessionShowsUp /\ CurrNeverStale)'
    OBVIOUS
  <2>1. CASE Tick
    BY <2>1, TickFits
  <2>2. ASSUME NEW n \in Node, Output(n) PROVE (SessionShowsUp /\ CurrNeverStale)'
    BY <2>2, OutputFits
  <2>3. ASSUME NEW n \in Node, Timer(n) PROVE (SessionShowsUp /\ CurrNeverStale)'
    BY <2>3, TimerFits
  <2>4. ASSUME NEW n \in Node, Receive(n) PROVE (SessionShowsUp /\ CurrNeverStale)'
    BY <2>4, InitiationFits, ResponseFits, RefuseFits, DataFits DEF Receive
  <2>5. ASSUME NEW n \in Node, Restart(n) PROVE (SessionShowsUp /\ CurrNeverStale)'
    BY <2>5, RestartFits
  <2>6. CASE UNCHANGED vars
    BY <2>6 DEF vars, SessionShowsUp, CurrNeverStale, PeerIsUp
  <2> QED
    BY <2>1, <2>2, <2>3, <2>4, <2>5, <2>6 DEF Next
<1> QED
  BY <1>1, <1>2, TypeCorrect, PTL DEF Spec

\* While the current or the previous keypair is valid the interface is up: the timer, the
\* output path and the receive path never let the flag and the slots disagree.
THEOREM LinkFollowsSlots == Spec => []SessionShowsUp
  BY SessionSound, PTL

\* Once the timer has run in a unit of time, the current keypair is younger than
\* REJECT_AFTER_TIME, so a keypair is never silently used past its life.
THEOREM CurrentIsYoung == Spec => []CurrNeverStale
  BY SessionSound, PTL

-----------------------------------------------------------------------------
(* The two ends and the network.  Every valid keypair comes from one       *)
(* response; its counter is above those sealed under its key and role; a   *)
(* responder that has received something has an initiator that sealed it;  *)
(* and a pending handshake has not been used yet.                          *)

\* The response r is where n's keypair k comes from.
Origin(n, k, r) ==
  /\ r.type = "response" /\ r.key = k.key
  /\ k.initiator <=> r.from # n
  /\ k.initiator => k.local = r.receiver /\ k.remote = r.sender
  /\ ~k.initiator => k.local = r.sender /\ k.remote = r.receiver

\* The keypair k fits what was sent.
KeypairOK(n, k, sent) ==
  /\ \E r \in sent : Origin(n, k, r)
  /\ \A d \in sent :
       d.type = "data" /\ d.key = k.key /\ d.initiator = k.initiator => d.counter < k.counter
  /\ ~k.initiator /\ k.rx => \E d \in sent : d.type = "data" /\ d.key = k.key /\ d.initiator

\* No response to the pending handshake has been used.
HandshakeOK(n, p, sent) ==
  \A r \in sent :
    r.type = "response" /\ r.from # n /\ r.ephemeral = p.handshake.ephemeral /\ p.handshake.valid =>
      /\ \A s \in Slots : p[s].valid => p[s].key # r.key
      /\ \A d \in sent : d.type = "data" /\ d.key = r.key => ~d.initiator

Distinct(p) ==
  \A s, t \in Slots : p[s].valid /\ p[t].valid /\ s # t => p[s].key # p[t].key

EndOK(n, p, sent) ==
  /\ \A s \in Slots : p[s].valid => KeypairOK(n, p[s], sent)
  /\ Distinct(p)
  /\ HandshakeOK(n, p, sent)

\* What was sent: keys and ephemerals are drawn once, a response is told by its key, and
\* data is sealed under the key of a response.
NetOK(sent, numbers) ==
  /\ sent \subseteq Messages
  /\ \A m \in sent : m.type = "initiation" => m.ephemeral <= numbers
  /\ \A r \in sent : r.type = "response" => 0 < r.key /\ r.key <= numbers /\ r.ephemeral <= numbers
  /\ \A q, r \in sent : q.type = "response" /\ r.type = "response" /\ q.key = r.key => q = r
  /\ \A d \in sent : d.type = "data" =>
       \E r \in sent : r.type = "response" /\ r.key = d.key /\ (d.initiator <=> r.from # d.from)

\* Slots that are kept or destroyed still fit.
LEMMA KeptFits ==
  ASSUME NEW n, NEW p, NEW q, NEW sent, EndOK(n, p, sent), q.handshake = p.handshake,
         \A s \in Slots : q[s].valid => q[s] = p[s]
  PROVE  EndOK(n, q, sent)
<1>1. \A s \in Slots : q[s].valid => KeypairOK(n, q[s], sent)
  BY DEF EndOK
<1>2. Distinct(q)
  BY DEF EndOK, Distinct
<1>3. HandshakeOK(n, q, sent)
  BY DEF EndOK, HandshakeOK
<1> QED
  BY <1>1, <1>2, <1>3 DEF EndOK

\* A valid keypair's key has been drawn.
LEMMA HeldKeyDrawn ==
  ASSUME NEW n, NEW p, NEW sent, NEW numbers \in Nat, NetOK(sent, numbers), EndOK(n, p, sent),
         NEW s \in Slots, p[s].valid
  PROVE  p[s].key <= numbers
<1>1. PICK r \in sent : Origin(n, p[s], r)
  BY DEF EndOK, KeypairOK
<1> QED
  BY <1>1 DEF Origin, NetOK

\* A datagram sealed in one slot: what was sent grows by it, and the slot by its counter.
Sealing(n, p, slot, q, d) ==
  /\ p[slot].valid /\ (p[slot].initiator \/ p[slot].rx)
  /\ Continues(p[slot], q[slot]) /\ q[slot].counter = p[slot].counter + 1
  /\ \A s \in Slots \ {slot} : q[s] = p[s]
  /\ q.handshake = p.handshake
  /\ d.type = "data" /\ d.from = n /\ d.key = p[slot].key
  /\ d.initiator = p[slot].initiator /\ d.counter = p[slot].counter

\* wireguardif_output_to_peer either seals one packet or sends nothing.
LEMMA OutputSeals ==
  ASSUME NEW n \in Node, NEW p \in Peers, NEW ok \in BOOLEAN, NEW body \in {"packet", "keepalive"},
         NEW q, q = AfterOutput(p, ok)
  PROVE  \/ /\ Sealed(n, p, body) = {}
            /\ q.handshake = p.handshake
            /\ \A s \in Slots : q[s].valid => q[s] = p[s]
         \/ \E slot \in Slots, d \in Messages :
              Sealed(n, p, body) = {d} /\ Sealing(n, p, slot, q, d)
<1> DEFINE slot == SendSlot(p)
<1> DEFINE k == [p[slot] EXCEPT !.counter = @ + 1]
<1> DEFINE d == Data(n, p[slot], body)
<1>1. slot \in {"curr", "prev"}
  BY SendSlotType
<1>2. q = IF CanSeal(p)
            THEN [p EXCEPT ![slot] = k, !.lastTx = IF ok THEN clock ELSE @,
                           !.sendHandshake = @ \/ WantsRekey(k)]
          ELSE IF p[slot].valid /\ (p[slot].initiator \/ p[slot].rx)
            THEN [p EXCEPT ![slot] = Destroyed]
          ELSE p
  BY DEF AfterOutput
<1>3. CanSeal(p) => p[slot].valid /\ (p[slot].initiator \/ p[slot].rx)
  BY DEF CanSeal
<1>4. Sealed(n, p, body) = IF CanSeal(p) THEN {d} ELSE {}
  BY DEF Sealed
<1> HIDE DEF slot
<1>5. p[slot] \in Keypairs
  BY <1>1, SlotType DEF Slots
<1>6. d \in Messages /\ d.type = "data" /\ d.from = n /\ d.key = p[slot].key
      /\ d.initiator = p[slot].initiator /\ d.counter = p[slot].counter
  BY <1>5 DEF Data, Messages, Keypairs
<1>7. Continues(p[slot], k) /\ k.counter = p[slot].counter + 1
  BY <1>5 DEF Keypairs, Continues
<1> HIDE DEF k, d
<1>8. CASE CanSeal(p)
  <2>1. q[slot] = k /\ q.handshake = p.handshake
    BY <1>1, <1>2, <1>8 DEF Peers
  <2>2. \A s \in Slots \ {slot} : q[s] = p[s]
    BY <1>1, <1>2, <1>8 DEF Peers, Slots
  <2>3. Sealing(n, p, slot, q, d)
    BY <1>3, <1>6, <1>7, <1>8, <2>1, <2>2 DEF Sealing
  <2> QED
    BY <1>1, <1>4, <1>6, <1>8, <2>3 DEF Slots
<1>9. CASE ~CanSeal(p)
  <2>1. q.handshake = p.handshake
    BY <1>1, <1>2, <1>9 DEF Peers
  <2>2. \A s \in Slots : q[s].valid => q[s] = p[s]
    BY <1>1, <1>2, <1>9, DestroyedType DEF Peers, Slots
  <2> QED
    BY <1>4, <1>9, <2>1, <2>2
<1> QED
  BY <1>8, <1>9

\* One packet more: it is sealed under the key of the response its keypair comes from.
LEMMA SealingNet ==
  ASSUME NEW n \in Node, NEW p \in Peers, NEW q, NEW slot \in Slots, NEW d \in Messages,
         NEW sent, NEW numbers, NetOK(sent, numbers), EndOK(n, p, sent),
         Sealing(n, p, slot, q, d)
  PROVE  NetOK(sent \union {d}, numbers)
<1>1. PICK r \in sent : Origin(n, p[slot], r)
  BY DEF EndOK, KeypairOK, Sealing
<1>2. d.type = "data" /\ r.type = "response" /\ r.key = d.key /\ (d.initiator <=> r.from # d.from)
  BY <1>1 DEF Sealing, Origin
<1>3. \A e \in sent : e.type = "data" =>
        \E s \in sent : s.type = "response" /\ s.key = e.key /\ (e.initiator <=> s.from # e.from)
  BY DEF NetOK
<1> QED
  BY <1>2, <1>3 DEF NetOK

\* The end that sealed it: the slot's counter is above the packet's, and no other slot has
\* the packet's key.
LEMMA SealingOwn ==
  ASSUME NEW n \in Node, NEW p \in Peers, NEW q, NEW slot \in Slots, NEW d \in Messages,
         NEW sent \in SUBSET Messages, EndOK(n, p, sent), Sealing(n, p, slot, q, d)
  PROVE  EndOK(n, q, sent \union {d})
<1> DEFINE more == sent \union {d}
<1>1. ASSUME NEW s \in Slots, q[s].valid
      PROVE  KeypairOK(n, q[s], more)
  <2>1. CASE s = slot
    <3>1. p[slot].counter \in Nat
      BY SlotType DEF Keypairs
    <3>2. KeypairOK(n, p[slot], sent)
      BY <1>1, <2>1 DEF EndOK, Sealing
    <3>3. \E r \in more : Origin(n, q[slot], r)
      BY <3>2 DEF KeypairOK, Origin, Sealing, Continues
    <3>4. \A e \in more :
            e.type = "data" /\ e.key = q[slot].key /\ e.initiator = q[slot].initiator
              => e.counter < q[slot].counter
      <4>1. ASSUME NEW e \in sent, e.type = "data", e.key = q[slot].key,
                   e.initiator = q[slot].initiator
            PROVE  e.counter < q[slot].counter
        <5>1. e.counter < p[slot].counter
          BY <3>2, <4>1 DEF KeypairOK, Sealing, Continues
        <5>2. e.counter \in Nat
          BY <4>1, MessageFields
        <5> QED
          BY <3>1, <5>1, <5>2 DEF Sealing
      <4> QED
        BY <3>1, <4>1 DEF Sealing
    <3>5. ~q[slot].initiator /\ q[slot].rx =>
            \E e \in more : e.type = "data" /\ e.key = q[slot].key /\ e.initiator
      BY <3>2 DEF KeypairOK, Sealing, Continues
    <3> QED
      BY <2>1, <3>3, <3>4, <3>5 DEF KeypairOK
  <2>2. CASE s # slot
    <3>1. KeypairOK(n, p[s], sent) /\ q[s] = p[s] /\ p[s].key # d.key
      BY <1>1, <2>2 DEF EndOK, Sealing, Distinct
    <3> QED
      BY <3>1 DEF KeypairOK
  <2> QED
    BY <2>1, <2>2
<1>2. \A s \in Slots : q[s].key = p[s].key /\ q[s].valid = p[s].valid
  BY DEF Sealing, Continues
<1>3. Distinct(q)
  BY <1>2 DEF EndOK, Distinct
<1>4. HandshakeOK(n, q, more)
  <2> SUFFICES ASSUME NEW r \in more, r.type = "response", r.from # n,
                      r.ephemeral = q.handshake.ephemeral, q.handshake.valid
               PROVE  /\ \A s \in Slots : q[s].valid => q[s].key # r.key
                      /\ \A e \in more : e.type = "data" /\ e.key = r.key => ~e.initiator
    BY DEF HandshakeOK
  <2>1. r \in sent
    BY DEF Sealing
  <2>2. /\ \A s \in Slots : p[s].valid => p[s].key # r.key
        /\ \A e \in sent : e.type = "data" /\ e.key = r.key => ~e.initiator
    BY <2>1 DEF EndOK, HandshakeOK, Sealing
  <2>3. d.key # r.key
    BY <2>2 DEF Sealing
  <2> QED
    BY <1>2, <2>2, <2>3
<1> QED
  BY <1>1, <1>3, <1>4 DEF EndOK

\* The other end: it has no keypair with this key in the same role.
LEMMA SealingOther ==
  ASSUME NEW n \in Node, NEW o, o # n, Node = {n, o}, NEW p \in Peers, NEW q, NEW slot \in Slots,
         NEW d \in Messages, NEW sent, NEW numbers, NetOK(sent, numbers), EndOK(n, p, sent),
         Sealing(n, p, slot, q, d), NEW f, EndOK(o, f, sent)
  PROVE  EndOK(o, f, sent \union {d})
<1> DEFINE more == sent \union {d}
<1>1. PICK mine \in sent : Origin(n, p[slot], mine)
  BY DEF EndOK, KeypairOK, Sealing
<1>2. /\ mine.type = "response" /\ mine.key = d.key /\ mine.from \in {n, o}
      /\ d.initiator <=> mine.from = o
  <2>1. mine.from \in Node
    BY <1>1, MessageFields DEF NetOK
  <2> QED
    BY <1>1, <2>1 DEF Sealing, Origin
<1>3. \A r \in sent : r.type = "response" /\ r.key = d.key => r = mine
  BY <1>2 DEF NetOK
<1>4. ASSUME NEW s \in Slots, f[s].valid
      PROVE  KeypairOK(o, f[s], more)
  <2>1. KeypairOK(o, f[s], sent)
    BY <1>4 DEF EndOK
  <2>2. PICK r \in sent : Origin(o, f[s], r)
    BY <2>1 DEF KeypairOK
  <2>3. d.key = f[s].key => d.initiator # f[s].initiator
    BY <1>2, <1>3, <2>2 DEF Origin
  <2> QED
    BY <2>1, <2>3 DEF KeypairOK
<1>5. HandshakeOK(o, f, more)
  <2> SUFFICES ASSUME NEW r \in more, r.type = "response", r.from # o,
                      r.ephemeral = f.handshake.ephemeral, f.handshake.valid
               PROVE  /\ \A s \in Slots : f[s].valid => f[s].key # r.key
                      /\ \A e \in more : e.type = "data" /\ e.key = r.key => ~e.initiator
    BY DEF HandshakeOK
  <2>1. r \in sent
    BY DEF Sealing
  <2>2. /\ \A s \in Slots : f[s].valid => f[s].key # r.key
        /\ \A e \in sent : e.type = "data" /\ e.key = r.key => ~e.initiator
    BY <2>1 DEF EndOK, HandshakeOK
  <2>3. d.key = r.key => ~d.initiator
    BY <1>2, <1>3, <2>1
  <2> QED
    BY <2>2, <2>3
<1> QED
  BY <1>4, <1>5 DEF EndOK

\* A new initiation: its ephemeral is new, so no response to it exists yet.
LEMMA StartNet ==
  ASSUME NEW n \in Node, NEW sent, NEW numbers \in Nat, NetOK(sent, numbers),
         NEW m \in Messages, m.type = "initiation", m.ephemeral = numbers + 1
  PROVE  NetOK(sent \union {m}, numbers + 1)
<1>1. \A r \in sent : r.type = "response" => r.key \in Nat /\ r.ephemeral \in Nat
  BY MessageFields DEF NetOK
<1>2. \A i \in sent : i.type = "initiation" => i.ephemeral \in Nat
  BY MessageFields DEF NetOK
<1>3. \A i \in sent \union {m} : i.type = "initiation" => i.ephemeral <= numbers + 1
  BY <1>2 DEF NetOK
<1>4. \A r \in sent : r.type = "response" =>
        0 < r.key /\ r.key <= numbers + 1 /\ r.ephemeral <= numbers + 1
  BY <1>1 DEF NetOK
<1>5. \A d \in sent : d.type = "data" =>
        \E r \in sent : r.type = "response" /\ r.key = d.key /\ (d.initiator <=> r.from # d.from)
  BY DEF NetOK
<1> QED
  BY <1>3, <1>4, <1>5 DEF NetOK

\* A message that is neither a response nor data disturbs no end.
LEMMA InitiationDisturbsNothing ==
  ASSUME NEW o, NEW f, NEW sent, NEW m, EndOK(o, f, sent), m.type = "initiation"
  PROVE  EndOK(o, f, sent \union {m})
<1>1. \A s \in Slots : f[s].valid => KeypairOK(o, f[s], sent \union {m})
  <2> SUFFICES ASSUME NEW s \in Slots, f[s].valid PROVE KeypairOK(o, f[s], sent \union {m})
    OBVIOUS
  <2>1. KeypairOK(o, f[s], sent)
    BY DEF EndOK
  <2> QED
    BY <2>1 DEF KeypairOK
<1>2. HandshakeOK(o, f, sent \union {m})
  BY DEF EndOK, HandshakeOK
<1> QED
  BY <1>1, <1>2 DEF EndOK

\* The end that starts a handshake.
LEMMA StartOwn ==
  ASSUME NEW n \in Node, NEW p, NEW q, NEW sent, NEW numbers \in Nat, NetOK(sent, numbers),
         EndOK(n, p, sent), q.handshake.ephemeral = numbers + 1, \A s \in Slots : q[s] = p[s]
  PROVE  EndOK(n, q, sent)
<1>1. \A s \in Slots : q[s].valid => KeypairOK(n, q[s], sent)
  BY DEF EndOK
<1>2. Distinct(q)
  BY DEF EndOK, Distinct
<1>3. \A r \in sent : r.type = "response" => r.ephemeral # numbers + 1
  BY MessageFields DEF NetOK
<1>4. HandshakeOK(n, q, sent)
  BY <1>3 DEF HandshakeOK
<1> QED
  BY <1>1, <1>2, <1>4 DEF EndOK

\* A new response: its key is new.
LEMMA ResponseNet ==
  ASSUME NEW n \in Node, NEW sent, NEW numbers \in Nat, NetOK(sent, numbers),
         NEW m \in Messages, m.type = "response", m.key = numbers + 1, m.ephemeral <= numbers
  PROVE  NetOK(sent \union {m}, numbers + 1)
<1>1. \A r \in sent : r.type = "response" =>
        /\ r.key \in Nat /\ r.ephemeral \in Nat
        /\ 0 < r.key /\ r.key <= numbers /\ r.ephemeral <= numbers
  BY MessageFields DEF NetOK
<1>2. \A i \in sent : i.type = "initiation" => i.ephemeral \in Nat /\ i.ephemeral <= numbers
  BY MessageFields DEF NetOK
<1>3. m.ephemeral \in Nat
  BY MessageFields
<1>4. \A r \in sent \union {m} : r.type = "response" =>
        0 < r.key /\ r.key <= numbers + 1 /\ r.ephemeral <= numbers + 1
  BY <1>1, <1>3
<1>5. \A i \in sent \union {m} : i.type = "initiation" => i.ephemeral <= numbers + 1
  BY <1>2
<1>6. \A r \in sent : r.type = "response" => r.key # m.key
  BY <1>1
<1>7. \A q, r \in sent \union {m} :
        q.type = "response" /\ r.type = "response" /\ q.key = r.key => q = r
  BY <1>6 DEF NetOK
<1>8. \A d \in sent \union {m} : d.type = "data" => \E r \in sent \union {m} :
        r.type = "response" /\ r.key = d.key /\ (d.initiator <=> r.from # d.from)
  BY DEF NetOK
<1>9. sent \union {m} \subseteq Messages
  BY DEF NetOK
<1> QED
  BY <1>4, <1>5, <1>7, <1>8, <1>9 DEF NetOK

\* No data and no keypair has the key of a new response.
LEMMA ResponseDisturbsNothing ==
  ASSUME NEW o, NEW f, NEW sent, NEW numbers \in Nat, NetOK(sent, numbers), EndOK(o, f, sent),
         f \in Peers, NEW m, m.type = "response", m.key = numbers + 1
  PROVE  EndOK(o, f, sent \union {m})
<1>1. \A d \in sent : d.type = "data" => d.key # m.key
  BY MessageFields DEF NetOK
<1>2. \A s \in Slots : f[s].valid => f[s].key # m.key
  <2> SUFFICES ASSUME NEW s \in Slots, f[s].valid PROVE f[s].key # m.key
    OBVIOUS
  <2>1. f[s].key <= numbers /\ f[s].key \in Nat
    BY HeldKeyDrawn, SlotType DEF Keypairs
  <2> QED
    BY <2>1
<1>3. \A s \in Slots : f[s].valid => KeypairOK(o, f[s], sent \union {m})
  <2> SUFFICES ASSUME NEW s \in Slots, f[s].valid PROVE KeypairOK(o, f[s], sent \union {m})
    OBVIOUS
  <2>1. KeypairOK(o, f[s], sent)
    BY DEF EndOK
  <2> QED
    BY <2>1 DEF KeypairOK
<1>4. HandshakeOK(o, f, sent \union {m})
  <2> SUFFICES ASSUME NEW r \in sent \union {m}, r.type = "response", r.from # o,
                      r.ephemeral = f.handshake.ephemeral, f.handshake.valid
               PROVE  /\ \A s \in Slots : f[s].valid => f[s].key # r.key
                      /\ \A e \in sent : e.type = "data" /\ e.key = r.key => ~e.initiator
    BY DEF HandshakeOK
  <2>1. CASE r = m
    BY <1>1, <1>2, <2>1
  <2>2. CASE r \in sent
    BY <2>2 DEF EndOK, HandshakeOK
  <2> QED
    BY <2>1, <2>2
<1> QED
  BY <1>3, <1>4 DEF EndOK

\* A session is started: the new keypair fits, its key is in no other slot, and no handshake
\* is pending.
LEMMA SessionFits ==
  ASSUME NEW n, NEW p, NEW q, NEW new, NEW sent, EndOK(n, p, sent), KeypairOK(n, new, sent),
         \A s \in Slots : p[s].valid => p[s].key # new.key, ~q.handshake.valid,
         \/ q.curr = p.curr /\ q.next = new /\ ~q.prev.valid
         \/ q.curr = new /\ ~q.next.valid /\ q.prev \in {p.curr, p.next}
  PROVE  EndOK(n, q, sent)
<1>1. \A s \in Slots : q[s].valid => KeypairOK(n, q[s], sent)
  BY DEF EndOK, Slots
<1>2. Distinct(q)
  BY DEF EndOK, Distinct, Slots
<1>3. HandshakeOK(n, q, sent)
  BY DEF HandshakeOK
<1> QED
  BY <1>1, <1>2, <1>3 DEF EndOK

\* The responder's new keypair fits the response it has just made.
LEMMA AnswerFits ==
  ASSUME NEW n \in Node, NEW sent, NEW numbers \in Nat, NetOK(sent, numbers),
         NEW p \in Peers, EndOK(n, p, sent), NEW q, ~q.handshake.valid,
         NEW new \in Keypairs, q.curr = p.curr /\ q.next = new /\ ~q.prev.valid,
         NEW m \in Messages, m.type = "response", m.from = n, m.key = numbers + 1,
         ~new.initiator, ~new.rx, new.key = m.key, new.local = m.sender, new.remote = m.receiver
  PROVE  EndOK(n, q, sent \union {m})
<1>1. EndOK(n, p, sent \union {m})
  BY ResponseDisturbsNothing
<1>2. Origin(n, new, m)
  BY DEF Origin
<1>3. \A d \in sent \union {m} : d.type = "data" => d.key # new.key
  BY MessageFields DEF NetOK
<1>4. KeypairOK(n, new, sent \union {m})
  BY <1>2, <1>3 DEF KeypairOK
<1>5. \A s \in Slots : p[s].valid => p[s].key # new.key
  <2> SUFFICES ASSUME NEW s \in Slots, p[s].valid PROVE p[s].key # new.key
    OBVIOUS
  <2>1. p[s].key <= numbers /\ p[s].key \in Nat
    BY HeldKeyDrawn, SlotType DEF Keypairs
  <2> QED
    BY <2>1
<1> QED
  BY <1>1, <1>4, <1>5, SessionFits

\* The initiator's new keypair fits the response it has just taken: the handshake was
\* pending, so the response had not been used.
LEMMA ConfirmFits ==
  ASSUME NEW n \in Node, NEW sent \in SUBSET Messages,
         NEW p \in Peers, EndOK(n, p, sent), NEW q, ~q.handshake.valid,
         NEW new \in Keypairs, q.curr = new /\ ~q.next.valid /\ q.prev \in {p.curr, p.next},
         NEW m \in sent, m.type = "response", m.from # n, m.ephemeral = p.handshake.ephemeral,
         p.handshake.valid, new.initiator, new.key = m.key, new.local = m.receiver,
         new.remote = m.sender
  PROVE  EndOK(n, q, sent)
<1>1. Origin(n, new, m)
  BY DEF Origin
<1>2. /\ \A s \in Slots : p[s].valid => p[s].key # new.key
      /\ \A d \in sent : d.type = "data" /\ d.key = new.key => ~d.initiator
  BY DEF EndOK, HandshakeOK
<1>3. KeypairOK(n, new, sent)
  BY <1>1, <1>2 DEF KeypairOK
<1> QED
  BY <1>2, <1>3, SessionFits

\* A received packet: its keypair may move from next to curr, and now has received something.
LEMMA MarkedFits ==
  ASSUME NEW n, NEW sent, NEW m \in sent, NEW p, NEW q, NEW slot \in Slots, NEW rx,
         EndOK(n, p, sent), q.handshake = p.handshake, p[slot].valid, Marked(p[slot], rx),
         m.type = "data", m.key = p[slot].key, m.initiator # p[slot].initiator,
         p[slot] \in Keypairs, m.initiator \in BOOLEAN,
         slot = "next" => q.prev = p.curr /\ q.curr = rx /\ ~q.next.valid,
         slot # "next" => q[slot] = rx /\ \A s \in Slots \ {slot} : q[s] = p[s]
  PROVE  EndOK(n, q, sent)
<1>1. KeypairOK(n, p[slot], sent)
  BY DEF EndOK
<1>2. KeypairOK(n, rx, sent)
  <2>1. \E r \in sent : Origin(n, rx, r)
    BY <1>1 DEF KeypairOK, Origin, Marked
  <2>2. \A d \in sent :
          d.type = "data" /\ d.key = rx.key /\ d.initiator = rx.initiator => d.counter < rx.counter
    BY <1>1 DEF KeypairOK, Marked
  <2>3. ~rx.initiator => m.type = "data" /\ m.key = rx.key /\ m.initiator
    BY DEF Marked, Keypairs
  <2> QED
    BY <2>1, <2>2, <2>3 DEF KeypairOK
<1>3. rx.valid = p[slot].valid /\ rx.key = p[slot].key
  BY DEF Marked
<1>4. CASE slot = "next"
  <2>1. q.prev = p.curr /\ q.curr = rx /\ ~q.next.valid
    BY <1>4
  <2>2. \A s \in Slots : q[s].valid => KeypairOK(n, q[s], sent)
    BY <1>2, <2>1 DEF EndOK, Slots
  <2>3. Distinct(q)
    BY <1>3, <1>4, <2>1 DEF EndOK, Distinct, Slots
  <2>4. \A s \in Slots : q[s].valid => \E t \in Slots : p[t].valid /\ q[s].key = p[t].key
    BY <1>3, <1>4, <2>1 DEF Slots
  <2>5. HandshakeOK(n, q, sent)
    BY <2>4 DEF EndOK, HandshakeOK
  <2> QED
    BY <2>2, <2>3, <2>5 DEF EndOK
<1>5. CASE slot # "next"
  <2>1. q[slot] = rx /\ \A s \in Slots \ {slot} : q[s] = p[s]
    BY <1>5
  <2>2. \A s \in Slots : q[s].valid => KeypairOK(n, q[s], sent)
    BY <1>2, <2>1 DEF EndOK
  <2>3. \A s \in Slots : q[s].valid = p[s].valid /\ q[s].key = p[s].key
    BY <1>3, <2>1
  <2>4. Distinct(q)
    BY <2>3 DEF EndOK, Distinct
  <2>5. HandshakeOK(n, q, sent)
    BY <2>3 DEF EndOK, HandshakeOK
  <2> QED
    BY <2>2, <2>4, <2>5 DEF EndOK
<1> QED
  BY <1>4, <1>5

\* An end without sessions.
LEMMA BlankFits ==
  ASSUME NEW n, NEW sent
  PROVE  EndOK(n, NewPeer(n \in Active), sent)
  BY NewPeerType DEF EndOK, Distinct, HandshakeOK

-----------------------------------------------------------------------------
(* Nonces, and the key agreement.                                          *)

SealedNonces(sent) == {<<d.key, d.initiator, d.counter>> : d \in {m \in sent : m.type = "data"}}

\* A packet that is sealed has a nonce that was not used before.
LEMMA NonceIsNew ==
  ASSUME NEW n, NEW p, NEW q, NEW slot \in Slots, NEW d, NEW sent \in SUBSET Messages,
         EndOK(n, p, sent), p \in Peers, Sealing(n, p, slot, q, d), IsFiniteSet(SealedNonces(sent))
  PROVE  /\ IsFiniteSet(SealedNonces(sent \union {d}))
         /\ Cardinality(SealedNonces(sent \union {d})) = Cardinality(SealedNonces(sent)) + 1
<1> DEFINE nonce == <<d.key, d.initiator, d.counter>>
<1>1. KeypairOK(n, p[slot], sent) /\ p[slot].counter \in Nat
  BY SlotType DEF EndOK, Sealing, Keypairs
<1>2. \A e \in sent : e.type = "data" => e.counter \in Nat
  BY MessageFields
<1>3. nonce \notin SealedNonces(sent)
  BY <1>1, <1>2 DEF SealedNonces, KeypairOK, Sealing
<1>4. SealedNonces(sent \union {d}) = SealedNonces(sent) \union {nonce}
  BY DEF SealedNonces, Sealing
<1> HIDE DEF nonce
<1> DEFINE before == SealedNonces(sent)
<1> HIDE DEF before
<1>5. IsFiniteSet(before) /\ nonce \notin before
  BY <1>3 DEF before
<1>6. /\ IsFiniteSet(before \union {nonce})
      /\ Cardinality(before \union {nonce}) = Cardinality(before) + 1
  BY <1>5, FS_AddElement
<1> QED
  BY <1>4, <1>6 DEF before

\* A message that is no data leaves the nonces as they are.
LEMMA NoncesKept ==
  ASSUME NEW sent, NEW m, m.type # "data"
  PROVE  SealedNonces(sent \union {m}) = SealedNonces(sent)
  BY DEF SealedNonces

OfferedIn(sent) == {r.key : r \in {m \in sent : m.type = "response"}}

OpenedIn(sent) ==
  {r.key : r \in {m \in sent : m.type = "response" /\
                  \E d \in sent : d.type = "data" /\ d.key = m.key /\ d.from # m.from}}

AnsweredIn(sent) ==
  {r.key : r \in {m \in sent : m.type = "response" /\
                  \E d \in sent : d.type = "data" /\ d.key = m.key /\ d.from = m.from}}

\* A step of the key agreement, or none.
AgreementStep(sent, more) ==
  \/ /\ OfferedIn(more) = OfferedIn(sent)
     /\ OpenedIn(more) = OpenedIn(sent) /\ AnsweredIn(more) = AnsweredIn(sent)
  \/ \E k \in 1..MaxKeys :
       \/ /\ k \notin OfferedIn(sent) /\ OfferedIn(more) = OfferedIn(sent) \union {k}
          /\ OpenedIn(more) = OpenedIn(sent) /\ AnsweredIn(more) = AnsweredIn(sent)
       \/ /\ k \in OfferedIn(sent) \ OpenedIn(sent) /\ OpenedIn(more) = OpenedIn(sent) \union {k}
          /\ OfferedIn(more) = OfferedIn(sent) /\ AnsweredIn(more) = AnsweredIn(sent)
       \/ /\ k \in OpenedIn(sent) \ AnsweredIn(sent)
          /\ AnsweredIn(more) = AnsweredIn(sent) \union {k}
          /\ OfferedIn(more) = OfferedIn(sent) /\ OpenedIn(more) = OpenedIn(sent)

\* A step that changes what was sent like this is one of the abstract specification.
LEMMA AgreementStepIs ==
  ASSUME AgreementStep(net, net')
  PROVE  [Agreement!Next]_(Agreement!vars)
<1>1. /\ Offered = OfferedIn(net) /\ Opened = OpenedIn(net) /\ Answered = AnsweredIn(net)
      /\ Offered' = OfferedIn(net') /\ Opened' = OpenedIn(net') /\ Answered' = AnsweredIn(net')
  BY DEF Offered, Opened, Answered, OfferedIn, OpenedIn, AnsweredIn, Responses, DataPackets
<1> QED
  BY <1>1 DEF AgreementStep, Agreement!Next, Agreement!vars, Agreement!Offer, Agreement!Open,
              Agreement!Answer

\* A packet that is sealed opens the key, or answers it when it has been opened.
LEMMA SealingAgrees ==
  ASSUME NEW n, NEW p, NEW q, NEW slot \in Slots, NEW d, NEW sent, NEW numbers \in 0..MaxKeys,
         NetOK(sent, numbers), EndOK(n, p, sent), p \in Peers, Sealing(n, p, slot, q, d)
  PROVE  AgreementStep(sent, sent \union {d})
<1> DEFINE more == sent \union {d}
<1>1. PICK r \in sent : Origin(n, p[slot], r)
  BY DEF EndOK, KeypairOK, Sealing
<1>2. /\ r.type = "response" /\ r.key = d.key /\ d.type = "data"
      /\ d.initiator <=> r.from # d.from
  BY <1>1 DEF Sealing, Origin
<1>3. \A s \in sent : s.type = "response" /\ s.key = d.key => s = r
  BY <1>2 DEF NetOK
<1>4. d.key \in 1..MaxKeys
  BY <1>2, MessageFields, BoundsAssumption DEF NetOK
<1>5. OfferedIn(more) = OfferedIn(sent) /\ d.key \in OfferedIn(sent)
  BY <1>2 DEF OfferedIn
<1>6. CASE d.initiator
  <2>1. OpenedIn(more) = OpenedIn(sent) \union {d.key}
    BY <1>2, <1>3, <1>6 DEF OpenedIn
  <2>2. AnsweredIn(more) = AnsweredIn(sent)
    BY <1>2, <1>3, <1>6 DEF AnsweredIn
  <2> QED
    BY <1>4, <1>5, <2>1, <2>2 DEF AgreementStep
<1>7. CASE ~d.initiator
  <2>1. OpenedIn(more) = OpenedIn(sent)
    BY <1>2, <1>3, <1>7 DEF OpenedIn
  <2>2. AnsweredIn(more) = AnsweredIn(sent) \union {d.key}
    BY <1>2, <1>3, <1>7 DEF AnsweredIn
  <2>3. PICK e \in sent : e.type = "data" /\ e.key = d.key /\ e.initiator
    BY <1>7 DEF EndOK, KeypairOK, Sealing
  <2>4. e.from # r.from
    BY <1>3, <2>3 DEF NetOK
  <2>5. d.key \in OpenedIn(sent)
    BY <1>2, <2>3, <2>4 DEF OpenedIn
  <2> QED
    BY <1>4, <1>5, <2>1, <2>2, <2>5 DEF AgreementStep
<1> QED
  BY <1>6, <1>7

\* An initiation is no step of the key agreement.
LEMMA InitiationAgrees ==
  ASSUME NEW sent, NEW more, NEW m, m.type = "initiation"
  PROVE  /\ AgreementStep(sent, sent)
         /\ AgreementStep(sent, more) => AgreementStep(sent, more \union {m})
<1>1. /\ OfferedIn(more \union {m}) = OfferedIn(more)
      /\ OpenedIn(more \union {m}) = OpenedIn(more)
      /\ AnsweredIn(more \union {m}) = AnsweredIn(more)
  BY DEF OfferedIn, OpenedIn, AnsweredIn
<1> QED
  BY <1>1 DEF AgreementStep

\* A response offers its key.
LEMMA ResponseAgrees ==
  ASSUME NEW sent, NEW numbers \in Nat, numbers < MaxKeys, NetOK(sent, numbers),
         NEW m, m.type = "response", m.key = numbers + 1
  PROVE  AgreementStep(sent, sent \union {m})
<1>1. \A r \in sent : r.type \in {"response", "data"} => r.key # m.key
  BY MessageFields DEF NetOK
<1>2. m.key \in 1..MaxKeys
  BY BoundsAssumption
<1>3. OfferedIn(sent \union {m}) = OfferedIn(sent) \union {m.key} /\ m.key \notin OfferedIn(sent)
  BY <1>1 DEF OfferedIn
<1>4. OpenedIn(sent \union {m}) = OpenedIn(sent)
  BY <1>1 DEF OpenedIn
<1>5. AnsweredIn(sent \union {m}) = AnsweredIn(sent)
  BY <1>1 DEF AnsweredIn
<1> QED
  BY <1>2, <1>3, <1>4, <1>5 DEF AgreementStep

-----------------------------------------------------------------------------
(* The invariant, of two ends n and o with the peers p and f.              *)

Good(n, o, p, f, sent, numbers, count) ==
  /\ NetOK(sent, numbers)
  /\ EndOK(n, p, sent) /\ EndOK(o, f, sent)
  /\ IsFiniteSet(SealedNonces(sent)) /\ count = Cardinality(SealedNonces(sent))

\* The output path, whatever it does, keeps the invariant and steps as the key agreement.
LEMMA OutputGood ==
  ASSUME NEW n \in Node, NEW o, o # n, Node = {n, o}, NEW p \in Peers, NEW f, NEW sent,
         NEW numbers \in 0..MaxKeys, NEW count, Good(n, o, p, f, sent, numbers, count),
         NEW ok \in BOOLEAN, NEW body \in {"packet", "keepalive"}, NEW q, q = AfterOutput(p, ok),
         NEW packet, packet = Sealed(n, p, body)
  PROVE  /\ Good(n, o, q, f, sent \union packet, numbers, count + Cardinality(packet))
         /\ AgreementStep(sent, sent \union packet)
<1>1. /\ NetOK(sent, numbers) /\ EndOK(n, p, sent) /\ EndOK(o, f, sent)
      /\ IsFiniteSet(SealedNonces(sent)) /\ count = Cardinality(SealedNonces(sent))
      /\ sent \in SUBSET Messages
  BY DEF Good, NetOK
<1>2. \/ /\ packet = {}
         /\ q.handshake = p.handshake
         /\ \A s \in Slots : q[s].valid => q[s] = p[s]
      \/ \E slot \in Slots, d \in Messages : packet = {d} /\ Sealing(n, p, slot, q, d)
  BY OutputSeals
<1>3. CASE packet = {} /\ q.handshake = p.handshake /\ \A s \in Slots : q[s].valid => q[s] = p[s]
  <2>1. Cardinality(packet) = 0 /\ sent \union packet = sent
    BY <1>3, FS_EmptySet
  <2>2. EndOK(n, q, sent)
    BY <1>1, <1>3, KeptFits
  <2>3. count \in Nat
    BY <1>1, FS_CardinalityType
  <2>4. count + Cardinality(packet) = count
    BY <2>1, <2>3
  <2>5. Good(n, o, q, f, sent, numbers, count)
    BY <1>1, <2>2 DEF Good
  <2> QED
    BY <2>1, <2>4, <2>5 DEF AgreementStep
<1>4. ASSUME NEW slot \in Slots, NEW d \in Messages, packet = {d}, Sealing(n, p, slot, q, d)
      PROVE  /\ Good(n, o, q, f, sent \union packet, numbers, count + Cardinality(packet))
             /\ AgreementStep(sent, sent \union packet)
  <2>1. NetOK(sent \union {d}, numbers)
    BY <1>1, <1>4, SealingNet
  <2>2. EndOK(n, q, sent \union {d})
    BY <1>1, <1>4, SealingOwn
  <2>3. EndOK(o, f, sent \union {d})
    BY <1>1, <1>4, SealingOther
  <2>4. /\ IsFiniteSet(SealedNonces(sent \union {d}))
        /\ Cardinality(SealedNonces(sent \union {d})) = Cardinality(SealedNonces(sent)) + 1
    BY <1>1, <1>4, NonceIsNew
  <2>5. AgreementStep(sent, sent \union {d})
    BY <1>1, <1>4, SealingAgrees
  <2>6. Cardinality({d}) = 1
    BY FS_Singleton
  <2>7. count + Cardinality(packet) = Cardinality(SealedNonces(sent \union {d}))
    BY <1>1, <1>4, <2>4, <2>6
  <2>8. Good(n, o, q, f, sent \union {d}, numbers, count + Cardinality(packet))
    BY <2>1, <2>2, <2>3, <2>4, <2>7 DEF Good
  <2> QED
    BY <1>4, <2>5, <2>8
<1> QED
  BY <1>2, <1>3, <1>4

\* Slots that are kept or destroyed, and nothing sent.
LEMMA KeptGood ==
  ASSUME NEW n, NEW o, NEW p, NEW f, NEW sent, NEW numbers, NEW count,
         Good(n, o, p, f, sent, numbers, count), NEW q, q.handshake = p.handshake,
         \A s \in Slots : q[s].valid => q[s] = p[s]
  PROVE  Good(n, o, q, f, sent, numbers, count)
<1>1. EndOK(n, q, sent)
  BY KeptFits DEF Good
<1> QED
  BY <1>1 DEF Good

\* A handshake is started.
LEMMA StartGood ==
  ASSUME NEW n \in Node, NEW o, NEW p, NEW f, NEW sent, NEW numbers \in Nat, NEW count,
         Good(n, o, p, f, sent, numbers, count), NEW q, q.handshake.ephemeral = numbers + 1,
         \A s \in Slots : q[s] = p[s],
         NEW m \in Messages, m.type = "initiation", m.ephemeral = numbers + 1
  PROVE  Good(n, o, q, f, sent \union {m}, numbers + 1, count)
<1>1. /\ NetOK(sent, numbers) /\ EndOK(n, p, sent) /\ EndOK(o, f, sent)
      /\ IsFiniteSet(SealedNonces(sent)) /\ count = Cardinality(SealedNonces(sent))
  BY DEF Good
<1>2. NetOK(sent \union {m}, numbers + 1)
  BY <1>1, StartNet
<1>3. EndOK(n, q, sent)
  BY <1>1, StartOwn
<1>4. EndOK(n, q, sent \union {m}) /\ EndOK(o, f, sent \union {m})
  BY <1>1, <1>3, InitiationDisturbsNothing
<1>5. SealedNonces(sent \union {m}) = SealedNonces(sent)
  BY NoncesKept
<1> QED
  BY <1>1, <1>2, <1>4, <1>5 DEF Good

\* Every two ends satisfy the invariant.
Agreed ==
  \A n, o \in Node : n # o => Good(n, o, peer[n], peer[o], net, drawn, sealed)

\* There is another end.
LEMMA OtherEnd ==
  ASSUME NEW n \in Node
  PROVE  \E o \in Node : o # n /\ Node = {n, o}
  BY NodeAssumption

\* A step of one end.
LEMMA OneEndGood ==
  ASSUME TypeOK, NEW n \in Node, NEW o \in Node, o # n, Node = {n, o}, NEW q,
         peer' = [peer EXCEPT ![n] = q], Good(n, o, q, peer[o], net', drawn', sealed')
  PROVE  Agreed'
<1>1. peer'[n] = q /\ peer'[o] = peer[o]
  BY TypeParts
<1>2. Good(n, o, peer'[n], peer'[o], net', drawn', sealed')
  BY <1>1
<1>3. Good(o, n, peer'[o], peer'[n], net', drawn', sealed')
  BY <1>2 DEF Good
<1>4. \A x, y \in Node : x # y => Good(x, y, peer'[x], peer'[y], net', drawn', sealed')
  BY <1>2, <1>3
<1> QED
  BY <1>4 DEF Agreed

\* A packet of the IP layer.
LEMMA OutputAgreed ==
  ASSUME TypeOK, Agreed, NEW n \in Node, Output(n)
  PROVE  Agreed' /\ AgreementStep(net, net')
<1>1. PICK o \in Node : o # n /\ Node = {n, o}
  BY OtherEnd
<1>2. PICK ok \in BOOLEAN : peer' = [peer EXCEPT ![n] = AfterOutput(@, ok)]
  BY DEF Output
<1>3. PICK q : q = AfterOutput(peer[n], ok)
  OBVIOUS
<1>4. PICK packet : packet = Sealed(n, peer[n], "packet")
  OBVIOUS
<1>5. peer[n] \in Peers /\ drawn \in 0..MaxKeys
  BY TypeParts
<1>6. Good(n, o, peer[n], peer[o], net, drawn, sealed)
  BY <1>1 DEF Agreed
<1>7. /\ Good(n, o, q, peer[o], net \union packet, drawn, sealed + Cardinality(packet))
      /\ AgreementStep(net, net \union packet)
  BY <1>1, <1>3, <1>4, <1>5, <1>6, OutputGood
<1>8. /\ net' = net \union packet /\ sealed' = sealed + Cardinality(packet) /\ drawn' = drawn
      /\ peer' = [peer EXCEPT ![n] = q]
  BY <1>2, <1>3, <1>4 DEF Output
<1> QED
  BY <1>1, <1>7, <1>8, OneEndGood

\* The timer: slots are trimmed, a keepalive is sealed, a handshake is started.
LEMMA TimerAgreed ==
  ASSUME TypeOK, Agreed, NEW n \in Node, Timer(n)
  PROVE  Agreed' /\ AgreementStep(net, net')
<1>1. PICK o \in Node : o # n /\ Node = {n, o}
  BY OtherEnd
<1>2. PICK ok \in BOOLEAN, p \in Peers, q \in Peers : TimerStage(n, ok, p, q)
  BY TimerStages
<1>3. PICK packet : packet = KeepaliveOf(n, p)
  OBVIOUS
<1>4. /\ p.handshake = peer[n].handshake
      /\ \A s \in Slots : p[s].valid => p[s] = peer[n][s]
      /\ q = AfterKeepalive(p, ok)
      /\ sealed' = sealed + Cardinality(packet)
      /\ \/ /\ drawn' = drawn + 1 /\ drawn < MaxKeys
            /\ peer' = [peer EXCEPT ![n] = AfterStart(q)]
            /\ net' = net \union packet \union {Initiation(n, drawn + 1)}
         \/ /\ drawn' = drawn
            /\ peer' = [peer EXCEPT ![n] = q]
            /\ net' = net \union packet
  BY <1>2, <1>3 DEF TimerStage
<1>5. drawn \in 0..MaxKeys /\ drawn \in Nat /\ drawn + 1 \in Nat /\ clock \in Nat
  BY TypeParts, BoundsAssumption
<1>6. Good(n, o, peer[n], peer[o], net, drawn, sealed)
  BY <1>1 DEF Agreed
<1>7. Good(n, o, p, peer[o], net, drawn, sealed)
  BY <1>4, <1>6, KeptGood
<1>8. /\ Good(n, o, q, peer[o], net \union packet, drawn, sealed + Cardinality(packet))
      /\ AgreementStep(net, net \union packet)
  <2>1. CASE ShouldSendKeepalive(p)
    <3>1. q = AfterOutput(p, ok) /\ packet = Sealed(n, p, "keepalive")
      BY <1>3, <1>4, <2>1 DEF AfterKeepalive, KeepaliveOf
    <3> QED
      BY <1>1, <1>5, <1>7, <3>1, OutputGood
  <2>2. CASE ~ShouldSendKeepalive(p)
    <3>1. q = p /\ packet = {} /\ net \union packet = net
      BY <1>3, <1>4, <2>2 DEF AfterKeepalive, KeepaliveOf
    <3>2. sealed \in Nat /\ Cardinality({}) = 0
      BY TypeParts, FS_EmptySet
    <3>3. sealed + Cardinality(packet) = sealed
      BY <3>1, <3>2
    <3> QED
      BY <1>7, <3>1, <3>3 DEF AgreementStep
  <2> QED
    BY <2>1, <2>2
<1>9. CASE /\ drawn' = drawn + 1
           /\ peer' = [peer EXCEPT ![n] = AfterStart(q)]
           /\ net' = net \union packet \union {Initiation(n, drawn + 1)}
  <2>1. PICK r : r = AfterStart(q)
    OBVIOUS
  <2>2. PICK m : m = Initiation(n, drawn + 1)
    OBVIOUS
  <2>3. m \in Messages /\ m.type = "initiation" /\ m.ephemeral = drawn + 1
    BY <1>5, <2>2, InitiationType, TypeParts DEF Initiation
  <2>4. r.handshake.ephemeral = drawn + 1 /\ \A s \in Slots : r[s] = q[s]
    BY <1>5, <2>1, AfterStartType
  <2>5. Good(n, o, r, peer[o], (net \union packet) \union {m}, drawn + 1, sealed + Cardinality(packet))
    BY <1>5, <1>8, <2>3, <2>4, StartGood
  <2>6. AgreementStep(net, (net \union packet) \union {m})
    BY <1>8, <2>3, InitiationAgrees
  <2> QED
    BY <1>1, <1>4, <1>9, <2>1, <2>2, <2>5, <2>6, OneEndGood
<1>10. CASE /\ drawn' = drawn
            /\ peer' = [peer EXCEPT ![n] = q]
            /\ net' = net \union packet
  BY <1>1, <1>4, <1>8, <1>10, OneEndGood
<1> QED
  BY <1>4, <1>9, <1>10

\* An initiation is answered: the key and the keypair are new.
LEMMA InitiationAgreed ==
  ASSUME TypeOK, Agreed, NEW n \in Node, NEW i \in net, ProcessInitiation(n, i)
  PROVE  Agreed' /\ AgreementStep(net, net')
<1>1. PICK o \in Node : o # n /\ Node = {n, o}
  BY OtherEnd
<1>2. PICK p \in Peers, new \in Keypairs, q \in Peers : InitiationStage(n, i, p, new, q)
  BY InitiationStages
<1>3. PICK m : m = Response(n, drawn + 1, i)
  OBVIOUS
<1>4. /\ i.type = "initiation" /\ i.sender \in Nat /\ i.ephemeral \in Nat
      /\ \A s \in Slots : p[s] = peer[n][s]
      /\ new = NewKeypair(FALSE, drawn + 1, i.sender, drawn + 1)
      /\ q = StartSession(p, new)
      /\ peer' = [peer EXCEPT ![n] = q] /\ net' = net \union {m}
      /\ drawn < MaxKeys /\ drawn' = drawn + 1 /\ sealed' = sealed
  BY <1>2, <1>3 DEF InitiationStage
<1>5. drawn \in Nat /\ drawn + 1 \in Nat /\ peer[n] \in Peers /\ peer[o] \in Peers
  BY TypeParts, BoundsAssumption
<1>6. /\ m \in Messages /\ m.type = "response" /\ m.from = n /\ m.key = drawn + 1
      /\ m.sender = drawn + 1 /\ m.receiver = i.sender /\ m.ephemeral = i.ephemeral
  BY <1>3, <1>4, <1>5 DEF Response, Messages
<1>7. /\ ~new.initiator /\ ~new.rx /\ new.key = m.key
      /\ new.local = m.sender /\ new.remote = m.receiver
  BY <1>4, <1>6 DEF NewKeypair
<1>8. ~q.handshake.valid /\ q.curr = p.curr /\ q.next = new /\ ~q.prev.valid
  <2>1. q = StartSession(p, new) /\ ~new.initiator
    BY <1>4, <1>7
  <2> QED
    BY <2>1, StartSessionType
<1>9. q.curr = peer[n].curr
  BY <1>4, <1>8 DEF Slots
<1>10. /\ NetOK(net, drawn) /\ EndOK(n, peer[n], net) /\ EndOK(o, peer[o], net)
       /\ IsFiniteSet(SealedNonces(net)) /\ sealed = Cardinality(SealedNonces(net))
  BY <1>1 DEF Agreed, Good
<1>11. m.ephemeral <= drawn
  BY <1>4, <1>6, <1>10 DEF NetOK
<1>12. NetOK(net \union {m}, drawn + 1)
  BY <1>5, <1>6, <1>10, <1>11, ResponseNet
<1>13. EndOK(n, q, net \union {m})
  BY <1>5, <1>6, <1>7, <1>8, <1>9, <1>10, AnswerFits
<1>14. EndOK(o, peer[o], net \union {m})
  BY <1>5, <1>6, <1>10, ResponseDisturbsNothing
<1>15. SealedNonces(net \union {m}) = SealedNonces(net)
  BY <1>6, NoncesKept
<1>16. Good(n, o, q, peer[o], net', drawn', sealed')
  BY <1>4, <1>10, <1>12, <1>13, <1>14, <1>15 DEF Good
<1>17. AgreementStep(net, net \union {m})
  BY <1>4, <1>5, <1>6, <1>10, ResponseAgrees
<1> QED
  BY <1>1, <1>4, <1>16, <1>17, OneEndGood

\* A response is taken: its session is started and the output path confirms it.
LEMMA ResponseAgreed ==
  ASSUME TypeOK, Agreed, NEW n \in Node, NEW m \in net, ProcessResponse(n, m)
  PROVE  Agreed' /\ AgreementStep(net, net')
<1>1. PICK o \in Node : o # n /\ Node = {n, o}
  BY OtherEnd
<1>2. PICK ok \in BOOLEAN, p \in Peers, new \in Keypairs : ResponseStage(n, m, ok, p, new)
  BY ResponseStages
<1>3. PICK q : q = AfterOutput(p, ok)
  OBVIOUS
<1>4. PICK packet : packet = Sealed(n, p, "keepalive")
  OBVIOUS
<1>5. /\ m.type = "response" /\ m.from # n
      /\ peer[n].handshake.valid /\ m.ephemeral = peer[n].handshake.ephemeral
      /\ new = NewKeypair(TRUE, m.receiver, m.sender, m.key)
      /\ p = StartSession(peer[n], new)
      /\ peer' = [peer EXCEPT ![n] = q]
      /\ net' = net \union packet /\ sealed' = sealed + Cardinality(packet) /\ drawn' = drawn
  BY <1>2, <1>3, <1>4 DEF ResponseStage
<1>6. /\ new.initiator /\ new.key = m.key /\ new.local = m.receiver /\ new.remote = m.sender
  BY <1>5 DEF NewKeypair
<1>7. peer[n] \in Peers /\ drawn \in 0..MaxKeys /\ net \in SUBSET Messages
  BY TypeParts
<1>8. /\ ~p.handshake.valid /\ p.curr = new /\ ~p.next.valid
      /\ p.prev \in {peer[n].curr, peer[n].next}
  <2>1. p = StartSession(peer[n], new) /\ new.initiator /\ peer[n] \in Peers
    BY <1>5, <1>6, <1>7
  <2> QED
    BY <2>1, StartSessionType
<1>9. /\ NetOK(net, drawn) /\ EndOK(n, peer[n], net) /\ EndOK(o, peer[o], net)
      /\ IsFiniteSet(SealedNonces(net)) /\ sealed = Cardinality(SealedNonces(net))
  BY <1>1 DEF Agreed, Good
<1>10. EndOK(n, p, net)
  BY <1>5, <1>6, <1>7, <1>8, <1>9, ConfirmFits
<1>11. Good(n, o, p, peer[o], net, drawn, sealed)
  BY <1>9, <1>10 DEF Good
<1>12. /\ Good(n, o, q, peer[o], net \union packet, drawn, sealed + Cardinality(packet))
       /\ AgreementStep(net, net \union packet)
  BY <1>1, <1>3, <1>4, <1>7, <1>11, OutputGood
<1> QED
  BY <1>1, <1>5, <1>12, OneEndGood

\* A packet is refused, or taken.
LEMMA DataAgreed ==
  ASSUME TypeOK, Agreed, NEW n \in Node, NEW m \in net, RefuseData(n, m) \/ ProcessData(n, m)
  PROVE  Agreed' /\ AgreementStep(net, net')
<1>1. PICK o \in Node : o # n /\ Node = {n, o}
  BY OtherEnd
<1>2. Good(n, o, peer[n], peer[o], net, drawn, sealed)
  BY <1>1 DEF Agreed
<1>3. CASE RefuseData(n, m)
  <2>1. PICK q \in Peers : /\ peer' = [peer EXCEPT ![n] = q]
                           /\ q.handshake = peer[n].handshake
                           /\ \A s \in Slots : q[s].valid => q[s] = peer[n][s]
    BY <1>3, RefuseTypes
  <2>2. net' = net /\ drawn' = drawn /\ sealed' = sealed
    BY <1>3 DEF RefuseData
  <2>3. Good(n, o, q, peer[o], net, drawn, sealed)
    BY <1>2, <2>1, KeptGood
  <2> QED
    BY <1>1, <2>1, <2>2, <2>3, OneEndGood DEF AgreementStep
<1>4. CASE ProcessData(n, m)
  <2>1. PICK slot \in Slots, rx \in Keypairs, q \in Peers : DataStage(n, m, slot, rx, q)
    BY <1>4, DataStages
  <2>2. /\ m.type = "data" /\ peer[n][slot].valid
        /\ m.key = peer[n][slot].key /\ m.initiator # peer[n][slot].initiator
        /\ Marked(peer[n][slot], rx)
        /\ peer' = [peer EXCEPT ![n] = q]
        /\ q.handshake = peer[n].handshake
        /\ slot = "next" => q.prev = peer[n].curr /\ q.curr = rx /\ ~q.next.valid
        /\ slot # "next" => q[slot] = rx /\ \A s \in Slots \ {slot} : q[s] = peer[n][s]
        /\ net' = net /\ drawn' = drawn /\ sealed' = sealed
    BY <2>1 DEF DataStage
  <2>3. peer[n][slot] \in Keypairs /\ m.initiator \in BOOLEAN
    BY <2>2, TypeParts, SlotType, MessageFields
  <2>4. EndOK(n, peer[n], net)
    BY <1>2 DEF Good
  <2>5. EndOK(n, q, net)
    BY <2>2, <2>3, <2>4, MarkedFits
  <2>6. Good(n, o, q, peer[o], net, drawn, sealed)
    BY <1>2, <2>5 DEF Good
  <2> QED
    BY <1>1, <2>2, <2>6, OneEndGood DEF AgreementStep
<1> QED
  BY <1>3, <1>4

\* An end is restarted.
LEMMA RestartAgreed ==
  ASSUME TypeOK, Agreed, NEW n \in Node, Restart(n)
  PROVE  Agreed' /\ AgreementStep(net, net')
<1>1. PICK o \in Node : o # n /\ Node = {n, o}
  BY OtherEnd
<1>2. PICK q : q = NewPeer(n \in Active)
  OBVIOUS
<1>3. /\ peer' = [peer EXCEPT ![n] = q]
      /\ net' = net /\ drawn' = drawn /\ sealed' = sealed
  BY <1>2 DEF Restart
<1>4. EndOK(n, q, net)
  BY <1>2, BlankFits
<1>5. Good(n, o, q, peer[o], net, drawn, sealed)
  BY <1>1, <1>4 DEF Agreed, Good
<1> QED
  BY <1>1, <1>3, <1>5, OneEndGood DEF AgreementStep

\* Every step keeps the invariant, and is a step of the key agreement or none.
LEMMA StepAgreed == TypeOK /\ Agreed /\ [Next]_vars => Agreed' /\ AgreementStep(net, net')
<1> SUFFICES ASSUME TypeOK, Agreed, [Next]_vars PROVE Agreed' /\ AgreementStep(net, net')
  OBVIOUS
<1>1. CASE Tick \/ UNCHANGED vars
  BY <1>1 DEF Tick, vars, Agreed, AgreementStep
<1>2. ASSUME NEW n \in Node, Output(n) PROVE Agreed' /\ AgreementStep(net, net')
  BY <1>2, OutputAgreed
<1>3. ASSUME NEW n \in Node, Timer(n) PROVE Agreed' /\ AgreementStep(net, net')
  BY <1>3, TimerAgreed
<1>4. ASSUME NEW n \in Node, Receive(n) PROVE Agreed' /\ AgreementStep(net, net')
  BY <1>4, InitiationAgreed, ResponseAgreed, DataAgreed DEF Receive
<1>5. ASSUME NEW n \in Node, Restart(n) PROVE Agreed' /\ AgreementStep(net, net')
  BY <1>5, RestartAgreed
<1> QED
  BY <1>1, <1>2, <1>3, <1>4, <1>5 DEF Next

\* In the initial state nothing was sent.
LEMMA InitAgreed == Init => Agreed
<1> SUFFICES ASSUME Init, NEW n \in Node, NEW o \in Node
             PROVE  Good(n, o, peer[n], peer[o], net, drawn, sealed)
  BY DEF Agreed
<1>1. /\ peer[n] = NewPeer(n \in Active) /\ peer[o] = NewPeer(o \in Active)
      /\ net = {} /\ drawn = 0 /\ sealed = 0
  BY DEF Init
<1>2. NetOK({}, 0)
  BY DEF NetOK
<1>3. SealedNonces({}) = {} /\ IsFiniteSet({}) /\ Cardinality({}) = 0
  BY FS_EmptySet DEF SealedNonces
<1> QED
  BY <1>1, <1>2, <1>3, BlankFits DEF Good

\* The invariant, in every reachable state.
LEMMA AlwaysAgreed == Spec => [](TypeOK /\ Agreed)
<1>1. Init => TypeOK /\ Agreed
  BY InitTypes, InitAgreed
<1>2. TypeOK /\ Agreed /\ [Next]_vars => (TypeOK /\ Agreed)'
  BY StepTypes, StepAgreed
<1> QED
  BY <1>1, <1>2, PTL DEF Spec

\* wireguard_encrypt_packet never uses a counter twice under one key: every packet that was
\* sealed added a nonce.
THEOREM NoncesNeverRepeat == Spec => []NonceUsedOnce
<1>1. Agreed => NonceUsedOnce
  <2> SUFFICES ASSUME Agreed PROVE NonceUsedOnce
    OBVIOUS
  <2>1. PICK n, o \in Node : n # o
    BY NodeAssumption
  <2>2. sealed = Cardinality(SealedNonces(net))
    BY <2>1 DEF Agreed, Good
  <2> QED
    BY <2>2 DEF NonceUsedOnce, SealedNonces, DataPackets
<1> QED
  BY <1>1, AlwaysAgreed, PTL

\* Two keypairs with one key are one keypair of one end, or belong to the two ends in
\* opposite roles and name each other's index.
THEOREM SlotsAgree == Spec => []KeypairsMatch
<1>1. TypeOK /\ Agreed => KeypairsMatch
  <2> SUFFICES ASSUME TypeOK, Agreed, NEW n \in Node, NEW o \in Node,
                      NEW s \in Slots, NEW t \in Slots,
                      peer[n][s].valid, peer[o][t].valid, peer[n][s].key = peer[o][t].key
               PROVE  IF n = o THEN peer[n][s] = peer[o][t]
                      ELSE /\ peer[n][s].initiator # peer[o][t].initiator
                           /\ peer[n][s].local = peer[o][t].remote
                           /\ peer[n][s].remote = peer[o][t].local
    BY DEF KeypairsMatch, Held
  <2>1. CASE n = o
    <3>1. PICK x \in Node : x # n
      BY NodeAssumption
    <3>2. EndOK(n, peer[n], net)
      BY <3>1 DEF Agreed, Good
    <3> QED
      BY <2>1, <3>2 DEF EndOK, Distinct
  <2>2. CASE n # o
    <3>1. NetOK(net, drawn) /\ EndOK(n, peer[n], net) /\ EndOK(o, peer[o], net)
      BY <2>2 DEF Agreed, Good
    <3>2. PICK r \in net : Origin(n, peer[n][s], r)
      BY <3>1 DEF EndOK, KeypairOK
    <3>3. PICK q \in net : Origin(o, peer[o][t], q)
      BY <3>1 DEF EndOK, KeypairOK
    <3>4. q = r
      BY <3>1, <3>2, <3>3 DEF Origin, NetOK
    <3>5. r.from \in {n, o}
      BY <2>2, MessageFields, TypeParts, NodeAssumption
    <3>6. peer[n][s] \in Keypairs /\ peer[o][t] \in Keypairs
      BY TypeParts, SlotType
    <3> QED
      BY <2>2, <3>2, <3>3, <3>4, <3>5, <3>6 DEF Origin, Keypairs
  <2> QED
    BY <2>1, <2>2
<1> QED
  BY <1>1, AlwaysAgreed, PTL

\* Slots, retries, restarts and the network implement the key agreement: a responder seals
\* nothing under a key before its initiator has.
THEOREM ImplementsKeyAgreement == Spec => RefinesKeyAgreement
<1>1. Init => Agreement!Init
  BY DEF Init, Agreement!Init, Offered, Opened, Answered, Responses, DataPackets
<1>2. TypeOK /\ Agreed /\ [Next]_vars => [Agreement!Next]_(Agreement!vars)
  BY StepAgreed, AgreementStepIs
<1> QED
  BY <1>1, <1>2, AlwaysAgreed, PTL DEF Spec, RefinesKeyAgreement, Agreement!Spec

-----------------------------------------------------------------------------
(* How often an initiation is answered.  Every answer raises               *)
(* greatest_timestamp to the time of the initiation, and only a restart    *)
(* lowers it.                                                              *)

\* The answers to the initiation with this ephemeral.
AnswersTo(ephemeral, sent) == {r \in sent : r.type = "response" /\ r.ephemeral = ephemeral}

\* An end that still knows the initiation has answered it once more than it has forgotten it.
AnswersOK(p, i, sent, lost) ==
  /\ IsFiniteSet(AnswersTo(i.ephemeral, sent))
  /\ \/ Cardinality(AnswersTo(i.ephemeral, sent)) <= lost
     \/ p.greatest >= i.time /\ Cardinality(AnswersTo(i.ephemeral, sent)) <= lost + 1

\* Initiations are told apart by their ephemerals, and each is answered as often as it may be.
Counted ==
  /\ \A i, j \in net :
       i.type = "initiation" /\ j.type = "initiation" /\ i.ephemeral = j.ephemeral => i = j
  /\ \A i \in net, o \in Node :
       i.type = "initiation" /\ o # i.from => AnswersOK(peer[o], i, net, faults)

\* Everything an end sends but an answer.
Unasked(more) ==
  /\ \A m \in more : \/ m.type = "data"
                     \/ m.type = "initiation" /\ m.ephemeral = drawn + 1
  /\ \A i, j \in more : i.type = "initiation" /\ j.type = "initiation" => i = j

\* The handlers leave greatest_timestamp and active alone.
LEMMA OutputKeepsTime ==
  ASSUME NEW p \in Peers, NEW ok \in BOOLEAN
  PROVE  AfterOutput(p, ok).greatest = p.greatest /\ AfterOutput(p, ok).active = p.active
<1>1. SendSlot(p) \in {"curr", "prev"}
  BY SendSlotType
<1> DEFINE slot == SendSlot(p)
<1> DEFINE k == [p[slot] EXCEPT !.counter = @ + 1]
<1>2. AfterOutput(p, ok) =
        IF CanSeal(p)
          THEN [p EXCEPT ![slot] = k, !.lastTx = IF ok THEN clock ELSE @,
                         !.sendHandshake = @ \/ WantsRekey(k)]
        ELSE IF p[slot].valid /\ (p[slot].initiator \/ p[slot].rx)
          THEN [p EXCEPT ![slot] = Destroyed]
        ELSE p
  BY DEF AfterOutput
<1> HIDE DEF slot, k
<1>3. slot \in {"curr", "prev"}
  BY <1>1 DEF slot
<1> QED
  BY <1>2, <1>3 DEF Peers

\* So does the timer.
LEMMA TimerKeepsTime ==
  ASSUME NEW p \in Peers
  PROVE  /\ DestroyIfUsedUp(ResetIfSilent(p)).greatest = p.greatest
         /\ DestroyIfUsedUp(ResetIfSilent(p)).active = p.active
         /\ AfterStart(p).greatest = p.greatest /\ AfterStart(p).active = p.active
<1> DEFINE r == ResetIfSilent(p)
<1>1. r \in Peers /\ r.greatest = p.greatest /\ r.active = p.active
  BY DestroyedType DEF ResetIfSilent, Peers
<1> HIDE DEF r
<1>2. DestroyIfUsedUp(r).greatest = r.greatest /\ DestroyIfUsedUp(r).active = r.active
  BY <1>1 DEF DestroyIfUsedUp, Peers
<1>3. AfterStart(p).greatest = p.greatest /\ AfterStart(p).active = p.active
  BY DEF AfterStart, Peers
<1> QED
  BY <1>1, <1>2, <1>3 DEF r

\* So does a new session.
LEMMA SessionKeepsTime ==
  ASSUME NEW p \in Peers, NEW new \in Keypairs
  PROVE  /\ StartSession(p, new).greatest = p.greatest
         /\ StartSession(p, new).active = p.active
<1> DEFINE r == [p EXCEPT !.handshake = NoHandshake]
<1>1. r \in Peers /\ r.greatest = p.greatest /\ r.active = p.active
  BY DEF Peers, NoHandshake
<1>2. StartSession(p, new) = AddNewKeypair(r, new)
  BY DEF StartSession
<1> HIDE DEF r
<1> QED
  BY <1>1, <1>2 DEF AddNewKeypair, Peers

\* So does a packet that is received.
LEMMA DataKeepsTime ==
  ASSUME TypeOK, NEW n \in Node, NEW m \in net, RefuseData(n, m) \/ ProcessData(n, m)
  PROVE  \A o \in Node : peer'[o].greatest = peer[o].greatest /\ peer'[o].active = peer[o].active
<1> DEFINE slot == SlotFor(peer[n], m.receiver)
<1>1. slot \in Slots /\ peer[n] \in Peers /\ peer \in [Node -> Peers]
  BY SlotForType, TypeParts DEF RefuseData, ProcessData
<1>2. CASE RefuseData(n, m)
  <2>1. peer' = [peer EXCEPT ![n] = [peer[n] EXCEPT ![slot] = Destroyed]]
    BY <1>2 DEF RefuseData
  <2> HIDE DEF slot
  <2>2. /\ [peer[n] EXCEPT ![slot] = Destroyed].greatest = peer[n].greatest
        /\ [peer[n] EXCEPT ![slot] = Destroyed].active = peer[n].active
    BY <1>1 DEF Slots, Peers
  <2> QED
    BY <1>1, <2>1, <2>2
<1>3. CASE ProcessData(n, m)
  <2> DEFINE r == [peer[n] EXCEPT ![slot].rx = TRUE]
  <2> DEFINE p == KeypairUpdate(r, slot)
  <2> DEFINE noted == IF Accepts(p[slot], m) THEN p[slot].seen \union {m.counter} ELSE p[slot].seen
  <2> DEFINE q == [p EXCEPT ![slot].seen = noted, !.sendHandshake = @ \/ NearReject(p[slot])]
  <2>1. peer' = [peer EXCEPT ![n] = q]
    BY <1>3 DEF ProcessData
  <2> HIDE DEF slot
  <2>2. r.greatest = peer[n].greatest /\ r.active = peer[n].active /\ DOMAIN r = DOMAIN peer[n]
    BY <1>1 DEF Slots, Peers
  <2>3. DOMAIN peer[n] = {"curr", "prev", "next", "handshake", "greatest", "initTx", "lastTx",
                          "sendHandshake", "active"}
    BY <1>1 DEF Peers
  <2> HIDE DEF r
  <2>4. p.greatest = r.greatest /\ p.active = r.active /\ DOMAIN p = DOMAIN r
    BY <2>2, <2>3 DEF KeypairUpdate
  <2> HIDE DEF p, noted
  <2>5. q.greatest = p.greatest /\ q.active = p.active
    BY <1>1, <2>2, <2>3, <2>4 DEF Slots
  <2> HIDE DEF q
  <2> QED
    BY <1>1, <2>1, <2>2, <2>4, <2>5
<1> QED
  BY <1>2, <1>3

\* A step that answers nothing and forgets nothing.
LEMMA UnaskedCounts ==
  ASSUME TypeOK, Agreed, Counted, NEW more, Unasked(more), net' = net \union more,
         faults' \in Nat, faults <= faults',
         \A o \in Node : peer'[o].greatest = peer[o].greatest
  PROVE  Counted'
<1>1. PICK n, o \in Node : n # o
  BY NodeAssumption
<1>2. NetOK(net, drawn) /\ drawn \in Nat /\ faults \in Nat
  BY <1>1, TypeParts, BoundsAssumption DEF Agreed, Good
<1>3. \A e : AnswersTo(e, net') = AnswersTo(e, net)
  BY DEF AnswersTo, Unasked
<1>4. ASSUME NEW i \in net', NEW j \in net', i.type = "initiation", j.type = "initiation",
             i.ephemeral = j.ephemeral
      PROVE  i = j
  <2>1. \A m \in net : m.type = "initiation" => m.ephemeral \in Nat /\ m.ephemeral <= drawn
    BY <1>2, MessageFields DEF NetOK
  <2>2. \A m \in more : m.type = "initiation" => m.ephemeral = drawn + 1
    BY DEF Unasked
  <2> QED
    BY <1>2, <1>4, <2>1, <2>2 DEF Unasked, Counted
<1>5. ASSUME NEW i \in net', NEW x \in Node, i.type = "initiation", x # i.from
      PROVE  AnswersOK(peer'[x], i, net', faults')
  <2>1. CASE i \in net
    <3>1. AnswersOK(peer[x], i, net, faults)
      BY <1>5, <2>1 DEF Counted
    <3>2. Cardinality(AnswersTo(i.ephemeral, net)) \in Nat
      BY <3>1, FS_CardinalityType DEF AnswersOK
    <3> QED
      BY <1>2, <1>3, <3>1, <3>2 DEF AnswersOK
  <2>2. CASE i \notin net
    <3>1. i.ephemeral = drawn + 1
      BY <1>5, <2>2 DEF Unasked
    <3>2. \A r \in net : r.type = "response" => r.ephemeral <= drawn /\ r.ephemeral \in Nat
      BY <1>2, MessageFields DEF NetOK
    <3>3. AnswersTo(i.ephemeral, net) = {}
      BY <1>2, <3>1, <3>2 DEF AnswersTo
    <3>4. AnswersTo(i.ephemeral, net') = {}
      BY <1>3, <3>3
    <3>5. IsFiniteSet({}) /\ Cardinality({}) = 0
      BY FS_EmptySet
    <3>6. /\ IsFiniteSet(AnswersTo(i.ephemeral, net'))
          /\ Cardinality(AnswersTo(i.ephemeral, net')) = 0
      BY <3>4, <3>5, Zenon
    <3> QED
      BY <3>6 DEF AnswersOK
  <2> QED
    BY <2>1, <2>2
<1> QED
  BY <1>4, <1>5 DEF Counted

\* Failed sends only add up.
LEMMA SendsAddUp ==
  ASSUME TypeOK, NEW messages, NEW ok \in BOOLEAN, Sends(messages, ok)
  PROVE  faults' \in Nat /\ faults <= faults'
<1>1. faults \in Nat
  BY TypeParts, BoundsAssumption
<1> QED
  BY <1>1 DEF Sends

\* What is sealed is data.
LEMMA SealedUnasked ==
  ASSUME NEW n, NEW p, NEW body
  PROVE  Unasked(Sealed(n, p, body)) /\ Unasked(KeepaliveOf(n, p)) /\ Unasked({})
<1>1. \A m \in Sealed(n, p, body) \union KeepaliveOf(n, p) : m.type = "data"
  BY DEF Sealed, KeepaliveOf, Data
<1> QED
  BY <1>1 DEF Unasked

\* A packet of the IP layer, or the timer.
LEMMA SendingCounts ==
  ASSUME TypeOK, Agreed, Counted, NEW n \in Node, Output(n) \/ Timer(n)
  PROVE  Counted'
<1>1. peer \in [Node -> Peers] /\ clock \in Nat
  BY TypeParts, BoundsAssumption
<1>2. CASE Output(n)
  <2>1. PICK ok \in BOOLEAN : /\ Sends(Sealed(n, peer[n], "packet"), ok)
                              /\ peer' = [peer EXCEPT ![n] = AfterOutput(@, ok)]
    BY <1>2 DEF Output
  <2>2. \A o \in Node : peer'[o].greatest = peer[o].greatest
    BY <1>1, <2>1, OutputKeepsTime
  <2>3. net' = net \union Sealed(n, peer[n], "packet")
    BY <1>2 DEF Output
  <2> QED
    BY <2>1, <2>2, <2>3, SendsAddUp, SealedUnasked, UnaskedCounts
<1>3. CASE Timer(n)
  <2> DEFINE p == DestroyIfUsedUp(ResetIfSilent(peer[n]))
  <2>1. PICK ok \in BOOLEAN :
          /\ Sends(KeepaliveOf(n, p), ok)
          /\ \/ /\ peer' = [peer EXCEPT ![n] = AfterStart(AfterKeepalive(p, ok))]
                /\ net' = net \union KeepaliveOf(n, p) \union {Initiation(n, drawn + 1)}
             \/ /\ peer' = [peer EXCEPT ![n] = AfterKeepalive(p, ok)]
                /\ net' = net \union KeepaliveOf(n, p)
    BY <1>3 DEF Timer
  <2>2. p \in Peers /\ p.greatest = peer[n].greatest
    BY <1>1, TrimmedType, TimerKeepsTime
  <2> HIDE DEF p
  <2> DEFINE q == AfterKeepalive(p, ok)
  <2>3. q \in Peers /\ q.greatest = p.greatest
    BY <1>1, <2>2, AfterOutputType, OutputKeepsTime DEF AfterKeepalive
  <2> HIDE DEF q
  <2>4. AfterStart(q).greatest = q.greatest
    BY <2>3, TimerKeepsTime
  <2>5. \A o \in Node : peer'[o].greatest = peer[o].greatest
    BY <1>1, <2>1, <2>2, <2>3, <2>4 DEF q
  <2>6. faults' \in Nat /\ faults <= faults'
    BY <2>1, SendsAddUp
  <2>7. Unasked(KeepaliveOf(n, p))
    BY SealedUnasked
  <2>8. \A m \in KeepaliveOf(n, p) : m.type = "data"
    BY DEF KeepaliveOf, Sealed, Data
  <2>9. Unasked(KeepaliveOf(n, p) \union {Initiation(n, drawn + 1)})
    BY <2>8 DEF Unasked, Initiation
  <2>10. \/ net' = net \union KeepaliveOf(n, p)
         \/ net' = net \union (KeepaliveOf(n, p) \union {Initiation(n, drawn + 1)})
    BY <2>1
  <2> QED
    BY <2>5, <2>6, <2>7, <2>9, <2>10, UnaskedCounts
<1> QED
  BY <1>2, <1>3

\* A response or a data packet that is received.
LEMMA ReceivingCounts ==
  ASSUME TypeOK, Agreed, Counted, NEW n \in Node, NEW m \in net,
         ProcessResponse(n, m) \/ RefuseData(n, m) \/ ProcessData(n, m)
  PROVE  Counted'
<1>1. peer \in [Node -> Peers] /\ clock \in Nat /\ faults \in Nat
  BY TypeParts, BoundsAssumption
<1>2. CASE ProcessResponse(n, m)
  <2>1. PICK ok \in BOOLEAN, p \in Peers, new \in Keypairs : ResponseStage(n, m, ok, p, new)
    BY <1>2, ResponseStages
  <2>2. /\ p = StartSession(peer[n], new) /\ Sends(Sealed(n, p, "keepalive"), ok)
        /\ peer' = [peer EXCEPT ![n] = AfterOutput(p, ok)]
        /\ net' = net \union Sealed(n, p, "keepalive")
    BY <2>1 DEF ResponseStage
  <2>3. p.greatest = peer[n].greatest
    BY <1>1, <2>2, SessionKeepsTime
  <2>4. AfterOutput(p, ok).greatest = p.greatest
    BY OutputKeepsTime
  <2>5. \A o \in Node : peer'[o].greatest = peer[o].greatest
    BY <1>1, <2>2, <2>3, <2>4
  <2> QED
    BY <2>2, <2>5, SendsAddUp, SealedUnasked, UnaskedCounts
<1>3. CASE RefuseData(n, m) \/ ProcessData(n, m)
  <2>1. \A o \in Node : peer'[o].greatest = peer[o].greatest
    BY <1>3, DataKeepsTime
  <2>2. net' = net \union {} /\ faults' = faults
    BY <1>3 DEF RefuseData, ProcessData
  <2> QED
    BY <1>1, <2>1, <2>2, SealedUnasked, UnaskedCounts
<1> QED
  BY <1>2, <1>3

\* An initiation that is answered is newer than every one before, so it had not been
\* answered since the last restart; another one is told apart by its ephemeral.
LEMMA AnswerCounts ==
  ASSUME TypeOK, Agreed, Counted, NEW n \in Node, NEW m \in net, ProcessInitiation(n, m)
  PROVE  Counted'
<1> DEFINE answer == Response(n, drawn + 1, m)
<1>1. /\ m.type = "initiation" /\ m.from # n /\ m.time > peer[n].greatest
      /\ net' = net \union {answer} /\ faults' = faults
  BY DEF ProcessInitiation, IsNew
<1>2. /\ peer \in [Node -> Peers] /\ clock \in Nat /\ faults \in Nat /\ drawn + 1 \in Nat
      /\ m.from \in Node /\ m.time \in Nat /\ m.sender \in Nat /\ m.ephemeral \in Nat
  BY <1>1, TypeParts, BoundsAssumption, MessageFields
<1>3. peer'[n].greatest = m.time /\ \A o \in Node \ {n} : peer'[o] = peer[o]
  <2> DEFINE p == [peer[n] EXCEPT !.greatest = m.time]
  <2> DEFINE new == AnsweringKeypair(m, drawn + 1)
  <2>1. p \in Peers /\ p.greatest = m.time
    BY <1>2 DEF Peers
  <2>2. new \in Keypairs
    BY <1>2, NewKeypairType DEF AnsweringKeypair
  <2>3. peer' = [peer EXCEPT ![n] = StartSession(p, new)]
    BY DEF ProcessInitiation
  <2> HIDE DEF p, new
  <2>4. StartSession(p, new).greatest = m.time
    BY <2>1, <2>2, SessionKeepsTime
  <2> QED
    BY <1>2, <2>3, <2>4
<1>4. answer.type = "response" /\ answer.ephemeral = m.ephemeral
  BY DEF Response
<1> HIDE DEF answer
<1>5. \A i \in net' : i.type = "initiation" => i \in net
  BY <1>1, <1>4
<1>6. ASSUME NEW i \in net, NEW x \in Node, i.type = "initiation", x # i.from
      PROVE  AnswersOK(peer'[x], i, net', faults')
  <2>1. AnswersOK(peer[x], i, net, faults)
    BY <1>6 DEF Counted
  <2>2. Cardinality(AnswersTo(i.ephemeral, net)) \in Nat
    BY <2>1, FS_CardinalityType DEF AnswersOK
  <2>3. i.time \in Nat /\ i.from \in Node /\ peer[x].greatest \in Nat
    BY <1>2, <1>6, TypeParts, MessageFields DEF Peers
  <2>4. CASE i = m
    <3>1. x = n
      BY <1>1, <1>2, <1>6, <2>4, NodeAssumption
    <3>2. Cardinality(AnswersTo(i.ephemeral, net)) <= faults
      BY <1>1, <1>2, <2>1, <2>2, <2>3, <2>4, <3>1 DEF AnswersOK
    <3>3. AnswersTo(i.ephemeral, net') = AnswersTo(i.ephemeral, net) \union {answer}
      BY <1>1, <1>4, <2>4 DEF AnswersTo
    <3> DEFINE before == AnswersTo(i.ephemeral, net)
    <3>4. IsFiniteSet(before) /\ Cardinality(before) <= faults /\ Cardinality(before) \in Nat
      BY <2>1, <2>2, <3>2 DEF AnswersOK
    <3> HIDE DEF before
    <3>5. /\ IsFiniteSet(before \union {answer})
          /\ Cardinality(before \union {answer}) \in {Cardinality(before), Cardinality(before) + 1}
      BY <3>4, FS_AddElement
    <3>6. /\ IsFiniteSet(before \union {answer})
          /\ Cardinality(before \union {answer}) <= faults + 1
      BY <1>2, <3>4, <3>5
    <3>7. peer'[x].greatest >= i.time
      BY <1>2, <1>3, <2>4, <3>1
    <3> QED
      BY <1>1, <3>3, <3>6, <3>7 DEF before, AnswersOK
  <2>5. CASE i # m
    <3>1. i.ephemeral # m.ephemeral
      BY <1>1, <1>6, <2>5 DEF Counted
    <3>2. AnswersTo(i.ephemeral, net') = AnswersTo(i.ephemeral, net)
      BY <1>1, <1>4, <3>1 DEF AnswersTo
    <3>3. peer'[x].greatest \in Nat /\ peer'[x].greatest >= peer[x].greatest
      BY <1>1, <1>2, <1>3, <2>3
    <3> QED
      BY <1>1, <1>2, <2>1, <2>2, <2>3, <3>2, <3>3 DEF AnswersOK
  <2> QED
    BY <2>4, <2>5
<1> QED
  BY <1>5, <1>6 DEF Counted

\* A restart forgets, and is counted.
LEMMA RestartCounts ==
  ASSUME TypeOK, Counted, NEW n \in Node, Restart(n)
  PROVE  Counted'
<1>1. /\ net' = net /\ faults' = faults + 1
      /\ peer' = [peer EXCEPT ![n] = NewPeer(n \in Active)]
  BY DEF Restart
<1>2. peer \in [Node -> Peers] /\ faults \in Nat /\ NewPeer(n \in Active) \in Peers
  BY TypeParts, BoundsAssumption, NewPeerType
<1>3. ASSUME NEW i \in net, NEW x \in Node, i.type = "initiation", x # i.from
      PROVE  AnswersOK(peer'[x], i, net', faults')
  <2>1. AnswersOK(peer[x], i, net, faults)
    BY <1>3 DEF Counted
  <2>2. Cardinality(AnswersTo(i.ephemeral, net)) \in Nat
    BY <2>1, FS_CardinalityType DEF AnswersOK
  <2>3. Cardinality(AnswersTo(i.ephemeral, net)) <= faults + 1
    BY <1>2, <2>1, <2>2 DEF AnswersOK
  <2>4. CASE x = n
    BY <1>1, <1>2, <2>1, <2>2, <2>3, <2>4 DEF AnswersOK
  <2>5. CASE x # n
    BY <1>1, <1>2, <2>1, <2>2, <2>5 DEF AnswersOK
  <2> QED
    BY <2>4, <2>5
<1> QED
  BY <1>1, <1>3 DEF Counted

\* Every step keeps the count.
LEMMA StepCounts == TypeOK /\ Agreed /\ Counted /\ [Next]_vars => Counted'
<1> SUFFICES ASSUME TypeOK, Agreed, Counted, [Next]_vars PROVE Counted'
  OBVIOUS
<1>1. CASE Tick \/ UNCHANGED vars
  BY <1>1 DEF Tick, vars, Counted
<1>2. ASSUME NEW n \in Node, Output(n) \/ Timer(n) PROVE Counted'
  BY <1>2, SendingCounts
<1>3. ASSUME NEW n \in Node, Receive(n) PROVE Counted'
  BY <1>3, AnswerCounts, ReceivingCounts DEF Receive
<1>4. ASSUME NEW n \in Node, Restart(n) PROVE Counted'
  BY <1>4, RestartCounts
<1> QED
  BY <1>1, <1>2, <1>3, <1>4 DEF Next

\* An initiation that arrives again is answered again only by an end that lost
\* greatest_timestamp in a restart.
THEOREM AnsweredOncePerLife == Spec => []AnsweredOnce
<1>1. Init => Counted
  BY DEF Init, Counted
<1>2. TypeOK /\ Counted => AnsweredOnce
  <2> SUFFICES ASSUME TypeOK, Counted, NEW i \in net, i.type = "initiation"
               PROVE  Cardinality(AnswersTo(i.ephemeral, net)) <= 1 + faults
    BY DEF AnsweredOnce, AnswersTo
  <2>1. PICK o \in Node : o # i.from
    BY NodeAssumption
  <2>2. AnswersOK(peer[o], i, net, faults)
    BY <2>1 DEF Counted
  <2>3. Cardinality(AnswersTo(i.ephemeral, net)) \in Nat /\ faults \in Nat
    BY <2>2, FS_CardinalityType, TypeParts, BoundsAssumption DEF AnswersOK
  <2> QED
    BY <2>2, <2>3 DEF AnswersOK
<1> QED
  BY <1>1, <1>2, StepCounts, AlwaysAgreed, PTL DEF Spec

-----------------------------------------------------------------------------
(* How often a packet reaches the IP layer.  Its counter is in the window  *)
(* of the keypair that opened it, unless it made that keypair current.     *)

\* No slot of the end n lets a packet of the other end through that was delivered before;
\* a confirming packet may be let through once more.
NotedAt(n, p, counts, marked) ==
  \A m \in DOMAIN counts : m.from # n =>
    /\ \A s \in {"curr", "prev"} : p[s].valid /\ p[s].key = m.key =>
         m.counter \in p[s].seen \/ (m \in marked /\ counts[m] = 1)
    /\ p.next.valid => p.next.key # m.key

\* What was delivered was sent, and not too often.
DeliveriesOK(sent, counts, marked) ==
  /\ IsABag(counts)
  /\ \A m \in DOMAIN counts : /\ m \in sent /\ m.type = "data"
                              /\ counts[m] <= (IF m \in marked THEN 2 ELSE 1)

Noted ==
  /\ DeliveriesOK(net, delivered, confirming)
  /\ AnsweredIn(net) \subseteq OpenedIn(net)
  /\ \A n \in Node : NotedAt(n, peer[n], delivered, confirming)

\* The slot holds l only if it held k, with the same key and window.
SameWindow(k, l) == l.valid => k.valid /\ l.key = k.key /\ l.seen = k.seen

\* A datagram that is sent leaves every window alone.
LEMMA OutputKeepsWindows ==
  ASSUME NEW p \in Peers, NEW ok \in BOOLEAN, NEW s \in Slots
  PROVE  SameWindow(p[s], AfterOutput(p, ok)[s])
<1> DEFINE slot == SendSlot(p)
<1> DEFINE k == [p[slot] EXCEPT !.counter = @ + 1]
<1>1. slot \in {"curr", "prev"}
  BY SendSlotType
<1>2. AfterOutput(p, ok) =
        IF CanSeal(p)
          THEN [p EXCEPT ![slot] = k, !.lastTx = IF ok THEN clock ELSE @,
                         !.sendHandshake = @ \/ WantsRekey(k)]
        ELSE IF p[slot].valid /\ (p[slot].initiator \/ p[slot].rx)
          THEN [p EXCEPT ![slot] = Destroyed]
        ELSE p
  BY DEF AfterOutput
<1>3. p[slot] \in Keypairs
  BY <1>1, SlotType DEF Slots
<1>4. SameWindow(p[slot], k)
  BY <1>3 DEF Keypairs, SameWindow
<1>5. (\A l : SameWindow(l, l)) /\ SameWindow(p[slot], Destroyed)
  BY DestroyedType DEF SameWindow
<1> HIDE DEF slot, k
<1>6. \/ AfterOutput(p, ok)[s] = p[s]
      \/ s = slot /\ AfterOutput(p, ok)[s] \in {k, Destroyed}
  BY <1>1, <1>2 DEF Peers, Slots
<1> QED
  BY <1>4, <1>5, <1>6

\* Slots that keep their windows or are destroyed let no more through than before.
LEMMA KeptNoted ==
  ASSUME NEW n, NEW p, NEW q, NEW counts, NEW marked, NotedAt(n, p, counts, marked),
         \A s \in Slots : SameWindow(p[s], q[s])
  PROVE  NotedAt(n, q, counts, marked)
<1>1. {"curr", "prev"} \subseteq Slots /\ "next" \in Slots
  BY DEF Slots
<1> QED
  BY <1>1 DEF NotedAt, SameWindow

\* The abstract key agreement answers no key it has not opened.
LEMMA AgreementKept ==
  ASSUME AgreementStep(net, net'), AnsweredIn(net) \subseteq OpenedIn(net)
  PROVE  AnsweredIn(net') \subseteq OpenedIn(net')
  BY DEF AgreementStep

\* A step of one end that delivers nothing.
LEMMA OneEndNoted ==
  ASSUME TypeOK, Noted, AgreementStep(net, net'), net \subseteq net',
         UNCHANGED <<confirming, delivered>>,
         NEW n \in Node, NEW q, peer' = [peer EXCEPT ![n] = q],
         NotedAt(n, q, delivered, confirming)
  PROVE  Noted'
<1>1. DeliveriesOK(net', delivered, confirming)
  BY DEF Noted, DeliveriesOK
<1>2. \A o \in Node : NotedAt(o, peer'[o], delivered, confirming)
  BY TypeParts DEF Noted
<1> QED
  BY <1>1, <1>2, AgreementKept DEF Noted

\* A packet of the IP layer, or the timer.
LEMMA SendingNoted ==
  ASSUME TypeOK, Noted, AgreementStep(net, net'), NEW n \in Node, Output(n) \/ Timer(n)
  PROVE  Noted'
<1>1. peer[n] \in Peers /\ clock \in Nat /\ drawn \in Nat
  BY TypeParts, BoundsAssumption
<1>2. NotedAt(n, peer[n], delivered, confirming)
  BY DEF Noted
<1>3. CASE Output(n)
  <2>1. PICK ok \in BOOLEAN : peer' = [peer EXCEPT ![n] = AfterOutput(peer[n], ok)]
    BY <1>3 DEF Output
  <2>2. net \subseteq net' /\ UNCHANGED <<confirming, delivered>>
    BY <1>3 DEF Output
  <2>3. NotedAt(n, AfterOutput(peer[n], ok), delivered, confirming)
    BY <1>1, <1>2, OutputKeepsWindows, KeptNoted
  <2> QED
    BY <2>1, <2>2, <2>3, OneEndNoted
<1>4. CASE Timer(n)
  <2>1. PICK ok \in BOOLEAN, p \in Peers, q \in Peers : TimerStage(n, ok, p, q)
    BY <1>4, TimerStages
  <2>2. /\ \A s \in Slots : p[s].valid => p[s] = peer[n][s]
        /\ q = AfterKeepalive(p, ok)
        /\ peer' \in {[peer EXCEPT ![n] = AfterStart(q)], [peer EXCEPT ![n] = q]}
        /\ net \subseteq net' /\ UNCHANGED <<confirming, delivered>>
    BY <2>1 DEF TimerStage
  <2>3. NotedAt(n, p, delivered, confirming)
    BY <1>2, <2>2, KeptNoted DEF SameWindow
  <2>4. \A s \in Slots : SameWindow(p[s], q[s])
    BY <2>2, OutputKeepsWindows DEF AfterKeepalive, SameWindow
  <2>5. NotedAt(n, q, delivered, confirming)
    BY <2>3, <2>4, KeptNoted
  <2>6. \A s \in Slots : AfterStart(q)[s] = q[s]
    BY <1>1, AfterStartType
  <2>7. NotedAt(n, AfterStart(q), delivered, confirming)
    BY <2>5, <2>6, KeptNoted DEF SameWindow
  <2> QED
    BY <2>2, <2>5, <2>7, OneEndNoted
<1> QED
  BY <1>3, <1>4

\* An initiation: the key that waits in next has sealed nothing yet.
LEMMA InitiationNoted ==
  ASSUME TypeOK, Agreed, Noted, AgreementStep(net, net'),
         NEW n \in Node, NEW i \in net, ProcessInitiation(n, i)
  PROVE  Noted'
<1>1. PICK p \in Peers, new \in Keypairs, q \in Peers : InitiationStage(n, i, p, new, q)
  BY InitiationStages
<1>2. /\ \A s \in Slots : p[s] = peer[n][s]
      /\ new = NewKeypair(FALSE, drawn + 1, i.sender, drawn + 1)
      /\ q = StartSession(p, new) /\ peer' = [peer EXCEPT ![n] = q]
      /\ net \subseteq net' /\ UNCHANGED <<confirming, delivered>>
  BY <1>1 DEF InitiationStage
<1>3. ~new.initiator /\ new.key = drawn + 1
  BY <1>2 DEF NewKeypair
<1>4. q.curr = peer[n].curr /\ q.next = new /\ ~q.prev.valid
  <2>1. q = StartSession(p, new)
    BY <1>2
  <2>2. q.curr = p.curr /\ q.next = new /\ ~q.prev.valid
    BY <1>3, <2>1, StartSessionType
  <2> QED
    BY <1>2, <2>2 DEF Slots
<1>5. NetOK(net, drawn) /\ drawn \in Nat
  BY OtherEnd, TypeParts, BoundsAssumption DEF Agreed, Good
<1>6. ASSUME NEW m \in DOMAIN delivered PROVE m.key # drawn + 1
  <2>1. m \in net /\ m.type = "data"
    BY DEF Noted, DeliveriesOK
  <2>2. PICK r \in net : r.type = "response" /\ r.key = m.key
    BY <1>5, <2>1 DEF NetOK
  <2>3. r.key \in Nat /\ r.key <= drawn
    BY <1>5, <2>2, TypeParts, MessageFields DEF NetOK
  <2> QED
    BY <1>5, <2>2, <2>3
<1>7. NotedAt(n, peer[n], delivered, confirming)
  BY DEF Noted
<1>8. NotedAt(n, q, delivered, confirming)
  BY <1>3, <1>4, <1>6, <1>7 DEF NotedAt
<1> QED
  BY <1>2, <1>8, OneEndNoted

\* The other end has sealed nothing under the key of a response that is still waited for.
LEMMA NothingOpened ==
  ASSUME TypeOK, Agreed, Noted, NEW n \in Node, NEW r \in net,
         r.type = "response", r.from # n,
         peer[n].handshake.valid, r.ephemeral = peer[n].handshake.ephemeral,
         NEW d \in net, d.type = "data", d.from # n
  PROVE  d.key # r.key
<1> SUFFICES ASSUME d.key = r.key PROVE FALSE
  OBVIOUS
<1>1. PICK o \in Node : o # n /\ Node = {n, o}
  BY OtherEnd
<1>2. NetOK(net, drawn) /\ HandshakeOK(n, peer[n], net)
  BY <1>1 DEF Agreed, Good, EndOK
<1>3. d.from = r.from
  BY <1>1, TypeParts, MessageFields
<1>4. r.key \in AnsweredIn(net)
  BY <1>3 DEF AnsweredIn
<1>5. PICK q \in net : /\ q.type = "response" /\ q.key = r.key
                       /\ \E e \in net : e.type = "data" /\ e.key = q.key /\ e.from # q.from
  BY <1>4 DEF Noted, OpenedIn
<1>6. PICK e \in net : e.type = "data" /\ e.key = q.key /\ e.from # q.from
  BY <1>5
<1>7. q = r
  BY <1>2, <1>5 DEF NetOK
<1>8. PICK x \in net : x.type = "response" /\ x.key = e.key /\ (e.initiator <=> x.from # e.from)
  BY <1>2, <1>6 DEF NetOK
<1>9. x = r
  BY <1>2, <1>6, <1>7, <1>8 DEF NetOK
<1>10. e.initiator
  BY <1>6, <1>7, <1>8, <1>9
<1> QED
  BY <1>2, <1>6, <1>7, <1>10 DEF HandshakeOK

\* A response: nothing was delivered yet under the key that becomes current.
LEMMA ResponseNoted ==
  ASSUME TypeOK, Agreed, Noted, AgreementStep(net, net'),
         NEW n \in Node, NEW r \in net, ProcessResponse(n, r)
  PROVE  Noted'
<1>1. PICK ok \in BOOLEAN, p \in Peers, new \in Keypairs : ResponseStage(n, r, ok, p, new)
  BY ResponseStages
<1>2. /\ r.type = "response" /\ r.from # n
      /\ peer[n].handshake.valid /\ r.ephemeral = peer[n].handshake.ephemeral
      /\ new = NewKeypair(TRUE, r.receiver, r.sender, r.key)
      /\ p = StartSession(peer[n], new)
      /\ peer' = [peer EXCEPT ![n] = AfterOutput(p, ok)]
      /\ net \subseteq net' /\ UNCHANGED <<confirming, delivered>>
  BY <1>1 DEF ResponseStage
<1>3. new.initiator /\ new.key = r.key
  BY <1>2 DEF NewKeypair
<1>4. p.curr = new /\ ~p.next.valid /\ p.prev \in {peer[n].curr, peer[n].next}
  <2>1. p = StartSession(peer[n], new) /\ peer[n] \in Peers
    BY <1>2, TypeParts
  <2> QED
    BY <1>3, <2>1, StartSessionType
<1>5. \A m \in DOMAIN delivered : m.from # n => m.key # r.key
  BY <1>2, NothingOpened DEF Noted, DeliveriesOK
<1>6. NotedAt(n, peer[n], delivered, confirming)
  BY DEF Noted
<1>7. NotedAt(n, p, delivered, confirming)
  BY <1>3, <1>4, <1>5, <1>6 DEF NotedAt
<1>8. NotedAt(n, AfterOutput(p, ok), delivered, confirming)
  BY <1>7, OutputKeepsWindows, KeptNoted
<1> QED
  BY <1>2, <1>8, OneEndNoted

\* The bag C is B with one more of m.
OneMoreIn(B, C, m) ==
  /\ IsABag(C) /\ DOMAIN C = DOMAIN B \union {m}
  /\ \A x \in DOMAIN B \ {m} : C[x] = B[x]
  /\ C[m] = IF m \in DOMAIN B THEN B[m] + 1 ELSE 1

\* Adding a bag of one.
LEMMA OneMore ==
  ASSUME NEW B, IsABag(B), NEW m, NEW C, C = B (+) SetToBag({m})
  PROVE  OneMoreIn(B, C, m)
<1>1. \A x \in DOMAIN B : B[x] \in Nat /\ B[x] > 0
  BY DEF IsABag
<1>2. DOMAIN SetToBag({m}) = {m} /\ SetToBag({m})[m] = 1
  BY DEF SetToBag
<1>3. /\ DOMAIN C = DOMAIN B \union {m}
      /\ C = [x \in DOMAIN B \union {m} |-> (IF x \in DOMAIN B THEN B[x] ELSE 0)
                                              + (IF x \in {m} THEN SetToBag({m})[x] ELSE 0)]
  BY <1>2 DEF (+)
<1>4. \A x \in DOMAIN B \ {m} : C[x] = B[x]
  <2> TAKE x \in DOMAIN B \ {m}
  <2>1. B[x] \in Nat /\ C[x] = B[x] + 0
    BY <1>1, <1>3
  <2> QED
    BY <2>1
<1>5. C[m] = IF m \in DOMAIN B THEN B[m] + 1 ELSE 1
  BY <1>1, <1>2, <1>3
<1>6. \A x \in DOMAIN C : C[x] \in {j \in Nat : j > 0}
  BY <1>1, <1>3, <1>4, <1>5
<1>7. IsABag(C)
  BY <1>3, <1>6 DEF IsABag
<1> QED
  BY <1>3, <1>4, <1>5, <1>7 DEF OneMoreIn

\* A packet opened in the current or the previous slot: the window of the slot decides.
LEMMA WindowNoted ==
  ASSUME TypeOK, NEW n \in Node, Distinct(peer[n]), NotedAt(n, peer[n], delivered, confirming),
         DeliveriesOK(net, delivered, confirming),
         NEW m \in net, NEW slot \in {"curr", "prev"}, NEW rx, NEW q, DataStage(n, m, slot, rx, q)
  PROVE  DeliveriesOK(net, delivered', confirming) /\ NotedAt(n, q, delivered', confirming)
<1>1. /\ m.type = "data" /\ m.from # n /\ peer[n][slot].valid /\ m.key = peer[n][slot].key
      /\ rx.valid /\ rx.key = m.key /\ q[slot] = rx
      /\ \A s \in Slots \ {slot} : q[s] = peer[n][s]
      /\ NotedIn(peer[n][slot], rx, m)
  BY DEF DataStage, Marked
<1>2. slot \in Slots /\ slot # "next" /\ {"curr", "prev"} \subseteq Slots /\ "next" \in Slots
  BY DEF Slots
<1>3. q.next = peer[n].next
  BY <1>1, <1>2
<1>4. CASE delivered' = delivered /\ rx.seen = peer[n][slot].seen
  <2>1. \A s \in Slots : SameWindow(peer[n][s], q[s])
    BY <1>1, <1>2, <1>4 DEF SameWindow
  <2> QED
    BY <1>4, <2>1, KeptNoted
<1>5. CASE /\ delivered' = delivered (+) SetToBag({m})
           /\ m.counter \notin peer[n][slot].seen /\ rx.seen = peer[n][slot].seen \union {m.counter}
  <2>1. IsABag(delivered)
    BY DEF DeliveriesOK
  <2>2. PICK C : C = delivered (+) SetToBag({m})
    OBVIOUS
  <2>3. /\ IsABag(C) /\ DOMAIN C = DOMAIN delivered \union {m}
        /\ \A x \in DOMAIN delivered \ {m} : C[x] = delivered[x]
        /\ C[m] = IF m \in DOMAIN delivered THEN delivered[m] + 1 ELSE 1
    <3>1. OneMoreIn(delivered, C, m)
      BY <2>1, <2>2, OneMore
    <3> QED
      BY <3>1 DEF OneMoreIn
  <2>4. m \in DOMAIN delivered => m \in confirming /\ delivered[m] = 1
    BY <1>1, <1>5 DEF NotedAt
  <2>5. C[m] <= (IF m \in confirming THEN 2 ELSE 1)
    BY <2>3, <2>4
  <2>6. DeliveriesOK(net, C, confirming)
    BY <1>1, <2>3, <2>5 DEF DeliveriesOK
  <2>7. \A s \in Slots \ {slot} : peer[n][s].valid => peer[n][s].key # m.key
    BY <1>1, <1>2 DEF Distinct
  <2>8. ASSUME NEW x \in DOMAIN C, x.from # n, NEW s \in {"curr", "prev"},
               q[s].valid, q[s].key = x.key
        PROVE  x.counter \in q[s].seen \/ (x \in confirming /\ C[x] = 1)
    <3>1. CASE x = m
      <4>1. s = slot
        BY <1>1, <1>2, <2>7, <2>8, <3>1
      <4> QED
        BY <1>1, <1>5, <3>1, <4>1
    <3>2. CASE x # m
      <4>1. x \in DOMAIN delivered /\ C[x] = delivered[x]
        BY <2>3, <3>2
      <4>2. CASE s = slot
        BY <1>1, <1>5, <2>8, <4>1, <4>2 DEF NotedAt
      <4>3. CASE s # slot
        BY <1>1, <1>2, <2>8, <4>1, <4>3 DEF NotedAt
      <4> QED
        BY <4>2, <4>3
    <3> QED
      BY <3>1, <3>2
  <2>9. ASSUME NEW x \in DOMAIN C, x.from # n, q.next.valid
        PROVE  q.next.key # x.key
    <3>1. CASE x = m
      BY <1>2, <1>3, <2>7, <2>9, <3>1
    <3>2. CASE x # m
      BY <1>3, <2>3, <2>9, <3>2 DEF NotedAt
    <3> QED
      BY <3>1, <3>2
  <2>10. NotedAt(n, q, C, confirming)
    BY <2>8, <2>9 DEF NotedAt
  <2> QED
    BY <1>5, <2>2, <2>6, <2>10
<1> QED
  BY <1>1, <1>4, <1>5 DEF NotedIn

\* A packet opened in the next slot: it is the first one under its key.
LEMMA ConfirmingNoted ==
  ASSUME TypeOK, NEW n \in Node, NotedAt(n, peer[n], delivered, confirming),
         DeliveriesOK(net, delivered, confirming),
         NEW m \in net, NEW rx, NEW q, DataStage(n, m, "next", rx, q)
  PROVE  DeliveriesOK(net, delivered', confirming') /\ NotedAt(n, q, delivered', confirming')
<1>1. /\ m.type = "data" /\ m.from # n /\ peer[n].next.valid /\ m.key = peer[n].next.key
      /\ rx.key = m.key /\ q.prev = peer[n].curr /\ q.curr = rx /\ ~q.next.valid
      /\ confirming' = confirming \union {m}
      /\ delivered' \in {delivered, delivered (+) SetToBag({m})}
  BY DEF DataStage, Marked
<1>2. \A x \in DOMAIN delivered : x.from # n => x.key # m.key
  BY <1>1 DEF NotedAt
<1>3. m \notin DOMAIN delivered
  BY <1>1, <1>2
<1>4. CASE delivered' = delivered
  <2>1. DeliveriesOK(net, delivered, confirming')
    BY <1>1, <1>3 DEF DeliveriesOK
  <2>2. NotedAt(n, q, delivered, confirming')
    BY <1>1, <1>2, <1>3 DEF NotedAt
  <2> QED
    BY <1>4, <2>1, <2>2
<1>5. CASE delivered' = delivered (+) SetToBag({m})
  <2>1. IsABag(delivered)
    BY DEF DeliveriesOK
  <2>2. PICK C : C = delivered (+) SetToBag({m})
    OBVIOUS
  <2>3. /\ IsABag(C) /\ DOMAIN C = DOMAIN delivered \union {m}
        /\ \A x \in DOMAIN delivered \ {m} : C[x] = delivered[x]
        /\ C[m] = 1
    <3>1. OneMoreIn(delivered, C, m)
      BY <2>1, <2>2, OneMore
    <3> QED
      BY <1>3, <3>1 DEF OneMoreIn
  <2>4. DeliveriesOK(net, C, confirming')
    BY <1>1, <1>3, <2>3 DEF DeliveriesOK
  <2>5. ASSUME NEW x \in DOMAIN C, x.from # n
        PROVE  /\ rx.key = x.key => x \in confirming' /\ C[x] = 1
               /\ q.prev.valid /\ q.prev.key = x.key =>
                    x.counter \in q.prev.seen \/ (x \in confirming' /\ C[x] = 1)
    <3>1. CASE x = m
      BY <1>1, <2>3, <3>1
    <3>2. CASE x # m
      <4>1. x \in DOMAIN delivered /\ C[x] = delivered[x]
        BY <2>3, <3>2
      <4> QED
        BY <1>1, <1>2, <2>5, <4>1 DEF NotedAt
    <3> QED
      BY <3>1, <3>2
  <2>6. NotedAt(n, q, C, confirming')
    BY <1>1, <2>5 DEF NotedAt
  <2> QED
    BY <1>5, <2>2, <2>4, <2>6
<1> QED
  BY <1>1, <1>4, <1>5

\* What one end is given changes nothing for the other.
LEMMA OtherNoted ==
  ASSUME NEW n \in Node, NEW o \in Node, o # n, NEW p, NEW m \in Messages, m.from # n,
         NotedAt(o, p, delivered, confirming), IsABag(delivered), Node = {n, o},
         delivered' \in {delivered, delivered (+) SetToBag({m})},
         confirming \subseteq confirming'
  PROVE  NotedAt(o, p, delivered', confirming')
<1>1. m.from = o
  BY MessageFields
<1>2. CASE delivered' = delivered
  BY <1>2 DEF NotedAt
<1>3. CASE delivered' = delivered (+) SetToBag({m})
  <2>1. PICK C : C = delivered (+) SetToBag({m})
    OBVIOUS
  <2>2. /\ DOMAIN C = DOMAIN delivered \union {m}
        /\ \A x \in DOMAIN delivered \ {m} : C[x] = delivered[x]
    <3>1. OneMoreIn(delivered, C, m)
      BY <2>1, OneMore
    <3> QED
      BY <3>1 DEF OneMoreIn
  <2>3. NotedAt(o, p, C, confirming')
    BY <1>1, <2>2 DEF NotedAt
  <2> QED
    BY <1>3, <2>1, <2>3
<1> QED
  BY <1>2, <1>3

\* A data packet is opened.
LEMMA DataNoted ==
  ASSUME TypeOK, Agreed, Noted, NEW n \in Node, NEW m \in net, ProcessData(n, m)
  PROVE  Noted'
<1>1. PICK slot \in Slots, rx \in Keypairs, q \in Peers : DataStage(n, m, slot, rx, q)
  BY DataStages
<1>2. PICK o \in Node : o # n /\ Node = {n, o}
  BY OtherEnd
<1>3. Distinct(peer[n])
  BY <1>2 DEF Agreed, Good, EndOK
<1>4. /\ NotedAt(n, peer[n], delivered, confirming) /\ NotedAt(o, peer[o], delivered, confirming)
      /\ DeliveriesOK(net, delivered, confirming)
  BY DEF Noted
<1>5. /\ m.from # n /\ peer' = [peer EXCEPT ![n] = q] /\ net' = net
      /\ delivered' \in {delivered, delivered (+) SetToBag({m})}
      /\ confirming' = IF slot = "next" THEN confirming \union {m} ELSE confirming
  BY <1>1 DEF DataStage, NotedIn
<1>6. DeliveriesOK(net, delivered', confirming') /\ NotedAt(n, q, delivered', confirming')
  <2>1. CASE slot = "next"
    <3>1. DataStage(n, m, "next", rx, q)
      BY <1>1, <2>1
    <3> QED
      BY <1>4, <3>1, ConfirmingNoted
  <2>2. CASE slot # "next"
    <3>1. slot \in {"curr", "prev"} /\ confirming' = confirming
      BY <1>5, <2>2 DEF Slots
    <3>2. DeliveriesOK(net, delivered', confirming) /\ NotedAt(n, q, delivered', confirming)
      BY <1>1, <1>3, <1>4, <3>1, WindowNoted
    <3> QED
      BY <3>1, <3>2
  <2> QED
    BY <2>1, <2>2
<1>7. NotedAt(o, peer[o], delivered', confirming')
  <2>1. m \in Messages /\ IsABag(delivered) /\ confirming \subseteq confirming'
    BY <1>4, <1>5, TypeParts DEF DeliveriesOK
  <2> QED
    BY <1>2, <1>4, <1>5, <2>1, OtherNoted
<1>8. peer'[n] = q /\ peer'[o] = peer[o]
  BY <1>2, <1>5, TypeParts
<1>9. \A x \in Node : NotedAt(x, peer'[x], delivered', confirming')
  BY <1>2, <1>6, <1>7, <1>8
<1> QED
  BY <1>5, <1>6, <1>9 DEF Noted

\* A packet is refused, or an end restarted: slots are only destroyed.
LEMMA DestroyingNoted ==
  ASSUME TypeOK, Noted, AgreementStep(net, net'), NEW n \in Node,
         (\E m \in net : RefuseData(n, m)) \/ Restart(n)
  PROVE  Noted'
<1>1. NotedAt(n, peer[n], delivered, confirming)
  BY DEF Noted
<1>2. CASE \E m \in net : RefuseData(n, m)
  <2>1. PICK m \in net : RefuseData(n, m)
    BY <1>2
  <2>2. PICK q \in Peers : /\ peer' = [peer EXCEPT ![n] = q]
                           /\ \A s \in Slots : q[s].valid => q[s] = peer[n][s]
    BY <2>1, RefuseTypes
  <2>3. NotedAt(n, q, delivered, confirming)
    BY <1>1, <2>2, KeptNoted DEF SameWindow
  <2>4. net \subseteq net' /\ UNCHANGED <<confirming, delivered>>
    BY <2>1 DEF RefuseData
  <2> QED
    BY <2>2, <2>3, <2>4, OneEndNoted
<1>3. CASE Restart(n)
  <2>1. PICK q : q = NewPeer(n \in Active)
    OBVIOUS
  <2>2. \A s \in Slots : ~q[s].valid
    BY <2>1, NewPeerType
  <2>3. NotedAt(n, q, delivered, confirming)
    BY <1>1, <2>2, KeptNoted DEF SameWindow
  <2>4. /\ net \subseteq net' /\ UNCHANGED <<confirming, delivered>>
        /\ peer' = [peer EXCEPT ![n] = q]
    BY <1>3, <2>1 DEF Restart
  <2> QED
    BY <2>3, <2>4, OneEndNoted
<1> QED
  BY <1>2, <1>3

\* Every step keeps what was noted.
LEMMA StepNoted == TypeOK /\ Agreed /\ Noted /\ [Next]_vars => Noted'
<1> SUFFICES ASSUME TypeOK, Agreed, Noted, [Next]_vars PROVE Noted'
  OBVIOUS
<1>1. AgreementStep(net, net')
  BY StepAgreed
<1>2. CASE Tick \/ UNCHANGED vars
  BY <1>2 DEF Tick, vars, Noted
<1>3. ASSUME NEW n \in Node, Output(n) \/ Timer(n) PROVE Noted'
  BY <1>1, <1>3, SendingNoted
<1>4. ASSUME NEW n \in Node, Receive(n) PROVE Noted'
  BY <1>1, <1>4, InitiationNoted, ResponseNoted, DataNoted, DestroyingNoted DEF Receive
<1>5. ASSUME NEW n \in Node, Restart(n) PROVE Noted'
  BY <1>1, <1>5, DestroyingNoted
<1> QED
  BY <1>2, <1>3, <1>4, <1>5 DEF Next

\* wireguard_check_replay lets no packet through a second time, except the one that made a
\* next keypair current.
THEOREM OnlyConfirmingRepeats == Spec => []RepeatedOnlyIfConfirming
<1>1. Init => Noted
  <2>1. DOMAIN EmptyBag = {} /\ IsABag(EmptyBag)
    BY DEF EmptyBag, SetToBag, IsABag
  <2>2. AnsweredIn({}) = {}
    BY DEF AnsweredIn
  <2> QED
    BY <2>1, <2>2 DEF Init, Noted, NotedAt, DeliveriesOK
<1>2. Noted => RepeatedOnlyIfConfirming
  BY DEF Noted, DeliveriesOK, RepeatedOnlyIfConfirming, Times, BagIn, BagToSet
<1> QED
  BY <1>1, <1>2, StepNoted, AlwaysAgreed, PTL DEF Spec

-----------------------------------------------------------------------------
(* What KeepsTrying rests on: the timer that finds an end without a        *)
(* session leaves it with an initiation no older than REKEY_TIMEOUT.       *)

\* peer->active is what wireguardif_connect made it.
ActiveKept == \A n \in Node : peer[n].active = (n \in Active)

\* A step at one end keeps the flag if it leaves the end's own as it is.
LEMMA OneEndActive ==
  ASSUME TypeOK, ActiveKept, NEW n \in Node, NEW q, peer' = [peer EXCEPT ![n] = q],
         q.active = peer[n].active
  PROVE  ActiveKept'
  BY TypeParts DEF ActiveKept

\* Every step keeps it.
LEMMA StepActive == TypeOK /\ ActiveKept /\ [Next]_vars => ActiveKept'
<1> SUFFICES ASSUME TypeOK, ActiveKept, [Next]_vars PROVE ActiveKept'
  OBVIOUS
<1>0. peer \in [Node -> Peers] /\ clock \in Nat /\ drawn + 1 \in Nat
  BY TypeParts, BoundsAssumption
<1>1. CASE Tick \/ UNCHANGED vars
  BY <1>1 DEF Tick, vars, ActiveKept
<1>2. ASSUME NEW n \in Node, Output(n) PROVE ActiveKept'
  <2>1. PICK ok \in BOOLEAN : peer' = [peer EXCEPT ![n] = AfterOutput(peer[n], ok)]
    BY <1>2 DEF Output
  <2>2. AfterOutput(peer[n], ok).active = peer[n].active
    BY <1>0, OutputKeepsTime
  <2> QED
    BY <2>1, <2>2, OneEndActive
<1>3. ASSUME NEW n \in Node, Timer(n) PROVE ActiveKept'
  <2> DEFINE p == DestroyIfUsedUp(ResetIfSilent(peer[n]))
  <2>1. PICK ok \in BOOLEAN :
          \/ peer' = [peer EXCEPT ![n] = AfterStart(AfterKeepalive(p, ok))]
          \/ peer' = [peer EXCEPT ![n] = AfterKeepalive(p, ok)]
    BY <1>3 DEF Timer
  <2>2. p \in Peers /\ p.active = peer[n].active
    BY <1>0, TrimmedType, TimerKeepsTime
  <2> HIDE DEF p
  <2>3. AfterKeepalive(p, ok) \in Peers /\ AfterKeepalive(p, ok).active = p.active
    BY <1>0, <2>2, AfterOutputType, OutputKeepsTime DEF AfterKeepalive
  <2>4. AfterStart(AfterKeepalive(p, ok)).active = p.active
    BY <2>3, TimerKeepsTime
  <2> QED
    BY <2>1, <2>2, <2>3, <2>4, OneEndActive
<1>4. ASSUME NEW n \in Node, NEW m \in net, ProcessInitiation(n, m) PROVE ActiveKept'
  <2> DEFINE p == [peer[n] EXCEPT !.greatest = m.time]
  <2> DEFINE new == AnsweringKeypair(m, drawn + 1)
  <2>1. m.time \in Nat /\ m.sender \in Nat
    BY <1>4, TypeParts, MessageFields DEF ProcessInitiation
  <2>2. p \in Peers /\ p.active = peer[n].active
    BY <1>0, <2>1 DEF Peers
  <2>3. new \in Keypairs
    BY <1>0, <2>1, NewKeypairType DEF AnsweringKeypair
  <2>4. peer' = [peer EXCEPT ![n] = StartSession(p, new)]
    BY <1>4 DEF ProcessInitiation
  <2> HIDE DEF p, new
  <2>5. StartSession(p, new).active = p.active
    BY <2>2, <2>3, SessionKeepsTime
  <2> QED
    BY <2>2, <2>4, <2>5, OneEndActive
<1>5. ASSUME NEW n \in Node, NEW m \in net, ProcessResponse(n, m) PROVE ActiveKept'
  <2>1. PICK ok \in BOOLEAN, p \in Peers, new \in Keypairs : ResponseStage(n, m, ok, p, new)
    BY <1>5, ResponseStages
  <2>2. p = StartSession(peer[n], new) /\ peer' = [peer EXCEPT ![n] = AfterOutput(p, ok)]
    BY <2>1 DEF ResponseStage
  <2>3. p.active = peer[n].active
    BY <1>0, <2>2, SessionKeepsTime
  <2>4. AfterOutput(p, ok).active = p.active
    BY OutputKeepsTime
  <2> QED
    BY <2>2, <2>3, <2>4, OneEndActive
<1>6. ASSUME NEW n \in Node, NEW m \in net, RefuseData(n, m) \/ ProcessData(n, m)
      PROVE  ActiveKept'
  BY <1>6, DataKeepsTime DEF ActiveKept
<1>7. ASSUME NEW n \in Node, Restart(n) PROVE ActiveKept'
  <2>1. peer' = [peer EXCEPT ![n] = NewPeer(n \in Active)]
    BY <1>7 DEF Restart
  <2>2. NewPeer(n \in Active).active = (n \in Active)
    BY DEF NewPeer, BlankPeer
  <2> QED
    BY <1>0, <2>1, <2>2 DEF ActiveKept
<1> QED
  BY <1>1, <1>2, <1>3, <1>4, <1>5, <1>6, <1>7 DEF Next, Receive

\* When the timer of an end that is to connect has run, the end has a session or an
\* initiation that is not older than REKEY_TIMEOUT.
TimerTries ==
  [][\A n \in Active : Timer(n) =>
       \/ peer'[n].curr.valid
       \/ peer'[n].initTx # 0 /\ clock' - peer'[n].initTx < RekeyTimeout]_vars

\* When the timer has run, the flag of the interface is wireguardif_peer_is_up, both ways.
TimerShows ==
  [][\A n \in Node : Timer(n) => (link'[n] <=> peer'[n].curr.valid \/ peer'[n].prev.valid)]_vars

\* wireguardif_tmr: whatever was lost, refused or destroyed before, no timer passes over an
\* end that is to connect and neither has a session nor asked for one lately.
THEOREM NoTimerGivesUp == Spec => TimerTries
<1>1. Init => ActiveKept
  BY DEF Init, ActiveKept, NewPeer, BlankPeer
<1>2. TypeOK /\ ActiveKept /\ [Next]_vars =>
        \A n \in Active : Timer(n) =>
          \/ peer'[n].curr.valid
          \/ peer'[n].initTx # 0 /\ clock' - peer'[n].initTx < RekeyTimeout
  <2> SUFFICES ASSUME TypeOK, ActiveKept, NEW n \in Active, Timer(n), ~peer'[n].curr.valid
               PROVE  peer'[n].initTx # 0 /\ clock' - peer'[n].initTx < RekeyTimeout
    OBVIOUS
  <2> DEFINE p == DestroyIfUsedUp(ResetIfSilent(peer[n]))
  <2>0. n \in Node /\ peer \in [Node -> Peers] /\ clock \in Nat /\ clock # 0 /\ RekeyTimeout \in Nat \ {0}
    BY TypeParts, BoundsAssumption, ActiveAssumption, LimitsAssumption
  <2>1. PICK ok \in BOOLEAN :
          /\ clock' = clock
          /\ \/ peer' = [peer EXCEPT ![n] = AfterStart(AfterKeepalive(p, ok))]
             \/ /\ ~ShouldSendInitiation(AfterKeepalive(p, ok))
                /\ peer' = [peer EXCEPT ![n] = AfterKeepalive(p, ok)]
    BY DEF Timer
  <2>2. p \in Peers /\ p.active
    BY <2>0, TrimmedType, TimerKeepsTime DEF ActiveKept
  <2> HIDE DEF p
  <2> DEFINE q == AfterKeepalive(p, ok)
  <2>3. q \in Peers /\ q.active
    BY <2>0, <2>2, AfterOutputType, OutputKeepsTime DEF AfterKeepalive
  <2> HIDE DEF q
  <2>4. CASE peer' = [peer EXCEPT ![n] = AfterStart(q)]
    <3>1. AfterStart(q).initTx = clock
      BY <2>3 DEF AfterStart, Peers
    <3>2. peer'[n].initTx = clock
      BY <2>0, <2>4, <3>1
    <3> QED
      BY <2>0, <2>1, <3>2
  <2>5. CASE ~ShouldSendInitiation(q) /\ peer' = [peer EXCEPT ![n] = q]
    <3>1. peer'[n] = q
      BY <2>0, <2>5
    <3>2. ~q.curr.valid /\ ~CanSendInitiation(q)
      BY <2>3, <2>5, <3>1 DEF ShouldSendInitiation
    <3>3. q.initTx \in Nat /\ q.initTx # 0 /\ ~(clock - q.initTx >= RekeyTimeout)
      BY <2>3, <3>2 DEF CanSendInitiation, Expired, Peers
    <3> QED
      BY <2>0, <2>1, <3>1, <3>3
  <2> QED
    BY <2>1, <2>4, <2>5 DEF q
<1> QED
  BY <1>1, <1>2, StepActive, TypeCorrect, PTL DEF Spec, TimerTries

\* wireguardif_tmr: the flag that the three other places only set is taken back in time.
THEOREM TimerShowsTheSlots == Spec => TimerShows
<1>1. TypeOK /\ SessionShowsUp /\ [Next]_vars =>
        \A n \in Node : Timer(n) => (link'[n] <=> peer'[n].curr.valid \/ peer'[n].prev.valid)
  <2> SUFFICES ASSUME TypeOK, SessionShowsUp, NEW n \in Node, Timer(n)
               PROVE  link'[n] <=> peer'[n].curr.valid \/ peer'[n].prev.valid
    OBVIOUS
  <2>1. PICK ok \in BOOLEAN, p \in Peers, q \in Peers : TimerStage(n, ok, p, q)
    BY TimerStages
  <2>2. /\ \A s \in Slots : p[s].valid => p[s] = peer[n][s]
        /\ q = AfterKeepalive(p, ok)
        /\ peer' \in {[peer EXCEPT ![n] = q], [peer EXCEPT ![n] = AfterStart(q)]}
        /\ link' = [link EXCEPT ![n] = StaysUp(q, link[n])]
    BY <2>1 DEF TimerStage
  <2>3. \A s \in Slots : q[s].valid => Continues(p[s], q[s])
    <3>1. CASE ShouldSendKeepalive(p)
      BY <2>2, <3>1, OutputKeeps DEF AfterKeepalive
    <3>2. CASE ~ShouldSendKeepalive(p)
      BY <2>2, <3>2 DEF AfterKeepalive, Continues
    <3> QED
      BY <3>1, <3>2
  <2>4. q.curr.valid \/ q.prev.valid => link[n]
    BY <2>2, <2>3 DEF SessionShowsUp, PeerIsUp, Continues, Slots
  <2>5. AfterStart(q).curr = q.curr /\ AfterStart(q).prev = q.prev
    BY DEF AfterStart, Peers
  <2>6. peer'[n].curr = q.curr /\ peer'[n].prev = q.prev
    BY <2>2, <2>5, TypeParts
  <2>7. link'[n] = StaysUp(q, link[n]) /\ link[n] \in BOOLEAN
    BY <2>2, TypeParts
  <2> QED
    BY <2>4, <2>6, <2>7 DEF StaysUp
<1> QED
  BY <1>1, TypeCorrect, LinkFollowsSlots, PTL DEF Spec, TimerShows
=============================================================================
