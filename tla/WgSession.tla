----------------------------- MODULE WgSession -----------------------------
(***************************************************************************)
(* Two ends of a tunnel, both running wireguard.c and wireguardif.c: the   *)
(* three keypair slots, the handshake slot, the periodic timer, and the    *)
(* three messages a session needs (initiation, response, data).  A message *)
(* once sent stays on the network: a delivery may come late, in any order, *)
(* repeatedly or never.  Either end may be restarted, with or without its  *)
(* clock.  Cryptography is symbolic: a key or ephemeral is a number that   *)
(* is drawn once, and a packet opens under the key it was sealed with.     *)
(***************************************************************************)
EXTENDS Integers, FiniteSets, Bags

CONSTANTS Node,             \* the two ends
          Active,           \* the ends that called wireguardif_connect
          RekeyTimeout, RekeyAfterTime, RejectAfterTime,   \* in units of time
          Keepalive,        \* keepalive_interval
          RekeyAfterMessages, RejectAfterMessages,
          MaxKeys,          \* bound: initiations and responses made
          MaxPackets,       \* bound: packets of the IP layer
          MaxClock,         \* bound: units of time
          MaxFaults         \* bound: sends that fail and restarts of an end

ASSUME NodeAssumption == \E a, b \in Node : a # b /\ Node = {a, b}
ASSUME ActiveAssumption == Active \subseteq Node
\* Times and limits are ordered as REKEY_* and REJECT_*; a longer keepalive_interval would make a difference negative.
ASSUME LimitsAssumption ==
  /\ {RekeyTimeout, RekeyAfterTime, RejectAfterTime, Keepalive} \subseteq Nat \ {0}
  /\ {RekeyAfterMessages, RejectAfterMessages} \subseteq Nat \ {0}
  /\ Keepalive + RekeyTimeout <= RejectAfterTime
ASSUME BoundsAssumption == {MaxKeys, MaxPackets, MaxClock, MaxFaults} \subseteq Nat

VARIABLES peer,        \* peer[n]: n's struct wireguard_peer for the other end
          link,        \* link[n]: NETIF_FLAG_LINK_UP of n's interface
          net,         \* every message sent so far
          clock,       \* wireguard_sys_now, in units
          epoch,       \* epoch[n]: when n's calendar clock read zero
          due,         \* ends whose timer has not run in this unit yet
          drawn,       \* keys and ephemerals drawn so far
          packets,     \* packets the IP layer has sent
          faults,      \* failed sends and restarts so far
          sealed,      \* history: data packets encrypted so far
          confirming,  \* history: data packets that made a next keypair current
          delivered    \* history: bag of the packets given to ip_input

vars == <<peer, link, net, clock, epoch, due, drawn, packets, faults, sealed, confirming, delivered>>

----------------------------------------------------------------------------
(* struct wireguard_keypair after keypair_destroy, and a new one.  The two
   symmetric keys are told apart by who uses them; `seen` is the replay
   window (module ReplayWindow), `rx` says that last_rx is not 0. *)

Destroyed ==
  [valid |-> FALSE, initiator |-> FALSE, local |-> 0, remote |-> 0, key |-> 0,
   born |-> 0, counter |-> 0, rx |-> FALSE, seen |-> {}]

NewKeypair(initiator, local, remote, key) ==
  [valid |-> TRUE, initiator |-> initiator, local |-> local, remote |-> remote, key |-> key,
   born |-> clock, counter |-> 0, rx |-> FALSE, seen |-> {}]

\* The handshake slot: only an initiation waiting for its response outlives the handler that filled it.
NoHandshake == [valid |-> FALSE, local |-> 0, ephemeral |-> 0]

\* wireguard_peer_init
BlankPeer ==
  [curr |-> Destroyed, prev |-> Destroyed, next |-> Destroyed, handshake |-> NoHandshake,
   greatest |-> 0, initTx |-> 0, lastTx |-> 0, sendHandshake |-> FALSE, active |-> FALSE]

\* wireguardif_add_peer, with no timestamp kept from an earlier life, and wireguardif_connect
NewPeer(active) == [BlankPeer EXCEPT !.active = active]

Slots == {"curr", "prev", "next"}

Init ==
  /\ peer = [n \in Node |-> NewPeer(n \in Active)]
  /\ link = [n \in Node |-> FALSE]
  /\ net = {}
  /\ clock = 1
  /\ epoch = [n \in Node |-> 0]
  /\ due = Node
  /\ drawn = 0
  /\ packets = 0
  /\ faults = 0
  /\ sealed = 0
  /\ confirming = {}
  /\ delivered = EmptyBag

Expired(time, age) == clock - time >= age

\* Variant: only the number of messages counts.
UsableByCount(k) == k.counter < RejectAfterMessages

Usable(k) == ~Expired(k.born, RejectAfterTime) /\ k.counter < RejectAfterMessages

----------------------------------------------------------------------------
(* Messages. *)

\* Variant: the clock is subtracted from its epoch.
InitiationBeforeEpoch(n, number) ==
  [type |-> "initiation", from |-> n, sender |-> number, ephemeral |-> number,
   time |-> epoch[n] - clock]

Initiation(n, number) ==
  [type |-> "initiation", from |-> n, sender |-> number, ephemeral |-> number,
   time |-> clock - epoch[n]]

Response(n, number, m) ==
  [type |-> "response", from |-> n, sender |-> number, receiver |-> m.sender,
   ephemeral |-> m.ephemeral, key |-> number]

Data(n, k, body) ==
  [type |-> "data", from |-> n, receiver |-> k.remote, key |-> k.key,
   counter |-> k.counter, initiator |-> k.initiator, body |-> body]

DataPackets == {m \in net : m.type = "data"}

----------------------------------------------------------------------------
(* wireguardif_output_to_peer: which slot it takes, what it puts on the
   network, and the peer it leaves behind; `ok` is udp_sendto's result. *)

SendSlot(p) == IF p.curr.valid /\ ~p.curr.initiator /\ ~p.curr.rx THEN "prev" ELSE "curr"

CanSeal(p) ==
  LET k == p[SendSlot(p)] IN k.valid /\ (k.initiator \/ k.rx) /\ Usable(k)

Sealed(n, p, body) == IF CanSeal(p) THEN {Data(n, p[SendSlot(p)], body)} ELSE {}

WantsRekey(k) ==
  \/ k.counter >= RekeyAfterMessages
  \/ k.initiator /\ Expired(k.born, RekeyAfterTime)

AfterOutput(p, ok) ==
  LET slot == SendSlot(p)
      k == [p[slot] EXCEPT !.counter = @ + 1]
  IN IF CanSeal(p)
       THEN [p EXCEPT ![slot] = k,
                      !.lastTx = IF ok THEN clock ELSE @,
                      !.sendHandshake = @ \/ WantsRekey(k)]
     ELSE IF p[slot].valid /\ (p[slot].initiator \/ p[slot].rx)
       THEN [p EXCEPT ![slot] = Destroyed]
     ELSE p

\* Variant: the keypair stays in its old slot too.
KeypairUpdateCopies(p, slot) ==
  IF slot = "next" THEN [p EXCEPT !.prev = p.curr, !.curr = p.next] ELSE p

\* keypair_update: the first packet under the next keypair makes it current.
KeypairUpdate(p, slot) ==
  IF slot = "next" THEN [p EXCEPT !.prev = p.curr, !.curr = p.next, !.next = Destroyed]
  ELSE p

\* add_new_keypair
AddNewKeypair(p, new) ==
  IF ~new.initiator THEN [p EXCEPT !.next = new, !.prev = Destroyed]
  ELSE IF p.next.valid THEN [p EXCEPT !.prev = p.next, !.next = Destroyed, !.curr = new]
  ELSE [p EXCEPT !.prev = p.curr, !.curr = new]

\* Variant: the handshake stays valid.
StartSessionAgain(p, new) == AddNewKeypair(p, new)

\* wireguard_start_session
StartSession(p, new) == AddNewKeypair([p EXCEPT !.handshake = NoHandshake], new)

\* A packet udp_sendto fails to send differs from a lost one only in last_tx.
Sends(messages, ok) ==
  /\ ok \/ (messages # {} /\ faults < MaxFaults)
  /\ faults' = IF ok THEN faults ELSE faults + 1

----------------------------------------------------------------------------
(* Packets of the IP layer, and the timer. *)

\* wireguardif_output for a packet to the other end
Output(n) ==
  /\ packets < MaxPackets
  /\ packets' = packets + 1
  /\ \E ok \in BOOLEAN :
       /\ Sends(Sealed(n, peer[n], "packet"), ok)
       /\ peer' = [peer EXCEPT ![n] = AfterOutput(@, ok)]
  /\ net' = net \union Sealed(n, peer[n], "packet")
  /\ sealed' = sealed + Cardinality(Sealed(n, peer[n], "packet"))
  /\ UNCHANGED <<link, clock, epoch, due, drawn, confirming, delivered>>

ResetIfSilent(p) ==
  IF p.curr.valid /\ Expired(p.curr.born, 3 * RejectAfterTime)
    THEN [p EXCEPT !.next = Destroyed, !.curr = Destroyed, !.prev = Destroyed] ELSE p

DestroyIfUsedUp(p) ==
  IF p.curr.valid /\ ~Usable(p.curr) THEN [p EXCEPT !.curr = Destroyed] ELSE p

ShouldSendKeepalive(p) == (p.curr.valid \/ p.prev.valid) /\ Expired(p.lastTx, Keepalive)

\* Variant: one attempt only.
CanSendInitiationOnce(p) == p.initTx = 0

CanSendInitiation(p) == p.initTx = 0 \/ Expired(p.initTx, RekeyTimeout)

ShouldSendInitiation(p) ==
  /\ CanSendInitiation(p)
  /\ \/ p.sendHandshake
     \/ p.curr.valid /\ ~p.curr.initiator /\ Expired(p.curr.born, RejectAfterTime - Keepalive)
     \/ ~p.curr.valid /\ p.active

AfterStart(p) ==
  [p EXCEPT !.handshake = [valid |-> TRUE, local |-> drawn + 1, ephemeral |-> drawn + 1],
            !.sendHandshake = FALSE, !.initTx = clock]

\* Variant: the previous keypair does not count.
StaysUpByCurrent(p, up) == up /\ p.curr.valid

StaysUp(p, up) == up /\ (p.curr.valid \/ p.prev.valid)

AfterKeepalive(p, ok) == IF ShouldSendKeepalive(p) THEN AfterOutput(p, ok) ELSE p

KeepaliveOf(n, p) == IF ShouldSendKeepalive(p) THEN Sealed(n, p, "keepalive") ELSE {}

\* wireguardif_tmr: expiry, keepalive, initiation and the state of the link, in this order
Timer(n) ==
  \E p \in {DestroyIfUsedUp(ResetIfSilent(peer[n]))}, ok \in BOOLEAN :
  \E q \in {AfterKeepalive(p, ok)}, keepalive \in {KeepaliveOf(n, p)} :
    /\ Sends(keepalive, ok)
    /\ \/ /\ ShouldSendInitiation(q)
          /\ drawn < MaxKeys
          /\ peer' = [peer EXCEPT ![n] = AfterStart(q)]
          /\ net' = net \union keepalive \union {Initiation(n, drawn + 1)}
          /\ drawn' = drawn + 1
       \/ /\ ~ShouldSendInitiation(q)
          /\ peer' = [peer EXCEPT ![n] = q]
          /\ net' = net \union keepalive
          /\ UNCHANGED drawn
    /\ sealed' = sealed + Cardinality(keepalive)
    /\ link' = [link EXCEPT ![n] = StaysUp(q, @)]
    /\ due' = due \ {n}
    /\ UNCHANGED <<clock, epoch, packets, confirming, delivered>>

----------------------------------------------------------------------------
(* wireguardif_network_rx: a message of the other end arrives at n. *)

\* Variant: an initiation that arrives again is as new as before.
IsNewOrEqual(p, m) == m.time >= p.greatest

IsNew(p, m) == m.time > p.greatest

\* Variant: the responder starts its session as an initiator.
AnsweringKeypairAsInitiator(m, number) == NewKeypair(TRUE, number, m.sender, number)

AnsweringKeypair(m, number) == NewKeypair(FALSE, number, m.sender, number)

\* An initiation newer than every one before: answer it and start a session as its responder.
ProcessInitiation(n, m) ==
  /\ m.type = "initiation" /\ m.from # n
  /\ IsNew(peer[n], m)
  /\ drawn < MaxKeys
  /\ drawn' = drawn + 1
  /\ peer' = [peer EXCEPT ![n] =
               StartSession([@ EXCEPT !.greatest = m.time], AnsweringKeypair(m, drawn + 1))]
  /\ net' = net \union {Response(n, drawn + 1, m)}
  /\ UNCHANGED <<link, clock, epoch, due, packets, faults, sealed, confirming, delivered>>

\* The response to the initiation in the handshake slot: start the session and confirm it.
ProcessResponse(n, m) ==
  LET p == StartSession(peer[n], NewKeypair(TRUE, m.receiver, m.sender, m.key)) IN
  /\ m.type = "response" /\ m.from # n
  /\ peer[n].handshake.valid
  /\ m.receiver = peer[n].handshake.local
  /\ m.ephemeral = peer[n].handshake.ephemeral
  /\ \E ok \in BOOLEAN :
       /\ Sends(Sealed(n, p, "keepalive"), ok)
       /\ peer' = [peer EXCEPT ![n] = AfterOutput(p, ok)]
  /\ net' = net \union Sealed(n, p, "keepalive")
  /\ sealed' = sealed + Cardinality(Sealed(n, p, "keepalive"))
  /\ link' = [link EXCEPT ![n] = TRUE]
  /\ UNCHANGED <<clock, epoch, due, drawn, packets, confirming, delivered>>

\* get_peer_keypair_for_idx: current before next before previous
SlotFor(p, index) ==
  IF p.curr.valid /\ p.curr.local = index THEN "curr"
  ELSE IF p.next.valid /\ p.next.local = index THEN "next"
  ELSE "prev"

Addressed(p, index) == \E s \in Slots : p[s].valid /\ p[s].local = index

\* A packet for a keypair that is used up only destroys the keypair, whoever sealed it.
RefuseData(n, m) ==
  LET slot == SlotFor(peer[n], m.receiver) IN
  /\ m.type = "data" /\ m.from # n
  /\ Addressed(peer[n], m.receiver)
  /\ ~Usable(peer[n][slot])
  /\ peer' = [peer EXCEPT ![n][slot] = Destroyed]
  /\ UNCHANGED <<link, net, clock, epoch, due, drawn, packets, faults, sealed, confirming, delivered>>

NearReject(k) == k.initiator /\ Expired(k.born, RejectAfterTime - Keepalive - RekeyTimeout)

\* Variant: duplicates are not looked for.
AcceptsAny(k, m) == m.body = "packet"

\* A keepalive has nothing for the IP layer, and its counter is not noted.
Accepts(k, m) == m.body = "packet" /\ m.counter \notin k.seen

\* wireguard_process_data_message.  After keypair_update the code goes on with the
\* slot it found, so for the first packet under `next` that is the destroyed one.
ProcessData(n, m) ==
  LET slot == SlotFor(peer[n], m.receiver)
      p == KeypairUpdate([peer[n] EXCEPT ![slot].rx = TRUE], slot)
      accepted == Accepts(p[slot], m)
  IN
  /\ m.type = "data" /\ m.from # n
  /\ Addressed(peer[n], m.receiver)
  /\ Usable(peer[n][slot])
  /\ m.key = peer[n][slot].key /\ m.initiator # peer[n][slot].initiator
  /\ peer' = [peer EXCEPT ![n] =
               [p EXCEPT ![slot].seen = IF accepted THEN @ \union {m.counter} ELSE @,
                         !.sendHandshake = @ \/ NearReject(p[slot])]]
  /\ link' = [link EXCEPT ![n] = TRUE]
  /\ confirming' = IF slot = "next" THEN confirming \union {m} ELSE confirming
  /\ delivered' = IF accepted THEN delivered (+) SetToBag({m}) ELSE delivered
  /\ UNCHANGED <<net, clock, epoch, due, drawn, packets, faults, sealed>>

Receive(n) ==
  \E m \in net :
    ProcessInitiation(n, m) \/ ProcessResponse(n, m) \/ RefuseData(n, m) \/ ProcessData(n, m)

----------------------------------------------------------------------------
(* esp_wireguard_disconnect and a new start, or a reboot: everything in RAM
   is lost.  Without NTP the calendar clock starts again as well. *)
Restart(n) ==
  /\ faults < MaxFaults
  /\ faults' = faults + 1
  /\ peer' = [peer EXCEPT ![n] = NewPeer(n \in Active)]
  /\ link' = [link EXCEPT ![n] = FALSE]
  /\ \E start \in {epoch[n], clock - 1} : epoch' = [epoch EXCEPT ![n] = start]
  /\ UNCHANGED <<net, clock, due, drawn, packets, sealed, confirming, delivered>>

\* A unit of time is much longer than the timer's 400 ms: every timer runs in it.
Tick ==
  /\ clock < MaxClock
  /\ due = {}
  /\ clock' = clock + 1
  /\ due' = Node
  /\ UNCHANGED <<peer, link, net, epoch, drawn, packets, faults, sealed, confirming, delivered>>

Next ==
  \/ Tick
  \/ \E n \in Node : Output(n) \/ Timer(n) \/ Receive(n) \/ Restart(n)

Fairness == WF_vars(Tick) /\ \A n \in Node : WF_vars(Timer(n))

Spec == Init /\ [][Next]_vars /\ Fairness

----------------------------------------------------------------------------
(* Properties. *)

Keypairs == [valid : BOOLEAN, initiator : BOOLEAN, local : Nat, remote : Nat, key : Nat,
             born : Nat, counter : Nat, rx : BOOLEAN, seen : SUBSET Nat]

Messages ==
  [type : {"initiation"}, from : Node, sender : Nat, ephemeral : Nat, time : Nat]
    \union
  [type : {"response"}, from : Node, sender : Nat, receiver : Nat, ephemeral : Nat, key : Nat]
    \union
  [type : {"data"}, from : Node, receiver : Nat, key : Nat, counter : Nat,
   initiator : BOOLEAN, body : {"packet", "keepalive"}]

\* The slots, the messages and the clocks hold what their C types and the bounds say.
TypeOK ==
  /\ peer \in [Node -> [curr : Keypairs, prev : Keypairs, next : Keypairs,
                        handshake : [valid : BOOLEAN, local : Nat, ephemeral : Nat],
                        greatest : Nat, initTx : Nat, lastTx : Nat,
                        sendHandshake : BOOLEAN, active : BOOLEAN]]
  /\ link \in [Node -> BOOLEAN]
  /\ net \subseteq Messages
  /\ clock \in 1..(MaxClock + 1)
  /\ epoch \in [Node -> Nat] /\ \A n \in Node : epoch[n] < clock
  /\ due \subseteq Node
  /\ drawn \in 0..MaxKeys
  /\ packets \in 0..MaxPackets
  /\ faults \in 0..MaxFaults
  /\ sealed \in Nat
  /\ confirming \subseteq DataPackets

Held(n) == {k \in {peer[n][s] : s \in Slots} : k.valid}

\* wireguard_encrypt_packet never uses a counter twice under one key, although keypairs are
\* copied from slot to slot, responses arrive again and a restarted end starts from nothing.
NonceUsedOnce ==
  Cardinality({<<m.key, m.initiator, m.counter>> : m \in DataPackets}) = sealed

\* Two keypairs with one key belong to the two ends, in opposite roles, and name each
\* other's index: what get_peer_keypair_for_idx finds is what the other end meant.
KeypairsMatch ==
  \A n, o \in Node : \A k \in Held(n), l \in Held(o) :
    k.key = l.key => IF n = o THEN k = l
                     ELSE k.initiator # l.initiator /\ k.local = l.remote /\ k.remote = l.local

\* An initiation that arrives again is answered again only by an end that lost
\* greatest_timestamp in a restart.
AnsweredOnce ==
  \A m \in net : m.type = "initiation" =>
    Cardinality({r \in net : r.type = "response" /\ r.ephemeral = m.ephemeral}) <= 1 + faults

Times(m) == IF BagIn(m, delivered) THEN delivered[m] ELSE 0

\* wireguard_check_replay lets no packet through a second time, except the one that made a
\* next keypair current: its counter is noted in the slot it has just left.
RepeatedOnlyIfConfirming ==
  \A m \in DataPackets :
    Times(m) <= IF m \in confirming THEN 2 ELSE 1

\* wireguardif_process_data_message means to drop duplicates ("Check for packet replay /
\* dupes"): no packet reaches the IP layer twice.
DeliveredOnce == \A m \in DataPackets : Times(m) <= 1

\* wireguardif_peer_is_up
PeerIsUp(n) == peer[n].curr.valid \/ peer[n].prev.valid

\* While the current or the previous keypair is valid the interface is up: the timer and
\* the three places that set the flag never disagree with wireguardif_peer_is_up.
SessionShowsUp ==
  \A n \in Node : PeerIsUp(n) => link[n]

\* Once the timer has run, the current keypair is younger than REJECT_AFTER_TIME, wherever
\* it came from; so should_reset_peer, which waits three times as long, never fires.
CurrNeverStale ==
  \A n \in Node : peer[n].curr.valid =>
    clock < peer[n].curr.born + RejectAfterTime + (IF n \in due THEN 1 ELSE 0)

\* The key agreement of the two ends, read off the messages sent so far.
Responses == {m \in net : m.type = "response"}
Offered   == {r.key : r \in Responses}
Opened    == {r.key : r \in {r \in Responses : \E d \in DataPackets : d.key = r.key /\ d.from # r.from}}
Answered  == {r.key : r \in {r \in Responses : \E d \in DataPackets : d.key = r.key /\ d.from = r.from}}

Agreement ==
  INSTANCE KeyAgreement WITH
    Keys <- 1..MaxKeys, offered <- Offered, opened <- Opened, answered <- Answered

\* Slots, retries and the network implement the key agreement: a responder seals nothing
\* under a key whose initiator has not proved that it has it.
RefinesKeyAgreement == Agreement!Spec

\* An end that is to connect and has no session does not give up: however its messages are
\* lost, again and again its last initiation is no older than REKEY_TIMEOUT.
KeepsTrying ==
  \A n \in Active :
    []<>(\/ peer[n].curr.valid
         \/ peer[n].initTx # 0 /\ ~Expired(peer[n].initTx, RekeyTimeout)
         \/ drawn = MaxKeys)
=============================================================================
