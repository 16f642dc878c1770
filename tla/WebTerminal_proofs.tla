------------------------- MODULE WebTerminal_proofs -------------------------
(***************************************************************************)
(* Every browser at the terminal is in the table once, for every number of *)
(* sockets that the table has room for, and so its screen is complete; and *)
(* one page, however often it connects, shows what it is sent once.        *)
(***************************************************************************)
EXTENDS WebTerminal, TLAPS, FiniteSetTheorems, WellFoundedInduction

\* The jobs wait in the order of their numbers.
JobsInOrder ==
  /\ Len(jobs) <= queued
  /\ \A k \in 1..Len(jobs) : jobs[k] = Run + k

\* A terminal that has lost nothing is listed.
TerminalListed ==
  \A fd \in Socket : conn[fd] = "ws" /\ fd \notin missed =>
    ws_mutex /\ fd \in Listed /\ since[fd] <= Run

Inv == TypeOK /\ ListedOnce /\ JobsInOrder /\ TerminalListed /\ ScreenComplete

-----------------------------------------------------------------------------
(* The table.                                                              *)

\* A set of slots has a first one.
LEMMA FirstSlot ==
  ASSUME NEW S \in SUBSET Nat, S # {}
  PROVE  \E i \in S : \A j \in S : i <= j
<1> DEFINE R == {ss \in Nat \X Nat : ss[1] < ss[2]}
<1>1. IsWellFoundedOn(R, Nat)
  BY NatLessThanWellFounded DEF OpToRel
<1> HIDE DEF R
<1>2. PICK i \in S : \A j \in S : <<j, i>> \notin R
  BY <1>1, WFMin
<1>3. \A j \in S : ~(j < i)
  BY <1>2 DEF R
<1> QED
  BY <1>3

\* What is replaced is one slot that holds the descriptor looked for.
LEMMA ReplacedSlot ==
  ASSUME NEW x, NEW y
  PROVE  \/ FirstReplaced(x, y) = ws_clients /\ \A i \in Slots : ws_clients[i] # x
         \/ \E i \in Slots : ws_clients[i] = x /\ FirstReplaced(x, y) = [ws_clients EXCEPT ![i] = y]
<1> DEFINE at    == {i \in Slots : ws_clients[i] = x}
           first == CHOOSE i \in at : \A j \in at : i <= j
<1>1. CASE at = {}
  BY <1>1 DEF FirstReplaced
<1>2. CASE at # {}
  <2>1. \E i \in at : \A j \in at : i <= j
    <3>1. at \in SUBSET Nat
      BY TableAssumption DEF Slots
    <3> HIDE DEF at
    <3> QED
      BY <1>2, <3>1, FirstSlot
  <2>2. first \in at
    BY <2>1
  <2>3. FirstReplaced(x, y) = [ws_clients EXCEPT ![first] = y]
    BY <1>2 DEF FirstReplaced
  <2> HIDE DEF first
  <2> QED
    BY <2>2, <2>3
<1> QED
  BY <1>1, <1>2

\* As many descriptors as slots: one that is not in the table finds a slot.
LEMMA RoomForOne ==
  ASSUME TypeOK, ListedOnce, NEW fd \in Socket, fd \notin Listed
  PROVE  \E i \in Slots : ws_clients[i] = None
<1> SUFFICES ASSUME \A i \in Slots : ws_clients[i] # None PROVE FALSE
  OBVIOUS
<1> DEFINE others == Socket \ {fd}
<1>1. \A i \in Slots : ws_clients[i] \in others
  BY DEF TypeOK, Listed
<1>2. ws_clients \in [Slots -> others]
  BY <1>1 DEF TypeOK
<1>3. /\ IsFiniteSet(others) /\ Cardinality(others) = Cardinality(Socket) - 1
      /\ IsFiniteSet(Slots) /\ Cardinality(Slots) = MAX_WS_CLIENTS
  <2>1. IsFiniteSet(others) /\ Cardinality(others) = Cardinality(Socket) - 1
    BY TableAssumption, FS_RemoveElement
  <2>2. MAX_WS_CLIENTS \in Nat /\ 1 \in Int /\ MAX_WS_CLIENTS \in Int
    BY TableAssumption
  <2>3. IsFiniteSet(1..MAX_WS_CLIENTS) /\ Cardinality(1..MAX_WS_CLIENTS) = MAX_WS_CLIENTS
    BY <2>2, FS_Interval
  <2> QED
    BY <2>1, <2>3 DEF Slots
<1>4. Cardinality(others) < Cardinality(Slots)
  BY <1>3, TableAssumption, FS_CardinalityType
<1>5. \E i, j \in Slots : i # j /\ ws_clients[i] = ws_clients[j]
  BY <1>2, <1>3, <1>4, FS_PigeonHole
<1> QED
  BY <1>5 DEF ListedOnce

\* A listed descriptor is sent a job once.
LEMMA OneCopy ==
  ASSUME TypeOK, ListedOnce, NEW fd \in Listed
  PROVE  Copies(fd) = <<Head(jobs)>>
<1>1. PICK i \in Slots : ws_clients[i] = fd
  BY DEF Listed
<1>2. fd # None
  BY DEF Listed
<1>3. {j \in Slots : ws_clients[j] = fd} = {i}
  BY <1>1, <1>2 DEF ListedOnce
<1>4. Cardinality({i}) = 1
  BY FS_Singleton
<1>5. Copies(fd) = [k \in 1..1 |-> Head(jobs)]
  BY <1>3, <1>4 DEF Copies
<1> QED
  BY <1>5
-----------------------------------------------------------------------------
(* What the invariant says of the pieces.                                  *)

\* Sequences are equal that are equal at every index.
LEMMA SameSequence ==
  ASSUME NEW S, NEW s \in Seq(S), NEW n \in Nat, NEW f \in [1..n -> S],
         Len(s) = n, \A k \in 1..n : s[k] = f[k]
  PROVE  s = f
<1>1. s \in [1..n -> S]
  OBVIOUS
<1> QED
  BY <1>1

\* A browser that is sent the next job has one more, in order.
LEMMA NextOnScreen ==
  ASSUME NEW s, NEW b \in Nat, NEW n \in Nat, s = [k \in 1..n |-> b + k]
  PROVE  s \o <<b + n + 1>> = [k \in 1..(n + 1) |-> b + k]
<1> DEFINE t == s \o <<b + n + 1>>
           f == [k \in 1..(n + 1) |-> b + k]
<1>1. s \in Seq(Nat) /\ Len(s) = n
  OBVIOUS
<1>2. t \in Seq(Nat) /\ Len(t) = n + 1 /\ \A k \in 1..(n + 1) : t[k] = IF k <= n THEN s[k] ELSE b + n + 1
  BY <1>1
<1>3. f \in [1..(n + 1) -> Nat]
  OBVIOUS
<1>4. \A k \in 1..(n + 1) : t[k] = f[k]
  <2> TAKE k \in 1..(n + 1)
  <2>1. f[k] = b + k
    OBVIOUS
  <2> HIDE DEF t, f
  <2>2. CASE k <= n
    BY <1>2, <2>1, <2>2
  <2>3. CASE k = n + 1
    BY <1>2, <2>1, <2>3
  <2> QED
    BY <2>2, <2>3
<1> HIDE DEF t, f
<1>5. t = f
  BY <1>2, <1>3, <1>4, SameSequence
<1> QED
  BY <1>5 DEF t, f
-----------------------------------------------------------------------------
(* The steps.                                                              *)

\* A job that is queued is the last in order.
LEMMA EnqueuedKeeps ==
  ASSUME TypeOK, JobsInOrder, Enqueued
  PROVE  jobs' \in Seq(Nat) /\ queued' \in Nat /\ JobsInOrder' /\ Run' = Run
<1>1. /\ queued' = queued + 1 /\ queued \in Nat /\ jobs \in Seq(Nat)
      /\ jobs' = Append(jobs, queued')
  BY DEF TypeOK, Enqueued
<1>2. /\ jobs' \in Seq(Nat) /\ Len(jobs') = Len(jobs) + 1 /\ Len(jobs) \in Nat
      /\ \A k \in 1..Len(jobs) : jobs'[k] = jobs[k]
      /\ jobs'[Len(jobs) + 1] = queued'
  BY <1>1
<1>3. Run' = Run
  BY <1>1, <1>2 DEF Run
<1>4. \A k \in 1..Len(jobs') : jobs'[k] = Run' + k
  <2> TAKE k \in 1..Len(jobs')
  <2>1. CASE k \in 1..Len(jobs)
    BY <1>2, <1>3, <2>1 DEF JobsInOrder
  <2>2. CASE k = Len(jobs) + 1
    BY <1>1, <1>2, <1>3, <2>2 DEF Run
  <2> QED
    BY <1>2, <2>1, <2>2
<1> QED
  BY <1>1, <1>2, <1>3, <1>4 DEF JobsInOrder

\* A connection that is accepted, displaced or lost is no terminal yet, or no
\* longer; its descriptor may stay in the table.
LEMMA ConnectionKeeps ==
  ASSUME Inv, NEW fd \in Socket, NEW kind \in {"closed", "http"}, Becomes(fd, kind),
         UNCHANGED <<server, ws_mutex, ws_clients, jobs, queued, since>>, conns' \in Nat
  PROVE  Inv'
<1>1. TypeOK'
  BY DEF Inv, TypeOK, Becomes
<1>2. ListedOnce' /\ JobsInOrder' /\ Run' = Run /\ Listed' = Listed
  BY DEF Inv, ListedOnce, JobsInOrder, Run, Listed
<1>3. ASSUME NEW other \in Socket, conn'[other] = "ws", other \notin missed'
      PROVE  other # fd /\ conn[other] = "ws" /\ other \notin missed /\ got'[other] = got[other]
  BY <1>3 DEF Inv, TypeOK, Becomes
<1>4. TerminalListed'
  BY <1>2, <1>3 DEF Inv, TerminalListed
<1>5. ScreenComplete'
  BY <1>2, <1>3 DEF Inv, ScreenComplete
<1> QED
  BY <1>1, <1>2, <1>4, <1>5 DEF Inv

\* A job is run: whoever is listed and sent it has one more on the screen.
LEMMA BroadcastKeeps ==
  ASSUME Inv, Broadcast
  PROVE  Inv'
<1>1. /\ jobs \in Seq(Nat) /\ jobs # <<>> /\ jobs' = Tail(jobs) /\ queued \in Nat /\ queued' = queued
      /\ Len(jobs) <= queued
  BY DEF Inv, TypeOK, JobsInOrder, Broadcast
<1>2. /\ jobs' \in Seq(Nat) /\ Len(jobs) \in Nat /\ Len(jobs) > 0 /\ Len(jobs') = Len(jobs) - 1
      /\ Head(jobs) = jobs[1] /\ \A k \in 1..Len(jobs') : jobs'[k] = jobs[k + 1]
  BY <1>1
<1>3. Run \in Nat /\ Run' = Run + 1 /\ Head(jobs) = Run + 1 /\ Head(jobs) \in Nat
  BY <1>1, <1>2 DEF Inv, JobsInOrder, Run
<1>4. JobsInOrder'
  <2>1. \A k \in 1..Len(jobs') : jobs'[k] = Run' + k
    <3> TAKE k \in 1..Len(jobs')
    <3>1. k + 1 \in 1..Len(jobs) /\ jobs'[k] = jobs[k + 1]
      BY <1>2
    <3>2. jobs[k + 1] = Run + (k + 1)
      BY <3>1 DEF Inv, JobsInOrder
    <3> QED
      BY <1>3, <3>1, <3>2
  <2>2. Len(jobs') <= queued'
    BY <1>1, <1>2
  <2> QED
    BY <2>1, <2>2 DEF JobsInOrder
<1>5. CASE ~ws_mutex
  <2>1. UNCHANGED <<server, ws_mutex, ws_clients, conn, got, since, missed, conns>>
    BY <1>5 DEF Broadcast
  <2>2. \A fd \in Socket : ~(conn'[fd] = "ws" /\ fd \notin missed')
    BY <1>5, <2>1 DEF Inv, TerminalListed
  <2>3. TypeOK' /\ ListedOnce'
    BY <1>1, <1>2, <2>1 DEF Inv, TypeOK, ListedOnce
  <2> QED
    BY <1>4, <2>2, <2>3 DEF Inv, TerminalListed, ScreenComplete
<1>6. CASE ws_mutex
  <2>1. PICK failed \in SUBSET Listed :
          /\ ws_clients' = [i \in Slots |->
                              IF ws_clients[i] \in failed THEN None ELSE ws_clients[i]]
          /\ got' = [fd \in Socket |-> IF fd \in Listed \ failed
                                       THEN got[fd] \o Copies(fd) ELSE got[fd]]
          /\ missed' = missed \cup failed
    BY <1>6 DEF Broadcast
  <2>2. UNCHANGED <<server, ws_mutex, conn, since, conns>>
    BY DEF Broadcast
  <2>3. \A fd \in Listed : fd \in Socket /\ Copies(fd) = <<Run + 1>>
    BY <1>3, OneCopy DEF Inv, TypeOK, Listed
  <2>4. TypeOK'
    <3>1. got' \in [Socket -> Seq(Nat)]
      <4>1. ASSUME NEW fd \in Listed PROVE got[fd] \o Copies(fd) \in Seq(Nat)
        <5>1. Run + 1 \in Nat /\ <<Run + 1>> \in Seq(Nat)
          BY <1>3
        <5>2. got[fd] \in Seq(Nat)
          BY <2>3 DEF Inv, TypeOK
        <5>3. got[fd] \o <<Run + 1>> \in Seq(Nat)
          BY <5>1, <5>2
        <5> QED
          BY <2>3, <5>3
      <4> QED
        BY <2>1, <4>1 DEF Inv, TypeOK
    <3>2. missed' \subseteq Socket
      BY <2>1, <2>3 DEF Inv, TypeOK
    <3> QED
      BY <1>1, <1>2, <2>1, <2>2, <3>1, <3>2 DEF Inv, TypeOK
  <2>5. ListedOnce'
    BY <2>1 DEF Inv, ListedOnce
  <2>6. ASSUME NEW fd \in Socket, conn'[fd] = "ws", fd \notin missed'
        PROVE  /\ fd \in Listed' /\ since'[fd] <= Run'
               /\ got'[fd] = [k \in 1..(Run' - since'[fd]) |-> since'[fd] + k]
    <3>1. conn[fd] = "ws" /\ fd \notin missed /\ fd \notin failed /\ since'[fd] = since[fd]
      BY <2>1, <2>2, <2>6
    <3>2. fd \in Listed /\ since[fd] <= Run /\ since[fd] \in Nat
      BY <3>1 DEF Inv, TerminalListed, TypeOK
    <3>3. got[fd] = [k \in 1..(Run - since[fd]) |-> since[fd] + k]
      BY <3>1 DEF Inv, ScreenComplete
    <3>4. got'[fd] = got[fd] \o <<Run + 1>>
      BY <2>1, <2>3, <3>1, <3>2
    <3>5. fd \in Listed'
      <4>1. PICK i \in Slots : ws_clients[i] = fd
        BY <3>2 DEF Listed
      <4>2. ws_clients'[i] = fd
        BY <2>1, <3>1, <4>1
      <4> QED
        BY <3>2, <4>2 DEF Listed
    <3>6. Run - since[fd] \in Nat /\ since[fd] + (Run - since[fd]) + 1 = Run + 1
          /\ (Run - since[fd]) + 1 = Run' - since'[fd]
      BY <1>3, <3>1, <3>2
    <3> DEFINE n == Run - since[fd]
    <3>7. got[fd] \o <<since[fd] + n + 1>> = [k \in 1..(n + 1) |-> since[fd] + k]
      <4> HIDE DEF n
      <4>1. n \in Nat /\ got[fd] = [k \in 1..n |-> since[fd] + k]
        BY <3>3, <3>6 DEF n
      <4> DEFINE b == since[fd]
                 s == got[fd]
      <4>2. b \in Nat /\ s = [k \in 1..n |-> b + k]
        BY <3>2, <4>1
      <4> HIDE DEF b, s
      <4>3. s \o <<b + n + 1>> = [k \in 1..(n + 1) |-> b + k]
        BY <4>1, <4>2, NextOnScreen
      <4> QED
        BY <4>3 DEF b, s
    <3>8. n + 1 = Run' - since'[fd] /\ since[fd] + n + 1 = Run + 1 /\ since'[fd] <= Run'
      BY <1>3, <3>1, <3>2, <3>6
    <3> HIDE DEF n
    <3>9. got'[fd] = [k \in 1..(Run' - since'[fd]) |-> since'[fd] + k]
      BY <3>1, <3>4, <3>7, <3>8
    <3> QED
      BY <3>5, <3>8, <3>9
  <2> QED
    BY <1>4, <1>6, <2>2, <2>4, <2>5, <2>6 DEF Inv, TerminalListed, ScreenComplete
<1> QED
  BY <1>5, <1>6

\* ws_post_handshake_cb: the terminal is listed, and its screen starts here.
LEMMA HandshakeKeeps ==
  ASSUME Inv, NEW fd \in Socket, PostHandshake(fd)
  PROVE  Inv'
<1>1. /\ ws_mutex /\ ws_clients' = Added(fd) /\ Becomes(fd, "ws")
      /\ since' = [since EXCEPT ![fd] = Run]
      /\ UNCHANGED <<server, ws_mutex, conns>>
  BY DEF PostHandshake
<1>2. jobs' \in Seq(Nat) /\ queued' \in Nat /\ JobsInOrder' /\ Run' = Run
  <2>1. CASE Enqueued
    BY <2>1, EnqueuedKeeps DEF Inv
  <2>2. CASE UNCHANGED <<jobs, queued>>
    BY <2>2 DEF Inv, TypeOK, JobsInOrder, Run
  <2> QED
    BY <2>1, <2>2 DEF PostHandshake
<1>3. Run \in Nat
  BY DEF Inv, TypeOK, JobsInOrder, Run
<1>4. /\ ws_clients' \in [Slots -> Socket \cup {None}] /\ ListedOnce'
      /\ Listed \subseteq Listed' /\ fd \in Listed'
  <2>1. CASE fd \in Listed
    BY <1>1, <2>1 DEF Added, Inv, TypeOK, ListedOnce, Listed
  <2>2. CASE fd \notin Listed
    <3>1. \E i \in Slots : ws_clients[i] = None
      BY <2>2, RoomForOne DEF Inv
    <3>2. PICK i \in Slots : ws_clients[i] = None /\ ws_clients' = [ws_clients EXCEPT ![i] = fd]
      BY <1>1, <2>2, <3>1, ReplacedSlot DEF Added
    <3>3. \A j \in Slots : ws_clients[j] # fd
      BY <2>2, NoneAssumption DEF Listed
    <3>4. /\ ws_clients'[i] = fd /\ fd # None
          /\ \A j \in Slots : j # i => ws_clients'[j] = ws_clients[j]
      BY <3>2, NoneAssumption DEF Inv, TypeOK
    <3>5. ws_clients' \in [Slots -> Socket \cup {None}]
      BY <3>2 DEF Inv, TypeOK
    <3>6. ListedOnce'
      BY <3>3, <3>4 DEF Inv, ListedOnce
    <3>7. Listed \subseteq Listed' /\ fd \in Listed'
      BY <3>2, <3>4 DEF Listed
    <3> QED
      BY <3>5, <3>6, <3>7
  <2> QED
    BY <2>1, <2>2
<1>5. TypeOK'
  BY <1>1, <1>2, <1>3, <1>4 DEF Inv, TypeOK, Becomes
<1>6. ASSUME NEW other \in Socket, other # fd, conn'[other] = "ws", other \notin missed'
      PROVE  /\ conn[other] = "ws" /\ other \notin missed /\ got'[other] = got[other]
             /\ since'[other] = since[other]
  BY <1>1, <1>6 DEF Inv, TypeOK, Becomes
<1>7. got'[fd] = <<>> /\ since'[fd] = Run
  BY <1>1 DEF Inv, TypeOK, Becomes
<1>8. TerminalListed'
  <2>1. ASSUME NEW other \in Socket, conn'[other] = "ws", other \notin missed'
        PROVE  ws_mutex' /\ other \in Listed' /\ since'[other] <= Run'
    <3>1. CASE other = fd
      BY <1>1, <1>2, <1>3, <1>4, <1>7, <3>1
    <3>2. CASE other # fd
      BY <1>1, <1>2, <1>4, <1>6, <2>1, <3>2 DEF Inv, TerminalListed
    <3> QED
      BY <3>1, <3>2
  <2> QED
    BY <2>1 DEF TerminalListed
<1>9. ScreenComplete'
  <2>1. ASSUME NEW other \in Socket, conn'[other] = "ws", other \notin missed'
        PROVE  got'[other] = [k \in 1..(Run' - since'[other]) |-> since'[other] + k]
    <3>1. CASE other = fd
      <4>1. Run' - since'[fd] = 0
        BY <1>2, <1>3, <1>7
      <4>2. [k \in 1..0 |-> since'[fd] + k] = <<>>
        OBVIOUS
      <4> QED
        BY <1>7, <3>1, <4>1, <4>2
    <3>2. CASE other # fd
      BY <1>2, <1>6, <2>1, <3>2 DEF Inv, ScreenComplete
    <3> QED
      BY <3>1, <3>2
  <2> QED
    BY <2>1 DEF ScreenComplete
<1> QED
  BY <1>2, <1>4, <1>5, <1>8, <1>9 DEF Inv

\* ws_handler, the connection closed: its entry goes, no other terminal's does.
LEMMA ClosedKeeps ==
  ASSUME Inv, NEW fd \in Socket, WsClosed(fd)
  PROVE  Inv'
<1>1. /\ ws_clients' = FirstReplaced(fd, None) /\ Becomes(fd, "closed")
      /\ UNCHANGED <<server, ws_mutex, jobs, queued, since, conns>>
  BY DEF WsClosed, Removed
<1>2. /\ ws_clients' \in [Slots -> Socket \cup {None}] /\ ListedOnce'
      /\ \A other \in Listed : other # fd => other \in Listed'
  <2>1. CASE UNCHANGED ws_clients
    BY <2>1 DEF Inv, TypeOK, ListedOnce, Listed
  <2>2. CASE ~UNCHANGED ws_clients
    <3>1. PICK i \in Slots : ws_clients[i] = fd /\ ws_clients' = [ws_clients EXCEPT ![i] = None]
      BY <1>1, <2>2, ReplacedSlot
    <3>2. /\ ws_clients'[i] = None
          /\ \A j \in Slots : j # i => ws_clients'[j] = ws_clients[j]
      BY <3>1 DEF Inv, TypeOK
    <3>3. ws_clients' \in [Slots -> Socket \cup {None}]
      BY <3>1 DEF Inv, TypeOK
    <3>4. ListedOnce'
      BY <3>2 DEF Inv, ListedOnce
    <3>5. \A other \in Listed : other # fd => other \in Listed'
      BY <3>1, <3>2 DEF Listed
    <3> QED
      BY <3>3, <3>4, <3>5
  <2> QED
    BY <2>1, <2>2
<1>3. TypeOK'
  BY <1>1, <1>2 DEF Inv, TypeOK, Becomes
<1>4. JobsInOrder' /\ Run' = Run
  BY <1>1 DEF Inv, JobsInOrder, Run
<1>5. ASSUME NEW other \in Socket, conn'[other] = "ws", other \notin missed'
      PROVE  other # fd /\ conn[other] = "ws" /\ other \notin missed /\ got'[other] = got[other]
  BY <1>1, <1>5 DEF Inv, TypeOK, Becomes
<1>6. TerminalListed'
  BY <1>1, <1>2, <1>4, <1>5 DEF Inv, TerminalListed
<1>7. ScreenComplete'
  BY <1>1, <1>4, <1>5 DEF Inv, ScreenComplete
<1> QED
  BY <1>2, <1>3, <1>4, <1>6, <1>7 DEF Inv

\* Before the server runs nobody is listed, connected or owed anything.
LEMMA InitHolds == Init => Inv
<1> SUFFICES ASSUME Init PROVE Inv
  OBVIOUS
<1>1. TypeOK
  <2>1. <<>> \in Seq(Nat)
    OBVIOUS
  <2> QED
    BY <2>1, BoundsAssumption DEF Init, TypeOK
<1>2. ListedOnce /\ TerminalListed /\ ScreenComplete
  BY DEF Init, ListedOnce, TerminalListed, ScreenComplete
<1>3. JobsInOrder
  BY DEF Init, JobsInOrder, Run
<1> QED
  BY <1>1, <1>2, <1>3 DEF Inv

\* Every step keeps the invariant.
LEMMA NextKeeps == Inv /\ [Next]_vars => Inv'
<1> SUFFICES ASSUME Inv, [Next]_vars PROVE Inv'
  OBVIOUS
<1>1. CASE HttpdStart
  BY <1>1 DEF HttpdStart, Inv, TypeOK, ListedOnce, JobsInOrder, TerminalListed, ScreenComplete,
              Run, Listed
<1>2. CASE InitClients
  <2>1. TypeOK' /\ ListedOnce'
    BY <1>2 DEF InitClients, Inv, TypeOK, ListedOnce
  <2>2. JobsInOrder'
    BY <1>2 DEF InitClients, Inv, JobsInOrder, Run
  <2>3. \A fd \in Socket : ~(conn'[fd] = "ws" /\ fd \notin missed')
    BY <1>2 DEF InitClients, Inv, TerminalListed
  <2> QED
    BY <2>1, <2>2, <2>3 DEF Inv, TerminalListed, ScreenComplete
<1>3. CASE QueueBroadcast
  <2>1. jobs' \in Seq(Nat) /\ queued' \in Nat /\ JobsInOrder' /\ Run' = Run
    BY <1>3, EnqueuedKeeps DEF Inv, QueueBroadcast
  <2>2. UNCHANGED <<server, ws_mutex, ws_clients, conn, got, since, missed, conns>>
    BY <1>3 DEF QueueBroadcast
  <2> QED
    BY <2>1, <2>2 DEF Inv, TypeOK, ListedOnce, TerminalListed, ScreenComplete, Listed
<1>4. CASE Broadcast
  BY <1>4, BroadcastKeeps
<1>5. ASSUME NEW fd \in Socket, Accept(fd) \/ Displace(fd) \/ ConnectionLost(fd) PROVE Inv'
  <2>1. conns' \in Nat
    BY <1>5 DEF Inv, TypeOK, Accept, Displace, ConnectionLost
  <2>2. PICK kind \in {"closed", "http"} : Becomes(fd, kind)
    BY <1>5 DEF Accept, Displace, ConnectionLost
  <2>3. UNCHANGED <<server, ws_mutex, ws_clients, jobs, queued, since>>
    BY <1>5 DEF Accept, Displace, ConnectionLost
  <2> QED
    BY <2>1, <2>2, <2>3, ConnectionKeeps
<1>6. ASSUME NEW fd \in Socket, PostHandshake(fd) PROVE Inv'
  BY <1>6, HandshakeKeeps
<1>7. ASSUME NEW fd \in Socket, WsClosed(fd) PROVE Inv'
  BY <1>7, ClosedKeeps
<1>8. CASE UNCHANGED vars
  BY <1>8 DEF vars, Inv, TypeOK, ListedOnce, JobsInOrder, TerminalListed, ScreenComplete, Run, Listed
<1> QED
  BY <1>1, <1>2, <1>3, <1>4, <1>5, <1>6, <1>7, <1>8 DEF Next

-----------------------------------------------------------------------------
(* The results.                                                            *)

\* The table, jobs and connections stay in range.
THEOREM TypeCorrect == Spec => []TypeOK
<1>1. Inv => TypeOK
  BY DEF Inv
<1> QED
  BY <1>1, InitHolds, NextKeeps, PTL DEF Spec

\* add_ws_client never lists a descriptor twice, whatever entries lost
\* connections have left behind.
THEOREM NobodyTwice == Spec => []ListedOnce
<1>1. Inv => ListedOnce
  BY DEF Inv
<1> QED
  BY <1>1, InitHolds, NextKeeps, PTL DEF Spec

\* With a table at least as large as the server's sockets, every terminal gets
\* every job in order until a send to it fails.
THEOREM NothingSkipped == Spec => []ScreenComplete
<1>1. Inv => ScreenComplete
  BY DEF Inv
<1> QED
  BY <1>1, InitHolds, NextKeeps, PTL DEF Spec

-----------------------------------------------------------------------------
(* The page: the server goes on as without it.                             *)

\* PageSpec adds nothing to what the table, the jobs and the connections do, so the
\* theorems above hold with the page.
THEOREM PageLeavesTheFanOut == PageSpec => Spec
<1>1. PageInit => Init
  BY DEF PageInit
<1>2. [PageNext]_<<vars, pageVars>> => [Next]_vars
  <2> SUFFICES ASSUME PageNext PROVE [Next]_vars
    BY DEF vars
  <2>1. CASE Page /\ UNCHANGED vars
    BY <2>1
  <2>2. CASE PageBroadcast
    BY <2>2 DEF PageBroadcast, Next
  <2>3. ASSUME NEW fd \in Socket, Cut(fd) \/ Shake(fd) PROVE Next
    BY <2>3 DEF Cut, Shake, Next
  <2>4. CASE Elsewhere
    BY <2>4 DEF Elsewhere, Next
  <2> QED
    BY <2>1, <2>2, <2>3, <2>4 DEF PageNext
<1> QED
  BY <1>1, <1>2, PTL DEF PageSpec, Spec

-----------------------------------------------------------------------------
(* The inductive invariant of the page.                                    *)

\* What the page shows as connected has an object behind it.
ShownOK == connected => Unfinished # {}

\* Without an overlap there is one object at most, and it is ws until it is closed.
OneObject ==
  ~overlapped =>
    /\ \A j, k \in Unfinished : j = k
    /\ \A k \in Object : readyState[k] \in {"CONNECTING", "OPEN"} => ws = k
    /\ connected => ws # None /\ readyState[ws] = "OPEN"

Rising(s) == \A i, j \in DOMAIN s : i < j => s[i] < s[j]

\* What was sent on a connection since its handshake.
GotOK ==
  \A fd \in Socket : conn[fd] = "ws" =>
    /\ since[fd] <= Run
    /\ Rising(got[fd])
    /\ \A i \in DOMAIN got[fd] : since[fd] < got[fd][i] /\ got[fd][i] <= Run

\* What the page wrote, and that it is older than what waits for its onopen.
ScreenOK ==
  ~overlapped =>
    /\ Rising(screen)
    /\ \A i \in DOMAIN screen : screen[i] <= Run
    /\ \A k \in Object : readyState[k] = "CONNECTING" /\ via[k] # None =>
         \A i \in DOMAIN screen : screen[i] <= since[via[k]]

PageInv ==
  Inv /\ PageTypeOK /\ NeverGivesUp /\ ShownOK /\ OneObject /\ GotOK /\ ScreenOK

\* ws names an object or nothing, never both.
LEMMA NotAnObject == None \notin Object
BY ObjectsAssumption DEF Object

\* A connection's descriptor, and the object that has it.
LEMMA ViaFacts ==
  ASSUME PageInv, NEW k \in Object, via[k] # None
  PROVE  via[k] \in Socket /\ k \in Unfinished /\ conn[via[k]] = "ws"
BY DEF PageInv, PageTypeOK

\* Numbers that rise may be followed by numbers that rise further.
LEMMA RisesOn ==
  ASSUME NEW s \in Seq(Nat), NEW t \in Seq(Nat), NEW b \in Nat, Rising(s), Rising(t),
         \A i \in DOMAIN s : s[i] <= b, \A i \in DOMAIN t : b < t[i]
  PROVE  Rising(s \o t)
<1> SUFFICES ASSUME NEW i \in DOMAIN (s \o t), NEW j \in DOMAIN (s \o t), i < j
             PROVE  (s \o t)[i] < (s \o t)[j]
  BY DEF Rising
<1>1. Len(s) \in Nat /\ Len(t) \in Nat /\ DOMAIN s = 1..Len(s) /\ DOMAIN t = 1..Len(t)
  OBVIOUS
<1>2. DOMAIN (s \o t) = 1..(Len(s) + Len(t))
  BY <1>1
<1>3. i \in Nat /\ j \in Nat /\ 1 <= i /\ j <= Len(s) + Len(t)
  BY <1>1, <1>2
<1>4. \A n \in 1..(Len(s) + Len(t)) : (s \o t)[n] = IF n <= Len(s) THEN s[n] ELSE t[n - Len(s)]
  BY <1>1
<1>5. CASE j <= Len(s)
  <2>1. i \in DOMAIN s /\ j \in DOMAIN s
    BY <1>1, <1>3, <1>5
  <2>2. s[i] < s[j]
    BY <2>1 DEF Rising
  <2>3. (s \o t)[i] = s[i] /\ (s \o t)[j] = s[j]
    BY <1>3, <1>4, <1>5, <1>1
  <2> QED
    BY <2>2, <2>3
<1>6. CASE i > Len(s)
  <2>1. i - Len(s) \in DOMAIN t /\ j - Len(s) \in DOMAIN t /\ i - Len(s) < j - Len(s)
    BY <1>1, <1>3, <1>6
  <2>2. t[i - Len(s)] < t[j - Len(s)]
    BY <2>1 DEF Rising
  <2> QED
    BY <1>1, <1>2, <1>3, <1>4, <1>6, <2>2
<1>7. CASE i <= Len(s) /\ j > Len(s)
  <2>1. i \in DOMAIN s /\ j - Len(s) \in DOMAIN t
    BY <1>1, <1>3, <1>7
  <2>2. s[i] \in Nat /\ t[j - Len(s)] \in Nat /\ s[i] <= b /\ b < t[j - Len(s)]
    BY <2>1
  <2> QED
    BY <1>1, <1>2, <1>3, <1>4, <1>7, <2>2
<1>8. j <= Len(s) \/ i > Len(s) \/ (i <= Len(s) /\ j > Len(s))
  BY <1>1, <1>3
<1> QED
  BY <1>5, <1>6, <1>7, <1>8

\* What is in both parts of a sequence.
LEMMA JoinedElements ==
  ASSUME NEW s \in Seq(Nat), NEW t \in Seq(Nat), NEW i \in DOMAIN (s \o t)
  PROVE  (\E j \in DOMAIN s : (s \o t)[i] = s[j]) \/ (\E j \in DOMAIN t : (s \o t)[i] = t[j])
<1>1. Len(s) \in Nat /\ Len(t) \in Nat /\ DOMAIN s = 1..Len(s) /\ DOMAIN t = 1..Len(t)
  OBVIOUS
<1>2. i \in 1..(Len(s) + Len(t))
  BY <1>1
<1>3. (s \o t)[i] = IF i <= Len(s) THEN s[i] ELSE t[i - Len(s)]
  BY <1>1, <1>2
<1>4. CASE i <= Len(s)
  BY <1>1, <1>2, <1>3, <1>4
<1>5. CASE i > Len(s)
  <2>1. i - Len(s) \in DOMAIN t
    BY <1>1, <1>2, <1>5
  <2> QED
    BY <1>1, <1>2, <1>3, <1>5, <2>1
<1> QED
  BY <1>1, <1>2, <1>4, <1>5

-----------------------------------------------------------------------------
(* The steps of the page: what it does to its objects.                     *)

\* While the server does nothing, what the invariant says of it stays.
LEMMA ServerIdle ==
  ASSUME Inv, GotOK, UNCHANGED vars
  PROVE  Inv' /\ GotOK' /\ Run' = Run
<1>1. Inv'
  BY NextKeeps
<1>2. Run' = Run
  BY DEF vars, Run
<1> QED
  BY <1>1, <1>2 DEF vars, GotOK, Rising

\* connect: the first of its objects, or an overlap.
LEMMA ConnectKeeps ==
  ASSUME PageInv, UNCHANGED vars, connect, UNCHANGED <<connected, via, screen>>,
         reconnectTimer' \in BOOLEAN, booting' \in BOOLEAN
  PROVE  PageInv'
<1> USE DEF PageInv
<1>1. PICK k \in Object \ Unfinished :
        /\ ws' = k /\ readyState' = [Closing EXCEPT ![k] = "CONNECTING"]
        /\ overlapped' = (overlapped \/ Unfinished # {})
  BY DEF connect
<1>2. /\ readyState' \in [Object -> {"none", "CONNECTING", "OPEN", "CLOSING"}]
      /\ readyState'[k] = "CONNECTING" /\ via[k] = None
      /\ \A o \in Object \ {k} : readyState'[o] = IF o = ws THEN "CLOSING" ELSE readyState[o]
  BY <1>1 DEF PageTypeOK, Closing
<1>3. Unfinished \cup {k} = Unfinished'
  <2>1. ws \in Object => readyState[ws] # "none"
    BY NotAnObject DEF PageTypeOK, Unfinished
  <2>2. \A o \in Object : readyState'[o] # "none" <=> (readyState[o] # "none" \/ o = k)
    BY <1>2, <2>1
  <2> QED
    BY <1>1, <2>2 DEF Unfinished
<1>4. Inv' /\ GotOK' /\ Run' = Run
  BY ServerIdle
<1>5. PageTypeOK'
  <2>1. ws' \in Unfinished' \cup {None} /\ overlapped' \in BOOLEAN /\ connected' \in BOOLEAN
    BY <1>1, <1>3 DEF PageTypeOK
  <2> QED
    BY <1>2, <1>3, <2>1 DEF PageTypeOK, vars
<1>6. NeverGivesUp' /\ ShownOK'
  BY <1>3 DEF NeverGivesUp, ShownOK
<1>7. CASE overlapped'
  BY <1>4, <1>5, <1>6, <1>7 DEF OneObject, ScreenOK
<1>8. CASE ~overlapped'
  <2>1. ~overlapped /\ Unfinished = {}
    BY <1>1, <1>8
  <2>2. ~connected
    BY <2>1 DEF ShownOK
  <2>3. Unfinished' = {k}
    BY <1>3, <2>1
  <2>4. OneObject'
    BY <1>1, <1>8, <2>2, <2>3 DEF OneObject, Unfinished
  <2>5. ScreenOK'
    <3>1. \A o \in Object : via[o] = None
      BY <2>1, ViaFacts
    <3> QED
      BY <1>4, <2>1, <3>1 DEF ScreenOK
  <2> QED
    BY <1>4, <1>5, <1>6, <2>4, <2>5
<1> QED
  BY <1>7, <1>8

\* The button: ws is closed, and its onclose will come.
LEMMA DisconnectKeeps ==
  ASSUME PageInv, UNCHANGED vars, disconnect
  PROVE  PageInv'
<1> USE DEF PageInv
<1>1. /\ connected /\ ~connected' /\ ws' = None
      /\ readyState' = Closing /\ reconnectTimer' = FALSE
      /\ UNCHANGED <<booting, via, screen, overlapped>>
  BY DEF disconnect, PageTypeOK
<1>2. /\ readyState' \in [Object -> {"none", "CONNECTING", "OPEN", "CLOSING"}]
      /\ \A o \in Object : readyState'[o] = IF o = ws THEN "CLOSING" ELSE readyState[o]
  BY <1>1 DEF PageTypeOK, Closing
<1>3. Unfinished' = Unfinished
  <2>1. ws \in Object => readyState[ws] # "none"
    BY NotAnObject DEF PageTypeOK, Unfinished
  <2>2. \A o \in Object : readyState'[o] # "none" <=> readyState[o] # "none"
    BY <1>2, <2>1
  <2> QED
    BY <2>2 DEF Unfinished
<1>4. Inv' /\ GotOK' /\ Run' = Run
  BY ServerIdle
<1>5. PageTypeOK'
  <2>1. {connected', reconnectTimer', booting', overlapped'} \subseteq BOOLEAN
    BY <1>1 DEF PageTypeOK, disconnect
  <2> QED
    BY <1>1, <1>2, <1>3, <2>1 DEF PageTypeOK, vars
<1>6. NeverGivesUp' /\ ShownOK'
  BY <1>1, <1>3 DEF NeverGivesUp, ShownOK
<1>7. OneObject'
  BY <1>1, <1>2, <1>3 DEF OneObject
<1>8. ScreenOK'
  BY <1>1, <1>2, <1>4 DEF ScreenOK, vars
<1> QED
  BY <1>4, <1>5, <1>6, <1>7, <1>8

\* onopen writes what has arrived since the handshake.
LEMMA OnOpenKeeps ==
  ASSUME PageInv, UNCHANGED vars, NEW k \in Object, OnOpen(k)
  PROVE  PageInv'
<1> USE DEF PageInv
<1>1. /\ readyState[k] = "CONNECTING" /\ via[k] # None
      /\ readyState' = [readyState EXCEPT ![k] = "OPEN"]
      /\ connected' = TRUE /\ screen' = screen \o got[via[k]]
      /\ UNCHANGED <<ws, reconnectTimer, booting, via, overlapped>>
  BY DEF OnOpen
<1>2. /\ readyState' \in [Object -> {"none", "CONNECTING", "OPEN", "CLOSING"}]
      /\ \A o \in Object : readyState'[o] = IF o = k THEN "OPEN" ELSE readyState[o]
  BY <1>1 DEF PageTypeOK
<1>3. Unfinished' = Unfinished /\ k \in Unfinished
  BY <1>1, <1>2 DEF PageTypeOK, Unfinished
<1>4. Inv' /\ GotOK' /\ Run' = Run
  BY ServerIdle
<1> DEFINE fd == via[k]
<1>5. fd \in Socket /\ conn[fd] = "ws" /\ got[fd] \in Seq(Nat) /\ screen \in Seq(Nat) /\ since[fd] \in Nat
  BY <1>1, ViaFacts DEF Inv, TypeOK, PageTypeOK
<1>6. PageTypeOK'
  <2>1. screen' \in Seq(Nat)
    BY <1>1, <1>5
  <2> QED
    BY <1>1, <1>2, <1>3, <2>1 DEF PageTypeOK, vars
<1>7. NeverGivesUp' /\ ShownOK'
  BY <1>3 DEF NeverGivesUp, ShownOK
<1>8. OneObject'
  BY <1>1, <1>2, <1>3, ObjectsAssumption DEF OneObject, Object
<1>9. ASSUME ~overlapped PROVE ScreenOK'
  <2>1. /\ Rising(screen) /\ \A i \in DOMAIN screen : screen[i] <= Run
        /\ \A i \in DOMAIN screen : screen[i] <= since[fd]
    BY <1>1, <1>9 DEF ScreenOK
  <2>2. Rising(got[fd]) /\ \A i \in DOMAIN got[fd] : since[fd] < got[fd][i] /\ got[fd][i] <= Run
    BY <1>5 DEF GotOK
  <2> HIDE DEF fd
  <2>3. Rising(screen')
    BY <1>1, <1>5, <2>1, <2>2, RisesOn DEF fd
  <2>4. \A i \in DOMAIN screen' : screen'[i] <= Run
    BY <1>1, <1>5, <2>1, <2>2, JoinedElements DEF fd
  <2>5. \A o \in Object : readyState'[o] # "CONNECTING"
    BY <1>2, <1>3, <1>9 DEF OneObject, Unfinished
  <2>6. Rising(screen)' /\ \A i \in DOMAIN screen' : screen'[i] <= Run'
    BY <1>4, <2>3, <2>4 DEF Rising
  <2> QED
    BY <2>5, <2>6 DEF ScreenOK
<1> QED
  BY <1>1, <1>4, <1>6, <1>7, <1>8, <1>9 DEF ScreenOK

\* onclose: the timer runs.
LEMMA OnCloseKeeps ==
  ASSUME PageInv, UNCHANGED vars, NEW k \in Object, OnClose(k)
  PROVE  PageInv'
<1> USE DEF PageInv
<1>1. /\ k \in Unfinished /\ ws' = None /\ connected' = FALSE /\ reconnectTimer' = TRUE
      /\ readyState' = [readyState EXCEPT ![k] = "none"] /\ via' = [via EXCEPT ![k] = None]
      /\ UNCHANGED <<booting, screen, overlapped>>
  BY DEF OnClose, Rescheduled
<1>2. /\ readyState' \in [Object -> {"none", "CONNECTING", "OPEN", "CLOSING"}]
      /\ via' \in [Object -> Socket \cup {None}]
      /\ \A o \in Object : readyState'[o] = IF o = k THEN "none" ELSE readyState[o]
      /\ \A o \in Object : via'[o] = IF o = k THEN None ELSE via[o]
  BY <1>1 DEF PageTypeOK
<1>3. Unfinished' = Unfinished \ {k}
  BY <1>1, <1>2 DEF PageTypeOK, Unfinished
<1>4. Inv' /\ GotOK' /\ Run' = Run
  BY ServerIdle
<1>5. PageTypeOK'
  <2>1. conn' = conn
    BY DEF vars
  <2>2. \A o \in Object : via'[o] # None =>
          o \in Unfinished' /\ conn'[via'[o]] = "ws" /\ \A x \in Object \ {o} : via'[x] # via'[o]
    BY <1>2, <1>3, <2>1 DEF PageTypeOK
  <2> QED
    BY <1>1, <1>2, <2>2 DEF PageTypeOK
<1>6. NeverGivesUp' /\ ShownOK'
  BY <1>1 DEF NeverGivesUp, ShownOK
<1>7. OneObject'
  BY <1>1, <1>2, <1>3 DEF OneObject, Unfinished
<1>8. ScreenOK'
  BY <1>1, <1>2, <1>4 DEF ScreenOK, vars
<1> QED
  BY <1>4, <1>5, <1>6, <1>7, <1>8

-----------------------------------------------------------------------------
(* The steps of the server.                                                *)

\* The job that is run has the next number.
LEMMA NextJob ==
  ASSUME Inv, Broadcast
  PROVE  Run \in Nat /\ Run' = Run + 1 /\ Head(jobs) = Run + 1
<1>1. /\ jobs \in Seq(Nat) /\ jobs # <<>> /\ jobs' = Tail(jobs) /\ queued \in Nat /\ queued' = queued
      /\ Len(jobs) <= queued
  BY DEF Inv, TypeOK, JobsInOrder, Broadcast
<1>2. /\ Len(jobs) \in Nat /\ Len(jobs) > 0 /\ Len(jobs') = Len(jobs) - 1 /\ Head(jobs) = jobs[1]
  BY <1>1
<1> QED
  BY <1>1, <1>2 DEF Inv, JobsInOrder, Run

\* A connection is sent nothing, or the one job that is run.
LEMMA SentOnce ==
  ASSUME Inv, Broadcast, NEW fd \in Socket
  PROVE  got'[fd] = got[fd] \/ got'[fd] = got[fd] \o <<Run + 1>>
<1>1. CASE ~ws_mutex
  BY <1>1 DEF Broadcast
<1>2. CASE ws_mutex
  <2>1. PICK failed \in SUBSET Listed :
          got' = [x \in Socket |-> IF x \in Listed \ failed THEN got[x] \o Copies(x) ELSE got[x]]
    BY <1>2 DEF Broadcast
  <2>2. fd \in Listed => Copies(fd) = <<Run + 1>>
    BY OneCopy, NextJob DEF Inv
  <2> QED
    BY <2>1, <2>2
<1> QED
  BY <1>1, <1>2

\* A sequence of one number.
LEMMA OneRises ==
  ASSUME NEW n \in Nat
  PROVE  <<n>> \in Seq(Nat) /\ Rising(<<n>>) /\ DOMAIN <<n>> = {1} /\ <<n>>[1] = n
<1>1. <<n>> \in Seq(Nat) /\ DOMAIN <<n>> = {1} /\ <<n>>[1] = n
  OBVIOUS
<1> QED
  BY <1>1 DEF Rising

\* What was sent on a connection stays in order.
LEMMA BroadcastKeepsGot ==
  ASSUME Inv, GotOK, Broadcast
  PROVE  GotOK'
<1>1. Run \in Nat /\ Run' = Run + 1
  BY NextJob
<1>2. conn' = conn /\ since' = since
  BY DEF Broadcast
<1>3. ASSUME NEW fd \in Socket, conn[fd] = "ws"
      PROVE  /\ since[fd] <= Run'
             /\ Rising(got'[fd])
             /\ \A i \in DOMAIN got'[fd] : since[fd] < got'[fd][i] /\ got'[fd][i] <= Run'
  <2>1. /\ since[fd] <= Run /\ since[fd] \in Nat /\ got[fd] \in Seq(Nat) /\ Rising(got[fd])
        /\ \A i \in DOMAIN got[fd] : since[fd] < got[fd][i] /\ got[fd][i] <= Run
    BY <1>3 DEF GotOK, Inv, TypeOK
  <2>2. \A i \in DOMAIN got[fd] : got[fd][i] \in Nat
    BY <2>1
  <2>3. CASE got'[fd] = got[fd]
    BY <1>1, <2>1, <2>2, <2>3
  <2>4. CASE got'[fd] = got[fd] \o <<Run + 1>>
    <3> DEFINE t == <<Run + 1>>
    <3>1. Run + 1 \in Nat
      BY <1>1
    <3>2. t \in Seq(Nat) /\ Rising(t) /\ DOMAIN t = {1} /\ t[1] = Run + 1
      BY <3>1, OneRises
    <3> HIDE DEF t
    <3>3. \A i \in DOMAIN t : Run < t[i]
      BY <1>1, <3>2
    <3>4. Rising(got[fd] \o t)
      BY <1>1, <2>1, <3>2, <3>3, RisesOn
    <3>5. \A i \in DOMAIN (got[fd] \o t) :
            since[fd] < (got[fd] \o t)[i] /\ (got[fd] \o t)[i] <= Run'
      <4> TAKE i \in DOMAIN (got[fd] \o t)
      <4>1. \/ \E j \in DOMAIN got[fd] : (got[fd] \o t)[i] = got[fd][j]
            \/ \E j \in DOMAIN t : (got[fd] \o t)[i] = t[j]
        BY <2>1, <3>2, JoinedElements
      <4> DEFINE e == (got[fd] \o t)[i]
      <4>2. CASE \E j \in DOMAIN got[fd] : e = got[fd][j]
        <5>1. e \in Nat /\ since[fd] < e /\ e <= Run
          BY <2>1, <2>2, <4>2
        <5> HIDE DEF e
        <5>2. e <= Run + 1
          BY <1>1, <5>1
        <5> QED
          BY <1>1, <5>1, <5>2 DEF e
      <4>3. CASE \E j \in DOMAIN t : e = t[j]
        <5>1. e = Run + 1
          BY <3>2, <4>3
        <5> HIDE DEF e
        <5>2. since[fd] < e /\ e <= Run + 1
          BY <1>1, <2>1, <5>1
        <5> QED
          BY <1>1, <5>2 DEF e
      <4> QED
        BY <4>1, <4>2, <4>3
    <3>6. got'[fd] = got[fd] \o t
      BY <2>4 DEF t
    <3>7. since[fd] <= Run'
      BY <1>1, <2>1
    <3> HIDE DEF t
    <3> QED
      BY <3>4, <3>5, <3>6, <3>7
  <2> QED
    BY <1>3, <2>3, <2>4, SentOnce
<1>4. (\A fd \in Socket : conn[fd] = "ws" =>
         /\ since[fd] <= Run
         /\ Rising(got[fd])
         /\ \A i \in DOMAIN got[fd] : since[fd] < got[fd][i] /\ got[fd][i] <= Run)'
  BY <1>2, <1>3 DEF Rising
<1> QED
  BY <1>4 DEF GotOK

\* The slots that an open object's connection is sent the job for.
LEMMA WrittenOnce ==
  ASSUME PageInv, Broadcast
  PROVE  /\ Written \in Seq(Nat)
         /\ ~overlapped => \/ Written = <<>>
                           \/ Written = <<Run + 1>> /\ \E k \in Object : readyState[k] = "OPEN"
<1> DEFINE S == {i \in Slots : \E k \in Object : Arrives(k, i)}
<1>1. IsFiniteSet(S) /\ Cardinality(S) \in Nat
  <2>1. IsFiniteSet(Slots)
    <3>1. 1 \in Int /\ MAX_WS_CLIENTS \in Int
      BY TableAssumption
    <3> QED
      BY <3>1, FS_Interval DEF Slots
  <2>2. S \subseteq Slots
    OBVIOUS
  <2> QED
    BY <2>1, <2>2, FS_Subset, FS_CardinalityType
<1>2. Run \in Nat /\ Head(jobs) = Run + 1
  BY NextJob DEF PageInv
<1>3. Written = [n \in 1..Cardinality(S) |-> Run + 1]
  BY <1>2 DEF Written
<1>4. Written \in Seq(Nat)
  <2> HIDE DEF S
  <2> QED
    BY <1>1, <1>2, <1>3
<1>5. ASSUME ~overlapped
      PROVE  Written = <<>> \/ (Written = <<Run + 1>> /\ \E k \in Object : readyState[k] = "OPEN")
  <2>1. \A i, j \in S : i = j
    <3> TAKE i, j \in S
    <3>1. PICK k \in Object : Arrives(k, i)
      OBVIOUS
    <3>2. PICK o \in Object : Arrives(o, j)
      OBVIOUS
    <3>3. k \in Unfinished /\ o \in Unfinished
      BY <3>1, <3>2, ViaFacts DEF Arrives
    <3>4. k = o
      BY <1>5, <3>3 DEF PageInv, OneObject
    <3> QED
      BY <3>1, <3>2, <3>4 DEF Arrives, PageInv, Inv, ListedOnce
  <2>2. CASE S = {}
    <3>1. Cardinality(S) = 0
      BY <2>2, FS_EmptySet
    <3> HIDE DEF S
    <3>2. Written = <<>>
      BY <1>3, <3>1
    <3> QED
      BY <3>2
  <2>3. ASSUME NEW i \in S PROVE Written = <<Run + 1>> /\ \E k \in Object : readyState[k] = "OPEN"
    <3>1. \E k \in Object : readyState[k] = "OPEN"
      BY <2>3 DEF Arrives
    <3> HIDE DEF S
    <3>2. S = {i}
      BY <2>1, <2>3
    <3>3. Cardinality(S) = 1
      BY <3>2, FS_Singleton
    <3>4. Written = <<Run + 1>>
      BY <1>3, <3>3
    <3> QED
      BY <3>1, <3>4
  <2> HIDE DEF S
  <2> QED
    BY <2>2, <2>3
<1> QED
  BY <1>4, <1>5

\* A job is run, and written by an open object.
LEMMA PageBroadcastKeeps ==
  ASSUME PageInv, PageBroadcast
  PROVE  PageInv'
<1> USE DEF PageInv
<1>1. /\ Broadcast /\ screen' = screen \o Written
      /\ UNCHANGED <<ws, connected, reconnectTimer, booting, readyState, via, overlapped>>
  BY DEF PageBroadcast
<1>2. Inv' /\ GotOK'
  BY <1>1, BroadcastKeeps, BroadcastKeepsGot
<1>3. Run \in Nat /\ Run' = Run + 1 /\ conn' = conn /\ since' = since
  BY <1>1, NextJob DEF Broadcast
<1>4. screen \in Seq(Nat) /\ Written \in Seq(Nat) /\ Unfinished' = Unfinished
  BY <1>1, WrittenOnce DEF PageTypeOK, Unfinished
<1>5. PageTypeOK'
  <2>1. screen' \in Seq(Nat)
    BY <1>1, <1>4
  <2> QED
    BY <1>1, <1>3, <1>4, <2>1 DEF PageTypeOK
<1>6. NeverGivesUp' /\ ShownOK' /\ OneObject'
  BY <1>1, <1>4 DEF NeverGivesUp, ShownOK, OneObject
<1>7. ASSUME ~overlapped PROVE ScreenOK'
  <2>1. /\ Rising(screen) /\ \A i \in DOMAIN screen : screen[i] <= Run /\ screen[i] \in Nat
        /\ \A k \in Object : readyState[k] = "CONNECTING" /\ via[k] # None =>
             \A i \in DOMAIN screen : screen[i] <= since[via[k]]
    BY <1>4, <1>7 DEF ScreenOK
  <2>2. CASE Written = <<>>
    <3>1. screen' = screen
      BY <1>1, <1>4, <2>2
    <3>2. Rising(screen)' /\ \A i \in DOMAIN screen' : screen'[i] <= Run'
      BY <1>3, <2>1, <3>1 DEF Rising
    <3> QED
      BY <1>1, <1>3, <2>1, <3>1, <3>2 DEF ScreenOK
  <2>3. CASE Written = <<Run + 1>> /\ \E k \in Object : readyState[k] = "OPEN"
    <3> DEFINE t == <<Run + 1>>
    <3>1. Run + 1 \in Nat
      BY <1>3
    <3>2. t \in Seq(Nat) /\ Rising(t) /\ DOMAIN t = {1} /\ t[1] = Run + 1
      BY <3>1, OneRises
    <3>3. screen' = screen \o t
      BY <1>1, <2>3
    <3> HIDE DEF t
    <3>4. Rising(screen')
      <4>1. \A i \in DOMAIN t : Run < t[i]
        BY <1>3, <3>2
      <4> QED
        BY <1>3, <1>4, <2>1, <3>2, <3>3, <4>1, RisesOn
    <3>5. \A i \in DOMAIN screen' : screen'[i] <= Run'
      <4> TAKE i \in DOMAIN screen'
      <4>1. \/ \E j \in DOMAIN screen : screen'[i] = screen[j]
            \/ \E j \in DOMAIN t : screen'[i] = t[j]
        BY <1>4, <3>2, <3>3, JoinedElements
      <4> QED
        BY <1>3, <2>1, <3>2, <4>1
    <3>6. \A k \in Object : readyState'[k] # "CONNECTING"
      BY <1>1, <1>7, <2>3 DEF OneObject, Unfinished
    <3>7. Rising(screen)'
      BY <3>4 DEF Rising
    <3> QED
      BY <3>5, <3>6, <3>7 DEF ScreenOK
  <2> QED
    BY <1>1, <1>7, <2>2, <2>3, WrittenOnce
<1> QED
  BY <1>1, <1>2, <1>5, <1>6, <1>7 DEF ScreenOK

\* Connections come and go, none becomes a terminal, and no job is run.
LEMMA ConnectionsKeep ==
  ASSUME PageInv, Next, Run' = Run,
         UNCHANGED <<since, ws, connected, reconnectTimer, booting, readyState, screen, overlapped>>,
         \A fd \in Socket : conn'[fd] = "ws" => conn[fd] = "ws" /\ got'[fd] = got[fd],
         via' \in [Object -> Socket \cup {None}],
         \A k \in Object : via'[k] # None => via'[k] = via[k] /\ conn'[via[k]] = "ws"
  PROVE  PageInv'
<1> USE DEF PageInv
<1>1. Inv'
  BY NextKeeps
<1>2. Unfinished' = Unfinished
  BY DEF Unfinished
<1>3. PageTypeOK'
  BY <1>2 DEF PageTypeOK
<1>4. NeverGivesUp' /\ ShownOK' /\ OneObject'
  BY <1>2 DEF NeverGivesUp, ShownOK, OneObject
<1>5. GotOK'
  BY DEF GotOK, Rising
<1>6. ScreenOK'
  BY DEF ScreenOK, Rising
<1> QED
  BY <1>1, <1>3, <1>4, <1>5, <1>6

\* The connection of an object is cut.
LEMMA CutKeeps ==
  ASSUME PageInv, NEW fd \in Socket, Cut(fd)
  PROVE  PageInv'
<1> USE DEF PageInv
<1>1. PICK kind \in {"closed", "http"} : Becomes(fd, kind)
  BY DEF Cut, Displace, ConnectionLost, WsClosed
<1>2. /\ Next /\ Run' = Run
      /\ UNCHANGED <<since, ws, connected, reconnectTimer, booting, readyState, screen, overlapped>>
  BY DEF Cut, Next, Displace, ConnectionLost, WsClosed, Run
<1>3. \A other \in Socket : conn'[other] = "ws" =>
        other # fd /\ conn[other] = "ws" /\ got'[other] = got[other]
  BY <1>1 DEF Becomes, Inv, TypeOK
<1>4. via' = [k \in Object |-> IF via[k] = fd THEN None ELSE via[k]]
  BY DEF Cut
<1>5. via' \in [Object -> Socket \cup {None}]
  BY <1>4 DEF PageTypeOK
<1>6. \A k \in Object : via'[k] # None => via'[k] = via[k] /\ conn'[via[k]] = "ws"
  <2> SUFFICES ASSUME NEW k \in Object, via'[k] # None
               PROVE  via'[k] = via[k] /\ conn'[via[k]] = "ws"
    OBVIOUS
  <2>1. via[k] # None /\ via[k] # fd /\ via'[k] = via[k]
    BY <1>4
  <2>2. via[k] \in Socket /\ conn[via[k]] = "ws"
    BY <2>1, ViaFacts
  <2> QED
    BY <1>1, <2>1, <2>2 DEF Becomes, Inv, TypeOK
<1> QED
  BY <1>2, <1>3, <1>5, <1>6, ConnectionsKeep

\* The server starts, accepts a connection, or is given a job.
LEMMA ElsewhereKeeps ==
  ASSUME PageInv, Elsewhere, UNCHANGED pageVars
  PROVE  PageInv'
<1> USE DEF PageInv
<1>1. Next /\ since' = since
  BY DEF Elsewhere, Next, HttpdStart, InitClients, QueueBroadcast, Accept
<1>2. /\ Run' = Run
      /\ \A fd \in Socket : conn'[fd] = "ws" => conn[fd] = "ws" /\ got'[fd] = got[fd]
      /\ \A fd \in Socket : conn[fd] = "ws" => conn'[fd] = "ws"
  <2>1. CASE HttpdStart \/ InitClients
    BY <2>1 DEF HttpdStart, InitClients, Run
  <2>2. CASE QueueBroadcast
    <3>1. Run' = Run
      BY <2>2, EnqueuedKeeps DEF QueueBroadcast, Inv
    <3> QED
      BY <2>2, <3>1 DEF QueueBroadcast
  <2>3. ASSUME NEW fd \in Socket, Accept(fd)
        PROVE  /\ Run' = Run
               /\ \A x \in Socket : conn'[x] = "ws" => conn[x] = "ws" /\ got'[x] = got[x]
               /\ \A x \in Socket : conn[x] = "ws" => conn'[x] = "ws"
    BY <2>3 DEF Accept, Becomes, Run, Inv, TypeOK
  <2> QED
    BY <2>1, <2>2, <2>3 DEF Elsewhere
<1>3. /\ via' \in [Object -> Socket \cup {None}]
      /\ \A k \in Object : via'[k] # None => via'[k] = via[k] /\ conn'[via[k]] = "ws"
  BY <1>2, ViaFacts DEF pageVars, PageTypeOK
<1> QED
  BY <1>1, <1>2, <1>3, ConnectionsKeep DEF pageVars

\* A handshake: what the new terminal will be sent is newer than what any page has.
LEMMA ShakeKeeps ==
  ASSUME PageInv, NEW fd \in Socket, Shake(fd)
  PROVE  PageInv'
<1> USE DEF PageInv
<1>1. /\ PostHandshake(fd) /\ conn[fd] = "http" /\ Becomes(fd, "ws")
      /\ since' = [since EXCEPT ![fd] = Run]
      /\ UNCHANGED <<ws, connected, reconnectTimer, booting, readyState, screen, overlapped>>
  BY DEF Shake, PostHandshake
<1>2. Inv'
  BY <1>1, HandshakeKeeps
<1>3. Run' = Run /\ Run \in Nat
  <2>1. Run \in Nat
    BY DEF Inv, TypeOK, JobsInOrder, Run
  <2>2. CASE Enqueued
    BY <2>1, <2>2, EnqueuedKeeps DEF Inv
  <2>3. CASE UNCHANGED <<jobs, queued>>
    BY <2>1, <2>3 DEF Run
  <2> QED
    BY <1>1, <2>2, <2>3 DEF PostHandshake
<1>4. /\ conn'[fd] = "ws" /\ got'[fd] = <<>> /\ since'[fd] = Run
      /\ \A other \in Socket \ {fd} : /\ conn'[other] = conn[other] /\ got'[other] = got[other]
                                      /\ since'[other] = since[other]
  BY <1>1 DEF Becomes, Inv, TypeOK
<1>5. \A k \in Object : via[k] # fd
  BY <1>1, ViaFacts, NoneAssumption
<1>6. \/ via' = via
      \/ \E k \in Object : /\ readyState[k] = "CONNECTING" /\ via[k] = None
                           /\ via' = [via EXCEPT ![k] = fd]
  BY DEF Shake
<1>7. /\ via' \in [Object -> Socket \cup {None}]
      /\ \A k \in Object : via'[k] # None =>
           \/ via'[k] = via[k] /\ via[k] # fd
           \/ via'[k] = fd /\ readyState[k] = "CONNECTING" /\ \A o \in Object \ {k} : via'[o] = via[o]
  BY <1>5, <1>6 DEF PageTypeOK
<1>8. Unfinished' = Unfinished
  BY <1>1 DEF Unfinished
<1>9. PageTypeOK'
  <2>1. ASSUME NEW k \in Object, via'[k] # None
        PROVE  k \in Unfinished' /\ conn'[via'[k]] = "ws" /\ \A o \in Object \ {k} : via'[o] # via'[k]
    <3>1. CASE via'[k] = fd /\ readyState[k] = "CONNECTING" /\ \A o \in Object \ {k} : via'[o] = via[o]
      BY <1>4, <1>5, <1>8, <3>1 DEF Unfinished
    <3>2. CASE via'[k] = via[k] /\ via[k] # fd
      <4>1. via[k] \in Socket /\ k \in Unfinished /\ conn[via[k]] = "ws"
        BY <2>1, <3>2, ViaFacts
      <4>2. \A o \in Object \ {k} : via[o] # via[k]
        BY <2>1, <3>2 DEF PageTypeOK
      <4>3. \A o \in Object \ {k} : via'[o] = via[o] \/ via'[o] = fd
        BY <1>6 DEF PageTypeOK
      <4> QED
        BY <1>4, <1>8, <3>2, <4>1, <4>2, <4>3
    <3> QED
      BY <1>7, <2>1, <3>1, <3>2
  <2> QED
    BY <1>1, <1>7, <1>8, <2>1 DEF PageTypeOK
<1>10. NeverGivesUp' /\ ShownOK' /\ OneObject'
  BY <1>1, <1>8 DEF NeverGivesUp, ShownOK, OneObject
<1>11. GotOK'
  <2>1. ASSUME NEW other \in Socket, conn'[other] = "ws"
        PROVE  /\ since'[other] <= Run
               /\ \A i, j \in DOMAIN got'[other] : i < j => got'[other][i] < got'[other][j]
               /\ \A i \in DOMAIN got'[other] : since'[other] < got'[other][i] /\ got'[other][i] <= Run
    <3>1. CASE other = fd
      BY <1>3, <1>4, <3>1
    <3>2. CASE other # fd
      BY <1>4, <2>1, <3>2 DEF GotOK, Rising
    <3> QED
      BY <3>1, <3>2
  <2> QED
    BY <1>3, <2>1 DEF GotOK, Rising
<1>12. ScreenOK'
  <2> SUFFICES ASSUME ~overlapped PROVE ScreenOK'
    BY <1>1 DEF ScreenOK
  <2>1. /\ Rising(screen) /\ \A i \in DOMAIN screen : screen[i] <= Run
        /\ \A k \in Object : readyState[k] = "CONNECTING" /\ via[k] # None =>
             \A i \in DOMAIN screen : screen[i] <= since[via[k]]
    BY DEF ScreenOK
  <2>2. ASSUME NEW k \in Object, readyState[k] = "CONNECTING", via'[k] # None
        PROVE  \A i \in DOMAIN screen : screen[i] <= since'[via'[k]]
    <3>1. CASE via'[k] = fd
      BY <1>4, <2>1, <3>1
    <3>2. CASE via'[k] = via[k] /\ via[k] # fd
      <4>1. via[k] \in Socket
        BY <2>2, <3>2, ViaFacts
      <4> QED
        BY <1>4, <2>1, <2>2, <3>2, <4>1
    <3> QED
      BY <1>7, <2>2, <3>1, <3>2
  <2>3. Rising(screen)' /\ \A i \in DOMAIN screen' : screen'[i] <= Run'
    BY <1>1, <1>3, <2>1 DEF Rising
  <2> QED
    BY <1>1, <2>2, <2>3 DEF ScreenOK
<1> QED
  BY <1>2, <1>9, <1>10, <1>11, <1>12

-----------------------------------------------------------------------------
(* The page: the results.                                                  *)

\* A page that is being loaded has 300 ms before it needs a socket.
LEMMA PageInitHolds == PageInit => PageInv
<1> SUFFICES ASSUME PageInit PROVE PageInv
  OBVIOUS
<1>1. Inv
  BY InitHolds DEF PageInit
<1>2. PageTypeOK
  <2>1. <<>> \in Seq(Nat)
    OBVIOUS
  <2> QED
    BY <2>1 DEF PageInit, PageTypeOK, Unfinished
<1>3. NeverGivesUp /\ ShownOK /\ OneObject
  BY DEF PageInit, NeverGivesUp, ShownOK, OneObject, Unfinished
<1>4. GotOK /\ ScreenOK
  BY DEF PageInit, Init, GotOK, ScreenOK, Rising
<1> QED
  BY <1>1, <1>2, <1>3, <1>4 DEF PageInv

\* Every step of the page and of the server keeps the invariant.
LEMMA PageNextKeeps == PageInv /\ [PageNext]_<<vars, pageVars>> => PageInv'
<1> SUFFICES ASSUME PageInv, [PageNext]_<<vars, pageVars>> PROVE PageInv'
  OBVIOUS
<1>1. CASE Page /\ UNCHANGED vars
  <2>1. CASE Boot
    <3>1. connect /\ UNCHANGED <<connected, via, screen>> /\ reconnectTimer' \in BOOLEAN /\ booting' \in BOOLEAN
      BY <2>1 DEF Boot, PageInv, PageTypeOK
    <3> QED
      BY <1>1, <3>1, ConnectKeeps
  <2>2. CASE ClickConnect
    <3>1. connect /\ UNCHANGED <<connected, via, screen>> /\ reconnectTimer' \in BOOLEAN /\ booting' \in BOOLEAN
      BY <2>2 DEF ClickConnect, PageInv, PageTypeOK
    <3> QED
      BY <1>1, <3>1, ConnectKeeps
  <2>3. CASE disconnect
    BY <1>1, <2>3, DisconnectKeeps
  <2>4. CASE TimerFires /\ ~connected
    <3>1. connect /\ UNCHANGED <<connected, via, screen>> /\ reconnectTimer' \in BOOLEAN /\ booting' \in BOOLEAN
      BY <2>4 DEF TimerFires, PageInv, PageTypeOK
    <3> QED
      BY <1>1, <3>1, ConnectKeeps
  <2>5. CASE TimerFires /\ connected
    <3>1. /\ UNCHANGED <<ws, readyState, overlapped, connected, booting, via, screen>>
          /\ reconnectTimer' = FALSE
      BY <2>5 DEF TimerFires
    <3>2. Inv' /\ GotOK' /\ Run' = Run /\ Unfinished' = Unfinished
      BY <1>1, <3>1, ServerIdle DEF PageInv, Unfinished
    <3>3. PageTypeOK'
      BY <1>1, <3>1, <3>2 DEF PageInv, PageTypeOK, vars
    <3>4. NeverGivesUp' /\ ShownOK' /\ OneObject'
      BY <2>5, <3>1, <3>2 DEF PageInv, NeverGivesUp, ShownOK, OneObject
    <3>5. ScreenOK'
      BY <1>1, <3>1, <3>2 DEF PageInv, ScreenOK, Rising, vars
    <3> QED
      BY <3>2, <3>3, <3>4, <3>5 DEF PageInv
  <2>6. ASSUME NEW k \in Object, OnOpen(k) \/ OnClose(k) PROVE PageInv'
    BY <1>1, <2>6, OnOpenKeeps, OnCloseKeeps
  <2> QED
    BY <1>1, <2>1, <2>2, <2>3, <2>4, <2>5, <2>6 DEF Page
<1>2. CASE PageBroadcast
  BY <1>2, PageBroadcastKeeps
<1>3. ASSUME NEW fd \in Socket, Cut(fd) \/ Shake(fd) PROVE PageInv'
  BY <1>3, CutKeeps, ShakeKeeps
<1>4. CASE Elsewhere /\ UNCHANGED pageVars
  BY <1>4, ElsewhereKeeps
<1>5. CASE UNCHANGED <<vars, pageVars>>
  <2>1. Inv' /\ GotOK' /\ Run' = Run /\ Unfinished' = Unfinished
    BY <1>5, ServerIdle DEF PageInv, pageVars, Unfinished
  <2>2. PageTypeOK' /\ NeverGivesUp' /\ ShownOK' /\ OneObject'
    BY <1>5, <2>1 DEF PageInv, PageTypeOK, NeverGivesUp, ShownOK, OneObject, vars, pageVars
  <2>3. ScreenOK'
    BY <1>5, <2>1 DEF PageInv, ScreenOK, Rising, vars, pageVars
  <2> QED
    BY <2>1, <2>2, <2>3 DEF PageInv
<1> QED
  BY <1>1, <1>2, <1>3, <1>4, <1>5 DEF PageNext

\* The page's variables stay in range, and no two objects have one descriptor.
THEOREM PageTypeCorrect == PageSpec => []PageTypeOK
<1>1. PageInv => PageTypeOK
  BY DEF PageInv
<1> QED
  BY <1>1, PageInitHolds, PageNextKeeps, PTL DEF PageSpec

\* While the page shows CONNECTED its keystrokes find an open socket, unless it
\* made one while another was not finished.
THEOREM KeysReachTheSocket == PageSpec => []KeysGoOut
<1>1. PageInv => KeysGoOut
  BY DEF PageInv, OneObject, KeysGoOut
<1> QED
  BY <1>1, PageInitHolds, PageNextKeeps, PTL DEF PageSpec

\* A connection, an attempt or a timer is left, for every number of sockets and objects.
THEOREM TerminalNeverGivesUp == PageSpec => []NeverGivesUp
<1>1. PageInv => NeverGivesUp
  BY DEF PageInv
<1> QED
  BY <1>1, PageInitHolds, PageNextKeeps, PTL DEF PageSpec

\* The terminal shows no output twice and none out of order.
THEOREM ShownOnce == PageSpec => []OutputOnce
<1>1. PageInv => OutputOnce
  BY DEF PageInv, ScreenOK, Rising, OutputOnce
<1> QED
  BY <1>1, PageInitHolds, PageNextKeeps, PTL DEF PageSpec
=============================================================================
