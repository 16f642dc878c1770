----------------------------- MODULE WebTerminal -----------------------------
(***************************************************************************)
(* One page of web_terminal.html at the firmware's web server: its         *)
(* WebSocket objects, the reconnect timer, the button, and what reaches    *)
(* the screen, together with the table and the jobs of WsClients.  The     *)
(* page's functions and callbacks run one at a time, those of an object    *)
(* that was given up like any other.                                       *)
(***************************************************************************)
EXTENDS WsClients

CONSTANT MaxObjects   \* bound: WebSocket objects not finished at the same time

ASSUME ObjectsAssumption == MaxObjects \in Nat \ {0} /\ None \notin 1..MaxObjects

VARIABLES
  ws,                 \* the object the page calls ws, or None
  connected,          \* the status shown, which is also what the button goes by
  reconnectTimer,     \* 1.8 s run
  booting,            \* the first 300 ms
  readyState,         \* of every object; "none" before it is made and after its onclose
  via,                \* the descriptor at the other end, or None
  screen,             \* history: the jobs written to the terminal
  overlapped          \* history: an object was made while another was not finished

pageVars == <<ws, connected, reconnectTimer, booting, readyState, via, screen, overlapped>>

Object == 1..MaxObjects
Unfinished == {k \in Object : readyState[k] # "none"}

PageInit ==
  /\ Init
  /\ ws = None /\ connected = FALSE
  /\ reconnectTimer = FALSE /\ booting = TRUE
  /\ readyState = [k \in Object |-> "none"]
  /\ via = [k \in Object |-> None]
  /\ screen = <<>> /\ overlapped = FALSE

-----------------------------------------------------------------------------
(* The page.                                                               *)

\* ws.close(), if there is a ws
Closing == [k \in Object |-> IF k = ws THEN "CLOSING" ELSE readyState[k]]

connect ==
  \E k \in Object \ Unfinished :
    /\ \A o \in Object : o < k => o \in Unfinished
    /\ ws' = k
    /\ readyState' = [Closing EXCEPT ![k] = "CONNECTING"]
    /\ overlapped' = (overlapped \/ Unfinished # {})

Boot ==
  /\ booting /\ booting' = FALSE
  /\ connect
  /\ UNCHANGED <<connected, reconnectTimer, via, screen>>

ClickConnect ==
  /\ ~connected
  /\ connect
  /\ UNCHANGED <<connected, reconnectTimer, booting, via, screen>>

disconnect ==
  /\ connected /\ connected' = FALSE
  /\ reconnectTimer' = FALSE
  /\ readyState' = Closing /\ ws' = None
  /\ UNCHANGED <<booting, via, screen, overlapped>>

TimerFires ==
  /\ reconnectTimer /\ reconnectTimer' = FALSE
  /\ IF connected THEN UNCHANGED <<ws, readyState, overlapped>> ELSE connect
  /\ UNCHANGED <<connected, booting, via, screen>>

\* onopen, and the messages that came before it
OnOpen(k) ==
  /\ readyState[k] = "CONNECTING" /\ via[k] # None
  /\ readyState' = [readyState EXCEPT ![k] = "OPEN"]
  /\ connected' = TRUE
  /\ screen' = screen \o got[via[k]]
  /\ UNCHANGED <<ws, reconnectTimer, booting, via, overlapped>>

\* Variant: only a terminal that was connected comes back.
RescheduledIfConnected == reconnectTimer \/ connected

\* scheduleReconnect, which leaves a timer that runs alone
Rescheduled == TRUE

\* Variant: status and ws are left as they are.
OnCloseReschedules(k) ==
  /\ k \in Unfinished
  /\ readyState' = [readyState EXCEPT ![k] = "none"]
  /\ via' = [via EXCEPT ![k] = None]
  /\ reconnectTimer' = Rescheduled
  /\ UNCHANGED <<ws, connected, booting, screen, overlapped>>

\* onerror and onclose: the object is closed, or the attempt or the connection has failed.
OnClose(k) ==
  /\ k \in Unfinished
  /\ readyState' = [readyState EXCEPT ![k] = "none"]
  /\ via' = [via EXCEPT ![k] = None]
  /\ connected' = FALSE
  /\ ws' = None
  /\ reconnectTimer' = Rescheduled
  /\ UNCHANGED <<booting, screen, overlapped>>

Page == \/ Boot \/ ClickConnect \/ disconnect \/ TimerFires
        \/ \E k \in Object : OnOpen(k) \/ OnClose(k)

-----------------------------------------------------------------------------
(* The web server, as this page sees it.                                   *)

\* onmessage: an open object writes what is sent on its connection, once for each slot.
Arrives(k, i) ==
  /\ readyState[k] = "OPEN" /\ via[k] # None
  /\ via[k] = ws_clients[i] /\ got'[via[k]] # got[via[k]]

Written ==
  [n \in 1..Cardinality({i \in Slots : \E k \in Object : Arrives(k, i)}) |-> Head(jobs)]

PageBroadcast ==
  /\ Broadcast
  /\ screen' = screen \o Written
  /\ UNCHANGED <<ws, connected, reconnectTimer, booting, readyState, via, overlapped>>

\* The connection is gone at the server; the page may learn of it later, or not.
Cut(fd) ==
  /\ Displace(fd) \/ ConnectionLost(fd) \/ WsClosed(fd)
  /\ via' = [k \in Object |-> IF via[k] = fd THEN None ELSE via[k]]
  /\ UNCHANGED <<ws, connected, reconnectTimer, booting, readyState, screen, overlapped>>

\* A handshake, of this page or of another browser
Shake(fd) ==
  /\ PostHandshake(fd)
  /\ \/ via' = via
     \/ \E k \in Object : /\ readyState[k] = "CONNECTING" /\ via[k] = None
                          /\ via' = [via EXCEPT ![k] = fd]
  /\ UNCHANGED <<ws, connected, reconnectTimer, booting, readyState, screen, overlapped>>

Elsewhere == HttpdStart \/ InitClients \/ QueueBroadcast \/ \E fd \in Socket : Accept(fd)

PageNext ==
  \/ Page /\ UNCHANGED vars
  \/ PageBroadcast
  \/ \E fd \in Socket : Cut(fd) \/ Shake(fd)
  \/ Elsewhere /\ UNCHANGED pageVars

\* Timers fire, and a browser does not wait for ever for the answer to a close frame.
PageFairness ==
  /\ WF_<<vars, pageVars>>(Boot /\ UNCHANGED vars)
  /\ WF_<<vars, pageVars>>(TimerFires /\ UNCHANGED vars)
  /\ \A k \in Object :
       WF_<<vars, pageVars>>(readyState[k] = "CLOSING" /\ OnClose(k) /\ UNCHANGED vars)

PageSpec == PageInit /\ [][PageNext]_<<vars, pageVars>> /\ PageFairness

-----------------------------------------------------------------------------
(* Properties.                                                             *)

\* The page's variables keep their types, ws is never an object that is finished, and an
\* object that is not finished has its descriptor for itself.
PageTypeOK ==
  /\ ws \in Unfinished \cup {None}
  /\ {connected, reconnectTimer, booting, overlapped} \subseteq BOOLEAN
  /\ readyState \in [Object -> {"none", "CONNECTING", "OPEN", "CLOSING"}]
  /\ via \in [Object -> Socket \cup {None}]
  /\ \A k \in Object : via[k] # None =>
       k \in Unfinished /\ conn[via[k]] = "ws" /\ \A o \in Object \ {k} : via[o] # via[k]
  /\ screen \in Seq(Nat)

\* sendWsData: while the page shows CONNECTED a keystroke finds ws open, unless the page
\* made an object while another was not finished: the late onclose of the other then
\* takes ws away (web_terminal.html, connect and its onclose).
KeysGoOut == connected /\ ~overlapped => ws # None /\ readyState[ws] = "OPEN"

\* Whatever is clicked and whatever fails, in whatever order the callbacks come, a
\* connection, an attempt or a timer is left that will bring the terminal back.
NeverGivesUp == booting \/ reconnectTimer \/ Unfinished # {}

\* However often the connection is lost, displaced and made again, under old and new
\* descriptors, the terminal shows no output twice and none out of order.
OutputOnce ==
  ~overlapped => \A i, j \in DOMAIN screen : i < j => screen[i] < screen[j]

\* The page does not stay offline: it is, again and again, connected or trying.
KeepsConnecting ==
  []<>(\E k \in Object : readyState[k] \in {"CONNECTING", "OPEN"})
=============================================================================
