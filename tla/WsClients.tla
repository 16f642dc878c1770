------------------------------ MODULE WsClients ------------------------------
(***************************************************************************)
(* The browsers at the terminal: the table of descriptors in main.c, the   *)
(* jobs other tasks queue to the web server, and the connections the web   *)
(* server accepts, loses and closes without telling main.c.  Handlers and  *)
(* jobs are run by the server's task, one at a time.                       *)
(*                                                                         *)
(* A descriptor is used again by the next connection that is accepted.     *)
(***************************************************************************)
EXTENDS Naturals, Sequences, FiniteSets

CONSTANTS
  Socket,               \* the descriptors of max_open_sockets connections
  None,                 \* -1, an empty slot
  MAX_WS_CLIENTS,
  MaxJobs,              \* bound: jobs queued
  MaxConns              \* bound: connections accepted

ASSUME TableAssumption ==
  /\ MAX_WS_CLIENTS \in Nat
  /\ IsFiniteSet(Socket) /\ Cardinality(Socket) <= MAX_WS_CLIENTS
ASSUME NoneAssumption   == None \notin Socket
ASSUME BoundsAssumption == MaxJobs \in Nat /\ MaxConns \in Nat

VARIABLES
  server,               \* httpd_start has returned
  ws_mutex,             \* init_ws_clients is done and the handlers are registered
  ws_clients,           \* the table
  jobs,                 \* the numbers of the jobs not run yet
  queued,               \* jobs queued so far
  conn,                 \* what each descriptor is: "closed", "http" or "ws"
  got,                  \* the jobs sent on each connection
  since,                \* history: jobs run before its handshake
  missed,               \* history: connections a send has failed on
  conns                 \* what is left of the bound

vars == <<server, ws_mutex, ws_clients, jobs, queued, conn, got, since, missed, conns>>

Slots  == 1..MAX_WS_CLIENTS
Listed == {ws_clients[i] : i \in Slots} \ {None}
Run    == queued - Len(jobs)        \* jobs run so far

TypeOK ==
  /\ server \in BOOLEAN /\ ws_mutex \in BOOLEAN
  /\ ws_clients \in [Slots -> Socket \cup {None}]
  /\ jobs \in Seq(Nat) /\ queued \in Nat /\ conns \in Nat
  /\ conn \in [Socket -> {"closed", "http", "ws"}]
  /\ got \in [Socket -> Seq(Nat)]
  /\ since \in [Socket -> Nat]
  /\ missed \subseteq Socket

Init ==
  /\ server = FALSE /\ ws_mutex = FALSE
  /\ ws_clients = [i \in Slots |-> None]
  /\ jobs = <<>> /\ queued = 0
  /\ conn = [fd \in Socket |-> "closed"]
  /\ got = [fd \in Socket |-> <<>>]
  /\ since = [fd \in Socket |-> 0]
  /\ missed = {}
  /\ conns = MaxConns

-----------------------------------------------------------------------------
(* start_webserver: the server runs before the table is made.              *)

HttpdStart ==
  /\ ~server
  /\ server' = TRUE
  /\ UNCHANGED <<ws_mutex, ws_clients, jobs, queued, conn, got, since, missed, conns>>

InitClients ==
  /\ server /\ ~ws_mutex
  /\ ws_clients' = [i \in Slots |-> None]
  /\ ws_mutex' = TRUE
  /\ UNCHANGED <<server, jobs, queued, conn, got, since, missed, conns>>

-----------------------------------------------------------------------------
(* queue_broadcast_to_ws and cdc_rx_callback, from any task.  A job that   *)
(* finds no memory is not queued, and nothing has happened.                *)

Enqueued ==
  /\ queued < MaxJobs
  /\ queued' = queued + 1
  /\ jobs' = Append(jobs, queued')

QueueBroadcast ==
  /\ server
  /\ Enqueued
  /\ UNCHANGED <<server, ws_mutex, ws_clients, conn, got, since, missed, conns>>

\* broadcast_to_ws: a send fails on a closed descriptor and may fail on any; the
\* entry is dropped then.  Whether it is a WebSocket's is not asked.
Copies(fd) == [k \in 1..Cardinality({i \in Slots : ws_clients[i] = fd}) |-> Head(jobs)]

Broadcast ==
  /\ jobs # <<>>
  /\ jobs' = Tail(jobs)
  /\ IF ws_mutex
     THEN \E failed \in SUBSET Listed :
            /\ {fd \in Listed : conn[fd] = "closed"} \subseteq failed
            /\ ws_clients' = [i \in Slots |->
                                IF ws_clients[i] \in failed THEN None ELSE ws_clients[i]]
            /\ got' = [fd \in Socket |-> IF fd \in Listed \ failed
                                         THEN got[fd] \o Copies(fd) ELSE got[fd]]
            /\ missed' = missed \cup failed
     ELSE UNCHANGED <<ws_clients, got, missed>>
  /\ UNCHANGED <<server, ws_mutex, queued, conn, since, conns>>

-----------------------------------------------------------------------------
(* Connections.  The web server closes one, with no handler of main.c run, *)
(* when the peer is gone or when a further one wants to be accepted.       *)

Becomes(fd, kind) ==
  /\ conn' = [conn EXCEPT ![fd] = kind]
  /\ got' = [got EXCEPT ![fd] = <<>>]
  /\ missed' = missed \ {fd}

Accept(fd) ==
  /\ server /\ conns > 0
  /\ conn[fd] = "closed"
  /\ conns' = conns - 1
  /\ Becomes(fd, "http")
  /\ UNCHANGED <<server, ws_mutex, ws_clients, jobs, queued, since>>

\* lru_purge_enable: with every socket in use, one makes way.
Displace(fd) ==
  /\ server /\ conns > 0
  /\ \A other \in Socket : conn[other] # "closed"
  /\ conns' = conns - 1
  /\ Becomes(fd, "http")
  /\ UNCHANGED <<server, ws_mutex, ws_clients, jobs, queued, since>>

ConnectionLost(fd) ==
  /\ conn[fd] # "closed"
  /\ Becomes(fd, "closed")
  /\ UNCHANGED <<server, ws_mutex, ws_clients, jobs, queued, since, conns>>

-----------------------------------------------------------------------------
(* The handlers of /ws.                                                    *)

\* The first slot that holds x gets y.
FirstReplaced(x, y) ==
  LET at == {i \in Slots : ws_clients[i] = x}
  IN  IF at = {} THEN ws_clients
      ELSE [ws_clients EXCEPT ![CHOOSE i \in at : \A j \in at : i <= j] = y]

\* Variant: the descriptor is not looked for first.
AddedAnyway(fd) == FirstReplaced(None, fd)

\* add_ws_client: an entry left behind by an earlier connection serves again; a
\* full table refuses without a word.
Added(fd) == IF fd \in Listed THEN ws_clients ELSE FirstReplaced(None, fd)

\* Variant: 0 stands for an empty slot, as before init_ws_clients.
RemovedAsZero(fd) == FirstReplaced(fd, 0)

\* remove_ws_client
Removed(fd) == FirstReplaced(fd, None)

\* ws_post_handshake_cb adds the descriptor and queues the status.
PostHandshake(fd) ==
  /\ ws_mutex
  /\ conn[fd] = "http"
  /\ ws_clients' = Added(fd)
  /\ Becomes(fd, "ws")
  /\ since' = [since EXCEPT ![fd] = Run]
  /\ Enqueued \/ UNCHANGED <<jobs, queued>>
  /\ UNCHANGED <<server, ws_mutex, conns>>

\* ws_handler: a frame that cannot be received, or a close frame, after which
\* the web server closes the connection.  Other frames do nothing here, or
\* queue the message that they could not be sent on (QueueBroadcast).
WsClosed(fd) ==
  /\ ws_mutex
  /\ conn[fd] = "ws"
  /\ ws_clients' = Removed(fd)
  /\ Becomes(fd, "closed")
  /\ UNCHANGED <<server, ws_mutex, jobs, queued, since, conns>>

Next ==
  \/ HttpdStart \/ InitClients
  \/ QueueBroadcast \/ Broadcast
  \/ \E fd \in Socket :
       Accept(fd) \/ Displace(fd) \/ ConnectionLost(fd) \/ PostHandshake(fd) \/ WsClosed(fd)

Spec == Init /\ [][Next]_vars

-----------------------------------------------------------------------------
(* Properties.                                                             *)

\* Whatever descriptors were left behind and used again, the table names each
\* at most once: no browser gets the console's output twice.
ListedOnce ==
  \A i, j \in Slots : ws_clients[i] = ws_clients[j] => i = j \/ ws_clients[i] = None

\* A browser at the terminal has got every job run since its handshake, each
\* once and in the order they were queued, unless a send to it has failed:
\* the table is never full of descriptors left behind (main.c: MAX_WS_CLIENTS
\* and max_open_sockets are both 4).
ScreenComplete ==
  \A fd \in Socket : conn[fd] = "ws" /\ fd \notin missed =>
    got[fd] = [k \in 1..(Run - since[fd]) |-> since[fd] + k]
=============================================================================
