------------------------------ MODULE WgClient ------------------------------
(***************************************************************************)
(* The life cycle of the WireGuard client: wg_client_start and             *)
(* wg_client_stop (main/wg_client.c) with the esp_wireguard_* calls they   *)
(* make.  Nothing in the two functions is protected by a lock, and three   *)
(* tasks call them: the event loop, the task that waits for NTP, and the   *)
(* web server.  A call is therefore split where another task can run, most *)
(* of all in the name lookup, which blocks for seconds.                    *)
(*                                                                         *)
(* call[t] is where task t stands in its call:                             *)
(*   wg_client_stop:   "disconnect" -> "stopped"                           *)
(*   wg_client_start:  "create" -> "resolve" -> "done"                     *)
(* StopCheck and StartCheck are the first steps of the two functions; the  *)
(* calling module says when a task takes them, and what follows "stopped"  *)
(* and "done".                                                             *)
(***************************************************************************)
CONSTANTS
  Threads,              \* the tasks that start and stop the client
  InvalidKeys           \* may the settings hold a peer's key that does not decode?

ASSUME KeysAssumption == InvalidKeys \in BOOLEAN

VARIABLES
  s_running,            \* the client believes the tunnel is up
  ctx,                  \* s_wg_ctx: [netif |-> is it non-NULL, def |-> netif_default]
  linked,               \* wg_netif_struct is in lwIP's list of interfaces
  netif_default,        \* lwIP's default route
  monitored,            \* some wg_monitor_task is alive
  call,
  panic                 \* the assertion that stopped the device, or "no"

wgVars == <<s_running, ctx, linked, netif_default, monitored, call, panic>>

Ifaces == {"none", "ETH", "WIFI"}
Calls  == {"none", "disconnect", "stopped", "create", "resolve", "done"}
Panics == {"no", "netif already added", "netif != NULL"}

WgTypeOK ==
  /\ s_running \in BOOLEAN /\ linked \in BOOLEAN
  /\ ctx \in [netif : BOOLEAN, def : Ifaces]
  /\ netif_default \in Ifaces
  /\ monitored \in BOOLEAN
  /\ call \in [Threads -> Calls]
  /\ panic \in Panics

WgInit ==
  /\ s_running = FALSE /\ linked = FALSE
  /\ ctx = [netif |-> FALSE, def |-> "none"]
  /\ netif_default = "none"
  /\ monitored = FALSE
  /\ call = [t \in Threads |-> "none"]
  /\ panic = "no"

GoTo(t, step) == call' = [call EXCEPT ![t] = step]

-----------------------------------------------------------------------------
(* wg_client_stop *)

\* Variant: s_running is cleared only after the disconnect.
StopCheckLate(t) ==
  /\ s_running' = s_running
  /\ GoTo(t, IF s_running THEN "disconnect" ELSE "stopped")
  /\ UNCHANGED <<ctx, linked, netif_default, monitored, panic>>

StopCheck(t) ==
  /\ s_running' = FALSE
  /\ GoTo(t, IF s_running THEN "disconnect" ELSE "stopped")
  /\ UNCHANGED <<ctx, linked, netif_default, monitored, panic>>

\* esp_wireguard_disconnect: take the interface away and restore the default
\* route that was noted when the tunnel was connected.
Disconnect(t) ==
  /\ call[t] = "disconnect"
  /\ ctx.netif
  /\ linked' = FALSE
  /\ netif_default' = ctx.def
  /\ ctx' = [ctx EXCEPT !.netif = FALSE]
  /\ GoTo(t, "stopped")
  /\ UNCHANGED <<s_running, monitored, panic>>

\* The same call on a NULL interface stops in wireguardif_lookup_peer.
DisconnectNull(t) ==
  /\ call[t] = "disconnect"
  /\ ~ctx.netif
  /\ panic' = "netif != NULL"
  /\ UNCHANGED <<s_running, ctx, linked, netif_default, monitored, call>>

-----------------------------------------------------------------------------
(* wg_client_start; the client is enabled and no setting it needs is empty. *)

StartCheck(t) ==
  /\ GoTo(t, IF s_running THEN "done" ELSE "create")
  /\ UNCHANGED <<s_running, ctx, linked, netif_default, monitored, panic>>

\* esp_wireguard_init, then esp_wireguard_netif_create: netif_add links the one
\* static interface and wireguardif_init binds it to the interface best, the
\* result of wireguardif_pick_underlying_netif; with no such interface nothing
\* is linked.  lwIP asserts that the interface is not in its list yet.
Create(t, best) ==
  /\ call[t] = "create"
  /\ ctx' = [netif |-> FALSE, def |-> netif_default]
  /\ \/ /\ best = "none"
        /\ GoTo(t, "done")
        /\ UNCHANGED <<linked, panic>>
     \/ /\ best # "none" /\ ~linked
        /\ linked' = TRUE
        /\ GoTo(t, "resolve")
        /\ UNCHANGED panic
     \/ /\ best # "none" /\ linked
        /\ panic' = "netif already added"
        /\ UNCHANGED <<linked, call>>
  /\ UNCHANGED <<s_running, netif_default, monitored>>

\* getaddrinfo fails: the call returns an error and leaves the interface linked.
ResolveFails(t) ==
  /\ call[t] = "resolve"
  /\ GoTo(t, "done")
  /\ UNCHANGED <<s_running, ctx, linked, netif_default, monitored, panic>>

\* The peer is added and connected; the client is running and a monitor starts.
Attach(t) ==
  /\ call[t] = "resolve"
  /\ ctx' = [netif |-> TRUE, def |-> netif_default]
  /\ s_running' = TRUE
  /\ monitored' = TRUE
  /\ GoTo(t, "done")
  /\ UNCHANGED <<linked, netif_default, panic>>

\* wireguardif_add_peer refuses the peer's key: esp_wireguard_connect leaves
\* through "fail" with err still ESP_OK, so the client counts as running.
AttachRefused(t) ==
  /\ InvalidKeys
  /\ call[t] = "resolve"
  /\ s_running' = TRUE
  /\ monitored' = TRUE
  /\ GoTo(t, "done")
  /\ UNCHANGED <<ctx, linked, netif_default, panic>>

-----------------------------------------------------------------------------
(* wg_monitor_task: while (s_running) { wait 5 s; ask whether the peer is up } *)

MonitorEnds ==
  /\ monitored /\ ~s_running
  /\ monitored' = FALSE
  /\ UNCHANGED <<s_running, ctx, linked, netif_default, call, panic>>

\* The question is asked after the wait, of whatever ctx.netif is by then.
MonitorAsksNull ==
  /\ monitored /\ ~ctx.netif
  /\ panic' = "netif != NULL"
  /\ UNCHANGED <<s_running, ctx, linked, netif_default, monitored, call>>

WgStep(t, best) ==
  \/ Disconnect(t) \/ DisconnectNull(t) \/ Create(t, best)
  \/ ResolveFails(t) \/ Attach(t) \/ AttachRefused(t)

WgMonitor == MonitorEnds \/ MonitorAsksNull

-----------------------------------------------------------------------------
(* Properties.                                                             *)

\* A task that works on the linked interface.
Holds(t) == call[t] \in {"resolve", "disconnect"}

\* Three tasks without a lock: the interface still has at most one owner, the
\* task that is setting it up or taking it down, or the running client.
LinkHasOneOwner ==
  /\ s_running => linked /\ \A t \in Threads : ~Holds(t)
  /\ \A t \in Threads : Holds(t) => linked
  /\ \A t, u \in Threads : Holds(t) /\ Holds(u) => t = u
=============================================================================
