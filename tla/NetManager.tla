----------------------------- MODULE NetManager -----------------------------
(***************************************************************************)
(* Which interface carries the device: the event handler of main.c, the    *)
(* functions it calls, the tasks it starts and the web requests that touch *)
(* the same flags.  One task runs the handlers, one event at a time, from  *)
(* a FIFO queue; the drivers post to that queue while a handler runs, and  *)
(* a handler that waits (100 ms in wifi_sta_shutdown, seconds in the name  *)
(* lookup of wg_client_start) is split there.                              *)
(*                                                                         *)
(* Handlers of one event run in the order they were registered: app_main   *)
(* registers wifi_event_handler before eth_w5500_init attaches the         *)
(* Ethernet interface, so at a link loss the handler of main.c runs while  *)
(* the interface still has its address ("glue" is the other handler).      *)
(***************************************************************************)
EXTENDS WgClient, Naturals, Sequences

CONSTANTS
  WIFI_MAX_RETRIES,     \* 8 in the code
  Budgets               \* bound: <<f, r>> for f faults (link changes, expired leases,
                        \* lost access points) and r settings requests

ASSUME RetriesAssumption == WIFI_MAX_RETRIES \in Nat \ {0}
ASSUME ThreadsAssumption == Threads = {"loop", "ntp", "httpd"}
ASSUME BoundsAssumption  == Budgets \subseteq Nat \X Nat

VARIABLES
  queue,                \* events posted and not handled
  loop,                 \* where the event task is: "idle", "off", "wg", "glue"
  wg_started, sntp_started, ap_mode, wifi_retries, eth_connected, wifi_sta_off, server,
  wifi,                 \* the WiFi driver: [started, mode, sta]
  eth,                  \* the Ethernet interface: [link, dhcp, ip, lost]
  ntp,                  \* the task wg_start_after_ntp_task
  httpd,                \* the settings request being served
  wg_enabled, boot_ap,  \* what the flash holds of them
  faults, requests      \* what is left of the budget

flags   == <<wg_started, sntp_started, ap_mode, wifi_retries, eth_connected, wifi_sta_off, server>>
drivers == <<wifi, eth>>
tasks   == <<ntp, httpd, wg_enabled, boot_ap, requests>>
vars    == <<wgVars, queue, loop, flags, drivers, tasks, faults>>

Events == {"STA_START", "STA_DISCONNECTED", "AP_START", "STA_GOT_IP",
           "ETH_CONNECTED", "ETH_DISCONNECTED", "ETH_GOT_IP", "ETH_LOST_IP"}

WifiStates == [started : BOOLEAN, mode : {"STA", "AP"}, sta : {"idle", "connecting", "ip"}]
EthStates  == [link : BOOLEAN, dhcp : BOOLEAN, ip : BOOLEAN, lost : BOOLEAN]

TypeOK ==
  /\ WgTypeOK
  /\ queue \in Seq(Events)
  /\ loop \in {"idle", "off", "wg", "glue"}
  /\ wg_started \in BOOLEAN /\ sntp_started \in BOOLEAN /\ ap_mode \in BOOLEAN
  /\ eth_connected \in BOOLEAN /\ wifi_sta_off \in BOOLEAN /\ server \in BOOLEAN
  /\ wifi_retries \in 0..(WIFI_MAX_RETRIES + 1)
  /\ wifi \in WifiStates /\ eth \in EthStates
  /\ ntp \in {"none", "waiting", "starting", "done"}
  /\ httpd \in {"idle", "reconnect", "wg", "reboot"}
  /\ wg_enabled \in BOOLEAN /\ boot_ap \in BOOLEAN
  /\ faults \in Nat /\ requests \in Nat

-----------------------------------------------------------------------------
(* The WiFi driver: what a call does to it and the events the call posts.  *)

Idle(w)       == [w EXCEPT !.sta = "idle"]
Connected(w)  == IF w.started /\ w.mode = "STA" /\ w.sta = "idle"
                 THEN [w EXCEPT !.sta = "connecting"] ELSE w
DropEvents(w) == IF w.sta = "idle" THEN <<>> ELSE <<"STA_DISCONNECTED">>
StartEvent(mode) == IF mode = "AP" THEN "AP_START" ELSE "STA_START"

\* wireguardif_pick_underlying_netif: Ethernet if it has an address, then the
\* station, then the interface of the default route.
Underlay == IF eth.ip THEN "ETH"
            ELSE IF wifi.sta = "ip" THEN "WIFI" ELSE netif_default

ClientStep(t) ==
  WgStep(t, Underlay) /\ UNCHANGED <<queue, loop, flags, drivers, tasks, faults>>

\* app_main starts WiFi as station or, once after the flag in the flash was
\* set, as access point; then Ethernet, whose link may be there already.
BootWifi(ap) == [started |-> TRUE, mode |-> IF ap THEN "AP" ELSE "STA", sta |-> "idle"]
BootEth(link) == [link |-> link, dhcp |-> FALSE, ip |-> FALSE, lost |-> FALSE]
BootEvents(w, e) == <<StartEvent(w.mode)>> \o IF e.link THEN <<"ETH_CONNECTED">> ELSE <<>>

Init ==
  /\ WgInit
  /\ wg_started = FALSE /\ sntp_started = FALSE /\ server = FALSE
  /\ eth_connected = FALSE /\ wifi_sta_off = FALSE /\ ap_mode \in BOOLEAN
  /\ wifi_retries = 0
  /\ wifi = BootWifi(ap_mode)
  /\ eth \in {BootEth(link) : link \in BOOLEAN}
  /\ queue = BootEvents(wifi, eth)
  /\ loop = "idle" /\ ntp = "none" /\ httpd = "idle"
  /\ wg_enabled \in BOOLEAN /\ boot_ap = FALSE
  /\ \E budget \in Budgets : faults = budget[1] /\ requests = budget[2]

-----------------------------------------------------------------------------
(* wifi_event_handler.  Every action takes the first event of the queue.   *)

Take(event, posted) ==
  /\ loop = "idle"
  /\ queue # <<>> /\ Head(queue) = event
  /\ queue' = Tail(queue) \o posted

StaStart ==
  /\ Take("STA_START", <<>>)
  /\ wifi' = IF wifi_sta_off THEN wifi ELSE Connected(wifi)
  /\ UNCHANGED <<wgVars, loop, flags, eth, tasks, faults>>

\* Ignored while Ethernet carries the device or the access point is up.
StaDisconnectedIgnored ==
  /\ wifi_sta_off \/ eth_connected \/ ap_mode
  /\ Take("STA_DISCONNECTED", <<>>)
  /\ UNCHANGED <<wgVars, loop, flags, drivers, tasks, faults>>

CountRetry ==
  /\ ~(wifi_sta_off \/ eth_connected \/ ap_mode)
  /\ wifi_retries' = IF wifi_retries > WIFI_MAX_RETRIES THEN wifi_retries ELSE wifi_retries + 1
  /\ UNCHANGED <<wgVars, loop, wg_started, sntp_started, eth_connected, wifi_sta_off, server,
                 eth, tasks, faults>>

StaRetry ==
  /\ CountRetry
  /\ wifi_retries < WIFI_MAX_RETRIES
  /\ Take("STA_DISCONNECTED", <<>>)
  /\ wifi' = Connected(wifi)
  /\ UNCHANGED ap_mode

\* No retry left, but the interface of Ethernet has an address.
StaGivesUp ==
  /\ CountRetry
  /\ wifi_retries >= WIFI_MAX_RETRIES /\ eth.ip
  /\ Take("STA_DISCONNECTED", <<>>)
  /\ UNCHANGED <<ap_mode, wifi>>

\* Variant: the station stays configured beside the access point.
StartApModeKeepsSta ==
  /\ CountRetry
  /\ wifi_retries >= WIFI_MAX_RETRIES /\ ~eth.ip
  /\ ap_mode' = TRUE
  /\ wifi' = [started |-> TRUE, mode |-> "APSTA", sta |-> "idle"]
  /\ Take("STA_DISCONNECTED", <<"AP_START">>)

\* start_ap_mode: wifi_apply_ap_config may fail, and then nothing is started.
StartApMode ==
  /\ CountRetry
  /\ wifi_retries >= WIFI_MAX_RETRIES /\ ~eth.ip
  /\ ap_mode' = TRUE
  /\ \E applied \in BOOLEAN :
       /\ wifi' = [started |-> applied, mode |-> "AP", sta |-> "idle"]
       /\ Take("STA_DISCONNECTED",
               DropEvents(wifi) \o IF applied THEN <<"AP_START">> ELSE <<>>)

\* Variant: only the GOT_IP handlers start the web server.
ApStartLogs ==
  /\ Take("AP_START", <<>>)
  /\ UNCHANGED <<wgVars, loop, flags, drivers, tasks, faults>>

ApStart ==
  /\ Take("AP_START", <<>>)
  /\ server' = TRUE
  /\ UNCHANGED <<wgVars, loop, wg_started, sntp_started, ap_mode, wifi_retries, eth_connected,
                 wifi_sta_off, drivers, tasks, faults>>

\* Variant: wifi_sta_shutdown forgets to ask for ap_mode.
EthGotIpInApMode ==
  /\ wifi_retries' = 0
  /\ eth_connected' = TRUE
  /\ netif_default' = "ETH"
  /\ Take("ETH_GOT_IP", DropEvents(wifi))
  /\ loop' = "off"
  /\ wifi_sta_off' = TRUE
  /\ wifi' = Idle(wifi)
  /\ UNCHANGED <<s_running, ctx, linked, monitored, call, panic,
                 wg_started, sntp_started, ap_mode, server, eth, tasks, faults>>

\* The interface of Ethernet becomes the default route and, unless this was
\* done before or the access point is up, wifi_sta_shutdown starts.
EthGotIp ==
  /\ wifi_retries' = 0
  /\ eth_connected' = TRUE
  /\ netif_default' = "ETH"
  /\ IF ap_mode \/ wifi_sta_off
     THEN /\ Take("ETH_GOT_IP", <<>>)
          /\ loop' = "wg"
          /\ UNCHANGED <<wifi_sta_off, wifi>>
     ELSE /\ Take("ETH_GOT_IP", DropEvents(wifi))
          /\ loop' = "off"
          /\ wifi_sta_off' = TRUE
          /\ wifi' = Idle(wifi)
  /\ UNCHANGED <<s_running, ctx, linked, monitored, call, panic,
                 wg_started, sntp_started, ap_mode, server, eth, tasks, faults>>

\* Variant: the station is disconnected but the driver keeps running.
ShutdownKeepsRadio ==
  /\ loop = "off"
  /\ loop' = "wg"
  /\ UNCHANGED <<wgVars, queue, flags, drivers, tasks, faults>>

\* ... which 100 ms after esp_wifi_disconnect calls esp_wifi_stop.
ShutdownStops ==
  /\ loop = "off"
  /\ loop' = "wg"
  /\ queue' = queue \o DropEvents(wifi)
  /\ wifi' = [Idle(wifi) EXCEPT !.started = FALSE]
  /\ UNCHANGED <<wgVars, flags, eth, tasks, faults>>

StaGotIp ==
  /\ Take("STA_GOT_IP", <<>>)
  /\ wifi_retries' = 0
  /\ netif_default' = IF eth_connected THEN netif_default ELSE "WIFI"
  /\ loop' = "wg"
  /\ UNCHANGED <<s_running, ctx, linked, monitored, call, panic,
                 wg_started, sntp_started, ap_mode, eth_connected, wifi_sta_off, server,
                 drivers, tasks, faults>>

\* wg_client_restart_if_running: stop, then start.
RestartBegins ==
  /\ loop = "wg" /\ call["loop"] = "none"
  /\ wg_started /\ wg_enabled
  /\ StopCheck("loop")
  /\ UNCHANGED <<queue, loop, flags, drivers, tasks, faults>>

RestartStarts ==
  /\ loop = "wg" /\ call["loop"] = "stopped"
  /\ wg_enabled
  /\ StartCheck("loop")
  /\ UNCHANGED <<queue, loop, flags, drivers, tasks, faults>>

\* The rest of both GOT_IP handlers: the web server, then SNTP and its task.
GotIpEnds ==
  /\ loop = "wg"
  /\ \/ call["loop"] = "none" /\ ~(wg_started /\ wg_enabled)
     \/ call["loop"] = "stopped" /\ ~wg_enabled
     \/ call["loop"] = "done"
  /\ GoTo("loop", "none")
  /\ loop' = "idle"
  /\ server' = TRUE
  /\ sntp_started' = TRUE
  /\ ntp' = IF sntp_started THEN ntp ELSE "waiting"
  /\ UNCHANGED <<s_running, ctx, linked, netif_default, monitored, panic, queue,
                 wg_started, ap_mode, wifi_retries, eth_connected, wifi_sta_off,
                 drivers, httpd, wg_enabled, boot_ap, requests, faults>>

\* Variant: restore only when the link is gone.
RestoresWithoutLink == ~ap_mode /\ wifi_sta_off /\ ~eth.link

\* wifi_sta_restore, called by both handlers of a lost Ethernet: what becomes
\* of the flags and of the driver.  esp_wifi_start may fail.
Restores == ~ap_mode /\ wifi_sta_off /\ ~eth.ip

EthLost(event) ==
  /\ eth_connected' = FALSE
  /\ IF eth_connected /\ Restores
     THEN /\ wifi_sta_off' = FALSE
          /\ wifi_retries' = 0
          /\ \E ok \in BOOLEAN :
               /\ wifi' = [wifi EXCEPT !.mode = "STA", !.started = ok]
               /\ Take(event, IF ok /\ ~wifi.started THEN <<"STA_START">> ELSE <<>>)
     ELSE Take(event, <<>>) /\ UNCHANGED <<wifi_sta_off, wifi_retries, wifi>>
  /\ UNCHANGED <<wgVars, wg_started, sntp_started, ap_mode, server, eth, tasks, faults>>

\* Variant: the lost address is only logged.
EthLostIpLogs ==
  /\ Take("ETH_LOST_IP", <<>>)
  /\ UNCHANGED <<wgVars, loop, flags, drivers, tasks, faults>>

EthLostIp == EthLost("ETH_LOST_IP") /\ UNCHANGED loop

EthDisconnected == EthLost("ETH_DISCONNECTED") /\ loop' = "glue"

\* The interface's own handler of the same event, registered later: the DHCP
\* client stops, the address goes, the lost-address timer starts.
EthGlueDown ==
  /\ loop = "glue"
  /\ loop' = "idle"
  /\ eth' = [eth EXCEPT !.dhcp = FALSE, !.ip = FALSE, !.lost = eth.lost \/ eth.ip]
  /\ UNCHANGED <<wgVars, queue, flags, wifi, tasks, faults>>

EthConnected ==
  /\ Take("ETH_CONNECTED", <<>>)
  /\ eth' = [eth EXCEPT !.dhcp = TRUE]
  /\ UNCHANGED <<wgVars, loop, flags, wifi, tasks, faults>>

EventLoop ==
  \/ StaStart \/ StaDisconnectedIgnored \/ StaRetry \/ StaGivesUp \/ StartApMode
  \/ ApStart \/ StaGotIp \/ EthGotIp \/ ShutdownStops
  \/ RestartBegins \/ RestartStarts \/ GotIpEnds
  \/ EthLostIp \/ EthDisconnected \/ EthGlueDown \/ EthConnected
  \/ ClientStep("loop")

-----------------------------------------------------------------------------
(* wg_start_after_ntp_task: it waits for NTP or ten seconds. *)

NtpWaited ==
  /\ ntp = "waiting"
  /\ IF wg_started
     THEN ntp' = "done" /\ UNCHANGED <<wg_started, wgVars>>
     ELSE /\ ntp' = IF wg_enabled THEN "starting" ELSE "done"
          /\ wg_started' = TRUE
          /\ IF wg_enabled THEN StartCheck("ntp") ELSE UNCHANGED wgVars
  /\ UNCHANGED <<queue, loop, sntp_started, ap_mode, wifi_retries, eth_connected, wifi_sta_off, server,
                 drivers, httpd, wg_enabled, boot_ap, requests, faults>>

NtpEnds ==
  /\ ntp = "starting" /\ call["ntp"] = "done"
  /\ ntp' = "done"
  /\ GoTo("ntp", "none")
  /\ UNCHANGED <<s_running, ctx, linked, netif_default, monitored, panic, queue, loop,
                 flags, drivers, httpd, wg_enabled, boot_ap, requests, faults>>

NtpTask ==
  \/ NtpWaited \/ NtpEnds
  \/ ClientStep("ntp")

-----------------------------------------------------------------------------
(* The web server's task, one request at a time. *)

Request ==
  /\ server /\ httpd = "idle" /\ requests > 0
  /\ requests' = requests - 1

\* POST /wg: the configuration is saved, then the client stopped ...
WgPost ==
  /\ Request
  /\ wg_enabled' \in BOOLEAN
  /\ httpd' = "wg"
  /\ StopCheck("httpd")
  /\ UNCHANGED <<queue, loop, flags, drivers, ntp, boot_ap, faults>>

\* ... wg_started reset, and the client started again if it is enabled.
WgPostStopped ==
  /\ httpd = "wg" /\ call["httpd"] = "stopped"
  /\ wg_started' = wg_enabled
  /\ IF wg_enabled THEN StartCheck("httpd")
     ELSE GoTo("httpd", "done")
          /\ UNCHANGED <<s_running, ctx, linked, netif_default, monitored, panic>>
  /\ UNCHANGED <<queue, loop, sntp_started, ap_mode, wifi_retries, eth_connected, wifi_sta_off, server,
                 drivers, tasks, faults>>

WgPostEnds ==
  /\ httpd = "wg" /\ call["httpd"] = "done"
  /\ httpd' = "idle"
  /\ GoTo("httpd", "none")
  /\ UNCHANGED <<s_running, ctx, linked, netif_default, monitored, panic,
                 queue, loop, flags, drivers, ntp, wg_enabled, boot_ap, requests, faults>>

\* POST /config as a station: wifi_reconnect, skipped while Ethernet is active.
Reconnect ==
  /\ Request
  /\ ~ap_mode
  /\ IF wifi_sta_off \/ eth_connected
     THEN UNCHANGED <<queue, wifi, httpd>>
     ELSE /\ queue' = queue \o DropEvents(wifi)
          /\ wifi' = Idle(wifi)
          /\ httpd' = "reconnect"
  /\ UNCHANGED <<wgVars, loop, flags, eth, ntp, wg_enabled, boot_ap, faults>>

\* Variant: the reconnect restarts a stopped driver.
ReconnectRestarts ==
  /\ httpd = "reconnect"
  /\ httpd' = "idle"
  /\ wifi' = Connected([wifi EXCEPT !.started = TRUE])
  /\ UNCHANGED <<wgVars, queue, loop, flags, eth, ntp, wg_enabled, boot_ap, requests, faults>>

\* 100 ms later it connects, whatever has happened since.
ReconnectConnects ==
  /\ httpd = "reconnect"
  /\ httpd' = "idle"
  /\ wifi' = Connected(wifi)
  /\ UNCHANGED <<wgVars, queue, loop, flags, eth, ntp, wg_enabled, boot_ap, requests, faults>>

\* POST /reboot, and POST /config when the access point is up or a change needs
\* it, arm a timer that restarts the device; saved with the access point up,
\* the flag in the flash is set too.
RebootRequest ==
  /\ Request
  /\ httpd' = "reboot"
  /\ \/ UNCHANGED boot_ap
     \/ ap_mode /\ boot_ap' = TRUE
  /\ UNCHANGED <<wgVars, queue, loop, flags, drivers, ntp, wg_enabled, faults>>

\* config_consume_boot_ap erases the flag, app_main starts anew.
Reboot ==
  /\ httpd = "reboot"
  /\ s_running' = FALSE /\ linked' = FALSE /\ monitored' = FALSE
  /\ ctx' = [netif |-> FALSE, def |-> "none"]
  /\ netif_default' = "none"
  /\ call' = [t \in Threads |-> "none"]
  /\ wg_started' = FALSE /\ sntp_started' = FALSE /\ server' = FALSE
  /\ eth_connected' = FALSE /\ wifi_sta_off' = FALSE /\ ap_mode' = boot_ap
  /\ wifi_retries' = 0
  /\ wifi' = BootWifi(boot_ap)
  /\ eth' = BootEth(eth.link)
  /\ queue' = BootEvents(wifi', eth')
  /\ loop' = "idle" /\ ntp' = "none" /\ httpd' = "idle"
  /\ boot_ap' = FALSE
  /\ UNCHANGED panic
  /\ UNCHANGED <<wg_enabled, requests, faults>>

ServeRequest ==
  \/ WgPostStopped \/ WgPostEnds \/ ReconnectConnects \/ Reboot
  \/ ClientStep("httpd")

WebServer == WgPost \/ Reconnect \/ RebootRequest \/ ServeRequest

-----------------------------------------------------------------------------
(* The drivers and what happens to them.                                   *)

Post(event) == queue' = Append(queue, event)

StationGetsIp ==
  /\ wifi.sta = "connecting"
  /\ wifi' = [wifi EXCEPT !.sta = "ip"]
  /\ Post("STA_GOT_IP")
  /\ UNCHANGED <<wgVars, loop, flags, eth, tasks, faults>>

StationFails ==
  /\ wifi.sta = "connecting"
  /\ wifi' = Idle(wifi)
  /\ Post("STA_DISCONNECTED")
  /\ UNCHANGED <<wgVars, loop, flags, eth, tasks, faults>>

StationOutcome == StationGetsIp \/ StationFails

Fault == faults > 0 /\ faults' = faults - 1

StationDrops ==
  /\ Fault
  /\ wifi.sta = "ip"
  /\ wifi' = Idle(wifi)
  /\ Post("STA_DISCONNECTED")
  /\ UNCHANGED <<wgVars, loop, flags, eth, tasks>>

LinkChanges ==
  /\ Fault
  /\ eth' = [eth EXCEPT !.link = ~eth.link]
  /\ Post(IF eth.link THEN "ETH_DISCONNECTED" ELSE "ETH_CONNECTED")
  /\ UNCHANGED <<wgVars, loop, flags, wifi, tasks>>

\* The answer may be processed after the link was lost, while that event waits.
Lease ==
  /\ eth.dhcp /\ ~eth.ip
  /\ eth' = [eth EXCEPT !.ip = TRUE]
  /\ Post("ETH_GOT_IP")
  /\ UNCHANGED <<wgVars, loop, flags, wifi, tasks, faults>>

LeaseExpires ==
  /\ Fault
  /\ eth.ip
  /\ eth' = [eth EXCEPT !.ip = FALSE, !.lost = TRUE]
  /\ UNCHANGED <<wgVars, queue, loop, flags, wifi, tasks>>

\* The timer of 120 s (CONFIG_ESP_NETIF_IP_LOST_TIMER_INTERVAL).
LostTimer ==
  /\ eth.lost
  /\ eth' = [eth EXCEPT !.lost = FALSE]
  /\ IF eth.ip THEN UNCHANGED queue ELSE Post("ETH_LOST_IP")
  /\ UNCHANGED <<wgVars, loop, flags, wifi, tasks, faults>>

Environment ==
  \/ StationOutcome \/ StationDrops \/ LinkChanges
  \/ Lease \/ LeaseExpires \/ LostTimer
  \/ WgMonitor /\ UNCHANGED <<queue, loop, flags, drivers, tasks, faults>>

\* A failed assertion restarts the device into a state that Init covers.
Next ==
  /\ panic = "no"
  /\ EventLoop \/ NtpTask \/ WebServer \/ Environment

\* The tasks run, a connection attempt ends, a timer fires.  No lease, no NTP
\* answer and no request is ever owed.
Spec ==
  /\ Init /\ [][Next]_vars
  /\ WF_vars(panic = "no" /\ EventLoop)
  /\ WF_vars(panic = "no" /\ NtpTask)
  /\ WF_vars(panic = "no" /\ ServeRequest)
  /\ WF_vars(panic = "no" /\ StationOutcome)
  /\ WF_vars(panic = "no" /\ LostTimer)

-----------------------------------------------------------------------------
(* Properties.                                                             *)

Quiet == queue = <<>> /\ loop = "idle"

\* While the device counts as carried by Ethernet the radio is off: whatever
\* retries, reconnects and events were under way when the address came, the
\* station is stopped once the handler is back (main.c: "kein Dual-Radio").
NoDualRadio ==
  loop \in {"idle", "glue"} /\ eth_connected /\ ~ap_mode => ~wifi.started

\* The flag and the interface agree whenever no event and no timer is left,
\* even when a lease is granted after the link was lost, or events of several
\* flaps are handled late.
BeliefSettles == Quiet /\ ~eth.lost => (eth_connected <=> eth.ip)

\* The fallback access point and the switched-off station exclude each other.
ApExcludesOff == ~(ap_mode /\ wifi_sta_off)

\* The web server starts, whatever happens to WiFi and Ethernet, unless the
\* access point's configuration was refused.
ServerStarts == <>(server \/ (ap_mode /\ ~wifi.started) \/ panic # "no")

\* An address that was lost while the device counted as carried by Ethernet ends
\* in the station being switched on again, or in an address: also when the lease
\* was granted only after the link was lost.
LeaseLossRestores ==
  [](wifi_sta_off /\ eth_connected /\ ~eth.ip /\ eth.lost
     => <>(~wifi_sta_off \/ eth.ip \/ panic # "no"))

\* README.md: "ETH-Link oder DHCP-IP verloren: WLAN-STA wird automatisch wieder
\* aktiviert", here for the link.
LinkLossRestores ==
  [](wifi_sta_off /\ ~eth.link => <>(~wifi_sta_off \/ eth.link \/ panic # "no"))

\* README.md: "Ethernet wird bevorzugt (Default-Route)".
EthernetIsDefault ==
  Quiet /\ eth_connected /\ eth.ip => netif_default = "ETH"

\* wireguardif_lookup_peer asserts netif != NULL.
NetifNeverNull == panic # "netif != NULL"
=============================================================================
