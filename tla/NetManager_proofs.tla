------------------------- MODULE NetManager_proofs -------------------------
(***************************************************************************)
(* The network manager: types, one owner of the WireGuard interface, no    *)
(* two radios, a flag that settles on the state of the interface, a web    *)
(* server whose start is never forgotten and a loss of the address that is *)
(* never missed, for every limit of retries and every number of faults and *)
(* requests.                                                               *)
(***************************************************************************)
EXTENDS NetManager, WgClient_proofs

\* Why the radio is off while Ethernet carries the device: the station is
\* switched off with the flag, and only the shutdown itself may be on its way.
RadioInv ==
  /\ eth_connected /\ ~ap_mode => wifi_sta_off
  /\ wifi_sta_off /\ loop # "off" => ~wifi.started
  /\ ApExcludesOff

NetInv == TypeOK /\ LinkHasOneOwner /\ RadioInv

-----------------------------------------------------------------------------
(* What the helpers return.                                                *)

\* A disconnect leaves a driver that runs running.
LEMMA IdleTypes ==
  ASSUME NEW w \in WifiStates
  PROVE  Idle(w) \in WifiStates /\ Idle(w).started = w.started
  BY DEF Idle, WifiStates

\* A connect starts no driver.
LEMMA ConnectedTypes ==
  ASSUME NEW w \in WifiStates
  PROVE  Connected(w) \in WifiStates /\ Connected(w).started = w.started
  BY DEF Connected, WifiStates

\* A disconnect posts events only.
LEMMA DropTypes ==
  ASSUME NEW w
  PROVE  DropEvents(w) \in Seq(Events)
<1>1. <<>> \in Seq(Events) /\ <<"STA_DISCONNECTED">> \in Seq(Events)
  BY DEF Events
<1> QED
  BY <1>1 DEF DropEvents

\* WireGuard is sent over an interface there is.
LEMMA UnderlayTypes ==
  ASSUME netif_default \in Ifaces
  PROVE  Underlay \in Ifaces
  BY DEF Underlay, Ifaces

\* Taking the first event leaves a queue of events, whatever is posted behind it.
LEMMA TakeTypes ==
  ASSUME queue \in Seq(Events), NEW event, NEW posted \in Seq(Events), Take(event, posted)
  PROVE  queue' \in Seq(Events) /\ loop = "idle"
  BY DEF Take

\* Posting an event keeps a queue of events.
LEMMA PostTypes ==
  ASSUME queue \in Seq(Events), NEW event \in Events, Post(event)
  PROVE  queue' \in Seq(Events)
  BY DEF Post

\* What the handlers post are events.
LEMMA EventTypes ==
  /\ <<>> \in Seq(Events) /\ <<"STA_START">> \in Seq(Events) /\ <<"AP_START">> \in Seq(Events)
  /\ <<"ETH_CONNECTED">> \in Seq(Events)
  /\ \A s \in Seq(Events), u \in Seq(Events) : s \o u \in Seq(Events)
  BY DEF Events

\* So is what app_main causes.
LEMMA BootTypes ==
  ASSUME NEW w, NEW e
  PROVE  BootEvents(w, e) \in Seq(Events)
<1>1. <<StartEvent(w.mode)>> \in Seq(Events)
  BY DEF StartEvent, Events
<1> QED
  BY <1>1, EventTypes DEF BootEvents

\* The invariant by its parts.
LEMMA NetInvParts ==
  NetInv <=> WgInv /\ TypeOK /\ RadioInv
  BY DEF NetInv, WgInv, TypeOK

\* Whoever takes a step inside the client, the rest stands still.
LEMMA ClientStepKeeps ==
  ASSUME WgInv, TypeOK, RadioInv, NEW t \in Threads, ClientStep(t)
  PROVE  WgInv' /\ TypeOK' /\ RadioInv'
<1>1. Underlay \in Ifaces
  BY UnderlayTypes DEF WgInv, WgTypeOK
<1>2. WgInv'
  BY <1>1, WgStepKeeps DEF ClientStep
<1> QED
  BY <1>2 DEF ClientStep, TypeOK, WgInv, RadioInv, ApExcludesOff, flags, drivers, tasks

-----------------------------------------------------------------------------
(* The event loop.                                                         *)

\* Every handler, and every part of one, keeps the invariant.
LEMMA EventLoopKeeps ==
  ASSUME NetInv, EventLoop
  PROVE  NetInv'
<1>0. WgInv /\ TypeOK /\ RadioInv
  BY NetInvParts
<1>a. queue \in Seq(Events) /\ wifi \in WifiStates /\ eth \in EthStates /\ "loop" \in Threads
  BY <1>0, ThreadsAssumption DEF TypeOK
<1>b. SUFFICES WgInv' /\ TypeOK' /\ RadioInv'
  BY DEF NetInv, WgInv
<1>1. CASE StaStart
  <2>1. WgInv'
    BY <1>0, <1>1, WgStutterKeeps DEF StaStart
  <2>2. queue' \in Seq(Events)
    BY <1>a, <1>1, TakeTypes, EventTypes DEF StaStart
  <2>3. wifi' \in WifiStates /\ wifi'.started = wifi.started
    BY <1>a, <1>1, ConnectedTypes DEF StaStart
  <2> QED
    BY <1>0, <1>1, <2>1, <2>2, <2>3 DEF StaStart, TypeOK, WgInv, RadioInv, ApExcludesOff, flags, tasks
<1>2. CASE StaDisconnectedIgnored
  <2>1. WgInv'
    BY <1>0, <1>2, WgStutterKeeps DEF StaDisconnectedIgnored
  <2>2. queue' \in Seq(Events)
    BY <1>a, <1>2, TakeTypes, EventTypes DEF StaDisconnectedIgnored
  <2> QED
    BY <1>0, <1>2, <2>1, <2>2
    DEF StaDisconnectedIgnored, TypeOK, WgInv, RadioInv, ApExcludesOff, flags, drivers, tasks
<1>3. CASE StaRetry
  <2>1. WgInv'
    BY <1>0, <1>3, WgStutterKeeps DEF StaRetry, CountRetry
  <2>2. queue' \in Seq(Events)
    BY <1>a, <1>3, TakeTypes, EventTypes DEF StaRetry
  <2>3. wifi' \in WifiStates /\ wifi'.started = wifi.started
    BY <1>a, <1>3, ConnectedTypes DEF StaRetry
  <2> QED
    BY <1>0, <1>3, <2>1, <2>2, <2>3, RetriesAssumption
    DEF StaRetry, CountRetry, TypeOK, WgInv, RadioInv, ApExcludesOff, tasks
<1>4. CASE StaGivesUp
  <2>1. WgInv'
    BY <1>0, <1>4, WgStutterKeeps DEF StaGivesUp, CountRetry
  <2>2. queue' \in Seq(Events)
    BY <1>a, <1>4, TakeTypes, EventTypes DEF StaGivesUp
  <2> QED
    BY <1>0, <1>4, <2>1, <2>2, RetriesAssumption
    DEF StaGivesUp, CountRetry, TypeOK, WgInv, RadioInv, ApExcludesOff, tasks
<1>5. CASE StartApMode
  <2>1. WgInv'
    BY <1>0, <1>5, WgStutterKeeps DEF StartApMode, CountRetry
  <2>2. PICK applied \in BOOLEAN :
          /\ wifi' = [started |-> applied, mode |-> "AP", sta |-> "idle"]
          /\ Take("STA_DISCONNECTED",
                  DropEvents(wifi) \o IF applied THEN <<"AP_START">> ELSE <<>>)
    BY <1>5 DEF StartApMode
  <2>3. queue' \in Seq(Events)
    BY <1>a, <2>2, TakeTypes, EventTypes, DropTypes
  <2>4. wifi' \in WifiStates
    BY <2>2 DEF WifiStates
  <2> QED
    BY <1>0, <1>5, <2>1, <2>3, <2>4, RetriesAssumption
    DEF StartApMode, CountRetry, TypeOK, WgInv, RadioInv, ApExcludesOff, tasks
<1>6. CASE ApStart
  <2>1. WgInv'
    BY <1>0, <1>6, WgStutterKeeps DEF ApStart
  <2>2. queue' \in Seq(Events)
    BY <1>a, <1>6, TakeTypes, EventTypes DEF ApStart
  <2> QED
    BY <1>0, <1>6, <2>1, <2>2 DEF ApStart, TypeOK, WgInv, RadioInv, ApExcludesOff, drivers, tasks
<1>7. CASE StaGotIp
  <2>1. WgInv'
    BY <1>0, <1>7, DefaultKeeps DEF StaGotIp, WgInv, WgTypeOK, Ifaces
  <2>2. queue' \in Seq(Events) /\ loop = "idle"
    BY <1>a, <1>7, TakeTypes, EventTypes DEF StaGotIp
  <2> QED
    BY <1>0, <1>7, <2>1, <2>2, RetriesAssumption
    DEF StaGotIp, TypeOK, WgInv, RadioInv, ApExcludesOff, drivers, tasks
<1>8. CASE EthGotIp
  <2>1. WgInv'
    BY <1>0, <1>8, DefaultKeeps DEF EthGotIp, Ifaces
  <2>2. queue' \in Seq(Events) /\ loop = "idle"
    BY <1>a, <1>8, TakeTypes, EventTypes, DropTypes DEF EthGotIp
  <2>3. wifi' \in WifiStates /\ wifi'.started = wifi.started
    BY <1>a, <1>8, IdleTypes DEF EthGotIp
  <2>4. RadioInv'
    <3>1. CASE ap_mode \/ wifi_sta_off
      BY <1>0, <1>8, <2>2, <3>1 DEF EthGotIp, RadioInv, ApExcludesOff, TypeOK
    <3>2. CASE ~(ap_mode \/ wifi_sta_off)
      BY <1>0, <1>8, <2>2, <3>2 DEF EthGotIp, RadioInv, ApExcludesOff, TypeOK
    <3> QED
      BY <3>1, <3>2
  <2>5. loop' \in {"off", "wg"} /\ wifi_sta_off' \in BOOLEAN
    BY <1>0, <1>8 DEF EthGotIp, TypeOK
  <2>6. TypeOK'
    BY <1>0, <1>8, <2>1, <2>2, <2>3, <2>5, RetriesAssumption DEF EthGotIp, TypeOK, WgInv, tasks
  <2> QED
    BY <2>1, <2>4, <2>6
<1>9. CASE ShutdownStops
  <2>1. WgInv'
    BY <1>0, <1>9, WgStutterKeeps DEF ShutdownStops
  <2>2. queue' \in Seq(Events)
    BY <1>a, <1>9, EventTypes, DropTypes DEF ShutdownStops
  <2>3. wifi' \in WifiStates /\ ~wifi'.started
    <3>1. Idle(wifi) \in WifiStates
      BY <1>a, IdleTypes
    <3>2. wifi' = [Idle(wifi) EXCEPT !.started = FALSE]
      BY <1>9 DEF ShutdownStops
    <3> QED
      BY <3>1, <3>2 DEF WifiStates
  <2> QED
    BY <1>0, <1>9, <2>1, <2>2, <2>3
    DEF ShutdownStops, TypeOK, WgInv, RadioInv, ApExcludesOff, flags, tasks
<1>10. CASE RestartBegins
  <2>1. WgInv'
    BY <1>0, <1>a, <1>10, StopCheckKeeps DEF RestartBegins
  <2> QED
    BY <1>0, <1>10, <2>1 DEF RestartBegins, TypeOK, WgInv, RadioInv, ApExcludesOff, flags, drivers, tasks
<1>11. CASE RestartStarts
  <2>1. WgInv'
    BY <1>0, <1>a, <1>11, StartCheckKeeps DEF RestartStarts
  <2> QED
    BY <1>0, <1>11, <2>1 DEF RestartStarts, TypeOK, WgInv, RadioInv, ApExcludesOff, flags, drivers, tasks
<1>12. CASE GotIpEnds
  <2>1. WgInv'
    BY <1>0, <1>a, <1>12, GoToKeeps DEF GotIpEnds, Calls
  <2> QED
    BY <1>0, <1>12, <2>1 DEF GotIpEnds, TypeOK, WgInv, RadioInv, ApExcludesOff, drivers
<1>13. ASSUME NEW event \in Events, EthLost(event)
       PROVE  /\ WgInv' /\ RadioInv' /\ queue' \in Seq(Events) /\ loop = "idle"
              /\ wifi' \in WifiStates /\ wifi_retries' \in 0..(WIFI_MAX_RETRIES + 1)
              /\ wifi_sta_off' \in BOOLEAN /\ eth_connected' \in BOOLEAN
  <2>1. WgInv'
    BY <1>0, <1>13, WgStutterKeeps DEF EthLost
  <2>2. CASE eth_connected /\ Restores
    <3>1. PICK ok \in BOOLEAN :
            /\ wifi' = [wifi EXCEPT !.mode = "STA", !.started = ok]
            /\ Take(event, IF ok /\ ~wifi.started THEN <<"STA_START">> ELSE <<>>)
      BY <1>13, <2>2 DEF EthLost
    <3>2. queue' \in Seq(Events) /\ loop = "idle"
      BY <1>a, <3>1, TakeTypes, EventTypes
    <3>3. wifi' \in WifiStates
      BY <1>a, <3>1 DEF WifiStates
    <3>4. /\ eth_connected' = FALSE /\ wifi_sta_off' = FALSE /\ wifi_retries' = 0
          /\ ap_mode' = ap_mode
      BY <1>13, <2>2 DEF EthLost
    <3>5. RadioInv'
      BY <3>4 DEF RadioInv, ApExcludesOff
    <3>6. wifi_retries' \in 0..(WIFI_MAX_RETRIES + 1)
      BY <3>4, RetriesAssumption
    <3>7. wifi_sta_off' \in BOOLEAN /\ eth_connected' \in BOOLEAN
      BY <3>4
    <3> QED
      BY <2>1, <3>2, <3>3, <3>5, <3>6, <3>7
  <2>3. CASE ~(eth_connected /\ Restores)
    <3>1. queue' \in Seq(Events) /\ loop = "idle"
      BY <1>a, <1>13, <2>3, TakeTypes, EventTypes DEF EthLost
    <3>2. /\ eth_connected' = FALSE /\ ap_mode' = ap_mode
          /\ UNCHANGED <<wifi_sta_off, wifi_retries, wifi>>
      BY <1>13, <2>3 DEF EthLost
    <3>3. wifi_sta_off /\ loop' # "off" => ~wifi.started
      BY <1>0, <3>1 DEF RadioInv
    <3> QED
      BY <1>0, <2>1, <3>1, <3>2, <3>3 DEF RadioInv, ApExcludesOff, TypeOK
  <2> QED
    BY <2>2, <2>3
<1>14. CASE EthLostIp
  <2>1. EthLost("ETH_LOST_IP")
    BY <1>14 DEF EthLostIp
  <2>2. "ETH_LOST_IP" \in Events
    BY DEF Events
  <2>3. /\ WgInv' /\ RadioInv' /\ queue' \in Seq(Events) /\ wifi' \in WifiStates
        /\ wifi_retries' \in 0..(WIFI_MAX_RETRIES + 1)
        /\ wifi_sta_off' \in BOOLEAN /\ eth_connected' \in BOOLEAN
    BY <1>13, <2>1, <2>2
  <2>4. loop' \in {"idle", "off", "wg", "glue"}
    BY <1>0, <1>14 DEF EthLostIp, TypeOK
  <2>5. UNCHANGED <<wg_started, sntp_started, ap_mode, server, eth, tasks, faults>>
    BY <2>1 DEF EthLost
  <2>6. TypeOK'
    BY <1>0, <2>3, <2>4, <2>5 DEF TypeOK, WgInv, tasks
  <2> QED
    BY <2>3, <2>6
<1>15. CASE EthDisconnected
  <2>1. EthLost("ETH_DISCONNECTED")
    BY <1>15 DEF EthDisconnected
  <2>2. "ETH_DISCONNECTED" \in Events
    BY DEF Events
  <2>3. /\ WgInv' /\ RadioInv' /\ queue' \in Seq(Events) /\ wifi' \in WifiStates
        /\ wifi_retries' \in 0..(WIFI_MAX_RETRIES + 1)
        /\ wifi_sta_off' \in BOOLEAN /\ eth_connected' \in BOOLEAN
    BY <1>13, <2>1, <2>2
  <2>4. loop' \in {"idle", "off", "wg", "glue"}
    BY <1>0, <1>15 DEF EthDisconnected, TypeOK
  <2>5. UNCHANGED <<wg_started, sntp_started, ap_mode, server, eth, tasks, faults>>
    BY <2>1 DEF EthLost
  <2>6. TypeOK'
    BY <1>0, <2>3, <2>4, <2>5 DEF TypeOK, WgInv, tasks
  <2> QED
    BY <2>3, <2>6
<1>16. CASE EthGlueDown
  <2>1. WgInv'
    BY <1>0, <1>16, WgStutterKeeps DEF EthGlueDown
  <2>2. eth' \in EthStates
    BY <1>a, <1>16 DEF EthGlueDown, EthStates
  <2> QED
    BY <1>0, <1>16, <2>1, <2>2 DEF EthGlueDown, TypeOK, WgInv, RadioInv, ApExcludesOff, flags, tasks
<1>17. CASE EthConnected
  <2>1. WgInv'
    BY <1>0, <1>17, WgStutterKeeps DEF EthConnected
  <2>2. queue' \in Seq(Events)
    BY <1>a, <1>17, TakeTypes, EventTypes DEF EthConnected
  <2>3. eth' \in EthStates
    BY <1>a, <1>17 DEF EthConnected, EthStates
  <2> QED
    BY <1>0, <1>17, <2>1, <2>2, <2>3 DEF EthConnected, TypeOK, WgInv, RadioInv, ApExcludesOff, flags, tasks
<1>18. CASE ClientStep("loop")
  BY <1>0, <1>a, <1>18, ClientStepKeeps
<1> QED
  BY <1>1, <1>2, <1>3, <1>4, <1>5, <1>6, <1>7, <1>8, <1>9, <1>10, <1>11, <1>12, <1>14, <1>15,
     <1>16, <1>17, <1>18 DEF EventLoop

-----------------------------------------------------------------------------
(* The task that waits for NTP.                                            *)

\* The task that waits for NTP keeps the invariant.
LEMMA NtpTaskKeeps ==
  ASSUME NetInv, NtpTask
  PROVE  NetInv'
<1>0. WgInv /\ TypeOK /\ RadioInv
  BY NetInvParts
<1>a. queue \in Seq(Events) /\ wifi \in WifiStates /\ eth \in EthStates /\ Threads = {"loop", "ntp", "httpd"}
  BY <1>0, ThreadsAssumption DEF TypeOK
<1>b. SUFFICES WgInv' /\ TypeOK' /\ RadioInv'
  BY DEF NetInv, WgInv
<1>1. CASE NtpWaited
  <2>1. WgInv'
    <3>1. UNCHANGED wgVars \/ StartCheck("ntp")
      BY <1>1 DEF NtpWaited
    <3> QED
      BY <1>0, <1>a, <3>1, StartCheckKeeps, WgStutterKeeps
  <2>2. ntp' \in {"none", "waiting", "starting", "done"} /\ wg_started' \in BOOLEAN
    BY <1>0, <1>1 DEF NtpWaited, TypeOK
  <2> QED
    BY <1>0, <1>1, <2>1, <2>2 DEF NtpWaited, TypeOK, WgInv, RadioInv, ApExcludesOff, drivers
<1>2. CASE NtpEnds
  <2>1. WgInv'
    BY <1>0, <1>a, <1>2, GoToKeeps DEF NtpEnds, Calls
  <2> QED
    BY <1>0, <1>2, <2>1 DEF NtpEnds, TypeOK, WgInv, RadioInv, ApExcludesOff, flags, drivers
<1>3. CASE ClientStep("ntp")
  BY <1>0, <1>a, <1>3, ClientStepKeeps
<1> QED
  BY <1>1, <1>2, <1>3 DEF NtpTask

-----------------------------------------------------------------------------
(* The web server.                                                         *)

\* Every request, and the restart of the device, keeps the invariant.
LEMMA WebServerKeeps ==
  ASSUME NetInv, WebServer
  PROVE  NetInv'
<1>0. WgInv /\ TypeOK /\ RadioInv
  BY NetInvParts
<1>a. queue \in Seq(Events) /\ wifi \in WifiStates /\ eth \in EthStates /\ Threads = {"loop", "ntp", "httpd"}
  BY <1>0, ThreadsAssumption DEF TypeOK
<1>b. SUFFICES WgInv' /\ TypeOK' /\ RadioInv'
  BY DEF NetInv, WgInv
<1>1. CASE WgPost
  <2>1. WgInv'
    BY <1>0, <1>a, <1>1, StopCheckKeeps DEF WgPost
  <2> QED
    BY <1>0, <1>1, <2>1, BoundsAssumption
    DEF WgPost, Request, TypeOK, WgInv, RadioInv, ApExcludesOff, flags, drivers
<1>2. CASE WgPostStopped
  <2>1. WgInv'
    BY <1>0, <1>a, <1>2, StartCheckKeeps, GoToKeeps DEF WgPostStopped, Calls
  <2> QED
    BY <1>0, <1>2, <2>1 DEF WgPostStopped, TypeOK, WgInv, RadioInv, ApExcludesOff, drivers, tasks
<1>3. CASE WgPostEnds
  <2>1. WgInv'
    BY <1>0, <1>a, <1>3, GoToKeeps DEF WgPostEnds, Calls
  <2> QED
    BY <1>0, <1>3, <2>1 DEF WgPostEnds, TypeOK, WgInv, RadioInv, ApExcludesOff, flags, drivers
<1>4. CASE Reconnect
  <2>1. WgInv'
    BY <1>0, <1>4, WgStutterKeeps DEF Reconnect
  <2>2. queue' \in Seq(Events)
    BY <1>a, <1>4, EventTypes, DropTypes DEF Reconnect
  <2>3. wifi' \in WifiStates /\ wifi'.started = wifi.started
    BY <1>a, <1>4, IdleTypes DEF Reconnect
  <2>4. requests' \in Nat /\ httpd' \in {"idle", "reconnect", "wg", "reboot"}
    BY <1>0, <1>4, BoundsAssumption DEF Reconnect, Request, TypeOK
  <2> QED
    BY <1>0, <1>4, <2>1, <2>2, <2>3, <2>4
    DEF Reconnect, TypeOK, WgInv, RadioInv, ApExcludesOff, flags
<1>5. CASE ReconnectConnects
  <2>1. WgInv'
    BY <1>0, <1>5, WgStutterKeeps DEF ReconnectConnects
  <2>2. wifi' \in WifiStates /\ wifi'.started = wifi.started
    BY <1>a, <1>5, ConnectedTypes DEF ReconnectConnects
  <2> QED
    BY <1>0, <1>5, <2>1, <2>2 DEF ReconnectConnects, TypeOK, WgInv, RadioInv, ApExcludesOff, flags
<1>6. CASE RebootRequest
  <2>1. WgInv'
    BY <1>0, <1>6, WgStutterKeeps DEF RebootRequest
  <2>2. requests' \in Nat
    BY <1>0, <1>6, BoundsAssumption DEF RebootRequest, Request, TypeOK
  <2>3. boot_ap' \in BOOLEAN /\ httpd' \in {"idle", "reconnect", "wg", "reboot"}
    BY <1>0, <1>6 DEF RebootRequest, TypeOK
  <2> QED
    BY <1>0, <1>6, <2>1, <2>2, <2>3
    DEF RebootRequest, TypeOK, WgInv, RadioInv, ApExcludesOff, flags, drivers
<1>7. CASE Reboot
  <2>1. WgInv'
    BY <1>0, <1>a, <1>7 DEF Reboot, WgInv, WgTypeOK, LinkHasOneOwner, Holds, Ifaces, Calls
  <2>2. wifi' \in WifiStates /\ eth' \in EthStates
    BY <1>0, <1>a, <1>7 DEF Reboot, BootWifi, BootEth, WifiStates, EthStates, TypeOK
  <2>3. queue' \in Seq(Events)
    BY <1>7, BootTypes DEF Reboot
  <2>4. RadioInv'
    BY <1>7 DEF Reboot, RadioInv, ApExcludesOff
  <2>5. wifi_retries' \in 0..(WIFI_MAX_RETRIES + 1)
    BY <1>7, RetriesAssumption DEF Reboot
  <2> QED
    BY <1>0, <1>7, <2>1, <2>2, <2>3, <2>4, <2>5 DEF Reboot, TypeOK, WgInv
<1>8. CASE ClientStep("httpd")
  BY <1>0, <1>a, <1>8, ClientStepKeeps
<1> QED
  BY <1>1, <1>2, <1>3, <1>4, <1>5, <1>6, <1>7, <1>8 DEF WebServer, ServeRequest

-----------------------------------------------------------------------------
(* The drivers.                                                            *)

\* Whatever station, link and leases do keeps the invariant.
LEMMA EnvironmentKeeps ==
  ASSUME NetInv, Environment
  PROVE  NetInv'
<1>0. WgInv /\ TypeOK /\ RadioInv
  BY NetInvParts
<1>a. queue \in Seq(Events) /\ wifi \in WifiStates /\ eth \in EthStates /\ Threads = {"loop", "ntp", "httpd"}
  BY <1>0, ThreadsAssumption DEF TypeOK
<1>b. SUFFICES WgInv' /\ TypeOK' /\ RadioInv'
  BY DEF NetInv, WgInv
<1>1. CASE StationGetsIp
  <2>1. WgInv'
    BY <1>0, <1>1, WgStutterKeeps DEF StationGetsIp
  <2>2. queue' \in Seq(Events)
    BY <1>a, <1>1, PostTypes DEF StationGetsIp, Events
  <2>3. wifi' \in WifiStates /\ wifi'.started = wifi.started
    BY <1>a, <1>1, IdleTypes DEF StationGetsIp, WifiStates
  <2> QED
    BY <1>0, <1>1, <2>1, <2>2, <2>3, BoundsAssumption
    DEF StationGetsIp, TypeOK, WgInv, RadioInv, ApExcludesOff, flags, tasks
<1>2. CASE StationFails
  <2>1. WgInv'
    BY <1>0, <1>2, WgStutterKeeps DEF StationFails
  <2>2. queue' \in Seq(Events)
    BY <1>a, <1>2, PostTypes DEF StationFails, Events
  <2>3. wifi' \in WifiStates /\ wifi'.started = wifi.started
    BY <1>a, <1>2, IdleTypes DEF StationFails, WifiStates
  <2> QED
    BY <1>0, <1>2, <2>1, <2>2, <2>3, BoundsAssumption
    DEF StationFails, TypeOK, WgInv, RadioInv, ApExcludesOff, flags, tasks
<1>3. CASE StationDrops
  <2>1. WgInv'
    BY <1>0, <1>3, WgStutterKeeps DEF StationDrops
  <2>2. queue' \in Seq(Events)
    BY <1>a, <1>3, PostTypes DEF StationDrops, Events
  <2>3. wifi' \in WifiStates /\ wifi'.started = wifi.started
    BY <1>a, <1>3, IdleTypes DEF StationDrops, WifiStates
  <2> QED
    BY <1>0, <1>3, <2>1, <2>2, <2>3, BoundsAssumption
    DEF StationDrops, TypeOK, WgInv, RadioInv, ApExcludesOff, flags, tasks, Fault
<1>4. CASE LinkChanges
  <2>1. WgInv'
    BY <1>0, <1>4, WgStutterKeeps DEF LinkChanges
  <2>2. queue' \in Seq(Events)
    BY <1>a, <1>4, PostTypes DEF LinkChanges, Events
  <2>3. eth' \in EthStates
    BY <1>a, <1>4 DEF LinkChanges, EthStates
  <2> QED
    BY <1>0, <1>4, <2>1, <2>2, <2>3, BoundsAssumption
    DEF LinkChanges, TypeOK, WgInv, RadioInv, ApExcludesOff, flags, tasks, Fault
<1>5. CASE Lease
  <2>1. WgInv'
    BY <1>0, <1>5, WgStutterKeeps DEF Lease
  <2>2. queue' \in Seq(Events)
    BY <1>a, <1>5, PostTypes DEF Lease, Events
  <2>3. eth' \in EthStates
    BY <1>a, <1>5 DEF Lease, EthStates
  <2> QED
    BY <1>0, <1>5, <2>1, <2>2, <2>3, BoundsAssumption
    DEF Lease, TypeOK, WgInv, RadioInv, ApExcludesOff, flags, tasks
<1>6. CASE LeaseExpires
  <2>1. WgInv'
    BY <1>0, <1>6, WgStutterKeeps DEF LeaseExpires
  <2>2. queue' \in Seq(Events)
    BY <1>a, <1>6, PostTypes DEF LeaseExpires, Events
  <2>3. eth' \in EthStates
    BY <1>a, <1>6 DEF LeaseExpires, EthStates
  <2> QED
    BY <1>0, <1>6, <2>1, <2>2, <2>3, BoundsAssumption
    DEF LeaseExpires, TypeOK, WgInv, RadioInv, ApExcludesOff, flags, tasks, Fault
<1>7. CASE LostTimer
  <2>1. WgInv'
    BY <1>0, <1>7, WgStutterKeeps DEF LostTimer
  <2>2. queue' \in Seq(Events)
    BY <1>a, <1>7, PostTypes DEF LostTimer, Events
  <2>3. eth' \in EthStates
    BY <1>a, <1>7 DEF LostTimer, EthStates
  <2> QED
    BY <1>0, <1>7, <2>1, <2>2, <2>3, BoundsAssumption
    DEF LostTimer, TypeOK, WgInv, RadioInv, ApExcludesOff, flags, tasks
<1>8. CASE WgMonitor /\ UNCHANGED <<queue, loop, flags, drivers, tasks, faults>>
  <2>1. WgInv'
    BY <1>0, <1>8, WgMonitorKeeps
  <2> QED
    BY <1>0, <1>8, <2>1 DEF TypeOK, WgInv, RadioInv, ApExcludesOff, flags, drivers, tasks
<1> QED
  BY <1>1, <1>2, <1>3, <1>4, <1>5, <1>6, <1>7, <1>8 DEF Environment, StationOutcome

-----------------------------------------------------------------------------
(* All of it.                                                              *)

\* The invariant holds after app_main.
LEMMA InitHolds == Init => NetInv
<1> SUFFICES ASSUME Init PROVE NetInv
  OBVIOUS
<1>1. WgInv
  BY WgInitHolds DEF Init
<1>a. wifi = BootWifi(ap_mode) /\ ap_mode \in BOOLEAN
  BY DEF Init
<1>b. PICK link \in BOOLEAN : eth = BootEth(link)
  BY DEF Init
<1>2. wifi \in WifiStates /\ eth \in EthStates
  BY <1>a, <1>b DEF BootWifi, BootEth, WifiStates, EthStates
<1>3. queue \in Seq(Events)
  BY BootTypes DEF Init
<1>4. RadioInv
  BY DEF Init, RadioInv, ApExcludesOff
<1>c. faults \in Nat /\ requests \in Nat
  BY BoundsAssumption DEF Init
<1>d. 0 \in 0..(WIFI_MAX_RETRIES + 1)
  BY RetriesAssumption
<1>5. TypeOK
  BY <1>1, <1>2, <1>3, <1>c, <1>d DEF Init, TypeOK, WgInv
<1> QED
  BY <1>1, <1>4, <1>5 DEF NetInv, WgInv

\* Every step keeps the invariant.
LEMMA NextKeeps ==
  ASSUME NetInv, [Next]_vars
  PROVE  NetInv'
<1>1. CASE Next
  BY <1>1, EventLoopKeeps, NtpTaskKeeps, WebServerKeeps, EnvironmentKeeps DEF Next
<1>2. CASE UNCHANGED vars
  <2>1. WgInv'
    BY <1>2, NetInvParts, WgStutterKeeps DEF vars
  <2> QED
    BY <1>2, <2>1
    DEF vars, flags, drivers, tasks, NetInv, TypeOK, WgInv, RadioInv, ApExcludesOff
<1> QED
  BY <1>1, <1>2

\* Types, the one owner of the WireGuard interface and the radio, together: the
\* inductive invariant of the event handler of main.c, which the results below read off.
THEOREM NetInvariant == Spec => []NetInv
  BY InitHolds, NextKeeps, PTL DEF Spec

\* Flags, queue and drivers of the network manager stay in range, for every
\* limit of retries and every number of faults and requests.
THEOREM NetTypeCorrect == Spec => []TypeOK
<1>1. NetInv => TypeOK
  BY DEF NetInv
<1> QED
  BY <1>1, NetInvariant, PTL

\* Event loop, NTP task and web server start and stop the WireGuard client
\* without a lock, and still the interface never has two owners.
THEOREM OneOwner == Spec => []LinkHasOneOwner
<1>1. NetInv => LinkHasOneOwner
  BY DEF NetInv
<1> QED
  BY <1>1, NetInvariant, PTL

\* The radio is off while Ethernet carries the device, however late its events
\* are handled and whatever the web server reconnects meanwhile.
THEOREM RadioOff == Spec => []NoDualRadio
<1>1. NetInv => NoDualRadio
  BY DEF NetInv, RadioInv, NoDualRadio
<1> QED
  BY <1>1, NetInvariant, PTL

\* The fallback access point never runs with the station switched off for Ethernet.
THEOREM ApXorOff == Spec => []ApExcludesOff
<1>1. NetInv => ApExcludesOff
  BY DEF NetInv, RadioInv
<1> QED
  BY <1>1, NetInvariant, PTL

-----------------------------------------------------------------------------
(* BeliefSettles: the flag eth_connected agrees with the interface once    *)
(* nothing is pending.  The invariant behind it speaks of the flag as it   *)
(* will be when the queued events are handled.                             *)


\* The events that clear the flag; ETH_GOT_IP alone sets it.
Ends == {"ETH_LOST_IP", "ETH_DISCONNECTED"}
News == Ends \cup {"ETH_GOT_IP"}

\* The flag after one event.
After(event, known) == event = "ETH_GOT_IP" \/ (known /\ event \notin Ends)

\* The flag after the whole queue: the last event that speaks of it decides.
Learns(q, known) ==
  \/ known /\ \A i \in 1..Len(q) : q[i] \notin Ends
  \/ \E i \in 1..Len(q) : q[i] = "ETH_GOT_IP" /\ \A j \in (i + 1)..Len(q) : q[j] \notin Ends

Downs(q) == \E i \in 1..Len(q) : q[i] = "ETH_DISCONNECTED"

\* An address is known of, or about to be learnt, or about to go with its link;
\* and without an address none is believed in, unless the timer will tell.
BeliefInv ==
  /\ eth.ip => Learns(queue, eth_connected) \/ loop = "glue" \/ Downs(queue)
  /\ ~eth.ip => eth.lost \/ ~Learns(queue, eth_connected)

-----------------------------------------------------------------------------
(* What handling and posting do to the flag foreseen.                      *)

\* Handling the first event changes nothing that was foreseen.
LEMMA TailLearns ==
  ASSUME NEW q \in Seq(Events), q # <<>>, NEW known \in BOOLEAN
  PROVE  /\ Learns(Tail(q), After(Head(q), known)) <=> Learns(q, known)
         /\ Downs(q) <=> Downs(Tail(q)) \/ Head(q) = "ETH_DISCONNECTED"
<1>1. /\ Len(q) \in Nat /\ Len(q) > 0 /\ Len(Tail(q)) = Len(q) - 1 /\ Head(q) = q[1]
      /\ \A i \in 1..Len(Tail(q)) : Tail(q)[i] = q[i + 1]
  OBVIOUS
<1>2. Downs(q) <=> Downs(Tail(q)) \/ Head(q) = "ETH_DISCONNECTED"
  <2>1. ASSUME NEW i \in 1..Len(q), q[i] = "ETH_DISCONNECTED", i # 1
        PROVE  Downs(Tail(q))
    <3>1. i - 1 \in 1..Len(Tail(q)) /\ Tail(q)[i - 1] = q[i]
      BY <1>1, <2>1
    <3> QED
      BY <2>1, <3>1 DEF Downs
  <2>2. Downs(Tail(q)) => Downs(q)
    <3> SUFFICES ASSUME NEW i \in 1..Len(Tail(q)), Tail(q)[i] = "ETH_DISCONNECTED"
                 PROVE  Downs(q)
      BY DEF Downs
    <3>1. i + 1 \in 1..Len(q) /\ q[i + 1] = "ETH_DISCONNECTED"
      BY <1>1
    <3> QED
      BY <3>1 DEF Downs
  <2>3. q[1] = "ETH_DISCONNECTED" => Downs(q)
    BY <1>1 DEF Downs
  <2> QED
    BY <1>1, <2>1, <2>2, <2>3 DEF Downs
<1>3. Learns(q, known) => Learns(Tail(q), After(Head(q), known))
  <2>1. CASE known /\ \A i \in 1..Len(q) : q[i] \notin Ends
    BY <1>1, <2>1 DEF Learns, After
  <2>2. ASSUME NEW i \in 1..Len(q), q[i] = "ETH_GOT_IP", \A j \in (i + 1)..Len(q) : q[j] \notin Ends
        PROVE  Learns(Tail(q), After(Head(q), known))
    <3>1. CASE i = 1
      BY <1>1, <2>2, <3>1 DEF Learns, After
    <3>2. CASE i # 1
      <4>1. i - 1 \in 1..Len(Tail(q)) /\ Tail(q)[i - 1] = "ETH_GOT_IP"
        BY <1>1, <2>2, <3>2
      <4>2. \A j \in ((i - 1) + 1)..Len(Tail(q)) : Tail(q)[j] \notin Ends
        BY <1>1, <2>2, <3>2
      <4> QED
        BY <4>1, <4>2 DEF Learns
    <3> QED
      BY <3>1, <3>2
  <2> QED
    BY <2>1, <2>2 DEF Learns
<1>4. Learns(Tail(q), After(Head(q), known)) => Learns(q, known)
  <2>1. CASE After(Head(q), known) /\ \A i \in 1..Len(Tail(q)) : Tail(q)[i] \notin Ends
    <3>1. \A j \in 2..Len(q) : q[j] \notin Ends
      <4> TAKE j \in 2..Len(q)
      <4>1. j - 1 \in 1..Len(Tail(q)) /\ Tail(q)[j - 1] = q[j]
        BY <1>1
      <4> QED
        BY <2>1, <4>1
    <3> QED
      BY <1>1, <2>1, <3>1 DEF Learns, After
  <2>2. ASSUME NEW i \in 1..Len(Tail(q)), Tail(q)[i] = "ETH_GOT_IP",
               \A j \in (i + 1)..Len(Tail(q)) : Tail(q)[j] \notin Ends
        PROVE  Learns(q, known)
    <3>1. i + 1 \in 1..Len(q) /\ q[i + 1] = "ETH_GOT_IP"
      BY <1>1, <2>2
    <3>2. \A j \in ((i + 1) + 1)..Len(q) : q[j] \notin Ends
      <4> TAKE j \in ((i + 1) + 1)..Len(q)
      <4>1. j - 1 \in (i + 1)..Len(Tail(q)) /\ Tail(q)[j - 1] = q[j]
        BY <1>1
      <4> QED
        BY <2>2, <4>1
    <3> QED
      BY <3>1, <3>2 DEF Learns
  <2> QED
    BY <2>1, <2>2 DEF Learns
<1> QED
  BY <1>2, <1>3, <1>4

\* Posting events of WiFi changes nothing either.
LEMMA PostLearns ==
  ASSUME NEW q \in Seq(Events), NEW p \in Seq(Events), NEW known \in BOOLEAN,
         \A i \in 1..Len(p) : p[i] \notin News
  PROVE  /\ Learns(q \o p, known) <=> Learns(q, known)
         /\ Downs(q \o p) <=> Downs(q)
<1> DEFINE r == q \o p
<1>1. /\ r \in Seq(Events) /\ Len(r) = Len(q) + Len(p) /\ Len(q) \in Nat /\ Len(p) \in Nat
      /\ \A i \in 1..Len(q) : r[i] = q[i]
      /\ \A i \in (Len(q) + 1)..Len(r) : r[i] = p[i - Len(q)]
  OBVIOUS
<1>2. \A i \in (Len(q) + 1)..Len(r) : r[i] \notin News
  <2> TAKE i \in (Len(q) + 1)..Len(r)
  <2>1. i - Len(q) \in 1..Len(p) /\ r[i] = p[i - Len(q)]
    BY <1>1
  <2> QED
    BY <2>1
<1>3. \A i \in 1..Len(q) : i \in 1..Len(r)
  BY <1>1
<1>4. \A i \in 1..Len(r) : r[i] \in News => i \in 1..Len(q)
  BY <1>1, <1>2
<1> HIDE DEF r
<1>5. Learns(r, known) => Learns(q, known)
  <2>1. ASSUME NEW i \in 1..Len(r), r[i] = "ETH_GOT_IP", \A j \in (i + 1)..Len(r) : r[j] \notin Ends
        PROVE  Learns(q, known)
    <3>1. i \in 1..Len(q) /\ q[i] = "ETH_GOT_IP"
      BY <1>1, <1>4, <2>1 DEF News
    <3>2. \A j \in (i + 1)..Len(q) : q[j] \notin Ends
      BY <1>1, <2>1
    <3> QED
      BY <3>1, <3>2 DEF Learns
  <2> QED
    BY <1>1, <1>3, <2>1 DEF Learns
<1>7. Learns(q, known) => Learns(r, known)
  <2>1. ASSUME NEW i \in 1..Len(q), q[i] = "ETH_GOT_IP", \A j \in (i + 1)..Len(q) : q[j] \notin Ends
        PROVE  Learns(r, known)
    <3>1. i \in 1..Len(r) /\ r[i] = "ETH_GOT_IP"
      BY <1>1, <1>3, <2>1
    <3>2. \A j \in (i + 1)..Len(r) : r[j] \notin Ends
      <4> TAKE j \in (i + 1)..Len(r)
      <4>1. CASE j \in 1..Len(q)
        BY <1>1, <2>1, <4>1
      <4>2. CASE j \notin 1..Len(q)
        BY <1>1, <1>2, <4>2 DEF News
      <4> QED
        BY <4>1, <4>2
    <3> QED
      BY <3>1, <3>2 DEF Learns
  <2> QED
    BY <1>1, <1>4, <2>1 DEF Learns, News
<1>6. Downs(r) <=> Downs(q)
  BY <1>1, <1>3, <1>4 DEF Downs, News, Ends
<1> QED
  BY <1>5, <1>6, <1>7 DEF r

\* A posted lease will be learnt, a posted loss forgotten.
LEMMA PostedNews ==
  ASSUME NEW q \in Seq(Events), NEW event \in News, NEW known \in BOOLEAN
  PROVE  Learns(Append(q, event), known) <=> event = "ETH_GOT_IP"
<1> DEFINE r == Append(q, event)
<1>1. Len(r) = Len(q) + 1 /\ Len(q) \in Nat /\ r[Len(q) + 1] = event
  OBVIOUS
<1>2. Len(q) + 1 \in 1..Len(r)
  BY <1>1
<1>3. \A i \in 1..Len(r) : i = Len(q) + 1 \/ Len(q) + 1 \in (i + 1)..Len(r)
  BY <1>1
<1> HIDE DEF r
<1>4. Learns(r, known) <=> event = "ETH_GOT_IP"
  BY <1>1, <1>2, <1>3 DEF Learns, News, Ends
<1> QED
  BY <1>4 DEF r

-----------------------------------------------------------------------------
(* Kinds of steps.                                                         *)

Irrelevant(p) == p \in Seq(Events) /\ \A i \in 1..Len(p) : p[i] \notin News

\* What the WiFi driver posts says nothing of Ethernet.
LEMMA IrrelevantPosts ==
  /\ Irrelevant(<<>>)
  /\ \A e \in Events \ News : Irrelevant(<<e>>)
  /\ \A w : Irrelevant(DropEvents(w))
  /\ \A p, q : Irrelevant(p) /\ Irrelevant(q) => Irrelevant(p \o q)
<1>1. Irrelevant(<<>>)
  BY DEF Irrelevant
<1>2. ASSUME NEW e \in Events \ News PROVE Irrelevant(<<e>>)
  BY DEF Irrelevant
<1>3. ASSUME NEW w PROVE Irrelevant(DropEvents(w))
  <2>1. Irrelevant(<<"STA_DISCONNECTED">>)
    BY <1>2 DEF Events, News, Ends
  <2> QED
    BY <1>1, <2>1 DEF DropEvents
<1>4. ASSUME NEW p, NEW q, Irrelevant(p), Irrelevant(q)
      PROVE  Irrelevant(p \o q)
  <2>1. p \in Seq(Events) /\ q \in Seq(Events)
    BY <1>4 DEF Irrelevant
  <2>2. ASSUME NEW i \in 1..Len(p \o q) PROVE (p \o q)[i] \notin News
    <3>1. CASE i <= Len(p)
      BY <1>4, <2>1, <3>1 DEF Irrelevant
    <3>2. CASE i > Len(p)
      <4>1. i - Len(p) \in 1..Len(q) /\ (p \o q)[i] = q[i - Len(p)]
        BY <2>1, <3>2
      <4> QED
        BY <1>4, <4>1 DEF Irrelevant
    <3> QED
      BY <2>1, <3>1, <3>2
  <2> QED
    BY <2>1, <2>2 DEF Irrelevant
<1> QED
  BY <1>1, <1>2, <1>3, <1>4

\* Nothing the belief depends on changes.
LEMMA Elsewhere ==
  ASSUME BeliefInv, UNCHANGED <<queue, eth_connected>>,
         eth'.ip = eth.ip, eth'.lost = eth.lost, loop = "glue" => loop' = "glue"
  PROVE  BeliefInv'
  BY DEF BeliefInv, Learns, Downs

\* Only events of WiFi or a link that is up are posted.
LEMMA Posted ==
  ASSUME BeliefInv, TypeOK, NEW p, Irrelevant(p), queue' = queue \o p,
         UNCHANGED eth_connected,
         eth'.ip = eth.ip, eth'.lost = eth.lost, loop = "glue" => loop' = "glue"
  PROVE  BeliefInv'
<1>1. /\ Learns(queue', eth_connected) <=> Learns(queue, eth_connected)
      /\ Downs(queue') <=> Downs(queue)
  BY PostLearns DEF TypeOK, Irrelevant
<1> QED
  BY <1>1 DEF BeliefInv

\* An event is handled, the flag set as the event says.
LEMMA Handled ==
  ASSUME BeliefInv, TypeOK, NEW event, NEW p, Irrelevant(p), Take(event, p),
         eth_connected' = After(event, eth_connected),
         eth'.ip = eth.ip, eth'.lost = eth.lost,
         event = "ETH_DISCONNECTED" => loop' = "glue"
  PROVE  BeliefInv'
<1>1. /\ queue \in Seq(Events) /\ queue # <<>> /\ Head(queue) = event
      /\ queue' = Tail(queue) \o p /\ loop = "idle" /\ eth_connected \in BOOLEAN
  BY DEF TypeOK, Take
<1>2. /\ Learns(Tail(queue), eth_connected') <=> Learns(queue, eth_connected)
      /\ Downs(queue) <=> Downs(Tail(queue)) \/ event = "ETH_DISCONNECTED"
  BY <1>1, TailLearns
<1>3. Tail(queue) \in Seq(Events) /\ eth_connected' \in BOOLEAN
  BY <1>1 DEF After
<1>4. /\ Learns(queue', eth_connected') <=> Learns(Tail(queue), eth_connected')
      /\ Downs(queue') <=> Downs(Tail(queue))
  <2>1. p \in Seq(Events) /\ \A i \in 1..Len(p) : p[i] \notin News
    BY DEF Irrelevant
  <2>2. PICK tail \in Seq(Events) : tail = Tail(queue)
    BY <1>3
  <2>3. queue' = tail \o p
    BY <1>1, <2>2
  <2>4. \A known \in BOOLEAN :
          /\ Learns(tail \o p, known) <=> Learns(tail, known)
          /\ Downs(tail \o p) <=> Downs(tail)
    BY <2>1, PostLearns
  <2> QED
    BY <1>3, <2>2, <2>3, <2>4, Zenon
<1>5. Learns(queue', eth_connected') <=> Learns(queue, eth_connected)
  BY <1>2, <1>4
<1>6. Downs(queue) => Downs(queue') \/ loop' = "glue"
  BY <1>2, <1>4
<1>7. eth'.ip => Learns(queue', eth_connected') \/ loop' = "glue" \/ Downs(queue')
  BY <1>1, <1>5, <1>6 DEF BeliefInv
<1>8. ~eth'.ip => eth'.lost \/ ~Learns(queue', eth_connected')
  BY <1>5 DEF BeliefInv
<1> QED
  BY <1>7, <1>8 DEF BeliefInv

\* After a boot no address is foreseen.
LEMMA BootForesees ==
  ASSUME NEW w, NEW e
  PROVE  ~Learns(BootEvents(w, e), FALSE)
<1> DEFINE q == BootEvents(w, e)
<1> SUFFICES \A i \in 1..Len(q) : q[i] # "ETH_GOT_IP"
  BY DEF Learns
<1>1. StartEvent(w.mode) \in {"AP_START", "STA_START"}
  BY DEF StartEvent
<1>2. CASE e.link
  <2>1. q = <<StartEvent(w.mode)>> \o <<"ETH_CONNECTED">>
    BY <1>2 DEF BootEvents
  <2> QED
    BY <1>1, <2>1
<1>3. CASE ~e.link
  <2>1. q = <<StartEvent(w.mode)>> \o <<>>
    BY <1>3 DEF BootEvents
  <2> QED
    BY <1>1, <2>1
<1> QED
  BY <1>2, <1>3

-----------------------------------------------------------------------------
(* The event loop.                                                         *)

\* The event handler: the flag is set and cleared as its events say, and the
\* interface loses its address only after the flag was cleared.
LEMMA LoopBelief ==
  ASSUME BeliefInv, TypeOK, EventLoop
  PROVE  BeliefInv'
<1> USE IrrelevantPosts
<1>a. eth \in EthStates /\ eth_connected \in BOOLEAN
  BY DEF TypeOK
<1>b. ASSUME NEW event \in {"STA_START", "STA_DISCONNECTED"}, Take(event, <<>>),
             UNCHANGED <<eth_connected, eth>>
      PROVE  BeliefInv'
  <2>1. eth_connected' = After(event, eth_connected)
    BY <1>a, <1>b DEF After, Ends
  <2>2. Irrelevant(<<>>) /\ event # "ETH_DISCONNECTED" /\ eth'.ip = eth.ip /\ eth'.lost = eth.lost
    BY <1>b
  <2> HIDE IrrelevantPosts
  <2> QED
    BY <1>b, <2>1, <2>2, Handled
<1>1. CASE StaStart
  BY <1>1, <1>b DEF StaStart, flags
<1>2. CASE StaDisconnectedIgnored
  BY <1>2, <1>b DEF StaDisconnectedIgnored, flags, drivers
<1>3. CASE StaRetry
  BY <1>3, <1>b DEF StaRetry, CountRetry
<1>4. CASE StaGivesUp
  BY <1>4, <1>b DEF StaGivesUp, CountRetry
<1>5. CASE StartApMode
  <2>1. PICK applied \in BOOLEAN :
          Take("STA_DISCONNECTED", DropEvents(wifi) \o IF applied THEN <<"AP_START">> ELSE <<>>)
    BY <1>5 DEF StartApMode
  <2>2. Irrelevant(DropEvents(wifi) \o IF applied THEN <<"AP_START">> ELSE <<>>)
    BY DEF Events, News, Ends
  <2> QED
    BY <1>5, <2>1, <2>2, <1>a, Handled DEF StartApMode, CountRetry, After, Ends
<1>6. CASE ApStart
  BY <1>6, <1>a, Handled DEF ApStart, drivers, After, Ends
<1>7. CASE StaGotIp
  BY <1>7, <1>a, Handled DEF StaGotIp, drivers, After, Ends
<1>8. CASE EthGotIp
  <2>1. PICK p : Irrelevant(p) /\ Take("ETH_GOT_IP", p)
    BY <1>8 DEF EthGotIp
  <2> QED
    BY <1>8, <2>1, Handled DEF EthGotIp, After
<1>9. CASE ShutdownStops
  BY <1>9, Posted DEF ShutdownStops, flags
<1>10. CASE RestartBegins
  BY <1>10, Elsewhere DEF RestartBegins, flags, drivers
<1>11. CASE RestartStarts
  BY <1>11, Elsewhere DEF RestartStarts, flags, drivers
<1>12. CASE GotIpEnds
  BY <1>12, Elsewhere DEF GotIpEnds, drivers
<1>13. ASSUME NEW event \in Ends, EthLost(event), event = "ETH_DISCONNECTED" => loop' = "glue"
       PROVE  BeliefInv'
  <2>1. PICK p : Irrelevant(p) /\ Take(event, p)
    <3>1. Irrelevant(<<"STA_START">>)
      BY DEF Events, News, Ends
    <3> QED
      BY <1>13, <3>1 DEF EthLost
  <2> QED
    BY <1>13, <2>1, <1>a, Handled DEF EthLost, After, Ends
<1>14. CASE EthLostIp
  BY <1>13, <1>14 DEF EthLostIp, Ends
<1>15. CASE EthDisconnected
  BY <1>13, <1>15 DEF EthDisconnected, Ends
<1>16. CASE EthGlueDown
  <2>1. eth'.ip = FALSE /\ eth'.lost = (eth.lost \/ eth.ip)
    BY <1>a, <1>16 DEF EthGlueDown, EthStates
  <2> QED
    BY <1>16, <2>1 DEF EthGlueDown, flags, BeliefInv
<1>17. CASE EthConnected
  <2>1. eth'.ip = eth.ip /\ eth'.lost = eth.lost
    BY <1>a, <1>17 DEF EthConnected, EthStates
  <2> QED
    BY <1>17, <2>1, <1>a, Handled DEF EthConnected, flags, After, Ends
<1>18. CASE ClientStep("loop")
  BY <1>18, Elsewhere DEF ClientStep, flags, drivers
<1> QED
  BY <1>1, <1>2, <1>3, <1>4, <1>5, <1>6, <1>7, <1>8, <1>9, <1>10, <1>11, <1>12, <1>14, <1>15,
     <1>16, <1>17, <1>18 DEF EventLoop

-----------------------------------------------------------------------------
(* The other tasks and the drivers.                                        *)

\* The task that waits for NTP has nothing to do with Ethernet.
LEMMA NtpBelief ==
  ASSUME BeliefInv, TypeOK, NtpTask
  PROVE  BeliefInv'
<1>1. CASE NtpWaited
  BY <1>1, Elsewhere DEF NtpWaited, drivers
<1>2. CASE NtpEnds
  BY <1>2, Elsewhere DEF NtpEnds, flags, drivers
<1>3. CASE ClientStep("ntp")
  BY <1>3, Elsewhere DEF ClientStep, flags, drivers
<1> QED
  BY <1>1, <1>2, <1>3 DEF NtpTask

\* Requests do not touch Ethernet; a restart forgets flag and address together.
LEMMA WebBelief ==
  ASSUME BeliefInv, TypeOK, WebServer
  PROVE  BeliefInv'
<1>1. CASE WgPost
  BY <1>1, Elsewhere DEF WgPost, flags, drivers
<1>2. CASE WgPostStopped
  BY <1>2, Elsewhere DEF WgPostStopped, drivers
<1>3. CASE WgPostEnds
  BY <1>3, Elsewhere DEF WgPostEnds, flags, drivers
<1>4. CASE Reconnect
  <2>1. UNCHANGED queue \/ queue' = queue \o DropEvents(wifi)
    BY <1>4 DEF Reconnect
  <2>2. UNCHANGED <<eth, eth_connected, loop>>
    BY <1>4 DEF Reconnect, flags
  <2>3. CASE UNCHANGED queue
    BY <2>2, <2>3, Elsewhere
  <2>4. CASE queue' = queue \o DropEvents(wifi)
    BY <2>2, <2>4, Posted, IrrelevantPosts
  <2> QED
    BY <2>1, <2>3, <2>4
<1>5. CASE ReconnectConnects
  BY <1>5, Elsewhere DEF ReconnectConnects, flags
<1>6. CASE RebootRequest
  BY <1>6, Elsewhere DEF RebootRequest, flags, drivers
<1>7. CASE Reboot
  <2>1. eth_connected' = FALSE /\ eth'.ip = FALSE
    BY <1>7 DEF Reboot, BootEth
  <2>2. queue' = BootEvents(wifi', eth')
    BY <1>7 DEF Reboot
  <2> QED
    BY <2>1, <2>2, BootForesees DEF BeliefInv
<1>8. CASE ClientStep("httpd")
  BY <1>8, Elsewhere DEF ClientStep, flags, drivers
<1> QED
  BY <1>1, <1>2, <1>3, <1>4, <1>5, <1>6, <1>7, <1>8 DEF WebServer, ServeRequest

\* Links, leases and the timer post what they change, but for an expired lease,
\* which starts the timer.
LEMMA EnvironmentBelief ==
  ASSUME BeliefInv, TypeOK, Environment
  PROVE  BeliefInv'
<1>a. eth \in EthStates /\ eth_connected \in BOOLEAN /\ queue \in Seq(Events)
  BY DEF TypeOK
<1>b. \A e : Append(queue, e) = queue \o <<e>>
  BY <1>a
<1>1. CASE StationGetsIp
  <2>1. Irrelevant(<<"STA_GOT_IP">>)
    BY IrrelevantPosts DEF Events, News, Ends
  <2> QED
    BY <1>1, <1>b, <2>1, Posted DEF StationGetsIp, Post, flags
<1>2. CASE StationFails \/ StationDrops
  <2>1. Irrelevant(<<"STA_DISCONNECTED">>)
    BY IrrelevantPosts DEF Events, News, Ends
  <2> QED
    BY <1>2, <1>b, <2>1, Posted DEF StationFails, StationDrops, Post, flags
<1>3. CASE LinkChanges
  <2>1. eth'.ip = eth.ip /\ eth'.lost = eth.lost /\ UNCHANGED <<eth_connected, loop>>
    BY <1>a, <1>3 DEF LinkChanges, EthStates, flags
  <2>2. CASE eth.link
    <3>1. queue' = Append(queue, "ETH_DISCONNECTED")
      BY <1>3, <2>2 DEF LinkChanges, Post
    <3>2. ~Learns(queue', eth_connected)
      BY <1>a, <3>1, PostedNews DEF News, Ends
    <3>3. Len(queue) + 1 \in 1..Len(queue') /\ queue'[Len(queue) + 1] = "ETH_DISCONNECTED"
      BY <1>a, <3>1
    <3>4. Downs(queue')
      BY <3>3 DEF Downs
    <3> QED
      BY <2>1, <3>2, <3>4 DEF BeliefInv
  <2>3. CASE ~eth.link
    <3>1. Irrelevant(<<"ETH_CONNECTED">>)
      BY IrrelevantPosts DEF Events, News, Ends
    <3>2. queue' = queue \o <<"ETH_CONNECTED">>
      BY <1>3, <1>b, <2>3 DEF LinkChanges, Post
    <3> QED
      BY <2>1, <3>1, <3>2, Posted
  <2> QED
    BY <2>2, <2>3
<1>4. CASE Lease
  <2>1. queue' = Append(queue, "ETH_GOT_IP") /\ eth'.ip /\ UNCHANGED eth_connected
    BY <1>a, <1>4 DEF Lease, Post, EthStates, flags
  <2>2. Learns(queue', eth_connected)
    BY <1>a, <2>1, PostedNews DEF News
  <2> QED
    BY <2>1, <2>2 DEF BeliefInv
<1>5. CASE LeaseExpires
  <2>1. eth'.lost /\ ~eth'.ip
    BY <1>a, <1>5 DEF LeaseExpires, EthStates
  <2> QED
    BY <2>1 DEF BeliefInv
<1>6. CASE LostTimer
  <2>1. eth'.ip = eth.ip /\ UNCHANGED <<eth_connected, loop>>
    BY <1>a, <1>6 DEF LostTimer, EthStates, flags
  <2>2. CASE eth.ip
    BY <1>6, <2>1, <2>2 DEF LostTimer, BeliefInv
  <2>3. CASE ~eth.ip
    <3>1. queue' = Append(queue, "ETH_LOST_IP")
      BY <1>6, <2>3 DEF LostTimer, Post
    <3>2. ~Learns(queue', eth_connected)
      BY <1>a, <3>1, PostedNews DEF News, Ends
    <3> QED
      BY <2>1, <2>3, <3>2 DEF BeliefInv
  <2> QED
    BY <2>2, <2>3
<1>7. CASE UNCHANGED <<queue, loop, flags, drivers, tasks, faults>>
  BY <1>7, Elsewhere DEF flags, drivers
<1> QED
  BY <1>1, <1>2, <1>3, <1>4, <1>5, <1>6, <1>7 DEF Environment, StationOutcome

-----------------------------------------------------------------------------
(* All of it.                                                              *)

\* No address, and none foreseen, after app_main.
LEMMA InitBelief == Init => BeliefInv
<1> SUFFICES ASSUME Init PROVE BeliefInv
  OBVIOUS
<1>1. queue = BootEvents(wifi, eth) /\ eth_connected = FALSE /\ ~eth.ip
  BY DEF Init, BootEth
<1> QED
  BY <1>1, BootForesees DEF BeliefInv

\* Every step keeps what is foreseen.
LEMMA AlwaysForeseen == Spec => []BeliefInv
<1>1. Init => BeliefInv
  BY InitBelief
<1>2. BeliefInv /\ TypeOK /\ [Next]_vars => BeliefInv'
  <2> SUFFICES ASSUME BeliefInv, TypeOK, [Next]_vars PROVE BeliefInv'
    OBVIOUS
  <2>1. CASE Next
    BY <2>1, LoopBelief, NtpBelief, WebBelief, EnvironmentBelief DEF Next
  <2>2. CASE UNCHANGED vars
    BY <2>2, Elsewhere DEF vars, flags, drivers
  <2> QED
    BY <2>1, <2>2
<1> QED
  BY <1>1, <1>2, NetTypeCorrect, PTL DEF Spec

\* No quiet moment of the network manager at which the flag of main.c and the
\* Ethernet interface disagree, for every number of faults and requests.
THEOREM BeliefIsRight == Spec => []BeliefSettles
<1>1. BeliefInv => BeliefSettles
  BY DEF BeliefInv, BeliefSettles, Quiet, Learns, Downs
<1> QED
  BY <1>1, AlwaysForeseen, PTL

-----------------------------------------------------------------------------
(* What ServerStarts rests on: as long as the web server does not run, a   *)
(* handler that starts it, or an event that leads to one, is on its way.   *)

Waiting(event) == \E i \in DOMAIN queue : queue[i] = event

\* While nobody has started the web server: Ethernet has said nothing yet, an address is
\* still to be told, and the access point or the station is up and will tell.
StartOwed ==
  /\ ~eth_connected /\ ~wifi_sta_off
  /\ eth.ip => Waiting("ETH_GOT_IP")
  /\ wifi.sta = "ip" => Waiting("STA_GOT_IP")
  /\ ap_mode => wifi.mode = "AP" /\ (wifi.started => Waiting("AP_START"))
  /\ ~ap_mode =>
       /\ wifi.mode = "STA" /\ wifi.started
       /\ wifi.sta = "idle" =>
            Waiting("STA_START") \/ Waiting("STA_DISCONNECTED") \/ Waiting("ETH_GOT_IP")

\* No request is served before; at "off" and "wg" the handler at work starts it.
StartInv ==
  /\ httpd # "idle" => server
  /\ ~server /\ loop \in {"idle", "glue"} => StartOwed

\* With nothing to handle and no web server, the station is connecting, or the access
\* point was refused (start_ap_mode).
StartIsOwed ==
  Quiet /\ ~server => wifi.sta = "connecting" \/ (ap_mode /\ ~wifi.started)

\* What waits behind the first event still waits after it; what is posted waits.
LEMMA TakeWaits ==
  ASSUME queue \in Seq(Events), NEW event, NEW p \in Seq(Events), Take(event, p)
  PROVE  /\ \A e : Waiting(e) /\ e # event => Waiting(e)'
         /\ \A i \in DOMAIN p : Waiting(p[i])'
<1>1. /\ queue # <<>> /\ Head(queue) = event /\ queue' = Tail(queue) \o p
  BY DEF Take
<1> DEFINE t == Tail(queue)
<1>2. /\ t \in Seq(Events) /\ Len(t) \in Nat /\ Len(p) \in Nat /\ Len(t) = Len(queue) - 1
      /\ \A i \in 1..Len(t) : t[i] = queue[i + 1]
      /\ Len(queue) \in Nat /\ queue[1] = event
  BY <1>1
<1> HIDE DEF t
<1>3. /\ DOMAIN queue' = 1..(Len(t) + Len(p))
      /\ \A i \in 1..Len(t) : queue'[i] = t[i]
      /\ \A i \in 1..Len(p) : queue'[Len(t) + i] = p[i]
  <2>1. queue' = t \o p
    BY <1>1 DEF t
  <2>2. /\ DOMAIN (t \o p) = 1..(Len(t) + Len(p))
        /\ \A i \in 1..Len(t) : (t \o p)[i] = t[i]
        /\ \A i \in 1..Len(p) : (t \o p)[Len(t) + i] = p[i]
    <3>1. t \in Seq(Events) /\ p \in Seq(Events)
      BY <1>2
    <3> QED
      BY <3>1
  <2> QED
    BY <2>1, <2>2, Zenon
<1>4. ASSUME NEW e, Waiting(e), e # event PROVE Waiting(e)'
  <2>1. PICK i \in 1..Len(queue) : queue[i] = e
    BY <1>4 DEF Waiting
  <2>2. i - 1 \in 1..Len(t) /\ t[i - 1] = e
    BY <1>2, <1>4, <2>1
  <2>3. i - 1 \in DOMAIN queue' /\ queue'[i - 1] = e
    BY <1>2, <1>3, <2>2
  <2> QED
    BY <2>3 DEF Waiting
<1>5. ASSUME NEW i \in DOMAIN p PROVE Waiting(p[i])'
  <2>1. i \in 1..Len(p)
    OBVIOUS
  <2>2. Len(t) + i \in DOMAIN queue' /\ queue'[Len(t) + i] = p[i]
    BY <1>2, <1>3, <2>1
  <2> QED
    BY <2>2 DEF Waiting
<1> QED
  BY <1>4, <1>5

\* Posting takes nothing away.
LEMMA PostWaits ==
  ASSUME queue \in Seq(Events), NEW p \in Seq(Events), queue' = queue \o p
  PROVE  /\ \A e : Waiting(e) => Waiting(e)'
         /\ \A i \in DOMAIN p : Waiting(p[i])'
<1>1. /\ Len(queue) \in Nat /\ Len(p) \in Nat /\ DOMAIN queue = 1..Len(queue)
      /\ DOMAIN p = 1..Len(p) /\ DOMAIN queue' = 1..(Len(queue) + Len(p))
      /\ \A i \in 1..Len(queue) : queue'[i] = queue[i]
      /\ \A i \in 1..Len(p) : queue'[Len(queue) + i] = p[i]
  OBVIOUS
<1>2. ASSUME NEW e, NEW i \in 1..Len(queue), queue[i] = e PROVE Waiting(e)'
  <2>1. i \in DOMAIN queue' /\ queue'[i] = e
    BY <1>1, <1>2
  <2> QED
    BY <2>1 DEF Waiting
<1>3. ASSUME NEW i \in 1..Len(p) PROVE Waiting(p[i])'
  <2>1. Len(queue) + i \in DOMAIN queue' /\ queue'[Len(queue) + i] = p[i]
    BY <1>1
  <2> QED
    BY <2>1 DEF Waiting
<1> QED
  BY <1>1, <1>2, <1>3 DEF Waiting

\* Nothing the start depends on changes.
LEMMA StartElsewhere ==
  ASSUME StartInv, UNCHANGED <<queue, eth_connected, wifi_sta_off, ap_mode, wifi>>,
         eth'.ip => eth.ip,
         server => server', httpd' # "idle" => httpd # "idle" \/ server,
         loop' \in {"idle", "glue"} => loop \in {"idle", "glue"} \/ server'
  PROVE  StartInv'
<1>1. \A e : Waiting(e)' <=> Waiting(e)
  BY DEF Waiting
<1>2. httpd' # "idle" => server'
  BY DEF StartInv
<1>3. ~server' /\ loop' \in {"idle", "glue"} => StartOwed'
  <2> SUFFICES ASSUME ~server', loop' \in {"idle", "glue"} PROVE StartOwed'
    OBVIOUS
  <2>1. StartOwed
    BY DEF StartInv
  <2> QED
    BY <1>1, <2>1 DEF StartOwed
<1> QED
  BY <1>2, <1>3 DEF StartInv

\* A boot posts the start of the station or of the access point ...
LEMMA BootStarts ==
  ASSUME NEW w, NEW e
  PROVE  \E i \in DOMAIN BootEvents(w, e) : BootEvents(w, e)[i] = StartEvent(w.mode)
<1>1. PICK p : p \in Seq({"ETH_CONNECTED"}) /\ BootEvents(w, e) = <<StartEvent(w.mode)>> \o p
  <2>1. <<>> \in Seq({"ETH_CONNECTED"}) /\ <<"ETH_CONNECTED">> \in Seq({"ETH_CONNECTED"})
    OBVIOUS
  <2> QED
    BY <2>1 DEF BootEvents
<1>2. StartEvent(w.mode) \in {"AP_START", "STA_START"}
  BY DEF StartEvent
<1>3. 1 \in DOMAIN BootEvents(w, e) /\ BootEvents(w, e)[1] = StartEvent(w.mode)
  BY <1>1, <1>2
<1> QED
  BY <1>3

\* ... and so owes the start of the web server, whichever it is.
LEMMA BootOwes ==
  ASSUME NEW ap \in BOOLEAN
  PROVE  /\ BootWifi(ap).started /\ BootWifi(ap).sta = "idle"
         /\ BootWifi(ap).mode = IF ap THEN "AP" ELSE "STA"
         /\ StartEvent(BootWifi(ap).mode) = IF ap THEN "AP_START" ELSE "STA_START"
  BY DEF BootWifi, StartEvent

\* Once the web server runs nothing is owed.
LEMMA StartDone ==
  ASSUME server'
  PROVE  StartInv'
  BY DEF StartInv

\* What a handler does to what is owed, while the web server does not run.
LEMMA LoopOwes ==
  ASSUME StartInv, TypeOK, EventLoop
  PROVE  StartInv'
<1>a. queue \in Seq(Events) /\ wifi \in WifiStates /\ eth \in EthStates /\ ap_mode \in BOOLEAN
  BY DEF TypeOK
<1>b. CASE server /\ UNCHANGED server
  BY <1>b, StartDone
<1>c. ASSUME ~server, loop = "idle" PROVE StartOwed /\ httpd = "idle"
  BY <1>c DEF StartInv
<1>d. ASSUME ~server, loop = "idle", httpd' = httpd, StartOwed' PROVE StartInv'
  BY <1>c, <1>d DEF StartInv
<1>e. ASSUME ~server, NEW event, Take(event, <<>>)
      PROVE  /\ loop = "idle" /\ StartOwed /\ httpd = "idle"
             /\ \A e : Waiting(e) /\ e # event => Waiting(e)'
  <2>1. <<>> \in Seq(Events)
    OBVIOUS
  <2>2. loop = "idle"
    BY <1>e DEF Take
  <2> QED
    BY <1>a, <1>c, <1>e, <2>1, <2>2, TakeWaits
<1>1. CASE StaStart
  <2>1. CASE ~server
    <3>1. /\ loop = "idle" /\ StartOwed /\ httpd = "idle"
          /\ \A e : Waiting(e) /\ e # "STA_START" => Waiting(e)'
      BY <1>1, <1>e, <2>1 DEF StaStart
    <3>2. /\ wifi' = Connected(wifi) /\ httpd' = httpd
          /\ UNCHANGED <<eth_connected, wifi_sta_off, ap_mode, eth>>
      BY <1>1, <3>1 DEF StaStart, StartOwed, flags, tasks
    <3>3. /\ wifi'.mode = wifi.mode /\ wifi'.started = wifi.started
          /\ wifi'.sta = "ip" => wifi.sta = "ip"
          /\ wifi.mode = "STA" /\ wifi.started => wifi'.sta # "idle"
      BY <1>a, <3>2 DEF Connected, WifiStates
    <3>4. StartOwed'
      BY <3>1, <3>2, <3>3 DEF StartOwed
    <3> QED
      BY <1>d, <2>1, <3>1, <3>2, <3>4
  <2> QED
    BY <1>1, <1>b, <2>1 DEF StaStart, flags, TypeOK
<1>2. CASE StaDisconnectedIgnored
  <2>1. CASE ~server
    <3>1. /\ loop = "idle" /\ StartOwed /\ httpd = "idle"
          /\ \A e : Waiting(e) /\ e # "STA_DISCONNECTED" => Waiting(e)'
      BY <1>2, <1>e, <2>1 DEF StaDisconnectedIgnored
    <3>2. /\ UNCHANGED <<httpd, eth_connected, wifi_sta_off, ap_mode, eth, wifi>>
          /\ ap_mode
      BY <1>2, <3>1 DEF StaDisconnectedIgnored, StartOwed, flags, drivers, tasks
    <3>3. StartOwed'
      BY <3>1, <3>2 DEF StartOwed
    <3> QED
      BY <1>d, <2>1, <3>1, <3>2, <3>3
  <2> QED
    BY <1>2, <1>b, <2>1 DEF StaDisconnectedIgnored, flags, TypeOK
<1>3. CASE StaRetry
  <2>1. CASE ~server
    <3>1. /\ loop = "idle" /\ StartOwed /\ httpd = "idle"
          /\ \A e : Waiting(e) /\ e # "STA_DISCONNECTED" => Waiting(e)'
      BY <1>3, <1>e, <2>1 DEF StaRetry
    <3>2. /\ UNCHANGED <<httpd, eth_connected, wifi_sta_off, ap_mode, eth>>
          /\ wifi' = Connected(wifi)
      BY <1>3 DEF StaRetry, CountRetry, tasks
    <3>3. /\ wifi'.mode = wifi.mode /\ wifi'.started = wifi.started
          /\ wifi'.sta = "ip" => wifi.sta = "ip"
          /\ wifi.mode = "STA" /\ wifi.started => wifi'.sta # "idle"
      BY <1>a, <3>2 DEF Connected, WifiStates
    <3>4. StartOwed'
      BY <3>1, <3>2, <3>3 DEF StartOwed
    <3> QED
      BY <1>d, <2>1, <3>1, <3>2, <3>4
  <2> QED
    BY <1>3, <1>b, <2>1 DEF StaRetry, CountRetry, TypeOK
<1>4. CASE StaGivesUp
  <2>1. CASE ~server
    <3>1. /\ loop = "idle" /\ StartOwed /\ httpd = "idle"
          /\ \A e : Waiting(e) /\ e # "STA_DISCONNECTED" => Waiting(e)'
      BY <1>4, <1>e, <2>1 DEF StaGivesUp
    <3>2. UNCHANGED <<httpd, eth_connected, wifi_sta_off, ap_mode, eth, wifi>> /\ eth.ip
      BY <1>4 DEF StaGivesUp, CountRetry, tasks
    <3>3. StartOwed'
      BY <3>1, <3>2 DEF StartOwed
    <3> QED
      BY <1>d, <2>1, <3>1, <3>2, <3>3
  <2> QED
    BY <1>4, <1>b, <2>1 DEF StaGivesUp, CountRetry, TypeOK
<1>5. CASE StartApMode
  <2>1. CASE ~server
    <3>1. PICK applied \in BOOLEAN :
            /\ wifi' = [started |-> applied, mode |-> "AP", sta |-> "idle"]
            /\ Take("STA_DISCONNECTED", DropEvents(wifi) \o IF applied THEN <<"AP_START">> ELSE <<>>)
      BY <1>5 DEF StartApMode
    <3>2. PICK p \in Seq(Events) : p = DropEvents(wifi) \o IF applied THEN <<"AP_START">> ELSE <<>>
      BY DropTypes, EventTypes
    <3>3. applied => \E i \in DOMAIN p : p[i] = "AP_START"
      <4> SUFFICES ASSUME applied PROVE \E i \in DOMAIN p : p[i] = "AP_START"
        OBVIOUS
      <4>1. p = DropEvents(wifi) \o <<"AP_START">>
        BY <3>2
      <4>2. CASE DropEvents(wifi) = <<>>
        <5>1. p = <<>> \o <<"AP_START">>
          BY <4>1, <4>2
        <5>2. 1 \in DOMAIN p /\ p[1] = "AP_START"
          BY <5>1
        <5> QED
          BY <5>2
      <4>3. CASE DropEvents(wifi) = <<"STA_DISCONNECTED">>
        <5>1. p = <<"STA_DISCONNECTED">> \o <<"AP_START">>
          BY <4>1, <4>3
        <5>2. 2 \in DOMAIN p /\ p[2] = "AP_START"
          BY <5>1
        <5> QED
          BY <5>2
      <4> QED
        BY <4>2, <4>3 DEF DropEvents
    <3>4. Take("STA_DISCONNECTED", p)
      BY <3>1, <3>2
    <3>5. /\ \A e : Waiting(e) /\ e # "STA_DISCONNECTED" => Waiting(e)'
          /\ \A i \in DOMAIN p : Waiting(p[i])'
      BY <1>a, <3>2, <3>4, TakeWaits
    <3>6. loop = "idle" /\ StartOwed /\ httpd = "idle"
      BY <1>c, <2>1, <3>4 DEF Take
    <3>7. UNCHANGED <<httpd, eth_connected, wifi_sta_off, eth>> /\ ap_mode' /\ ~eth.ip
      BY <1>5 DEF StartApMode, CountRetry, tasks
    <3>8. wifi'.mode = "AP" /\ wifi'.sta = "idle" /\ wifi'.started = applied
      BY <3>1
    <3>9. applied => Waiting("AP_START")'
      BY <3>3, <3>5
    <3>10. StartOwed'
      BY <3>6, <3>7, <3>8, <3>9 DEF StartOwed
    <3> QED
      BY <1>d, <2>1, <3>6, <3>7, <3>10
  <2> QED
    BY <1>5, <1>b, <2>1 DEF StartApMode, CountRetry, TypeOK
<1>6. CASE ApStart \/ GotIpEnds
  BY <1>6, StartDone DEF ApStart, GotIpEnds
<1>7. CASE StaGotIp \/ EthGotIp
  <2>1. httpd' = httpd /\ server' = server /\ loop' \notin {"idle", "glue"}
    BY <1>7 DEF StaGotIp, EthGotIp, tasks
  <2> QED
    BY <2>1 DEF StartInv
<1>8. CASE ShutdownStops
  BY <1>8 DEF ShutdownStops, StartInv, flags, tasks
<1>9. CASE RestartBegins \/ RestartStarts \/ ClientStep("loop")
  BY <1>9, StartElsewhere DEF RestartBegins, RestartStarts, ClientStep, flags, drivers, tasks
<1>10. ASSUME NEW event \in Ends, EthLost(event)
       PROVE  StartInv'
  <2>1. CASE ~server
    <3>1. loop = "idle"
      BY <1>10 DEF EthLost, Take
    <3>2. StartOwed /\ httpd = "idle"
      BY <1>c, <2>1, <3>1
    <3>3. ~(eth_connected /\ Restores)
      BY <3>2 DEF StartOwed
    <3>4. /\ Take(event, <<>>) /\ UNCHANGED <<wifi_sta_off, wifi, ap_mode, eth, httpd>>
          /\ eth_connected' = FALSE
      BY <1>10, <3>3 DEF EthLost, tasks
    <3>5. \A e : Waiting(e) /\ e # event => Waiting(e)'
      BY <1>e, <2>1, <3>4
    <3>6. StartOwed'
      BY <3>2, <3>4, <3>5 DEF StartOwed, Ends
    <3> QED
      BY <1>d, <2>1, <3>1, <3>4, <3>6
  <2> QED
    BY <1>10, <1>b, <2>1 DEF EthLost, TypeOK
<1>11. CASE EthLostIp \/ EthDisconnected
  BY <1>10, <1>11 DEF EthLostIp, EthDisconnected, Ends
<1>12. CASE EthGlueDown
  <2>1. eth'.ip => eth.ip
    BY <1>a, <1>12 DEF EthGlueDown, EthStates
  <2> QED
    BY <1>12, <2>1, StartElsewhere DEF EthGlueDown, flags, tasks
<1>13. CASE EthConnected
  <2>1. CASE ~server
    <3>1. /\ loop = "idle" /\ StartOwed /\ httpd = "idle"
          /\ \A e : Waiting(e) /\ e # "ETH_CONNECTED" => Waiting(e)'
      BY <1>13, <1>e, <2>1 DEF EthConnected
    <3>2. UNCHANGED <<httpd, eth_connected, wifi_sta_off, ap_mode, wifi>> /\ eth'.ip = eth.ip
      BY <1>a, <1>13 DEF EthConnected, flags, tasks, EthStates
    <3>3. StartOwed'
      BY <3>1, <3>2 DEF StartOwed
    <3> QED
      BY <1>d, <2>1, <3>1, <3>2, <3>3
  <2> QED
    BY <1>13, <1>b, <2>1 DEF EthConnected, flags, TypeOK
<1> QED
  BY <1>1, <1>2, <1>3, <1>4, <1>5, <1>6, <1>7, <1>8, <1>9, <1>11, <1>12, <1>13 DEF EventLoop

\* Tasks and requests leave it alone, and no request is served before the start.
LEMMA TasksOwe ==
  ASSUME StartInv, TypeOK, NtpTask \/ WebServer
  PROVE  StartInv'
<1>1. CASE NtpTask
  BY <1>1, StartElsewhere
  DEF NtpTask, NtpWaited, NtpEnds, ClientStep, flags, drivers, tasks
<1>2. CASE (WgPost \/ Reconnect \/ RebootRequest) /\ UNCHANGED server
  BY <1>2, StartDone DEF WgPost, Reconnect, RebootRequest, Request
<1>3. CASE WgPost \/ Reconnect \/ RebootRequest
  BY <1>2, <1>3 DEF WgPost, Reconnect, RebootRequest, flags
<1>4. CASE WgPostStopped \/ WgPostEnds \/ ReconnectConnects
  <2>1. httpd # "idle" /\ server' = server
    BY <1>4 DEF WgPostStopped, WgPostEnds, ReconnectConnects, flags
  <2> QED
    BY <2>1, StartDone DEF StartInv
<1>5. CASE Reboot
  <2>1. /\ eth_connected' = FALSE /\ wifi_sta_off' = FALSE /\ ap_mode' = boot_ap
        /\ wifi' = BootWifi(boot_ap) /\ eth' = BootEth(eth.link)
        /\ queue' = BootEvents(wifi', eth') /\ httpd' = "idle"
    BY <1>5 DEF Reboot
  <2>2. boot_ap \in BOOLEAN
    BY DEF TypeOK
  <2>3. ~eth'.ip
    BY <2>1 DEF BootEth
  <2>4. PICK w, e : w = wifi' /\ e = eth'
    OBVIOUS
  <2>5. \E i \in DOMAIN queue' : queue'[i] = StartEvent(w.mode)
    BY <2>1, <2>4, BootStarts
  <2>6. /\ wifi'.started /\ wifi'.sta = "idle" /\ wifi'.mode = IF boot_ap THEN "AP" ELSE "STA"
        /\ StartEvent(w.mode) = IF boot_ap THEN "AP_START" ELSE "STA_START"
    BY <2>1, <2>2, <2>4, BootOwes
  <2>7. Waiting(IF ap_mode THEN "AP_START" ELSE "STA_START")'
    BY <2>1, <2>5, <2>6 DEF Waiting
  <2> QED
    BY <2>1, <2>2, <2>3, <2>6, <2>7 DEF StartInv, StartOwed
<1>6. CASE ClientStep("httpd")
  BY <1>6, StartElsewhere DEF ClientStep, flags, drivers, tasks
<1> QED
  BY <1>1, <1>3, <1>4, <1>5, <1>6 DEF WebServer, ServeRequest

\* The drivers tell what they change.
LEMMA DriversOwe ==
  ASSUME StartInv, TypeOK, Environment
  PROVE  StartInv'
<1>a. queue \in Seq(Events) /\ wifi \in WifiStates /\ eth \in EthStates
  BY DEF TypeOK
<1>b. ASSUME NEW event \in Events, Post(event)
      PROVE  Waiting(event)' /\ \A e : Waiting(e) => Waiting(e)'
  <2> DEFINE p == <<event>>
  <2>1. p \in Seq(Events) /\ 1 \in DOMAIN p /\ p[1] = event
    OBVIOUS
  <2>2. queue' = queue \o p
    BY <1>a, <1>b DEF Post
  <2> HIDE DEF p
  <2> QED
    BY <1>a, <2>1, <2>2, PostWaits
<1>c. ASSUME UNCHANGED <<flags, loop, httpd>>, ~server /\ StartOwed => StartOwed'
      PROVE  StartInv'
  BY <1>c DEF StartInv, flags
<1>1. CASE StationGetsIp
  <2>1. wifi'.sta = "ip" /\ wifi'.mode = wifi.mode /\ wifi'.started = wifi.started
    BY <1>a, <1>1 DEF StationGetsIp, WifiStates
  <2>2. Waiting("STA_GOT_IP")' /\ \A e : Waiting(e) => Waiting(e)'
    BY <1>1, <1>b DEF StationGetsIp, Events
  <2>3. UNCHANGED <<flags, loop, httpd, eth>>
    BY <1>1 DEF StationGetsIp, tasks
  <2>4. StartOwed => StartOwed'
    BY <2>1, <2>2, <2>3 DEF StartOwed, flags
  <2> QED
    BY <1>c, <2>3, <2>4
<1>2. CASE StationFails \/ StationDrops
  <2>1. wifi'.sta = "idle" /\ wifi'.mode = wifi.mode /\ wifi'.started = wifi.started
    BY <1>a, <1>2 DEF StationFails, StationDrops, Idle, WifiStates
  <2>2. Waiting("STA_DISCONNECTED")' /\ \A e : Waiting(e) => Waiting(e)'
    BY <1>2, <1>b DEF StationFails, StationDrops, Events
  <2>3. UNCHANGED <<flags, loop, httpd, eth>>
    BY <1>2 DEF StationFails, StationDrops, tasks
  <2>4. StartOwed => StartOwed'
    BY <2>1, <2>2, <2>3 DEF StartOwed, flags
  <2> QED
    BY <1>c, <2>3, <2>4
<1>3. CASE LinkChanges \/ Lease \/ LeaseExpires \/ LostTimer
  <2>1. /\ \A e : Waiting(e) => Waiting(e)'
        /\ eth'.ip => eth.ip \/ Waiting("ETH_GOT_IP")'
    <3>1. CASE LinkChanges
      <4>1. Post(IF eth.link THEN "ETH_DISCONNECTED" ELSE "ETH_CONNECTED") /\ eth'.ip = eth.ip
        BY <1>a, <3>1 DEF LinkChanges, EthStates
      <4> QED
        BY <1>b, <4>1 DEF Events
    <3>2. CASE Lease
      BY <1>b, <3>2 DEF Lease, Events
    <3>3. CASE LeaseExpires
      <4>1. ~eth'.ip /\ queue' = queue
        BY <1>a, <3>3 DEF LeaseExpires, EthStates
      <4> QED
        BY <4>1 DEF Waiting
    <3>4. CASE LostTimer
      <4>1. eth'.ip = eth.ip
        BY <1>a, <3>4 DEF LostTimer, EthStates
      <4>2. queue' = queue \/ Post("ETH_LOST_IP")
        BY <3>4 DEF LostTimer
      <4>3. \A e : Waiting(e) => Waiting(e)'
        <5>1. CASE queue' = queue
          BY <5>1 DEF Waiting
        <5>2. CASE Post("ETH_LOST_IP")
          BY <1>b, <5>2 DEF Events
        <5> QED
          BY <4>2, <5>1, <5>2
      <4> QED
        BY <4>1, <4>3
    <3> QED
      BY <1>3, <3>1, <3>2, <3>3, <3>4
  <2>2. UNCHANGED <<flags, loop, httpd, wifi>>
    BY <1>3 DEF LinkChanges, Lease, LeaseExpires, LostTimer, tasks
  <2>3. StartOwed => StartOwed'
    BY <2>1, <2>2 DEF StartOwed, flags
  <2> QED
    BY <1>c, <2>2, <2>3
<1>4. CASE UNCHANGED <<queue, loop, flags, drivers, tasks, faults>>
  BY <1>4, StartElsewhere DEF flags, drivers, tasks
<1> QED
  BY <1>1, <1>2, <1>3, <1>4 DEF Environment, StationOutcome

\* The web server is never forgotten: whatever fails, retries, comes and goes, as long as it
\* does not run and nothing is left to handle, the station is connecting, unless
\* start_ap_mode gave up on its configuration (wifi_event_handler, start_ap_mode).
THEOREM StartNeverForgotten == Spec => []StartIsOwed
<1>1. Init => StartInv
  <2> SUFFICES ASSUME Init PROVE StartInv
    OBVIOUS
  <2>1. /\ eth_connected = FALSE /\ wifi_sta_off = FALSE /\ ap_mode \in BOOLEAN
        /\ wifi = BootWifi(ap_mode) /\ ~eth.ip
        /\ queue = BootEvents(wifi, eth) /\ httpd = "idle"
    BY DEF Init, BootEth
  <2>2. Waiting(StartEvent(wifi.mode))
    BY <2>1, BootStarts DEF Waiting
  <2> QED
    BY <2>1, <2>2, BootOwes DEF StartInv, StartOwed
<1>2. StartInv /\ TypeOK /\ [Next]_vars => StartInv'
  <2> SUFFICES ASSUME StartInv, TypeOK, [Next]_vars PROVE StartInv'
    OBVIOUS
  <2>1. CASE Next
    BY <2>1, LoopOwes, TasksOwe, DriversOwe DEF Next
  <2>2. CASE UNCHANGED vars
    BY <2>2, StartElsewhere DEF vars, flags, drivers, tasks
  <2> QED
    BY <2>1, <2>2
<1>3. StartInv /\ TypeOK => StartIsOwed
  <2> SUFFICES ASSUME StartInv, TypeOK, queue = <<>>, loop = "idle", ~server
               PROVE  wifi.sta = "connecting" \/ (ap_mode /\ ~wifi.started)
    BY DEF StartIsOwed, Quiet
  <2>1. StartOwed /\ \A e : ~Waiting(e)
    BY DEF StartInv, Waiting
  <2>2. wifi.sta \in {"idle", "connecting", "ip"} /\ ap_mode \in BOOLEAN
    BY DEF TypeOK, WifiStates
  <2> QED
    BY <2>1, <2>2 DEF StartOwed
<1> QED
  BY <1>1, <1>2, <1>3, NetTypeCorrect, PTL DEF Spec

-----------------------------------------------------------------------------
(* What LeaseLossRestores rests on: a lost address is always about to be   *)
(* noticed, and noticing it switches the station on.                       *)

\* An address that was lost while the device counted as carried by Ethernet: the timer
\* runs, or an event that says so waits.
LossIsPending ==
  eth_connected /\ ~eth.ip => eth.lost \/ Waiting("ETH_LOST_IP") \/ Waiting("ETH_DISCONNECTED")

\* The flag is not cleared without an address and the station left off.
LossRestores ==
  [][wifi_sta_off /\ eth_connected /\ ~eth.ip /\ ~eth_connected' => ~wifi_sta_off']_vars

\* However leases and links come and go, a lost address never goes unnoticed
\* (wifi_event_handler, IP_EVENT_ETH_LOST_IP and ETHERNET_EVENT_DISCONNECTED).
THEOREM LossNeverForgotten == Spec => []LossIsPending
<1>1. BeliefInv /\ TypeOK => LossIsPending
  <2> SUFFICES ASSUME BeliefInv, eth_connected, ~eth.ip, ~eth.lost, queue \in Seq(Events)
               PROVE  Waiting("ETH_LOST_IP") \/ Waiting("ETH_DISCONNECTED")
    BY DEF LossIsPending, TypeOK
  <2>1. ~Learns(queue, eth_connected)
    BY DEF BeliefInv
  <2>2. PICK i \in 1..Len(queue) : queue[i] \in Ends
    BY <2>1 DEF Learns
  <2> QED
    BY <2>2 DEF Waiting, Ends
<1> QED
  BY <1>1, AlwaysForeseen, NetTypeCorrect, PTL

\* wifi_sta_restore: whichever handler notices the loss first, the station is switched on
\* again in the same step (its own two conditions are never in the way).
THEOREM LossSwitchesBack == Spec => LossRestores
<1>1. NetInv /\ [Next]_vars =>
        (wifi_sta_off /\ eth_connected /\ ~eth.ip /\ ~eth_connected' => ~wifi_sta_off')
  <2> SUFFICES ASSUME NetInv, [Next]_vars, wifi_sta_off, eth_connected, ~eth.ip, ~eth_connected'
               PROVE  ~wifi_sta_off'
    OBVIOUS
  <2>1. ~ap_mode
    BY DEF NetInv, RadioInv, ApExcludesOff
  <2>2. Restores
    BY <2>1 DEF Restores
  <2>3. CASE EthLostIp \/ EthDisconnected
    BY <2>2, <2>3 DEF EthLostIp, EthDisconnected, EthLost
  <2>4. CASE Reboot
    BY <2>4 DEF Reboot
  <2>5. CASE UNCHANGED eth_connected
    BY <2>5
  <2>6. CASE EthGotIp
    BY <2>6 DEF EthGotIp
  <2>7. \/ EthLostIp \/ EthDisconnected \/ EthGotIp \/ Reboot
        \/ UNCHANGED eth_connected
    <3>1. CASE EventLoop
      BY <3>1 DEF EventLoop, StaStart, StaDisconnectedIgnored, StaRetry, StaGivesUp, StartApMode,
         CountRetry, ApStart, StaGotIp, ShutdownStops, RestartBegins, RestartStarts, GotIpEnds,
         EthGlueDown, EthConnected, ClientStep, flags
    <3>2. CASE NtpTask
      BY <3>2 DEF NtpTask, NtpWaited, NtpEnds, ClientStep, flags
    <3>3. CASE WebServer
      BY <3>3 DEF WebServer, ServeRequest, WgPost, WgPostStopped, WgPostEnds, Reconnect,
         ReconnectConnects, RebootRequest, ClientStep, flags
    <3>4. CASE Environment
      BY <3>4 DEF Environment, StationOutcome, StationGetsIp, StationFails, StationDrops,
         LinkChanges, Lease, LeaseExpires, LostTimer, flags
    <3>5. CASE UNCHANGED vars
      BY <3>5 DEF vars, flags
    <3> QED
      BY <3>1, <3>2, <3>3, <3>4, <3>5 DEF Next
  <2> QED
    BY <2>3, <2>4, <2>5, <2>6, <2>7
<1> QED
  BY <1>1, NetInvariant, PTL DEF Spec, LossRestores
=============================================================================
