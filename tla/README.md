# Verification of the ESP32-S3 web console

The firmware turns an ESP32-S3 into an out-of-band console for a network
switch: the switch's console is a USB CDC-ACM device, a browser reaches it by
WebSocket over WiFi, W5500 Ethernet, a fallback access point or a WireGuard
tunnel. This directory holds TLA+ models of the firmware's own logic, TLC
configurations that check them on small instances, and TLAPS proofs.

Paths are relative to the repository (`src/`); `main.c` is `src/main/main.c`,
and the files of the WireGuard component are those of
`src/components/trombik__esp_wireguard/src/`.

## 1. Inventory

### Tasks

| Task | Runs | Shares |
|---|---|---|
| event loop (esp_event) | `wifi_event_handler`, the drivers' own handlers; one event at a time from a FIFO queue | all flags of `main.c` 432-438, the WireGuard client |
| web server (httpd) | every HTTP and WebSocket handler, and the broadcast jobs queued to it; one at a time | `cdc_dev`, `ws_clients`, the flags, the WireGuard client, the settings |
| `cdc_connect_task` | opens a CDC device every two seconds while there is none | `cdc_dev`, `cdc_connected`, `current_baud` |
| CDC driver task | `cdc_rx_callback`, `cdc_event_callback` | the echo ring, `cdc_dev` |
| `wg_start_after_ntp_task` | waits for NTP or ten seconds, starts WireGuard | `wg_started`, the WireGuard client |
| `wg_monitor_task` | every five seconds, while `s_running` | `s_wg_ctx` |
| lwIP (tcpip) | WireGuard's packets and its 400 ms timer | the WireGuard device and its peer |

### Components

**TX echo filter** (`main.c` 56-100). State: a 512-byte ring with head, tail,
count and a mutex. `tx_echo_push` remembers what is sent, `filter_tx_echo`
removes from what is received every byte equal to the oldest remembered one.
Hard: two tasks, three counters that wrap, bytes that are never echoed, output the web server
takes no job for (`main.c` 220-223: there is none before a first address).
Correct when: the ring is a FIFO; exactly the echoes are removed; what else is
lost can be accounted for.

**USB CDC console** (`main.c` 204-428). State: the published handle `cdc_dev`,
`cdc_mutex`, `cdc_connected`, `current_baud`. Operations: open, configure and
publish a device; a disconnect event that clears and closes; `cdc_send`,
`send_break`, `set_baud` with a copy of the handle. Hard: none of the sequences
is atomic. Correct when: handle, status and baud rate settle on the device in
the port, and a device in the port gets published.

**Network manager** (`main.c` 430-737, 984-1001, 1253-1286). State:
`ap_mode`, `wifi_sta_off`, `eth_connected`, `wifi_retries`, `wg_started`,
`sntp_started`, `server`. Operations: the events of WiFi and Ethernet, the
switch between station, fallback access point and Ethernet, the reconnect and
reboot from the web. Hard: events are handled late, the order of the handlers of one
event, handlers that sleep, calls from three tasks. Correct when: no two
radios, flags agree with interfaces, the web server comes up, the station
returns when Ethernet goes, Ethernet is the default route while it is there.

**WireGuard client life cycle** (`wg_client.c`, `esp_wireguard.c`). State:
`s_running`, `s_wg_ctx` (its `netif` and the default route noted), one static
`netif`. Operations: start, stop, monitor. Hard: no lock, three callers, a name
lookup of seconds in the middle, error paths that undo nothing. Correct when:
the interface has one owner, is never used as NULL, never added twice.

**WireGuard protocol engine and interface** (`wireguard.c`, `wireguardif.c`).
State: three keypair slots, a handshake slot, timers and a replay window per
keypair. Operations: create and process initiation, response and cookie;
encrypt, decrypt; one periodic timer. Hard: lost, repeated and reordered
messages, retries, expiry. Correct when: both ends agree on a session, no packet is
delivered twice, a lost message is made up for by a retry.

**WebSocket fan-out** (`main.c` 112-202, 1095-1204). State: a table of four file
descriptors and its mutex; jobs queued to the web server. Hard: descriptors
are reused by later connections; entries go only at a failed send, a failed
receive or a close frame. Correct when: every browser at the terminal is in the table once,
and output reaches each of them in order.

**Browser terminal** (`web_terminal.html` 296-393, 633-645). State: `ws`,
`connected`, `reconnectTimer`, and every WebSocket object not finished yet.
Operations: connect, disconnect, the button, the timer, and the callbacks of each
object. Hard: the callbacks of an object that was given up still come. Correct when: what
the page shows as connected is connected, it does not give up, and it shows no output twice.

**Configuration store** (`config.c`) **and HTTP handlers** (`main.c` 739-1091).
State: the settings in memory and in the flash, the flag `boot_ap`, whether the
namespace exists. Operations: `config_init` at every boot, which erases a flash that has no free page
or a newer format, and whose result `app_main` ignores; load with defaults, save key by key, set and consume the flag,
three requests that save. Hard: the write is many keys and one commit, every error of `nvs_set`
is ignored, and the power may go in between; any error of reading gives a default. Correct when: each setting
that is loaded was asked for, unless the flash was erased; an intact save survives a restart unchanged; and the
access point comes up once for each time the flag was set.

**W5500 bring-up** (`eth_w5500.c`): straight-line initialisation; what matters
to the others is that its interface attaches its event handlers after
`main.c` has registered its own. **Cryptographic primitives** and the **demo
application** of the vendored component are left aside.

Interactions: keystroke = httpd task -> `cdc_send` -> echo ring + driver; output
= driver task -> filter -> job -> httpd task -> every descriptor of the table;
network event -> flags, driver calls, WireGuard restart, web server, NTP task;
settings -> flash + `set_baud` + reconnect or restart; a tunnel's timer -> handshake or keepalive -> UDP ->
the other end, and a packet received -> slots, link flag, IP layer.

## 2. Modules

| Module | Models | State and steps |
|---|---|---|
| `EchoQueue` | abstract: bounded FIFO of unanswered bytes | `Remember`, `Drop`, `Pass` |
| `EchoFilter` | the ring, one action per loop iteration | `tx_echo_*` as in the code; `todo` and `kept` are the loop's variables |
| `EchoConsole` | the ring between `cdc_send`, a switch and `cdc_rx_callback` | EXTENDS `EchoFilter`; bytes in flight carry a tag the filter cannot see |
| `AntiReplay` | abstract: what a replay window promises | `Accept`, `Refuse` |
| `ReplayWindow` | `wireguard_check_replay` | the bitmap as a set of bit offsets, `diff` in its own width |
| `WgClient` | start, stop, monitor of the WireGuard client | `call[t]`: where task t stands in its call |
| `NetManager` | event handler, NTP task, settings requests, drivers | EXTENDS `WgClient`; the event queue, the flags, the drivers |
| `CdcConsole` | the CDC handle | one variable per task for where it stands |
| `WsClients` | table of browsers, broadcast jobs, connections | handlers and jobs are one step each, since the server's task runs one at a time |
| `WebTerminal` | one page of the terminal at that server | EXTENDS `WsClients`; a page's functions and callbacks are one step each, since a browser runs them to completion |
| `KeyAgreement` | abstract: who may seal under a session key, and when | `Offer`, `Open`, `Answer` |
| `WgSession` | two ends of a tunnel and the network between them | `peer[n]` is n's `struct wireguard_peer`; one action per handler of `wireguardif.c` |
| `ConfigStore` | `config.c`, the requests that save, the boot | the flash key by key, the open handle (`pending`), the copy in memory |

`MC*` modules instantiate them; `*_proofs` hold the theorems.

Correspondence, where it is not one to one:

- A loop or function that holds a mutex throughout is split at its loop
  iterations (`EchoFilter`), or is one step (`Copy` in `CdcConsole`). A function
  without a lock is split where another task changes what it uses: around
  every sleep (`wifi_sta_shutdown`, `wifi_reconnect`), the name lookup, and
  between the calls of `cdc_on_connected` and `cdc_event_callback`. In
  `WgClient` the test of `s_running` and its assignment in `wg_client_stop` are
  one step, and so are the calls of `esp_wireguard_disconnect`: the windows left
  out are a few instructions, without a call that blocks.
- `wg_post_handler` sets `wg_started` to FALSE and, if the client is enabled, at
  once to TRUE again: one step.
- The handler of `IP_EVENT_ETH_GOT_IP` is `EthGotIp` (flags, default route, first half of
  the shutdown), `ShutdownStops` (after 100 ms), the steps of the WireGuard restart, `GotIpEnds`.
- Handlers of one event run in the order of registration. `app_main` calls
  `wifi_init_sta`, which registers `wifi_event_handler`, before
  `eth_w5500_init` attaches the Ethernet interface; so `EthDisconnected` comes
  before `EthGlueDown`, the interface's own handler.
- `wifi_retries` is counted up to `WIFI_MAX_RETRIES + 1` and then held: the code only compares it with the limit.
- `WgSession`: keys, ephemerals and indices are numbers drawn once; a packet opens under the key it was sealed with, in the
  other direction. `seen` is the replay window, whose bits are `ReplayWindow`'s affair. A message once sent stays on the network
  for ever, so that it may arrive late, repeatedly, in any order or never. The unit of time is much
  longer than the timer's 400 ms: each end's timer runs at least once in each (`due`). Where the code uses 0
  for "never" (`last_rx`, `last_initiation_tx`) the model has a flag or the same 0. Allowed addresses, the peer's changing address, cookies,
  failed allocations and a second peer are left out, and so is the rate limit of initiations, whose
  subtraction has its operands in the wrong order (`wireguard.c` 615), so that it only stops two initiations of one millisecond.
- `EchoConsole`: `RxReturn` is the end of `cdc_rx_callback`: the job is queued, or `httpd_queue_work` refuses it and
  its bytes are gone (`refused` holds them, `dropped` counts them). `Passed` is what the filter has let through, whether shown or refused.
- `ConfigStore`: `ConfigInit`, `Erase` and `EraseTorn` are the outcomes of `config_init`: the flash is `mounted` or not, erased, or erased in
  part, when the device restarts in the middle. Every `nvs_open` and every reading of a key may fail. `Order` lists all sixteen keys or some of them. `Write` is one `nvs_set`, done or failed; a power loss, or a commit that fails, keeps any subset of what
  was set. `nvs_open` for writing creates the namespace. The values that matter are those
  that a default replaces or a cast cuts; other strings are taken as they are. The flag `boot_ap` is a key of its own.
- `WebTerminal`: an object of the page is a number that can serve again after its onclose. `onerror` and the `onclose` after it
  are one step. What is sent to an open object is on the screen at once, what comes before its `onopen` is
  written with it; what is on its way when a connection is cut is lost. `Shake` is a handshake of this page or of any other browser.
- The settings of WireGuard are complete when it is enabled; the early returns of
  `wg_client_start` for missing keys change nothing. A peer's key that does not decode is possible where
  `InvalidKeys` is TRUE (run `net`); the other runs of the network manager show what happens with valid keys.
- A failed assertion (`panic`) ends the behaviour: the device restarts, and
  `Init` covers the state it restarts in (with or without a link, with or
  without the access point).
- WiFi driver, Ethernet interface, CDC host driver, the switch and the cable are
  external: modelled from the calls `main.c` makes and the events it gets back.

## 3. Runs

Bounds are constants of the modules and appear in guards only.

| Run | Bounds | Distinct states | Shows |
|---|---|---|---|
| `echo` | ring of 2, 4 bytes typed, 2 printed, chunks of 2, two byte values | 681,481 | the ring wraps, fills and evicts; every interleaving of typing, echo, output and filter; jobs that the web server refuses |
| `replay` | window 3, counters to 8 and the wrapping one, `diff` modulo 10 | 5,120 | every order, gap and repetition |
| `net` | two faults, or two requests; 1 retry | 383,071 | safety and liveness of the network manager and the three tasks that start and stop WireGuard |
| `net_restore`, `net_default`, `net_null` | 1 fault, none, 1 request | | violated: see findings |
| `cdc` | 2 pluggings, 2 requests, 2 rates | 43,562 | handle, status and rate settle; a device is published |
| `cdc_stale` | 2 pluggings | | violated: a closed handle is published |
| `ws` | 2 sockets, 2 slots, 2 jobs, 3 connections, 2 objects of the page | 1,053,931 | a page and other browsers connect, are displaced and come back under used descriptors; sends fail, the button is clicked |
| `session` | 4 keys, 2 packets, 4 units of time, 1 failed send or restart; lifetimes 1, 2, 3 | 202,929 | two ends open, renew and lose sessions over an unreliable network |
| `session_dup` | 4 keys, 1 packet, no fault | | violated: a packet reaches the IP layer twice |
| `config` | 4 keys of four kinds, 2 saves, 2 restarts, 2 faults | 3,254,280 | torn saves, failed calls of the flash, boots that erase it or cannot read it |

Why the bounds are enough: the ring's arithmetic is proved for every size, and
two slots already make full, empty and wrapped differ; a window of three has a
first, an inner and a last offset, and nine counters outrun it twice. One retry separates
"retries left" from "none left". Two faults give a flap of the link, a lost
lease followed by a link loss, and an access point lost during either; two
requests give two overlapping uses of the web server besides the two other
tasks. Two pluggings let the callback of the first device meet the opening of the second. Three connections over two
sockets use one descriptor twice, displace one and leave one behind, and two objects overlap. Four keys are two handshakes, so that a session is renewed and all three
slots are full; two packets reach the limit of messages, four units of time the limit of age. Two saves, two faults and two
restarts give a torn save over an intact one, a flag that is not erased, and a boot that erases the flash, or cannot read it, between
two saves. What is proved (section 4) holds for every number.

Deadlock is not checked where the system may stop: a device without a link, a
request, a keystroke, a further save or unit of time stops by design or at a bound. `replay` has no such state and is checked.

### Fairness

`NetManager`: the event loop, the NTP task and a request being served run when they can
(FreeRTOS tasks that nothing holds up for ever); a connection attempt of the station ends one way or
the other (the driver times out); the lost-address timer fires. None is assumed for
leases, NTP answers, requests or faults. `CdcConsole`: its three tasks run; the cable and the browsers owe nothing.
`WgSession`: time passes and each end's periodic timer runs (`sys_timeout`, which `wireguardif_tmr` sets again first thing); no message need arrive.
`WebTerminal`: the page's timers fire, and an object that is closing gets its `onclose`, since a browser does not wait
for the server's close frame for ever; no attempt need succeed, and nothing is owed by the server or the user.

### What the properties say

- `RingCoherent`, `RefinesQueue`: indices and count never disagree; the ring is a FIFO that forgets its oldest byte.
- `EchoExactlyRemoved`: when every byte was echoed and none evicted, the filter has let through exactly what the switch
  printed; the browsers got it less the jobs the web server refused.
- `LossAccounted`: every byte missing was in a refused job, or stands for a byte whose echo never came and that has been matched since.
- `WindowExact`, `RefinesAntiReplay`: the bitmap is the record of accepted counters; none is accepted twice or refused without a reason.
- `NoDualRadio`, `ApExcludesOff`, `BeliefSettles`: between handlers, the radio is off while Ethernet
  carries the device; access point and switched-off station exclude each other; with nothing pending the flag agrees with the interface.
- `ServerStarts`, `LeaseLossRestores`: the web server comes up; a lost lease brings the station back.
- `LinkHasOneOwner`: one task, or the running client, owns the WireGuard interface.
- `ListedOnce`, `ScreenComplete`: no browser gets the output twice; a terminal gets every job run since its
  handshake, in order, until a send to it fails (the history variables `since` and `missed`).
- `KeysGoOut`, `OutputOnce`: while the page shows CONNECTED a keystroke finds an open socket; through every loss and
  renewal the screen has no output twice and none out of order. Both except a page that made an object while
  another was not finished (the history variable `overlapped`).
- `NeverGivesUp`, `KeepsConnecting`: a connection, an attempt or the timer is always left; the page is, again and again, connected or trying.
- `HandleIsCurrent`, `BaudIsCurrent`, `PluggedIsPublished`: handle, status and rate settle on the device in the
  port unless an event met the connect task between opening and publishing (the history variable `missed`).
- `NonceUsedOnce`: no counter is used twice under one key, although keypairs move between slots, responses arrive again and ends restart.
- `KeypairsMatch`: keypairs of the two ends with the same key are each other's, in opposite roles.
- `RefinesKeyAgreement`: a responder seals nothing under a key before its initiator has.
- `AnsweredOnce`: a repeated initiation is answered again only by an end that was restarted.
- `RepeatedOnlyIfConfirming`: only the packet that confirmed a keypair can reach the IP layer a second time (finding 5).
- `SessionShowsUp`, `CurrNeverStale`: the link flag agrees with `wireguardif_peer_is_up`; a current keypair is never older than
  `REJECT_AFTER_TIME` once the timer has run.
- `KeepsTrying`: an end that is to connect and has no session goes on sending initiations.
- `SettingsHaveASource`: each field that a restart able to read the flash would load was asked for by the last intact save or one tried
  since; a default, or what an older save gave, only if `config_init` has erased the flash since that save.
- `RestartChangesNothing`: after an intact save, flash and memory agree, except after a boot that could not read the flash, until
  the next save is committed (the history variable `misread`).
- `BootApOnce`: the access point comes up by itself once for each time `config_post_handler` has set the flag, and once more only for
  each call of the flash that failed. That it sets the flag at all contradicts the manual, see below.

### Findings

1. `net_restore`: at a link loss `wifi_sta_restore` still finds the Ethernet
   address, because the interface's own handler runs later; the flag it would need next time is
   already cleared, so WiFi stays off (`src/README.md` line 26 promises the opposite).
2. `net_default`: the restart of WireGuard restores the default route noted at its connect.
3. `net_null`: the monitor task uses an interface that a request has removed while it slept (with keys that decode; a
   key that does not decode leads to the same assertion, see below).
4. `cdc_stale`: a disconnect before the publication leaves a closed handle published for ever.
5. `session_dup`: the packet that confirms a responder's keypair is accepted twice, since its counter is noted
   in the slot the keypair has just left.

Two more contradictions are plain in the code and take one path each, so that they have no run:

- Settings saved in access point mode restart into access point mode: `config_post_handler` sets `boot_ap` (`main.c` 984-985) and `app_main` then
  starts the access point (`main.c` 1274). `src/README.md` line 279 says the opposite, "Der ESP startet automatisch neu und verbindet sich als STA mit dem
  neuen Netz". In the run `config` it is the behaviour `ConfigPost` with `ap_mode`, `SetBootAp`, `Restart`, `Consume`, after which `granted` is 1.
- When the peer's key does not decode, `esp_wireguard_connect` leaves through `fail` with `err` still `ESP_OK` (`esp_wireguard.c` 257), while
  `esp_wireguard.h` line 112 promises `ESP_FAIL`; the client counts as running without an interface, and the monitor's next question
  stops in lwIP's assertion. It is `AttachRefused` in the run `net`.

Met while modelling, without a line that promises otherwise:

- A keystroke that is never echoed (a password prompt) swallows the switch's next equal byte; `LossAccounted` says how much.
- `config_consume_boot_ap` creates the namespace, so that
  the factory values for WireGuard hold on a new device only until its second boot.
- A boot whose `nvs_open` fails for any reason runs with the factory settings, and the next request that saves writes
  them over a flash that is intact: the form fills what it does not post from memory.
- Clicking *Connect* while an attempt is under way lets the late `onclose` of the old object set `ws` to `null`: the
  page then shows CONNECTED and refuses keystrokes. *Disconnect* does not last, as the `onclose` it causes sets the timer.
- `should_reset_peer` can never fire (`CurrNeverStale`), and the branch of `wireguardif_output_to_peer` that falls back to the previous keypair
  is never taken: a keypair becomes current for a responder only by a packet that also sets its `last_rx`.
- A previous keypair is never expired by the timer: both ends may report up while neither can send.

## 4. Proofs

| Module | Theorem | For every |
|---|---|---|
| `EchoConsole_proofs` | `EchoTypeCorrect`, `RingNeverTorn`, `RingRefinesQueue`, `ConsoleRunsTheRing`, `ConsoleTypeCorrect`, `NothingElseIsLost`, `EchoesAreRemoved` | ring size > 0, byte set, bounds |
| `ReplayWindow_proofs` | `TypeCorrect`, `BitmapExact`, `WindowRefinesAntiReplay` | window, widths and session length under the assumptions |
| `WgClient_proofs` | lemmas: each step of the client, by any task | set of tasks |
| `NetManager_proofs` | `NetTypeCorrect`, `OneOwner`, `RadioOff`, `ApXorOff`, `BeliefIsRight`, `StartNeverForgotten`, `LossNeverForgotten`, `LossSwitchesBack` | limit of retries, number of faults and requests |
| `CdcConsole_proofs` | `TypeCorrect`, `HandleSettles`, `BaudSettles`, `HandlesAreClosed`, `DeviceNotForgotten` | number of pluggings and requests, set of rates |
| `WebTerminal_proofs` | `TypeCorrect`, `NobodyTwice`, `NothingSkipped`; `PageLeavesTheFanOut`, `PageTypeCorrect`, `KeysReachTheSocket`, `TerminalNeverGivesUp`, `ShownOnce` | sockets, as long as the table has room for all; objects, jobs, connections |
| `WgSession_proofs` | `TypeCorrect`, `NoncesNeverRepeat`, `SlotsAgree`, `CurrentIsYoung`, `LinkFollowsSlots`, `ImplementsKeyAgreement`, `AnsweredOncePerLife`, `OnlyConfirmingRepeats`, `NoTimerGivesUp`, `TimerShowsTheSlots` | lifetimes, number of keys, packets, units of time, faults |
| `ConfigStore_proofs` | `TypeCorrect`, `SettingsSound`, `LoadsWhatWasAsked`, `MemoryMatchesFlash`, `RequestServedOnce` | list of keys, posted values, saves, boots, faults |

`EchoFilter`: the invariant is `EchoTypeOK /\ RingCoherent`; coherence is what
makes the slot of the i-th oldest byte well defined, so that a push appends to
and a match takes from the abstract queue. Lemmas state how `Pending` changes when
the ring grows, shrinks and shifts; the refinement is one step per action.

`EchoConsole`: `ConsoleRunsTheRing` maps every step to one of the ring's or a stutter, so the ring's theorems carry over. `LossAccounted` compares what the
browsers miss, beyond the refused jobs, with what the filter matched in vain, and speaks of a moment of rest; its invariant `ConsoleInv` counts at every moment: each byte is in one place
(`Places`; shown and refused bytes together are `Through`), a byte that was matched is lost once (`LostOnce`), and the books balance including what is in flight (`Balance`, `Bags`).
`EchoExactlyRemoved` needs the order of what is in flight as well. While nothing was lost (`Lossless`), `EchoInv` says two things at every moment. `InOrder`: what the filter
awaits, or will when the push in progress is through (`Awaited`), is what is left of what will reach it (`Coming`) when some bytes are struck out (`Embeds`, an increasing map of positions), so
the switch's output may lie anywhere between the echoes. `Complete`: of each byte, what is shown, held back or coming is what the switch printed and what is awaited. A greedy match keeps the embedding: if the byte
that arrives is the oldest awaited, the map can be moved to start there, and a byte that is not the oldest awaited is not where the map starts. When nothing is coming nothing can embed, so nothing is awaited and the counts are equal.

`ReplayWindow`: `TypeOK` and `WindowExact` together are inductive: a newer packet
shifts the record and the window alike, a late one adds one bit. The refinement then reads `Accept` and
`Refuse` off the bitmap. `SessionAssumption` (no session gets to 2^32 packets,
since `REJECT_AFTER_TIME` ends it after 180 s) is needed: the code stores a 64-bit difference in 32
bits, and a jump of 2^32 would pass for a small one.

`WgClient`: `WgInv`, the types and `LinkHasOneOwner`, is inductive by itself. The lemmas
take one step of one task and leave open when it is taken; `NetManager_proofs` cites them for the
steps of its three tasks, so the client's proof does not know who calls it.

`NetManager`: `NoDualRadio` is not inductive, since it says nothing of the 100 ms inside
`wifi_sta_shutdown`. `RadioInv` does: a flag `eth_connected` without access point implies `wifi_sta_off`, and a
station switched off has a stopped driver unless the shutdown is under way (`loop = "off"`); the station
connects only if the driver runs, so the late half of `wifi_reconnect` cannot wake it.
`ApExcludesOff` is one of its parts, because `ap_mode` and `wifi_sta_off` guard each other's assignments.

`BeliefSettles` speaks of a moment without pending events, its invariant `BeliefInv` of every moment: it
foresees the flag after the queue is handled (`Learns`: the last of `ETH_GOT_IP`, `ETH_LOST_IP` and
`ETH_DISCONNECTED` decides). An address is known of, about to be learnt, or about to go with its link (`Downs`,
or the loop at `"glue"`); without an address none is foreseen unless the timer of the lost address runs.
`TailLearns` shows that handling an event changes nothing foreseen, `PostLearns` that events of WiFi
do not either, `PostedNews` that the event posted last decides; then every action handles, posts or leaves
alone. That a lease may be granted after the link went is the case that needs `Downs`.

Three more theorems say on what the liveness properties of the module rest. `StartInv` lists what is owed while the web server does not run (`StartOwed`): the flag is clear, an
address that was granted is still to be told, the access point's start is still to be told, and an idle station has an event waiting that makes it connect. Every event
whose handling would use up one of these starts the server. `LossIsPending` is `BeliefInv` read for a lost address, and `LossRestores` that the step which notices the loss also switches the station on:
`ApExcludesOff` and the missing address make both early returns of `wifi_sta_restore` impossible there.

`WsClients`: `TableAssumption` (the web server never has more sockets than the table has slots; both are 4) is what the
proof turns on. A table that names nobody twice and has no empty slot would hold as many descriptors as there are sockets, so a
descriptor that is not in it finds a slot (`RoomForOne`, by the pigeonhole theorem). Hence the invariant: every terminal that missed nothing
is listed (`TerminalListed`); with the numbers of the waiting jobs (`JobsInOrder`) it makes `ScreenComplete` inductive.

`WebTerminal`: `PageInv` joins that invariant to the page's. `OneObject` says that without an overlap there is one unfinished object, which is `ws` until it is closed;
so a status CONNECTED has an open `ws` behind it. `ShownOK` says that a page shown as connected has an unfinished object: that is why the timer may find `connected` set, or the
button clear the timer, and something still be left. For `OutputOnce`, `GotOK` bounds what was sent on a connection by the jobs run before its handshake (`since`) and the jobs run so far, and `ScreenOK` says
that the screen is older than what waits for an `onopen`: a handshake happens after everything shown was run. That a job is written
once rests on `ListedOnce` (`WrittenOnce`).

`CdcConsole`: `ConsoleInv` says what a task in progress has already done: `OpeningOK` that the connect task holds the device in the port unless a disconnect met it, `PublishedOK` what
the callback has cleared, `RateOK` which rate the opened device was told. Two more consequences are stated: at rest no handle is open but the published one (`NothingLeaked`), and a device in the port that is not
published has nothing open in its way, or the task or the callback has work to do (`DeviceIsServed`).

`WgSession`: `Agreed` is inductive. `NetOK` relates each message to the keys drawn and the messages it answers, `EndOK` each slot to the messages of its handshake (`KeypairOK`), the handshake slot
to its initiation (`HandshakeOK`), and the slots of one end to each other (`Distinct`: a key is in one slot). A counter in a slot is the number of packets the end
has sealed under its key, so the next one is new (`NonceUsedOnce`); a response arriving again finds no handshake slot. `KeypairsMatch` follows from `KeypairOK` of both ends, and the refinement from what `NetOK` says of sealed packets. `EndFits` bounds the
age of the current keypair and ties the link flag to the slots. `Counted` adds up the answers to each initiation: an end whose `greatest` has
reached its time has answered it at most once more than there were faults, any other end not even that; only a restart lowers `greatest`, and it is a fault. `Noted` says what keeps a delivered packet out: its counter is in the window of the
keypair that opened it, or it made that keypair current and was let through once, and no next keypair has its key; that a response
brings a key under which nothing was delivered yet follows from the refinement (nothing is answered that was not opened) and `HandshakeOK`.
Two action properties are about what a run of `wireguardif_tmr` leaves behind. `TimerTries`: an end that is to connect (its `active` is never changed, `ActiveKept`) has a current keypair or an initiation younger than `REKEY_TIMEOUT`.
`TimerShows`: the link flag is equivalent to a valid current or previous keypair, where `SessionShowsUp` alone allows a flag that is set too long.

`ConfigStore`: `Sound` says what each place may hold: the flash, field by field, what some tried settings write (`FlashOK`), the open handle what the settings
being saved write (`PendingOK`), the memory what the flash, or a default, gave it (`MemoryOK`). A torn save mixes fields of tried settings and stays inside. `config_init`'s erasing leaves only the
defaults to have been tried, one that was cut short adds them. A memory that a boot filled without reading (`misread`) owes the flash nothing. `NumbersAssumption` is what makes the
corrections of `config_save` and `config_load` compose (`Settled`).

Assumptions: `RetriesAssumption` (at least one retry), `ThreadsAssumption` (the three tasks of the firmware),
`BoundsAssumption` (the bounds are numbers), `KeysAssumption` (`InvalidKeys` is a truth value: the
theorems hold for both), `OrderAssumption`, `AbsentAssumption` and `NumbersAssumption` (what `ConfigStore` lists are keys of `config.c`, posted
ports are numbers, and no value is the mark of a missing key), and those of the ring and the window above. The external
drivers are part of what is proved about: post order, one event at a time, and the order of the handlers of one event.

The formulas that no run lists (`EchoInv`, `StartInv`, `StartIsOwed`, `LossIsPending`, `LossRestores`, `NothingLeaked`, `DeviceIsServed`, `ActiveKept`, `TimerTries`, `TimerShows`) were model-checked on the instance of their
component's run before they were proved.

Only model-checked: the liveness properties `ServerStarts`, `LeaseLossRestores`, `PluggedIsPublished`, `KeepsTrying` and `KeepsConnecting` (this prover has no liveness
under fairness and no ENABLED). What is proved of each is its safety core, that no step leads to a state in which nothing would happen any more: `StartIsOwed`; `LossIsPending` with `LossRestores`;
`DeviceIsServed`; `TimerTries`; `NeverGivesUp`. The step from there to the liveness property is fairness alone: that the tasks run, and that the drivers and the network answer in the end.

## 5. What is left

A second peer, allowed addresses and the
roaming of a peer's address would make `WgSession` a model of the interface's routing. A second page would show two terminals
of one user sharing the table, which `WsClients` has, but not its keystrokes interleaved in `EchoConsole`.

## 6. Not modelled

Cryptographic arithmetic (bit-level, stateless), cookies (`wireguard_is_under_load` of this port is constantly false, so none is asked for), form
decoding and JSON layout, logging, the polling of `/status` and the layout of the page, its reload, the SPI bring-up of the W5500 (straight-line I/O), the deep
sleep after `/shutdown`, the demo
application, failed memory allocations (among them that of a broadcast job, `main.c` 209-214) and task creations, a failing `httpd_start`.
