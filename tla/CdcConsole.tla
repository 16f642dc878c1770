----------------------------- MODULE CdcConsole -----------------------------
(***************************************************************************)
(* The handle of the USB console in main.c: the task that opens devices,   *)
(* the callback by which the CDC driver's task reports that one is gone,   *)
(* and the web server's requests, which copy the handle under cdc_mutex    *)
(* and use the copy after releasing it.                                    *)
(*                                                                         *)
(* A device is named by the number of the plugging, its handle by the      *)
(* device.  The host driver offers a new device once the handle of the     *)
(* previous one is closed.                                                 *)
(***************************************************************************)
EXTENDS Naturals, FiniteSets

CONSTANTS
  Baud,                 \* the baud rates
  MaxPlugs,             \* bound: how often a device is plugged in
  MaxRequests           \* bound: web requests

ASSUME BaudAssumption   == Baud \subseteq Nat \ {0}
ASSUME BoundsAssumption == MaxPlugs \in Nat \ {0} /\ MaxRequests \in Nat

VARIABLES
  otg_enabled,          \* the setting the device booted with
  cdc_mutex,            \* the mutex exists
  cdc_dev,              \* the published handle, 0 for NULL
  cdc_connected, current_baud,
  plugged,              \* the device in the port, 0 for none
  plugs,                \* devices plugged in so far
  open,                 \* the handles the driver has open
  gone,                 \* open handles whose disconnect event is not handled yet
  coding,               \* the baud rate each device was told, 0 before
  conn,                 \* cdc_connect_task: [at, dev, baud]
  event,                \* cdc_event_callback: [at, dev]
  req,                  \* the web server's request: [at, op, dev]
  requests,
  missed,               \* history: what met the connect task before it published
  panic                 \* xSemaphoreTake was given NULL

usb  == <<plugged, plugs>>
vars == <<otg_enabled, cdc_mutex, cdc_dev, cdc_connected, current_baud, usb, open, gone,
          coding, conn, event, req, requests, missed, panic>>

Dev    == 1..MaxPlugs
Handle == 0..MaxPlugs
Op     == {"cdc_send", "send_break", "set_baud"}

TypeOK ==
  /\ otg_enabled \in BOOLEAN /\ cdc_mutex \in BOOLEAN /\ cdc_connected \in BOOLEAN
  /\ cdc_dev \in Handle /\ plugged \in Handle /\ plugs \in Handle
  /\ current_baud \in Baud
  /\ open \subseteq Dev /\ gone \subseteq open
  /\ coding \in [Dev -> Baud \cup {0}]
  /\ conn \in [at : {"wait", "opened", "code", "publish", "wake"}, dev : Handle, baud : Baud]
  /\ event \in [at : {"idle", "clear", "close"}, dev : Handle]
  /\ req \in [at : {"idle", "copy", "use"}, op : Op, dev : Handle]
  /\ requests \in 0..MaxRequests
  /\ missed \subseteq {"disconnect", "baud"}
  /\ panic \in BOOLEAN

Init ==
  /\ otg_enabled \in BOOLEAN
  /\ cdc_mutex = FALSE /\ cdc_dev = 0 /\ cdc_connected = FALSE
  /\ current_baud \in Baud
  /\ plugged = 0 /\ plugs = 0 /\ open = {} /\ gone = {}
  /\ coding = [d \in Dev |-> 0]
  /\ conn = [at |-> "wait", dev |-> 0, baud |-> current_baud]
  /\ event = [at |-> "idle", dev |-> 0]
  /\ req = [at |-> "idle", op |-> "cdc_send", dev |-> 0]
  /\ requests = MaxRequests
  /\ missed = {} /\ panic = FALSE

\* A control transfer reaches the device while it is plugged in and its handle open.
Told(d, b) == IF d \in open /\ plugged = d THEN [coding EXCEPT ![d] = b] ELSE coding

\* The connect task has opened a device and not published it.
Unpublished == conn.at \in {"opened", "code", "publish"}

MissedBy(what) == IF Unpublished THEN missed \cup {what} ELSE missed

-----------------------------------------------------------------------------
(* usb_host_init, a delay after the boot, and cdc_connect_task. *)

HostInit ==
  /\ otg_enabled /\ ~cdc_mutex
  /\ cdc_mutex' = TRUE
  /\ UNCHANGED <<otg_enabled, cdc_dev, cdc_connected, current_baud, usb, open, gone, coding,
                 conn, event, req, requests, missed, panic>>

\* A failed open is tried again two seconds later.
Open ==
  /\ cdc_mutex /\ conn.at = "wait"
  /\ cdc_dev = 0
  /\ plugged # 0 /\ open = {}
  /\ open' = {plugged}
  /\ conn' = [conn EXCEPT !.at = "opened", !.dev = plugged]
  /\ UNCHANGED <<otg_enabled, cdc_mutex, cdc_dev, cdc_connected, current_baud, usb, gone,
                 coding, event, req, requests, missed, panic>>

\* Variant: the rate is read once, when the task starts.
OnConnectedAtBootRate ==
  /\ conn.at = "opened"
  /\ cdc_connected' = TRUE
  /\ conn' = [conn EXCEPT !.at = "code"]
  /\ UNCHANGED <<otg_enabled, cdc_mutex, cdc_dev, current_baud, usb, open, gone, coding,
                 event, req, requests, missed, panic>>

OnConnected ==
  /\ conn.at = "opened"
  /\ cdc_connected' = TRUE
  /\ conn' = [conn EXCEPT !.at = "code", !.baud = current_baud]
  /\ UNCHANGED <<otg_enabled, cdc_mutex, cdc_dev, current_baud, usb, open, gone, coding,
                 event, req, requests, missed, panic>>

SetCoding ==
  /\ conn.at = "code"
  /\ coding' = Told(conn.dev, conn.baud)
  /\ conn' = [conn EXCEPT !.at = "publish"]
  /\ UNCHANGED <<otg_enabled, cdc_mutex, cdc_dev, cdc_connected, current_baud, usb, open, gone,
                 event, req, requests, missed, panic>>

Publish ==
  /\ conn.at = "publish"
  /\ cdc_dev' = conn.dev
  /\ conn' = [conn EXCEPT !.at = "wake"]
  /\ UNCHANGED <<otg_enabled, cdc_mutex, cdc_connected, current_baud, usb, open, gone, coding,
                 event, req, requests, missed, panic>>

\* The wake-up line is sent; the loop waits two seconds.
Wake ==
  /\ conn.at = "wake"
  /\ conn' = [conn EXCEPT !.at = "wait", !.dev = 0]
  /\ UNCHANGED <<otg_enabled, cdc_mutex, cdc_dev, cdc_connected, current_baud, usb, open, gone,
                 coding, event, req, requests, missed, panic>>

ConnectTask == HostInit \/ Open \/ OnConnected \/ SetCoding \/ Publish \/ Wake

-----------------------------------------------------------------------------
(* cdc_event_callback, CDC_ACM_HOST_DEVICE_DISCONNECTED *)

\* Variant: the event stays queued after it was handled.
DisconnectedTwice ==
  /\ event.at = "idle"
  /\ \E d \in gone : event' = [at |-> "clear", dev |-> d]
  /\ cdc_connected' = FALSE
  /\ missed' = MissedBy("disconnect")
  /\ UNCHANGED <<otg_enabled, cdc_mutex, cdc_dev, current_baud, usb, open, gone, coding,
                 conn, req, requests, panic>>

Disconnected ==
  /\ event.at = "idle"
  /\ \E d \in gone :
       /\ event' = [at |-> "clear", dev |-> d]
       /\ gone' = gone \ {d}
  /\ cdc_connected' = FALSE
  /\ missed' = MissedBy("disconnect")
  /\ UNCHANGED <<otg_enabled, cdc_mutex, cdc_dev, current_baud, usb, open, coding,
                 conn, req, requests, panic>>

\* Variant: the handle is closed but stays published.
ClearDevForgets ==
  /\ event.at = "clear"
  /\ event' = [event EXCEPT !.at = "close"]
  /\ missed' = MissedBy("disconnect")
  /\ UNCHANGED <<otg_enabled, cdc_mutex, cdc_dev, cdc_connected, current_baud, usb, open, gone,
                 coding, conn, req, requests, panic>>

ClearDev ==
  /\ event.at = "clear"
  /\ cdc_dev' = 0
  /\ event' = [event EXCEPT !.at = "close"]
  /\ missed' = MissedBy("disconnect")
  /\ UNCHANGED <<otg_enabled, cdc_mutex, cdc_connected, current_baud, usb, open, gone, coding,
                 conn, req, requests, panic>>

CloseDev ==
  /\ event.at = "close"
  /\ open' = open \ {event.dev}
  /\ event' = [at |-> "idle", dev |-> 0]
  /\ UNCHANGED <<otg_enabled, cdc_mutex, cdc_dev, cdc_connected, current_baud, usb, gone,
                 coding, conn, req, requests, missed, panic>>

DriverTask == Disconnected \/ ClearDev \/ CloseDev

-----------------------------------------------------------------------------
(* The web server: cdc_send, send_break and set_baud *)

\* set_baud stores the rate first.
Request ==
  /\ req.at = "idle" /\ requests > 0
  /\ requests' = requests - 1
  /\ \E op \in Op :
       /\ req' = [at |-> "copy", op |-> op, dev |-> 0]
       /\ IF op = "set_baud" THEN current_baud' \in Baud ELSE UNCHANGED current_baud
  /\ UNCHANGED <<otg_enabled, cdc_mutex, cdc_dev, cdc_connected, usb, open, gone, coding,
                 conn, event, missed, panic>>

\* Take the mutex, copy the handle, give the mutex; without a handle that is all.
Copy ==
  /\ req.at = "copy"
  /\ cdc_mutex
  /\ req' = [req EXCEPT !.dev = cdc_dev, !.at = IF cdc_dev = 0 THEN "idle" ELSE "use"]
  /\ missed' = IF req.op = "set_baud" THEN MissedBy("baud") ELSE missed
  /\ UNCHANGED <<otg_enabled, cdc_mutex, cdc_dev, cdc_connected, current_baud, usb, open, gone,
                 coding, conn, event, requests, panic>>

\* The mutex is created by usb_host_init, which runs late or, with OTG disabled, never.
CopyWithoutMutex ==
  /\ req.at = "copy"
  /\ ~cdc_mutex
  /\ panic' = TRUE
  /\ UNCHANGED <<otg_enabled, cdc_mutex, cdc_dev, cdc_connected, current_baud, usb, open, gone,
                 coding, conn, event, req, requests, missed>>

Use ==
  /\ req.at = "use"
  /\ coding' = IF req.op = "set_baud" THEN Told(req.dev, current_baud) ELSE coding
  /\ req' = [req EXCEPT !.at = "idle", !.dev = 0]
  /\ UNCHANGED <<otg_enabled, cdc_mutex, cdc_dev, cdc_connected, current_baud, usb, open, gone,
                 conn, event, requests, missed, panic>>

Serve == Copy \/ CopyWithoutMutex \/ Use

-----------------------------------------------------------------------------
(* The cable *)

Plug ==
  /\ plugged = 0 /\ plugs < MaxPlugs
  /\ plugged' = plugs + 1 /\ plugs' = plugs + 1
  /\ UNCHANGED <<otg_enabled, cdc_mutex, cdc_dev, cdc_connected, current_baud, open, gone,
                 coding, conn, event, req, requests, missed, panic>>

Unplug ==
  /\ plugged # 0
  /\ plugged' = 0
  /\ gone' = gone \cup ({plugged} \cap open)
  /\ UNCHANGED <<otg_enabled, cdc_mutex, cdc_dev, cdc_connected, current_baud, plugs, open,
                 coding, conn, event, req, requests, missed, panic>>

\* A panic restarts the device into a state that Init covers.
Next == ~panic /\ (ConnectTask \/ DriverTask \/ Request \/ Serve \/ Plug \/ Unplug)

\* The three tasks run; nobody has to plug anything in or ask for anything.
Spec ==
  /\ Init /\ [][Next]_vars
  /\ WF_vars(~panic /\ ConnectTask)
  /\ WF_vars(~panic /\ DriverTask)
  /\ WF_vars(~panic /\ Serve)

-----------------------------------------------------------------------------
(* Properties.                                                             *)

\* Nothing is under way.
Settled == conn.at = "wait" /\ event.at = "idle" /\ req.at = "idle" /\ gone = {}

\* The published handle is the open handle of the device in the port, and the
\* status the browser shows says so: after any number of pluggings, unless a
\* disconnect met the connect task between opening and publishing.
HandleIsCurrent ==
  Settled /\ "disconnect" \notin missed
    => /\ cdc_dev # 0 => cdc_dev \in open /\ plugged = cdc_dev
       /\ cdc_connected <=> cdc_dev # 0

\* The device has been told the baud rate that is stored, unless set_baud ran
\* between opening and publishing, and then found no handle to use.
BaudIsCurrent ==
  Settled /\ missed = {} /\ cdc_dev # 0 => coding[cdc_dev] = current_baud

\* A device that stays in the port is published, unless a disconnect met the
\* connect task between opening and publishing.
PluggedIsPublished ==
  [](otg_enabled /\ plugged # 0
     => <>(cdc_dev = plugged \/ plugged = 0 \/ panic \/ "disconnect" \in missed))

\* cdc_connect_task retries every two seconds ("retrying in 2s") until a device
\* is open, and reports "device still connected" while it holds a handle: a
\* device that stays in the port is published.
DeviceIsReopened ==
  [](otg_enabled /\ plugged # 0 => <>(cdc_dev = plugged \/ plugged = 0 \/ panic))
=============================================================================
