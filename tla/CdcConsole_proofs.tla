-------------------------- MODULE CdcConsole_proofs --------------------------
(***************************************************************************)
(* The USB console, for every number of pluggings and requests: handle,    *)
(* status and baud rate settle on the device in the port, unless an event  *)
(* met the connect task between opening and publishing; no handle stays    *)
(* open behind, and no device in the port stays unserved.                  *)
(***************************************************************************)
EXTENDS CdcConsole, TLAPS

\* What is known of a disconnect that is being handled.
EventOK ==
  /\ event.at = "idle" <=> event.dev = 0
  /\ event.dev # 0 => event.dev \in open /\ event.dev # plugged /\ event.dev \notin gone

\* One handle is open at most, its device has been plugged in, and once the device is out
\* its disconnect is queued or being handled.
PortOK ==
  /\ plugged # 0 => plugged = plugs
  /\ \A d \in open : d <= plugs
  /\ \A d, e \in open : d = e
  /\ plugged \notin gone
  /\ \A d \in open : d # plugged => d \in gone \/ d = event.dev
  /\ EventOK
  /\ cdc_dev <= plugs /\ conn.dev <= plugs /\ req.dev <= plugs
  /\ conn.at \in {"opened", "code", "publish"} => conn.dev # 0
  /\ req.at = "use" => req.dev # 0

\* While the connect task has a device it has not published.
OpeningOK ==
  Unpublished =>
    /\ open = {conn.dev} /\ event.at = "idle" /\ cdc_dev = 0
    /\ cdc_connected <=> conn.at # "opened"

\* When it has none, the handle is that of the open device until its disconnect clears it.
PublishedOK ==
  ~Unpublished =>
    /\ cdc_dev # 0 => cdc_dev \in open
    /\ cdc_connected <=> cdc_dev # 0 /\ event.at # "clear"
    /\ event.at = "clear" => cdc_dev = event.dev
    /\ event.at = "close" => cdc_dev = 0
    /\ open # {} => cdc_dev \in open \/ event.at = "close"

HandleInv == "disconnect" \notin missed => OpeningOK /\ PublishedOK

\* A rate is stored and its request has not copied the handle yet.
RatePosted == req.at = "copy" /\ req.op = "set_baud"

\* The connect task has the stored rate, and the device was told it, or a request is about to.
RateOK ==
  /\ conn.at \in {"code", "publish"} => conn.baud = current_baud \/ RatePosted
  /\ conn.at = "publish" /\ plugged = conn.dev => coding[conn.dev] = conn.baud
  /\ ~Unpublished /\ cdc_dev # 0 /\ plugged = cdc_dev =>
       \/ coding[cdc_dev] = current_baud
       \/ RatePosted
       \/ req.at = "use" /\ req.op = "set_baud" /\ req.dev = cdc_dev
  /\ req.at = "use" /\ req.dev = plugged => cdc_dev = plugged

BaudInv == missed = {} => RateOK

-----------------------------------------------------------------------------
(* The steps of a task that runs while there is no panic.                  *)

\* The shape of Next, one case per action.
LEMMA NextCases ==
  ASSUME Next
  PROVE  \/ HostInit \/ Open \/ OnConnected \/ SetCoding \/ Publish \/ Wake
         \/ Disconnected \/ ClearDev \/ CloseDev
         \/ Request \/ Copy \/ CopyWithoutMutex \/ Use \/ Plug \/ Unplug
  BY DEF Next, ConnectTask, DriverTask, Serve

\* A transfer tells a device a rate and nothing else.
LEMMA ToldTypes ==
  ASSUME TypeOK, NEW d \in Handle, NEW b \in Baud
  PROVE  /\ Told(d, b) \in [Dev -> Baud \cup {0}]
         /\ \A e \in Dev : e # d => Told(d, b)[e] = coding[e]
         /\ d \in open /\ plugged = d => Told(d, b)[d] = b
  BY DEF TypeOK, Told, Dev

\* Every step keeps the types.
LEMMA StepTyped == TypeOK /\ EventOK /\ [Next]_vars => TypeOK'
<1> SUFFICES ASSUME TypeOK, EventOK, [Next]_vars PROVE TypeOK'
  OBVIOUS
<1> USE DEF TypeOK
<1>0. MaxPlugs \in Nat /\ MaxRequests \in Nat /\ 0 \in Handle
  BY BoundsAssumption DEF Handle
<1>1. CASE UNCHANGED vars
  BY <1>1 DEF vars, usb
<1>2. CASE HostInit
  BY <1>2 DEF HostInit, usb
<1>3. CASE Open
  <2>1. plugged \in Dev
    BY <1>3 DEF Open, Handle, Dev
  <2>2. conn' \in [at : {"wait", "opened", "code", "publish", "wake"}, dev : Handle, baud : Baud]
    BY <1>3 DEF Open
  <2>3. open' \subseteq Dev /\ gone' \subseteq open'
    BY <1>3, <2>1 DEF Open
  <2> QED
    BY <1>3, <2>2, <2>3 DEF Open, usb
<1>4. CASE OnConnected
  BY <1>4 DEF OnConnected, usb
<1>5. CASE SetCoding
  BY <1>5, ToldTypes DEF SetCoding, usb
<1>6. CASE Publish
  BY <1>6 DEF Publish, usb
<1>7. CASE Wake
  <2>1. conn' \in [at : {"wait", "opened", "code", "publish", "wake"}, dev : Handle, baud : Baud]
    BY <1>0, <1>7 DEF Wake
  <2> QED
    BY <1>7, <2>1 DEF Wake, usb
<1>8. CASE Disconnected
  <2>1. gone' \subseteq open /\ event' \in [at : {"idle", "clear", "close"}, dev : Handle]
    BY <1>0, <1>8 DEF Disconnected, Handle, Dev
  <2>2. missed' \subseteq {"disconnect", "baud"}
    BY <1>8 DEF Disconnected, MissedBy
  <2> QED
    BY <1>8, <2>1, <2>2 DEF Disconnected, usb
<1>9. CASE ClearDev
  BY <1>0, <1>9 DEF ClearDev, usb, MissedBy, Handle
<1>10. CASE CloseDev
  BY <1>0, <1>10 DEF CloseDev, EventOK, usb, Handle
<1>11. CASE Request
  BY <1>0, <1>11 DEF Request, usb, Handle, Op
<1>12. CASE Copy
  BY <1>12 DEF Copy, usb, MissedBy
<1>13. CASE CopyWithoutMutex
  BY <1>13 DEF CopyWithoutMutex, usb
<1>14. CASE Use
  <2>1. req' \in [at : {"idle", "copy", "use"}, op : Op, dev : Handle]
    BY <1>0, <1>14 DEF Use
  <2>2. coding' \in [Dev -> Baud \cup {0}]
    BY <1>14, ToldTypes DEF Use
  <2> QED
    BY <1>14, <2>1, <2>2 DEF Use, usb
<1>15. CASE Plug
  BY <1>0, <1>15 DEF Plug, usb, Handle
<1>16. CASE Unplug
  BY <1>0, <1>16 DEF Unplug, usb, Handle, Dev
<1> QED
  BY <1>1, <1>2, <1>3, <1>4, <1>5, <1>6, <1>7, <1>8, <1>9, <1>10, <1>11, <1>12, <1>13, <1>14,
     <1>15, <1>16, NextCases

\* Every step keeps what is known of the port.
LEMMA StepPort == TypeOK /\ PortOK /\ [Next]_vars => PortOK'
<1> SUFFICES ASSUME TypeOK, PortOK, [Next]_vars PROVE PortOK'
  OBVIOUS
<1> USE DEF PortOK, EventOK
<1>0. /\ plugged \in Nat /\ plugs \in Nat /\ open \subseteq Nat \ {0} /\ gone \subseteq open
      /\ cdc_dev \in Nat /\ conn.dev \in Nat /\ req.dev \in Nat /\ event.dev \in Nat
      /\ conn \in [at : {"wait", "opened", "code", "publish", "wake"}, dev : Handle, baud : Baud]
      /\ event \in [at : {"idle", "clear", "close"}, dev : Handle]
      /\ req \in [at : {"idle", "copy", "use"}, op : Op, dev : Handle]
  BY BoundsAssumption DEF TypeOK, Handle, Dev
<1>1. CASE UNCHANGED vars
  BY <1>1 DEF vars, usb
<1>2. CASE HostInit
  BY <1>2 DEF HostInit, usb
<1>3. CASE Open
  BY <1>0, <1>3 DEF Open, usb
<1>4. CASE OnConnected
  BY <1>0, <1>4 DEF OnConnected, usb
<1>5. CASE SetCoding
  BY <1>0, <1>5 DEF SetCoding, usb
<1>6. CASE Publish
  BY <1>0, <1>6 DEF Publish, usb
<1>7. CASE Wake
  BY <1>0, <1>7 DEF Wake, usb
<1>8. CASE Disconnected
  BY <1>0, <1>8 DEF Disconnected, usb
<1>9. CASE ClearDev
  BY <1>0, <1>9 DEF ClearDev, usb
<1>10. CASE CloseDev
  BY <1>0, <1>10 DEF CloseDev, usb
<1>11. CASE Request
  BY <1>0, <1>11 DEF Request, usb
<1>12. CASE Copy
  BY <1>0, <1>12 DEF Copy, usb
<1>13. CASE CopyWithoutMutex
  BY <1>0, <1>13 DEF CopyWithoutMutex, usb
<1>14. CASE Use
  BY <1>0, <1>14 DEF Use, usb
<1>15. CASE Plug
  BY <1>0, <1>15 DEF Plug, usb
<1>16. CASE Unplug
  BY <1>0, <1>16 DEF Unplug, usb
<1> QED
  BY <1>1, <1>2, <1>3, <1>4, <1>5, <1>6, <1>7, <1>8, <1>9, <1>10, <1>11, <1>12, <1>13, <1>14,
     <1>15, <1>16, NextCases

\* Every step keeps the handle, as long as no disconnect met the connect task.
LEMMA StepHandle == TypeOK /\ PortOK /\ HandleInv /\ [Next]_vars => HandleInv'
<1> SUFFICES ASSUME TypeOK, PortOK, HandleInv, [Next]_vars, "disconnect" \notin missed'
             PROVE  (OpeningOK /\ PublishedOK)'
  BY DEF HandleInv
<1>a. missed \subseteq missed'
  <2>1. CASE UNCHANGED vars
    BY <2>1 DEF vars
  <2>2. CASE Next
    BY <2>2, NextCases DEF MissedBy, HostInit, Open, OnConnected, SetCoding, Publish, Wake,
       Disconnected, ClearDev, CloseDev, Request, Copy, CopyWithoutMutex, Use, Plug, Unplug
  <2> QED
    BY <2>1, <2>2
<1>b. OpeningOK /\ PublishedOK
  BY <1>a DEF HandleInv
<1>0. /\ open \subseteq Nat \ {0} /\ cdc_dev \in Nat /\ cdc_connected \in BOOLEAN
      /\ conn \in [at : {"wait", "opened", "code", "publish", "wake"}, dev : Handle, baud : Baud]
      /\ event \in [at : {"idle", "clear", "close"}, dev : Handle]
      /\ EventOK /\ gone \subseteq open /\ \A d, e \in open : d = e
      /\ conn.at \in {"opened", "code", "publish"} => conn.dev # 0
  BY BoundsAssumption DEF TypeOK, Handle, Dev, PortOK
<1> USE DEF OpeningOK, PublishedOK, Unpublished
<1>1. CASE UNCHANGED vars
  BY <1>1, <1>b DEF vars
<1>2. CASE HostInit
  BY <1>2, <1>b DEF HostInit
<1>3. CASE Open
  BY <1>0, <1>b, <1>3 DEF Open, EventOK
<1>4. CASE OnConnected
  BY <1>0, <1>b, <1>4 DEF OnConnected
<1>5. CASE SetCoding
  BY <1>0, <1>b, <1>5 DEF SetCoding
<1>6. CASE Publish
  BY <1>0, <1>b, <1>6 DEF Publish
<1>7. CASE Wake
  BY <1>0, <1>b, <1>7 DEF Wake
<1>8. CASE Disconnected
  BY <1>0, <1>b, <1>8 DEF Disconnected, MissedBy, EventOK
<1>9. CASE ClearDev
  BY <1>0, <1>b, <1>9 DEF ClearDev, MissedBy, EventOK
<1>10. CASE CloseDev
  BY <1>0, <1>b, <1>10 DEF CloseDev, EventOK
<1>11. CASE Request
  BY <1>b, <1>11 DEF Request
<1>12. CASE Copy
  BY <1>b, <1>12 DEF Copy
<1>13. CASE CopyWithoutMutex
  BY <1>b, <1>13 DEF CopyWithoutMutex
<1>14. CASE Use
  BY <1>b, <1>14 DEF Use
<1>15. CASE Plug
  BY <1>b, <1>15 DEF Plug
<1>16. CASE Unplug
  BY <1>b, <1>16 DEF Unplug
<1> QED
  BY <1>1, <1>2, <1>3, <1>4, <1>5, <1>6, <1>7, <1>8, <1>9, <1>10, <1>11, <1>12, <1>13, <1>14,
     <1>15, <1>16, NextCases

\* Every step keeps the rate, as long as nothing met the connect task.
LEMMA StepBaud == TypeOK /\ PortOK /\ HandleInv /\ BaudInv /\ [Next]_vars => BaudInv'
<1> SUFFICES ASSUME TypeOK, PortOK, HandleInv, BaudInv, [Next]_vars, missed' = {}
             PROVE  RateOK'
  BY DEF BaudInv
<1>a. missed = {}
  <2>1. CASE UNCHANGED vars
    BY <2>1 DEF vars
  <2>2. CASE Next
    BY <2>2, NextCases DEF MissedBy, HostInit, Open, OnConnected, SetCoding, Publish, Wake,
       Disconnected, ClearDev, CloseDev, Request, Copy, CopyWithoutMutex, Use, Plug, Unplug
  <2> QED
    BY <2>1, <2>2
<1>b. RateOK /\ OpeningOK /\ PublishedOK
  BY <1>a DEF HandleInv, BaudInv
<1>0. /\ plugged \in Nat /\ plugs \in Nat /\ open \subseteq Nat \ {0} /\ gone \subseteq open
      /\ plugged \in Handle /\ cdc_dev \in Handle
      /\ cdc_dev \in Nat /\ conn.dev \in Nat /\ req.dev \in Nat /\ event.dev \in Nat
      /\ conn \in [at : {"wait", "opened", "code", "publish", "wake"}, dev : Handle, baud : Baud]
      /\ event \in [at : {"idle", "clear", "close"}, dev : Handle]
      /\ req \in [at : {"idle", "copy", "use"}, op : Op, dev : Handle]
      /\ current_baud \in Baud
      /\ \A d \in Handle : d # 0 => d \in Dev
  BY BoundsAssumption DEF TypeOK, Handle, Dev
<1> USE DEF RateOK, RatePosted, Unpublished
<1>1. CASE UNCHANGED vars
  BY <1>1, <1>b DEF vars, usb
<1>2. CASE HostInit
  BY <1>2, <1>b DEF HostInit, usb
<1>3. CASE Open
  BY <1>0, <1>b, <1>3 DEF Open, usb
<1>4. CASE OnConnected
  BY <1>0, <1>b, <1>4 DEF OnConnected, usb
<1>5. CASE SetCoding
  BY <1>0, <1>b, <1>5, ToldTypes DEF SetCoding, usb, OpeningOK, PortOK
<1>6. CASE Publish
  BY <1>0, <1>b, <1>6 DEF Publish, usb, OpeningOK, PortOK
<1>7. CASE Wake
  BY <1>0, <1>b, <1>7 DEF Wake, usb
<1>8. CASE Disconnected
  BY <1>0, <1>b, <1>8 DEF Disconnected, usb
<1>9. CASE ClearDev
  BY <1>0, <1>b, <1>9 DEF ClearDev, usb, MissedBy, PublishedOK, PortOK, EventOK
<1>10. CASE CloseDev
  BY <1>0, <1>b, <1>10 DEF CloseDev, usb
<1>11. CASE Request
  BY <1>0, <1>b, <1>11 DEF Request, usb
<1>12. CASE Copy
  BY <1>0, <1>b, <1>12 DEF Copy, usb, MissedBy
<1>13. CASE CopyWithoutMutex
  BY <1>0, <1>b, <1>13 DEF CopyWithoutMutex, usb
<1>14. CASE Use
  BY <1>0, <1>b, <1>14, ToldTypes DEF Use, usb, OpeningOK, PublishedOK, PortOK
<1>15. CASE Plug
  BY <1>0, <1>b, <1>15 DEF Plug, usb, PortOK
<1>16. CASE Unplug
  BY <1>0, <1>b, <1>16 DEF Unplug, usb, PortOK
<1> QED
  BY <1>1, <1>2, <1>3, <1>4, <1>5, <1>6, <1>7, <1>8, <1>9, <1>10, <1>11, <1>12, <1>13, <1>14,
     <1>15, <1>16, NextCases

-----------------------------------------------------------------------------
(* The theorems.                                                           *)

ConsoleInv == TypeOK /\ PortOK /\ HandleInv /\ BaudInv

\* At the boot nothing is plugged in, open or under way.
LEMMA InitConsole == Init => ConsoleInv
<1> SUFFICES ASSUME Init PROVE ConsoleInv
  OBVIOUS
<1>1. TypeOK
  <2>1. 0 \in Handle /\ MaxRequests \in 0..MaxRequests
    BY BoundsAssumption DEF Handle
  <2>2. coding \in [Dev -> Baud \cup {0}]
    BY DEF Init
  <2>3. conn \in [at : {"wait", "opened", "code", "publish", "wake"}, dev : Handle, baud : Baud]
    BY <2>1 DEF Init
  <2>4. event \in [at : {"idle", "clear", "close"}, dev : Handle]
    BY <2>1 DEF Init
  <2>5. req \in [at : {"idle", "copy", "use"}, op : Op, dev : Handle]
    BY <2>1 DEF Init, Op
  <2> QED
    BY <2>1, <2>2, <2>3, <2>4, <2>5 DEF Init, TypeOK
<1>2. PortOK
  BY DEF Init, PortOK, EventOK
<1>3. HandleInv
  BY DEF Init, HandleInv, OpeningOK, PublishedOK, Unpublished
<1>4. BaudInv
  BY DEF Init, BaudInv, RateOK, Unpublished
<1> QED
  BY <1>1, <1>2, <1>3, <1>4 DEF ConsoleInv

\* The inductive invariant: where the connect task, the callback and the request stand, and
\* what each has already done to handle, status and rate.
THEOREM ConsoleInvariant == Spec => []ConsoleInv
<1>1. ConsoleInv /\ [Next]_vars => ConsoleInv'
  BY StepTyped, StepPort, StepHandle, StepBaud DEF ConsoleInv, PortOK
<1> QED
  BY <1>1, InitConsole, PTL DEF Spec

\* TypeOK: handle, device numbers and the places of the three tasks stay in range.
THEOREM TypeCorrect == Spec => []TypeOK
<1>1. ConsoleInv => TypeOK
  BY DEF ConsoleInv
<1> QED
  BY <1>1, ConsoleInvariant, PTL

\* HandleIsCurrent: the published handle is the open handle of the device in the port, and
\* cdc_connected says so, unless a disconnect met the connect task (cdc_on_connected).
THEOREM HandleSettles == Spec => []HandleIsCurrent
<1>1. ConsoleInv => HandleIsCurrent
  <2> SUFFICES ASSUME ConsoleInv, Settled, "disconnect" \notin missed
               PROVE  /\ cdc_dev # 0 => cdc_dev \in open /\ plugged = cdc_dev
                      /\ cdc_connected <=> cdc_dev # 0
    BY DEF HandleIsCurrent
  <2>1. PublishedOK /\ ~Unpublished /\ EventOK /\ event.at = "idle" /\ gone = {}
    BY DEF ConsoleInv, HandleInv, PortOK, Settled, Unpublished
  <2>2. cdc_dev # 0 => cdc_dev \in open /\ plugged = cdc_dev
    BY <2>1 DEF ConsoleInv, PortOK, EventOK, PublishedOK
  <2> QED
    BY <2>1, <2>2 DEF PublishedOK
<1> QED
  BY <1>1, ConsoleInvariant, PTL

\* BaudIsCurrent: the device has been told the stored rate, unless set_baud ran between opening
\* and publishing (set_baud, cdc_on_connected).
THEOREM BaudSettles == Spec => []BaudIsCurrent
<1>1. ConsoleInv => BaudIsCurrent
  <2> SUFFICES ASSUME ConsoleInv, Settled, missed = {}, cdc_dev # 0
               PROVE  coding[cdc_dev] = current_baud
    BY DEF BaudIsCurrent
  <2>1. RateOK /\ PublishedOK /\ ~Unpublished /\ req.at = "idle" /\ event.at = "idle" /\ gone = {}
    BY DEF ConsoleInv, HandleInv, BaudInv, Settled, Unpublished
  <2>2. plugged = cdc_dev
    BY <2>1 DEF ConsoleInv, PortOK, EventOK, PublishedOK
  <2> QED
    BY <2>1, <2>2 DEF RateOK, RatePosted
<1> QED
  BY <1>1, ConsoleInvariant, PTL

\* With the tasks at rest the driver has no handle open but the published one.
NothingLeaked ==
  Settled /\ "disconnect" \notin missed => open = IF cdc_dev = 0 THEN {} ELSE {cdc_dev}

\* What PluggedIsPublished rests on: a device that is in the port and not published finds
\* its open not refused, or the connect task or the callback has work to do with it.
DeviceIsServed ==
  otg_enabled /\ cdc_mutex /\ plugged # 0 /\ cdc_dev # plugged /\ "disconnect" \notin missed
    => (cdc_dev = 0 /\ open = {}) \/ conn.at # "wait" \/ event.at # "idle" \/ gone # {}

\* No handle is left open when its device is out, however late the disconnect is handled
\* (cdc_event_callback closes what cdc_connect_task opened).
THEOREM HandlesAreClosed == Spec => []NothingLeaked
<1>1. ConsoleInv => NothingLeaked
  <2> SUFFICES ASSUME ConsoleInv, Settled, "disconnect" \notin missed
               PROVE  open = IF cdc_dev = 0 THEN {} ELSE {cdc_dev}
    BY DEF NothingLeaked
  <2>1. PublishedOK /\ ~Unpublished /\ event.at = "idle"
    BY DEF ConsoleInv, HandleInv, Settled, Unpublished
  <2>2. /\ cdc_dev # 0 => cdc_dev \in open
        /\ open # {} => cdc_dev \in open
    BY <2>1 DEF PublishedOK
  <2>3. 0 \notin open /\ \A d, e \in open : d = e
    BY BoundsAssumption DEF ConsoleInv, TypeOK, Dev, PortOK
  <2>4. CASE cdc_dev = 0
    BY <2>2, <2>3, <2>4
  <2>5. CASE cdc_dev # 0
    BY <2>2, <2>3, <2>5
  <2> QED
    BY <2>4, <2>5
<1> QED
  BY <1>1, ConsoleInvariant, PTL

\* The connect task never waits for ever on a device that is there: whatever was plugged
\* before, the next attempt to open it is not kept back by an old handle (cdc_connect_task).
THEOREM DeviceNotForgotten == Spec => []DeviceIsServed
<1>1. ConsoleInv => DeviceIsServed
  <2> SUFFICES ASSUME ConsoleInv, plugged # 0, cdc_dev # plugged, "disconnect" \notin missed,
                      conn.at = "wait", event.at = "idle", gone = {}
               PROVE  cdc_dev = 0 /\ open = {}
    BY DEF DeviceIsServed
  <2>1. PublishedOK /\ PortOK /\ ~Unpublished
    BY DEF ConsoleInv, HandleInv, Unpublished
  <2>2. /\ cdc_dev # 0 => cdc_dev \in open
        /\ open # {} => cdc_dev \in open
    BY <2>1 DEF PublishedOK
  <2>3. 0 \notin open
    BY DEF ConsoleInv, TypeOK, Dev
  <2>4. \A d \in open : d = plugged
    BY <2>1, <2>3 DEF PortOK, EventOK
  <2>5. cdc_dev # 0 => plugged = cdc_dev
    BY <2>2, <2>4
  <2>6. cdc_dev = 0
    BY <2>5
  <2>7. open # {} => 0 \in open
    BY <2>6, <2>2
  <2> QED
    BY <2>6, <2>7, <2>3
<1> QED
  BY <1>1, ConsoleInvariant, PTL
=============================================================================
