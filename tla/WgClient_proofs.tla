-------------------------- MODULE WgClient_proofs --------------------------
(***************************************************************************)
(* Every step of the WireGuard client, taken by any of any number of       *)
(* tasks, keeps the types and the rule of one owner.  What the calling     *)
(* module adds is when a task takes which step.                            *)
(***************************************************************************)
EXTENDS WgClient, TLAPS

WgInv == WgTypeOK /\ LinkHasOneOwner

\* A fresh device has no client and nothing linked.
LEMMA WgInitHolds == WgInit => WgInv
<1> SUFFICES ASSUME WgInit PROVE WgInv
  OBVIOUS
<1>1. WgTypeOK
  BY DEF WgInit, WgTypeOK, Ifaces, Calls, Panics
<1>2. LinkHasOneOwner
  BY DEF WgInit, LinkHasOneOwner, Holds
<1> QED
  BY <1>1, <1>2 DEF WgInv

\* A task that merely moves on, to or from a place where it holds nothing.
LEMMA GoToKeeps ==
  ASSUME WgInv, NEW t \in Threads, NEW step \in Calls \ {"resolve", "disconnect"},
         GoTo(t, step),
         UNCHANGED <<s_running, ctx, linked, netif_default, monitored, panic>>
  PROVE  WgInv'
  BY DEF WgInv, WgTypeOK, LinkHasOneOwner, Holds, GoTo, Calls

\* wg_client_stop: the client was the owner, now the stopping task is.
LEMMA StopCheckKeeps ==
  ASSUME WgInv, NEW t \in Threads, StopCheck(t)
  PROVE  WgInv'
  BY DEF WgInv, WgTypeOK, LinkHasOneOwner, Holds, StopCheck, GoTo, Calls

\* wg_client_start: nothing is owned yet.
LEMMA StartCheckKeeps ==
  ASSUME WgInv, NEW t \in Threads, StartCheck(t)
  PROVE  WgInv'
  BY DEF WgInv, WgTypeOK, LinkHasOneOwner, Holds, StartCheck, GoTo, Calls

\* The steps inside the two calls.
LEMMA WgStepKeeps ==
  ASSUME WgInv, NEW t \in Threads, NEW best \in Ifaces, WgStep(t, best)
  PROVE  WgInv'
<1>1. CASE Disconnect(t)
  BY <1>1 DEF WgInv, WgTypeOK, LinkHasOneOwner, Holds, Disconnect, GoTo, Calls
<1>2. CASE DisconnectNull(t)
  BY <1>2 DEF WgInv, WgTypeOK, LinkHasOneOwner, Holds, DisconnectNull, Panics
<1>3. CASE Create(t, best)
  BY <1>3 DEF WgInv, WgTypeOK, LinkHasOneOwner, Holds, Create, GoTo, Calls, Panics
<1>4. CASE ResolveFails(t)
  BY <1>4 DEF WgInv, WgTypeOK, LinkHasOneOwner, Holds, ResolveFails, GoTo, Calls
<1>5. CASE Attach(t)
  BY <1>5 DEF WgInv, WgTypeOK, LinkHasOneOwner, Holds, Attach, GoTo, Calls
<1>6. CASE AttachRefused(t)
  BY <1>6 DEF WgInv, WgTypeOK, LinkHasOneOwner, Holds, AttachRefused, GoTo, Calls
<1> QED
  BY <1>1, <1>2, <1>3, <1>4, <1>5, <1>6 DEF WgStep

\* The monitor task only asks.
LEMMA WgMonitorKeeps ==
  ASSUME WgInv, WgMonitor
  PROVE  WgInv'
<1>1. CASE MonitorEnds
  BY <1>1 DEF WgInv, WgTypeOK, LinkHasOneOwner, Holds, MonitorEnds
<1>2. CASE MonitorAsksNull
  BY <1>2 DEF WgInv, WgTypeOK, LinkHasOneOwner, Holds, MonitorAsksNull, Panics
<1> QED
  BY <1>1, <1>2 DEF WgMonitor

\* Somebody else chooses the default route.
LEMMA DefaultKeeps ==
  ASSUME WgInv, netif_default' \in Ifaces,
         UNCHANGED <<s_running, ctx, linked, monitored, call, panic>>
  PROVE  WgInv'
  BY DEF WgInv, WgTypeOK, LinkHasOneOwner, Holds

\* So does every step that leaves the client alone.
LEMMA WgStutterKeeps ==
  ASSUME WgInv, UNCHANGED wgVars
  PROVE  WgInv'
  BY DEF WgInv, WgTypeOK, LinkHasOneOwner, Holds, wgVars
=============================================================================
