----------------------------- MODULE WifiManager -----------------------------
(***************************************************************************)
(* The WiFi connection (main/wifi_manager.cpp). wifi_connect starts the    *)
(* radio and waits for the first bit of an event group; the bits are set,  *)
(* and s_connected is kept, by a handler that runs in the event task and   *)
(* meets the driver's events in order, possibly late. The caller holds     *)
(* s_wifi_lock throughout, so one attempt is made at a time; the handler   *)
(* does not, and the group it has seen can be deleted before it uses it.   *)
(***************************************************************************)
EXTENDS Integers, Sequences

CONSTANT MaxPending  \* bound: events on their way when an attempt begins

VARIABLES
  connected,  \* s_connected
  group,      \* s_wifi_event_group exists: a call of wifi_connect is waiting
  bit,        \* the bit that ends the wait, once one is set
  setting,    \* the bit event_handler is about to set in the group it has seen
  dangling,   \* that group has been deleted since
  radio,      \* off, on: started, joining: an access point, assoc: joined, up: has an address
  events      \* posted by the driver, not yet handled

setter == <<setting, dangling>>
wifi == <<connected, group, bit, setter, radio, events>>

Post(e) == events' = Append(events, e)
\* esp_wifi_stop: an association that ends is reported, one that is being made
\* may be.
RadioStops ==
  /\ radio' = "off"
  /\ \/ radio \in {"joining", "assoc", "up"} /\ Post("disconnected")
     \/ radio \in {"off", "on", "joining"} /\ UNCHANGED events
\* event_handler tests whether there is a group, to set bit b in it.
WillSet(b) == setting' = IF group THEN b ELSE "none"

WifiInit ==
  /\ connected = FALSE /\ group = FALSE /\ bit = "none" /\ setting = "none"
  /\ dangling = FALSE /\ radio = "off" /\ events = <<>>

\* The event task, done with the last event, takes e.
Handle(e) ==
  /\ setting = "none" /\ events # <<>> /\ Head(events) = e /\ events' = Tail(events)
-----------------------------------------------------------------------------
(* Faulty variants of actions below.                                       *)

HandleDisconnected_WaiterOnly ==
  /\ Handle("disconnected") /\ connected' = (connected /\ ~group) /\ WillSet("fail")
  /\ UNCHANGED <<group, bit, dangling, radio>>
-----------------------------------------------------------------------------
(* The caller.                                                             *)

\* wifi_connect up to its wait. A radio that is started already, because its
\* link was lost, does not post another start.
WifiConnect ==
  /\ ~group /\ ~connected /\ Len(events) <= MaxPending
  /\ group' = TRUE /\ bit' = "none"
  /\ IF radio = "off" THEN radio' = "on" /\ Post("start") ELSE UNCHANGED <<radio, events>>
  /\ UNCHANGED <<connected, setter>>
\* The wait is over, by a bit or after its time; all but success stops the radio.
Succeeds == bit = "connected"
WifiConnectEnd ==
  /\ group /\ group' = FALSE /\ bit' = "none"
  /\ IF Succeeds THEN UNCHANGED <<radio, events>> ELSE RadioStops
  /\ dangling' = (setting # "none") /\ UNCHANGED <<connected, setting>>
WifiDisconnect ==
  /\ ~group /\ RadioStops /\ connected' = FALSE
  /\ UNCHANGED <<group, bit, setter>>
-----------------------------------------------------------------------------
(* event_handler.                                                          *)

HandleStart ==
  /\ Handle("start") /\ radio' = IF radio = "on" THEN "joining" ELSE radio
  /\ UNCHANGED <<connected, group, bit, setter>>
HandleDisconnected ==
  /\ Handle("disconnected") /\ connected' = FALSE /\ WillSet("fail")
  /\ UNCHANGED <<group, bit, dangling, radio>>
HandleGotIp ==
  /\ Handle("got_ip") /\ connected' = TRUE /\ WillSet("connected")
  /\ UNCHANGED <<group, bit, dangling, radio>>
\* xEventGroupSetBits: the first bit wakes the waiting task. If the group seen
\* has been deleted, the bit is lost in freed memory, or is set in the next group
\* when that has been given the same place.
SetBit ==
  /\ setting # "none" /\ setting' = "none" /\ dangling' = FALSE
  /\ \/ bit' = IF group /\ bit = "none" THEN setting ELSE bit
     \/ dangling /\ UNCHANGED bit
  /\ UNCHANGED <<connected, group, radio, events>>
WifiEvent == HandleStart \/ HandleDisconnected \/ HandleGotIp \/ SetBit
-----------------------------------------------------------------------------
(* The radio and the network.                                              *)

Associate == radio = "joining" /\ radio' = "assoc" /\ UNCHANGED <<connected, group, bit, setter, events>>
GetAddress ==
  /\ radio = "assoc" /\ radio' = "up" /\ Post("got_ip")
  /\ UNCHANGED <<connected, group, bit, setter>>
\* The access point refuses, or the link is lost.
LoseLink ==
  /\ radio \in {"joining", "assoc", "up"} /\ radio' = "on" /\ Post("disconnected")
  /\ UNCHANGED <<connected, group, bit, setter>>
Network == Associate \/ GetAddress \/ LoseLink

\* Any caller.
WifiNext == WifiConnect \/ WifiConnectEnd \/ WifiDisconnect \/ WifiEvent \/ Network
WifiSpec == WifiInit /\ [][WifiNext]_wifi
-----------------------------------------------------------------------------
(* Properties.                                                             *)

WifiTypeOK ==
  /\ connected \in BOOLEAN /\ group \in BOOLEAN /\ bit \in {"none", "connected", "fail"}
  /\ setting \in {"none", "connected", "fail"} /\ dangling \in BOOLEAN
  /\ radio \in {"off", "on", "joining", "assoc", "up"}
  /\ events \in Seq({"start", "disconnected", "got_ip"})

\* Once the events on their way are handled, s_connected says whether there is
\* a link, however late they came and whatever was called in the meantime.
ReportedLink == events = <<>> => connected = (radio = "up")
==============================================================================
