-------------------------- MODULE GameSessionProofs --------------------------
(***************************************************************************)
(* Proofs about WifiManager and GameSession, for any sounds, any number of *)
(* runtime tasks and any bounds on copies and events. A session makes the  *)
(* steps of WifiManager only, so what holds of the link for any caller     *)
(* holds in it; what the teardown relies on is the invariant SInv.         *)
(***************************************************************************)
EXTENDS GameSession, TLAPS

\* The last report on its way, or s_connected if there is none, tells whether
\* there is a link.
LinkInv ==
  /\ (\A k \in 1..Len(events) : events[k] = "start") => connected = (radio = "up")
  /\ \A k \in 1..Len(events) :
       events[k] # "start" /\ (\A j \in k+1..Len(events) : events[j] = "start")
         => (events[k] = "got_ip" <=> radio = "up")

\* One attempt at a time, its events handled before the next.
NoSuccess == bit # "connected" /\ setting # "connected"
Starting == \E k \in 1..Len(events) : events[k] = "start"
AttemptInv ==
  "event" \notin slow =>
    /\ Starting => events = <<"start">> /\ NoSuccess
                   /\ (radio = "off" \/ (radio = "on" /\ group))
    /\ ~group => bit = "none" /\ radio \notin {"joining", "assoc"}
    /\ radio \in {"joining", "assoc"} => events = <<>> /\ NoSuccess
    /\ radio = "up" => \/ events = <<"got_ip">> /\ group /\ NoSuccess
                       \/ events = <<>> /\ connected
CallerInv ==
  /\ group <=> app = "connecting"
  /\ "event" \notin slow /\
     app \in {"load", "begin", "loading", "game", "overlay", "join", "stop", "free"}
       => radio \in {"off", "on"}

\* The token of s_runtime_done is the one of the game that ends.
JoinInv ==
  "join" \notin slow =>
    /\ \A t, u \in Alive : t = u
    /\ Alive # {} => app \in {"game", "overlay", "join"}
    /\ done => Alive = {} /\ app \in {"game", "overlay", "join"}

\* A sound's own memory is counted; one that is looked for on the net is not there.
OwnCounted == \A s \in Sounds : sound[s] = "own" => copies[s] >= 1
FetchInv ==
  slow \cap {"join", "sound"} = {} =>
    \A t \in Tasks : fetch[t] # None => sound[fetch[t]] = "absent"
\* Between two games no sound of a project is there.
Quiet ==
  slow \cap {"join", "cleanup"} = {} /\ app \notin {"loading", "game", "overlay", "join", "stop"}
    => \A s \in Sounds : sound[s] = "absent" /\ s \notin playing

SInv == /\ TypeOK /\ AttemptInv /\ CallerInv /\ JoinInv
        /\ OwnCounted /\ FetchInv /\ Quiet /\ NoSoundLost /\ SoundReadsLive
-----------------------------------------------------------------------------
(* The link.                                                               *)

Reports == {"start", "disconnected", "got_ip"}

LEMMA PostType ==
  ASSUME events \in Seq(Reports), NEW e \in Reports, Post(e) PROVE events' \in Seq(Reports)
BY DEF Post
LEMMA TailType ==
  ASSUME events \in Seq(Reports), events # <<>>, events' = Tail(events)
  PROVE  events' \in Seq(Reports) /\ Head(events) \in Reports
OBVIOUS

\* A report is posted and becomes the last one.
LEMMA PostKeepsLink ==
  ASSUME WifiTypeOK, NEW e \in {"disconnected", "got_ip"}, Post(e),
         e = "got_ip" <=> radio' = "up"
  PROVE  LinkInv'
<1>1. /\ Len(events') = Len(events) + 1 /\ events'[Len(events')] = e
  BY DEF Post, WifiTypeOK
<1>2. Len(events) \in Nat
  BY DEF WifiTypeOK
<1>3. \A k \in 1..Len(events') : k # Len(events') => Len(events') \in k+1..Len(events')
  BY <1>1, <1>2
<1> QED BY <1>1, <1>2, <1>3 DEF LinkInv

\* The oldest report is handled; if no other follows it was the last.
LEMMA HandledKeepsLink ==
  ASSUME WifiTypeOK, LinkInv, events # <<>>, events' = Tail(events),
         radio' = "up" <=> radio = "up",
         Head(events) = "start" => connected' = connected,
         Head(events) # "start" => connected' = (Head(events) = "got_ip")
  PROVE  LinkInv'
<1>1. /\ Len(events) \in Nat /\ Len(events') = Len(events) - 1 /\ Len(events) >= 1
      /\ \A k \in 1..Len(events') : events'[k] = events[k+1]
      /\ Head(events) = events[1]
  BY DEF WifiTypeOK
<1>2. \A k \in 2..Len(events) : k-1 \in 1..Len(events') /\ events[k] = events'[k-1]
  BY <1>1
<1>3. ASSUME \A k \in 1..Len(events') : events'[k] = "start"
      PROVE  connected' = (radio' = "up")
  <2>1. \A k \in 2..Len(events) : events[k] = "start"
    BY <1>2, <1>3
  <2> QED BY <1>1, <2>1 DEF LinkInv, WifiTypeOK
<1>4. ASSUME NEW k \in 1..Len(events'), events'[k] # "start",
             \A j \in k+1..Len(events') : events'[j] = "start"
      PROVE  events'[k] = "got_ip" <=> radio' = "up"
  <2>1. \A j \in k+2..Len(events) : j-1 \in k+1..Len(events') /\ events[j] = events'[j-1]
    BY <1>1
  <2>2. k+1 \in 1..Len(events) /\ events[k+1] = events'[k] /\ (k+1)+1 = k+2
    BY <1>1
  <2>3. \A j \in (k+1)+1..Len(events) : events[j] = "start"
    BY <1>4, <2>1, <2>2
  <2>4. events[k+1] = "got_ip" <=> radio = "up"
    BY <1>4, <2>2, <2>3 DEF LinkInv
  <2> QED BY <2>2, <2>4
<1> QED BY <1>3, <1>4 DEF LinkInv

\* Nothing is reported and the link stays what it is.
LEMMA SilentKeepsLink ==
  ASSUME LinkInv, radio' = "up" <=> radio = "up", connected' = connected,
         events' = events
  PROVE  LinkInv'
BY DEF LinkInv

LEMMA WifiTypeStep == WifiTypeOK /\ [WifiNext]_wifi => WifiTypeOK'
<1> SUFFICES ASSUME WifiTypeOK, [WifiNext]_wifi PROVE WifiTypeOK'
  OBVIOUS
<1> USE PostType DEF WifiTypeOK, Reports, setter
<1>1. CASE WifiConnect
  BY <1>1 DEF WifiConnect
<1>2. CASE WifiConnectEnd
  BY <1>2 DEF WifiConnectEnd, RadioStops
<1>3. CASE WifiDisconnect
  BY <1>3 DEF WifiDisconnect, RadioStops
<1>4. CASE WifiEvent
  BY <1>4, TailType DEF WifiEvent, HandleStart, HandleDisconnected, HandleGotIp, Handle, WillSet,
     SetBit
<1>5. CASE Network
  BY <1>5 DEF Network, Associate, GetAddress, LoseLink
<1>6. CASE UNCHANGED wifi
  BY <1>6 DEF wifi
<1> QED BY <1>1, <1>2, <1>3, <1>4, <1>5, <1>6 DEF WifiNext

LEMMA RadioStopsKeepsLink ==
  ASSUME WifiTypeOK, LinkInv, RadioStops, connected' \in {connected, FALSE}
  PROVE  LinkInv'
<1>1. CASE Post("disconnected")
  BY <1>1, PostKeepsLink DEF RadioStops
<1>2. CASE radio # "up" /\ UNCHANGED events
  BY <1>2 DEF RadioStops, LinkInv, WifiTypeOK
<1> QED BY <1>1, <1>2 DEF RadioStops

LEMMA LinkStep == WifiTypeOK /\ LinkInv /\ [WifiNext]_wifi => LinkInv'
<1> SUFFICES ASSUME WifiTypeOK, LinkInv, [WifiNext]_wifi PROVE LinkInv'
  OBVIOUS
<1>1. CASE WifiConnect
  <2>1. CASE radio = "off"
    <3>1. /\ Len(events) \in Nat /\ Len(events') = Len(events) + 1
          /\ \A k \in 1..Len(events) : events'[k] = events[k]
          /\ events'[Len(events')] = "start"
      BY <1>1, <2>1 DEF WifiConnect, Post, WifiTypeOK
    <3>2. \A k \in 1..Len(events') : events'[k] # "start" => k \in 1..Len(events)
      BY <3>1
    <3>3. \A k \in 1..Len(events) : k \in 1..Len(events')
          /\ \A j \in k+1..Len(events) : j \in k+1..Len(events')
      BY <3>1
    <3>4. connected' = connected /\ (radio' = "up" <=> radio = "up")
      BY <1>1, <2>1 DEF WifiConnect
    <3> QED BY <3>1, <3>2, <3>3, <3>4 DEF LinkInv
  <2>2. CASE radio # "off"
    BY <1>1, <2>2, SilentKeepsLink DEF WifiConnect
  <2> QED BY <2>1, <2>2
<1>2. CASE WifiConnectEnd
  <2>1. CASE Succeeds
    BY <1>2, <2>1, SilentKeepsLink DEF WifiConnectEnd
  <2>2. CASE ~Succeeds
    BY <1>2, <2>2, RadioStopsKeepsLink DEF WifiConnectEnd
  <2> QED BY <2>1, <2>2
<1>3. CASE WifiDisconnect
  BY <1>3, RadioStopsKeepsLink DEF WifiDisconnect
<1>4. CASE WifiEvent
  <2>1. CASE SetBit
    BY <2>1, SilentKeepsLink DEF SetBit
  <2>2. CASE HandleStart \/ HandleDisconnected \/ HandleGotIp
    BY <2>2, HandledKeepsLink DEF HandleStart, HandleDisconnected, HandleGotIp, Handle
  <2> QED BY <1>4, <2>1, <2>2 DEF WifiEvent
<1>5. CASE Associate
  BY <1>5, SilentKeepsLink DEF Associate
<1>6. CASE GetAddress \/ LoseLink
  BY <1>6, PostKeepsLink DEF GetAddress, LoseLink
<1>7. CASE UNCHANGED wifi
  BY <1>7, SilentKeepsLink DEF wifi
<1> QED BY <1>1, <1>2, <1>3, <1>4, <1>5, <1>6, <1>7 DEF WifiNext, Network

\* s_connected tells the truth as soon as no event is on its way, for any caller
\* of wifi_connect and wifi_disconnect.
THEOREM LinkIsReported == WifiSpec => []ReportedLink
<1>1. WifiInit => WifiTypeOK /\ LinkInv
  <2> SUFFICES ASSUME WifiInit PROVE WifiTypeOK /\ LinkInv
    OBVIOUS
  <2>1. events \in Seq(Reports) /\ Len(events) = 0
    BY DEF WifiInit
  <2>2. connected = (radio = "up")
    BY Zenon DEF WifiInit
  <2>3. LinkInv
    BY <2>1, <2>2 DEF LinkInv
  <2> QED BY <2>1, <2>3 DEF WifiInit, WifiTypeOK, Reports
<1>2. WifiTypeOK /\ LinkInv => ReportedLink
  BY DEF LinkInv, ReportedLink
<1> QED BY <1>1, <1>2, WifiTypeStep, LinkStep, PTL DEF WifiSpec

\* A session uses the connection as WifiManager says.
THEOREM SessionImplementsWifi == Spec => WifiSpec
<1>1. Init => WifiInit
  BY DEF Init
<1>2. [Next]_vars => [WifiNext]_wifi
  <2> SUFFICES ASSUME [Next]_vars PROVE WifiNext \/ UNCHANGED wifi
    OBVIOUS
  <2>1. CASE Menu
    BY <2>1 DEF Menu, Boot, ScanWifi, PlayFromQr, Connect, Connected, PlayFromSd, LoadFromSd,
       DownloadEnds, PlayUi, WifiNext
  <2>2. CASE Game
    BY <2>2 DEF Game, Begin, LoadSound, Start, StartFails, Overlay, OverlayEnds, GameOver, Join,
       StopSounds, FreeAssets
  <2>3. CASE Others
    BY <2>3 DEF Others, WifiNext
  <2>4. CASE \E t \in Tasks : Runtime(t)
    BY <2>4 DEF Runtime, PlayBlock, FetchBlock, StopBlock, FetchEnds, Leave, Exit
  <2>5. CASE UNCHANGED vars
    BY <2>5 DEF vars
  <2> QED BY <2>1, <2>2, <2>3, <2>4, <2>5 DEF Next
<1> QED BY <1>1, <1>2, PTL DEF Spec, WifiSpec

THEOREM LinkIsReportedInSession == Spec => []ReportedLink
BY LinkIsReported, SessionImplementsWifi, PTL
-----------------------------------------------------------------------------
(* The session.                                                            *)

\* The mixer's variables stay in range: a sound that plays from its own memory
\* has been counted.
LEMMA MixerTypeStep ==
  ASSUME TypeOK, OwnCounted, [Next]_vars PROVE MixerTypeOK' /\ OwnCounted'
<1> USE UiIsNoProjectSound, MaxCopiesNat, NoneIsNoSound
    DEF TypeOK, MixerTypeOK, OwnCounted, Store, Room, Play, StopSound, SetSuspended, Decoded,
      DecodedBlindly, Undecodable, FetchFailed, Fetched, FetchedInVain, Cleaned, SetResident,
      Loaded, AllSounds, Sources, CleanTwice,
    GoTo, From, Broken, InTime, control, runtime, wifi, mixer, InStep
<1>1. CASE Boot \/ ScanWifi \/ PlayFromQr \/ Connected \/ PlayFromSd \/ LoadFromSd \/
         DownloadEnds \/ PlayUi
  BY <1>1 DEF Boot, ScanWifi, PlayFromQr, Connected, PlayFromSd, LoadFromSd, DownloadEnds,
     PlayUi, Connect
<1>2. CASE Begin
  BY <1>2 DEF Begin
<1>3. ASSUME NEW s \in Sounds, LoadSound(s) PROVE MixerTypeOK' /\ OwnCounted'
  BY <1>3 DEF LoadSound
<1>4. CASE Overlay
  BY <1>4 DEF Overlay
<1>5. CASE OverlayEnds
  BY <1>5 DEF OverlayEnds
<1>6. CASE StopSounds
  BY <1>6 DEF StopSounds
<1>7. CASE FreeAssets
  BY <1>7 DEF FreeAssets
<1>8. CASE Start \/ StartFails \/ GameOver \/ Join
  BY <1>8 DEF Start, StartFails, GameOver, Join
<1>9. ASSUME NEW t \in Tasks, NEW s \in Sounds, PlayBlock(t, s) PROVE MixerTypeOK' /\ OwnCounted'
  BY <1>9 DEF PlayBlock
<1>10. ASSUME NEW t \in Tasks, NEW s \in Sounds, StopBlock(t, s) PROVE MixerTypeOK' /\ OwnCounted'
  BY <1>10 DEF StopBlock
<1>11. ASSUME NEW t \in Tasks, FetchEnds(t) PROVE MixerTypeOK' /\ OwnCounted'
  BY <1>11 DEF FetchEnds
<1>12. ASSUME NEW s \in Sounds, NEW t \in Tasks,
         FetchBlock(t, s)
      PROVE  MixerTypeOK' /\ OwnCounted'
  BY <1>12 DEF FetchBlock
<1>13. ASSUME NEW t \in Tasks,
         Leave(t) \/ Exit(t)
      PROVE  MixerTypeOK' /\ OwnCounted'
  BY <1>13 DEF Leave, Exit
<1>14. CASE Others
  BY <1>14 DEF Others, Mix
<1>15. CASE UNCHANGED vars
  BY <1>15 DEF vars
<1> QED BY <1>1, <1>2, <1>3, <1>4, <1>5, <1>6, <1>7, <1>8, <1>9, <1>10, <1>11, <1>12, <1>13,
    <1>14, <1>15
     DEF Next, Menu, Game, Runtime

\* The lifecycle's variables stay in range.
LEMMA ControlTypeStep ==
  ASSUME TypeOK, WifiTypeOK', MixerTypeOK', [Next]_vars PROVE TypeOK'
<1> USE UiIsNoProjectSound, MaxCopiesNat, NoneIsNoSound DEF TypeOK, CleanTwice, GoTo, From,
    Broken, InTime, control, runtime, wifi, mixer, InStep
<1>1. CASE Boot \/ ScanWifi \/ PlayFromQr \/ Connected \/ PlayFromSd \/ LoadFromSd \/
         DownloadEnds \/ PlayUi
  BY <1>1 DEF Boot, ScanWifi, PlayFromQr, Connected, PlayFromSd, LoadFromSd, DownloadEnds,
     PlayUi, Connect
<1>2. CASE Begin
  BY <1>2 DEF Begin
<1>3. ASSUME NEW s \in Sounds, LoadSound(s) PROVE TypeOK'
  BY <1>3 DEF LoadSound
<1>4. CASE Start
  BY <1>4 DEF Start
<1>5. CASE StartFails
  BY <1>5 DEF StartFails
<1>6. CASE Overlay
  BY <1>6 DEF Overlay
<1>7. CASE OverlayEnds
  BY <1>7 DEF OverlayEnds
<1>8. CASE GameOver
  BY <1>8 DEF GameOver
<1>9. CASE Join
  BY <1>9 DEF Join
<1>10. CASE StopSounds
  BY <1>10 DEF StopSounds
<1>11. CASE FreeAssets
  BY <1>11 DEF FreeAssets
<1>12. ASSUME NEW t \in Tasks, NEW s \in Sounds, PlayBlock(t, s) PROVE TypeOK'
  BY <1>12 DEF PlayBlock
<1>13. ASSUME NEW t \in Tasks, NEW s \in Sounds, FetchBlock(t, s) PROVE TypeOK'
  BY <1>13 DEF FetchBlock
<1>14. ASSUME NEW t \in Tasks, NEW s \in Sounds, StopBlock(t, s) PROVE TypeOK'
  BY <1>14 DEF StopBlock
<1>15. ASSUME NEW t \in Tasks, FetchEnds(t) PROVE TypeOK'
  BY <1>15 DEF FetchEnds
<1>16. ASSUME NEW t \in Tasks, Leave(t) PROVE TypeOK'
  BY <1>16 DEF Leave
<1>17. ASSUME NEW t \in Tasks, Exit(t) PROVE TypeOK'
  BY <1>17 DEF Exit
<1>18. CASE Others
  BY <1>18 DEF Others, Mix
<1>19. CASE UNCHANGED vars
  BY <1>19 DEF vars
<1> QED BY <1>1, <1>2, <1>3, <1>4, <1>5, <1>6, <1>7, <1>8, <1>9, <1>10, <1>11, <1>12, <1>13,
    <1>14, <1>15, <1>16, <1>17, <1>18, <1>19
     DEF Next, Menu, Game, Runtime

\* What a step of the session may do to the connection, and what it remembers.
LEMMA WifiPart ==
  ASSUME [Next]_vars
  PROVE  /\ slow \subseteq slow'
         /\ \/ WifiConnect /\ ((events = <<>> /\ setting = "none") \/ "event" \in slow')
               /\ app' = "connecting"
            \/ WifiConnectEnd /\ app = "connecting" /\ app' \in {"menu", goal}
            \/ WifiDisconnect /\ app' # "connecting" /\ app # "connecting"
            \/ WifiEvent /\ UNCHANGED app
            \/ Network /\ UNCHANGED app
            \/ UNCHANGED wifi /\ (app = "connecting" <=> app' = "connecting")
<1> USE DEF GoTo, From, Broken, InTime, control, CleanTwice
<1>1. CASE Menu
  BY <1>1 DEF Menu, Boot, ScanWifi, PlayFromQr, Connect, Connected, PlayFromSd, LoadFromSd,
     DownloadEnds, PlayUi
<1>2. CASE Game
  BY <1>2 DEF Game, Begin, LoadSound, Start, StartFails, Overlay, OverlayEnds, GameOver, Join,
     StopSounds, FreeAssets
<1>3. CASE Others
  BY <1>3 DEF Others
<1>4. CASE \E t \in Tasks : Runtime(t)
  BY <1>4 DEF Runtime, PlayBlock, FetchBlock, StopBlock, FetchEnds, Leave, Exit
<1>5. CASE UNCHANGED vars
  BY <1>5 DEF vars, wifi
<1> QED BY <1>1, <1>2, <1>3, <1>4, <1>5 DEF Next

\* An attempt begins with no event on its way, so that what is reported in it is
\* its own; the steps of the connection keep this, and a game has no link.
LEMMA AttemptStep ==
  ASSUME WifiTypeOK, CallerInv, AttemptInv, [Next]_vars PROVE AttemptInv'
<1> USE WifiPart DEF CallerInv, NoSuccess, Handle, WillSet, setter
<1> SUFFICES ASSUME "event" \notin slow' PROVE AttemptInv'
  BY DEF AttemptInv
<1>0. "event" \notin slow
  OBVIOUS
<1>1. CASE WifiConnect /\ ((events = <<>> /\ setting = "none") \/ "event" \in slow')
  <2>1. /\ events = <<>> /\ ~group /\ ~connected /\ group' = TRUE /\ bit' = "none"
        /\ setting' = "none"
    BY <1>1 DEF WifiConnect, setter
  <2>2. radio \in {"off", "on"}
    BY <1>0, <2>1 DEF AttemptInv, WifiTypeOK
  <2>3. CASE radio = "off"
    <3>1. radio' = "on" /\ events' = Append(<<>>, "start")
      BY <1>1, <2>1, <2>3 DEF WifiConnect, Post
    <3>2. events' = <<"start">>
      BY <3>1
    <3> QED BY <2>1, <3>1, <3>2 DEF AttemptInv
  <2>4. CASE radio = "on"
    <3>1. radio' = "on" /\ events' = <<>>
      BY <1>1, <2>1, <2>4 DEF WifiConnect
    <3>2. ~Starting'
      BY <3>1 DEF Starting
    <3> QED BY <2>1, <3>1, <3>2 DEF AttemptInv
  <2> QED BY <2>2, <2>3, <2>4
<1>2. CASE WifiConnectEnd
  BY <1>0, <1>2 DEF WifiConnectEnd, Succeeds, RadioStops, Post, AttemptInv, Starting, WifiTypeOK
<1>3. CASE WifiDisconnect
  BY <1>0, <1>3 DEF WifiDisconnect, RadioStops, Post, AttemptInv, Starting, WifiTypeOK
<1>4. CASE HandleStart
  BY <1>0, <1>4 DEF HandleStart, AttemptInv, Starting, WifiTypeOK
<1>5. CASE HandleDisconnected
  BY <1>0, <1>5 DEF HandleDisconnected, AttemptInv, Starting, WifiTypeOK
<1>6. CASE HandleGotIp
  BY <1>0, <1>6 DEF HandleGotIp, AttemptInv, Starting, WifiTypeOK
<1>7. CASE Associate
  BY <1>0, <1>7 DEF Associate, AttemptInv, Starting, WifiTypeOK
<1>8. CASE GetAddress
  BY <1>0, <1>8 DEF GetAddress, Post, AttemptInv, Starting, WifiTypeOK
<1>9. CASE LoseLink
  BY <1>0, <1>9 DEF LoseLink, Post, AttemptInv, Starting, WifiTypeOK
<1>10. CASE UNCHANGED wifi
  BY <1>0, <1>10 DEF wifi, AttemptInv, Starting
<1>11. CASE SetBit
  BY <1>0, <1>11 DEF SetBit, AttemptInv, Starting, WifiTypeOK
<1> QED BY <1>1, <1>2, <1>3, <1>4, <1>5, <1>6, <1>7, <1>8, <1>9, <1>10, <1>11 DEF WifiEvent, Network

\* One task waits for one attempt, and a game begins without a link: either
\* wifi_disconnect has been called or there was nothing to disconnect.
LEMMA CallerStep ==
  ASSUME TypeOK, CallerInv, AttemptInv, [Next]_vars PROVE CallerInv'
<1>1. group' <=> app' = "connecting"
  <2> USE WifiPart DEF CallerInv
  <2>1. CASE WifiConnect /\ app' = "connecting"
    BY <2>1 DEF WifiConnect
  <2>2. CASE WifiConnectEnd /\ app' \in {"menu", goal}
    BY <2>2 DEF WifiConnectEnd, TypeOK
  <2>3. CASE WifiDisconnect /\ app' # "connecting" /\ app # "connecting"
    BY <2>3 DEF WifiDisconnect
  <2>4. CASE WifiEvent /\ UNCHANGED app
    BY <2>4 DEF WifiEvent, HandleStart, HandleDisconnected, HandleGotIp, SetBit
  <2>5. CASE Network /\ UNCHANGED app
    BY <2>5 DEF Network, Associate, GetAddress, LoseLink
  <2>6. CASE UNCHANGED wifi /\ (app = "connecting" <=> app' = "connecting")
    BY <2>6 DEF wifi
  <2> QED BY <2>1, <2>2, <2>3, <2>4, <2>5, <2>6
<1> DEFINE Late == {"load", "begin", "loading", "game", "overlay", "join", "stop", "free"}
<1>2. ASSUME "event" \notin slow', app' \in Late
      PROVE  radio' \in {"off", "on"}
  <2>0. "event" \notin slow
    BY <1>2, WifiPart
  <2> USE DEF GoTo, From, control
  <2>1. CASE Menu
    <3>1. CASE PlayFromSd \/ LoadFromSd \/ DownloadEnds
      BY <2>0, <3>1 DEF PlayFromSd, LoadFromSd, DownloadEnds, WifiDisconnect, RadioStops,
         CallerInv, AttemptInv, TypeOK, WifiTypeOK, wifi
    <3>2. CASE Boot \/ ScanWifi \/ PlayFromQr \/ Connected \/ PlayUi
      BY <1>2, <2>0, <3>2 DEF Boot, ScanWifi, PlayFromQr, Connect, Connected, PlayUi,
         CallerInv, TypeOK, wifi
    <3> QED BY <2>1, <3>1, <3>2 DEF Menu
  <2>2. CASE Game
    BY <1>2, <2>0, <2>2 DEF Game, Begin, LoadSound, Start, StartFails, Overlay, OverlayEnds,
       GameOver, Join, StopSounds, FreeAssets, CallerInv, wifi
  <2>3. CASE Others
    \* An event of an attempt that is over finds the radio stopped.
    <3>1. app \in Late /\ radio \in {"off", "on"} /\ ~group
      BY <1>2, <2>0, <2>3 DEF Others, CallerInv
    <3>2. CASE WifiEvent
      BY <2>0, <3>1, <3>2 DEF WifiEvent, HandleStart, HandleDisconnected, HandleGotIp,
         SetBit, Handle, AttemptInv, Starting, WifiTypeOK, TypeOK
    <3>3. CASE Network
      BY <3>1, <3>3 DEF Network, Associate, GetAddress, LoseLink
    <3>4. CASE UNCHANGED wifi
      BY <3>1, <3>4 DEF wifi
    <3> QED BY <2>3, <3>2, <3>3, <3>4 DEF Others
  <2>4. CASE \E t \in Tasks : Runtime(t)
    BY <1>2, <2>0, <2>4 DEF Runtime, PlayBlock, FetchBlock, StopBlock, FetchEnds, Leave, Exit,
       CallerInv, wifi
  <2>5. CASE UNCHANGED vars
    BY <1>2, <2>0, <2>5 DEF vars, wifi, CallerInv
  <2> QED BY <2>1, <2>2, <2>3, <2>4, <2>5 DEF Next
<1> QED BY <1>1, <1>2 DEF CallerInv

\* While the runtime task ends in time it is alone and has its game, and the
\* token is taken by the teardown that waits for it.
LEMMA JoinStep ==
  ASSUME TypeOK, JoinInv, [Next]_vars PROVE JoinInv'
<1> USE DEF TypeOK, JoinInv, Alive, GoTo, From, Broken, InTime, control, runtime, wifi, mixer,
    InStep, CleanTwice
<1>1. CASE Boot \/ ScanWifi \/ PlayFromQr \/ Connected \/ PlayFromSd \/ LoadFromSd \/
         DownloadEnds \/ PlayUi
  BY <1>1 DEF Boot, ScanWifi, PlayFromQr, Connected, PlayFromSd, LoadFromSd, DownloadEnds,
     PlayUi, Connect
<1>2. CASE Begin
  BY <1>2 DEF Begin
<1>3. CASE Start
  BY <1>3 DEF Start
<1>4. CASE StartFails
  BY <1>4 DEF StartFails
<1>5. CASE Overlay
  BY <1>5 DEF Overlay
<1>6. CASE OverlayEnds
  BY <1>6 DEF OverlayEnds
<1>7. CASE GameOver
  BY <1>7 DEF GameOver
<1>8. CASE Join
  BY <1>8 DEF Join
<1>9. CASE StopSounds
  BY <1>9 DEF StopSounds
<1>10. ASSUME NEW s \in Sounds,
         LoadSound(s)
      PROVE  JoinInv'
  BY <1>10 DEF LoadSound
<1>11. CASE FreeAssets
  BY <1>11 DEF FreeAssets
<1>12. ASSUME NEW t \in Tasks, Leave(t) PROVE JoinInv'
  BY <1>12 DEF Leave
<1>13. ASSUME NEW t \in Tasks, Exit(t) PROVE JoinInv'
  BY <1>13 DEF Exit
<1>14. ASSUME NEW s \in Sounds, NEW t \in Tasks,
         PlayBlock(t, s) \/ FetchBlock(t, s) \/ StopBlock(t, s)
      PROVE  JoinInv'
  BY <1>14 DEF PlayBlock, FetchBlock, StopBlock
<1>15. ASSUME NEW t \in Tasks,
         FetchEnds(t)
      PROVE  JoinInv'
  BY <1>15 DEF FetchEnds
<1>16. CASE Others
  BY <1>16 DEF Others, Mix
<1>17. CASE UNCHANGED vars
  BY <1>17 DEF vars
<1> QED BY <1>1, <1>2, <1>3, <1>4, <1>5, <1>6, <1>7, <1>8, <1>9, <1>10, <1>11, <1>12, <1>13,
    <1>14, <1>15, <1>16, <1>17
     DEF Next, Menu, Game, Runtime

\* What is looked for on the net is not there, so every store finds nothing to
\* lose.
LEMMA StoreStep ==
  ASSUME TypeOK, JoinInv, OwnCounted, FetchInv, NoSoundLost, [Next]_vars
  PROVE  FetchInv' /\ NoSoundLost'
<1> USE UiIsNoProjectSound, MaxCopiesNat, NoneIsNoSound
    DEF TypeOK, MixerTypeOK, FetchInv, JoinInv, NoSoundLost, Alive, Store, Room, Play,
      StopSound, SetSuspended, Decoded, DecodedBlindly, Undecodable, FetchFailed, Fetched,
      FetchedInVain, Cleaned, SetResident, Loaded, AllSounds, Sources, CleanTwice,
    GoTo, From, Broken, InTime, control, runtime, wifi, mixer, InStep
<1>1. CASE Boot \/ ScanWifi \/ PlayFromQr \/ Connected \/ PlayFromSd \/ LoadFromSd \/
         DownloadEnds \/ PlayUi
  BY <1>1 DEF Boot, ScanWifi, PlayFromQr, Connected, PlayFromSd, LoadFromSd, DownloadEnds,
     PlayUi, Connect
<1>2. CASE Begin
  BY <1>2 DEF Begin
<1>3. ASSUME NEW s \in Sounds, LoadSound(s) PROVE FetchInv' /\ NoSoundLost'
  BY <1>3 DEF LoadSound
<1>4. CASE Start
  BY <1>4 DEF Start
<1>5. CASE Overlay
  BY <1>5 DEF Overlay
<1>6. CASE OverlayEnds
  BY <1>6 DEF OverlayEnds
<1>7. CASE Join
  BY <1>7 DEF Join
<1>8. CASE StopSounds
  BY <1>8 DEF StopSounds
<1>9. CASE FreeAssets
  BY <1>9 DEF FreeAssets
<1>10. CASE StartFails \/ GameOver
  BY <1>10 DEF StartFails, GameOver
<1>11. ASSUME NEW t \in Tasks, NEW s \in Sounds, PlayBlock(t, s) PROVE FetchInv' /\ NoSoundLost'
  BY <1>11 DEF PlayBlock
<1>12. ASSUME NEW t \in Tasks, NEW s \in Sounds, FetchBlock(t, s) PROVE FetchInv' /\ NoSoundLost'
  BY <1>12 DEF FetchBlock
<1>13. ASSUME NEW t \in Tasks, NEW s \in Sounds, StopBlock(t, s) PROVE FetchInv' /\ NoSoundLost'
  BY <1>13 DEF StopBlock
<1>14. ASSUME NEW t \in Tasks, FetchEnds(t) PROVE FetchInv' /\ NoSoundLost'
  BY <1>14 DEF FetchEnds
<1>15. ASSUME NEW t \in Tasks, Leave(t) PROVE FetchInv' /\ NoSoundLost'
  BY <1>15 DEF Leave
<1>16. ASSUME NEW t \in Tasks, Exit(t) PROVE FetchInv' /\ NoSoundLost'
  BY <1>16 DEF Exit
<1>17. CASE Others
  BY <1>17 DEF Others, Mix
<1>18. CASE UNCHANGED vars
  BY <1>18 DEF vars
<1> QED BY <1>1, <1>2, <1>3, <1>4, <1>5, <1>6, <1>7, <1>8, <1>9, <1>10, <1>11, <1>12, <1>13,
    <1>14, <1>15, <1>16, <1>17, <1>18
     DEF Next, Menu, Game, Runtime

\* Between two games there is nothing to play: no runtime is left to store a
\* sound, and none is loaded.
LEMMA QuietStep ==
  ASSUME TypeOK, JoinInv, Quiet, [Next]_vars PROVE Quiet'
<1> USE UiIsNoProjectSound, MaxCopiesNat, NoneIsNoSound
    DEF TypeOK, MixerTypeOK, JoinInv, Quiet, Alive, Store, Room, Play, StopSound, SetSuspended,
      Decoded, DecodedBlindly, Undecodable, FetchFailed, Fetched, FetchedInVain, Cleaned,
      SetResident, Loaded, AllSounds, Sources, CleanTwice,
    GoTo, From, Broken, InTime, control, runtime, wifi, mixer, InStep
<1>1. CASE PlayFromSd
  BY <1>1 DEF PlayFromSd
<1>2. CASE DownloadEnds
  BY <1>2 DEF DownloadEnds
<1>3. CASE PlayUi
  BY <1>3 DEF PlayUi
<1>4. CASE Boot \/ ScanWifi \/ PlayFromQr \/ Connected \/ LoadFromSd
  BY <1>4 DEF Boot, ScanWifi, PlayFromQr, Connected, LoadFromSd, Connect
<1>5. CASE Begin
  BY <1>5 DEF Begin
<1>6. ASSUME NEW s \in Sounds, LoadSound(s) PROVE Quiet'
  BY <1>6 DEF LoadSound
<1>7. CASE StopSounds
  BY <1>7 DEF StopSounds
<1>8. CASE FreeAssets
  BY <1>8 DEF FreeAssets
<1>9. CASE Start \/ StartFails \/ Overlay \/ OverlayEnds \/ GameOver \/ Join
  BY <1>9 DEF Start, StartFails, Overlay, OverlayEnds, GameOver, Join
<1>10. ASSUME NEW t \in Tasks, NEW s \in Sounds, PlayBlock(t, s) PROVE Quiet'
  BY <1>10 DEF PlayBlock
<1>11. ASSUME NEW t \in Tasks, NEW s \in Sounds, StopBlock(t, s) PROVE Quiet'
  BY <1>11 DEF StopBlock
<1>12. ASSUME NEW t \in Tasks, FetchEnds(t) PROVE Quiet'
  BY <1>12 DEF FetchEnds
<1>13. ASSUME NEW s \in Sounds, NEW t \in Tasks,
         FetchBlock(t, s)
      PROVE  Quiet'
  BY <1>13 DEF FetchBlock
<1>14. ASSUME NEW t \in Tasks,
         Leave(t) \/ Exit(t)
      PROVE  Quiet'
  BY <1>14 DEF Leave, Exit
<1>15. CASE Others
  BY <1>15 DEF Others, Mix
<1>16. CASE UNCHANGED vars
  BY <1>16 DEF vars
<1> QED BY <1>1, <1>2, <1>3, <1>4, <1>5, <1>6, <1>7, <1>8, <1>9, <1>10, <1>11, <1>12, <1>13,
    <1>14, <1>15, <1>16
     DEF Next, Menu, Game, Runtime

\* The bytes a sound has borrowed are freed between two games only, and none is
\* downloaded because a game has no link.
LEMMA LiveStep ==
  ASSUME TypeOK, JoinInv, CallerInv, OwnCounted, Quiet, SoundReadsLive, OwnCounted', [Next]_vars
  PROVE  SoundReadsLive'
<1> USE UiIsNoProjectSound, MaxCopiesNat, NoneIsNoSound
    DEF TypeOK, MixerTypeOK, JoinInv, CallerInv, OwnCounted, Quiet, SoundReadsLive, Live, Alive,
    Store, Room, Play, StopSound, SetSuspended, Decoded, DecodedBlindly, Undecodable,
    FetchFailed, Fetched, FetchedInVain, Cleaned, SetResident, Loaded, AllSounds, Sources,
    CleanTwice,
    GoTo, From, Broken, InTime, control, runtime, wifi, mixer, InStep
<1>1. CASE PlayFromSd
  BY <1>1 DEF PlayFromSd
<1>2. CASE DownloadEnds
  BY <1>2 DEF DownloadEnds
<1>3. CASE PlayUi
  BY <1>3 DEF PlayUi
<1>4. CASE Boot \/ ScanWifi \/ PlayFromQr \/ Connected \/ LoadFromSd
  BY <1>4 DEF Boot, ScanWifi, PlayFromQr, Connected, LoadFromSd, Connect
<1>5. CASE Begin
  BY <1>5 DEF Begin
<1>6. ASSUME NEW s \in Sounds, LoadSound(s) PROVE SoundReadsLive'
  BY <1>6 DEF LoadSound
<1>7. CASE StopSounds
  BY <1>7 DEF StopSounds
<1>8. CASE FreeAssets
  BY <1>8 DEF FreeAssets
<1>9. CASE Start \/ StartFails \/ Overlay \/ OverlayEnds \/ GameOver \/ Join
  BY <1>9 DEF Start, StartFails, Overlay, OverlayEnds, GameOver, Join
<1>10. ASSUME NEW t \in Tasks, NEW s \in Sounds, PlayBlock(t, s) PROVE SoundReadsLive'
  BY <1>10 DEF PlayBlock
<1>11. ASSUME NEW t \in Tasks, NEW s \in Sounds, StopBlock(t, s) PROVE SoundReadsLive'
  BY <1>11 DEF StopBlock
<1>12. ASSUME NEW t \in Tasks, FetchEnds(t) PROVE SoundReadsLive'
  BY <1>12 DEF FetchEnds
<1>13. ASSUME NEW s \in Sounds, NEW t \in Tasks,
         FetchBlock(t, s)
      PROVE  SoundReadsLive'
  BY <1>13 DEF FetchBlock
<1>14. ASSUME NEW t \in Tasks,
         Leave(t) \/ Exit(t)
      PROVE  SoundReadsLive'
  BY <1>14 DEF Leave, Exit
<1>15. CASE Others
  BY <1>15 DEF Others, Mix
<1>16. CASE UNCHANGED vars
  BY <1>16 DEF vars
<1> QED BY <1>1, <1>2, <1>3, <1>4, <1>5, <1>6, <1>7, <1>8, <1>9, <1>10, <1>11, <1>12, <1>13,
    <1>14, <1>15, <1>16
     DEF Next, Menu, Game, Runtime

LEMMA Initially == Init => SInv
<1> SUFFICES ASSUME Init PROVE SInv
  OBVIOUS
<1> USE UiIsNoProjectSound, MaxCopiesNat, NoneIsNoSound DEF Init, WifiInit, MixerInit
<1>1. WifiTypeOK /\ ~Starting
  <2>1. events \in Seq(Reports) /\ Len(events) = 0
    OBVIOUS
  <2>2. ~Starting
    BY <2>1 DEF Starting
  <2>3. WifiTypeOK
    BY <2>1 DEF WifiTypeOK, Reports
  <2> QED BY <2>2, <2>3
<1>2. MixerTypeOK /\ Alive = {}
  <2>1. sound \in [AllSounds -> Sources \cup {"absent", "failed"}]
    BY DEF Sources
  <2>2. copies \in [Sounds -> 0..MaxCopies]
    OBVIOUS
  <2> QED BY <2>1, <2>2 DEF MixerTypeOK, Alive
<1>3. TypeOK
  BY <1>1, <1>2 DEF TypeOK
<1>4. AttemptInv /\ CallerInv
  BY <1>1 DEF AttemptInv, CallerInv
<1>5. JoinInv /\ FetchInv
  BY <1>2 DEF JoinInv, FetchInv
<1>6. OwnCounted /\ Quiet /\ NoSoundLost /\ SoundReadsLive
  BY DEF OwnCounted, Quiet, NoSoundLost, SoundReadsLive, Live, AllSounds
<1> QED BY <1>3, <1>4, <1>5, <1>6 DEF SInv

LEMMA SInvIsInductive == SInv /\ [Next]_vars => SInv'
<1> SUFFICES ASSUME SInv, [Next]_vars PROVE SInv'
  OBVIOUS
<1>1. WifiTypeOK'
  BY WifiPart, WifiTypeStep DEF SInv, TypeOK, WifiNext
<1>2. MixerTypeOK' /\ OwnCounted'
  BY MixerTypeStep DEF SInv
<1>3. TypeOK'
  BY <1>1, <1>2, ControlTypeStep DEF SInv
<1>4. AttemptInv' /\ CallerInv'
  BY AttemptStep, CallerStep DEF SInv, TypeOK
<1>5. JoinInv' /\ FetchInv' /\ NoSoundLost' /\ Quiet'
  BY JoinStep, StoreStep, QuietStep DEF SInv
<1>6. SoundReadsLive'
  BY <1>2, LiveStep DEF SInv
<1> QED BY <1>2, <1>3, <1>4, <1>5, <1>6 DEF SInv

LEMMA Invariance == Spec => []SInv
BY Initially, SInvIsInductive, PTL DEF Spec

\* The variables stay in range, and only a runtime downloads sounds.
THEOREM TypeCorrect == Spec => []TypeOK
<1>1. SInv => TypeOK
  BY DEF SInv
<1> QED BY <1>1, Invariance, PTL

\* What a game used is freed, and the next one loaded, when its runtime is gone,
\* as long as it ends within the 2 s of main.cpp:1588.
THEOREM TeardownIsAlone == Spec => []TeardownAlone
<1>1. SInv => TeardownAlone
  BY DEF SInv, JoinInv, TeardownAlone
<1> QED BY <1>1, Invariance, PTL

\* No sound plays from memory that has been freed.
THEOREM SoundsReadLiveMemory == Spec => []SoundReadsLive
<1>1. SInv => SoundReadsLive
  BY DEF SInv
<1> QED BY <1>1, Invariance, PTL

\* No buffer of a sound is forgotten by a store on top of it.
THEOREM NoSoundIsLost == Spec => []NoSoundLost
<1>1. SInv => NoSoundLost
  BY DEF SInv
<1> QED BY <1>1, Invariance, PTL

\* In the menu no sound of a project is left.
THEOREM MenuIsSilent == Spec => []MenuSilent
<1>1. SInv => MenuSilent
  BY DEF SInv, Quiet, MenuSilent
<1> QED BY <1>1, Invariance, PTL

\* Games run offline.
THEOREM GamesAreOffline == Spec => []GameOffline
<1>1. SInv => GameOffline
  BY DEF SInv, JoinInv, CallerInv, GameOffline
<1> QED BY <1>1, Invariance, PTL
==============================================================================
