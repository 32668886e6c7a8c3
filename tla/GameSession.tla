----------------------------- MODULE GameSession -----------------------------
(***************************************************************************)
(* The life of a game (main/main.cpp): app_main connects, downloads, loads *)
(* and starts a project, waits for its runtime task to end and frees what  *)
(* it used, while the runtime plays sounds, the mixer mixes them and the   *)
(* event task reports the WiFi link. Composes WifiManager and AudioMixer   *)
(* with the lifecycle; what the runtime does in a frame is FramePipeline's *)
(* and the executor's part.                                                *)
(*                                                                         *)
(* Timed waits may expire at any time. slow remembers which assumption of  *)
(* the code about time has been broken, so that each property can name     *)
(* those it needs:                                                         *)
(*   join     the runtime task ends within 2 s of the end of the game      *)
(*   cleanup  one of the two cleanupAudio of a teardown gets the mutex     *)
(*   sound    another operation gets the audio mutex in time               *)
(*   event    no WiFi event is on its way, or being handled, when an       *)
(*            attempt begins                                               *)
(***************************************************************************)
EXTENDS WifiManager, AudioMixer

CONSTANTS Tasks, None  \* the runtime tasks: a second one if the first outlives its game
ASSUME NoneIsNoSound == None \notin Sounds

VARIABLES
  app,      \* where app_main stands
  goal,     \* where it goes on when it has a connection
  origin,   \* where the assets are: g_assets, the card (g_assets_sd_project_id), none
  running,  \* scratch_running
  done,     \* the token in s_runtime_done
  task,     \* none, run or exit: behind the loop of scratch_runtime_task
  fetch,    \* the sound a runtime is downloading
  slow

control == <<app, goal, origin>>
runtime == <<running, done, task, fetch>>
vars == <<wifi, mixer, control, runtime, slow>>

Alive == {t \in Tasks : task[t] # "none"}
GoTo(a) == app' = a /\ UNCHANGED <<goal, origin>>
From(a) == app = a
Broken(w) == slow' = slow \cup {w}
InTime == UNCHANGED slow

Init ==
  /\ WifiInit /\ MixerInit
  /\ app = "boot" /\ goal = "menu" /\ origin = "none"
  /\ running = FALSE /\ done = FALSE
  /\ task = [t \in Tasks |-> "none"] /\ fetch = [t \in Tasks |-> None] /\ slow = {}
-----------------------------------------------------------------------------
(* Faulty variants of actions below.                                       *)

PlayFromSd_Online ==
  /\ From("menu") /\ app' = "load" /\ origin' = "none" /\ SetResident({})
  /\ UNCHANGED <<wifi, runtime, goal>> /\ InTime
Leave_Early(t) ==
  /\ task[t] = "run" /\ fetch[t] = None
  /\ running' = FALSE /\ done' = TRUE /\ task' = [task EXCEPT ![t] = "exit"]
  /\ UNCHANGED <<wifi, mixer, control, fetch>> /\ InTime
Leave_Downloading(t) ==
  /\ task[t] = "run" /\ running' = FALSE /\ task' = [task EXCEPT ![t] = "exit"]
  /\ UNCHANGED <<wifi, mixer, control, done, fetch>> /\ InTime
-----------------------------------------------------------------------------
(* The menu and the connection.                                            *)

\* wifi_connect on behalf of goal g.
Connect(g) ==
  /\ WifiConnect /\ app' = "connecting" /\ goal' = g /\ UNCHANGED origin
  /\ IF events = <<>> /\ setting = "none" THEN InTime ELSE Broken("event")
  /\ UNCHANGED <<mixer, runtime>>
\* At boot, with the credentials on the card if there are any.
Boot ==
  /\ From("boot")
  /\ \/ Connect("menu")
     \/ GoTo("menu") /\ UNCHANGED <<wifi, mixer, runtime>> /\ InTime
\* ui_menu_run: the credentials of a QR code; there is nothing to do when
\* s_connected is set.
ScanWifi == From("menu") /\ Connect("menu")
PlayFromQr ==
  /\ From("menu")
  /\ \/ Connect("download")
     \/ /\ connected /\ GoTo("download")
        /\ UNCHANGED <<wifi, mixer, runtime>> /\ InTime
Connected ==
  /\ From("connecting") /\ WifiConnectEnd
  /\ GoTo(IF Succeeds THEN goal ELSE "menu")
  /\ UNCHANGED <<mixer, runtime>> /\ InTime

\* PLAY_FROM_SD, also of an autorun: offline, then load_game_from_sd, which
\* begins with free_assets.
PlayFromSd ==
  /\ From("menu") /\ app' = "load" /\ origin' = "none" /\ SetResident({})
  /\ IF connected THEN WifiDisconnect ELSE UNCHANGED wifi
  /\ UNCHANGED <<runtime, goal>> /\ InTime
LoadFromSd ==
  /\ From("load")
  /\ \/ app' = "begin" /\ origin' = "card"
     \/ app' = "menu" /\ UNCHANGED origin
  /\ UNCHANGED <<wifi, mixer, runtime, goal>> /\ InTime

\* qr_download_project: what g_assets had is freed; the assets go to the card,
\* or those that arrive stay in memory if the card cannot be written. Then the
\* radio is stopped.
DownloadEnds ==
  /\ From("download") /\ WifiDisconnect
  /\ \/ GoTo("menu") /\ UNCHANGED mixer
     \/ app' = "begin" /\ origin' = "card" /\ SetResident({}) /\ UNCHANGED goal
     \/ app' = "begin" /\ origin' = "memory" /\ \E S \in SUBSET Sounds : SetResident(S)
        /\ UNCHANGED goal
  /\ UNCHANGED runtime /\ InTime

\* In the menu and in a dialogue of a game buttons are heard.
PlayUi ==
  /\ app \in {"menu", "overlay"} /\ Play(Ui)
  /\ UNCHANGED <<wifi, control, runtime>> /\ InTime
-----------------------------------------------------------------------------
(* load_and_run.                                                           *)

\* Both calls of cleanupAudio, of which one suffices.
CleanTwice ==
  \/ Cleaned /\ InTime
  \/ UNCHANGED mixer /\ Broken("cleanup")
Begin ==
  /\ From("begin") /\ GoTo("loading") /\ running' = FALSE
  /\ CleanTwice
  /\ UNCHANGED <<wifi, done, task, fetch>>
\* A sound of a sprite; several sprites may have the same one. When the mutex
\* is not free to store it, nothing is stored.
LoadSound(s) ==
  /\ From("loading") /\ (origin = "card" \/ s \in resident)
  /\ LET copied == s \notin resident IN
     \/ (Decoded(s, copied) \/ Undecodable(s)) /\ InTime
     \/ Loaded(s) /\ DecodedBlindly(s, copied) /\ Broken("sound")
  /\ UNCHANGED <<wifi, control, runtime>>
Start ==
  /\ From("loading") /\ GoTo("game") /\ running' = TRUE
  /\ \E t \in Tasks \ Alive :
       /\ task' = [task EXCEPT ![t] = "run"]
       /\ UNCHANGED <<wifi, mixer, done, fetch>> /\ InTime
\* No memory for the task.
StartFails ==
  /\ From("loading") /\ GoTo("join") /\ running' = FALSE
  /\ UNCHANGED <<wifi, mixer, done, task, fetch>> /\ InTime
-----------------------------------------------------------------------------
(* The game loop of app_main and the teardown.                             *)

\* game_overlay_check: a sound of the menu if the mutex is free in time, and a
\* dialogue with the project's sounds suspended.
Overlay ==
  /\ From("game") /\ running /\ GoTo("overlay")
  /\ suspended' = TRUE /\ playing' \in {playing, playing \cup {Ui}}
  /\ UNCHANGED <<sound, copies, resident>>
  /\ UNCHANGED <<wifi, runtime>> /\ InTime
\* The exit dialogue may quit.
OverlayEnds ==
  /\ From("overlay") /\ GoTo("game") /\ SetSuspended(FALSE)
  /\ running' \in {running, FALSE}
  /\ UNCHANGED <<wifi, done, task, fetch>> /\ InTime
GameOver ==
  /\ From("game") /\ ~running /\ GoTo("join")
  /\ UNCHANGED <<wifi, mixer, runtime>> /\ InTime

\* xSemaphoreTake(s_runtime_done, 2 s).
Join ==
  /\ From("join") /\ GoTo("stop")
  /\ IF done THEN done' = FALSE /\ InTime
     ELSE done' = done /\ IF Alive = {} THEN InTime ELSE Broken("join")
  /\ UNCHANGED <<wifi, mixer, running, task, fetch>>
\* cleanupAudio; or not, and cleanupScratchProject does it, or neither.
StopSounds ==
  /\ From("stop") /\ GoTo("free") /\ CleanTwice
  /\ UNCHANGED <<wifi, runtime>>
\* audio_mixer_set_suspended(false) ... free_assets.
FreeAssets ==
  /\ From("free") /\ app' = "menu" /\ origin' = "none" /\ goal' = goal
  /\ suspended' = FALSE /\ resident' = {} /\ UNCHANGED <<sound, playing, copies>>
  /\ UNCHANGED <<wifi, runtime>> /\ InTime
-----------------------------------------------------------------------------
(* scratch_runtime_task t: the sound blocks of its scripts, and its end.    *)

InStep(t) == task[t] = "run" /\ fetch[t] = None

\* A block that starts a sound: it is there, or it failed before; or it is
\* looked for on the net, also when both tests whether it is there could not
\* get the mutex.
PlayBlock(t, s) ==
  /\ InStep(t) /\ Play(s)
  /\ UNCHANGED <<wifi, control, runtime>> /\ InTime
FetchBlock(t, s) ==
  /\ InStep(t) /\ fetch' = [fetch EXCEPT ![t] = s]
  /\ \/ sound[s] = "absent" /\ InTime
     \/ sound[s] # "absent" /\ Broken("sound")
  /\ UNCHANGED <<wifi, mixer, control, running, done, task>>
FetchEnds(t) ==
  /\ fetch[t] \in Sounds /\ fetch' = [fetch EXCEPT ![t] = None]
  /\ \/ FetchFailed(fetch[t]) /\ InTime
     \/ radio = "up" /\ Fetched(fetch[t]) /\ InTime
     \/ radio = "up" /\ FetchedInVain(fetch[t]) /\ Broken("sound")
  /\ UNCHANGED <<wifi, control, running, done, task>>
StopBlock(t, s) ==
  /\ InStep(t) /\ StopSound(s)
  /\ UNCHANGED <<wifi, control, runtime>> /\ InTime

\* scratch_running was reset, or the project stopped; cleanupScratchProject, and
\* in it cleanupAudio, is then part of the last step.
Leave(t) ==
  /\ InStep(t) /\ running' = FALSE /\ task' = [task EXCEPT ![t] = "exit"]
  /\ UNCHANGED mixer \/ Cleaned
  /\ UNCHANGED <<wifi, control, done, fetch>> /\ InTime
\* The helper has ended: the token, and the task deletes itself.
Exit(t) ==
  /\ task[t] = "exit" /\ task' = [task EXCEPT ![t] = "none"] /\ done' = TRUE
  /\ UNCHANGED <<wifi, mixer, control, running, fetch>> /\ InTime
-----------------------------------------------------------------------------
Menu == Boot \/ ScanWifi \/ PlayFromQr \/ Connected \/ PlayFromSd \/ LoadFromSd
        \/ DownloadEnds \/ PlayUi
Game == Begin \/ (\E s \in Sounds : LoadSound(s)) \/ Start \/ StartFails
        \/ Overlay \/ OverlayEnds \/ GameOver \/ Join \/ StopSounds \/ FreeAssets
Runtime(t) ==
  \/ \E s \in Sounds : PlayBlock(t, s) \/ FetchBlock(t, s) \/ StopBlock(t, s)
  \/ FetchEnds(t) \/ Leave(t) \/ Exit(t)
\* The event task, the radio and the mixer.
Others ==
  \/ (WifiEvent \/ Network) /\ UNCHANGED <<mixer, control, runtime, slow>>
  \/ Mix /\ UNCHANGED <<wifi, control, runtime, slow>>

Next == Menu \/ Game \/ Others \/ \E t \in Tasks : Runtime(t)
Spec == Init /\ [][Next]_vars
-----------------------------------------------------------------------------
(* Properties.                                                             *)

\* The variables stay in range, and a sound is downloaded by a runtime only.
TypeOK ==
  /\ WifiTypeOK /\ MixerTypeOK
  /\ app \in {"boot", "menu", "connecting", "load", "download", "begin", "loading",
              "game", "overlay", "join", "stop", "free"}
  /\ goal \in {"menu", "download"} /\ origin \in {"none", "card", "memory"}
  /\ running \in BOOLEAN /\ done \in BOOLEAN
  /\ task \in [Tasks -> {"none", "run", "exit"}]
  /\ fetch \in [Tasks -> Sounds \cup {None}]
  /\ \A t \in Tasks : fetch[t] # None => task[t] = "run"
  /\ slow \subseteq {"join", "cleanup", "sound", "event"}

\* Whatever a game used is freed, and the next one loaded, only when its
\* runtime is gone, whoever ended it and however often the start failed
\* (main.cpp:1586 "Wait for runtime task to fully exit").
TeardownAlone ==
  "join" \notin slow /\ Alive # {} => app \in {"game", "overlay", "join"}

\* What a loaded sound plays from is allocated: the bytes of g_assets are freed
\* "AFTER cleanupAudio" (audio.cpp:166), and no sound is downloaded in a game.
SoundReadsLive ==
  slow \cap {"join", "cleanup", "event"} = {} => \A s \in Sounds : Live(s)

\* Every buffer allocated for a sound belongs to it: none is lost when sprites
\* share a sound or a sound that failed is tried again.
NoSoundLost ==
  slow \cap {"join", "sound"} = {} =>
    \A s \in Sounds : copies[s] = IF sound[s] = "own" THEN 1 ELSE 0

\* In the menu nothing of the last game sounds, "otherwise the mixer keeps
\* playing whatever was active when the game exited" (main.cpp:1593), and no
\* failure of it is remembered.
MenuSilent ==
  app = "menu" /\ slow \cap {"join", "cleanup"} = {} =>
    \A s \in Sounds : sound[s] = "absent" /\ s \notin playing

\* A game "runs offline" (main.cpp:1488): the radio has no link and makes none.
GameOffline ==
  Alive # {} /\ slow \cap {"join", "event"} = {} => radio \in {"off", "on"}
==============================================================================
