----------------------------- MODULE ProjectStore -----------------------------
(***************************************************************************)
(* Projects downloaded to the card and played from it (main/main.cpp       *)
(* 1017-1310, main/sd_storage.cpp). A game is a directory with             *)
(* project.json and one file per asset. A download writes project.json     *)
(* and then each asset as it arrives, or keeps the assets in memory when   *)
(* that cannot be begun and saves them at the end. Every write can fail,   *)
(* at fopen, at fwrite or unnoticed when fclose flushes it; every answer   *)
(* of the server can be missing or cut short, and the device can be        *)
(* switched off between any two steps.                                     *)
(***************************************************************************)
EXTENDS FiniteSets

CONSTANTS
  Projects,
  Assets,    \* named by the hash of what is in them
  Versions,  \* of a project: its author can change it between two downloads
  Needs,     \* the assets a version names
  None

ASSUME NeedsType == Needs \in [Versions -> SUBSET Assets]
ASSUME NoneIsOther == None \notin Projects \cup Assets \cup Versions
ASSUME FileStates == {"none", "cut"} \cap Versions = {}

VARIABLES
  json,     \* project.json of a game: none, cut, or the version it holds
  files,    \* the files of its assets: none, cut or whole
  mounted,  \* s_mounted
  pc, pid,  \* what app_main does, and with which project
  version,  \* g_project_json, None: there is none
  sdid,     \* g_assets_sd_project_id
  memory,   \* g_assets
  todo,     \* the assets to be fetched or saved
  writing,  \* the asset whose file is open, and what of it has arrived
  lost,     \* ghost: what was lost of this game: an asset by the net or the card,
            \* or project.json
  good      \* ghost: the games downloaded without a loss, not touched since

card == <<json, files, mounted>>
ram == <<version, sdid, memory>>
vars == <<card, pc, pid, ram, todo, writing, lost, good>>

Parts == {"none", "cut", "whole"}
Nothing == [a \in Assets |-> "none"]
Closed == [asset |-> None, got |-> "none"]
Streaming == sdid = pid
Forget == version' = None /\ sdid' = None /\ memory' = Nothing
Lose(where) == lost' = lost \cup where
GoTo(s) == pc' = s

Init ==
  /\ json = [p \in Projects |-> "none"] /\ files = [p \in Projects |-> Nothing]
  /\ mounted \in BOOLEAN /\ pc = "menu" /\ pid = None
  /\ version = None /\ sdid = None /\ memory = Nothing
  /\ todo = {} /\ writing = Closed /\ lost = {} /\ good = {}

\* fopen "w" of project.json: what it held is gone.
OpenJson(s) ==
  /\ mounted /\ json' = [json EXCEPT ![pid] = "cut"] /\ good' = good \ {pid} /\ GoTo(s)
  /\ UNCHANGED <<files, mounted, pid, ram, todo, writing, lost>>
-----------------------------------------------------------------------------
(* Faulty variants of actions below.                                       *)

Fetch_OnlyMissing(a) ==
  /\ pc = "assets" /\ writing = Closed /\ a \in todo
  /\ IF Streaming /\ files[pid][a] # "none"
     THEN todo' = todo \ {a} /\ UNCHANGED <<writing, lost, memory>>
     ELSE \E got \in Parts :
          /\ Lose(IF got = "whole" THEN {} ELSE {"net"})
          /\ IF Streaming /\ got # "none"
             THEN writing' = [asset |-> a, got |-> got] /\ UNCHANGED <<todo, memory>>
             ELSE /\ todo' = todo \ {a} /\ UNCHANGED writing
                  /\ memory' = IF Streaming \/ got = "none" THEN memory ELSE [memory EXCEPT ![a] = got]
  /\ UNCHANGED <<card, pc, pid, version, sdid, good>>
NoSetup_Regardless ==
  /\ pc = "setup" /\ GoTo("assets") /\ todo' = Needs[version] /\ sdid' = pid
  /\ UNCHANGED <<card, pid, version, memory, writing, lost, good>>
NoProject_GoOn ==
  /\ pc = "fetch" /\ GoTo("setup") /\ version' = None
  /\ UNCHANGED <<card, pid, sdid, memory, todo, writing, lost, good>>
Skip_Silently ==
  /\ pc \in {"assets", "save"} /\ writing # Closed
  /\ writing' = Closed /\ todo' = todo \ {writing.asset}
  /\ UNCHANGED <<card, pc, pid, ram, lost, good>>
-----------------------------------------------------------------------------
(* qr_download_project.                                                    *)

StartDownload(p) ==
  /\ pc = "menu" /\ GoTo("fetch") /\ pid' = p /\ lost' = {}
  /\ UNCHANGED <<card, ram, todo, writing, good>>
\* No answer, or one that cannot be parsed, as when it is cut.
NoProject ==
  /\ pc = "fetch" /\ GoTo("menu") /\ version' = None
  /\ UNCHANGED <<card, pid, sdid, memory, todo, writing, lost, good>>
\* The project is there; what g_assets had is freed.
GotProject ==
  /\ pc = "fetch" /\ GoTo("setup") /\ version' \in Versions
  /\ sdid' = None /\ memory' = Nothing
  /\ UNCHANGED <<card, pid, todo, writing, lost, good>>
\* sd_game_begin or the fopen of sd_game_save_json fails: assets stay in memory.
NoSetup ==
  /\ pc = "setup" /\ GoTo("assets") /\ todo' = Needs[version]
  /\ UNCHANGED <<card, pid, ram, writing, lost, good>>
Setup == pc = "setup" /\ OpenJson("json")
\* project.json is written, is cut by a short write, or is cut because the flush
\* in fclose fails; nobody asks for the result of that.
JsonWritten ==
  /\ pc = "json" /\ GoTo("assets") /\ todo' = Needs[version]
  /\ \/ json' = [json EXCEPT ![pid] = version] /\ sdid' = pid /\ UNCHANGED lost
     \/ UNCHANGED <<json, sdid, lost>>
     \/ UNCHANGED json /\ sdid' = pid /\ Lose({"json"})
  /\ UNCHANGED <<files, mounted, pid, version, memory, writing, good>>

\* An asset is missing and skipped, or arrives; a connection that breaks cuts it
\* and counts as success.
Fetch(a) ==
  /\ pc = "assets" /\ writing = Closed /\ a \in todo
  /\ \E got \in Parts :
       /\ Lose(IF got = "whole" THEN {} ELSE {"net"})
       /\ IF Streaming /\ got # "none"
          THEN writing' = [asset |-> a, got |-> got] /\ UNCHANGED <<todo, memory>>
          ELSE /\ todo' = todo \ {a} /\ UNCHANGED writing
               /\ memory' = IF Streaming \/ got = "none" THEN memory
                            ELSE [memory EXCEPT ![a] = got]
  /\ UNCHANGED <<card, pc, pid, version, sdid, good>>

\* The file of an asset, here and in sd_save_game: fopen "wb" leaves it empty;
\* the write fills it or is short. Either can fail and the asset is skipped; one
\* whose flush fails is left in the same state and counts as saved.
OpenFile ==
  /\ pc \in {"assets", "save"} /\ writing # Closed /\ files[pid][writing.asset] # "cut"
  /\ files' = [files EXCEPT ![pid][writing.asset] = "cut"]
  /\ UNCHANGED <<json, mounted, pc, pid, ram, todo, writing, lost, good>>
WriteFile ==
  /\ pc \in {"assets", "save"} /\ writing # Closed /\ files[pid][writing.asset] = "cut"
  /\ files' = [files EXCEPT ![pid][writing.asset] = writing.got]
  /\ writing' = Closed /\ todo' = todo \ {writing.asset}
  /\ UNCHANGED <<json, mounted, pc, pid, ram, lost, good>>
Skip ==
  /\ pc \in {"assets", "save"} /\ writing # Closed
  /\ writing' = Closed /\ todo' = todo \ {writing.asset} /\ Lose({"card"})
  /\ UNCHANGED <<card, pc, pid, ram, good>>

\* Ghost: the game is good if nothing was lost.
Finished == good' = IF lost = {} THEN good \cup {pid} ELSE good
\* Streamed: save_current_project_to_sd has nothing to do.
Downloaded ==
  /\ pc = "assets" /\ writing = Closed /\ todo = {} /\ Streaming
  /\ GoTo("run") /\ Finished
  /\ UNCHANGED <<card, pid, ram, todo, writing, lost>>
-----------------------------------------------------------------------------
(* save_current_project_to_sd and sd_save_game.                            *)

InMemory == {a \in Assets : memory[a] # "none"}
\* Nothing to save, no card, or project.json cannot be opened.
NotSaved ==
  /\ pc = "assets" /\ todo = {} /\ ~Streaming /\ GoTo("run")
  /\ UNCHANGED <<card, pid, ram, todo, writing, lost, good>>
Save ==
  /\ pc = "assets" /\ todo = {} /\ ~Streaming /\ InMemory # {}
  /\ OpenJson("resave")
\* A short write of project.json ends it, a failed mkdir of assets too; a flush of
\* project.json that fails does not.
SaveJson ==
  /\ pc = "resave"
  /\ \/ /\ GoTo("save") /\ todo' = InMemory
        /\ \/ json' = [json EXCEPT ![pid] = version] /\ UNCHANGED lost
           \/ UNCHANGED json /\ Lose({"json"})
     \/ /\ GoTo("run") /\ UNCHANGED <<todo, lost>>
        /\ json' \in {json, [json EXCEPT ![pid] = version]}
  /\ UNCHANGED <<files, mounted, pid, ram, writing, good>>
SaveAsset(a) ==
  /\ pc = "save" /\ writing = Closed /\ a \in todo
  /\ writing' = [asset |-> a, got |-> memory[a]]
  /\ UNCHANGED <<card, pc, pid, ram, todo, lost, good>>
Saved ==
  /\ pc = "save" /\ writing = Closed /\ todo = {} /\ GoTo("run") /\ Finished
  /\ UNCHANGED <<card, pid, ram, todo, writing, lost>>
-----------------------------------------------------------------------------
(* Playing, listing and deleting.                                          *)

\* sd_list_games: a project.json is enough.
Listed(p) == mounted /\ json[p] # "none"
\* load_game_from_sd; a project.json that cannot be read or parsed ends it.
PlayFromSd(p) ==
  /\ pc = "menu" /\ Listed(p) /\ pid' = p /\ memory' = Nothing
  /\ \/ /\ json[p] \in Versions /\ version' = json[p] /\ sdid' = p /\ GoTo("run")
     \/ version' = None /\ sdid' = None /\ GoTo("menu")
  /\ lost' = IF p \in good THEN {} ELSE {"card"} \* ghost
  /\ UNCHANGED <<card, todo, writing, good>>
\* The game is over: free_assets.
EndGame ==
  /\ pc = "run" /\ GoTo("menu") /\ Forget
  /\ UNCHANGED <<card, pid, todo, writing, lost, good>>

\* sd_delete_game, file by file in the order of the directory.
StartDelete(p) ==
  /\ pc = "menu" /\ Listed(p) /\ GoTo("delete") /\ pid' = p /\ good' = good \ {p}
  /\ UNCHANGED <<card, ram, todo, writing, lost>>
DeleteJson ==
  /\ pc = "delete" /\ json[pid] # "none" /\ json' = [json EXCEPT ![pid] = "none"]
  /\ UNCHANGED <<files, mounted, pc, pid, ram, todo, writing, lost, good>>
DeleteFile(a) ==
  /\ pc = "delete" /\ files[pid][a] # "none"
  /\ files' = [files EXCEPT ![pid][a] = "none"]
  /\ UNCHANGED <<json, mounted, pc, pid, ram, todo, writing, lost, good>>
\* All are visited; one that cannot be removed stays.
DeleteEnds ==
  /\ pc = "delete" /\ GoTo("menu")
  /\ UNCHANGED <<card, pid, ram, todo, writing, lost, good>>

\* Switched off and on again; the card may not be there.
Reset ==
  /\ GoTo("menu") /\ Forget /\ mounted' \in BOOLEAN
  /\ todo' = {} /\ writing' = Closed
  /\ UNCHANGED <<json, files, pid, lost, good>>

Download ==
  \/ \E p \in Projects : StartDownload(p)
  \/ NoProject \/ GotProject \/ NoSetup \/ Setup \/ JsonWritten
  \/ \E a \in Assets : Fetch(a)
  \/ OpenFile \/ WriteFile \/ Skip \/ Downloaded
Saving ==
  \/ NotSaved \/ Save \/ SaveJson \/ Saved
  \/ \E a \in Assets : SaveAsset(a)
Library ==
  \/ \E p \in Projects : PlayFromSd(p) \/ StartDelete(p)
  \/ \E a \in Assets : DeleteFile(a)
  \/ EndGame \/ DeleteJson \/ DeleteEnds \/ Reset
Next == Download \/ Saving \/ Library
Spec == Init /\ [][Next]_vars
-----------------------------------------------------------------------------
(* Properties.                                                             *)

\* The variables stay in range; while the device works with a project it has one.
TypeOK ==
  /\ json \in [Projects -> Versions \cup {"none", "cut"}]
  /\ files \in [Projects -> [Assets -> Parts]] /\ mounted \in BOOLEAN
  /\ pc \in {"menu", "fetch", "setup", "json", "assets", "resave", "save", "run", "delete"}
  /\ pid \in Projects \cup {None} /\ (pc # "menu" => pid \in Projects)
  /\ version \in Versions \cup {None} /\ (pc \notin {"menu", "fetch", "delete"} => version # None)
  /\ sdid \in Projects \cup {None} /\ memory \in [Assets -> Parts]
  /\ todo \subseteq Assets
  /\ writing \in [asset : Assets \cup {None}, got : Parts]
  /\ (writing.asset = None => writing = Closed)
  /\ lost \subseteq {"net", "card", "json"} /\ good \subseteq Projects

\* Has(p, v): the card holds version v of p with all its assets.
Has(p, v) == json[p] = v /\ \A a \in Needs[v] : files[p][a] = "whole"
\* A game downloaded without a loss is complete on the card, whatever earlier
\* downloads, resets and deletions left there, and it stays so until it is
\* downloaded again or deleted; a download that fails leaves it alone.
GoodIsComplete == \A p \in good : \E v \in Versions : Has(p, v)

\* A game runs from the directory of its own project or from memory. The
\* project.json there is the one loaded, never that of another version; it is cut
\* only when its flush failed unnoticed.
OwnDirectory ==
  pc = "run" /\ sdid # None =>
    /\ sdid = pid
    /\ json[pid] = version \/ (json[pid] = "cut" /\ "json" \in lost)

\* A game of which nothing was lost finds every asset it names, right after its
\* download and when it is played from the card later. One that runs from memory
\* does not need the card.
RunFindsAssets ==
  pc = "run" /\ "net" \notin lost /\ (sdid # None => "card" \notin lost) =>
    \A a \in Needs[version] :
      memory[a] = "whole" \/ (memory[a] = "none" /\ sdid # None /\ files[sdid][a] = "whole")
===============================================================================
