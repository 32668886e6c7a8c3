-------------------------- MODULE ProjectStoreProofs --------------------------
(***************************************************************************)
(* Proofs about ProjectStore, for any projects, versions and assets. The   *)
(* invariant Inv says what the card and the memory hold at every point of  *)
(* a download: what is not to do any more is whole where it belongs, unless *)
(* a loss has been recorded, and a game being written is not a good one.   *)
(***************************************************************************)
EXTENDS ProjectStore, TLAPS

\* Only a game that is being written or deleted is touched.
OnlyOwn ==
  pc \in {"json", "resave", "save", "delete"} \/ (pc = "assets" /\ Streaming)
    => pid \notin good
\* A project is streamed to its own directory or is in memory, never half.
Mode ==
  /\ pc \in {"setup", "json", "resave", "save"} => sdid = None
  /\ pc \in {"assets", "run"} => sdid \in {None, pid}
  /\ pc \in {"setup", "json"} \/ (pc \in {"assets", "run"} /\ Streaming) => memory = Nothing
  /\ writing # Closed => pc = "save" \/ (pc = "assets" /\ Streaming)
Open == writing # Closed =>
  writing.asset \in todo /\ (writing.got = "whole" \/ "net" \in lost)
OnCard ==
  /\ pc \in {"json", "resave"} => json[pid] = "cut"
  /\ pc = "save" \/ (pc \in {"assets", "run"} /\ Streaming) =>
       /\ json[pid] = version \/ (json[pid] = "cut" /\ "json" \in lost)
       /\ lost \subseteq {"json"} =>
            \A a \in Needs[version] :
              files[pid][a] = "whole" \/ (pc # "run" /\ a \in todo)
InRam ==
  /\ pc \in {"assets", "resave", "save"} =>
       \A a \in Assets : memory[a] = "cut" => "net" \in lost
  /\ pc \in {"assets", "resave", "save", "run"} /\ sdid = None /\ "net" \notin lost =>
       \A a \in Needs[version] : memory[a] = "whole" \/ (pc = "assets" /\ a \in todo)
  /\ pc = "save" => todo \subseteq InMemory

Inv == TypeOK /\ OnlyOwn /\ Mode /\ Open /\ OnCard /\ InRam /\ GoodIsComplete

LEMMA Initially == Init => Inv
BY NoneIsOther DEF Init, Inv, TypeOK, OnlyOwn, Mode, Open, OnCard, InRam, GoodIsComplete, Has,
   Streaming, Closed, Parts, Nothing, InMemory

\* Recording the loss of project.json keeps the ghost in range.
LEMMA LossOfJson ==
  ASSUME TypeOK, lost' = lost \/ lost' = lost \cup {"json"}
  PROVE  lost' \subseteq {"net", "card", "json"}
BY DEF TypeOK

\* A download writes project.json of its own game first, then the assets; a game
\* becomes good when nothing is left to do and nothing was lost.
LEMMA DownloadKeepsInv ==
  ASSUME Inv, Download PROVE Inv'
<1> USE NeedsType, NoneIsOther, FileStates DEF Inv, TypeOK, OnlyOwn, Mode, Open, OnCard, InRam, GoodIsComplete, Has,
    Streaming, Closed, Parts, Nothing, GoTo, Lose, Forget, Finished, InMemory, Listed, OpenJson, card, ram
<1>1. ASSUME NEW p \in Projects, StartDownload(p) PROVE Inv'
  BY <1>1 DEF StartDownload
<1>2. CASE NoProject
  BY <1>2 DEF NoProject
<1>3. CASE GotProject
  BY <1>3 DEF GotProject
<1>4. CASE NoSetup
  BY <1>4 DEF NoSetup
<1>5. CASE Setup
  BY <1>5 DEF Setup
<1>6. CASE JsonWritten
  <2>1. lost' = lost \/ lost' = lost \cup {"json"}
    BY <1>6, SMT DEF JsonWritten
  <2>2. lost' \subseteq {"net", "card", "json"}
    BY <2>1, LossOfJson
  <2>3. json' \in [Projects -> Versions \cup {"none", "cut"}]
    BY <1>6 DEF JsonWritten
  <2>4. TypeOK'
    BY <1>6, <2>2, <2>3 DEF JsonWritten
  <2>5. OnlyOwn' /\ Mode' /\ Open'
    BY <1>6, <2>1 DEF JsonWritten
  \* Written, or cut by a flush that failed: a loss is recorded.
  <2>6. OnCard'
    BY <1>6 DEF JsonWritten
  <2>7. InRam'
    BY <1>6 DEF JsonWritten
  \* The game being written is not one of the good ones.
  <2>8. pid \notin good
    BY <1>6 DEF JsonWritten
  <2>9. GoodIsComplete'
    BY <1>6, <2>8 DEF JsonWritten
  <2> QED BY <2>4, <2>5, <2>6, <2>7, <2>9
<1>7. ASSUME NEW a \in Assets, Fetch(a) PROVE Inv'
  BY <1>7 DEF Fetch
<1>8. CASE OpenFile
  BY <1>8 DEF OpenFile
<1>9. CASE WriteFile
  <2>1. TypeOK' /\ OnlyOwn' /\ Mode' /\ Open'
    BY <1>9 DEF WriteFile
  \* What arrived whole is whole on the card now.
  <2>2. lost \subseteq {"json"} => files'[pid][writing.asset] = "whole"
    BY <1>9 DEF WriteFile
  <2>3. OnCard'
    BY <1>9, <2>2 DEF WriteFile
  <2>4. InRam'
    BY <1>9 DEF WriteFile
  \* The game being written is not one of the good ones.
  <2>5. pid \notin good
    BY <1>9 DEF WriteFile
  <2>6. GoodIsComplete'
    BY <1>9, <2>5 DEF WriteFile
  <2> QED BY <2>1, <2>3, <2>4, <2>6
<1>10. CASE Skip
  BY <1>10 DEF Skip
<1>11. CASE Downloaded
  <2>1. TypeOK' /\ OnlyOwn' /\ Mode' /\ Open' /\ OnCard' /\ InRam'
    BY <1>11 DEF Downloaded
  <2>2. lost = {} => Has(pid, version)
    BY <1>11 DEF Downloaded
  <2>3. GoodIsComplete'
    BY <1>11, <2>2 DEF Downloaded
  <2> QED BY <2>1, <2>3
<1> QED BY <1>1, <1>2, <1>3, <1>4, <1>5, <1>6, <1>7, <1>8, <1>9, <1>10, <1>11 DEF Download

\* Saving from memory does the same with what memory holds.
LEMMA SaveKeepsInv ==
  ASSUME Inv, Saving PROVE Inv'
<1> USE NeedsType, NoneIsOther, FileStates DEF Inv, TypeOK, OnlyOwn, Mode, Open, OnCard, InRam, GoodIsComplete, Has,
    Streaming, Closed, Parts, Nothing, GoTo, Lose, Forget, Finished, InMemory, Listed, OpenJson, card, ram
<1>1. CASE NotSaved
  BY <1>1 DEF NotSaved
<1>2. CASE Save
  BY <1>2 DEF Save
<1>3. CASE SaveJson
  <2>1. lost' = lost \/ lost' = lost \cup {"json"}
    BY <1>3, SMT DEF SaveJson
  <2>2. lost' \subseteq {"net", "card", "json"}
    BY <2>1, LossOfJson
  <2>3. json' \in [Projects -> Versions \cup {"none", "cut"}]
    BY <1>3 DEF SaveJson
  <2>4. TypeOK'
    BY <1>3, <2>2, <2>3 DEF SaveJson
  <2>5. OnlyOwn' /\ Mode' /\ Open'
    BY <1>3, <2>1 DEF SaveJson
  \* Written, or cut by a flush that failed: a loss is recorded.
  <2>6. OnCard'
    BY <1>3 DEF SaveJson
  <2>7. InRam'
    BY <1>3 DEF SaveJson
  \* The game being written is not one of the good ones.
  <2>8. pid \notin good
    BY <1>3 DEF SaveJson
  <2>9. GoodIsComplete'
    BY <1>3, <2>8 DEF SaveJson
  <2> QED BY <2>4, <2>5, <2>6, <2>7, <2>9
<1>4. ASSUME NEW a \in Assets, SaveAsset(a) PROVE Inv'
  BY <1>4 DEF SaveAsset
<1>5. CASE Saved
  <2>1. TypeOK' /\ OnlyOwn' /\ Mode' /\ Open' /\ OnCard' /\ InRam'
    BY <1>5 DEF Saved
  <2>2. lost = {} => Has(pid, version)
    BY <1>5 DEF Saved
  <2>3. GoodIsComplete'
    BY <1>5, <2>2 DEF Saved
  <2> QED BY <2>1, <2>3
<1> QED BY <1>1, <1>2, <1>3, <1>4, <1>5 DEF Saving

\* Playing reads the card only, deleting takes the game from the good ones, and a
\* reset ends whatever was being written.
LEMMA RestKeepsInv ==
  ASSUME Inv, Library PROVE Inv'
<1> USE NeedsType, NoneIsOther, FileStates DEF Inv, TypeOK, OnlyOwn, Mode, Open, OnCard, InRam, GoodIsComplete, Has,
    Streaming, Closed, Parts, Nothing, GoTo, Lose, Forget, Finished, InMemory, Listed, OpenJson, card, ram
<1>1. ASSUME NEW p \in Projects, PlayFromSd(p) PROVE Inv'
  BY <1>1 DEF PlayFromSd
<1>2. CASE EndGame
  BY <1>2 DEF EndGame
<1>3. ASSUME NEW p \in Projects, StartDelete(p) PROVE Inv'
  BY <1>3 DEF StartDelete
<1>4. CASE DeleteJson
  BY <1>4 DEF DeleteJson
<1>5. ASSUME NEW a \in Assets, DeleteFile(a) PROVE Inv'
  BY <1>5 DEF DeleteFile
<1>6. CASE DeleteEnds
  BY <1>6 DEF DeleteEnds
<1>7. CASE Reset
  BY <1>7 DEF Reset
<1> QED BY <1>1, <1>2, <1>3, <1>4, <1>5, <1>6, <1>7 DEF Library

LEMMA InvIsInductive == Inv /\ [Next]_vars => Inv'
<1> SUFFICES ASSUME Inv, [Next]_vars PROVE Inv'
  OBVIOUS
<1>1. CASE Next
  BY <1>1, DownloadKeepsInv, SaveKeepsInv, RestKeepsInv DEF Next
<1>2. CASE UNCHANGED vars
  BY <1>2 DEF vars, card, ram, Inv, TypeOK, OnlyOwn, Mode, Open, OnCard, InRam, GoodIsComplete, Has,
     Streaming, Closed, Parts, Nothing, InMemory
<1> QED BY <1>1, <1>2

LEMMA Invariance == Spec => []Inv
BY Initially, InvIsInductive, PTL DEF Spec

\* The variables stay in range.
THEOREM TypeCorrect == Spec => []TypeOK
<1>1. Inv => TypeOK
  BY DEF Inv
<1> QED BY <1>1, Invariance, PTL

\* A game downloaded without a loss is complete on the card until it is
\* downloaded again or deleted, whatever else fails (qr_download_project,
\* sd_save_game).
THEOREM GoodGamesStayComplete == Spec => []GoodIsComplete
<1>1. Inv => GoodIsComplete
  BY DEF Inv
<1> QED BY <1>1, Invariance, PTL

\* The resolver reads the directory of the project that runs
\* (g_assets_sd_project_id). The project.json there is never that of another
\* version: it is the one that was loaded, or is cut because fclose could not
\* flush it (sd_game_save_json, sd_save_game).
THEOREM DirectoryMatches == Spec => []OwnDirectory
<1>1. Inv => OwnDirectory
  BY DEF Inv, Mode, OnCard, OwnDirectory, Streaming
<1> QED BY <1>1, Invariance, PTL

\* A game of which nothing was lost finds all its assets.
THEOREM AssetsAreFound == Spec => []RunFindsAssets
<1>1. Inv => RunFindsAssets
  <2> SUFFICES ASSUME Inv, pc = "run", "net" \notin lost, sdid # None => "card" \notin lost,
                      NEW a \in Needs[version]
               PROVE  \/ memory[a] = "whole"
                      \/ memory[a] = "none" /\ sdid # None /\ files[sdid][a] = "whole"
    BY DEF RunFindsAssets
  <2>1. CASE sdid = None
    BY <2>1 DEF Inv, InRam
  <2>2. CASE sdid # None
    <3>1. sdid = pid /\ memory = Nothing /\ a \in Assets
      BY <2>2, NeedsType DEF Inv, TypeOK, Mode, Streaming
    <3>2. lost \subseteq {"json"}
      BY <2>2 DEF Inv, TypeOK
    <3> QED BY <2>2, <3>1, <3>2 DEF Inv, OnCard, Streaming, Nothing
  <2> QED BY <2>1, <2>2
<1> QED BY <1>1, Invariance, PTL
================================================================================
