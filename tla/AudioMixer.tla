------------------------------ MODULE AudioMixer ------------------------------
(***************************************************************************)
(* The sounds of SoundPlayer and the mixer that plays them                 *)
(* (components/scratch_core/source/audio/esp32/audio.cpp). The map of      *)
(* sounds is under s_audio_mutex, which every caller waits for a limited   *)
(* time and the mixer takes once per buffer, so an operation is one step   *)
(* that may also find its time expired. What a sound plays from is either  *)
(* its own allocation or borrowed from whoever loaded it.                  *)
(***************************************************************************)
EXTENDS Integers, FiniteSets

CONSTANTS
  Sounds,    \* the ids of the project's sounds
  Ui,        \* a sound of the menu (ui_*), embedded in the firmware
  MaxCopies  \* bound: allocations of one sound alive

ASSUME UiIsNoProjectSound == Ui \notin Sounds
ASSUME MaxCopiesNat == MaxCopies \in Nat

VARIABLES
  sound,     \* what s_sounds has for an id: absent, failed, or loaded and playing
             \* from: own, a copy; asset, the bytes of g_assets; raw, the bytes of
             \* a download that is over; flash
  playing,   \* the ids whose playing flag is set
  copies,    \* how many buffers allocated for a sound have not been freed
  suspended, \* s_audio_suspended
  resident   \* the sounds whose bytes are in g_assets

mixer == <<sound, playing, copies, suspended, resident>>

AllSounds == Sounds \cup {Ui}
Sources == {"own", "asset", "raw", "flash"}
Loaded(s) == sound[s] \in Sources

MixerInit ==
  /\ sound = [s \in AllSounds |-> IF s = Ui THEN "flash" ELSE "absent"]
  /\ playing = {} /\ copies = [s \in Sounds |-> 0]
  /\ suspended = FALSE /\ resident = {}

\* s_sounds[s] = from, which forgets what was there without freeing it; a sound
\* that plays from its own memory has just allocated it.
Store(s, from, plays) ==
  /\ sound' = [sound EXCEPT ![s] = from]
  /\ playing' = IF plays THEN playing \cup {s} ELSE playing \ {s}
  /\ copies' = IF from = "own" THEN [copies EXCEPT ![s] = @ + 1] ELSE copies
  /\ UNCHANGED <<suspended, resident>>
\* The bound.
Room(s) == s \in Sounds => copies[s] < MaxCopies
-----------------------------------------------------------------------------
(* Faulty variants of operations below.                                    *)

Decoded_Twice(s, copied) ==
  /\ Room(s)
  /\ \E from \in IF copied THEN {"own"} ELSE {"own", "asset"} : Store(s, from, FALSE)
Cleaned_Stopped ==
  LET kept == {s \in Sounds : s \in playing} IN
  /\ sound' = [s \in AllSounds |-> IF s = Ui \/ s \in kept THEN sound[s] ELSE "absent"]
  /\ playing' = kept
  /\ copies' = [s \in Sounds |-> IF sound[s] = "own" /\ s \notin kept THEN copies[s] - 1 ELSE copies[s]]
  /\ UNCHANGED <<suspended, resident>>
Cleaned_Owned ==
  LET kept == {s \in Sounds : sound[s] \notin {"own", "failed"}} IN
  /\ sound' = [s \in AllSounds |-> IF s = Ui \/ s \in kept THEN sound[s] ELSE "absent"]
  /\ playing' = {}
  /\ copies' = [s \in Sounds |-> IF sound[s] = "own" THEN copies[s] - 1 ELSE copies[s]]
  /\ UNCHANGED <<suspended, resident>>
-----------------------------------------------------------------------------
(* mixer_task: some of the sounds being mixed end. Suspended, it mixes only *)
(* the menu's.                                                              *)
Mix ==
  /\ \E ended \in SUBSET {s \in playing : Loaded(s) /\ (suspended => s = Ui)} :
       ended # {} /\ playing' = playing \ ended
  /\ UNCHANGED <<sound, copies, suspended, resident>>

\* playSound and the loaded branch of startSoundLoaderThread.
Play(s) ==
  /\ Loaded(s) /\ playing' = playing \cup {s}
  /\ UNCHANGED <<sound, copies, suspended, resident>>
StopSound(s) ==
  /\ playing' = playing \ {s}
  /\ UNCHANGED <<sound, copies, suspended, resident>>
SetSuspended(b) == suspended' = b /\ UNCHANGED <<sound, playing, copies, resident>>

\* loadSoundFromMemory behind the test that the sound is new. A 16-bit mono WAV
\* and an MP3 are played from the bytes of the asset unless those are copied;
\* other WAVs are decoded to a buffer of their own.
Decoded(s, copied) ==
  /\ Room(s) /\ sound[s] = "absent"
  /\ \E from \in IF copied THEN {"own"} ELSE {"own", "asset"} : Store(s, from, FALSE)
\* The same when the test could not get the mutex: whatever is there is lost.
DecodedBlindly(s, copied) ==
  /\ Room(s)
  /\ \E from \in IF copied THEN {"own"} ELSE {"own", "asset"} : Store(s, from, FALSE)
\* The bytes are no sound, or there is no memory for it.
Undecodable(s) == sound[s] = "absent" /\ Store(s, "failed", FALSE)

\* startSoundLoaderThread behind its download: nothing came, or nothing that
\* can be decoded; or a sound, which starts at once. The encoded bytes are freed
\* as soon as they are decoded, whether the sound plays from them or not.
FetchFailed(s) == Store(s, "failed", FALSE)
Fetched(s) == Room(s) /\ \E from \in {"own", "raw"} : Store(s, from, TRUE)
\* The mutex was not free to store it.
FetchedInVain(s) ==
  /\ Room(s) /\ copies' = [copies EXCEPT ![s] = @ + 1]
  /\ UNCHANGED <<sound, playing, suspended, resident>>

\* cleanupAudio: all but the menu's sounds are stopped, freed and erased.
Cleaned ==
  /\ sound' = [s \in AllSounds |-> IF s = Ui THEN sound[s] ELSE "absent"]
  /\ playing' = {}
  /\ copies' = [s \in Sounds |-> IF sound[s] = "own" THEN copies[s] - 1 ELSE copies[s]]
  /\ UNCHANGED <<suspended, resident>>

\* g_assets is filled by a download and freed by free_assets.
SetResident(S) == resident' = S /\ UNCHANGED <<sound, playing, copies, suspended>>
-----------------------------------------------------------------------------
MixerTypeOK ==
  /\ sound \in [AllSounds -> Sources \cup {"absent", "failed"}]
  /\ playing \subseteq AllSounds /\ copies \in [Sounds -> 0..MaxCopies]
  /\ suspended \in BOOLEAN /\ resident \subseteq Sounds

\* What a sound plays from is allocated.
Live(s) ==
  CASE sound[s] = "asset" -> s \in resident
    [] sound[s] = "raw" -> FALSE
    [] sound[s] = "own" -> copies[s] > 0
    [] OTHER -> TRUE
===============================================================================
