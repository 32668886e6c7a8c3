# sb3tab: models, checks and proofs

sb3tab runs Scratch projects on an ESP32-P4 tablet. This directory holds TLA+
models of the parts of it whose correctness depends on order and timing, the TLC
configurations that check them on small instances, and TLAPS proofs of the safety
properties for every instance. Paths below are relative to `src/`;
`runtime/` stands for `components/scratch_core/source/runtime/`.

## 1. The system

| Component | State | Operations | Hard behaviour |
|---|---|---|---|
| **Frame pipeline** (`main/main.cpp` 500-770, 1310-1340; `main/dsi_display.cpp` 390-488) | two stage framebuffers, two panel framebuffers, eight binary semaphores, `scratch_running`, `scratch_paused` | runtime task on Core 1, render helper on Core 0, pause overlay, PPA and vsync interrupts | two tasks that wait for each other without a timeout, asynchronous copies, timed waits whose result is ignored |
| **Sprites and clones** (`runtime/runtime.cpp`, `runtime/blocks/control.cpp`, `looks.cpp`) | `Scratch::sprites`, the cached `layer` of a sprite, `cloneQueue`, `cloneCount`, `toDelete` | create clone, delete clone, four layer blocks, stop all, the sweep at the end of a frame | scripts change the list while the executor iterates over it |
| **Block executor** (`runtime/blockExecutor.cpp`, `control.cpp`, `events.cpp`, `procedures.cpp`) | `blocksToRepeat` of a chain, `repeatTimes`, `customBlockPtr`, `broadcastsRun`, `broadcastQueue`, the C++ stack | hats, loops, waits, custom blocks, broadcasts, stop | scripts are coroutines made of abandoned stacks and queues |
| **Costume cache** (`main/sw_renderer.cpp` 160-414, 517-590, 870-938) | `costumes`, `lruList`, `totalRgbaBytes`, `decodeFailed`, `costumeLock` | load, find or decode, evict, read, clear | two cores draw; pixels are read outside of the mutex |
| **Game lifecycle** (`main/main.cpp` 772-1007, 1440-1648) | `scratch_running`, `s_runtime_done`, the loaded project | load, start the task, wait, tear down | the wait for the task gives up after 2 s |
| **Audio mixer** (`components/scratch_core/source/audio/esp32/audio.cpp`) | `s_sounds` under `s_audio_mutex` | mixer task, loader task, play, stop, cleanup | borrowed buffers, cleanup that times out |
| **WiFi** (`main/wifi_manager.cpp`) | `s_connected`, event group, `s_wifi_lock` | connect, disconnect, event handler, HTTP | late and stale events, an event group deleted under the handler that is about to use it |
| **Download and store** (`main/main.cpp` 1017-1310, `main/sd_storage.cpp`) | files of a game on the card, `g_assets` | download, list, load, delete | reset between two writes, failed assets skipped, writes that fail unnoticed in `fclose` |
| **Display ownership** (`main/ui_menu.cpp`, `camera_qr.cpp`, `dsi_modal.cpp`) | `s_flush_disabled`, `s_lvgl_mutex` | menu, camera, modal and game take turns | a flag without a handshake |
| **Input** (`main/input_*.cpp`, `touch_input.cpp`) | reports of the devices, held keys | report, poll, merge | devices come and go |
| **Everything else** | see `PROJECT.json` "components" | parser, values and operators, collision, pixels, codec, menu screens, other platforms, vendored code | sequential, drivers, or not built |

How they interact. `app_main` runs the menu, loads a project (parser, sounds,
costumes) and creates the runtime task. The runtime task alternates
`stepScratchProject` (block executor on the sprite list) with the drawing of a
frame, which it shares with the helper by semaphores; both read costumes through
the cache. A finished frame is handed to `dsi_display_update`, which starts the
PPA and waits for vsync on a later call. While a game runs `app_main` polls for
the pause buttons and paints an overlay on the same panel. The mixer task reads
the sounds the blocks start. After the game `app_main` waits for the task, stops
the sounds, deletes the sprites and clears the cache, in this order.

What makes each part correct:

* Frame pipeline: one core at a time on a framebuffer except in the shared drawing
  window; each frame cleared, composed and published once; no deadlock; leaving a
  game ends both tasks; a copy never reads a buffer being drawn or writes one
  being shown; an overlay has the panel to itself.
* Sprite list: nothing lost or duplicated, the stage last, the cached layer equal
  to the position whenever it is used as an index, every clone started, the clone
  count right.
* Block executor: blocks run in the order of their nesting, whatever is waiting;
  a caller goes on after its procedure, broadcast-and-wait after its receivers;
  no part of a script goes on running without its caller; a frame ends.
* Costume cache: bytes counted equal bytes held; the budget kept; pixels in use
  evicted last.
* Lifecycle: nothing freed while its user runs. Audio: a buffer outlives its
  sound. WiFi: the reported state is that of the current attempt. Store: what is
  listed can be loaded. Ownership: one writer of the panel.

## 2. The models

### FramePipeline, with DoubleBuffer as its abstraction

`rt`, `hp` and `app` say where the runtime task, the helper and `app_main` stand;
an action is the code between two synchronisation points of one of them
(`RtWaitClear` is `xSemaphoreTake(s_render_done)`, `HpDraw` the even sprites and
the give of `s_spr_done`). `sem` holds the eight binary semaphores. `cur` is
`currentFb`, `back` is `s_dpi_back_idx`, `pend`/`scan` the panel buffers submitted
and shown, `ppa` the copy in progress. `PpaDone` and `Vsync` are the interrupt
callbacks. `DoubleBuffer` says what this is for: a buffer goes from stale to
clearing, cleared, composing, and is published. `FramesAreWhole` is
`DoubleBuffer!Spec` under the refinement mapping `target <- currentFb`,
`phase <- Phase`.

Two constants name assumptions about time that the code makes and does not
enforce: `PpaTimely` (an operation of the PPA ends within the 100 ms that
`dsi_display_update` waits) and `GraceCovers` (the fixed 50 ms after
`scratch_paused` is set outlasts the frame in flight, and the 50 ms wait for vsync
does not expire). A timed wait may expire at any time when its constant is FALSE.

Abstracted: what is drawn, and the step (one action that may end the project).
The helper's creation succeeds. A `std::bad_alloc` caught around the step
(`main.cpp` 633) ends the step early and is one of its outcomes. When Start and Back are pressed at the same poll
the code shows two dialogues one after the other; the model takes two polls.
`Join` waits without the limit of 2 s, which is the subject of GameSession.

### SpriteList

`sprites` and `layer` are the list and the cached distances from the back. A
script is opaque apart from the blocks that change the list, so any sprite may
run any sequence of `CreateClone`, `DeleteThisClone`, `GoToPosition` and
`StopAll`. The rest are the loops of a frame that iterate over the list: key hats,
click hats, starts of clones, broadcast and backdrop dispatch, and the repeat pass
with the sweep that ends it. `loop` is the iteration in progress: over a copy, over
the list itself (which is read again after each change) or over memory the list has
left. `StopAll` deletes the clones one by one, as its loop does.

Limits: there is memory for what a script allocates, so no `std::bad_alloc` ends a
loop or a `create clone of` in the middle; `create clone of` the stage by a script of the stage is left out; a visit of
a sprite that was freed is modelled as skipping it, one of the outcomes of reading
freed memory; the shift of a layer block is any target position, its conversion
from a number is left out. `DeleteOnce` excludes a script that deletes its clone
twice (possible inside an `if`), after which the count is too low.

### BlockExecutor, with Scripts as its abstraction

`cs` is the C++ stack of `runBlock` calls, `rep` the queues `blocksToRepeat`.
A handler is one action up to its nested `runBlock` and another from its return
(`If`/`IfBack`, `Repeat`/`RepeatBack`, `Call`/`Drain`/`CallBack`). The handlers of
the code decide what to do by the *last* entry of a queue and drop the last entry
whoever calls: `Removed` does the same. `Input` to `FrameDone` are the frame:
hats of new events, broadcasts, one visit of every chain.

`Scripts` says what running a program means, without stack or queues: a token per
chain walks the blocks; a loop is met again when its body has ended; a call is left
when its procedure has ended. `ScriptsFollowed` is `Scripts!Spec` with the token
computed from stack and queues (`Where`, of each chain its `Token`) and the
repetitions left from `repeatTimes` (`Pending`; `Begun` accounts for the code counting
a body when it is left).

`WellFormed` is what every program satisfies by the way the parser builds chains:
bodies nested without a cycle, one chain per block, a head per chain. `Sequential` and
`OneSender` are not guaranteed by anything: they are the hypotheses of the theorems
(section 4). The blocks around a block, the call graph of a chain and the chains
running on behalf of one are smallest closed sets, so no definition is recursive.

`MCBlockExecutor` enumerates *every* well-formed program over a set of block kinds
up to a size, so the runs are exhaustive in the programs as well as in the
schedules: scripts of up to `MainSize` blocks over `ControlOps`, and scripts of up to
`CallSize` blocks over `MainOps` with a procedure over `ProcOps` or a receiver over
`RecvOps`, each of up to `SubSize` blocks (`Mixed` lets one script have both).
Conditions, repetition counts, timers and the order of a hash table are
nondeterministic.

Limits: there is memory for what a script allocates. `scratch_runtime_task` catches
`std::bad_alloc` around the step (`main.cpp` 624-637); thrown in the middle of a script
it unwinds the C++ stack and touches no queue, so a procedure can be left in its queue
without its caller, and `NoOrphan` and `ScriptsFollowed` say nothing of a run in which
that has happened. Also: one sprite, not a clone; in the runs one caller of a procedure, one receiver
of a message, and `stop all` and `stop other scripts` not in procedures (the hazards
in `PROJECT.json` say what happens there); backdrop waits, hats that repeat while a
key is held and clone deletion are left out. Motion, looks, data and sensing
blocks are the one action `Do`.

### CostumeCache

`rgba[c]` is where the pixels of a costume are, `lruList` and `total` the
bookkeeping. The mutex is modelled: `Decode` takes it, each eviction is a step
(`EvictOne`) during which the other core may start or go on reading, `Unlock`
returns. A core that came back (`ready`) reads the pointer (`BlitBegin`) and the
pixels (`BlitDone`) without the mutex. Reading is at any time outside the mutex,
because both the drawing of sprites and a collision test in a step beside the
drawing of the backdrop put the two cores there at once. `since` is a history
variable: the costumes others used since a core found its own. Loading, playing and
`clearCostumes` alternate. A decode may fail at any time.

`copied[k]` is the copy of small costumes that core `k` keeps in internal SRAM
(`s_iram_cache`), keyed by the address of the pixels it was made of (`at`). The
heap gives an address out again after it was freed, so `at` does not name a costume;
`of` remembers which it was, and the ghost `stale` that the pixels at `at` were freed
since. Nothing resets the key, not even `clearCostumes`: the model has the code draw
the old costume in that case, and `CopyIsOfDrawn` says it happens in no other.

The bytes of a set of costumes (`Bytes`) are counted as the cardinality of the set of
their pixels. Left out: what the pixels show, and `loadCostume`, which nothing calls.

### GameSession, composed of WifiManager and AudioMixer

The life of the device outside of a frame. `app` is where `app_main` stands: menu,
connecting, loading from the card, downloading, loading, game, overlay, and the
teardown in its order (`Join` waits for the token of `s_runtime_done`, `StopSounds`,
`FreeAssets`). `task[t]` is a runtime task; there may be a second one because the
first can outlive its game when the wait of 2 s gives up. Its steps are the blocks
that start, stop or download a sound (`fetch`), its `Leave` and its `Exit`.

`WifiManager` is the connection: `WifiConnect` and `WifiConnectEnd` are the two
halves of `wifi_connect` around its wait, `HandleStart`, `HandleDisconnected` and
`HandleGotIp` the handler in the event task, which meets the events some time after
they were posted. The handler is not under `s_wifi_lock`: it tests whether there is an
event group in these actions (`WillSet`) and uses it in `SetBit`, and `wifi_connect` may
delete the group in between (`dangling`). What the code then does is undefined: in the
model the bit is lost, or is set in the group of the next attempt if that has the same
address; what else a write to freed memory can break is outside the model. The rest of what it does is the driver, taken as external:
`Associate`, `GetAddress` and `LoseLink`, with these assumptions, which are those of
ESP-IDF: events are delivered in the order they were posted; stopping the radio
reports the end of an association there was; starting a radio that is started
reports nothing; an address is reported only while associated.

`AudioMixer` is the map of sounds: what each plays from (`own` memory, the `asset`
bytes of `g_assets`, the `raw` bytes of a download, the flash) and how many buffers
allocated for it are alive (`copies`). A sound is loaded by three critical sections,
each of which can miss the mutex: `Decoded` when all get it, `DecodedBlindly` when
the test missed it.

No wait with a limit is assumed to be long enough: each may expire. The history
variable `slow` records which of the code's assumptions about time has been broken:
`join` (the runtime ends within 2 s), `cleanup` (one of the two calls of
`cleanupAudio` of a teardown gets the mutex), `sound` (another operation gets it in
time), `event` (no event is on its way or being handled when an attempt begins). The end of a
runtime may include `cleanupScratchProject`, so `Leave` may clear the sounds. Each property names
in its hypothesis the assumptions it needs, so it also says which it does not need.

### ProjectStore

The files of the games on the card, `g_assets` in memory, and what `app_main` does
with them: a download that streams each asset to the card or, when the directory or
`project.json` cannot be opened, keeps the assets in memory and saves them at the
end; listing, playing, deleting. A file is missing, cut or whole; `project.json`
holds a version. Opening a file for writing cuts it, writing fills it: a step each.
Any answer may be missing or cut short (`read_body` returns what it has when the
connection breaks), any open or write may fail, and `Reset` may happen at any step and
find the card gone. Two ghosts: `lost` is what this game has lost and where, `good`
the games downloaded without a loss and not touched since.

A write can fail at `fopen`, at `fwrite`, or when `fclose` flushes what is buffered.
Nothing looks at the result of `fclose`, so the third counts as success:
`JsonWritten` goes on streaming beside a `project.json` that is cut and `SaveJson` goes on
to the assets, both recording the loss; a cut asset is the state `Skip` leaves.

Assets are named by their hash, so two versions of a project share the files of the
assets they have in common. Left out: thumbnails and the other small files.

## 3. The runs

| Run | Question and answer | Instance |
|---|---|---|
| `frame_timed` | Under both assumptions on time, is every copy's source and destination intact and does the overlay own the panel? Yes. | the whole system; its state is finite without a bound |
| `frame_untimed` | Without them, do the cores still exclude each other, is every frame whole, does every frame end, does leaving a game reach the menu? Yes. | same, with fairness |
| `frame_grace` | Is the delay of 50 ms enough without the assumption? No: the runtime can have passed its test of `scratch_paused` and still be in `dsi_display_update` (waits of up to 100 and 50 ms). | same |
| `sprite_list` | Is the list well-formed, are layers positions, is no clone forgotten, is the order of the others kept? Yes. | stage, one sprite, two clones |
| `sprite_click` | Does a click script run on its own sprite? No: a click hat that moves its sprite in the list moves it from under the loop's reference. | same |
| `exec_programs` | Is every script run by its nesting? Do callers and senders wait for as long as they must, is nothing left running without its caller? Yes. | all scripts up to 4 control blocks, and all up to 3 blocks with a procedure or a receiver of up to 2; counts up to 2, two events |
| `exec_ends` | Does every frame and every script without an endless loop end? Yes. | scripts up to 3 blocks, procedure and receiver of one |
| `exec_recursion` | Does a frame end when a procedure without screen refresh calls itself? No: the call is in the procedure's own queue, which therefore never empties. | smallest such programs, recursion depth cut at 10 |
| `cache_lru` | Is the accounting exact, the budget kept, a core's own costume kept, are only costumes not used since evicted, and is a copy in SRAM the costume drawn as long as its pixels were not freed? Yes. | 4 costumes of sizes 1, 1, 2, 4, the first two small enough to be copied; budget 3; 3 addresses; two cores |
| `cache_pin` | Do pixels stay while a core reads them? No: the front of the list protects one costume, and there are two cores. | same |
| `session` | Is anything freed under a runtime, does a sound play from freed memory, is a buffer lost, does the menu sound, is a game online, does `s_connected` lie once events are handled? No, under the assumptions on time that each property names. | one sound, two tasks, at most one event on its way when an attempt begins, two buffers of a sound |
| `store` | Does a game downloaded without a loss stay complete through later downloads, failures, resets and deletions, find its assets, and never run beside the `project.json` of another version, nor beside a cut one whose flush did not fail? Yes. | two projects, two versions that share one of two assets |

Why the bounds are enough. The frame pipeline needs none. Sprites: two clones and an
original give every relation between a moving sprite, a moved one and one in a
loop's way; the theorems remove the bound. Programs of four blocks contain every
pair of nested holders with a block behind each; an executor error is about a
holder, what its body leaves in the queue, and what follows. Two events let a
script be hit while it waits. Four costumes are a costume in use, one used since,
one not used since and one that never fits; three is the most that are ever decoded
at once, so three addresses suffice and an address is given out again early. One
sound is enough for `session` because every operation of the mixer treats a sound
by itself or all alike; a second task exists only to outlive the first one's game.
Two projects and two versions give `store` a game to keep while another, or another
version of it, is written. For all these modules the theorems remove the bounds,
under the hypotheses the next section names. `MaxTimes`, `MaxPresses` and the sizes
are the only bounds of BlockExecutor; `MaxPending` and `MaxCopies` bound the events
and buffers of a session, and a third buffer of one sound would already be a second
loss; `Shallow` cuts the recursion of
`exec_recursion` only. The counter of clones is bounded below by `-MaxClones`,
which `DeleteOnce` keeps out of reach.

Fairness. `frame_untimed`: weak fairness of each task, because the tasks run on a
core each and no higher-priority task loops, of the two interrupts, because the
hardware runs on, and of `app_main` except for the player's choices. `exec_ends` and
`exec_recursion`: weak fairness of the executor as a whole, which is one task in a
loop, and strong fairness of a timer's elapsing for each wait block, which is
looked at every frame and measured against a clock. `ScriptsEnd` contains
`FrameEnds`. The other modules state no liveness: what a player, a server or a script
does next is open in them.

Some properties hold under a hypothesis that names an assumption of the code, and so do
not show that the code survives when it is broken; for these hazards of `PROJECT.json`
they say what depends on the assumption, not that it holds:
`PanelIntact` (the ignored 100 ms timeout, `dsi_display.cpp:439`: `PpaTimely`),
`OverlayOwnsPanel` in `frame_timed` (`main.cpp:697`: `GraceCovers`, which
`frame_grace` shows to be needed), `BroadcastWaits` (a wait in a procedure,
`events.cpp:31`: `OneSender`), `CopyIsOfDrawn` (`sw_renderer.cpp:921`: not `stale`),
`TeardownAlone` (`main.cpp:1588`: `join`), `SoundReadsLive` and `MenuSilent`
(`audio.cpp:929`: `cleanup`), `NoSoundLost` (`audio.cpp:695`: `sound`), `GameOffline`
(`wifi_manager.cpp:31`: `event`), `OwnDirectory` (a flush that fails,
`sd_storage.cpp:319`: recorded in `lost`). That a step ends (`main.cpp:643`) is assumed by
`FrameEnds` of the pipeline and is what `exec_ends` and `exec_recursion` are about.

Every property of a passing run has a mutant: a faulty variant of one action, next
to the actions it imitates, with which TLC finds that property violated.

## 4. The proofs

`FramePipelineProofs`, for both values of both constants:

* `TypeCorrect`, then `HandshakeCorrect`: `HandshakeInv` says where the baton of the
  handshake is at each point of the runtime's loop (in one semaphore or with the
  helper, never in two places). Mutual exclusion alone is not inductive: a stray
  token in another semaphore would break it two steps later.
* From it `MutualExclusion`, `SemaphoresOutliveHelper` and
  `PipelineImplementsDoubleBuffer` (the refinement, by a step simulation).
* `PpaReadsIntact` assumes `PpaTimely`; `EngineInv` relates the busy engine to the
  semaphore of its completion, `SourceInv` its source to the buffer being drawn.
* `OverlayExclusion` assumes `GraceCovers` (`PausedInv`); `PanelNeverTorn` assumes
  both (`PanelInv`: the buffers submitted, shown and to be written).

`SpriteListProofs`, for any finite set of sprites, any set of clones, any limit:
`IInv` is `TypeOK`, `ListWellFormed`, `LayerIsPosition`, `QueueAlive`,
`NoCloneForgotten` and `Tracking`. `LayerIsPosition` needs `ListWellFormed` (a
position computed from a layer must exist) and the reverse; `NoCloneForgotten`
needs `Tracking`, which says that the clone taken from the queue is still ahead in
the loop that looks for it, whatever moved. The lemmas `InsertBehindFacts`,
`WithoutFacts`, `MovedFacts`, `RelayeredFacts` and `ErasedFacts` say what each
change of the list does to it.

`CountIsRight` adds `CountInv` and the hypothesis `DeleteOnce`. `OrderIsKept` is an
action property: `SameOrder` says that two lists agree on the order of all sprites
but one, and `InsertOrder`, `WithoutOrder` and `MovedOrder` that each change of the
list gives such a list; `OrderStep` takes them through the actions.

Three modules prove things of BlockExecutor, for all well-formed programs, any number of
blocks, chains, messages, receivers, repetitions and events. Their hypothesis `AllSequential` says
that no procedure calls itself, that all calls of a procedure are in one chain, and that
no procedure stops the other scripts. Without it the results do not hold: the
hazards of `PROJECT.json` at `blockExecutor.cpp:375`, `:417`, and `control.cpp:160`
describe what each part excludes. TLC evaluates the hypothesis on
every program of the passing runs.

`BlockExecutorProofs`: `TypeCorrect`, `QueuesWellNested`, `ProceduresHaveCallers` and
`HandlersDropThemselves` follow from one invariant `IInv`. `WellNested` speaks of the
queues between two runs only and is not inductive; `IInv` says the rest:

* `QueueNest`: at *any* time a queue is a path through nested blocks.
* `StackShape`, `StackNest`: the calls of `runBlock` are nested blocks of one chain, then
  those of a procedure it calls, and so on down a rank of the chains (`Sequential` gives
  the rank, and with it that no chain is on the stack twice).
* `AtTop`: a block taken up from a queue is its last; a block met on the way has only
  blocks around it in its queue. This is why "drop the last" is "drop me".
* `CallsInProgress`, `Pointers`: a call that waits, on the stack or in a queue, has its
  `customBlockPtr` set and its queue holds nothing behind it.
* `HasCaller`: a procedure that runs has a caller on the stack or in a queue.
* `Counting`, `ToStart`: a body of `repeat` in progress has a count left; the loops of the
  frame start hats and receivers, never procedures.

The proof is not by cases on twenty actions against eleven conjuncts: `Handled` says what
any handler does to queues, stack and counters (a block queued or dropped at the end of its
own queue; left, gone on, entered or called), one lemma per handler shows that it is
`Handled`, and `HandledKeeps` that this keeps `IInv`; `Scheduled` does the same for the
loops of the frame. `ReceiveScheduled` is where `restartScript` must stop the whole call
graph.

`ScriptsProofs`: `ScriptsImplemented`, the refinement `ScriptsFollowed`. `IInv` says that
queues are paths, not that they are the *whole* path; `Linked` adds that the parent of
each entry is the entry before it and that of the block executed, or of each call in
progress, the last one (`QueueLinked`, `TopLinked`, `CallsLinked`). With it the token that
`Scripts` puts at the parent when a body ends is where the queue says. `LeaveWalk`,
`GoOnWalk`, `ContinueWalk`, `EnterWalk` and `BodyWalk` compute the tokens of all chains
after each kind of stack change, `LeftMoves` the repetitions left, and a lemma per handler
(`DoStep` to `ReturnStep`) names the step of `Scripts` it is, or shows a stutter.
`CallsWaiting` shows that the calls `restartScript` finds by pointer and queue are those
whose token waits in a call.

`BroadcastProofs`: `SendersWait`, that is `BroadcastWaits`, with the further hypothesis
`OneSender`: the chain that waits for a message is neither a procedure nor a receiver
and is the only one that sends it, and if several chains receive the message, no other
chain stops the others. A receiver that waits for its own message waits for itself, and
a restart would abandon its wait. TLC finds a script that goes on too early when the
wait is in a procedure called in the repeats loop (the procedure is visited in the same
frame, before the message is delivered), when a second chain sends, and when a third
chain stops the sender while it waits for two receivers (`broadcastsRun` keeps the old
ones). `BInv` adds to `IInv`: `Visited` (the chain being run in the repeats loop is not
visited again in this frame), `Undelivered` (a message is sent in that loop only behind
its sender's visit, so at a visit the last one has been delivered), and `Await` (while
`broadcastsRun` is set, no receiver runs but those found, unless there is only one to
find).

`CostumeCacheProofs`, for any costumes, sizes, addresses, budget and cores: `IInv` is
`TypeOK`, `ListIsResident`, `Front` (a core inside the cache holds the mutex and has
its costume at the front; this is why its own evictions, which stop at the last
entry, spare it), `Busy`, and `CopyInv`: no two costumes are at one address, and a
copy that is not stale names the costume that is at its address now. From the second
part follows `CopyOfDrawn`: equal addresses then mean the same costume.

`Bytes` of a set of costumes is the cardinality of a set of pairs, which makes the sum
additive without an induction (`BytesAdd`, `BytesRemove`, `BytesMonotone`, from the
library's theorems on finite sets). `BudgetKept` follows from the running total being
the bytes of what is allocated (`Accounted`) at each of the places that change it.
`LeastRecentFirst` needs `Ordered`: what is in front of a core's costume in the list
was used since, so when it is evicted as the last, all that is resident was, and did
not fit (`TouchedOrder`: touching one costume keeps the order of the others).

`GameSessionProofs`, for any sounds, tasks and bounds. `LinkIsReported` is proved of
`WifiManager` alone: the last event on its way, or else `s_connected`, tells the state
of the link (`LinkInv`). `SessionImplementsWifi` shows that a step of a session is a
step of WifiManager or leaves the connection alone, so the result carries over. The
rest follows from one invariant `SInv`: `AttemptInv` (unless an event was late, an
attempt meets its own events only, and no handler of an earlier one has a bit to set),
`CallerInv` (where `app_main` is when a radio is
up), `JoinInv` (the token is of the game that ends), `OwnCounted`, `FetchInv` (a sound
being downloaded is not there), `Quiet` (between games no sound is left).
`TeardownAlone` alone is not inductive: a token left over by an earlier game would
end the wait for the next one at once, and it is `JoinInv` that excludes it.

`ProjectStoreProofs`, for any projects, versions and assets: `Inv` adds to the
properties `OnlyOwn` (only a game that is not good is written), `Mode` (streamed or in
memory, never half of each), `Open`, `OnCard` and `InRam` (what is not to do any more is
whole where it belongs, unless a loss was recorded). `OnCard` also says what the
`project.json` of a game being written or run holds: its version, or nothing whole once
its flush has failed. `DirectoryMatches` follows from it. A failed flush of
`project.json` does not weaken `RunFindsAssets`: the assets are looked for all the same.

Assumptions of the proofs are the named `ASSUME`s of the modules, which TLC evaluates
on the instances, and `AllSequential`, `AllOneSender`, `DeleteOnce`, `PpaTimely` and
`GraceCovers` where stated.

Only checked by TLC: liveness (`FrameEnds` and `QuitReachesMenu` of the frame pipeline,
`ScriptsEnd`), which needs fairness and ENABLED. Every safety property of a passing run is
a theorem.

## 5. What is not modelled, and the plan

Not modelled for good: drivers, pixels, geometry, text layout, the parser, values
and operators, the other platforms and vendored code (`PROJECT.json` gives the
reason for each). They are sequential functions or hardware. They are also by far
the largest part of the repository: generated protocol code and images, vendored
decoders and libraries, and upstream code for other consoles make up most of its
lines, so the modules here cover most of the program's own concurrent code and
little of the tree.

Not modelled yet:

* **Display ownership**: menu, camera, modal and game on one panel through
  `s_flush_disabled`. FramePipeline has the game's and the overlay's part. What is
  left is a flush of LVGL in flight when the panel changes hands
  (`main/ui_menu.cpp:260`).
* **Input devices**: reports of several devices merged by polling, held keys of a
  device that goes away.
* Of BlockExecutor: clones and their deletion; in the runs also two callers of one
  procedure, `stop all` and `stop other scripts` in procedures, broadcast-and-wait
  inside a procedure. The hazards in `PROJECT.json` say what the code does
  there; `NoOrphan` and `BroadcastWaits` would have to be restated first, because they
  do not hold in these cases and no text of the repository says what should.
* Of SpriteList and BlockExecutor: running out of memory in a script (`main.cpp` 633).
* Of WifiManager: which network is connected. `wifi_connect` with other credentials
  returns at once while a link is up.

Done: FramePipeline over DoubleBuffer, SpriteList, BlockExecutor over Scripts,
CostumeCache with the SRAM copy, GameSession over WifiManager and AudioMixer,
ProjectStore, and the proofs of their safety properties. Next: DisplayOwner, of which
FramePipeline's overlay is an instance; weaker hypotheses for BlockExecutor (two callers
of one procedure, if one has returned before the other calls; several senders of a
message that nobody waits for together).
