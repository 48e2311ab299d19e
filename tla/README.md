# Turdus: TLA+ models and proofs

Turdus is a C++ MIDI sequencer. A clock thread plays a snapshot of a project into a
MIDI port, slice by slice; the UI thread edits the project, moves the transport, swaps
ports and files. This directory models the parts where timing, order and interleaving
decide whether the music comes out right and whether the user's work survives, checks
them with TLC on small instances, and proves the most important facts with TLAPS for all
instances. Paths below are relative to the root of the repository.

## Inventory

| Component | State | Operations | Interacts through | Modelled in |
|---|---|---|---|---|
| `engine::Engine` (`src/engine/Engine.cpp`) | project snapshot, loop bounds, pending note_offs, previous state, last known position | `advance`, `set_project`, `clear_project`, `set_loop`, `set_port`, `all_notes_off` | called by the clock thread (`advance`) and by the UI thread (the rest); reads the transport, sends to the port | `Engine` |
| `engine::Transport` | state, position, tempo: three atomics | `play`, `pause`, `stop`, `seek`, `set_tempo`, `advance` | written by both threads | `Engine` (without tempo), `AppController` |
| `engine::MidiClockEmitter` | enabled flag, port | `emit_play`, `emit_stop`, `emit_pulses` | called by `advance` | `MidiClockEmitter`, `Engine` |
| `engine::Clock` | `running_`, thread, fractional accumulator | `start`, `stop` (joins), `thread_loop` | the only caller of `advance` | `Player` |
| `turdus_play` (`tools/play/main.cpp`) | `g_running` | load, play, wait for Ctrl+C, tear down | owns an engine and a clock | `Player` |
| `app::SpscQueue`, `CommandBus`, `Command` | ring buffer, head, tail | `push`, `try_pop` | UI thread to engine thread, by design; no code pushes a command today | `SpscQueue`, `BoundedFifo` |
| `app::AppController` | project being edited, active port, engine, clock | transport, `new/open/save_project`, `set_loop`, `set_active_port`, note edits | stops and restarts the clock around engine changes | `AppController` |
| `model::*` (Project, Track, Pattern, Note) | tracks, patterns, notes, arrangement, loop | id lookups, edits that keep notes sorted and ids unique | copied into the engine | `ProjectModel`; what the engine reads of it: `Score` |
| `core::Id` | one atomic counter per kind | `next`, `ensure_next_at_least` | any thread | `IdCounter`, `IdSupply` |
| core value types, `midi::MidiMessage` | one number | clamp, encode | | clamps in `ProjectModel`; encoding abstracted |
| `io::ProjectIO`, serialization | a file | `load`, `save` | `AppController`, `turdus_play` | `ProjectFile`, with the disk in `AppController` |
| main window, ports panel, transport bar | current path, file chooser, port list, status line, buttons | File menu, port pick, refresh, buttons, timers | `AppController`; asynchronous callbacks | `App` |
| piano roll and its editor, song view | tool, snap, selection, gesture, observed pattern, picker, active ids | mouse, keys, picker, timer, double click | `AppController`; a raw pointer into the project | `PianoRoll` |
| JUCE MIDI backend | open devices | list, open, close | operating system | its list and its ports, in `AppController` |
| smoke tool, build, tests | | | | not modelled |

What is hard here, and what makes each part correct:

* **Engine.** Slices of any size against notes, loop passes and pulses: every note the
  playhead crosses starts once per pass, every note_on gets its note_off, none is late,
  a stop is noticed and silences the port, a clock follower stays in step. The transport
  changes under `advance()` at any moment.
* **Clock and its owners.** Operations that must not overlap `advance()` are kept out of
  it by joining the thread. That has to be right on every path, and the program has to
  come to its end.
* **SpscQueue.** Lock-free: no slot is read and written at once; full and empty are told
  apart after wraparound; order is kept.
* **AppController and its windows.** The engine has its own copy of the project and of
  the loop region; every operation has to keep both with the edited ones. A device can
  go, fail to open, or be listed when it is not there any more, and engine, controller
  and panel each keep their own idea of it. Choosers and combo boxes call back later,
  when the state they were opened on has changed.
* **Files.** Writing what was loaded and loading what was written have to agree about
  order, ids and ranges; a save can stop half way; ids from files must not meet new ones.
* **Ids.** A compare-and-swap loop against a plain increment, from any threads.
* **Piano roll.** A pointer into the project, ids that name the same pattern a second
  time, and a picker id that names it a third time, each updated at its own moment: the
  edit has to reach the pattern on the screen. Gestures span many events, and the snap,
  the tool or the project may change in between.

## Modules

| Module | What it is |
|---|---|
| `Score` | A project as records, and the *voices* it asks for: one per note of a placement that can sound, with its key, first tick and due tick. This folds in `process_range`'s lookups and clipping. |
| `MidiClockEmitter` | Which ticks of a range call for a pulse; Start or Continue. |
| `Engine` | Engine, Transport and emitter with two threads. |
| `MCEngine` | Small projects for TLC. |
| `EngineProofs`, `EngineCountProofs` | Proofs about `Engine`; the second holds those that count pulses and starts. |
| `Player`, `MCPlayer`, `PlayerProofs` | `turdus_play`: `main()`, the signal handler and the clock's thread around `Engine`. |
| `SpscQueue`, `BoundedFifo`, `SpscQueueProofs` | The ring buffer, the fifo it implements, the proofs. |
| `IdCounter`, `IdSupply`, `IdCounterProofs` | The id counter access by access, what it promises, the proofs. |
| `ProjectModel` | Projects, tracks, patterns and notes as values; the operations on them. No variables. |
| `ProjectFile` | Documents, `from_json`, `to_json`, validation, the bump of the id counters. No variables. |
| `AppController` | The controller's state and one action per operation, over a disk and a set of devices. |
| `ProjectProofs` | Lemmas about the three modules above: sequences of entries, folds, sorting, what loading, saving and editing make of a project. |
| `App`, `MCApp`, `AppProofs` | The program around the controller: start-up, windows, callbacks, hotplug, failing saves, crashes. |
| `PianoRoll`, `MCPianoRoll`, `PianoRollProofs` | The piano roll and its editor around the controller. |

`ProjectModel` <- `ProjectFile` <- `AppController` <- `App` and `PianoRoll`;
`Score` and `MidiClockEmitter` <- `Engine` <- `Player`. `App` leaves "any edit" where
`PianoRoll` has gestures, and `PianoRoll` leaves "any replacement of the project" where
`App` has choosers and files; each keeps all of the controller's actions it can cause.

### Engine

`advance()` is a sequence of actions, divided where another thread can act in between:
`AdvanceBegin` loads the state; one of `AdvanceStarts / Stops / Continues / Rests` loads
the position and handles the edge; `PlayStraight`, or `PlayToLoopEnd` followed by
`ReleaseAtLoopEnd` and `PlayFullPass` for every whole pass and `PlayLastPass`, play the
slice; `AddDelta` or `SeekIntoLoop` writes the position back. `pc`, `delta`, `cur`,
`from`, `rem` are the call's frame. The UI thread's actions on atomics (`Play`, `Pause`,
the two stores of `stop()`, `Seek`, `SetClockEnabled`) may come anywhere. The operations
that change plain data `advance()` uses (`set_project`, `clear_project`, `set_loop`,
`set_port`, `all_notes_off`) are guarded by `BetweenCalls`. The header asks callers to keep
them out of `advance()` in one case only, `set_port` (`Engine.hpp:37`); of the others it
says nothing. The guard is an assumption of `Engine`; for the calls `turdus_play` makes it
is a property (`AloneWithEngine`) of `Player`. For `set_loop` it stays an assumption:
`AppController::set_loop` would call it over a running clock, and nothing calls that.

`pending_offs_` is a count per voice: the entries of one voice are interchangeable. The
port is what a device has received: `sounding` counts note_ons minus note_offs,
`following` and `pulses` are a follower of the MIDI clock. `heard`, `tracked`, `song`
and `cleanSwaps` are auxiliary and influence nothing but bounds.

Abstractions: ticks are unbounded integers, as the source uses 64 bits for spans of hours;
song positions and loop bounds are assumed not to be negative (no operation of the program
makes them so; a file edited by hand could); the order of the sends within one slice is
dropped; velocities, names, mute, solo and transpose are not read by the engine. The
branch for `loop_len <= 0` (`src/engine/Engine.cpp:65-69`) cannot be reached, since
`loop_enabled()` was tested on the same call and `set_loop` does not run during it, and
has no action.

### Player

`main()` is a program counter from the loaded file to the closed port, the clock's
thread is `none`, `test` (about to read `running_`), `slice` (sleeping), `called` (inside
`advance()`) or `exited`. The error exits before the engine exists are left out.
`WithArrangement` is the arrangement `main()` makes up for a file that has none.

A slice takes some number of instants of the steady clock, of which `Precision` make a
microsecond (1000 on a clock of nanoseconds). `Measured` is the `duration_cast` to whole
microseconds; since `last` moves to the untruncated `now`, the rest is gone. A microsecond
is `Rate` units of the accumulator and a tick `Fraction` units. `Sum` is what the
accumulator holds after a slice; both the product and the sum are rounded to a double by
the operator `Double`. What does not make a tick stays in the accumulator: a slice may
skip `advance()` altogether (`ThreadSkips`) or call it with several ticks (`ThreadCalls`).

Two auxiliary variables count what went by: `measured` in units, as the slices were
measured and converted, and `elapsed` the time itself, in parts of a unit that a single
instant is a whole number of. `MeasuredTicksPlayed` compares the playhead with the first
and holds; `NoRoundingDrift` compares it with the second and does not.

### SpscQueue

Each call is split at its accesses of shared memory: the load of the other side's index
together with the decision, the access of the slot, the store of its own index. The
acquire/release pairs make the slot's contents visible with the index, so interleaving
of these steps is a faithful reading. `Contents` maps the ring to the fifo's sequence.

### IdCounter

`next()` is one atomic step. `ensure_next_at_least` is the load, the comparison, and a
swap that succeeds only while the counter is what was read, and may fail even then
(`compare_exchange_weak`). The operations are relaxed, which matters only between
different objects: one atomic has one modification order. `IdSupply` says what the
comments promise: an id is handed out once, and never below a floor that was granted.
The refinement forgets the counter and the calls' locals.

### AppController and App

Every operation of the controller runs to its end on the UI thread, so it is one action.
Those that replace the engine's project or port stop the clock if it runs, work, and start
it again if it ran; `clockRunning` is what they leave behind. `set_loop` does not stop it
(`AppController.cpp:81-84`); nothing in the program calls it, and the clock never runs.
`engine` is what the engine was given: project copy, loop region, port, clock flag. An
operation that refuses (`open_project` of a file that does not load, an edit of a pattern
or note that is gone) has no action in `AppController`; the callers say what they do then.

`App` adds what the windows do. A file chooser is a state, not a call: everything else
goes on while it is up, and its callback works on what is current when it comes. The
same holds for a pick in the port list: `PickPort` changes the combo box, `PortSelected`
is the notification, and a refresh of the list may come between the two.
`set_active_port` closes the old port before it opens the new one and may fail
(`PortFails`). Devices come and go without the program being told.

Faults: `SaveCutShort` (the stream was truncated, the write failed; the caller may be
told or not, since the last flush is in the destructor), `CrashInSave`, `Crash` with
relaunch over the same disk, `Delete` by another program, files that are not JSON, of a
newer version, or edited by hand: notes out of order, ids missing or repeated, values out
of range.

A document is a record whose fields are still unclamped and unchecked; `ProjectFrom` does
what `from_json` does to it, in its order, with the model's own `add_*_with_id`.
Names, colours, mute and solo flags are stored and never read and are left out.

### PianoRoll

The roll holds a raw pointer. Here it is the place `<<track, pattern>>` it was taken from
(`shown`, no place or one) and `dangling`, set when the project is replaced under it;
while it dangles, what a hit test reads is any note of `Stale`. The editor keeps the
active ids, the picker its item ids, its selection and the id last applied, and the timer
the signature it saw last; all of these are variables and go out of step with each other
exactly as in the code: items are rebuilt only when the signature differs, the
notification of a pick comes later, every edit is followed by a new binding through the
picker's id. Places are ticks and pitches; whether a press near the right edge moves or
resizes is left open, because it depends on the zoom.

## Runs

| Run | Distinct states | What it asks |
|---|---|---|
| `engine` | 163 800 | `NoStuckNotes`, `NothingOverdue`, `EveryCrossedNoteOnce`, `SlaveInSync`, `StopSilences`, types, under everything the two threads can do |
| `player` | 39 500 | `AloneWithEngine`, `SilentAtExit`, `MeasuredTicksPlayed`, `ExitsAfterInterrupt`, `CallReturns`, types |
| `queue` | | `NoSlotShared`, `ImplementsFifo`, types |
| `ids` | 134 000 | `NeverBehind`, `ImplementsIdSupply`, `EnsureTerminates`, types |
| `app` | 616 000 | `EngineInSync`, `RoundTrip`, `IdsFresh`, `PanelShowsPort`, `EditsAreLocal`, types |
| `editor` | 75 000 | `EditsGoWhereShown`, `GestureHasNote`, `PickerShowsPattern`, `OnGrid`, `PickerCatchesUp`, types |
| `loop_never_left` | violated | the comment that an active loop wraps |
| `stop_rewinds` | violated | the comment that the transport's fields need no joint access |
| `slave_stopped` | violated | the procedure's "Ctrl+C stops the slave" |
| `rounding_drift` | violated | the comment that the accumulator eliminates rounding drift |
| `play_progresses` | violated | the comment that the user can hit Play immediately |
| `dangling` | violated | the comment that the observed pattern is kept alive |

What the passing runs' properties say:

* `EngineInSync`: the engine's snapshot and loop are the project's after every operation.
* `RoundTrip`: writing the project and loading it gives the same project, in every state
  that editing and loading can reach; so sorting in edits and inserting in loads agree.
* `IdsFresh`: the counter is never behind a note of the project, over loads and restarts.
* `PanelShowsPort`: the engine sends to the device that is open, and the panel shows that
  device or why it does not.
* `EditsAreLocal`: an edit leaves all notes but one as they were.
* `EditsGoWhereShown`: while the observed pattern is alive, the active ids find it.
* `GestureHasNote`: selection and gesture are about notes of the pattern on the screen.
* `PickerShowsPattern`: and the picker names it, once its notification has come.
* `OnGrid`: what a gesture commits is on the grid, even if the snap changed during it.
* `PickerCatchesUp`: the picker's items come to have the ids of the new project's
  patterns; a label shows a name, which may stay old when all the ids agree.
* `MeasuredTicksPlayed`: playhead and accumulator together are what the slices were measured
  and converted to, up to passes of the loop: no part of a tick is dropped or counted twice
  after the measurement. What the measurement itself loses is `NoRoundingDrift`'s matter.

The six violated runs are disagreements between a comment or a document and the code:

1. **A loop can be left** (`src/engine/Engine.cpp:55`). A slice that ends exactly on
   `loop_end` does not wrap, and the next one starts on `loop_end` and does not either.
2. **A stop can lose its rewind** (`src/engine/Engine.cpp:79,85`). The slice in progress
   writes its own position after `stop()` wrote 0; the next play sends Continue.
3. **`turdus_play` never sends Stop** (`tools/play/main.cpp:142-145`). The clock is joined
   before the transport is stopped, and only `advance()` sends Stop.
4. **The playhead drifts** (`src/engine/Clock.cpp:50-51`). Each slice is cut to whole
   microseconds, and the next one begins at the uncut time: the rests are lost, always to
   the late side. With nanoseconds that is about half a microsecond of each slice of a
   millisecond, more than a second in an hour. The accumulator carries only the rest of a
   tick that is left after that.
5. **The application never plays** (`src/main.cpp:22`). The controller restarts its clock
   only where it found it running, and nothing starts it first: with a port open, Play
   sets the transport's state and the position stays 0.
6. **The piano roll's pointer outlives its pattern** (`src/app/AppController.cpp:47`).
   New and Open destroy the project; the editor binds anew at its next timer tick, and
   not even then if the new project's track and pattern ids are the old ones'.

Since 5 keeps `advance()` from ever being called in the application, the interleavings of
`Engine` are those its headers promise to support and `turdus_play` produces in part.

Met on the way, and part of the models without being stated as violations:

* A gesture survives the replacement of its project: it may be committed to a note of the
  new project with the same id (`OnGrid` excepts it).
* An id beyond the project can be picked while the items are old; the roll then keeps
  showing what it showed.
* A double click opens the first placement under the mouse, while painting draws the last
  one on top.
* `resync_engine_if_needed` always installs the project; the comment at
  `src/app/include/turdus/app/AppController.hpp:70-73` says edits to other patterns do
  not touch the engine. `is_engine_pattern` would tell, and is never called.
* The tempo slider changes the transport and not the project, so a save forgets it.
* A save that fails or is interrupted leaves neither the old file nor the new one.

### Bounds

* Engine: one pulse every 2 ticks instead of 40, patterns of 2 to 4 ticks, slices of 3
  and 5 ticks: slices shorter and longer than the loop, one to three passes in a slice,
  ends on and off the loop's end and the pulse grid.
* `MaxTick`: no slice goes beyond this tick (8 for the engine, 16 for the player; two
  passes of the longest loop or more). `MaxHeld`: a slice begins with at most this many
  pending entries of one voice; a second entry for one voice appears only after a stop
  and a play between two slices, or a seek back.
* After a port swap that left notes held, no further swap is explored.
* Projects: `Song` has two tracks, notes that overlap on one key, one due on the loop's end
  and one held across it, one beyond its pattern, a placement of another pattern that
  comes within the loop, and one whose pattern does not exist. Its loop is on the pulse
  grid and begins after the song, so that the first pass is longer than the others; another
  loop, off the grid, may be set. Slices that end exactly on a loop's end come with slices
  of 1 and 2 ticks in `loop_never_left`. The player's files have and lack an arrangement
  (and with it a loop); one has a loop off the pulse grid and no notes.
* One port: with a single device `NoPort` and re-setting the port are the swaps.
* Player: two instants make a microsecond, a microsecond is 3 units, a tick 4 units. Slices
  of 0, 3, 4 and 11 instants are measured as 0, 1, 2 and 5 microseconds, so two of them lose
  a rest; they make less than a tick, a tick and a half and almost four ticks, which reaches
  round the loop. A double has three significant bits (`Coarse`), so that sums of 9 units
  and more are rounded, up and down. `SlicesFit` checks that every number of ticks a slice
  can come to is one TLC offers `advance()`. `rounding_drift` needs one slice with a rest.
* Queue: capacity 3 and two items, which goes round the ring with every fill level.
* Ids: three threads, floors 0, 2 and 4, ids to `MaxId` 5: two calls can fight over the
  swap while the third takes ids past both floors.
* App: one path, two devices of which one comes and goes (the other is the one the port
  can be moved to), one edit in a behaviour, note ids up to 4. One edit is enough for
  properties of one step from any loaded project, and it may come before or after any
  load, save, new or crash. The file is a song with unsorted notes, an id taken twice, a
  missing id, two patterns sharing note ids, and values out of range; a newer version; or
  malformed JSON.
* Piano roll: `PickerBase` 3 instead of 10000, which is room for two patterns in a track,
  as many as the files have (9999 in the source); two files whose signatures differ, one
  of which lacks a pattern of the other and puts the note with the same id elsewhere;
  snaps of 2 and 4 ticks with a note off both grids; two places for the mouse; one edit in
  a behaviour.

In the runs of `MCEngine` the bounds end a behaviour only for the clock thread (it may not
begin a slice that would pass them); the UI thread can always move. Deadlock checking is
on in every run.

### Fairness

`FairSpec` of `Engine` assumes that the clock thread keeps calling `advance()`
(`Clock::thread_loop` is an endless loop around it), that a call goes on to its end, and
that the UI thread finishes a `stop()` it began. `StopSilences` needs no more. Play, pause
and edits are never forced. In `Player` both threads are scheduled, and nobody need press
Ctrl+C. All are weak fairness of one thread's next step.

In `IdCounter` a thread goes on with its call, and a swap that could succeed again and
again succeeds some time (strong fairness of `EnsureSwaps`): a weak compare-and-swap fails
without cause now and then, not for ever. In `PianoRoll` JUCE keeps calling the timer and
delivers a notification it has queued. `FairPlaySpec` of `App` has the clock's thread
call `advance()` for as long as there is such a thread, which is what makes the violation
of `PlayProgresses` mean something.

## Proofs

Every safety invariant and every action property of the passing runs is proved, for every
value of the constants that satisfies the named assumptions below; only liveness is left to
TLC alone. The inductive invariants were checked by TLC on the runs' instances first.

### Assumptions

| Assumption | Says | Why the code justifies it |
|---|---|---|
| those of `Engine`, `MidiClockEmitter`, `Score` | ticks are integers, a pulse is some ticks long, loops and songs do not begin before 0 | `Tick` is an integer, `kTicksPerPulse` a positive constant; for the sign see the abstractions of `Engine` |
| `NoneAssumption`, `HotplugAssumption` | the name of no device is none of a device's; only devices come and go | an empty name is tested for and never listed |
| `FilesAssumption` | a path holds nothing, broken text, or a document whose fields have their types; any numbers, any lengths | `get<>` of another type throws, and the file does not load |
| `ClockAssumption` | a tick, a microsecond and an instant are whole numbers of units, slices of instants | the scale is chosen fine enough; a slice is a difference of two readings of a clock that does not go back |
| `DoubleAssumption` | adding a slice to the accumulator never makes it less | a double is rounded to a nearest one: numbers keep their order, and what is held is a double |
| `EditsAssumption` | starts and lengths are integers, pitches and velocities in range | the parameters are `Tick`, `Pitch` and `Velocity`, which clamp |
| `SnapAssumption` | some resolution divides all others | `SnapResolution.hpp`: each is half of the one before, down to 1/32 |
| `MouseAssumption` | the mouse is on a tick from 0 and a pitch in range; a dangling hit test reads some note | `x_to_tick` and `y_to_pitch` clamp |
| `RoomAssumption` | a track of a file has fewer than `PickerBase` patterns | **not** enforced: a file with 10 000 patterns in a track makes two of them share a picker id. No operation of the program adds a pattern |

### Engine

* `TypeCorrect`. Its least obvious part is that `rem` never goes negative.
* `NotesNeverStuck`. `NoStuckNotes` is inductive relative to the types: every action
  changes `sounding` and `pending` together, which `ProcessRange` does voice by voice.
* `NeverOverdue`. `NothingOverdue` speaks of a call's end only, so it is not inductive.
  `OwedInv` adds what holds inside the call: after a slice or a last pass everything
  pending is due at or after its end, after a loop end nothing is pending until the next
  pass, and with no port nothing is ever pending.
* `FollowerInSync` (`SlaveInSync`). `FollowInv` says at each `pc` which local holds the
  place playing goes on from and that it lies on the same pulse grid as the number of song
  ticks played. The step is arithmetic: the pulses of [a, b) number
  `CeilDiv(b) - CeilDiv(a)` (`PulsesSent`), and shifting both ends by whole pulses changes
  nothing (`CeilShift`). Aligned loops keep the shift whole over a wrap.
* `CrossedNotesStarted` (`EveryCrossedNoteOnce`). `HeardInv` says that the notes heard so
  far in a call are those crossed up to the end of the last pass, which lies a whole number
  of passes after `loopEnd`. That number is not kept by the code; it is the witness of an
  existential.

### turdus_play

`PlayerUsesEngine` shows that each player step is a step of the engine's specification or
leaves it alone, so the engine's theorems carry over. `EngineAlone` relates `main()`'s
position to the thread's (`AloneInv`); with the fact that the player never swaps ports it
gives `PlayerLeavesSilence` from `NotesNeverStuck`. `PlayerTypeCorrect` carries the engine's
types and the accumulator's range (`ClockTypes`).

`PlayerKeepsTicks` (`MeasuredTicksPlayed`). `TimeInv` follows what was measured through a
call of `advance()`: while the thread is in it, the position to come is `pos + delta`, and
`pos` is what the call read, because nobody else moves the position while the thread
exists.

### Queue and ids

`SpscQueueProofs`: types, `NoSlotShared`, and the refinement of `BoundedFifo`, for every
capacity. `IdCounterProofs`, for any threads and floors: `IInv` adds to `NeverBehind` that a
call that has swapped left the counter at its target or beyond (`CallInv`); from it
`CounterImplementsSupply`: every step is a step of the supply or a stutter. An id is new
because the counter was not behind any id before.

### Projects and files

`ProjectProofs` has no theorem of its own: it is what the two modules below stand on.
`WellFormed(project)` says that values are in range, that ids are there and unique in each
vector, and that the notes of a pattern are in order. It is proved of loading and of every
edit. Three parts need an induction over the length of a sequence:

* that `from_json`'s folds (`NotesFolded`, `EntriesFolded`, `MappingsFolded`) keep order and
  uniqueness whatever the file holds, and give a well-formed sequence back as it was
  (`NotesKept`, `EntriesKept`, `MappingsKept`);
* that `StableSort` is a permutation in order (`SortedIs`, over `Rank`, which is a bijection
  of the places);
* that `BumpNoteIds` finds a largest id (`LargestNumber`, `BumpIs`).

An induction theorem that takes an operator cannot be instantiated here. `NumberInduction`
states induction for a *set* of numbers instead: one that holds 0 and, with a number, its
successor, holds every number. Each proof names the set of lengths for which its fact
holds. Folds are recursive functions inside the library's `MapThenFoldSet`; `FoldExists`
gives them by their equations.

`DataInv` adds to `WellFormed(project)` that no note's id is beyond the counter and that the
disk holds typed documents; `OneNote` is what the five note edits have in common.

### Application

* `EngineFollowsEdits` (`EngineInSync`); `SyncInv` adds that the project is a record with a
  loop region, without which an `EXCEPT` on it says nothing.
* `PanelTellsPort` (`PanelShowsPort`); `PortInv` adds that the controller's port, its name
  and the engine's port are one device, without which closing the old port says nothing
  about what stays open.
* `SavedProjectsReload` (`RoundTrip`), `NewIdsAreNew` (`IdsFresh`), `ProjectKept`: from
  `DataInv`. The first is where clamps, order and uniqueness are all needed: what is written
  is loaded as it was because nothing is left for `from_json` to change.
* `EditsTouchOneNote` (`EditsAreLocal`): from `OneNote`; an edit puts a list in the place of
  another that agrees with it on every id but one.
* `AppTypes`: `Sounding` and `Shown`, with `DataInv` for the tempo a file brings.

### Piano roll

`RollInv` has four parts, each of which the steps of the others lean on:

* `ShownInv`: a pointer that is alive is found under the active ids, and an empty roll has
  none. The pointer and the active ids are bound in the same step, editing notes moves no
  pattern, and every replacement of the project with something on the screen sets
  `dangling`. `EditsReachShown` (`EditsGoWhereShown`) follows from it alone.
* `Stored`: `DataInv`, and fewer than `PickerBase` patterns in a track (`Roomy`).
  `GesturesKeepProject` takes `WellFormed` and the counter from it.
* `Gesture`: what is drawn is a note on the grid; what is moved or resized is the original,
  or on the grid (`Drawn`, `Moved`, `Resized`).
* `Seen`: `GestureHasNote` is inductive only together with `Screen` (the id last applied is
  the picked one unless a notification is due, and names the pattern shown once the items
  are the project's) and `Aimed` (the note under the gesture starts where it did when the
  gesture began, which a resize relies on for its end). `Applied` shows all three of
  `ApplyPicker`, for any id: an id beyond the project cannot be an item of it.

From it `GesturesHaveNotes`, `PickerNamesShown` (`PickerShowsPattern`, with
`Encode(Decode(id)) = id`), `RollTypes`, and `GesturesSnap` (`OnGrid`): an answered gesture
is `OneNote` of the active pattern, and its new entry is `Gridded`.

### Only model-checked

`CallReturns`, `StopSilences`, `ExitsAfterInterrupt`, `EnsureTerminates` and
`PickerCatchesUp`: liveness under fairness, and ENABLED, are out of the prover's reach. The
violated properties are counterexamples, which only TLC gives.

## What is left

A run of the engine under `AppController` is worth having as soon as something starts the
clock. Of the proofs: that the projects `ProjectFrom` makes of any document satisfy what
`Score` assumes of a project, so that the engine's theorems apply to every file directly.

## Not modelled

* Painting, layout, zoom and the playhead; message boxes; labels. They read state and
  change none that the rest depends on.
* JSON text and MIDI bytes: a document is a record, a message is what the device on the
  port makes of it. A `schema_version` of the wrong type, which lets an exception out of
  `load`, is a hazard listed without a property.
* Names, colours, mute, solo and transpose: stored, never read by the engine.
* Operations of `model::*` and of `AppController` that no code of the program calls
  (removing tracks, patterns or placements, `is_engine_pattern`,
  `apply_pending_commands`, `stop_clock_briefly`), and the command queue's use: nothing
  pushes a command.
* The JUCE backend below its list of devices and its ports, the fake backend of the
  tests, the smoke tool and the build: the operating system's state, or none.
* The last ids of 64 bits and ticks of 64 bits; a tempo that changes during play
  (`turdus_play` sets it once, before the clock starts).
