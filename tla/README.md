# Lucifer: a TLA+ verification project

Lucifer plays laser shows: a grid of frame sources, several projector heads
that play the sources the user selects, drivers that turn frames into points,
show files, ILDA import, MIDI control surfaces, an editor for trees of sources.
This directory models the parts whose correctness depends on the order in which
threads, queued signals, messages, drops and calls happen, checks them with TLC
on small instances, and proves the central invariants with TLAPS for every
instance.

## 1. Inventory

| Component | State | Operations | Hard behaviour |
|---|---|---|---|
| `PlaybackList` | `selections`, `currentIndex`, two modes, recursive mutex | select, modes, step, clear, getNextFramesource | calls from three threads; `currentIndex` and the modes are written outside the lock; `next()` and `select()` call each other |
| `LaserHead` | `pb`, `pointBuf`, `frame_index`, `killed` | dataRequested, dump, kill, restart | kill runs in the GUI thread, the rest in the head's; nothing is locked |
| Drivers | dummy: a fill counter; PortAudio: a ring buffer | ILDANewPoints, fill status, timer | two threads, no lock, unsigned differences |
| `Engine` | vector of sources (read/write lock), three job mutexes, heads, MIDI | save, load, import, drop, completion slots, kill/restart, shutdown | worker threads and event queues; completion depends on an event loop; destructor polls |
| `ButtonWindow`, `ButtonGrid`, `ScreenDisplay` | grids, cells, unsaved flag, modes | sourcesSizeChanged, frameSourceChanged, indicators, file menu, drags | views built from state that workers change; a flag set and cleared by queued signals |
| `FrameSequencer`, `StaticFrame`, `ColourRotator` | children, mode, repeats; per playback: pos, table | nextFrame, reset, controls, clone, save, load | one source, several playbacks in several threads |
| `ParameterEditor`, `LaserMimeObject` | clone of a source, items, displayed node, playback | load, drops, controls, play | heads play the cells without a lock; items and sources are changed by different calls |
| `QtIOCompressor` | buffer, zlib stream, state | open, write, close, read, bytesAvailable | buffers on both sides, a full disk, a crash, files that are cut off |
| `AlsaMidi`, `MIDIParser`, `ControlSurface`, `MotorMix` | transmit queue, notifiers, key values, LEDs, display, timer | bytes in and out, head reports, messages | two messages per event, partial writes, a firmware bug, a timer |
| ILDA loader | palette, true colour table, frames | one section after the other | tables that are short, files that end anywhere |
| Resampler | two buffers, a filter | run | boundaries of frames, blocks and buffers |

Threads and how they talk. `main` starts the engine thread (`EngineStarter`);
the engine starts one thread per head. A head's `PlaybackList` belongs to the
head's thread, but is called directly from the engine thread (`Engine::clicked`)
and from the GUI thread (the combo boxes). Qt delivers a signal at once if it is
emitted in the receiver's thread and through the receiver's event queue
otherwise; so a selection made by a click travels engine, head, engine, GUI,
and the head's own signals can overtake it. The savers, loaders and importers
are threads; their `finished()` reaches the engine's slots through the engine
thread's queue. The MIDI port and the MotorMix belong to the engine's thread,
the editor and the cells to the GUI thread.

Every hazard this leads to is listed in `PROJECT.json`, at its line, with the
properties that cover it.

## 2. Modules

| Module | Models | State |
|---|---|---|
| `PlaybackListCalls` | the member functions of `PlaybackList` as operators | none: an object is a record, a call a set of results (because of `random_shuffle`) |
| `PlaybackList` | one list, its calls one at a time | the object; the lit indicators |
| `HeadSelection` | the same list called from three threads | object, program counter of the head thread, two event queues, `pb` |
| `LaserHead` | one head and its driver against kill and restart | the fields kill shares, program counters, driver fill |
| `DummyDriver` | the fill counter, read and written by two threads | counter, registers |
| `ShowEngine` | the vector of sources, the jobs, the grids, the unsaved flag, the shutdown | vector, mutexes, workers, both queues, view, window |
| `FrameSequencer` | a sequencer with several playbacks | mode, repeats; per playback pos, table, children |
| `SourceTree` | trees of sources on a heap: construction, copies, text form, children | none: operators on a heap |
| `Editor` | cells, parameter editor, drags and drops | heap, cells, items, displayed node, playback |
| `ByteStream` | what a show file promises: a load gets a prefix of what was saved | put, got, ended |
| `ShowFile` | the compressor between the XML writer or reader and the disk | zlib's store, buffers, disk, job |
| `MotorMix` | MIDI parser by message, control surface and MotorMix as operators | none: the object is a record |
| `ControlSurface` | port, queue, engine events and the surface around a `MotorMix` | object, notifiers, cable, queue, device |
| `IldaImport` | `Ildaloader::load` section by section, and the importer | tables, frames, position, files |
| `Resampler` | `Resample::run` point by point | buffers, counts, phase |
| `MC*` | constants for TLC | |
| `PlaybackListCallsProofs` | lemmas about the calls of a list, for the next two | |
| `PlaybackListProofs`, `HeadSelectionProofs`, `ShowEngineProofs`, `ShowFileProofs`, `ControlSurfaceProofs` | inductive invariants and theorems about the module they are named after | |
| `OutputProofs` | the same for `LaserHead`, `DummyDriver` and `Resampler`, the way of the points to the hardware | |
| `SourceProofs` | the same for `FrameSequencer` and `IldaImport`, where the frames come from | |

How they fit together. `PlaybackList` and `HeadSelection` share
`PlaybackListCalls`, so the proofs about the calls are about the calls the
threads make. `HeadSelection` abstracts the projection to "which position is
loaded", `LaserHead` abstracts the choice of the source to "any", and
`DummyDriver` opens up the counter that `LaserHead` treats as atomic. A source
is a name in `ShowEngine`, a tree in `Editor` (by `SourceTree`), a text in
`ShowFile`; a sequencer's playback is opened up in `FrameSequencer`.
`ControlSurface` puts the `MotorMix` operators between a cable and an event
queue. `ShowFile` implements `ByteStream` (`StreamSpec`): the mapping takes the
loader's job for "loading" and zlib's end of stream for "ended".

How code became actions.

- A section under a mutex or read/write lock is one step; what the code does
  after it has unlocked is the next step (`currentIndex = next(true)` is
  `manualStep` and `manualAssign`; `setSelectionMode` is `TruncateForMode` and
  `AssignMode`; `addFrameSource` is the store, `EmitSize` and `EmitChanged`).
- Fields shared without a lock are split at every access: `dataRequested()` is
  fourteen actions, `kill()` four, `buffer_fill_ += used` two.
- What runs in one thread without giving up control is one step: a handler of
  the editor or of the MotorMix with everything it calls. `writeAvailable` and
  `readAvailable` move one message per step; a call that moves several is several
  steps, as nothing else in that thread could tell the difference.
- `next()` and `select()` are mutually recursive in the code, three levels deep;
  they are written out as `NextIdle`, `Deselect`, `NextSource`.
- Undefined behaviour has its own outcome: `TornPointer`/`crashed` for the two
  threads inside `shared_ptr pb`, `wild` for an index beyond a table, `Garbage`
  for a colour beyond a palette, any value for `headControls[4..7]`; the second
  deletion of a saver or loader may crash the program or go unnoticed, as may the
  use of a deleted compressor. A failed assertion in the editor is `aborted`.
- The unsigned `pts.size() - offset` in `ILDANewPoints` is huge when the vector
  was cleared behind the offset; `Offered` models what the driver then takes.
- zlib, the disk, the XML reader and the MotorMix itself are external: zlib keeps
  as much as it likes and gives back what was put in; the disk takes what fits
  and then refuses; the surface sends two messages per key and obeys LED
  messages except for the one its firmware ignores.
- Operators whose comment begins with "Mutation of" are plausible bugs used to
  see that the properties can fail. No specification uses them.

## 3. Runs

| Run | Shows | Distinct states |
|---|---|---|
| `playback_list` | in every mode and sequence of calls: the current source is the front, nothing is in the list twice, SINGLE holds one, a lit indicator belongs to a selected position, a playing source that is removed is dumped; LOOP plays every selection again and again | 4,230 |
| `head_selection` | with three threads: no duplicates; the indicators settle on the selection (no ONCE); a deselected source that is still projected has its stop order queued (no MANUAL, no BEAT); a head with a selection, left alone, does not stay dark (no ONCE) | 1,139,781 |
| `laser_head` | after a kill at most one more source starts; dark stays dark; the head does go dark | 83,100 |
| `dummy_driver` | the unlocked counter stays within the buffer | 12,327 |
| `show_engine` | with loads, imports, drops and saves interleaved: every cell of the first grid ends up showing its slot; each mutex is held exactly as long as its job (or its queued completion) exists, and nobody deletes the job's thread before; what stays in the show during a save is in the file; an import from the menu is not forgotten by the unsaved flag; every save, import and load of a file that can be read to its end ends, unless the program crashes | 310,949 |
| `sequencer` | the index fits the table, `nextFrame()` returns, every child is shown | 145,317 |
| `control_surface` | the LEDs settle on the state of the heads, the driver knows which keys are down, the display shows the message whose timer is running, the queue empties again and again | 1,147,859 |
| `editor` | cells and editor share no node; the items show the source; no assertion fails in a playback, but for three cases that are named; nothing done in the editor changes a cell; what comes into a cell is a complete copy | 192,920 |
| `show_file` | the file is always a prefix of the whole one; a save is whole exactly if no write failed; loading implements `ByteStream`; loading a whole or empty file ends | 5,228 |
| `ilda_import` | the frames are those of a reference definition (`Meaning`) that reads the file as a whole; only the first source goes to the cell asked for | 1,067,594 |
| `resampler` | all the output that the input allows is given out and no point is written before its input is there; one `PointF` per point, none from an older buffer | 3,585 |
| `show_shutdown` (a violation) | quitting during a save or load: the mutex is given back by a slot of an event loop that has ended; the destructor polls for ever, though `engine.cpp:208` says it makes sure the threads have finished | |

A property that the code breaks in one situation is checked in all others, and
its comment names the situation. Two runs choose a *habit* in the initial state
to do so in one instance: in `HeadSelection` a user picks step modes either from
ONCE and LOOP or from LOOP, MANUAL and BEAT; in `FrameSequencer` a playback is
alone with all modes and repeats, or two share the sequencer without Pingpong.

### Where the code disagrees with what it says

Found while modelling; each is what the model does, and where a property is
concerned its comment says how the case is left out.

Selection and heads
- MANUAL: `currentIndex = next(true)` (`playbacklist.cpp:125`) is assigned after
  the lock has been given up; a click in between is overwritten, and the
  deselected source is projected (`playbacklist.h:28-30`). In BEAT, too,
  `getNextFramesource()` (`playbacklist.cpp:146`) goes on with `currentIndex`
  without asking `next()`, so a stale one is projected again.
- `selMode` is assigned after the truncation (`playbacklist.cpp:105`): a click in
  between makes a SINGLE list with two entries.
- ONCE: `next(false)` reports the source that is about to play as deselected
  (`playbacklist.cpp:170`; `playbacklist.h:54`); a late dump throws away the
  playback it should have made room for (`playbacklist.cpp:146`).
- `loadFrameSource()` tests `killed` and then stores `pb` (`head.cpp:161`):
  points reach the driver after kill has returned, though `engine.h:147` says
  "Kill all laser output". `AtMostOneLateSource` is what remains true.
- The comment at `playbacklist.cpp:60-62`, "already selected so deselect it",
  describes the first half of what the code does.

Engine and window
- "Do you want to save your changes?" and then open: the load clears the vector
  under the saver (`buttonwindow.cpp:293`). `SavesWhatStays` is about the rest.
- `saved()` resets the unsaved flag even if something changed during the save;
  drops and imports to a cell never set it; `saveFile()` ignores a refusal
  (`buttonwindow.cpp:277`); `fileName` is never set, so every save asks for one.
- A source stored between a new grid's construction and its connection stays
  invisible (`buttonwindow.cpp:207-211`).
- `saveShow()` and `loadShow()` delete the last thread object, then open the file
  (`engine.cpp:408`, `438`). If it does not open, the pointer stays and the next
  request deletes the object again. `JobsEnd` names the crash.
- Of several files named on the command line only one gets loaded
  (`main.cpp:59-60`; `engine.cpp:437`).

Show files
- `Saved()` reports "Show Saved" whatever `close()` met (`engine.cpp:382-390`);
  `saveCompressor` is used after it was deleted (`engine.cpp:415-417`); opening
  truncates the old show, so a crash during a save loses both.
- A short write is followed by another attempt with the whole buffer
  (`qtiocompressor.cpp:159`); on a full disk it fails, so the file stays a prefix.
- A file cut off in mid-stream may keep the loader busy for ever: `readData()`
  returns 0, `bytesAvailable()` says 1 (`qtiocompressor.cpp:486`).

Sources and editor
- Leaving Pingpong through one playback makes another's table shorter than its
  `pos` (`framesequencer.cpp:197`, an assertion).
- A sequencer leaves its last child after that child's first frame, and one with
  a single child and no repeats gives nothing (`framesequencer.cpp:118`); playing
  one without children aborts (`framesequencer.cpp:197`).
- `copyDataTo` assigns `colour_override` to itself (`colourrotator.cpp:139`) and
  leaves out a sequencer's `newMode`; harmonics are saved with fractions and
  loaded as integers. `CellsGetCopies` is therefore about nodes and pictures.
- `framesource_impl.h:87` says that `addChild()` also creates "copies of all
  playbacks in the parent"; it does not (`framesource_impl.cpp:41-66`). After a
  drop on a node that is being animated the next frame asks a playback that is
  not there, until an item is clicked. `AssertionsHold` names the case.
- A drop on a full colour modulator deletes the child's own first child
  (`editparams.cpp:52`), which fails an assertion if there is none.

Control surface
- `headControls[4..7]` are never initialised (`motormix.cpp:131-134`);
  `controlvalues[0]` and `[1]` are both values and history; a head is selected by
  the release of its key, too (`motormix.cpp:190`).

ILDA, resampler
- A palette below 256 colours, or a true colour table shorter than its frame, is
  read beyond its end (`loadilda.cpp:238`). `load()` returns a colour modulator
  above the sequencer where `loadilda.cpp:21-24` promises a sequencer.
- `PointF` number i is made of the floats i to i+4 of a buffer with five floats
  per point (`resampler.cpp:98-102`). `OnePointEach` is about the number and the
  origin of the points.
- What zita's `setup()` returns is not looked at (`resampler.cpp:56`). For a rate it
  refuses, `process()` does nothing and `run()` never returns. The 12000 to 30000
  points per second in use are not such a rate.

### Bounds

- `Slots`: three positions for the list alone (front, middle, back), two with
  three threads.
- `MaxQueue`: the user and the timer wait while two events are in the queues;
  what a single call emits is never cut. Two is the number that lets an event of
  one call be overtaken by another's.
- `SourceLengths` 0, 1, 2 frames; frames of 3 points against a buffer of 4, so a
  frame needs more than one call. 0 is an empty slot that is selected.
- `BUFFER_SZ` 7, `TickPoints` 2, offers up to 8: more than fits, less than fits, zero.
- `ShowEngine`: a file named on the command line and two requests of the user
  (`MaxRequests`; a save or load that does not start is not counted), so three jobs
  overlap; two files, one that cannot be opened;
  imports with a file that cannot be read. `GridSize` is 2, so that the third
  slot needs a second grid.
- `FrameSequencer`: three children with an empty one in the middle, two repeats.
- `ControlSurface`: five heads, so that one is beyond the four keys; the key of
  head 0 and shift, traffic of another channel; three messages on the cable, so
  that one of another device may come between the two of a key; two texts, so that
  one may take the other's timer; an engine queue of one; `headControls[4]` no
  control. The theorems are for queues of any length and any `headControls`.
- `Editor`: two cells and four changes (drops, parameters set, reloads of the
  show), enough to fill a colour modulator, drop on it again and drag the result
  back; eight addresses; a foreign text of two nodes with parameters that are not
  the default.
- `ShowFile`: a text of six with a buffer of two, pieces of one and three, reads
  of one and four; a disk that takes nothing, half, all but the trailer, all.
- `IldaImport`: all files of up to four sections out of fourteen (frames and
  tables that fit, that are short, empty, refused, unknown, no section), whole or
  cut off in name, header or items, then a second file.
- `Resampler`: buffers of three points, frames of 0, 1, 3 and 7, rates 2:5 and
  5:2 with a filter of half length one, and a rate that is refused (`MaxPhases`), four frames or changes of rate.

### Fairness

The threads are scheduled (`WF` on each thread's steps), the driver's timer
ticks (`WF` on `timeout`, `RequestMoreData`) and the MIDI device makes room for
another message (`WF` on `writeAvailable`): the code relies on all three. In
`ShowFile` the saver and the loader are scheduled. Nothing is assumed of the
user: no button has to be pressed, no file loaded. Liveness properties about
"left alone" say so with `<>[][...]_vars`. `JobsEnd` holds until the user quits;
what happens after that is `show_shutdown`. It is about files whose loading ends;
that of a file cut off in mid-stream need not (`LoadEnds` of `show_file`). The ILDA loader and the resampler are
checked for safety only.

## 4. Proofs

Each proof is for every value of the constants that satisfies the named
assumption of its module (positions, modes, sources, files, buffer and disk
sizes, rates: no bound of section 3 is used). It has the same shape: the initial
states satisfy an inductive invariant, every action keeps it (one step per
action, one below it per conjunct it can disturb), so it always holds, and each
property follows from it. The invariants were also checked by TLC on the runs'
instances, except that of `ControlSurface`, which says that a sequence of states
exists and cannot be evaluated; what follows from it is what its run checks.

`PlaybackListProofs` (assumptions: `NoSlot` is no position, the modes are modes)

- `IInv` says the object is `Formed` (types, no duplicates), `FrontOK` (the
  current source is the front), `SingleOK`, and what is lit is selected. None of
  these is inductive alone: that erasing one occurrence removes a position
  needs "no duplicates"; that `cur` is still the front after an erasure in the
  middle needs it too; and "one entry" is needed for SINGLE's rotation to keep
  the front. The lemmas of `PlaybackListCallsProofs` go bottom up along the code:
  rotation, shuffle and erasure of a sequence, then `next(false)`,
  `select(pos, false)`, `next(running)`, `select`, truncation, step,
  `getNextFramesource`. Signals are treated the same way: `LitOK` and `Dumps` say
  what a call adds to those emitted before it, as calls are made within calls.
- `TypeCorrect`, `CurrentAlwaysFront`, `NeverDuplicated`, `SingleAlwaysOne`,
  `LitAlwaysSelected`, and the action property `RemovalAlwaysDumps`.

`HeadSelectionProofs` (the same assumptions; any length of the queues)

- `NeverTwice`, `IndicatorsAlwaysSettle`, `DeselectedAlwaysStopped`.
- The two settling properties talk about empty queues or an idle head.
  `Announced` generalises the first: the indicators that everything queued would
  lead to are the selection at any time. The two queues
  are a pipeline: calls from outside append to the head's, whose first event moves
  on to the end of the engine's; and outside ONCE the head's own `next()` emits
  nothing that could overtake it (`CallInHead`). `Covered` generalises the second: what is
  projected, or is held between the lock and the load, is the *front* of the
  list unless a stop order is queued. "In the list" would not be inductive: an
  entry that is not the front is erased without a dump.

`OutputProofs`: `LaserHead` (any sources, frame sizes, buffer)

- `OneLateSourceAtMost`: `LateBound` adds to the property that a head which has
  passed the test of `killed` and not stored yet has not used its late start.
- `DarkForGood`, an action property: a dark killed head has no frame in hand
  (`EmptyHanded`), so no step of `dataRequested()` lights it.
- `TypeCorrect` includes that the driver's buffer is never overfilled, even
  when the unsigned difference wraps.

`OutputProofs`: `DummyDriver` (any buffer size, tick and offer), `FillAlwaysInBuffer`
and `TickDrains` (no tick raises the counter). The invariant says that room the head
has seen is still there when it writes, and that what the timer has read is not
above the counter: only the head raises it, only the timer lowers it, so the
updates that get lost never hurt.

`ShowEngineProofs` (any files, imports, drops, requests, grid size)

- `LocksAlwaysFollowJobs`: `OneEach` (a job is being cleared for, running, or
  completed and queued, never two of these; no completion is queued twice) and
  `ThreadsOK` (a job whose completion is queued still has its thread object)
  make it inductive.
- `AlwaysSavesWhatStays`: `SaveOK` says that what stays is still in the vector
  and that what the saver has passed of it is in the file.
- `ImportAlwaysUnsaved`: `MarkOK` says that while the import counts nothing is
  under way, in either queue, that would reset the flag.
- `FirstGridAlwaysConsistent`: `ViewOK` says that a cell which does not show its
  slot has a change on the way or about to be emitted; `ClearedOK` says that a
  slot which `loadShow()` has passed is empty or announced by a worker.

`ShowFileProofs` (any text, buffer, pieces and disk)

- `AlwaysPrefix`, `SavedAlwaysWhole`. Everything is a *run* of consecutive units
  of the intended file: `SaveOK` says that disk, zlib's store and the caller's
  buffer are three runs that follow each other until a write fails, and that the
  disk is full from then on.
- `FileIsStream`: `Spec => StreamSpec`, the refinement of `ByteStream`. `LoadOK`
  says that what the loader has got and what lies ready is the text among the
  units that inflate has used up, or that some was lost for good at the end of the
  file or at an error; so every step is a `Put`, `Open`, `Get` or `Close` of
  `ByteStream` or a stutter. (`ByteStream` states no fairness, so this is the whole of it.)

`OutputProofs`: `Resampler` (any rates, filter length, buffer and frame sizes)

- `KeepsPace`: the counters of the resampler are the remainder of a long
  division, (read + `nr` - latency) * out + `ph` = written * in, across the
  boundaries of blocks, buffers and frames (`RateOK`); a written point had its
  input (`CausalOK`).
- `AlwaysOnePointEach`: the result and the output buffer hold the points of this
  call, in order (`PointsOK`).

`SourceProofs`: `FrameSequencer` (any children, playbacks, habits, repeats)

- `IndexAlwaysInTable`. Between two calls `pos` may be left over from another
  table, so "in the table" is not inductive. `TablesFit` says that the table is
  as long as the mode wants it and that `pos` is in it from the test for the end
  to the call of the child: in between the table can only be replaced by one of
  the same size, as no other playback can adopt or leave Pingpong (`Undisturbed`,
  the case the property is about).

`SourceProofs`: `IldaImport` (any sections, files of any length, any palette)

- `FramesAlwaysAsMeant`. `Meaning` is defined over the whole file at once, the
  loader reads it from the front. `ReadSoFar` says that the frames collected are
  those among the sections read, and `TablesInForce` that the loader's palette
  and true colour table are the ones the definition picks for the section that
  comes next. Each kind of section then adds its frame or its table, or ends the
  file for both. The definition is by latest table and cardinality, not recursive,
  so no induction over the file is needed.
- `OneAlwaysGoesToTheCell`: `PlacesGiven` says that `idx` is the cell exactly
  as long as nothing has been added.

`ControlSurfaceProofs` (any number of heads, any keys, queues of any length, any
values in the uninitialised `headControls`, any texts; other traffic does not use the two
control numbers with which the MotorMix reports keys on its own channel)

- `LedsAlwaysSettle`, `KeysAlwaysTracked`, `DisplayAlwaysFollowsTimer`. They talk
  about empty queues, and three queues separate what is meant from what is so:
  the port's, the wire, the engine's events. `Leads` says that a receiver, if it
  takes all that is queued, ends up in a given state; the invariant says of each
  queue where that is: a surface that shows what the driver believes
  (`WillShow`), a parser that has heard which keys are down (`WillHear`), a
  driver that knows which heads project (`WillKnow`). A sender moves the end of
  such a run (`LeadsOn`), a receiver its beginning (`LeadsFurther`). A call of the
  driver keeps in step (`InStep`): from any surface that shows the old state, what
  it sends more leads to one that shows the new. This includes the two messages
  of an LED, the one the firmware ignores, and a message cut by another.
- `updateHeadStatus()` sends a sequence of messages per head. That
  the chain of them keeps in step for any number of heads is an induction over the
  heads; `SetInduction` derives it from the well-foundedness of the natural
  numbers, for a set of numbers in the place of a predicate.
- That no two keys and no two LEDs of the table `switches` have the same code is the
  assumption `CodesDistinct` of `MotorMix`: it speaks of a table written out in the
  module, and TLC evaluates it. So an event for one key is not taken for another's.

What the proofs changed in the model. `TypeOK` of `LaserHead`, `HeadSelection`,
`ShowEngine`, `ShowFile`, `Resampler`, `FrameSequencer`, `IldaImport` and
`ControlSurface` now gives every variable its type, as the first conjunct of an
inductive invariant must; `ControlSurface` assumes of the other traffic what its
instance for TLC always had, that it is no key of the surface; names are distinct
(`DriverSpec`, `ResamplerSpec`, `ImportSpec`) where one module has proofs about
several components; that no point is written too
early moved from `Resampler`'s `TypeOK` to `AlmostAllWritten`; the first empty
slot (`FirstFree`) and the bytes of a file (`Bytes`) are defined by a cardinality
and a subsequence, which the prover can reason about.

Only model-checked, and why:

- all liveness properties: temporal reasoning under fairness is out of the
  prover's reach;
- `Editor` (`NothingShared`, `ItemsShowSource`, `AssertionsHold`, `CellsStay`,
  `CellsGetCopies`): its trees are walked by recursive operators, with which the
  prover cannot work, and what they compute is an induction over the tree.

## 5. Not modelled

- Floating-point geometry, colours and drawing, dialogs, logging, the vendored
  colour triangle, and the files that are not built (`abstractframe`,
  `geometry.cpp`, `outputeffects.h`).
- The PortAudio driver: its stream is opened but `Pa_StartStream` is called
  nowhere, and no head is given the driver, so the callback that would race with
  the head never runs. The driver registry is filled before `main()`.
- `load()` of the playback list and `flush()` of the compressor are called
  nowhere; the compressor's other formats are never chosen.
- Several heads at once: the indicators they share (`engine.cpp:106`).
- A head's playback while children are added or removed: `FrameSequencer` has
  fixed children, `Editor` has no head threads; that they never meet is what
  `NothingShared` and `CellsStay` show.
- Dwell times (a child is a number of frames), coordinates and names in ILDA
  files, the arithmetic of the resampler's filter, fader motors.

## 6. Plan

1. Models: several heads and `selectHead()` with the indicators all heads share.
2. Proofs: `Editor`. This needs trees without recursive operators (reachability
   as a set that is closed under children) and, for copies, an isomorphism
   between the nodes that were copied and the new ones.
