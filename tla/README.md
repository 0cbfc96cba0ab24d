# Auscultate: TLA+ models, checks and proofs

This directory holds TLA+ specifications of Auscultate (an audio editor and
analyser, C++, `src/`): the parts whose correctness depends on order,
interleaving, failure, numeric edges or long sequences of calls; the TLC
configurations that check them on small instances; and TLAPS proofs of the most
important results for every value of the constants.

- [What the system is](#what-the-system-is)
- [Modules and the code](#modules-and-the-code)
- [Runs, bounds and what they show](#runs-bounds-and-what-they-show)
- [Fairness](#fairness)
- [What is proved, and how](#what-is-proved-and-how)
- [Where code and documentation disagree](#where-code-and-documentation-disagree)
- [Seen while modelling](#seen-while-modelling)
- [What is not modelled, and the plan](#what-is-not-modelled-and-the-plan)
- [Running everything](#running-everything)

## What the system is

The program is a set of libraries under one window (`sa-ui`) and one command
line (`sa-cli`). Paths below are relative to `src/src/`.

```
            user                                       loudspeaker
             |                                              ^
   sa-ui MainWindow, views, panels                          | callback thread
     |  applyEdit, undo, save       play/stop               |
     v                              v            callback   |
  sa-engine Document --snapshot--> sa-transport Player ---> sa-device
   Timeline Edits UndoHistory        | worker thread        ThreadedOutputDevice
   SessionFile Consolidate           v                      (ALSA, WASAPI) or
     |            ^              SpscRingBuffer             NullAudioDevice
     v            |                  ^
   sa-io files    +-- DocumentSource-+   ParameterSlot/PreviewStage in the callback
     ^
     |  read-only        sa-spectral tiles and their store on disk,
     +------------------ sa-analysis, sa-dsp on worker threads of the window;
                         all of them again, one command per process, in sa-cli
```

| Part | State | Operations | What is hard | What makes it correct |
|---|---|---|---|---|
| SpscRingBuffer (`sa-device`) | two indices over twice the capacity, storage | write, read, discard, reset | two threads, no lock, release/acquire | no slot is read while it is written; it is a FIFO queue |
| ParameterSlot (`sa-engine`) | three slots, two private indices, one atomic word | publish, fetch | two threads, values of several words, a relaxed load | never a torn value; the newest one, at most once; the last one arrives |
| PreviewStage, EqPreview (`sa-engine`) | slot, two processors, a fade | prepare, publish, setBypassed, reset, process | changes faster than fades, bypass, seeks | no step in the output, the settings heard are the active ones, it converges |
| ThreadedOutputDevice, OutputBlocker (`sa-device`) | running flag, mutex, handshake, thread handle, callback, a block | start, stop, render loop with rebuild | any number of callers, a callback that stops its own device, start-up timeouts, streams that break | one thread, silence once stop() returns, no leaked stream, callers answered, audio comes back |
| WASAPI, ALSA (`sa-device`) | client, events, watcher; PCM state, staging | openStream, runStream, closeStream, wakeStream | every platform call fails; endpoints go and the default moves | closed they hold nothing; nothing is written late; stop needs no timeout |
| NullAudioDevice, AudioDeviceManager (`sa-device`) | running flag, thread; list of devices | start, stop; refresh, open, openOrFallback | as above; devices that refuse | as above; each tried once, ends on one that works |
| Player (`sa-transport`) | device, ring, processor, range, position, flags | play, stop, worker, callback | three threads, short and failed reads, a start that times out | frames once, in order, at the reported position; stop is quiet; playback ends |
| Document, Timeline, Clip, Edits (`sa-engine`) | sources, clips in order, markers, an id counter | 13 verbs, render | overlapping clips, range edges, fades, partial failure | an edit changes exactly what it says |
| UndoHistory (`sa-engine`) | snapshots, labels, a cursor | commit, commitCoalescing, undo, redo, restore | depth limit, coalescing, abandoned branches | it is a line of versions |
| SessionFile, Consolidate (`sa-engine`) | files | saveSession, loadSession, consolidateSources | writes that fail, ids renumbered on load, files named by id | a reported save reopens as it sounded; a save changes nothing that is heard |
| MainWindow (`sa-ui`) | document, history, player, selection, clipboard, build, fetch | a hundred commands and verbs, export, scripts | worker results delivered late, event loops inside commands, context around a target | nothing stale is shown or applied; a command changes its target only |
| AnalysisPanel, LoudnessPanel (`sa-ui`) | worker, retired workers, generation, shared session | request, clear, deliver | late results, a panel that dies first | only the latest answer is shown |
| Views, EqCurveView (`sa-ui`) | a range and a selection each; bands, a drag | zoom, scroll, select, resize; press, drag, wheel, keys | they tell each other by signals while edits and builds arrive | they show one thing; a drag stays with its band |
| Settings, SettingsStore (`sa-ui`) | a map, a file | read, validate, write, place the window | other builds' files, hand-edited ones, files that cannot be written, kills, vanished screens | what was saved survives; the window can be reached |
| SpectrogramTiles, TileStore, Pyramid, FrameAnalyser (`sa-spectral`) | cached tiles by use, a directory, levels | ensureDetail, render, read, write, evict | budgets, crashes, several processes | no wrong picture; budgets hold; no click is lost |
| sa-io | decoder positions, headers patched late | read, write, recognise | torn files, odd chunks, bit packing, lengths told wrong | what is written reads back; reads start where asked |
| sa-dsp, sa-analysis | rings, positions, histograms | process, flush, reset, setRates | ring borders, rates, changes in mid-stream | each sample, level and window meet |
| sa-cli | none that outlives a command | one command per process | cut and unreadable inputs, writes that stop | success leaves a file, failure leaves none that looks like one |

Threads: the window's thread runs every command, edit and delivery of results;
the player has one worker; a device has one render thread that calls the
callback; each spectrogram build, detail fetch and panel request has a worker.
The callback shares the ring with the player's worker, and parameter slots with
the window. The hazards this makes, each at its line, are in `PROJECT.json`
under `hazards`.

## Modules and the code

The definitions that model code have their lines in `PROJECT.json` under `map`,
except helpers whose lines another mapped definition already names; what each
component leaves out is in its note under `components`.

### The callback

- **SampleQueue** is what a ring promises, a bounded FIFO queue of which a write
  appends a prefix of what it was offered. **SpscRingBuffer** is
  `SpscRingBuffer.h`: `write`, `read`, `discard` are sequences of steps (load own
  index, load the other's, copy a sample, store), and `readSeen`/`writeSeen` are what
  an acquire load returns: a value really stored, that may lag and never goes
  back. It refines SampleQueue (`ImplementsQueue`).
- **Mailbox** is what a slot promises: one place, newer values replace
  uncollected ones. **ParameterSlot** is `ParameterSlot.h` with the copies word by
  word in any order and the relaxed look at the fresh bit that may be old
  (`ImplementsMailbox`).
- **PreviewStage** is `PreviewStage.h` with EqPreview's processor, over a Mailbox. A
  sample is the weights with which each setting and the untouched signal are
  heard in it.
- **MCCallback** checks the three; `structure` says which a behaviour is about.

### Devices and playback

- **AudioDevice** is the contract of `AudioDevice.h` as its user sees it: on, unwinding,
  off, and the callback. That the callback is not replaced, and how soon a callback that
  stops its own device is left alone, each kind adds to it (`KeepsContract`).
- **OutputDevice** is `ThreadedOutputDevice.cpp` with the OutputBlocker. Control
  threads are at a `cpc`, render threads at an `rpc`; `lifecycle` is the mutex; the
  store of `running_` that `stop()` makes before it locks is a step of its own.
  What the platform does is a choice.
- **NullDevice** is `NullAudioDevice.cpp`. **WasapiStream** and **AlsaStream** are the
  platform functions OutputDevice takes for granted, with every call into the
  platform failing, the default endpoint moving, half-written blocks.
  **MCDevices** checks the four kinds in one run.
- **Player** is `Player.cpp` over the contract of AudioDevice and a queue with
  SampleQueue's promise. Frames carry the `take` (which `play()` read them) and
  their place, so that a frame of another playback is recognised.

### Editing and sessions

- **Edits** is, first, `Timeline.cpp`, `Clip.cpp` and the rendering of `Document.cpp` as
  operators; samples are integers modulo a prime and a fade's gain the exact
  quotient, so that two documents that ought to sound alike compare exactly.
  Over them it is all thirteen verbs of `Edits.cpp`: a verb returns a verdict and a
  document, and one that fails on the way returns the document as it left it.
- **UndoHistory** is `UndoHistory.cpp`, **EditHistory** the line of versions it
  stands for (`KeepsTheLine`). **Editor** is `applyEdit` and the commands that call it
  over both.
- **Session** is `SessionFile.cpp` and `Consolidate.cpp` with the window's open and
  save, over UndoHistory: every audio file and the session file may fail, ids are
  renumbered on loading, sources stream from files that are written again.

### The window's workers

- **LatestAnswer** is what a panel promises: only the answer to the latest
  question is shown, once. **Panels**, which is LoudnessPanel (one worker, joined
  before the next) and AnalysisPanel (superseded workers set aside and swept), and the
  spectrogram's build in **Window** implement it (`AnswersTheLatest`).
- **Window** is first `rebuildCaches`, the build, the detail fetch, their queued
  deliveries, edits that succeed and fail; then the analysis timer, `waitForAnalysis` with
  the events it processes, `normaliseToTarget`, and playback against the selection.
  **MCWorkers** checks the three.

### Recordings

- **TileStore** is the directory of analysed tiles that processes share, with
  crashes, power cuts and other writers. **Spectrogram** is the cached tiles of one
  spectrogram (`SpectrogramTiles.cpp`), its levels (`SpectrogramPyramid.cpp`) and the
  buffer frames are read through (`FrameAnalysis.cpp`).
- **AudioFiles** is the integer sample formats, the WAV and AIFF writers, with the
  file they leave wherever they stop, and the readers' walk over chunks; how a file
  is recognised and an MP3 measured; and the FLAC and MP3 readers over decoders that
  stand somewhere. **FlacWriter** plans, costs and emits subframes bit by bit, frame
  headers and stereo, blocks and STREAMINFO; a decoder that knows the format and
  nothing of the encoder reads them back.
- **PeakPyramid** is the waveform's summary, against the audio.
- **RateConversion** is Resampler and StreamingConvert: the position, the ring,
  which samples each output is made of. **Processors** is the limiter with its rings
  and detector, a linked pair, the gate, static curves and the offline passes; and
  Declick and Declip: which stretches are taken for damage, and what is done with
  a model's answers. **LoudnessMeter** is the meter with its gating, and the contour.
- **MCRecordings** composes them all; `layer` says which a behaviour is about,
  `subject` what the layers without state are asked.

### The programs

- **CommandLine** is every command of `sa-cli` as the sequence of its checks, reads,
  writes and reports. **Settings** is reading, validating and writing the map over
  several runs of several builds, some without a file, and saves that fail. **DeviceManager** is `AudioDeviceManager.cpp`.
- **TimeViews** is the ranges and selections of the views and the ruler.
  **WindowCommands** is every command by the span it reads, what it puts back and
  where, what it tells a script; clipboard, markers, trimming, export. The edits that may
  not apply once they have begun (`doesNotApply`: gain, fades and flattening, whose engine verbs
  work from clip to clip) stop playback, commit nothing and may leave clips changed
  (`halfChanged`; what they then sound like is in **Edits**); the verbs over whole ranges refuse
  only arguments no command gives them. A sample is known as the command it was new in and its place there; markers at one position come in any
  order (`std::sort` is not stable).
  **EqCurve** is the equaliser's handles and the verbs that move them.
- **MCPrograms** composes them; `part` says which a behaviour is about.

A model with several parts starts in one of them and leaves the others as they
began: it is the sum of their state spaces, not the product, for the parts share
no state. Where parts do share state they are one module or one refinement
(Editor over Edits and UndoHistory, PreviewStage over Mailbox, Player over
AudioDevice and SampleQueue, Session over UndoHistory, the tiles over the store's
answer).

## Runs, bounds and what they show

Twelve runs. Every property of a passing run has a mutant in `PROJECT.json`: a
plausible bug in a mapped definition with which the same run finds the property
violated. Bounds are named constants; each stops calls from starting and never
cuts one short.

| Run | Shows | Bounds and why they are enough |
|---|---|---|
| `callback` | The ring is a FIFO queue and no slot is read while it is written; the slot is a mailbox, never torn; curves are faded to without a step, the one heard is the active one, and the last change arrives | Capacity 3 with batches up to 3: every wrap, full and empty, a batch over the wrap, one larger than the room. Three values of two words: a torn value needs two words, an overtaken one three values. Fades of 2 and 3 over blocks of 1 and 2: within a block, over several, restarted |
| `devices` | One render thread, no stream leaked, callback never replaced under it, silence after stop(), a lone caller answered, streams rebuilt, the contract kept; a callback that stopped its own device is called for no other block (null device), chunk, buffer or period; WASAPI and ALSA hold nothing when closed, write nothing late, stop without a timeout | Two callers (three on the null device) and two thread names: a start() and a stop() around a third call; blocks of 2, chunks up to 3: inside a block, over its end, of two blocks. Two endpoints and the default |
| `player` | Frames once, in order, from the reported position; set-up unobserved; stop() quiet; calls return; playback reaches its end | Source 2, ring 1, blocks of 2: the ring is smaller than a block and than a read, so every write and read is split; two takes tell playbacks apart |
| `editor` | Timeline sound after any edits; each edit changes what it says; the history is a line of versions | A file of 3 samples, up to two edits with undo, redo and jumps, depth 2 (the smallest the code allows, so the oldest is forgotten); every range of every reachable document for the properties that look one edit ahead |
| `session` | A reported save reopens as it sounded; no save changes what the document and its history sound like | One session path at which any file may fail, two pieces of audio, up to three edits, depth 2: saving, undoing past a save, saving again, opening what was saved, saving it with new ids |
| `workers` | Only the latest answer is shown, whole; workers end before what they read; nobody stays busy; the button tells whether it plays; a normalisation nobody disturbs changes what it measured | Four calls to the meters, three to the analyses, six generations of the build over two documents, five gestures: a run superseded twice while it works, a command inside a command |
| `recordings` | What is written reads back, whole and nothing else, in every container; coding loses nothing; readers start where asked; store, tiles and memory keep their budgets and never show a wrong picture; no click or peak is lost at a zoom; conversion keeps time and length; limiter, gate, meter, contour and repairs do what they say | Two processes, a budget of four bytes and files of both sizes: eviction by either, of either's. Blocks of up to 8 three-bit samples, 4-sample residuals that need the escape, both sides of every code's limit. Sources shorter and longer than a block, a bin, a window. Rates 1:1, 2:3, 3:2, 2:1, 3:1: odd phases, growth and decimation. 15 sub-blocks: longer than the short-term window and its hop. Declick over three blocks, the last one short |
| `programs` | Every command of the tool leaves what it says; what is saved of the settings survives; playback comes up on something; commands change their target and their markers; views, ruler and handles keep together | Files told longer and shorter than they are, unreadable, empty, no audio; two changes over any number of runs of the window; four devices, one without rates; documents of 2 and 7 with contexts of 1 to 3: at either end, shorter than a context. Three commands, four gestures, five strokes: enough to remove a band under a drag and go on |
| `device_stop_race`, `edit_failure`, `failed_save`, `marker_walk` | Each refutes one sentence of a comment, a test or a document, see below | As the run of the module; two session paths for `failed_save` |

Deadlock is checked wherever the system should always be able to go on. It is not
in `workers` and `programs`, where a user may stop and a window may be closed, in
`marker_walk`, which stops at its bound, and in `recordings`, whose finite jobs
(a file written, a source converted) end. Symmetry in `session` is over the
pieces of audio and in `recordings` over the two processes, which no definition
tells apart; the view of `session` leaves out a history no action reads.

### Some properties, and why they are not evident

- `ImplementsQueue`, `NoSlotRace` need views that lag: each thread decides with an
  index that was true some time ago. `NoTornValue`, `ImplementsMailbox`: three
  slots change owners by two exchanges, and the reader first looks at a bit that
  may be old.
- `DevicesFallSilent`, `NoDeviceLeavesAnything`: `callback_` and the block have no
  lock; what protects them is that a thread is always joined first, on the path
  of a timeout and of a callback that stops its own device as well.
- `PlaysTheDocument` relates the callback's block, the ring, the worker's frames and
  two counters across three threads. `PlayerAnswers` excepts a failing source:
  then the position stays short for ever.
- `EditsStayInTheirRange`, `FadesRunOnce`, `RippleMovesEverything` compare what is
  heard before and after, at every position and for every range, on every
  document reachable by earlier edits.
- `WholeFilesReopen`, `SavingIsInaudible` depend on an argument that is nowhere in
  the code: ids are reissued by undo and renumbered by opening, files are named by
  ids and streamed from while new ones are written, and what keeps them apart is
  the counter.
- `AnswersTheLatest` is a refinement: results cross three checks of a generation
  that two threads change.
- `NeverTheWrongPicture` has to hold for files in any state a crash leaves, another
  process's included; `BudgetsHold` for the accounts of both.
- `CodingLosesNothing` compares the encoder's bits with an independent decoder.
- `CommandsKeepToTheirTarget` follows every sample from where it came: the context
  an effect reads around its target must be cut off again exactly, at both ends
  of documents shorter than it.

## Fairness

- Slot: a publish and a fetch that began go on, the callback keeps fetching, and a
  store becomes visible some time, which is what C++ asks of atomics. The ring
  claims only safety. PreviewStage: the device asks for block after block.
- Devices: calls go on, threads run. Strong fairness is only asked of the
  platform: that one of infinitely many attempts to reopen succeeds, and that a
  stream that runs again and again at last asks for a chunk. A mutex is granted to
  a waiter who could have it for ever, not to one it is available to now and then:
  `LoneCallReturns` therefore speaks of lone callers. WASAPI: the render thread goes on
  and a stop's wake and join are taken; none on the endpoint asking for data nor
  on the stop's timeout, which is what `StopNeedsNoTimeout` is about. ALSA: the
  render thread and the join.
- Player: calls, the worker and the callback go on, an unwinding stream ends (as the
  devices show), and a ring that has room or frames again and again is at last
  seen to have some.
- Panels and build: workers run, the window's event loop delivers. Of the build's
  queued delivery strong fairness: a posted event is reached although the user
  goes on acting between. Window: its timer fires, the meters answer (as
  `AnswersTheLatest` and `NobodyStaysBusy` show), the callback plays what the
  player's worker has queued, `followPlayhead` runs, a wait ends. A source that fails is under no
  fairness: it may or may not.
- Editor, Session, Recordings, Programs: no liveness, nothing runs by itself.

## What is proved, and how

All for every value of the constants, from the modules' named assumptions. These
say that sizes and counts are natural numbers and positive where the code divides
by them or makes buffers of them (capacity, block, batch, crossfade), that bounds
are natural numbers, that values which stand for "none" (`None`, `Nothing`, `Dry`) are
no data, that defaults are data (`Silence`, `Default`, `DefaultSettings`), and that a
history is at least two deep, which `UndoHistory`'s constructor sees to.

Each module of proofs has, for each component, an inductive invariant, one lemma
for every action or group of alike ones, and the theorems that follow.

**CallbackProofs**, for the run `callback`.

- The ring: `RingTypeCorrect`, `ViewsSafe`, `RaceFree` (`NoSlotRace`), `QueueImplemented`
  (`ImplementsQueue`). That an index stays in range after an advance needs that the
  advance is no more than the room, which was computed from a view that may be old.
  The invariant adds that the read index, the producer's view of it, the write index
  and the consumer's view follow one another around the doubled range within one
  capacity (`RingOrder`), that a write in progress fits between them and that a read
  in progress holds only what is written. RaceFree follows: the slots of a write are
  ahead of all slots of a read by less than one capacity. For the refinement
  `CopyInv` says what a write has copied so far and that what a read has copied is
  still there; a call takes effect where it stores its index.
- The slot: `SlotTypeCorrect`, `SlotsPermuted`, `NeverTorn` (`NoTornValue`), `MailboxImplemented`
  (`ImplementsMailbox`). The writer's slot, the reader's and the published one are three
  different slots; all but the writer's are whole; a copy in progress has the words
  it has copied; a fresh bit seen is still there. The two exchanges are the mailbox's
  two actions and everything else stutters.
- The preview stage: `CurvesAlwaysPlayWhole` (`CurvesPlayWhole`), `PreviewTypeCorrect`. The
  stage knows what was heard last: unless a reset has cut the sound off, the last
  sample is the mix the stage stands at, and taking up a change, wherever a fade is,
  leaves that mix as it is.
- `CallbackIsSafe` and `CallbackImplements` put the three together.

**DevicesProofs**, for the run `devices`.

- Hardware devices: `CallbackStaysPut`, `TypeCorrect`, `NothingLeftBehind`. Whoever is past the
  mutex is alone there, and a render thread exists only while the handle names it,
  which it does not from the join in `start()` to the new thread; so there is never
  more than one, and what it leaves of the stream and the block can be said for each
  place it is at.
- The null device, ALSA and WASAPI have their own: for WASAPI, what is held of COM,
  the enumerator, its watcher, client, event and format at each point between
  `openStream` and `closeStream`, whichever call failed.
- Together: `NothingIsLeaked` (`NoDeviceLeavesAnything`), `DevicesStopSilently` (`DevicesFallSilent`:
  of each kind, no thread, no client, no PCM is left when a stop() returns), and
  `DevicesAreAudioDevices` (`DevicesKeepContract`: each kind implements AudioDevice, the contract
  Player is written against; no callback is replaced under a thread; and what a
  callback that stopped its own device is still asked for, which rests on running_
  being false from then until a start() that has joined its thread).

**PlayerProofs**, for `player`: `DocumentIsPlayed` (`PlaysTheDocument`), `CallsAreUnobserved`
(`NothingRunsBehindACall`), `PlayerTypeCorrect`. The block being played, the ring and what the
worker holds are each a run of the source, and each begins where the one before it
ends. The block and the ring stay so whatever becomes of the worker, because a
stream that timed out while starting may go on calling back after the worker was
joined; the worker's part is claimed only while there is one. A new range is set
while neither is there, which is what the order of calls in `play()` and `stop()` is for.

**WorkersProofs**, for `workers`: `LatestIsAnswered` (`AnswersTheLatest`: meters, analyses and
the spectrogram's build refine LatestAnswer), `AnswersAreWhole` (`OnlyWholeAnswers`),
`WorkersAlwaysEndFirst` (`WorkersEndFirst`), `WindowAlwaysKeepsItsWord` (`WindowKeepsItsWord`). A run is
named by the generation it was started at and posts once, so results on their way
are distinct; none is of a generation that has not begun; one of the generation that
counts is on its way, or will be, only while its owner waits for it. For the
spectrogram, whose handlers are sequences of calls, the invariant says which
sequences of calls can be left to do, and that each raises the generation before
anything it disowns can be delivered. For the window: until a gesture disturbs it,
the command that waits is the only one, and what the meters show is what is on
screen.

**SessionProofs**, for `session`, and for the history in `editor`.

- `HistoryImplements` (`KeepsTheLine`), `HistoryTypeCorrect`: past, present and future are the
  parts of the list before, at and after the cursor; each operation is a lemma about
  SubSeq and Append; a commit beyond the depth forgets a prefix of the past.
- `SavesAreInaudible` (`SavingIsInaudible`), `SavedSessionsReopen` (`WholeFilesReopen`), `DocumentsStayWhole`,
  from the invariant of `SessionInvAlways`: audio that has no file yet in one of the
  versions held never has the number of a file another was opened from, and two made
  under one id are the same (`Compatible`, for any two versions in the history); the
  counter never goes back along the history (`CounterGrows`); every session that was
  reported names files that hold what it said, or is broken (`SessionsHold`,
  `SavedAsReported`). TLC has checked this invariant on the run's instance too.

**ProgramsProofs**, for `programs`: `CommandsAreTruthful` (`CommandsTellTheTruth`), for any files,
requests and blocks within `RequestAssumption`, `DisksAssumption` and `BlockAssumption`. A command
is a sequence of steps, so what is to be proved of every command is proved
of a shape: each that writes counts its arguments, is given what it writes by some
step, creates the file at a later one and then copies, finishes and reports (`Shape`);
the others never create one. For any command of that shape, what is in the file is
known from the step it is at and the frames it has copied (`FileKeeps`), what it copies
from once it is past the step that gives it (`RightSource`), and that the request was
right as far as the steps behind it ask.

`SomethingAlwaysPlays` (`SomethingPlays`), for any lists of devices within `ListsAssumption` (no two share
an id, the null device plays, rates are not 0), any configurations within `AskedAssumption`
and any limits within `FramesAssumption`, whichever devices refuse and whenever. What is
still to be tried is three groups of indices (`call.left`); the invariant (`ManagerInv`, which TLC has
checked on the run's instance too) says that they share none with each other or with what
was tried, that together they are all the list, and that a group is begun only when
those before it are empty. That the first of a group and the nearest of a device's
rates exist is the least element of a set of numbers (`LeastOfAll`), by well-foundedness;
what is granted follows from the arithmetic of `negotiateConfig` (`NegotiatedIsGranted`).

`ViewsAlwaysKeepTogether` (`ViewsKeepTogether`), for documents of any length and windows of any width
(`ViewsAssumption`: natural numbers) and for any rates, plot and number of bands
(`EqualiserAssumption`). For the views, `ViewsInv` says of the records that are handed from
view to view what should hold once all have been told (`Together`): each view's range fits its
document, clamped at the width there is (`Fits`), selections are ordered, within the
document and the same (`Paired`), and ranges are the same where the document is as long as the
plot is wide (`Aligned`); in a shorter one each view may keep its own length, and after a resize
the ruler waits to be told. A range that fits is taken by the other view as it is
(`FittingStays`), which is why telling once is enough and no signal comes back with another
range. Zooming divides twice with rounding; the sample under the cursor stays because what is
taken off again is counted at the length that was granted (`ZoomAnchors`). For the equaliser,
`EqInv` is the shape of the panel (`PanelShaped`), what it offers, and the truth of the last verb;
each gesture lets go or leaves every band its name (`PanelKeeps`), and changes the bands of one
name at most (`AllBut`): removal closes up the sequence around the others (`RemovedAt`), and a
band that is added has a name no other has, there being more names than bands
(`NameUnused`, by the pigeonhole principle). TLC has checked both invariants on the run's
instance too.

`CommandsAlwaysKeepToTheirTarget` (`CommandsKeepToTheirTarget`), for recordings and selections of any
length, any number of markers and commands, and contexts, windows and limits of any size
(`CommandsAssumption`: natural numbers; a blend and a block of the export have at least one
sample, `Silence` and `Lost` are no samples). The lemmas are in **CommandsProofs**, for WindowCommands
by itself:

- `CommandsInv` says what every document of the history, before and after the cursor, has in
  common (`DocHolds`): no sample is in two places, markers are in order of time and none is past
  the end, a marker whose sample is there is on it, and nothing is of a later command than the
  last; so what a command makes is in no document yet, and pasting over does not make
  a marker's sample twice. Of the command just done it says what the property asks of it
  (`DoneHolds`).
- The engine's verbs are lemmas about sequences: what is at every place when a stretch is left
  out, put in or replaced (`Without`, `Within`, `Replaced`), and that moved markers stay in
  order (`MovedHolds`). `CutOut` and `Rejoined` say that what was cut and put back is what was there.
- An effect reads its target with context on both sides, clamped to the document, works, and
  puts back less than it read; that what it puts back lies exactly where it came from is
  arithmetic over the two clamps. The blocks of an export are by induction over how
  many there have been (`ExportedIs`). TLC has checked the invariant on the run's instance.

`SettingsAlwaysSurvive` (`SettingsSurvive`), for files that hold any numbers under any keys, any
number of keys for the recent list (`kMost` is how many there are), of runs, with a file
and without, of changes, kills and saves that fail, and within `SettingsAssumption`: no edge of a screen wraps, no recent file's key is another's, a
window cannot be smaller than what makes it reachable, and the dialog offers valid
preferences. The lemmas are in **CommandsProofs** as well, for Settings by itself:

- `SettingsInv` says that a file reads as what had been chosen and opened when it was last
  written, or is the newer build's as it was found (`FileAgrees`); that a run's window holds what
  it read and what was chosen since, whether or not a save failed (`Agrees`), and knows whose file
  it is (`Knows`); and that whatever a window can be asked to write
  is valid, tidied and no longer than there are keys (`Fine`).
- `ReadBackIs`: a map written from such a window is read as it was. The recent list is read
  by one loop and remembered, last file first, by another, so that it comes back is an
  induction over both (`FromZero` states induction for sets of numbers): remembering
  a file that is not in a list puts it in front and leaves the rest.
- `ConfinedIs`: whatever numbers a window was saved with, even those whose edges wrap, what is
  placed has a handle's width and height on some screen. A window that is reachable stays
  where it was, and one that is centred is no larger than its screen or is at the minimum.
  TLC has checked the invariant on the run's instance.

**RecordingsProofs**, for `recordings`: `NeverAnotherPicture` (`NeverTheWrongPicture`),
`CachesKeepTheirBudgets` (`BudgetsHold`), for any processes, entries, sizes, budgets, sources and views
within `SizesAssumption`, `TilesAssumption` and `PicturesAssumption` (what `create()` insists on);
`ReadersAlwaysTellTheTruth` (`ReadersTellTheTruth`), for any files whose bytes could hold what they
hold (`ReaderAssumption`), whatever their headers claim.

- `StoreInv` of the directory: a whole file is what its name stands for (`FilesInv`); the order of
  modification lists exactly the files there are (`DirectoryInv`); each index lists what it knows
  once and its account is the sum of it, within the budget, and what the process is in the
  middle of keeps to that: an entry being read is known, one being written has room, counted with
  what it replaces (`Good`, `Promise`); a store that has the directory to itself knows every file and
  counts no less than it holds (`Covers`); a temporary file with an owner is the one its owner is
  about to rename (`TemporariesInv`). `VictimsMakeRoom` is what eviction is relied on for: an entry
  that is kept, replaced by one that is no larger than the budget, has room when the others go.
- `DetailInv` of the detail in memory: the list of recency is the set of tiles, each once, the bytes
  are theirs. For a fetch that the budget can hold it says more: what it came by is still there and
  comes before everything else in the list (`Leads`), so that eviction, which takes from the
  end, reaches none of it (`EvictKeeps`). TLC has checked both on small instances too.

- `DecoderInv` of a FLAC or MP3 reader: until a seek has failed, the decoder stands where the
  reader remembers it, so that a read that does not seek starts where it was asked to; and the
  count is the one opening settled on, decoded where the header cannot be believed. The
  theorem's one hypothesis, `LengthsAreGiven`, leaves out the FLAC whose header gives no length: that
  one is read wrongly (see "Seen while modelling").
- `FilesAreRecognised` is about `detectFormat` for any stream of three or more frames, any container
  (a FLAC and what only begins like one among them) and any window: a frame's space in bytes comes out the same through the tables of
  rates as through the time it lasts (`SpaceIs`), frames begin where the sums of their spaces
  say and no two in one place (`StartsAre`, `StartsGrow`), so that the chain is walked frame by frame,
  however much of it the window reaches (`ChainIs`).

What the two accounts need of sums, and what eviction needs of lists with entries left out,
is induction over data: the community's folds (`MapThenFoldSet`, `SumFunctionOnSet`, `FoldLeft`) are
recursive functions chosen by their equation, so that what they give follows from a set on which
the equation has a solution. `InductionOnNat` and `InductionOnSubsets` state induction for *sets* of
numbers and of finite sets, from well-foundedness and without an operator parameter; `FoldExists`
is the solution; `SumWith`, `SumWithout`, `SumOfParts` and `WithoutKeeps` are what the rest cites.

What is only model-checked, and why:

- liveness (`LastChangeArrives`, `CallsReturn`, `AudioComesBack`, `PlayerAnswers`, `NobodyStaysBusy`,
  `WindowSettles`): the provers have neither fairness nor ENABLED;
- what folds and recursive functions over clips, blocks, chunks and bits compute: the timeline
  and its verbs (`TimelineHolds`, `EditsStayInTheirRange`, `FadesRunOnce`, `RippleMovesEverything`), the
  coders and the files they write (`CodingLosesNothing`, `FilesSayWhatTheyHold`), peaks and levels
  (`PicturesShowTheRecording`), positions in converted and processed signals (`ConversionKeepsTime`,
  `ProcessorsKeepTheirWord`). Each would need an
  induction of its own, of the kind above, for every recursion it goes through; powers of two,
  `SelectSeq` and products of variables, on which many of them rest, the provers know next to nothing of.

## Where code and documentation disagree

Each of these has a run that ends in a counterexample.

1. `device_stop_race`: `ThreadedOutputDevice::stop()` stores `running_ = false` before it takes the
   mutex. A `start()` that runs in between sets it true again, and `stop()` joins a
   loop nobody asked to end, with the mutex held.
2. `edit_failure`: gains and fades over a range change the document before they fail.
3. `failed_save`: save, edit, undo past the save, save again with a failing disk, redo,
   save: reported as saved, and the audio of the file that failed is gone. The
   redone version has that file's path, so it is not written again.
4. `marker_walk`: `goToMarker` finds the next marker by samples and selects it through
   seconds, where `selectSeconds` cuts the product: for about one position in twelve at
   44.1 kHz the caret lands a sample early, and the next step finds the same marker
   for ever (`MainWindow.cpp:2040`, `docs/08-for-review.md:49`).

## Seen while modelling

Without a run of their own. Those marked with a property can be seen by giving
it to TLC: the definition is kept in the module, with a comment that it fails.

Callback and devices:

- "The thread unwinds after the current block" (`AudioDevice.h:94-97`, the same in
  `ThreadedOutputDevice.cpp:121-125`) holds of the null device only. A hardware device takes the
  platform's chunk from blocks in a loop that never looks at `running_`
  (`InterleavedOutput.cpp:148-159`), so a callback that stopped its own device is called again for
  as many blocks as the chunk still needs (`UnwindsAfterCurrentBlock` of OutputDevice, in
  `Devices.cfg`); it is not called for another chunk (`UnwindsWithTheChunk`, checked and proved).
- A default endpoint that moves while a stream is being opened is not followed
  (`WasapiAudioDevice.cpp:730`; property `PlaysOnTheDefault` of WasapiStream), and without a stop
  event (`CreateEventW` failed in the constructor) `stop()` waits its two seconds out.
- The processor copied when bypass is released has the filter state of the audio
  before the bypass (`PreviewStage.h:351`).
- The player's worker sets `sourceExhausted_` one turn after it queued the last frame,
  so a clean end can count an underrun, against `Player.h:102`.

Editing and saving:

- Splitting inside a fade changes what is heard. `crossfade` slides the second
  clip's audio (`Edits.cpp:278-281`, against `EditTests.cpp:291`) and can leave a clip of no
  length behind when it fails. `applyRangeFade` over a range with a single smaller clip
  fades from the clip's edge.
- `UndoHistory.cpp:27` says that restoring the id counter keeps ids from being reissued; it
  is what makes undo reissue them, harmlessly for the files of a session
  (`SavingIsInaudible`). `SessionFile.cpp:210` says ids are reassigned exactly as recorded; sources
  are renumbered.
- A session saved under a second name refers to the folder of the first; saving
  another document under the first name replaces what it needs (`Consolidate.cpp:29`).
  `saveSession` truncates the session file in place (`SessionFile.cpp:346`). `openSession` sets
  `sessionPath_` and clears it at once.
- An edit that fails restarts the spectrogram's build on the copy of the document
  from before (`MainWindow.cpp:1729`).

Window:

- `normaliseToTarget` applies a figure that was measured before a nested event loop in
  which the user may have selected or edited (`MainWindow.cpp:2926`; `ConformsWhatItMeasured` of
  Window, in `Workers.cfg`).
- A source that cannot be read to the end stops playback short of it and tells nobody: the
  position never gets there, and the button says Stop until it is pressed
  (`Player.cpp:199-203`, `MainWindow.cpp:1842-1846`). `WindowSettles` leaves that playback out.
- Every edit shows the whole document again (`MainWindow.cpp:1592`; `EditsKeepTheView` of TimeViews).
  The ruler is not told of a resize; zooming and scrolling in the waveform never
  asks for spectrogram detail; `followPlayhead` stops at the end of what is selected now,
  not of the range that plays.
- Cutting the whole document makes pasting impossible; a cut deletes although the
  read of what it copies failed; de-essing ignores the blend; `limitTo` writes back
  its whole context; deletions do not shorten the lengths of region markers; time
  stretching moves the markers inside its range to its end. Many verbs tell a script
  they succeeded when they failed: `highpass:` and `lowpass:` throw the answer away
  (`MainWindow.cpp:2237`, `3195-3214`), gains and fades that do not apply are shown in the status
  line alone (`MainWindow.cpp:2162-2165`). After one that changed clips before it failed, "Nothing
  changed" (`MainWindow.cpp:1726`) is not so, and where there is no history the change cannot be
  undone (`edit_failure`; `ScriptsStopAtARefusal` says what does hold). Exporting truncates the target before reading,
  which may be its own source, and a short read is still reported as exported.
- A refused `eqdrag` or `eqadd` has changed a band all the same: with two handles on
  one pixel the later band is dragged, and adding on a handle flattens that band
  (`RefusedVerbsChangeNothing` of EqCurve); `eqq` on a hidden curve says yes when the band is
  selected (`TurnsWhatItSays`). `eqremove` with two handles on one pixel removes
  the later band and says yes (`EqCurveView.cpp:425-428`; `RemovesWhatItSays`). Shift-dragging straight up also rounds the band's
  frequency to its pixel.
- What is chosen in the menus (format, dither, fade, floor, scale, colours) is not saved at once as
  the dialog's choices are (`MainWindow.cpp:818-820`): a run that is killed loses it
  (`MainWindow.cpp:610`). A save that fails is reported on stderr alone (`MainWindow.cpp:790-798`), and one
  that fails as the window closes is not tried again (`MainWindow.cpp:803`).
- A run of the window that was never shown writes the layout of its defaults
  (`MainWindow.cpp:764`; `UnshownRunsKeepTheLayout` of Settings). Two windows sharing the file overwrite
  each other, an older build a newer one's file.

Recordings:

- A FLAC file whose STREAMINFO says 0 frames is clamped to its beginning at every
  seek (`FlacReader.cpp:347`; with `MediaFiles <- Piped` in `Recordings.cfg`, `ReadsStartWhereAsked`). A
  FLAC file behind an ID3v2 tag is recognised and refused (`AudioFile.cpp:257`;
  `WhatIsRecognisedOpens`).
- "Short input is never misidentified" (`AudioFile.h:42-43`) holds of WAV and AIFF. A window that ends
  inside the tag in front of a FLAC takes it for an MP3, the usual one of 4096 bytes too when the
  tag is longer, and one of four to seven bytes takes any `fLaC` for a FLAC
  (`AudioFile.cpp:44-46`, `262-267`; `ShortInputIsNotMisidentified`).
- In a file cut short, the second channel's waveform is drawn from
  the rest of the first's (`PeakPyramid.cpp:243`; with `PeakSources <- CutWaves`, `PyramidIsTheAudio`).
- After a failed seek the FLAC and MP3 readers' remembered position is stale. RF64
  below 4 GB with chunks after the audio decodes them as audio. WAV labels bind to
  cues by order. The WAV writer does not pad data of odd length.
- The offline limiter zero-fills the last look-ahead and silences a span shorter
  than it (`OfflineLimiter.cpp:52`). With `StereoLink` at Average a full link clamps the louder channel
  alone. The gate's hold is not refilled in the hysteresis band (`Dynamics.h:183`). A limiter
  whose settings change under a signal has level and sample misaligned for one
  look-ahead.
- Damage longer than `maximumGap` is "counted and left alone" (`Declick.h`) unless it lies
  over the border of two blocks: each half is judged by itself, and a short half is
  repaired from the other's damage (`LongDamageIsLeftAlone` of Processors).
  `DeclipReport::detectedCeiling` is not zero where nothing was found (`Declip.cpp:95`).

Command line:

- "Writes nothing to stdout on failure" (`main.cpp`, `usage()`): a command of several inputs that
  fails at a later one has already printed figures for the earlier ones
  (`FailsInSilence` of CommandLine). A failure should not leave "a plausible short file"
  (`main.cpp:322`): a FLAC that stopped half way is one (`NoPlausibleShortFile`). An output that is its own input destroys the recording
  and exits 0. `--dither` is ignored for 8 and 32 bits without a word; an invalid `--rate` is
  found after the output was truncated; whole-file commands pad cut inputs with
  silence. `MANUAL.md:96` says exports are always WAV; the suffix decides.

## What is not modelled, and the plan

Left out of what is modelled: channel layouts beyond a few, fade shapes beyond
one, markers and names in sessions, names and texts of dialogs and reports,
pacing and other bounded waits, WAVE_FORMAT_EXTENSIBLE and AIFF-C's compressions,
MD5 and checksums, coefficients of filters.

Not modelled: filters, transforms, time stretching, dither, spectral repair,
pitch, tempo, key, room and octave measurements, whose correctness is numeric
and tested against references; drawing and layout; DocumentSource's own copy of
a document; packaging, benchmarks and third-party code.

What follows is proof, with an invariant to be checked by TLC first: the levels of the
spectrogram and of the waveform (`PicturesShowTheRecording`), by induction over the levels.

## Running everything

In this directory, `tlc -workers 2 -config Session.cfg Session` (and likewise for
each entry of `runs` in `PROJECT.json`) checks a run, `tlapm CallbackProofs.tla`
checks a module of proofs. The longest run, `recordings`, takes about three minutes
on two cores.
