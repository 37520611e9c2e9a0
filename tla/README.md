# Y2Reborn in TLA+

Y2Reborn is the firmware application of a small music player: one Rust process
(`app/reborn`) that shows the screens, keeps a queue, decodes files and radio
stations, and plays them through a wired or a Bluetooth device, on a machine that
sleeps, loses its SD card and its headphones, and is switched off at any moment.
This directory models the parts of it whose correctness is a matter of *order*:
which thread did what first, which answer came too late, which start was
abandoned half-way, which of two files a power cut left.

Contents: (1) the system and its parts, (2) how the project is laid out and what
is left, (3) the modules and the code they stand for, (4) the runs, (5) the
bounds, (6) the fairness, (7) the proofs, (8) where the code and its words
disagree, (9) what is not modelled, (10) how to run it all. Paths are relative to
`src/`, crates to `src/crates/`.

## 1. The system

| Part | State it keeps | Talks to | What makes it correct | Module |
|---|---|---|---|---|
| **Playback calls** `app/reborn/src/playback.rs` | `epoch`, `hold`, `click` (atomics), the pending start, `sink_released`, four bounded channels | main thread calls it; it commands two threads | an open only after an acknowledged release; every start is answered; a late answer is nobody's | `Pipeline`, `Transport` |
| **Sink thread** `playback/output.rs`, `sink.rs` | the open device, a *kept* device, the stream it plays, its end | commands and stream items in, events and answers out | one device; only the current stream sounds; an end is reported last | `SinkThread` |
| **Decode thread** `playback/decode.rs`, `stream.rs` | the job, the song opened ahead | stream channel to the sink, events to the main thread | gives up when the epoch moved; never holds a file for good | `DecodeThread`, `NextSongs` |
| **Transport** `runtime/transport.rs`, `runtime/audio.rs`, `main.rs` | generation, state, `held_since`, `seek_until`, the pending reconfiguration with its snapshot | `Playback`, the model | a pending start is polled to its end; what plays has a stream; a pause holds | `Transport`, `Playback` |
| **Main loop** `main_loop.rs` | the order of a pass | everything | events, inputs and observations of a pass meet a consistent model | in the modules of what it calls |
| **Observation gate** `background.rs` | generation, `active`, the known sources, `prepared` | main loop, watchdog thread | no read while sleep is acknowledged, no stale answer counts | `BackgroundGate` |
| **Sleep** `runtime/sleep.rs`, `runtime/idle.rs` | `sleep_prepared` | playback, gate, tasks, scanner | nothing runs while prepared, everything resumes | `Transport`, `BackgroundGate`, `PlatformTasks`, `LibraryScan` |
| **Play queue** `reborn-core/src/{lib,queue}.rs` | entries with ids, order, queued songs, position, shuffle, repeat | transport; the decoder keeps a copy of what is next | an id names one entry; the decoder follows the edits | `PlayQueue`, `NextSongs` |
| **Scrobbling** `scrobbling.rs`, `reborn-core/src/scrobble.rs`, `reborn-platform/src/{scrobble,lastfm}.rs` | the tracker, the file of plays, the account, the batch sent | a sender thread, files, the network | what was heard counts, once, for its account; a crash loses none | `Listening`, `Scrobbles` |
| **Output choice** `outputs.rs`, `bluetooth.rs` | `AutoOutput`, `LostPeer` | Bluetooth states, transport | the output follows headphones and hand; a wait ends | `Outputs` |
| **Volume** `volume.rs`, `runtime/audio.rs`, `effects/sound.rs` | volumes per output, the safe level, the agreement | transport, AVRCP | no output's volume is changed by the other; louder only as agreed | `Volume` |
| **Wi-Fi** `reborn-platform/src/wifi.rs`, `runtime/radios.rs` | the join under way, the owner's choice, the supplicant's networks | the supplicant, the menu, the idle timer | what is saved connected once; no right password is called wrong | `Wifi` |
| **Platform tasks** `reborn-platform/src/client.rs`, `runtime/platform.rs`, `effects/system.rs` | one slot, one worker, the update screen, the wish to sleep | main loop, worker thread | the slot and the worker agree; a wake sticks | `PlatformTasks` |
| **Library** `reborn-library` | database, scanner, folder records, quarantine | main loop, card, sleep | songs leave only with their files; no database is lost | `LibraryScan`, `Quarantine` |
| **Books, session** `books.rs`, `reborn-core/src/books.rs`, `runtime/transport.rs` | a place in each book, in two files | transport, power | every book is where it was left | `Bookshelf` |
| **Radio** `runtime/radio.rs`, `reborn-ui/src/selects.rs`, `reborn-platform/src/radio.rs` | lists, requests, favourites, the station; one fetcher per station | directory, decode thread, curl | what is shown, played and stepped through agree; a drop ends | `Stations`, `RadioStream` |
| **Playlists** `playlists.rs`, `reborn-platform/src/playlists.rs`, `reborn-ui/src/playlists_ui.rs` | the files, the worker's jobs, the copies on screen | library scans, a computer | the screen shows the files; an edit hits the chosen song | `Playlists` |
| **Buttons** `reborn-platform/src/input.rs`, `reborn-ui/src/{quick_menu,actions}.rs` | what is down, how long, what was cancelled | the kernel, the screen, sleep | a press means one thing, none sticks | `Buttons` |
| Dark mode, covers, storage, power and headphone controls, control socket, user interface, media and audio devices | – | – | – | none, see 9 |

How playback interacts: the main thread never touches a device. It names every
stream with a *generation*, stores it in `epoch`, and sends `Open`, `Stop` and
`Switch` to the sink thread and `Load` and `Stop` to the decode thread. The
decoder sends PCM, boundaries and ends to the sink thread; both send events to
the main thread, which applies those of its own generation. A release
(`stop_and_wait`, `switch_and_wait`) blocks the main thread until the sink thread
answers or two seconds are over; a start is asynchronous, polled by every pass,
with a deadline of five seconds.

The other parts hang on the main loop by channels: each has a worker (watchdog,
platform client, Wi-Fi and Bluetooth clients, scrobble sender, database and
scanner, playlist worker, one thread per radio request), takes requests without
waiting and answers in its own time. They share little state with each other,
but all of them are disturbed by sleep, by restarts and by files.

What is hard, and what the hazards of `PROJECT.json` list line by line:

* *order* between threads on bounded channels, with commands that were sent and no
  longer count, generations given twice, answers to older requests;
* *time-outs* whose command stays in the channel and is answered later;
* *partial failure*: a load, a seek, a start, a join, a quarantine that ends
  half-way and rolls back to something that is no longer so;
* *copies*: the decoder's copy of the next songs, the screen's copy of a playlist,
  a place both in the model and on the shelf, a volume for each output;
* *sleep, storage and Bluetooth* acting between any two of those steps;
* *files* that a power loss cuts (session, shelf, scrobbles, database, playlists).

## 2. Layout

One module per component, parameterised by constants with a named assumption;
`Playback` composes the threads of the pipeline; `AudioDevice` is the abstract
specification it implements. The `MC` modules give TLC its instances, the `Proofs`
modules hold the theorems.

| Component modules | Instances | Proofs |
|---|---|---|
| `Pipeline`, `SinkThread`, `DecodeThread`, `Transport`, `Playback`, `AudioDevice` | `MCPlayback` | `PlaybackTypes`, `PlaybackProofs`, `StreamProofs` |
| `BackgroundGate`, `Outputs`, `Wifi`, `PlatformTasks`, `Scrobbles`, `RadioStream`, `Playlists` | `MCLinks` | `BackgroundGateProofs`, `LinksProofs` (the rest but one), `ScrobblesProofs` |
| `PlayQueue`, `NextSongs`, `Listening`, `Bookshelf`, `Stations` | `MCSongs` | `SongsProofs` |
| `LibraryScan`, `Quarantine`, `Volume`, `Buttons` | `MCHardware` | `HardwareProofs` |

The order of work followed the harm: a wrong pipeline is heard at once and everything
else feeds it; then what loses the owner's data (plays, places, database, playlists);
then what leaves him without an answer (Wi-Fi, tasks, outputs, radio). What is left, in
the order it would be worth doing: covers; the screen's own pages.

Operators named `X_Something` next to an operator `X`, commented "Plausible bug", are
mutated forms of it. `PROJECT.json` lists which property each of them breaks, so every
property is known to fail on a plausible mistake in the code.

## 3. Modules and code

### The playback pipeline

**`Pipeline`** declares what the threads share: constants, variables, the messages of
the channels, and `Offer`, the `try_send` whose failure the code ignores. Messages
carry, next to the generation the code sends, the number of the start they come from
(`job.id`): a history value that no action reads and with which properties notice what
generations alone let through.

**`SinkThread`** is `SinkWorker` of `playback/output.rs`. `spc` is the place in its pass:
`commands` (all that wait), `stopped`, `hold`, `receive`, `write`, `drain`, with
`opening`, `clicking` for the device calls that take time and `emit` for the blocking
send of an event. `sink` and `kept` are the two device handles.

**`DecodeThread`** is `DecodeWorker` of `playback/decode.rs` with `send_stream_item`. It
looks at its commands only between two jobs, so `epoch` is what ends a job.

**`Transport`** is the main thread: `Playback`'s calls, and the transport that makes them.
`pc` is the stage of a pass (`poll`, `seek`, `input`, `events`, `control`) or the step of a
blocking release (`asking`, `waiting`, `planning`, `starting`, `stopping`); `txn` is the
call in progress and the snapshot it would restore, `pending` the
`PendingReconfiguration`. One action per effect (`TogglePause`, `PlaySong`,
`StepWhileStarting`, `SeekBy`, `WheelClick`, `SleepRequest`, `SdRepair`) and per stage
(`ApplySeek`, `HoldLimit`, `TrackEnded`, `PeerLost`, `SourceChange`, `CardRemoved`,
`PrepareSleep`, ...).

**`Playback`** composes the three and states the properties. **`AudioDevice`** is the
abstract specification: an exclusive device with three kinds of users, each of which
opens it only when nobody has it. The refinement mapping is `DeviceUsers`: the stream
(open or being opened), the kept sink, the probe of a plan.

What is one step, and what is left out: within one call of the main thread the stores to
`hold` and `epoch`, the cancel and the loss of the pending start are one step with the
sends that follow; the sends of a release, its wait and its time-out are steps of their
own. The sink thread reads `epoch` and `hold` in separate stages, so it sees them change
between any two. A failed read can happen at any time, so the decoder's `Cancel` (which
makes one fail) adds nothing. Time is a choice: a deadline that runs may pass at any
moment. The queue is a choice here (a next song, the same again, none). A device is
closed, in the model, in the step before the event that reports the end or the error; in
the code just after that send, by a thread that takes no other command meanwhile.
Playback actions of the control socket come in at the stage `input`; in the code a later
stage of the same pass calls the same functions. Levels, fades, positions, shutdown and
the route change a wheel click may cause are not here.

### What is heard

**`PlayQueue`** has each operation of `queue.rs` as a function of the queue, which is one list in
play order: what played, the song playing, the songs the user queued, the rest of the source.
Sorting is by rank (`Arranged`), so that a removal, an arrangement and a natural order are one
definition each, and none needs recursion. **`NextSongs`** makes it a system: the user edits, the
decode thread knows a copy of the next entries, opens the first one ahead, and announces
boundaries that the main loop applies later; the copy is replaced through one slot.

**`Listening`** is the tracker of `scrobble.rs`, fed once a frame with the entry playing and
the position last reported, whole seconds that trail the audio. What sounded is history,
kept beside it and compared.

**`Bookshelf`** is the place in every audiobook: the model (the book that plays), the shelf
(the others) and the two files `books.json` and `session.json`, written by a checkpoint at
different times. Either write may fail, before its rename or after it: the session then stays
to be written, the shelf does not (`Writes`; the flag of what is dirty is the session's). `left`
is history, where the listener left each book, and so is `unwritten`, that the last write of the
shelf failed.

**`Stations`** is internet radio in the main thread: requests answered by threads of their
own in any order, lists that are here at once, favourites and their file, starts that fail
early or late. A list is the set of its stations, in the order of their keys; a row is the rank
of a station in it, and Previous/Next go to the one that comes before or after. The queue's track
is saved with the session and comes back at the next start, paused, when nothing of the screen
does; Play then starts it (`PlayCurrent`). `restored` is history: the queue's station is still
the session's. **`RadioStream`** is one station being received, from `Stream::start` to its
drop: the decode thread, the fetcher, curl after curl, the slot from which the drop kills
one, the pipe.

**`Playlists`** has the files, the playlist worker with its jobs and answers, and the pages and
menus that name an entry by its position; scans tell the worker what they met, and a computer may
change the files. A write that fails may have renamed the file already (`WriteFails`), and a
reading of the lists leaves out what cannot be read. What the answers on their way make of the
screen is, for each file, what the last of them that is about it says.

### What answers to the world

**`BackgroundGate`** is `background.rs` with the parts of the main loop and of the watchdog
that use it. `mpc` is the main loop's place, `wpc` the watchdog's step inside
`Authority::run`. `era` counts what makes an earlier answer stale and is history. Atomics are
sequentially consistent: the code's orderings are a store-buffering pattern whose
read-modify-writes order both sides on the machines it is built for.

**`Outputs`** has the automatic move to headphones, the peer that dropped, the Play that waits
for it, and the states of the Bluetooth daemon on their way through a client thread that
keeps only the newest. **`Volume`** has the player's volume, the amplifier's level, the safe
level and the agreement to more, and headphones with a volume of their own whose echoes
come late. In both a start begins and ends in one step each.

**`Wifi`** is the Wi-Fi thread (`run`, `PendingJoin`, `Scan`) with the supplicant as external: it
keeps its networks while the radio is on, reads its file again when it comes back, and numbers the
networks anew. Networks are a set of numbered blocks, a join changes only its own; what the thread
hears of a join is one event after another or the end of its time. The menu, the owner's choice
and the idle timer are the main loop's part. The player itself may end at any moment and start
again, with the radio and the supplicant as they are; `untried`, `leftOff` and `missed` are
history, what such an end left behind (the network of a join, those it had switched off, a radio
off in the dark).

**`PlatformTasks`** is the slot for one task, the worker behind a channel of one, the update
screen, the periodic observation and the way to sleep. `app` is the main thread's state.

**`Scrobbles`** has counted plays on their way: the file they wait in with its torn end, the
accounts, the sender thread, and crashes between any two file operations. `accepted`,
`doubled`, `gone`, `doubt` are history: what Last.fm took and what is lost.

**`LibraryScan`** is the scanner thread and the database worker on a card that may be pulled,
swapped or changed at any moment: full and quick scans, folder records, batches, pruning,
sleep. **`Quarantine`** is the start of the database: a damaged one is moved away with its
sidecars under a marker, every rename a step that may fail or be the last before a crash.

**`Buttons`** turns records of the kernel into presses, holds, releases and cancellations
(`InputManager`), those into actions (`ActionRouter`, the keyboard's arrows, the Quick Menu's
hold to turn off) and applies them. A press is known by its number, history again.

### Instances

**`MCPlayback`** names the sets of disturbances. **`MCLinks`**, **`MCSongs`** and **`MCHardware`**
each take several components that share no state. A behaviour is one of a single component, the
one the variable `part` names and never changes: the states of the components add up instead of
multiplying, and one configuration gives all of them their bounds. The components are extended, so
that a run and a theorem state one and the same definition.

## 4. Runs

| Run | Asks | Instance | Result |
|---|---|---|---|
| `playback` | `TypeOK`, `StreamsApart`, `WaitsAreBacked`, `EndIsLast`, `DeviceIsExclusive` | undisturbed, 2 starts, 2 inputs, 1 block, 1 boundary | holds |
| `interruptions` | `StartsAreSound` | lost peer, media change, changed transport, missing track; 2 starts, 3 inputs | holds |
| `services` | `OneDevice`, `ReleasedIsSilent` | wheel clicks, hold limit, card repair, sleep; 2 starts, 3 inputs | holds |
| `liveness` | `WaitsEnd`, `DeviceRests`, `DecoderLetsGo` | event channel of one, a boundary, 2 starts, 1 input | holds under `FairSpec` |
| `links` | `QuiesceIsSilent`, `AcceptedIsFresh`, `OutputFollows`, `SavedNetworks`, `OwnerIsServed`, `TasksAgree`, `WakeSticks`, `EachPlayOnce`, `OneTransfer`, `ScreenIsFiles` | the seven components of `MCLinks` | holds |
| `progress` | `WaitingEnds`, `JoinsEnd`, `UpdateScreenEnds`, `StaleRequestForgotten`, `DropEnds` | those of them that wait for something | holds under `LinksFairSpec` |
| `songs` | `QueueInv`, `FollowsQueue`, `EditsKeepTheQueue`, `UserKeepsQueued`, `HeardIsHeard`, `PlacesKept`, `CleanIsSafe`, `StationsAgree` | the four components of `MCSongs` | holds |
| `hardware` | `LibraryIsTrue`, `SleepIsQuiet`, `DatabasesAreSafe`, `VolumeIsAgreed`, `OneMeaning`, `NothingSticks` | the four components of `MCHardware` | holds |
| `pause_race`, `loud_after_loss`, `song_moved`, `mark_lost` | `PauseHolds`, `LoudOnlyIfAgreed`, `EditsHitTheChosen`, `MarkHolds`: a statement of the code's own comments or documents each | only what the disagreement needs | violated, section 8 |

The properties, in words.

*Pipeline.* `OneDevice`: of the playing, the kept and the device being opened there is one.
`ReleasedIsSilent`: while `sink_released` stands, nothing plays, is opening, or is queued to open;
this is the guard `begin_start` relies on, and it must survive releases that time out and are
answered after all. `DeviceIsExclusive`: every step of the pipeline is one of `AudioDevice`, the
plan's probe included. `StreamsApart`: the sink thread and the events compare generations, and
rolled-back starts give a generation again; still, the block being written is of the open stream,
and an event the model accepts is of its last start. `StartsAreSound`: a start's stream is the one
that sounds, and an unanswered start has its one `Open` in the channel or at work. `EndIsLast`:
the end of a stream is reported after everything of it. `WaitsAreBacked`: a pending
reconfiguration has a start to poll, and what is reported playing has a stream that is opening,
decoded, on its way, played, or about to report its end; that is asked of a player nothing
disturbs (section 8). `WaitsEnd`, `DeviceRests`, `DecoderLetsGo`: a start is answered without its
deadline, buffering ends, an idle player closes its device, a replaced job ends.

*Songs.* `QueueInv`: the parts of the queue fit, ids are distinct, queued songs are one block.
`FollowsQueue`: with nothing on its way the decoder goes on with what the queue shows.
`EditsKeepTheQueue`, `UserKeepsQueued`: an edit keeps the song playing and the others; a
queued song leaves only by being heard or removed. `HeardIsHeard`: half of what counts was
heard. `PlacesKept`, `CleanIsSafe`: every book is where it was left, in the player, and, when
nothing waits to be written, after a power cut too; when the last write of the shelf failed, the
book in the session alone. `StationsAgree`: the list is the one asked
for, a page that loads has an answer coming, stars are in the file, the station shown is the
one that plays and in the list Previous/Next go through; of the session's station, none is shown and
there is no list, until another is chosen.

*Links.* `QuiesceIsSilent`, `AcceptedIsFresh`, `StaleRequestForgotten`: the gate's promises.
`OutputFollows`, `WaitingEnds`: a Play after a loss waits for the headphones and that wait ends; a
connection moves the output once. `SavedNetworks`, `OwnerIsServed`, `JoinsEnd`: what the
supplicant's file holds connected once, is enabled and is there once, but for what a player that
ended within a join left there; no right password is called wrong, and the radio is what the owner
chose, unless he switched it off in the dark or the player ended there; a join ends. `TasksAgree`,
`WakeSticks`, `UpdateScreenEnds`: slot, channel and worker agree; a wake is not undone by an older
wish to sleep; no update screen without an update. `EachPlayOnce`: a play reaches its account, at
most once, and is never lost, by one sender at a time. `OneTransfer`, `DropEnds`: one transfer per
station, none after its drop, and a drop ends. `ScreenIsFiles`: once the answers came, the screen
shows the files, but for one that a computer changed, a failed job left or no reading got since.

*Hardware.* `LibraryIsTrue`: nothing leaves the library wrongly and nothing wrong stays.
`SleepIsQuiet`: nothing writes it while the system sleeps. `DatabasesAreSafe`: a damaged database
is set aside whole, wherever that is cut short, and no database is opened with another's sidecars.
`VolumeIsAgreed`: nothing makes a playing wired stream louder than both its volume and the safe
level of its amplifier unless the listener agreed; headphones that hold a volume keep it, and the
jack's own stays put aside, whatever start fails meanwhile. `OneMeaning`: a press is short or
held, never both; a lost one is nothing; one of the dark only wakes. `NothingSticks`: with every
button up and every record read, none is kept as pressed.

Deadlock is checked in the passing runs of `MCPlayback`: a pass of the main loop is always
possible, or the wait it is in has a time-out. It is off where components stop because their
bounded choices are used up (`MCLinks`, `MCSongs`, `MCHardware`), and in violation runs. `links`
is symmetric in the accounts, `songs` in the songs `Listening` tells apart by nothing; the runs
with liveness use no symmetry.

## 5. Bounds

*Pipeline.* A hazard is between one start and the next, with one thing that goes wrong in
between: two starts and two or three inputs are the shortest sequence that has a start
replaced, refused or rolled back with a stream of the replaced one still in flight.
Generations are not bounded by a constant; they follow from starts and inputs, and reuse
after a rollback does occur (the mutant of `NextGeneration` exploits it). One block and one
boundary let a stream be empty, short, and change songs inside. Channels of one and two are
both full and empty within a song; the code's 8, 4, 8 and 64 would only fill more slowly, and a
full command channel (`Offer` losing a `Stop`) is reached. `MaxStarts` and `MaxInputs` disable
the action that would exceed them; the pass goes on. The theorems of section 7 need no bound.

*Links.* The gate has generations for two sleeps and two media changes, so an answer may be two of
either behind. Two peers and five changes let one leave while the other comes and a Play waits. A
wait and a window of two ticks have a first, a last and an inner moment. One network saved before,
another name, one restart of the player and two asks let a join be cut by everything that cuts
one, and be repeated after it. Five tasks fill the slot, the channel and the worker while sleep
and the update want one too. Three plays, two accounts, a batch of two and a crash let a batch be
cut, retried after a crash and met by another account. Two streams of one station, the code's six
tries and a pipe of one item let a drop meet every step of the fetcher. Four playlist files (the
favourites, two in the player's own folder, one elsewhere on the card), of which one is there at
first, and three outside events let the copies be two changes behind.

*Songs.* A queue of three entries over three songs, one unplayable, with four edits and two
entries of list length has a song before, at and after every border (what played, what is queued,
what the decoder knows). Ten seconds stand for a song in `Listening`: a count at half of it, a
restart within two, a report that trails by one, seeks of four. A book of two parts and one of a
single part, four moves and a rename: a place moves, is put on the shelf by another book, is
written or not, and is moved again. Three stations in two lists and one of the owner's, four turns
and a restart.

*Hardware.* Two files, one in a folder below, on a card that is mounted twice and changed
once, in batches of one: every file is before or behind the place of the scan. Five starts with two
damages let a quarantine be interrupted, resumed and interrupted again. Two peers, one with a
volume of its own, two levels, a volume of four and one of five steps, room for one command,
and four acts let headphones come while a start is pending and leave with a command under way.
Two buttons, two
presses, a device lost once, a sleep, three ticks of which one is a hold.

## 6. Fairness

`FairSpec` of `Playback` assumes no more than the code's scheduling gives:

* each thread goes on (`WF` of `SinkNext`, `DecodeNext`, and of the main thread's own
  work). No fairness for inputs, disturbances or clicks.
* a blocking release ends at its two seconds (`WF(ReleaseTimesOut)`), a settled seek
  is applied (`SF(ApplySeek)`: its stage is visited by every pass).
* a write progresses or stalls for three seconds and fails (`SF`), a drain ends after
  at most three seconds (`SF`), a kept sink's time runs out (`SF`). All are `SF`, as the
  stage comes and goes with every pass while the clock advances.
* nothing for the five-second deadline of a start: `WaitsEnd` shows it is not needed
  for a device that answers.

`liveness` gives the command channel room for the commands in flight (`SinkCap = 3`; the
code has 8 and one pass sends fewer): a lost `Stop` is a matter for the safety runs.

`LinksFairSpec` gives each component its own: the main loop passes and its clock ticks
(`Outputs`); the Wi-Fi thread steps a join and its time-outs pass; the platform's worker
executes, ends and replies, and the main loop takes replies, starts what is queued and
looks at the update; the gate's two threads go on, and its periodic block, which comes and
goes with the passes, comes due (`SF`); the decode thread drops, the fetcher fetches, and a
curl that gets nothing ends by its own limits. Nothing is assumed of the owner, of peers, of
networks, of stations that send.

## 7. Proofs

All are checked by TLAPS, to the last leaf, for every value of the constants that satisfies the
assumptions of the component: capacities are positive naturals, bounds are naturals, disturbances
are among those named (`CapacityAssumption`, `BoundAssumption`, `DisturbanceAssumption`); likewise
`GateAssumption`, `PlatformAssumption`, `RadioAssumption`, `ScrobbleAssumption`,
`QuarantineAssumption`, `ScanAssumption`, `WifiAssumption`, `OutputBounds`, `VolumeBounds`,
`ButtonsAssumption`, `ListeningAssumption`, `BookshelfAssumption`, `StationsAssumption`,
`QueueAssumption` and `NextAssumption` (a collection to play is not empty). TLC evaluates each of
them in the run of its component. Six theorems exclude disturbances or assume a constant, and say
so in an `ASSUME`: without that their property is false, section 8.

| Theorem | States | Argument |
|---|---|---|
| `PlaybackTypes!PipelineTypes` | `[]TypeOK` | each thread leaves the others' own variables alone; one lemma per thread and kind of variable; a channel stays within its capacity since every append is behind `Offer` or a guard |
| `PlaybackProofs!DeviceIsOne` | `[]OneDevice` | only the sink thread changes devices; inductive with its types |
| `PlaybackProofs!ReleaseIsSilent` | `[]ReleasedIsSilent` | `Released` |
| `PlaybackProofs!DeviceImplemented` | `DeviceIsExclusive`, without `"Click"` | `ExclusiveInv`: step simulation of `AudioDevice` |
| `StreamProofs!StartsSoundRight` | `[]StartsAreSound` | `StreamsInv` |
| `StreamProofs!EndsAfterAll` | `[]EndIsLast` | `EndsInv` on top of `StreamsInv` |
| `StreamProofs!GenerationsSuffice` | `[]StreamsApart`, without `"SourceChange"`, `"PeerLost"` | `Fresh` on top of `StreamsInv` |
| `BackgroundGateProofs!GateTypes` | `[]GateTypeOK` | part of `IInv` |
| `BackgroundGateProofs!SleepIsSilent` | `QuiesceIsSilent` | `IInv` |
| `BackgroundGateProofs!AnswersAreFresh` | `[]AcceptedIsFresh` | `IInv` |
| `LinksProofs!TasksAreAgreed` | `[]TasksAgree` | `TasksInv` |
| `LinksProofs!WakesStick` | `WakeSticks` | `TasksInv`, step by step |
| `LinksProofs!TransfersEnd` | `[]OneTransfer` | `StreamInv` |
| `LinksProofs!OutputsFollow` | `OutputFollows` | `OutputsInv`, step by step |
| `LinksProofs!SavedNetworksHold` | `[]SavedNetworks` | `WifiInv` |
| `LinksProofs!OwnerIsServedHolds` | `[]OwnerIsServed` | `WifiInv`, step by step |
| `LinksProofs!ScreensAreFiles` | `[]ScreenIsFiles` | `ListsInv` |
| `HardwareProofs!QuarantineLosesNothing` | `[]DatabasesAreSafe` | `QuarantineInv` |
| `HardwareProofs!ScansDropOnlyTheGone` | `PrunesOnlyTheGone`, `ReadIsExact` | `ScanInv` |
| `HardwareProofs!LibraryTellsTheTruth` | `LibraryIsTrue`, with `StampsFolders` | `ScanInv` |
| `HardwareProofs!SleepWritesNothing` | `SleepIsQuiet` | `AsleepIsIdle` |
| `HardwareProofs!VolumeAgreed` | `VolumeIsAgreed` | `VolumeInv` and `Underway`, step by step |
| `HardwareProofs!PressesMeanOne` | `[]OneMeaning` | `ButtonsInv` |
| `HardwareProofs!NothingStaysPressed` | `[]NothingKept` | `ButtonsInv` |
| `HardwareProofs!NothingOfPressesSticks` | `[]NothingSticks`, without `WakeFails` | `ButtonsInv` |
| `SongsProofs!HeardBeforeCounted` | `HeardIsHeard` | `ListeningInv` |
| `SongsProofs!PlacesAreKept` | `[]PlacesKept`, without `MarksCurrent` | `BookInv` |
| `SongsProofs!CutsLoseNothing` | `[]CleanIsSafe`, without `MarksCurrent` | `BookInv` |
| `SongsProofs!StationsAgreed` | `[]StationsAgree` | `StationsInv` |
| `SongsProofs!QueueFits` | `[]QueueInv` | `QueueIndInv` |
| `SongsProofs!DecoderFollows` | `[]FollowsQueue` | `QueueIndInv` |
| `SongsProofs!EditsKeep` | `EditsKeepTheQueue` | `QueueIndInv` and `StepKeeps`, step by step |
| `SongsProofs!UserKeeps` | `UserKeepsQueued` | `QueueIndInv` and `StepKeeps`, step by step |
| `ScrobblesProofs!PlaysArriveOnce` | `[]EachPlayOnce` | `ScrobbleInv` |

*`Released`.* `ReleasedIsSilent` alone is not inductive: the step that sets the flag
(`SinkAnswered`) looks only at the answer, so the invariant must say what an answer
means. (a) An answer that waits was given by a silent sink thread and the main thread is
still waiting, so it sent nothing since. (b) A command that asks for an answer is the last
of its channel (`AskIsLast`): the answer is given with no `Open` behind it. A time-out
removes the ask from the command it leaves behind (`Unasked`, the dropped receiver),
which is why a late answer cannot set the flag.

*The exclusive device.* The mapping gives the device to the stream from the moment it is
being opened. `ExclusiveInv` adds to `OneDevice` and `Released` that a plan probes only
after an acknowledged release and that, with no click possible, no one else opens one. Every
action of the sink thread then is an open by a free device, a hand-over, a close, or a
stutter; the main thread's only step is to begin and to end a probe.

*`StreamsInv`.* The threads compare generations; a start that is abandoned gives its own
back. Let *work* be the jobs that left a trace (in a channel, in the decoder, in a block, in
an event that waits), *requests* the jobs the sink thread was asked to open or has open, and
the *base* the generation the main thread goes back to when it abandons what is in progress.
Then: no work is of a generation past the base; every load asks for one past it; work and
requests of one generation are one job (`Apart`); at most one request is on its way
(`OneRequest`); a start waits for its own request or has its answer (`Answered`). The
generation returned by a rollback is thus one no work bears: a load becomes work only when
its device opened, which is when its start can no longer be rolled back.

*`EndsInv`.* Everything of a job is ordered: load, decode, items in the stream channel, the
block, end of stream. For each place the invariant says what cannot be behind it: a load is
the only trace of its job; an end is the last item of its job in the channel; with `eof` or a
reported end nothing of the job is left. `StreamsInv` is needed for the step that opens: the
end of the stream before is not that of the new one.

*`Fresh`.* An event of the model's generation is of its last start, since a load raises the
generation and the events left over are of older ones. An abandoned start does not break
this as long as what it goes back to is what it came from; `SourceChange` and `PeerLost`
abandon with the generation of another moment.

*`FlowInv`.* All work of the model's generation is of the open stream, at the epoch the sink thread
plays, with nothing but clicks asked of it (`Sounds`), and something of it will report its end:
its load, the decoder, its `End`, `eof`, or the report (`Ending`). A start of that generation has
no stop behind its `Open`, and what the model claims to play is such work or such a start. Two
more facts carry it: a pending reconfiguration has its start while the model buffers
(`StartsPend`), and a stream's `TrackEnded` is its last report (`EndIsReportedLast`), so the model
that takes it has no other work left (with `Fresh`). The proof sorts the main thread's steps by
what they do to the stream (`MainMoves`): go on, step on, give up, take the end, load, start,
open. The lemma they carry, `WaitsBackedUndisturbed`, is that of a player which clicks and changes of
the transport alone disturb, and no more is claimed for `WaitsAreBacked`: each of the six other
disturbances, alone, breaks it (section 8). These are the places where the code changes what it
says of playback without its streams, or the reverse.

*`IInv` of the gate.* `StagesAgree`, what the main loop's place says of `prepared`, `asleep` and
`quiet`; `RequestsAreOld`, no request is of a generation to come, and while prepared none is of
the present one; `ActiveCoversRead`, `active` is set from `swap` to `leave`; `ReadsAreFresh`, what
was read for the present generation, with the gate open and knowing the sources, was read in
the present era. `active` read as false after the generation moved means the watchdog is
outside, and on its way in it will find its request old.

*`TasksInv`.* A task the slot is busy with is in exactly one place of channel, worker and
reply, and nothing else but observations is; the update behind the screen is one; what stops
the worker is the owner's cancel of the download it executes.

*`StreamInv` (radio).* A curl lives from its spawn to the end of `receive`, and a drop can reach
it only from the slot; there is a fetcher while there is a stream; `receive` says that the
pipe is closed only when the drop has closed it.

*`WifiInv`.* Networks have numbers for themselves. The file holds only what is worth having
(`WorthHaving`), and so do the running networks unless a join is under trial: then all but its own
were there before, and its own has the password it tries (`Tried`). What the supplicant may still
tell of a join is one of a few orders of events, given what the join has heard (`Telling`): "wrong
key" comes to a right password only after a handshake cut short on this side, and such a
one is remembered. The radio follows the choice, but while it is off in the dark with nothing
under way (`RadioInv`). A player that ends within a join leaves its network to the supplicant, and
the next start may save it with the rest: the network is then one that was tried, or is called as
the one such a join had added (`untried`), and what is disabled is under trial or was left so
(`leftOff`). So the theorems are of any number of starts; what they except is what an end of the
player leaves behind and nothing repairs (section 8).

*`ListsInv`.* For every file, after the answers on their way are taken, the screen shows what the
card has, unless the file is *apart*: being written by the job in progress, or changed from
outside since. What an answer changes is decided by the last one about a file, so it is enough to
compare that one, or the screen when there is none (`Settles`). A rename keeps both of its names
apart until its second half is read back.

*`StationsInv`.* The latest request is on its way once, as a question or as an answer, and is for
the list on screen unless that was refused; an error is the last word on it; a page that
loads has its answer coming; what is shown is the list it says, or an older one only between
refusal and answer (`RequestsInv`). The station shown as playing is the one heard, and a start in
progress was not rolled back; of a station that came with the session nothing is shown or stepped
from, in whatever order it is played, refused and played again (`HeardInv`).

*`QuarantineInv`.* A directory marked INCOMPLETE and the live place hold the two parts of one
damaged set, never the same file twice; without such a directory the live place holds one
set; every other directory is empty or holds a whole damaged set; each stage of a start
relies on its part of this.

*`ScrobbleInv`.* Each play's id is in one place of the file and of those that wait for a date;
the batch being sent is the front of the file or nothing of it; what of it was answered is
settled; and the file, while no forgetting was cut, is of one account, the sender's as long
as what it sends is in it.

*`OutputsInv`.* Types, and `RoutedAreSeen`: a connection the main loop has dealt with is one its
last state shows, while the adapter is there. The rest is in the steps: a load on the jack
while the wait for headphones applies is refused in every function that loads.

*`ScanInv`.* `TimesGrow`: the time of a folder, its copy in the scan and in the record only grow,
so an entry the scanner took is as old as the last change of its file or older. A file missing
when a scan ends was away at some moment of it (`MissingWasAway`); a complete walk leaves no
file out (`Covered`); an entry on its way and a row written are true of every file whose folder
keeps the time it was read at (`EntriesAreTrue`, `SeenAreExact`, `NoneForgotten`); a folder that
still has the time of its record holds what the last complete scan left of it (`RecordsHold`).
The last is why a quick scan needs `StampsFolders`, that whatever writes the card stamps the
folder: a system that does not leaves the free space as the only sign of a change
(`CompleteIsTrue` fails then, section 8). `ReadIsExact` and `PrunesOnlyTheGone` do without.
A file that could not be opened is excused (`lost`), until its row is written: a scan that reads
it again but fails to write it still may not be believed.

*`AsleepIsIdle`.* While sleep is prepared no scan runs and none is asked for.

*`VolumeInv`, `Underway`.* `PutAside`: as long as headphones hold the volume, the jack's own is put
aside, whatever settings a failed start puts back meanwhile (`keep_held_volume`); `NotLouder`: a
stream is no louder than its volume says, when that volume is its own; a start in progress is
one of music that has not stopped. The property is of steps: one lemma for each action shows
the invariant, the loudness and what is put aside together. Rounding between the scales of the
player and of the headphones is proved to stay in both (`Scales`).

*`ListeningInv`.* The tracker is at the place last reported of the occurrence that plays, and has
heard no more of a play that has not counted than the listener: at most what sounded, less what
is not reported yet. This holds until a queue is replaced under a song that plays on, whose
number in the new queue may be that of another (`mixed`, history, and an exception of the
property itself).

*`BookInv`.* The place of a book is where the listener left it. With it: a book has one record,
under a name its folder has had, so a rename finds it; a start in progress is always to be
written, and what it would be rolled back to differs from the places there are only by what the
start itself made of them (`RollsBack`); with nothing to write, the session and the model are the
same, and the shelf's file has the other places, unless its last write failed (`CleanInv`): the
place of the book in the session is then safe all the same, once past the book's beginning, since
a session at the beginning says nothing of a place and leaves it to the shelf. `MarksCurrent =
FALSE` excludes marking the book that plays: the run `mark_lost` shows that a place is lost then.

*`QueueIndInv`.* The parts of the queue fit (`Fitting`: ids of one entry each, the position inside,
what is queued in it); the queued songs to come are before the others (`QueuedFirst`); a queue
that is empty has no job (`Alive`); and a list on its way to the decoder, or the decoder's own
when none is and no boundary either, is what the queue shows next (`FollowsInv`). The operations
are of few kinds, each with one lemma: a permutation (`PermuteIsGood`, from which every move,
shuffle, un-shuffle and jump), a part kept (`KeepIsGood`, every removal), an insertion
(`InsertIsGood`), a step over the end. Each lemma says where an entry of the new queue was in the
old one (`Comes`), and from that that ids stay apart, songs stay, and a queued song is not passed
over. They rest on what `Arranged` is: a permutation in the order of its key, and of the numbers
themselves within one key (`ArrangedSorts`), by counting the numbers before each. Of the boundary the
theorems say less than of the user's actions: `QueuedStayAhead`, the same of every step, is false
(section 8).

*`ButtonsInv`.* What was read of a device and what waits in it is one stream, and the presses of a
button come in it in turn. One that begins there, or that `InputManager` knows pressed, goes on
there: it is down yet, or its release is the next record of its button (`Continues`); when one of
its records was lost, it is to be cancelled. Of the events to route, a release is the last of its
press (`Finished`) and a hold is of a press that is down or was down long enough (`Old`).
`ActionRouter`, while it hears of everything, keeps something of a button only until a release or
a cancellation that is still to come, and knows of a press that was held, typed or begun in the
dark that it was (`RouterKnows`, `RouterExpects`). So a press that did what a short press does
(`Spent`) has no event left, and lost nothing. `OneMeaning` alone is far from inductive, since it
says nothing of what is still to be read. The clock of Power runs only with the screen lit and
Power in `long` (`HoldOK`), which a display that fails to wake breaks.

*Model-checked only.* Liveness, fairness and ENABLED are out of the prover's reach:
`WaitsEnd`, `DeviceRests`, `DecoderLetsGo`, `WaitingEnds`, `JoinsEnd`, `UpdateScreenEnds`,
`StaleRequestForgotten`, `DropEnds`. So is induction over data: that there is a least number
of some kind is proved (`NumberAfter`, `LeastNumber`), and what sorting by rank gives; what a
filter or a fold computes is not. Every invariant and every action property of a passing run but
`WaitsAreBacked` is a theorem. No module declares a recursive operator.

## 8. Where the code and its words disagree

Four are runs that TLC must find violated (`PROJECT.json` quotes the lines).

| Run | The code says | It does |
|---|---|---|
| `pause_race` | a file paused while it plays holds in place (`transport.rs:297`) | a `TrackStarted` or `TrackEnded` of the held stream, already in the channel, makes it play or loads the next song |
| `loud_after_loss` | a return from Bluetooth is capped to the safe level (`docs/CURRENT_REBORN_STATE.md:302`) | a peer that is lost makes the output wired without the cap: a volume raised on headphones is that of the next Play |
| `song_moved` | an edit of a playlist never lands on a different song (`reborn-core/src/playlist.rs:47`) | the screen keeps a position; an earlier answer replaces the list under it |
| `mark_lost` | a book marked as finished starts over (`reborn-core/src/books.rs:515`) | the mark of the book that is open is undone by the next save of its place |

More properties are stated in the modules, do not hold, and are asked by no run. To see one
fail, give the constants named and ask for the property alone.

*Pipeline* (`MCPlayback`, bounds of `playback`, `Disturbances` as given):

* `PlanAlone`, `{"Click"}`: "the plan's probe cannot run while it is open" (`main.rs:483`); a
  wheel click that the sink thread has not served yet opens a device during the probe. This is
  why `DeviceImplemented` and the run of `DeviceIsExclusive` have no clicks.
* `SeekSounds`, `{"TrackGone"}`: playback restarts once after the last step
  (`transport.rs:172`); a load that ends before its release leaves `hold` set, and what is
  reported playing is silent.
* `AsleepIsSilent`, `{"Sleep"}`: preparation closes PCM (`idle.rs:139`); a song's end handled
  after preparation starts the next song.
* `PendingIsPolled`, `{"SdRepair"}`: a reconfiguration is polled to its end (`main_loop.rs:1221`); a
  card repair stops the start and leaves it pending, and every later input is refused. With
  `{"HoldLimit"}` and four inputs too: `held_since` outlives the pause, its limit fires in a later
  start that holds, and `release_hold` stops it.
* `PlayingHasAStream`, `{"SourceChange"}`: "failed active transitions cannot report `Playing`
  without a sink" (`docs/validation/LUNA-CORRECTNESS-CLOSURE-01.md:145`); the abandoned start
  restores `Playing`, or a pause in place, of a stream that it had released. With `{"PeerLost"}` and
  three inputs too. This is also why `GenerationsSuffice` excludes the two. With `{"TrackGone"}`,
  a seek that is refused after a step leaves the model buffering; with `{"HoldLimit"}` or
  `{"Sleep"}` and three inputs, the boundary of a held stream makes the model buffer, before or
  after the sink was given back.

*Gate*: `ObservationEnds` ("quiesce and resume between main ticks cannot strand battery
observation", `background.rs:164`) fails in the gate of `progress`: an old answer past its last
check takes the channel's one place; the new one is lost.

*Scrobbles*: `OwnAccount` (`reborn-platform/src/lastfm.rs:150`, `scrobbling.rs:484`).
`lastfm_forget` removes the session file first and the plays after; a crash in between leaves
the old account's plays to the next sign-in. Seen with `Batch = 1`, `MaxPlays = 1`,
`MaxSignIns = 3`, `MaxCrashes = 1`, `WritesFail = FALSE`. An answer that the session is invalid
signs out another account that came meanwhile; undated plays survive Disconnect.

*Outputs*: `PlaysOnTheOutput` (`transport.rs:263`: a stream paused on one output resumes there
after another was chosen), `GivesUpOnlyAlone` (a wait ends in the pass in which its headphones are
ready). *PlatformTasks*: `CancelledStaysOut` (`client.rs:212`: a download cancelled as it ends is
installed), `QueuedIsKept` (`runtime/platform.rs:5`: the one task kept is replaced by the next).
*NextSongs*: `QueuedStayAhead` (`queue.rs:4`), `OpenedIsNext` (`decode.rs:223`), `WrapsAlike`,
`NewIsUnranked`. *Listening*: `CountedIsPlaying` (`scrobble.rs:6`). *Wifi*: `ForgetsTheChosen`
(`reborn-ui/src/context_menus.rs:85`: the menu's network by number after a restart),
`OnlyTheTried` (`wifi.rs:99`: a player that ends within a join leaves the network untried and the
others disabled, and the next start saves them so), `ChoiceAlwaysHolds` (`idle.rs:5`: the wake
forgets that the radio was switched off in the dark, and no start brings back one that was off
there). *LibraryScan*: `OpenedNextTime` (`lib.rs:1413`), `IdleLetsSleep`, `CompleteIsTrue` with
`StampsFolders = FALSE` (`lib.rs:1252`). *Stations*: `LocalIsShown` (`radio.rs:83`),
`PlayingIsShown` (`runtime/radio.rs:131`: the station of the session, played after a start, is not
shown, has no list for Previous/Next and no heart). *Bookshelf*: `CutIsSafe`
(`runtime/transport.rs:13`: a write of the shelf that fails leaves nothing to be written, until
the next checkpoint). *RadioStream*: `DropKills`. *Buttons*: `OffIsHeld`
(`docs/ui/REBORN-SETTINGS-MAP.md:86`: a stall of the main loop lets the hold pass before the
release is read), `HoldIsPressed` with `WakeFails = TRUE`.

Met while reading, stated by no property: a song's heart pressed twice before the answer adds it
twice; a playlist read, changed by a computer and written is overwritten (`playlists.rs:1`
promises not blindly); a new playlist whose second write fails stays empty; a list requested while
an output starts is refused and its page keeps loading; a book played from the menu or by a jump
does not save the place of the one before first; two books of one name and size share a place.

## 9. Not modelled

Dark mode is a clock-driven helper. Covers are a cache by generation, filled by a worker whose
quiesce is a choice in the gate. Storage, power, AVRCP and headphone controls are I/O: their
answers are the disturbances of the other modules. The control socket and the observability
crate frame and log. The user interface, graphics and skins are layout, apart from the lists,
menus and holds named in section 3. FFmpeg and ALSA are external; what they may answer (opens,
refuses, stalls, ends) are choices of the pipeline. Of the modelled components `PROJECT.json`
marks those `partly` whose settings, formats, levels or sorting are left out as data. Fades and
levels of a start, chapters inside a file, speed, radio logos and the song line, cross-fade
mixing, tag parsing, queries and the write window of the card are of that kind.

## 10. Running

    tlc -workers 2 -config MCPlayback.cfg MCPlayback.tla
    tlapm StreamProofs.tla

A configuration is of the `MC` module that defines its components: `MCPlayback`,
`MCInterruptions`, `MCServices`, `MCLiveness`, `MCPauseRace` of `MCPlayback`; `MCLinks`,
`MCProgress`, `MCSongMoved` of `MCLinks`; `MCSongs`, `MCMarkLost` of `MCSongs`; `MCHardware`,
`MCLoudAfterLoss` of `MCHardware`. Each takes from seconds to about four minutes; a proof module
from seconds to about ten minutes.
`PROJECT.json` maps every definition to the lines it models, and lists runs, mutants,
findings, hazards and theorems.
