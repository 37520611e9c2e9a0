------------------------------ MODULE Pipeline ------------------------------
(***************************************************************************)
(* What the three threads of app/reborn/src/playback.rs share: the main    *)
(* thread ("Transport"), the decode thread ("playback") and the sink       *)
(* thread ("audio").  They meet in four bounded channels and four atomics; *)
(* every stream is named by a generation, and work of another generation   *)
(* than `epoch` is dropped wherever it is met.                             *)
(*                                                                         *)
(* Data left out: PCM, volume, positions, cover art, specs.  A stream item *)
(* and an event carry, besides the generation the code puts in them, the   *)
(* job they come from: a history value no action reads, which the          *)
(* properties compare with what the generation alone lets through.         *)
(***************************************************************************)
EXTENDS Naturals, Sequences, FiniteSets

CONSTANTS
  SinkCap, DecodeCap, StreamCap, EventCap,  \* the channels' capacities: 8, 4, 8, 64
  Blocks,       \* bound: PCM blocks of a song
  Joins,        \* bound: gapless boundaries of a job
  MaxStarts,    \* bound: streams the main thread asks the sink for
  MaxInputs,    \* bound: user and control inputs
  Disturbances  \* what happens besides the buttons, a subset of AllDisturbances

AllDisturbances == 
  {"Click", "HoldLimit", "PeerLost", "SdRepair", "Sleep", "SourceChange", "TrackGone",
   "Transport"}

ASSUME CapacityAssumption ==
  /\ SinkCap \in Nat \ {0} /\ DecodeCap \in Nat \ {0}
  /\ StreamCap \in Nat \ {0} /\ EventCap \in Nat \ {0}
ASSUME BoundAssumption ==
  /\ Blocks \in Nat /\ Joins \in Nat
  /\ MaxStarts \in Nat /\ MaxInputs \in Nat
ASSUME DisturbanceAssumption == Disturbances \subseteq AllDisturbances

VARIABLES
  \* shared by the threads
  epoch,      \* the generation that may sound
  hold,       \* paused in place
  click,      \* a wheel click waits
  sinkQ, decodeQ, streamQ, events,          \* the channels, first element first
  \* the main thread (Transport)
  pc, resume, \* its stage, and the stage a blocking release returns to
  gen, play,  \* AppModel.generation, AppModel.playback
  seek,       \* seek_until is set
  held,       \* held_since is set
  pending,    \* PendingReconfiguration
  start,      \* PendingStart
  opened,     \* what its reply channel holds
  released,   \* sink_released
  txn,        \* the load in progress: its target generation and the snapshot
  answer,     \* what the release's reply channel holds
  asleep,     \* sleep_prepared
  starts, inputs,
  \* the sink thread
  spc,        \* where its pass is
  sink, kept, \* a playing sink, a kept sink: each an open device
  stream,     \* generation and correlation: the stream the sink was opened for
  block,      \* the job of the PCM block being written, NoJob for none
  started, eof, paused,
  opening,    \* the stream whose device is being opened
  outbox,     \* the event being sent, and where the pass goes on
  \* the decode thread
  dpc, job,
  left, joins,\* blocks left of this song, boundaries left of this job
  item        \* the stream item being sent

sharedVars == <<epoch, hold, click, sinkQ, decodeQ, streamQ, events>>
mainVars   == <<pc, resume, gen, play, seek, held, pending, start, opened, released,
                txn, answer, asleep, starts, inputs>>
sinkVars   == <<spc, sink, kept, stream, block, started, eof, paused, opening, outbox>>
decodeVars == <<dpc, job, left, joins, item>>
vars == <<sharedVars, mainVars, sinkVars, decodeVars>>

-----------------------------------------------------------------------------
(* The channels' contents. *)
PlayStates == {"Stopped", "Buffering", "Playing", "Paused", "Error"}
JobRef     == [id : Nat, gen : Nat]          \* id 0: none
NoJob      == [id |-> 0, gen |-> 0]

SinkCommand   == [op : {"Open", "Stop", "Switch", "Click"}, job : JobRef, ask : BOOLEAN]
DecodeCommand == [op : {"Load", "Stop"}, job : JobRef]
Stream        == [kind : {"Pcm", "Boundary", "End"}, job : JobRef]
Event         == [kind : {"TrackStarted", "TrackBoundary", "TrackEnded", "PlaybackError"},
                  job : JobRef]

Open(j)     == [op |-> "Open", job |-> j, ask |-> FALSE]
Stop(ask)   == [op |-> "Stop", job |-> NoJob, ask |-> ask]
Switch      == [op |-> "Switch", job |-> NoJob, ask |-> TRUE]
Click       == [op |-> "Click", job |-> NoJob, ask |-> FALSE]
Load(j)     == [op |-> "Load", job |-> j]
StopDecoder == [op |-> "Stop", job |-> NoJob]

\* Plausible bug: the send does not look at the capacity.
Offer_Unbounded(q, m, cap) == Append(q, m)

(* SyncSender::try_send whose result the code ignores: a full channel loses it. *)
Offer(q, m, cap) == IF Len(q) < cap THEN Append(q, m) ELSE q

ChannelsTyped ==
  /\ epoch \in Nat /\ hold \in BOOLEAN /\ click \in BOOLEAN
  /\ sinkQ \in Seq(SinkCommand) /\ Len(sinkQ) <= SinkCap
  /\ decodeQ \in Seq(DecodeCommand) /\ Len(decodeQ) <= DecodeCap
  /\ streamQ \in Seq(Stream) /\ Len(streamQ) <= StreamCap
  /\ events \in Seq(Event) /\ Len(events) <= EventCap
=============================================================================
