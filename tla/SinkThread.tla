----------------------------- MODULE SinkThread -----------------------------
(***************************************************************************)
(* The sink thread (playback/output.rs): one device, opened for a stream,  *)
(* kept between two streams, closed by a Stop or when its time is up.  A   *)
(* pass of its loop takes every command waiting, compares the epoch, reads *)
(* the hold, takes one stream item, writes, and drains a stream that       *)
(* ended.  The epoch, the hold and the channels change between the stages. *)
(*                                                                         *)
(* The clock is a choice: a kept sink may close, a drain may take another  *)
(* pass, a write may stall, at any time.  Level, fades and the Bluetooth   *)
(* silence are data.                                                       *)
(***************************************************************************)
EXTENDS Pipeline

SinkStages == {"commands", "opening", "stopped", "hold", "clicking", "receive", "write",
               "drain", "emit"}
NoOutbox   == [event |-> [kind |-> "TrackStarted", job |-> NoJob], then |-> "commands"]

SinkInit ==
  /\ spc = "commands" /\ sink = FALSE /\ kept = FALSE
  /\ stream = NoJob /\ block = NoJob /\ opening = NoJob
  /\ started = FALSE /\ eof = FALSE /\ paused = FALSE
  /\ outbox = NoOutbox

SinkTyped ==
  /\ spc \in SinkStages /\ sink \in BOOLEAN /\ kept \in BOOLEAN
  /\ stream \in JobRef /\ block \in JobRef /\ opening \in JobRef
  /\ started \in BOOLEAN /\ eof \in BOOLEAN /\ paused \in BOOLEAN
  /\ outbox \in [event : Event, then : {"commands", "write", "drain"}]

(* keep_sink: a playing sink becomes the kept one, or closes when its queued *)
(* audio cannot be dropped; without a playing sink nothing changes.          *)
KeepSink(k) == IF sink THEN k \in {TRUE, kept} ELSE k = kept

\* Plausible bug: a refused device is not reported.
Reply_OnlyOpened(j, result) ==
  opened' = IF start = j /\ opened = "none" /\ result = "open" THEN result ELSE opened

(* A start's reply reaches only a caller that still waits for this start. *)
Reply(j, result) == opened' = IF start = j /\ opened = "none" THEN result ELSE opened

(* A blocking send on the event channel, then the rest of the pass. *)
Emit(kind, then) ==
  /\ outbox' = [event |-> [kind |-> kind, job |-> stream], then |-> then]
  /\ spc' = "emit"
GoOn(stage) == spc' = stage /\ UNCHANGED outbox

-----------------------------------------------------------------------------
(* wait_and_commands *)
OpenStale ==
  /\ spc = "commands" /\ sinkQ # <<>> /\ Head(sinkQ).op = "Open"
  /\ Head(sinkQ).job.gen # epoch
  /\ Reply(Head(sinkQ).job, "failed")
  /\ sinkQ' = Tail(sinkQ)
  /\ UNCHANGED <<epoch, hold, click, decodeQ, streamQ, events, sinkVars, decodeVars,
                 pc, resume, gen, play, seek, held, pending, start, released, txn,
                 answer, asleep, starts, inputs>>

(* The stream that played is kept; the kept sink plays the next stream when it *)
(* is the one asked for (`reuse`), and closes before another one opens.        *)
OpenCurrent(reuse, prepared) ==
  LET j == Head(sinkQ).job IN
  /\ spc = "commands" /\ sinkQ # <<>> /\ Head(sinkQ).op = "Open"
  /\ j.gen = epoch
  /\ reuse => sink \/ kept
  /\ stream' = j /\ block' = NoJob
  /\ started' = FALSE /\ eof' = FALSE /\ paused' = FALSE
  /\ click' = FALSE /\ kept' = FALSE
  /\ IF reuse
       THEN /\ sink' = prepared /\ opening' = NoJob
            /\ GoOn("commands")
            /\ Reply(j, IF prepared THEN "open" ELSE "failed")
       ELSE /\ sink' = FALSE /\ opening' = j
            /\ GoOn("opening")
            /\ UNCHANGED opened
  /\ sinkQ' = Tail(sinkQ)
  /\ UNCHANGED <<epoch, hold, decodeQ, streamQ, events, decodeVars,
                 pc, resume, gen, play, seek, held, pending, start, released, txn,
                 answer, asleep, starts, inputs>>

(* The factory's answer, seconds later when the device is slow. *)
DeviceOpened(ok) ==
  /\ spc = "opening"
  /\ sink' = ok /\ opening' = NoJob
  /\ Reply(opening, IF ok THEN "open" ELSE "failed")
  /\ GoOn("commands")
  /\ UNCHANGED <<sharedVars, decodeVars, kept, stream, block, started, eof, paused,
                 pc, resume, gen, play, seek, held, pending, start, released, txn,
                 answer, asleep, starts, inputs>>

(* Stop closes every device; Switch keeps the playing one for the next stream. *)
SinkRelease(k) ==
  /\ spc = "commands" /\ sinkQ # <<>> /\ Head(sinkQ).op \in {"Stop", "Switch"}
  /\ IF Head(sinkQ).op = "Stop" THEN k = FALSE ELSE KeepSink(k)
  /\ kept' = k /\ sink' = FALSE
  /\ block' = NoJob /\ eof' = FALSE /\ paused' = FALSE
  /\ answer' = IF Head(sinkQ).ask THEN (IF k THEN "kept" ELSE "gone") ELSE answer
  /\ sinkQ' = Tail(sinkQ)
  /\ UNCHANGED <<epoch, hold, click, decodeQ, streamQ, events, decodeVars,
                 spc, stream, started, opening, outbox,
                 pc, resume, gen, play, seek, held, pending, start, opened, released, txn, asleep, starts, inputs>>

ClickWakes ==
  /\ spc = "commands" /\ sinkQ # <<>> /\ Head(sinkQ).op = "Click"
  /\ sinkQ' = Tail(sinkQ)
  /\ UNCHANGED <<epoch, hold, click, decodeQ, streamQ, events, mainVars, sinkVars,
                 decodeVars>>

CommandsDone ==
  /\ spc = "commands" /\ sinkQ = <<>>
  /\ GoOn("stopped")
  /\ UNCHANGED <<sharedVars, mainVars, decodeVars, sink, kept, stream, block, started, eof,
                 paused, opening>>

-----------------------------------------------------------------------------
(* stopped: the sink of a stopped or replaced stream is kept; `late`: a kept  *)
(* sink's time is up.                                                         *)
\* Plausible bug: a kept sink's time is not looked at.
Expires_Never(k, late) == k
Expires(k, late) == k /\ ~late

Stopped(k, late) ==
  /\ spc = "stopped"
  /\ IF stream.gen # epoch
       THEN KeepSink(k) /\ sink' = FALSE /\ block' = NoJob /\ eof' = FALSE
       ELSE k = kept /\ UNCHANGED <<sink, block, eof>>
  /\ kept' = Expires(k, late)
  /\ GoOn("hold")
  /\ UNCHANGED <<sharedVars, mainVars, decodeVars, stream, started, paused, opening>>

(* hold: paused in place nothing is read or written, a click sounds in the   *)
(* paused stream; without a playing sink a click takes the kept sink or      *)
(* opens one.                                                                *)
Hold ==
  /\ spc = "hold" /\ hold /\ sink
  /\ paused' = TRUE
  /\ click' \in {FALSE, click}
  /\ GoOn("commands")
  /\ UNCHANGED <<epoch, hold, sinkQ, decodeQ, streamQ, events, mainVars, decodeVars,
                 sink, kept, stream, block, started, eof, opening>>

\* Plausible bug: a click opens a sink beside the one that plays.
ClickOpens_Always == click
ClickOpens == click /\ ~sink

NoHold(opens) ==
  /\ spc = "hold" /\ ~(hold /\ sink)
  /\ opens => ClickOpens
  /\ paused' = FALSE /\ click' = FALSE
  /\ kept' = (kept /\ ~opens)
  /\ GoOn(IF opens THEN "clicking" ELSE "receive")
  /\ UNCHANGED <<epoch, hold, sinkQ, decodeQ, streamQ, events, mainVars, decodeVars,
                 sink, stream, block, started, eof, opening>>

ClickSinkOpened(ok) ==
  /\ spc = "clicking"
  /\ kept' = ok
  /\ GoOn("receive")
  /\ UNCHANGED <<sharedVars, mainVars, decodeVars, sink, stream, block, started, eof, paused,
                 opening>>

-----------------------------------------------------------------------------
(* receive: one item, none while a block is being written *)
NothingReceived ==
  /\ spc = "receive" /\ (block # NoJob \/ streamQ = <<>>)
  /\ GoOn("write")
  /\ UNCHANGED <<sharedVars, mainVars, decodeVars, sink, kept, stream, block, started, eof,
                 paused, opening>>

\* Plausible bug: an item of the stream before counts for this one.
OfStream_Any(j) == TRUE
OfStream(j) == j.gen = stream.gen

Plays(j) == OfStream(j) /\ j.gen = epoch /\ sink

ReceivePcm(converts) ==
  LET j == Head(streamQ).job IN
  /\ spc = "receive" /\ block = NoJob /\ streamQ # <<>> /\ Head(streamQ).kind = "Pcm"
  /\ converts \/ Plays(j)
  /\ block' = IF Plays(j) /\ converts THEN j ELSE NoJob
  /\ IF converts THEN GoOn("write") ELSE Emit("PlaybackError", "commands")
  /\ streamQ' = Tail(streamQ)
  /\ UNCHANGED <<epoch, hold, click, sinkQ, decodeQ, events, mainVars, decodeVars,
                 sink, kept, stream, started, eof, paused, opening>>

ReceiveBoundary ==
  LET current == OfStream(Head(streamQ).job) IN
  /\ spc = "receive" /\ block = NoJob /\ streamQ # <<>> /\ Head(streamQ).kind = "Boundary"
  /\ started' = (started /\ ~current)
  /\ IF current THEN Emit("TrackBoundary", "write") ELSE GoOn("write")
  /\ streamQ' = Tail(streamQ)
  /\ UNCHANGED <<epoch, hold, click, sinkQ, decodeQ, events, mainVars, decodeVars,
                 sink, kept, stream, block, eof, paused, opening>>

ReceiveEnd ==
  /\ spc = "receive" /\ block = NoJob /\ streamQ # <<>> /\ Head(streamQ).kind = "End"
  /\ eof' = (eof \/ OfStream(Head(streamQ).job))
  /\ GoOn("write")
  /\ streamQ' = Tail(streamQ)
  /\ UNCHANGED <<epoch, hold, click, sinkQ, decodeQ, events, mainVars, decodeVars,
                 sink, kept, stream, block, started, paused, opening>>

-----------------------------------------------------------------------------
(* write: some frames of the block (the first of a song reports it started), *)
(* perhaps its last; a device with no room takes none this pass.             *)
Write(progress, finished) ==
  LET first == progress /\ block # NoJob /\ ~started IN
  /\ spc = "write" /\ sink
  /\ finished => progress /\ block # NoJob
  /\ progress => block # NoJob
  /\ started' = (started \/ first)
  /\ block' = IF finished THEN NoJob ELSE block
  /\ IF first THEN Emit("TrackStarted", "drain") ELSE GoOn("drain")
  /\ UNCHANGED <<sharedVars, mainVars, decodeVars, sink, kept, stream, eof, paused, opening>>

(* The device refuses, or took nothing for 3 s. *)
WriteFails ==
  /\ spc = "write" /\ sink /\ block # NoJob
  /\ sink' = FALSE /\ block' = NoJob
  /\ Emit("PlaybackError", "drain")
  /\ UNCHANGED <<sharedVars, mainVars, decodeVars, kept, stream, started, eof, paused, opening>>

NothingToWrite ==
  /\ spc = "write" /\ ~sink
  /\ GoOn("drain")
  /\ UNCHANGED <<sharedVars, mainVars, decodeVars, sink, kept, stream, block, started, eof,
                 paused, opening>>

(* drain: the end of the stream is reported once its audio played (at most   *)
(* 3 s; at once on Bluetooth or without a sink).                             *)
StreamOver == eof /\ block = NoJob

Drained(k) ==
  /\ spc = "drain" /\ StreamOver
  /\ KeepSink(k) /\ kept' = k /\ sink' = FALSE /\ eof' = FALSE
  /\ Emit("TrackEnded", "commands")
  /\ UNCHANGED <<sharedVars, mainVars, decodeVars, stream, block, started, paused, opening>>

NotDrained ==
  /\ spc = "drain" /\ (StreamOver => sink)
  /\ GoOn("commands")
  /\ UNCHANGED <<sharedVars, mainVars, decodeVars, sink, kept, stream, block, started, eof,
                 paused, opening>>

(* emit: SyncSender::send waits for room *)
SinkEmit ==
  /\ spc = "emit" /\ Len(events) < EventCap
  /\ events' = Append(events, outbox.event)
  /\ spc' = outbox.then /\ outbox' = NoOutbox
  /\ UNCHANGED <<epoch, hold, click, sinkQ, decodeQ, streamQ, mainVars, decodeVars,
                 sink, kept, stream, block, started, eof, paused, opening>>

-----------------------------------------------------------------------------
SinkNext ==
  \/ OpenStale
  \/ \E reuse, prepared \in BOOLEAN : OpenCurrent(reuse, prepared)
  \/ \E ok \in BOOLEAN : DeviceOpened(ok) \/ ClickSinkOpened(ok)
  \/ \E k \in BOOLEAN : SinkRelease(k) \/ Drained(k)
  \/ ClickWakes \/ CommandsDone
  \/ \E k, late \in BOOLEAN : Stopped(k, late)
  \/ Hold \/ \E opens \in BOOLEAN : NoHold(opens)
  \/ NothingReceived \/ ReceiveBoundary \/ ReceiveEnd
  \/ \E converts \in BOOLEAN : ReceivePcm(converts)
  \/ \E progress, finished \in BOOLEAN : Write(progress, finished)
  \/ WriteFails \/ NothingToWrite \/ NotDrained \/ SinkEmit
=============================================================================
