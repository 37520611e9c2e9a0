------------------------------ MODULE Playback ------------------------------
(***************************************************************************)
(* The playback pipeline: the main thread, the decode thread and the sink  *)
(* thread together, and what they must keep.                               *)
(***************************************************************************)
EXTENDS SinkThread, DecodeThread, Transport

Init ==
  /\ epoch = 0 /\ hold = FALSE /\ click = FALSE
  /\ sinkQ = <<>> /\ decodeQ = <<>> /\ streamQ = <<>> /\ events = <<>>
  /\ TransportInit /\ SinkInit /\ DecodeInit

Next == SinkNext \/ DecodeNext \/ TransportNext

Spec == Init /\ [][Next]_vars

(* Every variable has its type, and no channel holds more than its capacity. *)
TypeOK == ChannelsTyped /\ MainTyped /\ SinkTyped /\ DecodeTyped

-----------------------------------------------------------------------------
(* The device. *)

Opens == {c \in {sinkQ[i] : i \in 1..Len(sinkQ)} : c.op = "Open"}

(* One device at a time is open: the playing sink, the kept one, the one      *)
(* being opened for a stream or for a click (output.rs opens a device only    *)
(* after it took and dropped the other).                                      *)
OneDevice ==
  /\ ~(sink /\ kept)
  /\ spc \in {"opening", "clicking"} => ~sink /\ ~kept

(* "A sink-open guard refuses a second open until the prior release is        *)
(* acknowledged": once it is, nothing plays, opens or is queued to open, so   *)
(* the guard's flag never lets two opens overlap, whatever timed out before.  *)
ReleasedIsSilent ==
  released => ~sink /\ spc # "opening" /\ Opens = {}

(* The plan's probe runs with the device closed, and no one about to open it  *)
(* (run_sink_reconfiguration: "the device is exclusive").  Not so when a      *)
(* wheel click waits, which wakes the sink thread: README, section 8.         *)
PlanAlone ==
  pc = "planning" => ~sink /\ ~kept /\ spc \notin {"opening", "clicking"}

(* The pipeline implements the exclusive device: every step that opens,       *)
(* passes on or closes it is one the abstract device allows.                  *)
DeviceUsers ==
  (IF sink \/ spc = "opening" THEN {"stream"} ELSE {}) \cup
  (IF kept \/ spc = "clicking" THEN {"kept"} ELSE {}) \cup
  (IF pc = "planning" THEN {"plan"} ELSE {})

Device == INSTANCE AudioDevice WITH users <- DeviceUsers

DeviceIsExclusive == Device!Spec

-----------------------------------------------------------------------------
(* Streams, named by generations that a rolled-back start uses again. *)

AtRest   == pc \in MainStages
InStream == {streamQ[i] : i \in 1..Len(streamQ)}
Reported == {events[i] : i \in 1..Len(events)} \cup
            (IF spc = "emit" THEN {outbox.event} ELSE {})

(* The sink writes only blocks of the job it was opened for, although it      *)
(* compares no more than generations (receive).                               *)
SinkPlaysItsJob == block # NoJob => block = stream

(* A start that was not answered yet has its one Open on the way: the 5 s     *)
(* deadline of poll_start is for a slow device, never for a lost command.     *)
AnswerIsComing ==
  start # NoJob /\ opened = "none" =>
    \/ (opening = start /\ Opens = {})
    \/ (opening = NoJob /\ Opens = {Open(start)})

(* A reconfiguration in progress has its start in Playback, so a pass will    *)
(* end it ("the reconfiguration it starts is polled to its end").             *)
PendingIsPolled == AtRest /\ pending.on => start # NoJob

(* An event the model accepts (of its generation) is of the last start, never *)
(* of a stream that start replaced.                                           *)
EventsOfTheStart ==
  AtRest => \A e \in Reported : e.job.gen = gen => e.job.id = starts

(* Streams are kept apart by their generations alone: in the sink thread and in *)
(* the events, although rolled-back starts give a generation again.           *)
StreamsApart == SinkPlaysItsJob /\ EventsOfTheStart

(* Nothing waits for an answer that cannot come: not a start, not the         *)
(* reconfiguration it belongs to.                                             *)
StartsAnswered == AnswerIsComing /\ PendingIsPolled

(* "Failed active transitions cannot report Playing without a sink": while    *)
(* the model plays, buffers or is paused in place, its stream is being        *)
(* opened, decoded, sent, played or about to report its end.  A collected     *)
(* seek may be between two streams.                                           *)
InProgress(g) ==
  \/ start.gen = g \/ job.gen = g \/ block.gen = g
  \/ \E i \in 1..Len(decodeQ) : decodeQ[i].job.gen = g
  \/ \E s \in InStream : s.job.gen = g
  \/ (eof /\ stream.gen = g)
  \/ \E e \in Reported : e.job.gen = g /\ e.kind \in {"TrackEnded", "PlaybackError"}

PlayingHasAStream ==
  AtRest /\ ((Active /\ ~seek) \/ (play = "Paused" /\ hold)) => InProgress(gen)

(* What the main thread believes is under way is: a start has its answer on   *)
(* the way, a song that plays has its stream.                                 *)
WaitsAreBacked == StartsAnswered /\ PlayingHasAStream

(* A start whose stream is interrupted sounds, or is answered: no block of an *)
(* old stream is written in its place and its Open is never lost.             *)
StartsAreSound == SinkPlaysItsJob /\ AnswerIsComing

(* The end of a stream is reported after everything of it: no block is lost   *)
(* behind it, so the next song never cuts this one's last seconds.            *)
EndIsLast ==
  \A e \in Reported : e.kind = "TrackEnded" /\ e.job.gen = epoch =>
    block # e.job /\ job # e.job /\ \A s \in InStream : s.job # e.job

-----------------------------------------------------------------------------
(* Pause, seek and sleep: what the comments promise and the code does not do. *)
(* A run shows the first violated; README, section 8, the other two.          *)

(* "A file paused while it plays holds in place" (pause): no event of the     *)
(* stream that is held makes it play, nor starts another song.                *)
PauseHolds ==
  [][pc = "events" /\ play = "Paused" => ~Active' /\ starts' = starts]_vars

(* "Playback restarts once at the target after the last step" (seek_by): when *)
(* the collected seek was applied to a song that plays, nothing holds it.     *)
SeekSounds == [][seek /\ ~seek' /\ Active' => ~hold']_vars

(* "Preparation ... closes PCM before entry" (idle.rs): while sleep is        *)
(* prepared no device opens again.                                            *)
AsleepIsSilent == asleep => ~sink /\ ~kept /\ spc \notin {"opening", "clicking"}

-----------------------------------------------------------------------------
(* Liveness.  Each thread goes on; the main thread's deadlines pass; a write  *)
(* progresses or stalls for 3 s; a drain ends; a kept sink's time runs out.   *)
(* No fairness for inputs, for a start's 5 s deadline, for a click.           *)
MainWork ==
  \/ AskSink \/ Planned \/ PlanFails \/ BeginStart \/ RepairStops
  \/ \E fits \in BOOLEAN : SinkAnswered(fits)
  \/ NextStage \/ StartOpened \/ StartFails("refused")
  \/ StaleEvent \/ TrackStarted \/ PlaybackError
  \/ \E found \in BOOLEAN : TrackBoundary(found)
  \/ \E next, again \in BOOLEAN : TrackEnded(next, again)

Fairness ==
  /\ WF_vars(MainWork) /\ WF_vars(ReleaseTimesOut) /\ SF_vars(ApplySeek(FALSE))
  /\ WF_vars(DecodeNext)
  /\ WF_vars(SinkNext)
  /\ SF_vars(Write(TRUE, TRUE) \/ WriteFails)
  /\ SF_vars(\E k \in BOOLEAN : Drained(k))
  /\ SF_vars(kept /\ \E k \in BOOLEAN : Stopped(k, TRUE))

FairSpec == Spec /\ Fairness

(* A start in progress ends, without its deadline's help: the sink answers    *)
(* every Open, and a full event channel does not stop the three threads.      *)
StartsEnd == pending.on ~> ~pending.on

(* "Starting" does not last: a buffering song plays, ends, fails or stops,    *)
(* unless a pause or a seek holds it.                                         *)
BufferingEnds == play = "Buffering" ~> (play # "Buffering" \/ hold)

(* No wait of the user's lasts. *)
WaitsEnd == StartsEnd /\ BufferingEnds

(* A player that does not play closes the device (an open sink holds the      *)
(* platform's activity lease, which refuses sleep).                           *)
DeviceRests == (~Active /\ ~hold) ~> (Active \/ hold \/ (~sink /\ ~kept))

(* A replaced job ends: its file is given back, though nothing waits for it.  *)
DecoderLetsGo == (job # NoJob /\ job.gen # epoch) ~> (job = NoJob \/ job.gen = epoch)
=============================================================================
