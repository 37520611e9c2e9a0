----------------------------- MODULE Transport ------------------------------
(***************************************************************************)
(* The main thread's side of playback: Playback's calls (playback.rs), the *)
(* transport (runtime/transport.rs), the sink reconfiguration with its     *)
(* rollback (runtime/audio.rs) and what the events do (main_loop.rs).      *)
(*                                                                         *)
(* One pass of the main loop: poll the start in progress, apply a seek     *)
(* that settled and the hold limit, take inputs, take every event waiting, *)
(* then what Bluetooth, storage and the control socket bring.  A release   *)
(* blocks the pass until the sink answers or 2 s are over.                 *)
(*                                                                         *)
(* The queue is left out: whether a song is there to step to is a choice.  *)
(***************************************************************************)
EXTENDS Pipeline

MainStages == {"poll", "seek", "input", "events", "control"}
Blocked    == {"asking", "waiting", "planning", "starting", "stopping"}

(* The snapshot a failed or abandoned start goes back to: the generation and *)
(* playback of before; `song`: output and settings did not change.           *)
Pending == [on : BOOLEAN, song : BOOLEAN, gen : Nat, was : Nat, play : PlayStates]
NoPending == [on |-> FALSE, song |-> FALSE, gen |-> 0, was |-> 0, play |-> "Stopped"]

(* What a blocking release is for, and the command it sends. *)
Txn == [why : {"none", "load", "hold", "release", "repair", "sleep"}, cmd : {"Stop", "Switch"},
        song : BOOLEAN, gen : Nat, was : Nat, play : PlayStates]
NoTxn == [why |-> "none", cmd |-> "Stop", song |-> FALSE, gen |-> 0, was |-> 0,
          play |-> "Stopped"]

TransportInit ==
  /\ pc = "poll" /\ resume = "poll"
  /\ gen = 0 /\ play = "Stopped"
  /\ seek = FALSE /\ held = FALSE
  /\ pending = NoPending /\ start = NoJob /\ opened = "none"
  /\ released = TRUE /\ txn = NoTxn /\ answer = "none"
  /\ asleep = FALSE /\ starts = 0 /\ inputs = 0

MainTyped ==
  /\ pc \in MainStages \cup Blocked /\ resume \in MainStages
  /\ gen \in Nat /\ play \in PlayStates
  /\ seek \in BOOLEAN /\ held \in BOOLEAN
  /\ pending \in Pending /\ start \in JobRef /\ opened \in {"none", "open", "failed"}
  /\ released \in BOOLEAN /\ txn \in Txn /\ answer \in {"none", "kept", "gone"}
  /\ asleep \in BOOLEAN /\ starts \in Nat /\ inputs \in Nat

Active == play \in {"Playing", "Buffering"}
\* Plausible bug: the model keeps reporting what played before.
FailedPlay_Keeps(p) == p
FailedPlay(p) == IF p \in {"Playing", "Buffering"} THEN "Error" ELSE p

elsewhere == <<streamQ, events, sinkVars, decodeVars>>

-----------------------------------------------------------------------------
(* Playback's calls. *)

(* stop, `calls` times in a row: both commands are try_send; a start in      *)
(* progress is forgotten.                                                    *)
OfferTimes(q, m, cap, calls) ==
  IF calls = 1 THEN Offer(q, m, cap) ELSE Offer(Offer(q, m, cap), m, cap)

PlaybackStop(g, calls) ==
  /\ hold' = FALSE /\ epoch' = g
  /\ start' = NoJob /\ opened' = "none"
  /\ sinkQ' = OfferTimes(sinkQ, Stop(FALSE), SinkCap, calls)
  /\ decodeQ' = OfferTimes(decodeQ, StopDecoder, DecodeCap, calls)
  /\ UNCHANGED <<click, released>>

NoCall == UNCHANGED <<epoch, hold, click, sinkQ, decodeQ, start, opened, released>>

(* release_and_wait, up to sending the command. *)
Release(t) ==
  /\ hold' = FALSE /\ epoch' = t.gen
  /\ start' = NoJob /\ opened' = "none"
  /\ txn' = t /\ answer' = "none"
  /\ pc' = "asking"
  /\ UNCHANGED <<click, sinkQ, decodeQ, released>>

Went(stage) == pc' = stage /\ UNCHANGED <<resume, txn, answer>>

\* Plausible bug: the stream takes the generation the model has.
NextGeneration_Same(g) == g
NextGeneration(g) == g + 1

(* load, for a song at generation `before`: the next generation is asked for *)
(* once the sink is released.                                                *)
BeginLoad(before, was, song) ==
  /\ starts < MaxStarts /\ starts' = starts + 1
  /\ Release([why |-> "load", cmd |-> "Switch", song |-> song, gen |-> NextGeneration(before),
              was |-> gen, play |-> was])
  /\ resume' = pc
  /\ gen' = before

(* Stop with the hold given back: pause's other branch, release_hold. *)
StopSinking(before, state) ==
  /\ gen' = before + 1 /\ play' = state
  /\ PlaybackStop(before + 1, 1)

-----------------------------------------------------------------------------
(* The blocking release. *)
AskSink ==
  /\ pc = "asking" /\ Len(sinkQ) < SinkCap
  /\ sinkQ' = Append(sinkQ, IF txn.cmd = "Stop" THEN Stop(TRUE) ELSE Switch)
  /\ pc' = "waiting"
  /\ UNCHANGED <<elsewhere, epoch, hold, click, decodeQ, resume, gen, play, seek, held, pending,
                 start, opened, released, txn, answer, asleep, starts, inputs>>

(* A load that failed after its release: back to the snapshot, as an error,  *)
(* past the generation that failed.                                          *)
LoadFails ==
  /\ gen' = txn.gen + 1 /\ play' = FailedPlay(txn.play)
  /\ PlaybackStop(txn.gen + 1, 1)
  /\ pc' = resume /\ txn' = NoTxn /\ answer' = "none"
  /\ UNCHANGED <<elsewhere, resume, seek, held, pending, asleep, starts, inputs>>

(* What follows an answered or timed-out release that was no load: the held  *)
(* pause given back is followed by the release of a kept sink (the hold, the *)
(* epoch and the start are what the first release left), a card repair by    *)
(* one more stop.                                                            *)
ReleaseOver(ok) ==
  /\ asleep' = (asleep \/ (txn.why = "sleep" /\ ok))
  /\ pc' = CASE txn.why = "hold" -> "asking" [] txn.why = "repair" -> "stopping"
             [] OTHER -> resume
  /\ txn' = IF txn.why = "hold" THEN [txn EXCEPT !.why = "release"] ELSE NoTxn
  /\ UNCHANGED <<epoch, hold, click, start, opened>>

RepairStops ==
  /\ pc = "stopping"
  /\ PlaybackStop(gen, 1)
  /\ pc' = resume
  /\ UNCHANGED <<elsewhere, resume, gen, play, seek, held, pending, txn, answer, asleep, starts,
                 inputs>>

\* Plausible bug: a kept sink that does not fit stays open while the plan probes.
MustClose_Never(fits) == FALSE
MustClose(fits) == answer = "kept" /\ ~fits

(* The sink's answer.  A load goes on: a kept sink the next stream can play  *)
(* in starts it at once, another one is closed before the plan.              *)
SinkAnswered(fits) ==
  /\ pc = "waiting" /\ answer # "none"
  /\ fits => txn.why = "load" /\ answer = "kept"
  /\ released' = TRUE /\ answer' = "none"
  /\ decodeQ' = Offer(decodeQ, StopDecoder, DecodeCap)
  /\ IF txn.why = "load"
       THEN /\ IF MustClose(fits)
                 THEN pc' = "asking" /\ txn' = [txn EXCEPT !.cmd = "Stop"]
                 ELSE pc' = (IF fits THEN "starting" ELSE "planning") /\ UNCHANGED txn
            /\ UNCHANGED <<epoch, hold, click, start, opened, asleep>>
       ELSE ReleaseOver(TRUE)
  /\ UNCHANGED <<elsewhere, sinkQ, resume, gen, play, seek, held, pending, starts, inputs>>

(* 2 s without an answer: the reply's receiver is dropped.  The decoder gets *)
(* its Stop only when the command had been sent.                             *)
Unasked == [i \in DOMAIN sinkQ |-> [sinkQ[i] EXCEPT !.ask = FALSE]]

ReleaseTimesOut ==
  /\ pc \in {"asking", "waiting"}
  /\ IF txn.why = "load"
       THEN /\ gen' = txn.gen + 1 /\ play' = FailedPlay(txn.play)
            /\ hold' = FALSE /\ epoch' = txn.gen + 1
            /\ start' = NoJob /\ opened' = "none"
            /\ sinkQ' = Offer(Unasked, Stop(FALSE), SinkCap)
            /\ decodeQ' = OfferTimes(decodeQ, StopDecoder, DecodeCap,
                                      IF pc = "asking" THEN 1 ELSE 2)
            /\ pc' = resume /\ txn' = NoTxn
            /\ UNCHANGED <<click, asleep>>
       ELSE /\ ReleaseOver(FALSE)
            /\ sinkQ' = Unasked
            /\ decodeQ' = (IF pc = "asking" THEN decodeQ
                           ELSE Offer(decodeQ, StopDecoder, DecodeCap))
            /\ UNCHANGED <<gen, play>>
  /\ answer' = "none"
  /\ UNCHANGED <<elsewhere, resume, seek, held, pending, released, starts, inputs>>

(* The plan probes the device. *)
Planned ==
  /\ pc = "planning"
  /\ pc' = "starting"
  /\ UNCHANGED <<elsewhere, epoch, hold, click, sinkQ, decodeQ, resume, gen, play, seek, held,
                 pending, start, opened, released, txn, answer, asleep, starts, inputs>>

PlanFails == pc = "planning" /\ LoadFails

(* begin_start_with_gapless, then the load's commit; a start the guard        *)
(* refuses is a load that failed.                                            *)
MayOpen == start = NoJob /\ released /\ Len(sinkQ) < SinkCap

\* Plausible bug: the release is taken for granted for the next start too.
SendOpen_StillReleased(j) ==
  /\ sinkQ' = Append(sinkQ, Open(j))
  /\ start' = j /\ opened' = "none" /\ UNCHANGED released
SendOpen(j) ==
  /\ sinkQ' = Append(sinkQ, Open(j))
  /\ start' = j /\ opened' = "none" /\ released' = FALSE

StartSent ==
  /\ SendOpen([id |-> starts, gen |-> txn.gen])
  /\ hold' = FALSE
  /\ gen' = txn.gen /\ play' = "Buffering"
  /\ pending' = [on |-> TRUE, song |-> txn.song, gen |-> txn.gen, was |-> txn.was,
                 play |-> txn.play]
  /\ pc' = resume /\ txn' = NoTxn
  /\ UNCHANGED <<elsewhere, epoch, click, decodeQ, resume, seek, held, answer, asleep, starts, inputs>>

BeginStart == pc = "starting" /\ IF MayOpen THEN StartSent ELSE LoadFails

-----------------------------------------------------------------------------
(* The start of a pass: poll_pending_reconfiguration and poll_start.  The    *)
(* stages go round; each takes what it finds.                                *)
NextStage ==
  /\ pc \in MainStages
  /\ pc = "poll"   => ~pending.on \/ start = NoJob \/ opened = "none"
  /\ pc = "events" => events = <<>>
  /\ pc' = CASE pc = "poll"  -> "seek"    [] pc = "seek"   -> "input"
             [] pc = "input" -> "events"  [] pc = "events" -> "control"
             [] pc = "control" -> "poll"
  /\ NoCall
  /\ UNCHANGED <<elsewhere, resume, gen, play, seek, held, pending, txn, answer, asleep, starts,
                 inputs>>

StartOpened ==
  /\ pc = "poll" /\ pending.on /\ opened = "open" /\ Len(decodeQ) < DecodeCap
  /\ decodeQ' = Append(decodeQ, Load(start))
  /\ start' = NoJob /\ opened' = "none" /\ pending' = NoPending
  /\ Went("seek")
  /\ UNCHANGED <<elsewhere, epoch, hold, click, sinkQ, gen, play, seek, held, released, asleep,
                 starts, inputs>>

(* The device was refused, the answer is late, or the decode channel full,   *)
(* after invalidate_start has stopped once already; or the Bluetooth         *)
(* transport went away ("lost").                                             *)
StartFails(why) ==
  /\ pc = "poll" /\ pending.on
  /\ CASE why = "refused" -> opened = "failed" \/ (opened = "open" /\ Len(decodeQ) >= DecodeCap)
       [] why = "late"    -> start # NoJob /\ opened = "none"
       [] why = "lost"    -> "Transport" \in Disturbances /\ Active
  /\ gen' = pending.gen + 1 /\ play' = FailedPlay(pending.play)
  /\ PlaybackStop(pending.gen + 1, IF why = "lost" THEN 1 ELSE 2)
  /\ pending' = NoPending
  /\ Went("seek")
  /\ UNCHANGED <<elsewhere, seek, held, asleep, starts, inputs>>

(* apply_seek, once the steps stopped and no start is in progress; `refused`: *)
(* the load ends before its release (the track is gone), and the model goes   *)
(* back to the snapshot.                                                      *)
ApplySeek(refused) ==
  /\ pc = "seek" /\ seek /\ ~pending.on
  /\ seek' = FALSE
  /\ CASE Active /\ ~refused -> BeginLoad(gen, play, TRUE) /\ UNCHANGED <<play, asleep>>
       [] Active /\ refused  -> /\ "TrackGone" \in Disturbances
                                /\ NoCall /\ Went("seek")
                                /\ UNCHANGED <<gen, play, asleep, starts>>
       [] ~Active            -> /\ NoCall /\ Went("seek")
                                /\ UNCHANGED <<gen, play, asleep, starts>>
  /\ UNCHANGED <<elsewhere, held, pending, inputs>>

(* release_hold *)
ReleaseHold ==
  /\ held' = FALSE
  /\ IF hold THEN StopSinking(gen, play) ELSE (NoCall /\ UNCHANGED <<gen, play>>)

HoldLimit ==
  /\ pc = "seek" /\ held /\ "HoldLimit" \in Disturbances
  /\ ReleaseHold
  /\ Went("input")
  /\ UNCHANGED <<elsewhere, seek, pending, asleep, starts, inputs>>

-----------------------------------------------------------------------------
(* Inputs: effect, with_model_action (refused while a start is in progress)  *)
(* and the transport's own calls.  A refused input changes nothing.          *)
Input == pc = "input" /\ ~asleep /\ inputs < MaxInputs /\ inputs' = inputs + 1
InputRest == UNCHANGED <<elsewhere, asleep>>

(* pause: in place what plays, else the sink is given back, and a start in   *)
(* progress abandoned (`keeps`: a song change, whose song is kept).          *)
PauseInPlace(g, state) ==
  /\ hold' = TRUE /\ held' = TRUE
  /\ gen' = g /\ play' = state
  /\ UNCHANGED <<epoch, click, sinkQ, decodeQ, start, opened, released, seek>>

PauseReleasing(g, state) ==
  /\ seek' = FALSE /\ held' = FALSE
  /\ StopSinking(g, state)

Abandon   == pending' = NoPending
Abandoned == IF pending.on THEN pending.was ELSE gen
InPlace   == play = "Playing" /\ ~seek /\ ~pending.on

Pause(state, keeps) ==
  /\ IF play = "Playing" /\ ~seek /\ (keeps \/ ~pending.on)
       THEN PauseInPlace(gen, state)
       ELSE PauseReleasing(IF keeps THEN gen ELSE Abandoned, state)
  /\ Abandon

TogglePause ==
  /\ Input /\ (Active \/ pending.on)
  /\ Pause("Paused", pending.song)
  /\ Went("input") /\ InputRest /\ UNCHANGED starts

ResumeInPlace ==
  /\ Input /\ ~pending.on /\ play = "Paused" /\ hold
  /\ hold' = FALSE /\ held' = FALSE /\ play' = "Playing"
  /\ Went("input") /\ InputRest
  /\ UNCHANGED <<epoch, click, sinkQ, decodeQ, start, opened, released, gen, seek, pending,
                 starts>>

(* Play when nothing sounds, another song (`steps` past the generation), the  *)
(* other output or other sound settings.                                     *)
PlaySong(steps, song) ==
  /\ Input /\ ~pending.on
  /\ ~song => steps = 0
  /\ BeginLoad(gen + steps, play, song)
  /\ InputRest /\ UNCHANGED <<play, seek, held, pending>>

(* Next or Previous while a song is starting: the model moves on at once, the *)
(* restart follows.                                                          *)
StepWhileStarting ==
  /\ Input /\ pending.on
  /\ gen' = gen + 1 /\ hold' = TRUE /\ seek' = TRUE
  /\ Went("input") /\ InputRest
  /\ UNCHANGED <<epoch, click, sinkQ, decodeQ, start, opened, released, play, held, pending,
                 starts>>

(* Next past the last song, and Stop on the control socket. *)
StopAtEnd ==
  /\ Input /\ ~pending.on
  /\ StopSinking(gen, "Stopped")
  /\ Went("input") /\ InputRest /\ UNCHANGED <<seek, held, pending, starts>>

StopPlayback ==
  /\ Input /\ ~pending.on
  /\ Pause("Stopped", FALSE)
  /\ Went("input") /\ InputRest /\ UNCHANGED starts

SeekBy ==
  /\ Input
  /\ IF Active
       THEN /\ hold' = TRUE /\ seek' = TRUE
            /\ UNCHANGED <<epoch, click, sinkQ, decodeQ, start, opened, released, gen, play,
                           held>>
       ELSE hold /\ ReleaseHold /\ UNCHANGED seek
  /\ Went("input") /\ InputRest /\ UNCHANGED <<pending, starts>>

(* A wheel click while no music plays. *)
WheelClick ==
  /\ Input /\ "Click" \in Disturbances /\ ~Active
  /\ click' = TRUE
  /\ sinkQ' = IF click THEN sinkQ ELSE Offer(sinkQ, Click, SinkCap)
  /\ Went("input") /\ InputRest
  /\ UNCHANGED <<epoch, hold, decodeQ, start, opened, released, gen, play, seek, held, pending,
                 starts>>

(* The platform's sleep request gives the held pause and a kept sink back. *)
SleepRequest ==
  LET g == IF hold THEN gen + 1 ELSE gen IN
  /\ Input /\ "Sleep" \in Disturbances /\ ~Active
  /\ held' = FALSE /\ gen' = g
  /\ Release([NoTxn EXCEPT !.why = IF hold THEN "hold" ELSE "release", !.gen = g])
  /\ resume' = pc
  /\ InputRest /\ UNCHANGED <<play, seek, pending, starts>>

(* A card repair: what plays pauses, the held pause is given back and waited *)
(* for, and playback stops.                                                  *)
SdRepair ==
  /\ Input /\ "SdRepair" \in Disturbances
  /\ CASE InPlace \/ (play # "Playing" /\ hold) ->
            /\ gen' = gen + 1 /\ held' = FALSE
            /\ play' = IF InPlace THEN "Paused" ELSE play
            /\ Release([NoTxn EXCEPT !.why = "repair", !.gen = gen + 1])
            /\ resume' = pc /\ UNCHANGED <<seek, pending>>
       [] play = "Playing" /\ ~InPlace ->
            /\ gen' = Abandoned + 1 /\ play' = "Paused"
            /\ seek' = FALSE /\ held' = FALSE /\ Abandon
            /\ PlaybackStop(Abandoned + 1, 2)
            /\ Went("input")
       [] play # "Playing" /\ ~hold ->
            /\ held' = FALSE
            /\ PlaybackStop(gen, 1)
            /\ Went("input") /\ UNCHANGED <<gen, play, seek, pending>>
  /\ InputRest /\ UNCHANGED starts

-----------------------------------------------------------------------------
(* playback_events: events of another generation change nothing. *)
TakesEvent(kind) ==
  /\ pc = "events" /\ events # <<>> /\ Head(events).kind = kind
  /\ Head(events).job.gen = gen
  /\ events' = Tail(events)
  /\ UNCHANGED <<streamQ, sinkVars, decodeVars, asleep, inputs>>

StaleEvent ==
  /\ pc = "events" /\ events # <<>> /\ Head(events).job.gen # gen
  /\ events' = Tail(events)
  /\ NoCall
  /\ UNCHANGED <<streamQ, sinkVars, decodeVars, pc, resume, gen, play, seek, held, pending, txn,
                 answer, asleep, starts, inputs>>

TrackStarted ==
  /\ TakesEvent("TrackStarted")
  /\ play' = "Playing"
  /\ NoCall /\ Went("events") /\ UNCHANGED <<gen, seek, held, pending, starts>>

(* The next entry is after this one in the queue, or it is not found. *)
TrackBoundary(found) ==
  /\ TakesEvent("TrackBoundary")
  /\ play' = IF found THEN "Buffering" ELSE play
  /\ NoCall /\ Went("events") /\ UNCHANGED <<gen, seek, held, pending, starts>>

(* finish_track: the next song (a step), this one again, or the end. *)
TrackEnded(next, again) ==
  /\ TakesEvent("TrackEnded")
  /\ play' = "Stopped"
  /\ IF (next \/ again) /\ ~pending.on
       THEN BeginLoad(IF again THEN gen ELSE gen + 1, "Stopped", TRUE)
       ELSE NoCall /\ Went("events") /\ UNCHANGED <<gen, starts>>
  /\ UNCHANGED <<seek, held, pending>>

PlaybackError ==
  /\ TakesEvent("PlaybackError")
  /\ StopSinking(gen, "Error")
  /\ Went("events") /\ UNCHANGED <<seek, held, pending, starts>>

-----------------------------------------------------------------------------
(* Bluetooth, storage, and the platform's sleep preparation. *)
Control == pc = "control" /\ inputs < MaxInputs /\ inputs' = inputs + 1

(* The transport playing is another one: the song loads again; it is gone, or *)
(* another one while a start is in progress: playback fails.                  *)
TransportMoves ==
  /\ Control /\ "Transport" \in Disturbances /\ Active /\ ~pending.on
  /\ BeginLoad(gen, play, TRUE)
  /\ InputRest /\ UNCHANGED <<play, seek, held, pending>>

TransportFails ==
  /\ Control /\ "Transport" \in Disturbances /\ Active
  /\ StopSinking(Abandoned, "Error")
  /\ Abandon
  /\ Went("control") /\ InputRest /\ UNCHANGED <<seek, held, starts>>

(* bluetooth_peer_lost: the start in progress is abandoned, which may put     *)
(* another output than the lost peer back (`ours`: it did not), then a pause. *)
PeerLost(ours) ==
  /\ Control /\ "PeerLost" \in Disturbances
  /\ ours \/ (pending.on /\ ~pending.song)
  /\ CASE ours -> PauseReleasing(Abandoned + 1, "Paused")
       [] ~ours /\ pending.play = "Playing" /\ ~seek -> PauseInPlace(Abandoned, "Paused")
       [] OTHER -> PauseReleasing(Abandoned, "Paused")
  /\ Abandon
  /\ Went("control") /\ InputRest /\ UNCHANGED starts

(* A source came or went: the start in progress is abandoned, a song whose    *)
(* source is gone (`offline`) pauses.  Before that, a removed card pauses     *)
(* what plays.                                                                *)
SourceChange(offline) ==
  /\ Control /\ "SourceChange" \in Disturbances
  /\ IF offline
       THEN StopSinking(Abandoned, "Paused")
       ELSE /\ gen' = Abandoned /\ play' = IF pending.on THEN pending.play ELSE play
            /\ NoCall
  /\ Abandon
  /\ Went("control") /\ InputRest /\ UNCHANGED <<seek, held, starts>>

CardRemoved(offline) ==
  /\ Control /\ "SourceChange" \in Disturbances
  /\ CASE InPlace /\ ~offline -> PauseInPlace(gen, "Paused")
       [] InPlace /\ offline  -> /\ held' = TRUE /\ UNCHANGED seek
                                /\ StopSinking(gen, "Paused")
       [] ~InPlace /\ ~offline -> PauseReleasing(Abandoned, "Paused")
       [] ~InPlace /\ offline  -> /\ gen' = Abandoned + 2 /\ play' = "Paused"
                                 /\ seek' = FALSE /\ held' = FALSE
                                 /\ PlaybackStop(Abandoned + 2, 2)
  /\ Abandon
  /\ Went("control") /\ InputRest /\ UNCHANGED starts

PrepareSleep ==
  /\ Control /\ "Sleep" \in Disturbances /\ ~asleep
  /\ ~Active /\ start = NoJob /\ ~pending.on
  /\ held' = FALSE /\ seek' = FALSE
  /\ Release([NoTxn EXCEPT !.why = "sleep", !.gen = gen])
  /\ resume' = pc
  /\ InputRest /\ UNCHANGED <<gen, play, pending, starts>>

RestoreSleep ==
  /\ Control /\ asleep /\ asleep' = FALSE
  /\ NoCall /\ Went("control")
  /\ UNCHANGED <<elsewhere, gen, play, seek, held, pending, starts>>

-----------------------------------------------------------------------------
TransportNext ==
  \/ AskSink \/ ReleaseTimesOut \/ RepairStops \/ Planned \/ PlanFails \/ BeginStart
  \/ \E fits \in BOOLEAN : SinkAnswered(fits)
  \/ NextStage \/ StartOpened \/ HoldLimit
  \/ \E why \in {"refused", "late", "lost"} : StartFails(why)
  \/ \E refused \in BOOLEAN : ApplySeek(refused)
  \/ TogglePause \/ ResumeInPlace \/ StepWhileStarting \/ StopAtEnd \/ StopPlayback \/ SeekBy
  \/ \E steps \in 0..1, song \in BOOLEAN : PlaySong(steps, song)
  \/ WheelClick \/ SleepRequest \/ SdRepair
  \/ StaleEvent \/ TrackStarted \/ PlaybackError
  \/ \E found \in BOOLEAN : TrackBoundary(found)
  \/ \E next, again \in BOOLEAN : TrackEnded(next, again)
  \/ TransportMoves \/ TransportFails
  \/ \E ours \in BOOLEAN : PeerLost(ours)
  \/ \E offline \in BOOLEAN : SourceChange(offline) \/ CardRemoved(offline)
  \/ PrepareSleep \/ RestoreSleep
=============================================================================
