------------------------------ MODULE Outputs ------------------------------
(***************************************************************************)
(* Where the music goes: the automatic move to Bluetooth headphones        *)
(* (outputs.rs, AutoOutput), the peer that dropped and the Play that waits *)
(* for it (LostPeer), the paused stream that keeps its sink, and the       *)
(* states of the radio daemon on their way to the main loop through the    *)
(* client thread of bluetooth.rs, which keeps only the newest.             *)
(* The pipeline's own threads are modelled in Playback: a start here       *)
(* succeeds or is refused in one step.                                     *)
(***************************************************************************)
EXTENDS Naturals, Sequences

CONSTANTS Peers,        \* Bluetooth headphones
          SpeakerOn,    \* the setting that lets the jack output play on the speaker
          Window,       \* LOST_PEER_WINDOW, in ticks of the clock
          Wait,         \* LOST_PEER_PLAY_WAIT
          Channel,      \* states the main loop has not taken (sync_channel(4))
          MaxChanges    \* bound: changes of links, adapter and jack

OutputBounds ==
  /\ Window \in Nat \ {0} /\ Wait \in Nat \ {0} /\ Channel \in Nat \ {0} /\ MaxChanges \in Nat
  /\ SpeakerOn \in BOOLEAN /\ Peers \cap {"jack", "speaker", "none"} = {}

VARIABLES link,     \* what each peer really is: away, settling (no stream yet), ready
          adapter,  \* the radio daemon's adapter: up, off, gone
          lines,    \* states the daemon sent that the client has not read
          unsent,   \* the client's newest state, when the channel was full
          states,   \* the channel to the main loop
          btState,  \* the state the main loop took last
          routed,   \* AutoOutput: connections already dealt with
          audio,    \* output, lost peer, music, open sink, speaker_active
          headphones, changes
outputVars == <<link, adapter, lines, unsent, states, btState, routed, audio, headphones, changes>>

Jack == "jack"
None == "none"
NotWaiting == Window + Wait + 1          \* an age no clock reaches
NoLoss == [peer |-> None, since |-> 0, play |-> NotWaiting]
LostPeer(p) == [peer |-> p, since |-> 0, play |-> NotWaiting]
Link == {"away", "settling", "ready"}
\* A state without the adapter names no devices.
Status(a, l) == [available |-> a # "gone", powered |-> a = "up",
                 link |-> [p \in Peers |-> IF a = "up" THEN l[p] ELSE "away"]]
Connected(s, p) == s.link[p] # "away"
Ready(s, p) == p \in Peers /\ s.link[p] = "ready"

OutputsInit ==
  /\ link = [p \in Peers |-> "away"] /\ adapter = "up" /\ lines = <<>>
  /\ unsent = <<>> /\ states = <<>> /\ btState = Status("up", link)
  /\ routed = {} /\ headphones \in {"out", "in"} /\ changes = 0
  /\ audio = [output |-> Jack, lost |-> NoLoss, music |-> "stopped", sink |-> None, speaker |-> FALSE]

-----------------------------------------------------------------------------
(* The radio daemon (external) and the client thread. *)

Changes == changes < MaxChanges /\ changes' = changes + 1
LinkChanges(p) ==
  /\ Changes /\ adapter = "up"
  /\ \E to \in Link \ {link[p]} : (link[p] = "away" => to # "ready") /\ link' = [link EXCEPT ![p] = to]
  /\ lines' = Append(lines, Status(adapter, link'))
  /\ UNCHANGED <<adapter, unsent, states, btState, routed, audio, headphones>>
\* Off drops every link; a restarting service keeps them.
AdapterChanges(to) ==
  /\ Changes /\ to # adapter
  /\ adapter' = to
  /\ link' = IF to = "off" THEN [p \in Peers |-> "away"] ELSE link
  /\ lines' = Append(lines, Status(to, link'))
  /\ UNCHANGED <<unsent, states, btState, routed, audio, headphones>>

\* One turn of session: every complete line is read, the newest state goes up.
ClientPass ==
  /\ lines # <<>> \/ unsent # <<>>
  /\ LET newest == IF lines = <<>> THEN unsent ELSE <<lines[Len(lines)]>> IN
     IF Len(states) < Channel THEN states' = states \o newest /\ unsent' = <<>>
                              ELSE states' = states /\ unsent' = newest
  /\ lines' = <<>>
  /\ UNCHANGED <<link, adapter, btState, routed, audio, headphones, changes>>

-----------------------------------------------------------------------------
(* Starts, losses and switches, as functions of the audio state. *)

SpeakerRoute(out, plug) == out = Jack /\ SpeakerOn /\ plug = "out"
GaveUp(l) == l.play # NotWaiting /\ l.play >= Wait
Expired(l) == l.play = NotWaiting /\ l.since >= Window
Applies(a, plug) ==
  /\ a.lost # NoLoss /\ a.output = Jack /\ plug # "in" /\ ~GaveUp(a.lost)
  /\ a.lost.play # NotWaiting \/ ~Expired(a.lost)

\* bluetooth_peer_lost: back to the jack, paused, and the sink is given back.
PeerLost(a) == [a EXCEPT !.output = Jack, !.lost = LostPeer(a.output), !.music = "paused", !.sink = None]
StartedOn(a, plug) ==
  LET speaker == SpeakerRoute(a.output, plug)
  IN [a EXCEPT !.music = "playing", !.speaker = speaker, !.sink = IF speaker THEN "speaker" ELSE a.output]
\* Plausible bug: every Play starts the wait again.
LoadOn_WaitsAnew(a, s, plug) ==
  IF Applies(a, plug) THEN [a EXCEPT !.lost.play = 0]
  ELSE IF a.output = Jack \/ Ready(s, a.output) THEN StartedOn(a, plug)
  ELSE IF s.available /\ ~Connected(s, a.output) THEN PeerLost(a) ELSE a
\* load: wait for the lost peer, start, or be refused. Refused because the peer is gone: the
\* disconnect was missed, and fail recovers as if it had been seen.
LoadOn(a, s, plug) ==
  IF Applies(a, plug) THEN [a EXCEPT !.lost.play = IF @ = NotWaiting THEN 0 ELSE @]
  ELSE IF a.output = Jack \/ Ready(s, a.output) THEN StartedOn(a, plug)
  ELSE IF s.available /\ ~Connected(s, a.output) THEN PeerLost(a) ELSE a
\* switch: a Play that waited for these headphones plays there now.
Switch(a, out, s, plug) ==
  LET waited == a.lost.play # NotWaiting /\ a.lost.peer = out
      moved  == [a EXCEPT !.output = out, !.lost = NoLoss]
  IN IF a.music = "playing" \/ waited THEN LoadOn(moved, s, plug) ELSE moved

-----------------------------------------------------------------------------
(* The owner and the jack. *)

OnlyAudio == UNCHANGED <<link, adapter, lines, unsent, states, btState, routed, headphones, changes>>
ResumesInPlace(a) ==
  /\ a.music = "paused" /\ a.sink # None
  /\ a.speaker = SpeakerRoute(a.output, headphones)
  /\ ~Applies(a, headphones)
PlayPressed ==
  /\ audio.music # "playing"
  /\ audio' = IF ResumesInPlace(audio) THEN [audio EXCEPT !.music = "playing"]
                                       ELSE LoadOn(audio, btState, headphones)
  /\ OnlyAudio
Pause ==
  /\ audio.music = "playing"
  /\ audio' = [audio EXCEPT !.music = "paused"]
  /\ OnlyAudio
\* The hold limit, a power-down: the paused sink is given back.
ReleaseHold ==
  /\ audio.music = "paused" /\ audio.sink # None
  /\ audio' = [audio EXCEPT !.sink = None]
  /\ OnlyAudio
\* The owner picks an output: nothing waits for lost headphones then.
ChooseOutput(out) ==
  /\ out # Jack => Ready(btState, out)
  /\ audio' = Switch([audio EXCEPT !.lost = NoLoss], out, btState, headphones)
  /\ OnlyAudio
\* Headphones into a playing speaker take over; headphones out of what played in them pause.
JackChanged(to) ==
  /\ Changes /\ to # headphones
  /\ headphones' = to
  /\ LET wired == audio.output = Jack /\ audio.music = "playing" IN
     audio' = CASE wired /\ to = "in" /\ audio.speaker -> LoadOn(audio, btState, to)
                [] wired /\ to = "out" /\ ~audio.speaker -> [audio EXCEPT !.music = "paused"]
                [] ~wired /\ audio.music = "stopped" -> [audio EXCEPT !.speaker = SpeakerRoute(audio.output, to)]
                [] OTHER -> audio
  /\ UNCHANGED <<link, adapter, lines, unsent, states, btState, routed>>
\* A sink on a peer that left reports an error: the pipeline stops.
StreamBreaks ==
  /\ audio.sink \in Peers /\ link[audio.sink] # "ready"
  /\ audio' = [audio EXCEPT !.music = "stopped", !.sink = None]
  /\ OnlyAudio
\* Time passes for a loss and for the Play that waits.
ClockTick ==
  /\ audio.lost # NoLoss /\ ~GaveUp(audio.lost) /\ ~Expired(audio.lost)
  /\ audio' = [audio EXCEPT !.lost.since = IF @ < Window THEN @ + 1 ELSE @,
                            !.lost.play = IF @ < Wait THEN @ + 1 ELSE @]
  /\ OnlyAudio
\* The screen wakes: sleep turned Bluetooth off, so the window starts again.
ScreenWakes == audio.lost.since > 0 /\ audio' = [audio EXCEPT !.lost.since = 0] /\ OnlyAudio

-----------------------------------------------------------------------------
(* A pass of the main loop: lost_peer_tick, the states, the automatic output. *)

LostPeerTick(a) == IF GaveUp(a.lost) \/ Expired(a.lost) THEN [a EXCEPT !.lost = NoLoss] ELSE a
\* A later state must not hide an earlier disconnect of the output.
Disconnects(before, s, out) ==
  out # Jack /\ s.available /\ before.available /\ Connected(before, out) /\ ~Connected(s, out)
BtLost == LET seen == <<btState>> \o states
          IN \E i \in 1..Len(states) : Disconnects(seen[i], seen[i + 1], audio.output)

\* Plausible bug: a state without the adapter is taken for a disconnection.
StillRouted_Unseen(s) == {p \in routed : Connected(s, p)}
\* AutoOutput::next: the connections still dealt with, and those it may act on.
StillRouted(s) == IF s.available THEN {p \in routed : Connected(s, p)} ELSE routed
NewlyReady(s) == {p \in Peers : Ready(s, p)} \ StillRouted(s)

OutputPass ==
  LET s   == IF states = <<>> THEN btState ELSE states[Len(states)]
      now == IF BtLost THEN PeerLost(LostPeerTick(audio)) ELSE LostPeerTick(audio)
  IN /\ btState' = s /\ states' = <<>>
     /\ \/ /\ \/ NewlyReady(s) = {}
              \/ \E p \in NewlyReady(s) : p # now.output /\ Ready(s, now.output)
           /\ routed' = StillRouted(s) /\ audio' = now
        \/ \E p \in NewlyReady(s) :
             /\ p = now.output \/ ~Ready(s, now.output)
             /\ routed' = StillRouted(s) \cup {p}
             /\ audio' = IF p = now.output THEN now ELSE Switch(now, p, s, headphones)
     /\ UNCHANGED <<link, adapter, lines, unsent, headphones, changes>>

OutputsNext ==
  \/ \E p \in Peers : LinkChanges(p)
  \/ \E to \in {"up", "off", "gone"} : AdapterChanges(to)
  \/ ClientPass \/ PlayPressed \/ Pause \/ ReleaseHold
  \/ \E out \in Peers \cup {Jack} : ChooseOutput(out)
  \/ \E to \in {"in", "out"} : JackChanged(to)
  \/ StreamBreaks \/ ClockTick \/ ScreenWakes \/ OutputPass

\* The main loop runs its passes; the clock runs.
OutputsFair == WF_outputVars(OutputPass) /\ WF_outputVars(ClockTick)
OutputsSpec == OutputsInit /\ [][OutputsNext]_outputVars /\ OutputsFair

-----------------------------------------------------------------------------
\* A Play in the moments after headphones dropped starts nothing on the jack or its speaker
\* unless something is plugged in: it waits for them (F51).
NeverOnTheJack ==
  [][ (audio'.music = "playing" /\ audio.music # "playing" /\ audio'.sink \in {Jack, "speaker"})
      => ~Applies(audio, headphones) ]_outputVars

\* A Play that waits for headphones comes to an end: they play, or it gives up, however often
\* Play is pressed meanwhile.
WaitingEnds == (audio.lost.play # NotWaiting) ~> (audio.lost.play = NotWaiting)

\* The jack chosen by hand sticks until the peer really reconnects: a connection dealt with is
\* forgotten only when a state with the adapter shows the peer away, and no pass moves the
\* output to a connection dealt with. A daemon that was away in between changes nothing.
SeenAway(p) == \E i \in 1..Len(states) : states[i].available /\ ~Connected(states[i], p)
OncePerConnection ==
  [][ \A p \in routed : ~SeenAway(p) => /\ p \in routed'
                                        /\ (OutputPass /\ audio.output # p => audio'.output # p) ]_outputVars

\* The output follows the headphones and the hand, in that order of what came last.
OutputFollows == NeverOnTheJack /\ OncePerConnection

\* The stream that plays is on the output the player shows.
PlaysOnTheOutput == audio.music = "playing" => (audio.sink = audio.output \/ (audio.output = Jack /\ audio.sink = "speaker"))

\* A Play that gives up waiting does so because its headphones are not back: were they ready,
\* the output would have followed them.
GivesUpOnlyAlone == GaveUp(audio.lost) => ~Ready(btState, audio.lost.peer)
=============================================================================
