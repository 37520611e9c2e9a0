------------------------------- MODULE Volume -------------------------------
(***************************************************************************)
(* How loud the music is: the player's volume, the level of the wired      *)
(* amplifier, the safe level and the listener's agreement to more, and     *)
(* Bluetooth headphones that hold a volume of their own (audio.rs of the   *)
(* runtime, effects/sound.rs, switch and load of transport.rs, the fade of *)
(* sleep_timer.rs), with the settings a failed start puts back and the     *)
(* ones a restart reads.                                                   *)
(* A start is one step to begin and one to end; Outputs models which       *)
(* output is chosen, and Playback the threads behind a start.              *)
(***************************************************************************)
EXTENDS Naturals, Sequences

CONSTANTS Peers,       \* Bluetooth headphones
          OwnVolume,   \* those that report a volume of their own
          Levels,      \* HpLevel
          Safe,        \* safe_volume of each level
          Full,        \* the player's scale (100)
          AvrcpFull,   \* the headphones' scale (127)
          Room,        \* commands the radio client has not taken
          MaxActs   \* bound: steps of the listener and of the links

Jack == "jack"
None == "none"
VolumeBounds ==
  /\ OwnVolume \subseteq Peers /\ Room \in Nat \ {0}
  /\ Full \in Nat \ {0} /\ AvrcpFull \in Nat /\ AvrcpFull >= Full
  /\ Safe \in [Levels -> 1 .. Full]
  /\ None \notin Levels \cup Peers /\ Jack \notin Peers

VARIABLES player,   \* settings, output, sink level and what waits
          phones,   \* what the headphones really are: away, plain, or their level
          known,     \* the same as the state the main loop took last
          acts
volumeVars == <<player, phones, known, acts>>

NoVolume == Full + 1                    \* wired_volume: None
Away  == AvrcpFull + 1                  \* not connected
Plain == AvrcpFull + 2                  \* connected, without a volume of its own
NoPeer == [peer |-> None, reported |-> Away, echo |-> FALSE, unsent |-> FALSE]
Lowest(a, b) == IF a < b THEN a ELSE b
ToPercent(v) == (v * Full + AvrcpFull \div 2) \div AvrcpFull
ToAvrcp(v)   == (v * AvrcpFull + Full \div 2) \div Full
Takeover(reported, software) == (reported * software + Full \div 2) \div Full
\* The levels differ by a fixed number of steps.
ForLevel(v, from, to) ==
  IF v = 0 THEN 0
  ELSE IF v + Safe[to] <= Safe[from] THEN 1 ELSE Lowest(Full, (v + Safe[to]) - Safe[from])

\* prepare_wired_start
WiredStart(s) ==
  LET v == IF s.wired = NoVolume THEN s.volume ELSE s.wired
  IN [s EXCEPT !.wired = NoVolume, !.out = Jack, !.volume = Lowest(v, Safe[s.level])]
NewPlayer(s) == [set |-> s, held |-> NoPeer, soft |-> s.volume, music |-> "stopped",
             kernel |-> s.level, amp |-> None, cmds |-> <<>>, before |-> <<>>,
             modal |-> FALSE, fading |-> FALSE, saved |-> s]
FirstPlayers ==
  {NewPlayer(WiredStart([volume |-> v, wired |-> NoVolume, absolute |-> FALSE, loud |-> FALSE,
                     level |-> l, out |-> Jack])) : l \in Levels, v \in 1 .. Full}
VolumeInit ==
  /\ player \in FirstPlayers
  /\ phones = [p \in Peers |-> Away] /\ known = phones /\ acts = 0

-----------------------------------------------------------------------------
(* The volume of headphones that hold their own. *)

WiredSink(a) == a.set.out = Jack /\ a.held.peer = None
SinkVolume(a) == IF a.held.peer = None THEN a.set.volume ELSE Full
Limit(a) == IF a.set.loud THEN Full ELSE Safe[a.set.level]
\* checkpoint: nothing is written while a start is pending.
Checkpoint(a) == IF a.before = <<>> THEN [a EXCEPT !.saved = a.set] ELSE a
CapWired(a) ==
  IF WiredSink(a) /\ a.set.volume > Safe[a.set.level]
  THEN [a EXCEPT !.set.volume = Safe[a.set.level], !.soft = Safe[a.set.level]] ELSE a
Send(a) ==
  IF a.held.peer = None THEN a
  ELSE LET fits == Len(a.cmds) < Room
           cmd  == [peer |-> a.held.peer, level |-> ToAvrcp(a.set.volume)]
       IN [a EXCEPT !.held.unsent = ~fits, !.held.echo = TRUE, !.cmds = IF fits THEN Append(@, cmd) ELSE @]
Holder(a, b) == IF a.set.out \in OwnVolume /\ b[a.set.out] <= AvrcpFull THEN a.set.out ELSE None
GiveBack(a, b) ==
  IF a.held.peer = None \/ Holder(a, b) = a.held.peer THEN a
  ELSE LET back == CapWired([a EXCEPT !.set.volume = IF a.set.wired = NoVolume THEN @ ELSE a.set.wired,
                                      !.set.wired = NoVolume, !.held = NoPeer])
       IN [back EXCEPT !.soft = back.set.volume]
TakeOver(a, b) ==
  LET p == Holder(a, b)
      level == Takeover(b[p], IF a.set.absolute THEN Full ELSE a.set.volume)
      adopts == ~a.held.echo /\ ~a.held.unsent
  IN IF p = None THEN a
     ELSE IF a.held.peer = None
     THEN [a EXCEPT !.set.wired = a.set.volume, !.set.volume = ToPercent(level), !.set.absolute = TRUE,
                    !.held = [peer |-> p, reported |-> b[p], echo |-> FALSE, unsent |-> level # b[p]],
                    !.soft = Full]
     ELSE [a EXCEPT !.held.reported = b[p],
                    !.set.volume = IF b[p] # a.held.reported /\ adopts THEN ToPercent(b[p]) ELSE @]
\* sync_bt_volume
Sync(a, b) ==
  LET w == TakeOver(GiveBack(a, b), b)
  IN IF Holder(a, b) # None /\ w.held.unsent THEN Send(w) ELSE w

-----------------------------------------------------------------------------
(* Starts, and the settings a failed one puts back. *)

Active(a) == a.music \in {"playing", "starting"}
\* Plausible bug: a failed start puts back the volume too.
Restored_Volume(a, s) == [a EXCEPT !.set = s, !.before = <<>>]
\* The model before the change returns, with the volume headphones hold now; the amplifier
\* keeps the level it was told.
Restored(a, s) ==
  [a EXCEPT !.set = IF a.held.peer = None THEN s
                    ELSE [s EXCEPT !.volume = a.set.volume, !.wired = a.set.wired, !.absolute = a.set.absolute],
            !.before = <<>>]
Stops(a) == [a EXCEPT !.music = "stopped", !.amp = None]
\* load, after a change that began with the settings s: refused before the old stream is given
\* up, failed after it, or started.
Load(a, b, s, fate) ==
  LET w == Sync(a, b)
  IN CASE fate = "refused" -> Restored(w, s)
       [] fate = "failed"  -> Checkpoint(Stops(Restored(w, s)))
       [] fate = "starts"  -> [Stops(w) EXCEPT !.soft = SinkVolume(w), !.music = "starting", !.before = <<s>>]
Fates(a, b) == IF a.set.out = Jack \/ b[a.set.out] # Away THEN {"refused", "failed", "starts"} ELSE {"refused"}
Idle == player.before = <<>>

Listener == acts < MaxActs /\ acts' = acts + 1
Same == UNCHANGED <<phones, known>>
Loads(a) == \E fate \in Fates(a, known) : player' = Load(a, known, player.set, fate)

Play ==
  /\ Listener /\ Idle /\ ~Active(player)
  /\ \/ player.music = "paused" /\ player' = Checkpoint([player EXCEPT !.music = "playing"])
     \/ player.music = "stopped" /\ Loads(player)
  /\ Same
\* A playing song is held in its sink; a start is given up and its settings go back.
Paused(a) ==
  IF a.before = <<>> THEN Checkpoint([a EXCEPT !.music = "paused"])
  ELSE Checkpoint(Stops(Restored(a, a.before[1])))
Pause == Listener /\ Active(player) /\ player' = Paused(player) /\ Same
\* poll_pending_reconfiguration
StartEnds ==
  /\ ~Idle
  /\ \/ player' = Checkpoint([player EXCEPT !.music = "playing", !.before = <<>>,
                                            !.amp = IF player.set.out = Jack THEN player.kernel ELSE None])
     \/ player' = Checkpoint(Stops(Restored(player, player.before[1])))
  /\ Same /\ UNCHANGED acts
\* switch, by the listener or by the automatic output
Switch(out) ==
  /\ Listener /\ Idle /\ out # player.set.out
  /\ out \in Peers => known[out] # Away
  /\ LET moved == [player EXCEPT !.set.out = out]
         capped == IF out = Jack THEN CapWired(moved) ELSE moved
     IN IF Active(player) THEN Loads(capped) ELSE player' = Checkpoint(capped)
  /\ Same

-----------------------------------------------------------------------------
(* Buttons and settings. *)

Stepped(a, delta) ==
  LET up == Lowest(Full, a.set.volume + delta)
      asks == WiredSink(a) /\ delta > 0 /\ up > Limit(a)
      held == IF a.set.volume > Limit(a) THEN a.set.volume ELSE Limit(a)
  IN [a EXCEPT !.set.volume = IF asks THEN held ELSE up, !.modal = @ \/ asks]
Sounds(a) == Send([a EXCEPT !.soft = SinkVolume(a)])
Louder == Listener /\ Idle /\ player' = Sounds(Stepped(player, 1)) /\ Same
Quieter ==
  /\ Listener /\ Idle /\ player.set.volume > 0
  /\ player' = Sounds([player EXCEPT !.set.volume = @ - 1]) /\ Same
\* The volume of the control socket: no one to ask.
Control(v) ==
  LET most == IF WiredSink(player) /\ Limit(player) > player.set.volume THEN Limit(player)
              ELSE IF WiredSink(player) THEN player.set.volume ELSE Full
  IN /\ Listener /\ Idle /\ v # player.set.volume
     /\ player' = Sounds([player EXCEPT !.set.volume = Lowest(v, most)]) /\ Same
Agree ==
  /\ Listener /\ Idle /\ player.modal
  /\ LET agreed == Checkpoint([player EXCEPT !.set.loud = TRUE, !.modal = FALSE])
     IN player' = Sounds(Stepped(agreed, 1))
  /\ Same
Decline == player.modal /\ player' = [player EXCEPT !.modal = FALSE] /\ Same /\ UNCHANGED acts
\* on_set_hp_level: the wired volume moves so that the output stays as loud.
AtLevel(a, level) ==
  LET s == a.set
      v == ForLevel(s.volume, s.level, level)
      to == [a EXCEPT !.set.level = level, !.kernel = level]
  IN IF s.wired # NoVolume THEN [to EXCEPT !.set.wired = ForLevel(s.wired, s.level, level)]
     ELSE IF WiredSink(a)
     THEN [to EXCEPT !.set.volume = v, !.soft = IF v < s.volume THEN v ELSE @]
     ELSE to
SetLevel(level) ==
  /\ Listener /\ Idle /\ level # player.set.level
  /\ LET moved == AtLevel(player, level) IN
     IF player.set.out # Jack THEN player' = Checkpoint(moved)
     ELSE IF Active(player) THEN Loads(moved)
     ELSE player' = Checkpoint(Stops(moved))
  /\ Same
\* Twenty hours above the safe level: the agreement lapses.
AgreementLapses ==
  /\ player.set.loud /\ WiredSink(player) /\ player.music = "playing"
  /\ player.set.volume > Safe[player.set.level]
  /\ player' = Checkpoint(CapWired([player EXCEPT !.set.loud = FALSE]))
  /\ Same /\ UNCHANGED acts
\* The last seconds of the sleep timer, and its pause.
Faded(v) == v \div 2
Fade ==
  /\ Active(player) /\ player.soft # Faded(player.set.volume)
  /\ player' = [player EXCEPT !.soft = Faded(player.set.volume), !.fading = TRUE]
  /\ Same /\ UNCHANGED acts
FadeEnds ==
  /\ player.fading
  /\ \E a \in {player} \cup {Paused(b) : b \in {c \in {player} : Active(c)}} :
        player' = [a EXCEPT !.soft = player.set.volume, !.fading = FALSE]
  /\ Same /\ UNCHANGED acts

-----------------------------------------------------------------------------
(* The headphones (external), the radio client, and the state of a pass. *)

Headphones(p) ==
  /\ Listener
  /\ \E v \in IF p \in OwnVolume THEN {Away} \cup (0 .. AvrcpFull) ELSE {Away, Plain} :
       v # phones[p] /\ phones' = [phones EXCEPT ![p] = v]
  /\ UNCHANGED <<player, known>>
\* A command for headphones that left, or on a link to the daemon that broke, is lost.
Delivers(cmd) == phones[cmd.peer] <= AvrcpFull /\ phones' = [phones EXCEPT ![cmd.peer] = cmd.level]
CommandEnds ==
  /\ player.cmds # <<>>
  /\ Delivers(Head(player.cmds)) \/ UNCHANGED phones
  /\ player' = [player EXCEPT !.cmds = Tail(@)]
  /\ UNCHANGED <<known, acts>>
EchoEnds ==
  /\ player.held.echo
  /\ player' = [player EXCEPT !.held.echo = FALSE] /\ Same /\ UNCHANGED acts
\* bluetooth_peer_lost
PeerLost(a) ==
  LET r == IF a.before = <<>> THEN a ELSE Restored(a, a.before[1])
  IN Checkpoint(Stops([r EXCEPT !.set.out = Jack]))
BluetoothPass ==
  /\ known' = phones
  /\ LET lost == player.set.out \in Peers /\ known[player.set.out] # Away /\ phones[player.set.out] = Away
     IN player' = Sync(IF lost THEN PeerLost(player) ELSE player, phones)
  /\ known' # known \/ player' # player
  /\ UNCHANGED <<phones, acts>>
\* The process ends and starts again with the settings it saved last.
ProcessRestarts ==
  /\ Listener /\ player' = NewPlayer(WiredStart(player.saved))
  /\ known' = [p \in Peers |-> Away] /\ UNCHANGED phones

VolumeNext ==
  \/ Play \/ Pause \/ StartEnds \/ Louder \/ Quieter \/ Agree \/ Decline \/ AgreementLapses
  \/ Fade \/ FadeEnds \/ CommandEnds \/ EchoEnds \/ BluetoothPass \/ ProcessRestarts
  \/ \E out \in Peers \cup {Jack} : Switch(out)
  \/ \E v \in 0 .. Full : Control(v)
  \/ \E l \in Levels : SetLevel(l)
  \/ \E p \in Peers : Headphones(p)
VolumeSpec == VolumeInit /\ [][VolumeNext]_volumeVars

-----------------------------------------------------------------------------
(* Properties *)

\* Hearing: no step makes a playing wired stream louder than both the volume it was set to and
\* the safe level of its amplifier, unless the listener agreed to more (audio.rs, sound.rs).
LouderOnlyByConsent ==
  [][player.music = "playing" /\ player.amp = player.set.level /\ player'.amp = player.amp
       /\ WiredSink(player) /\ WiredSink(player') /\ player.set.wired = NoVolume /\ ~player'.set.loud
     => player'.soft <= player.set.volume \/ player'.soft <= Safe[player.amp]]_volumeVars
\* Headphones that hold the volume keep it, and the jack's own stays put aside, whatever start
\* fails or is given up meanwhile (keep_held_volume).
HeldVolumeIsKept ==
  [][player.held.peer # None /\ player'.held.peer = player.held.peer /\ player'.set.level = player.set.level
     => player'.set.wired = player.set.wired /\ player'.set.absolute]_volumeVars
\* Neither output's volume is changed by what happens to the other.
VolumeIsAgreed == LouderOnlyByConsent /\ HeldVolumeIsKept
\* Not so in the code: a wired stream is above the safe level of the amplifier it plays through
\* only when the listener agreed to it (Settings::wired_volume_limit, SAFE_PEAK_DBV).
LoudOnlyIfAgreed ==
  player.amp # None /\ WiredSink(player) /\ player.music = "playing" /\ ~player.set.loud
    => player.soft <= Safe[player.amp]
=============================================================================
