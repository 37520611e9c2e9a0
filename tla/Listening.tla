----------------------------- MODULE Listening -----------------------------
(***************************************************************************)
(* Which plays count (reborn-core scrobble.rs): the Tracker fed by the     *)
(* main loop (scrobble_tick) with the queue entry playing, whether audio   *)
(* plays and the position last reported, in whole seconds.                 *)
(*                                                                         *)
(* Every step is one frame of the main loop: something happens, at most a  *)
(* second passes, and the tracker observes.  The reported position trails  *)
(* the audio by at most a second.                                          *)
(***************************************************************************)
EXTENDS Integers

CONSTANTS
  Songs, NoSong,
  Entries,      \* queue entry ids
  Length,       \* every song's duration
  Restart,      \* RESTART_MS
  Slack,        \* SLACK_MS
  Jump,         \* a seek's step
  MaxFrames     \* bound: frames observed

ListeningAssumption ==
  /\ NoSong \notin Songs
  /\ Entries \subseteq Nat \ {0}
  /\ Length \in Nat /\ Restart \in Nat \ {0} /\ Slack \in Nat /\ Jump \in Nat /\ MaxFrames \in Nat
  /\ Slack + 1 < Jump

VARIABLES
  entry, song, playing, audio, position,  \* the model: occurrence, track, state, true and reported position
  tracker,      \* Tracker.current
  counted,      \* the song counted by the last frame
  frames,
  listened,     \* history: seconds of this play that were heard and not counted yet
  mixed         \* history: another queue's first song took over a play unnoticed

listeningVars == <<entry, song, playing, audio, position, tracker, counted, frames, listened, mixed>>

Threshold == Length \div 2
NoPlay == [entry |-> 0, song |-> NoSong, last |-> 0, heard |-> 0, counted |-> FALSE]
Began(e, s, p) == [entry |-> e, song |-> s, last |-> p, heard |-> 0, counted |-> FALSE]

ListeningInit ==
  /\ entry = 0 /\ song = NoSong /\ playing = FALSE /\ audio = 0 /\ position = 0
  /\ tracker = NoPlay /\ counted = NoSong /\ frames = 0 /\ listened = 0 /\ mixed = FALSE

\* Plausible bug: a return to the start is not looked for.
Restarts_Never(p) == FALSE
Restarts(p) == p < Restart /\ tracker.last >= Restart + Slack /\ p < tracker.last

Heard(on, p, elapsed) ==
  LET step == p - tracker.last IN IF on /\ step > 0 /\ step <= elapsed + Slack THEN step ELSE 0

Counts(heard) == ~tracker.counted /\ heard >= Threshold

(* Tracker::observe, of occurrence e playing s at p. *)
Observe(e, s, on, p, elapsed) ==
  IF e = 0 THEN tracker' = NoPlay /\ counted' = NoSong
  ELSE IF tracker.entry # e \/ Restarts(p) THEN tracker' = Began(e, s, p) /\ counted' = NoSong
  ELSE LET heard == tracker.heard + Heard(on, p, elapsed)
           now == Counts(heard)
       IN /\ tracker' = [tracker EXCEPT !.last = p, !.heard = heard, !.counted = @ \/ now]
          /\ counted' = IF now THEN tracker.song ELSE NoSong

(* A frame that ends with occurrence e playing s, true position a, reported p. *)
Frame(e, s, on, a, p, elapsed) ==
  /\ frames < MaxFrames /\ frames' = frames + 1
  /\ p \in {a, a - 1} /\ p >= 0
  /\ entry' = e /\ song' = s /\ playing' = on /\ audio' = a /\ position' = p
  /\ Observe(e, s, on, p, elapsed)
SamePlay(more) ==
  listened' = (IF counted' = NoSong THEN listened + more ELSE 0) /\ UNCHANGED mixed
NewPlay(unseen) == listened' = 0 /\ mixed' = (mixed \/ unseen)

AudioPlays ==
  /\ playing /\ audio < Length
  /\ \E p \in position..Length : Frame(entry, song, TRUE, audio + 1, p, 1)
  /\ SamePlay(1)
Pauses == playing /\ Frame(entry, song, FALSE, audio, position, 0) /\ SamePlay(0)
Resumes == ~playing /\ entry # 0 /\ Frame(entry, song, TRUE, audio, position, 0) /\ SamePlay(0)
Waits == ~playing /\ entry # 0 /\ Frame(entry, song, FALSE, audio, position, 1) /\ SamePlay(0)

SeekAhead ==
  /\ entry # 0 /\ audio + Jump <= Length
  /\ Frame(entry, song, playing, audio + Jump, audio + Jump, 0) /\ SamePlay(0)
(* Previous, Repeat One or a seek back: a play that had moved on and returns  *)
(* to its start begins anew, any other goes on from the earlier place.        *)
GoesBack ==
  /\ entry # 0
  /\ \E a \in {0, audio - Jump} :
       /\ Frame(entry, song, playing, a, a, 0)
       /\ \/ a < Restart /\ position >= Restart + Slack /\ NewPlay(FALSE)
          \/ ~(a < Restart /\ position >= Restart + Slack) /\ SamePlay(0)

NextEntry ==
  /\ entry # 0
  /\ \E e \in Entries \ {entry}, s \in Songs : Frame(e, s, TRUE, 0, 0, 0)
  /\ NewPlay(FALSE)

(* Another album or playlist: replace_queue numbers its entries from 1 again. *)
Replace ==
  /\ \E e \in Entries, s \in Songs : Frame(e, s, TRUE, 0, 0, 0) /\ (s # song \/ e # entry)
  /\ NewPlay(entry' = entry /\ ~Restarts(0))

QueueEnds == entry # 0 /\ Frame(0, NoSong, FALSE, 0, 0, 0) /\ NewPlay(FALSE)

ListeningNext ==
  AudioPlays \/ Pauses \/ Resumes \/ Waits \/ SeekAhead \/ GoesBack \/ NextEntry \/ Replace \/ QueueEnds
ListeningSpec == ListeningInit /\ [][ListeningNext]_listeningVars

-----------------------------------------------------------------------------
(* scrobble.rs: "paused time, seeks and stalls add nothing".  When a play     *)
(* counts, half of it sounded since the play began or since it last counted,  *)
(* but for the second the report trails; and what counts is what plays.       *)
HeardIsHeard ==
  [][counted' # NoSong /\ ~mixed => listened + 2 >= Threshold /\ counted' = song]_listeningVars

(* "A play is one queue occurrence": what counts is the song playing. *)
CountedIsPlaying == counted # NoSong => counted = song
=============================================================================
