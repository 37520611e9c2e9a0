----------------------------- MODULE SongsProofs -----------------------------
(***************************************************************************)
(* What was heard, where it stopped, the radio's lists and the play queue, *)
(* for any number of songs, entries, books, parts, lengths and stations,   *)
(* and any size of the queue.                                              *)
(*                                                                         *)
(* Listening: until the queue is replaced under a song that plays on, the  *)
(* tracker is at the place last reported of the occurrence that plays, and *)
(* has heard no more of it than the listener.                              *)
(*                                                                         *)
(* Bookshelf: the place of a book is where the listener left it.  What has *)
(* to be known with it: one record for a book under a name its folder had, *)
(* so that a rename finds it; a start in progress is always to be written, *)
(* and what it is rolled back to differs from the places there are only by *)
(* what the start itself made of them; with nothing to write, the files    *)
(* and the model are the same.                                             *)
(*                                                                         *)
(* Stations: the latest request comes back once, for the list on screen    *)
(* unless that one was refused; a list shown is wrong only after a         *)
(* refusal, with nothing to come and nothing to try again.                 *)
(*                                                                         *)
(* NextSongs: the songs queued come before the others that are to come,    *)
(* the decoder's job is of the queue as it is unless something is on its   *)
(* way, and an empty queue has no job.  What an operation on the queue     *)
(* does is said once of every kind of it (a permutation, a part kept, an   *)
(* insertion), by where each entry of the new queue was in the old one.    *)
(***************************************************************************)
EXTENDS NextSongs, Listening, Bookshelf, Stations, SequenceTheorems, FiniteSetTheorems, WellFoundedInduction,
        TLAPS

-----------------------------------------------------------------------------
(* Listening. *)

(* The tracker, by what it follows: while no other queue's song has taken a   *)
(* play over, it is of the occurrence and the song playing, and what it has   *)
(* heard of a play not counted yet was listened to, up to the reported place. *)
Follows ==
  /\ tracker.entry = entry /\ tracker.song = song /\ tracker.last = position
  /\ ~tracker.counted => tracker.heard <= listened - (audio - position)
PlayRecords == [entry : Entries \cup {0}, song : Songs \cup {NoSong}, last : Nat, heard : Nat, counted : BOOLEAN]
ListeningTyped ==
  /\ entry \in Entries \cup {0} /\ song \in Songs \cup {NoSong} /\ playing \in BOOLEAN
  /\ audio \in Nat /\ position \in Nat /\ audio - position \in 0..1 /\ tracker \in PlayRecords /\ listened \in Nat
ListeningInv ==
  /\ ListeningTyped
  /\ entry = 0 => playing = FALSE /\ tracker = NoPlay /\ song = NoSong /\ audio = 0 /\ position = 0
  /\ ~mixed => Follows

(* One observation: what the tracker has after a frame. *)
LEMMA ObservedOne ==
  ASSUME ListeningAssumption, ListeningInv, NEW e \in Entries, NEW s \in Songs \cup {NoSong}, NEW on,
         NEW p \in Nat, NEW elapsed \in Nat, Observe(e, s, on, p, elapsed)
  PROVE  /\ tracker' \in PlayRecords
         /\ tracker.entry # e \/ Restarts(p) => tracker' = Began(e, s, p) /\ counted' = NoSong
         /\ ~(tracker.entry # e \/ Restarts(p)) =>
              \E more \in Nat :
                /\ more = Heard(on, p, elapsed)
                /\ tracker'.entry = e /\ tracker'.song = tracker.song /\ tracker'.last = p /\ tracker'.heard = tracker.heard + more
                /\ Counts(tracker.heard + more) => tracker'.counted /\ counted' = tracker.song
                /\ ~Counts(tracker.heard + more) => tracker'.counted = tracker.counted /\ counted' = NoSong
<1>1. e # 0 /\ tracker \in PlayRecords /\ Slack \in Nat
  BY DEF ListeningAssumption, ListeningInv, ListeningTyped
<1>2. CASE tracker.entry # e \/ Restarts(p)
  <2>1. tracker' = Began(e, s, p) /\ counted' = NoSong
    BY <1>1, <1>2 DEF Observe
  <2>2. Began(e, s, p) \in PlayRecords
    BY DEF Began, PlayRecords
  <2>3. QED
    BY <1>2, <2>1, <2>2
<1>3. CASE ~(tracker.entry # e \/ Restarts(p))
  <2> DEFINE more == Heard(on, p, elapsed)
  <2>1. more \in Nat
    BY <1>1 DEF Heard, PlayRecords
  <2> HIDE DEF more
  <2>2. tracker' = [tracker EXCEPT !.last = p, !.heard = tracker.heard + more,
                                   !.counted = tracker.counted \/ Counts(tracker.heard + more)]
    BY <1>1, <1>3 DEF Observe, more
  <2>3. counted' = (IF Counts(tracker.heard + more) THEN tracker.song ELSE NoSong)
    BY <1>1, <1>3 DEF Observe, more
  <2>4. tracker.heard + more \in Nat
    BY <1>1, <2>1 DEF PlayRecords
  <2>5. CASE Counts(tracker.heard + more)
    <3>1. tracker' = [tracker EXCEPT !.last = p, !.heard = tracker.heard + more, !.counted = TRUE]
      BY <2>2, <2>5
    <3>2. QED
      BY <1>1, <1>3, <2>1, <2>3, <2>4, <2>5, <3>1 DEF PlayRecords, more
  <2>6. CASE ~Counts(tracker.heard + more)
    <3>1. tracker' = [tracker EXCEPT !.last = p, !.heard = tracker.heard + more]
      BY <1>1, <2>2, <2>6 DEF PlayRecords
    <3>2. QED
      BY <1>1, <1>3, <2>1, <2>3, <2>4, <2>6, <3>1 DEF PlayRecords, more
  <2>7. QED
    BY <2>5, <2>6
<1>4. QED
  BY <1>2, <1>3

(* A frame of the same play, in which no more is heard than audio has moved on. *)
LEMMA SamePlays ==
  ASSUME ListeningAssumption, ListeningInv, entry # 0, NEW on \in BOOLEAN, NEW a \in Nat, NEW p \in Nat, NEW elapsed \in Nat,
         NEW l \in 0..1, Frame(entry, song, on, a, p, elapsed), SamePlay(l), ~mixed => ~Restarts(p),
         ~mixed => Heard(on, p, elapsed) <= (l - (a - p)) + (audio - position)
  PROVE  /\ ListeningInv'
         /\ counted' # NoSong /\ ~mixed => listened + 2 >= Threshold /\ counted' = song
<1>1. /\ entry \in Entries /\ song \in Songs \cup {NoSong} /\ tracker \in PlayRecords /\ listened \in Nat
      /\ audio \in Nat /\ position \in Nat /\ audio - position \in 0..1
  BY DEF ListeningInv, ListeningTyped
<1>2. /\ entry' = entry /\ song' = song /\ playing' = on /\ audio' = a /\ position' = p /\ a - p \in 0..1
      /\ Observe(entry, song, on, p, elapsed) /\ mixed' = mixed
      /\ listened' = (IF counted' = NoSong THEN listened + l ELSE 0)
  BY DEF Frame, SamePlay
<1>3. tracker' \in PlayRecords /\ listened' \in Nat
  BY <1>1, <1>2, ObservedOne
<1>4. ListeningTyped'
  BY <1>1, <1>2, <1>3 DEF ListeningTyped
<1>5. CASE mixed
  BY <1>2, <1>4, <1>5 DEF ListeningInv
<1>6. CASE ~mixed
  <2>1. tracker.entry = entry /\ tracker.song = song /\ tracker.last = position
        /\ (~tracker.counted => tracker.heard <= listened - (audio - position))
    BY <1>6 DEF ListeningInv, Follows
  <2>2. ~Restarts(p)
    BY <1>6
  <2>3. PICK more \in Nat :
          /\ more = Heard(on, p, elapsed)
          /\ tracker'.entry = entry /\ tracker'.song = tracker.song /\ tracker'.last = p /\ tracker'.heard = tracker.heard + more
          /\ Counts(tracker.heard + more) => tracker'.counted /\ counted' = tracker.song
          /\ ~Counts(tracker.heard + more) => tracker'.counted = tracker.counted /\ counted' = NoSong
    BY <1>1, <1>2, <2>1, <2>2, ObservedOne
  <2>4. tracker'.entry = entry' /\ tracker'.song = song' /\ tracker'.last = position'
        /\ tracker'.heard = tracker.heard + more
    BY <1>1, <1>2, <2>1, <2>3 DEF PlayRecords
  <2>5. CASE Counts(tracker.heard + more)
    <3>1. tracker'.counted /\ ~tracker.counted /\ counted' = song /\ tracker.heard + more >= Threshold
      BY <2>1, <2>3, <2>5 DEF Counts
    <3>2. Threshold \in Int
      BY DEF ListeningAssumption, Threshold
    <3>3. tracker.heard \in Nat
      BY <1>1 DEF PlayRecords
    <3>4. more <= (l - (a - p)) + (audio - position) /\ tracker.heard <= listened - (audio - position)
      BY <1>1, <1>2, <1>6, <2>1, <2>3, <3>1
    <3>5. entry' # 0 /\ Follows'
      BY <1>2, <2>4, <3>1 DEF Follows
    <3>6. ListeningInv'
      BY <1>4, <3>5 DEF ListeningInv
    <3>7. listened + 2 >= Threshold
      BY <1>1, <1>2, <3>1, <3>2, <3>3, <3>4
    <3>8. QED
      BY <3>1, <3>6, <3>7
  <2>6. CASE ~Counts(tracker.heard + more)
    <3>1. counted' = NoSong /\ listened' = listened + l /\ tracker'.counted = tracker.counted
      BY <1>2, <2>3, <2>6
    <3>2. ~tracker.counted => tracker'.heard <= listened' - (audio' - position')
      <4>1. tracker.heard \in Nat
        BY <1>1 DEF PlayRecords
      <4>2. QED
        BY <1>1, <1>2, <1>6, <2>1, <2>3, <2>4, <3>1, <4>1
    <3>3. QED
      BY <1>2, <1>4, <2>4, <3>1, <3>2 DEF ListeningInv, Follows
  <2>7. QED
    BY <2>5, <2>6
<1>7. QED
  BY <1>5, <1>6
(* A frame that begins a play anew, for the tracker too unless `mixed` says so. *)
LEMMA PlayBegins ==
  ASSUME ListeningAssumption, ListeningInv, NEW e \in Entries, NEW s \in Songs \cup {NoSong}, NEW on \in BOOLEAN, NEW a \in Nat,
         Frame(e, s, on, a, a, 0), listened' = 0,
         \/ tracker.entry # e \/ Restarts(a)
         \/ mixed'
  PROVE  ListeningInv'
<1>1. e # 0 /\ tracker \in PlayRecords
  BY DEF ListeningAssumption, ListeningInv, ListeningTyped
<1>2. /\ entry' = e /\ song' = s /\ playing' = on /\ audio' = a /\ position' = a
      /\ Observe(e, s, on, a, 0)
  BY DEF Frame
<1>3. tracker' \in PlayRecords /\ (tracker.entry # e \/ Restarts(a) => tracker' = Began(e, s, a))
  BY <1>2, ObservedOne
<1>4. ListeningTyped' /\ entry' # 0
  BY <1>1, <1>2, <1>3 DEF ListeningTyped
<1>5. CASE mixed'
  BY <1>4, <1>5 DEF ListeningInv
<1>6. CASE tracker.entry # e \/ Restarts(a)
  <2>1. Follows'
    BY <1>2, <1>3, <1>6 DEF Follows, Began
  <2>2. QED
    BY <1>4, <2>1 DEF ListeningInv
<1>7. QED
  BY <1>5, <1>6

Counting == counted' # NoSong /\ ~mixed => listened + 2 >= Threshold /\ counted' = song

(* What a play anew counts was listened to before.                             *)
LEMMA BeginningsCountNoMore ==
  ASSUME ListeningAssumption, ListeningInv, NEW e \in Entries, NEW s \in Songs \cup {NoSong}, NEW on, Observe(e, s, on, 0, 0)
  PROVE  Counting
<1>1. CASE tracker.entry # e \/ Restarts(0)
  BY <1>1, ObservedOne DEF Counting
<1>2. CASE ~(tracker.entry # e \/ Restarts(0))
  <2>1. SUFFICES ASSUME counted' # NoSong, ~mixed PROVE listened + 2 >= Threshold /\ counted' = song
    BY DEF Counting
  <2>2. /\ tracker.song = song /\ (~tracker.counted => tracker.heard <= listened - (audio - position))
        /\ tracker \in PlayRecords /\ listened \in Nat /\ audio - position \in 0..1
    BY <2>1 DEF ListeningInv, ListeningTyped, Follows
  <2>3. PICK more \in Nat :
          /\ more = Heard(on, 0, 0)
          /\ Counts(tracker.heard + more) => tracker'.counted /\ counted' = tracker.song
          /\ ~Counts(tracker.heard + more) => tracker'.counted = tracker.counted /\ counted' = NoSong
    BY <1>2, ObservedOne
  <2>4. more = 0
    <3>1. tracker.last \in Nat
      BY <2>2 DEF PlayRecords
    <3>2. QED
      BY <2>3, <3>1 DEF Heard
  <2>5. ~tracker.counted /\ tracker.heard + more >= Threshold
    BY <2>1, <2>3 DEF Counts
  <2>6. tracker.heard \in Nat /\ Threshold \in Int
    BY <2>2 DEF PlayRecords, Threshold, ListeningAssumption
  <2>7. QED
    BY <2>1, <2>2, <2>3, <2>4, <2>5, <2>6
<1>3. QED
  BY <1>1, <1>2

LEMMA ListeningStart == ASSUME ListeningAssumption, ListeningInit PROVE ListeningInv
<1>1. NoPlay \in PlayRecords
  BY DEF NoPlay, PlayRecords
<1>2. ListeningTyped
  <2>1. audio \in Nat /\ position \in Nat /\ audio - position \in 0..1 /\ listened \in Nat /\ entry = 0
    BY DEF ListeningInit
  <2>2. QED
    BY <1>1, <2>1 DEF ListeningInit, ListeningTyped
<1>3. Follows
  BY DEF ListeningInit, Follows, NoPlay
<1>4. QED
  BY <1>2, <1>3 DEF ListeningInit, ListeningInv

LEMMA ListeningSteps ==
  ASSUME ListeningAssumption, ListeningInv, [ListeningNext]_listeningVars
  PROVE  ListeningInv' /\ [Counting]_listeningVars
<1>1. /\ entry \in Entries \cup {0} /\ song \in Songs \cup {NoSong} /\ playing \in BOOLEAN
      /\ audio \in Nat /\ position \in Nat /\ audio - position \in 0..1 /\ tracker \in PlayRecords /\ listened \in Nat
  BY DEF ListeningInv, ListeningTyped
<1>2. ~mixed => tracker.entry = entry /\ tracker.last = position
  BY DEF ListeningInv, Follows
<1>0. ASSUME NEW p \in Nat, p >= position, ~mixed PROVE ~Restarts(p)
  BY <1>0, <1>1, <1>2 DEF Restarts
<1>3. ASSUME NEW on \in BOOLEAN, NEW elapsed \in {0, 1}, entry # 0, SamePlay(0),
             Frame(entry, song, on, audio, position, elapsed)
      PROVE  ListeningInv' /\ Counting
  <2>1. ~mixed => Heard(on, position, elapsed) = 0
    BY <1>1, <1>2 DEF Heard
  <2>2. ~mixed => Heard(on, position, elapsed) <= (0 - (audio - position)) + (audio - position)
    BY <1>1, <2>1
  <2>3. 0 \in 0..1 /\ elapsed \in Nat /\ (~mixed => ~Restarts(position))
    BY <1>0, <1>1
  <2>4. QED
    BY <1>1, <1>3, <2>2, <2>3, SamePlays DEF Counting
<1>4. ASSUME AudioPlays PROVE ListeningInv' /\ Counting
  <2>1. PICK p \in position..Length : Frame(entry, song, TRUE, audio + 1, p, 1)
    BY <1>4 DEF AudioPlays
  <2>2. entry # 0
    BY <1>4 DEF AudioPlays, ListeningInv
  <2>3. p \in Nat /\ p >= position /\ audio + 1 \in Nat /\ p \in {audio + 1, audio}
    BY <1>1, <2>1 DEF Frame, ListeningAssumption
  <2>4. ~mixed => Heard(TRUE, p, 1) <= p - position
    BY <1>1, <1>2, <2>3 DEF Heard, ListeningAssumption
  <2>5. p - position = (1 - ((audio + 1) - p)) + (audio - position)
    BY <1>1, <2>3
  <2>6. ~mixed => Heard(TRUE, p, 1) <= (1 - ((audio + 1) - p)) + (audio - position)
    BY <2>4, <2>5
  <2>7. 1 \in 0..1 /\ 1 \in Nat /\ SamePlay(1) /\ (~mixed => ~Restarts(p))
    BY <1>0, <1>4, <2>3 DEF AudioPlays
  <2>8. QED
    BY <2>1, <2>2, <2>3, <2>6, <2>7, SamePlays DEF Counting
<1>5. ASSUME Pauses \/ Resumes \/ Waits PROVE ListeningInv' /\ Counting
  <2>1. entry # 0
    BY <1>5 DEF Pauses, Resumes, Waits, ListeningInv, ListeningTyped
  <2>2. QED
    BY <1>3, <1>5, <2>1 DEF Pauses, Resumes, Waits
<1>6. ASSUME SeekAhead PROVE ListeningInv' /\ Counting
  <2>1. entry # 0 /\ SamePlay(0) /\ Frame(entry, song, playing, audio + Jump, audio + Jump, 0)
    BY <1>6 DEF SeekAhead
  <2>2. Jump \in Nat /\ Slack \in Nat /\ Slack + 1 < Jump
    BY DEF ListeningAssumption
  <2>3. ~mixed => Heard(playing, audio + Jump, 0) = 0
    BY <1>1, <1>2, <2>2 DEF Heard
  <2>4. /\ audio + Jump \in Nat /\ audio + Jump >= position /\ 0 \in Nat /\ 0 \in 0..1
        /\ ~mixed => Heard(playing, audio + Jump, 0) <= (0 - ((audio + Jump) - (audio + Jump))) + (audio - position)
    BY <1>1, <2>2, <2>3
  <2>5. ~mixed => ~Restarts(audio + Jump)
    BY <1>0, <2>4
  <2>6. QED
    BY <1>1, <2>1, <2>4, <2>5, SamePlays DEF Counting
<1>7. ASSUME NEW e \in Entries, NEW s \in Songs \cup {NoSong}, NEW on \in BOOLEAN, Frame(e, s, on, 0, 0, 0),
             NewPlay(FALSE) \/ NewPlay(entry' = entry /\ ~Restarts(0)),
             NewPlay(FALSE) => mixed \/ tracker.entry # e \/ Restarts(0)
      PROVE  ListeningInv' /\ Counting
  <2>1. listened' = 0 /\ entry' = e /\ Observe(e, s, on, 0, 0)
    BY <1>7 DEF NewPlay, Frame
  <2>2. Counting
    BY <2>1, BeginningsCountNoMore
  <2>3. tracker.entry # e \/ Restarts(0) \/ mixed'
    BY <1>2, <1>7, <2>1 DEF NewPlay
  <2>4. QED
    BY <1>7, <2>1, <2>2, <2>3, PlayBegins
<1>8. ASSUME GoesBack PROVE ListeningInv' /\ Counting
  <2>1. PICK a \in {0, audio - Jump} :
          /\ Frame(entry, song, playing, a, a, 0)
          /\ \/ a < Restart /\ position >= Restart + Slack /\ NewPlay(FALSE)
             \/ ~(a < Restart /\ position >= Restart + Slack) /\ SamePlay(0)
    BY <1>8 DEF GoesBack
  <2>2. /\ entry \in Entries /\ entry # 0 /\ Jump \in Nat /\ Slack \in Nat /\ Restart \in Nat /\ Slack + 1 < Jump
        /\ a \in Nat /\ (a = 0 \/ a < position)
    BY <1>1, <1>8, <2>1 DEF GoesBack, Frame, ListeningAssumption
  <2>3. CASE a < Restart /\ position >= Restart + Slack
    <3>1. mixed \/ Restarts(a)
      BY <1>1, <1>2, <2>2, <2>3 DEF Restarts
    <3>2. NewPlay(FALSE)
      BY <2>1, <2>3
    <3>3. listened' = 0 /\ Observe(entry, song, playing, a, 0) /\ (Restarts(a) \/ mixed')
      BY <2>1, <3>1, <3>2 DEF NewPlay, Frame
    <3>4. ListeningInv'
      BY <1>1, <2>1, <2>2, <3>3, PlayBegins
    <3>5. Restarts(a) => counted' = NoSong
      BY <1>1, <2>2, <3>3, ObservedOne
    <3>6. QED
      BY <3>1, <3>4, <3>5 DEF Counting
  <2>4. CASE ~(a < Restart /\ position >= Restart + Slack)
    <3>1. SamePlay(0)
      BY <2>1, <2>4
    <3>2. ~mixed => ~Restarts(a)
      BY <1>1, <1>2, <2>2, <2>4 DEF Restarts
    <3>3. ~mixed => Heard(playing, a, 0) = 0
      BY <1>1, <1>2, <2>2 DEF Heard
    <3>4. 0 \in 0..1 /\ 0 \in Nat /\ (~mixed => Heard(playing, a, 0) <= (0 - (a - a)) + (audio - position))
      BY <1>1, <2>2, <3>3
    <3>5. QED
      BY <1>1, <2>1, <2>2, <3>1, <3>2, <3>4, SamePlays DEF Counting
  <2>5. QED
    BY <2>3, <2>4
<1>9. ASSUME NextEntry PROVE ListeningInv' /\ Counting
  <2>1. PICK e \in Entries \ {entry}, s \in Songs : Frame(e, s, TRUE, 0, 0, 0)
    BY <1>9 DEF NextEntry
  <2>2. NewPlay(FALSE) /\ (mixed \/ tracker.entry # e)
    BY <1>2, <1>9 DEF NextEntry
  <2>3. QED
    BY <1>7, <2>1, <2>2
<1>10. ASSUME Replace PROVE ListeningInv' /\ Counting
  <2>1. PICK e \in Entries, s \in Songs : Frame(e, s, TRUE, 0, 0, 0)
    BY <1>10 DEF Replace
  <2>2. NewPlay(entry' = entry /\ ~Restarts(0)) /\ entry' = e
    BY <1>10, <2>1 DEF Replace, Frame
  <2>3. listened' = 0 /\ Observe(e, s, TRUE, 0, 0)
    BY <2>1, <2>2 DEF NewPlay, Frame
  <2>4. tracker.entry # e \/ Restarts(0) \/ mixed'
    BY <1>2, <2>2 DEF NewPlay
  <2>5. QED
    BY <2>1, <2>3, <2>4, PlayBegins, BeginningsCountNoMore
<1>11. ASSUME QueueEnds PROVE ListeningInv' /\ Counting
  <2>1. /\ entry' = 0 /\ song' = NoSong /\ playing' = FALSE /\ audio' = 0 /\ position' = 0
        /\ tracker' = NoPlay /\ counted' = NoSong /\ listened' = 0
    BY <1>11 DEF QueueEnds, Frame, Observe, NewPlay
  <2>2. NoPlay \in PlayRecords
    BY DEF NoPlay, PlayRecords
  <2>3. Follows'
    BY <2>1 DEF Follows, NoPlay
  <2>4. audio' \in Nat /\ position' \in Nat /\ audio' - position' \in 0..1 /\ listened' \in Nat
    BY <2>1
  <2>5. ListeningTyped'
    BY <2>1, <2>2, <2>4 DEF ListeningTyped
  <2>6. QED
    BY <2>1, <2>3, <2>5 DEF ListeningInv, Counting
<1>12. CASE UNCHANGED listeningVars
  <2>1. ListeningTyped' /\ (~mixed => Follows')
    BY <1>1, <1>12 DEF listeningVars, ListeningInv, ListeningTyped, Follows
  <2>2. QED
    BY <1>12, <2>1 DEF listeningVars, ListeningInv
<1>13. QED
  BY <1>4, <1>5, <1>6, <1>8, <1>9, <1>10, <1>11, <1>12 DEF ListeningNext

(* However the owner pauses, seeks, goes back and changes queues: a play that  *)
(* counts has sounded for half of the song, and it is the song playing.        *)
THEOREM HeardBeforeCounted ==
  ASSUME ListeningAssumption
  PROVE  ListeningSpec => HeardIsHeard
<1>1. ListeningSpec => []ListeningInv
  BY ListeningStart, ListeningSteps, PTL DEF ListeningSpec
<1>2. ASSUME ListeningInv, [ListeningNext]_listeningVars
      PROVE  [counted' # NoSong /\ ~mixed => listened + 2 >= Threshold /\ counted' = song]_listeningVars
  BY <1>2, ListeningSteps DEF Counting
<1>3. QED
  BY <1>1, <1>2, PTL DEF ListeningSpec, HeardIsHeard

-----------------------------------------------------------------------------
(* Bookshelf. *)

Part == {t \in Books \X Nat \X Nat : t[2] \in 1..PartsOf[t[1]]}
BookKey == Books \X Nat
Listened == [key : BookKey \cup {NoBook}, queue : Seq(Part \cup {Song}), at : Nat, pos : Nat]
(* A queue is in order when its place is in it, and with a book all its parts.  *)
InOrder(new) ==
  /\ new \in Listened /\ new.at \in DOMAIN new.queue
  /\ new.key # NoBook =>
       /\ new.key[2] <= names[new.key[1]]
       /\ \A p \in 1..PartsOf[new.key[1]] : \E i \in DOMAIN new.queue : new.queue[i] # Song /\ new.queue[i][2] = p
(* A shelf in order has one record for a book, under a name its folder has had. *)
Tidy(s) ==
  /\ \A k \in DOMAIN s :
       /\ k \in BookKey /\ k[2] <= names[k[1]]
       /\ s[k] \in [part : Nat, pos : Nat, done : BOOLEAN] /\ s[k].part \in 1..PartsOf[k[1]]
       /\ s[k].done => s[k].part = 1 /\ s[k].pos = 0
  /\ \A k, l \in DOMAIN s : k[1] = l[1] => k = l

(* What a start would be rolled back to, on the shelf as it is: the places there were,  *)
(* but for the one the start has brought a book to, and an end it has taken away.       *)
RollsBack(s) ==
  \A b \in Books : LET now == Place(pending[1].model, s, b) was == pending[1].left[b]
                   IN now = left[b] \/ now = was \/ (was = End /\ now = Start)
StartInv == ~Idle => dirty /\ InOrder(pending[1].model) /\ RollsBack(shelf)
CleanInv == ~dirty => session = model /\ (~unwritten => \A b \in Books : Place(model, shelfFile, b) = left[b])
BookInv ==
  /\ names \in [Books -> Nat] /\ InOrder(model) /\ InOrder(session) /\ Tidy(shelf) /\ Tidy(shelfFile)
  /\ left = [b \in Books |-> Place(model, shelf, b)]
  /\ StartInv /\ CleanInv
-----------------------------------------------------------------------------
(* What the shelf has of a book, by its one record. *)
LEMMA RecordOf ==
  ASSUME names \in [Books -> Nat], NEW s, Tidy(s), NEW b \in Books
  PROVE  /\ Found(s, b) = {k \in DOMAIN s : k[1] = b}
         /\ \A k \in DOMAIN s : k[1] = b => Found(s, b) = {k} /\ PlaceOn(s, b) = <<s[k].part, s[k].pos, s[k].done>>
         /\ (\A k \in DOMAIN s : k[1] # b) => Found(s, b) = {} /\ PlaceOn(s, b) = Start
<1>1. \A k, l \in DOMAIN s : k[1] = l[1] => k = l
  BY DEF Tidy
<1>2. Key(b)[1] = b
  BY DEF Key
<1>3. Found(s, b) = {k \in DOMAIN s : k[1] = b}
  BY <1>1, <1>2 DEF Found
<1>4. ASSUME NEW k \in DOMAIN s, k[1] = b
      PROVE  Found(s, b) = {k} /\ PlaceOn(s, b) = <<s[k].part, s[k].pos, s[k].done>>
  <2>1. Found(s, b) = {k}
    BY <1>1, <1>3, <1>4
  <2>2. (CHOOSE l \in Found(s, b) : TRUE) = k
    BY <2>1
  <2>3. QED
    BY <2>1, <2>2 DEF PlaceOn
<1>5. ASSUME \A k \in DOMAIN s : k[1] # b PROVE Found(s, b) = {} /\ PlaceOn(s, b) = Start
  BY <1>3, <1>5 DEF PlaceOn
<1>6. QED
  BY <1>3, <1>4, <1>5

LEMMA PlacesTyped ==
  ASSUME names \in [Books -> Nat], PartsOf \in [Books -> Nat \ {0}], NEW s, Tidy(s), NEW b \in Books
  PROVE  /\ PlaceOn(s, b) = <<PlaceOn(s, b)[1], PlaceOn(s, b)[2], PlaceOn(s, b)[3]>>
         /\ PlaceOn(s, b)[1] \in 1..PartsOf[b] /\ PlaceOn(s, b)[2] \in Nat /\ PlaceOn(s, b)[3] \in BOOLEAN
         /\ PlaceOn(s, b)[3] => PlaceOn(s, b) = End
         /\ PlaceOn(s, b) = End <=> \E k \in Found(s, b) : s[k].done
<1>1. CASE \E k \in DOMAIN s : k[1] = b
  <2>1. PICK k \in DOMAIN s : k[1] = b
    BY <1>1
  <2>2. Found(s, b) = {k} /\ PlaceOn(s, b) = <<s[k].part, s[k].pos, s[k].done>>
    BY <2>1, RecordOf
  <2>3. /\ s[k].part \in 1..PartsOf[b] /\ s[k].pos \in Nat /\ s[k].done \in BOOLEAN
        /\ s[k].done => s[k].part = 1 /\ s[k].pos = 0
    BY <2>1 DEF Tidy
  <2>4. /\ PlaceOn(s, b)[1] = s[k].part /\ PlaceOn(s, b)[2] = s[k].pos /\ PlaceOn(s, b)[3] = s[k].done
    BY <2>2
  <2>5. CASE s[k].done = TRUE
    <3>1. PlaceOn(s, b) = End
      BY <2>2, <2>3, <2>5 DEF End
    <3>2. QED
      BY <2>2, <2>3, <2>4, <2>5, <3>1
  <2>6. CASE s[k].done = FALSE
    <3>1. End[3] = TRUE
      BY DEF End
    <3>2. PlaceOn(s, b) # End
      BY <2>4, <2>6, <3>1
    <3>3. QED
      BY <2>2, <2>3, <2>4, <2>6, <3>2
  <2>7. QED
    BY <2>3, <2>5, <2>6
<1>2. CASE \A k \in DOMAIN s : k[1] # b
  <2>1. Found(s, b) = {} /\ PlaceOn(s, b) = <<1, 0, FALSE>>
    BY <1>2, RecordOf DEF Start
  <2>2. PlaceOn(s, b) # End
    BY <2>1 DEF End
  <2>3. PlaceOn(s, b)[1] = 1 /\ PlaceOn(s, b)[2] = 0 /\ PlaceOn(s, b)[3] = FALSE /\ 1 \in 1..PartsOf[b]
    BY <2>1
  <2>4. PlaceOn(s, b) = <<PlaceOn(s, b)[1], PlaceOn(s, b)[2], PlaceOn(s, b)[3]>>
    BY <2>1, <2>3
  <2>5. ~ \E k \in Found(s, b) : s[k].done
    BY <2>1
  <2>6. PlaceOn(s, b)[1] \in 1..PartsOf[b] /\ PlaceOn(s, b)[2] \in Nat
    BY <2>3
  <2>7. PlaceOn(s, b)[3] \in BOOLEAN /\ ~PlaceOn(s, b)[3]
    BY <2>3
  <2>8. PlaceOn(s, b) = End <=> \E k \in Found(s, b) : s[k].done
    BY <2>2, <2>5
  <2>9. QED
    BY <2>4, <2>6, <2>7, <2>8
<1>3. QED
  BY <1>1, <1>2

(* A record written, or taken away, changes nothing for other books. *)
LEMMA WithoutRecord ==
  ASSUME names \in [Books -> Nat], NEW s, Tidy(s), NEW b \in Books
  PROVE  /\ Tidy(Forget(s, b)) /\ PlaceOn(Forget(s, b), b) = Start
         /\ \A c \in Books \ {b} : PlaceOn(Forget(s, b), c) = PlaceOn(s, c)
         /\ DOMAIN Forget(s, b) = {k \in DOMAIN s : k[1] # b} /\ \A k \in DOMAIN Forget(s, b) : Forget(s, b)[k] = s[k]
<1> DEFINE f == Forget(s, b)
<1>1. DOMAIN f = {k \in DOMAIN s : k[1] # b} /\ \A k \in DOMAIN f : f[k] = s[k]
  BY RecordOf DEF Forget, Restrict
<1> HIDE DEF f
<1>2. Tidy(f)
  BY <1>1 DEF Tidy
<1>3. PlaceOn(f, b) = Start
  BY <1>1, <1>2, RecordOf
<1>4. ASSUME NEW c \in Books \ {b} PROVE PlaceOn(f, c) = PlaceOn(s, c)
  <2>1. CASE \E k \in DOMAIN s : k[1] = c
    <3>1. PICK k \in DOMAIN s : k[1] = c
      BY <2>1
    <3>2. k \in DOMAIN f /\ f[k] = s[k]
      BY <1>1, <3>1
    <3>3. PlaceOn(f, c) = <<f[k].part, f[k].pos, f[k].done>>
      BY <1>2, <3>1, <3>2, RecordOf
    <3>4. PlaceOn(s, c) = <<s[k].part, s[k].pos, s[k].done>>
      BY <3>1, RecordOf
    <3>5. QED
      BY <3>2, <3>3, <3>4
  <2>2. CASE \A k \in DOMAIN s : k[1] # c
    BY <1>1, <1>2, <2>2, RecordOf
  <2>3. QED
    BY <2>1, <2>2
<1>5. QED
  BY <1>1, <1>2, <1>3, <1>4 DEF f

LEMMA WithRecord ==
  ASSUME names \in [Books -> Nat], PartsOf \in [Books -> Nat \ {0}], NEW s, Tidy(s), NEW b \in Books,
         NEW part \in 1..PartsOf[b], NEW pos \in Nat, NEW done \in BOOLEAN, done => part = 1 /\ pos = 0
  PROVE  /\ Tidy(With(s, b, part, pos, done)) /\ PlaceOn(With(s, b, part, pos, done), b) = <<part, pos, done>>
         /\ \A c \in Books \ {b} : PlaceOn(With(s, b, part, pos, done), c) = PlaceOn(s, c)
<1> DEFINE f == Forget(s, b)
           w == With(s, b, part, pos, done)
           r == [part |-> part, pos |-> pos, done |-> done]
<1>1. Tidy(f) /\ DOMAIN f = {k \in DOMAIN s : k[1] # b} /\ (\A k \in DOMAIN f : f[k] = s[k])
      /\ \A c \in Books \ {b} : PlaceOn(f, c) = PlaceOn(s, c)
  BY WithoutRecord
<1>2. Key(b) \in BookKey /\ Key(b)[1] = b /\ Key(b)[2] = names[b] /\ names[b] \in Nat
  BY DEF Key, BookKey
<1>3. DOMAIN w = {Key(b)} \cup DOMAIN f /\ w[Key(b)] = r /\ \A k \in DOMAIN f : w[k] = f[k]
  BY <1>1, <1>2 DEF With
<1>4. r \in [part : Nat, pos : Nat, done : BOOLEAN] /\ r.part = part /\ r.pos = pos /\ r.done = done
  OBVIOUS
<1> HIDE DEF f, w, r
<1>5. Tidy(w)
  <2>1. ASSUME NEW k \in DOMAIN w
        PROVE  /\ k \in BookKey /\ k[2] <= names[k[1]]
               /\ w[k] \in [part : Nat, pos : Nat, done : BOOLEAN] /\ w[k].part \in 1..PartsOf[k[1]]
               /\ w[k].done => w[k].part = 1 /\ w[k].pos = 0
    <3>1. CASE k = Key(b)
      BY <1>2, <1>3, <1>4, <3>1
    <3>2. CASE k \in DOMAIN f
      BY <1>1, <1>3, <3>2 DEF Tidy
    <3>3. QED
      BY <1>3, <2>1, <3>1, <3>2
  <2>2. \A k, l \in DOMAIN w : k[1] = l[1] => k = l
    BY <1>1, <1>2, <1>3 DEF Tidy
  <2>3. QED
    BY <2>1, <2>2 DEF Tidy
<1>6. PlaceOn(w, b) = <<part, pos, done>>
  BY <1>2, <1>3, <1>4, <1>5, RecordOf
<1>7. ASSUME NEW c \in Books \ {b} PROVE PlaceOn(w, c) = PlaceOn(s, c)
  <2>1. PlaceOn(f, c) = PlaceOn(s, c)
    BY <1>1
  <2>2. CASE \E k \in DOMAIN f : k[1] = c
    <3>1. PICK k \in DOMAIN f : k[1] = c
      BY <2>2
    <3>2. k \in DOMAIN w /\ w[k] = f[k]
      BY <1>3, <3>1
    <3>3. QED
      BY <1>1, <1>5, <2>1, <3>1, <3>2, RecordOf
  <2>3. CASE \A k \in DOMAIN f : k[1] # c
    BY <1>1, <1>2, <1>3, <1>5, <2>1, <2>3, RecordOf
  <2>4. QED
    BY <2>2, <2>3
<1>8. QED
  BY <1>5, <1>6, <1>7 DEF w

LEMMA RecordedPlace ==
  ASSUME names \in [Books -> Nat], PartsOf \in [Books -> Nat \ {0}], NEW s, Tidy(s), NEW b \in Books,
         NEW part \in 1..PartsOf[b], NEW pos \in Nat
  PROVE  /\ Tidy(Record(s, b, part, pos))
         /\ PlaceOn(Record(s, b, part, pos), b) = <<part, pos, PlaceOn(s, b) = End /\ part = 1 /\ pos = 0>>
         /\ \A c \in Books \ {b} : PlaceOn(Record(s, b, part, pos), c) = PlaceOn(s, c)
<1> DEFINE done == part = 1 /\ pos = 0 /\ \E k \in Found(s, b) : s[k].done
           end  == PlaceOn(s, b) = End /\ part = 1 /\ pos = 0
           Recorded == /\ Tidy(Record(s, b, part, pos)) /\ PlaceOn(Record(s, b, part, pos), b) = <<part, pos, end>>
                       /\ \A c \in Books \ {b} : PlaceOn(Record(s, b, part, pos), c) = PlaceOn(s, c)
<1>1. done <=> end
  BY PlacesTyped
<1>2. Record(s, b, part, pos) = IF part > 1 \/ pos > 0 \/ done THEN With(s, b, part, pos, done) ELSE Forget(s, b)
  BY DEF Record
<1>3. done \in BOOLEAN /\ end \in BOOLEAN /\ (done => part = 1 /\ pos = 0)
  OBVIOUS
<1> HIDE DEF done, end
<1>4. ASSUME part > 1 \/ pos > 0 \/ done PROVE Recorded
  <2>1. done = end
    BY <1>1, <1>3
  <2>2. Record(s, b, part, pos) = With(s, b, part, pos, end)
    BY <1>2, <1>4, <2>1
  <2>3. /\ Tidy(With(s, b, part, pos, end)) /\ PlaceOn(With(s, b, part, pos, end), b) = <<part, pos, end>>
        /\ \A c \in Books \ {b} : PlaceOn(With(s, b, part, pos, end), c) = PlaceOn(s, c)
    BY <1>3, <2>1, WithRecord
  <2>4. /\ Tidy(Record(s, b, part, pos)) /\ PlaceOn(Record(s, b, part, pos), b) = <<part, pos, end>>
        /\ \A c \in Books \ {b} : PlaceOn(Record(s, b, part, pos), c) = PlaceOn(s, c)
    BY <2>2, <2>3
  <2>5. QED
    BY <2>4
<1>5. ASSUME ~(part > 1 \/ pos > 0 \/ done) PROVE Recorded
  <2>1. part = 1 /\ pos = 0
    BY <1>5
  <2>2. end = FALSE
    BY <1>1, <1>3, <1>5
  <2>3. Start = <<part, pos, end>>
    BY <2>1, <2>2 DEF Start
  <2>4. Record(s, b, part, pos) = Forget(s, b)
    BY <1>2, <1>5
  <2>5. /\ Tidy(Record(s, b, part, pos)) /\ PlaceOn(Record(s, b, part, pos), b) = <<part, pos, end>>
        /\ \A c \in Books \ {b} : PlaceOn(Record(s, b, part, pos), c) = PlaceOn(s, c)
    <3>1. /\ Tidy(Forget(s, b)) /\ PlaceOn(Forget(s, b), b) = Start
          /\ \A c \in Books \ {b} : PlaceOn(Forget(s, b), c) = PlaceOn(s, c)
      BY WithoutRecord
    <3>2. QED
      BY <2>3, <2>4, <3>1
  <2>6. QED
    BY <2>5
<1>6. Recorded
  BY <1>4, <1>5
<1>7. QED
  BY <1>6 DEF end

LEMMA PlayedPart ==
  ASSUME BookshelfAssumption, names \in [Books -> Nat], NEW new, InOrder(new), NEW b \in Books, Plays(new, b)
  PROVE  /\ PartOf(new) \in 1..PartsOf[b] /\ new.pos \in Nat /\ new.key = Key(b) /\ new.key \in BookKey
         /\ \A c \in Books : Plays(new, c) => c = b
<1>1. Item(new) \in Part \cup {Song} /\ new.pos \in Nat
  BY DEF InOrder, Listened, Item
<1>2. Item(new) \in Part /\ Item(new)[1] = b /\ new.key = Key(b)
  BY <1>1 DEF Plays
<1>3. Item(new)[2] \in 1..PartsOf[b]
  BY <1>2 DEF Part
<1>4. Key(b) \in BookKey
  BY DEF Key, BookKey
<1>5. \A c \in Books : Plays(new, c) => c = b
  BY <1>2 DEF Plays
<1>6. QED
  BY <1>1, <1>2, <1>3, <1>4, <1>5 DEF PartOf

(* A saved place is the place: save_book moves nothing. *)
LEMMA SavedPlaces ==
  ASSUME BookshelfAssumption, names \in [Books -> Nat], NEW s, Tidy(s), NEW new, InOrder(new)
  PROVE  /\ Tidy(Save(s, new))
         /\ \A b \in Books : /\ PlaceOn(Save(s, new), b) = Place(new, s, b)
                             /\ Place(new, Save(s, new), b) = Place(new, s, b)
                             /\ ~Plays(new, b) => PlaceOn(Save(s, new), b) = PlaceOn(s, b)
<1>1. PartsOf \in [Books -> Nat \ {0}]
  BY DEF BookshelfAssumption
<1>2. CASE \E b \in Books : Plays(new, b)
  <2>1. PICK b \in Books : Plays(new, b)
    BY <1>2
  <2>2. \A c \in Books : Plays(new, c) => c = b
    BY <2>1, PlayedPart
  <2>3. (CHOOSE c \in Books : Plays(new, c)) = b
    BY <2>1, <2>2
  <2>4. Save(s, new) = Record(s, b, PartOf(new), new.pos)
    BY <1>2, <2>3 DEF Save
  <2>5. PartOf(new) \in 1..PartsOf[b] /\ new.pos \in Nat
    BY <2>1, PlayedPart
  <2> DEFINE end == PlaceOn(s, b) = End /\ PartOf(new) = 1 /\ new.pos = 0
  <2>6. /\ Tidy(Save(s, new)) /\ PlaceOn(Save(s, new), b) = <<PartOf(new), new.pos, end>>
        /\ \A c \in Books \ {b} : PlaceOn(Save(s, new), c) = PlaceOn(s, c)
    BY <1>1, <2>4, <2>5, RecordedPlace
  <2>7. Place(new, s, b) = <<PartOf(new), new.pos, end>>
    BY <2>1 DEF Place
  <2>8. (PlaceOn(Save(s, new), b) = End /\ PartOf(new) = 1 /\ new.pos = 0) = end
    <3> end \in BOOLEAN /\ (end => PartOf(new) = 1 /\ new.pos = 0)
      OBVIOUS
    <3> HIDE DEF end
    <3>1. CASE end
      <4>1. end = TRUE /\ PartOf(new) = 1 /\ new.pos = 0
        BY <3>1
      <4>2. PlaceOn(Save(s, new), b) = End
        BY <2>6, <4>1 DEF End
      <4>3. QED
        BY <4>1, <4>2
    <3>2. CASE ~end
      <4>1. PlaceOn(Save(s, new), b)[3] = FALSE
        BY <2>6, <3>2
      <4>2. End[3] = TRUE
        BY DEF End
      <4>3. PlaceOn(Save(s, new), b) # End
        BY <4>1, <4>2
      <4>4. QED
        BY <3>2, <4>3
    <3>3. QED
      BY <3>1, <3>2
  <2>9. Place(new, Save(s, new), b) = Place(new, s, b)
    BY <2>1, <2>7, <2>8 DEF Place
  <2>10. ASSUME NEW c \in Books \ {b}
         PROVE  /\ PlaceOn(Save(s, new), c) = Place(new, s, c) /\ Place(new, Save(s, new), c) = Place(new, s, c)
                /\ PlaceOn(Save(s, new), c) = PlaceOn(s, c)
    <3>1. ~Plays(new, c)
      BY <2>2
    <3>2. QED
      BY <2>6, <3>1 DEF Place
  <2>11. QED
    BY <2>1, <2>6, <2>7, <2>9, <2>10
<1>3. CASE ~ \E b \in Books : Plays(new, b)
  <2>1. Save(s, new) = s
    BY <1>3 DEF Save
  <2>2. QED
    BY <1>3, <2>1 DEF Place
<1>4. QED
  BY <1>2, <1>3

-----------------------------------------------------------------------------
(* Queues in order. *)

LEMMA Elsewhere ==
  ASSUME NEW new, InOrder(new), NEW i \in DOMAIN new.queue, NEW pos \in Nat
  PROVE  InOrder([new EXCEPT !.at = i, !.pos = pos])
<1>1. i \in Nat
  BY DEF InOrder, Listened
<1>2. QED
  BY <1>1 DEF InOrder, Listened

LEMMA ElsewhereIn ==
  ASSUME InOrder(model)
  PROVE  \A i \in DOMAIN model.queue : \A pos \in Nat : InOrder(At(i, pos))
<1>1. TAKE i \in DOMAIN model.queue
<1>2. TAKE pos \in Nat
<1>3. InOrder([model EXCEPT !.at = i, !.pos = pos])
  BY Elsewhere, Zenon
<1>4. QED
  BY <1>3 DEF At

LEMMA NoModelInOrder == InOrder(NoModel)
<1>1. <<Song>> \in Seq(Part \cup {Song}) /\ DOMAIN <<Song>> = 1..1 /\ 1 \in DOMAIN <<Song>>
  OBVIOUS
<1>2. QED
  BY <1>1 DEF InOrder, Listened, NoModel

LEMMA BookInOrder ==
  ASSUME BookshelfAssumption, names \in [Books -> Nat], NEW b \in Books, NEW i \in 1..PartsOf[b], NEW pos \in Nat
  PROVE  InOrder([key |-> Key(b), queue |-> FilesOf(b), at |-> i, pos |-> pos])
<1>1. PartsOf[b] \in Nat /\ names[b] \in Nat
  BY DEF BookshelfAssumption
<1>2. \A p \in 1..PartsOf[b] : <<b, p, names[b]>> \in Part
  BY <1>1 DEF Part
<1>3. FilesOf(b) \in [1..PartsOf[b] -> Part \cup {Song}]
  BY <1>2 DEF FilesOf
<1>4. FilesOf(b) \in Seq(Part \cup {Song})
  BY <1>1, <1>3, SeqDef
<1>5. \A p \in 1..PartsOf[b] : FilesOf(b)[p] = <<b, p, names[b]>>
  BY DEF FilesOf
<1>6. \A p \in 1..PartsOf[b] : FilesOf(b)[p] # Song /\ FilesOf(b)[p][2] = p
  <2>1. Song \notin Part
    BY DEF BookshelfAssumption, Part
  <2>2. QED
    BY <1>2, <1>5, <2>1
<1>7. Key(b) \in BookKey /\ Key(b)[1] = b /\ Key(b)[2] = names[b]
  BY <1>1 DEF Key, BookKey
<1>8. DOMAIN FilesOf(b) = 1..PartsOf[b]
  BY DEF FilesOf
<1> DEFINE new == [key |-> Key(b), queue |-> FilesOf(b), at |-> i, pos |-> pos]
<1>9. new \in Listened /\ new.at \in DOMAIN new.queue /\ new.key = Key(b) /\ new.queue = FilesOf(b)
  BY <1>1, <1>4, <1>7, <1>8 DEF Listened
<1> HIDE DEF new
<1>10. InOrder(new)
  BY <1>1, <1>6, <1>7, <1>8, <1>9 DEF InOrder
<1>11. QED
  BY <1>10 DEF new

LEMMA PartIndex ==
  ASSUME BookshelfAssumption, names \in [Books -> Nat], NEW new, InOrder(new), NEW b \in Books, Plays(new, b),
         NEW part \in 1..PartsOf[b]
  PROVE  Index(new, part) \in DOMAIN new.queue /\ new.queue[Index(new, part)] # Song /\ new.queue[Index(new, part)][2] = part
<1>1. new.key = <<b, names[b]>> /\ new.key \in BookKey /\ new.key[1] = b
  BY PlayedPart DEF Key
<1>2. NoBook \notin BookKey
  BY DEF BookshelfAssumption, BookKey
<1>3. \E i \in DOMAIN new.queue : new.queue[i] # Song /\ new.queue[i][2] = part
  BY <1>1, <1>2 DEF InOrder
<1>4. QED
  BY <1>3 DEF Index

LEMMA InsertedAfter ==
  ASSUME NEW S, NEW q \in Seq(S), NEW k \in 1..Len(q), NEW x \in S
  PROVE  /\ SubSeq(q, 1, k) \o <<x>> \o SubSeq(q, k + 1, Len(q)) \in Seq(S)
         /\ Len(SubSeq(q, 1, k) \o <<x>> \o SubSeq(q, k + 1, Len(q))) = Len(q) + 1
         /\ \A i \in 1..Len(q) :
              (SubSeq(q, 1, k) \o <<x>> \o SubSeq(q, k + 1, Len(q)))[IF i <= k THEN i ELSE i + 1] = q[i]
<1> DEFINE a == SubSeq(q, 1, k)
           c == SubSeq(q, k + 1, Len(q))
           d == a \o <<x>>
<1>1. Len(q) \in Nat /\ k \in Int /\ k + 1 \in Int /\ 1 \in Int /\ Len(q) \in Int
  OBVIOUS
<1>2. (\A i \in 1..k : q[i] \in S) /\ (\A i \in k + 1..Len(q) : q[i] \in S)
  OBVIOUS
<1>3. a \in Seq(S) /\ Len(a) = k /\ \A i \in 1..k : a[i] = q[i]
  <2>1. /\ a \in Seq(S) /\ Len(a) = (IF 1 <= k THEN k - 1 + 1 ELSE 0)
        /\ \A i \in 1..k - 1 + 1 : a[i] = q[1 + i - 1]
    BY <1>1, <1>2, SubSeqProperties
  <2> HIDE DEF a
  <2>2. QED
    BY <1>1, <2>1
<1>4. c \in Seq(S) /\ Len(c) = Len(q) - k /\ \A i \in 1..Len(q) - k : c[i] = q[k + i]
  <2>1. /\ c \in Seq(S) /\ Len(c) = (IF k + 1 <= Len(q) THEN Len(q) - (k + 1) + 1 ELSE 0)
        /\ \A i \in 1..Len(q) - (k + 1) + 1 : c[i] = q[(k + 1) + i - 1]
    BY <1>1, <1>2, SubSeqProperties
  <2> HIDE DEF c
  <2>2. QED
    BY <1>1, <2>1
<1>5. <<x>> \in Seq(S) /\ Len(<<x>>) = 1
  OBVIOUS
<1> HIDE DEF a, c
<1>6. d \in Seq(S) /\ Len(d) = k + 1 /\ \A i \in 1..k : d[i] = q[i]
  <2>1. d \in Seq(S) /\ Len(d) = Len(a) + 1
        /\ \A i \in 1..Len(a) + 1 : d[i] = IF i <= Len(a) THEN a[i] ELSE <<x>>[i - Len(a)]
    BY <1>3, <1>5, ConcatProperties
  <2> HIDE DEF d
  <2>2. QED
    BY <1>1, <1>3, <2>1
<1> HIDE DEF d
<1> DEFINE r == d \o c
<1>7. /\ r \in Seq(S) /\ Len(r) = Len(d) + Len(c)
      /\ \A i \in 1..Len(d) + Len(c) : r[i] = IF i <= Len(d) THEN d[i] ELSE c[i - Len(d)]
  BY <1>4, <1>6, ConcatProperties
<1> HIDE DEF r
<1>8. Len(d) + Len(c) = Len(q) + 1 /\ Len(d) = k + 1
  BY <1>1, <1>4, <1>6
<1>9. ASSUME NEW i \in 1..Len(q) PROVE r[IF i <= k THEN i ELSE i + 1] = q[i]
  <2>1. CASE i <= k
    <3>1. i \in 1..Len(d) + Len(c) /\ i <= Len(d) /\ i \in 1..k
      BY <1>1, <1>8, <2>1
    <3>2. QED
      BY <1>6, <1>7, <2>1, <3>1
  <2>2. CASE ~(i <= k)
    <3>1. i + 1 \in 1..Len(d) + Len(c) /\ ~(i + 1 <= Len(d)) /\ i + 1 - Len(d) = i - k
          /\ i - k \in 1..Len(q) - k /\ k + (i - k) = i
      BY <1>1, <1>8, <2>2
    <3>2. r[i + 1] = c[i - k]
      BY <1>7, <3>1
    <3>3. c[i - k] = q[i]
      BY <1>4, <3>1
    <3>4. QED
      BY <2>2, <3>2, <3>3
  <2>3. QED
    BY <2>1, <2>2
<1>10. QED
  BY <1>7, <1>8, <1>9 DEF r, d, a, c

LEMMA SongInserted ==
  ASSUME NEW new, InOrder(new)
  PROVE  InOrder([new EXCEPT !.queue = SubSeq(@, 1, new.at) \o <<Song>> \o SubSeq(@, new.at + 1, Len(@)), !.at = @ + 1, !.pos = 0])
<1> DEFINE q == new.queue
           r == SubSeq(q, 1, new.at) \o <<Song>> \o SubSeq(q, new.at + 1, Len(q))
           n == [new EXCEPT !.queue = r, !.at = new.at + 1, !.pos = 0]
<1>1. q \in Seq(Part \cup {Song}) /\ new.at \in 1..Len(q) /\ new \in Listened /\ Song \in Part \cup {Song}
  BY DEF InOrder, Listened
<1>2. /\ r \in Seq(Part \cup {Song}) /\ Len(r) = Len(q) + 1
      /\ \A i \in 1..Len(q) : r[IF i <= new.at THEN i ELSE i + 1] = q[i]
  <2> DEFINE S == Part \cup {Song}
             k == new.at
  <2>1. q \in Seq(S) /\ k \in 1..Len(q) /\ Song \in S
    BY <1>1
  <2> HIDE DEF S, q, k
  <2>2. /\ SubSeq(q, 1, k) \o <<Song>> \o SubSeq(q, k + 1, Len(q)) \in Seq(S)
        /\ Len(SubSeq(q, 1, k) \o <<Song>> \o SubSeq(q, k + 1, Len(q))) = Len(q) + 1
        /\ \A i \in 1..Len(q) :
             (SubSeq(q, 1, k) \o <<Song>> \o SubSeq(q, k + 1, Len(q)))[IF i <= k THEN i ELSE i + 1] = q[i]
    BY <2>1, InsertedAfter, Zenon
  <2>3. QED
    BY <2>2 DEF S, k
<1>3. [new EXCEPT !.queue = SubSeq(@, 1, new.at) \o <<Song>> \o SubSeq(@, new.at + 1, Len(@)), !.at = @ + 1, !.pos = 0] = n
  BY <1>1 DEF Listened
<1> HIDE DEF r
<1>4. \A i \in 1..Len(q) : \E j \in 1..Len(r) : r[j] = q[i]
  <2>1. TAKE i \in 1..Len(q)
  <2>2. (IF i <= new.at THEN i ELSE i + 1) \in 1..Len(r)
    BY <1>1, <1>2
  <2>3. QED
    BY <1>2, <2>2
<1>5. n \in Listened /\ n.queue = r /\ n.at = new.at + 1 /\ n.key = new.key
  <2>1. new.at + 1 \in Nat /\ 0 \in Nat
    BY <1>1
  <2>2. r \in Seq(Part \cup {Song})
    BY <1>2
  <2> HIDE DEF q
  <2>3. n.queue = r /\ n.at = new.at + 1 /\ n.key = new.key
    BY <1>1 DEF Listened
  <2>4. n \in Listened
    BY <1>1, <2>1, <2>2 DEF Listened
  <2>5. QED
    BY <2>3, <2>4
<1>6. DOMAIN r = 1..Len(r) /\ DOMAIN q = 1..Len(q)
  BY <1>1, <1>2
<1> HIDE DEF n
<1>7. n.at \in DOMAIN n.queue
  BY <1>1, <1>2, <1>5, <1>6
<1>8. ASSUME n.key # NoBook
      PROVE  /\ n.key[2] <= names[n.key[1]]
             /\ \A p \in 1..PartsOf[n.key[1]] : \E i \in DOMAIN n.queue : n.queue[i] # Song /\ n.queue[i][2] = p
  <2>1. new.key[2] <= names[new.key[1]] /\ \A p \in 1..PartsOf[new.key[1]] : \E i \in DOMAIN q : q[i] # Song /\ q[i][2] = p
    BY <1>5, <1>8 DEF InOrder
  <2> HIDE DEF q
  <2>2. QED
    BY <1>4, <1>5, <1>6, <2>1
<1>9. InOrder(n)
  BY <1>5, <1>7, <1>8 DEF InOrder
<1>10. QED
  BY <1>3, <1>9

-----------------------------------------------------------------------------
(* Steps. *)

(* While no folder is renamed, the invariant is kept part by part. *)
LEMMA ShelfFrame ==
  ASSUME BookInv, names' = names, InOrder(model'), InOrder(session'), Tidy(shelf'), Tidy(shelfFile'),
         left' = [b \in Books |-> Place(model', shelf', b)],
         pending' # <<>> =>
           /\ dirty' /\ InOrder(pending'[1].model)
           /\ \A b \in Books :
                LET now == Place(pending'[1].model, shelf', b) was == pending'[1].left[b]
                IN now = left'[b] \/ now = was \/ (was = End /\ now = Start),
         ~dirty' => session' = model' /\ (~unwritten' => \A b \in Books : Place(model', shelfFile', b) = left'[b])
  PROVE  BookInv'
<1>1. (names \in [Books -> Nat])' /\ InOrder(model)' /\ InOrder(session)' /\ Tidy(shelf)' /\ Tidy(shelfFile)'
  BY DEF BookInv, InOrder, Tidy
<1>2. ASSUME NEW b \in Books
      PROVE  /\ Place(model, shelf, b)' = Place(model', shelf', b) /\ Place(model, shelfFile, b)' = Place(model', shelfFile', b)
             /\ Place(pending[1].model, shelf, b)' = Place(pending'[1].model, shelf', b)
  <2>1. Found(shelf, b)' = Found(shelf', b) /\ Found(shelfFile, b)' = Found(shelfFile', b)
    BY DEF Found, Key
  <2>2. PlaceOn(shelf, b)' = PlaceOn(shelf', b) /\ PlaceOn(shelfFile, b)' = PlaceOn(shelfFile', b)
    BY <2>1 DEF PlaceOn
  <2>3. QED
    BY <2>2 DEF Place, Plays, Item, PartOf, Key
<1>3. (left = [b \in Books |-> Place(model, shelf, b)])'
  BY <1>2
<1>4. InOrder(pending'[1].model) => InOrder(pending[1].model)'
  BY DEF InOrder
<1>5. StartInv'
  BY <1>2, <1>4 DEF StartInv, Idle, RollsBack
<1>6. CleanInv'
  BY <1>2 DEF CleanInv
<1>7. QED
  BY <1>1, <1>3, <1>5, <1>6 DEF BookInv

LEMMA ShelfFacts ==
  ASSUME BookInv
  PROVE  /\ names \in [Books -> Nat] /\ InOrder(model) /\ InOrder(session) /\ Tidy(shelf) /\ Tidy(shelfFile)
         /\ left = [b \in Books |-> Place(model, shelf, b)] /\ \A b \in Books : left[b] = Place(model, shelf, b)
         /\ ~Idle => dirty /\ InOrder(pending[1].model)
                     /\ \A b \in Books :
                          LET now == Place(pending[1].model, shelf, b) was == pending[1].left[b]
                          IN now = left[b] \/ now = was \/ (was = End /\ now = Start)
         /\ ~dirty => session = model /\ (~unwritten => \A b \in Books : Place(model, shelfFile, b) = left[b])
<1>1. left = [b \in Books |-> Place(model, shelf, b)]
  BY DEF BookInv
<1>2. \A b \in Books : left[b] = Place(model, shelf, b)
  BY <1>1
<1>3. QED
  BY <1>1, <1>2 DEF BookInv, StartInv, CleanInv, RollsBack

(* The place of a book that is neither left nor gone to is on the shelf. *)
LEMMA LeavingPlaces ==
  ASSUME BookInv, NEW new
  PROVE  Leaving(new) = [b \in Books |-> Place(new, shelf, b)]
<1>1. ASSUME NEW b \in Books
      PROVE  (IF Plays(new, b) \/ Plays(model, b) THEN Place(new, shelf, b) ELSE left[b]) = Place(new, shelf, b)
  <2>1. CASE ~Plays(new, b) /\ ~Plays(model, b)
    <3>1. Place(new, shelf, b) = PlaceOn(shelf, b) /\ Place(model, shelf, b) = PlaceOn(shelf, b)
      BY <2>1 DEF Place
    <3>2. QED
      BY <2>1, <3>1, ShelfFacts
  <2>2. QED
    BY <2>1
<1>2. QED
  BY <1>1 DEF Leaving

(* A start, refused or in progress, keeps the invariant when it knows every place. *)
LEMMA LoadsKeep ==
  ASSUME BookshelfAssumption, BookInv, NEW new, InOrder(new), NEW s, Tidy(s), NEW places,
         places = [b \in Books |-> Place(new, s, b)],
         \A b \in Books : Place(model, s, b) = left[b],
         Loads(new, s, places), UNCHANGED <<names, shelfFile, session, unwritten>>
  PROVE  BookInv'
<1>1. /\ names' = names /\ UNCHANGED <<shelfFile, session, unwritten>> /\ shelf' = s /\ pending = <<>>
      /\ \/ UNCHANGED <<model, playback, pending, dirty, left>>
         \/ model' = new /\ dirty' = TRUE /\ left' = places /\ pending' = <<[model |-> model, left |-> left]>>
  BY DEF Loads, Idle
<1>2. /\ InOrder(model) /\ InOrder(session) /\ Tidy(shelfFile) /\ left = [b \in Books |-> Place(model, shelf, b)]
      /\ ~dirty => session = model /\ (~unwritten => \A b \in Books : Place(model, shelfFile, b) = left[b])
  BY ShelfFacts
<1>3. CASE UNCHANGED <<model, playback, pending, dirty, left>>
  <2>1. left' = [b \in Books |-> Place(model', shelf', b)]
    BY <1>1, <1>2, <1>3
  <2>2. QED
    BY <1>1, <1>2, <1>3, <2>1, ShelfFrame
<1>4. CASE model' = new /\ dirty' = TRUE /\ left' = places /\ pending' = <<[model |-> model, left |-> left]>>
  <2>1. pending'[1].model = model /\ pending'[1].left = left
    BY <1>4
  <2>2. \A b \in Books : Place(pending'[1].model, shelf', b) = pending'[1].left[b]
    BY <1>1, <2>1
  <2>3. left' = [b \in Books |-> Place(model', shelf', b)]
    BY <1>1, <1>4
  <2>4. QED
    BY <1>1, <1>2, <1>4, <2>1, <2>2, <2>3, ShelfFrame
<1>5. QED
  BY <1>1, <1>3, <1>4

LEMMA GoesKeeps ==
  ASSUME BookshelfAssumption, BookInv, NEW new, InOrder(new), Goes(new)
  PROVE  BookInv'
<1>1. Tidy(shelf) /\ \A b \in Books : Place(model, shelf, b) = left[b]
  BY ShelfFacts
<1>2. Loads(new, shelf, Leaving(new)) /\ UNCHANGED <<names, shelfFile, session, unwritten>>
  BY DEF Goes
<1>3. QED
  BY <1>1, <1>2, LeavingPlaces, LoadsKeep

(* A checkpoint writes the place there is. *)
LEMMA CheckpointKeeps ==
  ASSUME BookshelfAssumption, BookInv, NEW new, InOrder(new), NEW starting, Checkpoint(new, shelf, starting), names' = names,
         left' = [b \in Books |-> Place(new, shelf, b)],
         pending' # <<>> =>
           /\ starting /\ InOrder(pending'[1].model)
           /\ \A b \in Books :
                LET now == Place(pending'[1].model, shelf', b) was == pending'[1].left[b]
                IN now = left'[b] \/ now = was \/ (was = End /\ now = Start)
  PROVE  BookInv'
<1>1. /\ model' = new /\ shelf' = Save(shelf, new) /\ (session' = new \/ session' = session)
      /\ (~dirty' => session' = new) /\ (starting => dirty' = TRUE)
      /\ shelfFile' \in {shelfFile, shelf'} /\ (~unwritten' => shelfFile' = shelf')
  BY DEF Checkpoint, Writes
<1>2. names \in [Books -> Nat] /\ Tidy(shelf) /\ Tidy(shelfFile) /\ InOrder(session)
  BY ShelfFacts
<1>3. Tidy(shelf') /\ \A b \in Books : Place(new, shelf', b) = Place(new, shelf, b)
  BY <1>1, <1>2, SavedPlaces
<1>4. left' = [b \in Books |-> Place(model', shelf', b)] /\ \A b \in Books : Place(new, shelf', b) = left'[b]
  BY <1>1, <1>3
<1>5. QED
  BY <1>1, <1>2, <1>3, <1>4, ShelfFrame

LEMMA MovesKeep ==
  ASSUME BookshelfAssumption, BookInv, Idle, NEW new, InOrder(new), model' = new, left' = Leaving(new), dirty' = TRUE,
         UNCHANGED <<names, shelf, shelfFile, session, pending, unwritten>>
  PROVE  BookInv'
<1>1. left' = [b \in Books |-> Place(model', shelf', b)]
  BY LeavingPlaces
<1>2. pending' = <<>>
  BY DEF Idle
<1>3. QED
  BY <1>1, <1>2, ShelfFacts, ShelfFrame

LEMMA BootsKeep ==
  ASSUME BookInv, NEW new, InOrder(new), NEW s, Tidy(s), Boots(new, s)
  PROVE  BookInv'
<1>1. /\ model' = new /\ session' = new /\ shelf' = s /\ shelfFile' = s /\ pending' = <<>> /\ names' = names
      /\ left' = [b \in Books |-> Place(new, s, b)]
  BY DEF Boots
<1>2. left' = [b \in Books |-> Place(model', shelf', b)] /\ \A b \in Books : Place(model', shelfFile', b) = left'[b]
  BY <1>1
<1>3. QED
  BY <1>1, <1>2, ShelfFrame

(* The checkpoint of a start in progress may take an end away from the place it would *)
(* be rolled back to, and moves no other.                                             *)
LEMMA TickKeeps ==
  ASSUME BookshelfAssumption, BookInv, Tick
  PROVE  BookInv'
<1>1. Checkpoint(model, shelf, pending # <<>>) /\ UNCHANGED <<names, pending, left>>
  BY DEF Tick
<1>2. shelf' = Save(shelf, model)
  BY <1>1 DEF Checkpoint
<1>3. /\ names \in [Books -> Nat] /\ InOrder(model) /\ Tidy(shelf) /\ left = [b \in Books |-> Place(model, shelf, b)]
      /\ \A b \in Books : left[b] = Place(model, shelf, b)
  BY ShelfFacts
<1>4. \A b \in Books : PlaceOn(shelf', b) = left[b] /\ (~Plays(model, b) => PlaceOn(shelf', b) = PlaceOn(shelf, b))
  BY <1>2, <1>3, SavedPlaces
<1> DEFINE p == pending[1].model
           was(b) == pending[1].left[b]
<1>5. ASSUME pending # <<>>
      PROVE  \A b \in Books : \/ Place(p, shelf', b) = left[b] \/ Place(p, shelf', b) = was(b)
                              \/ was(b) = End /\ Place(p, shelf', b) = Start
  <2>1. TAKE b \in Books
  <2>2. Place(p, shelf, b) = left[b] \/ Place(p, shelf, b) = was(b) \/ (was(b) = End /\ Place(p, shelf, b) = Start)
    BY <1>5, ShelfFacts DEF Idle
  <2> DEFINE w == was(b)
  <2> HIDE DEF p, w
  <2>3. Start # End
    <3>1. Start[3] = FALSE /\ End[3] = TRUE
      BY DEF Start, End
    <3>2. QED
      BY <3>1
  <2>4. CASE ~Plays(p, b)
    BY <1>4, <2>4 DEF Place
  <2>5. CASE Plays(p, b) /\ ~(PartOf(p) = 1 /\ p.pos = 0)
    <3>1. Place(p, shelf', b) = <<PartOf(p), p.pos, FALSE>> /\ Place(p, shelf, b) = <<PartOf(p), p.pos, FALSE>>
      BY <2>5 DEF Place
    <3>2. Place(p, shelf', b) = Place(p, shelf, b)
      BY <3>1
    <3>3. QED
      BY <2>2, <3>2 DEF w
  <2>6. CASE Plays(p, b) /\ PartOf(p) = 1 /\ p.pos = 0
    <3>1. CASE left[b] = End
      <4>1. Place(p, shelf', b) = End
        BY <1>4, <2>6, <3>1 DEF Place, End
      <4>2. QED
        BY <3>1, <4>1
    <3>2. CASE left[b] # End
      <4>1. PlaceOn(shelf', b) # End
        BY <1>4, <3>2
      <4>2. Place(p, shelf', b) = Start
        BY <2>6, <4>1 DEF Place, Start
      <4>3. CASE PlaceOn(shelf, b) = End
        <5>1. Place(p, shelf, b) = End
          BY <2>6, <4>3 DEF Place, End
        <5>2. QED
          BY <2>2, <2>3, <3>2, <4>2, <5>1 DEF w
      <4>4. CASE PlaceOn(shelf, b) # End
        <5>1. Place(p, shelf, b) = Start
          BY <2>6, <4>4 DEF Place, Start
        <5>2. QED
          BY <2>2, <4>2, <5>1 DEF w
      <4>5. QED
        BY <4>3, <4>4
    <3>3. QED
      BY <3>1, <3>2
  <2>7. QED
    BY <2>4, <2>5, <2>6
<1>6. pending' # <<>> =>
           /\ pending # <<>> /\ InOrder(pending'[1].model)
           /\ \A b \in Books :
                LET now == Place(pending'[1].model, shelf', b) prior == pending'[1].left[b]
                IN now = left'[b] \/ now = prior \/ (prior = End /\ now = Start)
  BY <1>1, <1>5, ShelfFacts DEF Idle
<1>7. left' = [b \in Books |-> Place(model, shelf, b)] /\ names' = names
  BY <1>1, <1>3
<1>8. QED
  BY <1>1, <1>3, <1>6, <1>7, CheckpointKeeps

LEMMA StartUndoneKeeps ==
  ASSUME BookshelfAssumption, BookInv, StartUndone
  PROVE  BookInv'
<1> DEFINE new == pending[1].model
<1>1. Checkpoint(new, shelf, FALSE) /\ names' = names /\ pending' = <<>> /\ ~Idle /\ left' = Undone(model', shelf')
  BY DEF StartUndone
<1>2. /\ names \in [Books -> Nat] /\ InOrder(new) /\ Tidy(shelf)
      /\ \A b \in Books : LET now == Place(new, shelf, b) was == pending[1].left[b]
                          IN now = left[b] \/ now = was \/ (was = End /\ now = Start)
  BY <1>1, ShelfFacts
<1>3. model' = new /\ shelf' = Save(shelf, new)
  BY <1>1 DEF Checkpoint
<1> HIDE DEF new
<1>4. \A b \in Books : Place(new, shelf', b) = Place(new, shelf, b)
  BY <1>2, <1>3, SavedPlaces
<1>5. left' = [b \in Books |-> Place(new, shelf, b)]
  <2>1. left' = [b \in Books |-> LET now == Place(new, shelf', b) was == pending[1].left[b]
                                 IN IF now = left[b] \/ (was = End /\ now = Start) THEN now ELSE was]
    BY <1>1, <1>3 DEF Undone
  <2>2. QED
    BY <1>2, <1>4, <2>1
<1>6. QED
  BY <1>1, <1>2, <1>5, CheckpointKeeps

LEMMA FirstShelf ==
  ASSUME BookshelfAssumption, ShelfInit
  PROVE  BookInv
<1>1. names \in [Books -> Nat]
  BY DEF ShelfInit
<1>2. InOrder(model) /\ InOrder(session) /\ session = model
  BY NoModelInOrder DEF ShelfInit
<1>3. Tidy(shelf) /\ shelfFile = shelf /\ \A b \in Books : PlaceOn(shelf, b) = Start
  <2>1. DOMAIN shelf = {}
    BY DEF ShelfInit
  <2>2. Tidy(shelf)
    BY <2>1 DEF Tidy
  <2>3. \A b \in Books : PlaceOn(shelf, b) = Start
    BY <1>1, <2>1, <2>2, RecordOf
  <2>4. QED
    BY <2>2, <2>3 DEF ShelfInit
<1>4. ASSUME NEW b \in Books PROVE Place(model, shelf, b) = Start
  <2>1. ~Plays(model, b)
    BY DEF ShelfInit, NoModel, Plays, Item
  <2>2. QED
    BY <1>3, <2>1 DEF Place
<1>5. left = [b \in Books |-> Place(model, shelf, b)]
  BY <1>4 DEF ShelfInit
<1>6. \A b \in Books : left[b] = Place(model, shelfFile, b)
  BY <1>3, <1>5
<1>7. StartInv /\ CleanInv
  BY <1>2, <1>6 DEF ShelfInit, StartInv, Idle, CleanInv
<1>8. QED
  BY <1>1, <1>2, <1>3, <1>5, <1>7 DEF BookInv

LEMMA PlayBookKeeps ==
  ASSUME BookshelfAssumption, BookInv, PlayBook
  PROVE  BookInv'
<1> DEFINE s == Save(shelf, model)
<1> DEFINE place(b, back, chapter) ==
             IF chapter = 0 THEN Resume(s, b, back) ELSE <<IF chapter <= PartsOf[b] THEN chapter ELSE 1, 0>>
           playingAt(b, p) == [key |-> Key(b), queue |-> FilesOf(b), at |-> p[1], pos |-> p[2]]
           starts(b, back, chapter) ==
             LET x == playingAt(b, place(b, back, chapter)) IN Loads(x, s, [left EXCEPT ![b] = Place(x, s, b)])
<1>1. \E b \in Books, back \in Rewinds : \E chapter \in 0..PartsOf[b] + 1 : starts(b, back, chapter)
  BY DEF PlayBook
<1> HIDE DEF starts
<1>2. PICK b \in Books, back \in Rewinds : \E chapter \in 0..PartsOf[b] + 1 : starts(b, back, chapter)
  BY <1>1
<1>3. PICK chapter \in 0..PartsOf[b] + 1 : starts(b, back, chapter)
  BY <1>2
<1>4. UNCHANGED <<names, shelfFile, session, unwritten>> /\ PartsOf[b] \in Nat \ {0} /\ back \in Nat
  BY DEF PlayBook, BookshelfAssumption
<1>5. /\ names \in [Books -> Nat] /\ InOrder(model) /\ Tidy(shelf) /\ left = [c \in Books |-> Place(model, shelf, c)]
      /\ \A c \in Books : left[c] = Place(model, shelf, c)
  BY ShelfFacts
<1>6. Tidy(s) /\ \A c \in Books : PlaceOn(s, c) = left[c] /\ Place(model, s, c) = left[c]
  BY <1>5, SavedPlaces
<1> DEFINE p == IF chapter = 0 THEN Resume(s, b, back) ELSE <<IF chapter <= PartsOf[b] THEN chapter ELSE 1, 0>>
<1>7. p[1] \in 1..PartsOf[b] /\ p[2] \in Nat
  <2>1. CASE chapter # 0
    BY <1>4, <2>1
  <2>2. CASE chapter = 0
    <3>1. PlaceOn(s, b)[1] \in 1..PartsOf[b] /\ PlaceOn(s, b)[2] \in Nat
      BY <1>5, <1>6, PlacesTyped DEF BookshelfAssumption
    <3> HIDE DEF s
    <3> DEFINE q == PlaceOn(s, b)
    <3>2. \/ Resume(s, b, back) = <<1, 0>>
          \/ q[1] < PartsOf[b] /\ Resume(s, b, back) = <<q[1] + 1, 0>>
          \/ Resume(s, b, back) = <<q[1], Back(q[2], back)>>
      BY DEF Resume
    <3> HIDE DEF q
    <3>3. Back(q[2], back) \in Nat
      BY <1>4, <3>1 DEF Back, q
    <3>4. Resume(s, b, back)[1] \in 1..PartsOf[b] /\ Resume(s, b, back)[2] \in Nat
      BY <1>4, <3>1, <3>2, <3>3 DEF q
    <3>5. QED
      BY <2>2, <3>4
  <2>3. QED
    BY <2>1, <2>2
<1> DEFINE i == p[1]
           pos == p[2]
           new == [key |-> Key(b), queue |-> FilesOf(b), at |-> i, pos |-> pos]
           places == [left EXCEPT ![b] = Place(new, s, b)]
<1>8. Loads(new, s, places)
  BY <1>3 DEF starts
<1>9. i \in 1..PartsOf[b] /\ pos \in Nat
  BY <1>7
<1> HIDE DEF s, p, i, pos
<1>10. InOrder(new)
  BY <1>5, <1>9, BookInOrder
<1>11. places = [c \in Books |-> Place(new, s, c)]
  <2>1. ASSUME NEW c \in Books \ {b} PROVE Place(new, s, c) = left[c]
    <3>1. ~Plays(new, c)
      BY DEF Plays, Key
    <3>2. QED
      BY <1>6, <3>1 DEF Place
  <2> HIDE DEF new
  <2>2. QED
    BY <1>5, <2>1
<1> HIDE DEF new, places
<1>12. QED
  BY <1>4, <1>6, <1>8, <1>10, <1>11, LoadsKeep

LEMMA PlayMusicKeeps ==
  ASSUME BookshelfAssumption, BookInv, PlayMusic
  PROVE  BookInv'
<1> DEFINE s == Save(shelf, model)
<1>1. Loads(NoModel, s, left) /\ UNCHANGED <<names, shelfFile, session, unwritten>>
  BY DEF PlayMusic
<1>2. /\ names \in [Books -> Nat] /\ InOrder(model) /\ Tidy(shelf) /\ left = [c \in Books |-> Place(model, shelf, c)]
      /\ \A c \in Books : left[c] = Place(model, shelf, c)
  BY ShelfFacts
<1>3. Tidy(s) /\ \A c \in Books : PlaceOn(s, c) = left[c] /\ Place(model, s, c) = left[c]
  BY <1>2, SavedPlaces
<1>4. \A c \in Books : Place(NoModel, s, c) = left[c]
  <2>1. \A c \in Books : ~Plays(NoModel, c)
    BY DEF Plays, NoModel, Item
  <2>2. QED
    BY <1>3, <2>1 DEF Place
<1> HIDE DEF s
<1>5. left = [c \in Books |-> Place(NoModel, s, c)]
  BY <1>2, <1>4
<1>6. QED
  BY <1>1, <1>3, <1>5, NoModelInOrder, LoadsKeep

(* The starts that save nothing first. *)
LEMMA GoingKeeps ==
  ASSUME BookshelfAssumption, BookInv, PlayNow \/ JumpTo \/ BookStep \/ PartEnds
  PROVE  BookInv'
<1>1. names \in [Books -> Nat] /\ InOrder(model) /\ model.at \in DOMAIN model.queue /\ 0 \in Nat
  BY ShelfFacts DEF InOrder
<1>2. \A i \in DOMAIN model.queue : InOrder(At(i, 0))
  BY <1>1, ElsewhereIn
<1>3. CASE PlayNow
  <2> DEFINE new == [model EXCEPT !.queue = SubSeq(@, 1, model.at) \o <<Song>> \o SubSeq(@, model.at + 1, Len(@)),
                                !.at = @ + 1, !.pos = 0]
  <2>1. Goes(new)
    BY <1>3 DEF PlayNow
  <2>2. InOrder(new)
    BY <1>1, SongInserted, Zenon
  <2> HIDE DEF new
  <2>3. QED
    BY <2>1, <2>2, GoesKeeps
<1>4. CASE JumpTo
  <2>1. PICK i \in DOMAIN model.queue : Goes(At(i, 0))
    BY <1>4 DEF JumpTo
  <2>2. QED
    BY <1>2, <2>1, GoesKeeps
<1>5. CASE BookStep \/ PartEnds
  <2>1. PICK b \in Books : Plays(model, b) /\ \/ PartOf(model) < PartsOf[b] /\ Goes(At(Index(model, PartOf(model) + 1), 0))
                                              \/ Goes(At(model.at, 0))
                                              \/ PartOf(model) > 1 /\ Goes(At(Index(model, PartOf(model) - 1), 0))
    BY <1>5 DEF BookStep, PartEnds
  <2>2. PartOf(model) \in 1..PartsOf[b] /\ PartsOf[b] \in Nat
    BY <1>1, <2>1, PlayedPart DEF BookshelfAssumption
  <2>3. \A part \in 1..PartsOf[b] : Index(model, part) \in DOMAIN model.queue
    BY <1>1, <2>1, PartIndex
  <2>4. CASE Goes(At(model.at, 0))
    BY <1>1, <1>2, <2>4, GoesKeeps
  <2>5. CASE PartOf(model) < PartsOf[b] /\ Goes(At(Index(model, PartOf(model) + 1), 0))
    <3>1. PartOf(model) + 1 \in 1..PartsOf[b]
      BY <2>2, <2>5
    <3>2. QED
      BY <1>2, <2>3, <2>5, <3>1, GoesKeeps
  <2>6. CASE PartOf(model) > 1 /\ Goes(At(Index(model, PartOf(model) - 1), 0))
    <3>1. PartOf(model) - 1 \in 1..PartsOf[b]
      BY <2>2, <2>6
    <3>2. QED
      BY <1>2, <2>3, <2>6, <3>1, GoesKeeps
  <2>7. QED
    BY <2>1, <2>4, <2>5, <2>6
<1>6. QED
  BY <1>3, <1>4, <1>5

LEMMA SleepKeeps ==
  ASSUME BookInv, PrepareSleep
  PROVE  BookInv'
<1>1. session' = model /\ UNCHANGED <<names, shelf, shelfFile, model, pending, dirty, left, unwritten>> /\ pending' = <<>>
  BY DEF PrepareSleep, Idle
<1>2. left' = [b \in Books |-> Place(model', shelf', b)]
  BY <1>1, ShelfFacts
<1>3. QED
  BY <1>1, <1>2, ShelfFacts, ShelfFrame

LEMMA BootKeeps ==
  ASSUME BookshelfAssumption, BookInv, PowerCut \/ Shutdown
  PROVE  BookInv'
<1>1. InOrder(model) /\ InOrder(session) /\ Tidy(shelf) /\ Tidy(shelfFile) /\ names \in [Books -> Nat]
  BY ShelfFacts
<1>2. Tidy(Save(shelf, model))
  BY <1>1, SavedPlaces
<1>3. \E new \in {session, model}, s \in {shelfFile, Save(shelf, model)} : Boots(new, s)
  BY DEF PowerCut, Shutdown
<1>4. QED
  BY <1>1, <1>2, <1>3, BootsKeep

(* A checkpoint of the book listened to, with no start in progress after it. *)
LEMMA WritesKeep ==
  ASSUME BookshelfAssumption, BookInv, Checkpoint(model, shelf, FALSE), pending' = <<>>, UNCHANGED <<names, left>>
  PROVE  BookInv'
<1>1. InOrder(model) /\ left' = [b \in Books |-> Place(model, shelf, b)]
  BY ShelfFacts
<1>2. QED
  BY <1>1, CheckpointKeeps

(* A start in progress has left something to be written. *)
LEMMA StartOpensKeeps ==
  ASSUME BookshelfAssumption, BookInv, StartOpens
  PROVE  BookInv'
<1>1. dirty
  BY ShelfFacts DEF StartOpens
<1>2. Checkpoint(model, shelf, FALSE) /\ pending' = <<>> /\ UNCHANGED <<names, left>>
  BY <1>1 DEF StartOpens
<1>3. QED
  BY <1>2, WritesKeep

LEMMA PlayAndPauseKeep ==
  ASSUME BookshelfAssumption, BookInv, Play \/ Pause
  PROVE  BookInv'
<1>1. InOrder(model) /\ model.at \in DOMAIN model.queue /\ model.pos \in Nat
  BY ShelfFacts DEF InOrder, Listened
<1>2. CASE \E back \in Rewinds : Goes(At(model.at, Back(model.pos, back)))
  <2>1. PICK back \in Rewinds : Goes(At(model.at, Back(model.pos, back)))
    BY <1>2
  <2>2. back \in Nat
    BY DEF BookshelfAssumption
  <2>3. Back(model.pos, back) \in Nat
    BY <1>1, <2>2 DEF Back
  <2>4. InOrder(At(model.at, Back(model.pos, back)))
    BY <1>1, <2>3, ElsewhereIn
  <2>5. QED
    BY <2>1, <2>4, GoesKeeps
<1>3. CASE Goes(model)
  BY <1>1, <1>3, GoesKeeps
<1>4. CASE Idle /\ Checkpoint(model, shelf, FALSE) /\ UNCHANGED <<names, pending, left>>
  <2>1. pending' = <<>>
    BY <1>4 DEF Idle
  <2>2. QED
    BY <1>4, <2>1, WritesKeep
<1>5. QED
  BY <1>2, <1>3, <1>4 DEF Play, Pause

LEMMA MovingKeeps ==
  ASSUME BookshelfAssumption, BookInv, Listen \/ Seek \/ Boundary
  PROVE  BookInv'
<1>1. /\ InOrder(model) /\ model.at \in DOMAIN model.queue /\ model.pos \in Nat
      /\ model.at \in Nat /\ Len(model.queue) \in Nat /\ DOMAIN model.queue = 1..Len(model.queue)
  <2>1. InOrder(model)
    BY ShelfFacts
  <2>2. model \in Listened /\ model.at \in DOMAIN model.queue
    BY <2>1 DEF InOrder
  <2>3. QED
    BY <2>1, <2>2 DEF Listened
<1>2. PartLength \in Nat
  BY DEF BookshelfAssumption
<1>3. Idle /\ UNCHANGED <<names, shelf, shelfFile, session, pending, unwritten>> /\ dirty' = TRUE /\ left' = Leaving(model')
  BY DEF Listen, Seek, Boundary, AtEnd, Moves
<1>4. \E i \in DOMAIN model.queue : \E pos \in Nat : model' = At(i, pos)
  <2>1. CASE Listen
    <3>1. model' = At(model.at, model.pos + 1)
      BY <2>1 DEF Listen, Moves
    <3>2. model.pos + 1 \in Nat
      BY <1>1
    <3>3. QED
      BY <1>1, <3>1, <3>2
  <2>2. CASE Seek
    <3>1. PICK pos \in 0..PartLength : model' = At(model.at, pos)
      BY <2>2 DEF Seek, Moves
    <3>2. pos \in Nat
      BY <1>2
    <3>3. QED
      BY <1>1, <3>1, <3>2
  <2>3. CASE Boundary
    <3>1. model' = At(model.at + 1, 0) /\ model.at < Len(model.queue)
      BY <2>3 DEF Boundary
    <3>2. model.at + 1 \in DOMAIN model.queue /\ 0 \in Nat
      BY <1>1, <3>1
    <3>3. QED
      BY <3>1, <3>2
  <2>4. QED
    BY <2>1, <2>2, <2>3
<1>5. InOrder(model')
  BY <1>1, <1>4, ElsewhereIn
<1>6. QED
  BY <1>3, <1>5, MovesKeep

LEMMA FinishedRecord ==
  ASSUME names \in [Books -> Nat], PartsOf \in [Books -> Nat \ {0}], NEW s, Tidy(s), NEW b \in Books
  PROVE  /\ Tidy(With(s, b, 1, 0, TRUE)) /\ PlaceOn(With(s, b, 1, 0, TRUE), b) = End
         /\ \A c \in Books \ {b} : PlaceOn(With(s, b, 1, 0, TRUE), c) = PlaceOn(s, c)
<1> DEFINE part == 1
           pos == 0
           done == TRUE
<1>1. part \in 1..PartsOf[b] /\ pos \in Nat /\ done \in BOOLEAN /\ (done => part = 1 /\ pos = 0)
  OBVIOUS
<1> HIDE DEF part, pos, done
<1>2. /\ Tidy(With(s, b, part, pos, done)) /\ PlaceOn(With(s, b, part, pos, done), b) = <<part, pos, done>>
      /\ \A c \in Books \ {b} : PlaceOn(With(s, b, part, pos, done), c) = PlaceOn(s, c)
  BY <1>1, WithRecord
<1>3. QED
  BY <1>2 DEF End, part, pos, done

(* The book that ends plays no other: its key is the queue's. *)
LEMMA BookEndsKeeps ==
  ASSUME BookshelfAssumption, BookInv, BookEnds
  PROVE  BookInv'
<1>1. PICK b \in Books : /\ Plays(model, b) /\ shelf' = With(shelf, b, 1, 0, TRUE) /\ shelfFile' \in {shelfFile, shelf'}
                         /\ model' = At(Index(model, 1), 0) /\ left' = [left EXCEPT ![b] = End]
  BY DEF BookEnds, SetFinished, Writes
<1>2. Idle /\ dirty' = TRUE /\ UNCHANGED <<names, session, pending>> /\ pending' = <<>>
  BY DEF BookEnds, AtEnd, Idle
<1>3. /\ names \in [Books -> Nat] /\ InOrder(model) /\ InOrder(session) /\ Tidy(shelf) /\ Tidy(shelfFile)
      /\ left = [c \in Books |-> Place(model, shelf, c)] /\ \A c \in Books : left[c] = Place(model, shelf, c)
  BY ShelfFacts
<1>4. PartsOf \in [Books -> Nat \ {0}] /\ 1 \in 1..PartsOf[b] /\ 0 \in Nat /\ TRUE \in BOOLEAN
  BY DEF BookshelfAssumption
<1>5. /\ Tidy(shelf') /\ PlaceOn(shelf', b) = <<1, 0, TRUE>>
      /\ \A c \in Books \ {b} : PlaceOn(shelf', c) = PlaceOn(shelf, c)
  BY <1>1, <1>3, <1>4, FinishedRecord DEF End
<1>6. Index(model, 1) \in DOMAIN model.queue /\ model.queue[Index(model, 1)][2] = 1
  BY <1>1, <1>3, <1>4, PartIndex
<1>7. InOrder(model')
  BY <1>1, <1>3, <1>4, <1>6, ElsewhereIn
<1>8. model \in Listened /\ model.key = Key(b) /\ \A c \in Books : Plays(model, c) => c = b
  BY <1>1, <1>3, PlayedPart DEF InOrder
<1>9. model'.key = Key(b) /\ model'.pos = 0 /\ PartOf(model') = 1
  BY <1>1, <1>6, <1>8 DEF At, Listened, PartOf, Item
<1>10. ASSUME NEW c \in Books PROVE left'[c] = Place(model', shelf', c)
  <2>1. CASE c = b
    <3>1. PlaceOn(shelf', b) = End
      BY <1>5 DEF End
    <3>2. Place(model', shelf', b) = End
      BY <1>9, <3>1 DEF Place, End
    <3>3. QED
      BY <1>1, <1>3, <2>1, <3>2
  <2>2. CASE c # b
    <3>1. ~Plays(model', c) /\ ~Plays(model, c)
      BY <1>8, <1>9, <2>2 DEF Plays, Key
    <3>2. Place(model', shelf', c) = PlaceOn(shelf', c) /\ Place(model, shelf, c) = PlaceOn(shelf, c)
      BY <3>1 DEF Place
    <3>3. left'[c] = left[c]
      BY <1>1, <1>3, <2>2
    <3>4. QED
      BY <1>3, <1>5, <2>2, <3>2, <3>3
  <2>3. QED
    BY <2>1, <2>2
<1>11. left' = [c \in Books |-> Place(model', shelf', c)]
  <2>1. left' = [c \in Books |-> left'[c]]
    BY <1>1, <1>3
  <2>2. QED
    BY <1>10, <2>1
<1>12. QED
  BY <1>1, <1>2, <1>3, <1>5, <1>7, <1>11, ShelfFrame

LEMMA SongEndsKeeps ==
  ASSUME BookshelfAssumption, BookInv, SongEnds
  PROVE  BookInv'
<1>1. /\ InOrder(model) /\ model.at \in Nat /\ Len(model.queue) \in Nat /\ DOMAIN model.queue = 1..Len(model.queue)
      /\ model.at \in DOMAIN model.queue
  BY ShelfFacts DEF InOrder, Listened
<1>2. CASE model.at < Len(model.queue)
  <2>1. Goes(At(model.at + 1, 0))
    BY <1>2 DEF SongEnds
  <2>2. model.at + 1 \in DOMAIN model.queue /\ 0 \in Nat
    BY <1>1, <1>2
  <2>3. InOrder(At(model.at + 1, 0))
    BY <1>1, <2>2, ElsewhereIn
  <2>4. QED
    BY <2>1, <2>3, GoesKeeps
<1>3. CASE ~(model.at < Len(model.queue))
  <2>1. UNCHANGED <<names, shelf, shelfFile, model, session, pending, dirty, left, unwritten>> /\ pending' = <<>>
    BY <1>3 DEF SongEnds, AtEnd, Idle
  <2>2. left' = [b \in Books |-> Place(model', shelf', b)]
    BY <2>1, ShelfFacts
  <2>3. QED
    BY <2>1, <2>2, ShelfFacts, ShelfFrame
<1>4. QED
  BY <1>2, <1>3

(* A mark is on the shelf alone, so it is the place of a book that is not playing. *)
LEMMA MarkKeeps ==
  ASSUME BookshelfAssumption, MarksCurrent = FALSE, BookInv, Mark
  PROVE  BookInv'
<1>1. PICK b \in Books, done \in BOOLEAN :
        /\ ~Plays(model, b) /\ shelf' = SetFinished(shelf, b, done) /\ shelfFile' \in {shelfFile, shelf'}
        /\ (~unwritten' => shelfFile' = shelf')
        /\ left' = [left EXCEPT ![b] = IF done THEN End ELSE Start]
  BY DEF Mark, Writes
<1>2. UNCHANGED <<names, model, session, pending, dirty>> /\ pending' = <<>>
  BY DEF Mark, Idle
<1>3. /\ names \in [Books -> Nat] /\ InOrder(model) /\ InOrder(session) /\ Tidy(shelf) /\ Tidy(shelfFile)
      /\ left = [c \in Books |-> Place(model, shelf, c)] /\ \A c \in Books : left[c] = Place(model, shelf, c)
      /\ (~dirty => session = model)
  BY ShelfFacts
<1>4. PartsOf \in [Books -> Nat \ {0}] /\ 1 \in 1..PartsOf[b] /\ 0 \in Nat /\ TRUE \in BOOLEAN
  BY DEF BookshelfAssumption
<1>5. /\ Tidy(shelf') /\ PlaceOn(shelf', b) = (IF done THEN End ELSE Start)
      /\ \A c \in Books \ {b} : PlaceOn(shelf', c) = PlaceOn(shelf, c)
  <2>1. CASE done
    <3>1. shelf' = With(shelf, b, 1, 0, TRUE)
      BY <1>1, <2>1 DEF SetFinished
    <3>2. QED
      BY <1>3, <1>4, <2>1, <3>1, FinishedRecord
  <2>2. CASE ~done
    <3>1. shelf' = Forget(shelf, b)
      BY <1>1, <2>2 DEF SetFinished
    <3>2. QED
      BY <1>3, <2>2, <3>1, WithoutRecord
  <2>3. QED
    BY <2>1, <2>2
<1>6. ASSUME NEW c \in Books PROVE left'[c] = Place(model, shelf', c)
  <2>1. CASE c = b
    BY <1>1, <1>3, <1>5, <2>1 DEF Place
  <2>2. CASE c # b
    <3>1. PlaceOn(shelf', c) = PlaceOn(shelf, c) /\ left'[c] = left[c]
      BY <1>1, <1>3, <1>5, <2>2
    <3>2. Place(model, shelf', c) = Place(model, shelf, c)
      BY <3>1 DEF Place
    <3>3. QED
      BY <1>3, <3>1, <3>2
  <2>3. QED
    BY <2>1, <2>2
<1>7. left' = [c \in Books |-> Place(model', shelf', c)]
  <2>1. left' = [c \in Books |-> left'[c]]
    BY <1>1, <1>3
  <2>2. QED
    BY <1>2, <1>6, <2>1
<1>8. ~unwritten' => \A c \in Books : Place(model', shelfFile', c) = left'[c]
  BY <1>1, <1>2, <1>6
<1>9. QED
  BY <1>1, <1>2, <1>3, <1>5, <1>7, <1>8, ShelfFrame

(* A new name finds the one record of the book, and the shelf has its place by then. *)
LEMMA RenameKeeps ==
  ASSUME BookshelfAssumption, BookInv, Rename
  PROVE  BookInv'
<1>1. PICK b \in Books : names' = [names EXCEPT ![b] = @ + 1]
  BY DEF Rename
<1>2. /\ UNCHANGED <<shelf, shelfFile, model, session, pending, dirty, left, unwritten>> /\ pending = <<>>
      /\ (shelf = shelfFile \/ unwritten) /\ Save(shelf, model) = shelf
  BY DEF Rename, Idle
<1>3. /\ names \in [Books -> Nat] /\ InOrder(model) /\ InOrder(session) /\ Tidy(shelf) /\ Tidy(shelfFile)
      /\ left = [c \in Books |-> Place(model, shelf, c)] /\ \A c \in Books : left[c] = Place(model, shelf, c)
      /\ (~dirty => session = model)
  BY ShelfFacts
<1>4. names' \in [Books -> Nat] /\ names'[b] = names[b] + 1 /\ \A c \in Books \ {b} : names'[c] = names[c]
  BY <1>1, <1>3
<1>5. \A c \in Books : names[c] \in Nat /\ names'[c] \in Nat /\ names[c] <= names'[c]
  BY <1>3, <1>4
<1>6. InOrder(model)' /\ InOrder(session)'
  <2>1. ASSUME NEW new, InOrder(new)
        PROVE  /\ new \in Listened /\ new.at \in DOMAIN new.queue
               /\ new.key # NoBook =>
                    /\ new.key[2] <= names'[new.key[1]]
                    /\ \A p \in 1..PartsOf[new.key[1]] : \E i \in DOMAIN new.queue : new.queue[i] # Song /\ new.queue[i][2] = p
    <3>1. new.key # NoBook => new.key[1] \in Books /\ new.key[2] \in Nat /\ new.key[2] <= names[new.key[1]]
      BY <2>1 DEF InOrder, Listened, BookKey
    <3>2. QED
      BY <1>5, <2>1, <3>1 DEF InOrder
  <2>2. QED
    BY <1>2, <1>3, <2>1 DEF InOrder
<1>7. Tidy(shelf)' /\ Tidy(shelfFile)'
  <2>1. ASSUME NEW s, Tidy(s)
        PROVE  \A k \in DOMAIN s : k \in BookKey /\ k[2] <= names'[k[1]]
    <3>1. \A k \in DOMAIN s : k[1] \in Books /\ k[2] \in Nat /\ k[2] <= names[k[1]] /\ k \in BookKey
      BY <2>1 DEF Tidy, BookKey
    <3>2. QED
      BY <1>5, <3>1
  <2>2. QED
    BY <1>2, <1>3, <2>1 DEF Tidy
<1>8. ASSUME NEW c \in Books PROVE PlaceOn(shelf, c)' = PlaceOn(shelf, c)
  <2>1. Found(shelf, c) = {k \in DOMAIN shelf : k[1] = c}
    BY <1>3, RecordOf
  <2>2. \A k, l \in DOMAIN shelf : k[1] = l[1] => k = l
    BY <1>3 DEF Tidy
  <2>3. Found(shelf, c)' = {k \in DOMAIN shelf : k[1] = c}
    BY <1>2, <2>2 DEF Found, Key
  <2>4. Found(shelf, c)' = Found(shelf, c) /\ shelf' = shelf
    BY <1>2, <2>1, <2>3
  <2>5. QED
    BY <2>4 DEF PlaceOn
<1>9. ASSUME NEW c \in Books PROVE Place(model, shelf, c)' = left[c]
  <2>1. CASE c = b
    <3>1. model.key # NoBook => model.key[1] \in Books /\ model.key[2] \in Nat /\ model.key[2] <= names[model.key[1]]
      BY <1>3 DEF InOrder, Listened, BookKey
    <3>2. NoBook \notin BookKey /\ <<b, names'[b]>> \in BookKey /\ <<b, names'[b]>>[1] = b /\ <<b, names'[b]>>[2] = names'[b]
      BY <1>5 DEF BookshelfAssumption, BookKey
    <3>3. model.key # <<b, names'[b]>>
      <4>1. CASE model.key = NoBook
        BY <3>2, <4>1
      <4>2. CASE model.key # NoBook
        <5>1. names[b] \in Nat /\ names'[b] = names[b] + 1
          BY <1>4, <1>5
        <5>2. SUFFICES ASSUME model.key = <<b, names'[b]>> PROVE FALSE
          OBVIOUS
        <5>3. model.key[1] = b /\ model.key[2] = names'[b]
          BY <3>2, <5>2
        <5>4. QED
          BY <3>1, <4>2, <5>1, <5>3
      <4>3. QED
        BY <4>1, <4>2
    <3>4. ~Plays(model, b)'
      BY <1>2, <3>3 DEF Plays, Key
    <3>5. Place(model, shelf, b)' = PlaceOn(shelf, b)'
      BY <3>4 DEF Place
    <3>6. PlaceOn(Save(shelf, model), b) = Place(model, shelf, b)
      BY <1>3, SavedPlaces
    <3>7. QED
      BY <1>2, <1>3, <1>8, <2>1, <3>5, <3>6
  <2>2. CASE c # b
    <3>1. names'[c] = names[c]
      BY <1>4, <2>2
    <3>2. Plays(model, c)' = Plays(model, c)
      BY <1>2, <3>1 DEF Plays, Key, Item
    <3>3. Place(model, shelf, c)' = Place(model, shelf, c)
      BY <1>2, <1>8, <3>2 DEF Place, PartOf, Item
    <3>4. QED
      BY <1>3, <3>3
  <2>3. QED
    BY <2>1, <2>2
<1>10. (left = [c \in Books |-> Place(model, shelf, c)])'
  BY <1>2, <1>3, <1>9
<1>11. StartInv'
  BY <1>2 DEF StartInv, Idle
<1>12. CleanInv'
  <2>1. ASSUME ~unwritten, NEW c \in Books PROVE (Place(model, shelfFile, c))' = left'[c]
    <3>1. shelfFile' = shelf'
      BY <1>2, <2>1
    <3>2. (Place(model, shelfFile, c))' = (Place(model, shelf, c))'
      BY <3>1 DEF Place, PlaceOn, Found
    <3>3. QED
      BY <1>2, <1>9, <3>2
  <2>2. QED
    BY <1>2, <1>3, <2>1 DEF CleanInv
<1>13. QED
  BY <1>4, <1>6, <1>7, <1>10, <1>11, <1>12 DEF BookInv

LEMMA ShelfSteps ==
  ASSUME BookshelfAssumption, MarksCurrent = FALSE, BookInv, [ShelfNext]_shelfVars
  PROVE  BookInv'
<1>1. CASE ShelfNext
  BY <1>1, TickKeeps, SleepKeeps, BootKeeps, StartOpensKeeps, StartUndoneKeeps, PlayBookKeeps, PlayMusicKeeps,
     GoingKeeps, PlayAndPauseKeep, MovingKeeps, BookEndsKeeps, SongEndsKeeps, MarkKeeps, RenameKeeps, Zenon DEF ShelfNext
<1>2. CASE UNCHANGED shelfVars
  <2>1. UNCHANGED <<names, shelf, shelfFile, model, session, pending, dirty, left, unwritten>>
    BY <1>2 DEF shelfVars
  <2>2. /\ left' = [b \in Books |-> Place(model', shelf', b)]
        /\ ~dirty' => session' = model' /\ (~unwritten' => \A b \in Books : Place(model', shelfFile', b) = left'[b])
        /\ InOrder(model') /\ InOrder(session') /\ Tidy(shelf') /\ Tidy(shelfFile')
    BY <2>1, ShelfFacts
  <2>3. pending' # <<>> =>
           /\ dirty' /\ InOrder(pending'[1].model)
           /\ \A b \in Books :
                LET now == Place(pending'[1].model, shelf', b) was == pending'[1].left[b]
                IN now = left'[b] \/ now = was \/ (was = End /\ now = Start)
    BY <2>1, ShelfFacts DEF Idle
  <2>4. QED
    BY <2>1, <2>2, <2>3, ShelfFrame
<1>3. QED
  BY <1>1, <1>2

(* PlacesKept: whatever is started, refused, rolled back, renamed, finished or cut off by *)
(* the power, the place of the book playing is in the model and that of every other book  *)
(* is on the shelf (books.rs save_book, book_place), with one record for a book           *)
(* (Shelf::record, Shelf::find).  A mark of the book that is playing is left out by the   *)
(* hypothesis: it is on the shelf, the place is in the model, and the next save takes the *)
(* mark away, as MarkHolds shows.                                                         *)
THEOREM PlacesAreKept ==
  ASSUME BookshelfAssumption, MarksCurrent = FALSE
  PROVE  ShelfSpec => []PlacesKept
<1>1. ShelfInit => BookInv
  BY FirstShelf
<1>2. BookInv /\ [ShelfNext]_shelfVars => BookInv'
  BY ShelfSteps, Zenon
<1>3. BookInv => PlacesKept
  <2>1. ASSUME BookInv PROVE PlacesHold
    BY <2>1, ShelfFacts DEF PlacesHold
  <2>2. ASSUME BookInv PROVE OnePlace
    BY <2>2, ShelfFacts DEF OnePlace, Tidy
  <2>3. QED
    BY <2>1, <2>2 DEF PlacesKept
<1>4. QED
  BY <1>1, <1>2, <1>3, PTL DEF ShelfSpec

(* CleanIsSafe: while nothing is to be written and no start is in progress, the session   *)
(* and the shelf on the disk have every book's place between them (checkpoint, save_book),*)
(* so that a cut of the power loses none: what a checkpoint wrote is what there is, and   *)
(* whatever changes a place after it leaves a write to be done.  checkpoint clears the    *)
(* flag though the write of the shelf failed (write_shelf): from then until one succeeds  *)
(* what is safe is the place of the book playing, past its beginning, in the session.     *)
THEOREM CutsLoseNothing ==
  ASSUME BookshelfAssumption, MarksCurrent = FALSE
  PROVE  ShelfSpec => []CleanIsSafe
<1>1. ShelfInit => BookInv
  BY FirstShelf
<1>2. BookInv /\ [ShelfNext]_shelfVars => BookInv'
  BY ShelfSteps, Zenon
<1>3. BookInv => CleanIsSafe
  <2>1. ASSUME BookInv, ~dirty, NEW b \in Books, unwritten => Begun(session, b)
        PROVE  Place(session, shelfFile, b) = left[b]
    <3>1. session = model /\ left[b] = Place(model, shelf, b)
      BY <2>1, ShelfFacts
    <3>2. CASE ~unwritten
      BY <2>1, <3>1, <3>2, ShelfFacts
    <3>3. CASE Begun(session, b)
      <4>1. InOrder(model) /\ names \in [Books -> Nat]
        BY <2>1, ShelfFacts
      <4>2. Plays(model, b) /\ ~(PartOf(model) = 1 /\ model.pos = 0)
        BY <3>1, <3>3, <4>1, PlayedPart DEF Begun
      <4>3. QED
        BY <3>1, <4>2 DEF Place
    <3>4. QED
      BY <2>1, <3>2, <3>3
  <2>2. QED
    BY <2>1 DEF CleanIsSafe
<1>4. QED
  BY <1>1, <1>2, <1>3, PTL DEF ShelfSpec

-----------------------------------------------------------------------------
(* Stations. *)

Requests == [seq : Nat, request : Lists \cup {"Categories"}]
Replies  == [seq : Nat, request : Lists \cup {"Categories"}, ok : BOOLEAN]
Asking   == Lists \cup {"Categories", "None"} \cup Local
Views    == [request : Asking, stations : SUBSET Station, loading : BOOLEAN, error : BOOLEAN,
             favorites : SUBSET Keys, now : Station \cup {Nobody}]
StationsTyped ==
  /\ view \in Views /\ sequence \in Nat /\ asked \subseteq Requests /\ replies \in Seq(Replies)
  /\ favorites \subseteq Station /\ file \subseteq Station
  /\ current \in Station \cup {Nobody} /\ list \subseteq Station

(* The requests: the latest one is on its way once, as a question or as its   *)
(* answer, and is for the list on screen unless that one was refused; a list  *)
(* shown is wrong only after a refusal, and then there is nothing to come and *)
(* nothing to try again.                                                      *)
LatestComes == (\E a \in asked : a.seq = sequence) \/ \E i \in DOMAIN replies : replies[i].seq = sequence
ComesOnce ==
  /\ \A a \in asked : a.seq <= sequence
  /\ \A i \in DOMAIN replies : replies[i].seq <= sequence
  /\ \A a, b \in asked : a.seq = b.seq => a = b
  /\ \A a \in asked, i \in DOMAIN replies : a.seq # replies[i].seq
  /\ \A i, j \in DOMAIN replies : replies[i].seq = replies[j].seq => i = j
LatestIsShown ==
  view.request \in Lists /\ ~refused =>
    /\ \A a \in asked : a.seq = sequence => a.request = view.request
    /\ \A i \in DOMAIN replies : replies[i].seq = sequence => replies[i].request = view.request
ShownIsRight ==
  view.request \in Lists /\ view.stations # {} /\ (~refused \/ view.error \/ LatestComes) =>
    KeysOf(view.stations) = Content[view.request]
NoneIsAsked == view.request = "None" => asked = {} /\ replies = <<>> /\ ~view.error
ErrorIsLast == view.error => ~LatestComes
RequestsInv == ComesOnce /\ LatestIsShown /\ ShownIsRight /\ ErrorIsLast /\ NoneIsAsked /\ LoadingHasAnAnswer

StationsInv == StationsTyped /\ RequestsInv /\ StarsAreSaved /\ NowIsHeard

LEMMA ListedKeys ==
  ASSUME NEW keys, keys \subseteq Keys, NEW fresh \in BOOLEAN
  PROVE  Listed(keys, fresh) \subseteq Station /\ KeysOf(Listed(keys, fresh)) = keys
<1>1. \A k \in keys : [key |-> k, fresh |-> fresh] \in Listed(keys, fresh) /\ [key |-> k, fresh |-> fresh].key = k
  BY DEF Listed
<1>2. QED
  BY <1>1 DEF Listed, KeysOf, Station

LEMMA FirstStations ==
  ASSUME StationsAssumption, StationsInit
  PROVE  StationsInv
<1>1. file \subseteq Station /\ KeysOf(file) = Starred0
  BY ListedKeys DEF StationsInit, StationsAssumption
<1>2. "None" \notin Lists
  BY DEF StationsAssumption
<1>3. StationsTyped
  <2>1. view \in Views
    BY DEF StationsInit, StationsAssumption, Views, Asking
  <2>2. replies \in Seq(Replies)
    <3>1. <<>> \in Seq(Replies)
      OBVIOUS
    <3>2. QED
      BY <3>1 DEF StationsInit
  <2>3. QED
    BY <1>1, <2>1, <2>2 DEF StationsInit, StationsTyped
<1>4. RequestsInv
  BY <1>2 DEF StationsInit, RequestsInv, ComesOnce, LatestIsShown, ShownIsRight, ErrorIsLast, NoneIsAsked, LoadingHasAnAnswer, LatestComes
<1>5. StarsAreSaved
  BY <1>1 DEF StationsInit, StarsAreSaved
<1>6. NowIsHeard
  BY DEF StationsInit, NowIsHeard
<1>7. QED
  BY <1>3, <1>4, <1>5, <1>6 DEF StationsInv

(* What a step leaves alone. *)
SameRequests == UNCHANGED <<sequence, asked, replies, refused>>
SameShown == /\ view'.request = view.request /\ view'.stations = view.stations
             /\ view'.loading = view.loading /\ view'.error = view.error
SameStars == UNCHANGED <<favorites, file, unsaved>> /\ view'.favorites = view.favorites
SameHeard == UNCHANGED <<queue, rolledBack, restored, current, list>> /\ view'.now = view.now

LEMMA StillAsked ==
  ASSUME RequestsInv, SameRequests, SameShown
  PROVE  RequestsInv'
BY DEF RequestsInv, SameRequests, SameShown, ComesOnce, LatestIsShown, ShownIsRight, ErrorIsLast, NoneIsAsked, LoadingHasAnAnswer,
       LatestComes, KeysOf

LEMMA StillSaved ==
  ASSUME StarsAreSaved, SameStars
  PROVE  StarsAreSaved'
BY DEF SameStars, StarsAreSaved, KeysOf

LEMMA StillHeard ==
  ASSUME NowIsHeard, SameHeard
  PROVE  NowIsHeard'
BY DEF SameHeard, NowIsHeard, KeysOf

(* A request of its own: it is the latest, and for the list now on screen. *)
LEMMA Asks ==
  ASSUME StationsAssumption, StationsTyped, RequestsInv, NEW request \in Lists \cup {"Categories"}, Spawned(request), UNCHANGED replies,
         view'.request = request, ~view'.error,
         request \in Lists /\ view'.stations # {} => KeysOf(view'.stations) = Content[request]
  PROVE  RequestsInv' /\ sequence' \in Nat /\ asked' \subseteq Requests
<1> DEFINE new == [seq |-> sequence + 1, request |-> request]
<1>1. /\ sequence \in Nat /\ sequence' = sequence + 1 /\ asked' = asked \cup {new} /\ ~refused'
      /\ request # "None" /\ new \in Requests /\ new.seq = sequence' /\ new.request = request /\ new \in asked'
  BY DEF StationsAssumption, StationsTyped, Spawned, Requests
<1>2. /\ \A a \in asked : a.seq \in Nat /\ a.seq <= sequence
      /\ \A i \in DOMAIN replies : replies[i] \in Replies /\ replies[i].seq \in Nat /\ replies[i].seq <= sequence
  <2>1. replies \in Seq(Replies) /\ asked \subseteq Requests
    BY DEF StationsTyped
  <2>2. \A i \in DOMAIN replies : replies[i] \in Replies
    BY <2>1
  <2>3. QED
    BY <2>1, <2>2 DEF RequestsInv, ComesOnce, Requests, Replies
<1> HIDE DEF new
<1>3. /\ \A a \in asked' : a = new \/ (a \in asked /\ a.seq < sequence')
      /\ \A i \in DOMAIN replies : replies[i].seq < sequence'
  <2>1. \A a \in asked : a.seq < sequence'
    BY <1>1, <1>2
  <2>2. \A i \in DOMAIN replies : replies[i].seq < sequence'
    BY <1>1, <1>2
  <2>3. QED
    BY <1>1, <2>1, <2>2
<1>4. ComesOnce'
  <2>1. ComesOnce /\ sequence' \in Nat /\ UNCHANGED replies
    BY <1>1 DEF RequestsInv
  <2>2. /\ \A a \in asked' : a.seq <= sequence'
        /\ \A i \in DOMAIN replies' : replies'[i].seq <= sequence'
    BY <1>1, <1>2, <2>1
  <2>3. \A a, b \in asked' : a.seq = b.seq => a = b
    BY <1>1, <1>2, <1>3, <2>1 DEF ComesOnce
  <2>4. \A a \in asked', i \in DOMAIN replies' : a.seq # replies'[i].seq
    BY <1>1, <1>2, <1>3, <2>1 DEF ComesOnce
  <2>5. QED
    BY <2>1, <2>2, <2>3, <2>4 DEF ComesOnce
<1>5. LatestIsShown' /\ ShownIsRight' /\ ErrorIsLast' /\ NoneIsAsked' /\ LoadingHasAnAnswer'
  BY <1>1, <1>3 DEF LatestIsShown, ShownIsRight, ErrorIsLast, NoneIsAsked, LoadingHasAnAnswer
<1>6. QED
  BY <1>1, <1>4, <1>5 DEF RequestsInv, StationsTyped

(* A request refused: the one before may still be answered. *)
LEMMA AsksInVain ==
  ASSUME RequestsInv, Refused, UNCHANGED replies, ~view'.error, view'.request # "None",
         view'.request \in Lists /\ view'.stations # {} => ~LatestComes
  PROVE  RequestsInv' /\ UNCHANGED <<sequence, asked>>
BY DEF RequestsInv, Refused, ComesOnce, LatestIsShown, ShownIsRight, ErrorIsLast, NoneIsAsked, LoadingHasAnAnswer, LatestComes

(* An answer comes, in whatever order. *)
LEMMA AnswerComes ==
  ASSUME StationsTyped, RequestsInv, NEW a \in asked, NEW ok \in BOOLEAN, Answers(a, ok)
  PROVE  RequestsInv' /\ asked' \subseteq Requests /\ replies' \in Seq(Replies)
<1> DEFINE answer == [seq |-> a.seq, request |-> a.request, ok |-> ok]
<1>1. /\ replies \in Seq(Replies) /\ asked \subseteq Requests /\ a \in Requests /\ a.seq \in Nat
      /\ answer \in Replies /\ answer.seq = a.seq /\ answer.request = a.request
      /\ asked' = asked \ {a} /\ replies' = Append(replies, answer)
      /\ UNCHANGED <<view, sequence, refused>>
  BY DEF StationsTyped, Answers, Requests, Replies
<1> HIDE DEF answer
<1>2. /\ replies' \in Seq(Replies) /\ Len(replies) \in Nat /\ DOMAIN replies = 1..Len(replies)
      /\ DOMAIN replies' = 1..(Len(replies) + 1)
      /\ replies'[Len(replies) + 1] = answer /\ \A i \in DOMAIN replies : replies'[i] = replies[i]
  BY <1>1
<1>3. /\ \A i \in DOMAIN replies' : \/ i \in DOMAIN replies /\ replies'[i] = replies[i]
                                    \/ i \notin DOMAIN replies /\ i = Len(replies) + 1 /\ replies'[i] = answer
      /\ \A i \in DOMAIN replies : i \in DOMAIN replies'
      /\ Len(replies) + 1 \in DOMAIN replies'
  <2>1. \A i \in 1..(Len(replies) + 1) : i \in 1..Len(replies) \/ (i \notin 1..Len(replies) /\ i = Len(replies) + 1)
    BY <1>2
  <2>2. /\ \A i \in 1..Len(replies) : i \in 1..(Len(replies) + 1)
        /\ Len(replies) + 1 \in 1..(Len(replies) + 1)
    BY <1>2
  <2>3. QED
    BY <1>2, <2>1, <2>2
<1>4. ComesOnce'
  <2>1. ComesOnce /\ UNCHANGED sequence
    BY <1>1 DEF RequestsInv
  <2>2. /\ \A b \in asked' : b.seq <= sequence'
        /\ \A i \in DOMAIN replies' : replies'[i].seq <= sequence'
    BY <1>1, <1>3, <2>1 DEF ComesOnce
  <2>3. \A b, c \in asked' : b.seq = c.seq => b = c
    BY <1>1, <2>1 DEF ComesOnce
  <2>4. \A b \in asked', i \in DOMAIN replies' : b.seq # replies'[i].seq
    BY <1>1, <1>3, <2>1 DEF ComesOnce
  <2>5. \A i, j \in DOMAIN replies' : replies'[i].seq = replies'[j].seq => i = j
    BY <1>1, <1>3, <2>1 DEF ComesOnce
  <2>6. QED
    BY <2>2, <2>3, <2>4, <2>5 DEF ComesOnce
<1>5. LatestComes' <=> LatestComes
  BY <1>1, <1>2, <1>3 DEF LatestComes
<1>6. LatestIsShown'
  BY <1>1, <1>3 DEF RequestsInv, LatestIsShown
<1>7. QED
  BY <1>1, <1>2, <1>4, <1>5, <1>6 DEF RequestsInv, ShownIsRight, ErrorIsLast, NoneIsAsked, LoadingHasAnAnswer, LatestComes, KeysOf

(* The favourites renewed are the same ones. *)
LEMMA RenewedAreSame ==
  ASSUME favorites \subseteq Station, NEW keys
  PROVE  Renewed(keys) \subseteq Station /\ KeysOf(Renewed(keys)) = KeysOf(favorites)
<1>1. ASSUME NEW f \in favorites
      PROVE  /\ (IF f.key \in keys \ Own THEN [f EXCEPT !.fresh = TRUE] ELSE f) \in Station
             /\ (IF f.key \in keys \ Own THEN [f EXCEPT !.fresh = TRUE] ELSE f).key = f.key
  BY DEF Station
<1>2. QED
  BY <1>1 DEF Renewed, KeysOf

(* The first answer is taken, of whichever request it is. *)
LEMMA AnswerTaken ==
  ASSUME StationsAssumption, StationsTyped, RequestsInv, StarsAreSaved, NEW saved \in BOOLEAN, TakeReply(saved)
  PROVE  RequestsInv' /\ StarsAreSaved' /\ StationsTyped' /\ view'.now = view.now
<1> DEFINE r == Head(replies)
           sent == IF r.request \in Lists THEN Content[r.request] ELSE {}
<1>1. /\ replies \in Seq(Replies) /\ replies # <<>> /\ view \in Views /\ favorites \subseteq Station /\ file \subseteq Station
      /\ replies' = Tail(replies) /\ UNCHANGED <<sequence, asked, refused, unsaved, current, list>>
  BY DEF StationsTyped, TakeReply
<1>2. /\ replies' \in Seq(Replies) /\ Len(replies) \in Nat \ {0} /\ DOMAIN replies = 1..Len(replies)
      /\ DOMAIN replies' = 1..(Len(replies) - 1) /\ r = replies[1] /\ 1 \in DOMAIN replies
      /\ \A i \in DOMAIN replies' : i + 1 \in DOMAIN replies /\ i + 1 # 1 /\ replies'[i] = replies[i + 1]
      /\ \A i \in DOMAIN replies : i # 1 => i - 1 \in DOMAIN replies' /\ replies'[i - 1] = replies[i]
      /\ r \in Replies
  BY <1>1
<1>3. sent \subseteq Keys
  BY DEF StationsAssumption
<1>4. PICK renewed : renewed = Renewed(sent) /\ renewed \subseteq Station /\ KeysOf(renewed) = KeysOf(favorites)
  BY <1>1, RenewedAreSame
<1>5. PICK listed : listed = Listed(sent, TRUE) /\ listed \subseteq Station /\ KeysOf(listed) = sent
  BY <1>3, ListedKeys
<1>6. r.ok \in BOOLEAN /\ r.request \in Lists \cup {"Categories"}
  BY <1>2 DEF Replies
<1>7. /\ ~IsLatest(r) => UNCHANGED <<view, favorites, file>>
      /\ IsLatest(r) =>
           /\ favorites' = IF r.ok THEN renewed ELSE favorites
           /\ file' = IF r.ok /\ renewed # favorites /\ saved THEN renewed ELSE file
           /\ view' = [view EXCEPT !.stations = IF r.ok /\ r.request \in Lists THEN listed ELSE @,
                                   !.loading = FALSE, !.error = ~r.ok]
  BY <1>4, <1>5 DEF TakeReply
<1>8. ComesOnce' /\ (IsLatest(r) => ~LatestComes') /\ (~IsLatest(r) => (LatestComes' <=> LatestComes))
  <2>1. ComesOnce
    BY DEF RequestsInv
  <2>2. ComesOnce'
    <3>1. /\ \A a \in asked' : a.seq <= sequence'
          /\ \A i \in DOMAIN replies' : replies'[i].seq <= sequence'
          /\ \A a, b \in asked' : a.seq = b.seq => a = b
          /\ \A a \in asked', i \in DOMAIN replies' : a.seq # replies'[i].seq
      BY <1>1, <1>2, <2>1 DEF ComesOnce
    <3>2. \A i, j \in DOMAIN replies' : replies'[i].seq = replies'[j].seq => i + 1 = j + 1
      BY <1>2, <2>1 DEF ComesOnce
    <3>3. \A i, j \in DOMAIN replies' : i + 1 = j + 1 => i = j
      BY <1>2
    <3>4. QED
      BY <3>1, <3>2, <3>3 DEF ComesOnce
  <2>3. ASSUME IsLatest(r) PROVE ~LatestComes'
    BY <1>1, <1>2, <2>1, <2>3 DEF ComesOnce, IsLatest, LatestComes
  <2>4. ASSUME ~IsLatest(r) PROVE LatestComes' <=> LatestComes
    BY <1>1, <1>2, <2>4 DEF IsLatest, LatestComes
  <2>5. QED
    BY <2>2, <2>3, <2>4
<1> HIDE DEF r, sent
<1>9. CASE ~IsLatest(r)
  <2>1. LatestIsShown'
    BY <1>1, <1>2, <1>7, <1>9 DEF RequestsInv, LatestIsShown
  <2>2. RequestsInv'
    BY <1>1, <1>7, <1>8, <1>9, <2>1 DEF RequestsInv, ShownIsRight, ErrorIsLast, NoneIsAsked, LoadingHasAnAnswer, LatestComes, KeysOf
  <2>3. QED
    BY <1>1, <1>2, <1>7, <1>9, <2>2 DEF StarsAreSaved, StationsTyped, KeysOf
<1>10. CASE IsLatest(r)
  <2>1. /\ view' \in Views /\ view'.loading = FALSE /\ view'.error = ~r.ok /\ view'.request = view.request
        /\ view'.stations = (IF r.ok /\ r.request \in Lists THEN listed ELSE view.stations)
        /\ view'.favorites = view.favorites /\ view'.now = view.now
    BY <1>1, <1>5, <1>6, <1>7, <1>10 DEF Views
  <2>2. StationsTyped'
    BY <1>1, <1>2, <1>4, <1>7, <1>10, <2>1 DEF StationsTyped
  <2>3. StarsAreSaved'
    BY <1>1, <1>4, <1>7, <1>10, <2>1 DEF StarsAreSaved
  <2>4. LatestIsShown'
    BY <1>1, <1>2, <2>1 DEF RequestsInv, LatestIsShown
  <2>5. ShownIsRight'
    <3>1. SUFFICES ASSUME view'.request \in Lists, view'.stations # {}, ~refused \/ ~r.ok
                   PROVE  KeysOf(view'.stations) = Content[view.request]
      BY <1>1, <1>8, <1>10, <2>1 DEF ShownIsRight, KeysOf
    <3>2. LatestComes
      BY <1>2, <1>10 DEF LatestComes, IsLatest
    <3>3. CASE r.ok /\ r.request \in Lists
      BY <1>2, <1>5, <1>10, <2>1, <3>1, <3>3 DEF RequestsInv, LatestIsShown, IsLatest, sent
    <3>4. CASE ~(r.ok /\ r.request \in Lists)
      BY <2>1, <3>1, <3>2, <3>4 DEF RequestsInv, ShownIsRight
    <3>5. QED
      BY <3>3, <3>4
  <2>6. ErrorIsLast' /\ NoneIsAsked' /\ LoadingHasAnAnswer'
    BY <1>1, <1>8, <1>10, <2>1 DEF RequestsInv, ErrorIsLast, NoneIsAsked, LoadingHasAnAnswer
  <2>7. QED
    BY <1>8, <2>1, <2>2, <2>3, <2>4, <2>5, <2>6 DEF RequestsInv
<1>11. QED
  BY <1>9, <1>10

(* A station is started, at once, later or not at all. *)
LEMMA Starts ==
  ASSUME StationsTyped, NowIsHeard, Free, NEW s \in Station, NEW outcome \in Outcomes, PlayRadio(s, outcome)
  PROVE  /\ NowIsHeard' /\ SameShown /\ view' \in Views /\ view'.favorites = view.favorites
         /\ current' \in Station \cup {Nobody} /\ list' \subseteq Station
<1>1. /\ view \in Views /\ view' = [view EXCEPT !.now = s] /\ list' = ListFor(s) /\ list \subseteq Station
      /\ current \in Station \cup {Nobody}
  BY DEF StationsTyped, PlayRadio
<1>2. view' \in Views /\ SameShown /\ view'.favorites = view.favorites /\ view'.now = s
  BY <1>1 DEF Views, SameShown
<1>3. list' \subseteq Station /\ (list' = {} \/ s.key \in KeysOf(list'))
  BY <1>1 DEF ListFor, Views
<1>4. ~start.on
  BY DEF Free
<1>5. CASE outcome = "fails"
  BY <1>1, <1>2, <1>3, <1>4, <1>5 DEF PlayRadio, NowIsHeard
<1>6. CASE outcome # "fails"
  <2>1. queue' = s.key /\ current' = s /\ ~rolledBack' /\ ~restored'
    BY <1>6 DEF PlayRadio, Outcomes
  <2>2. QED
    BY <1>2, <1>3, <2>1 DEF NowIsHeard, KeysOf
<1>7. QED
  BY <1>5, <1>6

(* A favourite is put on the list or off. *)
LEMMA Toggles ==
  ASSUME StationsAssumption, StationsTyped, StarsAreSaved, RequestsInv, NEW s \in Station, NEW saved \in BOOLEAN,
         Toggle(s, saved), ToggleRest
  PROVE  StationsTyped' /\ StarsAreSaved' /\ RequestsInv' /\ SameHeard
<1>1. /\ view \in Views /\ favorites \subseteq Station /\ file \subseteq Station
      /\ UNCHANGED <<sequence, asked, replies, current, list, queue, refused, rolledBack, restored>>
  BY DEF StationsTyped, ToggleRest, Rest
<1>2. PICK toggled : toggled = Toggled(s) /\ toggled \subseteq Station
  BY <1>1 DEF Toggled
<1>3. KeysOf(toggled) \subseteq Keys
  BY <1>2 DEF KeysOf, Station
<1>4. /\ favorites' = toggled /\ file' = (IF saved THEN toggled ELSE file) /\ unsaved' = ~saved
      /\ view' = IF saved
                   THEN [view EXCEPT !.favorites = KeysOf(toggled),
                                     !.stations = IF view.request = "Favorites" THEN toggled ELSE @]
                   ELSE view
  BY <1>2 DEF Toggle
<1>5. /\ view' \in Views /\ view'.request = view.request /\ view'.loading = view.loading
      /\ view'.error = view.error /\ view'.now = view.now
      /\ view.request \in Lists => view'.stations = view.stations
      /\ saved => view'.favorites = KeysOf(toggled)
  <2>1. "Favorites" \notin Lists
    BY DEF StationsAssumption
  <2>2. QED
    BY <1>1, <1>2, <1>3, <1>4, <2>1 DEF Views
<1>6. StationsTyped'
  BY <1>1, <1>2, <1>4, <1>5 DEF StationsTyped
<1>7. StarsAreSaved'
  BY <1>4, <1>5 DEF StarsAreSaved
<1>8. RequestsInv'
  BY <1>1, <1>5 DEF RequestsInv, ComesOnce, LatestIsShown, ShownIsRight, ErrorIsLast, NoneIsAsked, LoadingHasAnAnswer, LatestComes,
       KeysOf
<1>9. QED
  BY <1>1, <1>5, <1>6, <1>7, <1>8 DEF SameHeard

(* Lists are opened, asked for and here at once. *)
LEMMA Opens ==
  ASSUME StationsAssumption, StationsInv,
         \/ \E request \in Lists : OpenList(request)
         \/ OpenCategories \/ Retry \/ \E request \in Local : OpenLocal(request)
  PROVE  StationsInv'
<1>0. /\ StationsTyped /\ RequestsInv /\ StarsAreSaved /\ NowIsHeard /\ view \in Views /\ favorites \subseteq Station
      /\ file \subseteq Station /\ current \in Station \cup {Nobody} /\ list \subseteq Station
      /\ sequence \in Nat /\ asked \subseteq Requests /\ replies \in Seq(Replies)
      /\ "Categories" \notin Lists /\ "None" \notin Lists /\ "Own" \notin Lists /\ "Favorites" \notin Lists
  BY DEF StationsInv, StationsTyped, StationsAssumption
<1> DEFINE Untouched == UNCHANGED <<favorites, file, current, list, queue, unsaved, rolledBack, restored, replies>>
           OnScreen == view'.favorites = view.favorites /\ view'.now = view.now /\ view' \in Views
<1>1. ASSUME RequestsInv', sequence' \in Nat, asked' \subseteq Requests, Untouched, OnScreen PROVE StationsInv'
  <2>1. SameStars /\ SameHeard
    BY <1>1 DEF SameStars, SameHeard
  <2>2. StationsTyped'
    BY <1>0, <1>1 DEF StationsTyped
  <2>3. QED
    BY <1>0, <1>1, <2>1, <2>2, StillSaved, StillHeard DEF StationsInv
<1>2. ASSUME NEW request \in Lists, OpenList(request) PROVE StationsInv'
  <2>1. view' = Awaits(request, {}) /\ Untouched /\ (Spawned(request) \/ Refused)
    BY <1>2 DEF OpenList, Rest
  <2>2. OnScreen /\ view'.request = request /\ ~view'.error /\ view'.stations = {}
    BY <1>0, <2>1 DEF Awaits, Views, Asking
  <2>3. CASE Spawned(request)
    BY <1>0, <1>1, <2>1, <2>2, <2>3, Asks
  <2>4. CASE Refused
    BY <1>0, <1>1, <2>1, <2>2, <2>4, AsksInVain
  <2>5. QED
    BY <2>1, <2>3, <2>4
<1>3. ASSUME OpenCategories PROVE StationsInv'
  <2>1. view' = Awaits("Categories", view.stations) /\ Untouched /\ (Spawned("Categories") \/ Refused)
    BY <1>3 DEF OpenCategories, Rest
  <2>2. OnScreen /\ view'.request = "Categories" /\ ~view'.error
    BY <1>0, <2>1 DEF Awaits, Views, Asking
  <2>3. CASE Spawned("Categories")
    BY <1>0, <1>1, <2>1, <2>2, <2>3, Asks
  <2>4. CASE Refused
    BY <1>0, <1>1, <2>1, <2>2, <2>4, AsksInVain
  <2>5. QED
    BY <2>1, <2>3, <2>4
<1>4. ASSUME Retry PROVE StationsInv'
  <2>1. /\ view' = [view EXCEPT !.loading = TRUE, !.error = FALSE] /\ Untouched /\ view.error
        /\ (Spawned(view.request) \/ Refused)
    BY <1>4 DEF Retry, Rest
  <2>2. OnScreen /\ view'.request = view.request /\ ~view'.error /\ view'.stations = view.stations
    BY <1>0, <2>1 DEF Views
  <2>3. view.request \in Lists \cup {"Categories"}
    BY <1>0, <1>4 DEF Retry, Views, Asking, RequestsInv, NoneIsAsked
  <2>4. /\ view.request \in Lists /\ view.stations # {} => KeysOf(view.stations) = Content[view.request]
        /\ ~LatestComes
    BY <1>0, <2>1 DEF RequestsInv, ShownIsRight, ErrorIsLast
  <2>5. CASE Spawned(view.request)
    BY <1>0, <1>1, <2>1, <2>2, <2>3, <2>4, <2>5, Asks
  <2>6. CASE Refused
    BY <1>0, <1>1, <2>1, <2>2, <2>3, <2>4, <2>6, AsksInVain
  <2>7. QED
    BY <2>1, <2>5, <2>6
<1>5. ASSUME NEW request \in Local, OpenLocal(request) PROVE StationsInv'
  <2>1. Untouched /\ UNCHANGED <<sequence, asked>>
    BY <1>5 DEF OpenLocal, Rest
  <2>2. Held(request) \subseteq Station
    <3>1. Own \subseteq Keys
      BY DEF StationsAssumption
    <3>2. QED
      BY <1>0, <3>1, ListedKeys DEF Held
  <2>3. OnScreen /\ view'.request = request /\ ~view'.error /\ (view'.loading => refused')
    BY <1>0, <1>5, <2>2 DEF OpenLocal, Awaits, Shows, Views, Asking
  <2>4. RequestsInv'
    BY <1>0, <2>1, <2>3 DEF RequestsInv, ComesOnce, LatestIsShown, ShownIsRight, ErrorIsLast, NoneIsAsked, LoadingHasAnAnswer, Local
  <2>5. QED
    BY <1>0, <1>1, <2>1, <2>3, <2>4
<1>6. QED
  BY <1>2, <1>3, <1>4, <1>5

LEMMA StationsSteps ==
  ASSUME StationsAssumption, StationsInv, [StationsNext]_radioVars
  PROVE  StationsInv'
<1>0. /\ StationsTyped /\ RequestsInv /\ StarsAreSaved /\ NowIsHeard /\ view \in Views /\ favorites \subseteq Station
      /\ file \subseteq Station /\ current \in Station \cup {Nobody} /\ list \subseteq Station
      /\ sequence \in Nat /\ asked \subseteq Requests /\ replies \in Seq(Replies)
  BY DEF StationsInv, StationsTyped
<1>1. ASSUME SameRequests, SameShown, view' \in Views, SameStars, NowIsHeard', current' \in Station \cup {Nobody},
             list' \subseteq Station
      PROVE  StationsInv'
  <2>1. StationsTyped'
    BY <1>0, <1>1 DEF StationsTyped, SameRequests, SameStars
  <2>2. QED
    BY <1>0, <1>1, <2>1, StillAsked, StillSaved DEF StationsInv
<1>2. ASSUME NEW a \in asked, NEW ok \in BOOLEAN, Answers(a, ok) PROVE StationsInv'
  <2>1. /\ UNCHANGED <<view, sequence, favorites, file, current, list, queue, unsaved, rolledBack, restored>>
        /\ RequestsInv' /\ asked' \subseteq Requests /\ replies' \in Seq(Replies)
    BY <1>0, <1>2, AnswerComes DEF Answers, Rest
  <2>2. StationsTyped' /\ SameStars /\ SameHeard
    BY <1>0, <2>1 DEF StationsTyped, SameStars, SameHeard
  <2>3. QED
    BY <1>0, <2>1, <2>2, StillSaved, StillHeard DEF StationsInv
<1>3. ASSUME NEW saved \in BOOLEAN, TakeReply(saved) PROVE StationsInv'
  <2>1. RequestsInv' /\ StarsAreSaved' /\ StationsTyped' /\ view'.now = view.now
    BY <1>0, <1>3, AnswerTaken
  <2>2. SameHeard
    BY <1>3, <2>1 DEF TakeReply, Rest, SameHeard
  <2>3. QED
    BY <1>0, <2>1, <2>2, StillHeard DEF StationsInv
<1>4. ASSUME NEW saved \in BOOLEAN, ToggleRow(saved) \/ ToggleCurrent(saved) PROVE StationsInv'
  <2>1. PICK s \in Station : Toggle(s, saved) /\ ToggleRest
    <3>1. CASE ToggleRow(saved)
      BY <1>0, <3>1 DEF ToggleRow, Views
    <3>2. CASE ToggleCurrent(saved)
      BY <1>0, <3>2 DEF ToggleCurrent
    <3>3. QED
      BY <1>4, <3>1, <3>2
  <2>2. QED
    BY <1>0, <2>1, Toggles, StillHeard DEF StationsInv
<1>5. ASSUME RadioTick PROVE StationsInv'
  <2>1. view' \in Views /\ SameShown /\ view'.favorites = view.favorites
    BY <1>0, <1>5 DEF RadioTick, Views, SameShown
  <2>2. NowIsHeard'
    BY <1>0, <1>5 DEF RadioTick, Rest, NowIsHeard
  <2>3. QED
    BY <1>0, <1>1, <1>5, <2>1, <2>2 DEF RadioTick, SameRequests, SameStars
<1>6. ASSUME OpenMenu \/ CloseMenu PROVE StationsInv'
  <2>1. SameHeard /\ SameShown /\ SameStars /\ SameRequests /\ UNCHANGED <<view, current, list>>
    BY <1>6 DEF OpenMenu, CloseMenu, Rest, SameHeard, SameShown, SameStars, SameRequests
  <2>2. QED
    BY <1>0, <1>1, <2>1, StillHeard
<1>7. ASSUME PlaySong PROVE StationsInv'
  <2>1. SameShown /\ SameStars /\ SameRequests /\ UNCHANGED <<view, current, list>>
    BY <1>7 DEF PlaySong, PlayTurn, SameShown, SameStars, SameRequests
  <2>2. NowIsHeard'
    BY <1>0, <1>7 DEF PlaySong, NowIsHeard
  <2>3. QED
    BY <1>0, <1>1, <2>1, <2>2
<1>8. ASSUME RestartRadio PROVE StationsInv'
  <2>1. /\ favorites' = file /\ UNCHANGED file /\ asked' = {} /\ replies' = <<>> /\ sequence' = 0
        /\ current' = Nobody /\ list' = {} /\ restored' = (queue' \notin {None, Music}) /\ ~rolledBack'
        /\ view' = [request |-> "None", stations |-> {}, loading |-> FALSE, error |-> FALSE,
                    favorites |-> KeysOf(file), now |-> Nobody]
    BY <1>8 DEF RestartRadio
  <2>2. KeysOf(file) \subseteq Keys
    BY <1>0 DEF KeysOf, Station
  <2>3. view' \in Views
    BY <2>1, <2>2 DEF Views, Asking
  <2>4. <<>> \in Seq(Replies)
    OBVIOUS
  <2>5. StationsTyped'
    BY <1>0, <2>1, <2>3, <2>4 DEF StationsTyped
  <2>6. RequestsInv'
    <3>1. "None" \notin Lists
      BY DEF StationsAssumption
    <3>2. QED
      BY <2>1, <3>1 DEF RequestsInv, ComesOnce, LatestIsShown, ShownIsRight, ErrorIsLast, NoneIsAsked,
         LoadingHasAnAnswer, LatestComes
  <2>7. StarsAreSaved' /\ NowIsHeard'
    BY <2>1 DEF StarsAreSaved, KeysOf, NowIsHeard
  <2>8. QED
    BY <2>5, <2>6, <2>7 DEF StationsInv
<1>9. ASSUME NEW outcome \in Outcomes,
             \/ PlayRow(outcome) \/ \E s \in Station : PlayStation(s, outcome)
             \/ \E next \in BOOLEAN : Zap(next, outcome)
      PROVE  StationsInv'
  <2>1. SameRequests /\ UNCHANGED <<favorites, file, unsaved>> /\ Free
    BY <1>9 DEF PlayRow, PlayStation, Zap, PlayTurn, SameRequests
  <2>2. PICK s \in Station : PlayRadio(s, outcome)
    <3>1. CASE PlayRow(outcome)
      BY <1>0, <3>1 DEF PlayRow, Views
    <3>2. CASE \E s \in Station : PlayStation(s, outcome)
      BY <3>2 DEF PlayStation
    <3>3. CASE \E next \in BOOLEAN : Zap(next, outcome)
      BY <1>0, <3>3 DEF Zap
    <3>4. QED
      BY <1>9, <3>1, <3>2, <3>3
  <2>3. QED
    BY <1>0, <1>1, <2>1, <2>2, Starts DEF SameStars
<1>10. ASSUME NEW kept \in BOOLEAN, StartEnds(kept) PROVE StationsInv'
  <2>1. SameShown /\ SameStars /\ SameRequests /\ UNCHANGED <<view, current, list>>
    BY <1>10 DEF StartEnds, PlayTurn, SameShown, SameStars, SameRequests
  <2>2. NowIsHeard'
    BY <1>0, <1>10 DEF StartEnds, NowIsHeard, KeysOf
  <2>3. QED
    BY <1>0, <1>1, <2>1, <2>2
<1>11. ASSUME PlayCurrent \/ SaveSession PROVE StationsInv'
  <2>1. SameHeard /\ SameShown /\ SameStars /\ SameRequests /\ UNCHANGED <<view, current, list>>
    BY <1>11 DEF PlayCurrent, SaveSession, PlayTurn, SameHeard, SameShown, SameStars, SameRequests
  <2>2. QED
    BY <1>0, <1>1, <2>1, StillHeard
<1>12. ASSUME UNCHANGED radioVars PROVE StationsInv'
  <2>1. SameHeard /\ SameShown /\ SameStars /\ SameRequests /\ UNCHANGED <<view, current, list>>
    BY <1>12 DEF radioVars, SameHeard, SameShown, SameStars, SameRequests
  <2>2. QED
    BY <1>0, <1>1, <2>1, StillHeard
<1>13. CASE StationsNext
  BY <1>2, <1>3, <1>4, <1>5, <1>6, <1>7, <1>8, <1>9, <1>10, <1>11, <1>13, Opens DEF StationsNext
<1>14. QED
  BY <1>12, <1>13

(* StationsAgree: a list of the directory on screen is the one asked for last (ListIsAsked:*)
(* radio_reply compares the number of the request), a page that loads has its answer       *)
(* coming (LoadingHasAnAnswer), the stars are those of the memory and of the file unless   *)
(* the user was told of a failed write (StarsAreSaved: toggle_favorite), and the station   *)
(* shown is the one that plays and that Previous and Next go on from (NowIsHeard:          *)
(* play_radio); for any directory, any number of requests answered in any order and failed *)
(* writes, except after a refused request and a start that was rolled back.  After a       *)
(* restart, with the session's station in the queue again, nothing is shown and Previous   *)
(* and Next have no list, until a station is chosen.                                       *)
THEOREM StationsAgreed ==
  ASSUME StationsAssumption
  PROVE  StationsSpec => []StationsAgree
<1>1. StationsInit => StationsInv
  BY FirstStations
<1>2. StationsInv /\ [StationsNext]_radioVars => StationsInv'
  BY StationsSteps, Zenon
<1>3. StationsInv => StationsAgree
  BY DEF StationsInv, RequestsInv, NowIsHeard, StationsAgree, ListIsAsked, ShownIsRight
<1>4. QED
  BY <1>1, <1>2, <1>3, PTL DEF StationsSpec

-----------------------------------------------------------------------------
(* The play queue. *)

(* Of numbers there is a least, and a greatest if they are bounded. *)
LEMMA LeastNumber ==
  ASSUME NEW S \in SUBSET Nat, S # {}
  PROVE  Min(S) \in S /\ \A x \in S : Min(S) <= x
<1> DEFINE R == OpToRel(<, Nat)
<1>1. IsWellFoundedOn(R, Nat)
  BY NatLessThanWellFounded
<1>2. PICK k \in S : \A l \in S : <<l, k>> \notin R
  <2> HIDE DEF R
  <2>1. QED
    BY <1>1, WFMin
<1>3. \A x \in S : ~(x < k)
  BY <1>2 DEF OpToRel
<1>4. \A x \in S : k <= x
  BY <1>3
<1>5. QED
  BY <1>4 DEF Min
LEMMA GreatestNumber ==
  ASSUME NEW S \in SUBSET Nat, S # {}, NEW b \in Nat, \A x \in S : x <= b
  PROVE  Max(S) \in S /\ \A x \in S : x <= Max(S)
<1> DEFINE T == {u \in Nat : \A x \in S : x <= u}
<1>1. Min(T) \in T /\ \A u \in T : Min(T) <= u
  <2>1. T \in SUBSET Nat /\ b \in T
    OBVIOUS
  <2> HIDE DEF T
  <2>2. QED
    BY <2>1, LeastNumber
<1>2. Min(T) \in S
  <2>1. PICK x \in S : x >= Min(T)
    <3>1. CASE Min(T) = 0
      <4>1. \A x \in S : x >= 0
        OBVIOUS
      <4>2. QED
        BY <3>1, <4>1
    <3>2. CASE Min(T) # 0
      <4>1. Min(T) - 1 \in Nat /\ Min(T) - 1 \notin T
        BY <1>1, <3>2
      <4>2. QED
        BY <1>1, <4>1
    <3>3. QED
      BY <3>1, <3>2
  <2>2. x = Min(T)
    BY <1>1, <2>1
  <2>3. QED
    BY <2>2
<1>3. \E x \in S : \A y \in S : y <= x
  BY <1>1, <1>2
<1>4. QED
  BY <1>3 DEF Max
LEMMA BoundedSequence ==
  ASSUME NEW n \in Nat, NEW f \in [1..n -> Nat]
  PROVE  \E b \in Nat : \A i \in 1..n : f[i] <= b
<1> DEFINE K == {k \in 0..n : ~\E b \in Nat : \A i \in 1..k : f[i] <= b}
<1>2. SUFFICES ASSUME K # {}
               PROVE  FALSE
  <2>1. n \in 0..n
    OBVIOUS
  <2>2. QED
    BY <2>1
<1>3. Min(K) \in K /\ \A k \in K : Min(K) <= k
  <2>1. K \in SUBSET Nat
    OBVIOUS
  <2> HIDE DEF K
  <2>2. QED
    BY <1>2, <2>1, LeastNumber
<1>4. PICK k : k \in K /\ \A l \in K : k <= l
  BY <1>3
<1>5. k # 0
  <2>1. \A i \in 1..0 : f[i] <= 0
    OBVIOUS
  <2>2. QED
    BY <1>4, <2>1
<1>6. PICK b \in Nat : \A i \in 1 .. k - 1 : f[i] <= b
  <2>1. k - 1 \in 0..n /\ ~(k <= k - 1)
    BY <1>4, <1>5
  <2> DEFINE before == k - 1
  <2>3. before \in 0..n /\ before \notin K
    <3> HIDE DEF K
    <3>1. QED
      BY <1>4, <2>1
  <2>4. \E b \in Nat : \A i \in 1..before : f[i] <= b
    <3> HIDE DEF before
    <3>1. QED
      BY <2>3
  <2>5. QED
    BY <2>4
<1>7. \A i \in 1..k : f[i] <= (IF f[k] < b THEN b ELSE f[k])
  <2>1. k \in 1..n /\ f[k] \in Nat
    BY <1>4, <1>5
  <2>2. SUFFICES ASSUME NEW i \in 1..k
                 PROVE  f[i] <= (IF f[k] < b THEN b ELSE f[k])
    OBVIOUS
  <2>3. CASE i = k
    BY <2>1, <2>3
  <2>4. CASE i # k
    <3>1. i \in 1 .. k - 1 /\ i \in 1..n
      BY <2>1, <2>4
    <3>2. f[i] <= b /\ f[i] \in Nat
      BY <1>6, <3>1
    <3>3. QED
      BY <2>1, <3>2
  <2>5. QED
    BY <2>3, <2>4
<1>8. (IF f[k] < b THEN b ELSE f[k]) \in Nat
  BY <1>4, <1>5
<1>9. QED
  BY <1>4, <1>7, <1>8

(* A sorted set: each of it once, by the key, equals in their own order. *)
Sorts(s, S, key) ==
  /\ s \in [1..Cardinality(S) -> S]
  /\ \A i \in S : \E n \in DOMAIN s : s[n] = i
  /\ \A a, b \in DOMAIN s : a < b => key[s[a]] < key[s[b]] \/ (key[s[a]] = key[s[b]] /\ s[a] < s[b])
  /\ \A a, b \in DOMAIN s : s[a] = s[b] => a = b
Earlier(S, key, i) == {j \in S : key[j] < key[i] \/ (key[j] = key[i] /\ j < i)}

LEMMA ArrangedSorts ==
  ASSUME NEW S \in SUBSET Nat, IsFiniteSet(S), NEW key \in [S -> Int]
  PROVE  /\ Sorts(Arranged(S, key), S, key)
         /\ \A n \in 1..Cardinality(S) : Cardinality(Earlier(S, key, Arranged(S, key)[n])) = n - 1
<1> DEFINE B(i) == Earlier(S, key, i)
<1> DEFINE n == Cardinality(S)
<1>1. n \in Nat
  BY FS_CardinalityType
<1>2. \A i \in S : IsFiniteSet(B(i)) /\ Cardinality(B(i)) \in 0 .. n - 1
  <2>1. SUFFICES ASSUME NEW i \in S
                 PROVE  IsFiniteSet(B(i)) /\ Cardinality(B(i)) \in 0 .. n - 1
    OBVIOUS
  <2>2. B(i) \in SUBSET (S \ {i})
    <3>1. key[i] \in Int /\ i \in Nat
      OBVIOUS
    <3>2. QED
      BY <3>1 DEF Earlier
  <2>3. IsFiniteSet(S \ {i}) /\ Cardinality(S \ {i}) = n - 1
    BY FS_RemoveElement
  <2>4. IsFiniteSet(B(i)) /\ Cardinality(B(i)) <= n - 1
    BY <2>2, <2>3, FS_Subset
  <2>5. QED
    BY <2>4, <1>1, FS_CardinalityType
<1>3. \A i, j \in S : i \in B(j) => Cardinality(B(i)) < Cardinality(B(j))
  <2>1. SUFFICES ASSUME NEW i \in S, NEW j \in S, i \in B(j)
                 PROVE  Cardinality(B(i)) < Cardinality(B(j))
    OBVIOUS
  <2>2. B(i) \in SUBSET B(j) /\ i \notin B(i)
    <3>1. \A k \in S : key[k] \in Int /\ k \in Nat
      OBVIOUS
    <3>2. key[i] < key[j] \/ (key[i] = key[j] /\ i < j)
      BY <2>1 DEF Earlier
    <3>3. \A k \in S : key[k] < key[i] \/ (key[k] = key[i] /\ k < i)
                     => key[k] < key[j] \/ (key[k] = key[j] /\ k < j)
      BY <3>1, <3>2
    <3>4. ~(key[i] < key[i]) /\ ~(i < i)
      BY <3>1
    <3>5. QED
      BY <3>3, <3>4 DEF Earlier
  <2>3. Cardinality(B(i)) <= Cardinality(B(j)) /\ Cardinality(B(i)) # Cardinality(B(j))
    BY <1>2, <2>1, <2>2, FS_Subset
  <2>4. QED
    BY <1>2, <2>3
<1>4. \A i, j \in S : i # j => i \in B(j) \/ j \in B(i)
  BY DEF Earlier
<1> DEFINE f == [i \in S |-> Cardinality(B(i)) + 1]
<1>5. f \in Injection(S, 1..n)
  <2>1. f \in [S -> 1..n]
    BY <1>1, <1>2
  <2>2. \A i, j \in S : f[i] = f[j] => i = j
    BY <1>2, <1>3, <1>4
  <2>3. QED
    BY <2>1, <2>2 DEF Injection, IsInjective
<1>6. IsFiniteSet(1..n) /\ Cardinality(1..n) = n
  BY <1>1, FS_Interval
<1>7. f \in Surjection(S, 1..n)
  BY <1>5, <1>6, FS_Injection
<1>8. \A k \in 1..n : \E i \in S : Cardinality(B(i)) = k - 1
  <2>1. SUFFICES ASSUME NEW k \in 1..n
                 PROVE  \E i \in S : Cardinality(B(i)) = k - 1
    OBVIOUS
  <2>2. PICK i \in S : f[i] = k
    BY <1>7 DEF Surjection
  <2>3. QED
    BY <1>1, <1>2, <2>2
<1> DEFINE s == Arranged(S, key)
<1>9. s = [k \in 1..n |-> CHOOSE i \in S : Cardinality(B(i)) = k - 1]
  BY DEF Arranged, Earlier
<1>10. \A k \in 1..n : s[k] \in S /\ Cardinality(B(s[k])) = k - 1
  BY <1>8, <1>9
<1>11. s \in [1..n -> S]
  BY <1>9, <1>10
<1> HIDE DEF s, B, f, n
<1>12. \A a, b \in 1..n : s[a] = s[b] => a = b
  BY <1>1, <1>10
<1>13. \A i \in S : \E k \in 1..n : s[k] = i
  <2>1. SUFFICES ASSUME NEW i \in S
                 PROVE  \E k \in 1..n : s[k] = i
    OBVIOUS
  <2>2. Cardinality(B(i)) + 1 \in 1..n
    BY <1>1, <1>2
  <2>3. Cardinality(B(s[Cardinality(B(i)) + 1])) = Cardinality(B(i)) /\ s[Cardinality(B(i)) + 1] \in S
    BY <1>2, <1>10, <2>2
  <2>4. PICK j \in S : j = s[Cardinality(B(i)) + 1] /\ Cardinality(B(j)) = Cardinality(B(i))
    BY <2>3
  <2>5. i \notin B(j) /\ j \notin B(i)
    <3>1. Cardinality(B(i)) \in Int
      BY <1>2
    <3>2. ~(Cardinality(B(i)) < Cardinality(B(j))) /\ ~(Cardinality(B(j)) < Cardinality(B(i)))
      BY <2>4, <3>1
    <3>3. QED
      BY <1>3, <3>2
  <2>6. j = i
    BY <1>4, <2>5
  <2>7. QED
    BY <2>2, <2>4, <2>6
<1>14. \A a, b \in 1..n : a < b => s[a] \in B(s[b])
  <2>1. SUFFICES ASSUME NEW a \in 1..n, NEW b \in 1..n, a < b
                 PROVE  s[a] \in B(s[b])
    OBVIOUS
  <2>2. Cardinality(B(s[a])) = a - 1 /\ Cardinality(B(s[b])) = b - 1 /\ s[a] \in S /\ s[b] \in S /\ s[a] # s[b]
    BY <1>10, <1>12, <2>1
  <2>3. s[b] \notin B(s[a])
    <3>1. s[b] \in B(s[a]) => b - 1 < a - 1
      BY <1>3, <2>2
    <3>2. QED
      BY <2>1, <3>1, <1>1
  <2>4. QED
    BY <1>4, <2>2, <2>3
<1>15. DOMAIN s = 1..n
  BY <1>11
<1>16. \A a, b \in 1..n : a < b => key[s[a]] < key[s[b]] \/ (key[s[a]] = key[s[b]] /\ s[a] < s[b])
  BY <1>14 DEF B, Earlier
<1>17. QED
  BY <1>10, <1>11, <1>12, <1>13, <1>15, <1>16 DEF s, B, n, Sorts

(* What is sorted already stays. *)
LEMMA ArrangedAlready ==
  ASSUME NEW n \in Nat, NEW key \in [1..n -> Int], \A i, j \in 1..n : i < j => key[i] <= key[j]
  PROVE  Arranged(1..n, key) = [i \in 1..n |-> i]
<1> DEFINE s == Arranged(1..n, key)
<1>1. IsFiniteSet(1..n) /\ Cardinality(1..n) = n
  BY FS_Interval
<1>2. /\ s \in [1..n -> 1..n]
      /\ \A i \in 1..n : Cardinality(Earlier(1..n, key, s[i])) = i - 1
  <2>1. 1..n \in SUBSET Nat
    OBVIOUS
  <2>2. QED
    BY <1>1, <2>1, ArrangedSorts DEF Sorts
<1>3. \A i \in 1..n : Cardinality(Earlier(1..n, key, i)) = i - 1
  <2>1. SUFFICES ASSUME NEW i \in 1..n
                 PROVE  Cardinality(Earlier(1..n, key, i)) = i - 1
    OBVIOUS
  <2>2. Earlier(1..n, key, i) = 1 .. i - 1
    <3>1. \A j \in 1..n : key[j] \in Int
      OBVIOUS
    <3>2. \A j \in 1..n : (key[j] < key[i] \/ (key[j] = key[i] /\ j < i)) <=> j < i
      <4>1. SUFFICES ASSUME NEW j \in 1..n
                     PROVE  (key[j] < key[i] \/ (key[j] = key[i] /\ j < i)) <=> j < i
        OBVIOUS
      <4>2. CASE j < i
        BY <3>1, <4>2
      <4>3. CASE i <= j
        <5>1. key[i] <= key[j]
          BY <3>1, <4>3
        <5>2. QED
          BY <3>1, <4>3, <5>1
      <4>4. QED
        BY <4>2, <4>3
    <3>3. QED
      BY <3>2 DEF Earlier
  <2>3. QED
    BY <2>2, FS_Interval
<1>4. \A i \in 1..n : s[i] = i
  <2>1. SUFFICES ASSUME NEW i \in 1..n
                 PROVE  s[i] = i
    OBVIOUS
  <2>2. PICK j \in 1..n : j = s[i]
    BY <1>2
  <2>3. Cardinality(Earlier(1..n, key, j)) = i - 1
    BY <1>2, <2>2
  <2>4. QED
    BY <1>3, <2>2, <2>3
<1>5. QED
  BY <1>2, <1>4

(* What is picked out of a sequence, and from where. *)
Picks(at, S) ==
  /\ at \in [1..Cardinality(S) -> S]
  /\ \A i \in S : \E n \in 1..Cardinality(S) : at[n] = i
  /\ \A a, b \in 1..Cardinality(S) : a < b => at[a] < at[b]
  /\ \A n \in 1..Cardinality(S) : Cardinality({j \in S : j < at[n]}) = n - 1
LEMMA OnlyPlaces ==
  ASSUME NEW T, NEW s \in Seq(T), NEW S \in SUBSET DOMAIN s
  PROVE  /\ IsFiniteSet(S) /\ Cardinality(S) \in Nat
         /\ Only(s, S) \in Seq(T) /\ Len(Only(s, S)) = Cardinality(S)
         /\ \E at : Picks(at, S) /\ \A n \in 1..Cardinality(S) : Only(s, S)[n] = s[at[n]]
<1>1. DOMAIN s = 1..Len(s) /\ Len(s) \in Nat
  OBVIOUS
<1>2. S \in SUBSET Nat /\ IsFiniteSet(S) /\ Cardinality(S) \in Nat
  <2>1. S \in SUBSET (1..Len(s)) /\ IsFiniteSet(1..Len(s))
    BY <1>1, FS_Interval
  <2>2. IsFiniteSet(S)
    BY <2>1, FS_Subset
  <2>3. QED
    BY <2>1, <2>2, FS_CardinalityType
<1> DEFINE zero == [i \in S |-> 0]  at == Arranged(S, zero)
<1>3. Sorts(at, S, zero) /\ \A n \in 1..Cardinality(S) : Cardinality(Earlier(S, zero, at[n])) = n - 1
  <2>1. zero \in [S -> Int]
    OBVIOUS
  <2> HIDE DEF zero
  <2>2. QED
    BY <1>2, <2>1, ArrangedSorts
<1>4. at \in [1..Cardinality(S) -> S] /\ DOMAIN at = 1..Cardinality(S)
  BY <1>3 DEF Sorts
<1>5. Only(s, S) = [n \in 1..Cardinality(S) |-> s[at[n]]]
  BY <1>4 DEF Only
<1>6. Only(s, S) \in Seq(T) /\ Len(Only(s, S)) = Cardinality(S)
  <2>1. \A n \in 1..Cardinality(S) : s[at[n]] \in T
    <3> HIDE DEF at
    <3>1. QED
      BY <1>1, <1>4
  <2> HIDE DEF at
  <2>2. QED
    BY <1>2, <1>5, <2>1
<1>7. \A i \in S : \E n \in 1..Cardinality(S) : at[n] = i
  BY <1>3, <1>4 DEF Sorts
<1>8. \A a, b \in 1..Cardinality(S) : a < b => at[a] < at[b]
  <2>1. \A a, b \in 1..Cardinality(S) : a < b =>
          zero[at[a]] < zero[at[b]] \/ (zero[at[a]] = zero[at[b]] /\ at[a] < at[b])
    BY <1>3, <1>4 DEF Sorts
  <2>2. \A a \in 1..Cardinality(S) : zero[at[a]] = 0
    <3> HIDE DEF at
    <3>1. QED
      BY <1>4
  <2> HIDE DEF at, zero
  <2>3. QED
    BY <2>1, <2>2
<1>9. \A n \in 1..Cardinality(S) : Cardinality({j \in S : j < at[n]}) = n - 1
  <2>1. SUFFICES ASSUME NEW n \in 1..Cardinality(S)
                 PROVE  Cardinality({j \in S : j < at[n]}) = n - 1
    OBVIOUS
  <2>2. at[n] \in S
    BY <1>4
  <2>3. {j \in S : j < at[n]} = Earlier(S, zero, at[n])
    <3> HIDE DEF at
    <3>1. \A j \in S : zero[j] = 0
      OBVIOUS
    <3> HIDE DEF zero
    <3>2. QED
      BY <2>2, <3>1 DEF Earlier
  <2>4. QED
    BY <1>3, <2>3
<1>10. Picks(at, S)
  <2> HIDE DEF at, zero
  <2>1. QED
    BY <1>4, <1>7, <1>8, <1>9 DEF Picks
<1>11. \A n \in 1..Cardinality(S) : Only(s, S)[n] = s[at[n]]
  BY <1>5
<1> HIDE DEF at, zero
<1>12. QED
  BY <1>2, <1>6, <1>10, <1>11

(* A queue whose parts fit. *)
Queues == [q : Seq(Entry), queued : SUBSET Nat, order : Seq(Nat), pos : Nat \ {0}]
Fitting(old) ==
  /\ old \in Queues /\ Len(old.q) <= MaxQueue
  /\ IsInjective(IdsOf(old.q)) /\ IsInjective(old.order)
  /\ old.pos <= Len(old.q) \/ (old.q = <<>> /\ old.pos = 1)
  /\ old.queued \subseteq Ids(old)
(* The queued songs to come are before the others. *)
QueuedFirst(old) ==
  \A i, j \in old.pos + 1 .. Len(old.q) : i < j /\ Queued(old, j) => Queued(old, i)
(* Every entry of the new queue comes from its own place in the old one. *)
Comes(old, new, from) ==
  /\ from \in [1..Len(new.q) -> 1..Len(old.q)]
  /\ \A k, l \in 1..Len(new.q) : from[k] = from[l] => k = l
  /\ \A k \in 1..Len(new.q) : new.q[k] = old.q[from[k]]
KeepsSongs(old, new) == Len(new.q) = Len(old.q) => ToSet(new.q) = ToSet(old.q)
KeepsAhead(old, new) ==
  \A i \in old.pos + 1 .. Len(old.q) :
    Queued(old, i) /\ old.q[i].id \in Ids(new) /\ new.queued = old.queued
      => Position(new, old.q[i].id) >= new.pos
(* The ids of a collection played count from 1. *)
Counted(new) == IdsOf(new.q) = [i \in DOMAIN new.q |-> i]
(* What every step of the user makes of the queue. *)
GoodStep(old, new) ==
  /\ Fitting(new) /\ QueuedFirst(new) /\ new.q # <<>>
  /\ KeepsSongs(old, new) \/ Counted(new)
  /\ KeepsAhead(old, new)
GoodEdit(old, new) == GoodStep(old, new) /\ KeepsSongs(old, new) /\ Current(new) = Current(old)
(* The same songs, another order after the song playing. *)
Rearranged(old, new) ==
  GoodEdit(old, new) /\ Len(new.q) = Len(old.q) /\ new.queued = old.queued /\ new.pos = old.pos

LEMMA QueuePlaces ==
  ASSUME NEW old, Fitting(old)
  PROVE  /\ DOMAIN old.q = 1..Len(old.q) /\ Len(old.q) \in Nat /\ old.pos \in Nat \ {0}
         /\ \A i \in 1..Len(old.q) : old.q[i] \in Entry /\ old.q[i].id \in Nat \ {0} /\ old.q[i].track \in Tracks
         /\ \A i, j \in 1..Len(old.q) : old.q[i].id = old.q[j].id => i = j
         /\ \A i \in 1..Len(old.q) : old.q[i].id \in Ids(old) /\ Position(old, old.q[i].id) = i
         /\ old.q # <<>> => old.pos \in 1..Len(old.q)
<1>1. DOMAIN old.q = 1..Len(old.q) /\ Len(old.q) \in Nat /\ old.pos \in Nat \ {0} /\ old.q \in Seq(Entry)
  BY DEF Fitting, Queues
<1>2. \A i \in 1..Len(old.q) : old.q[i] \in Entry /\ old.q[i].id \in Nat \ {0} /\ old.q[i].track \in Tracks
  <2>1. \A i \in 1..Len(old.q) : old.q[i] \in Entry
    BY <1>1
  <2>2. \A e \in Entry : e.id \in Nat \ {0} /\ e.track \in Tracks
    BY DEF Entry
  <2>3. QED
    BY <2>1, <2>2
<1>3. \A i, j \in 1..Len(old.q) : old.q[i].id = old.q[j].id => i = j
  BY <1>1 DEF Fitting, IsInjective, IdsOf
<1>4. \A i \in 1..Len(old.q) : old.q[i].id \in Ids(old) /\ Position(old, old.q[i].id) = i
  BY <1>1, <1>3 DEF Position, Ids
<1>5. old.q # <<>> => old.pos \in 1..Len(old.q)
  BY <1>1 DEF Fitting
<1>6. QED
  BY <1>1, <1>2, <1>3, <1>4, <1>5

LEMMA StartPlace ==
  ASSUME NEW old, Fitting(old)
  PROVE  /\ SourceStart(old) \in Nat /\ SourceStart(old) <= Len(old.q) + 1
         /\ old.q # <<>> => old.pos < SourceStart(old)
         /\ old.q = <<>> => SourceStart(old) = 1
         /\ \A i \in old.pos + 1 .. SourceStart(old) - 1 : i <= Len(old.q) /\ Queued(old, i)
         /\ SourceStart(old) <= Len(old.q) => SourceStart(old) > old.pos /\ ~Queued(old, SourceStart(old))
<1> DEFINE S == {i \in old.pos + 1 .. Len(old.q) : ~Queued(old, i)} \cup {Len(old.q) + 1}
<1>1. Len(old.q) \in Nat /\ old.pos \in Nat \ {0} /\ (old.q # <<>> => old.pos \in 1..Len(old.q))
  BY QueuePlaces
<1>2. S \in SUBSET Nat /\ S # {} /\ SourceStart(old) = Min(S) /\ Len(old.q) + 1 \in S
  BY <1>1 DEF SourceStart
<1> DEFINE k == SourceStart(old)
<1>3. k \in S /\ \A i \in S : k <= i
  <2> HIDE DEF S
  <2>1. QED
    BY <1>2, LeastNumber
<1>4. k \in Nat /\ k <= Len(old.q) + 1
  <2> HIDE DEF S
  <2>1. QED
    BY <1>1, <1>2, <1>3
<1>5. old.q # <<>> => old.pos < k
  BY <1>1, <1>3
<1>6. old.q = <<>> => k = 1
  BY <1>1, <1>3
<1>7. \A i \in old.pos + 1 .. k - 1 : i <= Len(old.q) /\ Queued(old, i)
  <2>1. SUFFICES ASSUME NEW i \in old.pos + 1 .. k - 1
                 PROVE  i <= Len(old.q) /\ Queued(old, i)
    OBVIOUS
  <2>2. i \in Int /\ i < k /\ i >= old.pos + 1
    BY <1>1, <1>4
  <2>3. i \notin S
    <3> HIDE DEF S, k
    <3>1. QED
      BY <1>3, <1>4, <2>2
  <2>4. i \in old.pos + 1 .. Len(old.q)
    BY <1>1, <1>4, <2>2
  <2>5. QED
    BY <1>1, <2>3, <2>4
<1>8. k <= Len(old.q) => k > old.pos /\ ~Queued(old, k)
  <2>1. SUFFICES ASSUME k <= Len(old.q)
                 PROVE  k > old.pos /\ ~Queued(old, k)
    OBVIOUS
  <2>2. k # Len(old.q) + 1
    BY <1>1, <1>4, <2>1
  <2>3. k \in old.pos + 1 .. Len(old.q) /\ ~Queued(old, k)
    BY <1>3, <2>2
  <2>4. QED
    BY <1>1, <2>3
<1>9. QED
  BY <1>4, <1>5, <1>6, <1>7, <1>8

(* One block right after the song playing, said in two ways. *)
LEMMA TogetherIsFirst ==
  ASSUME NEW old, Fitting(old)
  PROVE  QueuedFirst(old) <=> \A i \in SourceStart(old) .. Len(old.q) : ~Queued(old, i)
<1> DEFINE k == SourceStart(old)
<1>1. /\ Len(old.q) \in Nat /\ old.pos \in Nat
      /\ k \in Nat /\ \A i \in old.pos + 1 .. k - 1 : Queued(old, i)
      /\ k <= Len(old.q) => k > old.pos /\ ~Queued(old, k)
  BY QueuePlaces, StartPlace
<1> HIDE DEF k
<1>2. ASSUME QueuedFirst(old), NEW i \in k .. Len(old.q)
      PROVE  ~Queued(old, i)
  <2>1. k <= Len(old.q) /\ i >= k /\ i <= Len(old.q) /\ i \in Int
    BY <1>1, <1>2
  <2>2. CASE i = k
    BY <1>1, <2>1, <2>2
  <2>3. CASE i # k
    <3>1. k \in old.pos + 1 .. Len(old.q) /\ i \in old.pos + 1 .. Len(old.q) /\ k < i
      BY <1>1, <2>1, <2>3
    <3>2. QED
      BY <1>1, <1>2, <2>1, <3>1 DEF QueuedFirst
  <2>4. QED
    BY <2>2, <2>3
<1>3. ASSUME \A i \in k .. Len(old.q) : ~Queued(old, i)
      PROVE  QueuedFirst(old)
  <2>1. SUFFICES ASSUME NEW i \in old.pos + 1 .. Len(old.q), NEW j \in old.pos + 1 .. Len(old.q), i < j, Queued(old, j)
                 PROVE  Queued(old, i)
    BY DEF QueuedFirst
  <2>2. j < k
    BY <1>1, <1>3, <2>1
  <2>3. i \in old.pos + 1 .. k - 1
    BY <1>1, <2>1, <2>2
  <2>4. QED
    BY <1>1, <2>3
<1>4. QED
  BY <1>2, <1>3 DEF k

(* Entries that come from their own places keep their ids apart, and, when    *)
(* there are as many as before, are all of them.                              *)
LEMMA ComesApart ==
  ASSUME NEW old, Fitting(old), NEW new, new.q \in Seq(Entry), NEW from, Comes(old, new, from)
  PROVE  /\ IsInjective(IdsOf(new.q)) /\ Len(new.q) <= Len(old.q) /\ Ids(new) \subseteq Ids(old)
         /\ KeepsSongs(old, new)
         /\ Len(new.q) = Len(old.q) => Ids(new) = Ids(old)
<1>1. /\ DOMAIN old.q = 1..Len(old.q) /\ Len(old.q) \in Nat
      /\ DOMAIN new.q = 1..Len(new.q) /\ Len(new.q) \in Nat
      /\ \A i, j \in 1..Len(old.q) : old.q[i].id = old.q[j].id => i = j
  BY QueuePlaces
<1> DEFINE a == Len(new.q)  b == Len(old.q)
<1>2. /\ from \in [1..a -> 1..b] /\ \A k, l \in 1..a : from[k] = from[l] => k = l
      /\ \A k \in 1..a : new.q[k] = old.q[from[k]]
  BY DEF Comes
<1>3. IsInjective(IdsOf(new.q))
  BY <1>1, <1>2 DEF IsInjective, IdsOf
<1>4. IsFiniteSet(1..b) /\ Cardinality(1..b) = b /\ Cardinality(1..a) = a
  <2>1. a \in Nat /\ b \in Nat
    BY <1>1
  <2> HIDE DEF a, b
  <2>2. QED
    BY <2>1, FS_Interval
<1>5. from \in Injection(1..a, 1..b)
  BY <1>2 DEF Injection, IsInjective
<1>6. a <= b /\ (a = b => from \in Surjection(1..a, 1..b))
  BY <1>4, <1>5, FS_Injection
<1>7. Ids(new) \subseteq Ids(old)
  BY <1>1, <1>2 DEF Ids
<1>8. ASSUME a = b
      PROVE  ToSet(new.q) = ToSet(old.q) /\ Ids(new) = Ids(old)
  <2>1. \A i \in 1..b : \E k \in 1..a : from[k] = i
    BY <1>6, <1>8 DEF Surjection
  <2>2. \A i \in 1..b : \E k \in 1..a : new.q[k] = old.q[i]
    BY <1>2, <2>1
  <2>3. \A k \in 1..a : \E i \in 1..b : new.q[k] = old.q[i]
    BY <1>2
  <2>4. ToSet(new.q) = ToSet(old.q)
    <3>1. ToSet(new.q) = {new.q[k] : k \in 1..a} /\ ToSet(old.q) = {old.q[i] : i \in 1..b}
      BY <1>1 DEF ToSet
    <3>2. QED
      BY <2>2, <2>3, <3>1
  <2>5. Ids(new) = Ids(old)
    <3>1. Ids(new) = {new.q[k].id : k \in 1..a} /\ Ids(old) = {old.q[i].id : i \in 1..b}
      BY <1>1 DEF Ids
    <3>2. (\A i \in 1..b : \E k \in 1..a : new.q[k].id = old.q[i].id)
          /\ \A k \in 1..a : \E i \in 1..b : new.q[k].id = old.q[i].id
      BY <2>2, <2>3
    <3>3. \A x \in Ids(old) : x \in Ids(new)
      BY <3>1, <3>2
    <3>4. QED
      BY <1>7, <3>3
  <2>6. QED
    BY <2>4, <2>5
<1>9. QED
  BY <1>3, <1>6, <1>7, <1>8 DEF KeepsSongs

(* Nothing queued was passed over: what comes before the new place was not    *)
(* to come, or was not queued.                                                *)
LEMMA ComesAhead ==
  ASSUME NEW old, Fitting(old), NEW new, Fitting(new), NEW from, Comes(old, new, from),
         \A k \in 1..Len(new.q) : k < new.pos => from[k] <= old.pos \/ ~Queued(old, from[k])
  PROVE  KeepsAhead(old, new)
<1>1. SUFFICES ASSUME NEW i \in old.pos + 1 .. Len(old.q), Queued(old, i), old.q[i].id \in Ids(new)
               PROVE  Position(new, old.q[i].id) >= new.pos
  BY DEF KeepsAhead
<1>2. /\ i \in 1..Len(old.q) /\ i > old.pos /\ new.pos \in Nat /\ old.pos \in Nat
      /\ DOMAIN new.q = 1..Len(new.q) /\ Len(new.q) \in Nat
  BY <1>1, QueuePlaces
<1>3. PICK k \in 1..Len(new.q) : new.q[k].id = old.q[i].id
  BY <1>1, <1>2 DEF Ids
<1>4. Position(new, old.q[i].id) = k
  BY <1>3, QueuePlaces
<1>5. from[k] \in 1..Len(old.q) /\ old.q[from[k]].id = old.q[i].id
  BY <1>3 DEF Comes
<1>6. from[k] = i
  BY <1>2, <1>5, QueuePlaces
<1>7. ~(k < new.pos)
  BY <1>1, <1>2, <1>6
<1>8. QED
  BY <1>2, <1>4, <1>7

(* A permutation of the queue. *)
Orders(n) == {p \in [1..n -> 1..n] : \A k, l \in 1..n : p[k] = p[l] => k = l}
LEMMA OrderReaches ==
  ASSUME NEW n \in Nat, NEW p \in Orders(n)
  PROVE  \A i \in 1..n : \E k \in 1..n : p[k] = i
<1>1. IsFiniteSet(1..n)
  BY FS_Interval
<1>2. p \in Injection(1..n, 1..n)
  BY DEF Injection, IsInjective, Orders
<1>3. p \in Surjection(1..n, 1..n)
  BY <1>1, <1>2, FS_Injection
<1>4. QED
  BY <1>3 DEF Surjection
LEMMA PermuteFits ==
  ASSUME NEW old, Fitting(old), old.q # <<>>, NEW p \in Orders(Len(old.q))
  PROVE  LET new == Permute(old, p)
         IN /\ Fitting(new) /\ Len(new.q) = Len(old.q) /\ new.q # <<>>
            /\ Comes(old, new, p) /\ KeepsSongs(old, new)
            /\ new.queued = old.queued /\ new.order = old.order
            /\ new.pos \in 1..Len(old.q) /\ p[new.pos] = old.pos /\ Current(new) = Current(old)
            /\ \A k \in 1..Len(old.q) : Queued(new, k) <=> Queued(old, p[k])
<1> DEFINE new == Permute(old, p)  n == Len(old.q)
<1>1. /\ DOMAIN old.q = 1..n /\ n \in Nat /\ old.pos \in 1..n /\ old.q \in Seq(Entry)
      /\ \A i \in 1..n : old.q[i] \in Entry
  BY QueuePlaces DEF Fitting, Queues
<1>2. p \in [1..n -> 1..n] /\ \A k, l \in 1..n : p[k] = p[l] => k = l
  BY DEF Orders
<1>3. PICK at \in 1..n : p[at] = old.pos
  BY <1>1, OrderReaches
<1>4. /\ new.q = [i \in 1..n |-> old.q[p[i]]] /\ new.queued = old.queued /\ new.order = old.order
      /\ new.pos = CHOOSE i \in 1..n : p[i] = old.pos
      /\ new = [q |-> new.q, queued |-> new.queued, order |-> new.order, pos |-> new.pos]
  <2>1. old = [q |-> old.q, queued |-> old.queued, order |-> old.order, pos |-> old.pos]
    BY DEF Fitting, Queues
  <2>2. new = [q |-> [i \in 1..n |-> old.q[p[i]]], queued |-> old.queued, order |-> old.order,
               pos |-> CHOOSE i \in 1..n : p[i] = old.pos]
    <3> DEFINE X == [i \in 1..n |-> old.q[p[i]]]  Y == CHOOSE i \in 1..n : p[i] = old.pos
    <3>1. new = [old EXCEPT !.q = X, !.pos = Y]
      BY <1>1 DEF Permute
    <3> HIDE DEF X, Y, new
    <3>2. new = [q |-> X, queued |-> old.queued, order |-> old.order, pos |-> Y]
      BY <2>1, <3>1
    <3>3. QED
      BY <3>2 DEF X, Y
  <2> HIDE DEF new
  <2>3. QED
    BY <2>2
<1>5. new.pos \in 1..n /\ p[new.pos] = old.pos
  BY <1>3, <1>4
<1> HIDE DEF new
<1>6. new.q \in Seq(Entry) /\ Len(new.q) = n /\ DOMAIN new.q = 1..n
  <2>1. \A i \in 1..n : old.q[p[i]] \in Entry
    BY <1>1, <1>2
  <2>2. QED
    BY <1>1, <1>4, <2>1
<1>7. Comes(old, new, p)
  BY <1>2, <1>4, <1>6 DEF Comes
<1>8. IsInjective(IdsOf(new.q)) /\ Ids(new) = Ids(old) /\ KeepsSongs(old, new)
  BY <1>6, <1>7, ComesApart
<1>9. new \in Queues
  <2>1. old.queued \in SUBSET Nat /\ old.order \in Seq(Nat)
    BY DEF Fitting, Queues
  <2>2. new.pos \in Nat \ {0}
    BY <1>1, <1>5
  <2>3. QED
    BY <1>4, <1>6, <2>1, <2>2 DEF Queues
<1>10. Fitting(new) /\ new.q # <<>>
  <2>1. new.pos <= Len(new.q)
    BY <1>1, <1>5, <1>6
  <2>2. new.q # <<>>
    BY <1>1, <1>6
  <2>3. QED
    BY <1>4, <1>6, <1>8, <1>9, <2>1, <2>2 DEF Fitting
<1>11. \A k \in 1..n : new.q[k] = old.q[p[k]]
  BY <1>4
<1>12. Current(new) = Current(old)
  BY <1>5, <1>11 DEF Current
<1>13. QED
  BY <1>4, <1>5, <1>6, <1>7, <1>8, <1>10, <1>11, <1>12 DEF new, Queued

(* The queue in parts. *)
LEMMA ArrangeFits ==
  ASSUME NEW old, Fitting(old), old.q # <<>>, NEW part \in [1..Len(old.q) -> Int]
  PROVE  LET p == Arranged(1..Len(old.q), part)
         IN /\ Arrange(old, part) = Permute(old, p) /\ p \in Orders(Len(old.q))
            /\ \A k, l \in 1..Len(old.q) : k < l =>
                 part[p[k]] < part[p[l]] \/ (part[p[k]] = part[p[l]] /\ p[k] < p[l])
<1>1. DOMAIN old.q = 1..Len(old.q) /\ Len(old.q) \in Nat
  BY QueuePlaces
<1> DEFINE n == Len(old.q)  p == Arranged(1..n, part)
<1>2. IsFiniteSet(1..n) /\ Cardinality(1..n) = n /\ 1..n \in SUBSET Nat
  BY <1>1, FS_Interval
<1>3. Sorts(p, 1..n, part)
  BY <1>2, ArrangedSorts
<1>4. p \in [1..n -> 1..n] /\ DOMAIN p = 1..n
  BY <1>2, <1>3 DEF Sorts
<1>5. QED
  BY <1>1, <1>3, <1>4 DEF Sorts, Orders, Arrange

(* What is of the first part, and first, stays where it is. *)
LEMMA ArrangeKeepsStart ==
  ASSUME NEW n \in Nat, NEW part \in [1..n -> Int], NEW c \in 0..n,
         \A i \in 1..n : IF i <= c THEN part[i] = 0 ELSE part[i] > 0
  PROVE  LET p == Arranged(1..n, part)
         IN \A k \in 1..n : IF k <= c THEN p[k] = k ELSE p[k] > c
<1> DEFINE p == Arranged(1..n, part)
<1>1. IsFiniteSet(1..n) /\ Cardinality(1..n) = n /\ 1..n \in SUBSET Nat
  BY FS_Interval
<1>2. Sorts(p, 1..n, part) /\ \A k \in 1..n : Cardinality(Earlier(1..n, part, p[k])) = k - 1
  BY <1>1, ArrangedSorts
<1>3. p \in [1..n -> 1..n] /\ DOMAIN p = 1..n
  BY <1>1, <1>2 DEF Sorts
<1>4. \A k \in 1..n : p[k] <= c => p[k] = k
  <2>1. SUFFICES ASSUME NEW k \in 1..n, NEW i \in 1..n, i = p[k], i <= c
                 PROVE  i = k
    BY <1>3
  <2>2. Earlier(1..n, part, i) = 1 .. i - 1
    <3>1. part[i] = 0 /\ \A j \in 1..n : part[j] >= 0 /\ (j <= i => part[j] = 0) /\ part[j] \in Int
      BY <2>1
    <3>2. \A j \in 1..n : part[j] < part[i] \/ (part[j] = part[i] /\ j < i) <=> j < i
      BY <3>1
    <3>3. QED
      BY <2>1, <3>2 DEF Earlier
  <2>3. Cardinality(1 .. i - 1) = i - 1
    BY FS_Interval
  <2>4. QED
    BY <1>2, <2>1, <2>2, <2>3
<1>5. \A k \in 1..n : k <= c => p[k] = k
  <2>1. SUFFICES ASSUME NEW k \in 1..n, k <= c
                 PROVE  p[k] = k
    OBVIOUS
  <2>2. PICK l \in 1..n : p[l] = k
    BY <1>2, <1>3, <2>1 DEF Sorts
  <2>3. QED
    BY <1>4, <2>1, <2>2
<1>6. ASSUME NEW k \in 1..n
      PROVE  IF k <= c THEN p[k] = k ELSE p[k] > c
  <2> HIDE DEF p
  <2>1. p[k] \in Nat /\ k \in Nat /\ c \in Nat /\ (p[k] <= c => p[k] = k) /\ (k <= c => p[k] = k)
    BY <1>3, <1>4, <1>5
  <2>2. QED
    BY <2>1
<1>7. QED
  BY <1>6

(* The song playing and what is before it stay, the rest may be arranged. *)
StaysUntil(c, p, n) == \A k \in 1..n : IF k <= c THEN p[k] = k ELSE p[k] > c
LEMMA ArrangedToCome ==
  ASSUME NEW old, Fitting(old), old.q # <<>>, NEW p \in Orders(Len(old.q)),
         StaysUntil(old.pos, p, Len(old.q))
  PROVE  Permute(old, p).pos = old.pos /\ KeepsAhead(old, Permute(old, p))
<1> DEFINE new == Permute(old, p)  n == Len(old.q)
<1>1. n \in Nat /\ old.pos \in 1..n
  BY QueuePlaces
<1>2. /\ Fitting(new) /\ Len(new.q) = n /\ Comes(old, new, p) /\ new.pos \in 1..n /\ p[new.pos] = old.pos
  BY PermuteFits
<1>3. p \in [1..n -> 1..n]
  BY DEF Orders
<1>4. new.pos = old.pos
  <2> HIDE DEF new
  <2>1. QED
    BY <1>1, <1>2, <1>3 DEF StaysUntil
<1>5. \A k \in 1..Len(new.q) : k < new.pos => p[k] <= old.pos \/ ~Queued(old, p[k])
  <2> HIDE DEF new
  <2>1. QED
    BY <1>1, <1>2, <1>3, <1>4 DEF StaysUntil
<1>6. QED
  <2> HIDE DEF new
  <2>1. KeepsAhead(old, new)
    BY <1>2, <1>5, ComesAhead
  <2>2. QED
    BY <1>4, <2>1 DEF new

(* anchor_queued. *)
LEMMA AnchorFits ==
  ASSUME NEW old, Fitting(old), old.q # <<>>
  PROVE  \E p \in Orders(Len(old.q)) :
           /\ StaysUntil(old.pos, p, Len(old.q)) /\ Anchor(old) = Permute(old, p)
           /\ QueuedFirst(Anchor(old))
<1> DEFINE n == Len(old.q)  new == Anchor(old)
           part == [i \in 1..n |-> IF i <= old.pos THEN 0 ELSE IF Queued(old, i) THEN 1 ELSE 2]
           p == Arranged(1..n, part)
<1>1. DOMAIN old.q = 1..n /\ n \in Nat /\ old.pos \in 1..n
  BY QueuePlaces
<1>2. part \in [1..n -> Int]
  OBVIOUS
<1>3. Anchor(old) = Arrange(old, part)
  BY <1>1 DEF Anchor
<1>4. /\ Arrange(old, part) = Permute(old, p) /\ p \in Orders(n)
      /\ \A k, l \in 1..n : k < l => part[p[k]] < part[p[l]] \/ (part[p[k]] = part[p[l]] /\ p[k] < p[l])
  <2> HIDE DEF part
  <2>1. QED
    BY <1>2, ArrangeFits
<1>5. StaysUntil(old.pos, p, n)
  <2>1. \A i \in 1..n : IF i <= old.pos THEN part[i] = 0 ELSE part[i] > 0
    OBVIOUS
  <2> HIDE DEF part
  <2>2. old.pos \in 0..n
    BY <1>1
  <2>3. \A k \in 1..n : IF k <= old.pos THEN p[k] = k ELSE p[k] > old.pos
    BY <1>1, <1>2, <2>1, <2>2, ArrangeKeepsStart
  <2>4. QED
    BY <2>3 DEF StaysUntil
<1>6. new = Permute(old, p)
  BY <1>3, <1>4
<1>7. new.pos = old.pos /\ Len(new.q) = n /\ \A k \in 1..n : Queued(new, k) <=> Queued(old, p[k])
  <2> HIDE DEF p, new
  <2>1. QED
    BY <1>4, <1>5, <1>6, ArrangedToCome, PermuteFits
<1>8. p \in [1..n -> 1..n]
  BY <1>4 DEF Orders
<1>9. QueuedFirst(new)
  <2>1. SUFFICES ASSUME NEW i \in old.pos + 1 .. n, NEW j \in old.pos + 1 .. n, i < j, Queued(new, j)
                 PROVE  Queued(new, i)
    <3> HIDE DEF p, new
    <3>1. QED
      BY <1>7 DEF QueuedFirst
  <2>2. i \in 1..n /\ j \in 1..n /\ ~(i <= old.pos) /\ ~(j <= old.pos)
    BY <1>1
  <2>3. p[i] \in 1..n /\ p[j] \in 1..n /\ p[i] > old.pos /\ p[j] > old.pos
    <3> HIDE DEF p
    <3>1. QED
      BY <1>5, <1>8, <2>2 DEF StaysUntil
  <2>4. Queued(old, p[j])
    BY <1>7, <2>1, <2>2
  <2>5. part[p[i]] \in Int /\ part[p[j]] = 1 /\ part[p[i]] <= part[p[j]]
    <3>1. part[p[j]] = 1
      <4> HIDE DEF p
      <4>1. QED
        BY <1>1, <2>3, <2>4
    <3> HIDE DEF p, part
    <3>2. QED
      BY <1>2, <1>4, <1>8, <2>1, <2>2, <3>1
  <2>6. Queued(old, p[i])
    <3> HIDE DEF p
    <3>1. QED
      BY <1>1, <2>3, <2>5
  <2>7. QED
    BY <1>7, <2>2, <2>6
<1>10. QED
  BY <1>4, <1>5, <1>6, <1>9

(* step back, and a jump back: from a place before the song playing. *)
LEMMA PlaceFits ==
  ASSUME NEW old, Fitting(old), NEW i \in 1..Len(old.q)
  PROVE  LET new == [old EXCEPT !.pos = i]
         IN /\ Fitting(new) /\ new.q = old.q /\ new.pos = i /\ new.queued = old.queued /\ new.order = old.order
            /\ \A j : Queued(new, j) <=> Queued(old, j)
<1> DEFINE new == [old EXCEPT !.pos = i]
<1>1. Len(old.q) \in Nat /\ i \in Nat \ {0} /\ i <= Len(old.q)
  BY QueuePlaces
<1>2. new = [q |-> old.q, queued |-> old.queued, order |-> old.order, pos |-> i] /\ old.q \in Seq(Entry)
      /\ old.queued \in SUBSET Nat /\ old.order \in Seq(Nat)
  <2>1. /\ old = [q |-> old.q, queued |-> old.queued, order |-> old.order, pos |-> old.pos]
        /\ old.q \in Seq(Entry) /\ old.queued \in SUBSET Nat /\ old.order \in Seq(Nat)
    BY DEF Fitting, Queues
  <2>2. ASSUME NEW a, NEW b, NEW c, NEW d
        PROVE  [[q |-> a, queued |-> b, order |-> c, pos |-> d] EXCEPT !.pos = i]
                 = [q |-> a, queued |-> b, order |-> c, pos |-> i]
    OBVIOUS
  <2>3. QED
    BY <2>1, <2>2
<1> HIDE DEF new
<1>3. new.q = old.q /\ new.queued = old.queued /\ new.order = old.order /\ new.pos = i
  BY <1>2
<1>4. new \in Queues
  BY <1>1, <1>2, <1>3 DEF Queues
<1>5. Fitting(new)
  <2>1. Ids(new) = Ids(old)
    BY <1>3 DEF Ids
  <2>2. QED
    BY <1>1, <1>3, <1>4, <2>1 DEF Fitting
<1>6. QED
  BY <1>3, <1>5 DEF new, Queued
LEMMA StepBackIsGood ==
  ASSUME NEW old, Fitting(old), NEW i \in 1..Len(old.q), i <= old.pos
  PROVE  GoodStep(old, Anchor([old EXCEPT !.pos = i]))
<1> DEFINE mid == [old EXCEPT !.pos = i]  new == Anchor(mid)  n == Len(old.q)
<1>1. n \in Nat /\ old.pos \in Nat /\ i \in 1..n
  BY QueuePlaces
<1>2. Fitting(mid) /\ mid.q = old.q /\ mid.pos = i /\ (\A j : Queued(mid, j) <=> Queued(old, j))
  BY PlaceFits
<1>3. old.q # <<>>
  BY <1>1
<1> HIDE DEF mid
<1>4. PICK p \in Orders(n) : StaysUntil(i, p, n) /\ new = Permute(mid, p) /\ QueuedFirst(new)
  BY <1>2, <1>3, AnchorFits
<1>5. /\ Fitting(new) /\ Len(new.q) = n /\ new.q # <<>> /\ Comes(mid, new, p) /\ KeepsSongs(mid, new)
  BY <1>2, <1>3, <1>4, PermuteFits
<1>6. new.pos = i
  BY <1>2, <1>3, <1>4, ArrangedToCome
<1>7. GoodStep(old, new)
  <2> HIDE DEF new
  <2>1. Comes(old, new, p) /\ KeepsSongs(old, new)
    BY <1>2, <1>5 DEF Comes, KeepsSongs
  <2>2. \A k \in 1..Len(new.q) : k < new.pos => p[k] <= old.pos
    BY <1>1, <1>4, <1>5, <1>6 DEF StaysUntil
  <2>3. KeepsAhead(old, new)
    BY <1>5, <2>1, <2>2, ComesAhead
  <2>4. QED
    BY <1>4, <1>5, <2>1, <2>3 DEF GoodStep
<1>8. QED
  BY <1>7 DEF mid

(* jump_to: over the songs passed, the queued ones among them come after. *)
LEMMA JumpIsGood ==
  ASSUME NEW old, Fitting(old), NEW i \in 1..Len(old.q)
  PROVE  /\ GoodStep(old, JumpToEntry(old, i)) /\ Len(JumpToEntry(old, i).q) = Len(old.q)
         /\ JumpToEntry(old, i).queued = old.queued
<1> DEFINE n == Len(old.q)
           part == [j \in 1..n |-> IF j <= old.pos THEN 0 ELSE IF j = i THEN 2 ELSE IF j > i THEN 4
                                   ELSE IF Queued(old, j) THEN 3 ELSE 1]
           p == Arranged(1..n, part)
           moved == Arrange(old, part)
           at == Position(moved, old.q[i].id)
           mid == [moved EXCEPT !.pos = at]
           new == JumpToEntry(old, i)
<1>1. n \in Nat /\ DOMAIN old.q = 1..n /\ old.pos \in Nat /\ i \in 1..n /\ old.q # <<>>
  BY QueuePlaces
<1>2. CASE i <= old.pos
  <2>1. new = Anchor([old EXCEPT !.pos = i])
    BY <1>2 DEF JumpToEntry
  <2>2. GoodStep(old, new)
    BY <1>2, <2>1, StepBackIsGood
  <2>3. Len(new.q) = n /\ new.queued = old.queued
    <3> DEFINE back == [old EXCEPT !.pos = i]
    <3>1. Fitting(back) /\ back.q = old.q /\ back.queued = old.queued
      BY PlaceFits
    <3>2. new = Anchor(back)
      BY <2>1
    <3> HIDE DEF back, new
    <3>3. PICK r \in Orders(n) : Anchor(back) = Permute(back, r)
      BY <1>1, <3>1, AnchorFits
    <3>4. Len(Permute(back, r).q) = n /\ Permute(back, r).queued = back.queued
      BY <1>1, <3>1, <3>3, PermuteFits
    <3>5. QED
      BY <3>1, <3>2, <3>3, <3>4
  <2>4. QED
    BY <2>2, <2>3
<1>3. CASE i > old.pos
  <2>1. new = Anchor(mid)
    BY <1>1, <1>3 DEF JumpToEntry
  <2>2. part \in [1..n -> Int] /\ part[i] = 2
    BY <1>1, <1>3
  <2>3. \A j \in 1..n : part[j] <= 2 /\ j # i => j <= old.pos \/ ~Queued(old, j)
    OBVIOUS
  <2> HIDE DEF part
  <2>4. /\ moved = Permute(old, p) /\ p \in Orders(n)
        /\ \A k, l \in 1..n : k < l => part[p[k]] < part[p[l]] \/ (part[p[k]] = part[p[l]] /\ p[k] < p[l])
    BY <1>1, <2>2, ArrangeFits
  <2>5. p \in [1..n -> 1..n]
    BY <2>4 DEF Orders
  <2> HIDE DEF p
  <2>6. /\ Fitting(moved) /\ Len(moved.q) = n /\ Comes(old, moved, p) /\ KeepsSongs(old, moved)
        /\ moved.queued = old.queued
        /\ \A k \in 1..n : moved.q[k] = old.q[p[k]]
    <3>1. /\ Fitting(moved) /\ Len(moved.q) = n /\ Comes(old, moved, p) /\ KeepsSongs(old, moved)
          /\ moved.queued = old.queued
      BY <1>1, <2>4, PermuteFits
    <3>2. QED
      BY <3>1 DEF Comes
  <2> HIDE DEF moved
  <2>7. PICK k \in 1..n : p[k] = i
    BY <1>1, <2>4, OrderReaches
  <2>8. at = k
    BY <2>6, <2>7, QueuePlaces
  <2>9. Fitting(mid) /\ mid.q = moved.q /\ mid.pos = k /\ mid.queued = moved.queued
    BY <2>6, <2>7, <2>8, PlaceFits
  <2> HIDE DEF mid, new
  <2>10. mid.q # <<>> /\ Len(mid.q) = n
    BY <1>1, <2>6, <2>9
  <2>11. PICK r \in Orders(n) : StaysUntil(k, r, n) /\ new = Permute(mid, r) /\ QueuedFirst(new)
    BY <2>1, <2>9, <2>10, AnchorFits
  <2>12. /\ Fitting(new) /\ Len(new.q) = n /\ new.q # <<>> /\ Comes(mid, new, r) /\ new.pos = k
         /\ KeepsSongs(mid, new) /\ new.queued = mid.queued
    BY <2>9, <2>10, <2>11, PermuteFits, ArrangedToCome
  <2> DEFINE from == [l \in 1..n |-> p[r[l]]]
  <2>13. r \in [1..n -> 1..n] /\ \A l, h \in 1..n : r[l] = r[h] => l = h
    BY <2>11 DEF Orders
  <2>14. Comes(old, new, from)
    <3>1. from \in [1..n -> 1..n]
      BY <2>5, <2>13
    <3>2. \A l, h \in 1..n : from[l] = from[h] => l = h
      <4>1. SUFFICES ASSUME NEW l \in 1..n, NEW h \in 1..n, p[r[l]] = p[r[h]]
                     PROVE  l = h
        OBVIOUS
      <4>2. r[l] \in 1..n /\ r[h] \in 1..n
        BY <2>13
      <4>3. r[l] = r[h]
        BY <2>4, <4>1, <4>2 DEF Orders
      <4>4. QED
        BY <2>13, <4>3
    <3>3. \A l \in 1..n : new.q[l] = old.q[from[l]]
      <4>1. SUFFICES ASSUME NEW l \in 1..n
                     PROVE  new.q[l] = old.q[p[r[l]]]
        OBVIOUS
      <4>2. r[l] \in 1..n /\ new.q[l] = mid.q[r[l]]
        BY <2>12, <2>13 DEF Comes
      <4>3. QED
        BY <2>6, <2>9, <4>2
    <3>4. QED
      BY <2>12, <3>1, <3>2, <3>3 DEF Comes
  <2>15. \A l \in 1..Len(new.q) : l < new.pos => from[l] <= old.pos \/ ~Queued(old, from[l])
    <3>1. SUFFICES ASSUME NEW l \in 1..n, l < k
                   PROVE  from[l] <= old.pos \/ ~Queued(old, from[l])
      BY <2>12
    <3>2. r[l] = l /\ from[l] = p[l] /\ p[l] \in 1..n /\ p[k] = i
      BY <2>5, <2>7, <2>11, <3>1 DEF StaysUntil
    <3>3. part[p[l]] <= 2 /\ p[l] # i
      <4>1. part[p[l]] \in Int /\ part[p[k]] = 2
        BY <2>2, <3>2
      <4>2. part[p[l]] < part[p[k]] \/ (part[p[l]] = part[p[k]] /\ p[l] < p[k])
        BY <2>4, <3>1
      <4>3. p[l] # p[k]
        BY <2>4, <3>1 DEF Orders
      <4>4. QED
        BY <3>2, <4>1, <4>2, <4>3
    <3>4. QED
      BY <2>3, <3>2, <3>3
  <2>16. KeepsAhead(old, new)
    BY <2>12, <2>14, <2>15, ComesAhead
  <2>17. KeepsSongs(old, new)
    BY <2>6, <2>9, <2>12 DEF KeepsSongs
  <2>18. QED
    BY <2>6, <2>9, <2>11, <2>12, <2>16, <2>17 DEF GoodStep, new
<1>4. QED
  BY <1>1, <1>2, <1>3

(* A permutation of what is to come that leaves the queued songs first. *)
LEMMA PermuteIsGood ==
  ASSUME NEW old, Fitting(old), old.q # <<>>, NEW p \in Orders(Len(old.q)),
         StaysUntil(old.pos, p, Len(old.q)),
         \A k, l \in old.pos + 1 .. Len(old.q) : k < l /\ Queued(old, p[l]) => Queued(old, p[k])
  PROVE  Rearranged(old, Permute(old, p))
<1> DEFINE new == Permute(old, p)
<1>1. Len(old.q) \in Nat /\ old.pos \in Nat
  BY QueuePlaces
<1>2. new.pos = old.pos /\ KeepsAhead(old, new)
  BY ArrangedToCome
<1>3. /\ Fitting(new) /\ Len(new.q) = Len(old.q) /\ new.q # <<>> /\ KeepsSongs(old, new)
      /\ new.queued = old.queued /\ Current(new) = Current(old)
      /\ \A k \in 1..Len(old.q) : Queued(new, k) <=> Queued(old, p[k])
  BY PermuteFits
<1> HIDE DEF new
<1>4. QueuedFirst(new)
  <2>1. SUFFICES ASSUME NEW k \in old.pos + 1 .. Len(old.q), NEW l \in old.pos + 1 .. Len(old.q),
                        k < l, Queued(new, l)
                 PROVE  Queued(new, k)
    BY <1>2, <1>3 DEF QueuedFirst
  <2>2. k \in 1..Len(old.q) /\ l \in 1..Len(old.q)
    BY <1>1
  <2>3. QED
    BY <1>3, <2>1, <2>2
<1>5. Rearranged(old, new)
  BY <1>2, <1>3, <1>4 DEF Rearranged, GoodEdit, GoodStep
<1>6. QED
  BY <1>5 DEF new

LEMMA RearrangedTwice ==
  ASSUME NEW old, Fitting(old), NEW mid, NEW new, Rearranged(old, mid), Rearranged(mid, new)
  PROVE  Rearranged(old, new)
<1>1. /\ Fitting(mid) /\ Fitting(new) /\ mid.q # <<>> /\ new.q # <<>> /\ QueuedFirst(new)
      /\ KeepsSongs(old, mid) /\ KeepsSongs(mid, new) /\ KeepsAhead(old, mid) /\ KeepsAhead(mid, new)
      /\ Current(new) = Current(mid) /\ Current(mid) = Current(old)
      /\ Len(mid.q) = Len(old.q) /\ Len(new.q) = Len(mid.q)
      /\ mid.queued = old.queued /\ new.queued = mid.queued /\ new.pos = mid.pos /\ mid.pos = old.pos
  BY DEF Rearranged, GoodEdit, GoodStep
<1>2. KeepsSongs(old, new)
  BY <1>1 DEF KeepsSongs
<1>3. KeepsAhead(old, new)
  <2>1. SUFFICES ASSUME NEW i \in old.pos + 1 .. Len(old.q), Queued(old, i), old.q[i].id \in Ids(new)
                 PROVE  Position(new, old.q[i].id) >= new.pos
    BY DEF KeepsAhead
  <2>2. /\ i \in 1..Len(old.q) /\ i > old.pos /\ old.pos \in Nat /\ DOMAIN old.q = 1..Len(old.q)
        /\ DOMAIN mid.q = 1..Len(mid.q) /\ mid.pos \in 1..Len(mid.q) /\ old.pos \in 1..Len(old.q)
    BY <1>1, <2>1, QueuePlaces
  <2>3. old.q[i] \in ToSet(mid.q)
    <3>1. old.q[i] \in ToSet(old.q)
      BY <2>2 DEF ToSet
    <3>2. QED
      BY <1>1, <3>1 DEF KeepsSongs
  <2>4. PICK k \in 1..Len(mid.q) : mid.q[k] = old.q[i]
    BY <2>2, <2>3 DEF ToSet
  <2>5. Position(mid, old.q[i].id) = k /\ old.q[i].id \in Ids(mid)
    BY <1>1, <2>4, QueuePlaces
  <2>6. k >= mid.pos
    BY <1>1, <2>1, <2>5 DEF KeepsAhead
  <2>7. k # mid.pos
    <3>1. SUFFICES ASSUME k = mid.pos
                   PROVE  FALSE
      OBVIOUS
    <3>2. old.q[i] = old.q[old.pos]
      BY <1>1, <2>4, <3>1 DEF Current
    <3>3. i = old.pos
      BY <2>2, <3>2, QueuePlaces
    <3>4. QED
      BY <2>2, <3>3
  <2>8. k \in mid.pos + 1 .. Len(mid.q) /\ Queued(mid, k) /\ mid.q[k].id = old.q[i].id
    <3>1. k \in mid.pos + 1 .. Len(mid.q)
      BY <2>2, <2>6, <2>7
    <3>2. QED
      BY <1>1, <2>1, <2>4, <3>1 DEF Queued
  <2>9. QED
    BY <1>1, <2>1, <2>8 DEF KeepsAhead
<1>4. QED
  BY <1>1, <1>2, <1>3 DEF Rearranged, GoodEdit, GoodStep

(* What leaves the queued songs to come where they are. *)
LEMMA SourceOrders ==
  ASSUME NEW old, Fitting(old), old.q # <<>>, QueuedFirst(old), NEW p \in Orders(Len(old.q)),
         StaysUntil(SourceStart(old) - 1, p, Len(old.q))
  PROVE  /\ StaysUntil(old.pos, p, Len(old.q))
         /\ \A k, l \in old.pos + 1 .. Len(old.q) : k < l /\ Queued(old, p[l]) => Queued(old, p[k])
<1> DEFINE s == SourceStart(old)  n == Len(old.q)
<1>1. /\ n \in Nat /\ old.pos \in 1..n /\ s \in Nat /\ s <= n + 1 /\ old.pos < s
      /\ \A i \in old.pos + 1 .. s - 1 : Queued(old, i)
  BY QueuePlaces, StartPlace
<1>2. \A i \in s .. n : ~Queued(old, i)
  BY TogetherIsFirst
<1>3. p \in [1..n -> 1..n] /\ \A k \in 1..n : IF k <= s - 1 THEN p[k] = k ELSE p[k] > s - 1
  BY DEF Orders, StaysUntil
<1> HIDE DEF s, n
<1>4. StaysUntil(old.pos, p, n)
  <2>1. SUFFICES ASSUME NEW k \in 1..n
                 PROVE  IF k <= old.pos THEN p[k] = k ELSE p[k] > old.pos
    BY DEF StaysUntil
  <2>2. p[k] \in Nat /\ k \in Nat /\ (IF k <= s - 1 THEN p[k] = k ELSE p[k] > s - 1)
    BY <1>1, <1>3
  <2>3. QED
    BY <1>1, <2>2
<1>5. ASSUME NEW k \in old.pos + 1 .. n, NEW l \in old.pos + 1 .. n, k < l, Queued(old, p[l])
      PROVE  Queued(old, p[k])
  <2>1. k \in 1..n /\ l \in 1..n /\ p[k] \in 1..n /\ p[l] \in 1..n
    BY <1>1, <1>3
  <2>2. p[l] < s
    BY <1>1, <1>2, <1>5, <2>1
  <2>3. l <= s - 1
    BY <1>1, <1>3, <2>1, <2>2
  <2>4. p[k] = k /\ k \in old.pos + 1 .. s - 1
    BY <1>1, <1>3, <1>5, <2>1, <2>3
  <2>5. QED
    BY <1>1, <2>4
<1>6. QED
  BY <1>4, <1>5 DEF n

(* unshuffle_source. *)
LEMMA UnshuffleIsGood ==
  ASSUME NEW old, Fitting(old), old.q # <<>>, QueuedFirst(old)
  PROVE  Rearranged(old, Unshuffle(old)) /\ Unshuffle(old).order = old.order
<1> DEFINE n == Len(old.q)  w == Len(old.order)  s == SourceStart(old)
           rank(i) == Rank(old, old.q[i].id)
           part == [i \in 1..n |->
             IF i < s THEN 0 ELSE IF ~Ranked(old, i) THEN 2 * w + 1
             ELSE IF rank(i) > SourceRank(old) THEN rank(i) ELSE w + rank(i)]
           p == Arranged(1..n, part)
<1>1. n \in Nat /\ DOMAIN old.q = 1..n /\ old.pos \in 1..n /\ s \in Nat /\ s <= n + 1 /\ old.pos < s
  BY QueuePlaces, StartPlace
<1>2. w \in Nat /\ DOMAIN old.order = 1..w
  <2>1. old.order \in Seq(Nat)
    BY DEF Fitting, Queues
  <2>2. QED
    BY <2>1
<1>3. ASSUME NEW i \in 1..n, Ranked(old, i)
      PROVE  rank(i) \in 1..w
  BY <1>2, <1>3 DEF Ranked, ToSet, Rank
<1>4. \A i \in 1..n : part[i] \in Int /\ (IF i <= s - 1 THEN part[i] = 0 ELSE part[i] > 0)
  <2>1. SUFFICES ASSUME NEW i \in 1..n
                 PROVE  part[i] \in Int /\ (IF i <= s - 1 THEN part[i] = 0 ELSE part[i] > 0)
    OBVIOUS
  <2>2. CASE i < s
    BY <1>1, <2>2
  <2>3. CASE i >= s /\ ~Ranked(old, i)
    BY <1>1, <1>2, <2>3
  <2>4. CASE i >= s /\ Ranked(old, i)
    <3>1. rank(i) \in 1..w
      BY <1>3, <2>4
    <3> HIDE DEF rank
    <3>2. part[i] = rank(i) \/ part[i] = w + rank(i)
      BY <1>1, <2>4
    <3> HIDE DEF part
    <3>3. QED
      BY <1>1, <1>2, <2>4, <3>1, <3>2
  <2>5. QED
    BY <1>1, <2>2, <2>3, <2>4
<1>5. Unshuffle(old) = Arrange(old, part)
  BY <1>1 DEF Unshuffle
<1>6. part \in [1..n -> Int]
  <2>1. part = [i \in 1..n |-> part[i]]
    OBVIOUS
  <2> HIDE DEF part
  <2>2. QED
    BY <1>4, <2>1
<1> HIDE DEF part
<1>7. Arrange(old, part) = Permute(old, p) /\ p \in Orders(n)
  BY <1>6, ArrangeFits
<1>8. StaysUntil(s - 1, p, n)
  <2>1. s - 1 \in 0..n
    BY <1>1
  <2> DEFINE c == s - 1
  <2>2. c \in 0..n /\ \A i \in 1..n : IF i <= c THEN part[i] = 0 ELSE part[i] > 0
    BY <1>4, <2>1
  <2> HIDE DEF c
  <2>3. \A k \in 1..n : IF k <= c THEN p[k] = k ELSE p[k] > c
    BY <1>1, <1>6, <2>2, ArrangeKeepsStart
  <2>4. QED
    BY <2>3 DEF StaysUntil, c
<1> HIDE DEF p
<1>9. Rearranged(old, Permute(old, p))
  BY <1>7, <1>8, SourceOrders, PermuteIsGood
<1>10. Permute(old, p).order = old.order
  BY <1>7, PermuteFits
<1>11. QED
  BY <1>5, <1>7, <1>9, <1>10

LEMMA MixesAreOrders ==
  ASSUME NEW old, Fitting(old), old.q # <<>>, NEW p \in Mixes(old)
  PROVE  p \in Orders(Len(old.q)) /\ StaysUntil(SourceStart(old) - 1, p, Len(old.q))
<1> DEFINE n == Len(old.q)  s == SourceStart(old)
<1>1. n \in Nat /\ DOMAIN old.q = 1..n /\ s \in Nat /\ s <= n + 1
  BY QueuePlaces, StartPlace
<1>2. IsFiniteSet(1..n) /\ Cardinality(1..n) = n
  <2> HIDE DEF n
  <2>1. QED
    BY <1>1, FS_Interval
<1>3. p \in [1..n -> 1..n] /\ \A k, l \in 1..n : k # l => p[k] # p[l]
  BY <1>1, <1>2 DEF Mixes, SetToSeqs
<1>4. \A i \in 1 .. s - 1 : p[i] = i
  BY DEF Mixes
<1>5. p \in Orders(n)
  BY <1>3 DEF Orders
<1>6. ASSUME NEW k \in 1..n
      PROVE  IF k <= s - 1 THEN p[k] = k ELSE p[k] > s - 1
  <2> HIDE DEF n, s
  <2>1. CASE k <= s - 1
    BY <1>1, <1>4, <2>1
  <2>2. CASE ~(k <= s - 1)
    <3>1. p[k] \in 1..n /\ p[k] \in Nat
      BY <1>1, <1>3
    <3>2. p[k] <= s - 1 => p[p[k]] = p[k] /\ p[k] # k
      BY <1>1, <1>4, <2>2, <3>1
    <3>3. QED
      BY <1>1, <1>3, <2>2, <3>1, <3>2
  <2>3. QED
    BY <2>1, <2>2
<1>7. QED
  BY <1>5, <1>6 DEF StaysUntil

LEMMA KnowsOrderFits ==
  ASSUME NEW old, Fitting(old)
  PROVE  LET new == KnowsOrder(old)
         IN Fitting(new) /\ new.q = old.q /\ new.pos = old.pos /\ new.queued = old.queued
<1> DEFINE new == KnowsOrder(old)
<1>1. CASE old.order # <<>>
  BY <1>1 DEF KnowsOrder
<1>2. CASE old.order = <<>>
  <2>1. /\ old = [q |-> old.q, queued |-> old.queued, order |-> old.order, pos |-> old.pos]
        /\ old.q \in Seq(Entry) /\ old.queued \in SUBSET Nat /\ old.pos \in Nat \ {0}
    BY DEF Fitting, Queues
  <2> DEFINE ids == IdsOf(old.q)
  <2>2. ids \in Seq(Nat) /\ IsInjective(ids)
    <3>1. Len(old.q) \in Nat /\ DOMAIN old.q = 1..Len(old.q) /\ \A i \in 1..Len(old.q) : old.q[i].id \in Nat
      BY QueuePlaces
    <3>2. ids = [i \in 1..Len(old.q) |-> old.q[i].id]
      BY <3>1 DEF IdsOf
    <3>3. QED
      BY <3>1, <3>2 DEF Fitting
  <2>3. new = [old EXCEPT !.order = ids]
    BY <1>2 DEF KnowsOrder
  <2> HIDE DEF ids, new
  <2>4. new = [q |-> old.q, queued |-> old.queued, order |-> ids, pos |-> old.pos]
    BY <2>1, <2>3
  <2>5. new.q = old.q /\ new.queued = old.queued /\ new.pos = old.pos /\ new.order = ids
    BY <2>4
  <2>6. new \in Queues
    BY <2>1, <2>2, <2>4 DEF Queues
  <2>7. Ids(new) = Ids(old)
    BY <2>5 DEF Ids
  <2>8. Fitting(new)
    BY <2>2, <2>5, <2>6, <2>7 DEF Fitting
  <2>9. QED
    BY <2>5, <2>8 DEF new
<1>3. QED
  BY <1>1, <1>2

LEMMA MixIsGood ==
  ASSUME NEW old, Fitting(old), old.q # <<>>, QueuedFirst(old), NEW p \in Mixes(old)
  PROVE  Rearranged(old, Permute(KnowsOrder(old), p))
<1> DEFINE mid == KnowsOrder(old)  new == Permute(mid, p)
<1>1. Fitting(mid) /\ mid.q = old.q /\ mid.pos = old.pos /\ mid.queued = old.queued
  BY KnowsOrderFits
<1> HIDE DEF mid
<1>2. QueuedFirst(mid) /\ SourceStart(mid) = SourceStart(old) /\ mid.q # <<>>
  BY <1>1 DEF QueuedFirst, Queued, SourceStart
<1>3. p \in Orders(Len(mid.q)) /\ StaysUntil(SourceStart(mid) - 1, p, Len(mid.q))
  BY <1>1, <1>2, MixesAreOrders
<1>4. Rearranged(mid, new)
  BY <1>1, <1>2, <1>3, SourceOrders, PermuteIsGood
<1> HIDE DEF new
<1>5. Rearranged(old, new)
  BY <1>1, <1>4 DEF Rearranged, GoodEdit, GoodStep, KeepsSongs, KeepsAhead, Queued, Current
<1>6. QED
  BY <1>5 DEF new, mid

(* shuffle_source, shuffle_source_albums. *)
LEMMA ShuffleIsGood ==
  ASSUME NEW old, Fitting(old), old.q # <<>>, QueuedFirst(old),
         NEW new \in ShuffleSongs(old) \cup ShuffleAlbums(old)
  PROVE  Rearranged(old, new)
<1>1. ShuffleAlbums(old) \subseteq {Permute(KnowsOrder(old), p) : p \in Mixes(old)}
  BY DEF ShuffleAlbums
<1>2. PICK p \in Mixes(old) : new = Permute(KnowsOrder(old), p)
  BY <1>1 DEF ShuffleSongs
<1>3. QED
  BY <1>2, MixIsGood

(* Queued or no longer queued, in its place. *)
LEMMA MarkFits ==
  ASSUME NEW old, Fitting(old), NEW marked \in SUBSET Ids(old)
  PROVE  LET new == [old EXCEPT !.queued = marked]
         IN /\ Fitting(new) /\ new.q = old.q /\ new.pos = old.pos /\ new.order = old.order
            /\ new.queued = marked /\ Ids(new) = Ids(old)
<1> DEFINE new == [old EXCEPT !.queued = marked]
<1>1. /\ old = [q |-> old.q, queued |-> old.queued, order |-> old.order, pos |-> old.pos]
      /\ old.q \in Seq(Entry) /\ old.order \in Seq(Nat) /\ old.pos \in Nat \ {0}
  BY DEF Fitting, Queues
<1>2. marked \in SUBSET Nat
  <2>1. \A id \in Ids(old) : id \in Nat
    BY QueuePlaces DEF Ids
  <2>2. QED
    BY <2>1
<1>3. new = [q |-> old.q, queued |-> marked, order |-> old.order, pos |-> old.pos]
  <2>1. ASSUME NEW a, NEW b, NEW c, NEW d
        PROVE  [[q |-> a, queued |-> b, order |-> c, pos |-> d] EXCEPT !.queued = marked]
                 = [q |-> a, queued |-> marked, order |-> c, pos |-> d]
    OBVIOUS
  <2>2. QED
    BY <1>1, <2>1
<1> HIDE DEF new
<1>4. new \in Queues
  BY <1>1, <1>2, <1>3 DEF Queues
<1>5. new.q = old.q /\ new.pos = old.pos /\ new.order = old.order /\ new.queued = marked
  BY <1>3
<1>6. Ids(new) = Ids(old)
  BY <1>5 DEF Ids
<1>7. Fitting(new)
  BY <1>4, <1>5, <1>6 DEF Fitting
<1>8. QED
  BY <1>5, <1>6, <1>7 DEF new

LEMMA MarkIsGood ==
  ASSUME NEW old, Fitting(old), old.q # <<>>, NEW marked \in SUBSET Ids(old),
         QueuedFirst([old EXCEPT !.queued = marked])
  PROVE  GoodEdit(old, [old EXCEPT !.queued = marked])
<1> DEFINE new == [old EXCEPT !.queued = marked]
<1>1. Fitting(new) /\ new.q = old.q /\ new.pos = old.pos
  BY MarkFits
<1>2. QueuedFirst(new)
  OBVIOUS
<1> HIDE DEF new
<1>3. KeepsSongs(old, new) /\ Current(new) = Current(old)
  BY <1>1 DEF KeepsSongs, Current
<1>4. KeepsAhead(old, new)
  <2>1. SUFFICES ASSUME NEW i \in old.pos + 1 .. Len(old.q)
                 PROVE  Position(new, old.q[i].id) >= new.pos
    BY DEF KeepsAhead
  <2>2. i \in 1..Len(old.q) /\ i > old.pos /\ old.pos \in Nat
    BY QueuePlaces
  <2>3. Position(new, old.q[i].id) = i
    BY <1>1, <2>2, QueuePlaces
  <2>4. QED
    BY <1>1, <2>2, <2>3
<1>5. GoodEdit(old, new)
  BY <1>1, <1>2, <1>3, <1>4 DEF GoodEdit, GoodStep
<1>6. QED
  BY <1>5 DEF new

(* Two neighbours to come, both queued or neither, change places. *)
LEMMA SwapIsGood ==
  ASSUME NEW old, Fitting(old), old.q # <<>>, QueuedFirst(old),
         NEW i \in old.pos + 1 .. Len(old.q), NEW j \in old.pos + 1 .. Len(old.q),
         Queued(old, i) <=> Queued(old, j)
  PROVE  GoodEdit(old, Swap(old, i, j))
<1> DEFINE n == Len(old.q)  p == [k \in 1..n |-> IF k = i THEN j ELSE IF k = j THEN i ELSE k]
<1>1. /\ n \in Nat /\ DOMAIN old.q = 1..n /\ old.pos \in 1..n /\ i \in 1..n /\ j \in 1..n
      /\ i > old.pos /\ j > old.pos
  BY QueuePlaces
<1>2. p \in Orders(n)
  BY <1>1 DEF Orders
<1>3. StaysUntil(old.pos, p, n)
  BY <1>1 DEF StaysUntil
<1>4. \A k \in old.pos + 1 .. n : Queued(old, p[k]) <=> Queued(old, k)
  BY <1>1
<1>5. Swap(old, i, j) = Permute(old, p)
  <2>1. old = [q |-> old.q, queued |-> old.queued, order |-> old.order, pos |-> old.pos]
        /\ old.q \in Seq(Entry)
    BY DEF Fitting, Queues
  <2> DEFINE moved == [k \in 1..n |-> old.q[p[k]]]  a == old.q[i]  b == old.q[j]
             at == CHOOSE k \in 1..n : p[k] = old.pos
  <2>2. at = old.pos
    <3>1. p[old.pos] = old.pos /\ \A k \in 1..n : p[k] = old.pos => k = old.pos
      BY <1>1
    <3> HIDE DEF p
    <3>2. QED
      BY <1>1, <3>1
  <2>3. Permute(old, p) = [old EXCEPT !.q = moved, !.pos = at]
    BY <1>1 DEF Permute
  <2>4. [[old.q EXCEPT ![i] = b] EXCEPT ![j] = a] = moved
    <3>1. old.q = [k \in 1..n |-> old.q[k]]
      BY <1>1, <2>1
    <3>2. QED
      BY <1>1, <3>1
  <2>5. Swap(old, i, j) = [old EXCEPT !.q = [[old.q EXCEPT ![i] = b] EXCEPT ![j] = a]]
    <3>1. \A x : [q |-> x, queued |-> old.queued, order |-> old.order, pos |-> old.pos]
                   = [[q |-> old.q, queued |-> old.queued, order |-> old.order, pos |-> old.pos] EXCEPT !.q = x]
      OBVIOUS
    <3>2. QED
      BY <2>1, <3>1 DEF Swap
  <2> HIDE DEF moved, at, a, b, p
  <2>6. QED
    BY <2>1, <2>2, <2>3, <2>4, <2>5
<1> HIDE DEF p
<1>6. \A k, l \in old.pos + 1 .. n : k < l /\ Queued(old, p[l]) => Queued(old, p[k])
  BY <1>4 DEF QueuedFirst
<1>7. Rearranged(old, Permute(old, p))
  BY <1>2, <1>3, <1>6, PermuteIsGood
<1>8. QED
  BY <1>5, <1>7 DEF Rearranged

(* move_entry. *)
LEMMA MoveIsGood ==
  ASSUME NEW old, Fitting(old), old.q # <<>>, QueuedFirst(old), NEW i \in 1..Len(old.q), NEW up \in BOOLEAN,
         MoveEntry(old, i, up) # old
  PROVE  GoodEdit(old, MoveEntry(old, i, up))
<1> DEFINE n == Len(old.q)  s == SourceStart(old)  new == MoveEntry(old, i, up)
<1>1. /\ n \in Nat /\ DOMAIN old.q = 1..n /\ old.pos \in 1..n /\ i \in 1..n
      /\ s \in Nat /\ s <= n + 1 /\ old.pos < s
      /\ \A k \in old.pos + 1 .. s - 1 : Queued(old, k)
      /\ old.queued \subseteq Ids(old) /\ \A k \in 1..n : old.q[k].id \in Ids(old)
      /\ \A k, l \in 1..n : old.q[k].id = old.q[l].id => k = l
  BY QueuePlaces, StartPlace DEF Fitting
<1>2. \A k \in s .. n : ~Queued(old, k)
  BY TogetherIsFirst
<1>3. i > old.pos
  BY <1>1 DEF MoveEntry
<1>4. CASE up /\ ~Queued(old, i) /\ i = s
  <2> DEFINE marked == old.queued \cup {old.q[i].id}
  <2>1. new = [old EXCEPT !.queued = marked]
    BY <1>1, <1>3, <1>4 DEF MoveEntry
  <2>2. marked \in SUBSET Ids(old)
    BY <1>1
  <2> DEFINE to == [old EXCEPT !.queued = marked]
  <2>3. to.q = old.q /\ to.pos = old.pos /\ to.queued = marked
    BY <2>2, MarkFits
  <2>4. QueuedFirst(to)
    <3> HIDE DEF to
    <3>1. SUFFICES ASSUME NEW k \in old.pos + 1 .. n, NEW l \in old.pos + 1 .. n, k < l, Queued(to, l)
                   PROVE  Queued(to, k)
      BY <2>3 DEF QueuedFirst
    <3>2. k \in 1..n /\ l \in 1..n
      BY <1>1
    <3>3. Queued(old, l) \/ l = i
      BY <1>1, <2>3, <3>1, <3>2 DEF Queued
    <3>4. l <= s
      <4> HIDE DEF s
      <4>1. QED
        BY <1>1, <1>2, <1>4, <3>2, <3>3
    <3>5. k \in old.pos + 1 .. s - 1
      <4> HIDE DEF s
      <4>1. QED
        BY <1>1, <3>1, <3>2, <3>4
    <3>6. QED
      BY <1>1, <2>3, <3>5 DEF Queued
  <2>5. QED
    BY <2>1, <2>2, <2>4, MarkIsGood
<1>5. CASE ~up /\ Queued(old, i) /\ i + 1 = s
  <2> DEFINE marked == old.queued \ {old.q[i].id}
  <2>1. new = [old EXCEPT !.queued = marked]
    BY <1>1, <1>3, <1>5 DEF MoveEntry
  <2>2. marked \in SUBSET Ids(old)
    BY <1>1
  <2> DEFINE to == [old EXCEPT !.queued = marked]
  <2>3. to.q = old.q /\ to.pos = old.pos /\ to.queued = marked
    BY <2>2, MarkFits
  <2>4. QueuedFirst(to)
    <3> HIDE DEF to
    <3>1. SUFFICES ASSUME NEW k \in old.pos + 1 .. n, NEW l \in old.pos + 1 .. n, k < l, Queued(to, l)
                   PROVE  Queued(to, k)
      BY <2>3 DEF QueuedFirst
    <3>2. k \in 1..n /\ l \in 1..n
      BY <1>1
    <3>3. Queued(old, l)
      BY <2>3, <3>1 DEF Queued
    <3>4. l < s
      <4> HIDE DEF s
      <4>1. QED
        BY <1>1, <1>2, <3>2, <3>3
    <3>5. k \in old.pos + 1 .. s - 1 /\ k # i
      <4> HIDE DEF s
      <4>1. QED
        BY <1>1, <1>5, <3>1, <3>2, <3>4
    <3>6. old.q[k].id # old.q[i].id
      BY <1>1, <3>2, <3>5
    <3>7. QED
      BY <1>1, <2>3, <3>5, <3>6 DEF Queued
  <2>5. QED
    BY <2>1, <2>2, <2>4, MarkIsGood
<1>6. CASE /\ ~(up /\ ~Queued(old, i) /\ i = s) /\ ~(~up /\ Queued(old, i) /\ i + 1 = s)
           /\ up
  <2>1. ~(Queued(old, i) /\ i = old.pos + 1) /\ new = Swap(old, i, i - 1)
    BY <1>1, <1>3, <1>6 DEF MoveEntry
  <2> HIDE DEF s
  <2>2. i # old.pos + 1
    <3>1. SUFFICES ASSUME i = old.pos + 1
                   PROVE  FALSE
      OBVIOUS
    <3>2. i # s
      BY <1>6, <2>1, <3>1
    <3>3. i \in old.pos + 1 .. s - 1
      BY <1>1, <3>1, <3>2
    <3>4. QED
      BY <1>1, <2>1, <3>1, <3>3
  <2>3. i \in old.pos + 1 .. n /\ i - 1 \in old.pos + 1 .. n
    BY <1>1, <1>3, <2>2
  <2>4. Queued(old, i) <=> Queued(old, i - 1)
    <3>1. CASE i < s
      <4>1. i \in old.pos + 1 .. s - 1 /\ i - 1 \in old.pos + 1 .. s - 1
        BY <1>1, <2>3, <3>1
      <4>2. QED
        BY <1>1, <4>1
    <3>2. CASE i > s
      <4>1. i \in s .. n /\ i - 1 \in s .. n
        BY <1>1, <3>2
      <4>2. QED
        BY <1>2, <4>1
    <3>3. CASE i = s
      <4>1. i \in s .. n
        BY <1>1, <3>3
      <4>2. QED
        BY <1>2, <1>6, <3>3, <4>1
    <3>4. QED
      BY <1>1, <3>1, <3>2, <3>3
  <2> HIDE DEF new
  <2>5. GoodEdit(old, Swap(old, i, i - 1))
    BY <2>3, <2>4, SwapIsGood
  <2>6. QED
    BY <2>1, <2>5 DEF new
<1>7. CASE /\ ~(up /\ ~Queued(old, i) /\ i = s) /\ ~(~up /\ Queued(old, i) /\ i + 1 = s)
           /\ ~up
  <2>1. i # n /\ new = Swap(old, i, i + 1)
    BY <1>1, <1>3, <1>7 DEF MoveEntry
  <2> HIDE DEF s
  <2>2. i \in old.pos + 1 .. n /\ i + 1 \in old.pos + 1 .. n
    BY <1>1, <1>3, <2>1
  <2>3. Queued(old, i) <=> Queued(old, i + 1)
    <3>1. CASE i + 1 < s
      <4>1. i \in old.pos + 1 .. s - 1 /\ i + 1 \in old.pos + 1 .. s - 1
        BY <1>1, <2>2, <3>1
      <4>2. QED
        BY <1>1, <4>1
    <3>2. CASE i >= s
      <4>1. i \in s .. n /\ i + 1 \in s .. n
        BY <1>1, <2>2, <3>2
      <4>2. QED
        BY <1>2, <4>1
    <3>3. CASE i + 1 = s
      <4>1. i \in old.pos + 1 .. s - 1
        BY <1>1, <2>2, <3>3
      <4>2. QED
        BY <1>1, <1>7, <3>3, <4>1
    <3>4. QED
      BY <1>1, <3>1, <3>2, <3>3
  <2> HIDE DEF new
  <2>4. GoodEdit(old, Swap(old, i, i + 1))
    BY <2>2, <2>3, SwapIsGood
  <2>5. QED
    BY <2>1, <2>4 DEF new
<1>8. QED
  BY <1>4, <1>5, <1>6, <1>7

(* A stable arrangement of what is to come that leaves the queued songs first. *)
LEMMA ArrangeIsGood ==
  ASSUME NEW old, Fitting(old), old.q # <<>>, NEW part \in [1..Len(old.q) -> Int],
         \A i \in 1..Len(old.q) : IF i <= old.pos THEN part[i] = 0 ELSE part[i] > 0,
         \A i, j \in old.pos + 1 .. Len(old.q) :
           (part[i] < part[j] \/ (part[i] = part[j] /\ i < j)) /\ Queued(old, j) => Queued(old, i)
  PROVE  Rearranged(old, Arrange(old, part))
<1> DEFINE n == Len(old.q)  p == Arranged(1..n, part)
<1>1. n \in Nat /\ old.pos \in 1..n /\ old.pos \in 0..n
  BY QueuePlaces
<1>2. /\ Arrange(old, part) = Permute(old, p) /\ p \in Orders(n)
      /\ \A k, l \in 1..n : k < l => part[p[k]] < part[p[l]] \/ (part[p[k]] = part[p[l]] /\ p[k] < p[l])
  BY ArrangeFits
<1>3. \A k \in 1..n : IF k <= old.pos THEN p[k] = k ELSE p[k] > old.pos
  BY <1>1, ArrangeKeepsStart
<1> HIDE DEF p
<1>4. StaysUntil(old.pos, p, n)
  BY <1>3 DEF StaysUntil
<1>5. ASSUME NEW k \in old.pos + 1 .. n, NEW l \in old.pos + 1 .. n, k < l, Queued(old, p[l])
      PROVE  Queued(old, p[k])
  <2>1. k \in 1..n /\ l \in 1..n /\ ~(k <= old.pos) /\ ~(l <= old.pos)
    BY <1>1
  <2>2. p[k] \in 1..n /\ p[l] \in 1..n /\ p[k] > old.pos /\ p[l] > old.pos
    BY <1>2, <1>3, <2>1 DEF Orders
  <2>3. p[k] \in old.pos + 1 .. n /\ p[l] \in old.pos + 1 .. n
    BY <1>1, <2>2
  <2>4. part[p[k]] < part[p[l]] \/ (part[p[k]] = part[p[l]] /\ p[k] < p[l])
    BY <1>2, <1>5, <2>1
  <2>5. QED
    BY <1>5, <2>3, <2>4
<1>6. QED
  BY <1>2, <1>4, <1>5, PermuteIsGood

LEMMA QueueEntriesIsGood ==
  ASSUME NEW old, Fitting(old), old.q # <<>>, NEW chosen \in SUBSET (old.pos + 1 .. Len(old.q)),
         NEW part \in [1..Len(old.q) -> Int],
         \A i \in 1..Len(old.q) : IF i <= old.pos THEN part[i] = 0 ELSE part[i] > 0,
         \A i, j \in old.pos + 1 .. Len(old.q) :
           (part[i] < part[j] \/ (part[i] = part[j] /\ i < j)) /\ (Queued(old, j) \/ j \in chosen)
             => Queued(old, i) \/ i \in chosen
  PROVE  GoodEdit(old, QueueEntries(old, chosen, part))
<1> DEFINE n == Len(old.q)
           marked == old.queued \cup {old.q[i].id : i \in chosen}
           mid == [old EXCEPT !.queued = marked]
           new == QueueEntries(old, chosen, part)
<1>1. /\ n \in Nat /\ DOMAIN old.q = 1..n /\ old.pos \in 1..n /\ old.queued \subseteq Ids(old)
      /\ \A i \in 1..n : old.q[i].id \in Ids(old)
      /\ \A i, j \in 1..n : old.q[i].id = old.q[j].id => i = j
  BY QueuePlaces DEF Fitting
<1>2. chosen \subseteq 1..n
  BY <1>1
<1>3. marked \in SUBSET Ids(old)
  BY <1>1, <1>2
<1>4. Fitting(mid) /\ mid.q = old.q /\ mid.pos = old.pos /\ mid.queued = marked
  <2> HIDE DEF marked
  <2>1. QED
    BY <1>3, MarkFits
<1>5. \A i \in 1..n : Queued(mid, i) <=> Queued(old, i) \/ i \in chosen
  <2>1. SUFFICES ASSUME NEW i \in 1..n
                 PROVE  old.q[i].id \in marked <=> old.q[i].id \in old.queued \/ i \in chosen
    <3> HIDE DEF mid, marked
    <3>1. QED
      BY <1>4 DEF Queued
  <2>2. old.q[i].id \in {old.q[j].id : j \in chosen} <=> i \in chosen
    BY <1>1, <1>2
  <2>3. QED
    BY <2>2
<1>6. new = Arrange(mid, part)
  BY DEF QueueEntries
<1> HIDE DEF mid, marked, new
<1>7. \A i, j \in mid.pos + 1 .. Len(mid.q) :
        (part[i] < part[j] \/ (part[i] = part[j] /\ i < j)) /\ Queued(mid, j) => Queued(mid, i)
  <2>1. old.pos + 1 .. n \subseteq 1..n
    BY <1>1
  <2>2. QED
    BY <1>4, <1>5, <2>1
<1>8. Rearranged(mid, new)
  BY <1>4, <1>6, <1>7, ArrangeIsGood
<1>9. old.queued \subseteq mid.queued
  BY <1>4 DEF marked
<1>10. GoodEdit(old, new)
  BY <1>4, <1>8, <1>9 DEF Rearranged, GoodEdit, GoodStep, KeepsSongs, KeepsAhead, Queued, Current
<1>11. QED
  BY <1>10 DEF new

(* queue_entries_next, queue_entries_last. *)
LEMMA EntriesNextIsGood ==
  ASSUME NEW old, Fitting(old), old.q # <<>>, QueuedFirst(old), NEW ids
  PROVE  GoodEdit(old, EntriesNext(old, ids))
<1> DEFINE n == Len(old.q)  chosen == Chosen(old, ids)
           part == [i \in 1..n |-> IF i <= old.pos THEN 0 ELSE IF i \in chosen THEN 1 ELSE 2]
<1>1. n \in Nat /\ DOMAIN old.q = 1..n /\ old.pos \in 1..n
  BY QueuePlaces
<1>2. chosen \in SUBSET (old.pos + 1 .. n)
  BY DEF Chosen
<1> HIDE DEF chosen
<1>3. EntriesNext(old, ids) = QueueEntries(old, chosen, part)
  BY <1>1 DEF EntriesNext, chosen
<1>4. part \in [1..n -> Int] /\ \A i \in 1..n : IF i <= old.pos THEN part[i] = 0 ELSE part[i] > 0
  OBVIOUS
<1>5. ASSUME NEW i \in old.pos + 1 .. n, NEW j \in old.pos + 1 .. n,
             part[i] < part[j] \/ (part[i] = part[j] /\ i < j), Queued(old, j) \/ j \in chosen
      PROVE  Queued(old, i) \/ i \in chosen
  <2>1. i \in 1..n /\ j \in 1..n /\ ~(i <= old.pos) /\ ~(j <= old.pos)
    BY <1>1
  <2>2. part[i] = IF i \in chosen THEN 1 ELSE 2
    BY <2>1
  <2>3. part[j] = IF j \in chosen THEN 1 ELSE 2
    BY <2>1
  <2>4. i \in chosen \/ (j \notin chosen /\ i < j)
    <3> HIDE DEF part
    <3>1. QED
      BY <1>5, <2>2, <2>3
  <2>5. QED
    BY <1>5, <2>4 DEF QueuedFirst
<1> HIDE DEF part
<1>6. GoodEdit(old, QueueEntries(old, chosen, part))
  BY <1>2, <1>4, <1>5, QueueEntriesIsGood
<1>7. QED
  BY <1>3, <1>6
LEMMA EntriesLastIsGood ==
  ASSUME NEW old, Fitting(old), old.q # <<>>, QueuedFirst(old), NEW ids
  PROVE  GoodEdit(old, EntriesLast(old, ids))
<1> DEFINE n == Len(old.q)  chosen == Chosen(old, ids)  s == SourceStart(old)
           part == [i \in 1..n |-> IF i <= old.pos THEN 0 ELSE IF i \in chosen THEN 2
                                   ELSE IF i < s THEN 1 ELSE 3]
<1>1. n \in Nat /\ DOMAIN old.q = 1..n /\ old.pos \in 1..n /\ s \in Nat
      /\ \A i \in old.pos + 1 .. s - 1 : Queued(old, i)
  BY QueuePlaces, StartPlace
<1>2. \A i \in s .. n : ~Queued(old, i)
  BY TogetherIsFirst
<1>3. chosen \in SUBSET (old.pos + 1 .. n)
  BY DEF Chosen
<1> HIDE DEF chosen, s
<1>4. EntriesLast(old, ids) = QueueEntries(old, chosen, part)
  BY <1>1 DEF EntriesLast, chosen, s
<1>5. part \in [1..n -> Int] /\ \A i \in 1..n : IF i <= old.pos THEN part[i] = 0 ELSE part[i] > 0
  OBVIOUS
<1>6. ASSUME NEW i \in old.pos + 1 .. n, NEW j \in old.pos + 1 .. n,
             part[i] < part[j] \/ (part[i] = part[j] /\ i < j), Queued(old, j) \/ j \in chosen
      PROVE  Queued(old, i) \/ i \in chosen
  <2>1. i \in 1..n /\ j \in 1..n /\ ~(i <= old.pos) /\ ~(j <= old.pos)
    BY <1>1
  <2>2. part[i] = IF i \in chosen THEN 2 ELSE IF i < s THEN 1 ELSE 3
    BY <2>1
  <2>3. part[j] = IF j \in chosen THEN 2 ELSE IF j < s THEN 1 ELSE 3
    BY <2>1
  <2>4. j \in chosen \/ j < s
    BY <1>1, <1>2, <1>6, <2>1
  <2>5. i \in chosen \/ i < s
    <3> HIDE DEF part
    <3>1. QED
      BY <1>6, <2>2, <2>3, <2>4
  <2>6. QED
    BY <1>1, <2>1, <2>5
<1> HIDE DEF part
<1>7. GoodEdit(old, QueueEntries(old, chosen, part))
  BY <1>3, <1>5, <1>6, QueueEntriesIsGood
<1>8. QED
  BY <1>4, <1>7

(* When none of the entries is to come, nothing changes. *)
LEMMA NoEntries ==
  ASSUME NEW old, Fitting(old), old.q # <<>>, QueuedFirst(old), NEW ids, Chosen(old, ids) = {}
  PROVE  EntriesNext(old, ids) = old /\ EntriesLast(old, ids) = old
<1> DEFINE n == Len(old.q)  s == SourceStart(old)
           next == [i \in 1..n |-> IF i <= old.pos THEN 0 ELSE 2]
           last == [i \in 1..n |-> IF i <= old.pos THEN 0 ELSE IF i < s THEN 1 ELSE 3]
<1>1. n \in Nat /\ DOMAIN old.q = 1..n /\ old.pos \in 1..n /\ s \in Nat /\ old.pos < s
  BY QueuePlaces, StartPlace
<1>2. [old EXCEPT !.queued = @ \cup {old.q[i].id : i \in {}}] = old
  <2>1. old = [q |-> old.q, queued |-> old.queued, order |-> old.order, pos |-> old.pos]
    BY DEF Fitting, Queues
  <2>2. \A a, b, c, d :
          [[q |-> a, queued |-> b, order |-> c, pos |-> d] EXCEPT !.queued = @ \cup {}]
            = [q |-> a, queued |-> b, order |-> c, pos |-> d]
    OBVIOUS
  <2>3. {old.q[i].id : i \in {}} = {}
    OBVIOUS
  <2>4. QED
    BY <2>1, <2>2, <2>3
<1> HIDE DEF s
<1>3. EntriesNext(old, ids) = Arrange(old, next) /\ EntriesLast(old, ids) = Arrange(old, last)
  <2>1. \A part : QueueEntries(old, {}, part) = Arrange(old, part)
    BY <1>2 DEF QueueEntries
  <2>2. EntriesNext(old, ids) = QueueEntries(old, {}, next)
    BY <1>1 DEF EntriesNext
  <2>3. EntriesLast(old, ids) = QueueEntries(old, {}, last)
    BY <1>1 DEF EntriesLast, s
  <2> HIDE DEF next, last
  <2>4. QED
    BY <2>1, <2>2, <2>3
<1>4. ASSUME NEW part \in [1..n -> Int], \A i, j \in 1..n : i < j => part[i] <= part[j]
      PROVE  Arrange(old, part) = old
  <2> DEFINE p == [i \in 1..n |-> i]
  <2>1. Arrange(old, part) = Permute(old, p)
    BY <1>1, <1>4, ArrangedAlready DEF Arrange
  <2>2. Permute(old, p) = [old EXCEPT !.q = [i \in 1..n |-> old.q[i]], !.pos = old.pos]
    <3>1. [i \in DOMAIN old.q |-> old.q[p[i]]] = [i \in 1..n |-> old.q[i]]
      BY <1>1
    <3>2. (CHOOSE i \in DOMAIN old.q : p[i] = old.pos) = old.pos
      BY <1>1
    <3>3. Permute(old, p) = [old EXCEPT !.q = [i \in DOMAIN old.q |-> old.q[p[i]]],
                                        !.pos = CHOOSE i \in DOMAIN old.q : p[i] = old.pos]
      BY DEF Permute
    <3> HIDE DEF p
    <3>4. QED
      BY <3>1, <3>2, <3>3
  <2>3. [i \in 1..n |-> old.q[i]] = old.q
    <3>1. old.q \in Seq(Entry)
      BY DEF Fitting, Queues
    <3>2. QED
      BY <1>1, <3>1
  <2>4. [old EXCEPT !.q = old.q, !.pos = old.pos] = old
    BY DEF Fitting, Queues
  <2> HIDE DEF p
  <2>5. QED
    BY <2>1, <2>2, <2>3, <2>4
<1>5. /\ next \in [1..n -> Int] /\ \A i, j \in 1..n : i < j => next[i] <= next[j]
      /\ last \in [1..n -> Int] /\ \A i, j \in 1..n : i < j => last[i] <= last[j]
  BY <1>1
<1> HIDE DEF next, last
<1>6. QED
  BY <1>3, <1>4, <1>5

(* The entries at some of the places, in their order. *)
LEMMA OnlyComes ==
  ASSUME NEW old, Fitting(old), NEW S \in SUBSET (1..Len(old.q)), NEW new, new.q = Only(old.q, S)
  PROVE  /\ IsFiniteSet(S) /\ Cardinality(S) \in Nat
         /\ new.q \in Seq(Entry) /\ Len(new.q) = Cardinality(S) /\ Len(new.q) <= Len(old.q)
         /\ IsInjective(IdsOf(new.q)) /\ KeepsSongs(old, new)
         /\ \E from : Comes(old, new, from) /\ Picks(from, S)
<1>1. Len(old.q) \in Nat /\ DOMAIN old.q = 1..Len(old.q) /\ old.q \in Seq(Entry)
  BY QueuePlaces DEF Fitting, Queues
<1> DEFINE c == Cardinality(S)
<1>2. S \in SUBSET DOMAIN old.q
  BY <1>1
<1>3. IsFiniteSet(S) /\ c \in Nat /\ new.q \in Seq(Entry) /\ Len(new.q) = c
  <2> DEFINE only == Only(old.q, S)
  <2>1. IsFiniteSet(S) /\ c \in Nat /\ only \in Seq(Entry) /\ Len(only) = c
    BY <1>1, <1>2, OnlyPlaces
  <2> HIDE DEF c, only
  <2>2. QED
    BY <2>1 DEF only
<1>4. PICK from : Picks(from, S) /\ \A k \in 1..c : Only(old.q, S)[k] = old.q[from[k]]
  BY <1>1, <1>2, OnlyPlaces
<1>5. from \in [1..c -> S] /\ \A a, b \in 1..c : a < b => from[a] < from[b]
  BY <1>4 DEF Picks
<1> HIDE DEF c
<1>6. Comes(old, new, from)
  <2>1. from \in [1..Len(new.q) -> 1..Len(old.q)]
    BY <1>3, <1>5
  <2>2. ASSUME NEW k \in 1..c, NEW l \in 1..c, from[k] = from[l]
        PROVE  k = l
    <3>1. from[k] \in Nat /\ from[l] \in Nat
      <4>1. from[k] \in S /\ from[l] \in S
        BY <1>5, <2>2
      <4>2. \A i \in S : i \in Nat
        BY <1>1
      <4>3. QED
        BY <4>1, <4>2
    <3>2. ~(k < l) /\ ~(l < k)
      BY <1>5, <2>2, <3>1
    <3>3. QED
      BY <1>3, <3>2
  <2>3. QED
    BY <1>3, <1>4, <2>1, <2>2 DEF Comes
<1>7. IsInjective(IdsOf(new.q)) /\ Len(new.q) <= Len(old.q) /\ KeepsSongs(old, new)
  BY <1>3, <1>6, ComesApart
<1> HIDE DEF Picks
<1>8. Comes(old, new, from) /\ Picks(from, S)
  BY <1>4, <1>6
<1>9. QED
  BY <1>3, <1>7, <1>8 DEF c

LEMMA OnlyInjective ==
  ASSUME NEW order \in Seq(Nat), IsInjective(order), NEW R \in SUBSET DOMAIN order
  PROVE  Only(order, R) \in Seq(Nat) /\ IsInjective(Only(order, R))
<1> DEFINE c == Cardinality(R)  s == Only(order, R)
<1>1. c \in Nat /\ s \in Seq(Nat) /\ Len(s) = c
  BY OnlyPlaces
<1>2. PICK at : Picks(at, R) /\ \A n \in 1..c : s[n] = order[at[n]]
  BY OnlyPlaces
<1>3. /\ at \in [1..c -> R] /\ \A n \in 1..c : s[n] = order[at[n]]
      /\ \A a, b \in 1..c : a < b => at[a] < at[b]
  BY <1>2 DEF Picks
<1> HIDE DEF c, s
<1>4. ASSUME NEW a \in 1..c, NEW b \in 1..c, s[a] = s[b]
      PROVE  a = b
  <2>1. at[a] \in DOMAIN order /\ at[b] \in DOMAIN order /\ at[a] \in Nat /\ at[b] \in Nat
    <3>1. at[a] \in R /\ at[b] \in R
      BY <1>3, <1>4
    <3>2. \A i \in DOMAIN order : i \in Nat
      OBVIOUS
    <3>3. QED
      BY <3>1, <3>2
  <2>2. at[a] = at[b]
    BY <1>3, <1>4, <2>1 DEF IsInjective
  <2>3. ~(a < b) /\ ~(b < a)
    BY <1>3, <2>1, <2>2
  <2>4. QED
    BY <1>1, <2>3
<1>5. IsInjective(s)
  BY <1>1, <1>4 DEF IsInjective
<1>6. QED
  BY <1>1, <1>5 DEF s

(* The queue with some entries alone, the song playing among them. *)
LEMMA KeepIsGood ==
  ASSUME QueueAssumption, NEW old, Fitting(old), old.q # <<>>, QueuedFirst(old), NEW S \in SUBSET (1..Len(old.q)),
         old.pos \in S, NEW at \in Nat, Cardinality({j \in S : j < old.pos}) = at - 1
  PROVE  GoodEdit(old, Keep(old, S, at))
<1> DEFINE n == Len(old.q)  gone == {old.q[i].id : i \in DOMAIN old.q \ S}
           R == {r \in DOMAIN old.order : old.order[r] \notin gone}
           new == Keep(old, S, at)
<1>1. /\ n \in Nat /\ DOMAIN old.q = 1..n /\ old.pos \in 1..n /\ old.queued \subseteq Ids(old)
      /\ old.queued \subseteq Nat /\ Ids(old) = {old.q[i].id : i \in 1..n}
      /\ \A i, j \in 1..n : old.q[i].id = old.q[j].id => i = j
      /\ old.order \in Seq(Nat) /\ IsInjective(old.order) /\ Len(old.q) <= MaxQueue
  BY QueuePlaces DEF Fitting, Queues, Ids
<1>2. gone = {old.q[i].id : i \in (1..n) \ S}
  BY <1>1
<1>3. new = [q |-> Only(old.q, S), queued |-> old.queued \ gone, order |-> Only(old.order, R), pos |-> at]
  BY DEF Keep
<1>4. Only(old.order, R) \in Seq(Nat) /\ IsInjective(Only(old.order, R))
  <2>1. R \in SUBSET DOMAIN old.order
    OBVIOUS
  <2> HIDE DEF R
  <2>2. QED
    BY <1>1, <2>1, OnlyInjective
<1> HIDE DEF gone, R, new
<1>5. new.q = Only(old.q, S) /\ new.queued = old.queued \ gone /\ new.order = Only(old.order, R) /\ new.pos = at
  BY <1>3
<1>6. /\ new.q \in Seq(Entry) /\ Len(new.q) <= n /\ Len(new.q) \in Nat
      /\ IsInjective(IdsOf(new.q)) /\ KeepsSongs(old, new)
  <2>1. /\ new.q \in Seq(Entry) /\ Len(new.q) <= n
        /\ IsInjective(IdsOf(new.q)) /\ KeepsSongs(old, new)
    BY <1>5, OnlyComes
  <2>2. QED
    BY <2>1
<1>7. PICK from : Comes(old, new, from) /\ Picks(from, S)
  BY <1>5, OnlyComes
<1>8. /\ Comes(old, new, from)
      /\ \A k \in 1..Len(new.q) : from[k] \in S
      /\ \A i \in S : \E k \in 1..Len(new.q) : from[k] = i
      /\ \A k, l \in 1..Len(new.q) : k < l => from[k] < from[l]
      /\ \A k \in 1..Len(new.q) : Cardinality({j \in S : j < from[k]}) = k - 1
  <2>1. Len(new.q) = Cardinality(S)
    BY <1>5, OnlyComes
  <2>2. QED
    BY <1>7, <2>1 DEF Picks
<1>9. /\ from \in [1..Len(new.q) -> 1..n] /\ \A k \in 1..Len(new.q) : new.q[k] = old.q[from[k]]
      /\ DOMAIN new.q = 1..Len(new.q)
  BY <1>6, <1>8 DEF Comes
<1>10. at \in 1..Len(new.q) /\ from[at] = old.pos
  <2>1. PICK k \in 1..Len(new.q) : from[k] = old.pos
    BY <1>8
  <2>2. k - 1 = at - 1
    BY <1>8, <2>1
  <2>3. QED
    BY <2>1, <2>2
<1>11. \A k \in 1..Len(new.q) : Queued(new, k) <=> Queued(old, from[k])
  <2>1. SUFFICES ASSUME NEW k \in 1..Len(new.q)
                 PROVE  old.q[from[k]].id \notin gone
    BY <1>5, <1>9 DEF Queued
  <2>2. from[k] \in S /\ from[k] \in 1..n
    BY <1>8, <1>9
  <2>3. QED
    BY <1>1, <1>2, <2>2
<1>12. Ids(new) = {new.q[k].id : k \in 1..Len(new.q)}
  BY <1>9 DEF Ids
<1>13. new.queued \subseteq Ids(new)
  <2>1. SUFFICES ASSUME NEW id \in old.queued, id \notin gone
                 PROVE  id \in Ids(new)
    BY <1>5
  <2>2. PICK i \in 1..n : id = old.q[i].id
    BY <1>1
  <2>3. i \in S
    BY <1>2, <2>1, <2>2
  <2>4. PICK k \in 1..Len(new.q) : from[k] = i
    BY <1>8, <2>3
  <2>5. QED
    BY <1>9, <1>12, <2>2, <2>4
<1>14. Fitting(new)
  <2>1. new \in Queues
    <3>1. old.queued \ gone \in SUBSET Nat /\ at \in Nat \ {0}
      BY <1>1, <1>10
    <3>2. QED
      BY <1>3, <1>4, <1>5, <1>6, <3>1 DEF Queues
  <2>2. Len(new.q) <= MaxQueue
    <3>1. MaxQueue \in Nat
      BY DEF QueueAssumption
    <3>2. QED
      BY <1>1, <1>6, <3>1
  <2>3. QED
    BY <1>4, <1>5, <1>6, <1>10, <1>13, <2>1, <2>2 DEF Fitting
<1>15. QueuedFirst(new)
  <2>1. SUFFICES ASSUME NEW k \in at + 1 .. Len(new.q), NEW l \in at + 1 .. Len(new.q), k < l, Queued(new, l)
                 PROVE  Queued(new, k)
    BY <1>5 DEF QueuedFirst
  <2>2. k \in 1..Len(new.q) /\ l \in 1..Len(new.q) /\ at < k /\ at < l
    BY <1>6, <1>10
  <2>3. from[k] < from[l] /\ from[at] < from[k] /\ from[at] < from[l]
    BY <1>8, <1>10, <2>1, <2>2
  <2>4. from[k] \in old.pos + 1 .. n /\ from[l] \in old.pos + 1 .. n
    BY <1>1, <1>9, <1>10, <2>2, <2>3
  <2>5. QED
    BY <1>11, <2>1, <2>2, <2>3, <2>4 DEF QueuedFirst
<1>16. KeepsAhead(old, new)
  <2>1. \A k \in 1..Len(new.q) : k < new.pos => from[k] <= old.pos
    <3>1. SUFFICES ASSUME NEW k \in 1..Len(new.q), k < at
                   PROVE  from[k] <= old.pos
      BY <1>5
    <3>2. from[k] < from[at]
      BY <1>8, <1>10, <3>1
    <3>3. from[k] \in 1..n /\ from[at] \in 1..n
      BY <1>9, <1>10, <3>1
    <3>4. QED
      BY <1>1, <1>10, <3>2, <3>3
  <2>2. QED
    BY <1>8, <1>14, <2>1, ComesAhead
<1>17. Current(new) = Current(old) /\ new.q # <<>>
  BY <1>5, <1>9, <1>10 DEF Current
<1>18. GoodEdit(old, new)
  BY <1>6, <1>14, <1>15, <1>16, <1>17 DEF GoodEdit, GoodStep
<1>19. QED
  BY <1>18 DEF new

(* How many of the places before one stay and go. *)
LEMMA PlacesBefore ==
  ASSUME NEW n \in Nat, NEW S \in SUBSET (1..n), NEW i \in 1..n
  PROVE  /\ Cardinality((1 .. i - 1) \ S) \in 0 .. i - 1
         /\ Cardinality({j \in S : j < i}) = i - 1 - Cardinality((1 .. i - 1) \ S)
<1> DEFINE w == i - 1  B == 1..w
<1>1. w \in Nat
  OBVIOUS
<1>2. IsFiniteSet(B) /\ Cardinality(B) = w
  <2> HIDE DEF w
  <2>1. QED
    BY <1>1, FS_Interval
<1>3. {j \in S : j < i} = B \cap S
  <2>1. \A j \in S : j \in Nat \ {0} /\ (j < i <=> j \in B)
    OBVIOUS
  <2> HIDE DEF B
  <2>2. QED
    BY <2>1
<1> HIDE DEF B, w
<1>4. /\ IsFiniteSet(B \ S) /\ Cardinality(B \ S) = Cardinality(B) - Cardinality(B \cap S)
  BY <1>2, FS_Difference
<1>5. IsFiniteSet(B \cap S) /\ Cardinality(B \cap S) \in Nat /\ Cardinality(B \ S) \in Nat
  <2>1. B \cap S \in SUBSET B
    OBVIOUS
  <2>2. IsFiniteSet(B \cap S)
    BY <1>2, <2>1, FS_Subset
  <2>3. QED
    BY <1>4, <2>2, FS_CardinalityType
<1>6. Cardinality(B \ S) \in 0..w /\ Cardinality(B \cap S) = w - Cardinality(B \ S)
  BY <1>1, <1>2, <1>4, <1>5
<1>7. QED
  BY <1>3, <1>6 DEF B, w

(* remove_entries, clear_queued. *)
LEMMA RemoveIsGood ==
  ASSUME QueueAssumption, NEW old, Fitting(old), old.q # <<>>, QueuedFirst(old), NEW ids
  PROVE  GoodEdit(old, RemoveEntries(old, ids))
<1> DEFINE S == Stay(old, ids)  at == old.pos - Cardinality((1 .. old.pos - 1) \ S)
<1>1. DOMAIN old.q = 1..Len(old.q) /\ Len(old.q) \in Nat /\ old.pos \in 1..Len(old.q)
  BY QueuePlaces
<1>2. S \in SUBSET (1..Len(old.q)) /\ old.pos \in S
  BY <1>1 DEF Stay
<1> HIDE DEF S
<1>3. at \in Nat /\ Cardinality({j \in S : j < old.pos}) = at - 1
  <2>1. /\ Cardinality((1 .. old.pos - 1) \ S) \in 0 .. old.pos - 1
        /\ Cardinality({j \in S : j < old.pos}) = old.pos - 1 - Cardinality((1 .. old.pos - 1) \ S)
    BY <1>1, <1>2, PlacesBefore
  <2>2. QED
    BY <1>1, <2>1
<1>4. RemoveEntries(old, ids) = Keep(old, S, at)
  BY DEF RemoveEntries, S
<1> HIDE DEF at
<1>5. QED
  BY <1>2, <1>3, <1>4, KeepIsGood

(* clear_future_queue. *)
LEMMA ClearFutureIsGood ==
  ASSUME QueueAssumption, NEW old, Fitting(old), old.q # <<>>, QueuedFirst(old)
  PROVE  ClearFuture(old) # old => GoodEdit(old, ClearFuture(old))
<1> DEFINE S == 1 .. old.pos  mid == Keep(old, S, old.pos)
           stayed == {old.q[i].id : i \in 1 .. old.pos}
           R == {r \in DOMAIN old.order : old.order[r] \in stayed}
           order == Only(old.order, R)
           new == [mid EXCEPT !.order = order]
<1>1. DOMAIN old.q = 1..Len(old.q) /\ Len(old.q) \in Nat /\ old.pos \in 1..Len(old.q)
  BY QueuePlaces
<1>2. SUFFICES GoodEdit(old, new)
  BY DEF ClearFuture
<1>3. GoodEdit(old, mid)
  <2>1. S \in SUBSET (1..Len(old.q)) /\ old.pos \in S /\ old.pos \in Nat
    BY <1>1
  <2>2. {j \in S : j < old.pos} = 1 .. old.pos - 1
    BY <1>1
  <2>3. Cardinality(1 .. old.pos - 1) = old.pos - 1
    <3> DEFINE w == old.pos - 1
    <3>1. w \in Nat
      BY <1>1
    <3> HIDE DEF w
    <3>2. Cardinality(1..w) = w
      BY <3>1, FS_Interval
    <3>3. QED
      BY <3>2 DEF w
  <2> HIDE DEF S
  <2>4. QED
    BY <2>1, <2>2, <2>3, KeepIsGood
<1>4. order \in Seq(Nat) /\ IsInjective(order)
  <2>1. R \in SUBSET DOMAIN old.order /\ old.order \in Seq(Nat) /\ IsInjective(old.order)
    BY DEF Fitting, Queues
  <2> HIDE DEF R
  <2>2. QED
    BY <2>1, OnlyInjective
<1> HIDE DEF mid, order
<1>5. /\ mid \in Queues /\ Fitting(mid)
      /\ mid = [q |-> mid.q, queued |-> mid.queued, order |-> mid.order, pos |-> mid.pos]
  BY <1>3 DEF GoodEdit, GoodStep, Fitting, Queues
<1>6. new = [q |-> mid.q, queued |-> mid.queued, order |-> order, pos |-> mid.pos]
  <2>1. ASSUME NEW a, NEW b, NEW c, NEW d
        PROVE  [[q |-> a, queued |-> b, order |-> c, pos |-> d] EXCEPT !.order = order]
                 = [q |-> a, queued |-> b, order |-> order, pos |-> d]
    OBVIOUS
  <2>2. QED
    BY <1>5, <2>1
<1> HIDE DEF new
<1>7. new.q = mid.q /\ new.queued = mid.queued /\ new.pos = mid.pos /\ new.order = order
  BY <1>6
<1>8. Fitting(new)
  <2>1. new \in Queues
    BY <1>4, <1>5, <1>6 DEF Queues
  <2>2. Ids(new) = Ids(mid)
    BY <1>7 DEF Ids
  <2>3. QED
    BY <1>4, <1>5, <1>7, <2>1, <2>2 DEF Fitting
<1>9. QueuedFirst(new) /\ new.q # <<>> /\ KeepsSongs(old, new) /\ KeepsAhead(old, new) /\ Current(new) = Current(old)
  <2>1. /\ QueuedFirst(mid) /\ mid.q # <<>> /\ KeepsSongs(old, mid) /\ KeepsAhead(old, mid)
        /\ Current(mid) = Current(old)
    BY <1>3 DEF GoodEdit, GoodStep
  <2>2. QueuedFirst(new) /\ new.q # <<>> /\ KeepsSongs(old, new) /\ Current(new) = Current(old)
    BY <1>7, <2>1 DEF QueuedFirst, Queued, KeepsSongs, Current
  <2>3. Ids(new) = Ids(mid) /\ \A id : Position(new, id) = Position(mid, id)
    BY <1>7 DEF Ids, Position
  <2>4. KeepsAhead(old, new)
    BY <1>7, <2>1, <2>3 DEF KeepsAhead
  <2>5. QED
    BY <2>2, <2>4
<1>10. QED
  BY <1>8, <1>9 DEF GoodEdit, GoodStep

(* What a step that starts over, or hears of a boundary, makes of the queue. *)
GoodTurn(old, new) == Fitting(new) /\ QueuedFirst(new) /\ KeepsSongs(old, new) /\ (old.q # <<>> => new.q # <<>>)

LEMMA AdvanceFits ==
  ASSUME NEW old, Fitting(old), QueuedFirst(old), NEW i \in 1..Len(old.q), i >= old.pos
  PROVE  LET new == [old EXCEPT !.pos = i]
         IN GoodTurn(old, new) /\ (i <= old.pos + 1 => GoodStep(old, new))
<1> DEFINE new == [old EXCEPT !.pos = i]
<1>1. Len(old.q) \in Nat /\ old.pos \in Nat /\ i \in 1..Len(old.q)
  BY QueuePlaces
<1>2. Fitting(new) /\ new.q = old.q /\ new.pos = i /\ \A j : Queued(new, j) <=> Queued(old, j)
  BY PlaceFits
<1> HIDE DEF new
<1>3. QueuedFirst(new)
  <2>1. SUFFICES ASSUME NEW k \in i + 1 .. Len(old.q), NEW l \in i + 1 .. Len(old.q), k < l, Queued(old, l)
                 PROVE  Queued(old, k)
    BY <1>2 DEF QueuedFirst
  <2>2. k \in old.pos + 1 .. Len(old.q) /\ l \in old.pos + 1 .. Len(old.q)
    BY <1>1
  <2>3. QED
    BY <2>1, <2>2 DEF QueuedFirst
<1>4. KeepsSongs(old, new) /\ old.q # <<>> /\ new.q # <<>>
  BY <1>1, <1>2 DEF KeepsSongs
<1>5. GoodTurn(old, new)
  BY <1>2, <1>3, <1>4 DEF GoodTurn
<1>6. ASSUME i <= old.pos + 1
      PROVE  GoodStep(old, new)
  <2>1. SUFFICES ASSUME NEW j \in old.pos + 1 .. Len(old.q)
                 PROVE  Position(new, old.q[j].id) >= new.pos
    BY <1>2, <1>3, <1>4 DEF KeepsAhead, GoodStep
  <2>2. j \in 1..Len(new.q) /\ old.q[j].id = new.q[j].id
    BY <1>1, <1>2
  <2>3. Position(new, old.q[j].id) = j
    BY <1>2, <2>2, QueuePlaces
  <2>4. QED
    BY <1>1, <1>2, <1>6, <2>3
<1>7. QED
  BY <1>5, <1>6 DEF new

(* Nothing is queued any more. *)
LEMMA NoneQueued ==
  ASSUME NEW old, Fitting(old), old.q # <<>>, NEW new, GoodTurn(old, new), new.queued = {}, NEW i \in 1..Len(new.q)
  PROVE  LET at == [new EXCEPT !.pos = i] IN GoodTurn(old, at) /\ GoodStep(old, at)
<1> DEFINE at == [new EXCEPT !.pos = i]
<1>1. Fitting(new) /\ KeepsSongs(old, new) /\ new.q # <<>>
  BY DEF GoodTurn
<1>2. Fitting(at) /\ at.q = new.q /\ at.queued = {}
  BY <1>1, PlaceFits
<1> HIDE DEF at
<1>3. QueuedFirst(at) /\ KeepsAhead(old, at) /\ KeepsSongs(old, at) /\ at.q # <<>>
  BY <1>1, <1>2 DEF QueuedFirst, KeepsAhead, KeepsSongs, Queued
<1>4. GoodTurn(old, at) /\ GoodStep(old, at)
  BY <1>2, <1>3 DEF GoodTurn, GoodStep
<1>5. QED
  BY <1>4 DEF at

(* drop_played_queued. *)
LEMMA DropFits ==
  ASSUME QueueAssumption, NEW old, Fitting(old), old.q # <<>>, NEW keep
  PROVE  GoodTurn(old, DropPlayedQueued(old, keep)) /\ DropPlayedQueued(old, keep).queued = {}
<1> DEFINE S == {i \in DOMAIN old.q : ~Queued(old, i) \/ old.q[i].id = keep}
           new == DropPlayedQueued(old, keep)
<1>1. DOMAIN old.q = 1..Len(old.q) /\ Len(old.q) \in Nat /\ old.pos \in 1..Len(old.q)
  BY QueuePlaces
<1>2. CASE S = {}
  <2>1. {} \in SUBSET Ids(old)
    OBVIOUS
  <2>2. new = [old EXCEPT !.queued = {}]
    BY <1>2 DEF DropPlayedQueued
  <2> HIDE DEF new
  <2>3. Fitting(new) /\ new.q = old.q /\ new.queued = {}
    BY <2>1, <2>2, MarkFits
  <2>4. QED
    BY <2>3 DEF GoodTurn, QueuedFirst, Queued, KeepsSongs, new
<1>3. CASE S # {}
  <2> DEFINE at == Min({Cardinality(S), old.pos - Cardinality((1 .. old.pos - 1) \ S)})
  <2>1. S \in SUBSET (1..Len(old.q))
    BY <1>1
  <2>2. new = [old EXCEPT !.q = Only(old.q, S), !.queued = {}, !.pos = at]
    BY <1>3 DEF DropPlayedQueued
  <2>3. new = [q |-> Only(old.q, S), queued |-> {}, order |-> old.order, pos |-> at]
        /\ old.order \in Seq(Nat) /\ IsInjective(old.order) /\ Len(old.q) <= MaxQueue
    <3> DEFINE X == Only(old.q, S)
    <3> HIDE DEF at, X
    <3>1. /\ old = [q |-> old.q, queued |-> old.queued, order |-> old.order, pos |-> old.pos]
          /\ old.order \in Seq(Nat) /\ IsInjective(old.order) /\ Len(old.q) <= MaxQueue
      BY DEF Fitting, Queues
    <3>2. new = [old EXCEPT !.q = X, !.queued = {}, !.pos = at]
      BY <2>2 DEF X
    <3> HIDE DEF new
    <3>3. QED
      BY <3>1, <3>2 DEF X
  <2> HIDE DEF S, new
  <2>4. new.q = Only(old.q, S) /\ new.queued = {} /\ new.order = old.order /\ new.pos = at
    BY <2>3
  <2>5. /\ IsFiniteSet(S) /\ Cardinality(S) \in Nat /\ new.q \in Seq(Entry)
        /\ Len(new.q) = Cardinality(S) /\ Len(new.q) <= Len(old.q)
        /\ IsInjective(IdsOf(new.q)) /\ KeepsSongs(old, new)
    BY <2>1, <2>4, OnlyComes
  <2>6. Cardinality(S) # 0
    BY <1>3, <2>5, FS_EmptySet
  <2>7. at \in 1..Cardinality(S)
    <3> DEFINE b == old.pos - Cardinality((1 .. old.pos - 1) \ S)  T == {Cardinality(S), b}
    <3>1. Cardinality((1 .. old.pos - 1) \ S) \in 0 .. old.pos - 1
      BY <1>1, <2>1, PlacesBefore
    <3>2. b \in Nat \ {0}
      BY <1>1, <3>1
    <3> HIDE DEF b
    <3>3. T \in SUBSET Nat /\ T # {} /\ at = Min(T)
      BY <2>5, <3>2 DEF b
    <3> DEFINE c == Cardinality(S)
    <3>4. c \in Nat \ {0} /\ c \in T /\ \A x \in T : x = c \/ x = b
      BY <2>5, <2>6
    <3> HIDE DEF T, at, c
    <3>5. at \in T /\ \A x \in T : at <= x
      BY <3>3, LeastNumber
    <3>6. at \in 1..c
      BY <3>2, <3>3, <3>4, <3>5
    <3>7. QED
      BY <3>6 DEF c
  <2> HIDE DEF at
  <2>8. Fitting(new) /\ new.q # <<>>
    <3>1. at \in Nat \ {0} /\ at <= Len(new.q) /\ new.q # <<>>
      BY <2>5, <2>7
    <3>2. Len(new.q) <= MaxQueue
      BY <1>1, <2>3, <2>5 DEF QueueAssumption
    <3>3. new \in Queues
      BY <2>3, <2>4, <2>5, <3>1 DEF Queues
    <3>4. QED
      BY <2>3, <2>4, <2>5, <3>1, <3>2, <3>3 DEF Fitting
  <2>9. QueuedFirst(new)
    BY <2>4 DEF QueuedFirst, Queued
  <2>10. QED
    BY <2>4, <2>5, <2>8, <2>9 DEF GoodTurn, new
<1>4. QED
  BY <1>2, <1>3

(* Repeat All over the end. *)
LEMMA WrapIsGood ==
  ASSUME QueueAssumption, NEW old, Fitting(old), old.q # <<>>
  PROVE  GoodStep(old, Wrap(old)) /\ GoodTurn(old, Wrap(old))
<1> DEFINE new == DropPlayedQueued(old, 0)
<1>1. GoodTurn(old, new) /\ new.queued = {}
  BY DropFits
<1> HIDE DEF new
<1>2. 1 \in 1..Len(new.q)
  <2>1. Fitting(new) /\ new.q # <<>>
    BY <1>1 DEF GoodTurn
  <2>2. Len(new.q) \in Nat /\ new.pos \in 1..Len(new.q)
    BY <2>1, QueuePlaces
  <2>3. QED
    BY <2>2
<1>3. GoodStep(old, [new EXCEPT !.pos = 1]) /\ GoodTurn(old, [new EXCEPT !.pos = 1])
  BY <1>1, <1>2, NoneQueued
<1>4. QED
  BY <1>3 DEF Wrap, new
LEMMA WrapToFits ==
  ASSUME QueueAssumption, NEW old, Fitting(old), old.q # <<>>, NEW id
  PROVE  GoodTurn(old, WrapTo(old, id))
<1> DEFINE new == DropPlayedQueued(old, id)
<1>1. GoodTurn(old, new) /\ new.queued = {}
  BY DropFits
<1> HIDE DEF new
<1>2. CASE id \in Ids(new)
  <2>1. Position(new, id) \in 1..Len(new.q)
    <3>1. DOMAIN new.q = 1..Len(new.q)
      BY <1>1, QueuePlaces DEF GoodTurn
    <3>2. \E i \in 1..Len(new.q) : new.q[i].id = id
      BY <1>2, <3>1 DEF Ids
    <3>3. QED
      BY <3>1, <3>2 DEF Position
  <2>2. GoodTurn(old, [new EXCEPT !.pos = Position(new, id)])
    BY <1>1, <2>1, NoneQueued
  <2>3. QED
    BY <1>2, <2>2 DEF WrapTo, new
<1>3. CASE id \notin Ids(new)
  BY <1>1, <1>3 DEF WrapTo, new
<1>4. QED
  BY <1>2, <1>3

(* A boundary moves the position. *)
LEMMA AtBoundaryFits ==
  ASSUME QueueAssumption, NEW old, Fitting(old), QueuedFirst(old), NEW id, NEW track, NEW mode
  PROVE  GoodTurn(old, AtBoundary(old, id, track, mode))
<1> DEFINE places == {i \in DOMAIN old.q : old.q[i].id = id}
           found == IF places # {} THEN places ELSE {i \in DOMAIN old.q : old.q[i].track = track}
<1>1. DOMAIN old.q = 1..Len(old.q) /\ Len(old.q) \in Nat /\ old.pos \in Nat
  BY QueuePlaces
<1>2. GoodTurn(old, old)
  BY DEF GoodTurn, KeepsSongs
<1>3. AtBoundary(old, id, track, mode)
        = IF found = {} THEN old
          ELSE IF Min(found) > old.pos THEN [old EXCEPT !.pos = Min(found)]
          ELSE IF mode = "All" THEN WrapTo(old, id) ELSE old
  BY DEF AtBoundary
<1>4. found \in SUBSET (1..Len(old.q))
  BY <1>1
<1> HIDE DEF found
<1>5. CASE found = {}
  BY <1>2, <1>3, <1>5
<1>6. CASE found # {} /\ Min(found) > old.pos
  <2>1. Min(found) \in 1..Len(old.q)
    <3>1. found \in SUBSET Nat
      BY <1>1, <1>4
    <3>2. Min(found) \in found
      BY <1>6, <3>1, LeastNumber
    <3>3. QED
      BY <1>4, <3>2
  <2>2. Min(found) >= old.pos
    BY <1>1, <1>6, <2>1
  <2>3. GoodTurn(old, [old EXCEPT !.pos = Min(found)])
    BY <2>1, <2>2, AdvanceFits
  <2>4. QED
    BY <1>3, <1>6, <2>3
<1>7. CASE found # {} /\ ~(Min(found) > old.pos)
  <2>1. old.q # <<>>
    <3>1. PICK i \in 1..Len(old.q) : TRUE
      BY <1>4, <1>7
    <3>2. QED
      BY <1>1, <3>1
  <2>2. GoodTurn(old, WrapTo(old, id))
    BY <2>1, WrapToFits
  <2>3. QED
    BY <1>2, <1>3, <1>7, <2>2
<1>8. QED
  BY <1>5, <1>6, <1>7

(* replace_queue: a collection of its own ids. *)
LEMMA ReplaceIsGood ==
  ASSUME NEW old, NEW tracks \in Seq(Tracks), tracks # <<>>, Len(tracks) <= MaxQueue,
         NEW index \in 1..Len(tracks), NEW natural \in Seq(Nat), IsInjective(natural)
  PROVE  LET new == ReplaceQueue(tracks, index, natural)
         IN GoodStep(old, new) /\ Counted(new) /\ new.q # <<>> /\ QueuedFirst(new) /\ Fitting(new)
<1> DEFINE n == Len(tracks)  new == ReplaceQueue(tracks, index, natural)
           q == [i \in 1..n |-> [id |-> i, track |-> tracks[i]]]
<1>1. n \in Nat /\ DOMAIN tracks = 1..n /\ index \in Nat \ {0} /\ n # 0
  OBVIOUS
<1>2. new = [q |-> q, queued |-> {}, order |-> natural, pos |-> index]
  BY <1>1 DEF ReplaceQueue
<1>3. q \in Seq(Entry) /\ Len(q) = n /\ DOMAIN q = 1..n /\ \A i \in 1..n : q[i].id = i
  <2>1. \A i \in 1..n : q[i] \in Entry
    BY <1>1 DEF Entry
  <2>2. QED
    BY <1>1, <2>1
<1> HIDE DEF q, new
<1>4. new.q = q /\ new.queued = {} /\ new.order = natural /\ new.pos = index
  BY <1>2
<1>5. IsInjective(IdsOf(q)) /\ IdsOf(q) = [i \in DOMAIN q |-> i]
  BY <1>3 DEF IsInjective, IdsOf
<1>6. Fitting(new)
  <2>1. new \in Queues
    BY <1>1, <1>2, <1>3 DEF Queues
  <2>2. QED
    BY <1>1, <1>3, <1>4, <1>5, <2>1 DEF Fitting
<1>7. QueuedFirst(new) /\ KeepsAhead(old, new) /\ Counted(new) /\ new.q # <<>>
  BY <1>1, <1>3, <1>4, <1>5 DEF QueuedFirst, KeepsAhead, Queued, Counted
<1>8. GoodStep(old, new)
  BY <1>6, <1>7 DEF GoodStep
<1>9. QED
  BY <1>6, <1>7, <1>8 DEF new

(* insert_queue_entry: the new id is of no entry. *)
LEMMA FreshIdIsFresh ==
  ASSUME NEW old, Fitting(old)
  PROVE  FreshId(old) \in Nat \ {0} /\ FreshId(old) \notin Ids(old)
<1> DEFINE n == Len(old.q)  f == [i \in 1..n |-> old.q[i].id]  S == Ids(old) \cup {0}
<1>1. n \in Nat /\ DOMAIN old.q = 1..n /\ \A i \in 1..n : old.q[i].id \in Nat
  BY QueuePlaces
<1>2. f \in [1..n -> Nat]
  BY <1>1
<1>3. PICK b \in Nat : \A i \in 1..n : f[i] <= b
  BY <1>1, <1>2, BoundedSequence
<1>4. S \in SUBSET Nat /\ S # {} /\ \A x \in S : x <= b
  <2>1. Ids(old) = {old.q[i].id : i \in 1..n}
    BY <1>1 DEF Ids
  <2>2. \A i \in 1..n : old.q[i].id <= b
    BY <1>3
  <2>3. QED
    BY <1>1, <2>1, <2>2
<1> HIDE DEF S
<1>5. Max(S) \in S /\ \A x \in S : x <= Max(S)
  BY <1>4, GreatestNumber
<1>6. FreshId(old) = Max(S) + 1 /\ Max(S) \in Nat
  BY <1>4, <1>5 DEF FreshId, S
<1>7. \A x \in Ids(old) : x \in Nat /\ x <= Max(S)
  BY <1>4, <1>5 DEF S
<1>8. QED
  BY <1>6, <1>7

(* insert_queued: a song among the queued ones to come. *)
LEMMA InsertIsGood ==
  ASSUME QueueAssumption, NEW old, Fitting(old), QueuedFirst(old), old.q # <<>>, NEW t \in Tracks, Fits(old, <<t>>),
         NEW at \in Nat, at > old.pos, at <= SourceStart(old)
  PROVE  LET new == Insert(old, at, <<t>>)
         IN /\ GoodEdit(old, new) /\ Len(new.q) = Len(old.q) + 1 /\ new.pos = old.pos
            /\ new.queued # old.queued
<1> DEFINE n == Len(old.q)  e == [id |-> FreshId(old), track |-> t]  s == SourceStart(old)
           q == SubSeq(old.q, 1, at - 1) \o <<e>> \o SubSeq(old.q, at, n)
           marked == old.queued \cup {FreshId(old)}
           new == Insert(old, at, <<t>>)
<1>1. /\ n \in Nat /\ DOMAIN old.q = 1..n /\ old.pos \in 1..n /\ old.q \in Seq(Entry)
      /\ (\A i, j \in 1..n : old.q[i].id = old.q[j].id => i = j)
      /\ (\A i \in 1..n : old.q[i].id \in Ids(old)) /\ old.queued \subseteq Ids(old)
      /\ s \in Nat /\ s <= n + 1 /\ \A i \in old.pos + 1 .. s - 1 : Queued(old, i)
  BY QueuePlaces, StartPlace DEF Fitting, Queues
<1>2. FreshId(old) \in Nat \ {0} /\ FreshId(old) \notin Ids(old) /\ e \in Entry
  BY FreshIdIsFresh DEF Entry
<1>3. at \in 1 .. n + 1 /\ n + 1 <= MaxQueue /\ at <= s
  <2>1. Len(<<t>>) = 1
    OBVIOUS
  <2>2. QED
    BY <1>1, <2>1 DEF Fits
<1>4. new = [q |-> q, queued |-> marked, order |-> old.order, pos |-> old.pos] /\ old.order \in Seq(Nat)
      /\ IsInjective(old.order) /\ old.queued \in SUBSET Nat
  <2> DEFINE one == [i \in DOMAIN <<t>> |-> [id |-> FreshId(old) + i - 1, track |-> <<t>>[i]]]
  <2>1. one = <<e>>
    BY <1>2
  <2>2. ToSet(IdsOf(<<e>>)) = {FreshId(old)}
    <3>1. IdsOf(<<e>>) = <<FreshId(old)>>
      BY DEF IdsOf
    <3>2. QED
      BY <3>1 DEF ToSet
  <2>3. new = [old EXCEPT !.q = SubSeq(@, 1, at - 1) \o one \o SubSeq(@, at, Len(@)),
                          !.queued = @ \cup ToSet(IdsOf(one))]
    BY DEF Insert
  <2> HIDE DEF one
  <2>4. new = [old EXCEPT !.q = q, !.queued = marked]
    BY <2>1, <2>2, <2>3
  <2>5. /\ old = [q |-> old.q, queued |-> old.queued, order |-> old.order, pos |-> old.pos]
        /\ old.order \in Seq(Nat) /\ IsInjective(old.order) /\ old.queued \in SUBSET Nat
    BY DEF Fitting, Queues
  <2> HIDE DEF q, marked, new
  <2>6. QED
    BY <2>4, <2>5
<1>5. /\ q \in Seq(Entry) /\ Len(q) = n + 1 /\ q[at] = e
      /\ \A i \in 1 .. n + 1 : (i < at => q[i] = old.q[i]) /\ (i > at => q[i] = old.q[i - 1])
  <2> DEFINE a == SubSeq(old.q, 1, at - 1)  b == SubSeq(old.q, at, n)
  <2>1. a \in Seq(Entry) /\ Len(a) = at - 1 /\ \A i \in 1 .. at - 1 : a[i] = old.q[i]
    BY <1>1, <1>3
  <2>2. b \in Seq(Entry) /\ Len(b) = n + 1 - at /\ \A i \in 1 .. n + 1 - at : b[i] = old.q[at + i - 1]
    BY <1>1, <1>3
  <2> HIDE DEF a, b, e
  <2>3. a \o <<e>> \in Seq(Entry) /\ Len(a \o <<e>>) = at /\ (a \o <<e>>)[at] = e
        /\ \A i \in 1 .. at - 1 : (a \o <<e>>)[i] = a[i]
    BY <1>2, <1>3, <2>1
  <2> DEFINE c == a \o <<e>>
  <2>4. c \in Seq(Entry) /\ Len(c) = at /\ c[at] = e /\ \A i \in 1 .. at - 1 : c[i] = old.q[i]
    BY <2>1, <2>3
  <2>5. q = c \o b
    BY DEF a, b
  <2> HIDE DEF c, q
  <2>6. q \in Seq(Entry) /\ Len(q) = n + 1
    BY <1>1, <1>3, <2>2, <2>4, <2>5
  <2>7. \A i \in 1 .. n + 1 : q[i] = IF i <= at THEN c[i] ELSE b[i - at]
    BY <1>1, <1>3, <2>2, <2>4, <2>5
  <2>8. ASSUME NEW i \in 1 .. n + 1
        PROVE  (i < at => q[i] = old.q[i]) /\ (i > at => q[i] = old.q[i - 1])
    <3>1. CASE i < at
      <4>1. i \in 1 .. at - 1
        BY <1>3, <3>1
      <4>2. QED
        BY <1>3, <2>4, <2>7, <3>1, <4>1
    <3>2. CASE i > at
      <4>1. i - at \in 1 .. n + 1 - at /\ at + (i - at) - 1 = i - 1 /\ ~(i <= at)
        BY <1>1, <1>3, <3>2
      <4>2. QED
        BY <2>2, <2>7, <3>2, <4>1
    <3>3. QED
      BY <1>3, <3>1, <3>2
  <2>9. q[at] = e
    BY <1>3, <2>4, <2>7
  <2>10. QED
    BY <2>6, <2>8, <2>9
<1>6. e.id = FreshId(old)
  OBVIOUS
<1> HIDE DEF q, e, s, marked, new
<1>7. new.q = q /\ new.queued = marked /\ new.order = old.order /\ new.pos = old.pos
  BY <1>4
<1> DEFINE was(i) == IF i < at THEN i ELSE i - 1
<1>8. ASSUME NEW i \in 1 .. n + 1, i # at
      PROVE  was(i) \in 1..n /\ q[i] = old.q[was(i)]
  BY <1>1, <1>3, <1>5, <1>8
<1> HIDE DEF n
<1>9. IsInjective(IdsOf(q)) /\ DOMAIN q = 1 .. n + 1
  <2>1. DOMAIN q = 1 .. n + 1
    BY <1>5
  <2>2. SUFFICES ASSUME NEW i \in 1 .. n + 1, NEW j \in 1 .. n + 1, q[i].id = q[j].id
                 PROVE  i = j
    BY <2>1 DEF IsInjective, IdsOf
  <2>3. CASE i # at /\ j # at
    <3> DEFINE k == was(i)  l == was(j)
    <3>1. k \in 1..n /\ l \in 1..n /\ q[i] = old.q[k] /\ q[j] = old.q[l]
      BY <1>8, <2>2, <2>3
    <3> HIDE DEF k, l, was
    <3>2. k = l
      BY <1>1, <2>2, <3>1
    <3> USE DEF k, l, was
    <3>3. QED
      BY <1>1, <1>3, <2>2, <2>3, <3>2
  <2>4. ASSUME NEW k \in 1 .. n + 1, k # at
        PROVE  q[k].id # q[at].id
    <3>1. q[k].id \in Ids(old)
      <4> HIDE DEF was
      <4>1. QED
        BY <1>1, <1>8, <2>4
    <3>2. QED
      BY <1>2, <1>5, <1>6, <3>1
  <2>5. QED
    BY <2>2, <2>3, <2>4
<1>10. Ids(new) = {q[i].id : i \in 1 .. n + 1}
  BY <1>7, <1>9 DEF Ids
<1>11. marked \subseteq Ids(new)
  <2>1. FreshId(old) \in Ids(new)
    BY <1>3, <1>5, <1>6, <1>10 DEF n
  <2>2. ASSUME NEW id \in old.queued
        PROVE  id \in Ids(new)
    <3>1. PICK i \in 1..n : old.q[i].id = id
      BY <1>1, <2>2 DEF Ids
    <3> DEFINE k == IF i < at THEN i ELSE i + 1
    <3>2. k \in 1 .. n + 1 /\ k # at /\ was(k) = i
      BY <1>1, <1>3, <3>1
    <3> HIDE DEF k, was
    <3>3. q[k].id = id
      BY <1>8, <3>1, <3>2
    <3>4. QED
      BY <1>10, <3>2, <3>3
  <2>3. QED
    BY <2>1, <2>2 DEF marked
<1>12. Fitting(new)
  <2>1. new \in Queues
    <3>1. marked \in SUBSET Nat /\ old.pos \in Nat \ {0}
      BY <1>1, <1>2, <1>4 DEF marked
    <3>2. QED
      BY <1>4, <1>5, <3>1 DEF Queues
  <2>2. Len(new.q) <= MaxQueue /\ old.pos <= Len(new.q)
    BY <1>1, <1>3, <1>5, <1>7
  <2>3. QED
    BY <1>4, <1>7, <1>9, <1>11, <2>1, <2>2 DEF Fitting
<1>13. \A i \in s .. n : ~Queued(old, i)
  BY TogetherIsFirst DEF s, n
<1>14. QueuedFirst(new)
  <2>1. SUFFICES ASSUME NEW i \in old.pos + 1 .. n + 1, NEW j \in old.pos + 1 .. n + 1, i < j, q[j].id \in marked
                 PROVE  q[i].id \in marked
    BY <1>5, <1>7 DEF QueuedFirst, Queued
  <2>2. i \in 1 .. n + 1 /\ j \in 1 .. n + 1
    BY <1>1
  <2>3. j <= s
    <3>1. SUFFICES ASSUME j > s
                   PROVE  FALSE
      BY <1>1
    <3>2. j # at /\ was(j) \in s .. n
      BY <1>1, <1>3, <2>2, <3>1
    <3>3. q[j].id \in Ids(old) /\ q[j].id \notin old.queued
      <4> HIDE DEF was
      <4>1. QED
        BY <1>1, <1>8, <1>13, <2>2, <3>2 DEF Queued
    <3>4. QED
      BY <1>2, <2>1, <3>3 DEF marked
  <2>4. CASE i = at
    BY <1>5, <1>6, <2>4 DEF marked
  <2>5. CASE i # at
    <3>1. was(i) \in old.pos + 1 .. s - 1
      BY <1>1, <1>3, <2>1, <2>2, <2>3, <2>5
    <3> HIDE DEF was
    <3>2. q[i].id \in old.queued
      BY <1>1, <1>8, <2>2, <2>5, <3>1 DEF Queued
    <3>3. QED
      BY <3>2 DEF marked
  <2>6. QED
    BY <2>4, <2>5
<1>15. new.queued # old.queued
  BY <1>1, <1>2, <1>7 DEF marked
<1>16. KeepsSongs(old, new) /\ KeepsAhead(old, new)
  <2>1. Len(new.q) # Len(old.q)
    BY <1>1, <1>5, <1>7 DEF n
  <2>2. QED
    BY <1>15, <2>1 DEF KeepsSongs, KeepsAhead
<1>17. Current(new) = Current(old)
  <2>1. old.pos < at /\ old.pos \in 1 .. n + 1
    BY <1>1
  <2>2. q[old.pos] = old.q[old.pos]
    BY <1>5, <2>1
  <2>3. QED
    BY <1>7, <2>2 DEF Current
<1>18. new.q # <<>>
  BY <1>1, <1>5, <1>7
<1>19. GoodEdit(old, new) /\ Len(new.q) = n + 1 /\ new.pos = old.pos
  BY <1>5, <1>7, <1>12, <1>14, <1>16, <1>17, <1>18 DEF GoodEdit, GoodStep
<1>20. QED
  BY <1>15, <1>19 DEF new, n

(* queue_songs, on_play_now. *)
LEMMA QueueSongIsGood ==
  ASSUME QueueAssumption, NEW old, Fitting(old), QueuedFirst(old), NEW t \in Tracks,
         old.q = <<>> \/ Fits(old, <<t>>), NEW new \in {QueueNext(old, <<t>>), QueueLast(old, <<t>>)}
  PROVE  /\ GoodStep(old, new)
         /\ old.q # <<>> => GoodEdit(old, new) /\ Len(new.q) = Len(old.q) + 1 /\ new.pos = old.pos
                            /\ new.queued # old.queued
<1>1. CASE old.q = <<>>
  <2>1. new = ReplaceQueue(<<t>>, 1, <<>>)
    BY <1>1 DEF QueueNext, QueueLast, Insert
  <2>2. <<t>> \in Seq(Tracks) /\ <<t>> # <<>> /\ Len(<<t>>) = 1 /\ 1 <= MaxQueue /\ 1 \in 1..Len(<<t>>)
    BY DEF QueueAssumption
  <2>3. <<>> \in Seq(Nat) /\ IsInjective(<<>>)
    BY DEF IsInjective
  <2>4. GoodStep(old, ReplaceQueue(<<t>>, 1, <<>>))
    BY <2>2, <2>3, ReplaceIsGood
  <2>5. QED
    BY <1>1, <2>1, <2>4
<1>2. CASE old.q # <<>>
  <2>1. old.pos \in Nat /\ SourceStart(old) \in Nat /\ old.pos < SourceStart(old)
    BY <1>2, QueuePlaces, StartPlace
  <2>2. PICK at \in Nat : at > old.pos /\ at <= SourceStart(old) /\ new = Insert(old, at, <<t>>)
    <3>1. old.pos + 1 \in Nat /\ old.pos + 1 > old.pos /\ old.pos + 1 <= SourceStart(old)
          /\ SourceStart(old) > old.pos /\ SourceStart(old) <= SourceStart(old)
      BY <2>1
    <3>2. new = Insert(old, old.pos + 1, <<t>>) \/ new = Insert(old, SourceStart(old), <<t>>)
      BY DEF QueueNext, QueueLast
    <3>3. QED
      BY <2>1, <3>1, <3>2
  <2>3. GoodEdit(old, new) /\ Len(new.q) = Len(old.q) + 1 /\ new.pos = old.pos /\ new.queued # old.queued
    BY <1>2, <2>2, InsertIsGood
  <2>4. QED
    BY <2>3 DEF GoodEdit
<1>3. QED
  BY <1>1, <1>2
LEMMA PlayNowIsGood ==
  ASSUME QueueAssumption, NEW old, Fitting(old), QueuedFirst(old), old.q # <<>>, NEW t \in Tracks, Fits(old, <<t>>)
  PROVE  GoodStep(old, JumpToEntry(QueueNext(old, <<t>>), old.pos + 1))
<1> DEFINE mid == QueueNext(old, <<t>>)  new == JumpToEntry(mid, old.pos + 1)
<1>1. GoodEdit(old, mid) /\ Len(mid.q) = Len(old.q) + 1 /\ mid.pos = old.pos /\ mid.queued # old.queued
  BY QueueSongIsGood
<1> HIDE DEF mid
<1>2. Fitting(mid)
  BY <1>1 DEF GoodEdit, GoodStep
<1>3. Len(old.q) \in Nat /\ old.pos \in 1..Len(old.q)
  BY QueuePlaces
<1>4. old.pos + 1 \in 1..Len(mid.q)
  BY <1>1, <1>3
<1>5. GoodStep(mid, new) /\ Len(new.q) = Len(mid.q) /\ new.queued = mid.queued
  BY <1>2, <1>4, JumpIsGood
<1> HIDE DEF new
<1>6. KeepsSongs(old, new) /\ KeepsAhead(old, new)
  <2>1. Len(new.q) # Len(old.q) /\ new.queued # old.queued
    BY <1>1, <1>3, <1>5
  <2>2. QED
    BY <2>1 DEF KeepsSongs, KeepsAhead
<1>7. GoodStep(old, new)
  BY <1>5, <1>6 DEF GoodStep
<1>8. QED
  BY <1>7 DEF new, mid

LEMMA FirstOnes ==
  ASSUME NEW T, NEW s \in Seq(T), NEW k \in Nat, k <= Len(s)
  PROVE  SubSeq(s, 1, k) \in Seq(T) /\ Len(SubSeq(s, 1, k)) = k
OBVIOUS

(* play_members: the songs of the source that fit, none twice, the selected among them. *)
LEMMA WindowFits ==
  ASSUME QueueAssumption, NEW n \in Nat \ {0}, NEW at \in 1..n
  PROVE  LET first == Window(n, at)  k == Min({n, MaxQueue})
         IN first \in Nat /\ k \in Nat \ {0} /\ k <= MaxQueue /\ first + k <= n /\ at - first \in 1..k
<1> DEFINE tenth == MaxQueue \div 10  first == Window(n, at)  k == Min({n, MaxQueue})
<1>1. MaxQueue \in Nat \ {0}
  BY DEF QueueAssumption
<1>2. tenth \in Nat /\ tenth < MaxQueue
  BY <1>1
<1>3. k \in {n, MaxQueue} /\ k <= n /\ k <= MaxQueue /\ k \in Nat \ {0}
  <2> DEFINE S == {n, MaxQueue}
  <2>1. S \in SUBSET Nat /\ S # {}
    BY <1>1
  <2>2. n \in S /\ MaxQueue \in S
    OBVIOUS
  <2>3. Min(S) \in S /\ \A x \in S : Min(S) <= x
    <3> HIDE DEF S
    <3>1. QED
      BY <2>1, LeastNumber
  <2>4. QED
    BY <1>1, <2>2, <2>3
<1> HIDE DEF tenth, k
<1>4. CASE n <= MaxQueue
  <2>1. first = 0
    BY <1>4 DEF Window
  <2>2. k = n
    BY <1>1, <1>3, <1>4
  <2>3. QED
    BY <1>1, <1>3, <1>4, <2>1, <2>2 DEF k
<1>5. CASE n > MaxQueue
  <2> DEFINE a == IF at - 1 < tenth THEN 0 ELSE at - 1 - tenth  b == n - MaxQueue  T == {a, b}
  <2>1. first = Min(T)
    BY <1>1, <1>5 DEF Window, tenth
  <2>2. a \in Nat /\ b \in Nat /\ a <= at - 1 /\ at - a <= MaxQueue
    BY <1>1, <1>2, <1>5
  <2> HIDE DEF a, b
  <2>3. T \in SUBSET Nat /\ T # {} /\ a \in T /\ b \in T
    BY <2>2
  <2>4. Min(T) \in T /\ \A x \in T : Min(T) <= x
    <3> HIDE DEF T
    <3>1. QED
      BY <2>3, LeastNumber
  <2>5. first \in {a, b} /\ first <= a /\ first <= b
    BY <2>1, <2>3, <2>4
  <2> HIDE DEF T, first
  <2>6. first \in Nat /\ at - first \in 1..MaxQueue /\ first + MaxQueue <= n
    <3>1. b = n - MaxQueue
      BY DEF b
    <3>2. QED
      BY <1>1, <1>5, <2>2, <2>5, <3>1
  <2>7. k = MaxQueue
    BY <1>1, <1>3, <1>5
  <2>8. QED
    BY <1>1, <1>3, <2>6, <2>7 DEF first, k
<1>6. QED
  BY <1>1, <1>4, <1>5

LEMMA PlayOrdersFit ==
  ASSUME QueueAssumption, NEW source \in Seq(Tracks), source # <<>>, NEW at \in DOMAIN source,
         NEW mode, NEW row \in BOOLEAN, NEW play \in PlayOrders(source, at, mode, row)
  PROVE  /\ play[1] \in Seq(1..Len(source)) /\ play[1] # <<>> /\ Len(play[1]) <= MaxQueue
         /\ play[2] \in 1..Len(play[1])
<1> DEFINE n == Len(source)  k == Min({n, MaxQueue})  first == Window(n, at)
           whole == [i \in 1..k |-> first + i]
<1>1. n \in Nat \ {0} /\ at \in 1..n
  OBVIOUS
<1>2. first \in Nat /\ k \in Nat \ {0} /\ k <= MaxQueue /\ first + k <= n /\ at - first \in 1..k
  <2> HIDE DEF n
  <2>1. QED
    BY <1>1, WindowFits
<1>3. \/ play = <<whole, at - first>>
      \/ \E p \in SetToSeqs(1..n) : play = <<SubSeq(p, 1, k), 1>>
  <2>1. \A lead : AlbumShuffle(source, lead) \subseteq SetToSeqs(1..n)
    BY DEF AlbumShuffle
  <2>2. QED
    BY <2>1 DEF PlayOrders
<1> HIDE DEF k, first
<1>4. CASE play = <<whole, at - first>>
  <2>1. whole \in Seq(1..n) /\ Len(whole) = k
    <3>1. \A i \in 1..k : first + i \in 1..n
      BY <1>1, <1>2
    <3> HIDE DEF n
    <3>2. QED
      BY <1>2, <3>1
  <2> HIDE DEF whole
  <2>2. QED
    BY <1>2, <1>4, <2>1
<1>5. ASSUME NEW p \in SetToSeqs(1..n), play = <<SubSeq(p, 1, k), 1>>
      PROVE  /\ play[1] \in Seq(1..n) /\ play[1] # <<>> /\ Len(play[1]) <= MaxQueue
             /\ play[2] \in 1..Len(play[1])
  <2> HIDE DEF n
  <2>1. IsFiniteSet(1..n) /\ Cardinality(1..n) = n
    BY <1>1, FS_Interval
  <2>2. p \in [1..n -> 1..n]
    BY <2>1 DEF SetToSeqs
  <2>3. p \in Seq(1..n) /\ Len(p) = n
    <3>1. n \in Nat
      BY <1>1
    <3>2. p \in Seq(1..n)
      <4> DEFINE S == 1..n
      <4>1. p \in [1..n -> S]
        BY <2>2
      <4> HIDE DEF S
      <4>2. p \in Seq(S)
        BY <3>1, <4>1
      <4>3. QED
        BY <4>2 DEF S
    <3>3. Len(p) = n
      BY <2>2, <3>1, <3>2
    <3>4. QED
      BY <3>2, <3>3
  <2>4. k <= n
    BY <1>1, <1>2
  <2>5. SubSeq(p, 1, k) \in Seq(1..n) /\ Len(SubSeq(p, 1, k)) = k
    BY <1>2, <2>3, <2>4, FirstOnes
  <2> DEFINE cut == SubSeq(p, 1, k)
  <2>6. cut \in Seq(1..n) /\ Len(cut) = k /\ play = <<cut, 1>>
    BY <1>5, <2>5
  <2> HIDE DEF cut
  <2>7. cut # <<>> /\ play[1] = cut /\ play[2] = 1 /\ 1 \in 1..k
    BY <1>2, <2>6
  <2>8. QED
    BY <1>2, <2>6, <2>7
<1>6. QED
  BY <1>3, <1>4, <1>5

LEMMA PlayMembersIsGood ==
  ASSUME QueueAssumption, NEW old, NEW source \in Seq(Tracks), source # <<>>, NEW at \in DOMAIN source,
         NEW mode, NEW row \in BOOLEAN, NEW play \in PlayOrders(source, at, mode, row)
  PROVE  LET chosen == play[1]
         IN GoodStep(old, ReplaceQueue([i \in DOMAIN chosen |-> source[chosen[i]]], play[2],
                                       Arranged(DOMAIN chosen, chosen)))
<1> DEFINE chosen == play[1]  k == Len(chosen)  tracks == [i \in DOMAIN chosen |-> source[chosen[i]]]
           natural == Arranged(1..k, chosen)
<1>1. chosen \in Seq(1..Len(source)) /\ chosen # <<>> /\ k <= MaxQueue /\ play[2] \in 1..k
  BY PlayOrdersFit
<1> HIDE DEF chosen
<1>2. k \in Nat /\ k # 0 /\ DOMAIN chosen = 1..k /\ \A i \in 1..k : chosen[i] \in 1..Len(source)
  BY <1>1
<1>3. tracks \in Seq(Tracks) /\ Len(tracks) = k /\ tracks # <<>>
  <2>1. \A i \in 1..k : source[chosen[i]] \in Tracks
    BY <1>2
  <2>2. tracks = [i \in 1..k |-> source[chosen[i]]]
    BY <1>2
  <2>3. tracks \in Seq(Tracks) /\ Len(tracks) = k
    BY <1>2, <2>1, <2>2
  <2>4. QED
    BY <1>2, <2>3
<1>4. natural \in Seq(Nat) /\ IsInjective(natural)
  <2> HIDE DEF k
  <2>1. IsFiniteSet(1..k) /\ Cardinality(1..k) = k /\ 1..k \in SUBSET Nat
    BY <1>2, FS_Interval
  <2>2. chosen \in [1..k -> Int]
    BY <1>1, <1>2
  <2>3. Sorts(natural, 1..k, chosen)
    BY <2>1, <2>2, ArrangedSorts
  <2>4. natural \in [1..k -> 1..k] /\ \A a, b \in 1..k : natural[a] = natural[b] => a = b
    BY <2>1, <2>3 DEF Sorts
  <2> HIDE DEF natural
  <2>5. QED
    BY <1>2, <2>4 DEF IsInjective
<1> HIDE DEF tracks, natural, k
<1>5. GoodStep(old, ReplaceQueue(tracks, play[2], natural))
  BY <1>1, <1>3, <1>4, ReplaceIsGood
<1>6. QED
  BY <1>2, <1>5 DEF tracks, natural, k, chosen

(* upcoming. *)
LEMMA UpcomingFits ==
  ASSUME NEW old, Fitting(old), NEW mode, NEW n \in Nat
  PROVE  Upcoming(old, mode, n) \in Seq(Entry)
<1> DEFINE ahead == SubSeq(old.q, old.pos + 1, Len(old.q))
           S == {i \in 1 .. Min({old.pos, Len(old.q)}) : Ids(old) \subseteq old.queued \/ ~Queued(old, i)}
           again == Only(old.q, S)
           all == IF mode = "All" THEN ahead \o again ELSE ahead
           k == Min({n, Len(all)})
<1>1. Len(old.q) \in Nat /\ DOMAIN old.q = 1..Len(old.q) /\ old.pos \in Nat \ {0} /\ old.q \in Seq(Entry)
      /\ old.pos <= Len(old.q) + 1
  BY QueuePlaces DEF Fitting, Queues
<1>2. ahead \in Seq(Entry)
  BY <1>1
<1>3. S \in SUBSET DOMAIN old.q
  <2> DEFINE T == {old.pos, Len(old.q)}
  <2>1. T \in SUBSET Nat /\ T # {} /\ Len(old.q) \in T
    BY <1>1
  <2>2. Min(T) \in T /\ Min(T) <= Len(old.q)
    <3> HIDE DEF T
    <3>1. QED
      BY <2>1, LeastNumber
  <2>3. Min(T) \in Nat /\ Min(T) <= Len(old.q)
    BY <2>1, <2>2
  <2> DEFINE least == Min(T)
  <2>4. S \subseteq 1 .. least
    OBVIOUS
  <2> HIDE DEF T, least, S
  <2>5. least \in Nat /\ least <= Len(old.q)
    BY <2>3 DEF least
  <2>6. QED
    BY <1>1, <2>4, <2>5
<1> HIDE DEF S, ahead
<1>4. again \in Seq(Entry)
  BY <1>1, <1>3, OnlyPlaces
<1> HIDE DEF again
<1>5. all \in Seq(Entry)
  BY <1>2, <1>4
<1> HIDE DEF all
<1>6. k \in Nat /\ k <= Len(all)
  <2> DEFINE T == {n, Len(all)}
  <2>1. T \in SUBSET Nat /\ T # {} /\ Len(all) \in T
    BY <1>5
  <2> HIDE DEF T
  <2>2. Min(T) \in T /\ Min(T) <= Len(all)
    BY <2>1, LeastNumber
  <2>3. QED
    BY <2>1, <2>2 DEF T
<1>7. Upcoming(old, mode, n) = IF mode = "Track" THEN <<>> ELSE SubSeq(all, 1, k)
  BY DEF Upcoming, all, again, ahead, S
<1> HIDE DEF k
<1>8. SubSeq(all, 1, k) \in Seq(Entry)
  BY <1>5, <1>6, FirstOnes
<1>9. QED
  BY <1>7, <1>8

(* The decoder's job, and what is on its way to the main loop. *)
Jobs  == [list : Seq(Entry), pre : Nat, opened : Nat, settled : BOOLEAN]
Marks == [id : Nat, track : Nat, audio : Nat]
PlayerFits ==
  /\ job \in Jobs /\ job.pre <= Len(job.list)
  /\ slot \subseteq Seq(Entry) /\ passing \in Seq(Marks) /\ Len(passing) <= MaxAhead
(* Nothing is decoded or on its way without a queue. *)
Alive == m.q = <<>> => job = NoJob /\ slot = NoSlot /\ passing = <<>>
(* A list on its way to the decoder is of the queue as it is. *)
FollowsInv ==
  Running /\ passing = <<>> =>
    /\ slot = NoSlot => Tail(job.list) = Upcoming(m, repeat, UpcomingLen)
    /\ \A next \in slot : next = Upcoming(m, repeat, UpcomingLen)
QueueIndInv ==
  /\ Fitting(m) /\ QueuedFirst(m) /\ repeat \in Repeats /\ shuffle \in Shuffles /\ edits \in 0..MaxEdits
  /\ PlayerFits /\ Alive /\ FollowsInv

(* What the properties say of a step. *)
StepKeeps ==
  /\ slot' # NoSlot /\ UNCHANGED passing => Current(m') = Current(m)
  /\ Len(m'.q) = Len(m.q) /\ IdsOf(m'.q) # [i \in DOMAIN m'.q |-> i] => ToSet(m'.q) = ToSet(m.q)
  /\ edits' # edits => StayAhead

LEMMA TailOfOne ==
  ASSUME NEW T, NEW x \in T, NEW s \in Seq(T)
  PROVE  <<x>> \o s \in Seq(T) /\ Tail(<<x>> \o s) = s /\ <<x>> \o s # <<>> /\ Len(<<x>> \o s) = Len(s) + 1
OBVIOUS

LEMMA SameIsGood ==
  ASSUME NEW old, Fitting(old), QueuedFirst(old), old.q # <<>>
  PROVE  GoodEdit(old, old)
<1>1. KeepsAhead(old, old)
  <2>1. SUFFICES ASSUME NEW i \in old.pos + 1 .. Len(old.q)
                 PROVE  Position(old, old.q[i].id) >= old.pos
    BY DEF KeepsAhead
  <2>2. i \in 1..Len(old.q) /\ i >= old.pos
    BY QueuePlaces
  <2>3. QED
    BY <2>2, QueuePlaces
<1>2. QED
  BY <1>1 DEF GoodEdit, GoodStep, KeepsSongs

(* A start. *)
LEMMA LoadIsGood ==
  ASSUME QueueAssumption, NextAssumption, QueueIndInv, NEW new, GoodStep(m, new), Load(new),
         repeat' = repeat, shuffle' \in Shuffles, edits' \in 0..MaxEdits
  PROVE  QueueIndInv' /\ StepKeeps
<1>1. m' = new /\ slot' = {} /\ passing' = <<>>
  BY DEF Load, NoSlot
<1>2. Fitting(new) /\ QueuedFirst(new) /\ new.q # <<>> /\ (KeepsSongs(m, new) \/ Counted(new)) /\ KeepsAhead(m, new)
  BY DEF GoodStep
<1> DEFINE next == Upcoming(new, repeat, UpcomingLen)  songs == <<Current(new)>> \o next
<1>3. next \in Seq(Entry) /\ Current(new) \in Entry
  <2>1. UpcomingLen \in Nat
    BY DEF NextAssumption
  <2>2. new.pos \in 1..Len(new.q)
    BY <1>2, QueuePlaces
  <2>3. QED
    BY <1>2, <2>1, <2>2, UpcomingFits, QueuePlaces DEF Current
<1>4. songs \in Seq(Entry) /\ Tail(songs) = next
  <2> HIDE DEF next
  <2>1. QED
    BY <1>3, TailOfOne
<1>5. /\ job' \in Jobs /\ job'.pre <= Len(job'.list)
      /\ job'.list # <<>> => Tail(job'.list) = next
  <2>1. CASE job' = NoJob
    BY <2>1 DEF NoJob, Jobs
  <2>2. CASE job' = [list |-> songs, pre |-> 0, opened |-> 0, settled |-> FALSE]
    <3> HIDE DEF songs, next
    <3>1. Len(songs) \in Nat
      BY <1>4
    <3>2. QED
      BY <1>4, <2>2, <3>1 DEF Jobs
  <2>3. QED
    BY <2>1, <2>2 DEF Load
<1>6. PlayerFits'
  BY <1>1, <1>5 DEF PlayerFits, NextAssumption
<1>7. FollowsInv' /\ Alive'
  BY <1>1, <1>2, <1>5 DEF FollowsInv, Alive, Running, NoSlot
<1>8. QueueIndInv'
  BY <1>1, <1>2, <1>6, <1>7 DEF QueueIndInv
<1>9. StepKeeps
  <2>1. StayAhead
    BY <1>1, <1>2 DEF StayAhead, KeepsAhead
  <2>2. QED
    BY <1>1, <1>2, <2>1 DEF StepKeeps, KeepsSongs, Counted, NoSlot
<1>10. QED
  BY <1>8, <1>9

(* The song playing goes on, and the decoder is told of what follows it. *)
LEMMA ChangedIsGood ==
  ASSUME QueueAssumption, NextAssumption, QueueIndInv, NEW new, Fitting(new), QueuedFirst(new), m' = new,
         new.q # <<>> \/ (m.q = <<>> /\ passing' = <<>>),
         NEW mode \in Repeats, repeat' = mode, shuffle' \in Shuffles, edits' \in 0..MaxEdits,
         UpcomingChanged(new, mode), job' = job, passing' \in Seq(Marks), Len(passing') <= MaxAhead
  PROVE  QueueIndInv'
<1> DEFINE next == Upcoming(new, mode, UpcomingLen)
<1>1. next \in Seq(Entry)
  <2>1. UpcomingLen \in Nat
    BY DEF NextAssumption
  <2>2. QED
    BY <2>1, UpcomingFits
<1>2. Running' <=> Running
  BY DEF Running
<1>3. slot' = IF Running THEN {next} ELSE {}
  BY DEF UpcomingChanged, NoSlot
<1> HIDE DEF next
<1>4. PlayerFits'
  BY <1>1, <1>3 DEF PlayerFits, QueueIndInv
<1>5. Alive'
  <2>1. SUFFICES ASSUME new.q = <<>>
                 PROVE  job' = NoJob /\ slot' = {} /\ passing' = <<>>
    BY DEF Alive, NoJob, NoSlot
  <2>2. job = NoJob
    BY <2>1 DEF QueueIndInv, Alive
  <2>3. ~Running
    BY <2>2 DEF Running, NoJob
  <2>4. QED
    BY <1>3, <2>1, <2>2, <2>3
<1>6. FollowsInv'
  <2>1. Running' => slot' = {next}
    BY <1>2, <1>3
  <2>2. next = Upcoming(m', repeat', UpcomingLen)
    BY DEF next
  <2>3. QED
    BY <2>1, <2>2 DEF FollowsInv, NoSlot
<1>7. QED
  BY <1>4, <1>5, <1>6 DEF QueueIndInv

LEMMA EditIsGood ==
  ASSUME QueueAssumption, NextAssumption, QueueIndInv, m.q # <<>>, NEW new, NEW changed \in BOOLEAN,
         Edited(new, changed), new = m \/ (changed /\ GoodEdit(m, new)),
         repeat' = repeat, shuffle' \in Shuffles, edits' \in 0..MaxEdits
  PROVE  QueueIndInv' /\ StepKeeps
<1>1. m' = new /\ job' = job /\ passing' = passing
  BY DEF Edited
<1>2. GoodEdit(m, new)
  BY SameIsGood DEF QueueIndInv
<1>3. /\ Fitting(new) /\ QueuedFirst(new) /\ new.q # <<>> /\ KeepsSongs(m, new) /\ KeepsAhead(m, new)
      /\ Current(new) = Current(m)
  BY <1>2 DEF GoodEdit, GoodStep
<1>4. StepKeeps
  <2>1. StayAhead
    BY <1>1, <1>3 DEF StayAhead, KeepsAhead
  <2>2. QED
    BY <1>1, <1>3, <2>1 DEF StepKeeps, KeepsSongs
<1>5. CASE changed
  <2>1. UpcomingChanged(new, repeat)
    BY <1>5 DEF Edited
  <2>2. passing' \in Seq(Marks) /\ Len(passing') <= MaxAhead /\ repeat \in Repeats
    BY <1>1 DEF QueueIndInv, PlayerFits
  <2>3. PICK mode \in Repeats : mode = repeat
    BY <2>2
  <2>4. QueueIndInv'
    BY <1>1, <1>3, <2>1, <2>2, <2>3, ChangedIsGood
  <2>5. QED
    BY <1>4, <2>4
<1>6. CASE ~changed
  <2>1. m' = m /\ slot' = slot
    BY <1>1, <1>6 DEF Edited
  <2>2. PlayerFits' /\ Alive' /\ FollowsInv'
    BY <1>1, <2>1 DEF QueueIndInv, PlayerFits, Alive, FollowsInv, Running
  <2>3. QED
    BY <1>1, <1>3, <1>4, <2>2 DEF QueueIndInv
<1>7. QED
  BY <1>5, <1>6

LEMMA UserCounts ==
  ASSUME NextAssumption, QueueIndInv, UserActs
  PROVE  edits' \in 0..MaxEdits
BY DEF NextAssumption, QueueIndInv, UserActs

LEMMA ModesKept ==
  ASSUME QueueIndInv, Keeps
  PROVE  repeat' = repeat /\ shuffle' \in Shuffles
BY DEF QueueIndInv, Keeps

(* on_play_*: a collection. *)
LEMMA PlayMembersKeeps ==
  ASSUME QueueAssumption, NextAssumption, QueueIndInv, PlayMembers
  PROVE  QueueIndInv' /\ StepKeeps
<1>1. PICK source \in Sources, row \in {"Off", "Songs", "Albums"} :
        \E at \in DOMAIN source :
          \E play \in PlayOrders(source, at, IF row = "Off" THEN shuffle ELSE row, row # "Off") :
            LET chosen == play[1]
            IN UserActs /\ Keeps
               /\ Load(ReplaceQueue([i \in DOMAIN chosen |-> source[chosen[i]]], play[2],
                                    Arranged(DOMAIN chosen, chosen)))
  BY DEF PlayMembers
<1>2. PICK mode : mode = IF row = "Off" THEN shuffle ELSE row
  OBVIOUS
<1>3. PICK albums \in BOOLEAN : albums = (row # "Off")
  OBVIOUS
<1>4. PICK at \in DOMAIN source :
        \E play \in PlayOrders(source, at, mode, albums) :
          LET chosen == play[1]
          IN UserActs /\ Keeps
             /\ Load(ReplaceQueue([i \in DOMAIN chosen |-> source[chosen[i]]], play[2],
                                  Arranged(DOMAIN chosen, chosen)))
  BY <1>1, <1>2, <1>3
<1>5. PICK play \in PlayOrders(source, at, mode, albums) :
        LET chosen == play[1]
        IN UserActs /\ Keeps
           /\ Load(ReplaceQueue([i \in DOMAIN chosen |-> source[chosen[i]]], play[2],
                                Arranged(DOMAIN chosen, chosen)))
  BY <1>4
<1> DEFINE chosen == play[1]
           new == ReplaceQueue([i \in DOMAIN chosen |-> source[chosen[i]]], play[2], Arranged(DOMAIN chosen, chosen))
<1>6. source \in Seq(Tracks) /\ source # <<>>
  BY DEF NextAssumption
<1>7. GoodStep(m, new)
  BY <1>6, PlayMembersIsGood
<1>8. Load(new) /\ UserActs /\ Keeps
  BY <1>5
<1> HIDE DEF new
<1>9. QED
  BY <1>7, <1>8, LoadIsGood, UserCounts, ModesKept

LEMMA QueueSongsKeeps ==
  ASSUME QueueAssumption, NextAssumption, QueueIndInv, QueueSongs
  PROVE  QueueIndInv' /\ StepKeeps
<1>1. PICK t \in Tracks, next \in BOOLEAN :
        LET new == IF next THEN QueueNext(m, <<t>>) ELSE QueueLast(m, <<t>>)
        IN /\ UserActs /\ Keeps
           /\ m.q = <<>> \/ (Fits(m, <<t>>) /\ FreshId(m) <= MaxId)
           /\ IF m.q # <<>> THEN Edit(new)
              ELSE IF next THEN Load(new) ELSE m' = new /\ UNCHANGED player
  BY DEF QueueSongs
<1>2. PICK new : new = IF next THEN QueueNext(m, <<t>>) ELSE QueueLast(m, <<t>>)
  OBVIOUS
<1>3. /\ UserActs /\ Keeps
      /\ m.q = <<>> \/ Fits(m, <<t>>)
      /\ IF m.q # <<>> THEN Edit(new)
         ELSE IF next THEN Load(new) ELSE m' = new /\ UNCHANGED player
  BY <1>1, <1>2
<1>4. GoodStep(m, new) /\ (m.q # <<>> => GoodEdit(m, new))
  <2>1. new \in {QueueNext(m, <<t>>), QueueLast(m, <<t>>)}
    BY <1>2
  <2>2. Fitting(m) /\ QueuedFirst(m)
    BY DEF QueueIndInv
  <2>3. QED
    BY <1>3, <2>1, <2>2, QueueSongIsGood
<1>5. edits' \in 0..MaxEdits /\ repeat' = repeat /\ shuffle' \in Shuffles
  BY <1>3, UserCounts, ModesKept
<1>6. CASE m.q # <<>>
  <2>1. PICK changed \in BOOLEAN : changed = (new # m)
    OBVIOUS
  <2>2. Edited(new, changed)
    BY <1>3, <1>6, <2>1 DEF Edit
  <2>3. QED
    BY <1>4, <1>5, <1>6, <2>1, <2>2, EditIsGood
<1>7. CASE m.q = <<>> /\ next
  BY <1>3, <1>4, <1>5, <1>7, LoadIsGood
<1>8. CASE m.q = <<>> /\ ~next
  <2>1. m' = new /\ slot' = slot /\ job' = job /\ passing' = passing
    BY <1>3, <1>8 DEF player
  <2>2. Fitting(new) /\ QueuedFirst(new) /\ new.q # <<>>
    BY <1>4 DEF GoodStep
  <2>3. job = NoJob /\ slot = {} /\ passing = <<>>
    BY <1>8 DEF QueueIndInv, Alive, NoSlot
  <2>4. PlayerFits' /\ Alive' /\ FollowsInv'
    BY <2>1, <2>2, <2>3 DEF QueueIndInv, PlayerFits, Alive, FollowsInv, Running, NoJob
  <2>5. QueueIndInv'
    BY <1>5, <2>1, <2>2, <2>4 DEF QueueIndInv
  <2>6. StepKeeps
    <3>1. (KeepsSongs(m, new) \/ Counted(new)) /\ KeepsAhead(m, new)
      BY <1>4 DEF GoodStep
    <3>2. StayAhead
      BY <2>1, <3>1 DEF StayAhead, KeepsAhead
    <3>3. QED
      BY <2>1, <2>3, <3>1, <3>2 DEF StepKeeps, KeepsSongs, Counted, NoSlot
  <2>7. QED
    BY <2>5, <2>6
<1>9. QED
  BY <1>6, <1>7, <1>8

LEMMA PlaySongNowKeeps ==
  ASSUME QueueAssumption, NextAssumption, QueueIndInv, PlaySongNow
  PROVE  QueueIndInv' /\ StepKeeps
<1>1. PICK t \in Tracks :
        /\ UserActs /\ Keeps
        /\ m.q = <<>> \/ (Fits(m, <<t>>) /\ FreshId(m) <= MaxId)
        /\ LET new == QueueNext(m, <<t>>) IN Load(IF m.q = <<>> THEN new ELSE JumpToEntry(new, m.pos + 1))
  BY DEF PlaySongNow
<1>2. PICK new : new = IF m.q = <<>> THEN QueueNext(m, <<t>>) ELSE JumpToEntry(QueueNext(m, <<t>>), m.pos + 1)
  OBVIOUS
<1>3. GoodStep(m, new)
  <2>1. Fitting(m) /\ QueuedFirst(m)
    BY DEF QueueIndInv
  <2>2. CASE m.q = <<>>
    <3>1. QueueNext(m, <<t>>) \in {QueueNext(m, <<t>>), QueueLast(m, <<t>>)}
      OBVIOUS
    <3>2. GoodStep(m, QueueNext(m, <<t>>))
      BY <2>1, <2>2, <3>1, QueueSongIsGood
    <3>3. QED
      BY <1>2, <2>2, <3>2
  <2>3. CASE m.q # <<>>
    BY <1>1, <1>2, <2>1, <2>3, PlayNowIsGood
  <2>4. QED
    BY <2>2, <2>3
<1>4. Load(new)
  BY <1>1, <1>2
<1>5. QED
  BY <1>1, <1>3, <1>4, LoadIsGood, UserCounts, ModesKept

LEMMA PlayEntryKeeps ==
  ASSUME QueueAssumption, NextAssumption, QueueIndInv, PlayEntry
  PROVE  QueueIndInv' /\ StepKeeps
<1>1. PICK i \in DOMAIN m.q : Load(JumpToEntry(m, i)) /\ UserActs /\ Keeps
  BY DEF PlayEntry
<1>2. PICK new : new = JumpToEntry(m, i)
  OBVIOUS
<1>3. Fitting(m) /\ i \in 1..Len(m.q)
  BY QueuePlaces DEF QueueIndInv
<1>4. GoodStep(m, new)
  BY <1>2, <1>3, JumpIsGood
<1>5. Load(new)
  BY <1>1, <1>2
<1>6. QED
  BY <1>1, <1>4, <1>5, LoadIsGood, UserCounts, ModesKept

(* The playback is stopped, the queue stays. *)
LEMMA StopIsGood ==
  ASSUME QueueAssumption, NextAssumption, QueueIndInv, m.q # <<>>, m' = m, StopJob,
         repeat' = repeat, shuffle' \in Shuffles, edits' \in 0..MaxEdits
  PROVE  QueueIndInv' /\ StepKeeps
<1>1. slot' = {} /\ job' = NoJob /\ passing' = <<>>
  BY DEF StopJob, NoSlot
<1>2. NoJob \in Jobs /\ NoJob.list = <<>> /\ NoJob.pre = 0
  BY DEF NoJob, Jobs
<1>3. PlayerFits' /\ Alive' /\ FollowsInv'
  BY <1>1, <1>2 DEF PlayerFits, Alive, FollowsInv, Running, NextAssumption
<1>4. StepKeeps
  <2>1. KeepsAhead(m, m)
    BY SameIsGood DEF QueueIndInv, GoodEdit, GoodStep
  <2>2. StayAhead
    BY <2>1 DEF StayAhead, KeepsAhead
  <2>3. QED
    BY <1>1, <2>2 DEF StepKeeps, NoSlot
<1>5. QED
  BY <1>3, <1>4 DEF QueueIndInv

(* On to the next song, or over the end. *)
LEMMA OnwardIsGood ==
  ASSUME QueueAssumption, NextAssumption, QueueIndInv, m.q # <<>>,
         NEW new \in {[m EXCEPT !.pos = @ + 1], Wrap(m)}, new = Wrap(m) \/ m.pos < Len(m.q)
  PROVE  GoodStep(m, new)
<1>1. Fitting(m) /\ QueuedFirst(m)
  BY DEF QueueIndInv
<1>2. CASE new = Wrap(m)
  BY <1>1, <1>2, WrapIsGood
<1>3. CASE new = [m EXCEPT !.pos = @ + 1] /\ m.pos < Len(m.q)
  <2>1. Len(m.q) \in Nat /\ m.pos \in 1..Len(m.q)
    BY <1>1, QueuePlaces
  <2>2. m.pos + 1 \in 1..Len(m.q) /\ m.pos + 1 >= m.pos /\ m.pos + 1 <= m.pos + 1
    BY <1>3, <2>1
  <2>3. new = [m EXCEPT !.pos = m.pos + 1]
    BY <1>3
  <2>4. QED
    BY <1>1, <2>2, <2>3, AdvanceFits
<1>4. QED
  BY <1>2, <1>3

LEMMA NextKeeps ==
  ASSUME QueueAssumption, NextAssumption, QueueIndInv, Next_
  PROVE  QueueIndInv' /\ StepKeeps
<1>1. /\ m.q # <<>> /\ UserActs /\ Keeps
      /\ IF m.pos < Len(m.q) THEN Load([m EXCEPT !.pos = @ + 1])
         ELSE IF repeat = "All" THEN Load(Wrap(m)) ELSE m' = m /\ StopJob
  BY DEF Next_
<1>2. edits' \in 0..MaxEdits /\ repeat' = repeat /\ shuffle' \in Shuffles
  BY <1>1, UserCounts, ModesKept
<1>3. CASE m.pos < Len(m.q)
  <2>1. PICK new : new = [m EXCEPT !.pos = @ + 1]
    OBVIOUS
  <2>2. GoodStep(m, new) /\ Load(new)
    BY <1>1, <1>3, <2>1, OnwardIsGood
  <2>3. QED
    BY <1>2, <2>2, LoadIsGood
<1>4. CASE ~(m.pos < Len(m.q)) /\ repeat = "All"
  <2>1. PICK new : new = Wrap(m)
    OBVIOUS
  <2>2. GoodStep(m, new) /\ Load(new)
    BY <1>1, <1>4, <2>1, OnwardIsGood
  <2>3. QED
    BY <1>2, <2>2, LoadIsGood
<1>5. CASE ~(m.pos < Len(m.q)) /\ repeat # "All"
  BY <1>1, <1>2, <1>5, StopIsGood
<1>6. QED
  BY <1>3, <1>4, <1>5

LEMMA PreviousKeeps ==
  ASSUME QueueAssumption, NextAssumption, QueueIndInv, Previous
  PROVE  QueueIndInv' /\ StepKeeps
<1>1. m.q # <<>> /\ UserActs /\ Keeps /\ (Load(m) \/ (m.pos > 1 /\ Load(StepBack(m))))
  BY DEF Previous
<1>2. edits' \in 0..MaxEdits /\ repeat' = repeat /\ shuffle' \in Shuffles
  BY <1>1, UserCounts, ModesKept
<1>3. Fitting(m) /\ QueuedFirst(m)
  BY DEF QueueIndInv
<1>4. CASE Load(m)
  <2>1. PICK new : new = m
    OBVIOUS
  <2>2. GoodStep(m, new)
    BY <1>1, <1>3, <2>1, SameIsGood DEF GoodEdit
  <2>3. Load(new)
    BY <1>4, <2>1
  <2>4. QED
    BY <1>2, <2>2, <2>3, LoadIsGood
<1>5. CASE m.pos > 1 /\ Load(StepBack(m))
  <2>1. PICK new : new = StepBack(m)
    OBVIOUS
  <2>2. Len(m.q) \in Nat /\ m.pos \in 1..Len(m.q)
    BY <1>1, <1>3, QueuePlaces
  <2>3. m.pos - 1 \in 1..Len(m.q) /\ m.pos - 1 <= m.pos
    BY <1>5, <2>2
  <2>4. new = Anchor([m EXCEPT !.pos = m.pos - 1])
    BY <2>1 DEF StepBack
  <2>5. GoodStep(m, new)
    BY <1>3, <2>3, <2>4, StepBackIsGood
  <2>6. Load(new)
    BY <1>5, <2>1
  <2>7. QED
    BY <1>2, <2>5, <2>6, LoadIsGood
<1>6. QED
  BY <1>1, <1>4, <1>5

LEMMA UpNextKeeps ==
  ASSUME QueueAssumption, NextAssumption, QueueIndInv, UpNext
  PROVE  QueueIndInv' /\ StepKeeps
<1>1. m.q # <<>> /\ UserActs /\ Keeps
  BY DEF UpNext
<1>2. edits' \in 0..MaxEdits /\ repeat' = repeat /\ shuffle' \in Shuffles
  BY <1>1, UserCounts, ModesKept
<1>3. Fitting(m) /\ QueuedFirst(m)
  BY DEF QueueIndInv
<1>4. ASSUME NEW new, Edit(new), new = m \/ GoodEdit(m, new)
      PROVE  QueueIndInv' /\ StepKeeps
  <2>1. PICK changed \in BOOLEAN : changed = (new # m)
    OBVIOUS
  <2>2. Edited(new, changed)
    BY <1>4, <2>1 DEF Edit
  <2>3. QED
    BY <1>1, <1>2, <1>4, <2>1, <2>2, EditIsGood
<1>5. ASSUME NEW i \in DOMAIN m.q, NEW up \in BOOLEAN, Edit(MoveEntry(m, i, up))
      PROVE  QueueIndInv' /\ StepKeeps
  <2>1. PICK new : new = MoveEntry(m, i, up)
    OBVIOUS
  <2>2. i \in 1..Len(m.q)
    BY <1>3, QueuePlaces
  <2>3. new = m \/ GoodEdit(m, new)
    BY <1>1, <1>3, <2>1, <2>2, MoveIsGood
  <2>4. Edit(new)
    BY <1>5, <2>1
  <2>5. QED
    BY <1>4, <2>3, <2>4
<1>6. ASSUME NEW ids, Edit(RemoveEntries(m, ids))
      PROVE  QueueIndInv' /\ StepKeeps
  <2>1. PICK new : new = RemoveEntries(m, ids)
    OBVIOUS
  <2>2. GoodEdit(m, new) /\ Edit(new)
    BY <1>1, <1>3, <1>6, <2>1, RemoveIsGood
  <2>3. QED
    BY <1>4, <2>2
<1>7. ASSUME NEW ids, NEW new \in {EntriesNext(m, ids), EntriesLast(m, ids)}, Edited(new, Chosen(m, ids) # {})
      PROVE  QueueIndInv' /\ StepKeeps
  <2>1. GoodEdit(m, new) /\ (Chosen(m, ids) = {} => new = m)
    BY <1>1, <1>3, EntriesNextIsGood, EntriesLastIsGood, NoEntries
  <2>2. PICK changed \in BOOLEAN : changed = (Chosen(m, ids) # {})
    OBVIOUS
  <2>3. Edited(new, changed)
    BY <1>7, <2>2
  <2>4. QED
    BY <1>1, <1>2, <2>1, <2>2, <2>3, EditIsGood
<1>8. ASSUME Edit(ClearQueued(m))
      PROVE  QueueIndInv' /\ StepKeeps
  <2>1. PICK ids : ids = {m.q[i].id : i \in m.pos + 1 .. SourceStart(m) - 1}
    OBVIOUS
  <2>2. Edit(RemoveEntries(m, ids))
    BY <1>8, <2>1 DEF ClearQueued
  <2>3. QED
    BY <1>6, <2>2
<1>9. ASSUME Edit(ClearFuture(m))
      PROVE  QueueIndInv' /\ StepKeeps
  <2>1. PICK new : new = ClearFuture(m)
    OBVIOUS
  <2>2. new = m \/ GoodEdit(m, new)
    BY <1>1, <1>3, <2>1, ClearFutureIsGood
  <2>3. Edit(new)
    BY <1>9, <2>1
  <2>4. QED
    BY <1>4, <2>2, <2>3
<1>10. ASSUME NEW ids, Edited(EntriesNext(m, ids), Chosen(m, ids) # {})
       PROVE  QueueIndInv' /\ StepKeeps
  <2>1. PICK new : new = EntriesNext(m, ids)
    OBVIOUS
  <2>2. Edited(new, Chosen(m, ids) # {})
    BY <1>10, <2>1
  <2>3. QED
    BY <1>7, <2>1, <2>2
<1>11. ASSUME NEW ids, Edited(EntriesLast(m, ids), Chosen(m, ids) # {})
       PROVE  QueueIndInv' /\ StepKeeps
  <2>1. PICK new : new = EntriesLast(m, ids)
    OBVIOUS
  <2>2. Edited(new, Chosen(m, ids) # {})
    BY <1>11, <2>1
  <2>3. QED
    BY <1>7, <2>1, <2>2
<1>12. QED
  BY <1>5, <1>6, <1>8, <1>9, <1>10, <1>11 DEF UpNext

(* on_set_shuffle: what it makes of the queue. *)
LEMMA ShuffledIsGood ==
  ASSUME NEW old, Fitting(old), QueuedFirst(old), old.q # <<>>, NEW back \in BOOLEAN, NEW mixes \in BOOLEAN,
         NEW mid, mid = IF back THEN Unshuffle(old) ELSE old,
         NEW new, IF mixes THEN new \in ShuffleSongs(mid) \cup ShuffleAlbums(mid) ELSE new = mid
  PROVE  GoodEdit(old, new)
<1>1. Rearranged(old, old)
  BY SameIsGood DEF Rearranged
<1>2. Rearranged(old, mid)
  BY <1>1, UnshuffleIsGood
<1>3. Fitting(mid) /\ QueuedFirst(mid) /\ mid.q # <<>>
  BY <1>2 DEF Rearranged, GoodEdit, GoodStep
<1>4. Rearranged(mid, new)
  <2>1. CASE mixes
    BY <1>3, <2>1, ShuffleIsGood
  <2>2. CASE ~mixes
    BY <1>3, <2>2, SameIsGood DEF Rearranged
  <2>3. QED
    BY <2>1, <2>2
<1>5. Rearranged(old, new)
  BY <1>2, <1>4, RearrangedTwice
<1>6. QED
  BY <1>5 DEF Rearranged

LEMMA SetShuffleKeeps ==
  ASSUME QueueAssumption, NextAssumption, QueueIndInv, SetShuffle
  PROVE  QueueIndInv' /\ StepKeeps
<1>1. PICK mode \in Shuffles \ {shuffle} :
        LET back == shuffle # "Off" /\ m.order # <<>>
            ordered == IF back THEN Unshuffle(m) ELSE m
            mixes == mode # "Off" /\ ToCome(ordered) >= 2
        IN /\ UserActs /\ shuffle' = mode /\ UNCHANGED <<repeat, job, passing, heard>>
           /\ IF m.q = <<>> \/ ~(back \/ mixes) THEN m' = m /\ UNCHANGED slot
              ELSE \E new \in IF ~mixes THEN {ordered}
                              ELSE IF mode = "Songs" THEN ShuffleSongs(ordered)
                              ELSE ShuffleAlbums(ordered) :
                     m' = new /\ UpcomingChanged(new, repeat)
  BY DEF SetShuffle
<1>2. PICK back \in BOOLEAN : back = (shuffle # "Off" /\ m.order # <<>>)
  OBVIOUS
<1>3. PICK mid : mid = IF back THEN Unshuffle(m) ELSE m
  OBVIOUS
<1>4. PICK mixes \in BOOLEAN : mixes = (mode # "Off" /\ ToCome(mid) >= 2)
  OBVIOUS
<1>5. /\ UserActs /\ shuffle' = mode /\ repeat' = repeat /\ job' = job /\ passing' = passing
      /\ IF m.q = <<>> \/ ~(back \/ mixes) THEN m' = m /\ slot' = slot
         ELSE \E new \in IF ~mixes THEN {mid}
                         ELSE IF mode = "Songs" THEN ShuffleSongs(mid) ELSE ShuffleAlbums(mid) :
                m' = new /\ UpcomingChanged(new, repeat)
  BY <1>1, <1>2, <1>3, <1>4
<1>6. edits' \in 0..MaxEdits /\ shuffle' \in Shuffles
  BY <1>5, UserCounts
<1>7. /\ Fitting(m) /\ QueuedFirst(m) /\ repeat \in Repeats
      /\ passing \in Seq(Marks) /\ Len(passing) <= MaxAhead
  BY DEF QueueIndInv, PlayerFits
<1>8. CASE m.q = <<>> \/ ~(back \/ mixes)
  <2>1. m' = m /\ slot' = slot
    BY <1>5, <1>8
  <2>2. PlayerFits' /\ Alive' /\ FollowsInv'
    BY <1>5, <2>1 DEF QueueIndInv, PlayerFits, Alive, FollowsInv, Running
  <2>3. QueueIndInv'
    BY <1>5, <1>6, <1>7, <2>1, <2>2 DEF QueueIndInv
  <2>4. StepKeeps
    <3>1. m.q # <<>> => KeepsAhead(m, m)
      BY <1>7, SameIsGood DEF GoodEdit, GoodStep
    <3>2. StayAhead
      <4>1. CASE m.q # <<>>
        BY <2>1, <3>1, <4>1 DEF StayAhead, KeepsAhead
      <4>2. CASE m.q = <<>>
        <5>1. m.pos + 1 .. Len(m.q) = {}
          BY <1>7, <4>2, QueuePlaces
        <5>2. QED
          BY <5>1 DEF StayAhead
      <4>3. QED
        BY <4>1, <4>2
    <3>3. QED
      BY <2>1, <3>2 DEF StepKeeps
  <2>5. QED
    BY <2>3, <2>4
<1>9. CASE ~(m.q = <<>> \/ ~(back \/ mixes))
  <2>1. PICK new : /\ m' = new /\ UpcomingChanged(new, repeat)
                   /\ IF mixes THEN new \in ShuffleSongs(mid) \cup ShuffleAlbums(mid) ELSE new = mid
    BY <1>5, <1>9
  <2>2. GoodEdit(m, new)
    BY <1>3, <1>7, <1>9, <2>1, ShuffledIsGood
  <2>3. PICK changed \in BOOLEAN : changed = TRUE
    OBVIOUS
  <2>4. /\ Fitting(new) /\ QueuedFirst(new) /\ new.q # <<>> /\ KeepsSongs(m, new) /\ KeepsAhead(m, new)
        /\ Current(new) = Current(m)
    BY <2>2 DEF GoodEdit, GoodStep
  <2>5. PICK now \in Repeats : now = repeat
    BY <1>7
  <2>6. QueueIndInv'
    BY <1>5, <1>6, <1>7, <2>1, <2>4, <2>5, ChangedIsGood
  <2>7. StepKeeps
    <3>1. StayAhead
      BY <2>1, <2>4 DEF StayAhead, KeepsAhead
    <3>2. QED
      BY <2>1, <2>4, <3>1 DEF StepKeeps, KeepsSongs
  <2>8. QED
    BY <2>6, <2>7
<1>10. QED
  BY <1>8, <1>9

LEMMA SetRepeatKeeps ==
  ASSUME QueueAssumption, NextAssumption, QueueIndInv, SetRepeat
  PROVE  QueueIndInv' /\ StepKeeps
<1>1. PICK mode \in Repeats : /\ UserActs /\ repeat' = mode /\ UpcomingChanged(m, mode)
                              /\ m' = m /\ shuffle' = shuffle /\ job' = job /\ passing' = passing
  BY DEF SetRepeat
<1>2. PICK new : new = m
  OBVIOUS
<1>3. /\ Fitting(m) /\ QueuedFirst(m) /\ shuffle' \in Shuffles
      /\ passing' \in Seq(Marks) /\ Len(passing') <= MaxAhead /\ edits' \in 0..MaxEdits
      /\ new.q # <<>> \/ (m.q = <<>> /\ passing' = <<>>)
  BY <1>1, <1>2, UserCounts DEF QueueIndInv, PlayerFits, Alive
<1>4. QueueIndInv'
  BY <1>1, <1>2, <1>3, ChangedIsGood
<1>5. StepKeeps
  <2>1. StayAhead
    <3>1. CASE m.q # <<>>
      <4>1. KeepsAhead(m, m)
        BY <1>3, <3>1, SameIsGood DEF GoodEdit, GoodStep
      <4>2. QED
        BY <1>1, <4>1 DEF StayAhead, KeepsAhead
    <3>2. CASE m.q = <<>>
      <4>1. m.pos + 1 .. Len(m.q) = {}
        BY <1>3, <3>2, QueuePlaces
      <4>2. QED
        BY <4>1 DEF StayAhead
    <3>3. QED
      BY <3>1, <3>2
  <2>2. QED
    BY <1>1, <2>1 DEF StepKeeps
<1>6. QED
  BY <1>4, <1>5

(* open_next: none, or a place in the list. *)
LEMMA OpenNextFits ==
  ASSUME NEW songs \in Seq(Entry), NEW first \in Nat \ {0}
  PROVE  OpenNext(songs, first) \in Nat /\ OpenNext(songs, first) <= Len(songs)
<1> DEFINE opens == {i \in first .. Len(songs) : songs[i].track \notin Unplayable}
<1>1. OpenNext(songs, first) = IF opens = {} THEN 0 ELSE Min(opens)
  BY DEF OpenNext
<1>2. Len(songs) \in Nat /\ opens \in SUBSET Nat /\ \A i \in opens : i <= Len(songs)
  OBVIOUS
<1> HIDE DEF opens
<1>3. opens # {} => Min(opens) \in opens
  BY <1>2, LeastNumber
<1>4. CASE opens = {}
  BY <1>1, <1>2, <1>4
<1>5. CASE opens # {}
  <2>1. OpenNext(songs, first) \in opens
    BY <1>1, <1>3, <1>5
  <2>2. QED
    BY <1>2, <2>1
<1>6. QED
  BY <1>4, <1>5
LEMMA TrackAtIsNat ==
  ASSUME QueueAssumption, NEW songs \in Seq(Entry), NEW i \in Nat, i <= Len(songs)
  PROVE  TrackAt(songs, i) \in Nat
<1>1. \A e \in Entry : e.track \in Nat
  BY DEF QueueAssumption, Entry
<1>2. i # 0 => songs[i] \in Entry
  OBVIOUS
<1>3. QED
  BY <1>1, <1>2 DEF TrackAt

(* A step of the decode thread leaves the queue alone. *)
LEMMA DecoderIsGood ==
  ASSUME QueueIndInv, Running, DecoderStep, PlayerFits', FollowsInv'
  PROVE  QueueIndInv' /\ StepKeeps
<1>1. m' = m /\ repeat' = repeat /\ shuffle' = shuffle /\ edits' = edits
  BY DEF DecoderStep
<1>2. m.q # <<>>
  BY DEF QueueIndInv, Alive, Running, NoJob
<1>3. Alive'
  BY <1>1, <1>2 DEF Alive
<1>4. QED
  BY <1>1, <1>3 DEF QueueIndInv, StepKeeps

LEMMA SettleKeeps ==
  ASSUME QueueAssumption, QueueIndInv, Settle
  PROVE  QueueIndInv' /\ StepKeeps
<1> DEFINE pre == OpenNext(job.list, 2)
<1>1. /\ Running /\ DecoderStep /\ slot' = slot /\ passing' = passing /\ m' = m /\ repeat' = repeat
      /\ job' = [job EXCEPT !.settled = TRUE, !.pre = pre, !.opened = TrackAt(job.list, pre)]
  BY DEF Settle, DecoderStep
<1>2. PlayerFits
  BY DEF QueueIndInv
<1>3. job \in Jobs /\ job.list \in Seq(Entry)
  BY <1>2 DEF PlayerFits, Jobs
<1>4. pre \in Nat /\ pre <= Len(job.list) /\ TrackAt(job.list, pre) \in Nat
  <2>1. pre \in Nat /\ pre <= Len(job.list)
    BY <1>3, OpenNextFits
  <2> HIDE DEF pre
  <2>2. QED
    BY <1>3, <2>1, TrackAtIsNat
<1> HIDE DEF pre
<1>5. job' \in Jobs /\ job'.list = job.list /\ job'.pre = pre
  BY <1>1, <1>3, <1>4 DEF Jobs
<1>6. PlayerFits' /\ FollowsInv'
  BY <1>1, <1>2, <1>4, <1>5 DEF PlayerFits, QueueIndInv, FollowsInv, Running
<1>7. QED
  BY <1>1, <1>6, DecoderIsGood

LEMMA TakeUpcomingKeeps ==
  ASSUME QueueAssumption, QueueIndInv, TakeUpcoming
  PROVE  QueueIndInv' /\ StepKeeps
<1>1. /\ Running /\ DecoderStep /\ slot' = {} /\ passing' = passing /\ m' = m /\ repeat' = repeat
  BY DEF TakeUpcoming, DecoderStep, NoSlot
<1>2. PICK next \in slot :
        LET songs == <<job.list[1]>> \o next
            pre == IF job.settled THEN OpenNext(songs, 2) ELSE 0
        IN job' = IF KeepsOpened(songs) THEN [job EXCEPT !.list = songs, !.pre = 2]
                  ELSE [job EXCEPT !.list = songs, !.pre = pre, !.opened = TrackAt(songs, pre)]
  BY ZenonT(30) DEF TakeUpcoming
<1> DEFINE songs == <<job.list[1]>> \o next
           pre == IF job.settled THEN OpenNext(songs, 2) ELSE 0
<1>3. PlayerFits /\ FollowsInv
  BY DEF QueueIndInv
<1>4. /\ job \in Jobs /\ job.list \in Seq(Entry) /\ job.list[1] \in Entry /\ next \in Seq(Entry)
  BY <1>1, <1>3 DEF PlayerFits, Jobs, Running
<1>5. songs \in Seq(Entry) /\ Tail(songs) = next /\ Len(songs) \in Nat
  <2>1. songs \in Seq(Entry) /\ Tail(songs) = next
    BY <1>4, TailOfOne
  <2> HIDE DEF songs
  <2>2. QED
    BY <2>1
<1>6. job' = IF KeepsOpened(songs) THEN [job EXCEPT !.list = songs, !.pre = 2]
             ELSE [job EXCEPT !.list = songs, !.pre = pre, !.opened = TrackAt(songs, pre)]
  BY <1>2
<1> HIDE DEF songs
<1>7. pre \in Nat /\ pre <= Len(songs) /\ TrackAt(songs, pre) \in Nat
  <2>1. pre \in Nat /\ pre <= Len(songs)
    BY <1>5, OpenNextFits
  <2> HIDE DEF pre
  <2>2. QED
    BY <1>5, <2>1, TrackAtIsNat
<1> HIDE DEF pre
<1>8. job' \in Jobs /\ job'.list = songs /\ job'.pre <= Len(songs)
  <2>1. CASE KeepsOpened(songs)
    <3>1. 2 <= Len(songs)
      BY <1>5, <2>1 DEF KeepsOpened
    <3>2. job' = [job EXCEPT !.list = songs, !.pre = 2]
      BY <1>6, <2>1
    <3>3. QED
      BY <1>4, <1>5, <3>1, <3>2 DEF Jobs
  <2>2. CASE ~KeepsOpened(songs)
    <3>1. job' = [job EXCEPT !.list = songs, !.pre = pre, !.opened = TrackAt(songs, pre)]
      BY <1>6, <2>2
    <3>2. QED
      BY <1>4, <1>5, <1>7, <3>1 DEF Jobs
  <2>3. QED
    BY <2>1, <2>2
<1>9. PlayerFits'
  BY <1>1, <1>3, <1>8 DEF PlayerFits
<1>10. FollowsInv'
  BY <1>1, <1>3, <1>5, <1>8 DEF FollowsInv, Running
<1>11. QED
  BY <1>1, <1>9, <1>10, DecoderIsGood

LEMMA SongDecodedKeeps ==
  ASSUME QueueAssumption, NextAssumption, QueueIndInv, SongDecoded
  PROVE  QueueIndInv' /\ StepKeeps
<1>1. Running /\ DecoderStep /\ Len(passing) < MaxAhead
  BY DEF SongDecoded
<1>2. PlayerFits
  BY DEF QueueIndInv
<1>3. /\ job \in Jobs /\ job.list \in Seq(Entry) /\ Len(job.list) \in Nat /\ job.pre \in Nat
      /\ job.pre <= Len(job.list) /\ job.opened \in Nat
      /\ slot \subseteq Seq(Entry) /\ passing \in Seq(Marks) /\ Len(passing) \in Nat
  BY <1>2 DEF PlayerFits, Jobs
<1>4. PICK mark \in Marks, next \in Jobs :
        /\ passing' = Append(passing, mark) /\ job' = next /\ next.pre = 0
        /\ slot' \in {slot, {}}
  <2>1. CASE job.pre = 0
    <3>1. EndMark \in Marks /\ NoJob \in Jobs /\ NoJob.pre = 0
      BY DEF EndMark, Marks, NoJob, Jobs
    <3>2. passing' = Append(passing, EndMark) /\ job' = NoJob /\ slot' = {}
      BY <2>1 DEF SongDecoded, NoSlot
    <3>3. QED
      BY <3>1, <3>2
  <2>2. CASE job.pre # 0
    <3> DEFINE e == job.list[job.pre]
               mark == [id |-> e.id, track |-> e.track, audio |-> job.opened]
               rest == SubSeq(job.list, job.pre, Len(job.list))
               next == [list |-> rest, pre |-> 0, opened |-> 0, settled |-> FALSE]
    <3>1. passing' = Append(passing, mark) /\ job' = next /\ slot' = slot
      BY <2>2 DEF SongDecoded
    <3>2. e \in Entry
      BY <1>3, <2>2
    <3>3. mark \in Marks
      <4>1. e.id \in Nat /\ e.track \in Nat
        BY <3>2 DEF Entry, QueueAssumption
      <4> HIDE DEF e
      <4>2. QED
        BY <1>3, <4>1 DEF Marks
    <3>4. rest \in Seq(Entry)
      BY <1>3, <2>2
    <3> HIDE DEF rest
    <3>5. next \in Jobs /\ next.pre = 0
      BY <3>4 DEF Jobs
    <3> HIDE DEF mark, next
    <3>6. QED
      BY <3>1, <3>3, <3>5
  <2>3. QED
    BY <2>1, <2>2
<1>5. passing' \in Seq(Marks) /\ Len(passing') = Len(passing) + 1 /\ passing' # <<>>
  BY <1>3, <1>4
<1>6. PlayerFits'
  <2>1. Len(passing') <= MaxAhead
    BY <1>1, <1>3, <1>5 DEF NextAssumption
  <2>2. 0 <= Len(job'.list)
    BY <1>4 DEF Jobs
  <2>3. QED
    BY <1>3, <1>4, <1>5, <2>1, <2>2 DEF PlayerFits
<1>7. FollowsInv'
  BY <1>5 DEF FollowsInv
<1>8. QED
  BY <1>1, <1>6, <1>7, DecoderIsGood

(* The main loop hears of a boundary. *)
LEMMA TrackBoundaryKeeps ==
  ASSUME QueueAssumption, NextAssumption, QueueIndInv, TrackBoundary
  PROVE  QueueIndInv' /\ StepKeeps
<1>1. PICK b, new : /\ b = Head(passing) /\ new = AtBoundary(m, b.id, b.track, repeat)
                    /\ m' = new /\ UpcomingChanged(new, repeat)
  BY DEF TrackBoundary
<1>2. /\ passing # <<>> /\ passing' = Tail(passing) /\ repeat' = repeat /\ shuffle' = shuffle
      /\ job' = job /\ edits' = edits
  BY DEF TrackBoundary
<1>3. /\ Fitting(m) /\ QueuedFirst(m) /\ m.q # <<>> /\ repeat \in Repeats /\ shuffle \in Shuffles
      /\ edits \in 0..MaxEdits /\ passing \in Seq(Marks) /\ Len(passing) <= MaxAhead
  BY <1>2 DEF QueueIndInv, PlayerFits, Alive
<1>4. GoodTurn(m, new)
  BY <1>1, <1>3, AtBoundaryFits
<1>5. Fitting(new) /\ QueuedFirst(new) /\ KeepsSongs(m, new) /\ new.q # <<>>
  BY <1>3, <1>4 DEF GoodTurn
<1>6. passing' \in Seq(Marks) /\ Len(passing') <= MaxAhead /\ passing' # passing
  BY <1>2, <1>3 DEF NextAssumption
<1>7. PICK mode \in Repeats : mode = repeat
  BY <1>3
<1>8. QueueIndInv'
  BY <1>1, <1>2, <1>3, <1>5, <1>6, <1>7, ChangedIsGood
<1>9. StepKeeps
  BY <1>1, <1>2, <1>5, <1>6 DEF StepKeeps, KeepsSongs
<1>10. QED
  BY <1>8, <1>9

LEMMA FinishTrackKeeps ==
  ASSUME QueueAssumption, NextAssumption, QueueIndInv, FinishTrack
  PROVE  QueueIndInv' /\ StepKeeps
<1>1. /\ passing # <<>> /\ repeat' = repeat /\ shuffle' = shuffle /\ edits' = edits
      /\ CASE repeat = "Track" -> Load(m)
           [] repeat # "Track" /\ m.pos < Len(m.q) -> Load([m EXCEPT !.pos = @ + 1])
           [] OTHER -> IF repeat = "All" THEN Load(Wrap(m)) ELSE m' = m /\ StopJob
  BY DEF FinishTrack
<1>2. Fitting(m) /\ QueuedFirst(m) /\ m.q # <<>> /\ shuffle' \in Shuffles /\ edits' \in 0..MaxEdits
  BY <1>1 DEF QueueIndInv, Alive
<1>3. CASE repeat = "Track"
  <2>1. PICK new : new = m
    OBVIOUS
  <2>2. GoodStep(m, new)
    BY <1>2, <2>1, SameIsGood DEF GoodEdit
  <2>3. Load(new)
    BY <1>1, <1>3, <2>1
  <2>4. QED
    BY <1>1, <1>2, <2>2, <2>3, LoadIsGood
<1>4. CASE repeat # "Track" /\ m.pos < Len(m.q)
  <2>1. PICK new : new = [m EXCEPT !.pos = @ + 1]
    OBVIOUS
  <2>2. GoodStep(m, new)
    BY <1>2, <1>4, <2>1, OnwardIsGood
  <2>3. Load(new)
    BY <1>1, <1>4, <2>1
  <2>4. QED
    BY <1>1, <1>2, <2>2, <2>3, LoadIsGood
<1>5. CASE repeat # "Track" /\ ~(m.pos < Len(m.q)) /\ repeat = "All"
  <2>1. PICK new : new = Wrap(m)
    OBVIOUS
  <2>2. GoodStep(m, new)
    BY <1>2, <1>5, <2>1, OnwardIsGood
  <2>3. Load(new)
    BY <1>1, <1>5, <2>1
  <2>4. QED
    BY <1>1, <1>2, <2>2, <2>3, LoadIsGood
<1>6. CASE repeat # "Track" /\ ~(m.pos < Len(m.q)) /\ repeat # "All"
  <2>1. m' = m /\ StopJob
    BY <1>1, <1>6
  <2>2. QED
    BY <1>1, <1>2, <2>1, StopIsGood
<1>7. QED
  BY <1>3, <1>4, <1>5, <1>6

LEMMA QueueStarts ==
  ASSUME QueueAssumption, NextAssumption, QueueInit
  PROVE  QueueIndInv
<1>1. m = NoQueue /\ repeat = "Off" /\ shuffle = "Off" /\ slot = {} /\ job = NoJob /\ passing = <<>> /\ edits = 0
  BY DEF QueueInit, NoSlot
<1>2. NoQueue.q = <<>> /\ NoQueue.queued = {} /\ NoQueue.order = <<>> /\ NoQueue.pos = 1 /\ NoQueue \in Queues
  BY DEF NoQueue, Queues
<1>3. Fitting(NoQueue)
  <2>1. IsInjective(IdsOf(<<>>)) /\ IsInjective(<<>>) /\ Len(<<>>) <= MaxQueue
    BY DEF IsInjective, IdsOf, QueueAssumption
  <2>2. QED
    BY <1>2, <2>1 DEF Fitting
<1>4. QueuedFirst(NoQueue)
  BY <1>2 DEF QueuedFirst
<1>5. PlayerFits
  BY <1>1 DEF PlayerFits, NoJob, Jobs, NextAssumption
<1>6. Alive /\ FollowsInv
  BY <1>1 DEF Alive, FollowsInv, Running, NoJob, NoSlot
<1>7. QED
  BY <1>1, <1>3, <1>4, <1>5, <1>6 DEF QueueIndInv, Repeats, Shuffles, NextAssumption

LEMMA QueueingKeeps ==
  ASSUME QueueAssumption, NextAssumption, QueueIndInv, Queueing
  PROVE  QueueIndInv' /\ StepKeeps
<1>1. CASE User
  BY <1>1, PlayMembersKeeps, QueueSongsKeeps, PlaySongNowKeeps, PlayEntryKeeps, NextKeeps, PreviousKeeps,
     UpNextKeeps, SetShuffleKeeps, SetRepeatKeeps DEF User
<1>2. CASE Decoder
  BY <1>2, SettleKeeps, TakeUpcomingKeeps, SongDecodedKeeps DEF Decoder
<1>3. CASE TrackBoundary \/ FinishTrack
  BY <1>3, TrackBoundaryKeeps, FinishTrackKeeps
<1>4. QED
  BY <1>1, <1>2, <1>3 DEF Queueing

LEMMA QueueStutters ==
  ASSUME QueueIndInv, UNCHANGED queueVars
  PROVE  QueueIndInv'
<1>1. /\ m' = m /\ repeat' = repeat /\ shuffle' = shuffle /\ edits' = edits
      /\ slot' = slot /\ job' = job /\ passing' = passing
  BY DEF queueVars, player
<1>2. PlayerFits' /\ Alive' /\ FollowsInv'
  BY <1>1 DEF QueueIndInv, PlayerFits, Alive, FollowsInv, Running
<1>3. QED
  BY <1>1, <1>2 DEF QueueIndInv

(* The inductive invariant gives the ones the runs check. *)
LEMMA QueueIndGives ==
  ASSUME QueueAssumption, QueueIndInv
  PROVE  QueueInv /\ FollowsQueue
<1>1. Fitting(m) /\ QueuedFirst(m) /\ PlayerFits /\ FollowsInv
  BY DEF QueueIndInv
<1>2. FollowsQueue
  BY <1>1 DEF FollowsQueue, FollowsInv
<1>3. QueuedTogether
  BY <1>1, TogetherIsFirst DEF QueuedTogether
<1>4. m.pos \in 1 .. Max({1, Len(m.q)})
  <2> DEFINE S == {1, Len(m.q)}  n == Len(m.q)
  <2>1. n \in Nat /\ m.pos \in Nat \ {0} /\ (m.q # <<>> => m.pos \in 1..n) /\ (m.q = <<>> => m.pos = 1)
    BY <1>1, QueuePlaces DEF Fitting
  <2>2. S \in SUBSET Nat /\ S # {} /\ 1 \in S /\ n \in S /\ \A x \in S : x <= n + 1
    BY <2>1
  <2>3. n + 1 \in Nat
    BY <2>1
  <2> HIDE DEF S
  <2>4. Max(S) \in S /\ \A x \in S : x <= Max(S)
    BY <2>1, <2>2, <2>3, GreatestNumber
  <2>5. Max(S) \in Nat /\ 1 <= Max(S) /\ n <= Max(S)
    BY <2>2, <2>4
  <2>6. m.pos \in 1..Max(S)
    BY <2>1, <2>5
  <2>7. QED
    BY <2>6 DEF S
<1>5. QueueTypeOK
  <2>1. job.pre \in 0 .. Len(job.list)
    BY <1>1 DEF PlayerFits, Jobs
  <2>2. QED
    BY <1>1, <1>4, <2>1 DEF QueueTypeOK, Fitting, Queues, QueueIndInv, PlayerFits
<1>6. QED
  BY <1>2, <1>3, <1>5 DEF QueueInv

LEMMA QueueInvariance ==
  ASSUME QueueAssumption, NextAssumption
  PROVE  QueueSpec => []QueueIndInv
<1>1. QueueInit => QueueIndInv
  BY QueueStarts
<1>2. QueueIndInv /\ [Queueing]_queueVars => QueueIndInv'
  BY QueueingKeeps, QueueStutters
<1>3. QED
  BY <1>1, <1>2, PTL DEF QueueSpec

(* The play queue (queue.rs): its ids are of one entry each, what is queued   *)
(* and the source's order are of it, the position is in it, and the queued    *)
(* songs to come are one block right after the song playing.                  *)
THEOREM QueueFits ==
  ASSUME QueueAssumption, NextAssumption
  PROVE  QueueSpec => []QueueInv
<1>1. QueueIndInv => QueueInv
  BY QueueIndGives
<1>2. QED
  BY <1>1, QueueInvariance, PTL

(* upcoming_changed and take_upcoming: when nothing is on its way to the      *)
(* decode thread or back, its list is what the queue shows next.              *)
THEOREM DecoderFollows ==
  ASSUME QueueAssumption, NextAssumption
  PROVE  QueueSpec => []FollowsQueue
<1>1. QueueIndInv => FollowsQueue
  BY QueueIndGives
<1>2. QED
  BY <1>1, QueueInvariance, PTL

(* The edits of Up Next, shuffle and repeat leave the song playing, and what  *)
(* keeps the queue's length keeps its songs.                                  *)
THEOREM EditsKeep ==
  ASSUME QueueAssumption, NextAssumption
  PROVE  QueueSpec => EditsKeepTheQueue
<1>1. QueueIndInv /\ [Queueing]_queueVars
        => [slot' # NoSlot /\ UNCHANGED passing => Current(m') = Current(m)]_queueVars
  BY QueueingKeeps DEF StepKeeps
<1>2. QueueIndInv /\ [Queueing]_queueVars
        => [Len(m'.q) = Len(m.q) /\ IdsOf(m'.q) # [i \in DOMAIN m'.q |-> i]
              => ToSet(m'.q) = ToSet(m.q)]_queueVars
  BY QueueingKeeps DEF StepKeeps
<1>3. QED
  BY <1>1, <1>2, QueueInvariance, PTL DEF QueueSpec, EditsKeepTheQueue, EditsKeepCurrent, ReordersKeepSongs

(* What the user does never passes over a queued song to come: it is at the   *)
(* new position or after it, or was taken out.                                *)
THEOREM UserKeeps ==
  ASSUME QueueAssumption, NextAssumption
  PROVE  QueueSpec => UserKeepsQueued
<1>1. QueueIndInv /\ [Queueing]_queueVars => [edits' # edits => StayAhead]_queueVars
  BY QueueingKeeps DEF StepKeeps
<1>2. QED
  BY <1>1, QueueInvariance, PTL DEF QueueSpec, UserKeepsQueued
=============================================================================
