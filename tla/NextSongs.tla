----------------------------- MODULE NextSongs -----------------------------
(***************************************************************************)
(* The queue while it plays: the user edits it, the decode thread knows a  *)
(* list of next songs and opens the first before the song playing ends.    *)
(* The list is replaced through one slot (set_upcoming, take_upcoming);    *)
(* the decoder is ahead of what is heard by the boundaries in the stream.  *)
(*                                                                         *)
(* A start is one step here (Transport has its stages): it gives a new job *)
(* its list, and a slot or a boundary of the job before counts no more,    *)
(* being of another generation.                                            *)
(***************************************************************************)
EXTENDS PlayQueue

CONSTANTS
  Unplayable, \* songs whose file the decoder cannot open
  Sources,    \* the collections there are to play: sequences of songs
  UpcomingLen,\* UPCOMING
  MaxAhead,   \* bound: boundaries between the decoder and what is heard
  MaxEdits,   \* bound: actions of the user
  MaxId       \* bound: entry ids (a u64 in the code)

NextAssumption == /\ Unplayable \subseteq Tracks
                  /\ Sources \subseteq Seq(Tracks) \ {<<>>}
                  /\ UpcomingLen \in Nat \ {0} /\ MaxAhead \in Nat \ {0}
                  /\ MaxEdits \in Nat /\ MaxId \in Nat

VARIABLES
  m,          \* the queue of the application model
  repeat, shuffle,   \* Settings
  slot,       \* Playback.upcoming, for the job that runs: no list or one
  job,        \* the decoder's job: the song it decodes and its list, what it opened
  passing,    \* boundaries and the end between the decoder and the main loop
  heard,      \* the track whose audio is heard, 0 for none
  edits       \* count of the user's actions

player == <<slot, job, passing, heard>>
queueVars == <<m, repeat, shuffle, player, edits>>

NoSlot == {}
NoJob  == [list |-> <<>>, pre |-> 0, opened |-> 0, settled |-> FALSE]
Running == job.list # <<>>
EndMark == [id |-> 0, track |-> 0, audio |-> 0]

QueueInit ==
  /\ m = NoQueue /\ repeat = "Off" /\ shuffle = "Off"
  /\ slot = NoSlot /\ job = NoJob /\ passing = <<>> /\ heard = 0 /\ edits = 0

-----------------------------------------------------------------------------
(* Starts and edits. *)

(* load: the song at the position, and what follows it.  A song that cannot be *)
(* opened ends its job with an error.                                          *)
Load(new) ==
  /\ m' = new /\ slot' = NoSlot /\ passing' = <<>>
  /\ IF Current(new).track \in Unplayable THEN job' = NoJob /\ heard' = 0
     ELSE /\ job' = [list |-> <<Current(new)>> \o Upcoming(new, repeat, UpcomingLen),
                     pre |-> 0, opened |-> 0, settled |-> FALSE]
          /\ heard' = Current(new).track

StopJob == slot' = NoSlot /\ job' = NoJob /\ passing' = <<>> /\ heard' = 0

(* upcoming_changed: the decoder takes the list at its next block. *)
\* Plausible bug: the next song alone, the list behind it stays.
UpcomingChanged_First(new, mode) ==
  slot' = IF Running THEN {Upcoming(new, mode, 1)} ELSE NoSlot
UpcomingChanged(new, mode) ==
  slot' = IF Running THEN {Upcoming(new, mode, UpcomingLen)} ELSE NoSlot

(* An edit that leaves the song playing alone. *)
Edited(new, changed) ==
  /\ m' = new /\ UNCHANGED <<job, passing, heard>>
  /\ IF changed THEN UpcomingChanged(new, repeat) ELSE UNCHANGED slot
Edit(new) == Edited(new, new # m)

UserActs == edits < MaxEdits /\ edits' = edits + 1
Keeps == UNCHANGED <<repeat, shuffle>>

(* play_members: the collection from the selected song, in its order or shuffled *)
(* (by the setting, or any song first for a Shuffle row), cut to the queue's size. *)
Window(n, at) ==
  IF n <= MaxQueue THEN 0
  ELSE Min({IF at - 1 < MaxQueue \div 10 THEN 0 ELSE at - 1 - MaxQueue \div 10, n - MaxQueue})
PlayOrders(source, at, mode, row) ==
  LET n == Len(source) IN
  CASE mode = "Off" ->
         LET first == Window(n, at)
         IN {<<[i \in 1 .. Min({n, MaxQueue}) |-> first + i], at - first>>}
    [] mode = "Songs" ->
         {<<SubSeq(p, 1, Min({n, MaxQueue})), 1>> : p \in {p \in SetToSeqs(1..n) : row \/ p[1] = at}}
    [] OTHER -> {<<SubSeq(p, 1, Min({n, MaxQueue})), 1>> : p \in AlbumShuffle(source, IF row THEN 0 ELSE at)}
PlayMembers ==
  \E source \in Sources, row \in {"Off", "Songs", "Albums"} :
    \E at \in DOMAIN source :
      \E play \in PlayOrders(source, at, IF row = "Off" THEN shuffle ELSE row, row # "Off") :
        LET chosen == play[1]
        IN UserActs /\ Keeps
           /\ Load(ReplaceQueue([i \in DOMAIN chosen |-> source[chosen[i]]], play[2],
                                Arranged(DOMAIN chosen, chosen)))

(* queue_songs: Play Next and Add to Queue; in an empty queue Play Next starts them. *)
QueueSongs ==
  \E t \in Tracks, next \in BOOLEAN :
    LET new == IF next THEN QueueNext(m, <<t>>) ELSE QueueLast(m, <<t>>)
    IN /\ UserActs /\ Keeps
       /\ m.q = <<>> \/ (Fits(m, <<t>>) /\ FreshId(m) <= MaxId)
       /\ IF m.q # <<>> THEN Edit(new)
          ELSE IF next THEN Load(new) ELSE m' = new /\ UNCHANGED player

(* on_play_now: Play Next, and on to it. *)
PlaySongNow ==
  \E t \in Tracks :
    /\ UserActs /\ Keeps
    /\ m.q = <<>> \/ (Fits(m, <<t>>) /\ FreshId(m) <= MaxId)
    /\ LET new == QueueNext(m, <<t>>) IN Load(IF m.q = <<>> THEN new ELSE JumpToEntry(new, m.pos + 1))

PlayEntry == m.q # <<>> /\ UserActs /\ Keeps /\ \E i \in DOMAIN m.q : Load(JumpToEntry(m, i))

(* on_next_or_previous_track: over the end with Repeat All, else to a stop; *)
(* Previous late in a song, or on the first, starts it again.               *)
Next_ ==
  /\ m.q # <<>> /\ UserActs /\ Keeps
  /\ IF m.pos < Len(m.q) THEN Load([m EXCEPT !.pos = @ + 1])
     ELSE IF repeat = "All" THEN Load(Wrap(m)) ELSE m' = m /\ StopJob
Previous ==
  /\ m.q # <<>> /\ UserActs /\ Keeps
  /\ Load(m) \/ (m.pos > 1 /\ Load(StepBack(m)))

(* The edits of Up Next. *)
UpNext ==
  /\ m.q # <<>> /\ UserActs /\ Keeps
  /\ \/ \E i \in DOMAIN m.q, up \in BOOLEAN : Edit(MoveEntry(m, i, up))
     \/ \E ids \in SUBSET Ids(m) \ {{}} :
          \/ Edit(RemoveEntries(m, ids))
          \/ Edited(EntriesNext(m, ids), Chosen(m, ids) # {})
          \/ Edited(EntriesLast(m, ids), Chosen(m, ids) # {})
     \/ Edit(ClearQueued(m))
     \/ Edit(ClearFuture(m))

(* on_set_shuffle: first back to the source's order, then the new mode. *)
SetShuffle ==
  \E mode \in Shuffles \ {shuffle} :
    LET back == shuffle # "Off" /\ m.order # <<>>
        ordered == IF back THEN Unshuffle(m) ELSE m
        mixes == mode # "Off" /\ ToCome(ordered) >= 2
    IN /\ UserActs /\ shuffle' = mode /\ UNCHANGED <<repeat, job, passing, heard>>
       /\ IF m.q = <<>> \/ ~(back \/ mixes) THEN m' = m /\ UNCHANGED slot
          ELSE \E new \in IF ~mixes THEN {ordered}
                          ELSE IF mode = "Songs" THEN ShuffleSongs(ordered)
                          ELSE ShuffleAlbums(ordered) :
                 m' = new /\ UpcomingChanged(new, repeat)

SetRepeat ==
  \E mode \in Repeats \ {repeat} :
    /\ UserActs /\ repeat' = mode /\ UpcomingChanged(m, mode)
    /\ UNCHANGED <<m, shuffle, job, passing, heard>>

-----------------------------------------------------------------------------
(* The decode thread. *)

(* open_next: the first song from `start` that opens. *)
OpenNext(list, start) ==
  LET opens == {i \in start .. Len(list) : list[i].track \notin Unplayable}
  IN IF opens = {} THEN 0 ELSE Min(opens)
TrackAt(list, i) == IF i = 0 THEN 0 ELSE list[i].track

DecoderStep == UNCHANGED <<m, repeat, shuffle, heard, edits>>

(* settle: the song's first audio is queued; the song after it is opened. *)
Settle ==
  /\ Running /\ ~job.settled
  /\ LET pre == OpenNext(job.list, 2)
     IN job' = [job EXCEPT !.settled = TRUE, !.pre = pre, !.opened = TrackAt(job.list, pre)]
  /\ UNCHANGED <<slot, passing>> /\ DecoderStep

(* take_upcoming: what is opened stays when the entry next to come has its id. *)
KeepsOpened(list) == job.pre # 0 /\ Len(list) >= 2 /\ list[2].id = job.list[job.pre].id
TakeUpcoming ==
  /\ Running
  /\ \E next \in slot :
       LET list == <<job.list[1]>> \o next
           pre == IF job.settled THEN OpenNext(list, 2) ELSE 0
       IN job' = IF KeepsOpened(list) THEN [job EXCEPT !.list = list, !.pre = 2]
                 ELSE [job EXCEPT !.list = list, !.pre = pre, !.opened = TrackAt(list, pre)]
  /\ slot' = NoSlot
  /\ UNCHANGED passing /\ DecoderStep

(* The song's audio ended: on to the opened one, or the end of the stream. *)
SongDecoded ==
  /\ Running /\ job.settled /\ Len(passing) < MaxAhead
  /\ IF job.pre = 0 THEN job' = NoJob /\ slot' = NoSlot /\ passing' = Append(passing, EndMark)
     ELSE LET next == job.list[job.pre]
          IN /\ passing' = Append(passing, [id |-> next.id, track |-> next.track,
                                            audio |-> job.opened])
             /\ job' = [list |-> SubSeq(job.list, job.pre, Len(job.list)),
                        pre |-> 0, opened |-> 0, settled |-> FALSE]
             /\ UNCHANGED slot
  /\ DecoderStep

(* The main loop hears of a boundary: the model moves, the decoder's list is *)
(* topped up.                                                                *)
TrackBoundary ==
  /\ passing # <<>> /\ Head(passing) # EndMark
  /\ LET b == Head(passing)
         new == AtBoundary(m, b.id, b.track, repeat)
     IN m' = new /\ heard' = b.audio /\ UpcomingChanged(new, repeat)
  /\ passing' = Tail(passing)
  /\ UNCHANGED <<repeat, shuffle, job, edits>>

(* finish_track. *)
FinishTrack ==
  /\ passing # <<>> /\ Head(passing) = EndMark
  /\ CASE repeat = "Track" -> Load(m)
       [] repeat # "Track" /\ m.pos < Len(m.q) -> Load([m EXCEPT !.pos = @ + 1])
       [] OTHER -> IF repeat = "All" THEN Load(Wrap(m)) ELSE m' = m /\ StopJob
  /\ UNCHANGED <<repeat, shuffle, edits>>

Decoder == Settle \/ TakeUpcoming \/ SongDecoded
User == PlayMembers \/ QueueSongs \/ PlaySongNow \/ PlayEntry \/ Next_ \/ Previous \/ UpNext
          \/ SetShuffle \/ SetRepeat
Queueing == User \/ Decoder \/ TrackBoundary \/ FinishTrack
QueueSpec == QueueInit /\ [][Queueing]_queueVars

-----------------------------------------------------------------------------
(* The parts of the queue fit together, and ids are of one entry. *)
QueueTypeOK ==
  /\ m.q \in Seq(Entry) /\ Len(m.q) <= MaxQueue
  /\ IsInjective(IdsOf(m.q))
  /\ m.pos \in 1 .. Max({1, Len(m.q)})
  /\ m.queued \subseteq Ids(m)
  /\ IsInjective(m.order)
  /\ repeat \in Repeats /\ shuffle \in Shuffles /\ edits \in 0..MaxEdits
  /\ job.pre \in 0 .. Len(job.list) /\ Len(passing) <= MaxAhead

(* "Your queued songs stay one block right after the song playing, whatever   *)
(* moves the position" (queue.rs): no queued song is left among the source's  *)
(* songs to come.                                                             *)
QueuedTogether == \A i \in SourceStart(m) .. Len(m.q) : ~Queued(m, i)

(* The parts of the queue fit together, the queued songs in one block. *)
QueueInv == QueueTypeOK /\ QueuedTogether

(* When nothing is on its way, the decoder goes on with the songs the queue   *)
(* shows next, whatever was edited, reached or repeated.                      *)
FollowsQueue ==
  Running /\ slot = NoSlot /\ passing = <<>>
    => Tail(job.list) = Upcoming(m, repeat, UpcomingLen)

(* While the song playing goes on, no edit, shuffle or repeat mode moves the  *)
(* queue to another song.                                                     *)
EditsKeepCurrent ==
  [][slot' # NoSlot /\ UNCHANGED passing => Current(m') = Current(m)]_queueVars

(* A step that keeps the queue's length loses no song and doubles none, but   *)
(* for a collection played, whose ids count from 1.                           *)
ReordersKeepSongs ==
  [][Len(m'.q) = Len(m.q) /\ IdsOf(m'.q) # [i \in DOMAIN m'.q |-> i]
       => ToSet(m'.q) = ToSet(m.q)]_queueVars

(* Whatever is edited, the song playing and the songs there are stay. *)
EditsKeepTheQueue == EditsKeepCurrent /\ ReordersKeepSongs

(* A queued song to come stays to come, until it plays or is taken out: by    *)
(* whatever the user does, and by whatever happens.                           *)
StayAhead ==
  \A i \in m.pos + 1 .. Len(m.q) :
    Queued(m, i) /\ m.q[i].id \in Ids(m') /\ UNCHANGED m.queued
      => Position(m', m.q[i].id) >= m'.pos
UserKeepsQueued == [][edits' # edits => StayAhead]_queueVars
QueuedStayAhead == [][StayAhead]_queueVars

(* The song opened ahead is the song of the entry it will be announced as. *)
OpenedIsNext == Running /\ job.pre # 0 => job.opened = job.list[job.pre].track

(* At the end with Repeat All, the decoder's way over the end leaves the same  *)
(* queue as Next: queued songs leave, unless they are all there is.            *)
WrapsAlike == m.q # <<>> => WrapTo(m, Current(Wrap(m)).id) = Wrap(m)

(* A song the user queues has no place in the source's own order. *)
NewIsUnranked == [][(m'.queued \ Ids(m)) \cap ToSet(m.order) = {}]_queueVars
=============================================================================
