----------------------------- MODULE PlayQueue -----------------------------
(***************************************************************************)
(* The play queue of the application model (reborn-core queue.rs and the   *)
(* queue part of AppModel): each operation as a function of the queue.     *)
(*                                                                         *)
(* A queue is one list in play order: what played, the song playing (at    *)
(* `pos`, counted from 1), the songs the user queued, and the rest of the  *)
(* source.  An entry is an occurrence of a track: its id tells two entries *)
(* of one track apart.  `order` is the source's own order, by id.          *)
(***************************************************************************)
EXTENDS Integers, Sequences, SequencesExt, TLC

CONSTANTS
  Tracks,     \* the library's songs, numbered in the order of their album
  AlbumOf,    \* the album of each song
  MaxQueue    \* MAX_QUEUE

QueueAssumption == /\ Tracks \subseteq Nat \ {0}
                   /\ DOMAIN AlbumOf = Tracks /\ MaxQueue \in Nat \ {0}

Repeats  == {"Off", "Track", "All"}
Shuffles == {"Off", "Songs", "Albums"}

Entry == [id : Nat \ {0}, track : Tracks]
Ids(m) == {m.q[i].id : i \in DOMAIN m.q}
NoQueue == [q |-> <<>>, queued |-> {}, order |-> <<>>, pos |-> 1]

Current(m) == m.q[m.pos]
Queued(m, i) == m.q[i].id \in m.queued
Position(m, id) == CHOOSE i \in DOMAIN m.q : m.q[i].id = id
IdsOf(s) == [i \in DOMAIN s |-> s[i].id]

(* The numbers S by their key, those of one key in their own order. *)
Arranged(S, key) ==
  LET Before(i) == {j \in S : key[j] < key[i] \/ (key[j] = key[i] /\ j < i)}
  IN [n \in 1..Cardinality(S) |-> CHOOSE i \in S : Cardinality(Before(i)) = n - 1]
(* What a sequence has at the places S. *)
Only(s, S) == LET places == Arranged(S, [i \in S |-> 0])
              IN [n \in DOMAIN places |-> s[places[n]]]

(* source_start: where the source's songs to come begin. *)
SourceStart(m) ==
  Min({i \in m.pos + 1 .. Len(m.q) : ~Queued(m, i)} \cup {Len(m.q) + 1})

(* permute: the song playing stays the song playing. *)
Permute(m, new) ==
  [m EXCEPT !.q = [i \in DOMAIN m.q |-> m.q[new[i]]],
            !.pos = IF m.q = <<>> THEN @ ELSE CHOOSE i \in DOMAIN m.q : new[i] = m.pos]
(* The parts of the queue one after the other, each in its order. *)
Arrange(m, part) == Permute(m, Arranged(DOMAIN m.q, part))

(* anchor_queued: the queued songs to come go right after the song playing. *)
Anchor(m) ==
  Arrange(m, [i \in DOMAIN m.q |-> IF i <= m.pos THEN 0 ELSE IF Queued(m, i) THEN 1 ELSE 2])

-----------------------------------------------------------------------------
(* Replacing, inserting, removing. *)

(* replace_queue and set_source: `natural` is the source's own order of the indices. *)
ReplaceQueue(tracks, index, natural) ==
  [q |-> [i \in DOMAIN tracks |-> [id |-> i, track |-> tracks[i]]],
   queued |-> {}, order |-> natural, pos |-> index]

(* insert_queue_entry: the id after the greatest there is. *)
FreshId(m) == Max(Ids(m) \cup {0}) + 1

(* insert_queued: into an empty queue the songs are the queue, with no source. *)
Insert(m, at, tracks) ==
  IF m.q = <<>> THEN ReplaceQueue(tracks, 1, <<>>)
  ELSE LET new == [i \in DOMAIN tracks |-> [id |-> FreshId(m) + i - 1, track |-> tracks[i]]]
       IN [m EXCEPT !.q = SubSeq(@, 1, at - 1) \o new \o SubSeq(@, at, Len(@)),
                    !.queued = @ \cup ToSet(IdsOf(new))]

Fits(m, tracks) == Len(m.q) + Len(tracks) <= MaxQueue
QueueNext(m, tracks) == Insert(m, m.pos + 1, tracks)
QueueLast(m, tracks) == Insert(m, SourceStart(m), tracks)

(* The queue with the entries at the places S alone; the song playing is at `at`. *)
Keep(m, S, at) ==
  LET gone == {m.q[i].id : i \in DOMAIN m.q \ S}
  IN [q |-> Only(m.q, S), queued |-> m.queued \ gone,
      order |-> Only(m.order, {r \in DOMAIN m.order : m.order[r] \notin gone}), pos |-> at]

(* remove_entries: never the song playing. *)
Stay(m, ids) == {i \in DOMAIN m.q : m.q[i].id \notin ids \/ i = m.pos}
\* Plausible bug: the position does not follow the song playing.
RemoveEntries_NoShift(m, ids) ==
  LET kept == Stay(m, ids) IN Keep(m, kept, Min({m.pos, Cardinality(kept)}))
RemoveEntries(m, ids) ==
  LET kept == Stay(m, ids)
  IN Keep(m, kept, m.pos - Cardinality((1 .. m.pos - 1) \ kept))

(* clear_queued, clear_future_queue. *)
ClearQueued(m) == RemoveEntries(m, {m.q[i].id : i \in m.pos + 1 .. SourceStart(m) - 1})
ClearFuture(m) ==
  LET left == {m.q[i].id : i \in 1 .. m.pos}
  IN IF m.pos >= Len(m.q) THEN m
     ELSE [Keep(m, 1 .. m.pos, m.pos) EXCEPT
             !.order = Only(m.order, {r \in DOMAIN m.order : m.order[r] \in left})]

-----------------------------------------------------------------------------
(* Moving. *)

(* move_queue_entry: swap two entries, neither of them playing. *)
Swap(m, i, j) == [m EXCEPT !.q[i] = m.q[j], !.q[j] = m.q[i]]

(* move_entry: the first step over the border of the queued songs only        *)
(* changes the part an entry belongs to.                                      *)
\* Plausible bug: the border is crossed by a swap.
MoveEntry_NoBorder(m, i, up) ==
  IF i <= m.pos \/ (up /\ i = m.pos + 1) \/ (~up /\ i = Len(m.q)) THEN m
  ELSE Swap(m, i, IF up THEN i - 1 ELSE i + 1)
MoveEntry(m, i, up) ==
  LET border == SourceStart(m) IN
  CASE i <= m.pos -> m
    [] i > m.pos /\ up /\ Queued(m, i) /\ i = m.pos + 1 -> m
    [] i > m.pos /\ up /\ ~Queued(m, i) /\ i = border ->
         [m EXCEPT !.queued = @ \cup {m.q[i].id}]
    [] i > m.pos /\ ~up /\ Queued(m, i) /\ i + 1 = border ->
         [m EXCEPT !.queued = @ \ {m.q[i].id}]
    [] OTHER -> IF ~up /\ i = Len(m.q) THEN m ELSE Swap(m, i, IF up THEN i - 1 ELSE i + 1)

(* chosen_entries, queue_entries: the chosen entries to come. *)
Chosen(m, ids) == {i \in m.pos + 1 .. Len(m.q) : m.q[i].id \in ids}
QueueEntries(m, chosen, part) ==
  Arrange([m EXCEPT !.queued = @ \cup {m.q[i].id : i \in chosen}], part)

EntriesNext(m, ids) ==
  QueueEntries(m, Chosen(m, ids),
    [i \in DOMAIN m.q |-> IF i <= m.pos THEN 0 ELSE IF i \in Chosen(m, ids) THEN 1 ELSE 2])
EntriesLast(m, ids) ==
  QueueEntries(m, Chosen(m, ids),
    [i \in DOMAIN m.q |-> IF i <= m.pos THEN 0 ELSE IF i \in Chosen(m, ids) THEN 2
                          ELSE IF i < SourceStart(m) THEN 1 ELSE 3])

(* jump_to: queued songs that are passed over come right after. *)
\* Plausible bug: the songs passed over are left behind, the queued ones too.
JumpToEntry_Leaves(m, i) == Anchor([m EXCEPT !.pos = i])
JumpToEntry(m, i) ==
  IF i <= m.pos THEN Anchor([m EXCEPT !.pos = i])
  ELSE LET moved == Arrange(m, [j \in DOMAIN m.q |->
                      IF j <= m.pos THEN 0 ELSE IF j = i THEN 2 ELSE IF j > i THEN 4
                      ELSE IF Queued(m, j) THEN 3 ELSE 1])
       IN Anchor([moved EXCEPT !.pos = Position(moved, m.q[i].id)])

(* step: back a song, the queued songs still come right after it. *)
StepBack(m) == Anchor([m EXCEPT !.pos = @ - 1])

-----------------------------------------------------------------------------
(* Repeat All starting over. *)

(* drop_played_queued: the queued songs leave, unless they are all there is; `keep` stays. *)
DropPlayedQueued(m, keep) ==
  LET kept == {i \in DOMAIN m.q : ~Queued(m, i) \/ m.q[i].id = keep}
  IN IF kept = {} THEN [m EXCEPT !.queued = {}]
     ELSE [m EXCEPT !.q = Only(@, kept), !.queued = {},
                    !.pos = Min({Cardinality(kept), @ - Cardinality((1 .. @ - 1) \ kept)})]

Wrap(m) == [DropPlayedQueued(m, 0) EXCEPT !.pos = 1]
WrapTo(m, id) ==
  LET left == DropPlayedQueued(m, id)
  IN IF id \in Ids(left) THEN [left EXCEPT !.pos = Position(left, id)] ELSE left

(* upcoming: the next n entries; with Repeat All the start follows the end, *)
(* without the queued songs that will have played by then.                  *)
Upcoming(m, repeat, n) ==
  LET ahead == SubSeq(m.q, m.pos + 1, Len(m.q))
      again == Only(m.q, {i \in 1 .. Min({m.pos, Len(m.q)}) : Ids(m) \subseteq m.queued \/ ~Queued(m, i)})
      all == IF repeat = "All" THEN ahead \o again ELSE ahead
  IN IF repeat = "Track" THEN <<>> ELSE SubSeq(all, 1, Min({n, Len(all)}))

-----------------------------------------------------------------------------
(* Shuffling, and back. *)

ToCome(m) == Len(m.q) + 1 - SourceStart(m)
KnowsOrder(m) == IF m.order = <<>> THEN [m EXCEPT !.order = IdsOf(m.q)] ELSE m

(* shuffle_source: the source's songs to come, in any order. *)
Mixes(m) == {new \in SetToSeqs(DOMAIN m.q) : \A i \in 1 .. SourceStart(m) - 1 : new[i] = i}
ShuffleSongs(m) == {Permute(KnowsOrder(m), new) : new \in Mixes(m)}

(* album_shuffle: whole albums in any order, each in its own, the song lead   *)
(* (0 for none) and what follows it on its album first, the songs before it   *)
(* on its album last.  Gives positions into `tracks`.                         *)
AlbumShuffle(tracks, lead) ==
  LET n == Len(tracks)
      album(i) == AlbumOf[tracks[i]]
      before(i, j) == tracks[i] < tracks[j] \/ (tracks[i] = tracks[j] /\ i < j)
      part(i) == CASE lead = 0 -> 1
                   [] lead # 0 /\ album(i) # album(lead) -> 1
                   [] OTHER -> IF before(i, lead) THEN 2 ELSE 0
  IN {p \in SetToSeqs(1..n) :
        \A a, b \in 1..n : a < b =>
          /\ part(p[a]) <= part(p[b])
          /\ album(p[a]) = album(p[b]) /\ part(p[a]) = part(p[b]) => before(p[a], p[b])
          /\ album(p[a]) = album(p[b]) /\ part(p[a]) = part(p[b])
               => \A c \in a..b : album(p[c]) = album(p[a])}

(* shuffle_source_albums: the album playing goes on first. *)
ShuffleAlbums(m) ==
  LET before == SourceStart(m) - 1
      rest == [i \in 1 .. ToCome(m) + 1 |-> IF i = 1 THEN m.pos ELSE before + i - 1]
      tracks == [i \in DOMAIN rest |-> m.q[rest[i]].track]
      picked(new) == [i \in DOMAIN rest |-> IF i = 1 THEN 1 ELSE new[before + i - 1] - before + 1]
  IN {Permute(KnowsOrder(m), new) : new \in {mix \in Mixes(m) : picked(mix) \in AlbumShuffle(tracks, 1)}}

(* unshuffle_source: on from the song of the source it is at, the ones before *)
(* follow, entries the source does not know last.                             *)
Rank(m, id) == CHOOSE r \in DOMAIN m.order : m.order[r] = id
Ranked(m, i) == m.q[i].id \in ToSet(m.order)
SourceRank(m) ==
  LET known == {i \in 1 .. m.pos : Ranked(m, i)}
  IN IF known = {} THEN 0 ELSE Rank(m, m.q[Max(known)].id)
Unshuffle(m) ==
  LET n == Len(m.order)
      rank(i) == Rank(m, m.q[i].id)
  IN Arrange(m, [i \in DOMAIN m.q |->
       IF i < SourceStart(m) THEN 0 ELSE IF ~Ranked(m, i) THEN 2 * n + 1
       ELSE IF rank(i) > SourceRank(m) THEN rank(i) ELSE n + rank(i)])

(* AppModel::apply(TrackBoundary): the entry by id, or the track's first occurrence. *)
AtBoundary(m, id, track, repeat) ==
  LET places == {i \in DOMAIN m.q : m.q[i].id = id}
      found == IF places # {} THEN places ELSE {i \in DOMAIN m.q : m.q[i].track = track}
  IN CASE found = {} -> m
       [] found # {} /\ Min(found) > m.pos -> [m EXCEPT !.pos = Min(found)]
       [] OTHER -> IF repeat = "All" THEN WrapTo(m, id) ELSE m
=============================================================================
