------------------------------ MODULE Bookshelf ------------------------------
(***************************************************************************)
(* The place in every audiobook (app books.rs, reborn-core books.rs) and   *)
(* the two files it is kept in: the shelf (state/books.json) and the       *)
(* session (state/session.json), which holds the place of the book that    *)
(* is playing.  A checkpoint writes the shelf always, the session only     *)
(* when no start is in progress; either write may fail, and only a session *)
(* that failed is written again; the power may be cut at any time.         *)
(*                                                                         *)
(* A position counts units of ten seconds; `PartLength` is less than five  *)
(* seconds before the end of a part.  A book's folder may be renamed: its  *)
(* key and its paths change, the names and sizes of its files do not.      *)
(* A chapter is a part; the speed of a book is left out.                   *)
(***************************************************************************)
EXTENDS Naturals, Sequences, Functions

CONSTANTS
  Books,         \* the books of the library
  PartsOf,       \* the number of parts of each
  PartLength,    \* the length of a part
  Rewinds,       \* the rewinds after a pause: longer after a longer one
  Song,          \* an item of the queue that is no part of a book
  NoBook,
  MarksCurrent,  \* the book playing may be marked (finished, forgotten) too
  MaxMoves,      \* bound: calls and movements of the place
  MaxRenames     \* bound: renames of each folder

BookshelfAssumption ==
  /\ PartsOf \in [Books -> Nat \ {0}] /\ PartLength \in Nat \ {0} /\ Rewinds \subseteq Nat \ {0}
  /\ Song \notin Books \X Nat \X Nat /\ NoBook \notin Books \X Nat
  /\ MarksCurrent \in BOOLEAN /\ MaxMoves \in Nat /\ MaxRenames \in Nat

VARIABLES
  names,      \* how often each book's folder was renamed
  shelf,      \* by key: the part, the position and whether the book is finished
  shelfFile,  \* state/books.json
  model,      \* the book listened to (its key), the queue, where in it
  session,    \* state/session.json
  playback,   \* "paused" (or stopped), "starting" or "playing"
  pending,    \* what a start in progress is rolled back to, if there is one
  dirty,      \* the session is to be written
  left,       \* ghost: where the listener left each book
  unwritten,  \* ghost: the last write of the shelf failed
  moves       \* bound: moves made
shelfVars == <<names, shelf, shelfFile, model, session, playback, pending, dirty, left, unwritten, moves>>

Key(b) == <<b, names[b]>>
FilesOf(b) == [p \in 1..PartsOf[b] |-> <<b, p, names[b]>>]
NoModel == [key |-> NoBook, queue |-> <<Song>>, at |-> 1, pos |-> 0]

(* book_part: the book whose part is current, under the name its folder has. *)
Item(m) == m.queue[m.at]
Plays(m, b) == m.key = Key(b) /\ Item(m) # Song /\ Item(m)[1] = b /\ Item(m)[3] = names[b]
PartOf(m) == Item(m)[2]

-----------------------------------------------------------------------------
(* The shelf. *)

(* Shelf::find: the book's key, else a record of one of its files. *)
Found(s, b) == IF Key(b) \in DOMAIN s THEN {Key(b)} ELSE {k \in DOMAIN s : k[1] = b}
Forget(s, b) == Restrict(s, DOMAIN s \ Found(s, b))
With(s, b, part, pos, done) ==
  [k \in {Key(b)} \cup DOMAIN Forget(s, b) |->
     IF k = Key(b) THEN [part |-> part, pos |-> pos, done |-> done] ELSE s[k]]

(* Shelf::record: the first ten seconds are no place, but those of a finished book are its end. *)
\* Plausible bug: the start of a finished book is no place either.
Record_Restarts(s, b, part, pos) ==
  IF part > 1 \/ pos > 0 THEN With(s, b, part, pos, FALSE) ELSE Forget(s, b)
Record(s, b, part, pos) ==
  LET done == part = 1 /\ pos = 0 /\ \E k \in Found(s, b) : s[k].done
  IN IF part > 1 \/ pos > 0 \/ done THEN With(s, b, part, pos, done) ELSE Forget(s, b)

(* Shelf::set_finished. *)
SetFinished(s, b, done) == IF done THEN With(s, b, 1, 0, TRUE) ELSE Forget(s, b)

(* A book's place: its part, position and whether it is finished. *)
Start == <<1, 0, FALSE>>
End == <<1, 0, TRUE>>
PlaceOn(s, b) ==
  IF Found(s, b) = {} THEN Start
  ELSE LET r == s[CHOOSE k \in Found(s, b) : TRUE] IN <<r.part, r.pos, r.done>>
(* The book of m is past its beginning. *)
Begun(m, b) == Plays(m, b) /\ (PartOf(m) > 1 \/ m.pos > 0)
(* The place a session and a shelf have of it together. *)
Place(m, s, b) ==
  IF Plays(m, b) THEN <<PartOf(m), m.pos, PlaceOn(s, b) = End /\ PartOf(m) = 1 /\ m.pos = 0>>
  ELSE PlaceOn(s, b)

Back(pos, back) == IF pos < back THEN 0 ELSE pos - back
(* Shelf::resume. *)
Resume(s, b, back) ==
  LET p == PlaceOn(s, b) IN
  IF p[3] THEN <<1, 0>>
  ELSE IF p[2] = PartLength /\ p[1] < PartsOf[b] THEN <<p[1] + 1, 0>>
  ELSE <<p[1], Back(p[2], back)>>

(* save_book. *)
Save(s, m) ==
  IF \E b \in Books : Plays(m, b)
  THEN LET b == CHOOSE c \in Books : Plays(m, c) IN Record(s, b, PartOf(m), m.pos)
  ELSE s

ShelfInit ==
  /\ names = [b \in Books |-> 0] /\ shelf = <<>> /\ shelfFile = <<>>
  /\ model = NoModel /\ session = NoModel /\ playback = "paused" /\ pending = <<>>
  /\ dirty = FALSE /\ left = [b \in Books |-> Start] /\ unwritten = FALSE /\ moves = 0

Idle == pending = <<>>
Move == moves < MaxMoves /\ moves' = moves + 1

-----------------------------------------------------------------------------
(* Checkpoints. *)

(* write_shelf of the shelf s, when it is not what was written last: a write that fails has left
   the old file, or the new one when only its folder was not flushed. *)
Writes(s) ==
  \/ shelfFile' = s /\ unwritten' = FALSE
  \/ (s # shelfFile \/ unwritten) /\ shelfFile' \in {shelfFile, s} /\ unwritten' = TRUE

(* checkpoint of the model m and the shelf s: the session is dirty until a write of it succeeds. *)
\* Plausible bug: a failed write counts as one.
Checkpoint_Clears(m, s, starting) ==
  /\ model' = m /\ shelf' = Save(s, m) /\ Writes(shelf') /\ dirty' = FALSE
  /\ \/ ~starting /\ session' = m
     \/ UNCHANGED session
Checkpoint(m, s, starting) ==
  /\ model' = m /\ shelf' = Save(s, m) /\ Writes(shelf')
  /\ \/ ~starting /\ session' = m /\ dirty' \in BOOLEAN
     \/ dirty' = TRUE /\ UNCHANGED session

(* The periodic checkpoint, every 15 seconds when something changed. *)
Tick ==
  /\ dirty /\ Checkpoint(model, shelf, pending # <<>>)
  /\ UNCHANGED <<names, playback, pending, left, moves>>

(* prepare_sleep of a paused player writes the session alone; a write that fails refuses the sleep. *)
PrepareSleep ==
  /\ Idle /\ playback = "paused" /\ session' = model
  /\ UNCHANGED <<names, shelf, shelfFile, model, playback, pending, dirty, left, unwritten, moves>>

(* A new process: AppModel::restore and load_shelf. *)
Boots(m, s) ==
  /\ model' = m /\ session' = m /\ shelf' = s /\ shelfFile' = s
  /\ playback' = "paused" /\ pending' = <<>> /\ dirty' = FALSE /\ unwritten' = FALSE
  /\ left' = [b \in Books |-> Place(m, s, b)]
  /\ UNCHANGED <<names, moves>>
(* The power goes: at any time, or between the two writes of a checkpoint (each is atomic). *)
PowerCut == Boots(session, shelfFile) \/ Boots(session, Save(shelf, model))
(* The shutdown gives up a start in progress, and writes; the shelf's write may fail. *)
Shutdown == Boots(model, Save(shelf, model)) \/ Boots(model, shelfFile)

-----------------------------------------------------------------------------
(* Starts: load, the answer to it, and what a refused one leaves. *)

FileIsThere(m) == Item(m) # Song => Item(m)[3] = names[Item(m)[1]]

(* load of the model m, with the shelf s: refused at once, or in progress. *)
Loads(m, s, places) ==
  /\ Idle /\ shelf' = s
  /\ \/ UNCHANGED <<model, playback, pending, dirty, left>>
     \/ /\ FileIsThere(m)
        /\ model' = m /\ playback' = "starting" /\ dirty' = TRUE /\ left' = places
        /\ pending' = <<[model |-> model, left |-> left]>>

(* poll_pending_reconfiguration: the sink is open. *)
StartOpens ==
  /\ ~Idle /\ pending' = <<>> /\ playback' = "playing"
  /\ IF dirty THEN Checkpoint(model, shelf, FALSE)
     ELSE UNCHANGED <<model, shelf, shelfFile, session, dirty, unwritten>>
  /\ UNCHANGED <<names, left, moves>>

(* It failed, or a pause abandons it (abandon_pending_reconfiguration): the model from before
   with the shelf of now, and a checkpoint.  What the start made of a book's place, or of its
   mark, stays if a checkpoint put it on the shelf meanwhile. *)
Undone(m, s) ==
  [b \in Books |-> LET now == Place(m, s, b) was == pending[1].left[b]
                   IN IF now = left[b] \/ (was = End /\ now = Start) THEN now ELSE was]
StartUndone ==
  /\ ~Idle /\ pending' = <<>> /\ playback' = "paused"
  /\ Checkpoint(pending[1].model, shelf, FALSE)
  /\ left' = Undone(model', shelf')
  /\ UNCHANGED <<names, moves>>

-----------------------------------------------------------------------------
(* What is played. *)

(* start_book: the place of the book before it is saved first. *)
PlayBook ==
  /\ Move /\ \E b \in Books, back \in Rewinds : \E chapter \in 0..PartsOf[b] + 1 :
       LET s == Save(shelf, model)
           p == IF chapter = 0 THEN Resume(s, b, back)                \* BookStart::Resume
                ELSE <<IF chapter <= PartsOf[b] THEN chapter ELSE 1, 0>>
           m == [key |-> Key(b), queue |-> FilesOf(b), at |-> p[1], pos |-> p[2]]
       IN Loads(m, s, [left EXCEPT ![b] = Place(m, s, b)])
  /\ UNCHANGED <<names, shelfFile, session, unwritten>>

(* play_selected, play_radio: another queue, after save_book. *)
PlayMusic ==
  /\ Move /\ Loads(NoModel, Save(shelf, model), left)
  /\ UNCHANGED <<names, shelfFile, session, unwritten>>

(* Elsewhere in the queue, with no save: the book left keeps the place the shelf has. *)
At(i, pos) == [model EXCEPT !.at = i, !.pos = pos]
Leaving(m) == [b \in Books |-> IF Plays(m, b) \/ Plays(model, b) THEN Place(m, shelf, b) ELSE left[b]]
Goes(m) == Loads(m, shelf, Leaving(m)) /\ UNCHANGED <<names, shelfFile, session, unwritten>>

(* on_play_now: a song after the current item, at once. *)
PlayNow ==
  /\ Move /\ Song \notin {model.queue[i] : i \in DOMAIN model.queue}
  /\ Goes([model EXCEPT !.queue = SubSeq(@, 1, model.at) \o <<Song>> \o SubSeq(@, model.at + 1, Len(@)),
                        !.at = @ + 1, !.pos = 0])
(* jump_to from Up Next; step of a queue whose current item is no part of a book. *)
JumpTo ==
  /\ Move /\ \E i \in DOMAIN model.queue : i # model.at /\ Goes(At(i, 0))

(* book_step: by chapter; Next on the last one keeps the place. *)
Index(m, part) == CHOOSE i \in DOMAIN m.queue : m.queue[i] # Song /\ m.queue[i][2] = part
BookStep ==
  /\ Move /\ \E b \in Books :
       /\ Plays(model, b)
       /\ LET part == PartOf(model) IN
          \/ part < PartsOf[b] /\ Goes(At(Index(model, part + 1), 0))
          \/ (model.pos > 0 \/ part = 1) /\ Goes(At(model.at, 0))
          \/ model.pos = 0 /\ part > 1 /\ Goes(At(Index(model, part - 1), 0))

(* toggle, from a pause: after a long one a little before the place, else in place. *)
Play ==
  /\ Move /\ Idle /\ playback = "paused"
  /\ \/ \E back \in Rewinds :
          /\ \E b \in Books : Plays(model, b)
          /\ Goes(At(model.at, Back(model.pos, back)))
     \/ Goes(model)
     \/ /\ playback' = "playing" /\ Checkpoint(model, shelf, FALSE)              \* resume_in_place
        /\ UNCHANGED <<names, pending, left>>

Pause ==
  /\ Idle /\ playback = "playing" /\ playback' = "paused" /\ Checkpoint(model, shelf, FALSE)
  /\ UNCHANGED <<names, pending, left, moves>>

(* Event::Position; seek_by; PlaybackAction::Stop, with its checkpoint. *)
Moves(pos) == model' = At(model.at, pos) /\ left' = Leaving(model')
Listen ==
  /\ Move /\ Idle /\ playback = "playing" /\ Item(model) # Song /\ model.pos < PartLength
  /\ Moves(model.pos + 1) /\ dirty' = TRUE
  /\ UNCHANGED <<names, shelf, shelfFile, session, playback, pending, unwritten>>
Seek ==
  /\ Move /\ Idle /\ Item(model) # Song
  /\ \E pos \in 0..PartLength : Moves(pos)
  /\ dirty' = TRUE /\ UNCHANGED <<names, shelf, shelfFile, session, playback, pending, unwritten>>

-----------------------------------------------------------------------------
(* The end of a part. *)

AtEnd == Idle /\ playback = "playing" /\ (Item(model) = Song \/ model.pos = PartLength)

(* Event::TrackBoundary: the decoder went on with the next item of the queue. *)
Boundary ==
  /\ AtEnd /\ Move /\ model.at < Len(model.queue) /\ model' = At(model.at + 1, 0)
  /\ left' = Leaving(model') /\ dirty' = TRUE
  /\ UNCHANGED <<names, shelf, shelfFile, session, playback, pending, unwritten>>

(* finish_book_part: the next part, or the book is finished and starts over. *)
PartEnds ==
  /\ AtEnd /\ Move /\ \E b \in Books :
       /\ Plays(model, b) /\ PartOf(model) < PartsOf[b]
       /\ Goes(At(Index(model, PartOf(model) + 1), 0))
BookEnds ==
  /\ AtEnd /\ Move /\ \E b \in Books :
       /\ Plays(model, b) /\ PartOf(model) = PartsOf[b]
       /\ shelf' = SetFinished(shelf, b, TRUE) /\ Writes(shelf')
       /\ model' = At(Index(model, 1), 0) /\ left' = [left EXCEPT ![b] = End]
  /\ playback' = "paused" /\ dirty' = TRUE /\ UNCHANGED <<names, session, pending>>
(* finish_track of a song: the next item, or it stops. *)
SongEnds ==
  /\ AtEnd /\ Item(model) = Song
  /\ IF model.at < Len(model.queue) THEN Move /\ Goes(At(model.at + 1, 0))
     ELSE /\ playback' = "paused"
          /\ UNCHANGED <<names, shelf, shelfFile, model, session, pending, dirty, left, unwritten, moves>>

-----------------------------------------------------------------------------
(* The book's menu, and the folders. *)

(* set_book_finished, forget_book: the shelf alone is written. *)
Mark ==
  /\ Move /\ Idle
  /\ \E b \in Books, done \in BOOLEAN :
       /\ MarksCurrent \/ ~Plays(model, b)
       /\ shelf' = SetFinished(shelf, b, done) /\ Writes(shelf')
       /\ left' = [left EXCEPT ![b] = IF done THEN End ELSE Start]
  /\ UNCHANGED <<names, model, session, playback, pending, dirty>>

(* A folder is renamed, over USB: playback is paused, the shelf has the place by then, and its
   file unless a write failed. *)
Rename ==
  /\ Idle /\ playback = "paused" /\ Save(shelf, model) = shelf /\ (shelf = shelfFile \/ unwritten)
  /\ \E b \in Books : names[b] < MaxRenames /\ names' = [names EXCEPT ![b] = @ + 1]
  /\ UNCHANGED <<shelf, shelfFile, model, session, playback, pending, dirty, left, unwritten, moves>>

ShelfNext ==
  \/ Tick \/ PrepareSleep \/ PowerCut \/ Shutdown
  \/ StartOpens \/ StartUndone
  \/ PlayBook \/ PlayMusic \/ PlayNow \/ JumpTo \/ BookStep \/ Play \/ Pause \/ Listen \/ Seek
  \/ Boundary \/ PartEnds \/ BookEnds \/ SongEnds \/ Mark \/ Rename
ShelfSpec == ShelfInit /\ [][ShelfNext]_shelfVars

-----------------------------------------------------------------------------
(* The player knows where every book was left: the book playing by the model, the others by
   the shelf, whatever started, failed, was renamed or finished in between. *)
PlacesHold == \A b \in Books : Place(model, shelf, b) = left[b]

(* A book has one place: a rename or a finished book leaves no second record. *)
OnePlace == \A k, l \in DOMAIN shelf : k[1] = l[1] => k = l

PlacesKept == PlacesHold /\ OnePlace

(* While nothing is to be written and no start is in progress, a cut of the power loses no
   book's place: what the two files have together is where the listener left it.  The write of
   the shelf is not tried again when it fails: then the session alone has the place of the book
   playing, once past its beginning, and the place of another book may be lost. *)
CleanIsSafe ==
  ~dirty /\ Idle =>
    \A b \in Books : (unwritten => Begun(session, b)) => Place(session, shelfFile, b) = left[b]

(* Nothing to be written means nothing can be lost (checkpoint_succeeded).  Not so after a write
   of the shelf that failed. *)
CutIsSafe == ~dirty /\ Idle => \A b \in Books : Place(session, shelfFile, b) = left[b]

(* A book marked finished (books.rs: "finished books start over") is finished on the shelf until
   it is heard again.  The code's save_book takes the mark away from the book playing. *)
MarkHolds == \A b \in Books : left[b] = End => PlaceOn(shelf, b) = End
=============================================================================
