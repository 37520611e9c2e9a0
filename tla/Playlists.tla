----------------------------- MODULE Playlists -----------------------------
(***************************************************************************)
(* Playlists: the main thread shows copies of the files and sends edits;   *)
(* the playlist worker (playlists.rs) finds, reads and writes the files,   *)
(* job by job, and answers in order; library scans tell it what they met.  *)
(* An edit names an entry by its position and its song, as the copy on     *)
(* screen had them.  A file is its songs in order, as the file names them. *)
(* Left out: names and encodings, sorting, lists too large to change, the  *)
(* write window of the card (its refusal is a write that fails).           *)
(***************************************************************************)
EXTENDS Naturals, SequencesExt, Functions

CONSTANTS
  Files,       \* playlist files of the one storage
  Folder,      \* those in its Playlists folder, where the player makes them
  Favorites,
  Songs,
  Content0,    \* the files there at first: name -> songs
  CardRefuses,  \* the card may refuse
  MaxEvents    \* bound: what the user, scans, the computer and power cuts do, together

PlaylistsAssumption ==
  /\ Favorites \in Folder /\ Folder \subseteq Files /\ DOMAIN Content0 \subseteq Files
  /\ CardRefuses \in BOOLEAN /\ MaxEvents \in Nat

VARIABLES
  disk,        \* the files there: name -> songs
  known,       \* Known::roots of the storage, once it was walked
  scan,        \* the playlist files a scan under way met
  jobs, work, replies,
  lists,       \* PlaylistsView::lists: what the screen shows
  page,        \* the page open, "lists" or "other"
  listed,      \* ghost: this process has read the files once
  entryMenu, moving,            \* the entry whose menu is open; the one being moved
  chosen,      \* ghost: the song the menu or the move was opened on
  strayed,     \* ghost: an edit of another song was written, or the player fell over
  apart,       \* ghost: files the computer changed, a failed job left or the last reading left out
  events
listsVars == <<disk, known, scan, jobs, work, replies, lists, listed, page, entryMenu, moving, chosen, strayed, apart,
               events>>

NoMove == [from |-> 0, to |-> 0]
AtRest == [kind |-> "idle"]
WithFile(f, name, songs) == [n \in DOMAIN f \cup {name} |-> IF n = name THEN songs ELSE f[n]]
WithoutFile(f, name) == Restrict(f, DOMAIN f \ {name})
SameDir(f, g) == (f \in Folder) = (g \in Folder)
Known(found) == [kind |-> "Known", files |-> found]
Edit(file, edit, create, meant) ==
  [kind |-> "Edit", file |-> file, edit |-> edit, create |-> create, meant |-> meant]
Adds(s)              == [op |-> "Append", song |-> s]
Removes(index, s)    == [op |-> "Remove", index |-> index, song |-> s]
Moves(from, to, s)   == [op |-> "Move", index |-> from, to |-> to, song |-> s]
RemovesAll(s)        == [op |-> "RemoveLocations", song |-> s]

\* Playlists is open for the first time.
ListsInit ==
  /\ disk = Content0 /\ known = [on |-> FALSE, files |-> {}] /\ scan = [on |-> FALSE, files |-> {}]
  /\ jobs = <<[kind |-> "Refresh"]>> /\ work = AtRest /\ replies = <<>>
  /\ lists = <<>> /\ listed = FALSE /\ page = "lists" /\ entryMenu = 0 /\ moving = NoMove
  /\ chosen = "none" /\ strayed = FALSE /\ apart = {}
  /\ events = 0

-----------------------------------------------------------------------------
(* Playlist::apply. *)
Holds(edit, songs) ==
  edit.op \in {"Remove", "Move"} => edit.index \in DOMAIN songs /\ songs[edit.index] = edit.song
Applied(edit, songs) ==
  CASE edit.op = "Append" -> Append(songs, edit.song)
    [] edit.op = "Remove" -> RemoveAt(songs, edit.index)
    [] edit.op = "Move"   -> LET rest == RemoveAt(songs, edit.index)
                                 at == IF edit.to > Len(rest) THEN Len(rest) + 1 ELSE edit.to
                             IN InsertAt(rest, at, edit.song)
    [] OTHER -> SelectSeq(songs, LAMBDA s : s # edit.song)

(* The worker.  Known::follow and the reply are one step with the last of   *)
(* the job's own.                                                           *)
Working == UNCHANGED <<scan, lists, page, entryMenu, moving, chosen, events>>
FollowKnown(gone, new) == known' = [known EXCEPT !.files = IF known.on THEN (@ \ gone) \cup new ELSE @]
Answer(reply) == replies' = Append(replies, reply) /\ work' = AtRest
Fails == Answer([kind |-> "Failed"]) /\ UNCHANGED <<disk, known, strayed, apart>>
\* atomic_write fails before its rename, or after it: the file is written all the same.
WriteFails(file, songs) ==
  /\ Answer([kind |-> "Failed"]) /\ UNCHANGED known
  /\ \/ UNCHANGED <<disk, apart>>
     \/ disk' = WithFile(disk, file, songs) /\ apart' = apart \cup {file}
SavedFile(file, songs, created) ==
  /\ Answer([kind |-> "Saved", file |-> file, songs |-> songs, created |-> created])
  /\ disk' = WithFile(disk, file, songs) /\ apart' = apart \ {file}
  /\ FollowKnown({}, IF created THEN {file} ELSE {})
Goes(file, read, made) == work' = [work EXCEPT !.target = file, !.read = read, !.made = made, !.second = TRUE]

TakeJob ==
  /\ work = AtRest /\ jobs # <<>> /\ jobs' = Tail(jobs)
  /\ LET job == Head(jobs)
     IN IF job.kind = "Known" THEN known' = [on |-> TRUE, files |-> job.files] /\ UNCHANGED work
        ELSE /\ work' = [kind |-> job.kind, job |-> job, second |-> FALSE, target |-> "none", read |-> <<>>,
                           made |-> FALSE]
             /\ UNCHANGED known
  /\ UNCHANGED <<disk, replies, listed, strayed, apart>> /\ Working

\* Refresh: the known files and those in the Playlists folder, each read; one walk of the storage before.
\* A file that cannot be read, or is too large, is left out.
ReadLists ==
  /\ work.kind = "Refresh"
  /\ LET all == IF known.on THEN known.files ELSE DOMAIN disk
         found == DOMAIN disk \cap (all \cup Folder)
     IN /\ known' = [on |-> TRUE, files |-> all]
        /\ \E left \in IF CardRefuses THEN SUBSET found ELSE {{}} :
             Answer([kind |-> "Listed", lists |-> Restrict(disk, found \ left)]) /\ apart' = left
  /\ listed' = TRUE /\ UNCHANGED <<jobs, disk, strayed>> /\ Working

\* The first half: an edit reads its file, or makes it; a new file is made empty; a file gets its new name.
FirstHalf(ok) ==
  /\ work.kind \in {"Create", "Edit", "Rename", "Duplicate", "Delete"} /\ ~work.second /\ (CardRefuses \/ ok)
  /\ LET job == work.job
         f == job.file
         there == f \in DOMAIN disk
         Makes(file, read) == /\ disk' = WithFile(disk, file, <<>>) /\ Goes(file, read, TRUE)
                              /\ apart' = apart \cup {file} /\ UNCHANGED <<replies, known, strayed>>
     IN CASE work.kind = "Create" ->
               IF there THEN Fails
               ELSE IF ~ok THEN WriteFails(f, <<>>) /\ UNCHANGED strayed
               ELSE IF job.songs = <<>> THEN SavedFile(f, <<>>, TRUE) /\ UNCHANGED strayed
               ELSE Makes(f, job.songs)
          [] work.kind = "Edit" ->
               IF there /\ ok THEN Goes(f, disk[f], FALSE) /\ UNCHANGED <<disk, replies, known, strayed, apart>>
               ELSE IF there \/ ~job.create THEN Fails
               ELSE IF ok THEN Makes(f, <<>>) ELSE WriteFails(f, <<>>) /\ UNCHANGED strayed
          [] work.kind = "Rename" ->
               IF ~there \/ (job.to # f /\ (job.to \in DOMAIN disk \/ ~ok)) THEN Fails
               ELSE /\ disk' = WithFile(WithoutFile(disk, f), job.to, disk[f]) /\ Goes(job.to, <<>>, FALSE)
                    /\ apart' = apart \cup {f, job.to} /\ UNCHANGED <<replies, known, strayed>>
          [] work.kind = "Duplicate" ->
               LET free == {g \in Files \ DOMAIN disk : SameDir(f, g)}
               IN IF ~there \/ free = {} THEN Fails
                  ELSE \E copy \in free :
                         IF ok THEN Makes(copy, disk[f]) ELSE WriteFails(copy, <<>>) /\ UNCHANGED strayed
          [] OTHER ->
               IF ~there \/ ~ok THEN Fails
               ELSE /\ disk' = WithoutFile(disk, f) /\ apart' = apart \ {f} /\ FollowKnown({f}, {})
                    /\ Answer([kind |-> "Deleted", file |-> f]) /\ UNCHANGED strayed
  /\ UNCHANGED <<jobs, listed>> /\ Working

\* The second half: the file is written whole, or read under its new name.
SecondHalf(ok) ==
  /\ work # AtRest /\ work.kind # "Refresh" /\ work.second /\ (CardRefuses \/ ok)
  /\ LET job == work.job
         f == work.target
     IN CASE work.kind = "Rename" ->
               IF ok /\ f \in DOMAIN disk
                 THEN /\ Answer([kind |-> "Renamed", old |-> job.file, file |-> f, songs |-> disk[f]])
                      /\ apart' = apart \ ({f} \cup ({job.file} \ DOMAIN disk)) /\ FollowKnown({job.file}, {f})
                      /\ UNCHANGED <<disk, strayed>>
                 ELSE Fails
          [] work.kind = "Edit" ->
               LET songs == Applied(job.edit, work.read)
                   astray == job.edit.op \in {"Remove", "Move"} /\ job.edit.song # job.meant
               IN IF ~Holds(job.edit, work.read) THEN Fails
                  ELSE /\ IF ok THEN SavedFile(f, songs, work.made) ELSE WriteFails(f, songs)
                       /\ strayed' = (strayed \/ (astray /\ disk' # disk))
          [] OTHER ->
               /\ IF ok THEN SavedFile(f, work.read, TRUE) ELSE WriteFails(f, work.read)
               /\ UNCHANGED strayed
  /\ UNCHANGED <<jobs, listed>> /\ Working

-----------------------------------------------------------------------------
Turn == events < MaxEvents /\ events' = events + 1

(* A scan walks the whole storage; its result passes through the main loop,  *)
(* which may have the library, and with it the playlists, read again.        *)
ScanWalks ==
  /\ ~scan.on /\ Turn /\ scan' = [on |-> TRUE, files |-> DOMAIN disk]
  /\ UNCHANGED <<disk, known, jobs, work, replies, lists, listed, page, entryMenu, moving, chosen, strayed, apart>>
ScanEnds ==
  /\ scan.on /\ scan' = [on |-> FALSE, files |-> {}]
  /\ \E again \in {<<>>, <<[kind |-> "Refresh"]>>} :
       jobs' = jobs \o (IF scan.files = {} THEN <<>> ELSE <<Known(scan.files)>>) \o again
  /\ UNCHANGED <<disk, known, work, replies, lists, listed, page, entryMenu, moving, chosen, strayed, apart, events>>

\* The computer changes a file, makes one or takes one away.
ComputerWrites ==
  /\ Turn
  /\ \E f \in Files :
       /\ disk' \in {WithoutFile(disk, f)} \cup {WithFile(disk, f, <<s>>) : s \in Songs}
       /\ apart' = apart \cup {f}
  /\ UNCHANGED <<known, scan, jobs, work, replies, lists, listed, page, entryMenu, moving, chosen, strayed>>

-----------------------------------------------------------------------------
(* The screens. *)
Screen == UNCHANGED <<disk, known, scan, work, replies, apart>>
Sends(job) == jobs' = Append(jobs, job)
Shown == page \in DOMAIN lists
\* moving_action takes every key while the list of the page is there.
Plain == entryMenu = 0 /\ (moving = NoMove \/ ~Shown)

OpenLists ==
  /\ Turn /\ Plain /\ page' = "lists" /\ Sends([kind |-> "Refresh"])
  /\ UNCHANGED <<lists, listed, entryMenu, moving, chosen, strayed>> /\ Screen
OpenPage ==
  /\ events < MaxEvents /\ Plain /\ page = "lists" /\ page' \in DOMAIN lists
  /\ UNCHANGED <<jobs, lists, listed, entryMenu, moving, chosen, strayed, events>> /\ Screen

\* Back.
LeavePage ==
  /\ Plain /\ page \in Files /\ page' = "lists"
  /\ UNCHANGED <<jobs, lists, listed, entryMenu, moving, chosen, strayed, events>> /\ Screen

OpenEntryMenu ==
  /\ Turn /\ Plain /\ Shown /\ entryMenu' \in DOMAIN lists[page] /\ chosen' = lists[page][entryMenu']
  /\ UNCHANGED <<jobs, lists, listed, page, moving, strayed>> /\ Screen
CloseMenu ==
  /\ entryMenu # 0 /\ entryMenu' = 0 /\ chosen' = "none"
  /\ UNCHANGED <<jobs, lists, listed, page, moving, strayed, events>> /\ Screen
\* playlist_context_action: the entry at the index the menu was opened on, as the list is now.
RemoveEntry ==
  /\ Shown /\ entryMenu \in DOMAIN lists[page]
  /\ Sends(Edit(page, Removes(entryMenu, lists[page][entryMenu]), FALSE, chosen))
  /\ entryMenu' = 0 /\ chosen' = "none"
  /\ UNCHANGED <<lists, listed, page, moving, strayed, events>> /\ Screen
StartMove ==
  /\ Shown /\ entryMenu \in DOMAIN lists[page]
  /\ moving' = [from |-> entryMenu, to |-> entryMenu] /\ entryMenu' = 0
  /\ UNCHANGED <<jobs, lists, listed, page, chosen, strayed, events>> /\ Screen
\* moving_action: the wheel.
Carry ==
  /\ moving # NoMove /\ Shown
  /\ \E to \in 1 .. IF lists[page] = <<>> THEN 1 ELSE Len(lists[page]) : moving' = [moving EXCEPT !.to = to]
  /\ UNCHANGED <<jobs, lists, listed, page, entryMenu, chosen, strayed, events>> /\ Screen
PutBack ==
  /\ moving # NoMove /\ Shown /\ moving' = NoMove /\ chosen' = "none"
  /\ UNCHANGED <<jobs, lists, listed, page, entryMenu, strayed, events>> /\ Screen
\* moving_action: Select.
DropEntry ==
  /\ Shown /\ moving # NoMove /\ (moving.to # moving.from => moving.from \in DOMAIN lists[page])
  /\ IF moving.to = moving.from THEN UNCHANGED jobs
     ELSE Sends(Edit(page, Moves(moving.from, moving.to, lists[page][moving.from]), FALSE, chosen))
  /\ moving' = NoMove /\ chosen' = "none"
  /\ UNCHANGED <<lists, listed, page, entryMenu, strayed, events>> /\ Screen

\* The heart, by what the screen shows of Favorites.
Heart(s) ==
  /\ Turn /\ Plain
  /\ LET here == Favorites \in DOMAIN lists /\ \E i \in DOMAIN lists[Favorites] : lists[Favorites][i] = s
     IN Sends(Edit(Favorites, IF here THEN RemovesAll(s) ELSE Adds(s), TRUE, s))
  /\ UNCHANGED <<lists, listed, page, entryMenu, moving, chosen, strayed>> /\ Screen
AddTo(f, s) ==
  /\ Turn /\ Plain /\ f \in DOMAIN lists /\ Sends(Edit(f, Adds(s), TRUE, s))
  /\ UNCHANGED <<lists, listed, page, entryMenu, moving, chosen, strayed>> /\ Screen
NewPlaylist(f, songs) ==
  /\ Turn /\ Plain /\ f \in Folder \ {Favorites} /\ Sends([kind |-> "Create", file |-> f, songs |-> songs])
  /\ UNCHANGED <<lists, listed, page, entryMenu, moving, chosen, strayed>> /\ Screen
FromMenu(f) ==
  /\ Turn /\ Plain /\ f \in DOMAIN lists
  /\ \/ f # Favorites /\ \E g \in Files : SameDir(f, g) /\ Sends([kind |-> "Rename", file |-> f, to |-> g])
     \/ Sends([kind |-> "Duplicate", file |-> f])
     \/ f # Favorites /\ Sends([kind |-> "Delete", file |-> f])
  /\ UNCHANGED <<lists, listed, page, entryMenu, moving, chosen, strayed>> /\ Screen

\* What a reply does to the lists.
\* Plausible bug: a renamed list stays under its old name.
Takes_KeepsOld(l, r) ==
  CASE r.kind = "Listed"  -> r.lists
    [] r.kind = "Saved"   -> WithFile(l, r.file, r.songs)
    [] r.kind = "Renamed" -> WithFile(l, r.file, r.songs)
    [] r.kind = "Deleted" -> WithoutFile(l, r.file)
    [] OTHER -> l
Takes(l, r) ==
  CASE r.kind = "Listed"  -> r.lists
    [] r.kind = "Saved"   -> WithFile(l, r.file, r.songs)
    [] r.kind = "Renamed" -> WithFile(WithoutFile(l, r.old), r.file, r.songs)
    [] r.kind = "Deleted" -> WithoutFile(l, r.file)
    [] OTHER -> l

(* playlist_reply: a list just made opens, the page follows a new name and   *)
(* goes back with its list, which closes a menu first; else a menu stays, and *)
(* a move unless its page went.                                              *)
TakeAnswer ==
  /\ replies # <<>> /\ replies' = Tail(replies)
  /\ LET r == Head(replies)
         moved == (r.kind = "Renamed" /\ page = r.old) \/ (r.kind = "Deleted" /\ page = r.file)
     IN /\ lists' = Takes(lists, r)
        /\ page' = CASE moved /\ r.kind = "Renamed" -> r.file
                     [] moved -> IF entryMenu = 0 THEN "lists" ELSE page
                     [] r.kind = "Saved" /\ page = "lists" -> IF r.created /\ r.file # Favorites THEN r.file ELSE page
                     [] OTHER -> page
        /\ moving' = IF moved THEN NoMove ELSE moving
        /\ entryMenu' = IF moved /\ r.kind = "Deleted" THEN 0 ELSE entryMenu
  /\ UNCHANGED <<disk, known, scan, jobs, work, listed, chosen, strayed, apart, events>>

\* The next process: what was not written is gone; the known files are kept in a file.
Begins ==
  /\ scan' = [on |-> FALSE, files |-> {}] /\ jobs' = <<>> /\ work' = AtRest /\ replies' = <<>> /\ lists' = <<>> /\ listed' = FALSE
  /\ page' = "other" /\ entryMenu' = 0 /\ moving' = NoMove /\ chosen' = "none" /\ apart' = {}
PowerCut ==
  /\ Turn /\ Begins
  /\ UNCHANGED <<disk, known, strayed>>
\* Select on a move whose entry the list no longer has: the index is out of bounds.
DropPanics ==
  /\ Shown /\ moving # NoMove /\ moving.to # moving.from /\ moving.from \notin DOMAIN lists[page]
  /\ Begins /\ strayed' = TRUE
  /\ UNCHANGED <<disk, known, events>>

ListsNext ==
  \/ TakeJob \/ ReadLists \/ ScanWalks \/ ScanEnds \/ ComputerWrites \/ TakeAnswer \/ PowerCut
  \/ \E ok \in BOOLEAN : FirstHalf(ok) \/ SecondHalf(ok)
  \/ OpenLists \/ OpenPage \/ LeavePage \/ OpenEntryMenu \/ CloseMenu \/ RemoveEntry \/ StartMove \/ Carry \/ PutBack \/ DropEntry
  \/ DropPanics
  \/ \E s \in Songs : Heart(s) \/ \E f \in Files : AddTo(f, s) \/ NewPlaylist(f, <<s>>)
  \/ \E f \in Files : NewPlaylist(f, <<>>) \/ FromMenu(f)
ListsSpec == ListsInit /\ [][ListsNext]_listsVars

-----------------------------------------------------------------------------
(* The lists on screen, once the answers under way are taken, are the files: *)
(* what a list shows is what its file holds, and a file in the Playlists     *)
(* folder has its list.  Save a file the computer changed, or a failed job   *)
(* left, since it was read, or that could not be read.  What a file's list   *)
(* will be is what the last of the answers that are about it says, or what   *)
(* it is if there is none.                                                   *)
IsAbout(r, f) ==
  \/ r.kind = "Listed"
  \/ r.kind \in {"Saved", "Renamed", "Deleted"} /\ f = r.file
  \/ r.kind = "Renamed" /\ f = r.old
LastWord(i, f) == IsAbout(replies[i], f) /\ \A j \in DOMAIN replies : j > i => ~IsAbout(replies[j], f)
Agrees(l, f) ==
  /\ f \in DOMAIN l => f \in DOMAIN disk /\ l[f] = disk[f]
  /\ f \in DOMAIN disk /\ f \in Folder /\ listed => f \in DOMAIN l
ScreenIsFiles ==
  \A f \in Files \ apart :
    /\ \A i \in DOMAIN replies : LastWord(i, f) => Agrees(Takes(<<>>, replies[i]), f)
    /\ (\A i \in DOMAIN replies : ~IsAbout(replies[i], f)) => Agrees(lists, f)

(* "An edit never lands on a different song if the file moved under it"      *)
(* (PlaylistEdit).  Not so: the position is kept while the list on screen    *)
(* changes, and the song is read from the new list.                          *)
EditsHitTheChosen == ~strayed
=============================================================================
