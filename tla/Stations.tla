----------------------------- MODULE Stations -----------------------------
(***************************************************************************)
(* Internet radio in the main thread (runtime/radio.rs, the Radio screens  *)
(* in selects.rs): the list on screen and the requests of the directory,   *)
(* each answered by a thread of its own; favourites and their file; the    *)
(* station that plays, and Previous/Next through the list it came from.    *)
(* A station is its key, and whether it carries what the directory sends   *)
(* now.  The lists on screen go by key, so a list is a set of stations and *)
(* a row of it the rank of one; the order of the favourites in their file  *)
(* is never seen.  A start may fail early, or later: then the model goes   *)
(* back, and nothing else does (with_model_action).  The session brings    *)
(* the station back at the next start, paused, and nothing of the screen.  *)
(* Left out: logos, the song line, the click counter, the cap of 200, the  *)
(* order of popular lists, a session that cannot be read.                  *)
(***************************************************************************)
EXTENDS Naturals, Sequences, FiniteSets

CONSTANTS
  Keys,        \* stations; a smaller number comes first by name
  Own,         \* the stations of the owner's own lists, which have no id
  Lists,       \* the directory's lists
  Content,     \* what each holds
  Starred0,    \* the favourites saved at first, before the directory sent details
  SavesFail,   \* the favourites' file may fail to be written
  MaxTurns, MaxRequests, MaxRestarts      \* bounds

None == 0
Music == 1
StationsAssumption ==
  /\ Keys \subseteq Nat \ {None, Music} /\ Own \subseteq Keys /\ Starred0 \subseteq Keys
  /\ Content \in [Lists -> SUBSET (Keys \ Own)]
  /\ {"Favorites", "Own", "Categories", "None"} \cap Lists = {}
  /\ SavesFail \in BOOLEAN
  /\ {MaxTurns, MaxRequests, MaxRestarts} \subseteq Nat

Local   == {"Favorites", "Own"}
Station == [key : Keys, fresh : BOOLEAN]
Nobody  == [key |-> 0, fresh |-> FALSE]
Settled == [on |-> FALSE, queue |-> None]

VARIABLES
  view,       \* RadioView: request, stations, loading, error, favorites, now
  menu,       \* the row whose menu is open, 0 for none
  sequence, asked, replies,       \* requests under way and answers not taken
  favorites, file,                \* radio_favorites and state/radio.json
  current, list,                  \* radio_current, radio_list
  queue,      \* the queue's track, playing or paused: None, Music or a station
  sessionQueue,                   \* the queue as state/session.json has it
  start,      \* the start that may still roll the model back
  unsaved, refused, rolledBack,   \* ghosts: the last save, request, start that failed
  restored,   \* ghost: the queue's station came with the session, none was chosen since
  turns, restarts
radioVars == <<view, menu, sequence, asked, replies, favorites, file, current, list, queue, start,
               sessionQueue, unsaved, refused, rolledBack, restored, turns, restarts>>

\* A list of stations: those shown, saved or gone through, one for each key.
KeysOf(stations) == {s.key : s \in stations}
Listed(keys, fresh) == [key : keys, fresh : {fresh}]
\* The row a station has in a list.
RowOf(s, stations) == Cardinality({t \in stations : t.key <= s.key})
\* The one after another, and around at the end.
ComesAfter(t, s, stations) ==
  \/ s.key < t.key /\ ~\E o \in stations : s.key < o.key /\ o.key < t.key
  \/ /\ \A o \in stations : t.key <= o.key
     /\ \A o \in stations : o.key <= s.key

StationsInit ==
  /\ file = Listed(Starred0, FALSE)
  /\ favorites = file
  /\ view = [request |-> "None", stations |-> {}, loading |-> FALSE, error |-> FALSE,
             favorites |-> Starred0, now |-> Nobody]
  /\ menu = 0 /\ sequence = 0 /\ asked = {} /\ replies = <<>>
  /\ current = Nobody /\ list = {} /\ queue = None /\ start = Settled
  /\ sessionQueue = None /\ restored = FALSE
  /\ unsaved = FALSE /\ refused = FALSE /\ rolledBack = FALSE /\ turns = 0 /\ restarts = 0

-----------------------------------------------------------------------------
(* Every wish of the user is refused while a start is pending: what the    *)
(* screen did before it asked stays.                                        *)
Turn == turns < MaxTurns /\ turns' = turns + 1
Free == ~start.on
Same == UNCHANGED <<sessionQueue, restarts>>
Rest == UNCHANGED restored /\ Same

Shows(request, stations) == [view EXCEPT !.request = request, !.stations = stations, !.loading = FALSE, !.error = FALSE]
Awaits(request, stations) == [view EXCEPT !.request = request, !.stations = stations, !.loading = TRUE, !.error = FALSE]

\* Effect::Radio of a request the directory answers.
Spawned(request) ==
  /\ Free
  /\ sequence' = sequence + 1
  /\ asked' = asked \cup {[seq |-> sequence', request |-> request]}
  /\ refused' = FALSE
Refused == ~Free /\ refused' = TRUE /\ UNCHANGED <<sequence, asked>>

\* A list is opened: cleared, loading, asked for.
OpenList(request) ==
  /\ Turn /\ menu = 0 /\ sequence < MaxRequests
  /\ view' = Awaits(request, {})
  /\ Spawned(request) \/ Refused
  /\ UNCHANGED <<menu, replies, favorites, file, current, list, queue, start, unsaved, rolledBack>> /\ Rest
\* Countries or genres: the list of stations stays.
OpenCategories ==
  /\ Turn /\ menu = 0 /\ sequence < MaxRequests
  /\ view' = Awaits("Categories", view.stations)
  /\ Spawned("Categories") \/ Refused
  /\ UNCHANGED <<menu, replies, favorites, file, current, list, queue, start, unsaved, rolledBack>> /\ Rest

\* Favourites and the owner's lists are here at once.
Held(request) == IF request = "Favorites" THEN favorites ELSE Listed(Own, FALSE)
OpenLocal(request) ==
  /\ Turn /\ menu = 0
  /\ IF Free THEN view' = Shows(request, Held(request)) /\ refused' = FALSE
             ELSE view' = Awaits(request, {}) /\ refused' = TRUE
  /\ UNCHANGED <<menu, sequence, asked, replies, favorites, file, current, list, queue, start, unsaved,
                 rolledBack>> /\ Rest

\* "Try Again".
Retry ==
  /\ Turn /\ menu = 0 /\ view.error /\ view.request \notin Local /\ sequence < MaxRequests
  /\ view' = [view EXCEPT !.loading = TRUE, !.error = FALSE]
  /\ Spawned(view.request) \/ Refused
  /\ UNCHANGED <<menu, replies, favorites, file, current, list, queue, start, unsaved, rolledBack>> /\ Rest

\* The thread of a request ends; they end in any order.
Answers(a, ok) ==
  /\ a \in asked /\ asked' = asked \ {a}
  /\ replies' = Append(replies, [seq |-> a.seq, request |-> a.request, ok |-> ok])
  /\ UNCHANGED <<view, menu, sequence, favorites, file, current, list, queue, start, unsaved, refused,
                 rolledBack, turns>> /\ Rest

-----------------------------------------------------------------------------
(* refresh_favorites: a favourite the directory sends again is renewed.      *)
Renewed(keys) ==
  {IF f.key \in keys \ Own THEN [f EXCEPT !.fresh = TRUE] ELSE f : f \in favorites}

\* Plausible bug: the answer to an older request is shown.
IsLatest_Any(r) == TRUE
IsLatest(r) == r.seq = sequence

(* radio_reply for the first answer, then radio_tick.  A save of renewed     *)
(* favourites that fails is not noticed.                                     *)
TakeReply(saved) ==
  /\ replies # <<>> /\ (SavesFail \/ saved)
  /\ LET r == Head(replies)
         sent == IF r.request \in Lists THEN Content[r.request] ELSE {}
         renewed == Renewed(sent)
     IN IF ~IsLatest(r)
          THEN UNCHANGED <<view, favorites, file>>
          ELSE /\ favorites' = IF r.ok THEN renewed ELSE favorites
               /\ file' = IF r.ok /\ renewed # favorites /\ saved THEN renewed ELSE file
               /\ view' = [view EXCEPT
                    !.stations = IF r.ok /\ r.request \in Lists THEN Listed(sent, TRUE) ELSE @,
                    !.loading = FALSE, !.error = ~r.ok]
  /\ replies' = Tail(replies)
  /\ UNCHANGED <<menu, sequence, asked, current, list, queue, start, unsaved, refused, rolledBack, turns>> /\ Rest

\* radio_tick: no station plays any more.
RadioTick ==
  /\ queue \in {None, Music} /\ view.now # Nobody
  /\ view' = [view EXCEPT !.now = Nobody]
  /\ UNCHANGED <<menu, sequence, asked, replies, favorites, file, current, list, queue, start, unsaved,
                 refused, rolledBack, turns>> /\ Rest

-----------------------------------------------------------------------------
ListFor(s) ==
  IF s.key \in KeysOf(view.stations) THEN view.stations
  ELSE IF s.key \in KeysOf(list) THEN list ELSE {}

(* play_radio.  A load that fails before the release leaves all of the model *)
(* as it was; one that goes on may be rolled back later.                     *)
PlayRadio(s, outcome) ==
  /\ list' = ListFor(s)
  /\ view' = [view EXCEPT !.now = s]
  /\ restored' = (restored /\ outcome = "fails")
  /\ CASE outcome = "fails"   -> rolledBack' = TRUE /\ UNCHANGED <<queue, current, start>>
       [] outcome = "starts"  -> /\ queue' = s.key /\ current' = s /\ rolledBack' = FALSE
                                 /\ start' = [on |-> TRUE, queue |-> queue]
       [] outcome = "waits"   -> /\ queue' = s.key /\ current' = s /\ rolledBack' = FALSE
                                 /\ UNCHANGED start
Outcomes == {"fails", "starts", "waits"}
PlayTurn == UNCHANGED <<sequence, asked, replies, favorites, file, unsaved, refused>> /\ Same

\* A row pressed, or Play in its menu: by its index, as the list is now.
PlayRow(outcome) ==
  /\ Turn /\ Free
  /\ \E s \in view.stations :
       /\ menu \in {0, RowOf(s, view.stations)}
       /\ PlayRadio(s, outcome)
  /\ menu' = 0 /\ PlayTurn
\* Station Info keeps a station of its own.
PlayStation(s, outcome) ==
  /\ Turn /\ Free /\ menu = 0 /\ PlayRadio(s, outcome) /\ UNCHANGED menu /\ PlayTurn

\* Previous and Next: the neighbour of radio_current in radio_list.
Zap(next, outcome) ==
  /\ Turn /\ Free /\ menu = 0 /\ queue \notin {None, Music}
  /\ \E s \in list, t \in list :
       /\ s.key = current.key /\ s # t
       /\ IF next THEN ComesAfter(t, s, list) ELSE ComesAfter(s, t, list)
       /\ PlayRadio(t, outcome)
  /\ UNCHANGED menu /\ PlayTurn

PlaySong ==
  /\ Turn /\ Free /\ menu = 0 /\ queue' = Music /\ restored' = FALSE
  /\ UNCHANGED <<view, menu, current, list, start, rolledBack>> /\ PlayTurn
\* Play of the station the queue has, which may start late; play_radio is not asked.
PlayCurrent ==
  /\ Turn /\ Free /\ menu = 0 /\ queue \notin {None, Music}
  /\ start' \in {Settled, [on |-> TRUE, queue |-> queue]}
  /\ UNCHANGED <<view, menu, current, list, queue, rolledBack, restored>> /\ PlayTurn

\* poll_pending_reconfiguration; Play/Pause keeps the station, a sleep or a lost peer rolls back.
StartEnds(kept) ==
  /\ start.on /\ start' = Settled
  /\ queue' = IF kept THEN queue ELSE start.queue
  /\ rolledBack' = (rolledBack \/ queue' # queue)
  /\ UNCHANGED <<view, menu, current, list, restored, turns>> /\ PlayTurn

\* checkpoint: the session is not written while a start is pending.
SaveSession ==
  /\ Free /\ sessionQueue # queue /\ sessionQueue' = queue
  /\ UNCHANGED <<view, menu, sequence, asked, replies, favorites, file, current, list, queue, start,
                 unsaved, refused, rolledBack, restored, turns, restarts>>

-----------------------------------------------------------------------------
OpenMenu ==
  /\ Turn /\ menu = 0 /\ menu' \in 1..Cardinality(view.stations)
  /\ UNCHANGED <<view, sequence, asked, replies, favorites, file, current, list, queue, start, unsaved,
                 refused, rolledBack>> /\ Rest
CloseMenu ==
  /\ menu # 0 /\ menu' = 0
  /\ UNCHANGED <<view, sequence, asked, replies, favorites, file, current, list, queue, start, unsaved,
                 refused, rolledBack, turns>> /\ Rest

Toggled(s) ==
  IF s.key \in KeysOf(favorites) THEN {f \in favorites : f.key # s.key} ELSE favorites \cup {s}
(* toggle_favorite: the memory changes first; the screen follows the file.   *)
Toggle(s, saved) ==
  LET toggled == Toggled(s)
  IN /\ favorites' = toggled
     /\ file' = IF saved THEN toggled ELSE file
     /\ unsaved' = ~saved
     /\ view' = IF saved
                  THEN [view EXCEPT !.favorites = KeysOf(toggled),
                                    !.stations = IF view.request = "Favorites" THEN toggled ELSE @]
                  ELSE view
ToggleRest == UNCHANGED <<sequence, asked, replies, current, list, queue, start, refused, rolledBack>> /\ Rest
ToggleRow(saved) ==
  /\ Turn /\ Free /\ (SavesFail \/ saved)
  /\ \E s \in view.stations : menu = RowOf(s, view.stations) /\ Toggle(s, saved)
  /\ menu' = 0 /\ ToggleRest
ToggleCurrent(saved) ==
  /\ Turn /\ Free /\ menu = 0 /\ view.now # Nobody /\ current # Nobody /\ (SavesFail \/ saved)
  /\ Toggle(current, saved) /\ UNCHANGED menu /\ ToggleRest

\* The next process reads the favourites' file and the session, which a shutdown wrote anew.
RestartRadio ==
  /\ restarts < MaxRestarts /\ restarts' = restarts + 1
  /\ favorites' = file
  /\ view' = [request |-> "None", stations |-> {}, loading |-> FALSE, error |-> FALSE,
              favorites |-> KeysOf(file), now |-> Nobody]
  /\ menu' = 0 /\ asked' = {} /\ replies' = <<>> /\ sequence' = 0
  /\ queue' \in {sessionQueue, queue} /\ sessionQueue' = queue' /\ restored' = (queue' \notin {None, Music})
  /\ current' = Nobody /\ list' = {} /\ start' = Settled
  /\ unsaved' = FALSE /\ refused' = FALSE /\ rolledBack' = FALSE /\ UNCHANGED <<file, turns>>

StationsNext ==
  \/ \E request \in Lists : OpenList(request)
  \/ OpenCategories \/ Retry \/ (\E request \in Local : OpenLocal(request))
  \/ \E a \in asked, ok \in BOOLEAN : Answers(a, ok)
  \/ (\E saved \in BOOLEAN : TakeReply(saved) \/ ToggleRow(saved) \/ ToggleCurrent(saved))
  \/ RadioTick \/ OpenMenu \/ CloseMenu \/ PlaySong \/ PlayCurrent \/ SaveSession \/ RestartRadio
  \/ \E outcome \in Outcomes :
       \/ PlayRow(outcome) \/ (\E s \in Station : PlayStation(s, outcome))
       \/ (\E next \in BOOLEAN : Zap(next, outcome))
  \/ \E kept \in BOOLEAN : StartEnds(kept)
StationsSpec == StationsInit /\ [][StationsNext]_radioVars

-----------------------------------------------------------------------------
(* A list of the directory on screen is the one that was asked for last,     *)
(* whichever thread answers first; unless that request was refused because   *)
(* the audio output was starting.                                            *)
ListIsAsked ==
  view.request \in Lists /\ view.stations # {} /\ ~refused => KeysOf(view.stations) = Content[view.request]

(* "Loading" has an answer coming, unless the request was refused: then it   *)
(* stays until another list is opened.                                       *)
LoadingHasAnAnswer ==
  view.loading /\ ~refused =>
    \/ \E a \in asked : a.seq = sequence
    \/ \E i \in DOMAIN replies : replies[i].seq = sequence

(* The stars and the file agree with the memory, except after a save that    *)
(* failed, of which the user was told.                                       *)
StarsAreSaved ==
  ~unsaved => view.favorites = KeysOf(favorites) /\ view.favorites = KeysOf(file)

(* The station shown, the one Previous/Next go on from and the one that      *)
(* plays are one, and in the list they go through, except after a start that *)
(* was rolled back.  Of a station the session brought back nothing is shown, *)
(* and Previous/Next have nowhere to go, until a station is chosen.          *)
NowIsHeard ==
  queue \notin {None, Music} /\ ~rolledBack =>
    IF restored THEN view.now = Nobody /\ current = Nobody /\ list = {}
    ELSE view.now.key = queue /\ current.key = queue /\ (list = {} \/ queue \in KeysOf(list))

StationsAgree == ListIsAsked /\ LoadingHasAnAnswer /\ StarsAreSaved /\ NowIsHeard

(* A station that plays is shown (view.now) unless a start was rolled back.  *)
(* Not so after a restart: Play on the station of the session shows nothing. *)
PlayingIsShown ==
  queue \notin {None, Music} /\ start.on /\ ~rolledBack => view.now.key = queue

(* "Replies to older requests are dropped" (radio_reply): what is on screen  *)
(* is what its title says.  Not so: a list that is here at once is no        *)
(* request, so the late answer to the one before takes its place.            *)
LocalIsShown ==
  view.request = "Own" /\ view.stations # {} => KeysOf(view.stations) = Own
=============================================================================
