------------------------------ MODULE MCSongs ------------------------------
(***************************************************************************)
(* What is to be heard and what was, for TLC: Listening, Bookshelf,        *)
(* NextSongs (the queue and the decoder's list) and Stations.  They share  *)
(* no state, so a behaviour is one of a single component, the one `part`   *)
(* names.                                                                  *)
(*                                                                         *)
(* The queue: an album of two songs and a third song of another album, a   *)
(* collection of the three, and a queue of three entries.  The shelf: a    *)
(* book of two parts and one of a single part.  The radio: two lists of    *)
(* the directory, one within the other, and a station of the owner's.      *)
(***************************************************************************)
EXTENDS NextSongs, Listening, Bookshelf, Stations

CONSTANT Parts      \* the components that run
VARIABLE part
vars == <<part, queueVars, listeningVars, shelfVars, radioVars>>

ASSUME SongsAssumption ==
  QueueAssumption /\ NextAssumption /\ ListeningAssumption /\ BookshelfAssumption /\ StationsAssumption

-----------------------------------------------------------------------------
Init == part \in Parts /\ QueueInit /\ ListeningInit /\ ShelfInit /\ StationsInit

QueueStep     == part = "queue" /\ Queueing /\ UNCHANGED <<part, listeningVars, shelfVars, radioVars>>
ListeningStep == part = "listening" /\ ListeningNext /\ UNCHANGED <<part, queueVars, shelfVars, radioVars>>
ShelfStep     == part = "books" /\ ShelfNext /\ UNCHANGED <<part, queueVars, listeningVars, radioVars>>
RadioStep     == part = "stations" /\ StationsNext /\ UNCHANGED <<part, queueVars, listeningVars, shelfVars>>
Next == QueueStep \/ ListeningStep \/ ShelfStep \/ RadioStep
Spec == Init /\ [][Next]_vars

-----------------------------------------------------------------------------
(* Values of constants. *)
TwoAlbums == <<1, 1, 2>>
LongAndShort == [b \in Books |-> IF b = "long" THEN 2 ELSE 1]
OneSource == {<<1, 2, 3>>}
Directory == [l \in Lists |-> IF l = "Popular" THEN {2, 3} ELSE {3}]
\* No action and no property tells two songs of Listening apart.
Symmetry == Permutations(Songs)
=============================================================================
