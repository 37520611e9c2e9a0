------------------------------ MODULE Quarantine ------------------------------
(***************************************************************************)
(* The start of the library database (reborn-library: Database::spawn,     *)
(* recover_interrupted_quarantines, quarantine_database): a damaged        *)
(* database is moved away with its two sidecars, as one set, into a        *)
(* directory that a marker calls INCOMPLETE until all are there.  Every    *)
(* file operation is a step, may fail where the disk may refuse it, and a  *)
(* crash may follow any of them.                                           *)
(***************************************************************************)
EXTENDS Naturals, Sequences

CONSTANTS
  MaxStarts,    \* bound: starts of the player
  MaxDamages,   \* bound: times the database is found damaged
  DiskFails     \* a file operation may fail

QuarantineAssumption ==
  MaxStarts \in Nat \ {0} /\ MaxDamages \in Nat /\ DiskFails \in BOOLEAN

VARIABLES
  place,     \* each artifact: the set it belongs to (0: no such file), in the live place
  archive,   \* each quarantine directory: its artifacts' sets, its marker
  damaged,   \* the sets found damaged
  made,      \* sets created
  at,        \* what the start is at
  starts
quarantineVars == <<place, archive, damaged, made, at, starts>>

Artifacts == <<"db", "wal", "shm">>
Steps == 1..Len(Artifacts)
Dirs == 1..MaxDamages
NoDir == [exists |-> FALSE, marker |-> FALSE, holds |-> [i \in Steps |-> 0]]

QuarantineInit ==
  /\ place = [i \in Steps |-> 1] /\ archive = [d \in Dirs |-> NoDir]
  /\ damaged = {} /\ made = 1 /\ at = [pc |-> "down", dir |-> 0, step |-> 0] /\ starts = 0

Goes(pc, dir, step) == at' = [pc |-> pc, dir |-> dir, step |-> step]
Keeps == UNCHANGED <<damaged, made, starts>>
Refused == DiskFails /\ Goes("refused", 0, 0) /\ UNCHANGED <<place, archive>>
Interrupted == {d \in Dirs : archive[d].exists /\ archive[d].marker}

-----------------------------------------------------------------------------
(* recover_interrupted_quarantines. *)

Start ==
  /\ at.pc = "down" /\ starts < MaxStarts /\ starts' = starts + 1
  /\ Goes("recover", 0, 1)
  /\ UNCHANGED <<place, archive, damaged, made>>
(* One directory after the other: each artifact goes back, unless there is one in its place. *)
NextDirectory ==
  /\ at.pc = "recover" /\ at.dir = 0
  /\ IF Interrupted = {} THEN Goes("open", 0, 1) ELSE \E d \in Interrupted : Goes("recover", d, 1)
  /\ UNCHANGED <<place, archive>> /\ Keeps
Conflicts == archive[at.dir].holds[at.step] # 0 /\ place[at.step] # 0
MovesBack ==
  /\ at.pc = "recover" /\ at.dir # 0 /\ at.step \in Steps
  /\ LET set == archive[at.dir].holds[at.step] IN
     IF Conflicts THEN Goes("conflict", 0, 0) /\ UNCHANGED <<place, archive>>
     ELSE \/ /\ place' = IF set # 0 THEN [place EXCEPT ![at.step] = set] ELSE place
             /\ archive' = [archive EXCEPT ![at.dir].holds[at.step] = 0]
             /\ Goes("recover", at.dir, at.step + 1)
          \/ set # 0 /\ Refused
  /\ Keeps
MarkerCleared ==
  /\ at.pc = "recover" /\ at.dir # 0 /\ at.step = Len(Artifacts) + 1
  /\ \/ archive' = [archive EXCEPT ![at.dir].marker = FALSE] /\ Goes("recover", at.dir, at.step + 1) /\ UNCHANGED place
     \/ Refused
  /\ Keeps
DirectoryRemoved ==
  /\ at.pc = "recover" /\ at.dir # 0 /\ at.step = Len(Artifacts) + 2
  /\ \/ archive' = [archive EXCEPT ![at.dir] = NoDir] /\ Goes("recover", 0, 1) /\ UNCHANGED place
     \/ Refused
  /\ Keeps

-----------------------------------------------------------------------------
(* open: a file that is not there is created; quick_check finds the damage. *)

Open ==
  /\ at.pc = "open"
  /\ \/ /\ place[1] # 0 /\ place[1] \notin damaged /\ Goes("up", 0, 0)
        /\ place' = [i \in Steps |-> IF place[i] = 0 THEN place[1] ELSE place[i]]
        /\ UNCHANGED <<archive, damaged, made>>
     \/ /\ place[1] # 0 /\ (place[1] \in damaged \/ \E d \in Dirs : ~archive[d].exists)
        /\ damaged' = damaged \cup {place[1]} /\ Goes("mkdir", 0, 0) /\ UNCHANGED <<place, archive, made>>
     \/ /\ place[1] = 0
        /\ made' = made + 1 /\ place' = [i \in Steps |-> IF place[i] = 0 THEN made' ELSE place[i]]
        /\ Goes("up", 0, 0) /\ UNCHANGED <<archive, damaged>>
     \/ Refused /\ UNCHANGED <<damaged, made>>
  /\ UNCHANGED starts

(* quarantine_database: the directory, the marker, the artifacts one by one, the marker again. *)
MakeDirectory ==
  /\ at.pc = "mkdir"
  /\ \/ \E d \in Dirs : /\ ~archive[d].exists /\ archive' = [archive EXCEPT ![d].exists = TRUE]
                        /\ Goes("mark", d, 0) /\ UNCHANGED place
     \/ Refused
  /\ Keeps
(* Without a marker the directory goes again. *)
Mark ==
  /\ at.pc = "mark"
  /\ \/ archive' = [archive EXCEPT ![at.dir].marker = TRUE] /\ Goes("move", at.dir, 1) /\ UNCHANGED place
     \/ DiskFails /\ archive' = [archive EXCEPT ![at.dir] = NoDir] /\ Goes("refused", 0, 0) /\ UNCHANGED place
  /\ Keeps
Moved(i) == place[i] # 0
Move ==
  /\ at.pc = "move" /\ at.step \in Steps
  /\ \/ /\ Moved(at.step)
        /\ archive' = [archive EXCEPT ![at.dir].holds[at.step] = place[at.step]]
        /\ place' = [place EXCEPT ![at.step] = 0] /\ Goes("move", at.dir, at.step + 1)
     \/ ~Moved(at.step) /\ Goes("move", at.dir, at.step + 1) /\ UNCHANGED <<place, archive>>
     \/ Moved(at.step) /\ DiskFails /\ Goes("rollback", at.dir, at.step - 1) /\ UNCHANGED <<place, archive>>
  /\ Keeps
Finalize ==
  /\ at.pc = "move" /\ at.step = Len(Artifacts) + 1
  /\ \/ archive' = [archive EXCEPT ![at.dir].marker = FALSE] /\ Goes("open", 0, 1) /\ UNCHANGED place
     \/ DiskFails /\ Goes("rollback", at.dir, Len(Artifacts)) /\ UNCHANGED <<place, archive>>
  /\ Keeps
\* Plausible bug: the directory goes whatever is left in it.
RollBack_Removes ==
  /\ at.pc = "rollback"
  /\ IF at.step = 0
     THEN /\ archive' = [archive EXCEPT ![at.dir] = NoDir]
          /\ Goes("refused", 0, 0) /\ UNCHANGED place
     ELSE LET set == archive[at.dir].holds[at.step] IN
          /\ \/ /\ place' = IF set # 0 THEN [place EXCEPT ![at.step] = set] ELSE place
                /\ archive' = [archive EXCEPT ![at.dir].holds[at.step] = 0]
             \/ DiskFails /\ set # 0 /\ UNCHANGED <<place, archive>>
          /\ Goes("rollback", at.dir, at.step - 1)
  /\ Keeps

(* restore_quarantine_moves: each that can go back does; if all did the directory goes. *)
RollBack ==
  /\ at.pc = "rollback"
  /\ IF at.step = 0
     THEN /\ archive' = IF \E i \in Steps : archive[at.dir].holds[i] # 0 THEN archive
                        ELSE [archive EXCEPT ![at.dir] = NoDir]
          /\ Goes("refused", 0, 0) /\ UNCHANGED place
     ELSE LET set == archive[at.dir].holds[at.step] IN
          /\ \/ /\ place' = IF set # 0 THEN [place EXCEPT ![at.step] = set] ELSE place
                /\ archive' = [archive EXCEPT ![at.dir].holds[at.step] = 0]
             \/ DiskFails /\ set # 0 /\ UNCHANGED <<place, archive>>
          /\ Goes("rollback", at.dir, at.step - 1)
  /\ Keeps

(* A crash, a power cut, or the player stopping; SQLite takes its sidecars away on a clean stop. *)
PowerCut ==
  /\ at.pc # "down" /\ Goes("down", 0, 0)
  /\ \/ UNCHANGED place
     \/ at.pc = "up" /\ place' = [place EXCEPT ![2] = 0, ![3] = 0]
  /\ UNCHANGED archive /\ Keeps

Recovers == Start \/ NextDirectory \/ MovesBack \/ MarkerCleared \/ DirectoryRemoved
Quarantines == MakeDirectory \/ Mark \/ Move \/ Finalize \/ RollBack
QuarantineNext == Recovers \/ Open \/ Quarantines \/ PowerCut
QuarantineSpec == QuarantineInit /\ [][QuarantineNext]_quarantineVars

-----------------------------------------------------------------------------
(* No database file is opened beside another's write-ahead log: the three are one set. *)
OneSet == at.pc \in {"open", "up"} => \A i \in Steps : place[i] \in {0, place[1]}

(* Nothing is lost: every set ever made still has its database, in its place or in a directory. *)
NothingLost == \A s \in 1..made : place[1] = s \/ \E d \in Dirs : archive[d].holds[1] = s

(* A recovery never meets two copies of one file, which would end every later start. *)
NeverConflicts == at.pc # "conflict"

(* A directory without the marker is whole: the damaged database with all it had. *)
ArchiveIsWhole ==
  \A d \in Dirs : archive[d].exists /\ ~archive[d].marker /\ archive[d].holds # NoDir.holds
    => archive[d].holds[1] \in damaged /\ \A i \in Steps : archive[d].holds[i] \in {0, archive[d].holds[1]}

(* A damaged database is set aside whole, wherever that is cut short. *)
DatabasesAreSafe == OneSet /\ NothingLost /\ NeverConflicts /\ ArchiveIsWhole
=============================================================================
